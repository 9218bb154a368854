-------------------------- MODULE SandboxLifecycle --------------------------
(***************************************************************************)
(* Sandboxes on the control plane, and the calls about them                *)
(* (sandbox/api.rs, sandbox/sandbox.rs): several tasks create, connect,    *)
(* pause, kill and use them, each call one request (create may need two),  *)
(* any of which may be lost or answered late, while sandboxes time out and *)
(* somebody lists them (Paginator).                                        *)
(***************************************************************************)
EXTENDS Integers, FiniteSets

CONSTANTS Ids,      \* sandboxes, in the order of a listing: a subset of Nat \ {0}
          Callers,  \* tasks with a handle or an id
          Targets,  \* bound: the sandboxes that calls name
          Limit,    \* items on a page at most
          MaxCalls, \* bound: calls, of all callers
          MaxBeside \* bound: calls beside a listing, which begins before them

ASSUME SandboxAssumption == /\ Ids \subseteq Nat \ {0} /\ IsFiniteSet(Ids)
                            /\ Targets \subseteq Ids
                            /\ Limit \in Nat \ {0}
                            /\ MaxCalls \in Nat /\ MaxBeside \in 0..MaxCalls
                            /\ IsFiniteSet(Callers)

VARIABLES
  \* The control plane.
  sandbox,  \* per id: "absent" (not yet), "running", "paused", "gone"
  old,      \* pairs of a gate and an id whose envd is older than the gate asks
  adrift,   \* how many requests are under way that nobody awaits, by kind and id
  \* The callers.
  call,     \* per caller: [op, at, req, id, code, result]; at is "idle", "sent",
            \* "answered", "returned"; req and id are the request's, code its answer
  calls,    \* calls made
  \* History.
  seen,     \* per caller, the states its sandbox has been in during its call
  unheard,  \* ids whose create has said neither Ok nor an error but Template
  credit,   \* per id and request, those served less those reported as true
  \* The listing.
  has_next, next_token, page, listed, again, begun, steady

plane  == <<sandbox, old, adrift>>
tasks  == <<call, calls>>
record == <<seen, unheard, credit>>
pager  == <<has_next, next_token, page, listed, again, begun, steady>>
vars   == <<plane, tasks, record, pager>>

Living == {i \in Ids : sandbox[i] \in {"running", "paused"}}

List == INSTANCE Paginator WITH present <- Living

\* To the model set_timeout is create_snapshot and get_info too.
Uses == {"set_timeout", "update_network", "get_metrics"}
Ops  == Uses \union {"create", "connect", "kill", "pause", "is_running"}
Requests == Ops \X (Ids \union {0})
Codes == {"none", "ok", "running", "paused", "404", "409", "5xx"}

NoCall == [op |-> "none", at |-> "idle", req |-> "none", id |-> 0, code |-> "none",
           result |-> "none"]

\* The first few sandboxes are running already, made by others.
Init == /\ \E n \in Ids \union {0} :
             sandbox = [i \in Ids |-> IF i <= n THEN "running" ELSE "absent"]
        /\ old = {}
        /\ adrift = [r \in Requests |-> 0]
        /\ call = [c \in Callers |-> NoCall] /\ calls = 0
        /\ seen = [c \in Callers |-> {}] /\ unheard = {}
        /\ credit = [i \in Ids |-> [kill |-> 0, pause |-> 0]]
        /\ List!PagerInit

-----------------------------------------------------------------------------
(* The control plane serves a request.                                     *)

Becomes(i, s) == sandbox' = [sandbox EXCEPT ![i] = s] /\ UNCHANGED old

\* What asks for a version: create for MIN_ENVD_VERSION, get_metrics for a later one.
Gates == {"create", "get_metrics"}

\* What POST /sandboxes does: it answers with an id and the version of its envd.
ServeCreate(i) == /\ sandbox[i] = "absent"
                  /\ sandbox' = [sandbox EXCEPT ![i] = "running"]
                  /\ \E gates \in SUBSET Gates :
                       /\ "create" \in gates => "get_metrics" \in gates
                       /\ old' = old \union (gates \X {i})
                  /\ UNCHANGED credit

\* The answers to a request about sandbox i, and what it does.
Serve(req, i, code) ==
  \/ /\ i \notin Living /\ code = "404"
     /\ UNCHANGED <<sandbox, old, credit>>
  \/ code = "5xx" /\ UNCHANGED <<sandbox, old, credit>>
  \/ /\ req = "connect" /\ i \in Living /\ code = "ok"
     /\ Becomes(i, "running") /\ UNCHANGED credit
  \/ /\ req = "kill" /\ i \in Living /\ code = "ok"
     /\ Becomes(i, "gone") /\ credit' = [credit EXCEPT ![i].kill = @ + 1]
  \/ /\ req = "pause" /\ sandbox[i] = "running" /\ code = "ok"
     /\ Becomes(i, "paused") /\ credit' = [credit EXCEPT ![i].pause = @ + 1]
  \/ /\ req \in {"pause", "update_network"} /\ sandbox[i] = "paused" /\ code = "409"
     /\ UNCHANGED <<sandbox, old, credit>>
  \/ /\ req = "is_running" /\ i \in Living /\ code = sandbox[i]
     /\ UNCHANGED <<sandbox, old, credit>>
  \/ /\ req \in Uses /\ i \in Living /\ code = "ok"
     /\ UNCHANGED <<sandbox, old, credit>>

Answers(c) ==
  /\ call[c].at = "sent"
  /\ \/ /\ call[c].req = "create"
        /\ \E i \in Ids :
             /\ ServeCreate(i) /\ unheard' = unheard \union {i}
             /\ call' = [call EXCEPT ![c].at = "answered", ![c].id = i, ![c].code = "ok"]
     \/ /\ call[c].req = "create"
        /\ call' = [call EXCEPT ![c].at = "answered", ![c].code = "5xx"]
        /\ UNCHANGED <<sandbox, old, credit, unheard>>
     \/ /\ call[c].req # "create"
        /\ \E code \in Codes :
             /\ Serve(call[c].req, call[c].id, code)
             /\ call' = [call EXCEPT ![c].at = "answered", ![c].code = code]
        /\ UNCHANGED unheard
  /\ UNCHANGED <<adrift, calls>>

\* A request whose caller has left is served all the same, or never; to be served
\* and change nothing is as good as never.
ServesAdrift(r) ==
  /\ adrift[r] > 0 /\ adrift' = [adrift EXCEPT ![r] = @ - 1]
  /\ IF r[1] = "create" THEN \E i \in Ids : ServeCreate(i)
                        ELSE \E code \in Codes : Serve(r[1], r[2], code)
  /\ sandbox' # sandbox
  /\ UNCHANGED <<tasks, unheard>>

\* Its timeout ends a sandbox.
Expire(i) == /\ sandbox[i] = "running" /\ Becomes(i, "gone")
             /\ UNCHANGED <<adrift, tasks, unheard, credit>>

-----------------------------------------------------------------------------
(* The client.                                                             *)

\* Metrics need a newer envd: the call fails before any request.
Refuses(op, i) == op = "get_metrics" /\ <<op, i>> \in old

Makes(c) ==
  /\ call[c].at \in {"idle", "returned"}
  /\ calls < IF begun THEN MaxBeside ELSE MaxCalls
  /\ \E op \in Ops, i \in Targets \union {0} :
       /\ IF op = "create" THEN i = 0 ELSE i # 0 /\ sandbox[i] # "absent"
       /\ call' = [call EXCEPT ![c] =
            IF Refuses(op, i)
            THEN [NoCall EXCEPT !.op = op, !.at = "returned", !.id = i,
                                !.result = "template"]
            ELSE [NoCall EXCEPT !.op = op, !.at = "sent", !.req = op, !.id = i]]
  /\ calls' = calls + 1
  /\ UNCHANGED <<plane, unheard, credit>>

\* 404: kill answers false, all others raise SandboxNotFound.
Missing(op) == IF op = "kill" THEN "false" ELSE "not_found"

\* 409: pause found it paused already; another call fails with Conflict.
\* Faults (mutants of Conflict): it passes for a pause, or for a missing sandbox.
ConflictIsTrue(op) == IF op = "pause" THEN "true" ELSE "conflict"
ConflictIsMissing(op) == IF op = "pause" THEN "not_found" ELSE "conflict"
Conflict(op) == IF op = "pause" THEN "false" ELSE "conflict"

\* What the answer to its request makes of a call.
Result(op, code) == CASE code = "404" -> Missing(op)
                      [] code = "409" -> Conflict(op)
                      [] code = "5xx" -> "error"
                      [] code = "paused" -> "false"
                      [] code \in {"ok", "running"} -> "true"

\* The call ends: credit takes off the answers true of kill and pause.
EndsWith(c, result) ==
  /\ call' = [call EXCEPT ![c].at = "returned", ![c].req = "none",
                          ![c].code = "none", ![c].result = result]
  /\ credit' = IF result # "true" THEN credit
               ELSE IF call[c].op = "kill" THEN [credit EXCEPT ![call[c].id].kill = @ - 1]
               ELSE IF call[c].op = "pause" THEN [credit EXCEPT ![call[c].id].pause = @ - 1]
               ELSE credit
  /\ UNCHANGED <<plane, calls>>

Returns(c) == /\ call[c].at = "answered" /\ call[c].op # "create"
              /\ EndsWith(c, Result(call[c].op, call[c].code))
              /\ UNCHANGED unheard

\* The caller of create knows that it may have left a sandbox behind.
Told(c) == unheard' = IF call[c].op = "create" THEN unheard \ {call[c].id} ELSE unheard

\* Ok needs the clients of from_api_sandbox, which may fail to build.
CreateReturns(c) ==
  /\ call[c].at = "answered" /\ call[c].req = "create"
  /\ \/ call[c].code = "5xx" /\ EndsWith(c, "error")
     \/ /\ call[c].code = "ok" /\ <<"create", call[c].id>> \notin old
        /\ EndsWith(c, "true") \/ EndsWith(c, "error")
  /\ Told(c)

\* An envd too old to talk to: create kills the sandbox it was given.
CreateKills(c) ==
  /\ call[c].at = "answered" /\ call[c].req = "create"
  /\ call[c].code = "ok" /\ <<"create", call[c].id>> \in old
  /\ call' = [call EXCEPT ![c].at = "sent", ![c].req = "kill", ![c].code = "none"]
  /\ UNCHANGED <<plane, calls, unheard, credit>>

\* Fault (mutant of CreateRefuses): whatever became of the kill.
RefusesAnyway(c) ==
  /\ call[c].at = "answered" /\ call[c].op = "create" /\ call[c].req = "kill"
  /\ EndsWith(c, "template") /\ UNCHANGED unheard

\* The kill's own error comes before the Template error.
CreateRefuses(c) ==
  /\ call[c].at = "answered" /\ call[c].op = "create" /\ call[c].req = "kill"
  /\ \/ /\ Result("kill", call[c].code) \in {"true", "false"}
        /\ EndsWith(c, "template") /\ UNCHANGED unheard
     \/ /\ Result("kill", call[c].code) = "error"
        /\ EndsWith(c, "error") /\ Told(c)

\* The connection breaks, the request times out, the answer cannot be decoded,
\* or the call's future is dropped, which comes to the same: the caller knows
\* nothing, and what was sent may still arrive.
Fails(c) ==
  /\ call[c].at \in {"sent", "answered"}
  /\ call' = [call EXCEPT ![c].at = "returned", ![c].req = "none",
                          ![c].code = "none", ![c].result = "error"]
  /\ \/ UNCHANGED adrift
     \/ /\ call[c].at = "sent" /\ call[c].req \in {"create", "connect", "kill", "pause"}
        /\ adrift' = [adrift EXCEPT ![<<call[c].req, call[c].id>>] = @ + 1]
  /\ Told(c)
  /\ UNCHANGED <<sandbox, old, calls, credit>>

-----------------------------------------------------------------------------
\* What happens to its sandbox while a call is under way.
UnderWay(k) == k.at \in {"sent", "answered"}
Watch == seen' = [c \in Callers |->
  IF UnderWay(call[c]) /\ call'[c].id # 0
  THEN seen[c] \union {sandbox'[call'[c].id]}
  ELSE IF UnderWay(call'[c]) /\ call'[c].id # 0 THEN {sandbox[call'[c].id]}
  ELSE IF call'[c].id = 0 THEN {} ELSE seen[c]]

CallSteps == \E c \in Callers :
  Makes(c) \/ Answers(c) \/ Returns(c) \/ CreateReturns(c) \/ CreateKills(c)
    \/ CreateRefuses(c) \/ Fails(c)
PlaneSteps == (\E r \in Requests : ServesAdrift(r)) \/ (\E i \in Ids : Expire(i))

Lists == /\ calls = 0 \/ begun
         /\ List!PagerNext /\ UNCHANGED <<plane, tasks, record>>

Next == \/ (CallSteps \/ PlaneSteps) /\ Watch /\ List!PagerRests
        \/ Lists

\* Somebody who lists asks on until the end, and not every page is lost.
Fairness == /\ WF_pager(List!NextItems /\ begun /\ UNCHANGED <<plane, tasks, record>>)
            /\ SF_pager(List!ServePage /\ UNCHANGED <<plane, tasks, record>>)
            /\ SF_pager(List!ReturnPage /\ UNCHANGED <<plane, tasks, record>>)

Spec == Init /\ [][Next]_vars /\ Fairness

-----------------------------------------------------------------------------
\* What each call may come to.
Results(op) == {"error"} \union
  CASE op = "create" -> {"true", "template"}
    [] op \in {"kill"} -> {"true", "false"}
    [] op \in {"pause", "is_running"} -> {"true", "false", "not_found"}
    [] op = "update_network" -> {"true", "not_found", "conflict"}
    [] op = "get_metrics" -> {"true", "not_found", "template"}
    [] OTHER -> {"true", "not_found"}

States == {"absent", "running", "paused", "gone"}
Calls  == [op : Ops \union {"none"}, at : {"idle", "sent", "answered", "returned"},
           req : Ops \union {"none"}, id : Ids \union {0}, code : Codes,
           result : {"none", "true", "false", "not_found", "conflict", "template", "error"}]

\* Types; a kill comes to true, false or an error of the request, a pause of a
\* paused sandbox to no error, and a call under way knows its request.
TypeOK ==
  /\ sandbox \in [Ids -> States]
  /\ old \subseteq Gates \X {i \in Ids : sandbox[i] # "absent"}
  /\ adrift \in [Requests -> Nat] /\ calls \in 0..MaxCalls
  /\ call \in [Callers -> Calls]
  /\ \A c \in Callers :
       \/ call[c] = NoCall
       \/ /\ UnderWay(call[c]) /\ call[c].result = "none"
          /\ call[c].req \in {call[c].op, "kill"} /\ call[c].op \in Ops
       \/ call[c].at = "returned" /\ call[c].op \in Ops
          /\ call[c].result \in Results(call[c].op)
  /\ seen \in [Callers -> SUBSET States]
  /\ unheard \subseteq Ids
  /\ credit \in [Ids -> [kill : Int, pause : Int]]

AnswerIsTrue(c) ==
  LET k == call[c] IN k.at = "returned" =>
    /\ k.result = "not_found" \/ (k.op = "kill" /\ k.result \in {"true", "false"})
         => "gone" \in seen[c]
    /\ k.op = "kill" /\ k.result = "true" => seen[c] # {"gone"}
    /\ k.op = "pause" /\ k.result = "true" => {"running", "paused"} \subseteq seen[c]
    /\ k.op = "pause" /\ k.result = "false" => "paused" \in seen[c]
    /\ k.op = "is_running" /\ k.result = "true" => "running" \in seen[c]
    /\ k.op = "is_running" /\ k.result = "false" => "paused" \in seen[c]

\* A definite answer says what was so at some moment of the call, whoever else
\* paused, resumed or killed the sandbox meanwhile, and whatever requests of
\* calls long lost arrived: kill true, it was there and is gone; false or
\* SandboxNotFound, it was gone; pause true, it ran and was paused; false, it
\* was paused; is_running, it ran or was paused.
AnswersAreTrue == \A c \in Callers : AnswerIsTrue(c)

\* Of several that kill or pause a sandbox at once, no more are told they did
\* it than did: a sandbox's end is claimed once.
OnlyOneWins == \A i \in Ids : credit[i].kill >= 0 /\ credit[i].pause >= 0

\* A sandbox that create made, and did not hand out or report as failed, is gone
\* or still in create's hands: the Template error leaves none running.
NoneIsForgotten ==
  \A i \in unheard \intersect Living :
    \E c \in Callers : UnderWay(call[c]) /\ call[c].op = "create" /\ call[c].id = i

-----------------------------------------------------------------------------
(* The inductive invariant.                                                *)

\* The answers a request has.
CodesOf(req) == {"5xx"} \union
  CASE req = "create" -> {"ok"}
    [] req = "is_running" -> {"running", "paused", "404"}
    [] req \in {"pause", "update_network"} -> {"ok", "404", "409"}
    [] OTHER -> {"ok", "404"}

\* What the answer to a request about sandbox i was read from.
ReadFrom(code, req, i, states) ==
  /\ code = "404" => sandbox[i] = "gone"
  /\ code = "ok" /\ req = "kill" => sandbox[i] = "gone" /\ states # {"gone"}
  /\ code = "ok" /\ req = "pause" => {"running", "paused"} \subseteq states
  /\ code \in {"409", "paused"} => "paused" \in states
  /\ code = "running" => "running" \in states

\* A call under way has an id, but for a create that has none yet, has seen its
\* sandbox as it is, and an answer is of the sandbox it has seen.
Knows(c) ==
  LET k == call[c] IN
  /\ k.id = 0 => seen[c] = {}
  /\ UnderWay(k) =>
       /\ k.req # k.op => k.op = "create"
       /\ k.req = "create" => k.op = "create"
       /\ k.at = "answered" => k.code \in CodesOf(k.req)
       /\ k.at = "sent" /\ k.req = "create" => k.id = 0
       /\ k.id = 0 => k.req = "create" /\ (k.at = "answered" => k.code = "5xx")
       /\ k.id # 0 => sandbox[k.id] # "absent" /\ sandbox[k.id] \in seen[c]
       /\ k.at = "answered" /\ k.id # 0 => ReadFrom(k.code, k.req, k.id, seen[c])

AllKnow == \A c \in Callers : Knows(c)

\* The calls that are about to be told they did it.
Claims(op, i) == {c \in Callers : /\ call[c].at = "answered" /\ call[c].op = op
                                  /\ call[c].id = i /\ call[c].code = "ok"}

Funded == \A i \in Ids : /\ credit[i].kill >= Cardinality(Claims("kill", i))
                         /\ credit[i].pause >= Cardinality(Claims("pause", i))

\* What create has made is there, or was.
Made == \A i \in unheard : sandbox[i] # "absent"

IInv == TypeOK /\ AllKnow /\ Made /\ AnswersAreTrue /\ NoneIsForgotten /\ Funded

-----------------------------------------------------------------------------
\* No sandbox is listed twice, and a listing that has come to its end has all
\* that were there all along: a page that failed is asked for again with the same
\* token, and what comes and goes between two pages shifts nothing.
ListingIsExact == /\ List!PagerTypeOK /\ List!IsListedOnce /\ List!IsComplete
                  /\ List!CursorInStep

\* Asked on and on, a listing comes to its end, although pages are lost.
ListingEnds == begun ~> ~has_next
=============================================================================
