------------------------------ MODULE ApiClient ------------------------------
(***************************************************************************)
(* The control-plane client (api/client.rs) as seen by the tasks that      *)
(* share it: every request first takes a permit of the client's limiter    *)
(* (http/inflight.rs), holds it while the request is in flight, and gives  *)
(* it up when send returns or its future is dropped.  A call that finds no *)
(* permit queues, first in first out.                                      *)
(*                                                                         *)
(* A caller makes one request at a time, and any number in turn.           *)
(***************************************************************************)
EXTENDS Integers, Sequences, FiniteSets

CONSTANTS Callers,  \* tasks that share the client
          Caps      \* what api_inflight_requests may be; 0 is no cap

ASSUME CallersAssumption == IsFiniteSet(Callers)
ASSUME CapsAssumption == Caps \subseteq Nat

VARIABLES cap,   \* the cap the client was made with
          call,  \* per caller: "idle"; "queued" in acquire; "granted" a permit
                 \* its task has not seen yet; "sending" its request
          line,  \* the callers queued, the longest-waiting first
          free   \* permits nobody holds

vars == <<cap, call, line, free>>

Init == /\ cap \in Caps
        /\ call = [c \in Callers |-> "idle"]
        /\ line = << >>
        /\ free = cap

Becomes(c, state) == call' = [call EXCEPT ![c] = state]

\* Fault (mutant of Acquire): the call goes on without a permit.
AcquireRegardless(c) == /\ Becomes(c, "sending")
                        /\ free' = (IF free > 0 THEN free - 1 ELSE free)
                        /\ UNCHANGED line

\* acquire: at once, or in line.  Without a cap there is no semaphore.
Acquire(c) ==
  \/ cap = 0 /\ Becomes(c, "sending") /\ UNCHANGED <<line, free>>
  \/ free > 0 /\ Becomes(c, "sending") /\ free' = free - 1 /\ UNCHANGED line
  \/ /\ cap # 0 /\ free = 0
     /\ Becomes(c, "queued") /\ line' = Append(line, c) /\ UNCHANGED free

\* Fault (mutant of Release): a permit is set free and nobody is woken.
ReleaseQuietly(c) ==
  Becomes(c, "idle") /\ UNCHANGED line /\ free' = IF cap = 0 THEN 0 ELSE free + 1

\* Fault (mutant of Release): the permit goes to the last in line.
ReleaseToLast(c) ==
  IF line # << >>
  THEN /\ call' = [call EXCEPT ![c] = "idle", ![line[Len(line)]] = "granted"]
       /\ line' = SubSeq(line, 1, Len(line) - 1)
       /\ UNCHANGED free
  ELSE /\ Becomes(c, "idle")
       /\ free' = IF cap = 0 THEN 0 ELSE free + 1
       /\ UNCHANGED line

\* c's permit is dropped: it goes to the first in line, and is free only when
\* nobody waits.
Release(c) ==
  IF line # << >>
  THEN /\ call' = [call EXCEPT ![c] = "idle", ![Head(line)] = "granted"]
       /\ line' = Tail(line)
       /\ UNCHANGED free
  ELSE /\ Becomes(c, "idle")
       /\ free' = IF cap = 0 THEN 0 ELSE free + 1
       /\ UNCHANGED line

-----------------------------------------------------------------------------
Request(c) == call[c] = "idle" /\ Acquire(c) /\ UNCHANGED cap

\* The task of a caller that was granted a permit runs and sends.
Proceed(c) == /\ call[c] = "granted"
              /\ Becomes(c, "sending")
              /\ UNCHANGED <<cap, line, free>>

\* send returns: a response, whatever its status, or a transport error, or
\* the timeout, which starts with the sending.
Return(c) == call[c] = "sending" /\ Release(c) /\ UNCHANGED cap

Without(s, i) == SubSeq(s, 1, i - 1) \o SubSeq(s, i + 1, Len(s))

LeaveLine(c) == /\ \E i \in 1..Len(line) : line[i] = c /\ line' = Without(line, i)
                /\ Becomes(c, "idle") /\ UNCHANGED free

\* Fault (mutant of Cancel): a permit that was granted and not seen is lost.
CancelLosesGrant(c) ==
  /\ \/ call[c] = "sending" /\ Release(c)
     \/ call[c] = "granted" /\ Becomes(c, "idle") /\ UNCHANGED <<line, free>>
     \/ call[c] = "queued" /\ LeaveLine(c)
  /\ UNCHANGED cap

\* The caller drops the call: a permit granted or held goes on, and a place
\* in line is given up.
Cancel(c) == /\ \/ call[c] \in {"granted", "sending"} /\ Release(c)
                \/ call[c] = "queued" /\ LeaveLine(c)
             /\ UNCHANGED cap

Next == \E c \in Callers : Request(c) \/ Proceed(c) \/ Return(c) \/ Cancel(c)

Spec == Init /\ [][Next]_vars

\* The runtime polls a task it has woken, and a request that is sent ends: it
\* has a timeout.  Nothing makes a caller call or cancel.
FairSpec == Spec /\ \A c \in Callers : WF_vars(Proceed(c)) /\ WF_vars(Return(c))

-----------------------------------------------------------------------------
(* Properties.                                                             *)

Holders == {c \in Callers : call[c] \in {"granted", "sending"}}
Queued  == {c \in Callers : call[c] = "queued"}

\* Every variable has its type, and the line is the callers that wait, each
\* in one place.
TypeOK == /\ call \in [Callers -> {"idle", "queued", "granted", "sending"}]
          /\ line \in Seq(Callers)
          /\ free \in Nat /\ cap \in Nat
          /\ \A i \in 1..Len(line) : call[line[i]] = "queued"
          /\ \A c \in Queued : \E i \in 1..Len(line) : line[i] = c
          /\ \A i, j \in 1..Len(line) : line[i] = line[j] => i = j

\* However calls return, fail, time out or are dropped, between being granted
\* a permit and seeing it included, no permit is lost or made: the cap never
\* shrinks.
PermitsAreConserved == cap # 0 => free + Cardinality(Holders) = cap

\* The configured number of requests in flight is never exceeded.
CapHolds == cap # 0 =>
              Cardinality({c \in Callers : call[c] = "sending"}) <= cap

\* Nobody waits while a permit is free.
NobodyWaitsInVain == line # << >> => free = 0 /\ cap # 0

\* Permits go out in the order of the calls: who gets one, straight from
\* acquire or after waiting, leaves nobody behind who called earlier.
FirstComeFirstServed ==
  [][\A c \in Holders' \ Holders :
        IF c \in Queued THEN c = Head(line) ELSE line = << >>]_vars

\* A call that waits gets its turn or is dropped, however often the others
\* call again.
EveryCallIsServed == \A c \in Callers : call[c] = "queued" ~> call[c] # "queued"
=============================================================================
