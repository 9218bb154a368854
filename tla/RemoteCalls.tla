------------------------------ MODULE RemoteCalls ------------------------------
(***************************************************************************)
(* Tasks that call a server through one client: every call is refused by   *)
(* the SDK, or is one request, which the server serves in its time, and    *)
(* whose response the SDK makes into a result.  Requests and responses are *)
(* lost, requests time out, futures are dropped, and what was sent may     *)
(* still be served.  No call is made a second time by the SDK.             *)
(*                                                                         *)
(* Which server, is up to the constants: Filesystem, Volume, Processes and *)
(* TemplateTags define them.                                               *)
(***************************************************************************)
EXTENDS Naturals

CONSTANTS Callers,
          Given(_),             \* store: what callers know from the start
          MaxCalls(_),          \* bound: calls, of all callers, to such a server
          Starts(_),            \* a server may start like this
          Asks(_, _),           \* store, what is known: the requests callers make
          Refuses(_, _),        \* store, request: what the SDK says by itself
          Serve(_, _),          \* store, request: [store, answer] that may follow
          Result(_, _),         \* request, answer: what the SDK makes of it
          Learns(_, _),         \* request, result: what a caller can use later
          Refusable(_, _, _), Promises(_, _, _, _),  \* see AtomicCalls
          Drift(_)              \* what else becomes of a store

VARIABLES store,  \* the server's
          call,   \* per caller: [at, request, answer, result]
          calls,  \* calls made
          known,  \* what results have told
          adrift  \* <<<<caller, n>>, request>>: of callers that gave up, n calls made

callVars == <<store, call, calls, known, adrift>>

NoAnswer == [http |-> 0]
NoRequest == [op |-> "none"]
NoCall == [at |-> "idle", request |-> NoRequest, answer |-> NoAnswer, result |-> <<"none">>]
Lost   == <<"err", "lost">>

CallsInit == /\ Starts(store)
             /\ call = [c \in Callers |-> NoCall]
             /\ calls = 0 /\ known = Given(store) /\ adrift = {}

Idle(c) == call[c].at \in {"idle", "returned"}

Comes(c, result) == call' = [call EXCEPT ![c] = [NoCall EXCEPT !.at = "returned",
                                                               !.result = result]]

Makes(c) ==
  /\ Idle(c) /\ calls < MaxCalls(store)
  /\ \E r \in Asks(store, known) :
       call' = [call EXCEPT ![c] = [NoCall EXCEPT !.at = "made", !.request = r]]
  /\ calls' = calls + 1
  /\ UNCHANGED <<store, known, adrift>>

\* A call that the SDK answers by itself.
Refused(c) ==
  /\ call[c].at = "made"
  /\ \E result \in Refuses(store, call[c].request) : Comes(c, result)
  /\ UNCHANGED <<store, calls, known, adrift>>

Served(c) ==
  /\ call[c].at = "made" /\ Refuses(store, call[c].request) = {}
  /\ \E o \in Serve(store, call[c].request) :
       /\ store' = o.store
       /\ call' = [call EXCEPT ![c] = [NoCall EXCEPT !.at = "answered", !.answer = o.answer,
                                                     !.request = call[c].request]]
  /\ UNCHANGED <<calls, known, adrift>>

Returns(c) ==
  /\ call[c].at = "answered"
  /\ LET result == Result(call[c].request, call[c].answer)
     IN  /\ Comes(c, result)
         /\ known' = known \union Learns(call[c].request, result)
  /\ UNCHANGED <<store, calls, adrift>>

\* The connection breaks, the request times out, or the call's future is dropped,
\* before or after the server has acted.
Fails(c) ==
  /\ call[c].at \in {"made", "answered"}
  /\ Comes(c, Lost)
  /\ \/ UNCHANGED adrift
     \/ /\ call[c].at = "made" /\ Refuses(store, call[c].request) = {}
        /\ adrift' = adrift \union {<<<<c, calls>>, call[c].request>>}
  /\ UNCHANGED <<store, calls, known>>

\* A request that nobody awaits is served; to change nothing is as good as never.
ServesAdrift ==
  /\ \E x \in adrift : /\ adrift' = adrift \ {x}
                       /\ \E o \in Serve(store, x[2]) : store' = o.store
  /\ store' # store
  /\ UNCHANGED <<call, calls, known>>

Drifts == store' \in Drift(store) /\ UNCHANGED <<call, calls, known, adrift>>

CallStep(c) == Makes(c) \/ Refused(c) \/ Served(c) \/ Returns(c) \/ Fails(c)
CallsNext   == (\E c \in Callers : CallStep(c)) \/ ServesAdrift \/ Drifts

CallsSpec == CallsInit /\ [][CallsNext]_callVars

-----------------------------------------------------------------------------
\* What the promises speak of: a call answered is done, whatever the SDK has still
\* to make of the response.
Promised(k) ==
  LET at == CASE k.at = "made" -> "out" [] k.at = "answered" -> "done"
              [] k.at = "returned" -> "back" [] k.at = "idle" -> "idle"
  IN  [at |-> at, request |-> k.request,
       result |-> IF k.at = "answered" THEN Result(k.request, k.answer) ELSE k.result]

Atomic == INSTANCE AtomicCalls WITH call <- [c \in Callers |-> Promised(call[c])]

\* Every call keeps the promise of AtomicCalls.
CallsAreAtomic == Atomic!Spec
===============================================================================
