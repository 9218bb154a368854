------------------------------ MODULE AtomicCalls ------------------------------
(***************************************************************************)
(* What the calls of a client promise: each that is answered took effect   *)
(* on the server once, at a moment between its beginning and its return,   *)
(* and its result says of that moment what the documentation says it does; *)
(* one that fails took effect at most once, then or later.                 *)
(***************************************************************************)
CONSTANTS Callers,
          Starts(_),            \* a server may start like this
          Refusable(_, _, _),   \* store, request: the result needs no server
          Serve(_, _),          \* store, request: what it may do and answer
          Promises(_, _, _, _), \* store, request, store after, result: as documented
          Drift(_)              \* what else becomes of a store

VARIABLES store,  \* the server's
          call,   \* per caller: [at, request, result], at "idle", "out", "done", "back"
          adrift  \* requests, each with a number, of callers that gave up

vars == <<store, call, adrift>>

NoRequest == [op |-> "none"]
Nothing == [at |-> "idle", request |-> NoRequest, result |-> <<"none">>]
Lost    == <<"err", "lost">>

Init == Starts(store) /\ call = [c \in Callers |-> Nothing] /\ adrift = {}

Becomes(c, at, request, result) ==
  call' = [call EXCEPT ![c] = [at |-> at, request |-> request, result |-> result]]

Comes(c, result) == Becomes(c, "back", NoRequest, result)

Begins(c) == /\ call[c].at \in {"idle", "back"}
             /\ Becomes(c, "out", call'[c].request, <<"none">>)
             /\ UNCHANGED <<store, adrift>>

Refused(c) == /\ call[c].at = "out"
              /\ Comes(c, call'[c].result)
              /\ Refusable(store, call[c].request, call'[c].result)
              /\ UNCHANGED <<store, adrift>>

TakesEffect(c) == /\ call[c].at = "out"
                  /\ \E o \in Serve(store, call[c].request) : store' = o.store
                  /\ Becomes(c, "done", call[c].request, call'[c].result)
                  /\ Promises(store, call[c].request, store', call'[c].result)
                  /\ UNCHANGED adrift

Returns(c) == /\ call[c].at = "done"
              /\ Comes(c, call[c].result)
              /\ UNCHANGED <<store, adrift>>

Fails(c) == /\ call[c].at \in {"out", "done"}
            /\ Comes(c, Lost)
            /\ \/ UNCHANGED adrift
               \/ /\ call[c].at = "out"
                  /\ \E x \in adrift' : adrift' = adrift \union {x} /\ x[2] = call[c].request
            /\ UNCHANGED store

Strays == \E x \in adrift : /\ \E o \in Serve(store, x[2]) : store' = o.store
                            /\ adrift' = adrift \ {x}
                            /\ UNCHANGED call

Drifts == store' \in Drift(store) /\ UNCHANGED <<call, adrift>>

Next == \/ \E c \in Callers : Begins(c) \/ Refused(c) \/ TakesEffect(c)
                              \/ Returns(c) \/ Fails(c)
        \/ Strays \/ Drifts

Spec == Init /\ [][Next]_vars
===============================================================================
