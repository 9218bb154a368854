----------------------------- MODULE WatchedCalls -----------------------------
(***************************************************************************)
(* Callers at work in a sandbox while one of them watches a directory:     *)
(* watch_dir is one of the calls of RemoteCalls, the handle it returns is  *)
(* WatchHandle's, and what the calls change in the directory, served late  *)
(* or for a caller that gave up, is what the watch reports.                *)
(***************************************************************************)
EXTENDS RemoteCalls, WatchHandle

CONSTANT Watched(_, _)  \* store, store after: the kind of the change in the directory,
                        \* or "none"

vars == <<callVars, watchVars>>

Init == CallsInit /\ WatchInit

Watches(c) == call[c].request.op = "watch_dir"

\* envd has said yes to a watch_dir.
Accepted(c) == /\ call[c].at = "answered" /\ Watches(c)
               /\ Result(call[c].request, call[c].answer)[1] = "ok"

\* A watch is made once, before anything else.
MakesCall(c) == /\ Makes(c) /\ (call'[c].request.op = "watch_dir" => calls = 0)
                /\ UNCHANGED watchVars

GivesUp(c) == (Refused(c) \/ Fails(c)) /\ UNCHANGED watchVars

ReturnsHandle(c) == Accepted(c) /\ Returns(c) /\ Opens
ReturnsOther(c)  == ~ Accepted(c) /\ Returns(c) /\ UNCHANGED watchVars

ChangesStore == /\ (\E c \in Callers : Served(c)) \/ ServesAdrift \/ Drifts
                /\ LET kind == Watched(store, store')
                   IN  IF kind = "none" THEN UNCHANGED watchVars ELSE Changes(kind)

WatchGoesOn ==
  /\ \/ /\ handle = "open" \/ \E c \in Callers : Accepted(c)
        /\ Envd
     \/ Worker \/ Holder
  /\ UNCHANGED callVars

Next == \/ \E c \in Callers : \/ MakesCall(c) \/ GivesUp(c)
                             \/ ReturnsHandle(c) \/ ReturnsOther(c)
        \/ ChangesStore \/ WatchGoesOn

Spec == Init /\ [][Next]_vars /\ WatchFairness
===============================================================================
