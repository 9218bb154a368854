---------------------------- MODULE MessageStream ----------------------------
(***************************************************************************)
(* What a Connect server-stream promises to the code that polls it: the    *)
(* messages of the server, whole, in order and each once, then an end.     *)
(* Connections do get lost: some of the last messages may then be missing, *)
(* and the end that follows may be an error or may look like any other.    *)
(*                                                                         *)
(* ConnectStream implements this module; CommandHandle's queue and fate    *)
(* are this stream as the driver task sees it.                             *)
(***************************************************************************)
EXTENDS Sequences, Naturals

CONSTANT Messages

VARIABLES queue, \* messages under way
          fate,  \* what follows them: "live", "closed", "cut", "failed";
                 \* "over" once the consumer has seen the end or gone away
          items, \* messages yielded
          end    \* "none", "clean" or "error", as the consumer saw it

vars == <<queue, fate, items, end>>

Init == queue = << >> /\ fate = "live" /\ items = << >> /\ end = "none"

Send == /\ fate = "live"
        /\ \E m \in Messages : queue' = Append(queue, m)
        /\ UNCHANGED <<fate, items, end>>

\* An end-stream frame, or a message that cannot be decoded.
Close == /\ fate = "live"
         /\ fate' \in {"closed", "failed"}
         /\ UNCHANGED <<queue, items, end>>

Lose == /\ fate # "over"
        /\ fate' \in {"cut", "failed"}
        /\ \E n \in 0..Len(queue) : queue' = SubSeq(queue, 1, n)
        /\ UNCHANGED <<items, end>>

Yield == /\ queue # << >>
         /\ items' = Append(items, Head(queue))
         /\ queue' = Tail(queue)
         /\ UNCHANGED <<fate, end>>

Finish == /\ queue = << >> /\ fate \in {"closed", "cut", "failed"}
          /\ end' = IF fate = "failed" THEN "error" ELSE "clean"
          /\ fate' = "over"
          /\ UNCHANGED <<queue, items>>

Leave == /\ fate # "over"
         /\ queue' = << >> /\ fate' = "over"
         /\ UNCHANGED <<items, end>>

Next == Send \/ Close \/ Lose \/ Yield \/ Finish \/ Leave

Spec == Init /\ [][Next]_vars
=============================================================================
