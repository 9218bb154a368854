--------------------------- MODULE ProcessSession ---------------------------
(***************************************************************************)
(* What running a command promises to its caller, with no stream, driver   *)
(* task or channel in sight: a process writes chunks of output and may     *)
(* exit; the caller is handed those chunks in the order they were written, *)
(* each once; and the call that waits for the command returns one outcome. *)
(* An outcome that carries an exit status carries the process's own, after *)
(* everything the process wrote has been handed out; the only others say   *)
(* that the session was lost.                                              *)
(*                                                                         *)
(* CommandHandle implements this module.                                   *)
(***************************************************************************)
EXTENDS Integers, Sequences

CONSTANTS Chunks,   \* the chunks of output a process may write
          Statuses  \* the exit statuses it may have

VARIABLES proc,     \* "absent", "running" or "exited"
          produced, \* every chunk the process has written, in order
          status,   \* its exit status, once it has exited
          popped,   \* the chunks handed to the caller (or drained by wait)
          outcome   \* what wait returned

vars == <<proc, produced, status, popped, outcome>>

NoStatus  == [code |-> 0, err |-> "running"]
NoOutcome == [kind |-> "none"]

Init == /\ proc = "absent"
        /\ produced = << >>
        /\ status = NoStatus
        /\ popped = << >>
        /\ outcome = NoOutcome

Spawn == /\ proc = "absent"
         /\ proc' = "running"
         /\ UNCHANGED <<produced, status, popped, outcome>>

Write == /\ proc = "running"
         /\ \E c \in Chunks : produced' = Append(produced, c)
         /\ UNCHANGED <<proc, status, popped, outcome>>

Exit == /\ proc = "running"
        /\ proc' = "exited"
        /\ status' \in Statuses
        /\ UNCHANGED <<produced, popped, outcome>>

Deliver == /\ outcome = NoOutcome
           /\ Len(popped) < Len(produced)
           /\ popped' = Append(popped, produced[Len(popped) + 1])
           /\ UNCHANGED <<proc, produced, status, outcome>>

\* The caller learns the exit status: everything has been delivered.
Learn == /\ outcome = NoOutcome
         /\ proc = "exited"
         /\ popped = produced
         /\ outcome' = [kind |-> "ok", code |-> status.code, err |-> status.err]
         /\ UNCHANGED <<proc, produced, status, popped>>

\* The caller learns that the session was lost: an outcome, but no success.
Lose == /\ outcome = NoOutcome
        /\ outcome' \in {[kind |-> "err"],
                         [kind |-> "ok", code |-> 0, err |-> "closed"]}
        /\ UNCHANGED <<proc, produced, status, popped>>

Next == Spawn \/ Write \/ Exit \/ Deliver \/ Learn \/ Lose

Spec == Init /\ [][Next]_vars
=============================================================================
