----------------------------- MODULE BuildHandle -----------------------------
(***************************************************************************)
(* Following a template build: the build and its log on the control plane, *)
(* the task that polls them (wait_for_build_finish, spawned by             *)
(* Template::build), the bounded channel of log entries, the one-shot      *)
(* result, and the BuildHandle the caller holds (template/handle.rs).      *)
(*                                                                         *)
(* A log entry is its place in the log, from 1.  A status is "building"    *)
(* (or waiting, which the code treats alike), "ready" or "error".          *)
(***************************************************************************)
EXTENDS Naturals, Sequences

CONSTANTS Capacity, \* of the channel of log entries: 128 in the code
          Batch,    \* entries a status response carries at most
          MaxLog    \* bound: entries a build logs

ASSUME BuildAssumption == {Capacity, Batch} \subseteq Nat \ {0} /\ MaxLog \in Nat

VARIABLES
  \* The control plane.
  build,    \* the status of the build
  logged,   \* how many entries it has logged
  visible,  \* how many of them a status request can see
  \* The poll task.
  task,     \* "polling", "forwarding", "sleeping", "ended" (the poll function
            \* has returned, its sender is gone), "reported", "aborted"
  status,   \* the status it has taken note of
  offset,   \* logs_offset
  pend,     \* entries of the last response not yet in the channel
  got,      \* how many entries the last response had
  seen,     \* (history) what was visible to the last response
  verdict,  \* what the poll function returned: "none", "ok", "build" (an
            \* Error::Build) or "failed" (a poll failed)
  \* The handle.
  handle,   \* "open", "waiting", "returned", "dropped"
  chan, popped, reply, outcome

server == <<build, logged, visible>>
poller == <<task, status, offset, pend, got, seen, verdict>>
vars   == <<server, poller, handle, chan, popped, reply, outcome>>

Init == /\ build = "building" /\ logged = 0 /\ visible = 0
        /\ task = "polling" /\ status = "building" /\ offset = 0
        /\ pend = << >> /\ got = 0 /\ seen = 0 /\ verdict = "none"
        /\ handle = "open" /\ chan = << >> /\ popped = << >>
        /\ reply = "none" /\ outcome = "none"

-----------------------------------------------------------------------------
(* The control plane.  An entry may become visible after the status that   *)
(* followed it.                                                            *)

Log == /\ build = "building" /\ logged < MaxLog
       /\ logged' = logged + 1
       /\ UNCHANGED <<build, visible, poller, handle, chan, popped, reply,
                      outcome>>

Publish == /\ visible < logged
           /\ visible' = visible + 1
           /\ UNCHANGED <<build, logged, poller, handle, chan, popped, reply,
                          outcome>>

Complete == /\ build = "building"
            /\ build' \in {"ready", "error"}
            /\ UNCHANGED <<logged, visible, poller, handle, chan, popped,
                           reply, outcome>>

-----------------------------------------------------------------------------
(* wait_for_build_finish and the task around it.                           *)

Available == LET n == visible - offset IN IF n < Batch THEN n ELSE Batch

\* Fault (mutant of Poll): the offset is not moved past what was fetched.
PollFromStart == /\ task = "polling"
                 /\ pend' = [i \in 1..Available |-> offset + i]
                 /\ offset' = offset
                 /\ got' = Available
                 /\ seen' = visible
                 /\ status' = IF status = "building" THEN build ELSE status
                 /\ task' = "forwarding"
                 /\ UNCHANGED <<server, verdict, handle, chan, popped, reply,
                                outcome>>

\* get_build_status answers with the entries from offset on.  The drain loop
\* leaves the status alone.
Poll == /\ task = "polling"
        /\ pend' = [i \in 1..Available |-> offset + i]
        /\ offset' = offset + Available
        /\ got' = Available
        /\ seen' = visible
        /\ status' = IF status = "building" THEN build ELSE status
        /\ task' = "forwarding"
        /\ UNCHANGED <<server, verdict, handle, chan, popped, reply, outcome>>

\* A status request that fails ends the task, in the drain loop too.
PollFails == /\ task = "polling"
             /\ task' = "ended" /\ verdict' = "failed"
             /\ UNCHANGED <<server, status, offset, pend, got, seen, handle,
                            chan, popped, reply, outcome>>

\* logs.send(..).await: waits for room; without a receiver the entry is lost.
Forward == /\ task = "forwarding" /\ pend # << >>
           /\ IF handle = "dropped" THEN chan' = chan
              ELSE Len(chan) < Capacity /\ chan' = Append(chan, Head(pend))
           /\ pend' = Tail(pend)
           /\ UNCHANGED <<server, task, status, offset, got, seen, verdict,
                          handle, popped, reply, outcome>>

Forwarded == task = "forwarding" /\ pend = << >>

Rest == /\ Forwarded /\ status = "building"
        /\ task' = "sleeping"
        /\ UNCHANGED <<server, status, offset, pend, got, seen, verdict,
                       handle, chan, popped, reply, outcome>>

Wake == /\ task = "sleeping"
        /\ task' = "polling"
        /\ UNCHANGED <<server, status, offset, pend, got, seen, verdict,
                       handle, chan, popped, reply, outcome>>

\* The build is over: fetch until a response has no entries.
Drain == /\ Forwarded /\ status # "building" /\ got > 0
         /\ task' = "polling"
         /\ UNCHANGED <<server, status, offset, pend, got, seen, verdict,
                        handle, chan, popped, reply, outcome>>

\* Fault (mutant of Conclude): no fetch after the one that saw the end.
ConcludeAtOnce == /\ Forwarded /\ status # "building"
                  /\ task' = "ended"
                  /\ verdict' = IF status = "ready" THEN "ok" ELSE "build"
                  /\ UNCHANGED <<server, status, offset, pend, got, seen,
                                 handle, chan, popped, reply, outcome>>

Conclude == /\ Forwarded /\ status # "building" /\ got = 0
            /\ task' = "ended"
            /\ verdict' = IF status = "ready" THEN "ok" ELSE "build"
            /\ UNCHANGED <<server, status, offset, pend, got, seen,
                           handle, chan, popped, reply, outcome>>

Report == /\ task = "ended"
          /\ task' = "reported" /\ reply' = verdict
          /\ UNCHANGED <<server, status, offset, pend, got, seen, verdict,
                         handle, chan, popped, outcome>>

\* Fault (mutant of Abort): only a task that sends notices the drop.
AbortWhenSending == /\ handle = "dropped" /\ task = "forwarding" /\ pend # << >>
                    /\ task' = "aborted"
                    /\ UNCHANGED <<server, status, offset, pend, got, seen,
                                   verdict, handle, chan, popped, reply,
                                   outcome>>

\* abort() takes effect at an await.
Abort == /\ handle = "dropped" /\ task \in {"polling", "forwarding", "sleeping"}
         /\ task' = "aborted"
         /\ UNCHANGED <<server, status, offset, pend, got, seen, verdict,
                        handle, chan, popped, reply, outcome>>

-----------------------------------------------------------------------------
(* The handle.                                                             *)

Recv == /\ chan # << >>
        /\ popped' = Append(popped, Head(chan))
        /\ chan' = Tail(chan)

HandleNext == /\ handle = "open"
              /\ Recv
              /\ UNCHANGED <<server, poller, handle, reply, outcome>>

HandleWait == /\ handle = "open"
              /\ handle' = "waiting"
              /\ UNCHANGED <<server, poller, chan, popped, reply, outcome>>

\* Fault (mutant of WaitDrains): wait awaits the result before it drains.
DrainsAfterwards == /\ handle = "waiting" /\ task = "reported" /\ Recv
                    /\ UNCHANGED <<server, poller, handle, reply, outcome>>

WaitDrains == /\ handle = "waiting" /\ Recv
              /\ UNCHANGED <<server, poller, handle, reply, outcome>>

\* The channel is over (its sender went with the poll function's return) and the one-shot has its value, or never will.
WaitReturns == /\ handle = "waiting"
               /\ chan = << >> /\ task \in {"reported", "aborted"}
               /\ outcome' = IF reply = "none" THEN "noresult" ELSE reply
               /\ handle' = "returned"
               /\ UNCHANGED <<server, poller, chan, popped, reply>>

HandleDrop == /\ handle \in {"open", "waiting"}
              /\ handle' = "dropped" /\ chan' = << >>
              /\ UNCHANGED <<server, poller, popped, reply, outcome>>

-----------------------------------------------------------------------------
Server == Log \/ Publish \/ Complete
Task   == \/ Poll \/ PollFails \/ Forward \/ Rest \/ Wake \/ Drain
          \/ Conclude \/ Report \/ Abort
Caller == HandleNext \/ HandleWait \/ WaitDrains \/ WaitReturns \/ HandleDrop

Next == Server \/ Task \/ Caller

Spec == Init /\ [][Next]_vars

\* The runtime polls the task and a wait that can go on, and cancels an
\* aborted task; a request is answered or fails (it has a timeout).  Builds
\* need not end.
FairSpec == /\ Spec
            /\ WF_vars(Task) /\ WF_vars(Abort)
            /\ WF_vars(WaitDrains) /\ WF_vars(WaitReturns)

-----------------------------------------------------------------------------
(* Properties.                                                             *)

Verdicts == {"none", "ok", "build", "failed"}

\* Every variable has its type; the channel stays within its capacity.
TypeOK == /\ build \in {"building", "ready", "error"}
          /\ logged \in Nat /\ visible \in Nat /\ visible <= logged
          /\ task \in {"polling", "forwarding", "sleeping", "ended",
                       "reported", "aborted"}
          /\ status \in {"building", "ready", "error"}
          /\ offset \in Nat /\ seen \in Nat
          /\ pend \in Seq(Nat) /\ got \in Nat
          /\ verdict \in Verdicts /\ reply \in Verdicts
          /\ handle \in {"open", "waiting", "returned", "dropped"}
          /\ chan \in Seq(Nat) /\ Len(chan) <= Capacity
          /\ popped \in Seq(Nat)
          /\ outcome \in Verdicts \cup {"noresult"}

Counting(s) == \A i \in 1..Len(s) : s[i] = i

\* The caller reads the log itself, from its first entry on: batches, drain
\* and channel neither lose, repeat nor reorder entries, and the offset is
\* what was fetched.
LogInOrder == /\ Counting(popped)
              /\ handle # "dropped" => /\ Counting(popped \o chan \o pend)
                                       /\ Len(popped \o chan \o pend) = offset
              /\ offset <= visible

Final(o) == o \in {"ok", "build"}

\* A verdict on the build is the build's own, and wait gives it only after
\* every entry the last status response could see has been handed out, the
\* ones that followed the terminal status included.
VerdictIsFinal ==
  /\ Final(reply) => build = IF reply = "ok" THEN "ready" ELSE "error"
  /\ Final(outcome) => Len(popped) >= seen
  /\ outcome # "noresult"

\* What the stage of the task and of the handle says of what they hold.
Stages ==
  /\ IF task \in {"ended", "reported"} THEN verdict # "none" ELSE verdict = "none"
  /\ reply = IF task = "reported" THEN verdict ELSE "none"
  /\ task = "aborted" => handle = "dropped"
  /\ task \in {"polling", "sleeping", "ended", "reported"} => pend = << >>
  /\ IF handle = "returned" THEN task = "reported" /\ outcome = reply /\ chan = << >>
     ELSE outcome = "none"

\* What the task knows of the build, and that it has fetched all it could see when it
\* gives a verdict.
Judged ==
  /\ status # "building" => status = build
  /\ verdict = "ok" => status = "ready"
  /\ verdict = "build" => status = "error"
  /\ (task = "forwarding" /\ got = 0) \/ Final(verdict) => seen <= offset

\* The inductive invariant.
IInv == TypeOK /\ LogInOrder /\ Stages /\ Judged

\* wait returns once the build is over, however many entries were unread
\* when it was called and however small the channel.
WaitReturnsAtEnd ==
  (handle = "waiting" /\ build # "building") ~> handle \in {"returned", "dropped"}

\* Dropping the handle ends the poll task while the build goes on.
DropEndsTask == (handle = "dropped") ~> (task \in {"aborted", "reported"})
=============================================================================
