------------------------------ MODULE WatchHandle ------------------------------
(***************************************************************************)
(* A directory watch: the changes of the directory, the WatchDir stream    *)
(* that reports them, the task that watch_dir spawns, the bounded channel  *)
(* and the WatchHandle the caller holds (sandbox/filesystem/watch.rs).     *)
(*                                                                         *)
(* An event is its place in log, from 1.  The stream is the sequence of    *)
(* messages it still has to yield and what ends it, as in CommandHandle;   *)
(* `at' in a message is an auxiliary stamp, the changes made when envd     *)
(* sent it, of which the client reads what an event is about and no more.  *)
(***************************************************************************)
EXTENDS Integers, Sequences

CONSTANTS Kinds,    \* of changes; "odd" is one the SDK has no name for
          Room,     \* of the channel of events: 64 in the code
          MaxLog,   \* bound: changes
          MaxQuiet  \* bound: messages of other kinds in the stream at once

ASSUME RoomAssumption  == Room \in Nat \ {0}
ASSUME WatchAssumption == {MaxLog, MaxQuiet} \subseteq Nat

VARIABLES
  log,     \* the changes of the directory: a sequence of Kinds
  since,   \* how many there were when envd began to watch, -1 before
  wire,    \* messages not yet yielded to the client
  fate,    \* what follows them: "live", "closed" (the end-stream frame), "cut"
           \* (the end of the body without it), "failed" (an error)
  task,    \* "none", "polling", "sending", "ended", "aborted"
  upto,    \* (history) how far in the log the task has taken the stream
  pend,    \* what it is sending: << >> or one event
  chan,
  popped,  \* what next has returned
  handle   \* "none", "open", "over" (next has returned None), "stopped"

changes  == <<log, since, wire, fate>>
worker   == <<task, upto, pend>>
watchVars == <<changes, worker, chan, popped, handle>>

Msg(tag, n) == [tag |-> tag, at |-> n]

WatchInit == /\ log = << >> /\ since = -1 /\ wire = << >> /\ fate = "live"
             /\ task = "none" /\ upto = -1 /\ pend = << >> /\ chan = << >>
             /\ popped = << >> /\ handle = "none"

-----------------------------------------------------------------------------
(* envd.                                                                   *)

\* The directory changes; the stream says so, once it watches and while it lives.
Changes(kind) ==
  /\ Len(log) < MaxLog
  /\ log' = Append(log, kind)
  /\ wire' = IF since >= 0 /\ fate = "live" THEN Append(wire, Msg("event", Len(log) + 1))
             ELSE wire
  /\ UNCHANGED <<since, fate, worker, chan, popped, handle>>

\* It begins to watch, before or after watch_dir has returned: the code awaits
\* the response headers, not the start event.
Registers ==
  /\ since = -1 /\ fate = "live"
  /\ since' = Len(log) /\ upto' = Len(log)
  /\ wire' = <<Msg("start", Len(log))>>
  /\ UNCHANGED <<log, fate, task, pend, chan, popped, handle>>

KeepsAlive ==
  /\ since >= 0 /\ fate = "live" /\ Len(wire) < MaxQuiet
  /\ wire' = Append(wire, Msg("keepalive", Len(log)))
  /\ UNCHANGED <<log, since, fate, worker, chan, popped, handle>>

\* The stream ends, and may lose the messages under way.
Ends ==
  /\ fate = "live"
  /\ fate' \in {"closed", "cut", "failed"}
  /\ \E n \in 0..Len(wire) : wire' = SubSeq(wire, 1, n)
  /\ UNCHANGED <<log, since, worker, chan, popped, handle>>

-----------------------------------------------------------------------------
(* watch_dir, once envd has answered with success.                         *)

Opens == /\ handle = "none"
         /\ handle' = "open" /\ task' = "polling"
         /\ UNCHANGED <<changes, upto, pend, chan, popped>>

-----------------------------------------------------------------------------
(* The task.                                                               *)

\* An event of a kind the SDK knows: FilesystemEvent::from_proto.
IsSurfaced(m) == m.tag = "event" /\ log[m.at] # "odd"

TakesEvent ==
  /\ task = "polling" /\ wire # << >> /\ IsSurfaced(Head(wire))
  /\ wire' = Tail(wire) /\ upto' = Head(wire).at
  /\ pend' = <<Head(wire).at>> /\ task' = "sending"
  /\ UNCHANGED <<log, since, fate, chan, popped, handle>>

\* Fault (mutant of SkipsMessage): what is no event ends the loop.
EndsAtSilence ==
  /\ task = "polling" /\ wire # << >> /\ ~ IsSurfaced(Head(wire))
  /\ wire' = Tail(wire) /\ upto' = Head(wire).at /\ task' = "ended"
  /\ UNCHANGED <<log, since, fate, pend, chan, popped, handle>>

SkipsMessage ==
  /\ task = "polling" /\ wire # << >> /\ ~ IsSurfaced(Head(wire))
  /\ wire' = Tail(wire) /\ upto' = Head(wire).at
  /\ UNCHANGED <<log, since, fate, task, pend, chan, popped, handle>>

\* Fault (mutant of SendsEvent): the send does not wait for room.
SendsAnyway ==
  /\ task = "sending" /\ handle = "open"
  /\ chan' = IF Len(chan) < Room THEN chan \o pend ELSE chan
  /\ task' = "polling" /\ pend' = << >>
  /\ UNCHANGED <<changes, upto, popped, handle>>

\* tx.send(..).await waits for room.
SendsEvent ==
  /\ task = "sending" /\ handle = "open" /\ Len(chan) < Room
  /\ chan' = chan \o pend
  /\ task' = "polling" /\ pend' = << >>
  /\ UNCHANGED <<changes, upto, popped, handle>>

Finishes == /\ task' = "ended" /\ pend' = << >>
            /\ UNCHANGED <<changes, upto, chan, popped, handle>>

\* The receiver is gone.
FindsNoReceiver == task = "sending" /\ handle = "stopped" /\ Finishes

\* Fault (mutant of StreamStops): after an error the loop goes on.
StopsWhenClosed == task = "polling" /\ wire = << >> /\ fate \in {"closed", "cut"} /\ Finishes

\* stream.next() has no more, or an error: both end the loop.
StreamStops == task = "polling" /\ wire = << >> /\ fate # "live" /\ Finishes

\* Fault (mutant of IsAborted): a task that waits for a message does not notice.
AbortedWhenSending == /\ handle = "stopped" /\ task = "sending"
                      /\ task' = "aborted" /\ pend' = << >>
                      /\ UNCHANGED <<changes, upto, chan, popped, handle>>

\* abort() takes effect at an await of the task.
IsAborted == /\ handle = "stopped" /\ task \in {"polling", "sending"}
             /\ task' = "aborted" /\ pend' = << >>
             /\ UNCHANGED <<changes, upto, chan, popped, handle>>

-----------------------------------------------------------------------------
(* The handle.                                                             *)

NextEvent == /\ handle = "open" /\ chan # << >>
             /\ popped' = Append(popped, Head(chan)) /\ chan' = Tail(chan)
             /\ UNCHANGED <<changes, worker, handle>>

\* The channel is empty and its sender gone: None.
NextNone == /\ handle = "open" /\ chan = << >> /\ task = "ended"
            /\ handle' = "over"
            /\ UNCHANGED <<changes, worker, chan, popped>>

\* stop, or the drop of the handle.
Stops == /\ handle \in {"open", "over"}
         /\ handle' = "stopped" /\ chan' = << >>
         /\ UNCHANGED <<changes, worker, popped>>

-----------------------------------------------------------------------------
Envd   == Registers \/ KeepsAlive \/ Ends
Worker == \/ TakesEvent \/ SkipsMessage \/ SendsEvent \/ FindsNoReceiver
          \/ StreamStops \/ IsAborted
Holder == NextEvent \/ NextNone \/ Stops

WatchStep == Envd \/ Worker \/ Holder
WatchNext == (\E k \in Kinds : Changes(k)) \/ Opens \/ WatchStep

WatchSpec == WatchInit /\ [][WatchNext]_watchVars

\* The runtime polls the task; a caller who watches asks for the next event.
WatchFairness == WF_watchVars(Worker) /\ WF_watchVars(NextEvent \/ NextNone)

-----------------------------------------------------------------------------
(* Properties.                                                             *)

WatchTypeOK ==
  /\ log \in Seq(Kinds) /\ since \in -1..Len(log)
  /\ wire \in Seq([tag : {"start", "keepalive", "event"}, at : Nat])
  /\ fate \in {"live", "closed", "cut", "failed"}
  /\ task \in {"none", "polling", "sending", "ended", "aborted"}
  /\ upto \in Int
  /\ pend \in Seq(Nat) /\ chan \in Seq(Nat) /\ popped \in Seq(Nat)
  /\ Len(chan) <= Room /\ Len(pend) <= 1
  /\ handle \in {"none", "open", "over", "stopped"}

\* The changes that the task has come to, of kinds the SDK knows.
Surfaced == {n \in 1..Len(log) : since < n /\ n <= upto /\ log[n] # "odd"}

\* What the caller has been handed, and what is on its way to it.
Got == popped \o chan \o pend

\* No event is lost, doubled, reordered or made up: what the caller has been handed,
\* and what is on its way to it, are the changes since envd began to watch, each once
\* and in their order, but for those of kinds the SDK does not know.
EventsInOrder ==
  handle # "stopped" =>
    /\ \A i, j \in 1..Len(Got) : i < j => Got[i] < Got[j]
    /\ {Got[i] : i \in 1..Len(Got)} = Surfaced

\* next returns None only when the stream has ended and every event it yielded has
\* been handed out, or left behind by a stop.
NoneComesLast == handle = "over" =>
                   /\ fate # "live" /\ wire = << >>
                   /\ chan = << >> /\ pend = << >> /\ task = "ended"

-----------------------------------------------------------------------------
(* The inductive invariant.                                                *)

\* The stamps on the wire go on from where the task is, one further for an event,
\* up to the last change while the stream lives.
Stamp(i) == IF i = 0 THEN upto ELSE wire[i].at

WireInStep ==
  /\ since = -1 => wire = << >> /\ upto = -1
  /\ since <= upto /\ \A i \in 0..Len(wire) : Stamp(i) <= Len(log)
  /\ \A i \in 1..Len(wire) :
       wire[i].at = Stamp(i - 1) + (IF wire[i].tag = "event" THEN 1 ELSE 0)
  /\ fate = "live" /\ since >= 0 => Stamp(Len(wire)) = Len(log)

Stages ==
  /\ task = "none" <=> handle = "none"
  /\ handle = "none" => popped = << >> /\ chan = << >> /\ upto = since
  /\ pend # << >> => task = "sending"
  /\ task = "ended" => (fate # "live" /\ wire = << >>) \/ handle = "stopped"
  /\ handle = "stopped" => chan = << >>

WatchInv == WatchTypeOK /\ Stages /\ WireInStep /\ EventsInOrder /\ NoneComesLast

-----------------------------------------------------------------------------
\* A stream that ends, by the server or by a failure, ends the watch: next comes
\* to None.
WatchEnds == (handle = "open" /\ fate # "live") ~> (handle # "open")

\* A change that envd reported is handed out, unless the watch ends before.
ChangesAreSeen ==
  \A n \in 1..MaxLog :
    (n <= Len(log) /\ since >= 0 /\ since < n /\ handle = "open" /\ log[n] # "odd")
      ~> (\E i \in 1..Len(popped) : popped[i] = n) \/ handle # "open"

\* Stopping or dropping the handle ends the task and its request, however long
\* the server would have gone on.
StopEndsTask == (handle = "stopped") ~> (task \in {"ended", "aborted"})
===============================================================================
