---------------------------- MODULE CommandHandle ----------------------------
(***************************************************************************)
(* One command (or PTY) of a sandbox: the process run by envd, the         *)
(* server-stream that reports it, open_handle, the spawned driver task,    *)
(* the bounded output channel, the one-shot result and the CommandHandle   *)
(* the caller holds (sandbox/commands/handle.rs).                          *)
(*                                                                         *)
(* A chunk of output is an element of Chunks, tagged with the stream it    *)
(* belongs to; its bytes are left out.  The server-stream is the sequence  *)
(* of messages it still has to yield and what ends it: ConnectStream       *)
(* models how those messages are cut out of response bytes.                *)
(*                                                                         *)
(* `at' in an event is an auxiliary stamp: how much the process had        *)
(* written when envd emitted it.  The client never reads it.               *)
(***************************************************************************)
EXTENDS Integers, Sequences

CONSTANTS Chunks,     \* what a process may write: records with a kind field
          Statuses,   \* exit statuses: records with code and err fields
          Capacity,   \* of the output channel: 128 in the code
          MaxOutput,  \* bound: chunks a process writes
          MaxQueue    \* bound: messages the connection buffers

ASSUME CapacityAssumption == Capacity \in Nat \ {0}
ASSUME ChunksAssumption ==
         \A c \in Chunks : c.kind \in {"stdout", "stderr", "pty"}
ASSUME StatusesAssumption ==
         Statuses \subseteq [code : Int, err : {"none", "reported"}]

VARIABLES
  \* The process and its history, in the sandbox.
  proc,      \* "absent", "running" or "exited"
  produced,  \* every chunk it has written
  status,    \* its exit status
  \* The server-stream.
  queue,     \* messages not yet yielded to the client
  fate,      \* what follows them: "live" (more), "closed" (end-stream frame),
             \* "cut" (end of body, no end-stream frame), "failed" (an error)
  \* The client.
  handle,    \* "opening", "failed", "open", "waiting", "returned", "dropped"
  driver,    \* "none", "polling", "sending", "replied", "finished", "aborted"
  pend,      \* the chunk the driver is sending: << >> or one chunk
  stdout,    \* accumulated for the result
  stderr,
  chan,      \* the output channel
  reply,     \* the one-shot: what the driver sent, if it has
  popped,    \* chunks taken from the channel by next or drained by wait
  outcome    \* what wait returned

server  == <<proc, produced, status>>
stream  == <<queue, fate>>
account == <<stdout, stderr>>
vars == <<proc, produced, status, queue, fate, handle, driver, pend,
          stdout, stderr, chan, reply, popped, outcome>>

NoStatus == [code |-> 0, err |-> "running"]
None     == [kind |-> "none"]      \* no reply, or no outcome, yet

Data(c, n) == [tag |-> "data", at |-> n, chunk |-> c]
End(s, n)  == [tag |-> "end", at |-> n, status |-> s]
Start      == [tag |-> "start", at |-> 0]
\* KeepAlive, an empty event, and a data event without output.
Silent(n)  == [tag |-> "keepalive", at |-> n]

-----------------------------------------------------------------------------
(* envd: it accepts the request, then reports what the process does.       *)

Init == /\ proc = "absent" /\ produced = << >> /\ status = NoStatus
        /\ queue = << >> /\ fate = "live"
        /\ handle = "opening" /\ driver = "none"
        /\ pend = << >> /\ chan = << >> /\ stdout = << >> /\ stderr = << >>
        /\ reply = None /\ popped = << >> /\ outcome = None

\* envd starts the process and answers 200.  The first message is the start
\* event, after keep-alives or not; an envd that omits it is the case
\* open_handle guards against.  A request under way may still arrive when
\* the caller has given up.
Accept == /\ proc = "absent"
          /\ proc' = "running"
          /\ queue' \in {<<Start>>, <<Silent(0), Start>>, << >>}
          /\ UNCHANGED <<produced, status, fate, handle, driver, pend,
                         account, chan, reply, popped, outcome>>

\* Emit appends to the stream while it is live; what the process does after
\* the connection is gone reaches nobody.
Emit(e) == queue' = IF fate = "live" THEN Append(queue, e) ELSE queue

Write == /\ proc = "running"
         /\ Len(produced) < MaxOutput
         /\ fate = "live" => Len(queue) < MaxQueue
         /\ \E c \in Chunks :
              /\ produced' = Append(produced, c)
              /\ Emit(Data(c, Len(produced) + 1))
         /\ UNCHANGED <<proc, status, fate, handle, driver, pend,
                        account, chan, reply, popped, outcome>>

KeepAlive == /\ proc = "running" /\ fate = "live" /\ queue = << >>
             /\ Emit(Silent(Len(produced)))
             /\ UNCHANGED <<server, fate, handle, driver, pend,
                            account, chan, reply, popped, outcome>>

\* The process ends, on its own or killed (CommandHandle::kill or
\* Commands::kill): the end event and the end-stream frame follow.
Exit == /\ proc = "running"
        /\ proc' = "exited"
        /\ \E s \in Statuses : status' = s /\ Emit(End(s, Len(produced)))
        /\ fate' = IF fate = "live" THEN "closed" ELSE fate
        /\ UNCHANGED <<produced, handle, driver, pend,
                       account, chan, reply, popped, outcome>>

\* The connection ends early: some of the messages under way are lost, and
\* the client then sees an error ("failed": a transport error, an end-stream
\* frame carrying one, or a message it cannot decode) or nothing ("cut").
Disconnect == /\ proc # "absent" /\ fate \in {"live", "closed"}
              /\ fate' \in {"cut", "failed"}
              /\ \E n \in 0..Len(queue) : queue' = SubSeq(queue, 1, n)
              /\ UNCHANGED <<server, handle, driver, pend,
                             account, chan, reply, popped, outcome>>

-----------------------------------------------------------------------------
(* stream.next(): a message, an error, or the end of the stream.           *)

Yields(e)    == queue # << >> /\ e = Head(queue)
StreamErr    == queue = << >> /\ fate = "failed"
StreamEnd    == queue = << >> /\ fate \in {"closed", "cut"}
TakeMessage  == queue' = Tail(queue)

-----------------------------------------------------------------------------
(* open_handle, up to the start event.                                     *)

\* The request fails before or after envd acted on it, or the future that
\* runs open_handle is dropped: no handle, whatever became of the process.
OpenFails == /\ handle = "opening"
             /\ handle' = "failed"
             /\ UNCHANGED <<server, stream, driver, pend,
                            account, chan, reply, popped, outcome>>

OpenStarts == /\ handle = "opening"
              /\ Yields(Start) /\ TakeMessage
              /\ handle' = "open" /\ driver' = "polling"
              /\ UNCHANGED <<server, fate, pend,
                             account, chan, reply, popped, outcome>>

OpenSkips == /\ handle = "opening"
             /\ \E n \in 0..MaxOutput : Yields(Silent(n))
             /\ TakeMessage
             /\ UNCHANGED <<server, fate, handle, driver, pend,
                            account, chan, reply, popped, outcome>>

\* Output before the start event, an error, or an end: Err, and the stream
\* is dropped.
OpenRefuses == /\ handle = "opening"
               /\ \/ queue # << >> /\ Head(queue).tag \in {"data", "end"}
                  \/ StreamErr \/ StreamEnd
               /\ handle' = "failed"
               /\ UNCHANGED <<server, stream, driver, pend,
                              account, chan, reply, popped, outcome>>

-----------------------------------------------------------------------------
(* The driver task.                                                        *)

DriverTakesOutput ==
  /\ driver = "polling" /\ queue # << >> /\ Head(queue).tag = "data"
  /\ TakeMessage
  /\ LET c == Head(queue).chunk
     IN  /\ pend' = <<c>>
         /\ stdout' = IF c.kind = "stdout" THEN Append(stdout, c) ELSE stdout
         /\ stderr' = IF c.kind = "stderr" THEN Append(stderr, c) ELSE stderr
  /\ driver' = "sending"
  /\ UNCHANGED <<server, fate, handle, chan, reply, popped, outcome>>

\* Fault (mutant of DriverSends): try_send, the chunk lost when there is no room.
TrySend ==
  /\ driver = "sending"
  /\ chan' = IF handle = "dropped" \/ Len(chan) = Capacity THEN chan
             ELSE chan \o pend
  /\ pend' = << >>
  /\ driver' = "polling"
  /\ UNCHANGED <<server, stream, handle, account, reply, popped, outcome>>

\* output_tx.send(..).await: it waits for room, and fails at once when the
\* receiver is gone.
DriverSends ==
  /\ driver = "sending"
  /\ IF handle = "dropped" THEN chan' = chan
                           ELSE Len(chan) < Capacity /\ chan' = chan \o pend
  /\ pend' = << >>
  /\ driver' = "polling"
  /\ UNCHANGED <<server, stream, handle, account, reply, popped, outcome>>

DriverSkips ==
  /\ driver = "polling" /\ queue # << >>
  /\ Head(queue).tag \in {"start", "keepalive"}
  /\ TakeMessage
  /\ UNCHANGED <<server, fate, handle, driver, pend,
                 account, chan, reply, popped, outcome>>

\* The CommandResult, without the exit code and error of the end event.
Ok(code, err) == [kind |-> "ok", code |-> code, err |-> err,
                  stdout |-> stdout, stderr |-> stderr]

\* Fault (mutant of Outcome): a stream that stops passes for an exit with 0.
TruncationIsSuccess(o) ==
  \/ /\ queue # << >> /\ Head(queue).tag = "end"
     /\ o = Ok(Head(queue).status.code, Head(queue).status.err)
     /\ TakeMessage
  \/ StreamErr /\ o = [kind |-> "err"] /\ UNCHANGED queue
  \/ StreamEnd /\ o = Ok(0, "none") /\ UNCHANGED queue

\* What result_tx carries once the loop is left: on the end event, on an
\* error, and on an end of the stream without an end event.
Outcome(o) ==
  \/ /\ queue # << >> /\ Head(queue).tag = "end"
     /\ o = Ok(Head(queue).status.code, Head(queue).status.err)
     /\ TakeMessage
  \/ StreamErr /\ o = [kind |-> "err"] /\ UNCHANGED queue
  \/ StreamEnd /\ o = Ok(0, "closed") /\ UNCHANGED queue

DriverReplies ==
  /\ driver = "polling"
  /\ Outcome(reply')
  /\ driver' = "replied"
  /\ UNCHANGED <<server, fate, handle, pend, account, chan, popped, outcome>>

\* The task returns, and output_tx with it.
DriverFinishes ==
  /\ driver = "replied"
  /\ driver' = "finished"
  /\ UNCHANGED <<server, stream, handle, pend,
                 account, chan, reply, popped, outcome>>

\* Fault (mutant of DriverAborts): only a task that sends notices the drop.
AbortsWhenSending ==
  /\ handle = "dropped" /\ driver = "sending"
  /\ driver' = "aborted"
  /\ UNCHANGED <<server, stream, handle, pend,
                 account, chan, reply, popped, outcome>>

\* abort() takes effect at an await of the task.
DriverAborts ==
  /\ handle = "dropped" /\ driver \in {"polling", "sending"}
  /\ driver' = "aborted"
  /\ UNCHANGED <<server, stream, handle, pend,
                 account, chan, reply, popped, outcome>>

-----------------------------------------------------------------------------
(* The caller.                                                             *)

SenderGone == driver \in {"finished", "aborted"}

Recv == /\ chan # << >>
        /\ popped' = Append(popped, Head(chan))
        /\ chan' = Tail(chan)

\* next(): a chunk (None, once the sender is gone, changes nothing).
HandleNext == /\ handle = "open"
              /\ Recv
              /\ UNCHANGED <<server, stream, handle, driver, pend,
                             account, reply, outcome>>

HandleWait == /\ handle = "open"
              /\ handle' = "waiting"
              /\ UNCHANGED <<server, stream, driver, pend,
                             account, chan, reply, popped, outcome>>

\* Fault (mutant of WaitDrains): wait awaits the result before it drains.
DrainsAfterwards == /\ handle = "waiting" /\ driver = "finished"
                    /\ Recv
                    /\ UNCHANGED <<server, stream, handle, driver, pend,
                                   account, reply, outcome>>

WaitDrains == /\ handle = "waiting"
              /\ Recv
              /\ UNCHANGED <<server, stream, handle, driver, pend,
                             account, reply, outcome>>

\* Fault (mutant of WaitReturns): wait returns with output still unread.
ReturnsUndrained == /\ handle = "waiting"
                    /\ SenderGone
                    /\ outcome' = IF reply = None THEN [kind |-> "noresult"]
                                                  ELSE reply
                    /\ handle' = "returned"
                    /\ UNCHANGED <<server, stream, driver, pend,
                                   account, chan, reply, popped>>

\* Fault (mutant of WaitReturns): the exit code does not get through.
LosesExitCode == /\ handle = "waiting"
                 /\ chan = << >> /\ SenderGone
                 /\ outcome' = IF reply.kind = "ok"
                               THEN [reply EXCEPT !.code = 0] ELSE reply
                 /\ handle' = "returned"
                 /\ UNCHANGED <<server, stream, driver, pend,
                                account, chan, reply, popped>>

\* recv() returned None; then the one-shot gives its value, or fails when
\* the task went without sending one.  Returning drops the handle.
WaitReturns == /\ handle = "waiting"
               /\ chan = << >> /\ SenderGone
               /\ outcome' = IF reply = None THEN [kind |-> "noresult"]
                                             ELSE reply
               /\ handle' = "returned"
               /\ UNCHANGED <<server, stream, driver, pend,
                              account, chan, reply, popped>>

\* The handle, or the future of wait, is dropped: the receiver goes with it.
HandleDrop == /\ handle \in {"open", "waiting"}
              /\ handle' = "dropped"
              /\ chan' = << >>
              /\ UNCHANGED <<server, stream, driver, pend,
                             account, reply, popped, outcome>>

-----------------------------------------------------------------------------
Envd   == Accept \/ Write \/ KeepAlive \/ Exit \/ Disconnect
Open   == OpenFails \/ OpenStarts \/ OpenSkips \/ OpenRefuses
Driver == \/ DriverTakesOutput \/ DriverSends \/ DriverSkips
          \/ DriverReplies \/ DriverFinishes \/ DriverAborts
Caller == \/ HandleNext \/ HandleWait \/ WaitDrains \/ WaitReturns
          \/ HandleDrop

Next == Envd \/ Open \/ Driver \/ Caller

Spec == Init /\ [][Next]_vars

\* The runtime polls a task that can make progress, cancels one that was
\* aborted, and polls a wait that can make progress.  Nothing makes a caller
\* call next, a process end, or a connection break.
FairSpec == /\ Spec
            /\ WF_vars(Driver) /\ WF_vars(DriverAborts)
            /\ WF_vars(WaitDrains) /\ WF_vars(WaitReturns)

-----------------------------------------------------------------------------
(* Properties.                                                             *)

Events ==
  [tag : {"data"}, at : Nat, chunk : Chunks]
  \cup [tag : {"end"}, at : Nat, status : Statuses]
  \cup [tag : {"start", "keepalive"}, at : Nat]

Replies ==
  [kind : {"none", "err", "noresult"}]
  \cup [kind : {"ok"}, code : Int, err : {"none", "reported", "closed"},
        stdout : Seq(Chunks), stderr : Seq(Chunks)]

\* Every variable has its type, and the channel never holds more than its
\* capacity.
TypeOK ==
  /\ proc \in {"absent", "running", "exited"}
  /\ produced \in Seq(Chunks)
  /\ status \in Statuses \cup {NoStatus}
  /\ queue \in Seq(Events)
  /\ fate \in {"live", "closed", "cut", "failed"}
  /\ handle \in {"opening", "failed", "open", "waiting", "returned", "dropped"}
  /\ driver \in {"none", "polling", "sending", "replied", "finished", "aborted"}
  /\ pend \in Seq(Chunks) /\ Len(pend) <= 1
  /\ stdout \in Seq(Chunks) /\ stderr \in Seq(Chunks)
  /\ chan \in Seq(Chunks) /\ Len(chan) <= Capacity
  /\ reply \in Replies /\ outcome \in Replies
  /\ popped \in Seq(Chunks)

\* What the driver took from the stream and has not thrown away.
Taken == popped \o chan \o pend

Prefix(s, t) == Len(s) <= Len(t) /\ s = SubSeq(t, 1, Len(s))

\* Live output is the process's output: what next returns and wait drains,
\* then what waits in the channel, then what the driver holds, is what the
\* process wrote, from its first chunk on, nothing lost, repeated or
\* overtaken on the way through stream, task and channel.
OutputInOrder == /\ Prefix(popped, produced)
                 /\ handle # "dropped" => Prefix(Taken, produced)

\* The chunks of s that are of kind k, in order: SelectSeq, as a recursive
\* function, which is what can be reasoned about.
OfKind(s, k) ==
  LET kept[n \in 0..Len(s)] ==
        IF n = 0 THEN << >>
        ELSE IF s[n].kind = k THEN Append(kept[n - 1], s[n]) ELSE kept[n - 1]
  IN  kept[Len(s)]

\* A result envd reported, in an end event.
Reported(r) == r.kind = "ok" /\ r.err # "closed"

\* A reported result is the truth: the process has exited with that code and
\* that error, and the result holds all it wrote.  A stream that broke off,
\* with or without an error, never passes for one.
ResultIsGenuine ==
  Reported(reply) => /\ proc = "exited"
                     /\ reply.code = status.code /\ reply.err = status.err
                     /\ reply.stdout = OfKind(produced, "stdout")
                     /\ reply.stderr = OfKind(produced, "stderr")

\* wait never fails for want of a result, and a reported result comes only
\* after every chunk has passed through the channel.
WaitIsComplete == /\ outcome.kind # "noresult"
                  /\ Reported(outcome) => popped = produced

\* wait returns once the stream has ended, however much output was unread
\* when it was called: it drains what the bounded channel holds up.
WaitReturnsAtEnd ==
  (handle = "waiting" /\ fate # "live") ~> (handle \in {"returned", "dropped"})

\* Dropping the handle (or the future of wait) ends the driver task even
\* while the process runs on: no task is left behind.
DropEndsDriver == (handle = "dropped") ~> (driver \in {"finished", "aborted"})

-----------------------------------------------------------------------------
(* What makes the safety properties inductive; CommandHandle_proofs.       *)

Weight(e) == IF e.tag = "data" THEN 1 ELSE 0

\* The stream continues where the driver stands: each message is stamped one
\* chunk after, or level with, the one before it (the first: with what the
\* driver took), data carries the chunk its stamp names, a live stream ends
\* level with the process, and an end event is the last word.
StreamInStep ==
  /\ handle # "dropped" =>
       /\ queue # << >> => queue[1].at = Len(Taken) + Weight(queue[1])
       /\ fate = "live" /\ queue = << >> => Len(Taken) = Len(produced)
  /\ \A i \in 2..Len(queue) :
       queue[i].at = queue[i - 1].at + Weight(queue[i])
  /\ fate = "live" /\ queue # << >> => queue[Len(queue)].at = Len(produced)
  /\ \A i \in 1..Len(queue) :
       /\ queue[i].at <= Len(produced)
       /\ queue[i].tag = "data" => /\ queue[i].at >= 1
                                  /\ queue[i].chunk = produced[queue[i].at]
       /\ queue[i].tag = "end" => /\ proc = "exited"
                                 /\ queue[i].status = status
                                 /\ queue[i].at = Len(produced)

\* How far each side has got: who may hold a chunk, when the one-shot is
\* filled, and when the task can be gone.
Stages ==
  /\ proc = "absent" => produced = << >> /\ queue = << >> /\ fate = "live"
  /\ proc # "exited" => fate # "closed"
  /\ proc = "exited" => fate # "live"
  /\ handle \in {"opening", "failed"} <=> driver = "none"
  /\ driver = "none" => popped = << >> /\ chan = << >>
  /\ driver \notin {"sending", "aborted"} => pend = << >>
  /\ driver \in {"replied", "finished"} <=> reply # None
  /\ reply.kind # "noresult"
  /\ driver = "aborted" => handle = "dropped"

\* A reported result, in the one-shot or returned, was earned.
Earned ==
  /\ Reported(reply) => /\ proc = "exited"
                        /\ reply.code = status.code /\ reply.err = status.err
                        /\ handle # "dropped" => Len(Taken) = Len(produced)
  /\ reply.kind = "ok" /\ reply.err = "closed" => reply.code = 0
  /\ outcome # None => /\ handle = "returned" /\ chan = << >>
                       /\ outcome = reply
                       /\ driver = "finished"

\* The result so far accounts for the first n chunks the process wrote.
Accounted(n) == /\ stdout = OfKind(SubSeq(produced, 1, n), "stdout")
                /\ stderr = OfKind(SubSeq(produced, 1, n), "stderr")

\* The result so far holds what was written before the next message, also when
\* the handle is dropped and the chunks themselves are gone; a reported result
\* holds everything.
InAccount ==
  /\ queue # << >> => Accounted(queue[1].at - Weight(queue[1]))
  /\ fate = "live" /\ queue = << >> => Accounted(Len(produced))
  /\ Reported(reply) => /\ reply.stdout = OfKind(produced, "stdout")
                        /\ reply.stderr = OfKind(produced, "stderr")

IInv == TypeOK /\ OutputInOrder /\ StreamInStep /\ Stages /\ Earned /\ InAccount

-----------------------------------------------------------------------------
\* What the caller learns from wait's return value, its text aside.
Told == IF outcome.kind = "ok"
        THEN [kind |-> "ok", code |-> outcome.code, err |-> outcome.err]
        ELSE IF outcome = None THEN None ELSE [kind |-> "err"]

Session == INSTANCE ProcessSession WITH outcome <- Told

\* The whole machinery keeps the promise of ProcessSession.
ImplementsSession == Session!Spec
=============================================================================
