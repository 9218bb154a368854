------------------------------- MODULE Processes -------------------------------
(***************************************************************************)
(* The calls on the processes of a sandbox: Commands, Pty, and those of a  *)
(* CommandHandle, which are the same requests with its pid                 *)
(* (sandbox/commands/mod.rs, handle.rs, sandbox/pty/mod.rs).  What follows *)
(* a Start or Connect answered is CommandHandle.                           *)
(*                                                                         *)
(* A request is [op, pid, user, arg].  The arg of start is [pty, stdin],   *)
(* stdin being "unset", "on" or "off"; of send_input [pty, data].          *)
(***************************************************************************)
EXTENDS Errors, Versions, Sequences, FiniteSets

CONSTANTS Pids,   \* of the processes there will be, none used twice: a subset of Nat \ {0}
          MaxIn   \* bound: what is written to one process

ASSUME ProcessesAssumption == Pids \subseteq Nat \ {0} /\ MaxIn \in Nat

\* A process is [at, pty, input, got]: input says whether stdin takes anything.
Unborn == [at |-> "unborn", pty |-> FALSE, input |-> "shut", got |-> << >>]

ProcStore(version) == [api |-> "processes", version |-> version,
                       proc |-> [p \in Pids |-> Unborn]]

ProcAsk(op, pid, user, arg) == [op |-> op, pid |-> pid, user |-> user, arg |-> arg]

-----------------------------------------------------------------------------
(* Before the request.                                                     *)

ProcRefuses(s, r) ==
  IF \/ /\ r.op = "start" /\ ~ r.arg.pty /\ r.arg.stdin = "off"
        /\ ~ VersionGte(s.version, ENVD_COMMANDS_STDIN)
     \/ r.op = "close_stdin" /\ ~ VersionGte(s.version, ENVD_ENVD_CLOSE)
  THEN {Err("Template")} ELSE {}

\* The stdin field of a StartRequest: a pty's has none, and unset means off.
Stdin(arg) == IF arg.pty THEN "none" ELSE IF arg.stdin = "on" THEN "on" ELSE "off"

-----------------------------------------------------------------------------
(* envd.                                                                   *)

ProcReply(s, a) == {[store |-> s, answer |-> a]}
Running(s)      == {p \in Pids : s.proc[p].at = "running"}

\* An envd that does not know the field leaves stdin open.
Born(s, arg) ==
  [at |-> "running", pty |-> arg.pty, got |-> << >>,
   input |-> IF ~ arg.pty /\ Stdin(arg) = "off"
                  /\ VersionGte(s.version, ENVD_COMMANDS_STDIN) THEN "shut" ELSE "open"]

Exited(s, p) == [s EXCEPT !.proc[p].at = "ended", !.proc[p].input = "shut"]

\* The calls on a process that runs.
ServeRunning(s, p, r) ==
  CASE r.op = "kill"    -> ProcReply(Exited(s, p), Success("none"))
    [] r.op = "connect" -> ProcReply(s, Success(p))
    [] r.op = "resize"  -> ProcReply(s, IF s.proc[p].pty THEN Success("none")
                                        ELSE Named(400, "failed_precondition"))
    [] r.op = "send_input" ->
         IF s.proc[p].pty # r.arg.pty \/ s.proc[p].input = "shut"
         THEN ProcReply(s, Named(400, "failed_precondition"))
         ELSE IF Len(s.proc[p].got) = MaxIn THEN ProcReply(s, Bare(429))
         ELSE ProcReply([s EXCEPT !.proc[p].got = Append(@, r.arg.data)], Success("none"))
    [] r.op = "close_stdin" ->
         IF s.proc[p].pty THEN ProcReply(s, Named(400, "failed_precondition"))
         ELSE ProcReply([s EXCEPT !.proc[p].input = "shut"], Success("none"))

ServeProcess(s, r) ==
  LET p == r.pid IN
  CASE r.op = "start" ->
         UNION {ProcReply([s EXCEPT !.proc[i] = Born(s, r.arg)], Success(i))
                : i \in {x \in Pids : s.proc[x] = Unborn
                                      /\ \A y \in Pids : s.proc[y] = Unborn => x <= y}}
    [] r.op = "list" -> ProcReply(s, Success(Running(s)))
    [] OTHER ->
         IF r.op = "close_stdin" /\ ~ VersionGte(s.version, ENVD_ENVD_CLOSE)
         THEN ProcReply(s, Bare(404))
         ELSE IF p \notin Running(s) THEN ProcReply(s, Named(404, "not_found"))
         ELSE ServeRunning(s, p, r)

ProcTroubles == {Bare(502), Named(409, "aborted"), Numbered(500, 503)}

ProcServe(s, r) ==
  LET outs == IF User(s.version, r.user) = "none" /\ ~ VersionGte(s.version, ENVD_DEFAULT_USER)
              THEN ProcReply(s, Bare(401)) ELSE ServeProcess(s, r)
  IN  outs \union {[o EXCEPT !.answer = Garbled] : o \in {x \in outs : x.answer.http = 200}}
           \union UNION {ProcReply(s, a) : a \in ProcTroubles}

\* A process ends by itself.
ProcDrift(s) == {Exited(s, p) : p \in Running(s)}

-----------------------------------------------------------------------------
(* What the SDK makes of the answer.                                       *)

Kill(a) == IF Unary(a)[1] = "ok" THEN Ok("true") ELSE OnError(Unary(a), "NotFound", Ok("false"))

\* start and connect: a stream that does not begin with the start event is Internal too.
ProcResult(r, a) == IF r.op = "kill" THEN Kill(a) ELSE Unary(a)

-----------------------------------------------------------------------------
(* What the documentation promises.                                        *)

ProcUnsupported(s, r) ==
  \/ /\ r.op = "start" /\ ~ r.arg.pty /\ r.arg.stdin = "off"
     /\ ~ VersionGte(s.version, ENVD_COMMANDS_STDIN)
  \/ r.op = "close_stdin" /\ ~ VersionGte(s.version, ENVD_ENVD_CLOSE)

ProcMeans(s, r, s2, v) ==
  CASE r.op = "start" -> /\ v \notin Running(s) /\ v \in Running(s2)
                         /\ s2.proc[v].pty = r.arg.pty
                         /\ r.arg.stdin = "on" /\ ~ r.arg.pty => s2.proc[v].input = "open"
                         /\ r.arg.stdin = "off" /\ ~ r.arg.pty => s2.proc[v].input = "shut"
    [] r.op = "list" -> s2 = s /\ v = Running(s)
    [] r.op = "kill" -> /\ r.pid \notin Running(s2)
                        /\ v = IF r.pid \in Running(s) THEN "true" ELSE "false"
    [] r.op = "connect" -> s2 = s /\ v = r.pid /\ r.pid \in Running(s)
    [] r.op = "resize"  -> s2 = s /\ s.proc[r.pid].pty
    [] r.op = "send_input" ->
         s2 = [s EXCEPT !.proc[r.pid].got = Append(@, r.arg.data)]
    [] r.op = "close_stdin" -> s2.proc[r.pid].input = "shut"

ProcPromises(s, r, s2, result) ==
  IF ProcUnsupported(s, r) THEN result = Err("Template") /\ s2 = s
  ELSE IF result[1] = "ok" THEN ProcMeans(s, r, s2, result[2])
  ELSE CASE result[2] \in {"Timeout", "Sandbox", "RateLimit", "Internal"} -> TRUE
         [] result[2] = "NotFound" -> s2 = s /\ r.op # "kill" /\ r.pid \notin Running(s)
         [] OTHER -> FALSE
===============================================================================
