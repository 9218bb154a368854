--------------------------- MODULE GitCredentials ---------------------------
(***************************************************************************)
(* The calls of Git that carry credentials (sandbox/git/mod.rs): push and  *)
(* pull, which put them into the remote's URL, run, and put the old URL    *)
(* back (with_remote_credentials); and clone, which leaves them in the URL *)
(* of origin and strips them.  Each step is a command run in the sandbox.  *)
(*                                                                         *)
(* There is one repository with one remote.  Its URL is Plain, or holds    *)
(* the credentials of a caller c, and is then written c itself; Absent is  *)
(* no repository, and an empty output.                                     *)
(*                                                                         *)
(* A command's result is what ProcessSession promises: the exit status of  *)
(* the process, an error, or Ok with exit code 0 from a stream that broke  *)
(* off ("closed").  In the last two cases, and when the caller drops the   *)
(* call, the process may still run, later: it is then an orphan.           *)
(***************************************************************************)
EXTENDS Naturals, FiniteSets

CONSTANTS Callers,
          Kind,          \* Callers -> {"push", "pull", "clone"}
          Plain, Absent,
          Initially,     \* the remote at the start: Plain or Absent
          Faults         \* what goes wrong: a subset of AllFaults

AllFaults == {"nonzero", "lost", "closed", "cancel"}

ASSUME FaultsAssumption == Faults \subseteq AllFaults
ASSUME KindAssumption == Kind \in [Callers -> {"push", "pull", "clone"}]
ASSUME UrlAssumption == /\ Initially \in {Plain, Absent} /\ Plain # Absent
                        /\ Callers \cap {Plain, Absent} = {}

VARIABLES
  remote,   \* the URL in .git/config
  pc,       \* per caller: "idle", the command under way ("upstream", "resolve",
            \* "get", "set", "op", "restore", "clone", "strip"), or "done"
  job,      \* per caller: that command's process
  original, \* per caller: original_url, for the length of the call
  opOk,     \* per caller: whether op gave a result rather than an error
  ret,      \* per caller: "none", "ok", "err" or "cancelled"
  orphans,  \* processes nobody waits for
  excused   \* history: the callers whose call overlapped another's, or its
            \* left-over process, or had a stream cut short

vars == <<remote, pc, job, original, opOk, ret, orphans, excused>>

Urls == Callers \cup {Plain, Absent}

NoJob   == [st |-> "none", zero |-> FALSE, out |-> Absent]
Pending == [st |-> "pending", zero |-> FALSE, out |-> Absent]

Init == /\ remote = Initially
        /\ pc = [c \in Callers |-> "idle"]
        /\ job = [c \in Callers |-> NoJob]
        /\ original = [c \in Callers |-> Absent]
        /\ opOk = [c \in Callers |-> FALSE]
        /\ ret = [c \in Callers |-> "none"]
        /\ orphans = {}
        /\ excused = {}

-----------------------------------------------------------------------------
(* The sandbox: what a command does to the repository.                     *)

\* What the command a caller is at writes: "clone" makes the repository.
Command(c) == [at  |-> IF pc[c] = "clone" THEN "clone"
                       ELSE IF pc[c] \in {"set", "restore", "strip"} THEN "set-url"
                       ELSE "read",
               url |-> CASE pc[c] \in {"set", "clone"} -> c
                         [] pc[c] = "restore" -> original[c]
                         [] OTHER -> Plain]

\* The command succeeds (zero) or fails, leaving the repository at url.  A
\* clone that fails at its checkout leaves a repository behind.
Effect(cmd, zero, url) ==
  \/ /\ cmd.at = "clone" /\ remote = Absent
     /\ \/ zero /\ url = cmd.url
        \/ "nonzero" \in Faults /\ ~ zero /\ url \in {cmd.url, Absent}
  \/ /\ cmd.at = "set-url" /\ remote # Absent
     /\ \/ zero /\ url = cmd.url
        \/ "nonzero" \in Faults /\ ~ zero /\ url = remote
  \/ /\ cmd.at = "read" /\ remote # Absent
     /\ zero \/ "nonzero" \in Faults
     /\ url = remote
  \/ /\ (remote = Absent) # (cmd.at = "clone")
     /\ ~ zero /\ url = remote

Execute(c) == /\ job[c].st = "pending"
              /\ \E zero \in BOOLEAN :
                   /\ Effect(Command(c), zero, remote')
                   /\ job' = [job EXCEPT ![c] =
                                [st |-> "exited", zero |-> zero,
                                 out |-> IF zero THEN remote ELSE Absent]]
              /\ UNCHANGED <<pc, original, opOk, ret, orphans, excused>>

ExecuteOrphan == /\ \E cmd \in orphans :
                      /\ \E zero \in BOOLEAN : Effect(cmd, zero, remote')
                      /\ orphans' = orphans \ {cmd}
                 /\ UNCHANGED <<pc, job, original, opOk, ret, excused>>

-----------------------------------------------------------------------------
(* The calls.                                                              *)

GoTo(c, step) == /\ pc' = [pc EXCEPT ![c] = step]
                 /\ job' = [job EXCEPT ![c] = Pending]
                 /\ ret' = ret

RunNext(c, step) == GoTo(c, step) /\ UNCHANGED <<original, opOk>>

Return(c, v) == /\ pc' = [pc EXCEPT ![c] = "done"]
                /\ job' = [job EXCEPT ![c] = NoJob]
                /\ ret' = [ret EXCEPT ![c] = v]
                /\ original' = [original EXCEPT ![c] = Absent]
                /\ opOk' = [opOk EXCEPT ![c] = FALSE]

UnderWay == {c \in Callers : pc[c] \notin {"idle", "done"}}

Quiet == /\ UnderWay = {}
         /\ orphans = {}

\* A pull without remote and branch looks for an upstream; push and pull look
\* the remote up unless it was given.  These commands only read.
Start(c) == /\ pc[c] = "idle"
            /\ excused' = IF Quiet THEN excused ELSE excused \cup UnderWay \cup {c}
            /\ \E step \in CASE Kind[c] = "clone" -> {"clone"}
                             [] Kind[c] = "push" -> {"resolve", "get"}
                             [] Kind[c] = "pull" -> {"upstream", "resolve", "get"} :
                 RunNext(c, step)
            /\ UNCHANGED <<remote, orphans>>

\* Fault (mutant of SetUrlDone): a set-url that exits with an error passes.
SetUrlSent(r) == r # "lost"

\* check_set_url_exit: Err when the command or the connection failed.
SetUrlDone(r) == r = "zero"

\* Fault (mutant of AfterOp): an operation that fails returns at once.
ReturnsOnError(c, r) ==
  IF r = "lost" THEN Return(c, "err")
  ELSE GoTo(c, "restore") /\ opOk' = [opOk EXCEPT ![c] = TRUE] /\ UNCHANGED original

\* Whatever the operation gave, the restore is next.
AfterOp(c, r) == /\ GoTo(c, "restore")
                 /\ opOk' = [opOk EXCEPT ![c] = r # "lost"]
                 /\ UNCHANGED original

\* The caller's side of a command: r is "zero", "nonzero" or "lost" (Err),
\* out its output.
Continue(c, r, out) ==
  \/ /\ pc[c] = "upstream"
     /\ IF r = "zero" /\ out # Absent THEN RunNext(c, "resolve") ELSE Return(c, "err")
  \/ /\ pc[c] = "resolve"              \* here and at "get" the output counts
     /\ IF r # "lost" /\ out # Absent THEN RunNext(c, "get") ELSE Return(c, "err")
  \/ /\ pc[c] = "get"
     /\ \/ /\ r # "lost" /\ out # Absent
           /\ GoTo(c, "set")
           /\ original' = [original EXCEPT ![c] = out] /\ UNCHANGED opOk
        \/ /\ r = "lost" \/ out \in {Absent, Plain}  \* the plain one may not be http(s)
           /\ Return(c, "err")
  \/ /\ pc[c] = "set"
     /\ IF SetUrlDone(r) THEN RunNext(c, "op") ELSE Return(c, "err")
  \/ pc[c] = "op" /\ AfterOp(c, r)
  \/ /\ pc[c] = "restore"
     /\ Return(c, IF opOk[c] /\ SetUrlDone(r) THEN "ok" ELSE "err")
  \/ /\ pc[c] = "clone"
     /\ \/ r = "zero" /\ RunNext(c, "strip")
        \/ r = "nonzero" /\ \E v \in {"failed", "err"} : Return(c, v)
        \/ r = "lost" /\ Return(c, "err")
  \/ /\ pc[c] = "strip"
     /\ Return(c, IF SetUrlDone(r) THEN "ok" ELSE "err")

\* The process has exited and its end event was seen.
Answer(c) == /\ job[c].st = "exited"
             /\ Continue(c, IF job[c].zero THEN "zero" ELSE "nonzero", job[c].out)
             /\ UNCHANGED <<remote, orphans, excused>>

\* What becomes of a process that nobody waits for any more.
LeaveBehind(c) ==
  IF job[c].st = "pending" /\ Command(c).at # "read"
  THEN orphans' \in {orphans, orphans \cup {Command(c)}}
  ELSE orphans' = orphans

\* The connection fails: the caller gets an error.
Lost(c) == /\ "lost" \in Faults /\ job[c].st # "none"
           /\ LeaveBehind(c)
           /\ Continue(c, "lost", Absent)
           /\ UNCHANGED <<remote, excused>>

\* The stream ends without an end event, output or not: Ok, exit code 0.
Closed(c) == /\ "closed" \in Faults /\ job[c].st # "none"
             /\ LeaveBehind(c)
             /\ \E out \in {job[c].out, Absent} : Continue(c, "zero", out)
             /\ excused' = excused \cup {c}
             /\ UNCHANGED remote

\* The caller drops the call's future; nothing runs afterwards.
Cancel(c) == /\ "cancel" \in Faults /\ job[c].st # "none"
             /\ LeaveBehind(c)
             /\ Return(c, "cancelled")
             /\ UNCHANGED <<remote, excused>>

-----------------------------------------------------------------------------
Next == \/ ExecuteOrphan
        \/ \E c \in Callers : \/ Execute(c) \/ Start(c) \/ Answer(c)
                              \/ Lost(c) \/ Closed(c) \/ Cancel(c)

Spec == Init /\ [][Next]_vars

\* Commands run to their end, and a caller polls its call.  Nothing makes a
\* connection fail.
FairSpec == /\ Spec
            /\ \A c \in Callers : WF_vars(Execute(c)) /\ WF_vars(Answer(c))

-----------------------------------------------------------------------------
(* Properties.                                                             *)

Commands == [at : {"clone", "set-url", "read"}, url : Urls]

\* Every variable has its type, and a call has a process just while it is at
\* a command.
TypeOK ==
  /\ remote \in Urls
  /\ pc \in [Callers -> {"idle", "upstream", "resolve", "get", "set", "op",
                         "restore", "clone", "strip", "done"}]
  /\ job \in [Callers -> [st : {"none", "pending", "exited"},
                          zero : BOOLEAN, out : Urls]]
  /\ \A c \in Callers : job[c].st = "none" => job[c] = NoJob
  /\ \A c \in Callers : job[c].st = "none" <=> pc[c] \in {"idle", "done"}
  /\ original \in [Callers -> Urls]
  /\ opOk \in [Callers -> BOOLEAN]
  /\ ret \in [Callers -> {"none", "ok", "failed", "err", "cancelled"}]
  /\ orphans \subseteq Commands
  /\ excused \subseteq Callers

\* Credentials are in the URL only for the length of a call: what is still
\* there once every call is over and every process has run belongs to a call
\* that told its caller it failed.  Promised without a condition
\* (with_remote_credentials says it of the restore).
CredentialsAreTransient ==
  Quiet => \A c \in Callers : remote = c => ret[c] # "ok"

\* What holds of it: a call that had the repository to itself, and whose
\* streams were not cut short, leaves its credentials behind only when it
\* told its caller that it failed, whatever calls before and after it did.
CredentialsComeOff ==
  Quiet => \A c \in Callers \ excused : remote = c => ret[c] # "ok"

\* The credentials of c are nowhere from where a call could put them back.
Nowhere(c) == /\ remote # c
              /\ \A d \in Callers : original[d] # c /\ job[d].out # c
              /\ \A cmd \in orphans : cmd.url # c

\* A call that is not excused is alone, and its commands find in the URL what
\* it put there; before it and after its Ok its credentials are nowhere.
Undisturbed(c) ==
  /\ ret[c] = "none" <=> pc[c] # "done"
  /\ pc[c] = "idle" \/ (ret[c] = "ok" /\ c \notin excused) => Nowhere(c)
  /\ c \in UnderWay \ excused =>
       /\ UnderWay = {c} /\ orphans = {}
       /\ \A d \in Callers : original[d] # c
       /\ pc[c] \in {"upstream", "resolve", "get"} => Nowhere(c)
       /\ pc[c] = "set" /\ job[c].st = "exited" /\ job[c].zero => remote = c
       /\ pc[c] = "op" => remote = c
       /\ pc[c] \in {"restore", "strip"} /\ job[c].st = "exited" /\ job[c].zero
            => remote # c

\* The inductive invariant.
IInv == TypeOK /\ CredentialsComeOff /\ \A c \in Callers : Undisturbed(c)

\* The operation of such a call runs against the URL with its own caller's
\* credentials, not the plain one, not another caller's.
OpUsesItsCredentials ==
  [][\A c \in Callers \ excused :
       pc[c] = "op" /\ job[c] = Pending /\ job'[c].st = "exited" => remote = c]_vars

\* The restore is always tried: whatever the operation gave, and whatever
\* other calls do, only dropping the call keeps it from being run.
RestoreFollows ==
  \A c \in Callers : pc[c] = "op" ~> pc[c] = "restore" \/ ret[c] = "cancelled"
=============================================================================
