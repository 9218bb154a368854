------------------------------- MODULE GitCalls -------------------------------
(***************************************************************************)
(* The calls of Git without credentials (sandbox/git/mod.rs): each checks  *)
(* its arguments and runs one or two commands in the sandbox, one after    *)
(* the other, and makes of their exit codes and outputs what it returns    *)
(* (sandbox/git/util.rs).  Other callers, and processes in the sandbox,    *)
(* change the repository between two commands.                             *)
(*                                                                         *)
(* A request and a command are [op, arg].  A command's stream may be cut   *)
(* short (commands/handle.rs): the call then goes by what has come of the  *)
(* output.  Calls with credentials are in GitCredentials.                  *)
(***************************************************************************)
EXTENDS Repository, Errors

CONSTANTS Clients,
          Headlike,     \* branches whose name begins with "HEAD" or contains "detached"
          MaxCalls,     \* bound: calls of all callers
          Starts,       \* the repository at first
          Asks(_),      \* repository: the requests callers make
          Drift(_)      \* repository: what processes and others make of it

ASSUME HeadlikeAssumption == Headlike \subseteq Branches /\ "store" \in Values

VARIABLES repo,
          call,   \* per caller: [at, request, n, answer, before, after]
          calls,  \* calls made
          adrift  \* commands nobody waits for

gitVars == <<repo, call, calls, adrift>>

Ask(op, arg) == [op |-> op, arg |-> arg]

\* What the calls, and the commands some of them run, are made with.
Scoped(keys, values) ==
  [key : keys, value : values, scope : {"local", "global"}, path : BOOLEAN]
Args(op) ==
  CASE op \in {"status", "branches", "remote_get", "upstream"} -> {"none"}
    [] op = "init"                   -> Branches \union {"none"}
    [] op = "create_branch"          -> Branches
    [] op = "checkout_branch"        -> Branches \union {"commit"}
    [] op = "add"                    -> SUBSET Files
    [] op = "commit"                 -> [empty : BOOLEAN, author : BOOLEAN]
    [] op = "delete_branch"          -> [branch : Branches, force : BOOLEAN]
    [] op = "reset"   -> [mode : {"soft", "mixed", "hard"}, back : BOOLEAN, paths : SUBSET Files]
    [] op = "restore" -> [staged : {"unset", "yes", "no"}, worktree : {"unset", "yes", "no"},
                          file : Files \union {"none"}]
    [] op = "remote_add" -> [url : Remotes \union {""}, fetch : BOOLEAN, overwrite : BOOLEAN]
    [] op = "push" -> [remote : BOOLEAN, branch : Branches \union {"none"}, set_upstream : BOOLEAN]
    [] op = "pull" -> [remote : BOOLEAN, branch : Branches \union {"none"}]
    [] op \in {"set_config", "get_config"} -> Scoped(Keys \union {""}, Values)
    [] op = "configure_user" -> Scoped(Values \union {""}, Values \union {""})
    [] op = "dangerously_authenticate" -> Values \union {""}
    [] op = "approve"                  -> Values

Simple == {"status", "branches", "remote_get", "init", "pull", "create_branch",
           "checkout_branch", "add", "commit", "delete_branch", "reset", "restore",
           "remote_add", "push", "set_config", "get_config"}
IsOf(ops, r) == r.op \in ops /\ r = Ask(r.op, r.arg) /\ r.arg \in Args(r.op)
IsRequest(r) == IsOf(Simple \union {"configure_user", "dangerously_authenticate"}, r)

-----------------------------------------------------------------------------
(* What a call runs.                                                       *)

\* staged and worktree are "unset", "yes" or "no".
Flags(staged, worktree) ==
  LET files == IF worktree # "unset" THEN worktree
               ELSE IF staged = "unset" THEN "yes" ELSE "no"
  IN  (IF staged = "yes" THEN {"--staged"} ELSE {})
      \union (IF files = "yes" THEN {"--worktree"} ELSE {})

InvalidRestore(a) == \/ a.file = "none"
                     \/ a.staged # "yes" /\ a.worktree = "no"

RefusesCall(r) ==
  CASE r.op = "restore" -> InvalidRestore(r.arg)
    [] r.op \in {"set_config", "get_config", "configure_user"} ->
         \/ r.arg.scope = "local" /\ ~ r.arg.path
         \/ r.arg.key = "" \/ (r.op = "configure_user" /\ r.arg.value = "")
    [] r.op = "remote_add" -> r.arg.url = ""
    [] r.op = "dangerously_authenticate" -> r.arg = ""
    [] OTHER -> FALSE

IsCommand(cmd) == IsOf(Simple \union {"upstream", "approve"}, cmd) /\ ~ RefusesCall(cmd)

SetConfig(scope, key, value) ==
  Ask("set_config", [scope |-> scope, path |-> scope = "local", key |-> key, value |-> value])

\* arg.key and arg.value are the name and the e-mail address of configure_user.
Script(r) ==
  CASE r.op = "configure_user" ->
         <<SetConfig(r.arg.scope, "user.name", r.arg.key),
           SetConfig(r.arg.scope, "user.email", r.arg.value)>>
    [] r.op = "dangerously_authenticate" ->
         <<SetConfig("global", "credential.helper", "store"), Ask("approve", r.arg)>>
    [] r.op = "pull" /\ ~ r.arg.remote /\ r.arg.branch = "none" -> <<Ask("upstream", "none"), r>>
    [] OTHER -> <<r>>

\* A branch that is not named is the one the head is on, if it has an upstream.
BranchMeant(s, b) == IF b = "none" /\ Attached(s) /\ Tracks(s) THEN s.head[2] ELSE b

\* Without a remote, a branch that is named is taken for one (build_push_args), and
\* --set-upstream is left out.
Astray(s, a) == ~ a.remote /\ (a.branch # "none" \/ s.url = "none")

PushAs(s, a) ==
  IF Astray(s, a) THEN Refuse(s, "other")
  ELSE IF BranchMeant(s, a.branch) = "none"
  THEN Refuse(s, IF Attached(s) THEN "upstream" ELSE "other")
  ELSE RunPush(s, BranchMeant(s, a.branch), a.set_upstream /\ a.remote)

\* git fetches before it finds that it does not know what to merge with.
PullAs(s, a) ==
  IF Astray(s, a) \/ s.url = "none" THEN Refuse(s, "other")
  ELSE IF BranchMeant(s, a.branch) = "none"
  THEN Reach(s) \union Refuse(Fetched(s), IF Attached(s) /\ a.remote THEN "other" ELSE "upstream")
  ELSE RunPull(s, BranchMeant(s, a.branch))

RunInside(s, cmd) ==
  LET a == cmd.arg IN
  CASE cmd.op = "add"             -> RunAdd(s, a)
    [] cmd.op = "commit"          -> RunCommit(s, a.empty, a.author)
    [] cmd.op = "create_branch"   -> RunCreate(s, a)
    [] cmd.op = "checkout_branch" -> IF a \in Branches THEN RunCheckout(s, a) ELSE RunDetach(s)
    [] cmd.op = "delete_branch"   -> RunDelete(s, a.branch, a.force)
    [] cmd.op = "reset"           -> IF a.paths # {} THEN RunUnstage(s, a.paths)
                                     ELSE RunReset(s, a.mode, a.back)
    [] cmd.op = "restore"         -> RunRestore(s, Flags(a.staged, a.worktree), a.file)
    [] cmd.op = "remote_get"      -> Did(s, IF s.url = "none" THEN Nothing ELSE <<s.url>>)
    [] cmd.op = "status"          -> Did(s, <<StatusOutput(s)>>)
    [] cmd.op = "branches"        -> Did(s, <<BranchOutput(s)>>)
    [] cmd.op = "upstream"        -> IF Tracks(s) /\ s.fetched[s.head[2]] # << >>
                                     THEN Did(s, <<s.head[2]>>) ELSE Refuse(s, "upstream")
    [] cmd.op = "push"            -> PushAs(s, a)
    [] cmd.op = "pull"            -> PullAs(s, a)
    [] cmd.op = "remote_add" ->     \* (add || set-url) && fetch
         LET added == RunRemoteAdd(s, a.url, a.fetch)
             set   == UNION {IF o.answer.exit = 0 THEN {o}
                             ELSE When(o.store.url # "none", o.store, [o.store EXCEPT !.url = a.url])
                             : o \in added}
         IN  IF ~ a.overwrite THEN added
             ELSE IF ~ a.fetch THEN set
             ELSE UNION {IF o.answer.exit # 0 THEN {o}
                         ELSE Did(Fetched(o.store), Nothing) \union Reach(o.store) : o \in set}

RunConfig(s, cmd) ==
  LET a == cmd.arg IN
  CASE cmd.op = "set_config" -> Did([s EXCEPT !.config[a.scope][a.key] = a.value], Nothing)
    [] cmd.op = "get_config" -> Did(s, IF s.config[a.scope][a.key] = "none" THEN Nothing
                                       ELSE <<s.config[a.scope][a.key]>>)
    [] cmd.op = "approve"    -> Did(IF s.config.global["credential.helper"] = "store"
                                    THEN [s EXCEPT !.stored = a] ELSE s, Nothing)

\* || true: the command gives no output, and succeeds.
OrTrue == {"get_config", "remote_get"}

\* A command may fail before it does anything.
RunCommand(s, cmd) ==
  {[store |-> s, answer |-> [exit |-> IF cmd.op \in OrTrue THEN 0 ELSE 1,
                             out |-> Nothing, says |-> "failed"]]}
  \union CASE cmd.op = "init" ->
                 Did(IF s.head[1] # "none" THEN s
                     ELSE [s EXCEPT !.head = <<"branch", IF cmd.arg = "none" THEN Default
                                                         ELSE cmd.arg>>], Nothing)
           [] cmd.op \in {"set_config", "get_config", "approve"} /\
              (cmd.op # "approve" => cmd.arg.scope = "global" \/ s.head[1] # "none") ->
                 RunConfig(s, cmd)
           [] cmd.op # "init" /\ s.head[1] # "none" /\ cmd.op \notin
              {"set_config", "get_config", "approve"} -> RunInside(s, cmd)
           [] OTHER -> {}

\* What the caller gets of a command, and what is left to run: its exit code and output
\* or, when the stream closes before the end event, exit code 0 and what has come of the
\* output so far, with an error text; the command has run by then or may still be run.
Cut(s, out, left) ==
  [store |-> s, answer |-> [exit |-> 0, out |-> out, says |-> "cut"], left |-> left]
Parts(op, out) ==
  {Nothing, out} \union
  CASE op = "status" /\ out # Nothing ->
         {<<[out[1] EXCEPT !.files = ls]>> : ls \in SUBSET out[1].files}
    [] op = "branches" /\ out # Nothing -> {<<ls>> : ls \in SUBSET out[1]}
    [] OTHER -> {}
Seen(s, cmd) ==
  {[store |-> o.store, answer |-> o.answer, left |-> {}] : o \in RunCommand(s, cmd)}
  \union {Cut(s, Nothing, {cmd})}
  \union UNION {{Cut(o.store, out, {}) : out \in Parts(cmd.op, o.answer.out)} :
                o \in RunCommand(s, cmd)}

-----------------------------------------------------------------------------
(* What it makes of the answers.                                           *)

\* Fault (mutant of DeriveStatus): a conflict is a code like any other.
WithoutConflicts(x, y) ==
  IF "R" \in {x, y} THEN "Renamed" ELSE IF "C" \in {x, y} THEN "Copied"
  ELSE IF "D" \in {x, y} THEN "Deleted" ELSE IF "A" \in {x, y} THEN "Added"
  ELSE IF "M" \in {x, y} THEN "Modified" ELSE IF "T" \in {x, y} THEN "TypeChange"
  ELSE IF "?" \in {x, y} THEN "Untracked" ELSE "Unknown"

\* The first of these codes that one of the two is.
DeriveStatus(x, y) ==
  IF "U" \in {x, y} THEN "Conflict" ELSE IF "R" \in {x, y} THEN "Renamed"
  ELSE IF "C" \in {x, y} THEN "Copied" ELSE IF "D" \in {x, y} THEN "Deleted"
  ELSE IF "A" \in {x, y} THEN "Added" ELSE IF "M" \in {x, y} THEN "Modified"
  ELSE IF "T" \in {x, y} THEN "TypeChange" ELSE IF "?" \in {x, y} THEN "Untracked"
  ELSE "Unknown"

NoStatus == [current_branch |-> "none", upstream |-> "none", ahead |-> 0, behind |-> 0,
             detached |-> FALSE, file_status |-> {}]

ParseFile(l) == [name |-> l.path, status |-> DeriveStatus(l.x, l.y),
                 staged |-> l.x \notin {".", "?"}, renamed_from |-> l.from]

ParseGitStatus(out) ==
  IF out = Nothing THEN NoStatus
  ELSE LET text == out[1]
           detached == text.line = "detached" \/ text.name \in Headlike
       IN  [current_branch |-> IF detached THEN "none" ELSE text.name,
            upstream |-> IF detached THEN "none" ELSE text.upstream,
            ahead |-> text.ahead, behind |-> text.behind, detached |-> detached,
            file_status |-> {ParseFile(l) : l \in text.files}]

ParseGitBranches(out) ==
  LET lines  == IF out = Nothing THEN {} ELSE out[1]
      marked == {l \in lines : l.marker = "*"}
  IN  [branches |-> {l.name : l \in lines},
       current_branch |-> IF marked = {} THEN "none" ELSE (CHOOSE l \in marked : TRUE).name]

\* A CommandResult: its exit code, and whether it has an error text.
Ran(a) == [exit |-> a.exit, error |-> a.says = "cut"]
Done   == [exit |-> 0, error |-> FALSE]

\* Fault (mutant of Mapped): the output is looked at whatever the exit code.
MappedBySays(a) ==
  CASE a.says = "auth"     -> Err("GitAuth")
    [] a.says = "upstream" -> Err("GitUpstream")
    [] OTHER               -> Ok(Ran(a))

Mapped(a) ==
  CASE a.exit # 0 /\ a.says = "auth"     -> Err("GitAuth")
    [] a.exit # 0 /\ a.says = "upstream" -> Err("GitUpstream")
    [] OTHER                             -> Ok(Ran(a))

Output(a) == IF a.out = Nothing THEN "none" ELSE a.out[1]

Result(r, a) ==
  CASE r.op = "status"     -> Ok(ParseGitStatus(a.out))
    [] r.op = "branches"   -> Ok(ParseGitBranches(a.out))
    [] r.op \in OrTrue     -> Ok(Output(a))
    [] r.op \in {"push", "pull"} -> Mapped(a)
    [] OTHER               -> Ok(Ran(a))

\* What is made of the answer to the n-th command.  Of two commands, only pull looks at
\* the first one's answer.
More == <<"more">>
Outcome(r, n, a) ==
  IF n = Len(Script(r)) THEN Result(r, a)
  ELSE IF r.op = "pull" /\ (a.exit # 0 \/ a.out = Nothing) THEN Err("GitUpstream")
  ELSE More

-----------------------------------------------------------------------------
(* The calls.                                                              *)

NoAnswer == [exit |-> 0, out |-> Nothing, says |-> "none"]
NoCall == [at |-> "idle", request |-> Ask("none", "none"), n |-> 1, answer |-> NoAnswer,
           before |-> NoRepository, after |-> NoRepository]

GitInit == repo \in Starts /\ call = [c \in Clients |-> NoCall] /\ calls = 0 /\ adrift = {}

Comes(c) == call' = [call EXCEPT ![c] = NoCall]

Makes(c) ==
  /\ call[c].at = "idle" /\ calls < MaxCalls
  /\ \E r \in Asks(repo) : call' = [call EXCEPT ![c].at = "made", ![c].request = r]
  /\ calls' = calls + 1
  /\ UNCHANGED <<repo, adrift>>

\* InvalidArgument, and nothing is run.
Refused(c) == /\ call[c].at = "made" /\ RefusesCall(call[c].request)
              /\ Comes(c)
              /\ UNCHANGED <<repo, calls, adrift>>

Current(c) == Script(call[c].request)[call[c].n]

Runs(c) ==
  /\ call[c].at = "made" /\ ~ RefusesCall(call[c].request)
  /\ \E o \in Seen(repo, Current(c)) :
       /\ repo' = o.store /\ adrift' = adrift \union o.left
       /\ call' = [call EXCEPT ![c].at = "answered", ![c].answer = o.answer,
                               ![c].before = repo, ![c].after = o.store]
  /\ UNCHANGED calls

Says(c) == Outcome(call[c].request, call[c].n, call[c].answer)

Proceeds(c) ==
  /\ call[c].at = "answered"
  /\ IF Says(c) = More
     THEN call' = [call EXCEPT ![c] = [NoCall EXCEPT !.at = "made", !.n = call[c].n + 1,
                                                     !.request = call[c].request]]
     ELSE Comes(c)
  /\ UNCHANGED <<repo, calls, adrift>>

\* The connection fails or the future is dropped: no command follows, the one under
\* way may still be run.
Fails(c) ==
  /\ call[c].at = "made" /\ ~ RefusesCall(call[c].request)
  /\ Comes(c)
  /\ adrift' \in {adrift, adrift \union {Current(c)}}
  /\ UNCHANGED <<repo, calls>>

RunsAdrift == \E cmd \in adrift : /\ \E o \in RunCommand(repo, cmd) : repo' = o.store
                                  /\ adrift' = adrift \ {cmd}
                                  /\ UNCHANGED <<call, calls>>

Drifts == repo' \in Drift(repo) /\ UNCHANGED <<call, calls, adrift>>

GitNext == \/ \E c \in Clients : Makes(c) \/ Refused(c) \/ Runs(c) \/ Proceeds(c) \/ Fails(c)
           \/ RunsAdrift \/ Drifts

GitSpec == GitInit /\ [][GitNext]_gitVars

-----------------------------------------------------------------------------
(* Properties.                                                             *)

\* Where a call stands: its command is one of its script, and its answer is what that
\* command gave.
HasRun(c) == /\ ~ RefusesCall(call[c].request)
             /\ \E o \in Seen(call[c].before, Current(c)) :
                  o.store = call[c].after /\ o.answer = call[c].answer

InScript(c) ==
  LET k == call[c] IN
  \/ k = NoCall
  \/ /\ k = [at |-> k.at, request |-> k.request, n |-> k.n, answer |-> k.answer,
            before |-> k.before, after |-> k.after]
     /\ IsRequest(k.request) /\ k.n \in 1..Len(Script(k.request))
     /\ k.at = "made" \/ (k.at = "answered" /\ HasRun(c) /\ k.before \in Repositories)

GitTypeOK == /\ repo \in Repositories /\ calls \in Nat
             /\ \A cmd \in adrift : IsCommand(cmd)
             /\ call = [c \in Clients |-> call[c]] /\ \A c \in Clients : InScript(c)

Ended(c) == call[c].at = "answered" /\ Says(c) # More

\* What there is to say of a repository, in its own terms.
TrueStatus(s) ==
  LET h == HistoryOf(s)
      k == s.fetched[s.head[2]]
  IN  [current  |-> IF Attached(s) THEN s.head[2] ELSE "none",
       upstream |-> IF Tracks(s) THEN s.head[2] ELSE "none",
       distance |-> IF Tracks(s) /\ k # << >> THEN <<Len(h) - Common(h, k), Len(k) - Common(h, k)>>
                    ELSE <<0, 0>>,
       detached |-> ~ Attached(s),
       clean    |-> s.conf = {} /\ s.work = s.index /\ s.index = HeadTree(s),
       staged   |-> {f \in Files \ Conflicts(s) : s.index[f] # HeadTree(s)[f]},
       unknown  |-> {f \in Files \ Conflicts(s) : s.index[f] = "absent" /\ s.work[f] # "absent"},
       conflicts |-> Conflicts(s)]

NamesOf(p, Of(_)) == {e.name : e \in {x \in p.file_status : Of(x)}}
Staged(e)   == e.staged /\ e.status # "Conflict"
Unknown(e)  == e.status = "Untracked"
Conflict(e) == e.status = "Conflict"

\* The same of a GitStatus; a rename is a change to both of its paths.
Told(p) ==
  [current  |-> p.current_branch, upstream |-> p.upstream, distance |-> <<p.ahead, p.behind>>,
   detached |-> p.detached, clean |-> p.file_status = {},
   staged   |-> NamesOf(p, Staged) \union ({e.renamed_from : e \in p.file_status} \ {"none"}),
   unknown  |-> NamesOf(p, Unknown), conflicts |-> NamesOf(p, Conflict)]

\* A state that the output shows: a branch is not taken for a detached head, nor a
\* conflict for a file that was added.
Legible(s) == /\ Attached(s) => s.head[2] \notin Headlike
              /\ \A k \in s.conf : k[2] = "U"

\* What the documentation says of a call that ran its last command on s, leaving s2.
Fits(r, a, s, s2, v) ==
  CASE r.op = "status" /\ a.says # "cut" ->
         IF a.exit # 0 THEN v = NoStatus ELSE Legible(s) => Told(v) = TrueStatus(s)
    [] r.op = "branches" /\ a.exit = 0 /\ a.says # "cut" ->
         /\ v.branches \ {Detached} = {b \in Branches : s.tips[b] # << >>}
         /\ Attached(s) /\ HistoryOf(s) # << >> => v.current_branch = s.head[2]
    [] r.op \in OrTrue /\ a.says # "cut" ->
         v = IF a.says = "failed" THEN "none" ELSE IF r.op = "remote_get" THEN s.url
             ELSE s.config[r.arg.scope][r.arg.key]
    [] r.op = "restore" /\ v = Done ->
         LET f == r.arg.file
             index == r.arg.staged = "yes"
             files == r.arg.worktree = "yes" \/ (r.arg.worktree = "unset" /\ ~ index)
         IN  /\ s2.index[f] = IF index THEN HeadTree(s)[f] ELSE s.index[f]
             /\ s2.work[f] = IF files THEN s2.index[f] ELSE s.work[f]
    [] r.op = "remote_add" /\ v = Done -> /\ s2.url = r.arg.url
                                          /\ r.arg.fetch => s2.fetched = s2.theirs
                                          /\ s.url = "none" \/ r.arg.overwrite
    [] OTHER -> TRUE

\* What a call returns is true of the repository at the moment its command ran: the parts of
\* a status and a listing, and a value, of a command that came to its end; and that a restore
\* or remote_add whose result has exit code 0 and no error did what was asked and no more.
AnswersAreTrue ==
  \A c \in Clients : Ended(c) /\ Says(c)[1] = "ok" =>
    Fits(call[c].request, call[c].answer, call[c].before, call[c].after, Says(c)[2])

\* Push and pull tell failures apart truly: GitUpstream means that the branch had none when
\* the last command looked (or that the look failed or was cut); it and GitAuth leave
\* branches and files alone.  A result with exit code 0 and no error has moved what was asked.
ErrorsAreTrue ==
  \A c \in {x \in Clients : Ended(x) /\ call[x].request.op \in {"push", "pull"}} :
    LET r == call[c].request
        s == call[c].before
        s2 == call[c].after
        b == IF r.arg.branch = "none" THEN s.head[2] ELSE r.arg.branch
    IN  /\ Says(c)[1] = "err" => [s2 EXCEPT !.fetched = s.fetched] = s
        /\ Says(c) = Err("GitUpstream") =>
             call[c].answer.says \in {"failed", "cut"} \/ ~ Tracks(s) \/ s.fetched[s.head[2]] = << >>
        /\ Says(c) = Ok(Done) =>
             Within(s2.theirs[b], IF r.op = "push" THEN s2.tips[b] ELSE HistoryOf(s2))

GitInv == GitTypeOK /\ ErrorsAreTrue

\* A status that says it is clean is of a repository without changes (is_clean,
\* types.rs:71), unless git itself failed.
CleanMeansClean ==
  \A c \in Clients :
    Ended(c) /\ call[c].request.op = "status" /\ call[c].answer.exit = 0 =>
      (Told(Says(c)[2]).clean => TrueStatus(call[c].before).clean)
===============================================================================
