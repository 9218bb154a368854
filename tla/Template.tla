------------------------------- MODULE Template -------------------------------
(***************************************************************************)
(* The template builder (template/builder.rs) and the Dockerfile parser    *)
(* behind from_dockerfile (template/dockerfile.rs): what each call of the  *)
(* builder chain makes of the template, and the body a template becomes.   *)
(* Only operators: a builder method consumes its template and returns the  *)
(* next.  The text of commands, paths and images is abstracted.            *)
(***************************************************************************)
EXTENDS Naturals, Sequences

None == "none"

\* The texts that the code, or the model in their place, writes itself.
Words == {None, "root", "user", "/", "/home/user", "dir", "dest", "image",
          "base", "keys", "serve", "up", "port", "command", "key", "value", "=value",
          "sleep 20", "e2bdev/base"}

\* Template::new.
New == [image |-> None, base |-> None, registry |-> None, steps |-> << >>,
        start |-> None, ready |-> None, force |-> FALSE]

\* An Instruction before its files are hashed.  upload is force_upload.
Instruction(type, args, force, upload) ==
  [type |-> type, args |-> args, force |-> force, upload |-> upload]

Push(t, i) == [t EXCEPT !.steps = Append(@, i)]

-----------------------------------------------------------------------------
(* The base.  What a call does not name, the registry included, stays.     *)

\* from_image, and from_base_image, from_debian_image and the others by it.
FromImage(t, i) == [t EXCEPT !.image = i, !.base = None]

FromTemplate(t, b) == [t EXCEPT !.base = b, !.image = None]

\* from_aws_registry, from_gcp_registry.
FromRegistry(t, i, r) == [t EXCEPT !.image = i, !.base = None, !.registry = r]

-----------------------------------------------------------------------------
SetStartCmd(t, cmd, ready) == [t EXCEPT !.start = cmd, !.ready = ready]
SetReadyCmd(t, ready) == [t EXCEPT !.ready = ready]
SkipCache(t) == [t EXCEPT !.force = TRUE]

\* Fault (mutant of Copy): skip_cache is forgotten for a COPY.
CopyUnmarked(t, src, dest, upload) ==
  Push(t, Instruction("COPY", <<src, dest>>, upload, upload))

\* copy, of a source that stays within the context: for others, see CopyRefused.
Copy(t, src, dest, upload) ==
  Push(t, Instruction("COPY", <<src, dest>>, upload \/ t.force, upload))

\* copy_items, of one item with several sources.
CopyItem(t, srcs, dest, upload) ==
  [t EXCEPT !.steps = @ \o
     [k \in DOMAIN srcs |->
        Instruction("COPY", <<srcs[k], dest>>, upload \/ t.force, upload)]]

\* push_run.  A command for no particular user has one argument.
PushRun(t, user) ==
  Push(t, Instruction("RUN", <<"command">> \o (IF user = None THEN << >>
                                              ELSE <<user>>), t.force, FALSE))

\* remove, rename, make_dir, make_symlink, run_cmd and run_cmds run a command
\* as the user they are told, and so does git_clone.
RunAs(t, user) == PushRun(t, user)
GitClone(t, user) == PushRun(t, user)

\* pip_install, npm_install, bun_install: root is implied by a global install.
Install(t, global) == PushRun(t, IF global THEN "root" ELSE None)

AptInstall(t) == PushRun(t, "root")

SetWorkdir(t, path) == Push(t, Instruction("WORKDIR", <<path>>, t.force, FALSE))
SetUser(t, user) == Push(t, Instruction("USER", <<user>>, t.force, FALSE))

\* set_envs: no variables, no step.
SetEnvs(t, envs) == IF envs = << >> THEN t
                    ELSE Push(t, Instruction("ENV", envs, t.force, FALSE))

-----------------------------------------------------------------------------
(* Dockerfiles.  A line is its keyword and its positional arguments; an    *)
(* action is [type, args], as in DockerfileAction.                         *)

Line(kw, args) == [kw |-> kw, args |-> args]
Action(type, args) == [type |-> type, args |-> args]

\* handle_env: the variables of an ENV or an ARG line.  One without a key is none,
\* and neither is a key alone, but for ARG.
Envs(line) == IF line.args = <<"=value">> \/ (line.kw = "ENV" /\ line.args = <<"key">>)
              THEN << >> ELSE line.args

\* What one line of a Dockerfile turns into.  FROM, EXPOSE, VOLUME and what
\* is not known turn into nothing; so does a line that lacks its arguments.
ActionsOf(line) ==
  CASE line.kw \in {"COPY", "ADD"} /\ Len(line.args) > 1 ->
         [k \in 1..(Len(line.args) - 1) |->
            Action("Copy", <<line.args[k], line.args[Len(line.args)]>>)]
    [] line.kw = "RUN" /\ line.args # << >> ->
         <<Action("RunCmd", line.args)>>
    [] line.kw = "WORKDIR" /\ line.args # << >> ->
         <<Action("SetWorkdir", <<Head(line.args)>>)>>
    [] line.kw = "USER" /\ line.args # << >> ->
         <<Action("SetUser", <<Head(line.args)>>)>>
    [] line.kw \in {"ENV", "ARG"} /\ Envs(line) # << >> ->
         <<Action("SetEnvs", Envs(line))>>
    [] line.kw \in {"CMD", "ENTRYPOINT"} /\ line.args # << >> ->
         <<Action("SetStartCmd", line.args)>>
    [] OTHER -> << >>

\* The actions of all lines, line by line.
LineActions(file) ==
  LET upTo[n \in 0..Len(file)] == IF n = 0 THEN << >>
                                  ELSE upTo[n - 1] \o ActionsOf(file[n])
  IN  upTo[Len(file)]

\* The Docker defaults, the lines, and the E2B defaults for what no line set.
ParsedActions(file) ==
  LET body == LineActions(file)
      Sets(type) == \E k \in DOMAIN body : body[k].type = type
  IN  <<Action("SetUser", <<"root">>), Action("SetWorkdir", <<"/">>)>>
        \o body
        \o (IF Sets("SetUser") THEN << >>
            ELSE <<Action("SetUser", <<"user">>)>>)
        \o (IF Sets("SetWorkdir") THEN << >>
            ELSE <<Action("SetWorkdir", <<"/home/user">>)>>)

FromLines(file) == {k \in DOMAIN file : file[k].kw = "FROM"}

\* parse_dockerfile rejects a file without FROM and one with several.
Parses(file) == \E k \in DOMAIN file : FromLines(file) = {k}

ParsedImage(file) == LET args == file[CHOOSE k \in FromLines(file) : TRUE].args
                     IN  IF args = << >> THEN "e2bdev/base" ELSE Head(args)

\* apply_action.  A Dockerfile's steps are never forced one by one.
ApplyAction(t, a) ==
  LET Step(type, args) == Push(t, Instruction(type, args, FALSE, FALSE))
  IN  CASE a.type = "SetUser"     -> Step("USER", a.args)
        [] a.type = "SetWorkdir"  -> Step("WORKDIR", a.args)
        [] a.type = "Copy"        -> Step("COPY", a.args)
        [] a.type = "RunCmd"      -> Step("RUN", a.args)
        [] a.type = "SetEnvs"     -> Step("ENV", a.args)
        [] a.type = "SetStartCmd" -> SetStartCmd(t, Head(a.args), "sleep 20")

FromDockerfile(t, file) ==
  LET actions == ParsedActions(file)
      after[n \in 0..Len(actions)] ==
        IF n = 0 THEN FromImage(t, ParsedImage(file))
                 ELSE ApplyAction(after[n - 1], actions[n])
  IN  after[Len(actions)]

-----------------------------------------------------------------------------
\* serialize and instruction_steps_from, of the template's hashed steps, and
\* the override by BuildOptions::skip_cache that setup_build applies.
Body(t, steps, skip) ==
  [startCmd |-> t.start, readyCmd |-> t.ready, steps |-> steps,
   force |-> skip \/ t.force, fromImage |-> t.image,
   fromTemplate |-> t.base, fromImageRegistry |-> t.registry]
=============================================================================
