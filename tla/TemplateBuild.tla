---------------------------- MODULE TemplateBuild ----------------------------
(***************************************************************************)
(* From a builder chain to a build that runs: Template::build and          *)
(* build_in_background up to the trigger (setup_build in                   *)
(* template/builder.rs, build_api.rs, upload.rs, archive.rs, files.rs),    *)
(* against the control plane and the object store behind it, while the     *)
(* files of the context are edited.  BuildHandle takes over from there.    *)
(*                                                                         *)
(* All builds are of one template name, so they share one context cache.   *)
(* The files that a source matches are a version, 0 when nothing matches.  *)
(***************************************************************************)
EXTENDS Template, Functions

CONSTANTS Builds,      \* the builds, numbered: a subset of Nat
          Texts,       \* names, paths and commands, Words among them
          Sources,     \* what COPY may name
          Items,       \* for copy_items, each an item's sources
          Dockerfiles, \* for from_dockerfile, each a sequence of lines
          MaxVersion,  \* bound: versions of the files
          MaxEdits,    \* bound: edits
          Effort       \* bound: builder calls and builds together

ASSUME TemplateBuildAssumption ==
  /\ Builds \subseteq Nat /\ Words \union Sources \subseteq Texts
  /\ Items \subseteq Seq(Sources)
  /\ \A file \in Dockerfiles :
       /\ file \in Seq([kw : Texts, args : Seq(Texts \ {None})])
       /\ \A n \in DOMAIN file : file[n].kw \in {"COPY", "ADD"} =>
            \A k \in 1..(Len(file[n].args) - 1) : file[n].args[k] \in Sources
  /\ {MaxVersion, MaxEdits, Effort} \subseteq Nat /\ MaxVersion > 0

VARIABLES
  \* The caller.
  template, \* what the chain has made so far (Template is Clone)
  said,     \* (history) the calls in the chain, by name or by kind
  pusher,   \* (history) which of them pushed each of the template's steps
  spent,    \* (bound) builder calls and builds so far
  files,    \* per source, the version of the files it matches
  edits,
  \* Per build: setup_build.
  stage,    \* "idle", "requesting", "uploading", "triggering", "ok", "failed",
            \* "dropped"
  order,    \* [template, skip, said, pusher] as the build was called
  steps,    \* the instructions with their hashes; at is "plain" (not a COPY),
            \* "hashed" (its link is being asked for), "putting" (its archive),
            \* "done", "withheld" (to upload, but the server gave no URL)
  \* The servers.
  slot,     \* per build: "none", "asked", "waiting", "sent", "building"
  body,     \* per build: the body of the trigger request, or None
  store,    \* the cache: from the hashes that are present to the version of
            \* the files in the archive
  adrift,   \* PUTs whose future has been dropped, which may still land
  raced     \* (history) files were edited after a build had hashed them and
            \* before it would have archived them

caller == <<template, said, pusher, spent, files, edits>>
setup  == <<stage, order, steps>>
server == <<slot, body, store, adrift, raced>>
vars   == <<caller, setup, server>>

Nothing == [k \in {} |-> 0]

Init == /\ template = New /\ said = << >> /\ pusher = << >> /\ spent = 0
        /\ files = [s \in Sources |-> 1] /\ edits = 0
        /\ stage = [b \in Builds |-> "idle"]
        /\ order = [b \in Builds |-> [template |-> New, skip |-> FALSE,
                                      said |-> << >>, pusher |-> << >>]]
        /\ steps = [b \in Builds |-> << >>]
        /\ slot = [b \in Builds |-> "none"]
        /\ body = [b \in Builds |-> None]
        /\ store = Nothing /\ adrift = {} /\ raced = FALSE

-----------------------------------------------------------------------------
(* The builder chain.                                                      *)

Call(name, t) == /\ spent + 1 < Effort /\ spent' = spent + 1
                 /\ template' = t /\ said' = Append(said, name)
                 /\ pusher' = pusher \o
                      [k \in 1..(Len(t.steps) - Len(template.steps)) |-> Len(said) + 1]
                 /\ UNCHANGED <<files, edits, setup, server>>

CallsBase == \/ Call("from_image", FromImage(template, "image"))
             \/ Call("from_template", FromTemplate(template, "base"))
             \/ Call("from_registry", FromRegistry(template, "image", "keys"))

CallsDockerfile == \E f \in Dockerfiles :
  Parses(f) /\ Call("from_dockerfile", FromDockerfile(template, f))

CallsSetting == \/ Call("set_start_cmd", SetStartCmd(template, "serve", "up"))
                \/ Call("set_ready_cmd", SetReadyCmd(template, "port"))
                \/ Call("skip_cache", SkipCache(template))

CallsCopy == \E src \in Sources, upload \in BOOLEAN :
  Call("copy", Copy(template, src, "dest", upload))

CallsCopyItems == \E srcs \in Items :
  Call("copy_items", CopyItem(template, srcs, "dest", FALSE))

\* copy or copy_items of a source that is absolute or leaves the context
\* (validate_relative_path): an Err, with which the template is gone.
CopyRefused == /\ spent + 1 < Effort /\ spent' = spent + 1
               /\ template' = New /\ said' = << >> /\ pusher' = << >>
               /\ UNCHANGED <<files, edits, setup, server>>

CallsRun == \/ \E user \in {None, "user"} :
                 \/ Call("run", RunAs(template, user))
                 \/ Call("run", GitClone(template, user))
            \/ \E g \in BOOLEAN : Call("run", Install(template, g))
            \/ Call("run", AptInstall(template))

CallsEnvironment == \/ Call("set", SetWorkdir(template, "dir"))
                    \/ Call("set", SetUser(template, "user"))
                    \/ \E e \in {<< >>, <<"key", "value">>} :
                         Call("set", SetEnvs(template, e))

-----------------------------------------------------------------------------
(* setup_build.                                                            *)

InFlight(b) == {k \in DOMAIN steps[b] : steps[b][k].at = "putting"}

\* The PUTs of a build whose futures are dropped: they may be on their way.
SetAdrift(b) ==
  adrift' = adrift \cup {<<steps[b][k].hash, steps[b][k].archive>> :
                            k \in InFlight(b)}

Becomes(b, s) == stage' = [stage EXCEPT ![b] = s]

\* The future ends with all it holds.  The steps of a trigger request that is
\* out are kept, for the properties.
Ends(b, s) ==
  /\ Becomes(b, s) /\ SetAdrift(b)
  /\ steps' = [steps EXCEPT ![b] = IF stage[b] = "triggering" THEN @ ELSE << >>]

\* build or build_in_background: request_build is on its way.
Build(b, skip) ==
  /\ stage[b] = "idle" /\ \A a \in Builds : a < b => stage[a] # "idle"
  /\ spent < Effort /\ spent' = spent + 1
  /\ Becomes(b, "requesting")
  /\ order' = [order EXCEPT ![b] = [template |-> template, skip |-> skip,
                                    said |-> said, pusher |-> pusher]]
  /\ slot' = [slot EXCEPT ![b] = "asked"]
  /\ UNCHANGED <<template, said, pusher, files, edits, steps, body, store, adrift,
                 raced>>

\* The control plane allots the slot, whether or not anybody still waits.
Allot(b) == /\ slot[b] = "asked"
            /\ slot' = [slot EXCEPT ![b] = "waiting"]
            /\ UNCHANGED <<caller, setup, body, store, adrift, raced>>

\* A request that fails: refused, or its answer lost.
RequestFails(b) == /\ stage[b] \in {"requesting", "triggering"}
                   /\ Becomes(b, "failed")
                   /\ UNCHANGED <<caller, order, steps, server>>

\* get_all_files_in_path: the source, less .dockerignore, matches something.
Matches(src) == files[src] # 0

\* Fault (mutant of HashOf): the content is left out of the hash.
HashOfNames(i) == <<i.args[1], i.args[2], 1>>

\* calculate_files_hash: of the COPY, and of the files as they are now.
HashOf(i) == <<i.args[1], i.args[2], files[i.args[1]]>>

\* instructions_with_hashes: a hash for every COPY.
WithHashes(is) ==
  [k \in DOMAIN is |->
     IF is[k].type = "COPY"
     THEN [instr |-> is[k], hash |-> HashOf(is[k]), at |-> "hashed", archive |-> 0]
     ELSE [instr |-> is[k], hash |-> << >>, at |-> "plain", archive |-> 0]]

\* The slot's answer.  Between it and the first await of the uploads (one
\* future for every COPY, in try_join_all) all files are hashed.
Allotted(b) ==
  LET is == order[b].template.steps
  IN  /\ stage[b] = "requesting" /\ slot[b] = "waiting"
      /\ \A k \in DOMAIN is : is[k].type = "COPY" => Matches(is[k].args[1])
      /\ Becomes(b, "uploading")
      /\ steps' = [steps EXCEPT ![b] = WithHashes(is)]
      /\ UNCHANGED <<caller, order, server>>

\* "No files found", or files or their directory cannot be read.  The slot is
\* left as it is.
HashFails(b) ==
  /\ stage[b] = "requesting" /\ slot[b] = "waiting"
  /\ Becomes(b, "failed")
  /\ UNCHANGED <<caller, order, steps, server>>

\* tar_file_stream: the files as they are now; there may be none left.
Archived(i) == files[i.args[1]]

Moves(b, k, at) == steps' = [steps EXCEPT ![b][k].at = at]

\* Fault (mutant of LinkAnswered): force_upload is not looked at.
IgnoresForceUpload(b, k) ==
  LET present == steps[b][k].hash \in DOMAIN store
  IN  /\ stage[b] = "uploading" /\ steps[b][k].at = "hashed"
      /\ \E url \in BOOLEAN :
           IF ~present /\ url
           THEN steps' = [steps EXCEPT
                  ![b][k].at = "putting",
                  ![b][k].archive = Archived(steps[b][k].instr)]
           ELSE Moves(b, k, IF present THEN "done" ELSE "withheld")
      /\ UNCHANGED <<caller, stage, order, server>>

\* get_file_upload_link answers.  If there is something to upload,
\* the files are archived and the PUT sent, all before the next await.
LinkAnswered(b, k) ==
  LET present == steps[b][k].hash \in DOMAIN store
      upload  == steps[b][k].instr.upload \/ ~present
  IN  /\ stage[b] = "uploading" /\ steps[b][k].at = "hashed"
      /\ \E url \in BOOLEAN :
           IF upload /\ url
           THEN steps' = [steps EXCEPT
                  ![b][k].at = "putting",
                  ![b][k].archive = Archived(steps[b][k].instr)]
           ELSE Moves(b, k, IF upload THEN "withheld" ELSE "done")
      /\ UNCHANGED <<caller, stage, order, server>>

\* The object store takes an archive, over one it may have.
Stored(h, v) == store' = [x \in DOMAIN store \cup {h} |->
                            IF x = h THEN v ELSE store[x]]

\* A PUT succeeds.  One that succeeds and whose answer is lost is UploadFails
\* and LandsLate.
Lands(b, k) == /\ stage[b] = "uploading" /\ steps[b][k].at = "putting"
               /\ Stored(steps[b][k].hash, steps[b][k].archive)
               /\ Moves(b, k, "done")
               /\ UNCHANGED <<caller, stage, order, slot, body, adrift, raced>>

\* Fault (mutant of UploadFails): an upload that fails is passed over.
PassesOver(b, k) == /\ stage[b] = "uploading"
                    /\ steps[b][k].at \in {"hashed", "putting"}
                    /\ Moves(b, k, "done")
                    /\ UNCHANGED <<caller, stage, order, server>>

\* Fault (mutant of UploadFails): an error ends its own future, and the call
\* goes on waiting for it.
StaysForEver(b, k) == /\ stage[b] = "uploading"
                      /\ steps[b][k].at \in {"hashed", "putting"}
                      /\ Moves(b, k, "stuck")
                      /\ UNCHANGED <<caller, stage, order, server>>

\* The link, the archive or the PUT fails, or the PUT's answer is lost: the
\* first error drops the other futures.
UploadFails(b, k) == /\ stage[b] = "uploading"
                     /\ steps[b][k].at \in {"hashed", "putting"}
                     /\ Ends(b, "failed")
                     /\ UNCHANGED <<caller, order, slot, body, store, raced>>

LandsLate == \E p \in adrift :
               /\ Stored(p[1], p[2]) /\ adrift' = adrift \ {p}
               /\ UNCHANGED <<caller, setup, slot, body, raced>>

Settled(b) == \A k \in DOMAIN steps[b] :
                steps[b][k].at \in {"plain", "done", "withheld"}

\* All uploads are through: trigger_build is on its way.
Trigger(b) ==
  /\ stage[b] = "uploading" /\ Settled(b)
  /\ Becomes(b, "triggering")
  /\ slot' = [slot EXCEPT ![b] = "sent"]
  /\ body' = [body EXCEPT ![b] =
                Body(order[b].template,
                     [k \in DOMAIN steps[b] |-> [instr |-> steps[b][k].instr,
                                                 hash |-> steps[b][k].hash]],
                     order[b].skip)]
  /\ UNCHANGED <<caller, order, steps, store, adrift, raced>>

\* The control plane starts the build, whether or not anybody still waits.
Start(b) == /\ slot[b] = "sent"
            /\ slot' = [slot EXCEPT ![b] = "building"]
            /\ UNCHANGED <<caller, setup, body, store, adrift, raced>>

Triggered(b) == /\ stage[b] = "triggering" /\ slot[b] = "building"
                /\ Becomes(b, "ok")
                /\ UNCHANGED <<caller, order, steps, server>>

Running(b) == stage[b] \in {"requesting", "uploading", "triggering"}

\* The future of setup_build is dropped at an await.
Drop(b) == /\ Running(b)
           /\ Ends(b, "dropped")
           /\ UNCHANGED <<caller, order, slot, body, store, raced>>

-----------------------------------------------------------------------------
\* Some build has hashed src and may have yet to archive it.
BetweenReads(src) ==
  \E b \in Builds : \E k \in DOMAIN steps[b] :
     /\ stage[b] = "uploading" /\ steps[b][k].at = "hashed"
     /\ steps[b][k].instr.args[1] = src

\* Somebody edits the files, back to what they were, perhaps, or removes them.
Edit(src) == /\ edits < MaxEdits /\ edits' = edits + 1
             /\ \E v \in 0..MaxVersion \ {files[src]} :
                  files' = [files EXCEPT ![src] = v]
             /\ raced' = (raced \/ BetweenReads(src))
             /\ UNCHANGED <<template, said, pusher, spent, setup, slot, body, store, adrift>>

Calls == \/ CallsBase \/ CallsDockerfile \/ CallsSetting \/ CallsCopy
         \/ CallsCopyItems \/ CallsRun \/ CallsEnvironment

SetsUp(b) == \/ Allot(b) \/ Allotted(b) \/ RequestFails(b)
             \/ HashFails(b)
             \/ \E k \in DOMAIN steps[b] :
                  \/ LinkAnswered(b, k) \/ Lands(b, k) \/ UploadFails(b, k)
             \/ Trigger(b) \/ Start(b) \/ Triggered(b)

Next == \/ Calls
        \/ CopyRefused
        \/ \E b \in Builds, skip \in BOOLEAN : Build(b, skip)
        \/ \E b \in Builds : SetsUp(b) \/ Drop(b)
        \/ LandsLate
        \/ \E src \in Sources : Edit(src)

\* Requests end, by an answer or by their timeout, and the work between them
\* is done.  Nothing makes the caller build, edit or drop.
Fairness == \A b \in Builds :
  WF_vars(\/ Allotted(b) \/ HashFails(b) \/ RequestFails(b)
          \/ \E k \in DOMAIN steps[b] :
               LinkAnswered(b, k) \/ Lands(b, k) \/ UploadFails(b, k)
          \/ Trigger(b) \/ Triggered(b))

Spec == Init /\ [][Next]_vars /\ Fairness

-----------------------------------------------------------------------------
(* What the call promises.                                                 *)

Sent(b) == slot[b] \in {"sent", "building"}

Hash == Sources \X Texts \X (0..MaxVersion)

\* An instruction as the builder pushes it: a COPY names a source and where it
\* goes, and nothing else uploads.
Instructions ==
  {i \in [type : {"COPY", "RUN", "WORKDIR", "USER", "ENV"}, args : Seq(Texts),
          force : BOOLEAN, upload : BOOLEAN] :
     /\ i.type = "COPY" => Len(i.args) = 2 /\ i.args[1] \in Sources
     /\ i.upload => i.type = "COPY"}

Templates == [image : Texts, base : Texts, registry : Texts,
              steps : Seq(Instructions), start : Texts, ready : Texts,
              force : BOOLEAN]

\* An instruction and how far its upload has come: only a COPY has a hash and
\* moves, an archive exists once it is being put.
Steps ==
  {s \in [instr : Instructions, hash : Hash \union {<< >>},
          at : {"plain", "hashed", "putting", "done", "withheld"},
          archive : 0..MaxVersion] :
     /\ s.at # "plain" <=> s.instr.type = "COPY"
     /\ s.at # "plain" <=> s.hash \in Hash
     /\ s.at \in {"plain", "hashed", "withheld"} => s.archive = 0}

\* What said calls them.
Names == {"from_image", "from_registry", "from_dockerfile", "from_template",
          "set_start_cmd", "set_ready_cmd", "skip_cache", "copy", "copy_items", "run",
          "set"}

\* The shape of each variable.
TypeOK ==
  /\ files \in [Sources -> 0..MaxVersion] /\ edits \in 0..MaxEdits
  /\ template \in Templates /\ said \in Seq(Names) /\ pusher \in Seq(Nat)
  /\ spent \in 0..Effort
  /\ stage \in [Builds -> {"idle", "requesting", "uploading", "triggering", "ok",
                           "failed", "dropped"}]
  /\ order \in [Builds -> [template : Templates, skip : BOOLEAN, said : Seq(Names),
                           pusher : Seq(Nat)]]
  /\ steps \in [Builds -> Seq(Steps)]
  /\ slot \in [Builds -> {"none", "asked", "waiting", "sent", "building"}]
  /\ DOMAIN body = Builds
  /\ store \in [DOMAIN store -> 0..MaxVersion] /\ DOMAIN store \subseteq Hash
  /\ adrift \subseteq Hash \X (0..MaxVersion)
  /\ raced \in BOOLEAN

\* Once a build is triggered, the archive of every COPY is in the store,
\* unless the server had no URL to put it to (upload_build_context).
ContextsReady ==
  \A b \in Builds : Sent(b) => \A k \in DOMAIN steps[b] :
     steps[b][k].instr.type = "COPY" =>
        steps[b][k].at = "withheld" \/ steps[b][k].hash \in DOMAIN store

\* As long as nobody edits between a build's two reads of its files, what is
\* stored under a hash is what was hashed, whatever builds run at once, fail,
\* are dropped, or leave PUTs behind that land later.
StoredUnderItsHash == \A h \in DOMAIN store : store[h] = h[3]
CacheIsHonest == raced \/ StoredUnderItsHash

\* A COPY with force_upload is archived and put by this very build, whatever
\* the cache holds, unless it got no URL or its files vanished in between.
ForcedAreUploaded ==
  \A b \in Builds : Sent(b) => \A k \in DOMAIN steps[b] :
     steps[b][k].instr.upload =>
        raced \/ steps[b][k].at = "withheld" \/ steps[b][k].archive # 0

-----------------------------------------------------------------------------
(* What holds of a chain.                                                  *)

Bases    == {"from_image", "from_registry", "from_dockerfile", "from_template"}
Readying == {"set_start_cmd", "set_ready_cmd"}

\* The last of the calls to one of names was to one of these.
Latest(calls, names, these) ==
  \E k \in DOMAIN calls : /\ calls[k] \in these
                          /\ \A l \in DOMAIN calls : l > k => calls[l] \notin names

\* The base is that of the last call that names one; a registry's credentials
\* stay; force is set when skip_cache came anywhere in the chain; a ready command
\* is the last one set.
Follows(t, calls) ==
  /\ t.base # None <=> Latest(calls, Bases, {"from_template"})
  /\ t.image # None <=> Latest(calls, Bases, Bases \ {"from_template"})
  /\ t.registry # None <=> "from_registry" \in Range(calls)
  /\ t.force <=> "skip_cache" \in Range(calls)
  /\ Latest(calls, Readying, {"set_ready_cmd"})
       /\ "from_dockerfile" \notin Range(calls) => t.ready = "port"

\* A step is forced by its own call's force_upload, or by a skip_cache before that
\* call, unless the call read a Dockerfile; one after it comes too late.
Marked(is, calls, by) ==
  /\ DOMAIN by = DOMAIN is
  /\ \A k \in DOMAIN by :
       /\ by[k] \in DOMAIN calls
       /\ is[k].force <=> \/ is[k].upload
                          \/ /\ calls[by[k]] # "from_dockerfile"
                             /\ \E j \in 1..(by[k] - 1) : calls[j] = "skip_cache"

Meant(t, calls, by) == Follows(t, calls) /\ Marked(t.steps, calls, by)

\* The body that is sent means what the chain said, wherever in it skip_cache came:
\* what Meant says of a template, with skip_cache of the options added, and the
\* steps of the chain in its order.
BodyFollowsChain ==
  \A b \in Builds : Sent(b) =>
    LET instrs == [k \in DOMAIN body[b].steps |-> body[b].steps[k].instr]
    IN  /\ instrs = order[b].template.steps
        /\ body[b].force <=> order[b].skip \/ "skip_cache" \in Range(order[b].said)
        /\ Meant([image |-> body[b].fromImage, base |-> body[b].fromTemplate,
                  registry |-> body[b].fromImageRegistry, steps |-> instrs,
                  start |-> body[b].startCmd, ready |-> body[b].readyCmd,
                  force |-> order[b].template.force], order[b].said, order[b].pusher)

-----------------------------------------------------------------------------
(* The inductive invariant.                                                *)

\* How far a build has come agrees with its slot, and its steps with the order.
InStep(b) ==
  /\ stage[b] = "idle" <=> slot[b] = "none"
  /\ stage[b] = "requesting" => slot[b] \in {"asked", "waiting"}
  /\ stage[b] = "uploading" => slot[b] = "waiting"
  /\ stage[b] \in {"triggering", "ok"} => Sent(b)
  /\ IF stage[b] = "uploading" \/ Sent(b)
     THEN /\ DOMAIN steps[b] = DOMAIN order[b].template.steps
          /\ \A k \in DOMAIN steps[b] :
               steps[b][k].instr = order[b].template.steps[k]
     ELSE steps[b] = << >>
  /\ Sent(b) => /\ stage[b] \in {"triggering", "ok", "failed", "dropped"}
                /\ Settled(b)
                /\ body[b] = Body(order[b].template,
                                  [k \in DOMAIN steps[b] |->
                                     [instr |-> steps[b][k].instr,
                                      hash |-> steps[b][k].hash]], order[b].skip)

\* A hash is of its COPY and of files there were; what is done is in the store.
Hashed(s) ==
  s.instr.type = "COPY" => /\ s.hash[1] = s.instr.args[1] /\ s.hash[3] # 0
                           /\ s.at = "done" => s.hash \in DOMAIN store

\* What is hashed is still so, and what is archived is what was hashed.
Honest(s) ==
  /\ s.at = "hashed" => s.hash[3] = files[s.instr.args[1]]
  /\ s.at = "putting" => s.archive = s.hash[3]
  /\ s.at = "done" /\ s.instr.upload => s.archive = s.hash[3]

IInv ==
  /\ TypeOK
  /\ Meant(template, said, pusher)
  /\ \A b \in Builds : stage[b] # "idle" =>
       Meant(order[b].template, order[b].said, order[b].pusher)
  /\ \A b \in Builds : InStep(b) /\ \A k \in DOMAIN steps[b] : Hashed(steps[b][k])
  /\ ~ raced =>
       /\ StoredUnderItsHash
       /\ \A p \in adrift : p[2] = p[1][3]
       /\ \A b \in Builds : \A k \in DOMAIN steps[b] : Honest(steps[b][k])

\* What a run checks: the invariant, and the contexts for which there is one.
Inv == IInv /\ ContextsReady

\* A build call comes back, whatever fails: each request has a timeout, and
\* the first upload that fails ends them all.
SetupEnds == \A b \in Builds : Running(b) ~> ~Running(b)

=============================================================================
