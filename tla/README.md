# Verification of e2b-rs

TLA+ models, TLC runs and TLAPS proofs for `crates/e2b-rs`, the Rust SDK for E2B
sandboxes. Paths are relative to `crates/e2b-rs/src/`.

## The system

The SDK is a library: it talks to three servers (the control plane, the `envd`
daemon inside a sandbox, the volume service) and runs three kinds of background task on
the caller's tokio runtime. What can go wrong in it is concurrency between tasks,
channels and futures that may be dropped at any `await`, streams that stop anywhere,
calls made of several requests or commands of which one fails, and requests that are
served after their caller has given up.

| Part | State | Operations | Talks to |
|---|---|---|---|
| Control-plane client (`api/client.rs`, `http/inflight.rs`) | permits, waiters | `request*`, `send`, `acquire` | control plane, every part below it |
| Connect client (`connect/`) | the decoder's buffer, one per stream | `unary`, `server_stream` | envd |
| Commands, PTY (`sandbox/commands`, `sandbox/pty`) | none | `start`, `run`, `list`, `kill`, `connect`, stdin, `resize` | a handle per command |
| Command handle (`sandbox/commands/handle.rs`) | accumulated output, bounded channel (128), one-shot, task | `open_handle`, `next`, `wait`, `kill`, drop | its task, by channel and one-shot |
| Files (`sandbox/filesystem`) | none | one request per call | envd |
| Directory watch (`sandbox/filesystem/watch.rs`) | bounded channel (64), task | `watch_dir`, `next`, `stop`, drop | its task |
| Git (`sandbox/git`) | the repository, in the sandbox | some 20 calls of one, two or more commands | Commands |
| Volumes (`volume/`) | a token per handle | one request per call | control plane, volume service |
| Tags (`template/tags.rs`) | none | one request per call | control plane |
| Sandbox (`sandbox/api.rs`, `sandbox/sandbox.rs`) | the sandbox, on the control plane | create, connect, pause, kill, timeout, snapshots | control plane |
| Paginators | cursor | `next_items` | control plane |
| Template build (`template/builder.rs`, `build_api.rs`, `upload.rs`) | build slot and context cache, on the control plane | hash, upload (concurrently), trigger | control plane, object store |
| Build handle (`template/handle.rs`) | log offset, bounded channel (128), one-shot, task | poll, `next`, `wait`, drop | its task, control plane |

The hard behaviours:

- a task and its handle are joined by a bounded channel and a one-shot, and the handle,
  or the future of `wait`, can be dropped at any moment;
- a server-stream is a response body cut into chunks anywhere, which may end anywhere,
  with or without an error;
- a call that runs several commands may be interrupted between any two, or run beside
  another such call, and its answer is made of texts that git prints;
- a request whose answer was lost, or whose future was dropped, may be served all the
  same, and later;
- calls queue for permits, and may be dropped in line, when granted, and in flight;
- a build's log is fetched by offset from a store that lags behind the build's status;
- a build's contexts are hashed, looked up in a shared cache and uploaded concurrently,
  by several builds, from files that may change meanwhile;
- several tasks and a timeout act on one sandbox; what an old `envd` does not know is
  refused by the SDK or ignored by the server.

What makes each part correct: *commands*: live output and result are the process's, in
order, complete, and a lost session never looks like an exit; *streams*: messages whole,
in order, not held back; *watches*: every event once, in order, before `None`; *files,
volumes, processes, tags*: an answer says what was so at one moment of its call, an
error that the server was not reached or refused; *client*: never more than the cap in
flight, no permit lost, first come first served; *git*: credentials are in the
repository only for the length of a call, or the call says it failed, and what a call
says of a repository is so; *builds*: every log entry once and in order, the verdict the
build's own; *template builds*: nothing is triggered without its contexts, and a context
in the cache is what its hash says; *sandboxes*: an answer was true at some moment of
its call, and none is left running unsaid; *listings*: complete, without repetition, and
they end; *all tasks*: `wait` returns, drop leaves no task behind.

`PROJECT.json` lists the parts with their state of modelling, and under `hazards` the
lines where these things bite.

## Modules

| Module | Models | Proofs |
|---|---|---|
| `ProcessSession` | the promise of a command to its caller, abstractly | |
| `CommandHandle` | one command: process, stream, `open_handle`, driver task, channel, one-shot, handle | `CommandHandle_proofs` |
| `MessageStream` | the promise of a server-stream, abstractly | |
| `ConnectStream` | envelopes, response chunks, the decoder, the generator of `server_stream` | `ConnectStream_proofs` |
| `ApiClient` | callers sharing one control-plane client and its limiter | `ApiClient_proofs` |
| `AtomicCalls` | the promise of calls to a server, abstractly | |
| `RemoteCalls` | callers, their requests, losses, late servings; the server is a parameter | `WatchedCalls_proofs` |
| `Errors`, `Versions` | what is made of a response, and what depends on envd's version; operators | |
| `Tree`, `Filesystem`, `Volume`, `Processes`, `TemplateTags` | four servers for `RemoteCalls`, and the calls on them | `WatchedCalls_proofs` |
| `WatchHandle` | a directory, its WatchDir stream, the task, the channel, the handle | `WatchedCalls_proofs` |
| `WatchedCalls` | `RemoteCalls` and `WatchHandle` together | `WatchedCalls_proofs` |
| `GitCredentials` | `push`, `pull`, `clone` with credentials, each command of theirs, several callers | `Git_proofs` |
| `Repository`, `GitCalls` | a repository and git's commands on it; the other calls of `Git`, command by command | `Git_proofs` |
| `BuildHandle` | a build and its log, the poll task, channel, one-shot, handle | `BuildHandle_proofs` |
| `Template` | the builder chain, Dockerfile lines and the trigger's body, as operators | `TemplateBuild_proofs` |
| `TemplateBuild` | `setup_build`: slot, hashes, links, uploads, trigger, several builds, edits | `TemplateBuild_proofs` |
| `SandboxLifecycle` | sandboxes, the calls about them, requests that outlive their call | `SandboxLifecycle_proofs` |
| `Paginator` | one listing, page by page; part of `SandboxLifecycle` | `SandboxLifecycle_proofs` |
| `MC*` | small instances for TLC | |

How they fit: `ConnectStream` implements `MessageStream`, whose `queue` and `fate` are
the stream that `CommandHandle` polls, and the `wire` and `fate` that `WatchHandle`
does; `CommandHandle` implements `ProcessSession`, and a command of `GitCredentials` and of
`GitCalls` has the outcomes `ProcessSession` allows: the process's exit status, an error, or a result
with exit code 0 and an error text. `RemoteCalls` implements `AtomicCalls`, whichever of
the four servers is behind it; the responses are what `Errors` reads, and what a `Start`,
`Connect` or `WatchDir` leads to is `CommandHandle` or `WatchHandle`. In `WatchedCalls`
the watch is opened by one of the calls, and what the calls do to the directory is what
it reports.

**CommandHandle.** `proc`, `produced`, `status` are the process in the sandbox; `queue`
and `fate` what its stream will still yield and how it will end. `handle` is the
caller's side: `opening` is the future of `open_handle`; `open` a `CommandHandle`;
`waiting` the future of `wait`; `dropped` either of the two dropped. `driver` is the
spawned task: `polling` in `stream.next()`, `sending` in `output_tx.send().await`,
`replied` between `result_tx.send` and the end of the task, which closes the channel.
Chunks are tagged records; their bytes are abstracted, and so is the conversion of the
accumulated bytes to text. `at` in a message is an auxiliary stamp, and `popped` a
history variable. A handle made by `connect(pid)` is the same machine, with `produced`
counted from the connection on.

**ConnectStream.** Here bytes are bytes (in base `Base`), because cutting them is the
point: `wire` is what the connection still holds, `buf` the decoder's buffer.
`ReceiveChunk` takes any number of bytes, `DecodeFrame` is one turn of the inner loop,
and between two turns the generator may be suspended at its `yield`.

**ApiClient.** `Acquire` and `Release` are `acquire` and the drop of its permit with the
hand-off of tokio's fair semaphore: a released permit goes to the first waiter, and is
free only when there is none. A granted waiter whose task has not run yet is a state of
its own, since its future can be dropped there. `cap` is chosen at the start, from
`Caps`; 0 means no limiter.

**RemoteCalls, AtomicCalls.** `store` is the server's state, `call` a caller's future:
`made` until the server acts, `answered` while the response travels, then `returned`. A
call that the SDK answers by itself (`Refused`) makes no request. `Fails` is any end
without an answer, and what was sent may be served later (`adrift`); `Drift` is what
others do to the server. The abstract module has each call take effect once, when its
promise is kept (`Promises`, written from the documentation), or fail. The four server
modules define, in parallel, what is asked, what the SDK refuses, what the server does
and answers (external, from the way the code uses it), what the code makes of the answer,
and what the documentation promises. A request is a record, a path a sequence of names,
a version of envd a number. The code makes no retries, so the model has none.

**WatchHandle.** An event is its place in the directory's `log`. `wire` and `fate` are
the stream, `task` the spawned loop, `pend` the event it is sending, `chan` the channel,
`popped` what the caller was handed. Keepalives, the start message and events of unknown
kinds (`odd`) are consumed and not handed on. An error of the stream ends the loop as a
close does, and the caller cannot tell the two.

**GitCredentials.** One repository with one remote. `pc` is the command a caller is at,
`job` its process. A command can succeed, exit non-zero, lose its connection (`Lost`), be
cut off without an error (`Closed`: exit code 0), or be dropped with the call (`Cancel`);
in the last three cases its process may still run later, as an orphan. `excused` is the
history of the calls of which nothing is asked: those that overlapped another call or
its left-over process, and those of which a stream was cut off.

**Repository, GitCalls.** `repo` is a repository: head, branches, index, files, conflicts,
configuration, one remote with branches of its own. A call is a script of one or two
commands; between two of them others change the repository. A command gives git's exit
code and output or, when its stream closes before the end event (`Cut`), exit code 0, an
error text and what has come of the output, by whole lines; it has run by then, or runs
later, as a command of a failed call may (`adrift`). `PushAs` and `PullAs` are the
arguments `push` and `pull` make of a remote and a branch, each named or not. `before` and
`after` are the repository around the last command, for the properties. What git prints is a record of
the facts the parsers of `sandbox/git/util.rs` read; a branch whose name the parsers
could take for something else is in `Headlike`, and a conflict has the code, `A` or `U`,
that git prints for it.

**BuildHandle.** `logged` and `visible` are the build's log on the server and how much of
it a status request can see; the last entries may become visible after the terminal
status. The poll function's loop and its drain loop share `Poll` and `Forward`, and
differ in what follows.

**Template, TemplateBuild.** `Template` has one operator per builder call, from the
template and the arguments to the template; the text of the commands is a name, and what
`tokenize_instructions` makes of a Dockerfile is the sequence of its lines. `template` in
`TemplateBuild` is the chain so far, `said` its calls and `pusher` which of them pushed each
step; `order` is the chain as a build was called with it. A copy whose source
`validate_relative_path` refuses consumes the chain (`CopyRefused`), and another begins.
`spent` counts builder calls and builds against the bound `Effort`.
`stage` is where `setup_build` stands, `steps` its instructions, and `at` in a step where
the concurrent future of its context stands. `slot` and `body` are the build on the
control plane, `store` the cache of contexts: the hash is the version of the files that
were hashed, its value the version that was archived. Hashing is one step, because it
does not await. `adrift` are PUTs whose future was dropped by `try_join_all` or with the
call. `raced` becomes true when a file that a build has hashed and not yet archived is
edited.

**SandboxLifecycle, Paginator.** A call is one request, except that `create` follows its
own with a `kill` when the envd is too old. `call` is the caller's side, `sandbox` the
control plane's. `Fails` is any end without an answer, and what was sent may then be
served later (`adrift`). `seen` collects the states a sandbox was in during a call, and
`credit` compares kills and pauses that were served with those claimed. `old` has the
sandboxes whose envd is below a gate: that of `create` (0.1.0) or the later one of
`get_metrics` (0.1.5). `set_timeout`
stands for every call that only needs the sandbox to be there. `delete_snapshot` is
`kill`, on a template, and is not repeated. `Paginator` is instantiated with the living
sandboxes as the items; the snapshot listing is the same machine. `next_items` on an
exhausted listing returns an empty page and is no step (the design,
`.super/specs/2026-06-28-e2b-rust-sdk-design.md:374`, has it fail).

Definitions under a comment that starts with *Fault* are mutants: the definition named
there as a plausible mistake would have it. No specification uses them; each property
of a passing run is violated when one of them takes the place of the code's definition.

## Runs

| Run | Shows | Bounds |
|---|---|---|
| `command` | `ResultIsGenuine`, `WaitIsComplete`, `IInv`, `ImplementsSession`, `WaitReturnsAtEnd`, `DropEndsDriver` | channel of 2, 3 chunks of 3 kinds, 2 messages in the connection |
| `stream` | `IInv`, `MessagesAreShown`, `ImplementsMessageStream`, `StreamEnds` | 2 frames of 6 kinds, every cut |
| `requests` | `PermitsAreConserved`, `CapHolds`, `NobodyWaitsInVain`, `FirstComeFirstServed`, `EveryCallIsServed` | 4 callers, caps 0, 1 and 2 |
| `envd` | `EventsInOrder`, `NoneComesLast`, `CallsAreAtomic`, `WatchEnds`, `ChangesAreSeen`, `StopEndsTask` | 2 callers, 2 calls to one of the servers, 3 paths, 3 versions of envd each; channel of 1, 2 changes, 1 keepalive |
| `git` | `IInv`, `OpUsesItsCredentials`, `RestoreFollows` | a clone and two pushes, at once or one after the other, all faults |
| `git_truncated` | violates `CredentialsAreTransient` | one push, a truncated stream |
| `repo` | `AnswersAreTrue`, `GitInv` | 2 callers, 2 calls, 2 branches, 2 files with 2 contents, 6 states to start from, commands cut at each line |
| `repo_cut` | violates `CleanMeansClean` | one caller, the same |
| `build` | `IInv`, `VerdictIsFinal`, `WaitReturnsAtEnd`, `DropEndsTask` | channel of 1, batches of 2, 4 entries |
| `template` | `Inv`, `CacheIsHonest`, `ForcedAreUploaded`, `BodyFollowsChain`, `SetupEnds` | 2 builds, 1 source and a Dockerfile of each kind of line, 3 builder calls, refused copies and builds in all, 1 edit, 3 versions of the files |
| `template_edits` | violates `StoredUnderItsHash` | the same |
| `sandbox` | `AnswersAreTrue`, `OnlyOneWins`, `IInv`, `ListingIsExact`, `ListingEnds` | 3 sandboxes, calls on one of them or that make more, pages of 1, 2 calls, or a listing and 1 call |

Each `Inv` and `IInv`, and `GitInv`, contains its module's type invariant, and what the
proofs below need to make an induction of it. Beside that, the invariant of `stream` says
that what was read so far is the frames sent (`Reassembled`), of `template` that no build
is triggered before its contexts are stored (`ContextsReady`), of `command`
`OutputInOrder`, of `build` `LogInOrder`, of `git` `CredentialsComeOff`, of `sandbox`
`NoneIsForgotten`, of `repo` `ErrorsAreTrue`.

What some of them say, and do not:

- `MessagesAreShown`: a message whose bytes have all been received is yielded although no
  further byte ever comes. Only fairness of the generator is assumed, none of the connection.
- `AnswersAreTrue` of `repo` is of output that is whole. Of a command that was cut, the
  parts of a status, a listing or a value may be missing, and the call, which drops the
  error text, does not say so: that is the finding of `repo_cut`. A call that hands on its
  `CommandResult` (`restore`, `remote_add`, `push`, `pull`) hands on the error text too: what
  is said of those is said of results with exit code 0 and no error. Output that shows less
  than the repository is excepted (`Legible`): branches named like a detached head, and
  conflicts without a `U`.
- `BodyFollowsChain` says of each step whether it is forced: by its own `force_upload`, or by
  a `skip_cache` before it in the chain and a call that is not `from_dockerfile` (`Marked`).
- `CallsAreAtomic` promises of `alias_exists` nothing where the name is another team's.

Why the bounds are enough: three chunks through a channel of two fill it and leave the
task holding one, which is every way a channel, task and reader can stand to each other;
one chunk per kind tells reordering from misfiling. A decoder that has yielded a frame
is a decoder with a shorter buffer, so two frames show each kind of frame after each
other kind. With a cap of two, four callers have two waiters behind two holders, the
least that tells the order of the line. Two calls meet each other, the leavings of one
that was given up, and what others do to the server; a call sees one store, and what it
answers depends on one path, process or tag and its parent, so three paths do. The
versions of envd stand on either side of the gates the code has. Two events through a
channel of one leave one in the channel and one in the task's hands. A clone and two
pushes meet as two of a kind, as two kinds, and one after two. The repositories to start
from are those that the parsers and the errors tell apart: none; a clone that has diverged,
with a conflict that has no `U`; one with a file deleted and another there; one that is
behind; a detached head with a staged change; an edited file in conflict. The calls lead
from these to the others, clean ones included, and a process writes a file where none is. Four entries in batches of two make
the poller fetch a full, a partial and an empty batch on either side of the terminal
status. Two builds are what it takes to share a cache, one edit to have two contents
under one name; two steps of one build come from a Dockerfile's `ADD` with two sources,
and a third version is a source that matches nothing. Calls on different sandboxes do not
meet; two on one meet each other, the sandbox's timeout and, when one was lost, its own
request; three pages have a first, a middle and a last. What a listing sees of the calls
is only which sandboxes come and go, so one call and the timeouts beside it show every
case of an item that appears or vanishes on either side of the cursor.

`CHECK_DEADLOCK FALSE`, where it stands, is because those systems do stop: the command
is over, the stream has ended, each caller has made its calls, the build is
set up, or followed to its end. `requests` never stops, and deadlock is checked.

### What the violations show

1. `git_truncated`. A process stream that stops without an end event gives
   `Ok(CommandResult { exit_code: 0, error: Some(..) })`. `check_set_url_exit` reads only
   the exit code, so a restore that was cut off counts as done, and the push succeeds with
   the credentials still in the URL, which the comment at `sandbox/git/mod.rs:467` rules
   out.
2. `template_edits`. `calculate_files_hash` reads the files before the uploads,
   `tar_file_stream` once more when its link has come; an edit in between stores the new
   content under the old content's hash, although the hash is "used by the build cache to
   detect changes" (`template/types.rs:202-203`). `CacheIsHonest` shows that this race is
   the only way to it.
3. `repo_cut`. The stream of a `git status` closes before the end event: the result is
   `Ok` with exit code 0, an error text and the output so far (`commands/handle.rs:237-249`).
   `status` drops the error text and parses the output; with nothing or only the branch line
   of it, a repository with changes has a status with `is_clean`, which says "`true` when
   there are no tracked or untracked changes" (`sandbox/git/types.rs:71`). `branches`,
   `get_config` and `remote_get` drop it too.

Met on the way. The first three contradict a comment; the properties except the first two,
and the third makes no difference to them; of the rest no line of the code promises otherwise, or only the design does:

- In a conflict over a file that both sides added, or both deleted, git prints `AA` or `DD`;
  `derive_status` (`sandbox/git/util.rs:190`) calls conflicts only the codes with a `U`, so
  `has_conflicts` is false in the middle of the merge (`sandbox/git/types.rs:79` says "`true`
  when there is at least one merge conflict").
- `alias_exists` is `exists`, which makes `Ok(true)` of a 403, a name of another team. Its own
  documentation (`template/tags.rs:162-170`) has every status but 200 and 404 an `Err`.
- `use_octet_stream: Some(false)` is said to force multipart (`filesystem/io.rs:24`); with
  `gzip` the code sends an octet stream (`io.rs:140`), as `Form` does.
- The design (`.super/specs/2026-06-28-e2b-rust-sdk-design.md:314-318`) has unbounded
  channels, "so a consumer that never drains cannot stall the driver". The code has
  `mpsc::channel(128)` and awaits each send: a handle that is held and not read stalls its
  task. `wait` and drop both free it (`WaitReturnsAtEnd`, `DropEndsDriver`).
- Two pushes at once: the second reads the first one's credentialed URL as the original,
  and puts it back last. Both succeed, nothing failed, and credentials stay.
- `git branch` lists a detached head as a line of its own, which `parse_git_branches`
  returns as if it were a branch (`Detached` in `GitCalls`, which `AnswersAreTrue` leaves
  out of the comparison).

### Fairness

A task that can make progress is polled by the runtime, an aborted task is cancelled,
a `wait` that can make progress is polled by whoever awaits it, a request that was sent
ends (it has a timeout), and commands run in the sandbox end. In `build` the requests of
the poller are answered or fail. In `envd` the task is polled, and a caller who watches
asks for the next event, until it stops the watch. In `git` a command that was started
runs, and its end is read. `setup_build` is fair as a whole: each of its requests is
answered or times out. `ListingEnds` is of a caller who asks for page after page and does
not lose every page at the same place (strong fairness of `ServePage` and `ReturnPage`).
Nothing makes a process or a build end, a connection break, a directory change, or a
caller call `next`, `wait` or drop where that is not said above; liveness is stated from
the point on where those have happened. A stream has no timeout, so nothing is claimed
of a connection that goes silent.

## Proofs

Of any set of callers, any capacity and any number of calls, and without regard to the
bounds. Every property of a passing run that is not liveness is proved: the invariants, the
action properties and the three refinements.

`CommandHandle_proofs`: `TypeCorrect` (`Spec => []TypeOK`; with it, the channel never
exceeds its capacity); `Invariance` (`Spec => []IInv`), from which `OutputOrder`
(`OutputInOrder`), `GenuineResults` (`ResultIsGenuine`) and `Completeness`
(`WaitIsComplete`) follow; `Refinement` (`Spec => ImplementsSession`). `OutputInOrder` is
not inductive: that the next chunk is the right one depends on what the stream still
holds. `StreamInStep` says so: the messages carry stamps, the first continues where the
driver stands, each next one follows the one before, a live stream ends where the process
stands, an end event only after everything written. `InAccount` adds that the accumulated
output is what was written before the next message, also when the handle is gone.
`Stages` relates where task and handle are to what they hold, and `Earned` keeps for a
reply what made it true. In the refinement every step of the machinery is a step of the
session or a stutter: `WaitDrains` and `HandleNext` are `Deliver`, because the channel's
head is the next chunk produced; `WaitReturns` is `Learn` or `Lose`, because a reported
result was earned.

`ConnectStream_proofs`: `Invariance` (`IInv`, with `Reassembled`) and `Refinement` (`Spec => ImplementsMessageStream`), for every base
and every set of frames. The decoder sees only bytes, and the invariant speaks of frames:
as long as the stream goes on, buffer and wire together begin what the frames not yet read
encode to (`Reassembled`), and while the body is open nothing of it is missing
(`NothingMissing`). The lemmas between the two say that an encoding starts with its header,
that the header gives the length, and that a buffer at least that long starts with the
whole frame. In the refinement the queue is the messages that lie whole in
the bytes there are, on the wire or in the buffer: a frame that is sent adds one at its
end, a chunk that is received changes nothing, a decoded frame is its first, and a body cut
anywhere leaves some of the first.

`ApiClient_proofs`: `TypeCorrect`, `Conserved` (`PermitsAreConserved`), `CapIsKept`
(`CapHolds`), `NoIdleWaiting` (`NobodyWaitsInVain`), `Order` (`FirstComeFirstServed`), for
a finite set of callers and every cap. The invariant is the conjunction of `TypeOK`,
`PermitsAreConserved` and `NobodyWaitsInVain`: a permit that is handed on moves one caller
out of the holders and another in, and the step needs the line to list exactly the callers
that wait, which `TypeOK` includes.

`BuildHandle_proofs`: `Invariance` and `VerdictsAreFinal` (`VerdictIsFinal`). `Judged` is
what makes the verdict inductive: a terminal status was the build's, and everything that
could be seen then has been fetched before the task concludes.

`WatchedCalls_proofs` has four parts.

- *Calls.* `CallsAreAtomicIfEachIsKept`: `RemoteCalls` implements `AtomicCalls`, if the
  stores, requests and knowledge there can be are closed under the steps, and each
  request, by itself, is answered as promised: in any store, what the SDK says by itself
  is true, and what it makes of any answer is what was promised of the step the server
  took. Neither interleaving, loss, late serving nor dropped futures take that away.
- *Servers.* `FilesAreAtomic`, `VolumesAreAtomic`, `ProcessesAreAtomic` and
  `TagsAreAtomic` are that theorem with the hypothesis proved of each of the four servers,
  for all stores and requests, every version of envd, and whatever the server answers.
  What remains assumed (`Runs`) is that a server starts as such a server, drifts to such
  servers, and is asked what can be asked: the starts, requests and drift of the run
  `envd` are of this kind. A promise about files is one about trees, and needs that trees
  stay sound, what is there being in directories up to the root (`SoundTrees`): placing,
  removing and moving keep that, and without it a renamed entry could still be at its old
  path. A batch of files is written one by one, and `Written`, a recursive function, takes
  its steps (`WrittenStepByStep`).
- *The watch.* `EventsAreInOrder` (`EventsInOrder` and `NoneComesLast`), by the same
  argument as for `CommandHandle`: the stamps on the wire go on from where the task is.
- *Both.* `CallsAndWatch`: a step of `WatchedCalls` is one of the calls or none of theirs,
  and one of the watch or none; both results therefore hold of both together.

`Git_proofs`, of `GitCredentials`: `Invariance` (`IInv`, which contains
`CredentialsComeOff`) and `OwnCredentials` (`OpUsesItsCredentials`). `Undisturbed` is what
is inductive: a call that is not excused is alone, without left-over processes; before it,
and after its `Ok`, its credentials are nowhere, neither in the URL nor in what another
call took for the original nor in a process still to run; in between the URL is what its
last command made of it. Of `GitCalls`: `TrueGitAnswers` (`AnswersAreTrue`) and
`TrueGitErrors` (`GitInv`, with `ErrorsAreTrue`), for any number of files, branches,
contents, commits and calls. They assume `Orderly`: what there is at the start, and what
others make of a repository, is one, and callers ask for what calls there are. `GitTypeOK`
keeps with each call the repository its last command ran on and what that gave; the rest
is about commands: each leaves a repository, cut short or not (`CommandStays`,
`SeenStays`), and what it prints, put through the parsers, is so of the repository before
or after it (`StatusIsTrue`, `AnswerFits`, `PushAndPull`); of a command that was cut there
is an error text to tell it by (`CutFits`). The renames that a status lists pair deleted files with
added ones until none can be added to the pairing, and `RenamesPair` shows that there is
such a pairing, whatever the files.

`TemplateBuild_proofs`: `Invariance` (`IInv`), `ContextsAreThere` (`Inv`), `HonestCache`
(`CacheIsHonest`), `ForcedUploads` (`ForcedAreUploaded`) and `BodyIsTheChain`
(`BodyFollowsChain`), for any number of builds, sources and edits, and any Dockerfile.
`InStep` ties a build's stage to its slot and its steps to the chain it was called with,
`Hashed` each step's hash to its source and to the store, `Honest` the archive to the
hash as long as nothing raced. `Follows` is the invariant of the builder chain: each
operator of `Template` keeps it, `from_dockerfile` because the loop over the lines does.
`Marked` goes with it: a call adds steps at the end, all pushed by it, and each is marked by
its own `force_upload` or by the `force` the template had, which is whether a `skip_cache`
came before; steps that are there are not touched again (`MarkingGoesOn`).

`SandboxLifecycle_proofs`: `Invariance`, `TrueAnswers` (`AnswersAreTrue`), `OneWins`
(`OnlyOneWins`) and `ExactListing` (`ListingIsExact`), for finitely many sandboxes and
callers. A call under way knows what its answer was read from (`AllKnow`): the state is
among those it has seen, and a sandbox that is gone stays gone. `Funded` is why only one
wins: the credit of a sandbox is at least the number of calls whose answer allows them to
claim it, and a claim takes one from each. `NoneIsForgotten` is part of the invariant. Of
the listing, `CursorInStep` says that the cursor parts what is listed from what is not,
and that a page under way holds what comes next.

Several models compute by recursion: the bytes of a sequence of frames, the lines of a
Dockerfile, the files of a batch, the text accumulated from chunks. These are recursive
functions, and the proofs say of them only that each takes its steps: such a function
exists, since a chain of steps of any length does, and is therefore what `CHOOSE` takes.
That, and every other induction on numbers, is by the least element of a set of numbers
that would contradict it (`LeastExists`), which is there because `<` is well-founded
(`NatLessThanWellFounded`); the library's induction rules take an operator, which the
provers cannot instantiate.

Only model-checked: liveness (`WaitReturnsAtEnd`, `DropEndsDriver`, `StreamEnds`,
`MessagesAreShown`, `EveryCallIsServed`, `RestoreFollows`, `DropEndsTask`, `SetupEnds`, `ListingEnds`,
`WatchEnds`, `ChangesAreSeen`, `StopEndsTask`), which is beyond the prover: it has no rule
for `ENABLED`, which fairness is about.

## Not modelled

- Generated types (`api/schema.rs`, `envd/proto/*`, `volume/schema.rs`, `envd/rest_gen.rs`,
  `sandbox/mcp_gen.rs`), which are over 12,000 of the crate's 30,800 lines, and the tests
  inside the source files: data without control.
- Configuration, logging, signatures of URLs, network rules: pure functions of their
  arguments, without state. `xtask` generates code at development time.
- Text: splitting a Dockerfile into lines and tokens, quoting, the formatting of commands
  and messages. What the parsers of git's output read is modelled, not the characters.
- Of `Git`: bare repositories, `reset --merge` and `--keep`, the system scope of the
  configuration, `restore --source`; what a command of git that fails half-way leaves of the
  repository; output that is cut within a line, or within a value, of which nothing would be
  said either. Of the tags: `get_build_status`, one reading of what
  `BuildHandle` polls.
- That a stream's connection goes silent: there is no timeout to model. That every call
  makes its own control-plane client, so that the cap is one per call and not one per
  process (`api/client.rs:94`), is outside `ApiClient`, which is about one client.
