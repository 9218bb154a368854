------------------------------ MODULE Repository ------------------------------
(***************************************************************************)
(* A git repository in the sandbox, with one remote, and what the commands *)
(* do that Git runs on it: the part of git that its answers depend on.     *)
(*                                                                         *)
(* A history is a sequence of commits [by, tree], a tree gives each file   *)
(* its contents or "absent".  What a command answers is [exit, out, says]: *)
(* its exit code, its stdout (see Nothing), what an error message is about.*)
(***************************************************************************)
EXTENDS Integers, Sequences, FiniteSets

CONSTANTS Branches, Files, Contents, Remotes, Values,
          Default,      \* the branch of a new repository
          MaxHistory    \* bound: commits on a branch

ASSUME RepositoryAssumption ==
  /\ Default \in Branches /\ MaxHistory \in Nat \ {0}
  /\ IsFiniteSet(Files) /\ "absent" \notin Contents /\ "" \notin Remotes \union Values
  /\ "none" \notin Branches \union Files \union Remotes \union Values

Keys    == {"user.name", "user.email", "credential.helper"}
NoFiles == [f \in Files |-> "absent"]
Unset   == [k \in Keys |-> "none"]

\* head is <<"branch", b>>, <<"commit", history>> when detached, or <<"none">> when there
\* is no repository; up: the branches that track the remote's; fetched and theirs: its
\* branches as last fetched and as they are; conf: the conflicts, <<file, code>>, the code "A"
\* when both sides have added the file and "U" otherwise; stored: what the
\* credential store holds.
NoRepository == [head |-> <<"none">>, tips |-> [b \in Branches |-> << >>], up |-> {},
                 fetched |-> [b \in Branches |-> << >>],
                 theirs |-> [b \in Branches |-> << >>], url |-> "none",
                 index |-> NoFiles, work |-> NoFiles, conf |-> {},
                 config |-> [local |-> Unset, global |-> Unset], stored |-> "none"]

Trees     == [Files -> Contents \union {"absent"}]
Histories == Seq([by : {"us", "them"}, tree : Trees])
Heads     == ({"branch"} \X Branches) \union ({"commit"} \X Histories) \union {<<"none">>}
Scope     == [Keys -> Values \union {"none"}]
Repositories ==
  [head : Heads, up : SUBSET Branches, tips : [Branches -> Histories],
   fetched : [Branches -> Histories], theirs : [Branches -> Histories],
   url : Remotes \union {"none"}, index : Trees, work : Trees,
   conf : SUBSET (Files \X {"A", "U"}), config : [local : Scope, global : Scope],
   stored : Values \union {"none"}]

Attached(s)  == s.head[1] = "branch"
HistoryOf(s) == CASE s.head[1] = "branch" -> s.tips[s.head[2]]
                  [] s.head[1] = "commit" -> s.head[2]
                  [] s.head[1] = "none"   -> << >>
Tree(h)      == IF h = << >> THEN NoFiles ELSE h[Len(h)].tree
HeadTree(s)  == Tree(HistoryOf(s))

\* Commits that two histories have in common.
Common(h, k) == Cardinality({i \in 1..Len(h) : i <= Len(k) /\ SubSeq(h, 1, i) = SubSeq(k, 1, i)})
Within(h, k) == Common(h, k) = Len(h)

Conflicts(s)   == {k[1] : k \in s.conf}
Settled(s, fs) == {k \in s.conf : k[1] \notin fs}

Tracks(s) == Attached(s) /\ s.head[2] \in s.up

\* The head is moved to a history, on its branch or detached.
MoveHead(s, h) == IF Attached(s) THEN [s EXCEPT !.tips[s.head[2]] = h]
                  ELSE [s EXCEPT !.head = <<"commit", h>>]

-----------------------------------------------------------------------------
(* What commands print.                                                    *)

Nothing == << >>   \* and <<out>> is some output
Did(s, out)      == {[store |-> s, answer |-> [exit |-> 0, out |-> out, says |-> "nothing"]]}
Refuse(s, says)  == {[store |-> s, answer |-> [exit |-> 1, out |-> Nothing, says |-> says]]}
When(guard, s, done) == IF guard THEN Did(done, Nothing) ELSE Refuse(s, "other")

\* The lines of files: XY codes, "." for a blank, and the old path of a rename.
IndexCode(s, f) == IF s.index[f] = HeadTree(s)[f] THEN "."
                   ELSE IF HeadTree(s)[f] = "absent" THEN "A"
                   ELSE IF s.index[f] = "absent" THEN "D" ELSE "M"
WorkCode(s, f)  == IF s.index[f] = s.work[f] \/ s.index[f] = "absent" THEN "."
                   ELSE IF s.work[f] = "absent" THEN "D" ELSE "M"
\* A staged file with the contents of a deleted one is taken for it under a new name, one
\* file for one, for as long as there are both.
Twins(s)   == {r \in Files \X Files :
                 /\ IndexCode(s, r[1]) = "D" /\ IndexCode(s, r[2]) = "A"
                 /\ HeadTree(s)[r[1]] = s.index[r[2]] /\ s.conf = {}}
Pairing(m) == \A r, q \in m : r[1] = q[1] <=> r[2] = q[2]
Renames(s) == CHOOSE m \in SUBSET Twins(s) :
                Pairing(m) /\ \A r \in Twins(s) \ m : ~ Pairing(m \union {r})
Line(x, y, path, from) == [x |-> x, y |-> y, path |-> path, from |-> from]
FileLines(s) ==
  {Line(k[2], k[2], k[1], "none") : k \in s.conf}
  \union {Line("R", WorkCode(s, r[2]), r[2], r[1]) : r \in Renames(s)}
  \union {Line(IndexCode(s, f), WorkCode(s, f), f, "none") :
            f \in {g \in Files \ Conflicts(s) : /\ <<IndexCode(s, g), WorkCode(s, g)>> # <<".", ".">>
                                          /\ \A r \in Renames(s) : g \notin {r[1], r[2]}}}
  \union {Line("?", "?", f, "none") :
            f \in {g \in Files \ Conflicts(s) : s.index[g] = "absent" /\ s.work[g] # "absent"}}

\* status --porcelain=1 -b: "## b", "## No commits yet on b" or "## HEAD (no branch)", then
\* "...origin/b" and "[ahead n, behind m]", then the files.
StatusOutput(s) ==
  LET h == HistoryOf(s)
      k == IF Tracks(s) THEN s.fetched[s.head[2]] ELSE h
  IN  [line  |-> IF ~ Attached(s) THEN "detached" ELSE IF h = << >> THEN "unborn" ELSE "on",
       name  |-> IF Attached(s) THEN s.head[2] ELSE "HEAD",
       upstream |-> IF Tracks(s) THEN s.head[2] ELSE "none",
       ahead  |-> IF k = << >> THEN 0 ELSE Len(h) - Common(h, k),
       behind |-> Len(k) - Common(h, k),
       files  |-> FileLines(s)]

\* branch --format=...: a detached head has a line of its own, "(HEAD detached at ...)".
Detached == "(HEAD detached)"
ASSUME DetachedAssumption == Detached \notin Branches

BranchOutput(s) ==
  {[name |-> b, marker |-> IF s.head = <<"branch", b>> THEN "*" ELSE "."] :
     b \in {x \in Branches : s.tips[x] # << >>}}
  \union IF s.head[1] = "commit" THEN {[name |-> Detached, marker |-> "*"]} ELSE {}

-----------------------------------------------------------------------------
(* Commands that change the repository.                                    *)

\* Files as they are when the head moves from one tree to another, and whether git lets it.
Carries(s, to) == \A f \in Files : \/ to[f] \in {HeadTree(s)[f], s.index[f]}
                                   \/ s.index[f] = HeadTree(s)[f] /\ s.work[f] = s.index[f]
Carry(s, to, now) ==
  [f \in Files |-> IF to[f] \in {HeadTree(s)[f], s.index[f]} THEN now[f] ELSE to[f]]
Switch(s, head, h) ==
  [s EXCEPT !.head = head, !.index = Carry(s, Tree(h), s.index), !.work = Carry(s, Tree(h), s.work)]

Known(s) == \A k \in {"user.name", "user.email"} :
              \E scope \in {"local", "global"} : s.config[scope][k] # "none"

\* With no file named, all of them.
RunAdd(s, named) ==
  LET fs == IF named = {} THEN Files ELSE named
  IN  When(\A f \in named : {s.work[f], s.index[f]} # {"absent"}, s,
           [s EXCEPT !.index = [f \in Files |-> IF f \in fs THEN s.work[f] ELSE @[f]],
                     !.conf = Settled(s, fs)])

RunCommit(s, empty, author) ==
  LET h == Append(HistoryOf(s), [by |-> "us", tree |-> s.index])
  IN  When(/\ s.conf = {} /\ Len(h) <= MaxHistory /\ (s.index = HeadTree(s) => empty)
           /\ author \/ Known(s), s, MoveHead(s, h))

RunCreate(s, b) == When(s.tips[b] = << >> /\ s.conf = {}, s,
                        [s EXCEPT !.head = <<"branch", b>>, !.tips[b] = HistoryOf(s)])

RunDetach(s) == When(HistoryOf(s) # << >> /\ s.conf = {}, s,
                     [s EXCEPT !.head = <<"commit", HistoryOf(s)>>])

RunCheckout(s, b) ==
  LET h == IF s.tips[b] # << >> THEN s.tips[b] ELSE s.fetched[b]
  IN  When(h # << >> /\ s.conf = {} /\ Carries(s, Tree(h)), s,
           [Switch(s, <<"branch", b>>, h) EXCEPT
              !.tips[b] = h, !.up = IF s.tips[b] = << >> THEN @ \union {b} ELSE @])

RunDelete(s, b, force) ==
  When(/\ s.tips[b] # << >> /\ s.head # <<"branch", b>>
       /\ force \/ Within(s.tips[b], IF b \in s.up THEN s.fetched[b] ELSE HistoryOf(s)), s,
       [s EXCEPT !.tips[b] = << >>, !.up = @ \ {b}])

\* Back to the head, or to the commit before it; a file unknown to git stays.
RunReset(s, mode, back) ==
  LET h  == IF back THEN SubSeq(HistoryOf(s), 1, Len(HistoryOf(s)) - 1) ELSE HistoryOf(s)
      s2 == MoveHead(s, h)
  IN  When((back => Len(HistoryOf(s)) > 1) /\ (mode = "soft" => s.conf = {}), s,
           CASE mode = "soft"  -> s2
             [] mode = "mixed" -> [s2 EXCEPT !.index = Tree(h), !.conf = {}]
             [] mode = "hard"  ->
                  [s2 EXCEPT !.index = Tree(h), !.conf = {},
                             !.work = [f \in Files |->
                                         IF {Tree(h)[f], s.index[f]} = {"absent"} THEN @[f]
                                         ELSE Tree(h)[f]]])

RunUnstage(s, fs) == When(s.head[1] # "none", s,
                          [s EXCEPT !.index = [f \in Files |-> IF f \in fs THEN HeadTree(s)[f] ELSE @[f]],
                                    !.conf = Settled(s, fs)])

\* --staged restores the index, --worktree (as does neither) the files.
RunRestore(s, flags, f) ==
  LET index == IF "--staged" \in flags THEN HeadTree(s)[f] ELSE s.index[f]
      files == flags # {"--staged"}
  IN  When(/\ {s.index[f], index} # {"absent"}
           /\ files => f \notin Conflicts(s) \/ "--staged" \in flags, s,
           [s EXCEPT !.index[f] = index, !.work[f] = IF files THEN index ELSE @,
                     !.conf = IF "--staged" \in flags THEN Settled(s, {f}) ELSE @])

Fetched(s)  == [s EXCEPT !.fetched = s.theirs]
Reach(s)    == Refuse(s, "auth") \union Refuse(s, "other")     \* the remote is not reached

\* remote add [-f], of which the remote stays when the fetch fails.
RunRemoteAdd(s, url, fetch) ==
  IF s.url # "none" THEN Refuse(s, "other")
  ELSE LET s2 == [s EXCEPT !.url = url]
       IN  IF fetch THEN Did(Fetched(s2), Nothing) \union Reach(s2) ELSE Did(s2, Nothing)

\* What the branch b is pushed as; with none given, the branch the head is on.
RunPush(s, b, setUpstream) ==
  LET pushed == [s EXCEPT !.theirs[b] = s.tips[b], !.fetched[b] = s.tips[b],
                          !.up = IF setUpstream THEN @ \union {b} ELSE @]
  IN  IF s.tips[b] = << >> \/ s.url = "none" THEN Refuse(s, "other")
      ELSE Reach(s) \union When(Within(s.theirs[b], s.tips[b]), s, pushed)
           \union IF Within(s.theirs[b], s.tips[b])     \* one helper of several was refused
                  THEN {[store |-> pushed,
                         answer |-> [exit |-> 0, out |-> Nothing, says |-> "auth"]]} ELSE {}

RunPull(s, b) ==
  LET s2 == Fetched(s)
      h  == s.theirs[b]
  IN  IF s.url = "none" THEN Refuse(s, "other")
      ELSE Reach(s) \union Reach(s2) \union     \* fetched, but a local file is refused
           When(/\ h # << >> /\ s.conf = {} /\ s.head[1] \in {"branch", "commit"}
                /\ \/ Within(h, HistoryOf(s))
                   \/ Within(HistoryOf(s), h) /\ Carries(s, Tree(h)), s2,
                IF Within(h, HistoryOf(s)) THEN s2
                ELSE MoveHead(Switch(s2, s2.head, h), h))
===============================================================================
