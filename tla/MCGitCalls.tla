------------------------------ MODULE MCGitCalls ------------------------------
(* GitCalls on repositories in each of the states it tells apart.          *)
EXTENDS GitCalls

First  == [by |-> "us", tree |-> [f \in Files |-> IF f = "f" THEN "x" ELSE "absent"]]
Second == [by |-> "them", tree |-> [f \in Files |-> "x"]]
Ours   == [by |-> "us", tree |-> [f \in Files |-> "y"]]

Clean == [NoRepository EXCEPT !.head = <<"branch", "main">>, !.tips["main"] = <<First>>,
                              !.index = First.tree, !.work = First.tree]
Cloned == [Clean EXCEPT !.up = {"main"}, !.url = "u1", !.fetched["main"] = <<First>>,
                        !.theirs["main"] = <<First>>]
Diverged == [Cloned EXCEPT !.theirs["main"] = <<First, Second>>,
                           !.fetched["main"] = <<First, Second>>,
                           !.tips["main"] = <<First, Ours>>,
                           !.index = Ours.tree, !.work = Ours.tree]

\* A file deleted and another there; a change staged on a detached head; conflicts of two kinds.
MCStarts ==
  {NoRepository, [Diverged EXCEPT !.conf = {<<"g", "A">>}],
   [Cloned EXCEPT !.work = [f \in Files |-> IF f = "f" THEN "absent" ELSE "x"]],
   [Cloned EXCEPT !.theirs["main"] = <<First, Second>>],
   [Clean EXCEPT !.head = <<"commit", <<First>>>>, !.work["f"] = "y", !.index["f"] = "y"],
   [Clean EXCEPT !.work["f"] = "y", !.conf = {<<"f", "U">>}]}

Config(key, value, scope, path) == [key |-> key, value |-> value, scope |-> scope, path |-> path]

\* What is asked of any repository, of one whose files differ from its head, of one with
\* commits, and of one that is whole; elsewhere these calls fail or change nothing.
Anytime ==
  {Ask("status", "none"), Ask("branches", "none"), Ask("init", "none"), Ask("remote_get", "none"),
   Ask("add", {}), Ask("dangerously_authenticate", "alice"), Ask("dangerously_authenticate", ""),
   Ask("set_config", Config("user.name", "n", "local", TRUE)),
   Ask("configure_user", Config("n", "e", "global", FALSE)),
   Ask("get_config", Config("user.name", "n", "local", TRUE)),
   Ask("restore", [staged |-> "yes", worktree |-> "yes", file |-> "none"]),
   Ask("remote_add", [url |-> "", fetch |-> FALSE, overwrite |-> FALSE])}
Changed ==
  {Ask("reset", [mode |-> "mixed", back |-> FALSE, paths |-> {"f"}])}
  \union {Ask("reset", [mode |-> m, back |-> m # "mixed", paths |-> {}]) :
            m \in {"soft", "mixed", "hard"}}
  \union {Ask("commit", [empty |-> FALSE, author |-> FALSE])}
  \union {Ask("restore", [staged |-> x, worktree |-> y, file |-> "f"]) :
            x, y \in {"unset", "yes", "no"}}
Committed ==
  {Ask("create_branch", "HEAD-fix"), Ask("commit", [empty |-> TRUE, author |-> TRUE])}
  \union {Ask("checkout_branch", b) : b \in Branches \union {"commit"}}
  \union {Ask("delete_branch", [branch |-> "main", force |-> x]) : x \in BOOLEAN}
  \union {Ask("pull", [remote |-> b # "none", branch |-> b]) : b \in {"main", "none"}}
  \union {Ask("pull", [remote |-> TRUE, branch |-> "none"])}
  \union {Ask("push", [remote |-> x, branch |-> b, set_upstream |-> (x <=> b = "main")]) :
            x \in BOOLEAN, b \in {"main", "none"}}
Whole == {Ask("remote_add", [url |-> "u2", fetch |-> x, overwrite |-> y]) : x, y \in BOOLEAN}

MCAsks(s) == Anytime \union (IF s.work # HeadTree(s) \/ s.conf # {} THEN Changed ELSE {})
             \union (IF HistoryOf(s) # << >> THEN Committed ELSE {})
             \union (IF s.conf = {} THEN Whole ELSE {})

\* A process writes the first file.
MCDrift(s) == IF s.work = NoFiles THEN {[s EXCEPT !.work["f"] = "y"]} ELSE {}
===============================================================================
