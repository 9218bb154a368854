--------------------------------- MODULE Tree ---------------------------------
(***************************************************************************)
(* A tree of files and directories, as a server keeps one: the files of a  *)
(* sandbox, and the content of a volume.  It is outside the SDK.           *)
(*                                                                         *)
(* A path is the sequence of its names; << >> is the root.  A tree gives   *)
(* every path of Paths an entry: "absent", "dir", "odd" (neither a file    *)
(* nor a directory), or the data of a file.                                *)
(***************************************************************************)
EXTENDS Integers, Sequences

CONSTANTS Paths,  \* the paths that calls name, with all their ancestors
          Data    \* what a file may hold: strings

\* What paths are made of.
Segments == UNION {{p[n] : n \in DOMAIN p} : p \in Paths}

ASSUME TreeAssumption ==
         /\ Paths \subseteq Seq(Segments)
         /\ \A p \in Paths : p # << >> /\ \A n \in 1..Len(p) : SubSeq(p, 1, n) \in Paths
         /\ {"absent", "dir", "odd"} \intersect Data = {}

Entries == {"absent", "dir", "odd"} \union Data
Trees   == [Paths -> Entries]

Entry(t, p)   == IF p = << >> THEN "dir" ELSE t[p]
Here(t, p)    == Entry(t, p) # "absent"
Parent(p)     == SubSeq(p, 1, Len(p) - 1)
Inside(p, q)  == Len(p) < Len(q) /\ SubSeq(q, 1, Len(p)) = p
From(p)       == {q \in Paths : q = p \/ Inside(p, q)}

\* No ancestor is anything but a directory, or missing.
Reachable(t, p) == \A q \in Paths : Inside(q, p) => t[q] \in {"absent", "dir"}

\* p becomes e, its missing ancestors directories.
Placed(t, p, e) == [q \in Paths |-> IF q = p THEN e
                                    ELSE IF Inside(q, p) THEN "dir" ELSE t[q]]

Removed(t, p) == [q \in Paths |-> IF q \in From(p) THEN "absent" ELSE t[q]]

\* What is at p and below comes to q, and nothing stays behind.
Moved(t, p, q) ==
  [x \in Paths |->
     IF x \in From(q)
     THEN LET y == p \o SubSeq(x, Len(q) + 1, Len(x))
          IN  IF y \in Paths THEN t[y] ELSE "absent"
     ELSE IF x \in From(p) THEN "absent" ELSE t[x]]

MayMove(t, p, q) == /\ p # q /\ ~ Inside(p, q)
                    /\ Entry(t, Parent(q)) = "dir"
                    /\ t[q] = "absent" \/ (t[p] \notin {"dir", "absent"} /\ t[q] # "dir")

\* The entries below a directory, down to a depth.
Below(t, p, depth) ==
  {<<q, t[q]>> : q \in {x \in Paths : Inside(p, x) /\ Len(x) <= Len(p) + depth
                                       /\ t[x] # "absent"}}

WellFormed(t) == \A p \in Paths : t[p] # "absent" => Entry(t, Parent(p)) = "dir"
===============================================================================
