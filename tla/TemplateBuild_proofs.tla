------------------------ MODULE TemplateBuild_proofs ------------------------
(***************************************************************************)
(* Proofs about TemplateBuild: what the builder chain makes of a template, *)
(* Dockerfiles included, for every chain; and what a build puts into the   *)
(* store and into its body, for any number of builds, sources and edits.   *)
(***************************************************************************)
EXTENDS TemplateBuild, WellFoundedInduction, TLAPS

(* Induction over a bounded interval, from the well-foundedness of <.      *)

LEMMA LeastExists ==
  ASSUME NEW T, T \subseteq Nat, T # {}
  PROVE  \E x \in T : \A y \in T : x <= y
<1> DEFINE Less == OpToRel(<, Nat)
<1>1. IsWellFoundedOn(Less, Nat)
  BY NatLessThanWellFounded
<1>2. \A x, y \in Nat : y < x => <<y, x>> \in Less
  BY DEF OpToRel
<1> HIDE DEF Less
<1>3. PICK x \in T : \A y \in T : ~ (<<y, x>> \in Less)
  BY <1>1, WFMin
<1>4. \A y \in T : ~ (y < x)
  BY <1>2, <1>3
<1> QED BY <1>4

LEMMA InductionOnSet ==
  ASSUME NEW S, NEW m \in Nat, 0 \in S,
         \A n \in 0..m : n \in S /\ n < m => n + 1 \in S
  PROVE  \A n \in 0..m : n \in S
<1> SUFFICES ASSUME NEW k \in 0..m, k \notin S PROVE FALSE
  OBVIOUS
<1>1. PICK x \in 0..m \ S : \A y \in 0..m \ S : x <= y
  <2>1. 0..m \ S \subseteq Nat /\ 0..m \ S # {}
    OBVIOUS
  <2> QED BY <2>1, LeastExists
<1>2. x - 1 \in 0..m /\ x - 1 \in S
  BY <1>1
<1> QED BY <1>1, <1>2

\* A function that takes a step from each number to the next.
Chain(u, m, X, x, step) == /\ u \in [0..m -> X] /\ u[0] = x
                           /\ \A n \in 1..m : u[n] = step[<<n, u[n - 1]>>]

LEMMA RecursionExists ==
  ASSUME NEW m \in Nat, NEW X, NEW x \in X, NEW step \in [(1..m) \X X -> X]
  PROVE  \E u : Chain(u, m, X, x, step)
<1> DEFINE Upto(n, u) == Chain(u, n, X, x, step)
           S == {n \in 0..m : \E u : Upto(n, u)}
<1>1. 0 \in S
  <2>1. Upto(0, [n \in 0..0 |-> x])
    BY DEF Chain
  <2> HIDE DEF Upto
  <2> QED BY <2>1
<1>2. ASSUME NEW n \in 0..m, n \in S, n < m PROVE n + 1 \in S
  <2>1. PICK u : Upto(n, u)
    BY <1>2
  <2>0. /\ u \in [0..n -> X] /\ u[0] = x
        /\ \A j \in 1..n : u[j] = step[<<j, u[j - 1]>>]
    BY <2>1 DEF Chain
  <2> DEFINE next == step[<<n + 1, u[n]>>]
             v == [j \in 0..n + 1 |-> IF j = n + 1 THEN next ELSE u[j]]
  <2>2. next \in X
    <3>1. n + 1 \in 1..m /\ u[n] \in X
      BY <1>2, <2>0
    <3> QED BY <3>1
  <2> HIDE DEF next
  <2>3. v[n + 1] = next /\ \A j \in 0..n : v[j] = u[j]
    BY <1>2
  <2>4. v \in [0..n + 1 -> X] /\ v[0] = x
    BY <1>2, <2>0, <2>2
  <2> HIDE DEF v
  <2>5. ASSUME NEW j \in 1..n + 1 PROVE v[j] = step[<<j, v[j - 1]>>]
    <3>1. CASE j = n + 1
      <4>1. j - 1 = n /\ n \in 0..n
        BY <3>1
      <4> QED BY <2>3, <3>1, <4>1 DEF next
    <3>2. CASE j # n + 1
      <4>1. j \in 1..n /\ j \in 0..n /\ j - 1 \in 0..n
        BY <3>2, <1>2
      <4> QED BY <2>0, <2>3, <4>1
    <3> QED BY <3>1, <3>2
  <2>6. Upto(n + 1, v)
    BY <2>4, <2>5 DEF Chain
  <2> HIDE DEF Upto
  <2>7. n + 1 \in 0..m
    BY <1>2
  <2> QED BY <2>6, <2>7
<1>3. \A n \in 0..m : n \in S
  <2> HIDE DEF S
  <2> QED BY <1>1, <1>2, InductionOnSet
<1> QED BY <1>3

-----------------------------------------------------------------------------
(* Sequences.                                                              *)

LEMMA Joined ==
  ASSUME NEW S, NEW a \in Seq(S), NEW b \in Seq(S)
  PROVE  /\ a \o b \in Seq(S) /\ Len(a \o b) = Len(a) + Len(b)
         /\ \A i \in DOMAIN a : i \in DOMAIN (a \o b) /\ (a \o b)[i] = a[i]
         /\ \A i \in DOMAIN b : /\ Len(a) + i \in DOMAIN (a \o b)
                                /\ (a \o b)[Len(a) + i] = b[i]
         /\ \A i \in DOMAIN (a \o b) :
              i \in DOMAIN a \/ (i - Len(a) \in DOMAIN b /\ (a \o b)[i] = b[i - Len(a)])
OBVIOUS

LEMMA Appended ==
  ASSUME NEW S, NEW s \in Seq(S), NEW x \in S
  PROVE  /\ Append(s, x) \in Seq(S) /\ Len(Append(s, x)) = Len(s) + 1
         /\ Append(s, x)[Len(s) + 1] = x
         /\ \A i \in DOMAIN s : i \in DOMAIN Append(s, x) /\ Append(s, x)[i] = s[i]
         /\ \A i \in DOMAIN Append(s, x) : i \in DOMAIN s \/ i = Len(s) + 1
OBVIOUS

LEMMA RangeAppended ==
  ASSUME NEW S, NEW s \in Seq(S), NEW x \in S
  PROVE  Range(Append(s, x)) = Range(s) \union {x}
<1> DEFINE t == Append(s, x)
<1>1. /\ DOMAIN t = 1..Len(s) + 1 /\ DOMAIN s = 1..Len(s) /\ Len(s) \in Nat
      /\ t[Len(s) + 1] = x /\ \A i \in 1..Len(s) : t[i] = s[i]
  OBVIOUS
<1> HIDE DEF t
<1> QED BY <1>1 DEF Range, t

LEMMA Extended ==
  ASSUME NEW a \in Seq(Nat), NEW b \in Seq(Nat)
  PROVE  /\ a \o b \in Seq(Nat) /\ Len(a \o b) = Len(a) + Len(b)
         /\ \A k \in 1..Len(a) : (a \o b)[k] = a[k]
         /\ \A k \in 1..Len(b) : (a \o b)[Len(a) + k] = b[k]
OBVIOUS

\* The last of the calls, after one more.
LEMMA LatestAppended ==
  ASSUME NEW S, NEW s \in Seq(S), NEW x \in S, NEW names, NEW these,
         these \subseteq names
  PROVE  Latest(Append(s, x), names, these)
           <=> IF x \in names THEN x \in these ELSE Latest(s, names, these)
<1> DEFINE t == Append(s, x)
<1>1. /\ DOMAIN t = 1..Len(s) + 1 /\ DOMAIN s = 1..Len(s) /\ Len(s) \in Nat
      /\ t[Len(s) + 1] = x /\ \A i \in 1..Len(s) : t[i] = s[i]
  OBVIOUS
<1> HIDE DEF t
<1>2. CASE x \in these
  BY <1>1, <1>2 DEF Latest, t
<1>3. CASE x \in names \ these
  BY <1>1, <1>3 DEF Latest, t
<1>4. CASE x \notin names
  <2>1. ASSUME Latest(s, names, these) PROVE Latest(t, names, these)
    BY <1>1, <1>4, <2>1 DEF Latest
  <2>2. ASSUME Latest(t, names, these) PROVE Latest(s, names, these)
    <3>1. PICK k \in DOMAIN t : /\ t[k] \in these
                                /\ \A l \in DOMAIN t : l > k => t[l] \notin names
      BY <2>2 DEF Latest
    <3>2. k \in 1..Len(s)
      BY <1>1, <1>4, <3>1
    <3> QED BY <1>1, <3>1, <3>2 DEF Latest
  <2> QED BY <1>4, <2>1, <2>2 DEF t
<1> QED BY <1>2, <1>3, <1>4

-----------------------------------------------------------------------------
(* The builder chain keeps its shape.                                      *)

Orders == [template : Templates, skip : BOOLEAN, said : Seq(Names), pusher : Seq(Nat)]

\* A template and what its calls said, in the chain and in an order.
ChainTypeOK == /\ template \in Templates /\ said \in Seq(Names) /\ pusher \in Seq(Nat)
               /\ spent \in 0..Effort
Agreed(o) == Meant(o.template, o.said, o.pusher)

LEMMA WordsAre == Words \subseteq Texts
BY TemplateBuildAssumption

\* A step of its own, or several, at the end of a template.
LEMMA StepsAdded ==
  ASSUME NEW t \in Templates, NEW more \in Seq(Instructions)
  PROVE  [t EXCEPT !.steps = @ \o more] \in Templates
<1>1. t.steps \in Seq(Instructions)
  BY DEF Templates
<1>2. t.steps \o more \in Seq(Instructions)
  BY <1>1, Joined
<1> HIDE DEF Instructions
<1> QED BY <1>2 DEF Templates

LEMMA Pushed ==
  ASSUME NEW t \in Templates, NEW i \in Instructions
  PROVE  /\ Push(t, i) \in Templates
         /\ Push(t, i) = [t EXCEPT !.steps = @ \o <<i>>]
<1>1. t.steps \in Seq(Instructions)
  BY DEF Templates
<1>2. Append(t.steps, i) \in Seq(Instructions) /\ Append(t.steps, i) = t.steps \o <<i>>
  BY <1>1
<1> QED BY <1>2 DEF Push, Templates

LEMMA Instructed ==
  ASSUME NEW force \in BOOLEAN, NEW args \in Seq(Texts)
  PROVE  /\ \A type \in {"RUN", "WORKDIR", "USER", "ENV"} :
              Instruction(type, args, force, FALSE) \in Instructions
         /\ \A upload \in BOOLEAN : Len(args) = 2 /\ args[1] \in Sources =>
              Instruction("COPY", args, force, upload) \in Instructions
BY DEF Instruction, Instructions

LEMMA Arguments ==
  ASSUME NEW a \in Texts, NEW b \in Texts
  PROVE  <<a>> \in Seq(Texts) /\ <<a, b>> \in Seq(Texts)
OBVIOUS

-----------------------------------------------------------------------------
(* Dockerfiles, read line by line.                                         *)

Actions ==
  {a \in [type : {"SetUser", "SetWorkdir", "Copy", "RunCmd", "SetEnvs", "SetStartCmd"},
          args : Seq(Texts)] :
     /\ a.type = "Copy" => Len(a.args) = 2 /\ a.args[1] \in Sources
     /\ a.type = "SetStartCmd" => a.args # << >>}

\* The lines a Dockerfile may have.
Lines == {l \in [kw : Texts, args : Seq(Texts \ {None})] :
            l.kw \in {"COPY", "ADD"} =>
              \A k \in 1..(Len(l.args) - 1) : l.args[k] \in Sources}

LEMMA Acted ==
  ASSUME NEW args \in Seq(Texts)
  PROVE  /\ \A type \in {"SetUser", "SetWorkdir", "RunCmd", "SetEnvs"} :
              Action(type, args) \in Actions
         /\ Len(args) = 2 /\ args[1] \in Sources => Action("Copy", args) \in Actions
         /\ args # << >> => Action("SetStartCmd", args) \in Actions
BY DEF Action, Actions

LEMMA One == ASSUME NEW S, NEW x \in S PROVE <<x>> \in Seq(S)
OBVIOUS

LEMMA ActionsOfLine == ASSUME NEW l \in Lines PROVE ActionsOf(l) \in Seq(Actions)
<1>1. /\ l.args \in Seq(Texts \ {None})
      /\ l.kw \in {"COPY", "ADD"} =>
           \A k \in 1..(Len(l.args) - 1) : l.args[k] \in Sources
  BY DEF Lines
<1> DEFINE args == l.args
<1>2. args \in Seq(Texts) /\ Len(args) \in Nat
  BY <1>1
<1>3. << >> \in Seq(Actions)
  OBVIOUS
<1>6. Envs(l) \in {<< >>, args}
  BY DEF Envs
<1>4. CASE l.kw \in {"COPY", "ADD"} /\ Len(args) > 1
  <2> DEFINE copies == [k \in 1..(Len(args) - 1) |->
                          Action("Copy", <<args[k], args[Len(args)]>>)]
  <2>1. ASSUME NEW k \in 1..(Len(args) - 1)
        PROVE  Action("Copy", <<args[k], args[Len(args)]>>) \in Actions
    <3>1. args[k] \in Texts /\ args[Len(args)] \in Texts /\ args[k] \in Sources
      BY <1>1, <1>2, <1>4
    <3> DEFINE pair == <<args[k], args[Len(args)]>>
    <3>2. pair \in Seq(Texts) /\ Len(pair) = 2 /\ pair[1] = args[k]
      BY <3>1, Arguments
    <3> HIDE DEF pair
    <3>3. Action("Copy", pair) \in Actions
      BY <3>1, <3>2, Acted
    <3> QED BY <3>3 DEF pair
  <2>2. Len(args) - 1 \in Nat
    BY <1>2, <1>4
  <2> HIDE DEF args
  <2>3. copies \in Seq(Actions)
    <3> DEFINE A(k) == Action("Copy", <<args[k], args[Len(args)]>>)
    <3> HIDE DEF A
    <3>1. \A k \in 1..(Len(args) - 1) : A(k) \in Actions
      BY <2>1 DEF A
    <3>2. [k \in 1..(Len(args) - 1) |-> A(k)] \in Seq(Actions)
      BY <2>2, <3>1
    <3> QED BY <3>2 DEF A
  <2>4. ActionsOf(l) = copies
    BY <1>4 DEF ActionsOf, args
  <2> QED BY <2>3, <2>4
<1>5. CASE ~ (l.kw \in {"COPY", "ADD"} /\ Len(args) > 1)
  <2>1. CASE args = << >>
    <3>1. ActionsOf(l) = << >>
      <4>1. Envs(l) = << >>
        BY <1>6, <2>1
      <4> QED BY <1>5, <2>1, <4>1 DEF ActionsOf
    <3> QED BY <1>3, <3>1
  <2>2. CASE args # << >>
    <3>1. Head(args) \in Texts
      BY <1>2, <2>2
    <3>2. <<Head(args)>> \in Seq(Texts)
      BY <3>1, One
    <3>3. /\ Action("RunCmd", args) \in Actions /\ Action("SetEnvs", args) \in Actions
          /\ Action("SetStartCmd", args) \in Actions
          /\ Action("SetWorkdir", <<Head(args)>>) \in Actions
          /\ Action("SetUser", <<Head(args)>>) \in Actions
      BY <1>2, <2>2, <3>2, Acted
    <3>4. ActionsOf(l) \in {<<Action("RunCmd", args)>>, <<Action("SetEnvs", args)>>,
                            <<Action("SetStartCmd", args)>>,
                            <<Action("SetWorkdir", <<Head(args)>>)>>,
                            <<Action("SetUser", <<Head(args)>>)>>, << >>}
      <4> DEFINE run == <<Action("RunCmd", args)>>
                 envs == <<Action("SetEnvs", args)>>
                 start == <<Action("SetStartCmd", args)>>
                 dir == <<Action("SetWorkdir", <<Head(args)>>)>>
                 user == <<Action("SetUser", <<Head(args)>>)>>
      <4>1. ActionsOf(l) = CASE l.kw = "RUN" -> run
                             [] l.kw = "WORKDIR" -> dir
                             [] l.kw = "USER" -> user
                             [] l.kw \in {"ENV", "ARG"} /\ Envs(l) # << >> -> envs
                             [] l.kw \in {"CMD", "ENTRYPOINT"} -> start
                             [] OTHER -> << >>
        <5>1. Envs(l) # << >> => Envs(l) = args
          BY <1>6
        <5> QED BY <1>5, <2>2, <5>1 DEF ActionsOf
      <4> HIDE DEF run, envs, start, dir, user
      <4>2. ActionsOf(l) \in {run, envs, start, dir, user, << >>}
        BY <4>1
      <4> QED BY <4>2 DEF run, envs, start, dir, user
    <3> QED BY <1>3, <3>3, <3>4, One
  <2> QED BY <2>1, <2>2
<1> QED BY <1>4, <1>5

LEMMA ActionsOfLines == ASSUME NEW file \in Seq(Lines) PROVE LineActions(file) \in Seq(Actions)
<1> DEFINE m == Len(file)
           X == Seq(Actions)
           F(u) == [n \in 0..m |-> IF n = 0 THEN << >> ELSE u[n - 1] \o ActionsOf(file[n])]
           c == CHOOSE u : u = F(u)
           step == [p \in (1..m) \X X |-> p[2] \o ActionsOf(file[p[1]])]
<1>1. m \in Nat /\ << >> \in X
  OBVIOUS
<1>2. \A n \in 1..m : ActionsOf(file[n]) \in X
  BY ActionsOfLine
<1>3. \A a, b \in X : a \o b \in X
  BY Joined
<1> HIDE DEF m, X
<1>4. step \in [(1..m) \X X -> X]
  BY <1>2, <1>3
<1>5. \A n \in 1..m, a \in X : step[<<n, a>>] = a \o ActionsOf(file[n])
  OBVIOUS
<1> HIDE DEF step
<1>6. PICK u : Chain(u, m, X, << >>, step)
  BY <1>1, <1>4, RecursionExists
<1>7. ASSUME NEW n \in 1..m PROVE u[n] = u[n - 1] \o ActionsOf(file[n])
  <2>1. n - 1 \in 0..m
    BY <1>1
  <2> QED BY <1>5, <1>6, <2>1 DEF Chain
<1>8. u = F(u)
  <2>1. ASSUME NEW n \in 0..m
        PROVE  u[n] = IF n = 0 THEN << >> ELSE u[n - 1] \o ActionsOf(file[n])
    <3>1. CASE n = 0
      BY <1>6, <3>1 DEF Chain
    <3>2. CASE n # 0
      <4>1. n \in 1..m
        BY <1>1, <3>2
      <4> QED BY <1>7, <3>2, <4>1
    <3> QED BY <3>1, <3>2
  <2>2. u \in [0..m -> X]
    BY <1>6 DEF Chain
  <2> QED BY <2>1, <2>2
<1>9. c = F(c)
  BY <1>8
<1> HIDE DEF c
<1>10. c[0] = << >> /\ \A n \in 1..m : c[n] = c[n - 1] \o ActionsOf(file[n])
  BY <1>1, <1>9
<1> DEFINE S == {n \in 0..m : c[n] \in X}
<1>11. \A n \in 0..m : n \in S
  <2>1. 0 \in S
    BY <1>1, <1>10
  <2>2. ASSUME NEW n \in 0..m, n \in S, n < m PROVE n + 1 \in S
    <3>1. n + 1 \in 1..m /\ n + 1 \in 0..m /\ (n + 1) - 1 = n
      BY <1>1, <2>2
    <3>2. c[n + 1] = c[n] \o ActionsOf(file[n + 1])
      BY <1>10, <3>1
    <3> QED BY <1>2, <1>3, <2>2, <3>1, <3>2
  <2> HIDE DEF S
  <2> QED BY <1>1, <2>1, <2>2, InductionOnSet
<1>12. m \in 0..m
  BY <1>1
<1> QED BY <1>11, <1>12 DEF LineActions, c, m, X

\* The Docker defaults and the E2B defaults are actions too.
LEMMA ActionsOfFile ==
  ASSUME NEW file \in Seq(Lines)
  PROVE  ParsedActions(file) \in Seq(Actions)
<1> DEFINE lines == LineActions(file)
           first == <<Action("SetUser", <<"root">>), Action("SetWorkdir", <<"/">>)>>
           user == <<Action("SetUser", <<"user">>)>>
           dir == <<Action("SetWorkdir", <<"/home/user">>)>>
           Sets(type) == \E k \in DOMAIN lines : lines[k].type = type
           atUser == IF Sets("SetUser") THEN << >> ELSE user
           atDir == IF Sets("SetWorkdir") THEN << >> ELSE dir
<1>1. /\ <<"root">> \in Seq(Texts) /\ <<"/">> \in Seq(Texts)
      /\ <<"user">> \in Seq(Texts) /\ <<"/home/user">> \in Seq(Texts)
  BY WordsAre, One DEF Words
<1>2. /\ Action("SetUser", <<"root">>) \in Actions
      /\ Action("SetWorkdir", <<"/">>) \in Actions
      /\ Action("SetUser", <<"user">>) \in Actions
      /\ Action("SetWorkdir", <<"/home/user">>) \in Actions
  BY <1>1, Acted
<1>3. first \in Seq(Actions) /\ user \in Seq(Actions) /\ dir \in Seq(Actions)
  BY <1>2
<1>4. lines \in Seq(Actions) /\ << >> \in Seq(Actions)
  BY ActionsOfLines
<1> HIDE DEF first, user, dir, lines
<1>5. atUser \in Seq(Actions) /\ atDir \in Seq(Actions)
  BY <1>3, <1>4
<1>6. ParsedActions(file) = first \o lines \o atUser \o atDir
  BY DEF ParsedActions, first, lines, user, dir
<1> HIDE DEF atUser, atDir
<1> QED BY <1>3, <1>4, <1>5, <1>6, Joined

\* A template grows by steps that are forced by themselves, or for a cause.
Grows(t, u, cause) ==
  /\ Len(t.steps) =< Len(u.steps)
  /\ \A k \in DOMAIN t.steps : k \in DOMAIN u.steps /\ u.steps[k] = t.steps[k]
  /\ \A k \in DOMAIN u.steps \ DOMAIN t.steps :
       u.steps[k].force <=> u.steps[k].upload \/ cause

LEMMA SameGrows ==
  ASSUME NEW t \in Templates, NEW u, u.steps = t.steps, NEW cause PROVE Grows(t, u, cause)
<1>1. Len(t.steps) \in Nat
  BY DEF Templates
<1> QED BY <1>1 DEF Grows

LEMMA GrowsOn ==
  ASSUME NEW t \in Templates, NEW u \in Templates, NEW v \in Templates, NEW cause,
         Grows(t, u, cause), Grows(u, v, cause)
  PROVE  Grows(t, v, cause)
<1>1. Len(t.steps) \in Nat /\ Len(u.steps) \in Nat /\ Len(v.steps) \in Nat
  BY DEF Templates
<1>2. \A k \in DOMAIN v.steps \ DOMAIN t.steps :
        v.steps[k].force <=> v.steps[k].upload \/ cause
  BY DEF Grows
<1> QED BY <1>1, <1>2 DEF Grows

\* What an action does to a template: it may add a step that is not forced, or set
\* the command to start.
LEMMA ActionApplied ==
  ASSUME NEW t \in Templates, NEW a \in Actions
  PROVE  LET u == ApplyAction(t, a)
         IN  /\ u \in Templates /\ u.image = t.image /\ u.base = t.base
             /\ u.registry = t.registry /\ u.force = t.force
             /\ Grows(t, u, FALSE)
<1>1. a.args \in Seq(Texts) /\ (a.type = "Copy" => Len(a.args) = 2 /\ a.args[1] \in Sources)
      /\ (a.type = "SetStartCmd" => a.args # << >>)
      /\ a.type \in {"SetUser", "SetWorkdir", "Copy", "RunCmd", "SetEnvs", "SetStartCmd"}
  BY DEF Actions
<1>2. t.steps \in Seq(Instructions)
  BY DEF Templates
<1>3. CASE a.type = "SetStartCmd"
  <2>1. Head(a.args) \in Texts /\ "sleep 20" \in Texts
    <3>1. \A s \in Seq(Texts) : s # << >> => Head(s) \in Texts
      OBVIOUS
    <3>2. "sleep 20" \in Texts
      BY WordsAre DEF Words
    <3> QED BY <1>1, <1>3, <3>1, <3>2
  <2>2. ApplyAction(t, a) = SetStartCmd(t, Head(a.args), "sleep 20")
    BY <1>3 DEF ApplyAction
  <2>3. ApplyAction(t, a).steps = t.steps
    BY <2>2 DEF SetStartCmd, Templates
  <2>4. Grows(t, ApplyAction(t, a), FALSE)
    BY <2>3, SameGrows
  <2> HIDE DEF Grows
  <2> QED BY <2>1, <2>2, <2>4 DEF SetStartCmd, Templates
<1>4. CASE a.type # "SetStartCmd"
  <2>1. \E type \in {"COPY", "RUN", "WORKDIR", "USER", "ENV"} :
          /\ type = "COPY" => a.type = "Copy"
          /\ ApplyAction(t, a) = Push(t, Instruction(type, a.args, FALSE, FALSE))
    BY <1>1, <1>4 DEF ApplyAction
  <2>2. PICK i \in Instructions : /\ ~ i.force /\ ~ i.upload
                                 /\ ApplyAction(t, a) = Push(t, i)
    <3>1. PICK type \in {"COPY", "RUN", "WORKDIR", "USER", "ENV"} :
            /\ type = "COPY" => a.type = "Copy"
            /\ ApplyAction(t, a) = Push(t, Instruction(type, a.args, FALSE, FALSE))
      BY <2>1
    <3>2. Instruction(type, a.args, FALSE, FALSE) \in Instructions
      BY <1>1, <3>1, Instructed
    <3>3. /\ ~ Instruction(type, a.args, FALSE, FALSE).force
          /\ ~ Instruction(type, a.args, FALSE, FALSE).upload
      BY DEF Instruction
    <3> QED BY <3>1, <3>2, <3>3
  <2>3. Push(t, i) \in Templates
    BY Pushed
  <2>4. Push(t, i) = [t EXCEPT !.steps = Append(@, i)]
    BY DEF Push
  <2>5. /\ Push(t, i).image = t.image /\ Push(t, i).base = t.base
        /\ Push(t, i).registry = t.registry /\ Push(t, i).force = t.force
        /\ Push(t, i).steps = Append(t.steps, i)
    BY <2>4 DEF Templates
  <2>6. Grows(t, Push(t, i), FALSE)
    <3> DEFINE more == Append(t.steps, i)
    <3> HIDE DEF Instructions
    <3>1. /\ Len(more) = Len(t.steps) + 1 /\ more[Len(t.steps) + 1] = i
          /\ \A k \in DOMAIN t.steps : k \in DOMAIN more /\ more[k] = t.steps[k]
          /\ \A k \in DOMAIN more : k \in DOMAIN t.steps \/ k = Len(t.steps) + 1
      BY <1>2, Appended
    <3>2. Len(t.steps) \in Nat
      BY <1>2
    <3>3. Push(t, i).steps = more
      BY <2>5
    <3> HIDE DEF more
    <3> QED BY <2>2, <3>1, <3>2, <3>3 DEF Grows
  <2> QED BY <2>2, <2>3, <2>5, <2>6
<1> QED BY <1>3, <1>4

\* from_dockerfile keeps the registry and force, and brings no forced step.
LEMMA DockerfileRead ==
  ASSUME NEW t \in Templates, NEW file \in Seq(Lines), Parses(file)
  PROVE  LET u == FromDockerfile(t, file)
         IN  /\ u \in Templates /\ u.image # None /\ u.base = None
             /\ u.registry = t.registry /\ u.force = t.force
             /\ Grows(t, u, FALSE)
<1> DEFINE actions == ParsedActions(file)
           m == Len(actions)
           start == FromImage(t, ParsedImage(file))
           F(u) == [n \in 0..m |-> IF n = 0 THEN start
                                   ELSE ApplyAction(u[n - 1], actions[n])]
           c == CHOOSE u : u = F(u)
           step == [p \in (1..m) \X Templates |-> ApplyAction(p[2], actions[p[1]])]
<1>1. actions \in Seq(Actions)
  BY ActionsOfFile
<1> HIDE DEF actions
<1>2. m \in Nat /\ \A n \in 1..m : actions[n] \in Actions
  BY <1>1
<1>3. ParsedImage(file) \in Texts \ {None}
  <2>1. PICK k \in DOMAIN file : FromLines(file) = {k}
    BY DEF Parses
  <2> DEFINE it == CHOOSE n \in FromLines(file) : TRUE
  <2>2. it = k
    BY <2>1
  <2>3. file[k].args \in Seq(Texts \ {None})
    BY <2>1 DEF Lines
  <2>4. \A s \in Seq(Texts \ {None}) : s # << >> => Head(s) \in Texts \ {None}
    OBVIOUS
  <2>5. "e2bdev/base" \in Texts \ {None}
    BY WordsAre DEF Words, None
  <2>6. ParsedImage(file) = IF file[k].args = << >> THEN "e2bdev/base"
                            ELSE Head(file[k].args)
    <3>1. ParsedImage(file) = IF file[it].args = << >> THEN "e2bdev/base"
                              ELSE Head(file[it].args)
      BY DEF ParsedImage
    <3> HIDE DEF it
    <3> QED BY <2>2, <3>1
  <2> QED BY <2>3, <2>4, <2>5, <2>6
<1>4. /\ start \in Templates /\ start.image # None /\ start.base = None
      /\ start.registry = t.registry /\ start.force = t.force /\ start.steps = t.steps
  <2>1. None \in Texts
    BY WordsAre DEF Words
  <2> HIDE DEF None
  <2> QED BY <1>3, <2>1 DEF FromImage, Templates
<1>0. Grows(t, start, FALSE)
  BY <1>4, SameGrows
<1> HIDE DEF start, m
<1> DEFINE Good(u) ==
             /\ u \in Templates /\ u.image # None /\ u.base = None
             /\ u.registry = t.registry /\ u.force = t.force
             /\ Grows(t, u, FALSE)
<1>5. \A u \in Templates, n \in 1..m : ApplyAction(u, actions[n]) \in Templates
  BY <1>2, ActionApplied
<1>6. ASSUME NEW u, Good(u), NEW n \in 1..m PROVE Good(ApplyAction(u, actions[n]))
  <2> DEFINE a == actions[n]
             v == ApplyAction(u, a)
  <2>1. a \in Actions
    BY <1>2
  <2> HIDE DEF a
  <2>2. /\ v \in Templates /\ v.image = u.image /\ v.base = u.base
        /\ v.registry = u.registry /\ v.force = u.force /\ Grows(u, v, FALSE)
    BY <1>6, <2>1, ActionApplied
  <2> HIDE DEF v
  <2>4. Grows(t, v, FALSE)
    BY <1>6, <2>2, GrowsOn
  <2>3. Good(v)
    <3> HIDE DEF Grows
    <3> QED BY <1>6, <2>2, <2>4
  <2> QED BY <2>3 DEF v, a
<1>7. step \in [(1..m) \X Templates -> Templates]
  BY <1>5
<1>8. \A n \in 1..m, u \in Templates : step[<<n, u>>] = ApplyAction(u, actions[n])
  OBVIOUS
<1> HIDE DEF step
<1>9. PICK u : Chain(u, m, Templates, start, step)
  BY <1>2, <1>4, <1>7, RecursionExists
<1>10. ASSUME NEW n \in 1..m PROVE u[n] = ApplyAction(u[n - 1], actions[n])
  <2>1. n - 1 \in 0..m
    BY <1>2
  <2> QED BY <1>8, <1>9, <2>1 DEF Chain
<1>11. u = F(u)
  <2>1. ASSUME NEW n \in 0..m
        PROVE  u[n] = IF n = 0 THEN start ELSE ApplyAction(u[n - 1], actions[n])
    <3>1. CASE n = 0
      BY <1>9, <3>1 DEF Chain
    <3>2. CASE n # 0
      <4>1. n \in 1..m
        BY <1>2, <3>2
      <4> QED BY <1>10, <3>2, <4>1
    <3> QED BY <3>1, <3>2
  <2>2. u \in [0..m -> Templates]
    BY <1>9 DEF Chain
  <2> QED BY <2>1, <2>2
<1>12. c = F(c)
  BY <1>11
<1> HIDE DEF c
<1>13. c[0] = start /\ \A n \in 1..m : c[n] = ApplyAction(c[n - 1], actions[n])
  BY <1>2, <1>12
<1> DEFINE S == {n \in 0..m : Good(c[n])}
<1>14. \A n \in 0..m : n \in S
  <2>1. 0 \in S
    <3>1. Good(start)
      <4> HIDE DEF Grows
      <4> QED BY <1>0, <1>4
    <3> HIDE DEF Good
    <3> QED BY <1>2, <1>13, <3>1
  <2>2. ASSUME NEW n \in 0..m, n \in S, n < m PROVE n + 1 \in S
    <3>1. n + 1 \in 1..m /\ n + 1 \in 0..m /\ (n + 1) - 1 = n
      BY <1>2, <2>2
    <3>2. c[n + 1] = ApplyAction(c[n], actions[n + 1])
      BY <1>13, <3>1
    <3>3. Good(c[n])
      BY <2>2
    <3> HIDE DEF Good
    <3>4. Good(c[n + 1])
      BY <1>6, <3>1, <3>2, <3>3
    <3> QED BY <3>1, <3>4
  <2> HIDE DEF S
  <2> QED BY <1>2, <2>1, <2>2, InductionOnSet
<1>15. Good(c[m])
  <2>1. m \in 0..m
    BY <1>2
  <2> HIDE DEF Good
  <2> QED BY <1>14, <2>1
<1>16. FromDockerfile(t, file) = c[m]
  BY DEF FromDockerfile, c, m, start, actions
<1> QED BY <1>15, <1>16

-----------------------------------------------------------------------------
(* What the chain said, after one more call.                               *)

LEMMA AfterCall ==
  ASSUME NEW s \in Seq(Names), NEW x \in Names
  PROVE  LET r == Append(s, x)
         IN  /\ Latest(r, Bases, {"from_template"})
                  <=> IF x \in Bases THEN x = "from_template"
                      ELSE Latest(s, Bases, {"from_template"})
             /\ Latest(r, Bases, Bases \ {"from_template"})
                  <=> IF x \in Bases THEN x # "from_template"
                      ELSE Latest(s, Bases, Bases \ {"from_template"})
             /\ Latest(r, Readying, {"set_ready_cmd"})
                  <=> IF x \in Readying THEN x = "set_ready_cmd"
                      ELSE Latest(s, Readying, {"set_ready_cmd"})
             /\ \A y : y \in Range(r) <=> y \in Range(s) \/ y = x
<1> DEFINE r == Append(s, x)
<1>1. /\ {"from_template"} \subseteq Bases /\ Bases \ {"from_template"} \subseteq Bases
      /\ {"set_ready_cmd"} \subseteq Readying
  BY DEF Bases, Readying
<1>2. Latest(r, Bases, {"from_template"})
        <=> IF x \in Bases THEN x \in {"from_template"}
            ELSE Latest(s, Bases, {"from_template"})
  <2> HIDE DEF Names, Bases
  <2> QED BY <1>1, LatestAppended
<1>3. Latest(r, Bases, Bases \ {"from_template"})
        <=> IF x \in Bases THEN x \in Bases \ {"from_template"}
            ELSE Latest(s, Bases, Bases \ {"from_template"})
  <2> HIDE DEF Names, Bases
  <2> QED BY <1>1, LatestAppended
<1>4. Latest(r, Readying, {"set_ready_cmd"})
        <=> IF x \in Readying THEN x \in {"set_ready_cmd"}
            ELSE Latest(s, Readying, {"set_ready_cmd"})
  <2> HIDE DEF Names, Readying
  <2> QED BY <1>1, LatestAppended
<1>5. Range(r) = Range(s) \union {x}
  BY RangeAppended
<1> HIDE DEF r
<1> QED BY <1>2, <1>3, <1>4, <1>5 DEF r

\* The calls that push steps.
LEMMA PushingFollows ==
  ASSUME NEW t, NEW u, NEW s \in Seq(Names), Follows(t, s),
         NEW x \in {"copy", "copy_items", "run", "set"},
         u.image = t.image, u.base = t.base, u.registry = t.registry,
         u.ready = t.ready, u.force = t.force
  PROVE  Follows(u, Append(s, x))
<1>1. x \in Names /\ x \notin Bases \union Readying
      /\ x \notin {"from_registry", "skip_cache", "from_dockerfile"}
  BY DEF Names, Bases, Readying
<1> DEFINE r == Append(s, x)
<1>2. /\ Latest(r, Bases, {"from_template"}) <=> Latest(s, Bases, {"from_template"})
      /\ Latest(r, Bases, Bases \ {"from_template"})
           <=> Latest(s, Bases, Bases \ {"from_template"})
      /\ Latest(r, Readying, {"set_ready_cmd"})
           <=> Latest(s, Readying, {"set_ready_cmd"})
      /\ \A y \in {"from_registry", "skip_cache", "from_dockerfile"} :
           y \in Range(r) <=> y \in Range(s)
  BY <1>1, AfterCall
<1> HIDE DEF r
<1>3. /\ u.base # None <=> Latest(r, Bases, {"from_template"})
      /\ u.image # None <=> Latest(r, Bases, Bases \ {"from_template"})
      /\ u.registry # None <=> "from_registry" \in Range(r)
      /\ u.force <=> "skip_cache" \in Range(r)
  BY <1>2 DEF Follows
<1>5. Latest(r, Readying, {"set_ready_cmd"}) /\ "from_dockerfile" \notin Range(r)
        => u.ready = "port"
  BY <1>2 DEF Follows
<1> QED BY <1>3, <1>5 DEF Follows, r

\* The calls that choose a base.
LEMMA BasingFollows ==
  ASSUME NEW t, NEW u, NEW s \in Seq(Names), Follows(t, s), NEW x \in Bases,
         u.base # None <=> x = "from_template",
         u.image # None <=> x # "from_template",
         IF x = "from_registry" THEN u.registry # None ELSE u.registry = t.registry,
         x # "from_dockerfile" => u.ready = t.ready, u.force = t.force
  PROVE  Follows(u, Append(s, x))
<1>1. x \in Names /\ x \notin Readying /\ x # "skip_cache"
  BY DEF Names, Bases, Readying
<1> DEFINE r == Append(s, x)
<1>2. /\ Latest(r, Bases, {"from_template"}) <=> x = "from_template"
      /\ Latest(r, Bases, Bases \ {"from_template"}) <=> x # "from_template"
      /\ Latest(r, Readying, {"set_ready_cmd"})
           <=> Latest(s, Readying, {"set_ready_cmd"})
      /\ \A y : y \in Range(r) <=> y \in Range(s) \/ y = x
  BY <1>1, AfterCall
<1> HIDE DEF r
<1>3. /\ u.base # None <=> Latest(r, Bases, {"from_template"})
      /\ u.image # None <=> Latest(r, Bases, Bases \ {"from_template"})
  BY <1>2
<1>4. /\ u.registry # None <=> "from_registry" \in Range(r)
      /\ u.force <=> "skip_cache" \in Range(r)
  BY <1>1, <1>2 DEF Follows
<1>6. Latest(r, Readying, {"set_ready_cmd"}) /\ "from_dockerfile" \notin Range(r)
        => u.ready = "port"
  BY <1>2 DEF Follows
<1> QED BY <1>3, <1>4, <1>6 DEF Follows, r

\* The calls that set the commands, or force.
LEMMA SettingFollows ==
  ASSUME NEW t, NEW u, NEW s \in Seq(Names), Follows(t, s),
         NEW x \in {"set_start_cmd", "set_ready_cmd", "skip_cache"},
         u.image = t.image, u.base = t.base, u.registry = t.registry,
         x = "set_ready_cmd" => u.ready = "port",
         x = "skip_cache" => u.ready = t.ready,
         u.force = IF x = "skip_cache" THEN TRUE ELSE t.force
  PROVE  Follows(u, Append(s, x))
<1>1. x \in Names /\ x \notin Bases /\ x # "from_registry" /\ x # "from_dockerfile"
      /\ (x \in Readying <=> x # "skip_cache")
  BY DEF Names, Bases, Readying
<1> DEFINE r == Append(s, x)
<1>2. /\ Latest(r, Bases, {"from_template"}) <=> Latest(s, Bases, {"from_template"})
      /\ Latest(r, Bases, Bases \ {"from_template"})
           <=> Latest(s, Bases, Bases \ {"from_template"})
      /\ Latest(r, Readying, {"set_ready_cmd"})
           <=> IF x = "skip_cache" THEN Latest(s, Readying, {"set_ready_cmd"})
                                   ELSE x = "set_ready_cmd"
      /\ \A y : y \in Range(r) <=> y \in Range(s) \/ y = x
  BY <1>1, AfterCall
<1> HIDE DEF r
<1>3. /\ u.base # None <=> Latest(r, Bases, {"from_template"})
      /\ u.image # None <=> Latest(r, Bases, Bases \ {"from_template"})
      /\ u.registry # None <=> "from_registry" \in Range(r)
  BY <1>1, <1>2 DEF Follows
<1>4. u.force <=> "skip_cache" \in Range(r)
  BY <1>2 DEF Follows
<1>6. Latest(r, Readying, {"set_ready_cmd"}) /\ "from_dockerfile" \notin Range(r)
        => u.ready = "port"
  BY <1>2 DEF Follows
<1> QED BY <1>3, <1>4, <1>6 DEF Follows, r

\* A call that pushes steps which are forced as the template is.
Pushing(t, u) == \E more \in Seq(Instructions) :
  /\ u = [t EXCEPT !.steps = @ \o more]
  /\ \A k \in DOMAIN more : more[k].force <=> more[k].upload \/ t.force

LEMMA PushesOne ==
  ASSUME NEW t \in Templates, NEW i \in Instructions, i.force <=> i.upload \/ t.force
  PROVE  Pushing(t, Push(t, i))
<1>1. <<i>> \in Seq(Instructions) /\ \A k \in DOMAIN <<i>> : <<i>>[k] = i
  OBVIOUS
<1> DEFINE more == <<i>>
<1> HIDE DEF more
<1>2. \A k \in DOMAIN more : more[k].force <=> more[k].upload \/ t.force
  BY <1>1 DEF more
<1>3. Push(t, i) = [t EXCEPT !.steps = @ \o more]
  BY Pushed DEF more
<1> QED BY <1>1, <1>2, <1>3 DEF Pushing, more

LEMMA PushingIsFine ==
  ASSUME NEW t \in Templates, NEW u, Pushing(t, u), NEW s \in Seq(Names), Follows(t, s),
         NEW x \in {"copy", "copy_items", "run", "set"}
  PROVE  u \in Templates /\ Follows(u, Append(s, x)) /\ Grows(t, u, t.force)
<1>1. PICK more \in Seq(Instructions) :
        /\ u = [t EXCEPT !.steps = @ \o more]
        /\ \A k \in DOMAIN more : more[k].force <=> more[k].upload \/ t.force
  BY DEF Pushing
<1>2. t.steps \in Seq(Instructions)
  BY DEF Templates
<1>3. u \in Templates
  BY <1>1, StepsAdded
<1>4. /\ u.image = t.image /\ u.base = t.base /\ u.registry = t.registry
      /\ u.ready = t.ready /\ u.force = t.force /\ u.steps = t.steps \o more
  BY <1>1 DEF Templates
<1>5. Grows(t, u, t.force)
  <2> DEFINE a == t.steps
             b == a \o more
  <2>1. /\ Len(b) = Len(a) + Len(more) /\ Len(a) \in Nat /\ Len(more) \in Nat
        /\ \A i \in DOMAIN a : i \in DOMAIN b /\ b[i] = a[i]
        /\ \A i \in DOMAIN b : i \in DOMAIN a
              \/ (i - Len(a) \in DOMAIN more /\ b[i] = more[i - Len(a)])
    <3> HIDE DEF Instructions
    <3> QED BY <1>2, Joined
  <2> HIDE DEF b
  <2>2. u.steps = b
    BY <1>4 DEF b
  <2> QED BY <1>1, <2>1, <2>2 DEF Grows
<1>6. Follows(u, Append(s, x))
  BY <1>4, PushingFollows
<1> QED BY <1>3, <1>5, <1>6

LEMMA RunPushes ==
  ASSUME NEW t \in Templates, NEW user \in {None, "user", "root"}
  PROVE  Pushing(t, PushRun(t, user))
<1> DEFINE args == <<"command">> \o (IF user = None THEN << >> ELSE <<user>>)
           i == Instruction("RUN", args, t.force, FALSE)
<1>1. "command" \in Texts /\ "user" \in Texts /\ "root" \in Texts /\ None \in Texts
  BY WordsAre DEF Words
<1>2. args \in Seq(Texts)
  <2>1. <<"command">> \in Seq(Texts) /\ <<user>> \in Seq(Texts) /\ << >> \in Seq(Texts)
    BY <1>1
  <2> QED BY <2>1, Joined
<1> HIDE DEF args
<1>3. t.force \in BOOLEAN
  BY DEF Templates
<1>4. i \in Instructions /\ (i.force <=> i.upload \/ t.force)
  <2>1. i \in Instructions
    BY <1>2, <1>3, Instructed
  <2> QED BY <2>1 DEF Instruction
<1> HIDE DEF i
<1>5. Pushing(t, Push(t, i))
  BY <1>4, PushesOne
<1> QED BY <1>5 DEF PushRun, i, args

LEMMA CopyPushes ==
  ASSUME NEW t \in Templates, NEW src \in Sources, NEW upload \in BOOLEAN
  PROVE  Pushing(t, Copy(t, src, "dest", upload))
<1> DEFINE args == <<src, "dest">>
           i == Instruction("COPY", args, upload \/ t.force, upload)
<1>1. src \in Texts /\ "dest" \in Texts
  BY WordsAre, TemplateBuildAssumption DEF Words
<1>2. args \in Seq(Texts) /\ Len(args) = 2 /\ args[1] \in Sources
  BY <1>1
<1> HIDE DEF args
<1>3. (upload \/ t.force) \in BOOLEAN
  OBVIOUS
<1>4. i \in Instructions
  BY <1>2, <1>3, Instructed
<1>5. i.force <=> i.upload \/ t.force
  BY DEF Instruction
<1> HIDE DEF i
<1>6. Pushing(t, Push(t, i))
  BY <1>4, <1>5, PushesOne
<1> QED BY <1>6 DEF Copy, i, args

LEMMA CopyItemPushes ==
  ASSUME NEW t \in Templates, NEW srcs \in Seq(Sources)
  PROVE  Pushing(t, CopyItem(t, srcs, "dest", FALSE))
<1> DEFINE A(k) == Instruction("COPY", <<srcs[k], "dest">>, FALSE \/ t.force, FALSE)
           more == [k \in DOMAIN srcs |-> A(k)]
<1>1. ASSUME NEW k \in DOMAIN srcs
      PROVE  A(k) \in Instructions /\ (A(k).force <=> A(k).upload \/ t.force)
  <2> DEFINE args == <<srcs[k], "dest">>
  <2>1. srcs[k] \in Sources
    OBVIOUS
  <2>2. srcs[k] \in Texts /\ "dest" \in Texts
    BY <2>1, WordsAre, TemplateBuildAssumption DEF Words
  <2>3. args \in Seq(Texts) /\ Len(args) = 2 /\ args[1] \in Sources
    BY <2>1, <2>2
  <2> HIDE DEF args
  <2>4. (FALSE \/ t.force) \in BOOLEAN
    OBVIOUS
  <2>5. Instruction("COPY", args, FALSE \/ t.force, FALSE) \in Instructions
    BY <2>3, <2>4, Instructed
  <2> DEFINE i == Instruction("COPY", args, FALSE \/ t.force, FALSE)
  <2>6. i.force <=> i.upload \/ t.force
    BY DEF Instruction
  <2> QED BY <2>5, <2>6 DEF args
<1> HIDE DEF A
<1>2. more \in Seq(Instructions) /\ DOMAIN more = DOMAIN srcs
      /\ \A k \in DOMAIN more : more[k] = A(k)
  <2>1. DOMAIN srcs = 1..Len(srcs) /\ Len(srcs) \in Nat
    OBVIOUS
  <2> QED BY <1>1, <2>1
<1>3. CopyItem(t, srcs, "dest", FALSE) = [t EXCEPT !.steps = @ \o more]
  BY DEF CopyItem, A
<1> HIDE DEF more
<1>4. \A k \in DOMAIN more : more[k].force <=> more[k].upload \/ t.force
  BY <1>1, <1>2
<1> QED BY <1>2, <1>3, <1>4 DEF Pushing

LEMMA StepPushes ==
  ASSUME NEW t \in Templates, NEW type \in {"WORKDIR", "USER", "ENV"},
         NEW args \in Seq(Texts)
  PROVE  Pushing(t, Push(t, Instruction(type, args, t.force, FALSE)))
<1> DEFINE i == Instruction(type, args, t.force, FALSE)
<1>1. t.force \in BOOLEAN
  BY DEF Templates
<1>2. i \in Instructions
  BY <1>1, Instructed
<1>3. i.force <=> i.upload \/ t.force
  BY DEF Instruction
<1> HIDE DEF i
<1>4. Pushing(t, Push(t, i))
  BY <1>2, <1>3, PushesOne
<1> QED BY <1>4 DEF i

LEMMA EnvironmentPushes ==
  ASSUME NEW t \in Templates
  PROVE  /\ Pushing(t, SetWorkdir(t, "dir")) /\ Pushing(t, SetUser(t, "user"))
         /\ Pushing(t, SetEnvs(t, <<"key", "value">>)) /\ Pushing(t, SetEnvs(t, << >>))
<1>1. /\ <<"dir">> \in Seq(Texts) /\ <<"user">> \in Seq(Texts)
      /\ <<"key", "value">> \in Seq(Texts)
  BY WordsAre, Arguments DEF Words
<1>2. Pushing(t, SetWorkdir(t, "dir")) /\ Pushing(t, SetUser(t, "user"))
  BY <1>1, StepPushes DEF SetWorkdir, SetUser
<1>3. Pushing(t, SetEnvs(t, <<"key", "value">>))
  <2>1. Pushing(t, Push(t, Instruction("ENV", <<"key", "value">>, t.force, FALSE)))
    BY <1>1, StepPushes
  <2>2. <<"key", "value">> # << >>
    OBVIOUS
  <2> QED BY <2>1, <2>2 DEF SetEnvs
<1>4. Pushing(t, SetEnvs(t, << >>))
  <2>1. t.steps \in Seq(Instructions)
    BY DEF Templates
  <2>2. t.steps \o << >> = t.steps
    BY <2>1
  <2>3. t = [t EXCEPT !.steps = @ \o << >>]
    BY <2>2 DEF Templates
  <2>4. << >> \in Seq(Instructions) /\ DOMAIN << >> = {}
    OBVIOUS
  <2>5. SetEnvs(t, << >>) = t
    BY DEF SetEnvs
  <2> DEFINE more == << >>
  <2> HIDE DEF more
  <2>6. Pushing(t, t)
    BY <2>3, <2>4 DEF Pushing, more
  <2> QED BY <2>5, <2>6
<1> QED BY <1>2, <1>3, <1>4

LEMMA BaseIsFine ==
  ASSUME NEW t \in Templates, NEW s \in Seq(Names), Follows(t, s)
  PROVE  /\ FromImage(t, "image") \in Templates
         /\ Follows(FromImage(t, "image"), Append(s, "from_image"))
         /\ FromImage(t, "image").steps = t.steps
         /\ FromTemplate(t, "base") \in Templates
         /\ Follows(FromTemplate(t, "base"), Append(s, "from_template"))
         /\ FromTemplate(t, "base").steps = t.steps
         /\ FromRegistry(t, "image", "keys") \in Templates
         /\ Follows(FromRegistry(t, "image", "keys"), Append(s, "from_registry"))
         /\ FromRegistry(t, "image", "keys").steps = t.steps
<1>1. /\ "image" \in Texts \ {None} /\ "base" \in Texts \ {None}
      /\ "keys" \in Texts \ {None} /\ None \in Texts
  BY WordsAre DEF Words, None
<1>2. /\ "from_image" \in Bases \ {"from_template", "from_registry"}
      /\ "from_template" \in Bases \ {"from_registry"}
      /\ "from_registry" \in Bases \ {"from_template"}
  BY DEF Bases
<1>3. ASSUME NEW x \in Bases, NEW u, u \in Templates,
             u.base # None <=> x = "from_template",
             u.image # None <=> x # "from_template",
             IF x = "from_registry" THEN u.registry # None ELSE u.registry = t.registry,
             u.ready = t.ready, u.force = t.force, u.steps = t.steps
      PROVE  Follows(u, Append(s, x))
  BY <1>3, BasingFollows
<1> HIDE DEF None, Instructions
<1>4. LET u == FromImage(t, "image")
      IN  u \in Templates /\ Follows(u, Append(s, "from_image")) /\ u.steps = t.steps
  <2> DEFINE u == FromImage(t, "image")
  <2>1. /\ u \in Templates /\ u.base = None /\ u.image = "image"
        /\ u.registry = t.registry /\ u.ready = t.ready /\ u.force = t.force
        /\ u.steps = t.steps
    BY <1>1 DEF FromImage, Templates
  <2> HIDE DEF u
  <2>2. Follows(u, Append(s, "from_image"))
    BY <1>1, <1>2, <1>3, <2>1
  <2> QED BY <2>1, <2>2 DEF u
<1>5. LET u == FromTemplate(t, "base")
      IN  u \in Templates /\ Follows(u, Append(s, "from_template")) /\ u.steps = t.steps
  <2> DEFINE u == FromTemplate(t, "base")
  <2>1. /\ u \in Templates /\ u.base = "base" /\ u.image = None
        /\ u.registry = t.registry /\ u.ready = t.ready /\ u.force = t.force
        /\ u.steps = t.steps
    BY <1>1 DEF FromTemplate, Templates
  <2> HIDE DEF u
  <2>2. Follows(u, Append(s, "from_template"))
    BY <1>1, <1>2, <1>3, <2>1
  <2> QED BY <2>1, <2>2 DEF u
<1>6. LET u == FromRegistry(t, "image", "keys")
      IN  u \in Templates /\ Follows(u, Append(s, "from_registry")) /\ u.steps = t.steps
  <2> DEFINE u == FromRegistry(t, "image", "keys")
  <2>1. /\ u \in Templates /\ u.base = None /\ u.image = "image"
        /\ u.registry = "keys" /\ u.ready = t.ready /\ u.force = t.force
        /\ u.steps = t.steps
    BY <1>1 DEF FromRegistry, Templates
  <2> HIDE DEF u
  <2>2. Follows(u, Append(s, "from_registry"))
    BY <1>1, <1>2, <1>3, <2>1
  <2> QED BY <2>1, <2>2 DEF u
<1> QED BY <1>4, <1>5, <1>6

LEMMA DockerfileIsFine ==
  ASSUME NEW t \in Templates, NEW s \in Seq(Names), Follows(t, s),
         NEW file \in Dockerfiles, Parses(file)
  PROVE  /\ FromDockerfile(t, file) \in Templates
         /\ Follows(FromDockerfile(t, file), Append(s, "from_dockerfile"))
         /\ Grows(t, FromDockerfile(t, file), FALSE)
<1>1. file \in Seq(Lines)
  <2>1. /\ file \in Seq([kw : Texts, args : Seq(Texts \ {None})])
        /\ \A n \in DOMAIN file : file[n].kw \in {"COPY", "ADD"} =>
             \A k \in 1..(Len(file[n].args) - 1) : file[n].args[k] \in Sources
    BY TemplateBuildAssumption
  <2> DEFINE All == [kw : Texts, args : Seq(Texts \ {None})]
  <2>0. file \in Seq(All)
    BY <2>1
  <2> HIDE DEF All
  <2>2. /\ DOMAIN file = 1..Len(file) /\ Len(file) \in Nat
        /\ \A n \in 1..Len(file) : file[n] \in All
    BY ONLY <2>0
  <2>3. ASSUME NEW n \in 1..Len(file) PROVE file[n] \in Lines
    <3>1. file[n] \in [kw : Texts, args : Seq(Texts \ {None})]
      BY <2>2 DEF All
    <3> QED BY <2>1, <2>2, <3>1 DEF Lines
  <2>4. file = [n \in 1..Len(file) |-> file[n]]
    BY ONLY <2>0
  <2> QED BY <2>2, <2>3, <2>4
<1> DEFINE u == FromDockerfile(t, file)
<1>2. /\ u \in Templates /\ u.image # None /\ u.base = None
      /\ u.registry = t.registry /\ u.force = t.force /\ Grows(t, u, FALSE)
  BY <1>1, DockerfileRead
<1> HIDE DEF u
<1>3. "from_dockerfile" \in Bases
  BY DEF Bases
<1>4. Follows(u, Append(s, "from_dockerfile"))
  BY <1>2, <1>3, BasingFollows
<1> QED BY <1>2, <1>4 DEF u

LEMMA SettingIsFine ==
  ASSUME NEW t \in Templates, NEW s \in Seq(Names), Follows(t, s)
  PROVE  /\ SetStartCmd(t, "serve", "up") \in Templates
         /\ Follows(SetStartCmd(t, "serve", "up"), Append(s, "set_start_cmd"))
         /\ SetStartCmd(t, "serve", "up").steps = t.steps
         /\ SetReadyCmd(t, "port") \in Templates
         /\ Follows(SetReadyCmd(t, "port"), Append(s, "set_ready_cmd"))
         /\ SetReadyCmd(t, "port").steps = t.steps
         /\ SkipCache(t) \in Templates
         /\ Follows(SkipCache(t), Append(s, "skip_cache"))
         /\ SkipCache(t).steps = t.steps
<1>1. "serve" \in Texts /\ "up" \in Texts /\ "port" \in Texts
  BY WordsAre DEF Words
<1> HIDE DEF Instructions
<1>2. ASSUME NEW u, NEW x \in {"set_start_cmd", "set_ready_cmd", "skip_cache"},
             u.image = t.image, u.base = t.base, u.registry = t.registry,
             u.steps = t.steps,
             x = "set_ready_cmd" => u.ready = "port",
             x = "skip_cache" => u.ready = t.ready,
             u.force = IF x = "skip_cache" THEN TRUE ELSE t.force
      PROVE  Follows(u, Append(s, x))
  BY <1>2, SettingFollows
<1>3. LET u == SetStartCmd(t, "serve", "up")
      IN  u \in Templates /\ Follows(u, Append(s, "set_start_cmd")) /\ u.steps = t.steps
  <2> DEFINE u == SetStartCmd(t, "serve", "up")
  <2>1. /\ u \in Templates /\ u.image = t.image /\ u.base = t.base
        /\ u.registry = t.registry /\ u.steps = t.steps /\ u.force = t.force
    BY <1>1 DEF SetStartCmd, Templates
  <2> HIDE DEF u
  <2>2. Follows(u, Append(s, "set_start_cmd"))
    BY <1>2, <2>1
  <2> QED BY <2>1, <2>2 DEF u
<1>4. LET u == SetReadyCmd(t, "port")
      IN  u \in Templates /\ Follows(u, Append(s, "set_ready_cmd")) /\ u.steps = t.steps
  <2> DEFINE u == SetReadyCmd(t, "port")
  <2>1. /\ u \in Templates /\ u.image = t.image /\ u.base = t.base
        /\ u.registry = t.registry /\ u.steps = t.steps /\ u.force = t.force
        /\ u.ready = "port"
    BY <1>1 DEF SetReadyCmd, Templates
  <2> HIDE DEF u
  <2>2. Follows(u, Append(s, "set_ready_cmd"))
    BY <1>2, <2>1
  <2> QED BY <2>1, <2>2 DEF u
<1>5. LET u == SkipCache(t)
      IN  u \in Templates /\ Follows(u, Append(s, "skip_cache")) /\ u.steps = t.steps
  <2> DEFINE u == SkipCache(t)
  <2>1. /\ u \in Templates /\ u.image = t.image /\ u.base = t.base
        /\ u.registry = t.registry /\ u.steps = t.steps /\ u.force = TRUE
        /\ u.ready = t.ready
    BY DEF SkipCache, Templates
  <2> HIDE DEF u
  <2>2. Follows(u, Append(s, "skip_cache"))
    BY <1>2, <2>1
  <2> QED BY <2>1, <2>2 DEF u
<1> QED BY <1>3, <1>4, <1>5

\* The marks of a template that grows by one call.
LEMMA MarkingGoesOn ==
  ASSUME NEW t \in Templates, NEW u \in Templates, NEW calls \in Seq(Names),
         NEW by \in Seq(Nat), NEW x \in Names, NEW more,
         Marked(t.steps, calls, by), t.force <=> "skip_cache" \in Range(calls),
         Grows(t, u, x # "from_dockerfile" /\ t.force),
         more = [k \in 1..(Len(u.steps) - Len(t.steps)) |-> Len(calls) + 1]
  PROVE  by \o more \in Seq(Nat) /\ Marked(u.steps, Append(calls, x), by \o more)
<1> DEFINE next == Append(calls, x)
           all == by \o more
           n == Len(calls)
           a == Len(t.steps)
           z == Len(u.steps)
<1>1. /\ a \in Nat /\ z \in Nat /\ DOMAIN t.steps = 1..a /\ DOMAIN u.steps = 1..z
      /\ n \in Nat /\ DOMAIN calls = 1..n /\ a =< z
  <2>1. t.steps \in Seq(Instructions) /\ u.steps \in Seq(Instructions)
    BY DEF Templates
  <2> HIDE DEF Instructions, Names
  <2> QED BY <2>1 DEF Grows
<1>2. DOMAIN next = 1..n + 1 /\ next[n + 1] = x /\ \A j \in 1..n : next[j] = calls[j]
  BY Appended, <1>1
<1>3. more \in Seq(Nat) /\ Len(more) = z - a /\ \A k \in 1..(z - a) : more[k] = n + 1
  BY <1>1
<1>4. Len(by) = a
  BY <1>1 DEF Marked
<1>5. /\ all \in Seq(Nat) /\ DOMAIN all = 1..z
      /\ \A k \in 1..a : all[k] = by[k]
      /\ \A k \in (a + 1)..z : all[k] = n + 1
  <2>1. /\ all \in Seq(Nat) /\ Len(all) = z /\ \A k \in 1..a : all[k] = by[k]
        /\ \A k \in 1..(z - a) : all[a + k] = more[k]
    <3>1. z - a \in Nat /\ a + (z - a) = z
      BY <1>1
    <3>2. by \in Seq(Nat) /\ more \in Seq(Nat)
      BY <1>3
    <3> HIDE DEF a, z, n
    <3>3. /\ all \in Seq(Nat) /\ Len(all) = Len(by) + Len(more)
          /\ \A k \in 1..Len(by) : all[k] = by[k]
          /\ \A k \in 1..Len(more) : all[Len(by) + k] = more[k]
      BY ONLY <3>2, Extended
    <3> HIDE DEF all
    <3> QED BY ONLY <1>3, <1>4, <3>1, <3>3
  <2>2. ASSUME NEW k \in (a + 1)..z PROVE all[k] = n + 1
    <3>1. k - a \in 1..(z - a) /\ a + (k - a) = k
      BY <1>1
    <3> QED BY <1>3, <2>1, <3>1
  <2>3. DOMAIN all = 1..z
    <3> HIDE DEF all, z
    <3> QED BY <1>1, <2>1
  <2> QED BY <2>1, <2>2, <2>3
<1> HIDE DEF next, all, n, a, z
<1>6. ASSUME NEW k \in 1..a
      PROVE  /\ all[k] \in DOMAIN next
             /\ u.steps[k].force <=>
                  \/ u.steps[k].upload
                  \/ /\ next[all[k]] # "from_dockerfile"
                     /\ \E j \in 1..(all[k] - 1) : next[j] = "skip_cache"
  <2>1. /\ by[k] \in 1..n
        /\ t.steps[k].force <=>
             \/ t.steps[k].upload
             \/ /\ calls[by[k]] # "from_dockerfile"
                /\ \E j \in 1..(by[k] - 1) : calls[j] = "skip_cache"
    BY <1>1, <1>4 DEF Marked
  <2>2. all[k] = by[k] /\ u.steps[k] = t.steps[k]
    BY <1>1, <1>5 DEF Grows
  <2>3. /\ by[k] \in 1..n + 1 /\ next[by[k]] = calls[by[k]]
        /\ \A j \in 1..(by[k] - 1) : next[j] = calls[j]
    BY <1>1, <1>2, <2>1
  <2> QED BY <1>2, <2>1, <2>2, <2>3
<1>7. ASSUME NEW k \in (a + 1)..z
      PROVE  /\ all[k] \in DOMAIN next
             /\ u.steps[k].force <=>
                  \/ u.steps[k].upload
                  \/ /\ next[all[k]] # "from_dockerfile"
                     /\ \E j \in 1..(all[k] - 1) : next[j] = "skip_cache"
  <2>1. all[k] = n + 1 /\ n + 1 \in 1..n + 1 /\ (n + 1) - 1 = n
    BY <1>1, <1>5
  <2>2. u.steps[k].force <=> u.steps[k].upload \/ (x # "from_dockerfile" /\ t.force)
    BY <1>1 DEF Grows
  <2>3. t.force <=> \E j \in 1..n : next[j] = "skip_cache"
    BY <1>1, <1>2 DEF Range
  <2> QED BY <1>2, <2>1, <2>2, <2>3
<1>8. \A k \in 1..z : k \in 1..a \/ k \in (a + 1)..z
  BY <1>1
<1>9. Marked(u.steps, next, all)
  BY <1>1, <1>5, <1>6, <1>7, <1>8 DEF Marked
<1> QED BY <1>5, <1>9 DEF all, next

\* Nothing is said of a template that is new.
LEMMA NewIsFine == New \in Templates /\ Meant(New, << >>, << >>)
<1>1. /\ New \in Templates /\ New.image = None /\ New.base = None
      /\ New.registry = None /\ New.force = FALSE /\ New.steps = << >>
  <2>1. None \in Texts
    BY WordsAre DEF Words
  <2> HIDE DEF None, Instructions
  <2> QED BY <2>1 DEF New, Templates
<1>2. Follows(New, << >>)
  <2>1. \A names, these : ~ Latest(<< >>, names, these)
    BY DEF Latest
  <2>2. Range(<< >>) = {}
    BY DEF Range
  <2> HIDE DEF None
  <2> QED BY <1>1, <2>1, <2>2 DEF Follows
<1>3. Marked(New.steps, << >>, << >>)
  BY <1>1 DEF Marked
<1> QED BY <1>1, <1>2, <1>3 DEF Meant

\* Every call of the chain keeps the template's shape, and what it says.
LEMMA ChainIsFollowed ==
  ASSUME ChainTypeOK, Meant(template, said, pusher), Calls
  PROVE  /\ ChainTypeOK' /\ Meant(template, said, pusher)'
         /\ UNCHANGED <<files, edits, setup, server>>
<1>0. /\ template \in Templates /\ said \in Seq(Names) /\ pusher \in Seq(Nat)
      /\ spent \in 0..Effort /\ Effort \in Nat
      /\ Follows(template, said) /\ Marked(template.steps, said, pusher)
  BY TemplateBuildAssumption DEF ChainTypeOK, Meant
<1> DEFINE Fine(x, u) == /\ x \in Names /\ u \in Templates /\ Follows(u, Append(said, x))
                         /\ Grows(template, u, x # "from_dockerfile" /\ template.force)
<1>1. ASSUME NEW x, NEW u, Fine(x, u), Call(x, u)
      PROVE  /\ ChainTypeOK' /\ Meant(template, said, pusher)'
             /\ UNCHANGED <<files, edits, setup, server>>
  <2> DEFINE more == [k \in 1..(Len(u.steps) - Len(template.steps)) |-> Len(said) + 1]
  <2>1. /\ template' = u /\ said' = Append(said, x) /\ pusher' = pusher \o more
        /\ spent + 1 < Effort /\ spent' = spent + 1
        /\ UNCHANGED <<files, edits, setup, server>>
    BY <1>1 DEF Call
  <2>2. Append(said, x) \in Seq(Names)
    BY <1>0, <1>1, Appended
  <2>3. template.force <=> "skip_cache" \in Range(said)
    BY <1>0 DEF Follows
  <2> HIDE DEF more
  <2>4. more = [k \in 1..(Len(u.steps) - Len(template.steps)) |-> Len(said) + 1]
    BY DEF more
  <2> HIDE DEF Grows
  <2>5. pusher \o more \in Seq(Nat) /\ Marked(u.steps, Append(said, x), pusher \o more)
    BY <1>0, <1>1, <2>3, <2>4, MarkingGoesOn
  <2>6. spent' \in 0..Effort
    BY <1>0, <2>1
  <2>7. Meant(template', said', pusher')
    BY <1>1, <2>1, <2>5 DEF Meant
  <2>8. ChainTypeOK'
    BY <1>1, <2>1, <2>2, <2>5, <2>6 DEF ChainTypeOK
  <2> QED BY <2>1, <2>7, <2>8
<1>2. /\ "from_image" \in Names /\ "from_registry" \in Names /\ "from_dockerfile" \in Names
      /\ "from_template" \in Names /\ "set_start_cmd" \in Names
      /\ "set_ready_cmd" \in Names /\ "skip_cache" \in Names
      /\ \A x \in {"copy", "copy_items", "run", "set"} : x \in Names
  BY DEF Names
<1>3. ASSUME NEW u, NEW x \in {"copy", "copy_items", "run", "set"}, Pushing(template, u)
      PROVE  Fine(x, u)
  <2>1. u \in Templates /\ Follows(u, Append(said, x)) /\ Grows(template, u, template.force)
    BY <1>0, <1>3, PushingIsFine
  <2>2. (x # "from_dockerfile" /\ template.force) = template.force
    BY <1>0 DEF Templates
  <2> HIDE DEF Grows
  <2> QED BY <1>2, <2>1, <2>2
<1>12. ASSUME NEW u \in Templates, NEW x \in Names, Follows(u, Append(said, x)),
              u.steps = template.steps
       PROVE  Fine(x, u)
  <2> DEFINE cause == x # "from_dockerfile" /\ template.force
  <2> HIDE DEF cause
  <2>1. Grows(template, u, cause)
    BY <1>0, <1>12, SameGrows
  <2> QED BY <1>12, <2>1 DEF cause
<1>4. Fine("from_image", FromImage(template, "image"))
      /\ Fine("from_template", FromTemplate(template, "base"))
      /\ Fine("from_registry", FromRegistry(template, "image", "keys"))
  BY <1>0, <1>2, <1>12, BaseIsFine
<1>5. \A f \in Dockerfiles : Parses(f) => Fine("from_dockerfile", FromDockerfile(template, f))
  <2>1. ASSUME NEW f \in Dockerfiles, Parses(f)
        PROVE  Fine("from_dockerfile", FromDockerfile(template, f))
    <3>1. ("from_dockerfile" # "from_dockerfile" /\ template.force) = FALSE
      OBVIOUS
    <3> HIDE DEF Grows
    <3> QED BY <1>0, <1>2, <2>1, <3>1, DockerfileIsFine
  <2> HIDE DEF Fine
  <2> QED BY <2>1
<1>6. Fine("set_start_cmd", SetStartCmd(template, "serve", "up"))
      /\ Fine("set_ready_cmd", SetReadyCmd(template, "port"))
      /\ Fine("skip_cache", SkipCache(template))
  BY <1>0, <1>2, <1>12, SettingIsFine
<1> HIDE DEF Fine
<1>7. \A src \in Sources, upload \in BOOLEAN :
        Fine("copy", Copy(template, src, "dest", upload))
  BY <1>0, <1>3, CopyPushes
<1>8. \A srcs \in Items : Fine("copy_items", CopyItem(template, srcs, "dest", FALSE))
  <2>1. Items \subseteq Seq(Sources)
    BY TemplateBuildAssumption
  <2> QED BY <1>0, <1>3, <2>1, CopyItemPushes
<1>9. \A user \in {None, "user", "root"} : Fine("run", PushRun(template, user))
  BY <1>0, <1>3, RunPushes
<1>10. Fine("set", SetWorkdir(template, "dir")) /\ Fine("set", SetUser(template, "user"))
       /\ Fine("set", SetEnvs(template, << >>))
       /\ Fine("set", SetEnvs(template, <<"key", "value">>))
  BY <1>0, <1>3, EnvironmentPushes
<1>11. \E x, u : Fine(x, u) /\ Call(x, u)
  <2>1. CASE CallsBase
    BY <1>4, <2>1 DEF CallsBase
  <2>2. CASE CallsDockerfile
    BY <1>5, <2>2 DEF CallsDockerfile
  <2>3. CASE CallsSetting
    BY <1>6, <2>3 DEF CallsSetting
  <2>4. CASE CallsCopy
    BY <1>7, <2>4 DEF CallsCopy
  <2>5. CASE CallsCopyItems
    BY <1>8, <2>5 DEF CallsCopyItems
  <2>6. CASE CallsRun
    <3>1. \A user \in {None, "user"} : RunAs(template, user) = PushRun(template, user)
                                      /\ GitClone(template, user) = PushRun(template, user)
      BY DEF RunAs, GitClone
    <3>2. \A g \in BOOLEAN : Install(template, g) \in
              {PushRun(template, None), PushRun(template, "root")}
      BY DEF Install
    <3>3. AptInstall(template) = PushRun(template, "root")
      BY DEF AptInstall
    <3> QED BY <1>9, <2>6, <3>1, <3>2, <3>3 DEF CallsRun
  <2>7. CASE CallsEnvironment
    BY <1>10, <2>7 DEF CallsEnvironment
  <2> QED BY <2>1, <2>2, <2>3, <2>4, <2>5, <2>6, <2>7 DEF Calls
<1> QED BY <1>1, <1>11

\* After a copy that is refused the caller has nothing, and has said nothing.
LEMMA RefusedStartsOver ==
  ASSUME ChainTypeOK, CopyRefused
  PROVE  /\ ChainTypeOK' /\ Meant(template, said, pusher)'
         /\ UNCHANGED <<files, edits, setup, server>>
<1>1. /\ template' = New /\ said' = << >> /\ pusher' = << >>
      /\ spent + 1 < Effort /\ spent' = spent + 1
      /\ UNCHANGED <<files, edits, setup, server>>
  BY DEF CopyRefused
<1>2. New \in Templates /\ Meant(New, << >>, << >>)
  BY NewIsFine
<1>3. spent' \in 0..Effort
  BY <1>1, TemplateBuildAssumption DEF ChainTypeOK
<1>4. << >> \in Seq(Names) /\ << >> \in Seq(Nat)
  OBVIOUS
<1>5. Meant(template', said', pusher')
  BY <1>1, <1>2
<1> QED BY <1>1, <1>2, <1>3, <1>4, <1>5 DEF ChainTypeOK

-----------------------------------------------------------------------------
(* A step of one build.                                                    *)

Stages == {"idle", "requesting", "uploading", "triggering", "ok", "failed", "dropped"}
Slots  == {"none", "asked", "waiting", "sent", "building"}
Sound(b) == InStep(b) /\ \A k \in DOMAIN steps[b] : Hashed(steps[b][k])
Frank(b) == \A k \in DOMAIN steps[b] : Honest(steps[b][k])

ServerTypeOK == /\ store \in [DOMAIN store -> 0..MaxVersion] /\ DOMAIN store \subseteq Hash
                /\ adrift \subseteq Hash \X (0..MaxVersion)
HonestServer == StoredUnderItsHash /\ \A p \in adrift : p[2] = p[1][3]

LEMMA InvParts ==
  IInv <=> /\ TypeOK /\ Meant(template, said, pusher)
           /\ \A b \in Builds : stage[b] # "idle" => Agreed(order[b])
           /\ \A b \in Builds : Sound(b)
           /\ ~ raced => HonestServer /\ \A b \in Builds : Frank(b)
<1> HIDE DEF TypeOK, Meant, InStep, Hashed, Honest, StoredUnderItsHash
<1> QED BY DEF IInv, Agreed, Sound, Frank, HonestServer

LEMMA TypeParts ==
  TypeOK <=> /\ files \in [Sources -> 0..MaxVersion] /\ edits \in 0..MaxEdits
             /\ ChainTypeOK
             /\ stage \in [Builds -> Stages]
             /\ order \in [Builds -> Orders]
             /\ steps \in [Builds -> Seq(Steps)] /\ slot \in [Builds -> Slots]
             /\ DOMAIN body = Builds /\ ServerTypeOK /\ raced \in BOOLEAN
BY DEF TypeOK, ChainTypeOK, Orders, Stages, Slots, ServerTypeOK

\* A build that takes no step stays as it is, whatever the store gains.
LEMMA StaysSound ==
  ASSUME NEW a, Sound(a), DOMAIN store \subseteq DOMAIN store',
         UNCHANGED <<stage[a], order[a], steps[a], slot[a], body[a]>>
  PROVE  Sound(a)'
<1>1. InStep(a)'
  BY DEF Sound, InStep, Sent, Settled
<1>2. \A k \in DOMAIN steps[a] : Hashed(steps[a][k]) => Hashed(steps[a][k])'
  BY DEF Hashed
<1> QED BY <1>1, <1>2 DEF Sound

LEMMA StaysFrank ==
  ASSUME NEW a, Frank(a), files' = files, UNCHANGED steps[a]
  PROVE  Frank(a)'
BY DEF Frank, Honest

LEMMA BuildStep ==
  ASSUME IInv, NEW b \in Builds,
         \A a \in Builds \ {b} : UNCHANGED <<stage[a], steps[a], slot[a], body[a]>>,
         stage[b] # "idle", stage'[b] # "idle",
         UNCHANGED <<caller, order, raced>>,
         stage' \in [Builds -> Stages], steps' \in [Builds -> Seq(Steps)],
         slot' \in [Builds -> Slots], DOMAIN body' = Builds,
         ServerTypeOK', DOMAIN store \subseteq DOMAIN store',
         Sound(b)', ~ raced => HonestServer' /\ Frank(b)'
  PROVE  IInv'
<1>1. /\ TypeOK /\ Meant(template, said, pusher)
      /\ \A a \in Builds : stage[a] # "idle" => Agreed(order[a])
      /\ \A a \in Builds : Sound(a)
      /\ ~ raced => HonestServer /\ \A a \in Builds : Frank(a)
  BY InvParts
<1>3. UNCHANGED <<template, said, pusher, spent, files, edits, order, raced>>
  BY DEF caller
<1>4. TypeOK'
  <2>1. /\ files' \in [Sources -> 0..MaxVersion] /\ edits' \in 0..MaxEdits
        /\ ChainTypeOK' /\ order' \in [Builds -> Orders] /\ raced' \in BOOLEAN
    <3>1. TypeOK
      BY <1>1
    <3> QED BY <1>3, <3>1, TypeParts DEF ChainTypeOK
  <2> QED BY <2>1 DEF TypeOK, ChainTypeOK, Orders, Stages, Slots, ServerTypeOK
<1>5. \A a \in Builds : Sound(a)'
  <2>1. ASSUME NEW a \in Builds, a # b PROVE Sound(a)'
    BY <1>1, <1>3, <2>1, StaysSound
  <2> QED BY <2>1
<1>6. ~ raced' => HonestServer' /\ \A a \in Builds : Frank(a)'
  <2>1. ASSUME ~ raced, NEW a \in Builds, a # b PROVE Frank(a)'
    BY <1>1, <1>3, <2>1, StaysFrank
  <2> QED BY <1>3, <2>1
<1>7. Meant(template, said, pusher)'
  BY <1>1, <1>3
<1>8. \A a \in Builds : stage'[a] # "idle" => Agreed(order'[a])
  BY <1>1, <1>3
<1> HIDE DEF TypeOK, Meant, InStep, Hashed, Honest, StoredUnderItsHash
<1> QED BY <1>4, <1>5, <1>6, <1>7, <1>8 DEF IInv, Agreed, Sound, Frank, HonestServer

\* The parts of a build that a step does not name.
LEMMA OneOf ==
  ASSUME NEW S, NEW f \in [Builds -> S], NEW b \in Builds, NEW x \in S,
         NEW g, g = [f EXCEPT ![b] = x]
  PROVE  g \in [Builds -> S] /\ g[b] = x /\ \A a \in Builds \ {b} : g[a] = f[a]
OBVIOUS

\* What becomes of the steps when one of them moves.
LEMMA OneMoves ==
  ASSUME NEW ss \in Seq(Steps), NEW k \in DOMAIN ss, NEW s \in Steps,
         NEW tt, tt = [ss EXCEPT ![k] = s]
  PROVE  /\ tt \in Seq(Steps) /\ DOMAIN tt = DOMAIN ss /\ tt[k] = s
         /\ \A j \in DOMAIN ss : j # k => tt[j] = ss[j]
<1> HIDE DEF Steps
<1> QED OBVIOUS

LEMMA StepParts ==
  ASSUME NEW s \in Steps
  PROVE  /\ s \in [instr : Instructions, hash : Hash \union {<< >>},
                   at : {"plain", "hashed", "putting", "done", "withheld"},
                   archive : 0..MaxVersion]
         /\ s.at # "plain" <=> s.instr.type = "COPY"
         /\ s.at # "plain" <=> s.hash \in Hash
         /\ s.at \in {"plain", "hashed", "withheld"} => s.archive = 0
BY DEF Steps

LEMMA StepMoved ==
  ASSUME NEW s \in Steps, s.at # "plain", NEW t,
         t = [s EXCEPT !.at = t.at, !.archive = t.archive],
         t.at \in {"hashed", "putting", "done", "withheld"}, t.archive \in 0..MaxVersion,
         t.at \in {"hashed", "withheld"} => t.archive = 0
  PROVE  t \in Steps /\ t.instr = s.instr /\ t.hash = s.hash
<1> HIDE DEF Instructions, Hash
<1>1. /\ s \in [instr : Instructions, hash : Hash \union {<< >>},
                at : {"plain", "hashed", "putting", "done", "withheld"},
                archive : 0..MaxVersion]
      /\ s.instr.type = "COPY" /\ s.hash \in Hash
  BY StepParts
<1>2. /\ t \in [instr : Instructions, hash : Hash \union {<< >>},
                at : {"plain", "hashed", "putting", "done", "withheld"},
                archive : 0..MaxVersion]
      /\ t.instr = s.instr /\ t.hash = s.hash
  BY <1>1
<1> QED BY <1>1, <1>2 DEF Steps

\* A COPY gets its hash.
LEMMA StepHashed ==
  ASSUME NEW is \in Seq(Instructions), files \in [Sources -> 0..MaxVersion],
         \A k \in DOMAIN is : is[k].type = "COPY" => Matches(is[k].args[1])
  PROVE  LET ss == WithHashes(is)
         IN  /\ ss \in Seq(Steps) /\ DOMAIN ss = DOMAIN is
             /\ \A k \in DOMAIN ss :
                  /\ ss[k].instr = is[k] /\ ss[k].at \in {"plain", "hashed"}
                  /\ ss[k].instr.type = "COPY" =>
                       /\ ss[k].hash[1] = ss[k].instr.args[1] /\ ss[k].hash[3] # 0
                       /\ ss[k].hash[3] = files[ss[k].instr.args[1]]
<1> DEFINE A(k) == IF is[k].type = "COPY"
                   THEN [instr |-> is[k], hash |-> HashOf(is[k]), at |-> "hashed",
                         archive |-> 0]
                   ELSE [instr |-> is[k], hash |-> << >>, at |-> "plain", archive |-> 0]
<1>0. 0 \in 0..MaxVersion
  BY TemplateBuildAssumption
<1>1. ASSUME NEW k \in DOMAIN is
      PROVE  /\ A(k) \in Steps /\ A(k).instr = is[k] /\ A(k).at \in {"plain", "hashed"}
             /\ is[k].type = "COPY" =>
                  /\ A(k).hash[1] = is[k].args[1] /\ A(k).hash[3] # 0
                  /\ A(k).hash[3] = files[is[k].args[1]]
  <2> DEFINE i == is[k]
  <2>1. i \in Instructions
    <3> HIDE DEF Instructions
    <3> QED OBVIOUS
  <2> HIDE DEF i
  <2>2. /\ i.args \in Seq(Texts)
        /\ i.type = "COPY" => Len(i.args) = 2 /\ i.args[1] \in Sources
    BY <2>1 DEF Instructions
  <2>3. CASE i.type = "COPY"
    <3>1. i.args[1] \in Sources /\ i.args[2] \in Texts
      BY <2>2, <2>3
    <3>2. files[i.args[1]] \in 0..MaxVersion
      BY <3>1
    <3> DEFINE h == <<i.args[1], i.args[2], files[i.args[1]]>>
    <3>3. h \in Hash /\ h[1] = i.args[1] /\ h[3] = files[i.args[1]]
      BY <3>1, <3>2 DEF Hash
    <3>4. files[i.args[1]] # 0
      BY <2>3 DEF Matches, i
    <3>5. h = HashOf(i)
      BY DEF HashOf
    <3> HIDE DEF h
    <3> DEFINE s == [instr |-> i, hash |-> h, at |-> "hashed", archive |-> 0]
    <3>6. s \in Steps
      <4> HIDE DEF Hash, Instructions
      <4> QED BY <1>0, <2>1, <2>3, <3>3 DEF Steps
    <3>7. A(k) = s
      BY <2>3, <3>5 DEF i
    <3>8. s.instr = i /\ s.at = "hashed" /\ s.hash = h
      OBVIOUS
    <3> HIDE DEF s, A
    <3> QED BY <3>3, <3>4, <3>6, <3>7, <3>8 DEF i
  <2>4. CASE i.type # "COPY"
    <3> DEFINE s == [instr |-> i, hash |-> << >>, at |-> "plain", archive |-> 0]
    <3>1. << >> \notin Hash
      BY DEF Hash
    <3>2. s \in Steps
      <4> HIDE DEF Hash, Instructions
      <4> QED BY <1>0, <2>1, <2>4, <3>1 DEF Steps
    <3>3. A(k) = s
      BY <2>4 DEF i
    <3>4. s.instr = i /\ s.at = "plain"
      OBVIOUS
    <3> HIDE DEF s, A
    <3> QED BY <2>4, <3>2, <3>3, <3>4 DEF i
  <2> QED BY <2>3, <2>4
<1> DEFINE ss == WithHashes(is)
<1>2. ss = [k \in DOMAIN is |-> A(k)]
  BY DEF WithHashes
<1>3. DOMAIN is = 1..Len(is) /\ Len(is) \in Nat
  OBVIOUS
<1> HIDE DEF A, ss, Steps
<1>4. /\ ss \in Seq(Steps) /\ DOMAIN ss = DOMAIN is /\ \A k \in DOMAIN ss : ss[k] = A(k)
  BY <1>1, <1>2, <1>3
<1> QED BY <1>1, <1>4 DEF ss

-----------------------------------------------------------------------------
(* The steps of a build, one by one.                                       *)

\* What the invariant says of one build, and of the types that its steps change.
LEMMA Given ==
  ASSUME IInv, NEW b \in Builds
  PROVE  /\ stage \in [Builds -> Stages] /\ steps \in [Builds -> Seq(Steps)]
         /\ slot \in [Builds -> Slots] /\ DOMAIN body = Builds /\ ServerTypeOK
         /\ order[b].template \in Templates
         /\ InStep(b) /\ \A k \in DOMAIN steps[b] : Hashed(steps[b][k])
         /\ ~ raced => HonestServer /\ Frank(b)
<1>1. TypeOK /\ Sound(b) /\ (~ raced => HonestServer /\ Frank(b))
  BY InvParts
<1>2. order \in [Builds -> Orders]
  BY <1>1, TypeParts
<1>3. order[b].template \in Templates
  BY <1>2 DEF Orders
<1> QED BY <1>1, <1>3, TypeParts DEF Sound

\* Only the stage, the slot or the body changes, and the build stays sound.
LEMMA StageOnly ==
  ASSUME IInv, NEW b \in Builds, stage[b] # "idle", stage'[b] # "idle",
         stage' \in [Builds -> Stages], slot' \in [Builds -> Slots], DOMAIN body' = Builds,
         \A a \in Builds \ {b} : UNCHANGED <<stage[a], slot[a], body[a]>>,
         UNCHANGED <<caller, order, steps, store, adrift, raced>>,
         InStep(b)'
  PROVE  IInv'
<1>1. /\ steps \in [Builds -> Seq(Steps)] /\ ServerTypeOK
      /\ \A k \in DOMAIN steps[b] : Hashed(steps[b][k])
      /\ ~ raced => HonestServer /\ Frank(b)
  BY Given
<1>2. UNCHANGED <<template, said, pusher, spent, files, edits>>
  BY DEF caller
<1>3. ServerTypeOK' /\ (~ raced => HonestServer')
  BY <1>1 DEF ServerTypeOK, HonestServer, StoredUnderItsHash
<1>4. Sound(b)'
  BY <1>1 DEF Sound, Hashed
<1>5. ~ raced => Frank(b)'
  BY <1>1, <1>2 DEF Frank, Honest
<1>6. \A a \in Builds \ {b} : UNCHANGED <<stage[a], steps[a], slot[a], body[a]>>
  OBVIOUS
<1> HIDE DEF Sound, Frank, HonestServer, ServerTypeOK, Stages, Slots, Steps
<1> QED BY <1>1, <1>3, <1>4, <1>5, <1>6, BuildStep

\* One element of a function changes, or none.
LEMMA OneChanges ==
  ASSUME NEW S, NEW f \in [Builds -> S], NEW b \in Builds, NEW x \in S, NEW g,
         g = [f EXCEPT ![b] = x] \/ (g = f /\ x = f[b])
  PROVE  g \in [Builds -> S] /\ g[b] = x /\ \A a \in Builds \ {b} : g[a] = f[a]
OBVIOUS

LEMMA AllotKeeps == ASSUME IInv, NEW b \in Builds, Allot(b) PROVE IInv'
<1>1. /\ stage \in [Builds -> Stages] /\ slot \in [Builds -> Slots] /\ DOMAIN body = Builds
      /\ InStep(b)
  BY Given
<1>2. /\ slot[b] = "asked" /\ slot' = [slot EXCEPT ![b] = "waiting"]
      /\ UNCHANGED <<caller, stage, order, steps, body, store, adrift, raced>>
  BY DEF Allot, setup
<1>3. /\ slot' \in [Builds -> Slots] /\ slot'[b] = "waiting"
      /\ \A a \in Builds \ {b} : slot'[a] = slot[a]
  BY <1>1, <1>2, OneChanges DEF Slots
<1>4. stage[b] # "idle" /\ InStep(b)'
  BY <1>1, <1>2, <1>3 DEF InStep, Sent, Settled
<1> HIDE DEF Stages, Slots
<1> QED BY <1>1, <1>2, <1>3, <1>4, StageOnly

LEMMA StartKeeps == ASSUME IInv, NEW b \in Builds, Start(b) PROVE IInv'
<1>1. /\ stage \in [Builds -> Stages] /\ slot \in [Builds -> Slots] /\ DOMAIN body = Builds
      /\ InStep(b)
  BY Given
<1>2. /\ slot[b] = "sent" /\ slot' = [slot EXCEPT ![b] = "building"]
      /\ UNCHANGED <<caller, stage, order, steps, body, store, adrift, raced>>
  BY DEF Start, setup
<1>3. /\ slot' \in [Builds -> Slots] /\ slot'[b] = "building"
      /\ \A a \in Builds \ {b} : slot'[a] = slot[a]
  BY <1>1, <1>2, OneChanges DEF Slots
<1>4. stage[b] # "idle" /\ InStep(b)'
  BY <1>1, <1>2, <1>3 DEF InStep, Sent, Settled
<1> HIDE DEF Stages, Slots
<1> QED BY <1>1, <1>2, <1>3, <1>4, StageOnly

LEMMA EndOfRequestKeeps ==
  ASSUME IInv, NEW b \in Builds, RequestFails(b) \/ HashFails(b) \/ Triggered(b)
  PROVE  IInv'
<1>1. /\ stage \in [Builds -> Stages] /\ slot \in [Builds -> Slots] /\ DOMAIN body = Builds
      /\ InStep(b)
  BY Given
<1>2. PICK st \in {"ok", "failed"} :
        /\ stage[b] \in {"requesting", "triggering"}
        /\ st = "ok" => stage[b] = "triggering" /\ slot[b] = "building"
        /\ stage' = [stage EXCEPT ![b] = st]
        /\ UNCHANGED <<caller, order, steps, slot, body, store, adrift, raced>>
  <2>1. CASE RequestFails(b)
    BY <2>1 DEF RequestFails, Becomes, server
  <2>2. CASE HashFails(b)
    BY <2>2 DEF HashFails, Becomes, server
  <2>3. CASE Triggered(b)
    BY <2>3 DEF Triggered, Becomes, server
  <2> QED BY <2>1, <2>2, <2>3
<1>3. /\ stage' \in [Builds -> Stages] /\ stage'[b] = st
      /\ \A a \in Builds \ {b} : stage'[a] = stage[a]
  BY <1>1, <1>2, OneChanges DEF Stages
<1>4. stage[b] # "idle" /\ stage'[b] # "idle"
  BY <1>2, <1>3
<1>5. InStep(b)'
  BY <1>1, <1>2, <1>3 DEF InStep, Sent, Settled
<1> HIDE DEF Stages, Slots
<1> QED BY <1>1, <1>2, <1>3, <1>4, <1>5, StageOnly

\* All uploads are through: the body is made of what the build has hashed.
LEMMA TriggerKeeps == ASSUME IInv, NEW b \in Builds, Trigger(b) PROVE IInv'
<1>1. /\ stage \in [Builds -> Stages] /\ slot \in [Builds -> Slots] /\ DOMAIN body = Builds
      /\ InStep(b)
  BY Given
<1> DEFINE bd == Body(order[b].template,
                      [k \in DOMAIN steps[b] |-> [instr |-> steps[b][k].instr,
                                                  hash |-> steps[b][k].hash]],
                      order[b].skip)
<1>2. /\ stage[b] = "uploading" /\ Settled(b)
      /\ stage' = [stage EXCEPT ![b] = "triggering"]
      /\ slot' = [slot EXCEPT ![b] = "sent"] /\ body' = [body EXCEPT ![b] = bd]
      /\ UNCHANGED <<caller, order, steps, store, adrift, raced>>
  BY DEF Trigger, Becomes
<1> HIDE DEF bd
<1>3. /\ stage' \in [Builds -> Stages] /\ stage'[b] = "triggering"
      /\ \A a \in Builds \ {b} : stage'[a] = stage[a]
  BY <1>1, <1>2, OneChanges DEF Stages
<1>4. /\ slot' \in [Builds -> Slots] /\ slot'[b] = "sent"
      /\ \A a \in Builds \ {b} : slot'[a] = slot[a]
  BY <1>1, <1>2, OneChanges DEF Slots
<1>5. DOMAIN body' = Builds /\ body'[b] = bd /\ \A a \in Builds \ {b} : body'[a] = body[a]
  BY <1>1, <1>2
<1>6. /\ DOMAIN steps[b] = DOMAIN order[b].template.steps
      /\ \A k \in DOMAIN steps[b] : steps[b][k].instr = order[b].template.steps[k]
  BY <1>1, <1>2 DEF InStep
<1>7. Settled(b)' /\ Sent(b)'
  BY <1>2, <1>4 DEF Settled, Sent
<1>8. body'[b] = Body(order[b].template,
                      [k \in DOMAIN steps[b] |-> [instr |-> steps[b][k].instr,
                                                  hash |-> steps[b][k].hash]],
                      order[b].skip)'
  BY <1>2, <1>5 DEF bd
<1>9. InStep(b)'
  <2> HIDE DEF Settled, Sent, Body
  <2> QED BY <1>2, <1>3, <1>4, <1>6, <1>7, <1>8 DEF InStep
<1> HIDE DEF Stages, Slots
<1> QED BY <1>1, <1>2, <1>3, <1>4, <1>5, <1>9, StageOnly

\* The call fails or is dropped: what it was putting is adrift.
LEMMA EndKeeps ==
  ASSUME IInv, NEW b \in Builds,
         NEW st \in {"failed", "dropped"}, Running(b), Ends(b, st),
         UNCHANGED <<caller, order, slot, body, store, raced>>
  PROVE  IInv'
<1>1. /\ stage \in [Builds -> Stages] /\ steps \in [Builds -> Seq(Steps)]
      /\ slot \in [Builds -> Slots] /\ DOMAIN body = Builds /\ ServerTypeOK
      /\ InStep(b) /\ \A k \in DOMAIN steps[b] : Hashed(steps[b][k])
      /\ ~ raced => HonestServer /\ Frank(b)
  BY Given
<1>2. /\ stage[b] \in {"requesting", "uploading", "triggering"}
      /\ stage' = [stage EXCEPT ![b] = st]
      /\ steps' = [steps EXCEPT ![b] = IF stage[b] = "triggering" THEN steps[b] ELSE << >>]
      /\ adrift' = adrift \cup {<<steps[b][k].hash, steps[b][k].archive>> :
                                   k \in InFlight(b)}
  BY DEF Running, Ends, Becomes, SetAdrift
<1>3. /\ stage' \in [Builds -> Stages] /\ stage'[b] = st /\ stage'[b] # "idle"
      /\ \A a \in Builds \ {b} : stage'[a] = stage[a]
  BY <1>1, <1>2, OneChanges DEF Stages
<1> DEFINE ss == IF stage[b] = "triggering" THEN steps[b] ELSE << >>
<1>4. ss \in Seq(Steps)
  BY <1>1
<1>5. /\ steps' \in [Builds -> Seq(Steps)] /\ steps'[b] = ss
      /\ \A a \in Builds \ {b} : steps'[a] = steps[a]
  BY <1>1, <1>2, <1>4
<1>6. ASSUME NEW k \in InFlight(b)
      PROVE  /\ steps[b][k].hash \in Hash /\ steps[b][k].archive \in 0..MaxVersion
             /\ ~ raced => steps[b][k].archive = steps[b][k].hash[3]
  <2>1. k \in DOMAIN steps[b] /\ steps[b][k].at = "putting"
    BY <1>6 DEF InFlight
  <2>2. steps[b][k] \in Steps
    <3> HIDE DEF Steps
    <3> QED BY <1>1, <2>1
  <2>3. ~ raced => steps[b][k].archive = steps[b][k].hash[3]
    BY <1>1, <2>1 DEF Frank, Honest
  <2> HIDE DEF Hash, Steps
  <2> QED BY <2>1, <2>2, <2>3, StepParts
<1>7. ServerTypeOK'
  BY <1>1, <1>2, <1>6 DEF ServerTypeOK
<1>8. ~ raced => HonestServer'
  <2>1. ASSUME ~ raced, NEW p \in adrift' PROVE p[2] = p[1][3]
    <3>1. CASE p \in adrift
      BY <1>1, <2>1, <3>1 DEF HonestServer
    <3>2. CASE p \notin adrift
      BY <1>2, <1>6, <2>1, <3>2
    <3> QED BY <3>1, <3>2
  <2>2. ASSUME ~ raced PROVE StoredUnderItsHash'
    BY <1>1, <2>2 DEF HonestServer, StoredUnderItsHash
  <2> QED BY <2>1, <2>2 DEF HonestServer
<1>9. CASE stage[b] = "triggering"
  <2>1. steps'[b] = steps[b] /\ Sent(b) /\ Sent(b)' /\ Settled(b)'
        /\ \A a \in Builds : steps'[a] = steps[a]
    BY <1>1, <1>5, <1>9 DEF InStep, Sent, Settled
  <2>2. InStep(b)'
    BY <1>1, <1>3, <1>9, <2>1 DEF InStep, Sent
  <2>3. Sound(b)' /\ (~ raced => Frank(b)')
    BY <1>1, <2>1, <2>2 DEF Sound, Frank, Hashed, Honest, caller
  <2> HIDE DEF Sound, Frank, HonestServer, ServerTypeOK, Stages, Slots, Steps
  <2> QED BY <1>1, <1>2, <1>3, <1>5, <1>7, <1>8, <2>3, BuildStep
<1>10. CASE stage[b] # "triggering"
  <2>1. steps'[b] = << >> /\ ~ Sent(b) /\ ~ Sent(b)' /\ DOMAIN steps'[b] = {}
    BY <1>1, <1>2, <1>5, <1>10 DEF InStep, Sent
  <2>2. InStep(b)'
    BY <1>1, <1>2, <1>3, <1>10, <2>1 DEF InStep, Sent
  <2>3. Sound(b)' /\ Frank(b)'
    BY <2>1, <2>2 DEF Sound, Frank
  <2> HIDE DEF Sound, Frank, HonestServer, ServerTypeOK, Stages, Slots, Steps
  <2> QED BY <1>1, <1>2, <1>3, <1>5, <1>7, <1>8, <2>3, BuildStep
<1> QED BY <1>9, <1>10

LEMMA UploadFailsKeeps ==
  ASSUME IInv, NEW b \in Builds, NEW k, UploadFails(b, k) PROVE IInv'
BY EndKeeps DEF UploadFails, Running

LEMMA DropKeeps == ASSUME IInv, NEW b \in Builds, Drop(b) PROVE IInv'
BY EndKeeps DEF Drop

LEMMA AllottedKeeps == ASSUME IInv, NEW b \in Builds, Allotted(b) PROVE IInv'
<1>1. /\ stage \in [Builds -> Stages] /\ steps \in [Builds -> Seq(Steps)]
      /\ slot \in [Builds -> Slots] /\ DOMAIN body = Builds /\ ServerTypeOK
      /\ order[b].template \in Templates /\ InStep(b)
      /\ ~ raced => HonestServer
  BY Given
<1>2. files \in [Sources -> 0..MaxVersion]
  BY InvParts, TypeParts
<1> DEFINE is == order[b].template.steps
           ss == WithHashes(is)
<1>3. is \in Seq(Instructions)
  BY <1>1 DEF Templates
<1>4. /\ stage[b] = "requesting" /\ slot[b] = "waiting"
      /\ \A k \in DOMAIN is : is[k].type = "COPY" => Matches(is[k].args[1])
      /\ stage' = [stage EXCEPT ![b] = "uploading"]
      /\ steps' = [steps EXCEPT ![b] = ss]
      /\ UNCHANGED <<caller, order, slot, body, store, adrift, raced>>
  BY DEF Allotted, Becomes, server
<1>5. /\ ss \in Seq(Steps) /\ DOMAIN ss = DOMAIN is
      /\ \A k \in DOMAIN ss :
           /\ ss[k].instr = is[k] /\ ss[k].at \in {"plain", "hashed"}
           /\ ss[k].instr.type = "COPY" =>
                /\ ss[k].hash[1] = ss[k].instr.args[1] /\ ss[k].hash[3] # 0
                /\ ss[k].hash[3] = files[ss[k].instr.args[1]]
  BY <1>2, <1>3, <1>4, StepHashed
<1> HIDE DEF ss
<1>6. ASSUME NEW k \in DOMAIN ss
      PROVE  ss[k].at = "hashed" => ss[k].hash[3] = files[ss[k].instr.args[1]]
  <2>1. ss[k] \in Steps
    <3> HIDE DEF Steps
    <3> QED BY <1>5
  <2>2. ss[k].at # "plain" <=> ss[k].instr.type = "COPY"
    BY <2>1, StepParts
  <2> QED BY <1>5, <2>2
<1>7. /\ stage' \in [Builds -> Stages] /\ stage'[b] = "uploading"
      /\ \A a \in Builds \ {b} : stage'[a] = stage[a]
  BY <1>1, <1>4, OneChanges DEF Stages
<1>8. /\ steps' \in [Builds -> Seq(Steps)] /\ steps'[b] = ss
      /\ \A a \in Builds \ {b} : steps'[a] = steps[a]
  <2> HIDE DEF Steps
  <2> QED BY <1>1, <1>4, <1>5, OneChanges
<1>9. InStep(b)'
  BY <1>4, <1>5, <1>7, <1>8 DEF InStep, Sent
<1>10. Sound(b)'
  BY <1>5, <1>8, <1>9 DEF Sound, Hashed
<1>11. Frank(b)'
  BY <1>4, <1>5, <1>6, <1>8 DEF Frank, Honest, caller
<1>12. ServerTypeOK' /\ (~ raced => HonestServer')
  BY <1>1, <1>4 DEF ServerTypeOK, HonestServer, StoredUnderItsHash
<1> HIDE DEF Sound, Frank, HonestServer, ServerTypeOK, Stages, Slots, Steps
<1> QED BY <1>1, <1>4, <1>7, <1>8, <1>10, <1>11, <1>12, BuildStep

\* One upload moves on.
LEMMA UploadMoves ==
  ASSUME IInv, NEW b \in Builds, NEW k \in DOMAIN steps[b], stage[b] = "uploading",
         NEW t \in Steps, t.instr = steps[b][k].instr, t.hash = steps[b][k].hash,
         steps' = [steps EXCEPT ![b] = [steps[b] EXCEPT ![k] = t]],
         UNCHANGED <<caller, stage, order, slot, body, raced>>,
         ServerTypeOK', DOMAIN store \subseteq DOMAIN store', ~ raced => HonestServer',
         t.at = "done" => t.hash \in DOMAIN store',
         ~ raced => Honest(t)
  PROVE  IInv'
<1>1. /\ stage \in [Builds -> Stages] /\ steps \in [Builds -> Seq(Steps)]
      /\ slot \in [Builds -> Slots] /\ DOMAIN body = Builds
      /\ InStep(b) /\ \A j \in DOMAIN steps[b] : Hashed(steps[b][j])
      /\ ~ raced => Frank(b)
  BY Given
<1> DEFINE tt == [steps[b] EXCEPT ![k] = t]
<1>2. /\ tt \in Seq(Steps) /\ DOMAIN tt = DOMAIN steps[b] /\ tt[k] = t
      /\ \A j \in DOMAIN steps[b] : j # k => tt[j] = steps[b][j]
  <2>1. steps[b] \in Seq(Steps)
    BY <1>1
  <2> QED BY <2>1, OneMoves
<1> HIDE DEF tt
<1>3. /\ steps' \in [Builds -> Seq(Steps)] /\ steps'[b] = tt
      /\ \A a \in Builds \ {b} : steps'[a] = steps[a]
  <2>1. steps' = [steps EXCEPT ![b] = tt]
    BY DEF tt
  <2> HIDE DEF Steps
  <2> QED BY <1>1, <1>2, <2>1, OneChanges
<1>4. \A j \in DOMAIN tt : tt[j].instr = steps[b][j].instr
  BY <1>2
<1>5. slot[b] = "waiting" /\ ~ Sent(b) /\ ~ Sent(b)'
  BY <1>1 DEF InStep, Sent
<1>6. InStep(b)'
  BY <1>1, <1>2, <1>3, <1>4, <1>5 DEF InStep
<1>7. ASSUME NEW j \in DOMAIN tt PROVE Hashed(steps[b][j])'
  <2>1. CASE j # k
    BY <1>1, <1>2, <1>3, <2>1 DEF Hashed
  <2>2. CASE j = k
    <3>1. Hashed(steps[b][k])
      BY <1>1
    <3>2. steps'[b][j] = t
      BY <1>2, <1>3, <2>2
    <3> QED BY <3>1, <3>2 DEF Hashed
  <2> QED BY <2>1, <2>2
<1>8. Sound(b)'
  BY <1>3, <1>6, <1>7 DEF Sound
<1>9. ASSUME ~ raced PROVE Frank(b)'
  <2>1. \A j \in DOMAIN tt : Honest(tt[j])
    <3>1. \A j \in DOMAIN steps[b] : Honest(steps[b][j])
      BY <1>1, <1>9 DEF Frank
    <3> HIDE DEF Honest
    <3> QED BY <1>2, <1>9, <3>1
  <2> QED BY <1>3, <2>1 DEF Frank, Honest, caller
<1> HIDE DEF Sound, Frank, HonestServer, ServerTypeOK, Stages, Slots, Steps
<1> QED BY <1>1, <1>3, <1>8, <1>9, BuildStep

LEMMA LinkAnsweredKeeps ==
  ASSUME IInv, NEW b \in Builds, NEW k \in DOMAIN steps[b], LinkAnswered(b, k)
  PROVE  IInv'
<1> DEFINE s == steps[b][k]
           present == s.hash \in DOMAIN store
           upload == s.instr.upload \/ ~ present
<1>1. /\ stage[b] = "uploading" /\ s.at = "hashed"
      /\ UNCHANGED <<caller, stage, order, slot, body, store, adrift, raced>>
      /\ \E url \in BOOLEAN :
           IF upload /\ url
           THEN steps' = [steps EXCEPT
                  ![b] = [steps[b] EXCEPT ![k] =
                    [s EXCEPT !.at = "putting", !.archive = Archived(s.instr)]]]
           ELSE steps' = [steps EXCEPT ![b] = [steps[b] EXCEPT ![k] =
                    [s EXCEPT !.at = IF upload THEN "withheld" ELSE "done"]]]
  BY DEF LinkAnswered, Moves, server
<1>2. /\ steps \in [Builds -> Seq(Steps)] /\ ServerTypeOK
      /\ Hashed(s) /\ (~ raced => HonestServer /\ Frank(b))
  BY Given
<1>3. s \in Steps
  <2> HIDE DEF Steps
  <2> QED BY <1>2
<1>4. /\ s \in [instr : Instructions, hash : Hash \union {<< >>},
                at : {"plain", "hashed", "putting", "done", "withheld"},
                archive : 0..MaxVersion]
      /\ s.instr.type = "COPY" /\ s.hash \in Hash /\ s.archive = 0
  BY <1>1, <1>3, StepParts
<1>5. ServerTypeOK' /\ (~ raced => HonestServer') /\ DOMAIN store \subseteq DOMAIN store'
  BY <1>1, <1>2 DEF ServerTypeOK, HonestServer, StoredUnderItsHash
<1>6. ~ raced => s.hash[3] = files[s.instr.args[1]]
  <2>1. ~ raced => Honest(s)
    BY <1>2 DEF Frank
  <2> HIDE DEF s
  <2> QED BY <1>1, <2>1 DEF Honest
<1>7. files[s.instr.args[1]] \in 0..MaxVersion
  <2>1. files \in [Sources -> 0..MaxVersion]
    BY InvParts, TypeParts
  <2>2. s.instr \in Instructions
    BY <1>4
  <2>3. s.instr.args[1] \in Sources
    BY <1>4, <2>2 DEF Instructions
  <2> QED BY <2>1, <2>3
<1> HIDE DEF s
<1>8. PICK t \in Steps :
        /\ t.instr = s.instr /\ t.hash = s.hash
        /\ steps' = [steps EXCEPT ![b] = [steps[b] EXCEPT ![k] = t]]
        /\ t.at = "done" => t.hash \in DOMAIN store'
        /\ ~ raced => Honest(t)
  <2>1. CASE steps' = [steps EXCEPT
               ![b] = [steps[b] EXCEPT ![k] =
                 [s EXCEPT !.at = "putting", !.archive = Archived(s.instr)]]]
    <3> DEFINE t == [s EXCEPT !.at = "putting", !.archive = Archived(s.instr)]
    <3>1. /\ t \in Steps /\ t.at = "putting" /\ t.archive = Archived(s.instr)
          /\ t.instr = s.instr /\ t.hash = s.hash
      <4>1. Archived(s.instr) \in 0..MaxVersion /\ s.at # "plain"
        BY <1>1, <1>7 DEF Archived
      <4>2. t.at = "putting" /\ t.archive = Archived(s.instr)
        BY <1>4
      <4>3. t = [s EXCEPT !.at = t.at, !.archive = t.archive]
        BY <1>4, <4>2
      <4> HIDE DEF Archived, t
      <4> QED BY <1>3, <4>1, <4>2, <4>3, StepMoved
    <3>2. steps' = [steps EXCEPT ![b] = [steps[b] EXCEPT ![k] = t]]
      BY <2>1
    <3> HIDE DEF t
    <3>3. ~ raced => Honest(t)
      BY <1>6, <3>1 DEF Honest, Archived
    <3> QED BY <3>1, <3>2, <3>3
  <2>2. CASE steps' = [steps EXCEPT ![b] = [steps[b] EXCEPT ![k] =
               [s EXCEPT !.at = IF upload THEN "withheld" ELSE "done"]]]
    <3> DEFINE at == IF upload THEN "withheld" ELSE "done"
               t == [s EXCEPT !.at = at]
    <3>0. at \in {"withheld", "done"} /\ (at = "done" => present /\ ~ s.instr.upload)
      OBVIOUS
    <3>1. steps' = [steps EXCEPT ![b] = [steps[b] EXCEPT ![k] = t]]
      BY <2>2
    <3> HIDE DEF at
    <3>2. /\ t \in Steps /\ t.at = at /\ t.instr = s.instr /\ t.hash = s.hash
      <4>1. s.at # "plain" /\ s.archive \in 0..MaxVersion
        BY <1>1, <1>4
      <4>2. t.at = at /\ t.archive = s.archive
        BY <1>4
      <4>3. t = [s EXCEPT !.at = t.at, !.archive = t.archive]
        BY <1>4, <4>2
      <4> HIDE DEF t
      <4> QED BY <1>3, <1>4, <3>0, <4>1, <4>2, <4>3, StepMoved
    <3> HIDE DEF t
    <3>3. Honest(t)
      BY <3>0, <3>2 DEF Honest
    <3>4. t.at = "done" => t.hash \in DOMAIN store'
      BY <1>1, <3>0, <3>2
    <3> QED BY <3>1, <3>2, <3>3, <3>4
  <2> QED BY <1>1, <2>1, <2>2
<1>9. t.instr = steps[b][k].instr /\ t.hash = steps[b][k].hash
  BY <1>8 DEF s
<1> HIDE DEF HonestServer, ServerTypeOK, Steps, Honest
<1> QED BY <1>1, <1>5, <1>8, <1>9, UploadMoves

\* An archive lands under its hash.
LEMMA StoredKeeps ==
  ASSUME ServerTypeOK, NEW h \in Hash, NEW v \in 0..MaxVersion, Stored(h, v)
  PROVE  /\ store' \in [DOMAIN store' -> 0..MaxVersion] /\ DOMAIN store' \subseteq Hash
         /\ DOMAIN store \subseteq DOMAIN store' /\ h \in DOMAIN store'
         /\ StoredUnderItsHash /\ v = h[3] => StoredUnderItsHash'
<1> HIDE DEF Hash
<1> QED BY DEF Stored, ServerTypeOK, StoredUnderItsHash

LEMMA LandsKeeps ==
  ASSUME IInv, NEW b \in Builds, NEW k \in DOMAIN steps[b], Lands(b, k)
  PROVE  IInv'
<1> DEFINE s == steps[b][k]
           t == [s EXCEPT !.at = "done"]
<1>1. /\ stage[b] = "uploading" /\ s.at = "putting" /\ Stored(s.hash, s.archive)
      /\ steps' = [steps EXCEPT ![b] = [steps[b] EXCEPT ![k] = t]]
      /\ UNCHANGED <<caller, stage, order, slot, body, adrift, raced>>
  BY DEF Lands, Moves
<1>2. /\ steps \in [Builds -> Seq(Steps)] /\ ServerTypeOK
      /\ (~ raced => HonestServer /\ Frank(b))
  BY Given
<1>3. s \in Steps
  <2> HIDE DEF Steps
  <2> QED BY <1>2
<1>4. s.hash \in Hash /\ s.archive \in 0..MaxVersion
  BY <1>1, <1>3, StepParts
<1>5. ~ raced => s.archive = s.hash[3]
  <2>1. ~ raced => Honest(s)
    BY <1>2 DEF Frank
  <2> HIDE DEF s
  <2> QED BY <1>1, <2>1 DEF Honest
<1>6. /\ t \in Steps /\ t.at = "done" /\ t.archive = s.archive /\ t.instr = s.instr
      /\ t.hash = s.hash
  <2> HIDE DEF s
  <2>1. t.at = "done" /\ t.archive = s.archive
    BY <1>3, StepParts
  <2>2. t = [s EXCEPT !.at = t.at, !.archive = t.archive]
    BY <1>3, <2>1, StepParts
  <2> HIDE DEF t
  <2> QED BY <1>1, <1>3, <1>4, <2>1, <2>2, StepMoved
<1> HIDE DEF t, s
<1>7. /\ store' \in [DOMAIN store' -> 0..MaxVersion] /\ DOMAIN store' \subseteq Hash
      /\ DOMAIN store \subseteq DOMAIN store' /\ s.hash \in DOMAIN store'
      /\ StoredUnderItsHash /\ s.archive = s.hash[3] => StoredUnderItsHash'
  BY <1>1, <1>2, <1>4, StoredKeeps
<1>8. ServerTypeOK' /\ (~ raced => HonestServer')
  BY <1>1, <1>2, <1>5, <1>7 DEF ServerTypeOK, HonestServer
<1>9. ~ raced => Honest(t)
  BY <1>5, <1>6 DEF Honest
<1>10. t.instr = steps[b][k].instr /\ t.hash = steps[b][k].hash
  BY <1>6 DEF s
<1> HIDE DEF HonestServer, ServerTypeOK, Steps, Honest
<1> QED BY <1>1, <1>6, <1>7, <1>8, <1>9, <1>10, UploadMoves

-----------------------------------------------------------------------------
(* The other steps.                                                        *)

LEMMA BuildKeeps ==
  ASSUME IInv, NEW b \in Builds, NEW skip \in BOOLEAN, Build(b, skip) PROVE IInv'
<1>1. /\ TypeOK /\ Meant(template, said, pusher)
      /\ \A a \in Builds : stage[a] # "idle" => Agreed(order[a])
      /\ \A a \in Builds : Sound(a)
      /\ ~ raced => HonestServer /\ \A a \in Builds : Frank(a)
  BY InvParts
<1>2. /\ stage[b] = "idle" /\ spent < Effort /\ spent' = spent + 1
      /\ stage' = [stage EXCEPT ![b] = "requesting"]
      /\ order' = [order EXCEPT ![b] = [template |-> template, skip |-> skip,
                                        said |-> said, pusher |-> pusher]]
      /\ slot' = [slot EXCEPT ![b] = "asked"]
      /\ UNCHANGED <<template, said, pusher, files, edits, steps, body, store, adrift,
                     raced>>
  BY DEF Build, Becomes
<1>3. /\ ChainTypeOK /\ stage \in [Builds -> Stages] /\ order \in [Builds -> Orders]
      /\ steps \in [Builds -> Seq(Steps)] /\ slot \in [Builds -> Slots]
      /\ files \in [Sources -> 0..MaxVersion] /\ edits \in 0..MaxEdits
      /\ DOMAIN body = Builds /\ ServerTypeOK /\ raced \in BOOLEAN
  BY <1>1, TypeParts
<1>4. /\ stage' \in [Builds -> Stages] /\ stage'[b] = "requesting"
      /\ \A a \in Builds \ {b} : stage'[a] = stage[a]
  BY <1>2, <1>3, OneChanges DEF Stages
<1>5. /\ slot' \in [Builds -> Slots] /\ slot'[b] = "asked"
      /\ \A a \in Builds \ {b} : slot'[a] = slot[a]
  BY <1>2, <1>3, OneChanges DEF Slots
<1> DEFINE new == [template |-> template, skip |-> skip, said |-> said, pusher |-> pusher]
<1>6. new \in Orders /\ Agreed(new)
  <2>1. /\ template \in Templates /\ said \in Seq(Names) /\ pusher \in Seq(Nat)
        /\ Meant(template, said, pusher)
    BY <1>1, <1>3 DEF ChainTypeOK
  <2> HIDE DEF Templates, Names, Meant
  <2> QED BY <2>1 DEF Orders, Agreed
<1>7. /\ order' \in [Builds -> Orders] /\ order'[b] = new
      /\ \A a \in Builds \ {b} : order'[a] = order[a]
  <2>1. order' = [order EXCEPT ![b] = new]
    BY <1>2
  <2> HIDE DEF new, Orders
  <2> QED BY <1>3, <1>6, <2>1, OneChanges
<1>8. ChainTypeOK'
  <2>1. Effort \in Nat
    BY TemplateBuildAssumption
  <2> QED BY <1>2, <1>3, <2>1 DEF ChainTypeOK
<1>9. TypeOK'
  <2>1. ServerTypeOK'
    BY <1>2, <1>3 DEF ServerTypeOK
  <2> QED
    BY <1>2, <1>3, <1>4, <1>5, <1>7, <1>8, <2>1
       DEF TypeOK, ChainTypeOK, Orders, Stages, Slots, ServerTypeOK
<1>10. Sound(b)'
  <2>1. InStep(b)
    BY <1>1 DEF Sound
  <2>2. steps[b] = << >> /\ steps'[b] = << >> /\ ~ Sent(b)'
    BY <1>2, <1>5, <2>1 DEF InStep, Sent
  <2>3. InStep(b)'
    BY <1>4, <1>5, <2>2 DEF InStep, Sent
  <2> QED BY <2>2, <2>3 DEF Sound
<1>11. \A a \in Builds : Sound(a)'
  <2>1. ASSUME NEW a \in Builds, a # b PROVE Sound(a)'
    BY <1>1, <1>2, <1>4, <1>5, <1>7, <2>1, StaysSound
  <2> QED BY <1>10, <2>1
<1>12. ~ raced' => HonestServer' /\ \A a \in Builds : Frank(a)'
  <2>1. ASSUME ~ raced, NEW a \in Builds PROVE Frank(a)'
    BY <1>1, <1>2, <2>1, StaysFrank
  <2>2. ~ raced => HonestServer'
    BY <1>1, <1>2 DEF HonestServer, StoredUnderItsHash
  <2> QED BY <1>2, <2>1, <2>2
<1>13. \A a \in Builds : stage'[a] # "idle" => Agreed(order'[a])
  <2>1. Agreed(order'[b])
    BY <1>6, <1>7
  <2> HIDE DEF Agreed, new
  <2> QED BY <1>1, <1>4, <1>7, <2>1
<1>14. Meant(template, said, pusher)'
  BY <1>1, <1>2
<1> HIDE DEF TypeOK, Meant, InStep, Hashed, Honest, StoredUnderItsHash
<1> QED BY <1>9, <1>11, <1>12, <1>13, <1>14 DEF IInv, Agreed, Sound, Frank, HonestServer

LEMMA CallsKeep == ASSUME IInv, Calls \/ CopyRefused PROVE IInv'
<1>1. /\ TypeOK /\ Meant(template, said, pusher)
      /\ \A a \in Builds : stage[a] # "idle" => Agreed(order[a])
      /\ \A a \in Builds : Sound(a)
      /\ ~ raced => HonestServer /\ \A a \in Builds : Frank(a)
  BY InvParts
<1>2. ChainTypeOK
  BY <1>1, TypeParts
<1>3. /\ ChainTypeOK' /\ Meant(template, said, pusher)'
      /\ UNCHANGED <<files, edits, stage, order, steps, slot, body, store, adrift, raced>>
  BY <1>1, <1>2, ChainIsFollowed, RefusedStartsOver DEF setup, server
<1>5. TypeOK'
  BY <1>1, <1>3 DEF TypeOK, ChainTypeOK
<1>6. \A a \in Builds : Sound(a)'
  BY <1>1, <1>3, StaysSound
<1>7. ~ raced' => HonestServer' /\ \A a \in Builds : Frank(a)'
  <2>1. ASSUME ~ raced, NEW a \in Builds PROVE Frank(a)'
    BY <1>1, <1>3, <2>1, StaysFrank
  <2>2. ~ raced => HonestServer'
    BY <1>1, <1>3 DEF HonestServer, StoredUnderItsHash
  <2> QED BY <1>3, <2>1, <2>2
<1>8. \A a \in Builds : stage'[a] # "idle" => Agreed(order'[a])
  BY <1>1, <1>3
<1> HIDE DEF TypeOK, Meant, InStep, Hashed, Honest, StoredUnderItsHash
<1> QED BY <1>3, <1>5, <1>6, <1>7, <1>8 DEF IInv, Agreed, Sound, Frank, HonestServer

\* The store takes a PUT whose sender is gone.
LEMMA LandsLateKeeps == ASSUME IInv, LandsLate PROVE IInv'
<1>1. /\ TypeOK /\ Meant(template, said, pusher)
      /\ \A a \in Builds : stage[a] # "idle" => Agreed(order[a])
      /\ \A a \in Builds : Sound(a)
      /\ ~ raced => HonestServer /\ \A a \in Builds : Frank(a)
  BY InvParts
<1>2. PICK p \in adrift : Stored(p[1], p[2]) /\ adrift' = adrift \ {p}
  BY DEF LandsLate
<1>3. UNCHANGED <<template, said, pusher, spent, files, edits, stage, order, steps, slot,
                  body, raced>>
  BY DEF LandsLate, caller, setup
<1>4. ServerTypeOK
  BY <1>1, TypeParts
<1>5. p[1] \in Hash /\ p[2] \in 0..MaxVersion
  <2> HIDE DEF Hash
  <2> QED BY <1>4 DEF ServerTypeOK
<1>6. /\ store' \in [DOMAIN store' -> 0..MaxVersion] /\ DOMAIN store' \subseteq Hash
      /\ DOMAIN store \subseteq DOMAIN store'
      /\ StoredUnderItsHash /\ p[2] = p[1][3] => StoredUnderItsHash'
  BY <1>2, <1>4, <1>5, StoredKeeps
<1>8. TypeOK'
  <2>1. adrift' \subseteq Hash \X (0..MaxVersion)
    BY <1>2, <1>4 DEF ServerTypeOK
  <2> HIDE DEF Steps, Hash
  <2> QED BY <1>1, <1>3, <1>6, <2>1 DEF TypeOK
<1>9. \A a \in Builds : Sound(a)'
  BY <1>1, <1>3, <1>6, StaysSound
<1>10. ~ raced' => HonestServer' /\ \A a \in Builds : Frank(a)'
  <2>1. ASSUME ~ raced, NEW a \in Builds PROVE Frank(a)'
    BY <1>1, <1>3, <2>1, StaysFrank
  <2>2. ~ raced => HonestServer'
    BY <1>1, <1>2, <1>6 DEF HonestServer
  <2> QED BY <1>3, <2>1, <2>2
<1>11. \A a \in Builds : stage'[a] # "idle" => Agreed(order'[a])
  BY <1>1, <1>3
<1>12. Meant(template, said, pusher)'
  BY <1>1, <1>3
<1> HIDE DEF TypeOK, Meant, InStep, Hashed, Honest, StoredUnderItsHash
<1> QED BY <1>8, <1>9, <1>10, <1>11, <1>12 DEF IInv, Agreed, Sound, Frank, HonestServer

\* An edit is raced by whatever is between its two reads.
LEMMA EditKeeps == ASSUME IInv, NEW src \in Sources, Edit(src) PROVE IInv'
<1>1. /\ TypeOK /\ Meant(template, said, pusher)
      /\ \A a \in Builds : stage[a] # "idle" => Agreed(order[a])
      /\ \A a \in Builds : Sound(a)
      /\ ~ raced => HonestServer /\ \A a \in Builds : Frank(a)
  BY InvParts
<1>2. PICK v \in 0..MaxVersion : files' = [files EXCEPT ![src] = v]
  BY DEF Edit
<1>3. /\ edits < MaxEdits /\ edits' = edits + 1
      /\ raced' = (raced \/ BetweenReads(src))
      /\ UNCHANGED <<template, said, pusher, spent, stage, order, steps, slot, body, store,
                     adrift>>
  BY DEF Edit, setup
<1>4. files \in [Sources -> 0..MaxVersion] /\ edits \in 0..MaxEdits /\ raced \in BOOLEAN
  BY <1>1, TypeParts
<1>6. TypeOK'
  <2>1. /\ files' \in [Sources -> 0..MaxVersion] /\ edits' \in 0..MaxEdits
        /\ raced' \in BOOLEAN
    <3>1. MaxEdits \in Nat
      BY TemplateBuildAssumption
    <3>2. edits' \in 0..MaxEdits
      BY <1>3, <1>4, <3>1
    <3> QED BY <1>2, <1>3, <1>4, <3>2
  <2> HIDE DEF Steps, Hash
  <2> QED BY <1>1, <1>3, <2>1 DEF TypeOK
<1>7. \A a \in Builds : Sound(a)'
  <2>1. ASSUME NEW a \in Builds PROVE Sound(a)'
    BY <1>1, <1>3, StaysSound
  <2> QED BY <2>1
<1>8. ASSUME ~ raced', NEW a \in Builds PROVE Frank(a)'
  <2>1. Frank(a) /\ Sound(a) /\ ~ BetweenReads(src)
    BY <1>1, <1>3, <1>8
  <2>2. ASSUME NEW k \in DOMAIN steps[a], steps[a][k].at = "hashed"
        PROVE  steps[a][k].hash[3] = files'[steps[a][k].instr.args[1]]
    <3>1. steps[a][k].hash[3] = files[steps[a][k].instr.args[1]]
      BY <2>1, <2>2 DEF Frank, Honest
    <3>2. stage[a] = "uploading"
      <4>1. InStep(a)
        BY <2>1 DEF Sound
      <4>2. Sent(a) => FALSE
        BY <2>2, <4>1 DEF InStep, Settled
      <4>3. steps[a] # << >>
        BY <2>2
      <4> QED BY <4>1, <4>2, <4>3 DEF InStep
    <3>3. steps[a][k].instr.args[1] # src
      BY <2>1, <2>2, <3>2 DEF BetweenReads
    <3> QED BY <1>2, <1>4, <3>1, <3>3
  <2> QED BY <1>3, <2>1, <2>2 DEF Frank, Honest
<1>9. ~ raced' => HonestServer' /\ \A a \in Builds : Frank(a)'
  <2>1. ~ raced' => HonestServer'
    BY <1>1, <1>3, <1>4 DEF HonestServer, StoredUnderItsHash
  <2> QED BY <1>8, <2>1
<1>10. \A a \in Builds : stage'[a] # "idle" => Agreed(order'[a])
  BY <1>1, <1>3
<1>11. Meant(template, said, pusher)'
  BY <1>1, <1>3
<1> HIDE DEF TypeOK, Meant, InStep, Hashed, Honest, StoredUnderItsHash
<1> QED BY <1>6, <1>7, <1>9, <1>10, <1>11 DEF IInv, Agreed, Sound, Frank, HonestServer

LEMMA RestKeeps == ASSUME IInv, UNCHANGED vars PROVE IInv'
<1>1. /\ TypeOK /\ Meant(template, said, pusher)
      /\ \A a \in Builds : stage[a] # "idle" => Agreed(order[a])
      /\ \A a \in Builds : Sound(a)
      /\ ~ raced => HonestServer /\ \A a \in Builds : Frank(a)
  BY InvParts
<1>2. UNCHANGED <<template, said, pusher, spent, files, edits, stage, order, steps, slot, body, store,
                  adrift, raced>>
  BY DEF vars, caller, setup, server
<1>3. TypeOK'
  BY <1>1, <1>2 DEF TypeOK
<1>4. \A a \in Builds : Sound(a)'
  BY <1>1, <1>2, StaysSound
<1>5. ~ raced' => HonestServer' /\ \A a \in Builds : Frank(a)'
  <2>1. ASSUME ~ raced, NEW a \in Builds PROVE Frank(a)'
    BY <1>1, <1>2, <2>1, StaysFrank
  <2>2. ~ raced => HonestServer'
    BY <1>1, <1>2 DEF HonestServer, StoredUnderItsHash
  <2> QED BY <1>2, <2>1, <2>2
<1>6. \A a \in Builds : stage'[a] # "idle" => Agreed(order'[a])
  BY <1>1, <1>2
<1>7. Meant(template, said, pusher)'
  BY <1>1, <1>2
<1> HIDE DEF TypeOK, Meant, InStep, Hashed, Honest, StoredUnderItsHash
<1> QED BY <1>3, <1>4, <1>5, <1>6, <1>7 DEF IInv, Agreed, Sound, Frank, HonestServer

LEMMA Begins == Init => IInv
<1> SUFFICES ASSUME Init PROVE IInv
  OBVIOUS
<1>1. /\ template = New /\ said = << >> /\ pusher = << >> /\ spent = 0
      /\ files = [x \in Sources |-> 1] /\ edits = 0
      /\ stage = [b \in Builds |-> "idle"]
      /\ order = [b \in Builds |-> [template |-> New, skip |-> FALSE, said |-> << >>,
                                    pusher |-> << >>]]
      /\ steps = [b \in Builds |-> << >>] /\ slot = [b \in Builds |-> "none"]
      /\ body = [b \in Builds |-> None] /\ store = Nothing /\ adrift = {}
      /\ raced = FALSE
  BY DEF Init
<1>2. New \in Templates /\ Meant(New, << >>, << >>)
  BY NewIsFine
<1>3. << >> \in Seq(Names) /\ << >> \in Seq(Steps) /\ << >> \in Seq(Nat)
  OBVIOUS
<1>6. ServerTypeOK /\ HonestServer
  BY <1>1 DEF ServerTypeOK, HonestServer, StoredUnderItsHash, Nothing
<1>7. TypeOK
  <2>1. /\ files \in [Sources -> 0..MaxVersion] /\ edits \in 0..MaxEdits
        /\ spent \in 0..Effort
    <3>1. MaxVersion \in Nat /\ MaxVersion > 0 /\ MaxEdits \in Nat /\ Effort \in Nat
      BY TemplateBuildAssumption
    <3>3. files \in [Sources -> 0..MaxVersion]
      BY <1>1, <3>1
    <3> QED BY <1>1, <3>1, <3>3
  <2>2. /\ stage \in [Builds -> Stages] /\ slot \in [Builds -> Slots]
        /\ raced \in BOOLEAN /\ DOMAIN body = Builds
    BY <1>1 DEF Stages, Slots
  <2>3. steps \in [Builds -> Seq(Steps)]
    BY <1>1, <1>3
  <2>4. order \in [Builds -> Orders]
    <3>1. [template |-> New, skip |-> FALSE, said |-> << >>, pusher |-> << >>] \in Orders
      <4> HIDE DEF Names, Templates
      <4> QED BY <1>2, <1>3 DEF Orders
    <3> HIDE DEF Orders
    <3> QED BY <1>1, <3>1
  <2>5. ChainTypeOK
    BY <1>1, <1>2, <1>3, <2>1 DEF ChainTypeOK
  <2> HIDE DEF ServerTypeOK, ChainTypeOK, Orders
  <2> QED BY <1>6, <2>1, <2>2, <2>3, <2>4, <2>5, TypeParts
<1>8. ASSUME NEW b \in Builds PROVE Sound(b) /\ Frank(b)
  <2>1. steps[b] = << >> /\ DOMAIN steps[b] = {} /\ stage[b] = "idle" /\ slot[b] = "none"
    BY <1>1
  <2>2. InStep(b)
    BY <2>1 DEF InStep, Sent
  <2> QED BY <2>1, <2>2 DEF Sound, Frank
<1> HIDE DEF TypeOK, Meant
<1> QED BY <1>1, <1>2, <1>6, <1>7, <1>8, InvParts

-----------------------------------------------------------------------------
(* The theorems.                                                           *)

\* Every step keeps the invariant.
LEMMA StepIsGood == IInv /\ [Next]_vars => IInv'
<1> SUFFICES ASSUME IInv, [Next]_vars PROVE IInv'
  OBVIOUS
<1>1. CASE Calls \/ CopyRefused
  BY <1>1, CallsKeep
<1>2. CASE \E b \in Builds, skip \in BOOLEAN : Build(b, skip)
  BY <1>2, BuildKeeps
<1>3. ASSUME NEW b \in Builds, SetsUp(b) PROVE IInv'
  <2>1. CASE \E k \in DOMAIN steps[b] :
               LinkAnswered(b, k) \/ Lands(b, k) \/ UploadFails(b, k)
    BY <2>1, LinkAnsweredKeeps, LandsKeeps, UploadFailsKeeps
  <2>2. CASE Allot(b) \/ Allotted(b) \/ RequestFails(b) \/ HashFails(b)
             \/ Trigger(b) \/ Start(b) \/ Triggered(b)
    BY <2>2, AllotKeeps, AllottedKeeps, EndOfRequestKeeps, TriggerKeeps, StartKeeps
  <2> QED BY <1>3, <2>1, <2>2 DEF SetsUp
<1>4. CASE \E b \in Builds : Drop(b)
  BY <1>4, DropKeeps
<1>5. CASE LandsLate
  BY <1>5, LandsLateKeeps
<1>6. CASE \E src \in Sources : Edit(src)
  BY <1>6, EditKeeps
<1>7. CASE UNCHANGED vars
  BY <1>7, RestKeeps
<1> QED BY <1>1, <1>2, <1>3, <1>4, <1>5, <1>6, <1>7 DEF Next

\* The inductive invariant of builder chains, of builds and of what they store: for
\* every set of builds, sources, items and Dockerfiles, and every number of edits.
THEOREM Invariance == Spec => []IInv
<1>1. Spec => Init /\ [][Next]_vars
  BY DEF Spec
<1> QED BY <1>1, Begins, StepIsGood, PTL

\* A build that is triggered has all its contexts in the store, but those the
\* server had no URL for; beside it, the invariant that it follows from.
THEOREM ContextsAreThere == Spec => []Inv
<1>1. IInv => ContextsReady
  <2> SUFFICES ASSUME IInv, NEW b \in Builds, Sent(b), NEW k \in DOMAIN steps[b],
                      steps[b][k].instr.type = "COPY"
               PROVE  \/ steps[b][k].at = "withheld"
                      \/ steps[b][k].hash \in DOMAIN store
    BY DEF ContextsReady
  <2>1. /\ steps \in [Builds -> Seq(Steps)] /\ InStep(b) /\ Hashed(steps[b][k])
    BY Given
  <2>2. steps[b][k] \in Steps
    <3> HIDE DEF Steps
    <3> QED BY <2>1
  <2>3. steps[b][k].at # "plain"
    BY <2>2, StepParts
  <2>4. steps[b][k].at \in {"plain", "done", "withheld"}
    BY <2>1 DEF InStep, Settled
  <2> QED BY <2>1, <2>3, <2>4 DEF Hashed
<1> QED BY <1>1, Invariance, PTL DEF Inv

\* As long as nobody edits between a build's two reads, every archive in the store is
\* of the files that its hash is of.
THEOREM HonestCache == Spec => []CacheIsHonest
<1>1. IInv => CacheIsHonest
  BY InvParts DEF CacheIsHonest, HonestServer
<1> QED BY <1>1, Invariance, PTL

\* A COPY that asks for an upload is archived by its own build.
THEOREM ForcedUploads == Spec => []ForcedAreUploaded
<1>1. IInv => ForcedAreUploaded
  <2> SUFFICES ASSUME IInv, NEW b \in Builds, Sent(b), NEW k \in DOMAIN steps[b],
                      steps[b][k].instr.upload, ~ raced, steps[b][k].at # "withheld"
               PROVE  steps[b][k].archive # 0
    BY DEF ForcedAreUploaded
  <2>1. /\ steps \in [Builds -> Seq(Steps)] /\ InStep(b) /\ Hashed(steps[b][k])
        /\ Honest(steps[b][k])
    BY Given DEF Frank
  <2>2. steps[b][k] \in Steps
    <3> HIDE DEF Steps
    <3> QED BY <2>1
  <2>3. /\ steps[b][k].at # "plain" <=> steps[b][k].instr.type = "COPY"
        /\ steps[b][k].instr \in Instructions
    BY <2>2, StepParts
  <2>4. steps[b][k].instr.type = "COPY"
    BY <2>3 DEF Instructions
  <2>5. steps[b][k].at = "done"
    BY <2>1, <2>3, <2>4 DEF InStep, Settled
  <2> QED BY <2>1, <2>4, <2>5 DEF Hashed, Honest
<1> QED BY <1>1, Invariance, PTL

\* The body that is sent means what the chain said, Dockerfiles and all: every step
\* is marked by the calls before its own.
THEOREM BodyIsTheChain == Spec => []BodyFollowsChain
<1>1. IInv => BodyFollowsChain
  <2> SUFFICES ASSUME IInv, NEW b \in Builds, Sent(b)
               PROVE  LET instrs == [k \in DOMAIN body[b].steps |-> body[b].steps[k].instr]
                      IN  /\ instrs = order[b].template.steps
                          /\ body[b].force <=> order[b].skip
                                               \/ "skip_cache" \in Range(order[b].said)
                          /\ Meant([image |-> body[b].fromImage,
                                    base |-> body[b].fromTemplate,
                                    registry |-> body[b].fromImageRegistry,
                                    steps |-> instrs, start |-> body[b].startCmd,
                                    ready |-> body[b].readyCmd,
                                    force |-> order[b].template.force],
                                   order[b].said, order[b].pusher)
    BY DEF BodyFollowsChain
  <2> DEFINE t == order[b].template
             hashed == [k \in DOMAIN steps[b] |-> [instr |-> steps[b][k].instr,
                                                   hash |-> steps[b][k].hash]]
             instrs == [k \in DOMAIN body[b].steps |-> body[b].steps[k].instr]
             u == [image |-> body[b].fromImage, base |-> body[b].fromTemplate,
                   registry |-> body[b].fromImageRegistry,
                   steps |-> instrs, start |-> body[b].startCmd,
                   ready |-> body[b].readyCmd, force |-> t.force]
  <2>1. t \in Templates /\ InStep(b)
    BY Given
  <2>2. /\ body[b] = Body(t, hashed, order[b].skip) /\ stage[b] # "idle"
        /\ DOMAIN steps[b] = DOMAIN t.steps
        /\ \A k \in DOMAIN steps[b] : steps[b][k].instr = t.steps[k]
    BY <2>1 DEF InStep
  <2>3. Meant(t, order[b].said, order[b].pusher)
    BY <2>2, InvParts DEF Agreed
  <2> HIDE DEF t
  <2>4. /\ body[b].fromImage = t.image /\ body[b].fromTemplate = t.base
        /\ body[b].fromImageRegistry = t.registry /\ body[b].startCmd = t.start
        /\ body[b].readyCmd = t.ready /\ body[b].steps = hashed
        /\ body[b].force = (order[b].skip \/ t.force)
    BY <2>2 DEF Body
  <2>5. instrs = t.steps
    <3>1. DOMAIN hashed = DOMAIN t.steps /\ \A k \in DOMAIN t.steps :
            hashed[k].instr = t.steps[k]
      BY <2>2
    <3>2. t.steps \in Seq(Instructions)
      BY <2>1 DEF Templates
    <3>3. t.steps = [k \in DOMAIN t.steps |-> t.steps[k]]
      <4> HIDE DEF Instructions
      <4> QED BY <3>2
    <3> HIDE DEF hashed
    <3> QED BY <2>4, <3>1, <3>3
  <2> HIDE DEF instrs, hashed
  <2>6. /\ u.image = t.image /\ u.base = t.base /\ u.registry = t.registry
        /\ u.steps = t.steps /\ u.ready = t.ready /\ u.force = t.force
    BY <2>4, <2>5
  <2> HIDE DEF u
  <2>7. Meant(u, order[b].said, order[b].pusher)
    BY <2>3, <2>6 DEF Meant, Follows
  <2>8. t.force <=> "skip_cache" \in Range(order[b].said)
    BY <2>3 DEF Meant, Follows
  <2> QED BY <2>4, <2>5, <2>7, <2>8 DEF u, t, instrs
<1> QED BY <1>1, Invariance, PTL

=============================================================================
