-------------------------- MODULE ApiClient_proofs --------------------------
(***************************************************************************)
(* Proofs about ApiClient, for every finite set of callers and every cap:  *)
(* permits are conserved, the cap holds, nobody waits while a permit is    *)
(* free, and permits go out in the order of the calls.                     *)
(***************************************************************************)
EXTENDS ApiClient, FiniteSetTheorems, TLAPS

-----------------------------------------------------------------------------
(* Lines: sequences without repetition.                                    *)

\* What is left of a line when its first goes.
LEMMA TailOfLine ==
  ASSUME NEW S, NEW s \in Seq(S), s # << >>
  PROVE  /\ Head(s) \in S /\ Head(s) = s[1] /\ 1 \in 1..Len(s)
         /\ Tail(s) \in Seq(S) /\ Len(Tail(s)) = Len(s) - 1 /\ Len(s) \in Nat
         /\ \A i \in 1..Len(Tail(s)) : Tail(s)[i] = s[i + 1]
OBVIOUS

\* The elements of two sequences one after the other.
LEMMA OneAfterTheOther ==
  ASSUME NEW S, NEW a \in Seq(S), NEW b \in Seq(S)
  PROVE  /\ a \o b \in Seq(S) /\ Len(a \o b) = Len(a) + Len(b)
         /\ \A i \in 1..Len(a) + Len(b) :
              (a \o b)[i] = IF i <= Len(a) THEN a[i] ELSE b[i - Len(a)]
OBVIOUS

\* What is left of a line when the one at place k goes.
LEMMA WithoutElements ==
  ASSUME NEW S, NEW s \in Seq(S), NEW k \in 1..Len(s)
  PROVE  /\ Without(s, k) \in Seq(S)
         /\ Len(Without(s, k)) = Len(s) - 1
         /\ \A i \in 1..Len(s) - 1 :
              Without(s, k)[i] = IF i < k THEN s[i] ELSE s[i + 1]
<1> DEFINE a == SubSeq(s, 1, k - 1)
           b == SubSeq(s, k + 1, Len(s))
<1>1. /\ a \in Seq(S) /\ Len(a) = k - 1
      /\ \A i \in 1..k - 1 : a[i] = s[i]
  OBVIOUS
<1>2. /\ b \in Seq(S) /\ Len(b) = Len(s) - k
      /\ \A i \in 1..Len(s) - k : b[i] = s[k + i]
  OBVIOUS
<1>3. /\ a \o b \in Seq(S) /\ Len(a \o b) = Len(s) - 1
      /\ \A i \in 1..Len(s) - 1 :
           (a \o b)[i] = IF i < k THEN a[i] ELSE b[i - (k - 1)]
  <2> HIDE DEF a, b
  <2>1. a \in Seq(S) /\ b \in Seq(S)
    BY <1>1, <1>2
  <2>2. /\ a \o b \in Seq(S) /\ Len(a \o b) = Len(a) + Len(b)
        /\ \A i \in 1..Len(a) + Len(b) :
              (a \o b)[i] = IF i <= Len(a) THEN a[i] ELSE b[i - Len(a)]
    BY ONLY <2>1, OneAfterTheOther
  <2>3. Len(a) = k - 1 /\ Len(b) = Len(s) - k /\ k \in Int /\ Len(s) \in Int
    BY <1>1, <1>2
  <2> QED BY ONLY <2>2, <2>3
<1>4. ASSUME NEW i \in 1..Len(s) - 1
      PROVE  (a \o b)[i] = IF i < k THEN s[i] ELSE s[i + 1]
  <2> HIDE DEF a, b
  <2>1. CASE i < k
    BY <1>1, <1>3, <2>1
  <2>2. CASE ~ (i < k)
    <3>1. i - (k - 1) \in 1..Len(s) - k /\ k + (i - (k - 1)) = i + 1
      BY <2>2
    <3>2. b[i - (k - 1)] = s[i + 1]
      BY ONLY <1>2, <3>1
    <3> QED BY <1>3, <2>2, <3>2
  <2> QED BY <2>1, <2>2
<1> QED BY <1>3, <1>4 DEF Without

-----------------------------------------------------------------------------
(* Type correctness.                                                       *)

\* A line with the caller at place k gone lists the callers that still wait.
LEMMA LineStays ==
  ASSUME TypeOK, NEW k \in 1..Len(line), line' = Without(line, k),
         call' \in [Callers -> {"idle", "queued", "granted", "sending"}],
         \A d \in Callers : call'[d] = "queued" <=> call[d] = "queued" /\ d # line[k],
         free' \in Nat, cap' = cap
  PROVE  TypeOK'
<1>1. /\ line' \in Seq(Callers) /\ Len(line') = Len(line) - 1
      /\ \A i \in 1..Len(line') : line'[i] = IF i < k THEN line[i] ELSE line[i + 1]
  <2>1. line \in Seq(Callers) /\ k \in 1..Len(line)
    BY DEF TypeOK
  <2> QED BY ONLY <2>1, line' = Without(line, k), WithoutElements
<1> DEFINE At(i) == IF i < k THEN i ELSE i + 1
<1>2. \A i \in 1..Len(line') : /\ At(i) \in 1..Len(line) /\ At(i) # k
                               /\ line'[i] = line[At(i)]
  BY <1>1 DEF TypeOK
<1>3. \A i \in 1..Len(line') : call'[line'[i]] = "queued"
  BY <1>2 DEF TypeOK
<1>4. ASSUME NEW c \in Queued' PROVE \E i \in 1..Len(line') : line'[i] = c
  <2>1. c \in Queued /\ c # line[k]
    BY DEF Queued
  <2>2. PICK j \in 1..Len(line) : line[j] = c
    BY <2>1 DEF TypeOK
  <2>3. CASE j < k
    BY <1>1, <2>2, <2>3 DEF TypeOK
  <2>4. CASE j > k
    <3>1. j - 1 \in 1..Len(line') /\ ~ (j - 1 < k) /\ (j - 1) + 1 = j
      BY <1>1, <2>4 DEF TypeOK
    <3> QED BY <1>1, <2>2, <3>1
  <2> QED BY <2>1, <2>2, <2>3, <2>4
<1>5. ASSUME NEW i \in 1..Len(line'), NEW j \in 1..Len(line'),
             line'[i] = line'[j]
      PROVE  i = j
  <2>1. At(i) = At(j)
    BY <1>2, <1>5 DEF TypeOK
  <2> QED BY <2>1
<1> QED BY <1>1, <1>3, <1>4, <1>5 DEF TypeOK

\* The one at the head of the line goes.
LEMMA LineMoves ==
  ASSUME TypeOK, line # << >>, line' = Tail(line),
         call' \in [Callers -> {"idle", "queued", "granted", "sending"}],
         \A d \in Callers :
            call'[d] = "queued" <=> call[d] = "queued" /\ d # Head(line),
         free' \in Nat, cap' = cap
  PROVE  TypeOK'
<1>1. line \in Seq(Callers)
  BY DEF TypeOK
<1>2. /\ Head(line) = line[1] /\ 1 \in 1..Len(line) /\ Len(line) \in Nat
      /\ Tail(line) \in Seq(Callers) /\ Len(Tail(line)) = Len(line) - 1
      /\ \A i \in 1..Len(Tail(line)) : Tail(line)[i] = line[i + 1]
  BY ONLY <1>1, line # << >>, TailOfLine
<1>3. \A i \in 1..Len(line') : i + 1 \in 1..Len(line) /\ line'[i] = line[i + 1]
  BY <1>2
<1>4. \A i \in 1..Len(line') : call'[line'[i]] = "queued"
  <2> TAKE i \in 1..Len(line')
  <2>1. line[i + 1] \in Callers /\ call[line[i + 1]] = "queued"
    BY <1>1, <1>3 DEF TypeOK
  <2>2. line[i + 1] # line[1]
    <3>1. i + 1 # 1 /\ i + 1 \in 1..Len(line) /\ 1 \in 1..Len(line)
      BY <1>2, <1>3
    <3> QED BY <3>1 DEF TypeOK
  <2> QED BY <1>2, <1>3, <2>1, <2>2
<1>5. ASSUME NEW c \in Queued' PROVE \E i \in 1..Len(line') : line'[i] = c
  <2>1. c \in Queued /\ c # line[1]
    BY <1>2 DEF Queued
  <2>2. PICK j \in 1..Len(line) : line[j] = c
    BY <2>1 DEF TypeOK
  <2>3. j - 1 \in 1..Len(line') /\ (j - 1) + 1 = j
    BY <1>2, <2>1, <2>2
  <2> QED BY <1>3, <2>2, <2>3
<1>6. ASSUME NEW i \in 1..Len(line'), NEW j \in 1..Len(line'),
             line'[i] = line'[j]
      PROVE  i = j
  <2>1. i + 1 = j + 1
    BY <1>3, <1>6 DEF TypeOK
  <2> QED BY <2>1
<1> QED BY <1>2, <1>4, <1>5, <1>6 DEF TypeOK

\* acquire leaves the types intact.
LEMMA AcquireKeepsTypes ==
  ASSUME TypeOK, NEW c \in Callers, call[c] = "idle", Acquire(c), UNCHANGED cap
  PROVE  TypeOK'
<1>1. CASE Becomes(c, "sending") /\ free' \in Nat /\ UNCHANGED line
  BY <1>1 DEF TypeOK, Becomes, Queued
<1>2. CASE Becomes(c, "queued") /\ line' = Append(line, c) /\ UNCHANGED free
  <2>1. /\ line \in Seq(Callers) /\ line' \in Seq(Callers)
        /\ Len(line) \in Nat /\ Len(line') = Len(line) + 1
        /\ \A i \in 1..Len(line) : line'[i] = line[i]
        /\ line'[Len(line) + 1] = c
    BY <1>2 DEF TypeOK
  <2>2. \A i \in 1..Len(line) : /\ line[i] \in Callers /\ line[i] # c
                                /\ call[line[i]] = "queued"
    BY <2>1 DEF TypeOK
  <2>3. /\ call' \in [Callers -> {"idle", "queued", "granted", "sending"}]
        /\ \A d \in Callers : call'[d] = IF d = c THEN "queued" ELSE call[d]
    BY <1>2 DEF TypeOK, Becomes
  <2>4. \A i \in 1..Len(line') : i \in 1..Len(line) \/ i = Len(line) + 1
    BY <2>1
  <2>5. \A i \in 1..Len(line') : call'[line'[i]] = "queued"
    BY <2>1, <2>2, <2>3, <2>4
  <2>6. ASSUME NEW d \in Queued'
        PROVE  \E i \in 1..Len(line') : line'[i] = d
    <3>1. CASE d = c
      BY <2>1, <3>1
    <3>2. CASE d # c
      <4>1. d \in Queued
        BY <2>3, <3>2 DEF Queued
      <4>2. PICK i \in 1..Len(line) : line[i] = d
        BY <4>1 DEF TypeOK
      <4> QED BY <2>1, <4>2
    <3> QED BY <3>1, <3>2
  <2>7. \A i, j \in 1..Len(line') : line'[i] = line'[j] => i = j
    BY <2>1, <2>2, <2>4 DEF TypeOK
  <2> QED BY <1>2, <2>1, <2>3, <2>5, <2>6, <2>7 DEF TypeOK
<1> QED BY <1>1, <1>2 DEF Acquire, TypeOK

\* So does a permit that is dropped.
LEMMA ReleaseKeepsTypes ==
  ASSUME TypeOK, NEW c \in Callers, call[c] \in {"granted", "sending"},
         Release(c), UNCHANGED cap
  PROVE  TypeOK'
<1>1. CASE line # << >>
  <2>1. Head(line) \in Callers /\ call[Head(line)] = "queued"
    <3>1. line \in Seq(Callers) /\ line # << >>
      BY <1>1 DEF TypeOK
    <3>2. Head(line) \in Callers /\ Head(line) = line[1] /\ 1 \in 1..Len(line)
      BY ONLY <3>1, TailOfLine
    <3> QED BY <3>2 DEF TypeOK
  <2>2. /\ call' = [call EXCEPT ![c] = "idle", ![Head(line)] = "granted"]
        /\ line' = Tail(line) /\ free' = free
    BY <1>1 DEF Release
  <2>3. /\ call' \in [Callers -> {"idle", "queued", "granted", "sending"}]
        /\ \A d \in Callers :
             call'[d] = "queued" <=> call[d] = "queued" /\ d # Head(line)
    BY <2>1, <2>2 DEF TypeOK
  <2>4. free' \in Nat /\ cap' = cap
    BY <2>2 DEF TypeOK
  <2> QED BY <1>1, <2>2, <2>3, <2>4, LineMoves
<1>2. CASE line = << >>
  <2>1. Becomes(c, "idle") /\ UNCHANGED line /\ free' \in Nat
    BY <1>2 DEF Release, TypeOK
  <2> QED BY <2>1 DEF TypeOK, Becomes, Queued
<1> QED BY <1>1, <1>2

\* So does a caller that leaves the line.
LEMMA LeaveKeepsTypes ==
  ASSUME TypeOK, NEW c \in Callers, call[c] = "queued", LeaveLine(c), UNCHANGED cap
  PROVE  TypeOK'
<1>1. PICK k \in 1..Len(line) : line[k] = c /\ line' = Without(line, k)
  BY DEF LeaveLine
<1>2. /\ call' \in [Callers -> {"idle", "queued", "granted", "sending"}]
      /\ \A d \in Callers :
           call'[d] = "queued" <=> call[d] = "queued" /\ d # line[k]
  BY <1>1 DEF LeaveLine, Becomes, TypeOK
<1>3. free' \in Nat /\ cap' = cap
  BY DEF LeaveLine, TypeOK
<1> QED BY <1>1, <1>2, <1>3, LineStays

\* No step breaks them.
LEMMA TypesNext == TypeOK /\ [Next]_vars => TypeOK'
<1> SUFFICES ASSUME TypeOK, [Next]_vars PROVE TypeOK'
  OBVIOUS
<1>1. ASSUME NEW c \in Callers, Request(c) PROVE TypeOK'
  BY <1>1, AcquireKeepsTypes DEF Request
<1>2. ASSUME NEW c \in Callers, Proceed(c) PROVE TypeOK'
  BY <1>2 DEF Proceed, Becomes, TypeOK, Queued
<1>3. ASSUME NEW c \in Callers, Return(c) PROVE TypeOK'
  BY <1>3, ReleaseKeepsTypes DEF Return
<1>4. ASSUME NEW c \in Callers, Cancel(c) PROVE TypeOK'
  BY <1>4, ReleaseKeepsTypes, LeaveKeepsTypes DEF Cancel
<1>5. CASE UNCHANGED vars
  BY <1>5 DEF vars, TypeOK, Queued
<1> QED BY <1>1, <1>2, <1>3, <1>4, <1>5 DEF Next

\* Every variable has its type, and the line is exactly the callers that
\* wait, for any number of callers.
THEOREM TypeCorrect == Spec => []TypeOK
<1>1. Init => TypeOK
  <2> SUFFICES ASSUME Init PROVE TypeOK
    OBVIOUS
  <2>1. line = << >> /\ Len(line) = 0 /\ line \in Seq(Callers)
    BY DEF Init
  <2>2. /\ call \in [Callers -> {"idle", "queued", "granted", "sending"}]
        /\ Queued = {} /\ cap \in Nat /\ free \in Nat
    BY CapsAssumption DEF Init, Queued
  <2> QED BY <2>1, <2>2 DEF TypeOK
<1>2. TypeOK /\ [Next]_vars => TypeOK'
  BY TypesNext
<1> QED BY <1>1, <1>2, PTL DEF Spec

-----------------------------------------------------------------------------
(* What a step does to the callers that hold a permit.                     *)

\* There are finitely many of them.
LEMMA HoldersFinite ==
  IsFiniteSet(Holders) /\ Cardinality(Holders) \in Nat
<1>1. Holders \in SUBSET Callers
  BY DEF Holders
<1>2. IsFiniteSet(Holders)
  BY ONLY <1>1, CallersAssumption, FS_Subset
<1> QED BY <1>2, FS_CardinalityType

\* acquire adds the caller when it gets a permit, and nobody otherwise.
LEMMA AcquireHolders ==
  ASSUME TypeOK, NEW c \in Callers, call[c] = "idle", Acquire(c)
  PROVE  \/ cap = 0 /\ Holders' = Holders \cup {c} /\ UNCHANGED <<line, free>>
         \/ /\ free > 0 /\ Holders' = Holders \cup {c} /\ free' = free - 1
            /\ UNCHANGED line
         \/ cap # 0 /\ free = 0 /\ Holders' = Holders /\ free' = free
<1>1. Becomes(c, "sending") => Holders' = Holders \cup {c}
  BY DEF Becomes, Holders, TypeOK
<1>2. Becomes(c, "queued") => Holders' = Holders
  BY DEF Becomes, Holders, TypeOK
<1> QED BY <1>1, <1>2 DEF Acquire

\* A permit that is dropped goes to the first in line, or is free.
LEMMA ReleaseHolders ==
  ASSUME TypeOK, NEW c \in Callers, c \in Holders, Release(c)
  PROVE  \/ /\ line # << >> /\ line' = Tail(line) /\ free' = free
            /\ Head(line) \in Queued /\ Head(line) \notin Holders
            /\ Holders' = (Holders \ {c}) \cup {Head(line)}
         \/ /\ line = << >> /\ line' = line
            /\ free' = (IF cap = 0 THEN 0 ELSE free + 1)
            /\ Holders' = Holders \ {c}
<1>1. CASE line # << >>
  <2>1. line \in Seq(Callers) /\ line # << >>
    BY <1>1 DEF TypeOK
  <2>2. Head(line) \in Callers /\ Head(line) = line[1] /\ 1 \in 1..Len(line)
    BY ONLY <2>1, TailOfLine
  <2>3. call[Head(line)] = "queued"
    BY <2>2 DEF TypeOK
  <2>4. call' = [call EXCEPT ![c] = "idle", ![Head(line)] = "granted"]
    BY <1>1 DEF Release
  <2>5. call \in [Callers -> {"idle", "queued", "granted", "sending"}]
    BY DEF TypeOK
  <2>6. \A d \in Callers :
          d \in Holders' <=> d = Head(line) \/ (d \in Holders /\ d # c)
    BY <2>2, <2>3, <2>4, <2>5 DEF Holders
  <2>7. Holders' = (Holders \ {c}) \cup {Head(line)}
    BY <2>2, <2>6 DEF Holders
  <2> QED BY <1>1, <2>2, <2>3, <2>7 DEF Release, Holders, Queued
<1>2. CASE line = << >>
  <2>1. Holders' = Holders \ {c}
    BY <1>2 DEF Release, Becomes, Holders, TypeOK
  <2> QED BY <1>2, <2>1 DEF Release
<1> QED BY <1>1, <1>2

\* Nobody gets or gives a permit by leaving the line or by sending.
LEMMA OthersHolders ==
  ASSUME TypeOK, NEW c \in Callers
  PROVE  /\ Proceed(c) => Holders' = Holders
         /\ call[c] = "queued" /\ LeaveLine(c) => Holders' = Holders
BY DEF TypeOK, Proceed, LeaveLine, Becomes, Holders
-----------------------------------------------------------------------------
(* The safety of the limiter.                                              *)

\* What the proofs below carry from state to state.
Limited == TypeOK /\ PermitsAreConserved /\ NobodyWaitsInVain

\* acquire keeps the account of the permits, and queues only when none is left.
LEMMA AcquireLimited ==
  ASSUME Limited, NEW c \in Callers, call[c] = "idle", Acquire(c), UNCHANGED cap
  PROVE  PermitsAreConserved' /\ NobodyWaitsInVain'
<1>1. TypeOK /\ PermitsAreConserved /\ NobodyWaitsInVain /\ free \in Nat /\ cap \in Nat
  BY DEF Limited, TypeOK
<1>2. IsFiniteSet(Holders) /\ Cardinality(Holders) \in Nat
  BY HoldersFinite
<1>3. c \notin Holders
  BY DEF Holders
<1>4. Cardinality(Holders \cup {c}) = Cardinality(Holders) + 1
  BY <1>2, <1>3, FS_AddElement
<1>5. CASE cap = 0 /\ Holders' = Holders \cup {c} /\ UNCHANGED <<line, free>>
  BY <1>1, <1>5 DEF PermitsAreConserved, NobodyWaitsInVain
<1>6. CASE free > 0 /\ Holders' = Holders \cup {c} /\ free' = free - 1 /\ UNCHANGED line
  <2>1. line = << >>
    BY <1>1, <1>6 DEF NobodyWaitsInVain
  <2> QED BY <1>1, <1>2, <1>4, <1>6, <2>1 DEF PermitsAreConserved, NobodyWaitsInVain
<1>7. CASE cap # 0 /\ free = 0 /\ Holders' = Holders /\ free' = free
  BY <1>1, <1>7 DEF PermitsAreConserved, NobodyWaitsInVain
<1> QED BY <1>1, <1>5, <1>6, <1>7, AcquireHolders

\* A permit that is dropped is passed on or free again, and never lost.
LEMMA ReleaseLimited ==
  ASSUME Limited, NEW c \in Callers, c \in Holders, Release(c), UNCHANGED cap
  PROVE  PermitsAreConserved' /\ NobodyWaitsInVain'
<1>1. TypeOK /\ PermitsAreConserved /\ NobodyWaitsInVain /\ free \in Nat /\ cap \in Nat
  BY DEF Limited, TypeOK
<1>2. IsFiniteSet(Holders) /\ Cardinality(Holders) \in Nat
  BY HoldersFinite
<1>3. /\ IsFiniteSet(Holders \ {c})
      /\ Cardinality(Holders \ {c}) = Cardinality(Holders) - 1
  BY <1>2, FS_RemoveElement
<1>4. CASE /\ line # << >> /\ line' = Tail(line) /\ free' = free
           /\ Head(line) \in Queued /\ Head(line) \notin Holders
           /\ Holders' = (Holders \ {c}) \cup {Head(line)}
  <2>1. Cardinality((Holders \ {c}) \cup {Head(line)}) = Cardinality(Holders)
    <3>1. Head(line) \notin Holders \ {c}
      BY <1>4
    <3>2. Cardinality((Holders \ {c}) \cup {Head(line)})
            = Cardinality(Holders \ {c}) + 1
      BY ONLY <1>3, <3>1, FS_AddElement
    <3> QED BY <1>2, <1>3, <3>2
  <2>2. PermitsAreConserved'
    BY <1>1, <1>4, <2>1 DEF PermitsAreConserved
  <2>3. NobodyWaitsInVain'
    BY <1>1, <1>4 DEF NobodyWaitsInVain
  <2> QED BY <2>2, <2>3
<1>5. CASE /\ line = << >> /\ line' = line
           /\ free' = (IF cap = 0 THEN 0 ELSE free + 1)
           /\ Holders' = Holders \ {c}
  <2>1. PermitsAreConserved'
    BY <1>1, <1>2, <1>3, <1>5 DEF PermitsAreConserved
  <2>2. NobodyWaitsInVain'
    BY <1>5 DEF NobodyWaitsInVain
  <2> QED BY <2>1, <2>2
<1> QED BY <1>1, <1>4, <1>5, ReleaseHolders

\* Leaving the line changes nothing for anybody else.
LEMMA LeaveLimited ==
  ASSUME Limited, NEW c \in Callers, call[c] = "queued", LeaveLine(c), UNCHANGED cap
  PROVE  PermitsAreConserved' /\ NobodyWaitsInVain'
<1>1. TypeOK /\ PermitsAreConserved /\ NobodyWaitsInVain
  BY DEF Limited
<1>2. Holders' = Holders /\ free' = free
  BY <1>1, OthersHolders DEF LeaveLine
<1>3. line # << >>
  BY <1>1 DEF LeaveLine, TypeOK
<1> QED BY <1>1, <1>2, <1>3 DEF PermitsAreConserved, NobodyWaitsInVain

\* Limited holds throughout.
LEMMA Safe == Spec => []Limited
<1>1. Init => Limited
  <2> SUFFICES ASSUME Init PROVE Limited
    OBVIOUS
  <2>1. Holders = {} /\ line = << >> /\ free = cap /\ cap \in Nat
    BY CapsAssumption DEF Init, Holders
  <2>2. Cardinality(Holders) = 0
    BY <2>1, FS_EmptySet
  <2>3. Len(line) = 0 /\ line \in Seq(Callers) /\ Queued = {}
    BY <2>1 DEF Init, Queued
  <2>4. call \in [Callers -> {"idle", "queued", "granted", "sending"}]
    BY DEF Init
  <2>5. TypeOK
    BY <2>1, <2>3, <2>4 DEF TypeOK
  <2> QED BY <2>1, <2>2, <2>5 DEF Limited, PermitsAreConserved, NobodyWaitsInVain
<1>2. Limited /\ [Next]_vars => Limited'
  <2> SUFFICES ASSUME Limited, [Next]_vars
               PROVE  PermitsAreConserved' /\ NobodyWaitsInVain'
    BY TypesNext DEF Limited
  <2>1. ASSUME NEW c \in Callers, Request(c)
        PROVE  PermitsAreConserved' /\ NobodyWaitsInVain'
    BY <2>1, AcquireLimited DEF Request
  <2>2. ASSUME NEW c \in Callers, Proceed(c)
        PROVE  PermitsAreConserved' /\ NobodyWaitsInVain'
    <3>1. Holders' = Holders /\ UNCHANGED <<cap, line, free>>
      BY <2>2, OthersHolders DEF Proceed, Limited
    <3> QED BY <3>1 DEF Limited, PermitsAreConserved, NobodyWaitsInVain
  <2>3. ASSUME NEW c \in Callers, Return(c)
        PROVE  PermitsAreConserved' /\ NobodyWaitsInVain'
    <3>1. c \in Holders
      BY <2>3 DEF Return, Holders
    <3> QED BY <2>3, <3>1, ReleaseLimited DEF Return
  <2>4. ASSUME NEW c \in Callers, Cancel(c)
        PROVE  PermitsAreConserved' /\ NobodyWaitsInVain'
    <3>1. CASE call[c] \in {"granted", "sending"} /\ Release(c)
      <4>1. c \in Holders
        BY <3>1 DEF Holders
      <4> QED BY <2>4, <3>1, <4>1, ReleaseLimited DEF Cancel
    <3>2. CASE call[c] = "queued" /\ LeaveLine(c)
      BY <2>4, <3>2, LeaveLimited DEF Cancel
    <3> QED BY <2>4, <3>1, <3>2 DEF Cancel
  <2>5. CASE UNCHANGED vars
    BY <2>5 DEF vars, Limited, PermitsAreConserved, NobodyWaitsInVain, Holders
  <2> QED BY <2>1, <2>2, <2>3, <2>4, <2>5 DEF Next
<1> QED BY <1>1, <1>2, PTL DEF Spec

\* No permit is ever lost or made, whatever becomes of the calls.
THEOREM Conserved == Spec => []PermitsAreConserved
<1>1. Limited => PermitsAreConserved
  BY DEF Limited
<1> QED BY <1>1, Safe, PTL

\* Never more requests in flight than the cap allows.
THEOREM CapIsKept == Spec => []CapHolds
<1>1. Limited => CapHolds
  <2> SUFFICES ASSUME Limited, cap # 0
               PROVE  Cardinality({c \in Callers : call[c] = "sending"}) <= cap
    BY DEF CapHolds
  <2> DEFINE Senders == {c \in Callers : call[c] = "sending"}
  <2>1. Senders \in SUBSET Holders
    BY DEF Holders
  <2>2. IsFiniteSet(Holders) /\ Cardinality(Holders) \in Nat
    BY HoldersFinite
  <2>3. IsFiniteSet(Senders) /\ Cardinality(Senders) <= Cardinality(Holders)
    BY ONLY <2>1, <2>2, FS_Subset
  <2>4. Cardinality(Senders) \in Nat
    BY ONLY <2>3, FS_CardinalityType
  <2>5. free \in Nat /\ cap \in Nat /\ free + Cardinality(Holders) = cap
    BY DEF Limited, TypeOK, PermitsAreConserved
  <2> HIDE DEF Senders
  <2>6. Cardinality(Senders) <= cap
    BY <2>2, <2>3, <2>4, <2>5
  <2> QED BY <2>6 DEF Senders
<1> QED BY <1>1, Safe, PTL

\* Whoever waits, waits for a permit somebody holds.
THEOREM NoIdleWaiting == Spec => []NobodyWaitsInVain
<1>1. Limited => NobodyWaitsInVain
  BY DEF Limited
<1> QED BY <1>1, Safe, PTL

\* Permits go out in the order of the calls.
THEOREM Order == Spec => FirstComeFirstServed
<1> DEFINE Served == \A c \in Holders' \ Holders :
                        IF c \in Queued THEN c = Head(line) ELSE line = << >>
<1>1. Limited /\ [Next]_vars => [Served]_vars
  <2> SUFFICES ASSUME Limited, Next PROVE Served
    OBVIOUS
  <2>1. TypeOK /\ NobodyWaitsInVain
    BY DEF Limited
  <2>2. ASSUME NEW c \in Callers, Request(c) PROVE Served
    <3>1. call[c] = "idle" /\ Acquire(c) /\ c \notin Queued
      BY <2>2 DEF Request, Queued
    <3>2. CASE cap = 0 /\ Holders' = Holders \cup {c}
      BY <2>1, <3>1, <3>2 DEF NobodyWaitsInVain
    <3>3. CASE free > 0 /\ Holders' = Holders \cup {c}
      BY <2>1, <3>1, <3>3 DEF NobodyWaitsInVain
    <3>4. CASE Holders' = Holders
      BY <3>4
    <3> QED BY <2>1, <3>1, <3>2, <3>3, <3>4, AcquireHolders
  <2>3. ASSUME NEW c \in Callers, Proceed(c) PROVE Served
    BY <2>1, <2>3, OthersHolders
  <2>4. ASSUME NEW c \in Callers, c \in Holders, Release(c) PROVE Served
    BY <2>1, <2>4, ReleaseHolders
  <2>5. ASSUME NEW c \in Callers, Return(c) PROVE Served
    BY <2>4, <2>5 DEF Return, Holders
  <2>6. ASSUME NEW c \in Callers, Cancel(c) PROVE Served
    <3>1. CASE call[c] \in {"granted", "sending"} /\ Release(c)
      BY <2>4, <3>1 DEF Holders
    <3>2. CASE call[c] = "queued" /\ LeaveLine(c)
      BY <2>1, <3>2, OthersHolders
    <3> QED BY <2>6, <3>1, <3>2 DEF Cancel
  <2> QED BY <2>2, <2>3, <2>5, <2>6 DEF Next
<1> QED BY <1>1, Safe, PTL DEF Spec, FirstComeFirstServed
=============================================================================
