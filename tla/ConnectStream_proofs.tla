------------------------- MODULE ConnectStream_proofs -------------------------
(***************************************************************************)
(* Proofs about ConnectStream, for every base, every set of frames,        *)
(* messages and errors, however many frames are sent and wherever the body *)
(* is cut.                                                                 *)
(***************************************************************************)
EXTENDS ConnectStream, WellFoundedInduction, TLAPS

(* Induction.  The library's induction rules are about an operator; this   *)
(* one is about a set, and follows from < being well-founded on Nat.       *)

LEMMA LeastExists ==
  ASSUME NEW T, T \subseteq Nat, T # {}
  PROVE  \E x \in T : \A y \in T : x <= y
<1> DEFINE Less == OpToRel(<, Nat)
<1>1. IsWellFoundedOn(Less, Nat)
  BY NatLessThanWellFounded
<1>2. \A x, y \in Nat : y < x => <<y, x>> \in Less
  BY DEF OpToRel
<1> HIDE DEF Less
<1>3. PICK x \in T : \A y \in T : ~ (<<y, x>> \in Less)
  BY <1>1, WFMin
<1>4. \A y \in T : ~ (y < x)
  BY <1>2, <1>3
<1> QED BY <1>4

LEMMA InductionOnSet ==
  ASSUME NEW S, NEW m \in Nat, 0 \in S,
         \A n \in 0..m : n \in S /\ n < m => n + 1 \in S
  PROVE  \A n \in 0..m : n \in S
<1> SUFFICES ASSUME NEW k \in 0..m, k \notin S PROVE FALSE
  OBVIOUS
<1>1. PICK x \in 0..m \ S : \A y \in 0..m \ S : x <= y
  <2>1. 0..m \ S \subseteq Nat /\ 0..m \ S # {}
    OBVIOUS
  <2> QED BY <2>1, LeastExists
<1>2. x - 1 \in 0..m /\ x - 1 \in S
  BY <1>1
<1> QED BY <1>1, <1>2

-----------------------------------------------------------------------------
(* Sequences.                                                              *)

LEMMA Joined ==
  ASSUME NEW S, NEW a \in Seq(S), NEW b \in Seq(S)
  PROVE  /\ a \o b \in Seq(S) /\ Len(a \o b) = Len(a) + Len(b)
         /\ \A i \in 1..Len(a) : (a \o b)[i] = a[i]
         /\ \A i \in 1..Len(b) : (a \o b)[Len(a) + i] = b[i]
OBVIOUS

LEMMA SameSequence ==
  ASSUME NEW S, NEW s \in Seq(S), NEW t \in Seq(S), Len(s) = Len(t),
         \A i \in 1..Len(s) : s[i] = t[i]
  PROVE  s = t
OBVIOUS

LEMMA Reassociate ==
  ASSUME NEW S, NEW a \in Seq(S), NEW b \in Seq(S), NEW c \in Seq(S)
  PROVE  (a \o b) \o c = a \o (b \o c)
OBVIOUS

-----------------------------------------------------------------------------
(* Envelopes.                                                              *)

LEMMA DivMod ==
  ASSUME NEW n \in Nat
  PROVE  /\ n \div Base \in Nat /\ n % Base \in Byte
         /\ n = (n \div Base) * Base + (n % Base)
BY BaseAssumption DEF Byte

\* A length of four bytes is read back as it was written.
LEMMA LengthIsReadBack ==
  ASSUME NEW n \in Nat, n < Base * Base * Base * Base
  PROVE  \E a, b, c, d \in Byte :
            /\ BigEndian(n) = <<a, b, c, d>>
            /\ ((a * Base + b) * Base + c) * Base + d = n
<1> DEFINE n2 == n \div Base
           n3 == n2 \div Base
           n4 == n3 \div Base
<1>1. n2 \in Nat /\ n % Base \in Byte /\ n = n2 * Base + (n % Base)
  BY DivMod
<1>2. n3 \in Nat /\ n2 % Base \in Byte /\ n2 = n3 * Base + (n2 % Base)
  BY <1>1, DivMod
<1>3. n4 \in Nat /\ n3 % Base \in Byte /\ n3 = n4 * Base + (n3 % Base)
  BY <1>2, DivMod
<1>4. BigEndian(n) = <<n4, n3 % Base, n2 % Base, n % Base>>
  BY DEF BigEndian
<1> HIDE DEF n2, n3, n4
<1>5. n4 < Base
  <2> SUFFICES ASSUME n4 >= Base PROVE FALSE
    BY <1>3, BaseAssumption
  <2>1. n3 >= Base * Base
    BY <1>3, BaseAssumption DEF Byte
  <2>2. n2 >= Base * Base * Base
    BY <1>2, <2>1, BaseAssumption DEF Byte
  <2>3. n >= Base * Base * Base * Base
    BY <1>1, <2>2, BaseAssumption DEF Byte
  <2> QED BY <2>3, BaseAssumption
<1>6. n4 \in Byte
  BY <1>3, <1>5, BaseAssumption DEF Byte
<1> QED BY <1>1, <1>2, <1>3, <1>4, <1>6

LEMMA HeaderOf ==
  ASSUME NEW S, NEW x \in S, NEW a \in S, NEW b \in S, NEW c \in S, NEW d \in S
  PROVE  LET h == <<x>> \o <<a, b, c, d>>
         IN  /\ h \in Seq(S) /\ Len(h) = 5 /\ h[1] = x
             /\ h[2] = a /\ h[3] = b /\ h[4] = c /\ h[5] = d
<1> DEFINE l == <<x>>
           r == <<a, b, c, d>>
<1>1. l \in Seq(S) /\ Len(l) = 1 /\ l[1] = x
  OBVIOUS
<1>2. r \in Seq(S) /\ Len(r) = 4 /\ r[1] = a /\ r[2] = b /\ r[3] = c /\ r[4] = d
  OBVIOUS
<1> HIDE DEF l, r
<1>3. l \o r \in Seq(S) /\ Len(l \o r) = 5 /\ (l \o r)[1] = x
      /\ (l \o r)[2] = a /\ (l \o r)[3] = b /\ (l \o r)[4] = c /\ (l \o r)[5] = d
  <2>a. l \in Seq(S) /\ r \in Seq(S)
    BY <1>1, <1>2
  <2>0. /\ l \o r \in Seq(S) /\ Len(l \o r) = Len(l) + Len(r)
        /\ \A i \in 1..Len(l) : (l \o r)[i] = l[i]
        /\ \A i \in 1..Len(r) : (l \o r)[Len(l) + i] = r[i]
    BY <2>a
  <2>1. /\ l \o r \in Seq(S) /\ Len(l \o r) = 1 + 4
        /\ \A i \in 1..1 : (l \o r)[i] = l[i]
        /\ \A i \in 1..4 : (l \o r)[1 + i] = r[i]
    BY <1>1, <1>2, <2>0
  <2>2. /\ (l \o r)[1] = l[1] /\ (l \o r)[1 + 1] = r[1] /\ (l \o r)[1 + 2] = r[2]
        /\ (l \o r)[1 + 3] = r[3] /\ (l \o r)[1 + 4] = r[4]
    BY <2>1
  <2> QED BY <1>1, <1>2, <2>1, <2>2
<1> QED BY <1>3 DEF l, r

\* An encoded frame starts with its flags and its length, and its payload follows.
LEMMA Encoded ==
  ASSUME NEW f \in Frames
  PROVE  /\ Encode(f) \in Seq(Byte) /\ f.data \in Seq(Byte) /\ f.flags \in Byte
         /\ f = [flags |-> f.flags, data |-> f.data]
         /\ Len(Encode(f)) = HeaderLen + Len(f.data)
         /\ Encode(f)[1] = f.flags /\ Length(Encode(f)) = Len(f.data)
         /\ \A i \in 1..Len(f.data) : Encode(f)[HeaderLen + i] = f.data[i]
<1> DEFINE n == Len(f.data)
<1>1. /\ f.data \in Seq(Byte) /\ f.flags \in Byte /\ n \in Nat
      /\ f = [flags |-> f.flags, data |-> f.data]
      /\ n < Base * Base * Base * Base
  BY FramesAssumption DEF Byte
<1>2. n <= MaxLen
  BY <1>1, BaseAssumption DEF MaxLen
<1> HIDE DEF n
<1>3. PICK a, b, c, d \in Byte : /\ BigEndian(n) = <<a, b, c, d>>
                                 /\ ((a * Base + b) * Base + c) * Base + d = n
  BY <1>1, LengthIsReadBack
<1>4. Encode(f) = (<<f.flags>> \o <<a, b, c, d>>) \o f.data
  BY <1>2, <1>3 DEF Encode, n
<1>5. LET h == <<f.flags>> \o <<a, b, c, d>>
      IN  /\ h \in Seq(Byte) /\ Len(h) = 5 /\ h[1] = f.flags
          /\ h[2] = a /\ h[3] = b /\ h[4] = c /\ h[5] = d
  BY <1>1, HeaderOf
<1>6. /\ Encode(f) \in Seq(Byte) /\ Len(Encode(f)) = 5 + Len(f.data)
      /\ Encode(f)[1] = f.flags /\ Encode(f)[2] = a /\ Encode(f)[3] = b
      /\ Encode(f)[4] = c /\ Encode(f)[5] = d
      /\ \A i \in 1..Len(f.data) : Encode(f)[5 + i] = f.data[i]
  <2> DEFINE h == <<f.flags>> \o <<a, b, c, d>>
  <2>1. Encode(f) = h \o f.data
    BY <1>4
  <2> HIDE DEF h
  <2>2. /\ h \o f.data \in Seq(Byte) /\ Len(h \o f.data) = 5 + Len(f.data)
        /\ \A i \in 1..5 : (h \o f.data)[i] = h[i]
        /\ \A i \in 1..Len(f.data) : (h \o f.data)[5 + i] = f.data[i]
    BY <1>1, <1>5, Joined DEF h
  <2> QED BY <1>5, <2>1, <2>2 DEF h
<1>7. Length(Encode(f)) = n
  BY <1>3, <1>6 DEF Length
<1> QED BY <1>1, <1>6, <1>7 DEF HeaderLen, n

-----------------------------------------------------------------------------
(* Bytes, which is defined by recursion.                                   *)

IsChain(u, fs) == /\ u \in [0..Len(fs) -> Seq(Byte)]
                  /\ u[0] = << >>
                  /\ \A n \in 0..Len(fs) - 1 : u[n + 1] = u[n] \o Encode(fs[n + 1])

LEMMA ChainExists ==
  ASSUME NEW fs \in Seq(Frames)
  PROVE  \E u : IsChain(u, fs)
<1> DEFINE Upto(n, u) ==
             /\ u \in [0..n -> Seq(Byte)] /\ u[0] = << >>
             /\ \A k \in 0..n - 1 : u[k + 1] = u[k] \o Encode(fs[k + 1])
           S == {n \in 0..Len(fs) : \E u : Upto(n, u)}
<1>0. Len(fs) \in Nat
  OBVIOUS
<1>1. 0 \in S
  <2>1. Upto(0, [n \in 0..0 |-> << >>])
    OBVIOUS
  <2> HIDE DEF Upto
  <2> QED BY <1>0, <2>1
<1>2. ASSUME NEW n \in 0..Len(fs), n \in S, n < Len(fs)
      PROVE  n + 1 \in S
  <2>1. PICK u : Upto(n, u)
    BY <1>2
  <2> DEFINE v == [k \in 0..n + 1 |-> IF k = n + 1 THEN u[n] \o Encode(fs[n + 1])
                                      ELSE u[k]]
  <2>2. fs[n + 1] \in Frames
    BY <1>2
  <2>3. Encode(fs[n + 1]) \in Seq(Byte)
    BY <2>2, Encoded
  <2>4. u[n] \o Encode(fs[n + 1]) \in Seq(Byte)
    BY <2>1, <2>3
  <2>5. v \in [0..n + 1 -> Seq(Byte)] /\ v[0] = << >>
    BY <2>1, <2>4
  <2>6. ASSUME NEW k \in 0..n PROVE v[k + 1] = v[k] \o Encode(fs[k + 1])
    <3>1. v[k] = u[k]
      BY <1>0
    <3>2. CASE k = n
      BY <3>1, <3>2
    <3>3. CASE k # n
      <4>1. k \in 0..n - 1 /\ k + 1 \in 0..n + 1 /\ k + 1 # n + 1
        BY <1>0, <3>3
      <4>2. u[k + 1] = u[k] \o Encode(fs[k + 1]) /\ v[k + 1] = u[k + 1]
        BY <2>1, <4>1
      <4> QED BY <3>1, <4>2
    <3> QED BY <3>2, <3>3
  <2>7. Upto(n + 1, v)
    <3>1. (n + 1) - 1 = n
      BY <1>0
    <3> HIDE DEF v
    <3> QED BY <2>5, <2>6, <3>1
  <2> HIDE DEF v, Upto
  <2> QED BY <2>7, <1>2
<1>3. Len(fs) \in S
  <2> HIDE DEF S
  <2>1. \A n \in 0..Len(fs) : n \in S
    BY <1>0, <1>1, <1>2, InductionOnSet
  <2> QED BY <1>0, <2>1
<1> QED BY <1>3 DEF IsChain

\* Bytes is the last link of a chain.
LEMMA BytesOfChain ==
  ASSUME NEW fs \in Seq(Frames)
  PROVE  \E u : IsChain(u, fs) /\ Bytes(fs) = u[Len(fs)]
<1> DEFINE F(u) == [n \in 0..Len(fs) |->
                      IF n = 0 THEN << >> ELSE u[n - 1] \o Encode(fs[n])]
           c == CHOOSE u : u = F(u)
<1>1. PICK u : IsChain(u, fs)
  BY ChainExists
<1>2. u = F(u)
  <2>1. Len(fs) \in Nat
    OBVIOUS
  <2>2. ASSUME NEW n \in 0..Len(fs) PROVE u[n] = F(u)[n]
    <3>1. CASE n = 0
      BY <1>1, <2>1, <3>1 DEF IsChain
    <3>2. CASE n # 0
      <4>1. n - 1 \in 0..Len(fs) - 1 /\ (n - 1) + 1 = n
        BY <2>1, <3>2
      <4>2. u[n] = u[n - 1] \o Encode(fs[n])
        BY <1>1, <4>1 DEF IsChain
      <4> QED BY <3>2, <4>2
    <3> QED BY <3>1, <3>2
  <2> QED BY <1>1, <2>2 DEF IsChain
<1>3. c = F(c)
  BY <1>2
<1>4. IsChain(c, fs)
  <2> DEFINE S == {n \in 0..Len(fs) : c[n] = u[n]}
  <2> HIDE DEF c
  <2>0. Len(fs) \in Nat
    OBVIOUS
  <2>1. 0 \in S
    BY <2>0, <1>1, <1>3 DEF IsChain
  <2>2. ASSUME NEW n \in 0..Len(fs), n \in S, n < Len(fs) PROVE n + 1 \in S
    <3>0. n + 1 \in 0..Len(fs) /\ n + 1 # 0 /\ (n + 1) - 1 = n /\ n \in 0..Len(fs) - 1
      BY <2>0, <2>2
    <3>1. c[n + 1] = c[n] \o Encode(fs[n + 1])
      BY <3>0, <1>3
    <3>2. u[n + 1] = u[n] \o Encode(fs[n + 1])
      BY <3>0, <1>1 DEF IsChain
    <3>3. c[n] = u[n]
      BY <2>2
    <3>4. c[n + 1] = u[n + 1]
      BY <3>1, <3>2, <3>3
    <3> QED BY <3>0, <3>4
  <2>3. \A n \in 0..Len(fs) : n \in S
    <3> HIDE DEF S
    <3> QED BY <2>0, <2>1, <2>2, InductionOnSet
  <2>4. c = u
    BY <2>3, <1>1, <1>3 DEF IsChain
  <2> QED BY <2>4, <1>1
<1>5. Bytes(fs) = c[Len(fs)]
  BY DEF Bytes
<1> HIDE DEF c
<1> QED BY <1>4, <1>5

\* Chains of frames that begin alike begin alike.
LEMMA ChainsAgree ==
  ASSUME NEW fs \in Seq(Frames), NEW gs \in Seq(Frames), NEW u, NEW v,
         IsChain(u, fs), IsChain(v, gs), NEW m \in Nat, m <= Len(fs), m <= Len(gs),
         \A n \in 1..m : fs[n] = gs[n]
  PROVE  u[m] = v[m]
<1> DEFINE S == {n \in 0..m : u[n] = v[n]}
<1>1. 0 \in S
  BY DEF IsChain
<1>2. ASSUME NEW n \in 0..m, n \in S, n < m PROVE n + 1 \in S
  <2>1. n \in 0..Len(fs) - 1 /\ n \in 0..Len(gs) - 1 /\ n + 1 \in 1..m
    BY <1>2
  <2>2. u[n + 1] = u[n] \o Encode(fs[n + 1]) /\ v[n + 1] = v[n] \o Encode(gs[n + 1])
    BY <2>1 DEF IsChain
  <2>3. fs[n + 1] = gs[n + 1]
    BY <2>1
  <2>4. u[n] = v[n]
    BY <1>2
  <2>5. u[n + 1] = v[n + 1] /\ n + 1 \in 0..m
    BY <2>1, <2>2, <2>3, <2>4
  <2> QED BY <2>5
<1>3. m \in S
  <2> HIDE DEF S
  <2>1. \A n \in 0..m : n \in S
    BY <1>1, <1>2, InductionOnSet
  <2> QED BY <2>1
<1> QED BY <1>3

LEMMA BytesOfNone == Bytes(<< >>) = << >>
<1>1. << >> \in Seq(Frames) /\ Len(<< >>) = 0
  OBVIOUS
<1> QED BY <1>1, BytesOfChain DEF IsChain

LEMMA BytesAreBytes ==
  ASSUME NEW fs \in Seq(Frames)
  PROVE  Bytes(fs) \in Seq(Byte)
<1>1. PICK u : IsChain(u, fs) /\ Bytes(fs) = u[Len(fs)]
  BY BytesOfChain
<1>2. Len(fs) \in 0..Len(fs)
  OBVIOUS
<1> QED BY <1>1, <1>2 DEF IsChain

LEMMA BytesOfAppend ==
  ASSUME NEW fs \in Seq(Frames), NEW f \in Frames
  PROVE  Bytes(Append(fs, f)) = Bytes(fs) \o Encode(f)
<1> DEFINE gs == Append(fs, f)
<1>1. gs \in Seq(Frames) /\ Len(gs) = Len(fs) + 1 /\ gs[Len(gs)] = f
      /\ \A n \in 1..Len(fs) : fs[n] = gs[n]
  OBVIOUS
<1> HIDE DEF gs
<1>2. PICK u : IsChain(u, fs) /\ Bytes(fs) = u[Len(fs)]
  BY BytesOfChain
<1>3. PICK v : IsChain(v, gs) /\ Bytes(gs) = v[Len(gs)]
  BY <1>1, BytesOfChain
<1>4. u[Len(fs)] = v[Len(fs)]
  BY <1>1, <1>2, <1>3, ChainsAgree
<1>5. v[Len(gs)] = v[Len(fs)] \o Encode(f)
  <2>1. Len(fs) \in 0..Len(gs) - 1 /\ Len(gs) = Len(fs) + 1
    BY <1>1
  <2> QED BY <1>1, <2>1, <1>3 DEF IsChain
<1> QED BY <1>2, <1>3, <1>4, <1>5 DEF gs

\* The recursion is on the last frame; the decoder needs the first.
LEMMA BytesOfFirst ==
  ASSUME NEW fs \in Seq(Frames), fs # << >>
  PROVE  Bytes(fs) = Encode(Head(fs)) \o Bytes(Tail(fs))
<1> DEFINE gs == Tail(fs)
           e == Encode(Head(fs))
<1>1. gs \in Seq(Frames) /\ Len(gs) = Len(fs) - 1 /\ Len(fs) \in Nat \ {0}
      /\ Head(fs) = fs[1] /\ Head(fs) \in Frames
      /\ \A n \in 1..Len(gs) : gs[n] = fs[n + 1] /\ gs[n] \in Frames
  OBVIOUS
<1>2. PICK u : IsChain(u, fs) /\ Bytes(fs) = u[Len(fs)]
  BY BytesOfChain
<1>3. PICK v : IsChain(v, gs) /\ Bytes(gs) = v[Len(gs)]
  BY <1>1, BytesOfChain
<1>4. e \in Seq(Byte)
  BY <1>1, Encoded
<1> HIDE DEF gs, e
<1> DEFINE S == {n \in 0..Len(gs) : u[n + 1] = e \o v[n]}
<1>5. 0 \in S
  <2>1. u[1] = << >> \o e /\ v[0] = << >>
    <3>1. 0 \in 0..Len(fs) - 1 /\ 0 + 1 = 1
      BY <1>1
    <3> QED BY <1>1, <1>2, <1>3, <3>1 DEF IsChain, e
  <2> QED BY <2>1, <1>1, <1>4
<1>6. ASSUME NEW n \in 0..Len(gs), n \in S, n < Len(gs) PROVE n + 1 \in S
  <2>1. /\ u[n + 2] = u[n + 1] \o Encode(fs[n + 2]) 
        /\ v[n + 1] = v[n] \o Encode(gs[n + 1]) /\ v[n] \in Seq(Byte)
        /\ gs[n + 1] = fs[n + 2] /\ gs[n + 1] \in Frames
    <3>1. /\ n + 1 \in 0..Len(fs) - 1 /\ n \in 0..Len(gs) - 1 /\ (n + 1) + 1 = n + 2
          /\ n + 1 \in 1..Len(gs)
      BY <1>1, <1>6
    <3> QED BY <1>1, <1>2, <1>3, <3>1 DEF IsChain
  <2>2. Encode(gs[n + 1]) \in Seq(Byte)
    BY <2>1, Encoded
  <2>3. u[n + 1] = e \o v[n]
    BY <1>6
  <2>4. (e \o v[n]) \o Encode(gs[n + 1]) = e \o (v[n] \o Encode(gs[n + 1]))
    <3> DEFINE a == v[n]
               b == Encode(gs[n + 1])
    <3>1. a \in Seq(Byte) /\ b \in Seq(Byte)
      BY <2>1, <2>2
    <3> HIDE DEF a, b
    <3>2. (e \o a) \o b = e \o (a \o b)
      BY <1>4, <3>1, Reassociate
    <3> QED BY <3>2 DEF a, b
  <2>5. u[n + 2] = e \o v[n + 1]
    BY <2>1, <2>3, <2>4
  <2> QED BY <2>5, <1>6, <1>1
<1>7. Len(gs) \in S
  <2> HIDE DEF S
  <2>1. Len(gs) \in Nat
    BY <1>1
  <2>2. \A n \in 0..Len(gs) : n \in S
    BY <2>1, <1>5, <1>6, InductionOnSet
  <2> QED BY <2>1, <2>2
<1>8. u[Len(fs)] = e \o v[Len(gs)]
  BY <1>1, <1>7
<1> QED BY <1>2, <1>3, <1>8 DEF gs, e

-----------------------------------------------------------------------------
(* Prefixes, and the frames to come.                                       *)

LEMMA PrefixByElement ==
  ASSUME NEW S, NEW s \in Seq(S), NEW t \in Seq(S)
  PROVE  IsPrefix(s, t) <=> Len(s) <= Len(t) /\ \A i \in 1..Len(s) : s[i] = t[i]
BY DEF IsPrefix

\* The same about two pieces joined.
LEMMA JoinedIsPrefix ==
  ASSUME NEW S, NEW b \in Seq(S), NEW w \in Seq(S), NEW t \in Seq(S)
  PROVE  IsPrefix(b \o w, t) <=> /\ Len(b) + Len(w) <= Len(t)
                                 /\ \A i \in 1..Len(b) : b[i] = t[i]
                                 /\ \A i \in 1..Len(w) : w[i] = t[Len(b) + i]
<1> DEFINE x == b \o w
<1>1. /\ x \in Seq(S) /\ Len(x) = Len(b) + Len(w)
      /\ Len(b) \in Nat /\ Len(w) \in Nat
      /\ \A i \in 1..Len(b) : x[i] = b[i]
      /\ \A i \in 1..Len(w) : x[Len(b) + i] = w[i]
  OBVIOUS
<1> HIDE DEF x
<1>2. IsPrefix(x, t) <=> Len(x) <= Len(t) /\ \A i \in 1..Len(x) : x[i] = t[i]
  <2>1. x \in Seq(S)
    BY <1>1
  <2> QED BY <2>1 DEF IsPrefix
<1>3. ASSUME \A i \in 1..Len(x) : x[i] = t[i]
      PROVE  /\ \A i \in 1..Len(b) : b[i] = t[i]
             /\ \A i \in 1..Len(w) : w[i] = t[Len(b) + i]
  <2>1. \A i \in 1..Len(b) : i \in 1..Len(x)
    BY <1>1
  <2>2. \A i \in 1..Len(w) : Len(b) + i \in 1..Len(x)
    BY <1>1
  <2> QED BY <1>1, <1>3, <2>1, <2>2
<1>4. ASSUME \A i \in 1..Len(b) : b[i] = t[i],
             \A i \in 1..Len(w) : w[i] = t[Len(b) + i],
             NEW i \in 1..Len(x)
      PROVE  x[i] = t[i]
  <2>1. CASE i \in 1..Len(b)
    BY <1>1, <1>4, <2>1
  <2>2. CASE i \notin 1..Len(b)
    <3>1. i - Len(b) \in 1..Len(w) /\ Len(b) + (i - Len(b)) = i
      BY <1>1, <2>2
    <3> QED BY <1>1, <1>4, <3>1
  <2> QED BY <2>1, <2>2
<1>5. IsPrefix(x, t) <=> /\ Len(b) + Len(w) <= Len(t)
                         /\ \A i \in 1..Len(b) : b[i] = t[i]
                         /\ \A i \in 1..Len(w) : w[i] = t[Len(b) + i]
  BY <1>1, <1>2, <1>3, <1>4
<1> QED BY <1>5 DEF x

\* A prefix as long as the whole is the whole.
LEMMA WholePrefix ==
  ASSUME NEW S, NEW b \in Seq(S), NEW w \in Seq(S), NEW t \in Seq(S)
  PROVE  /\ b \o w = t => IsPrefix(b \o w, t) /\ Len(b) + Len(w) = Len(t)
         /\ IsPrefix(b \o w, t) /\ Len(b) + Len(w) = Len(t) => b \o w = t
<1> DEFINE x == b \o w
<1>1. x \in Seq(S) /\ Len(x) = Len(b) + Len(w)
  OBVIOUS
<1> HIDE DEF x
<1>2. IsPrefix(x, t) <=> Len(x) <= Len(t) /\ \A i \in 1..Len(x) : x[i] = t[i]
  <2>1. x \in Seq(S)
    BY <1>1
  <2> QED BY <2>1 DEF IsPrefix
<1>3. ASSUME x = t PROVE IsPrefix(x, t) /\ Len(x) = Len(t)
  BY <1>1, <1>2, <1>3
<1>4. ASSUME IsPrefix(x, t), Len(x) = Len(t) PROVE x = t
  <2>1. \A i \in 1..Len(x) : x[i] = t[i]
    BY <1>2, <1>4
  <2> QED BY <1>1, <1>4, <2>1, SameSequence, Zenon
<1> QED BY <1>1, <1>3, <1>4 DEF x

LEMMA CutAndJoined ==
  ASSUME NEW S, NEW b \in Seq(S), NEW w \in Seq(S), NEW n \in 1..Len(w)
  PROVE  /\ b \o SubSeq(w, 1, n) \in Seq(S) /\ SubSeq(w, n + 1, Len(w)) \in Seq(S)
         /\ Len(b \o SubSeq(w, 1, n)) + Len(SubSeq(w, n + 1, Len(w))) = Len(b) + Len(w)
         /\ (b \o SubSeq(w, 1, n)) \o SubSeq(w, n + 1, Len(w)) = b \o w
<1> DEFINE x == SubSeq(w, 1, n)
           y == SubSeq(w, n + 1, Len(w))
<1>1. x \in Seq(S) /\ y \in Seq(S) /\ Len(x) = n /\ Len(y) = Len(w) - n
      /\ Len(w) \in Nat
  OBVIOUS
<1>2. x \o y = w
  OBVIOUS
<1> HIDE DEF x, y
<1>3. (b \o x) \o y = b \o (x \o y)
  <2>1. x \in Seq(S) /\ y \in Seq(S)
    BY <1>1
  <2> QED BY <2>1
<1>4. b \o x \in Seq(S) /\ Len(b \o x) = Len(b) + n /\ Len(b) \in Nat
  <2>1. x \in Seq(S)
    BY <1>1
  <2>2. b \o x \in Seq(S) /\ Len(b \o x) = Len(b) + Len(x) /\ Len(b) \in Nat
    BY <2>1
  <2> QED BY <1>1, <2>2
<1>5. Len(b \o x) + Len(y) = Len(b) + Len(w)
  BY <1>1, <1>4
<1> QED BY <1>1, <1>2, <1>3, <1>4, <1>5 DEF x, y

LEMMA CutIsPrefix ==
  ASSUME NEW S, NEW b \in Seq(S), NEW w \in Seq(S), NEW t \in Seq(S),
         NEW n \in 0..Len(w), IsPrefix(b \o w, t)
  PROVE  IsPrefix(b \o SubSeq(w, 1, n), t)
<1> DEFINE v == SubSeq(w, 1, n)
<1>1. v \in Seq(S) /\ Len(v) = n /\ \A i \in 1..n : v[i] = w[i]
  OBVIOUS
<1> HIDE DEF v
<1>2. /\ Len(b) + Len(w) <= Len(t)
      /\ \A i \in 1..Len(b) : b[i] = t[i]
      /\ \A i \in 1..Len(w) : w[i] = t[Len(b) + i]
  BY JoinedIsPrefix
<1>3. Len(b) + Len(v) <= Len(t) /\ \A i \in 1..Len(v) : v[i] = t[Len(b) + i]
  <2>1. Len(b) \in Nat /\ Len(w) \in Nat /\ Len(t) \in Nat
    OBVIOUS
  <2>2. \A i \in 1..Len(v) : i \in 1..Len(w) /\ v[i] = w[i]
    BY <1>1, <2>1
  <2>3. Len(b) + Len(v) <= Len(t)
    BY <1>1, <1>2, <2>1
  <2> QED BY <1>2, <2>2, <2>3
<1>4. IsPrefix(b \o v, t)
  BY <1>1, <1>2, <1>3, JoinedIsPrefix
<1> QED BY <1>4 DEF v

\* Whatever a buffer that starts where the frames p start has of the first of them.
LEMMA FrameIsRead ==
  ASSUME NEW b \in Seq(Byte), NEW w \in Seq(Byte), NEW p \in Seq(Frames),
         IsPrefix(b \o w, Bytes(p)), Len(b) >= HeaderLen
  PROVE  /\ p # << >> /\ Length(b) = Len(Head(p).data)
         /\ Len(b) >= HeaderLen + Length(b) =>
              /\ FirstFrame(b) = Head(p) /\ AfterFrame(b) \in Seq(Byte)
              /\ Len(b) = Len(Encode(Head(p))) + Len(AfterFrame(b))
              /\ IsPrefix(AfterFrame(b) \o w, Bytes(Tail(p)))
              /\ b \o w = Bytes(p) => AfterFrame(b) \o w = Bytes(Tail(p))
<1> DEFINE t == Bytes(p)
           h == Head(p)
           e == Encode(h)
           r == Bytes(Tail(p))
           a == AfterFrame(b)
<1>1. t \in Seq(Byte)
  BY BytesAreBytes
<1>2. /\ Len(b) + Len(w) <= Len(t)
      /\ \A i \in 1..Len(b) : b[i] = t[i]
      /\ \A i \in 1..Len(w) : w[i] = t[Len(b) + i]
  <2> HIDE DEF t
  <2>1. IsPrefix(b \o w, t)
    BY DEF t
  <2> QED BY <1>1, <2>1, JoinedIsPrefix
<1>3. p # << >>
  <2> SUFFICES ASSUME p = << >> PROVE FALSE
    OBVIOUS
  <2>1. t = << >>
    BY BytesOfNone
  <2> QED BY <1>2, <2>1 DEF HeaderLen
<1>4. h \in Frames /\ Tail(p) \in Seq(Frames)
  BY <1>3
<1>5. t = e \o r /\ r \in Seq(Byte) /\ e \in Seq(Byte)
  BY <1>3, <1>4, BytesOfFirst, BytesAreBytes, Encoded
<1>6. /\ h.data \in Seq(Byte) /\ h = [flags |-> h.flags, data |-> h.data]
      /\ Len(e) = HeaderLen + Len(h.data) /\ e[1] = h.flags
      /\ Length(e) = Len(h.data)
      /\ \A i \in 1..Len(h.data) : e[HeaderLen + i] = h.data[i]
  BY <1>4, Encoded
<1>7. /\ Len(t) = Len(e) + Len(r)
      /\ \A i \in 1..Len(e) : t[i] = e[i]
      /\ \A i \in 1..Len(r) : t[Len(e) + i] = r[i]
  BY <1>5, Joined
<1> HIDE DEF t, h, e, r, a
<1>9. b[1] = e[1] /\ b[2] = e[2] /\ b[3] = e[3] /\ b[4] = e[4] /\ b[5] = e[5]
  <2>1. \A i \in 1..5 : i \in 1..Len(b) /\ i \in 1..Len(e)
    BY <1>5, <1>6 DEF HeaderLen
  <2>2. \A i \in 1..5 : b[i] = e[i]
    BY <2>1, <1>2, <1>7
  <2> QED BY <2>2
<1>10. Length(b) = Len(h.data)
  BY <1>6, <1>9 DEF Length
<1>11. ASSUME Len(b) >= HeaderLen + Length(b)
       PROVE  /\ FirstFrame(b) = h /\ a \in Seq(Byte)
              /\ Len(b) = Len(e) + Len(a)
              /\ IsPrefix(a \o w, r)
              /\ b \o w = t => a \o w = r
  <2> DEFINE n == Len(e)
  <2>1. n \in Nat /\ n = HeaderLen + Length(b) /\ n <= Len(b)
    BY <1>5, <1>6, <1>10, <1>11 DEF HeaderLen
  <2>2. SubSeq(b, HeaderLen + 1, n) = h.data
    <3> DEFINE d == SubSeq(b, HeaderLen + 1, n)
    <3>1. d \in Seq(Byte) /\ Len(d) = Len(h.data)
          /\ \A i \in 1..Len(h.data) : d[i] = b[HeaderLen + i]
      BY <1>6, <1>10, <2>1 DEF HeaderLen
    <3>2. ASSUME NEW i \in 1..Len(h.data) PROVE d[i] = h.data[i]
      <4>1. HeaderLen + i \in 1..Len(e) /\ HeaderLen + i \in 1..Len(b)
        BY <1>6, <2>1 DEF HeaderLen
      <4>2. b[HeaderLen + i] = e[HeaderLen + i]
        BY <4>1, <1>2, <1>7
      <4> QED BY <3>1, <4>2, <1>6
    <3> HIDE DEF d
    <3>3. d = h.data
      BY <3>1, <3>2, <1>6, SameSequence, Zenon
    <3> QED BY <3>3 DEF d
  <2>3. FirstFrame(b) = h
    BY <2>1, <2>2, <1>6, <1>9 DEF FirstFrame
  <2> HIDE DEF n
  <2>4. a = SubSeq(b, n + 1, Len(b))
    BY <2>1 DEF a, AfterFrame
  <2>5. /\ a \in Seq(Byte) /\ Len(a) = Len(b) - n
        /\ \A i \in 1..Len(a) : a[i] = b[n + i]
    <3>1. b \in Seq(Byte)
      BY <1>5
    <3> HIDE DEF Byte
    <3> QED BY ONLY <2>1, <2>4, <3>1, SMTT(30)
  <2>6. Len(a) + Len(w) <= Len(r) /\ Len(t) = n + Len(r) /\ Len(b) = n + Len(a)
        /\ Len(a) \in Nat /\ Len(r) \in Nat /\ Len(b) \in Nat /\ Len(w) \in Nat
    <3>1. Len(a) \in Nat /\ Len(r) \in Nat /\ Len(b) \in Nat /\ Len(w) \in Nat
      BY <1>5, <2>5
    <3>2. Len(t) = n + Len(r)
      BY <1>7 DEF n
    <3>3. Len(a) = Len(b) - n
      BY <2>5
    <3> QED BY <3>1, <3>2, <3>3, <1>2, <2>1
  <2>7. ASSUME NEW i \in 1..Len(a) PROVE a[i] = r[i]
    <3>1. n + i \in 1..Len(b) /\ i \in 1..Len(r)
      BY <2>1, <2>6
    <3>2. t[n + i] = r[i]
      BY <3>1, <1>7 DEF n
    <3> QED BY <3>1, <3>2, <1>2, <2>5
  <2>8. ASSUME NEW i \in 1..Len(w) PROVE w[i] = r[Len(a) + i]
    <3>1. Len(a) + i \in 1..Len(r) /\ Len(b) + i = n + (Len(a) + i)
      BY <2>1, <2>6
    <3>2. t[n + (Len(a) + i)] = r[Len(a) + i]
      BY <3>1, <1>7 DEF n
    <3> QED BY <3>1, <3>2, <1>2
  <2>9. IsPrefix(a \o w, r)
    <3>1. a \in Seq(Byte) /\ r \in Seq(Byte)
      BY <1>5, <2>5
    <3>2. Len(a) + Len(w) <= Len(r)
      BY <2>6
    <3> QED BY <3>1, <3>2, <2>7, <2>8, JoinedIsPrefix
  <2>10. ASSUME b \o w = t PROVE a \o w = r
    <3>1. Len(b) + Len(w) = Len(t)
      BY <1>1, <2>10, WholePrefix
    <3>2. Len(a) + Len(w) = Len(r)
      BY <3>1, <2>1, <2>6
    <3>3. a \in Seq(Byte) /\ r \in Seq(Byte)
      BY <1>5, <2>5
    <3> QED BY <2>9, <3>2, <3>3, WholePrefix
  <2>11. Len(b) = Len(e) + Len(a)
    BY <2>6 DEF n
  <2> QED BY <2>3, <2>5, <2>9, <2>10, <2>11
<1> QED BY <1>3, <1>10, <1>11 DEF t, h, e, r, a

-----------------------------------------------------------------------------
(* The invariant.                                                          *)

From(s, n) == SubSeq(s, n + 1, Len(s))

LEMMA PendingIsFrom == Pending = From(sent, Len(items))
BY DEF Pending, From

LEMMA FromIsSuffix ==
  ASSUME NEW s \in Seq(Frames), NEW n \in 0..Len(s)
  PROVE  /\ From(s, n) \in Seq(Frames) /\ Len(From(s, n)) = Len(s) - n
         /\ \A i \in 1..Len(s) - n : From(s, n)[i] = s[n + i]
<1> DEFINE x == SubSeq(s, n + 1, Len(s))
<1>1. /\ x \in Seq(Frames) /\ Len(x) = Len(s) - n
      /\ \A i \in 1..Len(s) - n : x[i] = s[n + i]
  OBVIOUS
<1> QED BY <1>1 DEF From

LEMMA FromAppended ==
  ASSUME NEW s \in Seq(Frames), NEW n \in 0..Len(s), NEW f \in Frames
  PROVE  From(Append(s, f), n) = Append(From(s, n), f)
<1> DEFINE g == Append(s, f)
           x == From(g, n)
           y == From(s, n)
           z == Append(y, f)
<1>1. g \in Seq(Frames) /\ Len(g) = Len(s) + 1 /\ g[Len(s) + 1] = f
      /\ Len(s) \in Nat /\ \A i \in 1..Len(s) : g[i] = s[i]
  OBVIOUS
<1> HIDE DEF g
<1>2. /\ x \in Seq(Frames) /\ Len(x) = Len(g) - n
      /\ \A i \in 1..Len(g) - n : x[i] = g[n + i]
  <2>1. n \in 0..Len(g)
    BY <1>1
  <2> QED BY <1>1, <2>1, FromIsSuffix
<1>3. /\ y \in Seq(Frames) /\ Len(y) = Len(s) - n
      /\ \A i \in 1..Len(s) - n : y[i] = s[n + i]
  BY FromIsSuffix
<1> HIDE DEF x, y
<1>4. /\ z \in Seq(Frames) /\ Len(z) = Len(y) + 1 /\ z[Len(y) + 1] = f
      /\ \A i \in 1..Len(y) : z[i] = y[i]
  <2>1. y \in Seq(Frames)
    BY <1>3
  <2> QED BY <2>1
<1> HIDE DEF z
<1>5. Len(x) = Len(z)
  BY <1>1, <1>2, <1>3, <1>4
<1>6. ASSUME NEW i \in 1..Len(x) PROVE x[i] = z[i]
  <2>1. x[i] = g[n + i]
    BY <1>1, <1>2
  <2>2. CASE i = Len(y) + 1
    <3>1. n + i = Len(s) + 1
      BY <2>2, <1>1, <1>3
    <3> QED BY <2>1, <2>2, <3>1, <1>1, <1>4
  <2>3. CASE i # Len(y) + 1
    <3>1. i \in 1..Len(y) /\ i \in 1..Len(s) - n /\ n + i \in 1..Len(s)
      BY <2>3, <1>1, <1>3, <1>4, <1>5
    <3> QED BY <2>1, <3>1, <1>1, <1>3, <1>4
  <2> QED BY <2>2, <2>3
<1>7. x = z
  BY <1>2, <1>4, <1>5, <1>6, SameSequence, Zenon
<1> QED BY <1>7 DEF x, y, z, g

LEMMA FromNext ==
  ASSUME NEW s \in Seq(Frames), NEW n \in 0..Len(s), From(s, n) # << >>
  PROVE  /\ n < Len(s) /\ Head(From(s, n)) = s[n + 1] /\ s[n + 1] \in Frames
         /\ Tail(From(s, n)) = From(s, n + 1)
<1> DEFINE y == From(s, n)
<1>1. /\ y \in Seq(Frames) /\ Len(y) = Len(s) - n /\ Len(s) \in Nat
      /\ \A i \in 1..Len(s) - n : y[i] = s[n + i]
  BY FromIsSuffix
<1> HIDE DEF y
<1>2. Len(y) \in Nat \ {0} /\ Head(y) = y[1]
  <2>1. y \in Seq(Frames) /\ y # << >>
    BY <1>1 DEF y
  <2> QED BY <2>1
<1>3. n < Len(s) /\ 1 \in 1..Len(s) - n /\ n + 1 \in 0..Len(s) /\ n + 1 \in 1..Len(s)
  BY <1>1, <1>2
<1> DEFINE t == Tail(y)
           x == From(s, n + 1)
<1>4. /\ x \in Seq(Frames) /\ Len(x) = Len(s) - (n + 1)
      /\ \A i \in 1..Len(s) - (n + 1) : x[i] = s[(n + 1) + i]
  BY <1>3, FromIsSuffix
<1>5. /\ t \in Seq(Frames) /\ Len(t) = Len(y) - 1
      /\ \A i \in 1..Len(y) - 1 : t[i] = y[i + 1]
  <2>1. y \in Seq(Frames) /\ y # << >>
    BY <1>1 DEF y
  <2> QED BY <2>1
<1> HIDE DEF t, x
<1>6. Len(t) = Len(x)
  BY <1>1, <1>4, <1>5
<1>7. ASSUME NEW i \in 1..Len(t) PROVE t[i] = x[i]
  <2>1. i \in 1..Len(y) - 1 /\ i + 1 \in 1..Len(s) - n /\ n + (i + 1) = (n + 1) + i
        /\ i \in 1..Len(s) - (n + 1)
    BY <1>1, <1>5, <1>3
  <2> QED BY <2>1, <1>1, <1>4, <1>5
<1>8. t = x
  BY <1>4, <1>5, <1>6, <1>7, SameSequence, Zenon
<1>9. s[n + 1] \in Frames
  BY <1>3
<1> QED BY <1>1, <1>2, <1>3, <1>8, <1>9 DEF y, t, x

LEMMA InitIsGood == Init => IInv
<1> SUFFICES ASSUME Init PROVE IInv
  OBVIOUS
<1>1. sent = << >> /\ wire = << >> /\ buf = << >> /\ items = << >>
      /\ gen = "requesting" /\ end = "none" /\ net = "open"
  BY DEF Init
<1>2. TypeOK
  BY <1>1 DEF TypeOK
<1>3. Pending = << >>
  BY <1>1 DEF Pending
<1>4. buf \o wire = Bytes(Pending)
  BY <1>1, <1>3, BytesOfNone
<1>5. Bytes(Pending) = << >> /\ IsPrefix(<< >>, << >>)
  BY <1>3, BytesOfNone DEF IsPrefix
<1> QED BY <1>1, <1>2, <1>3, <1>4, <1>5 DEF IInv, Reassembled, NothingStranded, NothingMissing

\* What the invariant says of the buffer, in a form the actions use.
LEMMA PendingFrames ==
  ASSUME IInv
  PROVE  /\ Pending \in Seq(Frames) /\ Bytes(Pending) \in Seq(Byte)
         /\ Len(items) \in 0..Len(sent) /\ buf \o wire \in Seq(Byte)
<1>1. sent \in Seq(Frames) /\ items \in Seq(Messages) /\ Len(items) <= Len(sent)
      /\ buf \in Seq(Byte) /\ wire \in Seq(Byte)
  BY DEF IInv, TypeOK, Reassembled
<1>2. Len(items) \in 0..Len(sent)
  BY <1>1
<1>3. Pending \in Seq(Frames)
  BY <1>1, <1>2, FromIsSuffix, PendingIsFrom
<1> QED BY <1>1, <1>2, <1>3, BytesAreBytes

LEMMA SendingIsGood == IInv /\ ServerSends => IInv'
<1> SUFFICES ASSUME IInv, ServerSends PROVE IInv'
  OBVIOUS
<1>1. PICK f \in Frames : sent' = Append(sent, f) /\ wire' = wire \o Encode(f)
  BY DEF ServerSends
<1>2. net = "open" /\ UNCHANGED <<net, buf, gen, items, end>>
  BY DEF ServerSends
<1>3. sent \in Seq(Frames) /\ wire \in Seq(Byte) /\ buf \in Seq(Byte) /\ items \in Seq(Messages)
  BY DEF IInv, TypeOK
<1>4. Encode(f) \in Seq(Byte) /\ Len(Encode(f)) >= HeaderLen
  <2>1. f.data \in Seq(Byte) /\ Len(Encode(f)) = HeaderLen + Len(f.data)
    BY Encoded
  <2> QED BY <2>1, Encoded DEF HeaderLen
<1>5. sent' \in Seq(Frames) /\ wire' \in Seq(Byte) /\ Len(sent') = Len(sent) + 1
      /\ \A i \in 1..Len(sent) : sent'[i] = sent[i]
  BY <1>1, <1>3, <1>4
<1>6. TypeOK'
  BY <1>2, <1>5 DEF IInv, TypeOK
<1>7. Pending' = Append(Pending, f)
  <2>1. Len(items) \in 0..Len(sent)
    BY PendingFrames
  <2>2. Pending' = From(sent', Len(items))
    BY <1>2 DEF Pending, From
  <2> QED BY <1>1, <1>3, <2>1, <2>2, FromAppended, PendingIsFrom
<1>8. Bytes(Pending') = Bytes(Pending) \o Encode(f)
  BY <1>7, BytesOfAppend, PendingFrames
<1>9. ASSUME end = "none"
      PROVE  buf \o wire' = Bytes(Pending') /\ IsPrefix(buf \o wire', Bytes(Pending'))
  <2>1. buf \o wire = Bytes(Pending)
    BY <1>2, <1>9 DEF IInv, NothingMissing
  <2>2. buf \o wire' = (buf \o wire) \o Encode(f)
    <3> DEFINE x == Encode(f)
    <3>1. x \in Seq(Byte)
      BY <1>4
    <3> HIDE DEF x
    <3>2. (buf \o wire) \o x = buf \o (wire \o x)
      BY <3>1, <1>3
    <3> QED BY <3>2, <1>1 DEF x
  <2>3. buf \o wire' = Bytes(Pending')
    BY <2>1, <2>2, <1>8
  <2>4. Bytes(Pending') \in Seq(Byte)
    <3>1. Pending' \in Seq(Frames)
      BY <1>7, PendingFrames
    <3> QED BY <3>1, BytesAreBytes
  <2> QED BY <1>3, <1>5, <2>3, <2>4, WholePrefix
<1>10. Reassembled'
  <2>1. Len(items') <= Len(sent') /\ \A i \in 1..Len(items') : sent'[i] = sent[i]
    BY <1>2, <1>3, <1>5, PendingFrames
  <2> QED BY <1>2, <1>9, <2>1 DEF IInv, Reassembled
<1>11. NothingStranded'
  <2> SUFFICES ASSUME gen = "reading" PROVE Len(buf) < Len(Encode(Head(Pending')))
    BY <1>2 DEF NothingStranded
  <2>1. CASE Pending = << >>
    <3>1. Head(Pending') = f
      BY <2>1, <1>7
    <3>2. end = "none" /\ buf \o wire = Bytes(Pending)
      BY <1>2 DEF IInv, TypeOK, NothingMissing
    <3>3. buf \o wire = << >>
      BY <2>1, <3>2, BytesOfNone
    <3>4. Len(buf) = 0
      <4>1. Len(buf \o wire) = Len(buf) + Len(wire) /\ Len(buf) \in Nat /\ Len(wire) \in Nat
        BY <1>3
      <4>2. Len(buf) + Len(wire) = 0
        BY <3>3, <4>1
      <4> QED BY <4>1, <4>2
    <3> QED BY <1>4, <3>1, <3>4 DEF HeaderLen
  <2>2. CASE Pending # << >>
    <3>1. Head(Pending') = Head(Pending)
      BY <2>2, <1>7, PendingFrames
    <3> QED BY <2>2, <3>1 DEF IInv, NothingStranded
  <2> QED BY <2>1, <2>2
<1>12. NothingMissing'
  BY <1>2, <1>9 DEF IInv, NothingMissing
<1> QED BY <1>6, <1>10, <1>11, <1>12 DEF IInv

LEMMA BreakingIsGood == IInv /\ Break => IInv'
<1> SUFFICES ASSUME IInv, Break PROVE IInv'
  OBVIOUS
<1>1. PICK n \in 0..Len(wire) : wire' = SubSeq(wire, 1, n)
  BY DEF Break
<1>2. net' \in {"eof", "broken"} /\ UNCHANGED <<sent, buf, gen, items, end>>
  BY DEF Break
<1>3. buf \in Seq(Byte) /\ wire \in Seq(Byte) /\ wire' \in Seq(Byte)
  <2>1. buf \in Seq(Byte) /\ wire \in Seq(Byte)
    BY DEF IInv, TypeOK
  <2>2. SubSeq(wire, 1, n) \in Seq(Byte)
    BY <2>1
  <2> QED BY <1>1, <2>1, <2>2
<1>4. Pending' = Pending
  BY <1>2 DEF Pending
<1>5. ASSUME end = "none" PROVE IsPrefix(buf \o wire', Bytes(Pending))
  <2>1. IsPrefix(buf \o wire, Bytes(Pending))
    BY <1>5 DEF IInv, Reassembled
  <2>2. Bytes(Pending) \in Seq(Byte)
    BY PendingFrames
  <2> QED BY <1>1, <1>3, <2>1, <2>2, CutIsPrefix
<1>6. TypeOK' /\ Reassembled'
  BY <1>2, <1>3, <1>4, <1>5 DEF IInv, TypeOK, Reassembled
<1>7. NothingStranded' /\ NothingMissing'
  BY <1>2, <1>4 DEF IInv, NothingStranded, NothingMissing
<1> QED BY <1>6, <1>7 DEF IInv

LEMMA ChunkIsGood == IInv /\ ReceiveChunk => IInv'
<1> SUFFICES ASSUME IInv, ReceiveChunk PROVE IInv'
  OBVIOUS
<1>1. PICK n \in 1..Len(wire) : /\ buf' = buf \o SubSeq(wire, 1, n)
                                /\ wire' = SubSeq(wire, n + 1, Len(wire))
  BY DEF ReceiveChunk
<1>2. gen = "reading" /\ gen' = "decoding" /\ UNCHANGED <<sent, net, items, end>>
  BY DEF ReceiveChunk
<1>3. buf \in Seq(Byte) /\ wire \in Seq(Byte)
  BY DEF IInv, TypeOK
<1>4. buf' \in Seq(Byte) /\ wire' \in Seq(Byte) /\ buf' \o wire' = buf \o wire
  BY <1>1, <1>3, CutAndJoined
<1>5. Pending' = Pending
  BY <1>2 DEF Pending
<1>6. TypeOK' /\ Reassembled'
  BY <1>2, <1>4, <1>5 DEF IInv, TypeOK, Reassembled
<1>7. NothingStranded' /\ NothingMissing'
  BY <1>2, <1>4, <1>5 DEF IInv, NothingStranded, NothingMissing
<1> QED BY <1>6, <1>7 DEF IInv

LEMMA WaitingIsGood == IInv /\ NeedMore => IInv'
<1> SUFFICES ASSUME IInv, NeedMore PROVE IInv'
  OBVIOUS
<1>1. gen = "decoding" /\ ~ HasFrame(buf) /\ gen' = "reading"
      /\ UNCHANGED <<sent, wire, net, buf, items, end>>
  BY DEF NeedMore
<1>2. Pending' = Pending
  BY <1>1 DEF Pending
<1>3. buf \in Seq(Byte) /\ wire \in Seq(Byte) /\ end = "none"
  BY <1>1 DEF IInv, TypeOK
<1>4. ASSUME Pending # << >> PROVE Len(buf) < Len(Encode(Head(Pending)))
  <2>1. Head(Pending) \in Frames /\ Pending \in Seq(Frames)
    BY <1>4, PendingFrames
  <2>2. /\ Len(Encode(Head(Pending))) = HeaderLen + Len(Head(Pending).data)
        /\ Len(Head(Pending).data) \in Nat
    <3>1. Head(Pending).data \in Seq(Byte)
      BY <2>1, Encoded
    <3> QED BY <2>1, <3>1, Encoded
  <2>3. CASE Len(buf) < HeaderLen
    BY <2>2, <2>3, <1>3 DEF HeaderLen
  <2>4. CASE Len(buf) >= HeaderLen
    <3>1. IsPrefix(buf \o wire, Bytes(Pending))
      BY <1>3 DEF IInv, Reassembled
    <3>2. Length(buf) = Len(Head(Pending).data)
      BY <1>3, <2>1, <2>4, <3>1, FrameIsRead
    <3> QED BY <1>1, <1>3, <2>2, <2>4, <3>2 DEF HasFrame, HeaderLen
  <2> QED BY <2>3, <2>4, <1>3 DEF HeaderLen
<1>5. TypeOK' /\ Reassembled'
  BY <1>1, <1>2, <1>3 DEF IInv, TypeOK, Reassembled
<1>6. NothingStranded' /\ NothingMissing'
  BY <1>1, <1>2, <1>4 DEF IInv, NothingStranded, NothingMissing
<1> QED BY <1>5, <1>6 DEF IInv

\* What decoding a frame does: it takes the first pending frame off the buffer.
LEMMA DecodingTakesFirst ==
  ASSUME IInv, DecodeFrame
  PROVE  /\ Pending # << >> /\ FirstFrame(buf) = Head(Pending) /\ Head(Pending) \in Frames
         /\ Len(items) < Len(sent) /\ Head(Pending) = sent[Len(items) + 1]
         /\ buf' \in Seq(Byte) /\ Len(buf) = Len(Encode(Head(Pending))) + Len(buf')
         /\ IsPrefix(buf' \o wire, Bytes(Tail(Pending)))
         /\ net = "open" => buf' \o wire = Bytes(Tail(Pending))
         /\ Tail(Pending) = From(sent, Len(items) + 1)
<1>1. gen = "decoding" /\ HasFrame(buf) /\ buf' = AfterFrame(buf)
  BY DEF DecodeFrame
<1>2. buf \in Seq(Byte) /\ wire \in Seq(Byte) /\ sent \in Seq(Frames) /\ end = "none"
  BY <1>1 DEF IInv, TypeOK
<1>3. Pending \in Seq(Frames) /\ Len(items) \in 0..Len(sent)
  BY PendingFrames
<1>4. IsPrefix(buf \o wire, Bytes(Pending))
  BY <1>2 DEF IInv, Reassembled
<1>5. Len(buf) >= HeaderLen /\ Len(buf) >= HeaderLen + Length(buf)
  BY <1>1 DEF HasFrame
<1>6. /\ Pending # << >> /\ FirstFrame(buf) = Head(Pending) /\ AfterFrame(buf) \in Seq(Byte)
      /\ Len(buf) = Len(Encode(Head(Pending))) + Len(AfterFrame(buf))
      /\ IsPrefix(AfterFrame(buf) \o wire, Bytes(Tail(Pending)))
      /\ buf \o wire = Bytes(Pending) => AfterFrame(buf) \o wire = Bytes(Tail(Pending))
  <2>1. Len(buf) >= HeaderLen
    BY <1>5
  <2>2. /\ Pending # << >>
        /\ Len(buf) >= HeaderLen + Length(buf) =>
             /\ FirstFrame(buf) = Head(Pending) /\ AfterFrame(buf) \in Seq(Byte)
             /\ Len(buf) = Len(Encode(Head(Pending))) + Len(AfterFrame(buf))
             /\ IsPrefix(AfterFrame(buf) \o wire, Bytes(Tail(Pending)))
             /\ buf \o wire = Bytes(Pending)
                  => AfterFrame(buf) \o wire = Bytes(Tail(Pending))
    BY <1>2, <1>3, <1>4, <2>1, FrameIsRead, Zenon
  <2> QED BY <1>5, <2>2, Zenon
<1>7. /\ Len(items) < Len(sent) /\ Head(Pending) = sent[Len(items) + 1]
      /\ Head(Pending) \in Frames /\ Tail(Pending) = From(sent, Len(items) + 1)
  BY <1>2, <1>3, <1>6, FromNext, PendingIsFrom
<1>8. net = "open" => buf \o wire = Bytes(Pending)
  BY <1>2 DEF IInv, NothingMissing
<1> QED BY <1>1, <1>6, <1>7, <1>8

LEMMA DecodingIsGood == IInv /\ DecodeFrame => IInv'
<1> SUFFICES ASSUME IInv, DecodeFrame PROVE IInv'
  OBVIOUS
<1> DEFINE f == FirstFrame(buf)
<1>1. gen = "decoding" /\ UNCHANGED <<sent, wire, net>>
  BY DEF DecodeFrame
<1>2. /\ f = sent[Len(items) + 1] /\ f \in Frames /\ Len(items) < Len(sent)
      /\ buf' \in Seq(Byte)
      /\ IsPrefix(buf' \o wire, Bytes(Tail(Pending)))
      /\ net = "open" => buf' \o wire = Bytes(Tail(Pending))
      /\ Tail(Pending) = From(sent, Len(items) + 1)
  BY DecodingTakesFirst
<1>3. wire \in Seq(Byte) /\ sent \in Seq(Frames) /\ end = "none" /\ items \in Seq(Messages)
  BY <1>1 DEF IInv, TypeOK
<1>4. CASE Meaning(f) = "message"
  <2>1. items' = Append(items, f.data) /\ UNCHANGED <<gen, end>>
    BY <1>4 DEF DecodeFrame
  <2>2. f.data \in Messages
    BY <1>4 DEF Meaning
  <2>3. /\ items' \in Seq(Messages) /\ Len(items') = Len(items) + 1
        /\ items'[Len(items) + 1] = f.data /\ Len(items) \in Nat
        /\ \A i \in 1..Len(items) : items'[i] = items[i]
    BY <1>3, <2>1, <2>2
  <2>4. Pending' = Tail(Pending)
    BY <1>1, <1>2, <2>3 DEF Pending, From
  <2>5. TypeOK'
    BY <1>1, <1>2, <2>1, <2>3 DEF IInv, TypeOK
  <2>6. Reassembled'
    <3>1. Len(items') <= Len(sent')
      BY <1>1, <1>2, <1>3, <2>3
    <3>2. ASSUME NEW i \in 1..Len(items')
          PROVE  Meaning(sent'[i]) = "message" /\ items'[i] = sent'[i].data
      <4>1. CASE i = Len(items) + 1
        BY <4>1, <1>1, <1>2, <1>4, <2>3
      <4>2. CASE i # Len(items) + 1
        <5>1. i \in 1..Len(items)
          BY <4>2, <2>3
        <5> QED BY <5>1, <1>1, <2>3 DEF IInv, Reassembled
      <4> QED BY <4>1, <4>2
    <3> QED BY <1>1, <1>2, <2>4, <3>1, <3>2 DEF Reassembled
  <2>7. NothingStranded' /\ NothingMissing'
    BY <1>1, <1>2, <2>1, <2>4 DEF NothingStranded, NothingMissing
  <2> QED BY <2>5, <2>6, <2>7 DEF IInv
<1>5. CASE Meaning(f) # "message"
  <2>1. gen' = "done" /\ end' = Meaning(f) /\ items' = items
    BY <1>5 DEF DecodeFrame, Ends
  <2>2. Meaning(f) \in {"clean", "error"}
    BY <1>5 DEF Meaning
  <2>3. TypeOK' /\ Reassembled'
    BY <1>1, <1>2, <1>3, <2>1, <2>2 DEF IInv, TypeOK, Reassembled
  <2>4. NothingStranded' /\ NothingMissing'
    BY <2>1, <2>2 DEF NothingStranded, NothingMissing
  <2> QED BY <2>3, <2>4 DEF IInv
<1> QED BY <1>4, <1>5

LEMMA StepIsGood == IInv /\ [Next]_vars => IInv'
<1> SUFFICES ASSUME IInv, [Next]_vars PROVE IInv'
  OBVIOUS
<1>1. CASE ServerSends
  BY <1>1, SendingIsGood
<1>2. CASE ServerCloses
  <2>1. net' = "eof" /\ UNCHANGED <<sent, wire, buf, gen, items, end>> /\ Pending' = Pending
    BY <1>2 DEF ServerCloses, Pending
  <2> QED BY <2>1 DEF IInv, TypeOK, Reassembled, NothingStranded, NothingMissing
<1>3. CASE Break
  BY <1>3, BreakingIsGood
<1>4. CASE Answered
  <2>1. gen = "requesting" /\ gen' = "reading" /\ Pending' = Pending
        /\ UNCHANGED <<sent, wire, net, buf, items, end>>
    BY <1>4 DEF Answered, Pending
  <2>2. ASSUME Pending # << >> PROVE Len(buf) < Len(Encode(Head(Pending)))
    <3>1. Head(Pending) \in Frames
      BY <2>2, PendingFrames
    <3>2. Head(Pending).data \in Seq(Byte)
          /\ Len(Encode(Head(Pending))) = HeaderLen + Len(Head(Pending).data)
      BY <3>1, Encoded
    <3>3. buf = << >>
      BY <2>1 DEF IInv, NothingMissing
    <3> QED BY <3>2, <3>3 DEF HeaderLen
  <2> QED BY <2>1, <2>2 DEF IInv, TypeOK, Reassembled, NothingStranded, NothingMissing
<1>5. CASE Refused
  <2>1. gen = "requesting" /\ gen' = "failed" /\ Pending' = Pending
        /\ UNCHANGED <<sent, wire, net, buf, items, end>>
    BY <1>5 DEF Refused, Pending
  <2> QED BY <2>1 DEF IInv, TypeOK, Reassembled, NothingStranded, NothingMissing
<1>6. CASE ReceiveChunk
  BY <1>6, ChunkIsGood
<1>7. CASE BodyEnds \/ BodyFails
  <2>1. gen' = "done" /\ end' \in {"clean", "error"} /\ Pending' = Pending
        /\ UNCHANGED <<sent, wire, net, buf, items>>
    BY <1>7 DEF BodyEnds, BodyFails, Ends, Pending
  <2> QED BY <2>1 DEF IInv, TypeOK, Reassembled, NothingStranded, NothingMissing
<1>8. CASE NeedMore
  BY <1>8, WaitingIsGood
<1>9. CASE DecodeFrame
  BY <1>9, DecodingIsGood
<1>10. CASE Drop
  <2>1. gen \in {"reading", "decoding"} /\ gen' = "dropped" /\ Pending' = Pending
        /\ UNCHANGED <<sent, wire, net, buf, items, end>>
    BY <1>10 DEF Drop, Pending
  <2> QED BY <2>1 DEF IInv, TypeOK, Reassembled, NothingStranded, NothingMissing
<1>11. CASE UNCHANGED vars
  <2>1. Pending' = Pending /\ UNCHANGED <<sent, wire, net, buf, gen, items, end>>
    BY <1>11 DEF vars, Pending
  <2> QED BY <2>1 DEF IInv, TypeOK, Reassembled, NothingStranded, NothingMissing
<1> QED
  BY <1>1, <1>2, <1>3, <1>4, <1>5, <1>6, <1>7, <1>8, <1>9, <1>10, <1>11
  DEF Next, Server, Poll

\* However frames are cut into chunks and wherever the body breaks, the decoder
\* (server_stream, next_frame) keeps bytes, frames and messages in step.
THEOREM Invariance == Spec => []IInv
<1> QED BY InitIsGood, StepIsGood, PTL DEF Spec

-----------------------------------------------------------------------------
(* The frames that have arrived.                                           *)

LEMMA FrontFrames ==
  ASSUME NEW p \in Seq(Frames), NEW k \in 0..Len(p)
  PROVE  /\ SubSeq(p, 1, k) \in Seq(Frames) /\ Len(SubSeq(p, 1, k)) = k
         /\ \A i \in 1..k : SubSeq(p, 1, k)[i] = p[i]
         /\ k < Len(p) => /\ p[k + 1] \in Frames
                          /\ SubSeq(p, 1, k + 1) = Append(SubSeq(p, 1, k), p[k + 1])
<1>1. /\ SubSeq(p, 1, k) \in Seq(Frames) /\ Len(SubSeq(p, 1, k)) = k
      /\ \A i \in 1..k : SubSeq(p, 1, k)[i] = p[i]
  OBVIOUS
<1>2. k < Len(p) => p[k + 1] \in Frames
  OBVIOUS
<1>3. k < Len(p) => SubSeq(p, 1, k + 1) = Append(SubSeq(p, 1, k), p[k + 1])
  OBVIOUS
<1> QED BY <1>1, <1>2, <1>3

LEMMA WholeFront ==
  ASSUME NEW p \in Seq(Frames)
  PROVE  SubSeq(p, 1, Len(p)) = p
OBVIOUS

LEMMA LengthOfJoined ==
  ASSUME NEW a \in Seq(Byte), NEW b \in Seq(Byte)
  PROVE  Len(a \o b) = Len(a) + Len(b) /\ Len(a) \in Nat /\ Len(b) \in Nat
OBVIOUS

LEMMA FrontIsShorter ==
  ASSUME NEW p \in Seq(Frames), NEW k \in 0..Len(p)
  PROVE  Len(Bytes(SubSeq(p, 1, k))) \in Nat /\ Len(Bytes(SubSeq(p, 1, k))) <= Len(Bytes(p))
<1> DEFINE l(j) == Len(Bytes(SubSeq(p, 1, j)))
           S == {j \in 0..Len(p) : l(Len(p) - j) <= l(Len(p))}
<1>0. Len(p) \in Nat
  OBVIOUS
<1>1. ASSUME NEW j \in 0..Len(p) PROVE l(j) \in Nat
  <2>1. Bytes(SubSeq(p, 1, j)) \in Seq(Byte)
    BY FrontFrames, BytesAreBytes
  <2> QED BY <2>1
<1>2. ASSUME NEW j \in 0..Len(p), j < Len(p) PROVE l(j) <= l(j + 1)
  <2> DEFINE x == SubSeq(p, 1, j)
             f == p[j + 1]
  <2>1. x \in Seq(Frames) /\ f \in Frames /\ SubSeq(p, 1, j + 1) = Append(x, f)
    BY <1>2, FrontFrames
  <2> HIDE DEF x, f
  <2>2. Bytes(Append(x, f)) = Bytes(x) \o Encode(f)
    BY <2>1, BytesOfAppend
  <2>3. Bytes(x) \in Seq(Byte) /\ Encode(f) \in Seq(Byte)
    BY <2>1, BytesAreBytes, Encoded
  <2>4. Len(Bytes(Append(x, f))) = Len(Bytes(x)) + Len(Encode(f))
        /\ Len(Bytes(x)) \in Nat /\ Len(Encode(f)) \in Nat
    BY <2>2, <2>3, LengthOfJoined
  <2>5. l(j) = Len(Bytes(x)) /\ l(j + 1) = Len(Bytes(Append(x, f)))
    BY <2>1 DEF x
  <2> HIDE DEF l
  <2> QED BY <2>4, <2>5
<1> HIDE DEF l
<1>3. 0 \in S
  BY <1>0, <1>1
<1>4. ASSUME NEW j \in 0..Len(p), j \in S, j < Len(p) PROVE j + 1 \in S
  <2>1. Len(p) - (j + 1) \in 0..Len(p) /\ Len(p) - (j + 1) < Len(p)
        /\ (Len(p) - (j + 1)) + 1 = Len(p) - j /\ Len(p) - j \in 0..Len(p)
        /\ j + 1 \in 0..Len(p)
    BY <1>0, <1>4
  <2>2. l(Len(p) - (j + 1)) <= l(Len(p) - j)
    BY <2>1, <1>2
  <2>3. l(Len(p) - j) <= l(Len(p))
    BY <1>4
  <2>4. l(Len(p) - (j + 1)) <= l(Len(p))
    <3>1. l(Len(p) - (j + 1)) \in Nat /\ l(Len(p) - j) \in Nat /\ l(Len(p)) \in Nat
      BY <2>1, <1>0, <1>1
    <3> QED BY <3>1, <2>2, <2>3
  <2> QED BY <2>1, <2>4
<1>5. \A j \in 0..Len(p) : j \in S
  <2> HIDE DEF S
  <2> QED BY <1>0, <1>3, <1>4, InductionOnSet
<1>6. l(k) <= l(Len(p))
  <2>1. Len(p) - k \in 0..Len(p) /\ Len(p) - (Len(p) - k) = k
    BY <1>0
  <2>2. Len(p) - k \in S
    BY <2>1, <1>5
  <2> QED BY <2>1, <2>2
<1> QED BY <1>1, <1>6, WholeFront DEF l

\* Where every byte is there, every frame has arrived.
LEMMA AllArrived ==
  ASSUME NEW p \in Seq(Frames), NEW k \in Nat
  PROVE  Arrived(p, Len(Bytes(p)), k) <=> k <= Len(p)
<1>1. ASSUME k <= Len(p) PROVE Len(Bytes(SubSeq(p, 1, k))) <= Len(Bytes(p))
  <2>1. k \in 0..Len(p)
    BY <1>1
  <2> QED BY <2>1, FrontIsShorter
<1> QED BY <1>1 DEF Arrived

LEMMA FirstArrived ==
  ASSUME NEW p \in Seq(Frames), p # << >>, NEW size \in Nat
  PROVE  Arrived(p, size, 1) <=> Len(Encode(Head(p))) <= size
<1>1. 1 <= Len(p) /\ Head(p) = p[1] /\ Head(p) \in Frames
  OBVIOUS
<1>a. SubSeq(p, 1, 1) = Append(<< >>, Head(p))
  <2> DEFINE x == SubSeq(p, 1, 1)
             y == Append(<< >>, Head(p))
  <2>1. x \in Seq(Frames) /\ Len(x) = 1 /\ x[1] = Head(p)
    OBVIOUS
  <2>2. y \in Seq(Frames) /\ Len(y) = 1 /\ y[1] = Head(p)
    OBVIOUS
  <2> HIDE DEF x, y
  <2>3. x = y
    BY <2>1, <2>2
  <2> QED BY <2>3 DEF x, y
<1>2. Bytes(SubSeq(p, 1, 1)) = << >> \o Encode(Head(p))
  <2>1. << >> \in Seq(Frames)
    OBVIOUS
  <2> QED BY <1>1, <1>a, <2>1, BytesOfAppend, BytesOfNone
<1>3. << >> \o Encode(Head(p)) = Encode(Head(p))
  <2>1. Encode(Head(p)) \in Seq(Byte)
    BY <1>1, Encoded
  <2> QED BY <2>1
<1> QED BY <1>1, <1>2, <1>3 DEF Arrived

LEMMA ArrivedTail ==
  ASSUME NEW p \in Seq(Frames), p # << >>, NEW k \in Nat,
         NEW size \in Nat, NEW less \in Nat, size = Len(Encode(Head(p))) + less
  PROVE  /\ Arrived(p, size, k + 1) <=> Arrived(Tail(p), less, k)
         /\ k \in 1..Len(Tail(p)) => Tail(p)[k] = p[k + 1]
         /\ Tail(p) \in Seq(Frames) /\ Len(Tail(p)) = Len(p) - 1
<1> DEFINE t == Tail(p)
           f == Head(p)
<1>1. /\ t \in Seq(Frames) /\ Len(t) = Len(p) - 1 /\ Len(p) \in Nat \ {0}
      /\ f \in Frames /\ \A i \in 1..Len(t) : t[i] = p[i + 1]
  OBVIOUS
<1>2. ASSUME k + 1 <= Len(p)
      PROVE  Len(Bytes(SubSeq(p, 1, k + 1))) <= size <=> Len(Bytes(SubSeq(t, 1, k))) <= less
  <2> DEFINE x == SubSeq(p, 1, k + 1)
             y == SubSeq(t, 1, k)
  <2>1. /\ x \in Seq(Frames) /\ x # << >> /\ Head(x) = f /\ Tail(x) = y
        /\ y \in Seq(Frames)
    <3>1. x \in Seq(Frames) /\ x # << >> /\ Head(x) = f
      BY <1>2
    <3>2. y \in Seq(Frames) /\ Len(y) = k /\ \A i \in 1..k : y[i] = t[i]
      <4>1. k \in 0..Len(t)
        BY <1>1, <1>2
      <4> QED BY <1>1, <4>1, FrontFrames
    <3>3. Tail(x) \in Seq(Frames) /\ Len(Tail(x)) = k /\ \A i \in 1..k : Tail(x)[i] = p[i + 1]
      <4>1. x \in Seq(Frames) /\ Len(x) = k + 1 /\ \A i \in 1..k + 1 : x[i] = p[i]
        BY <1>2
      <4> HIDE DEF x
      <4>2. x \in Seq(Frames) /\ x # << >>
        BY <4>1
      <4>3. /\ Tail(x) \in Seq(Frames) /\ Len(Tail(x)) = Len(x) - 1
            /\ \A i \in 1..Len(x) - 1 : Tail(x)[i] = x[i + 1]
        BY <4>2
      <4>4. \A i \in 1..k : i + 1 \in 1..k + 1 /\ i \in 1..Len(x) - 1
        BY <4>1
      <4>5. \A i \in 1..k : Tail(x)[i] = p[i + 1]
        BY <4>1, <4>3, <4>4
      <4> QED BY <4>1, <4>3, <4>5
    <3>4. \A i \in 1..k : y[i] = p[i + 1]
      BY <3>2, <1>1, <1>2
    <3> DEFINE z == Tail(x)
    <3> HIDE DEF x, y
    <3>5. z \in Seq(Frames) /\ Len(z) = k /\ \A i \in 1..k : z[i] = p[i + 1]
      BY <3>3
    <3> HIDE DEF z
    <3>6. z = y
      BY <3>2, <3>4, <3>5, SameSequence
    <3> QED BY <3>1, <3>2, <3>6 DEF z
  <2> HIDE DEF x, y, f, t
  <2>2. Bytes(x) = Encode(f) \o Bytes(y)
    BY <2>1, BytesOfFirst
  <2>3. Encode(f) \in Seq(Byte) /\ Bytes(y) \in Seq(Byte)
    BY <1>1, <2>1, Encoded, BytesAreBytes
  <2>4. Len(Bytes(x)) = Len(Encode(f)) + Len(Bytes(y))
        /\ Len(Encode(f)) \in Nat /\ Len(Bytes(y)) \in Nat
    BY <2>2, <2>3, LengthOfJoined
  <2>5. size = Len(Encode(f)) + less
    BY DEF f
  <2>6. Len(Bytes(x)) <= size <=> Len(Bytes(y)) <= less
    BY <2>4, <2>5
  <2> QED BY <2>6 DEF x, y
<1> HIDE DEF t
<1>3. k + 1 <= Len(p) <=> k <= Len(t)
  BY <1>1
<1>4. Arrived(p, size, k + 1) <=> Arrived(t, less, k)
  BY <1>2, <1>3 DEF Arrived
<1> QED BY <1>1, <1>4 DEF t

\* Ready is well defined: a first frame that is no message always exists.
LEMMA ReadyExists ==
  ASSUME NEW p \in Seq(Frames), NEW size
  PROVE  Ready(p, size) \in 0..Len(p) /\ AreReady(p, size, Ready(p, size))
<1> DEFINE T == {n \in 0..Len(p) : ~ IsMessage(p, size, n + 1)}
<1>0. Len(p) \in Nat
  OBVIOUS
<1>1. Len(p) \in T
  BY <1>0 DEF IsMessage, Arrived
<1>2. T \subseteq Nat /\ T # {}
  BY <1>0, <1>1
<1>3. PICK n \in T : \A m \in T : n <= m
  <2> HIDE DEF T
  <2> QED BY <1>2, LeastExists
<1>4. n \in 0..Len(p) /\ ~ IsMessage(p, size, n + 1)
  BY <1>3
<1>5. ASSUME NEW k \in 1..n PROVE IsMessage(p, size, k)
  <2> SUFFICES ASSUME ~ IsMessage(p, size, k) PROVE FALSE
    OBVIOUS
  <2>1. k - 1 \in 0..Len(p) /\ (k - 1) + 1 = k /\ k - 1 < n
    BY <1>4, <1>5, <1>0
  <2>2. k - 1 \in T
    BY <2>1
  <2>3. n <= k - 1
    BY <2>2, <1>3
  <2> QED BY <1>4, <1>5, <2>1, <2>3
<1>6. AreReady(p, size, n)
  BY <1>4, <1>5 DEF AreReady
<1> QED BY <1>4, <1>6 DEF Ready

LEMMA ReadyIs ==
  ASSUME NEW p \in Seq(Frames), NEW size, NEW n \in Nat, AreReady(p, size, n)
  PROVE  Ready(p, size) = n
<1> DEFINE m == Ready(p, size)
<1>1. m \in Nat /\ AreReady(p, size, m)
  <2>1. m \in 0..Len(p) /\ AreReady(p, size, m)
    BY ReadyExists
  <2> QED BY <2>1
<1> HIDE DEF m
<1>2. ASSUME m < n PROVE FALSE
  <2>1. m + 1 \in 1..n
    BY <1>1, <1>2
  <2> QED BY <1>1, <2>1 DEF AreReady
<1>3. ASSUME n < m PROVE FALSE
  <2>1. n + 1 \in 1..m
    BY <1>1, <1>3
  <2> QED BY <1>1, <2>1 DEF AreReady
<1>4. m = n
  BY <1>1, <1>2, <1>3
<1> QED BY <1>4 DEF m

-----------------------------------------------------------------------------
(* Refinement: every step of the decoder is a step of MessageStream.       *)

Payloads(p, n) == [i \in 1..n |-> p[i].data]

LEMMA PayloadsAre ==
  ASSUME NEW p \in Seq(Frames), NEW n \in 0..Len(p)
  PROVE  /\ Payloads(p, n) \in Seq(Seq(Byte)) /\ Len(Payloads(p, n)) = n
         /\ \A i \in 1..n : Payloads(p, n)[i] = p[i].data
<1>1. \A i \in 1..n : p[i].data \in Seq(Byte)
  <2>1. \A i \in 1..n : p[i] \in Frames
    OBVIOUS
  <2> QED BY <2>1, Encoded
<1>2. n \in Nat
  OBVIOUS
<1> QED BY <1>1, <1>2 DEF Payloads

\* The mapped queue and fate, spelled out.
LEMMA MappedQueue ==
  /\ Queue = IF Listening THEN Payloads(Pending, Ready(Pending, Size)) ELSE << >>
  /\ Queue' = IF Listening' THEN Payloads(Pending', Ready(Pending', Size')) ELSE << >>
  /\ Fate = IF Listening THEN FateOf(Pending, Size, Ready(Pending, Size)) ELSE "over"
BY DEF Queue, Payloads, Fate

\* FateOf for a connection that is given.
FateWith(c, p, size, n) ==
  IF Arrived(p, size, n + 1)
  THEN IF Meaning(p[n + 1]) = "clean" THEN "closed" ELSE "failed"
  ELSE CASE c = "open"   -> "live"
         [] c = "eof"    -> "cut"
         [] c = "broken" -> "failed"

LEMMA MappedFate ==
  /\ Fate = IF Listening THEN FateWith(net, Pending, Size, Ready(Pending, Size)) ELSE "over"
  /\ Fate' = IF Listening' THEN FateWith(net', Pending', Size', Ready(Pending', Size'))
             ELSE "over"
BY DEF Fate, FateOf, FateWith

LEMMA View ==
  ASSUME IInv
  PROVE  /\ Pending \in Seq(Frames) /\ Size \in Nat /\ Len(buf) \in Nat
         /\ Len(wire) \in Nat
         /\ Listening /\ net = "open" => Size = Len(Bytes(Pending))
<1>1. Pending \in Seq(Frames) /\ buf \in Seq(Byte) /\ wire \in Seq(Byte)
  BY PendingFrames DEF IInv, TypeOK
<1>2. Len(buf) \in Nat /\ Len(wire) \in Nat /\ Size \in Nat
  BY <1>1 DEF Size
<1>3. ASSUME Listening, net = "open" PROVE Size = Len(Bytes(Pending))
  <2>1. buf \o wire = Bytes(Pending)
    BY <1>3 DEF IInv, TypeOK, NothingMissing, Listening
  <2> QED BY <1>1, <2>1, LengthOfJoined DEF Size
<1> QED BY <1>1, <1>2, <1>3

\* A step that changes neither the frames to come, the bytes there are, the
\* connection nor whether the consumer listens is none of the stream's.
LEMMA Stutter ==
  ASSUME Pending' = Pending, Size' = Size, net' = net, Listening' = Listening,
         UNCHANGED <<items, end>>
  PROVE  UNCHANGED Stream!vars
<1>1. Queue' = Queue
  BY DEF Queue
<1>2. Fate' = Fate
  BY DEF Fate, FateOf
<1> QED BY <1>1, <1>2 DEF Stream!vars

LEMMA LeavingRefines ==
  ASSUME IInv, Listening, ~ Listening', UNCHANGED <<items, end>>
  PROVE  Stream!Next
<1>1. Queue' = << >> /\ Fate' = "over"
  BY DEF Queue, Fate
<1>2. Fate # "over"
  <2>1. net \in {"open", "eof", "broken"}
    BY DEF IInv, TypeOK
  <2> QED BY <2>1 DEF Fate, FateOf
<1> QED BY <1>1, <1>2 DEF Stream!Next, Stream!Leave

LEMMA InitRefines == Init => Stream!Init
<1> SUFFICES ASSUME Init PROVE Stream!Init
  OBVIOUS
<1>1. sent = << >> /\ wire = << >> /\ buf = << >> /\ items = << >>
      /\ gen = "requesting" /\ end = "none" /\ net = "open"
  BY DEF Init
<1>2. Pending = << >> /\ Listening
  BY <1>1 DEF Pending, Listening
<1>3. << >> \in Seq(Frames) /\ Len(<< >>) = 0
  OBVIOUS
<1>4. Ready(Pending, Size) = 0
  <2>1. Ready(Pending, Size) \in 0..Len(<< >>)
    BY <1>2, <1>3, ReadyExists
  <2> QED BY <1>3, <2>1
<1>5. ~ Arrived(Pending, Size, 0 + 1)
  BY <1>2, <1>3 DEF Arrived
<1>6. Fate = "live"
  BY <1>1, <1>2, <1>4, <1>5 DEF Fate, FateOf
<1>7. Queue = << >>
  <2>1. Queue = Payloads(<< >>, 0)
    BY <1>2, <1>4 DEF Queue, Payloads
  <2>2. Payloads(<< >>, 0) = << >>
    BY DEF Payloads
  <2> QED BY <2>1, <2>2
<1> QED BY <1>1, <1>6, <1>7 DEF Stream!Init

LEMMA SendingRefines ==
  ASSUME IInv, ServerSends PROVE [Stream!Next]_Stream!vars
<1>1. PICK f \in Frames : sent' = Append(sent, f) /\ wire' = wire \o Encode(f)
  BY DEF ServerSends
<1>2. net = "open" /\ UNCHANGED <<net, buf, gen, items, end>> /\ Listening' = Listening
  BY DEF ServerSends, Listening
<1>3. CASE ~ Listening
  BY <1>2, <1>3 DEF Stream!vars, Queue, Fate
<1>4. CASE Listening
  <2> DEFINE p == Pending
             q == Append(p, f)
             n == Ready(p, Size)
  <2>1. p \in Seq(Frames) /\ Size = Len(Bytes(p))
    BY <1>2, <1>4, View
  <2>2. Pending' = q
    <3>1. sent \in Seq(Frames) /\ Len(items) \in 0..Len(sent)
      BY PendingFrames DEF IInv, TypeOK
    <3>2. Pending' = From(sent', Len(items))
      BY <1>2 DEF Pending, From
    <3> QED BY <1>1, <3>1, <3>2, FromAppended, PendingIsFrom
  <2>3. Size' = Len(Bytes(q))
    <3>1. Bytes(q) = Bytes(p) \o Encode(f)
      BY <2>1, BytesOfAppend
    <3>2. Bytes(p) \in Seq(Byte) /\ Encode(f) \in Seq(Byte)
      BY <2>1, BytesAreBytes, Encoded
    <3>3. buf \in Seq(Byte) /\ wire \in Seq(Byte)
      BY DEF IInv, TypeOK
    <3>4. Len(wire') = Len(wire) + Len(Encode(f)) /\ Len(Bytes(q)) = Len(Bytes(p)) + Len(Encode(f))
          /\ Len(wire) \in Nat /\ Len(Encode(f)) \in Nat /\ Len(Bytes(p)) \in Nat
      BY <1>1, <3>1, <3>2, <3>3, LengthOfJoined
    <3>5. Len(buf) \in Nat
      BY <3>3
    <3> QED BY <1>2, <2>1, <3>4, <3>5 DEF Size
  <2>4. /\ q \in Seq(Frames) /\ Len(q) = Len(p) + 1 /\ q[Len(p) + 1] = f /\ Len(p) \in Nat
        /\ \A i \in 1..Len(p) : q[i] = p[i]
    BY <2>1
  <2> HIDE DEF p, q
  <2>5. ASSUME NEW k \in Nat
        PROVE  /\ Arrived(p, Size, k) <=> k <= Len(p)
               /\ Arrived(q, Size', k) <=> k <= Len(q)
    BY <2>1, <2>3, <2>4, AllArrived
  <2>6. n \in 0..Len(p) /\ AreReady(p, Size, n)
    BY <2>1, ReadyExists
  <2> HIDE DEF n
  <2>7. ASSUME NEW k \in 1..n PROVE IsMessage(q, Size', k)
    <3>1. k \in 1..Len(p) /\ IsMessage(p, Size, k) /\ k \in Nat
      BY <2>4, <2>6 DEF AreReady
    <3>2. k <= Len(q) /\ q[k] = p[k]
      BY <3>1, <2>4
    <3> QED BY <3>1, <3>2, <2>5 DEF IsMessage
  <2>8. /\ Queue = Payloads(p, n) /\ Fate = FateOf(p, Size, n)
    BY <1>4, MappedQueue DEF p, n
  <2>9. CASE n < Len(p)
    <3>1. n + 1 \in 1..Len(p) /\ n + 1 \in Nat /\ n \in Nat /\ n + 1 <= Len(p) /\ n + 1 <= Len(q)
      BY <2>4, <2>6, <2>9
    <3>2. q[n + 1] = p[n + 1] /\ Arrived(p, Size, n + 1) /\ Arrived(q, Size', n + 1)
      BY <3>1, <2>4, <2>5
    <3>3. ~ IsMessage(q, Size', n + 1)
      BY <3>2, <2>6 DEF AreReady, IsMessage
    <3>4. Ready(q, Size') = n
      <4>1. AreReady(q, Size', n)
        BY <2>7, <3>3 DEF AreReady
      <4> QED BY <3>1, <4>1, <2>4, ReadyIs
    <3>5. Fate' = Fate
      BY <1>2, <1>4, <2>2, <2>8, <3>2, <3>4 DEF Fate, FateOf
    <3>6. Queue' = Queue
      <4>1. Queue' = Payloads(q, n)
        BY <1>2, <1>4, <2>2, <3>4, MappedQueue
      <4>2. ASSUME NEW i \in 1..n PROVE q[i] = p[i]
        BY <2>4, <2>6
      <4> QED BY <4>1, <4>2, <2>8 DEF Payloads
    <3> QED BY <1>2, <3>5, <3>6 DEF Stream!vars
  <2>10. CASE n = Len(p)
    <3>1. n \in Nat /\ n + 1 \in Nat /\ ~ (n + 1 <= Len(p)) /\ n + 1 <= Len(q)
          /\ q[n + 1] = f /\ n + 2 \in Nat /\ ~ (n + 2 <= Len(q)) /\ n + 1 \in 0..Len(q)
          /\ n \in 0..Len(q)
      BY <2>4, <2>10
    <3>2. Fate = "live"
      BY <1>2, <2>5, <2>8, <3>1 DEF FateOf
    <3>3. Arrived(q, Size', n + 1) /\ ~ Arrived(q, Size', n + 2)
      BY <2>5, <3>1
    <3>4. CASE Meaning(f) = "message"
      <4>1. AreReady(q, Size', n + 1)
        <5>1. IsMessage(q, Size', n + 1)
          BY <3>1, <3>3, <3>4 DEF IsMessage
        <5>2. ~ IsMessage(q, Size', (n + 1) + 1)
          <6>1. (n + 1) + 1 = n + 2
            BY <3>1
          <6> QED BY <3>3, <6>1 DEF IsMessage
        <5>3. \A k \in 1..n + 1 : k \in 1..n \/ k = n + 1
          BY <3>1
        <5> QED BY <2>7, <5>1, <5>2, <5>3 DEF AreReady
      <4>2. Ready(q, Size') = n + 1
        BY <3>1, <4>1, <2>4, ReadyIs
      <4>3. Fate' = "live"
        <5>1. (n + 1) + 1 = n + 2
          BY <3>1
        <5> QED BY <1>2, <1>4, <2>2, <3>3, <4>2, <5>1 DEF Fate, FateOf
      <4>4. f.data \in Messages
        BY <3>4 DEF Meaning
      <4>5. Queue' = Append(Queue, f.data)
        <5> DEFINE x == Payloads(q, n + 1)
                   y == Payloads(p, n)
                   d == f.data
        <5>1. Queue' = x /\ Queue = y
          BY <1>2, <1>4, <2>2, <2>8, <4>2, MappedQueue
        <5>2. /\ x \in Seq(Seq(Byte)) /\ Len(x) = n + 1
              /\ \A i \in 1..n + 1 : x[i] = q[i].data
          BY <2>4, <3>1, PayloadsAre
        <5>3. /\ y \in Seq(Seq(Byte)) /\ Len(y) = n
              /\ \A i \in 1..n : y[i] = p[i].data
          BY <2>1, <2>6, PayloadsAre
        <5>4. d \in Seq(Byte)
          BY Encoded
        <5> HIDE DEF x, y, d
        <5>5. /\ Append(y, d) \in Seq(Seq(Byte)) /\ Len(Append(y, d)) = Len(y) + 1
              /\ Append(y, d)[Len(y) + 1] = d
              /\ \A i \in 1..Len(y) : Append(y, d)[i] = y[i]
          <6>1. y \in Seq(Seq(Byte))
            BY <5>3
          <6> QED BY <6>1, <5>4
        <5>6. ASSUME NEW i \in 1..n + 1 PROVE x[i] = Append(y, d)[i]
          <6>1. CASE i = n + 1
            BY <6>1, <3>1, <5>2, <5>3, <5>5 DEF d
          <6>2. CASE i # n + 1
            <7>1. i \in 1..n /\ i \in 1..Len(p)
              BY <6>2, <3>1, <2>10
            <7> QED BY <7>1, <5>2, <5>3, <5>5, <2>4
          <6> QED BY <6>1, <6>2
        <5> DEFINE z == Append(y, d)
        <5>7. z \in Seq(Seq(Byte)) /\ Len(z) = Len(x) /\ \A i \in 1..Len(x) : x[i] = z[i]
          BY <5>2, <5>3, <5>5, <5>6
        <5> HIDE DEF z
        <5>8. x = z
          BY <5>2, <5>7, SameSequence, Zenon
        <5> QED BY <5>1, <5>8 DEF z, d
      <4> QED BY <1>2, <3>2, <4>3, <4>4, <4>5 DEF Stream!Next, Stream!Send
    <3>5. CASE Meaning(f) # "message"
      <4>1. AreReady(q, Size', n)
        BY <2>7, <3>1, <3>5 DEF AreReady, IsMessage
      <4>2. Ready(q, Size') = n
        BY <3>1, <4>1, <2>4, ReadyIs
      <4>3. Fate' \in {"closed", "failed"}
        BY <1>2, <1>4, <2>2, <3>3, <4>2 DEF Fate, FateOf
      <4>4. Queue' = Queue
        <5>1. Queue' = Payloads(q, n)
          BY <1>2, <1>4, <2>2, <4>2, MappedQueue
        <5>2. ASSUME NEW i \in 1..n PROVE q[i] = p[i]
          BY <2>4, <2>6
        <5> QED BY <5>1, <5>2, <2>8 DEF Payloads
      <4> QED BY <1>2, <3>2, <4>3, <4>4 DEF Stream!Next, Stream!Close
    <3> QED BY <3>4, <3>5
  <2> QED BY <2>4, <2>6, <2>9, <2>10
<1> QED BY <1>3, <1>4

LEMMA ClosingRefines ==
  ASSUME IInv, ServerCloses PROVE [Stream!Next]_Stream!vars
<1>1. net = "open" /\ net' = "eof" /\ UNCHANGED <<sent, wire, buf, gen, items, end>>
  BY DEF ServerCloses
<1>2. Listening' = Listening /\ Pending' = Pending /\ Size' = Size
  BY <1>1 DEF Listening, Pending, Size
<1>3. CASE ~ Listening
  BY <1>1, <1>2, <1>3 DEF Stream!vars, Queue, Fate
<1>4. CASE Listening
  <2> DEFINE n == Ready(Pending, Size)
  <2>1. Queue' = Queue
    BY <1>2 DEF Queue
  <2>2. Fate = FateOf(Pending, Size, n) /\ Fate' = FateOf(Pending, Size, n)'
    BY <1>2, <1>4 DEF Fate
  <2>3. CASE Arrived(Pending, Size, n + 1)
    <3>1. Fate' = Fate
      BY <1>2, <2>2, <2>3 DEF FateOf
    <3> QED BY <1>1, <2>1, <3>1 DEF Stream!vars
  <2>4. CASE ~ Arrived(Pending, Size, n + 1)
    <3>1. Fate = "live" /\ Fate' = "cut"
      BY <1>1, <1>2, <2>2, <2>4 DEF FateOf
    <3>2. Queue = SubSeq(Queue, 1, Len(Queue)) /\ Len(Queue) \in 0..Len(Queue)
      <4>1. Queue \in Seq(Seq(Byte))
        <5>1. Pending \in Seq(Frames)
          BY PendingFrames
        <5> QED BY <1>4, <5>1, ReadyExists, PayloadsAre, MappedQueue
      <4> HIDE DEF Queue
      <4> QED BY <4>1
    <3> QED BY <1>1, <2>1, <3>1, <3>2 DEF Stream!Next, Stream!Lose
  <2> QED BY <2>3, <2>4
<1> QED BY <1>3, <1>4

\* With fewer bytes, fewer frames have arrived.
LEMMA ArrivedInMore ==
  ASSUME NEW p \in Seq(Frames), NEW size \in Nat, NEW less \in Nat, less <= size,
         NEW k \in Nat, Arrived(p, less, k)
  PROVE  Arrived(p, size, k)
<1>1. k \in 0..Len(p) /\ Len(Bytes(SubSeq(p, 1, k))) <= less
  BY DEF Arrived
<1>2. Len(Bytes(SubSeq(p, 1, k))) \in Nat
  BY <1>1, FrontIsShorter
<1> QED BY <1>1, <1>2 DEF Arrived

LEMMA BreakingRefines ==
  ASSUME IInv, Break PROVE [Stream!Next]_Stream!vars
<1>1. PICK c \in 0..Len(wire) : wire' = SubSeq(wire, 1, c)
  BY DEF Break
<1>2. /\ net = "open" /\ net' \in {"eof", "broken"}
      /\ UNCHANGED <<sent, buf, gen, items, end>>
      /\ Listening' = Listening /\ Pending' = Pending
  BY DEF Break, Listening, Pending
<1>3. CASE ~ Listening
  BY <1>2, <1>3 DEF Stream!vars, Queue, Fate
<1>4. CASE Listening
  <2> DEFINE p == Pending
             n == Ready(p, Size)
             m == Ready(p, Size')
  <2>1. p \in Seq(Frames) /\ Size \in Nat /\ Size' \in Nat /\ Size' <= Size
    <3>1. Len(wire') = c /\ Len(wire) \in Nat /\ c <= Len(wire) /\ c \in Nat
      <4>1. wire \in Seq(Byte)
        BY DEF IInv, TypeOK
      <4> QED BY <1>1, <4>1
    <3> QED BY <1>2, <3>1, View DEF Size
  <2> HIDE DEF p
  <2>2. /\ n \in 0..Len(p) /\ AreReady(p, Size, n)
        /\ m \in 0..Len(p) /\ AreReady(p, Size', m)
    BY <2>1, ReadyExists
  <2> HIDE DEF n, m
  <2>3. Len(p) \in Nat /\ n \in Nat /\ m \in Nat
    BY <2>1, <2>2
  <2>4. m <= n
    <3> SUFFICES ASSUME n < m PROVE FALSE
      BY <2>3
    <3>1. n + 1 \in 1..m /\ n + 1 \in Nat
      BY <2>3
    <3>2. IsMessage(p, Size', n + 1)
      BY <2>2, <3>1 DEF AreReady
    <3>3. IsMessage(p, Size, n + 1)
      BY <2>1, <3>1, <3>2, ArrivedInMore DEF IsMessage
    <3> QED BY <2>2, <3>3 DEF AreReady
  <2>5. Queue = Payloads(p, n) /\ Queue' = Payloads(p, m)
    BY <1>2, <1>4, MappedQueue DEF p, n, m
  <2>6. Fate = FateWith(net, p, Size, n) /\ Fate' = FateWith(net', p, Size', m)
    BY <1>2, <1>4, MappedFate DEF p, n, m
  <2>7. FateWith(net', p, Size', m) = IF Arrived(p, Size', m + 1)
                              THEN IF Meaning(p[m + 1]) = "clean" THEN "closed" ELSE "failed"
                              ELSE IF net' = "eof" THEN "cut" ELSE "failed"
    BY <1>2 DEF FateWith
  <2>8. CASE Arrived(p, Size', m + 1)
    <3>1. m + 1 \in Nat
      BY <2>3
    <3>2. Arrived(p, Size, m + 1)
      BY <2>1, <2>8, <3>1, ArrivedInMore
    <3>3. ~ IsMessage(p, Size, m + 1)
      BY <2>2, <2>8 DEF AreReady, IsMessage
    <3>4. m = n
      <4> SUFFICES ASSUME m < n PROVE FALSE
        BY <2>3, <2>4
      <4>1. m + 1 \in 1..n
        BY <2>3
      <4> QED BY <2>2, <3>3, <4>1 DEF AreReady
    <3>5. Fate' = Fate
      BY <2>6, <2>7, <2>8, <3>2, <3>4 DEF FateWith
    <3> QED BY <1>2, <2>5, <3>4, <3>5 DEF Stream!vars
  <2>9. CASE ~ Arrived(p, Size', m + 1)
    <3>1. Fate' \in {"cut", "failed"}
      BY <1>2, <2>6, <2>7, <2>9
    <3>2. Fate # "over"
      BY <1>2, <2>6 DEF FateWith
    <3>3. Queue' = SubSeq(Queue, 1, m) /\ m \in 0..Len(Queue)
      <4> DEFINE x == Payloads(p, n)
                 y == Payloads(p, m)
                 z == SubSeq(x, 1, m)
      <4>1. x \in Seq(Seq(Byte)) /\ Len(x) = n /\ \A i \in 1..n : x[i] = p[i].data
        BY <2>1, <2>2, PayloadsAre
      <4>2. y \in Seq(Seq(Byte)) /\ Len(y) = m /\ \A i \in 1..m : y[i] = p[i].data
        BY <2>1, <2>2, PayloadsAre
      <4> HIDE DEF x, y
      <4>3. m \in 0..Len(x)
        BY <2>3, <2>4, <4>1
      <4>4. z \in Seq(Seq(Byte)) /\ Len(z) = m /\ \A i \in 1..m : z[i] = x[i]
        <5>1. x \in Seq(Seq(Byte))
          BY <4>1
        <5> QED BY <5>1, <4>3
      <4> HIDE DEF z
      <4>5. ASSUME NEW i \in 1..m PROVE y[i] = z[i]
        <5>1. i \in 1..n
          BY <2>3, <2>4
        <5> QED BY <5>1, <4>1, <4>2, <4>4
      <4>6. y = z
        BY <4>2, <4>4, <4>5, SameSequence
      <4> QED BY <2>5, <4>3, <4>6 DEF z, x, y
    <3> QED BY <1>2, <3>1, <3>2, <3>3 DEF Stream!Next, Stream!Lose
  <2> QED BY <2>8, <2>9
<1> QED BY <1>3, <1>4

LEMMA ChunkRefines ==
  ASSUME IInv, ReceiveChunk PROVE [Stream!Next]_Stream!vars
<1>1. PICK n \in 1..Len(wire) : /\ buf' = buf \o SubSeq(wire, 1, n)
                                /\ wire' = SubSeq(wire, n + 1, Len(wire))
  BY DEF ReceiveChunk
<1>2. UNCHANGED <<sent, net, items, end>> /\ Listening' = Listening /\ Pending' = Pending
  BY DEF ReceiveChunk, Listening, Pending
<1>3. buf \in Seq(Byte) /\ wire \in Seq(Byte)
  BY DEF IInv, TypeOK
<1>4. Size' = Size
  BY <1>1, <1>3, CutAndJoined DEF Size
<1> QED BY <1>2, <1>4, Stutter

\* A body that is over holds no whole frame (NothingStranded), so that what the
\* consumer is told is what the connection met.
LEMMA EndRefines ==
  ASSUME IInv, BodyEnds \/ BodyFails PROVE [Stream!Next]_Stream!vars
<1>1. /\ gen = "reading" /\ wire = << >> /\ gen' = "done"
      /\ \/ net = "eof" /\ end' = "clean"
         \/ net = "broken" /\ end' = "error"
      /\ UNCHANGED <<sent, wire, net, buf, items>>
  BY DEF BodyEnds, BodyFails, Ends
<1>2. Listening /\ ~ Listening'
  BY <1>1 DEF Listening
<1> DEFINE p == Pending
<1>3. p \in Seq(Frames) /\ Size \in Nat /\ Size = Len(buf) /\ Len(buf) \in Nat
  BY <1>1, View DEF Size
<1>4. ~ Arrived(p, Size, 1)
  <2>1. CASE p = << >>
    BY <2>1 DEF Arrived
  <2>2. CASE p # << >>
    <3>1. Len(buf) < Len(Encode(Head(p)))
      BY <1>1, <2>2 DEF IInv, NothingStranded
    <3>2. Len(Encode(Head(p))) \in Nat
      <4>1. Head(p) \in Frames
        BY <1>3, <2>2
      <4>2. Encode(Head(p)) \in Seq(Byte)
        BY <4>1, Encoded
      <4> QED BY <4>2
    <3> QED BY <1>3, <2>2, <3>1, <3>2, FirstArrived
  <2> QED BY <2>1, <2>2
<1>5. Ready(p, Size) = 0
  <2>1. AreReady(p, Size, 0)
    BY <1>4 DEF AreReady, IsMessage
  <2> QED BY <1>3, <2>1, ReadyIs
<1>6. Queue = << >> /\ Queue' = << >>
  BY <1>2, <1>5 DEF Queue
<1>7. Fate = (IF net = "eof" THEN "cut" ELSE "failed") /\ Fate' = "over"
  BY <1>1, <1>2, <1>4, <1>5 DEF Fate, FateOf
<1> QED BY <1>1, <1>6, <1>7 DEF Stream!Next, Stream!Finish

LEMMA DecodingRefines ==
  ASSUME IInv, DecodeFrame PROVE [Stream!Next]_Stream!vars
<1> DEFINE p == Pending
           t == Tail(p)
           f == FirstFrame(buf)
           n == Ready(p, Size)
<1>1. gen = "decoding" /\ UNCHANGED <<sent, wire, net>> /\ Listening
  BY DEF DecodeFrame, Listening
<1>2. /\ p # << >> /\ f = Head(p) /\ Head(p) \in Frames
      /\ buf' \in Seq(Byte) /\ Len(buf) = Len(Encode(Head(p))) + Len(buf')
      /\ t = From(sent, Len(items) + 1)
  BY DecodingTakesFirst
<1>3. p \in Seq(Frames) /\ Size \in Nat /\ Len(wire) \in Nat /\ Len(buf) \in Nat
  BY View
<1>4. /\ Size = Len(Encode(Head(p))) + (Len(buf') + Len(wire))
      /\ Len(buf') + Len(wire) \in Nat /\ Len(Encode(Head(p))) \in Nat
  <2>1. Len(buf') \in Nat
    BY <1>2
  <2>2. Len(Encode(Head(p))) \in Nat
    <3>1. Encode(Head(p)) \in Seq(Byte)
      BY <1>2, Encoded
    <3> QED BY <3>1
  <2> QED BY <1>2, <1>3, <2>1, <2>2 DEF Size
<1>5. Arrived(p, Size, 1)
  BY <1>2, <1>3, <1>4, FirstArrived
<1>6. n \in 0..Len(p) /\ AreReady(p, Size, n) /\ n \in Nat /\ p[1] = f
  <2>1. n \in 0..Len(p) /\ AreReady(p, Size, n)
    BY <1>3, ReadyExists
  <2>2. Head(p) = p[1]
    BY <1>2, <1>3
  <2> HIDE DEF p, n, f
  <2> QED BY <1>2, <2>1, <2>2
<1>7. Queue = Payloads(p, n) /\ Fate = FateWith(net, p, Size, n)
  BY <1>1, MappedQueue, MappedFate
<1> HIDE DEF n, f, p
<1>8. CASE Meaning(f) = "message"
  <2>1. items' = Append(items, f.data) /\ UNCHANGED <<gen, end>>
    BY <1>8 DEF DecodeFrame, f
  <2>2. Pending' = t /\ Listening'
    <3>1. items \in Seq(Messages)
      BY DEF IInv, TypeOK
    <3>2. Len(items') = Len(items) + 1
      BY <2>1, <3>1
    <3> QED BY <1>1, <1>2, <2>1, <3>2 DEF Pending, From, Listening
  <2> DEFINE less == Len(buf') + Len(wire)
  <2>3. Size' = less
    BY <1>1 DEF Size
  <2> HIDE DEF less
  <2>4. ASSUME NEW k \in Nat
        PROVE  /\ Arrived(p, Size, k + 1) <=> Arrived(t, less, k)
               /\ k \in 1..Len(t) => t[k] = p[k + 1]
               /\ t \in Seq(Frames) /\ Len(t) = Len(p) - 1
    BY <1>2, <1>3, <1>4, ArrivedTail DEF less
  <2>5. IsMessage(p, Size, 1)
    BY <1>5, <1>6, <1>8 DEF IsMessage
  <2>6. n >= 1 /\ n <= Len(p) /\ Len(p) \in Nat
    <3>1. Len(p) \in Nat /\ n <= Len(p)
      BY <1>3, <1>6
    <3>2. CASE n = 0
      BY <1>6, <2>5, <3>2 DEF AreReady
    <3> QED BY <3>1, <3>2, <1>6
  <2>7. ASSUME NEW k \in Nat \ {0} PROVE IsMessage(t, less, k) <=> IsMessage(p, Size, k + 1)
    <3>1. Arrived(t, less, k) => k \in 1..Len(t)
      BY <2>4, <2>6 DEF Arrived
    <3> QED BY <2>4, <3>1 DEF IsMessage
  <2>8. AreReady(t, less, n - 1)
    <3>1. ASSUME NEW k \in 1..n - 1 PROVE IsMessage(t, less, k)
      <4>1. k \in Nat \ {0} /\ k + 1 \in 1..n
        BY <1>6, <2>6
      <4> QED BY <1>6, <2>7, <4>1 DEF AreReady
    <3>2. ~ IsMessage(t, less, (n - 1) + 1)
      <4>1. (n - 1) + 1 = n /\ n \in Nat \ {0}
        BY <1>6, <2>6
      <4> QED BY <1>6, <2>7, <4>1 DEF AreReady
    <3> QED BY <3>1, <3>2 DEF AreReady
  <2>9. Ready(t, less) = n - 1
    <3>1. n - 1 \in Nat /\ t \in Seq(Frames)
      BY <1>6, <2>4, <2>6
    <3> HIDE DEF t
    <3> QED BY <2>8, <3>1, ReadyIs
  <2>10. Fate' = Fate
    <3>1. (n - 1) + 1 = n /\ n \in Nat
      BY <1>6, <2>6
    <3>2. Arrived(t, less, n) <=> Arrived(p, Size, n + 1)
      BY <1>6, <2>4
    <3>3. Arrived(t, less, n) => t[n] = p[n + 1]
      <4>1. Arrived(t, less, n) => n \in 1..Len(t)
        BY <2>4, <2>6, <1>6 DEF Arrived
      <4> QED BY <4>1, <2>4, <1>6
    <3>4. Fate' = FateWith(net, t, less, n - 1)
      BY <1>1, <2>2, <2>3, <2>9, MappedFate
    <3> HIDE DEF t
    <3>5. CASE Arrived(t, less, n)
      <4>1. Fate' = (IF Meaning(t[n]) = "clean" THEN "closed" ELSE "failed")
        BY <3>1, <3>4, <3>5 DEF FateWith
      <4>2. Fate = (IF Meaning(p[n + 1]) = "clean" THEN "closed" ELSE "failed")
        BY <1>7, <3>2, <3>5 DEF FateWith
      <4> QED BY <4>1, <4>2, <3>3, <3>5
    <3>6. CASE ~ Arrived(t, less, n)
      <4>1. ~ Arrived(t, less, (n - 1) + 1)
        BY <3>1, <3>6
      <4>2. net \in {"open", "eof", "broken"}
        BY DEF IInv, TypeOK
      <4>3. Fate' = CASE net = "open" -> "live" [] net = "eof" -> "cut"
                      [] net = "broken" -> "failed"
        BY <4>1, <3>4 DEF FateWith
      <4>4. Fate = CASE net = "open" -> "live" [] net = "eof" -> "cut"
                     [] net = "broken" -> "failed"
        BY <1>7, <3>2, <3>6 DEF FateWith
      <4> QED BY <4>2, <4>3, <4>4
    <3> QED BY <3>5, <3>6
  <2>11. Queue # << >> /\ Head(Queue) = f.data /\ Queue' = Tail(Queue)
    <3> DEFINE x == Payloads(p, n)
               y == Payloads(t, n - 1)
               z == Tail(x)
    <3>1. Queue = x /\ Queue' = y
      BY <1>7, <2>2, <2>3, <2>9, MappedQueue
    <3>2. x \in Seq(Seq(Byte)) /\ Len(x) = n /\ \A i \in 1..n : x[i] = p[i].data
      BY <1>3, <1>6, PayloadsAre
    <3>3. y \in Seq(Seq(Byte)) /\ Len(y) = n - 1 /\ \A i \in 1..n - 1 : y[i] = t[i].data
      <4>1. n - 1 \in 0..Len(t) /\ t \in Seq(Frames)
        BY <1>6, <2>4, <2>6
      <4> HIDE DEF t
      <4> QED BY <4>1, PayloadsAre
    <3> HIDE DEF x, y
    <3>4. x # << >> /\ Head(x) = x[1]
      BY <3>2, <2>6
    <3>5. z \in Seq(Seq(Byte)) /\ Len(z) = Len(x) - 1 /\ \A i \in 1..Len(x) - 1 : z[i] = x[i + 1]
      <4>1. x \in Seq(Seq(Byte)) /\ x # << >>
        BY <3>2, <3>4
      <4> QED BY <4>1
    <3> HIDE DEF z
    <3>6. ASSUME NEW i \in 1..n - 1 PROVE y[i] = z[i]
      <4>1. i \in Nat /\ i \in 1..Len(t) /\ i + 1 \in 1..n /\ i \in 1..Len(x) - 1
        BY <1>6, <2>4, <2>6, <3>2
      <4>2. t[i] = p[i + 1]
        BY <2>4, <4>1
      <4> QED BY <3>2, <3>3, <3>5, <4>1, <4>2
    <3>7. y = z
      <4>1. Len(y) = Len(z)
        BY <3>2, <3>3, <3>5
      <4> QED BY <3>3, <3>5, <3>6, <4>1, SameSequence, Zenon
    <3>8. Head(x) = f.data
      <4>1. 1 \in 1..n
        BY <1>6, <2>6
      <4> QED BY <3>2, <3>4, <4>1, <1>6
    <3> QED BY <3>1, <3>4, <3>7, <3>8 DEF z
  <2> QED BY <2>1, <2>10, <2>11 DEF Stream!Next, Stream!Yield
<1>9. CASE Meaning(f) # "message"
  <2>1. gen' = "done" /\ end' = Meaning(f) /\ items' = items
    BY <1>9 DEF DecodeFrame, Ends, f
  <2>2. n = 0
    <3>1. AreReady(p, Size, 0)
      BY <1>6, <1>9 DEF AreReady, IsMessage
    <3> QED BY <1>3, <3>1, ReadyIs DEF n
  <2>3. Queue = << >> /\ Queue' = << >> /\ Fate' = "over"
    BY <1>7, <2>1, <2>2 DEF Queue, Fate, Listening, Payloads
  <2>4. Fate = (IF Meaning(f) = "clean" THEN "closed" ELSE "failed")
    BY <1>5, <1>6, <1>7, <2>2 DEF FateWith
  <2>5. Meaning(f) \in {"clean", "error"}
    BY <1>9 DEF Meaning
  <2> QED BY <2>1, <2>3, <2>4, <2>5 DEF Stream!Next, Stream!Finish
<1> QED BY <1>8, <1>9

LEMMA StepRefines == IInv /\ [Next]_vars => [Stream!Next]_Stream!vars
<1> SUFFICES ASSUME IInv, [Next]_vars PROVE [Stream!Next]_Stream!vars
  OBVIOUS
<1>1. CASE ServerSends
  BY <1>1, SendingRefines
<1>2. CASE ServerCloses
  BY <1>2, ClosingRefines
<1>3. CASE Break
  BY <1>3, BreakingRefines
<1>4. CASE Answered \/ NeedMore
  <2>1. UNCHANGED <<sent, wire, net, buf, items, end>> /\ Listening' = Listening
    BY <1>4 DEF Answered, NeedMore, Listening
  <2>2. Pending' = Pending /\ Size' = Size
    BY <2>1 DEF Pending, Size
  <2> QED BY <2>1, <2>2, Stutter
<1>5. CASE Refused \/ Drop
  <2>1. Listening /\ ~ Listening' /\ UNCHANGED <<items, end>>
    BY <1>5 DEF Refused, Drop, Listening
  <2> QED BY <2>1, LeavingRefines
<1>6. CASE ReceiveChunk
  BY <1>6, ChunkRefines
<1>7. CASE BodyEnds \/ BodyFails
  BY <1>7, EndRefines
<1>8. CASE DecodeFrame
  BY <1>8, DecodingRefines
<1>9. CASE UNCHANGED vars
  <2>1. UNCHANGED <<sent, wire, net, buf, gen, items, end>>
    BY <1>9 DEF vars
  <2>2. Pending' = Pending /\ Size' = Size /\ Listening' = Listening
    BY <2>1 DEF Pending, Size, Listening
  <2> QED BY <2>1, <2>2, Stutter
<1> QED
  BY <1>1, <1>2, <1>3, <1>4, <1>5, <1>6, <1>7, <1>8, <1>9
  DEF Next, Server, Poll

\* Envelopes cut into chunks anywhere, and bodies that stop anywhere, keep the
\* promise of a message stream: whole messages, in order, each once, and an end
\* that says what the server or the connection said.
THEOREM Refinement == Spec => ImplementsMessageStream
<1> QED BY InitRefines, StepRefines, Invariance, PTL
        DEF Spec, ImplementsMessageStream, Stream!Spec
===============================================================================
