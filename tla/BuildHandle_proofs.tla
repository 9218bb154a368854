-------------------------- MODULE BuildHandle_proofs --------------------------
(***************************************************************************)
(* Proofs about BuildHandle, for every capacity of the channel, every size *)
(* of a batch and every bound on the log.                                  *)
(***************************************************************************)
EXTENDS BuildHandle, TLAPS

(* Sequences.                                                              *)

LEMMA Parts ==
  ASSUME NEW s \in Seq(Nat), s # << >>
  PROVE  /\ Head(s) \in Nat /\ Tail(s) \in Seq(Nat)
         /\ Len(s) \in Nat /\ Len(s) >= 1 /\ Len(Tail(s)) = Len(s) - 1
OBVIOUS

LEMMA Empty == << >> \in Seq(Nat) /\ Len(<< >>) = 0
OBVIOUS

LEMMA Sizes == Capacity \in Nat /\ Capacity >= 1 /\ Batch \in Nat /\ Batch >= 1
BY BuildAssumption DEF BuildAssumption

LEMMA Longer ==
  ASSUME NEW s \in Seq(Nat), NEW n \in Nat
  PROVE  Append(s, n) \in Seq(Nat) /\ Len(Append(s, n)) = Len(s) + 1
OBVIOUS

LEMMA Associates ==
  ASSUME NEW a \in Seq(Nat), NEW b \in Seq(Nat), NEW c \in Seq(Nat)
  PROVE  a \o b \o c = a \o (b \o c) /\ b \o c \in Seq(Nat)
OBVIOUS

\* Taking the head from one place to the end of the place before it.
LEMMA MovedFirst ==
  ASSUME NEW a \in Seq(Nat), NEW b \in Seq(Nat), NEW c \in Seq(Nat), b # << >>
  PROVE  Append(a, Head(b)) \o Tail(b) \o c = a \o b \o c
OBVIOUS

LEMMA AppendLast ==
  ASSUME NEW a \in Seq(Nat), NEW b \in Seq(Nat), NEW n \in Nat
  PROVE  a \o Append(b, n) = Append(a \o b, n)
OBVIOUS

LEMMA MovedLast ==
  ASSUME NEW a \in Seq(Nat), NEW b \in Seq(Nat), NEW c \in Seq(Nat), c # << >>
  PROVE  a \o Append(b, Head(c)) \o Tail(c) = a \o b \o c
<1>1. a \o Append(b, Head(c)) = Append(a \o b, Head(c))
  BY Parts, AppendLast
<1>2. a \o b \in Seq(Nat) /\ << >> \in Seq(Nat)
  OBVIOUS
<1>3. Append(a \o b, Head(c)) \o Tail(c) \o << >> = (a \o b) \o c \o << >>
  BY <1>2, MovedFirst
<1>4. ASSUME NEW s \in Seq(Nat) PROVE s \o << >> = s
  OBVIOUS
<1>5. /\ Append(a \o b, Head(c)) \o Tail(c) \in Seq(Nat)
      /\ (a \o b) \o c \in Seq(Nat)
  BY <1>2, Parts
<1> QED BY <1>1, <1>3, <1>4, <1>5

LEMMA FrontCounts ==
  ASSUME NEW a \in Seq(Nat), NEW b \in Seq(Nat), Counting(a \o b)
  PROVE  Counting(a)
<1>1. Len(a \o b) = Len(a) + Len(b) /\ Len(a) \in Nat /\ Len(b) \in Nat
  OBVIOUS
<1>2. \A i \in 1..Len(a) : (a \o b)[i] = a[i]
  OBVIOUS
<1> QED BY <1>1, <1>2 DEF Counting

\* The batch that follows what was fetched.
LEMMA BatchCounts ==
  ASSUME NEW s \in Seq(Nat), Counting(s), NEW n \in Nat
  PROVE  LET p == [i \in 1..n |-> Len(s) + i]
         IN  p \in Seq(Nat) /\ Counting(s \o p) /\ Len(s \o p) = Len(s) + n
<1> DEFINE p == [i \in 1..n |-> Len(s) + i]
<1>1. p \in Seq(Nat) /\ Len(p) = n
  OBVIOUS
<1>2. Len(s \o p) = Len(s) + n
  BY <1>1
<1>3. \A i \in 1..Len(s \o p) : (s \o p)[i] = i
  BY <1>1, <1>2 DEF Counting
<1> QED BY <1>1, <1>2, <1>3 DEF Counting

-----------------------------------------------------------------------------
LEMMA InitHolds == Init => IInv
<1> SUFFICES ASSUME Init PROVE IInv
  OBVIOUS
<1> USE DEF Init
<1>1. TypeOK
  BY Sizes, Empty DEF TypeOK, Verdicts
<1>2. LogInOrder
  BY Empty DEF LogInOrder, Counting
<1>3. Stages /\ Judged
  BY DEF Stages, Judged, Final
<1> QED BY <1>1, <1>2, <1>3 DEF IInv

LEMMA BatchSize ==
  ASSUME TypeOK, LogInOrder
  PROVE  /\ Available \in Nat /\ offset + Available <= visible
         /\ Available = 0 => offset = visible
BY Sizes DEF TypeOK, LogInOrder, Available

-----------------------------------------------------------------------------
LEMMA TypeStep == IInv /\ [Next]_vars => TypeOK'
<1> SUFFICES ASSUME IInv, [Next]_vars PROVE TypeOK'
  OBVIOUS
<1> USE DEF IInv, TypeOK, Verdicts, server, poller
<1>1. CASE Server
  BY <1>1 DEF Server, Log, Publish, Complete
<1>2. CASE Poll
  <2>1. Available \in Nat /\ pend' = [i \in 1..Available |-> offset + i]
    BY <1>2, BatchSize DEF Poll
  <2>2. pend' \in Seq(Nat)
    BY <2>1
  <2> QED BY <1>2, <2>1, <2>2 DEF Poll
<1>3. CASE PollFails \/ Rest \/ Wake \/ Drain \/ Conclude \/ Report \/ Abort
  BY <1>3 DEF PollFails, Rest, Wake, Drain, Conclude, Report, Abort, Forwarded
<1>4. CASE Forward
  <2>1. pend' \in Seq(Nat)
    BY <1>4, Parts DEF Forward
  <2>2. chan' \in Seq(Nat) /\ Len(chan') <= Capacity
    <3>1. CASE handle = "dropped"
      BY <1>4, <3>1 DEF Forward
    <3>2. CASE handle # "dropped"
      <4>1. /\ chan' = Append(chan, Head(pend)) /\ Len(chan) < Capacity
            /\ Head(pend) \in Nat /\ Len(chan) \in Nat
        BY <1>4, <3>2, Parts DEF Forward
      <4>2. chan' \in Seq(Nat) /\ Len(chan') = Len(chan) + 1
        BY <4>1, Longer
      <4> QED BY ONLY <4>1, <4>2, Sizes
    <3> QED BY <3>1, <3>2
  <2> QED BY <1>4, <2>1, <2>2 DEF Forward
<1>5. CASE HandleNext \/ WaitDrains
  <2>1. chan # << >> /\ chan' = Tail(chan) /\ popped' = Append(popped, Head(chan))
    BY <1>5 DEF HandleNext, WaitDrains, Recv
  <2>2. chan' \in Seq(Nat) /\ Len(chan') <= Capacity
    BY <2>1, Parts, Sizes
  <2>3. popped' \in Seq(Nat)
    BY <2>1, Parts, Longer
  <2> QED BY <1>5, <2>2, <2>3 DEF HandleNext, WaitDrains, Recv
<1>6. CASE HandleWait \/ WaitReturns \/ HandleDrop
  <2>1. chan' \in Seq(Nat) /\ Len(chan') <= Capacity
    <3>1. chan' \in {chan, << >>}
      BY <1>6 DEF HandleWait, WaitReturns, HandleDrop
    <3>2. Len(<< >>) <= Capacity
      BY Empty, Sizes
    <3> QED BY <3>1, <3>2, Empty
  <2>2. outcome' \in Verdicts \cup {"noresult"}
    BY <1>6 DEF HandleWait, WaitReturns, HandleDrop
  <2> QED BY <1>6, <2>1, <2>2 DEF HandleWait, WaitReturns, HandleDrop
<1>7. CASE UNCHANGED vars
  BY <1>7 DEF vars
<1> QED BY <1>1, <1>2, <1>3, <1>4, <1>5, <1>6, <1>7 DEF Next, Task, Caller

LEMMA OrderStep == IInv /\ [Next]_vars => LogInOrder'
<1> SUFFICES ASSUME IInv, [Next]_vars PROVE LogInOrder'
  OBVIOUS
<1> USE DEF IInv, server, poller
<1>0. /\ popped \in Seq(Nat) /\ chan \in Seq(Nat) /\ pend \in Seq(Nat)
      /\ offset \in Nat /\ visible \in Nat
  BY DEF TypeOK
<1>1. CASE Server
  <2>1. visible' >= visible /\ visible' \in Nat /\ UNCHANGED <<popped, chan, pend, offset, handle>>
    BY <1>0, <1>1 DEF Server, Log, Publish, Complete
  <2> QED BY <1>0, <2>1 DEF LogInOrder
<1>2. CASE Poll
  <2>1. /\ Available \in Nat /\ offset' = offset + Available /\ offset' <= visible'
        /\ pend' = [i \in 1..Available |-> offset + i]
        /\ pend = << >> /\ UNCHANGED <<popped, chan, handle>>
    BY <1>2, BatchSize DEF Poll, Stages
  <2>2. ASSUME handle # "dropped"
        PROVE  Counting(popped \o chan \o pend') /\ Len(popped \o chan \o pend') = offset'
    <3> DEFINE s == popped \o chan
    <3>1. s \in Seq(Nat) /\ s \o pend = s
      BY <1>0, <2>1
    <3>2. Counting(s) /\ Len(s) = offset
      BY <2>2, <3>1 DEF LogInOrder
    <3>3. pend' = [i \in 1..Available |-> Len(s) + i]
      BY <2>1, <3>2
    <3> QED BY <2>1, <3>1, <3>2, <3>3, BatchCounts
  <2> QED BY <2>1, <2>2 DEF LogInOrder
<1>3. CASE PollFails \/ Rest \/ Wake \/ Drain \/ Conclude \/ Report \/ Abort
  BY <1>3 DEF LogInOrder, PollFails, Rest, Wake, Drain, Conclude, Report, Abort, Forwarded
<1>4. CASE Forward
  <2>1. CASE handle = "dropped"
    BY <1>4, <2>1 DEF LogInOrder, Forward
  <2>2. CASE handle # "dropped"
    <3>1. /\ pend # << >> /\ chan' = Append(chan, Head(pend)) /\ pend' = Tail(pend)
          /\ UNCHANGED popped
      BY <1>4, <2>2 DEF Forward
    <3>2. popped' \o chan' \o pend' = popped \o chan \o pend
      BY <1>0, <3>1, MovedLast
    <3> QED BY <1>4, <2>2, <3>2 DEF LogInOrder, Forward
  <2> QED BY <2>1, <2>2
<1>5. CASE HandleNext \/ WaitDrains
  <2>1. /\ chan # << >> /\ popped' = Append(popped, Head(chan)) /\ chan' = Tail(chan)
        /\ handle # "dropped" /\ UNCHANGED <<handle, pend, offset, visible>>
    BY <1>5 DEF HandleNext, WaitDrains, Recv
  <2>2. popped' \o chan' \o pend' = popped \o chan \o pend
    BY <1>0, <2>1, MovedFirst
  <2>3. popped' \in Seq(Nat) /\ chan' \in Seq(Nat)
    BY <1>0, <2>1, Parts
  <2>4. Counting(popped' \o chan' \o pend')
    BY <2>1, <2>2 DEF LogInOrder
  <2>5. Counting(popped')
    <3>1. /\ popped' \o chan' \o pend' = popped' \o (chan' \o pend')
          /\ chan' \o pend' \in Seq(Nat)
      <4>1. pend' \in Seq(Nat)
        BY <1>0, <2>1
      <4> QED BY ONLY <2>3, <4>1, Associates
    <3> QED BY <2>3, <2>4, <3>1, FrontCounts
  <2> QED BY <2>1, <2>2, <2>4, <2>5 DEF LogInOrder
<1>6. CASE HandleWait \/ WaitReturns \/ HandleDrop
  BY <1>6 DEF LogInOrder, HandleWait, WaitReturns, HandleDrop
<1>7. CASE UNCHANGED vars
  BY <1>7 DEF vars, LogInOrder
<1> QED BY <1>1, <1>2, <1>3, <1>4, <1>5, <1>6, <1>7 DEF Next, Task, Caller

LEMMA StagesStep == IInv /\ [Next]_vars => Stages'
<1> SUFFICES ASSUME IInv, [Next]_vars PROVE Stages'
  OBVIOUS
<1> USE DEF IInv, Stages, server, poller
<1>1. CASE Server
  BY <1>1 DEF Server, Log, Publish, Complete
<1>2. CASE Poll \/ PollFails \/ Forward
  BY <1>2 DEF Poll, PollFails, Forward
<1>3. CASE Rest \/ Wake \/ Drain \/ Conclude \/ Report \/ Abort
  BY <1>3 DEF Rest, Wake, Drain, Conclude, Report, Abort, Forwarded
<1>4. CASE HandleNext \/ WaitDrains \/ HandleWait \/ WaitReturns \/ HandleDrop
  BY <1>4 DEF HandleNext, WaitDrains, HandleWait, WaitReturns, HandleDrop, Recv
<1>5. CASE UNCHANGED vars
  BY <1>5 DEF vars
<1> QED BY <1>1, <1>2, <1>3, <1>4, <1>5 DEF Next, Task, Caller

LEMMA JudgedStep == IInv /\ [Next]_vars => Judged'
<1> SUFFICES ASSUME IInv, [Next]_vars PROVE Judged'
  OBVIOUS
<1> USE DEF IInv, Judged, Final, server, poller
<1>1. CASE Server
  BY <1>1 DEF Server, Log, Publish, Complete
<1>2. CASE Poll
  <2>1. /\ Available \in Nat /\ offset' = offset + Available /\ seen' = visible
        /\ got' = Available /\ UNCHANGED <<verdict, build>>
        /\ status' = IF status = "building" THEN build ELSE status
        /\ verdict = "none"
    BY <1>2, BatchSize DEF Poll, Stages
  <2>2. got' = 0 => seen' <= offset'
    BY <2>1, BatchSize DEF TypeOK
  <2> QED BY <2>1, <2>2
<1>3. CASE Rest \/ Wake \/ Drain \/ Conclude \/ Report \/ Abort \/ PollFails
  BY <1>3 DEF Rest, Wake, Drain, Conclude, Report, Abort, PollFails, Forwarded, TypeOK, Stages
<1>4. CASE Forward
  BY <1>4 DEF Forward
<1>5. CASE HandleNext \/ WaitDrains \/ HandleWait \/ WaitReturns \/ HandleDrop
  BY <1>5 DEF HandleNext, WaitDrains, HandleWait, WaitReturns, HandleDrop
<1>6. CASE UNCHANGED vars
  BY <1>6 DEF vars
<1> QED BY <1>1, <1>2, <1>3, <1>4, <1>5, <1>6 DEF Next, Task, Caller

-----------------------------------------------------------------------------
\* Whatever the control plane shows and when, however polls fail and wherever the handle
\* is dropped: the inductive invariant holds, the order of the log with it.
THEOREM Invariance == Spec => []IInv
<1>1. IInv /\ [Next]_vars => IInv'
  BY TypeStep, OrderStep, StagesStep, JudgedStep DEF IInv
<1> QED BY InitHolds, <1>1, PTL DEF Spec

\* A verdict that BuildHandle::wait returns is the build's own, and comes after every
\* entry that the last status response could see.
THEOREM VerdictsAreFinal == Spec => []VerdictIsFinal
<1>1. IInv => VerdictIsFinal
  <2> SUFFICES ASSUME IInv PROVE VerdictIsFinal
    OBVIOUS
  <2> USE DEF IInv
  <2>1. Final(reply) => build = IF reply = "ok" THEN "ready" ELSE "error"
    BY DEF Stages, Judged, Final
  <2>2. outcome # "noresult"
    BY DEF Stages, TypeOK, Verdicts
  <2>3. ASSUME Final(outcome) PROVE Len(popped) >= seen
    <3>1. /\ handle = "returned" /\ task = "reported" /\ Final(verdict)
          /\ chan = << >> /\ pend = << >>
      BY <2>3 DEF Stages, Final
    <3>2. popped \in Seq(Nat) /\ offset \in Nat /\ seen \in Nat
      BY DEF TypeOK
    <3>3. Len(popped) = offset
      BY <3>1, <3>2 DEF LogInOrder
    <3>4. seen <= offset
      BY <3>1 DEF Judged
    <3> QED BY <3>2, <3>3, <3>4
  <2> QED BY <2>1, <2>2, <2>3 DEF VerdictIsFinal
<1> QED BY Invariance, <1>1, PTL
===============================================================================
