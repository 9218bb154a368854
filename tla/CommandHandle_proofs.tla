------------------------ MODULE CommandHandle_proofs ------------------------
(***************************************************************************)
(* Proofs about CommandHandle, for every set of chunks and statuses, every *)
(* channel capacity and every bound.                                       *)
(***************************************************************************)
EXTENDS CommandHandle, WellFoundedInduction, TLAPS

(* Sequences.                                                              *)

\* A prefix, element by element.
LEMMA PrefixElements ==
  ASSUME NEW S, NEW s \in Seq(S), NEW t \in Seq(S)
  PROVE  Prefix(s, t) <=> /\ Len(s) <= Len(t)
                          /\ \A i \in 1..Len(s) : s[i] = t[i]
BY DEF Prefix

\* Length and elements of the three parts a chunk passes through.
LEMMA TakenElements ==
  ASSUME NEW S, NEW a \in Seq(S), NEW b \in Seq(S), NEW c \in Seq(S)
  PROVE  /\ a \o b \o c \in Seq(S)
         /\ Len(a \o b \o c) = Len(a) + Len(b) + Len(c)
         /\ \A i \in 1..Len(a) : (a \o b \o c)[i] = a[i]
         /\ \A i \in 1..Len(b) : (a \o b \o c)[Len(a) + i] = b[i]
         /\ \A i \in 1..Len(c) : (a \o b \o c)[Len(a) + Len(b) + i] = c[i]
OBVIOUS

\* Taking a chunk out of the channel leaves the whole as it was.
LEMMA PopKeepsTaken ==
  ASSUME NEW S, NEW a \in Seq(S), NEW b \in Seq(S), NEW c \in Seq(S), b # << >>
  PROVE  Append(a, Head(b)) \o Tail(b) \o c = a \o b \o c
OBVIOUS

\* So does putting the chunk being sent into it.
LEMMA SendKeepsTaken ==
  ASSUME NEW S, NEW a \in Seq(S), NEW b \in Seq(S), NEW c \in Seq(S)
  PROVE  a \o (b \o c) \o << >> = a \o b \o c
OBVIOUS

-----------------------------------------------------------------------------
\* The events envd can emit.
LEMMA EventTypes ==
  /\ Start \in Events
  /\ \A n \in Nat : Silent(n) \in Events
  /\ \A n \in Nat, c \in Chunks : Data(c, n) \in Events
  /\ \A n \in Nat, s \in Statuses : End(s, n) \in Events
BY DEF Start, Silent, Data, End, Events

\* What an event carries, by its tag.
LEMMA EventParts ==
  ASSUME NEW e \in Events
  PROVE  /\ e.at \in Nat
         /\ e.tag \in {"data", "end", "start", "keepalive"}
         /\ e.tag = "data" => e.chunk \in Chunks
         /\ e.tag = "end" => e.status \in Statuses
BY DEF Events

LEMMA HeadTail ==
  ASSUME NEW S, NEW s \in Seq(S), s # << >>
  PROVE  /\ Head(s) \in S /\ Head(s) = s[1]
         /\ Tail(s) \in Seq(S) /\ Len(Tail(s)) = Len(s) - 1
         /\ \A i \in 1..Len(Tail(s)) : Tail(s)[i] = s[i + 1]
         /\ Len(s) >= 1
OBVIOUS

LEMMA ShortSeqs ==
  ASSUME NEW S, NEW a \in S, NEW b \in S
  PROVE  << >> \in Seq(S) /\ <<a>> \in Seq(S) /\ <<a, b>> \in Seq(S)
OBVIOUS

LEMMA TypeInit == Init => TypeOK
BY CapacityAssumption DEF Init, TypeOK, None, Replies

LEMMA TypeStep == TypeOK /\ [Next]_vars => TypeOK'
<1> SUFFICES ASSUME TypeOK, [Next]_vars PROVE TypeOK'
  OBVIOUS
<1> USE DEF TypeOK, server, stream, account
<1>1. CASE Accept
  <2>1. queue' \in Seq(Events)
    <3>1. Start \in Events /\ Silent(0) \in Events
      BY EventTypes
    <3>2. {<<Start>>, <<Silent(0), Start>>, << >>} \subseteq Seq(Events)
      BY <3>1, ShortSeqs
    <3> QED BY <1>1, <3>2 DEF Accept
  <2> QED BY <1>1, <2>1 DEF Accept
<1>2. CASE Write
  BY <1>2, EventTypes DEF Write, Emit
<1>3. CASE KeepAlive
  BY <1>3, EventTypes DEF KeepAlive, Emit
<1>4. CASE Exit
  BY <1>4, EventTypes DEF Exit, Emit
<1>5. CASE Disconnect
  BY <1>5 DEF Disconnect
<1>6. CASE OpenFails
  BY <1>6 DEF OpenFails
<1>7. CASE OpenStarts
  BY <1>7 DEF OpenStarts, Yields, TakeMessage
<1>8. CASE OpenSkips
  BY <1>8 DEF OpenSkips, Yields, TakeMessage
<1>9. CASE OpenRefuses
  BY <1>9 DEF OpenRefuses
<1>10. CASE DriverTakesOutput
  <2>1. Head(queue).chunk \in Chunks
    BY <1>10, EventParts, HeadTail DEF DriverTakesOutput
  <2> QED BY <1>10, <2>1 DEF DriverTakesOutput, TakeMessage
<1>11. CASE DriverSends
  <2>1. chan \o pend \in Seq(Chunks) /\ Len(chan \o pend) = Len(chan) + Len(pend)
    OBVIOUS
  <2>2. Len(chan) < Capacity => Len(chan \o pend) <= Capacity
    BY <2>1, CapacityAssumption
  <2>3. chan' \in Seq(Chunks) /\ Len(chan') <= Capacity
    BY <1>11, <2>1, <2>2 DEF DriverSends
  <2> QED BY <1>11, <2>3 DEF DriverSends
<1>12. CASE DriverSkips
  BY <1>12 DEF DriverSkips, TakeMessage
<1>13. CASE DriverReplies
  <2>1. queue' \in Seq(Events)
    BY <1>13, HeadTail DEF DriverReplies, Outcome, TakeMessage
  <2>2. reply' \in Replies
    <3>1. ASSUME queue # << >>, Head(queue).tag = "end",
                 reply' = Ok(Head(queue).status.code, Head(queue).status.err)
          PROVE  reply' \in Replies
      <4>1. Head(queue).status \in [code : Int, err : {"none", "reported"}]
        BY <3>1, EventParts, HeadTail, StatusesAssumption
      <4> QED BY <3>1, <4>1 DEF Ok, Replies
    <3>2. [kind |-> "err"] \in Replies /\ Ok(0, "closed") \in Replies
      BY DEF Ok, Replies
    <3> QED BY <1>13, <3>1, <3>2 DEF DriverReplies, Outcome
  <2> QED BY <1>13, <2>1, <2>2 DEF DriverReplies
<1>14. CASE DriverFinishes
  BY <1>14 DEF DriverFinishes
<1>15. CASE DriverAborts
  BY <1>15 DEF DriverAborts
<1>16. CASE HandleNext
  BY <1>16, HeadTail, CapacityAssumption DEF HandleNext, Recv
<1>17. CASE HandleWait
  BY <1>17 DEF HandleWait
<1>18. CASE WaitDrains
  BY <1>18, HeadTail, CapacityAssumption DEF WaitDrains, Recv
<1>19. CASE WaitReturns
  BY <1>19 DEF WaitReturns, Replies
<1>20. CASE HandleDrop
  BY <1>20, CapacityAssumption DEF HandleDrop
<1>21. CASE UNCHANGED vars
  BY <1>21 DEF vars
<1> QED
  BY <1>1, <1>2, <1>3, <1>4, <1>5, <1>6, <1>7, <1>8, <1>9, <1>10, <1>11,
     <1>12, <1>13, <1>14, <1>15, <1>16, <1>17, <1>18, <1>19, <1>20, <1>21
  DEF Next, Envd, Open, Driver, Caller

\* CommandHandle's state is always well typed, and the channel within its
\* capacity.
THEOREM TypeCorrect == Spec => []TypeOK
<1>1. Init => TypeOK
  BY TypeInit
<1>2. TypeOK /\ [Next]_vars => TypeOK'
  BY TypeStep
<1> QED
  BY <1>1, <1>2, PTL DEF Spec

-----------------------------------------------------------------------------
LEMMA StagesStep == TypeOK /\ Stages /\ [Next]_vars => Stages'
<1> SUFFICES ASSUME TypeOK, Stages, [Next]_vars PROVE Stages'
  OBVIOUS
<1> USE DEF Stages, server, stream, account
<1>1. CASE Accept
  BY <1>1 DEF Accept, TypeOK
<1>2. CASE Write
  BY <1>2 DEF Write
<1>3. CASE KeepAlive
  BY <1>3 DEF KeepAlive
<1>4. CASE Exit
  BY <1>4 DEF Exit
<1>5. CASE Disconnect
  BY <1>5 DEF Disconnect
<1>6. CASE OpenFails
  BY <1>6 DEF OpenFails
<1>7. CASE OpenStarts
  BY <1>7 DEF OpenStarts, Yields
<1>8. CASE OpenSkips
  BY <1>8 DEF OpenSkips, Yields
<1>9. CASE OpenRefuses
  BY <1>9 DEF OpenRefuses
<1>10. CASE DriverTakesOutput
  BY <1>10 DEF DriverTakesOutput
<1>11. CASE DriverSends
  BY <1>11 DEF DriverSends
<1>12. CASE DriverSkips
  BY <1>12 DEF DriverSkips
<1>13. CASE DriverReplies
  <2>1. reply'.kind \in {"ok", "err"}
    BY <1>13 DEF DriverReplies, Outcome, Ok
  <2> QED BY <1>13, <2>1 DEF DriverReplies, Outcome, None
<1>14. CASE DriverFinishes
  BY <1>14 DEF DriverFinishes
<1>15. CASE DriverAborts
  BY <1>15 DEF DriverAborts
<1>16. CASE HandleNext
  BY <1>16 DEF HandleNext
<1>17. CASE HandleWait
  BY <1>17 DEF HandleWait
<1>18. CASE WaitDrains
  BY <1>18 DEF WaitDrains
<1>19. CASE WaitReturns
  BY <1>19 DEF WaitReturns
<1>20. CASE HandleDrop
  BY <1>20 DEF HandleDrop
<1>21. CASE UNCHANGED vars
  BY <1>21 DEF vars
<1> QED
  BY <1>1, <1>2, <1>3, <1>4, <1>5, <1>6, <1>7, <1>8, <1>9, <1>10, <1>11,
     <1>12, <1>13, <1>14, <1>15, <1>16, <1>17, <1>18, <1>19, <1>20, <1>21
  DEF Next, Envd, Open, Driver, Caller

-----------------------------------------------------------------------------
\* A chunk that moves, from the task into the channel or from the channel to
\* the caller, stays where it is in what the driver took.
LEMMA MoveKeepsTaken ==
  ASSUME TypeOK, handle # "dropped", DriverSends \/ HandleNext \/ WaitDrains
  PROVE  Taken' = Taken
<1>type. /\ popped \in Seq(Chunks) /\ chan \in Seq(Chunks)
         /\ pend \in Seq(Chunks)
  BY DEF TypeOK
<1>1. CASE DriverSends
  <2>1. popped \o (chan \o pend) \o << >> = popped \o chan \o pend
    BY ONLY <1>type, SendKeepsTaken
  <2> QED BY <1>1, <2>1 DEF DriverSends, Taken
<1>2. CASE HandleNext \/ WaitDrains
  <2>1. Recv /\ pend' = pend
    BY <1>2 DEF HandleNext, WaitDrains
  <2>2. chan # << >>
    BY <2>1 DEF Recv
  <2>3. Append(popped, Head(chan)) \o Tail(chan) \o pend
          = popped \o chan \o pend
    BY ONLY <1>type, <2>2, PopKeepsTaken
  <2> QED BY <2>1, <2>3 DEF Recv, Taken
<1> QED BY <1>1, <1>2

LEMMA InOrderStep ==
  TypeOK /\ Stages /\ StreamInStep /\ OutputInOrder /\ [Next]_vars
    => OutputInOrder'
<1> SUFFICES ASSUME TypeOK, Stages, StreamInStep, OutputInOrder, [Next]_vars
             PROVE  OutputInOrder'
  OBVIOUS
<1> DEFINE Same == /\ produced' = produced /\ popped' = popped
                   /\ Taken' = Taken
                   /\ handle' # "dropped" => handle # "dropped"
<1>same. ASSUME Same PROVE OutputInOrder'
  BY <1>same DEF OutputInOrder, Prefix
<1>1. CASE Write
  <2>1. PICK c \in Chunks : produced' = Append(produced, c)
    BY <1>1 DEF Write
  <2>2. ASSUME NEW s \in Seq(Chunks), Prefix(s, produced)
        PROVE  Prefix(s, produced')
    <3>1. /\ produced' \in Seq(Chunks) /\ Len(produced') = Len(produced) + 1
          /\ \A i \in 1..Len(produced) : produced'[i] = produced[i]
      BY <2>1 DEF TypeOK
    <3>2. /\ Len(s) <= Len(produced)
          /\ \A i \in 1..Len(s) : s[i] = produced[i]
      BY <2>2, PrefixElements DEF TypeOK
    <3>3. Len(s) <= Len(produced')
      <4>1. Len(s) \in Nat /\ Len(produced) \in Nat
        BY DEF TypeOK
      <4> QED BY ONLY <3>1, <3>2, <4>1
    <3>4. ASSUME NEW i \in 1..Len(s) PROVE s[i] = produced'[i]
      <4>1. i \in 1..Len(produced)
        <5>1. Len(s) \in Nat /\ Len(produced) \in Nat
          BY DEF TypeOK
        <5> QED BY ONLY <3>2, <5>1, i \in 1..Len(s)
      <4> QED BY ONLY <3>1, <3>2, <4>1, i \in 1..Len(s)
    <3> QED BY <3>1, <3>3, <3>4, PrefixElements
  <2>3. Taken \in Seq(Chunks) /\ popped \in Seq(Chunks)
    BY TakenElements DEF TypeOK, Taken
  <2>4. Taken' = Taken /\ popped' = popped /\ handle' = handle
    BY <1>1 DEF Write, Taken
  <2> QED BY <2>2, <2>3, <2>4 DEF OutputInOrder
<1>2. CASE DriverTakesOutput
  <2> DEFINE e == queue[1]
  <2>1. /\ queue # << >> /\ Head(queue) = e /\ e.tag = "data"
        /\ pend = << >> /\ pend' = <<e.chunk>>
        /\ popped' = popped /\ chan' = chan /\ produced' = produced
        /\ handle' = handle
    <3>1. queue # << >> /\ Head(queue) = e
      BY <1>2, HeadTail DEF DriverTakesOutput, TypeOK
    <3>2. pend = << >>
      BY <1>2 DEF DriverTakesOutput, Stages
    <3> QED BY <1>2, <3>1, <3>2 DEF DriverTakesOutput, server
  <2>2. SUFFICES ASSUME handle # "dropped"
                 PROVE  Prefix(Taken', produced)
    BY <2>1 DEF OutputInOrder
  <2>3. /\ e.at = Len(Taken) + 1 /\ e.chunk = produced[e.at]
        /\ e.at <= Len(produced)
    BY <2>1, <2>2, HeadTail DEF StreamInStep, Weight, TypeOK
  <2>4. e.chunk \in Chunks
    BY <2>1, HeadTail, EventParts DEF TypeOK
  <2>5. Taken \in Seq(Chunks) /\ Taken' = Append(Taken, e.chunk)
    BY <2>1, <2>4 DEF Taken, TypeOK
  <2>6. Prefix(Taken, produced)
    BY <2>2 DEF OutputInOrder
  <2>7. produced \in Seq(Chunks) /\ Append(Taken, e.chunk) \in Seq(Chunks)
    BY <2>4, <2>5 DEF TypeOK
  <2>8. /\ Len(Append(Taken, e.chunk)) <= Len(produced)
        /\ \A i \in 1..Len(Append(Taken, e.chunk)) :
              Append(Taken, e.chunk)[i] = produced[i]
    BY <2>3, <2>4, <2>5, <2>6, <2>7, PrefixElements
  <2> QED BY <2>5, <2>7, <2>8, PrefixElements
<1>3. CASE DriverSends
  <2>1. CASE handle = "dropped"
    BY <1>3, <2>1 DEF DriverSends, OutputInOrder, server
  <2>2. CASE handle # "dropped"
    <3>1. Taken' = Taken
      BY <1>3, <2>2, MoveKeepsTaken
    <3> QED BY <1>3, <3>1, <1>same DEF DriverSends, server
  <2> QED BY <2>1, <2>2
<1>4. CASE HandleNext \/ WaitDrains
  <2>1. /\ Recv /\ pend' = pend /\ produced' = produced
        /\ handle' = handle /\ handle # "dropped"
    BY <1>4 DEF HandleNext, WaitDrains, server
  <2>2. Taken' = Taken
    BY <1>4, <2>1, MoveKeepsTaken
  <2>3. /\ popped' \in Seq(Chunks) /\ Tail(chan) \in Seq(Chunks)
        /\ Taken' = popped' \o Tail(chan) \o pend
    BY <2>1, HeadTail DEF Recv, Taken, TypeOK
  <2>4. Taken \in Seq(Chunks) /\ Prefix(Taken, produced)
    BY <2>1, TakenElements DEF OutputInOrder, Taken, TypeOK
  <2>5. Prefix(popped', produced)
    <3>1. /\ Len(popped') <= Len(Taken)
          /\ \A i \in 1..Len(popped') : popped'[i] = Taken[i]
      BY <2>2, <2>3, TakenElements DEF TypeOK
    <3>2. /\ Len(Taken) <= Len(produced)
          /\ \A i \in 1..Len(Taken) : Taken[i] = produced[i]
      BY <2>4, PrefixElements DEF TypeOK
    <3>3. /\ Len(popped') <= Len(produced)
          /\ \A i \in 1..Len(popped') : popped'[i] = produced[i]
      BY <3>1, <3>2, <2>3, <2>4 DEF TypeOK
    <3> QED BY <3>3, <2>3, PrefixElements DEF TypeOK
  <2> QED BY <2>1, <2>2, <2>4, <2>5 DEF OutputInOrder
<1>5. CASE HandleDrop
  BY <1>5 DEF HandleDrop, OutputInOrder, server
<1>6. CASE \/ Accept \/ KeepAlive \/ Exit \/ Disconnect
           \/ Open
           \/ DriverSkips \/ DriverReplies \/ DriverFinishes \/ DriverAborts
           \/ HandleWait \/ WaitReturns
           \/ UNCHANGED vars
  <2>1. Same
    BY <1>6
    DEF Accept, KeepAlive, Exit, Disconnect, Open, OpenFails, OpenStarts,
        OpenSkips, OpenRefuses, DriverSkips, DriverReplies, DriverFinishes,
        DriverAborts, HandleWait, WaitReturns, vars, server, Taken
  <2> QED BY <2>1, <1>same
<1> QED
  BY <1>1, <1>2, <1>3, <1>4, <1>5, <1>6
  DEF Next, Envd, Driver, Caller

-----------------------------------------------------------------------------
\* The chunks in the three places add up.
LEMMA TakenLength ==
  TypeOK => /\ Taken \in Seq(Chunks)
            /\ Len(Taken) = Len(popped) + Len(chan) + Len(pend)
BY TakenElements DEF TypeOK, Taken

LEMMA TakenLengthNext ==
  TypeOK' => Len(Taken') = Len(popped') + Len(chan') + Len(pend')
BY TakenElements DEF TypeOK, Taken

\* A message appended to a live stream keeps it in step.
LEMMA EmitInStep ==
  ASSUME TypeOK, TypeOK', StreamInStep, proc # "exited", fate = "live",
         Len(Taken') = Len(Taken), handle' = handle,
         NEW e \in Events, queue' = Append(queue, e),
         e.at = Len(produced'), Len(produced') = Len(produced) + Weight(e),
         \A i \in 1..Len(produced) : produced'[i] = produced[i],
         e.tag = "data" => e.chunk = produced'[e.at],
         e.tag = "end" => proc' = "exited" /\ e.status = status'
  PROVE  StreamInStep'
<1>1. /\ queue \in Seq(Events) /\ queue' \in Seq(Events)
      /\ Len(queue') = Len(queue) + 1 /\ Len(queue) \in Nat
      /\ queue'[Len(queue')] = e
      /\ \A i \in 1..Len(queue) : queue'[i] = queue[i]
  BY DEF TypeOK
<1>2. Len(produced) \in Nat /\ Len(produced') \in Nat /\ Len(Taken) \in Nat
  BY TakenLength DEF TypeOK
<1>3. \A i \in 1..Len(queue) : queue[i] \in Events /\ queue[i].at \in Nat
  BY <1>1, EventParts
<1>4. Weight(e) \in {0, 1} /\ e.tag \in {"data", "end", "start", "keepalive"}
  BY EventParts DEF Weight
<1>5. \A i \in 1..Len(queue) :
        /\ queue[i].at <= Len(produced)
        /\ queue[i].tag # "end"
        /\ queue[i].tag = "data" => /\ queue[i].at >= 1
                                   /\ queue[i].chunk = produced[queue[i].at]
  BY DEF StreamInStep
<1>6. handle' # "dropped" =>
        /\ queue' # << >> => queue'[1].at = Len(Taken') + Weight(queue'[1])
        /\ fate' = "live" /\ queue' = << >> => Len(Taken') = Len(produced')
  <2>1. CASE queue = << >>
    <3>1. queue' = <<e>> /\ queue'[1] = e /\ queue' # << >>
      BY <1>1, <2>1
    <3>2. handle # "dropped" => Len(Taken) = Len(produced)
      BY <2>1 DEF StreamInStep
    <3> QED BY <1>2, <1>4, <3>1, <3>2
  <2>2. CASE queue # << >>
    <3>1. queue'[1] = queue[1] /\ queue' # << >>
      BY <1>1, <2>2
    <3>2. handle # "dropped" => queue[1].at = Len(Taken) + Weight(queue[1])
      BY <2>2 DEF StreamInStep
    <3> QED BY <3>1, <3>2
  <2> QED BY <2>1, <2>2
<1>7. \A i \in 2..Len(queue') :
        queue'[i].at = queue'[i - 1].at + Weight(queue'[i])
  <2> SUFFICES ASSUME NEW i \in 2..Len(queue')
               PROVE  queue'[i].at = queue'[i - 1].at + Weight(queue'[i])
    OBVIOUS
  <2>1. CASE i \in 2..Len(queue)
    <3>1. queue'[i] = queue[i] /\ queue'[i - 1] = queue[i - 1]
      BY <1>1, <2>1
    <3>2. queue[i].at = queue[i - 1].at + Weight(queue[i])
      BY <2>1 DEF StreamInStep
    <3> QED BY <3>1, <3>2
  <2>2. CASE i = Len(queue) + 1
    <3>1. /\ queue'[i] = e /\ queue # << >> /\ i - 1 = Len(queue)
          /\ queue'[i - 1] = queue[Len(queue)]
      BY <1>1, <2>2
    <3>2. queue[Len(queue)].at = Len(produced)
      BY <3>1 DEF StreamInStep
    <3> QED BY <1>2, <3>1, <3>2
  <2> QED BY <1>1, <2>1, <2>2
<1>8. queue' # << >> => queue'[Len(queue')].at = Len(produced')
  BY <1>1
<1>9. \A i \in 1..Len(queue') :
        /\ queue'[i].at <= Len(produced')
        /\ queue'[i].tag = "data" => /\ queue'[i].at >= 1
                                    /\ queue'[i].chunk = produced'[queue'[i].at]
        /\ queue'[i].tag = "end" => /\ proc' = "exited"
                                   /\ queue'[i].status = status'
                                   /\ queue'[i].at = Len(produced')
  <2> SUFFICES ASSUME NEW i \in 1..Len(queue')
               PROVE  /\ queue'[i].at <= Len(produced')
                      /\ queue'[i].tag = "data" =>
                           /\ queue'[i].at >= 1
                           /\ queue'[i].chunk = produced'[queue'[i].at]
                      /\ queue'[i].tag = "end" =>
                           /\ proc' = "exited"
                           /\ queue'[i].status = status'
                           /\ queue'[i].at = Len(produced')
    OBVIOUS
  <2>1. CASE i \in 1..Len(queue)
    <3>1. queue'[i] = queue[i]
      BY <1>1, <2>1
    <3>2. queue[i].at \in Nat /\ queue[i].at <= Len(produced)
      BY <1>3, <1>5, <2>1
    <3>3. queue[i].tag = "data" => queue[i].at \in 1..Len(produced)
      BY <1>5, <2>1, <3>2, <1>2
    <3> QED BY <1>2, <1>4, <1>5, <2>1, <3>1, <3>2, <3>3
  <2>2. CASE i = Len(queue) + 1
    <3>1. queue'[i] = e
      BY <1>1, <2>2
    <3>2. e.tag = "data" => e.at >= 1
      BY <1>2 DEF Weight
    <3> QED BY <1>2, <3>1, <3>2
  <2> QED BY <1>1, <2>1, <2>2
<1> QED BY <1>6, <1>7, <1>8, <1>9 DEF StreamInStep

\* So does taking the first message, when a chunk it carries is kept.
LEMMA TakeInStep ==
  ASSUME TypeOK, TypeOK', StreamInStep, queue # << >>, queue' = Tail(queue),
         handle' # "dropped" => handle # "dropped",
         Len(Taken') = Len(Taken) + Weight(queue[1]),
         proc' = proc, produced' = produced, status' = status, fate' = fate
  PROVE  StreamInStep'
<1>1. /\ queue' \in Seq(Events) /\ Len(queue') = Len(queue) - 1
      /\ Len(queue) \in Nat /\ Len(queue) >= 1
      /\ \A i \in 1..Len(queue') : queue'[i] = queue[i + 1]
  BY HeadTail DEF TypeOK
<1>2. Len(produced) \in Nat /\ Len(Taken) \in Nat /\ queue[1].at \in Nat
  BY <1>1, TakenLength, EventParts DEF TypeOK
<1>3. ASSUME handle' # "dropped"
      PROVE  /\ queue' # << >> => queue'[1].at = Len(Taken') + Weight(queue'[1])
             /\ fate' = "live" /\ queue' = << >> => Len(Taken') = Len(produced')
  <2>1. queue[1].at = Len(Taken')
    BY <1>3 DEF StreamInStep
  <2>2. ASSUME queue' # << >>
        PROVE  queue'[1].at = Len(Taken') + Weight(queue'[1])
    <3>1. 2 \in 2..Len(queue) /\ queue'[1] = queue[2]
      BY <1>1, <2>2
    <3>2. queue[2].at = queue[2 - 1].at + Weight(queue[2])
      BY <3>1 DEF StreamInStep
    <3> QED BY <2>1, <3>1, <3>2
  <2>3. ASSUME fate' = "live", queue' = << >> PROVE Len(Taken') = Len(produced')
    <3>1. Len(queue) = 1
      <4>1. queue' \in Seq(Events) /\ queue' = << >>
        BY <1>1, <2>3
      <4>2. Len(queue') = 0
        BY ONLY <4>1
      <4> QED BY <1>1, <4>2
    <3>2. queue[Len(queue)].at = Len(produced)
      BY <2>3 DEF StreamInStep
    <3> QED BY <2>1, <3>1, <3>2
  <2> QED BY <2>2, <2>3
<1>4. \A i \in 2..Len(queue') :
        queue'[i].at = queue'[i - 1].at + Weight(queue'[i])
  <2> SUFFICES ASSUME NEW i \in 2..Len(queue')
               PROVE  queue'[i].at = queue'[i - 1].at + Weight(queue'[i])
    OBVIOUS
  <2>1. /\ i + 1 \in 2..Len(queue) /\ (i + 1) - 1 = i
        /\ queue'[i] = queue[i + 1] /\ queue'[i - 1] = queue[i]
    BY <1>1
  <2>2. queue[i + 1].at = queue[(i + 1) - 1].at + Weight(queue[i + 1])
    BY <2>1 DEF StreamInStep
  <2> QED BY <2>1, <2>2
<1>5. fate' = "live" /\ queue' # << >>
        => queue'[Len(queue')].at = Len(produced')
  <2> SUFFICES ASSUME fate = "live", queue' # << >>
               PROVE  queue'[Len(queue')].at = Len(produced)
    OBVIOUS
  <2>1. Len(queue') >= 1 /\ queue'[Len(queue')] = queue[Len(queue)]
    BY <1>1
  <2> QED BY <2>1 DEF StreamInStep
<1>6. \A i \in 1..Len(queue') :
        i + 1 \in 1..Len(queue) /\ queue'[i] = queue[i + 1]
  BY <1>1
<1> QED BY <1>3, <1>4, <1>5, <1>6 DEF StreamInStep

\* And losing the messages after the first n, with the connection.
LEMMA CutInStep ==
  ASSUME TypeOK, StreamInStep, fate' # "live",
         NEW n \in 0..Len(queue), queue' = SubSeq(queue, 1, n),
         handle' = handle, Taken' = Taken,
         proc' = proc, produced' = produced, status' = status
  PROVE  StreamInStep'
<1>1. /\ Len(queue') = n /\ n \in Nat /\ n <= Len(queue)
      /\ \A i \in 1..Len(queue') : queue'[i] = queue[i]
  BY DEF TypeOK
<1>2. ASSUME handle # "dropped", queue' # << >>
      PROVE  queue'[1].at = Len(Taken) + Weight(queue'[1])
  <2>1. queue # << >> /\ queue'[1] = queue[1]
    BY <1>1, <1>2 DEF TypeOK
  <2> QED BY <1>2, <2>1 DEF StreamInStep
<1>3. ASSUME NEW i \in 2..Len(queue')
      PROVE  queue'[i].at = queue'[i - 1].at + Weight(queue'[i])
  <2>1. /\ i \in 2..Len(queue)
        /\ queue'[i] = queue[i] /\ queue'[i - 1] = queue[i - 1]
    BY <1>1
  <2>2. queue[i].at = queue[i - 1].at + Weight(queue[i])
    BY <2>1 DEF StreamInStep
  <2> QED BY <2>1, <2>2
<1>4. \A i \in 1..Len(queue') : i \in 1..Len(queue) /\ queue'[i] = queue[i]
  BY <1>1 DEF TypeOK
<1> QED BY <1>2, <1>3, <1>4 DEF StreamInStep

\* Nothing else disturbs it.
LEMMA RestInStep ==
  ASSUME StreamInStep, UNCHANGED <<proc, produced, status, queue, fate>>,
         handle' # "dropped" => /\ handle # "dropped"
                                /\ Len(Taken') = Len(Taken)
  PROVE  StreamInStep'
BY DEF StreamInStep

LEMMA InStepStep ==
  TypeOK /\ Stages /\ StreamInStep /\ [Next]_vars => StreamInStep'
<1> SUFFICES ASSUME TypeOK, Stages, StreamInStep, [Next]_vars
             PROVE  StreamInStep'
  OBVIOUS
<1>type. TypeOK'
  BY TypeStep
<1> USE DEF server, stream, account
<1>1. CASE Accept
  <2>1. produced = << >> /\ queue = << >> /\ fate = "live" /\ produced' = produced
        /\ Taken' = Taken /\ handle' = handle /\ fate' = fate
    BY <1>1 DEF Accept, Stages, Taken
  <2>2. handle # "dropped" => Len(Taken) = 0
    BY <2>1 DEF StreamInStep
  <2>3. queue' = <<Start>> \/ queue' = <<Silent(0), Start>> \/ queue' = << >>
    BY <1>1 DEF Accept
  <2> QED BY <2>1, <2>2, <2>3 DEF StreamInStep, Start, Silent, Weight
<1>2. CASE Write
  <2>1. CASE fate = "live"
    <3>1. PICK c \in Chunks : /\ produced' = Append(produced, c)
                              /\ queue' = Append(queue, Data(c, Len(produced) + 1))
      BY <1>2, <2>1 DEF Write, Emit
    <3> DEFINE e == Data(c, Len(produced) + 1)
    <3>2. /\ e \in Events /\ e.at = Len(produced) + 1 /\ e.tag = "data"
          /\ e.chunk = c /\ Weight(e) = 1
      BY EventTypes DEF TypeOK, Data, Weight
    <3>3. /\ Len(produced') = Len(produced) + 1
          /\ produced'[Len(produced) + 1] = c
          /\ \A i \in 1..Len(produced) : produced'[i] = produced[i]
      BY <3>1 DEF TypeOK
    <3>4. proc # "exited" /\ Taken' = Taken /\ handle' = handle
      BY <1>2 DEF Write, Taken
    <3> HIDE DEF e
    <3>5. queue' = Append(queue, e)
      BY <3>1 DEF e
    <3> QED BY <1>type, <2>1, <3>2, <3>3, <3>4, <3>5, EmitInStep
  <2>2. CASE fate # "live"
    <3>1. /\ queue' = queue /\ fate' = fate /\ handle' = handle
          /\ Len(Taken') = Len(Taken) /\ proc # "exited"
      BY <1>2, <2>2 DEF Write, Emit, Taken
    <3>2. /\ Len(produced) \in Nat /\ Len(produced') = Len(produced) + 1
          /\ \A i \in 1..Len(produced) : produced'[i] = produced[i]
      BY <1>2 DEF Write, TypeOK
    <3>3. \A i \in 1..Len(queue) :
            /\ queue[i].at <= Len(produced') /\ queue[i].tag # "end"
            /\ queue[i].tag = "data" =>
                 queue[i].at >= 1 /\ queue[i].chunk = produced'[queue[i].at]
      <4> TAKE i \in 1..Len(queue)
      <4>1. queue[i].at \in Nat
        BY EventParts DEF TypeOK
      <4> QED BY <3>1, <3>2, <4>1 DEF StreamInStep
    <3> QED BY <2>2, <3>1, <3>3 DEF StreamInStep
  <2> QED BY <2>1, <2>2
<1>3. CASE KeepAlive
  <2> DEFINE e == Silent(Len(produced))
  <2>1. /\ e \in Events /\ e.at = Len(produced) /\ e.tag = "keepalive"
        /\ Weight(e) = 0
    BY EventTypes DEF TypeOK, Silent, Weight
  <2>2. /\ proc # "exited" /\ Taken' = Taken /\ handle' = handle
        /\ fate = "live" /\ produced' = produced
        /\ Len(produced) = Len(produced) + 0
    BY <1>3 DEF KeepAlive, Taken, TypeOK
  <2>3. queue' = Append(queue, e)
    BY <1>3 DEF KeepAlive, Emit
  <2> HIDE DEF e
  <2> QED BY <1>type, <2>1, <2>2, <2>3, EmitInStep
<1>4. CASE Exit
  <2>1. CASE fate = "live"
    <3>1. PICK s \in Statuses :
            /\ status' = s /\ queue' = Append(queue, End(s, Len(produced)))
      BY <1>4, <2>1 DEF Exit, Emit
    <3> DEFINE e == End(s, Len(produced))
    <3>2. /\ e \in Events /\ e.at = Len(produced) /\ e.tag = "end"
          /\ e.status = s /\ Weight(e) = 0
      BY EventTypes DEF TypeOK, End, Weight
    <3>3. /\ proc # "exited" /\ Taken' = Taken /\ handle' = handle
          /\ produced' = produced /\ Len(produced) = Len(produced) + 0
          /\ proc' = "exited"
      BY <1>4 DEF Exit, Taken, TypeOK
    <3> HIDE DEF e
    <3>4. queue' = Append(queue, e)
      BY <3>1 DEF e
    <3> QED BY <1>type, <2>1, <3>1, <3>2, <3>3, <3>4, EmitInStep
  <2>2. CASE fate # "live"
    <3>1. /\ queue' = queue /\ fate' = fate /\ handle' = handle
          /\ Len(Taken') = Len(Taken) /\ proc # "exited" /\ produced' = produced
      BY <1>4, <2>2 DEF Exit, Emit, Taken
    <3>2. \A i \in 1..Len(queue) : queue[i].tag # "end"
      BY <3>1 DEF StreamInStep
    <3> QED BY <2>2, <3>1, <3>2 DEF StreamInStep
  <2> QED BY <2>1, <2>2
<1>5. CASE Disconnect
  <2>1. PICK n \in 0..Len(queue) : queue' = SubSeq(queue, 1, n)
    BY <1>5 DEF Disconnect
  <2> QED BY <1>5, <2>1, CutInStep DEF Disconnect, Taken
<1>6. CASE DriverTakesOutput
  <2>1. /\ pend = << >> /\ Len(pend) = 0 /\ Len(pend') = 1
        /\ Len(popped') = Len(popped) /\ Len(chan') = Len(chan)
    BY <1>6 DEF DriverTakesOutput, Stages
  <2>2. Len(Taken') = Len(Taken) + 1
    <3>1. Len(Taken) = Len(popped) + Len(chan) + Len(pend)
      BY TakenLength
    <3>2. Len(Taken') = Len(popped') + Len(chan') + Len(pend')
      BY <1>type, TakenLengthNext
    <3> QED BY <2>1, <3>1, <3>2 DEF TypeOK
  <2>3. queue # << >> /\ queue' = Tail(queue) /\ Weight(queue[1]) = 1
    BY <1>6, HeadTail DEF DriverTakesOutput, TakeMessage, Weight, TypeOK
  <2> QED
    BY <1>6, <1>type, <2>2, <2>3, TakeInStep DEF DriverTakesOutput
<1>7. CASE \/ OpenStarts \/ OpenSkips \/ DriverSkips
           \/ DriverReplies /\ queue' = Tail(queue) /\ queue # << >>
              /\ Head(queue).tag = "end"
  <2>1. /\ queue # << >> /\ queue' = Tail(queue)
        /\ Head(queue).tag \in {"start", "keepalive", "end"}
        /\ handle' # "dropped" => handle # "dropped"
        /\ UNCHANGED <<proc, produced, status, fate, popped, chan, pend>>
    <3>1. CASE OpenStarts
      BY <3>1 DEF OpenStarts, Yields, TakeMessage, Start
    <3>2. CASE OpenSkips
      BY <3>2 DEF OpenSkips, Yields, TakeMessage, Silent
    <3>3. CASE DriverSkips
      BY <3>3 DEF DriverSkips, TakeMessage
    <3>4. CASE /\ DriverReplies /\ queue' = Tail(queue) /\ queue # << >>
               /\ Head(queue).tag = "end"
      BY <3>4 DEF DriverReplies
    <3> QED BY <1>7, <3>1, <3>2, <3>3, <3>4
  <2>2. Weight(queue[1]) = 0
    BY <2>1, HeadTail DEF Weight, TypeOK
  <2>3. Len(Taken') = Len(Taken) + 0
    BY <2>1, TakenLength DEF Taken, TypeOK
  <2> QED BY <1>type, <2>1, <2>2, <2>3, TakeInStep
<1>8. CASE DriverSends \/ HandleNext \/ WaitDrains
  <2>1. handle # "dropped" => Taken' = Taken
    BY <1>8, MoveKeepsTaken
  <2>2. handle' = handle /\ UNCHANGED <<proc, produced, status, queue, fate>>
    BY <1>8 DEF DriverSends, HandleNext, WaitDrains
  <2> QED BY <2>1, <2>2, RestInStep
<1>9. CASE HandleDrop
  BY <1>9, RestInStep DEF HandleDrop
<1>10. CASE \/ OpenFails \/ OpenRefuses \/ DriverFinishes \/ DriverAborts
            \/ HandleWait \/ WaitReturns \/ UNCHANGED vars
            \/ DriverReplies /\ UNCHANGED queue
  <2>1. /\ UNCHANGED <<proc, produced, status, queue, fate>>
        /\ handle' # "dropped" => handle # "dropped"
        /\ Taken' = Taken
    BY <1>10 DEF OpenFails, OpenRefuses, DriverFinishes, DriverAborts,
                 HandleWait, WaitReturns, DriverReplies, vars, Taken
  <2> QED BY <2>1, RestInStep
<1>11. DriverReplies => \/ queue' = Tail(queue) /\ queue # << >>
                           /\ Head(queue).tag = "end"
                        \/ UNCHANGED queue
  BY DEF DriverReplies, Outcome, TakeMessage
<1> QED
  BY <1>1, <1>2, <1>3, <1>4, <1>5, <1>6, <1>7, <1>8, <1>9, <1>10, <1>11
  DEF Next, Envd, Open, Driver, Caller

-----------------------------------------------------------------------------
LEMMA EarnedStep ==
  TypeOK /\ Stages /\ StreamInStep /\ Earned /\ [Next]_vars => Earned'
<1> SUFFICES ASSUME TypeOK, Stages, StreamInStep, Earned, [Next]_vars
             PROVE  Earned'
  OBVIOUS
<1>type. TypeOK'
  BY TypeStep
<1> USE DEF server, stream, account
<1> DEFINE Same == /\ UNCHANGED <<reply, outcome>>
                   /\ proc = "exited" => UNCHANGED <<proc, status, produced>>
                   /\ driver = "finished" => driver' = "finished"
                   /\ outcome # None => handle' = handle /\ chan' = chan
                   /\ Reported(reply) /\ handle' # "dropped" =>
                        handle # "dropped" /\ Len(Taken') = Len(Taken)
<1>same. ASSUME Same PROVE Earned'
  BY <1>same DEF Earned, Reported
<1>1. CASE DriverReplies
  <2>1. ASSUME Reported(reply')
        PROVE  /\ proc = "exited" /\ reply'.code = status.code
               /\ reply'.err = status.err
               /\ handle # "dropped" => Len(Taken) = Len(produced)
    <3>1. /\ queue # << >> /\ Head(queue) = queue[1] /\ queue[1].tag = "end"
          /\ reply'.code = queue[1].status.code
          /\ reply'.err = queue[1].status.err
      BY <1>1, <2>1, HeadTail DEF DriverReplies, Outcome, Ok, Reported, TypeOK
    <3>2. /\ 1 \in 1..Len(queue) /\ Weight(queue[1]) = 0
          /\ Len(Taken) \in Nat
      BY <3>1, HeadTail, TakenLength DEF TypeOK, Weight
    <3>3. /\ proc = "exited" /\ queue[1].status = status
          /\ queue[1].at = Len(produced)
          /\ handle # "dropped" => queue[1].at = Len(Taken) + Weight(queue[1])
      BY <3>1, <3>2 DEF StreamInStep
    <3> QED BY <3>1, <3>2, <3>3
  <2>2. outcome = None
    BY <1>1 DEF DriverReplies, Earned
  <2>3. /\ UNCHANGED <<proc, produced, status, handle, outcome>>
        /\ Taken' = Taken
    BY <1>1 DEF DriverReplies, Taken
  <2>4. ASSUME reply'.kind = "ok", reply'.err = "closed" PROVE reply'.code = 0
    <3>1. ASSUME queue # << >>, Head(queue).tag = "end",
                 reply'.err = Head(queue).status.err
          PROVE  FALSE
      <4>1. Head(queue).status \in [code : Int, err : {"none", "reported"}]
        BY <3>1, EventParts, HeadTail, StatusesAssumption DEF TypeOK
      <4> QED BY <2>4, <3>1, <4>1
    <3> QED BY <1>1, <2>4, <3>1 DEF DriverReplies, Outcome, Ok
  <2> QED BY <2>1, <2>2, <2>3, <2>4 DEF Earned, Reported
<1>2. CASE WaitReturns
  <2>1. driver = "finished" /\ reply # None
    BY <1>2 DEF WaitReturns, SenderGone, Stages
  <2>2. /\ outcome' = reply /\ handle' = "returned" /\ chan' = << >>
        /\ UNCHANGED <<proc, produced, status, driver, reply>>
        /\ Taken' = Taken /\ handle # "dropped"
    BY <1>2, <2>1 DEF WaitReturns, Taken
  <2> QED BY <2>1, <2>2 DEF Earned, Reported
<1>3. CASE DriverTakesOutput
  <2>1. driver = "polling" /\ reply = None
    BY <1>3 DEF DriverTakesOutput, Stages
  <2>2. ~ Reported(reply) /\ outcome = None
    BY <2>1 DEF Reported, None, Earned
  <2> QED BY <1>3, <2>1, <2>2, <1>same DEF DriverTakesOutput
<1>4. CASE DriverSends \/ HandleNext \/ WaitDrains
  <2>1. handle # "dropped" => Taken' = Taken
    BY <1>4, MoveKeepsTaken
  <2>2. /\ handle' = handle /\ outcome = None
        /\ UNCHANGED <<proc, produced, status, reply, outcome>>
        /\ driver = "finished" => driver' = "finished"
    BY <1>4 DEF DriverSends, HandleNext, WaitDrains, Earned
  <2> QED BY <2>1, <2>2, <1>same
<1>5. CASE HandleDrop
  <2>1. outcome = None
    BY <1>5 DEF HandleDrop, Earned
  <2> QED BY <1>5, <2>1, <1>same DEF HandleDrop
<1>6. CASE Envd
  <2>1. /\ UNCHANGED <<reply, outcome, driver, handle, chan>>
        /\ proc = "exited" => UNCHANGED <<proc, status, produced>>
        /\ Taken' = Taken
    BY <1>6 DEF Envd, Accept, Write, KeepAlive, Exit, Disconnect, Taken
  <2> QED BY <2>1, <1>same
<1>7. CASE \/ Open \/ DriverSkips \/ DriverFinishes \/ DriverAborts
           \/ HandleWait \/ UNCHANGED vars
  <2>1. /\ UNCHANGED <<proc, produced, status, reply, outcome, chan>>
        /\ Taken' = Taken
        /\ driver = "finished" => driver' = "finished"
        /\ handle' # "dropped" => handle # "dropped"
        /\ outcome # None => handle' = handle
    BY <1>7 DEF Open, OpenFails, OpenStarts, OpenSkips, OpenRefuses,
                DriverSkips, DriverFinishes, DriverAborts, HandleWait, vars,
                Taken, Earned, Stages
  <2> QED BY <2>1, <1>same
<1> QED
  BY <1>1, <1>2, <1>3, <1>4, <1>5, <1>6, <1>7
  DEF Next, Driver, Caller

-----------------------------------------------------------------------------
(* Induction, by < being well-founded on Nat; and OfKind, which needs it.  *)

LEMMA LeastExists ==
  ASSUME NEW T, T \subseteq Nat, T # {}
  PROVE  \E x \in T : \A y \in T : x <= y
<1> DEFINE Less == OpToRel(<, Nat)
<1>1. IsWellFoundedOn(Less, Nat)
  BY NatLessThanWellFounded
<1>2. \A x, y \in Nat : y < x => <<y, x>> \in Less
  BY DEF OpToRel
<1> HIDE DEF Less
<1>3. PICK x \in T : \A y \in T : ~ (<<y, x>> \in Less)
  BY <1>1, WFMin
<1>4. \A y \in T : ~ (y < x)
  BY <1>2, <1>3
<1> QED BY <1>4

LEMMA InductionOnSet ==
  ASSUME NEW S, NEW m \in Nat, 0 \in S,
         \A n \in 0..m : n \in S /\ n < m => n + 1 \in S
  PROVE  \A n \in 0..m : n \in S
<1> SUFFICES ASSUME NEW k \in 0..m, k \notin S PROVE FALSE
  OBVIOUS
<1>1. PICK x \in 0..m \ S : \A y \in 0..m \ S : x <= y
  <2>1. 0..m \ S \subseteq Nat /\ 0..m \ S # {}
    OBVIOUS
  <2> QED BY <2>1, LeastExists
<1>2. x - 1 \in 0..m /\ x - 1 \in S
  BY <1>1
<1> QED BY <1>1, <1>2

\* One turn of OfKind's recursion.
Kept(l, c, k) == IF c.kind = k THEN Append(l, c) ELSE l

IsChain(u, s, k) == /\ u \in [0..Len(s) -> Seq(Chunks)]
                    /\ u[0] = << >>
                    /\ \A n \in 0..Len(s) - 1 : u[n + 1] = Kept(u[n], s[n + 1], k)

LEMMA KeptType ==
  ASSUME NEW l \in Seq(Chunks), NEW c \in Chunks, NEW k
  PROVE  Kept(l, c, k) \in Seq(Chunks)
BY DEF Kept

LEMMA ChainExists ==
  ASSUME NEW s \in Seq(Chunks), NEW k
  PROVE  \E u : IsChain(u, s, k)
<1> DEFINE Upto(n, u) == /\ u \in [0..n -> Seq(Chunks)] /\ u[0] = << >>
                         /\ \A j \in 0..n - 1 : u[j + 1] = Kept(u[j], s[j + 1], k)
           S == {n \in 0..Len(s) : \E u : Upto(n, u)}
<1>0. Len(s) \in Nat
  OBVIOUS
<1>1. 0 \in S
  <2>1. Upto(0, [n \in 0..0 |-> << >>])
    OBVIOUS
  <2> HIDE DEF Upto
  <2> QED BY <1>0, <2>1
<1>2. ASSUME NEW n \in 0..Len(s), n \in S, n < Len(s)
      PROVE  n + 1 \in S
  <2>1. PICK u : Upto(n, u)
    BY <1>2
  <2> DEFINE next == Kept(u[n], s[n + 1], k)
             v == [j \in 0..n + 1 |-> IF j = n + 1 THEN next ELSE u[j]]
  <2>2. next \in Seq(Chunks)
    <3>1. u[n] \in Seq(Chunks) /\ s[n + 1] \in Chunks
      BY <1>2, <2>1
    <3> QED BY <3>1, KeptType
  <2> HIDE DEF next
  <2>3. v \in [0..n + 1 -> Seq(Chunks)] /\ v[0] = << >> /\ v[n + 1] = next
        /\ \A j \in 0..n : v[j] = u[j]
    <3>1. n \in Nat /\ 0 \in 0..n
      BY <1>0, <1>2
    <3>2. v[n + 1] = next /\ \A j \in 0..n : v[j] = u[j]
      BY <3>1
    <3>3. v \in [0..n + 1 -> Seq(Chunks)]
      BY <2>1, <2>2, <3>1
    <3> QED BY <2>1, <3>1, <3>2, <3>3
  <2>4. ASSUME NEW j \in 0..n PROVE v[j + 1] = Kept(v[j], s[j + 1], k)
    <3>1. CASE j = n
      BY <2>3, <3>1 DEF next
    <3>2. CASE j # n
      <4>1. j \in 0..n - 1 /\ j + 1 \in 0..n
        BY <3>2, <1>2
      <4> QED BY <2>1, <2>3, <4>1
    <3> QED BY <3>1, <3>2
  <2>5. Upto(n + 1, v)
    <3>1. (n + 1) - 1 = n
      BY <1>0
    <3> HIDE DEF v
    <3> QED BY <2>3, <2>4, <3>1
  <2> HIDE DEF v, Upto
  <2> QED BY <1>0, <1>2, <2>5
<1>3. Len(s) \in S
  <2> HIDE DEF S
  <2>1. \A n \in 0..Len(s) : n \in S
    BY <1>0, <1>1, <1>2, InductionOnSet
  <2> QED BY <1>0, <2>1
<1> QED BY <1>3 DEF IsChain

\* Chains over sequences that begin alike begin alike.
LEMMA ChainsAgree ==
  ASSUME NEW s \in Seq(Chunks), NEW t \in Seq(Chunks), NEW k, NEW u, NEW v,
         IsChain(u, s, k), IsChain(v, t, k), NEW m \in Nat, m <= Len(s), m <= Len(t),
         \A n \in 1..m : s[n] = t[n]
  PROVE  u[m] = v[m]
<1> DEFINE S == {n \in 0..m : u[n] = v[n]}
<1>1. 0 \in S
  BY DEF IsChain
<1>2. ASSUME NEW n \in 0..m, n \in S, n < m PROVE n + 1 \in S
  <2>1. n \in 0..Len(s) - 1 /\ n \in 0..Len(t) - 1 /\ n + 1 \in 1..m /\ n + 1 \in 0..m
    BY <1>2
  <2>2. u[n + 1] = Kept(u[n], s[n + 1], k) /\ v[n + 1] = Kept(v[n], t[n + 1], k)
    BY <2>1 DEF IsChain
  <2>3. s[n + 1] = t[n + 1]
    BY <2>1
  <2>4. u[n] = v[n]
    BY <1>2
  <2>5. u[n + 1] = v[n + 1]
    BY <2>2, <2>3, <2>4
  <2> QED BY <2>1, <2>5
<1>3. \A n \in 0..m : n \in S
  <2> HIDE DEF S
  <2> QED BY <1>1, <1>2, InductionOnSet
<1>4. m \in S
  BY <1>3
<1> QED BY <1>4

\* OfKind is the last link of a chain.
LEMMA KindOfChain ==
  ASSUME NEW s \in Seq(Chunks), NEW k
  PROVE  \E u : IsChain(u, s, k) /\ OfKind(s, k) = u[Len(s)]
<1> DEFINE F(u) == [n \in 0..Len(s) |->
                      IF n = 0 THEN << >>
                      ELSE IF s[n].kind = k THEN Append(u[n - 1], s[n]) ELSE u[n - 1]]
           c == CHOOSE u : u = F(u)
<1>0. Len(s) \in Nat
  OBVIOUS
<1>1. PICK u : IsChain(u, s, k)
  BY ChainExists
<1>2. u = F(u)
  <2>1. ASSUME NEW n \in 0..Len(s) PROVE u[n] = F(u)[n]
    <3>1. CASE n = 0
      BY <1>0, <1>1, <3>1 DEF IsChain
    <3>2. CASE n # 0
      <4>1. n - 1 \in 0..Len(s) - 1 /\ (n - 1) + 1 = n
        BY <1>0, <3>2
      <4>2. u[n] = Kept(u[n - 1], s[n], k)
        BY <1>1, <4>1 DEF IsChain
      <4> QED BY <3>2, <4>2 DEF Kept
    <3> QED BY <3>1, <3>2
  <2> QED BY <1>1, <2>1 DEF IsChain
<1>3. c = F(c)
  BY <1>2
<1>4. c = u
  <2> DEFINE S == {n \in 0..Len(s) : c[n] = u[n]}
  <2> HIDE DEF c
  <2>1. 0 \in S
    BY <1>0, <1>1, <1>3 DEF IsChain
  <2>2. ASSUME NEW n \in 0..Len(s), n \in S, n < Len(s) PROVE n + 1 \in S
    <3>0. n + 1 \in 0..Len(s) /\ n + 1 # 0 /\ (n + 1) - 1 = n /\ n \in 0..Len(s) - 1
      BY <1>0, <2>2
    <3>1. c[n + 1] = Kept(c[n], s[n + 1], k)
      BY <3>0, <1>3 DEF Kept
    <3>2. u[n + 1] = Kept(u[n], s[n + 1], k)
      BY <3>0, <1>1 DEF IsChain
    <3>3. c[n] = u[n]
      BY <2>2
    <3>4. c[n + 1] = u[n + 1]
      BY <3>1, <3>2, <3>3
    <3> QED BY <3>0, <3>4
  <2>3. \A n \in 0..Len(s) : n \in S
    <3> HIDE DEF S
    <3> QED BY <1>0, <2>1, <2>2, InductionOnSet
  <2> QED BY <2>3, <1>1, <1>3 DEF IsChain
<1>5. OfKind(s, k) = c[Len(s)]
  BY DEF OfKind
<1> HIDE DEF c
<1> QED BY <1>1, <1>4, <1>5

LEMMA OfKindAppended ==
  ASSUME NEW s \in Seq(Chunks), NEW c \in Chunks, NEW k
  PROVE  OfKind(Append(s, c), k) = Kept(OfKind(s, k), c, k)
<1> DEFINE t == Append(s, c)
<1>1. t \in Seq(Chunks) /\ Len(t) = Len(s) + 1 /\ t[Len(s) + 1] = c /\ Len(s) \in Nat
      /\ \A n \in 1..Len(s) : s[n] = t[n]
  OBVIOUS
<1> HIDE DEF t
<1>2. PICK u : IsChain(u, s, k) /\ OfKind(s, k) = u[Len(s)]
  BY KindOfChain
<1>3. PICK v : IsChain(v, t, k) /\ OfKind(t, k) = v[Len(t)]
  BY <1>1, KindOfChain
<1>4. u[Len(s)] = v[Len(s)]
  BY <1>1, <1>2, <1>3, ChainsAgree
<1>5. v[Len(t)] = Kept(v[Len(s)], c, k)
  <2>1. Len(s) \in 0..Len(t) - 1
    BY <1>1
  <2> QED BY <1>1, <2>1, <1>3 DEF IsChain
<1> QED BY <1>2, <1>3, <1>4, <1>5 DEF t

-----------------------------------------------------------------------------
(* The result.                                                             *)

LEMMA Fronts ==
  ASSUME NEW s \in Seq(Chunks)
  PROVE  /\ SubSeq(s, 1, Len(s)) = s
         /\ \A n \in 0..Len(s) : SubSeq(s, 1, n) \in Seq(Chunks)
         /\ \A n \in 0..Len(s) - 1 :
              SubSeq(s, 1, n + 1) = Append(SubSeq(s, 1, n), s[n + 1])
<1>1. SubSeq(s, 1, Len(s)) = s
  OBVIOUS
<1>2. \A n \in 0..Len(s) : SubSeq(s, 1, n) \in Seq(Chunks)
  OBVIOUS
<1>3. ASSUME NEW n \in 0..Len(s) - 1
      PROVE  SubSeq(s, 1, n + 1) = Append(SubSeq(s, 1, n), s[n + 1])
  OBVIOUS
<1> QED BY <1>1, <1>2, <1>3

LEMMA FrontOfAppended ==
  ASSUME NEW s \in Seq(Chunks), NEW c \in Chunks, NEW n \in 0..Len(s)
  PROVE  SubSeq(Append(s, c), 1, n) = SubSeq(s, 1, n)
OBVIOUS

\* Nothing has been written: nothing has been accounted for.
LEMMA AccountsForNone ==
  ASSUME TypeOK, Stages, InAccount, proc = "absent"
  PROVE  Accounted(0)
<1>1. produced = << >> /\ queue = << >> /\ fate = "live"
  BY DEF Stages
<1>2. Len(produced) = 0
  BY <1>1
<1> QED BY <1>1, <1>2 DEF InAccount

\* A step that writes nothing and appends an event of no weight to a live stream.
LEMMA EmitInAccount ==
  ASSUME TypeOK, StreamInStep, InAccount, NEW e \in Events, Weight(e) = 0,
         fate = "live", e.at = Len(produced), queue' = Append(queue, e),
         UNCHANGED <<produced, stdout, stderr, reply>>
  PROVE  InAccount'
<1>1. queue \in Seq(Events) /\ Len(produced) \in Nat
  BY DEF TypeOK
<1>2. queue' # << >> /\ queue'[1] = IF queue = << >> THEN e ELSE queue[1]
  BY <1>1
<1>3. CASE queue = << >>
  <2>1. Accounted(Len(produced))
    BY <1>3 DEF InAccount
  <2>2. queue'[1].at - Weight(queue'[1]) = Len(produced)
    BY <1>1, <1>2, <1>3
  <2> QED BY <1>2, <2>1, <2>2 DEF InAccount, Accounted, Reported
<1>4. CASE queue # << >>
  <2>1. queue'[1] = queue[1] /\ Accounted(queue[1].at - Weight(queue[1]))
    BY <1>2, <1>4 DEF InAccount
  <2> QED BY <1>2, <2>1 DEF InAccount, Accounted, Reported
<1> QED BY <1>3, <1>4

\* Taking a message moves the account on by what the message carries.
LEMMA TakeInAccount ==
  ASSUME TypeOK, StreamInStep, InAccount, queue # << >>, queue' = Tail(queue),
         stdout' = OfKind(SubSeq(produced, 1, queue[1].at), "stdout"),
         stderr' = OfKind(SubSeq(produced, 1, queue[1].at), "stderr"),
         UNCHANGED <<produced, fate>>,
         Reported(reply') => /\ reply'.stdout = OfKind(produced, "stdout")
                             /\ reply'.stderr = OfKind(produced, "stderr")
  PROVE  InAccount'
<1>1. /\ queue' \in Seq(Events) /\ Len(queue') = Len(queue) - 1
      /\ Len(queue) \in Nat /\ Len(queue) >= 1
      /\ \A i \in 1..Len(queue') : queue'[i] = queue[i + 1]
  BY HeadTail DEF TypeOK
<1>2. ASSUME queue' # << >> PROVE Accounted(queue[1].at - Weight(queue[1]))'
  <2>1. Len(queue') >= 1
    BY <1>1, <1>2
  <2>2. 2 \in 2..Len(queue) /\ queue'[1] = queue[2] /\ 1 \in 1..Len(queue) /\ 2 - 1 = 1
    BY <1>1, <2>1
  <2>3. queue[2].at = queue[1].at + Weight(queue[2])
    BY <2>2 DEF StreamInStep
  <2>4. queue[1].at \in Nat /\ Weight(queue[2]) \in Nat
    BY <1>1, <2>2, EventParts DEF TypeOK, Weight
  <2>5. queue'[1].at - Weight(queue'[1]) = queue[1].at
    BY <2>2, <2>3, <2>4
  <2> QED BY <2>5 DEF Accounted
<1>3. ASSUME fate = "live", queue' = << >> PROVE Accounted(Len(produced))'
  <2>1. Len(queue) = 1
    <3>1. Len(queue') = 0
      <4>1. queue' \in Seq(Events) /\ queue' = << >>
        BY <1>1, <1>3
      <4> QED BY ONLY <4>1
    <3> QED BY <1>1, <3>1
  <2>2. queue[1].at = Len(produced)
    BY <1>3, <2>1 DEF StreamInStep
  <2> QED BY <2>2 DEF Accounted
<1> QED BY <1>2, <1>3 DEF InAccount, Reported

\* A message that carries no output leaves the account as it is.
LEMMA SkipInAccount ==
  ASSUME TypeOK, InAccount, queue # << >>, Weight(queue[1]) = 0
  PROVE  /\ stdout = OfKind(SubSeq(produced, 1, queue[1].at), "stdout")
         /\ stderr = OfKind(SubSeq(produced, 1, queue[1].at), "stderr")
<1>1. queue[1].at \in Nat
  BY EventParts, HeadTail DEF TypeOK
<1>2. queue[1].at - Weight(queue[1]) = queue[1].at
  BY <1>1
<1>3. Accounted(queue[1].at - Weight(queue[1]))
  BY DEF InAccount
<1> QED BY <1>2, <1>3 DEF Accounted

LEMMA InAccountStep ==
  TypeOK /\ Stages /\ StreamInStep /\ Earned /\ InAccount /\ [Next]_vars => InAccount'
<1> SUFFICES ASSUME TypeOK, Stages, StreamInStep, Earned, InAccount, [Next]_vars
             PROVE  InAccount'
  OBVIOUS
<1> USE DEF server, stream, account
<1>type. queue \in Seq(Events) /\ produced \in Seq(Chunks) /\ Len(produced) \in Nat
  BY DEF TypeOK
<1>1. CASE Accept
  <2>1. Accounted(0)
    BY <1>1, AccountsForNone DEF Accept
  <2>2. /\ UNCHANGED <<produced, fate, stdout, stderr, reply>> /\ ~ Reported(reply)
        /\ produced = << >>
    BY <1>1 DEF Accept, Stages, Earned
  <2>3. queue' # << >> => queue'[1].at - Weight(queue'[1]) = 0
    BY <1>1 DEF Accept, Start, Silent, Weight
  <2>4. Len(produced) = 0
    BY <2>2
  <2> QED BY <2>1, <2>2, <2>3, <2>4 DEF InAccount, Accounted, Reported
<1>2. CASE Write
  <2>1. PICK c \in Chunks : /\ produced' = Append(produced, c)
                            /\ Emit(Data(c, Len(produced) + 1))
    BY <1>2 DEF Write
  <2>2. /\ UNCHANGED <<fate, stdout, stderr, reply>> /\ ~ Reported(reply)
    BY <1>2 DEF Write, Earned
  <2>3. Len(produced') = Len(produced) + 1
    BY <2>1, <1>type
  <2>4. ASSUME NEW n \in 0..Len(produced), Accounted(n)
        PROVE  /\ stdout' = OfKind(SubSeq(produced', 1, n), "stdout")
               /\ stderr' = OfKind(SubSeq(produced', 1, n), "stderr")
    BY <2>1, <2>2, <2>4, <1>type, FrontOfAppended DEF Accounted
  <2>5. ASSUME queue # << >>
        PROVE  /\ queue[1].at - Weight(queue[1]) \in 0..Len(produced)
               /\ Accounted(queue[1].at - Weight(queue[1]))
    <3>1. queue[1] \in Events /\ 1 \in 1..Len(queue)
      BY <2>5, <1>type
    <3>2. /\ queue[1].at \in Nat /\ queue[1].at <= Len(produced)
          /\ queue[1].tag = "data" => queue[1].at >= 1
      BY <3>1, EventParts DEF StreamInStep
    <3>3. queue[1].at - Weight(queue[1]) \in 0..Len(produced)
      BY <3>2, <1>type DEF Weight
    <3> QED BY <2>5, <3>3 DEF InAccount
  <2>6. CASE fate # "live"
    <3>1. queue' = queue
      BY <2>1, <2>6 DEF Emit
    <3> QED BY <2>2, <2>4, <2>5, <2>6, <3>1 DEF InAccount, Reported, Accounted
  <2>7. CASE fate = "live" /\ queue # << >>
    <3>1. queue' # << >> /\ queue'[1] = queue[1]
      BY <2>1, <2>7, <1>type DEF Emit
    <3> QED BY <2>2, <2>4, <2>5, <2>7, <3>1 DEF InAccount, Reported, Accounted
  <2>8. CASE fate = "live" /\ queue = << >>
    <3>1. queue' # << >> /\ queue'[1] = Data(c, Len(produced) + 1)
      BY <2>1, <2>8, <1>type DEF Emit
    <3>2. queue'[1].at - Weight(queue'[1]) = Len(produced)
      BY <3>1, <1>type DEF Data, Weight
    <3>3. Accounted(Len(produced)) /\ Len(produced) \in 0..Len(produced)
      BY <2>8, <1>type DEF InAccount
    <3>4. /\ stdout' = OfKind(SubSeq(produced', 1, Len(produced)), "stdout")
          /\ stderr' = OfKind(SubSeq(produced', 1, Len(produced)), "stderr")
      BY <2>4, <3>3
    <3>5. Accounted(queue[1].at - Weight(queue[1]))'
      BY <3>2, <3>4 DEF Accounted
    <3> QED BY <2>2, <3>1, <3>5 DEF InAccount, Reported
  <2> QED BY <2>6, <2>7, <2>8
<1>3. CASE KeepAlive
  <2>1. Silent(Len(produced)) \in Events /\ Weight(Silent(Len(produced))) = 0
        /\ Silent(Len(produced)).at = Len(produced)
    BY <1>type, EventTypes DEF Silent, Weight
  <2> QED BY <1>3, <2>1, EmitInAccount DEF KeepAlive, Emit
<1>4. CASE Exit
  <2>1. PICK st \in Statuses : Emit(End(st, Len(produced)))
    BY <1>4 DEF Exit
  <2>2. /\ fate' # "live" /\ ~ Reported(reply)
        /\ UNCHANGED <<produced, stdout, stderr, reply>>
    BY <1>4 DEF Exit, Earned
  <2>3. CASE fate # "live"
    BY <2>1, <2>2, <2>3 DEF Emit, InAccount, Accounted, Reported
  <2>4. CASE fate = "live"
    <3> DEFINE e == End(st, Len(produced))
    <3>1. e \in Events /\ Weight(e) = 0 /\ e.at = Len(produced)
      BY <1>type, EventTypes DEF End, Weight
    <3>2. queue' = Append(queue, e)
      BY <2>1, <2>4 DEF Emit
    <3> HIDE DEF e
    <3> QED BY <2>2, <2>4, <3>1, <3>2, EmitInAccount
  <2> QED BY <2>3, <2>4
<1>5. CASE Disconnect
  <2>1. PICK n \in 0..Len(queue) : queue' = SubSeq(queue, 1, n)
    BY <1>5 DEF Disconnect
  <2>2. queue' # << >> => queue # << >> /\ queue'[1] = queue[1]
    BY <2>1, <1>type
  <2>3. fate' # "live" /\ UNCHANGED <<produced, stdout, stderr, reply>>
    BY <1>5 DEF Disconnect
  <2> QED BY <2>2, <2>3 DEF InAccount, Accounted, Reported
<1>6. CASE OpenStarts \/ OpenSkips \/ DriverSkips
  <2>1. /\ queue # << >> /\ queue' = Tail(queue) /\ queue[1].tag # "data"
        /\ UNCHANGED <<produced, fate, stdout, stderr, reply>>
    <3>1. /\ queue # << >> /\ queue' = Tail(queue)
          /\ UNCHANGED <<produced, fate, stdout, stderr, reply>>
      BY <1>6 DEF OpenStarts, OpenSkips, DriverSkips, Yields, TakeMessage
    <3>2. Head(queue) = queue[1]
      BY <3>1, <1>type
    <3>3. Head(queue).tag # "data"
      <4>1. Start.tag # "data" /\ \A k : Silent(k).tag # "data"
        BY DEF Start, Silent
      <4>2. ASSUME OpenStarts \/ OpenSkips PROVE \/ Head(queue) = Start
                                                \/ \E k : Head(queue) = Silent(k)
        BY <4>2 DEF OpenStarts, OpenSkips, Yields
      <4>3. DriverSkips => Head(queue).tag # "data"
        BY DEF DriverSkips
      <4> QED BY <1>6, <4>1, <4>2, <4>3
    <3> QED BY <3>1, <3>2, <3>3
  <2>2. Weight(queue[1]) = 0
    BY <2>1 DEF Weight
  <2> QED BY <2>1, <2>2, SkipInAccount, TakeInAccount DEF InAccount, Reported
<1>7. CASE DriverTakesOutput
  <2> DEFINE c == queue[1].chunk
             n == queue[1].at - 1
  <2>1. /\ queue # << >> /\ queue' = Tail(queue) /\ queue[1].tag = "data"
        /\ stdout' = (IF c.kind = "stdout" THEN Append(stdout, c) ELSE stdout)
        /\ stderr' = (IF c.kind = "stderr" THEN Append(stderr, c) ELSE stderr)
        /\ UNCHANGED <<produced, fate, reply>>
    BY <1>7, HeadTail DEF DriverTakesOutput, TakeMessage, TypeOK
  <2>2. 1 \in 1..Len(queue) /\ queue[1].at \in Nat /\ c \in Chunks
    BY <2>1, EventParts, HeadTail DEF TypeOK
  <2>3. queue[1].at >= 1 /\ queue[1].at <= Len(produced) /\ c = produced[queue[1].at]
    BY <2>1, <2>2 DEF StreamInStep
  <2>4. n \in 0..Len(produced) - 1 /\ n + 1 = queue[1].at /\ Weight(queue[1]) = 1
    BY <2>1, <2>2, <2>3, <1>type DEF Weight
  <2>5. Accounted(n)
    BY <2>1, <2>4 DEF InAccount
  <2>6. /\ SubSeq(produced, 1, n) \in Seq(Chunks)
        /\ SubSeq(produced, 1, queue[1].at) = Append(SubSeq(produced, 1, n), c)
    <3>1. n \in 0..Len(produced)
      BY <2>4, <1>type
    <3>2. SubSeq(produced, 1, n + 1) = Append(SubSeq(produced, 1, n), produced[n + 1])
      BY <2>4, <1>type, Fronts
    <3> QED BY <2>3, <2>4, <3>1, <3>2, <1>type, Fronts
  <2> HIDE DEF c, n
  <2>7. /\ stdout' = OfKind(SubSeq(produced, 1, queue[1].at), "stdout")
        /\ stderr' = OfKind(SubSeq(produced, 1, queue[1].at), "stderr")
    <3> DEFINE s == SubSeq(produced, 1, n)
    <3>1. stdout = OfKind(s, "stdout") /\ stderr = OfKind(s, "stderr")
      BY <2>5 DEF Accounted
    <3>2. s \in Seq(Chunks) /\ SubSeq(produced, 1, queue[1].at) = Append(s, c)
      BY <2>6
    <3> HIDE DEF s
    <3>3. /\ OfKind(Append(s, c), "stdout") = Kept(OfKind(s, "stdout"), c, "stdout")
          /\ OfKind(Append(s, c), "stderr") = Kept(OfKind(s, "stderr"), c, "stderr")
      BY <2>2, <3>2, OfKindAppended
    <3>4. stdout' = Kept(stdout, c, "stdout") /\ stderr' = Kept(stderr, c, "stderr")
      BY <2>1 DEF Kept
    <3> QED BY <3>1, <3>2, <3>3, <3>4
  <2> QED BY <2>1, <2>7, TakeInAccount DEF InAccount, Reported
<1>8. CASE DriverReplies
  <2>1. UNCHANGED <<produced, fate, stdout, stderr>>
    BY <1>8 DEF DriverReplies
  <2>2. CASE /\ queue # << >> /\ Head(queue).tag = "end" /\ TakeMessage
             /\ reply' = Ok(Head(queue).status.code, Head(queue).status.err)
    <3>1. queue[1].tag = "end" /\ 1 \in 1..Len(queue) /\ queue' = Tail(queue)
      BY <2>2, HeadTail DEF TakeMessage, TypeOK
    <3>2. Weight(queue[1]) = 0 /\ queue[1].at = Len(produced)
      BY <3>1 DEF Weight, StreamInStep
    <3>3. /\ stdout = OfKind(SubSeq(produced, 1, queue[1].at), "stdout")
          /\ stderr = OfKind(SubSeq(produced, 1, queue[1].at), "stderr")
      BY <2>2, <3>2, SkipInAccount
    <3>4. stdout = OfKind(produced, "stdout") /\ stderr = OfKind(produced, "stderr")
      BY <3>2, <3>3, <1>type, Fronts
    <3>5. reply'.stdout = stdout /\ reply'.stderr = stderr
      BY <2>2 DEF Ok
    <3> QED BY <2>1, <2>2, <3>1, <3>3, <3>4, <3>5, TakeInAccount
  <2>3. CASE UNCHANGED queue /\ ~ Reported(reply')
    BY <2>1, <2>3 DEF InAccount, Accounted
  <2>4. \/ /\ queue # << >> /\ Head(queue).tag = "end" /\ TakeMessage
           /\ reply' = Ok(Head(queue).status.code, Head(queue).status.err)
        \/ UNCHANGED queue /\ ~ Reported(reply')
    BY <1>8 DEF DriverReplies, Outcome, Ok, Reported
  <2> QED BY <2>2, <2>3, <2>4
<1>9. CASE \/ OpenFails \/ OpenRefuses \/ DriverSends \/ DriverFinishes
           \/ DriverAborts \/ Caller \/ UNCHANGED vars
  <2>1. UNCHANGED <<produced, queue, fate, stdout, stderr, reply>>
    BY <1>9 DEF OpenFails, OpenRefuses, DriverSends, DriverFinishes, DriverAborts,
                Caller, HandleNext, HandleWait, WaitDrains, WaitReturns, HandleDrop, vars
  <2> QED BY <2>1 DEF InAccount, Accounted, Reported
<1> QED
  BY <1>1, <1>2, <1>3, <1>4, <1>5, <1>6, <1>7, <1>8, <1>9
  DEF Next, Envd, Open, Driver

-----------------------------------------------------------------------------
LEMMA IInvInit == Init => IInv
<1> SUFFICES ASSUME Init PROVE IInv
  OBVIOUS
<1>1. TypeOK
  BY TypeInit
<1>2. Taken = << >>
  BY DEF Init, Taken
<1>3. OutputInOrder
  BY <1>2 DEF Init, OutputInOrder, Prefix
<1>4. StreamInStep
  BY <1>2 DEF Init, StreamInStep
<1>5. Stages /\ Earned
  BY DEF Init, Stages, Earned, Reported, None
<1>6. InAccount
  <2>1. OfKind(<< >>, "stdout") = << >> /\ OfKind(<< >>, "stderr") = << >>
    <3>1. << >> \in Seq(Chunks) /\ Len(<< >>) = 0
      OBVIOUS
    <3> QED BY <3>1, KindOfChain DEF IsChain
  <2>2. SubSeq(<< >>, 1, Len(<< >>)) = << >>
    OBVIOUS
  <2> QED BY <2>1, <2>2 DEF Init, InAccount, Accounted, Reported, None
<1> QED BY <1>1, <1>3, <1>4, <1>5, <1>6 DEF IInv

\* The inductive invariant of CommandHandle: the stream continues exactly
\* where the driver stands, and each side has got as far as the others think.
THEOREM Invariance == Spec => []IInv
<1>1. IInv /\ [Next]_vars => IInv'
  BY TypeStep, InOrderStep, InStepStep, StagesStep, EarnedStep, InAccountStep DEF IInv
<1> QED
  BY IInvInit, <1>1, PTL DEF Spec

\* Live output is the process's output, in order, nothing lost or repeated,
\* for every capacity of the channel and every process.
THEOREM OutputOrder == Spec => []OutputInOrder
<1>1. IInv => OutputInOrder
  BY DEF IInv
<1> QED
  BY <1>1, Invariance, PTL

\* A result that wait reports is the process's own, with all the process wrote:
\* a stream that broke off never passes for an exit.
THEOREM GenuineResults == Spec => []ResultIsGenuine
<1>1. IInv => ResultIsGenuine
  BY DEF IInv, Earned, InAccount, ResultIsGenuine
<1> QED
  BY <1>1, Invariance, PTL

\* When the task has finished with a reported result and the channel is
\* empty, everything has been handed out.
LEMMA DeliveredAll ==
  ASSUME IInv, Reported(reply), driver = "finished", handle # "dropped",
         chan = << >>
  PROVE  popped = produced
<1>1. popped \in Seq(Chunks) /\ produced \in Seq(Chunks)
  BY DEF IInv, TypeOK
<1>2. pend = << >>
  BY DEF IInv, Stages
<1>3. Len(Taken) = Len(produced)
  BY DEF IInv, Earned
<1>4. Len(popped) = Len(produced)
  BY <1>1, <1>2, <1>3, TakenLength DEF IInv
<1>5. \A i \in 1..Len(popped) : popped[i] = produced[i]
  BY <1>1, PrefixElements DEF IInv, OutputInOrder
<1> QED BY <1>1, <1>4, <1>5

\* wait never misses its result, and a reported result means that every chunk of the
\* process went through the channel to the caller.
THEOREM Completeness == Spec => []WaitIsComplete
<1>1. IInv => WaitIsComplete
  <2> SUFFICES ASSUME IInv PROVE WaitIsComplete
    OBVIOUS
  <2> USE DEF IInv
  <2>1. outcome.kind # "noresult"
    <3>1. outcome # None => outcome = reply
      BY DEF Earned
    <3> QED BY <3>1 DEF None, Stages
  <2>2. ASSUME Reported(outcome) PROVE popped = produced
    <3>1. /\ outcome = reply /\ handle = "returned" /\ chan = << >>
          /\ driver = "finished"
      BY <2>2 DEF Earned, Reported, None
    <3> QED BY <2>2, <3>1, DeliveredAll
  <2> QED BY <2>1, <2>2 DEF WaitIsComplete
<1> QED
  BY <1>1, Invariance, PTL

-----------------------------------------------------------------------------
\* The chunk next hands out is the one the process wrote after those before.
LEMMA PopsTheNext ==
  ASSUME TypeOK, OutputInOrder, handle # "dropped", Recv
  PROVE  /\ Len(popped) < Len(produced)
         /\ popped' = Append(popped, produced[Len(popped) + 1])
<1>1. /\ popped \in Seq(Chunks) /\ chan \in Seq(Chunks)
      /\ pend \in Seq(Chunks) /\ produced \in Seq(Chunks)
      /\ chan # << >> /\ Len(chan) >= 1 /\ Head(chan) = chan[1]
  BY HeadTail DEF TypeOK, Recv
<1>2. /\ Len(Taken) = Len(popped) + Len(chan) + Len(pend)
      /\ Taken[Len(popped) + 1] = chan[1]
  <2>1. 1 \in 1..Len(chan)
    BY <1>1
  <2> QED BY <1>1, <2>1, TakenElements DEF Taken
<1>3. /\ Len(Taken) <= Len(produced)
      /\ \A i \in 1..Len(Taken) : Taken[i] = produced[i]
  BY <1>1, PrefixElements, TakenLength DEF OutputInOrder
<1>4. Len(popped) + 1 \in 1..Len(Taken)
  BY <1>1, <1>2
<1> QED BY <1>1, <1>2, <1>3, <1>4 DEF Recv

LEMMA StepImplements == IInv /\ [Next]_vars => [Session!Next]_(Session!vars)
<1> SUFFICES ASSUME IInv, [Next]_vars PROVE [Session!Next]_(Session!vars)
  OBVIOUS
<1> USE DEF IInv, server, stream, account
<1>stutter. ASSUME UNCHANGED <<proc, produced, status, popped, outcome>>
            PROVE  [Session!Next]_(Session!vars)
  BY <1>stutter DEF Session!vars, Told
<1>told. UNCHANGED outcome => UNCHANGED Told
  BY DEF Told
<1>1. CASE Accept
  BY <1>1, <1>told DEF Accept, Session!Next, Session!Spawn
<1>2. CASE Write
  BY <1>2, <1>told DEF Write, Session!Next, Session!Write
<1>3. CASE Exit
  <2>1. /\ proc = "running" /\ proc' = "exited" /\ status' \in Statuses
        /\ UNCHANGED <<produced, popped, Told>>
    BY <1>3, <1>told DEF Exit
  <2> QED BY <2>1 DEF Session!Next, Session!Exit
<1>4. CASE HandleNext \/ WaitDrains
  <2>1. /\ Recv /\ handle # "dropped" /\ outcome = None
        /\ UNCHANGED <<proc, produced, status, outcome>>
    BY <1>4 DEF HandleNext, WaitDrains, Earned
  <2>2. Told = Session!NoOutcome
    BY <2>1 DEF Told, None, Session!NoOutcome
  <2> QED
    BY <2>1, <2>2, <1>told, PopsTheNext DEF Session!Next, Session!Deliver
<1>5. CASE WaitReturns
  <2>1. /\ outcome = None /\ outcome' = reply /\ reply # None /\ chan = << >>
        /\ driver = "finished" /\ handle # "dropped"
        /\ UNCHANGED <<proc, produced, status, popped>>
    BY <1>5 DEF WaitReturns, Earned, SenderGone, Stages
  <2>2. Told = Session!NoOutcome
    BY <2>1 DEF Told, None, Session!NoOutcome
  <2>3. reply.kind \in {"ok", "err"}
    BY <2>1 DEF TypeOK, Replies, Stages, None
  <2>4. CASE reply.kind = "err"
    <3>1. Told' = [kind |-> "err"]
      BY <2>1, <2>4 DEF Told
    <3> QED BY <2>1, <2>2, <3>1 DEF Session!Next, Session!Lose
  <2>5. CASE reply.kind = "ok" /\ reply.err = "closed"
    <3>1. Told' = [kind |-> "ok", code |-> 0, err |-> "closed"]
      BY <2>1, <2>5 DEF Told, Earned
    <3> QED BY <2>1, <2>2, <3>1 DEF Session!Next, Session!Lose
  <2>6. CASE reply.kind = "ok" /\ reply.err # "closed"
    <3>1. /\ Reported(reply) /\ proc = "exited"
          /\ reply.code = status.code /\ reply.err = status.err
      BY <2>1, <2>6 DEF Reported, Earned
    <3>2. Told' = [kind |-> "ok", code |-> status.code, err |-> status.err]
      BY <2>1, <2>6, <3>1 DEF Told
    <3>3. popped = produced
      BY <2>1, <3>1, DeliveredAll
    <3> QED BY <2>1, <2>2, <3>1, <3>2, <3>3 DEF Session!Next, Session!Learn
  <2> QED BY <2>3, <2>4, <2>5, <2>6
<1>6. CASE \/ KeepAlive \/ Disconnect \/ Open \/ Driver \/ HandleWait
           \/ HandleDrop \/ UNCHANGED vars
  <2>1. UNCHANGED <<proc, produced, status, popped, outcome>>
    BY <1>6 DEF KeepAlive, Disconnect, Open, OpenFails, OpenStarts, OpenSkips,
                OpenRefuses, Driver, DriverTakesOutput, DriverSends,
                DriverSkips, DriverReplies, DriverFinishes, DriverAborts,
                HandleWait, HandleDrop, vars
  <2> QED BY <2>1, <1>stutter
<1> QED
  BY <1>1, <1>2, <1>3, <1>4, <1>5, <1>6 DEF Next, Envd, Caller

\* The handle, with its stream, task and channel, keeps the promise of
\* ProcessSession: output in order, each chunk once, and no result but the
\* process's own, after all its output.
THEOREM Refinement == Spec => ImplementsSession
<1>1. Init => Session!Init
  BY DEF Init, Session!Init, NoStatus, Session!NoStatus, Told, None,
         Session!NoOutcome
<1> QED
  BY <1>1, Invariance, StepImplements, PTL
  DEF Spec, ImplementsSession, Session!Spec
=============================================================================
