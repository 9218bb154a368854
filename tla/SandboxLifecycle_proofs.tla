------------------------ MODULE SandboxLifecycle_proofs ------------------------
(***************************************************************************)
(* For every set of sandboxes, of callers and of targets: what a call says *)
(* of its sandbox was so, no kill or pause is claimed twice, and create    *)
(* leaves no sandbox behind unsaid.                                        *)
(***************************************************************************)
EXTENDS SandboxLifecycle, FiniteSetTheorems, TLAPS

\* What no step undoes: a sandbox that is there was made, one that is gone stays so.
Onward == \A i \in Ids : /\ sandbox[i] = "gone" => sandbox'[i] = "gone"
                         /\ sandbox[i] # "absent" => sandbox'[i] # "absent"

Typed == /\ sandbox \in [Ids -> States] /\ call \in [Callers -> Calls]
         /\ seen \in [Callers -> SUBSET States]

\* 0 stands for no sandbox.
LEMMA ZeroIsNone == 0 \notin Ids
  BY SandboxAssumption

\* The initial states satisfy the invariant.
LEMMA Begins == Init => IInv
<1> SUFFICES ASSUME Init PROVE IInv
  OBVIOUS
<1> USE DEF Init, NoCall
<1>1. TypeOK
  BY SandboxAssumption DEF TypeOK, Calls, Codes, Ops, Uses, States
<1>2. \A c \in Callers : call[c].at = "idle" /\ seen[c] = {}
  OBVIOUS
<1>3. AllKnow /\ AnswersAreTrue
  BY <1>2 DEF AllKnow, Knows, UnderWay, AnswersAreTrue, AnswerIsTrue
<1>4. Made /\ NoneIsForgotten
  BY DEF Made, NoneIsForgotten
<1>5. Funded
  <2>1. \A op, i : Claims(op, i) = {}
    BY <1>2 DEF Claims
  <2> QED
    BY <2>1, FS_EmptySet DEF Funded
<1> QED
  BY <1>1, <1>3, <1>4, <1>5 DEF IInv

-----------------------------------------------------------------------------
(* What a step does to the calls it does not touch.                        *)

\* A call that no step touches has seen what becomes of its sandbox.
LEMMA CallStays ==
  ASSUME Typed, sandbox' \in [Ids -> States], Onward, Watch,
         NEW d \in Callers, call'[d] = call[d], Knows(d), AnswerIsTrue(d)
  PROVE  Knows(d)' /\ AnswerIsTrue(d)'
<1> DEFINE k == call[d]
<1>1. k \in Calls /\ k.id \in Ids \union {0}
  BY DEF Typed, Calls
<1>2. CASE UnderWay(k) /\ k.id # 0
  <2>1. seen'[d] = seen[d] \union {sandbox'[k.id]}
    BY <1>2 DEF Watch
  <2>2. Knows(d)'
    BY <1>1, <1>2, <2>1 DEF Knows, UnderWay, ReadFrom, Onward, Typed
  <2>3. AnswerIsTrue(d)'
    BY <1>2 DEF AnswerIsTrue, UnderWay
  <2> QED
    BY <2>2, <2>3
<1>3. CASE UnderWay(k) /\ k.id = 0
  <2>1. seen'[d] = {}
    BY <1>3 DEF Watch
  <2> QED
    BY <1>3, <2>1 DEF Knows, UnderWay, AnswerIsTrue
<1>4. CASE ~ UnderWay(k)
  <2>1. seen'[d] = IF k.id = 0 THEN {} ELSE seen[d]
    BY <1>4 DEF Watch
  <2>2. seen'[d] = seen[d]
    BY <2>1 DEF Knows
  <2> QED
    BY <1>4, <2>2 DEF Knows, UnderWay, AnswerIsTrue
<1> QED
  BY <1>2, <1>3, <1>4

\* A step of one call keeps what all know, if it keeps what that one does.
LEMMA OthersStay ==
  ASSUME IInv, Typed', Onward, Watch, NEW c \in Callers,
         \A d \in Callers \ {c} : call'[d] = call[d],
         Knows(c)', AnswerIsTrue(c)'
  PROVE  AllKnow' /\ AnswersAreTrue'
<1>1. ASSUME NEW d \in Callers PROVE Knows(d)' /\ AnswerIsTrue(d)'
  <2>1. CASE d = c
    BY <2>1
  <2>2. CASE d # c
    <3>1. Typed /\ Knows(d) /\ AnswerIsTrue(d) /\ call'[d] = call[d]
      BY <2>2 DEF IInv, TypeOK, Typed, AllKnow, AnswersAreTrue
    <3> QED
      BY <3>1, CallStays DEF Typed
  <2> QED
    BY <2>1, <2>2
<1> QED
  BY <1>1 DEF AllKnow, AnswersAreTrue

\* Watch keeps its type.
LEMMA SeenTyped ==
  ASSUME Typed, sandbox' \in [Ids -> States], call' \in [Callers -> Calls], Watch
  PROVE  Typed'
<1>1. ASSUME NEW d \in Callers PROVE seen'[d] \in SUBSET States
  <2>1. call[d].id \in Ids \union {0} /\ call'[d].id \in Ids \union {0}
    BY DEF Typed, Calls
  <2>2. /\ call'[d].id # 0 => sandbox'[call'[d].id] \in States /\ sandbox[call'[d].id] \in States
        /\ seen[d] \in SUBSET States
    BY <2>1 DEF Typed
  <2> QED
    BY <2>2 DEF Watch
<1>2. seen' = [d \in Callers |-> seen'[d]]
  BY DEF Watch
<1> QED
  BY <1>1, <1>2 DEF Typed

\* Credit that does not shrink pays for claims that do not grow.
LEMMA ClaimsStay ==
  ASSUME IInv, credit' \in [Ids -> [kill : Int, pause : Int]],
         \A i \in Ids : /\ credit'[i].kill >= credit[i].kill
                        /\ credit'[i].pause >= credit[i].pause
                        /\ Claims("kill", i)' \subseteq Claims("kill", i)
                        /\ Claims("pause", i)' \subseteq Claims("pause", i)
  PROVE  Funded'
<1> SUFFICES ASSUME NEW i \in Ids
             PROVE  /\ credit'[i].kill >= Cardinality(Claims("kill", i)')
                    /\ credit'[i].pause >= Cardinality(Claims("pause", i)')
  BY DEF Funded
<1>1. ASSUME NEW op
      PROVE  /\ IsFiniteSet(Claims(op, i))
             /\ Claims(op, i)' \subseteq Claims(op, i) =>
                  /\ Cardinality(Claims(op, i)') <= Cardinality(Claims(op, i))
                  /\ Cardinality(Claims(op, i)') \in Nat
                  /\ Cardinality(Claims(op, i)) \in Nat
  <2>1. IsFiniteSet(Claims(op, i))
    BY SandboxAssumption, FS_Subset DEF Claims
  <2> QED
    BY <2>1, FS_Subset, FS_CardinalityType
<1>2. /\ credit[i].kill >= Cardinality(Claims("kill", i))
      /\ credit[i].pause >= Cardinality(Claims("pause", i))
  BY DEF IInv, Funded
<1>3. /\ credit[i] \in [kill : Int, pause : Int]
      /\ credit'[i] \in [kill : Int, pause : Int]
  BY DEF IInv, TypeOK
<1> QED
  BY <1>1, <1>2, <1>3

\* A sandbox that create made is in its hands still, if calls that were stay.
LEMMA HandsStay ==
  ASSUME IInv, Onward, NEW c \in Callers, unheard' \subseteq unheard,
         \A d \in Callers \ {c} : call'[d] = call[d],
         Living' \intersect unheard \subseteq Living,
         \A i \in unheard' \intersect Living' :
           UnderWay(call[c]) /\ call[c].op = "create" /\ call[c].id = i
             => UnderWay(call'[c]) /\ call'[c].op = "create" /\ call'[c].id = i
  PROVE  Made' /\ NoneIsForgotten'
<1>1. Made'
  BY DEF IInv, TypeOK, Made, Onward
<1>2. ASSUME NEW i \in unheard' \intersect Living'
      PROVE  \E d \in Callers : UnderWay(call'[d]) /\ call'[d].op = "create" /\ call'[d].id = i
  <2>1. PICK d \in Callers : UnderWay(call[d]) /\ call[d].op = "create" /\ call[d].id = i
    BY DEF IInv, NoneIsForgotten
  <2> QED
    BY <2>1
<1> QED
  BY <1>1, <1>2 DEF NoneIsForgotten

-----------------------------------------------------------------------------
(* What serving a request does.                                            *)

One(test) == IF test THEN 1 ELSE 0

\* Credit rises by one where a kill or a pause was done, and nowhere else.
Earned(req, i, code) ==
  /\ credit' \in [Ids -> [kill : Int, pause : Int]]
  /\ \A j \in Ids :
       /\ credit'[j].kill = credit[j].kill + One(j = i /\ req = "kill" /\ code = "ok")
       /\ credit'[j].pause = credit[j].pause + One(j = i /\ req = "pause" /\ code = "ok")

\* A request about a sandbox changes no other, brings none back, and answers what it saw.
LEMMA Serving ==
  ASSUME TypeOK, NEW req \in Ops \ {"create"}, NEW i \in Ids, NEW code, Serve(req, i, code)
  PROVE  /\ sandbox' \in [Ids -> States] /\ Onward /\ old' = old
         /\ Living' \subseteq Living
         /\ code \in CodesOf(req)
         /\ Earned(req, i, code)
         /\ code = "404" => i \notin Living /\ sandbox'[i] = sandbox[i]
         /\ code = "ok" /\ req = "kill" => sandbox[i] # "gone" /\ sandbox'[i] = "gone"
         /\ code = "ok" /\ req = "pause" => sandbox[i] = "running" /\ sandbox'[i] = "paused"
         /\ code \in {"409", "paused"} => sandbox[i] = "paused"
         /\ code = "running" => sandbox[i] = "running"
<1> USE DEF TypeOK, States, Onward, Living, Earned, One
<1>1. CASE ((code = "404" /\ i \notin Living) \/ code = "5xx") /\ UNCHANGED <<sandbox, old, credit>>
  BY <1>1 DEF CodesOf, Ops, Uses
<1>2. CASE req = "connect" /\ i \in Living /\ code = "ok" /\ Becomes(i, "running") /\ UNCHANGED credit
  BY <1>2 DEF CodesOf, Becomes
<1>3. CASE /\ req = "kill" /\ i \in Living /\ code = "ok"
           /\ Becomes(i, "gone") /\ credit' = [credit EXCEPT ![i].kill = @ + 1]
  BY <1>3 DEF CodesOf, Becomes
<1>4. CASE /\ req = "pause" /\ sandbox[i] = "running" /\ code = "ok"
           /\ Becomes(i, "paused") /\ credit' = [credit EXCEPT ![i].pause = @ + 1]
  BY <1>4 DEF CodesOf, Becomes
<1>5. CASE /\ req \in {"pause", "update_network"} /\ sandbox[i] = "paused" /\ code = "409"
           /\ UNCHANGED <<sandbox, old, credit>>
  BY <1>5 DEF CodesOf
<1>6. CASE /\ req = "is_running" /\ i \in Living /\ code = sandbox[i]
           /\ UNCHANGED <<sandbox, old, credit>>
  BY <1>6 DEF CodesOf
<1>7. CASE req \in Uses /\ i \in Living /\ code = "ok" /\ UNCHANGED <<sandbox, old, credit>>
  BY <1>7 DEF CodesOf, Uses
<1> QED
  BY <1>1, <1>2, <1>3, <1>4, <1>5, <1>6, <1>7 DEF Serve

\* A sandbox is made of an id that had none.
LEMMA Creating ==
  ASSUME TypeOK, NEW i \in Ids, ServeCreate(i)
  PROVE  /\ sandbox' \in [Ids -> States] /\ Onward
         /\ old' \subseteq Gates \X {j \in Ids : sandbox'[j] # "absent"}
         /\ sandbox[i] = "absent" /\ sandbox'[i] = "running"
         /\ Living' = Living \union {i}
         /\ credit' = credit
  BY DEF TypeOK, ServeCreate, States, Onward, Living

\* Serving a call pays for what it may claim.
LEMMA OneClaimMore ==
  ASSUME IInv, NEW c \in Callers, NEW op \in {"kill", "pause"}, NEW i \in Ids,
         Earned(op, i, "ok"),
         \A d \in Callers \ {c} : call'[d] = call[d],
         call'[c].op = op, call'[c].id = i
  PROVE  Funded'
<1> SUFFICES ASSUME NEW j \in Ids
             PROVE  /\ credit'[j].kill >= Cardinality(Claims("kill", j)')
                    /\ credit'[j].pause >= Cardinality(Claims("pause", j)')
  BY DEF Funded
<1>1. ASSUME NEW o
      PROVE  /\ Cardinality(Claims(o, j)) \in Nat /\ Cardinality(Claims(o, j)') \in Nat
             /\ Cardinality(Claims(o, j)') <= Cardinality(Claims(o, j)) + One(j = i /\ o = op)
  <2>1. IsFiniteSet(Claims(o, j)) /\ IsFiniteSet(Claims(o, j)')
    <3>1. Claims(o, j) \in SUBSET Callers /\ Claims(o, j)' \in SUBSET Callers
      BY DEF Claims
    <3> QED
      BY <3>1, SandboxAssumption, FS_Subset
  <2>2. Cardinality(Claims(o, j)) \in Nat /\ Cardinality(Claims(o, j)') \in Nat
    BY <2>1, FS_CardinalityType
  <2>3. CASE j = i /\ o = op
    <3>1. Claims(o, j)' \in SUBSET (Claims(o, j) \union {c})
      BY DEF Claims
    <3>2. /\ IsFiniteSet(Claims(o, j) \union {c})
          /\ Cardinality(Claims(o, j) \union {c}) =
               IF c \in Claims(o, j) THEN Cardinality(Claims(o, j)) ELSE Cardinality(Claims(o, j)) + 1
      BY <2>1, FS_AddElement
    <3>3. Cardinality(Claims(o, j)') <= Cardinality(Claims(o, j) \union {c})
      BY <3>1, <3>2, FS_Subset
    <3>4. Cardinality(Claims(o, j) \union {c}) \in Nat
      BY <3>2, FS_CardinalityType
    <3> QED
      BY <2>2, <2>3, <3>2, <3>3, <3>4 DEF One
  <2>4. CASE ~ (j = i /\ o = op)
    <3>1. Claims(o, j)' \in SUBSET Claims(o, j)
      BY <2>4 DEF Claims
    <3>2. Cardinality(Claims(o, j)') <= Cardinality(Claims(o, j))
      BY <2>1, <3>1, FS_Subset
    <3> QED
      BY <2>2, <2>4, <3>2 DEF One
  <2> QED
    BY <2>2, <2>3, <2>4
<1>2. /\ credit[j].kill >= Cardinality(Claims("kill", j))
      /\ credit[j].pause >= Cardinality(Claims("pause", j))
  BY DEF IInv, Funded
<1>3. credit[j] \in [kill : Int, pause : Int] /\ credit'[j] \in [kill : Int, pause : Int]
  BY DEF IInv, TypeOK, Earned
<1>4. /\ credit'[j].kill = credit[j].kill + One(j = i /\ "kill" = op)
      /\ credit'[j].pause = credit[j].pause + One(j = i /\ "pause" = op)
  BY DEF Earned, One
<1>5. /\ Cardinality(Claims("kill", j)') <= Cardinality(Claims("kill", j)) + One(j = i /\ "kill" = op)
      /\ Cardinality(Claims("pause", j)') <= Cardinality(Claims("pause", j)) + One(j = i /\ "pause" = op)
      /\ Cardinality(Claims("kill", j)) \in Nat /\ Cardinality(Claims("kill", j)') \in Nat
      /\ Cardinality(Claims("pause", j)) \in Nat /\ Cardinality(Claims("pause", j)') \in Nat
  BY <1>1
<1> QED
  BY <1>2, <1>3, <1>4, <1>5 DEF One

\* A claim that is told is paid for.
LEMMA OneClaimLess ==
  ASSUME IInv, NEW c \in Callers, NEW op \in {"kill", "pause"}, NEW i \in Ids,
         c \in Claims(op, i), call'[c].at = "returned",
         \A d \in Callers \ {c} : call'[d] = call[d],
         credit' \in [Ids -> [kill : Int, pause : Int]],
         \A j \in Ids :
           /\ credit'[j].kill = credit[j].kill - One(j = i /\ op = "kill")
           /\ credit'[j].pause = credit[j].pause - One(j = i /\ op = "pause")
  PROVE  Funded'
<1> SUFFICES ASSUME NEW j \in Ids
             PROVE  /\ credit'[j].kill >= Cardinality(Claims("kill", j)')
                    /\ credit'[j].pause >= Cardinality(Claims("pause", j)')
  BY DEF Funded
<1>1. ASSUME NEW o
      PROVE  /\ Cardinality(Claims(o, j)) \in Nat /\ Cardinality(Claims(o, j)') \in Nat
             /\ Cardinality(Claims(o, j)') <= Cardinality(Claims(o, j)) - One(j = i /\ o = op)
  <2>1. IsFiniteSet(Claims(o, j))
    <3>1. Claims(o, j) \in SUBSET Callers
      BY DEF Claims
    <3> QED
      BY <3>1, SandboxAssumption, FS_Subset
  <2>2. Cardinality(Claims(o, j)) \in Nat
    BY <2>1, FS_CardinalityType
  <2>3. Claims(o, j)' \in SUBSET (Claims(o, j) \ {c})
    BY DEF Claims
  <2>4. /\ IsFiniteSet(Claims(o, j) \ {c})
        /\ Cardinality(Claims(o, j) \ {c}) =
             IF c \in Claims(o, j) THEN Cardinality(Claims(o, j)) - 1 ELSE Cardinality(Claims(o, j))
    BY <2>1, FS_RemoveElement
  <2>5. /\ Cardinality(Claims(o, j)') <= Cardinality(Claims(o, j) \ {c})
        /\ Cardinality(Claims(o, j)') \in Nat
    BY <2>3, <2>4, FS_Subset, FS_CardinalityType
  <2>6. c \in Claims(o, j) <=> j = i /\ o = op
    BY DEF Claims
  <2> QED
    BY <2>2, <2>4, <2>5, <2>6 DEF One
<1>2. /\ credit[j].kill >= Cardinality(Claims("kill", j))
      /\ credit[j].pause >= Cardinality(Claims("pause", j))
  BY DEF IInv, Funded
<1>3. credit[j] \in [kill : Int, pause : Int] /\ credit'[j] \in [kill : Int, pause : Int]
  BY DEF IInv, TypeOK
<1>4. /\ Cardinality(Claims("kill", j)') <= Cardinality(Claims("kill", j)) - One(j = i /\ "kill" = op)
      /\ Cardinality(Claims("pause", j)') <= Cardinality(Claims("pause", j)) - One(j = i /\ "pause" = op)
      /\ Cardinality(Claims("kill", j)) \in Nat /\ Cardinality(Claims("kill", j)') \in Nat
      /\ Cardinality(Claims("pause", j)) \in Nat /\ Cardinality(Claims("pause", j)') \in Nat
  BY <1>1
<1> QED
  BY <1>2, <1>3, <1>4 DEF One

-----------------------------------------------------------------------------
(* The steps of a call.                                                    *)

\* A call begins: it has seen its sandbox as it is.
LEMMA MakesKeeps ==
  ASSUME IInv, NEW c \in Callers, Makes(c), Watch
  PROVE  IInv'
<1> USE DEF IInv
<1>1. UNCHANGED <<sandbox, old, adrift, unheard, credit>>
  BY DEF Makes, plane
<1>2. PICK op \in Ops, i \in Targets \union {0} :
        /\ IF op = "create" THEN i = 0 ELSE i # 0 /\ sandbox[i] # "absent"
        /\ call' = [call EXCEPT ![c] =
             IF Refuses(op, i)
             THEN [NoCall EXCEPT !.op = op, !.at = "returned", !.id = i,
                                 !.result = "template"]
             ELSE [NoCall EXCEPT !.op = op, !.at = "sent", !.req = op, !.id = i]]
  BY DEF Makes
<1>3. i \in Ids \union {0} /\ (i # 0 => i \in Ids)
  BY SandboxAssumption
<1>4. /\ call'[c] \in Calls /\ call'[c].op = op /\ call'[c].id = i /\ call'[c].code = "none"
      /\ \/ /\ call'[c].at = "returned" /\ call'[c].result = "template"
            /\ op = "get_metrics"
         \/ call'[c].at = "sent" /\ call'[c].req = op /\ call'[c].result = "none"
  BY <1>2, <1>3 DEF TypeOK, Calls, NoCall, Codes, Refuses
<1>5. call' \in [Callers -> Calls] /\ \A d \in Callers \ {c} : call'[d] = call[d]
  BY <1>2, <1>4 DEF TypeOK
<1>6. Typed' /\ Onward
  BY <1>1, <1>5, SeenTyped DEF TypeOK, Typed, Onward
<1>7. ~ UnderWay(call[c])
  BY DEF Makes, UnderWay
<1>8. seen'[c] = IF i = 0 THEN {} ELSE IF UnderWay(call'[c]) THEN {sandbox[i]} ELSE seen[c]
  BY <1>4, <1>7 DEF Watch
<1>9. Knows(c)' /\ AnswerIsTrue(c)'
  <2>1. AnswerIsTrue(c)'
    BY <1>4 DEF AnswerIsTrue
  <2>2. Knows(c)'
    BY <1>1, <1>2, <1>4, <1>8 DEF Knows, UnderWay
  <2> QED
    BY <2>1, <2>2
<1>10. AllKnow' /\ AnswersAreTrue'
  BY <1>5, <1>6, <1>9, OthersStay
<1>11. calls' \in 0..MaxCalls
  <2>1. calls < MaxCalls
    BY SandboxAssumption DEF Makes, TypeOK
  <2> QED
    BY <2>1, SandboxAssumption DEF Makes, TypeOK
<1>12. TypeOK'
  <2>1. \/ UnderWay(call'[c]) /\ call'[c].result = "none"
           /\ call'[c].req \in {call'[c].op, "kill"} /\ call'[c].op \in Ops
        \/ call'[c].at = "returned" /\ call'[c].op \in Ops
           /\ call'[c].result \in Results(call'[c].op)
    BY <1>4 DEF UnderWay, Results
  <2> QED
    BY <1>1, <1>5, <1>6, <1>11, <2>1 DEF TypeOK, Typed
<1>13. Made' /\ NoneIsForgotten'
  BY <1>1, <1>5, <1>6, <1>7, HandsStay DEF Living
<1>14. Funded'
  BY <1>1, <1>4, <1>5, ClaimsStay DEF TypeOK, Claims
<1> QED
  BY <1>10, <1>12, <1>13, <1>14

\* The parts of IInv that most steps of a call keep alike.
LEMMA CallKeeps ==
  ASSUME IInv, NEW c \in Callers, Watch, Onward,
         sandbox' \in [Ids -> States], call' \in [Callers -> Calls],
         \A d \in Callers \ {c} : call'[d] = call[d],
         Typed' => Knows(c)' /\ AnswerIsTrue(c)'
  PROVE  Typed' /\ AllKnow' /\ AnswersAreTrue'
<1>1. Typed'
  BY SeenTyped DEF IInv, TypeOK, Typed
<1> QED
  BY <1>1, OthersStay

\* The control plane serves a call: what it answers, the call has seen.
LEMMA AnswersKeeps ==
  ASSUME IInv, NEW c \in Callers, Answers(c), Watch
  PROVE  IInv'
<1> USE DEF IInv
<1> DEFINE k == call[c]
<1>1. /\ k \in Calls /\ k.at = "sent" /\ k.op \in Ops /\ k.req \in {k.op, "kill"}
      /\ k.result = "none" /\ UnderWay(k)
      /\ UNCHANGED <<adrift, calls>>
  <2>1. k.at = "sent" /\ k \in Calls /\ UNCHANGED <<adrift, calls>>
    BY DEF Answers, TypeOK
  <2>2. k # NoCall /\ UnderWay(k)
    BY <2>1 DEF NoCall, UnderWay
  <2> QED
    BY <2>1, <2>2 DEF TypeOK
<1>2. Knows(c) /\ seen[c] \in SUBSET States
  BY DEF AllKnow, TypeOK
<1>3. CASE k.req = "create"
  <2>1. PICK j \in Ids \union {0}, code \in {"ok", "5xx"} :
          /\ call' = [call EXCEPT ![c].at = "answered", ![c].id = j, ![c].code = code]
          /\ code = "5xx" => j = k.id /\ UNCHANGED <<sandbox, old, credit, unheard>>
          /\ code = "ok" => j \in Ids /\ ServeCreate(j) /\ unheard' = unheard \union {j}
    <3>1. CASE \E i \in Ids :
                 /\ ServeCreate(i) /\ unheard' = unheard \union {i}
                 /\ call' = [call EXCEPT ![c].at = "answered", ![c].id = i, ![c].code = "ok"]
      BY <3>1
    <3>2. CASE /\ call' = [call EXCEPT ![c].at = "answered", ![c].code = "5xx"]
               /\ UNCHANGED <<sandbox, old, credit, unheard>>
      <4>1. k.id \in Ids \union {0}
        BY <1>1 DEF Calls
      <4>2. call' = [call EXCEPT ![c].at = "answered", ![c].id = k.id, ![c].code = "5xx"]
        BY <1>1, <3>2 DEF TypeOK, Calls
      <4> QED
        BY <3>2, <4>1, <4>2
    <3> QED
      BY <1>3, <3>1, <3>2 DEF Answers
  <2>2. /\ call'[c] = [k EXCEPT !.at = "answered", !.id = j, !.code = code]
        /\ call'[c] \in Calls /\ call' \in [Callers -> Calls]
        /\ \A d \in Callers \ {c} : call'[d] = call[d]
    BY <1>1, <2>1 DEF TypeOK, Calls, Codes
  <2>3. /\ sandbox' \in [Ids -> States] /\ Onward
        /\ old' \subseteq Gates \X {i \in Ids : sandbox'[i] # "absent"}
        /\ credit' = credit
        /\ code = "ok" => sandbox'[j] = "running" /\ Living' = Living \union {j}
        /\ code = "5xx" => Living' = Living
    BY <2>1, Creating DEF TypeOK, Onward, Living
  <2>4. k.op = "create"
    BY <1>1, <1>2, <1>3 DEF Knows
  <2>5. seen'[c] = IF j # 0 THEN seen[c] \union {sandbox'[j]} ELSE {}
    <3>1. call'[c].id = j
      BY <1>1, <2>2 DEF Calls
    <3> QED
      BY <1>1, <3>1 DEF Watch
  <2>6. Knows(c)'
    <3>1. j # 0 => sandbox'[j] # "absent"
      BY <1>1, <1>2, <2>1, <2>3 DEF Knows, Onward, Calls
    <3>2. code \in CodesOf("create")
      BY DEF CodesOf
    <3>3. /\ call'[c].req = "create" /\ call'[c].op = "create" /\ call'[c].at = "answered"
          /\ call'[c].id = j /\ call'[c].code = code
      BY <1>1, <1>3, <2>2, <2>4 DEF Calls
    <3>4. code = "ok" => j # 0
      BY <2>1, ZeroIsNone
    <3> QED
      BY <2>5, <3>1, <3>2, <3>3, <3>4 DEF Knows, ReadFrom, UnderWay
  <2>7. AnswerIsTrue(c)'
    BY <1>1, <2>2 DEF AnswerIsTrue, Calls
  <2>8. Typed' /\ AllKnow' /\ AnswersAreTrue'
    BY <2>2, <2>3, <2>6, <2>7, CallKeeps
  <2>9. TypeOK'
    <3>1. unheard' \subseteq Ids
      BY <2>1 DEF TypeOK
    <3>2. UnderWay(call'[c]) /\ call'[c].result = "none"
          /\ call'[c].req \in {call'[c].op, "kill"} /\ call'[c].op \in Ops
      BY <1>1, <2>2 DEF UnderWay, Calls
    <3> QED
      BY <1>1, <2>2, <2>3, <2>8, <3>1, <3>2 DEF TypeOK, Typed
  <2>10. Made' /\ NoneIsForgotten'
    <3>1. ASSUME NEW i \in unheard' PROVE sandbox'[i] # "absent"
      BY <2>1, <2>3 DEF Made, Onward, TypeOK
    <3>2. ASSUME NEW i \in unheard' \intersect Living'
          PROVE  \E d \in Callers : UnderWay(call'[d]) /\ call'[d].op = "create" /\ call'[d].id = i
      <4>1. UnderWay(call'[c]) /\ call'[c].op = "create" /\ call'[c].id = j
        BY <1>1, <2>2, <2>4 DEF UnderWay, Calls
      <4>2. CASE code = "ok" /\ i = j
        BY <4>1, <4>2
      <4>3. CASE ~ (code = "ok" /\ i = j)
        <5>1. i \in unheard \intersect Living
          BY <2>1, <2>3, <4>3
        <5>2. PICK d \in Callers : UnderWay(call[d]) /\ call[d].op = "create" /\ call[d].id = i
          BY <5>1 DEF NoneIsForgotten
        <5>3. CASE d # c
          BY <2>2, <5>2, <5>3
        <5>4. CASE d = c
          <6>1. i # 0
            BY <5>1, ZeroIsNone DEF TypeOK
          <6>2. k.id = 0
            BY <1>1, <1>2, <1>3 DEF Knows
          <6> QED
            BY <5>2, <5>4, <6>1, <6>2
        <5> QED
          BY <5>3, <5>4
      <4> QED
        BY <4>2, <4>3
    <3> QED
      BY <3>1, <3>2 DEF Made, NoneIsForgotten
  <2>11. Funded'
    <3>1. call'[c].op = "create"
      BY <1>1, <2>2, <2>4 DEF Calls
    <3>2. ASSUME NEW i \in Ids, NEW o \in {"kill", "pause"} PROVE Claims(o, i)' \subseteq Claims(o, i)
      BY <2>2, <3>1 DEF Claims
    <3>3. \A i \in Ids : credit'[i].kill >= credit[i].kill /\ credit'[i].pause >= credit[i].pause
      BY <2>3 DEF TypeOK
    <3> QED
      BY <2>3, <3>2, <3>3, ClaimsStay DEF TypeOK
  <2> QED
    BY <2>8, <2>9, <2>10, <2>11
<1>4. CASE k.req # "create"
  <2> DEFINE i == k.id
  <2>1. PICK code \in Codes :
          /\ Serve(k.req, i, code)
          /\ call' = [call EXCEPT ![c].at = "answered", ![c].code = code]
          /\ unheard' = unheard
    BY <1>4 DEF Answers
  <2>2. i \in Ids /\ k.req \in Ops \ {"create"}
    BY <1>1, <1>2, <1>4 DEF Knows, Calls, Ops
  <2>3. /\ sandbox' \in [Ids -> States] /\ Onward /\ old' = old
        /\ Living' \subseteq Living
        /\ code \in CodesOf(k.req)
        /\ Earned(k.req, i, code)
        /\ code = "404" => i \notin Living /\ sandbox'[i] = sandbox[i]
        /\ code = "ok" /\ k.req = "kill" => sandbox[i] # "gone" /\ sandbox'[i] = "gone"
        /\ code = "ok" /\ k.req = "pause" => sandbox[i] = "running" /\ sandbox'[i] = "paused"
        /\ code \in {"409", "paused"} => sandbox[i] = "paused"
        /\ code = "running" => sandbox[i] = "running"
    BY <2>1, <2>2, Serving
  <2>4. /\ call'[c] = [k EXCEPT !.at = "answered", !.code = code]
        /\ call'[c] \in Calls /\ call' \in [Callers -> Calls]
        /\ \A d \in Callers \ {c} : call'[d] = call[d]
    BY <1>1, <2>1 DEF TypeOK, Calls
  <2>5. /\ call'[c].id = i /\ call'[c].req = k.req /\ call'[c].op = k.op /\ call'[c].code = code
        /\ call'[c].at = "answered" /\ call'[c].result = "none"
    BY <1>1, <2>4 DEF Calls
  <2>6. seen'[c] = seen[c] \union {sandbox'[i]}
    BY <1>1, <2>2, <2>5, ZeroIsNone DEF Watch
  <2>7. sandbox[i] # "absent" /\ sandbox[i] \in seen[c] /\ i # 0
    BY <1>1, <1>2, <2>2, ZeroIsNone DEF Knows
  <2>8. /\ code = "404" => sandbox'[i] = "gone"
        /\ code = "ok" /\ k.req = "kill" => sandbox'[i] = "gone" /\ seen'[c] # {"gone"}
        /\ code = "ok" /\ k.req = "pause" => {"running", "paused"} \subseteq seen'[c]
        /\ code \in {"409", "paused"} => "paused" \in seen'[c]
        /\ code = "running" => "running" \in seen'[c]
    <3>1. code = "404" => sandbox'[i] = "gone"
      BY <2>2, <2>3, <2>7 DEF Living, TypeOK, States
    <3> QED
      BY <2>3, <2>6, <2>7, <3>1
  <2>9. Knows(c)'
    <3>1. k.req # k.op => k.op = "create"
      BY <1>1, <1>2 DEF Knows
    <3>2. sandbox'[i] # "absent" /\ sandbox'[i] \in seen'[c]
      BY <2>2, <2>3, <2>6, <2>7 DEF Onward
    <3> QED
      BY <1>4, <2>3, <2>5, <2>7, <2>8, <3>1, <3>2 DEF Knows, ReadFrom
  <2>10. AnswerIsTrue(c)'
    BY <2>5 DEF AnswerIsTrue
  <2>11. Typed' /\ AllKnow' /\ AnswersAreTrue'
    BY <2>3, <2>4, <2>9, <2>10, CallKeeps
  <2>12. TypeOK'
    <3>1. UnderWay(call'[c]) /\ call'[c].req \in {call'[c].op, "kill"} /\ call'[c].op \in Ops
      BY <1>1, <2>5 DEF UnderWay
    <3>2. old' \subseteq Gates \X {j \in Ids : sandbox'[j] # "absent"}
      BY <2>3 DEF TypeOK, Onward
    <3>3. \A d \in Callers :
            \/ call'[d] = NoCall
            \/ /\ UnderWay(call'[d]) /\ call'[d].result = "none"
               /\ call'[d].req \in {call'[d].op, "kill"} /\ call'[d].op \in Ops
            \/ call'[d].at = "returned" /\ call'[d].op \in Ops
               /\ call'[d].result \in Results(call'[d].op)
      BY <2>4, <2>5, <3>1 DEF TypeOK
    <3> QED
      BY <1>1, <2>1, <2>3, <2>4, <2>11, <3>2, <3>3 DEF TypeOK, Typed, Earned
  <2>13. Made' /\ NoneIsForgotten'
    <3>1. UnderWay(call'[c])
      BY <2>5 DEF UnderWay
    <3> QED
      BY <2>1, <2>3, <2>4, <2>5, <3>1, HandsStay
  <2>14. Funded'
    <3>1. CASE k.op \in {"kill", "pause"} /\ code = "ok"
      <4>1. Earned(k.op, i, "ok")
        BY <1>1, <1>2, <2>3, <3>1 DEF Knows
      <4> QED
        BY <2>2, <2>4, <2>5, <3>1, <4>1, OneClaimMore
    <3>2. CASE ~ (k.op \in {"kill", "pause"} /\ code = "ok")
      <4>1. \A j \in Ids : /\ credit'[j].kill >= credit[j].kill
                           /\ credit'[j].pause >= credit[j].pause
        BY <2>3 DEF Earned, One, TypeOK
      <4>2. ASSUME NEW j \in Ids, NEW o \in {"kill", "pause"} PROVE Claims(o, j)' \subseteq Claims(o, j)
        BY <2>4, <2>5, <3>2 DEF Claims
      <4> QED
        BY <2>3, <4>1, <4>2, ClaimsStay DEF Earned
    <3> QED
      BY <3>1, <3>2
  <2> QED
    BY <2>11, <2>12, <2>13, <2>14
<1> QED
  BY <1>3, <1>4

-----------------------------------------------------------------------------
(* The ends of a call.                                                     *)

\* The result v would be true of what a call has seen.
Fits(c, v) ==
  LET k == call[c] IN
  /\ v = "not_found" \/ (k.op = "kill" /\ v \in {"true", "false"}) => "gone" \in seen[c]
  /\ k.op = "kill" /\ v = "true" => seen[c] # {"gone"}
  /\ k.op = "pause" /\ v = "true" => {"running", "paused"} \subseteq seen[c]
  /\ k.op = "pause" /\ v = "false" => "paused" \in seen[c]
  /\ k.op = "is_running" /\ v = "true" => "running" \in seen[c]
  /\ k.op = "is_running" /\ v = "false" => "paused" \in seen[c]

Ending(c, v) == call' = [call EXCEPT ![c].at = "returned", ![c].req = "none",
                                     ![c].code = "none", ![c].result = v]

\* What is known of a call under way.
LEMMA UnderWayHas ==
  ASSUME IInv, NEW c \in Callers, UnderWay(call[c])
  PROVE  /\ call[c] \in Calls /\ call[c].op \in Ops /\ call[c].result = "none"
         /\ call[c].req \in {call[c].op, "kill"} /\ Knows(c)
<1>1. call[c] # NoCall /\ call[c].at # "returned"
  BY DEF NoCall, UnderWay
<1> QED
  BY <1>1 DEF IInv, TypeOK, AllKnow

\* A call ends with a result that fits what it has seen.
LEMMA EndKeeps ==
  ASSUME IInv, Watch, NEW c \in Callers, UnderWay(call[c]),
         NEW v \in Results(call[c].op) \ {"none"}, Ending(c, v), Fits(c, v),
         UNCHANGED <<sandbox, old, calls>>, adrift' \in [Requests -> Nat],
         unheard' \subseteq unheard,
         call[c].op = "create" => call[c].id \notin unheard' \intersect Living,
         credit' \in [Ids -> [kill : Int, pause : Int]], Funded'
  PROVE  IInv'
<1> DEFINE k == call[c]
<1>1. /\ k \in Calls /\ k.op \in Ops /\ k.id \in Ids \union {0} /\ Knows(c)
  BY UnderWayHas DEF Calls
<1>2. v \in {"true", "false", "not_found", "conflict", "template", "error"}
  BY DEF Results
<1>3. /\ call'[c] = [k EXCEPT !.at = "returned", !.req = "none", !.code = "none", !.result = v]
      /\ call'[c] \in Calls /\ call' \in [Callers -> Calls]
      /\ \A d \in Callers \ {c} : call'[d] = call[d]
  <2>1. call \in [Callers -> Calls]
    BY DEF IInv, TypeOK
  <2>2. call' = [call EXCEPT ![c] = [k EXCEPT !.at = "returned", !.req = "none",
                                              !.code = "none", !.result = v]]
    BY DEF Ending
  <2>3. [k EXCEPT !.at = "returned", !.req = "none", !.code = "none", !.result = v] \in Calls
    BY <1>1, <1>2 DEF Calls, Codes
  <2> QED
    BY <2>1, <2>2, <2>3
<1>4. /\ call'[c].at = "returned" /\ call'[c].op = k.op /\ call'[c].id = k.id
      /\ call'[c].result = v
  BY <1>1, <1>3 DEF Calls
<1>5. Onward /\ Living' = Living /\ sandbox' \in [Ids -> States]
  BY DEF Onward, Living, IInv, TypeOK
<1>6. seen'[c] = seen[c]
  <2>1. CASE k.id = 0
    BY <1>1, <1>4, <2>1 DEF Watch, Knows, UnderWay
  <2>2. CASE k.id # 0
    <3>1. seen'[c] = seen[c] \union {sandbox[k.id]}
      BY <1>4, <2>2 DEF Watch
    <3> QED
      BY <1>1, <2>2, <3>1 DEF Knows
  <2> QED
    BY <2>1, <2>2
<1>7. Knows(c)' /\ AnswerIsTrue(c)'
  <2>1. Knows(c)'
    BY <1>1, <1>4, <1>6 DEF Knows, UnderWay
  <2>2. AnswerIsTrue(c)'
    BY <1>4, <1>6 DEF AnswerIsTrue, Fits
  <2> QED
    BY <2>1, <2>2
<1>8. Typed' /\ AllKnow' /\ AnswersAreTrue'
  BY <1>3, <1>5, <1>7, CallKeeps
<1>9. TypeOK'
  <2>1. \A d \in Callers :
            \/ call'[d] = NoCall
            \/ /\ UnderWay(call'[d]) /\ call'[d].result = "none"
               /\ call'[d].req \in {call'[d].op, "kill"} /\ call'[d].op \in Ops
            \/ call'[d].at = "returned" /\ call'[d].op \in Ops
               /\ call'[d].result \in Results(call'[d].op)
    BY <1>1, <1>3, <1>4 DEF IInv, TypeOK
  <2> QED
    BY <1>3, <1>8, <2>1 DEF IInv, TypeOK, Typed
<1>10. Made' /\ NoneIsForgotten'
  BY <1>3, <1>5, HandsStay
<1> QED
  BY <1>8, <1>9, <1>10 DEF IInv

\* What EndsWith does to the credit pays for the claims that are left.
LEMMA EndPays ==
  ASSUME IInv, NEW c \in Callers, UnderWay(call[c]), NEW v, EndsWith(c, v), v # "none",
         v = "true" /\ call[c].op \in {"kill", "pause"}
           => call[c].at = "answered" /\ call[c].code = "ok"
  PROVE  credit' \in [Ids -> [kill : Int, pause : Int]] /\ Funded' /\ Ending(c, v)
<1> DEFINE k == call[c]
<1>1. k \in Calls /\ k.op \in Ops /\ Knows(c) /\ Ending(c, v)
  BY UnderWayHas DEF EndsWith, Ending
<1>2. call'[c].at = "returned" /\ \A d \in Callers \ {c} : call'[d] = call[d]
  BY <1>1 DEF IInv, TypeOK, Calls, Ending
<1>3. \A i \in Ids : credit[i] \in [kill : Int, pause : Int]
  BY DEF IInv, TypeOK
<1>4. CASE v = "true" /\ k.op \in {"kill", "pause"}
  <2>1. k.id \in Ids
    <3>1. k.id # 0
      BY <1>1, <1>4 DEF Knows
    <3> QED
      BY <1>1, <3>1 DEF Calls
  <2>2. c \in Claims(k.op, k.id)
    BY <1>4 DEF Claims
  <2>3. /\ credit' \in [Ids -> [kill : Int, pause : Int]]
        /\ \A j \in Ids :
             /\ credit'[j].kill = credit[j].kill - One(j = k.id /\ k.op = "kill")
             /\ credit'[j].pause = credit[j].pause - One(j = k.id /\ k.op = "pause")
    <3>1. CASE k.op = "kill"
      <4>1. credit' = [credit EXCEPT ![k.id].kill = @ - 1]
        BY <1>4, <3>1 DEF EndsWith
      <4> QED
        BY <1>3, <2>1, <3>1, <4>1 DEF One, IInv, TypeOK
    <3>2. CASE k.op = "pause"
      <4>1. credit' = [credit EXCEPT ![k.id].pause = @ - 1]
        BY <1>4, <3>2 DEF EndsWith
      <4> QED
        BY <1>3, <2>1, <3>2, <4>1 DEF One, IInv, TypeOK
    <3> QED
      BY <1>4, <3>1, <3>2
  <2> QED
    BY <1>1, <1>2, <1>4, <2>1, <2>2, <2>3, OneClaimLess
<1>5. CASE ~ (v = "true" /\ k.op \in {"kill", "pause"})
  <2>1. credit' = credit
    BY <1>5 DEF EndsWith
  <2>2. ASSUME NEW j \in Ids, NEW o \in {"kill", "pause"} PROVE Claims(o, j)' \subseteq Claims(o, j)
    BY <1>2 DEF Claims
  <2>3. \A j \in Ids : credit'[j].kill >= credit[j].kill /\ credit'[j].pause >= credit[j].pause
    BY <1>3, <2>1
  <2> QED
    BY <1>1, <2>1, <2>2, <2>3, ClaimsStay DEF IInv, TypeOK
<1> QED
  BY <1>4, <1>5

\* A call other than create: its result is read from its answer.
LEMMA ReturnsKeeps ==
  ASSUME IInv, NEW c \in Callers, Returns(c), Watch
  PROVE  IInv'
<1> DEFINE k == call[c]
           v == Result(k.op, k.code)
<1>1. UnderWay(k) /\ k.at = "answered" /\ k.op # "create" /\ EndsWith(c, v) /\ unheard' = unheard
  BY DEF Returns, UnderWay
<1>2. k \in Calls /\ k.op \in Ops \ {"create"} /\ Knows(c)
  BY <1>1, UnderWayHas
<1>3. k.req = k.op /\ k.id # 0 /\ k.code \in CodesOf(k.op)
  BY <1>1, <1>2 DEF Knows
<1>4. /\ k.code \in {"5xx", "ok", "404", "409", "running", "paused"}
      /\ k.code = "409" => k.op \in {"pause", "update_network"}
      /\ k.code \in {"running", "paused"} <=> k.op = "is_running" /\ k.code \notin {"5xx", "404"}
  BY <1>2, <1>3 DEF CodesOf
<1>5. /\ k.code = "404" => v = IF k.op = "kill" THEN "false" ELSE "not_found"
      /\ k.code = "409" => v = IF k.op = "pause" THEN "false" ELSE "conflict"
      /\ k.code = "5xx" => v = "error"
      /\ k.code = "paused" => v = "false"
      /\ k.code \in {"ok", "running"} => v = "true"
  BY <1>4 DEF Result, Missing, Conflict
<1>6. v \in Results(k.op) \ {"none"}
  BY <1>2, <1>4, <1>5 DEF Results, Ops, Uses
<1>7. ReadFrom(k.code, k.op, k.id, seen[c]) /\ sandbox[k.id] \in seen[c]
  BY <1>1, <1>2, <1>3 DEF Knows
<1>8. Fits(c, v)
  BY <1>4, <1>5, <1>7 DEF Fits, ReadFrom
<1>9. credit' \in [Ids -> [kill : Int, pause : Int]] /\ Funded' /\ Ending(c, v)
  <2>1. v = "true" /\ k.op \in {"kill", "pause"} => k.code = "ok"
    BY <1>4, <1>5
  <2> QED
    BY <1>1, <1>6, <2>1, EndPays
<1>10. UNCHANGED <<sandbox, old, calls, adrift>> /\ adrift' \in [Requests -> Nat]
  BY <1>1 DEF EndsWith, plane, IInv, TypeOK
<1> QED
  BY <1>1, <1>2, <1>6, <1>8, <1>9, <1>10, EndKeeps

\* create ends with a sandbox, or with an error that says it may have left one.
LEMMA CreateReturnsKeeps ==
  ASSUME IInv, NEW c \in Callers, CreateReturns(c), Watch
  PROVE  IInv'
<1> DEFINE k == call[c]
<1>1. PICK v \in {"true", "error"} : EndsWith(c, v)
  BY DEF CreateReturns
<1>2. UnderWay(k) /\ k.at = "answered" /\ k.req = "create" /\ Told(c)
  BY DEF CreateReturns, UnderWay
<1>3. k \in Calls /\ k.op = "create" /\ Knows(c)
  BY <1>2, UnderWayHas DEF Knows
<1>4. v \in Results(k.op) \ {"none"}
  BY <1>3 DEF Results
<1>5. Fits(c, v)
  BY <1>3 DEF Fits
<1>6. credit' \in [Ids -> [kill : Int, pause : Int]] /\ Funded' /\ Ending(c, v)
  BY <1>1, <1>2, <1>3, EndPays
<1>7. UNCHANGED <<sandbox, old, calls, adrift>> /\ adrift' \in [Requests -> Nat]
  BY <1>1 DEF EndsWith, plane, IInv, TypeOK
<1>8. unheard' \subseteq unheard /\ k.id \notin unheard'
  BY <1>2, <1>3 DEF Told
<1> QED
  BY <1>2, <1>4, <1>5, <1>6, <1>7, <1>8, EndKeeps

\* The Template error comes when the kill has found no sandbox, or left none.
LEMMA CreateRefusesKeeps ==
  ASSUME IInv, NEW c \in Callers, CreateRefuses(c), Watch
  PROVE  IInv'
<1> DEFINE k == call[c]
<1>1. UnderWay(k) /\ k.at = "answered" /\ k.op = "create" /\ k.req = "kill"
  BY DEF CreateRefuses, UnderWay
<1>2. k \in Calls /\ Knows(c)
  BY <1>1, UnderWayHas
<1>3. k.code \in {"5xx", "ok", "404"} /\ k.id # 0
  BY <1>1, <1>2 DEF Knows, CodesOf
<1>4. k.code # "5xx" => sandbox[k.id] = "gone"
  BY <1>1, <1>2, <1>3 DEF Knows, ReadFrom
<1>5. PICK v \in {"template", "error"} :
        /\ EndsWith(c, v)
        /\ v = "template" => k.code # "5xx" /\ unheard' = unheard
        /\ v = "error" => Told(c)
  BY <1>3 DEF CreateRefuses, Result
<1>6. v \in Results(k.op) \ {"none"}
  BY <1>1 DEF Results
<1>7. Fits(c, v)
  BY <1>1 DEF Fits
<1>8. credit' \in [Ids -> [kill : Int, pause : Int]] /\ Funded' /\ Ending(c, v)
  BY <1>1, <1>5, EndPays
<1>9. UNCHANGED <<sandbox, old, calls, adrift>> /\ adrift' \in [Requests -> Nat]
  BY <1>5 DEF EndsWith, plane, IInv, TypeOK
<1>10. unheard' \subseteq unheard /\ k.id \notin unheard' \intersect Living
  BY <1>1, <1>4, <1>5 DEF Told, Living
<1> QED
  BY <1>1, <1>6, <1>7, <1>8, <1>9, <1>10, EndKeeps

\* A kill of the sandbox made: it is in create's hands still.
LEMMA CreateKillsKeeps ==
  ASSUME IInv, NEW c \in Callers, CreateKills(c), Watch
  PROVE  IInv'
<1> DEFINE k == call[c]
<1>1. /\ UnderWay(k) /\ k.at = "answered" /\ k.req = "create" /\ k.code = "ok"
      /\ call' = [call EXCEPT ![c].at = "sent", ![c].req = "kill", ![c].code = "none"]
      /\ UNCHANGED <<sandbox, old, adrift, calls, unheard, credit>>
  BY DEF CreateKills, UnderWay, plane
<1>2. k \in Calls /\ k.op = "create" /\ k.result = "none" /\ Knows(c)
  BY <1>1, UnderWayHas DEF Knows
<1>3. /\ call'[c] = [k EXCEPT !.at = "sent", !.req = "kill", !.code = "none"]
      /\ call'[c] \in Calls /\ call' \in [Callers -> Calls]
      /\ \A d \in Callers \ {c} : call'[d] = call[d]
  BY <1>1, <1>2 DEF IInv, TypeOK, Calls, Codes, Ops
<1>4. /\ call'[c].at = "sent" /\ call'[c].op = "create" /\ call'[c].id = k.id
      /\ call'[c].req = "kill" /\ call'[c].result = "none"
  BY <1>2, <1>3 DEF Calls
<1>5. Onward /\ Living' = Living /\ sandbox' \in [Ids -> States]
  BY <1>1 DEF Onward, Living, IInv, TypeOK
<1>6. k.id \in Ids /\ k.id # 0
  <2>1. <<"create", k.id>> \in old
    BY DEF CreateKills
  <2>2. old \subseteq Gates \X Ids
    BY DEF IInv, TypeOK
  <2> QED BY <2>1, <2>2, ZeroIsNone
<1>7. seen'[c] = seen[c] \union {sandbox[k.id]}
  BY <1>1, <1>4, <1>6 DEF Watch
<1>8. Knows(c)' /\ AnswerIsTrue(c)'
  <2>1. Knows(c)'
    BY <1>1, <1>2, <1>4, <1>6, <1>7 DEF Knows, UnderWay
  <2>2. AnswerIsTrue(c)'
    BY <1>4 DEF AnswerIsTrue
  <2> QED
    BY <2>1, <2>2
<1>9. Typed' /\ AllKnow' /\ AnswersAreTrue'
  BY <1>3, <1>5, <1>8, CallKeeps
<1>10. TypeOK'
  <2>1. UnderWay(call'[c]) /\ call'[c].req \in {call'[c].op, "kill"} /\ call'[c].op \in Ops
    BY <1>4 DEF UnderWay, Ops
  <2>2. \A d \in Callers :
            \/ call'[d] = NoCall
            \/ /\ UnderWay(call'[d]) /\ call'[d].result = "none"
               /\ call'[d].req \in {call'[d].op, "kill"} /\ call'[d].op \in Ops
            \/ call'[d].at = "returned" /\ call'[d].op \in Ops
               /\ call'[d].result \in Results(call'[d].op)
    BY <1>3, <1>4, <2>1 DEF IInv, TypeOK
  <2> QED
    BY <1>1, <1>3, <1>9, <2>2 DEF IInv, TypeOK, Typed
<1>11. Made' /\ NoneIsForgotten'
  <2>1. UnderWay(call'[c])
    BY <1>4 DEF UnderWay
  <2> QED
    BY <1>1, <1>3, <1>4, <1>5, <2>1, HandsStay
<1>12. Funded'
  <2>1. ASSUME NEW j \in Ids, NEW o \in {"kill", "pause"} PROVE Claims(o, j)' \subseteq Claims(o, j)
    <3>1. call'[c].at = "sent" /\ \A d \in Callers \ {c} : call'[d] = call[d]
      BY <1>3, <1>4
    <3> QED
      BY <3>1 DEF Claims
  <2>2. \A j \in Ids : credit'[j].kill >= credit[j].kill /\ credit'[j].pause >= credit[j].pause
    BY <1>1 DEF IInv, TypeOK
  <2> QED
    BY <1>1, <2>1, <2>2, ClaimsStay DEF IInv, TypeOK
<1> QED
  BY <1>9, <1>10, <1>11, <1>12 DEF IInv

\* A call that fails claims nothing; what it leaves behind, its caller was told of.
LEMMA FailsKeeps ==
  ASSUME IInv, NEW c \in Callers, Fails(c), Watch
  PROVE  IInv'
<1> DEFINE k == call[c]
<1>1. /\ UnderWay(k) /\ Ending(c, "error") /\ Told(c)
      /\ UNCHANGED <<sandbox, old, calls, credit>>
  BY DEF Fails, UnderWay, Ending
<1>2. k \in Calls /\ k.op \in Ops
  BY <1>1, UnderWayHas
<1>3. adrift' \in [Requests -> Nat]
  BY DEF Fails, IInv, TypeOK
<1>4. "error" \in Results(k.op) \ {"none"}
  BY DEF Results
<1>5. Fits(c, "error")
  BY DEF Fits
<1>6. unheard' \subseteq unheard /\ (k.op = "create" => k.id \notin unheard')
  BY <1>1 DEF Told
<1>7. credit' \in [Ids -> [kill : Int, pause : Int]]
  BY <1>1 DEF IInv, TypeOK
<1>8. Funded'
  <2>1. call'[c].at = "returned" /\ \A d \in Callers \ {c} : call'[d] = call[d]
    BY <1>1, <1>2 DEF IInv, TypeOK, Calls, Ending
  <2>2. ASSUME NEW j \in Ids, NEW o \in {"kill", "pause"} PROVE Claims(o, j)' \subseteq Claims(o, j)
    BY <2>1 DEF Claims
  <2>3. \A j \in Ids : credit'[j].kill >= credit[j].kill /\ credit'[j].pause >= credit[j].pause
    BY <1>1 DEF IInv, TypeOK
  <2> QED
    BY <1>7, <2>2, <2>3, ClaimsStay
<1> QED
  BY <1>1, <1>3, <1>4, <1>5, <1>6, <1>7, <1>8, EndKeeps

-----------------------------------------------------------------------------
(* The steps of the control plane, and of a listing.                       *)

\* What happens to sandboxes without a call, whoever watches.
LEMMA PlaneKeeps ==
  ASSUME IInv, Watch, Onward, sandbox' \in [Ids -> States],
         UNCHANGED <<tasks, unheard>>, adrift' \in [Requests -> Nat],
         old' \subseteq Gates \X {i \in Ids : sandbox'[i] # "absent"},
         Living' \intersect unheard \subseteq Living,
         credit' \in [Ids -> [kill : Int, pause : Int]],
         \A i \in Ids : /\ credit'[i].kill >= credit[i].kill
                        /\ credit'[i].pause >= credit[i].pause
  PROVE  IInv'
<1> USE DEF IInv
<1>1. call' = call /\ calls' = calls /\ unheard' = unheard
  BY DEF tasks
<1>2. Typed /\ Typed'
  BY <1>1, SeenTyped DEF TypeOK, Typed
<1>3. ASSUME NEW d \in Callers PROVE Knows(d)' /\ AnswerIsTrue(d)'
  <2>1. Knows(d) /\ AnswerIsTrue(d) /\ call'[d] = call[d]
    BY <1>1 DEF AllKnow, AnswersAreTrue
  <2> QED
    BY <1>2, <2>1, CallStays
<1>4. TypeOK'
  BY <1>1, <1>2 DEF TypeOK, Typed
<1>5. Made' /\ NoneIsForgotten'
  <2>1. Made'
    BY <1>1 DEF TypeOK, Made, Onward
  <2>2. NoneIsForgotten'
    BY <1>1 DEF NoneIsForgotten
  <2> QED
    BY <2>1, <2>2
<1>6. Funded'
  BY <1>1, ClaimsStay DEF Claims
<1> QED
  BY <1>3, <1>4, <1>5, <1>6 DEF AllKnow, AnswersAreTrue

\* A request whose caller has left: nobody claims what it does.
LEMMA ServesAdriftKeeps ==
  ASSUME IInv, NEW r \in Requests, ServesAdrift(r), Watch
  PROVE  IInv'
<1> USE DEF IInv
<1>1. r[1] \in Ops /\ r[2] \in Ids \union {0}
  BY DEF Requests
<1>2. adrift' \in [Requests -> Nat]
  <2>1. adrift[r] \in Nat /\ adrift[r] > 0
    BY DEF ServesAdrift, TypeOK
  <2>2. adrift' = [adrift EXCEPT ![r] = @ - 1]
    BY DEF ServesAdrift
  <2> QED
    BY <2>1, <2>2 DEF TypeOK
<1>3. UNCHANGED <<tasks, unheard>> /\ sandbox' # sandbox
  BY DEF ServesAdrift
<1>4. CASE r[1] = "create"
  <2>1. PICK i \in Ids : ServeCreate(i)
    BY <1>4 DEF ServesAdrift
  <2>2. /\ sandbox' \in [Ids -> States] /\ Onward
        /\ old' \subseteq Gates \X {j \in Ids : sandbox'[j] # "absent"}
        /\ sandbox[i] = "absent" /\ Living' = Living \union {i} /\ credit' = credit
    BY <2>1, Creating
  <2>3. Living' \intersect unheard \subseteq Living
    BY <2>2 DEF Made
  <2>4. \A j \in Ids : credit'[j].kill >= credit[j].kill /\ credit'[j].pause >= credit[j].pause
    BY <2>2 DEF TypeOK
  <2>5. credit' \in [Ids -> [kill : Int, pause : Int]]
    BY <2>2 DEF TypeOK
  <2> QED
    BY <1>2, <1>3, <2>2, <2>3, <2>4, <2>5, PlaneKeeps
<1>5. CASE r[1] # "create"
  <2>1. PICK code \in Codes : Serve(r[1], r[2], code)
    BY <1>5 DEF ServesAdrift
  <2>2. r[2] \in Ids
    <3>1. ASSUME r[2] = 0 PROVE sandbox' = sandbox
      <4>1. r[2] \notin Ids /\ r[2] \notin Living
        BY <3>1, ZeroIsNone DEF Living
      <4>2. ASSUME NEW s, Becomes(r[2], s) PROVE sandbox' = sandbox
        BY <4>1, <4>2 DEF Becomes, TypeOK
      <4> QED
        BY <2>1, <4>1, <4>2 DEF Serve
    <3> QED
      BY <1>1, <1>3, <3>1
  <2>3. /\ sandbox' \in [Ids -> States] /\ Onward /\ old' = old
        /\ Living' \subseteq Living /\ Earned(r[1], r[2], code)
    BY <1>1, <1>5, <2>1, <2>2, Serving
  <2>4. \A j \in Ids : credit'[j].kill >= credit[j].kill /\ credit'[j].pause >= credit[j].pause
    BY <2>3 DEF Earned, One, TypeOK
  <2>5. old' \subseteq Gates \X {j \in Ids : sandbox'[j] # "absent"}
    BY <2>3 DEF TypeOK, Onward
  <2>6. credit' \in [Ids -> [kill : Int, pause : Int]]
    BY <2>3 DEF Earned
  <2> QED
    BY <1>2, <1>3, <2>3, <2>4, <2>5, <2>6, PlaneKeeps
<1> QED
  BY <1>4, <1>5

\* A sandbox that times out is seen to be gone by the calls about it.
LEMMA ExpireKeeps ==
  ASSUME IInv, NEW i \in Ids, Expire(i), Watch
  PROVE  IInv'
<1> USE DEF IInv
<1>1. /\ sandbox[i] = "running" /\ sandbox' = [sandbox EXCEPT ![i] = "gone"] /\ old' = old
      /\ UNCHANGED <<adrift, tasks, unheard, credit>>
  BY DEF Expire, Becomes
<1>2. /\ sandbox' \in [Ids -> States] /\ Onward /\ Living' \subseteq Living
      /\ old' \subseteq Gates \X {j \in Ids : sandbox'[j] # "absent"}
  BY <1>1 DEF TypeOK, States, Onward, Living
<1>3. \A j \in Ids : credit'[j].kill >= credit[j].kill /\ credit'[j].pause >= credit[j].pause
  BY <1>1 DEF TypeOK
<1>4. adrift' \in [Requests -> Nat] /\ credit' \in [Ids -> [kill : Int, pause : Int]]
  BY <1>1 DEF TypeOK
<1> QED
  BY <1>1, <1>2, <1>3, <1>4, PlaneKeeps

\* A listing changes nothing but itself.
LEMMA RestKeeps ==
  ASSUME IInv, UNCHANGED <<plane, tasks, record>>
  PROVE  IInv'
<1> USE DEF plane, tasks, record, IInv
<1>1. TypeOK' /\ Made' /\ NoneIsForgotten'
  BY DEF TypeOK, Made, NoneIsForgotten, Living
<1>2. AllKnow' /\ AnswersAreTrue'
  BY DEF AllKnow, Knows, ReadFrom, AnswersAreTrue, AnswerIsTrue
<1>3. Funded'
  BY DEF Funded, Claims
<1> QED
  BY <1>1, <1>2, <1>3

-----------------------------------------------------------------------------
(* The theorems.                                                           *)

\* Every step keeps the invariant.
LEMMA Steps == IInv /\ [Next]_vars => IInv'
<1> SUFFICES ASSUME IInv, [Next]_vars PROVE IInv'
  OBVIOUS
<1>1. CASE CallSteps /\ Watch
  <2>1. PICK c \in Callers :
          Makes(c) \/ Answers(c) \/ Returns(c) \/ CreateReturns(c) \/ CreateKills(c)
            \/ CreateRefuses(c) \/ Fails(c)
    BY <1>1 DEF CallSteps
  <2> QED
    BY <1>1, <2>1, MakesKeeps, AnswersKeeps, ReturnsKeeps, CreateReturnsKeeps,
       CreateKillsKeeps, CreateRefusesKeeps, FailsKeeps
<1>2. CASE PlaneSteps /\ Watch
  BY <1>2, ServesAdriftKeeps, ExpireKeeps DEF PlaneSteps
<1>3. CASE Lists
  BY <1>3, RestKeeps DEF Lists
<1>4. CASE UNCHANGED vars
  BY <1>4, RestKeeps DEF vars
<1> QED
  BY <1>1, <1>2, <1>3, <1>4 DEF Next

\* Whatever callers do to however many sandboxes, and whatever is lost: the inductive
\* invariant of the calls, of what they have seen and of what they claim.
THEOREM Invariance == Spec => []IInv
<1>1. Spec => Init /\ [][Next]_vars
  BY DEF Spec
<1> QED
  BY <1>1, Begins, Steps, PTL

\* A definite answer says what was so at some moment of the call.
THEOREM TrueAnswers == Spec => []AnswersAreTrue
<1>1. IInv => AnswersAreTrue
  BY DEF IInv
<1> QED
  BY <1>1, Invariance, PTL

\* A sandbox's end, or its pause, is claimed no oftener than it happened.
THEOREM OneWins == Spec => []OnlyOneWins
<1>1. ASSUME IInv, NEW i \in Ids PROVE credit[i].kill >= 0 /\ credit[i].pause >= 0
  <2>1. ASSUME NEW op PROVE Cardinality(Claims(op, i)) \in Nat
    <3>1. Claims(op, i) \in SUBSET Callers
      BY DEF Claims
    <3> QED
      BY <3>1, SandboxAssumption, FS_Subset, FS_CardinalityType
  <2>2. /\ credit[i].kill >= Cardinality(Claims("kill", i))
        /\ credit[i].pause >= Cardinality(Claims("pause", i))
    BY <1>1 DEF IInv, Funded
  <2>3. credit[i] \in [kill : Int, pause : Int]
    BY <1>1 DEF IInv, TypeOK
  <2>4. Cardinality(Claims("kill", i)) \in Nat /\ Cardinality(Claims("pause", i)) \in Nat
    BY <2>1
  <2> QED
    BY <2>2, <2>3, <2>4
<1>2. IInv => OnlyOneWins
  BY <1>1 DEF OnlyOneWins
<1> QED
  BY <1>2, Invariance, PTL

-----------------------------------------------------------------------------
(* The listing, beside whatever becomes of the sandboxes.                  *)

LEMMA LivingIsSome == Living \subseteq Nat \ {0}
BY SandboxAssumption DEF Living

LEMMA ListingBegins == Init => ListingIsExact
<1> SUFFICES ASSUME Init PROVE ListingIsExact
  OBVIOUS
<1>1. /\ has_next = TRUE /\ next_token = 0 /\ page = List!NoPage
      /\ listed = {} /\ again = FALSE /\ begun = FALSE /\ steady = {}
  BY DEF Init, List!PagerInit
<1>2. /\ page = [at |-> "idle", items |-> {}, given |-> FALSE, token |-> 0]
      /\ page.at = "idle"
  BY <1>1 DEF List!NoPage
<1>3. List!PagerTypeOK
  <2>1. page \in [at : {"idle", "sent", "answered"}, items : SUBSET Nat,
                  given : BOOLEAN, token : Nat]
    BY <1>2
  <2> QED BY <1>1, <2>1, Zenon DEF List!PagerTypeOK
<1>4. List!IsListedOnce /\ List!IsComplete
  BY <1>1 DEF List!IsListedOnce, List!IsComplete
<1>5. List!CursorInStep
  BY <1>1, <1>2 DEF List!CursorInStep
<1> QED BY <1>3, <1>4, <1>5 DEF ListingIsExact

\* The page served is what follows the cursor, up to its token.
LEMMA PageServed ==
  ASSUME ListingIsExact, List!ServePage, Living' = Living
  PROVE  ListingIsExact'
<1> USE DEF ListingIsExact, List!PagerTypeOK, List!IsListedOnce, List!IsComplete
<1>1. /\ page.at = "sent" /\ UNCHANGED <<has_next, next_token, listed, again, begun, steady>>
      /\ begun /\ has_next
  BY DEF List!ServePage, List!CursorInStep
<1>2. /\ List!After(next_token) = {i \in Living : i > next_token}
      /\ List!After(next_token) \subseteq Nat /\ steady \subseteq Living
  BY LivingIsSome DEF List!After, List!CursorInStep
<1>3. CASE \E last \in List!After(next_token) :
             LET items == {i \in List!After(next_token) : i <= last}
             IN  page' = [at |-> "answered", items |-> items, given |-> TRUE, token |-> last]
  <2>1. PICK last \in List!After(next_token) :
          page' = [at |-> "answered", items |-> {i \in List!After(next_token) : i <= last},
                   given |-> TRUE, token |-> last]
    BY <1>3
  <2>2. last \in Nat /\ last > next_token /\ last # 0
    BY <1>2, LivingIsSome
  <2>3. List!PagerTypeOK'
    BY <1>1, <1>2, <2>1, <2>2
  <2>4. List!CursorInStep'
    BY <1>1, <1>2, <2>1, <2>2 DEF List!CursorInStep
  <2> QED BY <1>1, <2>3, <2>4
<1>4. CASE \E given \in BOOLEAN :
             page' = [at |-> "answered", items |-> List!After(next_token),
                      given |-> given, token |-> 0]
  <2>1. PICK given \in BOOLEAN :
          page' = [at |-> "answered", items |-> List!After(next_token),
                   given |-> given, token |-> 0]
    BY <1>4
  <2>2. List!PagerTypeOK'
    BY <1>1, <1>2, <2>1
  <2>3. List!CursorInStep'
    BY <1>1, <1>2, <2>1 DEF List!CursorInStep
  <2> QED BY <1>1, <2>2, <2>3
<1> QED BY <1>3, <1>4 DEF List!ServePage

\* What it brings is new, and ends the listing only when nothing is left out.
LEMMA PageReturned ==
  ASSUME ListingIsExact, List!ReturnPage, Living' = Living
  PROVE  ListingIsExact'
<1> USE DEF ListingIsExact, List!PagerTypeOK, List!IsListedOnce, List!IsComplete
<1>1. /\ page.at = "answered" /\ begun /\ has_next /\ ~ again
      /\ next_token' = page.token /\ has_next' = (page.given /\ page.token # 0)
      /\ listed' = listed \union page.items
      /\ again' = (again \/ page.items \intersect listed # {})
      /\ page' = List!NoPage /\ UNCHANGED <<begun, steady>>
  BY DEF List!ReturnPage, List!UpdateFromToken, List!CursorInStep
<1>2. /\ \A i \in page.items : i > next_token
      /\ \A i \in listed : i <= next_token
      /\ \A i \in steady : i <= next_token => i \in listed
      /\ page.token # 0 => page.given /\ \A i \in page.items : i <= page.token
      /\ page.token # 0 => page.token > next_token
      /\ \A i \in steady : i > next_token /\ (page.token = 0 \/ i <= page.token)
                             => i \in page.items
      /\ steady \subseteq Living
  BY <1>1 DEF List!CursorInStep
<1>3. page.items \subseteq Nat /\ page.token \in Nat
  OBVIOUS
<1>4. page.items \intersect listed = {}
  BY <1>2, <1>3
<1>5. \A i \in steady : i \in Nat /\ (page.token = 0 \/ i <= page.token => i \in listed')
  BY <1>1, <1>2
<1>6. List!PagerTypeOK' /\ List!IsListedOnce'
  BY <1>1, <1>3, <1>4 DEF List!NoPage
<1>7. List!IsComplete'
  BY <1>1, <1>2, <1>5
<1>8. List!CursorInStep'
  BY <1>1, <1>2, <1>3, <1>5 DEF List!CursorInStep, List!NoPage
<1> QED BY <1>6, <1>7, <1>8

LEMMA ListingSteps == ListingIsExact /\ [Next]_vars => ListingIsExact'
<1> SUFFICES ASSUME ListingIsExact, [Next]_vars PROVE ListingIsExact'
  OBVIOUS
<1> USE DEF List!PagerTypeOK, List!IsListedOnce, List!IsComplete, List!CursorInStep
<1>1. CASE List!PagerRests
  BY <1>1 DEF ListingIsExact, List!PagerRests
<1>2. CASE List!PagerNext /\ Living' = Living
  <2>1. CASE List!NextItems
    <3>1. /\ has_next /\ UNCHANGED <<has_next, next_token, listed, again>>
          /\ page' = [at |-> "sent", items |-> {}, given |-> FALSE, token |-> 0]
          /\ begun' = TRUE /\ steady' = (IF begun THEN steady ELSE Living)
      BY <2>1 DEF List!NextItems, List!NoPage
    <3>2. steady' \subseteq Living /\ steady' \subseteq Nat
      BY <3>1, LivingIsSome DEF ListingIsExact
    <3>3. \A i \in steady' : i <= next_token => i \in listed
      <4>1. CASE begun
        BY <3>1, <4>1 DEF ListingIsExact
      <4>2. CASE ~ begun
        BY <3>1, <4>2, LivingIsSome DEF ListingIsExact
      <4> QED BY <4>1, <4>2
    <3>4. List!PagerTypeOK' /\ List!IsListedOnce' /\ List!IsComplete'
      BY <3>1, <3>2 DEF ListingIsExact
    <3>5. List!CursorInStep'
      BY <1>2, <3>1, <3>2, <3>3 DEF ListingIsExact
    <3> QED BY <3>4, <3>5 DEF ListingIsExact
  <2>2. CASE List!LosePage
    BY <1>2, <2>2 DEF List!LosePage, List!NoPage, ListingIsExact
  <2> QED BY <1>2, <2>1, <2>2, PageServed, PageReturned DEF List!PagerNext
<1>3. CASE UNCHANGED vars
  BY <1>3 DEF vars, plane, pager, Living, ListingIsExact
<1>4. Lists => Living' = Living
  BY DEF Lists, plane, Living
<1> QED BY <1>1, <1>2, <1>3, <1>4 DEF Next, Lists

\* No sandbox is listed twice, and a listing that ends leaves out none that was
\* there all along, whatever pages are lost and whatever comes and goes.
THEOREM ExactListing == Spec => []ListingIsExact
<1>1. Spec => Init /\ [][Next]_vars
  BY DEF Spec
<1> QED
  BY <1>1, ListingBegins, ListingSteps, PTL
===============================================================================
