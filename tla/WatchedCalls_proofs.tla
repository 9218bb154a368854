-------------------------- MODULE WatchedCalls_proofs --------------------------
(***************************************************************************)
(* Proofs about calls, about a watch, and about the two side by side.      *)
(*                                                                         *)
(* RemoteCalls implements AtomicCalls, whatever the server and however     *)
(* many callers and calls, if each request by itself is answered as        *)
(* promised; and the four servers, with what the SDK makes of their        *)
(* answers, do.  A WatchHandle keeps its events in order, for every set of *)
(* kinds, every capacity of the channel and every bound.  Neither disturbs *)
(* the other, so that what is proved of each alone holds of both together. *)
(***************************************************************************)
EXTENDS WatchedCalls, Filesystem, Volume, Processes, TemplateTags,
        SequenceTheorems, WellFoundedInduction, TLAPS

-----------------------------------------------------------------------------
(* Calls.                                                                  *)

\* A call has its four fields, and is at one of its four stages.
Shaped(k) == /\ k = [at |-> k.at, request |-> k.request, answer |-> k.answer,
                     result |-> k.result]
             /\ k.at \in {"idle", "made", "answered", "returned"}

Learnt(k) == Learns(k.request, Result(k.request, k.answer))

CallsInv(Stores, Requests, Things) ==
  /\ store \in Stores /\ known \subseteq Things
  /\ call = [c \in Callers |-> call[c]]
  /\ \A c \in Callers : /\ Shaped(call[c])
                        /\ call[c].at = "made" => call[c].request \in Requests
                        /\ call[c].at = "answered" => Learnt(call[c]) \subseteq Things
  /\ \A x \in adrift : x[2] \in Requests

\* The stores and requests there can be, and what there is to know.
Closed(Stores, Requests, Things) ==
  /\ \A s : Starts(s) => s \in Stores /\ Given(s) \subseteq Things
  /\ \A s \in Stores :
       /\ Drift(s) \subseteq Stores
       /\ \A k \in SUBSET Things : Asks(s, k) \subseteq Requests
       /\ \A r \in Requests : \A o \in Serve(s, r) :
            o.store \in Stores /\ Learns(r, Result(r, o.answer)) \subseteq Things

\* Each request by itself is answered as promised.
EachIsKept(Stores, Requests) ==
  \A s \in Stores, r \in Requests :
    /\ \A result \in Refuses(s, r) : Refusable(s, r, result)
    /\ Refuses(s, r) = {} =>
         \A o \in Serve(s, r) : Promises(s, r, o.store, Result(r, o.answer))

LEMMA InvInit ==
  ASSUME NEW Stores, NEW Requests, NEW Things, Closed(Stores, Requests, Things), CallsInit
  PROVE  CallsInv(Stores, Requests, Things)
BY DEF CallsInit, CallsInv, Closed, Shaped, NoCall

LEMMA InvStep ==
  ASSUME NEW Stores, NEW Requests, NEW Things, Closed(Stores, Requests, Things),
         CallsInv(Stores, Requests, Things), [CallsNext]_callVars
  PROVE  CallsInv(Stores, Requests, Things)'
<1> USE DEF CallsInv
<1>1. ASSUME NEW c \in Callers, Makes(c) PROVE CallsInv(Stores, Requests, Things)'
  <2>1. PICK r \in Asks(store, known) :
           call' = [call EXCEPT ![c] = [NoCall EXCEPT !.at = "made", !.request = r]]
    BY <1>1 DEF Makes
  <2>2. r \in Requests
    BY <2>1 DEF Closed
  <2>3. UNCHANGED <<store, adrift, known>>
    BY <1>1 DEF Makes
  <2> QED BY <2>1, <2>2, <2>3 DEF Shaped, NoCall
<1>2. ASSUME NEW c \in Callers, Refused(c) PROVE CallsInv(Stores, Requests, Things)'
  <2>1. /\ UNCHANGED <<store, adrift, known>>
        /\ \E result : call' = [call EXCEPT ![c] = [NoCall EXCEPT !.at = "returned",
                                                                  !.result = result]]
    BY <1>2 DEF Refused, Comes
  <2> QED BY <2>1 DEF Shaped, NoCall
<1>3. ASSUME NEW c \in Callers, Served(c) PROVE CallsInv(Stores, Requests, Things)'
  <2>1. PICK o \in Serve(store, call[c].request) :
           /\ store' = o.store
           /\ call' = [call EXCEPT ![c] = [NoCall EXCEPT !.at = "answered",
                         !.answer = o.answer, !.request = call[c].request]]
    BY <1>3 DEF Served
  <2>2. call[c].request \in Requests /\ UNCHANGED adrift
    BY <1>3 DEF Served
  <2>3. /\ store' \in Stores
        /\ Learns(call[c].request, Result(call[c].request, o.answer)) \subseteq Things
    BY <2>1, <2>2 DEF Closed
  <2>4. known' = known
    BY <1>3 DEF Served
  <2> QED BY <2>1, <2>2, <2>3, <2>4 DEF Shaped, NoCall, Learnt
<1>4. ASSUME NEW c \in Callers, Returns(c) PROVE CallsInv(Stores, Requests, Things)'
  <2>1. known' \subseteq Things
    BY <1>4 DEF Returns, Learnt
  <2>2. /\ UNCHANGED <<store, adrift>>
        /\ \E result : call' = [call EXCEPT ![c] = [NoCall EXCEPT !.at = "returned",
                                                                  !.result = result]]
    BY <1>4 DEF Returns, Comes
  <2> QED BY <2>1, <2>2 DEF Shaped, NoCall
<1>5. ASSUME NEW c \in Callers, Fails(c) PROVE CallsInv(Stores, Requests, Things)'
  <2>1. adrift' = adrift \/ adrift' = adrift \union {<<<<c, calls>>, call[c].request>>}
    BY <1>5 DEF Fails
  <2>2. adrift' # adrift => call[c].request \in Requests
    BY <1>5 DEF Fails
  <2>3. \A x \in adrift' : x[2] \in Requests
    BY <2>1, <2>2
  <2>4. /\ UNCHANGED <<store, known>>
        /\ call' = [call EXCEPT ![c] = [NoCall EXCEPT !.at = "returned", !.result = Lost]]
    BY <1>5 DEF Fails, Comes
  <2> QED BY <2>3, <2>4 DEF Shaped, NoCall
<1>6. CASE ServesAdrift
  BY <1>6 DEF ServesAdrift, Closed, Learnt
<1>7. CASE Drifts
  BY <1>7 DEF Drifts, Closed, Learnt
<1>8. CASE UNCHANGED callVars
  BY <1>8 DEF callVars, Learnt
<1> QED BY <1>1, <1>2, <1>3, <1>4, <1>5, <1>6, <1>7, <1>8 DEF CallsNext, CallStep
-----------------------------------------------------------------------------
(* The refinement mapping: every step of RemoteCalls is one of AtomicCalls.*)

Bar == [c \in Callers |-> Promised(call[c])]

\* The mapping follows the call of the caller that moves.
LEMMA BarMoves ==
  ASSUME NEW c \in Callers, NEW k, call = [x \in Callers |-> call[x]],
         call' = [call EXCEPT ![c] = k]
  PROVE  Bar' = [Bar EXCEPT ![c] = Promised(k)]
BY DEF Bar

LEMMA StepsAreAtomic ==
  ASSUME NEW Stores, NEW Requests, NEW Things, Closed(Stores, Requests, Things),
         EachIsKept(Stores, Requests),
         CallsInv(Stores, Requests, Things), [CallsNext]_callVars
  PROVE  [Atomic!Next]_(Atomic!vars)
<1> USE DEF CallsInv
<1>1. ASSUME NEW c \in Callers, Makes(c) PROVE Atomic!Begins(c)
  <2>1. PICK r \in Asks(store, known) :
           call' = [call EXCEPT ![c] = [NoCall EXCEPT !.at = "made", !.request = r]]
    BY <1>1 DEF Makes
  <2>2. Bar' = [Bar EXCEPT ![c] = [at |-> "out", request |-> r, result |-> <<"none">>]]
    BY <2>1, BarMoves DEF Promised, NoCall
  <2>3. Bar[c].at \in {"idle", "back"}
    BY <1>1 DEF Makes, Idle, Bar, Promised
  <2>4. Bar'[c].request = r
    BY <2>2 DEF Bar
  <2> QED BY <1>1, <2>2, <2>3, <2>4
          DEF Makes, Bar, Atomic!Begins, Atomic!Becomes
<1>2. ASSUME NEW c \in Callers, Refused(c) PROVE Atomic!Refused(c)
  <2>1. PICK result \in Refuses(store, call[c].request) :
           call' = [call EXCEPT ![c] = [NoCall EXCEPT !.at = "returned", !.result = result]]
    BY <1>2 DEF Refused, Comes
  <2>2. Bar' = [Bar EXCEPT ![c] = [at |-> "back", request |-> NoRequest, result |-> result]]
    BY <2>1, BarMoves DEF Promised, NoCall
  <2>3. Bar[c].at = "out" /\ Bar[c].request = call[c].request /\ Bar'[c].result = result
    BY <1>2, <2>2 DEF Refused, Bar, Promised
  <2>4. Refusable(store, call[c].request, result)
    BY <1>2, <2>1 DEF Refused, EachIsKept
  <2> QED BY <1>2, <2>2, <2>3, <2>4
          DEF Refused, Bar, Atomic!Refused, Atomic!Comes, Atomic!Becomes,
              Atomic!NoRequest, NoRequest
<1>3. ASSUME NEW c \in Callers, Served(c) PROVE Atomic!TakesEffect(c)
  <2> DEFINE r == call[c].request
  <2>1. PICK o \in Serve(store, r) :
           /\ store' = o.store
           /\ call' = [call EXCEPT ![c] = [NoCall EXCEPT !.at = "answered",
                         !.answer = o.answer, !.request = call[c].request]]
    BY <1>3 DEF Served
  <2>2. Bar' = [Bar EXCEPT ![c] = [at |-> "done", request |-> r, result |-> Result(r, o.answer)]]
    BY <2>1, BarMoves DEF Promised, NoCall
  <2>3. Bar[c].at = "out" /\ Bar[c].request = r /\ Bar'[c].result = Result(r, o.answer)
    <3>1. Bar'[c] = [at |-> "done", request |-> r, result |-> Result(r, o.answer)]
      BY <2>2 DEF Bar
    <3> QED BY <1>3, <3>1 DEF Served, Bar, Promised
  <2>4. Promises(store, r, store', Result(r, o.answer))
    BY <1>3, <2>1 DEF Served, EachIsKept
  <2> QED BY <1>3, <2>1, <2>2, <2>3, <2>4
          DEF Served, Bar, Atomic!TakesEffect, Atomic!Becomes
<1>4. ASSUME NEW c \in Callers, Returns(c) PROVE Atomic!Returns(c)
  <2> DEFINE result == Result(call[c].request, call[c].answer)
  <2>1. call' = [call EXCEPT ![c] = [NoCall EXCEPT !.at = "returned", !.result = result]]
    BY <1>4 DEF Returns, Comes
  <2>2. Bar' = [Bar EXCEPT ![c] = [at |-> "back", request |-> NoRequest, result |-> result]]
    BY <2>1, BarMoves DEF Promised, NoCall
  <2>3. Bar[c].at = "done" /\ Bar[c].result = result
    BY <1>4 DEF Returns, Bar, Promised
  <2> QED BY <1>4, <2>2, <2>3
          DEF Returns, Bar, Atomic!Returns, Atomic!Comes, Atomic!Becomes,
              Atomic!NoRequest, NoRequest
<1>5. ASSUME NEW c \in Callers, Fails(c) PROVE Atomic!Fails(c)
  <2>1. call' = [call EXCEPT ![c] = [NoCall EXCEPT !.at = "returned", !.result = Lost]]
    BY <1>5 DEF Fails, Comes
  <2>2. Bar' = [Bar EXCEPT ![c] = [at |-> "back", request |-> NoRequest, result |-> Lost]]
    BY <2>1, BarMoves DEF Promised, NoCall
  <2>3. /\ Bar[c].at \in {"out", "done"}
        /\ call[c].at = "made" => Bar[c].at = "out" /\ Bar[c].request = call[c].request
    BY <1>5 DEF Fails, Bar, Promised
  <2>4. \/ UNCHANGED adrift
        \/ /\ call[c].at = "made"
           /\ adrift' = adrift \union {<<<<c, calls>>, call[c].request>>}
    BY <1>5 DEF Fails
  <2>5. \/ UNCHANGED adrift
        \/ /\ Bar[c].at = "out"
           /\ \E x \in adrift' : adrift' = adrift \union {x} /\ x[2] = Bar[c].request
    <3> DEFINE x == <<<<c, calls>>, call[c].request>>
    <3>1. CASE UNCHANGED adrift
      BY <3>1
    <3>2. CASE call[c].at = "made" /\ adrift' = adrift \union {x}
      <4>1. x \in adrift' /\ x[2] = Bar[c].request /\ Bar[c].at = "out"
        BY <3>2, <2>3
      <4> QED BY <3>2, <4>1
    <3> QED BY <2>4, <3>1, <3>2
  <2> QED BY <1>5, <2>2, <2>3, <2>5
          DEF Fails, Bar, Atomic!Fails, Atomic!Comes, Atomic!Becomes,
              Atomic!NoRequest, NoRequest, Atomic!Lost, Lost
<1>6. CASE ServesAdrift
  <2>1. Atomic!Strays
    BY <1>6 DEF ServesAdrift, Atomic!Strays
  <2> QED BY <2>1 DEF Atomic!Next
<1>7. CASE Drifts
  BY <1>7 DEF Drifts, Atomic!Drifts, Atomic!Next
<1>8. CASE UNCHANGED callVars
  BY <1>8 DEF callVars, Atomic!vars
<1> QED BY <1>1, <1>2, <1>3, <1>4, <1>5, <1>6, <1>7, <1>8
        DEF CallsNext, CallStep, Atomic!Next

\* Concurrency, loss and giving up add nothing that can go wrong: if every request,
\* served alone, is answered as the documentation promises, then every behaviour of
\* the callers is one in which each call takes effect at one moment, as promised.
THEOREM CallsAreAtomicIfEachIsKept ==
  ASSUME NEW Stores, NEW Requests, NEW Things,
         Closed(Stores, Requests, Things), EachIsKept(Stores, Requests)
  PROVE  CallsSpec => CallsAreAtomic
<1>1. CallsInit => Atomic!Init
  BY DEF CallsInit, Atomic!Init, Atomic!Nothing, NoCall, Promised, NoRequest,
         Atomic!NoRequest
<1>2. CallsInit => CallsInv(Stores, Requests, Things)
  BY InvInit
<1>3. CallsInv(Stores, Requests, Things) /\ [CallsNext]_callVars => CallsInv(Stores, Requests, Things)'
  BY InvStep
<1>4. CallsInv(Stores, Requests, Things) /\ [CallsNext]_callVars => [Atomic!Next]_(Atomic!vars)
  BY StepsAreAtomic
<1> QED BY <1>1, <1>2, <1>3, <1>4, PTL DEF CallsSpec, CallsAreAtomic, Atomic!Spec

-----------------------------------------------------------------------------
(* What the clients make of the responses of a server.                     *)

\* What the clients make of the responses the servers give.
LEMMA Readings ==
  /\ \A v : Rest(Success(v)) = Ok(v) /\ Unary(Success(v)) = Ok(v)
  /\ Rest(Garbled) = Err("Internal") /\ Unary(Garbled) = Err("Internal")
  /\ \A n \in Nat \ (200..299) : Rest(Bare(n)) = Err(FromStatus(n))
  /\ \A n \in Nat \ (200..299) : Unary(Bare(n)) = Err(MapCodeToError(FromHttpStatus(n)))
  /\ \A n \in Nat \ (200..299) : \A x : Unary(Named(n, x)) = Err(MapCodeToError(FromName(x)))
  /\ \A n \in Nat \ (200..299) : \A m : Unary(Numbered(n, m)) = Err(MapCodeToError(FromHttpStatus(m)))
BY DEF Rest, Unary, Decoded, Success, Bare, Named, Numbered, Garbled, ParseConnectError

\* A result is told apart by its first component, and told by its second.
LEMMA OkOrErr ==
  /\ \A v : Ok(v)[1] = "ok" /\ Ok(v)[2] = v
  /\ \A e : Err(e)[1] = "err" /\ Err(e)[2] = e
BY DEF Ok, Err

-----------------------------------------------------------------------------
(* The control plane, and the tags of templates.                           *)

\* The templates there can be, and the requests about them.
TagServers ==
  [api : {"tags"}, owner : [Names -> {"nobody", "mine", "theirs"}],
   tag : [Names -> [Tags -> Builds \union {"none"}]]]
TagAsked ==
  [op : {"exists", "alias_exists", "assign_tags", "remove_tags", "get_tags"}, name : Names,
   build : Builds \union {"none"}, tags : SUBSET Tags]

\* Tags that are pointed to a build are.
LEMMA Pointed ==
  ASSUME NEW s \in TagServers, NEW n \in Names, NEW ts \in SUBSET Tags,
         NEW b \in Builds \union {"none"}
  PROVE  Point(s, n, ts, b) \in TagServers /\ \A t \in ts : Point(s, n, ts, b).tag[n][t] = b
<1> DEFINE row == [t \in Tags |-> IF t \in ts THEN b ELSE s.tag[n][t]]
<1>1. row \in [Tags -> Builds \union {"none"}] /\ \A t \in ts : row[t] = b
  BY DEF TagServers
<1> HIDE DEF row
<1>2. Point(s, n, ts, b) = [s EXCEPT !.tag[n] = row]
  BY DEF Point, row
<1> DEFINE tag == [s.tag EXCEPT ![n] = row]
<1>3. Point(s, n, ts, b) = [s EXCEPT !.tag = tag]
  BY <1>2
<1>4. tag \in [Names -> [Tags -> Builds \union {"none"}]] /\ tag[n] = row
  BY <1>1 DEF TagServers
<1> HIDE DEF tag
<1> QED BY <1>1, <1>3, <1>4 DEF TagServers

\* What the SDK makes of the answers there are about tags.
LEMMA TagResults ==
  ASSUME NEW r
  PROVE  /\ \A v : TagResult(r, Success(v)) = IF r.op \in Existence THEN Ok("true")
                     ELSE IF r.op = "remove_tags" THEN Ok("none") ELSE Ok(v)
         /\ TagResult(r, Garbled) = IF r.op \in Existence THEN Ok("true")
                     ELSE IF r.op = "remove_tags" THEN Ok("none") ELSE Err("Internal")
         /\ TagResult(r, Bare(404)) = IF r.op \in Existence THEN Ok("false") ELSE Err("NotFound")
         /\ TagResult(r, Bare(403)) = IF r.op \in Existence THEN Ok("true") ELSE Err("Forbidden")
         /\ TagResult(r, Bare(401)) = Err("Authentication")
         /\ TagResult(r, Bare(429)) = Err("RateLimit")
         /\ TagResult(r, Bare(500)) = Err("Sandbox")
<1>1. /\ \A v : Success(v).http = 200
      /\ Garbled.http = 200 /\ \A n : Bare(n).http = n
  BY DEF Success, Garbled, Bare
<1>2. /\ \A v : NoBody(Success(v)) = Ok("none")
      /\ NoBody(Garbled) = Ok("none")
      /\ NoBody(Bare(404)) = Err("NotFound")
      /\ NoBody(Bare(403)) = Err("Forbidden")
      /\ NoBody(Bare(401)) = Err("Authentication")
      /\ NoBody(Bare(429)) = Err("RateLimit")
      /\ NoBody(Bare(500)) = Err("Sandbox")
  BY <1>1, Readings DEF NoBody, FromStatus
<1>3. /\ Rest(Bare(404)) = Err("NotFound")
      /\ Rest(Bare(403)) = Err("Forbidden")
      /\ Rest(Bare(401)) = Err("Authentication")
      /\ Rest(Bare(429)) = Err("RateLimit")
      /\ Rest(Bare(500)) = Err("Sandbox")
  BY Readings DEF FromStatus
<1>4. /\ \A v : AliasExists(Success(v)) = Ok("true")
      /\ AliasExists(Garbled) = Ok("true")
      /\ AliasExists(Bare(404)) = Ok("false")
      /\ AliasExists(Bare(403)) = Ok("true")
      /\ AliasExists(Bare(401)) = Err("Authentication")
      /\ AliasExists(Bare(429)) = Err("RateLimit")
      /\ AliasExists(Bare(500)) = Err("Sandbox")
  BY <1>2 DEF AliasExists, OnError, Ok, Err
<1> QED BY <1>2, <1>3, <1>4, Readings DEF TagResult, Existence

\* What the control plane makes of a request, and of which templates.
LEMMA TagServed ==
  ASSUME NEW s \in TagServers, NEW r \in TagAsked, NEW x \in ServeTags(s, r)
  PROVE  \/ s.owner[r.name] = "nobody" /\ x = [store |-> s, answer |-> Bare(404)]
         \/ s.owner[r.name] = "theirs" /\ x = [store |-> s, answer |-> Bare(403)]
         \/ s.owner[r.name] = "mine" /\
            \/ r.op \in Existence /\ x = [store |-> s, answer |-> Success("none")]
            \/ r.op = "assign_tags" /\ x = [store |-> Point(s, r.name, r.tags, r.build),
                                            answer |-> Success(<<r.build, r.tags>>)]
            \/ r.op = "remove_tags" /\ x = [store |-> Point(s, r.name, r.tags, "none"),
                                            answer |-> Success("none")]
            \/ r.op = "get_tags" /\ x = [store |-> s, answer |-> Success(Assigned(s, r.name))]
<1>1. s.owner[r.name] \in {"nobody", "mine", "theirs"}
  BY DEF TagServers, TagAsked
<1>2. r.op \in {"exists", "alias_exists", "assign_tags", "remove_tags", "get_tags"}
  BY DEF TagAsked
<1>3. CASE s.owner[r.name] = "nobody"
  BY <1>3 DEF ServeTags, TagReply
<1>4. CASE s.owner[r.name] = "theirs"
  BY <1>4 DEF ServeTags, TagReply
<1>5. CASE s.owner[r.name] = "mine"
  <2>1. CASE r.op \in Existence
    BY <1>5, <2>1 DEF ServeTags, TagReply
  <2>2. CASE r.op = "assign_tags"
    BY <1>5, <2>2 DEF ServeTags, TagReply
  <2>3. CASE r.op = "remove_tags"
    BY <1>5, <2>3 DEF ServeTags, TagReply
  <2>4. CASE r.op = "get_tags"
    BY <1>5, <2>4 DEF ServeTags, TagReply
  <2> QED BY <1>2, <2>1, <2>2, <2>3, <2>4 DEF Existence
<1> QED BY <1>1, <1>3, <1>4, <1>5

\* A request about tags, alone: what the SDK makes of its answer is as promised.
LEMMA TagsAreKept ==
  ASSUME NEW s \in TagServers, NEW r \in TagAsked, NEW o \in TagServe(s, r)
  PROVE  o.store \in TagServers /\ TagPromises(s, r, o.store, TagResult(r, o.answer))
<1>1. PICK x \in ServeTags(s, r) :
        \/ o = x
        \/ x.answer.http = 200 /\ o = [x EXCEPT !.answer = Garbled]
        \/ o.store = s /\ o.answer \in {Bare(401), Bare(429), Bare(500)}
  <2>1. \/ o \in ServeTags(s, r)
        \/ \E x \in ServeTags(s, r) : x.answer.http = 200 /\ o = [x EXCEPT !.answer = Garbled]
        \/ o.store = s /\ o.answer \in {Bare(401), Bare(429), Bare(500)}
    BY DEF TagServe, TagReply
  <2>2. ServeTags(s, r) # {}
    <3>1. \/ r.op \in Existence
          \/ r.op \notin Existence /\ r.op \in {"assign_tags", "remove_tags", "get_tags"}
      BY DEF TagAsked, Existence
    <3> QED BY <3>1 DEF ServeTags, TagReply
  <2> QED BY <2>1, <2>2
<1>2. \/ s.owner[r.name] = "nobody" /\ x = [store |-> s, answer |-> Bare(404)]
      \/ s.owner[r.name] = "theirs" /\ x = [store |-> s, answer |-> Bare(403)]
      \/ s.owner[r.name] = "mine" /\ 
         \/ r.op \in Existence /\ x = [store |-> s, answer |-> Success("none")]
         \/ r.op = "assign_tags" /\ x = [store |-> Point(s, r.name, r.tags, r.build),
                                         answer |-> Success(<<r.build, r.tags>>)]
         \/ r.op = "remove_tags" /\ x = [store |-> Point(s, r.name, r.tags, "none"),
                                         answer |-> Success("none")]
         \/ r.op = "get_tags" /\ x = [store |-> s, answer |-> Success(Assigned(s, r.name))]
  BY TagServed
<1>3. CASE o.store = s /\ o.answer \in {Bare(401), Bare(429), Bare(500)}
  BY <1>3, TagResults, OkOrErr DEF TagPromises
<1>4. CASE o = x \/ (x.answer.http = 200 /\ o = [x EXCEPT !.answer = Garbled])
  <2>1. o.store = x.store /\ (o.answer = x.answer \/ (x.answer.http = 200 /\ o.answer = Garbled))
    BY <1>2, <1>4
  <2>2. CASE x = [store |-> s, answer |-> Bare(404)] /\ s.owner[r.name] = "nobody"
    <3>1. Bare(404).http # 200
      BY DEF Bare
    <3>2. o.answer = Bare(404) /\ o.store = s
      BY <2>1, <2>2, <3>1
    <3>3. CASE r.op \in Existence
      <4>1. TagResult(r, o.answer) = Ok("false")
        BY <3>2, <3>3, TagResults
      <4>2. TagMeans(s, r, o.store, "false")
        BY <2>2, <3>2, <3>3 DEF TagMeans, Existence
      <4> QED BY <3>2, <4>1, <4>2, OkOrErr DEF TagPromises
    <3>4. CASE r.op \notin Existence
      <4>1. TagResult(r, o.answer) = Err("NotFound")
        BY <3>2, <3>4, TagResults
      <4> QED BY <2>2, <3>2, <3>4, <4>1, OkOrErr DEF TagPromises
    <3> QED BY <3>3, <3>4
  <2>3. CASE x = [store |-> s, answer |-> Bare(403)] /\ s.owner[r.name] = "theirs"
    <3>1. Bare(403).http # 200
      BY DEF Bare
    <3>2. o.answer = Bare(403) /\ o.store = s
      BY <2>1, <2>3, <3>1
    <3>3. CASE r.op \in Existence
      <4>1. TagResult(r, o.answer) = Ok("true")
        BY <3>2, <3>3, TagResults
      <4>2. TagMeans(s, r, o.store, "true")
        BY <2>3, <3>2, <3>3 DEF TagMeans, Existence
      <4> QED BY <3>2, <4>1, <4>2, OkOrErr DEF TagPromises
    <3>4. CASE r.op \notin Existence
      <4>1. TagResult(r, o.answer) = Err("Forbidden")
        BY <3>2, <3>4, TagResults
      <4> QED BY <2>3, <3>2, <3>4, <4>1, OkOrErr DEF TagPromises
    <3> QED BY <3>3, <3>4
  <2>4. CASE s.owner[r.name] = "mine"
    <3>1. PICK v : x.answer = Success(v) /\ (r.op = "assign_tags" => v = <<r.build, r.tags>>)
                                         /\ (r.op = "get_tags" => v = Assigned(s, r.name))
      BY <1>2, <2>4 DEF Existence
    <3>2. o.answer = Success(v) \/ o.answer = Garbled
      BY <2>1, <3>1
    <3>3. /\ o.store \in TagServers
          /\ r.op \in {"exists", "alias_exists", "get_tags"} => o.store = s
          /\ r.op = "assign_tags" => \A t \in r.tags : o.store.tag[r.name][t] = r.build
          /\ r.op = "remove_tags" => \A t \in r.tags : o.store.tag[r.name][t] = "none"
      BY <1>2, <2>1, <2>4, Pointed DEF TagAsked, Existence
    <3>4. r.op \in {"exists", "alias_exists", "assign_tags", "remove_tags", "get_tags"}
      BY DEF TagAsked
    <3> HIDE DEF TagServers
    <3>5. CASE TagResult(r, o.answer) = Err("Internal")
      BY <3>3, <3>5, OkOrErr DEF TagPromises
    <3>6. CASE TagResult(r, o.answer) # Err("Internal")
      <4>1. CASE r.op \in Existence
        <5>1. TagResult(r, o.answer) = Ok("true")
          BY <3>2, <4>1, TagResults
        <5>2. o.store = s
          BY <3>3, <4>1 DEF Existence
        <5>3. s.owner[r.name] # "nobody"
          BY <2>4
        <5>4. TagMeans(s, r, o.store, "true")
          BY <4>1, <5>2, <5>3 DEF TagMeans, Existence
        <5> QED BY <3>3, <5>1, <5>4, OkOrErr DEF TagPromises
      <4>2. CASE r.op = "remove_tags"
        <5>1. TagResult(r, o.answer) = Ok("none") /\ TagMeans(s, r, o.store, "none")
          BY <2>4, <3>2, <3>3, <4>2, TagResults DEF TagMeans, Existence
        <5> QED BY <3>3, <5>1, OkOrErr DEF TagPromises
      <4>3. CASE r.op \in {"assign_tags", "get_tags"}
        <5>1. TagResult(r, o.answer) = Ok(v)
          BY <3>2, <3>6, <4>3, TagResults DEF Existence
        <5>2. TagMeans(s, r, o.store, v)
          BY <3>1, <3>3, <4>3 DEF TagMeans, Existence
        <5> QED BY <3>3, <5>1, <5>2, OkOrErr DEF TagPromises
      <4> QED BY <3>4, <4>1, <4>2, <4>3 DEF Existence
    <3> QED BY <3>5, <3>6
  <2> QED BY <1>2, <2>2, <2>3, <2>4
<1> QED BY <1>1, <1>3, <1>4

-----------------------------------------------------------------------------
(* envd, and the processes of a sandbox.                                   *)

\* The processes there can be, what is written to them, and the requests about them.
ProcServers(Input) ==
  [api : {"processes"}, version : Int,
   proc : [Pids -> [at : {"unborn", "running", "ended"}, pty : BOOLEAN,
                    input : {"open", "shut"}, got : Seq(Input)]]]
ProcAsked(Input, Users) ==
  [op : {"start"}, pid : Nat, user : Users, arg : [pty : BOOLEAN, stdin : {"unset", "on", "off"}]]
  \union [op : {"send_input"}, pid : Nat, user : Users, arg : [pty : BOOLEAN, data : Input]]
  \union [op : {"list", "kill", "connect", "resize", "close_stdin"}, pid : Nat, user : Users,
          arg : {0}]

\* What the SDK makes of the answers there are.
LEMMA ProcResults ==
  ASSUME NEW r
  PROVE  /\ \A v : ProcResult(r, Success(v)) = IF r.op = "kill" THEN Ok("true") ELSE Ok(v)
         /\ ProcResult(r, Garbled) = Err("Internal")
         /\ ProcResult(r, Named(404, "not_found"))
              = IF r.op = "kill" THEN Ok("false") ELSE Err("NotFound")
         /\ ProcResult(r, Named(400, "failed_precondition")) = Err("Sandbox")
         /\ ProcResult(r, Bare(429)) = Err("RateLimit")
         /\ ProcResult(r, Bare(502)) = Err("Timeout")
         /\ ProcResult(r, Named(409, "aborted")) = Err("Sandbox")
         /\ ProcResult(r, Numbered(500, 503)) = Err("Timeout")
<1>1. /\ \A v : Unary(Success(v)) = Ok(v)
      /\ Unary(Garbled) = Err("Internal")
      /\ Unary(Named(404, "not_found")) = Err(MapCodeToError(FromName("not_found")))
      /\ Unary(Named(400, "failed_precondition")) = Err(MapCodeToError(FromName("failed_precondition")))
      /\ Unary(Bare(429)) = Err(MapCodeToError(FromHttpStatus(429)))
      /\ Unary(Bare(502)) = Err(MapCodeToError(FromHttpStatus(502)))
      /\ Unary(Named(409, "aborted")) = Err(MapCodeToError(FromName("aborted")))
      /\ Unary(Numbered(500, 503)) = Err(MapCodeToError(FromHttpStatus(503)))
  BY Readings
<1>2. /\ MapCodeToError(FromName("not_found")) = "NotFound"
      /\ MapCodeToError(FromName("failed_precondition")) = "Sandbox"
      /\ MapCodeToError(FromName("aborted")) = "Sandbox"
      /\ MapCodeToError(FromHttpStatus(429)) = "RateLimit"
      /\ MapCodeToError(FromHttpStatus(502)) = "Timeout"
      /\ MapCodeToError(FromHttpStatus(503)) = "Timeout"
  BY DEF MapCodeToError, FromName, FromHttpStatus, Codes
<1>3. CASE r.op = "kill"
  <2>1. \A a : ProcResult(r, a) = Kill(a)
    BY <1>3 DEF ProcResult
  <2>2. \A v : Kill(Success(v)) = Ok("true")
    BY <1>1, OkOrErr DEF Kill
  <2>3. \A a : \A e : Unary(a) = Err(e) => Kill(a) = IF e = "NotFound" THEN Ok("false") ELSE Err(e)
    BY OkOrErr DEF Kill, OnError
  <2> QED BY <1>1, <1>2, <1>3, <2>1, <2>2, <2>3
<1>4. CASE r.op # "kill"
  BY <1>1, <1>2, <1>4 DEF ProcResult
<1> QED BY <1>3, <1>4

Started(s, p, arg) == [s EXCEPT !.proc[p] = Born(s, arg)]
Shut(s, p) == [s EXCEPT !.proc[p].input = "shut"]

\* What a process may be changed into.
LEMMA ProcessesStay ==
  ASSUME NEW Input, NEW s \in ProcServers(Input), NEW p \in Pids
  PROVE  /\ Exited(s, p) \in ProcServers(Input) /\ Exited(s, p).proc[p].at = "ended"
         /\ \A arg \in [pty : BOOLEAN, stdin : {"unset", "on", "off"}] :
              Started(s, p, arg) \in ProcServers(Input) /\ Started(s, p, arg).proc[p] = Born(s, arg)
         /\ \A d \in Input : [s EXCEPT !.proc[p].got = Append(@, d)] \in ProcServers(Input)
         /\ Shut(s, p) \in ProcServers(Input) /\ Shut(s, p).proc[p].input = "shut"
<1> DEFINE Process == [at : {"unborn", "running", "ended"}, pty : BOOLEAN,
                       input : {"open", "shut"}, got : Seq(Input)]
           With(k) == [s EXCEPT !.proc = [s.proc EXCEPT ![p] = k]]
           q == s.proc[p]
<1>1. /\ s.proc \in [Pids -> Process] /\ q \in Process
      /\ \A k \in Process : With(k) \in ProcServers(Input) /\ With(k).proc[p] = k
  BY DEF ProcServers
<1>2. Exited(s, p) = With([q EXCEPT !.at = "ended", !.input = "shut"])
  BY <1>1 DEF Exited
<1>3. /\ [q EXCEPT !.at = "ended", !.input = "shut"] \in Process
      /\ [q EXCEPT !.at = "ended", !.input = "shut"].at = "ended"
  BY <1>1
<1>4. \A arg \in [pty : BOOLEAN, stdin : {"unset", "on", "off"}] : Born(s, arg) \in Process
  BY DEF Born
<1>5. \A d \in Input : [q EXCEPT !.got = Append(q.got, d)] \in Process
  <2>1. \A d \in Input : Append(q.got, d) \in Seq(Input)
    BY <1>1
  <2> QED BY <1>1, <2>1
<1>6. [q EXCEPT !.input = "shut"] \in Process /\ [q EXCEPT !.input = "shut"].input = "shut"
  BY <1>1
<1>7. \A d : [s EXCEPT !.proc[p].got = Append(@, d)] = With([q EXCEPT !.got = Append(q.got, d)])
  BY <1>1
<1>8. Shut(s, p) = With([q EXCEPT !.input = "shut"])
  BY <1>1 DEF Shut
<1>9. \A arg : Started(s, p, arg) = With(Born(s, arg))
  BY <1>1 DEF Started
<1> DEFINE ended == [q EXCEPT !.at = "ended", !.input = "shut"]
           shut == [q EXCEPT !.input = "shut"]
           more(d) == [q EXCEPT !.got = Append(q.got, d)]
<1>10. /\ ended \in Process /\ ended.at = "ended" /\ Exited(s, p) = With(ended)
       /\ shut \in Process /\ shut.input = "shut" /\ Shut(s, p) = With(shut)
       /\ \A d \in Input : more(d) \in Process /\ [s EXCEPT !.proc[p].got = Append(@, d)] = With(more(d))
  BY <1>2, <1>3, <1>5, <1>6, <1>7, <1>8
<1> HIDE DEF With, Process, ended, shut, more
<1>11. Exited(s, p) \in ProcServers(Input) /\ Exited(s, p).proc[p].at = "ended"
  BY <1>1, <1>10
<1>12. Shut(s, p) \in ProcServers(Input) /\ Shut(s, p).proc[p].input = "shut"
  BY <1>1, <1>10
<1>13. \A d \in Input : [s EXCEPT !.proc[p].got = Append(@, d)] \in ProcServers(Input)
  BY <1>1, <1>10
<1> QED BY <1>1, <1>4, <1>9, <1>11, <1>12, <1>13

\* What envd makes of a request, and of one that the SDK does not refuse.
LEMMA ProcServed ==
  ASSUME NEW Input, NEW Users, NEW s \in ProcServers(Input), NEW r \in ProcAsked(Input, Users),
         NEW x \in ServeProcess(s, r)
  PROVE  /\ x.store \in ProcServers(Input) /\ x = [store |-> x.store, answer |-> x.answer]
         /\ \/ ProcRefuses(s, r) # {}
            \/ /\ x.store = s /\ x.answer = Named(404, "not_found")
               /\ r.pid \notin Running(s) /\ r.op \notin {"start", "list"}
            \/ x.store = s /\ x.answer \in {Named(400, "failed_precondition"), Bare(429)}
            \/ \E v : /\ x.answer = Success(v)
                      /\ ProcMeans(s, r, x.store, IF r.op = "kill" THEN "true" ELSE v)
<1>1. /\ r.op \in {"start", "send_input", "list", "kill", "connect", "resize", "close_stdin"}
      /\ r.op = "start" => r.arg \in [pty : BOOLEAN, stdin : {"unset", "on", "off"}]
      /\ r.op = "send_input" => r.arg \in [pty : BOOLEAN, data : Input]
  BY DEF ProcAsked
<1>2. CASE r.op = "start"
  <2>1. PICK i \in Pids : /\ s.proc[i] = Unborn
                          /\ x = [store |-> Started(s, i, r.arg), answer |-> Success(i)]
    BY <1>2 DEF ServeProcess, ProcReply, Started
  <2> DEFINE s2 == Started(s, i, r.arg)
  <2>2. s2 \in ProcServers(Input) /\ s2.proc[i] = Born(s, r.arg)
    BY <1>1, <1>2, ProcessesStay
  <2>3. i \notin Running(s)
    BY <2>1 DEF Running, Unborn
  <2>4. /\ Born(s, r.arg).at = "running" /\ Born(s, r.arg).pty = r.arg.pty
        /\ r.arg.stdin = "on" /\ ~ r.arg.pty => Born(s, r.arg).input = "open"
        /\ ProcRefuses(s, r) = {} /\ r.arg.stdin = "off" /\ ~ r.arg.pty =>
             Born(s, r.arg).input = "shut"
    <3>1. ProcRefuses(s, r) = {} /\ r.arg.stdin = "off" /\ ~ r.arg.pty => VersionGte(s.version, ENVD_COMMANDS_STDIN)
      BY <1>2 DEF ProcRefuses
    <3> QED BY <3>1 DEF Born, Stdin
  <2> HIDE DEF s2
  <2>5. i \in Running(s2)
    BY <2>2, <2>4 DEF Running
  <2>6. ProcRefuses(s, r) = {} => ProcMeans(s, r, s2, i)
    BY <1>2, <2>2, <2>3, <2>4, <2>5 DEF ProcMeans
  <2>7. x = [store |-> s2, answer |-> Success(i)]
    BY <2>1 DEF s2
  <2> QED BY <1>2, <2>2, <2>6, <2>7
<1>3. CASE r.op = "list"
  <2>1. x = [store |-> s, answer |-> Success(Running(s))]
    BY <1>3 DEF ServeProcess, ProcReply
  <2>2. ProcMeans(s, r, s, Running(s))
    BY <1>3 DEF ProcMeans
  <2> QED BY <1>3, <2>1, <2>2
<1>4. CASE r.op \notin {"start", "list"}
  <2>1. CASE r.op = "close_stdin" /\ ~ VersionGte(s.version, ENVD_ENVD_CLOSE)
    <3>1. x = [store |-> s, answer |-> Bare(404)]
      BY <2>1 DEF ServeProcess, ProcReply
    <3>2. ProcRefuses(s, r) # {}
      BY <2>1 DEF ProcRefuses
    <3> QED BY <3>1, <3>2
  <2> DEFINE taken == ~ (r.op = "close_stdin" /\ ~ VersionGte(s.version, ENVD_ENVD_CLOSE))
  <2>2. CASE taken /\ r.pid \notin Running(s)
    <3>1. x = [store |-> s, answer |-> Named(404, "not_found")]
      BY <1>4, <2>2 DEF ServeProcess, ProcReply
    <3> QED BY <1>4, <2>2, <3>1
  <2>3. CASE taken /\ r.pid \in Running(s)
    <3>1. x \in ServeRunning(s, r.pid, r) /\ r.pid \in Pids
      BY <1>4, <2>3 DEF ServeProcess, Running
    <3>2. CASE r.op = "kill"
      <4>1. x = [store |-> Exited(s, r.pid), answer |-> Success("none")]
        BY <3>1, <3>2 DEF ServeRunning, ProcReply
      <4>2. Exited(s, r.pid) \in ProcServers(Input) /\ r.pid \notin Running(Exited(s, r.pid))
        BY <3>1, ProcessesStay DEF Running
      <4>3. ProcMeans(s, r, Exited(s, r.pid), "true")
        BY <2>3, <3>2, <4>2 DEF ProcMeans
      <4> QED BY <3>2, <4>1, <4>2, <4>3
    <3>3. CASE r.op = "connect"
      <4>1. x = [store |-> s, answer |-> Success(r.pid)]
        BY <3>1, <3>3 DEF ServeRunning, ProcReply
      <4>2. ProcMeans(s, r, s, r.pid)
        BY <2>3, <3>3 DEF ProcMeans
      <4> QED BY <3>3, <4>1, <4>2
    <3>4. CASE r.op = "resize"
      <4>1. \/ x = [store |-> s, answer |-> Success("none")] /\ s.proc[r.pid].pty
            \/ x = [store |-> s, answer |-> Named(400, "failed_precondition")]
        BY <3>1, <3>4 DEF ServeRunning, ProcReply
      <4>2. s.proc[r.pid].pty => ProcMeans(s, r, s, "none")
        BY <3>4 DEF ProcMeans
      <4> QED BY <3>4, <4>1, <4>2
    <3>5. CASE r.op = "send_input"
      <4> DEFINE s2 == [s EXCEPT !.proc[r.pid].got = Append(@, r.arg.data)]
      <4>1. \/ x = [store |-> s2, answer |-> Success("none")]
            \/ x = [store |-> s, answer |-> Named(400, "failed_precondition")]
            \/ x = [store |-> s, answer |-> Bare(429)]
        BY <3>1, <3>5 DEF ServeRunning, ProcReply
      <4>2. s2 \in ProcServers(Input)
        BY <1>1, <3>1, <3>5, ProcessesStay
      <4>3. ProcMeans(s, r, s2, "none")
        BY <3>5 DEF ProcMeans
      <4> HIDE DEF s2
      <4> QED BY <3>5, <4>1, <4>2, <4>3
    <3>6. CASE r.op = "close_stdin"
      <4> DEFINE s2 == Shut(s, r.pid)
      <4>1. \/ x = [store |-> s2, answer |-> Success("none")]
            \/ x = [store |-> s, answer |-> Named(400, "failed_precondition")]
        BY <3>1, <3>6 DEF ServeRunning, ProcReply, Shut
      <4>2. s2 \in ProcServers(Input) /\ s2.proc[r.pid].input = "shut"
        BY <3>1, ProcessesStay
      <4> HIDE DEF s2
      <4>3. ProcMeans(s, r, s2, "none")
        BY <3>6, <4>2 DEF ProcMeans
      <4> QED BY <3>6, <4>1, <4>2, <4>3
    <3> QED BY <1>1, <1>4, <3>2, <3>3, <3>4, <3>5, <3>6
  <2> QED BY <2>1, <2>2, <2>3
<1> QED BY <1>1, <1>2, <1>3, <1>4

\* A request about processes, alone, is refused or answered as promised.
LEMMA ProcessesAreKept ==
  ASSUME NEW Input, NEW Users, NEW s \in ProcServers(Input), NEW r \in ProcAsked(Input, Users)
  PROVE  /\ \A result \in ProcRefuses(s, r) : ProcPromises(s, r, s, result)
         /\ \A o \in ProcServe(s, r) : o.store \in ProcServers(Input)
         /\ ProcRefuses(s, r) = {} => \A o \in ProcServe(s, r) :
              ProcPromises(s, r, o.store, ProcResult(r, o.answer))
<1>1. ProcRefuses(s, r) = {} <=> ~ ProcUnsupported(s, r)
  BY DEF ProcRefuses, ProcUnsupported
<1>2. \A result \in ProcRefuses(s, r) : ProcPromises(s, r, s, result)
  BY DEF ProcRefuses, ProcUnsupported, ProcPromises
<1>3. ~ (User(s.version, r.user) = "none" /\ ~ VersionGte(s.version, ENVD_DEFAULT_USER))
  BY DEF User
<1>4. ASSUME NEW o \in ProcServe(s, r)
      PROVE  \/ o \in ServeProcess(s, r)
             \/ \E x \in ServeProcess(s, r) : x.answer.http = 200 /\ o = [x EXCEPT !.answer = Garbled]
             \/ o.store = s /\ o.answer \in ProcTroubles
  BY <1>3, <1>4 DEF ProcServe, ProcReply

<1>5. ASSUME NEW o \in ProcServe(s, r)
      PROVE  /\ o.store \in ProcServers(Input)
             /\ ProcRefuses(s, r) = {} => ProcPromises(s, r, o.store, ProcResult(r, o.answer))
  <2>1. CASE o.store = s /\ o.answer \in ProcTroubles
    <3>1. ProcResult(r, o.answer) \in {Err("Timeout"), Err("Sandbox")}
      BY <2>1, ProcResults DEF ProcTroubles
    <3> QED BY <1>1, <2>1, <3>1, OkOrErr DEF ProcPromises
  <2>2. ASSUME NEW x \in ServeProcess(s, r), o.store = x.store, o.answer = x.answer
        PROVE  /\ o.store \in ProcServers(Input)
               /\ ProcRefuses(s, r) = {} => ProcPromises(s, r, o.store, ProcResult(r, o.answer))
    <3> SUFFICES ASSUME ProcRefuses(s, r) = {}
                 PROVE  ProcPromises(s, r, o.store, ProcResult(r, o.answer))
      BY <2>2, ProcServed
    <3>1. CASE /\ o.store = s /\ o.answer = Named(404, "not_found")
               /\ r.pid \notin Running(s) /\ r.op \notin {"start", "list"}
      <4>1. CASE r.op = "kill"
        <5>1. ProcResult(r, o.answer) = Ok("false") /\ ProcMeans(s, r, o.store, "false")
          BY <3>1, <4>1, ProcResults DEF ProcMeans
        <5> QED BY <1>1, <5>1, OkOrErr DEF ProcPromises
      <4>2. CASE r.op # "kill"
        <5>1. ProcResult(r, o.answer) = Err("NotFound")
          BY <3>1, <4>2, ProcResults
        <5> QED BY <1>1, <3>1, <4>2, <5>1, OkOrErr DEF ProcPromises
      <4> QED BY <4>1, <4>2
    <3>2. CASE o.store = s /\ o.answer \in {Named(400, "failed_precondition"), Bare(429)}
      <4>1. ProcResult(r, o.answer) \in {Err("Sandbox"), Err("RateLimit")}
        BY <3>2, ProcResults
      <4> QED BY <1>1, <4>1, OkOrErr DEF ProcPromises
    <3>3. ASSUME NEW v, o.answer = Success(v),
                 ProcMeans(s, r, o.store, IF r.op = "kill" THEN "true" ELSE v)
          PROVE  ProcPromises(s, r, o.store, ProcResult(r, o.answer))
      <4>1. ProcResult(r, o.answer) = Ok(IF r.op = "kill" THEN "true" ELSE v)
        BY <3>3, ProcResults
      <4> QED BY <1>1, <3>3, <4>1, OkOrErr DEF ProcPromises
    <3> QED BY <2>2, <3>1, <3>2, <3>3, ProcServed
  <2>3. ASSUME NEW x \in ServeProcess(s, r), o = [x EXCEPT !.answer = Garbled]
        PROVE  /\ o.store \in ProcServers(Input)
               /\ ProcRefuses(s, r) = {} => ProcPromises(s, r, o.store, ProcResult(r, o.answer))
    <3>1. x = [store |-> x.store, answer |-> x.answer] /\ x.store \in ProcServers(Input)
      BY ProcServed
    <3>2. o.store = x.store /\ o.answer = Garbled
      BY <2>3, <3>1
    <3>3. ProcResult(r, o.answer) = Err("Internal")
      BY <3>2, ProcResults
    <3> QED BY <1>1, <3>1, <3>2, <3>3, OkOrErr DEF ProcPromises
  <2> QED BY <1>4, <2>1, <2>2, <2>3
<1> QED BY <1>2, <1>5

-----------------------------------------------------------------------------
(* Trees of files stay sound.                                              *)

\* What is there is in directories, up to the root.
Sound(t) ==
  t \in Trees /\ \A p, q \in Paths : Inside(q, p) /\ t[p] # "absent" => t[q] = "dir"

SoundTrees == {t \in Trees : Sound(t)}

\* A path lies inside another if it is longer and begins with its names.
LEMMA InsideIsPrefix ==
  ASSUME NEW p \in Paths, NEW q \in Paths
  PROVE  /\ Len(p) \in Nat \ {0} /\ Len(q) \in Nat \ {0}
         /\ Inside(p, q) <=> Len(p) < Len(q) /\ \A i \in 1..Len(p) : p[i] = q[i]
<1>1. p \in Seq(Segments) /\ q \in Seq(Segments) /\ p # << >> /\ q # << >>
  BY TreeAssumption
<1>2. Len(p) \in Nat \ {0} /\ Len(q) \in Nat \ {0}
  BY <1>1, EmptySeq
<1>3. ASSUME Len(p) < Len(q)
      PROVE  SubSeq(q, 1, Len(p)) = p <=> \A i \in 1..Len(p) : p[i] = q[i]
  <2>1. \A i \in 1..Len(p) : q[i] \in Segments
    BY <1>1, <1>2, <1>3, ElementOfSeq
  <2> DEFINE u == SubSeq(q, 1, Len(p))
  <2>2. u \in Seq(Segments) /\ Len(u) = Len(p) /\ \A i \in 1..Len(p) : u[i] = q[i]
    <3>1. /\ u \in Seq(Segments)
          /\ Len(u) = IF 1 <= Len(p) THEN Len(p) - 1 + 1 ELSE 0
          /\ \A i \in 1..(Len(p) - 1 + 1) : u[i] = q[1 + i - 1]
      BY <1>2, <2>1, SubSeqProperties
    <3>2. Len(p) - 1 + 1 = Len(p) /\ 1 <= Len(p)
      BY <1>2
    <3>3. \A i \in 1..Len(p) : 1 + i - 1 = i
      BY <1>2
    <3> QED BY <3>1, <3>2, <3>3
  <2> HIDE DEF u
  <2>3. u = p => \A i \in 1..Len(p) : p[i] = q[i]
    BY <2>2
  <2>4. ASSUME \A i \in 1..Len(p) : p[i] = q[i] PROVE u = p
    <3>1. \A i \in 1..Len(u) : u[i] = p[i]
      BY <2>2, <2>4
    <3> QED BY <1>1, <2>2, <3>1, SeqEqual
  <2> QED BY <2>3, <2>4 DEF u
<1> QED BY <1>2, <1>3 DEF Inside

\* Inside is a strict order, linear on what contains a path.
LEMMA InsideInside ==
  ASSUME NEW p \in Paths, NEW q \in Paths, NEW x \in Paths
  PROVE  /\ Inside(p, q) /\ Inside(q, x) => Inside(p, x)
         /\ ~ Inside(p, p)
         /\ Inside(p, q) => ~ Inside(q, p) /\ p # q
         /\ Inside(p, x) /\ Inside(q, x) => p = q \/ Inside(p, q) \/ Inside(q, p)
<1>1. Inside(p, q) /\ Inside(q, x) => Inside(p, x)
  BY InsideIsPrefix
<1>2. ~ Inside(p, p) /\ (Inside(p, q) => ~ Inside(q, p) /\ p # q)
  BY InsideIsPrefix
<1>3. ASSUME Inside(p, x), Inside(q, x) PROVE p = q \/ Inside(p, q) \/ Inside(q, p)
  <2>1. /\ Len(p) \in Nat /\ Len(q) \in Nat /\ Len(x) \in Nat
        /\ Len(p) < Len(x) /\ Len(q) < Len(x)
        /\ \A i \in 1..Len(p) : p[i] = x[i]
        /\ \A i \in 1..Len(q) : q[i] = x[i]
    BY <1>3, InsideIsPrefix
  <2>2. CASE Len(p) < Len(q)
    <3>1. \A i \in 1..Len(p) : p[i] = q[i]
      BY <2>1, <2>2
    <3> QED BY <2>2, <3>1, InsideIsPrefix
  <2>3. CASE Len(q) < Len(p)
    <3>1. \A i \in 1..Len(q) : q[i] = p[i]
      BY <2>1, <2>3
    <3> QED BY <2>3, <3>1, InsideIsPrefix
  <2>4. CASE Len(q) = Len(p)
    <3>1. \A i \in 1..Len(p) : p[i] = q[i]
      BY <2>1, <2>4
    <3>2. p \in Seq(Segments) /\ q \in Seq(Segments)
      BY TreeAssumption
    <3> QED BY <2>4, <3>1, <3>2, SeqEqual
  <2> QED BY <2>1, <2>2, <2>3, <2>4
<1> QED BY <1>1, <1>2, <1>3

\* The parent of a path is the root or a path, with all the others above it.
LEMMA Parents ==
  ASSUME NEW p \in Paths
  PROVE  \/ Parent(p) = << >> /\ \A q \in Paths : ~ Inside(q, p)
         \/ /\ Parent(p) \in Paths /\ Parent(p) # << >> /\ Inside(Parent(p), p)
            /\ \A q \in Paths : Inside(q, p) => q = Parent(p) \/ Inside(q, Parent(p))
<1>1. p \in Seq(Segments) /\ Len(p) \in Nat \ {0} /\ \A n \in 1..Len(p) : SubSeq(p, 1, n) \in Paths
  BY TreeAssumption, EmptySeq
<1>2. CASE Len(p) = 1
  <2>1. Parent(p) = << >>
    BY <1>2, SubSeqEmpty DEF Parent
  <2>2. \A q \in Paths : ~ Inside(q, p)
    BY <1>2, InsideIsPrefix
  <2> QED BY <2>1, <2>2
<1>3. CASE Len(p) # 1
  <2> DEFINE n == Len(p) - 1
  <2>0. \A k \in Nat \ {0} : k # 1 => k - 1 \in 1..k /\ k - 1 < k
    OBVIOUS
  <2>1. n \in 1..Len(p) /\ n < Len(p)
    BY <1>1, <1>3, <2>0
  <2>2. Parent(p) \in Paths /\ Parent(p) # << >>
    BY <1>1, <2>1, TreeAssumption DEF Parent
  <2>3. Len(Parent(p)) = n /\ \A i \in 1..n : Parent(p)[i] = p[i]
    <3>1. \A i \in 1..n : p[i] \in Segments
      BY <1>1, <2>1, ElementOfSeq
    <3>2. /\ Len(SubSeq(p, 1, n)) = IF 1 <= n THEN n - 1 + 1 ELSE 0
          /\ \A i \in 1..(n - 1 + 1) : SubSeq(p, 1, n)[i] = p[1 + i - 1]
      BY <2>1, <3>1, SubSeqProperties
    <3>3. n - 1 + 1 = n /\ 1 <= n
      BY <2>1
    <3>4. \A i \in 1..n : 1 + i - 1 = i
      BY <2>1
    <3> QED BY <3>2, <3>3, <3>4 DEF Parent
  <2>4. Inside(Parent(p), p)
    BY <2>1, <2>2, <2>3, InsideIsPrefix
  <2>5. ASSUME NEW q \in Paths, Inside(q, p) PROVE q = Parent(p) \/ Inside(q, Parent(p))
    <3>1. q = Parent(p) \/ Inside(q, Parent(p)) \/ Inside(Parent(p), q)
      BY <2>2, <2>4, <2>5, InsideInside
    <3>2. ~ Inside(Parent(p), q)
      BY <2>1, <2>2, <2>3, <2>5, InsideIsPrefix
    <3> QED BY <3>1, <3>2
  <2> QED BY <2>2, <2>4, <2>5
<1> QED BY <1>2, <1>3

\* In a sound tree, what is there can be reached, and lies in a directory.
LEMMA Reached ==
  ASSUME NEW t \in SoundTrees, NEW p \in Paths, t[p] # "absent"
  PROVE  Reachable(t, p) /\ Entry(t, Parent(p)) = "dir"
<1>1. \A q \in Paths : Inside(q, p) => t[q] = "dir"
  BY DEF SoundTrees, Sound
<1> QED BY <1>1, Parents DEF Reachable, Entry

\* A file or directory is put in its place, with the directories it needs ...
LEMMA PlacedIsSound ==
  ASSUME NEW t \in SoundTrees, NEW p \in Paths, NEW e \in {"dir"} \union Data,
         e = "dir" \/ t[p] # "dir"
  PROVE  Placed(t, p, e) \in SoundTrees /\ Placed(t, p, e)[p] = e
<1> DEFINE u == Placed(t, p, e)
<1>1. u \in Trees /\ \A x \in Paths : u[x] = IF x = p THEN e ELSE IF Inside(x, p) THEN "dir" ELSE t[x]
  BY DEF Placed, SoundTrees, Trees, Entries
<1> HIDE DEF u
<1>2. ASSUME NEW x \in Paths, NEW y \in Paths, Inside(y, x), u[x] # "absent"
      PROVE  u[y] = "dir"
  <2>1. CASE x = p \/ Inside(x, p)
    <3>1. Inside(y, p) /\ y # p
      BY <1>2, <2>1, InsideInside
    <3> QED BY <1>1, <3>1
  <2>2. CASE ~ (x = p \/ Inside(x, p))
    <3>1. t[x] # "absent" /\ t[y] = "dir"
      BY <1>1, <1>2, <2>2 DEF SoundTrees, Sound
    <3> QED BY <1>1, <1>2, <3>1
  <2> QED BY <2>1, <2>2
<1>3. u \in SoundTrees /\ u[p] = e
  BY <1>1, <1>2 DEF SoundTrees, Sound
<1> QED BY <1>3 DEF u

\* ... removed with what it contains ...
LEMMA RemovedIsSound ==
  ASSUME NEW t \in SoundTrees, NEW p \in Paths
  PROVE  Removed(t, p) \in SoundTrees /\ Removed(t, p)[p] = "absent"
<1> DEFINE u == Removed(t, p)
<1>1. u \in Trees /\ \A x \in Paths : u[x] = IF x \in From(p) THEN "absent" ELSE t[x]
  BY DEF Removed, SoundTrees, Trees, Entries
<1>2. p \in From(p)
  BY DEF From
<1> HIDE DEF u
<1>3. ASSUME NEW x \in Paths, NEW y \in Paths, Inside(y, x), u[x] # "absent"
      PROVE  u[y] = "dir"
  <2>1. x \notin From(p) /\ t[y] = "dir"
    BY <1>1, <1>3 DEF SoundTrees, Sound
  <2>2. y \notin From(p)
    BY <1>3, <2>1, InsideInside DEF From
  <2> QED BY <1>1, <2>1, <2>2
<1>4. u \in SoundTrees /\ u[p] = "absent"
  BY <1>1, <1>2, <1>3 DEF SoundTrees, Sound
<1> QED BY <1>4 DEF u

\* What lies in a path, moved elsewhere with it, is as deep as before.
Carried(p, q, x) == p \o SubSeq(x, Len(q) + 1, Len(x))

LEMMA MovedPaths ==
  ASSUME NEW p \in Paths, NEW q \in Paths, NEW x \in From(q)
  PROVE  /\ Carried(p, q, x) \in Seq(Segments)
         /\ Len(Carried(p, q, x)) = Len(p) + (Len(x) - Len(q))
         /\ \A i \in 1..Len(p) : Carried(p, q, x)[i] = p[i]
         /\ \A i \in 1..(Len(x) - Len(q)) : Carried(p, q, x)[Len(p) + i] = x[Len(q) + i]
         /\ x = q => Carried(p, q, x) = p
<1>1. /\ p \in Seq(Segments) /\ q \in Seq(Segments) /\ x \in Seq(Segments)
      /\ Len(p) \in Nat \ {0} /\ Len(q) \in Nat \ {0} /\ Len(x) \in Nat \ {0}
  BY TreeAssumption, EmptySeq DEF From
<1>2. Len(q) <= Len(x)
  BY <1>1, InsideIsPrefix DEF From
<1> DEFINE u == SubSeq(x, Len(q) + 1, Len(x))
           m == Len(x) - Len(q)
<1>3. u \in Seq(Segments) /\ Len(u) = m /\ \A i \in 1..m : u[i] = x[Len(q) + i]
  <2>1. \A i \in (Len(q) + 1)..Len(x) : x[i] \in Segments
    <3>1. \A i \in (Len(q) + 1)..Len(x) : i \in 1..Len(x)
      BY <1>1
    <3> QED BY <1>1, <3>1, ElementOfSeq
  <2>2. /\ u \in Seq(Segments)
        /\ Len(u) = IF Len(q) + 1 <= Len(x) THEN Len(x) - (Len(q) + 1) + 1 ELSE 0
        /\ \A i \in 1..(Len(x) - (Len(q) + 1) + 1) : u[i] = x[Len(q) + 1 + i - 1]
    <3>1. Len(q) + 1 \in Int /\ Len(x) \in Int
      BY <1>1
    <3> QED BY <2>1, <3>1, SubSeqProperties
  <2>3. /\ Len(x) - (Len(q) + 1) + 1 = m
        /\ (IF Len(q) + 1 <= Len(x) THEN m ELSE 0) = m
        /\ \A i \in 1..m : Len(q) + 1 + i - 1 = Len(q) + i
    BY <1>1, <1>2
  <2> QED BY <2>2, <2>3
<1> HIDE DEF u
<1> DEFINE k == Len(u)
<1>4. /\ p \o u \in Seq(Segments) /\ Len(p \o u) = Len(p) + m
      /\ \A i \in 1..(Len(p) + m) : (p \o u)[i] = IF i <= Len(p) THEN p[i] ELSE u[i - Len(p)]
  <2>1. /\ p \o u \in Seq(Segments) /\ Len(p \o u) = Len(p) + k
        /\ \A i \in 1..(Len(p) + k) : (p \o u)[i] = IF i <= Len(p) THEN p[i] ELSE u[i - Len(p)]
    BY <1>1, <1>3, ConcatProperties
  <2>2. k = m
    BY <1>3
  <2> HIDE DEF k
  <2> QED BY <2>1, <2>2
<1>5. \A i \in 1..Len(p) : (p \o u)[i] = p[i]
  <2>1. \A i \in 1..Len(p) : i \in 1..(Len(p) + m) /\ i <= Len(p)
    BY <1>1, <1>2
  <2> QED BY <1>4, <2>1
<1>6. ASSUME NEW i \in 1..m PROVE (p \o u)[Len(p) + i] = x[Len(q) + i]
  <2> DEFINE j == Len(p) + i
  <2>1. j \in 1..(Len(p) + m) /\ ~ (j <= Len(p)) /\ j - Len(p) = i
    BY <1>1, <1>2
  <2> HIDE DEF j, m
  <2>2. (p \o u)[j] = u[j - Len(p)]
    BY <1>4, <2>1
  <2>3. (p \o u)[j] = u[i] /\ u[i] = x[Len(q) + i]
    BY <1>3, <2>1, <2>2
  <2> QED BY <2>3 DEF j
<1>7. ASSUME x = q PROVE p \o u = p
  <2>1. m = 0 /\ u = << >>
    BY <1>1, <1>3, <1>7, EmptySeq
  <2> QED BY <1>1, <2>1, ConcatEmptySeq
<1> QED BY <1>4, <1>5, <1>6, <1>7 DEF Carried, u

\* What contains another is carried with it, and still contains it.
LEMMA MovedInside ==
  ASSUME NEW p \in Paths, NEW q \in Paths, NEW x \in From(q), NEW z \in From(q),
         Inside(z, x), Carried(p, q, x) \in Paths
  PROVE  Carried(p, q, z) \in Paths /\ Inside(Carried(p, q, z), Carried(p, q, x))
<1> DEFINE a == Carried(p, q, x)
           b == Carried(p, q, z)
           i == Len(p)
           j == Len(q)
           l == Len(x)
           n == Len(z)
<1>1. /\ x \in Paths /\ z \in Paths /\ i \in Nat \ {0} /\ j \in Nat \ {0} /\ l \in Nat
      /\ n \in Nat /\ n < l /\ \A h \in 1..n : z[h] = x[h]
  BY InsideIsPrefix DEF From
<1>2. j <= n
  BY InsideIsPrefix DEF From
<1>3. /\ a \in Seq(Segments) /\ Len(a) = i + (l - j)
      /\ \A h \in 1..i : a[h] = p[h]
      /\ \A h \in 1..(l - j) : a[i + h] = x[j + h]
  BY MovedPaths
<1>4. /\ b \in Seq(Segments) /\ Len(b) = i + (n - j)
      /\ \A h \in 1..i : b[h] = p[h]
      /\ \A h \in 1..(n - j) : b[i + h] = z[j + h]
  BY MovedPaths
<1> HIDE DEF a, b, i, j, l, n
<1> DEFINE m == i + (n - j)
<1>5. \A h \in 1..m : b[h] = a[h]
  <2>1. \A h \in 1..i : b[h] = a[h]
    BY <1>3, <1>4
  <2>2. ASSUME NEW h \in 1..(n - j) PROVE b[i + h] = a[i + h]
    <3>1. h \in 1..(l - j) /\ j + h \in 1..n
      BY <1>1, <1>2
    <3> QED BY <1>1, <1>3, <1>4, <3>1
  <2>3. ASSUME NEW h \in 1..m PROVE h \in 1..i \/ (h - i \in 1..(n - j) /\ i + (h - i) = h)
    BY <1>1, <1>2
  <2> QED BY <2>1, <2>2, <2>3
<1>6. m \in 1..Len(a) /\ m < Len(a)
  BY <1>1, <1>2, <1>3
<1>7. SubSeq(a, 1, m) = b
  <2>1. \A h \in 1..m : a[h] \in Segments
    BY <1>3, <1>6, ElementOfSeq
  <2> DEFINE u == SubSeq(a, 1, m)
  <2>2. /\ u \in Seq(Segments) /\ Len(u) = IF 1 <= m THEN m - 1 + 1 ELSE 0
        /\ \A h \in 1..(m - 1 + 1) : u[h] = a[1 + h - 1]
    BY <1>6, <2>1, SubSeqProperties
  <2>3. m - 1 + 1 = m /\ 1 <= m /\ m \in Nat
    BY <1>6, <1>3, <1>1, <1>2
  <2>4. \A h \in 1..m : 1 + h - 1 = h
    BY <2>3
  <2> HIDE DEF u
  <2>5. Len(u) = m /\ \A h \in 1..m : u[h] = a[h]
    BY <2>2, <2>3, <2>4
  <2>6. u = b
    BY <1>4, <1>5, <2>2, <2>5, SeqEqual
  <2> QED BY <2>6 DEF u
<1>8. a \in Paths
  BY DEF a
<1>9. b \in Paths
  BY <1>6, <1>7, <1>8, TreeAssumption
<1>10. Inside(b, a)
  BY <1>4, <1>6, <1>7 DEF Inside
<1> QED BY <1>9, <1>10 DEF a, b

\* ... and moved with it, and the tree stays sound.
LEMMA MovedIsSound ==
  ASSUME NEW t \in SoundTrees, NEW p \in Paths, NEW q \in Paths, Here(t, p), MayMove(t, p, q)
  PROVE  /\ Moved(t, p, q) \in SoundTrees
         /\ Moved(t, p, q)[q] = t[p] /\ Moved(t, p, q)[p] = "absent"
<1> DEFINE u == Moved(t, p, q)
<1>1. /\ u \in Trees
      /\ \A x \in Paths :
           u[x] = IF x \in From(q) THEN IF Carried(p, q, x) \in Paths THEN t[Carried(p, q, x)] ELSE "absent"
                  ELSE IF x \in From(p) THEN "absent" ELSE t[x]
  BY DEF Moved, Carried, SoundTrees, Trees, Entries
<1>2. /\ p # q /\ ~ Inside(p, q) /\ Entry(t, Parent(q)) = "dir"
      /\ t[q] = "absent" \/ (t[p] \notin {"dir", "absent"} /\ t[q] # "dir")
  BY DEF MayMove
<1> HIDE DEF u
<1>3. u[q] = t[p]
  <2>1. q \in From(q) /\ Carried(p, q, q) = p
    BY MovedPaths DEF From
  <2> QED BY <1>1, <2>1
<1>4. u[p] = "absent"
  <2>1. t[p] # "absent"
    BY TreeAssumption DEF Here, Entry
  <2>2. ~ Inside(q, p)
    BY <1>2, <2>1 DEF SoundTrees, Sound
  <2> QED BY <1>1, <1>2, <2>2 DEF From
<1>5. \A z \in Paths : Inside(z, q) => t[z] = "dir"
  <2> SUFFICES ASSUME NEW z \in Paths, Inside(z, q) PROVE t[z] = "dir"
    OBVIOUS
  <2>1. /\ Parent(q) \in Paths /\ t[Parent(q)] = "dir"
        /\ z = Parent(q) \/ Inside(z, Parent(q))
    BY <1>2, Parents DEF Entry
  <2> QED BY <2>1 DEF SoundTrees, Sound
<1>6. ASSUME NEW x \in Paths, NEW z \in Paths, Inside(z, x), u[x] # "absent"
      PROVE  u[z] = "dir"
  <2>1. CASE x \in From(q) /\ z \in From(q)
    <3>1. Carried(p, q, x) \in Paths /\ t[Carried(p, q, x)] # "absent"
      BY <1>1, <1>6, <2>1
    <3>2. Carried(p, q, z) \in Paths /\ t[Carried(p, q, z)] = "dir"
      BY <1>6, <2>1, <3>1, MovedInside DEF SoundTrees, Sound
    <3> QED BY <1>1, <2>1, <3>2
  <2>2. CASE x \in From(q) /\ z \notin From(q)
    <3>1. Inside(z, q)
      BY <1>6, <2>2, InsideInside DEF From
    <3>2. z \notin From(p)
      BY <1>2, <3>1, InsideInside DEF From
    <3> QED BY <1>1, <1>5, <2>2, <3>1, <3>2
  <2>3. CASE x \notin From(q)
    <3>1. x \notin From(p) /\ t[x] # "absent"
      BY <1>1, <1>6, <2>3
    <3>2. z \notin From(q) /\ z \notin From(p)
      BY <1>6, <2>3, <3>1, InsideInside DEF From
    <3> QED BY <1>1, <1>6, <3>1, <3>2 DEF SoundTrees, Sound
  <2> QED BY <2>1, <2>2, <2>3
<1>7. u \in SoundTrees
  BY <1>1, <1>6 DEF SoundTrees, Sound
<1> QED BY <1>3, <1>4, <1>7 DEF u

-----------------------------------------------------------------------------
(* Volumes.                                                                *)

\* The volumes there can be, no token newer than the newest, and the requests about
\* them: on the control plane without a token, on the content with one.
VolShape ==
  [api : {"volume"}, vol : [Vols -> {"absent", "live", "gone"}], valid : SUBSET (Vols \X Nat),
   made : Nat, tree : SoundTrees, mode : [Paths -> Nat]]
VolServers == {s \in VolShape : \A t \in s.valid : t[2] <= s.made}
VolAsked ==
  [op : {"create"}, path : Paths, vol : {0}, token : {0}, arg : {"good", "bad"}]
  \union [op : {"list", "get_info", "connect", "destroy"}, path : Paths, vol : Vols,
          token : {0}, arg : {0}]
  \union [op : {"list_dir", "stat", "exists", "update_metadata", "remove", "read_file",
                "read_file_stream"}, path : Paths, vol : Vols, token : Vols \X Nat, arg : Nat]
  \union [op : {"make_dir"}, path : Paths, vol : Vols, token : Vols \X Nat,
          arg : [data : {"none"}, force : BOOLEAN]]
  \union [op : {"write_file"}, path : Paths, vol : Vols, token : Vols \X Nat,
          arg : [data : Data, force : BOOLEAN]]

\* What a success says once the SDK has made it a result.
VolSaid(r, v) == IF r.op \in {"exists", "destroy"} THEN "true" ELSE IF r.op = "remove" THEN "none" ELSE v

\* What the SDK makes of the answers there are about volumes.
LEMMA VolResults ==
  ASSUME NEW r
  PROVE  /\ \A v : VolResult(r, Success(v)) = Ok(VolSaid(r, v))
         /\ \A v : VolResult(r, Garbled) \in {Ok(VolSaid(r, v)), Err("Internal")}
         /\ VolResult(r, Bare(404)) = IF r.op \in {"exists", "destroy"} THEN Ok("false") ELSE Err("NotFound")
         /\ VolResult(r, Bare(400)) = Err("InvalidArgument")
         /\ VolResult(r, Bare(401)) = Err("Authentication")
         /\ VolResult(r, Bare(409)) = Err("Conflict")
         /\ VolResult(r, Bare(500)) = Err("Sandbox")
         /\ VolResult(r, Bare(502)) = Err("Timeout")
         /\ VolResult(r, Bare(507)) = Err("NotEnoughSpace")
<1>1. /\ \A v : Success(v).http = 200
      /\ Garbled.http = 200 /\ \A n : Bare(n).http = n
  BY DEF Success, Garbled, Bare
<1>2. /\ \A v : Rest(Success(v)) = Ok(v)
      /\ Rest(Garbled) = Err("Internal")
      /\ Rest(Bare(404)) = Err("NotFound")
      /\ Rest(Bare(400)) = Err("InvalidArgument")
      /\ Rest(Bare(401)) = Err("Authentication")
      /\ Rest(Bare(409)) = Err("Conflict")
      /\ Rest(Bare(500)) = Err("Sandbox")
      /\ Rest(Bare(502)) = Err("Timeout")
      /\ Rest(Bare(507)) = Err("NotEnoughSpace")
  BY Readings DEF FromStatus
<1>3. /\ \A v : Unit(Success(v)) = Ok("none")
      /\ Unit(Garbled) = Ok("none")
      /\ \A n \in {400, 401, 404, 409, 500, 502, 507} : Unit(Bare(n)) = Rest(Bare(n))
  BY <1>1 DEF Unit
<1>4. CASE r.op = "exists"
  <2>1. \A a : VolResult(r, a) = VolExists(a)
    BY <1>4 DEF VolResult
  <2>2. /\ \A a : \A v : Rest(a) = Ok(v) => VolExists(a) = Ok("true")
        /\ \A a : \A e : Rest(a) = Err(e) => VolExists(a) = IF e = "NotFound" THEN Ok("false") ELSE Err(e)
    BY OkOrErr DEF VolExists, OnError
  <2>3. \A v : VolSaid(r, v) = "true"
    BY <1>4 DEF VolSaid
  <2> QED BY <1>2, <1>4, <2>1, <2>2, <2>3
<1>5. CASE r.op = "destroy"
  <2>1. \A a : VolResult(r, a) = IF Unit(a)[1] = "ok" THEN Ok("true") ELSE OnError(Unit(a), "NotFound", Ok("false"))
    BY <1>5 DEF VolResult
  <2>2. /\ \A a : \A v : Unit(a) = Ok(v) => VolResult(r, a) = Ok("true")
        /\ \A a : \A e : Unit(a) = Err(e) => VolResult(r, a) = IF e = "NotFound" THEN Ok("false") ELSE Err(e)
    BY <2>1, OkOrErr DEF OnError
  <2>3. \A v : VolSaid(r, v) = "true"
    BY <1>5 DEF VolSaid
  <2> QED BY <1>2, <1>3, <1>5, <2>2, <2>3
<1>6. CASE r.op = "remove"
  BY <1>2, <1>3, <1>6 DEF VolResult, VolSaid
<1>7. CASE r.op \notin {"exists", "destroy", "remove"}
  BY <1>2, <1>7 DEF VolResult, VolSaid
<1> QED BY <1>4, <1>5, <1>6, <1>7

\* What may become of a volume.
LEMMA VolFields ==
  ASSUME NEW s \in VolServers, NEW i \in Vols
  PROVE  /\ WithToken(s, i) \in VolServers
         /\ <<i, s.made + 1>> \in WithToken(s, i).valid \ s.valid
         /\ \A e \in {"live", "gone"} :
              LET s2 == [WithToken(s, i) EXCEPT !.vol[i] = e]
              IN  s2 \in VolServers /\ s2.vol[i] = e /\ s2.valid = WithToken(s, i).valid
<1> DEFINE w == WithToken(s, i)
           new == <<i, s.made + 1>>
           valid == s.valid \union {new}
<1>1. s \in VolShape /\ s.made \in Nat /\ s.valid \subseteq Vols \X Nat /\ \A t \in s.valid : t[2] <= s.made
  BY DEF VolServers, VolShape
<1>2. new \in Vols \X Nat /\ new[2] = s.made + 1 /\ new \notin s.valid
  BY <1>1
<1>3. valid \in SUBSET (Vols \X Nat) /\ new \in valid /\ \A t \in valid : t[2] <= s.made + 1
  BY <1>1, <1>2
<1> DEFINE more == s.made + 1
           s1 == [s EXCEPT !.made = more]
<1>4. more \in Nat /\ w = [s1 EXCEPT !.valid = valid]
  BY <1>1 DEF WithToken
<1> HIDE DEF valid, new, w, more
<1>5. s1 \in VolShape /\ s1.made = more
  BY <1>1, <1>4 DEF VolShape
<1> HIDE DEF s1
<1>6. w \in VolShape /\ w.valid = valid /\ w.made = more
  BY <1>3, <1>4, <1>5 DEF VolShape
<1>7. w \in VolServers /\ new \in w.valid \ s.valid
  BY <1>2, <1>3, <1>6 DEF VolServers, more
<1>8. ASSUME NEW e \in {"live", "gone"}
      PROVE  /\ [w EXCEPT !.vol[i] = e] \in VolServers /\ [w EXCEPT !.vol[i] = e].vol[i] = e
             /\ [w EXCEPT !.vol[i] = e].valid = w.valid
  <2> DEFINE vol == [w.vol EXCEPT ![i] = e]
  <2>1. vol \in [Vols -> {"absent", "live", "gone"}] /\ vol[i] = e
    BY <1>7 DEF VolServers, VolShape
  <2>2. [w EXCEPT !.vol[i] = e] = [w EXCEPT !.vol = vol]
    OBVIOUS
  <2> HIDE DEF vol
  <2>3. [w EXCEPT !.vol = vol] \in VolServers /\ [w EXCEPT !.vol = vol].vol = vol
        /\ [w EXCEPT !.vol = vol].valid = w.valid
    BY <1>7, <2>1 DEF VolServers, VolShape
  <2> QED BY <2>1, <2>2, <2>3
<1> QED BY <1>7, <1>8 DEF w, new

\* Another tree or other modes leave the rest as it is.
LEMMA VolContents ==
  ASSUME NEW s \in VolServers, NEW t \in SoundTrees, NEW m \in [Paths -> Nat]
  PROVE  /\ [s EXCEPT !.tree = t] \in VolServers /\ [s EXCEPT !.tree = t].tree = t
         /\ [s EXCEPT !.mode = m] \in VolServers /\ [s EXCEPT !.mode = m].mode = m
         /\ [s EXCEPT !.mode = m].tree = s.tree /\ [s EXCEPT !.tree = t].vol = s.vol
         /\ [s EXCEPT !.mode = m].vol = s.vol
BY DEF VolServers, VolShape

\* A volume that is destroyed has nothing in it.
LEMMA VolGone ==
  ASSUME NEW s \in VolServers, NEW i \in Vols
  PROVE  LET s2 == [s EXCEPT !.vol[i] = "gone", !.tree = [p \in Paths |-> "absent"],
                             !.mode = [p \in Paths |-> 0]]
         IN  s2 \in VolServers /\ s2.vol[i] = "gone"
<1> DEFINE vol == [s.vol EXCEPT ![i] = "gone"]
           t == [p \in Paths |-> "absent"]
           m == [p \in Paths |-> 0]
           s1 == [s EXCEPT !.vol = vol]
<1>1. vol \in [Vols -> {"absent", "live", "gone"}] /\ vol[i] = "gone"
  BY DEF VolServers, VolShape
<1>2. t \in SoundTrees /\ m \in [Paths -> Nat]
  BY DEF SoundTrees, Sound, Trees, Entries
<1>3. [s EXCEPT !.vol[i] = "gone", !.tree = t, !.mode = m] = [[s1 EXCEPT !.tree = t] EXCEPT !.mode = m]
  OBVIOUS
<1> HIDE DEF vol, t, m
<1>4. s1 \in VolServers /\ s1.vol = vol
  BY <1>1 DEF VolServers, VolShape
<1> HIDE DEF s1
<1> DEFINE s2 == [s1 EXCEPT !.tree = t]
<1>5. s2 \in VolServers /\ s2.vol = vol
  BY <1>2, <1>4, VolContents
<1> HIDE DEF s2
<1>6. [s2 EXCEPT !.mode = m] \in VolServers /\ [s2 EXCEPT !.mode = m].vol = vol
  BY <1>2, <1>5, VolContents
<1> QED BY <1>1, <1>3, <1>6 DEF s2, m, t

\* An outcome, with a body that decodes, is as promised.
Kept(s, r, x) ==
  /\ x.store \in VolServers /\ x = [store |-> x.store, answer |-> x.answer]
  /\ \/ \E v : x.answer = Success(v) /\ VolSays(s, r, x.store, VolSaid(r, v))
     \/ /\ x.store = s
        /\ x.answer \in {Bare(n) : n \in {400, 401, 404, 409, 507}}
        /\ VolPromises(s, r, s, VolResult(r, x.answer))

\* A success that says what was so, and an error that does.
LEMMA KeptSuccess ==
  ASSUME NEW s, NEW r, NEW s2 \in VolServers, NEW v, VolSays(s, r, s2, VolSaid(r, v)),
         NEW x \in VolReply(s2, Success(v))
  PROVE  Kept(s, r, x)
BY DEF Kept, VolReply

LEMMA KeptBare ==
  ASSUME NEW s \in VolServers, NEW r, NEW n \in {400, 401, 404, 409, 507},
         VolPromises(s, r, s, VolResult(r, Bare(n))),
         NEW x \in VolReply(s, Bare(n))
  PROVE  Kept(s, r, x)
BY DEF Kept, VolReply

\* What an error says of a volume that the call found as it is.
LEMMA VolErrors ==
  ASSUME NEW s \in VolServers, NEW r \in VolAsked
  PROVE  /\ ~ OnPlane(r.op) /\ r.token \notin s.valid => VolPromises(s, r, s, Err("Authentication"))
         /\ VolPromises(s, r, s, Err("InvalidArgument"))
         /\ Here(s.tree, r.path) => VolPromises(s, r, s, Err("Conflict"))
         /\ r.op = "write_file" => VolPromises(s, r, s, Err("NotEnoughSpace"))
         /\ /\ r.op \notin {"create", "list", "destroy"}
            /\ IF OnPlane(r.op) THEN s.vol[r.vol] # "live"
               ELSE s.vol[r.vol] # "live" \/ ~ Here(s.tree, r.path)
            => VolPromises(s, r, s, Err("NotFound"))
<1>1. OnPlane(r.op) /\ r.op \notin {"create", "list", "destroy"} => r.op \in {"get_info", "connect"}
  BY DEF OnPlane
<1> QED BY <1>1, OkOrErr DEF VolPromises

\* What the control plane makes of a request ...
LEMMA PlaneServed ==
  ASSUME NEW s \in VolServers, NEW r \in VolAsked, OnPlane(r.op),
         NEW x \in ServeOnPlane(s, r)
  PROVE  Kept(s, r, x)
<1>1. r.op \in {"create", "list", "get_info", "connect", "destroy"}
  BY DEF OnPlane
<1>2. r.op # "create" => r.vol \in Vols
  BY <1>1 DEF VolAsked
<1>3. s.vol \in [Vols -> {"absent", "live", "gone"}]
  BY DEF VolServers, VolShape
<1>4. CASE r.op = "create"
  <2>1. PICK i \in Vols : /\ s.vol[i] = "absent"
                          /\ x \in VolReply([WithToken(s, i) EXCEPT !.vol[i] = "live"],
                                            Success(<<i, s.made + 1>>))
    BY <1>4 DEF ServeOnPlane
  <2> DEFINE s2 == [WithToken(s, i) EXCEPT !.vol[i] = "live"]
             v == <<i, s.made + 1>>
  <2>2. s2 \in VolServers /\ s2.vol[i] = "live" /\ v \in s2.valid \ s.valid /\ v[1] = i
    BY VolFields
  <2> HIDE DEF s2, v
  <2>3. VolSays(s, r, s2, VolSaid(r, v))
    BY <1>4, <2>1, <2>2 DEF VolSays, VolMeans, Admitted, OnPlane, VolSaid
  <2> QED BY <2>1, <2>2, <2>3, KeptSuccess DEF s2, v
<1>5. CASE r.op = "list"
  <2> DEFINE v == {y \in Vols : s.vol[y] = "live"}
  <2>1. x \in VolReply(s, Success(v))
    BY <1>5 DEF ServeOnPlane
  <2>2. VolSays(s, r, s, VolSaid(r, v))
    BY <1>5 DEF VolSays, VolMeans, Admitted, OnPlane, VolSaid
  <2> QED BY <2>1, <2>2, KeptSuccess
<1>6. CASE r.op \in {"get_info", "connect"}
  <2> DEFINE s2 == WithToken(s, r.vol)
             v == <<r.vol, s.made + 1>>
  <2>1. s2 \in VolServers /\ v \in s2.valid \ s.valid /\ v[1] = r.vol
    BY <1>2, <1>6, VolFields
  <2>2. CASE s.vol[r.vol] = "live"
    <3>1. x \in VolReply(s2, Success(v))
      BY <1>6, <2>2 DEF ServeOnPlane
    <3> HIDE DEF s2, v
    <3>2. VolSays(s, r, s2, VolSaid(r, v))
      BY <1>6, <2>1, <2>2 DEF VolSays, VolMeans, Admitted, OnPlane, VolSaid
    <3> QED BY <2>1, <3>1, <3>2, KeptSuccess
  <2>3. CASE s.vol[r.vol] # "live"
    <3>1. x \in VolReply(s, Bare(404))
      BY <1>6, <2>3 DEF ServeOnPlane
    <3>2. VolPromises(s, r, s, VolResult(r, Bare(404)))
      BY <1>6, <2>3, VolResults, VolErrors
    <3> QED BY <3>1, <3>2, KeptBare
  <2> QED BY <2>2, <2>3
<1>7. CASE r.op = "destroy"
  <2>1. CASE s.vol[r.vol] = "live"
    <3> DEFINE s2 == [s EXCEPT !.vol[r.vol] = "gone", !.tree = [p \in Paths |-> "absent"],
                               !.mode = [p \in Paths |-> 0]]
    <3>1. x \in VolReply(s2, Success("none"))
      BY <1>7, <2>1 DEF ServeOnPlane
    <3>2. s2 \in VolServers /\ s2.vol[r.vol] = "gone"
      BY <1>2, <1>7, VolGone
    <3> HIDE DEF s2
    <3>3. VolSays(s, r, s2, VolSaid(r, "none"))
      BY <1>7, <2>1, <3>2 DEF VolSays, VolMeans, Admitted, OnPlane, VolSaid
    <3> QED BY <3>1, <3>2, <3>3, KeptSuccess
  <2>2. CASE s.vol[r.vol] # "live"
    <3>1. x \in VolReply(s, Bare(404))
      BY <1>7, <2>2 DEF ServeOnPlane
    <3>2. VolSays(s, r, s, "false")
      BY <1>7, <2>2 DEF VolSays, VolMeans, Admitted, OnPlane
    <3>3. VolPromises(s, r, s, VolResult(r, Bare(404)))
      BY <1>7, <3>2, VolResults, OkOrErr DEF VolPromises
    <3> QED BY <3>1, <3>3, KeptBare
  <2> QED BY <2>1, <2>2
<1> QED BY <1>1, <1>4, <1>5, <1>6, <1>7

\* ... and the content server of one with a token in force, on a volume that is there.
LEMMA ContentServed ==
  ASSUME NEW s \in VolServers, NEW r \in VolAsked, ~ OnPlane(r.op), r.token \in s.valid,
         s.vol[r.vol] = "live", NEW x \in ServeContent(s, r)
  PROVE  Kept(s, r, x)
<1> DEFINE t == s.tree
           p == r.path
           stat == <<Entry(t, p), s.mode[p]>>
<1>1. /\ r.op \in {"list_dir", "stat", "exists", "update_metadata", "remove", "read_file",
                   "read_file_stream", "make_dir", "write_file"}
      /\ p \in Paths /\ p # << >>
      /\ r.op = "update_metadata" => r.arg \in Nat
      /\ r.op = "write_file" => r.arg.data \in Data
  BY TreeAssumption DEF VolAsked, OnPlane
<1>2. Entry(t, p) = t[p] /\ t \in SoundTrees /\ s.mode \in [Paths -> Nat]
  BY <1>1 DEF Entry, VolServers, VolShape
<1>3. ASSUME x \in VolReply(s, Bare(404)), ~ Here(t, p) PROVE Kept(s, r, x)
  <2>1. CASE r.op = "exists"
    <3>1. VolSays(s, r, s, "false")
      BY <1>3, <2>1 DEF VolSays
    <3>2. VolPromises(s, r, s, VolResult(r, Bare(404)))
      BY <2>1, <3>1, VolResults, OkOrErr DEF VolPromises
    <3> QED BY <1>3, <3>2, KeptBare
  <2>2. CASE r.op # "exists"
    <3>1. VolPromises(s, r, s, VolResult(r, Bare(404)))
      BY <1>1, <1>3, <2>2, VolResults, VolErrors
    <3> QED BY <1>3, <3>1, KeptBare
  <2> QED BY <2>1, <2>2
<1>4. ASSUME x \in VolReply(s, Bare(400)) PROVE Kept(s, r, x)
  <2>1. VolPromises(s, r, s, VolResult(r, Bare(400)))
    BY VolResults, VolErrors
  <2> QED BY <1>4, <2>1, KeptBare
<1>5. ASSUME x \in VolReply(s, Bare(409)), Here(t, p) PROVE Kept(s, r, x)
  <2>1. VolPromises(s, r, s, VolResult(r, Bare(409)))
    BY <1>5, VolResults, VolErrors
  <2> QED BY <1>5, <2>1, KeptBare
<1>6. ASSUME NEW e \in {"dir"} \union Data, e = "dir" \/ t[p] # "dir"
      PROVE  LET s2 == [s EXCEPT !.tree = Placed(@, p, e)]
             IN  s2 \in VolServers /\ s2.tree[p] = e
  <2>1. Placed(t, p, e) \in SoundTrees /\ Placed(t, p, e)[p] = e
    BY <1>1, <1>2, <1>6, PlacedIsSound
  <2>2. [s EXCEPT !.tree = Placed(@, p, e)] = [s EXCEPT !.tree = Placed(t, p, e)]
    OBVIOUS
  <2> QED BY <1>2, <2>1, <2>2, VolContents
<1>7. Admitted(s, r)
  BY DEF Admitted
<1>8. CASE r.op = "list_dir"
  <2>1. CASE Entry(t, p) = "dir"
    <3>1. x \in VolReply(s, Success(Below(t, p, r.arg)))
      BY <1>8, <2>1 DEF ServeContent
    <3>2. VolSays(s, r, s, VolSaid(r, Below(t, p, r.arg)))
      BY <1>7, <1>8, <2>1 DEF VolSays, VolMeans, VolSaid
    <3> QED BY <3>1, <3>2, KeptSuccess
  <2>2. CASE Entry(t, p) # "dir"
    <3>1. x \in VolReply(s, Bare(400)) \/ (x \in VolReply(s, Bare(404)) /\ ~ Here(t, p))
      BY <1>8, <2>2 DEF ServeContent
    <3> QED BY <1>3, <1>4, <3>1
  <2> QED BY <2>1, <2>2
<1>9. CASE r.op \in {"stat", "exists"}
  <2>1. CASE Here(t, p)
    <3>1. x \in VolReply(s, Success(stat))
      BY <1>9, <2>1 DEF ServeContent
    <3>2. VolSays(s, r, s, VolSaid(r, stat))
      BY <1>2, <1>7, <1>9, <2>1 DEF VolSays, VolMeans, VolSaid
    <3> QED BY <3>1, <3>2, KeptSuccess
  <2>2. CASE ~ Here(t, p)
    <3>1. x \in VolReply(s, Bare(404))
      BY <1>9, <2>2 DEF ServeContent
    <3> QED BY <1>3, <2>2, <3>1
  <2> QED BY <2>1, <2>2
<1>10. CASE r.op = "update_metadata"
  <2>1. CASE Here(t, p)
    <3> DEFINE s2 == [s EXCEPT !.mode[p] = r.arg]
               v == <<Entry(t, p), r.arg>>
               m == [s.mode EXCEPT ![p] = r.arg]
    <3>1. x \in VolReply(s2, Success(v))
      BY <1>10, <2>1 DEF ServeContent
    <3>2. s2 = [s EXCEPT !.mode = m] /\ m \in [Paths -> Nat] /\ m[p] = r.arg
      BY <1>1, <1>2, <1>10
    <3> HIDE DEF m, s2
    <3>3. s2 \in VolServers /\ s2.mode[p] = r.arg
      BY <1>2, <3>2, VolContents
    <3>4. VolSays(s, r, s2, VolSaid(r, v))
      BY <1>2, <1>7, <1>10, <2>1, <3>3 DEF VolSays, VolMeans, VolSaid
    <3> QED BY <3>1, <3>3, <3>4, KeptSuccess DEF s2
  <2>2. CASE ~ Here(t, p)
    <3>1. x \in VolReply(s, Bare(404))
      BY <1>10, <2>2 DEF ServeContent
    <3> QED BY <1>3, <2>2, <3>1
  <2> QED BY <2>1, <2>2
<1>11. CASE r.op = "remove"
  <2>1. CASE Here(t, p)
    <3> DEFINE m == [q \in Paths |-> IF q \in From(p) THEN 0 ELSE s.mode[q]]
               s1 == [s EXCEPT !.tree = Removed(t, p)]
               s2 == [s1 EXCEPT !.mode = m]
    <3>1. x \in VolReply([s EXCEPT !.tree = Removed(t, p),
                                   !.mode = [q \in Paths |-> IF q \in From(p) THEN 0 ELSE @[q]]],
                         Success("none"))
      BY <1>11, <2>1 DEF ServeContent
    <3>2. [s EXCEPT !.tree = Removed(t, p),
                    !.mode = [q \in Paths |-> IF q \in From(p) THEN 0 ELSE @[q]]] = s2
      OBVIOUS
    <3>3. s1 \in VolServers /\ s1.tree = Removed(t, p)
      BY <1>1, <1>2, RemovedIsSound, VolContents
    <3>4. m \in [Paths -> Nat]
      BY <1>2
    <3> HIDE DEF s1, m
    <3>5. s2 \in VolServers /\ s2.tree = Removed(t, p)
      BY <1>2, <3>3, <3>4, VolContents
    <3>6. x \in VolReply(s2, Success("none"))
      BY <3>1, <3>2 DEF s1, m
    <3> HIDE DEF s2
    <3>7. VolSays(s, r, s2, VolSaid(r, "none"))
      BY <1>7, <1>11, <2>1, <3>5 DEF VolSays, VolMeans, VolSaid
    <3> QED BY <3>5, <3>6, <3>7, KeptSuccess
  <2>2. CASE ~ Here(t, p)
    <3>1. x \in VolReply(s, Bare(404))
      BY <1>11, <2>2 DEF ServeContent
    <3> QED BY <1>3, <2>2, <3>1
  <2> QED BY <2>1, <2>2
<1>12. CASE r.op \in {"read_file", "read_file_stream"}
  <2>1. CASE Entry(t, p) \in Data
    <3>1. x \in VolReply(s, Success(Entry(t, p)))
      BY <1>12, <2>1 DEF ServeContent
    <3>2. VolSays(s, r, s, VolSaid(r, Entry(t, p)))
      BY <1>2, <1>7, <1>12, <2>1 DEF VolSays, VolMeans, VolSaid
    <3> QED BY <3>1, <3>2, KeptSuccess
  <2>2. CASE Entry(t, p) \notin Data
    <3>1. x \in VolReply(s, Bare(400)) \/ (x \in VolReply(s, Bare(404)) /\ ~ Here(t, p))
      BY <1>12, <2>2 DEF ServeContent
    <3> QED BY <1>3, <1>4, <3>1
  <2> QED BY <2>1, <2>2
<1>13. CASE r.op = "make_dir"
  <2>1. CASE Here(t, p)
    <3>1. x \in VolReply(s, Bare(409)) \/ (x \in VolReply(s, Success(stat)) /\ Entry(t, p) = "dir")
      BY <1>13, <2>1 DEF ServeContent
    <3>2. Entry(t, p) = "dir" => VolSays(s, r, s, VolSaid(r, stat))
      BY <1>2, <1>7, <1>13 DEF VolSays, VolMeans, VolSaid
    <3> QED BY <1>5, <2>1, <3>1, <3>2, KeptSuccess
  <2>2. CASE ~ Here(t, p)
    <3> DEFINE s2 == [s EXCEPT !.tree = Placed(@, p, "dir")]
               v == <<"dir", 0>>
    <3>1. x \in VolReply(s2, Success(v)) \/ x \in VolReply(s, Bare(404))
      BY <1>13, <2>2 DEF ServeContent, Places
    <3>2. s2 \in VolServers /\ s2.tree[p] = "dir"
      BY <1>6
    <3> HIDE DEF s2
    <3>3. VolSays(s, r, s2, VolSaid(r, v))
      BY <1>7, <1>13, <3>2 DEF VolSays, VolMeans, VolSaid
    <3> QED BY <1>3, <2>2, <3>1, <3>2, <3>3, KeptSuccess
  <2> QED BY <2>1, <2>2
<1>14. CASE r.op = "write_file"
  <2>1. CASE Entry(t, p) = "dir"
    <3>1. x \in VolReply(s, Bare(409))
      BY <1>14, <2>1 DEF ServeContent
    <3>2. Here(t, p)
      BY <2>1 DEF Here
    <3> QED BY <1>5, <3>1, <3>2
  <2>2. CASE Entry(t, p) # "dir" /\ MayPlace(t, p, r.arg.force)
    <3> DEFINE s2 == [s EXCEPT !.tree = Placed(@, p, r.arg.data)]
               v == <<r.arg.data, s.mode[p]>>
    <3>1. x \in VolReply(s2, Success(v)) \/ x \in VolReply(s, Bare(507))
      BY <1>14, <2>2 DEF ServeContent, Places
    <3>2. s2 \in VolServers /\ s2.tree[p] = r.arg.data
      BY <1>1, <1>2, <1>6, <1>14, <2>2
    <3> HIDE DEF s2
    <3>3. VolSays(s, r, s2, VolSaid(r, v))
      BY <1>7, <1>14, <3>2 DEF VolSays, VolMeans, VolSaid
    <3>4. VolPromises(s, r, s, VolResult(r, Bare(507)))
      BY <1>14, VolResults, VolErrors
    <3> QED BY <3>1, <3>2, <3>3, <3>4, KeptSuccess, KeptBare
  <2>3. CASE Entry(t, p) # "dir" /\ ~ MayPlace(t, p, r.arg.force)
    <3>1. x \in VolReply(s, Bare(404))
      BY <1>14, <2>3 DEF ServeContent
    <3>2. ~ Here(t, p)
      BY <1>1, <1>2, <2>3, Reached DEF Here, MayPlace
    <3> QED BY <1>3, <3>1, <3>2
  <2> QED BY <2>1, <2>2, <2>3
<1> QED BY <1>1, <1>8, <1>9, <1>10, <1>11, <1>12, <1>13, <1>14

\* A request about volumes, alone, is refused or answered as promised.
LEMMA VolumesAreKept ==
  ASSUME NEW s \in VolServers, NEW r \in VolAsked
  PROVE  /\ \A result \in VolRefuses(s, r) : VolPromises(s, r, s, result)
         /\ \A o \in VolServe(s, r) : /\ o.store \in VolServers
                                      /\ VolPromises(s, r, o.store, VolResult(r, o.answer))
<1>1. \A result \in VolRefuses(s, r) : VolPromises(s, r, s, result)
  BY VolErrors DEF VolRefuses
<1>2. ASSUME NEW o \in VolServe(s, r)
      PROVE  o.store \in VolServers /\ VolPromises(s, r, o.store, VolResult(r, o.answer))
  <2> DEFINE Direct(x) == IF OnPlane(r.op) THEN x \in ServeOnPlane(s, r)
                          ELSE IF r.token \notin s.valid THEN x \in VolReply(s, Bare(401))
                          ELSE IF s.vol[r.vol] # "live" THEN x \in VolReply(s, Bare(404))
                          ELSE x \in ServeContent(s, r)
  <2>1. \/ Direct(o)
        \/ \E x : Direct(x) /\ x.answer.http = 200 /\ o = [x EXCEPT !.answer = Garbled]
        \/ o.store = s /\ o.answer \in VolTroubles
    BY <1>2 DEF VolServe, VolReply
  <2>2. ASSUME NEW x, Direct(x) PROVE Kept(s, r, x)
    <3>1. CASE OnPlane(r.op)
      BY <2>2, <3>1, PlaneServed
    <3>2. CASE ~ OnPlane(r.op) /\ r.token \notin s.valid
      <4>1. VolPromises(s, r, s, VolResult(r, Bare(401)))
        BY <3>2, VolResults, VolErrors
      <4> QED BY <2>2, <3>2, <4>1, KeptBare
    <3>3. CASE ~ OnPlane(r.op) /\ r.token \in s.valid /\ s.vol[r.vol] # "live"
      <4>1. VolPromises(s, r, s, VolResult(r, Bare(404)))
        <5>1. CASE r.op = "exists"
          <6>1. VolSays(s, r, s, "false")
            BY <3>3, <5>1 DEF VolSays
          <6> QED BY <5>1, <6>1, VolResults, OkOrErr DEF VolPromises
        <5>2. CASE r.op # "exists"
          <6>1. r.op \notin {"create", "list", "destroy"}
            BY <3>3 DEF OnPlane
          <6> QED BY <3>3, <5>2, <6>1, VolResults, VolErrors
        <5> QED BY <5>1, <5>2
      <4> QED BY <2>2, <3>3, <4>1, KeptBare
    <3>4. CASE ~ OnPlane(r.op) /\ r.token \in s.valid /\ s.vol[r.vol] = "live"
      BY <2>2, <3>4, ContentServed
    <3> QED BY <3>1, <3>2, <3>3, <3>4
  <2> HIDE DEF Direct
  <2>3. CASE Direct(o)
    <3>1. Kept(s, r, o)
      BY <2>2, <2>3
    <3>2. ASSUME NEW v, o.answer = Success(v), VolSays(s, r, o.store, VolSaid(r, v))
          PROVE  VolPromises(s, r, o.store, VolResult(r, o.answer))
      <4>1. VolResult(r, o.answer) = Ok(VolSaid(r, v))
        BY <3>2, VolResults
      <4> QED BY <3>2, <4>1, OkOrErr DEF VolPromises
    <3> QED BY <3>1, <3>2 DEF Kept
  <2>4. ASSUME NEW x, Direct(x), x.answer.http = 200, o = [x EXCEPT !.answer = Garbled]
        PROVE  o.store \in VolServers /\ VolPromises(s, r, o.store, VolResult(r, o.answer))
    <3>1. Kept(s, r, x)
      BY <2>2, <2>4
    <3>2. o.store = x.store /\ o.answer = Garbled /\ x.store \in VolServers
      BY <2>4, <3>1 DEF Kept
    <3>3. PICK v : VolSays(s, r, x.store, VolSaid(r, v))
      BY <2>4, <3>1 DEF Kept, Bare
    <3>4. VolResult(r, Garbled) \in {Ok(VolSaid(r, v)), Err("Internal")}
      BY VolResults
    <3> QED BY <3>2, <3>3, <3>4, OkOrErr DEF VolPromises
  <2>5. CASE o.store = s /\ o.answer \in VolTroubles
    <3>1. VolResult(r, o.answer) \in {Err("Timeout"), Err("Sandbox")}
      BY <2>5, VolResults DEF VolTroubles
    <3> QED BY <2>5, <3>1, OkOrErr DEF VolPromises
  <2> QED BY <2>1, <2>3, <2>4, <2>5
<1> QED BY <1>1, <1>2

-----------------------------------------------------------------------------
(* Induction on numbers, and functions defined by recursion.               *)

\* A set of numbers has a least one; so what holds of 0, and with each number of the
\* next, holds of them all.
LEMMA LeastExists ==
  ASSUME NEW T, T \subseteq Nat, T # {}
  PROVE  \E x \in T : \A y \in T : x <= y
<1> DEFINE Less == OpToRel(<, Nat)
<1>1. IsWellFoundedOn(Less, Nat)
  BY NatLessThanWellFounded
<1>2. \A x, y \in Nat : y < x => <<y, x>> \in Less
  BY DEF OpToRel
<1> HIDE DEF Less
<1>3. PICK x \in T : \A y \in T : ~ (<<y, x>> \in Less)
  BY <1>1, WFMin
<1>4. \A y \in T : ~ (y < x)
  BY <1>2, <1>3
<1> QED BY <1>4

LEMMA InductionOnSet ==
  ASSUME NEW S, NEW m \in Nat, 0 \in S,
         \A n \in 0..m : n \in S /\ n < m => n + 1 \in S
  PROVE  \A n \in 0..m : n \in S
<1> SUFFICES ASSUME NEW k \in 0..m, k \notin S PROVE FALSE
  OBVIOUS
<1>1. PICK x \in 0..m \ S : \A y \in 0..m \ S : x <= y
  <2>1. 0..m \ S \subseteq Nat /\ 0..m \ S # {}
    OBVIOUS
  <2> QED BY <2>1, LeastExists
<1>2. x - 1 \in 0..m /\ x - 1 \in S
  BY <1>1
<1> QED BY <1>1, <1>2

\* A function that takes a step from each number to the next.
Chain(u, m, X, x, step) == /\ u \in [0..m -> X] /\ u[0] = x
                           /\ \A n \in 1..m : u[n] = step[<<n, u[n - 1]>>]

\* There is one, if the steps stay within a set.
LEMMA RecursionExists ==
  ASSUME NEW m \in Nat, NEW X, NEW x \in X, NEW step \in [(1..m) \X X -> X]
  PROVE  \E u : Chain(u, m, X, x, step)
<1> DEFINE Upto(n, u) == Chain(u, n, X, x, step)
           S == {n \in 0..m : \E u : Upto(n, u)}
<1>1. 0 \in S
  <2>1. Upto(0, [n \in 0..0 |-> x])
    BY DEF Chain
  <2> HIDE DEF Upto
  <2> QED BY <2>1
<1>2. ASSUME NEW n \in 0..m, n \in S, n < m PROVE n + 1 \in S
  <2>1. PICK u : Upto(n, u)
    BY <1>2
  <2>0. /\ u \in [0..n -> X] /\ u[0] = x
        /\ \A j \in 1..n : u[j] = step[<<j, u[j - 1]>>]
    BY <2>1 DEF Chain
  <2> DEFINE next == step[<<n + 1, u[n]>>]
             v == [j \in 0..n + 1 |-> IF j = n + 1 THEN next ELSE u[j]]
  <2>2. next \in X
    <3>1. n + 1 \in 1..m /\ u[n] \in X
      BY <1>2, <2>0
    <3> QED BY <3>1
  <2> HIDE DEF next
  <2>3. v[n + 1] = next /\ \A j \in 0..n : v[j] = u[j]
    BY <1>2
  <2>4. v \in [0..n + 1 -> X] /\ v[0] = x
    BY <1>2, <2>0, <2>2
  <2> HIDE DEF v
  <2>5. ASSUME NEW j \in 1..n + 1 PROVE v[j] = step[<<j, v[j - 1]>>]
    <3>1. CASE j = n + 1
      <4>1. j - 1 = n /\ n \in 0..n
        BY <3>1
      <4> QED BY <2>3, <3>1, <4>1 DEF next
    <3>2. CASE j # n + 1
      <4>1. j \in 1..n /\ j \in 0..n /\ j - 1 \in 0..n
        BY <3>2, <1>2
      <4> QED BY <2>0, <2>3, <4>1
    <3> QED BY <3>1, <3>2
  <2>6. Upto(n + 1, v)
    BY <2>4, <2>5 DEF Chain
  <2> HIDE DEF Upto
  <2>7. n + 1 \in 0..m
    BY <1>2
  <2> QED BY <2>6, <2>7
<1>3. \A n \in 0..m : n \in S
  <2> HIDE DEF S
  <2> QED BY <1>1, <1>2, InductionOnSet
<1> QED BY <1>3

-----------------------------------------------------------------------------
(* envd, and the files of a sandbox.                                       *)

\* The files there can be, and the requests about them.
FsServers == [api : {"files"}, version : Int, tree : SoundTrees]
FsAsked(Users) ==
  [op : {"get_info", "exists", "make_dir", "remove", "read"}, path : Paths, user : Users, arg : {0}]
  \union [op : {"list"}, path : Paths, user : Users, arg : Nat]
  \union [op : {"rename"}, path : Paths, user : Users, arg : Paths]
  \union [op : {"watch_dir"}, path : Paths, user : Users,
          arg : SUBSET {"recursive", "include_entry", "allow_network_mounts"}]
  \union [op : {"write"}, path : Paths, user : Users,
          arg : [data : Data, octet : BOOLEAN, meta : {"none", "good", "bad"}]]
  \union [op : {"write_files"}, path : {<< >>}, user : Users,
          arg : [files : Seq(Paths \X Data), meta : {"none", "good", "bad"}]]

FsOps == {"get_info", "exists", "make_dir", "remove", "read", "list", "rename", "watch_dir",
          "write", "write_files"}

\* What a success says once the SDK has made it a result.
FsSaid(r, v) ==
  CASE r.op \in {"exists", "make_dir"} -> "true"
    [] r.op = "watch_dir" -> "none"
    [] r.op = "list" -> {e \in v : e[2] # "odd"}
    [] r.op \notin {"exists", "make_dir", "watch_dir", "list"} -> v

\* Errors that are about no entry, and say nothing.
Vague == {Err(e) : e \in {"Timeout", "Sandbox", "RateLimit", "Internal"}}

\* What the SDK makes of the answers there are about files.
LEMMA FsResults ==
  ASSUME NEW r, r.op \in FsOps
  PROVE  /\ \A v : FsResult(r, Success(v)) = Ok(FsSaid(r, v)) \/ FsResult(r, Success(v)) \in Vague
         /\ FsResult(r, Garbled) \in Vague
            \/ (r.op = "watch_dir" /\ \A v : FsResult(r, Garbled) = Ok(FsSaid(r, v)))
         /\ IsRpc(r.op) =>
              /\ FsResult(r, Named(404, "not_found"))
                   = IF r.op = "exists" THEN Ok("false") ELSE Err("FileNotFound")
              /\ FsResult(r, Named(400, "invalid_argument")) = Err("InvalidArgument")
              /\ FsResult(r, Named(409, "already_exists"))
                   = IF r.op = "make_dir" THEN Ok("false") ELSE Err("Conflict")
              /\ FsResult(r, Named(500, "internal")) = Err("Sandbox")
              /\ \A a \in RpcTroubles : FsResult(r, a) \in Vague
         /\ ~ IsRpc(r.op) =>
              /\ FsResult(r, Bare(404)) = Err("FileNotFound")
              /\ FsResult(r, Bare(400)) = Err("InvalidArgument")
              /\ FsResult(r, Bare(507)) = Err("NotEnoughSpace")
              /\ \A a \in RestTroubles : FsResult(r, a) \in Vague
<1>1. /\ \A v : Unary(Success(v)) = Ok(v)
      /\ Unary(Garbled) = Err("Internal")
      /\ Unary(Named(404, "not_found")) = Err(MapCodeToError(FromName("not_found")))
      /\ Unary(Named(400, "invalid_argument")) = Err(MapCodeToError(FromName("invalid_argument")))
      /\ Unary(Named(409, "already_exists")) = Err(MapCodeToError(FromName("already_exists")))
      /\ Unary(Named(500, "internal")) = Err(MapCodeToError(FromName("internal")))
      /\ Unary(Bare(502)) = Err(MapCodeToError(FromHttpStatus(502)))
      /\ Unary(Named(409, "aborted")) = Err(MapCodeToError(FromName("aborted")))
      /\ Unary(Named(404, "unimplemented")) = Err(MapCodeToError(FromName("unimplemented")))
      /\ Unary(Numbered(500, 503)) = Err(MapCodeToError(FromHttpStatus(503)))
  BY Readings
<1>2. /\ MapCodeToError(FromName("not_found")) = "NotFound"
      /\ MapCodeToError(FromName("invalid_argument")) = "InvalidArgument"
      /\ MapCodeToError(FromName("already_exists")) = "Conflict"
      /\ MapCodeToError(FromName("internal")) = "Sandbox"
      /\ MapCodeToError(FromName("aborted")) = "Sandbox"
      /\ MapCodeToError(FromName("unimplemented")) = "Sandbox"
      /\ MapCodeToError(FromHttpStatus(502)) = "Timeout"
      /\ MapCodeToError(FromHttpStatus(503)) = "Timeout"
  BY DEF MapCodeToError, FromName, FromHttpStatus, Codes
<1>3. /\ \A v : Success(v).http = 200
      /\ Garbled.http = 200
      /\ \A n : Bare(n).http = n
      /\ \A n : \A c : Named(n, c).http = n /\ Numbered(n, c).http = n
  BY DEF Success, Garbled, Bare, Named, Numbered
\* The answer is a success, or an error e, before anything is made of it.
<1> DEFINE Reads(a, e) == Unary(a) = Err(e) /\ a.http # 200
<1>4. /\ Reads(Named(404, "not_found"), "NotFound")
      /\ Reads(Named(400, "invalid_argument"), "InvalidArgument")
      /\ Reads(Named(409, "already_exists"), "Conflict")
      /\ Reads(Named(500, "internal"), "Sandbox")
      /\ \A a \in RpcTroubles : Reads(a, "Sandbox") \/ Reads(a, "Timeout")
  BY <1>1, <1>2, <1>3 DEF RpcTroubles
<1>5. \A v : \A e : Ok(v) # Err(e)
  BY OkOrErr
<1>6. \A e, f : Err(e) = Err(f) => e = f
  BY OkOrErr
<1>7. ASSUME NEW v PROVE EntryInfo(Ok(v)) = IF v = "odd" THEN Err("Internal") ELSE Ok(v)
  <2>1. Ok(v) = Ok("odd") <=> v = "odd"
    BY OkOrErr
  <2> QED BY <1>5, <1>6, <2>1 DEF EntryInfo, OnError
<1>8. ASSUME NEW e PROVE EntryInfo(Err(e)) = IF e = "NotFound" THEN Err("FileNotFound") ELSE Err(e)
  BY <1>5, <1>6 DEF EntryInfo, OnError
<1>9. /\ \A v : FileNotFoundOnMissing(Ok(v)) = Ok(v)
      /\ \A e : FileNotFoundOnMissing(Err(e)) = IF e = "NotFound" THEN Err("FileNotFound") ELSE Err(e)
  BY <1>5, <1>6 DEF FileNotFoundOnMissing, OnError
<1>10. Err("Internal") \in Vague /\ Err("Sandbox") \in Vague /\ Err("Timeout") \in Vague
  BY DEF Vague
\* The result of every operation, in terms of what the answer reads.
<1>11. ASSUME IsRpc(r.op)
       PROVE  /\ \A v : FsResult(r, Success(v)) \in {Ok(FsSaid(r, v)), Err("Internal")}
              /\ FsResult(r, Garbled) = IF r.op = "watch_dir" THEN Ok("none") ELSE Err("Internal")
              /\ \A a, e : Reads(a, e) => FsResult(r, a) =
                   IF e = "NotFound" THEN IF r.op = "exists" THEN Ok("false") ELSE Err("FileNotFound")
                   ELSE IF e = "Conflict" /\ r.op = "make_dir" THEN Ok("false")
                   ELSE IF e = "FileNotFound" /\ r.op = "exists" THEN Ok("false") ELSE Err(e)
  <2>1. CASE r.op \in {"get_info", "rename"}
    <3>1. \A a : FsResult(r, a) = EntryInfo(Unary(a))
      BY <2>1 DEF FsResult, GetInfo
    <3>2. \A v : FsSaid(r, v) = v
      BY <2>1 DEF FsSaid
    <3> QED BY <1>1, <1>7, <1>8, <2>1, <3>1, <3>2
  <2>2. CASE r.op = "exists"
    <3>1. \A a : FsResult(r, a) = Exists(a)
      BY <2>2 DEF FsResult
    <3>2. \A v : FsSaid(r, v) = "true"
      BY <2>2 DEF FsSaid
    <3>3. /\ \A a, v : EntryInfo(Unary(a)) = Ok(v) => Exists(a) = Ok("true")
          /\ \A a, e : EntryInfo(Unary(a)) = Err(e) =>
                Exists(a) = IF e = "FileNotFound" THEN Ok("false") ELSE Err(e)
      BY <1>6, OkOrErr DEF Exists, GetInfo, OnError
    <3>4. \A v : Exists(Success(v)) \in {Ok("true"), Err("Internal")}
      BY <1>1, <1>7, <3>3
    <3>5. Exists(Garbled) = Err("Internal")
      BY <1>1, <1>8, <3>3
    <3>6. \A a, e : Unary(a) = Err(e) =>
            Exists(a) = IF e \in {"NotFound", "FileNotFound"} THEN Ok("false") ELSE Err(e)
      BY <1>8, <3>3
    <3> QED BY <2>2, <3>1, <3>2, <3>4, <3>5, <3>6
  <2>3. CASE r.op = "list"
    <3>1. \A a : FsResult(r, a) = LET reply == FileNotFoundOnMissing(Unary(a))
                                  IN  IF reply[1] = "ok" THEN Ok({e \in reply[2] : e[2] # "odd"})
                                      ELSE reply
      BY <2>3 DEF FsResult
    <3>2. \A v : FsSaid(r, v) = {e \in v : e[2] # "odd"}
      BY <2>3 DEF FsSaid
    <3>3. \A a, v : Unary(a) = Ok(v) => FsResult(r, a) = Ok(FsSaid(r, v))
      BY <1>9, <3>1, <3>2, OkOrErr
    <3>4. \A a, e : Unary(a) = Err(e) => FsResult(r, a) = IF e = "NotFound" THEN Err("FileNotFound")
                                                          ELSE Err(e)
      <4> SUFFICES ASSUME NEW a, NEW e, Unary(a) = Err(e)
                   PROVE  FsResult(r, a) = IF e = "NotFound" THEN Err("FileNotFound") ELSE Err(e)
        OBVIOUS
      <4> DEFINE f == IF e = "NotFound" THEN "FileNotFound" ELSE e
             reply == FileNotFoundOnMissing(Unary(a))
      <4>1. reply = Err(f) /\ reply[1] # "ok"
        BY <1>9, OkOrErr
      <4>2. FsResult(r, a) = IF reply[1] = "ok" THEN Ok({x \in reply[2] : x[2] # "odd"}) ELSE reply
        BY <3>1
      <4> HIDE DEF reply
      <4> QED BY <4>1, <4>2
    <3> QED BY <1>1, <2>3, <3>3, <3>4
  <2>4. CASE r.op = "make_dir"
    <3>1. \A a : FsResult(r, a) = LET reply == Unary(a)
                                  IN  IF reply[1] = "ok" THEN Ok("true")
                                      ELSE FileNotFoundOnMissing(OnError(reply, "Conflict", Ok("false")))
      BY <2>4 DEF FsResult
    <3>2. \A v : FsSaid(r, v) = "true"
      BY <2>4 DEF FsSaid
    <3>3. \A a, v : Unary(a) = Ok(v) => FsResult(r, a) = Ok("true")
      BY <3>1, OkOrErr
    <3>4. \A e : OnError(Err(e), "Conflict", Ok("false")) = IF e = "Conflict" THEN Ok("false") ELSE Err(e)
      BY <1>6 DEF OnError
    <3>5. \A a, e : Unary(a) = Err(e) => FsResult(r, a) =
                      IF e = "Conflict" THEN Ok("false") ELSE FileNotFoundOnMissing(Err(e))
      BY <1>9, <3>1, <3>4, OkOrErr
    <3> QED BY <1>1, <1>9, <2>4, <3>2, <3>3, <3>5
  <2>5. CASE r.op = "remove"
    <3>1. \A a : FsResult(r, a) = FileNotFoundOnMissing(Unary(a))
      BY <2>5 DEF FsResult
    <3>2. \A v : FsSaid(r, v) = v
      BY <2>5 DEF FsSaid
    <3> QED BY <1>1, <1>9, <2>5, <3>1, <3>2
  <2>6. CASE r.op = "watch_dir"
    <3>1. \A a : FsResult(r, a) = FileNotFoundOnMissing(IF a.http = 200 THEN Ok("none") ELSE Unary(a))
      BY <2>6 DEF FsResult
    <3>2. \A v : FsSaid(r, v) = "none"
      BY <2>6 DEF FsSaid
    <3> QED BY <1>1, <1>3, <1>9, <2>6, <3>1, <3>2
  <2>7. r.op \in {"get_info", "rename", "exists", "list", "make_dir", "remove", "watch_dir"}
    BY <1>11 DEF IsRpc, FsOps
  <2> QED BY <2>1, <2>2, <2>3, <2>4, <2>5, <2>6, <2>7
<1>12. ASSUME ~ IsRpc(r.op)
       PROVE  /\ \A v : FsResult(r, Success(v)) = Ok(FsSaid(r, v))
              /\ FsResult(r, Garbled) = Err("Internal")
              /\ FsResult(r, Bare(404)) = Err("FileNotFound")
              /\ FsResult(r, Bare(400)) = Err("InvalidArgument")
              /\ FsResult(r, Bare(507)) = Err("NotEnoughSpace")
              /\ \A a \in RestTroubles : FsResult(r, a) \in Vague
  <2>1. r.op \in {"read", "write", "write_files"}
    BY <1>12 DEF IsRpc
  <2>2. \A a : FsResult(r, a) = FileNotFoundOnMissing(Rest(a))
    BY <2>1 DEF FsResult
  <2>3. \A v : FsSaid(r, v) = v
    BY <2>1 DEF FsSaid
  <2>4. /\ \A v : Rest(Success(v)) = Ok(v)
        /\ Rest(Garbled) = Err("Internal")
        /\ Rest(Bare(404)) = Err("NotFound")
        /\ Rest(Bare(400)) = Err("InvalidArgument")
        /\ Rest(Bare(507)) = Err("NotEnoughSpace")
        /\ Rest(Bare(502)) = Err("Timeout")
        /\ Rest(Bare(500)) = Err("Sandbox")
    BY Readings DEF FromStatus
  <2>5. \A a \in RestTroubles : a \in {Bare(502), Bare(500)}
    BY DEF RestTroubles
  <2> QED BY <1>9, <1>10, <2>2, <2>3, <2>4, <2>5
<1>13. CASE IsRpc(r.op)
  <2>1. r.op = "watch_dir" => \A v : FsSaid(r, v) = "none"
    BY DEF FsSaid
  <2> HIDE DEF Reads
  <2> QED BY <1>4, <1>10, <1>11, <1>13, <2>1
<1>14. CASE ~ IsRpc(r.op)
  BY <1>10, <1>12, <1>14
<1> QED BY <1>13, <1>14

\* A batch is written file by file.
LEMMA WrittenStepByStep ==
  ASSUME NEW t \in Trees, NEW files \in Seq(Paths \X Data)
  PROVE  /\ Written(t, files, 0) = t
         /\ \A k \in 1..Len(files) :
              Written(t, files, k) = Placed(Written(t, files, k - 1), files[k][1], files[k][2])
<1> DEFINE m == Len(files)
           F(u) == [k \in 0..m |-> IF k = 0 THEN t ELSE Placed(u[k - 1], files[k][1], files[k][2])]
           c == CHOOSE u : u = F(u)
           step == [p \in (1..m) \X Trees |-> Placed(p[2], files[p[1]][1], files[p[1]][2])]
<1>1. m \in Nat
  OBVIOUS
<1>2. \A k \in 1..m : files[k][2] \in Data
  OBVIOUS
<1>3. \A a \in Trees, e \in Data : \A p : Placed(a, p, e) \in Trees
  BY DEF Placed, Trees, Entries
<1> HIDE DEF m
<1>4. step \in [(1..m) \X Trees -> Trees]
  BY <1>2, <1>3
<1>5. \A k \in 1..m, a \in Trees : step[<<k, a>>] = Placed(a, files[k][1], files[k][2])
  OBVIOUS
<1> HIDE DEF step
<1>6. PICK u : Chain(u, m, Trees, t, step)
  BY <1>1, <1>4, RecursionExists
<1>7. ASSUME NEW k \in 1..m PROVE u[k] = Placed(u[k - 1], files[k][1], files[k][2])
  <2>1. k - 1 \in 0..m
    BY <1>1
  <2> QED BY <1>5, <1>6, <2>1 DEF Chain
<1>8. u = F(u)
  <2>1. ASSUME NEW k \in 0..m
        PROVE  u[k] = IF k = 0 THEN t ELSE Placed(u[k - 1], files[k][1], files[k][2])
    <3>1. CASE k = 0
      BY <1>6, <3>1 DEF Chain
    <3>2. CASE k # 0
      <4>1. k \in 1..m
        BY <1>1, <3>2
      <4> QED BY <1>7, <3>2, <4>1
    <3> QED BY <3>1, <3>2
  <2>2. u \in [0..m -> Trees]
    BY <1>6 DEF Chain
  <2> QED BY <2>1, <2>2
<1>9. c = F(c)
  BY <1>8
<1>10. \A k : Written(t, files, k) = c[k]
  BY DEF Written, m
<1> HIDE DEF c
<1>11. c[0] = t /\ \A k \in 1..m : c[k] = Placed(c[k - 1], files[k][1], files[k][2])
  BY <1>1, <1>9
<1> QED BY <1>10, <1>11 DEF m

\* A tree stays sound while the files of a batch can be written.
LEMMA WrittenIsSound ==
  ASSUME NEW t \in SoundTrees, NEW files \in Seq(Paths \X Data), NEW n \in 0..Len(files),
         \A k \in 1..n : CanWrite(Written(t, files, k - 1), files[k][1])
  PROVE  Written(t, files, n) \in SoundTrees
<1> DEFINE S == {k \in 0..n : Written(t, files, k) \in SoundTrees}
<1>0. n \in Nat /\ n <= Len(files)
  OBVIOUS
<1>1. 0 \in S
  BY <1>0, WrittenStepByStep DEF SoundTrees
<1>2. ASSUME NEW k \in 0..n, k \in S, k < n PROVE k + 1 \in S
  <2> DEFINE u == Written(t, files, k)
             p == files[k + 1][1]
             e == files[k + 1][2]
  <2>1. k + 1 \in 1..n /\ k + 1 \in 0..n /\ k + 1 \in 1..Len(files) /\ (k + 1) - 1 = k
    BY <1>2
  <2>2. p \in Paths /\ e \in Data
    BY <2>1
  <2>3. u \in SoundTrees /\ CanWrite(u, p)
    BY <1>2, <2>1
  <2>4. Written(t, files, k + 1) = Placed(u, p, e)
    BY <2>1, WrittenStepByStep DEF SoundTrees
  <2> HIDE DEF u, p, e
  <2>5. u[p] # "dir"
    BY <2>2, <2>3, TreeAssumption DEF CanWrite, Entry
  <2>6. Placed(u, p, e) \in SoundTrees
    BY <2>2, <2>3, <2>5, PlacedIsSound
  <2> QED BY <2>1, <2>4, <2>6
<1>3. \A k \in 0..n : k \in S
  <2> HIDE DEF S
  <2> QED BY <1>0, <1>1, <1>2, InductionOnSet
<1> QED BY <1>0, <1>3

\* What the SDK refuses is what envd does not support, or does not fit.
LEMMA FsRefused ==
  ASSUME NEW Users, NEW s \in FsServers, NEW r \in FsAsked(Users)
  PROVE  /\ \A result \in FsRefuses(s, r) : FsPromises(s, r, s, result)
         /\ FsRefuses(s, r) = {} => ~ Unsupported(s, r)
         /\ FsRefuses(s, r) = {} /\ r.op = "write" /\ r.arg.meta # "none"
              => VersionGte(s.version, ENVD_FILE_METADATA)
<1>1. r.op \in FsOps /\ s.tree \in SoundTrees
  BY DEF FsAsked, FsOps, FsServers
<1>2. /\ r.op = "watch_dir" => r.arg \subseteq {"recursive", "include_entry", "allow_network_mounts"}
      /\ r.op \in {"write", "write_files"} => r.arg.meta \in {"none", "good", "bad"}
      /\ r.op = "write_files" => r.arg.files \in Seq(Paths \X Data)
  BY DEF FsAsked
<1>3. ASSUME r.op = "watch_dir" PROVE Unsupported(s, r) <=> ~ CanWatch(s.version, r.arg)
  <2>1. /\ Since("recursive") = 14 /\ Since("include_entry") = 63
        /\ Since("allow_network_mounts") = 64
    BY DEF Since, ENVD_VERSION_RECURSIVE_WATCH, ENVD_VERSION_FS_EVENT_ENTRY_INFO,
           ENVD_VERSION_WATCH_NETWORK_MOUNTS
  <2> QED BY <1>2, <1>3, <2>1 DEF Unsupported, CanWatch
<1>4. CASE r.op = "watch_dir"
  <2>1. FsRefuses(s, r) = IF ~ CanWatch(s.version, r.arg) THEN {Err("Template")} ELSE {}
    BY <1>4 DEF FsRefuses
  <2> QED BY <1>3, <1>4, <2>1 DEF FsPromises
<1>5. CASE r.op = "list"
  <2>1. FsRefuses(s, r) = IF r.arg < 1 THEN {Err("InvalidArgument")} ELSE {}
    BY <1>5 DEF FsRefuses
  <2>2. ~ Unsupported(s, r)
    BY <1>5 DEF Unsupported
  <2>3. r.arg < 1 => ~ Fits(s.tree, r)
    <3>1. r.arg \in Nat
      BY <1>5 DEF FsAsked
    <3>2. Fits(s.tree, r) => r.arg >= 1
      BY <1>5 DEF Fits
    <3> QED BY <3>1, <3>2
  <2> QED BY <1>5, <2>1, <2>2, <2>3, OkOrErr DEF FsPromises
<1>6. WriteHeaders(s.version, r.arg.meta)
        = IF r.arg.meta # "none" /\ ~ VersionGte(s.version, 62) THEN {Err("Template")}
          ELSE IF r.arg.meta = "bad" THEN {Err("InvalidArgument")} ELSE {}
  BY DEF WriteHeaders, ENVD_FILE_METADATA
<1>7. CASE r.op = "write"
  <2>1. FsRefuses(s, r) = WriteHeaders(s.version, r.arg.meta)
    BY <1>7 DEF FsRefuses
  <2>2. Unsupported(s, r) <=> r.arg.meta # "none" /\ ~ VersionGte(s.version, 62)
    BY <1>7 DEF Unsupported
  <2>3. r.arg.meta = "bad" => ~ Fits(s.tree, r)
    BY <1>7 DEF Fits
  <2> QED BY <1>6, <1>7, <2>1, <2>2, <2>3, OkOrErr DEF FsPromises, ENVD_FILE_METADATA
<1>8. CASE r.op = "write_files"
  <2>1. CASE r.arg.files = << >>
    <3>1. FsRefuses(s, r) = {Ok({})}
      BY <1>8, <2>1 DEF FsRefuses
    <3>2. ~ Unsupported(s, r)
      BY <1>8, <2>1 DEF Unsupported
    <3>3. FsMeans(s.tree, r, s.tree, {})
      <4>1. s.tree = Written(s.tree, r.arg.files, 0) /\ Len(r.arg.files) = 0
        BY <1>1, <1>2, <1>8, <2>1, WrittenStepByStep DEF SoundTrees
      <4> QED BY <1>8, <4>1 DEF FsMeans
    <3> QED BY <1>8, <3>1, <3>2, <3>3, OkOrErr DEF FsPromises
  <2>2. CASE r.arg.files # << >>
    <3>1. FsRefuses(s, r) = WriteHeaders(s.version, r.arg.meta)
      BY <1>8, <2>2 DEF FsRefuses
    <3>2. Unsupported(s, r) <=> r.arg.meta # "none" /\ ~ VersionGte(s.version, 62)
      BY <1>8, <2>2 DEF Unsupported
    <3> QED BY <1>6, <1>8, <3>1, <3>2, OkOrErr DEF FsPromises
  <2> QED BY <2>1, <2>2
<1>9. CASE r.op \notin {"watch_dir", "list", "write", "write_files"}
  <2>1. FsRefuses(s, r) = {} /\ ~ Unsupported(s, r)
    BY <1>9 DEF FsRefuses, Unsupported
  <2> QED BY <1>9, <2>1
<1> QED BY <1>4, <1>5, <1>7, <1>8, <1>9

\* What it takes for a result about files to be as promised.
LEMMA FsErrors ==
  ASSUME NEW s, NEW r, ~ Unsupported(s, r)
  PROVE  /\ \A s2 : \A e \in Vague : FsPromises(s, r, s2, e)
         /\ ~ Here(s.tree, r.path) => FsPromises(s, r, s, Err("FileNotFound"))
         /\ ~ Fits(s.tree, r) => FsPromises(s, r, s, Err("InvalidArgument"))
         /\ \A s2 : r.op = "write_files" => FsPromises(s, r, s2, Err("InvalidArgument"))
         /\ \A s2 : r.op \in {"write", "write_files"} => FsPromises(s, r, s2, Err("NotEnoughSpace"))
         /\ \A s2, v : FsMeans(s.tree, r, s2.tree, v) => FsPromises(s, r, s2, Ok(v))
BY OkOrErr DEF FsPromises, Vague

\* An outcome, with a body that decodes, is as promised.
FsKept(s, r, x) ==
  /\ x.store \in FsServers /\ x = [store |-> x.store, answer |-> x.answer]
  /\ \/ \E v : x.answer = Success(v) /\ FsMeans(s.tree, r, x.store.tree, FsSaid(r, v))
     \/ /\ x.answer.http # 200
        /\ FsRefuses(s, r) = {} => FsPromises(s, r, x.store, FsResult(r, x.answer))

LEMMA ReplyKept ==
  ASSUME NEW s, NEW r, NEW s2 \in FsServers, NEW a, NEW x \in Reply(s2, a),
         \/ \E v : a = Success(v) /\ FsMeans(s.tree, r, s2.tree, FsSaid(r, v))
         \/ /\ a.http # 200
            /\ FsRefuses(s, r) = {} => FsPromises(s, r, s2, FsResult(r, a))
  PROVE  FsKept(s, r, x)
<1>1. x = [store |-> s2, answer |-> a]
  BY DEF Reply
<1>2. x.store = s2 /\ x.answer = a /\ x = [store |-> x.store, answer |-> x.answer]
  BY <1>1
<1> QED BY <1>2 DEF FsKept

LEMMA ErrorKept ==
  ASSUME NEW s \in FsServers, NEW r, NEW a, NEW x \in Reply(s, a), a.http # 200, NEW e,
         FsResult(r, a) = e, FsRefuses(s, r) = {} => FsPromises(s, r, s, e)
  PROVE  FsKept(s, r, x)
BY ReplyKept

LEMMA ChangeKept ==
  ASSUME NEW s \in FsServers, NEW r, NEW t \in SoundTrees, NEW a, NEW x \in Change(s, t, a),
         \/ \E v : a = Success(v) /\ FsMeans(s.tree, r, t, FsSaid(r, v))
         \/ /\ a.http # 200
            /\ \A s2 : FsRefuses(s, r) = {} => FsPromises(s, r, s2, FsResult(r, a))
  PROVE  FsKept(s, r, x)
<1> DEFINE s2 == [s EXCEPT !.tree = t]
<1>1. s2 \in FsServers /\ s2.tree = t
  BY DEF FsServers
<1>2. x \in Reply(s2, a)
  BY DEF Change
<1> HIDE DEF s2
<1> QED BY <1>1, <1>2, ReplyKept

LEMMA FailureKept ==
  ASSUME NEW s \in FsServers, NEW r, NEW t \in SoundTrees, NEW a, NEW x \in Change(s, t, a),
         a.http # 200, r.op = "write_files", FsRefuses(s, r) = {} => ~ Unsupported(s, r),
         FsResult(r, a) = Err("InvalidArgument") \/ FsResult(r, a) = Err("NotEnoughSpace")
  PROVE  FsKept(s, r, x)
<1>1. \A s2 : FsRefuses(s, r) = {} => FsPromises(s, r, s2, FsResult(r, a))
  BY FsErrors
<1> QED BY <1>1, ChangeKept

\* What envd makes of a request on files that the SDK lets through.
LEMMA FilesServed ==
  ASSUME NEW Users, NEW s \in FsServers, NEW r \in FsAsked(Users), NEW x \in ServeFiles(s, r)
  PROVE  FsKept(s, r, x)
<1> DEFINE t == s.tree
           p == r.path
           missing == Named(404, "not_found")
           unfit == Named(400, "invalid_argument")
<1>1. /\ r.op \in FsOps /\ t \in SoundTrees
      /\ r.op # "write_files" => p \in Paths /\ p # << >> /\ Entry(t, p) = t[p]
      /\ r.op = "rename" => r.arg \in Paths
      /\ r.op = "write" => r.arg.data \in Data
      /\ r.op = "write_files" => r.arg.files \in Seq(Paths \X Data)
  BY TreeAssumption DEF FsAsked, FsOps, FsServers, Entry
<1>2. FsRefuses(s, r) = {} => ~ Unsupported(s, r)
  BY FsRefused
<1>3. /\ missing.http # 200 /\ unfit.http # 200 /\ Named(500, "internal").http # 200
      /\ Named(409, "already_exists").http # 200
      /\ \A n : Bare(n).http = n
  BY DEF Named, Bare
<1>4. ASSUME IsRpc(r.op), r.op # "exists", ~ Here(t, p), x \in Reply(s, missing)
      PROVE  FsKept(s, r, x)
  <2>1. FsResult(r, missing) = Err("FileNotFound")
    BY <1>1, <1>4, FsResults
  <2>2. ~ Unsupported(s, r) => FsPromises(s, r, s, Err("FileNotFound"))
    BY <1>4, FsErrors
  <2> QED BY <1>2, <1>3, <1>4, <2>1, <2>2, ErrorKept
<1>5. ASSUME IsRpc(r.op), ~ Fits(t, r), x \in Reply(s, unfit) PROVE FsKept(s, r, x)
  <2>1. FsResult(r, unfit) = Err("InvalidArgument")
    BY <1>1, <1>5, FsResults
  <2>2. ~ Unsupported(s, r) => FsPromises(s, r, s, Err("InvalidArgument"))
    BY <1>5, FsErrors
  <2> QED BY <1>2, <1>3, <1>5, <2>1, <2>2, ErrorKept
<1>6. ASSUME ~ IsRpc(r.op), FsRefuses(s, r) = {} => ~ Fits(t, r), x \in Reply(s, Bare(400))
      PROVE  FsKept(s, r, x)
  <2>1. FsResult(r, Bare(400)) = Err("InvalidArgument")
    BY <1>1, <1>6, FsResults
  <2>2. ~ Unsupported(s, r) /\ ~ Fits(t, r) => FsPromises(s, r, s, Err("InvalidArgument"))
    BY FsErrors
  <2> QED BY <1>2, <1>3, <1>6, <2>1, <2>2, ErrorKept
<1>7. CASE r.op \in {"get_info", "exists"}
  <2>0. IsRpc(r.op)
    BY <1>7 DEF IsRpc
  <2>1. CASE Here(t, p)
    <3>1. x \in Reply(s, Success(Entry(t, p)))
      BY <1>7, <2>1 DEF ServeFiles
    <3>2. FsMeans(t, r, t, FsSaid(r, Entry(t, p)))
      BY <1>7, <2>1 DEF FsMeans, FsSaid
    <3> QED BY <3>1, <3>2, ReplyKept
  <2>2. CASE ~ Here(t, p)
    <3>1. x \in Reply(s, missing)
      BY <1>7, <2>2 DEF ServeFiles
    <3>2. CASE r.op = "exists"
      <4>1. FsResult(r, missing) = Ok("false")
        BY <1>1, <2>0, <3>2, FsResults
      <4>2. FsMeans(t, r, t, "false")
        BY <2>2, <3>2 DEF FsMeans
      <4>3. ~ Unsupported(s, r) => FsPromises(s, r, s, Ok("false"))
        BY <4>2, FsErrors
      <4> QED BY <1>2, <1>3, <3>1, <4>1, <4>3, ErrorKept
    <3> QED BY <1>4, <1>7, <2>0, <2>2, <3>1, <3>2
  <2> QED BY <2>1, <2>2
<1>8. CASE r.op = "list"
  <2>0. IsRpc(r.op)
    BY <1>8 DEF IsRpc
  <2>1. CASE ~ Here(t, p)
    <3>1. x \in Reply(s, missing)
      BY <1>8, <2>1 DEF ServeFiles
    <3> QED BY <1>4, <1>8, <2>0, <2>1, <3>1
  <2>2. CASE Here(t, p) /\ Entry(t, p) # "dir"
    <3>1. x \in Reply(s, unfit)
      BY <1>8, <2>2 DEF ServeFiles
    <3>2. ~ Fits(t, r)
      BY <1>8, <2>2 DEF Fits
    <3> QED BY <1>5, <2>0, <3>1, <3>2
  <2>3. CASE Here(t, p) /\ Entry(t, p) = "dir"
    <3>1. x \in Reply(s, Success(Below(t, p, r.arg)))
      BY <1>8, <2>3 DEF ServeFiles
    <3>2. FsMeans(t, r, t, FsSaid(r, Below(t, p, r.arg)))
      BY <1>8 DEF FsMeans, FsSaid
    <3> QED BY <3>1, <3>2, ReplyKept
  <2> QED BY <2>1, <2>2, <2>3
<1>9. CASE r.op = "watch_dir"
  <2>0. IsRpc(r.op)
    BY <1>9 DEF IsRpc
  <2>1. CASE ~ Here(t, p)
    <3>1. x \in Reply(s, missing)
      BY <1>9, <2>1 DEF ServeFiles
    <3> QED BY <1>4, <1>9, <2>0, <2>1, <3>1
  <2>2. CASE Here(t, p) /\ Entry(t, p) # "dir"
    <3>1. x \in Reply(s, unfit)
      BY <1>9, <2>2 DEF ServeFiles
    <3>2. ~ Fits(t, r)
      BY <1>9, <2>2 DEF Fits
    <3> QED BY <1>5, <2>0, <3>1, <3>2
  <2>3. CASE Here(t, p) /\ Entry(t, p) = "dir"
    <3>1. x \in Reply(s, Success("none"))
      BY <1>9, <2>3 DEF ServeFiles
    <3>2. FsMeans(t, r, t, FsSaid(r, "none"))
      BY <1>9, <2>3 DEF FsMeans
    <3> QED BY <3>1, <3>2, ReplyKept
  <2> QED BY <2>1, <2>2, <2>3
<1>10. CASE r.op = "make_dir"
  <2>0. IsRpc(r.op)
    BY <1>10 DEF IsRpc
  <2>1. CASE Entry(t, p) = "dir"
    <3>1. x \in Reply(s, Named(409, "already_exists"))
      BY <1>10, <2>1 DEF ServeFiles
    <3>2. FsResult(r, Named(409, "already_exists")) = Ok("false")
      BY <1>1, <1>10, <2>0, FsResults
    <3>3. FsMeans(t, r, t, "false")
      BY <1>10, <2>1 DEF FsMeans, Here
    <3>4. ~ Unsupported(s, r) => FsPromises(s, r, s, Ok("false"))
      BY <3>3, FsErrors
    <3> QED BY <1>2, <1>3, <3>1, <3>2, <3>4, ErrorKept
  <2>2. CASE Entry(t, p) # "dir" /\ (Here(t, p) \/ ~ Reachable(t, p))
    <3>1. x \in Reply(s, unfit)
      BY <1>10, <2>2 DEF ServeFiles
    <3>2. ~ Fits(t, r)
      BY <1>1, <1>10, <2>2 DEF Fits, Here
    <3> QED BY <1>5, <2>0, <3>1, <3>2
  <2>3. CASE ~ Here(t, p) /\ Reachable(t, p)
    <3>1. x \in Change(s, Placed(t, p, "dir"), Success("dir"))
      BY <1>10, <2>3 DEF ServeFiles, Here
    <3>2. Placed(t, p, "dir") \in SoundTrees /\ Placed(t, p, "dir")[p] = "dir"
      BY <1>1, <1>10, PlacedIsSound
    <3>3. FsMeans(t, r, Placed(t, p, "dir"), FsSaid(r, "dir"))
      BY <1>10, <2>3, <3>2 DEF FsMeans, FsSaid
    <3> QED BY <3>1, <3>2, <3>3, ChangeKept
  <2> QED BY <2>1, <2>2, <2>3
<1>11. CASE r.op = "remove"
  <2>0. IsRpc(r.op)
    BY <1>11 DEF IsRpc
  <2>1. CASE Here(t, p)
    <3>1. x \in Change(s, Removed(t, p), Success("none"))
      BY <1>11, <2>1 DEF ServeFiles
    <3>2. Removed(t, p) \in SoundTrees
      BY <1>1, <1>11, RemovedIsSound
    <3>3. FsMeans(t, r, Removed(t, p), FsSaid(r, "none"))
      BY <1>11, <2>1 DEF FsMeans
    <3> QED BY <3>1, <3>2, <3>3, ChangeKept
  <2>2. CASE ~ Here(t, p)
    <3>1. x \in Reply(s, missing)
      BY <1>11, <2>2 DEF ServeFiles
    <3> QED BY <1>4, <1>11, <2>0, <2>2, <3>1
  <2> QED BY <2>1, <2>2
<1>12. CASE r.op = "rename"
  <2>0. IsRpc(r.op)
    BY <1>12 DEF IsRpc
  <2>1. CASE ~ Here(t, p)
    <3>1. x \in Reply(s, missing)
      BY <1>12, <2>1 DEF ServeFiles
    <3> QED BY <1>4, <1>12, <2>0, <2>1, <3>1
  <2>2. CASE Here(t, p) /\ MayMove(t, p, r.arg)
    <3>1. x \in Change(s, Moved(t, p, r.arg), Success(t[p]))
      BY <1>12, <2>2 DEF ServeFiles
    <3>2. /\ Moved(t, p, r.arg) \in SoundTrees
          /\ Moved(t, p, r.arg)[r.arg] = t[p] /\ Moved(t, p, r.arg)[p] = "absent"
      BY <1>1, <1>12, <2>2, MovedIsSound
    <3>3. FsMeans(t, r, Moved(t, p, r.arg), FsSaid(r, t[p]))
      BY <1>12, <3>2 DEF FsMeans, FsSaid
    <3> QED BY <3>1, <3>2, <3>3, ChangeKept
  <2>3. CASE Here(t, p) /\ ~ MayMove(t, p, r.arg)
    <3>1. x \in Reply(s, Named(500, "internal"))
      BY <1>12, <2>3 DEF ServeFiles
    <3>2. FsResult(r, Named(500, "internal")) = Err("Sandbox") /\ Err("Sandbox") \in Vague
      BY <1>1, <2>0, FsResults DEF Vague
    <3>3. ~ Unsupported(s, r) => FsPromises(s, r, s, Err("Sandbox"))
      BY <3>2, FsErrors
    <3> QED BY <1>2, <1>3, <3>1, <3>2, <3>3, ErrorKept
  <2> QED BY <2>1, <2>2, <2>3
<1>13. CASE r.op = "read"
  <2>0. ~ IsRpc(r.op)
    BY <1>13 DEF IsRpc
  <2>1. CASE ~ Here(t, p)
    <3>1. x \in Reply(s, Bare(404))
      BY <1>13, <2>1 DEF ServeFiles
    <3>2. FsResult(r, Bare(404)) = Err("FileNotFound")
      BY <1>1, <2>0, FsResults
    <3>3. ~ Unsupported(s, r) => FsPromises(s, r, s, Err("FileNotFound"))
      BY <2>1, FsErrors
    <3> QED BY <1>2, <1>3, <3>1, <3>2, <3>3, ErrorKept
  <2>2. CASE Here(t, p) /\ Entry(t, p) \in {"dir", "odd"}
    <3>1. x \in Reply(s, Bare(400))
      BY <1>13, <2>2 DEF ServeFiles
    <3>2. ~ Fits(t, r)
      BY <1>1, <1>13, <2>2, TreeAssumption DEF Fits
    <3> QED BY <1>6, <2>0, <3>1, <3>2
  <2>3. CASE Here(t, p) /\ Entry(t, p) \notin {"dir", "odd"}
    <3>1. x \in Reply(s, Success(Entry(t, p)))
      BY <1>13, <2>3 DEF ServeFiles
    <3>2. t[p] \in Data
      BY <1>1, <1>13, <2>3 DEF Here, SoundTrees, Trees, Entries
    <3>3. FsMeans(t, r, t, FsSaid(r, Entry(t, p)))
      BY <1>1, <1>13, <3>2 DEF FsMeans, FsSaid
    <3> QED BY <3>1, <3>3, ReplyKept
  <2> QED BY <2>1, <2>2, <2>3
<1>14. CASE r.op = "write"
  <2>0. ~ IsRpc(r.op)
    BY <1>14 DEF IsRpc
  <2>1. CASE x \in Reply(s, Bare(400)) /\ (FsRefuses(s, r) = {} => ~ CanWrite(t, p))
    <3>1. FsRefuses(s, r) = {} => ~ Fits(t, r)
      BY <1>14, <2>1 DEF Fits
    <3> QED BY <1>6, <2>0, <2>1, <3>1
  <2>2. CASE CanWrite(t, p) /\ x \in Change(s, Placed(t, p, r.arg.data), Success({p}))
    <3>1. Placed(t, p, r.arg.data) \in SoundTrees /\ Placed(t, p, r.arg.data)[p] = r.arg.data
      <4>1. t[p] # "dir" /\ r.arg.data \in Data
        BY <1>1, <1>14, <2>2 DEF CanWrite
      <4>2. t \in SoundTrees /\ p \in Paths
        BY <1>1, <1>14
      <4> DEFINE e == r.arg.data
      <4> HIDE DEF t, p, e
      <4>3. Placed(t, p, e) \in SoundTrees /\ Placed(t, p, e)[p] = e
        BY <4>1, <4>2, PlacedIsSound DEF e
      <4> QED BY <4>3 DEF e
    <3>2. FsMeans(t, r, Placed(t, p, r.arg.data), FsSaid(r, {p}))
      BY <1>14, <3>1 DEF FsMeans
    <3> QED BY <2>2, <3>1, <3>2, ChangeKept
  <2>3. CASE x \in Reply(s, Bare(507))
    <3>1. FsResult(r, Bare(507)) = Err("NotEnoughSpace")
      BY <1>1, <2>0, FsResults
    <3>2. ~ Unsupported(s, r) => FsPromises(s, r, s, Err("NotEnoughSpace"))
      BY <1>14, FsErrors
    <3> QED BY <1>2, <1>3, <2>3, <3>1, <3>2, ErrorKept
  <2>4. Form(s, r) = "octet" => VersionGte(s.version, ENVD_OCTET_STREAM_UPLOAD)
    BY DEF Form
  <2>5. FsRefuses(s, r) = {} =>
          ~ \/ Form(s, r) = "octet" /\ ~ VersionGte(s.version, ENVD_OCTET_STREAM_UPLOAD)
            \/ r.arg.meta # "none" /\ ~ VersionGte(s.version, ENVD_FILE_METADATA)
    BY <1>14, <2>4, FsRefused
  <2> QED BY <1>14, <2>1, <2>2, <2>3, <2>5 DEF ServeFiles
<1>15. CASE r.op = "write_files"
  <2> DEFINE files == r.arg.files
  <2>0. ~ IsRpc(r.op)
    BY <1>15 DEF IsRpc
  <2>1. PICK n \in 0..Len(files) :
          /\ \A k \in 1..n : CanWrite(Written(t, files, k - 1), files[k][1])
          /\ IF n = Len(files)
             THEN x \in Change(s, Written(t, files, n), Success({files[k][1] : k \in 1..n}))
             ELSE x \in Change(s, Written(t, files, n),
                               Bare(IF CanWrite(Written(t, files, n), files[n+1][1]) THEN 507 ELSE 400))
    <3>1. x \in ServeBatch(s, files)
      BY <1>15 DEF ServeFiles
    <3> HIDE DEF files
    <3> DEFINE N == {m \in 0..Len(files) :
                       \A k \in 1..m : CanWrite(Written(t, files, k - 1), files[k][1])}
               Outs(n) == IF n = Len(files)
                          THEN Change(s, Written(t, files, n), Success({files[k][1] : k \in 1..n}))
                          ELSE Change(s, Written(t, files, n),
                                      Bare(IF CanWrite(Written(t, files, n), files[n+1][1]) THEN 507 ELSE 400))
    <3>2. ServeBatch(s, files) = UNION {Outs(n) : n \in N}
      BY DEF ServeBatch
    <3> HIDE DEF Outs, N
    <3>3. PICK n \in N : x \in Outs(n)
      BY <3>1, <3>2
    <3> USE DEF Outs, N
    <3>4. n \in 0..Len(files) /\ \A k \in 1..n : CanWrite(Written(t, files, k - 1), files[k][1])
      OBVIOUS
    <3>5. CASE n = Len(files)
      BY <3>3, <3>4, <3>5
    <3>6. CASE n # Len(files)
      BY <3>3, <3>4, <3>6
    <3> QED BY <3>5, <3>6
  <2>2. Written(t, files, n) \in SoundTrees
    BY <1>1, <1>15, <2>1, WrittenIsSound
  <2>3. CASE n = Len(files)
    <3> DEFINE v == {files[k][1] : k \in 1..n}
    <3>1. FsMeans(t, r, Written(t, files, n), FsSaid(r, v))
      BY <1>15, <2>3 DEF FsMeans
    <3> HIDE DEF v
    <3>2. x \in Change(s, Written(t, files, n), Success(v))
      BY <2>1, <2>3 DEF v
    <3> HIDE DEF files
    <3> QED BY <2>2, <3>1, <3>2, ChangeKept
  <2>4. CASE n # Len(files)
    <3>1. PICK status \in {400, 507} : x \in Change(s, Written(t, files, n), Bare(status))
      BY <2>1, <2>4
    <3>2. FsResult(r, Bare(status)) \in {Err("InvalidArgument"), Err("NotEnoughSpace")}
      BY <1>1, <2>0, FsResults
    <3>3. Bare(status).http # 200
      BY <1>3
    <3> DEFINE a == Bare(status)
               u == Written(t, files, n)
    <3>4. /\ x \in Change(s, u, a) /\ u \in SoundTrees /\ a.http # 200
          /\ FsResult(r, a) = Err("InvalidArgument") \/ FsResult(r, a) = Err("NotEnoughSpace")
      BY <2>2, <3>1, <3>2, <3>3
    <3> HIDE DEF files, a, u
    <3> QED BY <1>2, <1>15, <3>4, FailureKept
  <2> QED BY <2>3, <2>4
<1> QED BY <1>1, <1>7, <1>8, <1>9, <1>10, <1>11, <1>12, <1>13, <1>14, <1>15 DEF FsOps

\* A request on files, alone, is refused or answered as promised.
LEMMA FilesAreKept ==
  ASSUME NEW Users, NEW s \in FsServers, NEW r \in FsAsked(Users)
  PROVE  /\ \A result \in FsRefuses(s, r) : FsPromises(s, r, s, result)
         /\ \A o \in FsServe(s, r) :
              /\ o.store \in FsServers
              /\ FsRefuses(s, r) = {} => FsPromises(s, r, o.store, FsResult(r, o.answer))
<1>1. r.op \in FsOps
  BY DEF FsAsked, FsOps
<1>2. ~ (User(s.version, r.user) = "none" /\ ~ VersionGte(s.version, ENVD_DEFAULT_USER))
  BY DEF User
<1>3. ASSUME NEW o \in FsServe(s, r)
      PROVE  \/ o \in ServeFiles(s, r)
             \/ \E x \in ServeFiles(s, r) : x.answer.http = 200 /\ o = [x EXCEPT !.answer = Garbled]
             \/ /\ o.store = s
                /\ o.answer \in IF IsRpc(r.op) THEN RpcTroubles ELSE RestTroubles
  <2>1. \/ o \in ServeFiles(s, r)
        \/ \E x \in ServeFiles(s, r) : x.answer.http = 200 /\ o = [x EXCEPT !.answer = Garbled]
        \/ \E a \in IF IsRpc(r.op) THEN RpcTroubles ELSE RestTroubles : o \in Reply(s, a)
    <3> DEFINE troubles == UNION {Reply(s, a) : a \in IF IsRpc(r.op) THEN RpcTroubles ELSE RestTroubles}
               garbled == {[x EXCEPT !.answer = Garbled] : x \in {y \in ServeFiles(s, r) : y.answer.http = 200}}
    <3>1. FsServe(s, r) = troubles \union (ServeFiles(s, r) \union garbled)
      <4>1. OrGarbled(ServeFiles(s, r)) = ServeFiles(s, r) \union garbled
        BY DEF OrGarbled
      <4>2. FsServe(s, r) = troubles \union OrGarbled(ServeFiles(s, r))
        <5> DEFINE outs == IF User(s.version, r.user) = "none" /\ ~ VersionGte(s.version, ENVD_DEFAULT_USER)
                           THEN Reply(s, Bare(401)) ELSE ServeFiles(s, r)
        <5>1. outs = ServeFiles(s, r)
          BY <1>2
        <5>2. FsServe(s, r) = troubles \union OrGarbled(outs)
          BY DEF FsServe
        <5> HIDE DEF outs
        <5> QED BY <5>1, <5>2
      <4> QED BY <4>1, <4>2
    <3>2. o \in troubles \/ o \in ServeFiles(s, r) \/ o \in garbled
      BY <1>3, <3>1
    <3>3. o \in troubles =>
            \E a \in IF IsRpc(r.op) THEN RpcTroubles ELSE RestTroubles : o \in Reply(s, a)
      OBVIOUS
    <3>4. o \in garbled =>
            \E x \in ServeFiles(s, r) : x.answer.http = 200 /\ o = [x EXCEPT !.answer = Garbled]
      OBVIOUS
    <3> QED BY <3>2, <3>3, <3>4
  <2>2. ASSUME NEW a, o \in Reply(s, a) PROVE o.store = s /\ o.answer = a
    BY <2>2 DEF Reply
  <2> QED BY <2>1, <2>2
<1>4. ASSUME NEW o \in FsServe(s, r)
      PROVE  /\ o.store \in FsServers
             /\ FsRefuses(s, r) = {} => FsPromises(s, r, o.store, FsResult(r, o.answer))
  <2>1. FsRefuses(s, r) = {} => ~ Unsupported(s, r)
    BY FsRefused
  <2>2. CASE o \in ServeFiles(s, r)
    <3>1. FsKept(s, r, o)
      BY <2>2, FilesServed
    <3>2. ASSUME NEW v, o.answer = Success(v), FsMeans(s.tree, r, o.store.tree, FsSaid(r, v)),
                 ~ Unsupported(s, r)
          PROVE  FsPromises(s, r, o.store, FsResult(r, o.answer))
      <4>1. FsResult(r, o.answer) = Ok(FsSaid(r, v)) \/ FsResult(r, o.answer) \in Vague
        BY <1>1, <3>2, FsResults
      <4> QED BY <3>2, <4>1, FsErrors
    <3> QED BY <2>1, <3>1, <3>2 DEF FsKept
  <2>3. ASSUME NEW x \in ServeFiles(s, r), x.answer.http = 200, o = [x EXCEPT !.answer = Garbled]
        PROVE  /\ o.store \in FsServers
               /\ FsRefuses(s, r) = {} => FsPromises(s, r, o.store, FsResult(r, o.answer))
    <3>1. FsKept(s, r, x)
      BY FilesServed
    <3>2. o.store = x.store /\ o.answer = Garbled /\ x.store \in FsServers
      BY <2>3, <3>1 DEF FsKept
    <3>3. PICK v : FsMeans(s.tree, r, x.store.tree, FsSaid(r, v))
      BY <2>3, <3>1 DEF FsKept
    <3>4. FsResult(r, Garbled) = Ok(FsSaid(r, v)) \/ FsResult(r, Garbled) \in Vague
      BY <1>1, FsResults
    <3> QED BY <2>1, <3>2, <3>3, <3>4, FsErrors
  <2>4. CASE o.store = s /\ o.answer \in IF IsRpc(r.op) THEN RpcTroubles ELSE RestTroubles
    <3>1. FsResult(r, o.answer) \in Vague
      BY <1>1, <2>4, FsResults
    <3> QED BY <2>1, <2>4, <3>1, FsErrors
  <2> QED BY <1>3, <2>2, <2>3, <2>4
<1>5. \A result \in FsRefuses(s, r) : FsPromises(s, r, s, result)
  BY FsRefused
<1> QED BY <1>4, <1>5

-----------------------------------------------------------------------------
(* Each server, called by many.                                            *)

\* The servers start in Stores and drift within them, and with what there is to
\* know callers make no requests but those of Requests.
Runs(Stores, Requests, Things) ==
  /\ \A s : Starts(s) => s \in Stores /\ Given(s) \subseteq Things
  /\ \A s \in Stores :
       /\ Drift(s) \subseteq Stores
       /\ \A k \in SUBSET Things : Asks(s, k) \subseteq Requests
       /\ \A r \in Requests : \A o \in Serve(s, r) :
            Learns(r, Result(r, o.answer)) \subseteq Things

\* The calls on the files of a sandbox (sandbox/filesystem): whoever calls, whatever
\* is lost and whatever processes write meanwhile, a call that returns takes effect
\* at one moment, and its result says what the documentation promises of it.
THEOREM FilesAreAtomic ==
  ASSUME NEW Users, NEW Things, Runs(FsServers, FsAsked(Users), Things),
         \A s \in FsServers, r \in FsAsked(Users) :
           /\ Refuses(s, r) = FsRefuses(s, r) /\ Serve(s, r) = FsServe(s, r)
           /\ \A a : Result(r, a) = FsResult(r, a)
           /\ \A result : Refusable(s, r, result) <=> FsPromises(s, r, s, result)
           /\ \A s2, result : Promises(s, r, s2, result) <=> FsPromises(s, r, s2, result)
  PROVE  CallsSpec => CallsAreAtomic
<1>1. Closed(FsServers, FsAsked(Users), Things)
  BY FilesAreKept DEF Closed, Runs
<1>2. EachIsKept(FsServers, FsAsked(Users))
  BY FilesAreKept DEF EachIsKept
<1> QED BY <1>1, <1>2, CallsAreAtomicIfEachIsKept

\* The same of volumes and their content (volume/control.rs, volume/client.rs).
THEOREM VolumesAreAtomic ==
  ASSUME NEW Things, Runs(VolServers, VolAsked, Things),
         \A s \in VolServers, r \in VolAsked :
           /\ Refuses(s, r) = VolRefuses(s, r) /\ Serve(s, r) = VolServe(s, r)
           /\ \A a : Result(r, a) = VolResult(r, a)
           /\ \A result : Refusable(s, r, result) <=> VolPromises(s, r, s, result)
           /\ \A s2, result : Promises(s, r, s2, result) <=> VolPromises(s, r, s2, result)
  PROVE  CallsSpec => CallsAreAtomic
<1>1. Closed(VolServers, VolAsked, Things)
  BY VolumesAreKept DEF Closed, Runs
<1>2. EachIsKept(VolServers, VolAsked)
  BY VolumesAreKept DEF EachIsKept
<1> QED BY <1>1, <1>2, CallsAreAtomicIfEachIsKept

\* The same of the processes of a sandbox (sandbox/commands, sandbox/pty).
THEOREM ProcessesAreAtomic ==
  ASSUME NEW Input, NEW Users, NEW Things,
         Runs(ProcServers(Input), ProcAsked(Input, Users), Things),
         \A s \in ProcServers(Input), r \in ProcAsked(Input, Users) :
           /\ Refuses(s, r) = ProcRefuses(s, r) /\ Serve(s, r) = ProcServe(s, r)
           /\ \A a : Result(r, a) = ProcResult(r, a)
           /\ \A result : Refusable(s, r, result) <=> ProcPromises(s, r, s, result)
           /\ \A s2, result : Promises(s, r, s2, result) <=> ProcPromises(s, r, s2, result)
  PROVE  CallsSpec => CallsAreAtomic
<1>1. Closed(ProcServers(Input), ProcAsked(Input, Users), Things)
  BY ProcessesAreKept DEF Closed, Runs
<1>2. EachIsKept(ProcServers(Input), ProcAsked(Input, Users))
  BY ProcessesAreKept DEF EachIsKept
<1> QED BY <1>1, <1>2, CallsAreAtomicIfEachIsKept

\* The same of the tags of templates (template/tags.rs); nothing is refused unasked.
THEOREM TagsAreAtomic ==
  ASSUME NEW Things, Runs(TagServers, TagAsked, Things),
         \A s \in TagServers, r \in TagAsked :
           /\ Refuses(s, r) = {} /\ Serve(s, r) = TagServe(s, r)
           /\ \A a : Result(r, a) = TagResult(r, a)
           /\ \A s2, result : Promises(s, r, s2, result) <=> TagPromises(s, r, s2, result)
  PROVE  CallsSpec => CallsAreAtomic
<1>1. Closed(TagServers, TagAsked, Things)
  BY TagsAreKept DEF Closed, Runs
<1>2. EachIsKept(TagServers, TagAsked)
  BY TagsAreKept DEF EachIsKept
<1> QED BY <1>1, <1>2, CallsAreAtomicIfEachIsKept

-----------------------------------------------------------------------------
(* The watch.                                                              *)

(* Sequences.                                                              *)

LEMMA PopKeeps ==
  ASSUME NEW S, NEW a \in Seq(S), NEW b \in Seq(S), NEW c \in Seq(S), b # << >>
  PROVE  Append(a, Head(b)) \o Tail(b) \o c = a \o b \o c
OBVIOUS

LEMMA SendKeeps ==
  ASSUME NEW S, NEW a \in Seq(S), NEW b \in Seq(S), NEW c \in Seq(S)
  PROVE  a \o (b \o c) \o << >> = a \o b \o c
OBVIOUS

LEMMA TakeAppends ==
  ASSUME NEW S, NEW a \in Seq(S), NEW b \in Seq(S), NEW n \in S
  PROVE  a \o b \o <<n>> = Append(a \o b \o << >>, n)
OBVIOUS

LEMMA Parts ==
  ASSUME NEW S, NEW s \in Seq(S), s # << >>
  PROVE  /\ Head(s) \in S /\ Head(s) = s[1] /\ Len(s) >= 1
         /\ Tail(s) \in Seq(S) /\ Len(Tail(s)) = Len(s) - 1
         /\ \A i \in 1..Len(Tail(s)) : Tail(s)[i] = s[i + 1]
OBVIOUS

LEMMA Prefixes ==
  ASSUME NEW S, NEW s \in Seq(S), NEW n \in 0..Len(s)
  PROVE  /\ SubSeq(s, 1, n) \in Seq(S) /\ Len(SubSeq(s, 1, n)) = n
         /\ \A i \in 1..n : SubSeq(s, 1, n)[i] = s[i]
OBVIOUS

LEMMA Empty ==
  /\ << >> \in Seq(Nat) /\ << >> \in Seq(Kinds) /\ Len(<< >>) = 0
  /\ << >> \in Seq([tag : {"start", "keepalive", "event"}, at : Nat])
OBVIOUS

\* An increasing sequence of numbers, and one above them all put behind it.
LEMMA AppendIncreases ==
  ASSUME NEW s \in Seq(Nat), NEW n \in Nat,
         \A i, j \in 1..Len(s) : i < j => s[i] < s[j],
         \A i \in 1..Len(s) : s[i] < n
  PROVE  LET t == Append(s, n) IN
         /\ \A i, j \in 1..Len(t) : i < j => t[i] < t[j]
         /\ {t[i] : i \in 1..Len(t)} = {s[i] : i \in 1..Len(s)} \union {n}
<1> DEFINE t == Append(s, n)
<1>1. /\ Len(t) = Len(s) + 1 /\ t[Len(s) + 1] = n /\ Len(s) \in Nat
      /\ \A i \in 1..Len(s) : t[i] = s[i]
  OBVIOUS
<1>2. \A i, j \in 1..Len(t) : i < j => t[i] < t[j]
  BY <1>1
<1>3. {t[i] : i \in 1..Len(t)} = {s[i] : i \in 1..Len(s)} \union {n}
  BY <1>1
<1> QED BY <1>2, <1>3

-----------------------------------------------------------------------------
LEMMA GotType == WatchTypeOK => Got \in Seq(Nat)
BY DEF WatchTypeOK, Got

\* Stamps are numbers from -1 on.
LEMMA StampType ==
  ASSUME WatchTypeOK, NEW i \in 0..Len(wire)
  PROVE  Stamp(i) \in Int
<1>1. CASE i = 0
  BY <1>1 DEF WatchTypeOK, Stamp
<1>2. CASE i # 0
  <2>1. i \in 1..Len(wire)
    BY <1>2 DEF WatchTypeOK
  <2> DEFINE M == [tag : {"start", "keepalive", "event"}, at : Nat]
  <2>3. wire \in Seq(M)
    BY DEF WatchTypeOK
  <2>4. ASSUME NEW S, wire \in Seq(S) PROVE wire[i] \in S
    BY <2>1, <2>4
  <2>2. wire[i] \in M
    BY <2>3, <2>4
  <2> QED BY <1>2, <2>2 DEF Stamp
<1> QED BY <1>1, <1>2

\* The first message on the wire.
LEMMA FirstMessage ==
  ASSUME WatchTypeOK, wire # << >>
  PROVE  /\ Head(wire) = wire[1] /\ Head(wire).at \in Nat /\ Len(wire) >= 1
         /\ Tail(wire) \in Seq([tag : {"start", "keepalive", "event"}, at : Nat])
         /\ Len(Tail(wire)) = Len(wire) - 1
         /\ \A i \in 1..Len(Tail(wire)) : Tail(wire)[i] = wire[i + 1]
<1> DEFINE M == [tag : {"start", "keepalive", "event"}, at : Nat]
<1>1. wire \in Seq(M)
  BY DEF WatchTypeOK
<1>2. Head(wire) \in M
  BY <1>1, Parts
<1>3. Head(wire).at \in Nat
  BY <1>2
<1> HIDE DEF M
<1>4. /\ Head(wire) = wire[1] /\ Len(wire) >= 1 /\ Tail(wire) \in Seq(M)
      /\ Len(Tail(wire)) = Len(wire) - 1
      /\ \A i \in 1..Len(Tail(wire)) : Tail(wire)[i] = wire[i + 1]
  BY <1>1, Parts
<1> QED BY <1>3, <1>4 DEF M

LEMMA InitHolds == WatchInit => WatchInv
<1> SUFFICES ASSUME WatchInit PROVE WatchInv
  OBVIOUS
<1> USE DEF WatchInit
<1>1. WatchTypeOK
  BY RoomAssumption, Empty DEF WatchTypeOK
<1>2. Stages /\ NoneComesLast
  BY DEF Stages, NoneComesLast
<1>3. WireInStep
  BY DEF WireInStep, Stamp
<1>4. EventsInOrder
  <2>1. Got = << >>
    BY DEF Got
  <2>2. Surfaced = {}
    BY DEF Surfaced
  <2> QED BY <2>1, <2>2 DEF EventsInOrder
<1> QED BY <1>1, <1>2, <1>3, <1>4 DEF WatchInv

-----------------------------------------------------------------------------
LEMMA TypeStep == WatchTypeOK /\ [WatchNext]_watchVars => WatchTypeOK'
<1> SUFFICES ASSUME WatchTypeOK, [WatchNext]_watchVars PROVE WatchTypeOK'
  OBVIOUS
<1> USE DEF WatchTypeOK, changes, worker
<1>1. ASSUME NEW k \in Kinds, Changes(k) PROVE WatchTypeOK'
  <2>1. log' \in Seq(Kinds) /\ Len(log') = Len(log) + 1 /\ Len(log) \in Nat
    BY <1>1 DEF Changes
  <2>2. wire' \in Seq([tag : {"start", "keepalive", "event"}, at : Nat])
    <3> DEFINE M == [tag : {"start", "keepalive", "event"}, at : Nat]
               m == Msg("event", Len(log) + 1)
    <3>1. m \in M /\ wire \in Seq(M)
      BY <2>1 DEF Msg
    <3>2. wire' = wire \/ wire' = Append(wire, m)
      BY <1>1 DEF Changes
    <3> HIDE DEF M, m
    <3>3. wire' \in Seq(M)
      BY ONLY <3>1, <3>2
    <3> QED BY <3>3 DEF M
  <2> QED BY <1>1, <2>1, <2>2 DEF Changes
<1>2. CASE Registers
  BY <1>2 DEF Registers, Msg
<1>3. CASE KeepsAlive
  BY <1>3 DEF KeepsAlive, Msg
<1>4. CASE Ends
  BY <1>4, Prefixes DEF Ends
<1>5. CASE Opens
  BY <1>5 DEF Opens
<1>6. CASE TakesEvent
  <2>1. /\ Head(wire).at \in Nat
        /\ Tail(wire) \in Seq([tag : {"start", "keepalive", "event"}, at : Nat])
    BY <1>6, FirstMessage DEF TakesEvent
  <2>2. <<Head(wire).at>> \in Seq(Nat) /\ Len(<<Head(wire).at>>) = 1
    BY <2>1
  <2> QED BY <1>6, <2>1, <2>2 DEF TakesEvent
<1>7. CASE SkipsMessage
  <2>1. /\ Head(wire).at \in Nat
        /\ Tail(wire) \in Seq([tag : {"start", "keepalive", "event"}, at : Nat])
    BY <1>7, FirstMessage DEF SkipsMessage
  <2> QED BY <1>7, <2>1 DEF SkipsMessage
<1>8. CASE SendsEvent
  <2>1. chan \o pend \in Seq(Nat) /\ Len(chan \o pend) = Len(chan) + Len(pend)
    OBVIOUS
  <2>2. Len(pend) \in Nat /\ Len(chan) \in Nat
    OBVIOUS
  <2> QED BY <1>8, <2>1, <2>2, Empty, RoomAssumption DEF SendsEvent
<1>9. CASE FindsNoReceiver \/ StreamStops \/ IsAborted
  <2>1. /\ UNCHANGED <<changes, upto, chan, popped, handle>>
        /\ pend' = << >> /\ task' \in {"ended", "aborted"}
    BY <1>9 DEF FindsNoReceiver, StreamStops, IsAborted, Finishes
  <2> QED BY <2>1, Empty
<1>10. CASE NextEvent
  BY <1>10, Parts, RoomAssumption DEF NextEvent
<1>11. CASE NextNone \/ Stops
  <2>1. CASE NextNone
    BY <1>11, <2>1 DEF NextNone
  <2>2. CASE Stops
    <3>1. /\ UNCHANGED <<changes, worker, popped>>
          /\ chan' = << >> /\ handle' = "stopped"
      BY <2>2 DEF Stops
    <3>2. chan' \in Seq(Nat) /\ Len(chan') <= Room
      BY <3>1, Empty, RoomAssumption
    <3> QED BY <3>1, <3>2
  <2> QED BY <1>11, <2>1, <2>2
<1>12. CASE UNCHANGED watchVars
  BY <1>12 DEF watchVars
<1> QED BY <1>1, <1>2, <1>3, <1>4, <1>5, <1>6, <1>7, <1>8, <1>9, <1>10, <1>11, <1>12
        DEF WatchNext, WatchStep, Envd, Worker, Holder
-----------------------------------------------------------------------------
LEMMA StagesStep ==
  WatchTypeOK /\ Stages /\ [WatchNext]_watchVars => Stages'
<1> SUFFICES ASSUME WatchTypeOK, Stages, [WatchNext]_watchVars PROVE Stages'
  OBVIOUS
<1> USE DEF Stages, changes, worker
<1>1. ASSUME NEW k \in Kinds, Changes(k) PROVE Stages'
  BY <1>1 DEF Changes
<1>2. CASE Registers
  BY <1>2 DEF Registers
<1>3. CASE KeepsAlive
  BY <1>3 DEF KeepsAlive
<1>4. CASE Ends
  <2>1. wire = << >> => wire' = << >>
    BY <1>4, Prefixes DEF Ends, WatchTypeOK
  <2> QED BY <1>4, <2>1 DEF Ends
<1>5. CASE Opens
  BY <1>5 DEF Opens
<1>6. CASE TakesEvent
  BY <1>6 DEF TakesEvent
<1>7. CASE SkipsMessage
  BY <1>7 DEF SkipsMessage
<1>8. CASE SendsEvent
  BY <1>8 DEF SendsEvent
<1>9. CASE FindsNoReceiver \/ StreamStops \/ IsAborted
  BY <1>9 DEF FindsNoReceiver, StreamStops, IsAborted, Finishes
<1>10. CASE NextEvent
  BY <1>10 DEF NextEvent
<1>11. CASE NextNone \/ Stops
  BY <1>11 DEF NextNone, Stops
<1>12. CASE UNCHANGED watchVars
  BY <1>12 DEF watchVars
<1> QED BY <1>1, <1>2, <1>3, <1>4, <1>5, <1>6, <1>7, <1>8, <1>9, <1>10, <1>11, <1>12
        DEF WatchNext, WatchStep, Envd, Worker, Holder

\* What the task does, and the handle, leaves the wire in step; so does taking its
\* first message.
LEMMA TakingKeepsStep ==
  ASSUME WatchTypeOK, WireInStep, wire # << >>, wire' = Tail(wire),
         upto' = Head(wire).at, UNCHANGED <<log, since, fate>>
  PROVE  /\ WireInStep'
         /\ upto' = upto + (IF Head(wire).tag = "event" THEN 1 ELSE 0)
         /\ upto' <= Len(log) /\ since >= 0
<1>1. /\ Head(wire) = wire[1] /\ Head(wire).at \in Nat /\ Len(wire) >= 1
      /\ Len(wire') = Len(wire) - 1 /\ Len(wire) \in Nat /\ Len(log) \in Nat
      /\ \A i \in 1..Len(wire') : wire'[i] = wire[i + 1]
  BY FirstMessage DEF WatchTypeOK
<1> DEFINE After(i) == IF i = 0 THEN upto' ELSE wire'[i].at
<1>2. \A i \in 0..Len(wire') : After(i) = Stamp(i + 1)
  BY <1>1 DEF Stamp
<1>3. /\ wire[1].at = Stamp(0) + (IF wire[1].tag = "event" THEN 1 ELSE 0)
      /\ Stamp(0) = upto /\ upto \in Int /\ since \in Int
  BY <1>1 DEF WireInStep, Stamp, WatchTypeOK
<1>4. ASSUME NEW i \in 1..Len(wire')
      PROVE  wire'[i].at = After(i - 1) + (IF wire'[i].tag = "event" THEN 1 ELSE 0)
  <2>1. i + 1 \in 1..Len(wire) /\ i - 1 \in 0..Len(wire') /\ (i - 1) + 1 = i
    BY <1>1
  <2>2. After(i - 1) = Stamp(i)
    BY <2>1, <1>2
  <2>3. wire[i + 1].at = Stamp((i + 1) - 1) + (IF wire[i + 1].tag = "event" THEN 1 ELSE 0)
    BY <2>1 DEF WireInStep
  <2>4. (i + 1) - 1 = i
    BY <2>1
  <2> QED BY <1>1, <2>2, <2>3, <2>4
<1>5. /\ After(Len(wire')) = Stamp(Len(wire))
      /\ \A i \in 0..Len(wire') : After(i) <= Len(log)
  <2>1. Len(wire') \in 0..Len(wire') /\ Len(wire') + 1 = Len(wire)
    BY <1>1
  <2>2. \A i \in 0..Len(wire') : i + 1 \in 0..Len(wire)
    BY <1>1
  <2> QED BY <1>2, <2>1, <2>2 DEF WireInStep
<1>6. since # -1
  BY DEF WireInStep
<1>7. since >= 0
  BY <1>6 DEF WatchTypeOK
<1>8. upto' = upto + (IF Head(wire).tag = "event" THEN 1 ELSE 0)
  BY <1>1, <1>3
<1>9. upto' <= Len(log)
  <2>1. 1 \in 0..Len(wire) /\ Stamp(1) = upto'
    BY <1>1 DEF Stamp
  <2> QED BY <2>1 DEF WireInStep
<1>10. since <= upto'
  BY <1>3, <1>8 DEF WireInStep
<1>11. WireInStep'
  BY <1>1, <1>4, <1>5, <1>6, <1>10 DEF WireInStep, Stamp
<1> QED BY <1>7, <1>8, <1>9, <1>11

\* A message more at the end of the wire, about the last change.
LEMMA AppendKeepsStep ==
  ASSUME WatchTypeOK, WireInStep, NEW tag \in {"start", "keepalive", "event"},
         since >= 0, fate = "live",
         wire' = Append(wire, Msg(tag, Len(log'))),
         Len(log') = Len(log) + (IF tag = "event" THEN 1 ELSE 0),
         UNCHANGED <<since, fate, upto>>
  PROVE  WireInStep'
<1> DEFINE After(i) == IF i = 0 THEN upto' ELSE wire'[i].at
<1>1. /\ Len(wire') = Len(wire) + 1 /\ Len(wire) \in Nat /\ Len(log) \in Nat
      /\ wire'[Len(wire) + 1] = Msg(tag, Len(log'))
      /\ \A i \in 1..Len(wire) : wire'[i] = wire[i]
  BY DEF WatchTypeOK
<1>2. \A i \in 0..Len(wire) : After(i) = Stamp(i) /\ Stamp(i) \in Int
  BY <1>1, StampType DEF Stamp
<1>3. After(Len(wire')) = Len(log') /\ Stamp(Len(wire)) = Len(log) /\ Len(log') >= Len(log)
  BY <1>1 DEF Msg, WireInStep
<1>4. ASSUME NEW i \in 1..Len(wire')
      PROVE  wire'[i].at = After(i - 1) + (IF wire'[i].tag = "event" THEN 1 ELSE 0)
  <2>1. CASE i = Len(wire) + 1
    <3>1. After(i - 1) = Len(log)
      BY <2>1, <1>1, <1>2, <1>3
    <3> QED BY <3>1, <2>1, <1>1 DEF Msg
  <2>2. CASE i # Len(wire) + 1
    <3>1. i \in 1..Len(wire) /\ i - 1 \in 0..Len(wire)
      BY <2>2, <1>1
    <3>2. wire[i].at = Stamp(i - 1) + (IF wire[i].tag = "event" THEN 1 ELSE 0)
      BY <3>1 DEF WireInStep
    <3> QED BY <3>1, <3>2, <1>1, <1>2
  <2> QED BY <2>1, <2>2
<1>5. ASSUME NEW i \in 0..Len(wire') PROVE After(i) <= Len(log')
  <2>1. CASE i = Len(wire) + 1
    BY <2>1, <1>1, <1>3
  <2>2. CASE i # Len(wire) + 1
    <3>1. i \in 0..Len(wire)
      BY <2>2, <1>1
    <3> QED BY <3>1, <1>1, <1>2, <1>3 DEF WireInStep
  <2> QED BY <2>1, <2>2
<1>6. since <= upto'
  BY DEF WireInStep
<1> QED BY <1>3, <1>4, <1>5, <1>6 DEF WireInStep, Stamp

\* A wire that loses its end, with the stream.
LEMMA CuttingKeepsStep ==
  ASSUME WatchTypeOK, WireInStep, Ends PROVE WireInStep'
<1>1. PICK n \in 0..Len(wire) : wire' = SubSeq(wire, 1, n)
  BY DEF Ends
<1>2. /\ Len(wire') = n /\ \A i \in 1..n : wire'[i] = wire[i]
      /\ n = 0 => wire' = << >>
  BY <1>1, Prefixes DEF WatchTypeOK
<1>3. fate' # "live" /\ UNCHANGED <<log, since, upto>>
  BY DEF Ends, worker
<1>4. \A i \in 1..n : i \in 1..Len(wire) /\ i - 1 \in 0..Len(wire) /\ i - 1 \in 0..n
  BY DEF WatchTypeOK
<1>5. wire = << >> => n = 0
  BY DEF WatchTypeOK
<1> DEFINE After(i) == IF i = 0 THEN upto' ELSE wire'[i].at
<1>6. \A i \in 0..n : i \in 0..Len(wire) /\ After(i) = Stamp(i)
  BY <1>2, <1>3 DEF Stamp, WatchTypeOK
<1>7. ASSUME NEW i \in 1..n
      PROVE  wire'[i].at = After(i - 1) + (IF wire'[i].tag = "event" THEN 1 ELSE 0)
  <2>1. wire[i].at = Stamp(i - 1) + (IF wire[i].tag = "event" THEN 1 ELSE 0)
    BY <1>4 DEF WireInStep
  <2>2. After(i - 1) = Stamp(i - 1)
    BY <1>4, <1>6
  <2> QED BY <1>2, <2>1, <2>2
<1>8. \A i \in 0..n : After(i) <= Len(log)
  BY <1>6 DEF WireInStep
<1> QED BY <1>2, <1>3, <1>5, <1>7, <1>8 DEF WireInStep, Stamp

LEMMA WireStep ==
  WatchTypeOK /\ Stages /\ WireInStep /\ [WatchNext]_watchVars => WireInStep'
<1> SUFFICES ASSUME WatchTypeOK, Stages, WireInStep, [WatchNext]_watchVars
             PROVE  WireInStep'
  OBVIOUS
<1> USE DEF changes, worker
<1>same. ASSUME UNCHANGED <<log, since, wire, fate, upto>> PROVE WireInStep'
  BY <1>same DEF WireInStep, Stamp
<1>1. ASSUME NEW k \in Kinds, Changes(k) PROVE WireInStep'
  <2>1. /\ log' = Append(log, k) /\ Len(log') = Len(log) + 1 /\ Len(log) \in Nat
        /\ UNCHANGED <<since, fate, upto>>
    BY <1>1 DEF Changes, WatchTypeOK
  <2>2. CASE since >= 0 /\ fate = "live"
    <3>1. wire' = Append(wire, Msg("event", Len(log')))
      BY <1>1, <2>1, <2>2 DEF Changes
    <3> QED BY <2>1, <2>2, <3>1, AppendKeepsStep
  <2>3. CASE ~ (since >= 0 /\ fate = "live")
    <3>1. wire' = wire
      BY <1>1, <2>3 DEF Changes
    <3>2. \A i \in 0..Len(wire) : Stamp(i) <= Len(log) /\ Stamp(i) \in Int
      BY StampType DEF WireInStep
    <3>3. \A i \in 0..Len(wire) : (IF i = 0 THEN upto ELSE wire[i].at) <= Len(log) + 1
      BY <3>2, <2>1 DEF Stamp
    <3> QED BY <2>1, <2>3, <3>1, <3>3 DEF WireInStep, Stamp
  <2> QED BY <2>2, <2>3
<1>2. CASE Registers
  <2>1. /\ since' = Len(log) /\ upto' = Len(log) /\ Len(log) \in Nat
        /\ Len(wire') = 1 /\ wire'[1].at = Len(log) /\ wire'[1].tag = "start"
        /\ log' = log
    BY <1>2 DEF Registers, Msg, WatchTypeOK
  <2> QED BY <2>1 DEF WireInStep, Stamp
<1>3. CASE KeepsAlive
  BY <1>3, AppendKeepsStep DEF KeepsAlive, WatchTypeOK
<1>4. CASE Ends
  BY <1>4, CuttingKeepsStep
<1>5. CASE TakesEvent
  BY <1>5, TakingKeepsStep DEF TakesEvent
<1>6. CASE SkipsMessage
  BY <1>6, TakingKeepsStep DEF SkipsMessage
<1>7. CASE Opens \/ SendsEvent
  BY <1>7, <1>same DEF Opens, SendsEvent
<1>8. CASE FindsNoReceiver \/ StreamStops \/ IsAborted
  BY <1>8, <1>same DEF FindsNoReceiver, StreamStops, IsAborted, Finishes
<1>9. CASE Holder
  BY <1>9, <1>same DEF Holder, NextEvent, NextNone, Stops
<1>10. CASE UNCHANGED watchVars
  BY <1>10, <1>same DEF watchVars
<1> QED BY <1>1, <1>2, <1>3, <1>4, <1>5, <1>6, <1>7, <1>8, <1>9, <1>10
        DEF WatchNext, WatchStep, Envd, Worker

-----------------------------------------------------------------------------
\* An event that moves, from the task into the channel or from it to the caller.
LEMMA MoveKeepsGot ==
  ASSUME WatchTypeOK, SendsEvent \/ NextEvent
  PROVE  Got' = Got
<1>type. popped \in Seq(Nat) /\ chan \in Seq(Nat) /\ pend \in Seq(Nat)
  BY DEF WatchTypeOK
<1>1. CASE SendsEvent
  <2>1. popped \o (chan \o pend) \o << >> = popped \o chan \o pend
    BY ONLY <1>type, SendKeeps
  <2> QED BY <1>1, <2>1 DEF SendsEvent, Got
<1>2. CASE NextEvent
  <2>1. Append(popped, Head(chan)) \o Tail(chan) \o pend = popped \o chan \o pend
    <3>1. chan # << >>
      BY <1>2 DEF NextEvent
    <3> QED BY ONLY <1>type, <3>1
  <2> QED BY <1>2, <2>1 DEF NextEvent, Got, worker
<1> QED BY <1>1, <1>2

\* The changes between two messages of the wire are all of kinds the SDK does not
\* know, so that what an event adds to Got is what it adds to Surfaced.
LEMMA EventsStep ==
  WatchTypeOK /\ Stages /\ WireInStep /\ EventsInOrder /\ [WatchNext]_watchVars
    => EventsInOrder'
<1> SUFFICES ASSUME WatchTypeOK, Stages, WireInStep, EventsInOrder, [WatchNext]_watchVars,
                    handle' # "stopped"
             PROVE  EventsInOrder'
  BY DEF EventsInOrder
<1> USE DEF changes, worker
<1>type. /\ popped \in Seq(Nat) /\ chan \in Seq(Nat) /\ pend \in Seq(Nat)
         /\ Got \in Seq(Nat) /\ Len(log) \in Nat /\ since \in Int /\ upto \in Int
  BY GotType DEF WatchTypeOK
<1>same. ASSUME handle # "stopped", Got' = Got, Surfaced' = Surfaced PROVE EventsInOrder'
  BY <1>same DEF EventsInOrder
<1>1. ASSUME NEW k \in Kinds, Changes(k) PROVE EventsInOrder'
  <2>1. Got' = Got /\ handle' = handle
    BY <1>1 DEF Changes, Got
  <2>2. upto <= Len(log) /\ upto' = upto /\ since' = since
    <3>1. 0 \in 0..Len(wire) /\ Stamp(0) = upto
      BY DEF Stamp, WatchTypeOK
    <3> QED BY <1>1, <3>1 DEF WireInStep, Changes
  <2>3. /\ Len(log') = Len(log) + 1
        /\ \A n \in 1..Len(log) : log'[n] = log[n]
    BY <1>1 DEF Changes, WatchTypeOK
  <2>4. Surfaced' = Surfaced
    <3>1. \A n \in 1..Len(log') : n <= upto => n \in 1..Len(log) /\ log'[n] = log[n]
      <4>1. \A n \in 1..Len(log') : n <= upto => n \in 1..Len(log)
        BY ONLY <1>type, <2>2, <2>3
      <4> QED BY <4>1, <2>3
    <3>2. \A n \in 1..Len(log) : n \in 1..Len(log')
      BY <1>type, <2>3
    <3>3. Surfaced' = {n \in 1..Len(log') : since < n /\ n <= upto /\ log'[n] # "odd"}
      BY <2>2 DEF Surfaced
    <3> QED BY <3>1, <3>2, <3>3 DEF Surfaced
  <2> QED BY <2>1, <2>4, <1>same
<1>2. CASE Registers
  <2>1. Surfaced = {} /\ Surfaced' = {}
    BY <1>2, <1>type DEF Registers, Surfaced, WireInStep
  <2> QED BY <1>2, <2>1, <1>same DEF Registers, Got
<1>3. CASE KeepsAlive \/ Ends \/ Opens
  BY <1>3, <1>same DEF KeepsAlive, Ends, Opens, Got, Surfaced
<1>4. CASE TakesEvent
  <2> DEFINE n == Head(wire).at
  <2>1. /\ n \in Nat /\ n = upto + 1 /\ n <= Len(log) /\ log[n] # "odd"
        /\ since >= 0 /\ since <= upto /\ upto' = n /\ UNCHANGED <<log, since, handle>>
    BY <1>4, FirstMessage, TakingKeepsStep DEF TakesEvent, IsSurfaced, WireInStep
  <2>2. Surfaced' = Surfaced \union {n}
    BY <2>1, <1>type DEF Surfaced
  <2>3. Got' = Append(Got, n)
    <3>1. pend = << >> /\ pend' = <<n>> /\ UNCHANGED <<popped, chan>>
      BY <1>4 DEF TakesEvent, Stages
    <3>2. popped \o chan \o <<n>> = Append(popped \o chan \o << >>, n)
      BY ONLY <1>type, <2>1, TakeAppends
    <3> QED BY <3>1, <3>2 DEF Got
  <2>4. /\ \A i, j \in 1..Len(Got) : i < j => Got[i] < Got[j]
        /\ {Got[i] : i \in 1..Len(Got)} = Surfaced
    BY <2>1 DEF EventsInOrder
  <2>5. \A i \in 1..Len(Got) : Got[i] < n
    <3>1. \A m \in Surfaced : m < n
      BY <2>1, <1>type DEF Surfaced
    <3> QED BY <3>1, <2>4
  <2>6. LET t == Append(Got, n) IN
        /\ \A i, j \in 1..Len(t) : i < j => t[i] < t[j]
        /\ {t[i] : i \in 1..Len(t)} = {Got[i] : i \in 1..Len(Got)} \union {n}
    BY ONLY <1>type, <2>1, <2>4, <2>5, AppendIncreases
  <2> QED BY <2>2, <2>3, <2>4, <2>6 DEF EventsInOrder
<1>5. CASE SkipsMessage
  <2>1. /\ UNCHANGED <<log, since, handle, popped, chan, pend>> /\ wire # << >>
        /\ upto' = upto + (IF Head(wire).tag = "event" THEN 1 ELSE 0)
        /\ upto' = Head(wire).at
    BY <1>5, TakingKeepsStep DEF SkipsMessage
  <2>2. Head(wire).tag = "event" => log[upto + 1] = "odd"
    BY <1>5, <2>1, <1>type DEF SkipsMessage, IsSurfaced
  <2>3. Surfaced' = Surfaced
    BY <2>1, <2>2, <1>type DEF Surfaced
  <2> QED BY <2>1, <2>3, <1>same DEF Got
<1>6. CASE SendsEvent \/ NextEvent
  <2>1. Got' = Got
    BY <1>6, MoveKeepsGot
  <2> QED BY <1>6, <2>1, <1>same DEF SendsEvent, NextEvent, Surfaced
<1>7. CASE StreamStops
  <2>1. pend = << >> /\ pend' = << >>
    BY <1>7 DEF StreamStops, Finishes, Stages
  <2> QED BY <1>7, <2>1, <1>same DEF StreamStops, Finishes, Got, Surfaced
<1>8. CASE FindsNoReceiver \/ IsAborted \/ Stops
  BY <1>8 DEF FindsNoReceiver, IsAborted, Stops, Finishes
<1>9. CASE NextNone
  BY <1>9, <1>same DEF NextNone, Got, Surfaced
<1>10. CASE UNCHANGED watchVars
  BY <1>10, <1>same DEF watchVars, Got, Surfaced
<1> QED BY <1>1, <1>2, <1>3, <1>4, <1>5, <1>6, <1>7, <1>8, <1>9, <1>10
        DEF WatchNext, WatchStep, Envd, Worker, Holder

LEMMA NoneStep ==
  WatchTypeOK /\ Stages /\ NoneComesLast /\ [WatchNext]_watchVars => NoneComesLast'
<1> SUFFICES ASSUME WatchTypeOK, Stages, NoneComesLast, [WatchNext]_watchVars
             PROVE  NoneComesLast'
  OBVIOUS
<1> USE DEF NoneComesLast, changes, worker
<1>1. ASSUME NEW k \in Kinds, Changes(k) PROVE NoneComesLast'
  BY <1>1 DEF Changes
<1>2. CASE Envd
  BY <1>2 DEF Envd, Registers, KeepsAlive, Ends
<1>3. CASE Opens
  BY <1>3 DEF Opens
<1>4. CASE Worker
  BY <1>4 DEF Worker, TakesEvent, SkipsMessage, SendsEvent, FindsNoReceiver,
              StreamStops, IsAborted, Finishes
<1>5. CASE NextEvent \/ Stops
  BY <1>5 DEF NextEvent, Stops
<1>6. CASE NextNone
  <2>1. pend = << >>
    BY <1>6 DEF NextNone, Stages
  <2> QED BY <1>6, <2>1 DEF NextNone, Stages
<1>7. CASE UNCHANGED watchVars
  BY <1>7 DEF watchVars
<1> QED BY <1>1, <1>2, <1>3, <1>4, <1>5, <1>6, <1>7 DEF WatchNext, WatchStep, Holder

-----------------------------------------------------------------------------
LEMMA StepHolds == WatchInv /\ [WatchNext]_watchVars => WatchInv'
BY TypeStep, StagesStep, WireStep, EventsStep, NoneStep DEF WatchInv

\* WatchInv is an invariant, and with it that no event is lost, doubled or reordered,
\* and that None comes last.
THEOREM EventsAreInOrder == WatchSpec => [](EventsInOrder /\ NoneComesLast)
<1>1. WatchInv => EventsInOrder /\ NoneComesLast
  BY DEF WatchInv
<1> QED BY <1>1, InitHolds, StepHolds, PTL DEF WatchSpec

-----------------------------------------------------------------------------
(* Calls and a watch.                                                      *)

\* A step is one of the calls, or none of theirs, and one of the watch, or none.
LEMMA StepsApart ==
  ASSUME [Next]_vars, \A s, s2 : Watched(s, s2) \in Kinds \union {"none"}
  PROVE  [CallsNext]_callVars /\ [WatchNext]_watchVars
<1>1. ASSUME NEW c \in Callers, MakesCall(c)
      PROVE  [CallsNext]_callVars /\ [WatchNext]_watchVars
  BY <1>1 DEF MakesCall, CallsNext, CallStep
<1>2. ASSUME NEW c \in Callers, GivesUp(c)
      PROVE  [CallsNext]_callVars /\ [WatchNext]_watchVars
  BY <1>2 DEF GivesUp, CallsNext, CallStep
<1>3. ASSUME NEW c \in Callers, ReturnsHandle(c)
      PROVE  [CallsNext]_callVars /\ [WatchNext]_watchVars
  BY <1>3 DEF ReturnsHandle, CallsNext, CallStep, WatchNext
<1>4. ASSUME NEW c \in Callers, ReturnsOther(c)
      PROVE  [CallsNext]_callVars /\ [WatchNext]_watchVars
  BY <1>4 DEF ReturnsOther, CallsNext, CallStep
<1>5. CASE ChangesStore
  <2>1. CallsNext
    BY <1>5 DEF ChangesStore, CallsNext, CallStep
  <2>2. UNCHANGED watchVars \/ \E k \in Kinds : Changes(k)
    BY <1>5 DEF ChangesStore
  <2> QED BY <2>1, <2>2 DEF WatchNext
<1>6. CASE WatchGoesOn
  BY <1>6 DEF WatchGoesOn, WatchNext, WatchStep
<1>7. CASE UNCHANGED vars
  BY <1>7 DEF vars
<1> QED BY <1>1, <1>2, <1>3, <1>4, <1>5, <1>6, <1>7 DEF Next

\* Whatever the callers do beside a watch, and whatever becomes of their calls, the
\* watch hands out each change once, in order, before its None; and while a watch goes
\* on, calls take effect one at a time, as promised, if each by itself does.
THEOREM CallsAndWatch ==
  ASSUME NEW Stores, NEW Requests, NEW Things,
         Closed(Stores, Requests, Things), EachIsKept(Stores, Requests),
         \A s, s2 : Watched(s, s2) \in Kinds \union {"none"}
  PROVE  Spec => CallsAreAtomic /\ [](EventsInOrder /\ NoneComesLast)
<1>1. Init => CallsInit /\ WatchInit
  BY DEF Init
<1>2. [Next]_vars => [CallsNext]_callVars /\ [WatchNext]_watchVars
  BY StepsApart
<1>3. Spec => CallsSpec /\ WatchSpec
  BY <1>1, <1>2, PTL DEF Spec, CallsSpec, WatchSpec
<1>4. CallsSpec => CallsAreAtomic
  BY CallsAreAtomicIfEachIsKept
<1> QED BY <1>3, <1>4, EventsAreInOrder, PTL
===============================================================================
