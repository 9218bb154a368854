------------------------------ MODULE Git_proofs ------------------------------
(***************************************************************************)
(* Of the calls with credentials (GitCredentials): for every set of        *)
(* callers, pushing and cloning, and every fault, a call that nothing      *)
(* disturbed runs its operation with its own credentials, and takes them   *)
(* off again before it says Ok.                                            *)
(*                                                                         *)
(* Of the calls without (GitCalls): for every set of callers, whatever     *)
(* they ask for and whatever others do to the repository between two       *)
(* commands, what is made of a command's answer is true of the repository  *)
(* it ran on.  Every command leaves a repository (CommandStays); what it   *)
(* prints is so (StatusIsTrue, AnswerFits, PushAndPull); the call keeps    *)
(* the repository its last command ran on and what that gave (GitTypeOK).  *)
(***************************************************************************)
EXTENDS GitCredentials, GitCalls, FiniteSetTheorems, SequenceTheorems, TLAPS

Steps == {"upstream", "resolve", "get", "set", "op", "restore", "clone", "strip"}
Exits == {"zero", "nonzero", "lost"}

\* The plain URL and no URL hold nobody's credentials.
LEMMA PlainIsNobody == \A c \in Callers : c # Plain /\ c # Absent
  BY UrlAssumption

\* What is asked of each call gives what is promised of all.
LEMMA TheyComeOff ==
  /\ (\A c \in Callers : Undisturbed(c)) => CredentialsComeOff
  /\ (\A c \in Callers : Undisturbed(c)') => CredentialsComeOff'
  BY DEF Undisturbed, Nowhere, CredentialsComeOff

\* The initial states satisfy the invariant.
LEMMA Begins == Init => IInv
<1> SUFFICES ASSUME Init PROVE IInv
  OBVIOUS
<1>1. TypeOK
  BY UrlAssumption DEF Init, TypeOK, Urls, NoJob
<1>2. ASSUME NEW c \in Callers PROVE Undisturbed(c)
  <2>1. Nowhere(c)
    BY PlainIsNobody, UrlAssumption DEF Init, Nowhere, NoJob
  <2> QED
    BY <2>1 DEF Init, Undisturbed, UnderWay
<1> QED
  BY <1>1, <1>2, TheyComeOff DEF IInv

-----------------------------------------------------------------------------
(* What a step of one call leaves to the others.                           *)

\* The rest of the state is as it was, and excuses are not taken back.
Others(c) == /\ excused \subseteq excused'
             /\ \A d \in Callers \ {c} : /\ pc'[d] = pc[d] /\ job'[d] = job[d]
                                         /\ ret'[d] = ret[d] /\ original'[d] = original[d]

\* Another call is as undisturbed as it was, if the step spreads no credentials
\* but its own caller's, and excuses the calls it disturbs.
LEMMA OthersKeep ==
  ASSUME IInv, NEW c \in Callers, Others(c), NEW d \in Callers \ {c},
         c \in UnderWay \/ d \notin UnderWay \/ d \in excused',
         Nowhere(d) => Nowhere(d)'
  PROVE  Undisturbed(d)'
<1>1. Undisturbed(d)
  BY DEF IInv
<1>2. d \in UnderWay' <=> d \in UnderWay
  BY DEF Others, UnderWay
<1>3. d \notin UnderWay' \ excused'
  BY <1>1, <1>2 DEF Others, Undisturbed
<1> QED
  BY <1>1, <1>3 DEF Others, Undisturbed

\* A caller under way has a process, and the others have none if it is alone.
LEMMA HasJob ==
  ASSUME IInv, NEW c \in Callers
  PROVE  /\ c \in UnderWay <=> job[c].st # "none"
         /\ c \in UnderWay <=> pc[c] \in Steps
         /\ c \notin UnderWay => job[c].out = Absent
  BY DEF IInv, TypeOK, UnderWay, Steps, NoJob

\* What a command writes is no other caller's credentials.
LEMMA WritesItsOwn ==
  ASSUME IInv, NEW c \in Callers, NEW d \in Callers \ {c}, Nowhere(d)
  PROVE  Command(c).url # d
  BY PlainIsNobody DEF Command, Nowhere

-----------------------------------------------------------------------------
(* The sandbox.                                                            *)

\* What a command does to the URL: it writes its own, or nothing, or fails.
LEMMA Effects ==
  ASSUME NEW cmd, NEW zero \in BOOLEAN, Effect(cmd, zero, remote')
  PROVE  /\ remote' \in {cmd.url, Absent, remote}
         /\ cmd.at = "set-url" /\ zero => remote' = cmd.url
         /\ cmd.at = "read" => remote' = remote
  BY DEF Effect

\* A command runs: it finds the URL as its caller left it.
LEMMA ExecuteKeeps ==
  ASSUME IInv, NEW c \in Callers, Execute(c)
  PROVE  IInv'
<1>1. PICK zero \in BOOLEAN :
        /\ Effect(Command(c), zero, remote')
        /\ job' = [job EXCEPT ![c] = [st |-> "exited", zero |-> zero,
                                      out |-> IF zero THEN remote ELSE Absent]]
  BY DEF Execute
<1>2. job[c].st = "pending" /\ UNCHANGED <<pc, original, opOk, ret, orphans, excused>>
  BY DEF Execute
<1>3. c \in UnderWay /\ pc[c] \in Steps
  BY <1>2, HasJob
<1>4. /\ remote' \in {Command(c).url, Absent, remote}
      /\ Command(c).at = "set-url" /\ zero => remote' = Command(c).url
      /\ Command(c).at = "read" => remote' = remote
  BY <1>1, Effects
<1>5. /\ job'[c] = [st |-> "exited", zero |-> zero, out |-> IF zero THEN remote ELSE Absent]
      /\ \A d \in Callers \ {c} : job'[d] = job[d]
  BY <1>1 DEF IInv, TypeOK
<1>6. TypeOK'
  <2>1. remote' \in Urls
    BY <1>4 DEF IInv, TypeOK, Command, Urls
  <2>2. job' \in [Callers -> [st : {"none", "pending", "exited"}, zero : BOOLEAN, out : Urls]]
    BY <1>1 DEF IInv, TypeOK, Urls
  <2>3. \A d \in Callers : /\ job'[d].st = "none" => job'[d] = NoJob
                           /\ job'[d].st = "none" <=> pc'[d] \in {"idle", "done"}
    BY <1>2, <1>3, <1>5 DEF IInv, TypeOK, Steps
  <2> QED
    BY <1>2, <2>1, <2>2, <2>3 DEF IInv, TypeOK
<1>7. ASSUME NEW d \in Callers \ {c} PROVE Undisturbed(d)'
  <2>1. Others(c)
    BY <1>2, <1>5 DEF Others
  <2>2. ASSUME Nowhere(d) PROVE Nowhere(d)'
    <3>1. remote' # d /\ job'[c].out # d
      BY <1>4, <1>5, <2>2, WritesItsOwn, PlainIsNobody DEF Nowhere
    <3> QED
      BY <1>2, <1>5, <2>2, <3>1 DEF Nowhere
  <2> QED
    BY <1>3, <2>1, <2>2, OthersKeep
<1>8. Undisturbed(c)'
  <2>1. Undisturbed(c)
    BY DEF IInv
  <2>2. UnderWay' = UnderWay
    BY <1>2 DEF UnderWay
  <2>3. CASE c \in excused
    BY <1>2, <1>3, <2>1, <2>3 DEF Undisturbed, Steps
  <2>4. CASE c \notin excused
    <3>1. /\ UnderWay = {c} /\ orphans = {} /\ \A d \in Callers : original[d] # c
          /\ pc[c] \in {"upstream", "resolve", "get"} => Nowhere(c)
          /\ pc[c] = "op" => remote = c
      BY <1>3, <2>1, <2>4 DEF Undisturbed
    <3>2. pc[c] \in {"upstream", "resolve", "get", "op"} => remote' = remote
      BY <1>4 DEF Command
    <3>3. pc[c] \in {"upstream", "resolve", "get"} => Nowhere(c)'
      <4>1. ASSUME pc[c] \in {"upstream", "resolve", "get"} PROVE Nowhere(c)'
        <5>1. remote' # c /\ job'[c].out # c
          BY <1>5, <3>1, <3>2, <4>1, PlainIsNobody DEF Nowhere
        <5> QED
          BY <1>2, <1>5, <3>1, <4>1, <5>1 DEF Nowhere
      <4> QED
        BY <4>1
    <3>4. pc[c] = "set" /\ zero => remote' = c
      BY <1>4 DEF Command
    <3>5. pc[c] \in {"restore", "strip"} /\ zero => remote' # c
      BY <1>4, <3>1, PlainIsNobody DEF Command
    <3> QED
      BY <1>2, <1>3, <1>5, <2>1, <2>2, <3>1, <3>2, <3>3, <3>4, <3>5 DEF Undisturbed, Steps
  <2> QED
    BY <2>3, <2>4
<1>9. \A d \in Callers : Undisturbed(d)'
  BY <1>7, <1>8
<1>10. CredentialsComeOff'
  BY <1>9, TheyComeOff
<1> QED
  BY <1>6, <1>9, <1>10 DEF IInv

\* A left-over process runs: whoever is under way is excused of it.
LEMMA ExecuteOrphanKeeps ==
  ASSUME IInv, ExecuteOrphan
  PROVE  IInv'
<1>1. PICK cmd \in orphans, zero \in BOOLEAN :
        Effect(cmd, zero, remote') /\ orphans' = orphans \ {cmd}
  BY DEF ExecuteOrphan
<1>2. UNCHANGED <<pc, job, original, opOk, ret, excused>>
  BY DEF ExecuteOrphan
<1>3. remote' \in {cmd.url, Absent, remote}
  BY <1>1, Effects
<1>4. TypeOK'
  <2>1. remote' \in Urls
    BY <1>1, <1>3 DEF IInv, TypeOK, Commands, Urls
  <2> QED
    BY <1>1, <1>2, <2>1 DEF IInv, TypeOK
<1>5. ASSUME NEW d \in Callers PROVE Undisturbed(d)'
  <2>1. Undisturbed(d)
    BY DEF IInv
  <2>2. d \notin UnderWay' \ excused'
    BY <1>1, <1>2, <2>1 DEF Undisturbed, UnderWay
  <2>3. ASSUME Nowhere(d) PROVE Nowhere(d)'
    <3>1. remote' # d
      BY <1>1, <1>3, <2>3, PlainIsNobody DEF Nowhere
    <3> QED
      BY <1>1, <1>2, <2>3, <3>1 DEF Nowhere
  <2> QED
    BY <1>2, <2>1, <2>2, <2>3 DEF Undisturbed
<1>6. CredentialsComeOff'
  BY <1>5, TheyComeOff
<1> QED
  BY <1>4, <1>5, <1>6 DEF IInv

-----------------------------------------------------------------------------
(* The calls.                                                              *)

\* A call begins: undisturbed if all is quiet; if not, all that meet are excused.
LEMMA StartKeeps ==
  ASSUME IInv, NEW c \in Callers, Start(c)
  PROVE  IInv'
<1>1. PICK step \in {"clone", "upstream", "resolve", "get"} :
        pc' = [pc EXCEPT ![c] = step] /\ job' = [job EXCEPT ![c] = Pending] /\ ret' = ret
  BY KindAssumption DEF Start, RunNext, GoTo
<1>2. /\ pc[c] = "idle" /\ UNCHANGED <<remote, original, opOk, orphans>>
      /\ excused' = IF Quiet THEN excused ELSE excused \cup UnderWay \cup {c}
  BY DEF Start, RunNext
<1>3. /\ pc'[c] = step /\ job'[c] = Pending
      /\ \A d \in Callers \ {c} : pc'[d] = pc[d] /\ job'[d] = job[d]
  BY <1>1 DEF IInv, TypeOK
<1>4. TypeOK'
  <2>1. pc' \in [Callers -> {"idle", "upstream", "resolve", "get", "set", "op",
                            "restore", "clone", "strip", "done"}]
    BY <1>1 DEF IInv, TypeOK
  <2>2. job' \in [Callers -> [st : {"none", "pending", "exited"}, zero : BOOLEAN, out : Urls]]
    BY <1>1 DEF IInv, TypeOK, Pending, Urls
  <2>3. \A d \in Callers : /\ job'[d].st = "none" => job'[d] = NoJob
                           /\ job'[d].st = "none" <=> pc'[d] \in {"idle", "done"}
    BY <1>3 DEF IInv, TypeOK, Pending
  <2>4. excused' \subseteq Callers
    BY <1>2 DEF IInv, TypeOK, UnderWay
  <2> QED
    BY <1>1, <1>2, <2>1, <2>2, <2>3, <2>4 DEF IInv, TypeOK
<1>5. \A d \in Callers : Nowhere(d) => Nowhere(d)'
  BY <1>2, <1>3, PlainIsNobody DEF Nowhere, Pending
<1>6. ASSUME NEW d \in Callers \ {c} PROVE Undisturbed(d)'
  <2>1. Others(c)
    BY <1>1, <1>2, <1>3 DEF Others
  <2>2. d \notin UnderWay \/ d \in excused'
    BY <1>2 DEF Quiet
  <2> QED
    BY <1>5, <2>1, <2>2, OthersKeep
<1>7. Undisturbed(c)'
  <2>1. Undisturbed(c)
    BY DEF IInv
  <2>2. ret'[c] = "none" /\ Nowhere(c) /\ Nowhere(c)'
    BY <1>1, <1>2, <1>5, <2>1 DEF Undisturbed
  <2>3. CASE Quiet
    <3>1. UnderWay' = {c} /\ orphans' = {}
      BY <1>2, <1>3, <2>3 DEF UnderWay, Quiet
    <3>2. \A d \in Callers : original'[d] # c
      BY <2>2 DEF Nowhere
    <3> QED
      BY <1>1, <1>3, <2>2, <3>1, <3>2 DEF Undisturbed
  <2>4. CASE ~ Quiet
    BY <1>1, <1>2, <1>3, <2>2, <2>4 DEF Undisturbed
  <2> QED
    BY <2>3, <2>4
<1>8. \A d \in Callers : Undisturbed(d)'
  BY <1>6, <1>7
<1>9. CredentialsComeOff'
  BY <1>8, TheyComeOff
<1> QED
  BY <1>4, <1>8, <1>9 DEF IInv

\* Where a call goes on from a command that ended in r and printed out.
Goes(c, r, out) ==
  /\ pc' = [pc EXCEPT ![c] = pc'[c]] /\ job' = [job EXCEPT ![c] = job'[c]]
  /\ ret' = [ret EXCEPT ![c] = ret'[c]] /\ original' = [original EXCEPT ![c] = original'[c]]
  /\ opOk' \in [Callers -> BOOLEAN]
  /\ \/ /\ pc'[c] = "done" /\ job'[c] = NoJob
        /\ ret'[c] \in {"ok", "failed", "err", "cancelled"}
        /\ ret'[c] = "ok" => r = "zero" /\ pc[c] \in {"restore", "strip"}
     \/ /\ <<pc[c], pc'[c]>> \in {<<"upstream", "resolve">>, <<"resolve", "get">>,
                                 <<"get", "set">>, <<"set", "op">>, <<"op", "restore">>,
                                 <<"clone", "strip">>}
        /\ job'[c] = Pending /\ ret'[c] = ret[c]
        /\ r = "lost" => pc[c] = "op"
        /\ pc[c] \notin {"op", "get", "resolve"} => r = "zero"
  /\ original'[c] = Absent \/ original'[c] = original[c] \/ (pc[c] = "get" /\ original'[c] = out)

\* The commands follow one another as with_remote_credentials and clone have them.
LEMMA Continues ==
  ASSUME IInv, NEW c \in Callers, NEW r \in Exits, NEW out \in Urls, Continue(c, r, out)
  PROVE  Goes(c, r, out)
<1>1. /\ pc \in [Callers -> Steps \cup {"idle", "done"}]
      /\ DOMAIN job = Callers /\ job = [d \in Callers |-> job[d]]
      /\ DOMAIN ret = Callers /\ ret = [d \in Callers |-> ret[d]]
      /\ original = [d \in Callers |-> original[d]] /\ opOk \in [Callers -> BOOLEAN]
  BY DEF IInv, TypeOK, Steps
<1>2. ASSUME NEW v, Return(c, v)
      PROVE  /\ pc' = [pc EXCEPT ![c] = pc'[c]] /\ job' = [job EXCEPT ![c] = job'[c]]
             /\ ret' = [ret EXCEPT ![c] = ret'[c]]
             /\ pc'[c] = "done" /\ job'[c] = NoJob /\ ret'[c] = v
             /\ original' = [original EXCEPT ![c] = original'[c]] /\ original'[c] = Absent
             /\ opOk' \in [Callers -> BOOLEAN]
  BY <1>1, <1>2 DEF Return
<1>3. ASSUME NEW s, GoTo(c, s)
      PROVE  /\ pc' = [pc EXCEPT ![c] = pc'[c]] /\ job' = [job EXCEPT ![c] = job'[c]]
             /\ ret' = [ret EXCEPT ![c] = ret'[c]]
             /\ pc'[c] = s /\ job'[c] = Pending /\ ret'[c] = ret[c]
  BY <1>1, <1>3 DEF GoTo
<1>4. CASE /\ pc[c] = "resolve"
           /\ IF r # "lost" /\ out # Absent THEN RunNext(c, "get") ELSE Return(c, "err")
  BY <1>1, <1>2, <1>3, <1>4 DEF Goes, Exits, RunNext
<1>5. CASE /\ pc[c] = "get"
           /\ \/ /\ r # "lost" /\ out # Absent
                 /\ GoTo(c, "set")
                 /\ original' = [original EXCEPT ![c] = out] /\ UNCHANGED opOk
              \/ /\ r = "lost" \/ out \in {Absent, Plain}
                 /\ Return(c, "err")
  BY <1>1, <1>2, <1>3, <1>5 DEF Goes, Exits
<1>6. CASE /\ pc[c] = "set"
           /\ IF SetUrlDone(r) THEN RunNext(c, "op") ELSE Return(c, "err")
  BY <1>1, <1>2, <1>3, <1>6 DEF Goes, Exits, SetUrlDone, RunNext
<1>7. CASE pc[c] = "op" /\ AfterOp(c, r)
  <2>1. GoTo(c, "restore") /\ opOk' \in [Callers -> BOOLEAN] /\ UNCHANGED original
    BY <1>1, <1>7 DEF AfterOp
  <2> QED
    BY <1>1, <1>3, <1>7, <2>1 DEF Goes, Exits
<1>8. CASE /\ pc[c] = "restore"
           /\ Return(c, IF opOk[c] /\ SetUrlDone(r) THEN "ok" ELSE "err")
  BY <1>1, <1>2, <1>8 DEF Goes, Exits, SetUrlDone
<1>9. CASE /\ pc[c] = "clone"
           /\ \/ r = "zero" /\ RunNext(c, "strip")
              \/ r = "nonzero" /\ \E v \in {"failed", "err"} : Return(c, v)
              \/ r = "lost" /\ Return(c, "err")
  BY <1>1, <1>2, <1>3, <1>9 DEF Goes, Exits, RunNext
<1>10. CASE /\ pc[c] = "strip"
            /\ Return(c, IF SetUrlDone(r) THEN "ok" ELSE "err")
  BY <1>1, <1>2, <1>10 DEF Goes, Exits, SetUrlDone
<1>11. CASE /\ pc[c] = "upstream"
            /\ IF r = "zero" /\ out # Absent THEN RunNext(c, "resolve") ELSE Return(c, "err")
  BY <1>1, <1>2, <1>3, <1>11 DEF Goes, Exits, RunNext
<1> QED
  BY <1>4, <1>5, <1>6, <1>7, <1>8, <1>9, <1>10, <1>11 DEF Continue

\* A call goes on, or returns: it says Ok only of a URL that it has cleaned.
LEMMA GoesKeeps ==
  ASSUME IInv, NEW c \in UnderWay, NEW r \in Exits, NEW out \in {job[c].out, Absent},
         Goes(c, r, out), remote' = remote,
         excused \subseteq excused', excused' \subseteq Callers,
         orphans' \in {orphans, orphans \cup {Command(c)}},
         c \notin excused' => /\ r = "zero" => job[c].st = "exited" /\ job[c].zero
                              /\ pc'[c] # "done" => orphans' = orphans
  PROVE  IInv'
<1>1. c \in Callers /\ pc[c] \in Steps /\ job[c].st # "none"
  BY HasJob DEF UnderWay
<1>2. /\ pc'[c] \in Steps \cup {"done"} /\ job'[c] \in {NoJob, Pending}
      /\ pc'[c] = "done" <=> job'[c] = NoJob
      /\ ret'[c] = "none" <=> pc'[c] # "done"
      /\ ret'[c] \in {"none", "ok", "failed", "err", "cancelled"}
  <2>1. ret[c] = "none" /\ NoJob # Pending
    BY <1>1 DEF IInv, Undisturbed, Steps, NoJob, Pending
  <2> QED
    BY <2>1 DEF Goes, Steps
<1>3. /\ \A d \in Callers \ {c} : /\ pc'[d] = pc[d] /\ job'[d] = job[d]
                                  /\ ret'[d] = ret[d] /\ original'[d] = original[d]
      /\ Others(c)
  BY <1>1 DEF Goes, Others, IInv, TypeOK
<1>4. original'[c] \in {original[c], job[c].out, Absent}
  BY DEF Goes
<1>5. TypeOK'
  <2>1. pc' \in [Callers -> {"idle", "upstream", "resolve", "get", "set", "op",
                            "restore", "clone", "strip", "done"}]
    BY <1>1, <1>2 DEF IInv, TypeOK, Goes, Steps
  <2>2. job' \in [Callers -> [st : {"none", "pending", "exited"}, zero : BOOLEAN, out : Urls]]
    <3>1. job'[c] \in [st : {"none", "pending", "exited"}, zero : BOOLEAN, out : Urls]
      <4>1. NoJob \in [st : {"none", "pending", "exited"}, zero : BOOLEAN, out : Urls]
        BY DEF NoJob, Urls
      <4>2. Pending \in [st : {"none", "pending", "exited"}, zero : BOOLEAN, out : Urls]
        BY DEF Pending, Urls
      <4> QED
        BY <1>2, <4>1, <4>2
    <3> QED
      BY <1>1, <3>1 DEF IInv, TypeOK, Goes
  <2>3. original' \in [Callers -> Urls]
    <3>1. original'[c] \in Urls
      BY <1>1, <1>4 DEF IInv, TypeOK, Urls
    <3> QED
      BY <1>1, <3>1 DEF IInv, TypeOK, Goes
  <2>4. ret' \in [Callers -> {"none", "ok", "failed", "err", "cancelled"}]
    BY <1>1, <1>2 DEF IInv, TypeOK, Goes
  <2>5. \A d \in Callers : /\ job'[d].st = "none" => job'[d] = NoJob
                           /\ job'[d].st = "none" <=> pc'[d] \in {"idle", "done"}
    <3>1. ASSUME NEW d \in Callers \ {c}
          PROVE  /\ job'[d].st = "none" => job'[d] = NoJob
                 /\ job'[d].st = "none" <=> pc'[d] \in {"idle", "done"}
      BY <1>3 DEF IInv, TypeOK
    <3>2. /\ job'[c].st = "none" => job'[c] = NoJob
          /\ job'[c].st = "none" <=> pc'[c] \in {"idle", "done"}
      <4>1. NoJob.st = "none" /\ Pending.st = "pending"
        BY DEF NoJob, Pending
      <4> QED
        BY <1>2, <4>1 DEF Steps
    <3> QED
      BY <3>1, <3>2
  <2>6. orphans' \subseteq Commands
    <3>1. Command(c) \in Commands
      BY <1>1 DEF Command, Commands, Urls, IInv, TypeOK
    <3> QED
      BY <3>1 DEF IInv, TypeOK
  <2> QED
    BY <2>1, <2>2, <2>3, <2>4, <2>5, <2>6 DEF IInv, TypeOK, Goes
<1>6. ASSUME NEW d \in Callers \ {c} PROVE Undisturbed(d)'
  <2>1. ASSUME Nowhere(d) PROVE Nowhere(d)'
    <3>1. original'[c] # d /\ job'[c].out # d
      BY <1>1, <1>2, <1>4, <2>1, PlainIsNobody DEF Nowhere, NoJob, Pending
    <3>2. Command(c).url # d
      BY <1>1, <2>1, WritesItsOwn
    <3> QED
      BY <1>3, <2>1, <3>1, <3>2 DEF Nowhere
  <2> QED
    BY <1>1, <1>3, <2>1, OthersKeep
<1>7. Undisturbed(c)'
  <2>1. CASE c \in excused'
    BY <1>2, <2>1 DEF Undisturbed, Steps
  <2>2. CASE c \notin excused'
    <3>1. /\ UnderWay = {c} /\ orphans = {} /\ \A d \in Callers : original[d] # c
          /\ pc[c] \in {"upstream", "resolve", "get"} => Nowhere(c)
          /\ pc[c] = "set" /\ job[c].st = "exited" /\ job[c].zero => remote = c
          /\ pc[c] \in {"restore", "strip"} /\ job[c].st = "exited" /\ job[c].zero
               => remote # c
      BY <1>1, <2>2 DEF IInv, Undisturbed
    <3>2. \A d \in Callers \ {c} : job'[d].out = Absent
      BY <1>1, <1>3, <3>1, HasJob
    <3>3. \A d \in Callers : original'[d] # c /\ job'[d].out # c
      <4>1. original'[c] # c
        <5>1. pc[c] = "get" => job[c].out # c
          BY <1>1, <3>1 DEF Nowhere
        <5> QED
          BY <1>1, <3>1, <5>1, PlainIsNobody DEF Goes
      <4>2. job'[c].out # c
        BY <1>1, <1>2, PlainIsNobody DEF NoJob, Pending
      <4> QED
        BY <1>1, <1>3, <3>1, <3>2, <4>1, <4>2, PlainIsNobody
    <3>4. CASE pc'[c] = "done"
      <4>1. c \notin UnderWay'
        BY <3>4 DEF UnderWay
      <4>2. ASSUME ret'[c] = "ok" PROVE Nowhere(c)'
        <5>1. r = "zero" /\ pc[c] \in {"restore", "strip"}
          BY <3>4, <4>2 DEF Goes
        <5>2. remote' # c
          BY <2>2, <3>1, <5>1
        <5>3. \A cmd \in orphans' : cmd.url # c
          <6>1. Command(c).url # c
            BY <1>1, <3>1, <5>1, PlainIsNobody DEF Command
          <6> QED
            BY <3>1, <6>1
        <5> QED
          BY <3>3, <5>2, <5>3 DEF Nowhere
      <4> QED
        BY <1>2, <3>4, <4>1, <4>2 DEF Undisturbed
    <3>5. CASE pc'[c] # "done"
      <4>1. /\ job'[c] = Pending /\ ret'[c] = "none" /\ orphans' = {}
            /\ UnderWay' = {c}
        <5>1. UnderWay' = {c}
          BY <1>1, <1>2, <1>3, <3>1, <3>5 DEF UnderWay, Steps
        <5> QED
          BY <1>2, <2>2, <3>1, <3>5, <5>1
      <4>2. pc'[c] \in {"upstream", "resolve", "get"} => Nowhere(c)'
        <5>1. ASSUME pc'[c] \in {"upstream", "resolve", "get"} PROVE remote' # c
          <6>1. pc[c] \in {"upstream", "resolve"}
            BY <3>5, <5>1 DEF Goes
          <6> QED
            BY <3>1, <6>1 DEF Nowhere
        <5> QED
          BY <3>3, <4>1, <5>1 DEF Nowhere
      <4>3. pc'[c] = "op" => remote' = c
        <5>1. pc'[c] = "op" => pc[c] = "set" /\ r = "zero"
          BY <3>5 DEF Goes
        <5> QED
          BY <2>2, <3>1, <5>1
      <4>4. job'[c].st # "exited" /\ pc'[c] # "idle"
        BY <1>2, <4>1 DEF Pending, Steps
      <4>5. pc'[c] # "idle" /\ ~ (ret'[c] = "ok" /\ c \notin excused')
        BY <4>1, <4>4
      <4>6. \A d \in Callers : original'[d] # c
        BY <3>3
      <4> QED
        BY <3>5, <4>1, <4>2, <4>3, <4>4, <4>5, <4>6 DEF Undisturbed
    <3> QED
      BY <3>4, <3>5
  <2> QED
    BY <2>1, <2>2
<1>8. \A d \in Callers : Undisturbed(d)'
  BY <1>6, <1>7
<1>9. CredentialsComeOff'
  BY <1>8, TheyComeOff
<1> QED
  BY <1>5, <1>8, <1>9 DEF IInv

\* A process that is left behind is the command's, and writes.
LEMMA LeavesBehind ==
  ASSUME NEW c \in Callers, LeaveBehind(c)
  PROVE  /\ orphans' \in {orphans, orphans \cup {Command(c)}}
         /\ pc[c] = "op" => orphans' = orphans
  BY DEF LeaveBehind, Command

\* A command's end reaches its caller.
LEMMA AnswerKeeps ==
  ASSUME IInv, NEW c \in Callers, Answer(c)
  PROVE  IInv'
<1> DEFINE r == IF job[c].zero THEN "zero" ELSE "nonzero"
<1>1. /\ job[c].st = "exited" /\ Continue(c, r, job[c].out)
      /\ UNCHANGED <<remote, orphans, excused>>
  BY DEF Answer
<1>2. c \in UnderWay /\ r \in Exits /\ job[c].out \in Urls
  BY <1>1, HasJob DEF Exits, IInv, TypeOK
<1>3. Goes(c, r, job[c].out)
  BY <1>1, <1>2, Continues
<1>4. excused \subseteq excused' /\ excused' \subseteq Callers
  BY <1>1 DEF IInv, TypeOK
<1>5. r = "zero" => job[c].zero
  OBVIOUS
<1> HIDE DEF r
<1> QED
  BY <1>1, <1>2, <1>3, <1>4, <1>5, GoesKeeps

\* A connection is lost: the caller has an error, or still the restore to run.
LEMMA LostKeeps ==
  ASSUME IInv, NEW c \in Callers, Lost(c)
  PROVE  IInv'
<1>1. /\ job[c].st # "none" /\ LeaveBehind(c) /\ Continue(c, "lost", Absent)
      /\ UNCHANGED <<remote, excused>>
  BY DEF Lost
<1>2. c \in UnderWay /\ "lost" \in Exits /\ Absent \in Urls
  BY <1>1, HasJob DEF Exits, Urls
<1>3. Goes(c, "lost", Absent)
  BY <1>1, <1>2, Continues
<1>4. pc'[c] # "done" => pc[c] = "op"
  BY <1>3 DEF Goes
<1>5. excused \subseteq excused' /\ excused' \subseteq Callers
  BY <1>1 DEF IInv, TypeOK
<1> QED
  BY <1>1, <1>2, <1>3, <1>4, <1>5, LeavesBehind, GoesKeeps

\* A stream is cut short: the call is excused.
LEMMA ClosedKeeps ==
  ASSUME IInv, NEW c \in Callers, Closed(c)
  PROVE  IInv'
<1>1. PICK out \in {job[c].out, Absent} : Continue(c, "zero", out)
  BY DEF Closed
<1>2. /\ job[c].st # "none" /\ LeaveBehind(c)
      /\ excused' = excused \cup {c} /\ remote' = remote
  BY DEF Closed
<1>3. c \in UnderWay /\ "zero" \in Exits /\ out \in Urls
  BY <1>2, HasJob DEF Exits, Urls, IInv, TypeOK
<1>4. Goes(c, "zero", out)
  BY <1>1, <1>3, Continues
<1>5. excused' \subseteq Callers
  BY <1>2 DEF IInv, TypeOK
<1> QED
  BY <1>2, <1>3, <1>4, <1>5, LeavesBehind, GoesKeeps

\* A call is dropped: it has said nothing.
LEMMA CancelKeeps ==
  ASSUME IInv, NEW c \in Callers, Cancel(c)
  PROVE  IInv'
<1>1. /\ job[c].st # "none" /\ LeaveBehind(c) /\ Return(c, "cancelled")
      /\ UNCHANGED <<remote, excused>>
  BY DEF Cancel
<1>2. c \in UnderWay /\ "lost" \in Exits
  BY <1>1, HasJob DEF Exits
<1>3. Goes(c, "lost", Absent)
  <2>1. pc'[c] = "done" /\ job'[c] = NoJob /\ ret'[c] = "cancelled"
    BY <1>1 DEF Return, IInv, TypeOK
  <2> QED
    BY <1>1, <2>1 DEF Goes, Return, IInv, TypeOK
<1>4. pc'[c] = "done"
  BY <1>1 DEF Return, IInv, TypeOK
<1>5. excused \subseteq excused' /\ excused' \subseteq Callers
  BY <1>1 DEF IInv, TypeOK
<1> QED
  BY <1>1, <1>2, <1>3, <1>4, <1>5, LeavesBehind, GoesKeeps

-----------------------------------------------------------------------------
(* The theorems.                                                           *)

\* Every step keeps the invariant.
LEMMA StepsKeep == IInv /\ [Next]_vars => IInv'
<1> SUFFICES ASSUME IInv, [Next]_vars PROVE IInv'
  OBVIOUS
<1>1. CASE ExecuteOrphan
  BY <1>1, ExecuteOrphanKeeps
<1>2. ASSUME NEW c \in Callers,
             Execute(c) \/ Start(c) \/ Answer(c) \/ Lost(c) \/ Closed(c) \/ Cancel(c)
      PROVE  IInv'
  BY <1>2, ExecuteKeeps, StartKeeps, AnswerKeeps, LostKeeps, ClosedKeeps, CancelKeeps
<1>3. CASE UNCHANGED vars
  BY <1>3 DEF vars, IInv, TypeOK, CredentialsComeOff, Quiet, UnderWay, Undisturbed, Nowhere
<1> QED
  BY <1>1, <1>2, <1>3 DEF Next

\* Whatever callers push and clone, fail, drop their calls or lose them: a call that
\* had the repository to itself leaves its credentials only where it said it failed.
THEOREM Invariance == Spec => []IInv
<1>1. Spec => Init /\ [][Next]_vars
  BY DEF Spec
<1> QED
  BY <1>1, Begins, StepsKeep, PTL

\* The operation of such a call runs with its own caller's credentials in the URL.
THEOREM OwnCredentials == Spec => OpUsesItsCredentials
<1>1. ASSUME IInv, NEW c \in Callers \ excused, pc[c] = "op" PROVE remote = c
  BY <1>1, HasJob DEF IInv, Undisturbed, Steps
<1>2. IInv => [\A c \in Callers \ excused :
                 pc[c] = "op" /\ job[c] = Pending /\ job'[c].st = "exited" => remote = c]_vars
  BY <1>1
<1>3. Spec => []IInv
  BY Invariance
<1> QED
  BY <1>2, <1>3, PTL DEF OpUsesItsCredentials

-----------------------------------------------------------------------------
(* GitCalls: what commands leave is a repository.                          *)

\* The head is on a branch, at a commit, or there is no repository.
LEMMA HeadForms ==
  ASSUME NEW s \in Repositories
  PROVE  \/ Attached(s) /\ s.head[2] \in Branches /\ s.head = <<"branch", s.head[2]>>
         \/ s.head[1] = "commit" /\ s.head[2] \in Histories /\ s.head = <<"commit", s.head[2]>>
         \/ s.head[1] = "none" /\ s.head = <<"none">>
<1>1. s.head \in Heads
  BY DEF Repositories
<1> QED BY <1>1 DEF Heads, Attached

LEMMA EmptyHistory == << >> \in Histories /\ NoFiles \in Trees
BY DEF Histories, NoFiles, Trees

\* The head's history is one.
LEMMA HistoryType ==
  ASSUME NEW s \in Repositories
  PROVE  HistoryOf(s) \in Histories
<1>1. CASE Attached(s)
  <2>1. s.head[2] \in Branches /\ s.head[1] = "branch"
    BY <1>1, HeadForms DEF Attached
  <2> QED BY <2>1 DEF HistoryOf, Repositories
<1>2. CASE s.head[1] = "commit" /\ s.head[2] \in Histories
  BY <1>2 DEF HistoryOf
<1>3. CASE s.head[1] = "none"
  BY <1>3, EmptyHistory DEF HistoryOf
<1> QED BY <1>1, <1>2, <1>3, HeadForms

LEMMA TreeType ==
  ASSUME NEW h \in Histories
  PROVE  Tree(h) \in Trees
<1>1. CASE h = << >>
  BY <1>1, EmptyHistory DEF Tree
<1>2. CASE h # << >>
  <2>1. Len(h) \in 1..Len(h)
    BY <1>2 DEF Histories
  <2>2. h[Len(h)] \in [by : {"us", "them"}, tree : Trees]
    BY <2>1, ElementOfSeq DEF Histories
  <2> QED BY <1>2, <2>2 DEF Tree
<1> QED BY <1>1, <1>2

LEMMA HeadTreeType ==
  ASSUME NEW s \in Repositories
  PROVE  HeadTree(s) \in Trees
BY HistoryType, TreeType DEF HeadTree

\* Each part of a repository can be replaced by one of its type.
LEMMA Moved ==
  ASSUME NEW s \in Repositories, NEW h \in Histories
  PROVE  /\ MoveHead(s, h) \in Repositories
         /\ s.head[1] # "none" => HistoryOf(MoveHead(s, h)) = h
<1>1. CASE Attached(s)
  <2>1. s.head[2] \in Branches /\ s.head[1] = "branch" /\ s.tips \in [Branches -> Histories]
    BY <1>1, HeadForms DEF Attached, Repositories
  <2>2. MoveHead(s, h) = [s EXCEPT !.tips = [s.tips EXCEPT ![s.head[2]] = h]]
    BY <1>1 DEF MoveHead
  <2>3. [s.tips EXCEPT ![s.head[2]] = h] \in [Branches -> Histories]
    BY <2>1
  <2>4. MoveHead(s, h) \in Repositories
    BY <2>2, <2>3 DEF Repositories
  <2>5. MoveHead(s, h).head = s.head /\ MoveHead(s, h).tips[s.head[2]] = h
    BY <2>1, <2>2 DEF Repositories
  <2> QED BY <2>1, <2>4, <2>5 DEF HistoryOf
<1>2. CASE ~ Attached(s)
  <2>1. MoveHead(s, h) = [s EXCEPT !.head = <<"commit", h>>]
    BY <1>2 DEF MoveHead
  <2>2. <<"commit", h>> \in Heads
    BY DEF Heads
  <2>3. MoveHead(s, h) \in Repositories /\ MoveHead(s, h).head = <<"commit", h>>
    BY <2>1, <2>2 DEF Repositories
  <2> QED BY <2>3 DEF HistoryOf
<1> QED BY <1>1, <1>2

LEMMA Appended ==
  ASSUME NEW h \in Histories, NEW t \in Trees, NEW w \in {"us", "them"}
  PROVE  Append(h, [by |-> w, tree |-> t]) \in Histories
<1>1. [by |-> w, tree |-> t] \in [by : {"us", "them"}, tree : Trees]
  OBVIOUS
<1> QED BY <1>1, AppendProperties DEF Histories

LEMMA Shortened ==
  ASSUME NEW h \in Histories, Len(h) > 1
  PROVE  SubSeq(h, 1, Len(h) - 1) \in Histories
<1>1. h \in Seq([by : {"us", "them"}, tree : Trees])
  BY DEF Histories
<1>2. ASSUME NEW i \in 1..Len(h) - 1 PROVE h[i] \in [by : {"us", "them"}, tree : Trees]
  <2>1. i \in 1..Len(h)
    BY <1>1
  <2> QED BY <1>1, <2>1, ElementOfSeq
<1> QED BY <1>1, <1>2, SubSeqProperties DEF Histories

LEMMA CarryType ==
  ASSUME NEW s \in Repositories, NEW to \in Trees, NEW now \in Trees
  PROVE  Carry(s, to, now) \in Trees
BY DEF Carry, Trees

LEMMA Switched ==
  ASSUME NEW s \in Repositories, NEW head \in Heads, NEW h \in Histories
  PROVE  Switch(s, head, h) \in Repositories /\ Switch(s, head, h).head = head
<1>1. s.index \in Trees /\ s.work \in Trees
  BY DEF Repositories
<1>2. Carry(s, Tree(h), s.index) \in Trees /\ Carry(s, Tree(h), s.work) \in Trees
  BY <1>1, CarryType, TreeType
<1> QED BY <1>2 DEF Switch, Repositories

-----------------------------------------------------------------------------
(* Outcomes.                                                               *)

\* What the outcomes of a command are: what it leaves and what it answers.
LEMMA Outcomes ==
  ASSUME NEW s, NEW out, NEW says, NEW o
  PROVE  /\ o \in Did(s, out) <=> o = [store |-> s, answer |-> [exit |-> 0, out |-> out, says |-> "nothing"]]
         /\ o \in Refuse(s, says) <=> o = [store |-> s, answer |-> [exit |-> 1, out |-> Nothing, says |-> says]]
BY DEF Did, Refuse

LEMMA WhenOutcome ==
  ASSUME NEW guard, NEW s, NEW done, NEW o \in When(guard, s, done)
  PROVE  \/ guard /\ o = [store |-> done, answer |-> [exit |-> 0, out |-> Nothing, says |-> "nothing"]]
         \/ ~guard /\ o = [store |-> s, answer |-> [exit |-> 1, out |-> Nothing, says |-> "other"]]
BY DEF Did, Refuse, When

LEMMA AddStays ==
  ASSUME NEW s \in Repositories, NEW fs \in SUBSET Files, NEW o \in RunAdd(s, fs)
  PROVE  o.store \in Repositories
<1> DEFINE gs == IF fs = {} THEN Files ELSE fs
           done == [s EXCEPT !.index = [f \in Files |-> IF f \in gs THEN s.work[f] ELSE s.index[f]],
                             !.conf = Settled(s, gs)]
<1>1. done \in Repositories
  <2>1. [f \in Files |-> IF f \in gs THEN s.work[f] ELSE s.index[f]] \in Trees
    BY DEF Repositories, Trees
  <2>2. Settled(s, gs) \in SUBSET (Files \X {"A", "U"})
    BY DEF Repositories, Settled
  <2> QED BY <2>1, <2>2 DEF Repositories
<1>2. \E guard : o \in When(guard, s, done)
  BY DEF RunAdd
<1> QED BY <1>1, <1>2, WhenOutcome

LEMMA CommitStays ==
  ASSUME NEW s \in Repositories, NEW empty, NEW author, NEW o \in RunCommit(s, empty, author)
  PROVE  o.store \in Repositories
<1> DEFINE h == Append(HistoryOf(s), [by |-> "us", tree |-> s.index])
<1>1. h \in Histories
  BY Appended, HistoryType DEF Repositories
<1>2. MoveHead(s, h) \in Repositories
  BY <1>1, Moved
<1>3. \E guard : o \in When(guard, s, MoveHead(s, h))
  BY DEF RunCommit
<1> QED BY <1>2, <1>3, WhenOutcome

LEMMA CreateStays ==
  ASSUME NEW s \in Repositories, NEW b \in Branches, NEW o \in RunCreate(s, b)
  PROVE  o.store \in Repositories
<1> DEFINE done == [s EXCEPT !.head = <<"branch", b>>, !.tips = [s.tips EXCEPT ![b] = HistoryOf(s)]]
<1>1. <<"branch", b>> \in Heads /\ [s.tips EXCEPT ![b] = HistoryOf(s)] \in [Branches -> Histories]
  BY HistoryType DEF Repositories, Heads
<1>2. done \in Repositories
  BY <1>1 DEF Repositories
<1>3. \E guard : o \in When(guard, s, done)
  BY DEF RunCreate
<1> QED BY <1>2, <1>3, WhenOutcome

LEMMA DetachStays ==
  ASSUME NEW s \in Repositories, NEW o \in RunDetach(s)
  PROVE  o.store \in Repositories
<1> DEFINE done == [s EXCEPT !.head = <<"commit", HistoryOf(s)>>]
<1>1. <<"commit", HistoryOf(s)>> \in Heads
  BY HistoryType DEF Heads
<1>2. done \in Repositories
  BY <1>1 DEF Repositories
<1>3. \E guard : o \in When(guard, s, done)
  BY DEF RunDetach
<1> QED BY <1>2, <1>3, WhenOutcome

LEMMA CheckoutStays ==
  ASSUME NEW s \in Repositories, NEW b \in Branches, NEW o \in RunCheckout(s, b)
  PROVE  o.store \in Repositories
<1> DEFINE h == IF s.tips[b] # << >> THEN s.tips[b] ELSE s.fetched[b]
           t == Switch(s, <<"branch", b>>, h)
           done == [t EXCEPT !.tips = [t.tips EXCEPT ![b] = h],
                             !.up = IF s.tips[b] = << >> THEN t.up \union {b} ELSE t.up]
<1>1. h \in Histories /\ <<"branch", b>> \in Heads
  BY DEF Repositories, Heads
<1>2. t \in Repositories
  BY <1>1, Switched
<1>3. [t.tips EXCEPT ![b] = h] \in [Branches -> Histories] /\ t.up \in SUBSET Branches
  BY <1>1, <1>2 DEF Repositories
<1>4. done \in Repositories
  <2> HIDE DEF h, t
  <2>1. (IF s.tips[b] = << >> THEN t.up \union {b} ELSE t.up) \in SUBSET Branches
    BY <1>3
  <2> QED BY <1>2, <1>3, <2>1 DEF Repositories
<1>5. \E guard : o \in When(guard, s, done)
  BY DEF RunCheckout
<1> QED BY <1>4, <1>5, WhenOutcome

LEMMA DeleteStays ==
  ASSUME NEW s \in Repositories, NEW b \in Branches, NEW force, NEW o \in RunDelete(s, b, force)
  PROVE  o.store \in Repositories
<1> DEFINE done == [s EXCEPT !.tips = [s.tips EXCEPT ![b] = << >>], !.up = s.up \ {b}]
<1>1. [s.tips EXCEPT ![b] = << >>] \in [Branches -> Histories] /\ s.up \ {b} \in SUBSET Branches
  BY EmptyHistory DEF Repositories
<1>2. done \in Repositories
  BY <1>1 DEF Repositories
<1>3. \E guard : o \in When(guard, s, done)
  BY DEF RunDelete
<1> QED BY <1>2, <1>3, WhenOutcome

LEMMA ResetStays ==
  ASSUME NEW s \in Repositories, NEW mode \in {"soft", "mixed", "hard"}, NEW back \in BOOLEAN,
         NEW o \in RunReset(s, mode, back)
  PROVE  o.store \in Repositories
<1> DEFINE h  == IF back THEN SubSeq(HistoryOf(s), 1, Len(HistoryOf(s)) - 1) ELSE HistoryOf(s)
           s2 == MoveHead(s, h)
           tracked == [f \in Files |-> IF {Tree(h)[f], s.index[f]} = {"absent"} THEN s2.work[f]
                                       ELSE Tree(h)[f]]
           done == CASE mode = "soft"  -> s2
                     [] mode = "mixed" -> [s2 EXCEPT !.index = Tree(h), !.conf = {}]
                     [] mode = "hard"  -> [s2 EXCEPT !.index = Tree(h), !.conf = {}, !.work = tracked]
           guard == (back => Len(HistoryOf(s)) > 1) /\ (mode = "soft" => s.conf = {})
<1>1. o \in When(guard, s, done)
  BY DEF RunReset
<1>2. ASSUME guard PROVE done \in Repositories
  <2>1. h \in Histories
    BY <1>2, Shortened, HistoryType
  <2>2. s2 \in Repositories /\ Tree(h) \in Trees
    BY <2>1, Moved, TreeType
  <2> HIDE DEF h, s2
  <2>3. tracked \in Trees
    BY <2>2 DEF Repositories, Trees
  <2> HIDE DEF tracked
  <2> QED BY <2>2, <2>3 DEF Repositories
<1> HIDE DEF guard, done
<1> QED BY <1>1, <1>2, WhenOutcome

LEMMA UnstageStays ==
  ASSUME NEW s \in Repositories, NEW fs \in SUBSET Files, NEW o \in RunUnstage(s, fs)
  PROVE  o.store \in Repositories
<1> DEFINE done == [s EXCEPT !.index = [f \in Files |-> IF f \in fs THEN HeadTree(s)[f] ELSE s.index[f]],
                             !.conf = Settled(s, fs)]
<1>1. done \in Repositories
  <2>1. [f \in Files |-> IF f \in fs THEN HeadTree(s)[f] ELSE s.index[f]] \in Trees
    BY HeadTreeType DEF Repositories, Trees
  <2>2. Settled(s, fs) \in SUBSET (Files \X {"A", "U"})
    BY DEF Repositories, Settled
  <2> QED BY <2>1, <2>2 DEF Repositories
<1>2. \E guard : o \in When(guard, s, done)
  BY DEF RunUnstage
<1> QED BY <1>1, <1>2, WhenOutcome

LEMMA RestoreStays ==
  ASSUME NEW s \in Repositories, NEW flags, NEW f \in Files, NEW o \in RunRestore(s, flags, f)
  PROVE  o.store \in Repositories
<1> DEFINE index == IF "--staged" \in flags THEN HeadTree(s)[f] ELSE s.index[f]
           files == flags # {"--staged"}
           done == [s EXCEPT !.index = [s.index EXCEPT ![f] = index],
                             !.work = [s.work EXCEPT ![f] = IF files THEN index ELSE s.work[f]],
                             !.conf = IF "--staged" \in flags THEN Settled(s, {f}) ELSE s.conf]
<1>1. index \in Contents \union {"absent"} /\ s.work[f] \in Contents \union {"absent"}
  BY HeadTreeType DEF Repositories, Trees
<1>2. done \in Repositories
  <2> HIDE DEF index, files
  <2>1. /\ [s.index EXCEPT ![f] = index] \in Trees
        /\ [s.work EXCEPT ![f] = IF files THEN index ELSE s.work[f]] \in Trees
    BY <1>1 DEF Repositories, Trees
  <2>2. (IF "--staged" \in flags THEN Settled(s, {f}) ELSE s.conf) \in SUBSET (Files \X {"A", "U"})
    BY DEF Repositories, Settled
  <2> QED BY <2>1, <2>2 DEF Repositories
<1>3. \E guard : o \in When(guard, s, done)
  BY DEF RunRestore
<1> QED BY <1>2, <1>3, WhenOutcome

LEMMA FetchedStays ==
  ASSUME NEW s \in Repositories
  PROVE  /\ Fetched(s) \in Repositories /\ Fetched(s).head = s.head /\ Fetched(s).tips = s.tips
         /\ Fetched(s).theirs = s.theirs /\ Fetched(s).fetched = s.theirs /\ Fetched(s).url = s.url
         /\ [Fetched(s) EXCEPT !.fetched = s.fetched] = s
BY DEF Fetched, Repositories

LEMMA UrlStays ==
  ASSUME NEW s \in Repositories, NEW url \in Remotes
  PROVE  [s EXCEPT !.url = url] \in Repositories /\ [s EXCEPT !.url = url].url = url
BY DEF Repositories

LEMMA ReachOutcome ==
  ASSUME NEW s, NEW o \in Reach(s)
  PROVE  o.store = s /\ o.answer.exit = 1 /\ o.answer.says \in {"auth", "other"}
BY Outcomes DEF Reach

LEMMA RemoteAddStays ==
  ASSUME NEW s \in Repositories, NEW url \in Remotes, NEW fetch, NEW o \in RunRemoteAdd(s, url, fetch)
  PROVE  /\ o.store \in Repositories /\ o.answer.exit \in {0, 1}
         /\ o.answer.exit = 0 => /\ s.url = "none" /\ o.store.url = url
                                 /\ fetch => o.store.fetched = o.store.theirs
<1> DEFINE s2 == [s EXCEPT !.url = url]
<1>1. s2 \in Repositories /\ s2.url = url
  BY UrlStays
<1>2. /\ Fetched(s2) \in Repositories /\ Fetched(s2).url = url
      /\ Fetched(s2).fetched = Fetched(s2).theirs
  BY <1>1, FetchedStays
<1>3. CASE s.url # "none"
  BY <1>3, Outcomes DEF RunRemoteAdd
<1>4. CASE s.url = "none" /\ o \in Reach(s2)
  BY <1>1, <1>4, ReachOutcome
<1>5. CASE s.url = "none" /\ fetch /\ o \in Did(Fetched(s2), Nothing)
  <2> HIDE DEF s2
  <2> QED BY <1>2, <1>5, Outcomes
<1>6. CASE s.url = "none" /\ ~fetch /\ o \in Did(s2, Nothing)
  <2> HIDE DEF s2
  <2> QED BY <1>1, <1>6, Outcomes
<1> QED BY <1>3, <1>4, <1>5, <1>6 DEF RunRemoteAdd

\* A history is within itself.
LEMMA CommonWithItself ==
  ASSUME NEW h \in Histories
  PROVE  Common(h, h) = Len(h) /\ Within(h, h)
<1>1. Len(h) \in Nat
  BY DEF Histories
<1>2. {i \in 1..Len(h) : i <= Len(h) /\ SubSeq(h, 1, i) = SubSeq(h, 1, i)} = 1..Len(h)
  BY <1>1
<1>3. Cardinality(1..Len(h)) = Len(h)
  <2> DEFINE n == Len(h)
  <2>1. n \in Int /\ 1 \in Int /\ 0 <= n
    BY <1>1
  <2> HIDE DEF n
  <2>2. Cardinality(1..n) = IF 1 > n THEN 0 ELSE n - 1 + 1
    BY <2>1, FS_Interval
  <2>3. Cardinality(1..n) = n
    BY <2>1, <2>2
  <2> QED BY <2>3 DEF n
<1> QED BY <1>2, <1>3 DEF Common, Within

\* A push leaves the repository as it is, or has moved the remote's branch to ours.
LEMMA PushDoes ==
  ASSUME NEW s \in Repositories, NEW b \in Branches, NEW up \in BOOLEAN, NEW o \in RunPush(s, b, up)
  PROVE  /\ o.store \in Repositories /\ o.answer.exit \in {0, 1} /\ o.answer.says # "upstream"
         /\ o.answer.exit # 0 => o.store = s
         /\ o.answer.exit = 0 => Within(o.store.theirs[b], o.store.tips[b])
<1> DEFINE pushed == [s EXCEPT !.theirs = [s.theirs EXCEPT ![b] = s.tips[b]],
                               !.fetched = [s.fetched EXCEPT ![b] = s.tips[b]],
                               !.up = IF up THEN s.up \union {b} ELSE s.up]
           guard == Within(s.theirs[b], s.tips[b])
<1>1. pushed \in Repositories /\ pushed.theirs[b] = s.tips[b] /\ pushed.tips[b] = s.tips[b]
  <2>1. /\ [s.theirs EXCEPT ![b] = s.tips[b]] \in [Branches -> Histories]
        /\ [s.fetched EXCEPT ![b] = s.tips[b]] \in [Branches -> Histories]
        /\ [s.theirs EXCEPT ![b] = s.tips[b]][b] = s.tips[b]
        /\ (IF up THEN s.up \union {b} ELSE s.up) \in SUBSET Branches
    BY DEF Repositories
  <2> QED BY <2>1 DEF Repositories
<1>2. Within(pushed.theirs[b], pushed.tips[b])
  BY <1>1, CommonWithItself DEF Repositories
<1>3. \/ o \in Refuse(s, "other") \/ o \in Reach(s) \/ o \in When(guard, s, pushed)
      \/ o = [store |-> pushed, answer |-> [exit |-> 0, out |-> Nothing, says |-> "auth"]]
  BY DEF RunPush
<1> HIDE DEF pushed, guard
<1>4. CASE o \in Refuse(s, "other") \/ o \in Reach(s)
  BY <1>4, Outcomes, ReachOutcome
<1>5. CASE o \in When(guard, s, pushed)
  BY <1>1, <1>2, <1>5, WhenOutcome
<1>6. CASE o = [store |-> pushed, answer |-> [exit |-> 0, out |-> Nothing, says |-> "auth"]]
  BY <1>1, <1>2, <1>6
<1> QED BY <1>3, <1>4, <1>5, <1>6

\* A pull that fails has fetched at most; one that succeeds has what the remote had.
LEMMA PullDoes ==
  ASSUME NEW s \in Repositories, NEW b \in Branches, NEW o \in RunPull(s, b)
  PROVE  /\ o.store \in Repositories /\ o.answer.exit \in {0, 1} /\ o.answer.says # "upstream"
         /\ o.answer.exit # 0 => [o.store EXCEPT !.fetched = s.fetched] = s
         /\ o.answer.exit = 0 => Within(o.store.theirs[b], HistoryOf(o.store))
<1> DEFINE s2 == Fetched(s)
           h  == s.theirs[b]
           t  == Switch(s2, s2.head, h)
           done == IF Within(h, HistoryOf(s)) THEN s2 ELSE MoveHead(t, h)
           guard == /\ h # << >> /\ s.conf = {} /\ s.head[1] \in {"branch", "commit"}
                    /\ \/ Within(h, HistoryOf(s))
                       \/ Within(HistoryOf(s), h) /\ Carries(s, Tree(h))
<1>1. /\ h \in Histories /\ s2 \in Repositories /\ s2.theirs = s.theirs
      /\ HistoryOf(s2) = HistoryOf(s) /\ s2.head = s.head /\ s2.head \in Heads
      /\ [s2 EXCEPT !.fetched = s.fetched] = s
  <2>1. s2 \in Repositories /\ s2.head = s.head /\ s2.tips = s.tips /\ s2.theirs = s.theirs
        /\ [s2 EXCEPT !.fetched = s.fetched] = s
    BY FetchedStays
  <2>2. HistoryOf(s2) = HistoryOf(s)
    BY <2>1 DEF HistoryOf
  <2>3. h \in Histories /\ s2.head \in Heads
    BY <2>1 DEF Repositories
  <2> QED BY <2>1, <2>2, <2>3
<1>2. t \in Repositories /\ t.head = s.head /\ t.theirs = s.theirs
  <2>1. t \in Repositories /\ t.head = s2.head
    BY <1>1, Switched
  <2>2. t.theirs = s2.theirs
    BY <1>1 DEF Switch, Repositories
  <2> QED BY <1>1, <2>1, <2>2
<1>3. s = [s EXCEPT !.fetched = s.fetched]
  BY DEF Repositories
<1>4. ASSUME guard PROVE done \in Repositories /\ Within(done.theirs[b], HistoryOf(done))
  <2>1. CASE Within(h, HistoryOf(s))
    BY <1>1, <2>1
  <2>2. CASE ~Within(h, HistoryOf(s))
    <3>1. MoveHead(t, h) \in Repositories /\ HistoryOf(MoveHead(t, h)) = h
      BY <1>1, <1>2, <1>4, Moved
    <3>2. MoveHead(t, h).theirs = t.theirs
      BY <1>2 DEF MoveHead, Repositories
    <3> QED BY <1>1, <1>2, <2>2, <3>1, <3>2, CommonWithItself
  <2> QED BY <2>1, <2>2
<1>5. o \in Refuse(s, "other") \/ o \in Reach(s) \/ o \in Reach(s2) \/ o \in When(guard, s2, done)
  BY DEF RunPull
<1> HIDE DEF s2, guard, done
<1>8. CASE o \in Reach(s2)
  BY <1>1, <1>8, ReachOutcome
<1>6. CASE o \in Refuse(s, "other") \/ o \in Reach(s)
  BY <1>3, <1>6, Outcomes, ReachOutcome
<1>7. CASE o \in When(guard, s2, done)
  BY <1>1, <1>4, <1>7, WhenOutcome
<1> QED BY <1>5, <1>6, <1>7, <1>8

\* The commands on the configuration and the credential store.
LEMMA ConfigStays ==
  ASSUME NEW s \in Repositories, NEW cmd, IsCommand(cmd), cmd.op \in {"set_config", "get_config", "approve"},
         NEW o \in RunConfig(s, cmd)
  PROVE  o.store \in Repositories
<1> DEFINE a == cmd.arg
<1>1. CASE cmd.op = "set_config"
  <2> DEFINE scope == [s.config[a.scope] EXCEPT ![a.key] = a.value]
             config == [s.config EXCEPT ![a.scope] = scope]
  <2>1. a.scope \in {"local", "global"} /\ a.value \in Values /\ a.key \in Keys
    BY <1>1 DEF Scoped, RefusesCall, IsCommand, IsOf, Args
  <2>2. s.config \in [local : Scope, global : Scope]
    BY DEF Repositories
  <2>3. scope \in Scope
    BY <2>1, <2>2 DEF Scope
  <2>4. config \in [local : Scope, global : Scope]
    <3> HIDE DEF scope
    <3> QED BY <2>1, <2>2, <2>3
  <2>5. o \in Did([s EXCEPT !.config = config], Nothing)
    BY <1>1 DEF RunConfig
  <2> HIDE DEF config
  <2>6. [s EXCEPT !.config = config] \in Repositories
    BY <2>4 DEF Repositories
  <2> QED BY <2>5, <2>6, Outcomes
<1>2. CASE cmd.op = "get_config"
  <2>1. \E out : o \in Did(s, out)
    BY <1>2 DEF RunConfig
  <2> QED BY <2>1, Outcomes
<1>3. CASE cmd.op = "approve"
  <2>1. a \in Values
    BY <1>3 DEF IsCommand, IsOf, Args
  <2>2. [s EXCEPT !.stored = a] \in Repositories
    BY <2>1 DEF Repositories
  <2>3. o \in Did(IF s.config.global["credential.helper"] = "store"
                   THEN [s EXCEPT !.stored = a] ELSE s, Nothing)
    BY <1>3 DEF RunConfig
  <2> QED BY <2>2, <2>3, Outcomes
<1> QED BY <1>1, <1>2, <1>3

\* What remote_add's script of up to three commands comes to, joined by || and &&.
LEMMA RemoteAddDoes ==
  ASSUME NEW s \in Repositories, NEW cmd, IsCommand(cmd), cmd.op = "remote_add",
         NEW o \in RunInside(s, cmd)
  PROVE  /\ o.store \in Repositories /\ o.answer.exit \in {0, 1}
         /\ o.answer.exit = 0 => /\ o.store.url = cmd.arg.url
                                 /\ cmd.arg.fetch => o.store.fetched = o.store.theirs
                                 /\ s.url = "none" \/ cmd.arg.overwrite
<1> DEFINE a == cmd.arg
           added == RunRemoteAdd(s, a.url, a.fetch)
           SetUrl(p) == IF p.answer.exit = 0 THEN {p}
                        ELSE When(p.store.url # "none", p.store, [p.store EXCEPT !.url = a.url])
           set == UNION {SetUrl(p) : p \in added}
           Last(p) == IF p.answer.exit # 0 THEN {p}
                      ELSE Did(Fetched(p.store), Nothing) \union Reach(p.store)
<1>1. a.url \in Remotes /\ a.fetch \in BOOLEAN /\ a.overwrite \in BOOLEAN
  BY DEF IsCommand, IsOf, Args, RefusesCall
<1>2. \/ ~a.overwrite /\ o \in added
      \/ a.overwrite /\ ~a.fetch /\ o \in set
      \/ a.overwrite /\ a.fetch /\ \E p \in set : o \in Last(p)
  BY DEF RunInside
<1>3. ASSUME NEW p \in added
      PROVE  /\ p.store \in Repositories /\ p.answer.exit \in {0, 1}
             /\ p.answer.exit = 0 => /\ s.url = "none" /\ p.store.url = a.url
                                     /\ a.fetch => p.store.fetched = p.store.theirs
  BY <1>1, RemoteAddStays
<1>4. ASSUME NEW q \in set
      PROVE  /\ q.store \in Repositories /\ q.answer.exit \in {0, 1}
             /\ q.answer.exit = 0 => q.store.url = a.url
  <2>1. PICK p \in added : q \in SetUrl(p)
    OBVIOUS
  <2>2. CASE p.answer.exit = 0
    BY <1>3, <2>1, <2>2
  <2>3. CASE p.answer.exit # 0
    <3> DEFINE done == [p.store EXCEPT !.url = a.url]
    <3>1. done \in Repositories /\ done.url = a.url
      BY <1>1, <1>3, UrlStays
    <3>2. \E guard : q \in When(guard, p.store, done)
      BY <2>1, <2>3
    <3> HIDE DEF done
    <3> QED BY <1>3, <3>1, <3>2, WhenOutcome
  <2> QED BY <2>2, <2>3
<1> HIDE DEF added, set
<1>5. CASE ~a.overwrite /\ o \in added
  BY <1>3, <1>5
<1>6. CASE a.overwrite /\ ~a.fetch /\ o \in set
  BY <1>4, <1>6
<1>7. CASE a.overwrite /\ a.fetch /\ \E p \in set : o \in Last(p)
  <2>1. PICK p \in set : o \in Last(p)
    BY <1>7
  <2>2. CASE p.answer.exit # 0
    BY <1>4, <2>1, <2>2
  <2>3. CASE p.answer.exit = 0 /\ o \in Did(Fetched(p.store), Nothing)
    <3>1. o.store = Fetched(p.store) /\ o.answer.exit = 0
      BY <2>3, Outcomes
    <3> QED BY <1>4, <1>7, <2>3, <3>1, FetchedStays
  <2>4. CASE p.answer.exit = 0 /\ o \in Reach(p.store)
    BY <1>4, <2>4, ReachOutcome
  <2> QED BY <2>1, <2>2, <2>3, <2>4
<1> QED BY <1>2, <1>5, <1>6, <1>7

\* A branch that is meant is one there is: the one named, or the one the head is on.
LEMMA MeantIsThere ==
  ASSUME NEW s \in Repositories, NEW b \in Branches \union {"none"}
  PROVE  /\ BranchMeant(s, b) # "none" =>
              /\ BranchMeant(s, b) \in Branches
              /\ BranchMeant(s, b) = IF b = "none" THEN s.head[2] ELSE b
         /\ BranchMeant(s, b) = "none" => ~ Tracks(s)
<1>1. Attached(s) => s.head[2] \in Branches
  BY HeadForms DEF Attached
<1>2. "none" \notin Branches
  BY RepositoryAssumption
<1> QED BY <1>1, <1>2 DEF BranchMeant, Tracks

\* The commands of push and pull, by what they were given: what they leave when they fail,
\* and when they succeed.
LEMMA PushesAs ==
  ASSUME NEW s \in Repositories, NEW cmd, IsCommand(cmd), cmd.op = "push",
         NEW o \in PushAs(s, cmd.arg),
         NEW b, b = IF cmd.arg.branch = "none" THEN s.head[2] ELSE cmd.arg.branch
  PROVE  /\ o.store \in Repositories
         /\ o.answer.exit # 0 => [o.store EXCEPT !.fetched = s.fetched] = s
         /\ o.answer.says = "upstream" => ~ Tracks(s)
         /\ o.answer.exit = 0 => Within(o.store.theirs[b], o.store.tips[b])
<1> DEFINE a == cmd.arg
           m == BranchMeant(s, a.branch)
           up == a.set_upstream /\ a.remote
<1>1. s = [s EXCEPT !.fetched = s.fetched]
  BY DEF Repositories
<1>2. a.branch \in Branches \union {"none"} /\ up \in BOOLEAN
  BY DEF IsCommand, IsOf, Args
<1>3. /\ m # "none" => m \in Branches /\ m = b
      /\ m = "none" => ~ Tracks(s)
  BY <1>2, MeantIsThere
<1>4. \/ o \in Refuse(s, "other")
      \/ m = "none" /\ \E says : o \in Refuse(s, says)
      \/ m # "none" /\ o \in RunPush(s, m, up)
  BY DEF PushAs
<1> HIDE DEF m, up
<1>5. CASE o \in Refuse(s, "other")
  BY <1>1, <1>5, Outcomes
<1>6. CASE m = "none" /\ \E says : o \in Refuse(s, says)
  BY <1>1, <1>3, <1>6, Outcomes
<1>7. CASE m # "none" /\ o \in RunPush(s, m, up)
  BY <1>1, <1>2, <1>3, <1>7, PushDoes
<1> QED BY <1>4, <1>5, <1>6, <1>7

LEMMA PullsAs ==
  ASSUME NEW s \in Repositories, NEW cmd, IsCommand(cmd), cmd.op = "pull",
         NEW o \in PullAs(s, cmd.arg),
         NEW b, b = IF cmd.arg.branch = "none" THEN s.head[2] ELSE cmd.arg.branch
  PROVE  /\ o.store \in Repositories
         /\ o.answer.exit # 0 => [o.store EXCEPT !.fetched = s.fetched] = s
         /\ o.answer.says = "upstream" => ~ Tracks(s)
         /\ o.answer.exit = 0 => Within(o.store.theirs[b], HistoryOf(o.store))
<1> DEFINE a == cmd.arg
           m == BranchMeant(s, a.branch)
<1>1. s = [s EXCEPT !.fetched = s.fetched]
  BY DEF Repositories
<1>2. a.branch \in Branches \union {"none"}
  BY DEF IsCommand, IsOf, Args
<1>3. /\ m # "none" => m \in Branches /\ m = b
      /\ m = "none" => ~ Tracks(s)
  BY <1>2, MeantIsThere
<1>4. \/ o \in Refuse(s, "other")
      \/ o \in Reach(s)
      \/ m = "none" /\ \E says : o \in Refuse(Fetched(s), says)
      \/ m # "none" /\ o \in RunPull(s, m)
  BY DEF PullAs
<1> HIDE DEF m
<1>5. CASE o \in Refuse(s, "other") \/ o \in Reach(s)
  BY <1>1, <1>5, Outcomes, ReachOutcome
<1>6. CASE m = "none" /\ \E says : o \in Refuse(Fetched(s), says)
  BY <1>3, <1>6, Outcomes, FetchedStays
<1>7. CASE m # "none" /\ o \in RunPull(s, m)
  BY <1>3, <1>7, PullDoes
<1> QED BY <1>4, <1>5, <1>6, <1>7

\* Every command inside a repository leaves one, and so does every command.
LEMMA InsideStays ==
  ASSUME NEW s \in Repositories, NEW cmd, IsCommand(cmd),
         cmd.op \notin {"init", "set_config", "get_config", "approve"}, NEW o \in RunInside(s, cmd)
  PROVE  o.store \in Repositories
<1> DEFINE a == cmd.arg
<1>1. cmd.op \in Simple \union {"upstream"} /\ a \in Args(cmd.op) /\ ~ RefusesCall(cmd)
  BY DEF IsCommand, IsOf
<1>2. CASE cmd.op = "add"
  BY <1>1, <1>2, AddStays DEF RunInside, Args
<1>3. CASE cmd.op = "commit"
  BY <1>1, <1>3, CommitStays DEF RunInside, Args
<1>4. CASE cmd.op = "create_branch"
  BY <1>1, <1>4, CreateStays DEF RunInside, Args
<1>5. CASE cmd.op = "checkout_branch"
  BY <1>1, <1>5, CheckoutStays, DetachStays DEF RunInside, Args
<1>6. CASE cmd.op = "delete_branch"
  BY <1>1, <1>6, DeleteStays DEF RunInside, Args
<1>7. CASE cmd.op = "reset"
  BY <1>1, <1>7, ResetStays, UnstageStays DEF RunInside, Args
<1>8. CASE cmd.op = "restore"
  <2>1. a.file \in Files
    BY <1>1, <1>8 DEF Args, RefusesCall, InvalidRestore
  <2>2. o \in RunRestore(s, Flags(a.staged, a.worktree), a.file)
    BY <1>8 DEF RunInside
  <2> QED BY <2>1, <2>2, RestoreStays
<1>9. CASE cmd.op = "remote_get" \/ cmd.op = "status" \/ cmd.op = "branches" \/ cmd.op = "upstream"
  <2>1. \E out, says : o \in Did(s, out) \/ o \in Refuse(s, says)
    BY <1>9 DEF RunInside
  <2> QED BY <2>1, Outcomes
<1>10. CASE cmd.op = "push"
  BY <1>10, PushesAs DEF RunInside
<1>11. CASE cmd.op = "pull"
  BY <1>11, PullsAs DEF RunInside
<1>12. CASE cmd.op = "remote_add"
  BY <1>12, RemoteAddDoes
<1> QED BY <1>1, <1>2, <1>3, <1>4, <1>5, <1>6, <1>7, <1>8, <1>9, <1>10, <1>11, <1>12 DEF Simple

\* What a command comes to: it failed before it did anything, or git ran it.
LEMMA CommandCases ==
  ASSUME NEW s, NEW cmd, IsCommand(cmd), NEW o \in RunCommand(s, cmd)
  PROVE  \/ o = [store |-> s, answer |-> [exit |-> IF cmd.op \in OrTrue THEN 0 ELSE 1,
                                         out |-> Nothing, says |-> "failed"]]
         \/ /\ cmd.op = "init"
            /\ o \in Did(IF s.head[1] # "none" THEN s
                         ELSE [s EXCEPT !.head = <<"branch", IF cmd.arg = "none" THEN Default
                                                             ELSE cmd.arg>>], Nothing)
         \/ cmd.op \in {"set_config", "get_config", "approve"} /\ o \in RunConfig(s, cmd)
         \/ /\ cmd.op \notin {"init", "set_config", "get_config", "approve"}
            /\ s.head[1] # "none" /\ o \in RunInside(s, cmd)
BY DEF RunCommand

LEMMA CommandStays ==
  ASSUME NEW s \in Repositories, NEW cmd, IsCommand(cmd), NEW o \in RunCommand(s, cmd)
  PROVE  o.store \in Repositories
<1>1. CASE o = [store |-> s, answer |-> [exit |-> IF cmd.op \in OrTrue THEN 0 ELSE 1,
                                         out |-> Nothing, says |-> "failed"]]
  BY <1>1
<1>2. CASE /\ cmd.op = "init"
           /\ o \in Did(IF s.head[1] # "none" THEN s
                        ELSE [s EXCEPT !.head = <<"branch", IF cmd.arg = "none" THEN Default
                                                            ELSE cmd.arg>>], Nothing)
  <2>1. cmd.arg \in Branches \union {"none"}
    BY <1>2 DEF IsCommand, IsOf, Args
  <2>2. <<"branch", IF cmd.arg = "none" THEN Default ELSE cmd.arg>> \in Heads
    BY <2>1, RepositoryAssumption DEF Heads
  <2>3. [s EXCEPT !.head = <<"branch", IF cmd.arg = "none" THEN Default ELSE cmd.arg>>] \in Repositories
    BY <2>2 DEF Repositories
  <2> QED BY <1>2, <2>3, Outcomes
<1>3. CASE cmd.op \in {"set_config", "get_config", "approve"} /\ o \in RunConfig(s, cmd)
  BY <1>3, ConfigStays
<1>4. CASE /\ cmd.op \notin {"init", "set_config", "get_config", "approve"}
           /\ s.head[1] # "none" /\ o \in RunInside(s, cmd)
  BY <1>4, InsideStays
<1> QED BY <1>1, <1>2, <1>3, <1>4, CommandCases

\* What a caller gets of a command is what it came to, or is cut.
LEMMA SeenCases ==
  ASSUME NEW s, NEW cmd, NEW o \in Seen(s, cmd)
  PROVE  /\ o.left \subseteq {cmd}
         /\ \/ \E q \in RunCommand(s, cmd) : o.store = q.store /\ o.answer = q.answer
            \/ /\ o.answer.exit = 0 /\ o.answer.says = "cut"
               /\ o.store = s \/ \E q \in RunCommand(s, cmd) : o.store = q.store
<1>1. CASE \E q \in RunCommand(s, cmd) : o = [store |-> q.store, answer |-> q.answer, left |-> {}]
  BY <1>1
<1>2. CASE o = Cut(s, Nothing, {cmd})
  BY <1>2 DEF Cut
<1>3. CASE \E q \in RunCommand(s, cmd) : \E out \in Parts(cmd.op, q.answer.out) :
             o = Cut(q.store, out, {})
  BY <1>3 DEF Cut
<1> QED BY <1>1, <1>2, <1>3 DEF Seen

LEMMA SeenStays ==
  ASSUME NEW s \in Repositories, NEW cmd, IsCommand(cmd), NEW o \in Seen(s, cmd)
  PROVE  o.store \in Repositories /\ \A left \in o.left : IsCommand(left)
BY SeenCases, CommandStays

-----------------------------------------------------------------------------
(* status: what it prints, read again, is what is so.                      *)

\* The two codes of a line, by the index and the head, and by the files and the index.
LEMMA IndexCodes ==
  ASSUME NEW s, NEW f
  PROVE  /\ IndexCode(s, f) \in {".", "A", "D", "M"}
         /\ IndexCode(s, f) = "." <=> s.index[f] = HeadTree(s)[f]
BY DEF IndexCode

LEMMA WorkCodes ==
  ASSUME NEW s, NEW f
  PROVE  /\ WorkCode(s, f) \in {".", "D", "M"}
         /\ WorkCode(s, f) = "." <=> (s.index[f] = s.work[f] \/ s.index[f] = "absent")
BY DEF WorkCode

\* The four kinds of line, and what becomes of each.
LEMMA ParsedLines ==
  ASSUME NEW s, Legible(s), NEW l \in FileLines(s)
  PROVE  \/ \E k \in s.conf :
              ParseFile(l) = [name |-> k[1], status |-> "Conflict", staged |-> TRUE, renamed_from |-> "none"]
         \/ \E r \in Renames(s) :
              ParseFile(l) = [name |-> r[2], status |-> "Renamed", staged |-> TRUE, renamed_from |-> r[1]]
         \/ \E f \in Files \ Conflicts(s) :
              /\ ParseFile(l).name = f /\ ParseFile(l).status \in {"Added", "Deleted", "Modified"}
              /\ ParseFile(l).staged <=> s.index[f] # HeadTree(s)[f]
              /\ ParseFile(l).renamed_from = "none"
         \/ \E f \in Files \ Conflicts(s) :
              /\ s.index[f] = "absent" /\ s.work[f] # "absent"
              /\ ParseFile(l) = [name |-> f, status |-> "Untracked", staged |-> FALSE,
                                 renamed_from |-> "none"]
<1>1. CASE \E k \in s.conf : l = Line(k[2], k[2], k[1], "none")
  <2>1. PICK k \in s.conf : l = Line(k[2], k[2], k[1], "none")
    BY <1>1
  <2>2. k[2] = "U"
    BY DEF Legible
  <2> QED BY <2>1, <2>2 DEF Line, ParseFile, DeriveStatus
<1>2. CASE \E r \in Renames(s) : l = Line("R", WorkCode(s, r[2]), r[2], r[1])
  <2>1. PICK r \in Renames(s) : l = Line("R", WorkCode(s, r[2]), r[2], r[1])
    BY <1>2
  <2>2. WorkCode(s, r[2]) \in {".", "D", "M"}
    BY IndexCodes, WorkCodes
  <2> QED BY <2>1, <2>2 DEF Line, ParseFile, DeriveStatus
<1>3. CASE \E f \in Files \ Conflicts(s) : /\ l = Line(IndexCode(s, f), WorkCode(s, f), f, "none")
                                           /\ <<IndexCode(s, f), WorkCode(s, f)>> # <<".", ".">>
  <2>1. PICK f \in Files \ Conflicts(s) : /\ l = Line(IndexCode(s, f), WorkCode(s, f), f, "none")
                                          /\ <<IndexCode(s, f), WorkCode(s, f)>> # <<".", ".">>
    BY <1>3
  <2>2. /\ IndexCode(s, f) \in {".", "A", "D", "M"} /\ WorkCode(s, f) \in {".", "D", "M"}
        /\ IndexCode(s, f) = "." <=> s.index[f] = HeadTree(s)[f]
    BY IndexCodes, WorkCodes
  <2>3. DeriveStatus(IndexCode(s, f), WorkCode(s, f)) \in {"Added", "Deleted", "Modified"}
    BY <2>1, <2>2 DEF DeriveStatus
  <2>4. IndexCode(s, f) \notin {".", "?"} <=> s.index[f] # HeadTree(s)[f]
    BY <2>2
  <2> QED BY <2>1, <2>3, <2>4 DEF Line, ParseFile
<1>4. CASE \E f \in Files \ Conflicts(s) : /\ l = Line("?", "?", f, "none")
                                           /\ s.index[f] = "absent" /\ s.work[f] # "absent"
  <2>1. PICK f \in Files \ Conflicts(s) : /\ l = Line("?", "?", f, "none")
                                          /\ s.index[f] = "absent" /\ s.work[f] # "absent"
    BY <1>4
  <2>2. ParseFile(l) = [name |-> f, status |-> "Untracked", staged |-> FALSE, renamed_from |-> "none"]
    BY <2>1 DEF Line, ParseFile, DeriveStatus
  <2> QED BY <2>1, <2>2
<1> QED BY <1>1, <1>2, <1>3, <1>4 DEF FileLines

\* The files that have a line, and the two ends of a rename.
LEMMA LinesThere ==
  ASSUME NEW s
  PROVE  /\ \A k \in s.conf : Line(k[2], k[2], k[1], "none") \in FileLines(s)
         /\ \A r \in Renames(s) : Line("R", WorkCode(s, r[2]), r[2], r[1]) \in FileLines(s)
         /\ \A f \in Files \ Conflicts(s) :
              /\ <<IndexCode(s, f), WorkCode(s, f)>> # <<".", ".">>
              /\ \A r \in Renames(s) : f \notin {r[1], r[2]}
              => Line(IndexCode(s, f), WorkCode(s, f), f, "none") \in FileLines(s)
         /\ \A f \in Files \ Conflicts(s) :
              s.index[f] = "absent" /\ s.work[f] # "absent" => Line("?", "?", f, "none") \in FileLines(s)
BY DEF FileLines

\* Files that can be paired are paired: of the finitely many pairings, one leaves so few
\* twins out that none can be added.
LEMMA RenamesPair ==
  ASSUME NEW s
  PROVE  /\ Renames(s) \subseteq Twins(s) /\ Pairing(Renames(s))
         /\ \A r \in Twins(s) \ Renames(s) : ~ Pairing(Renames(s) \union {r})
<1> DEFINE T == Twins(s)
           left == {t \in SUBSET T : Pairing(T \ t)}
<1>1. IsFiniteSet(T)
  <2>1. IsFiniteSet(Files \X Files)
    BY RepositoryAssumption, FS_Product
  <2> QED BY <2>1, FS_Subset DEF Twins
<1>2. IsWellFoundedOn(StrictSubsetOrdering(T), SUBSET T)
  BY <1>1, FS_StrictSubsetOrderingWellFounded, FS_FiniteSubsetsOfFinite
<1>3. left \subseteq SUBSET T /\ left # {}
  <2>1. Pairing(T \ T)
    BY DEF Pairing
  <2> QED BY <2>1
<1>4. PICK t \in left : \A u \in left : ~ (<<u, t>> \in StrictSubsetOrdering(T))
  <2> HIDE DEF T, left
  <2> QED BY <1>2, <1>3, WFMin
<1> DEFINE m == T \ t
<1>5. m \in SUBSET T /\ Pairing(m)
  BY <1>4
<1>6. ASSUME NEW r \in T \ m
      PROVE  ~ Pairing(m \union {r})
  <2> DEFINE u == t \ {r}
  <2>1. u \in SUBSET T /\ u \subseteq t /\ u # t /\ T \ u = m \union {r}
    BY <1>4
  <2>2. <<u, t>> \in StrictSubsetOrdering(T)
    BY <1>4, <2>1 DEF StrictSubsetOrdering
  <2>3. u \notin left
    BY <1>4, <2>2
  <2> QED BY <2>1, <2>3
<1> QED BY <1>5, <1>6 DEF Renames

LEMMA RenameEnds ==
  ASSUME NEW s, NEW r \in Renames(s)
  PROVE  /\ s.conf = {} /\ r[1] \in Files \ Conflicts(s) /\ r[2] \in Files \ Conflicts(s)
         /\ s.index[r[1]] # HeadTree(s)[r[1]] /\ s.index[r[2]] # HeadTree(s)[r[2]]
<1>1. r \in Files \X Files /\ IndexCode(s, r[1]) = "D" /\ IndexCode(s, r[2]) = "A" /\ s.conf = {}
  BY RenamesPair DEF Twins
<1> QED BY <1>1, IndexCodes, WorkCodes DEF Conflicts

LEMMA Cleanliness ==
  ASSUME NEW s \in Repositories
  PROVE  FileLines(s) = {} <=> s.conf = {} /\ s.work = s.index /\ s.index = HeadTree(s)
<1>1. s.work \in Trees /\ s.index \in Trees /\ HeadTree(s) \in Trees
  BY HeadTreeType DEF Repositories
<1>2. ASSUME s.conf = {}, s.work = s.index, s.index = HeadTree(s), FileLines(s) # {}
      PROVE  FALSE
  <2>1. PICK l : l \in FileLines(s)
    BY <1>2
  <2>2. \A f : IndexCode(s, f) = "." /\ WorkCode(s, f) = "."
    BY <1>2, IndexCodes, WorkCodes
  <2>3. Renames(s) = {}
    BY <2>2, RenamesPair DEF Twins
  <2> QED BY <1>2, <2>1, <2>2, <2>3 DEF FileLines
<1>3. ASSUME FileLines(s) = {}
      PROVE  s.conf = {} /\ s.work = s.index /\ s.index = HeadTree(s)
  <2>1. s.conf = {} /\ Renames(s) = {}
    BY <1>3, LinesThere
  <2>2. \A f \in Files : IndexCode(s, f) = "." /\ WorkCode(s, f) = "."
    BY <1>3, <2>1, LinesThere DEF Conflicts
  <2>3. \A f \in Files : s.index[f] = HeadTree(s)[f]
    BY <2>2, IndexCodes, WorkCodes
  <2>4. \A f \in Files : s.index[f] = s.work[f]
    BY <1>3, <2>1, <2>2, IndexCodes, WorkCodes, LinesThere DEF Conflicts
  <2> QED BY <1>1, <2>1, <2>3, <2>4 DEF Trees
<1> QED BY <1>2, <1>3

\* The names in a status: of what is staged, unknown and in conflict.
LEMMA NamesAreTrue ==
  ASSUME NEW s \in Repositories, Legible(s), NEW p,
         p.file_status = {ParseFile(l) : l \in FileLines(s)}
  PROVE  /\ NamesOf(p, Staged) \union ({e.renamed_from : e \in p.file_status} \ {"none"})
              = {f \in Files \ Conflicts(s) : s.index[f] # HeadTree(s)[f]}
         /\ NamesOf(p, Unknown)
              = {f \in Files \ Conflicts(s) : s.index[f] = "absent" /\ s.work[f] # "absent"}
         /\ NamesOf(p, Conflict) = Conflicts(s)
<1> DEFINE es == p.file_status
           staged == {f \in Files \ Conflicts(s) : s.index[f] # HeadTree(s)[f]}
           unknown == {f \in Files \ Conflicts(s) : s.index[f] = "absent" /\ s.work[f] # "absent"}
<1>1. ASSUME NEW e \in es
      PROVE  \/ \E k \in s.conf :
                  e = [name |-> k[1], status |-> "Conflict", staged |-> TRUE, renamed_from |-> "none"]
             \/ \E r \in Renames(s) :
                  e = [name |-> r[2], status |-> "Renamed", staged |-> TRUE, renamed_from |-> r[1]]
             \/ \E f \in Files \ Conflicts(s) :
                  /\ e.name = f /\ e.status \in {"Added", "Deleted", "Modified"}
                  /\ e.staged <=> s.index[f] # HeadTree(s)[f]
                  /\ e.renamed_from = "none"
             \/ \E f \in unknown :
                  e = [name |-> f, status |-> "Untracked", staged |-> FALSE, renamed_from |-> "none"]
  <2>1. PICK l \in FileLines(s) : e = ParseFile(l)
    BY <1>1
  <2> QED BY <2>1, ParsedLines
<1>2. ASSUME NEW e \in es
      PROVE  /\ Staged(e) => e.name \in staged
             /\ e.renamed_from # "none" => e.renamed_from \in staged
             /\ Unknown(e) => e.name \in unknown
             /\ Conflict(e) => e.name \in Conflicts(s)
  <2>1. CASE \E k \in s.conf :
                e = [name |-> k[1], status |-> "Conflict", staged |-> TRUE, renamed_from |-> "none"]
    BY <2>1 DEF Staged, Unknown, Conflict, Conflicts
  <2>2. CASE \E r \in Renames(s) :
                e = [name |-> r[2], status |-> "Renamed", staged |-> TRUE, renamed_from |-> r[1]]
    <3>1. PICK r \in Renames(s) :
                e = [name |-> r[2], status |-> "Renamed", staged |-> TRUE, renamed_from |-> r[1]]
      BY <2>2
    <3>2. r[1] \in staged /\ r[2] \in staged
      BY RenameEnds
    <3> QED BY <3>1, <3>2 DEF Staged, Unknown, Conflict
  <2>3. CASE \E f \in Files \ Conflicts(s) :
                /\ e.name = f /\ e.status \in {"Added", "Deleted", "Modified"}
                /\ e.staged <=> s.index[f] # HeadTree(s)[f]
                /\ e.renamed_from = "none"
    BY <2>3 DEF Staged, Unknown, Conflict
  <2>4. CASE \E f \in unknown :
                e = [name |-> f, status |-> "Untracked", staged |-> FALSE, renamed_from |-> "none"]
    BY <2>4 DEF Staged, Unknown, Conflict
  <2> QED BY <1>1, <2>1, <2>2, <2>3, <2>4
<1>3. ASSUME NEW f \in staged
      PROVE  (\E e \in es : Staged(e) /\ e.name = f) \/ \E e \in es : e.renamed_from = f
  <2>1. CASE \E r \in Renames(s) : f \in {r[1], r[2]}
    <3>1. PICK r \in Renames(s) : f \in {r[1], r[2]}
      BY <2>1
    <3> DEFINE e == ParseFile(Line("R", WorkCode(s, r[2]), r[2], r[1]))
    <3>2. e \in es
      BY LinesThere
    <3>3. e = [name |-> r[2], status |-> "Renamed", staged |-> TRUE, renamed_from |-> r[1]]
      BY IndexCodes, WorkCodes DEF ParseFile, Line, DeriveStatus
    <3> QED BY <3>1, <3>2, <3>3 DEF Staged
  <2>2. CASE \A r \in Renames(s) : f \notin {r[1], r[2]}
    <3> DEFINE e == ParseFile(Line(IndexCode(s, f), WorkCode(s, f), f, "none"))
    <3>1. IndexCode(s, f) \in {"A", "D", "M"} /\ WorkCode(s, f) \in {".", "D", "M"}
      BY IndexCodes, WorkCodes
    <3>2. e \in es
      BY <2>2, <3>1, LinesThere
    <3>3. e.name = f /\ e.staged /\ e.status # "Conflict"
      BY <3>1 DEF ParseFile, Line, DeriveStatus
    <3> QED BY <3>2, <3>3 DEF Staged
  <2> QED BY <2>1, <2>2
<1>4. ASSUME NEW f \in unknown
      PROVE  \E e \in es : Unknown(e) /\ e.name = f
  <2> DEFINE e == ParseFile(Line("?", "?", f, "none"))
  <2>1. e \in es
    BY LinesThere
  <2>2. e.name = f /\ e.status = "Untracked"
    BY DEF ParseFile, Line, DeriveStatus
  <2> QED BY <2>1, <2>2 DEF Unknown
<1>5. ASSUME NEW f \in Conflicts(s)
      PROVE  \E e \in es : Conflict(e) /\ e.name = f
  <2>1. PICK k \in s.conf : f = k[1]
    BY DEF Conflicts
  <2> DEFINE e == ParseFile(Line(k[2], k[2], k[1], "none"))
  <2>2. e \in es
    BY LinesThere
  <2>3. e.name = f /\ e.status = "Conflict"
    BY <2>1 DEF ParseFile, Line, DeriveStatus, Legible
  <2> QED BY <2>2, <2>3 DEF Conflict
<1>6. "none" \notin Files
  BY RepositoryAssumption
<1> HIDE DEF es
<1>7. {e.name : e \in {x \in es : Staged(x)}} \union ({e.renamed_from : e \in es} \ {"none"}) = staged
  BY <1>2, <1>3, <1>6
<1>8. {e.name : e \in {x \in es : Unknown(x)}} = unknown
  <2> HIDE DEF unknown
  <2> QED BY <1>2, <1>4
<1>9. {e.name : e \in {x \in es : Conflict(x)}} = Conflicts(s)
  BY <1>2, <1>5
<1> QED BY <1>7, <1>8, <1>9 DEF NamesOf, es

\* A status that is legible is parsed into what is so.
LEMMA StatusIsTrue ==
  ASSUME NEW s \in Repositories, s.head[1] # "none", Legible(s)
  PROVE  Told(ParseGitStatus(<<StatusOutput(s)>>)) = TrueStatus(s)
<1> DEFINE text == StatusOutput(s)
           h == HistoryOf(s)
           k == IF Tracks(s) THEN s.fetched[s.head[2]] ELSE h
           p == [current_branch |-> IF Attached(s) THEN s.head[2] ELSE "none",
                 upstream |-> IF Tracks(s) THEN s.head[2] ELSE "none",
                 ahead |-> IF k = << >> THEN 0 ELSE Len(h) - Common(h, k),
                 behind |-> Len(k) - Common(h, k), detached |-> ~ Attached(s),
                 file_status |-> {ParseFile(l) : l \in FileLines(s)}]
<1>1. ParseGitStatus(<<text>>) = p
  <2>1. text.line = "detached" \/ text.name \in Headlike <=> ~ Attached(s)
    BY DEF StatusOutput, Legible
  <2>2. /\ text.name = IF Attached(s) THEN s.head[2] ELSE "HEAD"
        /\ text.upstream = IF Tracks(s) THEN s.head[2] ELSE "none"
        /\ text.ahead = p.ahead /\ text.behind = p.behind /\ text.files = FileLines(s)
    BY DEF StatusOutput
  <2>3. Tracks(s) => Attached(s)
    BY DEF Tracks
  <2> HIDE DEF text
  <2>4. <<text>> # Nothing /\ <<text>>[1] = text
    BY DEF Nothing
  <2> QED BY <2>1, <2>2, <2>3, <2>4 DEF ParseGitStatus
<1>2. <<p.ahead, p.behind>> = IF Tracks(s) /\ s.fetched[s.head[2]] # << >>
                              THEN <<Len(h) - Common(h, k), Len(k) - Common(h, k)>> ELSE <<0, 0>>
  <2>1. h \in Histories
    BY HistoryType
  <2> HIDE DEF h
  <2>3. Common(h, h) = Len(h)
    BY <2>1, CommonWithItself
  <2>4. Len(h) \in Nat
    BY <2>1 DEF Histories
  <2>2. Common(h, << >>) = 0
    <3>1. {i \in 1..Len(h) : i <= Len(<< >>) /\ SubSeq(h, 1, i) = SubSeq(<< >>, 1, i)} = {}
      OBVIOUS
    <3> QED BY <3>1, FS_EmptySet DEF Common
  <2> QED BY <2>1, <2>2, <2>3, <2>4
<1>3. p.file_status = {} <=> s.conf = {} /\ s.work = s.index /\ s.index = HeadTree(s)
  BY Cleanliness
<1>4. /\ NamesOf(p, Staged) \union ({e.renamed_from : e \in p.file_status} \ {"none"})
           = {f \in Files \ Conflicts(s) : s.index[f] # HeadTree(s)[f]}
      /\ NamesOf(p, Unknown)
           = {f \in Files \ Conflicts(s) : s.index[f] = "absent" /\ s.work[f] # "absent"}
      /\ NamesOf(p, Conflict) = Conflicts(s)
  BY NamesAreTrue
<1>5. /\ p.current_branch = IF Attached(s) THEN s.head[2] ELSE "none"
      /\ p.upstream = IF Tracks(s) THEN s.head[2] ELSE "none"
  OBVIOUS
<1>7. p.detached = ~ Attached(s)
  OBVIOUS
<1> HIDE DEF p
<1>6. Told(p) = TrueStatus(s)
  BY <1>2, <1>3, <1>4, <1>5, <1>7 DEF Told, TrueStatus
<1> QED BY <1>1, <1>6

-----------------------------------------------------------------------------
(* What a call makes of its last command's answer.                         *)

\* The other calls run one command, which is the call itself.
LEMMA Singles ==
  ASSUME NEW r, IsRequest(r), ~ RefusesCall(r),
         r.op \notin {"configure_user", "dangerously_authenticate", "pull"}
  PROVE  Script(r) = <<r>> /\ IsCommand(r)
BY DEF Script, IsRequest, IsCommand, IsOf

\* Inside a repository or not, a command either failed at once or ran.
LEMMA InsideCases ==
  ASSUME NEW s, NEW r, IsCommand(r), NEW o \in RunCommand(s, r),
         r.op \notin {"init", "set_config", "get_config", "approve"}
  PROVE  \/ /\ o.store = s /\ o.answer.out = Nothing /\ o.answer.says = "failed"
            /\ o.answer.exit = IF r.op \in OrTrue THEN 0 ELSE 1
         \/ s.head[1] # "none" /\ o \in RunInside(s, r)
<1>1. CASE o = [store |-> s, answer |-> [exit |-> IF r.op \in OrTrue THEN 0 ELSE 1,
                                         out |-> Nothing, says |-> "failed"]]
  BY <1>1
<1> QED BY <1>1, CommandCases

\* Call by call, what is made of the answer is what the documentation says.
LEMMA StatusFits ==
  ASSUME NEW s \in Repositories, NEW r, IsCommand(r), r.op = "status", NEW o \in RunCommand(s, r)
  PROVE  Fits(r, o.answer, s, o.store, Result(r, o.answer)[2])
<1>1. Result(r, o.answer)[2] = ParseGitStatus(o.answer.out)
  BY DEF Result, Ok, OrTrue
<1>2. CASE o.answer.out = Nothing /\ o.answer.exit = 1
  <2>1. ParseGitStatus(o.answer.out) = NoStatus
    BY <1>2 DEF ParseGitStatus
  <2> QED BY <1>1, <1>2, <2>1 DEF Fits, OrTrue
<1>3. CASE s.head[1] # "none" /\ o \in RunInside(s, r)
  <2>1. o \in Did(s, <<StatusOutput(s)>>)
    BY <1>3 DEF RunInside
  <2>2. o.answer.exit = 0 /\ o.answer.out = <<StatusOutput(s)>>
    BY <2>1, Outcomes
  <2>3. Legible(s) => Told(Result(r, o.answer)[2]) = TrueStatus(s)
    BY <1>1, <1>3, <2>2, StatusIsTrue
  <2> QED BY <2>2, <2>3 DEF Fits, OrTrue
<1>4. (o.answer.out = Nothing /\ o.answer.exit = 1) \/ (s.head[1] # "none" /\ o \in RunInside(s, r))
  BY InsideCases DEF OrTrue
<1> QED BY <1>2, <1>3, <1>4

LEMMA BranchesFit ==
  ASSUME NEW s \in Repositories, NEW r, IsCommand(r), r.op = "branches", NEW o \in RunCommand(s, r)
  PROVE  Fits(r, o.answer, s, o.store, Result(r, o.answer)[2])
<1> DEFINE v == ParseGitBranches(o.answer.out)
           there == {b \in Branches : s.tips[b] # << >>}
<1>1. Result(r, o.answer)[2] = v
  BY DEF Result, Ok, OrTrue
<1>2. CASE o.answer.exit # 0
  BY <1>2 DEF Fits, OrTrue
<1>3. CASE s.head[1] # "none" /\ o \in RunInside(s, r)
  <2>1. o \in Did(s, <<BranchOutput(s)>>)
    BY <1>3 DEF RunInside
  <2>2. o.answer.out = <<BranchOutput(s)>>
    BY <2>1, Outcomes
  <2> DEFINE lines == BranchOutput(s)
             marked == {l \in lines : l.marker = "*"}
  <2>3. /\ v.branches = {l.name : l \in lines}
        /\ marked # {} => v.current_branch = (CHOOSE l \in marked : TRUE).name
    <3> HIDE DEF lines
    <3>1. o.answer.out # Nothing /\ o.answer.out[1] = lines
      BY <2>2 DEF Nothing, lines
    <3> QED BY <3>1 DEF ParseGitBranches
  <2> DEFINE LineOf(b) == [name |-> b, marker |-> IF s.head = <<"branch", b>> THEN "*" ELSE "."]
  <2>8. /\ \A b \in there : LineOf(b) \in lines
        /\ \A l \in lines : \/ \E b \in there : l = LineOf(b)
                            \/ s.head[1] = "commit" /\ l = [name |-> Detached, marker |-> "*"]
    BY DEF BranchOutput
  <2>9. \A b : LineOf(b).name = b /\ (LineOf(b).marker = "*" <=> s.head = <<"branch", b>>)
    OBVIOUS
  <2> HIDE DEF LineOf
  <2>4. /\ \A b \in there : \E l \in lines : l.name = b
        /\ \A l \in lines : l.name \in there \/ l.name = Detached
    <3> HIDE DEF lines, there
    <3> QED BY <2>8, <2>9
  <2>5. Detached \notin there
    BY DetachedAssumption
  <2>6. v.branches \ {Detached} = there
    <3> HIDE DEF lines, there
    <3> QED BY <2>3, <2>4, <2>5
  <2>7. ASSUME Attached(s), HistoryOf(s) # << >>
        PROVE  v.current_branch = s.head[2]
    <3>1. s.head = <<"branch", s.head[2]>> /\ s.head[2] \in there
      BY <2>7, HeadForms DEF Attached, HistoryOf
    <3> HIDE DEF lines, there
    <3>2. /\ \E l \in lines : l.marker = "*" /\ l.name = s.head[2]
          /\ \A l \in lines : l.marker = "*" => l.name = s.head[2]
      <4>1. s.head[1] = "branch"
        BY <2>7 DEF Attached
      <4>2. \A b : s.head = <<"branch", b>> <=> b = s.head[2]
        BY <3>1
      <4> QED BY <2>8, <2>9, <3>1, <4>1, <4>2
    <3>3. marked # {} /\ \A l \in marked : l.name = s.head[2]
      BY <3>2
    <3> QED BY <2>3, <3>3
  <2> HIDE DEF v
  <2> QED BY <1>1, <2>6, <2>7 DEF Fits, OrTrue
<1>4. o.answer.exit # 0 \/ (s.head[1] # "none" /\ o \in RunInside(s, r))
  BY InsideCases DEF OrTrue
<1> QED BY <1>2, <1>3, <1>4

LEMMA ValuesFit ==
  ASSUME NEW s \in Repositories, NEW r, IsCommand(r), r.op \in OrTrue, NEW o \in RunCommand(s, r)
  PROVE  Fits(r, o.answer, s, o.store, Result(r, o.answer)[2])
<1> DEFINE value == IF r.op = "remote_get" THEN s.url ELSE s.config[r.arg.scope][r.arg.key]
<1>1. Result(r, o.answer)[2] = Output(o.answer)
  BY DEF Result, Ok, OrTrue
<1>2. \/ o.answer.out = Nothing /\ o.answer.says = "failed"
      \/ o \in Did(s, IF value = "none" THEN Nothing ELSE <<value>>)
  <2>1. CASE r.op = "remote_get"
    <3>1. (o.answer.out = Nothing /\ o.answer.says = "failed") \/ o \in RunInside(s, r)
      BY <2>1, InsideCases
    <3>2. CASE o \in RunInside(s, r)
      BY <2>1, <3>2 DEF RunInside
    <3> QED BY <3>1, <3>2
  <2>2. CASE r.op = "get_config"
    <3>1. \/ o = [store |-> s, answer |-> [exit |-> IF r.op \in OrTrue THEN 0 ELSE 1,
                                           out |-> Nothing, says |-> "failed"]]
          \/ o \in RunConfig(s, r)
      BY <2>2, CommandCases
    <3>2. CASE o \in RunConfig(s, r)
      BY <2>2, <3>2 DEF RunConfig
    <3> QED BY <3>1, <3>2
  <2> QED BY <2>1, <2>2 DEF OrTrue
<1> HIDE DEF value
<1>3. Output(o.answer) = IF o.answer.says = "failed" THEN "none" ELSE value
  <2>1. CASE o.answer.out = Nothing /\ o.answer.says = "failed"
    BY <2>1 DEF Output
  <2>2. CASE o \in Did(s, IF value = "none" THEN Nothing ELSE <<value>>)
    <3>1. o.answer.says = "nothing" /\ o.answer.out = IF value = "none" THEN Nothing ELSE <<value>>
      BY <2>2, Outcomes
    <3> QED BY <3>1 DEF Output, Nothing
  <2> QED BY <1>2, <2>1, <2>2
<1> QED BY <1>1, <1>3 DEF Fits, OrTrue, value

LEMMA RestoreFits ==
  ASSUME NEW s \in Repositories, NEW r, IsCommand(r), r.op = "restore", NEW o \in RunCommand(s, r)
  PROVE  Fits(r, o.answer, s, o.store, Result(r, o.answer)[2])
<1> DEFINE a == r.arg
           f == a.file
           flags == Flags(a.staged, a.worktree)
           staged == a.staged = "yes"
           files == a.worktree = "yes" \/ (a.worktree = "unset" /\ ~ staged)
           index == IF staged THEN HeadTree(s)[f] ELSE s.index[f]
<1>1. Result(r, o.answer)[2] = Ran(o.answer)
  BY DEF Result, Ok, OrTrue
<1>2. CASE o.answer.exit # 0
  BY <1>1, <1>2 DEF Fits, Ran, Done, OrTrue
<1>3. CASE s.head[1] # "none" /\ o \in RunInside(s, r) /\ o.answer.exit = 0
  <2>1. /\ f \in Files /\ a.staged \in {"unset", "yes", "no"} /\ a.worktree \in {"unset", "yes", "no"}
        /\ staged \/ a.worktree # "no"
    BY DEF IsCommand, IsOf, Args, RefusesCall, InvalidRestore
  <2>2. ("--staged" \in flags <=> staged) /\ ((flags # {"--staged"}) <=> files)
    BY <2>1 DEF Flags
  <2>3. o \in RunRestore(s, flags, f)
    BY <1>3 DEF RunInside
  <2> DEFINE done == [s EXCEPT !.index = [s.index EXCEPT ![f] = index],
                               !.work = [s.work EXCEPT ![f] = IF files THEN index ELSE s.work[f]],
                               !.conf = IF staged THEN Settled(s, {f}) ELSE s.conf]
  <2>4. \E guard : o \in When(guard, s, done)
    <3> HIDE DEF flags, staged, files
    <3> QED BY <2>2, <2>3 DEF RunRestore
  <2>5. /\ done.index[f] = index /\ done.work[f] = IF files THEN index ELSE s.work[f]
    <3> HIDE DEF index, files, staged
    <3> QED BY <2>1 DEF Repositories, Trees
  <2>6. o.store = done
    <3> HIDE DEF done
    <3> QED BY <1>3, <2>4, WhenOutcome
  <2>7. o.store.index[f] = index /\ o.store.work[f] = IF files THEN o.store.index[f] ELSE s.work[f]
    BY <2>5, <2>6
  <2> QED BY <1>1, <2>7 DEF Fits, Ran, Done, OrTrue
<1>4. o.answer.exit # 0 \/ (s.head[1] # "none" /\ o \in RunInside(s, r))
  BY InsideCases DEF OrTrue
<1> QED BY <1>2, <1>3, <1>4

LEMMA RemoteAddFits ==
  ASSUME NEW s \in Repositories, NEW r, IsCommand(r), r.op = "remote_add", NEW o \in RunCommand(s, r)
  PROVE  Fits(r, o.answer, s, o.store, Result(r, o.answer)[2])
<1>1. Result(r, o.answer)[2] = Ran(o.answer)
  BY DEF Result, Ok, OrTrue
<1>2. CASE o.answer.exit # 0
  BY <1>1, <1>2 DEF Fits, Ran, Done, OrTrue
<1>3. CASE o \in RunInside(s, r) /\ o.answer.exit = 0
  <2>1. /\ o.store.url = r.arg.url
        /\ r.arg.fetch => o.store.fetched = o.store.theirs
        /\ s.url = "none" \/ r.arg.overwrite
    BY <1>3, RemoteAddDoes
  <2> QED BY <1>1, <2>1 DEF Fits, Ran, Done, OrTrue
<1>4. o.answer.exit # 0 \/ o \in RunInside(s, r)
  BY InsideCases DEF OrTrue
<1> QED BY <1>2, <1>3, <1>4

\* Of a command that was cut nothing is claimed, and its result is not taken for a success.
LEMMA CutFits ==
  ASSUME NEW s, NEW r, NEW a, a.exit = 0, a.says = "cut", NEW s2
  PROVE  Fits(r, a, s, s2, Result(r, a)[2])
<1>1. Ran(a) # Done
  BY DEF Ran, Done
<1>2. r.op \in {"restore", "remote_add"} => Result(r, a)[2] = Ran(a)
  BY DEF Result, Ok, OrTrue
<1> QED BY <1>1, <1>2 DEF Fits, OrTrue

\* Any request, and the last command of its script.
LEMMA AnswerFits ==
  ASSUME NEW s \in Repositories, NEW r, IsRequest(r), ~ RefusesCall(r),
         NEW o \in Seen(s, Script(r)[Len(Script(r))])
  PROVE  Fits(r, o.answer, s, o.store, Result(r, o.answer)[2])
<1> DEFINE cmd == Script(r)[Len(Script(r))]
<1>1. CASE o.answer.exit = 0 /\ o.answer.says = "cut"
  BY <1>1, CutFits
<1>2. CASE \E q \in RunCommand(s, cmd) : o.store = q.store /\ o.answer = q.answer
  <2>1. PICK q \in RunCommand(s, cmd) : o.store = q.store /\ o.answer = q.answer
    BY <1>2
  <2>2. CASE r.op \in {"status", "branches", "remote_get", "get_config", "restore", "remote_add"}
    <3>1. IsCommand(r) /\ Script(r) = <<r>>
      BY <2>2, Singles
    <3>2. q \in RunCommand(s, r)
      BY <2>1, <3>1
    <3>3. Fits(r, q.answer, s, q.store, Result(r, q.answer)[2])
      BY <2>2, <3>1, <3>2, StatusFits, BranchesFit, ValuesFit, RestoreFits, RemoteAddFits DEF OrTrue
    <3> QED BY <2>1, <3>3
  <2>3. CASE r.op \notin {"status", "branches", "remote_get", "get_config", "restore", "remote_add"}
    BY <2>3 DEF Fits, OrTrue
  <2> QED BY <2>2, <2>3
<1> QED BY <1>1, <1>2, SeenCases

\* What an error of push or pull says of the answer, and what its success says.
LEMMA MappedMeans ==
  ASSUME NEW a
  PROVE  /\ Mapped(a)[1] = "err" => a.exit # 0
         /\ Mapped(a) = Err("GitUpstream") => a.says = "upstream"
         /\ Mapped(a) = Ok(Done) => a.exit = 0 /\ a.says # "cut"
BY DEF Mapped, Ok, Err, Ran, Done

\* What push and pull leave when they fail, and when they succeed.
LEMMA PushAndPull ==
  ASSUME NEW s \in Repositories, NEW r, IsCommand(r), r.op \in {"push", "pull"},
         NEW o \in RunCommand(s, r),
         NEW b, b = IF r.arg.branch = "none" THEN s.head[2] ELSE r.arg.branch
  PROVE  /\ o.answer.exit # 0 => [o.store EXCEPT !.fetched = s.fetched] = s
         /\ o.answer.says = "upstream" => ~ Tracks(s)
         /\ o.answer.exit = 0 =>
              Within(o.store.theirs[b],
                     IF r.op = "push" THEN o.store.tips[b] ELSE HistoryOf(o.store))
<1>1. s = [s EXCEPT !.fetched = s.fetched]
  BY DEF Repositories
<1>2. \/ o.store = s /\ o.answer.exit = 1 /\ o.answer.says = "failed"
      \/ o \in RunInside(s, r)
  BY InsideCases DEF OrTrue
<1>3. CASE o.store = s /\ o.answer.exit = 1 /\ o.answer.says = "failed"
  BY <1>1, <1>3
<1>4. CASE r.op = "push" /\ o \in RunInside(s, r)
  <2>1. o \in PushAs(s, r.arg)
    BY <1>4 DEF RunInside
  <2> QED BY <1>4, <2>1, PushesAs
<1>5. CASE r.op = "pull" /\ o \in RunInside(s, r)
  <2>1. o \in PullAs(s, r.arg)
    BY <1>5 DEF RunInside
  <2> QED BY <1>5, <2>1, PullsAs
<1> QED BY <1>2, <1>3, <1>4, <1>5

\* pull's question for the upstream changes nothing, and its answers are true.
LEMMA UpstreamLooks ==
  ASSUME NEW s \in Repositories, NEW o \in RunCommand(s, Ask("upstream", "none"))
  PROVE  /\ [o.store EXCEPT !.fetched = s.fetched] = s
         /\ o.answer.exit # 0 \/ o.answer.out = Nothing =>
              o.answer.says = "failed" \/ ~ Tracks(s) \/ s.fetched[s.head[2]] = << >>
<1> DEFINE cmd == Ask("upstream", "none")
<1>1. s = [s EXCEPT !.fetched = s.fetched]
  BY DEF Repositories
<1>2. IsCommand(cmd) /\ cmd.op = "upstream"
  BY DEF IsCommand, IsOf, Ask, Args, RefusesCall
<1> HIDE DEF cmd
<1>3. o \in RunCommand(s, cmd)
  BY DEF cmd
<1>4. (o.store = s /\ o.answer.says = "failed") \/ o \in RunInside(s, cmd)
  BY <1>2, <1>3, InsideCases
<1>5. CASE o.store = s /\ o.answer.says = "failed"
  BY <1>1, <1>5
<1>6. CASE o \in RunInside(s, cmd)
  <2>1. CASE Tracks(s) /\ s.fetched[s.head[2]] # << >>
    <3>1. o \in Did(s, <<s.head[2]>>)
      BY <1>2, <1>6, <2>1 DEF RunInside
    <3>2. o.store = s /\ o.answer.exit = 0 /\ o.answer.out = <<s.head[2]>>
      BY <3>1, Outcomes
    <3> QED BY <1>1, <3>2 DEF Nothing
  <2>2. CASE ~(Tracks(s) /\ s.fetched[s.head[2]] # << >>)
    <3>1. o \in Refuse(s, "upstream")
      BY <1>2, <1>6, <2>2 DEF RunInside
    <3> QED BY <1>1, <2>2, <3>1, Outcomes
  <2> QED BY <2>1, <2>2
<1> QED BY <1>4, <1>5, <1>6

LEMMA UpstreamAnswers ==
  ASSUME NEW s \in Repositories, NEW o \in Seen(s, Ask("upstream", "none"))
  PROVE  /\ [o.store EXCEPT !.fetched = s.fetched] = s
         /\ o.answer.exit # 0 \/ o.answer.out = Nothing =>
              o.answer.says \in {"failed", "cut"} \/ ~ Tracks(s) \/ s.fetched[s.head[2]] = << >>
<1>1. s = [s EXCEPT !.fetched = s.fetched]
  BY DEF Repositories
<1> QED BY <1>1, SeenCases, UpstreamLooks

-----------------------------------------------------------------------------
(* Scripts.                                                                *)

\* No key that the calls set is empty.
LEMMA NotEmpty == "user.name" # "" /\ "user.email" # "" /\ "credential.helper" # ""
OBVIOUS

\* A call runs one command or two; the last one of push and pull is the call itself.
LEMMA Scripts ==
  ASSUME NEW r, IsRequest(r)
  PROVE  /\ Len(Script(r)) \in {1, 2}
         /\ Len(Script(r)) = 2 => r.op \in {"configure_user", "dangerously_authenticate", "pull"}
         /\ r.op \in {"push", "pull"} =>
              /\ Script(r)[Len(Script(r))] = r
              /\ Len(Script(r)) = 2 => Script(r)[1] = Ask("upstream", "none")
BY DEF Script

\* What a call that is not refused runs are commands.
LEMMA ScriptCommands ==
  ASSUME NEW r, IsRequest(r), ~ RefusesCall(r), NEW n \in 1..Len(Script(r))
  PROVE  IsCommand(Script(r)[n])
<1> DEFINE a == r.arg
<1>1. CASE r.op = "configure_user"
  <2>1. a.key \in Values /\ a.value \in Values /\ a.scope \in {"local", "global"}
    BY <1>1 DEF IsRequest, IsOf, Args, Scoped, RefusesCall
  <2>2. ASSUME NEW key \in {"user.name", "user.email"}, NEW v \in Values
        PROVE  IsCommand(SetConfig(a.scope, key, v))
    <3> DEFINE cmd == SetConfig(a.scope, key, v)
    <3>1. cmd.op = "set_config" /\ cmd = Ask(cmd.op, cmd.arg)
      BY DEF SetConfig, Ask
    <3>2. cmd.arg \in Scoped(Keys \union {""}, Values)
      BY <2>1 DEF SetConfig, Ask, Scoped, Keys
    <3>3. (cmd.arg.scope = "local" => cmd.arg.path) /\ cmd.arg.key # ""
      BY NotEmpty DEF SetConfig, Ask
    <3> HIDE DEF cmd
    <3>4. ~ RefusesCall(cmd)
      <4>1. RefusesCall(cmd) <=> \/ cmd.arg.scope = "local" /\ ~ cmd.arg.path
                                \/ cmd.arg.key = ""
        BY <3>1 DEF RefusesCall
      <4> QED BY <3>3, <4>1
    <3>5. IsCommand(cmd)
      BY <3>1, <3>2, <3>4 DEF IsCommand, IsOf, Args, Simple
    <3> QED BY <3>5 DEF cmd
  <2>3. Script(r) = <<SetConfig(a.scope, "user.name", a.key), SetConfig(a.scope, "user.email", a.value)>>
    BY <1>1 DEF Script
  <2> QED BY <2>1, <2>2, <2>3
<1>2. CASE r.op = "dangerously_authenticate"
  <2>1. a \in Values
    BY <1>2 DEF IsRequest, IsOf, Args, RefusesCall
  <2>2. IsCommand(Ask("approve", a))
    BY <2>1 DEF IsCommand, IsOf, Args, RefusesCall, Ask
  <2> DEFINE cmd == SetConfig("global", "credential.helper", "store")
  <2>3. cmd.op = "set_config" /\ cmd = Ask(cmd.op, cmd.arg)
    BY DEF SetConfig, Ask
  <2>4. cmd.arg \in Scoped(Keys \union {""}, Values)
    BY HeadlikeAssumption DEF SetConfig, Ask, Scoped, Keys
  <2>5. cmd.arg.scope # "local" /\ cmd.arg.key # ""
    BY NotEmpty DEF SetConfig, Ask
  <2>6. Script(r) = <<cmd, Ask("approve", a)>>
    BY <1>2 DEF Script
  <2> HIDE DEF cmd
  <2>7. IsCommand(cmd)
    BY <2>3, <2>4, <2>5 DEF IsCommand, IsOf, Args, RefusesCall, Simple
  <2> QED BY <2>2, <2>6, <2>7
<1>3. CASE r.op = "pull"
  <2>1. IsCommand(r)
    BY <1>3 DEF IsRequest, IsCommand, IsOf, Simple
  <2>2. IsCommand(Ask("upstream", "none"))
    BY DEF IsCommand, IsOf, Ask, Args, RefusesCall
  <2>3. Script(r) = <<r>> \/ Script(r) = <<Ask("upstream", "none"), r>>
    BY <1>3 DEF Script
  <2> QED BY <2>1, <2>2, <2>3
<1>4. CASE r.op \notin {"configure_user", "dangerously_authenticate", "pull"}
  BY <1>4, Singles
<1> QED BY <1>1, <1>2, <1>3, <1>4

\* A call at the start of a command.
LEMMA NewCall ==
  ASSUME NEW r, NEW n
  PROVE  LET k == [at |-> "made", request |-> r, n |-> n, answer |-> NoAnswer,
                   before |-> NoRepository, after |-> NoRepository]
         IN  /\ [NoCall EXCEPT !.at = "made", !.n = n, !.request = r] = k
             /\ n = 1 => [NoCall EXCEPT !.at = "made", !.request = r] = k
<1> DEFINE These == [at : {"made"}, request : {r}, n : {n}, answer : {NoAnswer},
                     before : {NoRepository}, after : {NoRepository}]
<1>1. [NoCall EXCEPT !.at = "made", !.n = n, !.request = r] \in These
  BY DEF NoCall
<1>2. n = 1 => [NoCall EXCEPT !.at = "made", !.request = r] \in These
  BY DEF NoCall
<1>3. ASSUME NEW k \in These
      PROVE  k = [at |-> "made", request |-> r, n |-> n, answer |-> NoAnswer,
                  before |-> NoRepository, after |-> NoRepository]
  OBVIOUS
<1> HIDE DEF These
<1> QED BY <1>1, <1>2, <1>3

LEMMA NotMore == ASSUME NEW r, NEW a PROVE Result(r, a) # More
BY DEF Result, More, Ok, Err, Mapped

-----------------------------------------------------------------------------
(* The calls.                                                              *)

\* Callers ask for what there is, and what others make of a repository is one.
Orderly == /\ Starts \subseteq Repositories
           /\ \A s \in Repositories : /\ \A r \in Asks(s) : IsRequest(r)
                                      /\ Drift(s) \subseteq Repositories

\* The calls' state is well-formed at first, and after every step.
LEMMA GitTypeInit == Orderly /\ GitInit => GitTypeOK
BY DEF Orderly, GitInit, GitTypeOK, InScript

\* What a step does to the other calls, and to what is adrift, goes by the call alone.
LEMMA OthersStay ==
  ASSUME GitTypeOK, NEW c \in Clients, NEW k, call' = [call EXCEPT ![c] = k]
  PROVE  /\ call' = [d \in Clients |-> call'[d]] /\ call'[c] = k
         /\ \A d \in Clients \ {c} : call'[d] = call[d] /\ InScript(d)'
<1>1. call = [d \in Clients |-> call[d]]
  BY DEF GitTypeOK
<1>2. \A d \in Clients \ {c} : call'[d] = call[d]
  BY <1>1
<1>3. ASSUME NEW d \in Clients \ {c} PROVE InScript(d)'
  <2>1. InScript(d) /\ call'[d] = call[d]
    BY <1>2 DEF GitTypeOK
  <2> QED BY <2>1 DEF InScript, HasRun, Current
<1> QED BY <1>1, <1>2, <1>3

LEMMA GitTypeStep ==
  ASSUME Orderly, GitTypeOK, [GitNext]_gitVars
  PROVE  GitTypeOK'
<1> USE DEF GitTypeOK
<1>1. ASSUME NEW c \in Clients, Makes(c) PROVE GitTypeOK'
  <2>1. PICK r \in Asks(repo) : call' = [call EXCEPT ![c].at = "made", ![c].request = r]
    BY <1>1 DEF Makes
  <2> DEFINE k == [NoCall EXCEPT !.at = "made", !.request = r]
  <2>2. call[c] = NoCall
    BY <1>1 DEF Makes, InScript
  <2>3. call' = [call EXCEPT ![c] = k]
    BY <2>1, <2>2
  <2>4. IsRequest(r) /\ 1 \in 1..Len(Script(r))
    BY Scripts DEF Orderly
  <2>5. k = [at |-> "made", request |-> r, n |-> 1, answer |-> NoAnswer,
             before |-> NoRepository, after |-> NoRepository]
    BY NewCall
  <2> HIDE DEF k
  <2>6. InScript(c)'
    <3>1. call'[c] = k
      BY <2>3, OthersStay
    <3>2. InScript(c)' <=> \/ k = NoCall
                           \/ /\ k = [at |-> k.at, request |-> k.request, n |-> k.n,
                                     answer |-> k.answer, before |-> k.before, after |-> k.after]
                              /\ IsRequest(k.request) /\ k.n \in 1..Len(Script(k.request))
                              /\ k.at = "made" \/ (k.at = "answered" /\ HasRun(c)'
                                                  /\ k.before \in Repositories)
      BY <3>1 DEF InScript
    <3>3. k.at = "made" /\ k.request = r /\ k.n = 1
      BY <2>5
    <3>4. k = [at |-> k.at, request |-> k.request, n |-> k.n,
               answer |-> k.answer, before |-> k.before, after |-> k.after]
      BY <2>5
    <3>5. IsRequest(k.request) /\ k.n \in 1..Len(Script(k.request))
      BY <2>4, <3>3
    <3> QED BY <3>2, <3>3, <3>4, <3>5
  <2>7. repo' = repo /\ adrift' = adrift /\ calls' \in Nat
    BY <1>1 DEF Makes
  <2>8. /\ call' = [d \in Clients |-> call'[d]]
        /\ \A d \in Clients : InScript(d)'
    BY <2>3, <2>6, OthersStay
  <2> QED BY <2>7, <2>8
<1>2. ASSUME NEW c \in Clients, Comes(c), UNCHANGED repo, UNCHANGED calls,
             \A cmd \in adrift' : IsCommand(cmd)
      PROVE  GitTypeOK'
  <2>1. call' = [call EXCEPT ![c] = NoCall]
    BY <1>2 DEF Comes
  <2>2. InScript(c)'
    BY <2>1, OthersStay DEF InScript
  <2> QED BY <1>2, <2>1, <2>2, OthersStay
<1>3. ASSUME NEW c \in Clients, Runs(c) PROVE GitTypeOK'
  <2>1. PICK o \in Seen(repo, Current(c)) :
          /\ repo' = o.store /\ adrift' = adrift \union o.left
          /\ call' = [call EXCEPT ![c].at = "answered", ![c].answer = o.answer,
                                  ![c].before = repo, ![c].after = o.store]
    BY <1>3 DEF Runs
  <2>2. /\ IsRequest(call[c].request) /\ call[c].n \in 1..Len(Script(call[c].request))
        /\ ~ RefusesCall(call[c].request)
        /\ call[c] = [at |-> "made", request |-> call[c].request, n |-> call[c].n,
                      answer |-> call[c].answer, before |-> call[c].before, after |-> call[c].after]
    BY <1>3 DEF Runs, InScript, NoCall
  <2>3. o.store \in Repositories /\ \A left \in o.left : IsCommand(left)
    <3>1. IsCommand(Current(c))
      BY <2>2, ScriptCommands DEF Current
    <3> QED BY <3>1, SeenStays
  <2> DEFINE k == [at |-> "answered", request |-> call[c].request, n |-> call[c].n,
                   answer |-> o.answer, before |-> repo, after |-> o.store]
  <2>4. call' = [call EXCEPT ![c] = k]
    <3> DEFINE j == [call[c] EXCEPT !.at = "answered", !.answer = o.answer,
                                    !.before = repo, !.after = o.store]
    <3>1. call' = [call EXCEPT ![c] = j]
      BY <2>1
    <3>2. j \in [at : {"answered"}, request : {call[c].request}, n : {call[c].n},
                 answer : {o.answer}, before : {repo}, after : {o.store}]
      BY <2>2
    <3> HIDE DEF j
    <3>3. j = k
      BY <3>2
    <3> QED BY <3>1, <3>3
  <2> HIDE DEF k
  <2>5. call'[c] = k
    BY <2>4, OthersStay
  <2>6. HasRun(c)'
    <3>1. Current(c)' = Current(c)
      BY <2>5 DEF Current, k
    <3> QED BY <2>2, <2>3, <2>5, <3>1 DEF HasRun, k
  <2>7. InScript(c)'
    BY <2>2, <2>5, <2>6 DEF InScript, k
  <2> QED BY <1>3, <2>1, <2>3, <2>4, <2>7, OthersStay DEF Runs
<1>4. ASSUME NEW c \in Clients, Proceeds(c) PROVE GitTypeOK'
  <2>1. CASE Says(c) # More
    BY <1>2, <1>4, <2>1 DEF Proceeds
  <2>2. CASE Says(c) = More
    <3> DEFINE k == [NoCall EXCEPT !.at = "made", !.n = call[c].n + 1, !.request = call[c].request]
    <3>1. call' = [call EXCEPT ![c] = k]
      BY <1>4, <2>2 DEF Proceeds
    <3>2. IsRequest(call[c].request) /\ call[c].n \in 1..Len(Script(call[c].request))
      BY <1>4 DEF Proceeds, InScript, NoCall
    <3>3. call[c].n # Len(Script(call[c].request))
      BY <2>2, NotMore DEF Says, Outcome
    <3>4. call[c].n + 1 \in 1..Len(Script(call[c].request))
      BY <3>2, <3>3, Scripts
    <3>5. k = [at |-> "made", request |-> call[c].request, n |-> call[c].n + 1, answer |-> NoAnswer,
               before |-> NoRepository, after |-> NoRepository]
      BY NewCall
    <3> HIDE DEF k
    <3>6. InScript(c)'
      <4>1. call'[c] = k
        BY <3>1, OthersStay
      <4> QED BY <3>2, <3>4, <3>5, <4>1 DEF InScript
    <3> QED BY <1>4, <3>1, <3>6, OthersStay DEF Proceeds
  <2> QED BY <2>1, <2>2
<1>5. ASSUME NEW c \in Clients, Fails(c) PROVE GitTypeOK'
  <2>1. IsCommand(Current(c))
    BY <1>5, ScriptCommands DEF Fails, InScript, NoCall, Current
  <2>2. \A cmd \in adrift' : IsCommand(cmd)
    BY <1>5, <2>1 DEF Fails
  <2> QED BY <1>2, <1>5, <2>2 DEF Fails
<1>6. CASE RunsAdrift
  <2>1. PICK cmd \in adrift : /\ \E o \in RunCommand(repo, cmd) : repo' = o.store
                             /\ adrift' = adrift \ {cmd} /\ UNCHANGED <<call, calls>>
    BY <1>6 DEF RunsAdrift
  <2>2. repo' \in Repositories
    BY <2>1, CommandStays
  <2> QED BY <2>1, <2>2 DEF InScript, HasRun, Current
<1>7. CASE Drifts
  <2>1. repo' \in Repositories
    BY <1>7 DEF Drifts, Orderly
  <2> QED BY <1>7, <2>1 DEF Drifts, InScript, HasRun, Current
<1>8. CASE UNCHANGED gitVars
  BY <1>8 DEF gitVars, InScript, HasRun, Current
<1>9. ASSUME NEW c \in Clients, Refused(c) PROVE GitTypeOK'
  BY <1>2, <1>9 DEF Refused
<1> QED BY <1>1, <1>3, <1>4, <1>5, <1>6, <1>7, <1>8, <1>9 DEF GitNext

\* What a call that has ended knows: the repository its last command ran on, and what
\* that command gave.
LEMMA EndedKnows ==
  ASSUME GitTypeOK, NEW c \in Clients, Ended(c)
  PROVE  LET r == call[c].request
         IN  /\ IsRequest(r) /\ ~ RefusesCall(r) /\ call[c].before \in Repositories
             /\ call[c].n \in 1..Len(Script(r))
             /\ \E o \in Seen(call[c].before, Script(r)[call[c].n]) :
                  o.store = call[c].after /\ o.answer = call[c].answer
BY DEF GitTypeOK, InScript, HasRun, Ended, NoCall, Current

\* In a well-formed state, what ended calls say is true: the facts above, applied.
LEMMA AnswersHold == GitTypeOK => AnswersAreTrue
<1> SUFFICES ASSUME GitTypeOK, NEW c \in Clients, Ended(c), Says(c)[1] = "ok"
             PROVE  Fits(call[c].request, call[c].answer, call[c].before, call[c].after, Says(c)[2])
  BY DEF AnswersAreTrue
<1> DEFINE r == call[c].request
<1>1. /\ IsRequest(r) /\ ~ RefusesCall(r) /\ call[c].before \in Repositories
      /\ \E o \in Seen(call[c].before, Script(r)[call[c].n]) :
           o.store = call[c].after /\ o.answer = call[c].answer
  BY EndedKnows
<1>2. call[c].n = Len(Script(r)) /\ Says(c) = Result(r, call[c].answer)
  BY DEF Says, Outcome, Err, More, Ended
<1>3. PICK o \in Seen(call[c].before, Script(r)[Len(Script(r))]) :
           o.store = call[c].after /\ o.answer = call[c].answer
  BY <1>1, <1>2
<1>4. Fits(r, o.answer, call[c].before, o.store, Result(r, o.answer)[2])
  <2> HIDE DEF r
  <2> QED BY <1>1, <1>2, <1>3, AnswerFits
<1> QED BY <1>2, <1>3, <1>4

LEMMA ErrorsHold == GitTypeOK => ErrorsAreTrue
<1> SUFFICES ASSUME GitTypeOK, NEW c \in Clients, Ended(c), call[c].request.op \in {"push", "pull"}
             PROVE  LET r == call[c].request
                        s == call[c].before
                        s2 == call[c].after
                        b == IF r.arg.branch = "none" THEN s.head[2] ELSE r.arg.branch
                    IN  /\ Says(c)[1] = "err" => [s2 EXCEPT !.fetched = s.fetched] = s
                        /\ Says(c) = Err("GitUpstream") =>
                             \/ call[c].answer.says \in {"failed", "cut"}
                             \/ ~ Tracks(s) \/ s.fetched[s.head[2]] = << >>
                        /\ Says(c) = Ok(Done) =>
                             Within(s2.theirs[b], IF r.op = "push" THEN s2.tips[b] ELSE HistoryOf(s2))
  BY DEF ErrorsAreTrue
<1> DEFINE r == call[c].request
           s == call[c].before
           s2 == call[c].after
           a == call[c].answer
           b == IF r.arg.branch = "none" THEN s.head[2] ELSE r.arg.branch
<1>1. /\ IsRequest(r) /\ ~ RefusesCall(r) /\ s \in Repositories /\ call[c].n \in 1..Len(Script(r))
      /\ \E o \in Seen(s, Script(r)[call[c].n]) : o.store = s2 /\ o.answer = a
  BY EndedKnows
<1>2. CASE call[c].n = Len(Script(r))
  <2>1. Says(c) = Mapped(a)
    BY <1>2 DEF Says, Outcome, Result, OrTrue
  <2>2. Script(r)[call[c].n] = r
    BY <1>1, <1>2, Scripts
  <2>3. IsCommand(r)
    BY <1>1, <2>2, ScriptCommands
  <2>4. /\ Says(c)[1] = "err" => a.exit # 0
        /\ Says(c) = Err("GitUpstream") => a.says = "upstream"
        /\ Says(c) = Ok(Done) => a.exit = 0 /\ a.says # "cut"
    BY <2>1, MappedMeans
  <2>5. PICK o \in Seen(s, r) : o.store = s2 /\ o.answer = a
    BY <1>1, <2>2
  <2>6. CASE a.exit = 0 /\ a.says = "cut"
    <3>1. Says(c) # Err("GitUpstream") /\ Says(c)[1] # "err" /\ Says(c) # Ok(Done)
      BY <2>4, <2>6
    <3> QED BY <3>1
  <2>7. CASE \E q \in RunCommand(s, r) : o.store = q.store /\ o.answer = q.answer
    <3>1. PICK q \in RunCommand(s, r) : q.store = s2 /\ q.answer = a
      BY <2>5, <2>7
    <3> HIDE DEF s2, a, s
    <3>2. /\ a.exit # 0 => [s2 EXCEPT !.fetched = s.fetched] = s
          /\ a.says = "upstream" => ~ Tracks(s)
          /\ a.exit = 0 => Within(s2.theirs[b], IF r.op = "push" THEN s2.tips[b] ELSE HistoryOf(s2))
      BY <1>1, <2>3, <3>1, PushAndPull
    <3> QED BY <2>4, <3>2 DEF s, s2, a
  <2>8. \/ a.exit = 0 /\ a.says = "cut"
        \/ \E q \in RunCommand(s, r) : o.store = q.store /\ o.answer = q.answer
    <3> HIDE DEF s, s2, a, r
    <3> QED BY <2>5, SeenCases
  <2> QED BY <2>6, <2>7, <2>8
<1>3. CASE call[c].n # Len(Script(r))
  <2>1. call[c].n = 1 /\ Len(Script(r)) = 2 /\ Script(r)[1] = Ask("upstream", "none")
    BY <1>1, <1>3, Scripts
  <2>2. Says(c) = Err("GitUpstream") /\ (a.exit # 0 \/ a.out = Nothing)
    BY <1>3 DEF Says, Outcome, Ended
  <2>3. PICK o \in Seen(s, Ask("upstream", "none")) : o.store = s2 /\ o.answer = a
    BY <1>1, <2>1
  <2> HIDE DEF s2, a, s
  <2>4. /\ [s2 EXCEPT !.fetched = s.fetched] = s
        /\ a.says \in {"failed", "cut"} \/ ~ Tracks(s) \/ s.fetched[s.head[2]] = << >>
    BY <1>1, <2>2, <2>3, UpstreamAnswers
  <2>5. Says(c) # Ok(Done)
    BY <2>2 DEF Err, Ok
  <2> QED BY <2>4, <2>5 DEF s, s2, a
<1> QED BY <1>2, <1>3

\* Whatever repository it is asked of, with however many files, branches, contents and
\* commits, whatever others do to it between the commands of a call, and whichever streams
\* are cut: what the output of a last command that came to its end is made into (Result,
\* util.rs) is so, and a result without an error of restore and remote_add is a success.
THEOREM TrueGitAnswers == ASSUME Orderly PROVE GitSpec => []AnswersAreTrue
<1>1. [](GitTypeOK) => []AnswersAreTrue
  BY AnswersHold, PTL
<1> QED BY <1>1, GitTypeInit, GitTypeStep, PTL DEF GitSpec

\* Where the calls stand, and that errors of push and pull (mod.rs:645-667, 735-757) mean
\* what they say, and so does a result with exit code 0 and no error; the cut command's
\* result, which has exit code 0 too, is no such result.
THEOREM TrueGitErrors == ASSUME Orderly PROVE GitSpec => []GitInv
<1>1. [](GitTypeOK) => []GitInv
  BY ErrorsHold, PTL DEF GitInv
<1> QED BY <1>1, GitTypeInit, GitTypeStep, PTL DEF GitSpec

===============================================================================
