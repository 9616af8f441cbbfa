--------------------------- MODULE S3ClientProofs ---------------------------
(***************************************************************************)
(* What holds for any clients, keys, workloads and retries: put()          *)
(* implements AtomicPuts, and a condition that cannot come true again has  *)
(* one winner; head() and read_range() answer one version of the object,   *)
(* and list() all that was there throughout.                               *)
(***************************************************************************)
EXTENDS S3Client, FiniteSetTheorems, TLAPS

Answers == {"none", "ok", "refused", "fail"}
Conditions == Versions \cup {Absent, Any}

(* The types of what the proofs speak of.                                  *)
PutTypes ==
    /\ work \in Workloads
    /\ call \in [Clients -> CallTypes]
    /\ status \in [Clients -> {"idle", "busy", "ok"}]
    /\ bucket \in [Keys -> Versions \cup {Absent}]
    /\ late \in [Puts -> Nat] /\ deletes \in Nat
    /\ puts \in Seq([key : Keys, cond : Conditions])
    /\ answers \in Seq(Answers)
    /\ Len(answers) = Len(puts) /\ Len(puts) <= MaxPuts
    /\ written \subseteq DOMAIN puts

(* A put at work is one client's, and nobody has been told how it ended;   *)
(* only puts there have been are on their way.                             *)
AtWork ==
    /\ \A c \in Clients : Busy(c, "put") =>
           call[c].put \in DOMAIN puts /\ answers[call[c].put] = "none"
    /\ \A c, d \in Clients :
           Busy(c, "put") /\ Busy(d, "put") /\ call[c].put = call[d].put => c = d
    /\ \A p \in Puts : late[p] > 0 => p \in DOMAIN puts

(* A put is on condition of an earlier version.                            *)
Earlier == \A p \in DOMAIN puts : puts[p].cond < p

(* What is in the bucket has been written, or was there at first.          *)
BucketWritten == \A k \in Keys : bucket[k] \in written \cup {0, Absent}

(* A version that a put has replaced, and that cannot come back, is gone;  *)
(* it had been written.                                                    *)
Gone ==
    \A q \in written :
        ~MayComeBack(puts[q].key, puts[q].cond) =>
            /\ bucket[puts[q].key] # puts[q].cond
            /\ puts[q].cond \in Puts => puts[q].cond \in written

(* So no two puts replace it.                                              *)
OneReplaces ==
    \A p, q \in written :
        p # q /\ puts[p] = puts[q] => MayComeBack(puts[p].key, puts[p].cond)

ToldOk == \A p \in DOMAIN puts : answers[p] = "ok" => p \in written

IInv ==
    /\ PutTypes /\ AtWork
    /\ Earlier /\ BucketWritten /\ Gone /\ OneReplaces /\ ToldOk

LEMMA WorkFits == ASSUME work \in Workloads PROVE work.puts \in 0 .. MaxPuts
  BY WorkloadsAssumption

LEMMA InitInvariant == Init => IInv
  <1> SUFFICES ASSUME Init PROVE IInv
    OBVIOUS
  <1>1. PutTypes
    <2>1. bucket \in [Keys -> Versions \cup {Absent}]
      BY ClientBounds DEF Init, Versions
    <2>2. call \in [Clients -> CallTypes] /\ status \in [Clients -> {"idle", "busy", "ok"}]
      BY DEF Init, CallTypes
    <2>3. puts = <<>> /\ answers = <<>> /\ written = {} /\ deletes = 0 /\ work \in Workloads
      BY DEF Init
    <2>4. late \in [Puts -> Nat]
      BY DEF Init
    <2> QED BY <2>1, <2>2, <2>3, <2>4, ClientBounds DEF PutTypes
  <1>2. AtWork
    BY DEF Init, AtWork, Busy
  <1>3. BucketWritten
    BY DEF Init, BucketWritten
  <1> QED BY <1>1, <1>2, <1>3 DEF Init, IInv, Earlier, Gone, OneReplaces, ToldOk

-----------------------------------------------------------------------------
(* What a step does to the promise, with what the deletions count.         *)
WritesOrNot(p) == Promise!Effect(p) \/ UNCHANGED <<bucket, written>>

Outcome ==
    \/ UNCHANGED <<bucket, puts, written, answers, deletes>>
    \/ Promise!Issue /\ UNCHANGED deletes
    \/ \E p \in DOMAIN puts :
           /\ UNCHANGED deletes
           /\ Promise!Write(p) \/ Promise!Succeed(p) \/ Promise!Refuse(p) \/ Promise!Fail(p)
    \/ \E k \in Keys : Promise!Delete(k) /\ deletes' = deletes + 1

(* The calls have their types, and no put has begun.                       *)
NoPutBegins ==
    /\ call' \in [Clients -> CallTypes]
    /\ status' \in [Clients -> {"idle", "busy", "ok"}]
    /\ work' = work
    /\ \A d \in Clients :
           Busy(d, "put")' => Busy(d, "put") /\ call'[d].put = call[d].put

LEMMA EffectWrites ==
  ASSUME PutTypes, NEW p \in DOMAIN puts, PutEffect(p)
  PROVE  /\ WritesOrNot(p) /\ deletes' = deletes
         /\ late' \in [Puts -> Nat]
         /\ \A q \in Puts : late'[q] > 0 => late[q] > 0 \/ q = p
  <1>1. p \in Puts
    BY ClientBounds DEF PutTypes, Puts
  <1>2. CASE UNCHANGED <<server, written, seen>>
    BY <1>2 DEF PutTypes, server, WritesOrNot
  <1>3. CASE Holds(p) /\ Take(p)
    BY <1>3 DEF PutTypes, Take, Become, Holds, Promise!Effect, Promise!Holds, WritesOrNot
  <1>4. CASE /\ late' = [late EXCEPT ![p] = @ + 1]
             /\ UNCHANGED <<bucket, deletes, written, seen>>
    BY <1>1, <1>4 DEF PutTypes, WritesOrNot
  <1> QED BY <1>2, <1>3, <1>4 DEF PutEffect

LEMMA WritesFit ==
  ASSUME PutTypes, NEW p \in DOMAIN puts, WritesOrNot(p)
  PROVE  /\ bucket' \in [Keys -> Versions \cup {Absent}]
         /\ written' \subseteq DOMAIN puts
  <1>1. p \in Versions
    BY ClientBounds DEF PutTypes, Versions
  <1> QED BY <1>1 DEF PutTypes, WritesOrNot, Promise!Effect

LEMMA LeaveFits ==
  ASSUME PutTypes, NEW c \in Clients, Leave(c)
  PROVE  NoPutBegins /\ ~Busy(c, "put")'
  <1>1. NoCall \in CallTypes
    BY DEF CallTypes
  <1> QED BY <1>1 DEF PutTypes, Leave, NoPutBegins, Busy

LEMMA ReturnFits ==
  ASSUME PutTypes, NEW c \in Clients, Return(c)
  PROVE  NoPutBegins
  BY DEF PutTypes, Return, NoPutBegins, Busy

LEMMA StayFits ==
  ASSUME PutTypes, UNCHANGED <<work, call, status>>
  PROVE  NoPutBegins
  BY DEF PutTypes, NoPutBegins, Busy

(* A step that leaves the puts, the answers and the server alone.          *)
LEMMA QuietStep ==
  ASSUME PutTypes, AtWork, NoPutBegins,
         UNCHANGED <<bucket, puts, written, answers, deletes, late>>
  PROVE  PutTypes' /\ AtWork' /\ Outcome
  <1>1. PutTypes'
    BY DEF PutTypes, NoPutBegins
  <1>2. AtWork'
    BY DEF AtWork, NoPutBegins, Busy
  <1> QED BY <1>1, <1>2 DEF Outcome

(* A step that may write, and tells nobody.                                *)
LEMMA WriteStep ==
  ASSUME PutTypes, AtWork, NoPutBegins, NEW p \in DOMAIN puts, WritesOrNot(p),
         UNCHANGED <<puts, answers, deletes>>,
         late' \in [Puts -> Nat],
         \A q \in Puts : late'[q] > 0 => late[q] > 0 \/ q = p
  PROVE  PutTypes' /\ AtWork' /\ Outcome
  <1>1. PutTypes'
    BY WritesFit DEF PutTypes, NoPutBegins
  <1>2. AtWork'
    BY DEF AtWork, NoPutBegins, Busy
  <1>3. Outcome
    BY DEF Outcome, WritesOrNot, Promise!Write
  <1> QED BY <1>1, <1>2, <1>3

(* A step that tells the caller of a put how it ended.                     *)
LEMMA TellStep ==
  ASSUME PutTypes, AtWork, NEW c \in Clients, Busy(c, "put"), NEW s \in Answers,
         TellPut(c, s), WritesOrNot(call[c].put), deletes' = deletes,
         late' \in [Puts -> Nat],
         \A q \in Puts : late'[q] > 0 => late[q] > 0 \/ q = call[c].put
  PROVE  /\ PutTypes' /\ AtWork'
         /\ call[c].put \in DOMAIN puts
         /\ Promise!Tell(call[c].put, s)
  <1>1. NoPutBegins /\ ~Busy(c, "put")'
    BY LeaveFits DEF TellPut
  <1>2. call[c].put \in DOMAIN puts /\ answers[call[c].put] = "none"
    BY DEF AtWork
  <1>3. Promise!Tell(call[c].put, s)
    BY <1>2 DEF TellPut, Promise!Tell
  <1>4. answers' \in Seq(Answers) /\ Len(answers') = Len(answers)
    BY <1>2 DEF TellPut, PutTypes
  <1>5. PutTypes'
    BY <1>1, <1>2, <1>4, WritesFit DEF PutTypes, NoPutBegins, TellPut
  <1>6. AtWork'
    <2>1. ASSUME NEW d \in Clients, Busy(d, "put")'
          PROVE  /\ call'[d].put \in DOMAIN puts'
                 /\ answers'[call'[d].put] = "none"
      <3>1. d # c /\ Busy(d, "put") /\ call'[d].put = call[d].put
        BY <1>1, <2>1 DEF NoPutBegins
      <3>2. call[d].put # call[c].put /\ call[d].put \in DOMAIN puts
              /\ answers[call[d].put] = "none"
        BY <3>1 DEF AtWork
      <3> QED BY <3>1, <3>2, <1>2 DEF TellPut, PutTypes
    <2>2. \A p \in Puts : late'[p] > 0 => p \in DOMAIN puts'
      BY <1>2 DEF AtWork, TellPut
    <2>3. \A d, e \in Clients :
            Busy(d, "put")' /\ Busy(e, "put")' /\ call'[d].put = call'[e].put => d = e
      BY <1>1 DEF AtWork, NoPutBegins
    <2> QED BY <2>1, <2>2, <2>3 DEF AtWork, Busy
  <1> QED BY <1>2, <1>3, <1>5, <1>6

-----------------------------------------------------------------------------
(* A new put: its condition is a version there has been.                   *)
LEMMA PutBeginStep ==
  ASSUME PutTypes, AtWork, NEW c \in Clients, PutBegin(c)
  PROVE  PutTypes' /\ AtWork' /\ Outcome
  <1> DEFINE n == Len(puts) + 1
  <1>1. PICK k \in work.on, v \in {Any, Absent, 0} \cup DOMAIN puts :
           /\ puts' = Append(puts, [key |-> k, cond |-> v])
           /\ answers' = Append(answers, "none")
           /\ Begin(c, [op |-> "put", put |-> n], {})
    BY DEF PutBegin
  <1>2. k \in Keys /\ n \in Puts
    <2>1. work.on \subseteq Keys
      BY WorkloadsAssumption DEF PutTypes
    <2>2. Len(puts) < work.puts /\ work.puts \in 0 .. MaxPuts
      BY WorkFits DEF PutTypes, PutBegin
    <2>3. Len(puts) \in Nat
      BY DEF PutTypes
    <2> QED BY <2>1, <2>2, <2>3, ClientBounds DEF Puts
  <1>3. v \in {Any, Absent} \cup 0 .. Len(puts)
    BY <1>1 DEF PutTypes
  <1>4. v \in Conditions
    BY <1>3, ClientBounds DEF PutTypes, Conditions, Versions
  <1>5. /\ DOMAIN puts' = DOMAIN puts \cup {n}
        /\ DOMAIN answers = DOMAIN puts
        /\ answers'[n] = "none" /\ \A p \in DOMAIN puts : answers'[p] = answers[p]
        /\ n \notin DOMAIN puts
    BY <1>1 DEF PutTypes
  <1>6. UNCHANGED <<bucket, written, deletes, late, work>>
    BY <1>1 DEF Begin, server
  <1>7. [op |-> "put", put |-> n] \in CallTypes
    BY <1>2 DEF CallTypes
  <1>8. PutTypes'
    <2>1. call' \in [Clients -> CallTypes] /\ status' \in [Clients -> {"idle", "busy", "ok"}]
      BY <1>1, <1>7 DEF PutTypes, Begin
    <2>2. puts' \in Seq([key : Keys, cond : Conditions]) /\ answers' \in Seq(Answers)
      BY <1>1, <1>2, <1>4 DEF PutTypes, Answers
    <2>3. Len(answers') = Len(puts') /\ Len(puts') <= MaxPuts
      BY <1>1, <1>2, ClientBounds DEF PutTypes, Puts
    <2> QED BY <1>5, <1>6, <2>1, <2>2, <2>3 DEF PutTypes
  <1>9. AtWork'
    <2>1. \A d \in Clients : Busy(d, "put")' =>
             IF d = c THEN call'[d].put = n
             ELSE Busy(d, "put") /\ call'[d] = call[d]
      BY <1>1 DEF PutTypes, Begin, Busy
    <2> QED BY <1>5, <1>6, <2>1 DEF AtWork
  <1>10. Promise!Issue
    BY <1>1, <1>2, <1>3, <1>6 DEF Promise!Issue
  <1> QED BY <1>6, <1>8, <1>9, <1>10 DEF Outcome

LEMMA AskBeginStep ==
  ASSUME PutTypes, AtWork, NEW c \in Clients, HeadBegin(c) \/ ReadBegin(c) \/ ListBegin(c)
  PROVE  PutTypes' /\ AtWork' /\ Outcome
  <1>1. UNCHANGED <<puts, answers>>
    BY DEF HeadBegin, ReadBegin, ListBegin
  <1>2. work.on \subseteq Keys
    BY WorkloadsAssumption DEF PutTypes
  <1>3. \E r \in CallTypes, ks \in SUBSET Keys : r.op # "put" /\ Begin(c, r, ks)
    <2>1. CASE HeadBegin(c)
      <3>1. PICK k \in work.on : Begin(c, [op |-> "head", key |-> k], {k})
        BY <2>1 DEF HeadBegin
      <3>2. [op |-> "head", key |-> k] \in CallTypes
        BY <1>2 DEF CallTypes
      <3> QED BY <1>2, <3>1, <3>2
    <2>2. CASE ReadBegin(c)
      <3>1. PICK k \in work.on, r \in Ranges :
               Begin(c, [op |-> "read", key |-> k, offset |-> r.offset, n |-> r.n], {k})
        BY <2>2 DEF ReadBegin
      <3>2. [op |-> "read", key |-> k, offset |-> r.offset, n |-> r.n] \in CallTypes
        BY <1>2, RangesAssumption DEF CallTypes
      <3> QED BY <1>2, <3>1, <3>2
    <2>3. CASE ListBegin(c)
      <3>1. [op |-> "list"] \in CallTypes
        BY DEF CallTypes
      <3> QED BY <2>3, <3>1 DEF ListBegin
    <2> QED BY <2>1, <2>2, <2>3
  <1>4. PICK r \in CallTypes, ks \in SUBSET Keys : r.op # "put" /\ Begin(c, r, ks)
    BY <1>3
  <1>5. NoPutBegins /\ UNCHANGED <<bucket, written, deletes, late>>
    BY <1>4 DEF PutTypes, Begin, NoPutBegins, Busy, server
  <1> QED BY <1>1, <1>5, QuietStep

LEMMA PutStep ==
  ASSUME PutTypes, AtWork, NEW c \in Clients,
         PutOk(c) \/ PutRefused(c) \/ PutRetry(c) \/ PutFail(c)
  PROVE  PutTypes' /\ AtWork' /\ Outcome
  <1>1. PICK p : p = call[c].put
    OBVIOUS
  <1>2. Busy(c, "put") /\ p \in DOMAIN puts
    BY <1>1 DEF PutOk, PutRefused, PutRetry, PutFail, AtWork
  <1>3. CASE PutOk(c)
    <2>1. Holds(p) /\ Take(p) /\ TellPut(c, "ok")
      BY <1>1, <1>3 DEF PutOk
    <2>2. Promise!Effect(p) /\ UNCHANGED <<late, deletes>>
      BY <2>1 DEF Take, Become, Holds, Promise!Effect, Promise!Holds
    <2>3. WritesOrNot(p) /\ late' \in [Puts -> Nat]
      BY <2>2 DEF WritesOrNot, PutTypes
    <2>4. PutTypes' /\ AtWork' /\ Promise!Tell(p, "ok")
      BY <1>1, <1>2, <2>1, <2>2, <2>3, TellStep DEF Answers
    <2>5. Promise!Succeed(p)
      BY <2>2, <2>4 DEF Promise!Succeed
    <2> QED BY <1>2, <2>2, <2>4, <2>5 DEF Outcome
  <1>4. CASE PutRefused(c)
    <2>1. ~Promise!Holds(p) /\ TellPut(c, "refused") /\ UNCHANGED <<late, deletes, bucket, written>>
      BY <1>1, <1>4 DEF PutRefused, server, Holds, Promise!Holds
    <2>2. WritesOrNot(p) /\ late' \in [Puts -> Nat]
      BY <2>1 DEF WritesOrNot, PutTypes
    <2>3. PutTypes' /\ AtWork' /\ Promise!Tell(p, "refused")
      BY <1>1, <1>2, <2>1, <2>2, TellStep DEF Answers
    <2>4. Promise!Refuse(p)
      BY <2>1, <2>3 DEF Promise!Refuse
    <2> QED BY <1>2, <2>1, <2>3, <2>4 DEF Outcome
  <1>5. CASE PutRetry(c)
    <2>1. NoPutBegins /\ UNCHANGED <<puts, answers>> /\ PutEffect(p)
      BY <1>1, <1>5, StayFits DEF PutRetry, TryAgain
    <2> QED BY <1>2, <2>1, EffectWrites, WriteStep
  <1>6. CASE PutFail(c)
    <2>1. TellPut(c, "fail") /\ PutEffect(p)
      BY <1>1, <1>6 DEF PutFail
    <2>2. /\ WritesOrNot(p) /\ deletes' = deletes /\ late' \in [Puts -> Nat]
          /\ \A q \in Puts : late'[q] > 0 => late[q] > 0 \/ q = p
      BY <1>2, <2>1, EffectWrites
    <2>3. PutTypes' /\ AtWork' /\ Promise!Tell(p, "fail")
      BY <1>1, <1>2, <2>1, <2>2, TellStep DEF Answers
    <2>4. Promise!Fail(p)
      BY <2>2, <2>3 DEF Promise!Fail, WritesOrNot
    <2> QED BY <1>2, <2>2, <2>3, <2>4 DEF Outcome
  <1> QED BY <1>3, <1>4, <1>5, <1>6

(* The answers and the retries of the other calls.                         *)
LEMMA AskStep ==
  ASSUME PutTypes, AtWork, NEW c \in Clients,
         \/ HeadOk(c) \/ ReadNothing(c) \/ ReadOk(c) \/ ReadRetry(c)
         \/ ListPage(c) \/ ListStuck(c) \/ ListOk(c) \/ AskAgain(c) \/ AskFail(c)
  PROVE  PutTypes' /\ AtWork' /\ Outcome
  <1>1. UNCHANGED <<bucket, puts, written, answers, deletes, late>>
    BY DEF HeadOk, ReadNothing, ReadOk, ReadRetry, ListPage, ListStuck, ListOk,
           AskAgain, AskFail, server, history
  <1>2. \/ Return(c) \/ Leave(c) \/ UNCHANGED <<work, call, status>>
    BY DEF HeadOk, ReadNothing, ReadOk, ReadRetry, ListPage, ListStuck, ListOk,
           AskAgain, AskFail, TryAgain
  <1>3. NoPutBegins
    BY <1>2, ReturnFits, LeaveFits, StayFits
  <1> QED BY <1>1, <1>3, QuietStep

LEMMA ArrivesStep ==
  ASSUME PutTypes, AtWork, NEW p \in Puts, PutArrives(p)
  PROVE  PutTypes' /\ AtWork' /\ Outcome
  <1>1. p \in DOMAIN puts
    BY DEF PutArrives, AtWork
  <1>2. NoPutBegins
    BY StayFits DEF PutArrives, client
  <1>3. WritesOrNot(p)
    BY DEF PutArrives, Become, Holds, WritesOrNot, Promise!Effect, Promise!Holds
  <1>4. late' \in [Puts -> Nat] /\ \A q \in Puts : late'[q] > 0 => late[q] > 0
    BY DEF PutArrives, PutTypes
  <1>5. UNCHANGED <<puts, answers, deletes>>
    BY DEF PutArrives
  <1> QED BY <1>1, <1>2, <1>3, <1>4, <1>5, WriteStep

LEMMA DeleteStep ==
  ASSUME PutTypes, AtWork, NEW k \in work.on, Delete(k)
  PROVE  PutTypes' /\ AtWork' /\ Outcome
  <1>1. k \in Keys
    BY WorkloadsAssumption DEF PutTypes
  <1>2. NoPutBegins /\ UNCHANGED <<late, puts, written, answers>>
    BY StayFits DEF Delete, client
  <1>3. /\ bucket' = [bucket EXCEPT ![k] = Absent]
        /\ deletes' = deletes + 1
    BY DEF Delete, Become
  <1>4. PutTypes'
    BY <1>1, <1>2, <1>3 DEF PutTypes, NoPutBegins
  <1>5. AtWork'
    BY <1>2 DEF AtWork, NoPutBegins, Busy
  <1>6. Promise!Delete(k)
    BY <1>2, <1>3 DEF Promise!Delete
  <1> QED BY <1>1, <1>3, <1>4, <1>5, <1>6 DEF Outcome

LEMMA AnyStep ==
  ASSUME PutTypes, AtWork, [Next]_vars
  PROVE  PutTypes' /\ AtWork' /\ Outcome
  <1>1. CASE UNCHANGED vars
    <2>1. NoPutBegins /\ UNCHANGED <<bucket, puts, written, answers, deletes, late>>
      BY <1>1, StayFits DEF vars, client, server, history
    <2> QED BY <2>1, QuietStep
  <1>2. ASSUME NEW c \in Clients, CallBegin(c) \/ CallStep(c)
        PROVE  PutTypes' /\ AtWork' /\ Outcome
    BY <1>2, PutBeginStep, AskBeginStep, PutStep, AskStep DEF CallBegin, CallStep
  <1>3. ASSUME NEW p \in Puts, PutArrives(p)
        PROVE  PutTypes' /\ AtWork' /\ Outcome
    BY <1>3, ArrivesStep
  <1>4. ASSUME NEW k \in work.on, Delete(k)
        PROVE  PutTypes' /\ AtWork' /\ Outcome
    BY <1>4, DeleteStep
  <1> QED BY <1>1, <1>2, <1>3, <1>4 DEF Next

-----------------------------------------------------------------------------
(* The invariant's other parts, from the promise's steps alone.            *)
Parts == Earlier /\ BucketWritten /\ Gone /\ OneReplaces /\ ToldOk

LEMMA PutFits ==
  ASSUME PutTypes, NEW p \in DOMAIN puts
  PROVE  /\ p \in Puts
         /\ puts[p] \in [key : Keys, cond : Conditions]
         /\ puts[p].key \in Keys /\ puts[p].cond \in Conditions
         /\ puts[p] = [key |-> puts[p].key, cond |-> puts[p].cond]
  <1>1. p \in Puts
    BY ClientBounds DEF PutTypes, Puts
  <1> DEFINE Records == [key : Keys, cond : Conditions]
  <1>2. puts \in Seq(Records)
    BY DEF PutTypes
  <1> HIDE DEF Records
  <1>3. puts[p] \in Records
    BY <1>2
  <1> QED BY <1>1, <1>3 DEF Records

(* Nothing that may come back ceases to.                                   *)
LEMMA StillBack ==
  ASSUME PutTypes, NEW k, NEW v, MayComeBack(k, v),
         deletes' \in {deletes, deletes + 1},
         DOMAIN puts \subseteq DOMAIN puts',
         \A q \in DOMAIN puts : puts'[q] = puts[q]
  PROVE  MayComeBack(k, v)'
  BY DEF PutTypes, MayComeBack, Unconditional

LEMMA UntouchedParts ==
  ASSUME PutTypes, Parts, UNCHANGED <<bucket, written, puts, deletes>>, ToldOk'
  PROVE  Parts'
  BY DEF Parts, Earlier, BucketWritten, Gone, OneReplaces, MayComeBack, Unconditional

LEMMA IssueParts ==
  ASSUME PutTypes, Parts, Promise!Issue, UNCHANGED deletes
  PROVE  Parts'
  <1>1. PICK k \in Keys, v \in {Any, Absent} \cup 0 .. Len(puts) :
          puts' = Append(puts, [key |-> k, cond |-> v])
    BY DEF Promise!Issue
  <1>2. answers' = Append(answers, "none") /\ UNCHANGED <<bucket, written>>
    BY DEF Promise!Issue
  <1> DEFINE n == Len(puts) + 1
  <1>3. /\ DOMAIN puts' = DOMAIN puts \cup {n} /\ n \notin DOMAIN puts
        /\ \A q \in DOMAIN puts : puts'[q] = puts[q]
        /\ puts'[n].cond = v
        /\ answers'[n] = "none" /\ \A p \in DOMAIN puts : answers'[p] = answers[p]
    BY <1>1, <1>2 DEF PutTypes
  <1>4. v < n
    BY <1>1 DEF PutTypes, Any, Absent
  <1>5. Earlier'
    BY <1>3, <1>4 DEF Parts, Earlier
  <1>6. BucketWritten' /\ ToldOk'
    BY <1>2, <1>3 DEF Parts, BucketWritten, ToldOk
  <1>7. \A q \in written : q \in DOMAIN puts /\ puts'[q] = puts[q]
    BY <1>3 DEF PutTypes
  <1>8. ASSUME NEW q \in written, MayComeBack(puts[q].key, puts[q].cond)
        PROVE  MayComeBack(puts[q].key, puts[q].cond)'
    <2>1. PICK j, u : j = puts[q].key /\ u = puts[q].cond
      OBVIOUS
    <2>2. MayComeBack(j, u)'
      BY <1>3, <1>8, <2>1, StillBack
    <2> QED BY <1>7, <2>1, <2>2 DEF MayComeBack, Unconditional
  <1>9. Gone'
    BY <1>2, <1>7, <1>8 DEF Parts, Gone
  <1>10. OneReplaces'
    BY <1>2, <1>7, <1>8 DEF Parts, OneReplaces
  <1> QED BY <1>5, <1>6, <1>9, <1>10 DEF Parts

(* A put that takes effect replaces a version that no other has replaced,  *)
(* and the version it writes has not been replaced.                        *)
LEMMA EffectParts ==
  ASSUME PutTypes, Parts, NEW p \in DOMAIN puts, Promise!Effect(p),
         UNCHANGED <<puts, deletes>>, ToldOk'
  PROVE  Parts'
  <1> DEFINE k == puts[p].key
             v == puts[p].cond
  <1>1. k \in Keys /\ v \in Conditions /\ p \in Puts
    BY PutFits
  <1>2. v \in {Any, bucket[k]}
    BY DEF Promise!Effect, Promise!Holds
  <1>3. bucket' = [bucket EXCEPT ![k] = p] /\ written' = written \cup {p}
    BY DEF Promise!Effect
  <1>4. \A j, u : MayComeBack(j, u)' <=> MayComeBack(j, u)
    BY DEF MayComeBack, Unconditional
  <1>5. Earlier'
    BY DEF Parts, Earlier
  <1>6. BucketWritten'
    BY <1>1, <1>3 DEF PutTypes, Parts, BucketWritten
  <1>7. ASSUME NEW q \in written, puts[q].key = k, puts[q].cond = p
        PROVE  MayComeBack(k, p)
    <2>1. SUFFICES ASSUME ~MayComeBack(k, p) PROVE FALSE
      OBVIOUS
    <2>2. p \in written
      BY <1>1, <1>7, <2>1 DEF Parts, Gone
    <2>3. v # Any
      <3>1. SUFFICES ASSUME v = Any PROVE Unconditional(k)
        BY <1>1, <2>1 DEF MayComeBack
      <3>2. puts[p] = [key |-> k, cond |-> v]
        BY PutFits
      <3> QED BY <3>1, <3>2 DEF Unconditional
    <2>4. ~MayComeBack(k, v)
      BY <1>1, <2>1, <2>3, ClientBounds DEF MayComeBack, Puts
    <2> QED BY <1>2, <2>2, <2>3, <2>4 DEF Parts, Gone
  <1>8. Gone'
    <2>1. ASSUME NEW q \in written', ~MayComeBack(puts[q].key, puts[q].cond)
          PROVE  /\ bucket'[puts[q].key] # puts[q].cond
                 /\ puts[q].cond \in Puts => puts[q].cond \in written'
      <3>1. CASE q = p
        <4>1. v < p /\ p \in Nat
          BY <1>1, ClientBounds DEF Parts, Earlier, Puts
        <4>2. v # Any
          BY <2>1, <3>1 DEF MayComeBack
        <4>3. v \in Puts => v \in written
          BY <1>1, <1>2, <4>2, ClientBounds DEF Parts, BucketWritten, Puts, Absent
        <4>4. bucket'[k] = p
          BY <1>1, <1>3 DEF PutTypes
        <4>5. v # p
          BY <1>1, <4>1 DEF Conditions, Versions, Absent, Any
        <4> QED BY <1>3, <3>1, <4>3, <4>4, <4>5
      <3>2. CASE q # p
        <4>1. q \in written /\ q \in DOMAIN puts
          BY <1>3, <3>2 DEF PutTypes
        <4>2. puts[q].key \in Keys
          BY <4>1, PutFits
        <4>3. /\ bucket[puts[q].key] # puts[q].cond
              /\ puts[q].cond \in Puts => puts[q].cond \in written
          BY <2>1, <4>1 DEF Parts, Gone
        <4>4. puts[q].key = k => puts[q].cond # p
          BY <1>7, <2>1, <4>1
        <4> QED BY <1>1, <1>3, <4>2, <4>3, <4>4 DEF PutTypes
      <3> QED BY <3>1, <3>2
    <2> QED BY <1>4, <2>1 DEF Gone
  <1>9. OneReplaces'
    <2>1. ASSUME NEW q \in written, q # p, puts[q] = puts[p]
          PROVE  MayComeBack(k, v)
      BY <1>2, <2>1 DEF Parts, Gone, MayComeBack
    <2> QED BY <1>3, <1>4, <2>1 DEF Parts, OneReplaces
  <1> QED BY <1>5, <1>6, <1>8, <1>9 DEF Parts

LEMMA DeleteParts ==
  ASSUME PutTypes, Parts, NEW k \in Keys, Promise!Delete(k), deletes' = deletes + 1
  PROVE  Parts'
  <1>1. UNCHANGED <<puts, written, answers>> /\ bucket' = [bucket EXCEPT ![k] = Absent]
    BY DEF Promise!Delete
  <1>2. \A j, v : v # 0 => MayComeBack(j, v)'
    BY DEF MayComeBack, PutTypes
  <1>3. \A j, v : MayComeBack(j, v) => MayComeBack(j, v)'
    BY <1>1 DEF MayComeBack, Unconditional, PutTypes
  <1>4. Earlier' /\ ToldOk' /\ BucketWritten'
    BY <1>1 DEF PutTypes, Parts, Earlier, ToldOk, BucketWritten
  <1>5. OneReplaces'
    BY <1>1, <1>3 DEF Parts, OneReplaces
  <1>6. Gone'
    <2>1. ASSUME NEW q \in written, ~MayComeBack(puts[q].key, puts[q].cond)'
          PROVE  bucket'[puts[q].key] # puts[q].cond /\ puts[q].cond \notin Puts
      <3>1. PICK j, v : j = puts[q].key /\ v = puts[q].cond
        OBVIOUS
      <3>2. ~MayComeBack(j, v)'
        BY <1>1, <2>1, <3>1 DEF MayComeBack, Unconditional
      <3>3. v = 0 /\ j \in Keys
        BY <1>2, <3>1, <3>2, PutFits DEF PutTypes
      <3>4. bucket[j] # 0
        BY <1>3, <3>1, <3>2, <3>3 DEF Parts, Gone
      <3> QED BY <1>1, <3>1, <3>3, <3>4 DEF PutTypes, Puts, Absent
    <2> QED BY <1>1, <2>1 DEF Gone
  <1> QED BY <1>4, <1>5, <1>6 DEF Parts

LEMMA OutcomeParts ==
  ASSUME PutTypes, Parts, Outcome
  PROVE  Parts'
  <1>1. CASE UNCHANGED <<bucket, puts, written, answers, deletes>>
    BY <1>1, UntouchedParts DEF Parts, ToldOk
  <1>2. CASE Promise!Issue /\ UNCHANGED deletes
    BY <1>2, IssueParts
  <1>3. ASSUME NEW p \in DOMAIN puts, UNCHANGED deletes,
               Promise!Write(p) \/ Promise!Succeed(p) \/ Promise!Refuse(p) \/ Promise!Fail(p)
        PROVE  Parts'
    <2>1. UNCHANGED puts /\ (Promise!Effect(p) \/ UNCHANGED <<bucket, written>>)
      BY <1>3 DEF Promise!Write, Promise!Succeed, Promise!Refuse, Promise!Fail, Promise!Tell
    <2>2. written \subseteq written'
      BY <2>1 DEF Promise!Effect
    <2>3. ToldOk'
      <3>1. \A q \in DOMAIN puts : answers'[q] = "ok" => answers[q] = "ok" \/ q \in written'
        BY <1>3 DEF PutTypes, Promise!Write, Promise!Succeed, Promise!Refuse,
                    Promise!Fail, Promise!Tell, Promise!Effect
      <3> QED BY <2>1, <2>2, <3>1 DEF Parts, ToldOk
    <2> QED BY <1>3, <2>1, <2>3, EffectParts, UntouchedParts
  <1>4. ASSUME NEW k \in Keys, Promise!Delete(k), deletes' = deletes + 1
        PROVE  Parts'
    BY <1>4, DeleteParts
  <1> QED BY <1>1, <1>2, <1>3, <1>4 DEF Outcome

-----------------------------------------------------------------------------
LEMMA NextInvariant == IInv /\ [Next]_vars => IInv'
  <1> SUFFICES ASSUME IInv, [Next]_vars PROVE IInv'
    OBVIOUS
  <1>1. PutTypes' /\ AtWork' /\ Outcome
    BY AnyStep DEF IInv
  <1>2. Parts'
    BY <1>1, OutcomeParts DEF IInv, Parts
  <1> QED BY <1>1, <1>2 DEF IInv, Parts

LEMMA Invariant == Spec => []IInv
  BY InitInvariant, NextInvariant, PTL DEF Spec

(* put() is an atomic create or compare-and-swap, and tells its caller the *)
(* truth, for any number of clients, keys, puts, attempts and deletions:   *)
(* the specification of the client implements that of the puts.            *)
THEOREM PutImplementsAtomicPuts == Spec => PutsAreAtomic
  <1>1. Init => Promise!Init
    BY DEF Init, Promise!Init
  <1>2. IInv /\ [Next]_vars => [Promise!Next]_Promise!vars
    <2>1. SUFFICES ASSUME IInv, [Next]_vars PROVE [Promise!Next]_Promise!vars
      OBVIOUS
    <2>2. Outcome
      BY AnyStep, <2>1 DEF IInv
    <2> QED BY <2>2 DEF Outcome, Promise!Next, Promise!vars
  <1> QED BY <1>1, <1>2, Invariant, PTL DEF Spec, PutsAreAtomic, Promise!Spec

(* Of the puts on condition of one version, which cannot come back, one at *)
(* most is told that it succeeded.                                         *)
THEOREM OneWinner == Spec => []OnlyOneWins
  <1>1. IInv => OnlyOneWins
    BY DEF IInv, OneReplaces, ToldOk, OnlyOneWins
  <1> QED BY <1>1, Invariant, PTL
-----------------------------------------------------------------------------
(* A finite set of numbers has a least and a greatest one: those with the  *)
(* fewest below them, and above them.                                      *)
LEMMA Extremes ==
  ASSUME NEW S \in SUBSET Nat, IsFiniteSet(S), S # {}
  PROVE  /\ \E k \in S : \A j \in S : k <= j
         /\ \E k \in S : \A j \in S : j <= k
  <1> DEFINE Below(k) == {j \in S : j < k}
             Above(k) == {j \in S : j > k}
             R == StrictSubsetOrdering(S)
  <1>1. \A T \in SUBSET S : IsFiniteSet(T) /\ T \in FiniteSubsetsOf(S)
    BY FS_Subset DEF FiniteSubsetsOf
  <1>2. IsWellFoundedOn(R, FiniteSubsetsOf(S))
    BY FS_StrictSubsetOrderingWellFounded
  <1>3. \E k \in S : \A j \in S : k <= j
    <2> DEFINE T == {Below(k) : k \in S}
    <2>1. T \subseteq FiniteSubsetsOf(S) /\ T # {}
      BY <1>1
    <2>2. \E B \in T : \A A \in T : <<A, B>> \notin R
      <3> HIDE DEF T, R
      <3> QED BY <1>2, <2>1, WFMin
    <2>3. PICK k \in S : \A j \in S : <<Below(j), Below(k)>> \notin R
      BY <2>2
    <2>4. ASSUME NEW j \in S, j < k PROVE FALSE
      <3>1. \A i \in S : i < j => i < k
        BY <2>4
      <3>2. Below(j) \subseteq Below(k)
        BY <3>1
      <3>3. j \in Below(k) /\ j \notin Below(j)
        BY <2>4
      <3> QED BY <2>3, <3>2, <3>3 DEF StrictSubsetOrdering
    <2> QED BY <2>4
  <1>4. \E k \in S : \A j \in S : j <= k
    <2> DEFINE T == {Above(k) : k \in S}
    <2>1. T \subseteq FiniteSubsetsOf(S) /\ T # {}
      BY <1>1
    <2>2. \E B \in T : \A A \in T : <<A, B>> \notin R
      <3> HIDE DEF T, R
      <3> QED BY <1>2, <2>1, WFMin
    <2>3. PICK k \in S : \A j \in S : <<Above(j), Above(k)>> \notin R
      BY <2>2
    <2>4. ASSUME NEW j \in S, j > k PROVE FALSE
      <3>1. \A i \in S : i > j => i > k
        BY <2>4
      <3>2. Above(j) \subseteq Above(k)
        BY <3>1
      <3>3. j \in Above(k) /\ j \notin Above(j)
        BY <2>4
      <3> QED BY <2>3, <3>2, <3>3 DEF StrictSubsetOrdering
    <2> QED BY <2>4
  <1> QED BY <1>3, <1>4

(* A page has all keys after the token up to its last one.                 *)
LEMMA PagesInOrder ==
  ASSUME NEW t \in Keys \cup {0}
  PROVE  /\ Page(t) \subseteq After(t) /\ After(t) \subseteq Keys
         /\ \A k \in After(t), l \in Page(t) : k <= l => k \in Page(t)
         /\ Truncated(t) => Last(t) \in Page(t) /\ \A j \in Page(t) : j <= Last(t)
  <1> DEFINE Before(k) == {j \in After(t) : j < k}
  <1>1. Page(t) \subseteq After(t) /\ After(t) \subseteq Keys
    BY DEF Page, After
  <1>2. \A S \in SUBSET Keys : IsFiniteSet(S) /\ S \in SUBSET Nat
    BY KeysAssumption, FS_Subset
  <1>3. \A k : IsFiniteSet(Before(k)) /\ Cardinality(Before(k)) \in Nat
    BY <1>1, <1>2, FS_CardinalityType
  <1>4. ASSUME NEW k \in After(t), NEW l \in Page(t), k <= l
        PROVE  k \in Page(t)
    <2>1. k \in Nat /\ l \in Nat /\ \A j \in After(t) : j \in Nat
      BY <1>1, <1>2
    <2>2. Before(k) \subseteq Before(l)
      <3>1. \A j \in After(t) : j < k => j < l
        BY <1>4, <2>1
      <3> QED BY <3>1
    <2>3. Cardinality(Before(k)) <= Cardinality(Before(l))
      BY <1>3, <2>2, FS_Subset
    <2>4. Cardinality(Before(l)) < PageSize
      BY <1>4 DEF Page
    <2>5. Cardinality(Before(k)) < PageSize
      BY <1>3, <2>3, <2>4, ClientBounds
    <2> QED BY <1>4, <2>5 DEF Page
  <1>5. ASSUME Truncated(t)
        PROVE  Last(t) \in Page(t) /\ \A j \in Page(t) : j <= Last(t)
    <2>1. After(t) # {}
      BY <1>1, <1>5 DEF Truncated
    <2>2. PICK k \in After(t) : \A j \in After(t) : k <= j
      BY <1>1, <1>2, <2>1, Extremes
    <2>3. Before(k) = {}
      BY <1>1, <1>2, <2>2
    <2>4. k \in Page(t)
      BY <2>3, FS_EmptySet, ClientBounds DEF Page
    <2>5. \E l \in Page(t) : \A j \in Page(t) : j <= l
      BY <1>1, <1>2, <2>4, Extremes
    <2> QED BY <2>5 DEF Last
  <1> QED BY <1>1, <1>4, <1>5

-----------------------------------------------------------------------------
(* The calls that ask: their types, and what each has so far.              *)
AskTypes ==
    /\ tries \in [Clients -> 0 .. Retries]
    /\ dst \in [Clients -> Seq(Versions)]
    /\ found \in [Clients -> Seq(SUBSET (Keys \X Versions))]
    /\ token \in [Clients -> Keys \cup {0}]
    /\ deletes <= work.deletes
    /\ seen \in [Clients -> SUBSET (Keys \X (Versions \cup {Absent}))]

(* A call that asks knows what its objects are.                            *)
SeenNow(c) == \A k \in Watched(c) : <<k, bucket[k]>> \in seen[c]

(* No attempt has written past the range.                                  *)
InRange(c) == Busy(c, "read") => Len(dst[c]) <= call[c].n

Answered(c) ==
    status[c] = "ok" /\ call[c].op \in {"head", "read"} =>
        LET m == IF call[c].op = "head" THEN 1 ELSE call[c].n
        IN  /\ Len(dst[c]) = m
            /\ \A i \in 1 .. m : dst[c][i] = dst[c][1]
            /\ m > 0 => /\ <<call[c].key, dst[c][1]>> \in seen[c]
                        /\ call[c].op = "read" =>
                               call[c].offset + m <= Length[dst[c][1]]

(* The keys that the pages of a listing, so far, account for.              *)
Passed(c) == IF status[c] = "ok" THEN Keys ELSE {k \in Keys : k <= token[c]}

Listing(c) == status[c] # "idle" /\ call[c].op = "list"

(* Each of them is on a page, unless it was absent for a while; on one     *)
(* page only, and with one version, which it had during the call.          *)
PagesFit(c) ==
    Listing(c) =>
        /\ \A k \in Passed(c) :
               \/ <<k, Absent>> \in seen[c]
               \/ \E i \in DOMAIN found[c], v \in Versions : <<k, v>> \in found[c][i]
        /\ \A i \in DOMAIN found[c] : \A k \in Keys, v \in Versions :
               <<k, v>> \in found[c][i] => k \in Passed(c) /\ <<k, v>> \in seen[c]
        /\ \A i, j \in DOMAIN found[c] : \A k \in Keys, v, w \in Versions :
               <<k, v>> \in found[c][i] /\ <<k, w>> \in found[c][j] => i = j /\ v = w

Fits(c) == SeenNow(c) /\ InRange(c) /\ Answered(c) /\ PagesFit(c)

AskInv == IInv /\ AskTypes /\ \A c \in Clients : Fits(c)

LEMMA AskInit == Init => AskInv
  <1> SUFFICES ASSUME Init PROVE AskTypes /\ \A c \in Clients : Fits(c)
    BY InitInvariant DEF AskInv
  <1>1. AskTypes
    BY WorkloadsAssumption, ClientBounds DEF Init, AskTypes
  <1>2. ASSUME NEW c \in Clients PROVE Fits(c)
    BY DEF Init, Fits, SeenNow, InRange, Answered, PagesFit, Listing, Watched, Busy
  <1> QED BY <1>1, <1>2

-----------------------------------------------------------------------------
(* A step of one client, and of the server, as the other clients see it:   *)
(* they notice every change of what they watch.                            *)
Keeps(d) ==
    /\ call'[d] = call[d] /\ status'[d] = status[d] /\ dst'[d] = dst[d]
    /\ found'[d] = found[d] /\ token'[d] = token[d]
    /\ seen[d] \subseteq seen'[d]
    /\ \A k \in Watched(d) : <<k, bucket'[k]>> \in seen'[d]

LEMMA KeptFits ==
  ASSUME NEW d \in Clients, Fits(d), Keeps(d)
  PROVE  Fits(d)'
  <1>1. SeenNow(d)'
    BY DEF Keeps, SeenNow, Watched, Busy
  <1>2. InRange(d)'
    BY DEF Fits, Keeps, InRange, Busy
  <1>3. Answered(d)'
    BY DEF Fits, Keeps, Answered
  <1>4. PagesFit(d)'
    <2>1. Passed(d)' = Passed(d) /\ (Listing(d)' <=> Listing(d))
      BY DEF Keeps, Passed, Listing
    <2> QED BY <2>1 DEF Fits, Keeps, PagesFit
  <1> QED BY <1>1, <1>2, <1>3, <1>4 DEF Fits

(* What the server does: nothing, or one key gets another version.         *)
Changes ==
    \/ UNCHANGED <<bucket, seen>>
    \/ \E k \in Keys, v \in Versions \cup {Absent} : Become(k, v)

SeenTypes == seen \in [Clients -> SUBSET (Keys \X (Versions \cup {Absent}))]

LEMMA ChangesSeen ==
  ASSUME PutTypes, SeenTypes, Changes, \A c \in Clients : SeenNow(c)
  PROVE  /\ SeenTypes'
         /\ \A d \in Clients :
               /\ seen[d] \subseteq seen'[d]
               /\ \A k \in Watched(d) : <<k, bucket'[k]>> \in seen'[d]
  <1>1. CASE UNCHANGED <<bucket, seen>>
    BY <1>1 DEF SeenTypes, SeenNow
  <1>2. ASSUME NEW k \in Keys, NEW v \in Versions \cup {Absent}, Become(k, v)
        PROVE  /\ SeenTypes'
               /\ \A d \in Clients :
                     /\ seen[d] \subseteq seen'[d]
                     /\ \A j \in Watched(d) : <<j, bucket'[j]>> \in seen'[d]
    <2>1. bucket' = [bucket EXCEPT ![k] = v]
      BY <1>2 DEF Become
    <2>2. seen' = [d \in Clients |->
                    IF k \in Watched(d) THEN seen[d] \cup {<<k, v>>} ELSE seen[d]]
      BY <1>2 DEF Become
    <2>3. SeenTypes'
      BY <2>2 DEF SeenTypes
    <2>4. ASSUME NEW d \in Clients, NEW j \in Watched(d)
          PROVE  <<j, bucket'[j]>> \in seen'[d]
      BY <2>1, <2>2, <2>4 DEF SeenNow, PutTypes
    <2> QED BY <2>2, <2>3, <2>4
  <1> QED BY <1>1, <1>2 DEF Changes

(* A step that, but for what the server does, is the client's own.         *)
OwnStep(c) ==
    /\ Changes
    /\ \A d \in Clients \ {c} :
           /\ call'[d] = call[d] /\ status'[d] = status[d] /\ dst'[d] = dst[d]
           /\ found'[d] = found[d] /\ token'[d] = token[d]

LEMMA OwnStepKeeps ==
  ASSUME AskInv, NEW c \in Clients, OwnStep(c)
  PROVE  /\ SeenTypes'
         /\ seen[c] \subseteq seen'[c]
         /\ \A k \in Watched(c) : <<k, bucket'[k]>> \in seen'[c]
         /\ \A d \in Clients \ {c} : Fits(d)'
  <1>1. PutTypes /\ SeenTypes /\ Changes /\ \A d \in Clients : SeenNow(d) /\ Fits(d)
    BY DEF AskInv, IInv, AskTypes, SeenTypes, Fits, OwnStep
  <1>2. /\ SeenTypes'
        /\ \A d \in Clients :
               /\ seen[d] \subseteq seen'[d]
               /\ \A k \in Watched(d) : <<k, bucket'[k]>> \in seen'[d]
    BY <1>1, ChangesSeen
  <1>3. \A d \in Clients \ {c} : Keeps(d)
    BY <1>2 DEF OwnStep, Keeps
  <1> QED BY <1>1, <1>2, <1>3, KeptFits

(* A step that changes no call: attempts are repeated, the server changes. *)
LEMMA QuietFits ==
  ASSUME AskInv, Changes, UNCHANGED <<work, call, status, dst, found, token>>,
         tries' \in [Clients -> 0 .. Retries], deletes' <= work.deletes
  PROVE  AskTypes' /\ \A d \in Clients : Fits(d)'
  <1>1. PutTypes /\ SeenTypes /\ \A d \in Clients : SeenNow(d) /\ Fits(d)
    BY DEF AskInv, IInv, AskTypes, SeenTypes, Fits
  <1>2. /\ SeenTypes'
        /\ \A d \in Clients :
               /\ seen[d] \subseteq seen'[d]
               /\ \A k \in Watched(d) : <<k, bucket'[k]>> \in seen'[d]
    BY <1>1, ChangesSeen
  <1>3. \A d \in Clients : Keeps(d)
    BY <1>2 DEF Keeps
  <1>4. AskTypes'
    BY <1>2 DEF AskInv, AskTypes, SeenTypes
  <1> QED BY <1>1, <1>3, <1>4, KeptFits

(* A call that begins watches its objects, and has nothing yet.            *)
LEMMA BeginFits ==
  ASSUME AskInv, NEW c \in Clients, NEW r \in CallTypes, NEW ks \in SUBSET Keys,
         Begin(c, r, ks),
         r.op = "list" => ks = Keys, r.op \in {"head", "read"} => ks = {r.key},
         r.op \in {"put", "head", "read", "list"}
  PROVE  AskTypes' /\ \A d \in Clients : Fits(d)'
  <1>1. /\ call' = [call EXCEPT ![c] = r] /\ status' = [status EXCEPT ![c] = "busy"]
        /\ dst' = [dst EXCEPT ![c] = <<>>] /\ found' = [found EXCEPT ![c] = <<>>]
        /\ token' = [token EXCEPT ![c] = 0] /\ seen' = [seen EXCEPT ![c] = Current(ks)]
        /\ UNCHANGED <<work, tries, bucket, deletes>>
    BY DEF Begin, server
  <1>2. PutTypes /\ AskTypes /\ \A d \in Clients : SeenNow(d) /\ Fits(d)
    BY DEF AskInv, IInv, Fits
  <1>3. Current(ks) \in SUBSET (Keys \X (Versions \cup {Absent}))
    BY <1>2 DEF PutTypes, Current
  <1>4. AskTypes'
    BY <1>1, <1>2, <1>3 DEF AskTypes
  <1>5. \A d \in Clients \ {c} : Keeps(d)
    BY <1>1, <1>2 DEF Keeps, SeenNow, AskTypes, PutTypes
  <1>6. /\ call'[c] = r /\ status'[c] = "busy" /\ dst'[c] = <<>> /\ found'[c] = <<>>
        /\ token'[c] = 0 /\ seen'[c] = Current(ks)
    BY <1>1, <1>2 DEF AskTypes, PutTypes
  <1>7. Watched(c)' \subseteq ks
    BY <1>6 DEF Watched, Busy
  <1>8. SeenNow(c)'
    BY <1>1, <1>6, <1>7 DEF SeenNow, Current
  <1>9. InRange(c)' /\ Answered(c)'
    BY <1>6, ClientBounds DEF InRange, Answered, Busy, CallTypes, NoCall
  <1>10. PagesFit(c)'
    <2>1. DOMAIN found'[c] = {}
      BY <1>6
    <2>2. \A k \in Keys : ~(k <= 0)
      BY KeysAssumption
    <2>3. Passed(c)' = {}
      BY <1>6, <2>2 DEF Passed
    <2> QED BY <2>1, <2>3 DEF PagesFit
  <1> QED BY <1>2, <1>4, <1>5, <1>8, <1>9, <1>10, KeptFits DEF Fits

(* A call that fails leaves nothing.                                       *)
LEMMA LeaveKeepsFits ==
  ASSUME AskInv, NEW c \in Clients, Leave(c), UNCHANGED deletes,
         Changes \/ (seen' = [seen EXCEPT ![c] = {}] /\ UNCHANGED bucket)
  PROVE  AskTypes' /\ \A d \in Clients : Fits(d)'
  <1>1. PutTypes /\ AskTypes /\ \A d \in Clients : SeenNow(d) /\ Fits(d)
    BY DEF AskInv, IInv, Fits
  <1>2. SeenTypes' /\ \A d \in Clients \ {c} : Fits(d)'
    <2>1. CASE Changes
      <3>1. OwnStep(c)
        BY <1>1, <2>1 DEF OwnStep, Leave, AskTypes, PutTypes
      <3> QED BY <3>1, OwnStepKeeps
    <2>2. CASE seen' = [seen EXCEPT ![c] = {}] /\ UNCHANGED bucket
      <3>1. SeenTypes'
        BY <1>1, <2>2 DEF AskTypes, SeenTypes
      <3>2. \A d \in Clients \ {c} : Keeps(d)
        BY <1>1, <2>2 DEF Leave, Keeps, SeenNow, AskTypes, PutTypes
      <3> QED BY <1>1, <3>1, <3>2, KeptFits
    <2> QED BY <2>1, <2>2
  <1>3. AskTypes'
    BY <1>1, <1>2, ClientBounds DEF Leave, AskTypes, SeenTypes
  <1>4. status'[c] = "idle"
    BY <1>1 DEF Leave, PutTypes
  <1>5. Fits(c)'
    BY <1>4 DEF Fits, SeenNow, InRange, Answered, PagesFit, Listing, Watched, Busy
  <1> QED BY <1>2, <1>3, <1>5

(* A call that goes on or succeeds, having changed its own results.        *)
LEMMA ResultFits ==
  ASSUME AskInv, NEW c \in Clients, NEW s \in {"busy", "ok"},
         status' = [status EXCEPT ![c] = s], UNCHANGED <<work, call, bucket, seen, deletes>>,
         tries' \in [Clients -> 0 .. Retries],
         NEW b \in Seq(Versions), dst' = [dst EXCEPT ![c] = b],
         NEW f \in Seq(SUBSET (Keys \X Versions)), found' = [found EXCEPT ![c] = f],
         NEW t \in Keys \cup {0}, token' = [token EXCEPT ![c] = t],
         status[c] = "busy",
         InRange(c)', Answered(c)', PagesFit(c)'
  PROVE  AskTypes' /\ \A d \in Clients : Fits(d)'
  <1>1. PutTypes /\ AskTypes /\ SeenNow(c)
    BY DEF AskInv, IInv, Fits
  <1>2. OwnStep(c)
    BY <1>1 DEF OwnStep, Changes, AskTypes, PutTypes
  <1>3. \A d \in Clients \ {c} : Fits(d)'
    BY <1>2, OwnStepKeeps
  <1>4. AskTypes'
    BY <1>1 DEF AskTypes
  <1>5. SeenNow(c)'
    BY <1>1 DEF SeenNow, Watched, Busy
  <1> QED BY <1>3, <1>4, <1>5 DEF Fits

-----------------------------------------------------------------------------
LEMMA HeadOkFits ==
  ASSUME AskInv, NEW c \in Clients, HeadOk(c)
  PROVE  AskTypes' /\ \A d \in Clients : Fits(d)'
  <1> DEFINE v == bucket[call[c].key]
  <1>1. PutTypes /\ AskTypes /\ SeenNow(c) /\ Busy(c, "head")
    BY DEF AskInv, IInv, Fits, HeadOk
  <1>2. call[c].op = "head" /\ call[c].key \in Keys
    BY <1>1 DEF PutTypes, CallTypes, Busy, NoCall
  <1>3. v \in Versions /\ <<call[c].key, v>> \in seen[c]
    BY <1>1, <1>2 DEF HeadOk, PutTypes, SeenNow, Watched, Busy
  <1>4. /\ status' = [status EXCEPT ![c] = "ok"] /\ dst' = [dst EXCEPT ![c] = <<v>>]
        /\ found' = [found EXCEPT ![c] = found[c]] /\ token' = [token EXCEPT ![c] = token[c]]
        /\ tries' = [tries EXCEPT ![c] = 0]
        /\ UNCHANGED <<work, call, bucket, seen, deletes>>
    BY <1>1 DEF HeadOk, Return, server, history, AskTypes
  <1>5. tries' \in [Clients -> 0 .. Retries] /\ <<v>> \in Seq(Versions)
    BY <1>1, <1>3, <1>4, ClientBounds DEF AskTypes
  <1>6. status'[c] = "ok" /\ dst'[c] = <<v>> /\ call'[c] = call[c] /\ seen'[c] = seen[c]
    BY <1>1, <1>4 DEF AskTypes, PutTypes
  <1>7. InRange(c)' /\ PagesFit(c)'
    BY <1>2, <1>6 DEF InRange, PagesFit, Listing, Busy
  <1>8. Answered(c)'
    BY <1>2, <1>3, <1>6 DEF Answered
  <1>9. found[c] \in Seq(SUBSET (Keys \X Versions)) /\ token[c] \in Keys \cup {0}
    BY <1>1 DEF AskTypes
  <1>10. status[c] = "busy"
    BY <1>1 DEF Busy
  <1> QED BY <1>4, <1>5, <1>7, <1>8, <1>9, <1>10, ResultFits

(* What an attempt at a read leaves in dst: the bytes that came, before    *)
(* what earlier attempts left.                                             *)
LEMMA FillFits ==
  ASSUME AskInv, NEW c \in Clients, Busy(c, "read"), NEW m \in 0 .. Sent(c), Fill(c, m)
  PROVE  /\ call[c].key \in Keys /\ call[c].offset \in Nat /\ call[c].n \in Nat
         /\ Sent(c) \in 0 .. call[c].n
         /\ dst'[c] \in Seq(Versions) /\ dst' = [dst EXCEPT ![c] = dst'[c]]
         /\ Len(dst'[c]) <= call[c].n /\ m <= Len(dst'[c])
         /\ \A i \in 1 .. m : dst'[c][i] = bucket[call[c].key]
         /\ m > 0 => /\ bucket[call[c].key] \in Versions
                     /\ call[c].offset + m <= Length[bucket[call[c].key]]
  <1> DEFINE v == bucket[call[c].key]
             most == IF m < Len(dst[c]) THEN Len(dst[c]) ELSE m
             b == [i \in 1 .. most |-> IF i <= m THEN v ELSE dst[c][i]]
  <1>1. PutTypes /\ AskTypes /\ InRange(c)
    BY DEF AskInv, IInv, Fits
  <1>2. call[c].key \in Keys /\ call[c].offset \in Nat /\ call[c].n \in Nat
    BY <1>1, ClientBounds DEF PutTypes, CallTypes, Busy, NoCall
  <1>3. v \in Versions \cup {Absent}
    BY <1>1, <1>2 DEF PutTypes
  <1>4. /\ Sent(c) \in 0 .. call[c].n
        /\ Sent(c) > 0 => v \in Versions /\ call[c].offset + Sent(c) <= Length[v]
    BY <1>2, <1>3, LengthAssumption DEF Sent
  <1>5. Len(dst[c]) \in Nat /\ Len(dst[c]) <= call[c].n /\ dst[c] \in Seq(Versions)
    BY <1>1 DEF AskTypes, InRange
  <1>6. most \in Nat /\ m \in Nat /\ m <= most /\ most <= call[c].n
    BY <1>2, <1>4, <1>5
  <1>7. \A i \in 1 .. most : b[i] \in Versions
    BY <1>3, <1>4, <1>5
  <1>8. dst' = [dst EXCEPT ![c] = b] /\ dst'[c] = b
    BY <1>1 DEF Fill, AskTypes
  <1>9. m > 0 => v \in Versions /\ call[c].offset + m <= Length[v]
    BY <1>2, <1>4, LengthAssumption
  <1>10. \A i \in 1 .. m : b[i] = v
    BY <1>6
  <1> HIDE DEF most
  <1>11. b \in Seq(Versions) /\ Len(b) = most
    BY <1>6, <1>7
  <1> HIDE DEF b
  <1> QED BY <1>2, <1>4, <1>6, <1>8, <1>9, <1>10, <1>11

(* A success has all n bytes from its own attempt.                         *)
LEMMA ReadOkFits ==
  ASSUME AskInv, NEW c \in Clients, ReadOk(c)
  PROVE  AskTypes' /\ \A d \in Clients : Fits(d)'
  <1> DEFINE n == call[c].n
             v == bucket[call[c].key]
  <1>1. PutTypes /\ AskTypes /\ SeenNow(c) /\ Busy(c, "read")
    BY DEF AskInv, IInv, Fits, ReadOk
  <1>2. n \in Nat /\ n > 0 /\ Sent(c) = n /\ Fill(c, n) /\ n \in 0 .. Sent(c)
    <2>1. n \in Nat
      BY <1>1, ClientBounds DEF PutTypes, CallTypes, Busy, NoCall
    <2>2. n > 0 /\ Sent(c) = n /\ Fill(c, n)
      BY DEF ReadOk
    <2> QED BY <2>1, <2>2
  <1>3. /\ call[c].key \in Keys
        /\ dst'[c] \in Seq(Versions) /\ dst' = [dst EXCEPT ![c] = dst'[c]]
        /\ Len(dst'[c]) = n
        /\ \A i \in 1 .. n : dst'[c][i] = v
        /\ call[c].offset + n <= Length[v]
    BY <1>1, <1>2, FillFits
  <1>4. /\ status' = [status EXCEPT ![c] = "ok"]
        /\ found' = [found EXCEPT ![c] = found[c]] /\ token' = [token EXCEPT ![c] = token[c]]
        /\ tries' = [tries EXCEPT ![c] = 0]
        /\ UNCHANGED <<work, call, bucket, seen, deletes>>
    BY <1>1 DEF ReadOk, Return, server, history, AskTypes
  <1>5. tries' \in [Clients -> 0 .. Retries]
    BY <1>1, <1>4, ClientBounds DEF AskTypes
  <1>6. status'[c] = "ok" /\ call'[c] = call[c] /\ seen'[c] = seen[c]
    BY <1>1, <1>4 DEF AskTypes, PutTypes
  <1>7. status[c] = "busy" /\ call[c].op = "read" /\ <<call[c].key, v>> \in seen[c]
    BY <1>1 DEF SeenNow, Watched, Busy
  <1>8. InRange(c)' /\ PagesFit(c)'
    BY <1>6, <1>7 DEF InRange, PagesFit, Listing, Busy
  <1>9. Answered(c)'
    BY <1>2, <1>3, <1>6, <1>7 DEF Answered
  <1>10. found[c] \in Seq(SUBSET (Keys \X Versions)) /\ token[c] \in Keys \cup {0}
    BY <1>1 DEF AskTypes
  <1> QED BY <1>3, <1>4, <1>5, <1>7, <1>8, <1>9, <1>10, ResultFits

LEMMA ReadNothingFits ==
  ASSUME AskInv, NEW c \in Clients, ReadNothing(c)
  PROVE  AskTypes' /\ \A d \in Clients : Fits(d)'
  <1>1. PutTypes /\ AskTypes /\ InRange(c) /\ Busy(c, "read") /\ call[c].n = 0
    BY DEF AskInv, IInv, Fits, ReadNothing
  <1>2. dst[c] \in Seq(Versions) /\ Len(dst[c]) = 0
    BY <1>1 DEF InRange, AskTypes
  <1>3. /\ status' = [status EXCEPT ![c] = "ok"] /\ dst' = [dst EXCEPT ![c] = dst[c]]
        /\ found' = [found EXCEPT ![c] = found[c]] /\ token' = [token EXCEPT ![c] = token[c]]
        /\ tries' = [tries EXCEPT ![c] = 0]
        /\ UNCHANGED <<work, call, bucket, seen, deletes>>
    BY <1>1 DEF ReadNothing, Return, server, history, AskTypes
  <1>4. tries' \in [Clients -> 0 .. Retries]
    BY <1>1, <1>3, ClientBounds DEF AskTypes
  <1>5. status'[c] = "ok" /\ call'[c] = call[c] /\ dst'[c] = dst[c]
    BY <1>1, <1>3 DEF AskTypes, PutTypes
  <1>6. status[c] = "busy" /\ call[c].op = "read"
    BY <1>1 DEF Busy
  <1>7. InRange(c)' /\ PagesFit(c)'
    BY <1>5, <1>6 DEF InRange, PagesFit, Listing, Busy
  <1>8. Answered(c)'
    BY <1>1, <1>2, <1>5, <1>6 DEF Answered
  <1>9. found[c] \in Seq(SUBSET (Keys \X Versions)) /\ token[c] \in Keys \cup {0}
    BY <1>1 DEF AskTypes
  <1> QED BY <1>2, <1>3, <1>4, <1>6, <1>7, <1>8, <1>9, ResultFits

LEMMA TryAgainTypes ==
  ASSUME AskTypes, NEW c \in Clients, TryAgain(c)
  PROVE  tries' \in [Clients -> 0 .. Retries]
  BY ClientBounds DEF AskTypes, TryAgain

LEMMA ReadRetryFits ==
  ASSUME AskInv, NEW c \in Clients, ReadRetry(c)
  PROVE  AskTypes' /\ \A d \in Clients : Fits(d)'
  <1>1. PutTypes /\ AskTypes /\ Busy(c, "read") /\ TryAgain(c)
    BY DEF AskInv, IInv, ReadRetry
  <1>2. PICK m \in 0 .. Sent(c) : Fill(c, m)
    BY DEF ReadRetry
  <1>3. /\ dst'[c] \in Seq(Versions) /\ dst' = [dst EXCEPT ![c] = dst'[c]]
        /\ Len(dst'[c]) <= call[c].n
    BY <1>1, <1>2, FillFits
  <1>4. status[c] = "busy" /\ call[c].op = "read"
    BY <1>1 DEF Busy
  <1>5. /\ status' = [status EXCEPT ![c] = "busy"]
        /\ found' = [found EXCEPT ![c] = found[c]] /\ token' = [token EXCEPT ![c] = token[c]]
        /\ UNCHANGED <<work, call, status, bucket, seen, deletes>>
    BY <1>1, <1>4 DEF ReadRetry, TryAgain, server, history, AskTypes, PutTypes
  <1>6. tries' \in [Clients -> 0 .. Retries]
    BY <1>1, TryAgainTypes
  <1>7. InRange(c)' /\ Answered(c)' /\ PagesFit(c)'
    BY <1>3, <1>4, <1>5 DEF InRange, Answered, PagesFit, Listing, Busy
  <1>8. found[c] \in Seq(SUBSET (Keys \X Versions)) /\ token[c] \in Keys \cup {0}
    BY <1>1 DEF AskTypes
  <1> QED BY <1>3, <1>4, <1>5, <1>6, <1>7, <1>8, ResultFits

-----------------------------------------------------------------------------
(* A page is added: of the keys after the token it has those that are      *)
(* there, and no others.                                                   *)
LEMMA PageFits ==
  ASSUME AskInv, NEW c \in Clients, Busy(c, "list"), AddPage(c),
         status'[c] \in {"busy", "ok"}, call'[c] = call[c], seen'[c] = seen[c],
         Passed(c) \subseteq Passed(c)', Page(token[c]) \subseteq Passed(c)',
         \A k \in Passed(c)' :
             k \in Passed(c) \/ k \in Page(token[c]) \/ bucket[k] = Absent
  PROVE  /\ found' = [found EXCEPT ![c] = found'[c]]
         /\ found'[c] \in Seq(SUBSET (Keys \X Versions))
         /\ PagesFit(c)'
  <1> DEFINE t == token[c]
             page == Current(Page(t))
             old == found[c]
             n == Len(old) + 1
  <1>1. PutTypes /\ AskTypes /\ SeenNow(c) /\ PagesFit(c)
    BY DEF AskInv, IInv, Fits
  <1>2. Listing(c) /\ status[c] = "busy"
    BY DEF Busy, Listing
  <1>3. t \in Keys \cup {0} /\ old \in Seq(SUBSET (Keys \X Versions))
    BY <1>1 DEF AskTypes
  <1>4. \A k \in Page(t) : /\ k \in Keys /\ k > t /\ bucket[k] \in Versions
                           /\ <<k, bucket[k]>> \in seen[c]
    <2>1. ASSUME NEW k \in Page(t)
          PROVE  k \in Keys /\ k > t /\ bucket[k] # Absent
      BY DEF Page, After
    <2>2. Watched(c) = Keys
      BY DEF Watched, Busy
    <2> QED BY <1>1, <2>1, <2>2 DEF PutTypes, SeenNow
  <1>5. \A k, v : <<k, v>> \in page <=> k \in Page(t) /\ v = bucket[k]
    BY DEF Current
  <1>6. page \in SUBSET (Keys \X Versions)
    BY <1>4 DEF Current
  <1>7. found' = [found EXCEPT ![c] = Append(old, page)] /\ found'[c] = Append(old, page)
    BY <1>1 DEF AddPage, AskTypes
  <1> HIDE DEF page
  <1>8. /\ Append(old, page) \in Seq(SUBSET (Keys \X Versions))
        /\ DOMAIN found'[c] = DOMAIN old \cup {n} /\ n \notin DOMAIN old
        /\ found'[c][n] = page /\ \A i \in DOMAIN old : found'[c][i] = old[i]
    BY <1>3, <1>6, <1>7
  <1>9. \A k \in Passed(c) : k \notin Page(t)
    <2>1. \A k \in Passed(c) : k \in Keys /\ k <= t
      BY <1>2 DEF Passed
    <2>2. \A k \in Keys : k \in Nat
      BY KeysAssumption
    <2>3. t \in Nat
      BY <1>3, <2>2
    <2>4. \A k \in Keys : k <= t => ~(k > t)
      BY <2>2, <2>3
    <2> QED BY <1>4, <2>1, <2>4
  <1>10. PagesFit(c)'
    <2>1. ASSUME NEW k \in Passed(c)'
          PROVE  \/ <<k, Absent>> \in seen[c]
                 \/ \E i \in DOMAIN found'[c], v \in Versions : <<k, v>> \in found'[c][i]
      <3>1. CASE k \in Passed(c)
        BY <1>1, <1>2, <1>8, <3>1 DEF PagesFit
      <3>2. CASE k \in Page(t)
        BY <1>4, <1>5, <1>8, <3>2
      <3>3. CASE bucket[k] = Absent
        <4>1. k \in Watched(c)
          BY <2>1 DEF Passed, Watched, Busy
        <4> QED BY <1>1, <3>3, <4>1 DEF SeenNow
      <3> QED BY <2>1, <3>1, <3>2, <3>3
    <2>2. ASSUME NEW i \in DOMAIN found'[c], NEW k \in Keys, NEW v \in Versions,
                 <<k, v>> \in found'[c][i]
          PROVE  k \in Passed(c)' /\ <<k, v>> \in seen[c]
      <3>1. CASE i \in DOMAIN old
        BY <1>1, <1>2, <1>8, <2>2, <3>1 DEF PagesFit
      <3>2. CASE i = n
        BY <1>4, <1>5, <1>8, <2>2, <3>2
      <3> QED BY <1>8, <3>1, <3>2
    <2>3. ASSUME NEW i \in DOMAIN found'[c], NEW j \in DOMAIN found'[c],
                 NEW k \in Keys, NEW v \in Versions, NEW w \in Versions,
                 <<k, v>> \in found'[c][i], <<k, w>> \in found'[c][j]
          PROVE  i = j /\ v = w
      <3>1. \A l \in DOMAIN old, u \in Versions : <<k, u>> \in old[l] => k \notin Page(t)
        BY <1>1, <1>2, <1>9 DEF PagesFit
      <3>2. CASE k \in Page(t)
        <4>1. i = n /\ j = n
          BY <1>8, <2>3, <3>1, <3>2
        <4> QED BY <1>5, <1>8, <2>3, <4>1
      <3>3. CASE k \notin Page(t)
        <4>1. i \in DOMAIN old /\ j \in DOMAIN old
          BY <1>5, <1>8, <2>3, <3>3
        <4> QED BY <1>1, <1>2, <1>8, <2>3, <4>1 DEF PagesFit
      <3> QED BY <3>2, <3>3
    <2> QED BY <2>1, <2>2, <2>3 DEF PagesFit
  <1> QED BY <1>7, <1>8, <1>10

LEMMA ListPageFits ==
  ASSUME AskInv, NEW c \in Clients, ListPage(c)
  PROVE  AskTypes' /\ \A d \in Clients : Fits(d)'
  <1> DEFINE t == token[c]
  <1>1. PutTypes /\ AskTypes /\ Busy(c, "list") /\ Truncated(t) /\ AddPage(c)
    BY DEF AskInv, IInv, ListPage
  <1>2. t \in Keys \cup {0} /\ status[c] = "busy" /\ call[c].op = "list"
    BY <1>1 DEF AskTypes, Busy
  <1>3. /\ Page(t) \subseteq After(t) /\ After(t) \subseteq Keys
        /\ \A k \in After(t), l \in Page(t) : k <= l => k \in Page(t)
        /\ Last(t) \in Page(t) /\ \A j \in Page(t) : j <= Last(t)
    BY <1>1, <1>2, PagesInOrder
  <1>4. Last(t) \in Keys /\ Last(t) > t /\ \A k \in Keys : k \in Nat
    BY <1>3, KeysAssumption DEF After
  <1>5. /\ status' = [status EXCEPT ![c] = "busy"] /\ dst' = [dst EXCEPT ![c] = dst[c]]
        /\ token' = [token EXCEPT ![c] = Last(t)] /\ tries' = [tries EXCEPT ![c] = 0]
        /\ UNCHANGED <<work, call, status, bucket, seen, deletes>>
    BY <1>1, <1>2 DEF ListPage, server, history, AskTypes, PutTypes
  <1>6. tries' \in [Clients -> 0 .. Retries] /\ dst[c] \in Seq(Versions)
    BY <1>1, <1>5, ClientBounds DEF AskTypes
  <1>7. token'[c] = Last(t)
    BY <1>1, <1>5 DEF AskTypes
  <1>8. /\ Passed(c) = {k \in Keys : k <= t} /\ Passed(c)' = {k \in Keys : k <= Last(t)}
    BY <1>2, <1>5, <1>7 DEF Passed
  <1>9. Passed(c) \subseteq Passed(c)' /\ Page(t) \subseteq Passed(c)'
    <2>1. \A k \in Keys : k <= t => k <= Last(t)
      BY <1>2, <1>4
    <2> QED BY <1>3, <1>8, <2>1
  <1>10. ASSUME NEW k \in Passed(c)'
         PROVE  k \in Passed(c) \/ k \in Page(t) \/ bucket[k] = Absent
    <2>1. k \in Keys /\ k <= Last(t)
      BY <1>8, <1>10
    <2>2. k <= t \/ k > t
      BY <1>2, <1>4, <2>1
    <2> QED BY <1>3, <1>8, <2>1, <2>2 DEF After
  <1>11. /\ found' = [found EXCEPT ![c] = found'[c]]
         /\ found'[c] \in Seq(SUBSET (Keys \X Versions))
         /\ PagesFit(c)'
    BY <1>1, <1>2, <1>5, <1>9, <1>10, PageFits
  <1>12. InRange(c)' /\ Answered(c)'
    BY <1>2, <1>5 DEF InRange, Answered, Busy
  <1> QED BY <1>2, <1>4, <1>5, <1>6, <1>11, <1>12, ResultFits

LEMMA ListOkFits ==
  ASSUME AskInv, NEW c \in Clients, ListOk(c)
  PROVE  AskTypes' /\ \A d \in Clients : Fits(d)'
  <1> DEFINE t == token[c]
  <1>1. PutTypes /\ AskTypes /\ Busy(c, "list") /\ Page(t) = After(t) /\ AddPage(c)
    BY DEF AskInv, IInv, ListOk, Truncated
  <1>2. t \in Keys \cup {0} /\ status[c] = "busy" /\ call[c].op = "list"
    BY <1>1 DEF AskTypes, Busy
  <1>3. /\ status' = [status EXCEPT ![c] = "ok"] /\ dst' = [dst EXCEPT ![c] = dst[c]]
        /\ token' = [token EXCEPT ![c] = 0] /\ tries' = [tries EXCEPT ![c] = 0]
        /\ UNCHANGED <<work, call, bucket, seen, deletes>>
    BY <1>1 DEF ListOk, Return, server, history, AskTypes
  <1>4. tries' \in [Clients -> 0 .. Retries] /\ dst[c] \in Seq(Versions)
    BY <1>1, <1>3, ClientBounds DEF AskTypes
  <1>5. status'[c] = "ok"
    BY <1>1, <1>3 DEF PutTypes
  <1>6. Passed(c) = {k \in Keys : k <= t} /\ Passed(c)' = Keys /\ Page(t) \subseteq Keys
    BY <1>2, <1>5 DEF Passed, Page, After
  <1>7. ASSUME NEW k \in Keys
        PROVE  k \in Passed(c) \/ k \in Page(t) \/ bucket[k] = Absent
    <2>1. k <= t \/ k > t
      BY <1>2, <1>7, KeysAssumption
    <2> QED BY <1>1, <1>6, <1>7, <2>1 DEF After
  <1>8. /\ found' = [found EXCEPT ![c] = found'[c]]
        /\ found'[c] \in Seq(SUBSET (Keys \X Versions))
        /\ PagesFit(c)'
    BY <1>1, <1>3, <1>5, <1>6, <1>7, PageFits
  <1>9. InRange(c)' /\ Answered(c)'
    BY <1>2, <1>3, <1>5 DEF InRange, Answered, Busy
  <1> QED BY <1>2, <1>3, <1>4, <1>8, <1>9, ResultFits

-----------------------------------------------------------------------------
LEMMA CallBeginFits ==
  ASSUME AskInv, NEW c \in Clients, CallBegin(c)
  PROVE  AskTypes' /\ \A d \in Clients : Fits(d)'
  <1>1. work.on \subseteq Keys /\ work.puts \in 0 .. MaxPuts /\ PutTypes
    BY WorkloadsAssumption, WorkFits DEF AskInv, IInv, PutTypes
  <1>2. CASE PutBegin(c)
    <2> DEFINE r == [op |-> "put", put |-> Len(puts) + 1]
    <2>1. Begin(c, r, {}) /\ Len(puts) + 1 <= work.puts
      BY <1>1, <1>2 DEF PutBegin, PutTypes
    <2>2. Len(puts) + 1 \in Puts
      BY <1>1, <2>1, ClientBounds DEF PutTypes, Puts
    <2>3. r \in CallTypes
      BY <2>2 DEF CallTypes
    <2> QED BY <2>1, <2>3, BeginFits
  <1>3. CASE HeadBegin(c)
    <2>1. PICK k \in work.on : Begin(c, [op |-> "head", key |-> k], {k})
      BY <1>3 DEF HeadBegin
    <2>2. [op |-> "head", key |-> k] \in CallTypes
      BY <1>1 DEF CallTypes
    <2> QED BY <1>1, <2>1, <2>2, BeginFits
  <1>4. CASE ReadBegin(c)
    <2>1. PICK k \in work.on, r \in Ranges :
             Begin(c, [op |-> "read", key |-> k, offset |-> r.offset, n |-> r.n], {k})
      BY <1>4 DEF ReadBegin
    <2>2. [op |-> "read", key |-> k, offset |-> r.offset, n |-> r.n] \in CallTypes
      BY <1>1, RangesAssumption DEF CallTypes
    <2> QED BY <1>1, <2>1, <2>2, BeginFits
  <1>5. CASE ListBegin(c)
    <2>1. [op |-> "list"] \in CallTypes
      BY DEF CallTypes
    <2> QED BY <1>5, <2>1, BeginFits DEF ListBegin
  <1> QED BY <1>2, <1>3, <1>4, <1>5 DEF CallBegin

(* An attempt at a put changes the object or not.                          *)
LEMMA PutEffectChanges ==
  ASSUME PutTypes, NEW p \in DOMAIN puts, PutEffect(p) \/ Take(p)
  PROVE  Changes /\ UNCHANGED deletes
  <1>1. puts[p].key \in Keys /\ p \in Versions
    BY PutFits DEF Puts, Versions
  <1>2. CASE Take(p)
    BY <1>1, <1>2 DEF Take, Changes
  <1>3. CASE UNCHANGED <<bucket, seen, deletes>>
    BY <1>3 DEF Changes
  <1> QED BY <1>2, <1>3 DEF PutEffect, server

LEMMA CallStepFits ==
  ASSUME AskInv, NEW c \in Clients, CallStep(c)
  PROVE  AskTypes' /\ \A d \in Clients : Fits(d)'
  <1>1. PutTypes /\ AtWork /\ AskTypes
    BY DEF AskInv, IInv
  <1>2. CASE PutOk(c) \/ PutRefused(c) \/ PutFail(c)
    <2>1. Leave(c)
      BY <1>2 DEF PutOk, PutRefused, PutFail, TellPut
    <2>2. Changes /\ UNCHANGED deletes
      <3>1. call[c].put \in DOMAIN puts
        BY <1>1, <1>2 DEF PutOk, PutRefused, PutFail, AtWork
      <3>2. \/ PutEffect(call[c].put) \/ Take(call[c].put)
            \/ UNCHANGED <<server, written, seen>>
        BY <1>2 DEF PutOk, PutRefused, PutFail
      <3> QED BY <1>1, <3>1, <3>2, PutEffectChanges DEF Changes, server
    <2> QED BY <2>1, <2>2, LeaveKeepsFits
  <1>3. CASE PutRetry(c)
    <2>1. TryAgain(c) /\ PutEffect(call[c].put) /\ call[c].put \in DOMAIN puts
      BY <1>1, <1>3 DEF PutRetry, AtWork
    <2>2. Changes /\ UNCHANGED deletes
      BY <1>1, <2>1, PutEffectChanges
    <2>3. tries' \in [Clients -> 0 .. Retries] /\ UNCHANGED <<work, call, status>>
      BY <1>1, <2>1, TryAgainTypes DEF TryAgain
    <2> QED BY <1>1, <1>3, <2>2, <2>3, QuietFits DEF PutRetry, AskTypes
  <1>4. CASE AskAgain(c)
    <2>1. TryAgain(c) /\ UNCHANGED <<dst, found, token, bucket, seen, deletes>>
      BY <1>4 DEF AskAgain, server, history
    <2>2. tries' \in [Clients -> 0 .. Retries] /\ UNCHANGED <<work, call, status>>
      BY <1>1, <2>1, TryAgainTypes DEF TryAgain
    <2> QED BY <1>1, <2>1, <2>2, QuietFits DEF AskTypes, Changes
  <1>5. CASE ListStuck(c) \/ AskFail(c)
    BY <1>5, LeaveKeepsFits DEF ListStuck, AskFail, server
  <1> QED BY <1>2, <1>3, <1>4, <1>5, HeadOkFits, ReadNothingFits, ReadOkFits,
             ReadRetryFits, ListPageFits, ListOkFits DEF CallStep

LEMMA ServerStepFits ==
  ASSUME AskInv, \/ \E p \in Puts : PutArrives(p)
                 \/ \E k \in work.on : Delete(k)
                 \/ UNCHANGED vars
  PROVE  AskTypes' /\ \A d \in Clients : Fits(d)'
  <1>1. PutTypes /\ AtWork /\ AskTypes /\ work.on \subseteq Keys
          /\ work.deletes \in Nat
    BY WorkloadsAssumption DEF AskInv, IInv, PutTypes
  <1>2. UNCHANGED client
    BY DEF PutArrives, Delete, vars
  <1>3. Changes /\ deletes' <= work.deletes
    <2>1. ASSUME NEW p \in Puts, PutArrives(p)
          PROVE  Changes /\ deletes' <= work.deletes
      <3>1. puts[p].key \in Keys /\ p \in Versions
        BY <1>1, <2>1, PutFits DEF PutArrives, AtWork, Puts, Versions
      <3> QED BY <1>1, <2>1, <3>1 DEF PutArrives, Changes, AskTypes
    <2>2. ASSUME NEW k \in work.on, Delete(k)
          PROVE  Changes /\ deletes' <= work.deletes
      BY <1>1, <2>2 DEF Delete, Changes, PutTypes
    <2>3. CASE UNCHANGED vars
      BY <1>1, <2>3 DEF vars, server, history, Changes, AskTypes
    <2> QED BY <2>1, <2>2, <2>3
  <1> QED BY <1>1, <1>2, <1>3, QuietFits DEF client, AskTypes

LEMMA AskInvariant == Spec => []AskInv
  <1>1. AskInv /\ [Next]_vars => AskInv'
    <2> SUFFICES ASSUME AskInv, [Next]_vars PROVE AskInv'
      OBVIOUS
    <2>1. IInv'
      BY NextInvariant DEF AskInv
    <2>2. AskTypes' /\ \A c \in Clients : Fits(c)'
      BY CallBeginFits, CallStepFits, ServerStepFits DEF Next
    <2> QED BY <2>1, <2>2 DEF AskInv
  <1> QED BY <1>1, AskInit, PTL DEF Spec

(* The variables have their types: no call has more attempts than          *)
(* run_request() allows, and only an unanswered put is at work.            *)
THEOREM TypeCorrect == Spec => []TypeOK
  <1>1. AskInv => TypeOK
    <2> SUFFICES ASSUME AskInv PROVE TypeOK
      OBVIOUS
    <2>1. PutTypes /\ AtWork /\ AskTypes
      BY DEF AskInv, IInv
    <2>2. work.deletes \in Nat
      BY <2>1, WorkloadsAssumption DEF PutTypes
    <2>3. deletes \in 0 .. work.deletes
      BY <2>1, <2>2 DEF PutTypes, AskTypes
    <2> QED BY <2>1, <2>3 DEF TypeOK, PutTypes, AskTypes, AtWork, Answers, Conditions
  <1> QED BY <1>1, AskInvariant, PTL

(* What head() and read_range() answer is one version's, which the object  *)
(* had during the call, with all of the bytes asked for: whatever attempts *)
(* broke off and whoever wrote or deleted meanwhile.                       *)
THEOREM AnswersAreOneVersion == Spec => []AnswersAreCurrent
  <1>1. AskInv => AnswersAreCurrent
    BY DEF AskInv, Fits, Answered, AnswersAreCurrent
  <1> QED BY <1>1, AskInvariant, PTL

(* A listing, page after page of a bucket that changes, misses no key that *)
(* was there all the time, repeats none, and shows no version that was not *)
(* there.                                                                  *)
THEOREM ListingsAreComplete == Spec => []ListsTheBucket
  <1>1. AskInv => ListsTheBucket
    <2> SUFFICES ASSUME AskInv, NEW c \in Clients, status[c] = "ok", call[c].op = "list"
                 PROVE  LET pages == DOMAIN found[c]
                            entries == UNION {found[c][i] : i \in pages}
                        IN  /\ entries \subseteq seen[c]
                            /\ \A k \in Keys :
                                   /\ \/ <<k, Absent>> \in seen[c]
                                      \/ \E v \in Versions : <<k, v>> \in entries
                                   /\ \A i, j \in pages, v, w \in Versions :
                                          <<k, v>> \in found[c][i] /\ <<k, w>> \in found[c][j]
                                              => i = j /\ v = w
      BY DEF ListsTheBucket
    <2>1. PagesFit(c) /\ Listing(c) /\ Passed(c) = Keys
      BY DEF AskInv, Fits, Listing, Passed
    <2>2. \A i \in DOMAIN found[c] : found[c][i] \in SUBSET (Keys \X Versions)
      BY DEF AskInv, AskTypes
    <2>3. UNION {found[c][i] : i \in DOMAIN found[c]} \subseteq seen[c]
      BY <2>1, <2>2 DEF PagesFit
    <2> QED BY <2>1, <2>3 DEF PagesFit
  <1> QED BY <1>1, AskInvariant, PTL

=============================================================================
