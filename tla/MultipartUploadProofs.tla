----------------------- MODULE MultipartUploadProofs ------------------------
(***************************************************************************)
(* Proofs about MultipartUpload, for any number of workers, parts, retries *)
(* and changes of the file.                                                *)
(*                                                                         *)
(* What a completion lists is whole because of an invariant of the pool:   *)
(* every part below the counter has an ETag, or is held by a worker, or    *)
(* something has failed; and a worker that has left has seen a failure or  *)
(* the counter past the last part.  That no part is cut short rests on     *)
(* upload_read: an attempt which the server has taken was as long as the   *)
(* file was when it was measured.                                          *)
(***************************************************************************)
EXTENDS MultipartUpload, TLAPS

Holds(w) == pc[w] \in {"check", "hash", "send"}

(* The workers: what they hold is theirs alone and below the counter.      *)
ClaimInv ==
    /\ \A w \in Workers : Holds(w) => part[w] < next
    /\ \A v, w \in Workers : Holds(v) /\ Holds(w) /\ part[v] = part[w] => v = w
    /\ \A w \in Workers : pc[w] \in {"hash", "send"} => part[w] < Parts
    /\ step # "parts" => \A w \in Workers : pc[w] = "out"

Covered(i) ==
    etags[i] # NoPart \/ failed \/ \E w \in Workers : Holds(w) /\ part[w] = i

(* The pool: nothing below the counter is forgotten.                       *)
PoolInv ==
    step = "parts" =>
        /\ \A i \in PartNos : i < next => Covered(i)
        /\ \A w \in Workers : pc[w] = "out" => failed \/ Parts <= next

AllTagged == \A i \in PartNos : etags[i] # NoPart

(* The upload: it is completed, now or by a request on its way, only when  *)
(* nothing failed and every part has its ETag.                             *)
UploadInv ==
    /\ step \in {"start", "put", "create"} =>
           upload = "none" /\ ~lateComplete /\ ~failed /\ next = 0
    /\ step = "parts" => upload = "open" /\ ~lateComplete
    /\ step = "complete" \/ lateComplete \/ upload = "completed" => ~failed /\ AllTagged

(* The two ways to send a file do not meet.                                *)
ModeInv ==
    /\ step = "put" \/ latePuts # {} => Single
    /\ step \in {"create", "parts", "complete", "abort"} \/ failed \/ lateComplete
           \/ upload # "none" => ~Single

ObjectInv ==
    /\ object = Empty \/ object \in [PartNos -> File]
    /\ ~Single /\ upload # "completed" => object = Empty
    /\ upload = "completed" => object \in [PartNos -> File]
    /\ step # "done" => ret = "none"

IInv == TypeOK /\ ClaimInv /\ PoolInv /\ UploadInv /\ ModeInv /\ ObjectInv
-----------------------------------------------------------------------------
(* The initial states.                                                     *)
LEMMA InitIInv ==
  ASSUME Init
  PROVE  IInv
  <1>1. TypeOK
    <2>1. file \in File
      BY PartsAssumption DEF Init, File
    <2>2. Empty \in Contents
      BY DEF Empty, Contents
    <2>3. /\ pc \in [Workers -> Pcs] /\ part \in [Workers -> Nat]
          /\ hash \in [Workers -> File \cup {NoPart}]
          /\ attempt \in [Workers -> 0 .. Retries]
      BY BoundsAssumption DEF Init, Pcs
    <2>4. tries \in 0 .. Retries /\ next \in Nat
      BY BoundsAssumption DEF Init
    <2>5. lateParts \subseteq PartNos \X File /\ latePuts \subseteq File
      BY DEF Init
    <2> QED
      BY <2>1, <2>2, <2>3, <2>4, <2>5, CallsAssumption DEF Init, TypeOK, Steps
  <1>2. ClaimInv
    BY DEF Init, ClaimInv, Holds
  <1>3. PoolInv
    BY DEF Init, PoolInv
  <1>4. UploadInv
    BY DEF Init, UploadInv
  <1>5. ModeInv
    BY DEF Init, ModeInv
  <1>6. ObjectInv
    BY DEF Init, ObjectInv
  <1> QED
    BY <1>1, <1>2, <1>3, <1>4, <1>5, <1>6 DEF IInv

(* What a part's request does at the server is no more than to change the  *)
(* parts it holds or is going to get.                                      *)
LEMMA PartEffectType ==
  ASSUME TypeOK, NEW w \in Workers, pc[w] = "send", part[w] < Parts, PartEffect(w)
  PROVE  /\ stored' \in Contents /\ lateParts' \subseteq PartNos \X File
         /\ UNCHANGED <<upload, object, lateComplete, latePuts>>
  <1>1. part[w] \in PartNos
    BY PartsAssumption DEF TypeOK, PartNos
  <1>2. CASE UNCHANGED server
    BY <1>2 DEF server, late, TypeOK
  <1>3. CASE /\ Accepted(w) /\ StorePart(w)
             /\ UNCHANGED <<upload, object, late>>
    BY <1>1, <1>3 DEF StorePart, late, TypeOK, Contents
  <1>4. CASE /\ Accepted(w)
             /\ lateParts' = lateParts \cup {<<part[w], file>>}
             /\ UNCHANGED <<upload, stored, object, lateComplete, latePuts>>
    BY <1>1, <1>4 DEF TypeOK
  <1> QED
    BY <1>2, <1>3, <1>4 DEF PartEffect

(* Types are kept.                                                         *)
LEMMA LeaveType ==
  ASSUME TypeOK, NEW w \in Workers, Leave(w)
  PROVE  /\ pc' \in [Workers -> Pcs] /\ part' \in [Workers -> Nat]
         /\ hash' \in [Workers -> File \cup {NoPart}]
         /\ attempt' \in [Workers -> 0 .. Retries]
  BY BoundsAssumption DEF Leave, TypeOK, Pcs

LEMMA WorkType ==
  ASSUME TypeOK, ClaimInv, NEW w \in Workers, Work(w)
  PROVE  TypeOK'
  <1> USE DEF caller, workers, shared, server, late
  <1>1. CASE OpenFile(w)
    <2>1. CASE FailWith(w) /\ UNCHANGED server
      BY <2>1, LeaveType DEF FailWith, TypeOK
    <2>2. CASE ~(FailWith(w) /\ UNCHANGED server)
      BY <1>1, <2>2 DEF OpenFile, TypeOK, Pcs
    <2> QED
      BY <2>1, <2>2
  <1>2. CASE Claim(w)
    BY <1>2 DEF Claim, TypeOK, Pcs
  <1>3. CASE Check(w)
    <2>1. CASE Leave(w)
      BY <1>3, <2>1, LeaveType DEF Check, TypeOK
    <2>2. CASE ~Leave(w)
      BY <1>3, <2>2 DEF Check, TypeOK, Pcs
    <2> QED
      BY <2>1, <2>2
  <1>4. CASE HashPart(w)
    <2>1. CASE FailWith(w) /\ UNCHANGED server
      BY <2>1, LeaveType DEF FailWith, TypeOK
    <2>2. CASE ~(FailWith(w) /\ UNCHANGED server)
      BY <1>4, <2>2 DEF HashPart, TypeOK, Pcs
    <2> QED
      BY <2>1, <2>2
  <1>5. CASE PartOk(w)
    <2>1. part[w] \in PartNos
      BY <1>5, PartsAssumption DEF PartOk, ClaimInv, TypeOK, PartNos
    <2>2. stored' \in Contents /\ etags' \in Contents
      BY <1>5, <2>1 DEF PartOk, StorePart, TypeOK, Contents
    <2>3. /\ pc' \in [Workers -> Pcs] /\ part' \in [Workers -> Nat]
          /\ hash' \in [Workers -> File \cup {NoPart}]
          /\ attempt' \in [Workers -> 0 .. Retries]
      BY <1>5, BoundsAssumption DEF PartOk, TypeOK, Pcs
    <2> QED
      BY <1>5, <2>2, <2>3 DEF PartOk, TypeOK
  <1>6. CASE PartRetry(w)
    <2>1. /\ stored' \in Contents /\ lateParts' \subseteq PartNos \X File
          /\ UNCHANGED <<upload, object, lateComplete, latePuts>>
      BY <1>6, PartEffectType DEF PartRetry, ClaimInv
    <2>2. attempt' \in [Workers -> 0 .. Retries]
      BY <1>6, BoundsAssumption DEF PartRetry, TypeOK
    <2> QED
      BY <1>6, <2>1, <2>2 DEF PartRetry, TypeOK
  <1>7. CASE PartFail(w)
    <2>1. /\ stored' \in Contents /\ lateParts' \subseteq PartNos \X File
          /\ UNCHANGED <<upload, object, lateComplete, latePuts>>
      BY <1>7, PartEffectType DEF PartFail, ClaimInv
    <2> QED
      BY <1>7, <2>1, LeaveType DEF PartFail, FailWith, TypeOK
  <1> QED
    BY <1>1, <1>2, <1>3, <1>4, <1>5, <1>6, <1>7 DEF Work

LEMMA WholeType ==
  ASSUME NEW f \in File
  PROVE  Whole(f) \in Contents /\ Whole(f) \in [PartNos -> File]
  BY DEF Whole, Contents

LEMMA PutEffectType ==
  ASSUME TypeOK, PutEffect
  PROVE  /\ object' \in Contents /\ latePuts' \subseteq File
         /\ object' = object \/ object' = Whole(file)
         /\ UNCHANGED <<upload, stored, lateParts, lateComplete>>
  BY WholeType DEF PutEffect, server, late, TypeOK

LEMMA CompleteEffectType ==
  ASSUME TypeOK, CompleteEffect
  PROVE  /\ upload' \in {upload, "completed"}
         /\ stored' \in Contents /\ object' \in Contents
         /\ lateComplete' \in BOOLEAN
         /\ UNCHANGED <<lateParts, latePuts>>
  <1>1. CASE UNCHANGED server
    BY <1>1 DEF server, late, TypeOK
  <1>2. CASE Publish /\ UNCHANGED late
    BY <1>2 DEF Publish, late, TypeOK, Empty, Contents
  <1>3. CASE /\ lateComplete' = TRUE
             /\ UNCHANGED <<upload, stored, object, lateParts, latePuts>>
    BY <1>3 DEF TypeOK
  <1> QED
    BY <1>1, <1>2, <1>3 DEF CompleteEffect

LEMMA CallerType ==
  ASSUME TypeOK, Caller
  PROVE  TypeOK'
  <1> USE BoundsAssumption DEF caller, workers, shared, server, late, Steps, GoTo, Return
  <1>1. CASE Start
    BY <1>1 DEF Start, TypeOK
  <1>2. CASE GiveUp
    BY <1>2 DEF GiveUp, TypeOK
  <1>3. CASE PutOk
    BY <1>3, WholeType DEF PutOk, TypeOK
  <1>4. CASE PutRetry
    BY <1>4, PutEffectType DEF PutRetry, TryAgain, TypeOK
  <1>5. CASE PutFail
    BY <1>5, PutEffectType DEF PutFail, TypeOK
  <1>6. CASE CreateOk
    BY <1>6 DEF CreateOk, TypeOK, Pcs
  <1>7. CASE CreateRetry
    BY <1>7 DEF CreateRetry, TryAgain, TypeOK
  <1>8. CASE CreateFail
    BY <1>8 DEF CreateFail, TypeOK
  <1>9. CASE Join
    BY <1>9 DEF Join, TypeOK
  <1>10. Empty \in Contents
    BY DEF Empty, Contents
  <1>11. CASE CompleteOk
    BY <1>10, <1>11 DEF CompleteOk, Publish, TypeOK
  <1>12. CASE CompleteRetry
    BY <1>12, CompleteEffectType DEF CompleteRetry, TryAgain, TypeOK
  <1>13. CASE CompleteFail
    BY <1>13, CompleteEffectType DEF CompleteFail, TypeOK
  <1>14. CASE AbortRetry
    BY <1>10, <1>14 DEF AbortRetry, TryAgain, AbortEffect, TypeOK
  <1>15. CASE AbortDone
    BY <1>10, <1>15 DEF AbortDone, AbortEffect, TypeOK
  <1> QED
    BY <1>1, <1>2, <1>3, <1>4, <1>5, <1>6, <1>7, <1>8, <1>9, <1>11, <1>12, <1>13,
       <1>14, <1>15 DEF Caller

LEMMA EnvironmentType ==
  ASSUME TypeOK, ChangeFile \/ Arrival \/ Crash
  PROVE  TypeOK'
  <1> USE DEF caller, workers, shared, server, late
  <1>1. CASE ChangeFile
    BY <1>1, BoundsAssumption DEF ChangeFile, TypeOK, File
  <1>2. CASE PartArrives
    BY <1>2 DEF PartArrives, TypeOK, Contents
  <1>3. CASE CompleteArrives
    BY <1>3 DEF CompleteArrives, Publish, TypeOK, Empty, Contents
  <1>4. CASE PutArrives
    BY <1>4, WholeType DEF PutArrives, TypeOK
  <1>5. CASE Crash
    BY <1>5, BoundsAssumption DEF Crash, TypeOK, Pcs, Steps
  <1> QED
    BY <1>1, <1>2, <1>3, <1>4, <1>5 DEF Arrival
-----------------------------------------------------------------------------
(* The steps of the workers.  They run only while step = "parts", and      *)
(* leave the caller, the upload and the object alone.                      *)
LEMMA WorkFrame ==
  ASSUME IInv, NEW w \in Workers, Work(w)
  PROVE  /\ pc[w] # "out" /\ step = "parts"
         /\ UNCHANGED <<caller, file, upload, object, lateComplete, latePuts>>
         /\ failed' \in {failed, TRUE}
         /\ etags' \in Contents
  <1> USE DEF IInv
  <1>1. pc[w] # "out"
    BY DEF Work, OpenFile, Claim, Check, HashPart, PartOk, PartRetry, PartFail
  <1>2. step = "parts"
    BY <1>1 DEF ClaimInv
  <1>3. UNCHANGED <<caller, file, upload, object, lateComplete, latePuts>>
    <2>1. PartEffect(w) => UNCHANGED <<upload, object, lateComplete, latePuts>>
      BY DEF PartEffect, server, late
    <2> QED
      BY <2>1 DEF Work, OpenFile, Claim, Check, HashPart, PartOk, PartRetry, PartFail,
                  FailWith, server, late
  <1>4. failed' \in {failed, TRUE}
    BY DEF Work, OpenFile, Claim, Check, HashPart, PartOk, PartRetry, PartFail,
           FailWith, shared
  <1>5. etags' \in Contents
    BY WorkType DEF TypeOK
  <1> QED
    BY <1>1, <1>2, <1>3, <1>4, <1>5

LEMMA WorkKeepsUpload ==
  ASSUME IInv, NEW w \in Workers, Work(w)
  PROVE  UploadInv' /\ ModeInv' /\ ObjectInv'
  <1>1. /\ step = "parts" /\ step' = step /\ ret' = ret
        /\ UNCHANGED <<upload, object, lateComplete, latePuts>>
    BY WorkFrame DEF caller
  <1>2. Single' = Single
    BY WorkFrame DEF caller, Single
  <1> QED
    BY <1>1, <1>2 DEF IInv, UploadInv, ModeInv, ObjectInv

(* A worker that leaves holds nothing.                                     *)
LEMMA LeaveKeepsClaims ==
  ASSUME TypeOK, ClaimInv, NEW w \in Workers, Leave(w), pc[w] # "out",
         step' = step, next' = next
  PROVE  /\ ClaimInv'
         /\ \A v \in Workers : v # w => pc'[v] = pc[v] /\ part'[v] = part[v]
         /\ pc'[w] = "out"
  BY DEF TypeOK, ClaimInv, Leave, Holds

LEMMA FailureKeepsPool ==
  ASSUME IInv, NEW w \in Workers, FailWith(w), pc[w] # "out"
  PROVE  ClaimInv' /\ PoolInv'
  <1>1. ClaimInv'
    BY LeaveKeepsClaims DEF IInv, FailWith, caller
  <1>2. PoolInv'
    BY DEF FailWith, PoolInv, Covered
  <1> QED
    BY <1>1, <1>2

(* A step after which the worker holds the same part, or none as before.   *)
LEMMA SamePartKeepsPool ==
  ASSUME IInv, NEW w \in Workers, NEW p \in Pcs, pc[w] # "out", p # "out",
         pc' = [pc EXCEPT ![w] = p], Holds(w) <=> p \in {"check", "hash", "send"},
         p \in {"hash", "send"} => part[w] < Parts,
         UNCHANGED <<step, part, shared>>
  PROVE  ClaimInv' /\ PoolInv'
  <1>1. /\ pc \in [Workers -> Pcs] /\ UNCHANGED <<step, part, next, failed, etags>>
    BY DEF IInv, TypeOK, shared
  <1>2. \A v \in Workers : Holds(v)' <=> Holds(v)
    BY <1>1 DEF Holds
  <1>3. ClaimInv'
    BY <1>1, <1>2 DEF IInv, ClaimInv
  <1>4. PoolInv'
    BY <1>1, <1>2 DEF IInv, PoolInv, Covered
  <1> QED
    BY <1>3, <1>4

LEMMA ClaimKeepsPool ==
  ASSUME IInv, NEW w \in Workers, Claim(w)
  PROVE  ClaimInv' /\ PoolInv'
  <1>1. /\ pc \in [Workers -> Pcs] /\ part \in [Workers -> Nat] /\ next \in Nat
        /\ pc[w] = "claim" /\ UNCHANGED <<step, failed, etags>> /\ next' = next + 1
        /\ pc' = [pc EXCEPT ![w] = "check"] /\ part' = [part EXCEPT ![w] = next]
    BY DEF IInv, TypeOK, Claim, caller
  <1>2. /\ Holds(w)' /\ ~Holds(w) /\ part'[w] = next
        /\ \A v \in Workers : v # w => /\ Holds(v)' <=> Holds(v)
                                       /\ part'[v] = part[v] /\ pc'[v] = pc[v]
    BY <1>1 DEF Holds
  <1>3. ClaimInv'
    <2>1. \A v \in Workers : Holds(v)' => part'[v] < next'
      BY <1>1, <1>2 DEF IInv, ClaimInv
    <2>2. \A u, v \in Workers : Holds(u)' /\ Holds(v)' /\ part'[u] = part'[v] => u = v
      BY <1>1, <1>2 DEF IInv, ClaimInv
    <2>3. \A v \in Workers : pc'[v] \in {"hash", "send"} => part'[v] < Parts
      BY <1>1, <1>2 DEF IInv, ClaimInv
    <2>4. step' = "parts"
      BY <1>1 DEF IInv, ClaimInv
    <2> QED
      BY <2>1, <2>2, <2>3, <2>4 DEF ClaimInv
  <1>4. PoolInv'
    <2>1. step = "parts"
      BY <1>1 DEF IInv, ClaimInv
    <2>2. ASSUME NEW i \in PartNos, i < next'
          PROVE  Covered(i)'
      <3>1. CASE i = next
        BY <1>2, <3>1 DEF Covered
      <3>2. CASE i # next
        <4>1. i < next
          BY <1>1, <2>2, <3>2, PartsAssumption DEF PartNos
        <4>2. Covered(i)
          BY <2>1, <4>1 DEF IInv, PoolInv
        <4> QED
          BY <1>1, <1>2, <4>2 DEF Covered
      <3> QED
        BY <3>1, <3>2
    <2>3. \A v \in Workers : pc'[v] = "out" => failed' \/ Parts <= next'
      BY <1>1, <1>2, <2>1, PartsAssumption DEF IInv, PoolInv, Holds
    <2> QED
      BY <2>2, <2>3 DEF PoolInv
  <1> QED
    BY <1>3, <1>4

LEMMA CheckKeepsPool ==
  ASSUME IInv, NEW w \in Workers, Check(w)
  PROVE  ClaimInv' /\ PoolInv'
  <1>1. /\ pc[w] = "check" /\ UNCHANGED <<step, next, failed, etags>>
        /\ step = "parts" /\ next \in Nat /\ part \in [Workers -> Nat]
    BY WorkFrame DEF IInv, TypeOK, Check, Work, caller, shared
  <1>2. CASE (part[w] >= Parts \/ failed) /\ Leave(w)
    <2>1. /\ ClaimInv' /\ pc'[w] = "out"
          /\ \A v \in Workers : v # w => pc'[v] = pc[v] /\ part'[v] = part[v]
      BY <1>1, <1>2, LeaveKeepsClaims DEF IInv
    <2>2. failed \/ Parts <= next
      BY <1>1, <1>2, PartsAssumption DEF IInv, ClaimInv, Holds
    <2>3. \A i \in PartNos : i < next => Covered(i)'
      <3>1. SUFFICES ASSUME NEW i \in PartNos, i < next, etags[i] = NoPart, ~failed
                     PROVE  Covered(i)'
        BY <1>1 DEF Covered
      <3>2. PICK v \in Workers : Holds(v) /\ part[v] = i
        BY <1>1, <3>1 DEF IInv, PoolInv, Covered
      <3>3. v # w
        BY <1>2, <3>1, <3>2, PartsAssumption DEF PartNos
      <3> QED
        BY <2>1, <3>2, <3>3 DEF Covered, Holds
    <2>4. \A v \in Workers : pc'[v] = "out" => failed' \/ Parts <= next'
      BY <1>1, <2>2
    <2> QED
      BY <1>1, <2>1, <2>3, <2>4 DEF PoolInv
  <1>3. CASE /\ part[w] < Parts /\ ~failed
             /\ pc' = [pc EXCEPT ![w] = IF SignPayload THEN "hash" ELSE "send"]
             /\ UNCHANGED <<part, hash, attempt>>
    <2>1. (IF SignPayload THEN "hash" ELSE "send") \in {"hash", "send"}
      OBVIOUS
    <2> DEFINE p == IF SignPayload THEN "hash" ELSE "send"
    <2> HIDE DEF p
    <2>2. p \in {"hash", "send"} /\ pc' = [pc EXCEPT ![w] = p]
      BY <1>3, <2>1 DEF p
    <2>3. p \in Pcs /\ p # "out"
      BY <2>2 DEF Pcs
    <2> QED
      BY <1>1, <1>3, <2>2, <2>3, SamePartKeepsPool DEF Holds, shared
  <1> QED
    BY <1>2, <1>3 DEF Check

(* The part has its ETag and the worker holds it no more.                  *)
LEMMA OkKeepsPool ==
  ASSUME IInv, NEW w \in Workers, PartOk(w)
  PROVE  ClaimInv' /\ PoolInv'
  <1>1. /\ pc \in [Workers -> Pcs] /\ part \in [Workers -> Nat] /\ next \in Nat
        /\ pc[w] = "send" /\ UNCHANGED <<step, next, failed>> /\ step = "parts"
        /\ pc' = [pc EXCEPT ![w] = "claim"] /\ part' = [part EXCEPT ![w] = 0]
        /\ etags' = [etags EXCEPT ![part[w]] = file]
        /\ etags \in Contents /\ file \in File
    BY WorkFrame DEF IInv, TypeOK, PartOk, Work, caller
  <1>2. /\ ~Holds(w)'
        /\ \A v \in Workers : v # w => /\ Holds(v)' <=> Holds(v)
                                       /\ part'[v] = part[v] /\ pc'[v] = pc[v]
    BY <1>1 DEF Holds
  <1>3. ClaimInv'
    BY <1>1, <1>2 DEF IInv, ClaimInv
  <1>4. file # NoPart
    BY <1>1 DEF File, NoPart
  <1>5. ASSUME NEW i \in PartNos, i < next
        PROVE  Covered(i)'
    <2>1. CASE i = part[w]
      BY <1>1, <1>4, <2>1 DEF Covered, Contents
    <2>2. CASE i # part[w]
      <3>1. etags'[i] = etags[i]
        BY <1>1, <2>2 DEF Contents
      <3>2. Covered(i)
        BY <1>1, <1>5 DEF IInv, PoolInv
      <3> QED
        BY <1>1, <1>2, <2>2, <3>1, <3>2 DEF Covered
    <2> QED
      BY <2>1, <2>2
  <1>6. \A v \in Workers : pc'[v] = "out" => failed' \/ Parts <= next'
    BY <1>1, <1>2 DEF IInv, PoolInv
  <1> QED
    BY <1>1, <1>3, <1>5, <1>6 DEF PoolInv

LEMMA WorkKeepsPool ==
  ASSUME IInv, NEW w \in Workers, Work(w)
  PROVE  ClaimInv' /\ PoolInv'
  <1>0. pc[w] # "out" /\ step' = step
    BY WorkFrame DEF caller
  <1>1. CASE OpenFile(w)
    <2>1. CASE FailWith(w)
      BY <1>0, <2>1, FailureKeepsPool
    <2>2. CASE ~FailWith(w)
      <3>1. /\ pc[w] = "open" /\ pc' = [pc EXCEPT ![w] = "claim"]
            /\ UNCHANGED <<step, part, shared>>
        BY <1>0, <1>1, <2>2 DEF OpenFile
      <3>2. "claim" \in Pcs /\ ~Holds(w)
        BY <3>1 DEF Pcs, Holds
      <3> QED
        BY <1>0, <3>1, <3>2, SamePartKeepsPool
    <2> QED
      BY <2>1, <2>2
  <1>2. CASE Claim(w)
    BY <1>2, ClaimKeepsPool
  <1>3. CASE Check(w)
    BY <1>3, CheckKeepsPool
  <1>4. CASE HashPart(w)
    <2>1. CASE FailWith(w)
      BY <1>0, <2>1, FailureKeepsPool
    <2>2. CASE ~FailWith(w)
      <3>1. /\ pc[w] = "hash" /\ pc' = [pc EXCEPT ![w] = "send"]
            /\ UNCHANGED <<step, part, shared>>
        BY <1>0, <1>4, <2>2 DEF HashPart
      <3>2. "send" \in Pcs /\ Holds(w) /\ part[w] < Parts
        BY <3>1 DEF Pcs, Holds, IInv, ClaimInv
      <3> QED
        BY <1>0, <3>1, <3>2, SamePartKeepsPool
    <2> QED
      BY <2>1, <2>2
  <1>5. CASE PartOk(w)
    BY <1>5, OkKeepsPool
  <1>6. CASE PartRetry(w)
    <2>1. UNCHANGED <<step, pc, part, next, failed, etags>>
      BY <1>6 DEF PartRetry, caller, shared
    <2> QED
      BY <2>1 DEF IInv, ClaimInv, PoolInv, Covered, Holds
  <1>7. CASE PartFail(w)
    BY <1>0, <1>7, FailureKeepsPool DEF PartFail
  <1> QED
    BY <1>1, <1>2, <1>3, <1>4, <1>5, <1>6, <1>7 DEF Work
-----------------------------------------------------------------------------
(* The steps of the caller, which touch neither the counter, the flag nor  *)
(* the ETags.  Once none of the workers is in, one lemma does for them.    *)
LEMMA OutsideThePool ==
  ASSUME IInv, step # "parts", step' # "parts", UNCHANGED <<pc, part, next>>
  PROVE  ClaimInv' /\ PoolInv'
  BY DEF IInv, ClaimInv, PoolInv, Holds

LEMMA CallerFrame ==
  ASSUME IInv, Caller
  PROVE  /\ UNCHANGED <<call, shared, file, lateParts>>
         /\ step # "done"
         /\ UNCHANGED workers \/ CreateOk
  <1> USE DEF server, late, GoTo, Return, TryAgain
  <1>1. CASE Start \/ GiveUp \/ CreateOk \/ CreateRetry \/ CreateFail \/ Join
    BY <1>1 DEF Start, GiveUp, CreateOk, CreateRetry, CreateFail, Join
  <1>2. CASE PutOk \/ PutRetry \/ PutFail
    BY <1>2 DEF PutOk, PutRetry, PutFail, PutEffect
  <1>3. CASE CompleteOk \/ CompleteRetry \/ CompleteFail
    BY <1>3 DEF CompleteOk, CompleteRetry, CompleteFail, CompleteEffect, Publish
  <1>4. CASE AbortRetry \/ AbortDone
    BY <1>4 DEF AbortRetry, AbortDone, AbortEffect
  <1> QED
    BY <1>1, <1>2, <1>3, <1>4 DEF Caller

(* An object that is published is whole.                                   *)
LEMMA PublishedIsWhole ==
  ASSUME IInv, step = "complete" \/ lateComplete, Publish
  PROVE  /\ object' \in [PartNos -> File] /\ upload' = "completed"
         /\ ~failed /\ AllTagged /\ ~Single
  BY DEF IInv, UploadInv, ModeInv, AllTagged, Publish, TypeOK, Contents

LEMMA CallerKeepsInv ==
  ASSUME IInv, Caller
  PROVE  ClaimInv' /\ PoolInv' /\ UploadInv' /\ ModeInv' /\ ObjectInv'
  <1> USE DEF IInv, GoTo, Return
  <1>0. /\ UNCHANGED <<next, failed, etags, file, lateParts>> /\ step # "done"
        /\ UNCHANGED <<pc, part>> \/ CreateOk
    BY CallerFrame DEF shared, workers
  <1>a. AllTagged' <=> AllTagged
    BY <1>0 DEF AllTagged
  <1>b. Single' = Single
    BY CallerFrame DEF Single
  <1> USE DEF server, late
  <1>1. CASE Start
    <2>1. ClaimInv' /\ PoolInv'
      BY <1>0, <1>1, OutsideThePool DEF Start, workers
    <2>2. UploadInv' /\ ModeInv' /\ ObjectInv'
      BY <1>b, <1>0, <1>1, <1>a DEF Start, UploadInv, ModeInv, ObjectInv
    <2> QED
      BY <2>1, <2>2
  <1>2. CASE GiveUp
    <2>1. ClaimInv' /\ PoolInv'
      BY <1>0, <1>2, OutsideThePool DEF GiveUp, workers
    <2>2. UploadInv' /\ ModeInv' /\ ObjectInv'
      BY <1>b, <1>0, <1>2, <1>a DEF GiveUp, UploadInv, ModeInv, ObjectInv
    <2> QED
      BY <2>1, <2>2
  <1>3. CASE PutOk \/ PutRetry \/ PutFail
    <2>1. /\ step = "put" /\ step' \in {"put", "done"} /\ UNCHANGED <<pc, part>>
          /\ step' = "put" => ret' = ret
      BY <1>3 DEF PutOk, PutRetry, PutFail, TryAgain, workers
    <2>2. /\ object' = object \/ object' = Whole(file)
          /\ UNCHANGED <<upload, lateComplete>>
      BY <1>3, PutEffectType DEF PutOk, PutRetry, PutFail
    <2>3. Whole(file) \in [PartNos -> File]
      BY WholeType DEF TypeOK
    <2>4. Single /\ upload = "none" /\ ~lateComplete /\ ~failed
      BY <1>b, <2>1 DEF UploadInv, ModeInv
    <2>5. ClaimInv' /\ PoolInv'
      BY <1>0, <2>1, OutsideThePool
    <2>6. UploadInv'
      BY <1>0, <1>a, <2>1, <2>2, <2>4 DEF UploadInv
    <2>7. ModeInv'
      BY <1>b, <1>0, <2>1, <2>2, <2>4 DEF ModeInv
    <2>8. ObjectInv'
      BY <1>b, <2>1, <2>2, <2>3, <2>4 DEF ObjectInv, Empty
    <2> QED
      BY <2>5, <2>6, <2>7, <2>8
  <1>4. CASE CreateOk
    <2>1. /\ step = "create" /\ step' = "parts" /\ upload' = "open"
          /\ pc' = [w \in Workers |-> "open"]
          /\ UNCHANGED <<part, object, ret, lateComplete, latePuts>>
      BY <1>4 DEF CreateOk
    <2>2. next = 0 /\ ~failed /\ ~lateComplete /\ ~Single /\ latePuts = {}
      BY <1>b, <2>1 DEF UploadInv, ModeInv
    <2>3. ClaimInv' /\ PoolInv'
      BY <1>0, <2>1, <2>2, PartsAssumption DEF ClaimInv, PoolInv, Holds, PartNos
    <2>4. UploadInv' /\ ModeInv' /\ ObjectInv'
      BY <1>b, <1>0, <1>a, <2>1, <2>2 DEF UploadInv, ModeInv, ObjectInv
    <2> QED
      BY <2>3, <2>4
  <1>5. CASE CreateRetry \/ CreateFail
    <2>1. /\ step = "create" /\ step' \in {"create", "done"}
          /\ step' = "create" => ret' = ret
          /\ UNCHANGED <<pc, part, upload, object, lateComplete, latePuts>>
      BY <1>5 DEF CreateRetry, CreateFail, TryAgain, workers
    <2>2. ClaimInv' /\ PoolInv'
      BY <1>0, <2>1, OutsideThePool
    <2>3. UploadInv' /\ ModeInv' /\ ObjectInv'
      BY <1>b, <1>0, <1>a, <2>1 DEF UploadInv, ModeInv, ObjectInv
    <2> QED
      BY <2>2, <2>3
  <1>6. CASE Join
    <2>1. /\ step = "parts" /\ \A w \in Workers : pc[w] = "out"
          /\ step' = IF failed THEN "abort" ELSE "complete"
          /\ UNCHANGED <<pc, part, upload, object, ret, lateComplete, latePuts>>
      BY <1>6 DEF Join, workers
    <2>2. ASSUME ~failed PROVE AllTagged
      <3>1. PICK w \in Workers : TRUE
        BY PartsAssumption
      <3>2. Parts <= next
        BY <2>1, <2>2, <3>1 DEF PoolInv
      <3>3. \A i \in PartNos : Covered(i)
        BY <2>1, <3>2, PartsAssumption DEF PoolInv, PartNos, TypeOK
      <3> QED
        BY <2>1, <2>2, <3>3 DEF Covered, Holds, AllTagged
    <2>3. ClaimInv' /\ PoolInv'
      BY <1>0, <2>1 DEF ClaimInv, PoolInv, Holds
    <2>4. UploadInv' /\ ModeInv' /\ ObjectInv'
      BY <1>b, <1>0, <1>a, <2>1, <2>2 DEF UploadInv, ModeInv, ObjectInv
    <2> QED
      BY <2>3, <2>4
  <1>7. CASE CompleteOk \/ CompleteRetry \/ CompleteFail
    <2>1. /\ step = "complete" /\ step' \in {"complete", "abort", "done"}
          /\ step' # "done" => ret' = ret
          /\ UNCHANGED <<pc, part, latePuts>>
      BY <1>7 DEF CompleteOk, CompleteRetry, CompleteFail, CompleteEffect, Publish,
                  TryAgain, workers
    <2>2. Publish \/ UNCHANGED <<upload, object>>
      BY <1>7 DEF CompleteOk, CompleteRetry, CompleteFail, CompleteEffect
    <2>3. ~failed /\ AllTagged /\ ~Single
      BY <1>b, <2>1 DEF UploadInv, ModeInv
    <2>4. ClaimInv' /\ PoolInv'
      BY <1>0, <2>1, OutsideThePool
    <2>5. UploadInv' /\ ModeInv'
      BY <1>b, <1>0, <1>a, <2>1, <2>3 DEF UploadInv, ModeInv
    <2>6. ObjectInv'
      BY <1>b, <2>1, <2>2, PublishedIsWhole DEF ObjectInv
    <2> QED
      BY <2>4, <2>5, <2>6
  <1>8. CASE AbortRetry \/ AbortDone
    <2>1. /\ step = "abort" /\ step' \in {"abort", "done"}
          /\ step' = "abort" => ret' = ret
          /\ upload' = upload \/ (upload = "open" /\ upload' = "aborted")
          /\ UNCHANGED <<pc, part, object, lateComplete, latePuts>>
      BY <1>8 DEF AbortRetry, AbortDone, AbortEffect, TryAgain, workers
    <2>2. ClaimInv' /\ PoolInv'
      BY <1>0, <2>1, OutsideThePool
    <2>3. UploadInv' /\ ModeInv' /\ ObjectInv'
      BY <1>b, <1>0, <1>a, <2>1 DEF UploadInv, ModeInv, ObjectInv
    <2> QED
      BY <2>2, <2>3
  <1> QED
    BY <1>1, <1>2, <1>3, <1>4, <1>5, <1>6, <1>7, <1>8 DEF Caller

-----------------------------------------------------------------------------
(* The steps of the environment.                                           *)
LEMMA EnvironmentKeepsInv ==
  ASSUME IInv, ChangeFile \/ Arrival \/ Crash
  PROVE  ClaimInv' /\ PoolInv' /\ UploadInv' /\ ModeInv' /\ ObjectInv'
  <1> USE DEF IInv, caller, workers, shared, server, late
  <1>0. Single' = Single
    BY DEF ChangeFile, Arrival, PartArrives, CompleteArrives, PutArrives, Crash, Single
  <1>1. CASE ChangeFile \/ PartArrives
    <2>1. /\ UNCHANGED <<step, ret, pc, part, next, failed, etags>>
          /\ UNCHANGED <<upload, object, lateComplete, latePuts>>
      BY <1>1 DEF ChangeFile, PartArrives
    <2> QED
      BY <1>0, <2>1 DEF ClaimInv, PoolInv, UploadInv, ModeInv, ObjectInv, Covered, Holds,
                  AllTagged
  <1>2. CASE CompleteArrives
    <2>1. /\ UNCHANGED <<step, ret, pc, part, next, failed, etags, latePuts>>
          /\ lateComplete /\ lateComplete' = FALSE
          /\ Publish \/ UNCHANGED <<upload, object>>
      BY <1>2 DEF CompleteArrives
    <2>2. Publish => /\ object' \in [PartNos -> File] /\ upload' = "completed"
                     /\ ~failed /\ AllTagged /\ ~Single
      BY <2>1, PublishedIsWhole
    <2>3. ClaimInv' /\ PoolInv'
      BY <2>1 DEF ClaimInv, PoolInv, Covered, Holds
    <2>4. step \notin {"start", "put", "create", "parts"}
      BY <2>1 DEF UploadInv
    <2>5. UploadInv'
      BY <2>1, <2>2, <2>4 DEF UploadInv, AllTagged
    <2>6. ModeInv'
      BY <1>0, <2>1, <2>2 DEF ModeInv
    <2>7. ObjectInv'
      BY <1>0, <2>1, <2>2 DEF ObjectInv
    <2> QED
      BY <2>3, <2>5, <2>6, <2>7
  <1>3. CASE PutArrives
    <2>1. /\ UNCHANGED <<step, ret, pc, part, next, failed, etags>>
          /\ UNCHANGED <<upload, lateComplete>>
          /\ \E f \in latePuts : object' = Whole(f) /\ latePuts' = latePuts \ {f}
      BY <1>3 DEF PutArrives
    <2>2. Single /\ upload = "none" /\ object' \in [PartNos -> File]
      BY <2>1, WholeType DEF ModeInv, TypeOK
    <2>3. ClaimInv' /\ PoolInv' /\ UploadInv'
      BY <2>1 DEF ClaimInv, PoolInv, UploadInv, Covered, Holds, AllTagged
    <2>4. ModeInv'
      BY <1>0, <2>1, <2>2 DEF ModeInv
    <2>5. ObjectInv'
      BY <1>0, <2>1, <2>2 DEF ObjectInv
    <2> QED
      BY <2>3, <2>4, <2>5
  <1>4. CASE Crash
    <2>1. /\ step \notin {"done", "dead"} /\ step' = "dead"
          /\ pc' = [w \in Workers |-> "out"]
          /\ UNCHANGED <<ret, next, failed, etags, upload, object, lateComplete, latePuts>>
      BY <1>4 DEF Crash, Running
    <2> QED
      BY <1>0, <2>1 DEF ClaimInv, PoolInv, UploadInv, ModeInv, ObjectInv, Holds, AllTagged
  <1> QED
    BY <1>1, <1>2, <1>3, <1>4 DEF Arrival

-----------------------------------------------------------------------------
LEMMA StutterKeepsInv ==
  ASSUME IInv, UNCHANGED vars
  PROVE  IInv'
  BY DEF IInv, TypeOK, ClaimInv, PoolInv, UploadInv, ModeInv, ObjectInv, Covered, Holds,
         AllTagged, Single, vars, caller, workers, shared, server, late

LEMMA NextIInv ==
  ASSUME IInv, [Next]_vars
  PROVE  IInv'
  <1>1. CASE Caller
    BY <1>1, CallerType, CallerKeepsInv DEF IInv
  <1>2. ASSUME NEW w \in Workers, Work(w) PROVE IInv'
    BY <1>2, WorkType, WorkKeepsPool, WorkKeepsUpload DEF IInv
  <1>3. CASE ChangeFile \/ Arrival \/ Crash
    BY <1>3, EnvironmentType, EnvironmentKeepsInv DEF IInv
  <1>4. CASE UNCHANGED vars
    BY <1>4, StutterKeepsInv
  <1> QED
    BY <1>1, <1>2, <1>3, <1>4 DEF Next

THEOREM Inductive == Spec => []IInv
  <1>1. Init => IInv
    BY InitIInv
  <1>2. IInv /\ [Next]_vars => IInv'
    BY NextIInv
  <1> QED
    BY <1>1, <1>2, PTL DEF Spec

(* Every variable of put_file() keeps its type, with any number of         *)
(* workers, parts and retries.                                             *)
THEOREM TypeCorrect == Spec => []TypeOK
  <1>1. IInv => TypeOK
    BY DEF IInv
  <1> QED
    BY <1>1, Inductive, PTL

(* put_file() never asks for a completion in which a part is missing.      *)
THEOREM CompletionsAreWhole == Spec => []CompletionIsWhole
  <1>1. IInv => CompletionIsWhole
    BY DEF IInv, UploadInv, AllTagged, CompletionIsWhole
  <1> QED
    BY <1>1, Inductive, PTL

(* The shared counter gives every part to one worker.                      *)
THEOREM PartsAreNotShared == Spec => []OneWorkerPerPart
  <1>1. IInv => OneWorkerPerPart
    BY DEF IInv, ClaimInv, Holds, OneWorkerPerPart
  <1> QED
    BY <1>1, Inductive, PTL

(* After a part has failed there is no object, whatever arrives later.     *)
THEOREM FailuresAreFinal == Spec => []FailureIsFinal
  <1>1. IInv => FailureIsFinal
    BY DEF IInv, UploadInv, ModeInv, ObjectInv, FailureIsFinal
  <1> QED
    BY <1>1, Inductive, PTL
-----------------------------------------------------------------------------
(* Nothing is cut short: the server holds or will get a part only as read  *)
(* from a file that had it to its end, and the body of one PUT only as     *)
(* read from a file at least as long as the one measured.                  *)
Complete(c) == \A i \in PartNos : c[i] # NoPart => i < c[i].len

LengthInv ==
    /\ Complete(stored) /\ Complete(object)
    /\ \A m \in lateParts : m[1] < m[2].len
    /\ \A f \in latePuts : Parts <= f.len

LEMMA WholeIsComplete ==
  ASSUME NEW f \in File, Parts <= f.len
  PROVE  Complete(Whole(f))
  BY PartsAssumption DEF Complete, Whole, PartNos, File

LEMMA EmptyIsComplete == Complete(Empty)
  BY DEF Complete, Empty

LEMMA PublishKeepsLengths ==
  ASSUME LengthInv, Publish \/ UNCHANGED <<stored, object>>
  PROVE  Complete(stored)' /\ Complete(object)'
  BY EmptyIsComplete DEF LengthInv, Publish, Complete

LEMMA PutKeepsLengths ==
  ASSUME TypeOK, LengthInv, PutEffect
  PROVE  LengthInv'
  <1>1. CASE UNCHANGED server
    BY <1>1 DEF server, late, LengthInv, Complete
  <1>2. CASE Matching /\ object' = Whole(file) /\ UNCHANGED <<stored, late>>
    <2>1. Complete(object)'
      BY <1>2, WholeIsComplete DEF Matching, Sendable, TypeOK, Complete
    <2> QED
      BY <1>2, <2>1 DEF late, LengthInv, Complete
  <1>3. CASE Matching /\ latePuts' = latePuts \cup {file}
             /\ UNCHANGED <<stored, object, lateParts>>
    BY <1>3 DEF Matching, Sendable, LengthInv, Complete
  <1> QED
    BY <1>1, <1>2, <1>3 DEF PutEffect, late

(* What is stored or is going to be is a part that could be read.          *)
LEMMA StoreIsComplete ==
  ASSUME TypeOK, LengthInv, NEW w \in Workers, Accepted(w), StorePart(w)
  PROVE  Complete(stored)'
  BY DEF TypeOK, Contents, LengthInv, Accepted, Readable, StorePart, Complete

LEMMA PartKeepsLengths ==
  ASSUME TypeOK, LengthInv, NEW w \in Workers, PartEffect(w)
  PROVE  LengthInv'
  <1>1. CASE UNCHANGED server
    BY <1>1 DEF server, late, LengthInv, Complete
  <1>2. CASE Accepted(w) /\ StorePart(w) /\ UNCHANGED <<object, late>>
    BY <1>2, StoreIsComplete DEF late, LengthInv, Complete
  <1>3. CASE /\ Accepted(w) /\ lateParts' = lateParts \cup {<<part[w], file>>}
             /\ UNCHANGED <<stored, object, latePuts>>
    BY <1>3 DEF Accepted, Readable, LengthInv, Complete
  <1> QED
    BY <1>1, <1>2, <1>3 DEF PartEffect

LEMMA LengthStep ==
  ASSUME TypeOK, LengthInv, [Next]_vars
  PROVE  LengthInv'
  <1>1. CASE Start \/ GiveUp \/ CreateOk \/ CreateRetry \/ CreateFail \/ Join
    BY <1>1 DEF Start, GiveUp, CreateOk, CreateRetry, CreateFail, Join, server, late,
                LengthInv, Complete
  <1>2. CASE PutOk
    <2>1. Complete(object)'
      BY <1>2, WholeIsComplete DEF PutOk, Matching, Sendable, TypeOK, Complete
    <2> QED
      BY <1>2, <2>1 DEF PutOk, late, LengthInv, Complete
  <1>3. CASE PutRetry \/ PutFail
    BY <1>3, PutKeepsLengths DEF PutRetry, PutFail
  <1>4. CASE CompleteOk \/ CompleteRetry \/ CompleteFail
    <2>1. (Publish \/ UNCHANGED <<stored, object>>) /\ UNCHANGED <<lateParts, latePuts>>
      BY <1>4 DEF CompleteOk, CompleteRetry, CompleteFail, CompleteEffect, server, late
    <2> QED
      BY <2>1, PublishKeepsLengths DEF LengthInv
  <1>5. CASE AbortRetry \/ AbortDone
    <2>1. (stored' = stored \/ stored' = Empty) /\ UNCHANGED <<object, lateParts, latePuts>>
      BY <1>5 DEF AbortRetry, AbortDone, AbortEffect, server, late
    <2> QED
      BY <2>1, EmptyIsComplete DEF LengthInv, Complete
  <1>6. ASSUME NEW w \in Workers, Work(w) PROVE LengthInv'
    <2>1. CASE OpenFile(w) \/ Claim(w) \/ Check(w) \/ HashPart(w)
      BY <2>1 DEF OpenFile, Claim, Check, HashPart, server, late, LengthInv, Complete
    <2>2. CASE PartOk(w)
      <3>1. Complete(stored)'
        BY <2>2, StoreIsComplete DEF PartOk
      <3> QED
        BY <2>2, <3>1 DEF PartOk, late, LengthInv, Complete
    <2>3. CASE PartRetry(w) \/ PartFail(w)
      BY <2>3, PartKeepsLengths DEF PartRetry, PartFail
    <2> QED
      BY <1>6, <2>1, <2>2, <2>3 DEF Work
  <1>7. CASE ChangeFile \/ Crash \/ UNCHANGED vars
    BY <1>7 DEF ChangeFile, Crash, vars, server, late, LengthInv, Complete
  <1>8. CASE PartArrives
    <2>1. PICK m \in lateParts :
              /\ lateParts' = lateParts \ {m}
              /\ stored' = stored \/ stored' = [stored EXCEPT ![m[1]] = m[2]]
      BY <1>8 DEF PartArrives
    <2>2. Complete(stored)'
      BY <2>1 DEF TypeOK, Contents, LengthInv, Complete
    <2> QED
      BY <1>8, <2>1, <2>2 DEF PartArrives, LengthInv, Complete
  <1>9. CASE CompleteArrives
    <2>1. (Publish \/ UNCHANGED <<stored, object>>) /\ UNCHANGED <<lateParts, latePuts>>
      BY <1>9 DEF CompleteArrives
    <2> QED
      BY <2>1, PublishKeepsLengths DEF LengthInv
  <1>10. CASE PutArrives
    <2>1. PICK f \in latePuts : object' = Whole(f) /\ latePuts' = latePuts \ {f}
      BY <1>10 DEF PutArrives
    <2>2. Complete(object)'
      BY <2>1, WholeIsComplete DEF TypeOK, LengthInv, Complete
    <2> QED
      BY <1>10, <2>1, <2>2 DEF PutArrives, LengthInv, Complete
  <1> QED
    BY <1>1, <1>2, <1>3, <1>4, <1>5, <1>6, <1>7, <1>8, <1>9, <1>10
       DEF Next, Caller, Arrival

LEMMA NothingIsCutShort == Spec => []LengthInv
  <1>1. Init => LengthInv
    BY EmptyIsComplete DEF Init, LengthInv
  <1>2. TypeOK /\ LengthInv /\ [Next]_vars => LengthInv'
    BY LengthStep
  <1> QED
    BY <1>1, <1>2, TypeCorrect, PTL DEF Spec
-----------------------------------------------------------------------------
(* An object that has every part, none of them cut short, is a whole one.  *)
LEMMA CompleteIsWhole ==
  ASSUME NEW o \in [PartNos -> File], Complete(o)
  PROVE  o \in Promise!Whole
  BY DEF Promise!Whole, Promise!PartNos, Promise!File, Complete, PartNos, File, NoPart

(* The refinement: every step publishes a whole object, ends the call as   *)
(* UploadedObject allows, or changes neither.                              *)
LEMMA StepsArePromised ==
  ASSUME IInv, LengthInv, [Next]_vars
  PROVE  [Promise!Next]_<<object, ret>>
  <1> USE DEF Promise!Next, Promise!Publish, Promise!Succeed, Promise!Fail
  <1>0. object' \in [PartNos -> File] => object' \in Promise!Whole
    <2>1. Complete(object')
      BY LengthStep DEF IInv, LengthInv, Complete
    <2> QED
      BY <2>1, CompleteIsWhole
  <1>1. CASE Caller
    <2>0. step # "done" /\ ret = "none"
      BY <1>1, CallerFrame DEF IInv, ObjectInv
    <2>1. Whole(file) \in [PartNos -> File]
      BY WholeType DEF IInv, TypeOK
    <2>2. CASE Start \/ GiveUp \/ CreateOk \/ CreateRetry \/ CreateFail \/ Join
      BY <2>0, <2>2 DEF Start, GiveUp, CreateOk, CreateRetry, CreateFail, Join, TryAgain,
                        GoTo, Return, server
    <2>3. CASE PutOk
      BY <1>0, <2>0, <2>1, <2>3 DEF PutOk, Return
    <2>4. CASE PutRetry \/ PutFail
      <3>1. object' = object \/ object' = Whole(file)
        BY <2>4, PutEffectType DEF PutRetry, PutFail, IInv
      <3>2. ret' = ret \/ ret' = "fail"
        BY <2>4 DEF PutRetry, PutFail, TryAgain, Return
      <3> QED
        BY <1>0, <2>0, <2>1, <3>1, <3>2
    <2>5. CASE CompleteOk
      <3>1. object' \in [PartNos -> File]
        BY <2>5, PublishedIsWhole DEF CompleteOk, IInv, ObjectInv
      <3> QED
        BY <1>0, <2>0, <2>5, <3>1 DEF CompleteOk, Return
    <2>6. CASE CompleteRetry \/ CompleteFail
      <3>1. object' \in [PartNos -> File] \/ object' = object
        BY <2>6, PublishedIsWhole DEF CompleteRetry, CompleteFail, CompleteEffect, server
      <3>2. ret' = ret
        BY <2>6 DEF CompleteRetry, CompleteFail, TryAgain, GoTo
      <3> QED
        BY <1>0, <3>1, <3>2
    <2>7. CASE AbortRetry \/ AbortDone
      BY <2>0, <2>7 DEF AbortRetry, AbortDone, AbortEffect, TryAgain, Return, server
    <2> QED
      BY <1>1, <2>2, <2>3, <2>4, <2>5, <2>6, <2>7 DEF Caller
  <1>2. ASSUME NEW w \in Workers, Work(w)
        PROVE  UNCHANGED <<object, ret>>
    BY <1>2, WorkFrame DEF caller
  <1>3. CASE ChangeFile \/ PartArrives \/ Crash
    BY <1>3 DEF ChangeFile, PartArrives, Crash, caller, server
  <1>4. CASE CompleteArrives
    BY <1>0, <1>4, PublishedIsWhole DEF CompleteArrives, caller
  <1>5. CASE PutArrives
    <2>1. \E f \in latePuts : object' = Whole(f)
      BY <1>5 DEF PutArrives
    <2>2. object' \in [PartNos -> File]
      BY <2>1, WholeType DEF IInv, TypeOK
    <2> QED
      BY <1>0, <1>5, <2>2 DEF PutArrives, caller
  <1>6. CASE UNCHANGED vars
    BY <1>6 DEF vars, caller, server
  <1> QED
    BY <1>1, <1>2, <1>3, <1>4, <1>5, <1>6 DEF Next, Arrival

(* The object is absent or whole at every moment, never with a part cut    *)
(* short, and put_file() reports success only when it is there: whatever answers are lost, however late  *)
(* requests arrive, whenever the file changes and the process dies.        *)
THEOREM FilesAreUploadedWhole == Spec => PutsTheFile
  <1>1. Init => Promise!Init
    BY DEF Init, Promise!Init, Promise!Absent, Empty, NoPart, PartNos,
           Promise!NoPart, Promise!PartNos
  <1>2. IInv /\ LengthInv /\ [Next]_vars => [Promise!Next]_<<object, ret>>
    BY StepsArePromised
  <1> QED
    BY <1>1, <1>2, Inductive, NothingIsCutShort, PTL
       DEF Spec, PutsTheFile, Promise!Spec, Promise!vars
=============================================================================
