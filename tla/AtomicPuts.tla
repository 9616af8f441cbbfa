----------------------------- MODULE AtomicPuts -----------------------------
(***************************************************************************)
(* What S3Client::put() promises.  The conditional headers make a put an   *)
(* atomic create or compare-and-swap: it takes effect only at a moment at  *)
(* which its condition holds.  One that says that it succeeded has taken   *)
(* effect, one that says that its condition failed says so at a moment at  *)
(* which it does not hold -- because of another's put, a deletion, or its  *)
(* own effect, of which it was not told.  One that failed may have taken   *)
(* effect, may do so later, and so may one that has already: a request     *)
(* sent twice.                                                             *)
(*                                                                         *)
(* The put that wrote an object is its version, and its ETag.              *)
(***************************************************************************)
EXTENDS Integers, Sequences

CONSTANTS Keys, Absent, Any

VARIABLES
    bucket,         \* the version under each key, or Absent
    puts,           \* the puts there have been: their keys and conditions
    written,        \* those that have taken effect
    answers         \* what the caller of each was told, or "none" yet

vars == <<bucket, puts, written, answers>>

Holds(p) == puts[p].cond \in {Any, bucket[puts[p].key]}

Init ==
    /\ bucket \in [Keys -> {0, Absent}]
    /\ puts = <<>> /\ written = {} /\ answers = <<>>

Issue ==
    /\ \E k \in Keys, v \in {Any, Absent} \cup 0 .. Len(puts) :
           puts' = Append(puts, [key |-> k, cond |-> v])
    /\ answers' = Append(answers, "none")
    /\ UNCHANGED <<bucket, written>>

Effect(p) ==
    /\ Holds(p)
    /\ bucket' = [bucket EXCEPT ![puts[p].key] = p]
    /\ written' = written \cup {p}

Write(p) == Effect(p) /\ UNCHANGED <<puts, answers>>

Tell(p, answer) ==
    /\ answers[p] = "none"
    /\ answers' = [answers EXCEPT ![p] = answer]
    /\ UNCHANGED puts

Succeed(p) ==
    /\ Tell(p, "ok")
    /\ Effect(p) \/ (p \in written /\ UNCHANGED <<bucket, written>>)

Refuse(p) ==
    /\ Tell(p, "refused")
    /\ ~Holds(p)
    /\ UNCHANGED <<bucket, written>>

Fail(p) ==
    /\ Tell(p, "fail")
    /\ Effect(p) \/ UNCHANGED <<bucket, written>>

Delete(k) ==
    /\ bucket' = [bucket EXCEPT ![k] = Absent]
    /\ UNCHANGED <<puts, written, answers>>

Next ==
    \/ Issue
    \/ \E p \in DOMAIN puts : Write(p) \/ Succeed(p) \/ Refuse(p) \/ Fail(p)
    \/ \E k \in Keys : Delete(k)

Spec == Init /\ [][Next]_vars
=============================================================================
