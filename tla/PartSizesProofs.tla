--------------------------- MODULE PartSizesProofs --------------------------
(***************************************************************************)
(* Where the arithmetic does not wrap, the parts are as many as S3 allows  *)
(* and are the file, each byte once; and what happens where it does.       *)
(***************************************************************************)
EXTENDS PartSizes, TLAPS

(* Rounding up is the least number of b's that hold a.                     *)
LEMMA CeilDivBounds ==
  ASSUME NEW a \in Nat \ {0}, NEW b \in Nat \ {0}, a + b <= Word
  PROVE  /\ CeilDiv(a, b) \in Nat \ {0}
         /\ a <= CeilDiv(a, b) * b
         /\ CeilDiv(a, b) * b < a + b
  <1> DEFINE s == a + b - 1
             q == s \div b
  <1>1. s \in Nat /\ s < Word /\ b <= s
    BY SizesAssumption
  <1>2. s % Word = s
    BY <1>1, SizesAssumption
  <1>3. q \in Nat /\ q * b <= s /\ s < q * b + b
    BY <1>1
  <1>4. q # 0
    BY <1>1, <1>3
  <1> QED BY <1>2, <1>3, <1>4 DEF CeilDiv

(* The part size is at least the minimum and what the file needs, and      *)
(* small enough that counting the parts does not wrap.                     *)
LEMMA PartSizeBounds ==
  ASSUME NEW size \in Words \ {0}, NEW requested \in Words, NoWrap(size, requested)
  PROVE  LET ps == PartSizeFor(size, requested)
         IN  /\ ps \in Nat \ {0} /\ MinPartSize <= ps
             /\ CeilDiv(size, MaxParts) <= ps
             /\ size + ps <= Word
  <1> DEFINE least == Larger(requested, MinPartSize)
             needed == CeilDiv(size, MaxParts)
             raised == CeilDiv(needed, MiB) * MiB
  <1>1. size \in Nat \ {0} /\ requested \in Nat
    BY DEF Words
  <1>2. /\ needed \in Nat \ {0}
        /\ needed * MaxParts < size + MaxParts
    BY <1>1, CeilDivBounds, SizesAssumption DEF NoWrap
  <1>3. needed <= size
    <2>1. needed <= needed * MaxParts - MaxParts + 1
      <3>1. (needed - 1) * MaxParts >= needed - 1
        BY <1>2, SizesAssumption
      <3> QED BY <3>1, <1>2, SizesAssumption
    <2> QED BY <2>1, <1>1, <1>2, SizesAssumption
  <1>4. least \in Nat \ {0} /\ MinPartSize <= least /\ size + least <= Word
    BY <1>1, SizesAssumption DEF Larger, NoWrap
  <1>5. CASE least < needed
    <2>1. raised \in Nat /\ needed <= raised /\ raised < needed + MiB
      <3>1. needed + MiB <= Word
        BY <1>1, <1>2, <1>3, SizesAssumption DEF NoWrap
      <3> QED BY <3>1, <1>2, CeilDivBounds, SizesAssumption
    <2>2. raised < Word /\ size + raised <= Word
      BY <2>1, <1>1, <1>2, <1>3, SizesAssumption DEF NoWrap
    <2>3. raised % Word = raised
      BY <2>1, <2>2, SizesAssumption
    <2>4. PartSizeFor(size, requested) = raised
      BY <1>5, <2>3 DEF PartSizeFor
    <2> QED BY <2>1, <2>2, <2>4, <1>2, <1>4, <1>5, SizesAssumption
  <1>6. CASE ~(least < needed)
    <2>1. PartSizeFor(size, requested) = least
      BY <1>6 DEF PartSizeFor
    <2> QED BY <2>1, <1>2, <1>4, <1>6
  <1> QED BY <1>5, <1>6

(* A multiple of a smaller number is smaller.                              *)
LEMMA TimesIsMonotone ==
  ASSUME NEW a \in Nat, NEW b \in Nat, NEW c \in Nat, a <= b
  PROVE  a * c <= b * c
  BY SMT

(* "raised (to a whole MiB) so the file fits in 10,000 parts" (the comment *)
(* at part_size_for): a file has at least one part and no more than S3     *)
(* allows, none is below S3's minimum, and all but the last are full.      *)
THEOREM FilesFitInTheirParts ==
  ASSUME NEW size \in Words \ {0}, NEW requested \in Words, NoWrap(size, requested)
  PROVE  LET ps == PartSizeFor(size, requested)
             n == PartCount(size, ps)
         IN  /\ n \in 1 .. MaxParts /\ MinPartSize <= ps
             /\ (n - 1) * ps < size /\ size <= n * ps
  <1> DEFINE ps == PartSizeFor(size, requested)
             n == PartCount(size, ps)
             needed == CeilDiv(size, MaxParts)
  <1>1. size \in Nat \ {0}
    BY DEF Words
  <1>2. ps \in Nat \ {0} /\ MinPartSize <= ps /\ needed <= ps /\ size + ps <= Word
    BY PartSizeBounds
  <1> HIDE DEF ps
  <1>3. n \in Nat \ {0} /\ size <= n * ps /\ n * ps < size + ps
    BY <1>1, <1>2, CeilDivBounds DEF PartCount
  <1>4. needed \in Nat \ {0} /\ size <= needed * MaxParts
    BY <1>1, CeilDivBounds, SizesAssumption DEF NoWrap
  <1> HIDE DEF n, needed
  <1>5. size <= ps * MaxParts
    BY <1>1, <1>2, <1>4, TimesIsMonotone, SizesAssumption
  <1>6. (n - 1) * ps < size
    <2>1. (n - 1) * ps = n * ps - ps
      BY <1>2, <1>3
    <2> QED BY <2>1, <1>1, <1>2, <1>3
  <1>7. n <= MaxParts
    <2> SUFFICES ASSUME MaxParts <= n - 1 PROVE FALSE
      BY <1>3, SizesAssumption
    <2>1. MaxParts * ps <= (n - 1) * ps
      BY <1>2, <1>3, TimesIsMonotone, SizesAssumption
    <2>2. MaxParts * ps = ps * MaxParts
      BY <1>2, SizesAssumption
    <2> QED BY <2>1, <2>2, <1>1, <1>2, <1>3, <1>5, <1>6, SizesAssumption
  <1> QED BY <1>2, <1>3, <1>6, <1>7 DEF ps, n

(* The parts the workers claim are the file: each begins where the one     *)
(* before it ends, has at least one byte and at most the part size, and    *)
(* the last ends where the file does.                                      *)
THEOREM PartsAreTheFile ==
  ASSUME NEW size \in Words \ {0}, NEW requested \in Words, NoWrap(size, requested),
         NEW i \in 0 .. PartCount(size, PartSizeFor(size, requested)) - 1
  PROVE  LET ps == PartSizeFor(size, requested)
             end == PartOffset(i, ps) + PartLength(i, size, ps)
         IN  /\ PartLength(i, size, ps) \in 1 .. ps
             /\ end = IF i = PartCount(size, ps) - 1 THEN size ELSE PartOffset(i + 1, ps)
  <1> DEFINE ps == PartSizeFor(size, requested)
             n == PartCount(size, ps)
  <1>1. size \in Nat \ {0} /\ size < Word
    BY SizesAssumption DEF Words
  <1>2. ps \in Nat \ {0}
    BY PartSizeBounds
  <1>3. n \in Nat \ {0} /\ (n - 1) * ps < size /\ size <= n * ps
    BY FilesFitInTheirParts, SizesAssumption
  <1> HIDE DEF ps
  <1>4. i \in Nat /\ i <= n - 1
    BY <1>3 DEF ps
  <1> HIDE DEF n
  <1>5. i * ps \in Nat /\ i * ps <= (n - 1) * ps
    BY <1>2, <1>3, <1>4, TimesIsMonotone
  <1>6. PartOffset(i, ps) = i * ps /\ i * ps < size
    <2>1. i * ps < size
      BY <1>1, <1>2, <1>3, <1>5
    <2>2. (i * ps) % Word = i * ps
      BY <2>1, <1>1, <1>5, SizesAssumption
    <2> QED BY <2>1, <2>2 DEF PartOffset
  <1>7. (i + 1) * ps = i * ps + ps
    BY <1>2, <1>4
  <1>8. PartLength(i, size, ps) = IF ps < size - i * ps THEN ps ELSE size - i * ps
    BY <1>6 DEF PartLength, Smaller
  <1>9. CASE i = n - 1
    <2>1. size <= i * ps + ps
      BY <1>3, <1>7, <1>9
    <2> QED BY <2>1, <1>1, <1>2, <1>5, <1>6, <1>8, <1>9 DEF ps, n
  <1>10. CASE i # n - 1
    <2>1. i + 1 <= n - 1 /\ i + 1 \in Nat
      BY <1>3, <1>4, <1>10
    <2>2. (i + 1) * ps <= (n - 1) * ps
      BY <2>1, <1>2, <1>3, TimesIsMonotone
    <2>3. (i + 1) * ps \in Nat /\ (i + 1) * ps < size
      BY <2>1, <2>2, <1>1, <1>2, <1>3
    <2>4. PartOffset(i + 1, ps) = (i + 1) * ps
      BY <2>3, <1>1, SizesAssumption DEF PartOffset
    <2> QED BY <2>3, <2>4, <1>1, <1>2, <1>5, <1>6, <1>7, <1>8, <1>10 DEF ps, n
  <1> QED BY <1>9, <1>10

(* What the code does not guard against: a part size so large that the     *)
(* sum wraps leaves the file without parts.  put_file has created the      *)
(* upload then, computes a pool of no threads, and the reservation of room *)
(* for one fewer throws: the upload is neither completed nor aborted.      *)
THEOREM HugePartSizesLeaveNoParts ==
  ASSUME NEW size \in Words \ {0}, NEW requested \in Words,
         MinPartSize <= requested, CeilDiv(size, MaxParts) <= requested,
         CeilDiv(size, MaxParts) \in Nat,
         size + requested > Word
  PROVE  PartCount(size, PartSizeFor(size, requested)) = 0
  <1>1. size \in Nat \ {0} /\ requested \in Nat \ {0} /\ size < Word /\ requested < Word
    BY SizesAssumption DEF Words
  <1>2. PartSizeFor(size, requested) = requested
    BY <1>1, SizesAssumption DEF PartSizeFor, Larger
  <1>3. (size + requested - 1) % Word = size + requested - 1 - Word
    BY <1>1, SizesAssumption
  <1>4. size + requested - 1 - Word \in Nat /\ size + requested - 1 - Word < requested
    BY <1>1, SizesAssumption
  <1>5. (size + requested - 1 - Word) \div requested = 0
    BY <1>1, <1>4
  <1> QED BY <1>2, <1>3, <1>5 DEF PartCount, CeilDiv
=============================================================================
