------------------------------ MODULE PartSizes -----------------------------
(***************************************************************************)
(* How put_file() of src/s3_reader.cpp cuts a file into parts:             *)
(* part_size_for(), the number of parts, and the range of each, in the     *)
(* unsigned arithmetic of the code, which wraps at Word.                   *)
(***************************************************************************)
EXTENDS Integers

CONSTANTS
    Word,           \* 2^64
    MiB,            \* kMiB
    MinPartSize,    \* kMinPartSize
    MaxParts        \* kMaxParts

ASSUME SizesAssumption ==
    /\ Word \in Nat \ {0} /\ MiB \in Nat \ {0}
    /\ MinPartSize \in Nat \ {0} /\ MaxParts \in Nat \ {0}

Words == 0 .. Word - 1

Larger(a, b) == IF a < b THEN b ELSE a
Smaller(a, b) == IF a < b THEN a ELSE b

(* (a + b - 1) / b, rounded up unless the sum wraps.                       *)
CeilDiv(a, b) == ((a + b - 1) % Word) \div b

(* The size requested, at least the minimum, raised to a whole MiB when    *)
(* the file would have too many parts.                                     *)
PartSizeFor(size, requested) ==
    LET ps == Larger(requested, MinPartSize)
        needed == CeilDiv(size, MaxParts)
    IN  IF ps < needed THEN (CeilDiv(needed, MiB) * MiB) % Word ELSE ps

PartCount(size, ps) == CeilDiv(size, ps)
PartOffset(i, ps) == (i * ps) % Word
PartLength(i, size, ps) == Smaller(ps, size - PartOffset(i, ps))

(* No sum of put_file's wraps for this file and this part size.            *)
NoWrap(size, requested) ==
    /\ size + requested <= Word
    /\ size + size + MaxParts + MiB + MinPartSize <= Word
=============================================================================
