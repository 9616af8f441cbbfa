----------------------------- MODULE MCS3Stream -----------------------------
(* S3Stream on small instances: an object of a few bytes.                  *)
EXTENDS S3Stream

UniformReadAhead == [s \in Streams |-> 2]

(* One stream with a small window, the others with a larger one.           *)
MixedReadAhead ==
    LET small == CHOOSE s \in Streams : TRUE
    IN  [s \in Streams |-> IF s = small THEN 2 ELSE 3]
Back == {-1}
TellAndBack == {-1, 0}
=============================================================================
