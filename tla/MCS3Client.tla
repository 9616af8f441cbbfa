----------------------------- MODULE MCS3Client -----------------------------
(* The instance of S3Client for TLC.                                       *)
EXTENDS S3Client

CONSTANTS ann, bob

(* Two writers of one object; a writer and a reader of one; a writer of    *)
(* two objects and a listing of three.                                     *)
MCWorkloads ==
    {[calls |-> [c \in Clients |-> {"put"}], on |-> {1}, puts |-> 3, deletes |-> 0],
     [calls |-> [c \in Clients |-> IF c = ann THEN {"put"} ELSE {"head", "read"}],
      on |-> {1}, puts |-> 2, deletes |-> 1],
     [calls |-> [c \in Clients |-> IF c = ann THEN {"put"} ELSE {"list"}],
      on |-> {1, 2}, puts |-> 1, deletes |-> 1]}

(* The second put is shorter than the other versions.                      *)
MCLength == [v \in Versions |-> IF v = 2 THEN 1 ELSE 2]

(* None, all of an object, its end, and a range that overflows.            *)
MCRanges ==
    {[offset |-> 0, n |-> 0], [offset |-> 0, n |-> 2],
     [offset |-> 1, n |-> 1], [offset |-> 2, n |-> 3]}
=============================================================================
