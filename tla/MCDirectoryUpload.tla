--------------------------- MODULE MCDirectoryUpload ------------------------
(* DirectoryUpload on a small tree.                                        *)
EXTENDS DirectoryUpload

CONSTANTS small, other, large

(* Three entries, two of them of one size.                                 *)
Tree == {small, other, large}
TwoSizes == [f \in Tree |-> IF f = large THEN 2 ELSE 1]
=============================================================================
