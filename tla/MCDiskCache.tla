---------------------------- MODULE MCDiskCache -----------------------------
(* DiskCache on small instances: blocks of one or two bytes of one object. *)
EXTENDS DiskCache

(* Every block starts at its key, which is an offset into the object.  The *)
(* odd ones are stored with two read-ahead sizes: both are whole blocks.   *)
MCWhole == [k \in Keys |-> {[from |-> k, len |-> n] : n \in 1 .. 1 + (k % 2)}]
=============================================================================
