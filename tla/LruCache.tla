------------------------------ MODULE LruCache ------------------------------
(***************************************************************************)
(* What the disk cache of s3_reader.cpp promises about WHICH blocks it     *)
(* keeps: a least-recently-used set.  The cache is a set of blocks and the *)
(* order in which they were last used.  A hit or a store makes its block   *)
(* the most recent one; a store then trims the cache, dropping the         *)
(* least recent block while there are more than the capacity allows, and   *)
(* nothing else happens to the cache until it is trimmed.  The process may *)
(* die at any moment, in the middle of a trim too; the blocks outlive it.  *)
(* A use is counted and dated: one that is counted and does not make its   *)
(* block more recent than it was is not a use.                             *)
(***************************************************************************)
EXTENDS Naturals, FiniteSets

CONSTANT Keys           \* the blocks there can be

VARIABLES
    cached,             \* the cached blocks
    older,              \* <<j, k>>: j was used, or stored, less recently than k
    capacity,           \* how many blocks a trim leaves
    trimming,           \* a store has added its block and not finished trimming
    hits,               \* how many uses have been counted
    clock               \* when a block was used or stored last

order == <<cached, older>>
vars == <<order, capacity, trimming, hits, clock>>

Without(k) == {p \in older : k \notin {p[1], p[2]}}

Init ==
    /\ cached = {} /\ older = {}
    /\ capacity = 0 /\ trimming = FALSE /\ hits = 0 /\ clock = 0

MostRecent(k) ==
    /\ cached' = cached \cup {k}
    /\ older' = Without(k) \cup {<<j, k>> : j \in cached \ {k}}
    /\ clock' > clock

SetCapacity ==
    /\ ~trimming
    /\ capacity' \in Nat
    /\ UNCHANGED <<order, trimming, hits, clock>>

Use(k) ==
    /\ ~trimming
    /\ k \in cached
    /\ MostRecent(k)
    /\ hits' \in {hits, hits + 1}           \* the count may stop at a bound
    /\ UNCHANGED <<capacity, trimming>>

Insert(k) ==
    /\ ~trimming
    /\ MostRecent(k)
    /\ trimming' = TRUE
    /\ UNCHANGED <<capacity, hits>>

TooMany == Cardinality(cached) > capacity

DropOldest(k) ==
    /\ trimming
    /\ TooMany
    /\ k \in cached
    /\ \A j \in cached : <<j, k>> \notin older
    /\ cached' = cached \ {k}
    /\ older' = Without(k)
    /\ UNCHANGED <<capacity, trimming, hits, clock>>

Trimmed ==
    /\ trimming
    /\ ~TooMany
    /\ trimming' = FALSE
    /\ UNCHANGED <<order, capacity, hits, clock>>

Die ==
    /\ capacity' = 0
    /\ trimming' = FALSE
    /\ hits' = 0
    /\ UNCHANGED <<order, clock>>

Next ==
    \/ SetCapacity \/ Trimmed \/ Die
    \/ \E k \in Keys : Use(k) \/ Insert(k) \/ DropOldest(k)

Spec == Init /\ [][Next]_vars
=============================================================================
