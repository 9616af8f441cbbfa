----------------------------- MODULE DiskCache ------------------------------
(***************************************************************************)
(* The disk-resident LRU block cache: class DiskCache of src/s3_reader.cpp.*)
(*                                                                         *)
(* One process, many threads, one cache directory that outlives it.  A     *)
(* block is a file named after its key; a store writes <key>.tmp, closes   *)
(* it, renames it over the block and then evicts the files with the oldest *)
(* mtime, all of it under the mutex mu_.  A block's bytes are abstracted   *)
(* to where in the object they come from and how many they are.            *)
(*                                                                         *)
(* The mutex is modelled as such: every step of a store is an action, so   *)
(* that the process can die between any two of them, and the temp file is  *)
(* shared by the threads that store the same block, as it is on disk.      *)
(***************************************************************************)
EXTENDS Integers, FiniteSets

CONSTANTS
    Threads,        \* the threads that use the cache
    NoThread,       \* the holder of a mutex nobody holds
    Keys,           \* block keys: (uri hash, chunk start) pairs
    NoKey,          \* the key of a job there is not
    Whole,          \* Whole[k]: the complete contents of block k
    Capacities,     \* the max_blocks arguments configure_disk_cache is given
    Pinned,         \* blocks the process may read but not touch or remove
                    \* (another user's, in a directory with the sticky bit)
    Faults,         \* the file operations that may fail
    FineClock,      \* no two mtimes are ever equal
    MaxClock,       \* bound: the ticks the clock counts
    MaxStat,        \* bound: where the hit and miss counters stop
    MaxCrashes      \* bound: how often the process dies

AllFaults == {"mkdir", "open", "read", "write", "close", "list"}
Data == [from : Nat, len : Nat]
NoFile == [from |-> 0, len |-> -1]

ASSUME ThreadsAssumption == NoThread \notin Threads
ASSUME KeysAssumption == NoKey \notin Keys
ASSUME WholeAssumption ==
    /\ Whole \in [Keys -> SUBSET Data]
    /\ \A k \in Pinned : Whole[k] # {}
ASSUME ParametersAssumption ==
    /\ Capacities \subseteq Int
    /\ Pinned \subseteq Keys
    /\ Faults \subseteq AllFaults
    /\ FineClock \in BOOLEAN
    /\ MaxClock \in Nat /\ MaxStat \in Nat /\ MaxCrashes \in Nat

VARIABLES
    enabled,        \* enabled_: read without the mutex
    maxBlocks,      \* max_blocks_: 0 until the cache is configured
    mu,             \* the thread inside store(), which holds mu_
    job,            \* each thread's store() call
    block,          \* the *.blk files: contents, or NoFile
    tmp,            \* the *.tmp files: contents, or NoFile
    mtime,          \* the block files' last write time (0 without a file)
    clock,          \* the latest time stamped on a file
    hits, misses,   \* hits_ and misses_
    crashes         \* how often the process has died

config == <<enabled, maxBlocks>>
files  == <<block, tmp, mtime, clock>>
stats  == <<hits, misses>>
vars   == <<config, mu, job, files, stats, crashes>>

Job == [step : {"out", "opened", "written", "renamed"},
        key : Keys \cup {NoKey}, data : Data]
NoJob == [step |-> "out", key |-> NoKey, data |-> [from |-> 0, len |-> 0]]

Cached == {k \in Keys : block[k] # NoFile}
Free == mu = NoThread

(* The times the next stamp may carry.                                     *)
Stamps == {c \in clock .. clock + 1 : c <= MaxClock /\ (FineClock => c > clock)}

Count(n) == IF n < MaxStat THEN n + 1 ELSE n

-----------------------------------------------------------------------------
Init ==
    /\ enabled = FALSE
    /\ maxBlocks = 0
    /\ mu = NoThread
    /\ job = [t \in Threads |-> NoJob]
    /\ block = [k \in Keys |-> IF k \in Pinned THEN CHOOSE d \in Whole[k] : TRUE
                                               ELSE NoFile]
    /\ tmp = [k \in Keys |-> NoFile]
    /\ mtime = [k \in Keys |-> 0]
    /\ clock = 0
    /\ hits = 0 /\ misses = 0
    /\ crashes = 0

(* std::clamp(max_blocks, 2, 500)                                          *)
Clamped(n) == IF n < 2 THEN 2 ELSE IF n > 500 THEN 500 ELSE n

Disable ==
    /\ enabled' = FALSE
    /\ UNCHANGED maxBlocks

Configure(n) ==
    /\ Free
    /\ \/ n <= 0 /\ Disable
       \/ n > 0 /\ "mkdir" \in Faults /\ Disable
       \/ n > 0 /\ enabled' = TRUE /\ maxBlocks' = Clamped(n)
    /\ UNCHANGED <<mu, job, files, stats, crashes>>

(* Variants, here and below, are what a slip in the code would do; they    *)
(* are no part of the specification and show which property notices.       *)
(* Variant: a hit is not touched.                                          *)
TryLoadHitUntouched(k) ==
    /\ Free
    /\ block[k] # NoFile
    /\ hits' = Count(hits)
    /\ UNCHANGED <<config, mu, job, files, misses, crashes>>

(* try_load() runs under the mutex from its first line to its last and its *)
(* only effect on disk is one mtime: it is one action.                     *)
TryLoadHit(k) ==
    /\ Free
    /\ block[k] # NoFile
    /\ IF k \in Pinned
       THEN UNCHANGED <<mtime, clock>>
       ELSE \E c \in Stamps : mtime' = [mtime EXCEPT ![k] = c] /\ clock' = c
    /\ hits' = Count(hits)
    /\ UNCHANGED <<config, mu, job, block, tmp, misses, crashes>>

TryLoadMiss(k) ==
    /\ Free
    /\ block[k] = NoFile \/ "read" \in Faults
    /\ misses' = Count(misses)
    /\ UNCHANGED <<config, mu, job, files, hits, crashes>>

-----------------------------------------------------------------------------
(* store(), step by step.                                                  *)

(* Variant: the mutex is kept.                                             *)
LeaveLocked(t) ==
    /\ job' = [job EXCEPT ![t] = NoJob]
    /\ UNCHANGED mu

Leave(t) ==
    /\ mu' = NoThread
    /\ job' = [job EXCEPT ![t] = NoJob]

StoreRefused ==             \* the temp file cannot be opened
    /\ Free
    /\ "open" \in Faults
    /\ UNCHANGED vars

(* Variant: the mutex is not taken.                                        *)
StoreOpenUnlocked(t, k, d) ==
    /\ job[t] = NoJob
    /\ Stamps # {}
    /\ mu' = t
    /\ job' = [job EXCEPT ![t] = [step |-> "opened", key |-> k, data |-> d]]
    /\ tmp' = [tmp EXCEPT ![k] = [from |-> d.from, len |-> 0]]
    /\ UNCHANGED <<config, block, mtime, clock, stats, crashes>>

StoreOpen(t, k, d) ==
    /\ Free
    /\ Stamps # {}             \* bound: the rename can still be stamped
    /\ mu' = t
    /\ job' = [job EXCEPT ![t] = [step |-> "opened", key |-> k, data |-> d]]
    /\ tmp' = [tmp EXCEPT ![k] = [from |-> d.from, len |-> 0]]
    /\ UNCHANGED <<config, block, mtime, clock, stats, crashes>>

(* The write and the close.  A write error the stream notices is handled   *)
(* by StoreDrop; the flush inside the closing destructor is not checked.   *)
StoreWrite(t) ==
    /\ job[t].step = "opened"
    /\ job' = [job EXCEPT ![t].step = "written"]
    /\ \E n \in 0 .. job[t].data.len :
           /\ n = job[t].data.len \/ "close" \in Faults
           /\ tmp' = [tmp EXCEPT ![job[t].key] = [job[t].data EXCEPT !.len = n]]
    /\ UNCHANGED <<config, mu, block, mtime, clock, stats, crashes>>

StoreDrop(t) ==             \* the write or the rename failed
    /\ \/ job[t].step = "opened" /\ "write" \in Faults
       \/ job[t].step = "written" /\ ("write" \in Faults \/ job[t].key \in Pinned)
    /\ tmp' = [tmp EXCEPT ![job[t].key] = NoFile]
    /\ Leave(t)
    /\ UNCHANGED <<config, block, mtime, clock, stats, crashes>>

(* The block's mtime is the temp file's, of the write just before: nothing *)
(* else is stamped in between, the mutex is held.                          *)
StoreRename(t) ==
    /\ job[t].step = "written"
    /\ job[t].key \notin Pinned
    /\ block' = [block EXCEPT ![job[t].key] = tmp[job[t].key]]
    /\ tmp' = [tmp EXCEPT ![job[t].key] = NoFile]
    /\ \E c \in Stamps : mtime' = [mtime EXCEPT ![job[t].key] = c] /\ clock' = c
    /\ job' = [job EXCEPT ![t].step = "renamed"]
    /\ UNCHANGED <<config, mu, stats, crashes>>

(* Variant: one block too many is kept.                                    *)
OverCapacityByOne == Cardinality(Cached) > maxBlocks + 1

OverCapacity == Cardinality(Cached) > maxBlocks

Oldest == {k \in Cached : \A j \in Cached : mtime[k] <= mtime[j]}

(* One turn of evict_if_needed()'s loop.  Among equal mtimes it takes the  *)
(* first the directory lists, which may be any.  When the removal fails    *)
(* the loop goes round again with nothing changed.                         *)
EvictOldest(t) ==
    /\ job[t].step = "renamed"
    /\ OverCapacity
    /\ \E k \in Oldest :
           IF k \in Pinned
           THEN UNCHANGED <<block, mtime>>
           ELSE /\ block' = [block EXCEPT ![k] = NoFile]
                /\ mtime' = [mtime EXCEPT ![k] = 0]
    /\ UNCHANGED <<config, mu, job, tmp, clock, stats, crashes>>

StoreDone(t) ==
    /\ job[t].step = "renamed"
    /\ ~OverCapacity \/ "list" \in Faults      \* the directory cannot be listed
    /\ Leave(t)
    /\ UNCHANGED <<config, files, stats, crashes>>

StoreStep(t) ==
    \/ StoreWrite(t) \/ StoreDrop(t) \/ StoreRename(t)
    \/ EvictOldest(t) \/ StoreDone(t)

-----------------------------------------------------------------------------
(* The process dies and another one starts over the same directory.        *)
Crash ==
    /\ crashes < MaxCrashes
    /\ crashes' = crashes + 1
    /\ enabled' = FALSE
    /\ maxBlocks' = 0
    /\ mu' = NoThread
    /\ job' = [t \in Threads |-> NoJob]
    /\ hits' = 0 /\ misses' = 0
    /\ UNCHANGED files

(* A caller stores a block only after it has seen the cache enabled, so    *)
(* after a configure() of this process; the cache may be off again by then.*)
Next ==
    \/ \E n \in Capacities : Configure(n)
    \/ \E k \in Keys : TryLoadHit(k) \/ TryLoadMiss(k)
    \/ maxBlocks > 0 /\ StoreRefused
    \/ \E t \in Threads, k \in Keys : \E d \in Whole[k] :
           maxBlocks > 0 /\ StoreOpen(t, k, d)
    \/ \E t \in Threads : StoreStep(t)
    \/ Crash

Spec == Init /\ [][Next]_vars

(* A thread inside store() runs: nothing in store() waits.                 *)
FairSpec == Spec /\ \A t \in Threads : WF_vars(StoreStep(t))

-----------------------------------------------------------------------------
(* The variables have their types; and a thread is inside store() exactly  *)
(* when it holds mu_.                                                      *)
TypeOK ==
    /\ enabled \in BOOLEAN
    /\ maxBlocks \in Nat
    /\ mu \in Threads \cup {NoThread}
    /\ job \in [Threads -> Job]
    /\ \A t \in Threads : job[t].step # "out" => job[t].key \in Keys
    /\ \A t \in Threads : job[t].step # "out" <=> mu = t
    /\ block \in [Keys -> Data \cup {NoFile}]
    /\ tmp \in [Keys -> Data \cup {NoFile}]
    /\ mtime \in [Keys -> Nat]
    /\ clock \in Nat
    /\ hits \in Nat /\ misses \in Nat /\ crashes \in Nat

(* "A crash never leaves a torn block behind" (store()'s comment): every   *)
(* block file holds a complete block, at every moment the process may die  *)
(* and whatever threads store the same block through the one temp file.    *)
NoTornBlock == \A k \in Keys : block[k] # NoFile => block[k] \in Whole[k]

(* The directory holds at most the largest configured capacity, one block  *)
(* more while a store is evicting, and one more for every time the process *)
(* died between a rename and the eviction that follows it.                 *)
Peak == CHOOSE n \in {Clamped(c) : c \in Capacities} :
            \A c \in Capacities : Clamped(c) <= n

CapacityBound ==
    Cardinality(Cached) <=
        Peak + crashes + (IF \E t \in Threads : job[t].step = "renamed" THEN 1 ELSE 0)

(* The cache keeps what an LRU cache would keep: hits and stores make a    *)
(* block the most recent, a store drops the least recent ones until the    *)
(* capacity is met and nobody reads or stores before it has, and no other  *)
(* block ever leaves, whenever the process dies.  The order of the blocks  *)
(* is that of their mtimes.                                                *)
Older == {p \in Cached \X Cached : mtime[p[1]] < mtime[p[2]]}

Lru == INSTANCE LruCache WITH
    cached <- Cached,
    older <- Older,
    capacity <- maxBlocks,
    trimming <- \E t \in Threads : job[t].step = "renamed"

KeepsTheMostRecent == Lru!Spec

(* store() returns, evictions included: no thread holds mu_ for ever.      *)
StoreReturns == \A t \in Threads : []<>(mu # t)
=============================================================================
