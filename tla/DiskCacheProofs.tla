--------------------------- MODULE DiskCacheProofs --------------------------
(***************************************************************************)
(* Proofs about DiskCache for any threads, blocks, capacities and clock.   *)
(*                                                                         *)
(* Blocks are whole: only the holder of mu_ has a store() call under way,  *)
(* so the temp file of its block holds what it wrote from the write to the *)
(* rename; as long as closing the file does not lose bytes, what is        *)
(* renamed over a block is a whole block.                                  *)
(*                                                                         *)
(* The directory is bounded: a rename adds one block, at most one store()  *)
(* is past its rename, and it ends only when the capacity is kept; a death *)
(* in between leaves that one block behind.                                *)
(*                                                                         *)
(* The blocks are a least-recently-used set: no block's mtime is ahead of  *)
(* the clock, so that a stamp makes its block the youngest; a removal      *)
(* takes one that no other is older than.                                  *)
(***************************************************************************)
EXTENDS DiskCache, TLAPS, FiniteSetTheorems, WellFoundedInduction

-----------------------------------------------------------------------------
(* The variables have their types, whatever fails.                         *)
LEMMA InitType == Init => TypeOK
  <1> SUFFICES ASSUME Init PROVE TypeOK
    OBVIOUS
  <1> USE DEF Init
  <1>1. ASSUME NEW k \in Pinned PROVE (CHOOSE d \in Whole[k] : TRUE) \in Data
    <2>1. Whole[k] # {} /\ Whole[k] \subseteq Data
      BY <1>1, WholeAssumption, ParametersAssumption
    <2> QED BY <2>1
  <1>2. block \in [Keys -> Data \cup {NoFile}]
    BY <1>1
  <1> QED BY <1>2, ThreadsAssumption DEF TypeOK, Job, NoJob, Data

LEMMA ConfigureType == ASSUME TypeOK, NEW n \in Capacities, Configure(n) PROVE TypeOK'
  <1>1. enabled' \in BOOLEAN
    BY DEF TypeOK, Configure, Disable
  <1>2. maxBlocks' \in Nat
    BY ParametersAssumption DEF TypeOK, Configure, Disable, Clamped
  <1> QED BY <1>1, <1>2 DEF Configure, TypeOK, files, stats

LEMMA StampIsTime == ASSUME TypeOK, NEW c \in Stamps PROVE c \in Nat
  BY DEF TypeOK, Stamps

LEMMA TryLoadType ==
    ASSUME TypeOK, NEW k \in Keys, TryLoadHit(k) \/ TryLoadMiss(k)
    PROVE  TypeOK'
  <1>1. hits' \in Nat /\ misses' \in Nat
    BY DEF TypeOK, TryLoadHit, TryLoadMiss, Count, stats
  <1>2. mtime' \in [Keys -> Nat] /\ clock' \in Nat
    BY StampIsTime DEF TypeOK, TryLoadHit, TryLoadMiss, files
  <1>3. UNCHANGED <<config, mu, job, block, tmp, crashes>>
    BY DEF TryLoadHit, TryLoadMiss, files
  <1> QED BY <1>1, <1>2, <1>3 DEF TypeOK, config

LEMMA StoreOpenType ==
    ASSUME TypeOK, NEW t \in Threads, NEW k \in Keys, NEW d \in Whole[k],
           StoreOpen(t, k, d)
    PROVE  TypeOK'
  <1>1. d \in Data
    BY WholeAssumption
  <1>2. job' \in [Threads -> Job]
    BY <1>1 DEF TypeOK, StoreOpen, Job
  <1>3. tmp' \in [Keys -> Data \cup {NoFile}]
    BY <1>1 DEF TypeOK, StoreOpen, Data
  <1>4. \A s \in Threads : job'[s].step # "out" => mu' = s
    BY ThreadsAssumption DEF TypeOK, StoreOpen, Free
  <1> QED BY <1>2, <1>3, <1>4 DEF TypeOK, StoreOpen, config, stats

LEMMA LeaveType ==
    ASSUME TypeOK, NEW t \in Threads, Leave(t), mu = t,
           tmp' \in [Keys -> Data \cup {NoFile}],
           UNCHANGED <<config, block, mtime, clock, stats, crashes>>
    PROVE  TypeOK' /\ \A s \in Threads : job'[s].step = "out"
  <1>1. job' \in [Threads -> Job]
    BY DEF TypeOK, Leave, NoJob, Job, Data
  <1>2. \A s \in Threads : job'[s].step = "out"
    BY DEF TypeOK, Leave, NoJob
  <1> QED BY <1>1, <1>2, ThreadsAssumption DEF TypeOK, Leave, config, stats

(* What a step of store() takes for granted: its thread is alone inside.   *)
Alone(t) ==
    /\ mu = t /\ job[t].step # "out" /\ job[t].key \in Keys
    /\ job[t].data \in Data /\ job[t] \in Job
    /\ \A s \in Threads \ {t} : job[s].step = "out"

LEMMA StoresAlone == ASSUME TypeOK, NEW t \in Threads, StoreStep(t) PROVE Alone(t)
  BY DEF Alone, StoreStep, StoreWrite, StoreDrop, StoreRename, EvictOldest, StoreDone,
         TypeOK, Job

(* The step of the one call moves on.                                      *)
MovesTo(t, step) ==
    /\ job' \in [Threads -> Job]
    /\ job'[t].step = step /\ job'[t].key = job[t].key /\ job'[t].data = job[t].data
    /\ \A s \in Threads \ {t} : job'[s] = job[s]

LEMMA StepMoves ==
    ASSUME TypeOK, NEW t \in Threads, Alone(t)
    PROVE  /\ StoreWrite(t) => MovesTo(t, "written")
           /\ StoreRename(t) => MovesTo(t, "renamed")
  BY DEF StoreWrite, StoreRename, MovesTo, Alone, TypeOK, Job

(* A removal takes one block, and no pinned one.                           *)
LEMMA EvictRemoves ==
    ASSUME TypeOK, NEW t \in Threads, EvictOldest(t)
    PROVE  \E k \in Cached : /\ k \in Keys /\ block[k] # NoFile
                             /\ \/ k \in Pinned /\ UNCHANGED <<block, mtime>>
                                \/ /\ block' = [block EXCEPT ![k] = NoFile]
                                   /\ mtime' = [mtime EXCEPT ![k] = 0]
  BY DEF EvictOldest, Oldest, Cached

LEMMA StoreStepType == ASSUME TypeOK, NEW t \in Threads, StoreStep(t) PROVE TypeOK'
  <1>0. Alone(t)
    BY StoresAlone
  <1>1. CASE StoreWrite(t)
    <2>1. PICK n \in 0 .. job[t].data.len :
              tmp' = [tmp EXCEPT ![job[t].key] = [job[t].data EXCEPT !.len = n]]
      BY <1>1 DEF StoreWrite
    <2>2. [job[t].data EXCEPT !.len = n] \in Data
      BY <1>0, <2>1 DEF Alone, Data
    <2>3. tmp' \in [Keys -> Data \cup {NoFile}]
      BY <2>1, <2>2 DEF TypeOK
    <2> QED BY <1>0, <1>1, <2>3, StepMoves DEF StoreWrite, MovesTo, Alone, TypeOK, config, stats
  <1>2. CASE StoreDrop(t)
    BY <1>0, <1>2, LeaveType DEF StoreDrop, TypeOK, Alone
  <1>3. CASE StoreRename(t)
    <2>1. mtime' \in [Keys -> Nat] /\ clock' \in Nat
      BY <1>0, <1>3, StampIsTime DEF StoreRename, TypeOK
    <2>2. /\ tmp' \in [Keys -> Data \cup {NoFile}] /\ block' \in [Keys -> Data \cup {NoFile}]
      BY <1>0, <1>3 DEF StoreRename, TypeOK, Alone
    <2> QED BY <1>0, <1>3, <2>1, <2>2, StepMoves
            DEF StoreRename, MovesTo, Alone, TypeOK, config, stats
  <1>4. CASE EvictOldest(t)
    <2>1. block' \in [Keys -> Data \cup {NoFile}] /\ mtime' \in [Keys -> Nat]
      BY <1>4, EvictRemoves DEF TypeOK
    <2> QED BY <1>4, <2>1 DEF EvictOldest, TypeOK, config, stats
  <1>5. CASE StoreDone(t)
    BY <1>0, <1>5, LeaveType DEF StoreDone, files, TypeOK, Alone
  <1> QED BY <1>1, <1>2, <1>3, <1>4, <1>5 DEF StoreStep

LEMMA CrashType == ASSUME TypeOK, Crash PROVE TypeOK' /\ \A t \in Threads : job'[t].step = "out"
  <1>1. job' = [t \in Threads |-> NoJob] /\ UNCHANGED files
    BY DEF Crash
  <1>2. job' \in [Threads -> Job] /\ \A t \in Threads : job'[t].step = "out"
    BY <1>1 DEF NoJob, Job, Data
  <1>3. enabled' = FALSE /\ maxBlocks' = 0 /\ mu' = NoThread
        /\ hits' = 0 /\ misses' = 0 /\ crashes' = crashes + 1
    BY DEF Crash
  <1>4. \A t \in Threads : /\ job'[t].step # "out" => job'[t].key \in Keys
                          /\ job'[t].step # "out" <=> mu' = t
    BY <1>2, <1>3, ThreadsAssumption
  <1>5. enabled' \in BOOLEAN
    BY <1>3
  <1> QED BY <1>1, <1>2, <1>3, <1>4, <1>5 DEF TypeOK, files

LEMMA NextType == ASSUME TypeOK, [Next]_vars PROVE TypeOK'
  <1>1. CASE \E n \in Capacities : Configure(n)
    BY <1>1, ConfigureType
  <1>2. CASE \E k \in Keys : TryLoadHit(k) \/ TryLoadMiss(k)
    BY <1>2, TryLoadType
  <1>3. CASE \E t \in Threads, k \in Keys : \E d \in Whole[k] : StoreOpen(t, k, d)
    BY <1>3, StoreOpenType
  <1>4. CASE \E t \in Threads : StoreStep(t)
    BY <1>4, StoreStepType
  <1>5. CASE Crash
    BY <1>5, CrashType
  <1>6. CASE UNCHANGED vars
    BY <1>6 DEF vars, config, files, stats, TypeOK
  <1>7. StoreRefused => UNCHANGED vars
    BY DEF StoreRefused
  <1> QED BY <1>1, <1>2, <1>3, <1>4, <1>5, <1>6, <1>7 DEF Next

(* The variables of the cache keep their types, and only the holder of mu_ *)
(* is ever inside store().                                                 *)
THEOREM TypeCorrect == Spec => []TypeOK
  BY InitType, NextType, PTL DEF Spec

-----------------------------------------------------------------------------
(* What a store() call carries: a complete block, which is what its temp   *)
(* file holds once written.                                                *)
StoreHolds ==
    \A t \in Threads :
        /\ job[t].step # "out" => job[t].data \in Whole[job[t].key]
        /\ job[t].step = "written" => tmp[job[t].key] = job[t].data

IInv == TypeOK /\ NoTornBlock /\ StoreHolds

LEMMA InitInv == Init => IInv
  <1> SUFFICES ASSUME Init PROVE IInv
    OBVIOUS
  <1>1. ASSUME NEW k \in Pinned PROVE (CHOOSE d \in Whole[k] : TRUE) \in Whole[k]
    BY <1>1, WholeAssumption
  <1>2. NoTornBlock
    BY <1>1 DEF Init, NoTornBlock
  <1>3. StoreHolds
    BY DEF Init, StoreHolds, NoJob
  <1> QED BY <1>2, <1>3, InitType DEF IInv

LEMMA StoreOpenInv ==
    ASSUME IInv, NEW t \in Threads, NEW k \in Keys, NEW d \in Whole[k],
           StoreOpen(t, k, d)
    PROVE  IInv'
  <1>1. \A s \in Threads : job[s].step = "out"
    BY ThreadsAssumption DEF IInv, TypeOK, StoreOpen, Free
  <1>2. StoreHolds'
    BY <1>1 DEF IInv, TypeOK, StoreHolds, StoreOpen
  <1> QED BY <1>2, StoreOpenType DEF IInv, NoTornBlock, StoreOpen

LEMMA StoreStepInv ==
    ASSUME "close" \notin Faults, IInv, NEW t \in Threads, StoreStep(t)
    PROVE  IInv'
  <1>0. Alone(t) /\ TypeOK /\ TypeOK'
    BY StoresAlone, StoreStepType DEF IInv
  <1>1. CASE StoreWrite(t)
    <2>1. PICK n \in 0 .. job[t].data.len :
              /\ n = job[t].data.len
              /\ tmp' = [tmp EXCEPT ![job[t].key] = [job[t].data EXCEPT !.len = n]]
      BY <1>1 DEF StoreWrite
    <2>2. [job[t].data EXCEPT !.len = n] = job[t].data
      BY <1>0, <2>1 DEF Alone, Data
    <2>3. tmp' = [tmp EXCEPT ![job[t].key] = job[t].data]
      BY <2>1, <2>2
    <2>4. StoreHolds'
      BY <1>0, <1>1, <2>3, StepMoves DEF MovesTo, Alone, IInv, TypeOK, StoreHolds
    <2> QED BY <1>0, <1>1, <2>4 DEF StoreWrite, IInv, NoTornBlock
  <1>2. CASE StoreDrop(t)
    <2>1. \A s \in Threads : job'[s].step = "out"
      BY <1>0, <1>2, LeaveType DEF StoreDrop, TypeOK, Alone
    <2> QED BY <1>0, <1>2, <2>1 DEF StoreDrop, IInv, NoTornBlock, StoreHolds
  <1>3. CASE StoreRename(t)
    <2>1. job[t].step = "written" /\ tmp[job[t].key] = job[t].data
                                  /\ job[t].data \in Whole[job[t].key]
      BY <1>3 DEF StoreRename, IInv, StoreHolds
    <2>2. block' = [block EXCEPT ![job[t].key] = job[t].data]
      BY <1>3, <2>1 DEF StoreRename
    <2>3. NoTornBlock'
      BY <1>0, <2>1, <2>2 DEF IInv, TypeOK, NoTornBlock
    <2>4. StoreHolds'
      BY <1>0, <1>3, <2>1, StepMoves DEF MovesTo, Alone, IInv, StoreHolds
    <2> QED BY <1>0, <2>3, <2>4 DEF IInv
  <1>4. CASE EvictOldest(t)
    <2>1. \A k \in Keys : block'[k] # NoFile => block'[k] = block[k]
      BY <1>0, <1>4, EvictRemoves DEF TypeOK
    <2>2. NoTornBlock'
      BY <2>1 DEF IInv, TypeOK, NoTornBlock
    <2> QED BY <1>0, <1>4, <2>2 DEF EvictOldest, IInv, StoreHolds
  <1>5. CASE StoreDone(t)
    <2>1. \A s \in Threads : job'[s].step = "out"
      BY <1>0, <1>5, LeaveType DEF StoreDone, files, TypeOK, Alone
    <2> QED BY <1>0, <1>5, <2>1 DEF StoreDone, files, IInv, NoTornBlock, StoreHolds
  <1> QED BY <1>1, <1>2, <1>3, <1>4, <1>5 DEF StoreStep

(* One step of the cache, or of anything that leaves it alone.             *)
LEMMA NextInv ==
    ASSUME "close" \notin Faults, IInv, [Next]_vars
    PROVE  IInv'
  <1>0. TypeOK'
    BY NextType DEF IInv
  <1>1. UNCHANGED <<job, block, tmp>> => IInv'
    BY <1>0 DEF IInv, NoTornBlock, StoreHolds
  <1>2. CASE \E n \in Capacities : Configure(n)
    BY <1>1, <1>2 DEF Configure, files
  <1>3. CASE \E k \in Keys : TryLoadHit(k) \/ TryLoadMiss(k)
    BY <1>1, <1>3 DEF TryLoadHit, TryLoadMiss, files
  <1>4. CASE \E t \in Threads, k \in Keys : \E d \in Whole[k] : StoreOpen(t, k, d)
    BY <1>4, StoreOpenInv
  <1>5. CASE \E t \in Threads : StoreStep(t)
    BY <1>5, StoreStepInv
  <1>6. CASE Crash
    <2>1. \A t \in Threads : job'[t].step = "out"
      BY <1>6, CrashType DEF IInv
    <2> QED BY <1>0, <1>6, <2>1 DEF Crash, files, IInv, NoTornBlock, StoreHolds
  <1>7. CASE UNCHANGED vars
    BY <1>1, <1>7 DEF vars, files
  <1>8. StoreRefused => UNCHANGED vars
    BY DEF StoreRefused
  <1> QED BY <1>2, <1>3, <1>4, <1>5, <1>6, <1>7, <1>8 DEF Next

(* No block file is ever torn: every one holds a complete block, for any   *)
(* number of threads storing it, and whenever the process dies, when no    *)
(* close loses bytes.                                                      *)
THEOREM BlocksAreWhole == "close" \notin Faults => (Spec => []NoTornBlock)
  <1> SUFFICES ASSUME "close" \notin Faults PROVE Spec => []NoTornBlock
    OBVIOUS
  <1>1. IInv /\ [Next]_vars => IInv'
    BY NextInv
  <1>2. IInv => NoTornBlock
    BY DEF IInv
  <1> QED
    BY InitInv, <1>1, <1>2, PTL DEF Spec

-----------------------------------------------------------------------------
(* The directory can be listed, and every block removed.                   *)
Evictable == Pinned = {} /\ "list" \notin Faults /\ Capacities # {}

LEMMA Greatest ==
    ASSUME NEW S \in SUBSET Nat, IsFiniteSet(S), S # {}
    PROVE  \E k \in S : \A j \in S : j <= k
  <1> DEFINE Above(k) == {j \in S : j > k}
             R == StrictSubsetOrdering(S)
             T == {Above(k) : k \in S}
  <1>1. \A A \in SUBSET S : IsFiniteSet(A) /\ A \in FiniteSubsetsOf(S)
    BY FS_Subset DEF FiniteSubsetsOf
  <1>2. IsWellFoundedOn(R, FiniteSubsetsOf(S))
    BY FS_StrictSubsetOrderingWellFounded
  <1>3. T \subseteq FiniteSubsetsOf(S) /\ T # {}
    BY <1>1
  <1>4. \E B \in T : \A A \in T : <<A, B>> \notin R
    <2> HIDE DEF T, R
    <2> QED BY <1>2, <1>3, WFMin
  <1>5. PICK k \in S : \A j \in S : <<Above(j), Above(k)>> \notin R
    BY <1>4
  <1>6. ASSUME NEW j \in S, j > k PROVE FALSE
    <2>1. \A i \in S : i > j => i > k
      BY <1>6
    <2>2. Above(j) \subseteq Above(k)
      BY <2>1
    <2>3. j \in Above(k) /\ j \notin Above(j)
      BY <1>6
    <2> QED BY <1>5, <2>2, <2>3 DEF StrictSubsetOrdering
  <1> QED BY <1>6

LEMMA PeakIsLargest ==
    ASSUME Capacities # {}
    PROVE  Peak \in Nat /\ \A c \in Capacities : Clamped(c) <= Peak
  <1> DEFINE S == {Clamped(c) : c \in Capacities}
  <1>1. \A c \in Capacities : Clamped(c) \in 2 .. 500
    BY ParametersAssumption DEF Clamped
  <1>2. S \subseteq 2 .. 500 /\ S # {}
    BY <1>1
  <1>3. \A c \in Capacities : Clamped(c) \in S
    OBVIOUS
  <1>4. Peak = CHOOSE n \in S : \A c \in Capacities : Clamped(c) <= n
    BY DEF Peak
  <1> HIDE DEF S
  <1>5. \A a, b \in Int : IsFiniteSet(a .. b)
    BY FS_Interval
  <1>6. IsFiniteSet(S) /\ S \in SUBSET Nat
    <2>1. 2 \in Int /\ 500 \in Int
      OBVIOUS
    <2>2. IsFiniteSet(2 .. 500)
      BY <1>5, <2>1, Zenon
    <2>3. IsFiniteSet(S)
      BY <1>2, <2>2, FS_Subset
    <2>4. S \in SUBSET Nat
      BY <1>2
    <2> QED BY <2>3, <2>4
  <1>7. PICK k \in S : \A j \in S : j <= k
    BY <1>2, <1>6, Greatest
  <1>8. \E n \in S : \A c \in Capacities : Clamped(c) <= n
    BY <1>3, <1>7
  <1>9. Peak \in S /\ \A c \in Capacities : Clamped(c) <= Peak
    BY <1>4, <1>8
  <1> QED BY <1>6, <1>9

Evicting == \E t \in Threads : job[t].step = "renamed"

CapInv == TypeOK /\ IsFiniteSet(Cached) /\ maxBlocks <= Peak /\ CapacityBound

LEMMA CapInit == ASSUME Evictable, Init PROVE CapInv
  <1>1. Cached = {}
    BY DEF Evictable, Init, Cached
  <1>2. IsFiniteSet(Cached) /\ Cardinality(Cached) = 0
    BY <1>1, FS_EmptySet
  <1>3. ~Evicting /\ crashes = 0 /\ maxBlocks = 0
    BY DEF Init, Evicting, NoJob
  <1> QED BY <1>2, <1>3, InitType, PeakIsLargest DEF CapInv, CapacityBound, Evicting, Evictable

(* Where no block comes and no store() ends.                               *)
LEMMA SameBlocks ==
    ASSUME CapInv, TypeOK', UNCHANGED <<block, crashes>>, maxBlocks' <= Peak,
           Evicting' <=> Evicting
    PROVE  CapInv'
  <1>1. Cached' = Cached
    BY DEF Cached
  <1> QED BY <1>1 DEF CapInv, CapacityBound, Evicting

LEMMA CapStoreStep ==
    ASSUME Evictable, CapInv, NEW t \in Threads, StoreStep(t)
    PROVE  CapInv'
  <1>0. Alone(t) /\ TypeOK /\ TypeOK'
    BY StoresAlone, StoreStepType DEF CapInv
  <1>1. /\ Cardinality(Cached) \in Nat /\ Peak \in Nat /\ crashes \in Nat /\ maxBlocks \in Nat
        /\ Cardinality(Cached) <= Peak + crashes + (IF Evicting THEN 1 ELSE 0)
        /\ maxBlocks <= Peak /\ IsFiniteSet(Cached)
    BY <1>0, PeakIsLargest, FS_CardinalityType
    DEF CapInv, CapacityBound, Evicting, Evictable, TypeOK
  <1>2. Evicting <=> job[t].step = "renamed"
    BY <1>0 DEF Alone, Evicting
  <1>3. crashes' = crashes /\ maxBlocks' = maxBlocks
    BY DEF StoreStep, StoreWrite, StoreDrop, StoreRename, EvictOldest, StoreDone, config
  <1>4. CASE StoreWrite(t)
    <2>1. Evicting' <=> Evicting
      BY <1>0, <1>2, <1>4, StepMoves DEF StoreWrite, MovesTo, Alone, Evicting
    <2> QED BY <1>0, <1>1, <1>3, <1>4, <2>1, SameBlocks DEF StoreWrite
  <1>5. CASE StoreDrop(t)
    <2>1. ~Evicting'
      BY <1>0, <1>5, LeaveType DEF StoreDrop, Evicting, TypeOK, Alone
    <2>2. ~Evicting
      BY <1>2, <1>5 DEF StoreDrop
    <2> QED BY <1>0, <1>1, <1>3, <1>5, <2>1, <2>2, SameBlocks DEF StoreDrop
  <1>6. CASE StoreRename(t)
    <2>1. ~Evicting /\ Evicting'
      BY <1>0, <1>2, <1>6, StepMoves DEF StoreRename, MovesTo, Evicting
    <2>2. PICK k : k = job[t].key
      OBVIOUS
    <2>3. Cached' = Cached \/ Cached' = Cached \cup {k} \/ Cached' = Cached \ {k}
      BY <1>0, <1>6, <2>2 DEF StoreRename, Cached, TypeOK, Alone
    <2>4. IsFiniteSet(Cached') /\ Cardinality(Cached') <= Cardinality(Cached) + 1
      BY <1>1, <2>3, FS_AddElement, FS_RemoveElement
    <2>5. Cardinality(Cached') \in Nat
      BY <2>4, FS_CardinalityType
    <2>6. Cardinality(Cached') <= Peak + crashes' + 1
      BY <1>1, <1>3, <2>1, <2>4, <2>5
    <2> QED BY <1>0, <1>1, <1>3, <2>1, <2>4, <2>6 DEF CapInv, CapacityBound, Evicting
  <1>7. CASE EvictOldest(t)
    <2>1. Evicting /\ Evicting'
      BY <1>2, <1>7 DEF EvictOldest, Evicting
    <2>2. PICK k \in Cached : block' = [block EXCEPT ![k] = NoFile]
      BY <1>0, <1>7, EvictRemoves DEF Evictable
    <2>3. Cached' = Cached \ {k}
      BY <1>0, <2>2 DEF Cached, TypeOK
    <2>4. IsFiniteSet(Cached') /\ Cardinality(Cached') = Cardinality(Cached) - 1
      BY <1>1, <2>3, FS_RemoveElement
    <2>5. Cardinality(Cached') <= Peak + crashes' + 1
      BY <1>1, <1>3, <2>1, <2>4
    <2> QED BY <1>0, <1>1, <1>3, <2>1, <2>4, <2>5 DEF CapInv, CapacityBound, Evicting
  <1>8. CASE StoreDone(t)
    <2>1. ~Evicting'
      BY <1>0, <1>8, LeaveType DEF StoreDone, Evicting, files, TypeOK, Alone
    <2>2. Cached' = Cached /\ ~OverCapacity
      BY <1>8 DEF StoreDone, files, Cached, Evictable
    <2>3. Cardinality(Cached) <= maxBlocks
      BY <1>1, <2>2 DEF OverCapacity
    <2>4. Cardinality(Cached') <= Peak + crashes' + 0
      BY <1>1, <1>3, <2>2, <2>3
    <2> QED BY <1>0, <1>1, <1>3, <2>1, <2>2, <2>4 DEF CapInv, CapacityBound, Evicting
  <1> QED BY <1>4, <1>5, <1>6, <1>7, <1>8 DEF StoreStep

LEMMA CapNext == ASSUME Evictable, CapInv, [Next]_vars PROVE CapInv'
  <1>0. TypeOK /\ TypeOK' /\ Peak \in Nat /\ maxBlocks <= Peak
    BY NextType, PeakIsLargest DEF CapInv, Evictable
  <1>1. CASE \E n \in Capacities : Configure(n)
    <2>1. maxBlocks' <= Peak /\ UNCHANGED <<job, block, crashes>>
      BY <1>0, <1>1, PeakIsLargest DEF Configure, Disable, files, Evictable
    <2> QED BY <1>0, <2>1, SameBlocks DEF Evicting
  <1>2. CASE \E k \in Keys : TryLoadHit(k) \/ TryLoadMiss(k)
    <2>1. UNCHANGED <<maxBlocks, job, block, crashes>>
      BY <1>2 DEF TryLoadHit, TryLoadMiss, config, files
    <2> QED BY <1>0, <2>1, SameBlocks DEF Evicting
  <1>3. ASSUME NEW t \in Threads, NEW k \in Keys, NEW d \in Whole[k], StoreOpen(t, k, d)
        PROVE  CapInv'
    <2>1. \A s \in Threads : job[s].step = "out"
      BY <1>0, <1>3, ThreadsAssumption DEF TypeOK, StoreOpen, Free
    <2>2. ~Evicting /\ ~Evicting' /\ UNCHANGED <<maxBlocks, block, crashes>>
      BY <1>0, <1>3, <2>1 DEF TypeOK, StoreOpen, Evicting, config
    <2> QED BY <1>0, <2>2, SameBlocks
  <1>4. ASSUME NEW t \in Threads, StoreStep(t) PROVE CapInv'
    BY <1>4, CapStoreStep
  <1>5. CASE Crash
    <2>1. ~Evicting' /\ Cached' = Cached /\ crashes' = crashes + 1 /\ maxBlocks' = 0
      BY <1>0, <1>5, CrashType DEF Crash, files, Cached, Evicting
    <2>2. Cardinality(Cached) \in Nat /\ crashes \in Nat
      BY <1>0, FS_CardinalityType DEF CapInv, TypeOK
    <2>3. Cardinality(Cached) <= Peak + crashes + 1
      BY <1>0, <2>2 DEF CapInv, CapacityBound
    <2> QED BY <1>0, <2>1, <2>2, <2>3 DEF CapInv, CapacityBound, Evicting
  <1>6. CASE UNCHANGED vars \/ StoreRefused
    <2>1. UNCHANGED <<maxBlocks, job, block, crashes>>
      BY <1>6 DEF StoreRefused, vars, config, files
    <2> QED BY <1>0, <2>1, SameBlocks DEF Evicting
  <1> QED BY <1>1, <1>2, <1>3, <1>4, <1>5, <1>6 DEF Next

(* The directory never holds more blocks than the largest configured       *)
(* capacity, one for a store() that is evicting and one for every time the *)
(* process died inside one: evict_if_needed() after every rename, when the *)
(* directory can be listed and its files removed.                          *)
THEOREM CapacityIsKept == Evictable => (Spec => []CapacityBound)
  <1> SUFFICES ASSUME Evictable PROVE Spec => []CapacityBound
    OBVIOUS
  <1>1. Init => CapInv
    BY CapInit
  <1>2. CapInv /\ [Next]_vars => CapInv'
    BY CapNext
  <1>3. CapInv => CapacityBound
    BY DEF CapInv
  <1> QED BY <1>1, <1>2, <1>3, PTL DEF Spec
-----------------------------------------------------------------------------
(* No two stamps are equal, every block can be touched and removed, and    *)
(* the directory can be listed.                                            *)
Separable == FineClock /\ Pinned = {} /\ "list" \notin Faults

(* No block is younger than the clock, and what is renamed is there.       *)
Dated == \A k \in Cached : mtime[k] <= clock

LruInv ==
    /\ TypeOK
    /\ \A t \in Threads : job[t].step = "written" => tmp[job[t].key] # NoFile
    /\ Dated

(* One call at a time is past its rename.                                  *)
LEMMA OneEvicts ==
    ASSUME TypeOK
    PROVE  /\ \A t \in Threads : job[t].step = "renamed" <=> mu = t /\ Evicting
           /\ Free => ~Evicting
  BY ThreadsAssumption DEF TypeOK, Evicting, Free

(* The order of the blocks, pair by pair.                                  *)
LEMMA OlderPairs ==
    /\ \A i, j : <<i, j>> \in Older <=> i \in Cached /\ j \in Cached /\ mtime[i] < mtime[j]
    /\ \A p \in Older : \E i, j \in Cached : p = <<i, j>>
  BY DEF Older

(* A stamp makes its block the most recent one.                            *)
LEMMA StampIsLast ==
    ASSUME TypeOK, TypeOK', Dated, FineClock, NEW k \in Keys, NEW c \in Stamps,
           mtime' = [mtime EXCEPT ![k] = c], clock' = c, Cached' = Cached \cup {k}
    PROVE  Lru!MostRecent(k) /\ Dated'
  <1>1. c \in Nat /\ clock \in Nat /\ c > clock
    BY StampIsTime DEF TypeOK, Stamps
  <1>2. Cached \subseteq Keys /\ \A j \in Keys : mtime[j] \in Nat
    BY DEF Cached, TypeOK
  <1>3. mtime'[k] = c /\ \A j \in Keys \ {k} : mtime'[j] = mtime[j]
    BY DEF TypeOK
  <1>4. Dated'
    BY <1>1, <1>2, <1>3 DEF Dated
  <1>5. \A j \in Cached \ {k} : mtime'[j] < mtime'[k]
    BY <1>1, <1>2, <1>3 DEF Dated
  <1>6. \A i, j : <<i, j>> \in Older' <=>
            i \in Cached \cup {k} /\ j \in Cached \cup {k} /\ mtime'[i] < mtime'[j]
    BY DEF Older
  <1>7. Older' = Lru!Without(k) \cup {<<j, k>> : j \in Cached \ {k}}
    <2>1. ASSUME NEW p \in Older'
          PROVE  p \in Lru!Without(k) \cup {<<j, k>> : j \in Cached \ {k}}
      <3>1. PICK i \in Cached \cup {k}, j \in Cached \cup {k} :
                p = <<i, j>> /\ mtime'[i] < mtime'[j]
        BY DEF Older
      <3>2. CASE j = k
        <4>1. i # k
          BY <1>1, <1>3, <3>1, <3>2
        <4> QED BY <3>1, <3>2, <4>1
      <3>3. CASE j # k
        <4>1. i # k
          BY <1>1, <1>2, <1>3, <1>5, <3>1, <3>3
        <4>2. mtime[i] < mtime[j]
          BY <1>2, <1>3, <3>1, <3>3, <4>1
        <4> QED BY <3>1, <3>3, <4>1, <4>2, OlderPairs DEF Lru!Without
      <3> QED BY <3>2, <3>3
    <2>2. ASSUME NEW p \in Lru!Without(k) PROVE p \in Older'
      <3>1. PICK i \in Cached, j \in Cached :
                p = <<i, j>> /\ mtime[i] < mtime[j] /\ i # k /\ j # k
        BY DEF Older, Lru!Without
      <3> QED BY <1>2, <1>3, <1>6, <3>1
    <2>3. ASSUME NEW j \in Cached \ {k} PROVE <<j, k>> \in Older'
      BY <1>5, <1>6
    <2> QED BY <2>1, <2>2, <2>3
  <1> QED BY <1>1, <1>4, <1>7 DEF Lru!MostRecent

(* Where no block comes, goes or is touched.                               *)
LEMMA SameOrder ==
    ASSUME UNCHANGED <<block, mtime, clock>>
    PROVE  /\ Cached' = Cached /\ Older' = Older
           /\ Dated => Dated'
  BY DEF Cached, Older, Dated

(* The abstract cache counts blocks as the cache does.                     *)
LEMMA SameSize == Lru!Cardinality(Cached) = Cardinality(Cached)
  BY DEF Cardinality, Lru!Cardinality

LEMMA LruStoreStep ==
    ASSUME Separable, LruInv, NEW t \in Threads, StoreStep(t)
    PROVE  LruInv' /\ [Lru!Next]_Lru!vars
  <1>0. Alone(t) /\ TypeOK /\ TypeOK' /\ Dated /\ mu = t
    BY StoresAlone, StoreStepType DEF LruInv, Dated, Alone
  <1>1. Evicting <=> job[t].step = "renamed"
    BY <1>0 DEF Alone, Evicting
  <1>2. UNCHANGED <<maxBlocks, hits>>
    BY DEF StoreStep, StoreWrite, StoreDrop, StoreRename, EvictOldest, StoreDone, config, stats
  <1>3. CASE StoreWrite(t)
    <2>1. UNCHANGED <<block, mtime, clock>>
      BY <1>3 DEF StoreWrite
    <2>2. ~Evicting /\ ~Evicting'
      BY <1>0, <1>1, <1>3, StepMoves DEF StoreWrite, MovesTo, Alone, Evicting
    <2>3. tmp'[job[t].key] # NoFile
      <3>1. PICK n \in 0 .. job[t].data.len :
                tmp' = [tmp EXCEPT ![job[t].key] = [job[t].data EXCEPT !.len = n]]
        BY <1>3 DEF StoreWrite
      <3>2. [job[t].data EXCEPT !.len = n].len = n /\ n \in Nat
        BY <1>0, <3>1 DEF Alone, Data
      <3>3. [job[t].data EXCEPT !.len = n] # NoFile
        BY <3>2 DEF NoFile
      <3> QED BY <1>0, <3>1, <3>3 DEF Alone, TypeOK
    <2>4. \A s \in Threads : job'[s].step = "written" => s = t /\ job'[s].key = job[t].key
      BY <1>0, <1>3, StepMoves DEF MovesTo, Alone
    <2>5. LruInv'
      BY <1>0, <2>1, <2>3, <2>4, SameOrder DEF LruInv, Dated
    <2> QED BY <1>2, <2>1, <2>2, <2>5, SameOrder DEF Lru!vars, Lru!order, Evicting
  <1>4. CASE StoreDrop(t)
    <2>1. UNCHANGED <<block, mtime, clock>>
      BY <1>4 DEF StoreDrop
    <2>2. \A s \in Threads : job'[s].step = "out"
      BY <1>0, <1>4, LeaveType DEF StoreDrop, TypeOK, Alone
    <2>3. ~Evicting /\ ~Evicting'
      BY <1>1, <1>4, <2>2 DEF StoreDrop, Evicting
    <2>4. LruInv'
      BY <1>0, <2>1, <2>2, SameOrder DEF LruInv, Dated
    <2> QED BY <1>2, <2>1, <2>3, <2>4, SameOrder DEF Lru!vars, Lru!order, Evicting
  <1>5. CASE StoreRename(t)
    <2>1. ~Evicting /\ Evicting'
      BY <1>0, <1>1, <1>5, StepMoves DEF StoreRename, MovesTo, Evicting
    <2>2. PICK k \in Keys : k = job[t].key
      BY <1>0 DEF Alone
    <2>3. tmp[k] # NoFile /\ block' = [block EXCEPT ![k] = tmp[k]]
      BY <1>5, <2>2 DEF LruInv, StoreRename
    <2>4. Cached' = Cached \cup {k}
      BY <1>0, <2>3 DEF Cached, TypeOK
    <2>5. PICK c \in Stamps : mtime' = [mtime EXCEPT ![k] = c] /\ clock' = c
      BY <1>5, <2>2 DEF StoreRename
    <2>6. Lru!MostRecent(k) /\ Dated'
      BY <1>0, <2>4, <2>5, StampIsLast DEF Separable
    <2>7. \A s \in Threads : job'[s].step # "written"
      BY <1>0, <1>5, StepMoves DEF StoreRename, MovesTo, Alone
    <2>8. LruInv'
      BY <1>0, <2>6, <2>7 DEF LruInv, Dated
    <2>9. Lru!Insert(k)
      BY <1>2, <2>1, <2>6 DEF Lru!Insert, Evicting
    <2> QED BY <2>8, <2>9 DEF Lru!Next
  <1>6. CASE EvictOldest(t)
    <2>1. Evicting /\ Evicting'
      BY <1>1, <1>6 DEF EvictOldest, Evicting
    <2>2. PICK k \in Oldest : /\ block' = [block EXCEPT ![k] = NoFile]
                              /\ mtime' = [mtime EXCEPT ![k] = 0]
      BY <1>6 DEF EvictOldest, Separable
    <2>3. k \in Cached /\ Cached \subseteq Keys /\ k \in Keys
      BY DEF Oldest, Cached
    <2>4. Cached' = Cached \ {k}
      BY <1>0, <2>2, <2>3 DEF Cached, TypeOK
    <2>5. \A j \in Keys \ {k} : mtime'[j] = mtime[j]
      BY <1>0, <2>2 DEF TypeOK
    <2>6. Older' = Lru!Without(k)
      <3>1. ASSUME NEW p \in Older' PROVE p \in Lru!Without(k)
        <4>1. PICK i \in Cached \ {k}, j \in Cached \ {k} :
                  p = <<i, j>> /\ mtime'[i] < mtime'[j]
          BY <2>4 DEF Older
        <4> QED BY <2>3, <2>5, <4>1 DEF Lru!Without, Older
      <3>2. ASSUME NEW p \in Lru!Without(k) PROVE p \in Older'
        <4>1. PICK i \in Cached, j \in Cached :
                  p = <<i, j>> /\ mtime[i] < mtime[j] /\ i # k /\ j # k
          BY DEF Older, Lru!Without
        <4> QED BY <2>3, <2>4, <2>5, <4>1 DEF Older
      <3> QED BY <3>1, <3>2
    <2>7. \A j \in Cached : <<j, k>> \notin Older
      <3>1. \A j \in Cached : mtime[j] \in Nat /\ mtime[k] <= mtime[j]
        BY <1>0, <2>3 DEF Oldest, TypeOK
      <3>2. mtime[k] \in Nat
        BY <2>3, <3>1
      <3> QED BY <3>1, <3>2, OlderPairs
    <2>8. Dated' /\ clock' = clock /\ UNCHANGED <<job, tmp>>
      BY <1>0, <1>6, <2>3, <2>4, <2>5 DEF Dated, EvictOldest
    <2>9. LruInv'
      BY <1>0, <2>8 DEF LruInv, Dated
    <2>10. Lru!TooMany
      BY <1>6, SameSize DEF EvictOldest, OverCapacity, Lru!TooMany
    <2>11. Lru!DropOldest(k)
      BY <1>2, <2>1, <2>3, <2>4, <2>6, <2>7, <2>8, <2>10 DEF Lru!DropOldest, Evicting
    <2> QED BY <2>3, <2>9, <2>11 DEF Lru!Next
  <1>7. CASE StoreDone(t)
    <2>1. UNCHANGED <<block, mtime, clock, tmp>>
      BY <1>7 DEF StoreDone, files
    <2>2. \A s \in Threads : job'[s].step = "out"
      BY <1>0, <1>7, LeaveType DEF StoreDone, files, TypeOK, Alone
    <2>3. Evicting /\ ~Evicting'
      BY <1>1, <1>7, <2>2 DEF StoreDone, Evicting
    <2>4. LruInv'
      BY <1>0, <2>1, <2>2, SameOrder DEF LruInv, Dated
    <2>5. ~Lru!TooMany
      BY <1>7, SameSize DEF StoreDone, OverCapacity, Separable, Lru!TooMany
    <2>6. Lru!Trimmed
      BY <1>2, <2>1, <2>3, <2>5, SameOrder DEF Lru!Trimmed, Lru!order, Evicting
    <2> QED BY <2>4, <2>6 DEF Lru!Next
  <1> QED BY <1>3, <1>4, <1>5, <1>6, <1>7 DEF StoreStep

LEMMA LruNext == ASSUME Separable, LruInv, [Next]_vars PROVE LruInv' /\ [Lru!Next]_Lru!vars
  <1>0. TypeOK /\ TypeOK' /\ Dated
    BY NextType DEF LruInv, Dated
  <1>1. CASE \E n \in Capacities : Configure(n)
    <2>1. UNCHANGED <<mu, job, block, tmp, mtime, clock, hits>> /\ Free
      BY <1>1 DEF Configure, files, stats
    <2>2. LruInv'
      BY <1>0, <2>1, SameOrder DEF LruInv, Dated
    <2>3. ~Evicting /\ ~Evicting' /\ maxBlocks' \in Nat
      BY <1>0, <2>1, OneEvicts DEF Evicting, TypeOK
    <2>4. Lru!SetCapacity
      BY <2>1, <2>3, SameOrder DEF Lru!SetCapacity, Lru!order, Evicting
    <2> QED BY <2>2, <2>4 DEF Lru!Next
  <1>2. ASSUME NEW k \in Keys, TryLoadHit(k) PROVE LruInv' /\ [Lru!Next]_Lru!vars
    <2>1. PICK c \in Stamps : mtime' = [mtime EXCEPT ![k] = c] /\ clock' = c
      BY <1>2 DEF TryLoadHit, Separable
    <2>2. /\ UNCHANGED <<maxBlocks, job, block, tmp>> /\ Free
          /\ block[k] # NoFile /\ hits' = Count(hits)
      BY <1>2 DEF TryLoadHit, config
    <2>3. k \in Cached /\ Cached' = Cached \cup {k}
      BY <2>2 DEF Cached
    <2>4. Lru!MostRecent(k) /\ Dated'
      BY <1>0, <2>1, <2>3, StampIsLast DEF Separable
    <2>5. LruInv'
      BY <1>0, <2>2, <2>4 DEF LruInv, Dated
    <2>6. ~Evicting /\ (Evicting' <=> Evicting) /\ hits' \in {hits, hits + 1}
      BY <1>0, <2>2, OneEvicts DEF Evicting, Count
    <2>7. Lru!Use(k)
      BY <2>2, <2>3, <2>4, <2>6 DEF Lru!Use, Evicting
    <2> QED BY <2>5, <2>7 DEF Lru!Next
  <1>3. ASSUME UNCHANGED <<maxBlocks, job, block, tmp, mtime, clock, hits>>
        PROVE  LruInv' /\ [Lru!Next]_Lru!vars
    <2>1. LruInv'
      BY <1>0, <1>3, SameOrder DEF LruInv, Dated
    <2> QED BY <1>3, <2>1, SameOrder DEF Lru!vars, Lru!order
  <1>4. CASE \E k \in Keys : TryLoadMiss(k)
    BY <1>3, <1>4 DEF TryLoadMiss, config, files
  <1>5. CASE UNCHANGED vars \/ StoreRefused
    BY <1>3, <1>5 DEF StoreRefused, vars, config, files, stats
  <1>6. ASSUME NEW t \in Threads, NEW k \in Keys, NEW d \in Whole[k], StoreOpen(t, k, d)
        PROVE  LruInv' /\ [Lru!Next]_Lru!vars
    <2>1. \A s \in Threads : job[s].step = "out"
      BY <1>0, <1>6, ThreadsAssumption DEF TypeOK, StoreOpen, Free
    <2>2. UNCHANGED <<maxBlocks, block, mtime, clock, hits>>
      BY <1>6 DEF StoreOpen, config, stats
    <2>3. \A s \in Threads : job'[s].step \in {"out", "opened"}
      BY <1>0, <1>6, <2>1 DEF StoreOpen, TypeOK
    <2>4. LruInv'
      BY <1>0, <2>2, <2>3, SameOrder DEF LruInv, Dated
    <2>5. ~Evicting /\ ~Evicting'
      BY <2>1, <2>3 DEF Evicting
    <2> QED BY <2>2, <2>4, <2>5, SameOrder DEF Lru!vars, Lru!order, Evicting
  <1>7. ASSUME NEW t \in Threads, StoreStep(t) PROVE LruInv' /\ [Lru!Next]_Lru!vars
    BY <1>7, LruStoreStep
  <1>8. CASE Crash
    <2>1. /\ UNCHANGED <<block, tmp, mtime, clock>> /\ maxBlocks' = 0 /\ hits' = 0
          /\ \A t \in Threads : job'[t].step = "out"
      BY <1>0, <1>8, CrashType DEF Crash, files
    <2>2. LruInv'
      BY <1>0, <2>1, SameOrder DEF LruInv, Dated
    <2>3. ~Evicting'
      BY <2>1 DEF Evicting
    <2>4. Lru!Die
      BY <2>1, <2>3, SameOrder DEF Lru!Die, Lru!order, Evicting
    <2> QED BY <2>2, <2>4 DEF Lru!Next
  <1> QED BY <1>1, <1>2, <1>4, <1>5, <1>6, <1>7, <1>8 DEF Next

(* The directory is a least-recently-used set of blocks, for any threads,  *)
(* blocks, capacities and deaths: try_load()'s touch makes a block the     *)
(* most recent, and evict_if_needed() removes none but the least recent    *)
(* and none while the capacity is kept.                                    *)
THEOREM LruIsKept == Separable => (Spec => KeepsTheMostRecent)
  <1> SUFFICES ASSUME Separable PROVE Spec => KeepsTheMostRecent
    OBVIOUS
  <1>1. Init => LruInv /\ Lru!Init
    <2> SUFFICES ASSUME Init PROVE LruInv /\ Lru!Init
      OBVIOUS
    <2>1. Cached = {} /\ Older = {}
      BY DEF Init, Separable, Cached, Older
    <2>2. \A t \in Threads : job[t].step = "out"
      BY DEF Init, NoJob
    <2>3. LruInv
      BY <2>1, <2>2, InitType DEF LruInv, Dated
    <2> QED BY <2>1, <2>2, <2>3 DEF Init, Lru!Init
  <1>2. LruInv /\ [Next]_vars => LruInv' /\ [Lru!Next]_Lru!vars
    BY LruNext
  <1> QED BY <1>1, <1>2, PTL DEF Spec, KeepsTheMostRecent, Lru!Spec
=============================================================================
