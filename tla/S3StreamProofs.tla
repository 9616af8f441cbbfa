--------------------------- MODULE S3StreamProofs ---------------------------
(***************************************************************************)
(* Proofs about S3Stream for any object, streams, read-ahead, cache        *)
(* capacity, faults and crashes, when                                      *)
(*   - all streams of the object have the same read-ahead,                 *)
(*   - the server always honours Range or never, and one that never does   *)
(*     finds no cached blocks that were left by one that did,              *)
(*   - no caller seeks relative to a position past the end,                *)
(*   - closing a file loses no bytes.                                      *)
(* Each condition is needed: the README tells what happens without it.     *)
(***************************************************************************)
EXTENDS S3Stream, TLAPS

Sound ==
    /\ \A s, t \in Streams : ReadAhead[s] = ReadAhead[t]
    /\ Servers \subseteq {"always", "never"}
    /\ "never" \in Servers => Pinned = {}
    /\ ~RelativePastEnd
    /\ "close" \notin Faults

DiskP == INSTANCE DiskCacheProofs WITH
             Threads <- Streams, Keys <- Offsets, Whole <- WholeBlock

-----------------------------------------------------------------------------
(* The window holds the object's bytes from window_start_ on; one that is  *)
(* not the last is a full read-ahead long, and with the cache on it starts *)
(* at a chunk boundary.  From a server that never honours Range it is the  *)
(* whole object.                                                           *)
Aligned(s, w) == ChunkStart(w, ReadAhead[s]) = w

WindowInv(s) ==
    /\ goff[s] <= win[s].len
    /\ win[s].len > 0 => win[s].from = wstart[s] /\ wstart[s] + win[s].len <= Size
    /\ win[s].len > 0 /\ ~eof[s] => win[s].len = ReadAhead[s]
    /\ win[s].len > 0 /\ eof[s] => wstart[s] + win[s].len >= Size
    /\ enabled => Aligned(s, wstart[s])
    /\ server = "never" => wstart[s] = 0 /\ (win[s].len > 0 => eof[s])

(* The get pointer is at the caller's position, or both are past the end.  *)
CursorInv(s) ==
    want[s] # Lost =>
        /\ \/ want[s] = wstart[s] + goff[s]
           \/ want[s] > Size /\ eof[s] /\ goff[s] = win[s].len
        /\ eof[s] /\ win[s].len = 0 => wstart[s] >= Size

(* What a call under way has decided and not done yet.                     *)
CallInv(s) ==
    /\ InCall(s) => cacheOn[s] = enabled
    /\ pc[s] \in {"lookup", "store", "storing"} => cacheOn[s]
    /\ InCall(s) /\ op[s] = "read" =>
           ~eof[s] /\ goff[s] = win[s].len /\ target[s] = wstart[s] + win[s].len
    /\ InCall(s) /\ op[s] = "seek" =>
           goal[s] = target[s] \/ (goal[s] = Lost /\ want[s] = Lost)
    /\ InCall(s) => target[s] \in Offsets
    /\ pc[s] \in {"store", "storing"} =>
           /\ Start(s) < Size /\ body[s] = Slice(Start(s), ReadAhead[s])
           /\ server # "never"

(* A stream that is not open is as new.                                    *)
ClosedInv(s) ==
    pc[s] = "closed" =>
        /\ wstart[s] = 0 /\ win[s] = NoBytes /\ goff[s] = 0 /\ ~eof[s] /\ ~err[s]
        /\ want[s] = 0 /\ out[s] = Returns("none", 0)

(* An end of file without an error is the object's end.                    *)
EndInv(s) ==
    pc[s] = "idle" /\ ~err[s] =>
        /\ out[s].kind = "eof" => wstart[s] + win[s].len >= Size
        /\ eof[s] => wstart[s] + win[s].len >= Size

StreamInv(s) ==
    WindowInv(s) /\ CursorInv(s) /\ CallInv(s) /\ ClosedInv(s) /\ EndInv(s)

(* What such a server answers is not cached.                               *)
NoBlocks == server = "never" => \A k \in Offsets : block[k] = Disk!NoFile

IInv ==
    /\ TypeOK
    /\ NoBlocks
    /\ DiskP!IInv
    /\ enabled => maxBlocks > 0
    /\ \A s \in Streams : StreamInv(s)

-----------------------------------------------------------------------------
(* Arithmetic of chunks and slices.                                        *)
LEMMA ChunkBounds ==
    ASSUME NEW t \in Nat, NEW ra \in Nat \ {0}
    PROVE  /\ ChunkStart(t, ra) \in Nat
           /\ ChunkStart(t, ra) <= t
           /\ t < ChunkStart(t, ra) + ra
  BY DEF ChunkStart

LEMMA ChunkOfMultiple ==
    ASSUME NEW q \in Nat, NEW ra \in Nat \ {0}
    PROVE  ChunkStart(q * ra, ra) = q * ra
  BY DEF ChunkStart

LEMMA ChunkIdempotent ==
    ASSUME NEW t \in Nat, NEW ra \in Nat \ {0}
    PROVE  ChunkStart(ChunkStart(t, ra), ra) = ChunkStart(t, ra)
  <1>1. t \div ra \in Nat
    OBVIOUS
  <1> QED
    BY <1>1, ChunkOfMultiple DEF ChunkStart

LEMMA NextChunk ==
    ASSUME NEW w \in Nat, NEW ra \in Nat \ {0}, ChunkStart(w, ra) = w
    PROVE  ChunkStart(w + ra, ra) = w + ra
  <1>1. w \div ra \in Nat /\ w = (w \div ra) * ra
    BY DEF ChunkStart
  <1>2. ((w \div ra) + 1) * ra = w + ra
    BY <1>1
  <1> QED
    BY <1>1, <1>2, ChunkOfMultiple

LEMMA SliceIsData ==
    ASSUME NEW k \in Nat, k < Size, NEW s \in Streams
    PROVE  /\ Slice(k, ReadAhead[s]) \in Disk!Data
           /\ Slice(k, ReadAhead[s]) \in DiskP!Data
           /\ Slice(k, ReadAhead[s]).from = k
           /\ Slice(k, ReadAhead[s]).len \in 1 .. ReadAhead[s]
           /\ k + Slice(k, ReadAhead[s]).len <= Size
           /\ Slice(k, ReadAhead[s]).len < ReadAhead[s]
                 => k + Slice(k, ReadAhead[s]).len = Size
  BY SizesAssumption DEF Slice, Least, Disk!Data, DiskP!Data

(* With one read-ahead, a block has one complete content.                  *)
LEMMA WholeIsSlice ==
    ASSUME Sound, NEW k \in Offsets, NEW s \in Streams, NEW d \in WholeBlock[k]
    PROVE  k < Size /\ d = Slice(k, ReadAhead[s])
  BY DEF Sound, WholeBlock

LEMMA SliceIsWhole ==
    ASSUME NEW k \in Offsets, k < Size, NEW s \in Streams
    PROVE  Slice(k, ReadAhead[s]) \in WholeBlock[k]
  BY DEF WholeBlock

-----------------------------------------------------------------------------
(* The cache's own invariant, from DiskCacheProofs.                        *)
LEMMA CacheAssumptions ==
    /\ NoThread \notin Streams /\ NoKey \notin Offsets
    /\ WholeBlock \in [Offsets -> SUBSET DiskP!Data]
    /\ \A k \in Pinned : WholeBlock[k] # {}
    /\ Capacities \subseteq Int
    /\ Pinned \subseteq Offsets
    /\ Faults \subseteq DiskP!AllFaults
    /\ FineClock \in BOOLEAN
    /\ MaxClock \in Nat /\ MaxStat \in Nat /\ MaxCrashes \in Nat
  <1>1. \A k \in Offsets : k \in Nat
    BY SizesAssumption DEF Offsets
  <1>2. \A k \in Offsets, s \in Streams : k < Size => Slice(k, ReadAhead[s]) \in DiskP!Data
    BY <1>1, SliceIsData
  <1>3. WholeBlock \in [Offsets -> SUBSET DiskP!Data]
    BY <1>2 DEF WholeBlock
  <1>4. \A k \in Pinned : WholeBlock[k] # {}
    BY CacheAssumption DEF WholeBlock
  <1> QED
    BY <1>3, <1>4, CacheAssumption DEF DiskP!AllFaults

LEMMA CacheInitInv == Disk!Init => DiskP!IInv
  <1>1. Disk!Init => DiskP!Init
    BY DEF Disk!Init, DiskP!Init, Disk!NoJob, DiskP!NoJob, Disk!NoFile, DiskP!NoFile
  <1> QED
    BY <1>1, CacheAssumptions, DiskP!InitInv

LEMMA CacheStepInv ==
    ASSUME Sound, DiskP!IInv, DiskP!Next \/ UNCHANGED disk
    PROVE  DiskP!IInv'
  <1>1. UNCHANGED disk => UNCHANGED DiskP!vars
    BY DEF disk, DiskP!vars, DiskP!config, DiskP!files, DiskP!stats
  <1> QED
    BY <1>1, CacheAssumptions, DiskP!NextInv DEF Sound

(* The two instances of DiskCache are one.                                 *)
LEMMA SameConfigure == \A n \in Capacities : Disk!Configure(n) => DiskP!Next
  BY DEF DiskP!Next, Disk!Configure, DiskP!Configure, Disk!Free, DiskP!Free,
         Disk!Disable, DiskP!Disable, Disk!Clamped, DiskP!Clamped,
         Disk!files, DiskP!files, Disk!stats, DiskP!stats

LEMMA SameTryLoad ==
    \A k \in Offsets : Disk!TryLoadHit(k) \/ Disk!TryLoadMiss(k) => DiskP!Next
  BY DEF DiskP!Next, Disk!TryLoadHit, DiskP!TryLoadHit, Disk!TryLoadMiss,
         DiskP!TryLoadMiss, Disk!Free, DiskP!Free, Disk!NoFile, DiskP!NoFile,
         Disk!Stamps, DiskP!Stamps, Disk!Count, DiskP!Count,
         Disk!config, DiskP!config, Disk!files, DiskP!files, Disk!stats, DiskP!stats

LEMMA SameStoreOpen ==
    ASSUME NEW t \in Streams, NEW k \in Offsets, NEW d \in WholeBlock[k],
           maxBlocks > 0, Disk!StoreOpen(t, k, d)
    PROVE  DiskP!Next
  <1>1. DiskP!StoreOpen(t, k, d)
    BY DEF Disk!StoreOpen, DiskP!StoreOpen, Disk!Free, DiskP!Free,
           Disk!Stamps, DiskP!Stamps, Disk!config, DiskP!config, Disk!stats, DiskP!stats
  <1> QED
    BY <1>1 DEF DiskP!Next

LEMMA SameStoreStep ==
    ASSUME NEW t \in Streams, Disk!StoreStep(t)
    PROVE  DiskP!Next
  <1> USE DEF Disk!config, DiskP!config, Disk!stats, DiskP!stats, Disk!Leave, DiskP!Leave,
              Disk!NoJob, DiskP!NoJob, Disk!NoFile, DiskP!NoFile
  <1>1. Disk!StoreWrite(t) => DiskP!StoreWrite(t)
    BY DEF Disk!StoreWrite, DiskP!StoreWrite
  <1>2. Disk!StoreDrop(t) => DiskP!StoreDrop(t)
    BY DEF Disk!StoreDrop, DiskP!StoreDrop
  <1>3. Disk!StoreRename(t) => DiskP!StoreRename(t)
    BY DEF Disk!StoreRename, DiskP!StoreRename, Disk!Stamps, DiskP!Stamps
  <1>4. Disk!OverCapacity = DiskP!OverCapacity
    BY DEF Disk!OverCapacity, DiskP!OverCapacity, Disk!Cached, DiskP!Cached,
           Disk!Cardinality, DiskP!Cardinality
  <1>5. Disk!EvictOldest(t) => DiskP!EvictOldest(t)
    BY <1>4 DEF Disk!EvictOldest, DiskP!EvictOldest, Disk!Oldest, DiskP!Oldest,
           Disk!Cached, DiskP!Cached
  <1>6. Disk!StoreDone(t) => DiskP!StoreDone(t)
    BY <1>4 DEF Disk!StoreDone, DiskP!StoreDone, Disk!files, DiskP!files
  <1>7. DiskP!StoreStep(t)
    BY <1>1, <1>2, <1>3, <1>5, <1>6 DEF Disk!StoreStep, DiskP!StoreStep
  <1> QED
    BY <1>7 DEF DiskP!Next

LEMMA SameCrash == Disk!Crash => DiskP!Next
  BY DEF DiskP!Next, Disk!Crash, DiskP!Crash, Disk!NoJob, DiskP!NoJob,
         Disk!files, DiskP!files

LEMMA SameNext == Disk!Next => DiskP!Next \/ UNCHANGED disk
  <1>1. Disk!StoreRefused => UNCHANGED disk
    BY DEF Disk!StoreRefused, Disk!vars, Disk!config, Disk!files, Disk!stats, disk
  <1> QED
    BY <1>1, SameConfigure, SameTryLoad, SameStoreOpen, SameStoreStep, SameCrash
    DEF Disk!Next

-----------------------------------------------------------------------------
(* What the streams rely on: the window of a stream, and the way a load    *)
(* ends, one stream at a time.                                             *)
LEMMA InitInv == Sound /\ Init => IInv
  <1> SUFFICES ASSUME Sound, Init PROVE IInv
    OBVIOUS
  <1>1. TypeOK
    BY SizesAssumption, ServerAssumption, CacheAssumption
    DEF Init, TypeOK, Pcs, Returns, NoBytes, Disk!Data, Disk!Init
  <1>2. DiskP!IInv
    BY CacheInitInv DEF Init
  <1>3. ~enabled
    BY DEF Init, Disk!Init
  <1>4. ASSUME NEW s \in Streams PROVE StreamInv(s)
    BY <1>3 DEF Init, StreamInv, WindowInv, CursorInv, CallInv, ClosedInv, EndInv,
                InCall, NoBytes, Lost, Returns
  <1>5. NoBlocks
    BY DEF Init, Sound, NoBlocks, Disk!Init
  <1> QED
    BY <1>1, <1>2, <1>3, <1>4, <1>5 DEF IInv

(* A step leaves stream r alone.                                           *)
Untouched(r) ==
    /\ pc'[r] = pc[r] /\ op'[r] = op[r] /\ target'[r] = target[r] /\ goal'[r] = goal[r]
    /\ cacheOn'[r] = cacheOn[r] /\ body'[r] = body[r]
    /\ wstart'[r] = wstart[r] /\ win'[r] = win[r] /\ goff'[r] = goff[r]
    /\ eof'[r] = eof[r] /\ err'[r] = err[r] /\ want'[r] = want[r] /\ out'[r] = out[r]

LEMMA UntouchedInv ==
    ASSUME NEW r \in Streams, StreamInv(r), Untouched(r), UNCHANGED <<server, enabled>>
    PROVE  StreamInv(r)'
  BY DEF Untouched, StreamInv, WindowInv, CursorInv, CallInv, ClosedInv, EndInv,
         InCall, Aligned, Start

(* What load_window has in hand when it succeeds.                          *)
GoodLoad(s, start, bytes, offset, atEnd) ==
    /\ start \in Nat /\ bytes \in Disk!Data /\ offset \in Nat /\ atEnd \in BOOLEAN
    /\ offset <= bytes.len
    /\ bytes.len > 0 => /\ bytes.from = start
                        /\ start + bytes.len <= Size
                        /\ atEnd => start + bytes.len = Size
                        /\ ~atEnd => bytes.len = ReadAhead[s]
    /\ bytes.len = 0 => atEnd /\ start >= Size
    /\ server = "never" => start = 0 /\ atEnd
    /\ enabled => Aligned(s, start)
    /\ op[s] = "read" => start + offset = target[s] /\ (bytes.len > 0 => offset < bytes.len)
    /\ op[s] = "seek" => \/ start + offset = target[s]
                         \/ target[s] > Size /\ atEnd /\ offset = bytes.len

(* A read under way is at the position its caller means.                   *)
LEMMA ReadTarget ==
    ASSUME TypeOK, NEW s \in Streams, StreamInv(s), InCall(s), op[s] = "read",
           want[s] # Lost
    PROVE  want[s] = target[s]
  BY DEF StreamInv, CursorInv, CallInv, TypeOK, Disk!Data

LEMMA SucceedType ==
    ASSUME TypeOK, NEW s \in Streams,
           NEW start, NEW bytes, NEW offset, NEW atEnd,
           GoodLoad(s, start, bytes, offset, atEnd),
           Succeed(s, start, bytes, offset, atEnd),
           UNCHANGED <<region, server>>, mu' # s, \A r \in Streams \ {s} : mu' = r <=> mu = r
    PROVE  /\ TypeOK'
           /\ \A r \in Streams \ {s} : Untouched(r)
           /\ pc'[s] = "idle"
  <1>1. /\ pc' \in [Streams -> Pcs] /\ pc'[s] = "idle"
        /\ \A r \in Streams \ {s} : pc'[r] = pc[r]
        /\ \A r \in Streams : pc'[r] = "storing" <=> mu' = r
    BY DEF TypeOK, Succeed, EndCall, Set, Pcs
  <1>2. /\ op' \in [Streams -> {"read", "seek"}]
        /\ target' \in [Streams -> Nat]
        /\ goal' \in [Streams -> Nat \cup {Lost}]
        /\ cacheOn' \in [Streams -> BOOLEAN]
        /\ redirected' \in [Streams -> BOOLEAN]
        /\ body' \in [Streams -> Disk!Data]
    BY DEF TypeOK, Succeed, EndCall, Set, NoBytes, Disk!Data
  <1>3. attempt' \in [Streams -> 0 .. MaxAttempts - 1]
    BY SizesAssumption DEF TypeOK, Succeed, EndCall, Set
  <1>4. /\ wstart' \in [Streams -> Nat]
        /\ win' \in [Streams -> Disk!Data]
        /\ goff' \in [Streams -> Nat]
        /\ err' \in [Streams -> BOOLEAN]
        /\ eof' \in [Streams -> BOOLEAN]
    <2>0. start \in Nat /\ bytes \in Disk!Data /\ offset \in Nat /\ offset + 1 \in Nat
      BY DEF GoodLoad
    <2>1. wstart' \in [Streams -> Nat] /\ win' \in [Streams -> Disk!Data]
          /\ goff' \in [Streams -> Nat]
      BY <2>0 DEF TypeOK, Succeed, Set
    <2>2. err' \in [Streams -> BOOLEAN]
      BY DEF TypeOK, Succeed, Set
    <2>3. PICK b \in BOOLEAN : eof' = [eof EXCEPT ![s] = b]
      BY DEF Succeed, GoodLoad, Set
    <2> QED
      BY <2>1, <2>2, <2>3 DEF TypeOK
  <1>5. want' \in [Streams -> Nat \cup {Lost}]
    BY DEF TypeOK, Succeed, Set
  <1>6. out' \in [Streams -> [kind : {"none", "byte", "eof", "pos", "fail"}, at : Int]]
    BY DEF TypeOK, Succeed, Set, Returns, Junk, GoodLoad, Disk!Data
  <1>7. TypeOK'
    BY <1>1, <1>2, <1>3, <1>4, <1>5, <1>6 DEF TypeOK
  <1>8. ASSUME NEW r \in Streams \ {s} PROVE Untouched(r)
    BY DEF Untouched, TypeOK, Succeed, EndCall, Set
  <1> QED
    BY <1>1, <1>7, <1>8

LEMMA SucceedInv ==
    ASSUME TypeOK, NEW s \in Streams, StreamInv(s), InCall(s),
           NEW start, NEW bytes, NEW offset, NEW atEnd,
           GoodLoad(s, start, bytes, offset, atEnd),
           Succeed(s, start, bytes, offset, atEnd),
           UNCHANGED <<server, enabled>>
    PROVE  StreamInv(s)'
  <1>1. /\ pc'[s] = "idle" /\ wstart'[s] = start /\ win'[s] = bytes /\ err'[s] = FALSE
    BY DEF TypeOK, Succeed, EndCall, Set
  <1>2. CallInv(s)' /\ ClosedInv(s)'
    BY <1>1 DEF CallInv, ClosedInv, InCall
  <1>3. CASE op[s] = "seek"
    <2>1. goff'[s] = offset /\ eof'[s] = atEnd /\ want'[s] = goal[s]
          /\ out'[s].kind = "pos"
      BY <1>3 DEF TypeOK, Succeed, Set, Returns
    <2>2. goal[s] \in {Lost, target[s]} /\ target[s] \in Nat
      BY <1>3 DEF TypeOK, StreamInv, CallInv
    <2>3. WindowInv(s)'
      BY <1>1, <2>1 DEF WindowInv, GoodLoad, Aligned, Disk!Data
    <2>4. CursorInv(s)'
      BY <1>1, <1>3, <2>1, <2>2 DEF CursorInv, GoodLoad, Disk!Data
    <2>5. EndInv(s)'
      BY <1>1, <2>1 DEF EndInv, GoodLoad, Disk!Data
    <2> QED
      BY <1>2, <2>3, <2>4, <2>5 DEF StreamInv
  <1>4. CASE op[s] = "read" /\ bytes.len = 0
    <2>1. goff'[s] = offset /\ eof'[s] = TRUE /\ want'[s] = want[s]
          /\ out'[s].kind = "eof"
      BY <1>4 DEF TypeOK, Succeed, Set, Returns
    <2>2. want[s] # Lost => want[s] = target[s]
      BY <1>4, ReadTarget
    <2>3. WindowInv(s)'
      BY <1>1, <1>4, <2>1 DEF WindowInv, GoodLoad, Aligned
    <2>4. CursorInv(s)'
      BY <1>1, <1>4, <2>1, <2>2 DEF CursorInv, GoodLoad
    <2>5. EndInv(s)'
      BY <1>1, <1>4, <2>1 DEF EndInv, GoodLoad
    <2> QED
      BY <1>2, <2>3, <2>4, <2>5 DEF StreamInv
  <1>5. CASE op[s] = "read" /\ bytes.len > 0
    <2>1. goff'[s] = offset + 1 /\ eof'[s] = atEnd
          /\ want'[s] = (IF want[s] = Lost THEN Lost ELSE want[s] + 1)
          /\ out'[s].kind = "byte"
      BY <1>5 DEF TypeOK, Succeed, Set, Returns, GoodLoad
    <2>2. want[s] # Lost => want[s] = target[s] /\ target[s] \in Nat
      BY <1>5, ReadTarget DEF TypeOK
    <2>3. WindowInv(s)'
      BY <1>1, <1>5, <2>1 DEF WindowInv, GoodLoad, Aligned, Disk!Data
    <2>4. CursorInv(s)'
      BY <1>1, <1>5, <2>1, <2>2 DEF CursorInv, GoodLoad, Disk!Data
    <2>5. EndInv(s)'
      BY <1>1, <2>1 DEF EndInv, GoodLoad, Disk!Data
    <2> QED
      BY <1>2, <2>3, <2>4, <2>5 DEF StreamInv
  <1>6. bytes.len \in Nat /\ op[s] \in {"read", "seek"}
    BY DEF GoodLoad, Disk!Data, TypeOK
  <1> QED
    BY <1>3, <1>4, <1>5, <1>6

(* The ways a load succeeds.                                               *)
LEMMA StartBounds ==
    ASSUME TypeOK, NEW s \in Streams, StreamInv(s), InCall(s)
    PROVE  /\ Start(s) \in Nat /\ Start(s) <= target[s] /\ Start(s) \in Offsets
           /\ target[s] < Start(s) + ReadAhead[s]
           /\ enabled => Aligned(s, Start(s))
           /\ op[s] = "read" => Start(s) = target[s]
  <1>1. ReadAhead[s] \in Nat \ {0} /\ target[s] \in Nat
    BY SizesAssumption DEF TypeOK
  <1>2. Start(s) \in Nat /\ Start(s) <= target[s] /\ target[s] < Start(s) + ReadAhead[s]
    BY <1>1, ChunkBounds DEF Start
  <1>3. Start(s) \in Offsets
    BY <1>2, SizesAssumption DEF StreamInv, CallInv, Offsets
  <1>4. enabled => Aligned(s, Start(s))
    BY <1>1, ChunkIdempotent DEF Aligned, Start, StreamInv, CallInv
  <1>5. ASSUME op[s] = "read", cacheOn[s] PROVE ChunkStart(target[s], ReadAhead[s]) = target[s]
    <2>1. Aligned(s, wstart[s]) /\ ~eof[s] /\ target[s] = wstart[s] + win[s].len
      BY <1>5 DEF StreamInv, CallInv, WindowInv
    <2>2. win[s].len = 0 \/ win[s].len = ReadAhead[s]
      BY <2>1 DEF StreamInv, WindowInv, TypeOK, Disk!Data
    <2>3. wstart[s] \in Nat
      BY DEF TypeOK
    <2> QED
      BY <1>1, <2>1, <2>2, <2>3, NextChunk DEF Aligned
  <1> QED
    BY <1>2, <1>3, <1>4, <1>5 DEF Start

LEMMA PartialIsGood ==
    ASSUME TypeOK, NEW s \in Streams, StreamInv(s), InCall(s), Start(s) < Size,
           server # "never"
    PROVE  LET bytes == Slice(Start(s), ReadAhead[s]) IN
               GoodLoad(s, Start(s), bytes, Least(target[s] - Start(s), bytes.len),
                        bytes.len < ReadAhead[s])
  <1> DEFINE bytes == Slice(Start(s), ReadAhead[s])
  <1>1. /\ bytes \in Disk!Data /\ bytes.from = Start(s)
        /\ bytes.len \in 1 .. ReadAhead[s] /\ Start(s) + bytes.len <= Size
        /\ bytes.len < ReadAhead[s] => Start(s) + bytes.len = Size
    BY StartBounds, SliceIsData
  <1>2. ReadAhead[s] \in Nat \ {0} /\ target[s] \in Nat /\ Size \in Nat
    BY SizesAssumption DEF TypeOK
  <1> HIDE DEF bytes
  <1>3. GoodLoad(s, Start(s), bytes, Least(target[s] - Start(s), bytes.len),
                 bytes.len < ReadAhead[s])
    BY <1>1, <1>2, StartBounds DEF GoodLoad, Least
  <1> QED
    BY <1>3 DEF bytes

LEMMA BeyondIsGood ==
    ASSUME TypeOK, NEW s \in Streams, StreamInv(s), InCall(s), Start(s) >= Size,
           server # "never"
    PROVE  GoodLoad(s, Start(s), NoBytes, 0, TRUE)
  <1>1. target[s] \in Nat /\ Size \in Nat
    BY SizesAssumption DEF TypeOK
  <1> QED
    BY <1>1, StartBounds DEF GoodLoad, NoBytes, Disk!Data

(* A read finds the window of such a server empty, or reports the end.     *)
LEMMA FullIsGood ==
    ASSUME TypeOK, NEW s \in Streams, StreamInv(s), InCall(s), server = "never"
    PROVE  GoodLoad(s, 0, [from |-> 0, len |-> Size], Least(target[s], Size), TRUE)
  <1>1. /\ target[s] \in Nat /\ Size \in Nat /\ win[s].len \in Nat
        /\ ReadAhead[s] \in Nat \ {0}
    BY SizesAssumption DEF TypeOK, Disk!Data
  <1>2. op[s] = "read" => target[s] = 0
    BY <1>1 DEF StreamInv, CallInv, WindowInv
  <1>3. Aligned(s, 0)
    BY <1>1, ChunkBounds DEF Aligned
  <1> QED BY <1>1, <1>2, <1>3 DEF GoodLoad, Least, Disk!Data

-----------------------------------------------------------------------------
(* Every action of a stream keeps the types and every stream's invariant.  *)
StreamsInv == TypeOK /\ \A s \in Streams : StreamInv(s)

LEMMA SucceedStep ==
    ASSUME StreamsInv, NEW s \in Streams, InCall(s),
           NEW start, NEW bytes, NEW offset, NEW atEnd,
           GoodLoad(s, start, bytes, offset, atEnd),
           Succeed(s, start, bytes, offset, atEnd),
           UNCHANGED <<region, server, enabled>>,
           mu' # s, \A r \in Streams \ {s} : mu' = r <=> mu = r
    PROVE  StreamsInv'
  BY SucceedType, SucceedInv, UntouchedInv DEF StreamsInv

LEMMA PartialStep ==
    ASSUME StreamsInv, NEW s \in Streams, InCall(s), Start(s) < Size, server # "never",
           NEW bytes, bytes = Slice(Start(s), ReadAhead[s]), InstallPartial(s, bytes),
           UNCHANGED <<region, server, enabled>>,
           mu' # s, \A r \in Streams \ {s} : mu' = r <=> mu = r
    PROVE  StreamsInv'
  <1>1. PICK start, offset, atEnd :
            /\ start = Start(s)
            /\ offset = Least(target[s] - Start(s), bytes.len)
            /\ atEnd = (bytes.len < ReadAhead[s])
            /\ Succeed(s, start, bytes, offset, atEnd)
    BY DEF InstallPartial, Succeed, EndCall, Set
  <1>2. GoodLoad(s, Start(s), bytes, Least(target[s] - Start(s), bytes.len),
                 bytes.len < ReadAhead[s])
    BY PartialIsGood DEF StreamsInv
  <1>3. GoodLoad(s, start, bytes, offset, atEnd)
    BY <1>1, <1>2
  <1> QED
    BY <1>1, <1>3, SucceedStep

LEMMA CacheHitIsSlice ==
    ASSUME Sound, DiskP!IInv, NoBlocks, NEW s \in Streams, NEW k \in Offsets,
           Disk!TryLoadHit(k)
    PROVE  k < Size /\ block[k] = Slice(k, ReadAhead[s]) /\ server # "never"
  <1>1. block[k] \in WholeBlock[k]
    BY DEF DiskP!IInv, DiskP!NoTornBlock, Disk!TryLoadHit, Disk!NoFile, DiskP!NoFile
  <1>2. server # "never"
    BY DEF NoBlocks, Disk!TryLoadHit
  <1> QED
    BY <1>1, <1>2, WholeIsSlice

LEMMA LookupHitStep ==
    ASSUME Sound, DiskP!IInv, NoBlocks, StreamsInv, NEW s \in Streams, LookupHit(s)
    PROVE  StreamsInv'
  <1>1. InCall(s) /\ pc[s] = "lookup" /\ Start(s) \in Offsets
    BY StartBounds DEF LookupHit, InCall, StreamsInv
  <1>2. /\ Start(s) < Size /\ block[Start(s)] = Slice(Start(s), ReadAhead[s])
        /\ server # "never"
    BY <1>1, CacheHitIsSlice DEF LookupHit
  <1>5. PICK bytes : bytes = block[Start(s)] /\ InstallPartial(s, bytes)
    BY DEF LookupHit, InstallPartial, Succeed, EndCall, Set
  <1>3. UNCHANGED <<region, server, enabled, mu>>
    BY DEF LookupHit, Disk!TryLoadHit, Disk!config
  <1>4. mu # s
    BY <1>1 DEF StreamsInv, TypeOK
  <1> QED
    BY <1>1, <1>2, <1>3, <1>4, <1>5, PartialStep

LEMMA StoreRefusedStep ==
    ASSUME StreamsInv, NEW s \in Streams, StoreRefused(s)
    PROVE  StreamsInv'
  <1>1. /\ InCall(s) /\ Start(s) < Size /\ body[s] = Slice(Start(s), ReadAhead[s]) /\ mu # s
        /\ server # "never"
    BY DEF StoreRefused, InCall, StreamsInv, StreamInv, CallInv, TypeOK
  <1>2. UNCHANGED <<region, server, enabled, mu>>
    BY DEF StoreRefused, Disk!StoreRefused, Disk!vars, Disk!config
  <1>3. PICK bytes : bytes = body[s] /\ InstallPartial(s, bytes)
    BY DEF StoreRefused, InstallPartial, Succeed, EndCall, Set
  <1> QED
    BY <1>1, <1>2, <1>3, PartialStep

(* The load moves on: nothing the other calls see changes.                 *)
LEMMA MoveStep ==
    ASSUME StreamsInv, NEW s \in Streams, InCall(s),
           NEW p \in {"creds", "get", "store", "storing"}, Set(pc, s, p),
           UNCHANGED <<op, target, goal, cacheOn, window, err, want, out, server,
                       enabled>>,
           attempt' \in [Streams -> 0 .. MaxAttempts - 1],
           redirected' \in [Streams -> BOOLEAN],
           region' \in [Streams -> Regions],
           body' \in [Streams -> Disk!Data], \A r \in Streams \ {s} : body'[r] = body[r],
           p \in {"store", "storing"} =>
               /\ cacheOn[s] /\ Start(s) < Size
               /\ body'[s] = Slice(Start(s), ReadAhead[s]) /\ server # "never",
           p = "storing" <=> mu' = s, \A r \in Streams \ {s} : mu' = r <=> mu = r
    PROVE  StreamsInv'
  <1>1. pc' \in [Streams -> Pcs] /\ pc'[s] = p /\ \A r \in Streams \ {s} : pc'[r] = pc[r]
    BY DEF StreamsInv, TypeOK, Set, Pcs
  <1>2. \A r \in Streams : pc'[r] = "storing" <=> mu' = r
    BY <1>1 DEF StreamsInv, TypeOK
  <1>3. TypeOK'
    BY <1>1, <1>2 DEF StreamsInv, TypeOK, window
  <1>4. ASSUME NEW r \in Streams \ {s} PROVE StreamInv(r)'
    BY <1>1, <1>4, UntouchedInv DEF StreamsInv, Untouched, window
  <1>5. Start(s)' = Start(s)
    BY DEF Start
  <1>6. CallInv(s)'
    BY <1>1, <1>5 DEF StreamsInv, StreamInv, CallInv, InCall, window
  <1>7. WindowInv(s)' /\ CursorInv(s)'
    BY DEF StreamsInv, StreamInv, WindowInv, CursorInv, Aligned, window
  <1>8. ClosedInv(s)' /\ EndInv(s)'
    BY <1>1 DEF ClosedInv, EndInv
  <1> QED
    BY <1>3, <1>4, <1>6, <1>7, <1>8 DEF StreamsInv, StreamInv

LEMMA LookupMissStep ==
    ASSUME StreamsInv, NEW s \in Streams, LookupMiss(s)
    PROVE  StreamsInv'
  <1>1. mu # s /\ UNCHANGED <<mu, enabled>> /\ InCall(s)
    BY DEF LookupMiss, StreamsInv, TypeOK, Disk!TryLoadMiss, Disk!config, InCall
  <1>2. /\ attempt' \in [Streams -> 0 .. MaxAttempts - 1]
        /\ redirected' \in [Streams -> BOOLEAN]
        /\ region' \in [Streams -> Regions]
        /\ body' \in [Streams -> Disk!Data]
    BY DEF LookupMiss, StreamsInv, TypeOK, load
  <1> QED
    BY <1>1, <1>2, MoveStep DEF LookupMiss, load

LEMMA StoreBeginStep ==
    ASSUME StreamsInv, NEW s \in Streams, StoreBegin(s)
    PROVE  StreamsInv'
  <1>1. mu' = s /\ mu = NoThread /\ UNCHANGED enabled /\ InCall(s)
    BY DEF StoreBegin, Disk!StoreOpen, Disk!config, Disk!Free, InCall
  <1>2. /\ attempt' \in [Streams -> 0 .. MaxAttempts - 1]
        /\ redirected' \in [Streams -> BOOLEAN]
        /\ region' \in [Streams -> Regions]
        /\ body' \in [Streams -> Disk!Data]
    BY DEF StoreBegin, StreamsInv, TypeOK, load
  <1>3. /\ cacheOn[s] /\ Start(s) < Size /\ body[s] = Slice(Start(s), ReadAhead[s])
        /\ server # "never"
    BY DEF StoreBegin, StreamsInv, StreamInv, CallInv
  <1>4. \A r \in Streams \ {s} : mu' # r /\ mu # r
    BY <1>1, CacheAssumption
  <1> QED
    BY <1>1, <1>2, <1>3, <1>4, MoveStep DEF StoreBegin, load

LEMMA StoreStepStep ==
    ASSUME StreamsInv, NEW s \in Streams, StoreStep(s)
    PROVE  StreamsInv'
  <1>1. InCall(s) /\ mu = s /\ cacheOn[s] /\ Start(s) < Size
        /\ body[s] = Slice(Start(s), ReadAhead[s]) /\ server # "never"
    BY DEF StoreStep, StreamsInv, StreamInv, CallInv, TypeOK, InCall
  <1>2. UNCHANGED <<enabled, region, server>> /\ mu' \in {s, NoThread}
    BY <1>1 DEF StoreStep, Disk!StoreStep, Disk!StoreWrite, Disk!StoreDrop, Disk!StoreRename,
           Disk!EvictOldest, Disk!StoreDone, Disk!Leave, Disk!config
  <1>3. \A r \in Streams \ {s} : mu' # r /\ mu # r
    BY <1>1, <1>2, CacheAssumption
  <1>4. CASE mu' = s
    <2>1. UNCHANGED <<pc, op, goal, load, window, err, want, out>>
      BY <1>4 DEF StoreStep
    <2>2. /\ attempt' \in [Streams -> 0 .. MaxAttempts - 1]
          /\ redirected' \in [Streams -> BOOLEAN]
          /\ region' \in [Streams -> Regions]
          /\ body' \in [Streams -> Disk!Data]
      BY <1>2, <2>1 DEF StreamsInv, TypeOK, load
    <2>3. Set(pc, s, "storing")
      BY <2>1 DEF StoreStep, Set, StreamsInv, TypeOK
    <2> QED
      BY <1>1, <1>2, <1>3, <1>4, <2>1, <2>2, <2>3, MoveStep DEF load
  <1>5. CASE mu' # s
    <2>1. PICK bytes : bytes = body[s] /\ InstallPartial(s, bytes)
      BY <1>5 DEF StoreStep, InstallPartial, Succeed, EndCall, Set
    <2> QED
      BY <1>1, <1>2, <1>3, <1>5, <2>1, PartialStep
  <1> QED
    BY <1>4, <1>5

LEMMA FailStep ==
    ASSUME StreamsInv, NEW s \in Streams, InCall(s), pc[s] # "storing", FailCall(s),
           UNCHANGED <<region, server, disk>>
    PROVE  StreamsInv'
  <1>0. mu' = mu /\ enabled' = enabled
    BY DEF disk
  <1>1. /\ pc' \in [Streams -> Pcs] /\ pc'[s] = "idle" /\ mu' # s
        /\ \A r \in Streams \ {s} : pc'[r] = pc[r]
    BY <1>0 DEF StreamsInv, TypeOK, FailCall, EndCall, Set, Pcs
  <1>2. /\ op' \in [Streams -> {"read", "seek"}]
        /\ target' \in [Streams -> Nat]
        /\ goal' \in [Streams -> Nat \cup {Lost}]
        /\ cacheOn' \in [Streams -> BOOLEAN]
        /\ redirected' \in [Streams -> BOOLEAN]
        /\ body' \in [Streams -> Disk!Data]
    BY DEF StreamsInv, TypeOK, FailCall, EndCall, Set, NoBytes, Disk!Data
  <1>3. attempt' \in [Streams -> 0 .. MaxAttempts - 1]
    BY SizesAssumption DEF StreamsInv, TypeOK, FailCall, EndCall, Set
  <1>4. /\ win' \in [Streams -> Disk!Data] /\ goff' \in [Streams -> Nat]
        /\ err' \in [Streams -> BOOLEAN] /\ want' \in [Streams -> Nat \cup {Lost}]
        /\ win'[s] = NoBytes /\ goff'[s] = 0 /\ err'[s] = TRUE /\ want'[s] = Lost
    BY DEF StreamsInv, TypeOK, FailCall, Set, NoBytes, Disk!Data
  <1>5. /\ out' \in [Streams -> [kind : {"none", "byte", "eof", "pos", "fail"}, at : Int]]
        /\ UNCHANGED <<wstart, eof>>
    BY DEF StreamsInv, TypeOK, FailCall, Set, Returns
  <1>6. TypeOK'
    BY <1>0, <1>1, <1>2, <1>3, <1>4, <1>5 DEF StreamsInv, TypeOK
  <1>7. ASSUME NEW r \in Streams \ {s} PROVE StreamInv(r)'
    <2>1. Untouched(r)
      BY DEF Untouched, StreamsInv, TypeOK, FailCall, EndCall, Set
    <2> QED
      BY <1>0, <2>1, UntouchedInv DEF StreamsInv
  <1>8. StreamInv(s)'
    BY <1>0, <1>1, <1>4, <1>5
    DEF StreamsInv, StreamInv, WindowInv, CursorInv, CallInv, ClosedInv, EndInv, InCall,
        NoBytes, Aligned
  <1> QED
    BY <1>6, <1>7, <1>8 DEF StreamsInv

LEMMA FetchStep ==
    ASSUME Sound, StreamsInv, NEW s \in Streams, Fetch(s)
    PROVE  StreamsInv'
  <1>0. InCall(s) /\ pc[s] \in {"creds", "get"} /\ UNCHANGED disk
    BY DEF Fetch, GetCredentials, MissingCredentials, GetPartial, GetFull, GetBeyond,
           GetRedirect, GetRetry, GetFail, Reached, InCall
  <1>1. UNCHANGED <<mu, enabled>> /\ mu # s /\ \A r \in Streams \ {s} : mu' = r <=> mu = r
    BY <1>0 DEF disk, StreamsInv, TypeOK
  <1>2. /\ attempt \in [Streams -> 0 .. MaxAttempts - 1]
        /\ redirected \in [Streams -> BOOLEAN]
        /\ region \in [Streams -> Regions]
        /\ body \in [Streams -> Disk!Data]
    BY DEF StreamsInv, TypeOK
  <1>3. CASE GetCredentials(s)
    BY <1>0, <1>1, <1>2, <1>3, MoveStep DEF GetCredentials, load
  <1>4. CASE MissingCredentials(s)
    BY <1>0, <1>4, FailStep DEF MissingCredentials
  <1>5. CASE GetPartial(s)
    <2>1. Start(s) < Size /\ Start(s) \in Nat /\ UNCHANGED <<region, server>>
          /\ server # "never"
      BY <1>0, <1>5, StartBounds DEF GetPartial, StreamsInv
    <2>2. PICK bytes : bytes = Slice(Start(s), ReadAhead[s])
      OBVIOUS
    <2>3. bytes \in Disk!Data
      BY <2>1, <2>2, SliceIsData
    <2>4. CASE cacheOn[s]
      <3>1. /\ Set(pc, s, "store") /\ body' = [body EXCEPT ![s] = bytes]
            /\ UNCHANGED <<op, goal, target, cacheOn, attempt, redirected, window, err,
                           want, out>>
        BY <1>5, <2>2, <2>4 DEF GetPartial, Set
      <3>2. body' \in [Streams -> Disk!Data] /\ body'[s] = bytes
            /\ \A r \in Streams \ {s} : body'[r] = body[r]
        BY <1>2, <2>3, <3>1
      <3> QED
        BY <1>0, <1>1, <1>2, <2>1, <2>2, <2>4, <3>1, <3>2, MoveStep
    <2>5. CASE ~cacheOn[s]
      <3>1. InstallPartial(s, bytes)
        BY <1>5, <2>2, <2>5 DEF GetPartial, InstallPartial, Succeed, EndCall, Set
      <3> QED
        BY <1>0, <1>1, <2>1, <2>2, <3>1, PartialStep
    <2> QED
      BY <2>4, <2>5
  <1>6. CASE GetFull(s)
    <2>1. PICK start, bytes, offset, atEnd :
              /\ start = 0 /\ bytes = [from |-> 0, len |-> Size]
              /\ offset = Least(target[s], Size) /\ atEnd = TRUE
              /\ Succeed(s, start, bytes, offset, atEnd)
      BY <1>6 DEF GetFull, InstallFull, Succeed, EndCall, Set
    <2>2. server = "never" /\ UNCHANGED <<region, server>>
      BY <1>6 DEF GetFull, Sound, StreamsInv, TypeOK
    <2>3. GoodLoad(s, 0, [from |-> 0, len |-> Size], Least(target[s], Size), TRUE)
      BY <1>0, <2>2, FullIsGood DEF StreamsInv
    <2>4. GoodLoad(s, start, bytes, offset, atEnd)
      BY <2>1, <2>3
    <2> QED
      BY <1>0, <1>1, <2>1, <2>2, <2>4, SucceedStep
  <1>7. CASE GetBeyond(s)
    <2>1. PICK start, bytes, offset, atEnd :
              /\ start = Start(s) /\ bytes = NoBytes /\ offset = 0 /\ atEnd = TRUE
              /\ Succeed(s, start, bytes, offset, atEnd)
      BY <1>7 DEF GetBeyond, Succeed, EndCall, Set
    <2>2. Start(s) >= Size /\ UNCHANGED <<region, server>> /\ server # "never"
      BY <1>7 DEF GetBeyond
    <2>3. GoodLoad(s, Start(s), NoBytes, 0, TRUE)
      BY <1>0, <2>2, BeyondIsGood DEF StreamsInv
    <2>4. GoodLoad(s, start, bytes, offset, atEnd)
      BY <2>1, <2>3
    <2> QED
      BY <1>0, <1>1, <2>1, <2>2, <2>4, SucceedStep
  <1>8. CASE GetRedirect(s)
    <2>1. region' \in [Streams -> Regions] /\ redirected' \in [Streams -> BOOLEAN]
      BY <1>2, <1>8 DEF GetRedirect, Set
    <2>2. Set(pc, s, "get")
      BY <1>8 DEF GetRedirect, Set, StreamsInv, TypeOK
    <2>3. UNCHANGED <<op, goal, target, cacheOn, attempt, body, window, err, want, out,
                     server>>
      BY <1>8 DEF GetRedirect
    <2> QED
      BY <1>0, <1>1, <1>2, <2>1, <2>2, <2>3, MoveStep
  <1>9. CASE GetRetry(s)
    <2>1. attempt' \in [Streams -> 0 .. MaxAttempts - 1]
      BY <1>2, <1>9, SizesAssumption DEF GetRetry, Set
    <2>2. Set(pc, s, "get")
      BY <1>9 DEF GetRetry, Set, StreamsInv, TypeOK
    <2>3. UNCHANGED <<op, goal, target, cacheOn, redirected, body, region, server, window,
                     err, want, out>>
      BY <1>9 DEF GetRetry
    <2> QED
      BY <1>0, <1>1, <1>2, <2>1, <2>2, <2>3, MoveStep
  <1>10. CASE GetFail(s)
    BY <1>0, <1>10, FailStep DEF GetFail
  <1> QED
    BY <1>3, <1>4, <1>5, <1>6, <1>7, <1>8, <1>9, <1>10 DEF Fetch

-----------------------------------------------------------------------------
(* The calls.                                                              *)
LEMMA OpenStep ==
    ASSUME StreamsInv, NEW s \in Streams, Open(s)
    PROVE  StreamsInv'
  <1>0. mu' = mu /\ enabled' = enabled
    BY DEF Open, disk
  <1>1. pc' \in [Streams -> Pcs] /\ pc[s] = "closed" /\ pc'[s] = "idle"
        /\ \A r \in Streams \ {s} : pc'[r] = pc[r]
    BY DEF Open, StreamsInv, TypeOK, Set, Pcs
  <1>2. UNCHANGED <<op, goal, target, cacheOn, attempt, redirected, body, region,
                    server, wstart, win, goff, eof, err, want, out>>
    BY DEF Open, load, window
  <1>3. TypeOK'
    BY <1>0, <1>1, <1>2 DEF StreamsInv, TypeOK
  <1>4. ASSUME NEW r \in Streams \ {s} PROVE StreamInv(r)'
    BY <1>0, <1>1, <1>2, UntouchedInv DEF StreamsInv, Untouched
  <1>5. StreamInv(s)'
    BY <1>0, <1>1, <1>2
    DEF StreamsInv, StreamInv, WindowInv, CursorInv, CallInv, ClosedInv, EndInv, InCall,
        NoBytes, Aligned, Returns
  <1> QED
    BY <1>3, <1>4, <1>5 DEF StreamsInv

LEMMA CloseStep ==
    ASSUME StreamsInv, NEW s \in Streams, Close(s)
    PROVE  StreamsInv'
  <1>0. mu' = mu /\ enabled' = enabled
    BY DEF Close, disk
  <1>1. pc' \in [Streams -> Pcs] /\ pc[s] = "idle" /\ pc'[s] = "closed"
        /\ \A r \in Streams \ {s} : pc'[r] = pc[r]
    BY DEF Close, StreamsInv, TypeOK, Set, Pcs
  <1>2. UNCHANGED <<op, goal, target, cacheOn, attempt, redirected, body, server>>
    BY DEF Close, load
  <1>3. /\ wstart' \in [Streams -> Nat] /\ win' \in [Streams -> Disk!Data]
        /\ goff' \in [Streams -> Nat] /\ want' \in [Streams -> Nat \cup {Lost}]
        /\ out' \in [Streams -> [kind : {"none", "byte", "eof", "pos", "fail"}, at : Int]]
    BY DEF Close, StreamsInv, TypeOK, Set, NoBytes, Disk!Data, Returns
  <1>4. /\ eof' \in [Streams -> BOOLEAN] /\ err' \in [Streams -> BOOLEAN]
        /\ region' \in [Streams -> Regions]
    BY ServerAssumption DEF Close, StreamsInv, TypeOK, Set
  <1>5. TypeOK'
    BY <1>0, <1>1, <1>2, <1>3, <1>4 DEF StreamsInv, TypeOK
  <1>6. ASSUME NEW r \in Streams \ {s} PROVE StreamInv(r)'
    <2>1. Untouched(r)
      BY <1>1, <1>2 DEF Untouched, StreamsInv, TypeOK, Close, Set
    <2> QED
      BY <1>0, <1>2, <2>1, UntouchedInv DEF StreamsInv
  <1>7. /\ wstart'[s] = 0 /\ win'[s] = NoBytes /\ goff'[s] = 0 /\ eof'[s] = FALSE
        /\ err'[s] = FALSE /\ want'[s] = 0 /\ out'[s] = Returns("none", 0)
    BY DEF Close, StreamsInv, TypeOK, Set
  <1>8. ChunkStart(0, ReadAhead[s]) = 0
    BY SizesAssumption, ChunkBounds
  <1>9. StreamInv(s)'
    BY <1>0, <1>1, <1>7, <1>8
    DEF StreamInv, WindowInv, CursorInv, CallInv, ClosedInv, EndInv, InCall, NoBytes,
        Aligned, Lost
  <1> QED
    BY <1>5, <1>6, <1>9 DEF StreamsInv

(* A call that is answered at once moves the get pointer within the window.*)
LEMMA AnswerStep ==
    ASSUME StreamsInv, NEW s \in Streams, pc[s] = "idle",
           NEW offset \in Nat, NEW p \in Nat \cup {Lost},
           NEW result \in [kind : {"none", "byte", "eof", "pos", "fail"}, at : Int],
           AnswerAtOnce(s, offset, p, result),
           NEW e \in BOOLEAN, err' = [err EXCEPT ![s] = e],
           offset <= win[s].len,
           p # Lost => /\ \/ p = wstart[s] + offset
                          \/ p > Size /\ eof[s] /\ offset = win[s].len
                       /\ eof[s] /\ win[s].len = 0 => wstart[s] >= Size,
           ~e /\ (result.kind = "eof" \/ eof[s]) => wstart[s] + win[s].len >= Size
    PROVE  StreamsInv'
  <1>0. mu' = mu /\ enabled' = enabled
    BY DEF AnswerAtOnce, disk
  <1>1. UNCHANGED <<pc, op, goal, target, cacheOn, attempt, redirected, body, region,
                    server, wstart, win, eof>>
    BY DEF AnswerAtOnce, load
  <1>2. /\ goff' \in [Streams -> Nat] /\ want' \in [Streams -> Nat \cup {Lost}]
        /\ out' \in [Streams -> [kind : {"none", "byte", "eof", "pos", "fail"}, at : Int]]
        /\ goff'[s] = offset /\ want'[s] = p /\ out'[s] = result
    BY DEF AnswerAtOnce, StreamsInv, TypeOK, Set
  <1>3. err' \in [Streams -> BOOLEAN] /\ err'[s] = e
    BY DEF StreamsInv, TypeOK
  <1>4. TypeOK'
    BY <1>0, <1>1, <1>2, <1>3 DEF StreamsInv, TypeOK
  <1>5. ASSUME NEW r \in Streams \ {s} PROVE StreamInv(r)'
    <2>1. Untouched(r)
      BY <1>1 DEF Untouched, StreamsInv, TypeOK, AnswerAtOnce, Set
    <2> QED
      BY <1>0, <1>1, <2>1, UntouchedInv DEF StreamsInv
  <1>6. WindowInv(s)' /\ CursorInv(s)'
    BY <1>0, <1>1, <1>2 DEF StreamsInv, StreamInv, WindowInv, CursorInv, Aligned
  <1>7. CallInv(s)' /\ ClosedInv(s)'
    BY <1>1 DEF CallInv, ClosedInv, InCall
  <1>8. EndInv(s)'
    BY <1>1, <1>2, <1>3 DEF EndInv
  <1> QED
    BY <1>4, <1>5, <1>6, <1>7, <1>8 DEF StreamsInv, StreamInv

LEMMA StartLoadStep ==
    ASSUME StreamsInv, enabled \in BOOLEAN, NEW s \in Streams, pc[s] = "idle",
           NEW o \in {"read", "seek"}, NEW t \in Offsets, NEW g \in Nat \cup {Lost},
           StartLoad(s, o, t, g),
           NEW e \in BOOLEAN, err' = [err EXCEPT ![s] = e],
           o = "read" => ~eof[s] /\ goff[s] = win[s].len /\ t = wstart[s] + win[s].len,
           o = "seek" => g = t \/ (g = Lost /\ want[s] = Lost)
    PROVE  StreamsInv'
  <1>0. mu' = mu /\ enabled' = enabled /\ t \in Nat
    BY SizesAssumption DEF StartLoad, disk, Offsets
  <1>1. UNCHANGED <<attempt, redirected, body, region, server, wstart, win, goff, eof, want,
                    out>>
    BY DEF StartLoad, window
  <1>2. /\ op' \in [Streams -> {"read", "seek"}] /\ target' \in [Streams -> Nat]
        /\ goal' \in [Streams -> Nat \cup {Lost}]
        /\ op'[s] = o /\ target'[s] = t /\ goal'[s] = g
    BY <1>0 DEF StartLoad, StreamsInv, TypeOK, Set
  <1>3. cacheOn' \in [Streams -> BOOLEAN] /\ cacheOn'[s] = enabled
    BY DEF StartLoad, StreamsInv, TypeOK, Set
  <1>4. pc' \in [Streams -> Pcs] /\ pc'[s] = (IF enabled THEN "lookup" ELSE "creds")
        /\ \A r \in Streams \ {s} : pc'[r] = pc[r]
    BY DEF StartLoad, StreamsInv, TypeOK, Set, Pcs
  <1>5. err' \in [Streams -> BOOLEAN]
    BY DEF StreamsInv, TypeOK
  <1>6. TypeOK'
    BY <1>0, <1>1, <1>2, <1>3, <1>4, <1>5 DEF StreamsInv, TypeOK
  <1>7. ASSUME NEW r \in Streams \ {s} PROVE StreamInv(r)'
    <2>1. Untouched(r)
      BY <1>1, <1>4 DEF Untouched, StreamsInv, TypeOK, StartLoad, Set
    <2> QED
      BY <1>0, <1>1, <2>1, UntouchedInv DEF StreamsInv
  <1>8. WindowInv(s)' /\ CursorInv(s)'
    BY <1>0, <1>1 DEF StreamsInv, StreamInv, WindowInv, CursorInv, Aligned
  <1>9. CallInv(s)' /\ ClosedInv(s)' /\ EndInv(s)'
    BY <1>0, <1>1, <1>2, <1>3, <1>4 DEF CallInv, ClosedInv, EndInv, InCall
  <1> QED
    BY <1>6, <1>7, <1>8, <1>9 DEF StreamsInv, StreamInv

LEMMA ReadBufferedStep ==
    ASSUME StreamsInv, NEW s \in Streams, ReadBuffered(s)
    PROVE  StreamsInv'
  <1>1. /\ goff[s] \in Nat /\ want[s] \in Nat \cup {Lost} /\ win[s] \in Disk!Data
        /\ err = [err EXCEPT ![s] = err[s]] /\ err[s] \in BOOLEAN /\ wstart[s] \in Nat
    BY DEF StreamsInv, TypeOK
  <1>2. PICK offset, p, result, e :
            /\ offset = goff[s] + 1
            /\ p = (IF want[s] = Lost THEN Lost ELSE want[s] + 1)
            /\ result = Returns("byte", win[s].from + goff[s])
            /\ e = err[s]
            /\ AnswerAtOnce(s, offset, p, result)
    BY DEF ReadBuffered, AnswerAtOnce, Set
  <1>3. result \in [kind : {"none", "byte", "eof", "pos", "fail"}, at : Int]
        /\ result.kind = "byte"
    BY <1>1, <1>2 DEF Returns, Disk!Data
  <1>4. /\ pc[s] = "idle" /\ offset \in Nat /\ p \in Nat \cup {Lost} /\ e \in BOOLEAN
        /\ offset <= win[s].len
    BY <1>1, <1>2 DEF ReadBuffered, Disk!Data
  <1>5. err' = [err EXCEPT ![s] = e]
    BY <1>1, <1>2 DEF ReadBuffered
  <1>6. want[s] # Lost => want[s] = wstart[s] + goff[s] /\ win[s].len > 0
    BY <1>1 DEF ReadBuffered, StreamsInv, StreamInv, CursorInv, Disk!Data
  <1>7. p # Lost => /\ p = wstart[s] + offset
                    /\ eof[s] /\ win[s].len = 0 => wstart[s] >= Size
    BY <1>1, <1>2, <1>6 DEF Lost
  <1>8. ~e /\ (result.kind = "eof" \/ eof[s]) => wstart[s] + win[s].len >= Size
    BY <1>2, <1>3, <1>4 DEF StreamsInv, StreamInv, EndInv
  <1> QED
    BY <1>2, <1>3, <1>4, <1>5, <1>7, <1>8, AnswerStep

LEMMA ReadEofStep ==
    ASSUME StreamsInv, NEW s \in Streams, ReadEof(s)
    PROVE  StreamsInv'
  <1>1. /\ goff[s] \in Nat /\ want[s] \in Nat \cup {Lost} /\ win[s] \in Disk!Data
        /\ err = [err EXCEPT ![s] = err[s]] /\ err[s] \in BOOLEAN /\ wstart[s] \in Nat
    BY DEF StreamsInv, TypeOK
  <1>2. PICK offset, p, result, e :
            /\ offset = goff[s] /\ p = want[s] /\ result = Returns("eof", 0) /\ e = err[s]
            /\ AnswerAtOnce(s, offset, p, result)
    BY DEF ReadEof, AnswerAtOnce, Set
  <1>3. result \in [kind : {"none", "byte", "eof", "pos", "fail"}, at : Int]
    BY <1>2 DEF Returns
  <1>4. /\ pc[s] = "idle" /\ eof[s] /\ offset \in Nat /\ p \in Nat \cup {Lost}
        /\ e \in BOOLEAN /\ offset <= win[s].len
    BY <1>1, <1>2 DEF ReadEof, StreamsInv, StreamInv, WindowInv
  <1>5. err' = [err EXCEPT ![s] = e]
    BY <1>1, <1>2 DEF ReadEof
  <1>6. p # Lost => /\ \/ p = wstart[s] + offset
                       \/ p > Size /\ eof[s] /\ offset = win[s].len
                    /\ eof[s] /\ win[s].len = 0 => wstart[s] >= Size
    BY <1>2 DEF StreamsInv, StreamInv, CursorInv
  <1>7. ~e => wstart[s] + win[s].len >= Size
    BY <1>2, <1>4 DEF StreamsInv, StreamInv, EndInv
  <1> QED
    BY <1>2, <1>3, <1>4, <1>5, <1>6, <1>7, AnswerStep

LEMMA ReadUnderflowStep ==
    ASSUME StreamsInv, enabled \in BOOLEAN, NEW s \in Streams, ReadUnderflow(s)
    PROVE  StreamsInv'
  <1>1. /\ goff[s] \in Nat /\ want[s] \in Nat \cup {Lost} /\ win[s] \in Disk!Data
        /\ err = [err EXCEPT ![s] = err[s]] /\ err[s] \in BOOLEAN /\ wstart[s] \in Nat
    BY DEF StreamsInv, TypeOK
  <1>2. PICK t, g, e :
            /\ t = wstart[s] + win[s].len /\ g = want[s] /\ e = err[s]
            /\ StartLoad(s, "read", t, g)
    BY DEF ReadUnderflow, StartLoad, Set
  <1>3. /\ pc[s] = "idle" /\ ~eof[s] /\ goff[s] = win[s].len
        /\ t \in Offsets /\ g \in Nat \cup {Lost} /\ e \in BOOLEAN
    BY <1>1, <1>2, SizesAssumption
    DEF ReadUnderflow, StreamsInv, StreamInv, WindowInv, Offsets, Disk!Data
  <1>4. err' = [err EXCEPT ![s] = e]
    BY <1>1, <1>2 DEF ReadUnderflow
  <1> QED
    BY <1>2, <1>3, <1>4, StartLoadStep

LEMMA SeekPosStep ==
    ASSUME StreamsInv, enabled \in BOOLEAN, NEW s \in Streams, pc[s] = "idle",
           NEW t \in Offsets, NEW p, p = t \/ (p = Lost /\ want[s] = Lost),
           SeekPos(s, t, p)
    PROVE  StreamsInv'
  <1>0. t \in Nat /\ p \in Nat \cup {Lost}
    BY SizesAssumption DEF Offsets
  <1>1. wstart[s] \in Nat /\ win[s] \in Disk!Data
    BY DEF StreamsInv, TypeOK
  <1>2. err' = [err EXCEPT ![s] = FALSE]
    BY DEF SeekPos, Set
  <1>3. CASE win[s].len > 0 /\ wstart[s] <= t /\ t <= wstart[s] + win[s].len
    <2>1. PICK offset, result :
              /\ offset = t - wstart[s] /\ result = Returns("pos", t)
              /\ AnswerAtOnce(s, offset, p, result)
      BY <1>3 DEF SeekPos, AnswerAtOnce, Set
    <2>2. result \in [kind : {"none", "byte", "eof", "pos", "fail"}, at : Int]
          /\ result.kind = "pos"
      BY <1>0, <2>1 DEF Returns
    <2>3. /\ offset \in Nat /\ offset <= win[s].len
          /\ p # Lost => p = wstart[s] + offset
      BY <1>0, <1>1, <1>3, <2>1 DEF Disk!Data
    <2>4. eof[s] => wstart[s] + win[s].len >= Size
      BY <1>3 DEF StreamsInv, StreamInv, WindowInv
    <2>5. ~(win[s].len = 0)
      BY <1>3
    <2> QED
      BY <1>0, <1>2, <2>1, <2>2, <2>3, <2>4, <2>5, AnswerStep
  <1>4. CASE ~(win[s].len > 0 /\ wstart[s] <= t /\ t <= wstart[s] + win[s].len)
    <2>1. StartLoad(s, "seek", t, p)
      BY <1>4 DEF SeekPos
    <2> QED
      BY <1>0, <1>2, <2>1, StartLoadStep
  <1> QED
    BY <1>3, <1>4

LEMMA SeekStep ==
    ASSUME Sound, StreamsInv, enabled \in BOOLEAN, NEW s \in Streams,
           (\E t \in Offsets : SeekBeg(s, t)) \/ (\E d \in Deltas : SeekCur(s, d))
    PROVE  StreamsInv'
  <1>1. CASE \E t \in Offsets : SeekBeg(s, t)
    <2>1. PICK t \in Offsets : pc[s] = "idle" /\ SeekPos(s, t, t)
      BY <1>1 DEF SeekBeg
    <2> QED
      BY <2>1, SeekPosStep
  <1>2. CASE \E d \in Deltas : SeekCur(s, d)
    <2>1. PICK d \in Deltas : SeekCur(s, d)
      BY <1>2
    <2>2. PICK t, p : /\ t = wstart[s] + goff[s] + d
                      /\ p = (IF want[s] = Lost THEN Lost ELSE want[s] + d)
                      /\ SeekPos(s, t, p)
      BY <2>1 DEF SeekCur, SeekPos, AnswerAtOnce, StartLoad, Set
    <2>3. pc[s] = "idle" /\ want[s] <= Size /\ t \in Offsets
      BY <2>1, <2>2 DEF SeekCur, Sound
    <2>4. want[s] # Lost => want[s] = wstart[s] + goff[s]
      BY <2>3, SizesAssumption DEF StreamsInv, StreamInv, CursorInv, TypeOK
    <2>5. p = t \/ (p = Lost /\ want[s] = Lost)
      BY <2>2, <2>4
    <2> QED
      BY <2>2, <2>3, <2>5, SeekPosStep
  <1> QED
    BY <1>1, <1>2

-----------------------------------------------------------------------------
(* The steps of the whole process.                                         *)
LEMMA ConfigureStep ==
    ASSUME StreamsInv, Configure
    PROVE  StreamsInv'
  <1>1. /\ \A s \in Streams : pc[s] = "closed"
        /\ mu' = mu
        /\ UNCHANGED <<pc, op, goal, load, region, server, window, err, want, out>>
    BY DEF Configure, Disk!Configure
  <1>2. TypeOK'
    BY <1>1 DEF StreamsInv, TypeOK, load, window
  <1>3. ASSUME NEW s \in Streams PROVE StreamInv(s)'
    <2>1. ChunkStart(0, ReadAhead[s]) = 0
      BY SizesAssumption, ChunkBounds
    <2>2. pc'[s] = "closed" /\ ClosedInv(s) /\ UNCHANGED <<pc, wstart, win, goff, eof, err, want, out>>
      BY <1>1 DEF StreamsInv, StreamInv, window
    <2> QED
      BY <2>1, <2>2
      DEF StreamInv, WindowInv, CursorInv, CallInv, ClosedInv, EndInv, InCall, NoBytes,
          Aligned, Lost
  <1> QED
    BY <1>2, <1>3 DEF StreamsInv

LEMMA CrashStep ==
    ASSUME server \in Servers, Crash
    PROVE  StreamsInv'
  <1>1. enabled' = FALSE /\ mu' = NoThread
    BY DEF Crash, Disk!Crash
  <1>2. /\ pc' \in [Streams -> Pcs] /\ op' \in [Streams -> {"read", "seek"}]
        /\ target' \in [Streams -> Nat] /\ goal' \in [Streams -> Nat \cup {Lost}]
        /\ body' \in [Streams -> Disk!Data] /\ wstart' \in [Streams -> Nat]
        /\ win' \in [Streams -> Disk!Data] /\ goff' \in [Streams -> Nat]
        /\ want' \in [Streams -> Nat \cup {Lost}]
    BY DEF Crash, Pcs, NoBytes, Disk!Data
  <1>3. /\ cacheOn' \in [Streams -> BOOLEAN] /\ redirected' \in [Streams -> BOOLEAN]
        /\ eof' \in [Streams -> BOOLEAN] /\ err' \in [Streams -> BOOLEAN]
    BY DEF Crash
  <1>4. /\ attempt' \in [Streams -> 0 .. MaxAttempts - 1]
        /\ region' \in [Streams -> Regions]
        /\ out' \in [Streams -> [kind : {"none", "byte", "eof", "pos", "fail"}, at : Int]]
    BY SizesAssumption, ServerAssumption DEF Crash, Returns
  <1>5. \A s \in Streams : pc'[s] = "storing" <=> mu' = s
    BY <1>1, CacheAssumption DEF Crash
  <1>6. TypeOK'
    <2>1. server' \in Servers
      BY DEF Crash
    <2> QED
      BY <1>2, <1>3, <1>4, <1>5, <2>1 DEF TypeOK
  <1>7. ASSUME NEW s \in Streams PROVE StreamInv(s)'
    BY <1>1 DEF Crash, StreamInv, WindowInv, CursorInv, CallInv, ClosedInv, EndInv, InCall,
                NoBytes, Lost, Returns
  <1> QED
    BY <1>6, <1>7 DEF StreamsInv

LEMMA StreamsStep ==
    ASSUME Sound, IInv, [Next]_vars
    PROVE  StreamsInv'
  <1>1. StreamsInv /\ enabled \in BOOLEAN /\ DiskP!IInv /\ NoBlocks
    BY DEF IInv, StreamsInv, DiskP!IInv, DiskP!TypeOK
  <1>2. CASE Configure
    BY <1>1, <1>2, ConfigureStep
  <1>3. ASSUME NEW s \in Streams, Call(s) PROVE StreamsInv'
    BY <1>1, <1>3, OpenStep, CloseStep, ReadBufferedStep, ReadEofStep, ReadUnderflowStep,
       SeekStep DEF Call
  <1>4. ASSUME NEW s \in Streams, Lookup(s) PROVE StreamsInv'
    BY <1>1, <1>4, LookupHitStep, LookupMissStep DEF Lookup
  <1>5. ASSUME NEW s \in Streams, Fetch(s) PROVE StreamsInv'
    BY <1>1, <1>5, FetchStep
  <1>6. ASSUME NEW s \in Streams, Store(s) PROVE StreamsInv'
    BY <1>1, <1>6, StoreBeginStep, StoreRefusedStep DEF Store
  <1>7. ASSUME NEW s \in Streams, StoreStep(s) PROVE StreamsInv'
    BY <1>1, <1>7, StoreStepStep
  <1>8. CASE Crash
    BY <1>1, <1>8, CrashStep DEF StreamsInv, TypeOK
  <1>9. CASE UNCHANGED vars
    <2>1. UNCHANGED <<pc, op, target, goal, cacheOn, attempt, redirected, region, body,
                      server, wstart, win, goff, eof, err, want, out, mu, enabled>>
      BY <1>9 DEF vars, load, window, disk
    <2>2. TypeOK'
      BY <1>1, <2>1 DEF StreamsInv, TypeOK
    <2>3. ASSUME NEW s \in Streams PROVE StreamInv(s)'
      BY <1>1, <2>1, UntouchedInv DEF StreamsInv, Untouched
    <2> QED
      BY <2>2, <2>3 DEF StreamsInv
  <1> QED
    BY <1>2, <1>3, <1>4, <1>5, <1>6, <1>7, <1>8, <1>9 DEF Next

(* Every step is a step of the cache, or leaves it alone: a stream stores  *)
(* only whole blocks, under their keys, in a configured cache.             *)
LEMMA CacheStep ==
    ASSUME Sound, IInv, [Next]_vars
    PROVE  Disk!Next \/ UNCHANGED disk
  <1>1. CASE Configure
    BY <1>1 DEF Configure, Disk!Next
  <1>2. ASSUME NEW s \in Streams, Call(s) PROVE UNCHANGED disk
    BY <1>2 DEF Call, Open, Close, ReadBuffered, ReadEof, ReadUnderflow, SeekBeg, SeekCur,
                SeekPos, AnswerAtOnce, StartLoad
  <1>3. ASSUME NEW s \in Streams, Lookup(s) PROVE Disk!Next
    <2>1. Start(s) \in Offsets
      BY <1>3, StartBounds DEF IInv, Lookup, LookupHit, LookupMiss, InCall
    <2> QED
      BY <1>3, <2>1 DEF Lookup, LookupHit, LookupMiss, Disk!Next
  <1>4. ASSUME NEW s \in Streams, Fetch(s) PROVE UNCHANGED disk
    BY <1>4 DEF Fetch, GetCredentials, MissingCredentials, GetPartial, GetFull, GetBeyond,
                GetRedirect, GetRetry, GetFail
  <1>5. ASSUME NEW s \in Streams, Store(s) PROVE Disk!Next \/ UNCHANGED disk
    <2>1. CASE StoreRefused(s)
      BY <2>1 DEF StoreRefused, Disk!StoreRefused, Disk!vars, Disk!config, Disk!files,
                  Disk!stats, disk
    <2>2. CASE StoreBegin(s)
      <3>1. /\ InCall(s) /\ StreamInv(s) /\ TypeOK
            /\ cacheOn[s] = enabled /\ cacheOn[s] /\ Start(s) < Size
            /\ body[s] = Slice(Start(s), ReadAhead[s])
        BY <2>2 DEF StoreBegin, IInv, StreamInv, CallInv, InCall
      <3>2. Start(s) \in Offsets
        BY <3>1, StartBounds
      <3>3. body[s] \in WholeBlock[Start(s)]
        BY <3>1, <3>2, SliceIsWhole
      <3>4. maxBlocks > 0
        BY <3>1 DEF IInv
      <3>5. PICK k, d : k = Start(s) /\ d = body[s] /\ Disk!StoreOpen(s, k, d)
        BY <2>2 DEF StoreBegin, Disk!StoreOpen
      <3> QED
        BY <3>2, <3>3, <3>4, <3>5 DEF Disk!Next
    <2> QED
      BY <1>5, <2>1, <2>2 DEF Store
  <1>6. ASSUME NEW s \in Streams, StoreStep(s) PROVE Disk!Next
    BY <1>6 DEF StoreStep, Disk!Next
  <1>7. CASE Crash
    BY <1>7 DEF Crash, Disk!Next
  <1>8. CASE UNCHANGED vars
    BY <1>8 DEF vars
  <1> QED
    BY <1>1, <1>2, <1>3, <1>4, <1>5, <1>6, <1>7, <1>8 DEF Next

LEMMA ConfiguredStep ==
    ASSUME IInv, [Next]_vars
    PROVE  enabled' => maxBlocks' > 0
  <1>1. CASE Configure
    BY <1>1, CacheAssumption
    DEF Configure, Disk!Configure, Disk!Disable, Disk!Clamped, IInv
  <1>2. CASE Crash
    BY <1>2 DEF Crash, Disk!Crash
  <1>3. CASE ~Configure /\ ~Crash
    <2> DEFINE Kept == enabled' = enabled /\ maxBlocks' = maxBlocks
    <2> USE DEF disk, Disk!config
    <2>1. ASSUME NEW s \in Streams, Call(s) PROVE Kept
      BY <2>1 DEF Call, Open, Close, ReadBuffered, ReadEof, ReadUnderflow, SeekBeg, SeekCur,
                  SeekPos, AnswerAtOnce, StartLoad
    <2>2. ASSUME NEW s \in Streams, Lookup(s) PROVE Kept
      BY <2>2 DEF Lookup, LookupHit, LookupMiss, Disk!TryLoadHit, Disk!TryLoadMiss
    <2>3. ASSUME NEW s \in Streams, Fetch(s) PROVE Kept
      BY <2>3 DEF Fetch, GetCredentials, MissingCredentials, GetPartial, GetFull, GetBeyond,
                  GetRedirect, GetRetry, GetFail
    <2>4. ASSUME NEW s \in Streams, Store(s) PROVE Kept
      BY <2>4 DEF Store, StoreBegin, StoreRefused, Disk!StoreOpen, Disk!StoreRefused,
                  Disk!vars
    <2>5. ASSUME NEW s \in Streams, StoreStep(s) PROVE Kept
      BY <2>5 DEF StoreStep, Disk!StoreStep, Disk!StoreWrite, Disk!StoreDrop,
                  Disk!StoreRename, Disk!EvictOldest, Disk!StoreDone
    <2>6. UNCHANGED vars => Kept
      BY DEF vars, load, window
    <2> HIDE DEF Kept
    <2>7. Kept
      BY <1>3, <2>1, <2>2, <2>3, <2>4, <2>5, <2>6 DEF Next
    <2> QED
      BY <2>7 DEF IInv, Kept
  <1> QED
    BY <1>1, <1>2, <1>3

(* Only store() makes blocks.                                              *)
BlocksKept == server' = server /\ block' = block

LEMMA NoBlocksStep ==
    ASSUME IInv, [Next]_vars
    PROVE  NoBlocks'
  <1> USE DEF BlocksKept, disk, Disk!files
  <1>1. CASE Configure
    BY <1>1 DEF Configure, Disk!Configure, IInv, NoBlocks
  <1>2. CASE Crash
    BY <1>2 DEF Crash, Disk!Crash, IInv, NoBlocks
  <1>3. ASSUME NEW s \in Streams, Call(s) PROVE BlocksKept
    BY <1>3 DEF Call, Open, Close, ReadBuffered, ReadEof, ReadUnderflow, SeekBeg, SeekCur,
                SeekPos, AnswerAtOnce, StartLoad
  <1>4. ASSUME NEW s \in Streams, Lookup(s) PROVE BlocksKept
    BY <1>4 DEF Lookup, LookupHit, LookupMiss, Disk!TryLoadHit, Disk!TryLoadMiss
  <1>5. ASSUME NEW s \in Streams, Fetch(s) PROVE BlocksKept
    BY <1>5 DEF Fetch, GetCredentials, MissingCredentials, GetPartial, GetFull, GetBeyond,
                GetRedirect, GetRetry, GetFail
  <1>6. ASSUME NEW s \in Streams, Store(s) PROVE BlocksKept
    BY <1>6 DEF Store, StoreBegin, StoreRefused, Disk!StoreOpen, Disk!StoreRefused, Disk!vars
  <1>7. ASSUME NEW s \in Streams, StoreStep(s) PROVE NoBlocks'
    BY <1>7 DEF StoreStep, IInv, StreamInv, CallInv, NoBlocks
  <1>8. UNCHANGED vars => BlocksKept
    BY DEF vars
  <1>9. BlocksKept => NoBlocks'
    BY DEF IInv, NoBlocks
  <1> QED
    BY <1>1, <1>2, <1>3, <1>4, <1>5, <1>6, <1>7, <1>8, <1>9 DEF Next

LEMMA NextInv ==
    ASSUME Sound, IInv, [Next]_vars
    PROVE  IInv'
  <1>1. StreamsInv'
    BY StreamsStep
  <1>2. DiskP!IInv'
    BY CacheStep, SameNext, CacheStepInv DEF IInv
  <1>3. (enabled' => maxBlocks' > 0) /\ NoBlocks'
    BY ConfiguredStep, NoBlocksStep
  <1> QED
    BY <1>1, <1>2, <1>3 DEF IInv, StreamsInv

(* The variables of the streams keep their types, and a stream's call is   *)
(* inside store() exactly when its thread holds mu_.                       *)
THEOREM TypeCorrect == Sound => (Spec => []TypeOK)
  <1> SUFFICES ASSUME Sound PROVE Spec => []TypeOK
    OBVIOUS
  <1>1. Init => IInv
    BY InitInv
  <1>2. IInv /\ [Next]_vars => IInv'
    BY NextInv
  <1>3. IInv => TypeOK
    BY DEF IInv
  <1> QED
    BY <1>1, <1>2, <1>3, PTL DEF Spec

(* An end of file with error() empty is the end of the object, also after  *)
(* failures.                                                               *)
THEOREM EndOfFileIsTheEnd == Sound => (Spec => []EofMeansEnd)
  <1> SUFFICES ASSUME Sound PROVE Spec => []EofMeansEnd
    OBVIOUS
  <1>1. Init => IInv
    BY InitInv
  <1>2. IInv /\ [Next]_vars => IInv'
    BY NextInv
  <1>3. IInv => EofMeansEnd
    BY DEF IInv, StreamInv, EndInv, EofMeansEnd
  <1> QED
    BY <1>1, <1>2, <1>3, PTL DEF Spec

(* The streams use the cache as its specification allows.                  *)
THEOREM CacheIsUsedAsSpecified == Sound => (Spec => UsesTheCache)
  <1> SUFFICES ASSUME Sound PROVE Spec => Disk!Spec
    BY DEF UsesTheCache
  <1>1. Init => IInv /\ Disk!Init
    BY InitInv DEF Init
  <1>2. IInv /\ [Next]_vars => IInv'
    BY NextInv
  <1>3. IInv /\ [Next]_vars => [Disk!Next]_(Disk!vars)
    <2>1. UNCHANGED disk => UNCHANGED Disk!vars
      BY DEF disk, Disk!vars, Disk!config, Disk!files, Disk!stats
    <2> QED
      BY <2>1, CacheStep
  <1> QED
    BY <1>1, <1>2, <1>3, PTL DEF Spec, Disk!Spec

(* So what is proved of the cache holds under any number of streams: the   *)
(* capacity is kept when every block can be removed and the directory be   *)
(* listed.                                                                 *)
THEOREM StreamsKeepTheCapacity ==
    Sound /\ DiskP!Evictable => (Spec => []Disk!CapacityBound)
  <1> SUFFICES ASSUME Sound, DiskP!Evictable PROVE Spec => []Disk!CapacityBound
    OBVIOUS
  <1>1. Spec => Disk!Spec
    BY CacheIsUsedAsSpecified DEF UsesTheCache
  <1>2. Disk!Init => DiskP!CapInv
    <2>1. Disk!Init => DiskP!Init
      BY DEF Disk!Init, DiskP!Init, Disk!NoJob, DiskP!NoJob, Disk!NoFile, DiskP!NoFile
    <2> QED BY <2>1, CacheAssumptions, DiskP!CapInit
  <1>3. DiskP!CapInv /\ [Disk!Next]_(Disk!vars) => DiskP!CapInv'
    <2>1. UNCHANGED disk \/ UNCHANGED Disk!vars => UNCHANGED DiskP!vars
      BY DEF disk, Disk!vars, Disk!config, Disk!files, Disk!stats,
             DiskP!vars, DiskP!config, DiskP!files, DiskP!stats
    <2> QED BY <2>1, SameNext, CacheAssumptions, DiskP!CapNext
  <1>4. DiskP!CapInv => Disk!CapacityBound
    <2>1. Disk!Cached = DiskP!Cached
      BY DEF Disk!Cached, DiskP!Cached, Disk!NoFile, DiskP!NoFile
    <2>2. \A S : Disk!Cardinality(S) = DiskP!Cardinality(S)
      BY DEF Disk!Cardinality, DiskP!Cardinality
    <2>3. Disk!Peak = DiskP!Peak
      BY DEF Disk!Peak, DiskP!Peak, Disk!Clamped, DiskP!Clamped
    <2> QED BY <2>1, <2>2, <2>3 DEF DiskP!CapInv, DiskP!CapacityBound, Disk!CapacityBound
  <1> QED
    BY <1>1, <1>2, <1>3, <1>4, PTL DEF Disk!Spec

-----------------------------------------------------------------------------
(* The refinement: what the end of a call is to the caller of the stream.  *)
Ends(s) ==
    \/ Abstract!ReadByte(s) \/ Abstract!ReadEof(s) \/ Abstract!SeekTo(s)
    \/ Abstract!Fail(s) \/ Abstract!Stray(s)

LEMMA StrayRefines ==
    ASSUME TypeOK, NEW s \in Streams, want[s] = Lost,
           want' = [want EXCEPT ![s] = Lost],
           NEW result \in Abstract!Result, out' = [out EXCEPT ![s] = result]
    PROVE  Ends(s)
  <1>1. out'[s] = result /\ out' = [out EXCEPT ![s] = out'[s]]
    BY DEF TypeOK
  <1>2. Abstract!Stray(s)
    BY <1>1 DEF Abstract!Stray, Abstract!Return, Abstract!Lost, Lost
  <1> QED
    BY <1>2 DEF Ends

LEMMA SeekRefines ==
    ASSUME TypeOK, NEW s \in Streams, NEW p \in Nat,
           want' = [want EXCEPT ![s] = p],
           out' = [out EXCEPT ![s] = Returns("pos", p)]
    PROVE  Ends(s)
  <1>1. /\ want'[s] = p /\ want' = [want EXCEPT ![s] = want'[s]]
        /\ out' = [out EXCEPT ![s] = Returns("pos", want'[s])]
    BY DEF TypeOK
  <1>2. Abstract!SeekTo(s)
    BY <1>1 DEF Abstract!SeekTo, Abstract!Return, Abstract!Returns, Returns
  <1> QED
    BY <1>2 DEF Ends

LEMMA SucceedRefines ==
    ASSUME TypeOK, NEW s \in Streams, StreamInv(s), InCall(s),
           NEW start, NEW bytes, NEW offset, NEW atEnd,
           GoodLoad(s, start, bytes, offset, atEnd),
           Succeed(s, start, bytes, offset, atEnd)
    PROVE  Ends(s)
  <1> USE DEF Abstract!Return, Abstract!Returns, Abstract!Lost, Returns, Lost
  <1>0. want[s] \in Nat \cup {Lost} /\ target[s] \in Nat /\ bytes.len \in Nat
        /\ want \in [Streams -> Nat \cup {Lost}] /\ Size \in Nat
        /\ out \in [Streams -> Abstract!Result]
    BY SizesAssumption DEF TypeOK, GoodLoad, Disk!Data, Abstract!Result, Abstract!Kinds
  <1>1. CASE op[s] = "seek"
    <2>1. /\ want' = [want EXCEPT ![s] = goal[s]]
          /\ out' = [out EXCEPT ![s] = Returns("pos", target[s])]
      BY <1>1 DEF Succeed, Set
    <2>2. CASE goal[s] = target[s]
      <3>1. /\ want' = [want EXCEPT ![s] = target[s]]
            /\ out' = [out EXCEPT ![s] = Returns("pos", target[s])]
        BY <2>1, <2>2
      <3>2. PICK p \in Nat : p = target[s]
        BY <1>0
      <3>3. want' = [want EXCEPT ![s] = p] /\ out' = [out EXCEPT ![s] = Returns("pos", p)]
        BY <3>1, <3>2
      <3> QED
        BY <3>3, SeekRefines
    <2>3. CASE goal[s] = Lost /\ want[s] = Lost
      <3>1. PICK result : result = Returns("pos", target[s])
        OBVIOUS
      <3>2. result \in Abstract!Result
        BY <1>0, <3>1 DEF Abstract!Result, Abstract!Kinds
      <3>3. want' = [want EXCEPT ![s] = Lost] /\ out' = [out EXCEPT ![s] = result]
        BY <2>1, <2>3, <3>1
      <3> QED
        BY <2>3, <3>2, <3>3, StrayRefines
    <2> QED
      BY <1>1, <2>2, <2>3 DEF StreamInv, CallInv
  <1>2. CASE op[s] = "read" /\ bytes.len = 0
    <2>1. /\ want' = [want EXCEPT ![s] = want[s]]
          /\ out' = [out EXCEPT ![s] = Returns("eof", 0)]
      BY <1>0, <1>2 DEF Succeed, Set
    <2>2. CASE want[s] = Lost
      <3>1. Returns("eof", 0) \in Abstract!Result
        BY DEF Abstract!Result, Abstract!Kinds
      <3>2. want' = [want EXCEPT ![s] = Lost]
        BY <2>1, <2>2
      <3> QED
        BY <2>1, <2>2, <3>1, <3>2, StrayRefines
    <2>3. CASE want[s] # Lost
      <3>1. want[s] >= Size
        BY <1>0, <1>2, <2>3, ReadTarget DEF GoodLoad
      <3> QED
        BY <1>0, <2>1, <2>3, <3>1 DEF Ends, Abstract!ReadEof
    <2> QED
      BY <2>2, <2>3
  <1>3. CASE op[s] = "read" /\ bytes.len > 0
    <2>1. /\ want' = [want EXCEPT ![s] = IF want[s] = Lost THEN Lost ELSE want[s] + 1]
          /\ out' = [out EXCEPT ![s] = Returns("byte", bytes.from + offset)]
      BY <1>0, <1>3 DEF Succeed, Set, GoodLoad
    <2>2. bytes.from + offset = target[s] /\ target[s] < Size
      BY <1>0, <1>3 DEF GoodLoad, Disk!Data
    <2>3. CASE want[s] = Lost
      <3>1. PICK result : result = Returns("byte", bytes.from + offset)
        OBVIOUS
      <3>2. result \in Abstract!Result
        BY <1>0, <2>2, <3>1 DEF Abstract!Result, Abstract!Kinds
      <3>3. want' = [want EXCEPT ![s] = Lost] /\ out' = [out EXCEPT ![s] = result]
        BY <2>1, <2>3, <3>1
      <3> QED
        BY <2>3, <3>2, <3>3, StrayRefines
    <2>4. CASE want[s] # Lost
      <3>1. want[s] = target[s]
        BY <1>3, <2>4, ReadTarget
      <3>2. /\ want' = [want EXCEPT ![s] = want[s] + 1]
            /\ out' = [out EXCEPT ![s] = Returns("byte", want[s])]
        BY <2>1, <2>2, <2>4, <3>1
      <3> QED
        BY <1>0, <2>2, <2>4, <3>1, <3>2 DEF Ends, Abstract!ReadByte
    <2> QED
      BY <2>3, <2>4
  <1> QED
    BY <1>0, <1>1, <1>2, <1>3 DEF TypeOK

LEMMA PartialRefines ==
    ASSUME TypeOK, NEW s \in Streams, StreamInv(s), InCall(s), Start(s) < Size,
           server # "never", NEW bytes, bytes = Slice(Start(s), ReadAhead[s]), InstallPartial(s, bytes)
    PROVE  Ends(s)
  <1>1. PICK start, offset, atEnd :
            /\ start = Start(s)
            /\ offset = Least(target[s] - Start(s), bytes.len)
            /\ atEnd = (bytes.len < ReadAhead[s])
            /\ Succeed(s, start, bytes, offset, atEnd)
    BY DEF InstallPartial, Succeed, EndCall, Set
  <1>2. GoodLoad(s, Start(s), bytes, Least(target[s] - Start(s), bytes.len),
                 bytes.len < ReadAhead[s])
    BY PartialIsGood
  <1>3. GoodLoad(s, start, bytes, offset, atEnd)
    BY <1>1, <1>2
  <1> QED
    BY <1>1, <1>3, SucceedRefines

LEMMA FailRefines ==
    ASSUME NEW s \in Streams, FailCall(s)
    PROVE  Ends(s)
  BY DEF FailCall, Set, Returns, Lost, Ends, Abstract!Fail, Abstract!Return,
         Abstract!Returns, Abstract!Lost

LEMMA ReadBufferedRefines ==
    ASSUME TypeOK, NEW s \in Streams, StreamInv(s), ReadBuffered(s)
    PROVE  Ends(s)
  <1>1. /\ goff[s] \in Nat /\ want[s] \in Nat \cup {Lost} /\ win[s] \in Disk!Data
        /\ wstart[s] \in Nat /\ Size \in Nat
    BY SizesAssumption DEF TypeOK
  <1>2. PICK at : at = win[s].from + goff[s]
    OBVIOUS
  <1>3. /\ want' = [want EXCEPT ![s] = IF want[s] = Lost THEN Lost ELSE want[s] + 1]
        /\ out' = [out EXCEPT ![s] = Returns("byte", at)]
    BY <1>2 DEF ReadBuffered, AnswerAtOnce, Set
  <1>4. CASE want[s] = Lost
    <2>1. PICK result : result = Returns("byte", at)
      OBVIOUS
    <2>2. result \in Abstract!Result
      BY <1>1, <1>2, <2>1 DEF Abstract!Result, Abstract!Kinds, Returns, Disk!Data
    <2> QED
      BY <1>3, <1>4, <2>1, <2>2, StrayRefines
  <1>5. CASE want[s] # Lost
    <2>1. want[s] = at /\ want[s] < Size
      BY <1>1, <1>2, <1>5
      DEF ReadBuffered, StreamInv, CursorInv, WindowInv, Disk!Data
    <2>2. /\ want' = [want EXCEPT ![s] = want[s] + 1]
          /\ out' = [out EXCEPT ![s] = Returns("byte", want[s])]
      BY <1>3, <1>5, <2>1
    <2> QED
      BY <1>5, <2>1, <2>2 DEF Ends, Abstract!ReadByte, Abstract!Return,
                            Abstract!Returns, Returns, Abstract!Lost, Lost
  <1> QED
    BY <1>4, <1>5

LEMMA ReadEofRefines ==
    ASSUME TypeOK, NEW s \in Streams, StreamInv(s), ReadEof(s)
    PROVE  Ends(s)
  <1>1. /\ goff[s] \in Nat /\ want[s] \in Nat \cup {Lost} /\ win[s] \in Disk!Data
        /\ wstart[s] \in Nat /\ Size \in Nat
    BY SizesAssumption DEF TypeOK
  <1>2. /\ want' = [want EXCEPT ![s] = want[s]]
        /\ out' = [out EXCEPT ![s] = Returns("eof", 0)]
    BY DEF ReadEof, AnswerAtOnce, Set
  <1>3. CASE want[s] = Lost
    <2>1. Returns("eof", 0) \in Abstract!Result
      BY DEF Abstract!Result, Abstract!Kinds, Returns
    <2>2. want' = [want EXCEPT ![s] = Lost]
      BY <1>2, <1>3
    <2> QED
      BY <1>2, <1>3, <2>1, <2>2, StrayRefines
  <1>4. CASE want[s] # Lost
    <2>1. want[s] >= Size
      BY <1>1, <1>4 DEF ReadEof, StreamInv, CursorInv, WindowInv, Disk!Data
    <2> QED
      BY <1>2, <1>4, <2>1 DEF Ends, Abstract!ReadEof, Abstract!Return,
                            Abstract!Returns, Returns, Abstract!Lost, Lost
  <1> QED
    BY <1>3, <1>4

LEMMA SeekPosRefines ==
    ASSUME TypeOK, NEW s \in Streams, NEW t \in Offsets,
           NEW p, p = t \/ (p = Lost /\ want[s] = Lost), SeekPos(s, t, p), pc[s] = "idle"
    PROVE  \/ Ends(s) /\ pc'[s] = "idle"
           \/ UNCHANGED <<want, out>> /\ InCall(s)' /\ op'[s] = "seek"
  <1>1. t \in Nat
    BY SizesAssumption DEF Offsets
  <1>2. CASE win[s].len > 0 /\ wstart[s] <= t /\ t <= wstart[s] + win[s].len
    <2>1. /\ want' = [want EXCEPT ![s] = p]
          /\ out' = [out EXCEPT ![s] = Returns("pos", t)]
          /\ pc' = pc
      BY <1>2 DEF SeekPos, AnswerAtOnce, Set
    <2>2. Returns("pos", t) \in Abstract!Result
      BY <1>1 DEF Abstract!Result, Abstract!Kinds, Returns
    <2> QED
      BY <1>1, <2>1, <2>2, SeekRefines, StrayRefines
  <1>3. CASE ~(win[s].len > 0 /\ wstart[s] <= t /\ t <= wstart[s] + win[s].len)
    BY <1>3 DEF SeekPos, StartLoad, Set, InCall, TypeOK
  <1> QED
    BY <1>2, <1>3

LEMMA CallRefines ==
    ASSUME Sound, IInv, NEW s \in Streams, Call(s)
    PROVE  Ends(s) \/ Abstract!Reopen(s) \/ UNCHANGED <<want, out>>
  <1>0. TypeOK /\ StreamInv(s)
    BY DEF IInv
  <1>1. CASE Open(s) \/ ReadUnderflow(s)
    BY <1>1 DEF Open, ReadUnderflow, StartLoad
  <1>2. CASE Close(s)
    BY <1>2 DEF Close, Set, Returns, Abstract!Reopen, Abstract!Return,
                Abstract!Returns
  <1>3. CASE ReadBuffered(s) \/ ReadEof(s)
    BY <1>0, <1>3, ReadBufferedRefines, ReadEofRefines
  <1>4. CASE \E t \in Offsets : SeekBeg(s, t)
    <2>1. PICK t \in Offsets : pc[s] = "idle" /\ SeekPos(s, t, t)
      BY <1>4 DEF SeekBeg
    <2> QED
      BY <1>0, <2>1, SeekPosRefines
  <1>5. CASE \E d \in Deltas : SeekCur(s, d)
    <2>1. PICK d \in Deltas : SeekCur(s, d)
      BY <1>5
    <2>2. PICK t, p : /\ t = wstart[s] + goff[s] + d
                      /\ p = (IF want[s] = Lost THEN Lost ELSE want[s] + d)
                      /\ pc[s] = "idle" /\ SeekPos(s, t, p)
      BY <2>1 DEF SeekCur, SeekPos, AnswerAtOnce, StartLoad, Set
    <2>3. want[s] <= Size /\ t \in Offsets
      BY <2>1, <2>2 DEF SeekCur, Sound
    <2>4. want[s] # Lost => want[s] = wstart[s] + goff[s]
      BY <1>0, <2>3, SizesAssumption DEF StreamInv, CursorInv, TypeOK
    <2>5. p = t \/ (p = Lost /\ want[s] = Lost)
      BY <2>2, <2>4
    <2> QED
      BY <1>0, <2>2, <2>3, <2>5, SeekPosRefines
  <1> QED
    BY <1>1, <1>2, <1>3, <1>4, <1>5 DEF Call

LEMMA EndsIdle ==
    ASSUME TypeOK, NEW s \in Streams, EndCall(s)
    PROVE  pc'[s] = "idle"
  BY DEF TypeOK, EndCall, Set

LEMMA LoadRefines ==
    ASSUME Sound, IInv, NEW s \in Streams,
           Lookup(s) \/ Fetch(s) \/ Store(s) \/ StoreStep(s)
    PROVE  \/ Ends(s) /\ pc'[s] = "idle"
           \/ UNCHANGED <<want, out>> /\ InCall(s)' /\ op'[s] = op[s]
  <1>0. TypeOK /\ StreamInv(s) /\ DiskP!IInv /\ NoBlocks
    BY DEF IInv
  <1>1. InCall(s)
    BY DEF Lookup, LookupHit, LookupMiss, Fetch, GetCredentials, MissingCredentials,
           GetPartial, GetFull, GetBeyond, GetRedirect, GetRetry, GetFail, Reached,
           Store, StoreBegin, StoreRefused, StoreStep, InCall
  <1>2. CASE LookupHit(s)
    <2>1. /\ Start(s) < Size /\ block[Start(s)] = Slice(Start(s), ReadAhead[s])
          /\ server # "never"
      BY <1>0, <1>1, <1>2, StartBounds, CacheHitIsSlice DEF LookupHit
    <2>2. PICK bytes : bytes = block[Start(s)] /\ InstallPartial(s, bytes)
      BY <1>2 DEF LookupHit, InstallPartial, Succeed, EndCall, Set
    <2>3. EndCall(s)
      BY <2>2 DEF InstallPartial, Succeed
    <2> QED
      BY <1>0, <1>1, <2>1, <2>2, <2>3, PartialRefines, EndsIdle
  <1>3. CASE StoreRefused(s) \/ (StoreStep(s) /\ mu' # s)
    <2>1. /\ Start(s) < Size /\ body[s] = Slice(Start(s), ReadAhead[s])
          /\ server # "never"
      BY <1>0, <1>3 DEF StoreRefused, StoreStep, StreamInv, CallInv
    <2>2. PICK bytes : bytes = body[s] /\ InstallPartial(s, bytes)
      BY <1>3 DEF StoreRefused, StoreStep, InstallPartial, Succeed, EndCall, Set
    <2>3. EndCall(s)
      BY <2>2 DEF InstallPartial, Succeed
    <2> QED
      BY <1>0, <1>1, <2>1, <2>2, <2>3, PartialRefines, EndsIdle
  <1>4. CASE GetPartial(s) /\ ~cacheOn[s]
    <2>1. PICK bytes : bytes = Slice(Start(s), ReadAhead[s]) /\ InstallPartial(s, bytes)
      BY <1>4 DEF GetPartial, InstallPartial, Succeed, EndCall, Set
    <2>2. Start(s) < Size /\ server # "never"
      BY <1>4 DEF GetPartial
    <2>3. EndCall(s)
      BY <2>1 DEF InstallPartial, Succeed
    <2> QED
      BY <1>0, <1>1, <2>1, <2>2, <2>3, PartialRefines, EndsIdle
  <1>5. CASE GetBeyond(s)
    <2>1. PICK start, bytes, offset, atEnd :
              /\ start = Start(s) /\ bytes = NoBytes /\ offset = 0 /\ atEnd = TRUE
              /\ Succeed(s, start, bytes, offset, atEnd)
      BY <1>5 DEF GetBeyond, Succeed, EndCall, Set
    <2>2. GoodLoad(s, Start(s), NoBytes, 0, TRUE)
      BY <1>0, <1>1, <1>5, BeyondIsGood DEF GetBeyond
    <2>3. GoodLoad(s, start, bytes, offset, atEnd)
      BY <2>1, <2>2
    <2>4. EndCall(s)
      BY <2>1 DEF Succeed
    <2> QED
      BY <1>0, <1>1, <2>1, <2>3, <2>4, SucceedRefines, EndsIdle
  <1>6. CASE MissingCredentials(s) \/ GetFail(s)
    <2>1. FailCall(s) /\ EndCall(s)
      BY <1>6 DEF MissingCredentials, GetFail, FailCall
    <2> QED
      BY <1>0, <2>1, FailRefines, EndsIdle
  <1>7. CASE GetFull(s)
    <2>1. PICK start, bytes, offset, atEnd :
              /\ start = 0 /\ bytes = [from |-> 0, len |-> Size]
              /\ offset = Least(target[s], Size) /\ atEnd = TRUE
              /\ Succeed(s, start, bytes, offset, atEnd)
      BY <1>7 DEF GetFull, InstallFull, Succeed, EndCall, Set
    <2>2. GoodLoad(s, 0, [from |-> 0, len |-> Size], Least(target[s], Size), TRUE)
      BY <1>0, <1>1, <1>7, FullIsGood DEF GetFull, Sound, TypeOK
    <2>3. GoodLoad(s, start, bytes, offset, atEnd)
      BY <2>1, <2>2
    <2>4. EndCall(s)
      BY <2>1 DEF Succeed
    <2> QED
      BY <1>0, <1>1, <2>1, <2>3, <2>4, SucceedRefines, EndsIdle
  <1>8. CASE LookupMiss(s) \/ GetCredentials(s) \/ GetRedirect(s) \/ GetRetry(s)
    BY <1>0, <1>1, <1>8 DEF LookupMiss, GetCredentials, GetRedirect, GetRetry, TypeOK, Set,
                            InCall
  <1>9. CASE (GetPartial(s) /\ cacheOn[s]) \/ StoreBegin(s) \/ (StoreStep(s) /\ mu' = s)
    BY <1>0, <1>1, <1>9 DEF GetPartial, StoreBegin, StoreStep, TypeOK, Set, InCall
  <1> QED
    BY <1>2, <1>3, <1>4, <1>5, <1>6, <1>7, <1>8, <1>9 DEF Lookup, Fetch, Store

(* What the caller of a stream sees is a cursor over the object: every     *)
(* byte read is the one at its position, every end of file the object's,   *)
(* every position told the right one.                                      *)
THEOREM StreamsReadTheObject == Sound => (Spec => ReadsTheObject)
  <1> SUFFICES ASSUME Sound PROVE Spec => Abstract!Spec
    BY DEF ReadsTheObject
  <1>1. Init => IInv
    BY InitInv
  <1>2. IInv /\ [Next]_vars => IInv'
    BY NextInv
  <1>3. Init => Abstract!Init
    BY DEF Init, Abstract!Init, Returns, Abstract!Returns
  <1>4. IInv /\ [Next]_vars => [Abstract!Next]_(Abstract!vars)
    <2> SUFFICES ASSUME IInv, [Next]_vars
                 PROVE  Abstract!Next \/ UNCHANGED <<want, out>>
      BY DEF Abstract!vars
    <2>1. CASE Configure
      BY <2>1 DEF Configure
    <2>2. CASE Crash
      BY <2>2 DEF Crash, Returns, Abstract!Next, Abstract!Restart, Abstract!Returns
    <2>3. CASE UNCHANGED vars
      BY <2>3 DEF vars
    <2> QED
      BY <2>1, <2>2, <2>3, CallRefines, LoadRefines DEF Next, Ends, Abstract!Next
  <1> QED
    BY <1>1, <1>2, <1>3, <1>4, PTL DEF Spec, Abstract!Spec
=============================================================================
