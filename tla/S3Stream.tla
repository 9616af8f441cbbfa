------------------------------ MODULE S3Stream ------------------------------
(***************************************************************************)
(* The range streams of src/s3_reader.cpp (class S3Streambuf behind        *)
(* S3MinStreamFactory::open()) over one object, with the disk cache they   *)
(* share.                                                                  *)
(*                                                                         *)
(* Each stream is used by a thread of its own: the caller reads a byte or  *)
(* seeks, and a call that misses the read-ahead window goes through        *)
(* load_window(): the cache, the credentials, one range GET or several,    *)
(* the store into the cache.  The server, the cache directory and the      *)
(* other streams act between its steps; the process may die at any of them.*)
(*                                                                         *)
(* Byte i of the object is the number i, so the bytes a buffer or a file   *)
(* holds are [from, len], and what a read returns tells whether it is the  *)
(* byte the caller asked for.                                              *)
(***************************************************************************)
EXTENDS Integers, FiniteSets

CONSTANTS
    Streams,        \* the streams open()ed on the object, one thread each
    NoThread, NoKey,
    Size,           \* the object's length
    MaxOffset,      \* bound: the largest offset a caller asks for
    ReadAhead,      \* read_ahead_ of each stream
    MaxAttempts,    \* AWS_MAX_ATTEMPTS
    Regions,        \* region names
    Region,         \* the factory's region
    Home,           \* the bucket's region
    PathStyle,      \* a custom endpoint: no region redirects
    Servers,        \* the servers there may be: one that honours Range "always",
                    \* "never" or "sometimes"
    RelativePastEnd,\* do callers seek relative to a position past the end
    Deltas,         \* the offsets of relative seeks (0 is tellg())
    \* of DiskCache:
    Capacities, Pinned, Faults, FineClock, MaxClock, MaxStat, MaxCrashes

Offsets == 0 .. MaxOffset
Least(a, b) == IF a <= b THEN a ELSE b

(* What a range GET of `ra' bytes from `start' returns.                    *)
Slice(start, ra) == [from |-> start, len |-> Least(ra, Size - start)]

(* The complete contents of the block of a chunk start.                    *)
WholeBlock ==
    [k \in Offsets |-> IF k < Size THEN {Slice(k, ReadAhead[s]) : s \in Streams} ELSE {}]

ASSUME SizesAssumption ==
    /\ Size \in Nat /\ MaxOffset \in Nat /\ Size <= MaxOffset
    /\ ReadAhead \in [Streams -> Nat \ {0}]
    /\ MaxAttempts \in Nat \ {0}
    /\ Deltas \subseteq Int
ASSUME ServerAssumption ==
    /\ Region \in Regions /\ Home \in Regions
    /\ PathStyle \in BOOLEAN /\ RelativePastEnd \in BOOLEAN
    /\ Servers \subseteq {"always", "never", "sometimes"}

ASSUME CacheAssumption ==
    /\ NoThread \notin Streams /\ NoKey \notin Offsets
    /\ Capacities \subseteq Int
    /\ \A k \in Pinned : k \in Offsets /\ k < Size
    /\ Faults \subseteq {"mkdir", "open", "read", "write", "close", "list"}
    /\ FineClock \in BOOLEAN
    /\ MaxClock \in Nat /\ MaxStat \in Nat /\ MaxCrashes \in Nat
    /\ Streams # {}

VARIABLES
    pc,             \* where the call is: "closed" (no stream), "idle" (no call), ...
    op,             \* the call: "read" or "seek"
    target,         \* load_window's target
    goal,           \* the logical position the call leaves when it succeeds
    cacheOn,        \* load_window's cache_on
    attempt, redirected,
    region,         \* region_
    body,           \* window_ as fetched, not installed yet
    wstart,         \* window_start_
    win,            \* the bytes in window_; their number is window_len_
    goff,           \* gptr() - eback()
    eof,            \* reached_eof_
    err,            \* the thread's error() is not empty
    want,           \* the logical position as the caller knows it, or Lost
    out,            \* what the last call returned
    server,         \* external: does the server honour Range
    \* of DiskCache:
    enabled, maxBlocks, mu, job, block, tmp, mtime, clock, hits, misses, crashes

Disk == INSTANCE DiskCache WITH
            Threads <- Streams, Keys <- Offsets, Whole <- WholeBlock

disk == <<enabled, maxBlocks, mu, job, block, tmp, mtime, clock, hits, misses, crashes>>
window == <<wstart, win, goff, eof>>
load == <<target, cacheOn, attempt, redirected, body>>
vars == <<pc, op, goal, load, region, window, err, want, out, server, disk>>

Lost == -1
Junk == -2          \* whatever byte lies past the end of the buffer
NoBytes == [from |-> 0, len |-> 0]
Returns(kind, at) == [kind |-> kind, at |-> at]

(* The chunk-aligned start of load_window.                                 *)
ChunkStart(t, ra) == (t \div ra) * ra
Start(s) == IF cacheOn[s] THEN ChunkStart(target[s], ReadAhead[s]) ELSE target[s]

Set(f, s, v) == f' = [f EXCEPT ![s] = v]

-----------------------------------------------------------------------------
Init ==
    /\ pc = [s \in Streams |-> "closed"]
    /\ op = [s \in Streams |-> "read"]
    /\ target = [s \in Streams |-> 0]
    /\ goal = [s \in Streams |-> 0]
    /\ cacheOn = [s \in Streams |-> FALSE]
    /\ attempt = [s \in Streams |-> 0]
    /\ redirected = [s \in Streams |-> FALSE]
    /\ region = [s \in Streams |-> Region]
    /\ body = [s \in Streams |-> NoBytes]
    /\ wstart = [s \in Streams |-> 0]
    /\ win = [s \in Streams |-> NoBytes]
    /\ goff = [s \in Streams |-> 0]
    /\ eof = [s \in Streams |-> FALSE]
    /\ err = [s \in Streams |-> FALSE]
    /\ want = [s \in Streams |-> 0]
    /\ out = [s \in Streams |-> Returns("none", 0)]
    /\ server \in Servers
    /\ Disk!Init

(* "Configure once before the first open()" (the header): not under an     *)
(* open stream.                                                            *)
Configure ==
    /\ \A s \in Streams : pc[s] = "closed"
    /\ \E n \in Capacities : Disk!Configure(n)
    /\ UNCHANGED <<pc, op, goal, load, region, server, window, err, want, out>>

(* The factory open()s a stream; the stream is destroyed.  A destroyed     *)
(* stream leaves nothing: it is back to the initial values.                *)
Open(s) ==
    /\ pc[s] = "closed"
    /\ Set(pc, s, "idle")
    /\ UNCHANGED <<op, goal, load, region, server, window, err, want, out, disk>>

Close(s) ==
    /\ pc[s] = "idle"
    /\ Set(pc, s, "closed")
    /\ Set(wstart, s, 0) /\ Set(win, s, NoBytes) /\ Set(goff, s, 0) /\ Set(eof, s, FALSE)
    /\ Set(region, s, Region)
    /\ Set(err, s, FALSE) /\ Set(want, s, 0) /\ Set(out, s, Returns("none", 0))
    /\ UNCHANGED <<op, goal, load, server, disk>>

-----------------------------------------------------------------------------
(* How a call ends.  The variables of a load are dead then and forgotten.  *)
EndCall(s) ==
    /\ Set(pc, s, "idle")
    /\ Set(op, s, "read") /\ Set(target, s, 0) /\ Set(goal, s, 0)
    /\ Set(cacheOn, s, FALSE) /\ Set(attempt, s, 0) /\ Set(redirected, s, FALSE)
    /\ Set(body, s, NoBytes)

(* Variants, here and below, are what a slip in the code would do; they    *)
(* are no part of the specification and show which property notices.       *)
(* Variant: reached_eof_ is never reset.                                   *)
SucceedStickyEof(s, start, bytes, offset, atEnd) ==
    /\ Set(wstart, s, start) /\ Set(win, s, bytes)
    /\ Set(err, s, FALSE)
    /\ \/ /\ op[s] = "seek"
          /\ Set(goff, s, offset) /\ Set(eof, s, eof[s] \/ atEnd)
          /\ Set(want, s, goal[s])
          /\ Set(out, s, Returns("pos", target[s]))
       \/ /\ op[s] = "read" /\ bytes.len = 0
          /\ Set(goff, s, offset) /\ Set(eof, s, TRUE)
          /\ UNCHANGED want
          /\ Set(out, s, Returns("eof", 0))
       \/ /\ op[s] = "read" /\ bytes.len > 0
          /\ Set(goff, s, offset + 1) /\ Set(eof, s, atEnd)
          /\ Set(want, s, IF want[s] = Lost THEN Lost ELSE want[s] + 1)
          /\ Set(out, s, Returns("byte", bytes.from + offset))
    /\ EndCall(s)

(* The window is in place and error() cleared.  A seek answers its target. *)
(* A read ends in underflow() and the read and bump of uflow(): an empty   *)
(* window is the end of the object, else *gptr() is returned with no test  *)
(* that the get pointer is before the window's end.                        *)
Succeed(s, start, bytes, offset, atEnd) ==
    /\ Set(wstart, s, start) /\ Set(win, s, bytes)
    /\ Set(err, s, FALSE)
    /\ \/ /\ op[s] = "seek"
          /\ Set(goff, s, offset) /\ Set(eof, s, atEnd)
          /\ Set(want, s, goal[s])
          /\ Set(out, s, Returns("pos", target[s]))
       \/ /\ op[s] = "read" /\ bytes.len = 0
          /\ Set(goff, s, offset) /\ Set(eof, s, TRUE)
          /\ UNCHANGED want
          /\ Set(out, s, Returns("eof", 0))
       \/ /\ op[s] = "read" /\ bytes.len > 0
          /\ Set(goff, s, offset + 1) /\ Set(eof, s, atEnd)
          /\ Set(want, s, IF want[s] = Lost THEN Lost ELSE want[s] + 1)
          /\ Set(out, s, Returns("byte", IF offset < bytes.len THEN bytes.from + offset
                                                               ELSE Junk))
    /\ EndCall(s)

(* Variant: the window's origin is the byte asked for.                     *)
InstallPartialAtTarget(s, bytes) ==
    Succeed(s, target[s], bytes, 0, bytes.len < ReadAhead[s])

(* install_window: a 206 or a cached block starts at the chunk; a 200 is   *)
(* the whole object.  The get pointer is clamped to the window.            *)
InstallPartial(s, bytes) ==
    Succeed(s, Start(s), bytes, Least(target[s] - Start(s), bytes.len),
            bytes.len < ReadAhead[s])

InstallFull(s, bytes) ==
    Succeed(s, 0, bytes, Least(target[s], bytes.len), TRUE)

(* fail(): no window, and error() is set.  A failed underflow() is an end  *)
(* of file to the caller, a failed seek is -1; both are "fail" here, as    *)
(* error() tells them from the real thing.                                 *)
FailCall(s) ==
    /\ Set(win, s, NoBytes) /\ Set(goff, s, 0)
    /\ Set(err, s, TRUE)
    /\ Set(want, s, Lost)
    /\ Set(out, s, Returns("fail", 0))
    /\ EndCall(s)
    /\ UNCHANGED <<wstart, eof>>

-----------------------------------------------------------------------------
(* The calls.  One that needs no load returns at once.                     *)
AnswerAtOnce(s, offset, p, result) ==
    /\ Set(goff, s, offset)
    /\ Set(want, s, p)
    /\ Set(out, s, result)
    /\ UNCHANGED <<pc, op, goal, load, region, server, wstart, win, eof, disk>>

(* load_window reads enabled() once, before anything else.                 *)
StartLoad(s, o, t, g) ==
    /\ Set(op, s, o) /\ Set(target, s, t) /\ Set(goal, s, g)
    /\ Set(cacheOn, s, enabled)
    /\ Set(pc, s, IF enabled THEN "lookup" ELSE "creds")
    /\ UNCHANGED <<attempt, redirected, body, region, server, window, want, out, disk>>

ReadBuffered(s) ==
    /\ pc[s] = "idle"
    /\ goff[s] < win[s].len
    /\ AnswerAtOnce(s, goff[s] + 1, IF want[s] = Lost THEN Lost ELSE want[s] + 1,
                    Returns("byte", win[s].from + goff[s]))
    /\ UNCHANGED err

ReadEof(s) ==
    /\ pc[s] = "idle"
    /\ goff[s] >= win[s].len /\ eof[s]
    /\ AnswerAtOnce(s, goff[s], want[s], Returns("eof", 0))
    /\ UNCHANGED err

ReadUnderflow(s) ==
    /\ pc[s] = "idle"
    /\ goff[s] >= win[s].len /\ ~eof[s]
    /\ wstart[s] + win[s].len <= MaxOffset          \* bound
    /\ StartLoad(s, "read", wstart[s] + win[s].len, want[s])
    /\ UNCHANGED err

(* Variant: a target past the window's end is taken to be inside it.       *)
SeekPosPastWindow(s, t, p) ==
    /\ Set(err, s, FALSE)
    /\ \/ /\ win[s].len > 0 /\ wstart[s] <= t
          /\ AnswerAtOnce(s, t - wstart[s], p, Returns("pos", t))
       \/ /\ ~(win[s].len > 0 /\ wstart[s] <= t)
          /\ StartLoad(s, "seek", t, p)

(* seekpos(t), for a caller that means position p: the window may hold t   *)
(* already, its end included.                                              *)
SeekPos(s, t, p) ==
    /\ Set(err, s, FALSE)
    /\ \/ /\ win[s].len > 0 /\ wstart[s] <= t /\ t <= wstart[s] + win[s].len
          /\ AnswerAtOnce(s, t - wstart[s], p, Returns("pos", t))
       \/ /\ ~(win[s].len > 0 /\ wstart[s] <= t /\ t <= wstart[s] + win[s].len)
          /\ StartLoad(s, "seek", t, p)

SeekBeg(s, t) ==
    /\ pc[s] = "idle"
    /\ SeekPos(s, t, t)

(* seekoff(d, cur): from cur_pos(), which is what the window says.         *)
SeekCur(s, d) ==
    /\ pc[s] = "idle"
    /\ want[s] <= Size \/ RelativePastEnd
    /\ LET t == wstart[s] + goff[s] + d IN
           /\ t \in Offsets                         \* a negative one is refused
           /\ want[s] # Lost => want[s] + d \in Offsets
           /\ SeekPos(s, t, IF want[s] = Lost THEN Lost ELSE want[s] + d)

-----------------------------------------------------------------------------
(* load_window, step by step.                                              *)
LookupHit(s) ==
    /\ pc[s] = "lookup"
    /\ Disk!TryLoadHit(Start(s))
    /\ InstallPartial(s, block[Start(s)])
    /\ UNCHANGED <<region, server>>

LookupMiss(s) ==
    /\ pc[s] = "lookup"
    /\ Disk!TryLoadMiss(Start(s))
    /\ Set(pc, s, "creds")
    /\ UNCHANGED <<op, goal, load, region, server, window, err, want, out>>

GetCredentials(s) ==
    /\ pc[s] = "creds"
    /\ Set(pc, s, "get")
    /\ UNCHANGED <<op, goal, load, region, server, window, err, want, out, disk>>

MissingCredentials(s) ==
    /\ pc[s] = "creds"
    /\ FailCall(s)
    /\ UNCHANGED <<region, server, disk>>

(* A GET is answered with a body only where the bucket lives.              *)
Reached(s) == pc[s] = "get" /\ (PathStyle \/ region[s] = Home)

(* 206: with the cache on, the block is stored before it is installed.     *)
GetPartial(s) ==
    /\ Reached(s)
    /\ server # "never"
    /\ Start(s) < Size
    /\ LET bytes == Slice(Start(s), ReadAhead[s]) IN
           \/ /\ cacheOn[s]
              /\ Set(pc, s, "store") /\ Set(body, s, bytes)
              /\ UNCHANGED <<op, goal, target, cacheOn, attempt, redirected, window, err,
                             want, out>>
           \/ /\ ~cacheOn[s]
              /\ InstallPartial(s, bytes)
    /\ UNCHANGED <<region, server, disk>>

(* Variant: a 200 is stored too.                                           *)
GetFullStored(s) ==
    /\ Reached(s)
    /\ server # "always"
    /\ Set(pc, s, "store") /\ Set(body, s, [from |-> 0, len |-> Size])
    /\ UNCHANGED <<op, goal, target, cacheOn, attempt, redirected, window, err, want,
                   out, region, server, disk>>

(* 200: the server ignored Range.                                          *)
GetFull(s) ==
    /\ Reached(s)
    /\ server # "always"
    /\ InstallFull(s, [from |-> 0, len |-> Size])
    /\ UNCHANGED <<region, server, disk>>

(* 416: the range starts at or past the end.                               *)
GetBeyond(s) ==
    /\ Reached(s)
    /\ server # "never"
    /\ Start(s) >= Size
    /\ Succeed(s, Start(s), NoBytes, 0, TRUE)
    /\ UNCHANGED <<region, server, disk>>

(* Variant: nothing remembers that the load was redirected.                *)
GetRedirectAgain(s) ==
    /\ pc[s] = "get"
    /\ ~PathStyle
    /\ \E r \in Regions \ {region[s]} : Set(region, s, r)
    /\ UNCHANGED <<pc, op, goal, target, cacheOn, attempt, redirected, body, window, err,
                   want, out, server, disk>>

(* A wrong-region answer names another region: retarget, once per load.    *)
GetRedirect(s) ==
    /\ pc[s] = "get"
    /\ ~PathStyle /\ ~redirected[s]
    /\ \E r \in Regions \ {region[s]} : Set(region, s, r)
    /\ Set(redirected, s, TRUE)
    /\ UNCHANGED <<pc, op, goal, target, cacheOn, attempt, body, window, err, want, out,
                   server, disk>>

(* Variant: one attempt too many.                                          *)
GetRetryOnceMore(s) ==
    /\ pc[s] = "get"
    /\ attempt[s] < MaxAttempts
    /\ Set(attempt, s, attempt[s] + 1)
    /\ UNCHANGED <<pc, op, goal, target, cacheOn, redirected, body, region, server, window,
                   err, want, out, disk>>

(* A retriable transport error or status, and attempts left.               *)
GetRetry(s) ==
    /\ pc[s] = "get"
    /\ attempt[s] + 1 < MaxAttempts
    /\ Set(attempt, s, attempt[s] + 1)
    /\ UNCHANGED <<pc, op, goal, target, cacheOn, redirected, body, region, server, window,
                   err, want, out, disk>>

(* The same with none left, or any other error.                            *)
GetFail(s) ==
    /\ pc[s] = "get"
    /\ FailCall(s)
    /\ UNCHANGED <<region, server, disk>>

(* Variant: the block is stored under the byte asked for, not the chunk.   *)
StoreBeginAtTarget(s) ==
    /\ pc[s] = "store"
    /\ Disk!StoreOpen(s, target[s], body[s])
    /\ Set(pc, s, "storing")
    /\ UNCHANGED <<op, goal, load, region, server, window, err, want, out>>

(* store() may be refused, or runs its steps with mu_ held; either way the *)
(* fetched window is installed when it returns.                            *)
StoreBegin(s) ==
    /\ pc[s] = "store"
    /\ Disk!StoreOpen(s, Start(s), body[s])
    /\ Set(pc, s, "storing")
    /\ UNCHANGED <<op, goal, load, region, server, window, err, want, out>>

StoreRefused(s) ==
    /\ pc[s] = "store"
    /\ Disk!StoreRefused
    /\ InstallPartial(s, body[s])
    /\ UNCHANGED <<region, server>>

StoreStep(s) ==
    /\ pc[s] = "storing"
    /\ Disk!StoreStep(s)
    /\ \/ /\ mu' = s
          /\ UNCHANGED <<pc, op, goal, load, window, err, want, out>>
       \/ /\ mu' # s
          /\ InstallPartial(s, body[s])
    /\ UNCHANGED <<region, server>>

-----------------------------------------------------------------------------
(* The process dies; the directory and the object stay.                    *)
Crash ==
    /\ Disk!Crash
    /\ pc' = [s \in Streams |-> "closed"]
    /\ op' = [s \in Streams |-> "read"]
    /\ target' = [s \in Streams |-> 0]
    /\ goal' = [s \in Streams |-> 0]
    /\ cacheOn' = [s \in Streams |-> FALSE]
    /\ attempt' = [s \in Streams |-> 0]
    /\ redirected' = [s \in Streams |-> FALSE]
    /\ region' = [s \in Streams |-> Region]
    /\ body' = [s \in Streams |-> NoBytes]
    /\ wstart' = [s \in Streams |-> 0]
    /\ win' = [s \in Streams |-> NoBytes]
    /\ goff' = [s \in Streams |-> 0]
    /\ eof' = [s \in Streams |-> FALSE]
    /\ err' = [s \in Streams |-> FALSE]
    /\ want' = [s \in Streams |-> 0]
    /\ out' = [s \in Streams |-> Returns("none", 0)]
    /\ UNCHANGED server

Call(s) ==
    \/ Open(s) \/ Close(s)
    \/ ReadBuffered(s) \/ ReadEof(s) \/ ReadUnderflow(s)
    \/ \E t \in Offsets : SeekBeg(s, t)
    \/ \E d \in Deltas : SeekCur(s, d)

Lookup(s) == LookupHit(s) \/ LookupMiss(s)

Fetch(s) ==
    \/ GetCredentials(s) \/ MissingCredentials(s)
    \/ GetPartial(s) \/ GetFull(s) \/ GetBeyond(s)
    \/ GetRedirect(s) \/ GetRetry(s) \/ GetFail(s)

Store(s) == StoreBegin(s) \/ StoreRefused(s)

Next ==
    \/ Configure
    \/ \E s \in Streams : Call(s) \/ Lookup(s) \/ Fetch(s) \/ Store(s) \/ StoreStep(s)
    \/ Crash

Spec == Init /\ [][Next]_vars

(* A call under way makes progress: every request ends, with an answer or  *)
(* a time-out, and a thread inside store() runs.  A thread that waits for  *)
(* mu_ gets it if it becomes free again and again (strong fairness): the   *)
(* mutex is held only for the file operations of one block.  The callers   *)
(* need not call, and the process need not die.                            *)
FairSpec ==
    /\ Spec
    /\ \A s \in Streams : /\ WF_vars(Fetch(s)) /\ WF_vars(StoreStep(s))
                          /\ SF_vars(Lookup(s)) /\ SF_vars(Store(s))

-----------------------------------------------------------------------------
Pcs == {"closed", "idle", "lookup", "creds", "get", "store", "storing"}
InCall(s) == pc[s] \notin {"closed", "idle"}

(* The variables have their types, and a stream's thread is inside store() *)
(* exactly when its call is.                                               *)
TypeOK ==
    /\ pc \in [Streams -> Pcs]
    /\ op \in [Streams -> {"read", "seek"}]
    /\ target \in [Streams -> Nat]
    /\ goal \in [Streams -> Nat \cup {Lost}]
    /\ cacheOn \in [Streams -> BOOLEAN]
    /\ attempt \in [Streams -> 0 .. MaxAttempts - 1]
    /\ redirected \in [Streams -> BOOLEAN]
    /\ region \in [Streams -> Regions]
    /\ body \in [Streams -> Disk!Data]
    /\ wstart \in [Streams -> Nat]
    /\ win \in [Streams -> Disk!Data]
    /\ goff \in [Streams -> Nat]
    /\ eof \in [Streams -> BOOLEAN]
    /\ err \in [Streams -> BOOLEAN]
    /\ want \in [Streams -> Nat \cup {Lost}]
    /\ out \in [Streams -> [kind : {"none", "byte", "eof", "pos", "fail"}, at : Int]]
    /\ server \in Servers
    /\ \A s \in Streams : pc[s] = "storing" <=> mu = s

(* A read reports the end only when the caller has reached it.             *)
EofHonest ==
    \A s \in Streams :
        out[s].kind = "eof" /\ want[s] # Lost => want[s] >= Size

(* "error() is empty" after an end of file means that the object really    *)
(* ends there, even for a caller that went on after a failure: the window  *)
(* reaches the object's end.                                               *)
EofMeansEnd ==
    \A s \in Streams :
        out[s].kind = "eof" /\ ~err[s] /\ pc[s] = "idle" => wstart[s] + win[s].len >= Size

(* What the caller sees is a cursor over the object, whatever the cache,   *)
(* the server, the other streams and crashes do in between: the abstract   *)
(* stream, whose position is the caller's and whose result is the last     *)
(* call's.                                                                 *)
Abstract == INSTANCE ObjectStream WITH pos <- want
ReadsTheObject == Abstract!Spec

(* The streams use the cache only as its specification allows: they store  *)
(* under a block's key nothing but that block, and only one at a time.     *)
UsesTheCache == Disk!Spec

(* Every call returns: no retry, redirect, lock or store goes on for ever. *)
CallsReturn == \A s \in Streams : []<>~InCall(s)
=============================================================================
