--------------------------- MODULE DirectoryUpload --------------------------
(***************************************************************************)
(* S3Client::put_directory() of src/s3_reader.cpp, and the main() of       *)
(* tools/s3put.cpp that calls it.  The calling thread walks the directory, *)
(* sorts what it found, and is then one of a pool of workers that share a  *)
(* counter; each uploads a file with put_file(), and reports it under a    *)
(* mutex.  What put_file() does to the object is what UploadedObject       *)
(* promises of it: after a failure the object may be there all the same,   *)
(* or appear later.  Files may be removed at any time, and the process may *)
(* die at any step.                                                        *)
(***************************************************************************)
EXTENDS Integers, FiniteSets

CONSTANTS
    Files,          \* the entries of the directory tree
    Size,           \* their sizes
    Concurrency     \* options.concurrency

ASSUME FilesAssumption == IsFiniteSet(Files) /\ Size \in [Files -> Nat]
ASSUME ConcurrencyAssumption == Concurrency \in Nat

VARIABLES
    step,           \* where put_directory() and its caller are
    todo,           \* the entries the iterator has not reached
    listed,         \* the items found
    skipped,        \* the regular files passed over: their type could not be told
    items,          \* the items, sorted
    next,           \* the shared counter
    pc,             \* where each worker is
    item,           \* the index it has claimed
    ok,             \* result.ok of its file
    mu,             \* report_mutex: the worker that holds it, or Free
    files, failed,  \* stats
    reported,       \* what on_file was told of each file, or "none" yet
    ret,            \* what put_directory() returned, or "none" yet
    exit,           \* the exit status of s3put, or NoStatus yet
    \* external:
    entry,          \* each entry of the tree: a regular file, another thing, gone
    object,         \* is there an object for the file
    late            \* the files with a request given up but on its way

caller  == <<step, ret, exit>>
walk    == <<todo, listed, skipped, items>>
workers == <<pc, item, ok>>
stats   == <<mu, files, failed, reported>>
outside == <<entry, object, late>>
vars    == <<caller, walk, next, workers, stats, outside>>

Larger(m, n) == IF m > n THEN m ELSE n
Smaller(m, n) == IF m < n THEN m ELSE n

Workers == 1 .. Larger(Concurrency, 1)
Free == 0
NoStatus == -1
Count(r) == Cardinality({f \in Files : reported[f] = r})

-----------------------------------------------------------------------------
Init ==
    /\ step = "start" /\ ret = "none" /\ exit = NoStatus
    /\ todo = Files /\ listed = {} /\ skipped = {} /\ items = <<>>
    /\ next = 0
    /\ pc = [w \in Workers |-> "out"]
    /\ item = [w \in Workers |-> 0]
    /\ ok = [w \in Workers |-> FALSE]
    /\ mu = Free /\ files = 0 /\ failed = 0
    /\ reported = [f \in Files |-> "none"]
    /\ entry \in [Files -> {"file", "other"}]
    /\ object = [f \in Files |-> FALSE]
    /\ late = {}

Return(r) == step' = "returned" /\ ret' = r /\ UNCHANGED exit

Start ==
    /\ step = "start"
    /\ step' = "walk"
    /\ UNCHANGED <<ret, exit, walk, next, workers, stats, outside>>

(* A bad prefix, not a directory, a directory that cannot be opened.       *)
Refuse ==
    /\ step = "start"
    /\ Return("fail")
    /\ UNCHANGED <<walk, next, workers, stats, outside>>

(* The walk.  A regular file is listed, another entry is not.              *)
WalkEntry(f) ==
    /\ step = "walk" /\ f \in todo
    /\ todo' = todo \ {f}
    /\ listed' = IF entry[f] = "file" THEN listed \cup {f} ELSE listed
    /\ UNCHANGED <<caller, skipped, items, next, workers, stats, outside>>

(* is_regular_file() fails on a regular file (a link that cannot be        *)
(* followed now, say) and answers false; its error is not looked at.       *)
WalkUntellable(f) ==
    /\ step = "walk" /\ f \in todo
    /\ entry[f] = "file"
    /\ todo' = todo \ {f}
    /\ skipped' = skipped \cup {f}
    /\ UNCHANGED <<caller, listed, items, next, workers, stats, outside>>

(* The iteration fails, or the size of a file cannot be read.              *)
WalkFails ==
    /\ step = "walk"
    /\ Return("fail")
    /\ UNCHANGED <<walk, next, workers, stats, outside>>

(* Variant: the smallest first.                                            *)
SortedUp(s) == \A i, j \in DOMAIN s : i < j => Size[s[i]] <= Size[s[j]]

Sorted(s) == \A i, j \in DOMAIN s : i < j => Size[s[i]] >= Size[s[j]]

(* The items in the order of the stable sort: the order in which the       *)
(* iterator finds them, which decides among equals, is anything.           *)
Orders(S) ==
    LET Indices == 0 .. Cardinality(S) - 1
    IN  {s \in [Indices -> S] :
            Sorted(s) /\ \A i, j \in Indices : s[i] = s[j] => i = j}

Items == DOMAIN items

(* No more workers than items, and one at least: the calling thread.       *)
StartPool ==
    /\ step = "walk" /\ todo = {}
    /\ items' \in Orders(listed)
    /\ step' = "pool"
    /\ LET threads == Smaller(Larger(Concurrency, 1), Larger(Cardinality(listed), 1))
       IN  pc' = [w \in Workers |-> IF w <= threads THEN "claim" ELSE "out"]
    /\ UNCHANGED <<ret, exit, todo, listed, skipped, next, item, ok, stats, outside>>

-----------------------------------------------------------------------------
(* A worker.                                                               *)
(* Variant: the counter is not atomic and an increment may be lost.        *)
ClaimRacy(w) ==
    /\ pc[w] = "claim"
    /\ next' \in {next, next + 1}
    /\ IF next \in Items
       THEN item' = [item EXCEPT ![w] = next] /\ pc' = [pc EXCEPT ![w] = "open"]
       ELSE UNCHANGED item /\ pc' = [pc EXCEPT ![w] = "out"]
    /\ UNCHANGED <<caller, walk, ok, stats, outside>>

Claim(w) ==
    /\ pc[w] = "claim"
    /\ next' = next + 1
    /\ IF next \in Items
       THEN item' = [item EXCEPT ![w] = next] /\ pc' = [pc EXCEPT ![w] = "open"]
       ELSE UNCHANGED item /\ pc' = [pc EXCEPT ![w] = "out"]
    /\ UNCHANGED <<caller, walk, ok, stats, outside>>

File(w) == items[item[w]]

(* put_file() opens the file, or fails before any request.                 *)
PutOpen(w) ==
    /\ pc[w] = "open" /\ entry[File(w)] = "file"
    /\ pc' = [pc EXCEPT ![w] = "put"]
    /\ UNCHANGED <<caller, walk, next, item, ok, stats, outside>>

PutRefused(w) ==
    /\ pc[w] = "open"
    /\ pc' = [pc EXCEPT ![w] = "report"]
    /\ ok' = [ok EXCEPT ![w] = FALSE]
    /\ UNCHANGED <<caller, walk, next, item, stats, outside>>

PutOk(w) ==
    /\ pc[w] = "put"
    /\ object' = [object EXCEPT ![File(w)] = TRUE]
    /\ pc' = [pc EXCEPT ![w] = "report"]
    /\ ok' = [ok EXCEPT ![w] = TRUE]
    /\ UNCHANGED <<caller, walk, next, item, stats, entry, late>>

PutFail(w) ==
    /\ pc[w] = "put"
    /\ \/ UNCHANGED <<object, late>>
       \/ object' = [object EXCEPT ![File(w)] = TRUE] /\ UNCHANGED late
       \/ late' = late \cup {File(w)} /\ UNCHANGED object
    /\ pc' = [pc EXCEPT ![w] = "report"]
    /\ ok' = [ok EXCEPT ![w] = FALSE]
    /\ UNCHANGED <<caller, walk, next, item, stats, entry>>

(* Variant: the mutex is not taken.                                        *)
ReportUnlocked(w) ==
    /\ pc[w] = "report"
    /\ IF ok[w]
       THEN files' = files + 1 /\ UNCHANGED failed
       ELSE failed' = failed + 1 /\ UNCHANGED files
    /\ pc' = [pc EXCEPT ![w] = "telling"]
    /\ UNCHANGED <<caller, walk, next, item, ok, mu, reported, outside>>

(* The mutex is taken and the statistics updated.                          *)
Report(w) ==
    /\ pc[w] = "report" /\ mu = Free
    /\ mu' = w
    /\ IF ok[w]
       THEN files' = files + 1 /\ UNCHANGED failed
       ELSE failed' = failed + 1 /\ UNCHANGED files
    /\ pc' = [pc EXCEPT ![w] = "telling"]
    /\ UNCHANGED <<caller, walk, next, item, ok, reported, outside>>

Told(w) == [reported EXCEPT ![File(w)] = IF ok[w] THEN "ok" ELSE "fail"]

(* Variant: a worker stops at its first failure.                           *)
TellAndStop(w) ==
    /\ pc[w] = "telling"
    /\ reported' = Told(w)
    /\ mu' = Free
    /\ pc' = [pc EXCEPT ![w] = IF ok[w] THEN "claim" ELSE "out"]
    /\ item' = [item EXCEPT ![w] = 0]
    /\ ok' = [ok EXCEPT ![w] = FALSE]
    /\ UNCHANGED <<caller, walk, next, files, failed, outside>>

(* Variant: the mutex is not released.                                     *)
TellLocked(w) ==
    /\ pc[w] = "telling"
    /\ reported' = Told(w)
    /\ pc' = [pc EXCEPT ![w] = "claim"]
    /\ item' = [item EXCEPT ![w] = 0]
    /\ ok' = [ok EXCEPT ![w] = FALSE]
    /\ UNCHANGED <<caller, walk, next, mu, files, failed, outside>>

(* on_file is called and has returned; the mutex is released.              *)
Tell(w) ==
    /\ pc[w] = "telling"
    /\ reported' = Told(w)
    /\ mu' = Free
    /\ pc' = [pc EXCEPT ![w] = "claim"]
    /\ item' = [item EXCEPT ![w] = 0]
    /\ ok' = [ok EXCEPT ![w] = FALSE]
    /\ UNCHANGED <<caller, walk, next, files, failed, outside>>

Work(w) ==
    \/ Claim(w) \/ PutOpen(w) \/ PutRefused(w) \/ PutOk(w) \/ PutFail(w)
    \/ Report(w) \/ Tell(w)

(* The calling thread has no more items and has joined the others.         *)
Join ==
    /\ step = "pool"
    /\ \A w \in Workers : pc[w] = "out"
    /\ Return(IF failed # 0 THEN "fail" ELSE "ok")
    /\ UNCHANGED <<walk, next, workers, stats, outside>>

(* Variant: 2 when nothing was uploaded.                                   *)
ExitByFiles ==
    /\ step = "returned"
    /\ step' = "exited"
    /\ exit' = IF ret = "ok" THEN 0 ELSE IF files = 0 THEN 2 ELSE 1
    /\ UNCHANGED <<ret, walk, next, workers, stats, outside>>

(* s3put's main() returns.                                                 *)
Exit ==
    /\ step = "returned"
    /\ step' = "exited"
    /\ exit' = IF ret = "ok" THEN 0 ELSE IF failed = 0 THEN 2 ELSE 1
    /\ UNCHANGED <<ret, walk, next, workers, stats, outside>>

-----------------------------------------------------------------------------
Running == step \notin {"exited", "dead"}

Remove(f) ==
    /\ Running
    /\ entry[f] = "file"
    /\ entry' = [entry EXCEPT ![f] = "gone"]
    /\ UNCHANGED <<caller, walk, next, workers, stats, object, late>>

Arrive(f) ==
    /\ f \in late
    /\ late' = late \ {f}
    /\ object' = [object EXCEPT ![f] = TRUE]
    /\ UNCHANGED <<caller, walk, next, workers, stats, entry>>

(* The process dies.  What its put_file() calls have sent may still arrive.*)
Crash ==
    /\ Running
    /\ step' = "dead"
    /\ late' \in {late \cup {File(w) : w \in W} :
                  W \in SUBSET {w \in Workers : pc[w] = "put"}}
    /\ pc' = [w \in Workers |-> "out"]
    /\ item' = [w \in Workers |-> 0]
    /\ ok' = [w \in Workers |-> FALSE]
    /\ mu' = Free
    /\ UNCHANGED <<ret, exit, walk, next, files, failed, reported, entry, object>>

Caller ==
    \/ Start \/ Refuse
    \/ \E f \in Files : WalkEntry(f) \/ WalkUntellable(f)
    \/ WalkFails \/ StartPool \/ Join \/ Exit

Over == ~Running /\ late = {}

Next ==
    \/ Caller
    \/ \E w \in Workers : Work(w)
    \/ \E f \in Files : Remove(f) \/ Arrive(f)
    \/ Crash
    \/ Over /\ UNCHANGED vars

Spec == Init /\ [][Next]_vars

(* Every thread runs, and every put_file() returns (MultipartUpload's      *)
(* PutReturns).  Weak fairness is enough for the mutex too: a worker holds *)
(* it as often as there are files, no more.                                *)
FairSpec ==
    Spec /\ WF_vars(Caller) /\ \A w \in Workers : WF_vars(Work(w))

-----------------------------------------------------------------------------
Steps == {"start", "walk", "pool", "returned", "exited", "dead"}
Pcs == {"out", "claim", "open", "put", "report", "telling"}

(* The variables have their types; no file is counted twice.               *)
TypeOK ==
    /\ step \in Steps
    /\ ret \in {"none", "ok", "fail"}
    /\ exit \in {NoStatus, 0, 1, 2}
    /\ todo \subseteq Files
    /\ listed \subseteq Files
    /\ skipped \subseteq Files
    /\ Items \subseteq 0 .. Cardinality(Files) - 1
    /\ \A i \in Items : items[i] \in Files
    /\ next \in Nat
    /\ pc \in [Workers -> Pcs]
    /\ item \in [Workers -> Nat]
    /\ ok \in [Workers -> BOOLEAN]
    /\ mu \in Workers \cup {Free}
    /\ files \in 0 .. Cardinality(Files)
    /\ failed \in 0 .. Cardinality(Files)
    /\ reported \in [Files -> {"none", "ok", "fail"}]
    /\ entry \in [Files -> {"file", "other", "gone"}]
    /\ object \in [Files -> BOOLEAN]
    /\ late \subseteq Files

(* "called once per file as it finishes, from the worker threads but never *)
(* concurrently": two calls of on_file never overlap, and when none is     *)
(* under way the statistics say what on_file was told.                     *)
ReportsAreSerial ==
    /\ \A v, w \in Workers : pc[v] = "telling" /\ pc[w] = "telling" => v = w
    /\ step # "dead" /\ (\A w \in Workers : pc[w] # "telling") =>
           files = Count("ok") /\ failed = Count("fail")

(* "largest first": nobody has begun with a file while a larger one that   *)
(* was listed is waiting.                                                  *)
LargestFirst ==
    step = "pool" =>
        \A i, j \in Items :
            Size[items[j]] > Size[items[i]] /\ i < next => j < next

(* README.md: "Exit status 0 when every file was uploaded [...], 1 when    *)
(* any upload failed, 2 for [...] a source that does not exist or cannot   *)
(* be listed".  A file that was there from beginning to end is one of them *)
(* though others were removed; with 2 nothing has been sent or reported.   *)
(* The code does not keep the first of these for a regular file whose type *)
(* it could not tell: s3put exits with 0 and that file has not been sent.  *)
(* Such files, and no others, are excepted.                                *)
ExitTellsTheTruth ==
    /\ exit = 0 =>
           /\ \A f \in Files : entry[f] = "file" => f \in listed \cup skipped
           /\ \A f \in listed : object[f] /\ reported[f] = "ok"
    /\ exit = 1 =>
           /\ \E f \in listed : reported[f] = "fail"
           /\ \A f \in listed : reported[f] # "none"
    /\ exit = 2 =>
           \A f \in Files : ~object[f] /\ f \notin late /\ reported[f] = "none"

(* What the caller and the server see is what put_directory() promises.    *)
Promise == INSTANCE UploadedDirectory
UploadsTheDirectory == Promise!Spec

(* put_directory() and s3put come to their end, unless the process dies.   *)
DirectoryReturns == []<>~Running
=============================================================================
