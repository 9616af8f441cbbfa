# nanos3reader in TLA+

A verification project for nanos3reader, a C++ reader and writer of S3 objects
(`src/s3_reader.cpp`, `include/nanos3reader/s3_reader.h`). It models the parts
of the library where several actors meet: streams that share a disk cache and the
Python reader around them, the cache and its directory, clients of one bucket,
the upload of a file or a directory by pools of workers, over a network that loses
and delays requests, and the credentials that all threads share. TLC checks small
instances; TLAPS proves the safety properties for every value of the
constants, some under conditions that are named and explained.

`PROJECT.json` lists the components, runs, theorems, hazards, the code lines
each definition stands for, and for every property a variant of the model in
which it fails.

## The system

| Part | State | Operations | What is hard | What makes it right |
|---|---|---|---|---|
| Range stream (`S3Streambuf`, `S3IStream`, `S3MinStreamFactory`) | window, its origin, get pointer, end flag, region, thread's `error()` | `underflow`, `seekoff`, `seekpos`, `load_window`, open, close | aligned windows, short windows, seeks past the end, a 200 for a range, retries and redirects, a cache shared with other streams | it is a cursor over the object; every call returns |
| Disk cache (`DiskCache`) | `enabled_`, `max_blocks_`, `mu_`, hit and miss counts, the directory's files and their mtimes | `configure`, `try_load`, `store`, `evict_if_needed` | one temp file name per block, file errors, process death between steps, a directory that outlives the process | no torn block; it keeps what an LRU cache keeps; a store returns |
| File upload (`put_file`) | part counter, failure flag, part ETags; on the server the upload, its parts and the object | one PUT, or create, parts, complete, abort | a pool of workers, lost and late requests, a file that changes, process death | the object is absent or has every part, none cut short; success means it is there |
| Request engine (`run_request`) | attempt counter, body reader and sink | sign, send, retry | an attempt whose answer is lost, a file body that ends early | attempts are bounded; a repeated request is harmless or known not to be |
| Credentials (`CredentialProvider`) | cached credentials, last attempt, diagnostic | `get` over environment, profile, helper, ECS, IMDS | refresh before expiry, back-off, many threads | no source that has credentials is passed over; a failed refresh loses nothing; a failure can be explained |
| Client (`head`, `read_range`, `list`, `put`) | none between calls | one request, or one per page | a conditional put whose answer is lost or which arrives late, a read that breaks off, pages of a listing | a conditional put is atomic and has one winner; what is answered is what the server held during the call |
| Directory upload (`put_directory`) | item counter, statistics, first error | a pool of workers around `put_file` | every file attempted, reports never concurrent | every file reported once; result and exit status say what happened |
| Python `Reader` | the istream's state bits | `read`, `seek`, `tell`, several calls of the stream each | a short read leaves bits behind, `read()` looks past them, a failure looks like the end | an answer is the object's bytes; errors are not taken for the end |
| Part arithmetic (`part_size_for`) | none | part size, number of parts, ranges | 64-bit sums that wrap | the parts are the file |
| `s3put`, the other bindings | none | argument parsing, forwarding | exit status | it says what happened |
| SigV4, SHA-256, encodings, XML / JSON / INI | none | pure functions | not control | tested against vectors |

The parts meet as follows. A stream calls the process-global `DiskCache` (under
its mutex, from its own thread) before and after a range GET, and the
credential provider it shares with all streams of its factory. A Python `Reader`
makes several calls of its stream for one of its own, through a `std::istream`.
Clients meet at the server only. `put_directory`
runs `put_file` in a pool; `put_file` runs a pool of its own; each worker calls
`run_request` on the curl handle of its thread. Everything else they share is
on disk (the cache directory, the local file) or on the server.

## Modules

| Module | What it is |
|---|---|
| `ObjectStream` | abstract: what a stream promises, a cursor over the object's bytes |
| `LruCache` | abstract: which blocks the cache keeps, and in which order they were last used |
| `DiskCache` | the cache, its directory, its mutex, its file errors and process death |
| `S3Stream` | the streams over one object, composed with `DiskCache` (`Disk == INSTANCE DiskCache`) |
| `PythonReader` | the bindings' `Reader` and the istream's bits, composed with `S3Stream` |
| `AtomicPuts` | abstract: what `put` promises, with its conditions |
| `S3Client` | `head`, `read_range`, `list` and `put`, the retry loop under them, the bucket and those who change it |
| `UploadedObject` | abstract: what `put_file` promises about the object |
| `MultipartUpload` | `put_file`, the retry loop of `run_request` under it, the server and the file |
| `PartSizes` | how `put_file` cuts a file, in wrapping arithmetic |
| `UploadedDirectory` | abstract: what `put_directory` promises |
| `DirectoryUpload` | `put_directory`, and `s3put`'s exit status, over what `UploadedObject` promises of each file |
| `Credentials` | `CredentialProvider`: its mutex, its clock, its sources |
| `MC*` | constants of the checked instances |
| `*Proofs` | the theorems |

### DiskCache

`block`, `tmp` and `mtime` are the directory: `*.blk` files, `*.tmp` files and
write times. `mu` is the thread inside `store()`. A block's contents are where
in the object they come from and how many bytes they are. `configure()` and
`try_load()` hold the mutex from their first line to their last and change at
most a few flags and one mtime, so each is one action. `store()` is an action per
file operation (`StoreOpen`, `StoreWrite`, `StoreDrop`, `StoreRename`,
`EvictOldest`, `StoreDone`): the process can die between any two. `Faults`
names the operations that may fail; `"close"` is the flush in the temp file's
destructor, whose failure the code cannot see. `Pinned` blocks cannot be
touched or removed. `FineClock` says whether two mtimes can be equal.

### S3Stream

Byte *i* of the object is the number *i*, so a byte that a read returns tells
whether it is the right one. `pc` is where `load_window` stands: `lookup`,
`creds`, `get`, `store`, `storing`. `want` is the position as the caller knows
it: where it last sought to and what it has read since; it is `Lost` after a
failure, when only an absolute seek gives it a position again. A call that the
window can answer is one action; a call that loads is one action per step, with
other streams, the server and process death in between. The server's answers
are actions (`GetPartial`, `GetFull`, `GetBeyond`, `GetRedirect`, `GetRetry`,
`GetFail`). `GetFail` may happen at any request, so failures are not
bounded by the number of attempts.

### PythonReader

A stream in `python` has a Python reader around it; the others are called from
C++ directly, as in `S3Stream` alone. One Python call is a loop over calls of the
stream: `Pull` makes one, `Take` and `TakeEnd` look at what it returned, and the
stream's own steps (`StreamStep`) happen in between, with evictions, other streams
and process death. `bits` are the istream's: `read(n)` sets both when the stream
ends short, `seekg` clears `eofbit` and does nothing with `failbit` set, `read()`
goes to the stream buffer and neither sees nor sets them. Bytes are collected in
`buf`, by their number as in `S3Stream`. `SeekRefused` is a seek to a negative
offset or from the end, which the stream refuses whatever it holds.

### S3Client

`bucket` is what is under each key: the number of the put that wrote it, which is
also its ETag and stands for its contents. The condition of a put is the version
it must find: `Any`, `Absent` (`If-None-Match: *`) or another put's. An attempt
may be applied and answered, applied without an answer, not applied, or given up
and arrive later, once per attempt (`late`). `dst` holds, for every byte that
`read_range` has written, the version it came from: an attempt that breaks off
leaves bytes there that the next one, with a `Sink` of its own, must overwrite.
`found` are the pages a listing has read; each page is of the bucket as it is
when it is asked for. `seen` is a history variable: what each key of a call has
been since the call began. `Workloads` bounds who calls what.

### PartSizes

`put_file`'s arithmetic: `CeilDiv` wraps where the code's sum does. The instance
of `MultipartUpload` takes its number of parts from it.

### MultipartUpload

The file's length is counted in parts, and a part's contents (its ETag too) are
the state of the file it was read from: a version and a length. Every request
may take effect and be answered, take effect and lose its answer, not take
effect, or be given up and arrive later (`lateParts`, `lateComplete`,
`latePuts`), after the abort, after `put_file` has returned or after the process
has died. The server completes an upload only if the parts listed are the ones
it holds; it is taken to be so lenient that a part missing on both sides is no
reason to refuse, so that a forgotten part would show. `next++` and the reading
of `failed` are two steps, as in the code.

### DirectoryUpload

The walk takes the entries in any order (`todo`); an entry that is no regular
file is passed over, and so may a regular file be whose type cannot be told
(`WalkUntellable`: the code does not look at that error); `skipped`, which the code
does not keep, remembers those. Any other failure of the walk ends the call. `StartPool` sorts: `items` is any enumeration of what was found
in which sizes do not increase, which is what a stable sort of an arbitrary
order gives. `put_file` is four actions, taken from what `UploadedObject` lets
a caller count on: it opens the file or refuses, then succeeds with the object
there, or fails with the object absent, there, or still to come (`late`). That
`put_file` keeps this promise is what `MultipartUpload` shows. `Report` takes
the mutex and updates the statistics, `Tell` is the call of `on_file` and the
release; the time between them is the callback's. `Exit` is the end of `s3put`'s
`main`. Files may be removed at any step, and the process may die.

### Credentials

Credentials are told apart by when they expire; `Static` never do and `None` is
what is not `valid()`. A call that is answered from the cache, or held off by
the back-off, is one action under the mutex. A resolution holds the mutex over
an action per source, while the clock ticks and sources come and go (`up`).
What a source offers may have expired already: `valid()` looks at the keys alone,
so such credentials end the resolution and are cached like any others.
`steady` is history: the sources that have had credentials ever since the
resolution under way began, which are those it has no excuse to pass over.
`asking` is the place in the chain a call has come to, past its end when the
call has asked all of them in vain. The action `Done` includes the question to `diagnostic()`,
which needs the mutex once more.

### Variants

Each modelling module also holds operators that begin with the word "Variant"
in their comment: what a slip in the code would do (a dropped lock, an
off-by-one, a flag not reset). They take no part in the specification. Putting
one in place of the operator it varies makes the property named with it in
`PROJECT.json` fail.

## What the runs check

| Run | Instance | Shows |
|---|---|---|
| `cache_lru` | 2 threads, 4 keys (the odd one with blocks of two sizes), capacities 2 and 3 or off, failures to make the directory, open, read or write, one crash | no torn block; refinement of `LruCache`; capacity exceeded by at most one block per crash; a store returns |
| `stream_two` | 2 streams, object of one byte, windows of 2, the bucket in another region, two attempts, a temp file that cannot be opened, one crash, fairness | each stream implements `ObjectStream`; the cache is used as `DiskCache` allows; every call returns |
| `stream_one` | 1 stream, called from C++ or from Python, object of 5 bytes, a server that always or never honours Range, cache of 2 blocks, faults, retries, one crash, fairness | the same safety; an end of file without an error is the object's end; a Python read returns the object's bytes, all that were asked for or all there are; `seek` and `tell` the position; every Python call returns |
| `upload_file` | one PUT or a multipart upload of 3 parts by 2 workers, signed or not, one retry, one change of the file, fairness | `put_file` implements `UploadedObject`; the object is never short; completions are whole; failure is final; `put_file` returns |
| `client_bucket` | 2 writers of one object (3 puts); a writer and a reader; a writer and a listing of 3 keys in pages of 2; one retry, one deletion, fairness | `put` implements `AtomicPuts`; a condition has one winner; an answer is one version's that was there during the call; a listing has every key once; every call returns |
| `directory_tree` | 3 entries of 2 sizes, 2 workers, files skipped and removed, process death, fairness | `put_directory` implements `UploadedDirectory`; reports are serial and match the statistics; largest first; the exit status tells the truth of the files that were not skipped; the call returns |
| `credentials_refresh` | 2 threads, a chain of 2 sources, margin 1, back-off 2, lives from expired to 2, 5 ticks, fairness | none or expired credentials are returned only after asking, and no source that has some is passed over; a refresh loses nothing; a failure is explained; `get` returns |

Where the code does not do what a comment, test or document says, a run shows
it with a counterexample:

| Run | What happens |
|---|---|
| `cache_close` | the temp file's last flush fails in its destructor (a full disk), and a short block is renamed into place |
| `stream_mixed` | streams with different read-ahead sizes share blocks: a whole small block is taken for the end of the object |
| `stream_fails` | a request fails in the middle of a Python `read()`: the bytes before it are returned, or none, with no exception |
| `upload_resized` | a file that has grown since it was measured is cut at the measured length, with success, against the README's "a file that changes size while it is sent fails"; the header promises it only for a file that shrinks, and that is kept |
| `credentials_expired` | a source whose answer has expired is believed, and returned while the next source, which is not asked, has credentials |

Other behaviours of the models contradict a wish, and no run is spent on them:

* With the cache on, `tellg()` after a relative seek past the end answers the
  end of the last window, not the position sought
  (`RelativePastEnd = TRUE`; `cur_pos` is computed from a get pointer that
  `install_window` has clamped).
* When `remove()` of the oldest block fails, `evict_if_needed` does not look at
  the error, finds the same block again and goes round for ever, with the mutex
  held (`Pinned = {0}` with `FairSpec`: `StoreReturns` fails). The comment in `store`
  says that a failed cache write "just means a future miss".
* A server that honours Range only when it can be satisfied answers a read at the
  object's end with the whole object; the get pointer is clamped to the window's
  end, and `underflow()` returns the byte it finds there, past the window
  (`Servers = {"sometimes"}`, four bytes, the cache off: `ReadsTheObject` fails).
* A failed upload may leave its parts on the server, when the abort fails or a
  part that was given up arrives after it, against the README's "so no parts
  are left behind".
* A put that took effect may be told that its precondition failed, when the
  answer to its first attempt was lost; the README of the code says so and advises
  to read the object again. That does not decide it: by then another may have
  swapped the object again, on top of this put's version.
* An unconditional put that arrives late overwrites a newer object, and brings
  back a version that has been swapped away: the swap can then win twice. (With
  real ETags so can any two puts of the same contents.)
* A second Python `read()` after a failed one goes on from the window the stream
  still has: it returns bytes again, from the window's start. `read(n)` instead
  returns nothing from then on, and `tell()` 2^64 - 1.
* After a read that came to the object's end `seek` raises "seek failed" and
  `tell` answers 2^64 - 1 (in Python, where `read(n)` has set both bits); a seek
  that was refused leaves `failbit`, and reads return nothing afterwards.
* A resolution of credentials that takes longer than the back-off is followed by
  the next at once: the back-off counts from the beginning of the last one, against
  the comment "back off between failed resolutions".
* A server whose continuation tokens go round in a cycle of two or more keeps
  `list` going for ever; only a token repeated at once is noticed. (Not in the
  model, whose tokens advance or are repeated.)
* A requested part size close to 2^64 leaves a file without parts
  (`HugePartSizesLeaveNoParts`). The pool then has no threads, and the reservation
  of room for one fewer throws `length_error`, with the upload created and not
  aborted. (Not in the model, whose files have a part.)
* Between a failed `get()` and `diagnostic()` another thread may find
  credentials; the caller is then told only "no AWS credentials found".
* A regular file whose type cannot be told (a link into a directory that cannot be
  searched) is skipped without a word, and `s3put` exits with 0 though it was not
  uploaded, against the README's "Exit status 0 when every file was uploaded".
  `ExitTellsTheTruth` excepts these files, and no others.

### Bounds, and why they are enough

An object of five bytes with windows of two has a first, a middle and a short
last chunk, and an offset past the end. Two streams are enough for one to store
or promote what the other has looked up, as the cache treats threads alike; one
stream over three chunks and a cache of two blocks (the least the code allows)
gives evictions. The object of
`stream_two` is one byte, in one chunk, so that liveness can be checked too, with a
crash and retries: that several streams over several chunks read the object is a
theorem. Four keys over
capacities of two and three make a store of `cache_lru` evict any one of several older blocks;
a death may leave all four in the directory, so that the block `CapacityBound` allows
for it is shown to be enough by the theorem (`CapacityIsKept`) and not by the run;
`MaxClock` stops the stamps (a store needs one to be left) and so bounds the
number of uses between which an order can differ.
`MaxStat` stops the counters after one: enough to see a use being counted.
Three parts and two workers give a worker that holds the last part while the
other finds none; one retry gives a lost answer with its repetition, and a late
request beside it; one change of the file gives parts from two versions. Three
entries and two workers give a worker that claims past the end while the other
reports, with two equal sizes for the sort to leave in either order. Two sources
are a first and a last one; lives of up to twice the margin give credentials
that are good, that are within the margin and that have expired, and five ticks a
resolution that outlasts the back-off and another after it. Three puts are a
version and two that race to replace it; two puts and a deletion give a create
that may come true again; one retry gives a lost answer, its repetition and up to
two late attempts; versions of one and two bytes give a short answer after a
longer one. Three keys in pages of two, of which the writer changes two, give a
change behind the token, one ahead of it, and a last page that was or was not
needed. The proofs lift all of these bounds for
the properties they cover.

### Fairness

`DiskCache!FairSpec` gives each thread weak fairness inside `store()`: nothing
in it waits. `S3Stream!FairSpec` adds weak fairness of a load's requests (each
ends: there are a connect time-out and a low-speed limit) and strong fairness
of the steps that wait for the mutex, since the mutex becomes free again and
again and an operating system's mutex does not starve a thread for ever. A
caller need not call. `MultipartUpload!FairSpec` gives weak fairness to the
calling thread and each worker, for the same reason; late requests need not
arrive and the process need not die. `DirectoryUpload!FairSpec` does the same,
on the strength of `put_file` returning (`PutReturns`) and of a callback that
does; weak fairness is enough for its mutex because each worker holds it only as
often as there are files. `Credentials!FairSpec` has weak fairness of the
questions to the sources (the metadata requests have time-outs; the
`credential_process` helper has none and is taken to end) and strong fairness of
`get()` taking the mutex. The clock need not advance. `S3Client!FairSpec` has weak
fairness of the steps of each call, which end with an answer or a time-out;
`PythonReader!FairReaderSpec` that of the binding's own steps, on top of the
stream's fairness.

## What is proved

For any number of threads, streams, blocks, workers, parts and retries:

* `DiskCacheProofs`: types are kept, whatever fails. If the close of the temp file
  does not fail unseen (`"close" \notin Faults`), no block is ever torn: the temp
  file of a written, not yet renamed block is whole, which rests on a thread being
  inside `store()` only with the mutex. If the directory can be listed and its
  files removed (`Evictable`), it never holds more than the largest capacity, a
  block for a `store()` that is evicting and one for every death (`CapacityBound`):
  a rename adds at most one block, nobody else is past a rename then, `store()`
  ends only within the capacity, and a death in between leaves its one block.
  If no two stamps are equal either, and every block can be touched (`Separable`),
  the directory implements `LruCache` (`KeepsTheMostRecent`): the order of the
  blocks is that of their mtimes, no mtime is ahead of the clock, so a hit or a
  rename makes its block the youngest, and the one an eviction removes has none
  older than it. With a coarse clock a block used within the same tick as another
  is not the more recent of the two, and the theorem's condition is not met.
* `S3StreamProofs`: under `Sound` (one read-ahead size, a server that always or
  never honours Range, no blocks beforehand from one that did if it never does, no
  relative seek past the end, no unseen close failure) each
  stream implements `ObjectStream`, an end of file is the end, and the
  composition implements `DiskCache`'s own specification, so that what is proved of
  the cache alone holds under the streams (`StreamsKeepTheCapacity`). Each conjunct of
  `Sound` shuts out a counterexample: those of the runs `stream_mixed` and
  `cache_close`, the server that honours Range sometimes and the relative seek past
  the end, both described above; a cached block in front of a server that sends the
  whole object is that server again. The configuration of `stream_one` is sound. The invariant
  says, per stream, that the window holds the object's bytes from its origin,
  that the get pointer is the caller's position while that is known, that the
  end flag implies that the window reaches the end, that a body under way is
  the chunk's bytes; for a server that never honours Range, that a window is the
  whole object and nothing is ever cached; and, for the cache, that every block is
  whole.
* `PythonReaderProofs`, under `Sound` too: the binding makes only the calls that
  `S3Stream` allows a caller (`ReadersAreCallers`), so that everything proved of the
  streams holds under it (`StreamsUnderReaders`); types are kept; and what Python is answered is true
  (`AnswersAreTrue`), for any readers and sizes. The invariant relates three
  positions: the caller's, that of the result the stream has returned and nobody has
  looked at, and the bytes collected, which are those just before it; `eofbit`
  is set only at the object's end, and never without `failbit`.
* `MultipartUploadProofs`: `put_file` implements `UploadedObject`; it never asks
  for a completion in which a part is missing; no part has two workers; after a
  failed part no object ever appears. Under them is the invariant of the pool:
  every part below the counter has its ETag, or is held by a worker, or
  something has failed; and a worker that has left has seen a failure or the
  counter past the last part. `CompletionIsWhole` alone is not inductive: it says
  nothing until the pool has been joined. That no part is cut short rests on a
  second invariant (`LengthInv`): whatever the server holds, or is still to be
  given, was read from a file that had that part to its end.
* `S3ClientProofs`: the puts of any number of clients implement `AtomicPuts`, and
  have one winner (`OnlyOneWins`). For the first, every step's effect on the puts,
  the answers and the bucket is one of the abstract specification's or none
  (`Outcome`); it needs that a put at work is one client's. The second rests on
  those abstract steps alone, and on: a version that was replaced, and that cannot
  come back, is not in the bucket and had been written (`Gone`). If a late put
  brought back a version with dependents, its own condition would have come back
  before, and so on down to one that was never in the bucket twice. What a client
  reads is one version's (`AnswersAreCurrent`), and a listing misses and repeats
  nothing (`ListsTheBucket`): `seen` holds what is in the bucket now, a `Sink`
  that is complete was filled by one attempt from one version, and the pages read
  have no key beyond the token, none twice, and every key up to it that was there
  all the time. That a page's last key is its greatest needs it to exist: a finite set of
  keys has one (`Extremes`).
* `DirectoryUploadProofs`: `put_directory` implements `UploadedDirectory`; reports are
  serial; the largest file goes first; the exit status tells the truth of every file
  but those skipped because their type could not be told. The
  invariant is again that of a pool: every index below the counter has been reported
  or is in one worker's hands, and those above it have not; the items are the
  listed files, each once and sorted, which follows from their being as many;
  a worker is telling exactly when it holds the mutex, and the statistics are
  ahead of what has been told by its file. The steps of the abstract
  specification need it to know that a file is reported once, and
  after the walk.
* `PartSizesProofs`: where no sum wraps (`NoWrap`), `put_file` cuts a file into at
  least one part and at most `kMaxParts`, none but the last shorter than S3's
  minimum, and their ranges follow one another from the first byte to the last;
  where it wraps there are none.
* `CredentialsProofs`: types are kept; `get()` returns none or expired credentials
  only after asking in this call, and every source it went past was without
  credentials at some moment of the call, whatever the sources hand out and
  however old it is (`NoSourceIsPassedOver`, which rests on `steady` having none of
  the sources passed so far); a refresh
  never loses credentials; a failure can be explained. The last needs a
  strengthening: once nobody is asking, a provider that has tried either has
  credentials or knows why not, which is what a call that backs off relies on.

The assumptions are those of the modules (`ASSUME`, checked by TLC on every
instance): sizes, times and bounds are naturals, read-ahead sizes, part sizes and the number
of parts are positive, there is at least one stream or worker, no thread is the
holder of a free mutex, `tellg()` is one of the relative seeks (by 0).

Only model-checked: everything about
liveness (`StoreReturns`, `CallsReturn`, `PythonReturns`, `PutReturns`,
`ClientReturns`, `DirectoryReturns`, `GetReturns`), which is out of the prover's
reach, as `ENABLED` is. Two things are the other way round: that no block is torn
when the directory cannot be listed, and with a clock too coarse to separate two
mtimes, is proved (`BlocksAreWhole`) and in no passing run. Nothing here uses
recursion.

## What is not modelled

* Signatures, hashes, encodings, parsers and message texts: pure functions over
  strings. What a parser can come to (no length, no ETag, a page that is
  malformed) is an alternative of the actions that use it.
* Power loss: a rename is taken to be durable and ordered after the write; the
  code does not sync.
* Two live processes over one cache directory, overwriting of the object while a
  stream reads it, `djb2` collisions of cache keys.
* `error()` shared by several streams of one thread: every stream has a thread
  of its own here.
* A body that mixes two states of the file within one part.
* The names of the objects of a directory, and byte counts: `put_directory`'s
  `stats.bytes` adds the sizes found by the walk, not those sent.
* The common prefixes of a listing with a delimiter (they are listed as keys are),
  a listing server whose tokens go round in a cycle, two puts of the same contents
  (one ETag for two versions), put options that name both conditions at once.
* The bindings' `Client` and `Factory`, which convert arguments and errors; the
  parsing and printing of `s3put`, and its upload of a single file; the examples.
* What credentials are worth to the server: those without an expiry (keys with a
  session token from the environment or a profile among them) are taken to last.
* A clock that is set back.
* Integer widths other than those of `PartSizes` and of `read_range`'s overflow
  check: offsets and part numbers are naturals.

## Plan

Done: every module listed above, with its runs; and a theorem for every safety
property that a passing run checks. What is left is to weaken the conditions of
these theorems where the code allows it: `CapacityIsKept` and `LruIsKept` ask that
every block can be removed and `StreamsReadTheObject` that every server is of one
kind, each for the reason given with it.
