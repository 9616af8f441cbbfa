--------------------------- MODULE MultipartUpload --------------------------
(***************************************************************************)
(* S3Client::put_file() of src/s3_reader.cpp: one call, the server and the *)
(* local file.  A file below the threshold is one PUT.  A larger one is a  *)
(* multipart upload: create, the parts by a pool of workers that share a   *)
(* counter, complete; or abort when a part or the completion failed.       *)
(*                                                                         *)
(* A request goes through run_request(), which repeats it: an attempt may  *)
(* reach the server and its answer be lost, or reach the server after the  *)
(* client has given it up, even after put_file() has returned.  The file   *)
(* may be rewritten, cut or extended while it is sent.  The process may    *)
(* die at any step.                                                        *)
(*                                                                         *)
(* The file's length is counted in parts; the contents of a part are the   *)
(* state of the file it was read from, and that is its ETag too.           *)
(***************************************************************************)
EXTENDS Integers

CONSTANTS
    Workers,        \* the pool, the calling thread included
    Parts,          \* the number of parts of the file put_file() measured
    Calls,          \* the calls there may be: is the file below the multipart
                    \* threshold, and are payloads signed
    Retries,        \* kClientRetries
    Lengths,        \* the lengths the file may be changed to
    MaxChanges      \* bound: how often the file is changed

ASSUME PartsAssumption == Parts \in Nat \ {0} /\ Workers # {}
ASSUME CallsAssumption == Calls \subseteq [single : BOOLEAN, sign : BOOLEAN]
ASSUME BoundsAssumption ==
    Retries \in Nat /\ Lengths \subseteq Nat /\ MaxChanges \in Nat

VARIABLES
    call,           \* this call
    step,           \* where put_file() is
    tries,          \* run_request's attempt, for the calling thread's requests
    digest,         \* the contents hashed for the one PUT
    pc,             \* where each worker is
    part,           \* the part it has claimed
    hash,           \* the contents it has hashed, when payloads are signed
    attempt,        \* run_request's attempt, for its part
    next,           \* the shared counter
    failed,         \* the shared flag
    etags,          \* part_etags
    ret,            \* what put_file() returned: "ok", "fail" or "none" yet
    file,           \* the local file
    \* external, the server:
    upload,         \* the multipart upload
    stored,         \* the parts it holds
    object,         \* the object under the key (Empty: what was there before)
    lateParts, lateComplete, latePuts   \* requests given up but on their way

caller  == <<call, step, tries, digest, ret>>
workers == <<pc, part, hash, attempt>>
shared  == <<next, failed, etags>>
late    == <<lateParts, lateComplete, latePuts>>
server  == <<upload, stored, object, late>>
vars    == <<caller, workers, shared, file, server>>

PartNos == 0 .. Parts - 1
File == [ver : Nat, len : Nat]
NoPart == [ver |-> -1, len |-> -1]
Empty == [i \in PartNos |-> NoPart]

Single == call.single
SignPayload == call.sign

-----------------------------------------------------------------------------
Init ==
    /\ call \in Calls
    /\ step = "start" /\ tries = 0 /\ digest = NoPart /\ ret = "none"
    /\ pc = [w \in Workers |-> "out"]
    /\ part = [w \in Workers |-> 0]
    /\ hash = [w \in Workers |-> NoPart]
    /\ attempt = [w \in Workers |-> 0]
    /\ next = 0 /\ failed = FALSE /\ etags = Empty
    /\ file = [ver |-> 0, len |-> Parts]
    /\ upload = "none" /\ stored = Empty /\ object = Empty
    /\ lateParts = {} /\ lateComplete = FALSE /\ latePuts = {}

GoTo(s) == step' = s /\ tries' = 0 /\ UNCHANGED <<call, digest, ret>>
Return(r) == step' = "done" /\ tries' = 0 /\ ret' = r /\ UNCHANGED <<call, digest>>

(* Variants, here and below, are what a slip in the code would do; they    *)
(* are no part of the specification and show which property notices.       *)
(* Variant: the count of attempts wraps.                                   *)
TryAgainWraps ==
    /\ tries' = (tries + 1) % (Retries + 1)
    /\ UNCHANGED <<call, step, digest, ret>>

TryAgain ==
    /\ tries < Retries
    /\ tries' = tries + 1
    /\ UNCHANGED <<call, step, digest, ret>>

Start ==
    /\ step = "start"
    /\ \/ /\ ~Single
          /\ GoTo("create")
       \/ /\ Single
          /\ SignPayload => file.len >= Parts
          /\ step' = "put"
          /\ digest' = IF SignPayload THEN file ELSE NoPart
          /\ UNCHANGED <<call, tries, ret>>
    /\ UNCHANGED <<workers, shared, file, server>>

(* The call ends before any request: the file cannot be opened or hashed,  *)
(* there are no credentials.                                               *)
GiveUp ==
    /\ step \in {"start", "put", "create"} /\ tries = 0
    /\ Return("fail")
    /\ UNCHANGED <<workers, shared, file, server>>

-----------------------------------------------------------------------------
(* One PUT.  The body is read from the file when it is sent: one that ends *)
(* early aborts the transfer, one that goes on longer is cut.              *)
Whole(f) == [i \in PartNos |-> f]
Sendable == file.len >= Parts
Matching == Sendable /\ (SignPayload => digest = file)

PutEffect ==
    \/ UNCHANGED server
    \/ /\ Matching
       /\ \/ object' = Whole(file) /\ UNCHANGED latePuts
          \/ latePuts' = latePuts \cup {file} /\ UNCHANGED object
       /\ UNCHANGED <<upload, stored, lateParts, lateComplete>>

PutOk ==
    /\ step = "put" /\ Matching
    /\ object' = Whole(file)
    /\ Return("ok")
    /\ UNCHANGED <<workers, shared, file, upload, stored, late>>

PutRetry ==
    /\ step = "put"
    /\ TryAgain /\ PutEffect
    /\ UNCHANGED <<workers, shared, file>>

PutFail ==
    /\ step = "put"
    /\ Return("fail") /\ PutEffect
    /\ UNCHANGED <<workers, shared, file>>

-----------------------------------------------------------------------------
(* Create.  When its answer is lost, the upload it made has no parts and   *)
(* nobody knows its id: it is left out.                                    *)
CreateOk ==
    /\ step = "create"
    /\ upload' = "open"
    /\ GoTo("parts")
    /\ pc' = [w \in Workers |-> "open"]
    /\ UNCHANGED <<part, hash, attempt, shared, file, stored, object, late>>

CreateRetry ==
    /\ step = "create"
    /\ TryAgain
    /\ UNCHANGED <<workers, shared, file, server>>

CreateFail ==
    /\ step = "create"
    /\ Return("fail")
    /\ UNCHANGED <<workers, shared, file, server>>

-----------------------------------------------------------------------------
(* The workers.                                                            *)
Leave(w) ==
    /\ pc' = [pc EXCEPT ![w] = "out"]
    /\ part' = [part EXCEPT ![w] = 0]
    /\ hash' = [hash EXCEPT ![w] = NoPart]
    /\ attempt' = [attempt EXCEPT ![w] = 0]

FailWith(w) ==
    /\ Leave(w)
    /\ failed' = TRUE
    /\ UNCHANGED <<caller, next, etags, file>>

(* Variant: a worker that cannot open the file just returns.               *)
OpenFileSilently(w) ==
    /\ pc[w] = "open"
    /\ \/ /\ pc' = [pc EXCEPT ![w] = "claim"]
          /\ UNCHANGED <<part, hash, attempt>>
       \/ Leave(w)
    /\ UNCHANGED <<caller, shared, file, server>>

OpenFile(w) ==
    /\ pc[w] = "open"
    /\ \/ /\ pc' = [pc EXCEPT ![w] = "claim"]
          /\ UNCHANGED <<caller, part, hash, attempt, shared, file, server>>
       \/ FailWith(w) /\ UNCHANGED server

(* Variant: the counter is not atomic and an increment may be lost.        *)
ClaimRacy(w) ==
    /\ pc[w] = "claim"
    /\ part' = [part EXCEPT ![w] = next]
    /\ next' \in {next, next + 1}
    /\ pc' = [pc EXCEPT ![w] = "check"]
    /\ UNCHANGED <<caller, hash, attempt, failed, etags, file, server>>

(* next++ takes a part; the flag is read after it.                         *)
Claim(w) ==
    /\ pc[w] = "claim"
    /\ part' = [part EXCEPT ![w] = next]
    /\ next' = next + 1
    /\ pc' = [pc EXCEPT ![w] = "check"]
    /\ UNCHANGED <<caller, hash, attempt, failed, etags, file, server>>

Check(w) ==
    /\ pc[w] = "check"
    /\ \/ /\ part[w] >= Parts \/ failed
          /\ Leave(w)
       \/ /\ part[w] < Parts /\ ~failed
          /\ pc' = [pc EXCEPT ![w] = IF SignPayload THEN "hash" ELSE "send"]
          /\ UNCHANGED <<part, hash, attempt>>
    /\ UNCHANGED <<caller, shared, file, server>>

HashPart(w) ==
    /\ pc[w] = "hash"
    /\ \/ /\ part[w] < file.len
          /\ hash' = [hash EXCEPT ![w] = file]
          /\ pc' = [pc EXCEPT ![w] = "send"]
          /\ UNCHANGED <<caller, part, attempt, shared, file, server>>
       \/ FailWith(w) /\ UNCHANGED server

(* Variant: a body that ends early is sent as far as it goes.              *)
ReadableShort(w) == part[w] <= file.len

(* The body of the part can be read to its end, and matches its hash.      *)
Readable(w) == part[w] < file.len
Accepted(w) == Readable(w) /\ (SignPayload => hash[w] = file)
StorePart(w) == stored' = [stored EXCEPT ![part[w]] = file]

PartEffect(w) ==
    \/ UNCHANGED server
    \/ /\ Accepted(w) /\ StorePart(w)
       /\ UNCHANGED <<upload, object, late>>
    \/ /\ Accepted(w)
       /\ lateParts' = lateParts \cup {<<part[w], file>>}
       /\ UNCHANGED <<upload, stored, object, lateComplete, latePuts>>

PartOk(w) ==
    /\ pc[w] = "send" /\ Accepted(w)
    /\ StorePart(w)
    /\ etags' = [etags EXCEPT ![part[w]] = file]
    /\ pc' = [pc EXCEPT ![w] = "claim"]
    /\ part' = [part EXCEPT ![w] = 0]
    /\ hash' = [hash EXCEPT ![w] = NoPart]
    /\ attempt' = [attempt EXCEPT ![w] = 0]
    /\ UNCHANGED <<caller, next, failed, file, upload, object, late>>

(* Variant: one attempt too many.                                          *)
PartRetryOnceMore(w) ==
    /\ pc[w] = "send"
    /\ attempt[w] <= Retries
    /\ attempt' = [attempt EXCEPT ![w] = attempt[w] + 1]
    /\ PartEffect(w)
    /\ UNCHANGED <<caller, pc, part, hash, shared, file>>

PartRetry(w) ==
    /\ pc[w] = "send"
    /\ attempt[w] < Retries
    /\ attempt' = [attempt EXCEPT ![w] = attempt[w] + 1]
    /\ PartEffect(w)
    /\ UNCHANGED <<caller, pc, part, hash, shared, file>>

(* No credentials, a body that cannot be read, a refusal, no attempt left, *)
(* an answer without an ETag.                                              *)
PartFail(w) ==
    /\ pc[w] = "send"
    /\ FailWith(w) /\ PartEffect(w)

Work(w) ==
    \/ OpenFile(w) \/ Claim(w) \/ Check(w) \/ HashPart(w)
    \/ PartOk(w) \/ PartRetry(w) \/ PartFail(w)

(* Variant: the flag is not read.                                          *)
JoinUnchecked ==
    /\ step = "parts"
    /\ \A w \in Workers : pc[w] = "out"
    /\ GoTo("complete")
    /\ UNCHANGED <<workers, shared, file, server>>

(* The caller has joined the pool and reads the flag.                      *)
Join ==
    /\ step = "parts"
    /\ \A w \in Workers : pc[w] = "out"
    /\ GoTo(IF failed THEN "abort" ELSE "complete")
    /\ UNCHANGED <<workers, shared, file, server>>

-----------------------------------------------------------------------------
(* Complete.  The server makes the object of the parts the request lists,  *)
(* if they are the parts it holds.                                         *)
Publish ==
    /\ upload = "open" /\ stored = etags
    /\ upload' = "completed"
    /\ object' = stored
    /\ stored' = Empty

CompleteEffect ==
    \/ UNCHANGED server
    \/ Publish /\ UNCHANGED late
    \/ /\ lateComplete' = TRUE
       /\ UNCHANGED <<upload, stored, object, lateParts, latePuts>>

(* A completion repeated after one that worked may be told so.             *)
CompleteOk ==
    /\ step = "complete"
    /\ \/ Publish
       \/ upload = "completed" /\ UNCHANGED <<upload, stored, object>>
    /\ Return("ok")
    /\ UNCHANGED <<workers, shared, file, late>>

CompleteRetry ==
    /\ step = "complete"
    /\ TryAgain /\ CompleteEffect
    /\ UNCHANGED <<workers, shared, file>>

(* No attempt left, a refusal (a part the server does not hold, an upload  *)
(* it no longer knows), a 200 with an <Error> body.                        *)
CompleteFail ==
    /\ step = "complete"
    /\ GoTo("abort") /\ CompleteEffect
    /\ UNCHANGED <<workers, shared, file>>

-----------------------------------------------------------------------------
(* Abort, whose outcome nobody looks at.                                   *)
AbortEffect ==
    \/ UNCHANGED server
    \/ /\ upload = "open"
       /\ upload' = "aborted"
       /\ stored' = Empty
       /\ UNCHANGED <<object, late>>

AbortRetry ==
    /\ step = "abort"
    /\ TryAgain /\ AbortEffect
    /\ UNCHANGED <<workers, shared, file>>

AbortDone ==
    /\ step = "abort"
    /\ Return("fail") /\ AbortEffect
    /\ UNCHANGED <<workers, shared, file>>

-----------------------------------------------------------------------------
(* The environment: the file changes while it is being sent, a request     *)
(* that was given up arrives, the process dies.                            *)
Running == step \notin {"done", "dead"}

ChangeFile ==
    /\ Running
    /\ file.ver < MaxChanges
    /\ \E n \in Lengths : file' = [ver |-> file.ver + 1, len |-> n]
    /\ UNCHANGED <<caller, workers, shared, server>>

(* A part that arrives after the abort may be kept: the upload goes on     *)
(* holding it.                                                             *)
PartArrives ==
    /\ \E m \in lateParts :
           /\ lateParts' = lateParts \ {m}
           /\ IF upload \in {"open", "aborted"}
              THEN stored' = [stored EXCEPT ![m[1]] = m[2]]
              ELSE UNCHANGED stored
    /\ UNCHANGED <<caller, workers, shared, file, upload, object, lateComplete, latePuts>>

CompleteArrives ==
    /\ lateComplete
    /\ lateComplete' = FALSE
    /\ Publish \/ UNCHANGED <<upload, stored, object>>
    /\ UNCHANGED <<caller, workers, shared, file, lateParts, latePuts>>

PutArrives ==
    /\ \E f \in latePuts : object' = Whole(f) /\ latePuts' = latePuts \ {f}
    /\ UNCHANGED <<caller, workers, shared, file, upload, stored, lateParts, lateComplete>>

(* The workers die too; what the process had in memory is of no use then.  *)
Crash ==
    /\ Running
    /\ step' = "dead" /\ tries' = 0 /\ digest' = NoPart
    /\ pc' = [w \in Workers |-> "out"]
    /\ part' = [w \in Workers |-> 0]
    /\ hash' = [w \in Workers |-> NoPart]
    /\ attempt' = [w \in Workers |-> 0]
    /\ UNCHANGED <<call, ret, shared, file, server>>

Caller ==
    \/ Start \/ GiveUp
    \/ PutOk \/ PutRetry \/ PutFail
    \/ CreateOk \/ CreateRetry \/ CreateFail
    \/ Join
    \/ CompleteOk \/ CompleteRetry \/ CompleteFail
    \/ AbortRetry \/ AbortDone

Arrival == PartArrives \/ CompleteArrives \/ PutArrives

(* put_file() has returned or died, and no request is on its way.          *)
Over == ~Running /\ lateParts = {} /\ ~lateComplete /\ latePuts = {}

Next ==
    \/ Caller
    \/ \E w \in Workers : Work(w)
    \/ ChangeFile \/ Arrival \/ Crash
    \/ Over /\ UNCHANGED vars

Spec == Init /\ [][Next]_vars

(* Every thread runs, and every request ends: with an answer or a time-out *)
(* (the connect time-out and the low-speed limit).                         *)
FairSpec ==
    Spec /\ WF_vars(Caller) /\ \A w \in Workers : WF_vars(Work(w))

-----------------------------------------------------------------------------
Steps == {"start", "put", "create", "parts", "complete", "abort", "done", "dead"}
Pcs == {"out", "open", "claim", "check", "hash", "send"}
Contents == [PartNos -> File \cup {NoPart}]

(* The variables have their types.                                         *)
TypeOK ==
    /\ call \in [single : BOOLEAN, sign : BOOLEAN]
    /\ step \in Steps
    /\ tries \in 0 .. Retries
    /\ digest \in File \cup {NoPart}
    /\ ret \in {"none", "ok", "fail"}
    /\ pc \in [Workers -> Pcs]
    /\ part \in [Workers -> Nat]
    /\ hash \in [Workers -> File \cup {NoPart}]
    /\ attempt \in [Workers -> 0 .. Retries]
    /\ next \in Nat
    /\ failed \in BOOLEAN
    /\ etags \in Contents
    /\ file \in File
    /\ upload \in {"none", "open", "completed", "aborted"}
    /\ stored \in Contents
    /\ object \in Contents
    /\ lateParts \subseteq PartNos \X File
    /\ lateComplete \in BOOLEAN
    /\ latePuts \subseteq File

(* A completion names every part: no worker has left without failing while *)
(* a part it had claimed, or that nobody had, was missing.                 *)
CompletionIsWhole ==
    step = "complete" => \A i \in PartNos : etags[i] # NoPart

(* No two workers send the same part.                                      *)
OneWorkerPerPart ==
    \A v, w \in Workers :
        pc[v] \in {"hash", "send"} /\ pc[w] \in {"hash", "send"} /\ part[v] = part[w]
            => v = w

(* After a part has failed there is never an object, whatever arrives      *)
(* later: the upload is not completed by anybody.                          *)
FailureIsFinal == failed => object = Empty

(* What the caller and the server see of the upload: an object that is     *)
(* absent or whole, never shorter than the file was when it was measured   *)
(* nor with a part cut short, and a success only when it is there.         *)
Promise == INSTANCE UploadedObject
PutsTheFile == Promise!Spec

(* "a file that changes size while it is sent fails rather than leaving a  *)
(* short object" (README.md): after a success no part of the object was    *)
(* read from a file of another size than the one measured.  A file that    *)
(* has grown breaks it: upload_read stops at the measured length.          *)
ResizedFileFails == ret = "ok" => \A i \in PartNos : object[i].len = Parts

(* put_file() returns, unless the process dies.                            *)
PutReturns == []<>~Running
=============================================================================
