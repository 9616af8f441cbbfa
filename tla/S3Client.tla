------------------------------ MODULE S3Client ------------------------------
(***************************************************************************)
(* S3Client's head(), read_range(), list() and put() of                    *)
(* src/s3_reader.cpp, called by several threads or processes over one      *)
(* bucket.  A client keeps nothing from one call to the next; what can go  *)
(* wrong is between the attempts of run_request() and between the pages of *)
(* a listing, while others write and delete.                               *)
(*                                                                         *)
(* An attempt at a put may be applied and its answer be lost, or reach the *)
(* server after the client has given it up, even after put() returned.     *)
(*                                                                         *)
(* Every put has contents of its own: its number is the version of the     *)
(* object it writes, and the ETag.  Keys are numbered in listing order and *)
(* a continuation token is the last key of its page, 0 before the first.   *)
(***************************************************************************)
EXTENDS Integers, Sequences, FiniteSets

CONSTANTS
    Clients,        \* the threads that make calls
    Keys,           \* the keys under the prefix
    Workloads,      \* bound: who may call what, on which keys, with how many
                    \* puts, and deletions by another program, in all
    Length,         \* Length[v]: the bytes of version v, 0 the one at first
    Ranges,         \* the ranges read: offset and n
    MaxU64,         \* the largest 64-bit number
    PageSize,       \* the keys of a full page
    Retries,        \* kClientRetries
    MaxPuts         \* bound: the puts of any workload

Absent == -1
Any == -2
Puts == 1 .. MaxPuts
Versions == 0 .. MaxPuts

ASSUME KeysAssumption == Keys \subseteq Nat \ {0} /\ IsFiniteSet(Keys)
ASSUME WorkloadsAssumption ==
    Workloads \subseteq [calls : [Clients -> SUBSET {"put", "head", "read", "list"}],
                         on : SUBSET Keys, puts : 0 .. MaxPuts, deletes : Nat]
ASSUME LengthAssumption == Length \in [Versions -> Nat]
ASSUME RangesAssumption == Ranges \subseteq [offset : 0 .. MaxU64, n : 0 .. MaxU64]
ASSUME ClientBounds ==
    /\ PageSize \in Nat \ {0}
    /\ MaxU64 \in Nat /\ Retries \in Nat /\ MaxPuts \in Nat

VARIABLES
    work,           \* this workload
    call,           \* the call each client makes, or the last that succeeded
    status,         \* "busy", "ok" when it has succeeded, or "idle"
    tries,          \* run_request's attempt
    dst,            \* read_range: the version each byte of dst is from
    found,          \* list: the pages read, each a set of keys and versions
    token,          \* list: the continuation token
    \* external, the server:
    bucket,         \* the version under each key, or Absent
    late,           \* attempts at a put given up but on their way
    deletes,        \* how often objects were deleted
    \* history:
    puts,           \* the puts there have been: their keys and conditions
    written,        \* those that have taken effect
    answers,        \* what the caller of each was told
    seen            \* what each client's objects were since its call began

client  == <<work, call, status, tries, dst, found, token>>
server  == <<bucket, late, deletes>>
history == <<puts, written, answers, seen>>
vars    == <<client, server, history>>

NoCall == [op |-> "none"]
Busy(c, op) == status[c] = "busy" /\ call[c].op = op

-----------------------------------------------------------------------------
Init ==
    /\ work \in Workloads
    /\ call = [c \in Clients |-> NoCall]
    /\ status = [c \in Clients |-> "idle"]
    /\ tries = [c \in Clients |-> 0]
    /\ dst = [c \in Clients |-> <<>>]
    /\ found = [c \in Clients |-> <<>>]
    /\ token = [c \in Clients |-> 0]
    /\ bucket \in [Keys -> {0, Absent}]
    /\ \A k \in Keys \ work.on : bucket[k] = 0
    /\ late = [p \in Puts |-> 0] /\ deletes = 0
    /\ puts = <<>> /\ written = {} /\ answers = <<>>
    /\ seen = [c \in Clients |-> {}]

Current(ks) == {<<k, bucket[k]>> : k \in ks}

Begin(c, r, ks) ==
    /\ status[c] # "busy" /\ r.op \in work.calls[c]
    /\ call' = [call EXCEPT ![c] = r]
    /\ status' = [status EXCEPT ![c] = "busy"]
    /\ dst' = [dst EXCEPT ![c] = <<>>]
    /\ found' = [found EXCEPT ![c] = <<>>]
    /\ token' = [token EXCEPT ![c] = 0]
    /\ seen' = [seen EXCEPT ![c] = Current(ks)]
    /\ UNCHANGED <<work, tries, server, written>>

(* The call succeeds.                                                      *)
Return(c) ==
    /\ status' = [status EXCEPT ![c] = "ok"]
    /\ tries' = [tries EXCEPT ![c] = 0]
    /\ UNCHANGED <<work, call>>

(* A failed call leaves its results as they were, or not to be used.       *)
Leave(c) ==
    /\ call' = [call EXCEPT ![c] = NoCall]
    /\ status' = [status EXCEPT ![c] = "idle"]
    /\ tries' = [tries EXCEPT ![c] = 0]
    /\ dst' = [dst EXCEPT ![c] = <<>>]
    /\ found' = [found EXCEPT ![c] = <<>>]
    /\ token' = [token EXCEPT ![c] = 0]
    /\ UNCHANGED work

(* Variants, here and below, are what a slip in the code would do; they    *)
(* are no part of the specification and show which property notices.       *)
(* Variant: the count of attempts wraps.                                   *)
TryAgainWraps(c) ==
    /\ tries' = [tries EXCEPT ![c] = (@ + 1) % (Retries + 1)]
    /\ UNCHANGED <<work, call, status>>

(* Variant: one attempt too many.                                          *)
TryAgainOnceMore(c) ==
    /\ tries[c] <= Retries
    /\ tries' = [tries EXCEPT ![c] = @ + 1]
    /\ UNCHANGED <<work, call, status>>

TryAgain(c) ==
    /\ tries[c] < Retries
    /\ tries' = [tries EXCEPT ![c] = @ + 1]
    /\ UNCHANGED <<work, call, status>>

-----------------------------------------------------------------------------
(* put().  The condition is the version the object must have: any, none    *)
(* (If-None-Match), or that of an ETag (If-Match).                         *)
PutBegin(c) ==
    /\ Len(puts) < work.puts
    /\ \E k \in work.on :
       \E v \in {Any, Absent, 0} \cup {p \in DOMAIN puts : puts[p].key = k} :
           /\ puts' = Append(puts, [key |-> k, cond |-> v])
           /\ answers' = Append(answers, "none")
           /\ Begin(c, [op |-> "put", put |-> Len(puts) + 1], {})

Holds(p) == puts[p].cond \in {Any, bucket[puts[p].key]}

Watched(c) ==
    CASE Busy(c, "list") -> Keys
      [] Busy(c, "head") \/ Busy(c, "read") -> {call[c].key}
      [] OTHER -> {}

Become(k, v) ==
    /\ bucket' = [bucket EXCEPT ![k] = v]
    /\ seen' = [c \in Clients |->
                  IF k \in Watched(c) THEN seen[c] \cup {<<k, v>>} ELSE seen[c]]

Take(p) ==
    /\ Become(puts[p].key, p)
    /\ written' = written \cup {p}
    /\ UNCHANGED <<late, deletes>>

(* Variant: the condition is not sent with every attempt.                  *)
PutEffectBare(p) ==
    \/ UNCHANGED <<server, written, seen>>
    \/ Take(p)
    \/ /\ late' = [late EXCEPT ![p] = @ + 1]
       /\ UNCHANGED <<bucket, deletes, written, seen>>

(* What an attempt at the put does at the server.                          *)
PutEffect(p) ==
    \/ UNCHANGED <<server, written, seen>>
    \/ Holds(p) /\ Take(p)
    \/ /\ late' = [late EXCEPT ![p] = @ + 1]
       /\ UNCHANGED <<bucket, deletes, written, seen>>

TellPut(c, s) ==
    /\ Leave(c)
    /\ answers' = [answers EXCEPT ![call[c].put] = s]
    /\ UNCHANGED puts

PutOk(c) ==
    /\ Busy(c, "put")
    /\ Holds(call[c].put) /\ Take(call[c].put)
    /\ TellPut(c, "ok")

(* Variant: a condition that fails when the put is repeated is taken for   *)
(* the effect of the first attempt.                                        *)
PutRefusedOwn(c) ==
    /\ Busy(c, "put")
    /\ ~Holds(call[c].put)
    /\ TellPut(c, IF tries[c] > 0 THEN "ok" ELSE "refused")
    /\ UNCHANGED <<server, written, seen>>

(* HTTP 412.                                                               *)
PutRefused(c) ==
    /\ Busy(c, "put")
    /\ ~Holds(call[c].put)
    /\ TellPut(c, "refused")
    /\ UNCHANGED <<server, written, seen>>

PutRetry(c) ==
    /\ Busy(c, "put")
    /\ TryAgain(c) /\ PutEffect(call[c].put)
    /\ UNCHANGED <<dst, found, token, puts, answers>>

(* Arguments that are refused, no credentials, no attempt left, another    *)
(* HTTP status (404 for If-Match without an object, 409 for a conflict),   *)
(* an answer that is too long.                                             *)
PutFail(c) ==
    /\ Busy(c, "put")
    /\ TellPut(c, "fail") /\ PutEffect(call[c].put)

-----------------------------------------------------------------------------
(* head(): the object's length.  It is answered with the version here.     *)
HeadBegin(c) ==
    /\ \E k \in work.on : Begin(c, [op |-> "head", key |-> k], {k})
    /\ UNCHANGED <<puts, answers>>

HeadOk(c) ==
    /\ Busy(c, "head")
    /\ bucket[call[c].key] # Absent
    /\ dst' = [dst EXCEPT ![c] = <<bucket[call[c].key]>>]
    /\ Return(c)
    /\ UNCHANGED <<found, token, server, history>>

-----------------------------------------------------------------------------
(* read_range().  Every attempt has a fresh Sink: it writes from the start *)
(* of dst, and it may break off after some bytes.                          *)
ReadBegin(c) ==
    /\ \E k \in work.on, r \in Ranges :
           Begin(c, [op |-> "read", key |-> k, offset |-> r.offset, n |-> r.n], {k})
    /\ UNCHANGED <<puts, answers>>

Overflows(r) == r.n > 0 /\ r.offset > MaxU64 - (r.n - 1)

(* The bytes of the range the server has: none is answered with 416.       *)
Sent(c) ==
    LET v == bucket[call[c].key]
    IN  IF v = Absent \/ Length[v] <= call[c].offset THEN 0
        ELSE IF Length[v] - call[c].offset < call[c].n
        THEN Length[v] - call[c].offset
        ELSE call[c].n

(* Variant: an attempt asks only for the bytes that are still missing.     *)
FillRest(c, m) ==
    dst' = [dst EXCEPT ![c] =
              [i \in 1 .. IF m < Len(@) THEN Len(@) ELSE m |->
                 IF i <= Len(@) THEN @[i] ELSE bucket[call[c].key]]]

(* dst after the first m bytes of an answer.                               *)
Fill(c, m) ==
    dst' = [dst EXCEPT ![c] =
              [i \in 1 .. IF m < Len(@) THEN Len(@) ELSE m |->
                 IF i <= m THEN bucket[call[c].key] ELSE @[i]]]

(* n = 0 asks nobody.                                                      *)
ReadNothing(c) ==
    /\ Busy(c, "read") /\ call[c].n = 0
    /\ Return(c)
    /\ UNCHANGED <<dst, found, token, server, history>>

ReadOk(c) ==
    /\ Busy(c, "read") /\ call[c].n > 0 /\ ~Overflows(call[c])
    /\ Sent(c) = call[c].n
    /\ Fill(c, Sent(c))
    /\ Return(c)
    /\ UNCHANGED <<found, token, server, history>>

ReadRetry(c) ==
    /\ Busy(c, "read") /\ call[c].n > 0 /\ ~Overflows(call[c])
    /\ TryAgain(c)
    /\ \E m \in 0 .. Sent(c) : Fill(c, m)
    /\ UNCHANGED <<found, token, server, history>>

-----------------------------------------------------------------------------
(* list(): page after page, each of the bucket as it is then.              *)
ListBegin(c) ==
    /\ Begin(c, [op |-> "list"], Keys)
    /\ UNCHANGED <<puts, answers>>

(* The keys after the token, and those of them that fit on a page.         *)
After(t) == {k \in Keys : k > t /\ bucket[k] # Absent}
Page(t) == {k \in After(t) : Cardinality({j \in After(t) : j < k}) < PageSize}
Last(t) == CHOOSE k \in Page(t) : \A j \in Page(t) : j <= k
Truncated(t) == Page(t) # After(t)

AddPage(c) == found' = [found EXCEPT ![c] = Append(@, Current(Page(token[c])))]

(* Variant: a repeated token is followed (and its page not counted).       *)
ListPageAnyToken(c) ==
    /\ Busy(c, "list") /\ Truncated(token[c])
    /\ \/ AddPage(c) /\ token' = [token EXCEPT ![c] = Last(token[c])]
       \/ UNCHANGED <<found, token>>
    /\ tries' = [tries EXCEPT ![c] = 0]
    /\ UNCHANGED <<work, call, status, dst, server, history>>

ListPage(c) ==
    /\ Busy(c, "list") /\ Truncated(token[c])
    /\ AddPage(c)
    /\ token' = [token EXCEPT ![c] = Last(token[c])]
    /\ tries' = [tries EXCEPT ![c] = 0]
    /\ UNCHANGED <<work, call, status, dst, server, history>>

(* The server repeats the token, or says that there is more and gives none.*)
ListStuck(c) ==
    /\ Busy(c, "list") /\ Truncated(token[c])
    /\ Leave(c)
    /\ seen' = [seen EXCEPT ![c] = {}]
    /\ UNCHANGED <<server, puts, written, answers>>

(* The last page.  The results are handed over only now.                   *)
ListOk(c) ==
    /\ Busy(c, "list") /\ ~Truncated(token[c])
    /\ AddPage(c)
    /\ token' = [token EXCEPT ![c] = 0]
    /\ Return(c)
    /\ UNCHANGED <<dst, server, history>>

(* Variant: the page of an attempt that broke off is kept.                 *)
AskAgainKeepsPage(c) ==
    /\ Busy(c, "list") /\ TryAgain(c)
    /\ AddPage(c)
    /\ UNCHANGED <<dst, token, server, history>>

(* An attempt at a HEAD or a listing's page is repeated.                   *)
AskAgain(c) ==
    /\ Busy(c, "head") \/ Busy(c, "list")
    /\ TryAgain(c)
    /\ UNCHANGED <<dst, found, token, server, history>>

(* A bad URI, range or option, no credentials, no attempt left, a status   *)
(* that is not a success, a range answered whole, short or too long, a     *)
(* length that is missing, a page that is malformed or too long.           *)
AskFail(c) ==
    /\ Busy(c, "head") \/ Busy(c, "read") \/ Busy(c, "list")
    /\ Leave(c)
    /\ seen' = [seen EXCEPT ![c] = {}]
    /\ UNCHANGED <<server, puts, written, answers>>

-----------------------------------------------------------------------------
(* The environment: an attempt given up arrives, an object is deleted.     *)
PutArrives(p) ==
    /\ late[p] > 0
    /\ late' = [late EXCEPT ![p] = @ - 1]
    /\ \/ /\ Holds(p)
          /\ Become(puts[p].key, p)
          /\ written' = written \cup {p}
       \/ ~Holds(p) /\ UNCHANGED <<bucket, written, seen>>
    /\ UNCHANGED <<client, deletes, puts, answers>>

Delete(k) ==
    /\ deletes < work.deletes
    /\ bucket[k] # Absent
    /\ deletes' = deletes + 1
    /\ Become(k, Absent)
    /\ UNCHANGED <<client, late, puts, written, answers>>

CallBegin(c) == PutBegin(c) \/ HeadBegin(c) \/ ReadBegin(c) \/ ListBegin(c)

CallStep(c) ==
    \/ PutOk(c) \/ PutRefused(c) \/ PutRetry(c) \/ PutFail(c)
    \/ HeadOk(c)
    \/ ReadNothing(c) \/ ReadOk(c) \/ ReadRetry(c)
    \/ ListPage(c) \/ ListStuck(c) \/ ListOk(c)
    \/ AskAgain(c) \/ AskFail(c)

(* The workload is used up, and no request is on its way.                  *)
Over ==
    /\ Len(puts) = work.puts
    /\ \A c \in Clients : status[c] # "busy"
    /\ \A p \in Puts : late[p] = 0

Next ==
    \/ \E c \in Clients : CallBegin(c) \/ CallStep(c)
    \/ \E p \in Puts : PutArrives(p)
    \/ \E k \in work.on : Delete(k)
    \/ Over /\ UNCHANGED vars

Spec == Init /\ [][Next]_vars

(* Every thread that is in a call runs, and every attempt ends: with an    *)
(* answer or a time-out (the connect time-out and the low-speed limit).    *)
FairSpec == Spec /\ \A c \in Clients : WF_vars(CallStep(c))

-----------------------------------------------------------------------------
CallTypes ==
    {NoCall}
        \cup [op : {"put"}, put : Puts]
        \cup [op : {"head"}, key : Keys]
        \cup [op : {"read"}, key : Keys, offset : 0 .. MaxU64, n : 0 .. MaxU64]
        \cup [op : {"list"}]

(* The variables have their types: among others, no call has more attempts *)
(* than run_request() allows, and only an unanswered put is at work.       *)
TypeOK ==
    /\ call \in [Clients -> CallTypes]
    /\ work \in Workloads
    /\ status \in [Clients -> {"idle", "busy", "ok"}]
    /\ tries \in [Clients -> 0 .. Retries]
    /\ dst \in [Clients -> Seq(Versions)]
    /\ found \in [Clients -> Seq(SUBSET (Keys \X Versions))]
    /\ token \in [Clients -> Keys \cup {0}]
    /\ bucket \in [Keys -> Versions \cup {Absent}]
    /\ late \in [Puts -> Nat] /\ deletes \in 0 .. work.deletes
    /\ puts \in Seq([key : Keys, cond : Versions \cup {Absent, Any}])
    /\ written \subseteq DOMAIN puts
    /\ answers \in Seq({"none", "ok", "refused", "fail"})
    /\ Len(answers) = Len(puts) /\ Len(puts) <= MaxPuts
    /\ \A c \in Clients : Busy(c, "put") => answers[call[c].put] = "none"
    /\ seen \in [Clients -> SUBSET (Keys \X (Versions \cup {Absent}))]

(* A put is an atomic create or compare-and-swap, and tells its caller the *)
(* truth, whatever attempts are lost, repeated or late.                    *)
Promise == INSTANCE AtomicPuts
PutsAreAtomic == Promise!Spec

(* Whether version v of k may be there again after it was replaced: when   *)
(* objects are deleted, a create that is sent twice may bring it back, and *)
(* a put without a condition may at any time; then so may those that are   *)
(* on condition of what it wrote.                                          *)
Unconditional(k) == \E q \in DOMAIN puts : puts[q] = [key |-> k, cond |-> Any]

MayComeBack(k, v) ==
    \/ v = Any
    \/ v # 0 /\ deletes > 0
    \/ v \in Puts /\ Unconditional(k)

(* Of two puts with the same condition on the same key one at most is told *)
(* that it succeeded: nobody's update is overwritten unseen, unless the    *)
(* version that they replace may come back.                                *)
OnlyOneWins ==
    \A p, q \in DOMAIN puts :
        /\ p # q /\ puts[p] = puts[q]
        /\ answers[p] = "ok" /\ answers[q] = "ok"
        => MayComeBack(puts[p].key, puts[p].cond)

(* What head() and read_range() answer is one version's, which the object  *)
(* had during the call: the bytes of two attempts are never mixed, and all *)
(* n of them are there.                                                    *)
AnswersAreCurrent ==
    \A c \in Clients :
        status[c] = "ok" /\ call[c].op \in {"head", "read"} =>
            LET m == IF call[c].op = "head" THEN 1 ELSE call[c].n
            IN  /\ Len(dst[c]) = m
                /\ \A i \in 1 .. m : dst[c][i] = dst[c][1]
                /\ m > 0 => /\ <<call[c].key, dst[c][1]>> \in seen[c]
                            /\ call[c].op = "read" =>
                                   call[c].offset + m <= Length[dst[c][1]]

(* A listing has every key once that was there during the whole call, none *)
(* twice, and none with a version it did not have during the call.         *)
ListsTheBucket ==
    \A c \in Clients :
        status[c] = "ok" /\ call[c].op = "list" =>
            LET pages == DOMAIN found[c]
                entries == UNION {found[c][i] : i \in pages}
            IN  /\ entries \subseteq seen[c]
                /\ \A k \in Keys :
                       /\ <<k, Absent>> \in seen[c] \/ \E v \in Versions : <<k, v>> \in entries
                       /\ \A i, j \in pages, v, w \in Versions :
                              <<k, v>> \in found[c][i] /\ <<k, w>> \in found[c][j]
                                  => i = j /\ v = w

(* Every call returns.                                                     *)
ClientReturns == \A c \in Clients : []<>(status[c] # "busy")
=============================================================================
