------------------------ MODULE DirectoryUploadProofs ------------------------
(***************************************************************************)
(* What holds of put_directory() and s3put for any tree, any sizes and any *)
(* concurrency: the safety properties of DirectoryUpload, and that it      *)
(* implements UploadedDirectory.                                           *)
(***************************************************************************)
EXTENDS DirectoryUpload, FiniteSetTheorems, TLAPS

(* Nothing has been reported, sent or counted.                             *)
Untouched ==
    /\ \A f \in Files : reported[f] = "none" /\ ~object[f]
    /\ late = {} /\ files = 0 /\ failed = 0

Before ==
    step \in {"start", "walk"} =>
        items = <<>> /\ next = 0 /\ ret = "none" /\ exit = NoStatus /\ Untouched

(* The items are the files listed, each once, the largest first; and a     *)
(* file that is there has been listed or skipped, once the walk has passed *)
(* it.                                                                     *)
Listing ==
    /\ \A i \in Items : 0 .. i \subseteq Items
    /\ \A i \in Items : items[i] \in listed
    /\ \A i, j \in Items : items[i] = items[j] => i = j
    /\ Sorted(items)
    /\ step = "pool" => todo = {} /\ \A f \in listed : \E i \in Items : items[i] = f
    /\ \A f \in Files : entry[f] = "file" => f \in todo \cup listed \cup skipped

(* Only listed files are sent and reported, and a success is no lie.       *)
Sent ==
    \A f \in Files :
        /\ f \notin listed => reported[f] = "none" /\ ~object[f] /\ f \notin late
        /\ reported[f] = "ok" => object[f]

(* The pool: every item below the counter has been reported, or is in one  *)
(* worker's hands; those above it have not.  The calling thread goes when  *)
(* there are no more.                                                      *)
Holding(w) == pc[w] \in {"open", "put", "report", "telling"}

Pool ==
    /\ step # "pool" => \A w \in Workers : pc[w] = "out"
    /\ \A w \in Workers : Holding(w) =>
           item[w] \in Items /\ item[w] < next /\ reported[File(w)] = "none"
    /\ \A v, w \in Workers : Holding(v) /\ Holding(w) /\ item[v] = item[w] => v = w
    /\ \A w \in Workers : pc[w] \in {"report", "telling"} /\ ok[w] => object[File(w)]
    /\ \A i \in Items : i >= next => reported[items[i]] = "none"
    /\ step = "pool" =>
           \A i \in Items : i < next =>
               reported[items[i]] # "none" \/ \E w \in Workers : Holding(w) /\ item[w] = i
    /\ step = "pool" /\ pc[1] = "out" => \A i \in Items : i < next

Mutex == \A w \in Workers : pc[w] = "telling" <=> mu = w

(* The statistics are ahead of on_file by the file being told of.          *)
Ahead(r) == IF mu # Free /\ r = (IF ok[mu] THEN "ok" ELSE "fail") THEN 1 ELSE 0

Counts ==
    step # "dead" =>
        files = Count("ok") + Ahead("ok") /\ failed = Count("fail") + Ahead("fail")

(* What has been returned is true, and so it remains.                      *)
Results ==
    /\ step \in {"start", "walk", "pool"} => ret = "none"
    /\ step = "returned" => ret # "none"
    /\ exit # NoStatus => step \in {"exited", "dead"}
    /\ ret = "none" => exit = NoStatus
    /\ ret = "ok" => todo = {} /\ \A f \in listed : reported[f] = "ok"
    /\ ret = "fail" /\ failed = 0 => Untouched
    /\ ret = "fail" /\ failed # 0 =>
           /\ \E f \in listed : reported[f] = "fail"
           /\ \A f \in listed : reported[f] # "none"
    /\ exit = 0 => ret = "ok"
    /\ exit = 1 => ret = "fail" /\ failed # 0
    /\ exit = 2 => ret = "fail" /\ failed = 0

IInv == TypeOK /\ Before /\ Listing /\ Sent /\ Pool /\ Mutex /\ Counts /\ Results

-----------------------------------------------------------------------------
(* Sets of files and their numbers.                                        *)
LEMMA FilesNumber == IsFiniteSet(Files) /\ Cardinality(Files) \in Nat
  BY FilesAssumption, FS_CardinalityType

LEMMA WorkersFit ==
  /\ 1 \in Workers /\ Free \notin Workers /\ Workers \subseteq Nat
  /\ \A n \in Nat : 1 <= Smaller(Larger(Concurrency, 1), Larger(n, 1))
  BY ConcurrencyAssumption DEF Workers, Larger, Smaller, Free

(* The orders of a set of files name each of them once.                    *)
LEMMA OrdersList ==
  ASSUME NEW S \in SUBSET Files, NEW s \in Orders(S)
  PROVE  /\ DOMAIN s \subseteq 0 .. Cardinality(Files) - 1
         /\ \A i \in DOMAIN s : 0 .. i \subseteq DOMAIN s
         /\ \A i \in DOMAIN s : s[i] \in S
         /\ \A i, j \in DOMAIN s : s[i] = s[j] => i = j
         /\ Sorted(s)
         /\ \A f \in S : \E i \in DOMAIN s : s[i] = f
         /\ Cardinality(S) \in Nat
  <1> DEFINE I == 0 .. Cardinality(S) - 1
  <1>1. IsFiniteSet(S) /\ Cardinality(S) \in Nat /\ Cardinality(S) <= Cardinality(Files)
    BY FilesNumber, FS_Subset, FS_CardinalityType
  <1>2. /\ s \in [I -> S] /\ Sorted(s)
        /\ \A i, j \in I : s[i] = s[j] => i = j
    BY DEF Orders
  <1>3. Cardinality(I) = Cardinality(S) /\ IsFiniteSet(I)
    BY <1>1, FS_Interval
  <1>4. s \in Injection(I, S)
    BY <1>2 DEF Injection, IsInjective
  <1>5. s \in Surjection(I, S)
    BY <1>1, <1>3, <1>4, FS_Injection
  <1>6. \A f \in S : \E i \in I : s[i] = f
    BY <1>5 DEF Surjection
  <1> QED BY <1>1, <1>2, <1>6, FilesNumber

(* A file of which nothing has been told can still be counted.             *)
LEMMA CountsFit ==
  ASSUME reported \in [Files -> {"none", "ok", "fail"}]
  PROVE  /\ Count("ok") \in Nat /\ Count("fail") \in Nat
         /\ \A r : IsFiniteSet({f \in Files : reported[f] = r})
         /\ Count("ok") <= Cardinality(Files) /\ Count("fail") <= Cardinality(Files)
         /\ \A g \in Files : reported[g] = "none" =>
              Count("ok") < Cardinality(Files) /\ Count("fail") < Cardinality(Files)
  <1> DEFINE Of(r) == {f \in Files : reported[f] = r}
  <1>1. ASSUME NEW r PROVE /\ IsFiniteSet(Of(r)) /\ Cardinality(Of(r)) \in Nat
                           /\ Cardinality(Of(r)) <= Cardinality(Files)
                           /\ Cardinality(Of(r)) = Cardinality(Files) => Of(r) = Files
    <2>1. Of(r) \in SUBSET Files
      OBVIOUS
    <2> QED BY <2>1, FilesNumber, FS_Subset, FS_CardinalityType
  <1>2. \A g \in Files : reported[g] = "none" => Of("ok") # Files /\ Of("fail") # Files
    OBVIOUS
  <1>3. Count("ok") = Cardinality(Of("ok")) /\ Count("fail") = Cardinality(Of("fail"))
    BY DEF Count
  <1>4. \A r : IsFiniteSet({f \in Files : reported[f] = r})
    BY <1>1
  <1> HIDE DEF Of
  <1>5. /\ Count("ok") \in Nat /\ Count("fail") \in Nat
        /\ Count("ok") <= Cardinality(Files) /\ Count("fail") <= Cardinality(Files)
    BY <1>1, <1>3
  <1>6. \A g \in Files : reported[g] = "none" =>
             Count("ok") # Cardinality(Files) /\ Count("fail") # Cardinality(Files)
    BY <1>1, <1>2, <1>3
  <1>7. \A g \in Files : reported[g] = "none" =>
             Count("ok") < Cardinality(Files) /\ Count("fail") < Cardinality(Files)
    BY <1>5, <1>6, FilesNumber
  <1> QED BY <1>4, <1>5, <1>7, Zenon

LEMMA CountTold ==
  ASSUME reported \in [Files -> {"none", "ok", "fail"}],
         NEW g \in Files, reported[g] = "none", NEW r \in {"ok", "fail"},
         reported' = [reported EXCEPT ![g] = r]
  PROVE  \A q \in {"ok", "fail"} : Count(q)' = IF q = r THEN Count(q) + 1 ELSE Count(q)
  <1> TAKE q \in {"ok", "fail"}
  <1> DEFINE T == {f \in Files : reported[f] = q}
             U == {f \in Files : reported'[f] = q}
  <1>1. IsFiniteSet(T) /\ g \notin T
    BY CountsFit
  <1>2. U = IF q = r THEN T \cup {g} ELSE T
    OBVIOUS
  <1>3. Cardinality(U) = IF q = r THEN Cardinality(T) + 1 ELSE Cardinality(T)
    BY <1>1, <1>2, FS_AddElement
  <1> QED BY <1>3 DEF Count

LEMMA CountNobody ==
  ASSUME \A f \in Files : reported[f] = "none"
  PROVE  Count("ok") = 0 /\ Count("fail") = 0
  <1>1. {f \in Files : reported[f] = "ok"} = {} /\ {f \in Files : reported[f] = "fail"} = {}
    OBVIOUS
  <1> QED BY <1>1, FS_EmptySet DEF Count

LEMMA CountSame ==
  ASSUME reported' = reported
  PROVE  Count("ok")' = Count("ok") /\ Count("fail")' = Count("fail")
  BY DEF Count

LEMMA CountSome ==
  ASSUME reported \in [Files -> {"none", "ok", "fail"}]
  PROVE  /\ Count("ok") = 0 <=> \A f \in Files : reported[f] # "ok"
         /\ Count("fail") = 0 <=> \A f \in Files : reported[f] # "fail"
  <1>1. ASSUME NEW r PROVE Cardinality({f \in Files : reported[f] = r}) = 0
                             <=> \A f \in Files : reported[f] # r
    <2> DEFINE T == {f \in Files : reported[f] = r}
    <2>1. IsFiniteSet(T)
      BY CountsFit
    <2>2. Cardinality(T) = 0 <=> T = {}
      BY <2>1, FS_EmptySet
    <2> QED BY <2>2
  <1> QED BY <1>1 DEF Count

-----------------------------------------------------------------------------
LEMMA InitInvariant == Init => IInv
  <1> SUFFICES ASSUME Init PROVE IInv
    OBVIOUS
  <1>1. TypeOK
    BY FilesNumber DEF Init, TypeOK, Steps, Pcs, Items, Free, NoStatus
  <1>2. Before /\ Results /\ Sent
    BY DEF Init, Before, Results, Sent, Untouched, NoStatus
  <1>3. Listing
    BY DEF Init, Listing, Items, Sorted
  <1>4. Pool /\ Mutex
    BY WorkersFit DEF Init, Pool, Mutex, Holding, Items
  <1>5. Counts
    BY CountNobody DEF Init, Counts, Ahead
  <1> QED BY <1>1, <1>2, <1>3, <1>4, <1>5 DEF IInv

-----------------------------------------------------------------------------
(* The steps of the caller.                                                *)
LEMMA StartStep == ASSUME IInv, Start PROVE IInv'
  <1>1. TypeOK' /\ Before' /\ Results'
    BY DEF IInv, TypeOK, Before, Results, Untouched, Start, Steps, Items, walk, workers,
           stats, outside
  <1>2. Listing' /\ Sent' /\ Mutex' /\ Pool'
    BY DEF IInv, Listing, Sorted, Sent, Mutex, Pool, Holding, File, Start, Items, walk, workers,
           stats, outside
  <1>3. Counts'
    BY CountSame DEF IInv, Counts, Ahead, Start, stats, workers
  <1> QED BY <1>1, <1>2, <1>3 DEF IInv

(* put_directory() fails before the pool: nothing has been touched.        *)
LEMMA RefuseStep == ASSUME IInv, Refuse \/ WalkFails PROVE IInv'
  <1>1. /\ step \in {"start", "walk"} /\ Return("fail")
        /\ UNCHANGED <<walk, next, workers, stats, outside>>
    BY DEF Refuse, WalkFails
  <1>2. TypeOK' /\ Before'
    BY <1>1 DEF IInv, TypeOK, Before, Untouched, Return, Steps, Items, walk, workers, stats, outside
  <1>3. Results'
    BY <1>1 DEF IInv, TypeOK, Before, Results, Untouched, Return, Steps, walk, workers, stats, outside,
             NoStatus
  <1>4. Listing' /\ Sent' /\ Mutex' /\ Pool'
    BY <1>1 DEF IInv, Listing, Sorted, Sent, Mutex, Pool, Holding, File, Return, Items, walk,
             workers, stats, outside
  <1>5. Counts'
    BY <1>1, CountSame DEF IInv, Counts, Ahead, Return, stats, workers
  <1> QED BY <1>2, <1>3, <1>4, <1>5 DEF IInv

LEMMA WalkStep ==
  ASSUME IInv, NEW f \in Files, WalkEntry(f) \/ WalkUntellable(f)
  PROVE  IInv'
  <1>1. TypeOK' /\ Before' /\ Results'
    BY DEF IInv, TypeOK, Before, Results, Untouched, WalkEntry, WalkUntellable, Steps, Items, caller, workers,
           stats, outside
  <1>2. Listing' /\ Sent'
    BY DEF IInv, TypeOK, Before, Listing, Sorted, Sent, WalkEntry, WalkUntellable, Items, caller, stats, outside
  <1>3. Mutex' /\ Pool'
    BY DEF IInv, Mutex, Pool, Holding, File, WalkEntry, WalkUntellable, Items, caller, workers,
           stats, outside
  <1>4. Counts'
    BY CountSame DEF IInv, Counts, Ahead, WalkEntry, WalkUntellable, stats, workers, caller
  <1> QED BY <1>1, <1>2, <1>3, <1>4 DEF IInv

LEMMA StartPoolStep == ASSUME IInv, StartPool PROVE IInv'
  <1>1. /\ DOMAIN items' \subseteq 0 .. Cardinality(Files) - 1
        /\ \A i \in DOMAIN items' : 0 .. i \subseteq DOMAIN items'
        /\ \A i \in DOMAIN items' : items'[i] \in listed
        /\ \A i, j \in DOMAIN items' : items'[i] = items'[j] => i = j
        /\ Sorted(items')
        /\ \A f \in listed : \E i \in DOMAIN items' : items'[i] = f
        /\ Cardinality(listed) \in Nat
    BY OrdersList DEF StartPool, IInv, TypeOK
  <1>2. /\ pc' \in [Workers -> {"claim", "out"}]
        /\ pc'[1] = "claim"
    BY <1>1, WorkersFit DEF StartPool
  <1>3. step = "walk" /\ next = 0 /\ ret = "none" /\ Untouched
    BY DEF StartPool, IInv, Before
  <1>4. TypeOK'
    BY <1>1, <1>2 DEF IInv, TypeOK, StartPool, Steps, Pcs, Items, stats, outside
  <1>5. Before' /\ Results'
    BY <1>3 DEF IInv, Before, Results, StartPool, Untouched, stats, outside
  <1>6. Listing' /\ Sent'
    BY <1>1 DEF IInv, Listing, Sorted, Sent, StartPool, Items, stats, outside
  <1>7. Pool'
    BY <1>1, <1>2, <1>3 DEF IInv, TypeOK, Pool, Holding, StartPool, Untouched, Items, stats
  <1>8. Mutex'
    BY <1>2, <1>3 DEF IInv, Mutex, Pool, StartPool, stats
  <1>9. Counts'
    BY CountSame DEF IInv, Counts, Ahead, StartPool, stats
  <1> QED BY <1>4, <1>5, <1>6, <1>7, <1>8, <1>9 DEF IInv

LEMMA JoinStep == ASSUME IInv, Join PROVE IInv'
  <1>1. TypeOK' /\ Before'
    BY DEF IInv, TypeOK, Before, Join, Return, Steps, Items, walk, workers, stats, outside
  <1>2. Listing' /\ Sent' /\ Mutex' /\ Pool'
    BY DEF IInv, Listing, Sorted, Sent, Mutex, Pool, Holding, File, Join, Return, Items, walk,
             workers, stats, outside
  <1>3. Counts'
    BY CountSame DEF IInv, Counts, Ahead, Join, Return, stats, workers
  <1>4. \A f \in listed : reported[f] # "none"
    BY WorkersFit DEF IInv, Listing, Pool, Holding, Join
  <1>5. mu = Free
    BY DEF IInv, TypeOK, Mutex, Join
  <1>6. failed = Count("fail")
    BY <1>5, CountsFit DEF IInv, TypeOK, Counts, Ahead, Join
  <1>7. failed = 0 <=> \A f \in Files : reported[f] # "fail"
    BY <1>6, CountSome DEF IInv, TypeOK
  <1>8. failed # 0 => \E f \in listed : reported[f] = "fail"
    BY <1>7 DEF IInv, Sent
  <1>9. Results'
    BY <1>4, <1>7, <1>8 DEF IInv, TypeOK, Results, Listing, Join, Return, NoStatus, walk,
                            stats, outside
  <1> QED BY <1>1, <1>2, <1>3, <1>9 DEF IInv

LEMMA ExitStep == ASSUME IInv, Exit PROVE IInv'
  <1>1. TypeOK' /\ Before'
    BY DEF IInv, TypeOK, Before, Exit, Steps, Items, walk, workers, stats, outside
  <1>2. Results'
    BY DEF IInv, TypeOK, Results, Untouched, Exit, NoStatus, walk, stats, outside
  <1>3. Listing' /\ Sent' /\ Mutex' /\ Pool'
    BY DEF IInv, Listing, Sorted, Sent, Mutex, Pool, Holding, File, Exit, Items, walk,
             workers, stats, outside
  <1>4. Counts'
    BY CountSame DEF IInv, Counts, Ahead, Exit, stats, workers
  <1> QED BY <1>1, <1>2, <1>3, <1>4 DEF IInv

-----------------------------------------------------------------------------
(* The steps of a worker: the pool is at work, and nothing has returned.   *)
LEMMA Working ==
  ASSUME IInv, NEW w \in Workers, pc[w] # "out"
  PROVE  /\ step = "pool" /\ ret = "none" /\ exit = NoStatus
         /\ Holding(w) => /\ item[w] \in Items /\ File(w) \in Files /\ File(w) \in listed
                          /\ reported[File(w)] = "none"
  BY DEF IInv, TypeOK, Pool, Results, Listing, File

LEMMA ClaimStep == ASSUME IInv, NEW w \in Workers, Claim(w) PROVE IInv'
  <1>1. step = "pool" /\ ret = "none" /\ exit = NoStatus
    BY Working DEF Claim
  <1>2. TypeOK' /\ Before' /\ Results'
    BY <1>1 DEF IInv, TypeOK, Before, Results, Untouched, Claim, Steps, Pcs, Items, caller, walk,
             stats, outside
  <1>3. Listing' /\ Sent' /\ Mutex'
    BY DEF IInv, TypeOK, Listing, Sorted, Sent, Mutex, Claim, Items, caller, walk, stats, outside
  <1>4. Pool'
    <2>1. /\ \A v \in Workers : Holding(v)' =>
                item'[v] \in Items /\ item'[v] < next' /\ reported[items[item'[v]]] = "none"
          /\ \A v \in Workers : Holding(v)' /\ v # w => Holding(v) /\ item'[v] = item[v]
          /\ Holding(w)' => item'[w] = next
          /\ next \in Items => Holding(w)'
          /\ Holding(w) = FALSE
      BY DEF IInv, TypeOK, Pool, Holding, File, Claim
    <2>2. \A u, v \in Workers : Holding(u)' /\ Holding(v)' /\ item'[u] = item'[v] => u = v
      BY <2>1 DEF IInv, TypeOK, Pool
    <2>3. \A i \in Items : i < next' =>
             reported[items[i]] # "none" \/ \E v \in Workers : Holding(v)' /\ item'[v] = i
      <3>1. ASSUME NEW i \in Items, i < next', reported[items[i]] = "none"
            PROVE  \E v \in Workers : Holding(v)' /\ item'[v] = i
        <4>1. CASE i = next
          BY <2>1, <3>1, <4>1
        <4>2. CASE i < next
          <5>1. PICK v \in Workers : Holding(v) /\ item[v] = i
            BY <1>1, <3>1, <4>2 DEF IInv, Pool
          <5>2. v # w /\ Holding(v)' /\ item'[v] = item[v]
            BY <2>1, <5>1 DEF IInv, TypeOK, Holding, Claim
          <5> QED BY <5>1, <5>2
        <4> QED BY <3>1, <4>1, <4>2 DEF IInv, TypeOK, Items, Claim
      <3> QED BY <3>1
    <2>4. \A v \in Workers : pc'[v] \in {"report", "telling"} /\ ok[v] => object[items[item'[v]]]
      BY DEF IInv, TypeOK, Pool, File, Claim
    <2>5. /\ \A i \in Items : i >= next' => reported[items[i]] = "none"
          /\ pc'[1] = "out" => \A i \in Items : i < next'
      <3>1. next \in Nat /\ next' = next + 1 /\ \A i \in Items : i \in Nat
        BY FilesNumber DEF IInv, TypeOK, Claim
      <3>2. next \notin Items => \A i \in Items : i < next
        BY <3>1 DEF IInv, Listing
      <3>3. pc'[1] = "out" => pc[1] = "out" \/ next \notin Items
        BY WorkersFit DEF IInv, TypeOK, Claim
      <3>4. pc[1] = "out" => \A i \in Items : i < next
        BY <1>1 DEF IInv, Pool
      <3>5. \A i \in Items : i >= next => reported[items[i]] = "none"
        BY DEF IInv, Pool
      <3> QED BY <3>1, <3>2, <3>3, <3>4, <3>5
    <2>6. UNCHANGED <<step, reported, items, object, ok>>
      BY DEF Claim, caller, walk, stats, outside
    <2> QED BY <1>1, <2>1, <2>2, <2>3, <2>4, <2>5, <2>6 DEF Pool, File, Items
  <1>5. Counts'
    BY CountSame DEF IInv, Counts, Ahead, Claim, stats, caller
  <1> QED BY <1>2, <1>3, <1>4, <1>5 DEF IInv

(* put_file() is under way.                                                *)
LEMMA PutStep ==
  ASSUME IInv, NEW w \in Workers, PutOpen(w) \/ PutRefused(w) \/ PutOk(w) \/ PutFail(w)
  PROVE  IInv'
  <1>1. /\ Holding(w) /\ pc[w] \in {"open", "put"}
        /\ pc' = [pc EXCEPT ![w] = pc'[w]] /\ pc'[w] \in {"put", "report"}
        /\ \A v \in Workers : Holding(v)' <=> Holding(v)
        /\ UNCHANGED <<caller, walk, next, item, stats, entry>>
    BY DEF IInv, TypeOK, PutOpen, PutRefused, PutOk, PutFail, Holding, outside
  <1>2. /\ step = "pool" /\ ret = "none" /\ exit = NoStatus
        /\ File(w) \in Files /\ File(w) \in listed
    BY <1>1, Working
  <1>3. /\ object' \in [Files -> BOOLEAN] /\ late' \subseteq Files
        /\ \A f \in Files : object[f] => object'[f]
        /\ \A f \in Files \ {File(w)} : object'[f] = object[f] /\ (f \in late' <=> f \in late)
    BY <1>2 DEF IInv, TypeOK, PutOpen, PutRefused, PutOk, PutFail, outside
  <1>4. /\ ok' \in [Workers -> BOOLEAN]
        /\ \A v \in Workers \ {w} : ok'[v] = ok[v]
        /\ pc'[w] = "report" /\ ok'[w] => object'[File(w)]
    BY <1>2 DEF IInv, TypeOK, PutOpen, PutRefused, PutOk, PutFail
  <1>5. TypeOK' /\ Before'
    <2>1. pc' \in [Workers -> Pcs]
      BY <1>1 DEF IInv, TypeOK, Pcs
    <2> QED BY <1>1, <1>2, <1>3, <1>4, <2>1 DEF IInv, TypeOK, Before, Items, caller, walk, stats
  <1>6. Results'
    BY <1>1, <1>2 DEF IInv, Results, caller, walk, stats, NoStatus
  <1>7. Listing' /\ Sent'
    BY <1>1, <1>2, <1>3 DEF IInv, Listing, Sorted, Sent, Items, caller, walk, stats
  <1>8. Mutex'
    BY <1>1 DEF IInv, TypeOK, Mutex, stats
  <1>9. Pool'
    <2>1. \A v \in Workers : pc'[v] \in {"report", "telling"} /\ ok'[v] => object'[File(v)]
      <3>1. ASSUME NEW v \in Workers, v # w, pc'[v] \in {"report", "telling"}, ok'[v]
            PROVE  object'[File(v)]
        <4>1. object[File(v)] /\ File(v) \in Files
          BY <1>1, <1>4, <3>1, Working DEF IInv, TypeOK, Pool, Holding
        <4> QED BY <1>3, <4>1
      <3> QED BY <1>1, <1>4, <3>1
    <2>2. UNCHANGED <<step, items, next, item, reported>>
      BY <1>1 DEF caller, walk, stats
    <2>3. pc'[1] = "out" => pc[1] = "out"
      BY <1>1, WorkersFit DEF IInv, TypeOK
    <2> QED BY <1>1, <1>2, <2>1, <2>2, <2>3 DEF IInv, Pool, File, Items
  <1>10. Counts'
    <2>1. mu # Free => mu \in Workers /\ mu # w
      BY <1>1 DEF IInv, TypeOK, Mutex
    <2> QED BY <1>1, <1>4, <2>1, CountSame DEF IInv, Counts, Ahead, stats, caller
  <1> QED BY <1>5, <1>6, <1>7, <1>8, <1>9, <1>10 DEF IInv

LEMMA ReportStep == ASSUME IInv, NEW w \in Workers, Report(w) PROVE IInv'
  <1>1. /\ step = "pool" /\ ret = "none" /\ exit = NoStatus
        /\ Holding(w) /\ File(w) \in Files /\ reported[File(w)] = "none"
    BY Working DEF Report, Holding
  <1>2. files = Count("ok") /\ failed = Count("fail")
    BY <1>1, CountsFit DEF IInv, TypeOK, Counts, Ahead, Report
  <1>3. /\ files \in Nat /\ files < Cardinality(Files)
        /\ failed \in Nat /\ failed < Cardinality(Files)
    BY <1>1, <1>2, CountsFit DEF IInv, TypeOK
  <1>4. TypeOK' /\ Before'
    BY <1>1, <1>3, FilesNumber DEF IInv, TypeOK, Before, Report, Steps, Pcs, Items, caller, walk, outside
  <1>5. Results'
    BY <1>1 DEF IInv, Results, Report, caller, walk, NoStatus
  <1>6. Listing' /\ Sent' /\ Mutex'
    BY <1>1, WorkersFit DEF IInv, TypeOK, Listing, Sorted, Sent, Mutex, Report, Items, caller, walk, outside
  <1>7. Pool'
    BY <1>1 DEF IInv, TypeOK, Pool, Holding, File, Report, Items, caller, walk, outside
  <1>8. Counts'
    <2>1. Ahead("ok")' = (IF ok[w] THEN 1 ELSE 0) /\ Ahead("fail")' = (IF ok[w] THEN 0 ELSE 1)
      BY WorkersFit DEF IInv, TypeOK, Report, Ahead
    <2>2. Count("ok")' = Count("ok") /\ Count("fail")' = Count("fail")
      BY CountSame DEF Report
    <2>3. /\ files' = IF ok[w] THEN files + 1 ELSE files
          /\ failed' = IF ok[w] THEN failed ELSE failed + 1
      BY DEF Report
    <2> QED BY <1>2, <1>3, <2>1, <2>2, <2>3 DEF Counts
  <1> QED BY <1>4, <1>5, <1>6, <1>7, <1>8 DEF IInv

LEMMA TellStep == ASSUME IInv, NEW w \in Workers, Tell(w) PROVE IInv'
  <1> DEFINE r == IF ok[w] THEN "ok" ELSE "fail"
  <1>1. /\ step = "pool" /\ ret = "none" /\ exit = NoStatus
        /\ Holding(w) /\ File(w) \in Files /\ File(w) \in listed
        /\ item[w] \in Items /\ reported[File(w)] = "none"
    BY Working DEF Tell, Holding
  <1>2. reported' = [reported EXCEPT ![File(w)] = r] /\ r \in {"ok", "fail"}
    BY DEF Tell, Told
  <1>3. TypeOK' /\ Before'
    BY <1>1, <1>2 DEF IInv, TypeOK, Before, Tell, Steps, Pcs, Items, caller, walk, outside
  <1>4. Results'
    BY <1>1 DEF IInv, Results, Tell, caller, walk, NoStatus
  <1>5. Listing'
    BY DEF IInv, Listing, Sorted, Tell, Items, caller, walk, outside
  <1>6. Sent'
    BY <1>1, <1>2 DEF IInv, TypeOK, Sent, Pool, Tell, caller, walk, outside
  <1>7. Mutex'
    BY WorkersFit DEF IInv, TypeOK, Mutex, Tell
  <1>8. Pool'
    <2>1. \A v \in Workers : Holding(v)' =>
             v # w /\ Holding(v) /\ item'[v] = item[v] /\ pc'[v] = pc[v] /\ ok'[v] = ok[v]
      BY DEF IInv, TypeOK, Holding, Tell
    <2>2. \A i \in Items : reported'[items[i]] =
             IF i = item[w] THEN r ELSE reported[items[i]]
      BY <1>1, <1>2 DEF IInv, TypeOK, Listing, File
    <2>3. \A v \in Workers : Holding(v)' => reported'[items[item'[v]]] = "none"
      BY <1>1, <2>1, <2>2 DEF IInv, Pool, File
    <2>4. \A i \in Items : i < next =>
             reported'[items[i]] # "none" \/ \E v \in Workers : Holding(v)' /\ item'[v] = i
      <3>1. ASSUME NEW i \in Items, i < next, i # item[w], reported[items[i]] = "none"
            PROVE  \E v \in Workers : Holding(v)' /\ item'[v] = i
        <4>1. PICK v \in Workers : Holding(v) /\ item[v] = i
          BY <1>1, <3>1 DEF IInv, Pool
        <4> QED BY <3>1, <4>1 DEF IInv, TypeOK, Holding, Tell
      <3> QED BY <2>2, <3>1
    <2>5. \A i \in Items : i >= next => reported'[items[i]] = "none"
      BY <1>1, <2>2, FilesNumber DEF IInv, TypeOK, Pool
    <2>6. pc'[1] = "out" => \A i \in Items : i < next
      BY <1>1, WorkersFit DEF IInv, TypeOK, Pool, Tell
    <2>7. UNCHANGED <<step, items, next, object>>
      BY DEF Tell, caller, walk, outside
    <2>8. \A v \in Workers : pc'[v] \in {"report", "telling"} /\ ok'[v] => object[items[item'[v]]]
      BY <2>1 DEF IInv, Pool, Holding, File
    <2>9. /\ \A v \in Workers : Holding(v)' => item'[v] \in Items /\ item'[v] < next
          /\ \A u, v \in Workers : Holding(u)' /\ Holding(v)' /\ item'[u] = item'[v] => u = v
      BY <2>1 DEF IInv, Pool
    <2> QED BY <1>1, <2>3, <2>4, <2>5, <2>6, <2>7, <2>8, <2>9 DEF Pool, File, Items
  <1>9. Counts'
    <2>1. mu = w
      BY DEF IInv, Mutex, Tell
    <2>2. /\ Ahead("ok") = (IF ok[w] THEN 1 ELSE 0) /\ Ahead("fail") = (IF ok[w] THEN 0 ELSE 1)
          /\ Ahead("ok")' = 0 /\ Ahead("fail")' = 0
      BY <2>1, WorkersFit DEF IInv, TypeOK, Tell, Ahead
    <2>3. /\ Count("ok")' = IF r = "ok" THEN Count("ok") + 1 ELSE Count("ok")
          /\ Count("fail")' = IF r = "fail" THEN Count("fail") + 1 ELSE Count("fail")
      BY <1>1, <1>2, CountTold DEF IInv, TypeOK
    <2>4. files = Count("ok") + Ahead("ok") /\ failed = Count("fail") + Ahead("fail")
      BY <1>1 DEF IInv, Counts
    <2>5. files' = files /\ failed' = failed /\ Count("ok") \in Nat /\ Count("fail") \in Nat
      BY CountsFit DEF IInv, TypeOK, Tell
    <2>6. /\ Count("ok")' = Count("ok") + Ahead("ok")
          /\ Count("fail")' = Count("fail") + Ahead("fail")
      BY <2>2, <2>3, <2>5
    <2> QED BY <2>2, <2>4, <2>5, <2>6 DEF Counts
  <1> QED BY <1>3, <1>4, <1>5, <1>6, <1>7, <1>8, <1>9 DEF IInv

-----------------------------------------------------------------------------
(* The steps of the environment.                                           *)
LEMMA RemoveStep == ASSUME IInv, NEW f \in Files, Remove(f) PROVE IInv'
  <1>1. TypeOK' /\ Before' /\ Results'
    BY DEF IInv, TypeOK, Before, Results, Untouched, Remove, Items, caller, walk, workers, stats
  <1>2. Listing' /\ Sent' /\ Mutex' /\ Pool'
    BY DEF IInv, TypeOK, Listing, Sorted, Sent, Mutex, Pool, Holding, File, Remove, Items, caller, walk,
           workers, stats
  <1>3. Counts'
    BY CountSame DEF IInv, Counts, Ahead, Remove, stats, workers, caller
  <1> QED BY <1>1, <1>2, <1>3 DEF IInv

LEMMA ArriveStep == ASSUME IInv, NEW f \in Files, Arrive(f) PROVE IInv'
  <1>1. TypeOK' /\ Before' /\ Results'
    BY DEF IInv, TypeOK, Before, Results, Untouched, Arrive, Items, caller, walk, workers, stats
  <1>2. Listing' /\ Sent' /\ Mutex'
    BY DEF IInv, TypeOK, Listing, Sorted, Sent, Mutex, Arrive, Items, caller, walk, workers, stats
  <1>3. Pool'
    <2>1. \A g \in Files : object[g] => object'[g]
      BY DEF IInv, TypeOK, Arrive
    <2>2. \A w \in Workers : Holding(w) => File(w) \in Files
      BY DEF IInv, TypeOK, Pool, File
    <2>3. UNCHANGED <<step, items, next, pc, item, ok, reported>>
      BY DEF Arrive, caller, walk, workers, stats
    <2> QED BY <2>1, <2>2, <2>3 DEF IInv, Pool, Holding, File, Items
  <1>4. Counts'
    BY CountSame DEF IInv, Counts, Ahead, Arrive, stats, workers, caller
  <1> QED BY <1>1, <1>2, <1>3, <1>4 DEF IInv

LEMMA CrashStep == ASSUME IInv, Crash PROVE IInv'
  <1>1. PICK W \in SUBSET {w \in Workers : pc[w] = "put"} :
           late' = late \cup {File(w) : w \in W}
    BY DEF Crash
  <1>2. \A w \in W : File(w) \in Files /\ File(w) \in listed /\ step = "pool"
    BY Working DEF Holding
  <1>3. \A f \in late' : f \in Files /\ (f \in late \/ (f \in listed /\ step = "pool"))
    BY <1>1, <1>2 DEF IInv, TypeOK
  <1>4. TypeOK' /\ Before'
    BY <1>3 DEF IInv, TypeOK, Before, Crash, Steps, Pcs, Items, walk
  <1>5. Results'
    <2>1. step # "pool" => late' = late
      BY <1>1, <1>2
    <2> QED BY <2>1 DEF IInv, Results, Untouched, Crash, walk, NoStatus
  <1>6. Listing' /\ Sent'
    BY <1>3 DEF IInv, Listing, Sorted, Sent, Crash, Items, walk
  <1>7. Mutex' /\ Pool'
    BY WorkersFit DEF IInv, Mutex, Pool, Holding, Crash, Items, walk
  <1>8. Counts'
    BY DEF Counts, Crash
  <1> QED BY <1>4, <1>5, <1>6, <1>7, <1>8 DEF IInv

-----------------------------------------------------------------------------
LEMMA NextInvariant == IInv /\ [Next]_vars => IInv'
  <1> SUFFICES ASSUME IInv, [Next]_vars PROVE IInv'
    OBVIOUS
  <1>1. CASE UNCHANGED vars
    <2>1. TypeOK' /\ Before' /\ Listing' /\ Sent' /\ Results' /\ Mutex' /\ Pool'
      BY <1>1 DEF IInv, TypeOK, Before, Untouched, Listing, Sorted, Sent, Results, Mutex, Pool,
                  Holding, File, Items, vars, caller, walk, workers, stats, outside
    <2>2. Counts'
      BY <1>1, CountSame DEF IInv, Counts, Ahead, vars, caller, workers, stats
    <2> QED BY <2>1, <2>2 DEF IInv
  <1>2. CASE Caller
    BY <1>2, StartStep, RefuseStep, WalkStep, StartPoolStep, JoinStep, ExitStep DEF Caller
  <1>3. ASSUME NEW w \in Workers, Work(w) PROVE IInv'
    BY <1>3, ClaimStep, PutStep, ReportStep, TellStep DEF Work
  <1>4. ASSUME NEW f \in Files, Remove(f) \/ Arrive(f) PROVE IInv'
    BY <1>4, RemoveStep, ArriveStep
  <1> QED BY <1>1, <1>2, <1>3, <1>4, CrashStep DEF Next

LEMMA Invariant == Spec => []IInv
  BY InitInvariant, NextInvariant, PTL DEF Spec

(* The variables keep their types: among others, no file is counted twice. *)
THEOREM TypeCorrect == Spec => []TypeOK
  <1>1. IInv => TypeOK
    BY DEF IInv
  <1> QED BY <1>1, Invariant, PTL

(* on_file is never called by two workers at a time, and between the calls *)
(* the statistics say what it was told, for any tree and concurrency.      *)
THEOREM ReportsNeverOverlap == Spec => []ReportsAreSerial
  <1>1. IInv => ReportsAreSerial
    <2> SUFFICES ASSUME IInv PROVE ReportsAreSerial
      OBVIOUS
    <2>1. \A v, w \in Workers : pc[v] = "telling" /\ pc[w] = "telling" => v = w
      BY DEF IInv, Mutex
    <2>2. ASSUME step # "dead", \A w \in Workers : pc[w] # "telling"
          PROVE  files = Count("ok") /\ failed = Count("fail")
      <3>1. mu = Free
        BY <2>2 DEF IInv, TypeOK, Mutex
      <3> QED BY <2>2, <3>1, CountsFit DEF IInv, TypeOK, Counts, Ahead
    <2> QED BY <2>1, <2>2 DEF ReportsAreSerial
  <1> QED BY <1>1, Invariant, PTL

(* Nobody has begun with a file while a larger one is waiting.             *)
THEOREM LargestAreFirst == Spec => []LargestFirst
  <1>1. IInv => LargestFirst
    <2> SUFFICES ASSUME IInv, NEW i \in Items, NEW j \in Items,
                        Size[items[j]] > Size[items[i]], i < next
                 PROVE  j < next
      BY DEF LargestFirst
    <2>1. i \in Nat /\ j \in Nat /\ next \in Nat
      BY FilesNumber DEF IInv, TypeOK
    <2>2. Size[items[i]] \in Nat /\ Size[items[j]] \in Nat
      BY FilesAssumption DEF IInv, TypeOK
    <2>3. ~(i < j)
      BY <2>2 DEF IInv, Listing, Sorted, Items
    <2> QED BY <2>1, <2>3
  <1> QED BY <1>1, Invariant, PTL

(* s3put's exit status is 0 only when every file was uploaded, those apart *)
(* that were passed over because their type could not be told; 1 when all  *)
(* listed were attempted and one failed; and 2 only when nothing was sent. *)
THEOREM ExitStatusIsTrue == Spec => []ExitTellsTheTruth
  <1>1. IInv => ExitTellsTheTruth
    BY DEF IInv, TypeOK, Results, Untouched, Listing, Sent, ExitTellsTheTruth
  <1> QED BY <1>1, Invariant, PTL

(* Every file is attempted and reported once, with the truth about it, and *)
(* put_directory() returns what the reports amount to: it implements       *)
(* UploadedDirectory.                                                      *)
THEOREM DirectoriesAreUploaded == Spec => UploadsTheDirectory
  <1>1. Init => Promise!Init
    BY DEF Init, Promise!Init
  <1>2. IInv /\ [Next]_vars => [Promise!Next]_Promise!vars
    <2> SUFFICES ASSUME IInv, [Next]_vars PROVE [Promise!Next]_Promise!vars
      OBVIOUS
    <2>1. CASE UNCHANGED vars
      BY <2>1 DEF vars, caller, walk, workers, stats, outside, Promise!vars
    <2>2. CASE Start \/ StartPool \/ Exit
      BY <2>2 DEF Start, StartPool, Exit, caller, walk, workers, stats, outside, Promise!vars
    <2>3. CASE Refuse \/ WalkFails
      <3>1. Promise!Unlistable
        BY <2>3 DEF IInv, Before, Untouched, Refuse, WalkFails, Return, walk, stats, outside,
                    Promise!Unlistable, Promise!Untold
      <3> QED BY <3>1 DEF Promise!Next
    <2>4. ASSUME NEW f \in Files, WalkEntry(f) \/ WalkUntellable(f)
          PROVE [Promise!Next]_Promise!vars
      <3>1. Promise!List(f) \/ UNCHANGED Promise!vars
        BY <2>4 DEF IInv, Before, Untouched, WalkEntry, WalkUntellable, caller, stats,
                    outside, Promise!List, Promise!Untold, Promise!vars
      <3> QED BY <3>1 DEF Promise!Next
    <2>5. CASE Join
      <3>1. \A f \in listed : reported[f] # "none"
        BY <2>5, WorkersFit DEF IInv, Listing, Pool, Holding, Join
      <3>2. mu = Free
        BY <2>5 DEF IInv, TypeOK, Mutex, Join
      <3>3. failed = Count("fail")
        BY <2>5, <3>2, CountsFit DEF IInv, TypeOK, Counts, Ahead, Join
      <3>4. failed # 0 <=> \E f \in listed : reported[f] = "fail"
        BY <3>3, CountSome DEF IInv, TypeOK, Sent
      <3>5. Promise!Return
        BY <2>5, <3>1, <3>4 DEF IInv, Results, Join, Return, walk, stats, outside, Promise!Return
      <3> QED BY <3>5 DEF Promise!Next
    <2>6. ASSUME NEW w \in Workers, Claim(w) \/ PutOpen(w) \/ PutRefused(w) \/ Report(w)
          PROVE  [Promise!Next]_Promise!vars
      BY <2>6 DEF Claim, PutOpen, PutRefused, Report, caller, walk, stats, outside, Promise!vars
    <2>7. ASSUME NEW w \in Workers, PutOk(w) \/ PutFail(w)
          PROVE  [Promise!Next]_Promise!vars
      <3>1. File(w) \in listed /\ File(w) \in Files
        BY <2>7, Working DEF PutOk, PutFail, Holding
      <3>2. Promise!Appear(File(w)) \/ UNCHANGED Promise!vars
        BY <2>7, <3>1 DEF PutOk, PutFail, caller, walk, stats, Promise!Appear, Promise!vars
      <3> QED BY <3>1, <3>2 DEF Promise!Next
    <2>8. ASSUME NEW w \in Workers, Tell(w) PROVE [Promise!Next]_Promise!vars
      <3>1. /\ ret = "none" /\ File(w) \in listed /\ File(w) \in Files
            /\ reported[File(w)] = "none"
        BY <2>8, Working DEF Tell, Holding
      <3>2. ok[w] => object[File(w)]
        BY <2>8 DEF IInv, Pool, Tell
      <3>3. Promise!Report(File(w))
        BY <2>8, <3>1, <3>2 DEF Tell, Told, caller, walk, outside, Promise!Report
      <3> QED BY <3>1, <3>3 DEF Promise!Next
    <2>9. ASSUME NEW f \in Files, Remove(f) \/ Arrive(f) PROVE [Promise!Next]_Promise!vars
      <3>1. Promise!Appear(f) \/ UNCHANGED Promise!vars
        BY <2>9 DEF IInv, Sent, Remove, Arrive, caller, walk, stats, Promise!Appear, Promise!vars
      <3> QED BY <3>1 DEF Promise!Next
    <2>10. CASE Crash
      BY <2>10 DEF Crash, walk, Promise!vars
    <2> QED BY <2>1, <2>2, <2>3, <2>4, <2>5, <2>6, <2>7, <2>8, <2>9, <2>10
            DEF Next, Caller, Work
  <1> QED BY <1>1, <1>2, Invariant, PTL DEF Spec, UploadsTheDirectory, Promise!Spec
=============================================================================
