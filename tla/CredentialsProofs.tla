------------------------- MODULE CredentialsProofs --------------------------
(***************************************************************************)
(* What holds of the credential provider for any threads, any chain of     *)
(* sources and any times: types, that a failure is explained, that a       *)
(* refresh loses nothing and that no source is passed over.                *)
(***************************************************************************)
EXTENDS Credentials, TLAPS

(* When nobody is asking, a provider that has tried has credentials or     *)
(* knows why it has none: what makes FailureIsExplained inductive, as a    *)
(* call that backs off returns at once on the strength of an earlier one.  *)
TriedAndTold == attempted /\ mu = NoThread => diagnosed \/ cached # None

(* The sources before the place a resolution has come to have each been    *)
(* without credentials since it began.                                     *)
PassedWereEmpty ==
    /\ steady \subseteq up
    /\ \A t \in Threads : pc[t] = "resolve" =>
           \A i \in 1 .. Len(Chain) : i < asking[t] => Chain[i] \notin steady

IInv == TypeOK /\ TriedAndTold /\ FailureIsExplained /\ PassedWereEmpty

LEMMA LengthOfChain == Len(Chain) \in Nat
  BY ChainAssumption

(* What is taken from a source is valid, though it may have expired.       *)
LEMMA OffersAreValid ==
  ASSUME clock \in Nat, NEW s, NEW c \in Offers(s)
  PROVE  c \in Validity /\ c # None
  <1>1. CASE c = Static
    BY <1>1 DEF Validity, None, Static
  <1>2. CASE c \in 0 .. clock + MaxLife
    BY <1>2, TimesAssumption DEF Validity, None
  <1> QED BY <1>1, <1>2 DEF Offers

LEMMA InitInvariant == Init => IInv
  <1> SUFFICES ASSUME Init PROVE IInv
    OBVIOUS
  <1>1. TypeOK
    <2>1. \A t \in Threads : pc[t] = "resolve" <=> mu = t
      BY ThreadsAssumption DEF Init
    <2>2. asking \in [Threads -> 0 .. Len(Chain) + 1]
      BY LengthOfChain DEF Init
    <2>3. up \subseteq Sources /\ steady \subseteq Sources
      BY DEF Init
    <2>4. result \in [Threads -> Validity] /\ cached \in Validity
      BY DEF Init, Validity
    <2>5. pc \in [Threads -> {"idle", "get", "resolve", "got"}]
      BY DEF Init
    <2>6. /\ mu \in Threads \cup {NoThread}
          /\ attempted \in BOOLEAN /\ diagnosed \in BOOLEAN
          /\ lastAttempt \in Nat \cup {Never}
          /\ clock \in Nat
      BY DEF Init
    <2> QED BY <2>1, <2>2, <2>3, <2>4, <2>5, <2>6 DEF TypeOK
  <1> QED BY <1>1 DEF Init, IInv, TriedAndTold, FailureIsExplained, PassedWereEmpty

LEMMA TypeStep ==
  ASSUME TypeOK, [Next]_vars PROVE TypeOK'
  <1> USE LengthOfChain, ThreadsAssumption DEF TypeOK
  <1>1. ASSUME NEW t \in Threads, Call(t) PROVE TypeOK'
    BY <1>1 DEF Call, provider, world, Validity
  <1>2. ASSUME NEW t \in Threads, GetCached(t) PROVE TypeOK'
    BY <1>2 DEF GetCached, provider, world
  <1>3. ASSUME NEW t \in Threads, Resolve(t) PROVE TypeOK'
    BY <1>3 DEF Resolve, world
  <1>4. ASSUME NEW t \in Threads, Found(t) PROVE TypeOK'
    <2>1. cached' \in Validity
      BY <1>4, OffersAreValid DEF Found
    <2> QED BY <1>4, <2>1 DEF Found, world
  <1>5. ASSUME NEW t \in Threads, NothingThere(t) PROVE TypeOK'
    BY <1>5 DEF NothingThere, provider, world
  <1>6. ASSUME NEW t \in Threads, NotFound(t) PROVE TypeOK'
    BY <1>6 DEF NotFound, world
  <1>7. ASSUME NEW t \in Threads, Done(t) PROVE TypeOK'
    BY <1>7 DEF Done, provider, world, Validity
  <1>8. CASE Tick
    BY <1>8 DEF Tick, threads, provider
  <1>9. CASE Change
    BY <1>9 DEF Change, threads, provider
  <1>10. CASE UNCHANGED vars
    BY <1>10 DEF vars, threads, provider, world
  <1> QED BY <1>1, <1>2, <1>3, <1>4, <1>5, <1>6, <1>7, <1>8, <1>9, <1>10
          DEF Next, Get, Ask

LEMMA ExplainedStep ==
  ASSUME IInv, [Next]_vars PROVE TriedAndTold' /\ FailureIsExplained'
  <1> USE ThreadsAssumption DEF IInv, TypeOK, TriedAndTold, FailureIsExplained
  <1>1. ASSUME NEW t \in Threads, Call(t) PROVE TriedAndTold' /\ FailureIsExplained'
    BY <1>1 DEF Call, provider
  <1>2. ASSUME NEW t \in Threads, GetCached(t) PROVE TriedAndTold' /\ FailureIsExplained'
    BY <1>2 DEF GetCached, provider, Usable, BackingOff
  <1>3. ASSUME NEW t \in Threads, Resolve(t) PROVE TriedAndTold' /\ FailureIsExplained'
    BY <1>3 DEF Resolve
  <1>4. ASSUME NEW t \in Threads, Found(t) PROVE TriedAndTold' /\ FailureIsExplained'
    <2>1. cached' # None
      BY <1>4, OffersAreValid DEF Found
    <2> QED BY <2>1
  <1>5. ASSUME NEW t \in Threads, NothingThere(t)
        PROVE  TriedAndTold' /\ FailureIsExplained'
    BY <1>5 DEF NothingThere, provider
  <1>6. ASSUME NEW t \in Threads, NotFound(t) PROVE TriedAndTold' /\ FailureIsExplained'
    BY <1>6 DEF NotFound
  <1>7. ASSUME NEW t \in Threads, Done(t) PROVE TriedAndTold' /\ FailureIsExplained'
    BY <1>7 DEF Done, provider
  <1>8. CASE Tick \/ Change \/ UNCHANGED vars
    BY <1>8 DEF Tick, Change, vars, threads, provider
  <1> QED BY <1>1, <1>2, <1>3, <1>4, <1>5, <1>6, <1>7, <1>8 DEF Next, Get, Ask

LEMMA PassedStep ==
  ASSUME IInv, [Next]_vars PROVE PassedWereEmpty'
  <1> USE ThreadsAssumption, LengthOfChain DEF IInv, TypeOK, PassedWereEmpty
  <1>1. ASSUME NEW t \in Threads, Call(t) PROVE PassedWereEmpty'
    BY <1>1 DEF Call, world
  <1>2. ASSUME NEW t \in Threads, GetCached(t) PROVE PassedWereEmpty'
    BY <1>2 DEF GetCached, world
  <1>3. ASSUME NEW t \in Threads, Resolve(t) PROVE PassedWereEmpty'
    BY <1>3 DEF Resolve
  <1>4. ASSUME NEW t \in Threads, Found(t) \/ NotFound(t) PROVE PassedWereEmpty'
    BY <1>4 DEF Found, NotFound
  <1>5. ASSUME NEW t \in Threads, NothingThere(t) PROVE PassedWereEmpty'
    <2>1. steady' = steady /\ up' = up /\ pc' = pc /\ Chain[asking[t]] \notin steady
      BY <1>5 DEF NothingThere, world
    <2>2. ASSUME NEW u \in Threads, pc[u] = "resolve",
                 NEW i \in 1 .. Len(Chain), i < asking'[u]
          PROVE  Chain[i] \notin steady
      <3>1. u = t
        BY <1>5, <2>2 DEF NothingThere
      <3>2. i < asking[t] \/ i = asking[t]
        BY <1>5, <2>2, <3>1 DEF NothingThere
      <3> QED BY <2>1, <2>2, <3>1, <3>2
    <2> QED BY <2>1, <2>2
  <1>6. ASSUME NEW t \in Threads, Done(t) PROVE PassedWereEmpty'
    BY <1>6 DEF Done, world
  <1>7. CASE Tick \/ Change \/ UNCHANGED vars
    BY <1>7 DEF Tick, Change, vars, threads, world
  <1> QED BY <1>1, <1>2, <1>3, <1>4, <1>5, <1>6, <1>7 DEF Next, Get, Ask

LEMMA Invariant == Spec => []IInv
  <1>1. IInv /\ [Next]_vars => IInv'
    BY TypeStep, ExplainedStep, PassedStep DEF IInv
  <1> QED BY InitInvariant, <1>1, PTL DEF Spec

(* Types are kept, and a thread asks the sources exactly while it holds    *)
(* the mutex.                                                              *)
THEOREM TypeCorrect == Spec => []TypeOK
  BY Invariant, PTL DEF IInv

(* A caller that got no credentials can learn why, unless some have been   *)
(* found since.                                                            *)
THEOREM FailuresAreExplained == Spec => []FailureIsExplained
  BY Invariant, PTL DEF IInv

(* A refresh never loses the credentials there are.                        *)
THEOREM CredentialsAreKept == Spec => KeepsWhatItHas
  <1>1. TypeOK /\ [Next]_vars => [cached # None => cached' # None]_vars
    <2> SUFFICES ASSUME TypeOK, Next, cached # None PROVE cached' # None
      OBVIOUS
    <2>1. ASSUME NEW t \in Threads, Found(t) PROVE cached' # None
      BY <2>1, OffersAreValid DEF Found, TypeOK
    <2> QED BY <2>1 DEF Next, Call, Get, GetCached, Resolve, Ask, NothingThere, NotFound,
                        Done, Tick, Change, provider
  <1> QED BY TypeCorrect, <1>1, PTL DEF Spec, KeepsWhatItHas

(* get() returns none or expired ones only when it has asked and passed    *)
(* over no source that had credentials all the while, or just after a      *)
(* resolution that found none.                                             *)
THEOREM NoSourceIsPassedOver == Spec => PassesNoneOver
  <1> DEFINE NoneOver ==
        \A t \in Threads :
            Returns(t) /\ (result'[t] = None \/ Expired(result'[t])) =>
                \/ pc[t] = "get" /\ result'[t] = None /\ BackingOff
                \/ /\ pc[t] = "resolve"
                   /\ \A i \in 1 .. Len(Chain) : i < asking[t] => Chain[i] \notin steady
  <1>1. IInv /\ [Next]_vars => [NoneOver]_vars
    <2> SUFFICES ASSUME IInv, Next, NEW t \in Threads, Returns(t),
                        result'[t] = None \/ Expired(result'[t])
                 PROVE  \/ pc[t] = "get" /\ result'[t] = None /\ BackingOff
                        \/ /\ pc[t] = "resolve"
                           /\ \A i \in 1 .. Len(Chain) :
                                  i < asking[t] => Chain[i] \notin steady
      OBVIOUS
    <2> USE DEF IInv, TypeOK, Returns
    <2>1. PICK u \in Threads : GetCached(u) \/ Found(u) \/ NotFound(u)
      BY DEF Next, Call, Get, Resolve, Ask, NothingThere, Done, Tick, Change, threads
    <2>2. u = t
      BY <2>1 DEF GetCached, Found, NotFound
    <2>3. CASE GetCached(u)
      <3>1. pc[t] = "get" /\ result'[t] = cached
        BY <2>2, <2>3 DEF GetCached
      <3>2. CASE BackingOff
        BY <3>1, <3>2 DEF BackingOff
      <3>3. CASE Usable
        <4>1. cached # None /\ Expires(cached) /\ cached <= clock
          BY <3>1, <3>3 DEF Usable, Expired
        <4>2. cached \in Nat /\ clock < cached - Margin
          BY <3>3, <4>1 DEF Usable, Expires, Validity
        <4> QED BY <4>1, <4>2, TimesAssumption
      <3> QED BY <2>3, <3>2, <3>3 DEF GetCached
    <2>4. CASE Found(u) \/ NotFound(u)
      BY <2>2, <2>4 DEF Found, NotFound, PassedWereEmpty
    <2> QED BY <2>1, <2>3, <2>4
  <1> QED BY Invariant, <1>1, PTL DEF Spec, PassesNoneOver
=============================================================================
