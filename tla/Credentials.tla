---------------------------- MODULE Credentials -----------------------------
(***************************************************************************)
(* class CredentialProvider of src/s3_reader.cpp: the credentials that all *)
(* streams of a factory, or all requests of a client, share.  get() holds  *)
(* a mutex from its first line to its last, the questions to the sources   *)
(* included; time goes by while it does, and sources come and go.          *)
(*                                                                         *)
(* Credentials are told apart by when they expire.  resolve() asks the     *)
(* sources of a chain in order: the environment, the profile's keys, its   *)
(* credential_process, the ECS endpoint, the EC2 instance role.  A source  *)
(* that is not configured is one that has nothing to offer.                *)
(***************************************************************************)
EXTENDS Integers, Sequences

CONSTANTS
    Threads,        \* the threads that call the provider
    NoThread,       \* the holder of a mutex nobody holds
    Chain,          \* the sources, in order
    Temporary,      \* those whose credentials expire
    Margin,         \* how long before they expire credentials are refreshed
    Backoff,        \* how long get() waits after a failure
    MaxLife,        \* bound: the life of credentials when they are handed out
    MaxTime         \* bound: the clock

Sources == {Chain[i] : i \in 1 .. Len(Chain)}

ASSUME ThreadsAssumption == NoThread \notin Threads
ASSUME ChainAssumption == Chain \in Seq(Sources) /\ Temporary \subseteq Sources
ASSUME TimesAssumption ==
    Margin \in Nat /\ Backoff \in Nat /\ MaxLife \in Nat /\ MaxTime \in Nat

None == -2          \* credentials that are not valid()
Static == -1        \* valid, with no expiry
Never == -1         \* a time that has not been

VARIABLES
    mu,             \* mutex_
    pc,             \* where each thread is
    asking,         \* the place in the chain it has come to; past the end of it
                    \* when this call's resolution found nothing, 0 without one
    result,         \* what its get() returned
    cached,         \* cached_
    attempted,      \* attempted_
    lastAttempt,    \* last_attempt_
    diagnosed,      \* diagnostic_ is not empty
    \* external:
    clock,          \* the time
    up,             \* the sources that have credentials to offer
    \* history:
    steady          \* those that have had some ever since the resolution under
                    \* way began

provider == <<cached, attempted, lastAttempt, diagnosed>>
threads  == <<mu, pc, asking, result>>
world    == <<clock, up, steady>>
vars     == <<threads, provider, world>>

Init ==
    /\ mu = NoThread
    /\ pc = [t \in Threads |-> "idle"]
    /\ asking = [t \in Threads |-> 0]
    /\ result = [t \in Threads |-> None]
    /\ cached = None /\ attempted = FALSE /\ lastAttempt = Never
    /\ diagnosed = FALSE
    /\ clock = 0 /\ up \in SUBSET Sources /\ steady = {}

Expires(c) == c \notin {None, Static}

-----------------------------------------------------------------------------
Call(t) ==
    /\ pc[t] = "idle"
    /\ pc' = [pc EXCEPT ![t] = "get"]
    /\ asking' = [asking EXCEPT ![t] = 0]
    /\ result' = [result EXCEPT ![t] = None]
    /\ UNCHANGED <<mu, provider, world>>

(* The cached credentials will do: they do not expire within the margin.   *)
Usable == cached # None /\ (Expires(cached) => clock < cached - Margin)

(* "Don't hammer IMDS when there are simply no creds": too soon after the  *)
(* last resolution began.                                                  *)
BackingOff == cached = None /\ attempted /\ clock < lastAttempt + Backoff

GetCached(t) ==
    /\ pc[t] = "get" /\ mu = NoThread
    /\ Usable \/ BackingOff
    /\ result' = [result EXCEPT ![t] = cached]
    /\ pc' = [pc EXCEPT ![t] = "got"]
    /\ UNCHANGED <<mu, asking, provider, world>>

(* Variants, here and below, are what a slip in the code would do; they    *)
(* are no part of the specification.                                       *)
(* Variant: the lock is not held while the sources are asked.              *)
ResolveUnlocked(t) ==
    /\ pc[t] = "get" /\ mu = NoThread
    /\ ~Usable /\ ~BackingOff
    /\ attempted' = TRUE /\ lastAttempt' = clock
    /\ pc' = [pc EXCEPT ![t] = "resolve"]
    /\ asking' = [asking EXCEPT ![t] = 1]
    /\ steady' = up
    /\ UNCHANGED <<mu, result, cached, diagnosed, clock, up>>

Resolve(t) ==
    /\ pc[t] = "get" /\ mu = NoThread
    /\ ~Usable /\ ~BackingOff
    /\ mu' = t
    /\ attempted' = TRUE /\ lastAttempt' = clock
    /\ pc' = [pc EXCEPT ![t] = "resolve"]
    /\ asking' = [asking EXCEPT ![t] = 1]
    /\ steady' = up
    /\ UNCHANGED <<result, cached, diagnosed, clock, up>>

(* What a source offers.  It is taken when it is valid(), which looks at   *)
(* the keys alone: credentials that have expired are taken like any other. *)
Offers(s) == {Static} \cup IF s \in Temporary THEN 0 .. clock + MaxLife ELSE {}

(* The first source with credentials: they are cached and returned.        *)
Found(t) ==
    /\ pc[t] = "resolve" /\ asking[t] <= Len(Chain)
    /\ Chain[asking[t]] \in up
    /\ cached' \in Offers(Chain[asking[t]])
    /\ diagnosed' = FALSE
    /\ result' = [result EXCEPT ![t] = cached']
    /\ pc' = [pc EXCEPT ![t] = "got"]
    /\ mu' = NoThread
    /\ steady' = {}
    /\ UNCHANGED <<asking, attempted, lastAttempt, clock, up>>

(* Variant: the chain begins again at its end.                             *)
NothingThereAgain(t) ==
    /\ pc[t] = "resolve"
    /\ Chain[asking[t]] \notin up
    /\ asking' = [asking EXCEPT ![t] = IF @ = Len(Chain) THEN 1 ELSE @ + 1]
    /\ UNCHANGED <<mu, pc, result, provider, world>>

(* Variant: after a source without credentials the chain is given up.      *)
NothingThereAtAll(t) ==
    /\ pc[t] = "resolve" /\ asking[t] <= Len(Chain)
    /\ Chain[asking[t]] \notin up
    /\ asking' = [asking EXCEPT ![t] = Len(Chain) + 1]
    /\ UNCHANGED <<mu, pc, result, provider, world>>

(* Nothing there: the next one is asked.                                   *)
NothingThere(t) ==
    /\ pc[t] = "resolve" /\ asking[t] <= Len(Chain)
    /\ Chain[asking[t]] \notin up
    /\ asking' = [asking EXCEPT ![t] = @ + 1]
    /\ UNCHANGED <<mu, pc, result, provider, world>>

(* Variant: what resolve() filled is cached whether it found any or not.   *)
NotFoundCached(t) ==
    /\ pc[t] = "resolve" /\ asking[t] > Len(Chain)
    /\ cached' = None
    /\ diagnosed' = TRUE
    /\ result' = [result EXCEPT ![t] = None]
    /\ pc' = [pc EXCEPT ![t] = "got"]
    /\ mu' = NoThread
    /\ steady' = {}
    /\ UNCHANGED <<asking, attempted, lastAttempt, clock, up>>

(* Variant: nobody notes why.                                              *)
NotFoundSilent(t) ==
    /\ pc[t] = "resolve" /\ asking[t] > Len(Chain)
    /\ result' = [result EXCEPT ![t] = cached]
    /\ pc' = [pc EXCEPT ![t] = "got"]
    /\ mu' = NoThread
    /\ steady' = {}
    /\ UNCHANGED <<asking, cached, attempted, lastAttempt, diagnosed, clock, up>>

(* No source had any: why is noted, and the cached ones are returned,      *)
(* whatever they are worth.                                                *)
NotFound(t) ==
    /\ pc[t] = "resolve" /\ asking[t] > Len(Chain)
    /\ diagnosed' = TRUE
    /\ result' = [result EXCEPT ![t] = cached]
    /\ pc' = [pc EXCEPT ![t] = "got"]
    /\ mu' = NoThread
    /\ steady' = {}
    /\ UNCHANGED <<asking, cached, attempted, lastAttempt, clock, up>>

(* The caller has what it wanted, or asks diagnostic() why it has not.     *)
Done(t) ==
    /\ pc[t] = "got"
    /\ result[t] = None => mu = NoThread
    /\ pc' = [pc EXCEPT ![t] = "idle"]
    /\ asking' = [asking EXCEPT ![t] = 0]
    /\ result' = [result EXCEPT ![t] = None]
    /\ UNCHANGED <<mu, provider, world>>

Get(t) == GetCached(t) \/ Resolve(t)
Ask(t) == Found(t) \/ NothingThere(t) \/ NotFound(t)

-----------------------------------------------------------------------------
Tick ==
    /\ clock < MaxTime
    /\ clock' = clock + 1
    /\ UNCHANGED <<threads, provider, up, steady>>

Change ==
    /\ up' \in SUBSET Sources
    /\ steady' = steady \cap up'
    /\ UNCHANGED <<threads, provider, clock>>

Next ==
    \/ \E t \in Threads : Call(t) \/ Get(t) \/ Ask(t) \/ Done(t)
    \/ Tick \/ Change

Spec == Init /\ [][Next]_vars

(* A source answers or is given up (the metadata time-outs; a              *)
(* credential_process has none, and is taken to end), and a thread that    *)
(* waits for the mutex gets it in the end.                                 *)
FairSpec ==
    Spec /\ \A t \in Threads : SF_vars(Get(t)) /\ WF_vars(Ask(t))

-----------------------------------------------------------------------------
Validity == {None, Static} \cup Nat

(* The variables have their types; a thread resolves with the mutex.       *)
TypeOK ==
    /\ mu \in Threads \cup {NoThread}
    /\ pc \in [Threads -> {"idle", "get", "resolve", "got"}]
    /\ asking \in [Threads -> 0 .. Len(Chain) + 1]
    /\ result \in [Threads -> Validity]
    /\ cached \in Validity
    /\ attempted \in BOOLEAN
    /\ lastAttempt \in Nat \cup {Never}
    /\ diagnosed \in BOOLEAN
    /\ clock \in Nat
    /\ up \subseteq Sources
    /\ steady \subseteq Sources
    /\ \A t \in Threads : pc[t] = "resolve" <=> mu = t

Returns(t) == pc[t] # "got" /\ pc'[t] = "got"
Expired(c) == Expires(c) /\ c <= clock

(* get() returns none, or expired ones, only when it has asked in this     *)
(* very call and has passed over no source that had credentials all the    *)
(* while: every source before the one that handed them out, or every one   *)
(* of the chain, was without at some moment of the call.  It returns none  *)
(* without asking only just after a resolution that found none.            *)
PassesNoneOver ==
    [][\A t \in Threads :
           Returns(t) /\ (result'[t] = None \/ Expired(result'[t])) =>
               \/ pc[t] = "get" /\ result'[t] = None /\ BackingOff
               \/ /\ pc[t] = "resolve"
                  /\ \A i \in 1 .. Len(Chain) : i < asking[t] => Chain[i] \notin steady]_vars

(* "Temporary credentials are refreshed before they expire" (README.md):   *)
(* get() returns expired ones only when no source that this call has not   *)
(* asked has any.  A source that hands out expired ones breaks it: they    *)
(* are taken, and those after it in the chain are not asked.               *)
ExpiredAreTheLastResort ==
    [][\A t \in Threads :
           Returns(t) /\ Expired(result'[t]) =>
               \A i \in 1 .. Len(Chain) : i > asking'[t] => Chain[i] \notin up]_vars

(* A refresh that fails leaves the credentials there are: they may be good *)
(* for minutes, and a source that stutters must not cost them.             *)
KeepsWhatItHas == [][cached # None => cached' # None]_vars

(* "when no credentials are found, the error names every source it tried   *)
(* and why" (README.md): a caller that got none, from its own resolution   *)
(* or because another's had failed just before, can learn why unless some  *)
(* have been found since.                                                  *)
FailureIsExplained ==
    \A t \in Threads :
        pc[t] = "got" /\ result[t] = None => diagnosed \/ cached # None

(* Every get() returns.                                                    *)
GetReturns == \A t \in Threads : pc[t] \in {"get", "resolve"} ~> pc[t] = "got"
=============================================================================
