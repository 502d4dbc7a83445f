------------------------------- MODULE Failover -------------------------------
(***************************************************************************)
(* The chain of providers and their circuit breakers                       *)
(* (src/src/llm/failover.py) under requests that overlap.                  *)
(*                                                                         *)
(* A request takes the chain of available providers once and tries them in *)
(* order; between the await of a provider and its answer other requests    *)
(* move the breakers.  Providers are numbered in the order of the chain.   *)
(***************************************************************************)
EXTENDS Integers, FiniteSets

CONSTANTS
  Requests,       \* what may be in flight at once; each is made again and again
  NProviders,     \* slots of the gateway
  Threshold       \* failure_threshold

ASSUME FailoverConstants ==
  /\ NProviders \in Nat \ {0} /\ Threshold \in Nat \ {0}
  /\ IsFiniteSet(Requests)

Providers == 1..NProviders

VARIABLES
  state,      \* CircuitBreaker._state
  failures,   \* _failure_count; it is only compared with the threshold, and stops there
  cooled,     \* recovery_timeout has passed since _last_failure_time
  phase,      \* where a request is
  chain,      \* the providers a request has still to try, the current one included
  healthy,    \* the world: whether a provider answers
  late        \* the requests whose call has seen its provider not answer

vars == <<state, failures, cooled, phase, chain, healthy, late>>
breakers == <<state, failures, cooled>>

Init ==
  /\ state = [p \in Providers |-> "closed"]
  /\ failures = [p \in Providers |-> 0]
  /\ cooled = [p \in Providers |-> TRUE]
  /\ phase = [r \in Requests |-> "idle"]
  /\ chain = [r \in Requests |-> {}]
  /\ healthy \in [Providers -> BOOLEAN]
  /\ late = {}

-----------------------------------------------------------------------------
(* CircuitBreaker *)

CanAttempt(p) == state[p] = "open" => cooled[p]

\* can_attempt also starts the half open state.
Attempted(p) == IF state[p] = "open" /\ CanAttempt(p) THEN "half_open" ELSE state[p]

\* Mutant of RecordSuccess: a success clears the count of a closed breaker only.
RecordSuccessClosed(p) ==
  /\ failures' = [failures EXCEPT ![p] = IF state[p] = "closed" THEN 0 ELSE @]
  /\ UNCHANGED <<state, cooled>>

\* Mutant of RecordSuccess: the count survives the recovery.
RecordSuccessKeeps(p) ==
  /\ state' = [state EXCEPT ![p] = "closed"]
  /\ UNCHANGED <<failures, cooled>>

RecordSuccess(p) ==
  /\ failures' = [failures EXCEPT ![p] = 0]
  /\ state' = [state EXCEPT ![p] = "closed"]
  /\ UNCHANGED cooled

Counted(p) == IF failures[p] < Threshold THEN failures[p] + 1 ELSE Threshold

RecordFailure(p) ==
  /\ failures' = [failures EXCEPT ![p] = Counted(p)]
  /\ cooled' = [cooled EXCEPT ![p] = FALSE]
  /\ state' = [state EXCEPT ![p] =
                 IF @ = "half_open" \/ Counted(p) >= Threshold THEN "open" ELSE @]

\* The clock reaches _last_failure_time + recovery_timeout.
Cool(p) ==
  /\ ~cooled[p]
  /\ cooled' = [cooled EXCEPT ![p] = TRUE]
  /\ UNCHANGED <<state, failures, phase, chain, healthy, late>>

-----------------------------------------------------------------------------
(* Requests *)

Calling(r, p) == phase[r] = "calling" /\ p \in chain[r] /\ \A q \in chain[r] : p <= q

\* The request goes on to the first provider of C.
Call(r, C) ==
  /\ chain' = [chain EXCEPT ![r] = C]
  /\ late' = IF \E p \in C : ~healthy[p] /\ \A q \in C : p <= q
               THEN late \cup {r} ELSE late \ {r}

\* A request is over.  Its fields go back to those of the next one.
Over(r) ==
  /\ phase' = [phase EXCEPT ![r] = "idle"]
  /\ Call(r, {})

\* call_with_failover and stream_with_failover up to the first await.  Without an
\* available provider the request fails here.
Begin(r) ==
  /\ phase[r] = "idle"
  /\ LET available == {p \in Providers : CanAttempt(p)}
     IN /\ Call(r, available)
        /\ phase' = [phase EXCEPT ![r] = IF available = {} THEN "idle" ELSE "calling"]
  /\ state' = [p \in Providers |-> Attempted(p)]
  /\ UNCHANGED <<failures, cooled, healthy>>

\* The provider answers; a stream goes on after its first chunk.
Succeed(r) ==
  /\ \E p \in Providers : Calling(r, p) /\ healthy[p] /\ RecordSuccess(p)
  /\ \/ Over(r)
     \/ /\ phase' = [phase EXCEPT ![r] = "streaming"]
        /\ Call(r, {})
  /\ UNCHANGED healthy

\* A retryable error, which may come when the provider answers others again: the
\* next provider of the chain, or LLMAllProvidersFailedError.
Fail(r) ==
  /\ \E p \in Providers :
       /\ Calling(r, p) /\ r \in late
       /\ RecordFailure(p)
       /\ IF chain[r] = {p} THEN Over(r)
            ELSE /\ Call(r, chain[r] \ {p})
                 /\ UNCHANGED phase
  /\ UNCHANGED healthy

\* An error that is not retryable, a failure of the usage storage, a request that
\* is cancelled, or the end of a stream, be it an error or not: no breaker hears of it.
Leave(r) ==
  /\ phase[r] \in {"calling", "streaming"}
  /\ Over(r)
  /\ UNCHANGED <<breakers, healthy>>

\* A provider breaks down or comes back.
Turn(p) ==
  /\ healthy' = [healthy EXCEPT ![p] = ~@]
  /\ late' = IF healthy[p] THEN late \cup {r \in Requests : Calling(r, p)} ELSE late
  /\ UNCHANGED <<breakers, phase, chain>>

Next ==
  \/ \E r \in Requests : Begin(r) \/ Succeed(r) \/ Fail(r) \/ Leave(r)
  \/ \E p \in Providers : Cool(p) \/ Turn(p)

Spec == Init /\ [][Next]_vars

\* Users keep asking, time goes by, calls end, and not all of them are given up
\* before a provider that works has answered.
Fairness ==
  /\ \A r \in Requests : /\ WF_vars(Begin(r))
                         /\ SF_vars(Succeed(r))
                         /\ WF_vars(Fail(r))
                         /\ WF_vars(Leave(r) /\ phase[r] = "streaming")
  /\ \A p \in Providers : WF_vars(Cool(p))

FairSpec == Spec /\ Fairness

-----------------------------------------------------------------------------
(* Properties *)

\* Types of the breakers and of the requests.
TypeOK ==
  /\ state \in [Providers -> {"closed", "open", "half_open"}]
  /\ failures \in [Providers -> 0..Threshold]
  /\ cooled \in [Providers -> BOOLEAN]
  /\ phase \in [Requests -> {"idle", "calling", "streaming"}]
  /\ chain \in [Requests -> SUBSET Providers]
  /\ healthy \in [Providers -> BOOLEAN]
  /\ late \subseteq Requests

\* A breaker is closed exactly while fewer failures than the threshold were seen
\* since the last success, whatever answers of overlapping requests come late:
\* no success leaves a half reset breaker, no failure is forgotten.
TrippedByFailures ==
  \A p \in Providers : state[p] = "closed" <=> failures[p] < Threshold

\* A primary that answers again is used again: its breaker closes and stays so.
PrimaryRecovers == <>[]healthy[1] => <>[](state[1] = "closed")

=============================================================================
