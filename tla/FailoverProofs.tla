---------------------------- MODULE FailoverProofs ----------------------------
(***************************************************************************)
(* Proofs about the circuit breakers, for any number of requests and of    *)
(* providers and any threshold.                                            *)
(***************************************************************************)
EXTENDS Failover, TLAPS

\* The breakers alone: their types, and that their state tells whether the
\* threshold is reached.  Nothing of the requests is needed: whichever of them
\* reports, and however late, the transitions keep the two fields in step.
BreakerInv ==
  /\ state \in [Providers -> {"closed", "open", "half_open"}]
  /\ failures \in [Providers -> 0..Threshold]
  /\ cooled \in [Providers -> BOOLEAN]
  /\ TrippedByFailures

-----------------------------------------------------------------------------
(* What one call of a breaker preserves *)

LEMMA AttemptKeeps ==
  ASSUME BreakerInv, state' = [p \in Providers |-> Attempted(p)],
         UNCHANGED <<failures, cooled>>
  PROVE  BreakerInv'
<1>1. \A p \in Providers :
        /\ Attempted(p) \in {"closed", "open", "half_open"}
        /\ Attempted(p) = "closed" <=> state[p] = "closed"
  BY DEF BreakerInv, Attempted
<1>2. state' \in [Providers -> {"closed", "open", "half_open"}]
  BY <1>1
<1>3. TrippedByFailures'
  BY <1>1 DEF BreakerInv, TrippedByFailures
<1>4. QED
  BY <1>2, <1>3 DEF BreakerInv

LEMMA SuccessKeeps ==
  ASSUME BreakerInv, NEW p \in Providers, RecordSuccess(p)
  PROVE  BreakerInv'
<1>1. /\ state' \in [Providers -> {"closed", "open", "half_open"}]
      /\ failures' \in [Providers -> 0..Threshold]
      /\ cooled' \in [Providers -> BOOLEAN]
  BY FailoverConstants DEF BreakerInv, RecordSuccess
<1>2. TrippedByFailures'
  BY FailoverConstants DEF BreakerInv, RecordSuccess, TrippedByFailures
<1>3. QED
  BY <1>1, <1>2 DEF BreakerInv

LEMMA FailureKeeps ==
  ASSUME BreakerInv, NEW p \in Providers, RecordFailure(p)
  PROVE  BreakerInv'
<1>1. /\ Counted(p) \in 0..Threshold
      /\ Counted(p) >= Threshold <=> failures[p] >= Threshold - 1
  BY FailoverConstants DEF BreakerInv, Counted
<1>2. /\ state' \in [Providers -> {"closed", "open", "half_open"}]
      /\ failures' \in [Providers -> 0..Threshold]
      /\ cooled' \in [Providers -> BOOLEAN]
  BY <1>1 DEF BreakerInv, RecordFailure
<1>3. ASSUME NEW q \in Providers
      PROVE  state'[q] = "closed" <=> failures'[q] < Threshold
  <2>1. CASE q # p
    BY <2>1, <1>2 DEF BreakerInv, RecordFailure, TrippedByFailures
  <2>2. CASE q = p
    <3>1. failures'[p] = Counted(p)
      BY DEF BreakerInv, RecordFailure
    <3>2. state'[p] = IF state[p] = "half_open" \/ Counted(p) >= Threshold
                        THEN "open" ELSE state[p]
      BY DEF BreakerInv, RecordFailure
    <3>3. state[p] = "closed" <=> failures[p] < Threshold
      BY DEF BreakerInv, TrippedByFailures
    <3>4. failures[p] \in 0..Threshold
      BY DEF BreakerInv
    <3>5. QED
      BY <1>1, <2>2, <3>1, <3>2, <3>3, <3>4, FailoverConstants
           DEF BreakerInv, Counted
  <2>3. QED
    BY <2>1, <2>2
<1>4. QED
  BY <1>2, <1>3 DEF BreakerInv, TrippedByFailures

-----------------------------------------------------------------------------
(* The invariants *)

LEMMA BreakerInit == Init => BreakerInv
BY FailoverConstants DEF Init, BreakerInv, TrippedByFailures

LEMMA BreakerNext == BreakerInv /\ [Next]_vars => BreakerInv'
<1> SUFFICES ASSUME BreakerInv, [Next]_vars
             PROVE  BreakerInv'
  OBVIOUS
<1>1. ASSUME NEW r \in Requests, Begin(r)
      PROVE  BreakerInv'
  BY <1>1, AttemptKeeps DEF Begin
<1>2. ASSUME NEW r \in Requests, Succeed(r)
      PROVE  BreakerInv'
  BY <1>2, SuccessKeeps DEF Succeed
<1>3. ASSUME NEW r \in Requests, Fail(r)
      PROVE  BreakerInv'
  BY <1>3, FailureKeeps DEF Fail
<1>4. ASSUME NEW r \in Requests, Leave(r)
      PROVE  BreakerInv'
  BY <1>4 DEF Leave, breakers, BreakerInv, TrippedByFailures
<1>5. ASSUME NEW p \in Providers, Cool(p)
      PROVE  BreakerInv'
  BY <1>5 DEF Cool, BreakerInv, TrippedByFailures
<1>6. ASSUME NEW p \in Providers, Turn(p)
      PROVE  BreakerInv'
  BY <1>6 DEF Turn, breakers, BreakerInv, TrippedByFailures
<1>7. CASE UNCHANGED vars
  BY <1>7 DEF vars, BreakerInv, TrippedByFailures
<1>8. QED
  BY <1>1, <1>2, <1>3, <1>4, <1>5, <1>6, <1>7 DEF Next

\* A breaker is closed exactly while fewer failures than the threshold were seen
\* since the last success (record_success and record_failure of CircuitBreaker),
\* for any number of overlapping requests, of providers and any threshold.
THEOREM BreakerCorrect == Spec => []TrippedByFailures
<1>1. BreakerInv => TrippedByFailures
  BY DEF BreakerInv
<1>2. QED
  BY <1>1, BreakerInit, BreakerNext, PTL DEF Spec

-----------------------------------------------------------------------------
(* Types *)

\* What Call does to the chains and to the calls that met their provider down.
LEMMA CallTyped ==
  ASSUME chain \in [Requests -> SUBSET Providers], late \subseteq Requests,
         NEW r \in Requests, NEW C \in SUBSET Providers, Call(r, C)
  PROVE  chain' \in [Requests -> SUBSET Providers] /\ late' \subseteq Requests
BY DEF Call

\* The fields of the breakers and of the requests keep their types: the count of
\* failures stays within the threshold and a chain names providers only, for any
\* number of overlapping requests.
THEOREM TypeCorrect == Spec => []TypeOK
<1>1. Init => TypeOK
  BY FailoverConstants DEF Init, TypeOK
<1>2. TypeOK /\ BreakerInv /\ BreakerInv' /\ [Next]_vars => TypeOK'
  <2> SUFFICES ASSUME TypeOK, BreakerInv', [Next]_vars
               PROVE  TypeOK'
    OBVIOUS
  <2>1. /\ state' \in [Providers -> {"closed", "open", "half_open"}]
        /\ failures' \in [Providers -> 0..Threshold]
        /\ cooled' \in [Providers -> BOOLEAN]
    BY DEF BreakerInv
  <2> DEFINE Rest == /\ phase \in [Requests -> {"idle", "calling", "streaming"}]
                     /\ chain \in [Requests -> SUBSET Providers]
                     /\ healthy \in [Providers -> BOOLEAN]
                     /\ late \subseteq Requests
  <2>2. Rest
    BY DEF TypeOK
  <2>3. ASSUME NEW r \in Requests, Over(r), UNCHANGED healthy
        PROVE  Rest'
    BY <2>2, <2>3, CallTyped DEF Over
  <2>4. ASSUME NEW r \in Requests, Begin(r)
        PROVE  Rest'
    <3>1. {p \in Providers : CanAttempt(p)} \in SUBSET Providers
      OBVIOUS
    <3>2. Call(r, {p \in Providers : CanAttempt(p)})
      BY <2>4 DEF Begin
    <3> QED BY <2>2, <2>4, <3>1, <3>2, CallTyped DEF Begin
  <2>5. ASSUME NEW r \in Requests, Succeed(r)
        PROVE  Rest'
    <3>1. CASE Over(r)
      BY <3>1, <2>3, <2>5 DEF Succeed
    <3>2. CASE phase' = [phase EXCEPT ![r] = "streaming"] /\ Call(r, {})
      BY <3>2, <2>2, <2>5, CallTyped DEF Succeed
    <3> QED BY <3>1, <3>2, <2>5 DEF Succeed
  <2>6. ASSUME NEW r \in Requests, Fail(r)
        PROVE  Rest'
    <3>1. PICK p \in Providers : IF chain[r] = {p} THEN Over(r)
                                 ELSE Call(r, chain[r] \ {p}) /\ UNCHANGED phase
      BY <2>6 DEF Fail
    <3>2. UNCHANGED healthy
      BY <2>6 DEF Fail
    <3>3. CASE chain[r] = {p}
      BY <3>1, <3>2, <3>3, <2>3
    <3>4. CASE chain[r] # {p}
      <4>1. chain[r] \ {p} \in SUBSET Providers
        BY <2>2
      <4> QED BY <3>1, <3>2, <3>4, <4>1, <2>2, CallTyped
    <3> QED BY <3>3, <3>4
  <2>7. ASSUME NEW r \in Requests, Leave(r)
        PROVE  Rest'
    BY <2>7, <2>3 DEF Leave
  <2>8. ASSUME NEW p \in Providers, Cool(p) \/ Turn(p)
        PROVE  Rest'
    BY <2>2, <2>8 DEF Cool, Turn, breakers
  <2>9. ASSUME UNCHANGED vars
        PROVE  Rest'
    BY <2>2, <2>9 DEF vars
  <2>10. Rest'
    BY <2>4, <2>5, <2>6, <2>7, <2>8, <2>9 DEF Next
  <2> QED BY <2>1, <2>10 DEF TypeOK
<1> QED BY <1>1, <1>2, BreakerInit, BreakerNext, PTL DEF Spec

=============================================================================
