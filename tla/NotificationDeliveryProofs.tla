--------------------- MODULE NotificationDeliveryProofs ---------------------
(***************************************************************************)
(* Proofs about NotificationDelivery, for any number of dispatchers,       *)
(* messages and targets and for every value of the bounds.                 *)
(***************************************************************************)
EXTENDS NotificationDelivery, FiniteSetTheorems, TLAPS

-----------------------------------------------------------------------------
(* The inductive invariant, in parts. *)

(* Deliveries exist only of messages that were expanded and not yet deleted. *)
Rows == \A d \in Deliveries : msg[d[1]].state # "expanded" => del[d] = NoDelivery

(* One expansion at a time, of a message that is still pending. *)
Reading ==
  \A w \in Dispatchers : exp[w].m # None =>
    /\ msg[exp[w].m].state = "pending"
    /\ \A v \in Dispatchers : exp[v].m # None => v = w

(* While the preference is off no expansion is about to write what it routes. *)
ReadingOff ==
  ~pref.enabled => \A w \in Dispatchers, t \in Targets : exp[w].m \in Gated => exp[w].to[t] = 0

(* Whoever missed a moment is older than the enabling that followed. *)
LapsedOlder ==
  /\ lapsed \subseteq Accepted \X Targets
  /\ \A d \in lapsed : ~Off(d[2]) => d[1] \in pref.older \/ d[1] \in target[d[2]].older

(* A target that changed has left the binding of its deliveries behind. *)
BrokenBehind ==
  /\ \A d \in Deliveries : del[d].state # "none" =>
       /\ del[d].binding <= target[d[2]].binding
       /\ d \in broken => del[d].binding < target[d[2]].binding
  /\ \A w \in Dispatchers, t \in Targets : exp[w].m # None /\ exp[w].to[t] # 0 =>
       /\ exp[w].to[t] <= target[t].binding
       /\ <<exp[w].m, t>> \in broken => exp[w].to[t] < target[t].binding

(* A version belongs to one claim. *)
Versions ==
  \A d \in Deliveries, w \in Dispatchers : hold[w][d].pc # "none" =>
    /\ msg[d[1]].state # "gone" => hold[w][d].version <= del[d].tries
    /\ \A v \in Dispatchers : hold[v][d].pc # "none" /\ hold[v][d].version = hold[w][d].version
                                => v = w

(* Every claim may still call the provider once. *)
Unsent(d) == {w \in Dispatchers : hold[w][d].pc \in {"claimed", "prepared"}}
Budget(d) == IF msg[d[1]].state = "gone" THEN MaxAttempts ELSE del[d].tries
Budgeted ==
  \A d \in Deliveries : /\ del[d].tries <= MaxAttempts
                        /\ calls[d].made + Cardinality(Unsent(d)) <= Budget(d)

(* Who may still reach the user: the senders that are past prepare_send(), and *)
(* one more while the delivery can be prepared without any fault.              *)
Prepared(d) == {w \in Dispatchers : hold[w][d].pc = "prepared"}
Busy(d) == \E w \in Dispatchers :
  Current(w, d) /\ (hold[w][d].pc = "prepared"
                      \/ (hold[w][d].pc = "answered" /\ hold[w][d].outcome = "accepted"))
Early(d) == msg[d[1]].state \in {"none", "accepted", "pending"}
Preparable(d) == Early(d) \/ (del[d].state \in Open /\ ~Busy(d))
Reaching(d) == calls[d].reached + Cardinality(Prepared(d)) + (IF Preparable(d) THEN 1 ELSE 0)
Excused == \A d \in Deliveries : Reaching(d) <= faults + 1

-----------------------------------------------------------------------------
(* Types. *)

(* Rows after an update. *)
LEMMA RebindType ==
  ASSUME NEW r \in TargetRow, NEW state \in {"active", "revoked", "invalid"}
  PROVE  [r EXCEPT !.state = state, !.binding = @ + 1] \in TargetRow
<1> r.binding + 1 \in Nat
  BY DEF TargetRow
<1> QED
  BY DEF TargetRow

LEMMA CountType ==
  ASSUME NEW r \in [made : Nat, reached : Nat], NEW b \in BOOLEAN
  PROVE  [r EXCEPT !.made = @ + 1, !.reached = IF b THEN @ + 1 ELSE @] \in [made : Nat, reached : Nat]
<1> r.made + 1 \in Nat /\ r.reached + 1 \in Nat
  OBVIOUS
<1> QED
  OBVIOUS

LEMMA TakenType ==
  ASSUME NEW r \in DeliveryRow
  PROVE  [r EXCEPT !.state = "sending", !.leased = TRUE, !.tries = @ + 1] \in DeliveryRow
<1> r.tries + 1 \in Nat
  BY DEF DeliveryRow
<1> QED
  BY DEF DeliveryRow

LEMMA SkipType ==
  ASSUME del \in [Deliveries -> DeliveryRow], NEW S
  PROVE  Skip(S) \in [Deliveries -> DeliveryRow]
<1> SUFFICES ASSUME NEW d \in Deliveries, d \in S
             PROVE  [del[d] EXCEPT !.state = "skipped", !.leased = FALSE] \in DeliveryRow
  BY DEF Skip
<1> QED
  BY DEF DeliveryRow

LEMMA ClaimRowType ==
  ASSUME del \in [Deliveries -> DeliveryRow], NEW d \in Deliveries
  PROVE  ClaimRow(d) \in DeliveryRow
<1> del[d] \in DeliveryRow
  OBVIOUS
<1> [del[d] EXCEPT !.state = "expired"] \in DeliveryRow /\ [del[d] EXCEPT !.state = "failed"] \in DeliveryRow
  BY DEF DeliveryRow
<1> QED
  BY TakenType DEF ClaimRow

(* Another state of one delivery, its lease ended. *)
LEMMA EndLeaseType ==
  ASSUME del \in [Deliveries -> DeliveryRow], NEW d \in Deliveries,
         NEW state \in {"pending", "sending", "accepted", "expired", "skipped", "failed"}
  PROVE  [del EXCEPT ![d].leased = FALSE, ![d].state = state] \in [Deliveries -> DeliveryRow]
<1> del[d] \in DeliveryRow
  OBVIOUS
<1> [[del[d] EXCEPT !.leased = FALSE] EXCEPT !.state = state] \in DeliveryRow
  BY DEF DeliveryRow
<1> QED
  OBVIOUS

(* One claim in the memory of one dispatcher is replaced. *)
LEMMA HoldType ==
  ASSUME hold \in [Dispatchers -> [Deliveries -> ClaimRecord]],
         NEW w \in Dispatchers, NEW d \in Deliveries, NEW c \in ClaimRecord
  PROVE  [hold EXCEPT ![w][d] = c] \in [Dispatchers -> [Deliveries -> ClaimRecord]]
<1> hold[w] \in [Deliveries -> ClaimRecord]
  OBVIOUS
<1> [hold[w] EXCEPT ![d] = c] \in [Deliveries -> ClaimRecord]
  OBVIOUS
<1> QED
  OBVIOUS

LEMMA NoClaimType == NoClaim \in ClaimRecord
  BY DEF NoClaim, ClaimRecord

LEMMA ExpandedType ==
  ASSUME NEW r \in MessageRow
  PROVE  [r EXCEPT !.state = "expanded"] \in MessageRow
  BY DEF MessageRow

LEMMA TypeStep == TypeOK /\ [Next]_vars => TypeOK'
<1> SUFFICES ASSUME TypeOK, [Next]_vars PROVE TypeOK'
  OBVIOUS
<1> USE ConstantsAssumption DEF TypeOK
<1>1. ASSUME NEW m \in Messages, Accept(m) PROVE TypeOK'
  BY <1>1, ZenonT(60) DEF Accept, MessageRow, Deliveries, memory, bounds
<1>2. ASSUME NEW m \in Messages, NEW c \in Targets \cup {None}, Publish(m, c) PROVE TypeOK'
  BY <1>2 DEF Publish, MessageRow, memory, bounds, history
<1>3. ASSUME NEW m \in Messages, ExpiresAt(m) PROVE TypeOK'
  BY <1>3 DEF ExpiresAt, memory, bounds, history
<1>4. ASSUME NEW m \in Messages, Cleanup(m) PROVE TypeOK'
  BY <1>4 DEF Cleanup, MessageRow, DeliveryRow, memory, bounds, history, NoDelivery
<1>5. ASSUME NEW m \in Messages, ResourceChanges(m) PROVE TypeOK'
  BY <1>5 DEF ResourceChanges, memory, history, Act
<1>6. ASSUME NEW t \in Targets, RegisterTarget(t) PROVE TypeOK'
  BY <1>6 DEF RegisterTarget, TargetRow, Deliveries, memory, Act, Accepted, MadeFor
<1>7. ASSUME NEW t \in Targets, RevokeTarget(t) PROVE TypeOK'
  <2> target[t] \in TargetRow
    OBVIOUS
  <2>1. target' \in [Targets -> TargetRow]
    BY <1>7, RebindType DEF RevokeTarget
  <2>2. lapsed' \subseteq Deliveries /\ broken' \subseteq Deliveries
    BY <1>7 DEF RevokeTarget, Accepted, MadeFor, Deliveries
  <2> QED
    BY <1>7, <2>1, <2>2, SkipType DEF RevokeTarget, memory, Act
<1>8. CASE EnablePreference
  BY <1>8 DEF EnablePreference, memory, history, Act, Accepted
<1>9. CASE DisablePreference
  <2>1. lapsed' \subseteq Deliveries
    BY <1>9 DEF DisablePreference, Accepted, Deliveries
  <2>2. del' \in [Deliveries -> DeliveryRow]
    BY <1>9, SkipType DEF DisablePreference
  <2>3. pref' = [pref EXCEPT !.enabled = FALSE]
    BY <1>9 DEF DisablePreference
  <2>4. pref' \in [enabled : BOOLEAN, older : SUBSET Messages]
    BY <2>3
  <2>5. acts' \in Nat
    BY <1>9 DEF DisablePreference, Act
  <2> QED
    BY <1>9, <2>1, <2>2, <2>4, <2>5 DEF DisablePreference, memory
<1>10. ASSUME NEW w \in Dispatchers, NEW m \in Messages, ExpandOverdue(w, m) PROVE TypeOK'
  BY <1>10, ZenonT(60) DEF ExpandOverdue, MessageRow, memory, history, bounds
<1>11. ASSUME NEW w \in Dispatchers, NEW m \in Messages, ExpandRead(w, m) PROVE TypeOK'
  BY <1>11 DEF ExpandRead, TargetRow, Deliveries, bounds
<1>12. ASSUME NEW w \in Dispatchers, ExpandWrite(w) PROVE TypeOK'
  <2>1. del' \in [Deliveries -> DeliveryRow]
    <3>1. PICK U \in SUBSET {t \in Targets : exp[w].to[t] # 0} :
            del' = [d \in Deliveries |->
              IF d[1] = exp[w].m /\ exp[w].to[d[2]] # 0
              THEN [NoDelivery EXCEPT !.state = IF d[2] \in U THEN "failed" ELSE "pending",
                                      !.binding = exp[w].to[d[2]]]
              ELSE del[d]]
      BY <1>12 DEF ExpandWrite
    <3> SUFFICES ASSUME NEW d \in Deliveries
                 PROVE  [NoDelivery EXCEPT !.state = IF d[2] \in U THEN "failed" ELSE "pending",
                                           !.binding = exp[w].to[d[2]]] \in DeliveryRow
      BY <3>1
    <3> exp[w].to[d[2]] \in Nat
      BY DEF Deliveries
    <3> QED
      BY DEF NoDelivery, DeliveryRow
  <2>2. msg' \in [Messages -> MessageRow]
    <3> exp[w].m \in Messages
      BY <1>12 DEF ExpandWrite
    <3> msg[exp[w].m] \in MessageRow
      OBVIOUS
    <3> [msg[exp[w].m] EXCEPT !.state = "expanded"] \in MessageRow
      BY ExpandedType
    <3> QED
      BY <1>12 DEF ExpandWrite
  <2>3. exp' \in [Dispatchers -> [m : Messages \cup {None}, to : [Targets -> Nat]]]
    <3> NoExpansion \in [m : Messages \cup {None}, to : [Targets -> Nat]]
      BY DEF NoExpansion
    <3> QED
      BY <1>12 DEF ExpandWrite
  <2> QED
    BY <1>12, <2>1, <2>2, <2>3 DEF ExpandWrite, history, bounds
<1>13. ASSUME NEW w \in Dispatchers, Claim(w) PROVE TypeOK'
  <2>1. PICK S \in SUBSET {d \in Deliveries : Claimable(d)} \ {{}} :
          /\ del' = [d \in Deliveries |-> IF d \in S THEN ClaimRow(d) ELSE del[d]]
          /\ hold' = [hold EXCEPT ![w] = [d \in Deliveries |->
               IF d \in S /\ del'[d].state = "sending"
               THEN [pc |-> "claimed", version |-> del'[d].tries, outcome |-> "none"] ELSE @[d]]]
    BY <1>13 DEF Claim
  <2>2. del' \in [Deliveries -> DeliveryRow]
    BY <2>1, ClaimRowType
  <2>3. \A d \in Deliveries :
          [pc |-> "claimed", version |-> del'[d].tries, outcome |-> "none"] \in ClaimRecord
    BY <2>2 DEF DeliveryRow, ClaimRecord
  <2>4. hold' \in [Dispatchers -> [Deliveries -> ClaimRecord]]
    BY <2>1, <2>3
  <2> QED
    BY <1>13, <2>2, <2>4 DEF Claim, history, bounds
<1>14. ASSUME NEW w \in Dispatchers, NEW d \in Deliveries, PrepareSend(w, d) PROVE TypeOK'
  <2> hold[w][d] \in ClaimRecord
    OBVIOUS
  <2> [hold[w][d] EXCEPT !.pc = "prepared"] \in ClaimRecord
    BY DEF ClaimRecord
  <2> QED
    BY <1>14, HoldType DEF PrepareSend, history, bounds
<1>15. ASSUME NEW w \in Dispatchers, NEW d \in Deliveries, PrepareRefused(w, d) PROVE TypeOK'
  <2>1. del' \in [Deliveries -> DeliveryRow]
    BY <1>15, EndLeaseType DEF PrepareRefused
  <2> QED
    BY <1>15, <2>1, HoldType, NoClaimType DEF PrepareRefused, history, bounds, Drop
<1>16. ASSUME NEW w \in Dispatchers, NEW d \in Deliveries, NEW o \in Outcomes,
              NEW reached \in BOOLEAN, Send(w, d, o, reached)
       PROVE  TypeOK'
  <2> hold[w][d] \in ClaimRecord /\ calls[d] \in [made : Nat, reached : Nat]
    OBVIOUS
  <2> DEFINE c == [hold[w][d] EXCEPT !.pc = "answered", !.outcome = o]
  <2>1. hold' \in [Dispatchers -> [Deliveries -> ClaimRecord]]
    <3> hold' = [hold EXCEPT ![w][d] = c]
      BY <1>16 DEF Send
    <3> c \in ClaimRecord
      BY DEF ClaimRecord
    <3> HIDE DEF c
    <3> QED
      BY HoldType
  <2>2. calls' \in [Deliveries -> [made : Nat, reached : Nat]]
    BY <1>16, CountType DEF Send
  <2> QED
    BY <1>16, <2>1, <2>2 DEF Send, Fault
<1>17. ASSUME NEW w \in Dispatchers, NEW d \in Deliveries, Finish(w, d) PROVE TypeOK'
  <2>1. PICK state \in Recorded(d, hold[w][d].outcome) :
          /\ del' = [del EXCEPT ![d].leased = FALSE, ![d].state = state]
          /\ IF state = "failed" /\ hold[w][d].outcome = "target_invalid"
             THEN /\ target' = [target EXCEPT ![d[2]].state = "invalid", ![d[2]].binding = @ + 1]
                  /\ lapsed' = lapsed \cup (Accepted \X {d[2]})
                  /\ broken' = broken \cup MadeFor(d[2])
             ELSE UNCHANGED <<target, lapsed, broken>>
    BY <1>17 DEF Finish
  <2>2. state \in {"pending", "accepted", "expired", "skipped", "failed"}
    BY DEF Recorded
  <2>3. del' \in [Deliveries -> DeliveryRow]
    BY <2>1, <2>2, EndLeaseType
  <2>4. lapsed' \subseteq Deliveries /\ broken' \subseteq Deliveries
    BY <2>1 DEF Deliveries, Accepted, MadeFor
  <2> d[2] \in Targets /\ target[d[2]] \in TargetRow
    BY DEF Deliveries
  <2>5. target' \in [Targets -> TargetRow]
    <3> DEFINE r == [target[d[2]] EXCEPT !.state = "invalid", !.binding = @ + 1]
    <3> r \in TargetRow
      BY RebindType
    <3> target' = target \/ target' = [target EXCEPT ![d[2]] = r]
      BY <2>1
    <3> QED
      OBVIOUS
  <2> QED
    BY <1>17, <2>3, <2>4, <2>5, HoldType, NoClaimType DEF Finish, bounds, Drop
<1>18. ASSUME NEW w \in Dispatchers, NEW d \in Deliveries, FinishFenced(w, d) PROVE TypeOK'
  BY <1>18 DEF FinishFenced, ClaimRecord, history, bounds, Drop, NoClaim
<1>19. ASSUME NEW d \in Deliveries, LeaseAbandoned(d) \/ LeaseOutrun(d) PROVE TypeOK'
  <2>1. del' \in [Deliveries -> DeliveryRow]
    <3> del[d] \in DeliveryRow
      OBVIOUS
    <3> [del[d] EXCEPT !.leased = FALSE] \in DeliveryRow
      BY DEF DeliveryRow
    <3> QED
      BY <1>19 DEF LeaseAbandoned, LeaseOutrun, RunOut
  <2> QED
    BY <1>19, <2>1 DEF LeaseAbandoned, LeaseOutrun, Fault, memory, history, bounds
<1>20. ASSUME NEW w \in Dispatchers, NEW d \in Deliveries, BookkeepingFails(w, d) PROVE TypeOK'
  BY <1>20 DEF BookkeepingFails, ClaimRecord, history, Fault, Drop, NoClaim
<1>21. ASSUME NEW w \in Dispatchers, Stop(w) PROVE TypeOK'
  BY <1>21 DEF Stop, ClaimRecord, history, Fault, NoClaim
<1>22. ASSUME NEW w \in Dispatchers, Crash(w) PROVE TypeOK'
  BY <1>22 DEF Crash, ClaimRecord, history, Fault, NoClaim, NoExpansion
<1>23. CASE UNCHANGED vars
  BY <1>23 DEF vars, memory, history, bounds
<1>24. QED
  BY <1>1, <1>2, <1>3, <1>4, <1>5, <1>6, <1>7, <1>8, <1>9, <1>10, <1>11, <1>12, <1>13, <1>14,
     <1>15, <1>16, <1>17, <1>18, <1>19, <1>20, <1>21, <1>22, <1>23 DEF Next, Expand, Work

LEMMA InitCorrect == Init => TypeOK /\ Rows /\ Reading
<1> SUFFICES ASSUME Init PROVE TypeOK /\ Rows /\ Reading
  OBVIOUS
<1>1. TypeOK
  BY ConstantsAssumption
     DEF Init, TypeOK, MessageRow, TargetRow, DeliveryRow, ClaimRecord, NoDelivery, NoExpansion, NoClaim,
         Deliveries
<1>2. Rows /\ Reading
  BY DEF Init, Rows, Reading, NoDelivery, NoExpansion
<1> QED
  BY <1>1, <1>2

(* Every variable has its type in every state. *)
THEOREM TypeCorrect == Spec => []TypeOK
  BY InitCorrect, TypeStep, PTL DEF Spec

-----------------------------------------------------------------------------
(* Rows and expansions. *)

LEMMA RowsStep == TypeOK /\ Rows /\ Reading /\ [Next]_vars => Rows'
<1> SUFFICES ASSUME TypeOK, Rows, Reading, [Next]_vars,
                    NEW d \in Deliveries, msg'[d[1]].state # "expanded"
             PROVE  del'[d] = NoDelivery
  BY DEF Rows
<1> d[1] \in Messages /\ d[2] \in Targets /\ d = <<d[1], d[2]>>
  BY DEF Deliveries
<1> msg \in [Messages -> MessageRow] /\ del \in [Deliveries -> DeliveryRow]
  BY DEF TypeOK
<1>1. ASSUME msg[d[1]].state # "expanded", del[d] = NoDelivery
      PROVE  /\ \A S : Skip(S)[d] = NoDelivery
             /\ ~Claimable(d)
             /\ \A w \in Dispatchers : ~Current(w, d)
             /\ ~del[d].leased
  <2>1. del[d].state = "none" /\ ~del[d].leased
    BY <1>1 DEF NoDelivery
  <2>2. \A S : Skip(S)[d] = del[d]
    BY <2>1 DEF Skip, Open
  <2> QED
    BY <1>1, <2>1, <2>2 DEF Claimable, Current
<1> USE DEF Rows
<1>2. ASSUME NEW m \in Messages, Accept(m) \/ Cleanup(m) \/ \E c \in Targets \cup {None} : Publish(m, c)
      PROVE  del'[d] = NoDelivery
  BY <1>2 DEF Accept, Cleanup, Publish, MessageRow
<1>3. ASSUME \/ \E t \in Targets : RevokeTarget(t)
             \/ DisablePreference
      PROVE  del'[d] = NoDelivery
  BY <1>1, <1>3 DEF RevokeTarget, DisablePreference
<1>4. ASSUME NEW w \in Dispatchers, NEW m \in Messages, ExpandOverdue(w, m)
      PROVE  del'[d] = NoDelivery
  BY <1>4 DEF ExpandOverdue
<1>5. ASSUME NEW w \in Dispatchers, ExpandWrite(w) PROVE del'[d] = NoDelivery
  <2> msg' = [msg EXCEPT ![exp[w].m].state = "expanded"]
    BY <1>5 DEF ExpandWrite
  <2> d[1] # exp[w].m
    BY DEF MessageRow
  <2> msg'[d[1]] = msg[d[1]]
    OBVIOUS
  <2> QED
    BY <1>5 DEF ExpandWrite
<1>6. ASSUME NEW w \in Dispatchers, Claim(w) PROVE del'[d] = NoDelivery
  BY <1>1, <1>6 DEF Claim
<1>7. ASSUME NEW w \in Dispatchers, NEW e \in Deliveries, PrepareRefused(w, e) \/ Finish(w, e)
      PROVE  del'[d] = NoDelivery
  BY <1>1, <1>7 DEF PrepareRefused, Finish
<1>8. ASSUME NEW e \in Deliveries, LeaseAbandoned(e) \/ LeaseOutrun(e) PROVE del'[d] = NoDelivery
  BY <1>1, <1>8 DEF LeaseAbandoned, LeaseOutrun, RunOut
<1>9. CASE UNCHANGED <<msg, del>>
  BY <1>9
<1>10. ASSUME NEW m \in Messages, ExpiresAt(m) \/ ResourceChanges(m) PROVE UNCHANGED <<msg, del>>
  BY <1>10 DEF ExpiresAt, ResourceChanges
<1>11. ASSUME \/ \E t \in Targets : RegisterTarget(t)
              \/ EnablePreference
              \/ UNCHANGED vars
       PROVE  UNCHANGED <<msg, del>>
  BY <1>11 DEF RegisterTarget, EnablePreference, vars
<1>12. ASSUME NEW w \in Dispatchers, Stop(w) \/ Crash(w) \/ \E m \in Messages : ExpandRead(w, m)
       PROVE  UNCHANGED <<msg, del>>
  BY <1>12 DEF ExpandRead, Stop, Crash
<1>13. ASSUME NEW w \in Dispatchers, NEW e \in Deliveries,
              \/ PrepareSend(w, e) \/ FinishFenced(w, e) \/ BookkeepingFails(w, e)
              \/ \E o \in Outcomes, reached \in BOOLEAN : Send(w, e, o, reached)
       PROVE  UNCHANGED <<msg, del>>
  BY <1>13 DEF PrepareSend, Send, FinishFenced, BookkeepingFails
<1> QED
  BY <1>2, <1>3, <1>4, <1>5, <1>6, <1>7, <1>8, <1>9, <1>10, <1>11, <1>12, <1>13 DEF Next, Expand, Work

LEMMA ReadingStep == TypeOK /\ Reading /\ [Next]_vars => Reading'
<1> SUFFICES ASSUME TypeOK, Reading, [Next]_vars PROVE Reading'
  OBVIOUS
<1> msg \in [Messages -> MessageRow] /\ exp \in [Dispatchers -> [m : Messages \cup {None}, to : [Targets -> Nat]]]
  BY DEF TypeOK
<1> USE ConstantsAssumption DEF Reading
<1>1. ASSUME NEW m \in Messages, Accept(m) PROVE Reading'
  BY <1>1 DEF Accept, memory
<1>2. ASSUME NEW m \in Messages, NEW c \in Targets \cup {None}, Publish(m, c) PROVE Reading'
  BY <1>2 DEF Publish, memory
<1>3. ASSUME NEW m \in Messages, Cleanup(m) PROVE Reading'
  BY <1>3 DEF Cleanup, memory
<1>4. ASSUME NEW w \in Dispatchers, NEW m \in Messages, ExpandOverdue(w, m) PROVE Reading'
  BY <1>4 DEF ExpandOverdue, memory
<1>5. ASSUME NEW w \in Dispatchers, NEW m \in Messages, ExpandRead(w, m) PROVE Reading'
  BY <1>5 DEF ExpandRead, SubjectLocked
<1>6. ASSUME NEW w \in Dispatchers, ExpandWrite(w) PROVE Reading'
  <2> \A v \in Dispatchers : exp'[v].m = None
    BY <1>6 DEF ExpandWrite, NoExpansion
  <2> QED
    OBVIOUS
<1>7. ASSUME NEW w \in Dispatchers, Crash(w) PROVE Reading'
  BY <1>7 DEF Crash, NoExpansion
<1>8. CASE UNCHANGED <<msg, exp>>
  BY <1>8
<1>9. ASSUME NEW m \in Messages, ExpiresAt(m) \/ ResourceChanges(m) PROVE UNCHANGED <<msg, exp>>
  BY <1>9 DEF ExpiresAt, ResourceChanges, memory
<1>10. ASSUME \/ \E t \in Targets : RegisterTarget(t) \/ RevokeTarget(t)
              \/ EnablePreference \/ DisablePreference
              \/ UNCHANGED vars
       PROVE  UNCHANGED <<msg, exp>>
  BY <1>10 DEF RegisterTarget, RevokeTarget, EnablePreference, DisablePreference, vars, memory
<1>11. ASSUME NEW w \in Dispatchers, Stop(w) \/ Claim(w) PROVE UNCHANGED <<msg, exp>>
  BY <1>11 DEF Stop, Claim
<1>12. ASSUME NEW w \in Dispatchers, NEW d \in Deliveries,
              \/ PrepareSend(w, d) \/ PrepareRefused(w, d) \/ Finish(w, d) \/ FinishFenced(w, d)
              \/ BookkeepingFails(w, d)
              \/ \E o \in Outcomes, reached \in BOOLEAN : Send(w, d, o, reached)
       PROVE  UNCHANGED <<msg, exp>>
  BY <1>12 DEF PrepareSend, PrepareRefused, Send, Finish, FinishFenced, BookkeepingFails
<1>13. ASSUME NEW d \in Deliveries, LeaseAbandoned(d) \/ LeaseOutrun(d) PROVE UNCHANGED <<msg, exp>>
  BY <1>13 DEF LeaseAbandoned, LeaseOutrun, memory
<1> HIDE DEF Reading
<1> QED
  BY <1>1, <1>2, <1>3, <1>4, <1>5, <1>6, <1>7, <1>8, <1>9, <1>10, <1>11, <1>12, <1>13
     DEF Next, Expand, Work

-----------------------------------------------------------------------------
(* The preference. *)

LEMMA OffStep ==
  TypeOK /\ Rows /\ OffMeansNone /\ ReadingOff /\ [Next]_vars => OffMeansNone'
<1> SUFFICES ASSUME TypeOK, Rows, OffMeansNone, ReadingOff, [Next]_vars,
                    ~pref'.enabled, NEW d \in Deliveries, d[1] \in Gated'
             PROVE  del'[d].state \notin Open
  BY DEF OffMeansNone
<1> d[1] \in Messages /\ d[2] \in Targets /\ d = <<d[1], d[2]>>
  BY DEF Deliveries
<1> msg \in [Messages -> MessageRow] /\ del \in [Deliveries -> DeliveryRow]
  BY DEF TypeOK
<1>0. ASSUME ~pref.enabled, d[1] \in Gated
      PROVE  del[d].state \notin Open /\ ~Claimable(d) /\ \A w \in Dispatchers : ~Current(w, d)
  BY <1>0 DEF OffMeansNone, Claimable, Current, Open
<1>1. ASSUME pref' = pref, msg'[d[1]].chosen = msg[d[1]].chosen,
             ~pref.enabled /\ d[1] \in Gated => del'[d].state \notin Open
      PROVE  del'[d].state \notin Open
  BY <1>1 DEF Gated
<1>2. ASSUME NEW m \in Messages, Accept(m) \/ Cleanup(m) \/ ExpiresAt(m) \/ ResourceChanges(m) PROVE del'[d].state \notin Open
  <2>1. pref' = pref /\ msg'[d[1]].chosen = msg[d[1]].chosen
    BY <1>2 DEF Accept, Cleanup, ExpiresAt, ResourceChanges, MessageRow
  <2>2. del'[d] = del[d] \/ del'[d] = NoDelivery
    BY <1>2 DEF Accept, Cleanup, ExpiresAt, ResourceChanges
  <2> QED
    BY <1>0, <1>1, <2>1, <2>2 DEF NoDelivery, Open
<1>3. ASSUME NEW m \in Messages, NEW c \in Targets \cup {None}, Publish(m, c) PROVE del'[d].state \notin Open
  <2>1. CASE d[1] = m
    BY <1>3, <2>1 DEF Publish, Rows, NoDelivery, Open
  <2>2. CASE d[1] # m
    BY <1>0, <1>1, <1>3, <2>2 DEF Publish
  <2> QED
    BY <2>1, <2>2
<1>4. ASSUME NEW u \in Targets, RegisterTarget(u) \/ RevokeTarget(u) PROVE del'[d].state \notin Open
  <2>1. pref' = pref /\ msg' = msg
    BY <1>4 DEF RegisterTarget, RevokeTarget
  <2>2. del'[d] = del[d] \/ del'[d] = Skip(Messages \X {u})[d]
    BY <1>4 DEF RegisterTarget, RevokeTarget
  <2> QED
    BY <1>0, <1>1, <2>1, <2>2 DEF Skip, Open
<1>5. CASE EnablePreference
  BY <1>5 DEF EnablePreference
<1>6. CASE DisablePreference
  <2> del' = Skip(Deliveries)
    BY <1>6 DEF DisablePreference
  <2> [del[d] EXCEPT !.state = "skipped", !.leased = FALSE].state = "skipped"
    BY DEF DeliveryRow
  <2> QED
    BY DEF Skip, Open
<1>7. ASSUME NEW w \in Dispatchers, NEW m \in Messages, ExpandOverdue(w, m) \/ ExpandRead(w, m) PROVE del'[d].state \notin Open
  <2>1. pref' = pref /\ del' = del /\ msg'[d[1]].chosen = msg[d[1]].chosen
    BY <1>7 DEF ExpandOverdue, ExpandRead, MessageRow
  <2> QED
    BY <1>0, <1>1, <2>1
<1>8. ASSUME NEW w \in Dispatchers, ExpandWrite(w) PROVE del'[d].state \notin Open
  <2>1. exp[w].m \in Messages /\ msg' = [msg EXCEPT ![exp[w].m].state = "expanded"]
    BY <1>8 DEF ExpandWrite, TypeOK
  <2>2. pref' = pref /\ msg'[d[1]].chosen = msg[d[1]].chosen
    <3> pref' = pref
      BY <1>8 DEF ExpandWrite
    <3> msg'[d[1]].chosen = msg[d[1]].chosen
      BY <2>1 DEF MessageRow
    <3> QED
      OBVIOUS
  <2>3. ~pref.enabled /\ d[1] \in Gated /\ d[1] = exp[w].m => exp[w].to[d[2]] = 0
    BY DEF ReadingOff
  <2>4. ~pref.enabled /\ d[1] \in Gated => del'[d] = del[d]
    BY <1>8, <2>3 DEF ExpandWrite
  <2> QED
    BY <1>0, <1>1, <2>2, <2>4
<1>9. ASSUME NEW w \in Dispatchers, Claim(w) PROVE del'[d].state \notin Open
  <2>1. pref' = pref /\ msg' = msg
    BY <1>9 DEF Claim
  <2>2. ~Claimable(d) => del'[d] = del[d]
    BY <1>9 DEF Claim
  <2> QED
    BY <1>0, <1>1, <2>1, <2>2
<1>10. ASSUME NEW w \in Dispatchers, NEW e \in Deliveries, PrepareRefused(w, e) \/ Finish(w, e) PROVE del'[d].state \notin Open
  <2>1. pref' = pref /\ msg' = msg
    BY <1>10 DEF PrepareRefused, Finish
  <2>2. ~Current(w, d) => del'[d] = del[d]
    BY <1>10 DEF PrepareRefused, Finish
  <2> QED
    BY <1>0, <1>1, <2>1, <2>2
<1>11. ASSUME NEW e \in Deliveries, LeaseAbandoned(e) \/ LeaseOutrun(e) PROVE del'[d].state \notin Open
  <2>1. pref' = pref /\ msg' = msg
    BY <1>11 DEF LeaseAbandoned, LeaseOutrun
  <2>2. del'[d].state = del[d].state
    BY <1>11 DEF LeaseAbandoned, LeaseOutrun, RunOut, DeliveryRow
  <2> QED
    BY <1>0, <1>1, <2>1, <2>2
<1>12. CASE UNCHANGED <<msg, pref, del>>
  BY <1>0, <1>1, <1>12
<1>13. ASSUME NEW w \in Dispatchers, NEW e \in Deliveries,
              \/ PrepareSend(w, e) \/ FinishFenced(w, e) \/ BookkeepingFails(w, e)
              \/ \E o \in Outcomes, reached \in BOOLEAN : Send(w, e, o, reached)
       PROVE  UNCHANGED <<msg, pref, del>>
  BY <1>13 DEF PrepareSend, Send, FinishFenced, BookkeepingFails
<1>14. ASSUME NEW w \in Dispatchers, Stop(w) \/ Crash(w) PROVE UNCHANGED <<msg, pref, del>>
  BY <1>14 DEF Stop, Crash
<1>15. ASSUME UNCHANGED vars PROVE UNCHANGED <<msg, pref, del>>
  BY <1>15 DEF vars
<1>16. ASSUME NEW w \in Dispatchers, Expand(w) \/ \E e \in Deliveries : Work(w, e) PROVE del'[d].state \notin Open
  BY <1>7, <1>8, <1>10, <1>12, <1>13, <1>16 DEF Expand, Work
<1> QED
  BY <1>2, <1>3, <1>4, <1>5, <1>6, <1>9, <1>11, <1>12, <1>13, <1>14, <1>15, <1>16 DEF Next

LEMMA ReadingOffStep ==
  TypeOK /\ Reading /\ ReadingOff /\ [Next]_vars => ReadingOff'
<1> SUFFICES ASSUME TypeOK, Reading, ReadingOff, [Next]_vars,
                    ~pref'.enabled, NEW v \in Dispatchers, NEW t \in Targets, exp'[v].m \in Gated'
             PROVE  exp'[v].to[t] = 0
  BY DEF ReadingOff
<1> exp'[v].m \in Messages
  BY DEF Gated
<1> msg \in [Messages -> MessageRow]
  BY DEF TypeOK
<1> exp \in [Dispatchers -> [m : Messages \cup {None}, to : [Targets -> Nat]]]
  BY DEF TypeOK
<1>1. ASSUME pref' = pref, exp' = exp, msg'[exp[v].m].chosen = msg[exp[v].m].chosen
      PROVE  exp'[v].to[t] = 0
  BY <1>1 DEF ReadingOff, Gated
<1>2. ASSUME NEW m \in Messages, Accept(m) \/ Cleanup(m) PROVE exp'[v].to[t] = 0
  BY <1>1, <1>2 DEF Accept, Cleanup, memory, MessageRow
<1>3. ASSUME NEW m \in Messages, NEW c \in Targets \cup {None}, Publish(m, c) PROVE exp'[v].to[t] = 0
  <2>1. exp' = exp /\ pref' = pref
    BY <1>3 DEF Publish, memory
  <2>2. exp[v].m # m
    BY <1>3, ConstantsAssumption DEF Publish, Reading
  <2> QED
    BY <1>1, <1>3, <2>1, <2>2 DEF Publish
<1>4. ASSUME NEW w \in Dispatchers, NEW m \in Messages, ExpandOverdue(w, m) PROVE exp'[v].to[t] = 0
  BY <1>1, <1>4 DEF ExpandOverdue, memory, MessageRow
<1>5. CASE EnablePreference
  BY <1>5 DEF EnablePreference
<1>6. CASE DisablePreference
  <2> exp'[v].m = None
    BY <1>6 DEF DisablePreference, SubjectLocked, memory
  <2> QED
    BY ConstantsAssumption
<1>7. ASSUME NEW w \in Dispatchers, NEW m \in Messages, ExpandRead(w, m) PROVE exp'[v].to[t] = 0
  <2>1. pref' = pref /\ msg' = msg
    BY <1>7 DEF ExpandRead
  <2>2. exp' = [exp EXCEPT ![w] =
          [m |-> m, to |-> [u \in Targets |-> IF Eligible(m, u) THEN target[u].binding ELSE 0]]]
    BY <1>7 DEF ExpandRead
  <2>3. CASE v = w
    <3> m \in Gated
      BY <2>1, <2>2, <2>3 DEF Gated
    <3> ~Eligible(m, t)
      BY <2>1 DEF Eligible, Permitted
    <3> QED
      BY <2>2, <2>3
  <2>4. CASE v # w
    BY <2>1, <2>2, <2>4 DEF ReadingOff, Gated
  <2> QED
    BY <2>3, <2>4
<1>8. ASSUME NEW w \in Dispatchers, ExpandWrite(w) PROVE exp'[v].to[t] = 0
  <2>1. exp' = [exp EXCEPT ![w] = NoExpansion]
    BY <1>8 DEF ExpandWrite
  <2>2. CASE v = w
    BY <2>1, <2>2 DEF NoExpansion
  <2>3. CASE v # w
    <3> msg' = [msg EXCEPT ![exp[w].m].state = "expanded"] /\ pref' = pref /\ exp'[v] = exp[v]
      BY <1>8, <2>1, <2>3 DEF ExpandWrite
    <3> msg'[exp[v].m].chosen = msg[exp[v].m].chosen
      BY DEF MessageRow
    <3> QED
      BY DEF ReadingOff, Gated
  <2> QED
    BY <2>2, <2>3
<1>9. ASSUME NEW w \in Dispatchers, Crash(w) PROVE exp'[v].to[t] = 0
  <2> pref' = pref /\ msg' = msg /\ exp' = [exp EXCEPT ![w] = NoExpansion]
    BY <1>9 DEF Crash
  <2> QED
    BY DEF NoExpansion, ReadingOff, Gated
<1>10. CASE UNCHANGED <<msg, pref, exp>>
  BY <1>1, <1>10
<1>11. ASSUME NEW m \in Messages, ExpiresAt(m) \/ ResourceChanges(m) PROVE UNCHANGED <<msg, pref, exp>>
  BY <1>11 DEF ExpiresAt, ResourceChanges, memory
<1>12. ASSUME \/ \E u \in Targets : RegisterTarget(u) \/ RevokeTarget(u)
              \/ UNCHANGED vars
       PROVE  UNCHANGED <<msg, pref, exp>>
  BY <1>12 DEF RegisterTarget, RevokeTarget, vars, memory
<1>13. ASSUME NEW w \in Dispatchers, Stop(w) \/ Claim(w) PROVE UNCHANGED <<msg, pref, exp>>
  BY <1>13 DEF Stop, Claim
<1>14. ASSUME NEW w \in Dispatchers, NEW d \in Deliveries,
              \/ PrepareSend(w, d) \/ PrepareRefused(w, d) \/ Finish(w, d) \/ FinishFenced(w, d)
              \/ BookkeepingFails(w, d)
              \/ \E o \in Outcomes, reached \in BOOLEAN : Send(w, d, o, reached)
       PROVE  UNCHANGED <<msg, pref, exp>>
  BY <1>14 DEF PrepareSend, PrepareRefused, Send, Finish, FinishFenced, BookkeepingFails
<1>15. ASSUME NEW d \in Deliveries, LeaseAbandoned(d) \/ LeaseOutrun(d) PROVE UNCHANGED <<msg, pref, exp>>
  BY <1>15 DEF LeaseAbandoned, LeaseOutrun, memory
<1>16. ASSUME NEW w \in Dispatchers, Expand(w) \/ \E d \in Deliveries : Work(w, d) PROVE exp'[v].to[t] = 0
  BY <1>4, <1>7, <1>8, <1>10, <1>14, <1>16 DEF Expand, Work
<1> QED
  BY <1>2, <1>3, <1>5, <1>6, <1>9, <1>10, <1>11, <1>12, <1>13, <1>14, <1>15, <1>16 DEF Next

(* While the preference is off nothing that it routes waits or is being sent.  *)
(* An expansion holds the lock that the switch takes, and the invariant says   *)
(* that it never carries a routed target past a switch.                        *)
THEOREM OffMeansNoneAlways == Spec => []OffMeansNone
<1> DEFINE IInv == TypeOK /\ Rows /\ Reading /\ OffMeansNone /\ ReadingOff
<1>1. Init => IInv
  <2> SUFFICES ASSUME Init PROVE IInv
    OBVIOUS
  <2>1. OffMeansNone /\ ReadingOff
    BY DEF Init, OffMeansNone, Open, NoDelivery, ReadingOff, NoExpansion
  <2> QED
    BY <2>1, InitCorrect
<1>2. IInv /\ [Next]_vars => IInv'
  BY TypeStep, RowsStep, ReadingStep, OffStep, ReadingOffStep
<1> QED
  BY <1>1, <1>2, PTL DEF Spec

-----------------------------------------------------------------------------
(* What is sent. *)

LEMMA LapsedStep == TypeOK /\ LapsedOlder /\ [Next]_vars => LapsedOlder'
<1> SUFFICES ASSUME TypeOK, LapsedOlder, [Next]_vars, NEW d \in lapsed'
             PROVE  /\ d \in Accepted' \X Targets
                    /\ ~Off(d[2])' => d[1] \in pref'.older \/ d[1] \in target'[d[2]].older
  BY DEF LapsedOlder
<1> msg \in [Messages -> MessageRow] /\ target \in [Targets -> TargetRow]
  BY DEF TypeOK
<1> pref \in [enabled : BOOLEAN, older : SUBSET Messages]
  BY DEF TypeOK
<1>1. ASSUME UNCHANGED <<target, pref, lapsed>>, Accepted \subseteq Accepted'
      PROVE  /\ d \in Accepted' \X Targets
             /\ ~Off(d[2])' => d[1] \in pref'.older \/ d[1] \in target'[d[2]].older
  BY <1>1 DEF LapsedOlder, Off
(* A target is lost: whoever lapsed with it now waits until it is active again. *)
<1>2. ASSUME NEW t \in Targets, msg' = msg, pref' = pref,
             lapsed' = lapsed \cup (Accepted \X {t}), Off(t)',
             \A u \in Targets \ {t} : target'[u] = target[u]
      PROVE  /\ d \in Accepted' \X Targets
             /\ ~Off(d[2])' => d[1] \in pref'.older \/ d[1] \in target'[d[2]].older
  <2>1. d \in Accepted \X Targets /\ (d \in lapsed \/ d[2] = t)
    BY <1>2 DEF LapsedOlder
  <2>2. Accepted' = Accepted
    BY <1>2 DEF Accepted
  <2>3. CASE d[2] = t
    BY <1>2, <2>1, <2>2, <2>3
  <2>4. CASE d[2] # t
    BY <1>2, <2>1, <2>2, <2>4 DEF LapsedOlder, Off
  <2> QED
    BY <2>3, <2>4
<1>3. ASSUME NEW m \in Messages, Accept(m)
      PROVE  /\ d \in Accepted' \X Targets
             /\ ~Off(d[2])' => d[1] \in pref'.older \/ d[1] \in target'[d[2]].older
  <2>1. Accepted \cup {m} \subseteq Accepted'
    BY <1>3 DEF Accept, Accepted, MessageRow
  <2>2. pref' = pref /\ target' = target
    BY <1>3 DEF Accept
  <2>3. d \in lapsed \/ (d \in {m} \X Targets /\ Off(d[2]))
    BY <1>3 DEF Accept
  <2> QED
    BY <2>1, <2>2, <2>3 DEF LapsedOlder, Off
<1>4. ASSUME NEW t \in Targets, RegisterTarget(t)
      PROVE  /\ d \in Accepted' \X Targets
             /\ ~Off(d[2])' => d[1] \in pref'.older \/ d[1] \in target'[d[2]].older
  <2>1. d \in lapsed /\ d \in Accepted \X Targets /\ Accepted' = Accepted /\ pref' = pref
    BY <1>4 DEF RegisterTarget, LapsedOlder, Accepted
  <2>2. CASE d[2] = t /\ target[t].state # "active"
    BY <1>4, <2>1, <2>2 DEF RegisterTarget, TargetRow
  <2>3. CASE d[2] = t /\ target[t].state = "active"
    <3> target'[t].older = target[t].older
      BY <1>4, <2>3 DEF RegisterTarget, TargetRow
    <3> ~Off(d[2])' => ~Off(d[2])
      BY <2>1, <2>3 DEF Off
    <3> QED
      BY <2>1, <2>3 DEF LapsedOlder
  <2>4. CASE d[2] # t
    <3> target'[d[2]] = target[d[2]]
      BY <1>4, <2>1, <2>4 DEF RegisterTarget
    <3> QED
      BY <2>1 DEF LapsedOlder, Off
  <2> QED
    BY <2>2, <2>3, <2>4
<1>5. ASSUME NEW t \in Targets, RevokeTarget(t)
      PROVE  /\ d \in Accepted' \X Targets
             /\ ~Off(d[2])' => d[1] \in pref'.older \/ d[1] \in target'[d[2]].older
  <2>1. target' = [target EXCEPT ![t].state = "revoked", ![t].binding = @ + 1]
    BY <1>5 DEF RevokeTarget
  <2>2. Off(t)' /\ \A u \in Targets \ {t} : target'[u] = target[u]
    BY <2>1 DEF Off, TargetRow
  <2> QED
    BY <1>2, <1>5, <2>2 DEF RevokeTarget
<1>6. CASE EnablePreference
  <2> d \in lapsed /\ Accepted' = Accepted /\ pref'.older = Accepted
    BY <1>6 DEF EnablePreference, history, Accepted
  <2> QED
    BY DEF LapsedOlder
<1>7. CASE DisablePreference
  <2>1. Accepted' = Accepted /\ ~pref'.enabled /\ d \in Accepted \X Targets
    BY <1>7 DEF DisablePreference, LapsedOlder, Accepted
  <2> QED
    BY <2>1 DEF Off
<1>8. ASSUME NEW w \in Dispatchers, NEW e \in Deliveries, Finish(w, e)
      PROVE  /\ d \in Accepted' \X Targets
             /\ ~Off(d[2])' => d[1] \in pref'.older \/ d[1] \in target'[d[2]].older
  <2>1. msg' = msg /\ pref' = pref
    BY <1>8 DEF Finish
  <2>2. CASE UNCHANGED <<target, lapsed, broken>>
    BY <1>1, <2>1, <2>2 DEF Accepted
  <2>3. CASE /\ target' = [target EXCEPT ![e[2]].state = "invalid", ![e[2]].binding = @ + 1]
             /\ lapsed' = lapsed \cup (Accepted \X {e[2]})
    <3> e[2] \in Targets
      BY DEF Deliveries
    <3> Off(e[2])' /\ \A u \in Targets \ {e[2]} : target'[u] = target[u]
      BY <2>3 DEF Off, TargetRow
    <3> QED
      BY <1>2, <2>1, <2>3
  <2> QED
    BY <1>8, <2>2, <2>3 DEF Finish
<1>9. ASSUME NEW m \in Messages, Cleanup(m) \/ ExpiresAt(m) \/ ResourceChanges(m)
      PROVE  UNCHANGED <<target, pref, lapsed>> /\ Accepted \subseteq Accepted'
  BY <1>9 DEF Cleanup, ExpiresAt, ResourceChanges, history, Accepted, MessageRow
<1>10. ASSUME NEW m \in Messages, NEW c \in Targets \cup {None}, Publish(m, c)
       PROVE  UNCHANGED <<target, pref, lapsed>> /\ Accepted \subseteq Accepted'
  BY <1>10 DEF Publish, history, Accepted, MessageRow
<1>11. ASSUME NEW w \in Dispatchers, Expand(w)
       PROVE  UNCHANGED <<target, pref, lapsed>> /\ Accepted \subseteq Accepted'
  <2>1. CASE ExpandWrite(w)
    <3> exp[w].m \in Messages /\ msg' = [msg EXCEPT ![exp[w].m].state = "expanded"]
      BY <2>1 DEF ExpandWrite, TypeOK
    <3> Accepted \subseteq Accepted'
      BY DEF Accepted, MessageRow
    <3> QED
      BY <2>1 DEF ExpandWrite, history
  <2>2. ASSUME NEW m \in Messages, ExpandOverdue(w, m) \/ ExpandRead(w, m)
        PROVE  UNCHANGED <<target, pref, lapsed>> /\ Accepted \subseteq Accepted'
    BY <2>2 DEF ExpandOverdue, ExpandRead, history, Accepted, MessageRow
  <2> QED
    BY <1>11, <2>1, <2>2 DEF Expand
<1>12. ASSUME NEW w \in Dispatchers, Claim(w) \/ Stop(w) \/ Crash(w)
       PROVE  UNCHANGED <<target, pref, lapsed>> /\ Accepted \subseteq Accepted'
  BY <1>12 DEF Claim, Stop, Crash, history, Accepted
<1>13. ASSUME NEW w \in Dispatchers, NEW e \in Deliveries,
              \/ PrepareSend(w, e) \/ PrepareRefused(w, e) \/ FinishFenced(w, e)
              \/ BookkeepingFails(w, e)
              \/ \E o \in Outcomes, reached \in BOOLEAN : Send(w, e, o, reached)
       PROVE  UNCHANGED <<target, pref, lapsed>> /\ Accepted \subseteq Accepted'
  BY <1>13 DEF PrepareSend, PrepareRefused, Send, FinishFenced, BookkeepingFails, history, Accepted
<1>14. ASSUME NEW e \in Deliveries, LeaseAbandoned(e) \/ LeaseOutrun(e)
       PROVE  UNCHANGED <<target, pref, lapsed>> /\ Accepted \subseteq Accepted'
  BY <1>14 DEF LeaseAbandoned, LeaseOutrun, history, Accepted
<1>15. ASSUME UNCHANGED vars
       PROVE  UNCHANGED <<target, pref, lapsed>> /\ Accepted \subseteq Accepted'
  BY <1>15 DEF vars, Accepted
<1> QED
  BY <1>1, <1>3, <1>4, <1>5, <1>6, <1>7, <1>8, <1>9, <1>10, <1>11, <1>12, <1>13, <1>14, <1>15
     DEF Next, Work

LEMMA BrokenStep == TypeOK /\ BrokenBehind /\ [Next]_vars => BrokenBehind'
<1> SUFFICES ASSUME TypeOK, BrokenBehind, [Next]_vars PROVE BrokenBehind'
  OBVIOUS
<1> /\ target \in [Targets -> TargetRow] /\ del \in [Deliveries -> DeliveryRow]
    /\ exp \in [Dispatchers -> [m : Messages \cup {None}, to : [Targets -> Nat]]]
  BY DEF TypeOK
<1> DEFINE Rows1 == \A d \in Deliveries : del'[d].state # "none" =>
                      del[d].state # "none" /\ del'[d].binding = del[d].binding
           Reads1 == \A w \in Dispatchers : exp'[w].m # None => exp'[w] = exp[w]
(* Targets unchanged: nothing new is behind or broken. *)
<1>1. ASSUME target' = target, broken' \subseteq broken, Rows1, Reads1 PROVE BrokenBehind'
  BY <1>1 DEF BrokenBehind
(* One target changed: what was written or read for it is behind now. *)
<1>2. ASSUME NEW t \in Targets, target'[t].binding = target[t].binding + 1,
             \A u \in Targets \ {t} : target'[u] = target[u],
             broken' = broken \cup MadeFor(t), Rows1, exp' = exp
      PROVE  BrokenBehind'
  <2>1. \A b \in Nat : b <= target[t].binding => b < target'[t].binding
    BY <1>2 DEF TargetRow
  <2>2. ASSUME NEW d \in Deliveries, del'[d].state # "none"
        PROVE  /\ del'[d].binding <= target'[d[2]].binding
               /\ d \in broken' => del'[d].binding < target'[d[2]].binding
    <3>1. del[d].state # "none" /\ del'[d].binding = del[d].binding /\ del[d].binding \in Nat
      BY <1>2, <2>2 DEF DeliveryRow
    <3>2. /\ del[d].binding <= target[d[2]].binding
          /\ d \in broken => del[d].binding < target[d[2]].binding
      BY <3>1 DEF BrokenBehind
    <3> d[2] \in Targets
      BY DEF Deliveries
    <3>3. CASE d[2] = t
      <4> target'[t].binding \in Nat
        BY <1>2 DEF TargetRow
      <4> QED
        BY <2>1, <3>1, <3>2, <3>3
    <3>4. CASE d[2] # t
      BY <1>2, <3>1, <3>2, <3>4 DEF MadeFor
    <3> QED
      BY <3>3, <3>4
  <2>3. ASSUME NEW w \in Dispatchers, NEW u \in Targets, exp'[w].m # None, exp'[w].to[u] # 0
        PROVE  /\ exp'[w].to[u] <= target'[u].binding
               /\ <<exp'[w].m, u>> \in broken' => exp'[w].to[u] < target'[u].binding
    <3>1. exp' = exp /\ exp[w].to[u] \in Nat
      BY <1>2
    <3>2. /\ exp[w].to[u] <= target[u].binding
          /\ <<exp[w].m, u>> \in broken => exp[w].to[u] < target[u].binding
      BY <2>3, <3>1 DEF BrokenBehind
    <3>3. CASE u = t
      <4> target'[t].binding \in Nat
        BY <1>2 DEF TargetRow
      <4> QED
        BY <2>1, <3>1, <3>2, <3>3
    <3>4. CASE u # t
      BY <1>2, <3>1, <3>2, <3>4 DEF MadeFor
    <3> QED
      BY <3>3, <3>4
  <2> QED
    BY <2>2, <2>3 DEF BrokenBehind
<1>3. ASSUME NEW t \in Targets, RegisterTarget(t) PROVE BrokenBehind'
  <2>1. target'[t].binding = target[t].binding + 1 /\ \A u \in Targets \ {t} : target'[u] = target[u]
    BY <1>3 DEF RegisterTarget, TargetRow
  <2> QED
    BY <1>2, <1>3, <2>1 DEF RegisterTarget, memory
<1>4. ASSUME NEW t \in Targets, RevokeTarget(t) PROVE BrokenBehind'
  <2>1. target'[t].binding = target[t].binding + 1 /\ \A u \in Targets \ {t} : target'[u] = target[u]
    BY <1>4 DEF RevokeTarget, TargetRow
  <2>2. Rows1
    BY <1>4 DEF RevokeTarget, Skip, Open, DeliveryRow
  <2> QED
    BY <1>2, <1>4, <2>1, <2>2 DEF RevokeTarget, memory
<1>5. CASE DisablePreference
  <2> Rows1
    BY <1>5 DEF DisablePreference, Skip, Open, DeliveryRow
  <2> QED
    BY <1>1, <1>5 DEF DisablePreference, memory
<1>6. ASSUME NEW m \in Messages, Cleanup(m) PROVE BrokenBehind'
  BY <1>1, <1>6 DEF Cleanup, NoDelivery, memory, history
<1>7. ASSUME NEW w \in Dispatchers, NEW m \in Messages, ExpandRead(w, m) PROVE BrokenBehind'
  <2>1. exp' = [exp EXCEPT ![w] =
          [m |-> m, to |-> [u \in Targets |-> IF Eligible(m, u) THEN target[u].binding ELSE 0]]]
    BY <1>7 DEF ExpandRead
  <2>2. target' = target /\ del' = del /\ broken' = broken \ ({m} \X Targets)
    BY <1>7 DEF ExpandRead
  <2>3. ASSUME NEW v \in Dispatchers, NEW u \in Targets, exp'[v].m # None, exp'[v].to[u] # 0
        PROVE  /\ exp'[v].to[u] <= target'[u].binding
               /\ <<exp'[v].m, u>> \in broken' => exp'[v].to[u] < target'[u].binding
    <3>1. CASE v = w
      <4> exp'[v].m = m /\ exp'[v].to[u] = target[u].binding /\ target[u].binding \in Nat
        BY <2>1, <2>3, <3>1 DEF TargetRow
      <4> QED
        BY <2>2
    <3>2. CASE v # w
      BY <2>1, <2>2, <2>3, <3>2 DEF BrokenBehind
    <3> QED
      BY <3>1, <3>2
  <2> QED
    BY <2>2, <2>3 DEF BrokenBehind
<1>8. ASSUME NEW w \in Dispatchers, ExpandWrite(w) PROVE BrokenBehind'
  <2>1. exp' = [exp EXCEPT ![w] = NoExpansion] /\ UNCHANGED <<target, broken>> /\ exp[w].m # None
    BY <1>8 DEF ExpandWrite, history
  <2>2. ASSUME NEW d \in Deliveries, del'[d].state # "none"
        PROVE  /\ del'[d].binding <= target[d[2]].binding
               /\ d \in broken => del'[d].binding < target[d[2]].binding
    <3> d[2] \in Targets /\ d = <<d[1], d[2]>>
      BY DEF Deliveries
    <3>1. CASE d[1] = exp[w].m /\ exp[w].to[d[2]] # 0
      <4> del'[d].binding = exp[w].to[d[2]]
        BY <1>8, <3>1 DEF ExpandWrite, NoDelivery
      <4> QED
        BY <2>1, <3>1 DEF BrokenBehind
    <3>2. CASE ~(d[1] = exp[w].m /\ exp[w].to[d[2]] # 0)
      <4> del'[d] = del[d]
        BY <1>8, <3>2 DEF ExpandWrite
      <4> QED
        BY <2>2 DEF BrokenBehind
    <3> QED
      BY <3>1, <3>2
  <2>3. ASSUME NEW v \in Dispatchers, NEW u \in Targets, exp'[v].m # None
        PROVE  exp'[v] = exp[v]
    BY <2>1, <2>3 DEF NoExpansion
  <2> QED
    BY <2>1, <2>2, <2>3 DEF BrokenBehind
<1>9. ASSUME NEW w \in Dispatchers, Claim(w) PROVE BrokenBehind'
  <2> Rows1
    <3> \A d \in Deliveries : Claimable(d) => del[d].state # "none" /\ ClaimRow(d).binding = del[d].binding
      BY DEF Claimable, ClaimRow, DeliveryRow
    <3> QED
      BY <1>9 DEF Claim
  <2> QED
    BY <1>1, <1>9 DEF Claim, history
<1>10. ASSUME NEW w \in Dispatchers, NEW e \in Deliveries, PrepareRefused(w, e) PROVE BrokenBehind'
  <2> Rows1
    BY <1>10 DEF PrepareRefused, Current, DeliveryRow
  <2> QED
    BY <1>1, <1>10 DEF PrepareRefused, history
<1>11. ASSUME NEW w \in Dispatchers, NEW e \in Deliveries, Finish(w, e) PROVE BrokenBehind'
  <2>1. Rows1
    BY <1>11 DEF Finish, Current, DeliveryRow
  <2>2. exp' = exp
    BY <1>11 DEF Finish
  <2>3. CASE UNCHANGED <<target, lapsed, broken>>
    BY <1>1, <2>1, <2>2, <2>3
  <2>4. CASE /\ target' = [target EXCEPT ![e[2]].state = "invalid", ![e[2]].binding = @ + 1]
             /\ broken' = broken \cup MadeFor(e[2])
    <3> e[2] \in Targets
      BY DEF Deliveries
    <3> target'[e[2]].binding = target[e[2]].binding + 1 /\ \A u \in Targets \ {e[2]} : target'[u] = target[u]
      BY <2>4 DEF TargetRow
    <3> QED
      BY <1>2, <2>1, <2>2, <2>4
  <2> QED
    BY <1>11, <2>3, <2>4 DEF Finish
<1>12. ASSUME NEW e \in Deliveries, LeaseAbandoned(e) \/ LeaseOutrun(e) PROVE BrokenBehind'
  <2> Rows1
    BY <1>12 DEF LeaseAbandoned, LeaseOutrun, RunOut, DeliveryRow
  <2> QED
    BY <1>1, <1>12 DEF LeaseAbandoned, LeaseOutrun, memory, history
<1>13. ASSUME NEW w \in Dispatchers, Crash(w) PROVE BrokenBehind'
  BY <1>1, <1>13 DEF Crash, NoExpansion, history
<1>14. CASE UNCHANGED <<target, broken, del, exp>>
  BY <1>14 DEF BrokenBehind
<1>15. ASSUME NEW m \in Messages, Accept(m) \/ ExpiresAt(m) \/ ResourceChanges(m)
                                   \/ \E c \in Targets \cup {None} : Publish(m, c)
       PROVE  UNCHANGED <<target, broken, del, exp>>
  BY <1>15 DEF Accept, ExpiresAt, ResourceChanges, Publish, memory, history
<1>16. ASSUME EnablePreference \/ UNCHANGED vars PROVE UNCHANGED <<target, broken, del, exp>>
  BY <1>16 DEF EnablePreference, vars, memory, history
<1>17. ASSUME NEW w \in Dispatchers, Stop(w) \/ \E m \in Messages : ExpandOverdue(w, m)
       PROVE  UNCHANGED <<target, broken, del, exp>>
  BY <1>17 DEF Stop, ExpandOverdue, memory, history
<1>18. ASSUME NEW w \in Dispatchers, NEW e \in Deliveries,
              \/ PrepareSend(w, e) \/ FinishFenced(w, e) \/ BookkeepingFails(w, e)
              \/ \E o \in Outcomes, reached \in BOOLEAN : Send(w, e, o, reached)
       PROVE  UNCHANGED <<target, broken, del, exp>>
  BY <1>18 DEF PrepareSend, Send, FinishFenced, BookkeepingFails, history
<1> HIDE DEF Rows1, Reads1
<1> QED
  BY <1>3, <1>4, <1>5, <1>6, <1>7, <1>8, <1>9, <1>10, <1>11, <1>12, <1>13, <1>14, <1>15, <1>16,
     <1>17, <1>18 DEF Next, Expand, Work

LEMMA WantedStep == TypeOK /\ LapsedOlder /\ BrokenBehind /\ [Next]_vars =>
  \A w \in Dispatchers, d \in Deliveries :
    Prepares(w, d) => d \notin broken /\ (d[1] \in Gated => d \notin lapsed)
<1> SUFFICES ASSUME TypeOK, LapsedOlder, BrokenBehind, [Next]_vars,
                    NEW w \in Dispatchers, NEW d \in Deliveries, Prepares(w, d)
             PROVE  d \notin broken /\ (d[1] \in Gated => d \notin lapsed)
  OBVIOUS
<1> hold \in [Dispatchers -> [Deliveries -> ClaimRecord]]
  BY DEF TypeOK
<1>1. hold[w][d].pc = "claimed" /\ hold'[w][d].pc = "prepared"
  BY DEF Prepares
<1>2. PrepareSend(w, d)
  <2>1. CASE UNCHANGED hold
    BY <1>1, <2>1
  <2>2. ASSUME NEW m \in Messages, Accept(m) \/ ExpiresAt(m) \/ Cleanup(m) \/ ResourceChanges(m)
                                     \/ \E c \in Targets \cup {None} : Publish(m, c)
        PROVE  UNCHANGED hold
    BY <2>2 DEF Accept, ExpiresAt, Cleanup, ResourceChanges, Publish, memory
  <2>3. ASSUME \/ \E t \in Targets : RegisterTarget(t) \/ RevokeTarget(t)
               \/ EnablePreference \/ DisablePreference \/ UNCHANGED vars
        PROVE  UNCHANGED hold
    BY <2>3 DEF RegisterTarget, RevokeTarget, EnablePreference, DisablePreference, vars, memory
  <2>4. ASSUME NEW v \in Dispatchers, Expand(v) PROVE UNCHANGED hold
    BY <2>4 DEF Expand, ExpandWrite, ExpandRead, ExpandOverdue, memory
  <2>5. ASSUME NEW e \in Deliveries, LeaseAbandoned(e) \/ LeaseOutrun(e) PROVE UNCHANGED hold
    BY <2>5 DEF LeaseAbandoned, LeaseOutrun, memory
  <2>6. ASSUME NEW v \in Dispatchers, Claim(v) PROVE hold'[w][d].pc # "prepared"
    BY <1>1, <2>6 DEF Claim
  <2>7. ASSUME NEW v \in Dispatchers, Stop(v) \/ Crash(v) PROVE hold'[w][d].pc # "prepared"
    BY <1>1, <2>7 DEF Stop, Crash, NoClaim
  <2>8. ASSUME NEW v \in Dispatchers, NEW e \in Deliveries,
               \/ PrepareRefused(v, e) \/ Finish(v, e) \/ FinishFenced(v, e) \/ BookkeepingFails(v, e)
        PROVE  hold'[w][d].pc # "prepared"
    BY <1>1, <2>8 DEF PrepareRefused, Finish, FinishFenced, BookkeepingFails, Drop, NoClaim
  <2>9. ASSUME NEW v \in Dispatchers, NEW e \in Deliveries, NEW o \in Outcomes, NEW b \in BOOLEAN,
               Send(v, e, o, b)
        PROVE  hold'[w][d].pc # "prepared"
    BY <1>1, <2>9 DEF Send, ClaimRecord
  <2>10. ASSUME NEW v \in Dispatchers, NEW e \in Deliveries, PrepareSend(v, e)
         PROVE  PrepareSend(w, d)
    BY <1>1, <2>10 DEF PrepareSend, ClaimRecord
  <2> QED
    BY <1>1, <2>1, <2>2, <2>3, <2>4, <2>5, <2>6, <2>7, <2>8, <2>9, <2>10 DEF Next, Work
<1>3. Current(w, d) /\ Admissible(d)
  BY <1>2 DEF PrepareSend
<1>4. d \notin broken
  <2> del[d].state # "none" /\ del[d].binding = target[d[2]].binding
    BY <1>3 DEF Current, Admissible, Bound
  <2> target[d[2]].binding \in Nat
    BY DEF TypeOK, TargetRow, Deliveries
  <2> QED
    BY DEF BrokenBehind
<1>5. ASSUME d[1] \in Gated PROVE d \notin lapsed
  <2> Permitted(d[1], d[2]) /\ ~Off(d[2])
    BY <1>3, <1>5 DEF Admissible, Bound, Permitted, Off
  <2> QED
    BY DEF LapsedOlder, Permitted
<1> QED
  BY <1>4, <1>5

(* prepare_send admits nothing unwanted: no call to a target that changed since *)
(* the expansion read it, and, of what the preference routes, only that whose   *)
(* target and preference stayed on from the acceptance of the task to the       *)
(* admission.  What is switched off between admission and call is still called. *)
THEOREM WantedAlways == Spec => SendWanted
<1> DEFINE IInv == TypeOK /\ LapsedOlder /\ BrokenBehind
<1>1. Init => IInv
  <2> SUFFICES ASSUME Init PROVE IInv
    OBVIOUS
  <2>1. LapsedOlder /\ BrokenBehind
    BY DEF Init, LapsedOlder, BrokenBehind, NoDelivery, NoExpansion
  <2> QED
    BY <2>1, InitCorrect
<1>2. IInv /\ [Next]_vars => IInv'
  BY TypeStep, LapsedStep, BrokenStep
<1>3. IInv /\ [Next]_vars =>
        [\A w \in Dispatchers, d \in Deliveries :
           Prepares(w, d) => d \notin broken /\ (d[1] \in Gated => d \notin lapsed)]_vars
  BY WantedStep
<1> QED
  BY <1>1, <1>2, <1>3, PTL DEF Spec, SendWanted

-----------------------------------------------------------------------------
(* How often the provider is called. *)

(* Only a claim counts an attempt; the rest of a row does not matter here. *)
LEMMA TriesStep ==
  ASSUME TypeOK, Rows, Reading, [Next]_vars, \A w \in Dispatchers : ~Claim(w), NEW d \in Deliveries
  PROVE  /\ msg[d[1]].state = "gone" => msg'[d[1]].state = "gone"
         /\ msg'[d[1]].state # "gone" => msg[d[1]].state # "gone" /\ del'[d].tries = del[d].tries
<1> d[1] \in Messages /\ d[2] \in Targets /\ d = <<d[1], d[2]>>
  BY DEF Deliveries
<1> msg \in [Messages -> MessageRow] /\ del \in [Deliveries -> DeliveryRow]
  BY DEF TypeOK
<1>1. ASSUME NEW m \in Messages, Accept(m) \/ Cleanup(m) \/ \E c \in Targets \cup {None} : Publish(m, c)
      PROVE  /\ msg[d[1]].state = "gone" => msg'[d[1]].state = "gone"
             /\ msg'[d[1]].state # "gone" => msg[d[1]].state # "gone" /\ del'[d].tries = del[d].tries
  BY <1>1 DEF Accept, Cleanup, Publish, MessageRow
<1>2. ASSUME NEW w \in Dispatchers, NEW m \in Messages, ExpandOverdue(w, m)
      PROVE  /\ msg[d[1]].state = "gone" => msg'[d[1]].state = "gone"
             /\ msg'[d[1]].state # "gone" => msg[d[1]].state # "gone" /\ del'[d].tries = del[d].tries
  BY <1>2 DEF ExpandOverdue, MessageRow
<1>3. ASSUME NEW w \in Dispatchers, ExpandWrite(w)
      PROVE  /\ msg[d[1]].state = "gone" => msg'[d[1]].state = "gone"
             /\ msg'[d[1]].state # "gone" => msg[d[1]].state # "gone" /\ del'[d].tries = del[d].tries
  <2>1. exp[w].m \in Messages /\ msg[exp[w].m].state = "pending"
    BY <1>3 DEF ExpandWrite, Reading, TypeOK
  <2>2. msg' = [msg EXCEPT ![exp[w].m].state = "expanded"]
    BY <1>3 DEF ExpandWrite
  <2>3. d[1] = exp[w].m => del[d] = NoDelivery
    BY <2>1 DEF Rows
  <2>4. del'[d] = del[d] \/ (d[1] = exp[w].m /\ del'[d].tries = NoDelivery.tries)
    BY <1>3 DEF ExpandWrite, NoDelivery
  <2>5. d[1] # exp[w].m => msg'[d[1]] = msg[d[1]]
    BY <2>2
  <2>6. msg'[exp[w].m].state = "expanded"
    BY <2>1, <2>2 DEF MessageRow
  <2> QED
    BY <2>1, <2>3, <2>4, <2>5, <2>6
<1>4. CASE msg' = msg /\ del'[d].tries = del[d].tries
  BY <1>4
<1>5. ASSUME NEW m \in Messages, ExpiresAt(m) \/ ResourceChanges(m)
      PROVE  msg' = msg /\ del'[d].tries = del[d].tries
  BY <1>5 DEF ExpiresAt, ResourceChanges
<1>6. ASSUME \/ \E t \in Targets : RegisterTarget(t) \/ RevokeTarget(t)
             \/ EnablePreference \/ DisablePreference \/ UNCHANGED vars
      PROVE  msg' = msg /\ del'[d].tries = del[d].tries
  <2> \A S : Skip(S)[d].tries = del[d].tries
    BY DEF Skip, DeliveryRow
  <2> QED
    BY <1>6 DEF RegisterTarget, RevokeTarget, EnablePreference, DisablePreference, vars
<1>7. ASSUME NEW w \in Dispatchers, Stop(w) \/ Crash(w) \/ \E m \in Messages : ExpandRead(w, m)
      PROVE  msg' = msg /\ del'[d].tries = del[d].tries
  BY <1>7 DEF Stop, Crash, ExpandRead
<1>8. ASSUME NEW w \in Dispatchers, NEW e \in Deliveries, PrepareRefused(w, e) \/ Finish(w, e)
      PROVE  msg' = msg /\ del'[d].tries = del[d].tries
  BY <1>8 DEF PrepareRefused, Finish, DeliveryRow
<1>9. ASSUME NEW w \in Dispatchers, NEW e \in Deliveries,
             \/ PrepareSend(w, e) \/ FinishFenced(w, e) \/ BookkeepingFails(w, e)
             \/ \E o \in Outcomes, reached \in BOOLEAN : Send(w, e, o, reached)
      PROVE  msg' = msg /\ del'[d].tries = del[d].tries
  BY <1>9 DEF PrepareSend, Send, FinishFenced, BookkeepingFails
<1>10. ASSUME NEW e \in Deliveries, LeaseAbandoned(e) \/ LeaseOutrun(e)
       PROVE  msg' = msg /\ del'[d].tries = del[d].tries
  BY <1>10 DEF LeaseAbandoned, LeaseOutrun, RunOut, DeliveryRow
<1> QED
  BY <1>1, <1>2, <1>3, <1>4, <1>5, <1>6, <1>7, <1>8, <1>9, <1>10 DEF Next, Expand, Work

(* Only a claim takes a delivery into memory, and a claim keeps its version. *)
LEMMA HoldStep ==
  ASSUME TypeOK, [Next]_vars, \A w \in Dispatchers : ~Claim(w),
         NEW w \in Dispatchers, NEW d \in Deliveries, hold'[w][d].pc # "none"
  PROVE  /\ hold[w][d].pc # "none" /\ hold'[w][d].version = hold[w][d].version
         /\ hold'[w][d].pc \in {"claimed", "prepared"} => hold[w][d].pc \in {"claimed", "prepared"}
<1> hold \in [Dispatchers -> [Deliveries -> ClaimRecord]]
  BY DEF TypeOK
<1>1. CASE hold' = hold
  BY <1>1
<1>2. ASSUME NEW m \in Messages, Accept(m) \/ ExpiresAt(m) \/ Cleanup(m) \/ ResourceChanges(m)
                                   \/ \E c \in Targets \cup {None} : Publish(m, c)
      PROVE  hold' = hold
  BY <1>2 DEF Accept, ExpiresAt, Cleanup, ResourceChanges, Publish, memory
<1>3. ASSUME \/ \E t \in Targets : RegisterTarget(t) \/ RevokeTarget(t)
             \/ EnablePreference \/ DisablePreference \/ UNCHANGED vars
      PROVE  hold' = hold
  BY <1>3 DEF RegisterTarget, RevokeTarget, EnablePreference, DisablePreference, vars, memory
<1>4. ASSUME NEW v \in Dispatchers, Expand(v) PROVE hold' = hold
  BY <1>4 DEF Expand, ExpandWrite, ExpandRead, ExpandOverdue, memory
<1>5. ASSUME NEW e \in Deliveries, LeaseAbandoned(e) \/ LeaseOutrun(e) PROVE hold' = hold
  BY <1>5 DEF LeaseAbandoned, LeaseOutrun, memory
<1>6. ASSUME NEW v \in Dispatchers, Stop(v) \/ Crash(v)
      PROVE  hold'[w][d] = hold[w][d]
  BY <1>6 DEF Stop, Crash, NoClaim
<1>7. ASSUME NEW v \in Dispatchers, NEW e \in Deliveries,
             \/ PrepareRefused(v, e) \/ Finish(v, e) \/ FinishFenced(v, e) \/ BookkeepingFails(v, e)
      PROVE  hold'[w][d] = hold[w][d]
  BY <1>7 DEF PrepareRefused, Finish, FinishFenced, BookkeepingFails, Drop, NoClaim
<1>8. ASSUME NEW v \in Dispatchers, NEW e \in Deliveries,
             PrepareSend(v, e) \/ \E o \in Outcomes, reached \in BOOLEAN : Send(v, e, o, reached)
      PROVE  /\ hold[w][d].pc # "none" /\ hold'[w][d].version = hold[w][d].version
             /\ hold'[w][d].pc \in {"claimed", "prepared"} => hold[w][d].pc \in {"claimed", "prepared"}
  <2> hold[v] \in [Deliveries -> ClaimRecord] /\ hold[v][e] \in ClaimRecord /\ hold[w][d] \in ClaimRecord
    OBVIOUS
  <2>1. CASE ~(w = v /\ d = e)
    <3> hold'[w][d] = hold[w][d]
      BY <1>8, <2>1 DEF PrepareSend, Send
    <3> QED
      OBVIOUS
  <2>2. CASE w = v /\ d = e /\ PrepareSend(w, d)
    BY <2>2 DEF PrepareSend, ClaimRecord
  <2>3. ASSUME NEW o \in Outcomes, NEW reached \in BOOLEAN, w = v /\ d = e /\ Send(w, d, o, reached)
        PROVE  /\ hold[w][d].pc # "none" /\ hold'[w][d].version = hold[w][d].version
               /\ hold'[w][d].pc \in {"claimed", "prepared"} => hold[w][d].pc \in {"claimed", "prepared"}
    BY <2>3 DEF Send, ClaimRecord
  <2> QED
    BY <1>8, <2>1, <2>2, <2>3
<1> QED
  BY <1>1, <1>2, <1>3, <1>4, <1>5, <1>6, <1>7, <1>8 DEF Next, Work

LEMMA CallsStep ==
  ASSUME TypeOK, [Next]_vars, NEW d \in Deliveries,
         \A w \in Dispatchers, o \in Outcomes, reached \in BOOLEAN : ~Send(w, d, o, reached)
  PROVE  calls'[d] = calls[d]
<1> calls \in [Deliveries -> [made : Nat, reached : Nat]]
  BY DEF TypeOK
<1>1. ASSUME NEW m \in Messages, Accept(m) \/ ExpiresAt(m) \/ Cleanup(m) \/ ResourceChanges(m)
                                   \/ \E c \in Targets \cup {None} : Publish(m, c)
      PROVE  calls' = calls
  BY <1>1 DEF Accept, ExpiresAt, Cleanup, ResourceChanges, Publish, history
<1>2. ASSUME \/ \E t \in Targets : RegisterTarget(t) \/ RevokeTarget(t)
             \/ EnablePreference \/ DisablePreference \/ UNCHANGED vars
      PROVE  calls' = calls
  BY <1>2 DEF RegisterTarget, RevokeTarget, EnablePreference, DisablePreference, vars, history
<1>3. ASSUME NEW w \in Dispatchers, Expand(w) PROVE calls' = calls
  BY <1>3 DEF Expand, ExpandWrite, ExpandRead, ExpandOverdue, history
<1>4. ASSUME NEW w \in Dispatchers, Claim(w) \/ Stop(w) \/ Crash(w) PROVE calls' = calls
  BY <1>4 DEF Claim, Stop, Crash, history
<1>5. ASSUME NEW e \in Deliveries, LeaseAbandoned(e) \/ LeaseOutrun(e) PROVE calls' = calls
  BY <1>5 DEF LeaseAbandoned, LeaseOutrun, history
<1>6. ASSUME NEW w \in Dispatchers, NEW e \in Deliveries,
             \/ PrepareSend(w, e) \/ PrepareRefused(w, e) \/ Finish(w, e) \/ FinishFenced(w, e)
             \/ BookkeepingFails(w, e)
      PROVE  calls' = calls
  BY <1>6 DEF PrepareSend, PrepareRefused, Finish, FinishFenced, BookkeepingFails, history
<1>7. ASSUME NEW w \in Dispatchers, NEW e \in Deliveries, NEW o \in Outcomes, NEW reached \in BOOLEAN,
             Send(w, e, o, reached)
      PROVE  calls'[d] = calls[d]
  BY <1>7 DEF Send
<1> QED
  BY <1>1, <1>2, <1>3, <1>4, <1>5, <1>6, <1>7 DEF Next, Work

(* What a claim does to one delivery. *)
LEMMA ClaimOne ==
  ASSUME TypeOK, NEW w \in Dispatchers, Claim(w), NEW d \in Deliveries
  PROVE  /\ msg' = msg /\ calls' = calls /\ faults' = faults
         /\ \A v \in Dispatchers \ {w} : hold'[v] = hold[v]
         /\ hold[w][d].pc = "none"
         /\ \/ /\ del'[d] = del[d] /\ hold'[w][d] = hold[w][d]
            \/ /\ Claimable(d) /\ del'[d].tries = del[d].tries /\ hold'[w][d] = hold[w][d]
            \/ /\ Claimable(d) /\ ~Exhausted(d) /\ del'[d].tries = del[d].tries + 1
               /\ hold'[w][d].pc = "claimed" /\ hold'[w][d].version = del'[d].tries
<1> hold \in [Dispatchers -> [Deliveries -> ClaimRecord]] /\ del[d] \in DeliveryRow
  BY DEF TypeOK
<1>1. PICK S \in SUBSET {e \in Deliveries : Claimable(e)} \ {{}} :
        /\ del' = [e \in Deliveries |-> IF e \in S THEN ClaimRow(e) ELSE del[e]]
        /\ hold' = [hold EXCEPT ![w] = [e \in Deliveries |->
             IF e \in S /\ del'[e].state = "sending"
             THEN [pc |-> "claimed", version |-> del'[e].tries, outcome |-> "none"] ELSE @[e]]]
  BY DEF Claim
<1>2. hold'[w][d] = IF d \in S /\ del'[d].state = "sending"
                    THEN [pc |-> "claimed", version |-> del'[d].tries, outcome |-> "none"] ELSE hold[w][d]
  BY <1>1
<1>3. msg' = msg /\ calls' = calls /\ faults' = faults /\ hold[w][d].pc = "none"
  BY DEF Claim, Between, history, bounds
<1>4. CASE d \notin S
  BY <1>1, <1>2, <1>3, <1>4
<1>5. CASE d \in S
  <2>1. Claimable(d) /\ del'[d] = ClaimRow(d)
    BY <1>1, <1>5
  <2>2. CASE ClaimRow(d).state = "sending"
    <3> ~Exhausted(d) /\ ClaimRow(d).tries = del[d].tries + 1
      BY <2>2 DEF ClaimRow, DeliveryRow
    <3> QED
      BY <1>1, <1>2, <1>3, <1>5, <2>1, <2>2
  <2>3. CASE ClaimRow(d).state # "sending"
    <3> ClaimRow(d).tries = del[d].tries
      BY <2>3 DEF ClaimRow, DeliveryRow
    <3> QED
      BY <1>1, <1>2, <1>3, <2>1, <2>3
  <2> QED
    BY <2>2, <2>3
<1> QED
  BY <1>4, <1>5

LEMMA UnsentFinite ==
  ASSUME NEW d
  PROVE  IsFiniteSet(Unsent(d)) /\ IsFiniteSet(Prepared(d)) /\ Cardinality(Unsent(d)) \in Nat
           /\ Cardinality(Prepared(d)) \in Nat
<1> Unsent(d) \subseteq Dispatchers /\ Prepared(d) \subseteq Dispatchers
  BY DEF Unsent, Prepared
<1> QED
  BY ConstantsAssumption, FS_Subset, FS_CardinalityType

LEMMA VersionsStep == TypeOK /\ Rows /\ Reading /\ Versions /\ [Next]_vars => Versions'
<1> SUFFICES ASSUME TypeOK, Rows, Reading, Versions, [Next]_vars,
                    NEW d \in Deliveries, NEW w \in Dispatchers, hold'[w][d].pc # "none"
             PROVE  /\ msg'[d[1]].state # "gone" => hold'[w][d].version <= del'[d].tries
                    /\ \A v \in Dispatchers :
                         hold'[v][d].pc # "none" /\ hold'[v][d].version = hold'[w][d].version => v = w
  BY DEF Versions
<1> \A v \in Dispatchers : hold[v][d].version \in Nat
  BY DEF TypeOK, ClaimRecord
<1> del[d].tries \in Nat /\ d[1] \in Messages
  BY DEF TypeOK, DeliveryRow, Deliveries
<1>1. CASE \A x \in Dispatchers : ~Claim(x)
  <2>1. \A v \in Dispatchers : hold'[v][d].pc # "none" =>
          hold[v][d].pc # "none" /\ hold'[v][d].version = hold[v][d].version
    BY <1>1, HoldStep
  <2>2. msg'[d[1]].state # "gone" => msg[d[1]].state # "gone" /\ del'[d].tries = del[d].tries
    BY <1>1, TriesStep
  <2> QED
    BY <2>1, <2>2 DEF Versions
<1>2. ASSUME NEW x \in Dispatchers, Claim(x)
      PROVE  /\ msg'[d[1]].state # "gone" => hold'[w][d].version <= del'[d].tries
             /\ \A v \in Dispatchers :
                  hold'[v][d].pc # "none" /\ hold'[v][d].version = hold'[w][d].version => v = w
  <2>1. msg' = msg /\ (\A v \in Dispatchers \ {x} : hold'[v] = hold[v]) /\ hold[x][d].pc = "none"
    BY <1>2, ClaimOne
  <2>2. CASE hold'[x][d] = hold[x][d] /\ del'[d].tries = del[d].tries
    <3> \A v \in Dispatchers : hold'[v][d] = hold[v][d]
      BY <2>1, <2>2
    <3> QED
      BY <2>1, <2>2 DEF Versions
  <2>3. CASE /\ Claimable(d) /\ del'[d].tries = del[d].tries + 1
             /\ hold'[x][d].version = del'[d].tries
    <3>1. msg[d[1]].state # "gone"
      BY <2>3 DEF Rows, Claimable, NoDelivery
    <3>2. \A v \in Dispatchers : v # x /\ hold'[v][d].pc # "none" =>
            /\ hold'[v][d] = hold[v][d] /\ hold[v][d].pc # "none"
            /\ hold'[v][d].version <= del[d].tries
      BY <2>1, <3>1 DEF Versions
    <3>3. CASE w = x
      BY <2>3, <3>2, <3>3
    <3>4. CASE w # x
      BY <2>3, <3>2, <3>4 DEF Versions
    <3> QED
      BY <3>3, <3>4
  <2> QED
    BY <1>2, <2>2, <2>3, ClaimOne
<1> QED
  BY <1>1, <1>2

LEMMA BudgetStep == TypeOK /\ Rows /\ Reading /\ Budgeted /\ [Next]_vars => Budgeted'
<1> SUFFICES ASSUME TypeOK, Rows, Reading, Budgeted, [Next]_vars, NEW d \in Deliveries
             PROVE  /\ del'[d].tries <= MaxAttempts
                    /\ calls'[d].made + Cardinality(Unsent(d)') <= Budget(d)'
  BY DEF Budgeted
<1> MaxAttempts \in Nat /\ del[d].tries \in Nat /\ d[1] \in Messages
  BY ConstantsAssumption DEF TypeOK, DeliveryRow, Deliveries
<1> calls \in [Deliveries -> [made : Nat, reached : Nat]]
  BY DEF TypeOK
<1> calls[d] \in [made : Nat, reached : Nat]
  OBVIOUS
<1> calls[d].made \in Nat
  OBVIOUS
<1>0. /\ del[d].tries <= MaxAttempts /\ calls[d].made + Cardinality(Unsent(d)) <= Budget(d)
      /\ IsFiniteSet(Unsent(d)) /\ Cardinality(Unsent(d)) \in Nat
      /\ IsFiniteSet(Unsent(d)') /\ Cardinality(Unsent(d)') \in Nat
  <2>1. Unsent(d) \subseteq Dispatchers /\ Unsent(d)' \subseteq Dispatchers
    BY DEF Unsent
  <2> QED
    BY <2>1, ConstantsAssumption, FS_Subset, FS_CardinalityType DEF Budgeted
<1>1. CASE \A x \in Dispatchers : ~Claim(x)
  <2>1. Unsent(d)' \subseteq Unsent(d)
    BY <1>1, HoldStep DEF Unsent
  <2>2. Cardinality(Unsent(d)') <= Cardinality(Unsent(d))
    BY <1>0, <2>1, FS_Subset
  <2>3. calls'[d].made + Cardinality(Unsent(d)') <= Budget(d)
    <3>1. CASE \A w \in Dispatchers, o \in Outcomes, reached \in BOOLEAN : ~Send(w, d, o, reached)
      <4> calls'[d] = calls[d]
        BY <3>1, CallsStep
      <4> Budget(d) \in Nat
        BY DEF Budget
      <4> QED
        BY <1>0, <2>2
    <3>2. ASSUME NEW w \in Dispatchers, NEW o \in Outcomes, NEW reached \in BOOLEAN, Send(w, d, o, reached)
          PROVE  calls'[d].made + Cardinality(Unsent(d)') <= Budget(d)
      <4>1. w \in Unsent(d) /\ w \notin Unsent(d)'
        BY <3>2 DEF Send, Unsent, TypeOK, ClaimRecord
      <4>2. Unsent(d)' \subseteq Unsent(d) \ {w}
        BY <2>1, <4>1
      <4>3. /\ Cardinality(Unsent(d) \ {w}) = Cardinality(Unsent(d)) - 1
            /\ IsFiniteSet(Unsent(d) \ {w})
        BY <1>0, <4>1, FS_RemoveElement
      <4>4. Cardinality(Unsent(d)') <= Cardinality(Unsent(d)) - 1
        BY <4>2, <4>3, FS_Subset
      <4>5. calls'[d].made = calls[d].made + 1
        BY <3>2 DEF Send
      <4> Budget(d) \in Nat
        BY DEF Budget
      <4> QED
        BY <1>0, <4>4, <4>5
    <3> QED
      BY <3>1, <3>2
  <2>4. del'[d].tries <= MaxAttempts /\ Budget(d) <= Budget(d)'
    <3>1. /\ msg[d[1]].state = "gone" => msg'[d[1]].state = "gone"
          /\ msg'[d[1]].state # "gone" => msg[d[1]].state # "gone" /\ del'[d].tries = del[d].tries
      BY <1>1, TriesStep
    <3>2. CASE msg'[d[1]].state # "gone"
      BY <1>0, <3>1, <3>2 DEF Budget
    <3>3. CASE msg'[d[1]].state = "gone"
      <4> Rows'
        BY RowsStep
      <4> del'[d].tries = 0
        BY <3>3 DEF Rows, NoDelivery
      <4> QED
        BY <1>0, <3>3 DEF Budget
    <3> QED
      BY <3>2, <3>3
  <2> Budget(d) \in Nat /\ Budget(d)' \in Nat
    <3> del'[d].tries \in Nat
      BY TypeStep DEF TypeOK, DeliveryRow
    <3> QED
      BY DEF Budget
  <2> calls'[d].made \in Nat
    <3> TypeOK'
      BY TypeStep
    <3> calls'[d] \in [made : Nat, reached : Nat]
      BY DEF TypeOK
    <3> QED
      OBVIOUS
  <2> QED
    BY <1>0, <2>3, <2>4
<1>2. ASSUME NEW x \in Dispatchers, Claim(x)
      PROVE  /\ del'[d].tries <= MaxAttempts
             /\ calls'[d].made + Cardinality(Unsent(d)') <= Budget(d)'
  <2>1. /\ msg' = msg /\ calls' = calls
        /\ \A v \in Dispatchers \ {x} : hold'[v] = hold[v]
        /\ hold[x][d].pc = "none"
    BY <1>2, ClaimOne
  <2>2. CASE hold'[x][d] = hold[x][d] /\ del'[d].tries = del[d].tries
    <3> Unsent(d)' = Unsent(d)
      BY <2>1, <2>2 DEF Unsent
    <3> QED
      BY <1>0, <2>1, <2>2 DEF Budget
  <2>3. CASE /\ Claimable(d) /\ ~Exhausted(d) /\ del'[d].tries = del[d].tries + 1
             /\ hold'[x][d].pc = "claimed"
    <3>1. msg[d[1]].state # "gone"
      BY <2>3 DEF Rows, Claimable, NoDelivery
    <3>2. Unsent(d)' = Unsent(d) \cup {x} /\ x \notin Unsent(d)
      BY <2>1, <2>3 DEF Unsent
    <3>3. Cardinality(Unsent(d)') = Cardinality(Unsent(d)) + 1
      BY <1>0, <3>2, FS_AddElement
    <3>4. Budget(d) = del[d].tries /\ Budget(d)' = del[d].tries + 1 /\ del[d].tries < MaxAttempts
      BY <2>1, <2>3, <3>1 DEF Budget, Exhausted
    <3> QED
      BY <1>0, <2>1, <2>3, <3>3, <3>4
  <2> QED
    BY <1>2, <2>2, <2>3, ClaimOne
<1> QED
  BY <1>1, <1>2

(* The provider is called at most max_attempts times for a delivery: every     *)
(* sender that has not called yet holds one of the attempts counted so far.    *)
THEOREM CallsBoundedAlways == Spec => []CallsBounded
<1> DEFINE IInv == TypeOK /\ Rows /\ Reading /\ Budgeted
<1>1. Init => IInv
  <2> SUFFICES ASSUME Init PROVE IInv
    OBVIOUS
  <2>1. TypeOK /\ Rows /\ Reading
    BY InitCorrect
  <2>2. ASSUME NEW d \in Deliveries
        PROVE  del[d].tries <= MaxAttempts /\ calls[d].made + Cardinality(Unsent(d)) <= Budget(d)
    <3>1. Unsent(d) = {}
      BY DEF Init, Unsent, NoClaim
    <3>2. del[d].tries = 0 /\ calls[d].made = 0
      BY DEF Init, NoDelivery
    <3> QED
      BY <3>1, <3>2, FS_EmptySet, ConstantsAssumption DEF Budget
  <2> QED
    BY <2>1, <2>2 DEF Budgeted
<1>2. IInv /\ [Next]_vars => IInv'
  BY TypeStep, RowsStep, ReadingStep, BudgetStep
<1>3. IInv => CallsBounded
  <2> SUFFICES ASSUME TypeOK, Budgeted, NEW d \in Deliveries PROVE calls[d].made <= MaxAttempts
    BY DEF CallsBounded
  <2>1. Cardinality(Unsent(d)) \in Nat
    BY UnsentFinite
  <2>2. calls[d] \in [made : Nat, reached : Nat] /\ del[d].tries \in Nat /\ MaxAttempts \in Nat
    BY ConstantsAssumption DEF TypeOK, DeliveryRow
  <2>3. /\ del[d].tries <= MaxAttempts
        /\ calls[d].made + Cardinality(Unsent(d)) <= Budget(d)
        /\ Budget(d) \in {MaxAttempts, del[d].tries}
    BY DEF Budgeted, Budget
  <2> calls[d].made \in Nat
    BY <2>2
  <2> QED
    BY <2>1, <2>2, <2>3
<1> QED
  BY <1>1, <1>2, <1>3, PTL DEF Spec

-----------------------------------------------------------------------------
(* How often the user is reached. *)

(* A step that neither calls the provider for d nor makes d sendable again. *)
Calm(d) ==
  /\ calls'[d] = calls[d] /\ faults' = faults
  /\ Prepared(d)' \subseteq Prepared(d)
  /\ Preparable(d)' => Preparable(d)

LEMMA ReachingType ==
  ASSUME TypeOK, NEW d \in Deliveries
  PROVE  /\ calls[d].reached \in Nat /\ faults \in Nat
         /\ IsFiniteSet(Prepared(d)) /\ Cardinality(Prepared(d)) \in Nat
<1> calls[d] \in [made : Nat, reached : Nat] /\ faults \in Nat
  BY DEF TypeOK
<1> QED
  BY UnsentFinite

LEMMA CalmExcused ==
  ASSUME TypeOK, Excused, NEW d \in Deliveries, Calm(d)
  PROVE  Reaching(d)' <= faults' + 1
<1>1. Cardinality(Prepared(d)') <= Cardinality(Prepared(d)) /\ Cardinality(Prepared(d)') \in Nat
  BY ReachingType, FS_Subset, FS_CardinalityType DEF Calm
<1>2. Reaching(d) <= faults + 1
  BY DEF Excused
<1> QED
  BY <1>1, <1>2, ReachingType DEF Calm, Reaching

(* A fault may make a delivery sendable once more, and excuses it. *)
LEMMA FaultExcused ==
  ASSUME TypeOK, Excused, NEW d \in Deliveries,
         calls'[d] = calls[d], faults' = faults + 1, Prepared(d)' \subseteq Prepared(d)
  PROVE  Reaching(d)' <= faults' + 1
<1>1. Cardinality(Prepared(d)') <= Cardinality(Prepared(d)) /\ Cardinality(Prepared(d)') \in Nat
  BY ReachingType, FS_Subset, FS_CardinalityType
<1>2. Reaching(d) <= faults + 1
  BY DEF Excused
<1> QED
  BY <1>1, <1>2, ReachingType DEF Reaching

(* Nothing happens to the row or to the claims of d. *)
LEMMA Untouched ==
  ASSUME NEW d, Early(d)' => Early(d), calls'[d] = calls[d], faults' = faults,
         del'[d] = del[d], \A v \in Dispatchers : hold'[v][d] = hold[v][d]
  PROVE  Calm(d)
<1>1. Prepared(d)' = Prepared(d)
  BY DEF Prepared
<1>2. Busy(d)' <=> Busy(d)
  BY DEF Busy, Current
<1> QED
  BY <1>1, <1>2 DEF Calm, Preparable

(* A claim that is not to be sent is dropped, by w. *)
LEMMA Dropped ==
  ASSUME TypeOK, NEW d \in Deliveries, NEW w \in Dispatchers, msg' = msg, calls' = calls, faults' = faults,
         Drop(w, d), hold[w][d].pc # "prepared",
         \/ del'[d].state \notin Open
         \/ del[d].state \in Open /\ ~Busy(d)
         \/ del'[d] = del[d] /\ ~(Current(w, d) /\ hold[w][d].pc = "answered")
  PROVE  Calm(d)
<1> hold \in [Dispatchers -> [Deliveries -> ClaimRecord]]
  BY DEF TypeOK
<1>1. hold'[w][d].pc = "none" /\ \A v \in Dispatchers \ {w} : hold'[v][d] = hold[v][d]
  BY DEF Drop, NoClaim
<1>2. Prepared(d)' \subseteq Prepared(d)
  BY <1>1 DEF Prepared
<1>3. ASSUME del'[d] = del[d], ~(Current(w, d) /\ hold[w][d].pc = "answered"), Busy(d)
      PROVE  Busy(d)'
  <2>1. PICK v \in Dispatchers : /\ Current(v, d)
                                 /\ \/ hold[v][d].pc = "prepared"
                                    \/ hold[v][d].pc = "answered" /\ hold[v][d].outcome = "accepted"
    BY <1>3 DEF Busy
  <2>2. v # w
    BY <1>3, <2>1
  <2> QED
    BY <1>1, <1>3, <2>1, <2>2 DEF Busy, Current
<1> QED
  BY <1>2, <1>3 DEF Calm, Preparable, Early

(* Of the claims of one delivery at most one is current. *)
LEMMA OneCurrent ==
  ASSUME TypeOK, Versions, NEW d \in Deliveries, NEW v \in Dispatchers, NEW w \in Dispatchers,
         Current(v, d), Current(w, d), hold[v][d].pc # "none", hold[w][d].pc # "none"
  PROVE  v = w
  BY DEF Versions, Current

LEMMA PrepareExcused ==
  ASSUME TypeOK, Rows, Versions, Excused, NEW d \in Deliveries, NEW w \in Dispatchers, PrepareSend(w, d)
  PROVE  Reaching(d)' <= faults' + 1
<1> hold \in [Dispatchers -> [Deliveries -> ClaimRecord]]
  BY DEF TypeOK
<1>1. /\ hold[w][d].pc = "claimed" /\ Current(w, d)
      /\ hold'[w][d].pc = "prepared" /\ hold'[w][d].version = hold[w][d].version
      /\ \A v \in Dispatchers \ {w} : hold'[v][d] = hold[v][d]
      /\ msg' = msg /\ del' = del /\ calls' = calls /\ faults' = faults
  BY DEF PrepareSend, ClaimRecord, history, bounds
<1>2. Preparable(d)
  BY <1>1, OneCurrent DEF Preparable, Busy, Current, Open
<1>3. Prepared(d)' = Prepared(d) \cup {w} /\ w \notin Prepared(d)
  BY <1>1 DEF Prepared
<1>4. Cardinality(Prepared(d)') = Cardinality(Prepared(d)) + 1
  BY <1>3, ReachingType, FS_AddElement
<1>5. Reaching(d) <= faults + 1
  BY DEF Excused
<1>6. ~Early(d)' /\ Busy(d)'
  <2> ~Early(d)
    BY <1>1 DEF Rows, Current, NoDelivery, Early
  <2> QED
    BY <1>1 DEF Early, Busy, Current
<1>7. ~Preparable(d)'
  BY <1>6 DEF Preparable
<1> QED
  BY <1>1, <1>2, <1>4, <1>5, <1>7, ReachingType DEF Reaching

LEMMA SendExcused ==
  ASSUME TypeOK, Excused, NEW d \in Deliveries, NEW w \in Dispatchers,
         NEW o \in Outcomes, NEW reached \in BOOLEAN, Send(w, d, o, reached)
  PROVE  Reaching(d)' <= faults' + 1
<1> hold \in [Dispatchers -> [Deliveries -> ClaimRecord]]
  BY DEF TypeOK
<1> calls \in [Deliveries -> [made : Nat, reached : Nat]] /\ calls[d] \in [made : Nat, reached : Nat]
  BY DEF TypeOK
<1>1. /\ hold[w][d].pc = "prepared"
      /\ hold'[w][d].pc = "answered" /\ hold'[w][d].outcome = o
      /\ hold'[w][d].version = hold[w][d].version
      /\ \A v \in Dispatchers \ {w} : hold'[v][d] = hold[v][d]
      /\ msg' = msg /\ del' = del
  BY DEF Send, ClaimRecord
<1>2. calls'[d].reached = IF reached THEN calls[d].reached + 1 ELSE calls[d].reached
  BY DEF Send
<1>3. Prepared(d)' = Prepared(d) \ {w} /\ w \in Prepared(d)
  BY <1>1 DEF Prepared
<1>4. Cardinality(Prepared(d)') = Cardinality(Prepared(d)) - 1
  BY <1>3, ReachingType, FS_RemoveElement
<1>5. Reaching(d) <= faults + 1
  BY DEF Excused
<1>6. CASE ~reached
  <2> faults' = faults
    BY <1>6 DEF Send
  <2> QED
    BY <1>2, <1>4, <1>5, <1>6, ReachingType DEF Reaching
<1>7. CASE reached /\ o = "retryable"
  <2> faults' = faults + 1
    BY <1>7 DEF Send, Fault
  <2> QED
    BY <1>2, <1>4, <1>5, <1>7, ReachingType DEF Reaching
<1>8. CASE reached /\ o = "accepted"
  <2>1. faults' = faults
    BY <1>8 DEF Send
  <2>2. Busy(d) => Busy(d)'
    BY <1>1, <1>8 DEF Busy, Current
  <2>3. Preparable(d)' => Preparable(d)
    BY <1>1, <2>2 DEF Preparable, Early
  <2> QED
    BY <1>2, <1>4, <1>5, <1>8, <2>1, <2>3, ReachingType DEF Reaching
<1> QED
  BY <1>6, <1>7, <1>8 DEF Send, Outcomes

LEMMA ExcusedStep == TypeOK /\ Rows /\ Reading /\ Versions /\ Excused /\ [Next]_vars => Excused'
<1> SUFFICES ASSUME TypeOK, Rows, Reading, Versions, Excused, [Next]_vars, NEW d \in Deliveries
             PROVE  Reaching(d)' <= faults' + 1
  BY DEF Excused
<1> d[1] \in Messages /\ d[2] \in Targets /\ d = <<d[1], d[2]>>
  BY DEF Deliveries
<1> msg \in [Messages -> MessageRow] /\ del \in [Deliveries -> DeliveryRow]
  BY DEF TypeOK
<1> hold \in [Dispatchers -> [Deliveries -> ClaimRecord]]
  BY DEF TypeOK
<1>1. Calm(d) => Reaching(d)' <= faults' + 1
  BY CalmExcused
<1>2. ASSUME NEW m \in Messages, Accept(m) \/ ExpiresAt(m) \/ ResourceChanges(m) PROVE Calm(d)
  BY <1>2, Untouched DEF Accept, ExpiresAt, ResourceChanges, memory, history, bounds, Early, MessageRow
<1>3. ASSUME NEW m \in Messages, NEW c \in Targets \cup {None}, Publish(m, c) PROVE Calm(d)
  BY <1>3, Untouched DEF Publish, memory, history, bounds, Early, MessageRow
<1>4. ASSUME NEW m \in Messages, Cleanup(m) PROVE Calm(d)
  <2>1. CASE d[1] = m
    <3>1. ~Early(d)' /\ del'[d].state = "none"
      BY <1>4, <2>1 DEF Cleanup, MessageRow, Early, NoDelivery
    <3>2. Prepared(d)' = Prepared(d)
      BY <1>4 DEF Cleanup, memory, Prepared
    <3> QED
      BY <1>4, <3>1, <3>2 DEF Cleanup, memory, history, bounds, Calm, Preparable, Open
  <2>2. CASE d[1] # m
    BY <1>4, <2>2, Untouched DEF Cleanup, memory, history, bounds, Early
  <2> QED
    BY <2>1, <2>2
<1>5. ASSUME NEW t \in Targets, RegisterTarget(t) PROVE Calm(d)
  BY <1>5, Untouched DEF RegisterTarget, memory, Early
<1>6. ASSUME DisablePreference \/ \E t \in Targets : RevokeTarget(t) PROVE Calm(d)
  <2>1. UNCHANGED <<msg, hold, calls, faults>>
    BY <1>6 DEF DisablePreference, RevokeTarget, memory
  <2>2. \A S : Skip(S)[d] = del[d] \/ Skip(S)[d].state = "skipped"
    BY DEF Skip, DeliveryRow
  <2>3. del'[d] = del[d] \/ del'[d].state = "skipped"
    BY <1>6, <2>2 DEF DisablePreference, RevokeTarget
  <2>4. CASE del'[d] = del[d]
    BY <2>1, <2>4, Untouched DEF Early
  <2>5. CASE del'[d].state = "skipped"
    BY <2>1, <2>5 DEF Calm, Prepared, Preparable, Early, Open
  <2> QED
    BY <2>3, <2>4, <2>5
<1>7. CASE EnablePreference
  BY <1>1, <1>7, Untouched DEF EnablePreference, memory, history, Early
<1>8. ASSUME NEW w \in Dispatchers, NEW m \in Messages, ExpandOverdue(w, m) \/ ExpandRead(w, m) PROVE Calm(d)
  BY <1>8, Untouched DEF ExpandOverdue, ExpandRead, memory, history, bounds, Early, MessageRow
<1>9. ASSUME NEW w \in Dispatchers, ExpandWrite(w) PROVE Calm(d)
  <2>1. exp[w].m \in Messages /\ msg[exp[w].m].state = "pending"
    BY <1>9 DEF ExpandWrite, Reading, TypeOK
  <2>2. UNCHANGED <<hold, calls, faults>> /\ msg' = [msg EXCEPT ![exp[w].m].state = "expanded"]
    BY <1>9 DEF ExpandWrite, history, bounds
  <2>3. CASE d[1] = exp[w].m
    BY <2>1, <2>2, <2>3 DEF Calm, Prepared, Preparable, Early
  <2>4. CASE d[1] # exp[w].m
    <3> del'[d] = del[d]
      BY <1>9, <2>4 DEF ExpandWrite
    <3> QED
      BY <2>2, <2>4, Untouched DEF Early
  <2> QED
    BY <2>3, <2>4
<1>10. ASSUME NEW w \in Dispatchers, Claim(w) PROVE Calm(d)
  <2>1. /\ msg' = msg /\ calls' = calls /\ faults' = faults
        /\ \A v \in Dispatchers \ {w} : hold'[v] = hold[v]
        /\ hold[w][d].pc = "none"
    BY <1>10, ClaimOne
  <2>2. CASE del'[d] = del[d] /\ hold'[w][d] = hold[w][d]
    BY <2>1, <2>2, Untouched DEF Early
  <2>3. CASE Claimable(d) /\ (hold'[w][d] = hold[w][d] \/ hold'[w][d].pc = "claimed")
    <3>1. Preparable(d)
      BY <2>3 DEF Claimable, Preparable, Open, Busy, Current
    <3>2. Prepared(d)' \subseteq Prepared(d)
      BY <2>1, <2>3 DEF Prepared
    <3> QED
      BY <2>1, <3>1, <3>2 DEF Calm
  <2> QED
    BY <1>10, <2>2, <2>3, ClaimOne
<1>11. ASSUME NEW w \in Dispatchers, NEW e \in Deliveries \ {d},
              \/ PrepareSend(w, e) \/ PrepareRefused(w, e) \/ Finish(w, e) \/ FinishFenced(w, e)
       PROVE  Calm(d)
  <2>1. \A v \in Dispatchers : hold'[v][d] = hold[v][d]
    BY <1>11 DEF PrepareSend, PrepareRefused, Finish, FinishFenced, Drop
  <2>2. del'[d] = del[d]
    BY <1>11 DEF PrepareSend, PrepareRefused, Finish, FinishFenced
  <2>3. UNCHANGED <<msg, calls, faults>>
    BY <1>11 DEF PrepareSend, PrepareRefused, Finish, FinishFenced, history, bounds
  <2> QED
    BY <2>1, <2>2, <2>3, Untouched DEF Early
<1>12. ASSUME NEW w \in Dispatchers, NEW e \in Deliveries \ {d}, NEW o \in Outcomes, NEW reached \in BOOLEAN,
              Send(w, e, o, reached)
       PROVE  Reaching(d)' <= faults' + 1
  <2>1. \A v \in Dispatchers : hold'[v][d] = hold[v][d]
    BY <1>12 DEF Send
  <2>2. calls'[d] = calls[d] /\ UNCHANGED <<msg, del>>
    <3> calls \in [Deliveries -> [made : Nat, reached : Nat]]
      BY DEF TypeOK
    <3> QED
      BY <1>12 DEF Send
  <2>3. faults' = faults \/ faults' = faults + 1
    BY <1>12 DEF Send, Fault
  <2>4. Prepared(d)' \subseteq Prepared(d)
    BY <2>1 DEF Prepared
  <2>5. faults' = faults => Calm(d)
    BY <2>1, <2>2, Untouched DEF Early
  <2> QED
    BY <1>1, <2>2, <2>3, <2>4, <2>5, FaultExcused
<1>13. ASSUME NEW w \in Dispatchers, PrepareRefused(w, d) PROVE Calm(d)
  <2>1. UNCHANGED <<msg, calls, faults>> /\ Drop(w, d) /\ hold[w][d].pc = "claimed"
    BY <1>13 DEF PrepareRefused, history, bounds
  <2>2. del'[d].state \notin Open \/ del'[d] = del[d]
    BY <1>13 DEF PrepareRefused, Open, DeliveryRow
  <2> QED
    BY <2>1, <2>2, Dropped
<1>14. ASSUME NEW w \in Dispatchers, Finish(w, d) PROVE Calm(d)
  <2>1. UNCHANGED <<msg, calls, faults>> /\ Drop(w, d) /\ hold[w][d].pc = "answered" /\ Current(w, d)
    BY <1>14 DEF Finish, bounds
  <2>2. CASE hold[w][d].outcome = "accepted"
    <3> del'[d].state \in {"skipped", "accepted"}
      BY <1>14, <2>2 DEF Finish, Recorded, DeliveryRow
    <3> QED
      BY <2>1, Dropped DEF Open
  <2>3. CASE hold[w][d].outcome # "accepted"
    <3> ~Busy(d)
      BY <2>1, <2>3, OneCurrent DEF Busy
    <3> del[d].state \in Open
      BY <2>1 DEF Current, Open
    <3> QED
      BY <2>1, Dropped
  <2> QED
    BY <2>2, <2>3
<1>15. ASSUME NEW w \in Dispatchers, FinishFenced(w, d) PROVE Calm(d)
  <2> /\ UNCHANGED <<msg, calls, faults, del>> /\ Drop(w, d)
      /\ hold[w][d].pc = "answered" /\ ~Current(w, d)
    BY <1>15 DEF FinishFenced, history, bounds
  <2> QED
    BY Dropped
<1>16. ASSUME NEW e \in Deliveries, LeaseAbandoned(e) PROVE Calm(d)
  <2>1. UNCHANGED <<msg, calls, faults, hold>>
    BY <1>16 DEF LeaseAbandoned, memory, history, bounds
  <2>2. CASE e # d
    <3> del'[d] = del[d]
      BY <1>16, <2>2 DEF LeaseAbandoned, RunOut
    <3> QED
      BY <2>1, Untouched DEF Early
  <2>3. CASE e = d
    <3>1. ~Busy(d)
      BY <1>16, <2>3 DEF LeaseAbandoned, Live, Busy
    <3>2. del'[d].state = del[d].state
      BY <1>16, <2>3 DEF LeaseAbandoned, RunOut, DeliveryRow
    <3> QED
      BY <2>1, <3>1, <3>2 DEF Calm, Prepared, Preparable, Early
  <2> QED
    BY <2>2, <2>3
(* Faults. *)
<1>17. ASSUME NEW w \in Dispatchers, Stop(w) \/ Crash(w) PROVE Reaching(d)' <= faults' + 1
  <2>1. calls'[d] = calls[d] /\ faults' = faults + 1
    BY <1>17 DEF Stop, Crash, Fault, history
  <2>2. Prepared(d)' \subseteq Prepared(d)
    BY <1>17 DEF Stop, Crash, Prepared, NoClaim
  <2> QED
    BY <2>1, <2>2, FaultExcused
<1>18. ASSUME NEW w \in Dispatchers, NEW e \in Deliveries, BookkeepingFails(w, e)
       PROVE  Reaching(d)' <= faults' + 1
  <2>1. calls'[d] = calls[d] /\ faults' = faults + 1
    BY <1>18 DEF BookkeepingFails, Fault, history
  <2>2. Prepared(d)' \subseteq Prepared(d)
    BY <1>18 DEF BookkeepingFails, Prepared, Drop, NoClaim
  <2> QED
    BY <2>1, <2>2, FaultExcused
<1>19. ASSUME NEW e \in Deliveries, LeaseOutrun(e) PROVE Reaching(d)' <= faults' + 1
  <2>1. calls'[d] = calls[d] /\ faults' = faults + 1 /\ Prepared(d)' \subseteq Prepared(d)
    BY <1>19 DEF LeaseOutrun, Fault, memory, history, Prepared
  <2> QED
    BY <2>1, FaultExcused
<1>20. CASE UNCHANGED vars
  BY <1>1, <1>20, Untouched DEF vars, Early
<1>21. ASSUME NEW w \in Dispatchers, NEW e \in Deliveries, Work(w, e) PROVE Reaching(d)' <= faults' + 1
  <2>1. CASE e = d
    BY <1>1, <1>13, <1>14, <1>15, <1>21, <2>1, PrepareExcused, SendExcused DEF Work
  <2>2. CASE e # d
    BY <1>1, <1>11, <1>12, <1>21, <2>2 DEF Work
  <2> QED
    BY <2>1, <2>2
<1>22. ASSUME NEW w \in Dispatchers, Expand(w) PROVE Calm(d)
  BY <1>8, <1>9, <1>22 DEF Expand
<1> QED
  BY <1>1, <1>2, <1>3, <1>4, <1>5, <1>6, <1>7, <1>10, <1>16, <1>17, <1>18, <1>19, <1>20, <1>21, <1>22 DEF Next

(* The user is reached again by the same delivery only when an answer was lost. *)
(* Without a fault a delivery has at most one sender past prepare_send(), and   *)
(* is not sendable while that sender works or has an acceptance to record.      *)
THEOREM RepeatsExcusedAlways == Spec => []RepeatsExcused
<1> DEFINE IInv == TypeOK /\ Rows /\ Reading /\ Versions /\ Excused
<1>1. Init => IInv
  <2> SUFFICES ASSUME Init PROVE IInv
    OBVIOUS
  <2>1. Versions
    BY DEF Init, Versions, NoClaim
  <2>2. ASSUME NEW d \in Deliveries PROVE Reaching(d) <= faults + 1
    <3>1. Prepared(d) = {}
      BY DEF Init, Prepared, NoClaim
    <3>2. calls[d].reached = 0 /\ faults = 0
      BY DEF Init
    <3> QED
      BY <3>1, <3>2, FS_EmptySet DEF Reaching
  <2> QED
    BY <2>1, <2>2, InitCorrect DEF Excused
<1>2. IInv /\ [Next]_vars => IInv'
  BY TypeStep, RowsStep, ReadingStep, VersionsStep, ExcusedStep
<1>3. IInv => RepeatsExcused
  <2> SUFFICES ASSUME TypeOK, Excused, NEW d \in Deliveries PROVE calls[d].reached <= 1 + faults
    BY DEF RepeatsExcused
  <2> Reaching(d) <= faults + 1
    BY DEF Excused
  <2> QED
    BY ReachingType DEF Reaching
<1> QED
  BY <1>1, <1>2, <1>3, PTL DEF Spec
=============================================================================
