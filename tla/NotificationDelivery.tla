------------------------ MODULE NotificationDelivery ------------------------
(***************************************************************************)
(* Delivery of notifications: messages of one user, the user's targets     *)
(* (browsers) and the deliveries between them.                             *)
(*                                                                         *)
(* Dispatchers run ticks: expand a message into deliveries, claim due      *)
(* deliveries under a lease, send each one in a thread of its own, record  *)
(* the answers. The user registers and revokes targets and switches the    *)
(* preference meanwhile. Each action is one transaction, or a call of the  *)
(* provider between two of them. expand() is split where it has read the   *)
(* targets without locking them and has not yet written the deliveries.    *)
(***************************************************************************)
EXTENDS Naturals, FiniteSets

CONSTANTS
  Dispatchers,  \* processes that run a NotificationDispatcher
  Messages,     \* messages of the user
  Targets,      \* targets of the user, of one channel and provider
  None,         \* no message, no target
  Concurrency,  \* config.concurrency: deliveries of one claim
  MaxAttempts,  \* config.max_attempts
  MaxActs,      \* bound: changes made by the user or to the resource
  MaxFaults     \* bound: crashes, failed bookkeeping, slow senders, answers lost on the way

ASSUME ConstantsAssumption ==
  /\ None \notin Messages /\ None \notin Targets
  /\ IsFiniteSet(Dispatchers)
  /\ Concurrency \in Nat \ {0} /\ MaxAttempts \in Nat \ {0}
  /\ MaxActs \in Nat /\ MaxFaults \in Nat

VARIABLES
  msg,      \* per message: not accepted, accepted, or expansion_state, "gone" when deleted;
            \* and notify_target_id, None when the preference routes the message
  overdue,  \* messages whose expires_at has passed
  visible,  \* messages whose subject and resource pass the read guards
  target,   \* notification_targets: state, binding_version, messages older than enabled_since
  pref,     \* the notification_preferences row: enabled, messages older than enabled_since
  del,      \* notification_deliveries; tries is attempts and claim_version, counted together
  exp,      \* per dispatcher: the message it expands and the binding it read of each target
  hold,     \* per dispatcher: the claims in its memory
  calls,    \* history: calls of the provider, and how many of them reached the user
  lapsed,   \* history: <<m, t>> with t or the preference off at some time since m was accepted
  broken,   \* history: <<m, t>> whose target changed after its expansion read it
  acts, faults  \* how much of the bounds is used

vars == <<msg, overdue, visible, target, pref, del, exp, hold, calls, lapsed, broken,
          acts, faults>>
memory == <<exp, hold>>
history == <<calls, lapsed, broken>>
bounds == <<acts, faults>>

Deliveries == Messages \X Targets
Gated == {m \in Messages : msg[m].chosen = None}
Accepted == {m \in Messages : msg[m].state # "none"}
Open == {"pending", "sending"}

NoDelivery == [state |-> "none", tries |-> 0, leased |-> FALSE, binding |-> 0]
NoExpansion == [m |-> None, to |-> [t \in Targets |-> 0]]
NoClaim == [pc |-> "none", version |-> 0, outcome |-> "none"]

Init ==
  /\ msg = [m \in Messages |-> [state |-> "none", chosen |-> None]]
  /\ overdue = {}
  /\ visible = Messages
  /\ target \in [Targets -> {[state |-> "none", binding |-> 0, older |-> {}],
                             [state |-> "active", binding |-> 1, older |-> {}]}]
  /\ pref \in [enabled : BOOLEAN, older : {{}}]
  /\ del = [d \in Deliveries |-> NoDelivery]
  /\ exp = [w \in Dispatchers |-> NoExpansion]
  /\ hold = [w \in Dispatchers |-> [d \in Deliveries |-> NoClaim]]
  /\ calls = [d \in Deliveries |-> [made |-> 0, reached |-> 0]]
  /\ lapsed = {} /\ broken = {}
  /\ acts = 0 /\ faults = 0

Act == acts < MaxActs /\ acts' = acts + 1
Fault == faults < MaxFaults /\ faults' = faults + 1

(* Deliveries that a sweep closes. *)
Skip(S) == [d \in Deliveries |->
              IF d \in S /\ del[d].state \in Open
              THEN [del[d] EXCEPT !.state = "skipped", !.leased = FALSE] ELSE del[d]]

-----------------------------------------------------------------------------
(* Messages: the task is accepted, its event published, its time runs out. *)

Off(t) == target[t].state # "active" \/ ~pref.enabled

Accept(m) ==
  /\ msg[m].state = "none"
  /\ msg' = [msg EXCEPT ![m].state = "accepted"]
  /\ lapsed' = lapsed \cup {d \in {m} \X Targets : Off(d[2])}
  /\ UNCHANGED <<overdue, visible, target, pref, del, memory, calls, broken, bounds>>

Publish(m, chosen) ==
  /\ msg[m].state = "accepted"
  /\ msg' = [msg EXCEPT ![m] = [state |-> "pending", chosen |-> chosen]]
  /\ UNCHANGED <<overdue, visible, target, pref, del, memory, history, bounds>>

ExpiresAt(m) ==
  /\ msg[m].state \in {"pending", "expanded"} /\ m \notin overdue
  /\ overdue' = overdue \cup {m}
  /\ UNCHANGED <<msg, visible, target, pref, del, memory, history, bounds>>

Cleanup(m) ==
  /\ m \in overdue /\ msg[m].state # "gone"
  /\ \A w \in Dispatchers : exp[w].m # m
  /\ msg' = [msg EXCEPT ![m].state = "gone"]
  /\ del' = [d \in Deliveries |-> IF d[1] = m THEN NoDelivery ELSE del[d]]
  /\ UNCHANGED <<overdue, visible, target, pref, memory, history, bounds>>

(* The runner answers its wait, the user or the tenant is disabled, or comes back. *)
ResourceChanges(m) ==
  /\ Act
  /\ visible' = IF m \in visible THEN visible \ {m} ELSE visible \cup {m}
  /\ UNCHANGED <<msg, overdue, target, pref, del, memory, history, faults>>

-----------------------------------------------------------------------------
(* The user's targets and preference. *)

\* Mutant of SubjectLocked: an expansion does not keep the switch out.
Unlocked == FALSE

(* lock_subject: held by an expansion until it commits. *)
SubjectLocked == \E w \in Dispatchers : exp[w].m # None

(* Deliveries written, or about to be, for target t. *)
MadeFor(t) == {d \in Messages \X {t} :
                 \/ del[d].state # "none"
                 \/ \E w \in Dispatchers : exp[w].m = d[1] /\ exp[w].to[t] # 0}

(* Another address of a target, or a target that was revoked or found invalid. *)
RegisterTarget(t) ==
  /\ Act
  /\ target' = [target EXCEPT ![t] =
       [state |-> "active", binding |-> @.binding + 1,
        older |-> IF @.state = "active" THEN @.older ELSE Accepted]]
  /\ broken' = broken \cup MadeFor(t)
  /\ UNCHANGED <<msg, overdue, visible, pref, del, memory, calls, lapsed, faults>>

RevokeTarget(t) ==
  /\ Act
  /\ target[t].state # "none"
  /\ target' = [target EXCEPT ![t].state = "revoked", ![t].binding = @ + 1]
  /\ del' = Skip(Messages \X {t})
  /\ lapsed' = lapsed \cup (Accepted \X {t})
  /\ broken' = broken \cup MadeFor(t)
  /\ UNCHANGED <<msg, overdue, visible, pref, memory, calls, faults>>

EnablePreference ==
  /\ Act
  /\ ~SubjectLocked /\ ~pref.enabled
  /\ pref' = [enabled |-> TRUE, older |-> Accepted]
  /\ UNCHANGED <<msg, overdue, visible, target, del, memory, history, faults>>

(* The sweep takes every delivery of the channel, chosen targets included. *)
DisablePreference ==
  /\ Act
  /\ ~SubjectLocked
  /\ pref' = [pref EXCEPT !.enabled = FALSE]
  /\ del' = Skip(Deliveries)
  /\ lapsed' = lapsed \cup (Accepted \X Targets)
  /\ UNCHANGED <<msg, overdue, visible, target, memory, calls, broken, faults>>

-----------------------------------------------------------------------------
(* A dispatcher's tick: expand, claim, send all, and again. *)

Between(w) == exp[w].m = None /\ \A d \in Deliveries : hold[w][d].pc = "none"

(* Preference and target were enabled when the message's task was accepted. *)
Permitted(m, t) == pref.enabled /\ m \notin pref.older /\ m \notin target[t].older

Eligible(m, t) ==
  /\ m \in visible
  /\ target[t].state = "active"
  /\ IF m \in Gated THEN Permitted(m, t) ELSE msg[m].chosen = t

ExpandOverdue(w, m) ==
  /\ Between(w)
  /\ msg[m].state = "pending" /\ m \in overdue
  /\ \A v \in Dispatchers : exp[v].m # m
  /\ msg' = [msg EXCEPT ![m].state = "expired"]
  /\ UNCHANGED <<overdue, visible, target, pref, del, memory, history, bounds>>

ExpandRead(w, m) ==
  /\ Between(w)
  /\ msg[m].state = "pending" /\ m \notin overdue
  /\ ~SubjectLocked
  /\ exp' = [exp EXCEPT ![w] =
       [m |-> m, to |-> [t \in Targets |-> IF Eligible(m, t) THEN target[t].binding ELSE 0]]]
  /\ broken' = broken \ ({m} \X Targets)
  /\ UNCHANGED <<msg, overdue, visible, target, pref, del, hold, calls, lapsed, bounds>>

(* A delivery that cannot be rendered is written as failed. *)
ExpandWrite(w) ==
  /\ exp[w].m # None
  /\ \E Unrendered \in SUBSET {t \in Targets : exp[w].to[t] # 0} :
       del' = [d \in Deliveries |->
         IF d[1] = exp[w].m /\ exp[w].to[d[2]] # 0
         THEN [NoDelivery EXCEPT !.state = IF d[2] \in Unrendered THEN "failed" ELSE "pending",
                                 !.binding = exp[w].to[d[2]]]
         ELSE del[d]]
  /\ msg' = [msg EXCEPT ![exp[w].m].state = "expanded"]
  /\ exp' = [exp EXCEPT ![w] = NoExpansion]
  /\ UNCHANGED <<overdue, visible, target, pref, hold, history, bounds>>

\* Mutant of Claimable: the lease of the sender is not looked at.
ClaimableSending(d) == del[d].state \in {"pending", "sending"}

\* Mutant of Claimable: what a sender left behind is not taken over.
ClaimablePending(d) == del[d].state = "pending"

(* What is due: waiting, or left behind by a sender whose lease ran out. *)
Claimable(d) == del[d].state = "pending" \/ (del[d].state = "sending" /\ ~del[d].leased)

\* Mutant of Exhausted: one attempt too many.
ExhaustedLate(d) == del[d].tries > MaxAttempts

Exhausted(d) == del[d].tries >= MaxAttempts

ClaimRow(d) ==
  IF d[1] \in overdue THEN [del[d] EXCEPT !.state = "expired"]
  ELSE IF Exhausted(d) THEN [del[d] EXCEPT !.state = "failed"]
  ELSE [del[d] EXCEPT !.state = "sending", !.leased = TRUE, !.tries = @ + 1]

(* SKIP LOCKED: any of the due rows, up to the limit. *)
Claim(w) ==
  /\ Between(w)
  /\ \E S \in SUBSET {d \in Deliveries : Claimable(d)} \ {{}} :
       /\ Cardinality(S) <= Concurrency
       /\ del' = [d \in Deliveries |-> IF d \in S THEN ClaimRow(d) ELSE del[d]]
       /\ hold' = [hold EXCEPT ![w] = [d \in Deliveries |->
            IF d \in S /\ del'[d].state = "sending"
            THEN [pc |-> "claimed", version |-> del'[d].tries, outcome |-> "none"] ELSE @[d]]]
  /\ UNCHANGED <<msg, overdue, visible, target, pref, exp, history, bounds>>

(* The fence of prepare_send() and finish(); a version has one owner. *)
Current(w, d) ==
  del[d].state = "sending" /\ del[d].leased /\ del[d].tries = hold[w][d].version

\* Mutant of Bound: the version of the binding is not compared.
BoundActive(d) == target[d[2]].state = "active"

(* The target is still the one that the delivery was made for. *)
Bound(d) == target[d[2]].state = "active" /\ target[d[2]].binding = del[d].binding

Admissible(d) ==
  /\ Bound(d) /\ d[1] \notin overdue /\ d[1] \in visible
  /\ d[1] \in Gated => Permitted(d[1], d[2])

Drop(w, d) == hold' = [hold EXCEPT ![w][d] = NoClaim]

PrepareSend(w, d) ==
  /\ hold[w][d].pc = "claimed"
  /\ Current(w, d) /\ Admissible(d)
  /\ hold' = [hold EXCEPT ![w][d].pc = "prepared"]
  /\ UNCHANGED <<msg, overdue, visible, target, pref, del, exp, history, bounds>>

PrepareRefused(w, d) ==
  /\ hold[w][d].pc = "claimed"
  /\ ~(Current(w, d) /\ Admissible(d))
  /\ Drop(w, d)
  /\ del' = IF Current(w, d)
            THEN [del EXCEPT ![d].leased = FALSE,
                             ![d].state = IF Bound(d) /\ d[1] \in overdue THEN "expired" ELSE "skipped"]
            ELSE del
  /\ UNCHANGED <<msg, overdue, visible, target, pref, exp, history, bounds>>

(* The provider answers; a call that broke off may have reached the user. *)
Send(w, d, outcome, reached) ==
  /\ hold[w][d].pc = "prepared"
  /\ outcome = "accepted" => reached
  /\ outcome \in {"permanent_failure", "target_invalid"} => ~reached
  /\ IF outcome = "retryable" /\ reached THEN Fault ELSE UNCHANGED faults
  /\ hold' = [hold EXCEPT ![w][d].pc = "answered", ![w][d].outcome = outcome]
  /\ calls' = [calls EXCEPT ![d].made = @ + 1, ![d].reached = IF reached THEN @ + 1 ELSE @]
  /\ UNCHANGED <<msg, overdue, visible, target, pref, del, exp, lapsed, broken, acts>>

(* What finish() may record; the back-off may reach past the expiry. *)
Recorded(d, outcome) ==
  IF ~Bound(d) THEN {"skipped"}
  ELSE IF outcome = "accepted" THEN {"accepted"}
  ELSE IF d[1] \in overdue THEN {"expired"}
  ELSE IF outcome = "retryable" /\ del[d].tries < MaxAttempts THEN {"pending", "expired"}
  ELSE {"failed"}

Finish(w, d) ==
  /\ hold[w][d].pc = "answered" /\ Current(w, d)
  /\ \E state \in Recorded(d, hold[w][d].outcome) :
       /\ del' = [del EXCEPT ![d].leased = FALSE, ![d].state = state]
       /\ IF state = "failed" /\ hold[w][d].outcome = "target_invalid"
          THEN /\ target' = [target EXCEPT ![d[2]].state = "invalid", ![d[2]].binding = @ + 1]
               /\ lapsed' = lapsed \cup (Accepted \X {d[2]})
               /\ broken' = broken \cup MadeFor(d[2])
          ELSE UNCHANGED <<target, lapsed, broken>>
  /\ Drop(w, d)
  /\ UNCHANGED <<msg, overdue, visible, pref, exp, calls, bounds>>

FinishFenced(w, d) ==
  /\ hold[w][d].pc = "answered" /\ ~Current(w, d)
  /\ Drop(w, d)
  /\ UNCHANGED <<msg, overdue, visible, target, pref, del, exp, history, bounds>>

-----------------------------------------------------------------------------
(* Time and faults. *)

Live(d) == \E w \in Dispatchers : hold[w][d].pc # "none" /\ Current(w, d)

RunOut(d) == del' = [del EXCEPT ![d].leased = FALSE]

(* The lease of a claim that nobody works on any more. *)
LeaseAbandoned(d) ==
  /\ del[d].leased /\ ~Live(d)
  /\ RunOut(d)
  /\ UNCHANGED <<msg, overdue, visible, target, pref, memory, history, bounds>>

(* The lease of a sender that is too slow. *)
LeaseOutrun(d) ==
  /\ del[d].leased /\ Live(d)
  /\ Fault
  /\ RunOut(d)
  /\ UNCHANGED <<msg, overdue, visible, target, pref, memory, history, acts>>

(* prepare_send() or finish() raises; gather() goes on with the others. *)
BookkeepingFails(w, d) ==
  /\ hold[w][d].pc \in {"claimed", "answered"}
  /\ Fault
  /\ Drop(w, d)
  /\ UNCHANGED <<msg, overdue, visible, target, pref, del, exp, history, acts>>

(* stop(): what is not yet prepared is left to its lease, the rest is drained. *)
Stop(w) ==
  /\ \E d \in Deliveries : hold[w][d].pc = "claimed"
  /\ Fault
  /\ hold' = [hold EXCEPT ![w] = [d \in Deliveries |->
                IF @[d].pc = "claimed" THEN NoClaim ELSE @[d]]]
  /\ UNCHANGED <<msg, overdue, visible, target, pref, del, exp, history, acts>>

(* An expansion that had not committed is rolled back. *)
Crash(w) ==
  /\ ~Between(w)
  /\ Fault
  /\ exp' = [exp EXCEPT ![w] = NoExpansion]
  /\ hold' = [hold EXCEPT ![w] = [d \in Deliveries |-> NoClaim]]
  /\ UNCHANGED <<msg, overdue, visible, target, pref, del, history, acts>>

-----------------------------------------------------------------------------
Outcomes == {"accepted", "retryable", "permanent_failure", "target_invalid"}

Expand(w) == ExpandWrite(w) \/ \E m \in Messages : ExpandOverdue(w, m) \/ ExpandRead(w, m)

Work(w, d) ==
  \/ PrepareSend(w, d) \/ PrepareRefused(w, d)
  \/ \E outcome \in Outcomes, reached \in BOOLEAN : Send(w, d, outcome, reached)
  \/ Finish(w, d) \/ FinishFenced(w, d)

Next ==
  \/ \E m \in Messages :
       \/ Accept(m) \/ (\E chosen \in Targets \cup {None} : Publish(m, chosen))
       \/ ExpiresAt(m) \/ Cleanup(m) \/ ResourceChanges(m)
  \/ \E t \in Targets : RegisterTarget(t) \/ RevokeTarget(t)
  \/ EnablePreference \/ DisablePreference
  \/ \E w \in Dispatchers :
       \/ Expand(w) \/ Claim(w) \/ Stop(w) \/ Crash(w)
       \/ \E d \in Deliveries : Work(w, d) \/ BookkeepingFails(w, d)
  \/ \E d \in Deliveries : LeaseAbandoned(d) \/ LeaseOutrun(d)

Spec == Init /\ [][Next]_vars

(* Every dispatcher ticks on, its threads run, and time passes. *)
FairSpec ==
  /\ Spec
  /\ \A w \in Dispatchers : WF_vars(Expand(w)) /\ WF_vars(Claim(w))
  /\ \A w \in Dispatchers, d \in Deliveries : WF_vars(Work(w, d))
  /\ \A d \in Deliveries : WF_vars(LeaseAbandoned(d))

-----------------------------------------------------------------------------
MessageRow == [state : {"none", "accepted", "pending", "expanded", "expired", "gone"},
               chosen : Targets \cup {None}]
TargetRow == [state : {"none", "active", "revoked", "invalid"}, binding : Nat,
              older : SUBSET Messages]
DeliveryRow == [state : {"none", "pending", "sending", "accepted", "expired", "skipped", "failed"},
                tries : Nat, leased : BOOLEAN, binding : Nat]
ClaimRecord == [pc : {"none", "claimed", "prepared", "answered"}, version : Nat,
                outcome : Outcomes \cup {"none"}]

(* Each variable has its type. *)
TypeOK ==
  /\ msg \in [Messages -> MessageRow]
  /\ overdue \subseteq Messages /\ visible \subseteq Messages
  /\ target \in [Targets -> TargetRow]
  /\ pref \in [enabled : BOOLEAN, older : SUBSET Messages]
  /\ del \in [Deliveries -> DeliveryRow]
  /\ exp \in [Dispatchers -> [m : Messages \cup {None}, to : [Targets -> Nat]]]
  /\ hold \in [Dispatchers -> [Deliveries -> ClaimRecord]]
  /\ calls \in [Deliveries -> [made : Nat, reached : Nat]]
  /\ lapsed \subseteq Deliveries /\ broken \subseteq Deliveries
  /\ acts \in Nat /\ faults \in Nat

(* The provider is called at most max_attempts times for a delivery, however  *)
(* many senders crash, stop or lose their lease on the way.                   *)
CallsBounded == \A d \in Deliveries : calls[d].made <= MaxAttempts

(* A user is reached a second time by the same delivery only when an answer   *)
(* was lost: each crash, slow sender or broken call excuses one repetition.   *)
RepeatsExcused == \A d \in Deliveries : calls[d].reached <= 1 + faults

(* While the preference is off nothing that it routes waits or is being sent, *)
(* although expansions run beside the switch.                                 *)
OffMeansNone ==
  ~pref.enabled => \A d \in Deliveries : d[1] \in Gated => del[d].state \notin Open

Prepares(w, d) == hold[w][d].pc = "claimed" /\ hold'[w][d].pc = "prepared"

(* prepare_send admits nothing unwanted: no call to a target that was revoked, *)
(* given another address or found invalid since the expansion read it, and, of *)
(* what the preference routes, only that whose target and preference stayed on *)
(* from the acceptance of the task to the admission.  The call follows in      *)
(* another step (dispatcher.py:48, 53), and its user may be quicker.           *)
SendWanted ==
  [][\A w \in Dispatchers, d \in Deliveries :
       Prepares(w, d) => d \notin broken /\ (d[1] \in Gated => d \notin lapsed)]_vars

(* Every published message is expanded, expires or is deleted, and each of    *)
(* its deliveries comes to an end.                                            *)
Settles ==
  \A m \in Messages : msg[m].state = "pending" ~>
    /\ msg[m].state # "pending"
    /\ \A t \in Targets : del[<<m, t>>].state \notin Open
=============================================================================
