-------------------------- MODULE DesktopRunProofs --------------------------
(* Theorems about DesktopRun, for every value of its constants. *)
EXTENDS DesktopRun, FiniteSetTheorems, TLAPS

-----------------------------------------------------------------------------
(* Types. *)

States == {"pending", "running"} \union Terminal

LEMMA FinishType ==
  ASSUME TypeOK, NEW verdict \in Terminal, Finish(verdict)
  PROVE  run' \in [state : States, leased : BOOLEAN]
BY DEF TypeOK, Finish, States

LEMMA VerdictType ==
  ASSUME NEW rows, NEW cancelled, NEW deadline, NEW default \in Terminal
  PROVE  Else(Verdict(rows, cancelled, deadline), default) \in Terminal
BY DEF Else, Verdict, Terminal

LEMMA CancelVerdictType ==
  ASSUME NEW rows
  PROVE  CancelVerdict(rows) \in Terminal
BY VerdictType DEF CancelVerdict, Terminal

LEMMA RowsType ==
  ASSUME TypeOK
  PROVE  /\ Skipped \in [Deliveries -> Rows]
         /\ Expired \in [Deliveries -> Rows]
BY DEF TypeOK, Skipped, Expired, ExpiredRow, Rows, Finished

LEMMA RowType ==
  ASSUME TypeOK, NEW p, NEW row \in Rows
  PROVE  [del EXCEPT ![p] = row] \in [Deliveries -> Rows]
BY DEF TypeOK

\* A column of an operation changes.
LEMMA OpType ==
  ASSUME NEW ops \in [Ops -> Invocations], NEW i
  PROVE  /\ \A v \in {"none", "queued", "running", "cancelling"} \union Settled :
              [ops EXCEPT ![i].srv = v] \in [Ops -> Invocations]
         /\ \A v \in {"none", "open", "safe", "done"} :
              [ops EXCEPT ![i].attempt = v] \in [Ops -> Invocations]
         /\ \A v \in {"none", "live", "expired", "settled", "released"} :
              [ops EXCEPT ![i].permit = v] \in [Ops -> Invocations]
         /\ \A v \in {"idle", "working", "permitted", "acted", "over"} \union Reports :
              [ops EXCEPT ![i].dev = v] \in [Ops -> Invocations]
BY ZenonT(60) DEF Invocations

LEMMA QueuedType ==
  ASSUME TypeOK, NEW i
  PROVE  Queued(i) \in [Ops -> Invocations]
<1>1. CASE i \in Ops
  <2> op[i].srv \in {"none", "queued", "running", "cancelling"} \union Settled
    BY <1>1 DEF TypeOK, Invocations
  <2> QED
    BY <1>1, OpType DEF TypeOK, Queued
<1>2. CASE i \notin Ops
  <2> Queued(i) = op
    BY <1>2 DEF TypeOK, Queued
  <2> QED
    BY DEF TypeOK
<1> QED
  BY <1>1, <1>2

LEMMA AttemptsNumber ==
  ASSUME NEW p
  PROVE  IsFiniteSet(Attempts(p)) /\ Cardinality(Attempts(p)) \in Nat
<1>1. IsFiniteSet(1..N)
  BY ConstantsAssumption, FS_Interval
<1>2. Attempts(p) \subseteq 1..N
  BY DEF Attempts
<1> QED
  BY <1>1, <1>2, FS_Subset, FS_CardinalityType

\* What a driver holds.
Counters == {"idle", "entry", "prepare", "insert", "pick", "check", "enqueue", "attempt",
             "abandon", "close"}
Reasons == {"none", "revoked", "deadline", "refused", "payload"}

LEMMA MemoryType ==
  ASSUME TypeOK, NEW d \in Drivers
  PROVE  /\ \A pc \in Counters : [drv EXCEPT ![d].pc = pc] \in [Drivers -> Memory]
         /\ \A pc \in Counters, reason \in Reasons :
              [drv EXCEPT ![d].pc = pc, ![d].reason = reason] \in [Drivers -> Memory]
         /\ \A pc \in Counters, p \in Deliveries :
              [drv EXCEPT ![d].pc = pc, ![d].p = p] \in [Drivers -> Memory]
         /\ \A pc \in Counters, n \in Nat :
              [drv EXCEPT ![d].pc = pc, ![d].n = n] \in [Drivers -> Memory]
         /\ \A pc \in Counters :
              [drv EXCEPT ![d].pc = pc, ![d].p = 0, ![d].n = 0] \in [Drivers -> Memory]
         /\ \A pc \in Counters :
              [drv EXCEPT ![d].pc = pc, ![d].p = 0, ![d].n = 0, ![d].reason = "none"]
                \in [Drivers -> Memory]
         /\ [drv EXCEPT ![d] = Idle] \in [Drivers -> Memory]
         /\ [drv EXCEPT ![d] = [Idle EXCEPT !.pc = "entry", !.entry = TRUE]] \in [Drivers -> Memory]
<1>1. drv \in [Drivers -> Memory] /\ drv[d] \in Memory
  BY DEF TypeOK
<1>2. \A f \in Memory : [drv EXCEPT ![d] = f] \in [Drivers -> Memory]
  BY <1>1
<1>3. /\ [drv EXCEPT ![d] = Idle] \in [Drivers -> Memory]
      /\ [drv EXCEPT ![d] = [Idle EXCEPT !.pc = "entry", !.entry = TRUE]] \in [Drivers -> Memory]
  <2>1. Idle \in Memory /\ [Idle EXCEPT !.pc = "entry", !.entry = TRUE] \in Memory
    BY DEF Idle, Memory
  <2> QED
    BY <1>2, <2>1
<1>4. ASSUME NEW pc \in Counters
      PROVE  /\ [drv EXCEPT ![d].pc = pc] \in [Drivers -> Memory]
             /\ [drv EXCEPT ![d].pc = pc, ![d].p = 0, ![d].n = 0] \in [Drivers -> Memory]
             /\ [drv EXCEPT ![d].pc = pc, ![d].p = 0, ![d].n = 0, ![d].reason = "none"]
                  \in [Drivers -> Memory]
  BY <1>1 DEF Memory, Counters
<1>5. ASSUME NEW pc \in Counters, NEW reason \in Reasons
      PROVE  [drv EXCEPT ![d].pc = pc, ![d].reason = reason] \in [Drivers -> Memory]
  BY <1>1 DEF Memory, Counters, Reasons
<1>6. ASSUME NEW pc \in Counters, NEW p \in Deliveries
      PROVE  [drv EXCEPT ![d].pc = pc, ![d].p = p] \in [Drivers -> Memory]
  BY <1>1 DEF Memory, Counters
<1>7. ASSUME NEW pc \in Counters, NEW n \in Nat
      PROVE  [drv EXCEPT ![d].pc = pc, ![d].n = n] \in [Drivers -> Memory]
  BY <1>1 DEF Memory, Counters
<1> QED
  BY <1>3, <1>4, <1>5, <1>6, <1>7

LEMMA FaultType == ASSUME TypeOK, Fault PROVE faults' \in 0..MaxFaults
BY ConstantsAssumption DEF TypeOK, Fault

\* A driver gives up for a reason.
Reasoned == \A d \in Drivers : drv[d].pc = "abandon" => drv[d].reason # "none"

LEMMA TypeDrive ==
  ASSUME TypeOK, Reasoned, NEW d \in Drivers, Drive(d) \/ Crash(d)
  PROVE  TypeOK'
<1> DEFINE Changed ==
             /\ run' \in [state : States, leased : BOOLEAN]
             /\ outbox' \in [state : {"pending", "processing", "done"}, attempts : Nat]
             /\ del' \in [Deliveries -> Rows] /\ op' \in [Ops -> Invocations]
             /\ drv' \in [Drivers -> Memory] /\ faults' \in 0..MaxFaults
<1>1. UNCHANGED <<reopened, overtime, aggregate, authorized, overdue, sent>>
  BY DEF Drive, Crash, ClaimEntry, Poison, ClaimRun, PassEntry, CloseEntry, Requeue, Prepare,
         InsertDeliveries, Pick, Check, Enqueue, Dispatch, Abandon, DriveRunning, server, world
<1>2. /\ run \in [state : States, leased : BOOLEAN] /\ del \in [Deliveries -> Rows]
      /\ outbox \in [state : {"pending", "processing", "done"}, attempts : Nat]
      /\ op \in [Ops -> Invocations] /\ drv \in [Drivers -> Memory] /\ faults \in 0..MaxFaults
  BY DEF TypeOK, States
<1>3. ASSUME NEW pc \in Counters, Go(d, pc) PROVE drv' \in [Drivers -> Memory]
  BY <1>3, MemoryType DEF Go
<1>4. /\ \A pc \in {"entry", "close", "prepare", "insert", "pick", "attempt", "check", "enqueue",
                    "abandon"} : pc \in Counters
      /\ \A reason \in {"none", "revoked", "deadline", "refused", "payload"} : reason \in Reasons
  BY DEF Counters, Reasons
<1>5. ASSUME NEW reason \in Reasons, Stop(d, reason) PROVE drv' \in [Drivers -> Memory]
  BY <1>4, <1>5, MemoryType DEF Stop
<1>6. ASSUME drv' = [drv EXCEPT ![d] = Idle] PROVE drv' \in [Drivers -> Memory]
  BY <1>6, MemoryType
<1>7. /\ "failed" \in Terminal /\ "unknown" \in Terminal /\ "cancelled" \in Terminal
      /\ "running" \in States /\ TRUE \in BOOLEAN
  BY DEF Terminal, States
<1>8. CASE ClaimEntry(d)
  <2>1. drv' \in [Drivers -> Memory]
    BY <1>8, MemoryType DEF ClaimEntry
  <2>2. outbox' \in [state : {"pending", "processing", "done"}, attempts : Nat]
    BY <1>2, <1>8 DEF ClaimEntry
  <2> QED
    BY <1>1, <1>2, <1>8, <2>1, <2>2 DEF ClaimEntry, TypeOK
<1>9. CASE Poison(d)
  BY <1>1, <1>3, <1>4, <1>7, <1>9, FinishType DEF Poison, TypeOK, States
<1>10. CASE ClaimRun(d)
  BY <1>1, <1>3, <1>4, <1>7, <1>10 DEF ClaimRun, TypeOK, States
<1>11. CASE PassEntry(d)
  BY <1>1, <1>3, <1>4, <1>6, <1>11, FaultType DEF PassEntry, TypeOK, server
<1>12. CASE CloseEntry(d)
  <2>1. outbox' \in [state : {"pending", "processing", "done"}, attempts : Nat]
    BY <1>2, <1>12 DEF CloseEntry
  <2> QED
    BY <1>1, <1>6, <1>12, <2>1 DEF CloseEntry, TypeOK
<1>13. CASE Requeue(d)
  <2>1. outbox' \in [state : {"pending", "processing", "done"}, attempts : Nat]
    BY <1>2, <1>13 DEF Requeue
  <2> QED
    BY <1>1, <1>13, <2>1 DEF Requeue, TypeOK
<1>14. CASE Prepare(d)
  <2>1. drv' \in [Drivers -> Memory]
    BY <1>3, <1>4, <1>5, <1>14 DEF Prepare
  <2>2. faults' \in 0..MaxFaults
    BY <1>2, <1>14, FaultType DEF Prepare
  <2> QED
    BY <1>1, <1>14, <2>1, <2>2 DEF Prepare, TypeOK, server
<1>15. CASE InsertDeliveries(d)
  <2>1. del' \in [Deliveries -> Rows]
    BY <1>2, <1>15 DEF InsertDeliveries, Rows
  <2> QED
    BY <1>1, <1>3, <1>4, <1>15, <2>1 DEF InsertDeliveries, TypeOK
<1>16. CASE Pick(d)
  <2>1. ASSUME NEW p \in Deliveries, drv' = [drv EXCEPT ![d].pc = "check", ![d].p = p]
        PROVE  drv' \in [Drivers -> Memory]
    BY <1>4, <2>1, MemoryType
  <2>2. drv' \in [Drivers -> Memory]
    BY <1>3, <1>4, <1>16, <2>1 DEF Pick
  <2> QED
    BY <1>1, <1>16, <2>2 DEF Pick, TypeOK, server
<1>17. CASE Check(d)
  <2> DEFINE n == Cardinality(Attempts(drv[d].p)) + 1
  <2>1. n \in Nat
    BY AttemptsNumber
  <2> HIDE DEF n
  <2>2. [drv EXCEPT ![d].pc = "enqueue", ![d].n = n] \in [Drivers -> Memory]
    BY <1>4, <2>1, MemoryType
  <2>3. drv' \in [Drivers -> Memory]
    BY <1>4, <1>5, <1>17, <2>2 DEF Check, n
  <2>4. faults' \in 0..MaxFaults
    BY <1>2, <1>17, FaultType DEF Check
  <2> QED
    BY <1>1, <1>17, <2>3, <2>4 DEF Check, TypeOK, server
<1>18. CASE Enqueue(d)
  BY <1>1, <1>3, <1>4, <1>18, QueuedType DEF Enqueue, TypeOK, server
<1>19. CASE Dispatch(d)
  <2> DEFINE i == <<drv[d].p, drv[d].n>>
             a == IF op[i].attempt = "none" THEN "open" ELSE op[i].attempt
  <2>1. op' = [op EXCEPT ![i].attempt = a]
    BY <1>19 DEF Dispatch
  <2>2. op' \in [Ops -> Invocations]
    <3>1. CASE i \in Ops
      <4> a \in {"none", "open", "safe", "done"}
        BY <1>2, <3>1 DEF Invocations
      <4> QED
        BY <1>2, <2>1, OpType
    <3>2. CASE i \notin Ops
      BY <1>2, <2>1, <3>2
    <3> QED
      BY <3>1, <3>2
  <2>3. del' \in [Deliveries -> Rows]
    BY <1>2, <1>19 DEF Dispatch, Rows
  <2>4. drv' \in [Drivers -> Memory]
    BY <1>4, <1>19, MemoryType DEF Dispatch
  <2> QED
    BY <1>1, <1>19, <2>2, <2>3, <2>4 DEF Dispatch, TypeOK
<1>20. CASE Abandon(d)
  <2>1. drv' \in [Drivers -> Memory]
    BY <1>4, <1>20, MemoryType DEF Abandon
  <2>2. del' \in [Deliveries -> Rows]
    BY <1>20, RowsType DEF Abandon
  <2> DEFINE verdict ==
               CASE drv[d].reason = "deadline" -> Else(Verdict(del, FALSE, TRUE), "failed")
                 [] drv[d].reason = "revoked" -> Else(Verdict(del, TRUE, FALSE), "cancelled")
                 [] drv[d].reason = "payload" -> "unknown"
                 [] drv[d].reason = "refused" -> "failed"
  <2>3. run' \in [state : States, leased : BOOLEAN]
    <3>1. Finish(verdict)
      BY <1>20 DEF Abandon
    <3>2. verdict \in Terminal
      <4>1. drv[d].reason \in {"deadline", "revoked", "payload", "refused"}
        BY <1>2, <1>20 DEF Memory, Abandon, Reasoned
      <4> QED
        BY <1>7, <4>1, VerdictType
    <3> QED
      BY <3>1, <3>2, FinishType
  <2> QED
    BY <1>1, <1>20, <2>1, <2>2, <2>3 DEF Abandon, TypeOK, States
<1>21. CASE DriveRunning(d)
  <2>1. drv' \in [Drivers -> Memory]
    BY <1>2, <1>3, <1>4, <1>21 DEF DriveRunning
  <2>2. run' \in [state : States, leased : BOOLEAN]
    BY <1>2, <1>21 DEF DriveRunning
  <2> QED
    BY <1>1, <1>21, <2>1, <2>2 DEF DriveRunning, TypeOK, States
<1>22. CASE Crash(d)
  BY <1>1, <1>6, <1>22, FaultType DEF Crash, TypeOK, server
<1> QED
  BY <1>8, <1>9, <1>10, <1>11, <1>12, <1>13, <1>14, <1>15, <1>16, <1>17, <1>18, <1>19, <1>20,
     <1>21, <1>22 DEF Drive

LEMMA ReasonedStep ==
  ASSUME TypeOK, Reasoned, [Next]_vars
  PROVE  Reasoned'
<1>1. CASE UNCHANGED drv
  BY <1>1 DEF Reasoned
<1>2. ASSUME NEW d \in Drivers, Drive(d) \/ Crash(d)
      PROVE  /\ \A e \in Drivers : e # d => drv'[e] = drv[e]
             /\ drv'[d].pc = "abandon" => drv'[d].reason # "none"
  <2>1. drv \in [Drivers -> Memory]
    BY DEF TypeOK
  <2>2. ASSUME NEW reason \in {"revoked", "deadline", "refused", "payload"}, Stop(d, reason)
        PROVE  (\A e \in Drivers : e # d => drv'[e] = drv[e]) /\ drv'[d].reason = reason
    BY <2>1, <2>2 DEF Stop, Memory
  <2>3. CASE Prepare(d) \/ Check(d)
    BY <2>1, <2>2, <2>3 DEF Prepare, Check, Go, Memory
  <2>4. CASE ~(Prepare(d) \/ Check(d))
    <3>1. CASE Requeue(d) \/ ClaimEntry(d) \/ CloseEntry(d) \/ Crash(d)
      <4>1. \/ UNCHANGED drv
            \/ drv' = [drv EXCEPT ![d] = Idle]
            \/ drv' = [drv EXCEPT ![d] = [Idle EXCEPT !.pc = "entry", !.entry = TRUE]]
        BY <3>1 DEF Requeue, ClaimEntry, CloseEntry, Crash
      <4>2. Idle.pc = "idle" /\ [Idle EXCEPT !.pc = "entry", !.entry = TRUE].pc = "entry"
        BY DEF Idle
      <4> QED
        BY <2>1, <4>1, <4>2 DEF Reasoned
    <3>2. ASSUME NEW pc, pc # "abandon", Go(d, pc)
          PROVE  (\A e \in Drivers : e # d => drv'[e] = drv[e]) /\ drv'[d].pc # "abandon"
      BY <2>1, <3>2 DEF Go, Memory
    <3>3. CASE \/ Poison(d) \/ ClaimRun(d) \/ PassEntry(d) \/ InsertDeliveries(d)
               \/ Enqueue(d) \/ DriveRunning(d)
      BY <2>1, <3>2, <3>3 DEF Poison, ClaimRun, PassEntry, InsertDeliveries, Enqueue,
           DriveRunning, Idle, Memory, Reasoned
    <3>4. CASE Pick(d)
      BY <2>1, <3>2, <3>4 DEF Pick, Memory
    <3>5. CASE Dispatch(d) \/ Abandon(d)
      <4>1. \/ drv' = [drv EXCEPT ![d].pc = "pick", ![d].p = 0, ![d].n = 0]
            \/ drv' = [drv EXCEPT ![d].pc = "close", ![d].p = 0, ![d].n = 0, ![d].reason = "none"]
        BY <3>5 DEF Dispatch, Abandon
      <4> QED
        BY <2>1, <4>1 DEF Memory
    <3> QED
      BY <1>2, <2>4, <3>1, <3>3, <3>4, <3>5 DEF Drive
  <2> QED
    BY <2>3, <2>4
<1>3. CASE \E d \in Drivers : Drive(d) \/ Crash(d)
  BY <1>2, <1>3 DEF Reasoned
<1>4. CASE \/ User \/ Results \/ LeaseExpires \/ Reclaim \/ Overdue
           \/ \E i \in Ops : Runtime(i) \/ Clock(i)
  BY <1>1, <1>4 DEF User, Cancel, Pause, Publish, Retry, Results, ApplyResult, ResultIgnored,
       AdvanceRead, AdvanceFinish, AdvanceLost, LeaseExpires, Reclaim, Overdue, Runtime, Claim,
       Authorize, Decline, Withdraw, Act, Conclude, DeviceCrash, Clock, PermitExpires,
       ClaimExpires, Deadline
<1> QED
  BY <1>1, <1>3, <1>4 DEF Next, vars

LEMMA TypeUser ==
  ASSUME TypeOK, User
  PROVE  TypeOK'
<1>1. /\ run \in [state : States, leased : BOOLEAN] /\ del \in [Deliveries -> Rows]
      /\ op \in [Ops -> Invocations] /\ faults \in 0..MaxFaults
  BY DEF TypeOK, States
<1>2. ASSUME CancelRun
      PROVE  /\ run' \in [state : States, leased : BOOLEAN] /\ del' \in [Deliveries -> Rows]
             /\ op' \in [Ops -> Invocations] /\ overtime' \subseteq Ops
  <2>1. CancelledOps \in [Ops -> Invocations]
    <3>1. ASSUME NEW i \in Ops PROVE CancelledOps[i] \in Invocations
      <4> op[i] \in Invocations
        BY <1>1
      <4> QED
        BY DEF CancelledOps, Invocations, Settled
    <3> QED
      BY <3>1 DEF CancelledOps
  <2> QED
    BY <1>2, <2>1, RowsType, CancelVerdictType, FinishType DEF CancelRun, StillOver, TypeOK
<1>3. CASE Cancel
  BY <1>2, <1>3 DEF Cancel, TypeOK, States, world
<1>4. CASE Pause
  BY <1>2, <1>4 DEF Pause, TypeOK, States
<1>5. CASE Publish
  BY <1>5 DEF Publish, TypeOK, server
<1>6. ASSUME NEW p \in Deliveries, Retry(p) PROVE TypeOK'
  <2>1. UNCHANGED <<run, outbox, overtime, drv, aggregate, authorized, overdue, sent>>
    BY <1>6 DEF Retry, world
  <2>2. PICK n \in 1..N :
          \/ /\ op' = [op EXCEPT ![<<p, n>>].srv = "queued", ![<<p, n>>].attempt = "open"]
             /\ del' = [del EXCEPT ![p] = "dispatched"] /\ reopened' = reopened \union {p}
             /\ UNCHANGED faults
          \/ Fault /\ op' = Queued(<<p, n>>) /\ UNCHANGED <<del, reopened>>
    BY <1>6 DEF Retry
  <2>3. [op EXCEPT ![<<p, n>>].srv = "queued", ![<<p, n>>].attempt = "open"] \in [Ops -> Invocations]
    BY <1>1, ZenonT(60) DEF Invocations
  <2>4. [del EXCEPT ![p] = "dispatched"] \in [Deliveries -> Rows]
    BY <1>1 DEF Rows
  <2>5. op' \in [Ops -> Invocations] /\ del' \in [Deliveries -> Rows]
    BY <1>1, <2>2, <2>3, <2>4, QueuedType
  <2>6. reopened' \subseteq Deliveries /\ faults' \in 0..MaxFaults
    BY <2>2, FaultType DEF TypeOK
  <2> QED
    BY <2>1, <2>5, <2>6 DEF TypeOK
<1> QED
  BY <1>3, <1>4, <1>5, <1>6 DEF User

LEMMA TypeDevice ==
  ASSUME TypeOK, NEW i \in Ops, Runtime(i) \/ Clock(i)
  PROVE  TypeOK'
<1>1. /\ del \in [Deliveries -> Rows] /\ op \in [Ops -> Invocations]
      /\ faults \in 0..MaxFaults /\ sent \in [Deliveries -> Nat] /\ i[1] \in Deliveries
      /\ overtime \subseteq Ops
  BY DEF TypeOK, Ops
<1>2. UNCHANGED <<run, outbox, reopened, drv, aggregate, authorized, overdue>>
  BY DEF Runtime, Clock, Claim, Authorize, Decline, Withdraw, Act, Conclude, DeviceCrash,
         PermitExpires, ClaimExpires, Deadline, server, world
<1>3. ASSUME NEW state \in {"idle", "working", "permitted", "acted", "over"} \union Reports,
             Device(i, state)
      PROVE  op' \in [Ops -> Invocations]
  BY <1>1, <1>3, OpType DEF Device
<1>4. CASE Claim(i)
  <2> op' \in [Ops -> Invocations]
    BY <1>1, <1>4 DEF Claim, Invocations
  <2> QED
    BY <1>2, <1>4 DEF Claim, TypeOK, server
<1>5. CASE Authorize(i)
  <2>1. \/ op' = [op EXCEPT ![i].permit = "live", ![i].dev = "permitted"]
        \/ op' = [op EXCEPT ![i].permit = "live", ![i].dev = "retryable"]
    BY <1>5 DEF Authorize
  <2>2. op' \in [Ops -> Invocations]
    BY <1>1, <2>1 DEF Invocations, Reports, NotStarted
  <2>3. faults' \in 0..MaxFaults
    BY <1>1, <1>5, FaultType DEF Authorize
  <2>4. del' \in [Deliveries -> Rows]
    BY <1>1, <1>5 DEF Authorize, Rows
  <2> QED
    BY <1>2, <1>5, <2>2, <2>3, <2>4 DEF Authorize, TypeOK
<1>6. CASE Decline(i) \/ Withdraw(i) \/ Conclude(i)
  <2> op' \in [Ops -> Invocations]
    BY <1>3, <1>6 DEF Decline, Withdraw, Conclude, Reports, NotStarted
  <2> QED
    BY <1>2, <1>6 DEF Decline, Withdraw, Conclude, TypeOK, server
<1>7. CASE Act(i)
  <2>1. op' \in [Ops -> Invocations]
    BY <1>3, <1>7 DEF Act
  <2>2. sent' \in [Deliveries -> Nat]
    BY <1>1, <1>7 DEF Act
  <2> QED
    BY <1>2, <1>7, <2>1, <2>2 DEF Act, TypeOK, server
<1>8. CASE DeviceCrash(i)
  BY <1>2, <1>3, <1>8, FaultType DEF DeviceCrash, TypeOK, server
<1>9. CASE PermitExpires(i)
  <2> op' \in [Ops -> Invocations]
    BY <1>1, <1>9, OpType DEF PermitExpires, Lapsed
  <2> QED
    BY <1>2, <1>9 DEF PermitExpires, TypeOK, server
<1>10. CASE ClaimExpires(i)
  <2> op' \in [Ops -> Invocations]
    BY <1>1, <1>10, OpType DEF ClaimExpires, Settled
  <2> QED
    BY <1>1, <1>2, <1>10 DEF ClaimExpires, TypeOK, server
<1>11. CASE Deadline(i)
  BY <1>1, <1>2, <1>11 DEF Deadline, TypeOK, server
<1> QED
  BY <1>4, <1>5, <1>6, <1>7, <1>8, <1>9, <1>10, <1>11 DEF Runtime, Clock

LEMMA OutcomeType ==
  ASSUME NEW report, NEW valid
  PROVE  Outcome(report, valid) \in {"succeeded", "failed", "unknown"}
BY DEF Outcome

\* What apply_operation_result does to a row, whether or not its answer arrives.
LEMMA ApplyForm ==
  ASSUME TypeOK, NEW i \in Ops, ApplyResult(i)
  PROVE  \E valid \in BOOLEAN, dev \in {"over", op[i].dev} :
           /\ op' = [op EXCEPT ![i] =
                [srv |-> Outcome(op[i].dev, valid), dev |-> dev,
                 permit |-> Consumed(op[i].permit, op[i].dev),
                 attempt |-> IF op[i].dev \in MachineSafe THEN "safe" ELSE "done"]]
           /\ del' = [del EXCEPT ![i[1]] =
                IF @ \in Finished THEN @ ELSE Outcome(op[i].dev, valid)]
BY DEF ApplyResult

LEMMA TypeResults ==
  ASSUME TypeOK, Results
  PROVE  TypeOK'
<1>1. /\ run \in [state : States, leased : BOOLEAN] /\ del \in [Deliveries -> Rows]
      /\ op \in [Ops -> Invocations] /\ faults \in 0..MaxFaults
      /\ overtime \subseteq Ops /\ aggregate \subseteq {"read"} \union Terminal
  BY DEF TypeOK, States
<1>2. UNCHANGED <<outbox, reopened, drv, authorized, overdue, sent>>
  BY DEF Results, ApplyResult, ResultIgnored, AdvanceRead, AdvanceLost, AdvanceFinish, server, world
<1>3. ASSUME NEW i \in Ops, ApplyResult(i) PROVE TypeOK'
  <2>1. PICK valid \in BOOLEAN, dev \in {"over", op[i].dev} :
           /\ op' = [op EXCEPT ![i] =
                [srv |-> Outcome(op[i].dev, valid), dev |-> dev,
                 permit |-> Consumed(op[i].permit, op[i].dev),
                 attempt |-> IF op[i].dev \in MachineSafe THEN "safe" ELSE "done"]]
           /\ del' = [del EXCEPT ![i[1]] =
                IF @ \in Finished THEN @ ELSE Outcome(op[i].dev, valid)]
    BY <1>3, ApplyForm
  <2> DEFINE outcome == Outcome(op[i].dev, valid)
             permit == Consumed(op[i].permit, op[i].dev)
  <2>2. op[i] \in Invocations /\ i[1] \in Deliveries
    BY <1>1 DEF Ops
  <2>3. /\ outcome \in Settled /\ outcome \in Rows
        /\ permit \in {"none", "live", "expired", "settled", "released"}
        /\ dev \in {"idle", "working", "permitted", "acted", "over"} \union Reports
    BY <2>2, OutcomeType DEF Settled, Rows, Finished, Consumed, Invocations
  <2> HIDE DEF outcome, permit
  <2>4. op' \in [Ops -> Invocations]
    <3>1. [srv |-> outcome, dev |-> dev, permit |-> permit,
           attempt |-> IF op[i].dev \in MachineSafe THEN "safe" ELSE "done"] \in Invocations
      BY <2>3 DEF Invocations
    <3> QED
      BY <1>1, <2>1, <3>1 DEF outcome, permit
  <2>5. del' \in [Deliveries -> Rows]
    BY <1>1, <2>1, <2>3 DEF outcome
  <2>6. faults' \in 0..MaxFaults
    BY <1>1, <1>3, FaultType DEF ApplyResult
  <2>7. /\ aggregate' \subseteq {"read"} \union Terminal /\ overtime' \subseteq Ops
        /\ UNCHANGED run
    BY <1>1, <1>3 DEF ApplyResult
  <2> QED
    BY <1>2, <2>4, <2>5, <2>6, <2>7 DEF TypeOK
<1>4. ASSUME NEW i \in Ops, ResultIgnored(i) PROVE TypeOK'
  <2> op' \in [Ops -> Invocations]
    BY <1>1, <1>4, OpType DEF ResultIgnored, Device
  <2> QED
    BY <1>2, <1>4 DEF ResultIgnored, TypeOK, server
<1>5. CASE AdvanceRead
  <2> DEFINE rows == IF \E p \in Deliveries : del[p] = "unknown" THEN Skipped ELSE del
             verdict == Verdict(rows, FALSE, FALSE)
  <2>1. del' = rows /\ aggregate' = (aggregate \ {"read"})
                                      \union (IF verdict = "none" THEN {} ELSE {verdict})
    BY <1>5 DEF AdvanceRead
  <2>2. verdict \in {"none"} \union Terminal
    BY DEF Verdict, Terminal
  <2>3. del' \in [Deliveries -> Rows]
    BY <1>1, <2>1, RowsType
  <2> HIDE DEF rows, verdict
  <2>4. aggregate' \subseteq {"read"} \union Terminal
    BY <1>1, <2>1, <2>2
  <2> QED
    BY <1>2, <1>5, <2>3, <2>4 DEF AdvanceRead, TypeOK
<1>6. ASSUME NEW verdict \in Terminal, AdvanceFinish(verdict) PROVE TypeOK'
  <2> run' \in [state : States, leased : BOOLEAN]
    BY <1>6, FinishType DEF AdvanceFinish
  <2> QED
    BY <1>1, <1>2, <1>6 DEF AdvanceFinish, TypeOK, States
<1>7. CASE AdvanceLost
  BY <1>2, <1>7, FaultType DEF AdvanceLost, TypeOK, server
<1> QED
  BY <1>3, <1>4, <1>5, <1>6, <1>7 DEF Results

LEMMA TypeClock ==
  ASSUME TypeOK, LeaseExpires \/ Reclaim \/ Overdue
  PROVE  TypeOK'
<1>1. run \in [state : States, leased : BOOLEAN]
  BY DEF TypeOK, States
<1>2. CASE LeaseExpires
  BY <1>1, <1>2 DEF LeaseExpires, TypeOK, States, world
<1>3. CASE Reclaim
  <2> DEFINE verdict == IF Expired = [p \in Deliveries |-> "none"] THEN "failed"
                        ELSE Else(Verdict(Expired, FALSE, TRUE), "unknown")
  <2>1. verdict \in Terminal
    BY VerdictType DEF Terminal
  <2>2. Finish(verdict)
    BY <1>3 DEF Reclaim
  <2>3. run' \in [state : States, leased : BOOLEAN]
    BY <2>1, <2>2, FinishType
  <2> QED
    BY <1>3, <2>3, RowsType DEF Reclaim, TypeOK, States, world
<1>4. CASE Overdue
  BY <1>4 DEF Overdue, TypeOK, server
<1> QED
  BY <1>2, <1>3, <1>4

LEMMA TypeStep == TypeOK /\ Reasoned /\ [Next]_vars => TypeOK' /\ Reasoned'
<1> SUFFICES ASSUME TypeOK, Reasoned, [Next]_vars PROVE TypeOK'
  BY ReasonedStep
<1>1. CASE UNCHANGED vars
  BY <1>1 DEF vars, TypeOK
<1> QED
  BY <1>1, TypeDrive, TypeUser, TypeDevice, TypeResults, TypeClock DEF Next

LEMMA TypeInit == Init => TypeOK /\ Reasoned
<1> SUFFICES ASSUME Init PROVE TypeOK /\ Reasoned
  OBVIOUS
<1>1. Idle \in Memory /\ Idle.pc = "idle" /\ NoOp \in Invocations
  BY DEF Idle, NoOp, Memory, Invocations
<1>2. op \in [Ops -> Invocations] /\ drv \in [Drivers -> Memory] /\ Reasoned
  BY <1>1 DEF Init, Reasoned
<1>3. del \in [Deliveries -> Rows] /\ sent \in [Deliveries -> Nat] /\ faults \in 0..MaxFaults
  BY ConstantsAssumption DEF Init, Rows
<1> QED
  BY <1>2, <1>3 DEF Init, TypeOK

\* The rows, the device's work and the memory of the drivers have their types.
THEOREM TypeCorrect == Spec => []TypeOK
<1>1. TypeOK /\ Reasoned => TypeOK
  OBVIOUS
<1> QED
  BY <1>1, TypeInit, TypeStep, PTL DEF Spec

-----------------------------------------------------------------------------
(* Any number of drivers: the order of the messages, and what they cost. *)

Tried(p) == \E n \in 1..N : op[<<p, n>>].attempt # "none"

\* An operation that has acted keeps its reservation.
Paid(i) ==
  /\ op[i].permit \in {"live", "expired", "settled"}
  /\ op[i].dev \in {"acted", "verified", "unknown", "over"}

OpInv(i) ==
  /\ op[i].srv \in {"none", "queued"} => op[i].dev = "idle"
  /\ op[i].dev \in {"idle", "working"} => op[i].permit = "none"
  /\ op[i].permit # "none" => Tried(i[1]) /\ del[i[1]] \notin {"none", "pending", "skipped"}
  /\ op[i].dev \in {"acted", "verified"} => sent[i[1]] > 0

RowInv(p) ==
  /\ del[p] \in {"dispatched", "started"} => Tried(p)
  /\ del[p] \in {"none", "pending"} => ~Tried(p)
  /\ del[p] = "succeeded" => sent[p] > 0
  /\ sent[p] > 0 => \E n \in 1..N : Paid(<<p, n>>)

\* Rows are inserted together, and skipped together.
Together ==
  \A p, q \in Deliveries : /\ del[p] = "none" => del[q] = "none"
                           /\ del[p] = "pending" => del[q] # "skipped"

\* What is tried, or about to be, comes after messages that were sent.
InLine ==
  \A q \in Deliveries :
    /\ Tried(q) \/ (\E d \in Drivers : drv[d].p = q)
         => \A p \in Deliveries : p < q => del[p] = "succeeded"
    /\ (\E d \in Drivers : drv[d].p = q) => del[q] # "none"

DriverInv(d) ==
  /\ drv[d].pc \in {"check", "enqueue", "attempt"} => drv[d].p \in Deliveries
  /\ drv[d].pc \in {"enqueue", "attempt"} => drv[d].n >= 1
  /\ drv[d].pc = "attempt" => drv[d].n <= N

LineInv ==
  /\ TypeOK /\ Reasoned
  /\ \A i \in Ops : OpInv(i)
  /\ \A p \in Deliveries : RowInv(p)
  /\ Together /\ InLine
  /\ \A d \in Drivers : DriverInv(d)

\* What a step may do to an operation, to a row and to a driver.
OpMove(i) ==
  /\ op'[i].srv \in {"none", "queued"} => op[i].srv \in {"none", "queued"} /\ op'[i].dev = op[i].dev
  /\ op'[i].dev \in {"idle", "working"}
       => op[i].dev \in {"idle", "working"} /\ op'[i].permit = op[i].permit
  /\ op'[i].permit # "none"
       => op[i].permit # "none" \/ (del[i[1]] \in {"dispatched", "started"} /\ del'[i[1]] = "started")
  /\ op[i].attempt # "none" => op'[i].attempt # "none"
  /\ op'[i].attempt # "none"
       => \/ op[i].attempt # "none"
          \/ /\ del'[i[1]] \notin {"none", "pending"}
             /\ Tried(i[1]) \/ \E d \in Drivers : drv[d].p = i[1]
  /\ op'[i].dev \in {"acted", "verified"}
       => op[i].dev \in {"acted", "verified"} \/ sent'[i[1]] > 0
  /\ Paid(i) => Paid(i)'

RowMove(p) ==
  /\ del'[p] \in {"dispatched", "started"} => del[p] \in {"dispatched", "started"} \/ Tried(p)'
  /\ del'[p] \in {"none", "pending"} => del[p] \in {"none", "pending"}
  /\ del'[p] = "none" => del[p] = "none"
  /\ del'[p] = "skipped" => del[p] \in {"pending", "skipped"}
  /\ del'[p] = "succeeded" => del[p] = "succeeded" \/ sent[p] > 0
  /\ del[p] = "succeeded" => del'[p] = "succeeded"
  /\ sent'[p] = sent[p] \/ (sent'[p] = sent[p] + 1 /\ \E n \in 1..N : Paid(<<p, n>>)')

DriverMove(d) ==
  /\ drv'[d].p \in Deliveries => drv'[d].p = drv[d].p \/ Executable(drv'[d].p)
  /\ DriverInv(d)'

Moves ==
  /\ \A i \in Ops : OpMove(i)
  /\ \A p \in Deliveries : RowMove(p)
  /\ \A d \in Drivers : DriverMove(d)
  /\ Together'

LEMMA LineMoves ==
  ASSUME LineInv, TypeOK', Reasoned', Moves
  PROVE  LineInv'
<1>1. /\ op \in [Ops -> Invocations] /\ op' \in [Ops -> Invocations]
      /\ del \in [Deliveries -> Rows] /\ del' \in [Deliveries -> Rows]
      /\ sent \in [Deliveries -> Nat] /\ sent' \in [Deliveries -> Nat]
  BY DEF LineInv, TypeOK
<1>2. \A p \in Deliveries, n \in 1..N : <<p, n>> \in Ops
  BY DEF Ops
<1>3. \A i \in Ops : i[1] \in Deliveries /\ i[2] \in 1..N /\ i = <<i[1], i[2]>>
  BY DEF Ops
<1>4. \A p \in Deliveries : Tried(p) => Tried(p)'
  BY <1>2 DEF Tried, Moves, OpMove
<1>5. ASSUME NEW i \in Ops PROVE OpInv(i)'
  <2>1. OpInv(i) /\ OpMove(i) /\ RowMove(i[1]) /\ RowInv(i[1])
    BY <1>3 DEF LineInv, Moves
  <2>2. op'[i].srv \in {"none", "queued"} => op'[i].dev = "idle"
    BY <2>1 DEF OpInv, OpMove
  <2>3. op'[i].dev \in {"idle", "working"} => op'[i].permit = "none"
    BY <2>1 DEF OpInv, OpMove
  <2>4. op'[i].permit # "none" => Tried(i[1])' /\ del'[i[1]] \notin {"none", "pending", "skipped"}
    BY <1>3, <1>4, <2>1 DEF OpInv, OpMove, RowMove, RowInv
  <2>5. op'[i].dev \in {"acted", "verified"} => sent'[i[1]] > 0
    BY <1>1, <1>3, <2>1 DEF OpInv, OpMove, RowMove
  <2> QED
    BY <2>2, <2>3, <2>4, <2>5 DEF OpInv
<1>6. ASSUME NEW p \in Deliveries PROVE RowInv(p)'
  <2>1. RowInv(p) /\ RowMove(p)
    BY DEF LineInv, Moves
  <2>2. del'[p] \in {"dispatched", "started"} => Tried(p)'
    BY <1>4, <2>1 DEF RowInv, RowMove
  <2>3. del'[p] \in {"none", "pending"} => ~Tried(p)'
    BY <1>2, <2>1 DEF RowInv, RowMove, Moves, OpMove, Tried
  <2>4. del'[p] = "succeeded" => sent'[p] > 0
    BY <1>1, <2>1 DEF RowInv, RowMove
  <2>5. sent'[p] > 0 => \E n \in 1..N : Paid(<<p, n>>)'
    BY <1>1, <1>2, <2>1 DEF RowInv, RowMove, Moves, OpMove
  <2> QED
    BY <2>2, <2>3, <2>4, <2>5 DEF RowInv
<1>7. InLine'
  <2> SUFFICES ASSUME NEW q \in Deliveries, Tried(q)' \/ (\E d \in Drivers : drv'[d].p = q),
                      NEW p \in Deliveries, p < q
               PROVE  del'[p] = "succeeded"
    <3> \A q \in Deliveries : (\E d \in Drivers : drv'[d].p = q) => del'[q] # "none"
      BY DEF LineInv, InLine, Moves, DriverMove, RowMove, Executable
    <3> QED
      BY DEF InLine
  <2>1. \/ Tried(q) \/ (\E d \in Drivers : drv[d].p = q)
        \/ Executable(q)
    BY <1>2 DEF Moves, OpMove, DriverMove, Tried
  <2>2. CASE Executable(q)
    BY <2>2 DEF Executable, LineInv, Together, Moves, RowMove
  <2>3. CASE Tried(q) \/ \E d \in Drivers : drv[d].p = q
    BY <2>3 DEF LineInv, InLine, Moves, RowMove
  <2> QED
    BY <2>1, <2>2, <2>3
<1> QED
  BY <1>5, <1>6, <1>7 DEF LineInv, Moves, DriverMove

LEMMA SameDrivers ==
  ASSUME LineInv, UNCHANGED drv
  PROVE  \A d \in Drivers : DriverMove(d)
BY DEF LineInv, DriverInv, DriverMove

LEMMA SameOps ==
  ASSUME LineInv, UNCHANGED <<op, sent>>
  PROVE  \A i \in Ops : OpMove(i)
BY DEF OpMove, Paid

LEMMA SameRows ==
  ASSUME LineInv, UNCHANGED del
  PROVE  /\ Together'
         /\ UNCHANGED sent => \A p \in Deliveries : RowMove(p)
BY DEF LineInv, Together, RowMove

\* Rows are skipped or expire; nothing else happens to them.
LEMMA SweptRows ==
  ASSUME LineInv, del' \in {del, Skipped, Expired}, UNCHANGED sent
  PROVE  Together' /\ \A p \in Deliveries : RowMove(p)
<1>1. del \in [Deliveries -> Rows]
  BY DEF LineInv, TypeOK
<1>2. CASE del' = del
  BY <1>2, SameRows
<1>3. CASE del' = Skipped
  <2>1. \A p \in Deliveries : del'[p] = IF del[p] = "pending" THEN "skipped" ELSE del[p]
    BY <1>3 DEF Skipped
  <2> QED
    BY <1>1, <2>1 DEF LineInv, Together, RowMove
<1>4. CASE del' = Expired
  <2>1. \A p \in Deliveries : del'[p] = ExpiredRow(del[p])
    BY <1>4 DEF Expired
  <2>2. \A p \in Deliveries : /\ del'[p] = del[p] \/ del'[p] \in {"expired", "unknown"}
                              /\ del'[p] # "pending"
                              /\ del'[p] = "none" <=> del[p] = "none"
                              /\ del[p] = "succeeded" => del'[p] = "succeeded"
    BY <1>1, <2>1 DEF ExpiredRow
  <2> QED
    BY <1>1, <2>2 DEF LineInv, Together, RowMove
<1> QED
  BY <1>2, <1>3, <1>4

\* A row comes to an end or starts; the rest is as it was.
LEMMA OneRow ==
  ASSUME LineInv, NEW p \in Deliveries, NEW row \in Rows \ {"none", "pending", "skipped"},
         del' = [del EXCEPT ![p] = row], del[p] \notin {"none", "pending"}, UNCHANGED sent,
         row \in {"dispatched", "started"} => Tried(p)',
         row = "succeeded" => del[p] = "succeeded" \/ sent[p] > 0,
         del[p] = "succeeded" => row = "succeeded"
  PROVE  Together' /\ \A q \in Deliveries : RowMove(q)
<1>1. del \in [Deliveries -> Rows]
  BY DEF LineInv, TypeOK
<1>2. del'[p] = row /\ \A q \in Deliveries : q # p => del'[q] = del[q]
  BY <1>1
<1>3. ASSUME NEW q \in Deliveries PROVE RowMove(q)
  <2>1. CASE q = p
    BY <1>2, <2>1 DEF RowMove
  <2>2. CASE q # p
    BY <1>2, <2>2 DEF RowMove
  <2> QED
    BY <2>1, <2>2
<1>4. Together'
  BY <1>2 DEF LineInv, Together
<1> QED
  BY <1>3, <1>4

\* One operation moves on, without a new attempt.
LEMMA OneOp ==
  ASSUME LineInv, NEW i \in Ops, NEW new \in Invocations, op' = [op EXCEPT ![i] = new],
         \A p \in Deliveries : sent'[p] >= sent[p],
         new.srv \in {"none", "queued"} => op[i].srv \in {"none", "queued"} /\ new.dev = op[i].dev,
         new.dev \in {"idle", "working"}
           => op[i].dev \in {"idle", "working"} /\ new.permit = op[i].permit,
         new.permit # "none"
           => op[i].permit # "none" \/ (del[i[1]] \in {"dispatched", "started"} /\ del'[i[1]] = "started"),
         op[i].attempt = "none" <=> new.attempt = "none",
         new.dev \in {"acted", "verified"} => op[i].dev \in {"acted", "verified"} \/ sent'[i[1]] > 0,
         Paid(i) => /\ new.permit \in {"live", "expired", "settled"}
                    /\ new.dev \in {"acted", "verified", "unknown", "over"}
  PROVE  \A j \in Ops : OpMove(j)
<1>1. op \in [Ops -> Invocations]
  BY DEF LineInv, TypeOK
<1>2. op'[i] = new /\ \A j \in Ops : j # i => op'[j] = op[j]
  BY <1>1
<1> SUFFICES ASSUME NEW j \in Ops PROVE OpMove(j)
  OBVIOUS
<1>3. CASE j = i
  BY <1>2, <1>3 DEF OpMove, Paid
<1>4. CASE j # i
  BY <1>2, <1>4 DEF OpMove, Paid
<1> QED
  BY <1>3, <1>4

LEMMA MovesDrive ==
  ASSUME LineInv, NEW d \in Drivers, Drive(d) \/ Crash(d)
  PROVE  Moves
<1>1. /\ op \in [Ops -> Invocations] /\ del \in [Deliveries -> Rows]
      /\ drv \in [Drivers -> Memory] /\ drv[d] \in Memory /\ DriverInv(d)
  BY DEF LineInv, TypeOK
<1>2. UNCHANGED sent
  BY DEF Drive, Crash, ClaimEntry, Poison, ClaimRun, PassEntry, CloseEntry, Requeue, Prepare,
         InsertDeliveries, Pick, Check, Enqueue, Dispatch, Abandon, DriveRunning, world
<1>3. ASSUME \A e \in Drivers : e # d => drv'[e] = drv[e], DriverMove(d)
      PROVE  \A e \in Drivers : DriverMove(e)
  BY <1>3 DEF LineInv, DriverInv, DriverMove
<1>4. ASSUME NEW pc \in {"entry", "close", "prepare", "insert", "pick", "idle"}, Go(d, pc)
      PROVE  \A e \in Drivers : DriverMove(e)
  <2>1. /\ \A e \in Drivers : e # d => drv'[e] = drv[e]
        /\ drv'[d].pc = pc /\ drv'[d].p = drv[d].p
    BY <1>1, <1>4 DEF Go, Memory
  <2> QED
    BY <1>3, <2>1 DEF DriverMove, DriverInv
<1>5. ASSUME NEW reason, Stop(d, reason)
      PROVE  \A e \in Drivers : DriverMove(e)
  <2>1. /\ \A e \in Drivers : e # d => drv'[e] = drv[e]
        /\ drv'[d].pc = "abandon" /\ drv'[d].p = drv[d].p
    BY <1>1, <1>5 DEF Stop, Memory
  <2> QED
    BY <1>3, <2>1 DEF DriverMove, DriverInv
<1>6. ASSUME NEW f, drv' = [drv EXCEPT ![d] = f], f.pc \in {"idle", "entry"}, f.p = 0
      PROVE  \A e \in Drivers : DriverMove(e)
  <2>1. (\A e \in Drivers : e # d => drv'[e] = drv[e]) /\ drv'[d] = f /\ 0 \notin Deliveries
    BY <1>1, <1>6 DEF Deliveries
  <2> QED
    BY <1>3, <1>6, <2>1 DEF DriverMove, DriverInv
<1>7. Idle.pc = "idle" /\ Idle.p = 0
      /\ LET f == [Idle EXCEPT !.pc = "entry", !.entry = TRUE] IN f.pc = "entry" /\ f.p = 0
  BY DEF Idle
<1>8. ASSUME UNCHANGED <<op, del>>, \A e \in Drivers : DriverMove(e)
      PROVE  Moves
  BY <1>2, <1>8, SameOps, SameRows DEF Moves
<1>9. CASE ClaimEntry(d) \/ CloseEntry(d) \/ Crash(d)
  <2>1. /\ UNCHANGED <<op, del>>
        /\ \/ drv' = [drv EXCEPT ![d] = Idle]
           \/ drv' = [drv EXCEPT ![d] = [Idle EXCEPT !.pc = "entry", !.entry = TRUE]]
    BY <1>9 DEF ClaimEntry, CloseEntry, Crash, server
  <2> QED
    BY <1>6, <1>7, <1>8, <2>1
<1>10. CASE Poison(d) \/ ClaimRun(d)
  BY <1>4, <1>8, <1>10 DEF Poison, ClaimRun
<1>11. CASE PassEntry(d)
  BY <1>4, <1>6, <1>7, <1>8, <1>11 DEF PassEntry, server
<1>12. CASE Requeue(d)
  BY <1>8, <1>12, SameDrivers DEF Requeue
<1>13. CASE Prepare(d)
  BY <1>4, <1>5, <1>8, <1>13 DEF Prepare, server
<1>14. CASE InsertDeliveries(d)
  <2>1. \A p \in Deliveries : del'[p] = IF del[p] = "none" THEN "pending" ELSE del[p]
    BY <1>14 DEF InsertDeliveries
  <2>2. Together'
    BY <2>1 DEF LineInv, Together
  <2>3. \A p \in Deliveries : RowMove(p)
    BY <1>1, <1>2, <2>1 DEF RowMove
  <2>4. UNCHANGED op /\ \A e \in Drivers : DriverMove(e)
    BY <1>4, <1>14 DEF InsertDeliveries
  <2> QED
    BY <1>2, <2>2, <2>3, <2>4, SameOps DEF Moves
<1>15. CASE Pick(d)
  <2>1. UNCHANGED <<op, del>>
    BY <1>15 DEF Pick, server
  <2>2. ASSUME NEW p \in Deliveries, Executable(p),
               drv' = [drv EXCEPT ![d].pc = "check", ![d].p = p]
        PROVE  \A e \in Drivers : DriverMove(e)
    <3>1. /\ \A e \in Drivers : e # d => drv'[e] = drv[e]
          /\ drv'[d].pc = "check" /\ drv'[d].p = p
      BY <1>1, <2>2 DEF Memory
    <3> QED
      BY <1>3, <2>2, <3>1 DEF DriverMove, DriverInv
  <2> QED
    BY <1>4, <1>8, <1>15, <2>1, <2>2 DEF Pick
<1>16. CASE Check(d)
  <2>1. UNCHANGED <<op, del>>
    BY <1>16 DEF Check, server
  <2> DEFINE n == Cardinality(Attempts(drv[d].p)) + 1
  <2>2. n >= 1
    BY AttemptsNumber
  <2>3. ASSUME drv' = [drv EXCEPT ![d].pc = "enqueue", ![d].n = n]
        PROVE  \A e \in Drivers : DriverMove(e)
    <3> HIDE DEF n
    <3>1. /\ \A e \in Drivers : e # d => drv'[e] = drv[e]
          /\ drv'[d].pc = "enqueue" /\ drv'[d].p = drv[d].p /\ drv'[d].n = n
      BY <1>1, <2>3 DEF Memory
    <3>2. drv[d].p \in Deliveries
      BY <1>1, <1>16 DEF DriverInv, Check
    <3> QED
      BY <1>3, <2>2, <3>1, <3>2 DEF DriverMove, DriverInv
  <2> HIDE DEF n
  <2>4. \/ \E reason : Stop(d, reason)
        \/ drv' = [drv EXCEPT ![d].pc = "enqueue", ![d].n = n]
    BY <1>16 DEF Check, n
  <2> QED
    BY <1>5, <1>8, <2>1, <2>3, <2>4
<1>17. CASE Enqueue(d)
  <2> DEFINE i == <<drv[d].p, drv[d].n>>
             new == [op[i] EXCEPT !.srv = IF op[i].srv = "none" THEN "queued" ELSE op[i].srv]
  <2>1. i \in Ops
    BY <1>1, <1>17 DEF Enqueue, DriverInv, Ops, Memory, Deliveries
  <2>2. op' = [op EXCEPT ![i] = new]
    BY <1>1, <1>17, <2>1 DEF Enqueue, Queued
  <2>3. /\ new \in Invocations /\ new.dev = op[i].dev /\ new.permit = op[i].permit
        /\ new.attempt = op[i].attempt
        /\ new.srv \in {"none", "queued"} => op[i].srv \in {"none", "queued"}
    BY <1>1, <2>1 DEF Invocations
  <2>4. \A p \in Deliveries : sent'[p] >= sent[p]
    BY <1>2 DEF LineInv, TypeOK
  <2> HIDE DEF i, new
  <2>5. \A j \in Ops : OpMove(j)
    BY <2>1, <2>2, <2>3, <2>4, OneOp DEF Paid
  <2>6. UNCHANGED del /\ \A e \in Drivers : DriverMove(e)
    <3>1. /\ \A e \in Drivers : e # d => drv'[e] = drv[e]
          /\ drv'[d].pc = "attempt" /\ drv'[d].p = drv[d].p /\ drv'[d].n = drv[d].n
      BY <1>1, <1>17 DEF Enqueue, Go, Memory
    <3> QED
      BY <1>1, <1>3, <1>17, <3>1 DEF Enqueue, server, DriverMove, DriverInv
  <2> QED
    BY <1>2, <2>5, <2>6, SameRows DEF Moves
<1>18. CASE Dispatch(d)
  <2>a. PICK p, n : p = drv[d].p /\ n = drv[d].n
    OBVIOUS
  <2> DEFINE i == <<p, n>>
  <2>1. i \in Ops /\ p \in Deliveries /\ i[1] = p /\ n \in 1..N
    BY <1>1, <1>18, <2>a DEF Dispatch, DriverInv, Ops, Memory, Deliveries
  <2>2. /\ \A j \in Ops : j # i => op'[j] = op[j]
        /\ op'[i].srv = op[i].srv /\ op'[i].dev = op[i].dev /\ op'[i].permit = op[i].permit
        /\ op'[i].attempt # "none"
    BY <1>1, <1>18, <2>a, <2>1 DEF Dispatch, Invocations
  <2>3. /\ \A q \in Deliveries : q # p => del'[q] = del[q]
        /\ del'[p] = IF del[p] = "pending" THEN "dispatched" ELSE del[p]
    BY <1>1, <1>18, <2>a, <2>1 DEF Dispatch
  <2>4. Tried(p)'
    BY <2>1, <2>2 DEF Tried
  <2>5. del[p] # "none"
    BY <2>a, <2>1 DEF LineInv, InLine
  <2>6. \A j \in Ops : OpMove(j)
    BY <1>2, <2>a, <2>1, <2>2, <2>3, <2>5 DEF OpMove, Paid
  <2>7. \A q \in Deliveries : RowMove(q)
    <3>1. del'[p] \in {"dispatched", del[p]} /\ RowMove(p)
      BY <1>2, <2>3, <2>4, <2>5 DEF RowMove
    <3>2. \A q \in Deliveries : q # p => RowMove(q)
      BY <1>2, <2>3 DEF RowMove
    <3> QED
      BY <3>1, <3>2
  <2>8. Together'
    BY <2>3, <2>5 DEF LineInv, Together
  <2>9. \A e \in Drivers : DriverMove(e)
    <3>1. drv' = [drv EXCEPT ![d].pc = "pick", ![d].p = 0, ![d].n = 0]
      BY <1>18 DEF Dispatch
    <3>2. /\ \A e \in Drivers : e # d => drv'[e] = drv[e]
          /\ drv'[d].pc = "pick" /\ drv'[d].p = 0 /\ 0 \notin Deliveries
      BY <1>1, <3>1 DEF Memory, Deliveries
    <3> QED
      BY <1>3, <3>2 DEF DriverMove, DriverInv
  <2> QED
    BY <2>6, <2>7, <2>8, <2>9 DEF Moves
<1>19. CASE Abandon(d)
  <2>1. UNCHANGED op /\ del' \in {Skipped, Expired}
    BY <1>19 DEF Abandon
  <2>2. drv' = [drv EXCEPT ![d].pc = "close", ![d].p = 0, ![d].n = 0, ![d].reason = "none"]
    BY <1>19 DEF Abandon
  <2>3. /\ \A e \in Drivers : e # d => drv'[e] = drv[e]
        /\ drv'[d].pc = "close" /\ drv'[d].p = 0 /\ 0 \notin Deliveries
    BY <1>1, <2>2 DEF Memory, Deliveries
  <2>4. \A e \in Drivers : DriverMove(e)
    BY <1>3, <2>3 DEF DriverMove, DriverInv
  <2> QED
    BY <1>2, <2>1, <2>4, SweptRows, SameOps DEF Moves
<1>20. CASE DriveRunning(d)
  <2> UNCHANGED <<op, del>> /\ (Go(d, "pick") \/ UNCHANGED drv)
    BY <1>20 DEF DriveRunning
  <2> QED
    BY <1>4, <1>8, SameDrivers
<1> QED
  BY <1>9, <1>10, <1>11, <1>12, <1>13, <1>14, <1>15, <1>16, <1>17, <1>18, <1>19, <1>20 DEF Drive

LEMMA MovesUser ==
  ASSUME LineInv, User
  PROVE  Moves
<1>1. /\ op \in [Ops -> Invocations] /\ del \in [Deliveries -> Rows]
      /\ UNCHANGED <<drv, sent>>
  BY DEF LineInv, TypeOK, User, Cancel, Pause, Publish, Retry, world
<1>2. \A d \in Drivers : DriverMove(d)
  BY <1>1, SameDrivers
<1>3. ASSUME CancelRun PROVE Moves
  <2>1. \A i \in Ops : OpMove(i)
    <3> SUFFICES ASSUME NEW i \in Ops PROVE OpMove(i)
      OBVIOUS
    <3>1. op' = CancelledOps
      BY <1>3 DEF CancelRun
    <3>2. /\ op'[i].dev = op[i].dev /\ op'[i].permit = op[i].permit
          /\ op'[i].attempt = op[i].attempt
          /\ op'[i].srv \in {"none", "queued"} => op[i].srv \in {"none", "queued"}
      BY <1>1, <3>1 DEF CancelledOps, Invocations
    <3> QED
      BY <3>2 DEF OpMove, Paid
  <2> QED
    BY <1>1, <1>2, <1>3, <2>1, SweptRows DEF CancelRun, Moves
<1>4. CASE UNCHANGED <<op, del>>
  BY <1>1, <1>2, <1>4, SameOps, SameRows DEF Moves
<1>5. CASE Cancel \/ Pause \/ Publish
  BY <1>3, <1>4, <1>5 DEF Cancel, Pause, Publish, server
<1>6. ASSUME NEW p \in Deliveries, Retry(p) PROVE Moves
  <2>1. PICK n \in 1..N :
          /\ op[<<p, n>>].srv \in {"none", "queued"}
          /\ \/ /\ op' = [op EXCEPT ![<<p, n>>].srv = "queued", ![<<p, n>>].attempt = "open"]
                /\ del' = [del EXCEPT ![p] = "dispatched"]
             \/ op' = Queued(<<p, n>>) /\ UNCHANGED del
    BY <1>6 DEF Retry, RetryKey
  <2> DEFINE i == <<p, n>>
  <2>2. i \in Ops /\ i[1] = p
    BY DEF Ops
  <2>3. del[p] \in {"failed", "unknown", "expired"} /\ Tried(p)
    BY <1>6 DEF Retry, IsLatest, Attempts, Tried
  <2>4. /\ \A j \in Ops : j # i => op'[j] = op[j]
        /\ op'[i].dev = op[i].dev /\ op'[i].permit = op[i].permit
        /\ op'[i].attempt = op[i].attempt \/ del'[p] \notin {"none", "pending"}
        /\ op[i].attempt # "none" => op'[i].attempt # "none"
    <3>1. CASE /\ op' = [op EXCEPT ![<<p, n>>].srv = "queued", ![<<p, n>>].attempt = "open"]
               /\ del' = [del EXCEPT ![p] = "dispatched"]
      BY <1>1, <2>2, <3>1 DEF Invocations
    <3>2. CASE op' = Queued(<<p, n>>)
      BY <1>1, <2>2, <3>2 DEF Queued, Invocations
    <3> QED
      BY <2>1, <3>1, <3>2
  <2>5. \A j \in Ops : OpMove(j)
    BY <2>1, <2>2, <2>3, <2>4 DEF OpMove, Paid
  <2>6. CASE UNCHANGED del
    BY <1>1, <1>2, <2>5, <2>6, SameRows DEF Moves
  <2>7. CASE /\ op' = [op EXCEPT ![<<p, n>>].srv = "queued", ![<<p, n>>].attempt = "open"]
             /\ del' = [del EXCEPT ![p] = "dispatched"]
    <3>1. Tried(p)'
      BY <1>1, <2>2, <2>7 DEF Tried, Invocations
    <3>2. Together' /\ \A q \in Deliveries : RowMove(q)
      BY <1>1, <2>3, <2>7, <3>1, OneRow DEF Rows
    <3> QED
      BY <1>2, <2>5, <3>2 DEF Moves
  <2> QED
    BY <2>1, <2>6, <2>7
<1> QED
  BY <1>5, <1>6 DEF User

LEMMA MovesDevice ==
  ASSUME LineInv, NEW i \in Ops, Runtime(i) \/ Clock(i)
  PROVE  Moves
<1>1. /\ op \in [Ops -> Invocations] /\ del \in [Deliveries -> Rows] /\ op[i] \in Invocations
      /\ sent \in [Deliveries -> Nat] /\ i[1] \in Deliveries /\ OpInv(i)
      /\ i[2] \in 1..N /\ i = <<i[1], i[2]>>
  BY DEF LineInv, TypeOK, Ops
<1>2. UNCHANGED drv
  BY DEF Runtime, Clock, Claim, Authorize, Decline, Withdraw, Act, Conclude, DeviceCrash,
         PermitExpires, ClaimExpires, Deadline
<1>3. \A d \in Drivers : DriverMove(d)
  BY <1>2, SameDrivers
<1>4. ASSUME UNCHANGED sent PROVE \A p \in Deliveries : sent'[p] >= sent[p]
  BY <1>1, <1>4
<1>5. ASSUME UNCHANGED <<del, sent>>, \A j \in Ops : OpMove(j) PROVE Moves
  BY <1>3, <1>5, SameRows DEF Moves
\* The device ends its part: it never works, acts or verifies again without having acted.
<1>6. ASSUME NEW state \in {"over"} \union Reports, Device(i, state), UNCHANGED <<del, sent>>,
             op[i].dev \notin {"idle"},
             Paid(i) => state \in {"verified", "unknown", "over"},
             state = "verified" => op[i].dev \in {"acted", "verified"}
      PROVE  Moves
  <2> DEFINE new == [op[i] EXCEPT !.dev = state]
  <2>1. op' = [op EXCEPT ![i] = new]
    BY <1>1, <1>6 DEF Device
  <2>2. /\ new \in Invocations /\ new.dev = state /\ new.srv = op[i].srv
        /\ new.permit = op[i].permit /\ new.attempt = op[i].attempt
        /\ new.dev \notin {"idle", "working", "acted"}
    BY <1>1 DEF Invocations, Reports, NotStarted
  <2> HIDE DEF new
  <2>3. \A j \in Ops : OpMove(j)
    BY <1>1, <1>4, <1>6, <2>1, <2>2, OneOp DEF OpInv, Paid
  <2> QED
    BY <1>5, <1>6, <2>3
<1>7. CASE Claim(i)
  <2> DEFINE new == [op[i] EXCEPT !.srv = "running", !.dev = "working"]
  <2>1. op' = [op EXCEPT ![i] = new] /\ op[i].dev = "idle" /\ UNCHANGED <<del, sent>>
    BY <1>1, <1>7 DEF Claim, server
  <2>2. /\ new \in Invocations /\ new.dev = "working" /\ new.srv = "running"
        /\ new.permit = op[i].permit /\ new.attempt = op[i].attempt
    BY <1>1 DEF Invocations
  <2> HIDE DEF new
  <2>3. \A j \in Ops : OpMove(j)
    BY <1>1, <1>4, <2>1, <2>2, OneOp DEF OpInv, Paid
  <2> QED
    BY <1>5, <2>1, <2>3
<1>8. CASE Authorize(i)
  <2>1. PICK dev \in {"permitted", "retryable"} :
          op' = [op EXCEPT ![i].permit = "live", ![i].dev = dev]
    BY <1>8 DEF Authorize
  <2>2. /\ op[i].dev = "working" /\ del[i[1]] \in {"dispatched", "started"} /\ UNCHANGED sent
        /\ del' = [del EXCEPT ![i[1]] = "started"]
    BY <1>8 DEF Authorize, Authorizable
  <2> DEFINE new == [op[i] EXCEPT !.permit = "live", !.dev = dev]
  <2>3. op' = [op EXCEPT ![i] = new]
    BY <1>1, <2>1
  <2>4. /\ new \in Invocations /\ new.dev \in {"permitted", "retryable"} /\ new.srv = op[i].srv
        /\ new.permit = "live" /\ new.attempt = op[i].attempt
    BY <1>1 DEF Invocations, Reports, NotStarted
  <2> HIDE DEF new
  <2>5. \A j \in Ops : OpMove(j)
    BY <1>1, <1>4, <2>2, <2>3, <2>4, OneOp DEF OpInv, Paid
  <2>6. Tried(i[1]) /\ (Tried(i[1]) => Tried(i[1])')
    <3>1. Tried(i[1])
      BY <1>1, <2>2 DEF LineInv, RowInv
    <3>2. \A n \in 1..N : op'[<<i[1], n>>].attempt = op[<<i[1], n>>].attempt
      BY <1>1, <2>3, <2>4 DEF Ops
    <3> QED
      BY <3>1, <3>2 DEF Tried
  <2>7. Together' /\ \A q \in Deliveries : RowMove(q)
    BY <1>1, <2>2, <2>6, OneRow DEF Rows
  <2> QED
    BY <1>3, <2>5, <2>7 DEF Moves
<1>9. CASE Decline(i) \/ Withdraw(i)
  <2>1. /\ op[i].dev \in {"working", "permitted"} /\ UNCHANGED <<del, sent>>
        /\ \E r \in NotStarted \union {"unsure"} : Device(i, r)
    BY <1>9 DEF Decline, Withdraw, server, NotStarted
  <2> QED
    BY <1>6, <2>1 DEF Reports, NotStarted, Paid
<1>10. CASE Act(i)
  <2> DEFINE new == [op[i] EXCEPT !.dev = "acted"]
  <2>1. /\ op' = [op EXCEPT ![i] = new] /\ op[i].dev = "permitted" /\ op[i].permit = "live"
        /\ sent' = [sent EXCEPT ![i[1]] = @ + 1] /\ UNCHANGED del
    BY <1>1, <1>10 DEF Act, Device, server
  <2>2. /\ new \in Invocations /\ new.dev = "acted" /\ new.srv = op[i].srv
        /\ new.permit = op[i].permit /\ new.attempt = op[i].attempt
    BY <1>1 DEF Invocations
  <2>3. /\ \A p \in Deliveries : sent'[p] >= sent[p] /\ (p # i[1] => sent'[p] = sent[p])
        /\ sent'[i[1]] = sent[i[1]] + 1 /\ sent'[i[1]] > 0
    BY <1>1, <2>1
  <2> HIDE DEF new
  <2>4. \A j \in Ops : OpMove(j)
    BY <1>1, <2>1, <2>2, <2>3, OneOp DEF OpInv, Paid
  <2>5. Paid(<<i[1], i[2]>>)'
    BY <1>1, <2>1, <2>2 DEF Paid
  <2>6. \A p \in Deliveries : RowMove(p)
    <3> SUFFICES ASSUME NEW p \in Deliveries PROVE RowMove(p)
      OBVIOUS
    <3>1. sent'[p] = sent[p] \/ (sent'[p] = sent[p] + 1 /\ \E n \in 1..N : Paid(<<p, n>>)')
      <4>1. CASE p = i[1]
        <5>1. PICK m \in 1..N : i = <<p, m>>
          BY <1>1, <4>1
        <5>2. Paid(<<p, m>>)'
          <6> op'[i] = new
            BY <1>1, <2>1
          <6> QED
            BY <2>1, <2>2, <5>1 DEF Paid
        <5> QED
          BY <2>3, <4>1, <5>2
      <4>2. CASE p # i[1]
        BY <2>3, <4>2
      <4> QED
        BY <4>1, <4>2
    <3> QED
      BY <2>1, <3>1 DEF RowMove
  <2> QED
    BY <1>3, <2>1, <2>4, <2>6, SameRows DEF Moves
<1>11. CASE Conclude(i)
  <2>1. /\ op[i].dev \in {"acted", "permitted"} /\ UNCHANGED <<del, sent>>
        /\ \E r \in {"verified", "unknown"} :
             Device(i, r) /\ (r = "verified" => op[i].dev = "acted")
    BY <1>11 DEF Conclude, server
  <2> QED
    BY <1>6, <2>1 DEF Reports
<1>12. CASE DeviceCrash(i)
  <2> op[i].dev # "idle" /\ Device(i, "over") /\ UNCHANGED <<del, sent>>
    BY <1>12 DEF DeviceCrash, server
  <2> QED
    BY <1>6
<1>13. CASE PermitExpires(i)
  <2> DEFINE new == [op[i] EXCEPT !.permit = "expired"]
  <2>1. op' = [op EXCEPT ![i] = new] /\ op[i].permit = "live" /\ UNCHANGED <<del, sent>>
    BY <1>1, <1>13 DEF PermitExpires, Lapsed, server
  <2>2. /\ new \in Invocations /\ new.dev = op[i].dev /\ new.srv = op[i].srv
        /\ new.permit = "expired" /\ new.attempt = op[i].attempt
    BY <1>1 DEF Invocations
  <2> HIDE DEF new
  <2>3. \A j \in Ops : OpMove(j)
    BY <1>1, <1>4, <2>1, <2>2, OneOp DEF OpInv, Paid
  <2> QED
    BY <1>5, <2>1, <2>3
<1>14. CASE ClaimExpires(i)
  <2> DEFINE new == [op[i] EXCEPT !.srv = "unknown"]
  <2>1. op' = [op EXCEPT ![i] = new] /\ UNCHANGED <<del, sent>>
    BY <1>1, <1>14 DEF ClaimExpires, server
  <2>2. /\ new \in Invocations /\ new.dev = op[i].dev /\ new.srv = "unknown"
        /\ new.permit = op[i].permit /\ new.attempt = op[i].attempt
    BY <1>1 DEF Invocations, Settled
  <2> HIDE DEF new
  <2>3. \A j \in Ops : OpMove(j)
    BY <1>1, <1>4, <2>1, <2>2, OneOp DEF OpInv, Paid
  <2> QED
    BY <1>5, <2>1, <2>3
<1>15. CASE Deadline(i)
  BY <1>5, <1>15, SameOps DEF Deadline, server
<1> QED
  BY <1>7, <1>8, <1>9, <1>10, <1>11, <1>12, <1>13, <1>14, <1>15 DEF Runtime, Clock

LEMMA MovesResults ==
  ASSUME LineInv, Results
  PROVE  Moves
<1>1. /\ op \in [Ops -> Invocations] /\ del \in [Deliveries -> Rows]
      /\ sent \in [Deliveries -> Nat] /\ UNCHANGED <<drv, sent>>
  BY DEF LineInv, TypeOK, Results, ApplyResult, ResultIgnored, AdvanceRead, AdvanceFinish,
         AdvanceLost, world
<1>2. \A d \in Drivers : DriverMove(d)
  BY <1>1, SameDrivers
<1>3. \A p \in Deliveries : sent'[p] >= sent[p]
  BY <1>1
<1>4. ASSUME NEW i \in Ops, ApplyResult(i) PROVE Moves
  <2>1. PICK valid \in BOOLEAN, dev \in {"over", op[i].dev} :
           /\ op' = [op EXCEPT ![i] =
                [srv |-> Outcome(op[i].dev, valid), dev |-> dev,
                 permit |-> Consumed(op[i].permit, op[i].dev),
                 attempt |-> IF op[i].dev \in MachineSafe THEN "safe" ELSE "done"]]
           /\ del' = [del EXCEPT ![i[1]] =
                IF @ \in Finished THEN @ ELSE Outcome(op[i].dev, valid)]
    BY <1>4, ApplyForm DEF LineInv
  <2> DEFINE new == [srv |-> Outcome(op[i].dev, valid), dev |-> dev,
                     permit |-> Consumed(op[i].permit, op[i].dev),
                     attempt |-> IF op[i].dev \in MachineSafe THEN "safe" ELSE "done"]
             row == IF del[i[1]] \in Finished THEN del[i[1]] ELSE Outcome(op[i].dev, valid)
  <2>2. /\ op[i] \in Invocations /\ i[1] \in Deliveries /\ i[2] \in 1..N /\ i = <<i[1], i[2]>>
        /\ op[i].dev \in Reports /\ op[i].attempt = "open" /\ OpInv(i) /\ RowInv(i[1])
    BY <1>1, <1>4 DEF Ops, ApplyResult, LineInv
  <2>3. op' = [op EXCEPT ![i] = new] /\ del' = [del EXCEPT ![i[1]] = row]
    BY <1>1, <2>1, <2>2
  <2>4. /\ new \in Invocations /\ new.srv \notin {"none", "queued"}
        /\ new.dev \in {"over", op[i].dev} /\ new.attempt # "none"
        /\ new.permit # "none" => op[i].permit # "none"
        /\ Paid(i) => /\ new.permit \in {"live", "expired", "settled"}
                      /\ new.dev \in {"acted", "verified", "unknown", "over"}
    BY <2>2, OutcomeType DEF Invocations, Consumed, WithPermit, NotStarted, Reports, Settled, Paid
  <2>5. Tried(i[1])
    BY <2>2 DEF Tried
  <2>6. /\ del[i[1]] \notin {"none", "pending"} /\ row \in Rows
        /\ row \notin {"none", "pending", "dispatched", "started"}
        /\ row = "skipped" => del[i[1]] = "skipped"
        /\ row = "succeeded" => del[i[1]] = "succeeded" \/ sent[i[1]] > 0
        /\ del[i[1]] = "succeeded" => row = "succeeded"
    BY <1>1, <2>2, <2>5, OutcomeType DEF RowInv, OpInv, Outcome, Rows, Finished
  <2> HIDE DEF new, row
  <2>7. op[i].dev \notin {"idle", "working", "acted"}
    BY <2>2 DEF Reports, NotStarted
  <2>8. \A j \in Ops : OpMove(j)
    BY <1>3, <2>2, <2>3, <2>4, <2>7, OneOp
  <2>9. Together' /\ \A q \in Deliveries : RowMove(q)
    <3>1. CASE row = "skipped"
      <4> del' = del
        BY <1>1, <2>2, <2>3, <2>6, <3>1
      <4> QED
        BY <1>1, SameRows
    <3>2. CASE row # "skipped"
      BY <1>1, <2>2, <2>3, <2>6, <3>2, OneRow
    <3> QED
      BY <3>1, <3>2
  <2> QED
    BY <1>2, <2>8, <2>9 DEF Moves
<1>5. ASSUME NEW i \in Ops, ResultIgnored(i) PROVE Moves
  <2> DEFINE new == [op[i] EXCEPT !.dev = "over"]
  <2>1. /\ op' = [op EXCEPT ![i] = new] /\ op[i].dev \in Reports /\ UNCHANGED del
        /\ op[i] \in Invocations
    BY <1>1, <1>5 DEF ResultIgnored, Device, server
  <2>2. /\ new \in Invocations /\ new.dev = "over" /\ new.srv = op[i].srv
        /\ new.permit = op[i].permit /\ new.attempt = op[i].attempt
    BY <2>1 DEF Invocations
  <2> HIDE DEF new
  <2>3. OpInv(i) /\ op[i].dev # "idle"
    BY <2>1 DEF LineInv, Reports, NotStarted
  <2>4. \A j \in Ops : OpMove(j)
    BY <1>3, <2>1, <2>2, <2>3, OneOp DEF OpInv, Paid
  <2> QED
    BY <1>1, <1>2, <2>1, <2>4, SameRows DEF Moves
<1>6. CASE AdvanceRead \/ AdvanceLost \/ \E verdict \in Terminal : AdvanceFinish(verdict)
  <2> UNCHANGED op /\ del' \in {del, Skipped, Expired}
    BY <1>6 DEF AdvanceRead, AdvanceLost, AdvanceFinish, server
  <2> QED
    BY <1>1, <1>2, SweptRows, SameOps DEF Moves
<1> QED
  BY <1>4, <1>5, <1>6 DEF Results

LEMMA MovesStep ==
  ASSUME LineInv, [Next]_vars
  PROVE  Moves
<1>1. ASSUME UNCHANGED <<op, drv, sent>>, del' \in {del, Skipped, Expired} PROVE Moves
  BY <1>1, SameDrivers, SameOps, SweptRows DEF Moves
<1>2. ASSUME LeaseExpires \/ Reclaim \/ Overdue \/ UNCHANGED vars PROVE Moves
  BY <1>1, <1>2 DEF LeaseExpires, Reclaim, Overdue, world, server, vars
<1> QED
  BY <1>2, MovesDrive, MovesUser, MovesDevice, MovesResults DEF Next

LEMMA LineStep == LineInv /\ [Next]_vars => LineInv'
<1> SUFFICES ASSUME LineInv, [Next]_vars PROVE LineInv'
  OBVIOUS
<1>1. TypeOK' /\ Reasoned'
  BY TypeStep DEF LineInv
<1> QED
  BY <1>1, MovesStep, LineMoves

LEMMA LineInit == Init => LineInv
<1> SUFFICES ASSUME Init PROVE LineInv
  OBVIOUS
<1>1. \A d \in Drivers : drv[d].pc = "idle" /\ drv[d].p = 0 /\ 0 \notin Deliveries
  BY DEF Init, Idle, Deliveries
<1>2. \A i \in Ops : op[i] = NoOp
  BY DEF Init
<1>3. \A p \in Deliveries : del[p] = "none" /\ sent[p] = 0 /\ ~Tried(p)
  BY <1>2 DEF Init, Tried, NoOp, Ops
<1>4. /\ \A i \in Ops : OpInv(i)
      /\ \A p \in Deliveries : RowInv(p)
      /\ \A d \in Drivers : DriverInv(d)
  BY <1>1, <1>2, <1>3 DEF OpInv, RowInv, DriverInv, NoOp
<1>5. Together /\ InLine
  BY <1>1, <1>3 DEF Together, InLine
<1> QED
  BY <1>4, <1>5, TypeInit DEF LineInv

\* The messages of a run are sent in order, each after all before it are known to have been
\* sent, with any number of drivers, deliveries, retries and faults.
THEOREM InOrderAlways == Spec => []InOrder
<1>1. LineInv => InOrder
  <2> SUFFICES ASSUME LineInv, NEW p \in Deliveries, NEW q \in Deliveries, p < q, sent[q] > 0
               PROVE  del[p] = "succeeded"
    BY DEF InOrder
  <2>1. PICK n \in 1..N : Paid(<<q, n>>)
    BY DEF LineInv, RowInv
  <2>2. <<q, n>> \in Ops /\ OpInv(<<q, n>>)
    BY DEF LineInv, Ops
  <2>3. Tried(q)
    BY <2>1, <2>2 DEF OpInv, Paid
  <2> QED
    BY <2>3 DEF LineInv, InLine
<1> QED
  BY <1>1, LineInit, LineStep, PTL DEF Spec

\* Every message that was sent holds a place in the quota, whatever expired or was lost.
THEOREM ChargedAlways == Spec => []Charged
<1>1. LineInv => Charged
  BY DEF LineInv, RowInv, Paid, Charged
<1> QED
  BY <1>1, LineInit, LineStep, PTL DEF Spec

-----------------------------------------------------------------------------
(* One driver: at most one invocation of a message sends it. *)

OneDriver == \A d, e \in Drivers : d = e

KnownOp(i) ==
  /\ op[i].attempt = "safe" => op[i].dev \in MachineSafe \union {"over"}
  /\ op[i].attempt = "done" => op[i].dev \in Reports \union {"over"}
  /\ op[i].dev = "permitted" => op[i].permit # "none"
  /\ op[i].attempt # "none" /\ op[i].dev \in {"permitted", "acted"}
       => del[i[1]] \in {"started", "unknown"}
  /\ i[2] > 1 /\ op[i].srv # "none" /\ op[i].attempt = "none"
       => i[1] \in reopened \/ del[i[1]] \in Finished

\* The invocation that sent a message, and will never be safe to retry.
Sender(i) ==
  /\ op[i].attempt \in {"open", "done"}
  /\ op[i].dev \in {"acted", "verified", "unknown", "over"}

\* An attempt comes after dead invocations and attempts that proved that nothing was started.
InTurn(p) ==
  \A n, m \in 1..N : m < n /\ op[<<p, n>>].attempt # "none"
    => /\ op[<<p, m>>].srv \notin {"none", "queued"}
       /\ op[<<p, m>>].attempt \in {"none", "safe"}

FirstTried(p) == Tried(p) => op[<<p, 1>>].attempt # "none"

SentOnceBy(p) ==
  \/ Stray(p) \/ sent[p] = 0
  \/ /\ sent[p] = 1 /\ del[p] \in {"started", "unknown", "succeeded"}
     /\ \E n \in 1..N : Sender(<<p, n>>)

KnownRow(p) ==
  /\ InTurn(p) /\ FirstTried(p) /\ SentOnceBy(p)
  /\ Stray(p) => p \in reopened

KnownDriver(d) ==
  /\ drv[d].pc \in {"check", "enqueue", "attempt"} => ~Tried(drv[d].p)
  /\ drv[d].pc \in {"enqueue", "attempt"} => drv[d].n = 1

KnownInv ==
  /\ LineInv
  /\ \A i \in Ops : KnownOp(i)
  /\ \A p \in Deliveries : KnownRow(p)
  /\ \A d \in Drivers : KnownDriver(d)

\* Steps that leave the attempts, the device and the permits alone.
Quiet ==
  /\ UNCHANGED <<sent, reopened>>
  /\ \A i \in Ops :
       /\ op'[i].attempt = op[i].attempt /\ op'[i].dev = op[i].dev
       /\ op'[i].permit = "none" <=> op[i].permit = "none"
       /\ op'[i].srv \in {"none", "queued"} => op[i].srv \in {"none", "queued"}
       /\ op'[i].srv # "none" => op[i].srv # "none" \/ i[2] = 1 \/ del[i[1]] \in Finished
  /\ \A p \in Deliveries : \/ del'[p] = del[p]
                           \/ del[p] \in {"none", "pending", "dispatched"}
                           \/ del[p] = "started" /\ del'[p] = "unknown"

LEMMA OpsOf ==
  /\ \A p \in Deliveries, n \in 1..N : <<p, n>> \in Ops
  /\ \A i \in Ops : i[1] \in Deliveries /\ i[2] \in 1..N /\ i = <<i[1], i[2]>>
  /\ 1 \in 1..N
BY ConstantsAssumption DEF Ops

LEMMA QuietKnown ==
  ASSUME KnownInv, Quiet
  PROVE  /\ \A i \in Ops : KnownOp(i)'
         /\ \A p \in Deliveries : KnownRow(p)' /\ (Tried(p)' <=> Tried(p))
<1>1. ASSUME NEW i \in Ops PROVE KnownOp(i)'
  <2>1. KnownOp(i) /\ i[1] \in Deliveries
    BY OpsOf DEF KnownInv
  <2>2. del[i[1]] \in Finished => del'[i[1]] = del[i[1]]
    BY <2>1 DEF Quiet, Finished
  <2>3. del[i[1]] \in {"started", "unknown"} => del'[i[1]] \in {"started", "unknown"}
    BY <2>1 DEF Quiet
  <2> QED
    BY <2>1, <2>2, <2>3 DEF KnownOp, Quiet
<1>2. ASSUME NEW p \in Deliveries PROVE KnownRow(p)' /\ (Tried(p)' <=> Tried(p))
  <2>1. KnownRow(p)
    BY DEF KnownInv
  <2>2. \A n \in 1..N : /\ op'[<<p, n>>].attempt = op[<<p, n>>].attempt
                        /\ op'[<<p, n>>].dev = op[<<p, n>>].dev
                        /\ op'[<<p, n>>].permit = "none" <=> op[<<p, n>>].permit = "none"
                        /\ op'[<<p, n>>].srv \in {"none", "queued"}
                             => op[<<p, n>>].srv \in {"none", "queued"}
    BY OpsOf DEF Quiet
  <2>3. Tried(p)' <=> Tried(p)
    BY <2>2 DEF Tried
  <2>4. Stray(p)' <=> Stray(p)
    BY <2>2 DEF Stray
  <2>5. InTurn(p)' /\ FirstTried(p)'
    BY <2>1, <2>2, <2>3, OpsOf DEF KnownRow, InTurn, FirstTried
  <2>6. SentOnceBy(p)'
    BY <2>1, <2>2, <2>4 DEF KnownRow, SentOnceBy, Sender, Quiet
  <2> QED
    BY <2>1, <2>3, <2>4, <2>5, <2>6 DEF KnownRow, Quiet
<1> QED
  BY <1>1, <1>2

LEMMA SameKnownDrivers ==
  ASSUME KnownInv, UNCHANGED drv, \A p \in Deliveries : Tried(p)' => Tried(p)
  PROVE  \A d \in Drivers : KnownDriver(d)'
<1> SUFFICES ASSUME NEW d \in Drivers PROVE KnownDriver(d)'
  OBVIOUS
<1>1. KnownDriver(d) /\ DriverInv(d)
  BY DEF KnownInv, LineInv
<1>2. PICK p : p = drv[d].p
  OBVIOUS
<1>3. drv[d].pc \in {"check", "enqueue", "attempt"} => ~Tried(p)'
  BY <1>1, <1>2 DEF DriverInv, KnownDriver
<1> QED
  BY <1>1, <1>2, <1>3 DEF KnownDriver

\* The attempts of a row that are neither safe nor missing are one at most.
LEMMA OneLive ==
  ASSUME KnownInv, NEW p \in Deliveries, NEW n \in 1..N, NEW m \in 1..N,
         op[<<p, n>>].attempt \in {"open", "done"}, op[<<p, m>>].attempt \in {"open", "done"}
  PROVE  n = m
<1>1. InTurn(p)
  BY DEF KnownInv, KnownRow
<1>2. ~(n < m) /\ ~(m < n)
  BY <1>1 DEF InTurn
<1> QED
  BY <1>2, ConstantsAssumption

LEMMA QuietRows ==
  ASSUME LineInv, UNCHANGED <<op, sent, reopened>>, del' \in {del, Skipped, Expired}
  PROVE  Quiet
<1>1. \A p \in Deliveries : \/ del'[p] = del[p]
                            \/ del[p] \in {"none", "pending", "dispatched"}
                            \/ del[p] = "started" /\ del'[p] = "unknown"
  BY DEF Skipped, Expired, ExpiredRow
<1> QED
  BY <1>1 DEF Quiet

LEMMA KnownDrive ==
  ASSUME OneDriver, KnownInv, NEW d \in Drivers, Drive(d) \/ Crash(d), ~Dispatch(d)
  PROVE  Quiet /\ \A e \in Drivers : KnownDriver(e)'
<1>1. /\ op \in [Ops -> Invocations] /\ del \in [Deliveries -> Rows]
      /\ drv \in [Drivers -> Memory] /\ drv[d] \in Memory /\ DriverInv(d) /\ KnownDriver(d)
  BY DEF KnownInv, LineInv, TypeOK
<1>2. UNCHANGED <<sent, reopened>>
  BY DEF Drive, Crash, ClaimEntry, Poison, ClaimRun, PassEntry, CloseEntry, Requeue, Prepare,
         InsertDeliveries, Pick, Check, Enqueue, Abandon, DriveRunning, world, server
<1>3. ASSUME UNCHANGED op, del' \in {del, Skipped, Expired} PROVE Quiet
  BY <1>2, <1>3, QuietRows DEF KnownInv
<1>4. ASSUME drv'[d].pc \notin {"check", "enqueue", "attempt"}
      PROVE  \A e \in Drivers : KnownDriver(e)'
  BY <1>4 DEF OneDriver, KnownDriver
<1>5. ASSUME NEW pc \in {"entry", "close", "prepare", "insert", "pick", "idle"}, Go(d, pc)
      PROVE  \A e \in Drivers : KnownDriver(e)'
  BY <1>1, <1>4, <1>5 DEF Go, Memory
<1>6. ASSUME NEW reason, Stop(d, reason)
      PROVE  \A e \in Drivers : KnownDriver(e)'
  BY <1>1, <1>4, <1>6 DEF Stop, Memory
<1>7. ASSUME NEW f, drv' = [drv EXCEPT ![d] = f], f.pc \in {"idle", "entry"}
      PROVE  \A e \in Drivers : KnownDriver(e)'
  BY <1>1, <1>4, <1>7
<1>8. Idle.pc = "idle" /\ [Idle EXCEPT !.pc = "entry", !.entry = TRUE].pc = "entry"
  BY DEF Idle
<1>9. CASE ClaimEntry(d) \/ CloseEntry(d) \/ Crash(d)
  <2>1. /\ UNCHANGED <<op, del>>
        /\ \/ drv' = [drv EXCEPT ![d] = Idle]
           \/ drv' = [drv EXCEPT ![d] = [Idle EXCEPT !.pc = "entry", !.entry = TRUE]]
    BY <1>9 DEF ClaimEntry, CloseEntry, Crash, server
  <2> QED
    BY <1>3, <1>7, <1>8, <2>1
<1>10. CASE Poison(d) \/ ClaimRun(d)
  BY <1>3, <1>5, <1>10 DEF Poison, ClaimRun
<1>11. CASE PassEntry(d)
  BY <1>3, <1>5, <1>7, <1>8, <1>11 DEF PassEntry, server
<1>12. CASE Requeue(d)
  BY <1>3, <1>12, SameKnownDrivers DEF Requeue, Tried
<1>13. CASE Prepare(d)
  BY <1>3, <1>5, <1>6, <1>13 DEF Prepare, server
<1>14. CASE InsertDeliveries(d)
  <2>1. \A p \in Deliveries : del'[p] = del[p] \/ del[p] = "none"
    BY <1>14 DEF InsertDeliveries
  <2>2. UNCHANGED op
    BY <1>14 DEF InsertDeliveries
  <2>3. Quiet
    BY <1>2, <2>1, <2>2 DEF Quiet
  <2> QED
    BY <1>5, <1>14, <2>3 DEF InsertDeliveries
<1>15. CASE Pick(d)
  <2>1. UNCHANGED <<op, del>>
    BY <1>15 DEF Pick, server
  <2>2. ASSUME NEW p \in Deliveries, Executable(p),
               drv' = [drv EXCEPT ![d].pc = "check", ![d].p = p]
        PROVE  \A e \in Drivers : KnownDriver(e)'
    <3>1. drv'[d].pc = "check" /\ drv'[d].p = p
      BY <1>1, <2>2 DEF Memory
    <3>2. ~Tried(p)
      BY <2>2 DEF Executable, KnownInv, LineInv, RowInv
    <3>3. ~Tried(p)'
      BY <2>1, <3>2 DEF Tried
    <3> QED
      BY <3>1, <3>3 DEF OneDriver, KnownDriver
  <2> QED
    BY <1>3, <1>5, <1>15, <2>1, <2>2 DEF Pick
<1>16. CASE Check(d)
  <2>1. UNCHANGED <<op, del>>
    BY <1>16 DEF Check, server
  <2>2. PICK p : p = drv[d].p
    OBVIOUS
  <2>3. ~Tried(p)
    BY <1>1, <1>16, <2>2 DEF Check, KnownDriver
  <2>4. ~Tried(p)'
    BY <2>1, <2>3 DEF Tried
  <2>5. Cardinality(Attempts(p)) = 0
    <3> Attempts(p) = {}
      BY <2>3 DEF Attempts, Tried
    <3> QED
      BY FS_EmptySet
  <2>6. ASSUME drv' = [drv EXCEPT ![d].pc = "enqueue", ![d].n = 1]
        PROVE  \A e \in Drivers : KnownDriver(e)'
    <3> drv'[d].pc = "enqueue" /\ drv'[d].p = p /\ drv'[d].n = 1
      BY <1>1, <2>2, <2>6 DEF Memory
    <3> QED
      BY <2>4 DEF OneDriver, KnownDriver
  <2>7. \/ \E reason : Stop(d, reason)
        \/ drv' = [drv EXCEPT ![d].pc = "enqueue", ![d].n = Cardinality(Attempts(p)) + 1]
    BY <1>16, <2>2 DEF Check
  <2> QED
    BY <1>3, <1>6, <2>1, <2>5, <2>6, <2>7
<1>17. CASE Enqueue(d)
  <2>1. PICK p : p = drv[d].p
    OBVIOUS
  <2>2. ~Tried(p) /\ drv[d].n = 1 /\ op' = Queued(<<p, 1>>) /\ UNCHANGED del
    BY <1>1, <1>17, <2>1 DEF Enqueue, KnownDriver, server
  <2>3. \A i \in Ops : /\ op'[i].attempt = op[i].attempt /\ op'[i].dev = op[i].dev
                       /\ op'[i].permit = op[i].permit
                       /\ op'[i].srv \in {"none", "queued"} => op[i].srv \in {"none", "queued"}
                       /\ op'[i].srv # "none" => op[i].srv # "none" \/ i[2] = 1
    BY <1>1, <2>2 DEF Queued, Invocations
  <2>4. Quiet
    BY <1>2, <2>2, <2>3 DEF Quiet
  <2>5. ~Tried(p)'
    <3> p \in Deliveries
      BY <1>1, <1>17, <2>1 DEF Enqueue, DriverInv
    <3> QED
      BY <2>2, <2>3, OpsOf DEF Tried
  <2>6. drv'[d].pc = "attempt" /\ drv'[d].p = p /\ drv'[d].n = 1
    BY <1>1, <1>17, <2>1, <2>2 DEF Enqueue, Go, Memory
  <2>7. \A e \in Drivers : KnownDriver(e)'
    BY <2>5, <2>6 DEF OneDriver, KnownDriver
  <2> QED
    BY <2>4, <2>7
<1>18. CASE Abandon(d)
  <2>1. UNCHANGED op /\ del' \in {Skipped, Expired}
    BY <1>18 DEF Abandon
  <2>2. drv' = [drv EXCEPT ![d].pc = "close", ![d].p = 0, ![d].n = 0, ![d].reason = "none"]
    BY <1>18 DEF Abandon
  <2>3. drv'[d].pc = "close"
    BY <1>1, <2>2 DEF Memory
  <2> QED
    BY <1>3, <1>4, <2>1, <2>3
<1>19. CASE DriveRunning(d)
  <2> UNCHANGED <<op, del>> /\ (Go(d, "pick") \/ UNCHANGED drv)
    BY <1>19 DEF DriveRunning
  <2> QED
    BY <1>3, <1>5, SameKnownDrivers DEF Tried
<1> QED
  BY <1>9, <1>10, <1>11, <1>12, <1>13, <1>14, <1>15, <1>16, <1>17, <1>18, <1>19 DEF Drive

\* The first attempt of a message is the first of its numbers.
LEMMA KnownDispatch ==
  ASSUME OneDriver, KnownInv, NEW d \in Drivers, Dispatch(d)
  PROVE  /\ \A i \in Ops : KnownOp(i)'
         /\ \A p \in Deliveries : KnownRow(p)'
         /\ \A e \in Drivers : KnownDriver(e)'
<1>1. /\ op \in [Ops -> Invocations] /\ del \in [Deliveries -> Rows]
      /\ drv \in [Drivers -> Memory] /\ drv[d] \in Memory /\ DriverInv(d) /\ KnownDriver(d)
      /\ UNCHANGED <<sent, reopened>> /\ drv[d].pc = "attempt" /\ sent \in [Deliveries -> Nat]
  BY DEF KnownInv, LineInv, TypeOK, Dispatch
<1>2. PICK p : p = drv[d].p
  OBVIOUS
<1> DEFINE i == <<p, 1>>
<1>3. p \in Deliveries /\ i \in Ops /\ i[1] = p /\ i[2] = 1 /\ ~Tried(p) /\ drv[d].n = 1
  BY <1>1, <1>2, OpsOf DEF DriverInv, KnownDriver
<1>4. op[i].attempt = "none" /\ \A n \in 1..N : op[<<p, n>>].attempt = "none"
  BY <1>3, OpsOf DEF Tried
<1>5. /\ \A j \in Ops : j # i => op'[j] = op[j]
      /\ op'[i].srv = op[i].srv /\ op'[i].dev = op[i].dev /\ op'[i].permit = op[i].permit
      /\ op'[i].attempt = "open"
  BY <1>1, <1>2, <1>3, <1>4 DEF Dispatch, Invocations
<1>6. /\ \A q \in Deliveries : q # p => del'[q] = del[q]
      /\ del'[p] = IF del[p] = "pending" THEN "dispatched" ELSE del[p]
  BY <1>1, <1>2, <1>3 DEF Dispatch
<1>7. /\ \A n \in 1..N : op[<<p, n>>].permit = "none"
      /\ sent[p] = 0 /\ op[i].dev \notin {"permitted", "acted"}
  <2>1. \A n \in 1..N : op[<<p, n>>].permit = "none"
    BY <1>3, OpsOf DEF KnownInv, LineInv, OpInv
  <2>2. sent[p] = 0
    <3>1. sent[p] \in Nat /\ RowInv(p)
      BY <1>1, <1>3 DEF KnownInv, LineInv
    <3>2. ASSUME sent[p] > 0 PROVE FALSE
      <4>1. PICK n \in 1..N : Paid(<<p, n>>)
        BY <3>1, <3>2 DEF RowInv
      <4> QED
        BY <2>1, <4>1 DEF Paid
    <3> QED
      BY <3>1, <3>2
  <2>3. op[i].dev \notin {"permitted", "acted"}
    BY <1>3, <2>1, <2>2, OpsOf DEF KnownInv, KnownOp, LineInv, OpInv
  <2> QED
    BY <2>1, <2>2, <2>3
<1>8. ASSUME NEW j \in Ops PROVE KnownOp(j)'
  <2>1. KnownOp(j) /\ j[1] \in Deliveries
    BY OpsOf DEF KnownInv
  <2>2. CASE j = i
    BY <1>3, <1>5, <1>7, <2>1, <2>2 DEF KnownOp
  <2>3. CASE j # i
    <3>1. op'[j] = op[j]
      BY <1>5, <2>3
    <3>2. del'[j[1]] = del[j[1]] \/ del[j[1]] = "pending"
      BY <1>6, <2>1
    <3> QED
      BY <1>1, <2>1, <3>1, <3>2 DEF KnownOp, Finished
  <2> QED
    BY <2>2, <2>3
<1>9. ASSUME NEW q \in Deliveries PROVE KnownRow(q)'
  <2>1. KnownRow(q)
    BY DEF KnownInv
  <2>2. CASE q = p
    <3>1. \A n \in 1..N : op'[<<p, n>>].attempt # "none" => n = 1
      BY <1>4, <1>5, <1>3, OpsOf
    <3>2. InTurn(p)'
      BY <3>1, ConstantsAssumption DEF InTurn
    <3>3. FirstTried(p)'
      BY <1>5 DEF FirstTried
    <3>4. SentOnceBy(p)'
      BY <1>1, <1>7 DEF SentOnceBy
    <3>5. ~Stray(p)'
      <4> \A n \in 1..N : op'[<<p, n>>].permit = "none"
        BY <1>3, <1>5, <1>7, OpsOf
      <4> QED
        BY DEF Stray
    <3> QED
      BY <2>2, <3>2, <3>3, <3>4, <3>5 DEF KnownRow
  <2>3. CASE q # p
    <3>1. \A n \in 1..N : op'[<<q, n>>] = op[<<q, n>>]
      BY <1>5, <2>3, OpsOf
    <3>2. del'[q] = del[q] /\ sent'[q] = sent[q]
      BY <1>1, <1>6, <2>3
    <3>3. InTurn(q)' /\ FirstTried(q)'
      BY <2>1, <3>1, OpsOf DEF KnownRow, InTurn, FirstTried, Tried
    <3>4. Stray(q)' <=> Stray(q)
      BY <3>1 DEF Stray
    <3>5. SentOnceBy(q)'
      BY <2>1, <3>1, <3>2, <3>4 DEF KnownRow, SentOnceBy, Sender
    <3> QED
      BY <1>1, <2>1, <3>3, <3>4, <3>5 DEF KnownRow
  <2> QED
    BY <2>2, <2>3
<1>10. drv'[d].pc = "pick"
  <2> drv' = [drv EXCEPT ![d].pc = "pick", ![d].p = 0, ![d].n = 0]
    BY DEF Dispatch
  <2> QED
    BY <1>1 DEF Memory
<1> QED
  BY <1>8, <1>9, <1>10 DEF OneDriver, KnownDriver

\* One operation changes, and maybe the row of its message: what its siblings need of the step.
LEMMA KnownTouch ==
  ASSUME KnownInv, NEW i \in Ops,
         \A j \in Ops : j # i => op'[j] = op[j],
         \A q \in Deliveries : q # i[1] => del'[q] = del[q] /\ sent'[q] = sent[q],
         UNCHANGED <<reopened, drv>>,
         op[i].attempt \in {"none", "safe"} => op'[i].attempt = op[i].attempt,
         op'[i].attempt = "none" => op[i].attempt = "none",
         op'[i].srv \in {"none", "queued"} => op[i].srv \in {"none", "queued"},
         op[i].permit # "none" => op'[i].permit # "none",
         op[i].permit = "none" /\ op'[i].permit # "none" /\ op[i].attempt = "none"
           => i[1] \in reopened,
         \/ del'[i[1]] = del[i[1]]
         \/ del[i[1]] \in {"dispatched", "started"} /\ del'[i[1]] = "started"
         \/ op[i].attempt = "open" /\ del[i[1]] \notin Finished /\ del'[i[1]] \in Finished,
         KnownOp(i)', SentOnceBy(i[1])'
  PROVE  /\ \A j \in Ops : KnownOp(j)'
         /\ \A q \in Deliveries : KnownRow(q)'
         /\ \A d \in Drivers : KnownDriver(d)'
<1>1. PICK p, k : p = i[1] /\ k = i[2]
  OBVIOUS
<1>2. p \in Deliveries /\ k \in 1..N /\ i = <<p, k>> /\ KnownRow(p)
  BY <1>1, OpsOf DEF KnownInv
<1>3. \A q \in Deliveries, n \in 1..N : q # p \/ n # k => op'[<<q, n>>] = op[<<q, n>>]
  BY <1>1, <1>2, OpsOf
<1>4. \A q \in Deliveries, n \in 1..N : op'[<<q, n>>].attempt = "none" <=> op[<<q, n>>].attempt = "none"
  <2> SUFFICES ASSUME NEW q \in Deliveries, NEW n \in 1..N
               PROVE  op'[<<q, n>>].attempt = "none" <=> op[<<q, n>>].attempt = "none"
    OBVIOUS
  <2>1. CASE q # p \/ n # k
    BY <1>3, <2>1
  <2>2. CASE q = p /\ n = k
    <3>1. <<q, n>> = i
      BY <1>2, <2>2
    <3>2. op'[i].attempt = "none" <=> op[i].attempt = "none"
      OBVIOUS
    <3> QED
      BY <3>1, <3>2
  <2> QED
    BY <2>1, <2>2
<1>5. \A q \in Deliveries : Tried(q)' <=> Tried(q)
  BY <1>4 DEF Tried
<1>6. ASSUME NEW j \in Ops PROVE KnownOp(j)'
  <2>1. KnownOp(j) /\ j[1] \in Deliveries /\ j[2] \in 1..N /\ j = <<j[1], j[2]>>
    BY OpsOf DEF KnownInv
  <2>2. CASE j = i
    BY <2>2
  <2>3. CASE j # i /\ j[1] # p
    <3> op'[j] = op[j] /\ del'[j[1]] = del[j[1]]
      BY <1>1, <2>1, <2>3
    <3> QED
      BY <2>1 DEF KnownOp
  <2>4. CASE j # i /\ j[1] = p
    <3>1. op'[j] = op[j]
      BY <2>4
    <3>2. op[j].attempt # "none" /\ op[j].dev \in {"permitted", "acted"} => del'[p] \in {"started", "unknown"}
      <4> SUFFICES ASSUME op[j].attempt # "none", op[j].dev \in {"permitted", "acted"}
                   PROVE  del'[p] \in {"started", "unknown"}
        OBVIOUS
      <4>1. del[p] \in {"started", "unknown"}
        BY <2>1, <2>4 DEF KnownOp
      <4>2. op[j].attempt = "open"
        <5> op[j].attempt \in {"none", "open", "safe", "done"}
          BY DEF KnownInv, LineInv, TypeOK, Invocations
        <5> QED
          BY <2>1 DEF KnownOp, MachineSafe, Reports, NotStarted
      <4>3. op[i].attempt # "open"
        BY <1>2, <2>1, <2>4, <4>2, OneLive
      <4> QED
        BY <1>1, <4>1, <4>3
    <3>3. del[p] \in Finished => del'[p] \in Finished
      BY <1>1 DEF Finished
    <3> QED
      BY <2>1, <2>4, <3>1, <3>2, <3>3 DEF KnownOp
  <2> QED
    BY <2>2, <2>3, <2>4
<1>7. ASSUME NEW q \in Deliveries PROVE KnownRow(q)'
  <2>1. KnownRow(q)
    BY DEF KnownInv
  <2>2. FirstTried(q)'
    BY <1>4, <1>5, <2>1, OpsOf DEF KnownRow, FirstTried
  <2>3. \A n \in 1..N :
           /\ op[<<q, n>>].attempt \in {"none", "safe"} => op'[<<q, n>>].attempt \in {"none", "safe"}
           /\ op'[<<q, n>>].srv \in {"none", "queued"} => op[<<q, n>>].srv \in {"none", "queued"}
    BY <1>2, <1>3
  <2>4. InTurn(q)'
    BY <1>4, <2>1, <2>3 DEF KnownRow, InTurn
  <2>5. Stray(q) => Stray(q)'
    BY <1>2, <1>3, <1>4 DEF Stray
  <2>6. Stray(q)' => q \in reopened'
    <3> SUFFICES ASSUME NEW n \in 1..N, op'[<<q, n>>].attempt = "none", op'[<<q, n>>].permit # "none"
                 PROVE  q \in reopened
      BY DEF Stray
    <3>1. CASE op[<<q, n>>].permit = "none"
      BY <1>1, <1>2, <1>3, <1>4, <3>1
    <3>2. CASE op[<<q, n>>].permit # "none"
      BY <1>4, <2>1, <3>2 DEF KnownRow, Stray
    <3> QED
      BY <3>1, <3>2
  <2>7. SentOnceBy(q)'
    <3>1. CASE q = p
      BY <1>1, <3>1
    <3>2. CASE q # p
      <4>1. del'[q] = del[q] /\ sent'[q] = sent[q] /\ \A n \in 1..N : op'[<<q, n>>] = op[<<q, n>>]
        BY <1>1, <1>3, <3>2
      <4> QED
        BY <2>1, <2>5, <4>1 DEF KnownRow, SentOnceBy, Sender
    <3> QED
      BY <3>1, <3>2
  <2> QED
    BY <2>2, <2>4, <2>6, <2>7 DEF KnownRow
<1>8. \A d \in Drivers : KnownDriver(d)'
  BY <1>5, SameKnownDrivers
<1> QED
  BY <1>6, <1>7, <1>8

\* A step that sends nothing, and after which the sender is still one.
LEMMA SentKept ==
  ASSUME KnownInv, NEW i \in Ops,
         \A j \in Ops : j # i => op'[j] = op[j],
         sent'[i[1]] = sent[i[1]],
         op[i].attempt = "none" /\ op[i].permit # "none"
           => op'[i].attempt = "none" /\ op'[i].permit # "none",
         Sender(i) => Sender(i)',
         \/ sent[i[1]] = 0
         \/ del[i[1]] \in {"started", "unknown", "succeeded"}
              => del'[i[1]] \in {"started", "unknown", "succeeded"}
  PROVE  SentOnceBy(i[1])'
<1>1. PICK p, k : p = i[1] /\ k = i[2]
  OBVIOUS
<1>2. p \in Deliveries /\ k \in 1..N /\ i = <<p, k>> /\ KnownRow(p)
  BY <1>1, OpsOf DEF KnownInv
<1>3. \A n \in 1..N : n # k => op'[<<p, n>>] = op[<<p, n>>]
  BY <1>2, OpsOf
<1>4. Stray(p) => Stray(p)'
  BY <1>2, <1>3 DEF Stray
<1>5. \A n \in 1..N : Sender(<<p, n>>) => Sender(<<p, n>>)'
  BY <1>2, <1>3 DEF Sender
<1>6. SentOnceBy(p)'
  BY <1>1, <1>2, <1>4, <1>5 DEF KnownRow, SentOnceBy
<1> QED
  BY <1>1, <1>6

LEMMA KnownDevice ==
  ASSUME KnownInv, NEW i \in Ops, Runtime(i)
  PROVE  /\ \A j \in Ops : KnownOp(j)'
         /\ \A q \in Deliveries : KnownRow(q)'
         /\ \A d \in Drivers : KnownDriver(d)'
<1>1. /\ op \in [Ops -> Invocations] /\ del \in [Deliveries -> Rows] /\ op[i] \in Invocations
      /\ sent \in [Deliveries -> Nat] /\ i[1] \in Deliveries /\ i[2] \in 1..N
      /\ i = <<i[1], i[2]>> /\ OpInv(i) /\ KnownOp(i) /\ RowInv(i[1]) /\ KnownRow(i[1])
  BY OpsOf DEF KnownInv, LineInv, TypeOK
<1>2. UNCHANGED <<reopened, drv>>
  BY DEF Runtime, Claim, Authorize, Decline, Withdraw, Act, Conclude, DeviceCrash, server
<1>3. op[i].dev \in {"idle", "working", "permitted", "acted"} => op[i].attempt \in {"none", "open"}
  BY <1>1 DEF KnownOp, Invocations, MachineSafe, Reports, NotStarted
\* The device goes on without sending: it is the sender afterwards if it was before.
<1>4. ASSUME NEW state \in {"working", "over"} \union Reports, NEW srv,
             op' = [op EXCEPT ![i] = [op[i] EXCEPT !.dev = state, !.srv = srv]],
             UNCHANGED <<del, sent>>, op[i].dev \in {"idle", "working", "permitted", "acted"},
             srv \in {"none", "queued"} => op[i].srv \in {"none", "queued"},
             srv = "none" <=> op[i].srv = "none",
             op[i].dev = "acted" => state \in {"verified", "unknown", "over"}
      PROVE  /\ \A j \in Ops : KnownOp(j)'
             /\ \A q \in Deliveries : KnownRow(q)'
             /\ \A d \in Drivers : KnownDriver(d)'
  <2>1. /\ op'[i].dev = state /\ op'[i].srv = srv /\ op'[i].permit = op[i].permit
        /\ op'[i].attempt = op[i].attempt
        /\ \A j \in Ops : j # i => op'[j] = op[j]
    BY <1>1, <1>4 DEF Invocations
  <2>2. state \notin {"permitted", "acted"}
    BY DEF Reports, NotStarted
  <2>3. KnownOp(i)'
    BY <1>1, <1>2, <1>3, <1>4, <2>1, <2>2 DEF KnownOp
  <2>4. Sender(i) => Sender(i)'
    BY <1>4, <2>1 DEF Sender
  <2>5. SentOnceBy(i[1])'
    BY <1>4, <2>1, <2>4, SentKept
  <2> QED
    BY <1>2, <1>4, <2>1, <2>3, <2>5, KnownTouch
<1>5. ASSUME NEW state \in {"over"} \union Reports, Device(i, state), UNCHANGED <<del, sent>>,
             op[i].dev \in {"working", "permitted", "acted"},
             op[i].dev = "acted" => state \in {"verified", "unknown", "over"}
      PROVE  /\ \A j \in Ops : KnownOp(j)'
             /\ \A q \in Deliveries : KnownRow(q)'
             /\ \A d \in Drivers : KnownDriver(d)'
  <2> op' = [op EXCEPT ![i] = [op[i] EXCEPT !.dev = state, !.srv = op[i].srv]]
    BY <1>1, <1>5 DEF Device, Invocations
  <2> QED
    BY <1>4, <1>5
<1>6. CASE Claim(i)
  <2> /\ op' = [op EXCEPT ![i] = [op[i] EXCEPT !.dev = "working", !.srv = "running"]]
      /\ op[i].dev = "idle" /\ op[i].srv = "queued" /\ UNCHANGED <<del, sent>>
    BY <1>1, <1>6 DEF Claim, Invocations, server
  <2> QED
    BY <1>4
<1>7. CASE Authorize(i)
  <2>1. PICK dev \in {"permitted", "retryable"} :
          op' = [op EXCEPT ![i].permit = "live", ![i].dev = dev]
    BY <1>7 DEF Authorize
  <2>2. /\ op[i].dev = "working" /\ op[i].permit = "none" /\ op[i].srv = "running"
        /\ del[i[1]] \in {"dispatched", "started"} /\ UNCHANGED sent
        /\ del' = [del EXCEPT ![i[1]] = "started"]
    BY <1>7 DEF Authorize, Authorizable
  <2>3. /\ op'[i].dev = dev /\ op'[i].srv = op[i].srv /\ op'[i].permit = "live"
        /\ op'[i].attempt = op[i].attempt
        /\ \A j \in Ops : j # i => op'[j] = op[j]
    BY <1>1, <2>1 DEF Invocations
  <2>4. /\ \A q \in Deliveries : q # i[1] => del'[q] = del[q]
        /\ del'[i[1]] = "started"
    BY <1>1, <2>2
  \* An invocation without attempt is one of a retry that was lost: its message was reopened.
  <2>5. op[i].attempt = "none" => i[1] \in reopened
    <3> SUFFICES ASSUME op[i].attempt = "none" PROVE i[1] \in reopened
      OBVIOUS
    <3>1. Tried(i[1])
      BY <1>1, <2>2 DEF RowInv
    <3>2. op[<<i[1], 1>>].attempt # "none"
      BY <1>1, <3>1 DEF KnownRow, FirstTried
    <3>3. i[2] # 1
      BY <1>1, <3>2
    <3>4. i[2] > 1
      BY <1>1, <3>3, ConstantsAssumption
    <3> QED
      BY <1>1, <2>2, <3>4 DEF KnownOp, Finished
  <2>6. KnownOp(i)'
    BY <1>1, <1>2, <1>3, <2>2, <2>3, <2>4, <2>5 DEF KnownOp
  <2>7. ~Sender(i)
    BY <2>2 DEF Sender
  <2>8. SentOnceBy(i[1])'
    BY <2>2, <2>3, <2>4, <2>7, SentKept
  <2> QED
    BY <1>2, <2>2, <2>3, <2>4, <2>5, <2>6, <2>8, KnownTouch
<1>8. CASE Decline(i) \/ Withdraw(i)
  <2>1. /\ op[i].dev \in {"working", "permitted"} /\ UNCHANGED <<del, sent>>
        /\ \E r \in NotStarted \union {"unsure"} : Device(i, r)
    BY <1>8 DEF Decline, Withdraw, server, NotStarted
  <2> QED
    BY <1>5, <2>1 DEF Reports
<1>9. CASE Act(i)
  <2>1. /\ op[i].dev = "permitted" /\ op[i].permit = "live" /\ UNCHANGED del
        /\ sent' = [sent EXCEPT ![i[1]] = @ + 1] /\ op' = [op EXCEPT ![i].dev = "acted"]
    BY <1>9 DEF Act, Device, server
  <2>2. /\ op'[i].dev = "acted" /\ op'[i].srv = op[i].srv /\ op'[i].permit = op[i].permit
        /\ op'[i].attempt = op[i].attempt
        /\ \A j \in Ops : j # i => op'[j] = op[j]
    BY <1>1, <2>1 DEF Invocations
  <2>3. /\ \A q \in Deliveries : q # i[1] => sent'[q] = sent[q]
        /\ sent'[i[1]] = sent[i[1]] + 1
    BY <1>1, <2>1
  <2>4. KnownOp(i)'
    BY <1>1, <1>2, <1>3, <2>1, <2>2 DEF KnownOp
  <2>5. SentOnceBy(i[1])'
    <3>1. PICK p, k : p = i[1] /\ k = i[2]
      OBVIOUS
    <3>2. p \in Deliveries /\ k \in 1..N /\ i = <<p, k>> /\ KnownRow(p)
      BY <1>1, <3>1
    <3>3. CASE op[i].attempt = "none"
      <4> op'[<<p, k>>].attempt = "none" /\ op'[<<p, k>>].permit # "none"
        BY <2>1, <2>2, <3>2, <3>3
      <4> Stray(p)'
        BY <3>2 DEF Stray
      <4> QED
        BY <3>1 DEF SentOnceBy
    <3>4. CASE op[i].attempt # "none"
      <4>1. op[i].attempt = "open" /\ ~Sender(i)
        BY <1>3, <2>1, <3>4 DEF Sender
      <4>2. \A n \in 1..N : ~Sender(<<p, n>>)
        BY <3>2, <4>1, OneLive DEF Sender
      <4>3. \A n \in 1..N : n # k => op'[<<p, n>>] = op[<<p, n>>]
        BY <2>2, <3>2, OpsOf
      <4>4. Stray(p) => Stray(p)'
        BY <2>2, <3>2, <4>3 DEF Stray
      <4>5. Stray(p) \/ sent[p] = 0
        BY <3>2, <4>2 DEF KnownRow, SentOnceBy
      <4>6. del'[p] \in {"started", "unknown"}
        BY <1>1, <2>1, <3>1, <3>4 DEF KnownOp
      <4>7. Sender(<<p, k>>)'
        BY <2>2, <3>2, <4>1 DEF Sender
      <4>8. sent[p] = 0 => sent'[p] = 1
        BY <2>3, <3>1
      <4> QED
        BY <3>1, <3>2, <4>4, <4>5, <4>6, <4>7, <4>8 DEF SentOnceBy
    <3> QED
      BY <3>3, <3>4
  <2> QED
    BY <1>2, <2>1, <2>2, <2>3, <2>4, <2>5, KnownTouch
<1>10. CASE Conclude(i)
  <2>1. /\ op[i].dev \in {"acted", "permitted"} /\ UNCHANGED <<del, sent>>
        /\ \E r \in {"verified", "unknown"} : Device(i, r)
    BY <1>10 DEF Conclude, server
  <2> QED
    BY <1>5, <2>1 DEF Reports
<1>11. CASE DeviceCrash(i)
  <2> /\ op[i].dev \in {"working", "permitted", "acted"} /\ Device(i, "over")
      /\ UNCHANGED <<del, sent>>
    BY <1>11 DEF DeviceCrash, server
  <2> QED
    BY <1>5
<1> QED
  BY <1>6, <1>7, <1>8, <1>9, <1>10, <1>11 DEF Runtime

LEMMA KnownClock ==
  ASSUME KnownInv, NEW i \in Ops, Clock(i)
  PROVE  Quiet
<1>1. /\ op \in [Ops -> Invocations] /\ UNCHANGED <<sent, reopened, del>>
  BY DEF KnownInv, LineInv, TypeOK, Clock, PermitExpires, ClaimExpires, Deadline, server
<1>2. CASE PermitExpires(i)
  <2> op' = [op EXCEPT ![i].permit = "expired"] /\ op[i].permit = "live"
    BY <1>2 DEF PermitExpires, Lapsed
  <2> QED
    BY <1>1 DEF Quiet, Invocations
<1>3. CASE ClaimExpires(i)
  <2> op' = [op EXCEPT ![i].srv = "unknown"] /\ op[i].srv \in {"running", "cancelling"}
    BY <1>3 DEF ClaimExpires
  <2> QED
    BY <1>1 DEF Quiet, Invocations
<1>4. CASE Deadline(i)
  BY <1>1, <1>4 DEF Deadline, Quiet
<1> QED
  BY <1>2, <1>3, <1>4 DEF Clock

\* A retry that gets its attempt: all earlier ones proved that nothing was started.
LEMMA KnownRetry ==
  ASSUME KnownInv, NEW p \in Deliveries, NEW n \in 1..N, Retry(p), RetryKey(p, n),
         op' = [op EXCEPT ![<<p, n>>].srv = "queued", ![<<p, n>>].attempt = "open"],
         del' = [del EXCEPT ![p] = "dispatched"], reopened' = reopened \union {p}
  PROVE  /\ \A j \in Ops : KnownOp(j)'
         /\ \A q \in Deliveries : KnownRow(q)'
         /\ \A d \in Drivers : KnownDriver(d)'
<1>1. /\ op \in [Ops -> Invocations] /\ del \in [Deliveries -> Rows]
      /\ sent \in [Deliveries -> Nat] /\ KnownRow(p) /\ <<p, n>> \in Ops
      /\ UNCHANGED <<sent, drv>>
  BY OpsOf DEF KnownInv, LineInv, TypeOK, Retry
<1>2. PICK l \in 1..N : IsLatest(<<p, l>>) /\ Retriable(<<p, l>>)
  BY DEF Retry
<1>3. /\ op[<<p, l>>].attempt = "safe" /\ op[<<p, l>>].srv \in Settled
      /\ \A m \in 1..N : op[<<p, m>>].attempt # "none" => m <= l
  BY <1>2 DEF IsLatest, Retriable, Attempts
<1>4. \A m \in 1..N : op[<<p, m>>].attempt \in {"none", "safe"}
  <2>1. ASSUME NEW m \in 1..N, op[<<p, m>>].attempt # "none" PROVE op[<<p, m>>].attempt = "safe"
    <3>1. m <= l
      BY <1>3, <2>1
    <3>2. CASE m = l
      BY <1>3, <3>2
    <3>3. CASE m < l
      BY <1>1, <1>3, <2>1, <3>3 DEF KnownRow, InTurn
    <3> QED
      BY <3>1, <3>2, <3>3, ConstantsAssumption
  <2> QED
    BY <2>1
<1>5. op[<<p, n>>].srv \in {"none", "queued"}
  BY DEF RetryKey
<1>6. n > l
  <2>1. n # l
    BY <1>3, <1>5 DEF Settled
  <2>2. ~(n < l)
    BY <1>1, <1>3, <1>5 DEF KnownRow, InTurn
  <2> QED
    BY <2>1, <2>2, ConstantsAssumption
<1>7. Cardinality(Attempts(p)) <= l
  <2>1. Attempts(p) \subseteq 1..l
    BY <1>3 DEF Attempts
  <2>2. IsFiniteSet(1..l) /\ Cardinality(1..l) = l
    <3>1. 1 \in Int /\ l \in Int /\ 1 <= l
      BY ConstantsAssumption
    <3>2. IsFiniteSet(1..l) /\ Cardinality(1..l) = l - 1 + 1
      BY <3>1, FS_Interval
    <3> QED
      BY <3>1, <3>2
  <2> QED
    BY <2>1, <2>2, FS_Subset
<1>8. Cardinality(Attempts(p)) \in Nat
  <2>1. Attempts(p) \subseteq 1..N
    BY DEF Attempts
  <2>2. IsFiniteSet(1..N)
    <3> 1 \in Int /\ N \in Int
      BY ConstantsAssumption
    <3> QED
      BY FS_Interval
  <2> QED
    BY <2>1, <2>2, FS_Subset, FS_CardinalityType
<1>9. \A m \in 1..N : m < n => op[<<p, m>>].srv \notin {"none", "queued"}
  <2> SUFFICES ASSUME NEW m \in 1..N, m < n PROVE op[<<p, m>>].srv \notin {"none", "queued"}
    OBVIOUS
  <2>1. CASE m > l
    <3>1. m \in 1..n - 1 /\ m > Cardinality(Attempts(p))
      BY <1>7, <1>8, <2>1, ConstantsAssumption
    <3> QED
      BY <3>1 DEF RetryKey
  <2>2. CASE m = l
    BY <1>3, <2>2 DEF Settled
  <2>3. CASE m < l
    BY <1>1, <1>3, <2>3 DEF KnownRow, InTurn
  <2> QED
    BY <2>1, <2>2, <2>3, ConstantsAssumption
<1>10. op[<<p, n>>].dev = "idle" /\ op[<<p, n>>].permit = "none"
  BY <1>1, <1>5 DEF KnownInv, LineInv, OpInv
<1>11. /\ op'[<<p, n>>].srv = "queued" /\ op'[<<p, n>>].attempt = "open"
       /\ op'[<<p, n>>].dev = "idle" /\ op'[<<p, n>>].permit = "none"
       /\ \A j \in Ops : j # <<p, n>> => op'[j] = op[j]
       /\ \A q \in Deliveries : q # p => del'[q] = del[q]
  BY <1>1, <1>10 DEF Invocations
<1>12. ASSUME NEW j \in Ops PROVE KnownOp(j)'
  <2>1. KnownOp(j) /\ j[1] \in Deliveries /\ j[2] \in 1..N /\ j = <<j[1], j[2]>>
    BY OpsOf DEF KnownInv
  <2>2. CASE j = <<p, n>>
    BY <1>11, <2>2 DEF KnownOp
  <2>3. CASE j # <<p, n>> /\ j[1] # p
    <3> op'[j] = op[j] /\ del'[j[1]] = del[j[1]]
      BY <1>11, <2>1, <2>3
    <3> QED
      BY <2>1 DEF KnownOp
  <2>4. CASE j # <<p, n>> /\ j[1] = p
    <3>1. op'[j] = op[j] /\ p \in reopened'
      BY <1>11, <2>4
    <3>2. op[j].attempt \in {"none", "safe"}
      BY <1>4, <2>1, <2>4
    <3>3. op[j].attempt # "none" => op[j].dev \notin {"permitted", "acted"}
      BY <2>1, <3>2 DEF KnownOp, MachineSafe
    <3> QED
      BY <2>1, <2>4, <3>1, <3>3 DEF KnownOp
  <2> QED
    BY <2>2, <2>3, <2>4
<1>13. ASSUME NEW q \in Deliveries PROVE KnownRow(q)' /\ (Tried(q)' => Tried(q))
  <2>1. KnownRow(q)
    BY DEF KnownInv
  <2>2. CASE q # p
    <3>1. \A m \in 1..N : op'[<<q, m>>] = op[<<q, m>>]
      BY <1>11, <2>2, OpsOf
    <3>2. del'[q] = del[q] /\ sent'[q] = sent[q] /\ reopened \subseteq reopened'
      BY <1>1, <1>11, <2>2
    <3>3. /\ InTurn(q)' <=> InTurn(q)
          /\ Tried(q)' <=> Tried(q)
          /\ Stray(q)' <=> Stray(q)
      BY <3>1 DEF InTurn, Tried, Stray
    <3>4. FirstTried(q)'
      BY <2>1, <3>1, <3>3, OpsOf DEF KnownRow, FirstTried
    <3>5. SentOnceBy(q)'
      BY <2>1, <3>1, <3>2, <3>3 DEF KnownRow, SentOnceBy, Sender
    <3> QED
      BY <2>1, <3>2, <3>3, <3>4, <3>5 DEF KnownRow
  <2>3. CASE q = p
    <3>1. \A m \in 1..N : m # n => op'[<<p, m>>] = op[<<p, m>>]
      BY <1>11, OpsOf
    <3>2. InTurn(p)'
      <4> SUFFICES ASSUME NEW a \in 1..N, NEW m \in 1..N, m < a, op'[<<p, a>>].attempt # "none"
                   PROVE  /\ op'[<<p, m>>].srv \notin {"none", "queued"}
                          /\ op'[<<p, m>>].attempt \in {"none", "safe"}
        BY DEF InTurn
      <4>1. a <= n
        <5>1. CASE a = n
          BY <5>1
        <5>2. CASE a # n
          <6>1. op[<<p, a>>].attempt # "none"
            BY <3>1, <5>2
          <6>2. a <= l
            BY <1>3, <6>1
          <6> QED
            BY <1>6, <6>2, ConstantsAssumption
        <5> QED
          BY <5>1, <5>2
      <4>2. m < n
        BY <4>1, ConstantsAssumption
      <4>3. op'[<<p, m>>] = op[<<p, m>>]
        <5> m # n
          BY <4>2, ConstantsAssumption
        <5> QED
          BY <3>1
      <4> QED
        BY <1>4, <1>9, <4>2, <4>3
    <3>3. Tried(p)
      BY <1>3 DEF Tried
    <3>4. FirstTried(p)'
      <4>1. op[<<p, 1>>].attempt # "none"
        BY <1>1, <3>3 DEF KnownRow, FirstTried
      <4>2. op'[<<p, 1>>].attempt # "none"
        BY <1>11, <3>1, <4>1, OpsOf
      <4> QED
        BY <4>2 DEF FirstTried
    <3>5. \A m \in 1..N : ~Sender(<<p, m>>)
      BY <1>4 DEF Sender
    <3>6. Stray(p) => Stray(p)'
      BY <1>10, <3>1 DEF Stray
    <3>7. SentOnceBy(p)'
      BY <1>1, <3>5, <3>6 DEF KnownRow, SentOnceBy
    <3> QED
      BY <2>3, <3>2, <3>3, <3>4, <3>7 DEF KnownRow
  <2> QED
    BY <2>2, <2>3
<1>14. \A d \in Drivers : KnownDriver(d)'
  BY <1>1, <1>13, SameKnownDrivers
<1> QED
  BY <1>12, <1>13, <1>14

LEMMA KnownUser ==
  ASSUME KnownInv, User
  PROVE  \/ Quiet /\ UNCHANGED drv
         \/ /\ \A j \in Ops : KnownOp(j)'
            /\ \A q \in Deliveries : KnownRow(q)'
            /\ \A d \in Drivers : KnownDriver(d)'
<1>1. op \in [Ops -> Invocations] /\ UNCHANGED <<sent, drv>>
  BY DEF KnownInv, LineInv, TypeOK, User, Cancel, Pause, Publish, Retry
<1>2. ASSUME CancelRun, UNCHANGED reopened PROVE Quiet
  <2>1. \A i \in Ops : /\ op'[i].attempt = op[i].attempt /\ op'[i].dev = op[i].dev
                       /\ op'[i].permit = op[i].permit
                       /\ op'[i].srv = "none" <=> op[i].srv = "none"
                       /\ op'[i].srv = "queued" => op[i].srv = "queued"
    BY <1>1, <1>2 DEF CancelRun, CancelledOps, Invocations
  <2>2. \A p \in Deliveries : del'[p] = del[p] \/ del[p] = "pending"
    BY <1>2 DEF CancelRun, Skipped
  <2> QED
    BY <1>1, <1>2, <2>1, <2>2 DEF Quiet
<1>3. CASE UNCHANGED <<op, del, reopened>>
  BY <1>1, <1>3 DEF Quiet
<1>4. CASE Cancel \/ Pause \/ Publish
  BY <1>1, <1>2, <1>3, <1>4 DEF Cancel, Pause, Publish, server
<1>5. ASSUME NEW p \in Deliveries, Retry(p)
      PROVE  \/ Quiet /\ UNCHANGED drv
             \/ /\ \A j \in Ops : KnownOp(j)'
                /\ \A q \in Deliveries : KnownRow(q)'
                /\ \A d \in Drivers : KnownDriver(d)'
  <2>1. PICK n \in 1..N :
          /\ RetryKey(p, n)
          /\ \/ /\ op' = [op EXCEPT ![<<p, n>>].srv = "queued", ![<<p, n>>].attempt = "open"]
                /\ del' = [del EXCEPT ![p] = "dispatched"] /\ reopened' = reopened \union {p}
             \/ op' = Queued(<<p, n>>) /\ UNCHANGED <<del, reopened>>
    BY <1>5 DEF Retry
  <2>2. CASE op' = Queued(<<p, n>>) /\ UNCHANGED <<del, reopened>>
    <3>1. del[p] \in Finished
      BY <1>5 DEF Retry, Finished
    <3>2. \A i \in Ops : /\ op'[i].attempt = op[i].attempt /\ op'[i].dev = op[i].dev
                         /\ op'[i].permit = op[i].permit
                         /\ op'[i].srv \in {"none", "queued"} => op[i].srv \in {"none", "queued"}
                         /\ op'[i].srv # "none" => op[i].srv # "none" \/ i[1] = p
      BY <1>1, <2>2, SMTT(30) DEF Queued, Invocations
    <3> QED
      BY <1>1, <2>2, <3>1, <3>2 DEF Quiet
  <2> QED
    BY <1>5, <2>1, <2>2, KnownRetry
<1> QED
  BY <1>4, <1>5 DEF User

LEMMA KnownResults ==
  ASSUME KnownInv, Results
  PROVE  \/ Quiet /\ UNCHANGED drv
         \/ /\ \A j \in Ops : KnownOp(j)'
            /\ \A q \in Deliveries : KnownRow(q)'
            /\ \A d \in Drivers : KnownDriver(d)'
<1>1. /\ op \in [Ops -> Invocations] /\ del \in [Deliveries -> Rows]
      /\ sent \in [Deliveries -> Nat] /\ UNCHANGED <<drv, sent, reopened>>
  BY DEF KnownInv, LineInv, TypeOK, Results, ApplyResult, ResultIgnored, AdvanceRead,
         AdvanceFinish, AdvanceLost, server
<1>2. ASSUME NEW i \in Ops, ApplyResult(i)
      PROVE  /\ \A j \in Ops : KnownOp(j)'
             /\ \A q \in Deliveries : KnownRow(q)'
             /\ \A d \in Drivers : KnownDriver(d)'
  <2>1. PICK valid \in BOOLEAN, dev \in {"over", op[i].dev} :
           /\ op' = [op EXCEPT ![i] =
                [srv |-> Outcome(op[i].dev, valid), dev |-> dev,
                 permit |-> Consumed(op[i].permit, op[i].dev),
                 attempt |-> IF op[i].dev \in MachineSafe THEN "safe" ELSE "done"]]
           /\ del' = [del EXCEPT ![i[1]] =
                IF @ \in Finished THEN @ ELSE Outcome(op[i].dev, valid)]
    BY <1>2, ApplyForm DEF KnownInv, LineInv
  <2> DEFINE new == [srv |-> Outcome(op[i].dev, valid), dev |-> dev,
                     permit |-> Consumed(op[i].permit, op[i].dev),
                     attempt |-> IF op[i].dev \in MachineSafe THEN "safe" ELSE "done"]
             row == IF del[i[1]] \in Finished THEN del[i[1]] ELSE Outcome(op[i].dev, valid)
  <2>2. /\ op[i] \in Invocations /\ i[1] \in Deliveries /\ i[2] \in 1..N /\ i = <<i[1], i[2]>>
        /\ op[i].dev \in Reports /\ op[i].attempt = "open" /\ KnownOp(i) /\ KnownRow(i[1])
    BY <1>1, <1>2, OpsOf DEF ApplyResult, KnownInv
  <2>3. /\ op'[i] = new /\ \A j \in Ops : j # i => op'[j] = op[j]
        /\ del'[i[1]] = row /\ \A q \in Deliveries : q # i[1] => del'[q] = del[q]
    BY <1>1, <2>1, <2>2
  <2>4. /\ new.srv \notin {"none", "queued"} /\ new.dev \in {"over", op[i].dev}
        /\ new.attempt \in {"safe", "done"}
        /\ new.attempt = "safe" <=> op[i].dev \in MachineSafe
        /\ op[i].permit # "none" => new.permit # "none"
        /\ row \in Finished /\ (del[i[1]] \in Finished => row = del[i[1]])
    BY <2>2, OutcomeType DEF Consumed, Settled, Finished
  <2>5. op[i].dev \notin {"permitted", "acted"}
    BY <2>2 DEF Reports, NotStarted
  <2>6. op[i].dev \in {"verified", "unknown"}
          => /\ new.attempt = "done"
             /\ del[i[1]] \in {"started", "unknown", "succeeded"}
                  => row \in {"unknown", "succeeded"}
    BY DEF MachineSafe, NotStarted, Outcome, Finished
  <2> HIDE DEF new, row
  <2>7. KnownOp(i)'
    BY <2>2, <2>3, <2>4, <2>5 DEF KnownOp, MachineSafe
  <2>8. Sender(i) <=> op[i].dev \in {"verified", "unknown"}
    BY <2>2 DEF Sender, Reports, NotStarted
  <2>9. Sender(i) => Sender(i)'
    BY <2>3, <2>4, <2>6, <2>8 DEF Sender
  <2>10. SentOnceBy(i[1])'
    <3>1. CASE Sender(i)
      BY <1>1, <2>2, <2>3, <2>6, <2>8, <2>9, <3>1, SentKept
    <3>2. CASE ~Sender(i)
      <4>1. PICK p, k : p = i[1] /\ k = i[2]
        OBVIOUS
      <4>2. p \in Deliveries /\ k \in 1..N /\ i = <<p, k>> /\ KnownRow(p)
        BY <2>2, <4>1
      <4>3. \A n \in 1..N : ~Sender(<<p, n>>)
        BY <2>2, <3>2, <4>2, OneLive DEF Sender
      <4>4. \A n \in 1..N : n # k => op'[<<p, n>>] = op[<<p, n>>]
        BY <2>3, <4>2, OpsOf
      <4>5. Stray(p) => Stray(p)'
        BY <2>2, <4>2, <4>4 DEF Stray
      <4>6. SentOnceBy(p)'
        BY <1>1, <4>2, <4>3, <4>5 DEF KnownRow, SentOnceBy
      <4> QED
        BY <4>1, <4>6
    <3> QED
      BY <3>1, <3>2
  <2> QED
    BY <1>1, <2>2, <2>3, <2>4, <2>7, <2>10, KnownTouch
<1>3. ASSUME NEW i \in Ops, ResultIgnored(i)
      PROVE  /\ \A j \in Ops : KnownOp(j)'
             /\ \A q \in Deliveries : KnownRow(q)'
             /\ \A d \in Drivers : KnownDriver(d)'
  <2>1. /\ op' = [op EXCEPT ![i].dev = "over"] /\ op[i].dev \in Reports /\ UNCHANGED del
        /\ op[i] \in Invocations /\ i[1] \in Deliveries /\ KnownOp(i)
    BY <1>1, <1>3, OpsOf DEF ResultIgnored, Device, server, KnownInv
  <2>2. /\ op'[i].dev = "over" /\ op'[i].srv = op[i].srv /\ op'[i].permit = op[i].permit
        /\ op'[i].attempt = op[i].attempt /\ \A j \in Ops : j # i => op'[j] = op[j]
    BY <1>1, <2>1 DEF Invocations
  <2>3. KnownOp(i)'
    BY <1>1, <2>1, <2>2 DEF KnownOp
  <2>4. Sender(i) => Sender(i)'
    BY <2>2 DEF Sender
  <2>5. SentOnceBy(i[1])'
    BY <1>1, <2>1, <2>2, <2>4, SentKept
  <2> QED
    BY <1>1, <2>1, <2>2, <2>3, <2>5, KnownTouch
<1>4. CASE AdvanceRead \/ AdvanceLost \/ \E verdict \in Terminal : AdvanceFinish(verdict)
  <2> UNCHANGED op /\ del' \in {del, Skipped, Expired}
    BY <1>4 DEF AdvanceRead, AdvanceLost, AdvanceFinish, server
  <2> QED
    BY <1>1, QuietRows DEF KnownInv
<1> QED
  BY <1>2, <1>3, <1>4 DEF Results

LEMMA KnownStep == ASSUME OneDriver PROVE KnownInv /\ [Next]_vars => KnownInv'
<1> SUFFICES ASSUME KnownInv, [Next]_vars PROVE KnownInv'
  OBVIOUS
<1>1. LineInv'
  BY LineStep DEF KnownInv
<1>2. ASSUME Quiet, UNCHANGED drv PROVE KnownInv'
  BY <1>1, <1>2, QuietKnown, SameKnownDrivers DEF KnownInv
<1>3. ASSUME Quiet, \A d \in Drivers : KnownDriver(d)' PROVE KnownInv'
  BY <1>1, <1>3, QuietKnown DEF KnownInv
<1>4. ASSUME NEW d \in Drivers, Drive(d) \/ Crash(d) PROVE KnownInv'
  BY <1>1, <1>3, <1>4, KnownDrive, KnownDispatch DEF KnownInv
<1>5. CASE User
  BY <1>1, <1>2, <1>5, KnownUser DEF KnownInv
<1>6. ASSUME NEW i \in Ops, Runtime(i) PROVE KnownInv'
  BY <1>1, <1>6, KnownDevice DEF KnownInv
<1>7. ASSUME NEW i \in Ops, Clock(i) PROVE KnownInv'
  <2> UNCHANGED drv
    BY <1>7 DEF Clock, PermitExpires, ClaimExpires, Deadline
  <2> QED
    BY <1>2, <1>7, KnownClock
<1>8. CASE Results
  BY <1>1, <1>2, <1>8, KnownResults DEF KnownInv
<1>9. CASE LeaseExpires \/ Reclaim \/ Overdue \/ UNCHANGED vars
  <2> UNCHANGED <<op, sent, reopened, drv>> /\ del' \in {del, Skipped, Expired}
    BY <1>9 DEF LeaseExpires, Reclaim, Overdue, vars, server
  <2> QED
    BY <1>2, QuietRows DEF KnownInv
<1> QED
  BY <1>4, <1>5, <1>6, <1>7, <1>8, <1>9 DEF Next

LEMMA KnownInit == Init => KnownInv
<1> SUFFICES ASSUME Init PROVE KnownInv
  OBVIOUS
<1>1. \A p \in Deliveries, n \in 1..N : op[<<p, n>>] = NoOp
  BY OpsOf DEF Init
<1>2. ASSUME NEW i \in Ops PROVE KnownOp(i)
  <2> op[i] = NoOp
    BY DEF Init
  <2> QED
    BY DEF KnownOp, NoOp
<1>3. ASSUME NEW p \in Deliveries PROVE KnownRow(p)
  <2>1. \A n \in 1..N : op[<<p, n>>].attempt = "none" /\ op[<<p, n>>].permit = "none"
    BY <1>1 DEF NoOp
  <2>2. sent[p] = 0
    BY DEF Init
  <2> QED
    BY <2>1, <2>2 DEF KnownRow, InTurn, FirstTried, SentOnceBy, Stray, Tried
<1>4. ASSUME NEW d \in Drivers PROVE KnownDriver(d)
  BY DEF Init, Idle, KnownDriver
<1> QED
  BY <1>2, <1>3, <1>4, LineInit DEF KnownInv

\* While one scheduler drives the run, a message is sent at most once by the invocations of
\* its attempts, however often it is retried and whatever crashed, expired or was lost.
THEOREM AttemptsSendOnceAlways == ASSUME OneDriver PROVE Spec => []AttemptsSendOnce
<1>1. KnownInv => AttemptsSendOnce
  <2> SUFFICES ASSUME KnownInv, NEW p \in Deliveries PROVE Stray(p) \/ sent[p] <= 1
    BY DEF AttemptsSendOnce
  <2> QED
    BY DEF KnownInv, KnownRow, SentOnceBy
<1>2. KnownInv /\ [Next]_vars => KnownInv'
  BY KnownStep
<1> QED
  BY <1>1, <1>2, KnownInit, PTL DEF Spec

\* While one scheduler drives the run, a message whose delivery failed, was skipped or
\* expired was not sent, unless an invocation of a retry that was lost sent it.
THEOREM NotSentAlways == ASSUME OneDriver PROVE Spec => []NotSentHolds
<1>1. KnownInv => NotSentHolds
  BY DEF KnownInv, KnownRow, SentOnceBy, NotSentHolds
<1>2. KnownInv /\ [Next]_vars => KnownInv'
  BY KnownStep
<1> QED
  BY <1>1, <1>2, KnownInit, PTL DEF Spec

-----------------------------------------------------------------------------
(* The verdict of the run says what was sent. *)

VerdictInv ==
  /\ KnownInv
  /\ run.state = "succeeded" \/ "succeeded" \in aggregate
       => \A p \in Deliveries : del[p] = "succeeded"
  /\ "expired" \notin aggregate
  /\ run.state = "expired"
       => \A p \in Deliveries : p \in reopened \/ del[p] \in {"skipped", "expired"}

LEMMA VerdictMeans ==
  ASSUME NEW rows, NEW cancelled \in BOOLEAN, NEW deadline \in BOOLEAN
  PROVE  /\ Verdict(rows, cancelled, deadline) = "succeeded"
              => \A p \in Deliveries : rows[p] = "succeeded"
         /\ Verdict(rows, cancelled, deadline) = "expired"
              => /\ deadline /\ \A p \in Deliveries : ~Begun(rows[p])
                 /\ \E p \in Deliveries : rows[p] # "none"
<1> DEFINE states == {rows[p] : p \in Deliveries}
<1>1. Verdict(rows, cancelled, deadline) = "succeeded" => states = {"succeeded"}
  BY DEF Verdict
<1>2. Verdict(rows, cancelled, deadline) = "expired"
        => deadline /\ states # {"none"} /\ ~\E row \in states : Begun(row)
  BY DEF Verdict
<1>3. ASSUME states # {"none"} PROVE \E p \in Deliveries : rows[p] # "none"
  <2> 1 \in Deliveries
    BY ConstantsAssumption DEF Deliveries
  <2> QED
    BY <1>3
<1> QED
  BY <1>1, <1>2, <1>3

LEMMA ExpiredVerdict ==
  ASSUME LineInv, NEW rows \in {del, Expired}, NEW cancelled \in BOOLEAN,
         NEW deadline \in BOOLEAN, Verdict(rows, cancelled, deadline) = "expired"
  PROVE  \A p \in Deliveries : Expired[p] \in {"skipped", "expired"}
<1>1. /\ \A p \in Deliveries : ~Begun(rows[p])
      /\ \E p \in Deliveries : rows[p] # "none"
  BY VerdictMeans
<1>2. \A p \in Deliveries : del[p] \in Rows /\ Expired[p] = ExpiredRow(del[p])
  BY DEF LineInv, TypeOK, Expired
<1>3. \A p \in Deliveries : del[p] # "none"
  BY <1>1, <1>2 DEF ExpiredRow, LineInv, Together
<1> QED
  BY <1>1, <1>2, <1>3 DEF Begun, ExpiredRow, Rows, Finished

LEMMA SucceededVerdict ==
  ASSUME NEW rows \in {del, Skipped, Expired}, NEW cancelled \in BOOLEAN,
         NEW deadline \in BOOLEAN, Verdict(rows, cancelled, deadline) = "succeeded"
  PROVE  \A p \in Deliveries : del[p] = "succeeded"
<1>1. \A p \in Deliveries : rows[p] = "succeeded"
  BY VerdictMeans
<1> QED
  BY <1>1 DEF Skipped, Expired, ExpiredRow

\* How a run comes by a verdict.
RunMove ==
  \/ run'.state \in {run.state, "running", "cancelled", "failed", "partial", "unknown"}
  \/ run'.state = "succeeded" /\ \A p \in Deliveries : del[p] = "succeeded"
  \/ run'.state = "expired" /\ \A p \in Deliveries : del'[p] \in {"skipped", "expired"}

LEMMA CancelMove ==
  ASSUME LineInv, CancelRun
  PROVE  RunMove
<1>1. PICK verdict : Finish(verdict) /\ verdict = CancelVerdict(Skipped)
  BY DEF CancelRun
<1>2. run'.state \in {run.state, verdict}
  BY <1>1 DEF Finish
<1>3. CASE \E p \in Deliveries : Begun(Skipped[p])
  <2>1. verdict = Else(Verdict(Skipped, FALSE, TRUE), "partial")
    BY <1>1, <1>3 DEF CancelVerdict
  <2>2. Verdict(Skipped, FALSE, TRUE) # "expired"
    BY <1>3, VerdictMeans
  <2>3. Verdict(Skipped, FALSE, TRUE) = "succeeded" => \A p \in Deliveries : del[p] = "succeeded"
    BY SucceededVerdict
  <2>4. verdict \in {"partial", Verdict(Skipped, FALSE, TRUE)} /\ verdict \in Terminal
    BY <2>1, VerdictType DEF Else, Terminal
  <2> QED
    BY <1>2, <2>2, <2>3, <2>4 DEF RunMove, Terminal
<1>4. CASE ~\E p \in Deliveries : Begun(Skipped[p])
  <2>1. verdict = Else(Verdict(Skipped, TRUE, FALSE), "cancelled")
    BY <1>1, <1>4 DEF CancelVerdict
  <2>2. Verdict(Skipped, TRUE, FALSE) # "expired"
    BY VerdictMeans
  <2>3. Verdict(Skipped, TRUE, FALSE) = "succeeded" => \A p \in Deliveries : del[p] = "succeeded"
    BY SucceededVerdict
  <2>4. verdict \in {"cancelled", Verdict(Skipped, TRUE, FALSE)} /\ verdict \in Terminal
    BY <2>1, VerdictType DEF Else, Terminal
  <2> QED
    BY <1>2, <2>2, <2>3, <2>4 DEF RunMove, Terminal
<1> QED
  BY <1>3, <1>4

LEMMA RunMoves ==
  ASSUME VerdictInv, [Next]_vars
  PROVE  RunMove
<1>1. LineInv
  BY DEF VerdictInv, KnownInv
<1>2. ASSUME run'.state = run.state PROVE RunMove
  BY <1>2 DEF RunMove
<1>3. ASSUME UNCHANGED run PROVE RunMove
  BY <1>2, <1>3
<1>4. ASSUME NEW d \in Drivers, Poison(d) PROVE RunMove
  BY <1>4 DEF Poison, Finish, RunMove
<1>5. ASSUME NEW d \in Drivers, ClaimRun(d) PROVE RunMove
  BY <1>5 DEF ClaimRun, RunMove
<1>6. ASSUME NEW d \in Drivers, DriveRunning(d) PROVE RunMove
  BY <1>1, <1>2, <1>6 DEF DriveRunning, LineInv, TypeOK
<1>7. ASSUME NEW d \in Drivers, Abandon(d) PROVE RunMove
  <2>1. CASE drv[d].reason = "deadline"
    <3>1. del' = Expired /\ Finish(Else(Verdict(del, FALSE, TRUE), "failed"))
      BY <1>7, <2>1 DEF Abandon
    <3>2. Else(Verdict(del, FALSE, TRUE), "failed") \in {Verdict(del, FALSE, TRUE), "failed"}
      BY DEF Else
    <3>3. Else(Verdict(del, FALSE, TRUE), "failed") \in Terminal
      BY VerdictType DEF Terminal
    <3>4. Verdict(del, FALSE, TRUE) = "expired"
            => \A p \in Deliveries : Expired[p] \in {"skipped", "expired"}
      BY <1>1, ExpiredVerdict
    <3>5. Verdict(del, FALSE, TRUE) = "succeeded" => \A p \in Deliveries : del[p] = "succeeded"
      BY SucceededVerdict
    <3> QED
      BY <3>1, <3>2, <3>3, <3>4, <3>5 DEF Finish, RunMove, Terminal
  <2>2. CASE drv[d].reason = "revoked"
    <3>1. Finish(Else(Verdict(del, TRUE, FALSE), "cancelled"))
      BY <1>7, <2>2 DEF Abandon
    <3>2. Else(Verdict(del, TRUE, FALSE), "cancelled") \in {Verdict(del, TRUE, FALSE), "cancelled"}
      BY DEF Else
    <3>3. Else(Verdict(del, TRUE, FALSE), "cancelled") \in Terminal
      BY VerdictType DEF Terminal
    <3>4. Verdict(del, TRUE, FALSE) # "expired"
      BY VerdictMeans
    <3>5. Verdict(del, TRUE, FALSE) = "succeeded" => \A p \in Deliveries : del[p] = "succeeded"
      BY SucceededVerdict
    <3> QED
      BY <3>1, <3>2, <3>3, <3>4, <3>5 DEF Finish, RunMove, Terminal
  <2>3. CASE drv[d].reason \in {"payload", "refused"}
    <3> Finish("unknown") \/ Finish("failed")
      BY <1>7, <2>3 DEF Abandon
    <3> QED
      BY DEF Finish, RunMove
  <2>4. drv[d].reason \in {"deadline", "revoked", "payload", "refused"}
    <3> drv[d] \in Memory
      BY <1>1 DEF LineInv, TypeOK
    <3> QED
      BY <1>1, <1>7 DEF Abandon, LineInv, Reasoned, Memory
  <2> QED
    BY <2>1, <2>2, <2>3, <2>4
<1>8. ASSUME NEW d \in Drivers, Drive(d) \/ Crash(d) PROVE RunMove
  BY <1>3, <1>4, <1>5, <1>6, <1>7, <1>8
  DEF Drive, Crash, ClaimEntry, PassEntry, CloseEntry, Requeue, Prepare, InsertDeliveries, Pick,
      Check, Enqueue, Dispatch, server
<1>9. CASE User
  BY <1>1, <1>3, <1>9, CancelMove DEF User, Cancel, Pause, Publish, Retry, server
<1>10. ASSUME NEW i \in Ops, Runtime(i) \/ Clock(i) PROVE RunMove
  BY <1>3, <1>10 DEF Runtime, Clock, Claim, Authorize, Decline, Withdraw, Act, Conclude,
                     DeviceCrash, PermitExpires, ClaimExpires, Deadline, server
<1>11. ASSUME NEW verdict \in Terminal, AdvanceFinish(verdict) PROVE RunMove
  <2>1. run'.state \in {run.state, verdict} /\ verdict \in aggregate
    BY <1>11 DEF AdvanceFinish, Finish
  <2> QED
    BY <2>1 DEF VerdictInv, RunMove, Terminal
<1>12. CASE Results
  BY <1>3, <1>11, <1>12 DEF Results, ApplyResult, ResultIgnored, AdvanceRead, AdvanceLost, server
<1>13. CASE Reclaim
  <2> DEFINE rows == Expired
             verdict == IF rows = [p \in Deliveries |-> "none"] THEN "failed"
                        ELSE Else(Verdict(rows, FALSE, TRUE), "unknown")
  <2>1. del' = Expired /\ Finish(verdict)
    BY <1>13 DEF Reclaim
  <2>2. verdict \in {"failed", "unknown", Verdict(rows, FALSE, TRUE)} /\ verdict \in Terminal
    BY VerdictType DEF Else, Terminal
  <2>3. Verdict(rows, FALSE, TRUE) = "expired"
          => \A p \in Deliveries : rows[p] \in {"skipped", "expired"}
    BY <1>1, ExpiredVerdict
  <2>4. Verdict(rows, FALSE, TRUE) = "succeeded" => \A p \in Deliveries : del[p] = "succeeded"
    BY SucceededVerdict
  <2> HIDE DEF verdict
  <2> QED
    BY <2>1, <2>2, <2>3, <2>4 DEF Finish, RunMove, Terminal
<1>14. CASE LeaseExpires
  BY <1>1, <1>2, <1>14 DEF LeaseExpires, LineInv, TypeOK
<1>15. CASE Overdue \/ UNCHANGED vars
  BY <1>3, <1>15 DEF Overdue, vars, server
<1> QED
  BY <1>8, <1>9, <1>10, <1>12, <1>13, <1>14, <1>15 DEF Next

\* A verdict that is about to be written is that of rows that were all sent, or no success.
LEMMA AggregateMoves ==
  ASSUME VerdictInv, [Next]_vars
  PROVE  /\ "expired" \notin aggregate'
         /\ "succeeded" \in aggregate' => \A p \in Deliveries : del[p] = "succeeded"
<1>1. CASE AdvanceRead
  <2>1. PICK rows \in {del, Skipped} :
           aggregate' \subseteq aggregate \union {Verdict(rows, FALSE, FALSE)}
    BY <1>1 DEF AdvanceRead
  <2>2. Verdict(rows, FALSE, FALSE) # "expired"
    BY VerdictMeans
  <2>3. Verdict(rows, FALSE, FALSE) = "succeeded" => \A p \in Deliveries : del[p] = "succeeded"
    BY SucceededVerdict
  <2> QED
    BY <2>1, <2>2, <2>3 DEF VerdictInv
<1>2. CASE aggregate' \subseteq aggregate \union {"read"}
  BY <1>2 DEF VerdictInv
<1>3. AdvanceRead \/ aggregate' \subseteq aggregate \union {"read"}
  <2>1. CASE \E d \in Drivers : Drive(d) \/ Crash(d)
    BY <2>1, ZenonT(60) DEF Drive, Crash, ClaimEntry, Poison, ClaimRun, PassEntry, CloseEntry, Requeue, Prepare,
       InsertDeliveries, Pick, Check, Enqueue, Dispatch, Abandon, DriveRunning
  <2>2. CASE User
    BY <2>2 DEF User, Cancel, Pause, Publish, Retry
  <2>3. CASE \E i \in Ops : Runtime(i) \/ Clock(i)
    BY <2>3 DEF Runtime, Clock, Claim, Authorize, Decline, Withdraw, Act, Conclude, DeviceCrash,
       PermitExpires, ClaimExpires, Deadline
  <2>4. CASE Results
    BY <2>4 DEF Results, ApplyResult, ResultIgnored, AdvanceLost, AdvanceFinish
  <2>5. CASE LeaseExpires \/ Reclaim \/ Overdue \/ UNCHANGED vars
    BY <2>5 DEF LeaseExpires, Reclaim, Overdue, vars
  <2> QED
    BY <2>1, <2>2, <2>3, <2>4, <2>5 DEF Next
<1> QED
  BY <1>1, <1>2, <1>3

\* Only a retry brings back what was skipped or has expired.
LEMMA FinishedKept ==
  ASSUME LineInv, [Next]_vars, NEW p \in Deliveries,
         p \in reopened \/ del[p] \in {"skipped", "expired"}
  PROVE  p \in reopened' \/ del'[p] \in {"skipped", "expired"}
<1>1. del \in [Deliveries -> Rows]
  BY DEF LineInv, TypeOK
<1>2. ASSUME reopened \subseteq reopened',
             del[p] \in {"skipped", "expired"} => del'[p] = del[p] \/ p \in reopened'
      PROVE  p \in reopened' \/ del'[p] \in {"skipped", "expired"}
  BY <1>2
<1>3. ASSUME reopened' = reopened, del' \in {del, Skipped, Expired}
      PROVE  p \in reopened' \/ del'[p] \in {"skipped", "expired"}
  BY <1>3 DEF Skipped, Expired, ExpiredRow
<1>4. ASSUME NEW d \in Drivers, InsertDeliveries(d) \/ Dispatch(d)
      PROVE  p \in reopened' \/ del'[p] \in {"skipped", "expired"}
  <2> reopened' = reopened /\ (del'[p] = del[p] \/ del[p] \in {"none", "pending"})
    BY <1>1, <1>4 DEF InsertDeliveries, Dispatch
  <2> QED
    BY <1>2
<1>5. ASSUME NEW d \in Drivers, Drive(d) \/ Crash(d), ~InsertDeliveries(d), ~Dispatch(d)
      PROVE  p \in reopened' \/ del'[p] \in {"skipped", "expired"}
  <2> reopened' = reopened /\ del' \in {del, Skipped, Expired}
    BY <1>5 DEF Drive, Crash, ClaimEntry, Poison, ClaimRun, PassEntry, CloseEntry, Requeue, Prepare,
       Pick, Check, Enqueue, Abandon, DriveRunning, server
  <2> QED
    BY <1>3
<1>6. ASSUME NEW q \in Deliveries, Retry(q)
      PROVE  p \in reopened' \/ del'[p] \in {"skipped", "expired"}
  <2> \/ reopened' = reopened /\ del' = del
      \/ reopened' = reopened \union {q} /\ del' = [del EXCEPT ![q] = "dispatched"]
    BY <1>6 DEF Retry
  <2> QED
    BY <1>1
<1>7. CASE Cancel \/ Pause \/ Publish
  <2> reopened' = reopened /\ del' \in {del, Skipped, Expired}
    BY <1>7 DEF Cancel, Pause, Publish, CancelRun, server
  <2> QED
    BY <1>3
<1>8. ASSUME NEW i \in Ops, Runtime(i) \/ Clock(i)
      PROVE  p \in reopened' \/ del'[p] \in {"skipped", "expired"}
  <2>1. CASE Authorize(i)
    <3> reopened' = reopened /\ (del'[p] = del[p] \/ del[p] \in {"dispatched", "started"})
      BY <1>1, <2>1 DEF Authorize, Authorizable
    <3> QED
      BY <1>2
  <2>2. CASE ~Authorize(i)
    <3> reopened' = reopened /\ del' = del
      BY <1>8, <2>2 DEF Runtime, Clock, Claim, Decline, Withdraw, Act, Conclude, DeviceCrash,
         PermitExpires, ClaimExpires, Deadline, server
    <3> QED
      BY <1>3
  <2> QED
    BY <2>1, <2>2
<1>9. ASSUME NEW i \in Ops, ApplyResult(i)
      PROVE  p \in reopened' \/ del'[p] \in {"skipped", "expired"}
  <2>1. PICK outcome :
           reopened' = reopened
           /\ del' = [del EXCEPT ![i[1]] = IF @ \in Finished THEN @ ELSE outcome]
    BY <1>9 DEF ApplyResult
  <2>2. del'[p] = del[p] \/ del[p] \notin Finished
    BY <1>1, <2>1
  <2> QED
    BY <1>2, <2>1, <2>2 DEF Finished
<1>10. CASE Results /\ ~\E i \in Ops : ApplyResult(i)
  <2> reopened' = reopened /\ del' \in {del, Skipped, Expired}
    BY <1>10 DEF Results, ResultIgnored, AdvanceRead, AdvanceLost, AdvanceFinish, server
  <2> QED
    BY <1>3
<1>11. CASE LeaseExpires \/ Reclaim \/ Overdue \/ UNCHANGED vars
  <2> reopened' = reopened /\ del' \in {del, Skipped, Expired}
    BY <1>11 DEF LeaseExpires, Reclaim, Overdue, vars, server
  <2> QED
    BY <1>3
<1> QED
  BY <1>4, <1>5, <1>6, <1>7, <1>8, <1>9, <1>10, <1>11 DEF Next, User

\* While one scheduler drives the run: a run that succeeded sent every message, and a run
\* that expired sent only messages that were retried.
THEOREM VerdictHoldsAlways == ASSUME OneDriver PROVE Spec => []VerdictHolds
<1>1. VerdictInv /\ [Next]_vars => VerdictInv'
  <2> SUFFICES ASSUME VerdictInv, [Next]_vars PROVE VerdictInv'
    OBVIOUS
  <2>1. KnownInv' /\ LineInv
    BY KnownStep DEF VerdictInv, KnownInv
  <2>2. \A p \in Deliveries : del[p] = "succeeded" => del'[p] = "succeeded"
    BY <2>1, MovesStep DEF Moves, RowMove
  <2>3. ASSUME run'.state = "succeeded" PROVE \A p \in Deliveries : del[p] = "succeeded"
    BY <2>3, RunMoves DEF RunMove, VerdictInv
  <2>4. ASSUME run'.state = "expired", NEW p \in Deliveries
        PROVE  p \in reopened' \/ del'[p] \in {"skipped", "expired"}
    <3>1. run.state = "expired" \/ del'[p] \in {"skipped", "expired"}
      BY <2>4, RunMoves DEF RunMove
    <3>2. run.state = "expired" => p \in reopened \/ del[p] \in {"skipped", "expired"}
      BY DEF VerdictInv
    <3> QED
      BY <2>1, <3>1, <3>2, FinishedKept
  <2> QED
    BY <2>1, <2>2, <2>3, <2>4, AggregateMoves DEF VerdictInv
<1>2. Init => VerdictInv
  BY KnownInit DEF Init, VerdictInv
<1>3. VerdictInv => VerdictHolds
  <2> SUFFICES ASSUME VerdictInv PROVE VerdictHolds
    OBVIOUS
  <2>1. \A p \in Deliveries : RowInv(p) /\ KnownRow(p) /\ sent[p] \in Nat
    BY DEF VerdictInv, KnownInv, LineInv, TypeOK
  <2>2. ASSUME run.state = "expired", NEW p \in Deliveries, sent[p] > 0 PROVE p \in reopened
    <3>1. p \in reopened \/ del[p] \in {"skipped", "expired"}
      BY <2>2 DEF VerdictInv
    <3>2. Stray(p) \/ del[p] \in {"started", "unknown", "succeeded"}
      BY <2>1, <2>2 DEF KnownRow, SentOnceBy
    <3> QED
      BY <2>1, <3>1, <3>2 DEF KnownRow
  <2>3. run.state = "succeeded" => \A p \in Deliveries : sent[p] > 0
    BY <2>1 DEF VerdictInv, RowInv
  <2> QED
    BY <2>2, <2>3 DEF VerdictHolds
<1> QED
  BY <1>1, <1>2, <1>3, PTL DEF Spec

=============================================================================
