----------------------------- MODULE DesktopRun -----------------------------
(***************************************************************************)
(* One run of the Weixin marketing scenario over desktop_automation: an    *)
(* ordered list of deliveries (messages), each sent at most by one desktop *)
(* operation that a device performs under a permit of the server.          *)
(*                                                                         *)
(* Drivers (run_dispatch_tick) claim the run, prepare its deliveries and   *)
(* dispatch them one by one; the user cancels, pauses and retries; the     *)
(* device claims invocations, asks for permits, types and reports; sweeps  *)
(* expire leases and permits. Each action is one transaction of the server *)
(* or one step of the device.                                              *)
(***************************************************************************)
EXTENDS Naturals, FiniteSets

CONSTANTS
  Drivers,            \* schedulers that run the dispatch tick
  D,                  \* the deliveries of the run, in order
  N,                  \* bound: invocations of one delivery
  MaxReopened,        \* bound: deliveries that the user retries
  Limit,              \* limit_count of the quota bucket
  MaxOutboxAttempts,  \* OUTBOX_MAX_ATTEMPTS
  MaxFaults           \* bound: crashes, lost answers, refusals of the environment

ASSUME ConstantsAssumption ==
  /\ D \in Nat \ {0} /\ N \in Nat \ {0} /\ Limit \in Nat /\ MaxReopened \in Nat
  /\ MaxOutboxAttempts \in Nat /\ MaxFaults \in Nat

VARIABLES
  run,         \* desktop_automation_runs: state and whether its lease is running
  outbox,      \* the run_due entry: state and attempt_count
  del,         \* deliveries: state and, while dispatched, whether the phase is past prepared
  reopened,    \* deliveries whose finished_at stays set while a retry is under way
  op,          \* per <<delivery, key number>>: invocation, attempt, permit and the device's work
  overtime,    \* of the invocations under way, those whose deadline_at has passed
  drv,         \* what each driver holds in memory
  aggregate,   \* advance_run calls under way: "read", or the state that is about to be written
  authorized,  \* task active, revision and epoch those of the run
  overdue,     \* expires_at has passed
  sent,        \* history: how often each message was really sent
  faults       \* how much of the bound is used

vars == <<run, outbox, del, reopened, op, overtime, drv, aggregate, authorized, overdue,
          sent, faults>>
server == <<run, outbox, del, reopened>>
world == <<authorized, overdue>>

Deliveries == 1..D
Ops == Deliveries \X (1..N)
Terminal == {"succeeded", "partial", "failed", "unknown", "cancelled", "expired"}
Finished == {"succeeded", "failed", "unknown", "skipped", "expired"}
Settled == {"succeeded", "failed", "unknown", "cancelled"}

NoOp == [srv |-> "none", attempt |-> "none", permit |-> "none", dev |-> "idle"]
Idle == [pc |-> "idle", p |-> 0, n |-> 0, entry |-> FALSE, reason |-> "none"]

Init ==
  /\ run = [state |-> "pending", leased |-> FALSE]
  /\ outbox = [state |-> "pending", attempts |-> 0]
  /\ del = [p \in Deliveries |-> "none"]
  /\ reopened = {}
  /\ op = [i \in Ops |-> NoOp]
  /\ overtime = {}
  /\ drv = [d \in Drivers |-> Idle]
  /\ aggregate = {}
  /\ authorized = TRUE /\ overdue = FALSE
  /\ sent = [p \in Deliveries |-> 0]
  /\ faults = 0

Fault == faults < MaxFaults /\ faults' = faults + 1

-----------------------------------------------------------------------------
(* runs.py and deliveries.py, as functions of the rows of the deliveries. *)

\* delivery_is_started: past prepared, or dispatched.
Begun(row) == row \in {"dispatched", "started", "succeeded", "failed", "unknown"}

\* Mutant of Verdict: a deadline makes every run an expired one.
VerdictExpires(rows, cancelled, deadline) ==
  LET states == {rows[p] : p \in Deliveries} IN
  IF states = {"none"} THEN "none"
  ELSE IF deadline THEN "expired"
  ELSE IF states = {"succeeded"} THEN "succeeded"
  ELSE IF states \subseteq Finished THEN "failed" ELSE "none"

\* compute_run_terminal_state; "none" while the run is not over.
Verdict(rows, cancelled, deadline) ==
  LET states == {rows[p] : p \in Deliveries}
      succeeded == "succeeded" \in states
      begun == \E row \in states : Begun(row)
  IN IF states = {"none"} THEN "none"
     ELSE IF "unknown" \in states THEN IF succeeded THEN "partial" ELSE "unknown"
     ELSE IF states = {"succeeded"} THEN "succeeded"
     ELSE IF cancelled /\ ~begun THEN "cancelled"
     ELSE IF deadline THEN IF begun THEN "partial" ELSE "expired"
     ELSE IF states \subseteq Finished THEN IF succeeded THEN "partial" ELSE "failed"
     ELSE "none"

Else(verdict, default) == IF verdict = "none" THEN default ELSE verdict

\* finish_run: a run that is over keeps its state.
Finish(verdict) ==
  run' = IF run.state \in Terminal THEN run ELSE [state |-> verdict, leased |-> FALSE]

\* skip_remaining_deliveries
Skipped == [p \in Deliveries |-> IF del[p] = "pending" THEN "skipped" ELSE del[p]]

\* Mutant of ExpiredRow: whatever is dispatched counts as not submitted.
ExpiredRowAll(row) == IF row \in {"pending", "dispatched", "started"} THEN "expired" ELSE row

\* expire_unstarted_deliveries: what may have started is unknown, not expired.
ExpiredRow(row) ==
  IF row \in {"pending", "dispatched"} THEN "expired"
  ELSE IF row = "started" THEN "unknown" ELSE row

Expired == [p \in Deliveries |-> ExpiredRow(del[p])]

\* Mutant of Executable: a delivery that failed does not stop the next one.
ExecutablePast(p) ==
  /\ del[p] = "pending"
  /\ \A q \in Deliveries : q < p => del[q] \in {"succeeded", "skipped", "failed"}

\* next_executable_delivery: all before it are verified (or were skipped).
Executable(p) ==
  /\ del[p] = "pending"
  /\ \A q \in Deliveries : q < p => del[q] \in {"succeeded", "skipped"}

Attempts(p) == {n \in 1..N : op[<<p, n>>].attempt # "none"}
IsLatest(i) == i[2] \in Attempts(i[1]) /\ \A m \in Attempts(i[1]) : m <= i[2]

-----------------------------------------------------------------------------
(* The outbox entry of the run, and claiming the run. *)

Go(d, pc) == drv' = [drv EXCEPT ![d].pc = pc]

\* claim_pending_outbox
ClaimEntry(d) ==
  /\ drv[d].pc = "idle" /\ outbox.state = "pending"
  /\ outbox' = [state |-> "processing", attempts |-> outbox.attempts + 1]
  /\ drv' = [drv EXCEPT ![d] = [Idle EXCEPT !.pc = "entry", !.entry = TRUE]]
  /\ UNCHANGED <<run, del, reopened, op, overtime, aggregate, world, sent, faults>>

\* _process_outbox_entry: an entry that was tried too often fails its pending run.
Poison(d) ==
  /\ drv[d].pc = "entry" /\ run.state = "pending"
  /\ outbox.attempts > MaxOutboxAttempts
  /\ Finish("failed")
  /\ Go(d, "close")
  /\ UNCHANGED <<outbox, del, reopened, op, overtime, aggregate, world, sent, faults>>

\* claim_run
ClaimRun(d) ==
  /\ drv[d].pc = "entry" /\ run.state = "pending"
  /\ outbox.attempts <= MaxOutboxAttempts
  /\ run' = [state |-> "running", leased |-> TRUE]
  /\ Go(d, "prepare")
  /\ UNCHANGED <<outbox, del, reopened, op, overtime, aggregate, world, sent, faults>>

\* The run is not pending: the entry is done, or left as it is if the run changed just now.
PassEntry(d) ==
  /\ drv[d].pc = "entry" /\ run.state # "pending"
  /\ \/ Go(d, "close") /\ UNCHANGED faults
     \/ Fault /\ drv' = [drv EXCEPT ![d] = Idle]
  /\ UNCHANGED <<server, op, overtime, aggregate, world, sent>>

\* mark_outbox_done, after the dispatch loop
CloseEntry(d) ==
  /\ drv[d].pc = "close"
  /\ outbox' = IF drv[d].entry THEN [outbox EXCEPT !.state = "done"] ELSE outbox
  /\ drv' = [drv EXCEPT ![d] = Idle]
  /\ UNCHANGED <<run, del, reopened, op, overtime, aggregate, world, sent, faults>>

\* requeue_stale_processing, at the start of a tick
Requeue(d) ==
  /\ drv[d].pc = "idle" /\ outbox.state = "processing"
  /\ outbox' = [outbox EXCEPT !.state = "pending"]
  /\ UNCHANGED <<run, del, reopened, op, overtime, drv, aggregate, world, sent, faults>>

-----------------------------------------------------------------------------
(* Preparing and dispatching: executor.py. *)

Stop(d, reason) == drv' = [drv EXCEPT ![d].pc = "abandon", ![d].reason = reason]

\* prepare_claimed_run: revalidation, then the payloads.
Prepare(d) ==
  /\ drv[d].pc = "prepare"
  /\ IF ~authorized THEN Stop(d, "revoked") /\ UNCHANGED faults
     ELSE IF overdue THEN Stop(d, "deadline") /\ UNCHANGED faults
     ELSE \/ Go(d, "insert") /\ UNCHANGED faults
          \/ Fault /\ Stop(d, "payload")
  /\ UNCHANGED <<server, op, overtime, aggregate, world, sent>>

InsertDeliveries(d) ==
  /\ drv[d].pc = "insert"
  /\ del' = [p \in Deliveries |-> IF del[p] = "none" THEN "pending" ELSE del[p]]
  /\ Go(d, "pick")
  /\ UNCHANGED <<run, outbox, reopened, op, overtime, aggregate, world, sent, faults>>

\* execute_next_delivery reads the delivery, and checks the run, in separate transactions.
Pick(d) ==
  /\ drv[d].pc = "pick"
  /\ IF \E p \in Deliveries : Executable(p)
     THEN \E p \in Deliveries :
            Executable(p) /\ drv' = [drv EXCEPT ![d].pc = "check", ![d].p = p]
     ELSE Go(d, "close")
  /\ UNCHANGED <<server, op, overtime, aggregate, world, sent, faults>>

Reserved == {i \in Ops : op[i].permit \in {"live", "expired"}}
Used == {i \in Ops : op[i].permit = "settled"}

\* revalidate_run, precheck_quota, resolve_target; then the number of the next attempt.
Check(d) ==
  /\ drv[d].pc = "check"
  /\ IF ~authorized THEN Stop(d, "revoked") /\ UNCHANGED faults
     ELSE IF overdue THEN Stop(d, "deadline") /\ UNCHANGED faults
     ELSE IF Cardinality(Reserved) >= Limit THEN Stop(d, "refused") /\ UNCHANGED faults
     ELSE \/ /\ drv' = [drv EXCEPT ![d].pc = "enqueue",
                                   ![d].n = Cardinality(Attempts(drv[d].p)) + 1]
             /\ UNCHANGED faults
          \/ Fault /\ Stop(d, "refused")
  /\ UNCHANGED <<server, op, overtime, aggregate, world, sent>>

\* create_invocation: a key that exists finds its invocation.
Queued(i) == [op EXCEPT ![i].srv = IF op[i].srv = "none" THEN "queued" ELSE op[i].srv]

Enqueue(d) ==
  /\ drv[d].pc = "enqueue" /\ drv[d].n <= N
  /\ op' = Queued(<<drv[d].p, drv[d].n>>)
  /\ Go(d, "attempt")
  /\ UNCHANGED <<server, overtime, aggregate, world, sent, faults>>

\* create_attempt (or the one there is) and mark_dispatched, in one transaction.
Dispatch(d) ==
  /\ drv[d].pc = "attempt"
  /\ LET i == <<drv[d].p, drv[d].n>> IN
       op' = [op EXCEPT ![i].attempt = IF @ = "none" THEN "open" ELSE @]
  /\ del' = [del EXCEPT ![drv[d].p] = IF @ = "pending" THEN "dispatched" ELSE @]
  /\ drv' = [drv EXCEPT ![d].pc = "pick", ![d].p = 0, ![d].n = 0]
  /\ UNCHANGED <<run, outbox, reopened, overtime, aggregate, world, sent, faults>>

\* _abandon_run: the verdict is taken from the rows as they were before.
Abandon(d) ==
  /\ drv[d].pc = "abandon"
  /\ del' = IF drv[d].reason = "deadline" THEN Expired ELSE Skipped
  /\ Finish(CASE drv[d].reason = "deadline" -> Else(Verdict(del, FALSE, TRUE), "failed")
              [] drv[d].reason = "revoked" -> Else(Verdict(del, TRUE, FALSE), "cancelled")
              [] drv[d].reason = "payload" -> "unknown"
              [] drv[d].reason = "refused" -> "failed")
  /\ drv' = [drv EXCEPT ![d].pc = "close", ![d].p = 0, ![d].n = 0, ![d].reason = "none"]
  /\ UNCHANGED <<outbox, reopened, op, overtime, aggregate, world, sent, faults>>

InFlight == {p \in Deliveries : del[p] \in {"dispatched", "started"}}

\* Mutant of Alive: the deadline of the invocation is not looked at.
AliveForEver(p) ==
  \E n \in 1..N : IsLatest(<<p, n>>) /\ op[<<p, n>>].srv \in {"queued", "running", "cancelling"}

\* _invocation_alive: the latest invocation may still have a result.
Alive(p) ==
  \E n \in 1..N : /\ IsLatest(<<p, n>>) /\ <<p, n>> \notin overtime
                  /\ op[<<p, n>>].srv \in {"queued", "running", "cancelling"}

\* _advance_running_run: renew the lease while the device works, go on when nothing is in flight.
DriveRunning(d) ==
  /\ drv[d].pc = "idle" /\ run.state = "running"
  /\ IF InFlight = {}
     THEN Go(d, "pick") /\ UNCHANGED run
     ELSE /\ \E p \in InFlight : (\A q \in InFlight : p <= q) /\ Alive(p)
          /\ run' = [run EXCEPT !.leased = TRUE]
          /\ UNCHANGED drv
  /\ UNCHANGED <<outbox, del, reopened, op, overtime, aggregate, world, sent, faults>>

\* The process ends, or the step raises: what it held in memory is gone.
Crash(d) ==
  /\ drv[d].pc # "idle"
  /\ Fault
  /\ drv' = [drv EXCEPT ![d] = Idle]
  /\ UNCHANGED <<server, op, overtime, aggregate, world, sent>>

-----------------------------------------------------------------------------
(* The user: cancel, pause, publish, retry. *)

\* _request_cancel_run_invocations_on: only invocations that have an attempt.
CancelledOps ==
  [i \in Ops |->
     IF op[i].attempt = "none" THEN op[i]
     ELSE IF op[i].srv = "queued" THEN [op[i] EXCEPT !.srv = "cancelled"]
     ELSE IF op[i].srv = "running" THEN [op[i] EXCEPT !.srv = "cancelling"] ELSE op[i]]

\* Only what is under way has a deadline.
UnderWay == {"queued", "running", "cancelling"}
StillOver(ops) == {i \in overtime : ops[i].srv \in UnderWay}

\* _terminal_state_for_cancel
CancelVerdict(rows) ==
  IF \E p \in Deliveries : Begun(rows[p]) THEN Else(Verdict(rows, FALSE, TRUE), "partial")
  ELSE Else(Verdict(rows, TRUE, FALSE), "cancelled")

\* cancel_run, and _cancel_open_runs_on when the task is paused: one transaction.
CancelRun ==
  /\ run.state \notin Terminal
  /\ del' = Skipped /\ op' = CancelledOps /\ overtime' = StillOver(CancelledOps)
  /\ Finish(CancelVerdict(Skipped))

Cancel ==
  /\ CancelRun
  /\ UNCHANGED <<outbox, reopened, drv, aggregate, world, sent, faults>>

Pause ==
  /\ authorized /\ authorized' = FALSE
  /\ CancelRun \/ (run.state \in Terminal /\ UNCHANGED <<run, del, op, overtime>>)
  /\ UNCHANGED <<outbox, reopened, drv, aggregate, overdue, sent, faults>>

\* A new revision moves the epoch on and leaves the runs of the old one alone.
Publish ==
  /\ authorized /\ authorized' = FALSE
  /\ UNCHANGED <<server, op, overtime, drv, aggregate, overdue, sent, faults>>

\* Mutant of Retriable: an invocation that is over is enough.
RetriableAny(i) == op[i].srv \in Settled

\* retry_delivery: the last attempt is over and proves that nothing was started.
Retriable(i) == op[i].srv \in Settled /\ op[i].attempt = "safe"

\* The key of the retry: the next number, or one beyond it when that one is dead.
RetryKey(p, n) ==
  /\ n > Cardinality(Attempts(p))
  /\ op[<<p, n>>].srv \in {"none", "queued"}
  /\ \A m \in 1..n - 1 : m > Cardinality(Attempts(p)) => op[<<p, m>>].srv \notin {"none", "queued"}

\* The invocation is committed before the attempt, which may fail to follow.
Retry(p) ==
  /\ del[p] \in {"failed", "unknown", "expired"}
  /\ Cardinality(reopened \union {p}) <= MaxReopened
  /\ \A n \in 1..N : op[<<p, n>>].permit # "live"
  /\ \E n \in 1..N : IsLatest(<<p, n>>) /\ Retriable(<<p, n>>)
  /\ \E n \in 1..N :
       /\ RetryKey(p, n)
       /\ \/ /\ op' = [op EXCEPT ![<<p, n>>].srv = "queued", ![<<p, n>>].attempt = "open"]
             /\ del' = [del EXCEPT ![p] = "dispatched"]
             /\ reopened' = reopened \union {p}
             /\ UNCHANGED faults
          \/ Fault /\ op' = Queued(<<p, n>>) /\ UNCHANGED <<del, reopened>>
  /\ UNCHANGED <<run, outbox, overtime, drv, aggregate, world, sent>>

-----------------------------------------------------------------------------
(* The device: invocationRunner.ts, and the endpoints it calls. *)

NotStarted == {"refused", "retryable", "unused", "returned"}
Reports == NotStarted \union {"unsure", "unknown", "verified"}
WithPermit == {"unused", "returned", "unknown", "verified"}
MachineSafe == {"retryable", "returned"}

Device(i, state) == op' = [op EXCEPT ![i].dev = state]

\* claim_next and mark_started
Claim(i) ==
  /\ op[i].srv = "queued" /\ op[i].dev = "idle"
  /\ op' = [op EXCEPT ![i].srv = "running", ![i].dev = "working"]
  /\ UNCHANGED <<server, overtime, drv, aggregate, world, sent, faults>>

\* withDesktopLock: one operation at a time between its permit and its end.
DesktopFree == \A i \in Ops : op[i].dev \notin {"permitted", "acted"}

\* write_authorize
Authorizable(i) ==
  /\ authorized
  /\ op[i].srv = "running" /\ i \notin overtime
  /\ del[i[1]] \in {"dispatched", "started"}
  /\ run.state = "running" \/ (i[1] \in reopened /\ IsLatest(i))
  /\ \A n \in 1..N : op[<<i[1], n>>].permit # "live"
  /\ Cardinality(Reserved) + Cardinality(Used) < Limit

\* The permit is issued; its answer may be lost, then the device reports that it did not start.
Authorize(i) ==
  /\ op[i].dev = "working" /\ op[i].permit = "none" /\ DesktopFree
  /\ Authorizable(i)
  /\ del' = [del EXCEPT ![i[1]] = "started"]
  /\ \/ op' = [op EXCEPT ![i].permit = "live", ![i].dev = "permitted"] /\ UNCHANGED faults
     \/ Fault /\ op' = [op EXCEPT ![i].permit = "live", ![i].dev = "retryable"]
  /\ UNCHANGED <<run, outbox, reopened, overtime, drv, aggregate, world, sent>>

\* Refused, cancelled, desktop busy or locked: nothing was started.
Decline(i) ==
  /\ op[i].dev = "working"
  /\ \E r \in {"refused", "retryable", "unsure"} : Device(i, r)
  /\ UNCHANGED <<server, overtime, drv, aggregate, world, sent, faults>>

\* The permit ran out locally, or the journal cannot be written.
Withdraw(i) ==
  /\ op[i].dev = "permitted"
  /\ \E r \in {"unused", "returned"} : Device(i, r)
  /\ UNCHANGED <<server, overtime, drv, aggregate, world, sent, faults>>

\* The provider types and sends, while the permit is valid.
Act(i) ==
  /\ op[i].dev = "permitted" /\ op[i].permit = "live"
  /\ sent' = [sent EXCEPT ![i[1]] = @ + 1]
  /\ Device(i, "acted")
  /\ UNCHANGED <<server, overtime, drv, aggregate, world, faults>>

\* The result is stored before it is sent; without a trusted one the effect is unknown.
Conclude(i) ==
  /\ \/ op[i].dev = "acted" /\ \E r \in {"verified", "unknown"} : Device(i, r)
     \/ op[i].dev = "permitted" /\ Device(i, "unknown")
  /\ UNCHANGED <<server, overtime, drv, aggregate, world, sent, faults>>

\* The runtime ends before it stored a result; nothing is sent or reported after its restart.
DeviceCrash(i) ==
  /\ op[i].dev \in {"working", "permitted", "acted"}
  /\ Fault /\ Device(i, "over")
  /\ UNCHANGED <<server, overtime, drv, aggregate, world, sent>>

\* _map_delivery_outcome, and the evidence that is judged invalid.
Outcome(report, valid) ==
  IF report = "verified" /\ valid THEN "succeeded"
  ELSE IF report \in NotStarted THEN "failed" ELSE "unknown"

\* settle_permit_on_result, once, whether or not the permit has expired.
Consumed(permit, report) ==
  IF report \notin WithPermit \/ permit \notin {"live", "expired"} THEN permit
  ELSE IF report \in NotStarted THEN "released" ELSE "settled"

\* apply_operation_result: a delivery that is over keeps its state; the answer may be lost.
ApplyResult(i) ==
  /\ op[i].dev \in Reports /\ op[i].attempt = "open"
  /\ \E valid \in BOOLEAN, dev \in {"over", op[i].dev} :
       LET outcome == Outcome(op[i].dev, valid) IN
       /\ IF dev = "over" THEN UNCHANGED faults ELSE Fault
       /\ op' = [op EXCEPT ![i] =
            [srv |-> outcome, dev |-> dev, permit |-> Consumed(op[i].permit, op[i].dev),
             attempt |-> IF op[i].dev \in MachineSafe THEN "safe" ELSE "done"]]
       /\ del' = [del EXCEPT ![i[1]] = IF @ \in Finished THEN @ ELSE outcome]
  /\ aggregate' = aggregate \union {"read"} /\ overtime' = overtime \ {i}
  /\ UNCHANGED <<run, outbox, reopened, drv, world, sent>>

\* No attempt yet, or one that is finished: refused for good, or only recorded.
ResultIgnored(i) ==
  /\ op[i].dev \in Reports /\ op[i].attempt # "open"
  /\ Device(i, "over")
  /\ UNCHANGED <<server, overtime, drv, aggregate, world, sent, faults>>

\* advance_run, after the commit of a result: what is unknown stops the rest.
AdvanceRead ==
  /\ "read" \in aggregate
  /\ LET rows == IF \E p \in Deliveries : del[p] = "unknown" THEN Skipped ELSE del
         verdict == Verdict(rows, FALSE, FALSE)
     IN /\ del' = rows
        /\ aggregate' = (aggregate \ {"read"})
                          \union (IF verdict = "none" THEN {} ELSE {verdict})
  /\ UNCHANGED <<run, outbox, reopened, op, overtime, drv, world, sent, faults>>

AdvanceFinish(verdict) ==
  /\ verdict \in aggregate /\ verdict # "read"
  /\ aggregate' = aggregate \ {verdict}
  /\ Finish(verdict)
  /\ UNCHANGED <<outbox, del, reopened, op, overtime, drv, world, sent, faults>>

AdvanceLost ==
  /\ aggregate # {}
  /\ Fault /\ aggregate' = {}
  /\ UNCHANGED <<server, op, overtime, drv, world, sent>>

-----------------------------------------------------------------------------
(* Time: leases, deadlines, and the sweeps that act on them. *)

\* Mutant of Lapsed: the sweep gives the reservation back.
LapsedReleased(permit) == "released"

\* expire_permits keeps the reservation.
Lapsed(permit) == "expired"

PermitExpires(i) ==
  /\ op[i].permit = "live"
  /\ op' = [op EXCEPT ![i].permit = Lapsed(@)]
  /\ UNCHANGED <<server, overtime, drv, aggregate, world, sent, faults>>

\* expire_stale_claims; a permit ends with the lease it was issued under.
ClaimExpires(i) ==
  /\ op[i].srv \in {"running", "cancelling"} /\ op[i].permit # "live"
  /\ op' = [op EXCEPT ![i].srv = "unknown"] /\ overtime' = overtime \ {i}
  /\ UNCHANGED <<server, drv, aggregate, world, sent, faults>>

\* deadline_at; a permit does not last longer.
Deadline(i) ==
  /\ op[i].srv \in UnderWay /\ op[i].permit # "live"
  /\ i \notin overtime /\ overtime' = overtime \union {i}
  /\ UNCHANGED <<server, op, drv, aggregate, world, sent, faults>>

LeaseExpires ==
  /\ run.leased
  /\ run' = [run EXCEPT !.leased = FALSE]
  /\ UNCHANGED <<outbox, del, reopened, op, overtime, drv, aggregate, world, sent, faults>>

\* runs_reclaim_tick
Reclaim ==
  /\ run.state = "running" /\ ~run.leased
  /\ del' = Expired
  /\ Finish(IF Expired = [p \in Deliveries |-> "none"] THEN "failed"
            ELSE Else(Verdict(Expired, FALSE, TRUE), "unknown"))
  /\ UNCHANGED <<outbox, reopened, op, overtime, drv, aggregate, world, sent, faults>>

Overdue ==
  /\ ~overdue /\ overdue' = TRUE
  /\ UNCHANGED <<server, op, overtime, drv, aggregate, authorized, sent, faults>>

-----------------------------------------------------------------------------
Drive(d) ==
  \/ ClaimEntry(d) \/ Poison(d) \/ ClaimRun(d) \/ PassEntry(d) \/ CloseEntry(d) \/ Requeue(d)
  \/ Prepare(d) \/ InsertDeliveries(d) \/ Pick(d) \/ Check(d) \/ Enqueue(d) \/ Dispatch(d)
  \/ Abandon(d) \/ DriveRunning(d)

User == Cancel \/ Pause \/ Publish \/ \E p \in Deliveries : Retry(p)

Runtime(i) ==
  \/ Claim(i) \/ Authorize(i) \/ Decline(i) \/ Withdraw(i) \/ Act(i) \/ Conclude(i)
  \/ DeviceCrash(i)

Results ==
  \/ \E i \in Ops : ApplyResult(i) \/ ResultIgnored(i)
  \/ AdvanceRead \/ AdvanceLost \/ \E verdict \in Terminal : AdvanceFinish(verdict)

Clock(i) == PermitExpires(i) \/ ClaimExpires(i) \/ Deadline(i)

Next ==
  \/ \E d \in Drivers : Drive(d) \/ Crash(d)
  \/ User
  \/ \E i \in Ops : Runtime(i) \/ Clock(i)
  \/ Results
  \/ LeaseExpires \/ Reclaim \/ Overdue

Spec == Init /\ [][Next]_vars

-----------------------------------------------------------------------------
(* Properties. *)

Rows == {"none", "pending", "dispatched", "started"} \union Finished
Invocations == [srv : {"none", "queued", "running", "cancelling"} \union Settled,
                attempt : {"none", "open", "safe", "done"},
                permit : {"none", "live", "expired", "settled", "released"},
                dev : {"idle", "working", "permitted", "acted", "over"} \union Reports]
Memory == [pc : {"idle", "entry", "prepare", "insert", "pick", "check", "enqueue", "attempt",
                 "abandon", "close"},
           p : {0} \union Deliveries, n : Nat, entry : BOOLEAN,
           reason : {"none", "revoked", "deadline", "refused", "payload"}]

\* Type correctness of the rows, the device's work and the memory of the drivers.
TypeOK ==
  /\ run \in [state : {"pending", "running"} \union Terminal, leased : BOOLEAN]
  /\ outbox \in [state : {"pending", "processing", "done"}, attempts : Nat]
  /\ del \in [Deliveries -> Rows] /\ reopened \subseteq Deliveries
  /\ op \in [Ops -> Invocations] /\ overtime \subseteq Ops
  /\ drv \in [Drivers -> Memory] /\ aggregate \subseteq {"read"} \union Terminal
  /\ authorized \in BOOLEAN /\ overdue \in BOOLEAN
  /\ sent \in [Deliveries -> Nat] /\ faults \in 0..MaxFaults

\* No message is sent twice, whatever crashed, was lost, cancelled or retried.
SentOnce == \A p \in Deliveries : sent[p] <= 1

\* An invocation that no attempt knows has had a permit: its retry was lost between the two.
Stray(p) == \E n \in 1..N : op[<<p, n>>].attempt = "none" /\ op[<<p, n>>].permit # "none"

\* However often it is retried, a message is sent at most once by the invocations of its
\* attempts: only a stray one can send it again.
AttemptsSendOnce == \A p \in Deliveries : Stray(p) \/ sent[p] <= 1

\* A message is sent only when all before it are known to have been sent.
InOrder == \A p, q \in Deliveries : p < q /\ sent[q] > 0 => del[p] = "succeeded"

\* What the user is told was not sent was not sent, unless a stray invocation sent it.
NotSentHolds ==
  \A p \in Deliveries :
    del[p] \in {"none", "pending", "skipped", "expired", "failed"} => Stray(p) \/ sent[p] = 0

\* A run that succeeded sent every message; a run that expired sent nothing before it was retried.
VerdictHolds ==
  /\ run.state = "succeeded" => \A p \in Deliveries : sent[p] > 0
  /\ run.state = "expired" => \A p \in Deliveries : sent[p] > 0 => p \in reopened

\* Every message that was sent is charged: never more messages than the quota.
Charged == \A p \in Deliveries : sent[p] > 0 => \E n \in 1..N : op[<<p, n>>].permit
                                                     \in {"live", "expired", "settled"}

FairSpec ==
  /\ Spec
  /\ \A d \in Drivers : WF_vars(Drive(d))
  /\ WF_vars(\E i \in Ops : PermitExpires(i) \/ Deadline(i))
  /\ WF_vars(LeaseExpires) /\ WF_vars(Reclaim)

\* A run ends, although drivers crash, devices fall silent and answers are lost.
RunEnds == <>(run.state \in Terminal)

=============================================================================
