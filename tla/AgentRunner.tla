----------------------------- MODULE AgentRunner -----------------------------
(***************************************************************************)
(* The durable AgentRunner of src/src/services/agent_runner: rows of the   *)
(* PostgreSQL table agent_runners, the per-session claims, the controls a   *)
(* user submits, and the worker coroutines that execute attempts.          *)
(*                                                                         *)
(* Every action on the tables is one database transaction under the row    *)
(* lock of lock_runner, so it is atomic here.  What a worker remembers     *)
(* between two transactions (its Attempt, the revision it last saw, the    *)
(* cancel and pause flags, a prepared recovery) is kept in its own         *)
(* variables and may be stale when the next transaction runs.              *)
(***************************************************************************)
EXTENDS Naturals, FiniteSets

CONSTANTS
  Runners,              \* runner ids; a runner's id is its queue_order
  Sessions,             \* (scope_key, session_kind, session_id)
  SessionOf,            \* the session each runner is submitted to
  Workers,              \* worker processes
  Slots,                \* execute() coroutines, config.concurrency per worker
  WorkerOf,             \* the worker a coroutine belongs to
  Controls,             \* control ids
  Continuous,           \* runners accepted with execution_mode 'continuous'
  WecomTasks,           \* runners bound to a device: wecom_task_device, version 2
  FinalizeMaxFailures,  \* AgentRunnerFinalizer.FINALIZE_MAX_FAILURES (5 in the code)
  MaxFaults,            \* bound: crashes, stalls, exceptions, back-offs
  MaxRevision,          \* bound: no checkpoint is saved past this revision
  NoRunner, NoWorker, NoControl

ASSUME ConstantsAssumption ==
  /\ Runners \subseteq Nat
  /\ SessionOf \in [Runners -> Sessions]
  /\ WorkerOf \in [Slots -> Workers]
  /\ Continuous \subseteq Runners /\ WecomTasks \subseteq Runners
  /\ FinalizeMaxFailures \in Nat \ {0}
  /\ MaxFaults \in Nat /\ MaxRevision \in Nat
  /\ NoRunner \notin Runners /\ NoWorker \notin Workers /\ NoControl \notin Controls

VARIABLES
  row,          \* agent_runners, by runner id
  claim,        \* agent_runner_session_claims, the owner of each session
  control,      \* agent_runner_controls, by control id
  effect,       \* what is known of each runner's operation on the user's desktop
  task,         \* what each coroutine holds in memory
  prepared,     \* the recovery each worker read and prepared outside a transaction
  faults        \* how much of MaxFaults is used

vars == <<row, claim, control, effect, task, prepared, faults>>

Parked == {"waiting", "paused", "interrupted"}
Executing == {"running", "finalizing"}
Terminal == {"completed", "failed", "cancelled"}
Statuses == {"absent", "queued"} \union Parked \union Executing \union Terminal
Active(r) == row[r].status \in Parked \union Executing

NoBlock == [attempt |-> 0, revision |-> 0, ready |-> FALSE]
NewRow == [status |-> "absent", attempt |-> 0, worker |-> NoWorker, lease |-> "none",
           revision |-> 0, controlRevision |-> 0, cancel |-> FALSE, pause |-> FALSE,
           resume |-> NoControl, cancelOnly |-> FALSE, pending |-> "none", blocked |-> NoBlock,
           detached |-> FALSE, failures |-> 0, abandoned |-> FALSE, held |-> FALSE]
NewControl == [runner |-> NoRunner, action |-> "none", status |-> "none", attempt |-> 0]
Idle == [pc |-> "idle", runner |-> NoRunner, attempt |-> 0, revision |-> 0,
         cancel |-> FALSE, pause |-> FALSE, finalizer |-> FALSE]
NoPrepared == [kind |-> "none", runner |-> NoRunner, revision |-> 0, controlRevision |-> 0,
               control |-> NoControl]

Init ==
  /\ row = [r \in Runners |-> NewRow]
  /\ claim = [s \in Sessions |-> NoRunner]
  /\ control = [c \in Controls |-> NewControl]
  /\ effect = [r \in Runners |-> "known"]
  /\ task = [k \in Slots |-> Idle]
  /\ prepared = [w \in Workers |-> NoPrepared]
  /\ faults = 0

-----------------------------------------------------------------------------
(* What the transactions share. *)

\* Mutant of Owns: the fence knows the worker and not the attempt.
OwnsByWorker(k) ==
  /\ task[k].pc # "idle"
  /\ row[task[k].runner].worker = WorkerOf[k]
  /\ row[task[k].runner].lease = "live"
  /\ row[task[k].runner].status \in Executing

\* lock_runner with an attempt: the fence every write of a worker passes.
Owns(k) ==
  /\ task[k].pc # "idle"
  /\ LET d == row[task[k].runner] IN
       /\ d.attempt = task[k].attempt
       /\ d.worker = WorkerOf[k]
       /\ d.lease = "live"
       /\ d.status \in Executing

InStep(k) == task[k].revision = row[task[k].runner].revision

\* Mutant of ClosedControls: only the resumes are closed.
ClosedResumes(r) ==
  [c \in Controls |-> IF /\ control[c].runner = r /\ control[c].status = "accepted"
                         /\ control[c].action = "resume"
                      THEN [control[c] EXCEPT !.status = "rejected"] ELSE control[c]]

\* close_pending_controls; the status 'claimed' is never written.
ClosedControls(r) ==
  [c \in Controls |-> IF control[c].runner = r /\ control[c].status = "accepted"
                      THEN [control[c] EXCEPT !.status = "rejected"] ELSE control[c]]

ConsumedPauses(r) ==
  [c \in Controls |-> IF /\ control[c].runner = r /\ control[c].status = "accepted"
                         /\ control[c].action = "pause"
                      THEN [control[c] EXCEPT !.status = "consumed", !.attempt = row[r].attempt]
                      ELSE control[c]]

ClaimedBy(r) == claim[SessionOf[r]] = r

\* The claim is deleted by the transaction that ends its runner.
Unclaimed(r) == [claim EXCEPT ![SessionOf[r]] = NoRunner]

\* Mutant of LeaseFree: an expired lease is never taken over.
LeaseNull(r) == row[r].lease = "none"

\* The execution lease lapsed or was never taken.
LeaseFree(r) == row[r].lease # "live"

\* An attempt starts: number, owner, lease and revision move in one update.
Started(r, k) ==
  [row[r] EXCEPT !.attempt = @ + 1, !.worker = WorkerOf[k], !.lease = "live", !.revision = @ + 1]

\* The execution authority is given up in the update that changes the status.
Released(r, status) ==
  [row[r] EXCEPT !.status = status, !.worker = NoWorker, !.lease = "none", !.revision = @ + 1]

\* execute(row): DurableControl copies revision and flags out of the acquired row.
Begun(r, k, d, pc) ==
  [task EXCEPT ![k] = [pc |-> pc, runner |-> r, attempt |-> d.attempt, revision |-> d.revision,
                       cancel |-> d.cancel, pause |-> d.pause,
                       finalizer |-> d.status = "finalizing"]]

Done(k) == [task EXCEPT ![k] = Idle]

\* Mutant of CancelComplete: nobody waits for the operations on the desktop.
CancelAssumed(r) == TRUE

\* cancel_completion_status: the operation is known to have ended, or nobody waits any more
\* for one that is unknown.
CancelComplete(r) == effect[r] = "known" \/ (row[r].detached /\ effect[r] = "unknown")

-----------------------------------------------------------------------------
(* API: submit, cancel, controls, end of a local wait. *)

\* The sequence hands out queue_order before commit, so rows may appear in any order.
Submit(r) ==
  /\ row[r].status = "absent"
  /\ row' = [row EXCEPT ![r] = [row[r] EXCEPT !.status = "queued"]]
  /\ UNCHANGED <<claim, control, effect, task, prepared, faults>>

\* Only the cancellation of a queued runner, which ends it, moves the execution revision.
CancelRevision(r) == IF row[r].status = "queued" THEN row[r].revision + 1 ELSE row[r].revision

\* A repeated cancellation, or that of a runner that is over, changes nothing.
Cancel(r) ==
  /\ row[r].status \notin {"absent"} \union Terminal
  /\ ~row[r].cancel
  /\ row' = [row EXCEPT ![r] =
        [row[r] EXCEPT !.status = IF row[r].status = "queued" THEN "cancelled" ELSE row[r].status,
                       !.revision = CancelRevision(r), !.controlRevision = @ + 1,
                       !.cancel = TRUE, !.pause = FALSE, !.resume = NoControl]]
  /\ control' = ClosedControls(r)
  /\ UNCHANGED <<claim, effect, task, prepared, faults>>

\* Mutant of Superseded: the resume a pause replaces stays accepted.
NotSuperseded(r) == control

\* The pending resume a pause replaces is rejected.
Superseded(r) ==
  [i \in Controls |-> IF i = row[r].resume /\ control[i].status = "accepted"
                      THEN [control[i] EXCEPT !.status = "rejected"] ELSE control[i]]

\* A parked runner consumes a pause at once.
SubmitPause(r, c) ==
  /\ control[c].status = "none"
  /\ row[r].status \in {"queued", "running"} \union Parked
  /\ ~row[r].cancel
  /\ control' = [Superseded(r) EXCEPT ![c] =
        [runner |-> r, action |-> "pause", attempt |-> 0,
         status |-> IF row[r].status \in Parked THEN "consumed" ELSE "accepted"]]
  /\ row' = [row EXCEPT ![r] =
        [row[r] EXCEPT !.pause = TRUE, !.resume = NoControl, !.controlRevision = @ + 1]]
  /\ UNCHANGED <<claim, effect, task, prepared, faults>>

\* resume, reply and browser_complete: one pending continuation per parked runner.
SubmitResume(r, c) ==
  /\ control[c].status = "none"
  /\ row[r].status \in Parked
  /\ ~row[r].cancel
  /\ row[r].resume = NoControl
  /\ control' = [control EXCEPT ![c] = [runner |-> r, action |-> "resume", status |-> "accepted",
                                        attempt |-> 0]]
  /\ row' = [row EXCEPT ![r] = [row[r] EXCEPT !.resume = c, !.controlRevision = @ + 1]]
  /\ UNCHANGED <<claim, effect, task, prepared, faults>>

\* end_waiting: the user gives up waiting for an operation whose effect is unknown.
EndWaiting(r) ==
  /\ row[r].status \in Parked
  /\ row[r].worker = NoWorker /\ row[r].lease = "none"
  /\ row[r].pending = "none"
  /\ ~row[r].detached
  /\ effect[r] = "unknown"
  /\ row' = [row EXCEPT ![r] =
        [row[r] EXCEPT !.detached = TRUE, !.blocked = NoBlock, !.cancel = TRUE, !.pause = FALSE,
                  !.resume = NoControl, !.revision = @ + 1, !.controlRevision = @ + 1]]
  /\ control' = ClosedControls(r)
  /\ UNCHANGED <<claim, effect, task, prepared, faults>>

-----------------------------------------------------------------------------
(* Acquisition: a queued runner, a finalization to retry, a parked runner to cancel. *)

Oldest(r) ==
  \A q \in Runners : SessionOf[q] = SessionOf[r] /\ row[q].status = "queued" => r <= q

\* Mutants of Available: the session's owner, or the session's order, is not looked at.
OldestQueued(r) == row[r].status = "queued" /\ Oldest(r)
AnyQueued(r) == row[r].status = "queued" /\ claim[SessionOf[r]] = NoRunner

\* The oldest queued runner of a session nobody owns.
Available(r) == row[r].status = "queued" /\ claim[SessionOf[r]] = NoRunner /\ Oldest(r)

AcquireQueued(r, k) ==
  /\ task[k].pc = "idle"
  /\ Available(r)
  /\ claim' = [claim EXCEPT ![SessionOf[r]] = r]
  /\ LET d == [Started(r, k) EXCEPT !.status = "running"] IN
       /\ row' = [row EXCEPT ![r] = d]
       /\ task' = Begun(r, k, d, IF d.pause THEN "unstarted" ELSE "run")
  /\ UNCHANGED <<control, effect, prepared, faults>>

AcquireFinalizing(r, k) ==
  /\ task[k].pc = "idle"
  /\ row[r].status = "finalizing"
  /\ LeaseFree(r) /\ ClaimedBy(r)
  /\ LET d == Started(r, k) IN
       /\ row' = [row EXCEPT ![r] = d]
       /\ task' = Begun(r, k, d, IF d.pending = "none" THEN "cancel" ELSE "final")
  /\ UNCHANGED <<claim, control, effect, prepared, faults>>

AcquireCancelled(r, k) ==
  /\ task[k].pc = "idle"
  /\ row[r].status \in Parked
  /\ row[r].cancel
  /\ row[r].blocked = NoBlock \/ row[r].blocked.ready
  /\ LeaseFree(r) /\ ClaimedBy(r)
  /\ LET d == [Started(r, k) EXCEPT !.status = "finalizing", !.cancelOnly = TRUE,
                                    !.blocked = NoBlock] IN
       /\ row' = [row EXCEPT ![r] = d]
       /\ task' = Begun(r, k, d, "cancel")
  /\ UNCHANGED <<claim, control, effect, prepared, faults>>

-----------------------------------------------------------------------------
(* Recovery of a parked runner: read and prepare, then a short CAS. *)

Prepare(w, r, kind) ==
  prepared' = [prepared EXCEPT ![w] =
      [kind |-> kind, runner |-> r, revision |-> row[r].revision,
       controlRevision |-> row[r].controlRevision, control |-> row[r].resume]]

PrepareResume(w, r) ==
  /\ prepared[w].kind = "none"
  /\ row[r].status \in Parked /\ ~row[r].cancel /\ row[r].resume # NoControl
  /\ LeaseFree(r) /\ ClaimedBy(r)
  /\ Prepare(w, r, "resume")
  /\ UNCHANGED <<row, claim, control, effect, task, faults>>

\* Mutant of ContinuousCandidate: the mode the runner was accepted with is not looked at.
AnyInterrupted(r) ==
  /\ row[r].status = "interrupted"
  /\ ~row[r].cancel /\ ~row[r].pause /\ row[r].resume = NoControl
  /\ row[r].pending = "none" /\ ~row[r].held

\* interrupted_candidate
ContinuousCandidate(r) ==
  /\ r \in Continuous
  /\ row[r].status = "interrupted"
  /\ ~row[r].cancel /\ ~row[r].pause /\ row[r].resume = NoControl
  /\ row[r].pending = "none" /\ ~row[r].held

PrepareContinuous(w, r) ==
  /\ prepared[w].kind = "none"
  /\ ContinuousCandidate(r)
  /\ LeaseFree(r) /\ ClaimedBy(r)
  /\ Prepare(w, r, "continuous")
  /\ UNCHANGED <<row, claim, control, effect, task, faults>>

\* The conditions claim_resume, reject_resume and hold_resume recheck under the lock.
ResumeCurrent(p) ==
  /\ p.kind = "resume"
  /\ row[p.runner].status \in Parked /\ ~row[p.runner].cancel
  /\ LeaseFree(p.runner)
  /\ row[p.runner].revision = p.revision
  /\ row[p.runner].resume = p.control

\* Mutants of ContinuousCurrent: the commands, or the attempts, since the read are missed.
SameExecution(p) ==
  /\ p.kind = "continuous"
  /\ row[p.runner].status \in Parked /\ LeaseFree(p.runner)
  /\ row[p.runner].revision = p.revision
SameCommands(p) ==
  /\ p.kind = "continuous"
  /\ row[p.runner].controlRevision = p.controlRevision

ContinuousCurrent(p) ==
  /\ p.kind = "continuous"
  /\ ContinuousCandidate(p.runner)
  /\ LeaseFree(p.runner)
  /\ row[p.runner].revision = p.revision
  /\ row[p.runner].controlRevision = p.controlRevision

ClaimResume(k) ==
  LET p == prepared[WorkerOf[k]]  r == p.runner IN
  /\ task[k].pc = "idle"
  /\ ResumeCurrent(p)
  /\ ClaimedBy(r)
  /\ control[p.control].runner = r /\ control[p.control].status = "accepted"
  /\ control[p.control].action = "resume"
  /\ row[r].pending = "none"
  /\ LET d == [Started(r, k) EXCEPT !.status = "running", !.pause = FALSE, !.resume = NoControl,
                                    !.controlRevision = @ + 1, !.held = FALSE] IN
       /\ row' = [row EXCEPT ![r] = d]
       /\ control' = [control EXCEPT ![p.control] =
                         [control[p.control] EXCEPT !.status = "consumed", !.attempt = d.attempt]]
       /\ task' = Begun(r, k, d, "run")
  /\ prepared' = [prepared EXCEPT ![WorkerOf[k]] = NoPrepared]
  /\ UNCHANGED <<claim, effect, faults>>

\* Authorization or recovery preparation refused the command for good.
RejectResume(w) ==
  LET p == prepared[w]  r == p.runner IN
  /\ ResumeCurrent(p)
  /\ ClaimedBy(r)
  /\ control[p.control].runner = r /\ control[p.control].status = "accepted"
  /\ control' = [control EXCEPT ![p.control].status = "rejected"]
  /\ row' = [row EXCEPT ![r] = [row[r] EXCEPT !.resume = NoControl, !.controlRevision = @ + 1]]
  /\ prepared' = [prepared EXCEPT ![w] = NoPrepared]
  /\ UNCHANGED <<claim, effect, task, faults>>

ClaimContinuous(k) ==
  LET p == prepared[WorkerOf[k]]  r == p.runner IN
  /\ task[k].pc = "idle"
  /\ ContinuousCurrent(p)
  /\ ClaimedBy(r)
  /\ LET d == [Started(r, k) EXCEPT !.status = "running"] IN
       /\ row' = [row EXCEPT ![r] = d]
       /\ task' = Begun(r, k, d, "run")
  /\ prepared' = [prepared EXCEPT ![WorkerOf[k]] = NoPrepared]
  /\ UNCHANGED <<claim, control, effect, faults>>

\* A permanent refusal holds the runner for its user; a temporary one is retried later.
DeferContinuous(w, permanent) ==
  LET p == prepared[w] IN
  /\ ContinuousCurrent(p)
  /\ permanent \/ faults < MaxFaults
  /\ faults' = IF permanent THEN faults ELSE faults + 1
  /\ row' = [row EXCEPT ![p.runner] = [row[p.runner] EXCEPT !.held = permanent, !.revision = @ + 1]]
  /\ prepared' = [prepared EXCEPT ![w] = NoPrepared]
  /\ UNCHANGED <<claim, control, effect, task>>

\* The row moved on (claim returns None), or the source is only held: nothing is written.
DropPrepared(w) ==
  /\ prepared[w].kind # "none"
  /\ ~ResumeCurrent(prepared[w]) /\ ~ContinuousCurrent(prepared[w])
  /\ prepared' = [prepared EXCEPT ![w] = NoPrepared]
  /\ UNCHANGED <<row, claim, control, effect, task, faults>>

-----------------------------------------------------------------------------
(* The steps of a coroutine that owns its attempt. *)

\* _heartbeat: the lease is extended and the flags of the row reach memory.
Heartbeat(k) ==
  /\ task[k].pc # "failed"
  /\ Owns(k)
  /\ task' = [task EXCEPT ![k] = [task[k] EXCEPT !.cancel = row[task[k].runner].cancel,
                                           !.pause = row[task[k].runner].pause]]
  /\ UNCHANGED <<row, claim, control, effect, prepared, faults>>

\* Any fenced call of a coroutine whose attempt is over, or whose revision is not the row's.
LoseLease(k) ==
  /\ task[k].pc \notin {"idle", "failed"}
  /\ ~(Owns(k) /\ InStep(k))
  /\ task' = Done(k)
  /\ UNCHANGED <<row, claim, control, effect, prepared, faults>>

\* save_checkpoint outside a dispatch boundary: not stopped by a pending command.
Checkpoint(k) ==
  LET r == task[k].runner IN
  /\ task[k].pc = "run"
  /\ Owns(k) /\ InStep(k)
  /\ row[r].status = "running"
  /\ row[r].revision < MaxRevision
  /\ row' = [row EXCEPT ![r] = [row[r] EXCEPT !.revision = @ + 1]]
  /\ task' = [task EXCEPT ![k] = [task[k] EXCEPT !.revision = @ + 1, !.cancel = row[r].cancel,
                                           !.pause = row[r].pause]]
  /\ UNCHANGED <<claim, control, effect, prepared, faults>>

\* save_checkpoint(dispatch=True) at before_tool: the intent commits with the command fence.
Dispatch(k) ==
  LET r == task[k].runner IN
  /\ task[k].pc = "run"
  /\ Owns(k) /\ InStep(k)
  /\ row[r].status = "running"
  /\ ~row[r].cancel /\ ~row[r].pause
  /\ effect[r] = "known"
  /\ row[r].revision < MaxRevision
  /\ row' = [row EXCEPT ![r] = [row[r] EXCEPT !.revision = @ + 1]]
  /\ effect' = [effect EXCEPT ![r] = "pending"]
  /\ task' = [task EXCEPT ![k] =
        [task[k] EXCEPT !.revision = @ + 1, !.cancel = FALSE, !.pause = FALSE]]
  /\ UNCHANGED <<claim, control, prepared, faults>>

\* The fence refuses the dispatch: StopRequested tells memory, nothing is saved.
DispatchRefused(k) ==
  LET r == task[k].runner IN
  /\ task[k].pc = "run"
  /\ Owns(k)
  /\ row[r].status = "running"
  /\ row[r].cancel \/ row[r].pause
  /\ task' = [task EXCEPT ![k] = [task[k] EXCEPT !.cancel = row[r].cancel, !.pause = ~row[r].cancel]]
  /\ UNCHANGED <<row, claim, control, effect, prepared, faults>>

\* The desktop reports what became of the operation, whoever runs the runner now.
EffectKnown(r) ==
  /\ effect[r] # "known"
  /\ effect' = [effect EXCEPT ![r] = "known"]
  /\ UNCHANGED <<row, claim, control, task, prepared, faults>>

\* The device stopped answering: what the operation did has to be verified.
EffectLost(r) ==
  /\ effect[r] = "pending"
  /\ effect' = [effect EXCEPT ![r] = "unknown"]
  /\ UNCHANGED <<row, claim, control, task, prepared, faults>>

\* The engine stopped at a wait; memory holds no command of the user.
ParkWaiting(k) ==
  LET r == task[k].runner IN
  /\ task[k].pc = "run" /\ ~task[k].cancel /\ ~task[k].pause
  /\ Owns(k) /\ InStep(k)
  /\ row[r].status = "running"
  /\ row' = [row EXCEPT ![r] = Released(r, "waiting")]
  /\ task' = Done(k)
  /\ UNCHANGED <<claim, control, effect, prepared, faults>>

\* park(paused) for a lack of credit or permission: a concurrent pause is consumed, and
\* under a concurrent cancellation every control is closed.
ParkPaused(k) ==
  LET r == task[k].runner IN
  /\ task[k].pc = "run" /\ ~task[k].cancel
  /\ Owns(k) /\ InStep(k)
  /\ row[r].status = "running"
  /\ row' = [row EXCEPT ![r] = Released(r, "paused")]
  /\ control' = IF row[r].cancel THEN ClosedControls(r)
                ELSE IF row[r].pause THEN ConsumedPauses(r) ELSE control
  /\ task' = Done(k)
  /\ UNCHANGED <<claim, effect, prepared, faults>>

\* execute() pauses: asked before its row was acquired, or told through memory.
Pausing(k) ==
  \/ task[k].pc = "unstarted"
  \/ task[k].pc = "run" /\ task[k].pause /\ ~task[k].cancel

\* acknowledge_pause, before anything started or once the whole tree stopped safely.
AcknowledgePause(k) ==
  LET r == task[k].runner IN
  /\ Pausing(k)
  /\ Owns(k) /\ InStep(k)
  /\ row[r].status = "running" /\ row[r].pause /\ ~row[r].cancel
  /\ ClaimedBy(r)
  /\ row' = [row EXCEPT ![r] = Released(r, "paused")]
  /\ control' = ConsumedPauses(r)
  /\ task' = Done(k)
  /\ UNCHANGED <<claim, effect, prepared, faults>>

\* A cancellation committed first: StopRequested is an authoritative failure, so the
\* handler of execute() interrupts the attempt and never stages a result.
AcknowledgeRefused(k) ==
  LET r == task[k].runner IN
  /\ Pausing(k)
  /\ Owns(k)
  /\ row[r].status = "running" /\ row[r].cancel
  /\ row' = [row EXCEPT ![r] = Released(r, "interrupted")]
  /\ task' = Done(k)
  /\ UNCHANGED <<claim, control, effect, prepared, faults>>

\* stage_finalization: the terminal intent and the status 'finalizing' commit together.
Stage(k, result) ==
  LET r == task[k].runner IN
  /\ Owns(k) /\ InStep(k)
  /\ row[r].pending = "none"
  /\ row[r].status = "finalizing" => row[r].cancelOnly /\ result = "cancelled"
  /\ row' = [row EXCEPT ![r] =
        [row[r] EXCEPT !.status = "finalizing", !.pending = result, !.revision = @ + 1]]
  /\ task' = [task EXCEPT ![k] = [task[k] EXCEPT !.pc = "final", !.revision = @ + 1]]
  /\ UNCHANGED <<claim, control, effect, prepared, faults>>

\* The engine completed, or a RunnerError ended it whatever memory holds.
StageResult(k) ==
  /\ task[k].pc = "run"
  /\ \/ Stage(k, "completed") /\ ~task[k].cancel /\ ~task[k].pause
     \/ Stage(k, "failed")

\* _await_cancel_completion: the operation ended, or the runner waits for it unowned.
Cancelling(k) == task[k].pc = "cancel" \/ (task[k].pc = "run" /\ task[k].cancel)

StageCancelled(k) ==
  /\ Cancelling(k)
  /\ row[task[k].runner].cancel
  /\ CancelComplete(task[k].runner)
  /\ Stage(k, "cancelled")

\* The cancellation of a device task gives up an operation that is unknown: the conversation
\* goes on, and the device stays held for the operation.
Detaching(r) == r \in WecomTasks /\ effect[r] = "unknown" /\ ~row[r].detached

DetachWait(k) ==
  LET r == task[k].runner IN
  /\ Cancelling(k)
  /\ Owns(k)
  /\ row[r].cancel
  /\ Detaching(r)
  /\ row' = [row EXCEPT ![r] = [row[r] EXCEPT !.detached = TRUE, !.revision = @ + 1]]
  /\ task' = [task EXCEPT ![k] = [task[k] EXCEPT !.revision = row[r].revision + 1]]
  /\ UNCHANGED <<claim, control, effect, prepared, faults>>

\* The facts collected do not let the cancellation complete; by the time block_cancel
\* commits they may.
CancelUnconfirmed(k) ==
  LET r == task[k].runner IN
  /\ Cancelling(k)
  /\ Owns(k)
  /\ row[r].cancel
  /\ ~CancelComplete(r) /\ ~Detaching(r)
  /\ task' = [task EXCEPT ![k] = [task[k] EXCEPT !.pc = "hold"]]
  /\ UNCHANGED <<row, claim, control, effect, prepared, faults>>

\* Mutant of BlockMarker: the revision is the one before the runner is parked.
EarlyMarker(r, d) == [attempt |-> d.attempt, revision |-> row[r].revision, ready |-> FALSE]

\* The marker names the parked row d, so that a later attempt of r cannot be released by it.
BlockMarker(r, d) == [attempt |-> d.attempt, revision |-> d.revision, ready |-> FALSE]

BlockCancel(k) ==
  LET r == task[k].runner IN
  /\ task[k].pc = "hold"
  /\ Owns(k)
  /\ row[r].cancel /\ row[r].pending = "none"
  /\ row[r].status = "finalizing" => row[r].cancelOnly
  /\ LET d == Released(r, "waiting") IN
       row' = [row EXCEPT ![r] = [d EXCEPT !.cancelOnly = TRUE, !.blocked = BlockMarker(r, d)]]
  /\ task' = Done(k)
  /\ UNCHANGED <<claim, control, effect, prepared, faults>>

\* Mutant of Verdict: a cancellation requested meanwhile decides.
CancelDecides(r) == IF row[r].cancel THEN "cancelled" ELSE row[r].pending

\* The committed intent decides, whatever the flags of the row say by now.
Verdict(r) == row[r].pending

\* Terminal status, claim, controls, lease and settlement in one transaction.
Finalize(k) ==
  LET r == task[k].runner IN
  /\ task[k].pc = "final"
  /\ Owns(k)
  /\ row[r].status = "finalizing" /\ row[r].pending # "none"
  /\ ClaimedBy(r)
  /\ claim' = Unclaimed(r)
  /\ control' = ClosedControls(r)
  /\ row' = [row EXCEPT ![r] =
        [Released(r, Verdict(r)) EXCEPT !.pause = FALSE, !.resume = NoControl]]
  /\ task' = Done(k)
  /\ UNCHANGED <<effect, prepared, faults>>

-----------------------------------------------------------------------------
(* Failure: exceptions, crashes, stalls; what the next owner starts from. *)

\* An exception, a shutdown or an unsafe stop: execute() enters its handlers.
Raise(k) ==
  /\ task[k].pc \notin {"idle", "failed"}
  /\ faults < MaxFaults
  /\ faults' = faults + 1
  /\ task' = [task EXCEPT ![k] = [task[k] EXCEPT !.pc = "failed"]]
  /\ UNCHANGED <<row, claim, control, effect, prepared>>

\* interrupt_attempt: the last committed checkpoint is kept, a finalizing row is left alone.
FailInterrupt(k) ==
  LET r == task[k].runner IN
  /\ task[k].pc = "failed"
  /\ Owns(k) /\ row[r].status = "running"
  /\ row' = [row EXCEPT ![r] = Released(r, "interrupted")]
  /\ task' = Done(k)
  /\ UNCHANGED <<claim, control, effect, prepared, faults>>

\* An ordinary exception of a running attempt with no live child is its result.
FailStage(k) ==
  /\ task[k].pc = "failed" /\ ~task[k].finalizer
  /\ row[task[k].runner].status = "running"
  /\ Stage(k, "failed")

\* finalize_failed: count the failure, the worker stops and the lease runs out ...
FinalizeRetry(k) ==
  LET r == task[k].runner IN
  /\ task[k].pc = "failed"
  /\ Owns(k) /\ row[r].status = "finalizing"
  /\ row[r].failures + 1 < FinalizeMaxFailures
  /\ row' = [row EXCEPT ![r] = [row[r] EXCEPT !.failures = @ + 1, !.revision = @ + 1]]
  /\ task' = Done(k)
  /\ UNCHANGED <<claim, control, effect, prepared, faults>>

AbandonStatus(r) == IF row[r].pending = "cancelled" THEN "cancelled" ELSE "failed"

\* ... or, for good or at the limit, _abandon to a terminal status.
Abandon(k) ==
  LET r == task[k].runner IN
  /\ task[k].pc = "failed"
  /\ Owns(k) /\ row[r].status = "finalizing"
  /\ row[r].pending # "none" \/ row[r].failures + 1 >= FinalizeMaxFailures
  /\ claim' = [s \in Sessions |-> IF claim[s] = r THEN NoRunner ELSE claim[s]]
  /\ control' = ClosedControls(r)
  /\ row' = [row EXCEPT ![r] =
        [Released(r, AbandonStatus(r)) EXCEPT !.pause = FALSE, !.resume = NoControl,
                                              !.abandoned = TRUE]]
  /\ task' = Done(k)
  /\ UNCHANGED <<effect, prepared, faults>>

\* The handler itself fails, is fenced, or leaves a staged row to the next lease.
GiveUp(k) ==
  /\ task[k].pc = "failed"
  /\ task' = Done(k)
  /\ UNCHANGED <<row, claim, control, effect, prepared, faults>>

Crash(w) ==
  /\ faults < MaxFaults
  /\ \E k \in Slots : WorkerOf[k] = w /\ task[k].pc # "idle"
  /\ faults' = faults + 1
  /\ task' = [k \in Slots |-> IF WorkerOf[k] = w THEN Idle ELSE task[k]]
  /\ prepared' = [prepared EXCEPT ![w] = NoPrepared]
  /\ UNCHANGED <<row, claim, control, effect>>

\* A lease nobody renews runs out ...
ExpireLease(r) ==
  /\ row[r].lease = "live"
  /\ \A k \in Slots : ~(Owns(k) /\ task[k].runner = r)
  /\ row' = [row EXCEPT ![r] = [row[r] EXCEPT !.lease = "expired"]]
  /\ UNCHANGED <<claim, control, effect, task, prepared, faults>>

\* ... and so does that of a coroutine that stalls past it.
Stall(k) ==
  /\ Owns(k)
  /\ faults < MaxFaults
  /\ faults' = faults + 1
  /\ row' = [row EXCEPT ![task[k].runner] = [row[task[k].runner] EXCEPT !.lease = "expired"]]
  /\ UNCHANGED <<claim, control, effect, task, prepared>>

\* Mutant of ReapExpired: a cancelled runner is left to its worker.
ReapUncancelled(r) ==
  /\ row[r].status = "running" /\ ~row[r].cancel
  /\ row[r].lease = "expired"
  /\ row' = [row EXCEPT ![r] = Released(r, "interrupted")]
  /\ UNCHANGED <<claim, control, effect, task, prepared, faults>>

\* reap_expired: never replayed from the beginning, the claim stays.
ReapExpired(r) ==
  /\ row[r].status = "running"
  /\ row[r].lease = "expired"
  /\ row' = [row EXCEPT ![r] = Released(r, "interrupted")]
  /\ UNCHANGED <<claim, control, effect, task, prepared, faults>>

\* release_ready_cancellations: a late result makes the blocked cancellation acquirable.
ReleaseReady(r) ==
  LET d == row[r] IN
  /\ d.status = "waiting" /\ d.cancel
  /\ d.worker = NoWorker /\ d.lease = "none"
  /\ d.pending = "none" /\ d.cancelOnly
  /\ ~d.blocked.ready
  /\ d.blocked.attempt = d.attempt /\ d.blocked.revision = d.revision
  /\ CancelComplete(r)
  /\ row' = [row EXCEPT ![r] =
        [row[r] EXCEPT !.blocked = [d.blocked EXCEPT !.ready = TRUE, !.revision = d.revision + 1],
                  !.revision = @ + 1]]
  /\ UNCHANGED <<claim, control, effect, task, prepared, faults>>

-----------------------------------------------------------------------------
(* The system. *)

User ==
  \/ \E r \in Runners : Submit(r) \/ Cancel(r) \/ EndWaiting(r)
  \/ \E r \in Runners, c \in Controls : SubmitPause(r, c) \/ SubmitResume(r, c)

Acquire(k) ==
  \/ \E r \in Runners : AcquireQueued(r, k) \/ AcquireFinalizing(r, k) \/ AcquireCancelled(r, k)
  \/ ClaimResume(k) \/ ClaimContinuous(k)

Scan(w) ==
  \/ \E r \in Runners : PrepareResume(w, r) \/ PrepareContinuous(w, r)
  \/ \E permanent \in BOOLEAN : DeferContinuous(w, permanent)
  \/ RejectResume(w) \/ DropPrepared(w)

Execute(k) ==
  \/ Heartbeat(k) \/ Checkpoint(k) \/ Dispatch(k) \/ DispatchRefused(k)
  \/ ParkWaiting(k) \/ ParkPaused(k) \/ AcknowledgePause(k)
  \/ StageResult(k) \/ StageCancelled(k) \/ DetachWait(k) \/ CancelUnconfirmed(k)
  \/ BlockCancel(k) \/ Finalize(k)

Recover(k) ==
  \/ LoseLease(k) \/ AcknowledgeRefused(k)
  \/ FailInterrupt(k) \/ FailStage(k) \/ FinalizeRetry(k) \/ Abandon(k) \/ GiveUp(k)

Sweep(r) == ExpireLease(r) \/ ReapExpired(r) \/ ReleaseReady(r) \/ EffectKnown(r) \/ EffectLost(r)

Fault == (\E k \in Slots : Raise(k) \/ Stall(k)) \/ (\E w \in Workers : Crash(w))

Next ==
  \/ User
  \/ \E k \in Slots : Acquire(k) \/ Execute(k) \/ Recover(k)
  \/ \E w \in Workers : Scan(w)
  \/ \E r \in Runners : Sweep(r)
  \/ Fault

Spec == Init /\ [][Next]_vars

\* What the code drives by itself: lease expiry is the database clock, the sweeps and the
\* acquisitions are the loop of AgentRunnerWorker.run, and an engine run is bounded.
Progress(k) ==
  \/ ParkWaiting(k) \/ ParkPaused(k) \/ AcknowledgePause(k)
  \/ StageResult(k) \/ StageCancelled(k) \/ DetachWait(k) \/ CancelUnconfirmed(k)
  \/ BlockCancel(k) \/ Finalize(k)
  \/ Recover(k)

Fairness ==
  /\ \A k \in Slots : WF_vars(Progress(k))
  /\ \A r \in Runners :
       /\ WF_vars(ExpireLease(r)) /\ WF_vars(ReapExpired(r)) /\ WF_vars(ReleaseReady(r))
       /\ SF_vars(\E k \in Slots : AcquireFinalizing(r, k) \/ AcquireCancelled(r, k))

FairSpec == Spec /\ Fairness

-----------------------------------------------------------------------------
(* Properties. *)

RowType ==
  [status : Statuses, attempt : Nat, worker : Workers \union {NoWorker},
   lease : {"none", "live", "expired"}, revision : Nat, controlRevision : Nat,
   cancel : BOOLEAN, pause : BOOLEAN, resume : Controls \union {NoControl},
   cancelOnly : BOOLEAN, pending : Terminal \union {"none"},
   blocked : [attempt : Nat, revision : Nat, ready : BOOLEAN],
   detached : BOOLEAN, failures : Nat, abandoned : BOOLEAN, held : BOOLEAN]
ControlType ==
  [runner : Runners \union {NoRunner}, action : {"none", "pause", "resume"},
   status : {"none", "accepted", "consumed", "rejected"}, attempt : Nat]
TaskType ==
  [pc : {"idle", "unstarted", "run", "cancel", "hold", "final", "failed"},
   runner : Runners \union {NoRunner}, attempt : Nat, revision : Nat,
   cancel : BOOLEAN, pause : BOOLEAN, finalizer : BOOLEAN]
PreparedType ==
  [kind : {"none", "resume", "continuous"}, runner : Runners \union {NoRunner},
   revision : Nat, controlRevision : Nat, control : Controls \union {NoControl}]

RowTable == [Runners -> RowType]
ClaimTable == [Sessions -> Runners \union {NoRunner}]
ControlTable == [Controls -> ControlType]
TaskTable ==
  {t \in [Slots -> TaskType] : \A k \in Slots : t[k].pc # "idle" => t[k].runner \in Runners}
PreparedTable ==
  {p \in [Workers -> PreparedType] : \A w \in Workers :
     /\ p[w].kind # "none" => p[w].runner \in Runners
     /\ p[w].kind = "resume" => p[w].control \in Controls}

\* Types of the tables and of what the workers hold; a coroutine that executes and a
\* recovery that was prepared name an existing runner.
TypeOK ==
  /\ row \in RowTable
  /\ claim \in ClaimTable
  /\ control \in ControlTable
  /\ effect \in [Runners -> {"known", "pending", "unknown"}]
  /\ task \in TaskTable
  /\ prepared \in PreparedTable
  /\ faults \in Nat

\* A session is owned exactly while one of its runners is executing or parked: no two turns
\* of a conversation are ever open together, and no turn that ended keeps the next one out.
ClaimIffActive ==
  \A r \in Runners : Active(r) <=> ClaimedBy(r)

\* The fence leaves write authority to one coroutine per runner, although crashed, stalled
\* and reaped attempts (of the same worker too) may still be running.
SingleAuthority ==
  \A j, k \in Slots :
    Owns(j) /\ Owns(k) /\ task[j].runner = task[k].runner => j = k

\* Nobody but its owner moves the revision of a runner being executed, so a healthy attempt
\* is never refused with CHECKPOINT_REVISION_CHANGED.
OwnerInStep ==
  \A k \in Slots : Owns(k) /\ task[k].pc # "failed" => InStep(k)

\* resume_control_id and the accepted continuation are one fact kept in two tables.
ResumePointer ==
  /\ \A r \in Runners : row[r].resume # NoControl =>
       /\ row[r].status \in Parked /\ ~row[r].cancel
       /\ control[row[r].resume].runner = r
       /\ control[row[r].resume].status = "accepted"
       /\ control[row[r].resume].action = "resume"
  /\ \A c \in Controls :
       control[c].status = "accepted" /\ control[c].action = "resume" =>
         row[control[c].runner].resume = c

\* Once a runner is cancelled or over, no client is left polling an accepted control.
NoControlLeftOpen ==
  \A r \in Runners : row[r].cancel \/ row[r].status \in Terminal =>
    /\ row[r].resume = NoControl /\ ~row[r].pause
    /\ \A c \in Controls : control[c].runner = r => control[c].status # "accepted"

\* A cancellation waiting for an unknown effect carries the attempt and revision of its row:
\* if they parted, release_ready_cancellations would skip the runner for ever.
BlockedMarkerCurrent ==
  \A r \in Runners : row[r].blocked # NoBlock =>
    /\ row[r].status = "waiting" /\ row[r].cancel /\ row[r].cancelOnly
    /\ row[r].pending = "none" /\ row[r].worker = NoWorker /\ row[r].lease = "none"
    /\ row[r].blocked.attempt = row[r].attempt
    /\ row[r].blocked.revision = row[r].revision

\* A runner executes again only because a user said so, or because it was accepted as
\* continuous: a crashed, stalled or reaped attempt is never replayed by the service itself,
\* and of two commands of the user each starts an attempt of its own.
NoReplay ==
  \A r \in Runners : row[r].status = "running" /\ row[r].attempt > 1 /\ r \notin Continuous =>
    Cardinality({c \in Controls : /\ control[c].runner = r /\ control[c].action = "resume"
                                  /\ control[c].status = "consumed"
                                  /\ control[c].attempt = row[r].attempt}) = 1

\* 'cancelled' is announced only when every operation on the user's desktop is known to have
\* ended, or the turn stopped waiting for it: on its user's word, or, for a task bound to a
\* device, because nobody can tell any more what the operation did.
CancelledMeansStopped ==
  \A r \in Runners :
    row[r].status = "cancelled" => effect[r] = "known" \/ row[r].detached

\* A runner its user cancelled never starts again, and one that was paused, or held by a
\* refusal, continues only with the user's next command, although a worker may have prepared
\* its continuation before the user spoke.
CommandHolds ==
  [][\A r \in Runners : row[r].status # "running" /\ row'[r].status = "running" =>
       /\ ~row[r].cancel
       /\ row[r].status \in Parked /\ (row[r].pause \/ row[r].held) =>
            \E c \in Controls : /\ control[c].runner = r /\ control[c].action = "resume"
                                /\ control[c].status = "accepted"
                                /\ control'[c].status = "consumed"]_vars

\* A committed terminal intent is never replaced and decides the terminal status; only an
\* abandoned 'completed' becomes 'failed'.  Terminal rows never change again.
IntentDecides ==
  [][\A r \in Runners :
       /\ row[r].pending # "none" =>
            /\ row'[r].pending = row[r].pending
            /\ row'[r].status \in {"finalizing", row[r].pending}
                  \/ (row'[r].abandoned /\ row[r].pending = "completed"
                        /\ row'[r].status = "failed")
       /\ row[r].status \in Terminal =>
            row'[r].status = row[r].status /\ row'[r].attempt = row[r].attempt]_vars

\* A user's cancellation that can be confirmed ends the runner, whatever crashes on the way.
CancellationEnds ==
  \A r \in Runners :
    (row[r].cancel /\ CancelComplete(r)) ~> row[r].status \in Terminal

\* A staged result becomes terminal: finalization is retried or abandoned, never stuck.
FinalizationEnds ==
  \A r \in Runners : row[r].pending # "none" ~> row[r].status \in Terminal

\* No attempt executes for ever: it parks, is interrupted by the reaper, or finishes.
AttemptEnds ==
  \A r \in Runners : row[r].status = "running" ~> row[r].status # "running"
=============================================================================
