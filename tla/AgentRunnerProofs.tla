------------------------- MODULE AgentRunnerProofs -------------------------
(***************************************************************************)
(* Theorems about AgentRunner, for any number of runners, sessions, workers, *)
(* coroutines and controls.                                                 *)
(***************************************************************************)
EXTENDS AgentRunner, TLAPS

-----------------------------------------------------------------------------
(* Type correctness. *)

\* What is read from a typed table.
LEMMA RowTyped ==
  ASSUME TypeOK, NEW r \in Runners
  PROVE  row[r] \in RowType
BY DEF TypeOK, RowTable

LEMMA TaskTyped ==
  ASSUME TypeOK, NEW k \in Slots
  PROVE  task[k] \in TaskType
BY DEF TypeOK, TaskTable

LEMMA RunnerTyped ==
  ASSUME TypeOK, NEW k \in Slots, task[k].pc # "idle"
  PROVE  task[k].runner \in Runners
BY DEF TypeOK, TaskTable

LEMMA OwnerTyped ==
  ASSUME TypeOK, NEW k \in Slots, Owns(k)
  PROVE  task[k].runner \in Runners
BY RunnerTyped DEF Owns

LEMMA PreparedTyped ==
  ASSUME TypeOK, NEW w \in Workers, prepared[w].kind # "none"
  PROVE  /\ prepared[w].runner \in Runners
         /\ prepared[w].kind = "resume" => prepared[w].control \in Controls
<1>1. prepared \in PreparedTable
  BY DEF TypeOK
<1> QED BY <1>1 DEF PreparedTable

LEMMA PreparedCurrent ==
  ASSUME TypeOK, NEW w \in Workers,
         ResumeCurrent(prepared[w]) \/ ContinuousCurrent(prepared[w])
  PROVE  /\ prepared[w].runner \in Runners
         /\ prepared[w].kind = "resume" => prepared[w].control \in Controls
BY PreparedTyped DEF ResumeCurrent, ContinuousCurrent

\* What is written to one.
LEMMA RowWritten ==
  ASSUME TypeOK, NEW r \in Runners, NEW d \in RowType
  PROVE  [row EXCEPT ![r] = d] \in RowTable
BY DEF TypeOK, RowTable

LEMMA TaskWritten ==
  ASSUME TypeOK, NEW k \in Slots, NEW d \in TaskType,
         d.pc # "idle" => d.runner \in Runners
  PROVE  [task EXCEPT ![k] = d] \in TaskTable
BY DEF TypeOK, TaskTable

LEMMA PreparedWritten ==
  ASSUME TypeOK, NEW w \in Workers, NEW d \in PreparedType,
         d.kind # "none" => d.runner \in Runners,
         d.kind = "resume" => d.control \in Controls
  PROVE  [prepared EXCEPT ![w] = d] \in PreparedTable
BY DEF TypeOK, PreparedTable

LEMMA PreparedCleared ==
  ASSUME TypeOK, NEW w \in Workers
  PROVE  [prepared EXCEPT ![w] = NoPrepared] \in PreparedTable
<1>1. NoPrepared \in PreparedType
  BY DEF NoPrepared, PreparedType
<1>2. NoPrepared.kind = "none"
  BY DEF NoPrepared
<1> QED BY <1>1, <1>2, PreparedWritten

LEMMA ClaimWritten ==
  ASSUME ConstantsAssumption, TypeOK, NEW r \in Runners
  PROVE  /\ [claim EXCEPT ![SessionOf[r]] = r] \in ClaimTable
         /\ [claim EXCEPT ![SessionOf[r]] = NoRunner] \in ClaimTable
         /\ [s \in Sessions |-> IF claim[s] = r THEN NoRunner ELSE claim[s]] \in ClaimTable
BY DEF ConstantsAssumption, TypeOK, ClaimTable

\* The rows written when an attempt starts and when it is released.
LEMMA StartedType ==
  ASSUME ConstantsAssumption, TypeOK, NEW r \in Runners, NEW k \in Slots
  PROVE  Started(r, k) \in RowType
<1>1. WorkerOf[k] \in Workers
  BY DEF ConstantsAssumption
<1>2. row[r] \in RowType
  BY RowTyped
<1>3. row[r].attempt + 1 \in Nat /\ row[r].revision + 1 \in Nat
  BY <1>2 DEF RowType
<1> QED BY <1>1, <1>2, <1>3 DEF RowType, Started

LEMMA ReleasedType ==
  ASSUME TypeOK, NEW r \in Runners, NEW status \in Statuses
  PROVE  Released(r, status) \in RowType
<1>1. row[r] \in RowType
  BY RowTyped
<1>2. row[r].revision + 1 \in Nat
  BY <1>1 DEF RowType
<1> QED BY <1>1, <1>2 DEF RowType, Released

\* The control tables written by close_pending_controls and by an acknowledged pause.
LEMMA ControlsType ==
  ASSUME TypeOK, NEW r \in Runners
  PROVE  /\ ClosedControls(r) \in ControlTable
         /\ ConsumedPauses(r) \in ControlTable
<1>1. row[r].attempt \in Nat
  BY RowTyped DEF RowType
<1>2. ClosedControls(r) \in ControlTable
  BY DEF TypeOK, ControlTable, ControlType, ClosedControls
<1>3. ConsumedPauses(r) \in ControlTable
  BY <1>1 DEF TypeOK, ControlTable, ControlType, ConsumedPauses
<1> QED BY <1>2, <1>3

\* A coroutine that begins on an acquired row, and one that is done.
LEMMA BegunType ==
  ASSUME TypeOK, NEW r \in Runners, NEW k \in Slots, NEW d \in RowType,
         NEW pc \in {"unstarted", "run", "cancel", "final"}
  PROVE  Begun(r, k, d, pc) \in TaskTable
BY TaskWritten DEF RowType, TaskType, Begun

LEMMA DoneType ==
  ASSUME TypeOK, NEW k \in Slots
  PROVE  Done(k) \in TaskTable
BY TaskWritten DEF TaskType, Done, Idle

LEMMA TypeInit ==
  ASSUME ConstantsAssumption, Init
  PROVE  TypeOK
<1>1. NewRow \in RowType
  BY DEF NewRow, NoBlock, RowType, Statuses
<1>2. row \in RowTable
  BY <1>1 DEF Init, RowTable
<1>3. NewControl \in ControlType
  BY DEF NewControl, ControlType
<1>4. control \in ControlTable
  BY <1>3 DEF Init, ControlTable
<1>5. Idle \in TaskType /\ Idle.pc = "idle"
  BY DEF Idle, TaskType
<1>6. task \in TaskTable
  BY <1>5 DEF Init, TaskTable
<1>7. NoPrepared \in PreparedType /\ NoPrepared.kind = "none"
  BY DEF NoPrepared, PreparedType
<1>8. prepared \in PreparedTable
  BY <1>7 DEF Init, PreparedTable
<1> QED BY <1>2, <1>4, <1>6, <1>8 DEF Init, TypeOK, ClaimTable

\* Every action writes typed values only.
LEMMA TypeNext ==
  ASSUME ConstantsAssumption, TypeOK, [Next]_vars
  PROVE  TypeOK'
<1>1. ASSUME NEW r \in Runners, Submit(r)
      PROVE  TypeOK'
  <2>1. row[r] \in RowType
    BY RowTyped
  <2>2. row' \in RowTable
    BY <1>1, <2>1, RowWritten DEF Submit, RowType, Statuses, Parked, Executing, Terminal
  <2> QED BY <1>1, <2>2 DEF Submit, TypeOK
<1>2. ASSUME NEW r \in Runners, Cancel(r)
      PROVE  TypeOK'
  <2> DEFINE status == IF row[r].status = "queued" THEN "cancelled" ELSE row[r].status
             revision == IF row[r].status = "queued" THEN row[r].revision + 1
                         ELSE row[r].revision
             d == [row[r] EXCEPT !.status = status, !.revision = revision, !.cancel = TRUE,
                                 !.controlRevision = @ + 1, !.pause = FALSE,
                                 !.resume = NoControl]
  <2>1. row[r] \in RowType
    BY RowTyped
  <2>2. status \in Statuses
    BY <2>1 DEF RowType, Statuses, Terminal
  <2>3. revision \in Nat
    BY <2>1 DEF RowType
  <2>4. row[r].controlRevision + 1 \in Nat
    BY <2>1 DEF RowType
  <2> HIDE DEF status, revision
  <2>5. d \in RowType
    BY <2>1, <2>2, <2>3, <2>4 DEF RowType
  <2>6. row' = [row EXCEPT ![r] = d]
    BY <1>2 DEF Cancel, CancelRevision, status, revision
  <2>7. row' \in RowTable
    BY <2>5, <2>6, RowWritten
  <2> QED BY <1>2, <2>7, ControlsType DEF Cancel, TypeOK
<1>3. ASSUME NEW r \in Runners, EndWaiting(r)
      PROVE  TypeOK'
  <2> DEFINE d == [row[r] EXCEPT !.detached = TRUE, !.blocked = NoBlock, !.cancel = TRUE,
               !.pause = FALSE, !.resume = NoControl, !.revision = @ + 1,
               !.controlRevision = @ + 1]
  <2>1. row[r] \in RowType
    BY RowTyped
  <2>2. row[r].revision + 1 \in Nat /\ row[r].controlRevision + 1 \in Nat
    BY <2>1 DEF RowType
  <2>3. d \in RowType
    BY <2>2, <2>1 DEF RowType, NoBlock
  <2>4. row' \in RowTable
    BY <1>3, <2>3, RowWritten DEF EndWaiting, TypeOK, RowTable
  <2> QED BY <1>3, <2>4, ControlsType DEF EndWaiting, TypeOK
<1>4. ASSUME NEW r \in Runners, NEW c \in Controls, SubmitPause(r, c)
      PROVE  TypeOK'
  <2>1. row[r] \in RowType
    BY RowTyped
  <2>2. row[r].controlRevision + 1 \in Nat
    BY <2>1 DEF RowType
  <2>3. [row[r] EXCEPT !.pause = TRUE, !.resume = NoControl, !.controlRevision = @ + 1] \in RowType
    BY <2>1, <2>2 DEF RowType
  <2>4. row' \in RowTable
    BY <1>4, <2>3, RowWritten DEF SubmitPause, TypeOK, RowTable
  <2>5. Superseded(r) \in ControlTable
    BY DEF Superseded, TypeOK, ControlTable, ControlType
  <2>6. control' \in ControlTable
    BY <1>4, <2>5 DEF SubmitPause, ControlTable, ControlType
  <2> QED BY <1>4, <2>4, <2>6 DEF SubmitPause, TypeOK
<1>5. ASSUME NEW r \in Runners, NEW c \in Controls, SubmitResume(r, c)
      PROVE  TypeOK'
  <2>1. row[r] \in RowType
    BY RowTyped
  <2>2. row[r].controlRevision + 1 \in Nat
    BY <2>1 DEF RowType
  <2>3. [row[r] EXCEPT !.resume = c, !.controlRevision = @ + 1] \in RowType
    BY <2>1, <2>2 DEF RowType
  <2>4. row' \in RowTable
    BY <1>5, <2>3, RowWritten DEF SubmitResume, TypeOK, RowTable
  <2>5. control' \in ControlTable
    BY <1>5 DEF SubmitResume, TypeOK, ControlTable, ControlType
  <2> QED BY <1>5, <2>4, <2>5 DEF SubmitResume, TypeOK
<1>6. ASSUME NEW r \in Runners, NEW k \in Slots, AcquireQueued(r, k)
      PROVE  TypeOK'
  <2>1. Started(r, k) \in RowType
    BY StartedType
  <2>2. [Started(r, k) EXCEPT !.status = "running"] \in RowType
    BY <2>1 DEF RowType, Statuses, Parked, Executing, Terminal
  <2>3. row' \in RowTable
    BY <1>6, <2>2, RowWritten DEF AcquireQueued
  <2>4. task' \in TaskTable
    BY <1>6, <2>2, BegunType DEF AcquireQueued
  <2>5. claim' \in ClaimTable
    BY <1>6, ClaimWritten DEF AcquireQueued
  <2> QED BY <1>6, <2>3, <2>4, <2>5 DEF AcquireQueued, TypeOK
<1>7. ASSUME NEW r \in Runners, NEW k \in Slots, AcquireFinalizing(r, k)
      PROVE  TypeOK'
  <2>1. row' \in RowTable
    BY <1>7, StartedType, RowWritten DEF AcquireFinalizing
  <2>2. task' \in TaskTable
    BY <1>7, StartedType, BegunType DEF AcquireFinalizing
  <2> QED BY <1>7, <2>1, <2>2 DEF AcquireFinalizing, TypeOK
<1>8. ASSUME NEW r \in Runners, NEW k \in Slots, AcquireCancelled(r, k)
      PROVE  TypeOK'
  <2>1. Started(r, k) \in RowType
    BY StartedType
  <2>2. [Started(r, k) EXCEPT !.status = "finalizing", !.cancelOnly = TRUE, !.blocked = NoBlock] \in RowType
    BY <2>1 DEF RowType, NoBlock, Statuses, Parked, Executing, Terminal
  <2>3. row' \in RowTable
    BY <1>8, <2>2, RowWritten DEF AcquireCancelled
  <2>4. task' \in TaskTable
    BY <1>8, <2>2, BegunType DEF AcquireCancelled
  <2> QED BY <1>8, <2>3, <2>4 DEF AcquireCancelled, TypeOK
<1>9. ASSUME NEW k \in Slots, ClaimResume(k)
      PROVE  TypeOK'
  <2>1. WorkerOf[k] \in Workers
    BY DEF ConstantsAssumption
  <2> DEFINE r == prepared[WorkerOf[k]].runner  c == prepared[WorkerOf[k]].control
         d == [Started(r, k) EXCEPT !.status = "running", !.pause = FALSE, !.resume = NoControl,
                                    !.controlRevision = @ + 1, !.held = FALSE]
  <2>2. r \in Runners /\ c \in Controls
    BY <1>9, <2>1, PreparedCurrent DEF ClaimResume, ResumeCurrent
  <2>3. Started(r, k) \in RowType
    BY <2>2, StartedType
  <2>4. Started(r, k).controlRevision + 1 \in Nat
    BY <2>2, <2>3 DEF RowType
  <2>5. d \in RowType
    BY <2>2, <2>4, <2>3 DEF RowType, Statuses, Parked, Executing, Terminal
  <2>6. row' \in RowTable
    BY <1>9, <2>2, <2>5, RowWritten DEF ClaimResume
  <2>7. task' \in TaskTable
    BY <1>9, <2>2, <2>5, BegunType DEF ClaimResume
  <2>8. d.attempt \in Nat
    BY <2>5 DEF RowType
  <2>9. control' = [control EXCEPT ![c] = [control[c] EXCEPT !.status = "consumed", !.attempt = d.attempt]]
    BY <1>9 DEF ClaimResume
  <2>10. control[c] \in ControlType
    BY <2>2 DEF TypeOK, ControlTable
  <2> HIDE DEF c, d
  <2>11. [control[c] EXCEPT !.status = "consumed", !.attempt = d.attempt] \in ControlType
    BY <2>8, <2>10 DEF ControlType
  <2>12. control' \in ControlTable
    BY <2>2, <2>9, <2>11 DEF TypeOK, ControlTable
  <2>13. prepared' \in PreparedTable
    BY <1>9, <2>1, PreparedCleared DEF ClaimResume
  <2> QED BY <1>9, <2>6, <2>7, <2>12, <2>13 DEF ClaimResume, TypeOK
<1>10. ASSUME NEW k \in Slots, ClaimContinuous(k)
      PROVE  TypeOK'
  <2>1. WorkerOf[k] \in Workers
    BY DEF ConstantsAssumption
  <2> DEFINE r == prepared[WorkerOf[k]].runner
         d == [Started(r, k) EXCEPT !.status = "running"]
  <2>2. r \in Runners
    BY <1>10, <2>1, PreparedCurrent DEF ClaimContinuous
  <2>3. Started(r, k) \in RowType
    BY <2>2, StartedType
  <2>4. d \in RowType
    BY <2>2, <2>3 DEF RowType, Statuses, Parked, Executing, Terminal
  <2>5. row' \in RowTable
    BY <1>10, <2>2, <2>4, RowWritten DEF ClaimContinuous
  <2>6. task' \in TaskTable
    BY <1>10, <2>2, <2>4, BegunType DEF ClaimContinuous
  <2>7. prepared' \in PreparedTable
    BY <1>10, <2>1, PreparedCleared DEF ClaimContinuous
  <2> QED BY <1>10, <2>5, <2>6, <2>7 DEF ClaimContinuous, TypeOK
<1>11. ASSUME NEW k \in Slots, Heartbeat(k)
      PROVE  TypeOK'
  <2>1. task[k].runner \in Runners
    BY <1>11, OwnerTyped DEF Heartbeat
  <2>2. row[task[k].runner] \in RowType
    BY <2>1, RowTyped
  <2>3. task[k] \in TaskType
    BY TaskTyped
  <2> DEFINE t == [task[k] EXCEPT !.cancel = row[task[k].runner].cancel, !.pause = row[task[k].runner].pause]
  <2>4. t \in TaskType /\ t.runner = task[k].runner
    BY <2>1, <2>2, <2>3 DEF RowType, TaskType
  <2>5. task' \in TaskTable
    BY <1>11, <2>1, <2>4, TaskWritten DEF Heartbeat, TypeOK, TaskTable
  <2> QED BY <1>11, <2>5 DEF Heartbeat, TypeOK
<1>12. ASSUME NEW k \in Slots, Checkpoint(k)
      PROVE  TypeOK'
  <2>1. task[k].runner \in Runners
    BY <1>12, OwnerTyped DEF Checkpoint
  <2>2. row[task[k].runner] \in RowType
    BY <2>1, RowTyped
  <2>3. row[task[k].runner].revision + 1 \in Nat
    BY <2>2 DEF RowType
  <2>4. [row[task[k].runner] EXCEPT !.revision = @ + 1] \in RowType
    BY <2>1, <2>2, <2>3 DEF RowType
  <2>5. row' \in RowTable
    BY <1>12, <2>1, <2>4, RowWritten DEF Checkpoint, TypeOK, RowTable
  <2>6. task[k] \in TaskType
    BY TaskTyped
  <2>7. task[k].revision + 1 \in Nat
    BY <2>6 DEF TaskType
  <2> DEFINE t == [task[k] EXCEPT !.revision = @ + 1, !.cancel = row[task[k].runner].cancel,
                    !.pause = row[task[k].runner].pause]
  <2>8. t \in TaskType /\ t.runner = task[k].runner
    BY <2>1, <2>2, <2>6, <2>7 DEF RowType, TaskType
  <2>9. task' \in TaskTable
    BY <1>12, <2>1, <2>8, TaskWritten DEF Checkpoint, TypeOK, TaskTable
  <2> QED BY <1>12, <2>5, <2>9 DEF Checkpoint, TypeOK
<1>13. ASSUME NEW k \in Slots, Dispatch(k)
      PROVE  TypeOK'
  <2>1. task[k].runner \in Runners
    BY <1>13, OwnerTyped DEF Dispatch
  <2>2. row[task[k].runner] \in RowType
    BY <2>1, RowTyped
  <2>3. row[task[k].runner].revision + 1 \in Nat
    BY <2>2 DEF RowType
  <2>4. [row[task[k].runner] EXCEPT !.revision = @ + 1] \in RowType
    BY <2>1, <2>2, <2>3 DEF RowType
  <2>5. row' \in RowTable
    BY <1>13, <2>1, <2>4, RowWritten DEF Dispatch, TypeOK, RowTable
  <2>6. task[k] \in TaskType
    BY TaskTyped
  <2>7. task[k].revision + 1 \in Nat
    BY <2>6 DEF TaskType
  <2> DEFINE t == [task[k] EXCEPT !.revision = @ + 1, !.cancel = FALSE, !.pause = FALSE]
  <2>8. t \in TaskType /\ t.runner = task[k].runner
    BY <2>6, <2>7 DEF TaskType
  <2>9. task' \in TaskTable
    BY <1>13, <2>1, <2>8, TaskWritten DEF Dispatch, TypeOK, TaskTable
  <2>10. effect' \in [Runners -> {"known", "pending", "unknown"}]
    BY <1>13 DEF Dispatch, TypeOK
  <2> QED BY <1>13, <2>5, <2>9, <2>10 DEF Dispatch, TypeOK
<1>14. ASSUME NEW k \in Slots, DispatchRefused(k)
      PROVE  TypeOK'
  <2>1. task[k].runner \in Runners
    BY <1>14, OwnerTyped DEF DispatchRefused
  <2>2. row[task[k].runner] \in RowType
    BY <2>1, RowTyped
  <2>3. task[k] \in TaskType
    BY TaskTyped
  <2> DEFINE t == [task[k] EXCEPT !.cancel = row[task[k].runner].cancel,
                    !.pause = ~row[task[k].runner].cancel]
  <2>4. t \in TaskType /\ t.runner = task[k].runner
    BY <2>1, <2>2, <2>3 DEF RowType, TaskType
  <2>5. task' \in TaskTable
    BY <1>14, <2>1, <2>4, TaskWritten DEF DispatchRefused, TypeOK, TaskTable
  <2> QED BY <1>14, <2>5 DEF DispatchRefused, TypeOK
<1>15. ASSUME NEW k \in Slots, ParkWaiting(k)
      PROVE  TypeOK'
  <2>1. task[k].runner \in Runners
    BY <1>15, OwnerTyped DEF ParkWaiting
  <2>2. "waiting" \in Statuses
    BY DEF Statuses, Parked, Executing, Terminal
  <2>3. row' \in RowTable
    BY <1>15, <2>1, <2>2, ReleasedType, RowWritten DEF ParkWaiting
  <2> QED BY <1>15, <2>3, DoneType DEF ParkWaiting, TypeOK
<1>16. ASSUME NEW k \in Slots, ParkPaused(k)
      PROVE  TypeOK'
  <2>1. task[k].runner \in Runners
    BY <1>16, OwnerTyped DEF ParkPaused
  <2>2. "paused" \in Statuses
    BY DEF Statuses, Parked, Executing, Terminal
  <2>3. row' \in RowTable
    BY <1>16, <2>1, <2>2, ReleasedType, RowWritten DEF ParkPaused
  <2>4. control' \in ControlTable
    BY <1>16, <2>1, ControlsType DEF TypeOK, ParkPaused
  <2> QED BY <1>16, <2>3, <2>4, DoneType DEF ParkPaused, TypeOK
<1>17. ASSUME NEW k \in Slots, AcknowledgePause(k)
      PROVE  TypeOK'
  <2>1. task[k].runner \in Runners
    BY <1>17, OwnerTyped DEF AcknowledgePause
  <2>2. "paused" \in Statuses
    BY DEF Statuses, Parked, Executing, Terminal
  <2>3. row' \in RowTable
    BY <1>17, <2>1, <2>2, ReleasedType, RowWritten DEF AcknowledgePause
  <2>4. control' \in ControlTable
    BY <1>17, <2>1, ControlsType DEF TypeOK, AcknowledgePause
  <2> QED BY <1>17, <2>3, <2>4, DoneType DEF AcknowledgePause, TypeOK
<1>18. ASSUME NEW k \in Slots, StageResult(k)
      PROVE  TypeOK'
  <2>1. PICK result \in {"completed", "failed"} : Stage(k, result)
    BY <1>18 DEF StageResult
  <2>2. task[k].runner \in Runners
    BY <2>1, OwnerTyped DEF Stage
  <2>3. row[task[k].runner] \in RowType
    BY <2>2, RowTyped
  <2>4. row[task[k].runner].revision + 1 \in Nat
    BY <2>3 DEF RowType
  <2>5. [row[task[k].runner] EXCEPT !.status = "finalizing", !.pending = result,
                                 !.revision = @ + 1] \in RowType
    BY <2>2, <2>3, <2>4 DEF RowType, Statuses, Parked, Executing, Terminal
  <2>6. row' \in RowTable
    BY <2>1, <2>2, <2>5, RowWritten DEF Stage, TypeOK, RowTable
  <2>7. task[k] \in TaskType
    BY TaskTyped
  <2>8. task[k].revision + 1 \in Nat
    BY <2>7 DEF TaskType
  <2> DEFINE t == [task[k] EXCEPT !.pc = "final", !.revision = @ + 1]
  <2>9. t \in TaskType /\ t.runner = task[k].runner
    BY <2>7, <2>8 DEF TaskType
  <2>10. task' \in TaskTable
    BY <2>1, <2>2, <2>9, TaskWritten DEF Stage, TypeOK, TaskTable
  <2> QED BY <1>18, <2>6, <2>10, <2>1 DEF StageResult, Stage, TypeOK
<1>19. ASSUME NEW k \in Slots, StageCancelled(k)
      PROVE  TypeOK'
  <2>1. Stage(k, "cancelled")
    BY <1>19 DEF StageCancelled
  <2>2. task[k].runner \in Runners
    BY <2>1, OwnerTyped DEF Stage
  <2>3. row[task[k].runner] \in RowType
    BY <2>2, RowTyped
  <2>4. row[task[k].runner].revision + 1 \in Nat
    BY <2>3 DEF RowType
  <2>5. [row[task[k].runner] EXCEPT !.status = "finalizing", !.pending = "cancelled",
                                 !.revision = @ + 1] \in RowType
    BY <2>2, <2>3, <2>4 DEF RowType, Statuses, Parked, Executing, Terminal
  <2>6. row' \in RowTable
    BY <2>1, <2>2, <2>5, RowWritten DEF Stage, TypeOK, RowTable
  <2>7. task[k] \in TaskType
    BY TaskTyped
  <2>8. task[k].revision + 1 \in Nat
    BY <2>7 DEF TaskType
  <2> DEFINE t == [task[k] EXCEPT !.pc = "final", !.revision = @ + 1]
  <2>9. t \in TaskType /\ t.runner = task[k].runner
    BY <2>7, <2>8 DEF TaskType
  <2>10. task' \in TaskTable
    BY <2>1, <2>2, <2>9, TaskWritten DEF Stage, TypeOK, TaskTable
  <2> QED BY <1>19, <2>6, <2>10, <2>1 DEF StageCancelled, Stage, TypeOK
<1>20. ASSUME NEW k \in Slots, BlockCancel(k)
      PROVE  TypeOK'
  <2>1. task[k].runner \in Runners
    BY <1>20, OwnerTyped DEF BlockCancel
  <2> DEFINE r == task[k].runner  d == Released(r, "waiting")
         b == [attempt |-> d.attempt, revision |-> d.revision, ready |-> FALSE]
  <2>2. d \in RowType
    BY <2>1, ReleasedType DEF Statuses, Parked, Executing, Terminal
  <2>3. [d EXCEPT !.cancelOnly = TRUE, !.blocked = b] \in RowType
    BY <2>2 DEF RowType
  <2>4. row' \in RowTable
    BY <1>20, <2>1, <2>3, RowWritten DEF BlockCancel, BlockMarker
  <2> QED BY <1>20, <2>4, DoneType DEF BlockCancel, TypeOK
<1>21. ASSUME NEW k \in Slots, Finalize(k)
      PROVE  TypeOK'
  <2>1. task[k].runner \in Runners
    BY <1>21, OwnerTyped DEF Finalize
  <2> DEFINE r == task[k].runner  d == Released(r, row[r].pending)
  <2>2. row[task[k].runner] \in RowType
    BY <2>1, RowTyped
  <2>3. row[r].pending \in Terminal
    BY <1>21, <2>1, <2>2 DEF Finalize, RowType
  <2>4. d \in RowType
    BY <2>1, <2>3, ReleasedType DEF Statuses
  <2>5. [d EXCEPT !.pause = FALSE, !.resume = NoControl] \in RowType
    BY <2>4 DEF RowType
  <2>6. row' \in RowTable
    BY <1>21, <2>1, <2>5, RowWritten DEF Finalize, Verdict, Unclaimed
  <2>7. control' \in ControlTable
    BY <1>21, <2>1, ControlsType DEF Finalize
  <2>8. claim' \in ClaimTable
    BY <1>21, <2>1, ClaimWritten DEF Finalize, Verdict, Unclaimed
  <2> QED BY <1>21, <2>6, <2>7, <2>8, DoneType DEF Finalize, TypeOK
<1>22. ASSUME NEW k \in Slots, LoseLease(k)
      PROVE  TypeOK'
  BY <1>22, DoneType DEF LoseLease, TypeOK
<1>23. ASSUME NEW k \in Slots, AcknowledgeRefused(k)
      PROVE  TypeOK'
  <2>1. task[k].runner \in Runners
    BY <1>23, OwnerTyped DEF AcknowledgeRefused
  <2>2. "interrupted" \in Statuses
    BY DEF Statuses, Parked, Executing, Terminal
  <2>3. row' \in RowTable
    BY <1>23, <2>1, <2>2, ReleasedType, RowWritten DEF AcknowledgeRefused
  <2> QED BY <1>23, <2>3, DoneType DEF AcknowledgeRefused, TypeOK
<1>24. ASSUME NEW k \in Slots, FailInterrupt(k)
      PROVE  TypeOK'
  <2>1. task[k].runner \in Runners
    BY <1>24, OwnerTyped DEF FailInterrupt
  <2>2. "interrupted" \in Statuses
    BY DEF Statuses, Parked, Executing, Terminal
  <2>3. row' \in RowTable
    BY <1>24, <2>1, <2>2, ReleasedType, RowWritten DEF FailInterrupt
  <2> QED BY <1>24, <2>3, DoneType DEF FailInterrupt, TypeOK
<1>25. ASSUME NEW k \in Slots, FailStage(k)
      PROVE  TypeOK'
  <2>1. Stage(k, "failed")
    BY <1>25 DEF FailStage
  <2>2. task[k].runner \in Runners
    BY <2>1, OwnerTyped DEF Stage
  <2>3. row[task[k].runner] \in RowType
    BY <2>2, RowTyped
  <2>4. row[task[k].runner].revision + 1 \in Nat
    BY <2>3 DEF RowType
  <2>5. [row[task[k].runner] EXCEPT !.status = "finalizing", !.pending = "failed",
                                 !.revision = @ + 1] \in RowType
    BY <2>2, <2>3, <2>4 DEF RowType, Statuses, Parked, Executing, Terminal
  <2>6. row' \in RowTable
    BY <2>1, <2>2, <2>5, RowWritten DEF Stage, TypeOK, RowTable
  <2>7. task[k] \in TaskType
    BY TaskTyped
  <2>8. task[k].revision + 1 \in Nat
    BY <2>7 DEF TaskType
  <2> DEFINE t == [task[k] EXCEPT !.pc = "final", !.revision = @ + 1]
  <2>9. t \in TaskType /\ t.runner = task[k].runner
    BY <2>7, <2>8 DEF TaskType
  <2>10. task' \in TaskTable
    BY <2>1, <2>2, <2>9, TaskWritten DEF Stage, TypeOK, TaskTable
  <2> QED BY <1>25, <2>6, <2>10, <2>1 DEF FailStage, Stage, TypeOK
<1>26. ASSUME NEW k \in Slots, FinalizeRetry(k)
      PROVE  TypeOK'
  <2>1. task[k].runner \in Runners
    BY <1>26, OwnerTyped DEF FinalizeRetry
  <2>2. row[task[k].runner] \in RowType
    BY <2>1, RowTyped
  <2>3. row[task[k].runner].failures + 1 \in Nat
    BY <2>2 DEF RowType
  <2>4. row[task[k].runner].revision + 1 \in Nat
    BY <2>2 DEF RowType
  <2>5. [row[task[k].runner] EXCEPT !.failures = @ + 1, !.revision = @ + 1] \in RowType
    BY <2>1, <2>2, <2>3, <2>4 DEF RowType
  <2>6. row' \in RowTable
    BY <1>26, <2>1, <2>5, RowWritten DEF FinalizeRetry, TypeOK, RowTable
  <2> QED BY <1>26, <2>6, DoneType DEF FinalizeRetry, TypeOK
<1>27. ASSUME NEW k \in Slots, Abandon(k)
      PROVE  TypeOK'
  <2>1. task[k].runner \in Runners
    BY <1>27, OwnerTyped DEF Abandon
  <2> DEFINE r == task[k].runner
         d == Released(r, IF row[r].pending = "cancelled" THEN "cancelled" ELSE "failed")
  <2>2. d \in RowType
    BY <2>1, ReleasedType DEF Statuses, Parked, Executing, Terminal
  <2>3. [d EXCEPT !.pause = FALSE, !.resume = NoControl, !.abandoned = TRUE] \in RowType
    BY <2>2, ZenonT(60) DEF RowType
  <2>4. row' \in RowTable
    BY <1>27, <2>1, <2>3, RowWritten DEF Abandon, AbandonStatus
  <2>5. control' \in ControlTable
    BY <1>27, <2>1, ControlsType DEF Abandon
  <2>6. claim' \in ClaimTable
    BY <1>27, <2>1, ClaimWritten DEF Abandon
  <2> QED BY <1>27, <2>4, <2>5, <2>6, DoneType DEF Abandon, TypeOK
<1>28. ASSUME NEW k \in Slots, GiveUp(k)
      PROVE  TypeOK'
  BY <1>28, DoneType DEF GiveUp, TypeOK
<1>29. ASSUME NEW w \in Workers, NEW r \in Runners, PrepareResume(w, r)
      PROVE  TypeOK'
  <2> DEFINE d == [kind |-> "resume", runner |-> r, revision |-> row[r].revision,
               controlRevision |-> row[r].controlRevision, control |-> row[r].resume]
  <2>1. row[r] \in RowType
    BY RowTyped
  <2>2. d \in PreparedType
    BY <2>1 DEF RowType, PreparedType
  <2>3. d.kind = "resume" => d.control \in Controls
    BY <1>29, <2>1 DEF RowType, PrepareResume
  <2>4. prepared' \in PreparedTable
    BY <1>29, <2>2, <2>3, PreparedWritten DEF PrepareResume, Prepare
  <2> QED BY <1>29, <2>4 DEF PrepareResume, TypeOK
<1>30. ASSUME NEW w \in Workers, NEW r \in Runners, PrepareContinuous(w, r)
      PROVE  TypeOK'
  <2> DEFINE d == [kind |-> "continuous", runner |-> r, revision |-> row[r].revision,
               controlRevision |-> row[r].controlRevision, control |-> row[r].resume]
  <2>1. row[r] \in RowType
    BY RowTyped
  <2>2. d \in PreparedType
    BY <2>1 DEF RowType, PreparedType
  <2>3. d.kind = "resume" => d.control \in Controls
    BY <1>30, <2>1 DEF RowType, PrepareContinuous
  <2>4. prepared' \in PreparedTable
    BY <1>30, <2>2, <2>3, PreparedWritten DEF PrepareContinuous, Prepare
  <2> QED BY <1>30, <2>4 DEF PrepareContinuous, TypeOK
<1>31. ASSUME NEW w \in Workers, DropPrepared(w)
      PROVE  TypeOK'
  BY <1>31, PreparedCleared DEF DropPrepared, TypeOK
<1>32. ASSUME NEW w \in Workers, RejectResume(w)
      PROVE  TypeOK'
  <2> DEFINE r == prepared[w].runner  c == prepared[w].control
  <2>1. r \in Runners /\ c \in Controls
    BY <1>32, PreparedCurrent DEF RejectResume, ResumeCurrent
  <2>2. row[r] \in RowType
    BY <2>1, RowTyped
  <2>3. row[r].controlRevision + 1 \in Nat
    BY <2>2 DEF RowType
  <2>4. [row[r] EXCEPT !.resume = NoControl, !.controlRevision = @ + 1] \in RowType
    BY <2>1, <2>2, <2>3 DEF RowType
  <2>5. row' \in RowTable
    BY <1>32, <2>1, <2>4, RowWritten DEF RejectResume, TypeOK, RowTable
  <2>6. control' \in ControlTable
    BY <1>32, <2>1 DEF RejectResume, TypeOK, ControlTable, ControlType
  <2> QED BY <1>32, <2>5, <2>6, PreparedCleared DEF RejectResume, TypeOK
<1>33. ASSUME NEW w \in Workers, NEW permanent \in BOOLEAN, DeferContinuous(w, permanent)
      PROVE  TypeOK'
  <2> DEFINE r == prepared[w].runner
  <2>1. prepared[w].runner \in Runners
    BY <1>33, PreparedCurrent DEF DeferContinuous
  <2>2. row[r] \in RowType
    BY <2>1, RowTyped
  <2>3. row[r].revision + 1 \in Nat
    BY <2>2 DEF RowType
  <2>4. [row[r] EXCEPT !.held = permanent, !.revision = @ + 1] \in RowType
    BY <2>1, <2>2, <2>3 DEF RowType
  <2>5. row' \in RowTable
    BY <1>33, <2>1, <2>4, RowWritten DEF DeferContinuous, TypeOK, RowTable
  <2>6. faults' \in Nat
    BY <1>33 DEF DeferContinuous, TypeOK
  <2> QED BY <1>33, <2>5, <2>6, PreparedCleared DEF DeferContinuous, TypeOK
<1>34. ASSUME NEW r \in Runners, ExpireLease(r)
      PROVE  TypeOK'
  <2>1. row[r] \in RowType
    BY RowTyped
  <2>2. [row[r] EXCEPT !.lease = "expired"] \in RowType
    BY <2>1 DEF RowType
  <2>3. row' \in RowTable
    BY <1>34, <2>2, RowWritten DEF ExpireLease, TypeOK, RowTable
  <2> QED BY <1>34, <2>3 DEF ExpireLease, TypeOK
<1>35. ASSUME NEW r \in Runners, ReapExpired(r)
      PROVE  TypeOK'
  <2>1. row' \in RowTable
    BY <1>35, ReleasedType, RowWritten DEF ReapExpired, Statuses, Parked, Executing, Terminal
  <2> QED BY <1>35, <2>1 DEF ReapExpired, TypeOK
<1>36. ASSUME NEW r \in Runners, ReleaseReady(r)
      PROVE  TypeOK'
  <2>1. row[r] \in RowType
    BY RowTyped
  <2>2. row[r].blocked.revision \in Nat /\ row[r].revision + 1 \in Nat /\ row[r].blocked \in [attempt : Nat, revision : Nat, ready : BOOLEAN]
    BY <2>1 DEF RowType
  <2>3. [row[r].blocked EXCEPT !.ready = TRUE, !.revision = row[r].revision + 1]
           \in [attempt : Nat, revision : Nat, ready : BOOLEAN]
    BY <2>2
  <2>4. row[r].revision + 1 \in Nat
    BY <2>1 DEF RowType
  <2>5. [row[r] EXCEPT !.blocked = [row[r].blocked EXCEPT !.ready = TRUE, !.revision = row[r].revision + 1],
                    !.revision = @ + 1] \in RowType
    BY <2>2, <2>3, <2>1, <2>4 DEF RowType
  <2>6. row' \in RowTable
    BY <1>36, <2>5, RowWritten DEF ReleaseReady, TypeOK, RowTable
  <2> QED BY <1>36, <2>6 DEF ReleaseReady, TypeOK
<1>37. ASSUME NEW r \in Runners, EffectKnown(r)
      PROVE  TypeOK'
  BY <1>37 DEF EffectKnown, TypeOK
<1>38. ASSUME NEW k \in Slots, Raise(k)
      PROVE  TypeOK'
  <2>1. task[k].runner \in Runners
    BY <1>38, RunnerTyped DEF Raise
  <2>2. task[k] \in TaskType
    BY TaskTyped
  <2> DEFINE t == [task[k] EXCEPT !.pc = "failed"]
  <2>3. t \in TaskType /\ t.runner = task[k].runner
    BY <2>2 DEF TaskType
  <2>4. task' \in TaskTable
    BY <1>38, <2>1, <2>3, TaskWritten DEF Raise, TypeOK, TaskTable
  <2>5. faults' \in Nat
    BY <1>38 DEF Raise, TypeOK
  <2> QED BY <1>38, <2>4, <2>5 DEF Raise, TypeOK
<1>39. ASSUME NEW k \in Slots, Stall(k)
      PROVE  TypeOK'
  <2>1. task[k].runner \in Runners
    BY <1>39, OwnerTyped DEF Stall
  <2>2. row[task[k].runner] \in RowType
    BY <2>1, RowTyped
  <2>3. [row[task[k].runner] EXCEPT !.lease = "expired"] \in RowType
    BY <2>1, <2>2 DEF RowType
  <2>4. row' \in RowTable
    BY <1>39, <2>1, <2>3, RowWritten DEF Stall, TypeOK, RowTable
  <2>5. faults' \in Nat
    BY <1>39 DEF Stall, TypeOK
  <2> QED BY <1>39, <2>4, <2>5 DEF Stall, TypeOK
<1>40. ASSUME NEW w \in Workers, Crash(w)
      PROVE  TypeOK'
  <2>1. task' \in TaskTable
    BY <1>40 DEF Crash, TypeOK, TaskTable, TaskType, Idle
  <2>2. faults' \in Nat
    BY <1>40 DEF Crash, TypeOK
  <2> QED BY <1>40, <2>1, <2>2, PreparedCleared DEF Crash, TypeOK
<1>41. ASSUME NEW r \in Runners, EffectLost(r)
      PROVE  TypeOK'
  BY <1>41 DEF EffectLost, TypeOK
<1>42. ASSUME NEW k \in Slots, DetachWait(k)
      PROVE  TypeOK'
  <2>1. task[k].runner \in Runners
    BY <1>42, OwnerTyped DEF DetachWait
  <2>2. row[task[k].runner] \in RowType /\ task[k] \in TaskType
    BY <2>1, RowTyped, TaskTyped
  <2>3. row[task[k].runner].revision + 1 \in Nat
    BY <2>2 DEF RowType
  <2>4. [row[task[k].runner] EXCEPT !.detached = TRUE, !.revision = @ + 1] \in RowType
    BY <2>1, <2>2, <2>3 DEF RowType
  <2>5. row' \in RowTable
    BY <1>42, <2>1, <2>4, RowWritten DEF DetachWait, TypeOK, RowTable
  <2> DEFINE t == [task[k] EXCEPT !.revision = row[task[k].runner].revision + 1]
  <2>6. t \in TaskType /\ t.runner = task[k].runner
    BY <2>2, <2>3 DEF TaskType
  <2>7. task' \in TaskTable
    BY <1>42, <2>1, <2>6, TaskWritten DEF DetachWait, TypeOK, TaskTable
  <2> QED BY <1>42, <2>5, <2>7 DEF DetachWait, TypeOK
<1>43. ASSUME NEW k \in Slots, CancelUnconfirmed(k)
      PROVE  TypeOK'
  <2>1. task[k].runner \in Runners
    BY <1>43, OwnerTyped DEF CancelUnconfirmed
  <2> DEFINE t == [task[k] EXCEPT !.pc = "hold"]
  <2>2. t \in TaskType /\ t.runner = task[k].runner
    BY TaskTyped DEF TaskType
  <2>3. task' \in TaskTable
    BY <1>43, <2>1, <2>2, TaskWritten DEF CancelUnconfirmed, TypeOK, TaskTable
  <2> QED BY <1>43, <2>3 DEF CancelUnconfirmed, TypeOK
<1>44. CASE UNCHANGED vars
  BY <1>44 DEF vars, TypeOK
<1> QED
  BY <1>1, <1>2, <1>3, <1>4, <1>5, <1>6, <1>7, <1>8, <1>9, <1>10, <1>11, <1>12, <1>13, <1>14,
    <1>15, <1>16, <1>17, <1>18, <1>19, <1>20, <1>21, <1>22, <1>23, <1>24, <1>25, <1>26, <1>27,
    <1>28, <1>29, <1>30, <1>31, <1>32, <1>33, <1>34, <1>35, <1>36, <1>37, <1>38, <1>39, <1>40,
    <1>41, <1>42, <1>43, <1>44
  DEF Next, User, Acquire, Scan, Execute, Recover, Sweep, Fault

\* TypeOK is inductive: the tables and the workers' memory keep their types, and every
\* coroutine and every prepared recovery names an existing runner.
THEOREM TypeCorrect == Spec => []TypeOK
<1>1. Init => TypeOK
  BY ConstantsAssumption, TypeInit
<1>2. TypeOK /\ [Next]_vars => TypeOK'
  BY ConstantsAssumption, TypeNext
<1> QED BY <1>1, <1>2, PTL DEF Spec

=============================================================================
