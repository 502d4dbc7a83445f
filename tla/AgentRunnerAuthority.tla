----------------------- MODULE AgentRunnerAuthority -----------------------
(***************************************************************************)
(* Who may act: a session is claimed exactly by its active runner, and the  *)
(* fence of lock_runner leaves at most one coroutine per runner.            *)
(***************************************************************************)
EXTENDS AgentRunnerProofs

\* Why the fence works: an attempt number is given out once.  A coroutine holds a number its
\* row has reached, and no two coroutines hold the same number of the same runner.
AttemptsDistinct ==
  /\ \A k \in Slots : task[k].pc # "idle" => task[k].attempt <= row[task[k].runner].attempt
  /\ \A j, k \in Slots :
       /\ task[j].pc # "idle" /\ task[k].pc # "idle"
       /\ task[j].runner = task[k].runner /\ task[j].attempt = task[k].attempt
       => j = k

AuthorityInv == ClaimIffActive /\ AttemptsDistinct

\* What a step that acquires nothing does to the coroutines.
TasksKept ==
  \A k \in Slots :
    \/ task'[k].pc = "idle"
    \/ /\ task[k].pc # "idle"
       /\ task'[k].runner = task[k].runner
       /\ task'[k].attempt = task[k].attempt

ActiveStatuses == Parked \union Executing

-----------------------------------------------------------------------------
(* The fields of a row that an update leaves. *)

LEMMA ReleasedFields ==
  ASSUME TypeOK, NEW r \in Runners, NEW status
  PROVE  Released(r, status).status = status /\ Released(r, status).attempt = row[r].attempt
<1>1. row[r] \in RowType
  BY RowTyped
<1> QED BY <1>1 DEF RowType, Released

LEMMA StartedFields ==
  ASSUME TypeOK, NEW r \in Runners, NEW k \in Slots
  PROVE  /\ Started(r, k).status = row[r].status
         /\ Started(r, k).attempt = row[r].attempt + 1
<1>1. row[r] \in RowType
  BY RowTyped
<1> QED BY <1>1 DEF RowType, Started

LEMMA OwnerActive ==
  ASSUME NEW k \in Slots, Owns(k)
  PROVE  Active(task[k].runner)
BY DEF Owns, Active

LEMMA SameTasks ==
  ASSUME UNCHANGED task
  PROVE  TasksKept
BY DEF TasksKept

LEMMA DoneTasks ==
  ASSUME TypeOK, NEW k \in Slots, task' = Done(k)
  PROVE  TasksKept
<1>1. ASSUME NEW j \in Slots
      PROVE  task'[j] = IF j = k THEN Idle ELSE task[j]
  BY DEF TypeOK, TaskTable, Done
<1> QED BY <1>1 DEF TasksKept, Idle

\* A coroutine changes what it remembers, not the attempt it is.
LEMMA ChangedTask ==
  ASSUME TypeOK, NEW k \in Slots, task[k].pc # "idle", NEW t, task' = [task EXCEPT ![k] = t],
         t.runner = task[k].runner, t.attempt = task[k].attempt
  PROVE  TasksKept
<1>1. ASSUME NEW j \in Slots
      PROVE  task'[j] = IF j = k THEN t ELSE task[j]
  BY DEF TypeOK, TaskTable
<1> QED BY <1>1 DEF TasksKept

\* A step that starts no attempt preserves AttemptsDistinct ...
LEMMA AttemptsKept ==
  ASSUME TypeOK, AttemptsDistinct, TasksKept,
         \A q \in Runners : row'[q].attempt = row[q].attempt
  PROVE  AttemptsDistinct'
<1>1. ASSUME NEW k \in Slots, task'[k].pc # "idle"
      PROVE  /\ task[k].pc # "idle" /\ task[k].runner \in Runners
             /\ task'[k].runner = task[k].runner /\ task'[k].attempt = task[k].attempt
  BY <1>1, RunnerTyped DEF TasksKept
<1>2. ASSUME NEW k \in Slots, task'[k].pc # "idle"
      PROVE  task'[k].attempt <= row'[task'[k].runner].attempt
  BY <1>1, <1>2 DEF AttemptsDistinct
<1>3. ASSUME NEW j \in Slots, NEW k \in Slots, task'[j].pc # "idle", task'[k].pc # "idle",
             task'[j].runner = task'[k].runner, task'[j].attempt = task'[k].attempt
      PROVE  j = k
  <2>1. /\ task[j].pc # "idle" /\ task[k].pc # "idle"
        /\ task[j].runner = task[k].runner /\ task[j].attempt = task[k].attempt
    BY <1>1, <1>3
  <2> QED BY <2>1 DEF AttemptsDistinct
<1> QED BY <1>2, <1>3 DEF AttemptsDistinct

\* ... and one that starts an attempt gives it a number nobody has.
LEMMA AttemptsBegun ==
  ASSUME TypeOK, AttemptsDistinct, NEW r \in Runners, NEW k \in Slots, NEW d \in RowType, NEW pc,
         row' = [row EXCEPT ![r] = d], d.attempt = row[r].attempt + 1,
         task[k].pc = "idle", task' = Begun(r, k, d, pc)
  PROVE  AttemptsDistinct'
<1>1. ASSUME NEW q \in Runners
      PROVE  /\ row[q].attempt \in Nat
             /\ row'[q].attempt = IF q = r THEN row[r].attempt + 1 ELSE row[q].attempt
  <2>1. row[q] \in RowType
    BY RowTyped
  <2> QED BY <2>1 DEF TypeOK, RowTable, RowType
<1>2. task'[k].runner = r /\ task'[k].attempt = row[r].attempt + 1
  BY DEF Begun, TypeOK, TaskTable
<1>3. ASSUME NEW j \in Slots, j # k
      PROVE  task'[j] = task[j]
  BY <1>3 DEF Begun, TypeOK, TaskTable
<1>4. ASSUME NEW j \in Slots, task[j].pc # "idle"
      PROVE  /\ task[j].runner \in Runners /\ task[j].attempt \in Nat
             /\ task[j].attempt <= row[task[j].runner].attempt
  <2>1. task[j] \in TaskType
    BY TaskTyped
  <2>2. task[j].attempt \in Nat
    BY <2>1 DEF TaskType
  <2> QED BY <1>4, <2>2, RunnerTyped DEF AttemptsDistinct
<1>5. ASSUME NEW j \in Slots, task'[j].pc # "idle"
      PROVE  task'[j].attempt <= row'[task'[j].runner].attempt
  <2>1. CASE j = k
    BY <1>1, <1>2, <2>1
  <2>2. CASE j # k
    <3>1. task'[j] = task[j] /\ task[j].pc # "idle"
      BY <1>3, <1>5, <2>2
    <3> QED BY <1>1, <1>4, <3>1
  <2> QED BY <2>1, <2>2
<1>6. ASSUME NEW j \in Slots, j # k, task'[j].pc # "idle", task'[j].runner = r
      PROVE  task'[j].attempt # task'[k].attempt
  <2>1. task'[j] = task[j] /\ task[j].pc # "idle"
    BY <1>3, <1>6
  <2>2. task[j].attempt <= row[r].attempt /\ task[j].attempt \in Nat
    BY <1>4, <1>6, <2>1
  <2> QED BY <1>1, <1>2, <2>1, <2>2
<1>7. ASSUME NEW i \in Slots, NEW j \in Slots, task'[i].pc # "idle", task'[j].pc # "idle",
             task'[i].runner = task'[j].runner, task'[i].attempt = task'[j].attempt
      PROVE  i = j
  <2>1. CASE i = k \/ j = k
    BY <1>2, <1>6, <1>7, <2>1
  <2>2. CASE i # k /\ j # k
    BY <1>3, <1>7, <2>2 DEF AttemptsDistinct
  <2> QED BY <2>1, <2>2
<1> QED BY <1>5, <1>7 DEF AttemptsDistinct

-----------------------------------------------------------------------------
(* The shapes of a step. *)

\* Nothing but memory moves.
LEMMA MemoryStep ==
  ASSUME TypeOK, AuthorityInv, UNCHANGED <<row, claim>>, TasksKept
  PROVE  AuthorityInv'
<1>1. AttemptsDistinct'
  BY AttemptsKept DEF AuthorityInv
<1>2. ClaimIffActive'
  BY DEF AuthorityInv, ClaimIffActive, ClaimedBy, Active
<1> QED BY <1>1, <1>2 DEF AuthorityInv

\* One row is rewritten, no claim moves: the runner stays active, or stays inactive.
LEMMA RowStep ==
  ASSUME TypeOK, AuthorityInv, TasksKept, UNCHANGED claim,
         NEW r \in Runners, NEW d, row' = [row EXCEPT ![r] = d],
         d.attempt = row[r].attempt, Active(r) <=> d.status \in ActiveStatuses
  PROVE  AuthorityInv'
<1>1. ASSUME NEW q \in Runners
      PROVE  row'[q] = IF q = r THEN d ELSE row[q]
  BY DEF TypeOK, RowTable
<1>2. AttemptsDistinct'
  BY <1>1, AttemptsKept DEF AuthorityInv
<1>3. ClaimIffActive'
  BY <1>1 DEF AuthorityInv, ClaimIffActive, ClaimedBy, Active, ActiveStatuses
<1> QED BY <1>2, <1>3 DEF AuthorityInv

\* An active runner starts its next attempt under the claim it has.
LEMMA StartStep ==
  ASSUME TypeOK, AuthorityInv, UNCHANGED claim,
         NEW r \in Runners, NEW k \in Slots, NEW d \in RowType, NEW pc,
         row' = [row EXCEPT ![r] = d], d.attempt = row[r].attempt + 1,
         Active(r), d.status \in ActiveStatuses,
         task[k].pc = "idle", task' = Begun(r, k, d, pc)
  PROVE  AuthorityInv'
<1>1. ASSUME NEW q \in Runners
      PROVE  row'[q] = IF q = r THEN d ELSE row[q]
  BY DEF TypeOK, RowTable
<1>2. AttemptsDistinct'
  BY AttemptsBegun DEF AuthorityInv
<1>3. ClaimIffActive'
  BY <1>1 DEF AuthorityInv, ClaimIffActive, ClaimedBy, Active, ActiveStatuses
<1> QED BY <1>2, <1>3 DEF AuthorityInv

\* Both ways to give up the claim of a runner free its session and no other.
LEMMA ClaimEnds ==
  ASSUME ConstantsAssumption, TypeOK, NEW r \in Runners, ClaimedBy(r),
         \/ claim' = [claim EXCEPT ![SessionOf[r]] = NoRunner]
         \/ claim' = [s \in Sessions |-> IF claim[s] = r THEN NoRunner ELSE claim[s]]
  PROVE  ~ClaimedBy(r)' /\ \A q \in Runners \ {r} : ClaimedBy(q)' <=> ClaimedBy(q)
<1>1. ASSUME NEW q \in Runners
      PROVE  SessionOf[q] \in Sessions /\ q # NoRunner
  BY DEF ConstantsAssumption
<1>2. ASSUME NEW q \in Runners
      PROVE  \/ claim'[SessionOf[q]] = claim[SessionOf[q]] /\ SessionOf[q] # SessionOf[r]
             \/ claim'[SessionOf[q]] = NoRunner /\ claim[SessionOf[q]] = r
             \/ claim'[SessionOf[q]] = claim[SessionOf[q]] /\ claim[SessionOf[q]] # r
  BY <1>1 DEF TypeOK, ClaimTable, ClaimedBy
<1> QED BY <1>1, <1>2 DEF ClaimedBy

\* A runner ends and its session is free, in one transaction; no other claim moves.
LEMMA EndStep ==
  ASSUME TypeOK, AuthorityInv, TasksKept,
         NEW r \in Runners, NEW d, row' = [row EXCEPT ![r] = d],
         d.attempt = row[r].attempt, d.status \notin ActiveStatuses,
         ~ClaimedBy(r)', \A q \in Runners \ {r} : ClaimedBy(q)' <=> ClaimedBy(q)
  PROVE  AuthorityInv'
<1>1. ASSUME NEW q \in Runners
      PROVE  row'[q] = IF q = r THEN d ELSE row[q]
  BY DEF TypeOK, RowTable
<1>2. AttemptsDistinct'
  BY <1>1, AttemptsKept DEF AuthorityInv
<1>3. ASSUME NEW q \in Runners
      PROVE  Active(q)' <=> ClaimedBy(q)'
  <2>1. CASE q = r
    BY <1>1, <2>1 DEF Active, ActiveStatuses
  <2>2. CASE q # r
    BY <1>1, <2>2 DEF AuthorityInv, ClaimIffActive, Active
  <2> QED BY <2>1, <2>2
<1> QED BY <1>2, <1>3 DEF AuthorityInv, ClaimIffActive

-----------------------------------------------------------------------------
(* The invariant. *)

LEMMA AuthorityInit ==
  ASSUME ConstantsAssumption, Init
  PROVE  AuthorityInv
BY DEF ConstantsAssumption, Init, AuthorityInv, ClaimIffActive, ClaimedBy, Active,
       AttemptsDistinct, NewRow, Idle, Parked, Executing

LEMMA StageStep ==
  ASSUME TypeOK, AuthorityInv, NEW k \in Slots, NEW result, Stage(k, result)
  PROVE  AuthorityInv'
<1> DEFINE r == task[k].runner
           d == [row[r] EXCEPT !.status = "finalizing", !.pending = result, !.revision = @ + 1]
           t == [task[k] EXCEPT !.pc = "final", !.revision = @ + 1]
<1>1. Owns(k)
  BY DEF Stage
<1>2. r \in Runners /\ Active(r)
  BY <1>1, OwnerTyped, OwnerActive
<1>3. row[r] \in RowType /\ task[k] \in TaskType
  BY <1>2, RowTyped, TaskTyped
<1>4. d.attempt = row[r].attempt /\ d.status = "finalizing"
  BY <1>3 DEF RowType
<1>5. row' = [row EXCEPT ![r] = d] /\ task' = [task EXCEPT ![k] = t] /\ UNCHANGED claim
  BY DEF Stage
<1>6. t.runner = task[k].runner /\ t.attempt = task[k].attempt
  BY <1>3 DEF TaskType
<1>7. task[k].pc # "idle"
  BY <1>1 DEF Owns
<1>8. TasksKept
  BY <1>5, <1>6, <1>7, ChangedTask
<1>9. d.status \in ActiveStatuses
  BY <1>4 DEF ActiveStatuses, Executing
<1> QED BY <1>2, <1>4, <1>5, <1>8, <1>9, RowStep

LEMMA AuthorityNext ==
  ASSUME ConstantsAssumption, TypeOK, AuthorityInv, [Next]_vars
  PROVE  AuthorityInv'
<1>1. ASSUME NEW r \in Runners, Submit(r)
      PROVE  AuthorityInv'
  <2> DEFINE d == [row[r] EXCEPT !.status = "queued"]
  <2>1. row[r] \in RowType
    BY RowTyped
  <2>2. d.attempt = row[r].attempt /\ d.status = "queued"
    BY <2>1 DEF RowType
  <2>3. row' = [row EXCEPT ![r] = d]
    BY <1>1 DEF Submit
  <2>4. Active(r) <=> d.status \in ActiveStatuses
    BY <1>1, <2>2 DEF Submit, Active, ActiveStatuses, Parked, Executing, Terminal
  <2>5. TasksKept
    BY <1>1, SameTasks DEF Submit
  <2> QED BY <1>1, <2>2, <2>3, <2>4, <2>5, RowStep DEF Submit
<1>2. ASSUME NEW r \in Runners, Cancel(r)
      PROVE  AuthorityInv'
  <2> DEFINE status == IF row[r].status = "queued" THEN "cancelled" ELSE row[r].status
             revision == IF row[r].status = "queued" THEN row[r].revision + 1
                         ELSE row[r].revision
             d == [row[r] EXCEPT !.status = status, !.revision = revision, !.cancel = TRUE,
                                 !.controlRevision = @ + 1, !.pause = FALSE,
                                 !.resume = NoControl]
  <2>1. row' = [row EXCEPT ![r] = d]
    BY <1>2 DEF Cancel, CancelRevision
  <2>2. Active(r) <=> status \in ActiveStatuses
    BY <1>2 DEF Cancel, Active, ActiveStatuses, Parked, Executing
  <2> HIDE DEF status, revision
  <2>3. row[r] \in RowType
    BY RowTyped
  <2>4. d.attempt = row[r].attempt /\ d.status = status
    BY <2>3 DEF RowType
  <2>5. UNCHANGED <<claim, task>>
    BY <1>2 DEF Cancel, CancelRevision
  <2>6. TasksKept
    BY <2>5, SameTasks
  <2> QED BY <2>1, <2>2, <2>4, <2>5, <2>6, RowStep
<1>3. ASSUME NEW r \in Runners, EndWaiting(r)
      PROVE  AuthorityInv'
  <2> DEFINE d == [row[r] EXCEPT !.detached = TRUE, !.blocked = NoBlock, !.cancel = TRUE,
               !.pause = FALSE, !.resume = NoControl, !.revision = @ + 1,
               !.controlRevision = @ + 1]
  <2>1. row[r] \in RowType
    BY RowTyped
  <2>2. d.attempt = row[r].attempt /\ d.status = row[r].status
    BY <2>1 DEF RowType
  <2>3. row' = [row EXCEPT ![r] = d]
    BY <1>3 DEF EndWaiting
  <2>4. Active(r) <=> d.status \in ActiveStatuses
    BY <1>3, <2>2 DEF EndWaiting, Active, ActiveStatuses, Parked, Executing, Terminal
  <2>5. TasksKept
    BY <1>3, SameTasks DEF EndWaiting
  <2> QED BY <1>3, <2>2, <2>3, <2>4, <2>5, RowStep DEF EndWaiting
<1>4. ASSUME NEW r \in Runners, NEW c \in Controls, SubmitPause(r, c)
      PROVE  AuthorityInv'
  <2> DEFINE d == [row[r] EXCEPT !.pause = TRUE, !.resume = NoControl, !.controlRevision = @ + 1]
  <2>1. row[r] \in RowType
    BY RowTyped
  <2>2. d.attempt = row[r].attempt /\ d.status = row[r].status
    BY <2>1 DEF RowType
  <2>3. row' = [row EXCEPT ![r] = d]
    BY <1>4 DEF SubmitPause
  <2>4. Active(r) <=> d.status \in ActiveStatuses
    BY <1>4, <2>2 DEF SubmitPause, Active, ActiveStatuses, Parked, Executing, Terminal
  <2>5. TasksKept
    BY <1>4, SameTasks DEF SubmitPause
  <2> QED BY <1>4, <2>2, <2>3, <2>4, <2>5, RowStep DEF SubmitPause
<1>5. ASSUME NEW r \in Runners, NEW c \in Controls, SubmitResume(r, c)
      PROVE  AuthorityInv'
  <2> DEFINE d == [row[r] EXCEPT !.resume = c, !.controlRevision = @ + 1]
  <2>1. row[r] \in RowType
    BY RowTyped
  <2>2. d.attempt = row[r].attempt /\ d.status = row[r].status
    BY <2>1 DEF RowType
  <2>3. row' = [row EXCEPT ![r] = d]
    BY <1>5 DEF SubmitResume
  <2>4. Active(r) <=> d.status \in ActiveStatuses
    BY <1>5, <2>2 DEF SubmitResume, Active, ActiveStatuses, Parked, Executing, Terminal
  <2>5. TasksKept
    BY <1>5, SameTasks DEF SubmitResume
  <2> QED BY <1>5, <2>2, <2>3, <2>4, <2>5, RowStep DEF SubmitResume
<1>6. ASSUME NEW r \in Runners, NEW k \in Slots, AcquireQueued(r, k)
      PROVE  AuthorityInv'
  <2> DEFINE d == [Started(r, k) EXCEPT !.status = "running"]
             pc == IF d.pause THEN "unstarted" ELSE "run"
  <2>1. Started(r, k) \in RowType
    BY StartedType
  <2>2. d \in RowType /\ d.status = "running" /\ d.attempt = row[r].attempt + 1
    BY <2>1, StartedFields DEF RowType, Statuses, Executing
  <2>3. row' = [row EXCEPT ![r] = d] /\ task' = Begun(r, k, d, pc) /\ task[k].pc = "idle"
    BY <1>6 DEF AcquireQueued
  <2>4. AttemptsDistinct'
    BY <2>2, <2>3, AttemptsBegun DEF AuthorityInv
  <2> HIDE DEF d, pc
  <2>5. \A q \in Runners : row'[q] = IF q = r THEN d ELSE row[q]
    BY <2>3 DEF TypeOK, RowTable
  <2>6. \A q \in Runners : claim'[SessionOf[q]] = IF SessionOf[q] = SessionOf[r] THEN r
                                                   ELSE claim[SessionOf[q]]
    BY <1>6 DEF AcquireQueued, ConstantsAssumption, TypeOK, ClaimTable
  <2>7. ASSUME NEW q \in Runners
        PROVE  Active(q)' <=> ClaimedBy(q)'
    <3>1. CASE q = r
      BY <2>2, <2>5, <2>6, <3>1 DEF Active, ClaimedBy, Executing
    <3>2. CASE q # r /\ SessionOf[q] = SessionOf[r]
      <4>1. ~ClaimedBy(q)
        BY <1>6, <3>2 DEF AcquireQueued, Available, ClaimedBy, ConstantsAssumption
      <4> QED BY <2>5, <2>6, <3>2, <4>1 DEF AuthorityInv, ClaimIffActive, Active, ClaimedBy
    <3>3. CASE q # r /\ SessionOf[q] # SessionOf[r]
      BY <2>5, <2>6, <3>3 DEF AuthorityInv, ClaimIffActive, Active, ClaimedBy
    <3> QED BY <3>1, <3>2, <3>3
  <2> QED BY <2>4, <2>7 DEF AuthorityInv, ClaimIffActive
<1>7. ASSUME NEW r \in Runners, NEW k \in Slots, AcquireFinalizing(r, k)
      PROVE  AuthorityInv'
  <2> DEFINE d == Started(r, k)
             pc == IF d.pending = "none" THEN "cancel" ELSE "final"
  <2>1. d \in RowType /\ d.status = row[r].status /\ d.attempt = row[r].attempt + 1
    BY StartedType, StartedFields
  <2>2. row' = [row EXCEPT ![r] = d] /\ task' = Begun(r, k, d, pc) /\ task[k].pc = "idle"
    BY <1>7 DEF AcquireFinalizing
  <2>3. Active(r) /\ row[r].status \in ActiveStatuses
    BY <1>7 DEF AcquireFinalizing, Active, ActiveStatuses, Parked, Executing
  <2> QED BY <1>7, <2>1, <2>2, <2>3, StartStep DEF AcquireFinalizing
<1>8. ASSUME NEW r \in Runners, NEW k \in Slots, AcquireCancelled(r, k)
      PROVE  AuthorityInv'
  <2> DEFINE d == [Started(r, k) EXCEPT !.status = "finalizing", !.cancelOnly = TRUE,
                                            !.blocked = NoBlock]
  <2>1. Started(r, k) \in RowType
    BY StartedType
  <2>2. d \in RowType /\ d.status = "finalizing" /\ d.attempt = row[r].attempt + 1
    BY <2>1, StartedFields DEF RowType, NoBlock, Statuses, Executing
  <2>3. row' = [row EXCEPT ![r] = d] /\ task' = Begun(r, k, d, "cancel") /\ task[k].pc = "idle"
    BY <1>8 DEF AcquireCancelled
  <2>4. Active(r) /\ d.status \in ActiveStatuses
    BY <1>8, <2>2 DEF AcquireCancelled, Active, ActiveStatuses, Parked, Executing
  <2> QED BY <1>8, <2>2, <2>3, <2>4, StartStep DEF AcquireCancelled
<1>9. ASSUME NEW k \in Slots, ClaimResume(k)
      PROVE  AuthorityInv'
  <2> DEFINE r == prepared[WorkerOf[k]].runner
             d == [Started(r, k) EXCEPT !.status = "running", !.pause = FALSE, !.resume = NoControl,
                                        !.controlRevision = @ + 1, !.held = FALSE]
  <2>1. WorkerOf[k] \in Workers
    BY DEF ConstantsAssumption
  <2>2. r \in Runners
    BY <1>9, <2>1, PreparedCurrent DEF ClaimResume
  <2>3. Started(r, k) \in RowType
    BY <2>2, StartedType
  <2>4. Started(r, k).controlRevision + 1 \in Nat
    BY <2>3 DEF RowType
  <2>5. d \in RowType /\ d.status = "running" /\ d.attempt = row[r].attempt + 1
    BY <2>2, <2>3, <2>4, StartedFields DEF RowType, Statuses, Executing
  <2>6. row' = [row EXCEPT ![r] = d] /\ task' = Begun(r, k, d, "run") /\ task[k].pc = "idle"
    BY <1>9 DEF ClaimResume
  <2>7. Active(r) /\ d.status \in ActiveStatuses
    BY <1>9, <2>5 DEF ClaimResume, ResumeCurrent, Active, ActiveStatuses, Parked, Executing
  <2> QED BY <1>9, <2>2, <2>5, <2>6, <2>7, StartStep DEF ClaimResume
<1>10. ASSUME NEW k \in Slots, ClaimContinuous(k)
      PROVE  AuthorityInv'
  <2> DEFINE r == prepared[WorkerOf[k]].runner
             d == [Started(r, k) EXCEPT !.status = "running"]
  <2>1. WorkerOf[k] \in Workers
    BY DEF ConstantsAssumption
  <2>2. r \in Runners
    BY <1>10, <2>1, PreparedCurrent DEF ClaimContinuous
  <2>3. Started(r, k) \in RowType
    BY <2>2, StartedType
  <2>4. Started(r, k).controlRevision + 1 \in Nat
    BY <2>3 DEF RowType
  <2>5. d \in RowType /\ d.status = "running" /\ d.attempt = row[r].attempt + 1
    BY <2>2, <2>3, <2>4, StartedFields DEF RowType, Statuses, Executing
  <2>6. row' = [row EXCEPT ![r] = d] /\ task' = Begun(r, k, d, "run") /\ task[k].pc = "idle"
    BY <1>10 DEF ClaimContinuous
  <2>7. Active(r) /\ d.status \in ActiveStatuses
    BY <1>10, <2>5 DEF ClaimContinuous, ContinuousCurrent, ContinuousCandidate, Active,
      ActiveStatuses, Parked, Executing
  <2> QED BY <1>10, <2>2, <2>5, <2>6, <2>7, StartStep DEF ClaimContinuous
<1>11. ASSUME NEW k \in Slots, Heartbeat(k)
      PROVE  AuthorityInv'
  <2> DEFINE t == [task[k] EXCEPT !.cancel = row[task[k].runner].cancel,
                                 !.pause = row[task[k].runner].pause]
  <2>1. task[k].pc # "idle"
    BY <1>11 DEF Heartbeat, Owns
  <2>2. task[k] \in TaskType
    BY TaskTyped
  <2>3. t.runner = task[k].runner /\ t.attempt = task[k].attempt
    BY <2>2 DEF TaskType
  <2>4. TasksKept
    BY <1>11, <2>1, <2>3, ChangedTask DEF Heartbeat
  <2> QED BY <1>11, <2>4, MemoryStep DEF Heartbeat
<1>12. ASSUME NEW k \in Slots, Checkpoint(k)
      PROVE  AuthorityInv'
  <2> DEFINE r == task[k].runner
             d == [row[r] EXCEPT !.revision = @ + 1]
             t == [task[k] EXCEPT !.revision = @ + 1, !.cancel = row[r].cancel,
                                 !.pause = row[r].pause]
  <2>1. Owns(k)
    BY <1>12 DEF Checkpoint
  <2>2. r \in Runners /\ Active(r)
    BY <2>1, OwnerTyped, OwnerActive
  <2>3. row[r] \in RowType
    BY <2>2, RowTyped
  <2>4. d.attempt = row[r].attempt /\ d.status = row[r].status
    BY <2>3 DEF RowType
  <2>5. row' = [row EXCEPT ![r] = d]
    BY <1>12 DEF Checkpoint
  <2>6. d.status \in ActiveStatuses
    BY <1>12, <2>4 DEF Checkpoint, Owns, ActiveStatuses, Parked, Executing
  <2>7. task[k] \in TaskType
    BY TaskTyped
  <2>8. t.runner = task[k].runner /\ t.attempt = task[k].attempt
    BY <2>7 DEF TaskType
  <2>9. TasksKept
    BY <1>12, <2>1, <2>8, ChangedTask DEF Checkpoint, Owns
  <2> QED BY <1>12, <2>2, <2>4, <2>5, <2>6, <2>9, RowStep DEF Checkpoint
<1>13. ASSUME NEW k \in Slots, Dispatch(k)
      PROVE  AuthorityInv'
  <2> DEFINE r == task[k].runner
             d == [row[r] EXCEPT !.revision = @ + 1]
             t == [task[k] EXCEPT !.revision = @ + 1, !.cancel = FALSE, !.pause = FALSE]
  <2>1. Owns(k)
    BY <1>13 DEF Dispatch
  <2>2. r \in Runners /\ Active(r)
    BY <2>1, OwnerTyped, OwnerActive
  <2>3. row[r] \in RowType
    BY <2>2, RowTyped
  <2>4. d.attempt = row[r].attempt /\ d.status = row[r].status
    BY <2>3 DEF RowType
  <2>5. row' = [row EXCEPT ![r] = d]
    BY <1>13 DEF Dispatch
  <2>6. d.status \in ActiveStatuses
    BY <1>13, <2>4 DEF Dispatch, Owns, ActiveStatuses, Parked, Executing
  <2>7. task[k] \in TaskType
    BY TaskTyped
  <2>8. t.runner = task[k].runner /\ t.attempt = task[k].attempt
    BY <2>7 DEF TaskType
  <2>9. TasksKept
    BY <1>13, <2>1, <2>8, ChangedTask DEF Dispatch, Owns
  <2> QED BY <1>13, <2>2, <2>4, <2>5, <2>6, <2>9, RowStep DEF Dispatch
<1>14. ASSUME NEW k \in Slots, DispatchRefused(k)
      PROVE  AuthorityInv'
  <2> DEFINE t == [task[k] EXCEPT !.cancel = row[task[k].runner].cancel,
                                 !.pause = ~row[task[k].runner].cancel]
  <2>1. task[k].pc # "idle"
    BY <1>14 DEF DispatchRefused, Owns
  <2>2. task[k] \in TaskType
    BY TaskTyped
  <2>3. t.runner = task[k].runner /\ t.attempt = task[k].attempt
    BY <2>2 DEF TaskType
  <2>4. TasksKept
    BY <1>14, <2>1, <2>3, ChangedTask DEF DispatchRefused
  <2> QED BY <1>14, <2>4, MemoryStep DEF DispatchRefused
<1>15. ASSUME NEW k \in Slots, ParkWaiting(k)
      PROVE  AuthorityInv'
  <2> DEFINE r == task[k].runner
             d == Released(r, "waiting")
  <2>1. Owns(k)
    BY <1>15 DEF ParkWaiting
  <2>2. r \in Runners /\ Active(r)
    BY <2>1, OwnerTyped, OwnerActive
  <2>3. d.attempt = row[r].attempt /\ d.status = "waiting"
    BY <2>2, ReleasedFields
  <2>4. row' = [row EXCEPT ![r] = d]
    BY <1>15 DEF ParkWaiting
  <2>5. d.status \in ActiveStatuses
    BY <1>15, <2>3 DEF ParkWaiting, Owns, ActiveStatuses, Parked, Executing
  <2>6. TasksKept
    BY <1>15, DoneTasks DEF ParkWaiting
  <2> QED BY <1>15, <2>2, <2>3, <2>4, <2>5, <2>6, RowStep DEF ParkWaiting
<1>16. ASSUME NEW k \in Slots, ParkPaused(k)
      PROVE  AuthorityInv'
  <2> DEFINE r == task[k].runner
             d == Released(r, "paused")
  <2>1. Owns(k)
    BY <1>16 DEF ParkPaused
  <2>2. r \in Runners /\ Active(r)
    BY <2>1, OwnerTyped, OwnerActive
  <2>3. d.attempt = row[r].attempt /\ d.status = "paused"
    BY <2>2, ReleasedFields
  <2>4. row' = [row EXCEPT ![r] = d]
    BY <1>16 DEF ParkPaused
  <2>5. d.status \in ActiveStatuses
    BY <1>16, <2>3 DEF ParkPaused, Owns, ActiveStatuses, Parked, Executing
  <2>6. TasksKept
    BY <1>16, DoneTasks DEF ParkPaused
  <2> QED BY <1>16, <2>2, <2>3, <2>4, <2>5, <2>6, RowStep DEF ParkPaused
<1>17. ASSUME NEW k \in Slots, AcknowledgePause(k)
      PROVE  AuthorityInv'
  <2> DEFINE r == task[k].runner
             d == Released(r, "paused")
  <2>1. Owns(k)
    BY <1>17 DEF AcknowledgePause
  <2>2. r \in Runners /\ Active(r)
    BY <2>1, OwnerTyped, OwnerActive
  <2>3. d.attempt = row[r].attempt /\ d.status = "paused"
    BY <2>2, ReleasedFields
  <2>4. row' = [row EXCEPT ![r] = d]
    BY <1>17 DEF AcknowledgePause
  <2>5. d.status \in ActiveStatuses
    BY <1>17, <2>3 DEF AcknowledgePause, Owns, ActiveStatuses, Parked, Executing
  <2>6. TasksKept
    BY <1>17, DoneTasks DEF AcknowledgePause
  <2> QED BY <1>17, <2>2, <2>3, <2>4, <2>5, <2>6, RowStep DEF AcknowledgePause
<1>18. ASSUME NEW k \in Slots, StageResult(k)
      PROVE  AuthorityInv'
  <2>1. PICK result \in {"completed", "failed"} : Stage(k, result)
    BY <1>18 DEF StageResult
  <2> QED BY <2>1, StageStep
<1>19. ASSUME NEW k \in Slots, StageCancelled(k)
      PROVE  AuthorityInv'
  <2>1. Stage(k, "cancelled")
    BY <1>19 DEF StageCancelled
  <2> QED BY <2>1, StageStep
<1>20. ASSUME NEW k \in Slots, BlockCancel(k)
      PROVE  AuthorityInv'
  <2> DEFINE r == task[k].runner
             d == [Released(r, "waiting") EXCEPT !.cancelOnly = TRUE,
                    !.blocked = [attempt |-> Released(r, "waiting").attempt,
                                 revision |-> Released(r, "waiting").revision, ready |-> FALSE]]
  <2>1. Owns(k)
    BY <1>20 DEF BlockCancel, BlockMarker
  <2>2. r \in Runners /\ Active(r)
    BY <2>1, OwnerTyped, OwnerActive
  <2>3. row[r] \in RowType
    BY <2>2, RowTyped
  <2>4. d.attempt = row[r].attempt /\ d.status = "waiting"
    BY <2>3 DEF RowType, Released
  <2>5. row' = [row EXCEPT ![r] = d]
    BY <1>20 DEF BlockCancel, BlockMarker
  <2>6. d.status \in ActiveStatuses
    BY <1>20, <2>4 DEF BlockCancel, Owns, ActiveStatuses, Parked, Executing
  <2>7. TasksKept
    BY <1>20, DoneTasks DEF BlockCancel
  <2> QED BY <1>20, <2>2, <2>4, <2>5, <2>6, <2>7, RowStep DEF BlockCancel
<1>21. ASSUME NEW k \in Slots, Finalize(k)
      PROVE  AuthorityInv'
  <2>1. Owns(k)
    BY <1>21 DEF Finalize
  <2>2. PICK r \in Runners : r = task[k].runner
    BY <2>1, OwnerTyped
  <2> DEFINE status == row[r].pending
             d == [Released(r, status) EXCEPT !.pause = FALSE, !.resume = NoControl]
  <2>3. ClaimedBy(r)
    BY <2>1, <2>2, OwnerActive DEF AuthorityInv, ClaimIffActive
  <2>4. row[r] \in RowType
    BY RowTyped
  <2>5. status \notin ActiveStatuses
    BY <1>21, <2>2, <2>4 DEF Finalize, RowType, Terminal, ActiveStatuses, Parked, Executing
  <2>6. row' = [row EXCEPT ![r] = d]
    BY <1>21, <2>2 DEF Finalize, Verdict, Unclaimed
  <2> HIDE DEF status
  <2>7. d.attempt = row[r].attempt /\ d.status = status
    BY <2>4 DEF RowType, Released
  <2>8. TasksKept
    BY <1>21, DoneTasks DEF Finalize
  <2>9. claim' = [claim EXCEPT ![SessionOf[r]] = NoRunner]
    BY <1>21, <2>2 DEF Finalize, Verdict, Unclaimed
  <2>10. ~ClaimedBy(r)' /\ \A q \in Runners \ {r} : ClaimedBy(q)' <=> ClaimedBy(q)
    BY <2>3, <2>9, ClaimEnds
  <2> QED BY <2>5, <2>6, <2>7, <2>8, <2>10, EndStep
<1>22. ASSUME NEW k \in Slots, LoseLease(k)
      PROVE  AuthorityInv'
  BY <1>22, DoneTasks, MemoryStep DEF LoseLease
<1>23. ASSUME NEW k \in Slots, AcknowledgeRefused(k)
      PROVE  AuthorityInv'
  <2> DEFINE r == task[k].runner
             d == Released(r, "interrupted")
  <2>1. Owns(k)
    BY <1>23 DEF AcknowledgeRefused
  <2>2. r \in Runners /\ Active(r)
    BY <2>1, OwnerTyped, OwnerActive
  <2>3. d.attempt = row[r].attempt /\ d.status = "interrupted"
    BY <2>2, ReleasedFields
  <2>4. row' = [row EXCEPT ![r] = d]
    BY <1>23 DEF AcknowledgeRefused
  <2>5. d.status \in ActiveStatuses
    BY <1>23, <2>3 DEF AcknowledgeRefused, Owns, ActiveStatuses, Parked, Executing
  <2>6. TasksKept
    BY <1>23, DoneTasks DEF AcknowledgeRefused
  <2> QED BY <1>23, <2>2, <2>3, <2>4, <2>5, <2>6, RowStep DEF AcknowledgeRefused
<1>24. ASSUME NEW k \in Slots, FailInterrupt(k)
      PROVE  AuthorityInv'
  <2> DEFINE r == task[k].runner
             d == Released(r, "interrupted")
  <2>1. Owns(k)
    BY <1>24 DEF FailInterrupt
  <2>2. r \in Runners /\ Active(r)
    BY <2>1, OwnerTyped, OwnerActive
  <2>3. d.attempt = row[r].attempt /\ d.status = "interrupted"
    BY <2>2, ReleasedFields
  <2>4. row' = [row EXCEPT ![r] = d]
    BY <1>24 DEF FailInterrupt
  <2>5. d.status \in ActiveStatuses
    BY <1>24, <2>3 DEF FailInterrupt, Owns, ActiveStatuses, Parked, Executing
  <2>6. TasksKept
    BY <1>24, DoneTasks DEF FailInterrupt
  <2> QED BY <1>24, <2>2, <2>3, <2>4, <2>5, <2>6, RowStep DEF FailInterrupt
<1>25. ASSUME NEW k \in Slots, FailStage(k)
      PROVE  AuthorityInv'
  <2>1. Stage(k, "failed")
    BY <1>25 DEF FailStage
  <2> QED BY <2>1, StageStep
<1>26. ASSUME NEW k \in Slots, FinalizeRetry(k)
      PROVE  AuthorityInv'
  <2> DEFINE r == task[k].runner
             d == [row[r] EXCEPT !.failures = @ + 1, !.revision = @ + 1]
  <2>1. Owns(k)
    BY <1>26 DEF FinalizeRetry
  <2>2. r \in Runners /\ Active(r)
    BY <2>1, OwnerTyped, OwnerActive
  <2>3. row[r] \in RowType
    BY <2>2, RowTyped
  <2>4. d.attempt = row[r].attempt /\ d.status = row[r].status
    BY <2>3 DEF RowType
  <2>5. row' = [row EXCEPT ![r] = d]
    BY <1>26 DEF FinalizeRetry
  <2>6. d.status \in ActiveStatuses
    BY <1>26, <2>4 DEF FinalizeRetry, Owns, ActiveStatuses, Parked, Executing
  <2>7. TasksKept
    BY <1>26, DoneTasks DEF FinalizeRetry
  <2> QED BY <1>26, <2>2, <2>4, <2>5, <2>6, <2>7, RowStep DEF FinalizeRetry
<1>27. ASSUME NEW k \in Slots, Abandon(k)
      PROVE  AuthorityInv'
  <2>1. Owns(k)
    BY <1>27 DEF Abandon
  <2>2. PICK r \in Runners : r = task[k].runner
    BY <2>1, OwnerTyped
  <2> DEFINE status == IF row[r].pending = "cancelled" THEN "cancelled" ELSE "failed"
             d == [Released(r, status) EXCEPT !.pause = FALSE, !.resume = NoControl, !.abandoned = TRUE]
  <2>3. ClaimedBy(r)
    BY <2>1, <2>2, OwnerActive DEF AuthorityInv, ClaimIffActive
  <2>4. row[r] \in RowType
    BY RowTyped
  <2>5. status \notin ActiveStatuses
    BY <1>27, <2>2, <2>4 DEF Abandon, RowType, Terminal, ActiveStatuses, Parked, Executing
  <2>6. row' = [row EXCEPT ![r] = d]
    BY <1>27, <2>2 DEF Abandon, AbandonStatus
  <2> HIDE DEF status
  <2>7. d.attempt = row[r].attempt /\ d.status = status
    BY <2>4 DEF RowType, Released
  <2>8. TasksKept
    BY <1>27, DoneTasks DEF Abandon
  <2>9. claim' = [s \in Sessions |-> IF claim[s] = r THEN NoRunner ELSE claim[s]]
    BY <1>27, <2>2 DEF Abandon, AbandonStatus
  <2>10. ~ClaimedBy(r)' /\ \A q \in Runners \ {r} : ClaimedBy(q)' <=> ClaimedBy(q)
    BY <2>3, <2>9, ClaimEnds
  <2> QED BY <2>5, <2>6, <2>7, <2>8, <2>10, EndStep
<1>28. ASSUME NEW k \in Slots, GiveUp(k)
      PROVE  AuthorityInv'
  BY <1>28, DoneTasks, MemoryStep DEF GiveUp
<1>29. ASSUME NEW w \in Workers, NEW r \in Runners, PrepareResume(w, r)
      PROVE  AuthorityInv'
  BY <1>29, SameTasks, MemoryStep DEF PrepareResume
<1>30. ASSUME NEW w \in Workers, NEW r \in Runners, PrepareContinuous(w, r)
      PROVE  AuthorityInv'
  BY <1>30, SameTasks, MemoryStep DEF PrepareContinuous
<1>31. ASSUME NEW w \in Workers, DropPrepared(w)
      PROVE  AuthorityInv'
  BY <1>31, SameTasks, MemoryStep DEF DropPrepared
<1>32. ASSUME NEW w \in Workers, RejectResume(w)
      PROVE  AuthorityInv'
  <2> DEFINE r == prepared[w].runner
             d == [row[r] EXCEPT !.resume = NoControl, !.controlRevision = @ + 1]
  <2>1. r \in Runners
    BY <1>32, PreparedCurrent DEF RejectResume
  <2>2. row[r] \in RowType
    BY <2>1, RowTyped
  <2>3. d.attempt = row[r].attempt /\ d.status = row[r].status
    BY <2>2 DEF RowType
  <2>4. row' = [row EXCEPT ![r] = d]
    BY <1>32 DEF RejectResume
  <2>5. Active(r) <=> d.status \in ActiveStatuses
    BY <2>3 DEF Active, ActiveStatuses
  <2>6. TasksKept
    BY <1>32, SameTasks DEF RejectResume
  <2> QED BY <1>32, <2>1, <2>3, <2>4, <2>5, <2>6, RowStep DEF RejectResume
<1>33. ASSUME NEW w \in Workers, NEW permanent \in BOOLEAN, DeferContinuous(w, permanent)
      PROVE  AuthorityInv'
  <2> DEFINE r == prepared[w].runner
             d == [row[r] EXCEPT !.held = permanent, !.revision = @ + 1]
  <2>1. r \in Runners
    BY <1>33, PreparedCurrent DEF DeferContinuous
  <2>2. row[r] \in RowType
    BY <2>1, RowTyped
  <2>3. d.attempt = row[r].attempt /\ d.status = row[r].status
    BY <2>2 DEF RowType
  <2>4. row' = [row EXCEPT ![r] = d]
    BY <1>33 DEF DeferContinuous
  <2>5. Active(r) <=> d.status \in ActiveStatuses
    BY <2>3 DEF Active, ActiveStatuses
  <2>6. TasksKept
    BY <1>33, SameTasks DEF DeferContinuous
  <2> QED BY <1>33, <2>1, <2>3, <2>4, <2>5, <2>6, RowStep DEF DeferContinuous
<1>34. ASSUME NEW r \in Runners, ExpireLease(r)
      PROVE  AuthorityInv'
  <2> DEFINE d == [row[r] EXCEPT !.lease = "expired"]
  <2>1. row[r] \in RowType
    BY RowTyped
  <2>2. d.attempt = row[r].attempt /\ d.status = row[r].status
    BY <2>1 DEF RowType
  <2>3. row' = [row EXCEPT ![r] = d]
    BY <1>34 DEF ExpireLease
  <2>4. Active(r) <=> d.status \in ActiveStatuses
    BY <1>34, <2>2 DEF ExpireLease, Active, ActiveStatuses, Parked, Executing, Terminal
  <2>5. TasksKept
    BY <1>34, SameTasks DEF ExpireLease
  <2> QED BY <1>34, <2>2, <2>3, <2>4, <2>5, RowStep DEF ExpireLease
<1>35. ASSUME NEW r \in Runners, ReapExpired(r)
      PROVE  AuthorityInv'
  <2> DEFINE d == Released(r, "interrupted")
  <2>1. d.attempt = row[r].attempt /\ d.status = "interrupted"
    BY ReleasedFields
  <2>2. row' = [row EXCEPT ![r] = d]
    BY <1>35 DEF ReapExpired
  <2>3. Active(r) <=> d.status \in ActiveStatuses
    BY <1>35, <2>1 DEF ReapExpired, Active, ActiveStatuses, Parked, Executing
  <2>4. TasksKept
    BY <1>35, SameTasks DEF ReapExpired
  <2> QED BY <1>35, <2>1, <2>2, <2>3, <2>4, RowStep DEF ReapExpired
<1>36. ASSUME NEW r \in Runners, ReleaseReady(r)
      PROVE  AuthorityInv'
  <2> DEFINE d == [row[r] EXCEPT !.blocked = [row[r].blocked EXCEPT !.ready = TRUE,
                                                       !.revision = row[r].revision + 1],
                              !.revision = @ + 1]
  <2>1. row[r] \in RowType
    BY RowTyped
  <2>2. d.attempt = row[r].attempt /\ d.status = row[r].status
    BY <2>1 DEF RowType
  <2>3. row' = [row EXCEPT ![r] = d]
    BY <1>36 DEF ReleaseReady
  <2>4. Active(r) <=> d.status \in ActiveStatuses
    BY <1>36, <2>2 DEF ReleaseReady, Active, ActiveStatuses, Parked, Executing, Terminal
  <2>5. TasksKept
    BY <1>36, SameTasks DEF ReleaseReady
  <2> QED BY <1>36, <2>2, <2>3, <2>4, <2>5, RowStep DEF ReleaseReady
<1>37. ASSUME NEW r \in Runners, EffectKnown(r)
      PROVE  AuthorityInv'
  BY <1>37, SameTasks, MemoryStep DEF EffectKnown
<1>38. ASSUME NEW k \in Slots, Raise(k)
      PROVE  AuthorityInv'
  <2> DEFINE t == [task[k] EXCEPT !.pc = "failed"]
  <2>1. task[k].pc # "idle"
    BY <1>38 DEF Raise, Owns
  <2>2. task[k] \in TaskType
    BY TaskTyped
  <2>3. t.runner = task[k].runner /\ t.attempt = task[k].attempt
    BY <2>2 DEF TaskType
  <2>4. TasksKept
    BY <1>38, <2>1, <2>3, ChangedTask DEF Raise
  <2> QED BY <1>38, <2>4, MemoryStep DEF Raise
<1>39. ASSUME NEW k \in Slots, Stall(k)
      PROVE  AuthorityInv'
  <2> DEFINE r == task[k].runner
             d == [row[r] EXCEPT !.lease = "expired"]
  <2>1. Owns(k)
    BY <1>39 DEF Stall
  <2>2. r \in Runners /\ Active(r)
    BY <2>1, OwnerTyped, OwnerActive
  <2>3. row[r] \in RowType
    BY <2>2, RowTyped
  <2>4. d.attempt = row[r].attempt /\ d.status = row[r].status
    BY <2>3 DEF RowType
  <2>5. row' = [row EXCEPT ![r] = d]
    BY <1>39 DEF Stall
  <2>6. d.status \in ActiveStatuses
    BY <1>39, <2>4 DEF Stall, Owns, ActiveStatuses, Parked, Executing
  <2>7. TasksKept
    BY <1>39, SameTasks DEF Stall
  <2> QED BY <1>39, <2>2, <2>4, <2>5, <2>6, <2>7, RowStep DEF Stall
<1>40. ASSUME NEW w \in Workers, Crash(w)
      PROVE  AuthorityInv'
  <2>1. TasksKept
    BY <1>40 DEF Crash, TasksKept, Idle
  <2> QED BY <1>40, <2>1, MemoryStep DEF Crash
<1>41. ASSUME NEW r \in Runners, EffectLost(r)
      PROVE  AuthorityInv'
  BY <1>41, SameTasks, MemoryStep DEF EffectLost
<1>42. ASSUME NEW k \in Slots, DetachWait(k)
      PROVE  AuthorityInv'
  <2> DEFINE r == task[k].runner
             d == [row[r] EXCEPT !.detached = TRUE, !.revision = @ + 1]
             t == [task[k] EXCEPT !.revision = row[r].revision + 1]
  <2>1. Owns(k)
    BY <1>42 DEF DetachWait
  <2>2. r \in Runners /\ Active(r)
    BY <2>1, OwnerTyped, OwnerActive
  <2>3. row[r] \in RowType
    BY <2>2, RowTyped
  <2>4. d.attempt = row[r].attempt /\ d.status = row[r].status
    BY <2>3 DEF RowType
  <2>5. row' = [row EXCEPT ![r] = d] /\ task' = [task EXCEPT ![k] = t]
    BY <1>42 DEF DetachWait
  <2>6. d.status \in ActiveStatuses
    BY <2>1, <2>4 DEF Owns, ActiveStatuses, Executing
  <2>7. task[k] \in TaskType
    BY TaskTyped
  <2>8. t.runner = task[k].runner /\ t.attempt = task[k].attempt
    BY <2>7 DEF TaskType
  <2>9. TasksKept
    BY <2>1, <2>5, <2>8, ChangedTask DEF Owns
  <2> QED BY <1>42, <2>2, <2>4, <2>5, <2>6, <2>9, RowStep DEF DetachWait
<1>43. ASSUME NEW k \in Slots, CancelUnconfirmed(k)
      PROVE  AuthorityInv'
  <2> DEFINE t == [task[k] EXCEPT !.pc = "hold"]
  <2>1. task[k].pc # "idle"
    BY <1>43 DEF CancelUnconfirmed, Owns
  <2>2. task[k] \in TaskType
    BY TaskTyped
  <2>3. t.runner = task[k].runner /\ t.attempt = task[k].attempt
    BY <2>2 DEF TaskType
  <2>4. TasksKept
    BY <1>43, <2>1, <2>3, ChangedTask DEF CancelUnconfirmed
  <2> QED BY <1>43, <2>4, MemoryStep DEF CancelUnconfirmed
<1>44. CASE UNCHANGED vars
  BY <1>44, SameTasks, MemoryStep DEF vars
<1> QED BY <1>1, <1>2, <1>3, <1>4, <1>5, <1>6, <1>7, <1>8, <1>9, <1>10, <1>11, <1>12, <1>13,
  <1>14, <1>15, <1>16, <1>17, <1>18, <1>19, <1>20, <1>21, <1>22, <1>23, <1>24, <1>25, <1>26,
  <1>27, <1>28, <1>29, <1>30, <1>31, <1>32, <1>33, <1>34, <1>35, <1>36, <1>37, <1>38, <1>39,
  <1>40, <1>41, <1>42, <1>43, <1>44 DEF Next, User, Acquire, Scan, Execute, Recover, Sweep, Fault

-----------------------------------------------------------------------------
(* The theorems. *)

\* The claims and the attempt numbers are right in every reachable state.
THEOREM AuthorityCorrect == Spec => []AuthorityInv
<1>1. Init => TypeOK /\ AuthorityInv
  BY ConstantsAssumption, TypeInit, AuthorityInit
<1>2. TypeOK /\ AuthorityInv /\ [Next]_vars => (TypeOK /\ AuthorityInv)'
  BY ConstantsAssumption, TypeNext, AuthorityNext
<1> QED BY <1>1, <1>2, PTL DEF Spec

\* A session is claimed exactly while one of its runners executes or is parked.
THEOREM ClaimCorrect == Spec => []ClaimIffActive
<1>1. AuthorityInv => ClaimIffActive
  BY DEF AuthorityInv
<1> QED BY <1>1, AuthorityCorrect, PTL

\* So two turns of one conversation are never open together.
THEOREM OneTurnPerSession ==
  Spec => [](\A q, r \in Runners : SessionOf[q] = SessionOf[r] /\ Active(q) /\ Active(r) => q = r)
<1>1. ClaimIffActive =>
        \A q, r \in Runners : SessionOf[q] = SessionOf[r] /\ Active(q) /\ Active(r) => q = r
  BY DEF ClaimIffActive, ClaimedBy
<1> QED BY <1>1, ClaimCorrect, PTL

\* At most one coroutine holds the write authority over a runner, whatever crashed, stalled
\* or was reaped, also within one worker, whose identity alone does not tell attempts apart.
THEOREM FenceCorrect == Spec => []SingleAuthority
<1>1. AuthorityInv => SingleAuthority
  BY DEF AuthorityInv, AttemptsDistinct, SingleAuthority, Owns
<1> QED BY <1>1, AuthorityCorrect, PTL
=============================================================================
