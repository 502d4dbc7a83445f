---------------------------- MODULE ScheduledTask ----------------------------
(***************************************************************************)
(* One scheduled task of src/src/scheduler: its row of scheduled_tasks     *)
(* with the slot of one pending occurrence, the runners that were accepted *)
(* for it, and the dispatchers that claim, submit, retry and recover.      *)
(*                                                                         *)
(* Each method of ScheduledTaskDB is one transaction under the row lock.   *)
(* A dispatcher works on a copy of the row it read earlier, and its        *)
(* requests reach the runner API late, or after it stopped to wait.        *)
(***************************************************************************)
EXTENDS Naturals, FiniteSets

CONSTANTS
  Dispatchers,   \* schedulers that poll the same table
  Schedules,     \* the schedules the user may choose: [type, ends]
  MaxTime,       \* bound: the clock stops here
  Grace,         \* ONCE_EXPIRY_GRACE
  MaxManual,     \* bound: immediate runs the user asks for
  MaxAttempts,   \* recovery_max_attempts
  MaxCommands,   \* bound: commands of the user
  MaxFaults      \* bound: lost answers, restarts, interruptions, rejected controls

ScheduleTypes == {"once", "cron", "interval"}

ASSUME ConstantsAssumption ==
  /\ IsFiniteSet(Dispatchers)
  /\ MaxTime \in Nat \ {0} /\ Grace \in Nat /\ MaxManual \in Nat
  /\ MaxAttempts \in Nat \ {0} /\ MaxCommands \in Nat /\ MaxFaults \in Nat
  /\ Schedules \subseteq [type : ScheduleTypes, ends : 0..MaxTime + 1]
  /\ \A s \in Schedules : s.type = "once" => s.ends = 0

VARIABLES
  now,        \* the clock of the database
  task,       \* the row of scheduled_tasks
  run,        \* agent_runners, by the occurrence key in client_request_id
  call,       \* what each dispatcher holds in memory
  late,       \* requests on their way whose sender stopped to wait
  fate,       \* history: what became of each occurrence but for its runner
  commands, faults, manuals    \* how much of each bound is used

vars == <<now, task, run, call, late, fate, commands, faults, manuals>>

(* The key of a scheduled occurrence is its due time, that of an immediate run is new. *)
Dues == 1..MaxTime
Keys == 1..MaxTime + MaxManual
Never == 0                     \* NULL, for next_due_at, run_at, ends_at and keys

\* The slot: the occurrence, the snapshot of the definition, the due time it consumed.
NoPending == [key |-> Never, trigger |-> "none", def |-> 0, due |-> Never]
NoRun == [status |-> "none", trigger |-> "none", def |-> 0, due |-> Never, attempt |-> 0,
          cancel |-> FALSE, controls |-> {}]
Idle == [pc |-> "idle", slot |-> NoPending, key |-> Never, attempt |-> 0, round |-> 0, n |-> 0,
         completed |-> FALSE]

Created(s, due) ==
  [status |-> "active", reason |-> "none", type |-> s.type, ends |-> s.ends,
   runAt |-> IF s.type = "once" THEN due ELSE Never, next |-> due,
   def |-> 1, pend |-> NoPending, round |-> 0]

Init ==
  /\ now = 0
  /\ task \in {Created(s, 1) : s \in {s \in Schedules : s.ends # 1}}
  /\ run = [k \in Keys |-> NoRun]
  /\ call = [d \in Dispatchers |-> Idle]
  /\ late = {}
  /\ fate = [k \in Keys |-> "none"]
  /\ commands = 0 /\ faults = 0 /\ manuals = 0

-----------------------------------------------------------------------------
(* schedule.py *)

\* _window_next_due: a point at or after the end of the window is none.
InWindow(t) == IF task.ends # Never /\ t >= task.ends THEN Never ELSE t

\* compute_next_due: strictly after now, missed points are merged.
NextDue == IF task.type = "once" THEN Never ELSE InWindow(now + 1)

OnceExpired == task.type = "once" /\ now > task.runAt + Grace

-----------------------------------------------------------------------------
(* What the transactions share. *)

Open(k) == run[k].status \in {"open", "interrupted"}
Busy == \E k \in Keys : Open(k)

\* A recurring task that ended with its window, which still runs on request.
WindowCompleted == task.status = "completed" /\ task.type # "once" /\ task.ends # Never

\* The slot is emptied; the history notes whether its user was told or did it.
Emptied(f) == [k \in Keys |-> IF k = task.pend.key THEN f ELSE fate[k]]

Paused(reason) == [task EXCEPT !.status = "paused", !.reason = reason, !.pend = NoPending]

Command == commands < MaxCommands /\ commands' = commands + 1
Fault == faults < MaxFaults /\ faults' = faults + 1

Tick ==
  /\ now < MaxTime
  /\ now' = now + 1
  /\ UNCHANGED <<task, run, call, late, fate, commands, faults, manuals>>

-----------------------------------------------------------------------------
(* Claiming a due occurrence: list_due, claim_due. *)

Due == task.status = "active" /\ task.next # Never /\ task.next <= now /\ task.pend = NoPending

\* Mutant of OccurrenceKey: a fresh key for every claim.
FreshKey == CHOOSE k \in Keys : fate[k] = "none"

OccurrenceKey == task.next

\* The pending slot is filled and the schedule moves on in one update; the claimer submits at once.
ClaimDue(d) ==
  /\ call[d].pc = "idle"
  /\ Due /\ ~OnceExpired
  /\ task.ends = Never \/ (now < task.ends /\ task.next < task.ends)
  /\ LET slot == [key |-> OccurrenceKey, trigger |-> "scheduled", def |-> task.def,
                  due |-> task.next] IN
       /\ task' = [task EXCEPT !.next = NextDue, !.pend = slot]
       /\ call' = [call EXCEPT ![d] = [Idle EXCEPT !.pc = "posting", !.slot = slot]]
       /\ fate' = [fate EXCEPT ![slot.key] = "claimed"]
  /\ UNCHANGED <<now, run, late, commands, faults, manuals>>

ExpireOnce ==
  /\ Due /\ OnceExpired
  /\ task' = [task EXCEPT !.status = "expired"]
  /\ UNCHANGED <<now, run, call, late, fate, commands, faults, manuals>>

\* finalize_window_ended: nothing pending, nothing running, the window is over.
FinalizeWindow ==
  /\ task.status = "active" /\ task.ends # Never /\ task.ends <= now
  /\ task.pend = NoPending /\ ~Busy
  /\ task' = [task EXCEPT !.status = "completed", !.next = Never]
  /\ UNCHANGED <<now, run, call, late, fate, commands, faults, manuals>>

-----------------------------------------------------------------------------
(* Submitting the pending occurrence: list_pending, POST /v1/runners, and the answer. *)

ListPending(d) ==
  /\ call[d].pc = "idle"
  /\ task.pend # NoPending
  /\ call' = [call EXCEPT ![d] = [Idle EXCEPT !.pc = "posting", !.slot = task.pend]]
  /\ UNCHANGED <<now, task, run, late, fate, commands, faults, manuals>>

\* Mutant of Acceptable: the slot is not looked at again.
RowOnly(slot) == task.status = "active" \/ WindowCompleted

\* lock_for_acceptance_in_tx
Acceptable(slot) ==
  /\ task.status = "active" \/ WindowCompleted
  /\ task.pend.key = slot.key

\* submit_in_tx: the guard and the insert of the runner are one transaction.
Accept(slot) ==
  /\ run[slot.key].status = "none"
  /\ Acceptable(slot)
  /\ run' = [run EXCEPT ![slot.key] =
        [NoRun EXCEPT !.status = "open", !.trigger = slot.trigger, !.def = slot.def,
                      !.due = slot.due, !.attempt = 1]]

Known(slot) == run[slot.key].status # "none"

Answer(d, pc) == call' = [call EXCEPT ![d].pc = pc]

\* The first request is accepted, a repeated one finds its runner.
PostAccepted(d) ==
  /\ call[d].pc = "posting"
  /\ \/ Accept(call[d].slot)
     \/ Known(call[d].slot) /\ run[call[d].slot.key].def = call[d].slot.def /\ UNCHANGED run
  /\ Answer(d, "accepted")
  /\ UNCHANGED <<now, task, late, fate, commands, faults, manuals>>

\* Authorization, credit or the guard refuse a new request, the digest a repeated one.
PostRefused(d) ==
  /\ call[d].pc = "posting"
  /\ IF Known(call[d].slot) THEN run[call[d].slot.key].def # call[d].slot.def
     ELSE faults < MaxFaults \/ ~Acceptable(call[d].slot)
  /\ faults' = IF ~Known(call[d].slot) /\ Acceptable(call[d].slot) THEN faults + 1 ELSE faults
  /\ Answer(d, "refused")
  /\ UNCHANGED <<now, task, run, late, fate, commands, manuals>>

\* A time-out, a lost answer or a restart: the row stays as it is and is submitted again later.
GiveUp(d) ==
  /\ call[d].pc # "idle"
  /\ Fault
  /\ call' = [call EXCEPT ![d] = Idle]
  /\ late' = IF call[d].pc \in {"posting", "resuming"} THEN late \union {call[d]} ELSE late
  /\ UNCHANGED <<now, task, run, fate, commands, manuals>>

LatePost(c) ==
  /\ c \in late /\ c.pc = "posting"
  /\ late' = late \ {c}
  /\ Accept(c.slot) \/ UNCHANGED run
  /\ UNCHANGED <<now, task, call, fate, commands, faults, manuals>>

\* Mutants of Holds: an answer settles whatever is pending, or none settles an immediate run.
HoldsAny(slot) == task.pend # NoPending
HoldsScheduled(slot) == task.pend.key = slot.key /\ slot.trigger = "scheduled"

\* The slot still holds the occurrence that was answered.
Holds(slot) == task.pend.key = slot.key

\* clear_pending, for an accepted request and for a refusal nobody else settled.
ClearPending(d) ==
  /\ call[d].pc \in {"accepted", "clearing"}
  /\ task' = IF Holds(call[d].slot) THEN [task EXCEPT !.pend = NoPending] ELSE task
  /\ call' = [call EXCEPT ![d] = Idle]
  /\ UNCHANGED <<now, run, late, fate, commands, faults, manuals>>

\* pause_for_occurrence_with_notify
PauseForOccurrence(d) ==
  /\ call[d].pc = "refused"
  /\ IF task.status = "active" /\ Holds(call[d].slot)
     THEN task' = Paused("auto") /\ fate' = Emptied("told") /\ call' = [call EXCEPT ![d] = Idle]
     ELSE Answer(d, "rejecting") /\ UNCHANGED <<task, fate>>
  /\ UNCHANGED <<now, run, late, commands, faults, manuals>>

\* Mutant of Rejectable: the pause is the only settlement that tells the user.
NeverRejectable(slot) == FALSE

Rejectable(slot) == WindowCompleted /\ Holds(slot)

\* reject_manual_pending_with_notify
RejectManual(d) ==
  /\ call[d].pc = "rejecting"
  /\ IF Rejectable(call[d].slot)
     THEN /\ task' = [task EXCEPT !.pend = NoPending]
          /\ fate' = Emptied("told") /\ call' = [call EXCEPT ![d] = Idle]
     ELSE Answer(d, "clearing") /\ UNCHANGED <<task, fate>>
  /\ UNCHANGED <<now, run, late, commands, faults, manuals>>

-----------------------------------------------------------------------------
(* Recovery: list_interrupted, count_rejected_resumes, POST controls, pause_interrupted. *)

Recoverable(k) ==
  /\ run[k].status = "interrupted" /\ ~run[k].cancel
  /\ task.status \in {"active", "paused"} \/ WindowCompleted
  /\ ~(task.status = "paused" /\ task.reason = "interrupted")

ListInterrupted(d, k) ==
  /\ call[d].pc = "idle"
  /\ Recoverable(k)
  /\ call' = [call EXCEPT ![d] =
        [Idle EXCEPT !.pc = "listed", !.key = k, !.attempt = run[k].attempt, !.round = task.round,
                     !.completed = task.status = "completed"]]
  /\ UNCHANGED <<now, task, run, late, fate, commands, faults, manuals>>

\* count_rejected_resumes: the controls of this interruption rejected since a resumption.
Rejected(c, since) ==
  Cardinality({x \in run[c.key].controls :
                 x.attempt = c.attempt /\ x.status = "rejected" /\ x.round >= since})

\* Mutant of ControlNumber: the number of the control starts anew with the budget.
BudgetNumber(c) == Rejected(c, c.round)

\* The number in the key of the next control never goes back.
ControlNumber(c) == Rejected(c, 0)

\* Mutant of Exhausted: one attempt too many.
OneMore(c) == Rejected(c, c.round) > MaxAttempts /\ ~c.completed

\* The budget is that of the round; a completed task cannot be paused and goes on.
Exhausted(c) == Rejected(c, c.round) >= MaxAttempts /\ ~c.completed

\* The budget and the number are counted in two transactions, and controls are rejected between.
CountBudget(d) ==
  /\ call[d].pc = "listed"
  /\ Answer(d, IF Exhausted(call[d]) THEN "exhausted" ELSE "counted")
  /\ UNCHANGED <<now, task, run, late, fate, commands, faults, manuals>>

CountSequence(d) ==
  /\ call[d].pc = "counted"
  /\ call' = [call EXCEPT ![d].pc = "resuming", ![d].n = ControlNumber(call[d])]
  /\ UNCHANGED <<now, task, run, late, fate, commands, faults, manuals>>

Parked(k) == run[k].status = "interrupted" /\ ~run[k].cancel
Accepted(k) == {x \in run[k].controls : x.status = "accepted"}
Numbered(c) == {x \in run[c.key].controls : x.attempt = c.attempt /\ x.n = c.n}

\* submit_in_tx of controls: a repeated number finds its control, one control is open at a time.
AcceptControl(c) ==
  /\ Parked(c.key) /\ Accepted(c.key) = {} /\ Numbered(c) = {}
  /\ run' = [run EXCEPT ![c.key].controls = @ \union
        {[attempt |-> c.attempt, n |-> c.n, round |-> task.round, status |-> "accepted"]}]

\* Accepted, found, or refused because the runner is not parked or has an open control.
PostControl(d) ==
  /\ call[d].pc = "resuming"
  /\ IF Parked(call[d].key) /\ Accepted(call[d].key) = {} /\ Numbered(call[d]) = {}
     THEN AcceptControl(call[d]) ELSE UNCHANGED run
  /\ call' = [call EXCEPT ![d] = Idle]
  /\ UNCHANGED <<now, task, late, fate, commands, faults, manuals>>

\* Credit or authorization refuse the control before it is recorded.
PostDenied(d) ==
  /\ call[d].pc = "resuming"
  /\ Numbered(call[d]) = {}
  /\ Fault
  /\ Answer(d, "denied")
  /\ UNCHANGED <<now, task, run, late, fate, commands, manuals>>

LateControl(c) ==
  /\ c \in late /\ c.pc = "resuming"
  /\ late' = late \ {c}
  /\ AcceptControl(c) \/ UNCHANGED run
  /\ UNCHANGED <<now, task, call, fate, commands, faults, manuals>>

\* pause_interrupted_with_notify: still the interruption that was listed, and the task active.
RoundCurrent(c) ==
  /\ Parked(c.key) /\ run[c.key].attempt = c.attempt
  /\ task.status = "active"

\* The reason of the refusal, of which credit and profile leave the run to be recovered.
PauseInterrupted(d) ==
  /\ call[d].pc \in {"exhausted", "denied"}
  /\ IF RoundCurrent(call[d])
     THEN /\ \/ task' = Paused("interrupted")
             \/ call[d].pc = "denied" /\ task' = Paused("auto")
          /\ fate' = Emptied("told")
     ELSE UNCHANGED <<task, fate>>
  /\ call' = [call EXCEPT ![d] = Idle]
  /\ UNCHANGED <<now, run, late, commands, faults, manuals>>

-----------------------------------------------------------------------------
(* The user: pause, resume, reschedule, edit, run now, delete, cancel the run. *)

Pause ==
  /\ Command
  /\ task.status = "active"
  /\ task' = Paused("none") /\ fate' = Emptied("dropped")
  /\ UNCHANGED <<now, run, call, late, faults, manuals>>

\* Instants of the clock are distinct: an interval starts over at an instant of its own.
StartsNow(type) == IF type = "interval" THEN now < MaxTime /\ now' = now + 1 ELSE UNCHANGED now

\* compute_resume_due; both kinds of recurring tasks go on after now.
ResumeDue == IF task.type = "once" THEN task.runAt ELSE InWindow(now + 1)

\* resume_recompute
Resume ==
  /\ Command
  /\ task.status = "paused"
  /\ StartsNow(task.type)
  /\ task' = IF OnceExpired
             THEN [task EXCEPT !.status = "expired", !.reason = "none", !.next = Never]
             ELSE [task EXCEPT !.status = IF ResumeDue = Never THEN "completed" ELSE "active",
                               !.reason = "none", !.next = ResumeDue, !.round = @ + 1]
  /\ UNCHANGED <<run, call, late, fate, faults, manuals>>

\* update_schedule: a once task and a cron start after now, an interval now.
Reschedule(s) ==
  /\ Command
  /\ task.status \in {"active", "paused"}
  /\ s.ends = Never \/ s.ends > now + 1
  /\ StartsNow(s.type)
  /\ task' = [task EXCEPT !.type = s.type, !.ends = s.ends, !.next = now + 1,
                          !.runAt = IF s.type = "once" THEN now + 1 ELSE Never]
  /\ UNCHANGED <<run, call, late, fate, faults, manuals>>

\* update_definition; what was claimed keeps its snapshot.
EditDefinition ==
  /\ Command
  /\ task.status # "deleted"
  /\ task' = [task EXCEPT !.def = @ + 1]
  /\ UNCHANGED <<now, run, call, late, fate, faults, manuals>>

\* submit_manual, with a new key
SubmitManual ==
  /\ manuals < MaxManual /\ manuals' = manuals + 1
  /\ task.status = "active" \/ WindowCompleted
  /\ task.pend = NoPending
  /\ LET slot == [key |-> MaxTime + manuals + 1, trigger |-> "manual", def |-> task.def,
                  due |-> Never] IN
       /\ task' = [task EXCEPT !.pend = slot]
       /\ fate' = [fate EXCEPT ![slot.key] = "claimed"]
  /\ UNCHANGED <<now, run, call, late, commands, faults>>

\* Mutant of Deletable: only the status is looked at.
NotActive == task.status \in {"paused", "completed", "expired"}

\* delete_with_session refuses while the session has a runner that is not over.
Deletable == task.status # "deleted" /\ ~Busy

Delete ==
  /\ Command
  /\ Deletable
  /\ task' = [task EXCEPT !.status = "deleted", !.pend = NoPending, !.next = Never]
  /\ fate' = Emptied("dropped")
  /\ UNCHANGED <<now, run, call, late, faults, manuals>>

Cancel(k) ==
  /\ Command
  /\ Open(k) /\ ~run[k].cancel
  /\ run' = [run EXCEPT ![k].cancel = TRUE, ![k].controls =
        {IF x.status = "accepted" THEN [x EXCEPT !.status = "rejected"] ELSE x : x \in @}]
  /\ UNCHANGED <<now, task, call, late, fate, faults, manuals>>

-----------------------------------------------------------------------------
(* The runner, as the AgentRunner module describes it. *)

Interrupt(k) ==
  /\ run[k].status = "open"
  /\ Fault
  /\ run' = [run EXCEPT ![k].status = "interrupted"]
  /\ UNCHANGED <<now, task, call, late, fate, commands, manuals>>

\* claim_resume consumes the control and starts an attempt.
Resumed(k) ==
  /\ Parked(k)
  /\ \E x \in Accepted(k) :
       run' = [run EXCEPT ![k].status = "open", ![k].attempt = @ + 1,
                          ![k].controls = (@ \ {x}) \union {[x EXCEPT !.status = "consumed"]}]
  /\ UNCHANGED <<now, task, call, late, fate, commands, faults, manuals>>

\* reject_resume leaves the runner interrupted.
RejectControl(k) ==
  /\ Parked(k)
  /\ Fault
  /\ \E x \in Accepted(k) :
       run' = [run EXCEPT ![k].controls = (@ \ {x}) \union {[x EXCEPT !.status = "rejected"]}]
  /\ UNCHANGED <<now, task, call, late, fate, commands, manuals>>

\* Mutant of RunStatus: whatever ends completes a once task.
AnyTriggerEnds(trigger, blocked) == IF task.type = "once" THEN "completed" ELSE task.status

\* The status after a run: a once task is used up, a blocked one is paused, no point is left.
RunStatus(trigger, blocked) ==
  IF trigger = "scheduled" /\ task.type = "once" THEN "completed"
  ELSE IF task.type # "once" /\ task.status # "completed" /\ blocked THEN "paused"
  ELSE IF trigger = "scheduled" /\ task.type # "once" /\ task.next = Never THEN "completed"
  ELSE task.status

\* Mutant of RunEmpties: the pause of a blocked run leaves the slot.
NeverEmpties(blocked) == FALSE

RunEmpties(blocked) == task.type # "once" /\ task.status # "completed" /\ blocked

\* _record_run_result_in_tx, in the transaction that ends the runner; no row, no record.  Nobody is
\* told of an occurrence that a blocked run takes along.
RunEnds(k, blocked) ==
  /\ run[k].status = "open" \/ (run[k].status = "interrupted" /\ run[k].cancel)
  /\ run' = [run EXCEPT ![k].status = "ended"]
  /\ IF task.status = "deleted" THEN UNCHANGED task
     ELSE task' = [task EXCEPT !.status = RunStatus(run[k].trigger, blocked),
                     !.reason = IF RunEmpties(blocked) THEN "auto"
                                ELSE IF /\ run[k].trigger = "scheduled"
                                        /\ task.type # "once" /\ task.next = Never
                                     THEN "none" ELSE task.reason,
                     !.pend = IF RunEmpties(blocked) THEN NoPending ELSE task.pend]
  /\ UNCHANGED <<now, call, late, fate, commands, faults, manuals>>

-----------------------------------------------------------------------------
Dispatch(d) ==
  \/ ClaimDue(d) \/ ListPending(d)
  \/ PostAccepted(d) \/ ClearPending(d) \/ PauseForOccurrence(d) \/ RejectManual(d)
  \/ CountBudget(d) \/ CountSequence(d) \/ PostControl(d) \/ PauseInterrupted(d)

Recover(d) == \E k \in Keys : ListInterrupted(d, k)

Failures(d) == PostRefused(d) \/ PostDenied(d) \/ GiveUp(d)

Runner(k) ==
  Interrupt(k) \/ Resumed(k) \/ RejectControl(k) \/ \E blocked \in BOOLEAN : RunEnds(k, blocked)

User ==
  \/ Pause \/ Resume \/ EditDefinition \/ SubmitManual \/ Delete
  \/ \E s \in Schedules : Reschedule(s)
  \/ \E k \in Keys : Cancel(k)

Next ==
  \/ Tick \/ ExpireOnce \/ FinalizeWindow
  \/ \E d \in Dispatchers : Dispatch(d) \/ Recover(d) \/ Failures(d)
  \/ \E c \in late : LatePost(c) \/ LateControl(c)
  \/ \E k \in Keys : Runner(k)
  \/ User

Spec == Init /\ [][Next]_vars

-----------------------------------------------------------------------------
(* Properties. *)

Slots == [key : {Never} \union Keys, trigger : {"none", "scheduled", "manual"}, def : Nat,
          due : {Never} \union Dues]
Rows == [status : {"active", "paused", "completed", "expired", "deleted"},
         reason : {"none", "auto", "interrupted"}, type : ScheduleTypes,
         ends : 0..MaxTime + 1, runAt : 0..MaxTime + 1, next : 0..MaxTime + 1,
         def : Nat, pend : Slots, round : Nat]
ControlRows == [attempt : Nat, n : Nat, round : Nat, status : {"accepted", "consumed", "rejected"}]
Runs == [status : {"none", "open", "interrupted", "ended"},
         trigger : {"none", "scheduled", "manual"}, def : Nat, due : {Never} \union Dues,
         attempt : Nat, cancel : BOOLEAN, controls : SUBSET ControlRows]
Calls == [pc : {"idle", "posting", "accepted", "refused", "rejecting", "clearing", "listed",
                "counted", "exhausted", "resuming", "denied"},
          slot : Slots, key : {Never} \union Keys, attempt : Nat, round : Nat, n : Nat,
          completed : BOOLEAN]

\* Type correctness of the row, the runners, the dispatchers and the requests on their way.
TypeOK ==
  /\ now \in 0..MaxTime
  /\ task \in Rows
  /\ run \in [Keys -> Runs]
  /\ call \in [Dispatchers -> Calls] /\ late \subseteq Calls
  /\ fate \in [Keys -> {"none", "claimed", "told", "dropped"}]
  /\ commands \in 0..MaxCommands /\ faults \in 0..MaxFaults /\ manuals \in 0..MaxManual

\* A task that is paused, expired or deleted holds no occurrence that a dispatcher would submit.
PausedHoldsNothing == task.pend # NoPending => task.status \in {"active", "completed"}

\* A due time is executed at most once, whatever is retried, lost, paused and resumed.
OncePerDue ==
  \A i, j \in Keys :
    run[i].due # Never /\ run[i].due = run[j].due => i = j

\* No runner that is not over belongs to a task that was deleted.
NoOrphan == Busy => task.status # "deleted"

\* Only a scheduled run uses up a once task.
OnceUsedUp ==
  task.type = "once" /\ task.status = "completed" =>
    \E k \in Keys : run[k].status = "ended" /\ run[k].trigger = "scheduled"

\* In one round an interruption is resumed recovery_max_attempts times without success, and once
\* more at most by each dispatcher that had counted the budget before the last rejection.
RecoveryBounded ==
  task.status \notin {"completed", "deleted"} =>
    \A k \in Keys : \A x \in run[k].controls :
      Cardinality({y \in run[k].controls : y.attempt = x.attempt /\ y.round = x.round})
        <= MaxAttempts + Cardinality(Dispatchers)

\* A task that is over stays over.
CompletedStays == [][task.status = "completed" => task'.status \in {"completed", "deleted"}]_vars

\* An answer settles the occurrence it is about and no other.
AnswerSettlesItsOwn ==
  [][\A d \in Dispatchers :
       /\ call[d].pc \in {"accepted", "refused", "rejecting", "clearing"}
       /\ call'[d] # call[d]
       /\ task.pend.key # call[d].slot.key
       => task' = task]_vars

\* An occurrence that was claimed is not pending and has no runner, and its user neither dropped it
\* nor was told.
Lost(k) == fate[k] = "claimed" /\ task.pend.key # k /\ run[k].status = "none"

\* No occurrence disappears without a word, as dispatch.py says of its settlements.
NothingSilent == \A k \in Keys : ~Lost(k)

\* An occurrence disappears without a word only with the end of a blocked run of its task, in the
\* transaction that pauses the task for it.
LostBehindBlocked ==
  [][\A k \in Keys :
       ~Lost(k) /\ Lost(k)' =>
         /\ task.pend.key = k /\ task'.status = "paused" /\ task'.reason = "auto"
         /\ \E j \in Keys : Open(j) /\ run'[j].status = "ended"]_vars

FairSpec ==
  /\ Spec
  /\ \A d \in Dispatchers :
       /\ WF_vars(Dispatch(d) \/ PostRefused(d))
       /\ SF_vars(ListPending(d)) /\ SF_vars(Recover(d))
  /\ \A k \in Keys : WF_vars(Resumed(k))

\* What is pending is accepted or settled: it does not wait for ever.
PendingSettles == \A k \in Keys : task.pend.key = k ~> task.pend.key # k

\* An interrupted run goes on, or its task is paused.
InterruptionEnds ==
  \A k \in Keys :
    run[k].status = "interrupted" ~>
      (run[k].status # "interrupted" \/ run[k].cancel
        \/ task.status \in {"paused", "expired"} \/ (task.status = "completed" /\ task.type = "once"))

=============================================================================
