-------------------------- MODULE ScheduledTaskProofs --------------------------
(***************************************************************************)
(* What the scheduler guarantees for any number of dispatchers, due times, *)
(* faults and commands: a due time is executed at most once, a paused or   *)
(* deleted task holds nothing that could still be submitted, a deleted     *)
(* task has no run, and an answer settles its own occurrence only.         *)
(***************************************************************************)
EXTENDS ScheduledTaskLedger, FiniteSetTheorems, TLAPS

\* A slot names its occurrence by its key, and by its due time if it has one.
NamesItsDue(slot) ==
  /\ slot.key = Never => slot = NoPending
  /\ slot.due \in {Never, slot.key}

Answering == {"posting", "accepted", "refused", "rejecting", "clearing"}

\* What a dispatcher holds, or a request carries, was read from a slot or from a run.
ReadFromRow(c) ==
  /\ NamesItsDue(c.slot)
  /\ c.pc \in Answering => c.slot.key # Never
  /\ c.pc \in {"listed", "counted", "exhausted", "resuming", "denied"} => c.key # Never

Copies == (\A d \in Dispatchers : ReadFromRow(call[d])) /\ \A c \in late : ReadFromRow(c)

\* A run names the due time its slot had, and its controls can be counted.
RunsNamed == \A k \in Keys : run[k].due \in {Never, k} /\ IsFiniteSet(run[k].controls)

\* A once task has an instant and no window.
OnceHasInstant == task.type = "once" => task.ends = Never /\ task.runAt # Never

Inv ==
  /\ TypeOK /\ Copies /\ RunsNamed /\ OnceHasInstant
  /\ NamesItsDue(task.pend)
  /\ PausedHoldsNothing /\ NoOrphan /\ OnceUsedUp

-----------------------------------------------------------------------------
(* Facts about the parts *)

LEMMA KeysType ==
  /\ Never \notin Keys /\ Dues \subseteq Keys /\ Keys \subseteq Nat
  /\ \A t \in 1..MaxTime : t \in Dues
  /\ \A m \in 0..MaxManual - 1 : MaxTime + m + 1 \in Keys \ Dues
BY ConstantsAssumption DEF Keys, Dues, Never

LEMMA NoneType ==
  /\ NoPending \in Slots /\ NamesItsDue(NoPending)
  /\ NoRun \in Runs /\ Idle \in Calls /\ ReadFromRow(Idle)
BY DEF NoPending, Slots, NamesItsDue, NoRun, Runs, Idle, Calls, ReadFromRow, Never, Answering

LEMMA InvInit == Init => Inv
<1> SUFFICES ASSUME Init PROVE Inv
  OBVIOUS
<1> USE KeysType, NoneType, ConstantsAssumption
<1>1. /\ task \in Rows /\ OnceHasInstant /\ task.pend = NoPending /\ task.status = "active"
  BY DEF Init, Created, Rows, OnceHasInstant, ScheduleTypes, Never
<1>2. TypeOK
  BY <1>1 DEF Init, TypeOK
<1>3. Copies
  BY DEF Init, Copies
<1>4. RunsNamed /\ NoOrphan
  BY <1>1, FS_EmptySet DEF Init, RunsNamed, NoRun, NoOrphan, Busy, Open, Never
<1> QED
  BY <1>1, <1>2, <1>3, <1>4 DEF Inv, PausedHoldsNothing, OnceUsedUp

\* Steps that write only the row and what the dispatchers hold.
LEMMA RowStep ==
  ASSUME Inv, UNCHANGED run, now' \in 0..MaxTime,
         fate' \in [Keys -> {"none", "claimed", "told", "dropped"}],
         commands' \in 0..MaxCommands, faults' \in 0..MaxFaults, manuals' \in 0..MaxManual,
         task' \in Rows, NamesItsDue(task'.pend), OnceHasInstant',
         call' \in [Dispatchers -> Calls], late' \subseteq Calls, Copies',
         task'.pend # NoPending => task'.status \in {"active", "completed"},
         Busy => task'.status # "deleted",
         task'.type = "once" /\ task'.status = "completed" =>
           task.type = "once" /\ task.status = "completed"
  PROVE  Inv'
<1>1. TypeOK'
  BY DEF Inv, TypeOK
<1>2. RunsNamed'
  BY DEF Inv, RunsNamed
<1>3. PausedHoldsNothing'
  BY DEF PausedHoldsNothing
<1>4. NoOrphan' /\ OnceUsedUp'
  BY DEF Inv, NoOrphan, Busy, Open, OnceUsedUp
<1> QED
  BY <1>1, <1>2, <1>3, <1>4 DEF Inv

\* Steps that write what one dispatcher holds.
LEMMA CallStep ==
  ASSUME Inv, NEW d \in Dispatchers, NEW c \in Calls, ReadFromRow(c),
         call' = [call EXCEPT ![d] = c], late' \subseteq late \union {call[d]},
         faults' \in 0..MaxFaults,
         UNCHANGED <<now, task, run, fate, commands, manuals>>
  PROVE  Inv'
<1>1. call' \in [Dispatchers -> Calls] /\ late' \subseteq Calls
  BY DEF Inv, TypeOK
<1>2. Copies'
  BY DEF Inv, TypeOK, Copies
<1> QED
  BY <1>1, <1>2, RowStep DEF Inv, TypeOK, PausedHoldsNothing, NoOrphan, OnceHasInstant

\* What a dispatcher may write about a call it has.
LEMMA Answered ==
  ASSUME Inv, NEW d \in Dispatchers, call[d].pc \in Answering, NEW pc \in Answering
  PROVE  /\ [call[d] EXCEPT !.pc = pc] \in Calls
         /\ ReadFromRow([call[d] EXCEPT !.pc = pc])
<1>1. call[d] \in Calls /\ ReadFromRow(call[d])
  BY DEF Inv, TypeOK, Copies
<1> QED
  BY <1>1 DEF Calls, ReadFromRow, Answering

\* The claim of one row: the due time becomes the key of its slot.
LEMMA ClaimStep ==
  ASSUME Inv, NEW d \in Dispatchers, ClaimDue(d)
  PROVE  Inv'
<1> DEFINE slot == [key |-> OccurrenceKey, trigger |-> "scheduled", def |-> task.def,
                    due |-> task.next]
           c == [Idle EXCEPT !.pc = "posting", !.slot = slot]
<1> USE KeysType, NoneType, ConstantsAssumption
<1>1. task.next \in Dues /\ task \in Rows /\ task.status = "active" /\ now \in 0..MaxTime
  BY DEF Inv, TypeOK, Rows, ClaimDue, Due, Never, Dues
<1>2. slot \in Slots /\ NamesItsDue(slot) /\ slot.key # Never
  BY <1>1 DEF OccurrenceKey, Slots, NamesItsDue, Rows
<1>3. c \in Calls /\ ReadFromRow(c)
  BY <1>2 DEF Calls, Idle, ReadFromRow, Answering
<1>4. NextDue \in 0..MaxTime + 1
  BY <1>1 DEF NextDue, InWindow, Never
<1>5. /\ task' = [task EXCEPT !.next = NextDue, !.pend = slot]
      /\ call' = [call EXCEPT ![d] = c]
      /\ fate' = [fate EXCEPT ![slot.key] = "claimed"]
      /\ UNCHANGED <<now, run, late, commands, faults, manuals>>
  BY DEF ClaimDue
<1> HIDE DEF slot, c
<1>6. /\ task' \in Rows /\ task'.pend = slot /\ task'.status = "active"
      /\ task'.type = task.type /\ task'.ends = task.ends /\ task'.runAt = task.runAt
  BY <1>1, <1>2, <1>4, <1>5 DEF Rows
<1>7. call' \in [Dispatchers -> Calls] /\ Copies' /\ late' \subseteq Calls
  BY <1>3, <1>5 DEF Inv, TypeOK, Copies
<1>8. /\ fate' \in [Keys -> {"none", "claimed", "told", "dropped"}]
      /\ commands' \in 0..MaxCommands /\ faults' \in 0..MaxFaults /\ manuals' \in 0..MaxManual
      /\ now' \in 0..MaxTime
  BY <1>5 DEF Inv, TypeOK
<1>9. OnceHasInstant'
  BY <1>6 DEF Inv, OnceHasInstant
<1> QED
  BY <1>2, <1>5, <1>6, <1>7, <1>8, <1>9, RowStep

\* Submitting: the answers, their settlement, and an attempt that is given up.
LEMMA SettleStep ==
  ASSUME Inv, NEW d \in Dispatchers,
         ClearPending(d) \/ PauseForOccurrence(d) \/ RejectManual(d)
  PROVE  Inv'
<1> USE NoneType
<1>1. call[d] \in Calls /\ ReadFromRow(call[d]) /\ call[d].pc \in Answering /\ task \in Rows
  BY DEF Inv, TypeOK, Copies, ClearPending, PauseForOccurrence, RejectManual, Answering
<1>2. PICK c \in Calls : ReadFromRow(c) /\ call' = [call EXCEPT ![d] = c]
  <2>1. CASE call' = [call EXCEPT ![d] = Idle]
    BY <2>1
  <2>2. CASE \E pc \in Answering : call' = [call EXCEPT ![d] = [call[d] EXCEPT !.pc = pc]]
    BY <2>2, <1>1, Answered
  <2>3. CASE \E pc \in Answering : Answer(d, pc)
    <3>1. PICK pc \in Answering : call' = [call EXCEPT ![d].pc = pc]
      BY <2>3 DEF Answer
    <3>2. call' = [call EXCEPT ![d] = [call[d] EXCEPT !.pc = pc]]
      BY <3>1 DEF Inv, TypeOK
    <3> QED BY <2>2, <3>2
  <2> QED BY <2>1, <2>3 DEF ClearPending, PauseForOccurrence, RejectManual, Answering
<1>3. \/ task' = task
      \/ task' = [task EXCEPT !.pend = NoPending]
      \/ task' = Paused("auto") /\ task.status = "active"
  BY DEF ClearPending, PauseForOccurrence, RejectManual
<1>4. /\ task' \in Rows /\ NamesItsDue(task'.pend) /\ task'.type = task.type
      /\ task'.ends = task.ends /\ task'.runAt = task.runAt
      /\ task'.pend # NoPending => task'.status \in {"active", "completed"}
      /\ task'.status = "deleted" => task.status = "deleted"
      /\ task'.status = "completed" => task.status = "completed"
  BY <1>1, <1>3 DEF Rows, Paused, Inv, PausedHoldsNothing
<1>5. /\ fate' \in [Keys -> {"none", "claimed", "told", "dropped"}]
      /\ UNCHANGED <<now, run, late, commands, faults, manuals>>
  BY DEF ClearPending, PauseForOccurrence, RejectManual, Emptied, Inv, TypeOK
<1>6. call' \in [Dispatchers -> Calls] /\ Copies'
  BY <1>2, <1>5 DEF Inv, TypeOK, Copies
<1> QED
  BY <1>4, <1>5, <1>6, RowStep DEF Inv, TypeOK, NoOrphan, OnceHasInstant

LEMMA HeldStep ==
  ASSUME Inv, NEW d \in Dispatchers,
         \/ ListPending(d) \/ PostRefused(d) \/ GiveUp(d)
         \/ CountBudget(d) \/ CountSequence(d) \/ PostDenied(d)
         \/ \E k \in Keys : ListInterrupted(d, k)
  PROVE  Inv'
<1> USE NoneType
<1>1. call[d] \in Calls /\ ReadFromRow(call[d]) /\ task \in Rows
  BY DEF Inv, TypeOK, Copies
<1>2. faults \in 0..MaxFaults
  BY DEF Inv, TypeOK
<1>3. CASE ListPending(d)
  <2>1. task.pend \in Slots /\ NamesItsDue(task.pend) /\ task.pend.key # Never
    BY <1>1, <1>3 DEF Rows, Inv, NamesItsDue, ListPending
  <2>2. /\ [Idle EXCEPT !.pc = "posting", !.slot = task.pend] \in Calls
        /\ ReadFromRow([Idle EXCEPT !.pc = "posting", !.slot = task.pend])
    BY <2>1 DEF Calls, Idle, ReadFromRow, Answering
  <2> QED BY <1>2, <1>3, <2>2, CallStep DEF ListPending
<1>4. CASE PostRefused(d)
  <2>1. call[d].pc \in Answering /\ "refused" \in Answering
    BY <1>4 DEF PostRefused, Answering
  <2>2. call' = [call EXCEPT ![d] = [call[d] EXCEPT !.pc = "refused"]]
    BY <1>4 DEF PostRefused, Answer, Inv, TypeOK
  <2>3. faults' \in 0..MaxFaults
    BY <1>2, <1>4, ConstantsAssumption DEF PostRefused
  <2> QED BY <1>4, <2>1, <2>2, <2>3, Answered, CallStep DEF PostRefused
<1>5. CASE GiveUp(d)
  <2>1. faults' \in 0..MaxFaults
    BY <1>2, <1>5, ConstantsAssumption DEF GiveUp, Fault
  <2>2. late' \subseteq late \union {call[d]}
    BY <1>5 DEF GiveUp
  <2> QED BY <1>5, <2>1, <2>2, CallStep DEF GiveUp
<1>6. CASE CountBudget(d)
  <2>1. PICK pc \in {"counted", "exhausted"} :
          call' = [call EXCEPT ![d] = [call[d] EXCEPT !.pc = pc]]
    BY <1>6 DEF CountBudget, Answer, Inv, TypeOK
  <2>2. [call[d] EXCEPT !.pc = pc] \in Calls /\ ReadFromRow([call[d] EXCEPT !.pc = pc])
    BY <1>1, <1>6 DEF CountBudget, Calls, ReadFromRow, Answering
  <2> QED BY <1>2, <1>6, <2>1, <2>2, CallStep DEF CountBudget
<1>9. CASE CountSequence(d)
  <2>1. ControlNumber(call[d]) \in Nat
    <3>1. call[d].key \in Keys
      BY <1>1, <1>9 DEF CountSequence, ReadFromRow, Calls
    <3>2. IsFiniteSet(run[call[d].key].controls)
      BY <3>1 DEF Inv, RunsNamed
    <3> QED BY <3>2, FS_Subset, FS_CardinalityType DEF ControlNumber, Rejected
  <2>2. /\ [call[d] EXCEPT !.pc = "resuming", !.n = ControlNumber(call[d])] \in Calls
        /\ ReadFromRow([call[d] EXCEPT !.pc = "resuming", !.n = ControlNumber(call[d])])
    BY <1>1, <1>9, <2>1 DEF CountSequence, Calls, ReadFromRow, Answering
  <2>3. call' = [call EXCEPT ![d] = [call[d] EXCEPT !.pc = "resuming",
                                                    !.n = ControlNumber(call[d])]]
    BY <1>9 DEF CountSequence, Inv, TypeOK
  <2> QED BY <1>2, <1>9, <2>2, <2>3, CallStep DEF CountSequence
<1>7. CASE PostDenied(d)
  <2>1. /\ [call[d] EXCEPT !.pc = "denied"] \in Calls
        /\ ReadFromRow([call[d] EXCEPT !.pc = "denied"])
    BY <1>1, <1>7 DEF PostDenied, Calls, ReadFromRow, Answering
  <2>2. call' = [call EXCEPT ![d] = [call[d] EXCEPT !.pc = "denied"]]
    BY <1>7 DEF PostDenied, Answer, Inv, TypeOK
  <2>3. faults' \in 0..MaxFaults
    BY <1>2, <1>7, ConstantsAssumption DEF PostDenied, Fault
  <2> QED BY <1>7, <2>1, <2>2, <2>3, CallStep DEF PostDenied
<1>8. ASSUME NEW k \in Keys, ListInterrupted(d, k) PROVE Inv'
  <2> DEFINE c == [Idle EXCEPT !.pc = "listed", !.key = k, !.attempt = run[k].attempt,
                     !.round = task.round, !.completed = task.status = "completed"]
  <2>1. run[k] \in Runs /\ k # Never
    BY KeysType DEF Inv, TypeOK
  <2>2. c \in Calls /\ ReadFromRow(c)
    BY <1>1, <2>1 DEF Runs, Rows, Calls, Idle, ReadFromRow, Answering
  <2> QED BY <1>2, <1>8, <2>2, CallStep DEF ListInterrupted
<1> QED BY <1>3, <1>4, <1>5, <1>6, <1>7, <1>8, <1>9

\* Steps that write the row alone, or empty its slot.
LEMMA TaskStep ==
  ASSUME Inv, UNCHANGED <<run, call, late, manuals>>, now' \in 0..MaxTime,
         commands' \in 0..MaxCommands, faults' = faults,
         fate' \in [Keys -> {"none", "claimed", "told", "dropped"}],
         task' \in Rows, NamesItsDue(task'.pend), OnceHasInstant',
         task'.pend # NoPending => task'.status \in {"active", "completed"},
         Busy => task'.status # "deleted",
         task'.type = "once" /\ task'.status = "completed" =>
           task.type = "once" /\ task.status = "completed"
  PROVE  Inv'
<1>1. Copies' /\ call' \in [Dispatchers -> Calls] /\ late' \subseteq Calls
  BY DEF Inv, TypeOK, Copies
<1> QED
  BY <1>1, RowStep DEF Inv, TypeOK

LEMMA ClockStep ==
  ASSUME Inv, Tick \/ ExpireOnce \/ FinalizeWindow
  PROVE  Inv'
<1>1. /\ now \in 0..MaxTime /\ task \in Rows /\ commands \in 0..MaxCommands
      /\ fate \in [Keys -> {"none", "claimed", "told", "dropped"}]
  BY DEF Inv, TypeOK
<1>2. now' \in 0..MaxTime
  BY <1>1, ConstantsAssumption DEF Tick, ExpireOnce, FinalizeWindow
<1>3. UNCHANGED <<run, call, late, fate, commands, faults, manuals>>
  BY DEF Tick, ExpireOnce, FinalizeWindow
<1>4. CASE Tick
  BY <1>1, <1>2, <1>3, <1>4, TaskStep
     DEF Tick, Inv, PausedHoldsNothing, NoOrphan, OnceHasInstant
<1>5. CASE ExpireOnce
  <2>1. /\ task' \in Rows /\ task'.status = "expired" /\ task'.pend = NoPending
        /\ task'.type = task.type /\ task'.ends = task.ends /\ task'.runAt = task.runAt
    BY <1>1, <1>5 DEF ExpireOnce, Due, Rows
  <2> QED BY <1>1, <1>2, <1>3, <2>1, NoneType, TaskStep DEF Inv, OnceHasInstant
<1>6. CASE FinalizeWindow
  <2>1. /\ task' \in Rows /\ task'.status = "completed" /\ task'.pend = NoPending
        /\ task'.type = task.type /\ task'.ends = task.ends /\ task'.runAt = task.runAt
    <3>1. Never \in 0..MaxTime + 1
      BY ConstantsAssumption DEF Never
    <3> QED BY <1>1, <1>6, <3>1 DEF FinalizeWindow, Rows
  <2>2. task.type # "once"
    BY <1>6 DEF FinalizeWindow, Inv, OnceHasInstant
  <2> QED BY <1>1, <1>2, <1>3, <2>1, <2>2, NoneType, TaskStep DEF Inv, OnceHasInstant
<1> QED BY <1>4, <1>5, <1>6

LEMMA PauseInterruptedStep ==
  ASSUME Inv, NEW d \in Dispatchers, PauseInterrupted(d)
  PROVE  Inv'
<1> USE NoneType
<1>1. task \in Rows
  BY DEF Inv, TypeOK
<1>2. /\ task' \in Rows /\ NamesItsDue(task'.pend) /\ task'.type = task.type
      /\ task'.ends = task.ends /\ task'.runAt = task.runAt
      /\ task'.pend # NoPending => task'.status \in {"active", "completed"}
      /\ task'.status = "deleted" => task.status = "deleted"
      /\ task'.status = "completed" => task.status = "completed"
  <2>1. CASE task' = task
    BY <1>1, <2>1 DEF Inv, PausedHoldsNothing
  <2>2. ASSUME NEW r \in {"interrupted", "auto"}, task' = Paused(r), task.status = "active"
        PROVE  /\ task' \in Rows /\ task'.pend = NoPending /\ task'.status = "paused"
               /\ task'.type = task.type /\ task'.ends = task.ends /\ task'.runAt = task.runAt
    BY <1>1, <2>2 DEF Paused, Rows
  <2>3. \/ task' = task
        \/ \E r \in {"interrupted", "auto"} : task' = Paused(r) /\ task.status = "active"
    BY DEF PauseInterrupted, RoundCurrent
  <2> QED BY <2>1, <2>2, <2>3
<1>3. call' \in [Dispatchers -> Calls] /\ Copies' /\ late' \subseteq Calls
  BY DEF PauseInterrupted, Inv, TypeOK, Copies
<1>4. /\ fate' \in [Keys -> {"none", "claimed", "told", "dropped"}]
      /\ UNCHANGED <<now, run, commands, faults, manuals>>
  BY DEF PauseInterrupted, Emptied, Inv, TypeOK
<1> QED
  BY <1>2, <1>3, <1>4, RowStep DEF Inv, TypeOK, NoOrphan, OnceHasInstant

\* The commands of the user that write the row.
LEMMA UserRowStep ==
  ASSUME Inv, Pause \/ Resume \/ EditDefinition \/ Delete
  PROVE  Inv'
<1> USE NoneType, ConstantsAssumption
<1>1. /\ now \in 0..MaxTime /\ task \in Rows /\ commands \in 0..MaxCommands
      /\ fate \in [Keys -> {"none", "claimed", "told", "dropped"}]
  BY DEF Inv, TypeOK
<1>2. commands' \in 0..MaxCommands
  BY <1>1 DEF Pause, Resume, EditDefinition, Delete, Command
<1>3. CASE Pause
  <2>1. /\ task' \in Rows /\ task'.status = "paused" /\ task'.pend = NoPending
        /\ task'.type = task.type /\ task'.ends = task.ends /\ task'.runAt = task.runAt
    BY <1>1, <1>3 DEF Pause, Paused, Rows
  <2>2. fate' \in [Keys -> {"none", "claimed", "told", "dropped"}]
    BY <1>1, <1>3 DEF Pause, Emptied
  <2> QED BY <1>1, <1>2, <1>3, <2>1, <2>2, TaskStep DEF Pause, Inv, OnceHasInstant
<1>4. CASE Resume
  <2>1. now' \in 0..MaxTime
    BY <1>1, <1>4 DEF Resume, StartsNow
  <2>2. ResumeDue \in 0..MaxTime + 1
    BY <1>1 DEF ResumeDue, InWindow, Never, Rows
  <2>3. task.pend = NoPending
    BY <1>4 DEF Resume, Inv, PausedHoldsNothing
  <2>4. /\ task' \in Rows /\ task'.status \in {"expired", "active", "completed"}
        /\ task'.pend = NoPending
        /\ task'.type = task.type /\ task'.ends = task.ends /\ task'.runAt = task.runAt
        /\ task'.status = "completed" => ResumeDue = Never
    <3>1. Never \in 0..MaxTime + 1 /\ task.round + 1 \in Nat
      BY <1>1 DEF Rows, Never
    <3>2. CASE OnceExpired
      BY <1>1, <1>4, <2>3, <3>1, <3>2 DEF Resume, Rows
    <3>3. CASE ~OnceExpired
      <4>1. \E st \in {"completed", "active"} :
              /\ task' = [task EXCEPT !.status = st, !.reason = "none", !.next = ResumeDue,
                                     !.round = @ + 1]
              /\ st = "completed" => ResumeDue = Never
        BY <1>4, <3>3 DEF Resume
      <4> QED BY <1>1, <2>2, <2>3, <3>1, <4>1, ZenonT(60) DEF Rows
    <3> QED BY <3>2, <3>3
  <2>5. task.type = "once" => task'.status # "completed"
    BY <2>4 DEF ResumeDue, Inv, OnceHasInstant
  <2> QED BY <1>1, <1>2, <1>4, <2>1, <2>4, <2>5, TaskStep DEF Resume, Inv, OnceHasInstant
<1>5. CASE EditDefinition
  <2>1. /\ task' \in Rows /\ task'.status = task.status /\ task'.pend = task.pend
        /\ task'.type = task.type /\ task'.ends = task.ends /\ task'.runAt = task.runAt
    BY <1>1, <1>5 DEF EditDefinition, Rows
  <2> QED BY <1>1, <1>2, <1>5, <2>1, TaskStep
             DEF EditDefinition, Inv, PausedHoldsNothing, NoOrphan, OnceHasInstant
<1>6. CASE Delete
  <2>1. /\ task' \in Rows /\ task'.status = "deleted" /\ task'.pend = NoPending
        /\ task'.type = task.type /\ task'.ends = task.ends /\ task'.runAt = task.runAt
    <3>1. 0 \in 0..MaxTime + 1 /\ NoPending \in Slots
      OBVIOUS
    <3> QED BY <1>1, <1>6, <3>1 DEF Delete, Rows, Never
  <2>2. fate' \in [Keys -> {"none", "claimed", "told", "dropped"}] /\ ~Busy
    BY <1>1, <1>6 DEF Delete, Deletable, Emptied
  <2> QED BY <1>1, <1>2, <1>6, <2>1, <2>2, TaskStep DEF Delete, Inv, OnceHasInstant
<1> QED BY <1>3, <1>4, <1>5, <1>6

LEMMA RescheduleStep ==
  ASSUME Inv, NEW s \in Schedules, Reschedule(s)
  PROVE  Inv'
<1> USE ConstantsAssumption
<1>1. /\ now \in 0..MaxTime /\ task \in Rows /\ commands \in 0..MaxCommands
      /\ fate \in [Keys -> {"none", "claimed", "told", "dropped"}]
      /\ s \in [type : ScheduleTypes, ends : 0..MaxTime + 1]
  BY DEF Inv, TypeOK
<1>2. now' \in 0..MaxTime /\ commands' \in 0..MaxCommands
  BY <1>1 DEF Reschedule, StartsNow, Command
<1>a. now + 1 \in 0..MaxTime + 1 /\ Never \in 0..MaxTime + 1
  BY <1>1 DEF Never
<1>b. \E at \in 0..MaxTime + 1 :
        /\ task' = [task EXCEPT !.type = s.type, !.ends = s.ends, !.next = now + 1, !.runAt = at]
        /\ s.type = "once" => at = now + 1
  BY <1>a DEF Reschedule
<1>3. /\ task' \in Rows /\ task'.status = task.status /\ task'.pend = task.pend
      /\ task'.type = s.type /\ task'.ends = s.ends
      /\ s.type = "once" => task'.runAt = now + 1 /\ s.ends = 0
      /\ task.status \in {"active", "paused"}
  BY <1>1, <1>a, <1>b DEF Reschedule, Rows
<1>4. OnceHasInstant'
  BY <1>1, <1>3 DEF OnceHasInstant, Never
<1> QED
  BY <1>1, <1>2, <1>3, <1>4, TaskStep DEF Reschedule, Inv, PausedHoldsNothing

LEMMA ManualStep ==
  ASSUME Inv, SubmitManual
  PROVE  Inv'
<1> DEFINE slot == [key |-> MaxTime + manuals + 1, trigger |-> "manual", def |-> task.def,
                    due |-> Never]
<1> USE KeysType, ConstantsAssumption
<1>1. /\ manuals \in 0..MaxManual - 1 /\ task \in Rows /\ task.status \in {"active", "completed"}
      /\ manuals' \in 0..MaxManual
  BY DEF Inv, TypeOK, SubmitManual, WindowCompleted
<1>2. slot \in Slots /\ slot.key \in Keys
  BY <1>1 DEF Slots, Rows
<1>3. /\ task' = [task EXCEPT !.pend = slot]
      /\ fate' = [fate EXCEPT ![slot.key] = "claimed"]
      /\ UNCHANGED <<now, run, call, late, commands, faults>>
  BY DEF SubmitManual
<1>4. NamesItsDue(slot)
  BY <1>2 DEF NamesItsDue
<1> HIDE DEF slot
<1>5. /\ task' \in Rows /\ task'.pend = slot /\ task'.status = task.status
      /\ task'.type = task.type /\ task'.ends = task.ends /\ task'.runAt = task.runAt
  BY <1>1, <1>2, <1>3 DEF Rows
<1>6. /\ fate' \in [Keys -> {"none", "claimed", "told", "dropped"}]
      /\ call' \in [Dispatchers -> Calls] /\ late' \subseteq Calls /\ Copies'
  BY <1>3 DEF Inv, TypeOK, Copies
<1> QED
  BY <1>1, <1>3, <1>4, <1>5, <1>6, RowStep DEF Inv, TypeOK, OnceHasInstant

-----------------------------------------------------------------------------
(* Steps that write a run *)

\* A run that is not made or opened for a deleted task, and does not go back from its end.
LEMMA RunStep ==
  ASSUME Inv, UNCHANGED <<now, task, fate, manuals>>,
         commands' \in 0..MaxCommands, faults' \in 0..MaxFaults,
         call' \in [Dispatchers -> Calls], late' \subseteq Calls, Copies',
         NEW k \in Keys, NEW r \in Runs, run' = [run EXCEPT ![k] = r],
         r.due \in {Never, k}, IsFiniteSet(r.controls),
         r.status \in {"open", "interrupted"} => task.status # "deleted",
         run[k].status # "ended"
  PROVE  Inv'
<1>1. TypeOK'
  BY DEF Inv, TypeOK
<1>2. RunsNamed'
  BY DEF Inv, TypeOK, RunsNamed
<1>3. NoOrphan'
  BY DEF Inv, TypeOK, NoOrphan, Busy, Open
<1>4. OnceUsedUp'
  <2>1. \A j \in Keys : run[j].status = "ended" => run'[j] = run[j]
    BY DEF Inv, TypeOK
  <2> QED BY <2>1 DEF Inv, OnceUsedUp
<1> QED
  BY <1>1, <1>2, <1>3, <1>4 DEF Inv, OnceHasInstant, PausedHoldsNothing

LEMMA AcceptRun ==
  ASSUME Inv, NEW slot \in Slots, NamesItsDue(slot), slot.key # Never, Accept(slot)
  PROVE  \E r \in Runs :
           /\ run' = [run EXCEPT ![slot.key] = r] /\ r.due \in {Never, slot.key}
           /\ IsFiniteSet(r.controls) /\ task.status # "deleted"
           /\ run[slot.key].status # "ended"
<1> DEFINE r == [NoRun EXCEPT !.status = "open", !.trigger = slot.trigger, !.def = slot.def,
                              !.due = slot.due, !.attempt = 1]
<1>1. r \in Runs /\ r.due = slot.due /\ r.controls = {}
  BY DEF NoRun, Runs, Slots, Never
<1>2. task.status # "deleted" /\ run[slot.key].status = "none"
  BY DEF Accept, Acceptable, WindowCompleted
<1>3. run' = [run EXCEPT ![slot.key] = r]
  BY DEF Accept
<1> HIDE DEF r
<1> QED BY <1>1, <1>2, <1>3, FS_EmptySet DEF NamesItsDue

LEMMA PostStep ==
  ASSUME Inv, NEW d \in Dispatchers, PostAccepted(d)
  PROVE  Inv'
<1>1. /\ call[d] \in Calls /\ ReadFromRow(call[d]) /\ call[d].pc \in Answering
      /\ call[d].slot \in Slots /\ call[d].slot.key \in Keys /\ call[d].slot.key # Never
  BY DEF Inv, TypeOK, Copies, PostAccepted, Answering, Calls, Slots, ReadFromRow
<1>2. call' = [call EXCEPT ![d] = [call[d] EXCEPT !.pc = "accepted"]]
  BY DEF PostAccepted, Answer, Inv, TypeOK
<1>3. [call[d] EXCEPT !.pc = "accepted"] \in Calls /\ ReadFromRow([call[d] EXCEPT !.pc = "accepted"])
  BY <1>1, Answered DEF Answering
<1>4. CASE Accept(call[d].slot)
  <2>1. PICK r \in Runs :
          /\ run' = [run EXCEPT ![call[d].slot.key] = r] /\ r.due \in {Never, call[d].slot.key}
          /\ IsFiniteSet(r.controls) /\ task.status # "deleted"
          /\ run[call[d].slot.key].status # "ended"
    BY <1>1, <1>4, AcceptRun DEF ReadFromRow
  <2>2. call' \in [Dispatchers -> Calls] /\ Copies' /\ late' \subseteq Calls
    BY <1>2, <1>3 DEF PostAccepted, Inv, TypeOK, Copies
  <2>3. UNCHANGED <<now, task, fate, commands, faults, manuals>>
    BY DEF PostAccepted
  <2>4. commands \in 0..MaxCommands /\ faults \in 0..MaxFaults
    BY DEF Inv, TypeOK
  <2> QED BY <1>1, <2>1, <2>2, <2>3, <2>4, RunStep
<1>5. CASE UNCHANGED run
  <2>1. UNCHANGED <<now, task, fate, late, commands, faults, manuals>>
    BY DEF PostAccepted
  <2>2. faults \in 0..MaxFaults
    BY DEF Inv, TypeOK
  <2> QED BY <1>2, <1>3, <1>5, <2>1, <2>2, CallStep
<1> QED BY <1>4, <1>5 DEF PostAccepted

\* A request of a sender that stopped to wait does what the request would have done.
LEMMA LateStep ==
  ASSUME Inv, NEW c \in late, LatePost(c) \/ LateControl(c)
  PROVE  Inv'
<1>1. /\ c \in Calls /\ ReadFromRow(c) /\ late' \subseteq late
      /\ UNCHANGED <<now, task, call, fate, commands, faults, manuals>>
  BY DEF Inv, TypeOK, Copies, LatePost, LateControl
<1>2. /\ call' \in [Dispatchers -> Calls] /\ late' \subseteq Calls /\ Copies'
      /\ commands' \in 0..MaxCommands /\ faults' \in 0..MaxFaults
  BY <1>1 DEF Inv, TypeOK, Copies
<1>3. CASE UNCHANGED run
  BY <1>1, <1>2, <1>3, RowStep DEF Inv, TypeOK, PausedHoldsNothing, NoOrphan, OnceHasInstant
<1>4. CASE LatePost(c) /\ Accept(c.slot)
  <2>1. c.slot \in Slots /\ c.slot.key \in Keys /\ c.slot.key # Never /\ NamesItsDue(c.slot)
    BY <1>1, <1>4 DEF LatePost, Answering, Calls, Slots, ReadFromRow
  <2>2. PICK r \in Runs :
          /\ run' = [run EXCEPT ![c.slot.key] = r] /\ r.due \in {Never, c.slot.key}
          /\ IsFiniteSet(r.controls) /\ task.status # "deleted"
          /\ run[c.slot.key].status # "ended"
    BY <1>4, <2>1, AcceptRun
  <2> QED BY <1>1, <1>2, <2>1, <2>2, RunStep
<1>5. CASE LateControl(c) /\ AcceptControl(c)
  <2> DEFINE x == [attempt |-> c.attempt, n |-> c.n, round |-> task.round, status |-> "accepted"]
             r == [run[c.key] EXCEPT !.controls = @ \union {x}]
  <2>1. c.key \in Keys /\ x \in ControlRows
    BY <1>1, <1>5 DEF LateControl, Calls, ReadFromRow, Inv, TypeOK, Rows, ControlRows
  <2>2. run[c.key] \in Runs /\ run[c.key].due \in {Never, c.key} /\ run[c.key].status = "interrupted"
    BY <1>5, <2>1 DEF Inv, TypeOK, RunsNamed, AcceptControl, Parked
  <2>3. /\ run' = [run EXCEPT ![c.key] = r] /\ r \in Runs /\ r.due \in {Never, c.key}
        /\ r.status = "interrupted"
    BY <1>5, <2>1, <2>2 DEF AcceptControl, Runs, Inv, TypeOK
  <2>4. IsFiniteSet(r.controls)
    <3>1. IsFiniteSet(run[c.key].controls)
      BY <2>1 DEF Inv, RunsNamed
    <3>2. IsFiniteSet(run[c.key].controls \union {x})
      BY <3>1, FS_AddElement
    <3> HIDE DEF x
    <3> QED BY <2>2, <3>2 DEF Runs
  <2>5. task.status # "deleted"
    BY <2>1, <2>2 DEF Inv, NoOrphan, Busy, Open
  <2> HIDE DEF r
  <2> QED BY <1>1, <1>2, <2>1, <2>2, <2>3, <2>4, <2>5, RunStep
<1> QED BY <1>3, <1>4, <1>5 DEF LatePost, LateControl

LEMMA ControlStep ==
  ASSUME Inv, NEW d \in Dispatchers, PostControl(d)
  PROVE  Inv'
<1> DEFINE c == call[d]
           x == [attempt |-> c.attempt, n |-> c.n, round |-> task.round, status |-> "accepted"]
           r == [run[c.key] EXCEPT !.controls = @ \union {x}]
<1>1. c \in Calls /\ ReadFromRow(c) /\ c.key \in Keys
  BY DEF Inv, TypeOK, Copies, PostControl, Calls, ReadFromRow
<1>2. /\ call' = [call EXCEPT ![d] = Idle]
      /\ UNCHANGED <<now, task, late, fate, commands, faults, manuals>>
  BY DEF PostControl
<1>3. /\ call' \in [Dispatchers -> Calls] /\ late' \subseteq Calls /\ Copies'
      /\ commands' \in 0..MaxCommands /\ faults' \in 0..MaxFaults
  BY <1>2, NoneType DEF Inv, TypeOK, Copies
<1>4. CASE UNCHANGED run
  <2>1. faults \in 0..MaxFaults
    BY DEF Inv, TypeOK
  <2> QED BY <1>2, <1>4, <2>1, NoneType, CallStep
<1>5. CASE AcceptControl(c)
  <2>1. x \in ControlRows
    BY <1>1 DEF Calls, Inv, TypeOK, Rows, ControlRows
  <2>2. run[c.key] \in Runs /\ run[c.key].due \in {Never, c.key} /\ run[c.key].status = "interrupted"
    BY <1>1, <1>5 DEF Inv, TypeOK, RunsNamed, AcceptControl, Parked
  <2>3. /\ run' = [run EXCEPT ![c.key] = r] /\ r \in Runs /\ r.due \in {Never, c.key}
        /\ r.status = "interrupted"
    BY <1>1, <1>5, <2>1, <2>2 DEF AcceptControl, Runs, Inv, TypeOK
  <2>4. IsFiniteSet(r.controls)
    <3>1. IsFiniteSet(run[c.key].controls)
      BY <1>1 DEF Inv, RunsNamed
    <3>2. IsFiniteSet(run[c.key].controls \union {x})
      BY <3>1, FS_AddElement
    <3> HIDE DEF x
    <3> QED BY <2>2, <3>2 DEF Runs
  <2>5. task.status # "deleted"
    BY <1>1, <2>2 DEF Inv, NoOrphan, Busy, Open
  <2> HIDE DEF r
  <2> QED BY <1>1, <1>2, <1>3, <2>2, <2>3, <2>4, <2>5, RunStep
<1> QED BY <1>4, <1>5 DEF PostControl

\* Closing the open controls of a run leaves as many of them.
LEMMA ClosedFinite ==
  ASSUME NEW S \in SUBSET ControlRows, IsFiniteSet(S)
  PROVE  LET T == {IF x.status = "accepted" THEN [x EXCEPT !.status = "rejected"] ELSE x : x \in S}
         IN  T \in SUBSET ControlRows /\ IsFiniteSet(T)
<1> DEFINE f == [x \in S |-> IF x.status = "accepted" THEN [x EXCEPT !.status = "rejected"] ELSE x]
           T == {IF x.status = "accepted" THEN [x EXCEPT !.status = "rejected"] ELSE x : x \in S}
<1>1. T \in SUBSET ControlRows
  BY DEF ControlRows
<1>2. f \in Surjection(S, T)
  BY DEF Surjection
<1>3. IsFiniteSet(T)
  BY <1>2, FS_Surjection
<1> QED BY <1>1, <1>3

LEMMA CancelStep ==
  ASSUME Inv, NEW k \in Keys, Cancel(k)
  PROVE  Inv'
<1> DEFINE T == {IF x.status = "accepted" THEN [x EXCEPT !.status = "rejected"] ELSE x :
                   x \in run[k].controls}
           r == [run[k] EXCEPT !.cancel = TRUE, !.controls = T]
<1>1. /\ run[k] \in Runs /\ run[k].due \in {Never, k}
      /\ run[k].status \in {"open", "interrupted"} /\ task.status # "deleted"
  BY DEF Inv, TypeOK, RunsNamed, Cancel, Open, NoOrphan, Busy
<1>2. T \in SUBSET ControlRows /\ IsFiniteSet(T)
  BY <1>1, ClosedFinite DEF Inv, RunsNamed, Runs
<1>3. run' = [run EXCEPT ![k] = r]
  BY DEF Cancel, Inv, TypeOK
<1> HIDE DEF T
<1>4. r \in Runs /\ r.due \in {Never, k} /\ IsFiniteSet(r.controls)
  BY <1>1, <1>2 DEF Runs
<1>5. /\ UNCHANGED <<now, task, call, late, fate, faults, manuals>>
      /\ commands < MaxCommands /\ commands' = commands + 1
  BY DEF Cancel, Command
<1>6. /\ call' \in [Dispatchers -> Calls] /\ late' \subseteq Calls /\ Copies'
      /\ faults' \in 0..MaxFaults /\ commands' \in 0..MaxCommands
  BY <1>5, ConstantsAssumption DEF Inv, TypeOK, Copies
<1> HIDE DEF r
<1> QED BY <1>1, <1>3, <1>4, <1>5, <1>6, RunStep

LEMMA RunnerStep ==
  ASSUME Inv, NEW k \in Keys, Interrupt(k) \/ Resumed(k) \/ RejectControl(k)
  PROVE  Inv'
<1>1. /\ run[k] \in Runs /\ run[k].due \in {Never, k} /\ IsFiniteSet(run[k].controls)
      /\ run[k].status \in {"open", "interrupted"} /\ task.status # "deleted"
  BY DEF Inv, TypeOK, RunsNamed, Interrupt, Resumed, RejectControl, Parked, Open, NoOrphan, Busy
<1>2. /\ UNCHANGED <<now, task, call, late, fate, commands, manuals>>
      /\ faults' \in 0..MaxFaults
  BY ConstantsAssumption DEF Interrupt, Resumed, RejectControl, Fault, Inv, TypeOK
<1>3. /\ call' \in [Dispatchers -> Calls] /\ late' \subseteq Calls /\ Copies'
      /\ commands' \in 0..MaxCommands
  BY <1>2 DEF Inv, TypeOK, Copies
<1>4. CASE Interrupt(k)
  <2> DEFINE r == [run[k] EXCEPT !.status = "interrupted"]
  <2>1. run' = [run EXCEPT ![k] = r] /\ r \in Runs /\ r.due = run[k].due
        /\ r.controls = run[k].controls
    BY <1>1, <1>4 DEF Interrupt, Runs, Inv, TypeOK
  <2> HIDE DEF r
  <2> QED BY <1>1, <1>2, <1>3, <2>1, RunStep
<1>5. ASSUME NEW x \in Accepted(k), NEW st \in {"consumed", "rejected"}
      PROVE  LET T == (run[k].controls \ {x}) \union {[x EXCEPT !.status = st]}
             IN  T \in SUBSET ControlRows /\ IsFiniteSet(T)
  <2> DEFINE y == [x EXCEPT !.status = st]
  <2>1. x \in run[k].controls /\ y \in ControlRows
    BY <1>1 DEF Accepted, Runs, ControlRows
  <2>2. IsFiniteSet(run[k].controls \ {x})
    BY <1>1, FS_RemoveElement
  <2> HIDE DEF y
  <2>3. IsFiniteSet((run[k].controls \ {x}) \union {y})
    BY <2>2, FS_AddElement
  <2> QED BY <1>1, <2>1, <2>3 DEF Runs, y
<1>6. CASE Resumed(k)
  <2>1. PICK x \in Accepted(k) :
          run' = [run EXCEPT ![k].status = "open", ![k].attempt = @ + 1,
                             ![k].controls = (@ \ {x}) \union {[x EXCEPT !.status = "consumed"]}]
    BY <1>6 DEF Resumed
  <2> DEFINE T == (run[k].controls \ {x}) \union {[x EXCEPT !.status = "consumed"]}
             r == [run[k] EXCEPT !.status = "open", !.attempt = @ + 1, !.controls = T]
  <2>2. T \in SUBSET ControlRows /\ IsFiniteSet(T)
    BY <1>5
  <2>3. run' = [run EXCEPT ![k] = r]
    BY <2>1 DEF Inv, TypeOK
  <2> HIDE DEF T
  <2>4. run[k].attempt + 1 \in Nat
    BY <1>1 DEF Runs
  <2>5. r \in Runs /\ r.due = run[k].due /\ r.controls = T
    <3> DEFINE n == run[k].attempt + 1
    <3> HIDE DEF n
    <3>1. n \in Nat /\ r = [run[k] EXCEPT !.status = "open", !.attempt = n, !.controls = T]
      BY <2>4 DEF n
    <3> QED BY <1>1, <2>2, <3>1 DEF Runs
  <2> HIDE DEF r
  <2> QED BY <1>1, <1>2, <1>3, <2>2, <2>3, <2>5, RunStep
<1>7. CASE RejectControl(k)
  <2>1. PICK x \in Accepted(k) :
          run' = [run EXCEPT ![k].controls = (@ \ {x}) \union {[x EXCEPT !.status = "rejected"]}]
    BY <1>7 DEF RejectControl
  <2> DEFINE T == (run[k].controls \ {x}) \union {[x EXCEPT !.status = "rejected"]}
             r == [run[k] EXCEPT !.controls = T]
  <2>2. T \in SUBSET ControlRows /\ IsFiniteSet(T)
    BY <1>5
  <2>3. run' = [run EXCEPT ![k] = r]
    BY <2>1 DEF Inv, TypeOK
  <2> HIDE DEF T
  <2>4. r \in Runs /\ r.due = run[k].due /\ r.controls = T
    BY <1>1, <2>2 DEF Runs
  <2> HIDE DEF r
  <2> QED BY <1>1, <1>2, <1>3, <2>2, <2>3, <2>4, RunStep
<1> QED BY <1>4, <1>6, <1>7

\* The end of a run writes the run and the task.
LEMMA EndStep ==
  ASSUME Inv, NEW k \in Keys, NEW blocked \in BOOLEAN, RunEnds(k, blocked)
  PROVE  Inv'
<1> USE NoneType
<1> DEFINE r == [run[k] EXCEPT !.status = "ended"]
<1>1. /\ run[k] \in Runs /\ run[k].due \in {Never, k} /\ IsFiniteSet(run[k].controls)
      /\ task \in Rows /\ task.status # "deleted"
  BY DEF Inv, TypeOK, RunsNamed, RunEnds, NoOrphan, Busy, Open
<1>2. run' = [run EXCEPT ![k] = r] /\ r \in Runs /\ r.due = run[k].due
      /\ r.controls = run[k].controls /\ r.status = "ended" /\ r.trigger = run[k].trigger
  BY <1>1 DEF RunEnds, Runs, Inv, TypeOK
<1> HIDE DEF r
<1>3. /\ UNCHANGED <<now, call, late, commands, faults, manuals>>
      /\ fate' \in [Keys -> {"none", "claimed", "told", "dropped"}]
  BY DEF RunEnds, Emptied, Inv, TypeOK
<1>4. PICK st, rs, p :
        /\ task' = [task EXCEPT !.status = st, !.reason = rs, !.pend = p]
        /\ st = RunStatus(run[k].trigger, blocked)
        /\ rs \in {"auto", "none", task.reason}
        /\ p = IF RunEmpties(blocked) THEN NoPending ELSE task.pend
  BY <1>1 DEF RunEnds
<1>5. /\ st \in {"completed", "paused", task.status}
      /\ st = "paused" => p = NoPending \/ task.status = "paused"
      /\ st = "completed" /\ task.type = "once" =>
           run[k].trigger = "scheduled" \/ task.status = "completed"
  BY <1>4 DEF RunStatus, RunEmpties
<1>6. /\ task' \in Rows /\ task'.pend = p /\ task'.status = st
      /\ task'.type = task.type /\ task'.ends = task.ends /\ task'.runAt = task.runAt
  BY <1>1, <1>4, <1>5 DEF Rows
<1>7. NamesItsDue(p) /\ PausedHoldsNothing'
  BY <1>4, <1>5, <1>6 DEF Inv, PausedHoldsNothing
<1>8. TypeOK' /\ Copies'
  BY <1>2, <1>3, <1>6 DEF Inv, TypeOK, Copies
<1>9. RunsNamed'
  BY <1>1, <1>2 DEF Inv, TypeOK, RunsNamed
<1>10. NoOrphan'
  BY <1>1, <1>5, <1>6 DEF NoOrphan
<1>11. OnceUsedUp'
  <2>1. \A j \in Keys : run[j].status = "ended" =>
          run'[j].status = "ended" /\ run'[j].trigger = run[j].trigger
    BY <1>2 DEF Inv, TypeOK
  <2>2. run'[k].status = "ended" /\ run'[k].trigger = run[k].trigger
    BY <1>2 DEF Inv, TypeOK
  <2> QED BY <1>5, <1>6, <2>1, <2>2 DEF Inv, OnceUsedUp
<1> QED BY <1>6, <1>7, <1>8, <1>9, <1>10, <1>11 DEF Inv, OnceHasInstant

LEMMA InvNext ==
  ASSUME Inv, [Next]_vars
  PROVE  Inv'
<1>1. CASE UNCHANGED vars
  BY <1>1 DEF vars, Inv, TypeOK, Copies, RunsNamed, OnceHasInstant, PausedHoldsNothing,
     NoOrphan, Busy, Open, OnceUsedUp
<1>2. CASE Tick \/ ExpireOnce \/ FinalizeWindow
  BY <1>2, ClockStep
<1>3. ASSUME NEW d \in Dispatchers, Dispatch(d) PROVE Inv'
  BY <1>3, ClaimStep, HeldStep, PostStep, SettleStep, ControlStep, PauseInterruptedStep
     DEF Dispatch
<1>4. ASSUME NEW d \in Dispatchers, Recover(d) \/ Failures(d) PROVE Inv'
  BY <1>4, HeldStep DEF Recover, Failures
<1>5. ASSUME NEW c \in late, LatePost(c) \/ LateControl(c) PROVE Inv'
  BY <1>5, LateStep
<1>6. ASSUME NEW k \in Keys, Runner(k) PROVE Inv'
  BY <1>6, RunnerStep, EndStep DEF Runner
<1>7. CASE User
  BY <1>7, UserRowStep, ManualStep, RescheduleStep, CancelStep DEF User
<1> QED
  BY <1>1, <1>2, <1>3, <1>4, <1>5, <1>6, <1>7 DEF Next

-----------------------------------------------------------------------------
(* Theorems *)


\* Every reachable state is a state the tables, the requests and the dispatchers' memory can be in.
THEOREM TypeCorrect == Spec => []TypeOK
<1>1. Inv => TypeOK
  BY DEF Inv
<1> QED BY <1>1, InvInit, InvNext, PTL DEF Spec

\* Pausing, expiring or deleting a task takes what was pending with it, in every order of
\* answers, results and commands.
THEOREM PauseEmptiesSlot == Spec => []PausedHoldsNothing
<1>1. Inv => PausedHoldsNothing
  BY DEF Inv
<1> QED BY <1>1, InvInit, InvNext, PTL DEF Spec

\* Two runs are never made for one due time: lost answers, restarts, late requests and the
\* recomputation of a due time after a pause all come back to the same key.
THEOREM DueExecutedOnce == Spec => []OncePerDue
<1>1. Inv => OncePerDue
  BY DEF Inv, RunsNamed, OncePerDue
<1> QED BY <1>1, InvInit, InvNext, PTL DEF Spec

\* A task is deleted with its session only when nothing of it runs, and nothing starts after.
THEOREM DeletedHasNoRun == Spec => []NoOrphan
<1>1. Inv => NoOrphan
  BY DEF Inv
<1> QED BY <1>1, InvInit, InvNext, PTL DEF Spec

\* An immediate run, a pause or an edit never uses up a task that runs once.
THEOREM OnceUsedByItsRun == Spec => []OnceUsedUp
<1>1. Inv => OnceUsedUp
  BY DEF Inv
<1> QED BY <1>1, InvInit, InvNext, PTL DEF Spec

\* No step takes a completed task back to work.
THEOREM OverStaysOver == Spec => CompletedStays
<1>1. ASSUME Inv, [Next]_vars, task.status = "completed"
      PROVE  task'.status \in {"completed", "deleted"}
  <2> USE <1>1
  <2>0. task \in Rows
    BY DEF Inv, TypeOK
  <2>1. CASE UNCHANGED vars
    BY <2>1 DEF vars
  <2>2. CASE Tick \/ ExpireOnce \/ FinalizeWindow
    BY <2>2 DEF Tick, ExpireOnce, FinalizeWindow, Due
  <2>3. ASSUME NEW d \in Dispatchers, Dispatch(d)
        PROVE  task'.status = task.status
    <3>1. CASE ClaimDue(d)
      BY <3>1 DEF ClaimDue, Due
    <3>2. CASE ClearPending(d) \/ RejectManual(d)
      BY <2>0, <3>2 DEF ClearPending, RejectManual, Rows
    <3>3. CASE PauseForOccurrence(d) \/ PauseInterrupted(d)
      BY <3>3 DEF PauseForOccurrence, PauseInterrupted, RoundCurrent
    <3>4. CASE \/ ListPending(d) \/ PostAccepted(d) \/ CountBudget(d) \/ CountSequence(d)
               \/ PostControl(d)
      BY <3>4 DEF ListPending, PostAccepted, CountBudget, CountSequence, PostControl
    <3> QED BY <2>3, <3>1, <3>2, <3>3, <3>4 DEF Dispatch
  <2>4. ASSUME NEW d \in Dispatchers, Recover(d) \/ Failures(d)
        PROVE  task' = task
    BY <2>4 DEF Recover, Failures, ListInterrupted, PostRefused, PostDenied, GiveUp
  <2>5. ASSUME NEW c \in late, LatePost(c) \/ LateControl(c)
        PROVE  task' = task
    BY <2>5 DEF LatePost, LateControl
  <2>6. ASSUME NEW k \in Keys, Runner(k)
        PROVE  task'.status = "completed" \/ task'.status = task.status
    <3>1. CASE Interrupt(k) \/ Resumed(k) \/ RejectControl(k)
      BY <3>1 DEF Interrupt, Resumed, RejectControl
    <3>2. ASSUME NEW blocked \in BOOLEAN, RunEnds(k, blocked)
          PROVE  task'.status = "completed" \/ task'.status = task.status
      <4>1. RunStatus(run[k].trigger, blocked) = "completed"
        BY DEF RunStatus
      <4>2. PICK st, rs, p :
              /\ task' = [task EXCEPT !.status = st, !.reason = rs, !.pend = p]
              /\ st = RunStatus(run[k].trigger, blocked)
              /\ rs \in {"auto", "none", task.reason}
              /\ p = IF RunEmpties(blocked) THEN NoPending ELSE task.pend
        BY <3>2 DEF RunEnds
      <4> QED BY <2>0, <4>1, <4>2 DEF Rows
    <3> QED BY <2>6, <3>1, <3>2 DEF Runner
  <2>7. CASE User
    <3>1. CASE Pause \/ Resume \/ \E s \in Schedules : Reschedule(s)
      BY <3>1 DEF Pause, Resume, Reschedule
    <3>2. CASE EditDefinition
      BY <2>0, <3>2 DEF EditDefinition, Rows
    <3>3. CASE SubmitManual
      <4>1. \E p : task' = [task EXCEPT !.pend = p]
        BY <3>3 DEF SubmitManual
      <4> QED BY <2>0, <4>1 DEF Rows
    <3>4. CASE Delete
      BY <2>0, <3>4 DEF Delete, Rows
    <3>5. CASE \E k \in Keys : Cancel(k)
      BY <3>5 DEF Cancel
    <3> QED BY <2>7, <3>1, <3>2, <3>3, <3>4, <3>5 DEF User
  <2> QED BY <2>1, <2>2, <2>3, <2>4, <2>5, <2>6, <2>7 DEF Next
<1>2. ASSUME Inv, [Next]_vars
      PROVE  [task.status = "completed" => task'.status \in {"completed", "deleted"}]_vars
  BY <1>1, <1>2
<1> QED BY <1>2, InvInit, InvNext, PTL DEF Spec, CompletedStays

\* Whatever arrives late, an answer changes the task for its own occurrence or not at all.
THEOREM AnswersSettleTheirOwn == Spec => AnswerSettlesItsOwn
<1>1. ASSUME Inv, [Next]_vars, NEW d \in Dispatchers,
             call[d].pc \in {"accepted", "refused", "rejecting", "clearing"},
             call'[d] # call[d], task.pend.key # call[d].slot.key
      PROVE  task' = task
  <2> USE <1>1
  <2>1. ASSUME NEW e \in Dispatchers, \E c : call' = [call EXCEPT ![e] = c]
        PROVE  e = d
    BY <2>1 DEF Inv, TypeOK
  <2>2. CASE UNCHANGED call
    BY <2>2
  <2>3. ASSUME NEW e \in Dispatchers, Dispatch(e)
        PROVE  task' = task
    <3>1. \E c : call' = [call EXCEPT ![e] = c]
      <4>1. ASSUME NEW pc, Answer(e, pc)
            PROVE  call' = [call EXCEPT ![e] = [call[e] EXCEPT !.pc = pc]]
        BY <4>1 DEF Answer, Inv, TypeOK
      <4> QED BY <2>3, <4>1 DEF Dispatch, ClaimDue, ListPending, PostAccepted, ClearPending,
                 PauseForOccurrence, RejectManual, CountBudget, CountSequence, PostControl,
                 PauseInterrupted
    <3>2. e = d
      BY <2>1, <3>1
    <3> QED BY <2>3, <3>2 DEF Dispatch, ClaimDue, ListPending, PostAccepted, ClearPending,
               PauseForOccurrence, RejectManual, CountBudget, CountSequence, PostControl,
               PauseInterrupted, Holds, Rejectable
  <2>4. ASSUME NEW e \in Dispatchers, Recover(e) \/ Failures(e)
        PROVE  task' = task
    BY <2>4 DEF Recover, Failures, ListInterrupted, PostRefused, PostDenied, GiveUp
  <2>5. ASSUME NEW c \in late, LatePost(c) \/ LateControl(c)
        PROVE  task' = task
    BY <2>5 DEF LatePost, LateControl
  <2>6. CASE UNCHANGED vars \/ Tick \/ ExpireOnce \/ FinalizeWindow
    BY <2>2, <2>6 DEF vars, Tick, ExpireOnce, FinalizeWindow
  <2>7. ASSUME NEW k \in Keys, Runner(k)
        PROVE  UNCHANGED call
    BY <2>7 DEF Runner, Interrupt, Resumed, RejectControl, RunEnds
  <2>8. CASE User
    BY <2>2, <2>8 DEF User, Pause, Resume, EditDefinition, SubmitManual, Delete, Reschedule, Cancel
  <2> QED BY <2>2, <2>3, <2>4, <2>5, <2>6, <2>7, <2>8 DEF Next
<1>2. ASSUME Inv, [Next]_vars
      PROVE  [\A d \in Dispatchers :
                /\ call[d].pc \in {"accepted", "refused", "rejecting", "clearing"}
                /\ call'[d] # call[d]
                /\ task.pend.key # call[d].slot.key
                => task' = task]_vars
  BY <1>1, <1>2
<1> QED BY <1>2, InvInit, InvNext, PTL DEF Spec, AnswerSettlesItsOwn

-----------------------------------------------------------------------------
(* The budget of a recovery *)

\* The controls that resume one attempt, those of them of one round, the rejected ones.
OfAttempt(k, a) == {x \in run[k].controls : x.attempt = a}
OfRound(k, a, r) == {x \in run[k].controls : x.attempt = a /\ x.round = r}
RejectedOf(k, a, since) ==
  {x \in run[k].controls : x.attempt = a /\ x.status = "rejected" /\ x.round >= since}

Over == {"completed", "deleted"}

\* The controls of an attempt have used every number below their count.
NumbersUsed ==
  \A k \in Keys, a \in Nat, j \in Nat :
    j < Cardinality(OfAttempt(k, a)) => \E x \in OfAttempt(k, a) : x.n = j

\* Only a runner has controls.
NoneBare == \A k \in Keys : run[k].status = "none" => run[k].controls = {}

\* What a dispatcher counted is not more than was rejected.
CountHolds(c) == c.pc = "resuming" => c.n <= Rejected(c, 0)

\* What it listed is of this round or an earlier one, and a task that was over is over.
ListHolds(c) ==
  c.pc \in {"listed", "counted", "resuming"} =>
    c.round <= task.round /\ (c.completed => task.status \in Over)

CountsHold ==
  /\ \A d \in Dispatchers : CountHolds(call[d]) /\ ListHolds(call[d])
  /\ \A c \in late : CountHolds(c) /\ ListHolds(c)

\* An attempt has one control that is open or was consumed.
OneUnrejected ==
  \A k \in Keys : \A x, y \in run[k].controls :
    x.attempt = y.attempt /\ x.status # "rejected" /\ y.status # "rejected" => x = y

RoundsPast == \A k \in Keys : \A x \in run[k].controls : x.round <= task.round

\* Dispatchers between their two counts, and requests whose number no control has.
Counting(k, a) ==
  {d \in Dispatchers : call[d].pc = "counted" /\ call[d].key = k /\ call[d].attempt = a}
IsFresh(c, k, a) == c.pc = "resuming" /\ c.key = k /\ c.attempt = a /\ Numbered(c) = {}
Fresh(k, a) ==
  \/ \E d \in Dispatchers : IsFresh(call[d], k, a)
  \/ \E c \in late : IsFresh(c, k, a)

Limit == MaxAttempts + Cardinality(Dispatchers)

\* A budget that is used up is exceeded by those only that had counted it before.
OverrunHolds(k, a) ==
  Cardinality(OfRound(k, a, task.round)) >= MaxAttempts =>
    /\ Cardinality(OfRound(k, a, task.round)) + Cardinality(Counting(k, a)) <= Limit
    /\ Fresh(k, a) =>
         Cardinality(OfRound(k, a, task.round)) + Cardinality(Counting(k, a)) < Limit

OverrunsHold == task.status \notin Over => \A k \in Keys, a \in Nat : OverrunHolds(k, a)

RoundsBounded ==
  task.status \notin Over =>
    \A k \in Keys, a \in Nat, r \in Nat : Cardinality(OfRound(k, a, r)) <= Limit

RecoveryInv ==
  /\ Inv /\ NumbersUsed /\ NoneBare /\ CountsHold
  /\ OneUnrejected /\ RoundsPast /\ OverrunsHold /\ RoundsBounded

\* Closing controls: each keeps its attempt, number and round, and a rejected one is final.
Settles(C, D) ==
  \E s : /\ D = {s[x] : x \in C}
         /\ \A x \in C : /\ s[x].attempt = x.attempt /\ s[x].n = x.n /\ s[x].round = x.round
                         /\ x.status = "rejected" => s[x] = x

LEMMA ControlsFinite ==
  ASSUME Inv, NEW k \in Keys, NEW a, NEW r
  PROVE  /\ run[k].controls \subseteq ControlRows /\ IsFiniteSet(run[k].controls)
         /\ IsFiniteSet(OfAttempt(k, a)) /\ Cardinality(OfAttempt(k, a)) \in Nat
         /\ IsFiniteSet(OfRound(k, a, r)) /\ Cardinality(OfRound(k, a, r)) \in Nat
         /\ IsFiniteSet(RejectedOf(k, a, r)) /\ Cardinality(RejectedOf(k, a, r)) \in Nat
<1>1. run[k].controls \subseteq ControlRows /\ IsFiniteSet(run[k].controls)
  BY DEF Inv, TypeOK, Runs, RunsNamed
<1>2. /\ OfAttempt(k, a) \in SUBSET run[k].controls
      /\ OfRound(k, a, r) \in SUBSET run[k].controls
      /\ RejectedOf(k, a, r) \in SUBSET run[k].controls
  BY DEF OfAttempt, OfRound, RejectedOf
<1> QED BY <1>1, <1>2, FS_Subset, FS_CardinalityType

\* A set has at least as many members as its image.
LEMMA ImageSmaller ==
  ASSUME NEW S, IsFiniteSet(S), NEW s
  PROVE  Cardinality({s[x] : x \in S}) <= Cardinality(S)
<1> DEFINE T == {s[x] : x \in S}
           f == [x \in S |-> s[x]]
<1>1. f \in Surjection(S, T)
  BY DEF Surjection
<1> QED BY <1>1, FS_Surjection

\* Closing controls uses no number and frees none, and takes back no rejection.
LEMMA SettlesKeeps ==
  ASSUME Inv, NEW k \in Keys, Settles(run[k].controls, run'[k].controls), NEW a, NEW r
  PROVE  /\ Cardinality(OfAttempt(k, a)') <= Cardinality(OfAttempt(k, a))
         /\ \A x \in OfAttempt(k, a) : \E y \in OfAttempt(k, a)' : y.n = x.n
         /\ Cardinality(OfRound(k, a, r)') <= Cardinality(OfRound(k, a, r))
         /\ RejectedOf(k, a, r) \subseteq RejectedOf(k, a, r)'
<1> DEFINE C == run[k].controls
<1>1. PICK s : /\ run'[k].controls = {s[x] : x \in C}
               /\ \A x \in C : /\ s[x].attempt = x.attempt /\ s[x].n = x.n
                               /\ s[x].round = x.round
                               /\ x.status = "rejected" => s[x] = x
  BY DEF Settles
<1>2. OfAttempt(k, a)' = {s[x] : x \in OfAttempt(k, a)}
  BY <1>1 DEF OfAttempt
<1>3. OfRound(k, a, r)' = {s[x] : x \in OfRound(k, a, r)}
  BY <1>1 DEF OfRound
<1>4. \A x \in OfAttempt(k, a) : \E y \in OfAttempt(k, a)' : y.n = x.n
  BY <1>1, <1>2 DEF OfAttempt
<1>5. RejectedOf(k, a, r) \subseteq RejectedOf(k, a, r)'
  BY <1>1 DEF RejectedOf
<1> QED BY <1>2, <1>3, <1>4, <1>5, ControlsFinite, ImageSmaller

LEMMA LimitType ==
  /\ MaxAttempts \in Nat \ {0} /\ IsFiniteSet(Dispatchers)
  /\ Cardinality(Dispatchers) \in Nat /\ Limit \in Nat /\ MaxAttempts <= Limit
<1>1. MaxAttempts \in Nat \ {0} /\ IsFiniteSet(Dispatchers)
  BY ConstantsAssumption
<1>2. Cardinality(Dispatchers) \in Nat
  BY <1>1, FS_CardinalityType
<1> QED BY <1>1, <1>2 DEF Limit

LEMMA CountingFinite ==
  ASSUME NEW k, NEW a
  PROVE  /\ IsFiniteSet(Counting(k, a)) /\ Cardinality(Counting(k, a)) \in Nat
         /\ Cardinality(Counting(k, a)') \in Nat
         /\ Cardinality(Counting(k, a)') <= Cardinality(Dispatchers)
<1>1. Counting(k, a) \in SUBSET Dispatchers /\ Counting(k, a)' \in SUBSET Dispatchers
  BY DEF Counting
<1> QED BY <1>1, LimitType, FS_Subset, FS_CardinalityType

\* Where not all of the controls are rejected, a number up to the count of those is used.
LEMMA NumberTaken ==
  ASSUME NEW A, IsFiniteSet(A), NEW R \in SUBSET A, NEW n \in Nat, n <= Cardinality(R),
         \A j \in Nat : j < Cardinality(A) => \E y \in A : y.n = j,
         NEW x \in A, x \notin R
  PROVE  \E y \in A : y.n = n
<1>1. /\ Cardinality(A) \in Nat /\ Cardinality(R) \in Nat /\ Cardinality(R) <= Cardinality(A)
      /\ Cardinality(R) = Cardinality(A) => R = A
  BY FS_Subset, FS_CardinalityType
<1>2. n < Cardinality(A)
  <2>1. Cardinality(R) # Cardinality(A)
    BY <1>1
  <2> QED BY <1>1, <2>1
<1> QED BY <1>2

\* A control that is accepted has the next number: all that went before was rejected.
LEMMA AcceptedIsNext ==
  ASSUME RecoveryInv, NEW c \in Calls, c.pc = "resuming", c.key \in Keys,
         CountHolds(c), AcceptControl(c)
  PROVE  /\ c.n = Cardinality(OfAttempt(c.key, c.attempt))
         /\ OfAttempt(c.key, c.attempt) = RejectedOf(c.key, c.attempt, 0)
<1> DEFINE k == c.key
           a == c.attempt
<1>1. Rejected(c, 0) = Cardinality(RejectedOf(k, a, 0))
  BY DEF Rejected, RejectedOf
<1>2. a \in Nat /\ c.n \in Nat
  BY DEF Calls
<1>3. Inv /\ NumbersUsed
  BY DEF RecoveryInv
<1>4. /\ RejectedOf(k, a, 0) \in SUBSET OfAttempt(k, a)
      /\ IsFiniteSet(OfAttempt(k, a)) /\ Cardinality(OfAttempt(k, a)) \in Nat
      /\ Cardinality(RejectedOf(k, a, 0)) \in Nat
  <2>1. RejectedOf(k, a, 0) \in SUBSET OfAttempt(k, a)
    BY DEF RejectedOf, OfAttempt
  <2> QED BY <1>3, <2>1, ControlsFinite
<1>5. Cardinality(RejectedOf(k, a, 0)) <= Cardinality(OfAttempt(k, a))
  BY <1>4, FS_Subset
<1>6. ~(c.n < Cardinality(OfAttempt(k, a)))
  <2> SUFFICES ASSUME c.n < Cardinality(OfAttempt(k, a)) PROVE FALSE
    OBVIOUS
  <2>1. PICK x \in OfAttempt(k, a) : x.n = c.n
    BY <1>2, <1>3 DEF NumbersUsed
  <2>2. x \in Numbered(c)
    BY <2>1 DEF OfAttempt, Numbered
  <2> QED BY <2>2 DEF AcceptControl
<1>7. c.n <= Cardinality(RejectedOf(k, a, 0))
  BY <1>1 DEF CountHolds
<1>8. /\ c.n = Cardinality(OfAttempt(k, a))
      /\ Cardinality(RejectedOf(k, a, 0)) = c.n
  BY <1>2, <1>4, <1>5, <1>6, <1>7
<1> QED BY <1>4, <1>8, FS_Subset

\* A task that is over stays over, and rounds are counted up.
LEMMA RowKeeps ==
  ASSUME Inv, [Next]_vars
  PROVE  /\ task.round <= task'.round
         /\ task.status \in Over => task'.status \in Over
<1> USE DEF Over
<1>0. task \in Rows /\ task.round \in Nat /\ task.round <= task.round
  BY DEF Inv, TypeOK, Rows
<1>1. CASE UNCHANGED vars
  BY <1>0, <1>1 DEF vars
<1>2. CASE Tick \/ ExpireOnce \/ FinalizeWindow
  BY <1>0, <1>2 DEF Tick, ExpireOnce, FinalizeWindow, Due, Rows
<1>3. ASSUME NEW d \in Dispatchers, Dispatch(d)
      PROVE  /\ task.round <= task'.round
             /\ task.status \in Over => task'.status \in Over
  <2>1. CASE ClaimDue(d)
    <3>1. \E n, p : task' = [task EXCEPT !.next = n, !.pend = p]
      BY <2>1 DEF ClaimDue
    <3> QED BY <1>0, <2>1, <3>1 DEF ClaimDue, Due, Rows
  <2>2. CASE ClearPending(d) \/ RejectManual(d)
    BY <1>0, <2>2 DEF ClearPending, RejectManual, Rows
  <2>3. CASE PauseForOccurrence(d) \/ PauseInterrupted(d)
    BY <1>0, <2>3 DEF PauseForOccurrence, PauseInterrupted, RoundCurrent, Paused, Rows
  <2>4. CASE \/ ListPending(d) \/ PostAccepted(d) \/ CountBudget(d) \/ CountSequence(d)
             \/ PostControl(d)
    BY <1>0, <2>4 DEF ListPending, PostAccepted, CountBudget, CountSequence, PostControl
  <2> QED BY <1>3, <2>1, <2>2, <2>3, <2>4 DEF Dispatch
<1>4. ASSUME NEW d \in Dispatchers, Recover(d) \/ Failures(d)
      PROVE  task' = task
  BY <1>4 DEF Recover, Failures, ListInterrupted, PostRefused, PostDenied, GiveUp
<1>5. ASSUME NEW c \in late, LatePost(c) \/ LateControl(c)
      PROVE  task' = task
  BY <1>5 DEF LatePost, LateControl
<1>6. ASSUME NEW k \in Keys, Runner(k)
      PROVE  /\ task.round <= task'.round
             /\ task.status \in Over => task'.status \in Over
  <2>1. CASE Interrupt(k) \/ Resumed(k) \/ RejectControl(k)
    BY <1>0, <2>1 DEF Interrupt, Resumed, RejectControl
  <2>2. ASSUME NEW blocked \in BOOLEAN, RunEnds(k, blocked)
        PROVE  /\ task.round <= task'.round
               /\ task.status \in Over => task'.status \in Over
    <3>1. task.status = "completed" => RunStatus(run[k].trigger, blocked) = "completed"
      BY DEF RunStatus
    <3>2. CASE task.status = "deleted"
      BY <1>0, <2>2, <3>2 DEF RunEnds
    <3>3. CASE task.status # "deleted"
      <4>1. PICK st, rs, p :
              /\ task' = [task EXCEPT !.status = st, !.reason = rs, !.pend = p]
              /\ st = RunStatus(run[k].trigger, blocked)
              /\ rs \in {"auto", "none", task.reason}
              /\ p = IF RunEmpties(blocked) THEN NoPending ELSE task.pend
        BY <2>2, <3>3 DEF RunEnds
      <4> QED BY <1>0, <3>1, <3>3, <4>1 DEF Rows
    <3> QED BY <3>2, <3>3
  <2> QED BY <1>6, <2>1, <2>2 DEF Runner
<1>7. CASE User
  <2>1. CASE Pause
    BY <1>0, <2>1 DEF Pause, Paused, Rows
  <2>2. CASE Resume
    <3>1. task.round + 1 \in Nat /\ task.round <= task.round + 1
      BY <1>0
    <3>2. CASE OnceExpired
      BY <1>0, <2>2, <3>2 DEF Resume, Rows
    <3>3. CASE ~OnceExpired
      <4>1. \E st \in {"completed", "active"} :
              task' = [task EXCEPT !.status = st, !.reason = "none", !.next = ResumeDue,
                                   !.round = @ + 1]
        BY <2>2, <3>3 DEF Resume
      <4> QED BY <1>0, <2>2, <3>1, <4>1 DEF Resume, Rows
    <3> QED BY <3>2, <3>3
  <2>3. ASSUME NEW s \in Schedules, Reschedule(s)
        PROVE  task'.round = task.round /\ task.status \notin Over
    BY <1>0, <2>3 DEF Reschedule, Rows
  <2>4. CASE EditDefinition
    BY <1>0, <2>4 DEF EditDefinition, Rows
  <2>5. CASE SubmitManual
    <3>1. \E p : task' = [task EXCEPT !.pend = p]
      BY <2>5 DEF SubmitManual
    <3> QED BY <1>0, <3>1 DEF Rows
  <2>6. CASE Delete
    BY <1>0, <2>6 DEF Delete, Rows
  <2>7. CASE \E k \in Keys : Cancel(k)
    BY <1>0, <2>7 DEF Cancel
  <2> QED BY <1>0, <1>7, <2>1, <2>2, <2>3, <2>4, <2>5, <2>6, <2>7 DEF User
<1> QED BY <1>0, <1>1, <1>2, <1>3, <1>4, <1>5, <1>6, <1>7 DEF Next

LEMMA Unsettled ==
  ASSUME NEW C
  PROVE  Settles(C, C)
<1> DEFINE s == [x \in C |-> x]
<1>1. C = {s[x] : x \in C}
  OBVIOUS
<1> QED BY <1>1 DEF Settles

\* What a step does to the controls: it closes some, or a request adds one.
ControlsSettled ==
  \A k \in Keys : /\ Settles(run[k].controls, run'[k].controls)
                  /\ run'[k].status = "none" => run[k].status = "none"

ControlAdded(c) ==
  /\ c \in Calls /\ c.pc = "resuming" /\ c.key \in Keys
  /\ AcceptControl(c) /\ UNCHANGED task

LEMMA ControlsMove ==
  ASSUME Inv, NoneBare, [Next]_vars
  PROVE  \/ ControlsSettled
         \/ \E d \in Dispatchers : ControlAdded(call[d])
         \/ \E c \in late : ControlAdded(c)
<1>0. run \in [Keys -> Runs]
  BY DEF Inv, TypeOK
<1>1. ASSUME UNCHANGED run PROVE ControlsSettled
  BY <1>1, Unsettled DEF ControlsSettled
<1>2. ASSUME NEW slot, slot.key \in Keys, Accept(slot) PROVE ControlsSettled
  <2>1. /\ run[slot.key].controls = {}
        /\ run'[slot.key].controls = {} /\ run'[slot.key].status = "open"
        /\ \A k \in Keys : k # slot.key => run'[k] = run[k]
    BY <1>0, <1>2 DEF Accept, NoneBare, NoRun
  <2> QED BY <2>1, Unsettled DEF ControlsSettled
<1>3. CASE UNCHANGED vars \/ Tick \/ ExpireOnce \/ FinalizeWindow
  BY <1>1, <1>3 DEF vars, Tick, ExpireOnce, FinalizeWindow
<1>4. ASSUME NEW d \in Dispatchers, Dispatch(d)
      PROVE  ControlsSettled \/ ControlAdded(call[d])
  <2>0. call[d] \in Calls /\ ReadFromRow(call[d])
    BY DEF Inv, TypeOK, Copies
  <2>1. CASE \/ ClaimDue(d) \/ ListPending(d) \/ ClearPending(d) \/ PauseForOccurrence(d)
             \/ RejectManual(d) \/ CountBudget(d) \/ CountSequence(d) \/ PauseInterrupted(d)
    BY <1>1, <2>1 DEF ClaimDue, ListPending, ClearPending, PauseForOccurrence, RejectManual,
       CountBudget, CountSequence, PauseInterrupted
  <2>2. CASE PostAccepted(d)
    <3>1. call[d].slot.key \in Keys
      BY <2>0, <2>2 DEF PostAccepted, Answering, Calls, Slots, ReadFromRow
    <3> QED BY <1>1, <1>2, <2>2, <3>1 DEF PostAccepted
  <2>3. CASE PostControl(d)
    <3>1. call[d].key \in Keys
      BY <2>0, <2>3 DEF PostControl, Calls, ReadFromRow
    <3> QED BY <1>1, <2>0, <2>3, <3>1 DEF PostControl, ControlAdded
  <2> QED BY <1>4, <2>1, <2>2, <2>3 DEF Dispatch
<1>5. ASSUME NEW d \in Dispatchers, Recover(d) \/ Failures(d)
      PROVE  ControlsSettled
  BY <1>1, <1>5 DEF Recover, Failures, ListInterrupted, PostRefused, PostDenied, GiveUp
<1>6. ASSUME NEW c \in late, LatePost(c) \/ LateControl(c)
      PROVE  ControlsSettled \/ ControlAdded(c)
  <2>0. c \in Calls /\ ReadFromRow(c)
    BY DEF Inv, TypeOK, Copies
  <2>1. CASE LatePost(c)
    <3>1. c.slot.key \in Keys
      BY <2>0, <2>1 DEF LatePost, Answering, Calls, Slots, ReadFromRow
    <3> QED BY <1>1, <1>2, <2>1, <3>1 DEF LatePost
  <2>2. CASE LateControl(c)
    <3>1. c.key \in Keys
      BY <2>0, <2>2 DEF LateControl, Calls, ReadFromRow
    <3> QED BY <1>1, <2>0, <2>2, <3>1 DEF LateControl, ControlAdded
  <2> QED BY <1>6, <2>1, <2>2
<1>7. ASSUME NEW k \in Keys, NEW x \in Accepted(k), NEW st,
             run'[k].controls = (run[k].controls \ {x}) \union {[x EXCEPT !.status = st]}
      PROVE  Settles(run[k].controls, run'[k].controls)
  <2> DEFINE C == run[k].controls
             y == [x EXCEPT !.status = st]
             s == [z \in C |-> IF z = x THEN y ELSE z]
  <2>1. x \in C /\ x \in ControlRows /\ x.status = "accepted"
    BY <1>0 DEF Accepted, Runs
  <2>2. y.attempt = x.attempt /\ y.n = x.n /\ y.round = x.round
    BY <2>1 DEF ControlRows
  <2> HIDE DEF y
  <2>3. run'[k].controls = {s[z] : z \in C}
    BY <1>7, <2>1 DEF y
  <2>4. \A z \in C : /\ s[z].attempt = z.attempt /\ s[z].n = z.n /\ s[z].round = z.round
                     /\ z.status = "rejected" => s[z] = z
    BY <2>1, <2>2
  <2> HIDE DEF s
  <2> QED BY <2>3, <2>4 DEF Settles
<1>8. ASSUME NEW k \in Keys, Runner(k)
      PROVE  ControlsSettled
  <2>1. CASE Interrupt(k) \/ \E blocked \in BOOLEAN : RunEnds(k, blocked)
    <3>1. \E st \in {"interrupted", "ended"} : run' = [run EXCEPT ![k].status = st]
      BY <2>1 DEF Interrupt, RunEnds
    <3>2. /\ run'[k].controls = run[k].controls /\ run'[k].status # "none"
          /\ \A j \in Keys : j # k => run'[j] = run[j]
      BY <1>0, <3>1 DEF Runs
    <3> QED BY <3>2, Unsettled DEF ControlsSettled
  <2>2. CASE Resumed(k) \/ RejectControl(k)
    <3>1. PICK x \in Accepted(k), st \in {"consumed", "rejected"} :
            /\ run'[k].controls = (run[k].controls \ {x}) \union {[x EXCEPT !.status = st]}
            /\ run'[k].status \in {"open", run[k].status}
            /\ \A j \in Keys : j # k => run'[j] = run[j]
      <4>1. CASE Resumed(k)
        BY <1>0, <4>1 DEF Resumed, Runs
      <4>2. CASE RejectControl(k)
        BY <1>0, <4>2 DEF RejectControl, Runs
      <4> QED BY <2>2, <4>1, <4>2
    <3>2. Settles(run[k].controls, run'[k].controls)
      BY <1>7, <3>1
    <3> QED BY <3>1, <3>2, Unsettled DEF ControlsSettled
  <2> QED BY <1>8, <2>1, <2>2 DEF Runner
<1>9. CASE User
  <2>1. ASSUME NEW k \in Keys, Cancel(k)
        PROVE  ControlsSettled
    <3> DEFINE C == run[k].controls
               s == [x \in C |->
                       IF x.status = "accepted" THEN [x EXCEPT !.status = "rejected"] ELSE x]
    <3>1. C \subseteq ControlRows
      BY <1>0 DEF Runs
    <3>2. /\ run'[k].controls = {s[x] : x \in C} /\ run'[k].status = run[k].status
          /\ \A j \in Keys : j # k => run'[j] = run[j]
      BY <1>0, <2>1 DEF Cancel, Runs
    <3>3. \A x \in C : /\ s[x].attempt = x.attempt /\ s[x].n = x.n /\ s[x].round = x.round
                       /\ x.status = "rejected" => s[x] = x
      BY <3>1 DEF ControlRows
    <3> HIDE DEF s
    <3>4. Settles(run[k].controls, run'[k].controls)
      BY <3>2, <3>3 DEF Settles
    <3> QED BY <3>2, <3>4, Unsettled DEF ControlsSettled
  <2>2. CASE \/ Pause \/ Resume \/ EditDefinition \/ SubmitManual \/ Delete
             \/ \E s \in Schedules : Reschedule(s)
    BY <1>1, <2>2 DEF Pause, Resume, EditDefinition, SubmitManual, Delete, Reschedule
  <2> QED BY <1>9, <2>1, <2>2 DEF User
<1> QED BY <1>3, <1>4, <1>5, <1>6, <1>8, <1>9 DEF Next

\* What a step does to what a dispatcher listed or counted.
CallKept(d) == call'[d] = call[d] \/ call'[d].pc \notin {"listed", "counted", "resuming"}

Listed(d) ==
  /\ call'[d].pc = "listed" /\ call'[d].round = task.round
  /\ call'[d].completed => task.status = "completed"
  /\ UNCHANGED <<task, run>>

LEMMA CallsMove ==
  ASSUME Inv, [Next]_vars, NEW d \in Dispatchers
  PROVE  CallKept(d) \/ Listed(d) \/ CountBudget(d) \/ CountSequence(d)
<1> USE DEF CallKept
<1>0. call \in [Dispatchers -> Calls] /\ Idle.pc = "idle"
  BY DEF Inv, TypeOK, Idle
<1>1. CASE UNCHANGED call
  BY <1>1
<1>2. CASE UNCHANGED vars \/ Tick \/ ExpireOnce \/ FinalizeWindow \/ User
  BY <1>1, <1>2 DEF vars, Tick, ExpireOnce, FinalizeWindow, User, Pause, Resume, EditDefinition,
     SubmitManual, Delete, Reschedule, Cancel
<1>3. ASSUME NEW k \in Keys, Runner(k) PROVE UNCHANGED call
  BY <1>3 DEF Runner, Interrupt, Resumed, RejectControl, RunEnds
<1>4. ASSUME NEW c \in late, LatePost(c) \/ LateControl(c) PROVE UNCHANGED call
  BY <1>4 DEF LatePost, LateControl
<1>5. ASSUME NEW e \in Dispatchers, NEW c, call' = [call EXCEPT ![e] = c],
             c.pc \notin {"listed", "counted", "resuming"}
      PROVE  CallKept(d)
  BY <1>0, <1>5
<1>6. ASSUME NEW e \in Dispatchers, NEW pc \in Answering \union {"denied"}, Answer(e, pc)
      PROVE  CallKept(d)
  BY <1>0, <1>6 DEF Answer, Answering, Calls
<1>7. ASSUME NEW e \in Dispatchers, \E k \in Keys : ListInterrupted(e, k)
      PROVE  CallKept(d) \/ Listed(d)
  <2> DEFINE over == task.status = "completed"
  <2>1. PICK k \in Keys :
          call' = [call EXCEPT ![e] =
            [Idle EXCEPT !.pc = "listed", !.key = k, !.attempt = run[k].attempt,
                         !.round = task.round, !.completed = over]]
    BY <1>7 DEF ListInterrupted
  <2>2. UNCHANGED <<task, run>>
    BY <1>7 DEF ListInterrupted
  <2> HIDE DEF over
  <2>3. \/ call'[d] = call[d]
        \/ call'[d].pc = "listed" /\ call'[d].round = task.round /\ call'[d].completed = over
    BY <1>0, <2>1 DEF Idle
  <2>4. over => task.status = "completed"
    BY DEF over
  <2> QED BY <2>2, <2>3, <2>4 DEF Listed
<1>8. ASSUME NEW e \in Dispatchers, CountBudget(e) \/ CountSequence(e)
      PROVE  CallKept(d) \/ CountBudget(d) \/ CountSequence(d)
  <2>1. CASE e = d
    BY <1>8, <2>1
  <2>2. CASE e # d
    BY <1>0, <1>8, <2>2 DEF CountBudget, CountSequence, Answer
  <2> QED BY <2>1, <2>2
<1>9. ASSUME NEW e \in Dispatchers, Dispatch(e) \/ Failures(e), ~CountBudget(e), ~CountSequence(e)
      PROVE  CallKept(d)
  <2>1. CASE ClaimDue(e)
    <3>1. \E slot : call' = [call EXCEPT ![e] = [Idle EXCEPT !.pc = "posting", !.slot = slot]]
      BY <2>1 DEF ClaimDue
    <3> QED BY <1>0, <3>1 DEF Idle
  <2>2. CASE ListPending(e)
    BY <1>0, <2>2 DEF ListPending, Idle
  <2>3. CASE ClearPending(e) \/ PostControl(e) \/ PauseInterrupted(e) \/ GiveUp(e)
    BY <1>0, <1>5, <2>3 DEF ClearPending, PostControl, PauseInterrupted, GiveUp
  <2>4. CASE PauseForOccurrence(e) \/ RejectManual(e)
    BY <1>0, <1>5, <1>6, <2>4 DEF PauseForOccurrence, RejectManual, Answering
  <2>5. CASE PostAccepted(e) \/ PostRefused(e) \/ PostDenied(e)
    BY <1>6, <2>5 DEF PostAccepted, PostRefused, PostDenied, Answering
  <2> QED BY <1>9, <2>1, <2>2, <2>3, <2>4, <2>5 DEF Dispatch, Failures
<1> QED BY <1>1, <1>2, <1>3, <1>4, <1>7, <1>8, <1>9 DEF Next, Recover

\* A request on its way is one that was, or what a dispatcher held.
LEMMA LateMoves ==
  ASSUME [Next]_vars
  PROVE  late' \subseteq late \union {call[d] : d \in Dispatchers}
<1>1. CASE UNCHANGED late
  BY <1>1
<1>2. ASSUME NEW d \in Dispatchers, Dispatch(d) \/ Recover(d) \/ Failures(d)
      PROVE  late' \subseteq late \union {call[d]}
  BY <1>2 DEF Dispatch, Recover, Failures, ClaimDue, ListPending, PostAccepted, ClearPending,
     PauseForOccurrence, RejectManual, CountBudget, CountSequence, PostControl, PauseInterrupted,
     ListInterrupted, PostRefused, PostDenied, GiveUp
<1>3. ASSUME NEW c \in late, LatePost(c) \/ LateControl(c)
      PROVE  late' \subseteq late
  BY <1>3 DEF LatePost, LateControl
<1>4. ASSUME NEW k \in Keys, Runner(k) PROVE UNCHANGED late
  BY <1>4 DEF Runner, Interrupt, Resumed, RejectControl, RunEnds
<1>5. CASE UNCHANGED vars \/ Tick \/ ExpireOnce \/ FinalizeWindow \/ User
  BY <1>1, <1>5 DEF vars, Tick, ExpireOnce, FinalizeWindow, User, Pause, Resume, EditDefinition,
     SubmitManual, Delete, Reschedule, Cancel
<1> QED BY <1>1, <1>2, <1>3, <1>4, <1>5 DEF Next

\* A step that only adds rejections and keeps rounds and the end of the task: what was listed
\* and counted before still holds.
LEMMA CountKept ==
  ASSUME Inv, Inv', NEW c \in Calls, ReadFromRow(c), CountHolds(c), ListHolds(c),
         \A k \in Keys, a, r \in Nat : RejectedOf(k, a, r) \subseteq RejectedOf(k, a, r)',
         task.round <= task'.round, task.status \in Over => task'.status \in Over
  PROVE  CountHolds(c)' /\ ListHolds(c)'
<1>1. ListHolds(c)'
  BY DEF ListHolds, Calls, Inv, TypeOK, Rows
<1>2. ASSUME c.pc = "resuming"
      PROVE  CountHolds(c)'
  <2> DEFINE A == RejectedOf(c.key, c.attempt, 0)
             B == RejectedOf(c.key, c.attempt, 0)'
  <2>1. c.key \in Keys /\ c.n \in Nat /\ c.attempt \in Nat /\ 0 \in Nat
    BY <1>2 DEF Calls, ReadFromRow
  <2>2. Rejected(c, 0) = Cardinality(A) /\ Rejected(c, 0)' = Cardinality(B)
    BY DEF Rejected, RejectedOf
  <2>3. A \in SUBSET B
    BY <2>1
  <2>4. IsFiniteSet(B)
    <3>1. IsFiniteSet(run'[c.key].controls)
      BY <2>1 DEF Inv, RunsNamed
    <3>2. B \in SUBSET run'[c.key].controls
      BY DEF RejectedOf
    <3> QED BY <3>1, <3>2, FS_Subset
  <2>5. /\ Cardinality(A) \in Nat /\ Cardinality(B) \in Nat /\ Cardinality(A) <= Cardinality(B)
    BY <2>3, <2>4, FS_Subset, FS_CardinalityType
  <2>6. c.n <= Cardinality(A)
    BY <1>2, <2>2 DEF CountHolds
  <2> HIDE DEF A, B
  <2>7. c.n <= Cardinality(B)
    BY <2>1, <2>5, <2>6
  <2> QED BY <2>2, <2>7 DEF CountHolds
<1>3. c.pc # "resuming" => CountHolds(c)'
  BY DEF CountHolds
<1> QED BY <1>1, <1>2, <1>3

\* A control that is added is the next one, and within the bound of its round.
LEMMA AddedKeeps ==
  ASSUME RecoveryInv, NEW c, ControlAdded(c), CountHolds(c),
         c \in late \/ \E d \in Dispatchers : c = call[d]
  PROVE  /\ NumbersUsed' /\ NoneBare' /\ OneUnrejected' /\ RoundsPast' /\ RoundsBounded'
         /\ \A k \in Keys, a, r \in Nat : RejectedOf(k, a, r) \subseteq RejectedOf(k, a, r)'
<1> DEFINE k == c.key
           x == [attempt |-> c.attempt, n |-> c.n, round |-> task.round, status |-> "accepted"]
<1>0. /\ Inv /\ NumbersUsed /\ NoneBare /\ OneUnrejected /\ RoundsPast /\ RoundsBounded
      /\ c \in Calls /\ c.pc = "resuming" /\ k \in Keys /\ UNCHANGED task
      /\ run \in [Keys -> Runs] /\ Parked(k) /\ task.round \in Nat /\ c.attempt \in Nat
  BY DEF RecoveryInv, ControlAdded, AcceptControl, Inv, TypeOK, Rows, Calls
<1>1. /\ c.n = Cardinality(OfAttempt(k, c.attempt))
      /\ OfAttempt(k, c.attempt) = RejectedOf(k, c.attempt, 0)
  BY <1>0, AcceptedIsNext DEF ControlAdded
<1>2. /\ run'[k].controls = run[k].controls \union {x} /\ run'[k].status = run[k].status
      /\ \A j \in Keys : j # k => run'[j] = run[j]
  BY <1>0 DEF ControlAdded, AcceptControl, Runs
<1>3. x.attempt = c.attempt /\ x.n = c.n /\ x.round = task.round
  OBVIOUS
<1> HIDE DEF x
<1>4. NumbersUsed'
  <2> SUFFICES ASSUME NEW q \in Keys, NEW a \in Nat, NEW j \in Nat,
                      j < Cardinality(OfAttempt(q, a)')
               PROVE  \E y \in OfAttempt(q, a)' : y.n = j
    BY DEF NumbersUsed
  <2>1. CASE q = k /\ a = c.attempt
    <3>1. OfAttempt(k, a)' = OfAttempt(k, a) \union {x}
      BY <1>2, <1>3, <2>1 DEF OfAttempt
    <3>2. IsFiniteSet(OfAttempt(k, a)) /\ Cardinality(OfAttempt(k, a)) \in Nat
      BY <1>0, ControlsFinite
    <3>3. Cardinality(OfAttempt(k, a)') <= Cardinality(OfAttempt(k, a)) + 1
      BY <3>1, <3>2, FS_AddElement
    <3>4. j < Cardinality(OfAttempt(k, a)) + 1
      <4>1. j < Cardinality(OfAttempt(k, a)')
        BY <2>1
      <4>2. Cardinality(OfAttempt(k, a)') \in Nat
        BY <3>1, <3>2, FS_AddElement, FS_CardinalityType
      <4> QED BY <3>2, <3>3, <4>1, <4>2
    <3>5. CASE j < Cardinality(OfAttempt(k, a))
      BY <1>0, <2>1, <3>1, <3>5 DEF NumbersUsed
    <3>6. CASE j = Cardinality(OfAttempt(k, a))
      BY <1>1, <1>3, <2>1, <3>1, <3>6
    <3> QED BY <3>2, <3>4, <3>5, <3>6
  <2>2. CASE ~(q = k /\ a = c.attempt)
    <3>1. OfAttempt(q, a)' = OfAttempt(q, a)
      BY <1>2, <1>3, <2>2 DEF OfAttempt
    <3> QED BY <1>0, <3>1 DEF NumbersUsed
  <2> QED BY <2>1, <2>2
<1>5. NoneBare'
  BY <1>0, <1>2 DEF NoneBare, Parked
<1>6. RoundsBounded'
  <2> SUFFICES ASSUME task.status \notin Over, NEW q \in Keys, NEW a \in Nat, NEW r \in Nat
               PROVE  Cardinality(OfRound(q, a, r)') <= Limit
    BY <1>0 DEF RoundsBounded
  <2>1. CASE q = k /\ a = c.attempt /\ r = task.round
    <3> DEFINE N == Cardinality(OfRound(k, a, r))
               G == Cardinality(Counting(k, a))
    <3>1. OfRound(k, a, r)' = OfRound(k, a, r) \union {x}
      BY <1>2, <1>3, <2>1 DEF OfRound
    <3>2. IsFiniteSet(OfRound(k, a, r)) /\ N \in Nat /\ G \in Nat
      BY <1>0, ControlsFinite, CountingFinite
    <3>3. Fresh(k, a)
      BY <1>0, <2>1 DEF Fresh, IsFresh, ControlAdded, AcceptControl
    <3>4. N >= MaxAttempts => N + G < Limit
      BY <1>0, <2>1, <3>3 DEF RecoveryInv, OverrunsHold, OverrunHolds
    <3>5. Cardinality(OfRound(k, a, r)') = N + 1 \/ Cardinality(OfRound(k, a, r)') = N
      BY <3>1, <3>2, FS_AddElement
    <3> HIDE DEF N, G
    <3> QED BY <2>1, <3>2, <3>4, <3>5, LimitType
  <2>2. CASE ~(q = k /\ a = c.attempt /\ r = task.round)
    <3>1. OfRound(q, a, r)' = OfRound(q, a, r)
      BY <1>2, <1>3, <2>2 DEF OfRound
    <3> QED BY <1>0, <3>1 DEF RoundsBounded
  <2> QED BY <2>1, <2>2
<1>7. \A q \in Keys, a, r \in Nat : RejectedOf(q, a, r) \subseteq RejectedOf(q, a, r)'
  BY <1>2 DEF RejectedOf
<1>8. OneUnrejected'
  <2>1. \A y \in run[k].controls : y.attempt = c.attempt => y.status = "rejected"
    BY <1>1 DEF OfAttempt, RejectedOf
  <2>2. \A y, z \in run'[k].controls :
          y.attempt = z.attempt /\ y.status # "rejected" /\ z.status # "rejected" => y = z
    BY <1>0, <1>2, <1>3, <2>1 DEF OneUnrejected
  <2> QED BY <1>0, <1>2, <2>2 DEF OneUnrejected
<1>9. RoundsPast'
  <2>1. x.round <= task.round
    BY <1>0, <1>3
  <2> QED BY <1>0, <1>2, <2>1 DEF RoundsPast
<1> QED BY <1>4, <1>5, <1>6, <1>7, <1>8, <1>9

LEMMA SettledKeeps ==
  ASSUME RecoveryInv, [Next]_vars, ControlsSettled
  PROVE  /\ NumbersUsed' /\ NoneBare' /\ OneUnrejected' /\ RoundsPast' /\ RoundsBounded'
         /\ \A k \in Keys, a, r \in Nat : RejectedOf(k, a, r) \subseteq RejectedOf(k, a, r)'
<1>0. /\ Inv /\ Inv' /\ NumbersUsed /\ NoneBare /\ OneUnrejected /\ RoundsPast /\ RoundsBounded
  BY InvNext DEF RecoveryInv
<1>1. ASSUME NEW k \in Keys, NEW a, NEW r
      PROVE  /\ Cardinality(OfAttempt(k, a)') <= Cardinality(OfAttempt(k, a))
             /\ \A x \in OfAttempt(k, a) : \E y \in OfAttempt(k, a)' : y.n = x.n
             /\ Cardinality(OfRound(k, a, r)') <= Cardinality(OfRound(k, a, r))
             /\ RejectedOf(k, a, r) \subseteq RejectedOf(k, a, r)'
  BY <1>0, SettlesKeeps DEF ControlsSettled
<1>2. ASSUME NEW k \in Keys, NEW a, NEW r
      PROVE  /\ Cardinality(OfAttempt(k, a)) \in Nat /\ Cardinality(OfAttempt(k, a)') \in Nat
             /\ Cardinality(OfRound(k, a, r)) \in Nat /\ Cardinality(OfRound(k, a, r)') \in Nat
  <2>1. IsFiniteSet(run'[k].controls)
    BY <1>0 DEF Inv, RunsNamed
  <2>2. /\ OfAttempt(k, a)' \in SUBSET run'[k].controls
        /\ OfRound(k, a, r)' \in SUBSET run'[k].controls
    BY DEF OfAttempt, OfRound
  <2>3. Cardinality(OfAttempt(k, a)') \in Nat /\ Cardinality(OfRound(k, a, r)') \in Nat
    BY <2>1, <2>2, FS_Subset, FS_CardinalityType
  <2> QED BY <1>0, <2>3, ControlsFinite
<1>3. NumbersUsed'
  <2> SUFFICES ASSUME NEW k \in Keys, NEW a \in Nat, NEW j \in Nat,
                      j < Cardinality(OfAttempt(k, a)')
               PROVE  \E y \in OfAttempt(k, a)' : y.n = j
    BY DEF NumbersUsed
  <2>1. j < Cardinality(OfAttempt(k, a))
    BY <1>1, <1>2
  <2>2. PICK x \in OfAttempt(k, a) : x.n = j
    BY <1>0, <2>1 DEF NumbersUsed
  <2> QED BY <1>1, <2>2
<1>4. NoneBare'
  <2> SUFFICES ASSUME NEW k \in Keys, run'[k].status = "none" PROVE run'[k].controls = {}
    BY DEF NoneBare
  <2>1. run[k].controls = {} /\ Settles({}, run'[k].controls)
    BY <1>0 DEF ControlsSettled, NoneBare
  <2> QED BY <2>1 DEF Settles
<1>5. RoundsBounded'
  <2> SUFFICES ASSUME task'.status \notin Over, NEW k \in Keys, NEW a \in Nat, NEW r \in Nat
               PROVE  Cardinality(OfRound(k, a, r)') <= Limit
    BY DEF RoundsBounded
  <2>1. Cardinality(OfRound(k, a, r)) <= Limit
    BY <1>0, RowKeeps DEF RoundsBounded
  <2> QED BY <1>1, <1>2, <2>1, LimitType
<1>6. ASSUME NEW k \in Keys
      PROVE  /\ \A x \in run'[k].controls : x.round <= task'.round
             /\ \A x, y \in run'[k].controls :
                  x.attempt = y.attempt /\ x.status # "rejected" /\ y.status # "rejected" => x = y
  <2> DEFINE C == run[k].controls
  <2>1. PICK s : /\ run'[k].controls = {s[x] : x \in C}
                 /\ \A x \in C : /\ s[x].attempt = x.attempt /\ s[x].n = x.n
                                 /\ s[x].round = x.round
                                 /\ x.status = "rejected" => s[x] = x
    BY DEF ControlsSettled, Settles
  <2>2. ASSUME NEW x \in C PROVE s[x].round <= task'.round
    <3>1. x.round \in Nat /\ task.round \in Nat /\ task'.round \in Nat
      BY <1>0 DEF Inv, TypeOK, Runs, ControlRows, Rows
    <3>2. x.round <= task.round /\ task.round <= task'.round
      BY <1>0, RowKeeps DEF RoundsPast
    <3>3. s[x].round = x.round
      BY <2>1
    <3> QED BY <3>1, <3>2, <3>3
  <2>3. \A x, y \in C :
          s[x].attempt = s[y].attempt /\ s[x].status # "rejected" /\ s[y].status # "rejected"
            => s[x] = s[y]
    BY <1>0, <2>1 DEF OneUnrejected
  <2> QED BY <2>1, <2>2, <2>3
<1>7. OneUnrejected' /\ RoundsPast'
  BY <1>6 DEF OneUnrejected, RoundsPast
<1> QED BY <1>1, <1>3, <1>4, <1>5, <1>7

\* No request is fresh for an attempt that has a control which is not rejected.
LEMMA NoneFresh ==
  ASSUME Inv', NumbersUsed', CountsHold', NEW k \in Keys, NEW a \in Nat,
         NEW x \in run'[k].controls, x.attempt = a, x.status # "rejected"
  PROVE  ~Fresh(k, a)'
<1> DEFINE A == OfAttempt(k, a)'
           R == RejectedOf(k, a, 0)'
<1>1. call' \in [Dispatchers -> Calls] /\ late' \subseteq Calls
  BY DEF Inv, TypeOK
<1>2. /\ IsFiniteSet(A) /\ R \in SUBSET A /\ x \in A /\ x \notin R
      /\ \A j \in Nat : j < Cardinality(A) => \E y \in A : y.n = j
  <2>1. A \in SUBSET run'[k].controls /\ IsFiniteSet(run'[k].controls)
    BY DEF OfAttempt, Inv, RunsNamed
  <2>2. R \in SUBSET A /\ x \in A /\ x \notin R
    BY DEF OfAttempt, RejectedOf
  <2> QED BY <2>1, <2>2, FS_Subset DEF NumbersUsed
<1>3. \A n \in Nat : n <= Cardinality(R) => \E y \in A : y.n = n
  <2> HIDE DEF A, R
  <2> QED BY <1>2, NumberTaken
<1>4. ASSUME NEW d \in Dispatchers PROVE ~IsFresh(call[d], k, a)'
  <2> SUFFICES ASSUME call'[d].pc = "resuming", call'[d].key = k, call'[d].attempt = a
               PROVE  Numbered(call[d])' # {}
    BY DEF IsFresh
  <2>1. call'[d].n \in Nat
    BY <1>1 DEF Calls
  <2>2. call'[d].n <= Cardinality(R)
    BY DEF CountsHold, CountHolds, Rejected, RejectedOf
  <2>3. PICK y \in A : y.n = call'[d].n
    BY <1>3, <2>1, <2>2
  <2> QED BY <2>3 DEF Numbered, OfAttempt
<1>5. ASSUME NEW c \in late' PROVE ~IsFresh(c, k, a)'
  <2> SUFFICES ASSUME c.pc = "resuming", c.key = k, c.attempt = a
               PROVE  Numbered(c)' # {}
    BY DEF IsFresh
  <2>1. c.n \in Nat
    BY <1>1 DEF Calls
  <2>2. c.n <= Cardinality(R)
    BY DEF CountsHold, CountHolds, Rejected, RejectedOf
  <2>3. PICK y \in A : y.n = c.n
    BY <1>3, <2>1, <2>2
  <2> QED BY <2>3 DEF Numbered, OfAttempt
<1> QED BY <1>4, <1>5 DEF Fresh

\* No control more, no dispatcher more between its counts, no request fresh that was not.
LEMMA OverrunKept ==
  ASSUME Inv, NEW k \in Keys, NEW a \in Nat, OverrunHolds(k, a),
         Cardinality(OfRound(k, a, task.round))' <= Cardinality(OfRound(k, a, task.round)),
         Cardinality(OfRound(k, a, task.round))' \in Nat,
         Counting(k, a)' \subseteq Counting(k, a), Fresh(k, a)' => Fresh(k, a)
  PROVE  OverrunHolds(k, a)'
<1> DEFINE N == Cardinality(OfRound(k, a, task.round))
           G == Cardinality(Counting(k, a))
           M == Cardinality(OfRound(k, a, task.round))'
           H == Cardinality(Counting(k, a))'
<1>1. N \in Nat /\ M \in Nat /\ M <= N
  BY ControlsFinite
<1>2. G \in Nat /\ H \in Nat /\ H <= G
  <2>1. IsFiniteSet(Counting(k, a)) /\ Counting(k, a)' \in SUBSET Counting(k, a)
    BY CountingFinite
  <2> QED BY <2>1, FS_Subset, FS_CardinalityType
<1>3. N >= MaxAttempts => N + G <= Limit /\ (Fresh(k, a) => N + G < Limit)
  BY DEF OverrunHolds
<1>4. M >= MaxAttempts => M + H <= Limit /\ (Fresh(k, a)' => M + H < Limit)
  <2> HIDE DEF N, G, M, H
  <2>1. M >= MaxAttempts => N >= MaxAttempts
    BY <1>1, LimitType
  <2>2. N + G <= Limit => M + H <= Limit
    BY <1>1, <1>2, LimitType
  <2>3. N + G < Limit => M + H < Limit
    BY <1>1, <1>2, LimitType
  <2> QED BY <1>3, <2>1, <2>2, <2>3
<1>5. Limit' = Limit
  BY DEF Limit
<1> QED BY <1>4, <1>5 DEF OverrunHolds

\* A dispatcher that finds budget left in a round whose controls use it up sees an open one: no
\* number is fresh then, and the budget is not exceeded.
LEMMA OverrunBudget ==
  ASSUME RecoveryInv, Inv', NumbersUsed', CountsHold', task.status \notin Over,
         NEW d \in Dispatchers, CountBudget(d), NEW k \in Keys, NEW a \in Nat
  PROVE  OverrunHolds(k, a)'
<1> DEFINE c == call[d]
           N == Cardinality(OfRound(k, a, task.round))
<1>0. /\ Inv /\ OverrunHolds(k, a) /\ OneUnrejected /\ ListHolds(c)
      /\ UNCHANGED <<task, run, late>> /\ c.pc = "listed"
      /\ call \in [Dispatchers -> Calls] /\ c \in Calls /\ ReadFromRow(c)
      /\ task.round \in Nat /\ c.round \in Nat
  BY DEF RecoveryInv, OverrunsHold, CountsHold, CountBudget, Inv, TypeOK, Copies, Rows, Calls
<1>1. /\ OfRound(k, a, task.round)' = OfRound(k, a, task.round)
      /\ IsFiniteSet(OfRound(k, a, task.round)) /\ N \in Nat
  <2>1. OfRound(k, a, task.round)' = OfRound(k, a, task.round)
    BY <1>0 DEF OfRound
  <2> QED BY <1>0, <2>1, ControlsFinite
<1>2. /\ \A e \in Dispatchers : e # d => call'[e] = call[e]
      /\ call'[d].key = c.key /\ call'[d].attempt = c.attempt
      /\ call'[d].pc = IF Exhausted(c) THEN "exhausted" ELSE "counted"
  BY <1>0 DEF CountBudget, Answer, Calls
<1>3. CASE ~Exhausted(c) /\ c.key = k /\ c.attempt = a
  <2> DEFINE R == RejectedOf(k, a, c.round)
             S == OfRound(k, a, task.round)
  <2>1. IsFiniteSet(R) /\ Cardinality(R) \in Nat /\ Cardinality(R) < MaxAttempts
    <3>1. IsFiniteSet(R) /\ Cardinality(R) \in Nat
      BY <1>0, ControlsFinite
    <3>2. ~c.completed /\ ~(Cardinality(R) >= MaxAttempts)
      BY <1>0, <1>3 DEF ListHolds, Exhausted, Rejected, RejectedOf
    <3> QED BY <3>1, <3>2, LimitType
  <2>2. \A y \in S : y.status = "rejected" => y \in R
    BY <1>0 DEF OfRound, RejectedOf, ListHolds
  <2>3. CASE S \subseteq R
    <3>1. N <= Cardinality(R)
      BY <2>1, <2>3, FS_Subset
    <3>2. ~(N >= MaxAttempts)
      <4> HIDE DEF N, R
      <4> QED BY <1>1, <2>1, <3>1, LimitType
    <3> QED BY <1>0, <1>1, <3>2 DEF OverrunHolds
  <2>4. CASE ~(S \subseteq R)
    <3>1. PICK x \in S : x \notin R
      BY <2>4
    <3>2. x \in run[k].controls /\ x.attempt = a /\ x.status # "rejected"
      BY <2>2, <3>1 DEF OfRound
    <3>3. S \in SUBSET (R \union {x})
      BY <1>0, <2>2, <3>1, <3>2 DEF OneUnrejected, OfRound
    <3>4. N <= Cardinality(R) + 1
      <4>1. IsFiniteSet(R \union {x}) /\ Cardinality(R \union {x}) = Cardinality(R) + 1
        BY <2>1, <3>1, FS_AddElement
      <4> QED BY <3>3, <4>1, FS_Subset
    <3>5. ~Fresh(k, a)'
      BY <1>0, <3>2, NoneFresh
    <3>6. Cardinality(Counting(k, a))' \in Nat
          /\ Cardinality(Counting(k, a))' <= Cardinality(Dispatchers)
      BY CountingFinite
    <3>7. N + Cardinality(Counting(k, a))' <= Limit
      <4> DEFINE r == Cardinality(R)
                 g == Cardinality(Counting(k, a))'
                 D == Cardinality(Dispatchers)
      <4> HIDE DEF N, r, g, D
      <4>1. r \in Nat /\ r < MaxAttempts /\ N <= r + 1 /\ g \in Nat /\ g <= D /\ D \in Nat
            /\ MaxAttempts \in Nat /\ N \in Nat
        BY <1>1, <2>1, <3>4, <3>6, LimitType DEF r, g, D
      <4>2. N + g <= MaxAttempts + D
        BY <4>1
      <4> QED BY <4>2 DEF Limit, g, D
    <3> QED BY <1>0, <1>1, <3>5, <3>7 DEF OverrunHolds, Limit
  <2> QED BY <2>3, <2>4
<1>4. CASE ~(~Exhausted(c) /\ c.key = k /\ c.attempt = a)
  <2>1. Counting(k, a)' \subseteq Counting(k, a)
    BY <1>2, <1>4 DEF Counting
  <2>2. Fresh(k, a)' => Fresh(k, a)
    BY <1>0, <1>2 DEF Fresh, IsFresh, Numbered
  <2>3. Cardinality(OfRound(k, a, task.round))' = N
    BY <1>1
  <2> QED BY <1>0, <1>1, <2>1, <2>2, <2>3, OverrunKept
<1> QED BY <1>3, <1>4

\* A dispatcher that takes its number is one less between its counts.
LEMMA OverrunSequence ==
  ASSUME RecoveryInv, task.status \notin Over,
         NEW d \in Dispatchers, CountSequence(d), NEW k \in Keys, NEW a \in Nat
  PROVE  OverrunHolds(k, a)'
<1> DEFINE c == call[d]
           N == Cardinality(OfRound(k, a, task.round))
           G == Cardinality(Counting(k, a))
<1>0. /\ Inv /\ OverrunHolds(k, a)
      /\ UNCHANGED <<task, run, late>> /\ c.pc = "counted"
      /\ call \in [Dispatchers -> Calls] /\ c \in Calls
  BY DEF RecoveryInv, OverrunsHold, CountSequence, Inv, TypeOK
<1>1. /\ Cardinality(OfRound(k, a, task.round))' = N /\ N \in Nat /\ G \in Nat
      /\ IsFiniteSet(Counting(k, a))
  <2>1. OfRound(k, a, task.round)' = OfRound(k, a, task.round)
    BY <1>0 DEF OfRound
  <2> QED BY <1>0, <2>1, ControlsFinite, CountingFinite
<1>2. /\ \A e \in Dispatchers : e # d => call'[e] = call[e]
      /\ call'[d].key = c.key /\ call'[d].attempt = c.attempt /\ call'[d].pc = "resuming"
  BY <1>0 DEF CountSequence, Calls
<1>3. Counting(k, a)' = Counting(k, a) \ {d}
  BY <1>2 DEF Counting
<1>4. CASE c.key = k /\ c.attempt = a
  <2>1. d \in Counting(k, a)
    BY <1>0, <1>4 DEF Counting
  <2>2. Cardinality(Counting(k, a))' = G - 1
    BY <1>1, <1>3, <2>1, FS_RemoveElement
  <2>3. N >= MaxAttempts => N + (G - 1) < Limit
    <3>1. N >= MaxAttempts => N + G <= Limit
      BY <1>0 DEF OverrunHolds
    <3> HIDE DEF N, G
    <3> QED BY <1>1, <3>1, LimitType
  <2>4. N >= MaxAttempts => N + (G - 1) <= Limit
    <3> HIDE DEF N, G
    <3> QED BY <1>1, <2>3, LimitType
  <2> QED BY <1>1, <2>2, <2>3, <2>4 DEF OverrunHolds, Limit
<1>5. CASE ~(c.key = k /\ c.attempt = a)
  <2>1. Fresh(k, a)' => Fresh(k, a)
    BY <1>0, <1>2, <1>5 DEF Fresh, IsFresh, Numbered
  <2> QED BY <1>0, <1>1, <1>3, <2>1, OverrunKept
<1> QED BY <1>4, <1>5

\* Any other step: a control that is added took a fresh number, and leaves none.
LEMMA OverrunElse ==
  ASSUME RecoveryInv, [Next]_vars, Inv', NumbersUsed', CountsHold', task.status \notin Over,
         \A d \in Dispatchers : CallKept(d) \/ Listed(d), NEW k \in Keys, NEW a \in Nat
  PROVE  OverrunHolds(k, a)'
<1> DEFINE N == Cardinality(OfRound(k, a, task.round))
           G == Cardinality(Counting(k, a))
<1>0. /\ Inv /\ NoneBare /\ RoundsPast /\ OverrunHolds(k, a)
      /\ call \in [Dispatchers -> Calls] /\ late \subseteq Calls
      /\ task.round \in Nat /\ task'.round \in Nat /\ task.round <= task'.round
  BY RowKeeps DEF RecoveryInv, OverrunsHold, Inv, TypeOK, Rows
<1>1. Counting(k, a)' \subseteq Counting(k, a)
  BY DEF Counting, CallKept, Listed
<1>2. ASSUME \A c : c.key = k /\ Numbered(c)' = {} => Numbered(c) = {}
      PROVE  Fresh(k, a)' => Fresh(k, a)
  <2>1. ASSUME NEW d \in Dispatchers, IsFresh(call[d], k, a)' PROVE Fresh(k, a)
    <3>1. call'[d] = call[d]
      BY <2>1 DEF IsFresh, CallKept, Listed
    <3>2. Numbered(call[d])' = {} => Numbered(call[d]) = {}
      BY <1>2, <2>1, <3>1 DEF IsFresh, Numbered
    <3> QED BY <2>1, <3>1, <3>2 DEF IsFresh, Fresh
  <2>2. ASSUME NEW c \in late', IsFresh(c, k, a)' PROVE Fresh(k, a)
    <3>1. IsFresh(c, k, a)
      BY <1>2, <2>2 DEF IsFresh
    <3> QED BY <3>1, LateMoves DEF Fresh
  <2> QED BY <2>1, <2>2 DEF Fresh
<1>3. Cardinality(OfRound(k, a, task.round))' \in Nat
  <2>1. IsFiniteSet(run'[k].controls)
    BY DEF Inv, RunsNamed
  <2>2. OfRound(k, a, task.round)' \in SUBSET run'[k].controls
    BY DEF OfRound
  <2> QED BY <2>1, <2>2, FS_Subset, FS_CardinalityType
<1>4. CASE ControlsSettled
  <2>1. PICK s : /\ run'[k].controls = {s[x] : x \in run[k].controls}
                 /\ \A x \in run[k].controls :
                      /\ s[x].attempt = x.attempt /\ s[x].n = x.n /\ s[x].round = x.round
                      /\ x.status = "rejected" => s[x] = x
    BY <1>4 DEF ControlsSettled, Settles
  <2>2. \A c : c.key = k /\ Numbered(c)' = {} => Numbered(c) = {}
    BY <2>1 DEF Numbered
  <2>3. Fresh(k, a)' => Fresh(k, a)
    BY <1>2, <2>2
  <2>4. CASE task'.round = task.round
    <3>1. Cardinality(OfRound(k, a, task.round)') <= N
      <4> DEFINE r == task.round
      <4>1. Cardinality({x \in run'[k].controls : x.attempt = a /\ x.round = r}) <= N
        <5>1. Settles(run[k].controls, run'[k].controls)
          BY <1>4 DEF ControlsSettled
        <5>2. {x \in run'[k].controls : x.attempt = a /\ x.round = r}
                = {s[x] : x \in OfRound(k, a, r)}
          BY <2>1 DEF OfRound
        <5>3. IsFiniteSet(OfRound(k, a, r))
          BY <1>0, ControlsFinite
        <5> QED BY <5>2, <5>3, ImageSmaller
      <4> QED BY <2>4, <4>1 DEF OfRound
    <3> QED BY <1>0, <1>1, <1>3, <2>3, <3>1, OverrunKept
  <2>5. CASE task'.round # task.round
    <3>1. \A x \in run'[k].controls : x.round # task'.round
      <4> SUFFICES ASSUME NEW x \in run[k].controls PROVE s[x].round # task'.round
        BY <2>1
      <4>1. x.round \in Nat /\ x.round <= task.round
        BY <1>0 DEF RoundsPast, Inv, TypeOK, Runs, ControlRows
      <4>2. x.round # task'.round
        BY <1>0, <2>5, <4>1
      <4> QED BY <2>1, <4>2
    <3>2. OfRound(k, a, task.round)' = {}
      BY <3>1 DEF OfRound
    <3>3. ~(0 >= MaxAttempts)
      BY LimitType
    <3> QED BY <3>2, <3>3, FS_EmptySet DEF OverrunHolds
  <2> QED BY <2>4, <2>5
<1>5. ASSUME NEW c, ControlAdded(c), c \in late \/ \E d \in Dispatchers : c = call[d]
      PROVE  OverrunHolds(k, a)'
  <2> DEFINE x == [attempt |-> c.attempt, n |-> c.n, round |-> task.round, status |-> "accepted"]
  <2>1. /\ run'[c.key].controls = run[c.key].controls \union {x} /\ c.key \in Keys
        /\ \A j \in Keys : j # c.key => run'[j] = run[j]
        /\ UNCHANGED task /\ c.pc = "resuming" /\ Numbered(c) = {}
    BY <1>0, <1>5 DEF ControlAdded, AcceptControl, Inv, TypeOK, Runs
  <2>2. x.attempt = c.attempt /\ x.round = task.round /\ x.status # "rejected"
    OBVIOUS
  <2> HIDE DEF x
  <2>3. CASE c.key = k /\ c.attempt = a
    <3>1. Fresh(k, a)
      BY <1>5, <2>1, <2>3 DEF Fresh, IsFresh
    <3>2. ~Fresh(k, a)'
      BY <2>1, <2>2, <2>3, NoneFresh
    <3>3. OfRound(k, a, task.round)' = OfRound(k, a, task.round) \union {x}
      BY <2>1, <2>2, <2>3 DEF OfRound
    <3>4. IsFiniteSet(OfRound(k, a, task.round)) /\ N \in Nat
      BY <1>0, ControlsFinite
    <3>5. Cardinality(OfRound(k, a, task.round))' \in {N, N + 1}
      BY <3>3, <3>4, FS_AddElement
    <3>6. /\ G \in Nat /\ Cardinality(Counting(k, a))' \in Nat
          /\ Cardinality(Counting(k, a))' <= G
          /\ Cardinality(Counting(k, a))' <= Cardinality(Dispatchers)
      <4>1. Counting(k, a)' \in SUBSET Counting(k, a) /\ IsFiniteSet(Counting(k, a))
        BY <1>1, CountingFinite
      <4> QED BY <4>1, CountingFinite, FS_Subset
    <3>7. N >= MaxAttempts => N + G < Limit
      BY <1>0, <3>1 DEF OverrunHolds
    <3>8. Cardinality(OfRound(k, a, task.round))' + Cardinality(Counting(k, a))' <= Limit
      <4> DEFINE M == Cardinality(OfRound(k, a, task.round))'
                 H == Cardinality(Counting(k, a))'
                 D == Cardinality(Dispatchers)
      <4> HIDE DEF N, G, M, H, D
      <4>1. /\ N \in Nat /\ M \in {N, N + 1} /\ G \in Nat /\ H \in Nat /\ H <= G /\ H <= D
            /\ D \in Nat /\ MaxAttempts \in Nat /\ Limit = MaxAttempts + D
            /\ N >= MaxAttempts => N + G < Limit
        BY <3>4, <3>5, <3>6, <3>7, LimitType DEF M, H, D, Limit
      <4>2. M + H <= Limit
        BY <4>1
      <4> QED BY <4>2 DEF M, H
    <3> QED BY <3>2, <3>8 DEF OverrunHolds, Limit
  <2>4. CASE ~(c.key = k /\ c.attempt = a)
    <3>1. OfRound(k, a, task.round)' = OfRound(k, a, task.round)
      BY <2>1, <2>2, <2>4 DEF OfRound
    <3>2. \A e : e.key = k /\ Numbered(e)' = {} => Numbered(e) = {}
      BY <2>1 DEF Numbered
    <3>3. Fresh(k, a)' => Fresh(k, a)
      BY <1>2, <3>2
    <3>4. N \in Nat /\ N <= N
      BY <1>0, ControlsFinite
    <3> QED BY <1>0, <1>1, <1>3, <3>1, <3>3, <3>4, OverrunKept
  <2> QED BY <2>3, <2>4
<1> QED BY <1>0, <1>4, <1>5, ControlsMove

LEMMA RecoveryInit == Init => RecoveryInv
<1> SUFFICES ASSUME Init PROVE RecoveryInv
  OBVIOUS
<1>1. Inv
  BY InvInit
<1>2. \A k \in Keys : run[k].controls = {}
  BY DEF Init, NoRun
<1>3. \A k \in Keys : \A a, r : OfAttempt(k, a) = {} /\ OfRound(k, a, r) = {}
  BY <1>2 DEF OfAttempt, OfRound
<1>4. Cardinality({}) = 0
  BY FS_EmptySet
<1>5. NumbersUsed
  <2>1. \A j \in Nat : ~(j < 0)
    OBVIOUS
  <2> QED BY <1>3, <1>4, <2>1 DEF NumbersUsed
<1>6. RoundsBounded /\ OverrunsHold
  <2>1. 0 <= Limit /\ ~(0 >= MaxAttempts)
    BY LimitType
  <2> QED BY <1>3, <1>4, <2>1 DEF RoundsBounded, OverrunsHold, OverrunHolds
<1>7. CountsHold
  BY DEF Init, CountsHold, CountHolds, ListHolds, Idle
<1> QED BY <1>1, <1>2, <1>5, <1>6, <1>7 DEF RecoveryInv, NoneBare, OneUnrejected, RoundsPast

LEMMA RecoveryNext ==
  ASSUME RecoveryInv, [Next]_vars
  PROVE  RecoveryInv'
<1>0. /\ Inv /\ Inv' /\ NoneBare /\ CountsHold
      /\ call \in [Dispatchers -> Calls] /\ late \subseteq Calls
  BY InvNext DEF RecoveryInv, Inv, TypeOK
<1>1. /\ NumbersUsed' /\ NoneBare' /\ OneUnrejected' /\ RoundsPast' /\ RoundsBounded'
      /\ \A k \in Keys, a, r \in Nat : RejectedOf(k, a, r) \subseteq RejectedOf(k, a, r)'
  BY <1>0, ControlsMove, SettledKeeps, AddedKeeps DEF CountsHold
<1>2. ASSUME NEW c \in Calls, ReadFromRow(c), CountHolds(c), ListHolds(c)
      PROVE  CountHolds(c)' /\ ListHolds(c)'
  BY <1>0, <1>1, <1>2, RowKeeps, CountKept
<1>3. ASSUME NEW d \in Dispatchers
      PROVE  CountHolds(call[d])' /\ ListHolds(call[d])'
  <2>0. /\ call[d] \in Calls /\ ReadFromRow(call[d]) /\ CountHolds(call[d]) /\ ListHolds(call[d])
        /\ call'[d] \in Calls /\ task \in Rows
    BY <1>0 DEF CountsHold, Inv, TypeOK, Copies
  <2>1. CASE CallKept(d)
    <3>1. CASE call'[d] = call[d]
      BY <1>2, <2>0, <3>1 DEF CountHolds, ListHolds, Rejected
    <3>2. CASE call'[d].pc \notin {"listed", "counted", "resuming"}
      BY <3>2 DEF CountHolds, ListHolds
    <3> QED BY <2>1, <3>1, <3>2 DEF CallKept
  <2>2. CASE Listed(d)
    BY <2>0, <2>2 DEF Listed, CountHolds, ListHolds, Over, Rows
  <2>3. CASE CountBudget(d)
    <3>1. /\ call'[d].pc \in {"counted", "exhausted"} /\ call'[d].round = call[d].round
          /\ call'[d].completed <=> call[d].completed
          /\ UNCHANGED task
      BY <1>0, <2>0, <2>3 DEF CountBudget, Answer, Calls
    <3> QED BY <2>0, <2>3, <3>1 DEF CountBudget, CountHolds, ListHolds
  <2>4. CASE CountSequence(d)
    <3> DEFINE c == call[d]
    <3>1. /\ call'[d].n = Rejected(c, 0) /\ call'[d].key = c.key
          /\ call'[d].attempt = c.attempt /\ call'[d].round = c.round
          /\ call'[d].completed <=> c.completed
          /\ UNCHANGED <<task, run>> /\ c.pc = "counted"
      BY <1>0, <2>0, <2>4 DEF CountSequence, ControlNumber, Calls
    <3>2. ListHolds(call[d])'
      BY <2>0, <3>1 DEF ListHolds
    <3>3. Rejected(call[d], 0)' = Rejected(c, 0)
      BY <3>1 DEF Rejected
    <3>4. Rejected(c, 0) \in Nat
      <4>1. c.key \in Keys
        BY <2>0, <3>1 DEF ReadFromRow, Calls
      <4> QED BY <1>0, <4>1, ControlsFinite, ZenonT(60) DEF Rejected, RejectedOf
    <3>5. CountHolds(call[d])'
      BY <3>1, <3>3, <3>4 DEF CountHolds
    <3> QED BY <3>2, <3>5
  <2> QED BY <1>0, <2>1, <2>2, <2>3, <2>4, CallsMove
<1>4. ASSUME NEW c \in late'
      PROVE  CountHolds(c)' /\ ListHolds(c)'
  <2>1. c \in late \/ \E d \in Dispatchers : c = call[d]
    BY <1>4, LateMoves
  <2>2. c \in Calls /\ ReadFromRow(c) /\ CountHolds(c) /\ ListHolds(c)
    BY <1>0, <2>1 DEF CountsHold, Inv, TypeOK, Copies
  <2> QED BY <1>2, <2>2
<1>5. CountsHold'
  BY <1>3, <1>4 DEF CountsHold
<1>6. OverrunsHold'
  <2> SUFFICES ASSUME task'.status \notin Over, NEW k \in Keys, NEW a \in Nat
               PROVE  OverrunHolds(k, a)'
    BY DEF OverrunsHold
  <2>1. task.status \notin Over
    BY <1>0, RowKeeps
  <2>2. \/ \E d \in Dispatchers : CountBudget(d) \/ CountSequence(d)
        \/ \A d \in Dispatchers : CallKept(d) \/ Listed(d)
    BY <1>0, CallsMove
  <2> QED BY <1>0, <1>1, <1>5, <2>1, <2>2, OverrunBudget, OverrunSequence, OverrunElse
<1> QED BY <1>0, <1>1, <1>5, <1>6 DEF RecoveryInv

\* However many dispatchers list, count and submit with answers lost and requests late, an
\* interrupted run is resumed at most recovery_max_attempts times in one round, and once more by
\* each dispatcher that had counted the budget when the last rejection came.
THEOREM RecoveryCorrect == Spec => []RecoveryBounded
<1>1. RecoveryInv => RecoveryBounded
  <2> SUFFICES ASSUME RecoveryInv, task.status \notin {"completed", "deleted"},
                      NEW k \in Keys, NEW x \in run[k].controls
               PROVE  Cardinality({y \in run[k].controls :
                                     y.attempt = x.attempt /\ y.round = x.round}) <= Limit
    BY DEF RecoveryBounded, Limit
  <2>1. x.attempt \in Nat /\ x.round \in Nat
    BY DEF RecoveryInv, Inv, TypeOK, Runs, ControlRows
  <2> QED BY <2>1 DEF RecoveryInv, RoundsBounded, OfRound, Over
<1> QED BY <1>1, RecoveryInit, RecoveryNext, PTL DEF Spec

-----------------------------------------------------------------------------
(* The safety part of the refinement *)

Same == Occurrence' = Occurrence

LedgerStep == Ledger!LedgerNext \/ Same

LEMMA KeysNotNever == Never \notin Keys
BY KeysType

\* Steps that leave the runs and the occupant of the slot alone change no occurrence.
LEMMA SlotKept ==
  ASSUME UNCHANGED run, task'.pend = task.pend
  PROVE  Same
BY DEF Same, Occurrence

\* A slot that is emptied withdraws what was claimed, if it was not run.
LEMMA SlotEmptied ==
  ASSUME Inv, UNCHANGED run, task'.pend = NoPending
  PROVE  LedgerStep
<1>1. \A k \in Keys : task'.pend.key # k
  BY KeysNotNever DEF NoPending
<1>2. Occurrence' = Ledger!Withdrawn
  BY <1>1 DEF Occurrence, Ledger!Withdrawn
<1>3. CASE Ledger!Unclaimed(Occurrence)
  BY <1>2, <1>3 DEF Ledger!Unclaimed, Ledger!Withdrawn, Occurrence, LedgerStep, Same
<1>4. CASE ~Ledger!Unclaimed(Occurrence)
  BY <1>2, <1>4 DEF LedgerStep, Ledger!LedgerNext, Ledger!Drop
<1> QED BY <1>3, <1>4

\* A slot that is filled claims its occurrence, unless it was run before.
LEMMA SlotFilled ==
  ASSUME Inv, UNCHANGED run, task.pend = NoPending, task'.pend.key \in Keys
  PROVE  LedgerStep
<1> DEFINE k == task'.pend.key
<1>1. \A j \in Keys : task.pend.key # j
  BY KeysNotNever DEF NoPending
<1>2. Ledger!Unclaimed(Occurrence)
  BY <1>1 DEF Ledger!Unclaimed, Occurrence
<1>3. CASE run[k].status \in {"open", "interrupted", "ended"}
  BY <1>1, <1>3 DEF Occurrence, LedgerStep, Same
<1>4. CASE run[k].status \notin {"open", "interrupted", "ended"}
  <2>1. Occurrence[k] = "idle" /\ Occurrence' = [Occurrence EXCEPT ![k] = "claimed"]
    BY <1>1, <1>4 DEF Occurrence
  <2> QED BY <1>2, <2>1 DEF LedgerStep, Ledger!LedgerNext, Ledger!Claim
<1> QED BY <1>3, <1>4

\* The insert of a run under the guard starts what was claimed.
LEMMA AcceptRuns ==
  ASSUME Inv, NEW slot, slot.key \in Keys, Accept(slot), UNCHANGED task
  PROVE  LedgerStep
<1> DEFINE k == slot.key
<1>1. Occurrence[k] = "claimed"
  BY DEF Accept, Acceptable, Occurrence
<1>2. run'[k].status = "open" /\ \A j \in Keys : j # k => run'[j] = run[j]
  BY DEF Accept, NoRun, Inv, TypeOK
<1>3. Occurrence' = [Occurrence EXCEPT ![k] = "running"]
  BY <1>2 DEF Occurrence
<1> QED BY <1>1, <1>3 DEF LedgerStep, Ledger!LedgerNext, Ledger!Run

\* Interruptions, resumptions and controls of a run do not end it.
LEMMA StillRuns ==
  ASSUME Inv, UNCHANGED task, \A k \in Keys : run'[k] = run[k] \/ (Open(k) /\ Open(k)')
  PROVE  Same
BY DEF Same, Occurrence, Open

LEMMA EndLedger ==
  ASSUME Inv, NEW k \in Keys, NEW blocked \in BOOLEAN, RunEnds(k, blocked)
  PROVE  LedgerStep
<1>1. Occurrence[k] = "running" /\ task \in Rows
  BY DEF RunEnds, Occurrence, Inv, TypeOK
<1>2. run'[k].status = "ended" /\ \A j \in Keys : j # k => run'[j] = run[j]
  BY DEF RunEnds, Inv, TypeOK
<1>3. task'.pend = task.pend \/ task'.pend = NoPending
  <2>1. task.status # "deleted"
    BY DEF Inv, RunEnds, NoOrphan, Busy, Open
  <2>2. PICK st, rs, p :
          /\ task' = [task EXCEPT !.status = st, !.reason = rs, !.pend = p]
          /\ st = RunStatus(run[k].trigger, blocked)
          /\ rs \in {"auto", "none", task.reason}
          /\ p = IF RunEmpties(blocked) THEN NoPending ELSE task.pend
    BY <2>1 DEF RunEnds
  <2> QED BY <1>1, <2>2 DEF Rows
<1>4. CASE task'.pend = task.pend
  <2>1. Occurrence' = [Occurrence EXCEPT ![k] = "over"]
    BY <1>2, <1>4 DEF Occurrence
  <2> QED BY <1>1, <2>1 DEF LedgerStep, Ledger!LedgerNext, Ledger!End
<1>5. CASE task'.pend = NoPending
  <2>1. \A j \in Keys : task'.pend.key # j
    BY <1>5, KeysNotNever DEF NoPending
  <2>2. Occurrence' = [Ledger!Withdrawn EXCEPT ![k] = "over"]
    BY <1>2, <2>1 DEF Occurrence, Ledger!Withdrawn
  <2> QED BY <1>1, <2>2 DEF LedgerStep, Ledger!LedgerNext, Ledger!End
<1> QED BY <1>3, <1>4, <1>5

LEMMA DispatchLedger ==
  ASSUME Inv, NEW d \in Dispatchers, Dispatch(d)
  PROVE  LedgerStep
<1>0. /\ task \in Rows /\ call[d] \in Calls /\ ReadFromRow(call[d])
      /\ run \in [Keys -> Runs]
  BY DEF Inv, TypeOK, Copies
<1>1. CASE ClaimDue(d)
  <2> DEFINE slot == [key |-> OccurrenceKey, trigger |-> "scheduled", def |-> task.def,
                      due |-> task.next]
  <2>1. task.pend = NoPending /\ slot.key \in Keys
    <3>1. now \in 0..MaxTime /\ task.next \in Nat
      BY <1>0 DEF Inv, TypeOK, Rows
    <3> QED BY <1>1, <3>1, KeysType, ConstantsAssumption DEF ClaimDue, Due, Never, OccurrenceKey
  <2>2. task' = [task EXCEPT !.next = NextDue, !.pend = slot]
    BY <1>1 DEF ClaimDue
  <2> HIDE DEF slot
  <2>3. task'.pend = slot
    BY <1>0, <2>2 DEF Rows
  <2> QED BY <1>1, <2>1, <2>3, SlotFilled DEF ClaimDue
<1>2. CASE ListPending(d) \/ CountBudget(d) \/ CountSequence(d)
  BY <1>2, SlotKept DEF ListPending, CountBudget, CountSequence, LedgerStep
<1>3. CASE PostAccepted(d)
  <2>1. call[d].slot.key \in Keys
    BY <1>0, <1>3 DEF PostAccepted, ReadFromRow, Answering, Calls, Slots
  <2>2. CASE Accept(call[d].slot)
    BY <1>3, <2>1, <2>2, AcceptRuns DEF PostAccepted
  <2>3. CASE UNCHANGED run
    BY <1>3, <2>3, SlotKept DEF PostAccepted, LedgerStep
  <2> QED BY <1>3, <2>2, <2>3 DEF PostAccepted
<1>4. CASE ClearPending(d) \/ PauseForOccurrence(d) \/ RejectManual(d) \/ PauseInterrupted(d)
  <2>1. \/ task' = task
        \/ task' = [task EXCEPT !.pend = NoPending]
        \/ \E rs : task' = Paused(rs)
    BY <1>4 DEF ClearPending, PauseForOccurrence, RejectManual, PauseInterrupted
  <2>2. task'.pend = task.pend \/ task'.pend = NoPending
    BY <1>0, <2>1 DEF Rows, Paused
  <2>3. UNCHANGED run
    BY <1>4 DEF ClearPending, PauseForOccurrence, RejectManual, PauseInterrupted
  <2> QED BY <2>2, <2>3, SlotKept, SlotEmptied DEF LedgerStep
<1>5. CASE PostControl(d)
  <2>1. call[d].key \in Keys
    BY <1>0, <1>5 DEF PostControl, ReadFromRow, Calls
  <2>2. \A k \in Keys : run'[k] = run[k] \/ (Open(k) /\ Open(k)')
    BY <1>0, <1>5, <2>1 DEF PostControl, AcceptControl, Parked, Open, Runs
  <2> QED BY <1>5, <2>2, StillRuns DEF PostControl, LedgerStep
<1> QED BY <1>1, <1>2, <1>3, <1>4, <1>5 DEF Dispatch

LEMMA UserLedger ==
  ASSUME Inv, User
  PROVE  LedgerStep
<1>0. task \in Rows /\ run \in [Keys -> Runs] /\ manuals \in 0..MaxManual
  BY DEF Inv, TypeOK
<1>1. CASE Pause \/ Delete
  BY <1>0, <1>1, SlotEmptied DEF Pause, Delete, Paused, Rows
<1>2. CASE Resume \/ \E s \in Schedules : Reschedule(s)
  BY <1>0, <1>2, SlotKept DEF Resume, Reschedule, Rows, LedgerStep
<1>3. CASE EditDefinition
  BY <1>0, <1>3, SlotKept DEF EditDefinition, Rows, LedgerStep
<1>4. CASE SubmitManual
  <2> DEFINE slot == [key |-> MaxTime + manuals + 1, trigger |-> "manual", def |-> task.def,
                      due |-> Never]
  <2>1. slot.key \in Keys
    BY <1>0, <1>4, KeysType, ConstantsAssumption DEF SubmitManual
  <2>2. task' = [task EXCEPT !.pend = slot]
    BY <1>4 DEF SubmitManual
  <2> HIDE DEF slot
  <2>3. task'.pend.key \in Keys
    BY <1>0, <2>1, <2>2 DEF Rows
  <2> QED BY <1>4, <2>3, SlotFilled DEF SubmitManual
<1>5. ASSUME NEW k \in Keys, Cancel(k) PROVE LedgerStep
  <2>1. \A j \in Keys : run'[j] = run[j] \/ (Open(j) /\ Open(j)')
    BY <1>0, <1>5 DEF Cancel, Open, Runs
  <2> QED BY <1>5, <2>1, StillRuns DEF Cancel, LedgerStep
<1> QED BY <1>1, <1>2, <1>3, <1>4, <1>5 DEF User

LEMMA OtherLedger ==
  ASSUME Inv,
         \/ UNCHANGED vars \/ Tick \/ ExpireOnce \/ FinalizeWindow
         \/ \E d \in Dispatchers : Recover(d) \/ Failures(d)
         \/ \E c \in late : LatePost(c) \/ LateControl(c)
         \/ \E k \in Keys : Runner(k)
  PROVE  LedgerStep
<1>0. task \in Rows /\ run \in [Keys -> Runs]
  BY DEF Inv, TypeOK
<1>1. CASE UNCHANGED vars \/ Tick \/ ExpireOnce \/ FinalizeWindow
  BY <1>0, <1>1, SlotKept DEF vars, Tick, ExpireOnce, FinalizeWindow, Rows, LedgerStep
<1>2. CASE \E d \in Dispatchers : Recover(d) \/ Failures(d)
  BY <1>2, SlotKept DEF Recover, Failures, ListInterrupted, PostRefused, PostDenied, GiveUp,
                        LedgerStep
<1>3. ASSUME NEW c \in late, LatePost(c)
      PROVE  LedgerStep
  <2>1. c.slot.key \in Keys
    BY <1>3 DEF LatePost, Inv, TypeOK, Copies, ReadFromRow, Answering, Calls, Slots
  <2> QED BY <1>3, <2>1, AcceptRuns, SlotKept DEF LatePost, LedgerStep
<1>4. ASSUME NEW c \in late, LateControl(c)
      PROVE  LedgerStep
  <2>1. c.key \in Keys
    BY <1>4 DEF LateControl, Inv, TypeOK, Copies, ReadFromRow, Calls
  <2>2. \A k \in Keys : run'[k] = run[k] \/ (Open(k) /\ Open(k)')
    BY <1>0, <1>4, <2>1 DEF LateControl, AcceptControl, Parked, Open, Runs
  <2> QED BY <1>4, <2>2, StillRuns DEF LateControl, LedgerStep
<1>5. ASSUME NEW k \in Keys, Interrupt(k) \/ Resumed(k) \/ RejectControl(k)
      PROVE  LedgerStep
  <2>1. \A j \in Keys : run'[j] = run[j] \/ (Open(j) /\ Open(j)')
    BY <1>0, <1>5 DEF Interrupt, Resumed, RejectControl, Parked, Open, Runs
  <2>2. UNCHANGED task
    BY <1>5 DEF Interrupt, Resumed, RejectControl
  <2> QED BY <2>1, <2>2, StillRuns DEF LedgerStep
<1>6. ASSUME NEW k \in Keys, NEW blocked \in BOOLEAN, RunEnds(k, blocked)
      PROVE  LedgerStep
  BY <1>6, EndLedger
<1> QED BY <1>1, <1>2, <1>3, <1>4, <1>5, <1>6 DEF Runner

\* The row and the runners keep the ledger of occurrences: one is claimed at a time, only a
\* claimed one is run, and what was run is never run again.
THEOREM KeepsLedger == Spec => Ledger!LedgerInit /\ [][Ledger!LedgerNext]_Occurrence
<1>1. Init => Ledger!LedgerInit
  <2>1. ASSUME Init
        PROVE  \A k \in Keys : run[k].status = "none" /\ task.pend.key # k
    BY <2>1, KeysNotNever DEF Init, Created, NoRun, NoPending
  <2> QED BY <2>1 DEF Ledger!LedgerInit, Occurrence
<1>2. ASSUME Inv, [Next]_vars
      PROVE  [Ledger!LedgerNext]_Occurrence
  <2>1. LedgerStep
    BY <1>2, DispatchLedger, UserLedger, OtherLedger DEF Next
  <2> QED BY <2>1 DEF LedgerStep, Same
<1> QED BY <1>1, <1>2, InvInit, InvNext, PTL DEF Spec
-----------------------------------------------------------------------------
(* Occurrences that disappear *)

\* A dispatcher was told that its occurrence is accepted only when there is a runner for it.
AcceptedKnown ==
  \A d \in Dispatchers : call[d].pc = "accepted" => run[call[d].slot.key].status # "none"

\* A run ends blocked, and its task is paused for it.
BlockedEnd ==
  /\ task'.status = "paused" /\ task'.reason = "auto"
  /\ \E j \in Keys : Open(j) /\ run'[j].status = "ended"

\* How a step treats the slot and what is remembered of its occurrence.
SlotMove ==
  \/ task'.pend = task.pend /\ fate' = fate
  \/ /\ task.pend = NoPending /\ task'.pend.key \in Keys
     /\ fate' = [fate EXCEPT ![task'.pend.key] = "claimed"]
     /\ \/ task'.pend.key = MaxTime + manuals + 1 /\ manuals' = manuals + 1
        \/ /\ task'.pend.key = task.next /\ task.next # Never /\ task.next <= now
           /\ task'.next = NextDue
  \/ task'.pend = NoPending /\ \E f \in {"told", "dropped"} : fate' = Emptied(f)
  \/ task'.pend = NoPending /\ fate' = fate /\ BlockedEnd
  \/ /\ task'.pend = NoPending /\ fate' = fate
     /\ \E d \in Dispatchers : /\ call[d].pc \in {"accepted", "clearing"}
                               /\ Holds(call[d].slot) /\ call'[d] = Idle

\* How a dispatcher comes to settle an answer.
AnswerMove(d) ==
  \/ call'[d] = call[d]
  \/ /\ call'[d].pc \notin {"accepted", "rejecting", "clearing"}
     /\ call'[d].slot \in {call[d].slot, NoPending, task.pend, task'.pend}
  \/ /\ call'[d].pc = "accepted" /\ call'[d].slot = call[d].slot
     /\ run'[call[d].slot.key].status # "none"
  \/ /\ call'[d].pc = "rejecting" /\ call'[d].slot = call[d].slot /\ task' = task
     /\ ~(task.status = "active" /\ Holds(call[d].slot))
  \/ /\ call[d].pc = "rejecting" /\ ~Rejectable(call[d].slot)
     /\ call'[d].pc = "clearing" /\ call'[d].slot = call[d].slot /\ task' = task

\* A runner that was accepted stays on record.
LEMMA RunsStay ==
  ASSUME Inv, [Next]_vars, NEW k \in Keys, run[k].status # "none"
  PROVE  run'[k].status # "none"
<1>1. Occurrence[k] \in {"running", "over"}
  BY DEF Occurrence, Inv, TypeOK, Runs
<1>2. Occurrence'[k] \in {"running", "over"}
  <2>1. LedgerStep
    BY DispatchLedger, UserLedger, OtherLedger DEF Next
  <2>2. CASE Same
    BY <1>1, <2>2 DEF Same
  <2>3. CASE Ledger!LedgerNext
    <3> DEFINE o == Occurrence[k]
               after == Occurrence'[k]
    <3>1. Occurrence = [j \in Keys |-> Occurrence[j]]
      BY DEF Occurrence
    <3>2. Ledger!Withdrawn[k] = o
      BY <1>1 DEF Ledger!Withdrawn
    <3>3. CASE Ledger!Drop
      BY <1>1, <3>2, <3>3 DEF Ledger!Drop
    <3>4. ASSUME NEW j \in Keys, Ledger!Claim(j) \/ Ledger!Run(j)
          PROVE  after = o
      BY <1>1, <3>1, <3>4 DEF Ledger!Claim, Ledger!Run
    <3>5. ASSUME NEW j \in Keys, Ledger!End(j)
          PROVE  after \in {o, "over"}
      <4>1. Ledger!Withdrawn = [i \in Keys |-> Ledger!Withdrawn[i]]
        BY DEF Ledger!Withdrawn
      <4> QED BY <3>1, <3>2, <3>5, <4>1 DEF Ledger!End
    <3> QED BY <1>1, <2>3, <3>3, <3>4, <3>5 DEF Ledger!LedgerNext
  <2> QED BY <2>1, <2>2, <2>3 DEF LedgerStep
<1> QED BY <1>2 DEF Occurrence

LEMMA SlotKeys == \A s \in Slots : s.key \in Nat
<1> SUFFICES ASSUME NEW s \in Slots PROVE s.key \in Nat
  OBVIOUS
<1>1. s.key \in {Never} \union Keys
  BY DEF Slots
<1>2. Keys \subseteq Nat /\ Never \in Nat
  BY KeysType DEF Never
<1> QED BY <1>1, <1>2

LEMMA SlotMoves ==
  ASSUME Inv, [Next]_vars
  PROVE  SlotMove /\ manuals' \in {manuals, manuals + 1}
<1>0. task \in Rows /\ manuals \in 0..MaxManual /\ now \in 0..MaxTime
  BY DEF Inv, TypeOK
<1>1. CASE UNCHANGED vars \/ Tick \/ ExpireOnce \/ FinalizeWindow
  BY <1>0, <1>1 DEF vars, Tick, ExpireOnce, FinalizeWindow, Rows, SlotMove
<1>2. ASSUME NEW d \in Dispatchers, Dispatch(d)
      PROVE  SlotMove /\ UNCHANGED manuals
  <2>1. CASE ClaimDue(d)
    <3> DEFINE slot == [key |-> OccurrenceKey, trigger |-> "scheduled", def |-> task.def,
                        due |-> task.next]
    <3>1. slot.key \in Keys /\ slot.key = task.next /\ task.next # Never /\ task.next <= now
      BY <1>0, <2>1, KeysType, ConstantsAssumption
         DEF ClaimDue, Due, Never, OccurrenceKey, Rows, Dues
    <3>2. /\ task' = [task EXCEPT !.next = NextDue, !.pend = slot] /\ task.pend = NoPending
          /\ fate' = [fate EXCEPT ![slot.key] = "claimed"] /\ UNCHANGED manuals
      BY <2>1 DEF ClaimDue, Due
    <3> HIDE DEF slot
    <3>3. task'.pend = slot /\ task'.next = NextDue
      BY <1>0, <3>2 DEF Rows
    <3> QED BY <3>1, <3>2, <3>3 DEF SlotMove
  <2>2. CASE \/ ListPending(d) \/ PostAccepted(d) \/ CountBudget(d) \/ CountSequence(d)
             \/ PostControl(d)
    BY <2>2 DEF ListPending, PostAccepted, CountBudget, CountSequence, PostControl, SlotMove
  <2>3. CASE ClearPending(d)
    <3>1. CASE Holds(call[d].slot)
      <4>1. call'[d] = Idle /\ task'.pend = NoPending
        BY <1>0, <2>3, <3>1 DEF ClearPending, Inv, TypeOK, Rows
      <4> QED BY <2>3, <3>1, <4>1 DEF ClearPending, SlotMove
    <3>2. CASE ~Holds(call[d].slot)
      BY <2>3, <3>2 DEF ClearPending, SlotMove
    <3> QED BY <3>1, <3>2
  <2>4. CASE PauseForOccurrence(d) \/ RejectManual(d) \/ PauseInterrupted(d)
    <3>1. \/ task' = task /\ fate' = fate
          \/ task' = [task EXCEPT !.pend = NoPending] /\ fate' = Emptied("told")
          \/ \E rs : task' = Paused(rs) /\ fate' = Emptied("told")
      BY <2>4 DEF PauseForOccurrence, RejectManual, PauseInterrupted
    <3>2. \/ task' = task /\ fate' = fate
          \/ task'.pend = NoPending /\ fate' = Emptied("told")
      BY <1>0, <3>1 DEF Paused, Rows
    <3>3. UNCHANGED manuals
      BY <2>4 DEF PauseForOccurrence, RejectManual, PauseInterrupted
    <3> QED BY <3>2, <3>3 DEF SlotMove
  <2> QED BY <1>2, <2>1, <2>2, <2>3, <2>4 DEF Dispatch
<1>3. ASSUME NEW d \in Dispatchers, Recover(d) \/ Failures(d)
      PROVE  SlotMove /\ UNCHANGED manuals
  BY <1>3 DEF Recover, Failures, ListInterrupted, PostRefused, PostDenied, GiveUp, SlotMove
<1>4. ASSUME NEW c \in late, LatePost(c) \/ LateControl(c)
      PROVE  SlotMove /\ UNCHANGED manuals
  BY <1>4 DEF LatePost, LateControl, SlotMove
<1>5. ASSUME NEW k \in Keys, Runner(k)
      PROVE  SlotMove /\ UNCHANGED manuals
  <2>1. CASE Interrupt(k) \/ Resumed(k) \/ RejectControl(k)
    BY <2>1 DEF Interrupt, Resumed, RejectControl, SlotMove
  <2>2. ASSUME NEW blocked \in BOOLEAN, RunEnds(k, blocked)
        PROVE  SlotMove /\ UNCHANGED manuals
    <3> DEFINE st == RunStatus(run[k].trigger, blocked)
               rs == IF RunEmpties(blocked) THEN "auto"
                     ELSE IF run[k].trigger = "scheduled" /\ task.type # "once" /\ task.next = Never
                          THEN "none" ELSE task.reason
               p == IF RunEmpties(blocked) THEN NoPending ELSE task.pend
    <3>1. task.status # "deleted"
      BY <2>2 DEF Inv, RunEnds, NoOrphan, Busy, Open
    <3>2. task' = [task EXCEPT !.status = st, !.reason = rs, !.pend = p]
      BY <2>2, <3>1 DEF RunEnds
    <3>3. task'.status = st /\ task'.reason = rs /\ task'.pend = p
      <4> HIDE DEF st, rs, p
      <4> QED BY <1>0, <3>2 DEF Rows
    <3>4. UNCHANGED <<fate, manuals>> /\ Open(k) /\ run'[k].status = "ended"
      BY <2>2 DEF RunEnds, Open, Inv, TypeOK
    <3>5. RunEmpties(blocked) => st = "paused" /\ rs = "auto"
      BY DEF RunEmpties, RunStatus
    <3> QED BY <3>3, <3>4, <3>5 DEF SlotMove, BlockedEnd
  <2> QED BY <1>5, <2>1, <2>2 DEF Runner
<1>6. CASE User
  <2>1. CASE Pause \/ Delete
    <3>1. task'.pend = NoPending /\ fate' = Emptied("dropped") /\ UNCHANGED manuals
      BY <1>0, <2>1 DEF Pause, Delete, Paused, Rows
    <3> QED BY <3>1 DEF SlotMove
  <2>2. CASE Resume \/ (\E s \in Schedules : Reschedule(s)) \/ EditDefinition
    BY <1>0, <2>2 DEF Resume, Reschedule, EditDefinition, Rows, SlotMove
  <2>3. CASE SubmitManual
    <3> DEFINE slot == [key |-> MaxTime + manuals + 1, trigger |-> "manual", def |-> task.def,
                        due |-> Never]
    <3>1. slot.key \in Keys /\ slot.key = MaxTime + manuals + 1
      BY <1>0, <2>3, KeysType, ConstantsAssumption DEF SubmitManual
    <3>2. /\ task' = [task EXCEPT !.pend = slot] /\ task.pend = NoPending
          /\ fate' = [fate EXCEPT ![slot.key] = "claimed"] /\ manuals' = manuals + 1
      BY <2>3 DEF SubmitManual
    <3> HIDE DEF slot
    <3>3. task'.pend = slot
      BY <1>0, <3>2 DEF Rows
    <3> QED BY <3>1, <3>2, <3>3 DEF SlotMove
  <2>4. CASE \E k \in Keys : Cancel(k)
    BY <2>4 DEF Cancel, SlotMove
  <2> QED BY <1>6, <2>1, <2>2, <2>3, <2>4 DEF User
<1> QED BY <1>1, <1>2, <1>3, <1>4, <1>5, <1>6 DEF Next, vars, Tick, ExpireOnce, FinalizeWindow

LEMMA AnswerMoves ==
  ASSUME Inv, [Next]_vars, NEW d \in Dispatchers
  PROVE  AnswerMove(d)
<1>0. /\ call \in [Dispatchers -> Calls] /\ run \in [Keys -> Runs] /\ task \in Rows
      /\ \A e \in Dispatchers : ReadFromRow(call[e])
      /\ Idle.pc = "idle" /\ Idle.slot = NoPending
  BY DEF Inv, TypeOK, Copies, Idle
<1>1. CASE UNCHANGED vars \/ Tick \/ ExpireOnce \/ FinalizeWindow \/ User
  BY <1>1 DEF vars, Tick, ExpireOnce, FinalizeWindow, User, Pause, Resume, EditDefinition,
     SubmitManual, Delete, Reschedule, Cancel, AnswerMove
<1>2. ASSUME NEW k \in Keys, Runner(k) PROVE AnswerMove(d)
  BY <1>2 DEF Runner, Interrupt, Resumed, RejectControl, RunEnds, AnswerMove
<1>3. ASSUME NEW c \in late, LatePost(c) \/ LateControl(c) PROVE AnswerMove(d)
  BY <1>3 DEF LatePost, LateControl, AnswerMove
<1>4. ASSUME NEW e \in Dispatchers, NEW c, call' = [call EXCEPT ![e] = c],
             c.pc \notin {"accepted", "rejecting", "clearing"},
             c.slot \in {call[e].slot, NoPending, task.pend, task'.pend}
      PROVE  AnswerMove(d)
  BY <1>0, <1>4 DEF AnswerMove
<1>5. ASSUME NEW e \in Dispatchers, NEW pc, Answer(e, pc)
      PROVE  \/ call'[d] = call[d]
             \/ e = d /\ call'[d].pc = pc /\ call'[d].slot = call[d].slot
  BY <1>0, <1>5 DEF Answer, Calls
<1>6. ASSUME NEW e \in Dispatchers, Dispatch(e) \/ Recover(e) \/ Failures(e)
      PROVE  AnswerMove(d)
  <2>1. CASE ClaimDue(e)
    <3>1. PICK slot : /\ call' = [call EXCEPT ![e] = [Idle EXCEPT !.pc = "posting", !.slot = slot]]
                      /\ task' = [task EXCEPT !.next = NextDue, !.pend = slot]
      BY <2>1 DEF ClaimDue
    <3>2. task'.pend = slot
      BY <1>0, <3>1 DEF Rows
    <3>3. call'[e].pc = "posting" /\ call'[e].slot = slot
      BY <1>0, <3>1 DEF Idle
    <3>4. d # e => call'[d] = call[d]
      BY <1>0, <3>1
    <3> QED BY <3>2, <3>3, <3>4 DEF AnswerMove
  <2>2. CASE ListPending(e)
    <3> DEFINE c == [Idle EXCEPT !.pc = "posting", !.slot = task.pend]
    <3>1. c.pc = "posting" /\ c.slot = task.pend
      BY DEF Idle
    <3>2. call' = [call EXCEPT ![e] = c]
      BY <2>2 DEF ListPending
    <3> QED BY <1>4, <3>1, <3>2
  <2>3. CASE ClearPending(e) \/ PostControl(e) \/ PauseInterrupted(e) \/ GiveUp(e)
    BY <1>0, <1>4, <2>3 DEF ClearPending, PostControl, PauseInterrupted, GiveUp
  <2>4. CASE Recover(e)
    <3>1. PICK k \in Keys : call' = [call EXCEPT ![e] =
            [Idle EXCEPT !.pc = "listed", !.key = k, !.attempt = run[k].attempt,
                         !.round = task.round, !.completed = task.status = "completed"]]
      BY <2>4 DEF Recover, ListInterrupted
    <3>2. d = e => call'[d].pc = "listed" /\ call'[d].slot = NoPending
      BY <1>0, <3>1 DEF Idle
    <3>3. d # e => call'[d] = call[d]
      BY <1>0, <3>1
    <3> QED BY <3>2, <3>3 DEF AnswerMove
  <2>5. CASE CountBudget(e) \/ CountSequence(e)
    <3>1. CASE CountBudget(e)
      BY <1>5, <3>1 DEF CountBudget, AnswerMove
    <3>2. CASE CountSequence(e)
      <4> DEFINE c == [call[e] EXCEPT !.pc = "resuming", !.n = ControlNumber(call[e])]
      <4>1. c.pc = "resuming" /\ c.slot = call[e].slot
        BY <1>0 DEF Calls
      <4>2. call' = [call EXCEPT ![e] = c]
        BY <1>0, <3>2 DEF CountSequence
      <4> HIDE DEF c
      <4> QED BY <1>4, <4>1, <4>2
    <3> QED BY <2>5, <3>1, <3>2
  <2>6. CASE PostRefused(e) \/ PostDenied(e)
    BY <1>5, <2>6 DEF PostRefused, PostDenied, AnswerMove
  <2>7. CASE PostAccepted(e)
    <3>1. call[e].slot.key \in Keys
      BY <1>0, <2>7 DEF PostAccepted, ReadFromRow, Answering, Calls, Slots
    <3>2. run'[call[e].slot.key].status # "none"
      BY <1>0, <2>7, <3>1 DEF PostAccepted, Accept, Known, NoRun
    <3>3. Answer(e, "accepted")
      BY <2>7 DEF PostAccepted
    <3> QED BY <1>5, <3>2, <3>3 DEF AnswerMove
  <2>8. CASE PauseForOccurrence(e)
    <3>1. CASE task.status = "active" /\ Holds(call[e].slot)
      BY <1>0, <1>4, <2>8, <3>1 DEF PauseForOccurrence
    <3>2. CASE ~(task.status = "active" /\ Holds(call[e].slot))
      <4>1. Answer(e, "rejecting") /\ task' = task
        BY <2>8, <3>2 DEF PauseForOccurrence
      <4> QED BY <1>5, <3>2, <4>1 DEF AnswerMove
    <3> QED BY <3>1, <3>2
  <2>9. CASE RejectManual(e)
    <3>1. CASE Rejectable(call[e].slot)
      BY <1>0, <1>4, <2>9, <3>1 DEF RejectManual
    <3>2. CASE ~Rejectable(call[e].slot)
      <4>1. Answer(e, "clearing") /\ task' = task /\ call[e].pc = "rejecting"
        BY <2>9, <3>2 DEF RejectManual
      <4> QED BY <1>5, <3>2, <4>1 DEF AnswerMove
    <3> QED BY <3>1, <3>2
  <2> QED BY <1>6, <2>1, <2>2, <2>3, <2>4, <2>5, <2>6, <2>7, <2>8, <2>9 DEF Dispatch, Failures
<1> QED BY <1>1, <1>2, <1>3, <1>6 DEF Next

LEMMA AcceptedKnownNext ==
  ASSUME Inv, AcceptedKnown, [Next]_vars
  PROVE  AcceptedKnown'
<1> SUFFICES ASSUME NEW d \in Dispatchers, call'[d].pc = "accepted"
             PROVE  run'[call'[d].slot.key].status # "none"
  BY DEF AcceptedKnown
<1>1. AnswerMove(d)
  BY AnswerMoves
<1>2. CASE call'[d] = call[d]
  <2>1. call[d].slot.key \in Keys
    BY <1>2 DEF Inv, TypeOK, Copies, ReadFromRow, Answering, Calls, Slots
  <2> QED BY <1>2, <2>1, RunsStay DEF AcceptedKnown
<1> QED BY <1>1, <1>2 DEF AnswerMove

\* A step after which an occurrence is lost is the end of a refused request, or of a blocked run.
LEMMA Loses ==
  ASSUME Inv, AcceptedKnown, [Next]_vars, NEW k \in Keys, ~Lost(k), Lost(k)'
  PROVE  /\ task.pend.key = k
         /\ \/ BlockedEnd
            \/ \E d \in Dispatchers :
                 call[d].pc = "clearing" /\ call[d].slot.key = k /\ call'[d] = Idle
<1>1. SlotMove
  BY SlotMoves
<1>2. fate'[k] = "claimed" /\ task'.pend.key # k /\ run'[k].status = "none"
  BY DEF Lost
<1>3. run[k].status = "none"
  BY <1>2, RunsStay
<1>4. fate \in [Keys -> {"none", "claimed", "told", "dropped"}]
  BY DEF Inv, TypeOK
<1>5. fate[k] = "claimed"
  BY <1>1, <1>2, <1>4 DEF SlotMove, Emptied
<1>6. task.pend.key = k
  BY <1>3, <1>5 DEF Lost
<1>7. task.pend # NoPending
  BY <1>6, KeysNotNever DEF NoPending
<1>8. ~\E f \in {"told", "dropped"} : fate' = Emptied(f)
  BY <1>2, <1>6 DEF Emptied
<1>9. \/ BlockedEnd
      \/ \E d \in Dispatchers : /\ call[d].pc \in {"accepted", "clearing"}
                                /\ Holds(call[d].slot) /\ call'[d] = Idle
  BY <1>1, <1>2, <1>6, <1>7, <1>8 DEF SlotMove
<1> QED BY <1>3, <1>6, <1>9 DEF Holds, AcceptedKnown

\* Of all the answers, results and commands, in any order, for any number of dispatchers and every
\* schedule, two steps only let a pending occurrence disappear without a word: the end of a
\* blocked run of the task, and the clearing of the slot after a refusal that neither paused the
\* task nor rejected the occurrence (the end of _handle_submit_error).
THEOREM OnlyTwoStepsLose ==
  Spec => [][\A k \in Keys : ~Lost(k) /\ Lost(k)' =>
               /\ task.pend.key = k
               /\ \/ BlockedEnd
                  \/ \E d \in Dispatchers :
                       call[d].pc = "clearing" /\ call[d].slot.key = k /\ call'[d] = Idle]_vars
<1>1. Init => AcceptedKnown
  BY DEF Init, AcceptedKnown, Idle
<1>2. Inv /\ AcceptedKnown /\ [Next]_vars => AcceptedKnown'
  BY AcceptedKnownNext
<1>3. Inv /\ AcceptedKnown /\ [Next]_vars =>
        [\A k \in Keys : ~Lost(k) /\ Lost(k)' =>
           /\ task.pend.key = k
           /\ \/ BlockedEnd
              \/ \E d \in Dispatchers :
                   call[d].pc = "clearing" /\ call[d].slot.key = k /\ call'[d] = Idle]_vars
  BY Loses
<1> QED BY <1>1, <1>2, <1>3, InvInit, InvNext, PTL DEF Spec

\* Tasks that run more than once.
NoOnce == \A s \in Schedules : s.type # "once"

\* A recurring task has a next instant, or a window that ended.
Recurring ==
  /\ task.type # "once" /\ task.status # "expired"
  /\ task.status \in {"active", "paused"} /\ task.next = Never => task.ends # Never
  /\ task.status = "completed" => task.ends # Never

\* A key that was given: that of an immediate run before this one, or a due time that is past and
\* before the next.
Given(n) ==
  /\ n <= MaxTime + manuals
  /\ n <= MaxTime => n <= now /\ (task.next # Never => n < task.next)

\* No occurrence has a key that is still to be given.
KeysGiven == Given(task.pend.key) /\ \A d \in Dispatchers : Given(call[d].slot.key)

\* While a refusal is settled the task is not active with its occurrence, and at the end the
\* slot is no longer the dispatcher's.
RefusalsSettle ==
  \A d \in Dispatchers :
    /\ call[d].pc = "rejecting" /\ Holds(call[d].slot) => task.status # "active"
    /\ call[d].pc = "clearing" => ~Holds(call[d].slot)

SettledInv == Inv /\ AcceptedKnown /\ Recurring /\ KeysGiven /\ RefusalsSettle

LEMMA RecurringNext ==
  ASSUME NoOnce, Inv, Recurring, [Next]_vars
  PROVE  /\ Recurring'
         /\ task'.status = "active" => task.status = "active" \/ task.pend = NoPending
<1>0. task \in Rows /\ now \in Nat /\ now + 1 # Never
  BY DEF Inv, TypeOK, Never
<1>1. ~OnceExpired /\ NextDue = InWindow(now + 1) /\ ResumeDue = InWindow(now + 1)
  BY DEF Recurring, OnceExpired, NextDue, ResumeDue
<1>2. InWindow(now + 1) = Never => task.ends # Never
  BY <1>0 DEF InWindow
<1>3. CASE task' = task
  BY <1>3 DEF Recurring
<1>4. CASE UNCHANGED vars \/ Tick \/ ExpireOnce \/ FinalizeWindow
  BY <1>0, <1>1, <1>3, <1>4 DEF vars, Tick, ExpireOnce, FinalizeWindow, Rows, Recurring
<1>5. ASSUME NEW d \in Dispatchers, Dispatch(d)
      PROVE  /\ Recurring'
             /\ task'.status = "active" => task.status = "active"
  <2>1. CASE ClaimDue(d)
    <3>1. PICK slot : task' = [task EXCEPT !.next = NextDue, !.pend = slot]
      BY <2>1 DEF ClaimDue
    <3> QED BY <1>0, <1>1, <1>2, <3>1 DEF Rows, Recurring
  <2>2. CASE \/ ListPending(d) \/ PostAccepted(d) \/ CountBudget(d) \/ CountSequence(d)
             \/ PostControl(d)
    BY <1>3, <2>2 DEF ListPending, PostAccepted, CountBudget, CountSequence, PostControl, Recurring
  <2>3. CASE ClearPending(d) \/ PauseForOccurrence(d) \/ RejectManual(d) \/ PauseInterrupted(d)
    <3>1. \/ task' = task
          \/ task' = [task EXCEPT !.pend = NoPending]
          \/ task.status = "active" /\ \E rs : task' = Paused(rs)
      BY <2>3 DEF ClearPending, PauseForOccurrence, RejectManual, PauseInterrupted, RoundCurrent
    <3> QED BY <1>0, <3>1 DEF Paused, Rows, Recurring
  <2> QED BY <1>5, <2>1, <2>2, <2>3 DEF Dispatch
<1>6. ASSUME NEW d \in Dispatchers, Recover(d) \/ Failures(d) PROVE task' = task
  BY <1>6 DEF Recover, Failures, ListInterrupted, PostRefused, PostDenied, GiveUp
<1>7. ASSUME NEW c \in late, LatePost(c) \/ LateControl(c) PROVE task' = task
  BY <1>7 DEF LatePost, LateControl
<1>8. ASSUME NEW k \in Keys, Runner(k)
      PROVE  /\ Recurring'
             /\ task'.status = "active" => task.status = "active"
  <2>1. CASE Interrupt(k) \/ Resumed(k) \/ RejectControl(k)
    BY <1>3, <2>1 DEF Interrupt, Resumed, RejectControl, Recurring
  <2>2. ASSUME NEW blocked \in BOOLEAN, RunEnds(k, blocked)
        PROVE  /\ Recurring'
               /\ task'.status = "active" => task.status = "active"
    <3>1. task.status # "deleted"
      BY <2>2 DEF Inv, RunEnds, NoOrphan, Busy, Open
    <3>2. PICK st, rs, p :
            /\ task' = [task EXCEPT !.status = st, !.reason = rs, !.pend = p]
            /\ st = RunStatus(run[k].trigger, blocked)
            /\ rs \in {"auto", "none", task.reason}
            /\ p = IF RunEmpties(blocked) THEN NoPending ELSE task.pend
      BY <2>2, <3>1 DEF RunEnds
    <3>3. \/ st = task.status
          \/ st = "paused" /\ task.status # "completed"
          \/ st = "completed" /\ task.next = Never
      BY <3>2 DEF RunStatus, Recurring
    <3>4. task.status \in {"active", "paused", "completed"}
      BY <1>0, <3>1 DEF Rows, Recurring
    <3>5. /\ task'.status = st /\ task'.next = task.next /\ task'.ends = task.ends
          /\ task'.type = task.type
      BY <1>0, <3>2 DEF Rows
    <3> QED BY <3>3, <3>4, <3>5 DEF Recurring
  <2> QED BY <1>8, <2>1, <2>2 DEF Runner
<1>9. CASE User
  <2>1. CASE Pause \/ Delete \/ EditDefinition
    BY <1>0, <2>1 DEF Pause, Delete, EditDefinition, Paused, Rows, Recurring
  <2>2. CASE Resume
    <3>1. task.pend = NoPending
      BY <2>2 DEF Resume, Inv, PausedHoldsNothing
    <3>2. task' = [task EXCEPT !.status = IF InWindow(now + 1) = Never THEN "completed"
                                          ELSE "active",
                               !.reason = "none", !.next = InWindow(now + 1), !.round = @ + 1]
      BY <1>1, <2>2 DEF Resume
    <3> QED BY <1>0, <1>2, <3>1, <3>2 DEF Rows, Recurring
  <2>3. ASSUME NEW s \in Schedules, Reschedule(s)
        PROVE  /\ Recurring'
               /\ task'.status = "active" => task.status = "active"
    <3>1. task.status \in {"active", "paused"} /\ s.type # "once"
      BY <2>3 DEF Reschedule, NoOnce
    <3>2. /\ task'.status = task.status /\ task'.type = s.type /\ task'.next = now + 1
      BY <1>0, <2>3 DEF Reschedule, Rows
    <3> QED BY <1>0, <3>1, <3>2 DEF Recurring
  <2>4. CASE SubmitManual
    <3>1. \E p : task' = [task EXCEPT !.pend = p]
      BY <2>4 DEF SubmitManual
    <3> QED BY <1>0, <3>1 DEF Rows, Recurring
  <2>5. CASE \E k \in Keys : Cancel(k)
    BY <1>3, <2>5 DEF Cancel
  <2> QED BY <1>9, <2>1, <2>2, <2>3, <2>4, <2>5 DEF User
<1> QED BY <1>3, <1>4, <1>5, <1>6, <1>7, <1>8, <1>9 DEF Next

\* Time goes on, and the next instant of a recurring task is after it when it changes.
LEMMA NextMoves ==
  ASSUME NoOnce, Inv, Recurring, [Next]_vars
  PROVE  /\ now \in Nat /\ now <= MaxTime /\ now' \in Nat /\ now <= now'
         /\ task'.next \in {task.next, Never, now + 1}
         /\ NextDue \in {Never, now + 1}
<1>0. /\ task \in Rows /\ now \in Nat /\ now <= now /\ now <= now + 1 /\ now + 1 \in Nat
      /\ now <= MaxTime
  BY ConstantsAssumption DEF Inv, TypeOK
<1>1. ~OnceExpired /\ NextDue \in {Never, now + 1} /\ ResumeDue \in {Never, now + 1}
  BY DEF Recurring, OnceExpired, NextDue, ResumeDue, InWindow
<1>2. CASE UNCHANGED <<now, task>>
  BY <1>0, <1>1, <1>2
<1>3. CASE UNCHANGED vars \/ Tick \/ ExpireOnce \/ FinalizeWindow
  BY <1>0, <1>1, <1>3 DEF vars, Tick, ExpireOnce, FinalizeWindow, Rows
<1>4. ASSUME NEW d \in Dispatchers, Dispatch(d)
      PROVE  UNCHANGED now /\ task'.next \in {task.next, Never, now + 1}
  <2>1. CASE ClaimDue(d)
    <3>1. PICK slot : task' = [task EXCEPT !.next = NextDue, !.pend = slot]
      BY <2>1 DEF ClaimDue
    <3> QED BY <1>0, <1>1, <2>1, <3>1 DEF ClaimDue, Rows
  <2>2. CASE \/ ListPending(d) \/ PostAccepted(d) \/ CountBudget(d) \/ CountSequence(d)
             \/ PostControl(d)
    BY <2>2 DEF ListPending, PostAccepted, CountBudget, CountSequence, PostControl
  <2>3. CASE ClearPending(d) \/ PauseForOccurrence(d) \/ RejectManual(d) \/ PauseInterrupted(d)
    <3>1. \/ task' = task
          \/ task' = [task EXCEPT !.pend = NoPending]
          \/ \E rs : task' = Paused(rs)
      BY <2>3 DEF ClearPending, PauseForOccurrence, RejectManual, PauseInterrupted
    <3>2. UNCHANGED now
      BY <2>3 DEF ClearPending, PauseForOccurrence, RejectManual, PauseInterrupted
    <3> QED BY <1>0, <3>1, <3>2 DEF Paused, Rows
  <2> QED BY <1>4, <2>1, <2>2, <2>3 DEF Dispatch
<1>5. ASSUME NEW d \in Dispatchers, Recover(d) \/ Failures(d) PROVE UNCHANGED <<now, task>>
  BY <1>5 DEF Recover, Failures, ListInterrupted, PostRefused, PostDenied, GiveUp
<1>6. ASSUME NEW c \in late, LatePost(c) \/ LateControl(c) PROVE UNCHANGED <<now, task>>
  BY <1>6 DEF LatePost, LateControl
<1>7. ASSUME NEW k \in Keys, Runner(k)
      PROVE  UNCHANGED now /\ task'.next = task.next
  <2>1. CASE Interrupt(k) \/ Resumed(k) \/ RejectControl(k)
    BY <2>1 DEF Interrupt, Resumed, RejectControl
  <2>2. ASSUME NEW blocked \in BOOLEAN, RunEnds(k, blocked)
        PROVE  UNCHANGED now /\ task'.next = task.next
    <3>1. task.status # "deleted"
      BY <2>2 DEF Inv, RunEnds, NoOrphan, Busy, Open
    <3>2. PICK st, rs, p :
            /\ task' = [task EXCEPT !.status = st, !.reason = rs, !.pend = p]
            /\ st = RunStatus(run[k].trigger, blocked)
            /\ rs \in {"auto", "none", task.reason}
            /\ p = IF RunEmpties(blocked) THEN NoPending ELSE task.pend
      BY <2>2, <3>1 DEF RunEnds
    <3> QED BY <1>0, <2>2, <3>2 DEF RunEnds, Rows
  <2> QED BY <1>7, <2>1, <2>2 DEF Runner
<1>8. ASSUME User
      PROVE  now' \in {now, now + 1} /\ task'.next \in {task.next, Never, now + 1}
  <2>1. CASE Pause \/ Delete \/ EditDefinition
    BY <1>0, <2>1 DEF Pause, Delete, EditDefinition, Paused, Rows
  <2>2. CASE Resume
    <3>1. now' \in {now, now + 1}
      BY <2>2 DEF Resume, StartsNow
    <3>2. \E st : task' = [task EXCEPT !.status = st, !.reason = "none", !.next = ResumeDue,
                                       !.round = @ + 1]
      BY <1>1, <2>2 DEF Resume
    <3>3. task'.next = ResumeDue
      BY <1>0, <3>2 DEF Rows
    <3> QED BY <1>1, <3>1, <3>3
  <2>3. ASSUME NEW s \in Schedules, Reschedule(s)
        PROVE  now' \in {now, now + 1} /\ task'.next = now + 1
    <3>1. now' \in {now, now + 1}
      BY <2>3 DEF Reschedule, StartsNow
    <3> QED BY <1>0, <2>3, <3>1 DEF Reschedule, Rows
  <2>4. CASE SubmitManual
    <3>1. \E p : task' = [task EXCEPT !.pend = p]
      BY <2>4 DEF SubmitManual
    <3>2. task'.next = task.next
      BY <1>0, <3>1 DEF Rows
    <3> QED BY <2>4, <3>2 DEF SubmitManual
  <2>5. CASE \E k \in Keys : Cancel(k)
    BY <2>5 DEF Cancel
  <2> QED BY <1>8, <2>1, <2>2, <2>3, <2>4, <2>5 DEF User
<1> QED BY <1>0, <1>1, <1>2, <1>3, <1>4, <1>5, <1>6, <1>7, <1>8 DEF Next

LEMMA KeysGivenNext ==
  ASSUME NoOnce, Inv, Recurring, KeysGiven, [Next]_vars
  PROVE  KeysGiven'
<1>0. /\ task.pend \in Slots /\ \A d \in Dispatchers : call[d].slot \in Slots
      /\ task.next \in Nat /\ task'.next \in Nat
      /\ manuals \in Nat /\ NoPending.key = 0 /\ MaxTime \in Nat
  <2>1. task \in Rows /\ call \in [Dispatchers -> Calls] /\ manuals \in 0..MaxManual
        /\ task' \in Rows
    BY InvNext DEF Inv, TypeOK
  <2>2. task.pend \in Slots /\ \A d \in Dispatchers : call[d].slot \in Slots
    BY <2>1 DEF Rows, Calls
  <2>3. manuals \in Nat /\ MaxTime \in Nat
    BY <2>1, ConstantsAssumption
  <2>4. NoPending.key = 0 /\ task.next \in Nat /\ task'.next \in Nat
    BY <2>1 DEF NoPending, Never, Rows
  <2> QED BY <2>2, <2>3, <2>4
<1>1. /\ now \in Nat /\ now <= MaxTime /\ now' \in Nat /\ now <= now'
      /\ task'.next \in {task.next, Never, now + 1}
      /\ NextDue \in {Never, now + 1}
  BY NextMoves
<1>2. SlotMove /\ manuals' \in {manuals, manuals + 1}
  BY SlotMoves
<1>7. /\ MaxTime \in Nat /\ MaxTime + manuals \in Nat /\ MaxTime + manuals' \in Nat
      /\ MaxTime + manuals <= MaxTime + manuals'
  <2>1. MaxTime \in Nat /\ manuals \in Nat
    BY <1>0
  <2>2. manuals' = manuals \/ manuals' = manuals + 1
    BY <1>2
  <2> QED BY <2>1, <2>2
<1>3. ASSUME NEW n \in Nat, Given(n) PROVE Given(n)'
  <2>1. n <= MaxTime + manuals'
    <3>1. n <= MaxTime + manuals
      BY <1>3 DEF Given
    <3> QED BY <1>7, <3>1
  <2>2. ASSUME n <= MaxTime PROVE n <= now' /\ (task'.next # Never => n < task'.next)
    <3>1. n <= now /\ (task.next # Never => n < task.next)
      BY <1>3, <2>2 DEF Given
    <3> QED BY <1>0, <1>1, <3>1
  <2> QED BY <2>1, <2>2 DEF Given
<1>4. Given(0)'
  <2>1. 0 <= MaxTime + manuals' /\ 0 <= now' /\ (task'.next # Never => 0 < task'.next)
    <3>1. MaxTime + manuals' \in Nat /\ now' \in Nat /\ task'.next \in Nat /\ Never = 0
      BY <1>0, <1>1, <1>7 DEF Never
    <3> QED BY <3>1
  <2> QED BY <2>1 DEF Given
<1>5. Given(task.pend.key)'
  <2>1. CASE task'.pend = task.pend
    <3>1. task.pend.key \in Nat /\ Given(task.pend.key)
      BY <1>0, SlotKeys DEF KeysGiven
    <3>2. task'.pend.key = task.pend.key
      BY <2>1
    <3> DEFINE n == task.pend.key
    <3>3. n \in Nat /\ Given(n)
      BY <3>1
    <3>4. /\ n <= MaxTime + manuals'
          /\ n <= MaxTime => n <= now' /\ (task'.next # Never => n < task'.next)
      <4> HIDE DEF n
      <4>1. \A m \in Nat : Given(m) => /\ m <= MaxTime + manuals'
                                       /\ m <= MaxTime =>
                                            m <= now' /\ (task'.next # Never => m < task'.next)
        BY <1>3 DEF Given
      <4> QED BY <3>3, <4>1
    <3> QED BY <3>2, <3>4 DEF Given
  <2>2. CASE task'.pend = NoPending
    <3>1. task'.pend.key = 0
      BY <1>0, <2>2
    <3> QED BY <1>4, <3>1 DEF Given
  <2>3. CASE task'.pend.key = MaxTime + manuals + 1 /\ manuals' = manuals + 1
    BY <1>0, <2>3 DEF Given
  <2>4. CASE task'.pend.key = task.next /\ task.next <= now /\ task'.next = NextDue
    <3> DEFINE t == task.next
    <3>1. /\ t \in Nat /\ t <= now /\ now \in Nat /\ now <= MaxTime /\ now <= now'
          /\ now' \in Nat /\ task'.next \in {Never, now + 1}
      BY <1>0, <1>1, <2>4
    <3>2. t <= MaxTime + manuals' /\ t <= now'
      <4> HIDE DEF t
      <4>1. t <= MaxTime /\ t <= now'
        BY <1>7, <3>1
      <4>2. manuals' \in Nat
        BY <1>0, <1>2
      <4>3. \A x, y, z \in Nat : x <= y => x <= y + z
        OBVIOUS
      <4>4. t <= MaxTime + manuals'
        BY <1>7, <3>1, <4>1, <4>2, <4>3
      <4> QED BY <4>1, <4>4
    <3>3. task'.next # Never => t < task'.next
      <4> HIDE DEF t
      <4> QED BY <3>1
    <3> QED BY <2>4, <3>2, <3>3 DEF Given
  <2> QED BY <1>2, <2>1, <2>2, <2>3, <2>4 DEF SlotMove
<1>6. ASSUME NEW d \in Dispatchers
      PROVE  Given(call[d].slot.key)'
  <2>1. call'[d].slot \in {call[d].slot, NoPending, task.pend, task'.pend}
    BY AnswerMoves DEF AnswerMove
  <2>2. \A m \in Nat : Given(m) => /\ m <= MaxTime + manuals'
                                   /\ m <= MaxTime =>
                                        m <= now' /\ (task'.next # Never => m < task'.next)
    BY <1>3 DEF Given
  <2>3. ASSUME NEW s \in Slots, Given(s.key), call'[d].slot = s
        PROVE  Given(call[d].slot.key)'
    <3>1. s.key \in Nat
      BY SlotKeys
    <3> QED BY <2>2, <2>3, <3>1 DEF Given
  <2>4. CASE call'[d].slot \in {call[d].slot, task.pend}
    BY <1>0, <2>3, <2>4 DEF KeysGiven
  <2>5. CASE call'[d].slot = NoPending
    <3>1. call'[d].slot.key = 0
      BY <1>0, <2>5
    <3> QED BY <1>4, <3>1 DEF Given
  <2>6. CASE call'[d].slot = task'.pend
    <3>1. call'[d].slot.key = task'.pend.key
      BY <2>6
    <3> QED BY <1>5, <3>1 DEF Given
  <2> QED BY <2>1, <2>4, <2>5, <2>6
<1> QED BY <1>5, <1>6 DEF KeysGiven

LEMMA RefusalsSettleNext ==
  ASSUME NoOnce, Inv, Recurring, KeysGiven, RefusalsSettle, [Next]_vars
  PROVE  RefusalsSettle'
<1> SUFFICES ASSUME NEW d \in Dispatchers, call'[d].pc \in {"rejecting", "clearing"},
                    task'.pend.key = call'[d].slot.key
             PROVE  call'[d].pc = "rejecting" /\ task'.status # "active"
  BY DEF RefusalsSettle, Holds
<1>0. /\ call[d] \in Calls /\ manuals \in 0..MaxManual /\ task \in Rows
      /\ ReadFromRow(call[d])'
  BY InvNext DEF Inv, TypeOK, Copies
<1>1. call'[d].slot.key # Never
  BY <1>0 DEF ReadFromRow, Answering
<1>2. /\ call[d].slot.key \in Nat /\ manuals \in Nat /\ MaxTime \in Nat
      /\ now \in Nat /\ now <= MaxTime /\ task.next \in Nat
  BY <1>0, SlotKeys, NextMoves, ConstantsAssumption DEF Calls, Rows
<1>3. task'.pend # NoPending
  BY <1>1 DEF NoPending
<1>4. AnswerMove(d) /\ SlotMove
  BY AnswerMoves, SlotMoves
<1>5. CASE call'[d] = call[d]
  <2>1. Given(call[d].slot.key)
    BY DEF KeysGiven
  <2>2. call[d].slot.key # MaxTime + manuals + 1
    BY <1>2, <2>1 DEF Given
  <2>3. ~(call[d].slot.key = task.next /\ task.next # Never /\ task.next <= now)
    BY <1>2, <2>1 DEF Given
  <2>4. task'.pend = task.pend
    BY <1>3, <1>4, <1>5, <2>2, <2>3 DEF SlotMove
  <2>5. Holds(call[d].slot)
    BY <1>5, <2>4 DEF Holds
  <2>6. call[d].pc = "rejecting" /\ task.status # "active"
    BY <1>5, <2>5 DEF RefusalsSettle
  <2>7. task.pend # NoPending
    BY <1>3, <2>4
  <2> QED BY <1>5, <2>6, <2>7, RecurringNext
<1>6. CASE /\ call'[d].pc = "rejecting" /\ call'[d].slot = call[d].slot /\ task' = task
           /\ ~(task.status = "active" /\ Holds(call[d].slot))
  BY <1>6 DEF Holds
<1>7. CASE /\ call[d].pc = "rejecting" /\ ~Rejectable(call[d].slot)
           /\ call'[d].pc = "clearing" /\ call'[d].slot = call[d].slot /\ task' = task
  <2>1. Holds(call[d].slot) /\ task.status # "active"
    BY <1>7 DEF RefusalsSettle, Holds
  <2>2. task.status = "completed"
    BY <1>3, <1>7, <2>1 DEF Inv, PausedHoldsNothing
  <2> QED BY <1>7, <2>1, <2>2 DEF Rejectable, WindowCompleted, Recurring
<1> QED BY <1>4, <1>5, <1>6, <1>7 DEF AnswerMove

LEMMA SettledInit == ASSUME NoOnce, Init PROVE SettledInv
<1>1. Recurring /\ task.pend = NoPending /\ task.next = 1
  BY DEF Init, Created, Recurring, NoOnce, Never
<1>2. AcceptedKnown /\ RefusalsSettle
  BY DEF Init, AcceptedKnown, RefusalsSettle, Idle
<1>3. NoPending.key = 0 /\ \A d \in Dispatchers : call[d].slot.key = 0
  BY DEF Init, Idle, NoPending, Never
<1>4. Given(0)
  BY <1>1, ConstantsAssumption DEF Init, Given, Never
<1> QED BY <1>1, <1>2, <1>3, <1>4, InvInit DEF SettledInv, KeysGiven

\* However many dispatchers settle the answers, an occurrence of a recurring task, or of its
\* immediate runs, disappears without a word only behind a run that ends blocked: a refused one is
\* run later, or its user hears of it.  For a task that runs once this is false.
THEOREM RecurringLostBehindBlocked ==
  ASSUME NoOnce
  PROVE  Spec => LostBehindBlocked
<1>1. Init => SettledInv
  BY SettledInit
<1>2. SettledInv /\ [Next]_vars => SettledInv'
  BY InvNext, AcceptedKnownNext, RecurringNext, KeysGivenNext, RefusalsSettleNext DEF SettledInv
<1>3. SettledInv /\ [Next]_vars =>
        [\A k \in Keys :
           ~Lost(k) /\ Lost(k)' =>
             /\ task.pend.key = k /\ task'.status = "paused" /\ task'.reason = "auto"
             /\ \E j \in Keys : Open(j) /\ run'[j].status = "ended"]_vars
  <2> SUFFICES ASSUME SettledInv, [Next]_vars, NEW k \in Keys, ~Lost(k), Lost(k)'
               PROVE  task.pend.key = k /\ BlockedEnd
    BY DEF BlockedEnd
  <2>1. \A d \in Dispatchers : call[d].pc = "clearing" => task.pend.key # call[d].slot.key
    BY DEF SettledInv, RefusalsSettle, Holds
  <2> QED BY <2>1, Loses DEF SettledInv
<1> QED BY <1>1, <1>2, <1>3, PTL DEF Spec, LostBehindBlocked
================================================================================
