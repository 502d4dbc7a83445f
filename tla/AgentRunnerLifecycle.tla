----------------------- MODULE AgentRunnerLifecycle -----------------------
(***************************************************************************)
(* The life of a runner: what its user commands, what a worker decides and  *)
(* how it ends, for any number of runners, sessions, workers, coroutines    *)
(* and controls.  One lemma says how a step may move the row of a runner,   *)
(* its controls and its effect; the invariants and the refinement of        *)
(* SessionTurns follow from it.                                             *)
(***************************************************************************)
EXTENDS AgentRunnerAuthority, AgentRunnerTurns, FiniteSetTheorems

-----------------------------------------------------------------------------
(* How a row may move: o is the row before the step and n the row after it. *)

SamePhase(o, n) == n.status = o.status /\ n.attempt = o.attempt
SameOwner(o, n) == n.worker = o.worker /\ n.lease = o.lease
SameWord(o, n) == n.cancel = o.cancel /\ n.pause = o.pause /\ n.resume = o.resume
SameIntent(o, n) == n.pending = o.pending /\ n.abandoned = o.abandoned
SameHold(o, n) == n.cancelOnly = o.cancelOnly /\ n.blocked = o.blocked

CancelAsked(n) == n.cancel /\ ~n.pause /\ n.resume = NoControl
GivenUp(o, n) == /\ n.worker = NoWorker /\ n.lease = "none"
                 /\ n.attempt = o.attempt /\ n.revision = o.revision + 1

Enters(o, n) ==
  /\ o.status = "absent" /\ n.status = "queued" /\ n.attempt = o.attempt
  /\ SameOwner(o, n) /\ SameWord(o, n) /\ SameIntent(o, n) /\ SameHold(o, n)
  /\ n.revision = o.revision

Withdraws(o, n) ==
  /\ o.status = "queued" /\ n.status = "cancelled" /\ n.attempt = o.attempt
  /\ SameOwner(o, n) /\ SameIntent(o, n) /\ SameHold(o, n)
  /\ CancelAsked(n)

\* The user commands; the execution does not move.
Commanded(o, n) ==
  /\ o.status \in {"queued"} \union Parked \union Executing /\ ~o.cancel
  /\ SamePhase(o, n) /\ SameOwner(o, n) /\ SameIntent(o, n) /\ SameHold(o, n)
  /\ n.revision = o.revision
  /\ \/ CancelAsked(n) /\ o.status # "queued"
     \/ ~n.cancel /\ n.pause /\ n.resume = NoControl /\ o.status # "finalizing"
     \/ ~n.cancel /\ n.pause = o.pause /\ o.status \in Parked

StopsWaiting(o, n) ==
  /\ o.status \in Parked
  /\ SamePhase(o, n) /\ SameOwner(o, n) /\ SameIntent(o, n)
  /\ CancelAsked(n) /\ n.blocked = NoBlock

\* An attempt starts.
Starts(o, n) ==
  /\ n.attempt = o.attempt + 1
  /\ SameIntent(o, n) /\ n.cancel = o.cancel
  /\ \/ o.status = "queued" /\ n.status = "running" /\ SameWord(o, n) /\ SameHold(o, n)
     \/ o.status = "finalizing" /\ n.status = "finalizing" /\ SameWord(o, n) /\ SameHold(o, n)
     \/ o.status \in Parked /\ o.cancel /\ n.status = "finalizing" /\ SameWord(o, n)
          /\ n.blocked = NoBlock
     \/ o.status \in Parked /\ ~o.cancel /\ n.status = "running" /\ SameHold(o, n)
          /\ o.pending = "none" /\ n.resume = NoControl /\ (n.pause => o.pause)

\* The owner goes on ...
Progresses(o, n) ==
  /\ o.status \in Executing
  /\ SamePhase(o, n) /\ SameOwner(o, n) /\ SameWord(o, n) /\ SameIntent(o, n) /\ SameHold(o, n)

\* ... decides how the runner ends ...
Decides(o, n) ==
  /\ o.status \in Executing /\ n.status = "finalizing" /\ n.attempt = o.attempt
  /\ o.pending = "none" /\ n.pending \in Terminal /\ n.abandoned = o.abandoned
  /\ SameOwner(o, n) /\ SameWord(o, n) /\ SameHold(o, n)

\* ... gives the runner up (the reaper does so in its place) ...
Parks(o, n) ==
  /\ o.status = "running" /\ n.status \in Parked
  /\ GivenUp(o, n) /\ SameWord(o, n) /\ SameIntent(o, n) /\ SameHold(o, n)

Blocks(o, n) ==
  /\ o.status \in Executing /\ n.status = "waiting" /\ o.cancel /\ o.pending = "none"
  /\ GivenUp(o, n) /\ SameWord(o, n) /\ SameIntent(o, n)
  /\ n.cancelOnly /\ n.blocked = [attempt |-> n.attempt, revision |-> n.revision, ready |-> FALSE]

\* ... or ends it.
Ends(o, n) ==
  /\ o.status = "finalizing" /\ n.attempt = o.attempt
  /\ n.cancel = o.cancel /\ ~n.pause /\ n.resume = NoControl
  /\ n.pending = o.pending /\ SameHold(o, n)
  /\ \/ o.pending # "none" /\ n.status = o.pending /\ n.abandoned = o.abandoned
     \/ n.abandoned /\ n.status = IF o.pending = "cancelled" THEN "cancelled" ELSE "failed"

Lapses(o, n) ==
  /\ o.lease = "live" /\ n.lease = "expired" /\ n.worker = o.worker
  /\ SamePhase(o, n) /\ SameWord(o, n) /\ SameIntent(o, n) /\ SameHold(o, n)
  /\ n.revision = o.revision

\* A parked runner is held or released by the service.
Noted(o, n) ==
  /\ o.status \in Parked
  /\ SamePhase(o, n) /\ SameOwner(o, n) /\ SameWord(o, n) /\ SameIntent(o, n)
  /\ n.cancelOnly = o.cancelOnly /\ n.revision = o.revision + 1
  /\ \/ ~o.cancel /\ n.blocked = o.blocked
     \/ /\ o.status = "waiting" /\ o.cancel /\ o.cancelOnly /\ o.pending = "none"
        /\ o.worker = NoWorker /\ o.lease = "none"
        /\ n.blocked.attempt = o.attempt /\ n.blocked.revision = n.revision

Shape(o, n) ==
  \/ n = o
  \/ Enters(o, n) \/ Withdraws(o, n) \/ Commanded(o, n) \/ StopsWaiting(o, n)
  \/ Starts(o, n) \/ Progresses(o, n) \/ Decides(o, n) \/ Parks(o, n) \/ Blocks(o, n)
  \/ Ends(o, n) \/ Lapses(o, n) \/ Noted(o, n)

\* One row moves at a time; what a turn gave up it stays without, and a queued runner starts
\* in its order.
RowMove(r) ==
  /\ Shape(row[r], row'[r])
  /\ row[r].detached => row'[r].detached
  /\ row[r].status = "queued" /\ row'[r].status = "running" => Available(r)

RowMoves ==
  /\ \A r \in Runners : RowMove(r)
  /\ \A q, r \in Runners : row'[q] # row[q] /\ row'[r] # row[r] => q = r

-----------------------------------------------------------------------------
(* How controls, effects and claims may move with the rows. *)

\* A control is asked for, consumed or rejected.
Asked(c) ==
  LET r == control'[c].runner IN
  /\ control[c].status = "none" /\ r \in Runners
  /\ ~row'[r].cancel /\ row'[r].status \in {"queued", "running"} \union Parked
  /\ \/ control'[c].action = "pause"
     \/ /\ control'[c].action = "resume" /\ control'[c].status = "accepted"
        /\ row'[r].resume = c /\ row'[r].status \in Parked

Answered(c) ==
  LET r == control[c].runner IN
  /\ control[c].status = "accepted" /\ control'[c].status \in {"consumed", "rejected"}
  /\ control'[c].runner = r /\ control'[c].action = control[c].action
  /\ control[c].action = "resume" => row'[r].resume = NoControl
  /\ control[c].action = "resume" /\ control'[c].status = "consumed" =>
       /\ row[r].status \in Parked /\ row'[r].status = "running"
       /\ control'[c].attempt = row'[r].attempt

ControlMoves ==
  \A c \in Controls : control'[c] = control[c] \/ Asked(c) \/ Answered(c)

\* A cancellation is asked for, or the runner ends.
Speaks(o, n) ==
  (n.cancel /\ ~o.cancel) \/ (n.status \in Terminal /\ o.status \notin Terminal)

Resumes(o, n) == o.status \in Parked /\ n.status = "running"

\* A cancellation or an end closes what is open; the pointer of the row moves with its control;
\* a parked runner goes on because a continuation was consumed or because it is continuous.
WordMove(r) ==
  /\ Speaks(row[r], row'[r]) =>
       \A c \in Controls : control[c].runner = r /\ control[c].status = "accepted"
                             => control'[c].status = "rejected"
  /\ \/ row'[r].resume = row[r].resume
     \/ row'[r].resume = NoControl
          /\ (row[r].resume # NoControl => control'[row[r].resume].status # "accepted")
     \/ row[r].resume = NoControl /\ row'[r].resume \in Controls
          /\ Asked(row'[r].resume) /\ control'[row'[r].resume].action = "resume"
          /\ control'[row'[r].resume].runner = r
  /\ Resumes(row[r], row'[r]) =>
       \/ /\ r \in Continuous /\ ~row[r].pause /\ ~row[r].held
          /\ UNCHANGED control
       \/ \E c \in Controls :
            /\ control[c].runner = r /\ control[c].action = "resume"
            /\ control[c].status = "accepted" /\ control'[c].status = "consumed"
            /\ \A b \in Controls \ {c} : control'[b] = control[b]

WordMoves == ControlMoves /\ \A r \in Runners : WordMove(r)

EffectMove(r) ==
  /\ \/ effect'[r] = effect[r] \/ effect'[r] = "known"
     \/ effect[r] = "known" /\ row[r].status = "running" /\ row'[r].status = "running"
     \/ effect[r] = "pending"
  /\ row[r].pending = "none" /\ row'[r].pending = "cancelled" =>
       CancelComplete(r) /\ effect'[r] = effect[r]

EffectMoves == \A r \in Runners : EffectMove(r)

Moves == RowMoves /\ WordMoves /\ EffectMoves
-----------------------------------------------------------------------------
(* The inductive invariant, in parts. *)

\* A runner that waits in the queue is as it was submitted.
QueuedFresh ==
  \A r \in Runners : row[r].status \in {"absent", "queued"} =>
    /\ row[r].attempt = 0 /\ ~row[r].cancel /\ row[r].pending = "none" /\ ~row[r].abandoned
    /\ effect[r] = "known"

\* What was decided is being recorded, or was.
DecidedEnds ==
  \A r \in Runners :
    /\ row[r].pending # "none" /\ row[r].status # "finalizing" =>
         \/ row[r].status = row[r].pending
         \/ row[r].abandoned /\ row[r].pending = "completed" /\ row[r].status = "failed"
    /\ row[r].abandoned => row[r].status \in Terminal

\* A cancellation is decided when the operation ended or nobody waits for it.
CancelledKnown ==
  \A r \in Runners :
    row[r].pending = "cancelled" \/ row[r].status = "cancelled"
      => effect[r] = "known" \/ row[r].detached

\* A control belongs to a runner, and what consumed it is an attempt that started.
ControlsKnown ==
  \A c \in Controls : control[c].status # "none" =>
    /\ control[c].runner \in Runners
    /\ control[c].action = "resume" /\ control[c].status = "consumed"
         => control[c].attempt <= row[control[c].runner].attempt

LifecycleInv ==
  /\ QueuedFresh /\ DecidedEnds /\ CancelledKnown /\ ControlsKnown
  /\ ResumePointer /\ NoControlLeftOpen /\ BlockedMarkerCurrent /\ NoReplay

-----------------------------------------------------------------------------
(* Steps by what they write. *)

\* Everything a step may do to the words about a runner, short of saying a new one.
Quiet(o, n) ==
  /\ n.cancel = o.cancel /\ n.resume = o.resume
  /\ ~Speaks(o, n) /\ ~Resumes(o, n)

LEMMA OneRow ==
  ASSUME TypeOK, NEW r \in Runners, NEW d, row' = [row EXCEPT ![r] = d]
  PROVE  \A q \in Runners : row'[q] = IF q = r THEN d ELSE row[q]
BY DEF TypeOK, RowTable

LEMMA OneRowMoves ==
  ASSUME TypeOK, NEW r \in Runners, NEW d, row' = [row EXCEPT ![r] = d],
         Shape(row[r], d), row[r].detached => d.detached,
         row[r].status = "queued" /\ d.status = "running" => Available(r)
  PROVE  RowMoves
<1>1. \A q \in Runners : row'[q] = IF q = r THEN d ELSE row[q]
  BY OneRow
<1>2. ASSUME NEW q \in Runners
      PROVE  RowMove(q)
  <2>1. CASE q = r
    BY <1>1, <2>1 DEF RowMove
  <2>2. CASE q # r
    BY <1>1, <2>2 DEF RowMove, Shape
  <2> QED BY <2>1, <2>2
<1> QED BY <1>1, <1>2 DEF RowMoves

LEMMA NoRowMoves ==
  ASSUME UNCHANGED row
  PROVE  RowMoves
BY DEF RowMoves, RowMove, Shape

\* A row nobody writes says what it said.
LEMMA SameRowWord ==
  ASSUME NEW r, row'[r] = row[r]
  PROVE  WordMove(r)
BY DEF WordMove, Speaks, Resumes, Parked

LEMMA QuietWords ==
  ASSUME TypeOK, UNCHANGED control,
         \A q \in Runners : row'[q] = row[q] \/ Quiet(row[q], row'[q])
  PROVE  WordMoves
<1>1. ControlMoves
  BY DEF ControlMoves
<1>2. ASSUME NEW q \in Runners
      PROVE  WordMove(q)
  <2>1. CASE row'[q] = row[q]
    BY <2>1, SameRowWord
  <2>2. CASE Quiet(row[q], row'[q])
    BY <2>2 DEF WordMove, Quiet
  <2> QED BY <2>1, <2>2
<1> QED BY <1>1, <1>2 DEF WordMoves

LEMMA SameEffects ==
  ASSUME UNCHANGED effect,
         \A q \in Runners :
           row[q].pending = "none" /\ row'[q].pending = "cancelled" => CancelComplete(q)
  PROVE  EffectMoves
BY DEF EffectMoves, EffectMove

\* One row moves and nothing is said.
LEMMA QuietStep ==
  ASSUME TypeOK, NEW r \in Runners, NEW d, row' = [row EXCEPT ![r] = d],
         Shape(row[r], d), row[r].detached => d.detached,
         row[r].status = "queued" /\ d.status = "running" => Available(r),
         Quiet(row[r], d), UNCHANGED <<control, effect>>,
         row[r].pending = "none" /\ d.pending = "cancelled" => CancelComplete(r)
  PROVE  Moves
<1>1. \A q \in Runners : row'[q] = IF q = r THEN d ELSE row[q]
  BY OneRow
<1>2. RowMoves
  BY OneRowMoves
<1>3. WordMoves
  BY <1>1, QuietWords
<1>4. EffectMoves
  BY <1>1, SameEffects
<1> QED BY <1>2, <1>3, <1>4 DEF Moves

\* One row moves with its controls.
LEMMA SpokenStep ==
  ASSUME TypeOK, NEW r \in Runners, NEW d, row' = [row EXCEPT ![r] = d],
         Shape(row[r], d), row[r].detached => d.detached,
         row[r].status = "queued" /\ d.status = "running" => Available(r),
         ControlMoves, WordMove(r), UNCHANGED effect, d.pending = row[r].pending
  PROVE  Moves
<1>1. \A q \in Runners : row'[q] = IF q = r THEN d ELSE row[q]
  BY OneRow
<1>2. RowMoves
  BY OneRowMoves
<1>3. \A q \in Runners : WordMove(q)
  BY <1>1, SameRowWord
<1>4. EffectMoves
  BY <1>1, SameEffects
<1> QED BY <1>2, <1>3, <1>4 DEF Moves, WordMoves

LEMMA MemoryMoves ==
  ASSUME TypeOK, UNCHANGED <<row, control, effect>>
  PROVE  Moves
<1>1. RowMoves
  BY NoRowMoves
<1>2. WordMoves
  BY QuietWords
<1>3. EffectMoves
  BY SameEffects
<1> QED BY <1>1, <1>2, <1>3 DEF Moves

\* close_pending_controls, in the update that ends the pointer.
LEMMA ClosedWord ==
  ASSUME TypeOK, ResumePointer, NEW r \in Runners, control' = ClosedControls(r),
         row'[r].resume = NoControl, ~Resumes(row[r], row'[r])
  PROVE  ControlMoves /\ WordMove(r)
<1>1. ASSUME NEW c \in Controls
      PROVE  control'[c] = IF control[c].runner = r /\ control[c].status = "accepted"
                           THEN [control[c] EXCEPT !.status = "rejected"] ELSE control[c]
  BY DEF ClosedControls
<1>2. ASSUME NEW c \in Controls
      PROVE  control[c] \in ControlType
  BY DEF TypeOK, ControlTable
<1>3. ASSUME NEW c \in Controls, control[c].runner = r, control[c].status = "accepted"
      PROVE  control'[c].status = "rejected" /\ Answered(c)
  <2>1. /\ control'[c].status = "rejected" /\ control'[c].runner = r
        /\ control'[c].action = control[c].action
    BY <1>1, <1>2, <1>3 DEF ControlType
  <2> QED BY <1>3, <2>1 DEF Answered
<1>4. ControlMoves
  BY <1>1, <1>3 DEF ControlMoves
<1>5. row[r].resume # NoControl => control'[row[r].resume].status # "accepted"
  <2>1. row[r].resume \in Controls \union {NoControl}
    BY RowTyped DEF RowType
  <2> QED BY <1>3, <2>1 DEF ResumePointer
<1>6. WordMove(r)
  BY <1>3, <1>5 DEF WordMove
<1> QED BY <1>4, <1>6

\* An acknowledged pause; the pointer does not move.
LEMMA PausedWord ==
  ASSUME TypeOK, NEW r \in Runners, control' = ConsumedPauses(r), Quiet(row[r], row'[r])
  PROVE  ControlMoves /\ WordMove(r)
<1>1. ASSUME NEW c \in Controls
      PROVE  control'[c] = control[c] \/ Answered(c)
  <2>1. control'[c] = IF /\ control[c].runner = r /\ control[c].status = "accepted"
                         /\ control[c].action = "pause"
                      THEN [control[c] EXCEPT !.status = "consumed", !.attempt = row[r].attempt]
                      ELSE control[c]
    BY DEF ConsumedPauses
  <2>2. control[c] \in ControlType
    BY DEF TypeOK, ControlTable
  <2>3. CASE control[c].runner = r /\ control[c].status = "accepted" /\ control[c].action = "pause"
    <3>1. /\ control'[c].status = "consumed" /\ control'[c].runner = r
          /\ control'[c].action = "pause"
      BY <2>1, <2>2, <2>3 DEF ControlType
    <3> QED BY <2>3, <3>1 DEF Answered
  <2> QED BY <2>1, <2>3
<1>2. WordMove(r)
  BY DEF WordMove, Quiet
<1> QED BY <1>1, <1>2 DEF ControlMoves

-----------------------------------------------------------------------------
(* Every step moves the tables in one of these ways. *)

LEMMA UserMoves ==
  ASSUME ConstantsAssumption, TypeOK, ResumePointer, User
  PROVE  Moves
<1>1. ASSUME NEW r \in Runners, Submit(r)
      PROVE  Moves
  <2> DEFINE d == [row[r] EXCEPT !.status = "queued"]
  <2>1. row[r] \in RowType
    BY RowTyped
  <2>2. row' = [row EXCEPT ![r] = d] /\ row[r].status = "absent" /\ UNCHANGED <<control, effect>>
    BY <1>1 DEF Submit
  <2>3. Enters(row[r], d) /\ d.detached = row[r].detached /\ d.status = "queued"
    BY <2>1, <2>2 DEF RowType, Enters, SameOwner, SameWord, SameIntent, SameHold
  <2>4. Quiet(row[r], d) /\ d.pending = row[r].pending
    BY <2>2, <2>3 DEF Enters, Quiet, Speaks, Resumes, SameWord, SameIntent, Terminal
  <2> QED BY <2>2, <2>3, <2>4, QuietStep DEF Shape
<1>2. ASSUME NEW r \in Runners, Cancel(r)
      PROVE  Moves
  <2> DEFINE status == IF row[r].status = "queued" THEN "cancelled" ELSE row[r].status
             revision == IF row[r].status = "queued" THEN row[r].revision + 1
                         ELSE row[r].revision
             d == [row[r] EXCEPT !.status = status, !.revision = revision, !.cancel = TRUE,
                                 !.controlRevision = @ + 1, !.pause = FALSE,
                                 !.resume = NoControl]
  <2>1. row[r] \in RowType
    BY RowTyped
  <2>2. row' = [row EXCEPT ![r] = d]
    BY <1>2 DEF Cancel, CancelRevision
  <2>3. /\ row[r].status = "queued" => status = "cancelled"
        /\ row[r].status # "queued" => status = row[r].status /\ revision = row[r].revision
        /\ row[r].status \in {"queued"} \union Parked \union Executing /\ ~row[r].cancel
    BY <1>2, <2>1 DEF Cancel, RowType, Statuses
  <2> HIDE DEF status, revision
  <2>4. /\ d.status = status /\ d.revision = revision /\ CancelAsked(d)
        /\ d.attempt = row[r].attempt /\ d.detached = row[r].detached
        /\ SameOwner(row[r], d) /\ SameIntent(row[r], d) /\ SameHold(row[r], d)
    BY <2>1 DEF RowType, CancelAsked, SameOwner, SameIntent, SameHold
  <2>5. Shape(row[r], d)
    <3>1. CASE row[r].status = "queued"
      BY <2>3, <2>4, <3>1 DEF Shape, Withdraws
    <3>2. CASE row[r].status # "queued"
      BY <2>3, <2>4, <3>2 DEF Shape, Commanded, SamePhase
    <3> QED BY <3>1, <3>2
  <2>6. d.status # "running" \/ d.status = row[r].status
    BY <2>3, <2>4
  <2>7. row'[r] = d
    BY <2>2 DEF TypeOK, RowTable
  <2>8. ~Resumes(row[r], d)
    BY <2>6 DEF Resumes, Parked
  <2>9. ControlMoves /\ WordMove(r)
    BY <1>2, <2>4, <2>7, <2>8, ClosedWord DEF Cancel, CancelAsked
  <2>10. UNCHANGED effect
    BY <1>2 DEF Cancel
  <2> QED BY <2>2, <2>4, <2>5, <2>6, <2>9, <2>10, SpokenStep DEF SameIntent
<1>3. ASSUME NEW r \in Runners, EndWaiting(r)
      PROVE  Moves
  <2> DEFINE d == [row[r] EXCEPT !.detached = TRUE, !.blocked = NoBlock, !.cancel = TRUE,
               !.pause = FALSE, !.resume = NoControl, !.revision = @ + 1,
               !.controlRevision = @ + 1]
  <2>1. row[r] \in RowType
    BY RowTyped
  <2>2. row' = [row EXCEPT ![r] = d] /\ row[r].status \in Parked
    BY <1>3 DEF EndWaiting
  <2>3. /\ d.status = row[r].status /\ d.attempt = row[r].attempt /\ CancelAsked(d)
        /\ d.detached /\ d.blocked = NoBlock
        /\ SameOwner(row[r], d) /\ SameIntent(row[r], d)
    BY <2>1 DEF RowType, CancelAsked, SameOwner, SameIntent
  <2>4. StopsWaiting(row[r], d)
    BY <2>2, <2>3 DEF StopsWaiting, SamePhase
  <2>5. row'[r] = d
    BY <2>2 DEF TypeOK, RowTable
  <2>6. ~Resumes(row[r], d) /\ d.status # "running"
    BY <2>2, <2>3 DEF Resumes, Parked
  <2>7. ControlMoves /\ WordMove(r)
    BY <1>3, <2>3, <2>5, <2>6, ClosedWord DEF EndWaiting, CancelAsked
  <2>8. UNCHANGED effect
    BY <1>3 DEF EndWaiting
  <2> QED BY <2>2, <2>3, <2>4, <2>6, <2>7, <2>8, SpokenStep DEF Shape, SameIntent
<1>4. ASSUME NEW r \in Runners, NEW c \in Controls, SubmitPause(r, c)
      PROVE  Moves
  <2> DEFINE d == [row[r] EXCEPT !.pause = TRUE, !.resume = NoControl, !.controlRevision = @ + 1]
             asked == [runner |-> r, action |-> "pause", attempt |-> 0,
                       status |-> IF row[r].status \in Parked THEN "consumed" ELSE "accepted"]
  <2>1. row[r] \in RowType
    BY RowTyped
  <2>2. /\ row' = [row EXCEPT ![r] = d] /\ control' = [Superseded(r) EXCEPT ![c] = asked]
        /\ row[r].status \in {"queued", "running"} \union Parked /\ ~row[r].cancel
        /\ control[c].status = "none" /\ UNCHANGED effect
    BY <1>4 DEF SubmitPause
  <2>3. /\ d.status = row[r].status /\ d.attempt = row[r].attempt /\ d.revision = row[r].revision
        /\ d.cancel = row[r].cancel /\ d.pause /\ d.resume = NoControl
        /\ d.detached = row[r].detached
        /\ SameOwner(row[r], d) /\ SameIntent(row[r], d) /\ SameHold(row[r], d)
    BY <2>1 DEF RowType, SameOwner, SameIntent, SameHold
  <2>4. Commanded(row[r], d)
    BY <2>2, <2>3 DEF Commanded, SamePhase, Parked, Executing
  <2>5. row'[r] = d
    BY <2>2 DEF TypeOK, RowTable
  <2>6. ASSUME NEW i \in Controls
        PROVE  /\ control[i] \in ControlType
               /\ control'[i] = IF i = c THEN asked
                                ELSE IF i = row[r].resume /\ control[i].status = "accepted"
                                THEN [control[i] EXCEPT !.status = "rejected"] ELSE control[i]
    BY <2>2 DEF Superseded, TypeOK, ControlTable
  <2>7. Asked(c)
    <3>1. asked.runner = r /\ asked.action = "pause"
      OBVIOUS
    <3>2. control'[c] = asked
      BY <2>6
    <3>3. control'[c].runner = r /\ control'[c].action = "pause"
      BY <3>1, <3>2
    <3> QED BY <2>2, <2>3, <2>5, <3>3 DEF Asked
  <2>8. ASSUME NEW i \in Controls, i = row[r].resume, control[i].status = "accepted"
        PROVE  control'[i].status = "rejected" /\ Answered(i)
    <3>1. i # c /\ i # NoControl
      BY <2>2, <2>8 DEF ConstantsAssumption
    <3>2. control'[i] = [control[i] EXCEPT !.status = "rejected"] /\ control[i] \in ControlType
      BY <2>6, <2>8, <3>1
    <3>3. /\ control'[i].status = "rejected" /\ control'[i].runner = control[i].runner
          /\ control'[i].action = control[i].action
      BY <3>2 DEF ControlType
    <3>4. control[i].runner = r
      BY <2>8, <3>1 DEF ResumePointer
    <3> QED BY <2>3, <2>5, <2>8, <3>3, <3>4, ZenonT(60) DEF Answered
  <2>9. ControlMoves
    BY <2>6, <2>7, <2>8 DEF ControlMoves
  <2>10. row[r].resume # NoControl => control'[row[r].resume].status # "accepted"
    <3>1. row[r].resume \in Controls \union {NoControl}
      BY <2>1 DEF RowType
    <3> QED BY <2>8, <3>1 DEF ResumePointer
  <2>11. ~Speaks(row[r], d) /\ ~Resumes(row[r], d)
    BY <2>2, <2>3 DEF Speaks, Resumes, Parked
  <2>12. WordMove(r)
    BY <2>3, <2>5, <2>10, <2>11 DEF WordMove
  <2> QED BY <2>2, <2>3, <2>4, <2>9, <2>12, SpokenStep DEF Shape, SameIntent
<1>5. ASSUME NEW r \in Runners, NEW c \in Controls, SubmitResume(r, c)
      PROVE  Moves
  <2> DEFINE d == [row[r] EXCEPT !.resume = c, !.controlRevision = @ + 1]
             asked == [runner |-> r, action |-> "resume", status |-> "accepted", attempt |-> 0]
  <2>1. row[r] \in RowType
    BY RowTyped
  <2>2. /\ row' = [row EXCEPT ![r] = d] /\ control' = [control EXCEPT ![c] = asked]
        /\ row[r].status \in Parked /\ ~row[r].cancel /\ row[r].resume = NoControl
        /\ control[c].status = "none" /\ UNCHANGED effect
    BY <1>5 DEF SubmitResume
  <2>3. /\ d.status = row[r].status /\ d.attempt = row[r].attempt /\ d.revision = row[r].revision
        /\ d.cancel = row[r].cancel /\ d.pause = row[r].pause /\ d.resume = c
        /\ d.detached = row[r].detached
        /\ SameOwner(row[r], d) /\ SameIntent(row[r], d) /\ SameHold(row[r], d)
    BY <2>1 DEF RowType, SameOwner, SameIntent, SameHold
  <2>4. Commanded(row[r], d)
    BY <2>2, <2>3 DEF Commanded, SamePhase
  <2>5. row'[r] = d
    BY <2>2 DEF TypeOK, RowTable
  <2>6. \A i \in Controls : control'[i] = IF i = c THEN asked ELSE control[i]
    BY <2>2 DEF TypeOK, ControlTable
  <2>7. /\ control'[c].runner = r /\ control'[c].action = "resume"
        /\ control'[c].status = "accepted"
    BY <2>6
  <2>8. Asked(c)
    BY <2>2, <2>3, <2>5, <2>7 DEF Asked
  <2>9. ControlMoves
    BY <2>6, <2>8 DEF ControlMoves
  <2>10. ~Speaks(row[r], d) /\ ~Resumes(row[r], d) /\ d.status # "running"
    BY <2>2, <2>3 DEF Speaks, Resumes, Parked
  <2>11. WordMove(r)
    BY <2>2, <2>3, <2>5, <2>7, <2>8, <2>10 DEF WordMove
  <2> QED BY <2>2, <2>3, <2>4, <2>9, <2>10, <2>11, SpokenStep DEF Shape, SameIntent
<1> QED BY <1>1, <1>2, <1>3, <1>4, <1>5 DEF User

LEMMA AcquireMoves ==
  ASSUME ConstantsAssumption, TypeOK, ResumePointer, NEW k \in Slots, Acquire(k)
  PROVE  Moves
<1>1. ASSUME NEW r \in Runners, AcquireQueued(r, k)
      PROVE  Moves
  <2> DEFINE d == [Started(r, k) EXCEPT !.status = "running"]
  <2>1. row[r] \in RowType
    BY RowTyped
  <2>2. /\ row' = [row EXCEPT ![r] = d] /\ row[r].status = "queued" /\ Available(r)
        /\ UNCHANGED <<control, effect>>
    BY <1>1 DEF AcquireQueued, Available
  <2>3. /\ d.status = "running" /\ d.attempt = row[r].attempt + 1
        /\ d.detached = row[r].detached
        /\ SameWord(row[r], d) /\ SameIntent(row[r], d) /\ SameHold(row[r], d)
    BY <2>1 DEF RowType, Started, SameWord, SameIntent, SameHold
  <2>4. Starts(row[r], d)
    BY <2>2, <2>3 DEF Starts, SameWord
  <2>5. Quiet(row[r], d) /\ d.pending = row[r].pending
    BY <2>2, <2>3 DEF Quiet, Speaks, Resumes, SameWord, SameIntent, Terminal, Parked
  <2> QED BY <2>2, <2>3, <2>4, <2>5, QuietStep DEF Shape
<1>2. ASSUME NEW r \in Runners, AcquireFinalizing(r, k)
      PROVE  Moves
  <2> DEFINE d == Started(r, k)
  <2>1. row[r] \in RowType
    BY RowTyped
  <2>2. /\ row' = [row EXCEPT ![r] = d] /\ row[r].status = "finalizing"
        /\ UNCHANGED <<control, effect>>
    BY <1>2 DEF AcquireFinalizing
  <2>3. /\ d.status = "finalizing" /\ d.attempt = row[r].attempt + 1
        /\ d.detached = row[r].detached
        /\ SameWord(row[r], d) /\ SameIntent(row[r], d) /\ SameHold(row[r], d)
    BY <2>1, <2>2 DEF RowType, Started, SameWord, SameIntent, SameHold
  <2>4. Starts(row[r], d)
    BY <2>2, <2>3 DEF Starts, SameWord
  <2>5. Quiet(row[r], d) /\ d.pending = row[r].pending
    BY <2>2, <2>3 DEF Quiet, Speaks, Resumes, SameWord, SameIntent, Terminal
  <2> QED BY <2>2, <2>3, <2>4, <2>5, QuietStep DEF Shape
<1>3. ASSUME NEW r \in Runners, AcquireCancelled(r, k)
      PROVE  Moves
  <2> DEFINE d == [Started(r, k) EXCEPT !.status = "finalizing", !.cancelOnly = TRUE,
                                            !.blocked = NoBlock]
  <2>1. row[r] \in RowType
    BY RowTyped
  <2>2. /\ row' = [row EXCEPT ![r] = d] /\ row[r].status \in Parked /\ row[r].cancel
        /\ UNCHANGED <<control, effect>>
    BY <1>3 DEF AcquireCancelled
  <2>3. /\ d.status = "finalizing" /\ d.attempt = row[r].attempt + 1
        /\ d.detached = row[r].detached /\ d.blocked = NoBlock
        /\ SameWord(row[r], d) /\ SameIntent(row[r], d)
    BY <2>1, <2>2 DEF RowType, Started, SameWord, SameIntent
  <2>4. Starts(row[r], d)
    BY <2>2, <2>3 DEF Starts, SameWord
  <2>5. Quiet(row[r], d) /\ d.pending = row[r].pending
    BY <2>2, <2>3 DEF Quiet, Speaks, Resumes, SameWord, SameIntent, Terminal
  <2> QED BY <2>2, <2>3, <2>4, <2>5, QuietStep DEF Shape
<1>4. ASSUME ClaimResume(k)
      PROVE  Moves
  <2>1. WorkerOf[k] \in Workers
    BY DEF ConstantsAssumption
  <2>2. PICK r \in Runners : r = prepared[WorkerOf[k]].runner
    BY <1>4, <2>1, PreparedCurrent DEF ClaimResume
  <2>3. PICK c \in Controls : c = prepared[WorkerOf[k]].control
    BY <1>4, <2>1, PreparedCurrent DEF ClaimResume, ResumeCurrent
  <2> DEFINE d == [Started(r, k) EXCEPT !.status = "running", !.pause = FALSE, !.resume = NoControl,
                                        !.controlRevision = @ + 1, !.held = FALSE]
             answer == [control[c] EXCEPT !.status = "consumed", !.attempt = d.attempt]
  <2>4. row[r] \in RowType /\ control[c] \in ControlType
    BY RowTyped DEF TypeOK, ControlTable
  <2>5. /\ row' = [row EXCEPT ![r] = d] /\ control' = [control EXCEPT ![c] = answer]
        /\ row[r].status \in Parked /\ ~row[r].cancel /\ row[r].pending = "none"
        /\ row[r].resume = c
        /\ control[c].runner = r /\ control[c].status = "accepted" /\ control[c].action = "resume"
        /\ UNCHANGED effect
    BY <1>4, <2>2, <2>3 DEF ClaimResume, ResumeCurrent
  <2>6. /\ d.status = "running" /\ d.attempt = row[r].attempt + 1
        /\ d.detached = row[r].detached /\ d.cancel = row[r].cancel
        /\ ~d.pause /\ d.resume = NoControl
        /\ SameIntent(row[r], d) /\ SameHold(row[r], d)
    BY <2>4 DEF RowType, Started, SameIntent, SameHold
  <2>7. answer.runner = r /\ answer.action = "resume" /\ answer.status = "consumed"
          /\ answer.attempt = d.attempt
    BY <2>4, <2>5 DEF ControlType
  <2>8. Starts(row[r], d)
    BY <2>5, <2>6 DEF Starts
  <2>9. row'[r] = d
    BY <2>5 DEF TypeOK, RowTable
  <2>10. \A i \in Controls : control'[i] = IF i = c THEN answer ELSE control[i]
    BY <2>5 DEF TypeOK, ControlTable
  <2> HIDE DEF d, answer
  <2>11. control'[c].status = "consumed" /\ Answered(c)
    BY <2>5, <2>6, <2>7, <2>9, <2>10 DEF Answered
  <2>12. ControlMoves
    BY <2>10, <2>11 DEF ControlMoves
  <2>13. ~Speaks(row[r], d)
    BY <2>6 DEF Speaks, Terminal
  <2>14. WordMove(r)
    <3>1. \E i \in Controls :
            /\ control[i].runner = r /\ control[i].action = "resume"
            /\ control[i].status = "accepted" /\ control'[i].status = "consumed"
            /\ \A b \in Controls \ {i} : control'[b] = control[b]
      BY <2>5, <2>10, <2>11
    <3>2. row[r].resume # NoControl => control'[row[r].resume].status # "accepted"
      BY <2>5, <2>11
    <3> QED BY <2>6, <2>9, <2>13, <3>1, <3>2 DEF WordMove
  <2> QED BY <2>5, <2>6, <2>8, <2>12, <2>14, SpokenStep DEF Shape, SameIntent, Parked
<1>5. ASSUME ClaimContinuous(k)
      PROVE  Moves
  <2>1. WorkerOf[k] \in Workers
    BY DEF ConstantsAssumption
  <2>2. PICK r \in Runners : r = prepared[WorkerOf[k]].runner
    BY <1>5, <2>1, PreparedCurrent DEF ClaimContinuous
  <2> DEFINE d == [Started(r, k) EXCEPT !.status = "running"]
  <2>3. row[r] \in RowType
    BY RowTyped
  <2>4. /\ row' = [row EXCEPT ![r] = d] /\ UNCHANGED <<control, effect>>
        /\ r \in Continuous /\ row[r].status \in Parked /\ row[r].status # "queued"
        /\ ~row[r].cancel /\ ~row[r].pause /\ row[r].resume = NoControl
        /\ row[r].pending = "none" /\ ~row[r].held
    BY <1>5, <2>2 DEF ClaimContinuous, ContinuousCurrent, ContinuousCandidate, Parked
  <2>5. /\ d.status = "running" /\ d.attempt = row[r].attempt + 1
        /\ d.detached = row[r].detached
        /\ SameWord(row[r], d) /\ SameIntent(row[r], d) /\ SameHold(row[r], d)
    BY <2>3 DEF RowType, Started, SameWord, SameIntent, SameHold
  <2>6. Starts(row[r], d)
    BY <2>4, <2>5 DEF Starts, SameWord
  <2>7. row'[r] = d
    BY <2>4 DEF TypeOK, RowTable
  <2> HIDE DEF d
  <2>8. ControlMoves
    BY <2>4 DEF ControlMoves
  <2>9. ~Speaks(row[r], d)
    BY <2>5 DEF Speaks, SameWord, Terminal
  <2>10. WordMove(r)
    BY <2>4, <2>5, <2>7, <2>9 DEF WordMove, SameWord
  <2> QED BY <2>4, <2>5, <2>6, <2>8, <2>10, SpokenStep DEF Shape, SameIntent
<1> QED BY <1>1, <1>2, <1>3, <1>4, <1>5 DEF Acquire

LEMMA ScanMoves ==
  ASSUME ConstantsAssumption, TypeOK, ResumePointer, NEW w \in Workers, Scan(w)
  PROVE  Moves
<1>1. ASSUME NEW permanent \in BOOLEAN, DeferContinuous(w, permanent)
      PROVE  Moves
  <2>1. PICK r \in Runners : r = prepared[w].runner
    BY <1>1, PreparedCurrent DEF DeferContinuous
  <2> DEFINE d == [row[r] EXCEPT !.held = permanent, !.revision = @ + 1]
  <2>2. row[r] \in RowType
    BY RowTyped
  <2>3. /\ row' = [row EXCEPT ![r] = d] /\ UNCHANGED <<control, effect>>
        /\ row[r].status \in Parked /\ ~row[r].cancel
    BY <1>1, <2>1 DEF DeferContinuous, ContinuousCurrent, ContinuousCandidate, Parked
  <2>4. /\ SamePhase(row[r], d) /\ SameOwner(row[r], d) /\ SameWord(row[r], d)
        /\ SameIntent(row[r], d) /\ SameHold(row[r], d)
        /\ d.revision = row[r].revision + 1 /\ d.detached = row[r].detached
    BY <2>2 DEF RowType, SamePhase, SameOwner, SameWord, SameIntent, SameHold
  <2>5. Noted(row[r], d)
    BY <2>3, <2>4 DEF Noted, SameHold
  <2>6. Quiet(row[r], d) /\ d.pending = row[r].pending /\ d.status # "running"
    BY <2>3, <2>4 DEF Quiet, Speaks, Resumes, SamePhase, SameWord, SameIntent, Parked
  <2> QED BY <2>3, <2>4, <2>5, <2>6, QuietStep DEF Shape
<1>2. ASSUME RejectResume(w)
      PROVE  Moves
  <2>1. PICK r \in Runners : r = prepared[w].runner
    BY <1>2, PreparedCurrent DEF RejectResume
  <2>2. PICK c \in Controls : c = prepared[w].control
    BY <1>2, PreparedCurrent DEF RejectResume, ResumeCurrent
  <2> DEFINE d == [row[r] EXCEPT !.resume = NoControl, !.controlRevision = @ + 1]
             answer == [control[c] EXCEPT !.status = "rejected"]
  <2>3. row[r] \in RowType /\ control[c] \in ControlType
    BY RowTyped DEF TypeOK, ControlTable
  <2>4. /\ row' = [row EXCEPT ![r] = d] /\ control' = [control EXCEPT ![c] = answer]
        /\ row[r].status \in Parked /\ ~row[r].cancel /\ row[r].resume = c
        /\ control[c].runner = r /\ control[c].status = "accepted"
        /\ UNCHANGED effect
    BY <1>2, <2>1, <2>2 DEF RejectResume, ResumeCurrent
  <2>5. /\ SamePhase(row[r], d) /\ SameOwner(row[r], d) /\ SameIntent(row[r], d)
        /\ SameHold(row[r], d) /\ d.revision = row[r].revision /\ d.detached = row[r].detached
        /\ d.cancel = row[r].cancel /\ d.pause = row[r].pause /\ d.resume = NoControl
    BY <2>3 DEF RowType, SamePhase, SameOwner, SameIntent, SameHold
  <2>6. answer.runner = r /\ answer.action = control[c].action /\ answer.status = "rejected"
    BY <2>3, <2>4 DEF ControlType
  <2>7. Commanded(row[r], d)
    BY <2>4, <2>5 DEF Commanded
  <2>8. row'[r] = d
    BY <2>4 DEF TypeOK, RowTable
  <2>9. \A i \in Controls : control'[i] = IF i = c THEN answer ELSE control[i]
    BY <2>4 DEF TypeOK, ControlTable
  <2> HIDE DEF d, answer
  <2>10. control'[c].status = "rejected" /\ Answered(c)
    BY <2>4, <2>5, <2>6, <2>8, <2>9 DEF Answered
  <2>11. ControlMoves
    BY <2>9, <2>10 DEF ControlMoves
  <2>12. ~Speaks(row[r], d) /\ ~Resumes(row[r], d) /\ d.status # "running"
    BY <2>4, <2>5 DEF Speaks, Resumes, SamePhase, Parked
  <2>13. WordMove(r)
    BY <2>4, <2>5, <2>8, <2>10, <2>12 DEF WordMove
  <2> QED BY <2>4, <2>5, <2>7, <2>11, <2>12, <2>13, SpokenStep DEF Shape, SameIntent
<1>3. ASSUME UNCHANGED <<row, control, effect>>
      PROVE  Moves
  BY <1>3, MemoryMoves
<1> QED BY <1>1, <1>2, <1>3 DEF Scan, PrepareResume, PrepareContinuous, DropPrepared

\* A running attempt is released, and no control moves.
LEMMA ParkMoves ==
  ASSUME TypeOK, NEW r \in Runners, row[r].status = "running", NEW status \in Parked,
         row' = [row EXCEPT ![r] = Released(r, status)], UNCHANGED <<control, effect>>
  PROVE  Moves
<1> DEFINE d == Released(r, status)
<1>1. row[r] \in RowType
  BY RowTyped
<1>2. /\ d.status = status /\ GivenUp(row[r], d) /\ d.detached = row[r].detached
      /\ SameWord(row[r], d) /\ SameIntent(row[r], d) /\ SameHold(row[r], d)
  BY <1>1 DEF RowType, Released, GivenUp, SameWord, SameIntent, SameHold
<1>3. Parks(row[r], d)
  BY <1>2 DEF Parks
<1>4. Quiet(row[r], d) /\ d.pending = row[r].pending /\ d.status # "running"
  BY <1>2 DEF Quiet, Speaks, Resumes, SameWord, SameIntent, Terminal, Parked
<1> QED BY <1>2, <1>3, <1>4, QuietStep DEF Shape

\* The owner writes what the fields below do not name.
LEMMA ProgressMoves ==
  ASSUME TypeOK, NEW r \in Runners, row[r].status \in Executing, NEW d,
         row' = [row EXCEPT ![r] = d], UNCHANGED control, EffectMoves,
         SamePhase(row[r], d), SameOwner(row[r], d), SameWord(row[r], d),
         SameIntent(row[r], d), SameHold(row[r], d), row[r].detached => d.detached
  PROVE  Moves
<1>1. \A q \in Runners : row'[q] = IF q = r THEN d ELSE row[q]
  BY OneRow
<1>2. Shape(row[r], d)
  BY DEF Shape, Progresses
<1>3. Quiet(row[r], d)
  BY DEF Quiet, Speaks, Resumes, SamePhase, SameWord, Executing, Parked
<1>4. RowMoves
  BY <1>2, OneRowMoves DEF SamePhase, Executing
<1>5. WordMoves
  BY <1>1, <1>3, QuietWords
<1> QED BY <1>4, <1>5 DEF Moves

LEMMA StageMoves ==
  ASSUME TypeOK, NEW k \in Slots, NEW result \in Terminal, Stage(k, result),
         result = "cancelled" => CancelComplete(task[k].runner)
  PROVE  Moves
<1>1. PICK r \in Runners : r = task[k].runner
  BY OwnerTyped DEF Stage
<1> DEFINE d == [row[r] EXCEPT !.status = "finalizing", !.pending = result, !.revision = @ + 1]
<1>2. row[r] \in RowType
  BY RowTyped
<1>3. /\ row' = [row EXCEPT ![r] = d] /\ row[r].status \in Executing /\ row[r].pending = "none"
      /\ UNCHANGED <<control, effect>>
  BY <1>1 DEF Stage, Owns
<1>4. /\ d.status = "finalizing" /\ d.pending = result /\ d.attempt = row[r].attempt
      /\ d.abandoned = row[r].abandoned /\ d.detached = row[r].detached
      /\ SameOwner(row[r], d) /\ SameWord(row[r], d) /\ SameHold(row[r], d)
  BY <1>2 DEF RowType, SameOwner, SameWord, SameHold
<1>5. Decides(row[r], d)
  BY <1>3, <1>4 DEF Decides
<1>6. Quiet(row[r], d)
  BY <1>4 DEF Quiet, Speaks, Resumes, SameWord, Terminal
<1> QED BY <1>1, <1>3, <1>4, <1>5, <1>6, QuietStep DEF Shape

LEMMA ExecuteMoves ==
  ASSUME ConstantsAssumption, TypeOK, ResumePointer, NEW k \in Slots, Execute(k)
  PROVE  Moves
<1>1. CASE Checkpoint(k)
  <2>1. PICK r \in Runners : r = task[k].runner
    BY <1>1, OwnerTyped DEF Checkpoint
  <2> DEFINE d == [row[r] EXCEPT !.revision = @ + 1]
  <2>2. row[r] \in RowType
    BY RowTyped
  <2>3. row' = [row EXCEPT ![r] = d] /\ row[r].status \in Executing
    BY <1>1, <2>1 DEF Checkpoint, Executing
  <2>4. /\ SamePhase(row[r], d) /\ SameOwner(row[r], d) /\ SameWord(row[r], d)
        /\ SameIntent(row[r], d) /\ SameHold(row[r], d) /\ d.detached = row[r].detached
    BY <2>2 DEF RowType, SamePhase, SameOwner, SameWord, SameIntent, SameHold
  <2>5. \A q \in Runners : row'[q] = IF q = r THEN d ELSE row[q]
    BY <2>3 DEF TypeOK, RowTable
  <2> HIDE DEF d
  <2>6. EffectMoves
    BY <1>1, <2>4, <2>5, SameEffects DEF Checkpoint, SameIntent
  <2> QED BY <1>1, <2>3, <2>4, <2>6, ProgressMoves DEF Checkpoint
<1>2. CASE Dispatch(k)
  <2>1. PICK r \in Runners : r = task[k].runner
    BY <1>2, OwnerTyped DEF Dispatch
  <2> DEFINE d == [row[r] EXCEPT !.revision = @ + 1]
  <2>2. row[r] \in RowType
    BY RowTyped
  <2>3. /\ row' = [row EXCEPT ![r] = d] /\ effect' = [effect EXCEPT ![r] = "pending"]
        /\ row[r].status = "running" /\ effect[r] = "known" /\ UNCHANGED control
    BY <1>2, <2>1 DEF Dispatch
  <2>4. /\ SamePhase(row[r], d) /\ SameOwner(row[r], d) /\ SameWord(row[r], d)
        /\ SameIntent(row[r], d) /\ SameHold(row[r], d) /\ d.detached = row[r].detached
    BY <2>2 DEF RowType, SamePhase, SameOwner, SameWord, SameIntent, SameHold
  <2>5. \A q \in Runners : row'[q] = IF q = r THEN d ELSE row[q]
    BY <2>3 DEF TypeOK, RowTable
  <2> HIDE DEF d
  <2>6. \A q \in Runners : effect'[q] = IF q = r THEN "pending" ELSE effect[q]
    BY <2>3 DEF TypeOK
  <2>7. ASSUME NEW q \in Runners
        PROVE  EffectMove(q)
    BY <2>3, <2>4, <2>5, <2>6 DEF EffectMove, SamePhase, SameIntent
  <2> QED BY <2>3, <2>4, <2>7, ProgressMoves DEF EffectMoves, Executing
<1>3. CASE DetachWait(k)
  <2>1. PICK r \in Runners : r = task[k].runner
    BY <1>3, OwnerTyped DEF DetachWait
  <2> DEFINE d == [row[r] EXCEPT !.detached = TRUE, !.revision = @ + 1]
  <2>2. row[r] \in RowType
    BY RowTyped
  <2>3. row' = [row EXCEPT ![r] = d] /\ row[r].status \in Executing
    BY <1>3, <2>1 DEF DetachWait, Owns
  <2>4. /\ SamePhase(row[r], d) /\ SameOwner(row[r], d) /\ SameWord(row[r], d)
        /\ SameIntent(row[r], d) /\ SameHold(row[r], d) /\ d.detached
    BY <2>2 DEF RowType, SamePhase, SameOwner, SameWord, SameIntent, SameHold
  <2>5. \A q \in Runners : row'[q] = IF q = r THEN d ELSE row[q]
    BY <2>3 DEF TypeOK, RowTable
  <2> HIDE DEF d
  <2>6. EffectMoves
    BY <1>3, <2>4, <2>5, SameEffects DEF DetachWait, SameIntent
  <2> QED BY <1>3, <2>3, <2>4, <2>6, ProgressMoves DEF DetachWait
<1>4. CASE ParkWaiting(k)
  BY <1>4, OwnerTyped, ParkMoves DEF ParkWaiting, Parked
<1>5. CASE ParkPaused(k) \/ AcknowledgePause(k)
  <2>1. PICK r \in Runners : r = task[k].runner
    BY <1>5, OwnerTyped DEF ParkPaused, AcknowledgePause
  <2> DEFINE d == Released(r, "paused")
  <2>2. row[r] \in RowType
    BY RowTyped
  <2>3. row' = [row EXCEPT ![r] = d] /\ row[r].status = "running" /\ UNCHANGED effect
    BY <1>5, <2>1 DEF ParkPaused, AcknowledgePause
  <2>4. /\ d.status = "paused" /\ GivenUp(row[r], d) /\ d.detached = row[r].detached
        /\ SameWord(row[r], d) /\ SameIntent(row[r], d) /\ SameHold(row[r], d)
    BY <2>2 DEF RowType, Released, GivenUp, SameWord, SameIntent, SameHold
  <2>5. Parks(row[r], d)
    BY <2>3, <2>4 DEF Parks, Parked
  <2>6. row'[r] = d
    BY <2>3 DEF TypeOK, RowTable
  <2> HIDE DEF d
  <2>7. Quiet(row[r], row'[r])
    BY <2>4, <2>6 DEF Quiet, Speaks, Resumes, SameWord, Terminal
  <2>8. row'[r].resume = NoControl
    BY <2>3, <2>4, <2>6 DEF ResumePointer, SameWord, Parked
  <2>9. \/ control' = ClosedControls(r) \/ control' = ConsumedPauses(r) \/ control' = control
    BY <1>5, <2>1 DEF ParkPaused, AcknowledgePause
  <2>10. ControlMoves /\ WordMove(r)
    <3>1. CASE control' = ClosedControls(r)
      BY <2>7, <2>8, <3>1, ClosedWord DEF Quiet
    <3>2. CASE control' = ConsumedPauses(r)
      BY <2>7, <3>2, PausedWord
    <3>3. CASE control' = control
      BY <2>7, <3>3 DEF ControlMoves, WordMove, Quiet
    <3> QED BY <2>9, <3>1, <3>2, <3>3
  <2> QED BY <2>3, <2>4, <2>5, <2>10, SpokenStep DEF Shape, SameIntent
<1>6. CASE StageResult(k)
  BY <1>6, StageMoves DEF StageResult, Terminal
<1>7. CASE StageCancelled(k)
  BY <1>7, StageMoves DEF StageCancelled, Terminal
<1>8. CASE BlockCancel(k)
  <2>1. PICK r \in Runners : r = task[k].runner
    BY <1>8, OwnerTyped DEF BlockCancel
  <2> DEFINE e == Released(r, "waiting")
             d == [e EXCEPT !.cancelOnly = TRUE,
                            !.blocked = [attempt |-> e.attempt, revision |-> e.revision,
                                         ready |-> FALSE]]
  <2>2. row[r] \in RowType
    BY RowTyped
  <2>3. /\ row' = [row EXCEPT ![r] = d] /\ row[r].status \in Executing
        /\ row[r].cancel /\ row[r].pending = "none" /\ UNCHANGED <<control, effect>>
    BY <1>8, <2>1 DEF BlockCancel, BlockMarker, Owns
  <2>4. /\ e \in RowType /\ e.status = "waiting" /\ GivenUp(row[r], e)
        /\ e.detached = row[r].detached /\ SameWord(row[r], e) /\ SameIntent(row[r], e)
    <3>1. "waiting" \in Statuses
      BY DEF Statuses, Parked
    <3>2. e \in RowType
      BY <3>1, ReleasedType
    <3> QED BY <2>2, <3>2 DEF RowType, Released, GivenUp, SameWord, SameIntent
  <2> HIDE DEF e
  <2>5. /\ d.status = "waiting" /\ d.detached = row[r].detached /\ d.cancelOnly
        /\ d.blocked = [attempt |-> d.attempt, revision |-> d.revision, ready |-> FALSE]
        /\ d.attempt = e.attempt /\ d.revision = e.revision
        /\ d.worker = e.worker /\ d.lease = e.lease
        /\ SameWord(e, d) /\ SameIntent(e, d)
    BY <2>4 DEF RowType, SameWord, SameIntent
  <2> HIDE DEF d
  <2>6. GivenUp(row[r], d) /\ SameWord(row[r], d) /\ SameIntent(row[r], d)
    BY <2>4, <2>5 DEF GivenUp, SameWord, SameIntent
  <2>7. Blocks(row[r], d)
    BY <2>3, <2>5, <2>6 DEF Blocks
  <2>8. Quiet(row[r], d) /\ d.pending = row[r].pending /\ d.status # "running"
    BY <2>5, <2>6 DEF Quiet, Speaks, Resumes, SameWord, SameIntent, Terminal
  <2> QED BY <2>3, <2>5, <2>7, <2>8, QuietStep DEF Shape
<1>9. CASE Finalize(k)
  <2>1. PICK r \in Runners : r = task[k].runner
    BY <1>9, OwnerTyped DEF Finalize
  <2> DEFINE e == Released(r, row[r].pending)
             d == [e EXCEPT !.pause = FALSE, !.resume = NoControl]
  <2>2. row[r] \in RowType
    BY RowTyped
  <2>3. /\ row' = [row EXCEPT ![r] = d] /\ row[r].status = "finalizing"
        /\ row[r].pending # "none" /\ control' = ClosedControls(r) /\ UNCHANGED effect
    BY <1>9, <2>1 DEF Finalize, Verdict
  <2>4. /\ d.status = row[r].pending /\ d.attempt = row[r].attempt /\ d.cancel = row[r].cancel
        /\ ~d.pause /\ d.resume = NoControl /\ d.detached = row[r].detached
        /\ SameIntent(row[r], d) /\ SameHold(row[r], d)
    BY <2>2 DEF RowType, Released, SameIntent, SameHold
  <2>5. row'[r] = d
    BY <2>3 DEF TypeOK, RowTable
  <2> HIDE DEF d
  <2>6. Ends(row[r], d)
    BY <2>3, <2>4 DEF Ends, SameIntent
  <2>7. ~Resumes(row[r], d)
    BY <2>3 DEF Resumes, Parked
  <2>8. ControlMoves /\ WordMove(r)
    BY <2>3, <2>4, <2>5, <2>7, ClosedWord
  <2> QED BY <2>3, <2>4, <2>6, <2>8, SpokenStep DEF Shape, SameIntent
<1>10. ASSUME UNCHANGED <<row, control, effect>>
       PROVE  Moves
  BY <1>10, MemoryMoves
<1> QED BY <1>1, <1>2, <1>3, <1>4, <1>5, <1>6, <1>7, <1>8, <1>9, <1>10
        DEF Execute, Heartbeat, DispatchRefused, CancelUnconfirmed

LEMMA RecoverMoves ==
  ASSUME ConstantsAssumption, TypeOK, ResumePointer, NEW k \in Slots, Recover(k)
  PROVE  Moves
<1>1. CASE AcknowledgeRefused(k)
  BY <1>1, OwnerTyped, ParkMoves DEF AcknowledgeRefused, Parked
<1>2. CASE FailInterrupt(k)
  BY <1>2, OwnerTyped, ParkMoves DEF FailInterrupt, Parked
<1>3. CASE FailStage(k)
  BY <1>3, StageMoves DEF FailStage, Terminal
<1>4. CASE FinalizeRetry(k)
  <2>1. PICK r \in Runners : r = task[k].runner
    BY <1>4, OwnerTyped DEF FinalizeRetry
  <2> DEFINE d == [row[r] EXCEPT !.failures = @ + 1, !.revision = @ + 1]
  <2>2. row[r] \in RowType
    BY RowTyped
  <2>3. row' = [row EXCEPT ![r] = d] /\ row[r].status \in Executing
    BY <1>4, <2>1 DEF FinalizeRetry, Executing
  <2>4. /\ SamePhase(row[r], d) /\ SameOwner(row[r], d) /\ SameWord(row[r], d)
        /\ SameIntent(row[r], d) /\ SameHold(row[r], d) /\ d.detached = row[r].detached
    BY <2>2 DEF RowType, SamePhase, SameOwner, SameWord, SameIntent, SameHold
  <2>5. \A q \in Runners : row'[q] = IF q = r THEN d ELSE row[q]
    BY <2>3 DEF TypeOK, RowTable
  <2> HIDE DEF d
  <2>6. EffectMoves
    BY <1>4, <2>4, <2>5, SameEffects DEF FinalizeRetry, SameIntent
  <2> QED BY <1>4, <2>3, <2>4, <2>6, ProgressMoves DEF FinalizeRetry
<1>5. CASE Abandon(k)
  <2>1. PICK r \in Runners : r = task[k].runner
    BY <1>5, OwnerTyped DEF Abandon
  <2> DEFINE status == IF row[r].pending = "cancelled" THEN "cancelled" ELSE "failed"
             e == Released(r, status)
             d == [e EXCEPT !.pause = FALSE, !.resume = NoControl, !.abandoned = TRUE]
  <2>2. row[r] \in RowType
    BY RowTyped
  <2>3. /\ row' = [row EXCEPT ![r] = d] /\ row[r].status = "finalizing"
        /\ control' = ClosedControls(r) /\ UNCHANGED effect
    BY <1>5, <2>1 DEF Abandon, AbandonStatus
  <2> HIDE DEF status
  <2>4. /\ d.status = status /\ d.attempt = row[r].attempt /\ d.cancel = row[r].cancel
        /\ ~d.pause /\ d.resume = NoControl /\ d.detached = row[r].detached
        /\ d.pending = row[r].pending /\ d.abandoned /\ SameHold(row[r], d)
    BY <2>2 DEF RowType, Released, SameHold
  <2>5. row'[r] = d
    BY <2>3 DEF TypeOK, RowTable
  <2> HIDE DEF d
  <2>6. Ends(row[r], d)
    BY <2>3, <2>4 DEF Ends, status
  <2>7. ~Resumes(row[r], d) /\ row[r].status # "queued"
    BY <2>3 DEF Resumes, Parked
  <2>8. ControlMoves /\ WordMove(r)
    BY <2>3, <2>4, <2>5, <2>7, ClosedWord
  <2> QED BY <2>3, <2>4, <2>6, <2>7, <2>8, SpokenStep DEF Shape
<1>6. ASSUME UNCHANGED <<row, control, effect>>
      PROVE  Moves
  BY <1>6, MemoryMoves
<1> QED BY <1>1, <1>2, <1>3, <1>4, <1>5, <1>6 DEF Recover, LoseLease, GiveUp

\* The lease of a runner runs out.
LEMMA LapseMoves ==
  ASSUME TypeOK, NEW r \in Runners, row[r].lease = "live",
         row' = [row EXCEPT ![r] = [row[r] EXCEPT !.lease = "expired"]],
         UNCHANGED <<control, effect>>
  PROVE  Moves
<1> DEFINE d == [row[r] EXCEPT !.lease = "expired"]
<1>1. row[r] \in RowType
  BY RowTyped
<1>2. /\ d.lease = "expired" /\ d.worker = row[r].worker /\ d.revision = row[r].revision
      /\ SamePhase(row[r], d) /\ SameWord(row[r], d) /\ SameIntent(row[r], d)
      /\ SameHold(row[r], d) /\ d.detached = row[r].detached
  BY <1>1 DEF RowType, SamePhase, SameWord, SameIntent, SameHold
<1>3. Lapses(row[r], d)
  BY <1>2 DEF Lapses
<1>4. Quiet(row[r], d) /\ d.pending = row[r].pending /\ d.status = row[r].status
  BY <1>2 DEF Quiet, Speaks, Resumes, SamePhase, SameWord, SameIntent, Parked
<1> QED BY <1>2, <1>3, <1>4, QuietStep DEF Shape

LEMMA SweepMoves ==
  ASSUME ConstantsAssumption, TypeOK, ResumePointer, NEW r \in Runners, Sweep(r)
  PROVE  Moves
<1>1. CASE ExpireLease(r)
  BY <1>1, LapseMoves DEF ExpireLease
<1>2. CASE ReapExpired(r)
  BY <1>2, ParkMoves DEF ReapExpired, Parked
<1>3. CASE ReleaseReady(r)
  <2> DEFINE b == [row[r].blocked EXCEPT !.ready = TRUE, !.revision = row[r].revision + 1]
             d == [row[r] EXCEPT !.blocked = b, !.revision = @ + 1]
  <2>1. row[r] \in RowType
    BY RowTyped
  <2>2. /\ row' = [row EXCEPT ![r] = d] /\ row[r].status = "waiting" /\ row[r].cancel
        /\ row[r].worker = NoWorker /\ row[r].lease = "none"
        /\ row[r].pending = "none" /\ row[r].cancelOnly
        /\ row[r].blocked.attempt = row[r].attempt
        /\ UNCHANGED <<control, effect>>
    BY <1>3 DEF ReleaseReady
  <2>3. b.attempt = row[r].attempt /\ b.revision = row[r].revision + 1
    <3>1. row[r].blocked \in [attempt : Nat, revision : Nat, ready : BOOLEAN]
      BY <2>1 DEF RowType
    <3> QED BY <2>2, <3>1
  <2> HIDE DEF b
  <2>4. /\ SamePhase(row[r], d) /\ SameOwner(row[r], d) /\ SameWord(row[r], d)
        /\ SameIntent(row[r], d) /\ d.cancelOnly = row[r].cancelOnly /\ d.blocked = b
        /\ d.revision = row[r].revision + 1 /\ d.detached = row[r].detached
    BY <2>1 DEF RowType, SamePhase, SameOwner, SameWord, SameIntent
  <2>5. Noted(row[r], d)
    BY <2>2, <2>3, <2>4 DEF Noted, Parked
  <2>6. Quiet(row[r], d) /\ d.pending = row[r].pending /\ d.status # "running"
    BY <2>2, <2>4 DEF Quiet, Speaks, Resumes, SamePhase, SameWord, SameIntent
  <2> QED BY <2>2, <2>4, <2>5, <2>6, QuietStep DEF Shape
<1>4. CASE EffectKnown(r) \/ EffectLost(r)
  <2>1. EffectMoves
    BY <1>4 DEF EffectKnown, EffectLost, EffectMoves, EffectMove, TypeOK
  <2>2. UNCHANGED <<row, control>>
    BY <1>4 DEF EffectKnown, EffectLost
  <2> QED BY <2>1, <2>2, NoRowMoves, QuietWords DEF Moves
<1> QED BY <1>1, <1>2, <1>3, <1>4 DEF Sweep

LEMMA FaultMoves ==
  ASSUME ConstantsAssumption, TypeOK, ResumePointer, Fault
  PROVE  Moves
<1>1. ASSUME NEW k \in Slots, Stall(k)
      PROVE  Moves
  BY <1>1, OwnerTyped, LapseMoves DEF Stall, Owns
<1>2. ASSUME UNCHANGED <<row, control, effect>>
      PROVE  Moves
  BY <1>2, MemoryMoves
<1> QED BY <1>1, <1>2 DEF Fault, Raise, Crash

LEMMA MovesNext ==
  ASSUME ConstantsAssumption, TypeOK, ResumePointer, [Next]_vars
  PROVE  Moves
<1>1. CASE UNCHANGED vars
  BY <1>1, MemoryMoves DEF vars
<1>2. CASE Next
  BY <1>2, UserMoves, AcquireMoves, ScanMoves, ExecuteMoves, RecoverMoves, SweepMoves, FaultMoves
     DEF Next
<1> QED BY <1>1, <1>2

-----------------------------------------------------------------------------
(* What the moves preserve. *)

LEMMA LifecycleInit ==
  ASSUME ConstantsAssumption, Init
  PROVE  LifecycleInv
<1>1. QueuedFresh /\ DecidedEnds /\ CancelledKnown /\ ControlsKnown
  BY DEF Init, NewRow, NewControl, QueuedFresh, DecidedEnds, CancelledKnown, ControlsKnown, Terminal
<1>2. ResumePointer /\ NoControlLeftOpen /\ BlockedMarkerCurrent /\ NoReplay
  BY DEF Init, NewRow, NewControl, ResumePointer, NoControlLeftOpen, BlockedMarkerCurrent, NoReplay,
         Terminal
<1> QED BY <1>1, <1>2 DEF LifecycleInv

\* A runner that enters or waits in the queue has not been touched by an attempt.
LEMMA QueuedFreshNext ==
  ASSUME TypeOK, QueuedFresh, Moves
  PROVE  QueuedFresh'
<1>1. ASSUME NEW r \in Runners, row'[r].status \in {"absent", "queued"}
      PROVE  /\ row'[r].attempt = 0 /\ ~row'[r].cancel /\ row'[r].pending = "none"
             /\ ~row'[r].abandoned /\ effect'[r] = "known"
  <2>1. /\ Shape(row[r], row'[r]) /\ EffectMove(r)
        /\ row[r].pending \in Terminal \union {"none"}
    BY RowTyped DEF Moves, RowMoves, RowMove, EffectMoves, RowType
  <2>2. /\ row[r].status \in {"absent", "queued"} /\ row'[r].attempt = row[r].attempt
        /\ ~row'[r].cancel /\ SameIntent(row[r], row'[r])
    <3>1. ~Ends(row[r], row'[r])
      BY <1>1, <2>1 DEF Ends, Terminal
    <3>2. CASE row'[r] = row[r] \/ Enters(row[r], row'[r]) \/ Lapses(row[r], row'[r])
      BY <1>1, <3>2 DEF QueuedFresh, Enters, Lapses, SamePhase, SameWord, SameIntent
    <3>3. CASE Commanded(row[r], row'[r])
      BY <1>1, <3>3 DEF Commanded, SamePhase, CancelAsked, Parked, Executing
    <3> QED BY <1>1, <2>1, <3>1, <3>2, <3>3 DEF Shape, Withdraws, StopsWaiting, Starts,
      Progresses, Decides, Parks, Blocks, Noted, SamePhase, Parked, Executing
  <2>3. effect[r] = "known" /\ row[r].status # "running"
    BY <2>2 DEF QueuedFresh
  <2> QED BY <2>1, <2>2, <2>3 DEF QueuedFresh, SameIntent, EffectMove
<1> QED BY <1>1 DEF QueuedFresh

LEMMA DecidedEndsNext ==
  ASSUME TypeOK, DecidedEnds, QueuedFresh, Moves
  PROVE  DecidedEnds'
<1>1. ASSUME NEW r \in Runners
      PROVE  /\ row'[r].pending # "none" /\ row'[r].status # "finalizing" =>
                  \/ row'[r].status = row'[r].pending
                  \/ /\ row'[r].abandoned /\ row'[r].pending = "completed"
                     /\ row'[r].status = "failed"
             /\ row'[r].abandoned => row'[r].status \in Terminal
  <2>1. Shape(row[r], row'[r])
    BY DEF Moves, RowMoves, RowMove
  <2>2. row[r] \in RowType
    BY RowTyped
  <2>3. /\ row[r].pending # "none" => row[r].status \in Terminal \union {"finalizing"}
        /\ row[r].pending \in Terminal \union {"none"}
    BY <2>2 DEF DecidedEnds, RowType, Terminal
  <2>4. CASE Ends(row[r], row'[r])
    BY <2>3, <2>4 DEF Ends, DecidedEnds, Terminal
  <2>5. CASE ~Ends(row[r], row'[r])
    BY <2>1, <2>3, <2>5 DEF DecidedEnds, QueuedFresh, Shape, Enters, Withdraws, Commanded,
       StopsWaiting, Starts, Progresses, Decides, Parks, Blocks, Lapses, Noted, SamePhase,
       SameIntent, Parked, Executing, Terminal
  <2> QED BY <2>4, <2>5
<1> QED BY <1>1 DEF DecidedEnds

\* A decided cancellation stands on a fact that stays: nothing is dispatched any more.
LEMMA CancelledKnownNext ==
  ASSUME TypeOK, CancelledKnown, DecidedEnds, QueuedFresh, Moves
  PROVE  CancelledKnown'
<1>1. ASSUME NEW r \in Runners, row'[r].pending = "cancelled" \/ row'[r].status = "cancelled"
      PROVE  effect'[r] = "known" \/ row'[r].detached
  <2>1. /\ Shape(row[r], row'[r]) /\ (row[r].detached => row'[r].detached)
        /\ row[r].pending \in Terminal \union {"none"}
        /\ EffectMove(r)
    BY RowTyped DEF Moves, RowMoves, RowMove, EffectMoves, RowType
  <2>2. CASE row[r].pending = "none" /\ row'[r].pending = "cancelled"
    BY <2>1, <2>2 DEF EffectMove, CancelComplete
  <2>3. CASE row[r].pending = "cancelled" \/ row[r].status = "cancelled"
    <3>1. row[r].status # "running"
      BY <2>3 DEF DecidedEnds
    <3>2. effect[r] = "known" \/ row[r].detached
      BY <2>3 DEF CancelledKnown
    <3> QED BY <2>1, <3>1, <3>2 DEF EffectMove
  <2>4. CASE Withdraws(row[r], row'[r])
    <3>1. effect[r] = "known" /\ row[r].status # "running"
      BY <2>4 DEF Withdraws, QueuedFresh
    <3> QED BY <2>1, <3>1 DEF EffectMove
  <2>5. CASE Ends(row[r], row'[r]) /\ row[r].pending # "cancelled"
    BY <1>1, <2>5 DEF Ends
  <2>6. CASE row[r].pending = row'[r].pending /\ row[r].status # "cancelled"
    BY <1>1, <2>1, <2>3, <2>4, <2>5, <2>6 DEF Shape, Enters, Commanded, StopsWaiting, Starts,
       Progresses, Decides, Parks, Blocks, Lapses, Noted, SamePhase, Parked, Executing
  <2>7. row[r].pending = row'[r].pending \/ row[r].pending = "none"
    BY <2>1 DEF Shape, Enters, Withdraws, Commanded, StopsWaiting, Starts, Progresses, Decides,
       Parks, Blocks, Ends, Lapses, Noted, SameIntent
  <2>8. row[r].pending = "none" /\ row'[r].pending # "none" => Decides(row[r], row'[r])
    BY <2>1 DEF Shape, Enters, Withdraws, Commanded, StopsWaiting, Starts, Progresses,
       Parks, Blocks, Ends, Lapses, Noted, SameIntent
  <2> QED BY <1>1, <2>2, <2>3, <2>6, <2>7, <2>8 DEF Decides
<1> QED BY <1>1 DEF CancelledKnown

\* Attempt numbers grow, so what consumed a control started before or starts now.
LEMMA AttemptMoves ==
  ASSUME TypeOK, Moves, NEW r \in Runners
  PROVE  /\ row[r].attempt \in Nat
         /\ row'[r].attempt \in {row[r].attempt, row[r].attempt + 1}
<1>1. Shape(row[r], row'[r])
  BY DEF Moves, RowMoves, RowMove
<1>2. row[r].attempt \in Nat
  BY RowTyped DEF RowType
<1> QED BY <1>1, <1>2 DEF Shape, Enters, Withdraws, Commanded, StopsWaiting, Starts, Progresses,
  Decides, Parks, Blocks, Ends, Lapses, Noted, SamePhase, GivenUp

LEMMA ControlsKnownNext ==
  ASSUME TypeOK, ControlsKnown, Moves
  PROVE  ControlsKnown'
<1>1. ASSUME NEW c \in Controls, control'[c].status # "none"
      PROVE  /\ control'[c].runner \in Runners
             /\ control'[c].action = "resume" /\ control'[c].status = "consumed"
                  => control'[c].attempt <= row'[control'[c].runner].attempt
  <2>1. control[c] \in ControlType
    BY DEF TypeOK, ControlTable
  <2>2. control'[c] = control[c] \/ Asked(c) \/ Answered(c)
    BY DEF Moves, WordMoves, ControlMoves
  <2>3. CASE control'[c] = control[c]
    <3>1. control[c].runner \in Runners /\ control[c].attempt \in Nat
      BY <1>1, <2>1, <2>3 DEF ControlsKnown, ControlType
    <3> QED BY <1>1, <2>3, <3>1, AttemptMoves DEF ControlsKnown
  <2>4. CASE Asked(c)
    BY <2>4 DEF Asked
  <2>5. CASE Answered(c)
    <3>1. control[c].runner \in Runners /\ control'[c].runner = control[c].runner
      BY <2>5 DEF Answered, ControlsKnown
    <3>2. row'[control[c].runner].attempt \in Nat
      BY <3>1, AttemptMoves
    <3> QED BY <2>5, <3>1, <3>2 DEF Answered
  <2> QED BY <2>2, <2>3, <2>4, <2>5
<1> QED BY <1>1 DEF ControlsKnown

\* What a step does to a parked runner with a continuation that stays pending.
LEMMA PointerKept ==
  ASSUME NEW o, NEW n, Shape(o, n), o.status \in Parked, ~o.cancel, n.resume # NoControl
  PROVE  n.status \in Parked /\ ~n.cancel
BY DEF Shape, Enters, Withdraws, Commanded, StopsWaiting, Starts, Progresses, Decides,
       Parks, Blocks, Ends, Lapses, Noted, SamePhase, SameWord, CancelAsked, Parked, Executing

LEMMA ResumePointerNext ==
  ASSUME ConstantsAssumption, TypeOK, ResumePointer, ControlsKnown, Moves
  PROVE  ResumePointer'
<1>1. ASSUME NEW r \in Runners, row'[r].resume # NoControl
      PROVE  /\ row'[r].status \in Parked /\ ~row'[r].cancel
             /\ control'[row'[r].resume].runner = r
             /\ control'[row'[r].resume].status = "accepted"
             /\ control'[row'[r].resume].action = "resume"
  <2>1. Shape(row[r], row'[r]) /\ WordMove(r) /\ ControlMoves
    BY DEF Moves, RowMoves, RowMove, WordMoves
  <2>2. CASE row'[r].resume = row[r].resume
    <3>1. row[r].resume \in Controls
      BY <1>1, <2>2, RowTyped DEF RowType
    <3> DEFINE c == row[r].resume
    <3>2. /\ row[r].status \in Parked /\ ~row[r].cancel /\ control[c].runner = r
          /\ control[c].status = "accepted" /\ control[c].action = "resume"
      BY <1>1, <2>2 DEF ResumePointer
    <3>3. control'[c] = control[c]
      BY <1>1, <2>1, <3>1, <3>2 DEF ControlMoves, Asked, Answered
    <3>4. row'[r].status \in Parked /\ ~row'[r].cancel
      BY <1>1, <2>1, <3>2, PointerKept
    <3> QED BY <2>2, <3>2, <3>3, <3>4
  <2>3. CASE row[r].resume = NoControl /\ row'[r].resume \in Controls
    <3>1. /\ Asked(row'[r].resume) /\ control'[row'[r].resume].action = "resume"
          /\ control'[row'[r].resume].runner = r
      BY <1>1, <2>1, <2>3 DEF WordMove
    <3> QED BY <3>1 DEF Asked
  <2> QED BY <1>1, <2>1, <2>2, <2>3 DEF WordMove
<1>2. ASSUME NEW c \in Controls, control'[c].status = "accepted", control'[c].action = "resume"
      PROVE  row'[control'[c].runner].resume = c
  <2>1. CASE control'[c] = control[c]
    <3>1. PICK r \in Runners : r = control[c].runner
      BY <1>2, <2>1 DEF ControlsKnown
    <3>2. row[r].resume = c /\ c # NoControl
      BY <1>2, <2>1, <3>1 DEF ResumePointer, ConstantsAssumption
    <3>3. WordMove(r)
      BY DEF Moves, WordMoves
    <3> QED BY <1>2, <2>1, <3>1, <3>2, <3>3 DEF WordMove
  <2>2. CASE Asked(c)
    BY <1>2, <2>2 DEF Asked
  <2>3. CASE Answered(c)
    BY <1>2, <2>3 DEF Answered
  <2> QED BY <2>1, <2>2, <2>3 DEF Moves, WordMoves, ControlMoves
<1> QED BY <1>1, <1>2 DEF ResumePointer

Over(o) == o.cancel \/ o.status \in Terminal

\* What a step leaves in the row of a runner that is cancelled or over by then.
LEMMA OverMoves ==
  ASSUME NEW o, NEW n, Shape(o, n), Over(n), o.status \in {"absent", "queued"} => ~o.cancel,
         Over(o) => o.resume = NoControl /\ ~o.pause
  PROVE  n.resume = NoControl /\ ~n.pause
<1>1. CASE Over(o)
  <2>1. o.resume = NoControl /\ ~o.pause
    BY <1>1
  <2> QED BY <1>1, <2>1 DEF Over, Shape, Enters, Withdraws, Commanded, StopsWaiting, Starts,
    Progresses, Decides, Parks, Blocks, Ends, Lapses, Noted, SamePhase, SameWord, CancelAsked,
    Parked, Executing, Terminal
<1>2. CASE ~Over(o)
  BY <1>2 DEF Over, Shape, Enters, Withdraws, Commanded, StopsWaiting, Starts,
    Progresses, Decides, Parks, Blocks, Ends, Lapses, Noted, SamePhase, SameWord, CancelAsked,
    Parked, Executing, Terminal
<1> QED BY <1>1, <1>2

LEMMA NoControlLeftOpenNext ==
  ASSUME TypeOK, NoControlLeftOpen, QueuedFresh, ControlsKnown, Moves
  PROVE  NoControlLeftOpen'
<1>1. ASSUME NEW r \in Runners, row'[r].cancel \/ row'[r].status \in Terminal
      PROVE  row'[r].resume = NoControl /\ ~row'[r].pause
  <2>1. Shape(row[r], row'[r])
    BY DEF Moves, RowMoves, RowMove
  <2> QED BY <1>1, <2>1, OverMoves DEF Over, QueuedFresh, NoControlLeftOpen
<1>2. ASSUME NEW r \in Runners, row'[r].cancel \/ row'[r].status \in Terminal,
             NEW c \in Controls, control'[c].runner = r
      PROVE  control'[c].status # "accepted"
  <2>1. CASE control'[c] = control[c]
    <3>1. CASE Over(row[r])
      BY <1>2, <2>1, <3>1 DEF Over, NoControlLeftOpen
    <3>2. CASE ~Over(row[r])
      <4>1. Speaks(row[r], row'[r])
        BY <1>2, <3>2 DEF Over, Speaks
      <4>2. WordMove(r)
        BY DEF Moves, WordMoves
      <4> QED BY <1>2, <2>1, <4>1, <4>2 DEF WordMove
    <3> QED BY <3>1, <3>2
  <2>2. CASE Asked(c)
    BY <1>2, <2>2 DEF Asked, Parked, Terminal
  <2>3. CASE Answered(c)
    BY <2>3 DEF Answered
  <2> QED BY <2>1, <2>2, <2>3 DEF Moves, WordMoves, ControlMoves
<1> QED BY <1>1, <1>2 DEF NoControlLeftOpen

\* The marker of a blocked cancellation is written, moved and cleared with its row.
Marked(o) ==
  o.blocked # NoBlock =>
    /\ o.status = "waiting" /\ o.cancel /\ o.cancelOnly
    /\ o.pending = "none" /\ o.worker = NoWorker /\ o.lease = "none"
    /\ o.blocked.attempt = o.attempt /\ o.blocked.revision = o.revision

LEMMA MarkMoves ==
  ASSUME NEW o, NEW n, Shape(o, n), Marked(o)
  PROVE  Marked(n)
<1>1. CASE n = o \/ Enters(o, n) \/ Withdraws(o, n) \/ Commanded(o, n) \/ StopsWaiting(o, n)
  BY <1>1 DEF Marked, Enters, Withdraws, Commanded, StopsWaiting, SameHold
<1>2. CASE Starts(o, n)
  BY <1>2 DEF Marked, Starts, SameHold
<1>3. CASE Progresses(o, n) \/ Decides(o, n) \/ Parks(o, n) \/ Ends(o, n) \/ Lapses(o, n)
  BY <1>3 DEF Marked, Progresses, Decides, Parks, Ends, Lapses, SameHold, Executing
<1>4. CASE Blocks(o, n)
  BY <1>4 DEF Marked, Blocks, GivenUp, SameWord, SameIntent
<1>5. CASE Noted(o, n)
  BY <1>5 DEF Marked, Noted, SamePhase, SameOwner, SameWord, SameIntent
<1> QED BY <1>1, <1>2, <1>3, <1>4, <1>5 DEF Shape

LEMMA BlockedMarkerNext ==
  ASSUME BlockedMarkerCurrent, Moves
  PROVE  BlockedMarkerCurrent'
<1>1. ASSUME NEW r \in Runners
      PROVE  Marked(row'[r])
  BY MarkMoves DEF Moves, RowMoves, RowMove, BlockedMarkerCurrent, Marked
<1> QED BY <1>1 DEF BlockedMarkerCurrent, Marked

\* A runner runs because it ran, or because an attempt starts now.
LEMMA RunningMoves ==
  ASSUME NEW o, NEW n, Shape(o, n), n.status = "running",
         o.pending \in Terminal \union {"none"}
  PROVE  \/ o.status = "running" /\ n.attempt = o.attempt
         \/ o.status = "queued" /\ n.attempt = o.attempt + 1
         \/ o.status \in Parked /\ ~o.cancel /\ n.attempt = o.attempt + 1
<1>1. ~Ends(o, n)
  BY DEF Ends, Terminal
<1> QED BY <1>1 DEF Shape, Enters, Withdraws, Commanded, StopsWaiting, Starts, Progresses,
    Decides, Parks, Blocks, Lapses, Noted, SamePhase, Parked, Executing, Terminal

\* The continuations an attempt of a runner started from.
Answers(r, attempt) ==
  {c \in Controls : /\ control[c].runner = r /\ control[c].action = "resume"
                    /\ control[c].status = "consumed" /\ control[c].attempt = attempt}

LEMMA NoReplayNext ==
  ASSUME ConstantsAssumption, TypeOK, NoReplay, QueuedFresh, ControlsKnown, Moves
  PROVE  NoReplay'
<1>1. ASSUME NEW r \in Runners, row'[r].status = "running", row'[r].attempt > 1, r \notin Continuous
      PROVE  Cardinality({c \in Controls : /\ control'[c].runner = r
                                            /\ control'[c].action = "resume"
                                            /\ control'[c].status = "consumed"
                                            /\ control'[c].attempt = row'[r].attempt}) = 1
  <2> DEFINE n == row'[r].attempt
             before == Answers(r, n)
             after == {c \in Controls : /\ control'[c].runner = r /\ control'[c].action = "resume"
                                        /\ control'[c].status = "consumed"
                                        /\ control'[c].attempt = n}
  <2> SUFFICES Cardinality(after) = 1
    OBVIOUS
  <2>1. /\ Shape(row[r], row'[r]) /\ WordMove(r) /\ ControlMoves
        /\ row[r].pending \in Terminal \union {"none"}
    BY RowTyped DEF Moves, RowMoves, RowMove, WordMoves, RowType
  <2>2. row[r].attempt \in Nat
    BY AttemptMoves
  <2>3. ASSUME NEW c \in Controls, control'[c] # control[c], control'[c].runner = r,
               control'[c].action = "resume", control'[c].status = "consumed"
        PROVE  Resumes(row[r], row'[r]) /\ control'[c].attempt = n
    BY <2>1, <2>3 DEF ControlMoves, Asked, Answered, Resumes
  <2>4. CASE row[r].status = "running" /\ n = row[r].attempt
    <3>1. \A c \in Controls : c \in after <=> c \in before
      BY <2>1, <2>3, <2>4 DEF ControlMoves, Asked, Answered, Resumes, Answers, Parked
    <3>2. after = before
      BY <3>1 DEF Answers
    <3>3. Cardinality(before) = 1
      BY <1>1, <2>4 DEF NoReplay, Answers
    <3> HIDE DEF after, before
    <3> QED BY <3>2, <3>3
  <2>5. CASE row[r].status = "queued" /\ n = row[r].attempt + 1
    <3>1. row[r].attempt = 0
      BY <2>5 DEF QueuedFresh
    <3>2. ~(n > 1)
      BY <2>5, <3>1
    <3> QED BY <1>1, <3>2
  <2>6. CASE row[r].status \in Parked /\ n = row[r].attempt + 1
    <3>1. PICK c \in Controls :
            /\ control[c].runner = r /\ control[c].action = "resume"
            /\ control[c].status = "accepted" /\ control'[c].status = "consumed"
            /\ \A b \in Controls \ {c} : control'[b] = control[b]
      BY <1>1, <2>1, <2>6 DEF WordMove, Resumes
    <3>2. Answered(c)
      BY <2>1, <3>1 DEF ControlMoves, Asked
    <3>3. c \in after
      BY <3>1, <3>2 DEF Answered
    <3>4. ASSUME NEW b \in Controls \ {c}
          PROVE  b \notin after
      <4>1. control[b] \in ControlType
        BY DEF TypeOK, ControlTable
      <4>2. control[b].attempt \in Nat
        BY <4>1 DEF ControlType
      <4> QED BY <2>2, <2>6, <3>1, <4>2 DEF ControlsKnown
    <3>5. after = {c}
      BY <3>3, <3>4
    <3> QED BY <3>5, FS_Singleton
  <2> QED BY <1>1, <2>1, <2>4, <2>5, <2>6, RunningMoves
<1> QED BY <1>1 DEF NoReplay

LEMMA LifecycleNext ==
  ASSUME ConstantsAssumption, TypeOK, LifecycleInv, [Next]_vars
  PROVE  LifecycleInv'
<1>1. Moves
  BY MovesNext DEF LifecycleInv
<1>2. QueuedFresh' /\ DecidedEnds' /\ CancelledKnown' /\ ControlsKnown'
  BY <1>1, QueuedFreshNext, DecidedEndsNext, CancelledKnownNext, ControlsKnownNext DEF LifecycleInv
<1>3. ResumePointer' /\ NoControlLeftOpen' /\ BlockedMarkerCurrent' /\ NoReplay'
  BY <1>1, ResumePointerNext, NoControlLeftOpenNext, BlockedMarkerNext, NoReplayNext
     DEF LifecycleInv
<1> QED BY <1>2, <1>3 DEF LifecycleInv

-----------------------------------------------------------------------------
(* The theorems about states. *)

\* The inductive invariant holds in every reachable state, and with it each of its parts.
THEOREM LifecycleCorrect == Spec => []LifecycleInv
<1>1. Init => TypeOK /\ LifecycleInv
  BY ConstantsAssumption, TypeInit, LifecycleInit
<1>2. TypeOK /\ LifecycleInv /\ [Next]_vars => (TypeOK /\ LifecycleInv)'
  BY ConstantsAssumption, TypeNext, LifecycleNext
<1> QED BY <1>1, <1>2, PTL DEF Spec

\* The row of a runner and the accepted continuation it points to never part, whatever pauses,
\* cancellations, claims and refusals cross.
THEOREM PointerCorrect == Spec => []ResumePointer
<1>1. LifecycleInv => ResumePointer
  BY DEF LifecycleInv
<1> QED BY <1>1, LifecycleCorrect, PTL

\* No accepted control outlives the cancellation or the end of its runner.
THEOREM ControlsAnswered == Spec => []NoControlLeftOpen
<1>1. LifecycleInv => NoControlLeftOpen
  BY DEF LifecycleInv
<1> QED BY <1>1, LifecycleCorrect, PTL

\* A cancellation that waits for an effect can be released: its marker names its row.
THEOREM MarkerCorrect == Spec => []BlockedMarkerCurrent
<1>1. LifecycleInv => BlockedMarkerCurrent
  BY DEF LifecycleInv
<1> QED BY <1>1, LifecycleCorrect, PTL

\* An attempt after the first was asked for by exactly one continuation of the user, or the
\* runner was accepted as continuous: the service never replays a crashed attempt itself.
THEOREM ReplayCorrect == Spec => []NoReplay
<1>1. LifecycleInv => NoReplay
  BY DEF LifecycleInv
<1> QED BY <1>1, LifecycleCorrect, PTL

\* 'cancelled' is announced only of an operation that ended, or that the turn stopped waiting for.
THEOREM CancellationCorrect == Spec => []CancelledMeansStopped
<1>1. LifecycleInv => CancelledMeansStopped
  BY DEF LifecycleInv, CancelledKnown, CancelledMeansStopped
<1> QED BY <1>1, LifecycleCorrect, PTL

-----------------------------------------------------------------------------
(* The theorems about steps. *)

\* What was decided stands, and a row that ended never changes its status or attempt again.
LEMMA IntentMoves ==
  ASSUME TypeOK, LifecycleInv, DecidedEnds', Moves, NEW r \in Runners
  PROVE  /\ row[r].pending # "none" =>
              /\ row'[r].pending = row[r].pending
              /\ \/ row'[r].status \in {"finalizing", row[r].pending}
                 \/ /\ row'[r].abandoned /\ row[r].pending = "completed"
                    /\ row'[r].status = "failed"
         /\ row[r].status \in Terminal =>
              row'[r].status = row[r].status /\ row'[r].attempt = row[r].attempt
<1>1. Shape(row[r], row'[r])
  BY DEF Moves, RowMoves, RowMove
<1>2. row[r].pending # "none" => row'[r].pending = row[r].pending
  BY <1>1 DEF Shape, Enters, Withdraws, Commanded, StopsWaiting, Starts, Progresses, Decides,
     Parks, Blocks, Ends, Lapses, Noted, SameIntent
<1>3. row[r].status \in Terminal =>
        row'[r].status = row[r].status /\ row'[r].attempt = row[r].attempt
  BY <1>1 DEF Shape, Enters, Withdraws, Commanded, StopsWaiting, Starts, Progresses, Decides,
     Parks, Blocks, Ends, Lapses, Noted, SamePhase, Terminal, Parked, Executing
<1> QED BY <1>2, <1>3 DEF DecidedEnds

\* A committed terminal intent is never replaced and decides the terminal status, whatever the
\* flags of the row say by then; only an abandoned 'completed' becomes 'failed'.
THEOREM IntentCorrect == Spec => IntentDecides
<1> DEFINE Stands ==
      \A r \in Runners :
        /\ row[r].pending # "none" =>
             /\ row'[r].pending = row[r].pending
             /\ row'[r].status \in {"finalizing", row[r].pending}
                   \/ (row'[r].abandoned /\ row[r].pending = "completed"
                         /\ row'[r].status = "failed")
        /\ row[r].status \in Terminal =>
             row'[r].status = row[r].status /\ row'[r].attempt = row[r].attempt
<1>1. TypeOK /\ LifecycleInv /\ [Next]_vars => [Stands]_vars
  <2>1. ASSUME TypeOK, LifecycleInv, [Next]_vars
        PROVE  Stands
    <3>1. Moves
      BY <2>1, ConstantsAssumption, MovesNext DEF LifecycleInv
    <3>2. DecidedEnds'
      BY <2>1, ConstantsAssumption, LifecycleNext DEF LifecycleInv
    <3> QED BY <2>1, <3>1, <3>2, IntentMoves
  <2> QED BY <2>1
<1> HIDE DEF Stands
<1>2. Spec => [][Stands]_vars
  BY <1>1, TypeCorrect, LifecycleCorrect, PTL DEF Spec
<1> QED BY <1>2 DEF IntentDecides, Stands

LEMMA CommandMoves ==
  ASSUME TypeOK, LifecycleInv, Moves, NEW r \in Runners,
         row[r].status # "running", row'[r].status = "running"
  PROVE  /\ ~row[r].cancel
         /\ row[r].status \in Parked /\ (row[r].pause \/ row[r].held) =>
              \E c \in Controls : /\ control[c].runner = r /\ control[c].action = "resume"
                                  /\ control[c].status = "accepted"
                                  /\ control'[c].status = "consumed"
<1>1. /\ Shape(row[r], row'[r]) /\ WordMove(r)
      /\ row[r].pending \in Terminal \union {"none"}
  BY RowTyped DEF Moves, RowMoves, RowMove, WordMoves, RowType
<1>2. row[r].status = "queued" \/ (row[r].status \in Parked /\ ~row[r].cancel)
  BY <1>1, RunningMoves
<1>3. ~row[r].cancel
  BY <1>2 DEF LifecycleInv, QueuedFresh
<1> QED BY <1>1, <1>3 DEF WordMove, Resumes

\* A cancelled runner never starts again; one that was paused or held by a refusal goes on only
\* with the user's next continuation, although a worker may have prepared one before.
THEOREM CommandCorrect == Spec => CommandHolds
<1> DEFINE Obeys ==
      \A r \in Runners : row[r].status # "running" /\ row'[r].status = "running" =>
        /\ ~row[r].cancel
        /\ row[r].status \in Parked /\ (row[r].pause \/ row[r].held) =>
             \E c \in Controls : /\ control[c].runner = r /\ control[c].action = "resume"
                                 /\ control[c].status = "accepted"
                                 /\ control'[c].status = "consumed"
<1>1. TypeOK /\ LifecycleInv /\ [Next]_vars => [Obeys]_vars
  <2>1. ASSUME TypeOK, LifecycleInv, [Next]_vars
        PROVE  Obeys
    <3>1. Moves
      BY <2>1, ConstantsAssumption, MovesNext DEF LifecycleInv
    <3> QED BY <2>1, <3>1, CommandMoves
  <2> QED BY <2>1
<1> HIDE DEF Obeys
<1>2. Spec => [][Obeys]_vars
  BY <1>1, TypeCorrect, LifecycleCorrect, PTL DEF Spec
<1> QED BY <1>2 DEF CommandHolds, Obeys

-----------------------------------------------------------------------------
(* AgentRunner implements SessionTurns. *)

\* What turnPhase and turnVerdict say of one row.
PhaseOf(o) ==
  CASE o.status = "absent" -> "new"
    [] o.status = "queued" -> "waiting"
    [] o.status \in Terminal -> "closed"
    [] OTHER -> "open"
VerdictOf(o) == IF o.status \in Terminal THEN o.status ELSE o.pending

Ongoing == Parked \union Executing

LEMMA PhaseCases ==
  ASSUME NEW o, o.status \in Statuses
  PROVE  /\ o.status = "absent" => PhaseOf(o) = "new"
         /\ o.status = "queued" => PhaseOf(o) = "waiting"
         /\ o.status \in Ongoing => PhaseOf(o) = "open"
         /\ o.status \in Terminal => PhaseOf(o) = "closed"
         /\ PhaseOf(o) = "open" => o.status \in Ongoing
         /\ PhaseOf(o) = "waiting" => o.status = "queued"
BY DEF PhaseOf, Statuses, Ongoing, Parked, Executing, Terminal

\* A row that moves is a turn that enters, is withdrawn, opens, is decided, closes or stutters.
TurnMove(o, n) ==
  \/ PhaseOf(n) = PhaseOf(o) /\ VerdictOf(n) = VerdictOf(o)
  \/ PhaseOf(o) = "new" /\ PhaseOf(n) = "waiting" /\ VerdictOf(n) = VerdictOf(o)
  \/ PhaseOf(o) = "waiting" /\ PhaseOf(n) = "closed" /\ VerdictOf(n) = "cancelled"
  \/ /\ PhaseOf(o) = "waiting" /\ PhaseOf(n) = "open" /\ VerdictOf(n) = VerdictOf(o)
     /\ o.status = "queued" /\ n.status = "running"
  \/ /\ PhaseOf(o) = "open" /\ PhaseOf(n) = "open"
     /\ VerdictOf(o) = "none" /\ VerdictOf(n) \in Terminal
  \/ /\ PhaseOf(o) = "open" /\ PhaseOf(n) = "closed"
     /\ \/ VerdictOf(o) # "none" /\ VerdictOf(n) = VerdictOf(o)
        \/ VerdictOf(o) \in {"none", "completed"} /\ VerdictOf(n) = "failed"

LEMMA TurnMoves ==
  ASSUME NEW o \in RowType, NEW n \in RowType, Shape(o, n)
  PROVE  TurnMove(o, n)
<1> USE PhaseCases DEF TurnMove
<1>1. o.status \in Statuses /\ n.status \in Statuses /\ o.pending \in Terminal \union {"none"}
  BY DEF RowType
<1>2. CASE n = o
  BY <1>2
<1>3. CASE Enters(o, n)
  BY <1>1, <1>3 DEF Enters, SameIntent, VerdictOf, Terminal
<1>4. CASE Withdraws(o, n)
  BY <1>1, <1>4 DEF Withdraws, VerdictOf, Terminal
<1>5. CASE \/ Commanded(o, n) \/ StopsWaiting(o, n) \/ Lapses(o, n) \/ Noted(o, n)
           \/ Progresses(o, n)
  <2>1. SamePhase(o, n) /\ SameIntent(o, n)
    BY <1>5 DEF Commanded, StopsWaiting, Lapses, Noted, Progresses
  <2> QED BY <2>1 DEF SamePhase, SameIntent, PhaseOf, VerdictOf
<1>6. CASE Starts(o, n) /\ o.status = "queued"
  BY <1>1, <1>6 DEF Starts, SameIntent, VerdictOf, Terminal, Ongoing, Executing, Parked
<1>7. CASE (Starts(o, n) /\ o.status # "queued") \/ Parks(o, n) \/ Blocks(o, n)
  <2>1. o.status \in Ongoing /\ n.status \in Ongoing /\ SameIntent(o, n)
    BY <1>7 DEF Starts, Parks, Blocks, Ongoing, Executing, Parked
  <2> QED BY <1>1, <2>1 DEF SameIntent, VerdictOf, Terminal, Ongoing, Executing, Parked
<1>8. CASE Decides(o, n)
  BY <1>1, <1>8 DEF Decides, VerdictOf, Terminal, Ongoing, Executing
<1>9. CASE Ends(o, n)
  <2>1. n.status \in Terminal /\ o.status = "finalizing"
    BY <1>1, <1>9 DEF Ends, Terminal
  <2>2. VerdictOf(n) = n.status /\ VerdictOf(o) = o.pending
    BY <2>1 DEF VerdictOf, Terminal
  <2>3. PhaseOf(o) = "open" /\ PhaseOf(n) = "closed"
    BY <1>1, <2>1 DEF Ongoing, Executing
  <2> QED BY <1>1, <1>9, <2>2, <2>3 DEF Ends, Terminal
<1> QED BY <1>2, <1>3, <1>4, <1>5, <1>6, <1>7, <1>8, <1>9 DEF Shape

LEMMA TurnsStep ==
  ASSUME ConstantsAssumption, TypeOK, TypeOK', AuthorityInv, Moves
  PROVE  [T!TurnsNext]_(T!turnVars)
<1>1. ASSUME NEW q \in Runners
      PROVE  /\ turnPhase[q] = PhaseOf(row[q]) /\ turnVerdict[q] = VerdictOf(row[q])
             /\ turnPhase'[q] = PhaseOf(row'[q]) /\ turnVerdict'[q] = VerdictOf(row'[q])
  BY DEF turnPhase, turnVerdict, PhaseOf, VerdictOf
<1>2. /\ turnPhase = [q \in Runners |-> turnPhase[q]]
      /\ turnPhase' = [q \in Runners |-> turnPhase'[q]]
      /\ turnVerdict = [q \in Runners |-> turnVerdict[q]]
      /\ turnVerdict' = [q \in Runners |-> turnVerdict'[q]]
  BY DEF turnPhase, turnVerdict
<1>3. CASE \A q \in Runners : row'[q] = row[q]
  <2>1. turnPhase' = turnPhase /\ turnVerdict' = turnVerdict
    BY <1>1, <1>2, <1>3
  <2> QED BY <2>1 DEF T!turnVars
<1>4. ASSUME NEW r \in Runners, row'[r] # row[r]
      PROVE  [T!TurnsNext]_(T!turnVars)
  <2>1. \A q \in Runners \ {r} : row'[q] = row[q]
    BY <1>4 DEF Moves, RowMoves
  <2>2. /\ turnPhase' = [turnPhase EXCEPT ![r] = PhaseOf(row'[r])]
        /\ turnVerdict' = [turnVerdict EXCEPT ![r] = VerdictOf(row'[r])]
    BY <1>1, <1>2, <2>1
  <2>3. row[r] \in RowType /\ row'[r] \in RowType
    BY DEF TypeOK, RowTable
  <2>4. TurnMove(row[r], row'[r])
    BY <2>3, TurnMoves DEF Moves, RowMoves, RowMove
  <2>5. VerdictOf(row'[r]) = VerdictOf(row[r]) => turnVerdict' = turnVerdict
    BY <1>1, <1>2, <2>2
  <2>6. PhaseOf(row'[r]) = PhaseOf(row[r]) => turnPhase' = turnPhase
    BY <1>1, <1>2, <2>2
  <2>7. ASSUME row[r].status = "queued", row'[r].status = "running", NEW u \in T!Before(r)
        PROVE  turnPhase[u] # "open" /\ (turnPhase[u] = "waiting" => r <= u)
    <3>1. u \in Runners /\ SessionOf[u] = SessionOf[r]
      BY DEF T!Before
    <3>2. Available(r)
      BY <2>7 DEF Moves, RowMoves, RowMove
    <3>3. row[u].status \in Statuses
      BY <3>1, RowTyped DEF RowType
    <3>4. turnPhase[u] # "open"
      <4>1. ~ClaimedBy(u)
        BY <3>1, <3>2 DEF Available, ClaimedBy, ConstantsAssumption
      <4>2. row[u].status \notin Ongoing
        BY <3>1, <4>1 DEF AuthorityInv, ClaimIffActive, Active, Ongoing
      <4> QED BY <1>1, <3>1, <3>3, <4>2, PhaseCases
    <3>5. turnPhase[u] = "waiting" => r <= u
      BY <1>1, <3>1, <3>2, <3>3, PhaseCases DEF Available, Oldest
    <3> QED BY <3>4, <3>5
  <2> DEFINE o == row[r]
             n == row'[r]
  <2>8. CASE PhaseOf(n) = PhaseOf(o) /\ VerdictOf(n) = VerdictOf(o)
    BY <2>5, <2>6, <2>8 DEF T!turnVars
  <2>9. CASE PhaseOf(o) = "new" /\ PhaseOf(n) = "waiting" /\ VerdictOf(n) = VerdictOf(o)
    BY <1>1, <2>2, <2>5, <2>9 DEF T!TurnsNext, T!Enter
  <2>10. CASE PhaseOf(o) = "waiting" /\ PhaseOf(n) = "closed" /\ VerdictOf(n) = "cancelled"
    BY <1>1, <2>2, <2>10 DEF T!TurnsNext, T!Withdraw
  <2>11. CASE /\ PhaseOf(o) = "waiting" /\ PhaseOf(n) = "open" /\ VerdictOf(n) = VerdictOf(o)
              /\ o.status = "queued" /\ n.status = "running"
    BY <1>1, <2>2, <2>5, <2>7, <2>11 DEF T!TurnsNext, T!Open
  <2>12. CASE /\ PhaseOf(o) = "open" /\ PhaseOf(n) = "open"
              /\ VerdictOf(o) = "none" /\ VerdictOf(n) \in Terminal
    BY <1>1, <2>2, <2>6, <2>12 DEF T!TurnsNext, T!Decide, T!Verdicts, Terminal
  <2>13. CASE /\ PhaseOf(o) = "open" /\ PhaseOf(n) = "closed"
              /\ VerdictOf(o) # "none" /\ VerdictOf(n) = VerdictOf(o)
    BY <1>1, <2>2, <2>5, <2>13 DEF T!TurnsNext, T!Close
  <2>14. CASE /\ PhaseOf(o) = "open" /\ PhaseOf(n) = "closed"
              /\ VerdictOf(o) \in {"none", "completed"} /\ VerdictOf(n) = "failed"
    BY <1>1, <2>2, <2>14 DEF T!TurnsNext, T!Close
  <2> QED BY <2>4, <2>8, <2>9, <2>10, <2>11, <2>12, <2>13, <2>14 DEF TurnMove
<1> QED BY <1>3, <1>4

\* Whatever workers, leases, crashes and retries do, a session sees its turns opened one at a
\* time and in order, decided once, and closed as they were decided.
THEOREM KeepsTurns == Spec => ImplementsTurns
<1>1. Init => T!TurnsInit
  BY DEF Init, NewRow, T!TurnsInit, turnPhase, turnVerdict, Terminal
<1>2. TypeOK /\ AuthorityInv /\ LifecycleInv /\ [Next]_vars => [T!TurnsNext]_(T!turnVars)
  <2>1. ASSUME TypeOK, AuthorityInv, LifecycleInv, [Next]_vars
        PROVE  [T!TurnsNext]_(T!turnVars)
    <3>1. Moves
      BY <2>1, ConstantsAssumption, MovesNext DEF LifecycleInv
    <3>2. TypeOK'
      BY <2>1, ConstantsAssumption, TypeNext
    <3> QED BY <2>1, <3>1, <3>2, ConstantsAssumption, TurnsStep
  <2> QED BY <2>1
<1> QED BY <1>1, <1>2, TypeCorrect, AuthorityCorrect, LifecycleCorrect, PTL
        DEF Spec, ImplementsTurns, T!TurnsSpec

-----------------------------------------------------------------------------
(* The owner of a runner knows its revision. *)

\* What a step does to what a coroutine remembers ...
KeptTask(k) ==
  /\ task[k].pc \notin {"idle", "failed"}
  /\ task'[k].runner = task[k].runner
  /\ task'[k].attempt = task[k].attempt /\ task'[k].revision = task[k].revision

TaskMove(k) == task'[k].pc \in {"idle", "failed"} \/ InStep(k)' \/ KeptTask(k)

\* ... and who moves the revision of a runner that goes on executing the same attempt: its owner,
\* which notes it or stops.
RevisionMove(r) ==
  \/ row'[r].revision = row[r].revision
  \/ row'[r].status \notin Executing
  \/ row'[r].attempt # row[r].attempt
  \/ \E j \in Slots :
       /\ Owns(j) /\ task[j].runner = r
       /\ task'[j].pc = "idle" \/ InStep(j)'

StepMoves == (\A k \in Slots : TaskMove(k)) /\ (\A r \in Runners : RevisionMove(r))

\* Nobody's memory moves, and no revision of a runner that executes.
LEMMA WatcherSteps ==
  ASSUME TypeOK, UNCHANGED task, NEW r \in Runners, NEW d, row' = [row EXCEPT ![r] = d],
         d.revision = row[r].revision \/ d.status \notin Executing
  PROVE  StepMoves
<1>1. \A q \in Runners : row'[q] = IF q = r THEN d ELSE row[q]
  BY OneRow
<1>2. \A k \in Slots : TaskMove(k)
  BY DEF TaskMove, KeptTask
<1>3. \A q \in Runners : RevisionMove(q)
  BY <1>1 DEF RevisionMove
<1> QED BY <1>2, <1>3 DEF StepMoves

\* No row moves, and what is remembered of it does not.
LEMMA ForgetfulSteps ==
  ASSUME UNCHANGED row,
         \A k \in Slots : task'[k] = task[k] \/ task'[k].pc \in {"idle", "failed"} \/ KeptTask(k)
  PROVE  StepMoves
BY DEF StepMoves, TaskMove, KeptTask, RevisionMove

LEMMA OneTask ==
  ASSUME TypeOK, NEW k \in Slots, NEW t, task' = [task EXCEPT ![k] = t]
  PROVE  \A j \in Slots : task'[j] = IF j = k THEN t ELSE task[j]
BY DEF TypeOK, TaskTable

\* A coroutine copies the row it acquired.
LEMMA BegunSteps ==
  ASSUME TypeOK, NEW r \in Runners, NEW k \in Slots, NEW d, NEW pc,
         row' = [row EXCEPT ![r] = d], d.attempt = row[r].attempt + 1,
         task' = Begun(r, k, d, pc)
  PROVE  StepMoves
<1>1. \A q \in Runners : row'[q] = IF q = r THEN d ELSE row[q]
  BY OneRow
<1>2. task'[k].runner = r /\ task'[k].revision = d.revision
  BY DEF Begun, TypeOK, TaskTable
<1>3. \A j \in Slots \ {k} : task'[j] = task[j]
  BY DEF Begun, TypeOK, TaskTable
<1>4. InStep(k)'
  BY <1>1, <1>2 DEF InStep
<1>5. \A j \in Slots : TaskMove(j)
  BY <1>3, <1>4 DEF TaskMove, KeptTask
<1>6. row[r].attempt \in Nat
  BY RowTyped DEF RowType
<1>7. \A q \in Runners : RevisionMove(q)
  BY <1>1, <1>6 DEF RevisionMove
<1> QED BY <1>5, <1>7 DEF StepMoves

\* The owner writes its row and notes the revision, or stops.
LEMMA OwnerSteps ==
  ASSUME TypeOK, NEW k \in Slots, Owns(k), NEW r \in Runners, r = task[k].runner,
         NEW d, row' = [row EXCEPT ![r] = d], NEW t, task' = [task EXCEPT ![k] = t],
         t.pc = "idle" \/ (t.runner = r /\ t.revision = d.revision)
  PROVE  StepMoves
<1>1. \A q \in Runners : row'[q] = IF q = r THEN d ELSE row[q]
  BY OneRow
<1>2. \A j \in Slots : task'[j] = IF j = k THEN t ELSE task[j]
  BY OneTask
<1>3. task'[k].pc = "idle" \/ InStep(k)'
  BY <1>1, <1>2 DEF InStep
<1>4. \A j \in Slots : TaskMove(j)
  BY <1>2, <1>3 DEF TaskMove, KeptTask
<1>5. \A q \in Runners : RevisionMove(q)
  BY <1>1, <1>3 DEF RevisionMove
<1> QED BY <1>4, <1>5 DEF StepMoves

LEMMA DoneSteps ==
  ASSUME TypeOK, NEW k \in Slots, Owns(k), NEW d,
         row' = [row EXCEPT ![task[k].runner] = d], task' = Done(k)
  PROVE  StepMoves
<1>1. task[k].runner \in Runners /\ Idle.pc = "idle"
  BY OwnerTyped DEF Idle
<1> QED BY <1>1, OwnerSteps DEF Done

LEMMA IdleSteps ==
  ASSUME TypeOK, NEW k \in Slots, UNCHANGED row, task' = Done(k)
  PROVE  StepMoves
<1>1. \A j \in Slots : task'[j] = IF j = k THEN Idle ELSE task[j]
  BY OneTask DEF Done
<1> QED BY <1>1, ForgetfulSteps DEF Idle

LEMMA StageSteps ==
  ASSUME TypeOK, NEW k \in Slots, NEW result, Stage(k, result)
  PROVE  StepMoves
<1> DEFINE r == task[k].runner
           d == [row[r] EXCEPT !.status = "finalizing", !.pending = result, !.revision = @ + 1]
           t == [task[k] EXCEPT !.pc = "final", !.revision = @ + 1]
<1>1. Owns(k) /\ task[k].revision = row[r].revision
  BY DEF Stage, InStep
<1>2. r \in Runners /\ row[r] \in RowType /\ task[k] \in TaskType
  BY <1>1, OwnerTyped, RowTyped, TaskTyped
<1>3. t.runner = r /\ t.revision = d.revision
  BY <1>1, <1>2 DEF RowType, TaskType
<1>4. row' = [row EXCEPT ![r] = d] /\ task' = [task EXCEPT ![k] = t]
  BY DEF Stage
<1> QED BY <1>1, <1>2, <1>3, <1>4, OwnerSteps

LEMMA UserSteps ==
  ASSUME TypeOK, User
  PROVE  StepMoves
<1>1. ASSUME NEW r \in Runners, Submit(r)
      PROVE  StepMoves
  <2> DEFINE d == [row[r] EXCEPT !.status = "queued"]
  <2>1. row' = [row EXCEPT ![r] = d] /\ UNCHANGED task
    BY <1>1 DEF Submit
  <2>2. d.revision = row[r].revision
    BY RowTyped DEF RowType
  <2> QED BY <2>1, <2>2, WatcherSteps
<1>2. ASSUME NEW r \in Runners, Cancel(r)
      PROVE  StepMoves
  <2> DEFINE status == IF row[r].status = "queued" THEN "cancelled" ELSE row[r].status
             revision == IF row[r].status = "queued" THEN row[r].revision + 1
                         ELSE row[r].revision
             d == [row[r] EXCEPT !.status = status, !.revision = revision, !.cancel = TRUE,
                                 !.controlRevision = @ + 1, !.pause = FALSE,
                                 !.resume = NoControl]
  <2>1. row' = [row EXCEPT ![r] = d] /\ UNCHANGED task
    BY <1>2 DEF Cancel, CancelRevision
  <2>2. revision = row[r].revision \/ status \notin Executing
    BY DEF Executing
  <2> HIDE DEF status, revision
  <2>3. d.status = status /\ d.revision = revision
    BY RowTyped DEF RowType
  <2> QED BY <2>1, <2>2, <2>3, WatcherSteps
<1>3. ASSUME NEW r \in Runners, EndWaiting(r)
      PROVE  StepMoves
  <2> DEFINE d == [row[r] EXCEPT !.detached = TRUE, !.blocked = NoBlock, !.cancel = TRUE,
               !.pause = FALSE, !.resume = NoControl, !.revision = @ + 1,
               !.controlRevision = @ + 1]
  <2>1. row' = [row EXCEPT ![r] = d] /\ UNCHANGED task /\ row[r].status \notin Executing
    BY <1>3 DEF EndWaiting, Parked, Executing
  <2>2. d.status = row[r].status
    BY RowTyped DEF RowType
  <2> QED BY <2>1, <2>2, WatcherSteps
<1>4. ASSUME NEW r \in Runners, NEW c \in Controls, SubmitPause(r, c)
      PROVE  StepMoves
  <2> DEFINE d == [row[r] EXCEPT !.pause = TRUE, !.resume = NoControl, !.controlRevision = @ + 1]
  <2>1. row' = [row EXCEPT ![r] = d] /\ UNCHANGED task
    BY <1>4 DEF SubmitPause
  <2>2. d.revision = row[r].revision
    BY RowTyped DEF RowType
  <2> QED BY <2>1, <2>2, WatcherSteps
<1>5. ASSUME NEW r \in Runners, NEW c \in Controls, SubmitResume(r, c)
      PROVE  StepMoves
  <2> DEFINE d == [row[r] EXCEPT !.resume = c, !.controlRevision = @ + 1]
  <2>1. row' = [row EXCEPT ![r] = d] /\ UNCHANGED task
    BY <1>5 DEF SubmitResume
  <2>2. d.revision = row[r].revision
    BY RowTyped DEF RowType
  <2> QED BY <2>1, <2>2, WatcherSteps
<1> QED BY <1>1, <1>2, <1>3, <1>4, <1>5 DEF User

LEMMA AcquireSteps ==
  ASSUME ConstantsAssumption, TypeOK, NEW k \in Slots, Acquire(k)
  PROVE  StepMoves
<1>1. ASSUME NEW r \in Runners, NEW d, NEW pc, row' = [row EXCEPT ![r] = d],
             task' = Begun(r, k, d, pc), d.attempt = Started(r, k).attempt
      PROVE  StepMoves
  BY <1>1, StartedFields, BegunSteps
<1>2. \A r \in Runners : Started(r, k) \in RowType
  BY StartedType
<1>3. ASSUME NEW r \in Runners, AcquireQueued(r, k)
      PROVE  StepMoves
  <2> DEFINE d == [Started(r, k) EXCEPT !.status = "running"]
             pc == IF d.pause THEN "unstarted" ELSE "run"
  <2>1. row' = [row EXCEPT ![r] = d] /\ task' = Begun(r, k, d, pc)
    BY <1>3 DEF AcquireQueued
  <2>2. d.attempt = Started(r, k).attempt
    BY <1>2 DEF RowType
  <2> HIDE DEF pc, d
  <2> QED BY <1>1, <2>1, <2>2
<1>4. ASSUME NEW r \in Runners, AcquireFinalizing(r, k)
      PROVE  StepMoves
  <2> DEFINE d == Started(r, k)
             pc == IF d.pending = "none" THEN "cancel" ELSE "final"
  <2>1. row' = [row EXCEPT ![r] = d] /\ task' = Begun(r, k, d, pc)
    BY <1>4 DEF AcquireFinalizing
  <2> HIDE DEF pc
  <2> QED BY <1>1, <2>1
<1>5. ASSUME NEW r \in Runners, AcquireCancelled(r, k)
      PROVE  StepMoves
  <2> DEFINE d == [Started(r, k) EXCEPT !.status = "finalizing", !.cancelOnly = TRUE,
                                            !.blocked = NoBlock]
  <2>1. row' = [row EXCEPT ![r] = d] /\ task' = Begun(r, k, d, "cancel")
    BY <1>5 DEF AcquireCancelled
  <2>2. d.attempt = Started(r, k).attempt
    BY <1>2 DEF RowType
  <2> HIDE DEF d
  <2> QED BY <1>1, <2>1, <2>2
<1>6. WorkerOf[k] \in Workers
  BY DEF ConstantsAssumption
<1>7. CASE ClaimResume(k)
  <2>1. PICK r \in Runners : r = prepared[WorkerOf[k]].runner
    BY <1>6, <1>7, PreparedCurrent DEF ClaimResume
  <2> DEFINE d == [Started(r, k) EXCEPT !.status = "running", !.pause = FALSE, !.resume = NoControl,
                                        !.controlRevision = @ + 1, !.held = FALSE]
  <2>2. row' = [row EXCEPT ![r] = d] /\ task' = Begun(r, k, d, "run")
    BY <1>7, <2>1 DEF ClaimResume
  <2>3. d.attempt = Started(r, k).attempt
    BY <1>2 DEF RowType
  <2> HIDE DEF d
  <2> QED BY <1>1, <2>2, <2>3
<1>8. CASE ClaimContinuous(k)
  <2>1. PICK r \in Runners : r = prepared[WorkerOf[k]].runner
    BY <1>6, <1>8, PreparedCurrent DEF ClaimContinuous
  <2> DEFINE d == [Started(r, k) EXCEPT !.status = "running"]
  <2>2. row' = [row EXCEPT ![r] = d] /\ task' = Begun(r, k, d, "run")
    BY <1>8, <2>1 DEF ClaimContinuous
  <2>3. d.attempt = Started(r, k).attempt
    BY <1>2 DEF RowType
  <2> HIDE DEF d
  <2> QED BY <1>1, <2>2, <2>3
<1> QED BY <1>3, <1>4, <1>5, <1>7, <1>8 DEF Acquire

LEMMA ScanSteps ==
  ASSUME TypeOK, NEW w \in Workers, Scan(w)
  PROVE  StepMoves
<1>1. ASSUME NEW permanent \in BOOLEAN, DeferContinuous(w, permanent)
      PROVE  StepMoves
  <2>1. PICK r \in Runners : r = prepared[w].runner
    BY <1>1, PreparedCurrent DEF DeferContinuous
  <2> DEFINE d == [row[r] EXCEPT !.held = permanent, !.revision = @ + 1]
  <2>2. row' = [row EXCEPT ![r] = d] /\ UNCHANGED task /\ row[r].status \notin Executing
    BY <1>1, <2>1 DEF DeferContinuous, ContinuousCurrent, ContinuousCandidate, Executing
  <2>3. d.status = row[r].status
    BY RowTyped DEF RowType
  <2> QED BY <2>2, <2>3, WatcherSteps
<1>2. ASSUME RejectResume(w)
      PROVE  StepMoves
  <2>1. PICK r \in Runners : r = prepared[w].runner
    BY <1>2, PreparedCurrent DEF RejectResume
  <2> DEFINE d == [row[r] EXCEPT !.resume = NoControl, !.controlRevision = @ + 1]
  <2>2. row' = [row EXCEPT ![r] = d] /\ UNCHANGED task
    BY <1>2, <2>1 DEF RejectResume
  <2>3. d.revision = row[r].revision
    BY RowTyped DEF RowType
  <2> QED BY <2>2, <2>3, WatcherSteps
<1>3. ASSUME UNCHANGED <<row, task>>
      PROVE  StepMoves
  BY <1>3, ForgetfulSteps
<1> QED BY <1>1, <1>2, <1>3 DEF Scan, PrepareResume, PrepareContinuous, DropPrepared

LEMMA ExecuteSteps ==
  ASSUME TypeOK, NEW k \in Slots, Execute(k)
  PROVE  StepMoves
<1> DEFINE r == task[k].runner
<1>1. task[k] \in TaskType
  BY TaskTyped
\* Memory moves, and not what the coroutine knows of its row.
<1>2. ASSUME NEW t, task' = [task EXCEPT ![k] = t], UNCHANGED row,
             task[k].pc \notin {"idle", "failed"},
             t.runner = task[k].runner, t.attempt = task[k].attempt, t.revision = task[k].revision
      PROVE  StepMoves
  <2>1. \A j \in Slots : task'[j] = IF j = k THEN t ELSE task[j]
    BY <1>2, OneTask
  <2> QED BY <1>2, <2>1, ForgetfulSteps DEF KeptTask
<1>3. CASE Heartbeat(k)
  <2> DEFINE t == [task[k] EXCEPT !.cancel = row[task[k].runner].cancel,
                                 !.pause = row[task[k].runner].pause]
  <2>1. task' = [task EXCEPT ![k] = t] /\ UNCHANGED row /\ task[k].pc \notin {"idle", "failed"}
    BY <1>3 DEF Heartbeat, Owns
  <2>2. t.runner = task[k].runner /\ t.attempt = task[k].attempt /\ t.revision = task[k].revision
    BY <1>1 DEF TaskType
  <2> HIDE DEF t
  <2> QED BY <1>2, <2>1, <2>2
<1>4. CASE DispatchRefused(k)
  <2> DEFINE t == [task[k] EXCEPT !.cancel = row[task[k].runner].cancel,
                                 !.pause = ~row[task[k].runner].cancel]
  <2>1. task' = [task EXCEPT ![k] = t] /\ UNCHANGED row /\ task[k].pc \notin {"idle", "failed"}
    BY <1>4 DEF DispatchRefused
  <2>2. t.runner = task[k].runner /\ t.attempt = task[k].attempt /\ t.revision = task[k].revision
    BY <1>1 DEF TaskType
  <2> HIDE DEF t
  <2> QED BY <1>2, <2>1, <2>2
<1>5. CASE CancelUnconfirmed(k)
  <2> DEFINE t == [task[k] EXCEPT !.pc = "hold"]
  <2>1. task' = [task EXCEPT ![k] = t] /\ UNCHANGED row /\ task[k].pc \notin {"idle", "failed"}
    BY <1>5 DEF CancelUnconfirmed, Cancelling
  <2>2. t.runner = task[k].runner /\ t.attempt = task[k].attempt /\ t.revision = task[k].revision
    BY <1>1 DEF TaskType
  <2> HIDE DEF t
  <2> QED BY <1>2, <2>1, <2>2
<1>6. CASE Checkpoint(k)
  <2> DEFINE d == [row[r] EXCEPT !.revision = @ + 1]
             t == [task[k] EXCEPT !.revision = @ + 1, !.cancel = row[r].cancel,
                                 !.pause = row[r].pause]
  <2>1. /\ Owns(k) /\ task[k].revision = row[r].revision
        /\ row' = [row EXCEPT ![r] = d] /\ task' = [task EXCEPT ![k] = t]
    BY <1>6 DEF Checkpoint, InStep
  <2>2. r \in Runners /\ row[r] \in RowType
    BY <2>1, OwnerTyped, RowTyped
  <2>3. t.runner = r /\ t.revision = d.revision
    BY <1>1, <2>1, <2>2 DEF TaskType, RowType
  <2> QED BY <2>1, <2>2, <2>3, OwnerSteps
<1>7. CASE Dispatch(k)
  <2> DEFINE d == [row[r] EXCEPT !.revision = @ + 1]
             t == [task[k] EXCEPT !.revision = @ + 1, !.cancel = FALSE, !.pause = FALSE]
  <2>1. /\ Owns(k) /\ task[k].revision = row[r].revision
        /\ row' = [row EXCEPT ![r] = d] /\ task' = [task EXCEPT ![k] = t]
    BY <1>7 DEF Dispatch, InStep
  <2>2. r \in Runners /\ row[r] \in RowType
    BY <2>1, OwnerTyped, RowTyped
  <2>3. t.runner = r /\ t.revision = d.revision
    BY <1>1, <2>1, <2>2 DEF TaskType, RowType
  <2> QED BY <2>1, <2>2, <2>3, OwnerSteps
<1>8. CASE DetachWait(k)
  <2> DEFINE d == [row[r] EXCEPT !.detached = TRUE, !.revision = @ + 1]
             t == [task[k] EXCEPT !.revision = row[r].revision + 1]
  <2>1. Owns(k) /\ row' = [row EXCEPT ![r] = d] /\ task' = [task EXCEPT ![k] = t]
    BY <1>8 DEF DetachWait
  <2>2. r \in Runners /\ row[r] \in RowType
    BY <2>1, OwnerTyped, RowTyped
  <2>3. t.runner = r /\ t.revision = d.revision
    BY <1>1, <2>2 DEF TaskType, RowType
  <2> QED BY <2>1, <2>2, <2>3, OwnerSteps
<1>9. CASE StageResult(k) \/ StageCancelled(k)
  BY <1>9, StageSteps DEF StageResult, StageCancelled
<1>10. CASE ParkWaiting(k)
  BY <1>10, DoneSteps DEF ParkWaiting
<1>11. CASE ParkPaused(k)
  BY <1>11, DoneSteps DEF ParkPaused
<1>12. CASE AcknowledgePause(k)
  BY <1>12, DoneSteps DEF AcknowledgePause
<1>13. CASE BlockCancel(k)
  BY <1>13, DoneSteps DEF BlockCancel
<1>14. CASE Finalize(k)
  BY <1>14, DoneSteps DEF Finalize
<1> QED BY <1>3, <1>4, <1>5, <1>6, <1>7, <1>8, <1>9, <1>10, <1>11, <1>12, <1>13, <1>14 DEF Execute

LEMMA RecoverSteps ==
  ASSUME TypeOK, NEW k \in Slots, Recover(k)
  PROVE  StepMoves
<1>1. CASE LoseLease(k) \/ GiveUp(k)
  BY <1>1, IdleSteps DEF LoseLease, GiveUp
<1>2. CASE AcknowledgeRefused(k)
  BY <1>2, DoneSteps DEF AcknowledgeRefused
<1>3. CASE FailInterrupt(k)
  BY <1>3, DoneSteps DEF FailInterrupt
<1>4. CASE FailStage(k)
  BY <1>4, StageSteps DEF FailStage
<1>5. CASE FinalizeRetry(k)
  BY <1>5, DoneSteps DEF FinalizeRetry
<1>6. CASE Abandon(k)
  BY <1>6, DoneSteps DEF Abandon
<1> QED BY <1>1, <1>2, <1>3, <1>4, <1>5, <1>6 DEF Recover

LEMMA LapseSteps ==
  ASSUME TypeOK, UNCHANGED task, NEW r \in Runners,
         row' = [row EXCEPT ![r] = [row[r] EXCEPT !.lease = "expired"]]
  PROVE  StepMoves
<1> DEFINE d == [row[r] EXCEPT !.lease = "expired"]
<1>1. d.revision = row[r].revision
  BY RowTyped DEF RowType
<1> QED BY <1>1, WatcherSteps

LEMMA SweepSteps ==
  ASSUME TypeOK, NEW r \in Runners, Sweep(r)
  PROVE  StepMoves
<1>1. CASE ExpireLease(r)
  BY <1>1, LapseSteps DEF ExpireLease
<1>2. CASE ReapExpired(r)
  <2>1. Released(r, "interrupted").status \notin Executing
    BY ReleasedFields DEF Executing
  <2> QED BY <1>2, <2>1, WatcherSteps DEF ReapExpired
<1>3. CASE ReleaseReady(r)
  <2> DEFINE d == [row[r] EXCEPT !.blocked = [row[r].blocked EXCEPT !.ready = TRUE,
                                                       !.revision = row[r].revision + 1],
                                 !.revision = @ + 1]
  <2>1. row' = [row EXCEPT ![r] = d] /\ UNCHANGED task /\ row[r].status \notin Executing
    BY <1>3 DEF ReleaseReady, Executing
  <2>2. d.status = row[r].status
    BY RowTyped DEF RowType
  <2> QED BY <2>1, <2>2, WatcherSteps
<1>4. CASE EffectKnown(r) \/ EffectLost(r)
  BY <1>4, ForgetfulSteps DEF EffectKnown, EffectLost
<1> QED BY <1>1, <1>2, <1>3, <1>4 DEF Sweep

LEMMA FaultSteps ==
  ASSUME TypeOK, Fault
  PROVE  StepMoves
<1>1. ASSUME NEW k \in Slots, Raise(k)
      PROVE  StepMoves
  <2> DEFINE t == [task[k] EXCEPT !.pc = "failed"]
  <2>1. t.pc = "failed"
    BY TaskTyped DEF TaskType
  <2>2. task' = [task EXCEPT ![k] = t] /\ UNCHANGED row
    BY <1>1 DEF Raise
  <2>3. \A j \in Slots : task'[j] = IF j = k THEN t ELSE task[j]
    BY <2>2, OneTask
  <2> QED BY <2>1, <2>2, <2>3, ForgetfulSteps
<1>2. ASSUME NEW k \in Slots, Stall(k)
      PROVE  StepMoves
  BY <1>2, OwnerTyped, LapseSteps DEF Stall
<1>3. ASSUME NEW w \in Workers, Crash(w)
      PROVE  StepMoves
  BY <1>3, ForgetfulSteps DEF Crash, Idle
<1> QED BY <1>1, <1>2, <1>3 DEF Fault

LEMMA StepsNext ==
  ASSUME ConstantsAssumption, TypeOK, [Next]_vars
  PROVE  StepMoves
<1>1. CASE UNCHANGED vars
  BY <1>1, ForgetfulSteps DEF vars
<1>2. CASE Next
  BY <1>2, UserSteps, AcquireSteps, ScanSteps, ExecuteSteps, RecoverSteps, SweepSteps, FaultSteps
     DEF Next
<1> QED BY <1>1, <1>2

\* Whoever owns an attempt after a step that did not start it owned it before.
LEMMA OwnerStays ==
  ASSUME NEW o \in RowType, NEW n, Shape(o, n), n.attempt = o.attempt,
         n.lease = "live", n.status \in Executing
  PROVE  o.lease = "live" /\ o.worker = n.worker /\ o.status \in Executing
<1>1. o.attempt \in Nat /\ o.pending \in Terminal \union {"none"}
  BY DEF RowType
<1>2. ~Starts(o, n)
  BY <1>1 DEF Starts
<1>3. ~Ends(o, n)
  BY <1>1 DEF Ends, Terminal, Executing
<1> QED BY <1>2, <1>3 DEF Shape, Enters, Withdraws, Commanded, StopsWaiting, Progresses, Decides,
     Parks, Blocks, Lapses, Noted, SamePhase, SameOwner, GivenUp, Parked, Executing

LEMMA OwnerInStepNext ==
  ASSUME TypeOK, AuthorityInv, OwnerInStep, Moves, StepMoves
  PROVE  OwnerInStep'
<1>1. ASSUME NEW k \in Slots, Owns(k)', task'[k].pc # "failed", KeptTask(k), ~InStep(k)'
      PROVE  FALSE
  <2>1. PICK r \in Runners : r = task[k].runner
    BY <1>1, RunnerTyped DEF KeptTask
  <2>2. /\ row'[r].attempt = task[k].attempt /\ row'[r].worker = WorkerOf[k]
        /\ row'[r].lease = "live" /\ row'[r].status \in Executing
    BY <1>1, <2>1 DEF Owns, KeptTask
  <2>3. task[k].attempt <= row[r].attempt
    BY <1>1, <2>1 DEF KeptTask, AuthorityInv, AttemptsDistinct
  <2>4. row'[r].attempt = row[r].attempt
    BY <2>2, <2>3, AttemptMoves
  <2>5. row[r].lease = "live" /\ row[r].worker = WorkerOf[k] /\ row[r].status \in Executing
    BY <2>2, <2>4, RowTyped, OwnerStays DEF Moves, RowMoves, RowMove
  <2>6. Owns(k)
    BY <1>1, <2>1, <2>2, <2>4, <2>5 DEF Owns, KeptTask
  <2>7. task[k].revision = row[r].revision
    BY <1>1, <2>1, <2>6 DEF OwnerInStep, InStep, KeptTask
  <2>8. row'[r].revision # row[r].revision
    BY <1>1, <2>1, <2>7 DEF InStep, KeptTask
  <2>9. PICK j \in Slots : Owns(j) /\ task[j].runner = r /\ (task'[j].pc = "idle" \/ InStep(j)')
    BY <2>2, <2>4, <2>8 DEF StepMoves, RevisionMove
  <2>10. j = k
    BY <2>1, <2>6, <2>9 DEF AuthorityInv, AttemptsDistinct, Owns
  <2> QED BY <1>1, <2>9, <2>10 DEF Owns
<1>2. ASSUME NEW k \in Slots, Owns(k)', task'[k].pc # "failed"
      PROVE  InStep(k)'
  BY <1>1, <1>2 DEF StepMoves, TaskMove, Owns
<1> QED BY <1>2 DEF OwnerInStep

\* Nobody but the owner moves the revision of a runner that executes, so no healthy attempt is
\* refused for a changed revision: commands, sweeps and stale workers leave it alone.
THEOREM OwnerCorrect == Spec => []OwnerInStep
<1>1. Init => OwnerInStep
  BY DEF Init, OwnerInStep, Owns, Idle
<1>2. TypeOK /\ AuthorityInv /\ LifecycleInv /\ OwnerInStep /\ [Next]_vars => OwnerInStep'
  <2>1. ASSUME TypeOK, AuthorityInv, LifecycleInv, OwnerInStep, [Next]_vars
        PROVE  OwnerInStep'
    <3>1. Moves
      BY <2>1, ConstantsAssumption, MovesNext DEF LifecycleInv
    <3>2. StepMoves
      BY <2>1, ConstantsAssumption, StepsNext
    <3> QED BY <2>1, <3>1, <3>2, OwnerInStepNext
  <2> QED BY <2>1
<1> QED BY <1>1, <1>2, TypeCorrect, AuthorityCorrect, LifecycleCorrect, PTL DEF Spec
=============================================================================
