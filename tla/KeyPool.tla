------------------------------- MODULE KeyPool -------------------------------
(***************************************************************************)
(* The pool of API keys (src/src/llm/key_pool.py): every key has a         *)
(* semaphore of Permits permits, a request takes a permit of one key and   *)
(* gives it back when its call of the provider ends.                       *)
(*                                                                         *)
(* A step is the code a coroutine runs between two awaits.  A request      *)
(* first picks a key that looks free and waits for that key's permit in a  *)
(* task of asyncio.wait_for (the fast path); without one it waits for all  *)
(* keys at once, a task for each (the slow path).  A task is named by its  *)
(* request and its key.                                                    *)
(*                                                                         *)
(* Semaphores belong to an event loop.  A slot that is used from another   *)
(* loop gets a new one, so a semaphore is a key and a generation.          *)
(***************************************************************************)
EXTENDS Integers, Sequences, FiniteSets

CONSTANTS
  Calls,          \* requests, each made once
  N,              \* number of keys
  Permits,        \* max_concurrent_per_key
  LoopOf,         \* the event loop of a request
  Cancellable,    \* the requests whose task may be cancelled
  MaxGen,         \* bound: semaphores a slot may have
  NoLoop          \* a pool or slot not used yet

ASSUME PoolConstants ==
  /\ N \in Nat \ {0} /\ Permits \in Nat \ {0} /\ MaxGen \in Nat \ {0}
  /\ IsFiniteSet(Calls) /\ Cancellable \subseteq Calls
  /\ \A c \in Calls : LoopOf[c] # NoLoop

Keys == 0..(N - 1)
Semaphores == Keys \X (1..MaxGen)
Tasks == Calls \X Keys

VARIABLES
  phase,      \* where a request is
  turn,       \* KeyPool._round_robin_idx
  poolLoop,   \* KeyPool._loop
  slotLoop,   \* _KeySlot._loop
  gen,        \* the generation of _KeySlot._semaphore, 0: none yet
  value,      \* Semaphore._value
  queue,      \* Semaphore._waiters that are not done, in order
  task        \* the tasks that acquire permits, and the permits they took

vars == <<phase, turn, poolLoop, slotLoop, gen, value, queue, task>>

\* "new": not run yet; "queued": its future waits in the semaphore; "granted":
\* its future is set; "recalled": granted, then cancelled; "done": it has its
\* permit and nobody has picked it up; "held": its request uses the permit.
\* gen 0: the task has not looked at the slot yet.
TaskStates == {"none", "new", "queued", "granted", "recalled", "done", "held"}
NoTask == [st |-> "none", gen |-> 0]

Phases == {"idle", "fast", "retry", "slow", "using", "done", "failed", "cancelled"}

Init ==
  /\ phase = [c \in Calls |-> "idle"]
  /\ turn = 0
  /\ poolLoop = NoLoop
  /\ slotLoop = [k \in Keys |-> NoLoop]
  /\ gen = [k \in Keys |-> 0]
  /\ value = [s \in Semaphores |-> Permits]
  /\ queue = [s \in Semaphores |-> << >>]
  /\ task = [t \in Tasks |-> NoTask]

-----------------------------------------------------------------------------
(* Semaphores of CPython 3.11 *)

SemOf(t) == <<t[2], task[t].gen>>

\* Tasks whose future is in the deque of semaphore s, the cancelled ones aside.
InDeque(s) ==
  {t \in Tasks : /\ task[t].st \in {"queued", "granted", "recalled"}
                 /\ SemOf(t) = s}

Locked(s) == value[s] = 0 \/ InDeque(s) # {}

\* Semaphore.release: the permit goes to the first waiter, or is free again.
\* T is what has become of the tasks.
Handover(s, T) ==
  \/ /\ queue[s] = << >>
     /\ value' = [value EXCEPT ![s] = @ + 1]
     /\ task' = T
     /\ UNCHANGED queue
  \/ /\ queue[s] # << >>
     /\ \E w \in Tasks :
          /\ w = Head(queue[s]) /\ T[w].st = "queued" /\ SemOf(w) = s
          /\ task' = [T EXCEPT ![w].st = "granted"]
     /\ queue' = [queue EXCEPT ![s] = Tail(@)]
     /\ UNCHANGED value

\* The last lines of Semaphore.acquire, which pass on permits that came back
\* while this waiter had not resumed.
WakeNext(s, T) ==
  \/ /\ value[s] = 0 \/ queue[s] = << >>
     /\ task' = T
     /\ UNCHANGED <<value, queue>>
  \/ /\ value[s] > 0 /\ queue[s] # << >>
     /\ \E w \in Tasks :
          /\ w = Head(queue[s]) /\ T[w].st = "queued" /\ SemOf(w) = s
          /\ task' = [T EXCEPT ![w].st = "granted"]
     /\ queue' = [queue EXCEPT ![s] = Tail(@)]
     /\ value' = [value EXCEPT ![s] = @ - 1]

\* Task.cancel on the tasks of S: a permit already granted goes back when the
\* task runs (GiveBack), a task that is over is not touched.
Cancelled(t) ==
  CASE task[t].st \in {"new", "queued"} -> NoTask
    [] task[t].st = "granted" -> [task[t] EXCEPT !.st = "recalled"]
    [] OTHER -> task[t]

\* The queue q when the futures of the tasks of S are done (SelectSeq, as a
\* recursive function, whose definition the proofs can use).
Without(q, S) ==
  LET kept[i \in 0..Len(q)] ==
        IF i = 0 THEN << >>
        ELSE IF q[i] \in S THEN kept[i - 1] ELSE Append(kept[i - 1], q[i])
  IN  kept[Len(q)]

CancelTasks(S, T) ==
  /\ task' = [t \in Tasks |-> IF t \in S THEN Cancelled(t) ELSE T[t]]
  /\ queue' = [s \in Semaphores |-> Without(queue[s], S)]
  /\ UNCHANGED value

-----------------------------------------------------------------------------
(* Binding to event loops *)

\* _KeySlot._ensure_loop for the slots of K in the loop of c, from generations g
\* whose loops are in L.
BoundGen(c, K, g, L) ==
  [k \in Keys |-> IF k \in K /\ (g[k] = 0 \/ L[k] # LoopOf[c]) THEN g[k] + 1 ELSE g[k]]

BoundLoop(c, K, L) ==
  [k \in Keys |-> IF k \in K THEN LoopOf[c] ELSE L[k]]

\* KeyPool._ensure_loop: the slots it rebinds.
Rebound(c) == IF poolLoop = LoopOf[c] THEN {} ELSE Keys

\* The slots of K, after those the pool rebinds, are bound to the loop of c.
Bind(c, K) ==
  /\ gen' = BoundGen(c, K, gen, slotLoop)
  /\ slotLoop' = BoundLoop(c, K, slotLoop)
  /\ \A k \in Keys : gen'[k] <= MaxGen

Free(k, g) == g[k] = 0 \/ value[<<k, g[k]>>] > 0

FreeKeys(c) ==
  {k \in Keys : Free(k, BoundGen(c, Rebound(c), gen, slotLoop))}

\* Round robin: the first free key from turn on.
IsNext(k, c) ==
  /\ k \in FreeKeys(c)
  /\ \A j \in FreeKeys(c) : (k - turn) % N <= (j - turn) % N

-----------------------------------------------------------------------------
(* A request *)

After(k) == (k + 1) % N

\* KeyPool._get_slot finds a free key and starts to wait for its permit: the
\* lock is never waited for, as nothing is awaited under it.
EnterFast(c) ==
  /\ phase[c] = "idle"
  /\ \E k \in Keys :
       /\ IsNext(k, c)
       /\ turn' = After(k)
       /\ Bind(c, Rebound(c) \cup {k})
       /\ task' = [task EXCEPT ![<<c, k>>] = [st |-> "new", gen |-> gen'[k]]]
  /\ poolLoop' = LoopOf[c]
  /\ phase' = [phase EXCEPT ![c] = "fast"]
  /\ UNCHANGED <<value, queue>>

\* The tasks _wait_any_slot creates, one for each key.
WithSlowTasks(c) ==
  [t \in Tasks |-> IF t[1] = c THEN [st |-> "new", gen |-> 0] ELSE task[t]]

\* _get_slot finds no free key.
EnterSlow(c) ==
  /\ phase[c] = "idle" /\ FreeKeys(c) = {}
  /\ Bind(c, Rebound(c))
  /\ poolLoop' = LoopOf[c]
  /\ task' = WithSlowTasks(c)
  /\ phase' = [phase EXCEPT ![c] = "slow"]
  /\ UNCHANGED <<turn, value, queue>>

\* A task runs for the first time.  One of the slow path looks at the slot only
\* now (_try_acquire_slot), one of the fast path has its semaphore.
Start(c, k) ==
  /\ task[<<c, k>>].st = "new"
  /\ IF task[<<c, k>>].gen = 0
       THEN Bind(c, {k})
       ELSE UNCHANGED <<gen, slotLoop>>
  /\ LET g == IF task[<<c, k>>].gen = 0 THEN gen'[k] ELSE task[<<c, k>>].gen
         s == <<k, g>>
     IN \/ /\ ~Locked(s)
           /\ value' = [value EXCEPT ![s] = @ - 1]
           /\ task' = [task EXCEPT ![<<c, k>>] = [st |-> "done", gen |-> g]]
           /\ UNCHANGED queue
        \/ /\ Locked(s)
           /\ queue' = [queue EXCEPT ![s] = Append(@, <<c, k>>)]
           /\ task' = [task EXCEPT ![<<c, k>>] = [st |-> "queued", gen |-> g]]
           /\ UNCHANGED value
  /\ UNCHANGED <<phase, turn, poolLoop>>

\* A task that was granted its permit runs.
Resume(c, k) ==
  /\ task[<<c, k>>].st = "granted"
  /\ WakeNext(SemOf(<<c, k>>), [task EXCEPT ![<<c, k>>].st = "done"])
  /\ UNCHANGED <<phase, turn, poolLoop, gen, slotLoop>>

\* A task that was cancelled after it was granted its permit runs.
GiveBack(c, k) ==
  /\ task[<<c, k>>].st = "recalled"
  /\ Handover(SemOf(<<c, k>>), [task EXCEPT ![<<c, k>>] = NoTask])
  /\ UNCHANGED <<phase, turn, poolLoop, gen, slotLoop>>

HasDone(c) == \E k \in Keys : task[<<c, k>>].st = "done"
OwnTasks(c) == {c} \X Keys

\* wait_for returns the permit, after a cancellation or a timeout too when the
\* task is over.
FastAcquired(c) ==
  /\ phase[c] = "fast"
  /\ \E k \in Keys : /\ task[<<c, k>>].st = "done"
                     /\ task' = [task EXCEPT ![<<c, k>>].st = "held"]
  /\ phase' = [phase EXCEPT ![c] = "using"]
  /\ UNCHANGED <<turn, poolLoop, gen, slotLoop, value, queue>>

\* A timer fires after the tasks that were ready before it have run.
TimedOut(c) == \A k \in Keys : task[<<c, k>>].st \notin {"new", "done"}

\* Mutant of FastTimeout: the answer of _KeySlot.acquire is not looked at.
FastTimeoutIgnored(c) ==
  /\ phase[c] = "fast" /\ TimedOut(c)
  /\ \E k \in Keys :
       /\ task[<<c, k>>].st = "queued"
       /\ queue' = [s \in Semaphores |-> Without(queue[s], {<<c, k>>})]
       /\ task' = [task EXCEPT ![<<c, k>>].st = "held"]
  /\ phase' = [phase EXCEPT ![c] = "using"]
  /\ UNCHANGED <<turn, poolLoop, gen, slotLoop, value>>

\* wait_for runs out of time, cancels its task and waits until it is over.
FastTimeout(c) ==
  /\ phase[c] = "fast" /\ TimedOut(c)
  /\ CancelTasks(OwnTasks(c), task)
  /\ phase' = [phase EXCEPT ![c] = "retry"]
  /\ UNCHANGED <<turn, poolLoop, gen, slotLoop>>

\* _get_slot goes on to the slow path.
Retry(c) ==
  /\ phase[c] = "retry"
  /\ \A k \in Keys : task[<<c, k>>].st = "none"
  /\ task' = WithSlowTasks(c)
  /\ phase' = [phase EXCEPT ![c] = "slow"]
  /\ UNCHANGED <<turn, poolLoop, gen, slotLoop, value, queue>>

\* _wait_any_slot resumes: one of the tasks that are over is the answer, those
\* that are not are cancelled.
SlowAcquired(c) ==
  /\ phase[c] = "slow"
  /\ \E k \in Keys :
       /\ task[<<c, k>>].st = "done"
       /\ CancelTasks(OwnTasks(c) \ {<<c, k>>}, [task EXCEPT ![<<c, k>>].st = "held"])
  /\ phase' = [phase EXCEPT ![c] = "using"]
  /\ UNCHANGED <<turn, poolLoop, gen, slotLoop>>

\* Mutant of SlowTimeout: a permit is given back that was not taken.
SlowTimeoutReleases(c) ==
  /\ phase[c] = "slow" /\ TimedOut(c)
  /\ \A k \in Keys : task[<<c, k>>].st = "queued"
  /\ \E k \in Keys : /\ gen[k] > 0
                     /\ value' = [value EXCEPT ![<<k, gen[k]>>] = @ + 1]
  /\ task' = [t \in Tasks |-> IF t[1] = c THEN NoTask ELSE task[t]]
  /\ queue' = [s \in Semaphores |-> Without(queue[s], OwnTasks(c))]
  /\ phase' = [phase EXCEPT ![c] = "failed"]
  /\ UNCHANGED <<turn, poolLoop, gen, slotLoop>>

\* No key in time.
SlowTimeout(c) ==
  /\ phase[c] = "slow" /\ TimedOut(c)
  /\ CancelTasks(OwnTasks(c), task)
  /\ phase' = [phase EXCEPT ![c] = "failed"]
  /\ UNCHANGED <<turn, poolLoop, gen, slotLoop>>

\* Mutant of Release: the counter is corrected by hand, and nobody is woken.
ReleaseSilent(c) ==
  /\ phase[c] = "using"
  /\ \E k \in Keys :
       /\ task[<<c, k>>].st = "held"
       /\ Bind(c, {k})
       /\ value' = [value EXCEPT ![<<k, gen'[k]>>] = @ + 1]
       /\ task' = [task EXCEPT ![<<c, k>>] = NoTask]
  /\ phase' = [phase EXCEPT ![c] = "done"]
  /\ UNCHANGED <<turn, poolLoop, queue>>

\* The block of acquire() ends, in whatever way: _KeySlot.release, on the
\* semaphore the slot has now.
Release(c) ==
  /\ phase[c] = "using"
  /\ \E k \in Keys :
       /\ task[<<c, k>>].st = "held"
       /\ Bind(c, {k})
       /\ Handover(<<k, gen'[k]>>, [task EXCEPT ![<<c, k>>] = NoTask])
  /\ phase' = [phase EXCEPT ![c] = "done"]
  /\ UNCHANGED <<turn, poolLoop>>

\* The task of the request is cancelled before it has a permit.  wait_for
\* cancels its task too, unless that is over (FastAcquired); asyncio.wait
\* leaves its tasks alone.
Cancel(c) ==
  /\ c \in Cancellable
  /\ \/ /\ phase[c] = "fast" /\ ~HasDone(c)
        /\ CancelTasks(OwnTasks(c), task)
     \/ /\ phase[c] \in {"retry", "slow"}
        /\ UNCHANGED <<task, queue, value>>
  /\ phase' = [phase EXCEPT ![c] = "cancelled"]
  /\ UNCHANGED <<turn, poolLoop, gen, slotLoop>>

Step(c) ==
  \/ EnterFast(c) \/ EnterSlow(c)
  \/ \E k \in Keys : Start(c, k) \/ Resume(c, k) \/ GiveBack(c, k)
  \/ FastAcquired(c) \/ Retry(c) \/ SlowAcquired(c) \/ Release(c)

Timeout(c) == FastTimeout(c) \/ SlowTimeout(c)

Next == \E c \in Calls : Step(c) \/ Timeout(c) \/ Cancel(c)

Spec == Init /\ [][Next]_vars

-----------------------------------------------------------------------------
(* Properties *)

\* Types of the pool, its semaphores and its tasks; a queue is a sequence by
\* the operators that make it.
TypeOK ==
  /\ phase \in [Calls -> Phases]
  /\ turn \in Keys
  /\ poolLoop \in {LoopOf[c] : c \in Calls} \cup {NoLoop}
  /\ slotLoop \in [Keys -> {LoopOf[c] : c \in Calls} \cup {NoLoop}]
  /\ gen \in [Keys -> 0..MaxGen]
  /\ value \in [Semaphores -> Nat]
  /\ task \in [Tasks -> [st : TaskStates, gen : 0..MaxGen]]

Users(k) == {c \in Calls : task[<<c, k>>].st = "held"}

\* The reason for the pool: at no time do more than max_concurrent_per_key
\* requests use a key, however they got their permit, and whatever timed out or
\* was cancelled meanwhile.
WithinLimit == \A k \in Keys : Cardinality(Users(k)) <= Permits

\* The tasks that have a permit of semaphore s.
Takers(s) ==
  {t \in Tasks : /\ task[t].st \in {"granted", "recalled", "done", "held"}
                 /\ SemOf(t) = s}

\* No permit is made and none is forgotten by a semaphore: each is free or in
\* the hands of one task, while permits pass from releases to waiters and come
\* back from waiters that were cancelled in that moment.
PermitsAccounted ==
  \A s \in Semaphores : value[s] + Cardinality(Takers(s)) = Permits

\* A free permit never waits beside a waiter: someone is on the way who will
\* pass it on.
NoIdlePermit ==
  \A s \in Semaphores :
    value[s] > 0 /\ queue[s] # << >>
      => \E t \in Tasks : task[t].st \in {"granted", "recalled"} /\ SemOf(t) = s

\* "On exit the permit goes back by itself" (key_pool.py:76): a permit that was
\* taken is used, or its request is about to pick it up.
NothingLost ==
  \A c \in Calls, k \in Keys :
    task[<<c, k>>].st = "done" => phase[c] \in {"fast", "slow"}

=============================================================================
