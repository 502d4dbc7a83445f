---------------------------- MODULE KeyPoolProofs ----------------------------
(***************************************************************************)
(* The limit of the key pool, for any number of keys, permits and          *)
(* requests, when all requests run in one event loop: the invariant is     *)
(* that every semaphore's permits are free or taken by one task each.      *)
(***************************************************************************)
EXTENDS KeyPool, FiniteSetTheorems, WellFoundedInduction, TLAPS

OneEventLoop == \A c, d \in Calls : LoopOf[c] = LoopOf[d]

Taking == {"granted", "recalled", "done", "held"}

\* What the accounts rest on: the shape of the tasks, and that slots are bound
\* once, so that a task's semaphore is the first of its slot.
Shape ==
  /\ task \in [Tasks -> [st : TaskStates, gen : 0..MaxGen]]
  /\ value \in [Semaphores -> Nat]

BoundOnce ==
  /\ gen \in [Keys -> 0..1]
  /\ \A k \in Keys : gen[k] = 1 => \A c \in Calls : slotLoop[k] = LoopOf[c]
  /\ \A t \in Tasks : /\ task[t].gen \in 0..1
                      /\ task[t].st \notin {"none", "new"} => task[t].gen = 1

\* A request that has not begun has no tasks, so none is overwritten.
Fresh ==
  \A c \in Calls, k \in Keys : phase[c] = "idle" => task[<<c, k>>].st = "none"

LimitInv == Shape /\ BoundOnce /\ Fresh /\ PermitsAccounted

\* The tasks are finitely many, and so are those that took a permit.
LEMMA FiniteTakers ==
  ASSUME NEW s \in Semaphores
  PROVE  IsFiniteSet(Takers(s)) /\ Cardinality(Takers(s)) \in Nat
<1>1. IsFiniteSet(Keys)
  BY PoolConstants, FS_Interval DEF Keys
<1>2. IsFiniteSet(Tasks)
  BY <1>1, PoolConstants, FS_Product DEF Tasks
<1>3. Takers(s) \subseteq Tasks
  BY DEF Takers
<1> QED BY <1>2, <1>3, FS_Subset, FS_CardinalityType

\* In one event loop a slot that is bound stays bound to the same semaphore.
LEMMA BindOnce ==
  ASSUME BoundOnce, OneEventLoop, NEW c \in Calls, NEW K \in SUBSET Keys, Bind(c, K)
  PROVE  /\ gen' \in [Keys -> 0..1]
         /\ \A k \in Keys : gen'[k] = 1 => \A d \in Calls : slotLoop'[k] = LoopOf[d]
         /\ \A k \in K : gen'[k] = 1
<1>1. gen' = [k \in Keys |-> IF k \in K /\ (gen[k] = 0 \/ slotLoop[k] # LoopOf[c])
                               THEN gen[k] + 1 ELSE gen[k]]
  BY DEF Bind, BoundGen
<1>2. slotLoop' = [k \in Keys |-> IF k \in K THEN LoopOf[c] ELSE slotLoop[k]]
  BY DEF Bind, BoundLoop
<1>3. \A k \in Keys : gen[k] \in 0..1
  BY DEF BoundOnce
<1>4. \A k \in Keys : /\ gen'[k] \in 0..1
                      /\ k \in K => gen'[k] = 1
                      /\ k \notin K => gen'[k] = gen[k]
  BY <1>1, <1>3 DEF BoundOnce
<1>5. ASSUME NEW k \in Keys, gen'[k] = 1, NEW d \in Calls
      PROVE  slotLoop'[k] = LoopOf[d]
  BY <1>2, <1>4, <1>5 DEF BoundOnce, OneEventLoop
<1> QED BY <1>1, <1>4, <1>5

\* A permit that comes back is free or goes to the first waiter.
LEMMA HandoverAccounts ==
  ASSUME LimitInv, NEW s \in Semaphores, NEW t \in Tasks,
         task[t].st \in {"recalled", "held"}, SemOf(t) = s,
         Handover(s, [task EXCEPT ![t] = NoTask])
  PROVE  /\ Shape' /\ PermitsAccounted'
         /\ \A u \in Tasks : /\ task'[u].gen \in 0..1
                             /\ task'[u].st \notin {"none", "new"} => task'[u].gen = 1
                             /\ task[u].st = "none" => task'[u].st = "none"
<1> DEFINE T == [task EXCEPT ![t] = NoTask]
<1> USE DEF LimitInv
<1>0. t \in Takers(s)
  BY DEF Takers
<1>a. NoTask \in [st : TaskStates, gen : 0..MaxGen]
  BY PoolConstants DEF NoTask, TaskStates
<1>1. CASE queue[s] = << >>
  <2>1. value' = [value EXCEPT ![s] = @ + 1] /\ task' = T
    BY <1>1 DEF Handover
  <2>2. Shape'
    BY <2>1, <1>a DEF Shape
  <2>3. \A u \in Tasks : task'[u] = IF u = t THEN NoTask ELSE task[u]
    BY <2>1 DEF Shape
  <2>4. ASSUME NEW r \in Semaphores
        PROVE  Takers(r)' = Takers(r) \ {t}
    BY <2>3 DEF Takers, SemOf, NoTask
  <2>5. ASSUME NEW r \in Semaphores
        PROVE  value'[r] + Cardinality(Takers(r)') = Permits
    <3>1. value[r] + Cardinality(Takers(r)) = Permits /\ value[r] \in Nat
      BY DEF PermitsAccounted, Shape
    <3>2. CASE r = s
      <4>1. Cardinality(Takers(r) \ {t}) = Cardinality(Takers(r)) - 1
        BY <3>2, <1>0, FiniteTakers, FS_RemoveElement
      <4>2. value'[r] = value[r] + 1 /\ Cardinality(Takers(r)) \in Nat
        BY <3>2, <2>1, FiniteTakers DEF Shape
      <4>3. Takers(r)' = Takers(r) \ {t}
        BY <2>4
      <4> HIDE DEF LimitInv, T
      <4> QED BY <4>1, <4>2, <4>3, <3>1
    <3>3. CASE r # s
      <4>1. Takers(r)' = Takers(r)
        BY <3>3, <2>4 DEF Takers
      <4> QED BY <4>1, <3>1, <3>3, <2>1 DEF Shape
    <3> QED BY <3>2, <3>3
  <2>6. PermitsAccounted'
    BY <2>5 DEF PermitsAccounted
  <2>7. \A u \in Tasks : /\ task'[u].gen \in 0..1
                         /\ task'[u].st \notin {"none", "new"} => task'[u].gen = 1
                         /\ task[u].st = "none" => task'[u].st = "none"
    BY <2>3 DEF BoundOnce, NoTask
  <2> QED BY <2>2, <2>6, <2>7
<1>2. CASE queue[s] # << >>
  <2>1. PICK w \in Tasks : /\ T[w].st = "queued" /\ SemOf(w) = s
                           /\ task' = [T EXCEPT ![w].st = "granted"]
                           /\ value' = value
    BY <1>2 DEF Handover
  <2>2. w # t /\ task[w].st = "queued" /\ w \notin Takers(s)
    BY <2>1 DEF Shape, NoTask, Takers
  <2>3. \A u \in Tasks : task'[u] = IF u = t THEN NoTask
                                    ELSE IF u = w THEN [task[w] EXCEPT !.st = "granted"]
                                    ELSE task[u]
    BY <2>1, <2>2 DEF Shape
  <2>4. Shape'
    BY <2>1, <2>2, <1>a DEF Shape, TaskStates
  <2>5. ASSUME NEW r \in Semaphores
        PROVE  value'[r] + Cardinality(Takers(r)') = Permits
    <3>1. value[r] + Cardinality(Takers(r)) = Permits /\ value[r] \in Nat
      BY DEF PermitsAccounted, Shape
    <3>2. CASE r = s
      <4>1. Takers(r)' = (Takers(r) \ {t}) \cup {w}
        BY <3>2, <2>1, <2>2, <2>3 DEF Takers, SemOf, NoTask, Shape
      <4>2. Cardinality(Takers(r) \ {t}) = Cardinality(Takers(r)) - 1
            /\ IsFiniteSet(Takers(r) \ {t})
        BY <3>2, <1>0, FiniteTakers, FS_RemoveElement
      <4>3. Cardinality((Takers(r) \ {t}) \cup {w}) = Cardinality(Takers(r) \ {t}) + 1
        <5>1. w \notin Takers(r) \ {t}
          BY <3>2, <2>2
        <5> QED BY <5>1, <4>2, FS_AddElement
      <4>4. Cardinality(Takers(r)) \in Nat
        BY FiniteTakers
      <4> QED BY <4>1, <4>2, <4>3, <4>4, <3>1, <2>1
    <3>3. CASE r # s
      <4>1. Takers(r)' = Takers(r)
        BY <3>3, <2>1, <2>2, <2>3 DEF Takers, SemOf, NoTask, Shape
      <4> QED BY <4>1, <3>1, <2>1
    <3> QED BY <3>2, <3>3
  <2>6. PermitsAccounted'
    BY <2>5 DEF PermitsAccounted
  <2>7. \A u \in Tasks : /\ task'[u].gen \in 0..1
                         /\ task'[u].st \notin {"none", "new"} => task'[u].gen = 1
                         /\ task[u].st = "none" => task'[u].st = "none"
    BY <2>2, <2>3 DEF BoundOnce, NoTask, Shape
  <2> QED BY <2>4, <2>6, <2>7
<1> QED BY <1>1, <1>2

\* A waiter that resumes takes note of its permit, and may pass on another.
LEMMA ResumeAccounts ==
  ASSUME LimitInv, NEW s \in Semaphores, NEW t \in Tasks,
         task[t].st = "granted", SemOf(t) = s,
         WakeNext(s, [task EXCEPT ![t].st = "done"])
  PROVE  /\ Shape' /\ PermitsAccounted'
         /\ \A u \in Tasks : /\ task'[u].gen \in 0..1
                             /\ task'[u].st \notin {"none", "new"} => task'[u].gen = 1
                             /\ task[u].st = "none" => task'[u].st = "none"
<1> DEFINE T == [task EXCEPT ![t].st = "done"]
<1> USE DEF LimitInv
<1>1. CASE value[s] = 0 \/ queue[s] = << >>
  <2>1. value' = value /\ task' = T
    BY <1>1 DEF WakeNext, Shape
  <2>2. \A u \in Tasks : /\ task'[u].gen = task[u].gen
                         /\ u # t => task'[u].st = task[u].st
                         /\ u = t => task'[u].st = "done"
    BY <2>1 DEF Shape
  <2>3. Shape'
    BY <2>1 DEF Shape, TaskStates
  <2>4. \A r \in Semaphores : Takers(r)' = Takers(r)
    BY <2>2 DEF Takers, SemOf
  <2>5. PermitsAccounted'
    BY <2>1, <2>4 DEF PermitsAccounted
  <2>6. \A u \in Tasks : /\ task'[u].gen \in 0..1
                         /\ task'[u].st \notin {"none", "new"} => task'[u].gen = 1
                         /\ task[u].st = "none" => task'[u].st = "none"
    BY <2>2 DEF BoundOnce
  <2> QED BY <2>3, <2>5, <2>6
<1>2. CASE value[s] > 0 /\ queue[s] # << >>
  <2>1. PICK w \in Tasks : /\ T[w].st = "queued" /\ SemOf(w) = s
                           /\ task' = [T EXCEPT ![w].st = "granted"]
                           /\ value' = [value EXCEPT ![s] = @ - 1]
    BY <1>2 DEF WakeNext, Shape
  <2>2. w # t /\ task[w].st = "queued" /\ w \notin Takers(s) /\ SemOf(w) = s
    BY <2>1 DEF Shape, Takers
  <2>3. \A u \in Tasks : /\ task'[u].gen = task[u].gen
                         /\ u \notin {t, w} => task'[u].st = task[u].st
                         /\ u = t => task'[u].st = "done"
                         /\ u = w => task'[u].st = "granted"
                         /\ SemOf(u)' = SemOf(u)
    BY <2>1, <2>2 DEF Shape, SemOf
  <2>4. Shape'
    <3>1. task' \in [Tasks -> [st : TaskStates, gen : 0..MaxGen]]
      BY <2>1, <2>2 DEF Shape, TaskStates
    <3>2. value' \in [Semaphores -> Nat]
      BY <2>1, <1>2 DEF Shape
    <3> QED BY <3>1, <3>2 DEF Shape
  <2>5. ASSUME NEW r \in Semaphores
        PROVE  value'[r] + Cardinality(Takers(r)') = Permits
    <3>1. value[r] + Cardinality(Takers(r)) = Permits /\ value[r] \in Nat
      BY DEF PermitsAccounted, Shape
    <3>2. CASE r = s
      <4>1. Takers(r)' = Takers(r) \cup {w}
        BY <3>2, <2>2, <2>3 DEF Takers
      <4>2. Cardinality(Takers(r) \cup {w}) = Cardinality(Takers(r)) + 1
        BY <3>2, <2>2, FiniteTakers, FS_AddElement
      <4>3. value'[r] = value[r] - 1 /\ Cardinality(Takers(r)) \in Nat
        BY <3>2, <2>1, FiniteTakers DEF Shape
      <4> QED BY <4>1, <4>2, <4>3, <3>1
    <3>3. CASE r # s
      <4>1. Takers(r)' = Takers(r)
        BY <3>3, <2>2, <2>3 DEF Takers
      <4> QED BY <4>1, <3>1, <3>3, <2>1 DEF Shape
    <3> QED BY <3>2, <3>3
  <2>6. PermitsAccounted'
    BY <2>5 DEF PermitsAccounted
  <2>7. \A u \in Tasks : /\ task'[u].gen \in 0..1
                         /\ task'[u].st \notin {"none", "new"} => task'[u].gen = 1
                         /\ task[u].st = "none" => task'[u].st = "none"
    BY <2>2, <2>3 DEF BoundOnce
  <2> QED BY <2>4, <2>6, <2>7
<1>3. value[s] \in Nat
  BY DEF Shape
<1> QED BY <1>1, <1>2, <1>3

\* A task that runs for the first time takes a permit, or takes none.
LEMMA StartAccounts ==
  ASSUME LimitInv, OneEventLoop, NEW c \in Calls, NEW k \in Keys, Start(c, k)
  PROVE  LimitInv'
<1> DEFINE t == <<c, k>>
           g == IF task[t].gen = 0 THEN gen'[k] ELSE task[t].gen
           s == <<k, g>>
<1> USE DEF LimitInv
<1>1. t \in Tasks /\ task[t].st = "new"
  BY DEF Tasks, Start
<1>2. /\ gen' \in [Keys -> 0..1]
      /\ \A j \in Keys : gen'[j] = 1 => \A d \in Calls : slotLoop'[j] = LoopOf[d]
      /\ g = 1
  <2>1. CASE task[t].gen = 0
    <3>1. Bind(c, {k})
      BY <2>1 DEF Start
    <3> QED BY <2>1, <3>1, BindOnce
  <2>2. CASE task[t].gen # 0
    <3>1. gen' = gen /\ slotLoop' = slotLoop
      BY <2>2 DEF Start
    <3> QED BY <2>2, <3>1, <1>1 DEF BoundOnce
  <2> QED BY <2>1, <2>2
<1>3. s \in Semaphores /\ g \in 0..MaxGen
  BY <1>2, PoolConstants DEF Semaphores
<1>4. t \notin Takers(s)
  BY <1>1 DEF Takers
<1>7. phase' = phase /\ phase[c] # "idle"
  BY <1>1 DEF Start, Fresh
<1>5. CASE /\ ~Locked(s)
           /\ value' = [value EXCEPT ![s] = @ - 1]
           /\ task' = [task EXCEPT ![t] = [st |-> "done", gen |-> g]]
  <2>1. value[s] > 0
    BY <1>5, <1>3 DEF Locked, Shape
  <2>2. value' \in [Semaphores -> Nat]
    BY <1>5, <2>1, <1>3 DEF Shape
  <2>3. task' \in [Tasks -> [st : TaskStates, gen : 0..MaxGen]]
    BY <1>5, <1>1, <1>3 DEF Shape, TaskStates
  <2>4. \A u \in Tasks : task'[u] = IF u = t THEN [st |-> "done", gen |-> g] ELSE task[u]
    BY <1>5 DEF Shape
  <2>5. ASSUME NEW r \in Semaphores
        PROVE  value'[r] + Cardinality(Takers(r)') = Permits
    <3>1. value[r] + Cardinality(Takers(r)) = Permits /\ value[r] \in Nat
      BY DEF PermitsAccounted, Shape
    <3>2. CASE r = s
      <4>1. Takers(r)' = Takers(r) \cup {t}
        BY <3>2, <2>4, <1>1 DEF Takers, SemOf
      <4>2. Cardinality(Takers(r) \cup {t}) = Cardinality(Takers(r)) + 1
        BY <3>2, <1>3, <1>4, FiniteTakers, FS_AddElement
      <4>3. value'[r] = value[r] - 1 /\ Cardinality(Takers(r)) \in Nat
        BY <3>2, <1>3, <1>5, FiniteTakers DEF Shape
      <4> QED BY <4>1, <4>2, <4>3, <3>1
    <3>3. CASE r # s
      <4>1. Takers(r)' = Takers(r)
        BY <3>3, <2>4, <1>1 DEF Takers, SemOf
      <4>2. value'[r] = value[r]
        BY <3>3, <1>5 DEF Shape
      <4> QED BY <4>1, <4>2, <3>1
    <3> QED BY <3>2, <3>3
  <2>6. BoundOnce' /\ Fresh'
    <3>1. \A u \in Tasks : /\ task'[u].gen \in 0..1
                           /\ task'[u].st \notin {"none", "new"} => task'[u].gen = 1
                           /\ u # t => task'[u] = task[u]
      BY <2>4, <1>2 DEF BoundOnce
    <3>2. BoundOnce'
      BY <3>1, <1>2 DEF BoundOnce
    <3>3. ASSUME NEW d \in Calls, NEW j \in Keys, phase'[d] = "idle"
          PROVE  task'[<<d, j>>].st = "none"
      BY <3>1, <3>3, <1>7 DEF Fresh, Tasks
    <3> QED BY <3>2, <3>3 DEF Fresh
  <2> QED BY <2>2, <2>3, <2>5, <2>6 DEF Shape, PermitsAccounted
<1>6. CASE /\ value' = value
           /\ task' = [task EXCEPT ![t] = [st |-> "queued", gen |-> g]]
  <2>1. task' \in [Tasks -> [st : TaskStates, gen : 0..MaxGen]]
    BY <1>6, <1>1, <1>3 DEF Shape, TaskStates
  <2>2. \A u \in Tasks : task'[u] = IF u = t THEN [st |-> "queued", gen |-> g] ELSE task[u]
    BY <1>6 DEF Shape
  <2>3. \A r \in Semaphores : Takers(r)' = Takers(r)
    BY <2>2, <1>1 DEF Takers, SemOf
  <2>4. BoundOnce' /\ Fresh'
    <3>1. \A u \in Tasks : /\ task'[u].gen \in 0..1
                           /\ task'[u].st \notin {"none", "new"} => task'[u].gen = 1
                           /\ u # t => task'[u] = task[u]
      BY <2>2, <1>2 DEF BoundOnce
    <3>2. BoundOnce'
      BY <3>1, <1>2 DEF BoundOnce
    <3>3. ASSUME NEW d \in Calls, NEW j \in Keys, phase'[d] = "idle"
          PROVE  task'[<<d, j>>].st = "none"
      BY <3>1, <3>3, <1>7 DEF Fresh, Tasks
    <3> QED BY <3>2, <3>3 DEF Fresh
  <2> QED BY <2>1, <2>3, <2>4, <1>6 DEF Shape, PermitsAccounted
<1> QED BY <1>5, <1>6 DEF Start

\* The accounts do not notice a step after which the same tasks have permits.
LEMMA SameTakers ==
  ASSUME LimitInv, value' = value,
         task' \in [Tasks -> [st : TaskStates, gen : 0..MaxGen]],
         \A u \in Tasks : /\ task'[u].st \in Taking <=> task[u].st \in Taking
                          /\ task[u].st \in Taking => task'[u].gen = task[u].gen
  PROVE  Shape' /\ PermitsAccounted'
<1>1. \A r \in Semaphores : Takers(r)' = Takers(r)
  BY DEF Takers, SemOf, Taking
<1> QED BY <1>1 DEF LimitInv, Shape, PermitsAccounted

\* What cancelling does to a task: a permit granted stays with it until it runs.
LEMMA CancelledTask ==
  ASSUME LimitInv, NEW u \in Tasks
  PROVE  /\ Cancelled(u) \in [st : TaskStates, gen : 0..MaxGen]
         /\ Cancelled(u).st \in Taking <=> task[u].st \in Taking
         /\ task[u].st \in Taking => Cancelled(u).gen = task[u].gen
         /\ Cancelled(u).gen \in 0..1
         /\ Cancelled(u).st \notin {"none", "new"} => Cancelled(u).gen = 1
         /\ task[u].st = "none" => Cancelled(u).st = "none"
<1>1. /\ task[u] \in [st : TaskStates, gen : 0..MaxGen]
      /\ task[u].gen \in 0..1
      /\ task[u].st \notin {"none", "new"} => task[u].gen = 1
  BY DEF LimitInv, Shape, BoundOnce
<1>2. CASE task[u].st \in {"new", "queued"}
  <2>1. Cancelled(u) = NoTask
    BY <1>2 DEF Cancelled
  <2> QED BY <2>1, <1>1, <1>2, PoolConstants DEF NoTask, Taking, TaskStates
<1>3. CASE task[u].st = "granted"
  <2>1. Cancelled(u) = [task[u] EXCEPT !.st = "recalled"]
    BY <1>3 DEF Cancelled
  <2> QED BY <2>1, <1>1, <1>3 DEF Taking, TaskStates
<1>4. CASE task[u].st \notin {"new", "queued", "granted"}
  <2>1. Cancelled(u) = task[u]
    BY <1>4 DEF Cancelled
  <2> QED BY <2>1, <1>1
<1> QED BY <1>2, <1>3, <1>4

\* Cancelling the tasks of S, while the others stay as they are or one of them,
\* t, hands its permit to its request.
LEMMA CancelAccounts ==
  ASSUME LimitInv, NEW S \in SUBSET Tasks, NEW T, CancelTasks(S, T),
         \/ T = task
         \/ \E t \in Tasks : task[t].st = "done" /\ T = [task EXCEPT ![t].st = "held"]
  PROVE  /\ Shape' /\ PermitsAccounted'
         /\ \A u \in Tasks : /\ task'[u].gen \in 0..1
                             /\ task'[u].st \notin {"none", "new"} => task'[u].gen = 1
                             /\ task[u].st = "none" => task'[u].st = "none"
<1>1. /\ value' = value
      /\ task' = [u \in Tasks |-> IF u \in S THEN Cancelled(u) ELSE T[u]]
  BY DEF CancelTasks
<1>2. \A u \in Tasks : /\ T[u] \in [st : TaskStates, gen : 0..MaxGen]
                       /\ T[u].st \in Taking <=> task[u].st \in Taking
                       /\ T[u].gen = task[u].gen
                       /\ T[u].gen \in 0..1
                       /\ T[u].st \notin {"none", "new"} => T[u].gen = 1
                       /\ task[u].st = "none" => T[u].st = "none"
  <2>1. CASE T = task
    BY <2>1 DEF LimitInv, Shape, BoundOnce
  <2>2. CASE \E t \in Tasks : task[t].st = "done" /\ T = [task EXCEPT ![t].st = "held"]
    <3>1. PICK t \in Tasks : task[t].st = "done" /\ T = [task EXCEPT ![t].st = "held"]
      BY <2>2
    <3>2. \A u \in Tasks : /\ task[u] \in [st : TaskStates, gen : 0..MaxGen]
                           /\ task[u].gen \in 0..1
                           /\ task[u].st \notin {"none", "new"} => task[u].gen = 1
      BY DEF LimitInv, Shape, BoundOnce
    <3>3. \A u \in Tasks : T[u] = IF u = t THEN [task[u] EXCEPT !.st = "held"] ELSE task[u]
      BY <3>1 DEF LimitInv, Shape
    <3> QED BY <3>1, <3>2, <3>3 DEF Taking, TaskStates
  <2> QED BY <2>1, <2>2
<1>3. \A u \in Tasks : /\ task'[u] \in [st : TaskStates, gen : 0..MaxGen]
                       /\ task'[u].st \in Taking <=> task[u].st \in Taking
                       /\ task[u].st \in Taking => task'[u].gen = task[u].gen
                       /\ task'[u].gen \in 0..1
                       /\ task'[u].st \notin {"none", "new"} => task'[u].gen = 1
                       /\ task[u].st = "none" => task'[u].st = "none"
  <2> SUFFICES ASSUME NEW u \in Tasks
               PROVE  /\ task'[u] \in [st : TaskStates, gen : 0..MaxGen]
                      /\ task'[u].st \in Taking <=> task[u].st \in Taking
                      /\ task[u].st \in Taking => task'[u].gen = task[u].gen
                      /\ task'[u].gen \in 0..1
                      /\ task'[u].st \notin {"none", "new"} => task'[u].gen = 1
                      /\ task[u].st = "none" => task'[u].st = "none"
    OBVIOUS
  <2>1. CASE u \in S
    <3>1. task'[u] = Cancelled(u)
      BY <2>1, <1>1
    <3> QED BY <3>1, CancelledTask
  <2>2. CASE u \notin S
    <3>1. task'[u] = T[u]
      BY <2>2, <1>1
    <3> QED BY <3>1, <1>2
  <2> QED BY <2>1, <2>2
<1>4. task' \in [Tasks -> [st : TaskStates, gen : 0..MaxGen]]
  BY <1>1, <1>3
<1> QED BY <1>1, <1>3, <1>4, SameTakers

\* The steps of a request.
LEMMA RequestSteps ==
  ASSUME LimitInv, OneEventLoop, NEW c \in Calls, phase \in [Calls -> Phases],
         \/ EnterFast(c) \/ EnterSlow(c) \/ FastAcquired(c) \/ Retry(c)
         \/ SlowAcquired(c) \/ Release(c) \/ Timeout(c) \/ Cancel(c)
  PROVE  LimitInv'
<1> USE DEF LimitInv
<1>a. /\ \A u \in Tasks : /\ task[u] \in [st : TaskStates, gen : 0..MaxGen]
                          /\ task[u].gen \in 0..1
                          /\ task[u].st \notin {"none", "new"} => task[u].gen = 1
      /\ \A k \in Keys : <<c, k>> \in Tasks
      /\ OwnTasks(c) \subseteq Tasks
  BY DEF Shape, BoundOnce, Tasks, OwnTasks
<1>b. phase'[c] # "idle" /\ \A d \in Calls : phase'[d] = "idle" => phase[d] = "idle"
  BY DEF EnterFast, EnterSlow, FastAcquired, Retry, SlowAcquired, Release, Timeout,
         FastTimeout, SlowTimeout, Cancel, Phases
<1>c. ASSUME gen' = gen, slotLoop' = slotLoop,
             Shape', PermitsAccounted',
             \A u \in Tasks : /\ task'[u].gen \in 0..1
                              /\ task'[u].st \notin {"none", "new"} => task'[u].gen = 1
                              /\ task[u].st = "none" => task'[u].st = "none"
      PROVE  LimitInv'
  BY <1>b, <1>c DEF BoundOnce, Fresh, Tasks
<1>d. \A g \in 0..1 : [st |-> "new", gen |-> g] \in [st : TaskStates, gen : 0..MaxGen]
  BY PoolConstants DEF TaskStates
<1>e. ASSUME value' = value, \A k \in Keys : task[<<c, k>>].st = "none",
             task' \in [Tasks -> [st : TaskStates, gen : 0..MaxGen]],
             \A u \in Tasks : \/ task'[u] = task[u]
                              \/ u[1] = c /\ task'[u].st = "new" /\ task'[u].gen \in 0..1,
             gen' \in [Keys -> 0..1],
             \A j \in Keys : gen'[j] = 1 => \A d \in Calls : slotLoop'[j] = LoopOf[d]
      PROVE  LimitInv'
  <2>1. \A u \in Tasks : u[1] = c => task[u].st = "none"
    BY <1>e DEF Tasks
  <2>2. Shape' /\ PermitsAccounted'
    <3>1. \A u \in Tasks : /\ task'[u].st \in Taking <=> task[u].st \in Taking
                           /\ task[u].st \in Taking => task'[u].gen = task[u].gen
      BY <1>e, <2>1 DEF Taking
    <3> QED BY <3>1, <1>e, SameTakers
  <2>3. BoundOnce'
    BY <1>a, <1>e DEF BoundOnce
  <2>4. Fresh'
    <3> SUFFICES ASSUME NEW d \in Calls, NEW k \in Keys, phase'[d] = "idle"
                 PROVE  task'[<<d, k>>].st = "none"
      BY DEF Fresh
    <3>1. d # c /\ task[<<d, k>>].st = "none" /\ <<d, k>> \in Tasks
      BY <1>b DEF Fresh, Tasks
    <3> QED BY <3>1, <1>e
  <2> QED BY <2>2, <2>3, <2>4
<1>1. CASE EnterFast(c)
  <2>1. PICK k \in Keys :
          /\ Bind(c, Rebound(c) \cup {k})
          /\ task' = [task EXCEPT ![<<c, k>>] = [st |-> "new", gen |-> gen'[k]]]
    BY <1>1 DEF EnterFast
  <2>2. /\ gen' \in [Keys -> 0..1] /\ gen'[k] = 1
        /\ \A j \in Keys : gen'[j] = 1 => \A d \in Calls : slotLoop'[j] = LoopOf[d]
    <3>1. Rebound(c) \cup {k} \in SUBSET Keys
      BY DEF Rebound
    <3> QED BY <2>1, <3>1, BindOnce
  <2>3. value' = value /\ \A j \in Keys : task[<<c, j>>].st = "none"
    BY <1>1 DEF EnterFast, Fresh
  <2>4. task' \in [Tasks -> [st : TaskStates, gen : 0..MaxGen]]
    BY <2>1, <2>2, <1>d DEF Shape
  <2>5. \A u \in Tasks : \/ task'[u] = task[u]
                         \/ u[1] = c /\ task'[u].st = "new" /\ task'[u].gen \in 0..1
    BY <2>1, <2>2 DEF Shape
  <2> QED BY <2>2, <2>3, <2>4, <2>5, <1>e
<1>2. CASE EnterSlow(c)
  <2>1. Bind(c, Rebound(c)) /\ task' = WithSlowTasks(c) /\ value' = value
    BY <1>2 DEF EnterSlow
  <2>2. /\ gen' \in [Keys -> 0..1]
        /\ \A j \in Keys : gen'[j] = 1 => \A d \in Calls : slotLoop'[j] = LoopOf[d]
    <3>1. Rebound(c) \in SUBSET Keys
      BY DEF Rebound
    <3> QED BY <2>1, <3>1, BindOnce
  <2>3. \A j \in Keys : task[<<c, j>>].st = "none"
    BY <1>2 DEF EnterSlow, Fresh
  <2>4. task' \in [Tasks -> [st : TaskStates, gen : 0..MaxGen]]
    BY <2>1, <1>d DEF Shape, WithSlowTasks
  <2>5. \A u \in Tasks : \/ task'[u] = task[u]
                         \/ u[1] = c /\ task'[u].st = "new" /\ task'[u].gen \in 0..1
    BY <2>1 DEF WithSlowTasks
  <2> QED BY <2>1, <2>2, <2>3, <2>4, <2>5, <1>e
<1>3. CASE Retry(c)
  <2>1. /\ task' = WithSlowTasks(c) /\ value' = value
        /\ gen' = gen /\ slotLoop' = slotLoop
        /\ \A j \in Keys : task[<<c, j>>].st = "none"
    BY <1>3 DEF Retry
  <2>4. task' \in [Tasks -> [st : TaskStates, gen : 0..MaxGen]]
    BY <2>1, <1>d DEF Shape, WithSlowTasks
  <2>5. \A u \in Tasks : \/ task'[u] = task[u]
                         \/ u[1] = c /\ task'[u].st = "new" /\ task'[u].gen \in 0..1
    BY <2>1 DEF WithSlowTasks
  <2> QED BY <2>1, <2>4, <2>5, <1>e DEF BoundOnce
<1>4. CASE FastAcquired(c)
  <2>1. PICK k \in Keys : /\ task[<<c, k>>].st = "done"
                          /\ task' = [task EXCEPT ![<<c, k>>].st = "held"]
    BY <1>4 DEF FastAcquired
  <2>2. value' = value /\ gen' = gen /\ slotLoop' = slotLoop
    BY <1>4 DEF FastAcquired
  <2>3. \A u \in Tasks : task'[u] = IF u = <<c, k>> THEN [task[u] EXCEPT !.st = "held"]
                                    ELSE task[u]
    BY <2>1 DEF Shape
  <2>4. task' \in [Tasks -> [st : TaskStates, gen : 0..MaxGen]]
    BY <2>1, <1>a DEF Shape, TaskStates
  <2>5. \A u \in Tasks : /\ task'[u].st \in Taking <=> task[u].st \in Taking
                         /\ task'[u].gen = task[u].gen
                         /\ task'[u].st \notin {"none", "new"} => task'[u].gen = 1
                         /\ task[u].st = "none" => task'[u].st = "none"
    BY <2>1, <2>3, <1>a DEF Taking
  <2>6. Shape' /\ PermitsAccounted'
    BY <2>2, <2>4, <2>5, SameTakers
  <2> QED BY <2>2, <2>5, <2>6, <1>a, <1>c
<1>5. CASE SlowAcquired(c)
  <2>1. PICK k \in Keys :
          /\ task[<<c, k>>].st = "done"
          /\ CancelTasks(OwnTasks(c) \ {<<c, k>>}, [task EXCEPT ![<<c, k>>].st = "held"])
    BY <1>5 DEF SlowAcquired
  <2>2. gen' = gen /\ slotLoop' = slotLoop
    BY <1>5 DEF SlowAcquired
  <2>3. OwnTasks(c) \ {<<c, k>>} \in SUBSET Tasks
    BY <1>a
  <2> QED BY <1>a, <2>1, <2>2, <2>3, CancelAccounts, <1>c
<1>6. CASE Release(c)
  <2>1. PICK k \in Keys :
          /\ task[<<c, k>>].st = "held"
          /\ Bind(c, {k})
          /\ Handover(<<k, gen'[k]>>, [task EXCEPT ![<<c, k>>] = NoTask])
    BY <1>6 DEF Release
  <2>2. /\ gen' \in [Keys -> 0..1] /\ gen'[k] = 1
        /\ \A j \in Keys : gen'[j] = 1 => \A d \in Calls : slotLoop'[j] = LoopOf[d]
    BY <2>1, BindOnce
  <2>3. SemOf(<<c, k>>) = <<k, gen'[k]>> /\ <<k, gen'[k]>> \in Semaphores
    BY <2>1, <2>2, <1>a, PoolConstants DEF SemOf, Semaphores
  <2>4. /\ Shape' /\ PermitsAccounted'
        /\ \A u \in Tasks : /\ task'[u].gen \in 0..1
                            /\ task'[u].st \notin {"none", "new"} => task'[u].gen = 1
                            /\ task[u].st = "none" => task'[u].st = "none"
    BY <1>a, <2>1, <2>3, HandoverAccounts
  <2>5. BoundOnce'
    BY <2>2, <2>4 DEF BoundOnce
  <2>6. Fresh'
    BY <1>b, <2>4 DEF Fresh, Tasks
  <2> QED BY <2>4, <2>5, <2>6
<1>7. CASE Timeout(c)
  <2>1. CancelTasks(OwnTasks(c), task) /\ gen' = gen /\ slotLoop' = slotLoop
    BY <1>7 DEF Timeout, FastTimeout, SlowTimeout
  <2> QED BY <1>a, <2>1, CancelAccounts, <1>c
<1>8. CASE Cancel(c)
  <2>1. gen' = gen /\ slotLoop' = slotLoop
    BY <1>8 DEF Cancel
  <2>2. CASE CancelTasks(OwnTasks(c), task)
    BY <1>a, <2>1, <2>2, CancelAccounts, <1>c
  <2>3. CASE task' = task /\ value' = value
    <3>1. Shape' /\ PermitsAccounted'
      BY <2>3, SameTakers DEF Shape
    <3> QED BY <1>a, <2>1, <2>3, <3>1, <1>c
  <2> QED BY <1>8, <2>2, <2>3 DEF Cancel
<1> QED BY <1>1, <1>2, <1>3, <1>4, <1>5, <1>6, <1>7, <1>8

PhasesOK == phase \in [Calls -> Phases]

LEMMA LimitInit == ASSUME Init PROVE LimitInv /\ PhasesOK
<1>1. PhasesOK
  BY DEF Init, PhasesOK, Phases
<1>2. Shape /\ BoundOnce /\ Fresh
  BY PoolConstants DEF Init, Shape, BoundOnce, Fresh, NoTask, TaskStates, Tasks
<1>3. ASSUME NEW s \in Semaphores
      PROVE  value[s] + Cardinality(Takers(s)) = Permits
  <2>1. Takers(s) = {}
    BY DEF Init, Takers, NoTask
  <2> QED BY <2>1, FS_EmptySet, PoolConstants DEF Init
<1> QED BY <1>1, <1>2, <1>3 DEF LimitInv, PermitsAccounted

LEMMA LimitStep ==
  ASSUME LimitInv, PhasesOK, OneEventLoop, [Next]_vars
  PROVE  LimitInv' /\ PhasesOK'
<1>1. CASE UNCHANGED vars
  <2>1. \A r \in Semaphores : Takers(r)' = Takers(r)
    BY <1>1 DEF vars, Takers, SemOf
  <2> QED BY <1>1, <2>1 DEF vars, LimitInv, PhasesOK, Shape, BoundOnce, Fresh, PermitsAccounted
<1>2. ASSUME NEW c \in Calls, Step(c) \/ Timeout(c) \/ Cancel(c)
      PROVE  LimitInv' /\ PhasesOK'
  <2>1. PhasesOK'
    BY <1>2 DEF Step, Timeout, PhasesOK, Phases, EnterFast, EnterSlow, Start, Resume,
         GiveBack, FastAcquired, Retry, SlowAcquired, Release, FastTimeout,
         SlowTimeout, Cancel
  <2>2. ASSUME NEW k \in Keys, Start(c, k)
        PROVE  LimitInv'
    BY <2>2, StartAccounts
  <2>3. ASSUME NEW k \in Keys, Resume(c, k) \/ GiveBack(c, k)
        PROVE  LimitInv'
    <3> DEFINE t == <<c, k>>
    <3>1. /\ t \in Tasks /\ task[t].st \in {"granted", "recalled"}
          /\ UNCHANGED <<phase, gen, slotLoop>>
      BY <2>3 DEF Resume, GiveBack, Tasks
    <3>2. SemOf(t) \in Semaphores
      BY <3>1, PoolConstants DEF LimitInv, BoundOnce, SemOf, Semaphores, Tasks
    <3>3. /\ Shape' /\ PermitsAccounted'
          /\ \A u \in Tasks : /\ task'[u].gen \in 0..1
                              /\ task'[u].st \notin {"none", "new"} => task'[u].gen = 1
                              /\ task[u].st = "none" => task'[u].st = "none"
      <4>1. CASE Resume(c, k)
        BY <4>1, <3>1, <3>2, ResumeAccounts DEF Resume
      <4>2. CASE GiveBack(c, k)
        BY <4>2, <3>1, <3>2, HandoverAccounts DEF GiveBack
      <4> QED BY <2>3, <4>1, <4>2
    <3> QED BY <3>1, <3>3 DEF LimitInv, BoundOnce, Fresh, Tasks
  <2>4. CASE \/ EnterFast(c) \/ EnterSlow(c) \/ FastAcquired(c) \/ Retry(c)
             \/ SlowAcquired(c) \/ Release(c) \/ Timeout(c) \/ Cancel(c)
    BY <2>1, <2>4, RequestSteps DEF PhasesOK
  <2> QED BY <1>2, <2>1, <2>2, <2>3, <2>4 DEF Step
<1> QED BY <1>1, <1>2 DEF Next

\* The users of a key have permits of one semaphore, so the accounts bound them.
LEMMA AccountsLimit ==
  ASSUME LimitInv
  PROVE  WithinLimit
<1> SUFFICES ASSUME NEW k \in Keys
             PROVE  Cardinality(Users(k)) <= Permits
  BY DEF WithinLimit
<1> DEFINE s == <<k, 1>>
           f == [c \in Users(k) |-> <<c, k>>]
<1>1. s \in Semaphores
  BY PoolConstants DEF Semaphores
<1>2. \A c \in Users(k) : <<c, k>> \in Takers(s)
  BY DEF Users, Takers, SemOf, LimitInv, BoundOnce, Tasks
<1>3. f \in Injection(Users(k), Takers(s))
  BY <1>2 DEF Injection, IsInjective
<1>4. Cardinality(Users(k)) <= Cardinality(Takers(s)) /\ IsFiniteSet(Users(k))
  BY <1>1, <1>3, FiniteTakers, FS_Injection
<1>5. /\ value[s] + Cardinality(Takers(s)) = Permits
      /\ value[s] \in Nat /\ Cardinality(Takers(s)) \in Nat
      /\ Cardinality(Users(k)) \in Nat
  BY <1>1, <1>4, FiniteTakers, FS_CardinalityType DEF LimitInv, PermitsAccounted, Shape
<1> QED BY <1>4, <1>5, PoolConstants

\* In one event loop every permit of a semaphore is free or in the hands of one
\* task: _KeySlot.acquire, _wait_any_slot and release neither make one nor forget
\* one, with any number of keys, requests, timeouts and cancellations.
THEOREM AccountsCorrect ==
  ASSUME OneEventLoop
  PROVE  Spec => []PermitsAccounted
<1>1. Init => LimitInv /\ PhasesOK
  BY LimitInit
<1>2. LimitInv /\ PhasesOK /\ [Next]_vars => LimitInv' /\ PhasesOK'
  BY LimitStep
<1>3. LimitInv => PermitsAccounted
  BY DEF LimitInv
<1> QED BY <1>1, <1>2, <1>3, PTL DEF Spec

\* In one event loop no key is ever used by more than Permits requests at once.
THEOREM LimitCorrect ==
  ASSUME OneEventLoop
  PROVE  Spec => []WithinLimit
<1>1. Init => LimitInv /\ PhasesOK
  BY LimitInit
<1>2. LimitInv /\ PhasesOK /\ [Next]_vars => LimitInv' /\ PhasesOK'
  BY LimitStep
<1>3. LimitInv => WithinLimit
  BY AccountsLimit
<1> QED BY <1>1, <1>2, <1>3, PTL DEF Spec

-----------------------------------------------------------------------------
(* Types, for any event loops. *)

LEMMA BindType ==
  ASSUME TypeOK, NEW c \in Calls, NEW K \in SUBSET Keys, Bind(c, K)
  PROVE  /\ gen' \in [Keys -> 0..MaxGen]
         /\ slotLoop' \in [Keys -> {LoopOf[d] : d \in Calls} \cup {NoLoop}]
<1>1. gen' = [k \in Keys |-> IF k \in K /\ (gen[k] = 0 \/ slotLoop[k] # LoopOf[c])
                               THEN gen[k] + 1 ELSE gen[k]]
  BY DEF Bind, BoundGen
<1>2. \A k \in Keys : gen'[k] \in Nat /\ gen'[k] <= MaxGen
  BY <1>1, PoolConstants DEF TypeOK, Bind
<1>3. gen' \in [Keys -> 0..MaxGen]
  BY <1>1, <1>2, PoolConstants
<1> QED
  BY <1>3 DEF TypeOK, Bind, BoundLoop

LEMMA GrantType ==
  ASSUME NEW T \in [Tasks -> [st : TaskStates, gen : 0..MaxGen]], NEW t \in Tasks,
         NEW st \in TaskStates
  PROVE  [T EXCEPT ![t].st = st] \in [Tasks -> [st : TaskStates, gen : 0..MaxGen]]
<1> T[t] \in [st : TaskStates, gen : 0..MaxGen]
  OBVIOUS
<1> [T[t] EXCEPT !.st = st] \in [st : TaskStates, gen : 0..MaxGen]
  OBVIOUS
<1> QED
  OBVIOUS

LEMMA NoTaskType == NoTask \in [st : TaskStates, gen : 0..MaxGen]
  BY PoolConstants DEF NoTask, TaskStates

LEMMA PermitType ==
  ASSUME NEW V \in [Semaphores -> Nat], NEW s
  PROVE  /\ [V EXCEPT ![s] = @ + 1] \in [Semaphores -> Nat]
         /\ V[s] # 0 => [V EXCEPT ![s] = @ - 1] \in [Semaphores -> Nat]
<1>1. CASE s \in Semaphores
  <2> DEFINE n == V[s]
  <2>1. n \in Nat /\ n + 1 \in Nat /\ (n # 0 => n - 1 \in Nat)
    BY <1>1
  <2>2. /\ [V EXCEPT ![s] = @ + 1] = [x \in Semaphores |-> IF x = s THEN n + 1 ELSE V[x]]
        /\ [V EXCEPT ![s] = @ - 1] = [x \in Semaphores |-> IF x = s THEN n - 1 ELSE V[x]]
    BY <1>1
  <2> HIDE DEF n
  <2> QED
    BY <2>1, <2>2 DEF n
<1>2. CASE s \notin Semaphores
  <2> [V EXCEPT ![s] = @ + 1] = V /\ [V EXCEPT ![s] = @ - 1] = V
    BY <1>2
  <2> QED
    OBVIOUS
<1> QED
  BY <1>1, <1>2

LEMMA HandoverType ==
  ASSUME TypeOK, NEW s, NEW T \in [Tasks -> [st : TaskStates, gen : 0..MaxGen]],
         Handover(s, T) \/ WakeNext(s, T)
  PROVE  value' \in [Semaphores -> Nat] /\ task' \in [Tasks -> [st : TaskStates, gen : 0..MaxGen]]
<1>a. value \in [Semaphores -> Nat]
  BY DEF TypeOK
<1>1. \/ value' = value
      \/ value' = [value EXCEPT ![s] = @ + 1]
      \/ value[s] > 0 /\ value' = [value EXCEPT ![s] = @ - 1]
  BY DEF Handover, WakeNext
<1>2. value' \in [Semaphores -> Nat]
  <2>1. CASE value' = value
    BY <1>a, <2>1
  <2>2. CASE value' = [value EXCEPT ![s] = @ + 1]
    BY <1>a, <2>2, PermitType
  <2>3. CASE value[s] > 0 /\ value' = [value EXCEPT ![s] = @ - 1]
    <3>1. CASE s \in Semaphores
      <4> value[s] # 0
        BY <1>a, <2>3, <3>1
      <4> QED
        BY <1>a, <2>3, PermitType
    <3>2. CASE s \notin Semaphores
      BY <1>a, <2>3, <3>2
    <3> QED
      BY <3>1, <3>2
  <2> QED
    BY <1>1, <2>1, <2>2, <2>3
<1>3. \/ task' = T
      \/ \E w \in Tasks : task' = [T EXCEPT ![w].st = "granted"]
  <2>1. CASE Handover(s, T)
    BY <2>1 DEF Handover
  <2>2. CASE WakeNext(s, T)
    BY <2>2 DEF WakeNext
  <2> QED
    BY <2>1, <2>2
<1>4. "granted" \in TaskStates
  BY DEF TaskStates
<1>5. ASSUME NEW w \in Tasks, task' = [T EXCEPT ![w].st = "granted"]
      PROVE  task' \in [Tasks -> [st : TaskStates, gen : 0..MaxGen]]
  BY <1>4, <1>5, GrantType
<1> QED
  BY <1>2, <1>3, <1>5

LEMMA CancelType ==
  ASSUME TypeOK, NEW S, NEW T \in [Tasks -> [st : TaskStates, gen : 0..MaxGen]], CancelTasks(S, T)
  PROVE  value' \in [Semaphores -> Nat] /\ task' \in [Tasks -> [st : TaskStates, gen : 0..MaxGen]]
<1>1. ASSUME NEW t \in Tasks PROVE Cancelled(t) \in [st : TaskStates, gen : 0..MaxGen]
  <2>1. task[t] \in [st : TaskStates, gen : 0..MaxGen]
    BY DEF TypeOK
  <2>2. [task[t] EXCEPT !.st = "recalled"] \in [st : TaskStates, gen : 0..MaxGen]
    BY <2>1 DEF TaskStates
  <2> QED
    BY <2>1, <2>2, NoTaskType DEF Cancelled
<1> QED
  BY <1>1 DEF CancelTasks, TypeOK

LEMMA TypeStep == TypeOK /\ [Next]_vars => TypeOK'
<1> SUFFICES ASSUME TypeOK, NEW c \in Calls, Step(c) \/ Timeout(c) \/ Cancel(c) PROVE TypeOK'
  BY DEF Next, vars, TypeOK
<1> DEFINE Rec == [st : TaskStates, gen : 0..MaxGen]
<1>a. /\ task \in [Tasks -> Rec] /\ \A k \in Keys : <<c, k>> \in Tasks
      /\ {"new", "queued", "done", "held"} \subseteq TaskStates
      /\ {"fast", "retry", "slow", "using", "done", "failed", "cancelled"} \subseteq Phases
      /\ 0 \in 0..MaxGen /\ LoopOf[c] \in {LoopOf[d] : d \in Calls} \cup {NoLoop}
  BY PoolConstants DEF TypeOK, Tasks, TaskStates, Phases
<1>b. phase' \in [Calls -> Phases]
  BY <1>a DEF TypeOK, Step, Timeout, EnterFast, EnterSlow, Start, Resume, GiveBack, FastAcquired, Retry,
              SlowAcquired, Release, FastTimeout, SlowTimeout, Cancel
<1>c. WithSlowTasks(c) \in [Tasks -> Rec]
  BY <1>a DEF WithSlowTasks
<1>1. CASE EnterFast(c)
  <2>1. PICK k \in Keys : /\ turn' = After(k) /\ Bind(c, Rebound(c) \cup {k})
                          /\ task' = [task EXCEPT ![<<c, k>>] = [st |-> "new", gen |-> gen'[k]]]
    BY <1>1 DEF EnterFast
  <2>2. Rebound(c) \cup {k} \in SUBSET Keys
    BY DEF Rebound
  <2>3. gen' \in [Keys -> 0..MaxGen] /\ slotLoop' \in [Keys -> {LoopOf[d] : d \in Calls} \cup {NoLoop}]
    BY <2>1, <2>2, BindType
  <2>4. turn' \in Keys
    BY <2>1, PoolConstants DEF After, Keys
  <2>5. task' \in [Tasks -> Rec]
    BY <1>a, <2>1, <2>3
  <2> QED
    BY <1>a, <1>b, <1>1, <2>3, <2>4, <2>5 DEF EnterFast, TypeOK
<1>2. CASE EnterSlow(c)
  <2>1. Rebound(c) \in SUBSET Keys
    BY DEF Rebound
  <2>2. gen' \in [Keys -> 0..MaxGen] /\ slotLoop' \in [Keys -> {LoopOf[d] : d \in Calls} \cup {NoLoop}]
    BY <1>2, <2>1, BindType DEF EnterSlow
  <2> QED
    BY <1>a, <1>b, <1>c, <1>2, <2>2 DEF EnterSlow, TypeOK
<1>3. ASSUME NEW k \in Keys, Start(c, k) PROVE TypeOK'
  <2>1. gen' \in [Keys -> 0..MaxGen] /\ slotLoop' \in [Keys -> {LoopOf[d] : d \in Calls} \cup {NoLoop}]
    <3>1. CASE task[<<c, k>>].gen = 0
      BY <1>3, <3>1, BindType DEF Start
    <3>2. CASE task[<<c, k>>].gen # 0
      BY <1>3, <3>2 DEF Start, TypeOK
    <3> QED
      BY <3>1, <3>2
  <2> DEFINE g == IF task[<<c, k>>].gen = 0 THEN gen'[k] ELSE task[<<c, k>>].gen
  <2>2. g \in 0..MaxGen
    BY <1>a, <2>1
  <2>3. \/ /\ ~Locked(<<k, g>>)
           /\ value' = [value EXCEPT ![<<k, g>>] = @ - 1]
           /\ task' = [task EXCEPT ![<<c, k>>] = [st |-> "done", gen |-> g]]
        \/ /\ task' = [task EXCEPT ![<<c, k>>] = [st |-> "queued", gen |-> g]]
           /\ value' = value
    BY <1>3 DEF Start
  <2>4. phase' = phase /\ turn' = turn /\ poolLoop' = poolLoop
    BY <1>3 DEF Start
  <2> HIDE DEF g
  <2>5. task' \in [Tasks -> Rec]
    BY <1>a, <2>2, <2>3
  <2>6. value' \in [Semaphores -> Nat]
    <3>1. value \in [Semaphores -> Nat]
      BY DEF TypeOK
    <3>2. CASE /\ ~Locked(<<k, g>>)
               /\ value' = [value EXCEPT ![<<k, g>>] = @ - 1]
      <4> value[<<k, g>>] # 0
        BY <3>2 DEF Locked
      <4> QED
        BY <3>1, <3>2, PermitType
    <3> QED
      BY <2>3, <3>1, <3>2
  <2> QED
    BY <2>1, <2>4, <2>5, <2>6 DEF TypeOK
<1>4. ASSUME NEW k \in Keys, Resume(c, k) PROVE TypeOK'
  <2>1. [task EXCEPT ![<<c, k>>].st = "done"] \in [Tasks -> Rec]
    BY <1>a, GrantType
  <2>2. value' \in [Semaphores -> Nat] /\ task' \in [Tasks -> Rec]
    BY <1>4, <2>1, HandoverType DEF Resume
  <2> QED
    BY <1>4, <2>2 DEF Resume, TypeOK
<1>5. ASSUME NEW k \in Keys, GiveBack(c, k) PROVE TypeOK'
  <2>1. [task EXCEPT ![<<c, k>>] = NoTask] \in [Tasks -> Rec]
    BY <1>a, NoTaskType
  <2>2. value' \in [Semaphores -> Nat] /\ task' \in [Tasks -> Rec]
    BY <1>5, <2>1, HandoverType DEF GiveBack
  <2> QED
    BY <1>5, <2>2 DEF GiveBack, TypeOK
<1>6. CASE FastAcquired(c)
  <2> task' \in [Tasks -> Rec]
    BY <1>a, <1>6, GrantType DEF FastAcquired
  <2> QED
    BY <1>b, <1>6 DEF FastAcquired, TypeOK
<1>7. CASE Retry(c)
  BY <1>b, <1>c, <1>7 DEF Retry, TypeOK
<1>8. CASE SlowAcquired(c)
  <2>1. PICK k \in Keys : CancelTasks(OwnTasks(c) \ {<<c, k>>}, [task EXCEPT ![<<c, k>>].st = "held"])
    BY <1>8 DEF SlowAcquired
  <2>2. [task EXCEPT ![<<c, k>>].st = "held"] \in [Tasks -> Rec]
    BY <1>a, GrantType
  <2>3. value' \in [Semaphores -> Nat] /\ task' \in [Tasks -> Rec]
    BY <2>1, <2>2, CancelType
  <2> QED
    BY <1>b, <1>8, <2>3 DEF SlowAcquired, TypeOK
<1>9. CASE Release(c)
  <2>1. PICK k \in Keys : Bind(c, {k}) /\ Handover(<<k, gen'[k]>>, [task EXCEPT ![<<c, k>>] = NoTask])
    BY <1>9 DEF Release
  <2>2. [task EXCEPT ![<<c, k>>] = NoTask] \in [Tasks -> Rec]
    BY <1>a, NoTaskType
  <2>3. value' \in [Semaphores -> Nat] /\ task' \in [Tasks -> Rec]
    BY <2>1, <2>2, HandoverType
  <2>4. gen' \in [Keys -> 0..MaxGen] /\ slotLoop' \in [Keys -> {LoopOf[d] : d \in Calls} \cup {NoLoop}]
    BY <2>1, BindType
  <2> QED
    BY <1>b, <1>9, <2>3, <2>4 DEF Release, TypeOK
<1>10. ASSUME FastTimeout(c) \/ SlowTimeout(c) PROVE TypeOK'
  <2> value' \in [Semaphores -> Nat] /\ task' \in [Tasks -> Rec]
    BY <1>a, <1>10, CancelType DEF FastTimeout, SlowTimeout
  <2> QED
    BY <1>b, <1>10 DEF FastTimeout, SlowTimeout, TypeOK
<1>11. CASE Cancel(c)
  <2> value' \in [Semaphores -> Nat] /\ task' \in [Tasks -> Rec]
    BY <1>a, <1>11, CancelType DEF Cancel, TypeOK
  <2> QED
    BY <1>b, <1>11 DEF Cancel, TypeOK
<1> HIDE DEF Rec
<1> QED
  BY <1>1, <1>2, <1>3, <1>4, <1>5, <1>6, <1>7, <1>8, <1>9, <1>10, <1>11 DEF Step, Timeout

\* Every variable of the pool has its type, however many event loops use it.
THEOREM TypeCorrect == Spec => []TypeOK
<1>1. Init => TypeOK
  BY PoolConstants DEF Init, TypeOK, Keys, Phases, NoTask, TaskStates
<1> QED
  BY <1>1, TypeStep, PTL DEF Spec
-----------------------------------------------------------------------------
(* Sequences: induction over the length, by the least number that fails. *)

LEMMA LeastNumber ==
  ASSUME NEW S \in SUBSET Nat, S # {}
  PROVE  \E m \in S : \A n \in S : m <= n
<1> DEFINE R == {ss \in Nat \X Nat : ss[1] < ss[2]}
<1>1. IsWellFoundedOn(R, Nat)
  BY NatLessThanWellFounded DEF OpToRel
<1>2. \E m \in S : \A n \in S : <<n, m>> \notin R
  <2> HIDE DEF R
  <2> QED BY <1>1, WFMin
<1>3. \A m, n \in Nat : <<n, m>> \notin R => m <= n
  OBVIOUS
<1> QED BY <1>2, <1>3

\* kept is what Without computes of the first n members of q.
Keeps(kept, q, S, n) ==
  kept = [i \in 0..n |->
            IF i = 0 THEN << >>
            ELSE IF q[i] \in S THEN kept[i - 1] ELSE Append(kept[i - 1], q[i])]

LEMMA WithoutDefined ==
  ASSUME NEW M, NEW q \in Seq(M), NEW S
  PROVE  \E kept : Keeps(kept, q, S, Len(q)) /\ Without(q, S) = kept[Len(q)]
<1> DEFINE Bad == {n \in Nat : ~ \E kept : Keeps(kept, q, S, n)}
<1>1. Bad = {}
  <2> SUFFICES ASSUME Bad # {} PROVE FALSE
    OBVIOUS
  <2>1. PICK m \in Bad : \A n \in Bad : m <= n
    BY LeastNumber
  <2>2. Keeps([i \in 0..0 |-> << >>], q, S, 0)
    BY DEF Keeps
  <2>3. m # 0 /\ m \in Nat
    BY <2>1, <2>2
  <2>4. m - 1 \notin Bad /\ m - 1 \in Nat
    BY <2>1, <2>3
  <2>5. PICK g : Keeps(g, q, S, m - 1)
    BY <2>4
  <2> DEFINE h == [i \in 0..m |-> IF i = 0 THEN << >>
                                  ELSE IF q[i] \in S THEN g[i - 1] ELSE Append(g[i - 1], q[i])]
  <2>6. ASSUME NEW i \in 0..m - 1 PROVE h[i] = g[i]
    <3>1. i \in 0..m
      BY <2>3
    <3>2. g[i] = IF i = 0 THEN << >> ELSE IF q[i] \in S THEN g[i - 1] ELSE Append(g[i - 1], q[i])
      BY <2>5, Zenon DEF Keeps
    <3> QED BY <3>1, <3>2
  <2>7. Keeps(h, q, S, m)
    <3>1. \A i \in 0..m : i # 0 => i - 1 \in 0..m - 1
      BY <2>3
    <3>2. ASSUME NEW i \in 0..m
          PROVE  h[i] = IF i = 0 THEN << >>
                        ELSE IF q[i] \in S THEN h[i - 1] ELSE Append(h[i - 1], q[i])
      <4>1. i # 0 => h[i - 1] = g[i - 1]
        BY <3>1, <2>6
      <4> QED BY <4>1
    <3>3. h = [i \in 0..m |-> IF i = 0 THEN << >>
                              ELSE IF q[i] \in S THEN h[i - 1] ELSE Append(h[i - 1], q[i])]
      BY <3>2, Zenon
    <3> QED BY <3>3, Zenon DEF Keeps
  <2> QED BY <2>1, <2>7
<1>2. Len(q) \in Nat
  OBVIOUS
<1>3. \E kept : Keeps(kept, q, S, Len(q))
  BY <1>1, <1>2
<1> QED BY <1>3 DEF Without, Keeps

\* Without makes a sequence of the members of q, and loses none that is not in S.
LEMMA WithoutKeeps ==
  ASSUME NEW M, NEW q \in Seq(M), NEW S
  PROVE  /\ Without(q, S) \in Seq(M)
         /\ \A i \in 1..Len(q) : q[i] \notin S =>
              \E j \in 1..Len(Without(q, S)) : Without(q, S)[j] = q[i]
         /\ q = << >> => Without(q, S) = << >>
<1>1. PICK kept : Keeps(kept, q, S, Len(q)) /\ Without(q, S) = kept[Len(q)]
  BY WithoutDefined
<1>2. Len(q) \in Nat
  OBVIOUS
<1>3. ASSUME NEW n \in 0..Len(q)
      PROVE  kept[n] = IF n = 0 THEN << >>
                       ELSE IF q[n] \in S THEN kept[n - 1] ELSE Append(kept[n - 1], q[n])
  BY <1>1, Zenon DEF Keeps
<1> DEFINE Holds(n) == /\ kept[n] \in Seq(M)
                       /\ \A i \in 1..n : q[i] \notin S => \E j \in 1..Len(kept[n]) : kept[n][j] = q[i]
           Bad == {n \in 0..Len(q) : ~Holds(n)}
<1>4. Bad = {}
  <2> SUFFICES ASSUME Bad # {} PROVE FALSE
    OBVIOUS
  <2>0. Bad \in SUBSET Nat
    BY <1>2
  <2>1. PICK m \in Bad : \A n \in Bad : m <= n
    BY <2>0, LeastNumber
  <2>2. kept[0] = << >>
    BY <1>2, <1>3
  <2>3. Holds(0)
    BY <2>2
  <2>4. m # 0 /\ m \in 1..Len(q) /\ ~Holds(m)
    BY <1>2, <2>1, <2>3
  <2>5. m - 1 \in 0..Len(q) /\ m - 1 \notin Bad
    BY <1>2, <2>1, <2>4
  <2>6. Holds(m - 1)
    BY <2>5
  <2>7. CASE q[m] \in S
    <3>1. kept[m] = kept[m - 1]
      BY <1>3, <2>4, <2>7
    <3>2. ASSUME NEW i \in 1..m, q[i] \notin S
          PROVE  i \in 1..m - 1
      BY <1>2, <2>4, <2>7, <3>2
    <3> QED BY <2>4, <2>6, <3>1, <3>2
  <2>8. CASE q[m] \notin S
    <3>1. kept[m] = Append(kept[m - 1], q[m])
      BY <1>3, <2>4, <2>8
    <3>2. kept[m - 1] \in Seq(M) /\ q[m] \in M
      BY <2>4, <2>6
    <3>3. kept[m] \in Seq(M)
      BY <3>1, <3>2
    <3>4. ASSUME NEW i \in 1..m, q[i] \notin S
          PROVE  \E j \in 1..Len(kept[m]) : kept[m][j] = q[i]
      <4>1. CASE i = m
        BY <3>1, <3>2, <4>1
      <4>2. CASE i # m
        <5>1. i \in 1..m - 1
          BY <1>2, <2>4, <4>2
        <5>2. PICK j \in 1..Len(kept[m - 1]) : kept[m - 1][j] = q[i]
          BY <2>6, <3>4, <5>1
        <5> QED BY <3>1, <3>2, <5>2
      <4> QED BY <4>1, <4>2
    <3> QED BY <2>4, <3>3, <3>4
  <2> QED BY <2>7, <2>8
<1>5. Holds(Len(q))
  BY <1>2, <1>4
<1>6. ASSUME q = << >> PROVE Without(q, S) = << >>
  <2>1. Len(q) = 0
    BY <1>6
  <2> QED BY <1>1, <1>3, <2>1
<1> QED BY <1>1, <1>5, <1>6

-----------------------------------------------------------------------------
(* A free permit beside a waiter, for any event loops. *)

Records == [st : TaskStates, gen : 0..MaxGen]

\* Tasks that were granted a permit and have not run: they pass on what came back meanwhile.
Passing == {"granted", "recalled"}

\* A task whose future waits in a semaphore is in the queue of that semaphore.
Waiting ==
  /\ queue \in [Semaphores -> Seq(Tasks)]
  /\ \A s \in Semaphores, t \in Tasks :
       task[t].st = "queued" /\ SemOf(t) = s => \E i \in 1..Len(queue[s]) : queue[s][i] = t

IdleInv == TypeOK /\ Fresh /\ Waiting /\ NoIdlePermit

\* A step that touches neither queues nor permits, and no task that passes on a permit.
LEMMA QuietIdle ==
  ASSUME IdleInv, value' = value, queue' = queue,
         \A u \in Tasks : \/ task'[u] = task[u]
                          \/ task[u].st \notin Passing /\ task'[u].st # "queued"
  PROVE  Waiting' /\ NoIdlePermit'
<1>1. Waiting'
  BY DEF IdleInv, Waiting, SemOf
<1>2. NoIdlePermit'
  <2> SUFFICES ASSUME NEW s \in Semaphores, value[s] > 0, queue[s] # << >>
               PROVE  \E t \in Tasks : task'[t].st \in Passing /\ SemOf(t)' = s
    BY DEF NoIdlePermit, Passing
  <2>1. PICK t \in Tasks : task[t].st \in Passing /\ SemOf(t) = s
    BY DEF IdleInv, NoIdlePermit, Passing
  <2>2. task'[t] = task[t]
    BY <2>1
  <2> QED BY <2>1, <2>2 DEF SemOf
<1> QED BY <1>1, <1>2

LEMMA TailOf ==
  ASSUME NEW A, NEW q \in Seq(A), q # << >>
  PROVE  Tail(q) \in Seq(A) /\ Len(Tail(q)) = Len(q) - 1
<1>1. Len(q) \in Nat /\ Len(q) > 0
  OBVIOUS
<1> QED BY <1>1

\* A permit that comes back, or that a waiter passes on: the first waiter of the semaphore is
\* granted one, or nobody waits there.
LEMMA HandoverIdle ==
  ASSUME IdleInv, NEW s, NEW t \in Tasks, NEW T, \A u \in Tasks : u # t => T[u] = task[u],
         T \in [Tasks -> Records], T[t].st # "queued",
         task[t].st \in Passing => SemOf(t) = s,
         Handover(s, T) \/ WakeNext(s, T)
  PROVE  Waiting' /\ NoIdlePermit'
<1>0. /\ queue \in [Semaphores -> Seq(Tasks)] /\ value \in [Semaphores -> Nat]
      /\ task \in [Tasks -> Records]
  BY DEF IdleInv, Waiting, TypeOK, Records
<1>1. ASSUME task' = T, queue' = queue, \A r \in Semaphores : r # s => value'[r] = value[r],
             s \in Semaphores => value'[s] = 0 \/ queue[s] = << >>
      PROVE  Waiting' /\ NoIdlePermit'
  <2>1. Waiting'
    BY <1>1 DEF IdleInv, Waiting, SemOf
  <2>2. NoIdlePermit'
    <3> SUFFICES ASSUME NEW r \in Semaphores, value'[r] > 0, queue[r] # << >>
                 PROVE  \E u \in Tasks : task'[u].st \in Passing /\ SemOf(u)' = r
      BY <1>1 DEF NoIdlePermit, Passing
    <3>1. r # s
      BY <1>1
    <3>2. PICK u \in Tasks : task[u].st \in Passing /\ SemOf(u) = r
      BY <1>1, <3>1 DEF IdleInv, NoIdlePermit, Passing
    <3>3. task'[u] = task[u]
      BY <1>1, <3>1, <3>2
    <3> QED BY <3>2, <3>3 DEF SemOf
  <2> QED BY <2>1, <2>2
<1>2. ASSUME NEW w \in Tasks, queue[s] # << >>, w = Head(queue[s]), T[w].st = "queued",
             SemOf(w) = s, task' = [T EXCEPT ![w].st = "granted"],
             queue' = [queue EXCEPT ![s] = Tail(@)],
             \A r \in Semaphores : r # s => value'[r] = value[r]
      PROVE  Waiting' /\ NoIdlePermit'
  <2>1. w # t /\ task[w].st = "queued"
    BY <1>2
  <2>2. /\ task'[w].st = "granted" /\ task'[w].gen = task[w].gen /\ task'[t].st # "queued"
        /\ \A u \in Tasks : u \notin {t, w} => task'[u] = task[u]
    BY <1>0, <1>2, <2>1 DEF Records
  <2>3. \A r \in Semaphores : r # s => queue'[r] = queue[r]
    BY <1>0, <1>2
  <2>4. ASSUME s \in Semaphores
        PROVE  /\ queue'[s] = Tail(queue[s]) /\ queue[s] \in Seq(Tasks) /\ queue'[s] \in Seq(Tasks)
               /\ \A i \in 1..Len(queue[s]) :
                    queue[s][i] # w => \E j \in 1..Len(queue'[s]) : queue'[s][j] = queue[s][i]
    <3>1. queue'[s] = Tail(queue[s]) /\ queue[s] \in Seq(Tasks)
      BY <1>0, <1>2, <2>4
    <3>2. queue'[s] \in Seq(Tasks) /\ Len(queue'[s]) = Len(queue[s]) - 1
      BY <1>2, <3>1, TailOf
    <3>3. ASSUME NEW i \in 1..Len(queue[s]), queue[s][i] # w
          PROVE  \E j \in 1..Len(queue'[s]) : queue'[s][j] = queue[s][i]
      <4>1. i # 1
        BY <1>2, <3>1, <3>3
      <4>2. i - 1 \in 1..Len(queue'[s]) /\ queue'[s][i - 1] = queue[s][i]
        BY <1>2, <3>1, <3>2, <4>1
      <4> QED BY <4>2
    <3> QED BY <3>1, <3>2, <3>3
  <2>5. Waiting'
    <3>1. queue' \in [Semaphores -> Seq(Tasks)]
      BY <1>0, <1>2, <2>4
    <3>2. ASSUME NEW r \in Semaphores, NEW u \in Tasks, task'[u].st = "queued", SemOf(u)' = r
          PROVE  \E i \in 1..Len(queue'[r]) : queue'[r][i] = u
      <4>1. u # w /\ task[u].st = "queued" /\ SemOf(u) = r
        BY <2>2, <3>2 DEF SemOf
      <4>2. PICK i \in 1..Len(queue[r]) : queue[r][i] = u
        BY <4>1 DEF IdleInv, Waiting
      <4>3. CASE r = s
        BY <2>4, <4>1, <4>2, <4>3
      <4>4. CASE r # s
        BY <2>3, <4>2, <4>4
      <4> QED BY <4>3, <4>4
    <3> QED BY <3>1, <3>2 DEF Waiting
  <2>6. NoIdlePermit'
    <3> SUFFICES ASSUME NEW r \in Semaphores, value'[r] > 0, queue'[r] # << >>
                 PROVE  \E u \in Tasks : task'[u].st \in Passing /\ SemOf(u)' = r
      BY DEF NoIdlePermit, Passing
    <3>1. CASE r = s
      BY <1>2, <2>2, <3>1 DEF SemOf, Passing
    <3>2. CASE r # s
      <4>1. PICK u \in Tasks : task[u].st \in Passing /\ SemOf(u) = r
        BY <1>2, <2>3, <3>2 DEF IdleInv, NoIdlePermit, Passing
      <4>2. u \notin {t, w}
        BY <2>1, <3>2, <4>1 DEF Passing
      <4> QED BY <2>2, <4>1, <4>2 DEF SemOf
    <3> QED BY <3>1, <3>2
  <2> QED BY <2>5, <2>6
<1>3. CASE Handover(s, T)
  <2>1. CASE queue[s] = << >>
    BY <1>0, <1>1, <1>3, <2>1 DEF Handover
  <2>2. CASE queue[s] # << >>
    BY <1>2, <1>3, <2>2 DEF Handover
  <2> QED BY <2>1, <2>2
<1>4. CASE WakeNext(s, T)
  <2>1. CASE value[s] = 0 \/ queue[s] = << >>
    <3>1. task' = T /\ value' = value /\ queue' = queue
      BY <1>0, <1>4, <2>1 DEF WakeNext
    <3> QED BY <1>1, <2>1, <3>1
  <2>2. CASE ~(value[s] = 0 \/ queue[s] = << >>)
    <3>1. PICK w \in Tasks :
            /\ w = Head(queue[s]) /\ T[w].st = "queued" /\ SemOf(w) = s
            /\ task' = [T EXCEPT ![w].st = "granted"]
            /\ queue' = [queue EXCEPT ![s] = Tail(@)]
            /\ value' = [value EXCEPT ![s] = @ - 1]
      BY <1>4, <2>2 DEF WakeNext
    <3>2. \A r \in Semaphores : r # s => value'[r] = value[r]
      BY <1>0, <3>1
    <3> QED BY <1>2, <2>2, <3>1, <3>2
  <2> QED BY <2>1, <2>2
<1> QED BY <1>3, <1>4

\* Cancelling takes waiters out of the queues, and leaves a granted permit with its task.
LEMMA CancelIdle ==
  ASSUME IdleInv, NEW S, NEW T, CancelTasks(S, T),
         \/ T = task
         \/ \E t \in Tasks : task[t].st = "done" /\ T = [task EXCEPT ![t].st = "held"]
  PROVE  Waiting' /\ NoIdlePermit'
<1>0. /\ queue \in [Semaphores -> Seq(Tasks)] /\ task \in [Tasks -> Records]
      /\ value' = value
      /\ task' = [u \in Tasks |-> IF u \in S THEN Cancelled(u) ELSE T[u]]
      /\ queue' = [s \in Semaphores |-> Without(queue[s], S)]
  BY DEF IdleInv, Waiting, TypeOK, Records, CancelTasks
<1>1. \A u \in Tasks : /\ task[u].st \notin {"done"} => T[u] = task[u]
                       /\ task[u].st = "done" => T[u].st \in {"done", "held"}
  BY <1>0 DEF Records
<1>2. ASSUME NEW u \in Tasks
      PROVE  /\ task'[u].st = "queued" => u \notin S /\ task'[u] = task[u]
             /\ task[u].st \in Passing => task'[u].st \in Passing /\ task'[u].gen = task[u].gen
  <2>1. CASE u \in S
    BY <1>0, <2>1 DEF Cancelled, NoTask, Passing, Records
  <2>2. CASE u \notin S
    BY <1>0, <1>1, <2>2 DEF Passing
  <2> QED BY <2>1, <2>2
<1>3. ASSUME NEW s \in Semaphores
      PROVE  /\ queue'[s] \in Seq(Tasks)
             /\ \A i \in 1..Len(queue[s]) : queue[s][i] \notin S =>
                  \E j \in 1..Len(queue'[s]) : queue'[s][j] = queue[s][i]
             /\ queue[s] = << >> => queue'[s] = << >>
  <2>1. queue[s] \in Seq(Tasks) /\ queue'[s] = Without(queue[s], S)
    BY <1>0
  <2> QED BY <2>1, WithoutKeeps
<1>4. Waiting'
  <2>1. queue' \in [Semaphores -> Seq(Tasks)]
    BY <1>0, <1>3
  <2>2. ASSUME NEW s \in Semaphores, NEW u \in Tasks, task'[u].st = "queued", SemOf(u)' = s
        PROVE  \E i \in 1..Len(queue'[s]) : queue'[s][i] = u
    <3>1. u \notin S /\ task[u].st = "queued" /\ SemOf(u) = s
      BY <1>2, <2>2 DEF SemOf
    <3>2. PICK i \in 1..Len(queue[s]) : queue[s][i] = u
      BY <3>1 DEF IdleInv, Waiting
    <3> QED BY <1>3, <3>1, <3>2
  <2> QED BY <2>1, <2>2 DEF Waiting
<1>5. NoIdlePermit'
  <2> SUFFICES ASSUME NEW s \in Semaphores, value[s] > 0, queue'[s] # << >>
               PROVE  \E u \in Tasks : task'[u].st \in Passing /\ SemOf(u)' = s
    BY <1>0 DEF NoIdlePermit, Passing
  <2>1. PICK u \in Tasks : task[u].st \in Passing /\ SemOf(u) = s
    BY <1>3 DEF IdleInv, NoIdlePermit, Passing
  <2> QED BY <1>2, <2>1 DEF SemOf
<1> QED BY <1>4, <1>5

LEMMA AppendOf ==
  ASSUME NEW A, NEW q \in Seq(A), NEW e \in A
  PROVE  /\ Append(q, e) \in Seq(A) /\ Len(Append(q, e)) = Len(q) + 1
         /\ Append(q, e)[Len(q) + 1] = e /\ Len(q) + 1 \in 1..(Len(q) + 1)
         /\ \A i \in 1..Len(q) : Append(q, e)[i] = q[i] /\ i \in 1..(Len(q) + 1)
OBVIOUS

\* A task that runs for the first time waits only where no permit is free, or where one that
\* was handed over is still to be passed on.
LEMMA StartIdle ==
  ASSUME IdleInv, NEW c \in Calls, NEW k \in Keys, Start(c, k)
  PROVE  Waiting' /\ NoIdlePermit'
<1> DEFINE t == <<c, k>>
           g == IF task[t].gen = 0 THEN gen'[k] ELSE task[t].gen
           s == <<k, g>>
<1>0. /\ queue \in [Semaphores -> Seq(Tasks)] /\ value \in [Semaphores -> Nat]
      /\ task \in [Tasks -> Records] /\ t \in Tasks /\ task[t].st = "new"
  BY DEF IdleInv, Waiting, TypeOK, Records, Tasks, Start
<1>1. s = <<k, g>> /\ t[2] = k
  OBVIOUS
<1>2. \/ /\ ~Locked(s)
         /\ value' = [value EXCEPT ![s] = @ - 1]
         /\ task' = [task EXCEPT ![t] = [st |-> "done", gen |-> g]]
         /\ queue' = queue
      \/ /\ Locked(s)
         /\ queue' = [queue EXCEPT ![s] = Append(@, t)]
         /\ task' = [task EXCEPT ![t] = [st |-> "queued", gen |-> g]]
         /\ value' = value
  BY DEF Start
<1> HIDE DEF t, g, s
<1>3. CASE /\ ~Locked(s)
           /\ value' = [value EXCEPT ![s] = @ - 1]
           /\ task' = [task EXCEPT ![t] = [st |-> "done", gen |-> g]]
           /\ queue' = queue
  <2>1. /\ task'[t].st = "done" /\ \A u \in Tasks : u # t => task'[u] = task[u]
        /\ \A r \in Semaphores : r # s => value'[r] = value[r]
    BY <1>0, <1>3
  <2>2. Waiting'
    BY <1>3, <2>1 DEF IdleInv, Waiting, SemOf
  <2>3. NoIdlePermit'
    <3> SUFFICES ASSUME NEW r \in Semaphores, value'[r] > 0, queue[r] # << >>
                 PROVE  \E u \in Tasks : task'[u].st \in Passing /\ SemOf(u)' = r
      BY <1>3 DEF NoIdlePermit, Passing
    <3>1. value[r] > 0
      <4>1. value[r] \in Nat /\ (r = s => value[r] # 0)
        BY <1>0, <1>3 DEF Locked
      <4>2. r # s => value[r] = value'[r]
        BY <2>1
      <4> QED BY <4>1, <4>2
    <3>2. PICK u \in Tasks : task[u].st \in Passing /\ SemOf(u) = r
      BY <3>1 DEF IdleInv, NoIdlePermit, Passing
    <3>3. u # t
      BY <1>0, <3>2 DEF Passing
    <3> QED BY <2>1, <3>2, <3>3 DEF SemOf
  <2> QED BY <2>2, <2>3
<1>4. CASE /\ Locked(s)
           /\ queue' = [queue EXCEPT ![s] = Append(@, t)]
           /\ task' = [task EXCEPT ![t] = [st |-> "queued", gen |-> g]]
           /\ value' = value
  <2>1. /\ task'[t].st = "queued" /\ task'[t].gen = g
        /\ \A u \in Tasks : u # t => task'[u] = task[u]
        /\ \A r \in Semaphores : r # s => queue'[r] = queue[r]
    BY <1>0, <1>4
  <2>2. ASSUME s \in Semaphores
        PROVE  /\ queue[s] \in Seq(Tasks) /\ queue'[s] = Append(queue[s], t)
               /\ queue'[s] \in Seq(Tasks)
    BY <1>0, <1>4, <2>2, AppendOf
  <2>3. Waiting'
    <3>1. queue' \in [Semaphores -> Seq(Tasks)]
      <4>1. \A r \in Semaphores : queue'[r] \in Seq(Tasks)
        BY <1>0, <2>1, <2>2
      <4>2. queue' = [r \in Semaphores |-> queue'[r]]
        BY <1>0, <1>4
      <4> QED BY <4>1, <4>2
    <3>2. ASSUME NEW r \in Semaphores, NEW u \in Tasks, task'[u].st = "queued", SemOf(u)' = r
          PROVE  \E i \in 1..Len(queue'[r]) : queue'[r][i] = u
      <4>1. CASE u = t
        <5>1. r = s
          BY <1>1, <2>1, <3>2, <4>1 DEF SemOf
        <5>2. /\ Len(queue'[s]) = Len(queue[s]) + 1
              /\ queue'[s][Len(queue[s]) + 1] = t
              /\ Len(queue[s]) + 1 \in 1..Len(queue'[s])
          BY <1>0, <2>2, <5>1, AppendOf
        <5> QED BY <4>1, <5>1, <5>2
      <4>2. CASE u # t
        <5>1. task[u].st = "queued" /\ SemOf(u) = r
          BY <2>1, <3>2, <4>2 DEF SemOf
        <5>2. PICK i \in 1..Len(queue[r]) : queue[r][i] = u
          BY <5>1 DEF IdleInv, Waiting
        <5>3. CASE r = s
          <6>1. queue'[s][i] = u /\ i \in 1..Len(queue'[s])
            BY <1>0, <2>2, <5>2, <5>3, AppendOf
          <6> QED BY <5>3, <6>1
        <5>4. CASE r # s
          BY <2>1, <5>2, <5>4
        <5> QED BY <5>3, <5>4
      <4> QED BY <4>1, <4>2
    <3> QED BY <3>1, <3>2 DEF Waiting
  <2>4. NoIdlePermit'
    <3> SUFFICES ASSUME NEW r \in Semaphores, value[r] > 0, queue'[r] # << >>
                 PROVE  \E u \in Tasks : task'[u].st \in Passing /\ SemOf(u)' = r
      BY <1>4 DEF NoIdlePermit, Passing
    <3>1. \E u \in Tasks : task[u].st \in Passing /\ SemOf(u) = r
      <4>1. CASE r = s
        <5>1. PICK v \in Tasks : task[v].st \in {"queued", "granted", "recalled"} /\ SemOf(v) = s
          <6>1. value[s] # 0 /\ Locked(s)
            BY <1>0, <1>4, <4>1
          <6>2. InDeque(s) # {}
            BY <6>1 DEF Locked
          <6> QED BY <6>2 DEF InDeque
        <5>2. CASE task[v].st = "queued"
          <6>1. PICK i \in 1..Len(queue[s]) : queue[s][i] = v
            BY <4>1, <5>1, <5>2 DEF IdleInv, Waiting
          <6>2. queue[s] # << >>
            BY <6>1
          <6> QED BY <4>1, <6>2 DEF IdleInv, NoIdlePermit, Passing
        <5> QED BY <4>1, <5>1, <5>2 DEF Passing
      <4>2. CASE r # s
        BY <2>1, <4>2 DEF IdleInv, NoIdlePermit, Passing
      <4> QED BY <4>1, <4>2
    <3>2. PICK u \in Tasks : task[u].st \in Passing /\ SemOf(u) = r
      BY <3>1
    <3>3. u # t
      BY <1>0, <3>2 DEF Passing
    <3> QED BY <2>1, <3>2, <3>3 DEF SemOf
  <2> QED BY <2>3, <2>4
<1> QED BY <1>3, <1>4, <1>2

\* A request has tasks only after it began, whatever other requests do.
LEMMA FreshStep ==
  ASSUME IdleInv, NEW c \in Calls, Step(c) \/ Timeout(c) \/ Cancel(c)
  PROVE  Fresh'
<1>0. task \in [Tasks -> Records] /\ phase \in [Calls -> Phases] /\ OwnTasks(c) \subseteq Tasks
  BY DEF IdleInv, TypeOK, Records, OwnTasks, Tasks
<1>1. ASSUME NEW d \in Calls, phase'[d] = "idle"
      PROVE  d # c /\ phase[d] = "idle"
  <2>1. phase'[c] # "idle" /\ (d # c => phase'[d] = phase[d])
    <3>1. CASE \E k \in Keys : Start(c, k) \/ Resume(c, k) \/ GiveBack(c, k)
      BY <3>1 DEF IdleInv, Fresh, Start, Resume, GiveBack
    <3>2. CASE \/ EnterFast(c) \/ EnterSlow(c) \/ FastAcquired(c) \/ Retry(c)
               \/ SlowAcquired(c) \/ Release(c) \/ Timeout(c) \/ Cancel(c)
      BY <1>0, <3>2 DEF EnterFast, EnterSlow, FastAcquired, Retry, SlowAcquired, Release,
         Timeout, FastTimeout, SlowTimeout, Cancel
    <3> QED BY <3>1, <3>2 DEF Step
  <2> QED BY <1>1, <2>1
<1>2. ASSUME NEW u \in Tasks, u[1] # c, task[u].st = "none"
      PROVE  task'[u].st = "none"
  <2>0. ASSUME NEW k \in Keys, NEW r, task' = [task EXCEPT ![<<c, k>>] = r]
        PROVE  task'[u].st = "none"
    <3>1. u # <<c, k>>
      BY <1>2
    <3> QED BY <1>0, <1>2, <2>0, <3>1
  <2>1. CASE \/ EnterFast(c) \/ EnterSlow(c) \/ FastAcquired(c) \/ Retry(c)
    <3>1. CASE EnterFast(c)
      BY <2>0, <3>1 DEF EnterFast
    <3>2. CASE FastAcquired(c)
      BY <2>0, <3>2 DEF FastAcquired
    <3>3. CASE EnterSlow(c) \/ Retry(c)
      BY <1>2, <3>3 DEF EnterSlow, Retry, WithSlowTasks
    <3> QED BY <2>1, <3>1, <3>2, <3>3
  <2>2. ASSUME NEW k \in Keys, Start(c, k)
        PROVE  task'[u].st = "none"
    BY <2>0, <2>2 DEF Start
  <2>3. ASSUME NEW k \in Keys, NEW s, NEW T, T[u] = task[u],
               T \in [Tasks -> Records], Handover(s, T) \/ WakeNext(s, T)
        PROVE  task'[u].st = "none"
    <3>1. \/ task' = T
          \/ \E w \in Tasks : T[w].st = "queued" /\ task' = [T EXCEPT ![w].st = "granted"]
      BY <2>3 DEF Handover, WakeNext
    <3> QED BY <1>2, <2>3, <3>1
  <2>4. ASSUME NEW k \in Keys, Resume(c, k)
        PROVE  task'[u].st = "none"
    <3> DEFINE T == [task EXCEPT ![<<c, k>>].st = "done"]
    <3>0. u # <<c, k>> /\ <<c, k>> \in Tasks
      BY <1>2 DEF Tasks
    <3>1. T \in [Tasks -> Records] /\ T[u] = task[u]
      BY <1>0, <3>0 DEF Records, TaskStates
    <3> HIDE DEF T
    <3>2. WakeNext(SemOf(<<c, k>>), T)
      BY <2>4 DEF Resume, T
    <3> QED BY <2>3, <3>1, <3>2
  <2>5. ASSUME NEW k \in Keys, NEW s, Handover(s, [task EXCEPT ![<<c, k>>] = NoTask])
        PROVE  task'[u].st = "none"
    <3> DEFINE T == [task EXCEPT ![<<c, k>>] = NoTask]
    <3>0. u # <<c, k>> /\ NoTask \in Records
      BY <1>2, NoTaskType DEF Records
    <3>1. T \in [Tasks -> Records] /\ T[u] = task[u]
      BY <1>0, <3>0
    <3> HIDE DEF T
    <3>2. Handover(s, T)
      BY <2>5 DEF T
    <3> QED BY <2>3, <3>1, <3>2
  <2>6. CASE (\E k \in Keys : GiveBack(c, k)) \/ Release(c)
    BY <2>5, <2>6 DEF GiveBack, Release
  <2>7. ASSUME NEW S, NEW T, CancelTasks(S, T), S \subseteq OwnTasks(c), T[u] = task[u]
        PROVE  task'[u].st = "none"
    <3>1. u \notin S
      BY <1>2, <2>7 DEF OwnTasks
    <3> QED BY <1>2, <2>7, <3>1 DEF CancelTasks
  <2>8. CASE SlowAcquired(c)
    <3>1. PICK k \in Keys :
            CancelTasks(OwnTasks(c) \ {<<c, k>>}, [task EXCEPT ![<<c, k>>].st = "held"])
      BY <2>8 DEF SlowAcquired
    <3>2. u # <<c, k>>
      BY <1>2
    <3>3. [task EXCEPT ![<<c, k>>].st = "held"][u] = task[u]
      BY <1>0, <3>2
    <3> QED BY <2>7, <3>1, <3>3
  <2>9. CASE Timeout(c) \/ Cancel(c)
    BY <1>2, <2>7, <2>9 DEF Timeout, FastTimeout, SlowTimeout, Cancel
  <2> QED BY <2>1, <2>2, <2>4, <2>6, <2>8, <2>9 DEF Step
<1> QED BY <1>1, <1>2 DEF IdleInv, Fresh, Tasks

LEMMA IdleInit == ASSUME Init PROVE IdleInv
<1>1. TypeOK
  BY PoolConstants DEF Init, TypeOK, Keys, Phases, NoTask, TaskStates
<1>2. Fresh /\ Waiting
  BY DEF Init, Fresh, Waiting, NoTask, Tasks
<1>3. NoIdlePermit
  BY DEF Init, NoIdlePermit
<1> QED BY <1>1, <1>2, <1>3 DEF IdleInv

LEMMA IdleStep ==
  ASSUME IdleInv, [Next]_vars
  PROVE  IdleInv'
<1>0. TypeOK'
  BY TypeStep DEF IdleInv
<1>1. CASE UNCHANGED vars
  <2>1. Waiting' /\ NoIdlePermit'
    BY <1>1, QuietIdle DEF vars
  <2> QED BY <1>0, <1>1, <2>1 DEF vars, IdleInv, Fresh
<1>2. ASSUME NEW c \in Calls, Step(c) \/ Timeout(c) \/ Cancel(c)
      PROVE  Waiting' /\ NoIdlePermit'
  <2>0. /\ task \in [Tasks -> Records] /\ OwnTasks(c) \subseteq Tasks
        /\ \A k \in Keys : <<c, k>> \in Tasks
    BY DEF IdleInv, TypeOK, Records, OwnTasks, Tasks
  <2>1. CASE EnterFast(c) \/ EnterSlow(c) \/ Retry(c)
    <3>1. \A k \in Keys : task[<<c, k>>].st = "none"
      BY <2>1 DEF EnterFast, EnterSlow, Retry, IdleInv, Fresh
    <3>2. value' = value /\ queue' = queue
      BY <2>1 DEF EnterFast, EnterSlow, Retry
    <3>3. \A u \in Tasks : task'[u] = task[u] \/ (u[1] = c /\ task'[u].st = "new")
      <4>1. CASE EnterSlow(c) \/ Retry(c)
        BY <2>0, <4>1 DEF EnterSlow, Retry, WithSlowTasks
      <4>2. CASE EnterFast(c)
        <5>1. PICK k \in Keys :
                task' = [task EXCEPT ![<<c, k>>] = [st |-> "new", gen |-> gen'[k]]]
          BY <4>2 DEF EnterFast
        <5>2. task'[<<c, k>>].st = "new" /\ \A u \in Tasks : u # <<c, k>> => task'[u] = task[u]
          BY <2>0, <5>1
        <5> QED BY <5>1, <5>2
      <4> QED BY <2>1, <4>1, <4>2
    <3>4. \A u \in Tasks : u[1] = c => task[u].st \notin Passing
      BY <3>1 DEF Tasks, Passing
    <3> QED BY <3>2, <3>3, <3>4, QuietIdle
  <2>2. CASE FastAcquired(c)
    <3>1. PICK k \in Keys : /\ task[<<c, k>>].st = "done"
                            /\ task' = [task EXCEPT ![<<c, k>>].st = "held"]
      BY <2>2 DEF FastAcquired
    <3>2. \A u \in Tasks : \/ task'[u] = task[u]
                           \/ task[u].st \notin Passing /\ task'[u].st # "queued"
      BY <2>0, <3>1 DEF Passing, Records
    <3>3. value' = value /\ queue' = queue
      BY <2>2 DEF FastAcquired
    <3> QED BY <3>2, <3>3, QuietIdle
  <2>3. ASSUME NEW k \in Keys, Resume(c, k)
        PROVE  Waiting' /\ NoIdlePermit'
    <3> DEFINE t == <<c, k>>
               T == [task EXCEPT ![t].st = "done"]
    <3>1. /\ T \in [Tasks -> Records] /\ T[t].st = "done"
          /\ \A u \in Tasks : u # t => T[u] = task[u]
      BY <2>0 DEF Records, TaskStates
    <3> HIDE DEF T
    <3>2. WakeNext(SemOf(t), T)
      BY <2>3 DEF Resume, T
    <3> QED BY <2>0, <3>1, <3>2, HandoverIdle
  <2>4. ASSUME NEW k \in Keys, NEW s, Handover(s, [task EXCEPT ![<<c, k>>] = NoTask]),
               task[<<c, k>>].st \in Passing => SemOf(<<c, k>>) = s
        PROVE  Waiting' /\ NoIdlePermit'
    <3> DEFINE t == <<c, k>>
               T == [task EXCEPT ![t] = NoTask]
    <3>1. /\ T \in [Tasks -> Records] /\ T[t].st # "queued"
          /\ \A u \in Tasks : u # t => T[u] = task[u]
      BY <2>0, NoTaskType DEF Records, NoTask
    <3> HIDE DEF T
    <3>2. Handover(s, T)
      BY <2>4 DEF T
    <3> QED BY <2>0, <2>4, <3>1, <3>2, HandoverIdle
  <2>5. CASE (\E k \in Keys : GiveBack(c, k)) \/ Release(c)
    BY <2>4, <2>5 DEF GiveBack, Release, Passing
  <2>6. CASE SlowAcquired(c)
    <3>1. PICK k \in Keys :
            /\ task[<<c, k>>].st = "done"
            /\ CancelTasks(OwnTasks(c) \ {<<c, k>>}, [task EXCEPT ![<<c, k>>].st = "held"])
      BY <2>6 DEF SlowAcquired
    <3> QED BY <2>0, <3>1, CancelIdle
  <2>7. CASE Timeout(c)
    BY <2>7, CancelIdle DEF Timeout, FastTimeout, SlowTimeout
  <2>8. CASE Cancel(c)
    BY <2>8, CancelIdle, QuietIdle DEF Cancel
  <2> QED BY <1>2, <2>1, <2>2, <2>3, <2>5, <2>6, <2>7, <2>8, StartIdle DEF Step
<1> QED BY <1>0, <1>1, <1>2, FreshStep DEF Next, IdleInv

\* Whatever times out or is cancelled between a hand-over and the waiter's next run, and in
\* whatever loops the requests run: where a permit is free and a request waits for it, a task
\* is about to run that will pass the permit on.
THEOREM IdleCorrect == Spec => []NoIdlePermit
<1>1. IdleInv => NoIdlePermit
  BY DEF IdleInv
<1> QED BY <1>1, IdleInit, IdleStep, PTL DEF Spec
=============================================================================
