--------------------------- MODULE MCAgentRunner ---------------------------
(* Instances of AgentRunner for TLC. *)
EXTENDS AgentRunnerTurns, TLC

\* Every runner talks in the same session: one owner, a FIFO behind it.
OneSession == [r \in Runners |-> CHOOSE s \in Sessions : TRUE]

\* All coroutines belong to one worker, which can meet its own older attempts again.
OneWorker == [k \in Slots |-> CHOOSE w \in Workers : TRUE]

\* One coroutine per worker.
OwnWorker == [k \in Slots |-> k]

Symmetry == Permutations(Controls) \union Permutations(Slots)
WorkerSymmetry == Permutations(Controls) \union Permutations(Workers)
=============================================================================
