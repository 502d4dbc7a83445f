-------------------------- MODULE AgentRunnerTurns --------------------------
(***************************************************************************)
(* AgentRunner implements SessionTurns: a runner is a turn, open while its  *)
(* row is parked or executing; pending_finalization is its verdict until    *)
(* the status says how it closed.                                           *)
(***************************************************************************)
EXTENDS AgentRunner

turnPhase == [r \in Runners |->
  CASE row[r].status = "absent" -> "new"
    [] row[r].status = "queued" -> "waiting"
    [] row[r].status \in Terminal -> "closed"
    [] OTHER -> "open"]

turnVerdict == [r \in Runners |->
  IF row[r].status \in Terminal THEN row[r].status ELSE row[r].pending]

T == INSTANCE SessionTurns WITH
  Turns <- Runners, SessionOfTurn <- SessionOf, phase <- turnPhase, verdict <- turnVerdict

\* Every behaviour of the service, with its crashes and retries, is one the conversation
\* was promised.
ImplementsTurns == T!TurnsSpec
=============================================================================
