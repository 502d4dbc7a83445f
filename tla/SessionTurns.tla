---------------------------- MODULE SessionTurns ----------------------------
(***************************************************************************)
(* What the AgentRunner service promises a conversation, whatever workers,  *)
(* leases and retries do underneath: the turns submitted to a session are   *)
(* opened one at a time, the oldest first; an open turn may be decided      *)
(* once; it closes with what was decided, except that a result that cannot  *)
(* be recorded closes as failed; and a closed turn stays as it is.          *)
(***************************************************************************)
EXTENDS Naturals

CONSTANTS Turns, SessionOfTurn

VARIABLES
  phase,     \* of each turn: new, waiting, open, closed
  verdict    \* what was decided for a turn: none, completed, failed, cancelled

turnVars == <<phase, verdict>>

Verdicts == {"completed", "failed", "cancelled"}
Before(t) == {u \in Turns : SessionOfTurn[u] = SessionOfTurn[t] /\ u # t}

TurnsInit ==
  /\ phase = [t \in Turns |-> "new"]
  /\ verdict = [t \in Turns |-> "none"]

Enter(t) ==
  /\ phase[t] = "new"
  /\ phase' = [phase EXCEPT ![t] = "waiting"]
  /\ UNCHANGED verdict

\* A turn withdrawn by its user before it opened.
Withdraw(t) ==
  /\ phase[t] = "waiting"
  /\ phase' = [phase EXCEPT ![t] = "closed"]
  /\ verdict' = [verdict EXCEPT ![t] = "cancelled"]

Open(t) ==
  /\ phase[t] = "waiting"
  /\ \A u \in Before(t) : phase[u] # "open" /\ (phase[u] = "waiting" => t <= u)
  /\ phase' = [phase EXCEPT ![t] = "open"]
  /\ UNCHANGED verdict

Decide(t, v) ==
  /\ phase[t] = "open" /\ verdict[t] = "none"
  /\ verdict' = [verdict EXCEPT ![t] = v]
  /\ UNCHANGED phase

Close(t) ==
  /\ phase[t] = "open"
  /\ phase' = [phase EXCEPT ![t] = "closed"]
  /\ \/ verdict[t] # "none" /\ UNCHANGED verdict
     \/ verdict[t] \in {"none", "completed"} /\ verdict' = [verdict EXCEPT ![t] = "failed"]

TurnsNext ==
  \E t \in Turns :
    \/ Enter(t) \/ Withdraw(t) \/ Open(t) \/ Close(t)
    \/ \E v \in Verdicts : Decide(t, v)

TurnsSpec == TurnsInit /\ [][TurnsNext]_turnVars
=============================================================================
