------------------------- MODULE ScheduledTaskLedger -------------------------
(* ScheduledTask implements OccurrenceLedger. *)
EXTENDS ScheduledTask

\* What the tables say about an occurrence: its runner, then the pending slot.
Occurrence ==
  [k \in Keys |->
    CASE run[k].status \in {"open", "interrupted"} -> "running"
      [] run[k].status = "ended" -> "over"
      [] OTHER -> IF task.pend.key = k THEN "claimed" ELSE "idle"]

Ledger == INSTANCE OccurrenceLedger WITH occurrence <- Occurrence

\* One occurrence waits at a time and not for ever; it runs at most once, and only if it waited.
ImplementsLedger == Ledger!LedgerSpec
===============================================================================
