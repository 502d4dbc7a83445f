--------------------------- MODULE OccurrenceLedger ---------------------------
(***************************************************************************)
(* What a scheduled task promises about its occurrences: one at a time is  *)
(* claimed, it does not stay claimed for ever, only a claimed one is run,  *)
(* and what was run is never run again.                                    *)
(***************************************************************************)
CONSTANT Keys

VARIABLE occurrence

States == {"idle", "claimed", "running", "over"}

LedgerInit == occurrence = [k \in Keys |-> "idle"]

Unclaimed(o) == \A k \in Keys : o[k] # "claimed"

\* What was claimed and not run may be dropped with any other change.
Withdrawn == [k \in Keys |-> IF occurrence[k] = "claimed" THEN "idle" ELSE occurrence[k]]

Claim(k) ==
  /\ Unclaimed(occurrence)
  /\ occurrence[k] = "idle"
  /\ occurrence' = [occurrence EXCEPT ![k] = "claimed"]

Run(k) ==
  /\ occurrence[k] = "claimed"
  /\ occurrence' = [occurrence EXCEPT ![k] = "running"]

Drop == ~Unclaimed(occurrence) /\ occurrence' = Withdrawn

\* The result of a run may pause the task, which drops what waits behind it.
End(k) ==
  /\ occurrence[k] = "running"
  /\ occurrence' \in {[occurrence EXCEPT ![k] = "over"], [Withdrawn EXCEPT ![k] = "over"]}

LedgerNext == Drop \/ \E k \in Keys : Claim(k) \/ Run(k) \/ End(k)

LedgerSpec ==
  /\ LedgerInit /\ [][LedgerNext]_occurrence
  /\ WF_occurrence(Drop \/ \E k \in Keys : Run(k))
===============================================================================
