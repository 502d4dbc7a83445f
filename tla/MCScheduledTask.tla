--------------------------- MODULE MCScheduledTask ---------------------------
(* Instances of ScheduledTask for TLC. *)
EXTENDS ScheduledTaskLedger, TLC

\* One run, a window of a cron, an interval without an end.
Once == [type |-> "once", ends |-> 0]
Window == [type |-> "cron", ends |-> 2]
Interval == [type |-> "interval", ends |-> 0]
AllKinds == {Once, Window, Interval}
OnlyOnce == {Once}
OnlyWindow == {Window}

DispatcherSymmetry == Permutations(Dispatchers)
=============================================================================
