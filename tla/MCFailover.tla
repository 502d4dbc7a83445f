------------------------------ MODULE MCFailover ------------------------------
(* The instance of Failover for TLC: its constants are in the configuration. *)
EXTENDS Failover

=============================================================================
