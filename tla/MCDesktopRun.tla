---------------------------- MODULE MCDesktopRun ----------------------------
(* Small instances of DesktopRun. *)
EXTENDS DesktopRun, TLC

CONSTANTS d1, d2

Leader == {d1}
TwoLeaders == {d1, d2}
LeaderSymmetry == Permutations(TwoLeaders)

=============================================================================
