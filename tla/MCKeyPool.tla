------------------------------ MODULE MCKeyPool ------------------------------
(* Instances of KeyPool for TLC. *)
EXTENDS KeyPool, TLC

CONSTANTS r1, r2, r3, r4, main

\* All requests run in the main event loop.
OneLoop == [c \in Calls |-> main]

CallSymmetry == Permutations(Calls)
=============================================================================
