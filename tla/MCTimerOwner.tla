---------------------------- MODULE MCTimerOwner ----------------------------
(* TimerOwner for TLC. *)
EXTENDS TimerOwner, TLC

Symmetry == Permutations(Handles)

=============================================================================
