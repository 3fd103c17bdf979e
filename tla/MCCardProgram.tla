--------------------------- MODULE MCCardProgram ---------------------------
(* CardProgram for TLC. *)
EXTENDS CardProgram, TLC

=============================================================================
