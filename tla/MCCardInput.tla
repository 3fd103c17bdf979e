---------------------------- MODULE MCCardInput ----------------------------
(* CardInput for TLC. *)
EXTENDS CardInput, TLC

=============================================================================
