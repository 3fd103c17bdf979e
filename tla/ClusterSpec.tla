---------------------------- MODULE ClusterSpec ----------------------------
(***************************************************************************)
(* What a time cluster promises, with no lock, no timer and no threads:    *)
(* items are accepted one at a time, everything accepted since the last    *)
(* batch leaves together as one batch in the order of acceptance, and the  *)
(* only other way out is an explicit reset.                                *)
(***************************************************************************)
EXTENDS Naturals, Sequences

VARIABLES
  held,     \* accepted and not yet delivered
  batches,  \* the batches given to the downstream action, in order
  accepted  \* how many items have been accepted; item n is the n-th

absVars == <<held, batches, accepted>>

AbsInit ==
  /\ held = <<>>
  /\ batches = <<>>
  /\ accepted = 0

Accept ==
  /\ accepted' = accepted + 1
  /\ held' = Append(held, accepted + 1)
  /\ UNCHANGED batches

Deliver ==
  /\ held # <<>>
  /\ batches' = Append(batches, held)
  /\ held' = <<>>
  /\ UNCHANGED accepted

Discard ==
  /\ held # <<>>
  /\ held' = <<>>
  /\ UNCHANGED <<batches, accepted>>

AbsNext == Accept \/ Deliver \/ Discard

AbsSpec == AbsInit /\ [][AbsNext]_absVars

=============================================================================
