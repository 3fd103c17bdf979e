---------------------------- MODULE MCTimeCluster ---------------------------
(* TimeCluster for TLC; its threads and timers are model values. *)
EXTENDS TimeCluster, TLC

=============================================================================
