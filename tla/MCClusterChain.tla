--------------------------- MODULE MCClusterChain ---------------------------
(* ClusterChain for TLC: each kind of stage below the cluster. *)
EXTENDS ClusterChain, TLC

Stages == [kind : {"action"}, size : {1}] \cup [kind : {"buffer", "window"}, size : {1, 2}]

=============================================================================
