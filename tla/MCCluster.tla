----------------------------- MODULE MCCluster -----------------------------
(* Three nodes, of which the last is not configured to forward commands.   *)
EXTENDS Cluster

CONSTANTS n1, n2, n3
=============================================================================
