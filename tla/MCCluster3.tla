------------------------------ MODULE MCCluster3 ----------------------------
(* Three nodes: the second and the third have the first as discovery host. *)
EXTENDS Cluster, TLC

CONSTANTS n1, n2, n3

MCStar == n1 :> n2 @@ n2 :> n1 @@ n3 :> n1
=============================================================================
