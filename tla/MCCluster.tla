------------------------------ MODULE MCCluster -----------------------------
(* Small deployments of module Cluster.                                    *)
EXTENDS Cluster, TLC

CONSTANTS n1, n2

(* Two nodes that have each other as discovery host.                       *)
MCPair == n1 :> n2 @@ n2 :> n1

MCSymmetry == Permutations({n1, n2})
=============================================================================
