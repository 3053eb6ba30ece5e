------------------------------- MODULE MCJoin ------------------------------
(* Small deployments of module Join.                                       *)
EXTENDS Join, TLC

CONSTANTS n1, n2, n3

(* Two nodes that have each other as discovery host.                       *)
MCPair == n1 :> n2 @@ n2 :> n1

(* The same, and a third node that may be launched at any time later.      *)
MCLate == n1 :> n2 @@ n2 :> n1 @@ n3 :> n1
=============================================================================
