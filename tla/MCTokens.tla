------------------------------ MODULE MCTokens ------------------------------
(* Two nodes with token stores.                                            *)
EXTENDS Tokens, TLC

CONSTANTS n1, n2

(* The clock of the second node is behind that of the first, which issues: *)
(* a token comes to it before the time the token says it was issued.       *)
MCBehind == n1 :> 1 @@ n2 :> 0
=============================================================================
