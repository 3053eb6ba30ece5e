---------------------------- MODULE MCMultiQuery ----------------------------
(* Small requests: a key, the name of a bucket, a text.                    *)
EXTENDS MultiQuery

CONSTANTS a, b, x, e

(* All queries but those on the bucket's name that differ from another     *)
(* only in a text or a secrecy that, under that name, nothing looks at.    *)
MCAsked == {q \in Query : q.key \in Taken => ~ q.secret /\ q.text = e}
=============================================================================
