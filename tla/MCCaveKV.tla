------------------------------ MODULE MCCaveKV ------------------------------
(* Small instances of CaveKV and of Listing.                               *)
EXTENDS Listing, TLC

CONSTANT a

(* A name as that of a key and of a bucket, a key inside that bucket, and  *)
(* the bucket as a directory.  What the key inside is called tells nothing *)
(* apart, so it has the same name.                                         *)
MCAllKinds == {<<a>>, <<a, a>>, <<a, Empty>>}

MCLockId == 1..MaxOps

MCSymmetry == Permutations(Node)
=============================================================================
