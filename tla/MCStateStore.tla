---------------------------- MODULE MCStateStore ----------------------------
(* Values for TLC: three ids, two of which sanitizeID maps to one blob.    *)
EXTENDS StateStore, TLC

CONSTANTS r1, r1_alias, r2, b1, b2, c1, c2, active, failed

BlobName == r1 :> b1 @@ r1_alias :> b1 @@ r2 :> b2
OneToOne == r1 :> b1 @@ r2 :> b2

(* Calls and field values are interchangeable.                             *)
Symmetry == Permutations({c1, c2}) \union Permutations({active, failed})
=============================================================================
