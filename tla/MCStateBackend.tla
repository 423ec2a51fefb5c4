--------------------------- MODULE MCStateBackend ---------------------------
(* Values for TLC: two sessions, in two processes, on two ids that         *)
(* sanitizeID maps to the same blobs.                                      *)
EXTENDS StateBackend, TLC

CONSTANTS c1, c2, r1, r1_alias, b1, k1, s1, s2

OneStateBlob == [r \in ResourceID |-> b1]
OneLockBlob  == [r \in ResourceID |-> k1]
Targets == c1 :> r1 @@ c2 :> r1_alias
Stores  == c1 :> s1 @@ c2 :> s2
=============================================================================
