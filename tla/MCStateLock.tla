---------------------------- MODULE MCStateLock ----------------------------
(* Values for TLC: the calls of one process and those of two, and two      *)
(* resource ids that sanitizeID maps to one lock blob ("a/b" and "a_b").   *)
EXTENDS StateLock, TLC

CONSTANTS p1, p2, c1, c2, k1

OneProcess == [c \in Call |-> p1]
TwoProcesses == c1 :> p1 @@ c2 :> p2
SameBlob == [r \in ResourceID |-> k1]
=============================================================================
