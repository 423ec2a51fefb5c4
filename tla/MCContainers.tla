------------------------------ MODULE MCContainers ------------------------------
(* Two images, two owners, three addresses; two jobs of one name. *)
EXTENDS Containers

CONSTANTS i1, i2, o1, o2, a1, a2, a3, j1, j2, r1, r2, s1, s2

MCImage == {i1, i2}
MCOwner == {o1, o2}
MCFirstOwner == {o1}
MCAddr == {a1, a2, a3}
MCJobCall == {j1, j2}
MCJobBase == [c \in {j1, j2} |-> "job"]
MCResourceGroup == {r1, r2}
MCSubscription == {s1, s2}
=============================================================================
