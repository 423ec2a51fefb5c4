---------------------------- MODULE MCResource ----------------------------
(* Two values of the compared field, two record sets. *)
EXTENDS Resource

CONSTANTS v1, v2, www, mail

MCValue == {v1, v2}
MCRecords == {<<>>, <<www, mail>>}
=============================================================================
