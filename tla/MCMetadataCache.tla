-------------------------- MODULE MCMetadataCache --------------------------
(* Two processes of different patience, three versions, and time for an    *)
(* entry of either to expire while a call of the other is under way.       *)
EXTENDS MetadataCache

CONSTANTS p1, p2

MCProcesses == {p1, p2}
MCTtl == [x \in MCProcesses |-> IF x = p1 THEN 1 ELSE 2]
=============================================================================
