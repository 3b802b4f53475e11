--------------------------- MODULE MCAuditArchive ---------------------------
(* Instances of AuditArchive for TLC. *)
EXTENDS AuditArchive, TLC

CONSTANTS s1, s2, pa

(* The ids of the sessions begin with the same characters: recordings begun *)
(* in the same second share a file.                                         *)
SamePrefix == [s \in Sessions |-> pa]

Symmetry == Permutations(Sessions)
=============================================================================
