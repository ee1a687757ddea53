------------------------------ MODULE MCBuffer ------------------------------
(* Instances of Buffer for TLC.                                             *)
EXTENDS Buffer

CONSTANTS s1, s2, m1, l1, l2, w1, w2, w3

(* Small, medium and large files; requests of one size make ties. *)
SizeOf(r) == CASE r \in {s1, s2} -> 1 [] r = m1 -> 2 [] OTHER -> 3

MCFileSize == [r \in Request |-> SizeOf(r)]
=============================================================================
