----------------------------- MODULE MCReadline -----------------------------
(* Instances of Readline for TLC.                                           *)
EXTENDS Readline

CONSTANTS a

(* A clean array, one full of letters, and one that ends like a blank line. *)
MCStaleBufs ==
  { [i \in 0 .. MaxBuf - 1 |-> NUL],
    [i \in 0 .. MaxBuf - 1 |-> a],
    [i \in 0 .. MaxBuf - 1 |-> IF i = 1 THEN LF ELSE NUL] }
=============================================================================
