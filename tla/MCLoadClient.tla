---------------------------- MODULE MCLoadClient ----------------------------
(* Instances of LoadClient for TLC.                                         *)
EXTENDS LoadClient

CONSTANTS w1, w2
=============================================================================
