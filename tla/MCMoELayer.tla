----------------------------- MODULE MCMoELayer -----------------------------
(* Values of the constants for TLC: the .cfg files give them.              *)
EXTENDS MoELayer
=============================================================================
