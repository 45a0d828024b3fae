---------------------------- MODULE MCServeFront ----------------------------
(* Values of the front end's constants for TLC.                            *)
EXTENDS ServeFront, TLC

CONSTANTS m1, m2

ClientSymmetry == Permutations(Clients)
=============================================================================
