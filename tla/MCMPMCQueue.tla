---------------------------- MODULE MCMPMCQueue ----------------------------
(* Values of the queue's constants for TLC.                                *)
EXTENDS MPMCQueue, TLC

QueueSymmetry == Permutations(Producers) \cup Permutations(Consumers)
=============================================================================
