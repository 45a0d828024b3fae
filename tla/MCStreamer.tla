----------------------------- MODULE MCStreamer -----------------------------
(* Values of the streamer's constants for TLC.                             *)
EXTENDS Streamer, TLC

CONSTANTS l1, l2, e1, e2, e3

\* One layer of three experts, the third missing from the vault's table.
TwoOfThree == {<<l1, e1>>, <<l1, e2>>}

\* Two layers of one expert each, both in the vault.
TwoLayers == {<<l1, e1>>, <<l2, e1>>}

\* The same two, the second missing from the vault's table.
OneOfTwo == {<<l1, e1>>}

WorkerSymmetry == Permutations(Workers)
=============================================================================
