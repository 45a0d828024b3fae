---------------------------- MODULE MCSelection ----------------------------
(* Four experts, six tokens, a heap of four, whose second entry has one      *)
(* child; the first token is exempt.                                         *)
EXTENDS Selection
=============================================================================
