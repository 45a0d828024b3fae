----------------------------- MODULE MCPrewarm -----------------------------
(* The prewarm thread and its histogram, for TLC; the constants are       *)
(* numbers and are given in the configuration.                             *)
EXTENDS Prewarm
=============================================================================
