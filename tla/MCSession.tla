----------------------------- MODULE MCSession -----------------------------
(* Values of the session's constants for TLC.                              *)
EXTENDS Session

CONSTANTS a, e
=============================================================================
