------------------------------ MODULE MCVault ------------------------------
(* Vaults of one, two and six experts on pages of 512 bytes: with two the   *)
(* arch block does not fit on the page the tables end on; the tables of six *)
(* experts are longer than a page of the blobs of one.                      *)
EXTENDS Vault
=============================================================================
