------------------------------ MODULE MCVault ------------------------------
(* Two devices; the second one's uid is the greater.                       *)
EXTENDS Vault

CONSTANTS vpn, mail
=============================================================================
