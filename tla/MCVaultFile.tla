----------------------------- MODULE MCVaultFile -----------------------------
(***************************************************************************)
(* VaultFile for TLC: a few requests and commands on two secrets.          *)
(***************************************************************************)
EXTENDS VaultFile
=============================================================================
