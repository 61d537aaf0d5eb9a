---------------------------- MODULE MCVaultFile ----------------------------
(***************************************************************************)
(* A small instance of VaultFile: two calls at once, one key to store and  *)
(* another in the environment.                                             *)
(***************************************************************************)
EXTENDS VaultFile

CONSTANTS k1, k2, x1, env
=============================================================================
