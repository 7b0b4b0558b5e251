---------------------------- MODULE MCKeyManager ----------------------------
(***************************************************************************)
(* Two processes on one directory.                                         *)
(***************************************************************************)
EXTENDS KeyManager
=============================================================================
