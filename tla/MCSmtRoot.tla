----------------------------- MODULE MCSmtRoot ------------------------------
(***************************************************************************)
(* Small instances of the revocation-root cache for TLC: two issuers whose *)
(* roots are published a few times.                                        *)
(***************************************************************************)
EXTENDS SmtRoot
=============================================================================
