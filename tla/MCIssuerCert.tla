---------------------------- MODULE MCIssuerCert ----------------------------
(***************************************************************************)
(* Small instance of the certificate cache for TLC: the G3 certificate     *)
(* becomes valid after the start of time, the G2 certificate expires while *)
(* the process may be running.                                             *)
(***************************************************************************)
EXTENDS IssuerCert

ValidFrom == [i \in Issuer |-> IF i = "g2" THEN 0 ELSE 1]

ValidUntil == [i \in Issuer |-> IF i = "g2" THEN 2 ELSE 3]
=============================================================================
