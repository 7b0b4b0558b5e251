--------------------------- MODULE MCLinkVerify ----------------------------
(***************************************************************************)
(* Small instances of the pipeline for TLC: two handler goroutines and one *)
(* slot, so that requests queue.  The proofs are chosen so that every      *)
(* verdict occurs and that two of them compete for a nullifier and two for *)
(* a challenge.                                                            *)
(***************************************************************************)
EXTENDS LinkVerify

CONSTANTS c1, c2, n1, n2, root1, root2, moica2, moica3, impostor, app, otherApp

Pinned == [i \in Issuer |-> IF i = "g2" THEN moica2 ELSE moica3]

Good == [ffi |-> "verified", proof_type |-> "link_rs2048", smt_root |-> root1,
         modulus |-> moica2, app_id |-> app, nullifier |-> n1, challenge |-> c1]

\* The same card with another challenge, another card with the same
\* challenge, and a proof of the other certificate type.
SameCard == [Good EXCEPT !.challenge = c2]
SameChallenge == [Good EXCEPT !.nullifier = n2]
OtherIssuer == [SameChallenge EXCEPT !.proof_type = "link_rs4096",
                                     !.modulus = moica3]

Competing == {Good, SameCard, SameChallenge}

\* One proof per way to fail, and one (TwoFaults) that fails twice.
Bad == {[Good EXCEPT !.ffi = "rejected"],
        [Good EXCEPT !.ffi = "error"],
        [Good EXCEPT !.ffi = "unparsable"],
        [Good EXCEPT !.modulus = impostor],
        [Good EXCEPT !.app_id = otherApp],
        [Good EXCEPT !.modulus = impostor, !.app_id = otherApp],
        [OtherIssuer EXCEPT !.modulus = moica2]}

Mixed == Bad \cup {Good, OtherIssuer}

Ordinary == {Good}

BothRoots == {[i \in Issuer |-> root1]}

AnyRoots == [Issuer -> Root \cup {NoRoot}]
=============================================================================
