---------------------------- MODULE MCTransports ----------------------------
(***************************************************************************)
(* Two sessions with two cards; a clock of half seconds.                   *)
(***************************************************************************)
EXTENDS Transports, TLC

Symmetric ==
  Permutations(Session) \cup Permutations(Challenge) \cup Permutations(Nullifier)

\* The next states do not depend on the reply; the properties see every step.
AllButReply ==
  <<challenges, verifications, issued, now, call, announced, refused, voided>>
=============================================================================
