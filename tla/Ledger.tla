------------------------------- MODULE Ledger -------------------------------
(***************************************************************************)
(* What store.Store promises about accepted identities, without time,      *)
(* transactions, connections or failures: a challenge is issued, it is     *)
(* spent by at most one nullifier, and a nullifier spends at most one      *)
(* challenge.  Only a wipe (CleanDB) forgets.                              *)
(***************************************************************************)
CONSTANTS Challenge, Nullifier, NoChallenge

VARIABLES
  issued,   \* the challenges that exist
  spentBy   \* for a nullifier, the challenge it spent, or NoChallenge

lvars == <<issued, spentBy>>

LedgerInit ==
  /\ issued = {}
  /\ spentBy = [n \in Nullifier |-> NoChallenge]

Issue(c) ==
  /\ c \notin issued
  /\ issued' = issued \cup {c}
  /\ UNCHANGED spentBy

Accept(n, c) ==
  /\ c \in issued
  /\ spentBy[n] = NoChallenge
  /\ \A m \in Nullifier : spentBy[m] # c
  /\ spentBy' = [spentBy EXCEPT ![n] = c]
  /\ UNCHANGED issued

Wipe ==
  /\ issued' = {}
  /\ spentBy' = [n \in Nullifier |-> NoChallenge]

LedgerNext ==
  \/ \E c \in Challenge : Issue(c)
  \/ \E n \in Nullifier, c \in Challenge : Accept(n, c)
  \/ Wipe

LedgerSpec == LedgerInit /\ [][LedgerNext]_lvars
=============================================================================
