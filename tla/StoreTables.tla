---------------------------- MODULE StoreTables ----------------------------
(***************************************************************************)
(* The two SQLite tables of package store, as values: what a row holds,    *)
(* how a timestamp survives being written and read back, and the checks    *)
(* VerifyAndRecord makes on the row of a challenge.  The step-by-step      *)
(* store (SQLiteStore) and the link-verify service (LinkVerify) share      *)
(* these operators.                                                        *)
(*                                                                         *)
(* Time is counted in ticks; TicksPerSecond ticks make one second, so that *)
(* the loss of the sub-second part in the expires_at column is visible.    *)
(***************************************************************************)
EXTENDS Integers

CONSTANTS
  Challenge,       \* field elements rand.Read can yield (challenges.challenge)
  Nullifier,       \* nullifiers a user-sig proof can carry
  ProofKey,        \* values of verifications.proof_type
  NoRow,           \* the absence of a row under a key
  TTL,             \* challenge.DefaultTTL, in ticks
  TicksPerSecond   \* resolution of time.Now() relative to RFC3339

ChallengeRow == [expires_at : Nat, consumed : BOOLEAN]

VerificationRow == [challenge : Challenge, proof_type : ProofKey]

\* The arguments of a call on the store; NoRow and 0 where it has none.
Arg == [challenge : Challenge \cup {NoRow}, nullifier : Nullifier \cup {NoRow},
        proof_type : ProofKey \cup {NoRow}, expires : Nat]

NoArg == [challenge |-> NoRow, nullifier |-> NoRow, proof_type |-> NoRow,
          expires |-> 0]

ASSUME StoreAssumption ==
  /\ TTL \in Nat
  /\ TicksPerSecond \in Nat \ {0}
  /\ NoRow \notin ChallengeRow
  /\ NoRow \notin VerificationRow
  /\ NoRow \notin Challenge

(***************************************************************************)
(* expires_at is written with Format(time.RFC3339) and read back with      *)
(* parseTime: whole seconds survive, the fraction does not.                *)
(***************************************************************************)
StoredTime(t) == t - (t % TicksPerSecond)

NewChallengeRow(expiresAt) ==
  [expires_at |-> StoredTime(expiresAt), consumed |-> FALSE]

\* time.Now().After(expiresAt): the deadline itself still counts as live.
IsExpired(row, t) == t > row.expires_at

EmptyChallenges == [c \in Challenge |-> NoRow]

EmptyVerifications == [n \in Nullifier |-> NoRow]

\* Mutant: the consumed_at check is missing.
ChallengeVerdictNoConsumed(challenges, c, t) ==
  IF challenges[c] = NoRow THEN "ErrChallengeNotFound"
  ELSE IF IsExpired(challenges[c], t) THEN "ErrChallengeExpired"
  ELSE "valid"

\* Mutant: the expiry check is missing.
ChallengeVerdictNoExpiry(challenges, c, t) ==
  IF challenges[c] = NoRow THEN "ErrChallengeNotFound"
  ELSE IF challenges[c].consumed THEN "ErrChallengeConsumed"
  ELSE "valid"

(***************************************************************************)
(* The verdict on a challenge inside the transaction, in the order of the  *)
(* code: existence, expiry, consumption.                                   *)
(***************************************************************************)
ChallengeVerdict(challenges, c, t) ==
  IF challenges[c] = NoRow THEN "ErrChallengeNotFound"
  ELSE IF IsExpired(challenges[c], t) THEN "ErrChallengeExpired"
  ELSE IF challenges[c].consumed THEN "ErrChallengeConsumed"
  ELSE "valid"

WithVerification(verifications, n, c, pt) ==
  [verifications EXCEPT ![n] = [challenge |-> c, proof_type |-> pt]]

WithConsumed(challenges, c) == [challenges EXCEPT ![c].consumed = TRUE]
=============================================================================
