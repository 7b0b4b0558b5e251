---------------------------- MODULE AtomicStore ----------------------------
(***************************************************************************)
(* What a caller of store.Store may rely on: every call takes effect at    *)
(* one moment between its start and its return, or not at all if it        *)
(* returns an error or dies with the process.  There are no statements,    *)
(* connections or transactions here.                                       *)
(*                                                                         *)
(* VerifyAndRecord reads the clock before it takes effect.  The clock may  *)
(* go on in between, but no other call takes effect: what it checked is    *)
(* still so when it records.                                               *)
(***************************************************************************)
EXTENDS StoreTables

CONSTANT Caller   \* request goroutines that use the store

VARIABLES
  challenges, verifications,   \* the tables
  call,   \* the call of each caller, "none" when it has returned
  arg,    \* its arguments
  res,    \* what the last call returned
  now, up

avars == <<challenges, verifications, call, arg, res, now, up>>

AtomicInit ==
  /\ challenges = EmptyChallenges
  /\ verifications = EmptyVerifications
  /\ call = [g \in Caller |-> "none"]
  /\ arg = [g \in Caller |-> NoArg]
  /\ res = [g \in Caller |-> "none"]
  /\ now = 0
  /\ up = TRUE

Begin(g, operation, a) ==
  /\ up
  /\ call[g] = "none"
  /\ call' = [call EXCEPT ![g] = operation]
  /\ arg' = [arg EXCEPT ![g] = a]
  /\ res' = [res EXCEPT ![g] = "none"]
  /\ UNCHANGED <<challenges, verifications, now, up>>

Return(g, r) ==
  /\ call' = [call EXCEPT ![g] = "none"]
  /\ res' = [res EXCEPT ![g] = r]
  /\ UNCHANGED <<arg, now, up>>

\* Nobody is between the checks of VerifyAndRecord and its effect.
Exclusive == \A h \in Caller : call[h] # "checked"

Invoke(g) ==
  \/ \E c \in Challenge :
       Begin(g, "create", [NoArg EXCEPT !.challenge = c, !.expires = now + TTL])
  \/ \E c \in Challenge : Begin(g, "get", [NoArg EXCEPT !.challenge = c])
  \/ \E n \in Nullifier, c \in Challenge, pt \in ProofKey :
       Begin(g, "record", [NoArg EXCEPT !.nullifier = n, !.challenge = c,
                                        !.proof_type = pt])
  \/ Begin(g, "clean", NoArg)

Create(g) ==
  LET c == arg[g].challenge
  IN
  /\ call[g] = "create" /\ Exclusive
  /\ IF challenges[c] = NoRow
     THEN /\ challenges' = [challenges EXCEPT ![c] = NewChallengeRow(arg[g].expires)]
          /\ Return(g, "ok")
     ELSE challenges' = challenges /\ Return(g, "error")
  /\ UNCHANGED verifications

Get(g) ==
  /\ call[g] = "get" /\ Exclusive
  /\ Return(g, IF challenges[arg[g].challenge] = NoRow THEN "nil" ELSE "found")
  /\ UNCHANGED <<challenges, verifications>>

Check(g) ==
  LET verdict == ChallengeVerdict(challenges, arg[g].challenge, now)
  IN
  /\ call[g] = "record" /\ Exclusive
  /\ IF verdict = "valid"
     THEN call' = [call EXCEPT ![g] = "checked"] /\ UNCHANGED <<arg, res, now, up>>
     ELSE Return(g, verdict)
  /\ UNCHANGED <<challenges, verifications>>

Record(g) ==
  LET a == arg[g]
  IN
  /\ call[g] = "checked"
  /\ IF verifications[a.nullifier] = NoRow
     THEN /\ verifications' = WithVerification(verifications, a.nullifier,
                                               a.challenge, a.proof_type)
          /\ challenges' = WithConsumed(challenges, a.challenge)
          /\ Return(g, "ok")
     ELSE /\ Return(g, "ErrDuplicateNullifier")
          /\ UNCHANGED <<challenges, verifications>>

Clean(g) ==
  /\ call[g] = "clean" /\ Exclusive
  /\ challenges' = EmptyChallenges
  /\ verifications' = EmptyVerifications
  /\ Return(g, "ok")

\* An error return leaves no trace in the tables.
Fail(g) ==
  /\ call[g] # "none"
  /\ Return(g, "error")
  /\ UNCHANGED <<challenges, verifications>>

Crash ==
  /\ up /\ up' = FALSE
  /\ call' = [g \in Caller |-> "none"]
  /\ res' = [g \in Caller |-> "none"]
  /\ UNCHANGED <<challenges, verifications, arg, now>>

Reopen ==
  /\ ~ up /\ up' = TRUE
  /\ UNCHANGED <<challenges, verifications, call, arg, res, now>>

Tick ==
  /\ now' = now + 1
  /\ UNCHANGED <<challenges, verifications, call, arg, res, up>>

AtomicNext ==
  \/ \E g \in Caller :
       \/ Invoke(g) \/ Create(g) \/ Get(g) \/ Check(g) \/ Record(g)
       \/ Clean(g) \/ Fail(g)
  \/ Crash \/ Reopen \/ Tick

AtomicSpec == AtomicInit /\ [][AtomicNext]_avars
=============================================================================
