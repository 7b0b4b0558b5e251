---------------------------- MODULE SQLiteStore ----------------------------
(***************************************************************************)
(* store.SQLiteStore: goroutines of the server (Caller) share one database *)
(* connection (SetMaxOpenConns(1)).  An operation is a sequence of SQL     *)
(* statements; a transaction keeps the connection from BeginTx to Commit   *)
(* or to the deferred Rollback, and works on its own view of the tables    *)
(* until it commits.  The clock advances, a statement can fail (driver     *)
(* error or cancelled request context) and the process can crash between   *)
(* any two steps; the file is reopened on restart.                         *)
(***************************************************************************)
EXTENDS StoreTables

CONSTANTS
  Caller,     \* request goroutines that use the store
  NoCaller,   \* the connection is in the pool
  MaxTime     \* bound of the clock

ASSUME CallerAssumption == NoCaller \notin Caller /\ MaxTime \in Nat

VARIABLES
  challenges, verifications,       \* the committed tables
  txChallenges, txVerifications,   \* the tables as the connection sees them
  conn,        \* the caller whose transaction holds the connection
  pc,          \* the next statement of each caller
  arg,         \* the arguments of each caller's operation
  res,         \* what the caller's last operation returned
  announced,   \* ExpiresAt as CreateChallenge returned it
  now,         \* time.Now()
  up           \* the process runs with the store open

tables == <<challenges, verifications>>
txview == <<txChallenges, txVerifications>>
vars == <<challenges, verifications, txChallenges, txVerifications,
          conn, pc, arg, res, announced, now, up>>

WaitPC == {"insertChallenge", "get", "beginRecord", "beginClean"}
RecordPC == {"query", "insertVerification", "consume", "commit"}
CleanPC == {"deleteVerifications", "deleteChallenges", "commitClean"}
TxPC == RecordPC \cup CleanPC

Outcome == {"none", "ok", "found", "nil", "error", "ErrChallengeNotFound",
            "ErrChallengeExpired", "ErrChallengeConsumed",
            "ErrDuplicateNullifier"}

TypeOK ==
  /\ challenges \in [Challenge -> ChallengeRow \cup {NoRow}]
  /\ verifications \in [Nullifier -> VerificationRow \cup {NoRow}]
  /\ txChallenges \in [Challenge -> ChallengeRow \cup {NoRow}]
  /\ txVerifications \in [Nullifier -> VerificationRow \cup {NoRow}]
  /\ conn \in Caller \cup {NoCaller}
  /\ pc \in [Caller -> {"idle"} \cup WaitPC \cup TxPC]
  /\ arg \in [Caller -> Arg]
  /\ res \in [Caller -> Outcome]
  /\ announced \in [Challenge -> Nat]
  /\ now \in 0..MaxTime
  /\ up \in BOOLEAN

Init ==
  /\ challenges = EmptyChallenges
  /\ verifications = EmptyVerifications
  /\ txChallenges = EmptyChallenges
  /\ txVerifications = EmptyVerifications
  /\ conn = NoCaller
  /\ pc = [g \in Caller |-> "idle"]
  /\ arg = [g \in Caller |-> NoArg]
  /\ res = [g \in Caller |-> "none"]
  /\ announced = [c \in Challenge |-> 0]
  /\ now = 0
  /\ up = TRUE
-----------------------------------------------------------------------------
(***************************************************************************)
(* Calls and returns.                                                      *)
(***************************************************************************)
Call(g, first, a) ==
  /\ up
  /\ pc[g] = "idle"
  /\ pc' = [pc EXCEPT ![g] = first]
  /\ arg' = [arg EXCEPT ![g] = a]
  /\ res' = [res EXCEPT ![g] = "none"]
  /\ UNCHANGED <<tables, txview, conn, announced, now, up>>

Return(g, r) ==
  /\ pc' = [pc EXCEPT ![g] = "idle"]
  /\ res' = [res EXCEPT ![g] = r]
  /\ UNCHANGED <<arg, now, up>>

Goto(g, label) ==
  /\ pc' = [pc EXCEPT ![g] = label]
  /\ UNCHANGED <<arg, res, announced, now, up>>

RollbackCommits ==   \* mutant: the deferred call is tx.Commit
  /\ conn' = NoCaller
  /\ challenges' = txChallenges
  /\ verifications' = txVerifications
  /\ UNCHANGED <<txview, announced>>

\* tx.Rollback, deferred by every transaction: the connection sees the
\* committed tables again and goes back to the pool.
Rollback ==
  /\ conn' = NoCaller
  /\ txChallenges' = challenges
  /\ txVerifications' = verifications
  /\ UNCHANGED <<tables, announced>>

Commit ==
  /\ conn' = NoCaller
  /\ challenges' = txChallenges
  /\ verifications' = txVerifications
  /\ UNCHANGED <<txview, announced>>
-----------------------------------------------------------------------------
(***************************************************************************)
(* CreateChallenge: the value and its deadline are drawn first, then the   *)
(* INSERT waits for the connection.  A value already in the table violates *)
(* the primary key.                                                        *)
(***************************************************************************)
CreateChallenge(g, c) ==
  Call(g, "insertChallenge", [NoArg EXCEPT !.challenge = c,
                                           !.expires = now + TTL])

InsertChallenge(g) ==
  LET c == arg[g].challenge
      new == [challenges EXCEPT ![c] = NewChallengeRow(arg[g].expires)]
  IN
  /\ pc[g] = "insertChallenge"
  /\ conn = NoCaller
  /\ \/ /\ challenges[c] = NoRow
        /\ challenges' = new
        /\ txChallenges' = new
        /\ announced' = [announced EXCEPT ![c] = arg[g].expires]
        /\ Return(g, "ok")
     \/ /\ challenges[c] # NoRow
        /\ Return(g, "error")
        /\ UNCHANGED <<challenges, txChallenges, announced>>
  /\ UNCHANGED <<verifications, txVerifications, conn>>

(***************************************************************************)
(* GetChallenge reads the row and checks neither expiry nor consumption.   *)
(***************************************************************************)
GetChallenge(g, c) == Call(g, "get", [NoArg EXCEPT !.challenge = c])

SelectChallenge(g) ==
  /\ pc[g] = "get"
  /\ conn = NoCaller
  /\ Return(g, IF challenges[arg[g].challenge] = NoRow THEN "nil" ELSE "found")
  /\ UNCHANGED <<tables, txview, conn, announced>>
-----------------------------------------------------------------------------
(***************************************************************************)
(* VerifyAndRecord, statement by statement.                                *)
(***************************************************************************)
VerifyAndRecordSwapped(g, n, c, pt) ==   \* mutant: two strings change places
  Call(g, "beginRecord", [NoArg EXCEPT !.nullifier = c, !.challenge = n,
                                       !.proof_type = pt])

VerifyAndRecord(g, n, c, pt) ==
  Call(g, "beginRecord", [NoArg EXCEPT !.nullifier = n, !.challenge = c,
                                       !.proof_type = pt])

BeginTx(g) ==
  /\ conn = NoCaller
  /\ conn' = g
  /\ \/ pc[g] = "beginRecord" /\ Goto(g, "query")
     \/ pc[g] = "beginClean" /\ Goto(g, "deleteVerifications")
  /\ UNCHANGED <<tables, txview>>

QueryChallenge(g) ==
  LET verdict == ChallengeVerdict(txChallenges, arg[g].challenge, now)
  IN
  /\ pc[g] = "query"
  /\ \/ /\ verdict = "valid"
        /\ Goto(g, "insertVerification")
        /\ UNCHANGED <<tables, txview, conn>>
     \/ /\ verdict # "valid"
        /\ Return(g, verdict)
        /\ Rollback

InsertVerificationOnDB(g) ==   \* mutant: s.db.Exec, not tx.Exec
  /\ pc[g] = "insertVerification"
  /\ txVerifications[arg[g].nullifier] = NoRow
  /\ verifications' = WithVerification(verifications, arg[g].nullifier,
                                       arg[g].challenge, arg[g].proof_type)
  /\ txVerifications' = verifications'
  /\ Goto(g, "consume")
  /\ UNCHANGED <<challenges, txChallenges, conn>>

InsertOrReplaceVerification(g) ==   \* mutant: the nullifier is overwritten
  /\ pc[g] = "insertVerification"
  /\ txVerifications' = WithVerification(txVerifications, arg[g].nullifier,
                                         arg[g].challenge, arg[g].proof_type)
  /\ Goto(g, "consume")
  /\ UNCHANGED <<tables, txChallenges, conn>>

InsertVerification(g) ==
  /\ pc[g] = "insertVerification"
  /\ \/ /\ txVerifications[arg[g].nullifier] = NoRow
        /\ txVerifications' =
             WithVerification(txVerifications, arg[g].nullifier,
                              arg[g].challenge, arg[g].proof_type)
        /\ Goto(g, "consume")
        /\ UNCHANGED <<tables, txChallenges, conn>>
     \/ /\ txVerifications[arg[g].nullifier] # NoRow
        /\ Return(g, "ErrDuplicateNullifier")
        /\ Rollback

ConsumeChallenge(g) ==
  /\ pc[g] = "consume"
  /\ txChallenges' = WithConsumed(txChallenges, arg[g].challenge)
  /\ Goto(g, "commit")
  /\ UNCHANGED <<tables, txVerifications, conn>>

CommitRecord(g) ==
  /\ pc[g] = "commit"
  /\ Commit
  /\ Return(g, "ok")
-----------------------------------------------------------------------------
(***************************************************************************)
(* CleanDB: verifications first (their foreign key points at challenges).  *)
(***************************************************************************)
CleanDB(g) == Call(g, "beginClean", NoArg)

DeleteVerificationsOnDB(g) ==   \* mutant: two deletes, no transaction
  /\ pc[g] = "deleteVerifications"
  /\ verifications' = EmptyVerifications
  /\ txVerifications' = EmptyVerifications
  /\ Goto(g, "deleteChallenges")
  /\ UNCHANGED <<challenges, txChallenges, conn>>

DeleteVerifications(g) ==
  /\ pc[g] = "deleteVerifications"
  /\ txVerifications' = EmptyVerifications
  /\ Goto(g, "deleteChallenges")
  /\ UNCHANGED <<tables, txChallenges, conn>>

DeleteChallenges(g) ==
  /\ pc[g] = "deleteChallenges"
  /\ txChallenges' = EmptyChallenges
  /\ Goto(g, "commitClean")
  /\ UNCHANGED <<tables, txVerifications, conn>>

CommitClean(g) ==
  /\ pc[g] = "commitClean"
  /\ Commit
  /\ Return(g, "ok")
-----------------------------------------------------------------------------
(***************************************************************************)
(* Failures.  A call that still waits for the connection, or a statement   *)
(* of a transaction, returns a driver or context error; the deferred       *)
(* Rollback undoes the transaction.  A crash loses every call and the open *)
(* transaction, never the committed tables; opening the store again runs   *)
(* the migrations, which leave existing rows alone.                        *)
(***************************************************************************)
FailWaiting(g) ==
  /\ pc[g] \in WaitPC
  /\ Return(g, "error")
  /\ UNCHANGED <<tables, txview, conn, announced>>

FailTxKeepsConn(g) ==   \* mutant: no deferred Rollback
  /\ pc[g] \in TxPC
  /\ Return(g, "error")
  /\ UNCHANGED <<tables, txview, conn, announced>>

FailTx(g) ==
  /\ pc[g] \in TxPC
  /\ Return(g, "error")
  /\ Rollback

Crash ==
  /\ up
  /\ up' = FALSE
  /\ pc' = [g \in Caller |-> "idle"]
  /\ res' = [g \in Caller |-> "none"]
  /\ Rollback
  /\ UNCHANGED <<arg, now>>

NewSQLiteStore ==
  /\ ~up
  /\ up' = TRUE
  /\ UNCHANGED <<tables, txview, conn, pc, arg, res, announced, now>>

Tick ==
  /\ now < MaxTime
  /\ now' = now + 1
  /\ UNCHANGED <<tables, txview, conn, pc, arg, res, announced, up>>
-----------------------------------------------------------------------------
Invoke(g) ==
  \/ \E c \in Challenge : CreateChallenge(g, c)
  \/ \E c \in Challenge : GetChallenge(g, c)
  \/ \E n \in Nullifier, c \in Challenge, pt \in ProofKey :
       VerifyAndRecord(g, n, c, pt)
  \/ CleanDB(g)

\* A step that first needs the pooled connection.
UseConn(g) ==
  \/ InsertChallenge(g)
  \/ SelectChallenge(g)
  \/ BeginTx(g)

\* A statement of the transaction that holds the connection.
TxStep(g) ==
  \/ QueryChallenge(g)
  \/ InsertVerification(g)
  \/ ConsumeChallenge(g)
  \/ CommitRecord(g)
  \/ DeleteVerifications(g)
  \/ DeleteChallenges(g)
  \/ CommitClean(g)

Fail(g) == FailWaiting(g) \/ FailTx(g)

Next ==
  \/ \E g \in Caller : Invoke(g) \/ UseConn(g) \/ TxStep(g) \/ Fail(g)
  \/ Crash
  \/ NewSQLiteStore
  \/ Tick

Spec == Init /\ [][Next]_vars

(***************************************************************************)
(* Goroutines run (weak fairness on statements); a caller that waits for   *)
(* the connection is served as long as it keeps coming back to the pool    *)
(* (strong fairness: database/sql hands a freed connection to a waiter).   *)
(***************************************************************************)
Fairness ==
  \A g \in Caller : SF_vars(UseConn(g)) /\ WF_vars(TxStep(g))

FairSpec == Spec /\ Fairness
-----------------------------------------------------------------------------
(***************************************************************************)
(* Properties.                                                             *)
(***************************************************************************)
Recorded(n) == verifications[n] # NoRow

Consumed(c) == challenges[c] # NoRow /\ challenges[c].consumed

\* VerifyAndRecord records a verification and consumes its challenge in one
\* transaction: in the committed tables, whatever crashed or failed, a
\* challenge is consumed exactly when some verification names it (which
\* also gives the foreign key).
ConsumedIffRecorded ==
  /\ \A n \in Nullifier : Recorded(n) => Consumed(verifications[n].challenge)
  /\ \A c \in Challenge : Consumed(c) =>
       \E n \in Nullifier : Recorded(n) /\ verifications[n].challenge = c

\* verifications.challenge is not UNIQUE in the schema: that two identities
\* never share a challenge rests on the consumed_at check of VerifyAndRecord
\* running in the transaction of the insert.
OneVerificationPerChallenge ==
  \A m, n \in Nullifier :
    /\ Recorded(m) /\ Recorded(n)
    /\ verifications[m].challenge = verifications[n].challenge
    => m = n

\* A recorded identity stays recorded, with the same challenge, through
\* failures and crashes; only the commit of CleanDB removes it.
OnlyCleanForgets ==
  [][\A n \in Nullifier :
       Recorded(n) => \/ verifications'[n] = verifications[n]
                      \/ \E g \in Caller : pc[g] = "commitClean"]_vars

\* What the statements of the store do to the committed tables is what the
\* abstract ledger allows: issue, accept one nullifier per challenge, wipe.
L == INSTANCE Ledger WITH
       NoChallenge <- NoRow,
       issued <- {c \in Challenge : challenges[c] # NoRow},
       spentBy <- [n \in Nullifier |->
                     IF verifications[n] = NoRow THEN NoRow
                     ELSE verifications[n].challenge]

ImplementsLedger == L!LedgerSpec

\* The call that a statement belongs to; "checked" once the challenge of
\* VerifyAndRecord was found valid.
CallAt(label) ==
  CASE label = "idle" -> "none"
    [] label = "insertChallenge" -> "create"
    [] label = "get" -> "get"
    [] label \in {"beginRecord", "query"} -> "record"
    [] label \in {"insertVerification", "consume", "commit"} -> "checked"
    [] label \in CleanPC \cup {"beginClean"} -> "clean"

calls == [g \in Caller |-> CallAt(pc[g])]

A == INSTANCE AtomicStore WITH call <- calls

\* store.Store is called as if its methods were atomic: a caller never sees
\* half a transaction, an error never leaves a trace, and what
\* VerifyAndRecord checked still holds when it commits.
CallsAreAtomic == A!AtomicSpec

\* Every call on the store returns (or dies with the process): nobody waits
\* for the single connection forever.
CallsReturn ==
  \A g \in Caller : (pc[g] # "idle") ~> (pc[g] = "idle")

\* README: a challenge is refused as expired when it "passed its 5-minute
\* TTL", that is, not before the expires_at the client was given.
ExpiredOnlyAfterTTL ==
  \A g \in Caller :
    res[g] = "ErrChallengeExpired" => now >= announced[arg[g].challenge]
=============================================================================
