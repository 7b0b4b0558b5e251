-------------------------- MODULE SQLiteStoreProofs --------------------------
(***************************************************************************)
(* Proofs about the store, for any number of callers, challenges and       *)
(* nullifiers: type correctness, the consistency of the two tables, and    *)
(* that the statements of the store implement the abstract ledger.         *)
(***************************************************************************)
EXTENDS SQLiteStore, TLAPS

RecordArg(a) ==
  a.challenge \in Challenge /\ a.nullifier \in Nullifier
    /\ a.proof_type \in ProofKey

Open(c) == challenges[c] # NoRow /\ ~ challenges[c].consumed

(***************************************************************************)
(* What the connection sees at each statement of a transaction, relative   *)
(* to the committed tables.  It can be stated with equalities because the  *)
(* holder of the single connection excludes every other writer.            *)
(***************************************************************************)
ViewAt(g) ==
  LET c == arg[g].challenge
      n == arg[g].nullifier
      pt == arg[g].proof_type
  IN
  /\ pc[g] = "insertChallenge" => c \in Challenge
  /\ pc[g] \in RecordPC \cup {"beginRecord"} => RecordArg(arg[g])
  /\ pc[g] \in {"query", "insertVerification", "deleteVerifications"} =>
       txChallenges = challenges /\ txVerifications = verifications
  /\ pc[g] \in {"insertVerification", "consume", "commit"} => Open(c)
  /\ pc[g] \in {"consume", "commit"} =>
       /\ verifications[n] = NoRow
       /\ txVerifications = WithVerification(verifications, n, c, pt)
  /\ pc[g] = "consume" => txChallenges = challenges
  /\ pc[g] = "commit" => txChallenges = WithConsumed(challenges, c)
  /\ pc[g] = "deleteChallenges" => txChallenges = challenges
  /\ pc[g] \in {"deleteChallenges", "commitClean"} =>
       txVerifications = EmptyVerifications
  /\ pc[g] = "commitClean" => txChallenges = EmptyChallenges

PoolView ==
  conn = NoCaller => txChallenges = challenges /\ txVerifications = verifications

\* With one connection in the pool, a return path of a transaction that kept
\* it would stop the server: whoever holds the connection is inside a
\* transaction, and only the holder is.
ConnectionHeldByTx ==
  \A g \in Caller : pc[g] \in TxPC <=> conn = g

IInv ==
  /\ TypeOK
  /\ ConnectionHeldByTx
  /\ PoolView
  /\ \A g \in Caller : ViewAt(g)
  /\ ConsumedIffRecorded
  /\ OneVerificationPerChallenge
-----------------------------------------------------------------------------
(***************************************************************************)
(* Lemmas about the operators on the tables.                               *)
(***************************************************************************)
\* A timestamp that went through the expires_at column is a natural number
\* and is never later than the one that was written (Format(RFC3339)).
LEMMA StoredTimeNat ==
  ASSUME NEW t \in Nat
  PROVE  StoredTime(t) \in Nat /\ StoredTime(t) <= t
BY StoreAssumption DEF StoredTime

\* The verdict of VerifyAndRecord on a challenge is one of its outcomes, and
\* it is "valid" only for an issued challenge that was not consumed.
LEMMA VerdictCases ==
  ASSUME NEW ch, NEW c, NEW t
  PROVE  /\ ChallengeVerdict(ch, c, t) \in
              {"valid", "ErrChallengeNotFound", "ErrChallengeExpired",
               "ErrChallengeConsumed"}
         /\ ChallengeVerdict(ch, c, t) = "valid" =>
              ch[c] # NoRow /\ ~ ch[c].consumed
BY DEF ChallengeVerdict

\* The table operators keep the tables well typed.
LEMMA TableTypes ==
  /\ EmptyChallenges \in [Challenge -> ChallengeRow \cup {NoRow}]
  /\ EmptyVerifications \in [Nullifier -> VerificationRow \cup {NoRow}]
  /\ \A t \in Nat : NewChallengeRow(t) \in ChallengeRow
  /\ \A ve \in [Nullifier -> VerificationRow \cup {NoRow}] :
       \A n \in Nullifier, c \in Challenge, pt \in ProofKey :
         WithVerification(ve, n, c, pt) \in
           [Nullifier -> VerificationRow \cup {NoRow}]
  /\ \A ch \in [Challenge -> ChallengeRow \cup {NoRow}] :
       \A c \in Challenge : ch[c] # NoRow =>
         WithConsumed(ch, c) \in [Challenge -> ChallengeRow \cup {NoRow}]
<1>1. EmptyChallenges \in [Challenge -> ChallengeRow \cup {NoRow}]
  BY DEF EmptyChallenges
<1>2. EmptyVerifications \in [Nullifier -> VerificationRow \cup {NoRow}]
  BY DEF EmptyVerifications
<1>3. \A t \in Nat : NewChallengeRow(t) \in ChallengeRow
  BY StoredTimeNat DEF NewChallengeRow, ChallengeRow
<1>4. \A ve \in [Nullifier -> VerificationRow \cup {NoRow}] :
       \A n \in Nullifier, c \in Challenge, pt \in ProofKey :
         WithVerification(ve, n, c, pt) \in
           [Nullifier -> VerificationRow \cup {NoRow}]
  BY DEF WithVerification, VerificationRow
<1>5. ASSUME NEW ch \in [Challenge -> ChallengeRow \cup {NoRow}],
             NEW c \in Challenge, ch[c] # NoRow
      PROVE  WithConsumed(ch, c) \in [Challenge -> ChallengeRow \cup {NoRow}]
  <2>1. [ch[c] EXCEPT !.consumed = TRUE] \in ChallengeRow
    BY <1>5 DEF ChallengeRow
  <2> QED
    BY <1>5, <2>1 DEF WithConsumed
<1> QED
  BY <1>1, <1>2, <1>3, <1>4, <1>5
-----------------------------------------------------------------------------
(***************************************************************************)
(* Preservation of the inductive invariant, one lemma per kind of step.    *)
(***************************************************************************)
\* Starting a call touches the caller's own pc, arg and res, never a table.
LEMMA CallPreserves ==
  ASSUME IInv, NEW g \in Caller, NEW first \in WaitPC, NEW a \in Arg,
         first = "insertChallenge" => a.challenge \in Challenge,
         first = "beginRecord" => RecordArg(a),
         Call(g, first, a)
  PROVE  IInv'
<1> USE DEF IInv, Call, tables, txview
<1>1. TypeOK'
  BY DEF TypeOK, WaitPC, Outcome
<1>2. ConnectionHeldByTx'
  BY CallerAssumption DEF TypeOK, ConnectionHeldByTx, WaitPC, TxPC, RecordPC, CleanPC
<1>3. PoolView'
  BY DEF PoolView
<1>4. \A h \in Caller : ViewAt(h)'
  <2> TAKE h \in Caller
  <2>1. CASE h = g
    BY <2>1 DEF TypeOK, ViewAt, WaitPC, RecordPC, RecordArg
  <2>2. CASE h # g
    <3>1. ViewAt(h) /\ pc'[h] = pc[h] /\ arg'[h] = arg[h]
      BY <2>2 DEF TypeOK
    <3> QED
      BY <3>1 DEF ViewAt, Open, RecordArg
  <2> QED
    BY <2>1, <2>2
<1>5. ConsumedIffRecorded' /\ OneVerificationPerChallenge'
  BY DEF ConsumedIffRecorded, OneVerificationPerChallenge, Recorded, Consumed
<1> QED
  BY <1>1, <1>2, <1>3, <1>4, <1>5

\* The calls of the program are such starts.
LEMMA InvokePreserves ==
  ASSUME IInv, NEW g \in Caller, Invoke(g)
  PROVE  IInv'
<1>1. NoArg \in Arg
  BY DEF NoArg, Arg
<1>2. ASSUME NEW c \in Challenge, CreateChallenge(g, c)
      PROVE  IInv'
  <2> DEFINE a == [NoArg EXCEPT !.challenge = c, !.expires = now + TTL]
  <2>0. now + TTL \in Nat
    BY StoreAssumption, CallerAssumption DEF IInv, TypeOK
  <2>1. a \in Arg /\ a.challenge = c
    BY <1>1, <2>0 DEF NoArg, Arg
  <2>2. Call(g, "insertChallenge", a)
    BY <1>2 DEF CreateChallenge
  <2> HIDE DEF a
  <2> QED
    BY <2>1, <2>2, CallPreserves DEF WaitPC
<1>3. ASSUME NEW c \in Challenge, GetChallenge(g, c)
      PROVE  IInv'
  <2> DEFINE a == [NoArg EXCEPT !.challenge = c]
  <2>1. a \in Arg
    BY DEF NoArg, Arg
  <2>2. Call(g, "get", a)
    BY <1>3 DEF GetChallenge
  <2> HIDE DEF a
  <2> QED
    BY <2>1, <2>2, CallPreserves DEF WaitPC
<1>4. ASSUME NEW n \in Nullifier, NEW c \in Challenge, NEW pt \in ProofKey,
             VerifyAndRecord(g, n, c, pt)
      PROVE  IInv'
  <2> DEFINE a == [NoArg EXCEPT !.nullifier = n, !.challenge = c,
                                !.proof_type = pt]
  <2>1. a \in Arg /\ RecordArg(a)
    BY DEF NoArg, Arg, RecordArg
  <2>2. Call(g, "beginRecord", a)
    BY <1>4 DEF VerifyAndRecord
  <2> HIDE DEF a
  <2> QED
    BY <2>1, <2>2, CallPreserves DEF WaitPC
<1>5. CASE CleanDB(g)
  BY <1>1, <1>5, CallPreserves DEF CleanDB, WaitPC
<1> QED
  BY <1>2, <1>3, <1>4, <1>5 DEF Invoke

\* A caller that does not hold the connection is in no transaction, so what
\* a step does to the tables cannot disturb what that caller relies on.
LEMMA OtherView ==
  ASSUME IInv, NEW h \in Caller, conn # h, pc'[h] = pc[h], arg'[h] = arg[h]
  PROVE  ViewAt(h)'
<1>1. pc[h] \notin TxPC
  BY DEF IInv, ConnectionHeldByTx
<1>2. ViewAt(h)
  BY DEF IInv
<1> QED
  BY <1>1, <1>2 DEF ViewAt, TxPC, RecordPC, CleanPC, RecordArg

\* Return and Rollback together, the early return of a transaction: the
\* view of the connection is the committed tables again.
LEMMA RollbackPreserves ==
  ASSUME IInv, NEW g \in Caller, pc[g] \in TxPC, NEW r \in Outcome,
         Return(g, r), Rollback
  PROVE  IInv'
<1> USE DEF Return, Rollback, tables
<1>0. TypeOK /\ conn = g
  BY DEF IInv, ConnectionHeldByTx
<1>1. TypeOK'
  BY <1>0 DEF TypeOK
<1>2. ConnectionHeldByTx'
  BY <1>0, CallerAssumption
  DEF IInv, TypeOK, ConnectionHeldByTx, TxPC, RecordPC, CleanPC
<1>3. PoolView'
  BY DEF PoolView
<1>4. ASSUME NEW h \in Caller PROVE ViewAt(h)'
  <2>1. CASE h = g
    BY <1>0, <2>1 DEF TypeOK, ViewAt, RecordPC
  <2>2. CASE h # g
    BY <1>0, <2>2, OtherView DEF TypeOK
  <2> QED
    BY <2>1, <2>2
<1>5. ConsumedIffRecorded' /\ OneVerificationPerChallenge'
  BY DEF IInv, ConsumedIffRecorded, OneVerificationPerChallenge, Recorded,
         Consumed
<1> QED
  BY <1>1, <1>2, <1>3, <1>4, <1>5 DEF IInv

\* A statement inside a transaction that goes on to the next statement: the
\* committed tables are untouched, so only the view of the holder matters.
LEMMA StatementPreserves ==
  ASSUME IInv, NEW g \in Caller, pc[g] \in TxPC, NEW label \in TxPC,
         Goto(g, label), UNCHANGED <<tables, conn>>,
         txChallenges' \in [Challenge -> ChallengeRow \cup {NoRow}],
         txVerifications' \in [Nullifier -> VerificationRow \cup {NoRow}],
         ViewAt(g)'
  PROVE  IInv'
<1> USE DEF Goto, tables
<1>0. TypeOK /\ conn = g
  BY DEF IInv, ConnectionHeldByTx
<1>1. TypeOK'
  BY <1>0 DEF TypeOK
<1>2. ConnectionHeldByTx'
  BY <1>0 DEF IInv, TypeOK, ConnectionHeldByTx
<1>3. PoolView'
  BY <1>0, CallerAssumption DEF PoolView
<1>4. ASSUME NEW h \in Caller PROVE ViewAt(h)'
  <2>1. CASE h # g
    BY <1>0, <2>1, OtherView DEF TypeOK
  <2> QED
    BY <2>1
<1>5. ConsumedIffRecorded' /\ OneVerificationPerChallenge'
  BY DEF IInv, ConsumedIffRecorded, OneVerificationPerChallenge, Recorded,
         Consumed
<1> QED
  BY <1>1, <1>2, <1>3, <1>4, <1>5 DEF IInv

\* The statements of a transaction that do not end it with a commit.
LEMMA StatementsPreserve ==
  ASSUME IInv, NEW g \in Caller,
         \/ QueryChallenge(g) \/ InsertVerification(g) \/ ConsumeChallenge(g)
         \/ DeleteVerifications(g) \/ DeleteChallenges(g) \/ FailTx(g)
  PROVE  IInv'
<1>1. TypeOK /\ ViewAt(g)
  BY DEF IInv
<1>2. CASE QueryChallenge(g)
  <2> DEFINE verdict == ChallengeVerdict(txChallenges, arg[g].challenge, now)
  <2>1. CASE verdict = "valid"
    <3>1. Goto(g, "insertVerification") /\ UNCHANGED <<tables, txview, conn>>
          /\ pc[g] = "query"
      BY <1>2, <2>1 DEF QueryChallenge
    <3>2. txChallenges = challenges /\ txVerifications = verifications
          /\ RecordArg(arg[g])
      BY <1>1, <3>1 DEF ViewAt, RecordPC
    <3>3. Open(arg[g].challenge)
      BY <2>1, <3>2, VerdictCases DEF Open
    <3>4. ViewAt(g)'
      BY <1>1, <3>1, <3>2, <3>3
      DEF Goto, ViewAt, TypeOK, RecordPC, RecordArg, Open, tables, txview
    <3> QED
      BY <1>1, <3>1, <3>4, StatementPreserves
      DEF TypeOK, TxPC, RecordPC, tables, txview
  <2>2. CASE verdict # "valid"
    <3>1. Return(g, verdict) /\ Rollback /\ pc[g] = "query"
      BY <1>2, <2>2 DEF QueryChallenge
    <3>2. verdict \in Outcome
      BY <2>2, VerdictCases DEF Outcome
    <3> HIDE DEF verdict
    <3> QED
      BY <3>1, <3>2, RollbackPreserves DEF TxPC, RecordPC
  <2> QED
    BY <2>1, <2>2
<1>3. CASE InsertVerification(g)
  <2> DEFINE c == arg[g].challenge
             n == arg[g].nullifier
             pt == arg[g].proof_type
  <2>1. pc[g] = "insertVerification"
    BY <1>3 DEF InsertVerification
  <2>2. /\ txChallenges = challenges /\ txVerifications = verifications
        /\ Open(c) /\ RecordArg(arg[g])
    BY <1>1, <2>1 DEF ViewAt, RecordPC
  <2>3. CASE txVerifications[n] = NoRow
    <3>1. /\ txVerifications' = WithVerification(txVerifications, n, c, pt)
          /\ Goto(g, "consume") /\ UNCHANGED <<tables, txChallenges, conn>>
      BY <1>3, <2>3 DEF InsertVerification
    <3>2. txVerifications' \in [Nullifier -> VerificationRow \cup {NoRow}]
      BY <1>1, <2>2, <3>1, TableTypes DEF TypeOK, RecordArg
    <3>3. ViewAt(g)'
      BY <1>1, <2>1, <2>2, <2>3, <3>1
      DEF Goto, ViewAt, TypeOK, RecordPC, RecordArg, Open, tables
    <3> QED
      BY <1>1, <2>1, <3>1, <3>2, <3>3, StatementPreserves
      DEF TypeOK, TxPC, RecordPC, tables
  <2>4. CASE txVerifications[n] # NoRow
    <3>1. Return(g, "ErrDuplicateNullifier") /\ Rollback
      BY <1>3, <2>4 DEF InsertVerification
    <3> QED
      BY <2>1, <3>1, RollbackPreserves DEF TxPC, RecordPC, Outcome
  <2> QED
    BY <2>3, <2>4
<1>4. CASE ConsumeChallenge(g)
  <2> DEFINE c == arg[g].challenge
  <2>1. /\ pc[g] = "consume"
        /\ txChallenges' = WithConsumed(txChallenges, c)
        /\ Goto(g, "commit") /\ UNCHANGED <<tables, txVerifications, conn>>
    BY <1>4 DEF ConsumeChallenge
  <2>2. txChallenges = challenges /\ Open(c) /\ RecordArg(arg[g])
    BY <1>1, <2>1 DEF ViewAt, RecordPC
  <2>3. txChallenges' \in [Challenge -> ChallengeRow \cup {NoRow}]
    BY <1>1, <2>1, <2>2, TableTypes DEF TypeOK, RecordArg, Open
  <2>4. ViewAt(g)'
    BY <1>1, <2>1, <2>2
    DEF Goto, ViewAt, TypeOK, RecordPC, RecordArg, Open, tables
  <2> QED
    BY <1>1, <2>1, <2>3, <2>4, StatementPreserves
    DEF TypeOK, TxPC, RecordPC, tables
<1>5. CASE DeleteVerifications(g)
  <2>1. /\ pc[g] = "deleteVerifications"
        /\ txVerifications' = EmptyVerifications
        /\ Goto(g, "deleteChallenges")
        /\ UNCHANGED <<tables, txChallenges, conn>>
    BY <1>5 DEF DeleteVerifications
  <2>2. ViewAt(g)'
    BY <1>1, <2>1 DEF Goto, ViewAt, TypeOK, RecordPC, tables
  <2> QED
    BY <1>1, <2>1, <2>2, TableTypes, StatementPreserves
    DEF TypeOK, TxPC, CleanPC, tables
<1>6. CASE DeleteChallenges(g)
  <2>1. /\ pc[g] = "deleteChallenges"
        /\ txChallenges' = EmptyChallenges
        /\ Goto(g, "commitClean")
        /\ UNCHANGED <<tables, txVerifications, conn>>
    BY <1>6 DEF DeleteChallenges
  <2>2. ViewAt(g)'
    BY <1>1, <2>1 DEF Goto, ViewAt, TypeOK, RecordPC, tables
  <2> QED
    BY <1>1, <2>1, <2>2, TableTypes, StatementPreserves
    DEF TypeOK, TxPC, CleanPC, tables
<1>7. CASE FailTx(g)
  BY <1>7, RollbackPreserves DEF FailTx, Outcome
<1> QED
  BY <1>2, <1>3, <1>4, <1>5, <1>6, <1>7

\* A transaction that commits: its view becomes the committed tables, and
\* no other caller is in a transaction, so nobody else relied on them.
LEMMA CommitFrame ==
  ASSUME IInv, NEW g \in Caller, pc[g] \in TxPC, Commit, Return(g, "ok")
  PROVE  /\ TypeOK' /\ ConnectionHeldByTx' /\ PoolView'
         /\ \A h \in Caller : ViewAt(h)'
<1> USE DEF Return, Commit, txview
<1>0. TypeOK /\ conn = g
  BY DEF IInv, ConnectionHeldByTx
<1>1. TypeOK'
  BY <1>0 DEF TypeOK, Outcome
<1>2. ConnectionHeldByTx'
  BY <1>0, CallerAssumption
  DEF IInv, TypeOK, ConnectionHeldByTx, TxPC, RecordPC, CleanPC
<1>3. PoolView'
  BY DEF PoolView
<1>4. ASSUME NEW h \in Caller PROVE ViewAt(h)'
  <2>1. CASE h = g
    BY <1>0, <2>1 DEF TypeOK, ViewAt, RecordPC
  <2>2. CASE h # g
    BY <1>0, <2>2, OtherView DEF TypeOK
  <2> QED
    BY <2>1, <2>2
<1> QED
  BY <1>1, <1>2, <1>3, <1>4

\* VerifyAndRecord's commit adds one verification and consumes its
\* challenge, which nobody had consumed: by ConsumedIffRecorded no earlier
\* verification names it.
LEMMA CommitRecordPreserves ==
  ASSUME IInv, NEW g \in Caller, CommitRecord(g)
  PROVE  IInv'
<1>1. pc[g] = "commit" /\ Commit /\ Return(g, "ok")
  BY DEF CommitRecord
<1>2. /\ TypeOK /\ ViewAt(g) /\ ConsumedIffRecorded
      /\ OneVerificationPerChallenge
  BY DEF IInv
<1>3. PICK c \in Challenge, n \in Nullifier, pt \in ProofKey :
        /\ challenges[c] # NoRow /\ ~ challenges[c].consumed
        /\ verifications[n] = NoRow
        /\ verifications' = WithVerification(verifications, n, c, pt)
        /\ challenges' = WithConsumed(challenges, c)
  BY <1>1, <1>2 DEF ViewAt, RecordPC, Commit, Open, RecordArg
<1>5. challenges[c] \in ChallengeRow
  BY <1>2, <1>3 DEF TypeOK
<1>6. challenges'[c] = [challenges[c] EXCEPT !.consumed = TRUE]
  BY <1>2, <1>3 DEF TypeOK, WithConsumed
<1>7. challenges'[c] \in ChallengeRow /\ challenges'[c].consumed
  BY <1>5, <1>6 DEF ChallengeRow
<1>8. Consumed(c)'
  BY <1>7, StoreAssumption DEF Consumed
<1>9. \A d \in Challenge : d # c => challenges'[d] = challenges[d]
  BY <1>2, <1>3 DEF TypeOK, WithConsumed
<1>10. /\ Recorded(n)' /\ verifications'[n].challenge = c
       /\ \A m \in Nullifier : m # n => verifications'[m] = verifications[m]
  <2>1. verifications'[n] = [challenge |-> c, proof_type |-> pt]
    BY <1>2, <1>3 DEF TypeOK, WithVerification
  <2>2. verifications'[n] \in VerificationRow
    BY <2>1 DEF VerificationRow
  <2>3. \A m \in Nullifier : m # n => verifications'[m] = verifications[m]
    BY <1>2, <1>3 DEF TypeOK, WithVerification
  <2> QED
    BY <2>1, <2>2, <2>3, StoreAssumption DEF Recorded
<1>11. \A m \in Nullifier : Recorded(m) =>
         verifications[m].challenge \in Challenge \ {c}
  BY <1>2, <1>3
  DEF TypeOK, VerificationRow, Recorded, ConsumedIffRecorded, Consumed
<1>12. ConsumedIffRecorded'
  <2>1. ASSUME NEW m \in Nullifier, Recorded(m)'
        PROVE  Consumed(verifications[m].challenge)'
    <3>1. CASE m = n
      BY <1>8, <1>10, <3>1
    <3>2. CASE m # n
      <4>1. verifications'[m] = verifications[m] /\ Recorded(m)
        BY <1>10, <2>1, <3>2 DEF Recorded
      <4>2. Consumed(verifications[m].challenge)
        BY <1>2, <4>1 DEF ConsumedIffRecorded
      <4> QED
        BY <1>9, <1>11, <4>1, <4>2 DEF Consumed
    <3> QED
      BY <3>1, <3>2
  <2>2. ASSUME NEW d \in Challenge, Consumed(d)'
        PROVE  \E m \in Nullifier : Recorded(m)' /\ verifications'[m].challenge = d
    <3>1. CASE d = c
      BY <1>10, <3>1
    <3>2. CASE d # c
      <4>1. Consumed(d)
        BY <1>9, <2>2, <3>2 DEF Consumed
      <4>2. PICK m \in Nullifier : Recorded(m) /\ verifications[m].challenge = d
        BY <1>2, <4>1 DEF ConsumedIffRecorded
      <4>3. m # n
        BY <1>3, <4>2 DEF Recorded
      <4> QED
        BY <1>10, <4>2, <4>3 DEF Recorded
    <3> QED
      BY <3>1, <3>2
  <2> QED
    BY <2>1, <2>2 DEF ConsumedIffRecorded
<1>13. OneVerificationPerChallenge'
  <2> SUFFICES ASSUME NEW k \in Nullifier, NEW m \in Nullifier,
                      Recorded(k)', Recorded(m)',
                      verifications'[k].challenge = verifications'[m].challenge
               PROVE  k = m
    BY DEF OneVerificationPerChallenge
  <2>1. CASE k # n /\ m # n
    BY <1>2, <1>10, <2>1 DEF OneVerificationPerChallenge, Recorded
  <2>2. CASE k = n /\ m # n
    BY <1>10, <1>11, <2>2 DEF Recorded
  <2>3. CASE k # n /\ m = n
    BY <1>10, <1>11, <2>3 DEF Recorded
  <2> QED
    BY <2>1, <2>2, <2>3
<1> QED
  BY <1>1, <1>12, <1>13, CommitFrame DEF IInv, TxPC, RecordPC

\* CleanDB's commit installs two empty tables.
LEMMA CommitCleanPreserves ==
  ASSUME IInv, NEW g \in Caller, CommitClean(g)
  PROVE  IInv'
<1>1. pc[g] = "commitClean" /\ Commit /\ Return(g, "ok")
  BY DEF CommitClean
<1>2. challenges' = EmptyChallenges /\ verifications' = EmptyVerifications
  BY <1>1 DEF IInv, ViewAt, Commit
<1>3. /\ \A n \in Nullifier : ~ Recorded(n)'
      /\ \A c \in Challenge : ~ Consumed(c)'
  BY <1>2 DEF Recorded, Consumed, EmptyChallenges, EmptyVerifications
<1>4. ConsumedIffRecorded' /\ OneVerificationPerChallenge'
  BY <1>3 DEF ConsumedIffRecorded, OneVerificationPerChallenge
<1> QED
  BY <1>1, <1>4, CommitFrame DEF IInv, TxPC, CleanPC

\* A new challenge row is unconsumed and its key was free, so it changes
\* neither side of ConsumedIffRecorded; no transaction is open.
LEMMA InsertChallengePreserves ==
  ASSUME IInv, NEW g \in Caller, InsertChallenge(g)
  PROVE  IInv'
<1>0. /\ TypeOK /\ ViewAt(g) /\ PoolView /\ ConnectionHeldByTx
      /\ ConsumedIffRecorded /\ OneVerificationPerChallenge
  BY DEF IInv
<1>1. /\ pc[g] = "insertChallenge" /\ conn = NoCaller
      /\ UNCHANGED <<verifications, txVerifications, conn, arg, now, up>>
      /\ \E r \in {"ok", "error"} : Return(g, r)
      /\ arg[g].challenge \in Challenge
  BY <1>0 DEF InsertChallenge, ViewAt, Return
<1>2. \/ /\ challenges[arg[g].challenge] = NoRow
         /\ challenges' = [challenges EXCEPT ![arg[g].challenge] =
                                 NewChallengeRow(arg[g].expires)]
         /\ txChallenges' = challenges'
         /\ announced' =
              [announced EXCEPT ![arg[g].challenge] = arg[g].expires]
      \/ UNCHANGED <<challenges, txChallenges, announced>>
  BY DEF InsertChallenge
<1>3. NewChallengeRow(arg[g].expires) \in ChallengeRow /\ arg[g].expires \in Nat
  BY <1>0, TableTypes DEF TypeOK, Arg
<1>4. TypeOK'
  BY <1>0, <1>1, <1>2, <1>3 DEF TypeOK, Return, Outcome
<1>5. ConnectionHeldByTx'
  BY <1>0, <1>1, CallerAssumption
  DEF TypeOK, ConnectionHeldByTx, Return, TxPC, RecordPC, CleanPC
<1>6. PoolView'
  BY <1>0, <1>1, <1>2 DEF PoolView
<1>7. ASSUME NEW h \in Caller PROVE ViewAt(h)'
  <2>1. CASE h = g
    BY <1>0, <1>1, <2>1 DEF TypeOK, ViewAt, RecordPC, Return
  <2>2. CASE h # g
    BY <1>0, <1>1, <2>2, CallerAssumption, OtherView DEF TypeOK, Return
  <2> QED
    BY <2>1, <2>2
<1>8. ASSUME NEW d \in Challenge PROVE Consumed(d)' <=> Consumed(d)
  <2>1. ~ NewChallengeRow(arg[g].expires).consumed
    BY DEF NewChallengeRow
  <2> QED
    BY <1>0, <1>1, <1>2, <2>1 DEF TypeOK, Consumed
<1>9. \A n \in Nullifier : Recorded(n) => verifications[n].challenge \in Challenge
  BY <1>0 DEF TypeOK, VerificationRow, Recorded
<1>10. ConsumedIffRecorded' /\ OneVerificationPerChallenge'
  <2>1. ASSUME NEW n \in Nullifier, Recorded(n)'
        PROVE  Consumed(verifications[n].challenge)'
    <3>1. Recorded(n) /\ verifications' = verifications
      BY <1>1, <2>1 DEF Recorded
    <3>2. PICK d \in Challenge : verifications[n].challenge = d
      BY <1>9, <3>1
    <3>3. Consumed(d)'
      BY <1>0, <1>8, <3>1, <3>2 DEF ConsumedIffRecorded
    <3> QED
      BY <3>1, <3>2, <3>3
  <2>2. ASSUME NEW d \in Challenge, Consumed(d)'
        PROVE  (\E n \in Nullifier :
                  Recorded(n) /\ verifications[n].challenge = d)'
    BY <1>0, <1>1, <1>8, <2>2 DEF ConsumedIffRecorded, Recorded
  <2>3. OneVerificationPerChallenge'
    BY <1>0, <1>1 DEF OneVerificationPerChallenge, Recorded
  <2> QED
    BY <2>1, <2>2, <2>3 DEF ConsumedIffRecorded
<1> QED
  BY <1>4, <1>5, <1>6, <1>7, <1>10 DEF IInv

\* BeginTx takes the free connection; its view is the committed tables.
LEMMA BeginTxPreserves ==
  ASSUME IInv, NEW g \in Caller, BeginTx(g)
  PROVE  IInv'
<1>0. /\ TypeOK /\ ViewAt(g) /\ PoolView /\ ConnectionHeldByTx
      /\ ConsumedIffRecorded /\ OneVerificationPerChallenge
  BY DEF IInv
<1>1. /\ conn = NoCaller /\ conn' = g
      /\ UNCHANGED <<tables, txview, arg, res, announced, now, up>>
      /\ \/ pc[g] = "beginRecord" /\ pc' = [pc EXCEPT ![g] = "query"]
         \/ pc[g] = "beginClean" /\ pc' = [pc EXCEPT ![g] = "deleteVerifications"]
  BY DEF BeginTx, Goto
<1>2. txChallenges = challenges /\ txVerifications = verifications
  BY <1>0, <1>1 DEF PoolView
<1>3. TypeOK'
  BY <1>0, <1>1 DEF TypeOK, TxPC, RecordPC, CleanPC, tables, txview
<1>4. ConnectionHeldByTx'
  BY <1>0, <1>1, CallerAssumption
  DEF TypeOK, ConnectionHeldByTx, TxPC, RecordPC, CleanPC
<1>5. PoolView'
  BY <1>1, CallerAssumption DEF PoolView
<1>6. ASSUME NEW h \in Caller PROVE ViewAt(h)'
  <2>1. CASE h = g
    BY <1>0, <1>1, <1>2, <2>1
    DEF TypeOK, ViewAt, RecordPC, RecordArg, tables, txview
  <2>2. CASE h # g
    BY <1>0, <1>1, <2>2, CallerAssumption, OtherView DEF TypeOK
  <2> QED
    BY <2>1, <2>2
<1>7. ConsumedIffRecorded' /\ OneVerificationPerChallenge'
  BY <1>0, <1>1
  DEF ConsumedIffRecorded, OneVerificationPerChallenge, Recorded, Consumed, tables
<1> QED
  BY <1>3, <1>4, <1>5, <1>6, <1>7 DEF IInv

\* A call that returns outside a transaction changes no table.
LEMMA ReturnPreserves ==
  ASSUME IInv, NEW g \in Caller, SelectChallenge(g) \/ FailWaiting(g)
  PROVE  IInv'
<1>0. /\ TypeOK /\ ViewAt(g) /\ PoolView /\ ConnectionHeldByTx
      /\ ConsumedIffRecorded /\ OneVerificationPerChallenge
  BY DEF IInv
<1>1. /\ pc[g] \in WaitPC
      /\ UNCHANGED <<tables, txview, conn, announced, arg, now, up>>
      /\ pc' = [pc EXCEPT ![g] = "idle"]
      /\ \E r \in Outcome : res' = [res EXCEPT ![g] = r]
  BY DEF SelectChallenge, FailWaiting, Return, WaitPC, Outcome
<1>2. TypeOK'
  BY <1>0, <1>1 DEF TypeOK, tables, txview
<1>3. ConnectionHeldByTx'
  BY <1>0, <1>1
  DEF TypeOK, ConnectionHeldByTx, WaitPC, TxPC, RecordPC, CleanPC
<1>4. PoolView'
  BY <1>0, <1>1 DEF PoolView, tables, txview
<1>5. ASSUME NEW h \in Caller PROVE ViewAt(h)'
  <2>1. CASE h = g
    BY <1>0, <1>1, <2>1 DEF TypeOK, ViewAt, RecordPC
  <2>2. CASE h # g
    <3>1. ViewAt(h) /\ pc'[h] = pc[h]
      BY <1>0, <1>1, <2>2 DEF IInv, TypeOK
    <3> QED
      BY <1>1, <3>1 DEF ViewAt, Open, tables, txview
  <2> QED
    BY <2>1, <2>2
<1>6. ConsumedIffRecorded' /\ OneVerificationPerChallenge'
  BY <1>0, <1>1
  DEF ConsumedIffRecorded, OneVerificationPerChallenge, Recorded, Consumed, tables
<1> QED
  BY <1>2, <1>3, <1>4, <1>5, <1>6 DEF IInv

\* A crash empties every call and rolls the open transaction back; opening
\* the store and the passing of time change no table.
LEMMA EnvironmentPreserves ==
  ASSUME IInv, Crash \/ NewSQLiteStore \/ Tick
  PROVE  IInv'
<1>0. /\ TypeOK /\ PoolView /\ ConnectionHeldByTx
      /\ ConsumedIffRecorded /\ OneVerificationPerChallenge
  BY DEF IInv
<1>1. CASE Crash
  <2>1. /\ UNCHANGED <<tables, announced, arg, now>> /\ up' = FALSE
        /\ conn' = NoCaller
        /\ txChallenges' = challenges /\ txVerifications' = verifications
        /\ pc' = [g \in Caller |-> "idle"] /\ res' = [g \in Caller |-> "none"]
    BY <1>1 DEF Crash, Rollback
  <2>2. TypeOK'
    BY <1>0, <2>1 DEF TypeOK, Outcome, tables
  <2>3. ConnectionHeldByTx'
    BY <2>1, CallerAssumption
    DEF ConnectionHeldByTx, TxPC, RecordPC, CleanPC
  <2>4. PoolView'
    BY <2>1 DEF PoolView, tables
  <2>6. ASSUME NEW h \in Caller PROVE ViewAt(h)'
    <3>1. pc'[h] = "idle"
      BY <2>1
    <3> QED
      BY <3>1 DEF ViewAt, RecordPC
  <2>5. ConsumedIffRecorded' /\ OneVerificationPerChallenge'
    BY <1>0, <2>1
    DEF ConsumedIffRecorded, OneVerificationPerChallenge, Recorded, Consumed,
        tables
  <2> QED
    BY <2>2, <2>3, <2>4, <2>5, <2>6 DEF IInv
<1>2. CASE NewSQLiteStore \/ Tick
  <2>1. UNCHANGED <<tables, txview, conn, pc, arg, res, announced>>
        /\ now' \in 0..MaxTime /\ up' \in BOOLEAN
    <3>1. CASE NewSQLiteStore
      BY <1>0, <3>1 DEF NewSQLiteStore, TypeOK
    <3>2. CASE Tick
      <4>1. now \in 0..MaxTime /\ MaxTime \in Nat /\ up \in BOOLEAN
        BY <1>0, CallerAssumption DEF TypeOK
      <4>2. now + 1 \in 0..MaxTime
        BY <3>2, <4>1 DEF Tick
      <4> QED
        BY <3>2, <4>1, <4>2 DEF Tick
    <3> QED
      BY <1>2, <3>1, <3>2
  <2>2. TypeOK'
    BY <1>0, <2>1 DEF TypeOK, tables, txview
  <2>3. ConnectionHeldByTx' /\ PoolView'
    BY <1>0, <2>1 DEF ConnectionHeldByTx, PoolView, tables, txview
  <2>4. \A h \in Caller : ViewAt(h)'
    <3> TAKE h \in Caller
    <3>1. ViewAt(h)
      BY DEF IInv
    <3> QED
      BY <2>1, <3>1 DEF ViewAt, Open, tables, txview
  <2>5. ConsumedIffRecorded' /\ OneVerificationPerChallenge'
    BY <1>0, <2>1
    DEF ConsumedIffRecorded, OneVerificationPerChallenge, Recorded, Consumed,
        tables
  <2> QED
    BY <2>2, <2>3, <2>4, <2>5 DEF IInv
<1> QED
  BY <1>1, <1>2

\* A new database is empty and no call is under way.
LEMMA InitIInv ==
  Init => IInv
<1> SUFFICES ASSUME Init PROVE IInv
  OBVIOUS
<1>1. TypeOK
  BY TableTypes, CallerAssumption DEF Init, TypeOK, Arg, NoArg, Outcome
<1>2. ConnectionHeldByTx
  BY CallerAssumption DEF Init, ConnectionHeldByTx, TxPC, RecordPC, CleanPC
<1>3. PoolView /\ \A g \in Caller : ViewAt(g)
  BY DEF Init, PoolView, ViewAt, RecordPC
<1>4. /\ \A n \in Nullifier : ~ Recorded(n)
      /\ \A c \in Challenge : ~ Consumed(c)
  BY DEF Init, Recorded, Consumed, EmptyChallenges, EmptyVerifications
<1> QED
  BY <1>1, <1>2, <1>3, <1>4
  DEF IInv, ConsumedIffRecorded, OneVerificationPerChallenge

\* Every step of the store preserves the inductive invariant.
LEMMA NextIInv ==
  IInv /\ [Next]_vars => IInv'
<1> SUFFICES ASSUME IInv, [Next]_vars PROVE IInv'
  OBVIOUS
<1>1. ASSUME NEW g \in Caller, Invoke(g) PROVE IInv'
  BY <1>1, InvokePreserves
<1>2. ASSUME NEW g \in Caller, UseConn(g) PROVE IInv'
  BY <1>2, InsertChallengePreserves, ReturnPreserves, BeginTxPreserves
  DEF UseConn
<1>3. ASSUME NEW g \in Caller, TxStep(g) PROVE IInv'
  BY <1>3, StatementsPreserve, CommitRecordPreserves, CommitCleanPreserves
  DEF TxStep
<1>4. ASSUME NEW g \in Caller, Fail(g) PROVE IInv'
  BY <1>4, StatementsPreserve, ReturnPreserves DEF Fail
<1>5. CASE UNCHANGED vars
  <2>1. \A h \in Caller : ViewAt(h)'
    BY <1>5 DEF IInv, vars, ViewAt, Open
  <2> QED
    BY <1>5, <2>1
    DEF IInv, vars, TypeOK, ConnectionHeldByTx, PoolView, ConsumedIffRecorded,
        OneVerificationPerChallenge, Recorded, Consumed
<1> QED
  BY <1>1, <1>2, <1>3, <1>4, <1>5, EnvironmentPreserves DEF Next
-----------------------------------------------------------------------------
(***************************************************************************)
(* The theorems.                                                           *)
(***************************************************************************)
\* The inductive invariant holds in every reachable state of the store.
THEOREM Invariance == Spec => []IInv
BY InitIInv, NextIInv, PTL DEF Spec

\* Whatever the callers, failures and crashes of the store, its variables
\* keep their types: rows stay rows, timestamps natural numbers.
THEOREM TypeCorrect == Spec => []TypeOK
<1>1. IInv => TypeOK
  BY DEF IInv
<1> QED
  BY <1>1, Invariance, PTL

\* VerifyAndRecord inserts the verification and consumes the challenge
\* atomically, for any number of concurrent callers: a challenge is consumed
\* exactly when a recorded verification names it.
THEOREM RecordIsAtomic == Spec => []ConsumedIffRecorded
<1>1. IInv => ConsumedIffRecorded
  BY DEF IInv
<1> QED
  BY <1>1, Invariance, PTL

\* Two identities never spend the same challenge, although the schema does
\* not make verifications.challenge unique.
THEOREM ChallengeSpentOnce == Spec => []OneVerificationPerChallenge
<1>1. IInv => OneVerificationPerChallenge
  BY DEF IInv
<1> QED
  BY <1>1, Invariance, PTL

\* No return path of SQLiteStore leaks the only pooled connection.
THEOREM NoConnectionLeak == Spec => []ConnectionHeldByTx
<1>1. IInv => ConnectionHeldByTx
  BY DEF IInv
<1> QED
  BY <1>1, Invariance, PTL
-----------------------------------------------------------------------------
(***************************************************************************)
(* Which steps of the store change the committed tables, and how.          *)
(***************************************************************************)
Issues(c) ==
  /\ challenges[c] = NoRow
  /\ \E r \in ChallengeRow : challenges' = [challenges EXCEPT ![c] = r]
  /\ UNCHANGED verifications

Accepts(n, c) ==
  /\ challenges[c] # NoRow /\ ~ challenges[c].consumed
  /\ verifications[n] = NoRow
  /\ \E pt \in ProofKey : verifications' = WithVerification(verifications, n, c, pt)
  /\ challenges' = WithConsumed(challenges, c)

Wipes ==
  /\ \E g \in Caller : pc[g] = "commitClean"
  /\ challenges' = EmptyChallenges /\ verifications' = EmptyVerifications

\* Only the INSERT of CreateChallenge and the two commits write the
\* committed tables.
LEMMA TableSteps ==
  ASSUME IInv, [Next]_vars
  PROVE  \/ UNCHANGED tables
         \/ \E c \in Challenge : Issues(c)
         \/ \E n \in Nullifier, c \in Challenge : Accepts(n, c)
         \/ Wipes
<1>0. TypeOK /\ \A g \in Caller : ViewAt(g)
  BY DEF IInv
<1>1. ASSUME NEW g \in Caller, Invoke(g) PROVE UNCHANGED tables
  BY <1>1
  DEF Invoke, CreateChallenge, GetChallenge, VerifyAndRecord, CleanDB, Call
<1>2. ASSUME NEW g \in Caller, UseConn(g)
      PROVE  UNCHANGED tables \/ \E c \in Challenge : Issues(c)
  <2>1. CASE InsertChallenge(g)
    <3>1. arg[g].challenge \in Challenge /\ arg[g].expires \in Nat
      BY <1>0, <2>1 DEF InsertChallenge, ViewAt, TypeOK, Arg
    <3>2. NewChallengeRow(arg[g].expires) \in ChallengeRow
      BY <3>1, TableTypes
    <3> QED
      BY <2>1, <3>1, <3>2 DEF InsertChallenge, Issues, tables
  <2>2. CASE SelectChallenge(g) \/ BeginTx(g)
    BY <2>2 DEF SelectChallenge, BeginTx
  <2> QED
    BY <1>2, <2>1, <2>2 DEF UseConn
<1>3. ASSUME NEW g \in Caller, TxStep(g)
      PROVE  \/ UNCHANGED tables
             \/ \E n \in Nullifier, c \in Challenge : Accepts(n, c)
             \/ Wipes
  <2>1. CASE CommitRecord(g)
    <3>1. pc[g] = "commit" /\ Commit
      BY <2>1 DEF CommitRecord
    <3>2. ViewAt(g)
      BY <1>0
    <3>3. Accepts(arg[g].nullifier, arg[g].challenge) /\ RecordArg(arg[g])
      BY <3>1, <3>2 DEF ViewAt, RecordPC, Commit, Accepts, Open, RecordArg
    <3> QED
      BY <3>3 DEF RecordArg
  <2>2. CASE CommitClean(g)
    BY <1>0, <2>2 DEF CommitClean, ViewAt, Commit, Wipes
  <2>3. CASE QueryChallenge(g) \/ InsertVerification(g)
    BY <2>3 DEF QueryChallenge, InsertVerification, Rollback
  <2>4. CASE ConsumeChallenge(g) \/ DeleteVerifications(g) \/ DeleteChallenges(g)
    BY <2>4 DEF ConsumeChallenge, DeleteVerifications, DeleteChallenges
  <2> QED
    BY <1>3, <2>1, <2>2, <2>3, <2>4 DEF TxStep
<1>4. ASSUME NEW g \in Caller, Fail(g) PROVE UNCHANGED tables
  BY <1>4 DEF Fail, FailWaiting, FailTx, Rollback
<1>5. CASE Crash \/ NewSQLiteStore \/ Tick \/ UNCHANGED vars
  BY <1>5 DEF Crash, Rollback, NewSQLiteStore, Tick, vars, tables
<1> QED
  BY <1>1, <1>2, <1>3, <1>4, <1>5 DEF Next

\* A recorded identity survives every step that is not the commit of
\* CleanDB: the primary key of verifications is never overwritten.
THEOREM RecordsAreKept == Spec => OnlyCleanForgets
<1>1. ASSUME IInv, [Next]_vars, NEW n \in Nullifier, Recorded(n)
      PROVE  \/ verifications'[n] = verifications[n]
             \/ \E g \in Caller : pc[g] = "commitClean"
  <2>1. \A m \in Nullifier, c \in Challenge :
          Accepts(m, c) => verifications'[n] = verifications[n]
    BY <1>1 DEF IInv, TypeOK, Accepts, WithVerification, Recorded
  <2> QED
    BY <1>1, <2>1, TableSteps DEF tables, Issues, Wipes
<1>2. IInv /\ [Next]_vars =>
        [\A n \in Nullifier :
           Recorded(n) => \/ verifications'[n] = verifications[n]
                          \/ \E g \in Caller : pc[g] = "commitClean"]_vars
  BY <1>1
<1> QED
  BY <1>2, Invariance, PTL DEF Spec, OnlyCleanForgets

\* The detailed store implements the abstract ledger: issuing is the INSERT
\* of CreateChallenge, accepting is the commit of VerifyAndRecord, wiping is
\* the commit of CleanDB, and every other step is invisible.
THEOREM StoreImplementsLedger == Spec => ImplementsLedger
<1> DEFINE issued == {c \in Challenge : challenges[c] # NoRow}
           spent(n) == IF verifications[n] = NoRow THEN NoRow
                       ELSE verifications[n].challenge
           spentBy == [n \in Nullifier |-> spent(n)]
<1>1. Init => L!LedgerInit
  BY DEF Init, L!LedgerInit, EmptyChallenges, EmptyVerifications
<1>2. ASSUME IInv, [Next]_vars PROVE [L!LedgerNext]_(L!lvars)
  <2>0. /\ TypeOK /\ ConsumedIffRecorded
        /\ \A c \in Challenge : NoRow # c
        /\ \A v \in VerificationRow : v # NoRow
    BY <1>2, StoreAssumption DEF IInv
  <2>1. CASE UNCHANGED tables
    BY <2>1 DEF tables, L!lvars
  <2>2. ASSUME NEW c \in Challenge, Issues(c) PROVE L!Issue(c)
    <3>1. PICK r \in ChallengeRow : challenges' = [challenges EXCEPT ![c] = r]
      BY <2>2 DEF Issues
    <3>2. issued' = issued \cup {c} /\ c \notin issued
      BY <2>0, <2>2, <3>1, StoreAssumption DEF TypeOK, Issues
    <3>3. spentBy' = spentBy
      BY <2>2 DEF Issues
    <3> QED
      BY <3>2, <3>3 DEF L!Issue
  <2>3. ASSUME NEW n \in Nullifier, NEW c \in Challenge, Accepts(n, c)
        PROVE  L!Accept(n, c)
    <3>1. PICK pt \in ProofKey :
            verifications' = WithVerification(verifications, n, c, pt)
      BY <2>3 DEF Accepts
    <3>2. issued' = issued /\ c \in issued
      <4>1. [challenges[c] EXCEPT !.consumed = TRUE] \in ChallengeRow
        BY <2>0, <2>3 DEF TypeOK, Accepts, ChallengeRow
      <4>2. challenges'[c] # NoRow
        BY <2>0, <2>3, <4>1, StoreAssumption DEF TypeOK, Accepts, WithConsumed
      <4>3. \A d \in Challenge : d # c => challenges'[d] = challenges[d]
        BY <2>0, <2>3 DEF TypeOK, Accepts, WithConsumed
      <4> QED
        BY <2>3, <4>2, <4>3 DEF Accepts
    <3>3. verifications'[n] = [challenge |-> c, proof_type |-> pt]
          /\ \A m \in Nullifier : m # n => verifications'[m] = verifications[m]
      BY <2>0, <3>1 DEF TypeOK, WithVerification
    <3>4. verifications'[n] # NoRow /\ verifications'[n].challenge = c
      BY <2>0, <3>3 DEF VerificationRow
    <3>5. spentBy' = [spentBy EXCEPT ![n] = c]
      <4>1. \A m \in Nullifier : spent(m)' = IF m = n THEN c ELSE spent(m)
        BY <3>3, <3>4
      <4> QED
        BY <4>1
    <3>6. spentBy[n] = NoRow
      BY <2>3 DEF Accepts
    <3>7. ASSUME NEW m \in Nullifier PROVE spentBy[m] # c
      BY <2>0, <2>3
      DEF Accepts, ConsumedIffRecorded, Recorded, Consumed
    <3> QED
      BY <3>2, <3>5, <3>6, <3>7 DEF L!Accept
  <2>4. CASE Wipes
    BY <2>4 DEF Wipes, L!LedgerNext, L!Wipe, EmptyChallenges, EmptyVerifications
  <2> QED
    BY <1>2, <2>1, <2>2, <2>3, <2>4, TableSteps DEF L!LedgerNext
<1> QED
  BY <1>1, <1>2, Invariance, PTL DEF Spec, ImplementsLedger, L!LedgerSpec
-----------------------------------------------------------------------------
(***************************************************************************)
(* The methods of the store are atomic.                                    *)
(***************************************************************************)
\* Both specifications use the tables of StoreTables.
LEMMA SameTables ==
  /\ A!NoArg = NoArg
  /\ A!EmptyChallenges = EmptyChallenges /\ A!EmptyVerifications = EmptyVerifications
  /\ \A t : A!NewChallengeRow(t) = NewChallengeRow(t)
  /\ \A ch, c, t : A!ChallengeVerdict(ch, c, t) = ChallengeVerdict(ch, c, t)
  /\ \A ve, n, c, pt : A!WithVerification(ve, n, c, pt) = WithVerification(ve, n, c, pt)
  /\ \A ch, c : A!WithConsumed(ch, c) = WithConsumed(ch, c)
<1>1. A!NoArg = NoArg
  BY DEF NoArg, A!NoArg
<1>2. A!EmptyChallenges = EmptyChallenges /\ A!EmptyVerifications = EmptyVerifications
  BY DEF EmptyChallenges, EmptyVerifications, A!EmptyChallenges, A!EmptyVerifications
<1>3. \A t : A!NewChallengeRow(t) = NewChallengeRow(t)
  BY DEF NewChallengeRow, A!NewChallengeRow, StoredTime, A!StoredTime
<1>4. \A ch, c, t : A!ChallengeVerdict(ch, c, t) = ChallengeVerdict(ch, c, t)
  BY DEF ChallengeVerdict, A!ChallengeVerdict, IsExpired, A!IsExpired
<1>5. \A ve, n, c, pt : A!WithVerification(ve, n, c, pt) = WithVerification(ve, n, c, pt)
  BY DEF WithVerification, A!WithVerification
<1>6. \A ch, c : A!WithConsumed(ch, c) = WithConsumed(ch, c)
  BY DEF WithConsumed, A!WithConsumed
<1> QED
  BY <1>1, <1>2, <1>3, <1>4, <1>5, <1>6

\* The call a statement belongs to.
LEMMA CallsOfStatements ==
  /\ CallAt("idle") = "none" /\ CallAt("insertChallenge") = "create"
  /\ CallAt("get") = "get"
  /\ CallAt("beginRecord") = "record" /\ CallAt("query") = "record"
  /\ CallAt("insertVerification") = "checked" /\ CallAt("consume") = "checked"
  /\ CallAt("commit") = "checked"
  /\ CallAt("beginClean") = "clean" /\ CallAt("deleteVerifications") = "clean"
  /\ CallAt("deleteChallenges") = "clean" /\ CallAt("commitClean") = "clean"
BY DEF CallAt, CleanPC

\* A statement of one caller moves that caller's call only.
LEMMA CallsStep ==
  ASSUME TypeOK, NEW g \in Caller, NEW label, pc' = [pc EXCEPT ![g] = label]
  PROVE  /\ calls[g] = CallAt(pc[g])
         /\ calls' = [calls EXCEPT ![g] = CallAt(label)]
         /\ CallAt(label) = CallAt(pc[g]) => calls' = calls
<1>1. pc'[g] = label /\ \A h \in Caller : h # g => pc'[h] = pc[h]
  BY DEF TypeOK
<1>2. \A h \in Caller : calls[h] = CallAt(pc[h]) /\ calls'[h] = CallAt(pc'[h])
  BY DEF calls
<1>3. calls = [h \in Caller |-> calls[h]] /\ calls' = [h \in Caller |-> calls'[h]]
  BY DEF calls
<1>4. calls' = [calls EXCEPT ![g] = CallAt(label)]
  BY <1>1, <1>2, <1>3
<1>5. ASSUME CallAt(label) = CallAt(pc[g]) PROVE calls' = calls
  BY <1>1, <1>2, <1>3, <1>5
<1> QED
  BY <1>2, <1>4, <1>5

\* Only the holder of the connection can be past the checks.
LEMMA OthersUnchecked ==
  ASSUME IInv, NEW g \in Caller, conn = NoCaller \/ conn = g,
         pc[g] \notin {"insertVerification", "consume", "commit"}
  PROVE  A!Exclusive
<1> SUFFICES ASSUME NEW h \in Caller PROVE calls[h] # "checked"
  BY DEF A!Exclusive
<1>1. pc[h] \notin {"insertVerification", "consume", "commit"}
  BY CallerAssumption DEF IInv, ConnectionHeldByTx, TxPC, RecordPC
<1>2. pc[h] \in {"idle"} \cup WaitPC \cup TxPC
  BY DEF IInv, TypeOK
<1> QED
  BY <1>1, <1>2, CallsOfStatements DEF calls, WaitPC, TxPC, RecordPC, CleanPC

\* Starting a call.
LEMMA AtomicInvoke ==
  ASSUME IInv, NEW g \in Caller, Invoke(g)
  PROVE  A!Invoke(g)
<1>1. ASSUME NEW first, NEW a, Call(g, first, a), NEW operation,
             CallAt(first) = operation
      PROVE  A!Begin(g, operation, a)
  <2>1. calls[g] = CallAt(pc[g]) /\ calls' = [calls EXCEPT ![g] = CallAt(first)]
    BY <1>1, CallsStep DEF Call, IInv
  <2> QED
    BY <1>1, <2>1, CallsOfStatements DEF Call, A!Begin, tables
<1>2. ASSUME NEW c \in Challenge, CreateChallenge(g, c) PROVE A!Invoke(g)
  <2>1. A!Begin(g, "create", [NoArg EXCEPT !.challenge = c, !.expires = now + TTL])
    BY <1>1, <1>2, CallsOfStatements DEF CreateChallenge
  <2> QED
    BY <2>1, SameTables DEF A!Invoke
<1>3. ASSUME NEW c \in Challenge, GetChallenge(g, c) PROVE A!Invoke(g)
  <2>1. A!Begin(g, "get", [NoArg EXCEPT !.challenge = c])
    BY <1>1, <1>3, CallsOfStatements DEF GetChallenge
  <2> QED
    BY <2>1, SameTables DEF A!Invoke
<1>4. ASSUME NEW n \in Nullifier, NEW c \in Challenge, NEW pt \in ProofKey,
             VerifyAndRecord(g, n, c, pt)
      PROVE  A!Invoke(g)
  <2>1. A!Begin(g, "record", [NoArg EXCEPT !.nullifier = n, !.challenge = c,
                                           !.proof_type = pt])
    BY <1>1, <1>4, CallsOfStatements DEF VerifyAndRecord
  <2> QED
    BY <2>1, SameTables DEF A!Invoke
<1>5. CASE CleanDB(g)
  <2>1. A!Begin(g, "clean", NoArg)
    BY <1>1, <1>5, CallsOfStatements DEF CleanDB
  <2> QED
    BY <2>1, SameTables DEF A!Invoke
<1> QED
  BY <1>2, <1>3, <1>4, <1>5 DEF Invoke

\* A return ends the call with the same result.
LEMMA AtomicReturn ==
  ASSUME IInv, NEW g \in Caller, NEW r, Return(g, r)
  PROVE  A!Return(g, r)
<1>1. calls' = [calls EXCEPT ![g] = CallAt("idle")]
  BY CallsStep DEF Return, IInv
<1>2. calls' = [calls EXCEPT ![g] = "none"]
  BY <1>1, CallsOfStatements
<1> QED
  BY <1>2 DEF Return, A!Return

\* A statement that is not the last of its transaction, and not the one that
\* finds the challenge valid, is invisible.
LEMMA Invisible ==
  ASSUME IInv, NEW g \in Caller, NEW label, Goto(g, label),
         CallAt(label) = CallAt(pc[g]), UNCHANGED tables
  PROVE  UNCHANGED A!avars
<1>1. calls' = calls
  BY CallsStep DEF Goto, IInv
<1> QED
  BY <1>1 DEF Goto, A!avars, tables

\* CreateChallenge and GetChallenge are one statement each.
LEMMA AtomicUseConn ==
  ASSUME IInv, NEW g \in Caller, UseConn(g)
  PROVE  A!Create(g) \/ A!Get(g) \/ UNCHANGED A!avars
<1>1. calls[g] = CallAt(pc[g])
  BY DEF calls
<1>2. CASE InsertChallenge(g)
  <2>1. A!Exclusive /\ calls[g] = "create"
    BY <1>1, <1>2, OthersUnchecked, CallsOfStatements DEF InsertChallenge
  <2>2. ASSUME NEW r, Return(g, r) PROVE A!Return(g, r)
    BY <2>2, AtomicReturn
  <2> QED
    BY <1>2, <2>1, <2>2, SameTables DEF InsertChallenge, A!Create
<1>3. CASE SelectChallenge(g)
  <2>1. A!Exclusive /\ calls[g] = "get"
    BY <1>1, <1>3, OthersUnchecked, CallsOfStatements DEF SelectChallenge
  <2> DEFINE r == IF challenges[arg[g].challenge] = NoRow THEN "nil" ELSE "found"
  <2>2. Return(g, r) /\ UNCHANGED tables
    BY <1>3 DEF SelectChallenge
  <2>3. A!Return(g, r)
    BY <2>2, AtomicReturn
  <2> QED
    BY <2>1, <2>2, <2>3 DEF A!Get, tables
<1>4. CASE BeginTx(g)
  BY <1>4, Invisible, CallsOfStatements DEF BeginTx
<1> QED
  BY <1>2, <1>3, <1>4 DEF UseConn

\* VerifyAndRecord: the verdict on the challenge is Check, the duplicate and
\* the commit are Record.  The view of the connection is the committed table
\* at the two reads, and at the commit it is that table with the record.
LEMMA AtomicRecord ==
  ASSUME IInv, NEW g \in Caller,
         \/ QueryChallenge(g) \/ InsertVerification(g) \/ ConsumeChallenge(g)
         \/ CommitRecord(g)
  PROVE  A!Check(g) \/ A!Record(g) \/ UNCHANGED A!avars
<1>1. TypeOK /\ ViewAt(g) /\ calls[g] = CallAt(pc[g])
  BY DEF IInv, calls
<1>2. CASE QueryChallenge(g)
  <2> DEFINE verdict == ChallengeVerdict(challenges, arg[g].challenge, now)
  <2>1. pc[g] = "query" /\ txChallenges = challenges /\ conn = g
    BY <1>1, <1>2 DEF QueryChallenge, ViewAt, IInv, ConnectionHeldByTx, TxPC, RecordPC
  <2>2. A!Exclusive /\ calls[g] = "record"
    BY <1>1, <2>1, OthersUnchecked, CallsOfStatements
  <2>3. CASE verdict = "valid"
    <3>1. Goto(g, "insertVerification") /\ UNCHANGED tables
      BY <1>2, <2>1, <2>3 DEF QueryChallenge
    <3>2. calls' = [calls EXCEPT ![g] = CallAt("insertVerification")]
      BY <1>1, <3>1, CallsStep DEF Goto
    <3>3. calls' = [calls EXCEPT ![g] = "checked"]
      BY <3>2, CallsOfStatements
    <3> QED
      BY <2>2, <2>3, <3>1, <3>3, SameTables DEF Goto, A!Check, tables
  <2>4. CASE verdict # "valid"
    <3>1. Return(g, verdict) /\ UNCHANGED tables
      BY <1>2, <2>1, <2>4 DEF QueryChallenge, Rollback
    <3>2. A!Return(g, verdict)
      BY <3>1, AtomicReturn
    <3> QED
      BY <2>2, <2>4, <3>1, <3>2, SameTables DEF A!Check, tables
  <2> QED
    BY <2>3, <2>4
<1>3. CASE InsertVerification(g)
  <2>1. pc[g] = "insertVerification" /\ txVerifications = verifications
    BY <1>1, <1>3 DEF InsertVerification, ViewAt
  <2>2. CASE verifications[arg[g].nullifier] = NoRow
    <3>1. Goto(g, "consume") /\ UNCHANGED tables
      BY <1>3, <2>1, <2>2 DEF InsertVerification
    <3> QED
      BY <2>1, <3>1, Invisible, CallsOfStatements
  <2>3. CASE verifications[arg[g].nullifier] # NoRow
    <3>1. Return(g, "ErrDuplicateNullifier") /\ UNCHANGED tables
      BY <1>3, <2>1, <2>3 DEF InsertVerification, Rollback
    <3>2. A!Return(g, "ErrDuplicateNullifier")
      BY <3>1, AtomicReturn
    <3> QED
      BY <1>1, <2>1, <2>3, <3>1, <3>2, CallsOfStatements DEF A!Record, tables
  <2> QED
    BY <2>2, <2>3
<1>4. CASE ConsumeChallenge(g)
  BY <1>4, Invisible, CallsOfStatements DEF ConsumeChallenge
<1>5. CASE CommitRecord(g)
  <2>1. pc[g] = "commit" /\ Return(g, "ok") /\ Commit
    BY <1>5 DEF CommitRecord
  <2>2. /\ verifications[arg[g].nullifier] = NoRow
        /\ verifications' = WithVerification(verifications, arg[g].nullifier,
                                             arg[g].challenge, arg[g].proof_type)
        /\ challenges' = WithConsumed(challenges, arg[g].challenge)
    BY <1>1, <2>1 DEF ViewAt, Commit
  <2>3. A!Return(g, "ok")
    BY <2>1, AtomicReturn
  <2> QED
    BY <1>1, <2>1, <2>2, <2>3, CallsOfStatements, SameTables DEF A!Record
<1> QED
  BY <1>2, <1>3, <1>4, <1>5

\* CleanDB empties both tables with its commit.
LEMMA AtomicClean ==
  ASSUME IInv, NEW g \in Caller,
         DeleteVerifications(g) \/ DeleteChallenges(g) \/ CommitClean(g)
  PROVE  A!Clean(g) \/ UNCHANGED A!avars
<1>1. CASE DeleteVerifications(g)
  BY <1>1, Invisible, CallsOfStatements DEF DeleteVerifications
<1>2. CASE DeleteChallenges(g)
  BY <1>2, Invisible, CallsOfStatements DEF DeleteChallenges
<1>3. CASE CommitClean(g)
  <2>1. pc[g] = "commitClean" /\ Return(g, "ok") /\ Commit
    BY <1>3 DEF CommitClean
  <2>2. conn = g /\ ViewAt(g) /\ calls[g] = CallAt(pc[g])
    BY <2>1 DEF IInv, ConnectionHeldByTx, TxPC, CleanPC, calls
  <2>3. challenges' = EmptyChallenges /\ verifications' = EmptyVerifications
    BY <2>1, <2>2 DEF ViewAt, Commit
  <2>4. A!Exclusive /\ A!Return(g, "ok")
    BY <2>1, <2>2, OthersUnchecked, AtomicReturn
  <2> QED
    BY <2>1, <2>2, <2>3, <2>4, CallsOfStatements, SameTables DEF A!Clean
<1> QED
  BY <1>1, <1>2, <1>3

\* An error return, a crash and the clock leave the tables alone.
LEMMA AtomicFailures ==
  ASSUME IInv
  PROVE  /\ \A g \in Caller : Fail(g) => A!Fail(g)
         /\ Crash => A!Crash
         /\ NewSQLiteStore => A!Reopen
         /\ Tick => A!Tick
<1>1. ASSUME NEW g \in Caller, Fail(g) PROVE A!Fail(g)
  <2>1. Return(g, "error") /\ UNCHANGED tables /\ pc[g] \in WaitPC \cup TxPC
    BY <1>1 DEF Fail, FailWaiting, FailTx, Rollback
  <2>2. calls[g] # "none"
    BY <2>1, CallsOfStatements DEF calls, WaitPC, TxPC, RecordPC, CleanPC
  <2>3. A!Return(g, "error")
    BY <2>1, AtomicReturn
  <2> QED
    BY <2>1, <2>2, <2>3 DEF A!Fail, tables
<1>2. ASSUME Crash PROVE A!Crash
  <2>1. calls' = [g \in Caller |-> "none"]
    BY <1>2, CallsOfStatements DEF Crash, calls
  <2> QED
    BY <1>2, <2>1 DEF Crash, Rollback, A!Crash, tables
<1>3. ASSUME NewSQLiteStore PROVE A!Reopen
  BY <1>3 DEF NewSQLiteStore, A!Reopen, tables, calls
<1>4. ASSUME Tick PROVE A!Tick
  BY <1>4 DEF Tick, A!Tick, tables, calls
<1> QED
  BY <1>1, <1>2, <1>3, <1>4

\* The methods of SQLiteStore are atomic although each is several statements
\* on a connection that other callers wait for, may fail at any of them, and
\* may be cut by a crash.
THEOREM MethodsAreAtomic == Spec => CallsAreAtomic
<1>1. Init => A!AtomicInit
  <2>1. Init => calls = [g \in Caller |-> "none"]
    BY CallsOfStatements DEF Init, calls
  <2> QED
    BY <2>1, SameTables DEF Init, A!AtomicInit
<1>2. ASSUME IInv, [Next]_vars PROVE [A!AtomicNext]_(A!avars)
  <2>1. ASSUME NEW g \in Caller, Invoke(g) \/ UseConn(g) \/ TxStep(g) \/ Fail(g)
        PROVE  \/ A!Invoke(g) \/ A!Create(g) \/ A!Get(g) \/ A!Check(g)
               \/ A!Record(g) \/ A!Clean(g) \/ A!Fail(g)
               \/ UNCHANGED A!avars
    BY <1>2, <2>1, AtomicInvoke, AtomicUseConn, AtomicRecord, AtomicClean,
       AtomicFailures DEF TxStep
  <2>2. CASE UNCHANGED vars
    BY <2>2 DEF vars, A!avars, calls
  <2> QED
    BY <1>2, <2>1, <2>2, AtomicFailures DEF Next, A!AtomicNext
<1> QED
  BY <1>1, <1>2, Invariance, PTL DEF Spec, CallsAreAtomic, A!AtomicSpec
=============================================================================
