--------------------------- MODULE LinkVerifyProofs ---------------------------
(***************************************************************************)
(* The safety properties of LinkVerify, for every number of requests,      *)
(* slots, challenges, nullifiers and proofs.  A request is followed by     *)
(* what is known of it at each step (AtRequest): which resources it holds, *)
(* what the FFI said and which anchors its proof has passed.  The tables   *)
(* have an invariant of their own (TablesAgree).                           *)
(***************************************************************************)
EXTENDS LinkVerify, FiniteSetTheorems, TLAPS

\* The two halves of TypeOK: the state of the requests, and the rest.
FlowOK ==
  /\ pc \in [Request -> PC]
  /\ sub \in [Request -> Proof \cup {NoProof, Malformed}]
  /\ verdict \in [Request -> Verdict \cup FFIResult]
  /\ deadline \in [Request -> Nat]
  /\ \A r \in Request :
       /\ pc[r] = "idle" <=> sub[r] = NoProof
       /\ pc[r] \notin {"idle", "respond"} => sub[r] \in Proof
       /\ pc[r] = "respond" => verdict[r] \in Verdict \ {"none"}

RestOK ==
  /\ challenges \in [Challenge -> ChallengeRow \cup {NoRow}]
  /\ verifications \in [Nullifier -> VerificationRow \cup {NoRow}]
  /\ announced \in [Challenge -> Nat]
  /\ trusted \in [Issuer -> Root \cup {NoRoot}]
  /\ now \in 0..MaxTime
  /\ slots \subseteq Request /\ tmp \subseteq Request
  /\ sent \in [Nullifier -> Nat]
  /\ fresh \in [Request -> BOOLEAN]
  /\ late \in [Request -> BOOLEAN]

\* The slots of verifySem, counted.
SlotsCounted == IsFiniteSet(slots) /\ Cardinality(slots) <= MaxConcurrent

\* The checks of Verifier.Verify that a request has passed.
AnchorsPassed(r) ==
  /\ "issuer_modulus" \in Enforced =>
       sub[r].modulus = PinnedModulus[issuerForProofType(sub[r].proof_type)]
  /\ "app_id" \in Enforced => sub[r].app_id = ExpectedAppID
  /\ "smt_root" \in Enforced => fresh[r]

HoldsSlot == {"stage", "ffi", "removeTemp", "release"}

AtRequest(r) ==
  /\ r \in slots <=> pc[r] \in HoldsSlot
  /\ r \in tmp => pc[r] \in {"ffi", "removeTemp"}
  /\ pc[r] \in {"removeTemp", "release"} =>
       /\ verdict[r] \in FFIResult
       /\ verdict[r] = "verified" => sub[r].ffi = "verified"
  /\ pc[r] \in {"anchors", "lookup", "expiry", "record"} => sub[r].ffi = "verified"
  /\ pc[r] \in {"lookup", "expiry", "record"} => AnchorsPassed(r)
  /\ pc[r] = "respond" /\ verdict[r] # "bad_request" => sub[r] \in Proof
  /\ sub[r] \in Proof /\ RootIsTrusted(sub[r], trusted) => fresh[r]

\* A stored deadline is not after the announced one, and a recorded challenge
\* exists and is consumed.
TablesAgree ==
  /\ \A c \in Challenge :
       challenges[c] # NoRow => challenges[c].expires_at <= announced[c]
  /\ \A n \in Nullifier :
       Recorded(n) =>
         /\ challenges[verifications[n].challenge] # NoRow
         /\ challenges[verifications[n].challenge].consumed

IInv ==
  /\ FlowOK
  /\ RestOK
  /\ SlotsCounted
  /\ \A r \in Request : AtRequest(r)
  /\ TablesAgree
-----------------------------------------------------------------------------
(***************************************************************************)
(* Facts about the data.                                                   *)
(***************************************************************************)
LEMMA TypeSplit == TypeOK <=> FlowOK /\ RestOK
  BY DEF TypeOK, FlowOK, RestOK

LEMMA ProofFields ==
  ASSUME NEW p \in Proof
  PROVE  /\ p \in ProofRecord
         /\ p.ffi \in FFIResult /\ p.proof_type \in ProofKey
         /\ p.nullifier \in Nullifier /\ p.challenge \in Challenge
         /\ p # NoProof /\ p # Malformed
  BY PipelineAssumption DEF ProofRecord

LEMMA NewRow ==
  ASSUME NEW t \in Nat
  PROVE  /\ NewChallengeRow(t) \in ChallengeRow
         /\ NewChallengeRow(t) # NoRow
         /\ NewChallengeRow(t).expires_at <= t
         /\ NewChallengeRow(t).consumed = FALSE
<1>1. StoredTime(t) \in Nat /\ StoredTime(t) <= t
  BY StoreAssumption DEF StoredTime
<1>2. NewChallengeRow(t) \in ChallengeRow
  BY <1>1 DEF NewChallengeRow, ChallengeRow
<1> QED BY <1>1, <1>2, StoreAssumption DEF NewChallengeRow

\* The checks of the transaction of store.VerifyAndRecord.
LEMMA VerdictCases ==
  ASSUME NEW c \in Challenge, NEW t
  PROVE  /\ ChallengeVerdict(challenges, c, t) = "valid" =>
              /\ challenges[c] # NoRow
              /\ ~ (t > challenges[c].expires_at)
              /\ ~ challenges[c].consumed
         /\ ChallengeVerdict(challenges, c, t) # "valid" =>
              ChallengeVerdict(challenges, c, t) \in StoreError
         /\ ChallengeVerdict(challenges, c, t) = "ErrChallengeExpired" =>
              challenges[c] # NoRow /\ IsExpired(challenges[c], t)
         /\ ChallengeVerdict(challenges, c, t) = "ErrChallengeConsumed" =>
              challenges[c] # NoRow /\ challenges[c].consumed
         /\ ChallengeVerdict(challenges, c, t) # "ErrDuplicateNullifier"
  BY DEF ChallengeVerdict, IsExpired, StoreError

LEMMA Mismatched ==
  ASSUME NEW failing
  PROVE  FirstMismatch(failing) \in Mismatch
  BY DEF FirstMismatch, Mismatch
-----------------------------------------------------------------------------
(***************************************************************************)
(* Control of a request.                                                   *)
(***************************************************************************)
LEMMA GotoFlow ==
  ASSUME FlowOK, NEW r \in Request, NEW label \in PC \ {"idle", "respond"},
         sub[r] \in Proof, Goto(r, label)
  PROVE  FlowOK'
<1>1. sub[r] # NoProof
  BY ProofFields
<1> QED BY <1>1 DEF FlowOK, Goto

LEMMA DecideFlow ==
  ASSUME FlowOK, NEW r \in Request, NEW v \in Verdict \ {"none"},
         sub[r] \in Proof, Decide(r, v)
  PROVE  FlowOK'
<1>1. sub[r] # NoProof /\ "respond" \in PC
  BY ProofFields DEF PC
<1> QED BY <1>1 DEF FlowOK, Decide

\* What a step of r leaves alone.
OnlyAt(r) ==
  /\ \A q \in Request : q # r =>
       /\ pc'[q] = pc[q] /\ sub'[q] = sub[q] /\ verdict'[q] = verdict[q]
       /\ deadline'[q] = deadline[q] /\ fresh'[q] = fresh[q]
       /\ q \in slots' <=> q \in slots
       /\ q \in tmp' <=> q \in tmp
  /\ trusted' = trusted

LEMMA OthersKeep ==
  ASSUME NEW r \in Request, OnlyAt(r), NEW q \in Request, q # r, AtRequest(q)
  PROVE  AtRequest(q)'
  BY DEF OnlyAt, AtRequest, AnchorsPassed, RootIsTrusted
-----------------------------------------------------------------------------
(***************************************************************************)
(* The steps of a request before it writes, none of which changes a table. *)
(***************************************************************************)
LEMMA ReceiveIInv ==
  ASSUME IInv, NEW r \in Request, Receive(r)
  PROVE  IInv'
<1> USE DEF IInv
<1>1. CASE RefuseRequest(r)
  <2>1. FlowOK'
    BY <1>1, PipelineAssumption DEF RefuseRequest, FlowOK, PC, Verdict
  <2>2. AtRequest(r)' /\ OnlyAt(r)
    BY <1>1, PipelineAssumption
    DEF RefuseRequest, FlowOK, history, AtRequest, OnlyAt, HoldsSlot
  <2> QED
    BY <1>1, <2>1, <2>2, OthersKeep
    DEF RefuseRequest, RestOK, SlotsCounted, TablesAgree, Recorded, store, history
<1>2. ASSUME NEW p \in Proof, ReceiveRequest(r, p)
      PROVE  IInv'
  <2>1. FlowOK'
    BY <1>2, ProofFields DEF ReceiveRequest, FlowOK, PC
  <2>2. fresh' \in [Request -> BOOLEAN] /\ late' \in [Request -> BOOLEAN]
    BY <1>2 DEF ReceiveRequest, RestOK, RootIsTrusted, ChallengeExpired, IsExpired
  <2>3. AtRequest(r)' /\ OnlyAt(r)
    BY <1>2
    DEF ReceiveRequest, FlowOK, RestOK, AtRequest, OnlyAt, HoldsSlot, RootIsTrusted
  <2> QED
    BY <1>2, <2>1, <2>2, <2>3, OthersKeep
    DEF ReceiveRequest, RestOK, SlotsCounted, TablesAgree, Recorded, store
<1> QED BY <1>1, <1>2 DEF Receive

LEMMA AcquireIInv ==
  ASSUME IInv, NEW r \in Request, AcquireSlot(r)
  PROVE  IInv'
<1> USE DEF IInv
<1>1. sub[r] \in Proof /\ FlowOK'
  BY GotoFlow DEF AcquireSlot, FlowOK, PC
<1>2. AtRequest(r)' /\ OnlyAt(r)
  BY DEF AcquireSlot, Goto, FlowOK, AtRequest, OnlyAt, HoldsSlot, history, RootIsTrusted
<1>3. SlotsCounted'
  <2>1. IsFiniteSet(slots) /\ Cardinality(slots) \in Nat
    BY FS_CardinalityType DEF SlotsCounted
  <2>2. /\ IsFiniteSet(slots \cup {r})
        /\ \/ Cardinality(slots \cup {r}) = Cardinality(slots)
           \/ Cardinality(slots \cup {r}) = Cardinality(slots) + 1
    BY <2>1, FS_AddElement
  <2> QED
    BY <2>1, <2>2, PipelineAssumption DEF AcquireSlot, SlotsCounted
<1> QED
  BY <1>1, <1>2, <1>3, OthersKeep
  DEF AcquireSlot, RestOK, TablesAgree, Recorded, store, history

LEMMA StageIInv ==
  ASSUME IInv, NEW r \in Request, StageProofs(r) \/ StageFails(r)
  PROVE  IInv'
<1> USE DEF IInv
<1>0. sub[r] \in Proof /\ sub[r] # NoProof
  BY ProofFields DEF StageProofs, StageFails, FlowOK
<1>1. CASE StageProofs(r)
  <2>1. FlowOK'
    BY <1>0, <1>1, GotoFlow DEF StageProofs, PC
  <2>2. AtRequest(r)' /\ OnlyAt(r)
    BY <1>1
    DEF StageProofs, Goto, FlowOK, AtRequest, OnlyAt, HoldsSlot, history, RootIsTrusted
  <2> QED
    BY <1>1, <2>1, <2>2, OthersKeep
    DEF StageProofs, RestOK, SlotsCounted, TablesAgree, Recorded, store, history
<1>2. CASE StageFails(r)
  <2>1. FlowOK'
    BY <1>0, <1>2 DEF StageFails, FlowOK, PC, Verdict
  <2>2. AtRequest(r)' /\ OnlyAt(r)
    BY <1>2
    DEF StageFails, FlowOK, AtRequest, OnlyAt, HoldsSlot, history, RootIsTrusted,
        FFIResult
  <2> QED
    BY <1>2, <2>1, <2>2, OthersKeep
    DEF StageFails, RestOK, SlotsCounted, TablesAgree, Recorded, store, history
<1> QED BY <1>1, <1>2

LEMMA FFIIInv ==
  ASSUME IInv, NEW r \in Request, RunFFI(r)
  PROVE  IInv'
<1> USE DEF IInv
<1>0. sub[r] \in Proof /\ sub[r] # NoProof /\ sub[r].ffi \in FFIResult
  BY ProofFields DEF RunFFI, FlowOK
<1>1. FlowOK'
  BY <1>0 DEF RunFFI, FlowOK, PC
<1>2. AtRequest(r)' /\ OnlyAt(r)
  BY <1>0
  DEF RunFFI, FlowOK, AtRequest, OnlyAt, HoldsSlot, history, RootIsTrusted
<1> QED
  BY <1>1, <1>2, OthersKeep
  DEF RunFFI, RestOK, SlotsCounted, TablesAgree, Recorded, store, history

LEMMA RemoveTempIInv ==
  ASSUME IInv, NEW r \in Request, RemoveTempDir(r)
  PROVE  IInv'
<1> USE DEF IInv
<1>1. FlowOK'
  BY GotoFlow DEF RemoveTempDir, FlowOK, PC
<1>2. AtRequest(r)' /\ OnlyAt(r)
  BY DEF RemoveTempDir, Goto, FlowOK, AtRequest, OnlyAt, HoldsSlot, history,
         RootIsTrusted
<1> QED
  BY <1>1, <1>2, OthersKeep
  DEF RemoveTempDir, RestOK, SlotsCounted, TablesAgree, Recorded, store, history

LEMMA ReleaseIInv ==
  ASSUME IInv, NEW r \in Request, ReleaseSlot(r)
  PROVE  IInv'
<1> USE DEF IInv
<1>0. sub[r] \in Proof
  BY DEF ReleaseSlot, FlowOK
<1>1. FlowOK'
  BY <1>0, GotoFlow, DecideFlow DEF ReleaseSlot, PC, Verdict
<1>2. AtRequest(r)' /\ OnlyAt(r)
  BY <1>0
  DEF ReleaseSlot, Goto, Decide, FlowOK, AtRequest, OnlyAt, HoldsSlot, history,
      RootIsTrusted
<1>3. SlotsCounted'
  <2>1. IsFiniteSet(slots) /\ Cardinality(slots) \in Nat
    BY FS_CardinalityType DEF SlotsCounted
  <2>2. IsFiniteSet(slots \ {r}) /\ Cardinality(slots \ {r}) <= Cardinality(slots)
    BY <2>1, FS_RemoveElement
  <2>3. Cardinality(slots \ {r}) \in Nat
    BY <2>2, FS_CardinalityType
  <2> QED
    BY <2>1, <2>2, <2>3, PipelineAssumption DEF ReleaseSlot, SlotsCounted
<1> QED
  BY <1>1, <1>2, <1>3, OthersKeep
  DEF ReleaseSlot, RestOK, TablesAgree, Recorded, store, history

LEMMA AnchorsIInv ==
  ASSUME IInv, NEW r \in Request, CheckAnchors(r)
  PROVE  IInv'
<1> USE DEF IInv
<1> DEFINE p == sub[r]
           failing == Mismatches(p)
<1>0. p \in Proof /\ p.ffi = "verified"
  BY DEF CheckAnchors, FlowOK, AtRequest
<1>1. \/ \E v \in Verdict \ {"none"} : Decide(r, v)
      \/ ~ SmtRootUnavailable(p) /\ failing = {} /\ Goto(r, "lookup")
  BY Mismatched DEF CheckAnchors, Verdict, Mismatch
<1>2. FlowOK'
  BY <1>0, <1>1, GotoFlow, DecideFlow DEF PC
<1>3. OnlyAt(r)
  BY <1>1 DEF CheckAnchors, Goto, Decide, FlowOK, OnlyAt, history
<1>4. failing = {} => AnchorsPassed(r)
  <2>1. \A check \in Enforced : failing = {} => Passes(p, check)
    BY DEF Mismatches
  <2>2. Passes(p, "issuer_modulus") =>
          p.modulus = PinnedModulus[issuerForProofType(p.proof_type)]
    BY DEF Passes
  <2>3. Passes(p, "app_id") => p.app_id = ExpectedAppID
    BY DEF Passes
  <2>4. Passes(p, "smt_root") => RootIsTrusted(p, trusted)
    BY DEF Passes, RootIsTrusted
  <2>5. RootIsTrusted(p, trusted) => fresh[r]
    BY <1>0 DEF AtRequest
  <2> QED BY <2>1, <2>2, <2>3, <2>4, <2>5 DEF AnchorsPassed
<1>5. AtRequest(r)'
  <2>1. CASE \E v \in Verdict \ {"none"} : Decide(r, v)
    BY <2>1 DEF CheckAnchors, Decide, FlowOK, AtRequest, HoldsSlot, history, RootIsTrusted
  <2>2. CASE failing = {} /\ Goto(r, "lookup")
    BY <1>0, <1>4, <2>2
    DEF CheckAnchors, Goto, FlowOK, AtRequest, AnchorsPassed, HoldsSlot, history,
        RootIsTrusted
  <2> QED BY <1>1, <2>1, <2>2
<1> QED
  BY <1>2, <1>3, <1>5, OthersKeep
  DEF CheckAnchors, RestOK, SlotsCounted, TablesAgree, Recorded, store, history

\* A decision, or a step on between the look-up and the record.
LEMMA AdvanceIInv ==
  ASSUME IInv, NEW r \in Request, pc[r] \in {"lookup", "expiry", "record"},
         FlowOK', UNCHANGED <<store, trusted, now, slots, tmp, history>>, OnlyAt(r),
         sub'[r] = sub[r], pc'[r] \in {"expiry", "record", "respond"}
  PROVE  IInv'
<1>1. AtRequest(r)'
  BY DEF IInv, FlowOK, AtRequest, AnchorsPassed, HoldsSlot, history, RootIsTrusted
<1> QED
  BY <1>1, OthersKeep
  DEF IInv, RestOK, SlotsCounted, TablesAgree, Recorded, store, history

LEMMA LookupIInv ==
  ASSUME IInv, NEW r \in Request, LookupChallenge(r)
  PROVE  IInv'
<1> USE DEF IInv
<1> DEFINE row == challenges[sub[r].challenge]
<1>0. sub[r] \in Proof /\ sub[r] # NoProof /\ row \in ChallengeRow \cup {NoRow}
  BY ProofFields DEF LookupChallenge, FlowOK, RestOK
<1>1. FlowOK'
  <2>1. CASE Decide(r, "ErrChallengeNotFound")
    BY <1>0, <2>1, DecideFlow DEF Verdict, StoreError
  <2>2. CASE row # NoRow /\ deadline' = [deadline EXCEPT ![r] = row.expires_at]
             /\ pc' = [pc EXCEPT ![r] = "expiry"] /\ UNCHANGED <<sub, verdict>>
    <3>1. row.expires_at \in Nat
      BY <1>0, <2>2 DEF ChallengeRow
    <3> QED
      BY <1>0, <2>2, <3>1 DEF FlowOK, PC
  <2> QED BY <2>1, <2>2 DEF LookupChallenge
<1>2. OnlyAt(r) /\ sub'[r] = sub[r] /\ pc'[r] \in {"expiry", "record", "respond"}
  BY DEF LookupChallenge, Decide, FlowOK, OnlyAt, history
<1> QED BY <1>1, <1>2, AdvanceIInv DEF LookupChallenge

LEMMA ExpiryIInv ==
  ASSUME IInv, NEW r \in Request, CheckExpiry(r) \/ StoreFails(r)
  PROVE  IInv'
<1> USE DEF IInv
<1>0. sub[r] \in Proof
  BY DEF CheckExpiry, StoreFails, FlowOK
<1>1. FlowOK'
  BY <1>0, GotoFlow, DecideFlow
  DEF CheckExpiry, StoreFails, PC, Verdict, StoreError
<1>2. OnlyAt(r) /\ sub'[r] = sub[r] /\ pc'[r] \in {"expiry", "record", "respond"}
  BY DEF CheckExpiry, StoreFails, Goto, Decide, FlowOK, OnlyAt, history
<1> QED BY <1>1, <1>2, AdvanceIInv DEF CheckExpiry, StoreFails
-----------------------------------------------------------------------------
(***************************************************************************)
(* What each step does to the tables.                                      *)
(***************************************************************************)
Issues(c) ==
  /\ challenges[c] = NoRow
  /\ \E row \in ChallengeRow : challenges' = [challenges EXCEPT ![c] = row]
  /\ UNCHANGED verifications

Accepts(n, c, pt) ==
  /\ challenges[c] # NoRow /\ ~ challenges[c].consumed
  /\ verifications[n] = NoRow
  /\ verifications' = WithVerification(verifications, n, c, pt)
  /\ challenges' = WithConsumed(challenges, c)

\* The tables after an acceptance, row by row.
LEMMA AcceptedRows ==
  ASSUME RestOK, NEW n \in Nullifier, NEW c \in Challenge, NEW pt \in ProofKey,
         Accepts(n, c, pt)
  PROVE  /\ challenges' \in [Challenge -> ChallengeRow \cup {NoRow}]
         /\ verifications' \in [Nullifier -> VerificationRow \cup {NoRow}]
         /\ challenges'[c] # NoRow /\ challenges'[c].consumed
         /\ challenges'[c].expires_at = challenges[c].expires_at
         /\ \A d \in Challenge : d # c => challenges'[d] = challenges[d]
         /\ verifications'[n] = [challenge |-> c, proof_type |-> pt]
         /\ verifications'[n] # NoRow
         /\ \A m \in Nullifier : m # n => verifications'[m] = verifications[m]
<1> DEFINE row == [challenges[c] EXCEPT !.consumed = TRUE]
           rec == [challenge |-> c, proof_type |-> pt]
<1>1. challenges[c] \in ChallengeRow
  BY DEF RestOK, Accepts
<1>2. row \in ChallengeRow /\ row.consumed /\ row.expires_at = challenges[c].expires_at
  BY <1>1 DEF ChallengeRow
<1>3. challenges' = [challenges EXCEPT ![c] = row]
  BY DEF Accepts, WithConsumed
<1>4. rec \in VerificationRow
  BY DEF VerificationRow
<1>5. verifications' = [verifications EXCEPT ![n] = rec]
  BY DEF Accepts, WithVerification
<1> HIDE DEF row, rec
<1>6. /\ challenges' \in [Challenge -> ChallengeRow \cup {NoRow}]
      /\ challenges'[c] = row
      /\ \A d \in Challenge : d # c => challenges'[d] = challenges[d]
  BY <1>2, <1>3 DEF RestOK
<1>7. /\ verifications' \in [Nullifier -> VerificationRow \cup {NoRow}]
      /\ verifications'[n] = rec
      /\ \A m \in Nullifier : m # n => verifications'[m] = verifications[m]
  BY <1>4, <1>5 DEF RestOK
<1> QED
  BY <1>2, <1>4, <1>6, <1>7, StoreAssumption DEF rec

\* Record is a refusal or an acceptance of the request's own proof.
LEMMA RecordCases ==
  ASSUME IInv, NEW r \in Request, Record(r)
  PROVE  /\ sub[r] \in Proof
         /\ \/ /\ \E v \in StoreError : Decide(r, v)
               /\ UNCHANGED <<challenges, verifications>>
            \/ /\ Decide(r, "accepted")
               /\ Accepts(sub[r].nullifier, sub[r].challenge, sub[r].proof_type)
               /\ now <= challenges[sub[r].challenge].expires_at
<1>1. sub[r] \in Proof /\ sub[r].challenge \in Challenge
  BY ProofFields DEF IInv, FlowOK, Record
<1>2. now \in Nat /\ \A c \in Challenge :
        challenges[c] # NoRow => challenges[c].expires_at \in Nat
  BY PipelineAssumption DEF IInv, RestOK, ChallengeRow
<1> DEFINE v == ChallengeVerdict(challenges, sub[r].challenge, now)
<1>3. CASE v # "valid"
  BY <1>1, <1>3, VerdictCases DEF Record
<1>4. CASE v = "valid"
  BY <1>1, <1>2, <1>4, VerdictCases DEF Record, Accepts, StoreError
<1> QED BY <1>1, <1>3, <1>4

LEMMA RecordIInv ==
  ASSUME IInv, NEW r \in Request, Record(r)
  PROVE  IInv'
<1> USE DEF IInv
<1>0. sub[r] \in Proof /\ pc[r] = "record"
  BY RecordCases DEF Record
<1>1. PICK v \in StoreError \cup {"accepted"} : Decide(r, v)
  BY RecordCases
<1>2. FlowOK'
  BY <1>0, <1>1, DecideFlow DEF Verdict, StoreError
<1>3. AtRequest(r)' /\ OnlyAt(r)
  BY <1>0, <1>1
  DEF Record, Decide, FlowOK, AtRequest, OnlyAt, HoldsSlot, history, RootIsTrusted
<1>4. RestOK' /\ TablesAgree'
  <2>1. CASE UNCHANGED <<challenges, verifications>>
    BY <2>1 DEF Record, RestOK, TablesAgree, Recorded, history
  <2>2. CASE Accepts(sub[r].nullifier, sub[r].challenge, sub[r].proof_type)
    <3> DEFINE n == sub[r].nullifier
               c == sub[r].challenge
               pt == sub[r].proof_type
    <3>1. n \in Nullifier /\ c \in Challenge /\ pt \in ProofKey
      BY <1>0, ProofFields
    <3> HIDE DEF n, c, pt
    <3>2. Accepts(n, c, pt)
      BY <2>2 DEF n, c, pt
    <3>3. /\ challenges' \in [Challenge -> ChallengeRow \cup {NoRow}]
          /\ verifications' \in [Nullifier -> VerificationRow \cup {NoRow}]
          /\ challenges'[c] # NoRow /\ challenges'[c].consumed
          /\ challenges'[c].expires_at = challenges[c].expires_at
          /\ \A d \in Challenge : d # c => challenges'[d] = challenges[d]
          /\ verifications'[n] = [challenge |-> c, proof_type |-> pt]
          /\ \A m \in Nullifier : m # n => verifications'[m] = verifications[m]
      BY <3>1, <3>2, AcceptedRows
    <3>4. RestOK'
      BY <3>3 DEF Record, RestOK, history
    <3>5. ASSUME NEW d \in Challenge, challenges'[d] # NoRow
          PROVE  challenges'[d].expires_at <= announced'[d]
      BY <3>2, <3>3, <3>5 DEF Record, TablesAgree, Accepts
    <3>6. ASSUME NEW m \in Nullifier, verifications'[m] # NoRow
          PROVE  /\ challenges'[verifications'[m].challenge] # NoRow
                 /\ challenges'[verifications'[m].challenge].consumed
      <4>1. CASE m = n
        BY <3>3, <4>1
      <4>2. CASE m # n
        <5>1. verifications'[m] = verifications[m]
          BY <3>3, <4>2
        <5>2. verifications[m].challenge \in Challenge
          BY <3>6, <5>1 DEF RestOK, VerificationRow
        <5> QED
          BY <3>3, <3>6, <5>1, <5>2 DEF TablesAgree, Recorded
      <4> QED BY <4>1, <4>2
    <3>7. TablesAgree'
      BY <3>5, <3>6 DEF TablesAgree, Recorded
    <3> QED BY <3>4, <3>7
  <2> QED BY <2>1, <2>2, RecordCases
<1> QED
  BY <1>2, <1>3, <1>4, OthersKeep DEF Record, SlotsCounted

LEMMA RespondIInv ==
  ASSUME IInv, NEW r \in Request, Respond(r)
  PROVE  IInv'
<1> USE DEF IInv
<1>1. FlowOK'
  BY ProofFields DEF Respond, FlowOK, PC, Verdict
<1>2. sent' \in [Nullifier -> Nat]
  <2>1. CASE verdict[r] = "accepted"
    <3>1. sub[r].nullifier \in Nullifier
      BY <2>1, ProofFields DEF Respond, AtRequest
    <3> QED BY <2>1, <3>1 DEF Respond, RestOK
  <2>2. CASE verdict[r] # "accepted"
    BY <2>2 DEF Respond, RestOK
  <2> QED BY <2>1, <2>2
<1>3. AtRequest(r)' /\ OnlyAt(r)
  BY PipelineAssumption
  DEF Respond, FlowOK, RestOK, AtRequest, OnlyAt, HoldsSlot
<1>4. fresh' \in [Request -> BOOLEAN] /\ late' \in [Request -> BOOLEAN]
  BY DEF Respond, RestOK
<1> QED
  BY <1>1, <1>2, <1>3, <1>4, OthersKeep
  DEF Respond, RestOK, SlotsCounted, TablesAgree, Recorded, store

RequestStep(r) == Receive(r) \/ AcquireSlot(r) \/ Proceed(r) \/ Fail(r)

LEMMA RequestStepIInv ==
  ASSUME IInv, NEW r \in Request, RequestStep(r)
  PROVE  IInv'
  BY ReceiveIInv, AcquireIInv, StageIInv, FFIIInv, RemoveTempIInv, ReleaseIInv,
     AnchorsIInv, LookupIInv, ExpiryIInv, RecordIInv, RespondIInv
  DEF RequestStep, Proceed, Fail
-----------------------------------------------------------------------------
(***************************************************************************)
(* The other operations and the environment.                               *)
(***************************************************************************)
Environment ==
  \/ \E c \in Challenge : CreateChallenge(c)
  \/ CleanDB
  \/ \E roots \in [Issuer -> Root] : RefreshRoots(roots)
  \/ Tick
  \/ CrashAndRestart

LEMMA IssuedRow ==
  ASSUME RestOK, NEW c \in Challenge, CreateChallenge(c)
  PROVE  /\ now + TTL \in Nat
         /\ NewChallengeRow(now + TTL) \in ChallengeRow
         /\ Issues(c)
<1>1. now + TTL \in Nat
  BY StoreAssumption, PipelineAssumption DEF RestOK
<1>2. NewChallengeRow(now + TTL) \in ChallengeRow
  BY <1>1, NewRow
<1> QED BY <1>1, <1>2 DEF CreateChallenge, Issues

LEMMA EnvironmentIInv ==
  ASSUME IInv, Environment
  PROVE  IInv'
<1> USE DEF IInv
<1>1. ASSUME NEW c \in Challenge, CreateChallenge(c)
      PROVE  IInv'
  <2> DEFINE row == NewChallengeRow(now + TTL)
  <2>1. now + TTL \in Nat /\ row \in ChallengeRow /\ row # NoRow
        /\ row.expires_at <= now + TTL
    BY <1>1, IssuedRow, NewRow
  <2> HIDE DEF row
  <2>2. challenges' = [challenges EXCEPT ![c] = row]
        /\ announced' = [announced EXCEPT ![c] = now + TTL]
    BY <1>1 DEF CreateChallenge, row
  <2>3. RestOK'
    BY <1>1, <2>1, <2>2 DEF CreateChallenge, RestOK, history
  <2>4. FlowOK' /\ SlotsCounted' /\ \A r \in Request : AtRequest(r)'
    BY <1>1 DEF CreateChallenge, FlowOK, SlotsCounted, AtRequest, AnchorsPassed,
                RootIsTrusted, flow, history
  <2>5. \A d \in Challenge :
          challenges'[d] # NoRow => challenges'[d].expires_at <= announced'[d]
    BY <2>1, <2>2 DEF RestOK, TablesAgree
  <2>6. ASSUME NEW n \in Nullifier, verifications'[n] # NoRow
        PROVE  /\ challenges'[verifications'[n].challenge] # NoRow
               /\ challenges'[verifications'[n].challenge].consumed
    <3>1. verifications' = verifications /\ challenges[c] = NoRow
      BY <1>1 DEF CreateChallenge
    <3>2. verifications[n].challenge \in Challenge /\ verifications[n].challenge # c
      BY <2>6, <3>1 DEF RestOK, VerificationRow, TablesAgree, Recorded
    <3> QED
      BY <2>2, <2>6, <3>1, <3>2 DEF RestOK, TablesAgree, Recorded
  <2> QED BY <2>3, <2>4, <2>5, <2>6 DEF TablesAgree, Recorded
<1>2. CASE CleanDB
  <2>1. RestOK'
    BY <1>2 DEF CleanDB, RestOK, EmptyChallenges, EmptyVerifications
  <2>2. FlowOK' /\ SlotsCounted' /\ \A r \in Request : AtRequest(r)'
    BY <1>2 DEF CleanDB, FlowOK, SlotsCounted, AtRequest, AnchorsPassed,
                RootIsTrusted, flow
  <2>3. TablesAgree'
    BY <1>2 DEF CleanDB, TablesAgree, Recorded, EmptyChallenges, EmptyVerifications
  <2> QED BY <2>1, <2>2, <2>3
<1>3. ASSUME NEW roots \in [Issuer -> Root], RefreshRoots(roots)
      PROVE  IInv'
  <2>1. /\ fresh' \in [Request -> BOOLEAN]
        /\ \A r \in Request : fresh[r] => fresh'[r]
        /\ \A r \in Request :
             sub[r] \in Proof /\ RootIsTrusted(sub[r], roots) => fresh'[r]
    BY <1>3 DEF RefreshRoots, RestOK, RootIsTrusted
  <2>2. \A r \in Request : AtRequest(r)'
    BY <1>3, <2>1 DEF RefreshRoots, AtRequest, AnchorsPassed, RootIsTrusted, flow
  <2>3. FlowOK' /\ SlotsCounted' /\ TablesAgree'
    BY <1>3 DEF RefreshRoots, FlowOK, SlotsCounted, TablesAgree, Recorded, flow, store
  <2>4. trusted' \in [Issuer -> Root \cup {NoRoot}]
    BY <1>3 DEF RefreshRoots
  <2>5. RestOK'
    BY <1>3, <2>1, <2>4 DEF RefreshRoots, RestOK, store
  <2> QED BY <2>2, <2>3, <2>5
<1>4. CASE Tick
  <2>1. now' \in 0..MaxTime
    BY <1>4, PipelineAssumption DEF Tick, RestOK
  <2>2. RestOK'
    BY <1>4, <2>1 DEF Tick, RestOK, store, history
  <2>3. FlowOK' /\ SlotsCounted' /\ \A r \in Request : AtRequest(r)'
    BY <1>4 DEF Tick, FlowOK, SlotsCounted, AtRequest, AnchorsPassed, RootIsTrusted,
                flow, history
  <2> QED BY <1>4, <2>2, <2>3 DEF Tick, TablesAgree, Recorded, store
<1>5. CASE CrashAndRestart
  <2>1. FlowOK'
    BY <1>5, ProofFields DEF CrashAndRestart, FlowOK, PC, Verdict
  <2>2. \A r \in Request : AtRequest(r)'
    BY <1>5, PipelineAssumption DEF CrashAndRestart, AtRequest, HoldsSlot
  <2>3. SlotsCounted'
    BY <1>5, FS_EmptySet, PipelineAssumption DEF CrashAndRestart, SlotsCounted
  <2>4. RestOK'
    BY <1>5, PipelineAssumption DEF CrashAndRestart, RestOK, store
  <2> QED
    BY <1>5, <2>1, <2>2, <2>3, <2>4 DEF CrashAndRestart, TablesAgree, Recorded, store
<1> QED BY <1>1, <1>2, <1>3, <1>4, <1>5 DEF Environment

LEMMA InitIInv == Init => IInv
<1> SUFFICES ASSUME Init
             PROVE  IInv
  OBVIOUS
<1>1. FlowOK
  BY ProofFields DEF Init, FlowOK, PC, Verdict
<1>2. RestOK
  BY PipelineAssumption DEF Init, RestOK, EmptyChallenges, EmptyVerifications
<1>3. SlotsCounted
  BY FS_EmptySet, PipelineAssumption DEF Init, SlotsCounted
<1>4. \A r \in Request : AtRequest(r)
  BY PipelineAssumption DEF Init, AtRequest, HoldsSlot
<1>5. TablesAgree
  BY DEF Init, TablesAgree, Recorded, EmptyChallenges, EmptyVerifications
<1> QED BY <1>1, <1>2, <1>3, <1>4, <1>5 DEF IInv

LEMMA NextCases ==
  Next <=> Environment \/ \E r \in Request : RequestStep(r)
  BY DEF Next, Environment, RequestStep

LEMMA NextIInv == IInv /\ [Next]_vars => IInv'
<1> SUFFICES ASSUME IInv, [Next]_vars
             PROVE  IInv'
  OBVIOUS
<1>1. CASE UNCHANGED vars
  BY <1>1 DEF vars, IInv, FlowOK, RestOK, SlotsCounted, AtRequest, AnchorsPassed,
              RootIsTrusted, TablesAgree, Recorded
<1> QED BY <1>1, NextCases, RequestStepIInv, EnvironmentIInv
-----------------------------------------------------------------------------
\* What is known of a request at each step: the strengthened invariant holds
\* in every reachable state.
THEOREM Invariance == Spec => []IInv
  BY InitIInv, NextIInv, PTL DEF Spec

\* The values of the pipeline's state; a request with a handler has a proof,
\* and the handler responds only with a verdict.
THEOREM TypeCorrect == Spec => []TypeOK
<1>1. IInv => TypeOK
  BY TypeSplit DEF IInv
<1> QED BY <1>1, Invariance, PTL

\* verifySem bounds the temp directories too: the deferred calls of Verify
\* remove the directory before they give the slot back, on every return path.
THEOREM DirectoriesBounded == Spec => []StagingBounded
<1>1. IInv => StagingBounded
  <2> SUFFICES ASSUME IInv
               PROVE  StagingBounded
    OBVIOUS
  <2>1. ASSUME NEW r \in tmp
        PROVE  r \in slots
    BY DEF IInv, RestOK, AtRequest, HoldsSlot
  <2> QED BY <2>1 DEF IInv, SlotsCounted, StagingBounded
<1> QED BY <1>1, Invariance, PTL
-----------------------------------------------------------------------------
(***************************************************************************)
(* What a step may do to the tables.                                       *)
(***************************************************************************)
Wipes ==
  /\ DebugToken
  /\ challenges' = EmptyChallenges /\ verifications' = EmptyVerifications

AcceptsOf(r) ==
  /\ sub[r] \in Proof
  /\ pc[r] = "record"
  /\ Decide(r, "accepted")
  /\ Accepts(sub[r].nullifier, sub[r].challenge, sub[r].proof_type)
  /\ now <= challenges[sub[r].challenge].expires_at

LEMMA TableSteps ==
  ASSUME IInv, [Next]_vars
  PROVE  \/ UNCHANGED <<challenges, verifications>>
         \/ \E c \in Challenge : Issues(c)
         \/ \E r \in Request : AcceptsOf(r)
         \/ Wipes
<1>1. CASE UNCHANGED vars
  BY <1>1 DEF vars
<1>2. ASSUME NEW r \in Request, RequestStep(r)
      PROVE  UNCHANGED <<challenges, verifications>> \/ AcceptsOf(r)
  <2>1. CASE Record(r)
    BY <2>1, RecordCases DEF Record, AcceptsOf
  <2>2. CASE ~ Record(r)
    BY <1>2, <2>2
    DEF RequestStep, Receive, ReceiveRequest, RefuseRequest, AcquireSlot, Proceed,
        Fail, StageProofs, StageFails, RunFFI, RemoveTempDir, ReleaseSlot,
        CheckAnchors, LookupChallenge, CheckExpiry, StoreFails, Respond, store
  <2> QED BY <2>1, <2>2
<1>3. CASE Environment
  <2>1. ASSUME NEW c \in Challenge, CreateChallenge(c)
        PROVE  Issues(c)
    BY <2>1, IssuedRow DEF IInv
  <2> QED
    BY <1>3, <2>1
    DEF Environment, CleanDB, Wipes, RefreshRoots, Tick, CrashAndRestart, store
<1> QED BY <1>1, <1>2, <1>3, NextCases

\* A nullifier that becomes recorded is that of a request whose own proof was
\* accepted.
LEMMA NewRecord ==
  ASSUME IInv, [Next]_vars, NEW n \in Nullifier, ~ Recorded(n), Recorded(n)'
  PROVE  \E r \in Request :
           /\ AcceptsOf(r)
           /\ sub[r].nullifier = n
           /\ verifications'[n] = [challenge |-> sub[r].challenge,
                                   proof_type |-> sub[r].proof_type]
<1>1. PICK r \in Request : AcceptsOf(r)
  BY TableSteps DEF Issues, Wipes, Recorded, EmptyVerifications
<1> DEFINE m == sub[r].nullifier
           c == sub[r].challenge
           pt == sub[r].proof_type
<1>2. m \in Nullifier /\ c \in Challenge /\ pt \in ProofKey /\ Accepts(m, c, pt)
  BY <1>1, ProofFields DEF AcceptsOf
<1> HIDE DEF m, c, pt
<1>3. /\ verifications'[m] = [challenge |-> c, proof_type |-> pt]
      /\ \A k \in Nullifier : k # m => verifications'[k] = verifications[k]
  BY <1>2, AcceptedRows DEF IInv
<1>4. m = n
  BY <1>3 DEF Recorded
<1> QED BY <1>1, <1>3, <1>4 DEF m, c, pt

\* Whichever check of an expired challenge the clock slips past, nothing is
\* recorded after the deadline that the client was told.
THEOREM NothingLate == Spec => RecordedInTime
<1>1. ASSUME IInv, [Next]_vars, NEW n \in Nullifier, ~ Recorded(n), Recorded(n)'
      PROVE  now <= announced[verifications'[n].challenge]
  <2>1. PICK r \in Request :
          /\ AcceptsOf(r)
          /\ sub[r].nullifier = n
          /\ verifications'[n] = [challenge |-> sub[r].challenge,
                                  proof_type |-> sub[r].proof_type]
    BY <1>1, NewRecord
  <2> DEFINE c == sub[r].challenge
  <2>2. c \in Challenge /\ challenges[c] # NoRow /\ now <= challenges[c].expires_at
    BY <2>1, ProofFields DEF AcceptsOf, Accepts
  <2> HIDE DEF c
  <2>3. challenges[c].expires_at <= announced[c]
    BY <1>1, <2>2 DEF IInv, TablesAgree
  <2>4. now \in Int /\ announced[c] \in Int /\ challenges[c].expires_at \in Int
    BY <1>1, <2>2, PipelineAssumption DEF IInv, RestOK, ChallengeRow
  <2>5. now <= announced[c]
    BY <2>2, <2>3, <2>4
  <2>6. verifications'[n].challenge = c
    BY <2>1 DEF c
  <2> QED BY <2>5, <2>6
<1>2. IInv /\ [Next]_vars =>
        [\A n \in Nullifier :
           ~ Recorded(n) /\ Recorded(n)' =>
             now <= announced[verifications'[n].challenge]]_vars
  BY <1>1
<1> QED BY <1>2, Invariance, PTL DEF Spec, RecordedInTime

\* Only a proof that the FFI verified and that passed every configured anchor
\* check is recorded, and with its own challenge and type.
THEOREM OnlyAdmissibleRecorded == Spec => RecordsAreAdmissible
<1>1. ASSUME IInv, [Next]_vars, NEW n \in Nullifier, ~ Recorded(n), Recorded(n)'
      PROVE  \E r \in Request :
               /\ sub[r] \in Proof
               /\ Admissible(sub[r], n)
               /\ "smt_root" \in Enforced => fresh[r]
               /\ verifications'[n] = [challenge |-> sub[r].challenge,
                                       proof_type |-> sub[r].proof_type]
  <2>1. PICK r \in Request :
          /\ AcceptsOf(r)
          /\ sub[r].nullifier = n
          /\ verifications'[n] = [challenge |-> sub[r].challenge,
                                  proof_type |-> sub[r].proof_type]
    BY <1>1, NewRecord
  <2>2. sub[r] \in Proof /\ sub[r].ffi = "verified" /\ AnchorsPassed(r)
    BY <1>1, <2>1 DEF IInv, AtRequest, AcceptsOf
  <2> QED
    BY <2>1, <2>2 DEF Admissible, AnchorsPassed, issuerForProofType
<1>2. IInv /\ [Next]_vars =>
        [\A n \in Nullifier :
           ~ Recorded(n) /\ Recorded(n)' =>
             \E r \in Request :
               /\ sub[r] \in Proof
               /\ Admissible(sub[r], n)
               /\ "smt_root" \in Enforced => fresh[r]
               /\ verifications'[n] = [challenge |-> sub[r].challenge,
                                       proof_type |-> sub[r].proof_type]]_vars
  BY <1>1
<1> QED BY <1>2, Invariance, PTL DEF Spec, RecordsAreAdmissible

\* A step of r leaves the other requests, and the counts, alone; it sends the
\* success of r if it is the response.
LEMMA RequestFrame ==
  ASSUME IInv, NEW r \in Request, RequestStep(r)
  PROVE  /\ now' = now
         /\ \A q \in Request : q # r =>
              /\ pc'[q] = pc[q] /\ sub'[q] = sub[q]
              /\ verdict'[q] = verdict[q] /\ deadline'[q] = deadline[q]
         /\ sent' = sent \/ Respond(r)
<1> USE DEF IInv, FlowOK
<1>1. CASE Receive(r)
  BY <1>1 DEF Receive, ReceiveRequest, RefuseRequest, history
<1>2. CASE AcquireSlot(r) \/ StageProofs(r) \/ StageFails(r) \/ RunFFI(r)
           \/ RemoveTempDir(r)
  BY <1>2
  DEF AcquireSlot, StageProofs, StageFails, RunFFI, RemoveTempDir, Goto, history
<1>3. CASE ReleaseSlot(r) \/ CheckAnchors(r)
  BY <1>3 DEF ReleaseSlot, CheckAnchors, Goto, Decide, history
<1>4. CASE LookupChallenge(r) \/ CheckExpiry(r) \/ StoreFails(r)
  BY <1>4 DEF LookupChallenge, CheckExpiry, StoreFails, Goto, Decide, history
<1>5. CASE Record(r)
  <2>1. PICK v \in StoreError \cup {"accepted"} : Decide(r, v)
    BY <1>5, RecordCases
  <2> QED BY <1>5, <2>1 DEF Record, Decide, history
<1>6. CASE Respond(r)
  BY <1>6 DEF Respond
<1> QED BY <1>1, <1>2, <1>3, <1>4, <1>5, <1>6 DEF RequestStep, Proceed, Fail

\* What the reason of a mismatch says about the proof of r.
ReasonFits(r) ==
  LET p == sub[r]
      trustedOnce == "smt_root" \in Enforced => fresh[r]
  IN
  pc[r] = "respond" =>
    /\ verdict[r] \in Mismatch => p.ffi = "verified"
    /\ verdict[r] = "issuer_modulus_mismatch" =>
         trustedOnce /\ ~ Passes(p, "issuer_modulus")
    /\ verdict[r] = "app_id_mismatch" =>
         /\ trustedOnce /\ ~ Passes(p, "app_id")
         /\ "issuer_modulus" \in Enforced => Passes(p, "issuer_modulus")

\* It is what CheckAnchors found out about it.
LEMMA ReasonFound ==
  ASSUME IInv, NEW r \in Request, CheckAnchors(r)
  PROVE  ReasonFits(r)'
<1> DEFINE p == sub[r]  failing == Mismatches(p)
<1>1. p \in Proof /\ p.ffi = "verified" /\ pc[r] = "anchors"
  BY DEF CheckAnchors, IInv, FlowOK, AtRequest
<1>2. UNCHANGED <<sub, trusted, fresh>>
  BY DEF CheckAnchors, Decide, Goto, history
<1>3. \A check \in Enforced : check \notin failing => Passes(p, check)
  BY DEF Mismatches
<1>4. \A check \in failing : ~ Passes(p, check)
  BY DEF Mismatches
<1>5. "smt_root" \in Enforced /\ "smt_root" \notin failing => fresh[r]
  <2>1. Passes(p, "smt_root") => RootIsTrusted(p, trusted)
    BY DEF Passes, RootIsTrusted
  <2> QED BY <1>1, <1>3, <2>1 DEF IInv, AtRequest
<1>6. /\ Passes(p, "issuer_modulus")' <=> Passes(p, "issuer_modulus")
      /\ Passes(p, "app_id")' <=> Passes(p, "app_id")
  BY <1>2 DEF Passes
<1>7. CASE ~ SmtRootUnavailable(p) /\ failing # {} /\ Decide(r, FirstMismatch(failing))
  <2>1. failing \subseteq {"smt_root", "issuer_modulus", "app_id"}
    BY PipelineAssumption DEF Mismatches
  <2>2. verdict'[r] = FirstMismatch(failing)
    BY <1>7 DEF Decide, IInv, FlowOK
  <2>3. CASE "smt_root" \in failing
    BY <1>1, <1>2, <2>2, <2>3 DEF FirstMismatch, ReasonFits
  <2>4. CASE "smt_root" \notin failing /\ "issuer_modulus" \in failing
    <3>1. verdict'[r] = "issuer_modulus_mismatch"
      BY <2>2, <2>4 DEF FirstMismatch
    <3> QED BY <1>1, <1>2, <1>4, <1>5, <1>6, <2>4, <3>1 DEF ReasonFits
  <2>5. CASE "smt_root" \notin failing /\ "issuer_modulus" \notin failing
    <3>1. verdict'[r] = "app_id_mismatch" /\ "app_id" \in failing
      BY <1>7, <2>1, <2>2, <2>5 DEF FirstMismatch
    <3> QED BY <1>1, <1>2, <1>3, <1>4, <1>5, <1>6, <2>5, <3>1 DEF ReasonFits
  <2> QED BY <2>3, <2>4, <2>5
<1>8. CASE Decide(r, "ErrSmtRootUnavailable")
  BY <1>8 DEF Decide, IInv, FlowOK, ReasonFits, Mismatch
<1>9. CASE Goto(r, "lookup")
  BY <1>9 DEF Goto, IInv, FlowOK, ReasonFits
<1> QED BY <1>7, <1>8, <1>9 DEF CheckAnchors

\* No other decision gives such a reason, and nothing takes one back.
LEMMA ReasonStep ==
  ASSUME IInv, NEW r \in Request, ReasonFits(r), [Next]_vars
  PROVE  ReasonFits(r)'
<1> USE DEF IInv, FlowOK
<1>1. ASSUME NEW v \in Verdict \ Mismatch, Decide(r, v)
      PROVE  ReasonFits(r)'
  BY <1>1 DEF Decide, ReasonFits, Mismatch
<1>2. ASSUME pc'[r] # "respond"
      PROVE  ReasonFits(r)'
  BY <1>2 DEF ReasonFits
<1>3. ASSUME UNCHANGED <<pc, sub, verdict>>, fresh[r] => fresh'[r]
      PROVE  ReasonFits(r)'
  BY <1>3 DEF ReasonFits, Passes
<1>4. ASSUME NEW q \in Request, RequestStep(q), q # r
      PROVE  ReasonFits(r)'
  <2>1. fresh'[r] = fresh[r]
    BY <1>4
    DEF RequestStep, Receive, RefuseRequest, ReceiveRequest, AcquireSlot, Proceed,
        StageProofs, RunFFI, RemoveTempDir, ReleaseSlot, CheckAnchors, LookupChallenge,
        CheckExpiry, Record, Respond, Fail, StageFails, StoreFails, history, RestOK
  <2>2. pc'[r] = pc[r] /\ sub'[r] = sub[r] /\ verdict'[r] = verdict[r]
    BY <1>4, RequestFrame
  <2> QED BY <2>1, <2>2 DEF ReasonFits, Passes
<1>5. CASE Receive(r)
  BY <1>2, <1>5 DEF Receive, RefuseRequest, ReceiveRequest, ReasonFits, Mismatch
<1>6. CASE AcquireSlot(r) \/ StageProofs(r) \/ StageFails(r) \/ RunFFI(r)
           \/ RemoveTempDir(r) \/ Respond(r)
  BY <1>2, <1>6
  DEF AcquireSlot, StageProofs, StageFails, RunFFI, RemoveTempDir, Respond, Goto
<1>7. CASE ReleaseSlot(r)
  BY <1>1, <1>2, <1>7 DEF ReleaseSlot, Goto, Verdict, Mismatch
<1>8. CASE LookupChallenge(r) \/ CheckExpiry(r) \/ StoreFails(r)
  BY <1>1, <1>2, <1>8
  DEF LookupChallenge, CheckExpiry, StoreFails, Goto, Verdict, Mismatch, StoreError
<1>9. CASE Record(r)
  <2>1. PICK v \in StoreError \cup {"accepted"} : Decide(r, v)
    BY <1>9, RecordCases
  <2> QED BY <1>1, <2>1 DEF Verdict, Mismatch, StoreError
<1>10. ASSUME NEW c \in Challenge, CreateChallenge(c)
       PROVE  ReasonFits(r)'
  BY <1>3, <1>10 DEF CreateChallenge, flow, history
<1>11. CASE CleanDB \/ Tick
  BY <1>3, <1>11 DEF CleanDB, Tick, flow, history
<1>12. ASSUME NEW roots \in [Issuer -> Root], RefreshRoots(roots)
       PROVE  ReasonFits(r)'
  BY <1>3, <1>12 DEF RefreshRoots, flow, RestOK
<1>13. CASE CrashAndRestart
  BY <1>2, <1>13 DEF CrashAndRestart
<1>14. CASE UNCHANGED vars
  BY <1>3, <1>14 DEF vars
<1>15. CASE CheckAnchors(r)
  BY <1>15, ReasonFound
<1>16. CASE RequestStep(r)
  BY <1>5, <1>6, <1>7, <1>8, <1>9, <1>15, <1>16 DEF RequestStep, Proceed, Fail
<1>17. CASE Environment
  BY <1>10, <1>11, <1>12, <1>13, <1>17 DEF Environment
<1> QED BY <1>4, <1>14, <1>16, <1>17, NextCases

\* The reason a client is given is that of the first check its proof failed,
\* whatever becomes of the root cache between the check and the answer.
THEOREM FirstFailureNamed == Spec => []ReasonIsFirstFailure
<1> DEFINE Fits == \A r \in Request : ReasonFits(r)
<1>1. Init => Fits
  BY DEF Init, ReasonFits
<1>2. IInv /\ Fits /\ [Next]_vars => Fits'
  BY ReasonStep
<1>3. Fits => ReasonIsFirstFailure
  BY DEF ReasonFits, ReasonIsFirstFailure
<1> HIDE DEF Fits
<1> QED BY <1>1, <1>2, <1>3, Invariance, PTL DEF Spec

\* The pipeline implements the abstract ledger: /challenge issues, an accepting
\* record accepts, the debug wipe wipes, and nothing else shows.
THEOREM PipelineImplementsLedger == Spec => ImplementsLedger
<1> DEFINE issued == {c \in Challenge : challenges[c] # NoRow}
           spent(n) == IF Recorded(n) THEN verifications[n].challenge ELSE NoRow
           spentBy == [n \in Nullifier |-> spent(n)]
<1>1. Init => L!LedgerInit
  BY DEF Init, L!LedgerInit, EmptyChallenges, EmptyVerifications, Recorded
<1>2. ASSUME IInv, [Next]_vars
      PROVE  [L!LedgerNext]_(L!lvars)
  <2>1. CASE UNCHANGED <<challenges, verifications>>
    BY <2>1 DEF L!lvars, Recorded
  <2>2. ASSUME NEW c \in Challenge, Issues(c)
        PROVE  L!Issue(c)
    <3>1. PICK row \in ChallengeRow : challenges' = [challenges EXCEPT ![c] = row]
      BY <2>2 DEF Issues
    <3>2. issued' = issued \cup {c} /\ c \notin issued
      BY <1>2, <2>2, <3>1, StoreAssumption DEF IInv, RestOK, Issues
    <3>3. spentBy' = spentBy
      BY <2>2 DEF Issues, Recorded
    <3> QED BY <3>2, <3>3 DEF L!Issue
  <2>3. ASSUME NEW r \in Request, AcceptsOf(r)
        PROVE  L!LedgerNext
    <3>1. PICK n \in Nullifier, c \in Challenge, pt \in ProofKey : Accepts(n, c, pt)
      BY <2>3, ProofFields DEF AcceptsOf
    <3>2. /\ challenges'[c] # NoRow
          /\ \A d \in Challenge : d # c => challenges'[d] = challenges[d]
          /\ verifications'[n] = [challenge |-> c, proof_type |-> pt]
          /\ verifications'[n] # NoRow
          /\ \A m \in Nullifier : m # n => verifications'[m] = verifications[m]
      BY <1>2, <3>1, AcceptedRows DEF IInv
    <3>3. challenges[c] # NoRow /\ ~ challenges[c].consumed /\ verifications[n] = NoRow
      BY <3>1 DEF Accepts
    <3>4. issued' = issued /\ c \in issued
      BY <3>1, <3>2, <3>3
    <3>5. spentBy' = [spentBy EXCEPT ![n] = c]
      <4>1. \A m \in Nullifier : spent(m)' = IF m = n THEN c ELSE spent(m)
        BY <3>2 DEF Recorded
      <4> QED BY <4>1
    <3>6. spentBy[n] = NoRow
      BY <3>1, <3>3 DEF Recorded
    <3>7. ASSUME NEW m \in Nullifier
          PROVE  spentBy[m] # c
      BY <1>2, <3>1, <3>3, StoreAssumption DEF IInv, TablesAgree, Recorded
    <3>8. L!Accept(n, c)
      BY <3>4, <3>5, <3>6, <3>7 DEF L!Accept
    <3> QED BY <3>8 DEF L!LedgerNext
  <2>4. CASE Wipes
    BY <2>4 DEF Wipes, L!LedgerNext, L!Wipe, EmptyChallenges, EmptyVerifications, Recorded
  <2> QED BY <1>2, <2>1, <2>2, <2>3, <2>4, TableSteps DEF L!LedgerNext
<1> QED BY <1>1, <1>2, Invariance, PTL DEF Spec, ImplementsLedger, L!LedgerSpec
-----------------------------------------------------------------------------
(***************************************************************************)
(* What a server without the debug wipe never takes back.                  *)
(***************************************************************************)
Responds(r, v) == pc[r] = "respond" /\ verdict[r] = v

\* A decision stays true until it is sent; before it is recorded, a request
\* compares the clock with the deadline of an existing row.
Final(r) ==
  /\ pc[r] \in {"expiry", "record"} =>
       /\ challenges[sub[r].challenge] # NoRow
       /\ deadline[r] = challenges[sub[r].challenge].expires_at
  /\ Responds(r, "ErrChallengeExpired") =>
       /\ challenges[sub[r].challenge] # NoRow
       /\ now > challenges[sub[r].challenge].expires_at
  /\ Responds(r, "ErrChallengeConsumed") =>
       /\ challenges[sub[r].challenge] # NoRow
       /\ challenges[sub[r].challenge].consumed
  /\ Responds(r, "ErrDuplicateNullifier") => Recorded(sub[r].nullifier)
  /\ Responds(r, "accepted") =>
       Recorded(sub[r].nullifier) /\ sent[sub[r].nullifier] = 0

SentOnce ==
  \A n \in Nullifier : sent[n] <= 1 /\ (sent[n] = 1 => Recorded(n))

\* No two requests are about to report the same nullifier.
Distinct ==
  \A q, r \in Request :
    q # r /\ Responds(q, "accepted") /\ Responds(r, "accepted") =>
      sub[q].nullifier # sub[r].nullifier

DInv == SentOnce /\ Distinct /\ \A r \in Request : Final(r)

\* Without the wipe rows stay, with their deadlines and their consumption.
TablesGrow ==
  /\ \A c \in Challenge :
       challenges[c] # NoRow =>
         /\ challenges'[c] # NoRow
         /\ challenges'[c].expires_at = challenges[c].expires_at
         /\ challenges[c].consumed => challenges'[c].consumed
  /\ \A n \in Nullifier : Recorded(n) => Recorded(n)'

LEMMA Growing == ASSUME ~ DebugToken, IInv, [Next]_vars PROVE TablesGrow
<1>1. CASE UNCHANGED <<challenges, verifications>>
  BY <1>1 DEF TablesGrow, Recorded
<1>2. ASSUME NEW c \in Challenge, Issues(c)
      PROVE  TablesGrow
  BY <1>2 DEF Issues, TablesGrow, Recorded, IInv, RestOK
<1>3. ASSUME NEW r \in Request, AcceptsOf(r)
      PROVE  TablesGrow
  <2>1. PICK n \in Nullifier, c \in Challenge, pt \in ProofKey : Accepts(n, c, pt)
    BY <1>3, ProofFields DEF AcceptsOf
  <2>2. /\ challenges'[c] # NoRow /\ challenges'[c].consumed
        /\ challenges'[c].expires_at = challenges[c].expires_at
        /\ \A d \in Challenge : d # c => challenges'[d] = challenges[d]
        /\ verifications'[n] # NoRow
        /\ \A m \in Nullifier : m # n => verifications'[m] = verifications[m]
    BY <2>1, AcceptedRows DEF IInv
  <2> QED BY <2>2 DEF TablesGrow, Recorded
<1> QED BY <1>1, <1>2, <1>3, TableSteps DEF Wipes

\* What is true of q stays true while others step.
LEMMA FinalKept ==
  ASSUME IInv, NEW q \in Request, Final(q), TablesGrow,
         now' \in Nat, now \in Nat, now <= now',
         pc'[q] = pc[q], sub'[q] = sub[q], verdict'[q] = verdict[q],
         deadline'[q] = deadline[q],
         Responds(q, "accepted") => sent'[sub[q].nullifier] = sent[sub[q].nullifier]
  PROVE  Final(q)'
<1>1. /\ pc[q] \in {"expiry", "record"} => sub[q] \in Proof
      /\ pc[q] = "respond" /\ verdict[q] # "bad_request" => sub[q] \in Proof
  BY DEF IInv, FlowOK, AtRequest
<1>2. sub[q] \in Proof =>
        sub[q].challenge \in Challenge /\ sub[q].nullifier \in Nullifier
  BY ProofFields
<1>3. \A c \in Challenge : challenges[c] # NoRow => challenges[c].expires_at \in Nat
  BY DEF IInv, RestOK, ChallengeRow
<1>4. CASE sub[q] \notin Proof
  BY <1>1, <1>4 DEF Final, Responds
<1>5. CASE sub[q] \in Proof
  BY <1>2, <1>3, <1>5 DEF Final, Responds, TablesGrow, Recorded
<1> QED BY <1>4, <1>5

\* The decisions of a request that are not about the tables.
LEMMA OtherDecision ==
  ASSUME IInv, NEW r \in Request,
         NEW v \in Verdict \ {"ErrChallengeExpired", "ErrChallengeConsumed",
                              "ErrDuplicateNullifier", "accepted"},
         Decide(r, v)
  PROVE  Final(r)' /\ ~ Responds(r, "accepted")'
  BY DEF IInv, FlowOK, Decide, Final, Responds

\* A step of r to a label at which nothing has been decided.
LEMMA Undecided ==
  ASSUME NEW r \in Request, pc'[r] \notin {"expiry", "record", "respond"}
  PROVE  Final(r)' /\ ~ Responds(r, "accepted")'
  BY DEF Final, Responds

\* The outcome of Record, with its reason.
LEMMA RecordFinal ==
  ASSUME IInv, SentOnce, NEW r \in Request, Record(r)
  PROVE  /\ Final(r)'
         /\ Responds(r, "accepted")' =>
              /\ ~ Recorded(sub[r].nullifier)
              /\ sub'[r] = sub[r]
<1> DEFINE n == sub[r].nullifier
           c == sub[r].challenge
           pt == sub[r].proof_type
           v == ChallengeVerdict(challenges, c, now)
<1>1. n \in Nullifier /\ c \in Challenge /\ pt \in ProofKey /\ pc[r] = "record"
  BY ProofFields DEF IInv, FlowOK, Record
<1>2. ASSUME NEW w, Decide(r, w)
      PROVE  pc'[r] = "respond" /\ verdict'[r] = w /\ sub'[r] = sub[r]
  BY <1>2 DEF IInv, FlowOK, Decide
<1>3. now' = now /\ sent' = sent
  BY DEF Record, history
<1>4. CASE v # "valid"
  <2>1. Decide(r, v) /\ UNCHANGED <<challenges, verifications>>
    BY <1>4 DEF Record
  <2> QED
    BY <1>1, <1>2, <1>3, <2>1, VerdictCases
    DEF Final, Responds, StoreError, IsExpired
<1>5. CASE v = "valid" /\ verifications[n] # NoRow
  <2>1. Decide(r, "ErrDuplicateNullifier") /\ UNCHANGED <<challenges, verifications>>
    BY <1>5 DEF Record
  <2> QED
    BY <1>2, <1>3, <1>5, <2>1 DEF Final, Responds, Recorded
<1>6. CASE v = "valid" /\ verifications[n] = NoRow
  <2>1. Decide(r, "accepted") /\ Accepts(n, c, pt)
    BY <1>1, <1>6, VerdictCases DEF Record, Accepts
  <2>2. verifications'[n] # NoRow
    BY <1>1, <2>1, AcceptedRows DEF IInv
  <2>3. sent[n] = 0
    BY <1>1, <1>6 DEF SentOnce, Recorded, IInv, RestOK
  <2> QED
    BY <1>2, <1>3, <1>6, <2>1, <2>2, <2>3 DEF Final, Responds, Recorded
<1> QED BY <1>4, <1>5, <1>6

LEMMA ActorFinal ==
  ASSUME IInv, DInv, NEW r \in Request, RequestStep(r)
  PROVE  /\ Final(r)'
         /\ Responds(r, "accepted")' =>
              /\ ~ Recorded(sub[r].nullifier)
              /\ sub'[r] = sub[r]
<1> USE DEF IInv, FlowOK
<1>1. CASE RefuseRequest(r)
  BY <1>1 DEF RefuseRequest, Final, Responds
<1>2. CASE \/ \E p \in Proof : ReceiveRequest(r, p)
           \/ AcquireSlot(r) \/ StageProofs(r) \/ StageFails(r) \/ RunFFI(r)
           \/ RemoveTempDir(r) \/ Respond(r)
  <2>1. pc'[r] \notin {"expiry", "record", "respond"}
    BY <1>2
    DEF ReceiveRequest, AcquireSlot, StageProofs, StageFails, RunFFI, RemoveTempDir,
        Respond, Goto
  <2> QED BY <2>1, Undecided
<1>3. CASE ReleaseSlot(r)
  <2>1. CASE Goto(r, "anchors")
    BY <2>1, Undecided DEF Goto
  <2>2. CASE Decide(r, "proof_invalid") \/ Decide(r, "error")
    BY <2>2, OtherDecision DEF Verdict
  <2> QED BY <1>3, <2>1, <2>2 DEF ReleaseSlot
<1>4. CASE CheckAnchors(r)
  <2>1. CASE Goto(r, "lookup")
    BY <2>1, Undecided DEF Goto
  <2>2. CASE \E v \in Mismatch \cup {"ErrSmtRootUnavailable"} : Decide(r, v)
    BY <2>2, OtherDecision DEF Verdict, Mismatch
  <2> QED BY <1>4, <2>1, <2>2, Mismatched DEF CheckAnchors
<1>5. CASE StoreFails(r)
  BY <1>5, OtherDecision DEF StoreFails, Verdict
<1>6. CASE LookupChallenge(r)
  <2>1. CASE Decide(r, "ErrChallengeNotFound")
    BY <2>1, OtherDecision DEF Verdict, StoreError
  <2>2. CASE ~ Decide(r, "ErrChallengeNotFound")
    BY <1>6, <2>2 DEF LookupChallenge, Final, Responds, store
  <2> QED BY <2>1, <2>2
<1>7. CASE CheckExpiry(r)
  <2>1. pc[r] = "expiry" /\ Final(r) /\ now' = now /\ challenges' = challenges
    BY <1>7 DEF CheckExpiry, DInv, store
  <2>2. CASE now > deadline[r] /\ Decide(r, "ErrChallengeExpired")
    BY <2>1, <2>2 DEF Decide, Final, Responds
  <2>3. CASE Goto(r, "record")
    BY <2>1, <2>3 DEF Goto, Final, Responds
  <2> QED BY <1>7, <2>2, <2>3 DEF CheckExpiry
<1>8. CASE Record(r)
  BY <1>8, RecordFinal DEF DInv
<1> QED
  BY <1>1, <1>2, <1>3, <1>4, <1>5, <1>6, <1>7, <1>8
  DEF RequestStep, Receive, Proceed, Fail

\* Sending the success of r.
LEMMA SendOnce ==
  ASSUME IInv, DInv, NEW r \in Request, Respond(r)
  PROVE  /\ SentOnce'
         /\ \A n \in Nullifier :
              \/ sent'[n] = sent[n]
              \/ Responds(r, "accepted") /\ n = sub[r].nullifier
<1>1. UNCHANGED verifications
  BY DEF Respond, store
<1>2. CASE verdict[r] # "accepted"
  <2>1. sent' = sent
    BY <1>2 DEF Respond
  <2>2. SentOnce
    BY DEF DInv
  <2>3. SentOnce'
    BY <1>1, <2>1, <2>2 DEF SentOnce, Recorded
  <2> QED BY <2>1, <2>3
<1>3. CASE verdict[r] = "accepted"
  <2> DEFINE n == sub[r].nullifier
  <2>1. n \in Nullifier /\ Responds(r, "accepted")
    BY <1>3, ProofFields DEF IInv, AtRequest, Respond, Responds
  <2>2. Recorded(n) /\ sent[n] = 0
    BY <2>1 DEF DInv, Final
  <2>3. sent'[n] = 1 /\ \A m \in Nullifier : m # n => sent'[m] = sent[m]
    BY <1>3, <2>1, <2>2 DEF Respond, IInv, RestOK
  <2> HIDE DEF n
  <2>4. SentOnce
    BY DEF DInv
  <2>5. SentOnce'
    BY <1>1, <2>2, <2>3, <2>4 DEF SentOnce, Recorded
  <2> QED
    BY <2>1, <2>3, <2>5 DEF n
<1> QED BY <1>2, <1>3

LEMMA RequestStepDInv ==
  ASSUME ~ DebugToken, IInv, DInv, NEW r \in Request, RequestStep(r)
  PROVE  DInv'
<1>1. TablesGrow /\ now' = now /\ now \in Nat
  BY Growing, NextCases, RequestFrame, PipelineAssumption DEF IInv, RestOK
<1>2. SentOnce'
  <2>1. CASE Respond(r)
    BY <2>1, SendOnce
  <2>2. CASE sent' = sent
    BY <1>1, <2>2 DEF DInv, SentOnce, TablesGrow, Recorded
  <2> QED BY <2>1, <2>2, RequestFrame
<1>3. ASSUME NEW q \in Request, q # r
      PROVE  /\ Final(q)'
             /\ sub'[q] = sub[q]
             /\ Responds(q, "accepted")' = Responds(q, "accepted")
             /\ Responds(q, "accepted") => Recorded(sub[q].nullifier)
  <2>1. /\ pc'[q] = pc[q] /\ sub'[q] = sub[q]
        /\ verdict'[q] = verdict[q] /\ deadline'[q] = deadline[q]
    BY <1>3, RequestFrame
  <2>2. Responds(q, "accepted") => sent'[sub[q].nullifier] = sent[sub[q].nullifier]
    <3>1. SUFFICES ASSUME Responds(q, "accepted")
                   PROVE  sent'[sub[q].nullifier] = sent[sub[q].nullifier]
      OBVIOUS
    <3>2. sub[q].nullifier \in Nullifier
      BY <3>1, ProofFields DEF IInv, AtRequest, Responds
    <3>3. Responds(r, "accepted") => sub[q].nullifier # sub[r].nullifier
      BY <1>3, <3>1 DEF DInv, Distinct
    <3> QED BY <3>2, <3>3, RequestFrame, SendOnce
  <2>3. Final(q)'
    BY <1>1, <2>1, <2>2, FinalKept DEF DInv
  <2> QED BY <2>1, <2>3 DEF Responds, DInv, Final
<1>4. Distinct'
  BY <1>3, ActorFinal DEF DInv, Distinct
<1> QED BY <1>2, <1>3, <1>4, ActorFinal DEF DInv

LEMMA EnvironmentDInv ==
  ASSUME ~ DebugToken, IInv, DInv, Environment
  PROVE  DInv'
<1>1. TablesGrow
  BY Growing, NextCases
<1>2. now \in Nat
  BY PipelineAssumption DEF IInv, RestOK
<1>3. CASE CrashAndRestart
  BY <1>1, <1>3
  DEF CrashAndRestart, DInv, SentOnce, Distinct, Final, Responds, TablesGrow, Recorded
<1>4. CASE ~ CrashAndRestart
  <2>1. UNCHANGED <<pc, sub, verdict, deadline, sent>>
    BY <1>4 DEF Environment, CreateChallenge, CleanDB, RefreshRoots, Tick, flow, history
  <2>2. now' \in Nat /\ now <= now'
    BY <1>2, <1>4 DEF Environment, CreateChallenge, CleanDB, RefreshRoots, Tick
  <2>3. \A r \in Request : Final(r)'
    BY <1>1, <1>2, <2>1, <2>2, FinalKept DEF DInv
  <2> QED
    BY <1>1, <2>1, <2>3 DEF DInv, SentOnce, Distinct, Responds, TablesGrow, Recorded
<1> QED BY <1>3, <1>4

LEMMA DurableInvariance == ~ DebugToken => (Spec => [](IInv /\ DInv))
<1> SUFFICES ASSUME ~ DebugToken
             PROVE  Spec => [](IInv /\ DInv)
  OBVIOUS
<1>1. Init => IInv /\ DInv
  BY InitIInv DEF Init, DInv, SentOnce, Distinct, Final, Responds
<1>2. IInv /\ DInv /\ [Next]_vars => (IInv /\ DInv)'
  <2> SUFFICES ASSUME IInv, DInv, [Next]_vars
               PROVE  DInv'
    BY NextIInv
  <2>1. CASE UNCHANGED vars
    BY <2>1 DEF vars, DInv, SentOnce, Distinct, Final, Responds, Recorded
  <2> QED BY <2>1, NextCases, RequestStepDInv, EnvironmentDInv
<1> QED BY <1>1, <1>2, PTL DEF Spec

\* Retries, duplicates, races and crashes lead to at most one success per card,
\* and only after the commit, as long as the debug wipe is not configured.
THEOREM OneSuccessPerCard == ~ DebugToken => (Spec => []AcceptedAtMostOnce)
<1>1. IInv /\ DInv => AcceptedAtMostOnce
  BY DEF DInv, SentOnce, Final, Responds, AcceptedAtMostOnce
<1> QED BY <1>1, DurableInvariance, PTL

\* A refusal of an expired, consumed or duplicate proof is still true when it
\* is sent, as long as the debug wipe is not configured.
THEOREM RefusalsStayTrue == ~ DebugToken => (Spec => []RefusalsAreFinal)
<1>1. IInv /\ DInv => RefusalsAreFinal
  BY DEF DInv, Final, Responds, RefusalsAreFinal, ChallengeExpired, IsExpired
<1> QED BY <1>1, DurableInvariance, PTL
=============================================================================
