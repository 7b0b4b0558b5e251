----------------------------- MODULE LinkVerify -----------------------------
(***************************************************************************)
(* The link-verify pipeline: the handler goroutines of HTTP and gRPC       *)
(* (Request) run linkverify.Service.VerifyAndRecord side by side.  A       *)
(* request waits for one of the verification slots (verifySem), stages its *)
(* proofs in a temp directory, calls the FFI verifier, gives the slot back,*)
(* compares the public inputs with the trust anchors, looks its challenge  *)
(* up and records.  Meanwhile challenges are issued, the revocation root   *)
(* is refreshed, the clock advances, and the process may crash.            *)
(*                                                                         *)
(* The store is used through its atomic operations, at the moment they     *)
(* read the clock; SQLiteStore shows that its statements implement them    *)
(* (CallsAreAtomic).  The FFI verifier (rust/, zkID circuits) is the field *)
(* ffi of a proof: what zk_link_verify says about it.                      *)
(***************************************************************************)
EXTENDS StoreTables, FiniteSets

CONSTANTS
  Request,        \* handler goroutines
  Proof,          \* proof pairs a client can submit, with their public inputs
  NoProof,        \* the goroutine has no request
  Malformed,      \* a body the handler refuses to decode or to accept
  Root, NoRoot,   \* SMT roots; NoRoot: nothing cached for an issuer
  Modulus,        \* RSA moduli
  PinnedModulus,  \* for each issuer, the modulus of its pinned certificate
  AppID, ExpectedAppID,
  Enforced,       \* the checks that are configured (non-nil, non-empty)
  DebugToken,     \* whether POST /debug/db/clean is registered
  InitialRoots,   \* what the SMT cache may hold when the handlers start
  MaxConcurrent,  \* capacity of verifySem
  MaxTime         \* bound of the clock

Issuer == {"g2", "g3"}

FFIResult == {"verified", "rejected", "unparsable", "error"}

ProofRecord ==
  [ffi : FFIResult, proof_type : ProofKey, smt_root : Root, modulus : Modulus,
   app_id : AppID, nullifier : Nullifier, challenge : Challenge]

ASSUME PipelineAssumption ==
  /\ Proof \subseteq ProofRecord
  /\ NoProof \notin Proof /\ Malformed \notin Proof /\ NoProof # Malformed
  /\ NoRoot \notin Root
  /\ PinnedModulus \in [Issuer -> Modulus]
  /\ Enforced \subseteq {"smt_root", "issuer_modulus", "app_id"}
  /\ DebugToken \in BOOLEAN
  /\ InitialRoots \subseteq [Issuer -> Root \cup {NoRoot}]
  /\ InitialRoots # {}
  /\ MaxConcurrent \in Nat \ {0}
  /\ MaxTime \in Nat

VARIABLES
  challenges, verifications,   \* the committed tables
  announced,   \* ExpiresAt as the client of /challenge got it
  trusted,     \* the SMT root cache
  now,         \* time.Now()
  pc, sub,     \* next step of each request and the proof it submitted
  verdict,     \* what the pipeline decided about the request
  deadline,    \* c.ExpiresAt as LookupChallenge read it
  slots,       \* requests that hold a slot of verifySem
  tmp,         \* requests whose temp directory exists
  sent,        \* history: success responses per nullifier since a wipe
  fresh,       \* history: the proof's root was trusted since the request came
  late         \* history: the challenge had expired when the request came

store == <<challenges, verifications, announced>>
flow == <<pc, sub, verdict, deadline>>
history == <<sent, fresh, late>>
vars == <<challenges, verifications, announced, trusted, now, pc, sub,
          verdict, deadline, slots, tmp, sent, fresh, late>>

PC == {"idle", "acquire", "stage", "ffi", "removeTemp", "release", "anchors",
       "lookup", "expiry", "record", "respond"}

Mismatch == {"smt_root_mismatch", "issuer_modulus_mismatch", "app_id_mismatch"}

StoreError == {"ErrChallengeNotFound", "ErrChallengeExpired",
               "ErrChallengeConsumed", "ErrDuplicateNullifier"}

Verdict == {"none", "bad_request", "proof_invalid", "ErrSmtRootUnavailable",
            "error", "accepted"} \cup Mismatch \cup StoreError

\* RS2048 proofs are checked against MOICA-G2, RS4096 against MOICA-G3.
issuerForProofType(pt) == IF pt = "link_rs4096" THEN "g3" ELSE "g2"

TypeOK ==
  /\ challenges \in [Challenge -> ChallengeRow \cup {NoRow}]
  /\ verifications \in [Nullifier -> VerificationRow \cup {NoRow}]
  /\ announced \in [Challenge -> Nat]
  /\ trusted \in [Issuer -> Root \cup {NoRoot}]
  /\ now \in 0..MaxTime
  /\ pc \in [Request -> PC]
  /\ sub \in [Request -> Proof \cup {NoProof, Malformed}]
  /\ verdict \in [Request -> Verdict \cup FFIResult]
  /\ deadline \in [Request -> Nat]
  /\ slots \subseteq Request /\ tmp \subseteq Request
  /\ sent \in [Nullifier -> Nat]
  /\ fresh \in [Request -> BOOLEAN]
  /\ late \in [Request -> BOOLEAN]
  /\ \A r \in Request :
       /\ pc[r] = "idle" <=> sub[r] = NoProof
       /\ pc[r] \notin {"idle", "respond"} => sub[r] \in Proof
       /\ pc[r] = "respond" => verdict[r] \in Verdict \ {"none"}

Init ==
  /\ challenges = EmptyChallenges
  /\ verifications = EmptyVerifications
  /\ announced = [c \in Challenge |-> 0]
  /\ trusted \in InitialRoots
  /\ now = 0
  /\ pc = [r \in Request |-> "idle"]
  /\ sub = [r \in Request |-> NoProof]
  /\ verdict = [r \in Request |-> "none"]
  /\ deadline = [r \in Request |-> 0]
  /\ slots = {} /\ tmp = {}
  /\ sent = [n \in Nullifier |-> 0]
  /\ fresh = [r \in Request |-> FALSE]
  /\ late = [r \in Request |-> FALSE]
-----------------------------------------------------------------------------
(***************************************************************************)
(* Control of a request.                                                   *)
(***************************************************************************)
Goto(r, label) ==
  /\ pc' = [pc EXCEPT ![r] = label]
  /\ UNCHANGED <<sub, verdict, deadline>>

Decide(r, v) ==
  /\ pc' = [pc EXCEPT ![r] = "respond"]
  /\ verdict' = [verdict EXCEPT ![r] = v]
  /\ UNCHANGED <<sub, deadline>>

RootIsTrusted(p, roots) == roots[issuerForProofType(p.proof_type)] = p.smt_root

ChallengeExpired(p) ==
  challenges[p.challenge] # NoRow /\ IsExpired(challenges[p.challenge], now)

(***************************************************************************)
(* linkVerify / LinkVerify decode the request; a malformed body, a missing *)
(* proof or an unknown cert_chain_type is refused before anything else.    *)
(***************************************************************************)
ReceiveRequest(r, p) ==
  /\ pc[r] = "idle"
  /\ pc' = [pc EXCEPT ![r] = "acquire"]
  /\ sub' = [sub EXCEPT ![r] = p]
  /\ fresh' = [fresh EXCEPT ![r] = RootIsTrusted(p, trusted)]
  /\ late' = [late EXCEPT ![r] = ChallengeExpired(p)]
  /\ UNCHANGED <<store, trusted, now, verdict, deadline, slots, tmp, sent>>

RefuseRequest(r) ==
  /\ pc[r] = "idle"
  /\ pc' = [pc EXCEPT ![r] = "respond"]
  /\ sub' = [sub EXCEPT ![r] = Malformed]
  /\ verdict' = [verdict EXCEPT ![r] = "bad_request"]
  /\ UNCHANGED <<store, trusted, now, deadline, slots, tmp, history>>
-----------------------------------------------------------------------------
(***************************************************************************)
(* linkverify.Verify: everything under the slot.  The deferred calls run   *)
(* in reverse order, so the temp directory goes before the slot.           *)
(***************************************************************************)
AcquireSlot(r) ==
  /\ pc[r] = "acquire"
  /\ Cardinality(slots) < MaxConcurrent
  /\ slots' = slots \cup {r}
  /\ Goto(r, "stage")
  /\ UNCHANGED <<store, trusted, now, tmp, history>>

StageProofs(r) ==
  /\ pc[r] = "stage"
  /\ tmp' = tmp \cup {r}
  /\ Goto(r, "ffi")
  /\ UNCHANGED <<store, trusted, now, slots, history>>

\* MkdirTemp, Mkdir, WriteFile or Symlink failed, with or without leaving
\* the directory behind for the deferred RemoveAll.
StageFails(r) ==
  /\ pc[r] = "stage"
  /\ \/ tmp' = tmp \cup {r} /\ pc' = [pc EXCEPT ![r] = "removeTemp"]
     \/ tmp' = tmp /\ pc' = [pc EXCEPT ![r] = "release"]
  /\ verdict' = [verdict EXCEPT ![r] = "error"]
  /\ UNCHANGED <<store, trusted, now, sub, deadline, slots, history>>

RunFFI(r) ==
  /\ pc[r] = "ffi"
  /\ verdict' = [verdict EXCEPT ![r] = sub[r].ffi]
  /\ pc' = [pc EXCEPT ![r] = "removeTemp"]
  /\ UNCHANGED <<store, trusted, now, sub, deadline, slots, tmp, history>>

RemoveTempDirAfterSlot(r) ==   \* mutant: the slot is given back first
  /\ pc[r] = "removeTemp"
  /\ slots' = slots \ {r}
  /\ Goto(r, "release")
  /\ UNCHANGED <<store, trusted, now, tmp, history>>

RemoveTempDir(r) ==
  /\ pc[r] = "removeTemp"
  /\ tmp' = tmp \ {r}
  /\ Goto(r, "release")
  /\ UNCHANGED <<store, trusted, now, slots, history>>

ReleaseSlotLeaks(r) ==   \* mutant: an error return keeps the slot
  /\ pc[r] = "release"
  /\ \/ verdict[r] = "verified" /\ Goto(r, "anchors") /\ slots' = slots \ {r}
     \/ verdict[r] # "verified" /\ Decide(r, "error") /\ slots' = slots
  /\ UNCHANGED <<store, trusted, now, tmp, history>>

\* The slot is free again; what the FFI said decides how Verify goes on.
ReleaseSlot(r) ==
  /\ pc[r] = "release"
  /\ slots' = slots \ {r}
  /\ \/ verdict[r] = "verified" /\ Goto(r, "anchors")
     \/ verdict[r] = "rejected" /\ Decide(r, "proof_invalid")
     \/ verdict[r] \in {"unparsable", "error"} /\ Decide(r, "error")
  /\ UNCHANGED <<store, trusted, now, tmp, history>>
-----------------------------------------------------------------------------
(***************************************************************************)
(* Verifier.Verify compares the public inputs with the configured trust    *)
(* anchors; the first failing check gives the reason.  The SMT root is     *)
(* read from the cache here and not again.                                 *)
(***************************************************************************)
Passes(p, check) ==
  LET issuer == issuerForProofType(p.proof_type)
  IN  CASE check = "smt_root" -> p.smt_root = trusted[issuer]
        [] check = "issuer_modulus" -> p.modulus = PinnedModulus[issuer]
        [] check = "app_id" -> p.app_id = ExpectedAppID

Mismatches(p) == {check \in Enforced : ~ Passes(p, check)}

FirstMismatchReversed(failing) ==   \* mutant: a later failure replaces the reason
  CASE "app_id" \in failing -> "app_id_mismatch"
    [] "app_id" \notin failing /\ "issuer_modulus" \in failing ->
         "issuer_modulus_mismatch"
    [] OTHER -> "smt_root_mismatch"

FirstMismatch(failing) ==
  CASE "smt_root" \in failing -> "smt_root_mismatch"
    [] "smt_root" \notin failing /\ "issuer_modulus" \in failing ->
         "issuer_modulus_mismatch"
    [] OTHER -> "app_id_mismatch"

SmtRootUnavailable(p) ==
  "smt_root" \in Enforced /\ trusted[issuerForProofType(p.proof_type)] = NoRoot

CheckAnchorsLastWins(r) ==   \* mutant: a later passing check clears a failure
  /\ pc[r] = "anchors"
  /\ \/ /\ SmtRootUnavailable(sub[r])
        /\ Decide(r, "ErrSmtRootUnavailable")
     \/ /\ ~ SmtRootUnavailable(sub[r])
        /\ "app_id" \in Mismatches(sub[r])
        /\ Decide(r, "app_id_mismatch")
     \/ /\ ~ SmtRootUnavailable(sub[r])
        /\ "app_id" \notin Mismatches(sub[r])
        /\ Goto(r, "lookup")
  /\ UNCHANGED <<store, trusted, now, slots, tmp, history>>

CheckAnchors(r) ==
  LET failing == Mismatches(sub[r])
  IN
  /\ pc[r] = "anchors"
  /\ \/ /\ SmtRootUnavailable(sub[r])
        /\ Decide(r, "ErrSmtRootUnavailable")
     \/ /\ ~ SmtRootUnavailable(sub[r])
        /\ failing # {}
        /\ Decide(r, FirstMismatch(failing))
     \/ /\ ~ SmtRootUnavailable(sub[r])
        /\ failing = {}
        /\ Goto(r, "lookup")
  /\ UNCHANGED <<store, trusted, now, slots, tmp, history>>

(***************************************************************************)
(* Service.VerifyAndRecord after a verified proof: look the challenge up,  *)
(* read the clock, record.  CheckChallenge compares the proof's challenge  *)
(* with the key the row was found under, which is that challenge: it       *)
(* always matches.  A store call can fail (driver, or the client left and  *)
(* its request context is cancelled).                                      *)
(***************************************************************************)
LookupChallenge(r) ==
  LET row == challenges[sub[r].challenge]
  IN
  /\ pc[r] = "lookup"
  /\ \/ row = NoRow /\ Decide(r, "ErrChallengeNotFound")
     \/ /\ row # NoRow
        /\ deadline' = [deadline EXCEPT ![r] = row.expires_at]
        /\ pc' = [pc EXCEPT ![r] = "expiry"]
        /\ UNCHANGED <<sub, verdict>>
  /\ UNCHANGED <<store, trusted, now, slots, tmp, history>>

CheckExpiryTooEarly(r) ==   \* mutant: the deadline itself counts as expired
  /\ pc[r] = "expiry"
  /\ \/ now >= deadline[r] /\ Decide(r, "ErrChallengeExpired")
     \/ now < deadline[r] /\ Goto(r, "record")
  /\ UNCHANGED <<store, trusted, now, slots, tmp, history>>

CheckExpiry(r) ==
  /\ pc[r] = "expiry"
  /\ \/ now > deadline[r] /\ Decide(r, "ErrChallengeExpired")
     \/ now <= deadline[r] /\ Goto(r, "record")
  /\ UNCHANGED <<store, trusted, now, slots, tmp, history>>

RecordWithoutConsume(r) ==   \* mutant: the challenge is not marked
  LET p == sub[r]
      v == ChallengeVerdict(challenges, p.challenge, now)
  IN
  /\ pc[r] = "record"
  /\ \/ /\ v # "valid"
        /\ Decide(r, v)
        /\ UNCHANGED verifications
     \/ /\ v = "valid"
        /\ verifications[p.nullifier] # NoRow
        /\ Decide(r, "ErrDuplicateNullifier")
        /\ UNCHANGED verifications
     \/ /\ v = "valid"
        /\ verifications[p.nullifier] = NoRow
        /\ verifications' = WithVerification(verifications, p.nullifier,
                                             p.challenge, p.proof_type)
        /\ Decide(r, "accepted")
  /\ UNCHANGED <<challenges, announced, trusted, now, slots, tmp, history>>

RecordUpsert(r) ==   \* mutant: the nullifier's row is replaced
  LET p == sub[r]
      v == ChallengeVerdict(challenges, p.challenge, now)
  IN
  /\ pc[r] = "record"
  /\ \/ /\ v # "valid"
        /\ Decide(r, v)
        /\ UNCHANGED <<challenges, verifications>>
     \/ /\ v = "valid"
        /\ verifications' = WithVerification(verifications, p.nullifier,
                                             p.challenge, p.proof_type)
        /\ challenges' = WithConsumed(challenges, p.challenge)
        /\ Decide(r, "accepted")
  /\ UNCHANGED <<announced, trusted, now, slots, tmp, history>>

Record(r) ==
  LET p == sub[r]
      v == ChallengeVerdict(challenges, p.challenge, now)
  IN
  /\ pc[r] = "record"
  /\ \/ /\ v # "valid"
        /\ Decide(r, v)
        /\ UNCHANGED <<challenges, verifications>>
     \/ /\ v = "valid"
        /\ verifications[p.nullifier] # NoRow
        /\ Decide(r, "ErrDuplicateNullifier")
        /\ UNCHANGED <<challenges, verifications>>
     \/ /\ v = "valid"
        /\ verifications[p.nullifier] = NoRow
        /\ verifications' = WithVerification(verifications, p.nullifier,
                                             p.challenge, p.proof_type)
        /\ challenges' = WithConsumed(challenges, p.challenge)
        /\ Decide(r, "accepted")
  /\ UNCHANGED <<announced, trusted, now, slots, tmp, history>>

StoreFails(r) ==
  /\ pc[r] \in {"lookup", "record"}
  /\ Decide(r, "error")
  /\ UNCHANGED <<store, trusted, now, slots, tmp, history>>

\* The handler writes the response.  Success responses are counted.
Respond(r) ==
  /\ pc[r] = "respond"
  /\ pc' = [pc EXCEPT ![r] = "idle"]
  /\ sub' = [sub EXCEPT ![r] = NoProof]
  /\ verdict' = [verdict EXCEPT ![r] = "none"]
  /\ deadline' = [deadline EXCEPT ![r] = 0]
  /\ sent' = IF verdict[r] = "accepted"
             THEN [sent EXCEPT ![sub[r].nullifier] = @ + 1]
             ELSE sent
  /\ fresh' = [fresh EXCEPT ![r] = FALSE]
  /\ late' = [late EXCEPT ![r] = FALSE]
  /\ UNCHANGED <<store, trusted, now, slots, tmp>>
-----------------------------------------------------------------------------
(***************************************************************************)
(* The other operations and the environment.                               *)
(***************************************************************************)
CreateChallengeDeadlineBehind(c) ==   \* mutant: TTL has the wrong sign
  /\ challenges[c] = NoRow
  /\ challenges' = [challenges EXCEPT ![c] = NewChallengeRow(now - TTL)]
  /\ announced' = [announced EXCEPT ![c] = now - TTL]
  /\ UNCHANGED <<verifications, trusted, now, flow, slots, tmp, history>>

CreateChallenge(c) ==
  /\ challenges[c] = NoRow
  /\ challenges' = [challenges EXCEPT ![c] = NewChallengeRow(now + TTL)]
  /\ announced' = [announced EXCEPT ![c] = now + TTL]
  /\ UNCHANGED <<verifications, trusted, now, flow, slots, tmp, history>>

CleanDB ==
  /\ DebugToken
  /\ challenges' = EmptyChallenges
  /\ verifications' = EmptyVerifications
  /\ sent' = [n \in Nullifier |-> 0]
  /\ UNCHANGED <<announced, trusted, now, flow, slots, tmp, fresh, late>>

\* smtroot.Provider.setRoots installs the roots of every issuer at once.
RefreshRoots(roots) ==
  /\ trusted' = roots
  /\ fresh' = [r \in Request |->
                 \/ fresh[r]
                 \/ sub[r] \in Proof /\ RootIsTrusted(sub[r], roots)]
  /\ UNCHANGED <<store, now, flow, slots, tmp, sent, late>>

Tick ==
  /\ now < MaxTime
  /\ now' = now + 1
  /\ UNCHANGED <<store, trusted, flow, slots, tmp, history>>

\* A crash loses every request, their slots and the caches.  (The temp
\* directories of that moment stay on disk; tmp counts this process's.)
CrashAndRestart ==
  /\ pc' = [r \in Request |-> "idle"]
  /\ sub' = [r \in Request |-> NoProof]
  /\ verdict' = [r \in Request |-> "none"]
  /\ deadline' = [r \in Request |-> 0]
  /\ slots' = {} /\ tmp' = {}
  /\ trusted' \in InitialRoots
  /\ fresh' = [r \in Request |-> FALSE]
  /\ late' = [r \in Request |-> FALSE]
  /\ UNCHANGED <<store, now, sent>>
-----------------------------------------------------------------------------
Receive(r) == RefuseRequest(r) \/ \E p \in Proof : ReceiveRequest(r, p)

\* The steps a goroutine takes by itself once it has a slot or needs none.
Proceed(r) ==
  \/ StageProofs(r)
  \/ RunFFI(r)
  \/ RemoveTempDir(r)
  \/ ReleaseSlot(r)
  \/ CheckAnchors(r)
  \/ LookupChallenge(r)
  \/ CheckExpiry(r)
  \/ Record(r)
  \/ Respond(r)

Fail(r) == StageFails(r) \/ StoreFails(r)

Next ==
  \/ \E r \in Request : Receive(r) \/ AcquireSlot(r) \/ Proceed(r) \/ Fail(r)
  \/ \E c \in Challenge : CreateChallenge(c)
  \/ CleanDB
  \/ \E roots \in [Issuer -> Root] : RefreshRoots(roots)
  \/ Tick
  \/ CrashAndRestart

Spec == Init /\ [][Next]_vars

(***************************************************************************)
(* Goroutines run, the FFI verifier returns, and a sender blocked on the   *)
(* full verifySem channel is served in its turn (channels are FIFO), which *)
(* strong fairness abstracts.                                              *)
(***************************************************************************)
Fairness == \A r \in Request : SF_vars(AcquireSlot(r)) /\ WF_vars(Proceed(r))

FairSpec == Spec /\ Fairness
-----------------------------------------------------------------------------
(***************************************************************************)
(* Properties.                                                             *)
(***************************************************************************)
Recorded(n) == verifications[n] # NoRow

\* verifySem caps the proofs on disk as well as the verifications: never
\* more than MaxConcurrent temp directories, because a directory is removed
\* before its slot is given back.
StagingBounded ==
  /\ Cardinality(slots) <= MaxConcurrent
  /\ tmp \subseteq slots

\* A new verification row stems from a submitted proof that the FFI accepted,
\* that passes every configured check of the README's list for the issuer of
\* its type, and whose root was trusted at some moment since it arrived.
Admissible(p, n) ==
  /\ p.nullifier = n
  /\ p.ffi = "verified"
  /\ "issuer_modulus" \in Enforced =>
       p.modulus = PinnedModulus[IF p.proof_type = "link_rs4096" THEN "g3" ELSE "g2"]
  /\ "app_id" \in Enforced => p.app_id = ExpectedAppID

RecordsAreAdmissible ==
  [][\A n \in Nullifier :
       ~ Recorded(n) /\ Recorded(n)' =>
         \E r \in Request :
           /\ sub[r] \in Proof
           /\ Admissible(sub[r], n)
           /\ "smt_root" \in Enforced => fresh[r]
           /\ verifications'[n] = [challenge |-> sub[r].challenge,
                                   proof_type |-> sub[r].proof_type]]_vars

\* "Only the first failing check populates reason" (README): a client that is
\* told of the issuer's modulus had a proof that the FFI accepted, with a root
\* that was trusted at some moment since the request came; one told of the
\* app_id had the right modulus besides.  The roots may be refreshed between
\* the arrival, the check and the answer.
ReasonIsFirstFailure ==
  \A r \in Request :
    LET p == sub[r]
        trustedOnce == "smt_root" \in Enforced => fresh[r]
    IN
    pc[r] = "respond" =>
      /\ verdict[r] \in Mismatch => p.ffi = "verified"
      /\ verdict[r] = "issuer_modulus_mismatch" =>
           trustedOnce /\ ~ Passes(p, "issuer_modulus")
      /\ verdict[r] = "app_id_mismatch" =>
           /\ trustedOnce /\ ~ Passes(p, "app_id")
           /\ "issuer_modulus" \in Enforced => Passes(p, "issuer_modulus")

\* The clock moves between the service's expiry check and the store's: what
\* counts is the clock of the transaction that records, never past the
\* announced deadline.
RecordedInTime ==
  [][\A n \in Nullifier :
       ~ Recorded(n) /\ Recorded(n)' =>
         now <= announced[verifications'[n].challenge]]_vars

\* Whatever is retried, duplicated, run concurrently or cut by a crash, a
\* nullifier gets at most one success response, and only once it is on disk.
AcceptedAtMostOnce ==
  /\ \A n \in Nullifier : sent[n] <= 1
  /\ \A n \in Nullifier : sent[n] = 1 => Recorded(n)
  /\ \A r \in Request :
       pc[r] = "respond" /\ verdict[r] = "accepted" =>
         Recorded(sub[r].nullifier) /\ sent[sub[r].nullifier] = 0

\* An expired, consumed or duplicate refusal is true when it is sent, however
\* long ago it was decided, and so no retry of the same proof can succeed.
RefusalsAreFinal ==
  \A r \in Request :
    pc[r] = "respond" =>
      /\ verdict[r] = "ErrChallengeExpired" => ChallengeExpired(sub[r])
      /\ verdict[r] = "ErrChallengeConsumed" =>
           challenges[sub[r].challenge].consumed
      /\ verdict[r] = "ErrDuplicateNullifier" => Recorded(sub[r].nullifier)

\* What the pipeline does to the tables, with all its requests, failures,
\* refreshes and crashes, is what the abstract ledger allows; SQLiteStore shows
\* the same of the statements of the store.
L == INSTANCE Ledger WITH
       NoChallenge <- NoRow,
       issued <- {c \in Challenge : challenges[c] # NoRow},
       spentBy <- [n \in Nullifier |->
                     IF Recorded(n) THEN verifications[n].challenge ELSE NoRow]

ImplementsLedger == L!LedgerSpec

\* Every request gets its response or dies with the process: the pipeline
\* cannot strand a request behind a slot that is never given back.
RequestsAnswered == \A r \in Request : (pc[r] # "idle") ~> (pc[r] = "idle")

\* service.go: "Early-rejects expired challenges to skip the (expensive) FFI
\* verify": a challenge that had expired when the request came is not
\* verified.
ExpiredSkipsFFI == \A r \in Request : pc[r] = "ffi" => ~ late[r]
=============================================================================
