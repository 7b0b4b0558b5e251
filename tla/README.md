# TLA+ specification of go-zkid-verifier

Paths without a prefix are relative to the root of the repository; file names in
`*.tla` and `*.cfg` are in this directory. `PROJECT.json` maps every definition that
models code to the lines it stands for, lists the runs, the hazards and the theorems,
and names for each checked property a mutant of the code that breaks it.

## 1. Inventory of the system

go-zkid-verifier is a server that issues *challenges* and accepts *zero-knowledge proof
pairs* about Taiwanese citizen cards. A card shows up as a *nullifier*; the server must
accept each nullifier once, under a challenge it issued, before that challenge expires,
and against current trust anchors.

| Component | State it keeps | Operations | What makes it correct |
|---|---|---|---|
| Store (`store/`) | SQLite tables `challenges`, `verifications`; a pool of exactly one connection | CreateChallenge, GetChallenge, VerifyAndRecord, CleanDB, open/close | record and consume are atomic; a nullifier and a challenge are used once; the connection always comes back; nothing is forgotten by a crash |
| Link-verify service (`linkverify/`) | the semaphore `verifySem`; per request its temp directory and verdict | `Service.VerifyAndRecord` → `Verifier.Verify` → `Verify` (FFI) → anchors → look-up → record | only admissible proofs are recorded, in time, once; refusals are true; slots and directories come back |
| Revocation roots (`smtroot/`) | trusted root per issuer, source, failure count | FetchNow (contract, then GitHub release), Start/Stop/loop, Trusted, Meta, Status | fail-closed start, stale-on-error, no partial answer installed, recovery |
| Issuer certificates (`issuercert/`) | certificate record per issuer, `updatedAt`, failure count | NewProvider (embedded), FetchNow → fetchOne per issuer, loop, Trusted | only pinned, valid certificates; fetch never blocks |
| FFI binding (`verifier/`, `rust/`) | thread-local result and error slots | `LinkVerify`, parsing of public inputs | signals read are those of the caller's own verification; encodings agree with the circuit |
| Transports (`httpapi/`, `grpc/`) | none | POST/GET challenge, link-verify, status, debug wipe | each outcome has the documented code |
| Key manager (`keymanager/`) | files in `KEYS_DIR` | EnsureKeys | a key that is installed has the pinned hash, also with several processes and crashes |
| Start-up (`cmd/server`) | wiring | keys → store → roots → certificates → loops → listeners | refuses to serve without roots |

Interaction: handler goroutines of both transports call the one `Service`; it reads the two
anchor caches (written by their refresh loops under an `RWMutex`) and calls the store, whose
single connection serialises all goroutines. Nothing but the database survives a restart.

Hard behaviour: goroutines interleave between the service's unlocked look-ups and the store's
transaction; the clock moves between the two expiry checks; anchors are refreshed between the
check and the record; a statement fails or the process dies between two statements; a response
is lost after the commit and the client retries; one of two parallel fetches fails; sources
disagree; the semaphore and the connection are bounded resources that every path must give back.
The `hazards` list of `PROJECT.json` has them line by line.

## 2. Modules

| Module | Models | Kind |
|---|---|---|
| `StoreTables` | rows, time as stored, the checks of VerifyAndRecord | operators shared by `SQLiteStore`, `LinkVerify` and `Transports` |
| `AtomicStore` | what a caller of `store.Store` relies on: each method takes effect at one moment | abstract specification |
| `Ledger` | what `store.Store` promises: issue, accept, wipe | abstract specification |
| `SQLiteStore` | `store/sqlite.go`, statement by statement | specification; implements `AtomicStore` and `Ledger` |
| `LinkVerify` | `linkverify/`, with the handlers of `httpapi/` and `grpc/`, around atomic store operations | specification; implements `Ledger` |
| `Transports` | both APIs as clients see them: codes, lost replies, repeated calls, others between a commit and its answer | specification |
| `SmtRoot` | `smtroot/` and its start-up in `cmd/server` | specification |
| `IssuerCert` | `issuercert/` and its start-up in `cmd/server` | specification |
| `KeyManager` | `keymanager/`, several processes on one directory | specification |
| `Encodings` | `verifier/public_inputs.go`, `issuercert/limbs.go`, `smtroot.ParseRoot`, `field_to_hex` | operators, checked against positional notation |
| `FFIBinding` | `verifier/verifier.go` and `rust/src/lib.rs` on OS threads, then `Encodings` | specification |
| `SQLiteStoreProofs`, `LinkVerifyProofs`, `SmtRootProofs`, `IssuerCertProofs`, `KeyManagerProofs`, `EncodingsProofs`, `FFIBindingProofs`, `TransportsProofs` | – | theorems about the module they are named after |
| `MC*` | values for TLC | instances |

How they fit together: `LinkVerify` uses the store through its atomic operations, which
`CallsAreAtomic` of `SQLiteStore` justifies, an FFI verdict per proof, which
`OwnResult` of `FFIBinding` justifies, values that compare equal when they are, which
`AnchorsByValue` justifies, and a constant modulus per issuer, which `CacheIsPinned` of `IssuerCert`
justifies; its root cache may change at any time to any roots, which is more than `SmtRoot` does.
`Transports` takes the service as one step, and the handler's answer as a later one.

**SQLiteStore.** A caller is a goroutine inside a store method, `pc` its next statement.
`challenges`/`verifications` are the committed tables, `txChallenges`/`txVerifications` the tables as the
connection sees them, `conn` the holder of the connection (`SetMaxOpenConns(1)`). An early return of a
transaction is one action with its deferred `Rollback`. A statement may fail at any moment (driver error or
cancelled request context); `Crash` loses calls and the open transaction, `NewSQLiteStore` reopens the
file (its migrations leave rows alone). `StoredTime` is what
`Format(time.RFC3339)`/`parseTime` do to a timestamp: they drop the fraction of a second. A challenge
value that `rand.Read` draws twice hits the primary key and is an error. An error of Commit is taken to mean that
nothing was committed.

**AtomicStore.** The four methods of `store.Store` without statements and connections. VerifyAndRecord has two steps, `Check` (existence, expiry and
consumption of the challenge, at the clock of that moment) and `Record` (the duplicate, or the two rows); between them the clock may
go on, callers may call, fail or crash, but no other method takes effect (`Exclusive`). A record may therefore be committed a moment
after the deadline it was checked against. As nobody can read the tables in between, that moment cannot be told from the one of the check, which is why
`LinkVerify` and `Transports` take the method as one step at the check.

**LinkVerify.** A request is a handler goroutine; `pc` walks through
`Verify` (slot, staging, FFI, deferred RemoveAll, deferred slot), `Verifier.Verify` (anchors) and
`Service.VerifyAndRecord` (look-up, expiry, record). A proof is a record of its public inputs
and of what the FFI says about it (`ffi`): verified, rejected (pk_commit linkage fails),
error (the circuit verifier panicked, files missing), unparsable (ParsePublicInputs or a signal's
conversion fails). `RefreshRoots` installs any roots in one step, as `setRoots` does under its
lock. `CheckChallenge` compares the proof's challenge with the key under which its row was just found, so
it always matches; it is part of the look-up. `ErrIssuerCertUnavailable` cannot occur, since the provider
starts from embedded certificates. `sent`, `fresh`, `late` are history variables that only properties read.

**Transports.** A session is a client with at most one call in flight, on either transport. `VerifyAndRecord` is the service up to
its return (the commit, or a refusal), `Respond` the handler's answer; `CreateChallenge` and `Announce` likewise. Between the two
any other session may act, the clock may go on and the database may be wiped, as in the code, where nothing is held from
`service.go:86` to the response. The reply is in `reply` for one step; since the session may call again whatever it was, a
lost reply and a retry are covered. GET /challenge reads the row in one step and the clock in another. The code tables
(`HTTPReply`, `GRPCReply`) are those of `httpapi/errors.go`, `httpapi/linkverify.go` and `grpc/server.go`. The challenge field
of the gRPC request is required and then ignored: the challenge of a submission is the proof's.
`issued` is the exact ExpiresAt of each challenge, and its domain of drawn values. History: `announced` (every expires_at that was
sent, exactly as sent: POST /challenge sends the fraction of a second that the store drops, the other three whole seconds, `whole`),
`refused` (proofs refused for good) and `voided` (sessions whose answer was decided before a wipe). `AnswersAreTrue` requires an answer
to be true when it is sent, not when it was decided, except in a session of `voided`: a client may be told "persisted" over a table
that has just been emptied. `ExpiredAfterPromise` takes whole seconds at their word, and of a deadline with a fraction its whole seconds;
that the fraction is not kept is the disagreement of `store_ttl`.

**SmtRoot.** A root is the number of its publication on the contract, 0 the zero word of an unknown
issuer. `OnchainAnswer` is one issuer's `eth_call`, `GitHubFetchAll` the fallback, `InstallRoots` and
`RecordFailure` the two halves of `setRoots` with the return of `FetchNow`. `phase` follows
`cmd/server`: a failed startup fetch ends the process. A stop signal may come at any time; a
cancelled context makes pending calls fail.

**IssuerCert.** One goroutine per issuer and fetch: download and validate, `setCert`, `recordAttempt`
(two critical sections), and the send on the buffered error channel, which is drained after
`wg.Wait`. Bytes are named after the issuer that pins them, so that a URL can serve the other issuer's
certificate. The fingerprint fixes the bytes; of the remaining checks only the validity period
can change its mind. A process restart reloads the embedded copies or refuses.

**KeyManager.** `dest` is the file under each key's name, `tmp` the temp file of a goroutine; a content is
pinned, other or none. Each file operation of `ensureOne`/`downloadAndDecompress` is a step: stat, hash,
remove, GET, create, write, hash and compare, rename; every one may fail where the code has an error
return. `os.CreateTemp` gives each download its own name (`TempName`). A process joins the errors of its
goroutines, and `cmd/server` starts even when there are some (`warned`). A crash stops a process between two
file operations; the temp file it leaves has a name nobody opens again and is left out. The directory may
be read-only, and the initial files are arbitrary: other versions, or files put there by hand.

**Encodings.** A text is hexadecimal digits or the canonical decimal text of a number, one digit per
byte; the sizes of the code (256, 32, 31, 2^121, 17 and 34 limbs) are parameters, so that TLC can go
through every value. `NormalizeDecimal`, `PackAppIDLE`, `UnpackAppID`, `ModulusToLimbs`, `LimbsEqual`,
`normHex`, `ParseRoot` and `ParsePublicInputs` are translated as they are, including the byte orders they mix:
`field_to_hex` reverses the little-endian representation, `UnpackAppID` reverses it back. Powers, digits and sums
of digits are recursive functions, because no prover knows the laws of `^` and none accepts a RECURSIVE operator.
`math/big` is external: `SetBytes` is Horner's rule, `Bytes` the digits without leading zeros.

**FFIBinding.** A goroutine runs on a thread (`running`), the scheduler may move it between any two steps,
and `wired` is `LockOSThread`. The thread-locals `lastSignals`, `lastError` belong to threads, and `ptr` points
into one of them until the copy is made. An artifact is what a request staged: the certificate type, the
signals of its two proofs, and whether `verify_circuit` panics on them.

## 3. Runs

| Run | Shows | Bounds |
|---|---|---|
| `store` | types, atomicity, one verification per challenge, durability, refinement of `AtomicStore` and `Ledger`; every call returns | 2 callers, 2 challenges, 2 nullifiers, 1 proof type, clock 0..1, TTL 0 |
| `store_ttl` (violation) | a challenge is refused before its announced deadline | 1 caller, 3 ticks per second |
| `pipeline` | slots, one success per card, true refusals, recorded in time, refinement of `Ledger`; every request is answered | 2 requests, 1 slot, 3 proofs competing for a card and for a challenge, clock 0..2, TTL 1 |
| `anchors` | only admissible proofs are recorded; the reason is that of the first failing check | 1 request, 9 proofs (one per way to fail, one that fails twice), 2 roots refreshed at will, wipes, an initially empty cache |
| `early_reject` (violation) | see section 6 | 1 request |
| `transports` | answers are true when they are sent, on both transports, unless a wipe came in between; they agree on what is final; no challenge expires before its announced deadline | 2 sessions, 2 challenges, 2 nullifiers, TTL 1, 2 ticks per second, clock 0..1, wipes; symmetry (no liveness is checked) and a view that leaves out `reply`, which no action reads |
| `smt_root` | never serves without roots, fresh answers, regress only by fallback; recovery, stop | 2 issuers, roots published up to number 2, failures counted to 1 |
| `smt_root_zero` (violation) | see section 6 | |
| `issuer_cert` | pinned, validated certificates; timestamps; fetches return, sites that work are used | 2 issuers, clock 0..3, one certificate not yet valid at 0, one expiring at 2 |
| `issuer_cert_drift` (violation) | see section 6 | |
| `key_manager` | only pinned keys are installed and served, no error means present; start-up returns | 2 processes, 2 keys, arbitrary initial files, crashes, a release that comes and goes |
| `ffi_binding` | each call gets its own verdict, signals or error; parsing and comparison are by value | 2 goroutines, 2 threads, 8 artifacts; bytes 0..1, 3 bytes per element, app_id of 2, limbs 0..3, 1 and 2 limbs; symmetry |

Why small is enough: the store's conflicts are between two callers over one challenge or
one nullifier (the theorems of section 5 lift the bound anyway); TTL and clock let a deadline pass
before, at and after every step; a pipeline conflict involves two requests, and two requests for one
slot make a queue; the anchors are read per request without reference to other requests, so one request
with every kind of proof is enough there; two issuers are all there are, and two publications distinguish
an older, the current and a newer root. Thread-locals are lost to one other goroutine on one other thread;
a key directory is raced by one other process, and a second key makes the joined errors a real list. In `transports` a challenge created
at 0 is announced until 1 and stored until 0, so that the clock 0..1 has the dropped fraction, the deadline instant and the expiry;
longer clocks are left to the theorems. The view of that run is sound: no action reads `reply`, TLC evaluates
the action properties, which do, on every step, and of the invariant only the type of `reply` is left to the theorem.
In `Encodings` a byte of two values and elements of three bytes are the least for which the byte orders, leading
and trailing zeros, an app_id shorter than its element and a limb out of range all differ; no artifact is
its own reversal where the order matters. Counters that only grow are capped by `MaxTime`,
`MaxFail`, `MaxVersion`; no property depends on the cap except that zero differs from more.

No run turns deadlock checking off.

Properties worth reading first: `CallsAreAtomic` (statements of several callers, errors and crashes), `ConsumedIffRecorded` and `OneVerificationPerChallenge` (the schema does
not enforce the latter), `AcceptedAtMostOnce` and `RefusalsAreFinal` (retries and lost responses),
`FinalIsFinal` (a client that may give up, or must ask again, by the code alone), `AnswersAreTrue` (others act between a decision and its
answer),
`RecordedInTime` (two expiry checks, one moving clock), `RecordsAreAdmissible` (three checks sharing
one verdict, over a cache that changes), `OwnResult` (thread-locals and a moving goroutine), `AnchorsByValue`
(an app_id, a modulus and a root are equal as texts exactly when they are equal), `SuccessMeansPresent` (two processes
that remove and install the same file), `RegressOnlyByFallback`, `UpdatedCoversCerts`, `FetchReturns`.
`AcceptedAtMostOnce` counts successes since the last debug wipe, which forgets cards by design.

## 4. Fairness

- Store: weak fairness of the statements of a transaction (a goroutine with the connection runs), strong
  fairness of taking the connection (database/sql hands a freed connection to a waiting request). Failures and
  crashes are never forced.
- Pipeline: weak fairness of a goroutine's own steps, which includes that the FFI call returns; strong fairness of
  taking a slot, because senders blocked on a channel are served first in, first out. The code has no timeout
  on the FFI call: a call that hangs keeps its slot, which this assumption excludes.
- Caches: fetches end because every attempt has a timeout; the ticker keeps ticking; for `StopEndsLoop` strong
  fairness of the exit, because `select` picks at random among ready cases. Nothing is assumed of the contract,
  the release, the RPC endpoint or the certificate sites, except in the hypothesis of the two recovery properties.
- Keys: weak fairness of each goroutine's next file operation; the HTTP client's timeout bounds a download, so a
  release that does not answer is a step that fails. Nothing is assumed of the release, of crashes or restarts.
- `Transports` and `FFIBinding` state safety only.

## 5. Proofs

The theorems hold for every value of the constants that satisfies the named assumptions (`StoreAssumption`,
`CallerAssumption`, `PipelineAssumption`, `SmtRootAssumption`, `IssuerCertAssumption`, `EncodingAssumption`,
`BindingAssumption`, `TransportAssumption`), which TLC evaluates on the instances. `Invariance` of a proof module says that a
strengthening `IInv` is inductive, and the others follow from it; `EncodingsProofs` has no state and
proves facts about operators.

| Module | Theorem | Statement |
|---|---|---|
| `SQLiteStoreProofs` | `TypeCorrect` | `TypeOK` |
| | `RecordIsAtomic` | `ConsumedIffRecorded` |
| | `ChallengeSpentOnce` | `OneVerificationPerChallenge` |
| | `NoConnectionLeak` | `ConnectionHeldByTx`: whoever holds the connection is in a transaction |
| | `RecordsAreKept` | `OnlyCleanForgets` |
| | `StoreImplementsLedger` | `ImplementsLedger` |
| | `MethodsAreAtomic` | `CallsAreAtomic` |
| `LinkVerifyProofs` | `TypeCorrect` | `TypeOK` |
| | `DirectoriesBounded` | `StagingBounded` |
| | `NothingLate` | `RecordedInTime` |
| | `OnlyAdmissibleRecorded` | `RecordsAreAdmissible` |
| | `FirstFailureNamed` | `ReasonIsFirstFailure` |
| | `PipelineImplementsLedger` | `ImplementsLedger` |
| | `OneSuccessPerCard` | `AcceptedAtMostOnce`, if `~ DebugToken` |
| | `RefusalsStayTrue` | `RefusalsAreFinal`, if `~ DebugToken` |
| `SmtRootProofs` | `TypeCorrect` | `TypeOK` |
| | `NeverWithoutRoots` | `ServingHasRoots` |
| | `AnswersAreFresh` | `InstalledRootsFresh` |
| | `OnlyFallbackRegresses` | `RegressOnlyByFallback` |
| `IssuerCertProofs` | `TypeCorrect` | `TypeOK` |
| | `OnlyPinnedTrusted` | `CacheIsPinned` |
| | `UpdateTimeIsTrue` | `UpdatedCoversCerts` |
| `KeyManagerProofs` | `TypeCorrect` | `TypeOK` |
| | `OnlyPinnedServed` | `ServesPinnedKeys` |
| | `NilMeansPresent` | `SuccessMeansPresent` |
| | `RenamesArePinned` | `InstalledIsPinned` |
| `FFIBindingProofs` | `TypeCorrect` | `TypeOK` |
| | `ResultsNotMixed` | `OwnResult` |
| | `InputsHaveTheirValues` | `InputsByValue` |
| | `AnchorsComparedByValue` | `AnchorsByValue` |
| `EncodingsProofs` | `TextsByValue` | a text of `field_to_hex` is read as the value of its element |
| | `RootsByValue` | equal roots are equal numbers |
| | `AppIDsByValue` | `UnpackAppID` fails exactly for what does not fit, and is `PackAppIDLE` undone |
| | `AppIDRoundTrip` | `UnpackAppID(PackAppIDLE(bytes)) = bytes` |
| | `LimbsByValue` | `LimbsEqual` accepts exactly the representation of the modulus in base `LimbBase` |
| `TransportsProofs` | `TypeCorrect` | `TypeOK` |
| | `CodesAreTrue` | `AnswersAreTrue` |
| | `FinalStaysFinal` | `FinalIsFinal` |
| | `PromisesKept` | `ExpiredAfterPromise` |

**Store.** `ConsumedIffRecorded` is not inductive: a commit installs the connection's view, so one must know what
that view is at each statement. `IInv` adds `ViewAt(g)`, which gives the view in terms of the committed tables
for each value of `pc[g]` (for example before the commit of VerifyAndRecord: the committed tables plus
one verification of a fresh nullifier and the consumption of a challenge that is open in the committed table), and `PoolView`,
that an idle connection sees the committed tables. It can be stated with equalities because
`ConnectionHeldByTx`, also part of `IInv`, excludes a second writer. For the refinement, `TableSteps`
shows that only the INSERT and the two commits write the committed tables, and each of these is `Issue`,
`Accept` or `Wipe`; that `Accept` is allowed uses `Open` and `ConsumedIffRecorded`. For the refinement of `AtomicStore`, `CallAt`
maps a statement to the call it belongs to; the other statements are invisible (`Invisible`), `ViewAt` says that the connection
reads the committed tables at the two reads of VerifyAndRecord, and `ConnectionHeldByTx` that nobody else is past its checks (`OthersUnchecked`).

**Pipeline.** `AtRequest(r)` says what is known of a request at each step: that it holds a slot exactly from the
semaphore to its release, what the FFI said, which anchors its proof has passed, and that a root that was trusted stays
noted in `fresh`. A step of one request leaves the others' facts alone (`OthersKeep`), so each action needs a proof for its
own request only. `TablesAgree` bounds the stored deadlines by the announced ones and ties a record to the consumption of
its challenge. `TableSteps` reduces the effect of a step on the tables to nothing, an issue, an acceptance or a wipe,
from which the three properties of recording and the refinement follow. `ReasonIsFirstFailure` is inductive next to `IInv`: only
`CheckAnchors` gives such a reason (`ReasonFound`), and a root that it found trusted is noted in `fresh`. The two theorems without the wipe need a second
invariant, `DInv`: rows stay (`TablesGrow`), so a decision stays true until it is sent (`Final`), and no two requests are
about to report the same nullifier (`Distinct`) – without it the second report would be one too many.
With the wipe configured neither holds: a success may be on its way while the table is emptied.

**Revocation roots.** `Ordered` puts the cache, the release and the roots at the start of the fetch below the
contract's, and, during a fetch, the cache below the start of the fetch; `Heard` bounds the answers from both sides,
from below only as long as they come from the contract. A root can therefore go back only through the release.

**Issuer certificates.** The cache is as good as the records about to be installed: `InstallIsPinned` says what a
goroutine that waits for the lock holds; `setCert` reads the clock inside the lock, and the record's own time is in
the past. `NoFetchWithoutProcess` and the last conjunct of `TypeOK` keep goroutines of an earlier fetch or process out.

**Keys.** `TempIsHashed` (what is renamed is what was hashed), `WrongIsRemoved` (past the removal no wrong key is
left), `AbsenceIsKnown` (if a key is missing, some process that took part has an error or is not done) and
`ErrorsAreJoined`. The third is what makes `SuccessMeansPresent` hold although a process may remove the key another has
just installed: whoever removes goes on to install or to fail.

**FFI binding.** `ThreadsApart` (a wired goroutine has its thread for itself) and `OwnStep` (the verdict, the
thread-locals, the pointer and the copy are those of the goroutine's artifact, from the call to the return). `ResultMade`
adds that a result is what `VerifyResult` makes of exactly those, so that what the properties say of the parsed inputs
becomes a statement about `ParsePublicInputs`, and the theorems about the encodings apply (`ParsedInputs`, `VerifiedFacts`).

**Encodings.** Everything rests on four facts about positional notation, for every base and length: the sum of the k lowest
digits of n is n mod b^k (`DigitSum`), two lists of digits with the same sum are equal (`DigitsUnique`), Horner's rule from the high end
computes the sum from the low end (`SetBytesValue`), and leading zeros change nothing (`ZeroPaddedFacts`). They need
induction, and the library's induction theorems, which take an operator, cannot be instantiated: `Induction` is the same for a *set* of
numbers, from the well-foundedness of < on Nat, and `Recursion` and `Chosen` say that the function a recursive
definition chooses exists and follows the recursion. A limb of a proof that is LimbBase or more makes `LimbsEqual` fail although
the sum may be right, hence the last conjunct of `LimbsByValue`. The premise n < LimbBase^k is met by the
pinned certificates (2048 and 4096 bits against 17 and 34 limbs of 121 bits); nothing is said of a modulus that does not fit.

**Transports.** `RowsIssued` and `AnnouncedIssued` tie rows and announcements to the one exact deadline of a challenge, `issued`, so that
"over" means the same to the store and to every client. `AtSession` says what a pending call carries: a deadline read or issued, or a
decision. A decision is split by what it survives: `StaysTrue` (the refusal is hopeless, the challenge not found or past its deadline)
survives everything, and `HoldsUntilWipe` (the card or the challenge is on record) everything but a wipe; hence the exception in
`AnswersAreTrue`, and none in `FinalIsFinal` or `ExpiredAfterPromise`. `Hopeless` says why a proof that was refused for good stays
refused: its challenge is gone and no value is drawn twice, or it has expired or is consumed, or the card is registered. `Onward` (time does
not go back, rows of a challenge do not reopen, values are not drawn again) is what every step does, wipes included; `Kept` (rows
stay) is what every step but a wipe does. `SessionStays` derives from the two that a step of one session leaves the others' facts alone.

Only model-checked: all liveness properties, because fairness and ENABLED are beyond the prover. Every invariant and every
action property of the runs that must hold is also a theorem.

## 6. Where code and documentation disagree

Each is a run that TLC must find violated; details and quotes are in `PROJECT.json`.

1. `store_ttl`: the stored deadline is up to a second before the announced one.
2. `early_reject`: "early-rejects expired challenges to skip the FFI" – the FFI runs first.
3. `smt_root_zero`: the zero word of an unknown issuer is cached as a root.
4. `issuer_cert_drift`: drift of one issuer is erased from the shared failure count by the other's success.

Seen while modelling, without a run of their own:

- The root a proof is checked against may be superseded before the proof is recorded; `RecordsAreAdmissible` states what
  does hold: it was trusted at some moment since the request came.
- A rejected proof is answered with HTTP 200 and a reason (`proof_invalid`), unlike the anchor mismatches (409).
- GET /challenge answers 200 for a consumed challenge: it checks the expiry only.
- `verifier/verifier.go:23` calls the signals little-endian hex; `field_to_hex` reverses them to big-endian, and the
  parsing relies on that (`InputsByValue`).
- On a read-only `KEYS_DIR` a key of another hash stays in place and is used after a warning; hence the hypothesis
  `writable` of `ServesPinnedKeys`. `scripts/download_keys.sh` puts keys in place unchecked.

## 7. Not modelled

- The circuits and their verifier (external), X.509 parsing and signatures, SHA-256, JSON and protobuf.
- Row timestamps `issued_at`, `verified_at`, the `id_proof` column, per-source attempt statistics, latencies, logs.
- The status endpoints (they read two snapshots; the source and the root of a status may be from different refreshes, and no property is claimed of them),
  CORS and logging middleware, environment parsing, the listeners and their shutdown.
- Generated protobuf code, the logging interface, build and download scripts. `cmd/verifier` is one sequential call;
  only its exit status is modelled.
- Temp directories and temp files that a crash leaves on disk: no start-up step removes them, and no code reads them again.

## 8. Plan

1. `LinkVerify` over the caches themselves (`SmtRoot`, `IssuerCert`) instead of free refreshes, with the status endpoints as readers.
2. `LinkVerify` over the statements of `SQLiteStore`, as one refinement instead of two.
3. The order of start-up and shutdown in `cmd/server` as one module: keys, store, roots, certificates, loops, listeners.
