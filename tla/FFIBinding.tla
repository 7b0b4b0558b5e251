----------------------------- MODULE FFIBinding -----------------------------
(***************************************************************************)
(* verifier.LinkVerify and the Rust crate behind it.  Goroutines run on OS *)
(* threads and may be moved between any two steps; the crate leaves the    *)
(* signals or the error of a verification in thread-locals, which the      *)
(* binding fetches with a second call and copies through a pointer.  The   *)
(* goroutine is wired to its thread from the first call to the copy.  Then *)
(* Verifier.Verify reads the public inputs.                                *)
(*                                                                         *)
(* An artifact is what a request stages on disk: the certificate type and  *)
(* what verify_circuit makes of its two proofs.  It also stands for the    *)
(* message of its own panic.                                               *)
(***************************************************************************)
EXTENDS Encodings

CONSTANTS
  Goroutine, Thread,
  Artifact,
  None         \* no artifact, no message, no thread, no goroutine

\* fails: verify_circuit panics on one of the proofs, or a file is missing.
ArtifactRecord ==
  [fails : BOOLEAN, type : CertChainType, cc : Seq(Element), ds : Seq(Element)]

ASSUME BindingAssumption ==
  /\ Artifact \subseteq ArtifactRecord
  /\ None \notin Artifact \cup Goroutine \cup Thread

VARIABLES
  lastSignals, lastError,   \* LAST_SIGNALS and LAST_ERROR of each thread
  running,                  \* the goroutine on each thread
  wired,                    \* LockOSThread: the thread a goroutine is wired to
  pc, input,                \* next step of each goroutine, and its artifact
  ret,                      \* what zk_link_verify returned
  ptr,                      \* the thread whose buffer the C pointer points to
  raw,                      \* the copy made by C.GoString
  result                    \* what Verifier.Verify returned

locals == <<lastSignals, lastError>>
sched == <<running, wired>>
call == <<pc, input, ret, ptr, raw, result>>
vars == <<lastSignals, lastError, running, wired, pc, input, ret, ptr, raw,
          result>>
-----------------------------------------------------------------------------
(***************************************************************************)
(* zk_link_verify as a function of the artifact.                           *)
(***************************************************************************)
Panics(a) == a.fails \/ a.cc = <<>> \/ a.ds = <<>>

CommitsMatch(a) == a.cc[1] = a.ds[1]

Hexes(reprs) == [i \in 1..Len(reprs) |-> field_to_hex(reprs[i])]

PublicSignals(a) == [cert_chain |-> Hexes(a.cc), user_sig |-> Hexes(a.ds)]

EmptySignals == [cert_chain |-> <<>>, user_sig |-> <<>>]   \* "{}"

Signals == {PublicSignals(a) : a \in {b \in Artifact : ~ Panics(b)}}

NoResult == [reason |-> "none", parsed |-> NoInputs]

(***************************************************************************)
(* Verifier.Verify up to the trust anchors: an error, a proof whose        *)
(* commitments do not match, or public inputs that parse or do not.        *)
(***************************************************************************)
VerifyResult(r, text, t) ==
  IF r < 0 THEN [reason |-> "error", parsed |-> NoInputs]
  ELSE IF r = 0 THEN [reason |-> "proof_invalid", parsed |-> NoInputs]
  ELSE IF ParsePublicInputs(text, t) = NoInputs
       THEN [reason |-> "unparsable", parsed |-> NoInputs]
  ELSE [reason |-> "verified", parsed |-> ParsePublicInputs(text, t)]

\* cmd/verifier: the exit status of the command-line verifier.
ExitStatus(r) == IF r > 0 THEN 0 ELSE 1
-----------------------------------------------------------------------------
Region == {"call", "fetch", "copy", "unlock"}   \* with the thread locked

TypeOK ==
  /\ lastSignals \in [Thread -> Signals \cup {EmptySignals}]
  /\ lastError \in [Thread -> Artifact \cup {None}]
  /\ running \in [Thread -> Goroutine \cup {None}]
  /\ wired \in [Goroutine -> Thread \cup {None}]
  /\ pc \in [Goroutine -> Region \cup {"idle", "lock", "verify", "done"}]
  /\ input \in [Goroutine -> Artifact \cup {None}]
  /\ ret \in [Goroutine -> {-3, 0, 1}]
  /\ ptr \in [Goroutine -> Thread \cup {None}]
  /\ raw \in [Goroutine -> Signals \cup Artifact \cup {EmptySignals, None}]
  /\ DOMAIN result = Goroutine
  /\ \A g \in Goroutine :
       /\ pc[g] = "idle" <=> input[g] = None
       /\ pc[g] \in Region <=> wired[g] # None
       /\ pc[g] = "copy" <=> ptr[g] # None
       /\ \A t \in Thread : running[t] = g => pc[g] # "idle"

Init ==
  /\ lastSignals = [t \in Thread |-> EmptySignals]
  /\ lastError = [t \in Thread |-> None]
  /\ running = [t \in Thread |-> None]
  /\ wired = [g \in Goroutine |-> None]
  /\ pc = [g \in Goroutine |-> "idle"]
  /\ input = [g \in Goroutine |-> None]
  /\ ret = [g \in Goroutine |-> 0]
  /\ ptr = [g \in Goroutine |-> None]
  /\ raw = [g \in Goroutine |-> None]
  /\ result = [g \in Goroutine |-> NoResult]
-----------------------------------------------------------------------------
(***************************************************************************)
(* The Go scheduler: a goroutine that has something to do gets a free      *)
(* thread, its own one if it is wired, and may lose it again at any point. *)
(***************************************************************************)
OnThread(g, t) == running[t] = g

Schedule(g, t) ==
  /\ pc[g] # "idle"
  /\ \A u \in Thread : running[u] # g
  /\ running[t] = None
  /\ wired[g] \in {None, t}
  /\ \A h \in Goroutine \ {g} : wired[h] # t
  /\ running' = [running EXCEPT ![t] = g]
  /\ UNCHANGED <<locals, wired, call>>

Preempt(t) ==
  /\ running[t] # None
  /\ running' = [running EXCEPT ![t] = None]
  /\ UNCHANGED <<locals, wired, call>>
-----------------------------------------------------------------------------
(***************************************************************************)
(* verifier.LinkVerify.                                                    *)
(***************************************************************************)
Goto(g, label) == pc' = [pc EXCEPT ![g] = label]

LinkVerify(g, a) ==
  /\ pc[g] = "idle"
  /\ input' = [input EXCEPT ![g] = a]
  /\ Goto(g, "lock")
  /\ UNCHANGED <<locals, sched, ret, ptr, raw, result>>

LockOSThreadNot(g, t) ==   \* mutant: the lock is missing
  /\ OnThread(g, t)
  /\ pc[g] = "lock"
  /\ Goto(g, "call")
  /\ UNCHANGED <<locals, sched, input, ret, ptr, raw, result>>

LockOSThread(g, t) ==
  /\ OnThread(g, t)
  /\ pc[g] = "lock"
  /\ wired' = [wired EXCEPT ![g] = t]
  /\ Goto(g, "call")
  /\ UNCHANGED <<locals, running, input, ret, ptr, raw, result>>

\* The result, or the caught panic, goes into the thread-locals of this
\* thread; the other one keeps what an earlier verification left there.
zk_link_verify(g, t) ==
  LET a == input[g]
  IN
  /\ OnThread(g, t)
  /\ pc[g] = "call"
  /\ \/ /\ Panics(a)
        /\ lastError' = [lastError EXCEPT ![t] = a]
        /\ ret' = [ret EXCEPT ![g] = -3]
        /\ UNCHANGED lastSignals
     \/ /\ ~ Panics(a)
        /\ lastSignals' = [lastSignals EXCEPT ![t] = PublicSignals(a)]
        /\ ret' = [ret EXCEPT ![g] = IF CommitsMatch(a) THEN 1 ELSE 0]
        /\ UNCHANGED lastError
  /\ Goto(g, "fetch")
  /\ UNCHANGED <<sched, input, ptr, raw, result>>

\* zk_last_signals or zk_last_error, as the sign of the return value says:
\* a pointer into the thread-local of the thread it is called on.
FetchPointer(g, t) ==
  /\ OnThread(g, t)
  /\ pc[g] = "fetch"
  /\ ptr' = [ptr EXCEPT ![g] = t]
  /\ Goto(g, "copy")
  /\ UNCHANGED <<locals, sched, input, ret, raw, result>>

GoString(g, t) ==
  /\ OnThread(g, t)
  /\ pc[g] = "copy"
  /\ raw' = [raw EXCEPT ![g] = IF ret[g] < 0 THEN lastError[ptr[g]]
                               ELSE lastSignals[ptr[g]]]
  /\ ptr' = [ptr EXCEPT ![g] = None]
  /\ Goto(g, "unlock")
  /\ UNCHANGED <<locals, sched, input, ret, result>>

UnlockOSThreadOnSuccess(g, t) ==   \* mutant: an error return keeps the thread
  /\ OnThread(g, t)
  /\ pc[g] = "unlock"
  /\ wired' = IF ret[g] < 0 THEN wired ELSE [wired EXCEPT ![g] = None]
  /\ Goto(g, "verify")
  /\ UNCHANGED <<locals, running, input, ret, ptr, raw, result>>

\* Deferred, on every return.
UnlockOSThread(g, t) ==
  /\ OnThread(g, t)
  /\ pc[g] = "unlock"
  /\ wired' = [wired EXCEPT ![g] = None]
  /\ Goto(g, "verify")
  /\ UNCHANGED <<locals, running, input, ret, ptr, raw, result>>

Verify(g, t) ==
  /\ OnThread(g, t)
  /\ pc[g] = "verify"
  /\ result' = [result EXCEPT
                  ![g] = VerifyResult(ret[g], raw[g], input[g].type)]
  /\ Goto(g, "done")
  /\ UNCHANGED <<locals, sched, input, ret, ptr, raw>>

\* The caller has used the result; the goroutine waits for its next request.
Return(g, t) ==
  /\ OnThread(g, t)
  /\ pc[g] = "done"
  /\ Goto(g, "idle")
  /\ running' = [running EXCEPT ![t] = None]
  /\ input' = [input EXCEPT ![g] = None]
  /\ ret' = [ret EXCEPT ![g] = 0]
  /\ raw' = [raw EXCEPT ![g] = None]
  /\ result' = [result EXCEPT ![g] = NoResult]
  /\ UNCHANGED <<locals, wired, ptr>>

Step(g, t) ==
  \/ LockOSThread(g, t)
  \/ zk_link_verify(g, t)
  \/ FetchPointer(g, t)
  \/ GoString(g, t)
  \/ UnlockOSThread(g, t)
  \/ Verify(g, t)
  \/ Return(g, t)

Next ==
  \/ \E g \in Goroutine, a \in Artifact : LinkVerify(g, a)
  \/ \E g \in Goroutine, t \in Thread : Schedule(g, t) \/ Step(g, t)
  \/ \E t \in Thread : Preempt(t)

Spec == Init /\ [][Next]_vars
-----------------------------------------------------------------------------
(***************************************************************************)
(* Properties.                                                             *)
(***************************************************************************)
Returned(g) == pc[g] \in {"verify", "done"}

\* Whatever other requests run and wherever the scheduler moves goroutines, a
\* call returns the verdict and the signals, or the error, of its own
\* artifact; the command-line verifier exits with 0 for linked proofs only.
OwnResult ==
  \A g \in Goroutine : Returned(g) =>
    LET a == input[g]
    IN  /\ Panics(a) => ret[g] < 0 /\ raw[g] = a
        /\ ~ Panics(a) => ret[g] >= 0 /\ raw[g] = PublicSignals(a)
        /\ ExitStatus(ret[g]) = 0 <=> ~ Panics(a) /\ CommitsMatch(a)

\* The parsed inputs are those of the circuits' layouts, by value: the
\* commitment, the root, the keys of the store (nullifier and challenge) and
\* the app_id, which parses if and only if it fits into AppIDLen bytes.
InputsByValue ==
  \A g \in Goroutine : pc[g] = "done" /\ ret[g] > 0 =>
    LET a == input[g]  p == result[g].parsed
    IN  /\ result[g].reason = "verified" <=>
             /\ Len(a.cc) = LimbCount[a.type] + 2
             /\ Len(a.ds) = 4
             /\ Value(a.ds[3]) < Power(ByteBase, AppIDLen)
        /\ result[g].reason = "verified" =>
             /\ Parsed(p.pk_commit) = Value(a.cc[1])
             /\ NormalizeDecimal(p.challenge).dec = Value(a.ds[4])
             /\ SetBytes(ParseRoot(p.smt_root)) = Value(a.cc[Len(a.cc)])
             /\ PackAppIDLE(p.app_id).dec = Value(a.ds[3])
             /\ Len(p.app_id) = AppIDLen
             /\ \A b \in Artifact : Len(b.ds) = 4 =>
                  (p.nullifier = field_to_hex(b.ds[2]) <=>
                     Value(b.ds[2]) = Value(a.ds[2]))

\* The comparison with the trust anchors is a comparison of numbers: an
\* app_id matches iff the packed bytes are the expected ones, a modulus that
\* fits its limbs iff the proof's limbs are its digits, a root iff it is
\* the same number.
AnchorsByValue ==
  \A g \in Goroutine : result[g].reason = "verified" =>
    LET a == input[g]  p == result[g].parsed  k == LimbCount[a.type]
        limb == [i \in 1..k |-> Value(a.cc[i + 1])]
    IN  /\ \A expected \in [1..AppIDLen -> Byte] :
             p.app_id = expected <=> PackAppIDLE(expected).dec = Value(a.ds[3])
        /\ \A n \in 0..(Power(LimbBase, k) - 1) :
             LimbsEqual(ModulusToLimbs(n, k), p.issuer_rsa_modulus) <=>
               /\ n = Positional(LimbBase, limb, k)
               /\ \A i \in 1..k : limb[i] < LimbBase
        /\ \A root \in Element :
             ParseRoot(p.smt_root) = Reverse(root) <=>
               Value(root) = Value(a.cc[k + 2])
=============================================================================
