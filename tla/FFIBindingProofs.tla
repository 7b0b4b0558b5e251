--------------------------- MODULE FFIBindingProofs ---------------------------
(***************************************************************************)
(* Type correctness of FFIBinding, the promise of LockOSThread and the     *)
(* meaning of what is parsed, for any number of goroutines, threads and    *)
(* artifacts and every size of a byte, an element, an app_id and a limb.   *)
(* IInv says what a verification has left on its thread at each step, that *)
(* nobody else can come onto that thread until the copy is made, and what  *)
(* the result is made of.                                                  *)
(***************************************************************************)
EXTENDS FFIBinding, EncodingsProofs

\* A goroutine runs on one thread at a time; a wired one on its own, where no
\* other goroutine runs or is wired.
ThreadsApart ==
  \A g, h \in Goroutine, t, u \in Thread :
    /\ running[t] = g /\ running[u] = g => t = u
    /\ wired[g] = t /\ running[t] = h => g = h
    /\ wired[g] = t /\ wired[h] = t => g = h
    /\ wired[g] = t /\ running[u] = g => t = u

\* The return value is that of the goroutine's artifact.
OwnVerdict(g) ==
  LET a == input[g]
  IN  /\ Panics(a) => ret[g] = -3
      /\ ~ Panics(a) => ret[g] = IF CommitsMatch(a) THEN 1 ELSE 0

\* The thread-locals of the wired thread, and later the copy, are too.
OwnLocals(g) ==
  \A t \in Thread : wired[g] = t =>
    IF Panics(input[g]) THEN lastError[t] = input[g]
    ELSE lastSignals[t] = PublicSignals(input[g])

OwnCopy(g) ==
  raw[g] = IF Panics(input[g]) THEN input[g] ELSE PublicSignals(input[g])

OwnStep ==
  \A g \in Goroutine :
    /\ pc[g] \in {"fetch", "copy", "unlock", "verify", "done"} => OwnVerdict(g)
    /\ pc[g] \in {"fetch", "copy"} => OwnLocals(g)
    /\ pc[g] = "copy" => ptr[g] = wired[g]
    /\ pc[g] \in {"unlock", "verify", "done"} => OwnCopy(g)

\* The result of a goroutine that is done is that of its verdict and copy.
ResultMade ==
  /\ result = [g \in Goroutine |-> result[g]]
  /\ \A g \in Goroutine :
       result[g] = IF pc[g] = "done"
                   THEN VerifyResult(ret[g], raw[g], input[g].type) ELSE NoResult

IInv ==
  /\ TypeOK
  /\ ThreadsApart
  /\ OwnStep
  /\ ResultMade
-----------------------------------------------------------------------------
LEMMA InitIInv == Init => IInv
  BY BindingAssumption
  DEF Init, IInv, TypeOK, ThreadsApart, OwnStep, ResultMade, Region

LEMMA TypeStep ==
  ASSUME TypeOK, ThreadsApart, [Next]_vars
  PROVE  TypeOK'
<1> USE BindingAssumption DEF Region
<1>1. ASSUME NEW g \in Goroutine, NEW a \in Artifact, LinkVerify(g, a)
      PROVE  TypeOK'
  BY <1>1 DEF TypeOK, LinkVerify, Goto, locals, sched
<1>2. ASSUME NEW g \in Goroutine, NEW t \in Thread, Schedule(g, t)
      PROVE  TypeOK'
  BY <1>2 DEF TypeOK, Schedule, locals, call
<1>3. ASSUME NEW g \in Goroutine, NEW t \in Thread, Step(g, t)
      PROVE  TypeOK'
  <2> USE DEF OnThread, Goto, locals, sched
  <2>1. CASE LockOSThread(g, t)
    BY <2>1 DEF TypeOK, LockOSThread
  <2>2. CASE zk_link_verify(g, t)
    BY <2>2 DEF TypeOK, zk_link_verify, Signals
  <2>3. CASE FetchPointer(g, t)
    BY <2>3 DEF TypeOK, FetchPointer
  <2>4. CASE GoString(g, t)
    BY <2>4 DEF TypeOK, GoString
  <2>5. CASE UnlockOSThread(g, t)
    BY <2>5 DEF TypeOK, UnlockOSThread
  <2>6. CASE Verify(g, t)
    BY <2>6 DEF TypeOK, Verify
  <2>7. CASE Return(g, t)
    BY <2>7 DEF TypeOK, Return, ThreadsApart
  <2> QED BY <1>3, <2>1, <2>2, <2>3, <2>4, <2>5, <2>6, <2>7 DEF Step
<1>4. ASSUME NEW t \in Thread, Preempt(t)
      PROVE  TypeOK'
  BY <1>4 DEF TypeOK, Preempt, locals, call
<1>5. CASE UNCHANGED vars
  BY <1>5 DEF TypeOK, vars
<1> QED BY <1>1, <1>2, <1>3, <1>4, <1>5 DEF Next

\* Scheduling, wiring and unwiring keep the threads apart.
LEMMA ThreadsStep ==
  ASSUME TypeOK, ThreadsApart, [Next]_vars
  PROVE  ThreadsApart'
<1> USE BindingAssumption DEF Region
<1>1. ASSUME NEW g \in Goroutine, NEW a \in Artifact, LinkVerify(g, a)
      PROVE  ThreadsApart'
  BY <1>1 DEF ThreadsApart, LinkVerify, sched
<1>2. ASSUME NEW g \in Goroutine, NEW t \in Thread, Schedule(g, t)
      PROVE  ThreadsApart'
  BY <1>2 DEF TypeOK, ThreadsApart, Schedule
<1>3. ASSUME NEW g \in Goroutine, NEW t \in Thread, Step(g, t)
      PROVE  ThreadsApart'
  <2> USE DEF OnThread
  <2>1. CASE LockOSThread(g, t)
    BY <2>1 DEF TypeOK, ThreadsApart, LockOSThread
  <2>2. CASE zk_link_verify(g, t) \/ FetchPointer(g, t) \/ GoString(g, t)
               \/ Verify(g, t)
    BY <2>2 DEF ThreadsApart, zk_link_verify, FetchPointer, GoString, Verify,
                sched
  <2>3. CASE UnlockOSThread(g, t)
    BY <2>3 DEF TypeOK, ThreadsApart, UnlockOSThread
  <2>4. CASE Return(g, t)
    BY <2>4 DEF TypeOK, ThreadsApart, Return
  <2> QED BY <1>3, <2>1, <2>2, <2>3, <2>4 DEF Step
<1>4. ASSUME NEW t \in Thread, Preempt(t)
      PROVE  ThreadsApart'
  BY <1>4 DEF TypeOK, ThreadsApart, Preempt
<1>5. CASE UNCHANGED vars
  BY <1>5 DEF ThreadsApart, vars
<1> QED BY <1>1, <1>2, <1>3, <1>4, <1>5 DEF Next

\* A verification's own thread-locals change by its own steps only.
LEMMA OwnStepStep ==
  ASSUME TypeOK, ThreadsApart, OwnStep, [Next]_vars
  PROVE  OwnStep'
<1> USE BindingAssumption DEF Region, OwnVerdict, OwnLocals, OwnCopy
<1>1. ASSUME NEW g \in Goroutine, NEW a \in Artifact, LinkVerify(g, a)
      PROVE  OwnStep'
  BY <1>1 DEF TypeOK, OwnStep, LinkVerify, Goto, locals, sched
<1>2. ASSUME NEW g \in Goroutine, NEW t \in Thread, Schedule(g, t)
      PROVE  OwnStep'
  BY <1>2 DEF OwnStep, Schedule, locals, call
<1>3. ASSUME NEW g \in Goroutine, NEW t \in Thread, Step(g, t)
      PROVE  OwnStep'
  <2> USE DEF OnThread, Goto, locals, sched
  <2>1. CASE LockOSThread(g, t)
    BY <2>1 DEF TypeOK, OwnStep, LockOSThread
  <2>2. CASE zk_link_verify(g, t)
    BY <2>2 DEF TypeOK, ThreadsApart, OwnStep, zk_link_verify
  <2>3. CASE FetchPointer(g, t)
    BY <2>3 DEF TypeOK, ThreadsApart, OwnStep, FetchPointer
  <2>4. CASE GoString(g, t)
    BY <2>4 DEF TypeOK, ThreadsApart, OwnStep, GoString
  <2>5. CASE UnlockOSThread(g, t)
    BY <2>5 DEF TypeOK, OwnStep, UnlockOSThread
  <2>6. CASE Verify(g, t)
    BY <2>6 DEF TypeOK, OwnStep, Verify
  <2>7. CASE Return(g, t)
    BY <2>7 DEF TypeOK, OwnStep, Return
  <2> QED BY <1>3, <2>1, <2>2, <2>3, <2>4, <2>5, <2>6, <2>7 DEF Step
<1>4. ASSUME NEW t \in Thread, Preempt(t)
      PROVE  OwnStep'
  BY <1>4 DEF OwnStep, Preempt, locals, call
<1>5. CASE UNCHANGED vars
  BY <1>5 DEF OwnStep, vars
<1> QED BY <1>1, <1>2, <1>3, <1>4, <1>5 DEF Next

\* Only Verify makes a result, from what the goroutine has at that moment, and
\* Return drops it.
LEMMA ResultStep ==
  ASSUME TypeOK, ResultMade, [Next]_vars
  PROVE  ResultMade'
<1>1. ASSUME NEW g \in Goroutine, NEW a \in Artifact, LinkVerify(g, a)
      PROVE  ResultMade'
  BY <1>1 DEF TypeOK, ResultMade, LinkVerify, Goto, locals, sched
<1>2. ASSUME NEW g \in Goroutine, NEW t \in Thread, Schedule(g, t)
      PROVE  ResultMade'
  BY <1>2 DEF ResultMade, Schedule, locals, call
<1>3. ASSUME NEW g \in Goroutine, NEW t \in Thread, Step(g, t)
      PROVE  ResultMade'
  <2> USE DEF OnThread, Goto, locals, sched
  <2>1. CASE LockOSThread(g, t)
    BY <2>1 DEF TypeOK, ResultMade, LockOSThread
  <2>2. CASE zk_link_verify(g, t)
    BY <2>2 DEF TypeOK, ResultMade, zk_link_verify
  <2>3. CASE FetchPointer(g, t)
    BY <2>3 DEF TypeOK, ResultMade, FetchPointer
  <2>4. CASE GoString(g, t)
    BY <2>4 DEF TypeOK, ResultMade, GoString
  <2>5. CASE UnlockOSThread(g, t)
    BY <2>5 DEF TypeOK, ResultMade, UnlockOSThread
  <2>6. CASE Verify(g, t)
    BY <2>6 DEF TypeOK, ResultMade, Verify
  <2>7. CASE Return(g, t)
    BY <2>7 DEF TypeOK, ResultMade, Return
  <2> QED BY <1>3, <2>1, <2>2, <2>3, <2>4, <2>5, <2>6, <2>7 DEF Step
<1>4. ASSUME NEW t \in Thread, Preempt(t)
      PROVE  ResultMade'
  BY <1>4 DEF ResultMade, Preempt, locals, call
<1>5. CASE UNCHANGED vars
  BY <1>5 DEF ResultMade, vars
<1> QED BY <1>1, <1>2, <1>3, <1>4, <1>5 DEF Next
-----------------------------------------------------------------------------
(***************************************************************************)
(* What ParsePublicInputs makes of the signals of an artifact.             *)
(***************************************************************************)
LEMMA HexesFacts ==
  ASSUME NEW reprs \in Seq(Element)
  PROVE  /\ Len(reprs) \in Nat /\ Len(Hexes(reprs)) = Len(reprs)
         /\ \A i \in 1..Len(reprs) :
              reprs[i] \in Element /\ Hexes(reprs)[i] = field_to_hex(reprs[i])
<1> DEFINE S == {field_to_hex(r) : r \in Element}
<1>1. Len(reprs) \in Nat /\ reprs \in [1..Len(reprs) -> Element]
  BY LenProperties
<1>2. Hexes(reprs) \in [1..Len(reprs) -> S]
  BY <1>1 DEF Hexes
<1> HIDE DEF S
<1>3. Len(Hexes(reprs)) = Len(reprs)
  BY <1>1, <1>2, FunctionIsSeq
<1>4. \A i \in 1..Len(reprs) : Hexes(reprs)[i] = field_to_hex(reprs[i])
  BY DEF Hexes
<1> QED BY <1>1, <1>3, <1>4

LEMMA ArtifactFacts ==
  ASSUME NEW a \in Artifact
  PROVE  /\ a.type \in CertChainType
         /\ LimbCount[a.type] \in Nat \ {0}
         /\ a.cc \in Seq(Element) /\ a.ds \in Seq(Element)
<1>1. a \in ArtifactRecord
  BY BindingAssumption
<1>2. a.type \in CertChainType /\ a.cc \in Seq(Element) /\ a.ds \in Seq(Element)
  BY <1>1 DEF ArtifactRecord
<1> QED BY <1>2, EncodingAssumption

\* The signals have the layout of the type's circuits, and the app_id fits.
Parsable(a) ==
  /\ Len(a.cc) = LimbCount[a.type] + 2 /\ Len(a.ds) = 4
  /\ Value(a.ds[3]) < Power(ByteBase, AppIDLen)

LEMMA ParsedInputs ==
  ASSUME NEW a \in Artifact
  PROVE  LET p == ParsePublicInputs(PublicSignals(a), a.type)
             k == LimbCount[a.type]
         IN  /\ p # NoInputs <=> Parsable(a)
             /\ Parsable(a) =>
                  /\ p.pk_commit = field_to_hex(a.cc[1])
                  /\ p.nullifier = field_to_hex(a.ds[2])
                  /\ p.app_id = UnpackAppID(field_to_hex(a.ds[3]))
                  /\ p.app_id # <<>>
                  /\ p.challenge = field_to_hex(a.ds[4])
                  /\ p.issuer_rsa_modulus = SubSeq(Hexes(a.cc), 2, k + 1)
                  /\ p.smt_root = field_to_hex(a.cc[k + 2])
<1> DEFINE k == LimbCount[a.type]
           signals == PublicSignals(a)
           p == ParsePublicInputs(signals, a.type)
<1>1. /\ k \in Nat \ {0} /\ a.cc \in Seq(Element) /\ a.ds \in Seq(Element)
  BY ArtifactFacts
<1>2. signals.cert_chain = Hexes(a.cc) /\ signals.user_sig = Hexes(a.ds)
  BY DEF PublicSignals
<1> HIDE DEF signals, k
<1>3. WellShaped(signals, a.type) <=> Len(a.cc) = k + 2 /\ Len(a.ds) = 4
  BY <1>1, <1>2, HexesFacts DEF WellShaped, ExpectedUserSigSignals, k
<1>4. CASE ~ WellShaped(signals, a.type)
  <2>1. p = NoInputs
    BY <1>4 DEF ParsePublicInputs
  <2> QED BY <1>3, <1>4, <2>1 DEF Parsable, k, signals
<1>5. CASE WellShaped(signals, a.type)
  <2>1. Len(a.cc) = k + 2 /\ Len(a.ds) = 4
    BY <1>3, <1>5
  <2>2. /\ Hexes(a.ds)[2] = field_to_hex(a.ds[2])
        /\ Hexes(a.ds)[3] = field_to_hex(a.ds[3]) /\ a.ds[3] \in Element
        /\ Hexes(a.ds)[4] = field_to_hex(a.ds[4])
    BY <1>1, <2>1, HexesFacts
  <2>3. /\ Hexes(a.cc)[1] = field_to_hex(a.cc[1])
        /\ Hexes(a.cc)[k + 2] = field_to_hex(a.cc[k + 2])
    BY <1>1, <2>1, HexesFacts
  <2>4. UnpackAppID(field_to_hex(a.ds[3])) = <<>>
          <=> ~ (Value(a.ds[3]) < Power(ByteBase, AppIDLen))
    BY <2>2, AppIDsByValue
  <2>5. CASE UnpackAppID(field_to_hex(a.ds[3])) = <<>>
    <3>1. p = NoInputs
      BY <1>2, <2>2, <2>5 DEF ParsePublicInputs
    <3> QED BY <2>4, <2>5, <3>1 DEF Parsable, k, signals
  <2>6. CASE UnpackAppID(field_to_hex(a.ds[3])) # <<>>
    <3>1. p = [pk_commit |-> Hexes(a.cc)[1], nullifier |-> Hexes(a.ds)[2],
               app_id |-> UnpackAppID(Hexes(a.ds)[3]), app_id_packed |-> Hexes(a.ds)[3],
               challenge |-> Hexes(a.ds)[4],
               issuer_rsa_modulus |-> SubSeq(Hexes(a.cc), 2, k + 1),
               smt_root |-> Hexes(a.cc)[k + 2]]
      BY <1>2, <1>5, <2>2, <2>6 DEF ParsePublicInputs, k
    <3> HIDE DEF p
    <3>2. p # NoInputs
      <4>1. "nullifier" \in DOMAIN p
        BY <3>1
      <4>2. "nullifier" \notin DOMAIN NoInputs
        BY DEF NoInputs
      <4> QED BY <4>1, <4>2
    <3>3. Parsable(a)
      BY <2>1, <2>4, <2>6 DEF Parsable, k
    <3>4. /\ p.pk_commit = field_to_hex(a.cc[1])
          /\ p.nullifier = field_to_hex(a.ds[2])
          /\ p.app_id = UnpackAppID(field_to_hex(a.ds[3]))
          /\ p.challenge = field_to_hex(a.ds[4])
          /\ p.issuer_rsa_modulus = SubSeq(Hexes(a.cc), 2, k + 1)
          /\ p.smt_root = field_to_hex(a.cc[k + 2])
      BY <2>2, <2>3, <3>1
    <3>5. p.app_id # <<>>
      BY <2>6, <3>4
    <3> QED BY <3>2, <3>3, <3>4, <3>5, Zenon DEF p, k, signals
  <2> QED BY <2>5, <2>6
<1> QED BY <1>4, <1>5

\* A verified result is that of an artifact that parses; one that parses and
\* is linked is verified.
LEMMA VerifiedFacts ==
  ASSUME IInv, NEW g \in Goroutine
  PROVE  /\ result[g].reason = "verified" =>
              /\ pc[g] = "done" /\ ret[g] > 0
              /\ input[g] \in Artifact /\ Parsable(input[g])
              /\ result[g].parsed
                   = ParsePublicInputs(PublicSignals(input[g]), input[g].type)
         /\ pc[g] = "done" /\ ret[g] > 0 =>
              /\ input[g] \in Artifact
              /\ Parsable(input[g]) => result[g].reason = "verified"
<1> DEFINE a == input[g]
           p == ParsePublicInputs(PublicSignals(a), a.type)
<1>1. /\ result[g] = IF pc[g] = "done" THEN VerifyResult(ret[g], raw[g], a.type)
                     ELSE NoResult
      /\ ret[g] \in {-3, 0, 1}
  BY DEF IInv, ResultMade, TypeOK
<1>2. CASE pc[g] # "done" \/ ~ (ret[g] > 0)
  BY <1>1, <1>2 DEF VerifyResult, NoResult
<1>3. CASE pc[g] = "done" /\ ret[g] > 0
  <2>1. a \in Artifact
    BY <1>3 DEF IInv, TypeOK
  <2>2. raw[g] = PublicSignals(a)
    BY <1>3 DEF IInv, OwnStep, OwnVerdict, OwnCopy
  <2>3. p # NoInputs <=> Parsable(a)
    BY <2>1, ParsedInputs
  <2>4. result[g] = IF p = NoInputs
                    THEN [reason |-> "unparsable", parsed |-> NoInputs]
                    ELSE [reason |-> "verified", parsed |-> p]
    BY <1>1, <1>3, <2>2 DEF VerifyResult
  <2> HIDE DEF p
  <2>5. CASE p = NoInputs
    BY <2>1, <2>3, <2>4, <2>5
  <2>6. CASE p # NoInputs
    <3>1. result[g].reason = "verified" /\ result[g].parsed = p
      BY <2>4, <2>6
    <3> QED BY <1>3, <2>1, <2>3, <2>6, <3>1 DEF p
  <2> QED BY <2>5, <2>6
<1> QED BY <1>2, <1>3
-----------------------------------------------------------------------------
\* What a verification may rely on between LockOSThread and the copy: the
\* strengthened invariant holds in every reachable state.
THEOREM Invariance == Spec => []IInv
<1>1. IInv /\ [Next]_vars => IInv'
  BY TypeStep, ThreadsStep, OwnStepStep, ResultStep DEF IInv
<1> QED BY <1>1, InitIInv, PTL DEF Spec

\* The thread is wired exactly from the first C call to the copy, whatever
\* the call returns.
THEOREM TypeCorrect == Spec => []TypeOK
<1>1. IInv => TypeOK
  BY DEF IInv
<1> QED BY <1>1, Invariance, PTL

\* verifier.LinkVerify returns the verdict and the signals, or the error, of
\* its own artifact.
THEOREM ResultsNotMixed == Spec => []OwnResult
<1>1. IInv => OwnResult
  BY DEF IInv, OwnStep, OwnVerdict, OwnCopy, OwnResult, Returned, ExitStatus
<1> QED BY <1>1, Invariance, PTL

\* A verification succeeds exactly when ParsePublicInputs can read the signals,
\* and what it hands to linkverify are the numbers of the circuits' layouts.
THEOREM InputsHaveTheirValues == Spec => []InputsByValue
<1>1. IInv => InputsByValue
  <2> SUFFICES ASSUME IInv, NEW g \in Goroutine, pc[g] = "done", ret[g] > 0
               PROVE  LET a == input[g]  p == result[g].parsed
                      IN  /\ result[g].reason = "verified" <=> Parsable(a)
                          /\ result[g].reason = "verified" =>
                               /\ Parsed(p.pk_commit) = Value(a.cc[1])
                               /\ NormalizeDecimal(p.challenge).dec = Value(a.ds[4])
                               /\ SetBytes(ParseRoot(p.smt_root))
                                    = Value(a.cc[Len(a.cc)])
                               /\ PackAppIDLE(p.app_id).dec = Value(a.ds[3])
                               /\ Len(p.app_id) = AppIDLen
                               /\ \A b \in Artifact : Len(b.ds) = 4 =>
                                    (p.nullifier = field_to_hex(b.ds[2])
                                       <=> Value(b.ds[2]) = Value(a.ds[2]))
    BY Zenon DEF InputsByValue, Parsable
  <2> DEFINE a == input[g]
             p == result[g].parsed
             k == LimbCount[a.type]
  <2>1. a \in Artifact /\ (result[g].reason = "verified" <=> Parsable(a))
    BY VerifiedFacts
  <2>2. ASSUME result[g].reason = "verified"
        PROVE  /\ p.pk_commit = field_to_hex(a.cc[1])
               /\ p.nullifier = field_to_hex(a.ds[2])
               /\ p.app_id = UnpackAppID(field_to_hex(a.ds[3])) /\ p.app_id # <<>>
               /\ p.challenge = field_to_hex(a.ds[4])
               /\ p.smt_root = field_to_hex(a.cc[k + 2])
    <3>1. p = ParsePublicInputs(PublicSignals(a), a.type) /\ Parsable(a)
      BY <2>2, VerifiedFacts
    <3> QED BY <2>1, <3>1, ParsedInputs
  <2>3. ASSUME result[g].reason = "verified"
        PROVE  /\ a.cc[1] \in Element /\ a.cc[k + 2] \in Element /\ Len(a.cc) = k + 2
               /\ a.ds[2] \in Element /\ a.ds[3] \in Element /\ a.ds[4] \in Element
    <3>1. /\ Len(a.cc) = k + 2 /\ Len(a.ds) = 4 /\ k \in Nat
          /\ a.cc \in Seq(Element) /\ a.ds \in Seq(Element)
      BY <2>1, <2>3, ArtifactFacts DEF Parsable
    <3> HIDE DEF a, p, k
    <3>2. \A i \in 1..(k + 2) : a.cc[i] \in Element
      BY <3>1, HexesFacts
    <3>3. \A i \in 1..4 : a.ds[i] \in Element
      BY <3>1, HexesFacts
    <3>4. 1 \in 1..(k + 2) /\ k + 2 \in 1..(k + 2)
      BY <3>1
    <3> QED BY <3>1, <3>2, <3>3, <3>4
  <2>4. \A b \in Artifact : Len(b.ds) = 4 => b.ds[2] \in Element
    BY ArtifactFacts, HexesFacts
  <2> HIDE DEF a, p, k
  <2>5. ASSUME result[g].reason = "verified"
        PROVE  /\ Parsed(p.pk_commit) = Value(a.cc[1])
               /\ NormalizeDecimal(p.challenge).dec = Value(a.ds[4])
    BY <2>2, <2>3, <2>5, TextsByValue
  <2>6. ASSUME result[g].reason = "verified"
        PROVE  SetBytes(ParseRoot(p.smt_root)) = Value(a.cc[Len(a.cc)])
    BY <2>2, <2>3, <2>6, TextsByValue, ElementText
  <2>7. ASSUME result[g].reason = "verified"
        PROVE  PackAppIDLE(p.app_id).dec = Value(a.ds[3]) /\ Len(p.app_id) = AppIDLen
    BY <2>2, <2>3, <2>7, AppIDsByValue
  <2>8. ASSUME result[g].reason = "verified", NEW b \in Artifact, Len(b.ds) = 4
        PROVE  p.nullifier = field_to_hex(b.ds[2]) <=> Value(b.ds[2]) = Value(a.ds[2])
    <3>1. b.ds[2] \in Element /\ a.ds[2] \in Element
      BY <2>3, <2>4, <2>8
    <3>2. field_to_hex(b.ds[2]) = field_to_hex(a.ds[2])
            <=> Value(b.ds[2]) = Value(a.ds[2])
      BY <3>1, TextsByValue
    <3>3. p.nullifier = field_to_hex(a.ds[2])
      BY <2>2, <2>8
    <3> QED BY <3>2, <3>3
  <2> QED BY <2>1, <2>5, <2>6, <2>7, <2>8 DEF a, p
<1> QED BY <1>1, Invariance, PTL

\* The comparisons of linkverify with the trust anchors (app_id, modulus limbs,
\* roots) are comparisons of the numbers that the circuits computed.
THEOREM AnchorsComparedByValue == Spec => []AnchorsByValue
<1>1. IInv => AnchorsByValue
  <2> SUFFICES ASSUME IInv, NEW g \in Goroutine, result[g].reason = "verified"
               PROVE  LET a == input[g]  p == result[g].parsed  k == LimbCount[a.type]
                          limb == [i \in 1..k |-> Value(a.cc[i + 1])]
                      IN  /\ \A expected \in [1..AppIDLen -> Byte] :
                               p.app_id = expected
                                 <=> PackAppIDLE(expected).dec = Value(a.ds[3])
                          /\ \A n \in 0..(Power(LimbBase, k) - 1) :
                               LimbsEqual(ModulusToLimbs(n, k), p.issuer_rsa_modulus) <=>
                                 /\ n = Positional(LimbBase, limb, k)
                                 /\ \A i \in 1..k : limb[i] < LimbBase
                          /\ \A root \in Element :
                               ParseRoot(p.smt_root) = Reverse(root)
                                 <=> Value(root) = Value(a.cc[k + 2])
    BY Zenon DEF AnchorsByValue
  <2> DEFINE a == input[g]
             p == result[g].parsed
             k == LimbCount[a.type]
             limb == [i \in 1..k |-> Value(a.cc[i + 1])]
             m == [i \in 1..k |-> a.cc[i + 1]]
             texts == SubSeq(Hexes(a.cc), 2, k + 1)
  <2>1. /\ a \in Artifact /\ Parsable(a)
        /\ p = ParsePublicInputs(PublicSignals(a), a.type)
    BY VerifiedFacts
  <2>2. /\ p.app_id = UnpackAppID(field_to_hex(a.ds[3])) /\ p.app_id # <<>>
        /\ p.issuer_rsa_modulus = texts
        /\ p.smt_root = field_to_hex(a.cc[k + 2])
    BY <2>1, ParsedInputs
  <2>3. /\ Len(a.cc) = k + 2 /\ Len(a.ds) = 4 /\ k \in Nat
        /\ a.cc \in Seq(Element) /\ a.ds \in Seq(Element)
    BY <2>1, ArtifactFacts DEF Parsable
  <2> HIDE DEF a, p, k
  <2>4. a.ds[3] \in Element /\ a.cc[k + 2] \in Element
    BY <2>3, HexesFacts
  <2>5. ASSUME NEW expected \in [1..AppIDLen -> Byte]
        PROVE  p.app_id = expected <=> PackAppIDLE(expected).dec = Value(a.ds[3])
    BY <2>2, <2>4, AppIDsByValue DEF AppID
  <2>6. ASSUME NEW root \in Element
        PROVE  ParseRoot(p.smt_root) = Reverse(root) <=> Value(root) = Value(a.cc[k + 2])
    BY <2>2, <2>4, RootsByValue
  <2>7. /\ m \in [1..k -> Element]
        /\ \A i \in 1..k : limb[i] = Value(m[i])
    <3>1. \A i \in 1..k : i + 1 \in 1..(k + 2)
      BY <2>3
    <3>2. \A i \in 1..k : a.cc[i + 1] \in Element
      BY <2>3, <3>1, HexesFacts
    <3> QED BY <3>2
  <2>8. /\ Len(texts) = k
        /\ \A i \in 1..k : texts[i] = field_to_hex(m[i])
    <3>1. \A i \in 2..(k + 1) : Hexes(a.cc)[i] = field_to_hex(a.cc[i])
      BY <2>3, HexesFacts
    <3> DEFINE S == {Hexes(a.cc)[i] : i \in 2..(k + 1)}
    <3>2. \A i \in 2..(k + 1) : Hexes(a.cc)[i] \in S
      OBVIOUS
    <3> HIDE DEF S
    <3>3. 2 \in Int /\ k + 1 \in Int /\ (2 <= k + 1 => (k + 1) - 2 + 1 = k)
          /\ (k + 1) - 2 + 1 = k /\ (~ (2 <= k + 1) => k = 0)
      BY <2>3
    <3>4. /\ Len(texts) = IF 2 <= k + 1 THEN (k + 1) - 2 + 1 ELSE 0
          /\ \A i \in 1..((k + 1) - 2 + 1) : texts[i] = Hexes(a.cc)[2 + i - 1]
      BY <3>2, <3>3, SubSeqProperties
    <3>5. ASSUME NEW i \in 1..k PROVE texts[i] = field_to_hex(m[i])
      <4>1. i \in 1..((k + 1) - 2 + 1) /\ 2 + i - 1 = i + 1 /\ i + 1 \in 2..(k + 1)
        BY <2>3
      <4> HIDE DEF texts
      <4>2. texts[i] = Hexes(a.cc)[i + 1]
        BY <3>4, <4>1
      <4> QED BY <3>1, <4>1, <4>2
    <3> QED BY <3>3, <3>4, <3>5
  <2> HIDE DEF limb, m, texts
  <2>9. ASSUME NEW n \in 0..(Power(LimbBase, k) - 1)
        PROVE  LimbsEqual(ModulusToLimbs(n, k), p.issuer_rsa_modulus) <=>
                 /\ n = Positional(LimbBase, limb, k)
                 /\ \A i \in 1..k : limb[i] < LimbBase
    <3>1. k \in Nat
      BY <2>3
    <3>2. LimbBase \in Nat \ {0}
      BY LimbBasePositive
    <3>3. Power(LimbBase, k) \in Nat \ {0}
      BY <3>1, <3>2, PowerPositive
    <3>4. n \in Nat /\ n < Power(LimbBase, k)
      BY <2>9, <3>3
    <3>5. m \in [1..k -> Element]
      BY <2>7
    <3>6. \A i \in 1..k : limb[i] = Value(m[i])
      BY <2>7
    <3>7. Len(texts) = k
      BY <2>8
    <3>8. \A i \in 1..k : texts[i] = field_to_hex(m[i])
      BY <2>8
    <3>9. LimbsEqual(ModulusToLimbs(n, k), texts) <=>
            /\ n = Positional(LimbBase, limb, k)
            /\ \A i \in 1..k : limb[i] < LimbBase
      BY <3>1, <3>4, <3>5, <3>6, <3>7, <3>8, LimbsByValue
    <3> QED BY <2>2, <3>9
  <2> QED BY <2>5, <2>6, <2>9 DEF a, p, k, limb
<1> QED BY <1>1, Invariance, PTL
=============================================================================
