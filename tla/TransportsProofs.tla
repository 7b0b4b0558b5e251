-------------------------- MODULE TransportsProofs --------------------------
(***************************************************************************)
(* The safety properties of Transports, for every number of sessions,      *)
(* challenges and nullifiers, every TTL and every resolution of the clock. *)
(* A pending call is followed by what the server has read or decided for   *)
(* it (AtSession), which no step of another session makes false; only a    *)
(* wipe does, and only part of it (StaysTrue, HoldsUntilWipe).             *)
(***************************************************************************)
EXTENDS Transports, TLAPS

\* A stored challenge was issued, and with the deadline of its row up to what
\* the column drops.
RowsIssued ==
  \A c \in Challenge :
    challenges[c] # NoRow =>
      c \in drawn /\ challenges[c].expires_at = StoredTime(issued[c])

\* So was every challenge that a client was told a deadline of.
AnnouncedIssued ==
  \A a \in announced :
    /\ a.challenge \in drawn
    /\ a.deadline = IF a.whole THEN StoredTime(issued[a.challenge])
                    ELSE issued[a.challenge]

TypesOK ==
  /\ challenges \in [Challenge -> ChallengeRow \cup {NoRow}]
  /\ verifications \in [Nullifier -> VerificationRow \cup {NoRow}]
  /\ issued \in [Challenge -> Nat \cup {Undrawn}]
  /\ now \in 0..MaxTime
  /\ call \in [Session -> Call \cup {None}]
  /\ reply \in Reply \cup {None}
  /\ announced \subseteq Announcement
  /\ refused \subseteq Proof
  /\ voided \subseteq {s \in Session : Waiting(s, "respond")}

Recorded(n) == verifications[n] # NoRow

\* A recorded challenge exists and is consumed.
TablesAgree ==
  \A n \in Nullifier :
    Recorded(n) =>
      /\ challenges[verifications[n].challenge] # NoRow
      /\ challenges[verifications[n].challenge].consumed

\* Why a proof was refused for good: its challenge is gone, and no value is
\* drawn twice; or it has expired or is consumed; or the card is registered.
Hopeless(p) ==
  /\ p.challenge \in drawn
  /\ challenges[p.challenge] # NoRow =>
       \/ IsExpired(challenges[p.challenge], now)
       \/ challenges[p.challenge].consumed
       \/ Recorded(p.nullifier)

RefusedForGood == \A p \in refused : Hopeless(p)

\* What was decided about a proof stays true, with or without a wipe...
StaysTrue(p, v) ==
  /\ v \in StoreError => Hopeless(p)
  /\ v = "ErrChallengeNotFound" => challenges[p.challenge] = NoRow
  /\ v = "ErrChallengeExpired" => now > StoredTime(issued[p.challenge])

\* ... or as long as there is none.
HoldsUntilWipe(p, v) ==
  /\ v = "accepted" =>
       Recorded(p.nullifier) /\ verifications[p.nullifier].challenge = p.challenge
  /\ v = "ErrDuplicateNullifier" =>
       Recorded(p.nullifier) /\ verifications[p.nullifier].challenge # p.challenge
  /\ v = "ErrChallengeConsumed" =>
       challenges[p.challenge] # NoRow /\ challenges[p.challenge].consumed

\* What the server knows of a pending call: the deadline of an issued
\* challenge, or what was decided about the proof.
AtSession(s) ==
  /\ Waiting(s, "expiry") =>
       /\ call[s].challenge \in drawn
       /\ call[s].deadline = StoredTime(issued[call[s].challenge])
  /\ Waiting(s, "announce") =>
       /\ call[s].challenge \in drawn
       /\ call[s].deadline = issued[call[s].challenge]
  /\ Waiting(s, "verify") => call[s].proof.challenge \in drawn
  /\ Waiting(s, "respond") =>
       /\ call[s].proof.challenge \in drawn
       /\ StaysTrue(call[s].proof, call[s].outcome)
       /\ s \in voided \/ HoldsUntilWipe(call[s].proof, call[s].outcome)

IInv ==
  /\ TypesOK
  /\ RowsIssued
  /\ AnnouncedIssued
  /\ TablesAgree
  /\ \A s \in Session : AtSession(s)
  /\ RefusedForGood
-----------------------------------------------------------------------------
(***************************************************************************)
(* Outcomes of the service and the replies made of them.                   *)
(***************************************************************************)
Outcome ==
  Reason \cup AnchorError \cup StoreError \cup {"accepted", "bad_request"}

LEMMA PlainIsReply ==
  ASSUME NEW code \in HTTPCode \cup GRPCCode
  PROVE  /\ Plain(code) \in Reply /\ Plain(code) # None
         /\ Plain(code).code = code
         /\ Plain(code).verified = FALSE /\ Plain(code).reason = "none"
<1>1. Plain(code) \in Reply
  BY DEF Plain, Reply
<1>2. Plain(code) # None
  BY <1>1, TransportAssumption
<1> QED BY <1>1, <1>2 DEF Plain

\* Every outcome has a code on each transport.
LEMMA HTTPReplies ==
  ASSUME NEW v \in Outcome
  PROVE  /\ HTTPReply(v) \in Reply
         /\ HTTPReply(v).verified <=> v = "accepted"
         /\ HTTPReply(v).reason = "none" <=> v \notin Reason
         /\ Final(HTTPReply(v)) <=> v \in StoreError \cup {"bad_request"}
         /\ HTTPReply(v).code = "400" <=> v \in {"ErrChallengeExpired", "bad_request"}
         /\ HTTPReply(v) = HTTPReply("ErrDuplicateNullifier")
              => v = "ErrDuplicateNullifier"
         /\ HTTPReply(v) = HTTPReply("ErrChallengeNotFound")
              => v = "ErrChallengeNotFound"
         /\ HTTPReply(v) = HTTPReply("ErrChallengeConsumed")
              => v = "ErrChallengeConsumed"
         /\ HTTPReply(v).code # "FailedPrecondition"
         /\ HTTPReply(v).code \in HTTPCode
<1>1. CASE v \in Reason
  BY <1>1 DEF Reason, Outcome, HTTPReply, Reply, HTTPCode, Final, StoreError,
              writeStoreError, Plain
<1>2. CASE v \in AnchorError
  BY <1>2 DEF Reason, AnchorError, HTTPReply, writeStoreError, Plain, Reply, HTTPCode,
              Final, StoreError
<1>3. CASE v \in StoreError
  BY <1>3 DEF Reason, HTTPReply, writeStoreError, Plain, Reply, HTTPCode, Final,
              StoreError
<1>4. CASE v \in {"accepted", "bad_request"}
  BY <1>4 DEF Reason, HTTPReply, writeStoreError, Plain, Reply, HTTPCode, Final,
              StoreError
<1> QED BY <1>1, <1>2, <1>3, <1>4 DEF Outcome

LEMMA GRPCReplies ==
  ASSUME NEW v \in Outcome
  PROVE  /\ GRPCReply(v) \in Reply
         /\ GRPCReply(v).verified <=> v = "accepted"
         /\ GRPCReply(v).reason = "none" <=> v \notin Reason
         /\ Final(GRPCReply(v)) <=> v \in StoreError \cup {"bad_request"}
         /\ GRPCReply(v).code = "FailedPrecondition"
              <=> v \in {"ErrChallengeExpired", "ErrChallengeConsumed"}
         /\ GRPCReply(v) = GRPCReply("ErrDuplicateNullifier")
              => v = "ErrDuplicateNullifier"
         /\ GRPCReply(v) = GRPCReply("ErrChallengeNotFound")
              => v = "ErrChallengeNotFound"
         /\ GRPCReply(v).code # "400"
         /\ GRPCReply(v).code \in GRPCCode
<1>1. CASE v \in Reason
  BY <1>1 DEF Reason, Outcome, GRPCReply, Reply, GRPCCode, Final, StoreError,
              mapServiceError, Plain
<1>2. CASE v \in AnchorError
  BY <1>2 DEF Reason, AnchorError, GRPCReply, mapServiceError, Plain, Reply, GRPCCode,
              Final, StoreError
<1>3. CASE v \in StoreError
  BY <1>3 DEF Reason, GRPCReply, mapServiceError, Plain, Reply, GRPCCode, Final,
              StoreError
<1>4. CASE v \in {"accepted", "bad_request"}
  BY <1>4 DEF Reason, GRPCReply, mapServiceError, Plain, Reply, GRPCCode, Final,
              StoreError
<1> QED BY <1>1, <1>2, <1>3, <1>4 DEF Outcome

\* What a client can conclude from the reply to a proof, on either transport.
LEMMA Replies ==
  ASSUME NEW t \in Transport, NEW v \in Outcome
  PROVE  /\ ReplyOn(t, v) \in Reply
         /\ ReplyOn(t, v).verified <=> v = "accepted"
         /\ Final(ReplyOn(t, v)) <=> v \in StoreError \cup {"bad_request"}
         /\ ReplyOn(t, v).code \in Code("ErrChallengeExpired")
              => v \in {"ErrChallengeExpired", "ErrChallengeConsumed", "bad_request"}
         /\ ReplyOn(t, v) \in Answers("ErrDuplicateNullifier")
              => v = "ErrDuplicateNullifier"
         /\ ReplyOn(t, v) \in Answers("ErrChallengeNotFound")
              => v = "ErrChallengeNotFound"
         /\ ReplyOn(t, v) = HTTPReply("ErrChallengeConsumed")
              => v = "ErrChallengeConsumed"
<1>1. /\ "ErrChallengeExpired" \in Outcome /\ "ErrDuplicateNullifier" \in Outcome
      /\ "ErrChallengeNotFound" \in Outcome /\ "ErrChallengeConsumed" \in Outcome
      /\ HTTPCode \cap GRPCCode = {}
  BY DEF Outcome, StoreError, HTTPCode, GRPCCode
<1>2. Code("ErrChallengeExpired") = {"400", "FailedPrecondition"}
  <2>1. /\ HTTPReply("ErrChallengeExpired").code = "400"
        /\ GRPCReply("ErrChallengeExpired").code = "FailedPrecondition"
    BY <1>1, HTTPReplies, GRPCReplies
  <2> QED BY <2>1 DEF Code, Answers
<1>3. /\ \A x \in Outcome : HTTPReply(x).code \in HTTPCode
      /\ \A x \in Outcome : GRPCReply(x).code \in GRPCCode
  BY HTTPReplies, GRPCReplies
<1>4. CASE t = "http"
  <2>1. ReplyOn(t, v) = HTTPReply(v)
    BY <1>4 DEF ReplyOn
  <2>2. \A x \in Outcome : HTTPReply(v) # GRPCReply(x)
    BY <1>1, <1>3
  <2> QED BY <1>1, <1>2, <2>1, <2>2, HTTPReplies DEF Answers
<1>5. CASE t = "grpc"
  <2>1. ReplyOn(t, v) = GRPCReply(v)
    BY <1>5 DEF ReplyOn
  <2>2. \A x \in Outcome : GRPCReply(v) # HTTPReply(x)
    BY <1>1, <1>3
  <2> QED BY <1>1, <1>2, <2>1, <2>2, GRPCReplies DEF Answers
<1> QED BY <1>4, <1>5 DEF Transport
-----------------------------------------------------------------------------
(***************************************************************************)
(* Data.                                                                   *)
(***************************************************************************)
LEMMA CallFields ==
  ASSUME NEW c \in Call
  PROVE  /\ c # None
         /\ c.transport \in Transport
         /\ c.op \in {"create", "get", "expiry", "announce", "verify", "respond"}
         /\ c.op \in {"get", "expiry", "announce"} => c.challenge \in Challenge
         /\ c.op \in {"expiry", "announce"} => c.deadline \in Nat
         /\ c.op \in {"verify", "respond"} => c.proof \in Proof
         /\ c.op = "respond" => c.outcome \in Decision
BY TransportAssumption DEF Call

LEMMA ProofFields ==
  ASSUME NEW p \in Proof
  PROVE  p.nullifier \in Nullifier /\ p.challenge \in Challenge
         /\ p.proof_type \in ProofKey
BY DEF Proof

LEMMA RowFields ==
  ASSUME TypesOK, NEW c \in Challenge, challenges[c] # NoRow
  PROVE  /\ challenges[c] \in ChallengeRow
         /\ challenges[c].expires_at \in Nat
         /\ challenges[c].consumed \in BOOLEAN
BY DEF TypesOK, ChallengeRow

LEMMA Clock ==
  ASSUME TypesOK
  PROVE  now \in Nat /\ now + TTL \in Nat
BY StoreAssumption, TransportAssumption DEF TypesOK

\* What the expires_at column keeps of a deadline: no more than the fraction
\* of a second is lost.
LEMMA StoredDeadline ==
  ASSUME NEW t \in Nat
  PROVE  /\ StoredTime(t) \in Nat /\ StoredTime(t) <= t
         /\ t - (TicksPerSecond - 1) <= StoredTime(t)
BY StoreAssumption DEF StoredTime

LEMMA IssuedDeadline ==
  ASSUME TypesOK, NEW c \in drawn
  PROVE  /\ c \in Challenge /\ issued[c] \in Nat
         /\ StoredTime(issued[c]) \in Nat
BY StoredDeadline DEF TypesOK, drawn

LEMMA NewRow ==
  ASSUME NEW t \in Nat
  PROVE  /\ NewChallengeRow(t) \in ChallengeRow
         /\ NewChallengeRow(t) # NoRow
         /\ NewChallengeRow(t).expires_at = StoredTime(t)
         /\ NewChallengeRow(t).consumed = FALSE
<1>1. NewChallengeRow(t) \in ChallengeRow
  BY StoredDeadline DEF NewChallengeRow, ChallengeRow
<1> QED BY <1>1, StoreAssumption DEF NewChallengeRow

LEMMA VerdictCases ==
  ASSUME NEW c \in Challenge
  PROVE  /\ ChallengeVerdict(challenges, c, now) = "valid" =>
              /\ challenges[c] # NoRow
              /\ ~ IsExpired(challenges[c], now)
              /\ ~ challenges[c].consumed
         /\ ChallengeVerdict(challenges, c, now) # "valid" =>
              ChallengeVerdict(challenges, c, now) \in
                StoreError \ {"ErrDuplicateNullifier"}
         /\ ChallengeVerdict(challenges, c, now) = "ErrChallengeNotFound" =>
              challenges[c] = NoRow
         /\ ChallengeVerdict(challenges, c, now) = "ErrChallengeExpired" =>
              challenges[c] # NoRow /\ IsExpired(challenges[c], now)
         /\ ChallengeVerdict(challenges, c, now) = "ErrChallengeConsumed" =>
              challenges[c] # NoRow /\ challenges[c].consumed
BY DEF ChallengeVerdict, StoreError
-----------------------------------------------------------------------------
(***************************************************************************)
(* What a step leaves alone.                                               *)
(***************************************************************************)
\* Time goes on, values are not drawn again, and the row of a drawn challenge
\* is there only if it was there before and nothing was wiped.
Onward ==
  /\ \A c \in drawn : c \in drawn' /\ issued'[c] = issued[c]
  /\ now <= now'
  /\ \A c \in drawn :
       challenges'[c] # NoRow =>
         /\ challenges[c] # NoRow
         /\ challenges'[c].expires_at = challenges[c].expires_at
         /\ challenges[c].consumed => challenges'[c].consumed
         /\ \A n \in Nullifier : Recorded(n) => verifications'[n] = verifications[n]

\* Nothing was wiped.
Kept ==
  /\ \A c \in Challenge :
       challenges[c] # NoRow =>
         /\ challenges'[c] # NoRow
         /\ challenges[c].consumed => challenges'[c].consumed
  /\ \A n \in Nullifier : Recorded(n) => verifications'[n] = verifications[n]

LEMMA HopelessStays ==
  ASSUME TypesOK, TypesOK', Onward, NEW p \in Proof, Hopeless(p)
  PROVE  Hopeless(p)'
<1>1. p.challenge \in drawn /\ p.challenge \in drawn' /\ p.nullifier \in Nullifier
  BY ProofFields DEF Hopeless, Onward
<1>2. CASE challenges'[p.challenge] = NoRow
  BY <1>1, <1>2 DEF Hopeless
<1>3. CASE challenges'[p.challenge] # NoRow
  <2>1. /\ challenges[p.challenge] # NoRow
        /\ challenges'[p.challenge].expires_at = challenges[p.challenge].expires_at
        /\ challenges[p.challenge].consumed => challenges'[p.challenge].consumed
        /\ Recorded(p.nullifier) => Recorded(p.nullifier)'
    BY <1>1, <1>3 DEF Onward, Recorded
  <2>2. now' \in Nat
    BY TransportAssumption DEF TypesOK
  <2>3. challenges[p.challenge].expires_at \in Nat /\ now \in Nat /\ now <= now'
    BY <2>1, RowFields, Clock, ProofFields DEF Onward
  <2>4. CASE IsExpired(challenges[p.challenge], now)
    BY <1>1, <2>1, <2>2, <2>3, <2>4 DEF Hopeless, IsExpired
  <2>5. CASE challenges[p.challenge].consumed \/ Recorded(p.nullifier)
    BY <1>1, <2>1, <2>5 DEF Hopeless
  <2> QED BY <2>1, <2>4, <2>5 DEF Hopeless
<1> QED BY <1>2, <1>3

\* A refusal decided for good is one still when it is sent, wipe or no wipe.
LEMMA StaysTrueStays ==
  ASSUME TypesOK, TypesOK', Onward, NEW p \in Proof, NEW v \in Decision,
         p.challenge \in drawn, StaysTrue(p, v)
  PROVE  StaysTrue(p, v)'
<1>1. v \in StoreError => Hopeless(p)'
  BY HopelessStays DEF StaysTrue
<1>2. v = "ErrChallengeNotFound" => challenges'[p.challenge] = NoRow
  BY DEF StaysTrue, Onward
<1>3. v = "ErrChallengeExpired" => now' > StoredTime(issued'[p.challenge])
  <2>1. now \in Nat /\ now' \in Nat /\ now <= now'
    BY TransportAssumption DEF TypesOK, Onward
  <2>2. issued'[p.challenge] = issued[p.challenge]
    BY DEF Onward
  <2> QED BY <2>1, <2>2, IssuedDeadline DEF StaysTrue
<1> QED BY <1>1, <1>2, <1>3 DEF StaysTrue

LEMMA HoldsStays ==
  ASSUME Kept, NEW p \in Proof, NEW v, HoldsUntilWipe(p, v)
  PROVE  HoldsUntilWipe(p, v)'
<1>1. /\ p.nullifier \in Nullifier /\ p.challenge \in Challenge
  BY ProofFields
<1>2. Recorded(p.nullifier) =>
        Recorded(p.nullifier)' /\ verifications'[p.nullifier] = verifications[p.nullifier]
  BY <1>1 DEF Kept, Recorded
<1> QED BY <1>1, <1>2 DEF Kept, HoldsUntilWipe

\* The call of a session that a step does not advance.
LEMMA SessionStays ==
  ASSUME TypesOK, TypesOK', Onward, NEW q \in Session, AtSession(q),
         call'[q] = call[q], q \in voided => q \in voided',
         Kept \/ (Waiting(q, "respond") => q \in voided')
  PROVE  AtSession(q)'
<1>1. CASE Waiting(q, "expiry") \/ Waiting(q, "announce") \/ Waiting(q, "verify")
  BY <1>1 DEF AtSession, Waiting, Onward
<1>2. CASE Waiting(q, "respond")
  <2>1. PICK p \in Proof, v \in Decision : p = call[q].proof /\ v = call[q].outcome
    BY <1>2, CallFields DEF Waiting, TypesOK
  <2>2. /\ p.challenge \in drawn /\ StaysTrue(p, v)
        /\ q \in voided \/ HoldsUntilWipe(p, v)
    BY <1>2, <2>1 DEF AtSession
  <2>3. StaysTrue(p, v)' /\ p.challenge \in drawn'
    BY <2>2, StaysTrueStays DEF Onward
  <2>4. q \in voided' \/ HoldsUntilWipe(p, v)'
    BY <1>2, <2>2, HoldsStays
  <2> QED BY <1>2, <2>1, <2>3, <2>4 DEF AtSession, Waiting
<1>3. CASE \A op \in {"expiry", "announce", "verify", "respond"} : ~ Waiting(q, op)
  BY <1>3 DEF AtSession, Waiting
<1> QED BY <1>1, <1>2, <1>3

\* What there is to show of a step of one session.
LEMMA StepIInv ==
  ASSUME IInv, NEW s \in Session, Onward, Kept,
         TypesOK', RowsIssued', AnnouncedIssued', TablesAgree', AtSession(s)',
         \A q \in Session \ {s} :
           call'[q] = call[q] /\ (q \in voided => q \in voided'),
         \A p \in refused' : p \in refused \/ Hopeless(p)
  PROVE  IInv'
<1>1. \A q \in Session : AtSession(q)'
  BY SessionStays DEF IInv
<1>2. RefusedForGood'
  BY HopelessStays DEF IInv, TypesOK, RefusedForGood
<1> QED BY <1>1, <1>2 DEF IInv

\* A step that leaves the tables alone.
LEMMA SameTables ==
  ASSUME IInv, UNCHANGED <<tables, now>>
  PROVE  Onward /\ Kept /\ RowsIssued' /\ TablesAgree'
<1>1. Onward
  BY Clock DEF IInv, Onward, tables, drawn
<1>2. Kept
  BY DEF Kept, tables
<1>3. RowsIssued' /\ TablesAgree'
  BY DEF IInv, RowsIssued, TablesAgree, Recorded, tables, drawn
<1> QED BY <1>1, <1>2, <1>3

LEMMA SameAnnouncements ==
  ASSUME IInv, Onward, UNCHANGED announced
  PROVE  AnnouncedIssued'
BY DEF IInv, AnnouncedIssued, Onward

\* The calls after a step of s.
LEMMA CallsAfter ==
  ASSUME IInv, NEW s \in Session, NEW c \in Call \cup {None},
         call' = [call EXCEPT ![s] = c]
  PROVE  /\ call' \in [Session -> Call \cup {None}]
         /\ call'[s] = c
         /\ \A q \in Session \ {s} : call'[q] = call[q]
BY DEF IInv, TypesOK

\* If only the call of s is concerned, there is little to show.
LEMMA OneCall ==
  ASSUME IInv, UNCHANGED <<tables, now, history>>, NEW s \in Session,
         ~ Waiting(s, "respond"), NEW c \in Call \cup {None},
         call' = [call EXCEPT ![s] = c], reply' \in Reply \cup {None},
         AtSession(s)'
  PROVE  IInv'
<1>1. /\ call' \in [Session -> Call \cup {None}]
      /\ \A q \in Session \ {s} : call'[q] = call[q]
  BY CallsAfter
<1>2. Onward /\ Kept /\ RowsIssued' /\ TablesAgree' /\ AnnouncedIssued'
  BY SameTables, SameAnnouncements DEF history
<1>3. voided' \subseteq {q \in Session : Waiting(q, "respond")'}
  BY <1>1 DEF IInv, TypesOK, Waiting, history
<1>4. TypesOK'
  BY <1>1, <1>3 DEF IInv, TypesOK, tables, history
<1> QED BY <1>1, <1>2, <1>4, StepIInv DEF history

\* An answered session waits for nothing.
LEMMA AnswerCalls ==
  ASSUME IInv, NEW s \in Session, NEW r, Answer(s, r)
  PROVE  /\ call' = [call EXCEPT ![s] = None]
         /\ call' \in [Session -> Call \cup {None}]
         /\ call'[s] = None
         /\ \A q \in Session \ {s} : call'[q] = call[q]
         /\ AtSession(s)'
<1>1. /\ call' = [call EXCEPT ![s] = None]
      /\ call' \in [Session -> Call \cup {None}] /\ call'[s] = None
      /\ \A q \in Session \ {s} : call'[q] = call[q]
  BY CallsAfter DEF Answer
<1> QED BY <1>1 DEF AtSession, Waiting
-----------------------------------------------------------------------------
(***************************************************************************)
(* The invariant, step by step: first the steps that write no table.       *)
(***************************************************************************)
LEMMA InitIInv == Init => IInv
<1> SUFFICES ASSUME Init PROVE IInv
  OBVIOUS
<1>1. 0 \in 0..MaxTime
  BY TransportAssumption
<1>2. /\ challenges \in [Challenge -> ChallengeRow \cup {NoRow}]
      /\ verifications \in [Nullifier -> VerificationRow \cup {NoRow}]
      /\ call \in [Session -> Call \cup {None}]
      /\ issued \in [Challenge -> Nat \cup {Undrawn}]
  BY DEF Init, EmptyChallenges, EmptyVerifications
<1>3. TypesOK
  BY <1>1, <1>2 DEF Init, TypesOK
<1> QED
  BY <1>3
  DEF Init, IInv, RowsIssued, AnnouncedIssued, TablesAgree, Recorded, AtSession, Waiting,
      RefusedForGood, EmptyChallenges, EmptyVerifications

\* A call that has not been read yet.
LEMMA SendIInv ==
  ASSUME IInv, NEW s \in Session, NEW c \in Call, Send(s, c),
         c.op \in {"create", "get", "verify"},
         c.op = "verify" => c.proof.challenge \in drawn
  PROVE  IInv'
<1>1. /\ call' = [call EXCEPT ![s] = c] /\ reply' = None
      /\ UNCHANGED <<tables, now, history>> /\ ~ Waiting(s, "respond")
  BY DEF Send, Idle, Waiting
<1>2. call'[s] = c
  BY <1>1, CallsAfter
<1>3. AtSession(s)'
  BY <1>1, <1>2 DEF AtSession, Waiting, tables, drawn
<1> QED BY <1>1, <1>3, OneCall

LEMMA AskIInv ==
  ASSUME IInv, NEW s \in Session, Ask(s)
  PROVE  IInv'
<1>1. PICK t \in Transport : Send(s, [op |-> "create", transport |-> t])
  BY DEF Ask
<1>2. [op |-> "create", transport |-> t] \in Call
  BY DEF Call
<1> QED BY <1>1, <1>2, SendIInv

LEMMA LookUpIInv ==
  ASSUME IInv, NEW s \in Session, LookUp(s)
  PROVE  IInv'
<1>1. PICK t \in Transport, d \in drawn :
        Send(s, [op |-> "get", transport |-> t, challenge |-> d])
  BY DEF LookUp
<1>2. [op |-> "get", transport |-> t, challenge |-> d] \in Call
  BY DEF Call, drawn
<1> QED BY <1>1, <1>2, SendIInv

LEMMA SubmitIInv ==
  ASSUME IInv, NEW s \in Session, Submit(s)
  PROVE  IInv'
<1>1. PICK t \in Transport, p \in Proof :
        /\ p.challenge \in drawn
        /\ Send(s, [op |-> "verify", transport |-> t, proof |-> p])
  BY DEF Submit
<1>2. [op |-> "verify", transport |-> t, proof |-> p] \in Call
  BY DEF Call
<1> QED BY <1>1, <1>2, SendIInv

LEMMA RefuseIInv ==
  ASSUME IInv, NEW s \in Session, Refuse(s)
  PROVE  IInv'
<1>1. PICK t \in Transport : reply' = ReplyOn(t, "bad_request")
  BY DEF Refuse
<1>2. reply' \in Reply
  BY <1>1, Replies DEF Outcome
<1>3. /\ UNCHANGED call /\ UNCHANGED <<tables, now, history>>
      /\ call[s] = None
  BY DEF Refuse, Idle
<1>4. call' = [call EXCEPT ![s] = None]
  BY <1>3 DEF IInv, TypesOK
<1>5. AtSession(s)' /\ ~ Waiting(s, "respond")
  BY <1>3 DEF AtSession, Waiting
<1> QED BY <1>2, <1>3, <1>4, <1>5, OneCall

LEMMA ReadChallengeIInv ==
  ASSUME IInv, NEW s \in Session, ReadChallenge(s)
  PROVE  IInv'
<1>1. PICK c \in Challenge, t \in Transport :
        c = call[s].challenge /\ t = call[s].transport
  BY CallFields DEF ReadChallenge, Waiting, IInv, TypesOK
<1>2. UNCHANGED <<tables, now, history>> /\ ~ Waiting(s, "respond")
  BY DEF ReadChallenge, Waiting
<1>3. CASE Answer(s, ReplyOn(t, "ErrChallengeNotFound"))
  <2>1. reply' \in Reply
    BY <1>3, Replies DEF Answer, Outcome, StoreError
  <2>2. call' = [call EXCEPT ![s] = None] /\ AtSession(s)'
    BY <1>3, AnswerCalls
  <2> QED BY <1>2, <2>1, <2>2, OneCall
<1>4. CASE /\ challenges[c] # NoRow
           /\ call' = [call EXCEPT ![s] =
                [op |-> "expiry", transport |-> t, challenge |-> c,
                 deadline |-> challenges[c].expires_at]]
           /\ reply' = None
  <2>1. PICK d \in Nat : d = challenges[c].expires_at
    BY <1>4, RowFields DEF IInv
  <2>2. PICK x : x = [op |-> "expiry", transport |-> t, challenge |-> c,
                      deadline |-> d]
    OBVIOUS
  <2>3. /\ x \in Call /\ x # None /\ x.op = "expiry"
        /\ x.challenge = c /\ x.deadline = d
    BY <2>2, CallFields DEF Call
  <2>4. call' = [call EXCEPT ![s] = x]
    BY <1>4, <2>1, <2>2
  <2>5. call'[s] = x
    BY <2>3, <2>4, CallsAfter
  <2>6. c \in drawn /\ d = StoredTime(issued[c])
    BY <1>4, <2>1 DEF IInv, RowsIssued
  <2>7. AtSession(s)'
    BY <1>2, <2>3, <2>5, <2>6 DEF AtSession, Waiting, tables, drawn
  <2> QED BY <1>2, <1>4, <2>3, <2>4, <2>7, OneCall
<1> QED BY <1>1, <1>3, <1>4 DEF ReadChallenge

LEMMA StoreFailsIInv ==
  ASSUME IInv, NEW s \in Session, StoreFails(s)
  PROVE  IInv'
<1>1. call[s] \in Call /\ call[s].transport \in Transport
  BY CallFields DEF StoreFails, Waiting, IInv, TypesOK
<1>2. Answer(s, ReplyOn(call[s].transport, "error")) /\ ~ Waiting(s, "respond")
  BY DEF StoreFails, Waiting
<1>3. reply' \in Reply
  BY <1>1, <1>2, Replies DEF Answer, Outcome, AnchorError
<1>4. call' = [call EXCEPT ![s] = None] /\ AtSession(s)'
  BY <1>2, AnswerCalls
<1> QED BY <1>2, <1>3, <1>4, OneCall DEF StoreFails
-----------------------------------------------------------------------------
(***************************************************************************)
(* The steps that issue a challenge and tell its deadline.                 *)
(***************************************************************************)
LEMMA CreateChallengeIInv ==
  ASSUME IInv, NEW s \in Session, NEW c \in Challenge, CreateChallenge(s, c)
  PROVE  IInv'
<1>1. PICK d \in Nat, row \in ChallengeRow :
        d = now + TTL /\ row = NewChallengeRow(d)
  BY Clock, NewRow DEF IInv
<1>2. /\ row # NoRow /\ row.expires_at = StoredTime(d)
  BY <1>1, NewRow
<1>3. PICK t \in Transport : t = call[s].transport
  BY CallFields DEF CreateChallenge, Waiting, IInv, TypesOK
<1>4. PICK x : x = [op |-> "announce", transport |-> t, challenge |-> c, deadline |-> d]
  OBVIOUS
<1>5. /\ x \in Call /\ x # None /\ x.op = "announce"
      /\ x.challenge = c /\ x.deadline = d
  BY <1>4, CallFields DEF Call
<1>6. /\ c \notin drawn /\ ~ Waiting(s, "respond")
      /\ challenges' = [challenges EXCEPT ![c] = row]
      /\ issued' = [issued EXCEPT ![c] = d]
      /\ call' = [call EXCEPT ![s] = x]
      /\ reply' = None
      /\ UNCHANGED <<verifications, now, history>>
  BY <1>1, <1>3, <1>4 DEF CreateChallenge, Waiting
<1>7. /\ issued' \in [Challenge -> Nat \cup {Undrawn}]
      /\ issued'[c] = d /\ d # Undrawn
      /\ \A y \in Challenge : y # c => issued'[y] = issued[y]
  BY <1>6 DEF IInv, TypesOK, Undrawn
<1>8. /\ c \in drawn' /\ drawn \subseteq drawn'
      /\ \A y \in drawn : y # c /\ issued'[y] = issued[y]
  BY <1>6, <1>7 DEF drawn
<1>9. /\ challenges' \in [Challenge -> ChallengeRow \cup {NoRow}]
      /\ challenges'[c] = row /\ challenges[c] = NoRow
      /\ \A y \in Challenge : y # c => challenges'[y] = challenges[y]
  BY <1>6 DEF IInv, TypesOK, RowsIssued
<1>10. /\ call' \in [Session -> Call \cup {None}] /\ call'[s] = x
       /\ \A q \in Session \ {s} : call'[q] = call[q]
  BY <1>5, <1>6, CallsAfter
<1>11. TypesOK'
  <2>1. voided' \subseteq {q \in Session : Waiting(q, "respond")'}
    BY <1>6, <1>10 DEF IInv, TypesOK, Waiting, history
  <2> QED BY <1>6, <1>7, <1>9, <1>10, <2>1 DEF IInv, TypesOK, history
<1>12. Onward
  BY <1>6, <1>8, <1>9, Clock DEF IInv, Onward, drawn
<1>13. Kept
  BY <1>6, <1>9 DEF Kept
<1>14. RowsIssued'
  <2> SUFFICES ASSUME NEW y \in Challenge, challenges'[y] # NoRow
               PROVE  y \in drawn' /\ challenges'[y].expires_at = StoredTime(issued'[y])
    BY DEF RowsIssued
  <2>1. CASE y = c
    BY <1>2, <1>7, <1>8, <1>9, <2>1
  <2>2. CASE y # c
    BY <1>7, <1>8, <1>9, <2>2 DEF IInv, RowsIssued
  <2> QED BY <2>1, <2>2
<1>15. AnnouncedIssued'
  BY <1>6, <1>12, SameAnnouncements DEF history
<1>16. TablesAgree'
  <2> SUFFICES ASSUME NEW n \in Nullifier, Recorded(n)'
               PROVE  /\ challenges'[verifications'[n].challenge] # NoRow
                      /\ challenges'[verifications'[n].challenge].consumed
    BY DEF TablesAgree
  <2>1. Recorded(n) /\ verifications[n].challenge \in Challenge
    BY <1>6 DEF IInv, TypesOK, Recorded, VerificationRow
  <2>2. verifications[n].challenge # c
    BY <1>9, <2>1 DEF IInv, TablesAgree
  <2> QED BY <1>6, <1>9, <2>1, <2>2 DEF IInv, TablesAgree
<1>17. AtSession(s)'
  BY <1>5, <1>7, <1>8, <1>10 DEF AtSession, Waiting
<1> QED
  BY <1>6, <1>10, <1>11, <1>12, <1>13, <1>14, <1>15, <1>16, <1>17, StepIInv DEF history

\* A step that tells s a deadline, and answers it.
LEMMA TellIInv ==
  ASSUME IInv, NEW s \in Session, ~ Waiting(s, "respond"),
         UNCHANGED <<tables, now, refused, voided>>,
         NEW r \in Reply, Answer(s, r),
         NEW a \in Announcement, announced' = announced \cup {a},
         a.challenge \in drawn,
         a.deadline = IF a.whole THEN StoredTime(issued[a.challenge])
                      ELSE issued[a.challenge]
  PROVE  IInv'
<1>1. /\ call' \in [Session -> Call \cup {None}]
      /\ \A q \in Session \ {s} : call'[q] = call[q]
      /\ AtSession(s)' /\ reply' = r
  BY AnswerCalls DEF Answer
<1>2. Onward /\ Kept /\ RowsIssued' /\ TablesAgree'
  BY SameTables
<1>3. AnnouncedIssued'
  <2> SUFFICES ASSUME NEW b \in announced'
               PROVE  /\ b.challenge \in drawn'
                      /\ b.deadline = IF b.whole THEN StoredTime(issued'[b.challenge])
                                      ELSE issued'[b.challenge]
    BY DEF AnnouncedIssued
  <2>1. /\ b.challenge \in drawn
        /\ b.deadline = IF b.whole THEN StoredTime(issued[b.challenge])
                        ELSE issued[b.challenge]
    BY DEF IInv, AnnouncedIssued
  <2> QED BY <1>2, <2>1 DEF Onward
<1>4. TypesOK'
  <2>1. voided' \subseteq {q \in Session : Waiting(q, "respond")'}
    BY <1>1 DEF IInv, TypesOK, Waiting
  <2> QED BY <1>1, <2>1 DEF IInv, TypesOK, tables
<1> QED BY <1>1, <1>2, <1>3, <1>4, StepIInv

LEMMA AnnounceIInv ==
  ASSUME IInv, NEW s \in Session, Announce(s)
  PROVE  IInv'
<1>1. PICK c \in Challenge, t \in Transport, d \in Nat :
        c = call[s].challenge /\ t = call[s].transport /\ d = call[s].deadline
  BY CallFields DEF Announce, Waiting, IInv, TypesOK
<1>2. c \in drawn /\ d = issued[c] /\ StoredTime(d) \in Nat
  BY <1>1, StoredDeadline DEF Announce, IInv, AtSession
<1>3. PICK a : a = [challenge |-> c,
                    deadline |-> IF t = "http" THEN d ELSE StoredTime(d),
                    whole |-> t # "http"]
  OBVIOUS
<1>4. a \in Announcement /\ a.challenge = c
      /\ a.deadline = IF a.whole THEN StoredTime(issued[c]) ELSE issued[c]
  BY <1>2, <1>3 DEF Announcement
<1>5. /\ announced' = announced \cup {a} /\ Answer(s, Success(t))
      /\ UNCHANGED <<tables, now, refused, voided>> /\ ~ Waiting(s, "respond")
  BY <1>1, <1>3 DEF Announce, Waiting
<1>6. Success(t) \in Reply
  BY PlainIsReply DEF Success, HTTPCode, GRPCCode
<1> QED BY <1>2, <1>4, <1>5, <1>6, TellIInv

LEMMA CheckLiveIInv ==
  ASSUME IInv, NEW s \in Session, CheckLive(s)
  PROVE  IInv'
<1>1. PICK c \in Challenge, t \in Transport, d \in Nat :
        c = call[s].challenge /\ t = call[s].transport /\ d = call[s].deadline
  BY CallFields DEF CheckLive, Waiting, IInv, TypesOK
<1>2. c \in drawn /\ d = StoredTime(issued[c])
  BY <1>1 DEF CheckLive, IInv, AtSession
<1>3. UNCHANGED <<tables, now, refused, voided>> /\ ~ Waiting(s, "respond")
  BY DEF CheckLive, Waiting
<1>4. CASE UNCHANGED announced /\ Answer(s, ReplyOn(t, "ErrChallengeExpired"))
  <2>1. reply' \in Reply
    BY <1>4, Replies DEF Answer, Outcome, StoreError
  <2>2. call' = [call EXCEPT ![s] = None] /\ AtSession(s)'
    BY <1>4, AnswerCalls
  <2>3. UNCHANGED <<tables, now, history>>
    BY <1>3, <1>4 DEF history
  <2> QED BY <1>3, <2>1, <2>2, <2>3, OneCall
<1>5. ASSUME NEW a, a = [challenge |-> c, deadline |-> d, whole |-> TRUE],
             announced' = announced \cup {a}, Answer(s, Success(t))
      PROVE  IInv'
  <2>1. a \in Announcement /\ a.challenge = c /\ a.deadline = d /\ a.whole = TRUE
    BY <1>5 DEF Announcement
  <2>2. Success(t) \in Reply
    BY PlainIsReply DEF Success, HTTPCode, GRPCCode
  <2> QED BY <1>2, <1>3, <1>5, <2>1, <2>2, TellIInv
<1> QED BY <1>1, <1>4, <1>5 DEF CheckLive
-----------------------------------------------------------------------------
(***************************************************************************)
(* The steps that decide about a proof and answer it.                      *)
(***************************************************************************)
LEMMA Submitted ==
  ASSUME IInv, NEW s \in Session, Waiting(s, "verify") \/ Waiting(s, "respond")
  PROVE  /\ call[s].transport \in Transport
         /\ call[s].proof \in Proof /\ call[s].proof.challenge \in drawn
         /\ call[s].proof.nullifier \in Nullifier
         /\ call[s].proof.challenge \in Challenge
         /\ Waiting(s, "respond") => call[s].outcome \in Decision
BY CallFields, ProofFields DEF Waiting, IInv, TypesOK, AtSession

\* An answer to a proof; if it is final, there is a reason that lasts.
LEMMA ReportIInv ==
  ASSUME IInv, NEW s \in Session, Waiting(s, "verify") \/ Waiting(s, "respond"),
         NEW v \in Outcome \ {"bad_request"},
         v \in StoreError => Hopeless(call[s].proof),
         Report(s, v)
  PROVE  IInv'
<1>1. PICK t \in Transport, p \in Proof :
        t = call[s].transport /\ p = call[s].proof
  BY Submitted
<1>2. /\ ReplyOn(t, v) \in Reply
      /\ Final(ReplyOn(t, v)) => v \in StoreError
  BY Replies
<1>3. /\ Answer(s, ReplyOn(t, v)) /\ voided' = voided \ {s}
      /\ UNCHANGED <<tables, now, announced>>
      /\ refused' = IF Final(ReplyOn(t, v)) THEN refused \cup {p} ELSE refused
  BY <1>1 DEF Report
<1>4. \A x \in refused' : x \in refused \/ Hopeless(x)
  BY <1>1, <1>2, <1>3
<1>5. /\ call' \in [Session -> Call \cup {None}] /\ reply' \in Reply
      /\ \A q \in Session \ {s} : call'[q] = call[q]
      /\ AtSession(s)'
  BY <1>2, <1>3, AnswerCalls DEF Answer
<1>6. TypesOK'
  <2>1. voided' \subseteq {q \in Session : Waiting(q, "respond")'}
    BY <1>3, <1>5 DEF IInv, TypesOK, Waiting
  <2>2. refused' \subseteq Proof
    BY <1>3 DEF IInv, TypesOK
  <2> QED BY <1>3, <1>5, <2>1, <2>2 DEF IInv, TypesOK, tables
<1>7. Onward /\ Kept /\ RowsIssued' /\ TablesAgree' /\ AnnouncedIssued'
  BY <1>3, SameTables, SameAnnouncements
<1>8. \A q \in Session \ {s} : q \in voided => q \in voided'
  BY <1>3
<1> QED BY <1>4, <1>5, <1>6, <1>7, <1>8, StepIInv

LEMMA VerifyFailsIInv ==
  ASSUME IInv, NEW s \in Session, VerifyFails(s)
  PROVE  IInv'
<1>1. PICK v \in Reason \cup AnchorError : Report(s, v)
  BY DEF VerifyFails
<1>2. v \in Outcome \ {"bad_request"} /\ v \notin StoreError
  BY DEF Outcome, Reason, AnchorError, StoreError
<1> QED BY <1>1, <1>2, ReportIInv DEF VerifyFails

LEMMA RespondIInv ==
  ASSUME IInv, NEW s \in Session, Respond(s)
  PROVE  IInv'
<1>1. PICK v \in Decision : v = call[s].outcome
  BY Submitted DEF Respond
<1>2. v \in Outcome \ {"bad_request"}
  BY DEF Outcome, Decision, StoreError
<1>3. v \in StoreError => Hopeless(call[s].proof)
  BY <1>1 DEF Respond, IInv, AtSession, StaysTrue
<1>4. Report(s, v)
  BY <1>1 DEF Respond
<1> QED BY <1>2, <1>3, <1>4, ReportIInv DEF Respond

\* VerifyAndRecord as a client may come to see it: nothing is recorded and
\* there is a reason, or the proof is recorded.
Rejects(s, v) ==
  LET p == call[s].proof
  IN
  /\ Waiting(s, "verify") /\ v \in StoreError
  /\ StaysTrue(p, v) /\ HoldsUntilWipe(p, v)
  /\ Decide(s, v)
  /\ UNCHANGED <<challenges, verifications>>

Accepts(s) ==
  LET p == call[s].proof
  IN
  /\ Waiting(s, "verify")
  /\ challenges[p.challenge] # NoRow
  /\ ~ IsExpired(challenges[p.challenge], now)
  /\ ~ challenges[p.challenge].consumed
  /\ ~ Recorded(p.nullifier)
  /\ verifications' = [verifications EXCEPT ![p.nullifier] =
                         [challenge |-> p.challenge, proof_type |-> p.proof_type]]
  /\ challenges' = [challenges EXCEPT ![p.challenge].consumed = TRUE]
  /\ Decide(s, "accepted")

LEMMA RejectsOrAccepts ==
  ASSUME IInv, NEW s \in Session, VerifyAndRecord(s)
  PROVE  Accepts(s) \/ \E v \in StoreError : Rejects(s, v)
<1> DEFINE p == call[s].proof  v == ChallengeVerdict(challenges, p.challenge, now)
<1>1. /\ Waiting(s, "verify")
      /\ p.challenge \in Challenge /\ p.challenge \in drawn /\ p.nullifier \in Nullifier
  BY Submitted DEF VerifyAndRecord
<1>2. CASE v # "valid"
  <2>1. Decide(s, v) /\ UNCHANGED <<challenges, verifications>>
    BY <1>2 DEF VerifyAndRecord
  <2>2. v \in StoreError \ {"ErrDuplicateNullifier"}
    BY <1>1, <1>2, VerdictCases
  <2>3. Hopeless(p)
    BY <1>1, <2>2, VerdictCases DEF Hopeless, StoreError
  <2>4. v = "ErrChallengeExpired" => now > StoredTime(issued[p.challenge])
    BY <1>1, VerdictCases DEF IInv, RowsIssued, IsExpired
  <2>5. StaysTrue(p, v)
    BY <1>1, <2>3, <2>4, VerdictCases DEF StaysTrue
  <2>6. HoldsUntilWipe(p, v)
    BY <1>1, <2>2, VerdictCases DEF HoldsUntilWipe, StoreError
  <2>7. Rejects(s, v)
    BY <1>1, <2>1, <2>2, <2>5, <2>6 DEF Rejects
  <2> QED BY <2>2, <2>7
<1>3. CASE v = "valid" /\ Recorded(p.nullifier)
  <2>1. Decide(s, "ErrDuplicateNullifier") /\ UNCHANGED <<challenges, verifications>>
    BY <1>3 DEF VerifyAndRecord, Recorded
  <2>2. StaysTrue(p, "ErrDuplicateNullifier")
    BY <1>1, <1>3 DEF StaysTrue, Hopeless
  <2>3. HoldsUntilWipe(p, "ErrDuplicateNullifier")
    BY <1>1, <1>3, VerdictCases DEF HoldsUntilWipe, IInv, TablesAgree
  <2>4. "ErrDuplicateNullifier" \in StoreError
    BY DEF StoreError
  <2>5. Rejects(s, "ErrDuplicateNullifier")
    BY <1>1, <2>1, <2>2, <2>3, <2>4 DEF Rejects
  <2> QED BY <2>4, <2>5
<1>4. CASE v = "valid" /\ ~ Recorded(p.nullifier)
  BY <1>1, <1>4, VerdictCases
  DEF VerifyAndRecord, Accepts, Recorded, WithVerification, WithConsumed
<1> QED BY <1>2, <1>3, <1>4

\* The call of a session about whose proof the service has decided.
LEMMA DecideCalls ==
  ASSUME IInv, NEW s \in Session, Waiting(s, "verify"), NEW v \in Decision, Decide(s, v),
         NEW p, p = call[s].proof
  PROVE  \E c \in Call :
           /\ c.op = "respond" /\ c.proof = p /\ c.outcome = v
           /\ call' = [call EXCEPT ![s] = c]
           /\ call'[s] = c
           /\ \A q \in Session \ {s} : call'[q] = call[q]
           /\ call' \in [Session -> Call \cup {None}]
           /\ reply' = None /\ UNCHANGED <<issued, now, history>>
           /\ voided' \subseteq {q \in Session : Waiting(q, "respond")'}
<1>1. PICK t \in Transport : t = call[s].transport /\ p \in Proof
  BY Submitted
<1>2. PICK c : c = [op |-> "respond", transport |-> t, proof |-> p, outcome |-> v]
  OBVIOUS
<1>3. c \in Call /\ c.op = "respond" /\ c.proof = p /\ c.outcome = v
  BY <1>1, <1>2 DEF Call
<1>4. /\ call' = [call EXCEPT ![s] = c] /\ reply' = None
      /\ UNCHANGED <<issued, now, history>>
  BY <1>1, <1>2 DEF Decide
<1>5. /\ call'[s] = c /\ \A q \in Session \ {s} : call'[q] = call[q]
      /\ call' \in [Session -> Call \cup {None}]
  BY <1>3, <1>4, CallsAfter
<1>6. voided' \subseteq {q \in Session : Waiting(q, "respond")'}
  <2>1. s \notin voided
    BY DEF IInv, TypesOK, Waiting
  <2> QED BY <1>4, <1>5, <2>1 DEF IInv, TypesOK, Waiting, history
<1> QED BY <1>3, <1>4, <1>5, <1>6

LEMMA RejectsIInv ==
  ASSUME IInv, NEW s \in Session, NEW v \in StoreError, Rejects(s, v)
  PROVE  IInv'
<1>1. PICK p \in Proof : p = call[s].proof /\ p.challenge \in drawn
  BY Submitted DEF Rejects
<1>2. v \in Decision
  BY DEF Decision
<1>3. PICK c \in Call :
        /\ c.op = "respond" /\ c.proof = p /\ c.outcome = v
        /\ call'[s] = c
        /\ \A q \in Session \ {s} : call'[q] = call[q]
        /\ call' \in [Session -> Call \cup {None}]
        /\ reply' = None /\ UNCHANGED <<issued, now, history>>
        /\ voided' \subseteq {q \in Session : Waiting(q, "respond")'}
  BY <1>1, <1>2, DecideCalls DEF Rejects
<1>4. UNCHANGED <<tables, now>>
  BY <1>3 DEF Rejects, tables
<1>5. Onward /\ Kept /\ RowsIssued' /\ TablesAgree' /\ AnnouncedIssued'
  BY <1>3, <1>4, SameTables, SameAnnouncements DEF history
<1>6. TypesOK'
  BY <1>3, <1>4 DEF IInv, TypesOK, tables, history
<1>7. AtSession(s)'
  <2>1. p.challenge \in drawn' /\ StaysTrue(p, v)' /\ HoldsUntilWipe(p, v)'
    BY <1>1, <1>4
    DEF Rejects, StaysTrue, Hopeless, HoldsUntilWipe, Recorded, tables, drawn
  <2> QED BY <1>3, <2>1 DEF AtSession, Waiting
<1> QED BY <1>3, <1>5, <1>6, <1>7, StepIInv DEF history

\* The rows that an acceptance writes, and that it writes no others.
LEMMA AcceptedRows ==
  ASSUME IInv, NEW s \in Session, Accepts(s),
         NEW p, p = call[s].proof
  PROVE  /\ p.challenge \in Challenge /\ p.nullifier \in Nullifier
         /\ challenges' \in [Challenge -> ChallengeRow \cup {NoRow}]
         /\ verifications' \in [Nullifier -> VerificationRow \cup {NoRow}]
         /\ verifications[p.nullifier] = NoRow
         /\ verifications'[p.nullifier] # NoRow
         /\ verifications'[p.nullifier].challenge = p.challenge
         /\ \A n \in Nullifier : n # p.nullifier => verifications'[n] = verifications[n]
         /\ challenges[p.challenge] # NoRow
         /\ challenges'[p.challenge] # NoRow /\ challenges'[p.challenge].consumed
         /\ challenges'[p.challenge].expires_at = challenges[p.challenge].expires_at
         /\ \A c \in Challenge : c # p.challenge => challenges'[c] = challenges[c]
<1> DEFINE d == p.challenge  m == p.nullifier
           row == [challenge |-> d, proof_type |-> p.proof_type]
<1>1. /\ p \in Proof /\ d \in Challenge /\ m \in Nullifier /\ p.proof_type \in ProofKey
  BY Submitted, ProofFields DEF Accepts
<1>2. /\ challenges[d] \in ChallengeRow /\ challenges[d] # NoRow
      /\ verifications[m] = NoRow
  BY <1>1, RowFields DEF IInv, Accepts, Recorded
<1>3. /\ challenges' = [challenges EXCEPT ![d].consumed = TRUE]
      /\ verifications' = [verifications EXCEPT ![m] = row]
  BY DEF Accepts
<1>4. /\ row \in VerificationRow /\ row # NoRow
      /\ [challenges[d] EXCEPT !.consumed = TRUE] \in ChallengeRow
      /\ [challenges[d] EXCEPT !.consumed = TRUE] # NoRow
  <2>1. row \in VerificationRow
    BY <1>1 DEF VerificationRow
  <2>2. [challenges[d] EXCEPT !.consumed = TRUE] \in ChallengeRow
    BY <1>2 DEF ChallengeRow
  <2> QED BY <2>1, <2>2, StoreAssumption
<1>5. /\ verifications' \in [Nullifier -> VerificationRow \cup {NoRow}]
      /\ verifications'[m] = row
      /\ \A n \in Nullifier : n # m => verifications'[n] = verifications[n]
  BY <1>1, <1>3, <1>4 DEF IInv, TypesOK
<1>6. /\ challenges' \in [Challenge -> ChallengeRow \cup {NoRow}]
      /\ \A c \in Challenge : c # d => challenges'[c] = challenges[c]
      /\ challenges'[d] # NoRow /\ challenges'[d].consumed
      /\ challenges'[d].expires_at = challenges[d].expires_at
  BY <1>1, <1>2, <1>3, <1>4 DEF IInv, TypesOK, ChallengeRow
<1> QED BY <1>1, <1>2, <1>4, <1>5, <1>6

LEMMA AcceptsIInv ==
  ASSUME IInv, NEW s \in Session, Accepts(s)
  PROVE  IInv'
<1>1. PICK p \in Proof, d \in Challenge, m \in Nullifier :
        /\ p = call[s].proof /\ d = p.challenge /\ m = p.nullifier /\ d \in drawn
  BY Submitted DEF Accepts
<1>2. PICK c \in Call :
        /\ c.op = "respond" /\ c.proof = p /\ c.outcome = "accepted"
        /\ call'[s] = c
        /\ \A q \in Session \ {s} : call'[q] = call[q]
        /\ call' \in [Session -> Call \cup {None}]
        /\ reply' = None /\ UNCHANGED <<issued, now, history>>
        /\ voided' \subseteq {q \in Session : Waiting(q, "respond")'}
  BY <1>1, DecideCalls DEF Accepts, Decision
<1>3. /\ challenges' \in [Challenge -> ChallengeRow \cup {NoRow}]
      /\ verifications' \in [Nullifier -> VerificationRow \cup {NoRow}]
  BY <1>1, AcceptedRows
<1>4. /\ \A n \in Nullifier : n # m => verifications'[n] = verifications[n]
      /\ verifications[m] = NoRow
      /\ verifications'[m] # NoRow /\ verifications'[m].challenge = d
  BY <1>1, AcceptedRows
<1>5. /\ \A y \in Challenge : y # d => challenges'[y] = challenges[y]
      /\ challenges[d] # NoRow /\ challenges'[d] # NoRow /\ challenges'[d].consumed
      /\ challenges'[d].expires_at = challenges[d].expires_at
  BY <1>1, AcceptedRows
<1>6. drawn' = drawn /\ issued' = issued
  BY <1>2 DEF drawn
<1>7. TypesOK'
  BY <1>2, <1>3 DEF IInv, TypesOK, history
<1>8. RowsIssued'
  BY <1>5, <1>6 DEF IInv, RowsIssued
<1>9. TablesAgree'
  <2> SUFFICES ASSUME NEW n \in Nullifier, Recorded(n)'
               PROVE  /\ challenges'[verifications'[n].challenge] # NoRow
                      /\ challenges'[verifications'[n].challenge].consumed
    BY DEF TablesAgree
  <2>1. CASE n = m
    BY <1>4, <1>5, <2>1
  <2>2. CASE n # m
    <3>1. /\ verifications'[n] = verifications[n] /\ Recorded(n)
          /\ verifications[n].challenge \in Challenge
      BY <1>4, <2>2 DEF IInv, TypesOK, Recorded, VerificationRow
    <3> QED BY <1>5, <3>1 DEF IInv, TablesAgree
  <2> QED BY <2>1, <2>2
<1>10. Onward
  <2>1. \A y \in drawn : y \in Challenge
    BY DEF drawn
  <2>2. now <= now'
    BY <1>2, Clock DEF IInv
  <2> QED BY <1>4, <1>5, <1>6, <2>1, <2>2 DEF Onward, Recorded
<1>11. Kept
  BY <1>4, <1>5 DEF Kept, Recorded
<1>12. AnnouncedIssued'
  BY <1>2, <1>10, SameAnnouncements DEF history
<1>13. AtSession(s)'
  <2>1. StaysTrue(p, "accepted")'
    BY DEF StaysTrue, StoreError
  <2>2. HoldsUntilWipe(p, "accepted")'
    BY <1>1, <1>4 DEF HoldsUntilWipe, Recorded
  <2> QED BY <1>1, <1>2, <1>6, <2>1, <2>2 DEF AtSession, Waiting
<1> QED
  BY <1>2, <1>7, <1>8, <1>9, <1>10, <1>11, <1>12, <1>13, StepIInv DEF history

LEMMA VerifyAndRecordIInv ==
  ASSUME IInv, NEW s \in Session, VerifyAndRecord(s)
  PROVE  IInv'
BY RejectsOrAccepts, RejectsIInv, AcceptsIInv
-----------------------------------------------------------------------------
LEMMA CleanDBIInv ==
  ASSUME IInv, CleanDB
  PROVE  IInv'
<1>1. /\ \A c \in Challenge : challenges'[c] = NoRow
      /\ \A n \in Nullifier : verifications'[n] = NoRow
      /\ UNCHANGED <<issued, now, call, announced, refused>>
      /\ voided' = {s \in Session : Waiting(s, "respond")} /\ reply' = None
  BY DEF CleanDB, EmptyChallenges, EmptyVerifications
<1>2. TypesOK'
  BY DEF CleanDB, EmptyChallenges, EmptyVerifications, IInv, TypesOK, Waiting
<1>3. Onward
  <2>1. \A y \in drawn : y \in Challenge
    BY DEF drawn
  <2> QED BY <1>1, <2>1, Clock DEF IInv, Onward, drawn
<1>4. \A q \in Session : AtSession(q)'
  <2>1. \A q \in Session : q \in voided => q \in voided'
    BY <1>1 DEF IInv, TypesOK
  <2>2. \A q \in Session : Waiting(q, "respond") => q \in voided'
    BY <1>1
  <2> QED BY <1>1, <1>2, <1>3, <2>1, <2>2, SessionStays DEF IInv
<1>5. RefusedForGood'
  BY <1>1, <1>2, <1>3, HopelessStays DEF IInv, TypesOK, RefusedForGood
<1>6. AnnouncedIssued'
  BY <1>1, <1>3, SameAnnouncements
<1> QED
  BY <1>1, <1>2, <1>4, <1>5, <1>6 DEF IInv, RowsIssued, TablesAgree, Recorded

LEMMA TickIInv ==
  ASSUME IInv, Tick
  PROVE  IInv'
<1>1. /\ now' = now + 1 /\ now < MaxTime /\ reply' = None
      /\ UNCHANGED <<challenges, verifications, issued, call, announced, refused, voided>>
  BY DEF Tick, tables, history
<1>2. now' \in 0..MaxTime /\ now <= now'
  BY <1>1, Clock, TransportAssumption DEF IInv, TypesOK
<1>3. TypesOK'
  BY <1>1, <1>2 DEF IInv, TypesOK, Waiting
<1>4. Onward /\ Kept
  BY <1>1, <1>2 DEF Onward, Kept, drawn
<1>5. \A q \in Session : AtSession(q)'
  BY <1>1, <1>3, <1>4, SessionStays DEF IInv
<1>6. RefusedForGood'
  BY <1>1, <1>3, <1>4, HopelessStays DEF IInv, TypesOK, RefusedForGood
<1>7. AnnouncedIssued'
  BY <1>1, <1>4, SameAnnouncements
<1> QED
  BY <1>1, <1>3, <1>5, <1>6, <1>7 DEF IInv, RowsIssued, TablesAgree, Recorded, drawn

LEMMA StutterIInv ==
  ASSUME IInv, UNCHANGED vars
  PROVE  IInv'
<1>1. UNCHANGED <<tables, now>> /\ UNCHANGED <<call, reply, announced, refused, voided>>
  BY DEF vars, tables
<1>2. Onward /\ Kept /\ RowsIssued' /\ TablesAgree' /\ AnnouncedIssued'
  BY <1>1, SameTables, SameAnnouncements
<1>3. TypesOK'
  BY <1>1 DEF IInv, TypesOK, Waiting, tables
<1>4. \A q \in Session : AtSession(q)'
  BY <1>1, <1>2, <1>3, SessionStays DEF IInv
<1>5. RefusedForGood'
  BY <1>1, <1>2, <1>3, HopelessStays DEF IInv, TypesOK, RefusedForGood
<1> QED BY <1>2, <1>3, <1>4, <1>5 DEF IInv
-----------------------------------------------------------------------------
(***************************************************************************)
(* What any step does to the tables, and whose call it answers.            *)
(***************************************************************************)
LEMMA TableSteps ==
  ASSUME [Next]_vars, IInv
  PROVE  \/ UNCHANGED verifications
         \/ \E s \in Session : Accepts(s)
         \/ CleanDB
<1>1. ASSUME NEW s \in Session, Ask(s) \/ LookUp(s) \/ Submit(s) \/ Refuse(s)
      PROVE  UNCHANGED verifications
  BY <1>1 DEF Ask, LookUp, Submit, Send, Refuse, tables
<1>2. ASSUME NEW s \in Session, NEW c \in Challenge, CreateChallenge(s, c)
      PROVE  UNCHANGED verifications
  BY <1>2 DEF CreateChallenge
<1>3. ASSUME NEW s \in Session,
             Announce(s) \/ ReadChallenge(s) \/ CheckLive(s) \/ StoreFails(s)
      PROVE  UNCHANGED verifications
  BY <1>3 DEF Announce, ReadChallenge, CheckLive, StoreFails, tables
<1>4. ASSUME NEW s \in Session, VerifyFails(s) \/ Respond(s)
      PROVE  UNCHANGED verifications
  BY <1>4 DEF VerifyFails, Respond, Report, tables
<1>5. ASSUME NEW s \in Session, VerifyAndRecord(s)
      PROVE  Accepts(s) \/ UNCHANGED verifications
  BY <1>5, RejectsOrAccepts DEF Rejects
<1>6. CASE Tick
  BY <1>6 DEF Tick, tables
<1>7. CASE UNCHANGED vars
  BY <1>7 DEF vars
<1> QED BY <1>1, <1>2, <1>3, <1>4, <1>5, <1>6, <1>7 DEF Next, Handle

\* An answer to a session comes from the handler of its own call.
LEMMA AnsweredByHandler ==
  ASSUME [Next]_vars, IInv, NEW s \in Session, Replied(s)
  PROVE  Handle(s)
<1> USE DEF Replied
<1>1. ASSUME NEW q \in Session, Ask(q) \/ LookUp(q) \/ Submit(q)
      PROVE  FALSE
  BY <1>1 DEF Ask, LookUp, Submit, Send
<1>2. ASSUME NEW q \in Session, Refuse(q)
      PROVE  FALSE
  BY <1>2 DEF Refuse
<1>3. ASSUME NEW q \in Session, Handle(q), q # s
      PROVE  FALSE
  <2>1. ASSUME NEW r, Answer(q, r)
        PROVE  FALSE
    BY <1>3, <2>1, AnswerCalls
  <2>2. CASE ReadChallenge(q)
    BY <2>1, <2>2 DEF ReadChallenge
  <2>3. ASSUME NEW v, Report(q, v)
        PROVE  FALSE
    BY <2>1, <2>3 DEF Report
  <2>4. CASE VerifyFails(q) \/ Respond(q)
    BY <2>3, <2>4 DEF VerifyFails, Respond
  <2>5. CASE Announce(q) \/ CheckLive(q) \/ StoreFails(q)
    BY <2>1, <2>5 DEF Announce, CheckLive, StoreFails
  <2>6. CASE VerifyAndRecord(q)
    BY <2>6 DEF VerifyAndRecord, Decide
  <2>7. ASSUME NEW c \in Challenge, CreateChallenge(q, c)
        PROVE  FALSE
    BY <2>7 DEF CreateChallenge
  <2> QED BY <1>3, <2>2, <2>4, <2>5, <2>6, <2>7 DEF Handle
<1>4. ~ CleanDB /\ ~ Tick /\ ~ UNCHANGED vars
  BY DEF CleanDB, Tick, vars
<1> QED BY <1>1, <1>2, <1>3, <1>4 DEF Next

\* The answer to a proof reports an outcome.  A verdict of the store is one
\* that was decided about this proof.
LEMMA AnsweredProof ==
  ASSUME [Next]_vars, IInv, NEW s \in Session, Replied(s),
         call[s].op \in {"verify", "respond"}
  PROVE  \E v \in Outcome \ {"bad_request"} :
           /\ reply' = ReplyOn(call[s].transport, v)
           /\ \/ v \in Reason \cup AnchorError
              \/ Waiting(s, "respond") /\ v = call[s].outcome
<1>1. VerifyFails(s) \/ VerifyAndRecord(s) \/ Respond(s)
  BY AnsweredByHandler
  DEF Handle, CreateChallenge, Announce, ReadChallenge, CheckLive, StoreFails, Waiting
<1>2. ~ VerifyAndRecord(s)
  BY DEF VerifyAndRecord, Decide, Replied
<1>3. CASE VerifyFails(s)
  <2>1. PICK v \in Reason \cup AnchorError : Report(s, v)
    BY <1>3 DEF VerifyFails
  <2>2. v \in Outcome \ {"bad_request"}
    BY DEF Outcome, Reason, AnchorError
  <2> QED BY <2>1, <2>2 DEF Report, Answer
<1>4. CASE Respond(s)
  <2>1. PICK v \in Decision : v = call[s].outcome /\ Waiting(s, "respond")
    BY <1>4, Submitted DEF Respond
  <2>2. v \in Outcome \ {"bad_request"}
    BY DEF Outcome, Decision, StoreError
  <2> QED BY <1>4, <2>1, <2>2 DEF Respond, Report, Answer
<1> QED BY <1>1, <1>2, <1>3, <1>4

\* Whatever clients were sent, the store's deadline ends it.
LEMMA StoredEnds ==
  ASSUME IInv, NEW c \in drawn, now > StoredTime(issued[c])
  PROVE  Over(c)
BY DEF IInv, AnnouncedIssued, Over
-----------------------------------------------------------------------------
(***************************************************************************)
(* Theorems.                                                               *)
(***************************************************************************)
\* The strengthened invariant is inductive: whatever sessions call, repeat or
\* miss, and whenever the database is wiped, what the server has read, sent or
\* decided agrees with the tables as far as AtSession says.
THEOREM Invariance == Spec => []IInv
<1>1. Init => IInv
  BY InitIInv
<1>2. IInv /\ [Next]_vars => IInv'
  <2> SUFFICES ASSUME IInv, [Next]_vars PROVE IInv'
    OBVIOUS
  <2>1. ASSUME NEW s \in Session, Ask(s) \/ LookUp(s) \/ Submit(s) \/ Refuse(s)
        PROVE  IInv'
    BY <2>1, AskIInv, LookUpIInv, SubmitIInv, RefuseIInv
  <2>2. ASSUME NEW s \in Session, Handle(s)
        PROVE  IInv'
    BY <2>2, CreateChallengeIInv, AnnounceIInv, ReadChallengeIInv, CheckLiveIInv,
       StoreFailsIInv, VerifyFailsIInv, VerifyAndRecordIInv, RespondIInv DEF Handle
  <2>3. CASE CleanDB
    BY <2>3, CleanDBIInv
  <2>4. CASE Tick
    BY <2>4, TickIInv
  <2>5. CASE UNCHANGED vars
    BY <2>5, StutterIInv
  <2> QED BY <2>1, <2>2, <2>3, <2>4, <2>5 DEF Next
<1> QED BY <1>1, <1>2, PTL DEF Spec

\* Type correctness, with every deadline that a client was sent that of the
\* stored row, up to the fraction of a second that the column drops.
THEOREM TypeCorrect == Spec => []TypeOK
<1>1. ASSUME IInv, NEW a \in announced, challenges[a.challenge] # NoRow
      PROVE  a.deadline - challenges[a.challenge].expires_at \in 0..(TicksPerSecond - 1)
  <2>1. PICK c \in drawn, d \in Nat :
          /\ c = a.challenge /\ d = issued[c]
          /\ a.deadline \in {d, StoredTime(d)}
    BY <1>1, IssuedDeadline DEF IInv, AnnouncedIssued
  <2>2. challenges[c].expires_at = StoredTime(d)
    BY <1>1, <2>1, IssuedDeadline DEF IInv, RowsIssued
  <2> QED BY <2>1, <2>2, StoredDeadline, StoreAssumption
<1>2. IInv => TypeOK
  BY <1>1 DEF IInv, TypesOK, TypeOK
<1> QED BY <1>2, Invariance, PTL

\* What an answer to a proof says is so when it is sent, on both transports and
\* whatever happened since it was decided: "verified" means recorded under the
\* proof's own challenge, "already registered" under another one, "not found"
\* and "already consumed" that the challenge is.  Only a wipe between the
\* decision and the answer is excepted.
THEOREM CodesAreTrue == Spec => AnswersAreTrue
<1>1. ASSUME IInv, [Next]_vars, NEW s \in Session, Replied(s),
             call[s].op \in {"verify", "respond"}
      PROVE  Holds(reply', call[s].proof) \/ s \in voided
  <2>1. PICK t \in Transport, p \in Proof :
          t = call[s].transport /\ p = call[s].proof
    BY <1>1, Submitted DEF Replied, Waiting
  <2>2. PICK v \in Outcome \ {"bad_request"} :
          /\ reply' = ReplyOn(t, v)
          /\ \/ v \in Reason \cup AnchorError
             \/ Waiting(s, "respond") /\ v = call[s].outcome
    BY <1>1, <2>1, AnsweredProof
  <2>3. /\ reply'.verified <=> v = "accepted"
        /\ reply' \in Answers("ErrDuplicateNullifier") => v = "ErrDuplicateNullifier"
        /\ reply' \in Answers("ErrChallengeNotFound") => v = "ErrChallengeNotFound"
        /\ reply' = HTTPReply("ErrChallengeConsumed") => v = "ErrChallengeConsumed"
    BY <2>2, Replies
  <2>4. CASE v \in Reason \cup AnchorError
    BY <2>1, <2>3, <2>4 DEF Holds, Reason, AnchorError
  <2>5. CASE Waiting(s, "respond") /\ v = call[s].outcome
    <3>1. StaysTrue(p, v) /\ (s \in voided \/ HoldsUntilWipe(p, v))
      BY <1>1, <2>1, <2>5 DEF IInv, AtSession
    <3>2. HoldsUntilWipe(p, v) => Holds(reply', p)
      BY <2>3, <3>1 DEF StaysTrue, HoldsUntilWipe, Recorded, Holds
    <3> QED BY <2>1, <3>1, <3>2
  <2> QED BY <2>2, <2>4, <2>5
<1>2. ASSUME IInv, [Next]_vars
      PROVE  \A s \in Session :
               Replied(s) /\ call[s].op \in {"verify", "respond"} =>
                 Holds(reply', call[s].proof) \/ s \in voided
  BY <1>1, <1>2
<1> QED BY <1>2, Invariance, PTL DEF Spec, AnswersAreTrue

\* A refusal that a client may take as final is never followed by an
\* acceptance of that proof, on either transport, even across a wipe.
THEOREM FinalStaysFinal == Spec => FinalIsFinal
<1>1. ASSUME IInv, [Next]_vars, NEW p \in refused, verifications[p.nullifier] = NoRow
      PROVE  \/ verifications'[p.nullifier] = NoRow
             \/ verifications'[p.nullifier].challenge # p.challenge
  <2>1. /\ p \in Proof /\ p.nullifier \in Nullifier /\ p.challenge \in Challenge
        /\ Hopeless(p)
    BY <1>1, ProofFields DEF IInv, TypesOK, RefusedForGood
  <2>2. CASE UNCHANGED verifications
    BY <1>1, <2>2
  <2>3. ASSUME NEW s \in Session, Accepts(s), verifications'[p.nullifier] # NoRow,
               verifications'[p.nullifier].challenge = p.challenge
        PROVE  FALSE
    <3> DEFINE x == call[s].proof
    <3>1. p.nullifier = x.nullifier /\ p.challenge = x.challenge
      BY <1>1, <2>1, <2>3, AcceptedRows
    <3>2. /\ challenges[x.challenge] # NoRow
          /\ ~ IsExpired(challenges[x.challenge], now)
          /\ ~ challenges[x.challenge].consumed /\ ~ Recorded(x.nullifier)
      BY <2>3 DEF Accepts
    <3> QED BY <2>1, <3>1, <3>2 DEF Hopeless
  <2>4. CASE CleanDB
    BY <2>1, <2>4 DEF CleanDB, EmptyVerifications
  <2> QED BY <1>1, <2>2, <2>3, <2>4, TableSteps
<1>2. ASSUME IInv, [Next]_vars
      PROVE  \A p \in refused :
               verifications[p.nullifier] = NoRow =>
                 \/ verifications'[p.nullifier] = NoRow
                 \/ verifications'[p.nullifier].challenge # p.challenge
  BY <1>1, <1>2
<1> QED BY <1>2, Invariance, PTL DEF Spec, FinalIsFinal

\* No client is told that a challenge has expired before the deadline that any
\* client was sent for it is over: to the tick of a deadline in whole seconds,
\* to the second of the one that POST /challenge sends with its fraction.
THEOREM PromisesKept == Spec => ExpiredAfterPromise
<1>1. ASSUME IInv, [Next]_vars, NEW s \in Session, Replied(s),
             reply'.code \in Code("ErrChallengeExpired"), call[s].op = "expiry"
      PROVE  Over(call[s].challenge)
  <2>1. CheckLive(s)
    BY <1>1, AnsweredByHandler
    DEF Handle, CreateChallenge, Announce, ReadChallenge, StoreFails, VerifyFails,
        VerifyAndRecord, Respond, Waiting
  <2>2. /\ call[s].challenge \in drawn
        /\ call[s].deadline = StoredTime(issued[call[s].challenge])
    BY <1>1, <2>1 DEF CheckLive, IInv, AtSession
  <2>3. reply' # Success(call[s].transport)
    BY <1>1, HTTPReplies, GRPCReplies
    DEF Success, Plain, Code, Answers, HTTPReply, writeStoreError, GRPCReply,
        mapServiceError, Reason
  <2>4. now > call[s].deadline
    BY <2>1, <2>3 DEF CheckLive, Answer
  <2> QED BY <1>1, <2>2, <2>4, StoredEnds
<1>2. ASSUME IInv, [Next]_vars, NEW s \in Session, Replied(s),
             reply'.code \in Code("ErrChallengeExpired"), call[s].op = "respond"
      PROVE  \/ Over(call[s].proof.challenge)
             \/ call[s].outcome = "ErrChallengeConsumed"
  <2>1. PICK t \in Transport, p \in Proof :
          t = call[s].transport /\ p = call[s].proof /\ p.challenge \in drawn
    BY <1>2, Submitted DEF Replied, Waiting
  <2>2. PICK v \in Outcome \ {"bad_request"} :
          /\ reply' = ReplyOn(t, v)
          /\ \/ v \in Reason \cup AnchorError
             \/ Waiting(s, "respond") /\ v = call[s].outcome
    BY <1>2, <2>1, AnsweredProof
  <2>3. v \in {"ErrChallengeExpired", "ErrChallengeConsumed"}
    BY <1>2, <2>2, Replies
  <2>4. Waiting(s, "respond") /\ v = call[s].outcome
    BY <2>2, <2>3 DEF Reason, AnchorError
  <2>5. CASE v = "ErrChallengeExpired"
    <3>1. now > StoredTime(issued[p.challenge])
      BY <1>2, <2>1, <2>4, <2>5 DEF IInv, AtSession, StaysTrue
    <3> QED BY <1>2, <2>1, <3>1, StoredEnds
  <2> QED BY <2>3, <2>4, <2>5
<1>3. ASSUME IInv, [Next]_vars
      PROVE  \A s \in Session :
               Replied(s) /\ reply'.code \in Code("ErrChallengeExpired") =>
                 /\ call[s].op = "expiry" => Over(call[s].challenge)
                 /\ call[s].op = "respond" =>
                      \/ Over(call[s].proof.challenge)
                      \/ call[s].outcome = "ErrChallengeConsumed"
  BY <1>1, <1>2, <1>3
<1> QED BY <1>3, Invariance, PTL DEF Spec, ExpiredAfterPromise
=============================================================================
