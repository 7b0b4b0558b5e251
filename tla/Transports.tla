----------------------------- MODULE Transports -----------------------------
(***************************************************************************)
(* The HTTP and the gRPC API as their clients see them: sessions ask for   *)
(* challenges, look them up and submit proofs on either transport, one     *)
(* call at a time.  A reply may be lost, and a session may then repeat the *)
(* call, on the other transport too.  Both transports share one store;     *)
(* each translates the outcome of the service into its own codes.          *)
(*                                                                         *)
(* LinkVerify has the steps of the service; here it decides and commits in *)
(* one step, and the handler writes the response in a later one: others    *)
(* may act in between, the debug wipe among them.  Requests are well-formed *)
(* or are refused; the challenge field of a gRPC request must be there and *)
(* is otherwise ignored: the proof says which challenge it spends.         *)
(***************************************************************************)
EXTENDS StoreTables

CONSTANTS
  Session,   \* clients
  None,      \* no call, no reply
  MaxTime    \* bound of the clock

Transport == {"http", "grpc"}

Proof == [nullifier : Nullifier, challenge : Challenge, proof_type : ProofKey]

\* Result.Reason, and the errors of the trust anchors and of the FFI.
Reason == {"proof_invalid", "smt_root_mismatch", "issuer_modulus_mismatch",
           "app_id_mismatch"}

AnchorError == {"ErrSmtRootUnavailable", "error"}

\* The errors of the store, and what became of a proof there.
StoreError == {"ErrChallengeNotFound", "ErrChallengeExpired",
               "ErrChallengeConsumed", "ErrDuplicateNullifier"}

Decision == StoreError \cup {"accepted"}

Undrawn == -1

VARIABLES
  challenges, verifications,   \* the tables
  issued,     \* the ExpiresAt each challenge was created with, or Undrawn
  now,        \* time.Now()
  call,       \* the call a session is waiting for, and how far it is
  reply,      \* the reply sent in the last step, if any
  announced,  \* history: the expires_at that clients were sent
  refused,    \* history: proofs refused in a way that retrying cannot change
  voided      \* history: sessions whose answer was decided before a wipe

tables == <<challenges, verifications, issued>>
history == <<announced, refused, voided>>
vars == <<challenges, verifications, issued, now, call, reply, announced,
          refused, voided>>

\* rand.Read repeats none of the values it has drawn.
drawn == {c \in Challenge : issued[c] # Undrawn}

\* "expiry", "announce" and "respond": the store has answered the handler.
Call ==
  [op : {"create"}, transport : Transport]
    \cup [op : {"get"}, transport : Transport, challenge : Challenge]
    \cup [op : {"expiry", "announce"}, transport : Transport,
          challenge : Challenge, deadline : Nat]
    \cup [op : {"verify"}, transport : Transport, proof : Proof]
    \cup [op : {"respond"}, transport : Transport, proof : Proof,
          outcome : Decision]

\* whole: sent in whole seconds, as by everything but POST /challenge.
Announcement == [challenge : Challenge, deadline : Nat, whole : BOOLEAN]

HTTPCode == {"200", "400", "404", "409", "410", "500", "503"}

GRPCCode == {"OK", "InvalidArgument", "NotFound", "FailedPrecondition",
             "AlreadyExists", "Unavailable", "Internal"}

\* A reply has a code and, to a proof, a verified flag and perhaps a reason.
Reply == [code : HTTPCode \cup GRPCCode, verified : BOOLEAN,
          reason : Reason \cup {"none"}]

ASSUME TransportAssumption ==
  /\ MaxTime \in Nat
  /\ None \notin Call \cup Reply

Waiting(s, op) == call[s] # None /\ call[s].op = op

\* What a client was sent is the deadline of the row, up to the fraction of a
\* second that the expires_at column drops.
TypeOK ==
  /\ challenges \in [Challenge -> ChallengeRow \cup {NoRow}]
  /\ verifications \in [Nullifier -> VerificationRow \cup {NoRow}]
  /\ issued \in [Challenge -> Nat \cup {Undrawn}]
  /\ now \in 0..MaxTime
  /\ call \in [Session -> Call \cup {None}]
  /\ reply \in Reply \cup {None}
  /\ announced \subseteq Announcement
  /\ refused \subseteq Proof
  /\ voided \subseteq {s \in Session : Waiting(s, "respond")}
  /\ \A a \in announced :
       challenges[a.challenge] # NoRow =>
         a.deadline - challenges[a.challenge].expires_at \in 0..(TicksPerSecond - 1)

Init ==
  /\ challenges = EmptyChallenges
  /\ verifications = EmptyVerifications
  /\ issued = [c \in Challenge |-> Undrawn]
  /\ now = 0
  /\ call = [s \in Session |-> None]
  /\ reply = None
  /\ announced = {} /\ refused = {} /\ voided = {}
-----------------------------------------------------------------------------
(***************************************************************************)
(* Codes.                                                                  *)
(***************************************************************************)
Plain(code) == [code |-> code, verified |-> FALSE, reason |-> "none"]

\* httpapi: linkVerify hands the errors of the store to writeStoreError.
writeStoreError(v) ==
  CASE v = "ErrDuplicateNullifier" -> Plain("409")
    [] v = "ErrChallengeNotFound" -> Plain("404")
    [] v = "ErrChallengeExpired" -> Plain("400")
    [] v = "ErrChallengeConsumed" -> Plain("410")
    [] OTHER -> Plain("500")

HTTPReply(v) ==
  CASE v = "accepted" -> [code |-> "200", verified |-> TRUE, reason |-> "none"]
    [] v \in Reason ->
         [code |-> IF v = "proof_invalid" THEN "200" ELSE "409",
          verified |-> FALSE, reason |-> v]
    [] v = "bad_request" -> Plain("400")
    [] v = "ErrSmtRootUnavailable" -> Plain("503")
    [] OTHER -> writeStoreError(v)

mapServiceErrorPrecondition(v) ==   \* mutant: a missing root is a precondition
  CASE v = "ErrDuplicateNullifier" -> Plain("AlreadyExists")
    [] v = "ErrChallengeNotFound" -> Plain("NotFound")
    [] v \in {"ErrChallengeExpired", "ErrChallengeConsumed",
              "ErrSmtRootUnavailable"} -> Plain("FailedPrecondition")
    [] OTHER -> Plain("Internal")

\* grpc: LinkVerify hands every error of the service to mapServiceError.
mapServiceError(v) ==
  CASE v = "ErrDuplicateNullifier" -> Plain("AlreadyExists")
    [] v = "ErrChallengeNotFound" -> Plain("NotFound")
    [] v \in {"ErrChallengeExpired", "ErrChallengeConsumed"} ->
         Plain("FailedPrecondition")
    [] v = "ErrSmtRootUnavailable" -> Plain("Unavailable")
    [] OTHER -> Plain("Internal")

GRPCReply(v) ==
  CASE v = "accepted" -> [code |-> "OK", verified |-> TRUE, reason |-> "none"]
    [] v \in Reason -> [code |-> "OK", verified |-> FALSE, reason |-> v]
    [] v = "bad_request" -> Plain("InvalidArgument")
    [] OTHER -> mapServiceError(v)

ReplyOn(transport, v) ==
  IF transport = "http" THEN HTTPReply(v) ELSE GRPCReply(v)

Success(transport) == Plain(IF transport = "http" THEN "200" ELSE "OK")

\* What a client makes of a reply to a proof: no reason to try again.
Final(r) ==
  /\ ~ r.verified /\ r.reason = "none"
  /\ r.code \notin {"500", "503", "Internal", "Unavailable"}
-----------------------------------------------------------------------------
(***************************************************************************)
(* Sessions.                                                               *)
(***************************************************************************)
Idle(s) == call[s] = None

Send(s, c) ==
  /\ Idle(s)
  /\ call' = [call EXCEPT ![s] = c]
  /\ reply' = None
  /\ UNCHANGED <<tables, now, history>>

Ask(s) ==
  \E t \in Transport : Send(s, [op |-> "create", transport |-> t])

LookUp(s) ==
  \E t \in Transport, c \in drawn :
    Send(s, [op |-> "get", transport |-> t, challenge |-> c])

Submit(s) ==
  \E t \in Transport, p \in Proof :
    /\ p.challenge \in drawn
    /\ Send(s, [op |-> "verify", transport |-> t, proof |-> p])

\* A malformed body, a missing proof or, on gRPC, a missing challenge.
Refuse(s) ==
  \E t \in Transport :
    /\ Idle(s)
    /\ reply' = ReplyOn(t, "bad_request")
    /\ UNCHANGED <<tables, now, call, history>>
-----------------------------------------------------------------------------
(***************************************************************************)
(* Handlers.                                                               *)
(***************************************************************************)
\* The reply arrives or is lost: the session may call again in either case.
Answer(s, r) ==
  /\ call' = [call EXCEPT ![s] = None]
  /\ reply' = r

CreateChallenge(s, c) ==
  LET deadline == now + TTL
  IN
  /\ Waiting(s, "create")
  /\ c \notin drawn
  /\ challenges' = [challenges EXCEPT ![c] = NewChallengeRow(deadline)]
  /\ issued' = [issued EXCEPT ![c] = deadline]
  /\ call' = [call EXCEPT ![s] =
                [op |-> "announce", transport |-> call[s].transport,
                 challenge |-> c, deadline |-> deadline]]
  /\ reply' = None
  /\ UNCHANGED <<verifications, now, history>>

AnnounceAnew(s) ==   \* mutant: the deadline is counted from the response
  LET c == call[s]
      d == now + TTL
  IN
  /\ Waiting(s, "announce")
  /\ announced' = announced \cup
       {[challenge |-> c.challenge,
         deadline |-> IF c.transport = "http" THEN d ELSE StoredTime(d),
         whole |-> c.transport # "http"]}
  /\ Answer(s, Success(c.transport))
  /\ UNCHANGED <<tables, now, refused, voided>>

\* HTTP sends the ExpiresAt it got from CreateChallenge with its fraction of
\* a second, which is more than the store has kept; gRPC formats it as the
\* store does.
Announce(s) ==
  LET c == call[s]
      d == c.deadline
  IN
  /\ Waiting(s, "announce")
  /\ announced' = announced \cup
       {[challenge |-> c.challenge,
         deadline |-> IF c.transport = "http" THEN d ELSE StoredTime(d),
         whole |-> c.transport # "http"]}
  /\ Answer(s, Success(c.transport))
  /\ UNCHANGED <<tables, now, refused, voided>>

\* GetChallenge reads the row and then the clock.
ReadChallenge(s) ==
  LET c == call[s].challenge
      t == call[s].transport
  IN
  /\ Waiting(s, "get")
  /\ \/ challenges[c] = NoRow /\ Answer(s, ReplyOn(t, "ErrChallengeNotFound"))
     \/ /\ challenges[c] # NoRow
        /\ call' = [call EXCEPT ![s] =
                      [op |-> "expiry", transport |-> t, challenge |-> c,
                       deadline |-> challenges[c].expires_at]]
        /\ reply' = None
  /\ UNCHANGED <<tables, now, history>>

CheckLiveTooEarly(s) ==   \* mutant: not live at the deadline itself
  LET c == call[s]
  IN
  /\ Waiting(s, "expiry")
  /\ \/ /\ now >= c.deadline
        /\ Answer(s, ReplyOn(c.transport, "ErrChallengeExpired"))
        /\ UNCHANGED announced
     \/ /\ now < c.deadline
        /\ announced' = announced \cup {[challenge |-> c.challenge,
                                          deadline |-> c.deadline, whole |-> TRUE]}
        /\ Answer(s, Success(c.transport))
  /\ UNCHANGED <<tables, now, refused, voided>>

CheckLive(s) ==
  LET c == call[s]
  IN
  /\ Waiting(s, "expiry")
  /\ \/ /\ now > c.deadline
        /\ Answer(s, ReplyOn(c.transport, "ErrChallengeExpired"))
        /\ UNCHANGED announced
     \/ /\ now <= c.deadline
        /\ announced' = announced \cup {[challenge |-> c.challenge,
                                          deadline |-> c.deadline, whole |-> TRUE]}
        /\ Answer(s, Success(c.transport))
  /\ UNCHANGED <<tables, now, refused, voided>>

StoreFails(s) ==
  /\ \E op \in {"create", "get"} : Waiting(s, op)
  /\ Answer(s, ReplyOn(call[s].transport, "error"))
  /\ UNCHANGED <<tables, now, history>>

\* The handler turns the outcome v of the service into its response.
Report(s, v) ==
  LET r == ReplyOn(call[s].transport, v)
  IN
  /\ Answer(s, r)
  /\ refused' = IF Final(r) THEN refused \cup {call[s].proof} ELSE refused
  /\ voided' = voided \ {s}
  /\ UNCHANGED <<tables, now, announced>>

\* The FFI, an anchor or a failed store call settles it: the tables have no
\* part in the answer.
VerifyFails(s) ==
  /\ Waiting(s, "verify")
  /\ \E v \in Reason \cup AnchorError : Report(s, v)

Decide(s, v) ==
  /\ call' = [call EXCEPT ![s] =
                [op |-> "respond", transport |-> call[s].transport,
                 proof |-> call[s].proof, outcome |-> v]]
  /\ reply' = None
  /\ UNCHANGED <<issued, now, history>>

\* Service.VerifyAndRecord returns to the handler: committed or refused.
VerifyAndRecord(s) ==
  LET p == call[s].proof
      v == ChallengeVerdict(challenges, p.challenge, now)
  IN
  /\ Waiting(s, "verify")
  /\ \/ /\ v # "valid"
        /\ Decide(s, v)
        /\ UNCHANGED <<challenges, verifications>>
     \/ /\ v = "valid"
        /\ verifications[p.nullifier] # NoRow
        /\ Decide(s, "ErrDuplicateNullifier")
        /\ UNCHANGED <<challenges, verifications>>
     \/ /\ v = "valid"
        /\ verifications[p.nullifier] = NoRow
        /\ verifications' = WithVerification(verifications, p.nullifier,
                                             p.challenge, p.proof_type)
        /\ challenges' = WithConsumed(challenges, p.challenge)
        /\ Decide(s, "accepted")

Respond(s) ==
  /\ Waiting(s, "respond")
  /\ Report(s, call[s].outcome)

\* POST /debug/db/clean; answers that are decided but not sent go out as
\* they are.
CleanDB ==
  /\ challenges' = EmptyChallenges
  /\ verifications' = EmptyVerifications
  /\ voided' = {s \in Session : Waiting(s, "respond")}
  /\ reply' = None
  /\ UNCHANGED <<issued, now, call, announced, refused>>

Tick ==
  /\ now < MaxTime
  /\ now' = now + 1
  /\ reply' = None
  /\ UNCHANGED <<tables, call, history>>
-----------------------------------------------------------------------------
Handle(s) ==
  \/ \E c \in Challenge : CreateChallenge(s, c)
  \/ Announce(s)
  \/ ReadChallenge(s)
  \/ CheckLive(s)
  \/ StoreFails(s)
  \/ VerifyFails(s)
  \/ VerifyAndRecord(s)
  \/ Respond(s)

Next ==
  \/ \E s \in Session : Ask(s) \/ LookUp(s) \/ Submit(s) \/ Refuse(s)
  \/ \E s \in Session : Handle(s)
  \/ CleanDB
  \/ Tick

Spec == Init /\ [][Next]_vars
-----------------------------------------------------------------------------
(***************************************************************************)
(* Properties.                                                             *)
(***************************************************************************)
Answers(v) == {HTTPReply(v), GRPCReply(v)}

Code(v) == {r.code : r \in Answers(v)}

Replied(s) == call[s] # None /\ reply' # None /\ call'[s] = None

\* What the answer r to a proof p lets its client conclude: "verified" that
\* the card is on record with the challenge of the proof; "already registered"
\* that it is on record with another one; "not found" and, over HTTP, "already
\* consumed" what they say of the challenge.
Holds(r, p) ==
  /\ r.verified =>
       /\ verifications[p.nullifier] # NoRow
       /\ verifications[p.nullifier].challenge = p.challenge
  /\ r \in Answers("ErrDuplicateNullifier") =>
       /\ verifications[p.nullifier] # NoRow
       /\ verifications[p.nullifier].challenge # p.challenge
  /\ r \in Answers("ErrChallengeNotFound") => challenges[p.challenge] = NoRow
  /\ r = HTTPReply("ErrChallengeConsumed") =>
       challenges[p.challenge] # NoRow /\ challenges[p.challenge].consumed

\* Every such answer is still true when it is sent, whatever other sessions
\* did on either transport since it was decided, unless the database was wiped
\* in between.  In particular the repetition of an accepted call whose reply
\* was lost is told that the challenge is gone, not that the card is.
AnswersAreTrue ==
  [][\A s \in Session :
       Replied(s) /\ call[s].op \in {"verify", "respond"} =>
         Holds(reply', call[s].proof) \/ s \in voided]_vars

\* A client may give up on a proof by the code it got: a proof that was refused
\* with a code other than "retry" or a reason is never accepted later, on
\* either transport, even across a wipe.  In particular both transports report
\* a missing trust anchor as temporary.
FinalIsFinal ==
  [][\A p \in refused :
       verifications[p.nullifier] = NoRow =>
         \/ verifications'[p.nullifier] = NoRow
         \/ verifications'[p.nullifier].challenge # p.challenge]_vars

\* A deadline that a client was sent is over: to the tick if it was sent in
\* whole seconds.  POST /challenge sends a fraction of a second that the store
\* drops, so that only the whole seconds of it can be relied on.
Over(c) ==
  \A a \in announced :
    a.challenge = c =>
      now > (IF a.whole THEN a.deadline ELSE StoredTime(a.deadline))

\* No client is told that a challenge has expired before the deadline that any
\* client was sent for it is over, whichever transport either of them used.
\* (The gRPC code of an expired challenge is that of a consumed one too.)
ExpiredAfterPromise ==
  [][\A s \in Session :
       Replied(s) /\ reply'.code \in Code("ErrChallengeExpired") =>
         /\ call[s].op = "expiry" => Over(call[s].challenge)
         /\ call[s].op = "respond" =>
              \/ Over(call[s].proof.challenge)
              \/ call[s].outcome = "ErrChallengeConsumed"]_vars
=============================================================================
