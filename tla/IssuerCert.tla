----------------------------- MODULE IssuerCert -----------------------------
(***************************************************************************)
(* issuercert.Provider: the cache of MOICA certificates.  It starts from   *)
(* the embedded copies; a fetch, at startup and then periodically, runs    *)
(* one goroutine per issuer (fetchOne), which downloads the certificate,   *)
(* validates it, installs it and records the attempt in a failure count    *)
(* that all issuers share.                                                 *)
(*                                                                         *)
(* The bytes of a certificate are named after the issuer that pins them;   *)
(* "other" is anything else.  The pinned fingerprint fixes the bytes, so   *)
(* the remaining checks of parseAndValidate (signature, names, key usage,  *)
(* key size) have a fixed outcome: they pass, as LoadEmbedded requires of  *)
(* the same bytes.  Only the validity period depends on when it is asked.  *)
(***************************************************************************)
EXTENDS Integers, FiniteSets

CONSTANTS
  NotBefore, NotAfter,   \* validity of the pinned certificate of each issuer
  MaxTime,               \* bound of the clock
  MaxFail                \* consecutiveFail is counted up to MaxFail

Issuer == {"g2", "g3"}

ASSUME IssuerCertAssumption ==
  /\ NotBefore \in [Issuer -> Nat]
  /\ NotAfter \in [Issuer -> Nat]
  /\ MaxTime \in Nat
  /\ MaxFail \in Nat \ {0}

Der == Issuer \cup {"other"}

CertRecord == [der : Der, source : {"embedded", "https"}, fetchedAt : Nat]

VARIABLES
  site,      \* what each issuer's URL serves; "down": no usable answer
  now,       \* time.Now()
  up,        \* the process runs with the provider built
  certs, updatedAt, consecutiveFail,   \* the cache
  stopped,   \* stopCh is closed or the context is cancelled
  step,      \* the loop: in FetchNow, waiting for the ticker, returned
  gpc,       \* next step of each issuer's fetchOne goroutine
  rec,       \* the record it validated
  errCh,     \* issuers whose error is in the channel of the fetch
  drifted    \* history: issuers whose bytes were not the pinned ones

cache == <<certs, updatedAt, consecutiveFail>>
loop == <<up, stopped, step>>
fetch == <<gpc, rec, errCh, drifted>>
vars == <<site, now, up, certs, updatedAt, consecutiveFail, stopped, step,
          gpc, rec, errCh, drifted>>

Valid(i, t) == NotBefore[i] <= t /\ t <= NotAfter[i]

Embedded(t) == [i \in Issuer |-> [der |-> i, source |-> "embedded", fetchedAt |-> t]]

TypeOK ==
  /\ site \in [Issuer -> Der \cup {"down"}]
  /\ now \in 0..MaxTime
  /\ up \in BOOLEAN /\ stopped \in BOOLEAN
  /\ certs \in [Issuer -> CertRecord]
  /\ updatedAt \in Nat
  /\ consecutiveFail \in 0..MaxFail
  /\ step \in {"fetch", "wait", "exited"}
  /\ gpc \in [Issuer -> {"fetch", "install", "succeeded", "failed", "report", "done"}]
  /\ rec \in [Issuer -> CertRecord]
  /\ errCh \subseteq Issuer /\ drifted \subseteq Issuer
  /\ step # "fetch" => gpc = [i \in Issuer |-> "done"] /\ errCh = {}

\* FetchNow starts a goroutine per source.
Spawn ==
  /\ step' = "fetch"
  /\ gpc' = [i \in Issuer |-> "fetch"]
  /\ drifted' = {}

Init ==
  /\ site \in [Issuer -> Der \cup {"down"}]
  /\ now = 0
  /\ up = FALSE /\ stopped = FALSE
  /\ certs = Embedded(0) /\ updatedAt = 0 /\ consecutiveFail = 0
  /\ step = "exited"
  /\ gpc = [i \in Issuer |-> "done"]
  /\ rec = Embedded(0) /\ errCh = {} /\ drifted = {}
-----------------------------------------------------------------------------
(***************************************************************************)
(* Process start and end.  LoadEmbedded refuses certificates that are not  *)
(* valid now, and cmd/server then exits; otherwise it fetches once, and a  *)
(* failure of that fetch is only logged.                                   *)
(***************************************************************************)
Boot ==
  /\ ~ up
  /\ \A i \in Issuer : Valid(i, now)
  /\ up' = TRUE /\ stopped' = FALSE
  /\ certs' = Embedded(now) /\ updatedAt' = now /\ consecutiveFail' = 0
  /\ Spawn
  /\ UNCHANGED <<site, now, rec, errCh>>

Crash ==
  /\ up
  /\ up' = FALSE
  /\ step' = "exited"
  /\ gpc' = [i \in Issuer |-> "done"] /\ errCh' = {}
  /\ UNCHANGED <<site, now, cache, stopped, rec, drifted>>
-----------------------------------------------------------------------------
(***************************************************************************)
(* fetchOne.                                                               *)
(***************************************************************************)
Goto(i, label) == gpc' = [gpc EXCEPT ![i] = label]

\* No usable answer in time, or the context was cancelled.
DownloadFails(i) ==
  /\ gpc[i] = "fetch"
  /\ site[i] = "down" \/ stopped
  /\ Goto(i, "failed")
  /\ UNCHANGED <<site, now, cache, loop, rec, errCh, drifted>>

DownloadAndValidateAnyPinned(i) ==   \* mutant: any pinned fingerprint will do
  /\ gpc[i] = "fetch"
  /\ site[i] # "down"
  /\ \/ /\ site[i] \in Issuer /\ Valid(i, now)
        /\ rec' = [rec EXCEPT ![i] = [der |-> site[i], source |-> "https",
                                      fetchedAt |-> now]]
        /\ Goto(i, "install")
     \/ /\ ~ (site[i] \in Issuer /\ Valid(i, now))
        /\ Goto(i, "failed")
        /\ UNCHANGED rec
  /\ drifted' = IF site[i] = i THEN drifted ELSE drifted \cup {i}
  /\ UNCHANGED <<site, now, cache, loop, errCh>>

DownloadAndValidate(i) ==
  /\ gpc[i] = "fetch"
  /\ site[i] # "down"
  /\ \/ /\ site[i] = i /\ Valid(i, now)
        /\ rec' = [rec EXCEPT ![i] = [der |-> i, source |-> "https",
                                      fetchedAt |-> now]]
        /\ Goto(i, "install")
     \/ /\ ~ (site[i] = i /\ Valid(i, now))
        /\ Goto(i, "failed")
        /\ UNCHANGED rec
  /\ drifted' = IF site[i] = i THEN drifted ELSE drifted \cup {i}
  /\ UNCHANGED <<site, now, cache, loop, errCh>>

setCertFetchedAt(i) ==   \* mutant: updatedAt is the record's own time
  /\ gpc[i] = "install"
  /\ certs' = [certs EXCEPT ![i] = rec[i]]
  /\ updatedAt' = rec[i].fetchedAt
  /\ Goto(i, "succeeded")
  /\ UNCHANGED <<site, now, consecutiveFail, loop, rec, errCh, drifted>>

setCert(i) ==
  /\ gpc[i] = "install"
  /\ certs' = [certs EXCEPT ![i] = rec[i]]
  /\ updatedAt' = now
  /\ Goto(i, "succeeded")
  /\ UNCHANGED <<site, now, consecutiveFail, loop, rec, errCh, drifted>>

\* A success of any issuer clears the count; a failure is then reported.
recordAttempt(i) ==
  /\ \/ /\ gpc[i] = "succeeded"
        /\ consecutiveFail' = 0
        /\ Goto(i, "done")
     \/ /\ gpc[i] = "failed"
        /\ consecutiveFail' = IF consecutiveFail < MaxFail
                              THEN consecutiveFail + 1 ELSE MaxFail
        /\ Goto(i, "report")
  /\ UNCHANGED <<site, now, certs, updatedAt, loop, rec, errCh, drifted>>

ReportErrorCapacityOne(i) ==   \* mutant: make(chan error, 1)
  /\ gpc[i] = "report"
  /\ Cardinality(errCh) < 1
  /\ errCh' = errCh \cup {i}
  /\ Goto(i, "done")
  /\ UNCHANGED <<site, now, cache, loop, rec, drifted>>

\* errCh <- err: nobody receives before wg.Wait returns, so the channel must
\* have room; its capacity is the number of sources.
ReportError(i) ==
  /\ gpc[i] = "report"
  /\ Cardinality(errCh) < Cardinality(Issuer)
  /\ errCh' = errCh \cup {i}
  /\ Goto(i, "done")
  /\ UNCHANGED <<site, now, cache, loop, rec, drifted>>
-----------------------------------------------------------------------------
(***************************************************************************)
(* FetchNow returns after wg.Wait; the loop ignores what it returns.       *)
(***************************************************************************)
FinishFetchNoWait ==   \* mutant: FetchNow returns on the first error
  /\ step = "fetch"
  /\ gpc = [i \in Issuer |-> "done"] \/ errCh # {}
  /\ step' = "wait"
  /\ errCh' = {}
  /\ UNCHANGED <<site, now, up, cache, stopped, gpc, rec, drifted>>

FinishFetchQuits ==   \* mutant: the loop returns on an error
  /\ step = "fetch"
  /\ gpc = [i \in Issuer |-> "done"]
  /\ step' = IF errCh = {} THEN "wait" ELSE "exited"
  /\ errCh' = {}
  /\ UNCHANGED <<site, now, up, cache, stopped, gpc, rec, drifted>>

FinishFetch ==
  /\ step = "fetch"
  /\ gpc = [i \in Issuer |-> "done"]
  /\ step' = "wait"
  /\ errCh' = {}
  /\ UNCHANGED <<site, now, up, cache, stopped, gpc, rec, drifted>>

ScheduledFetch ==
  /\ step = "wait"
  /\ Spawn
  /\ UNCHANGED <<site, now, up, cache, stopped, rec, errCh>>

Stop ==
  /\ up /\ ~ stopped
  /\ stopped' = TRUE
  /\ UNCHANGED <<site, now, up, cache, step, fetch>>

LoopExit ==
  /\ step = "wait"
  /\ stopped
  /\ step' = "exited"
  /\ UNCHANGED <<site, now, up, cache, stopped, fetch>>
-----------------------------------------------------------------------------
(***************************************************************************)
(* The world around the provider.                                          *)
(***************************************************************************)
SiteChanges(i, body) ==
  /\ site[i] # body
  /\ site' = [site EXCEPT ![i] = body]
  /\ UNCHANGED <<now, cache, loop, fetch>>

Tick ==
  /\ now < MaxTime
  /\ now' = now + 1
  /\ UNCHANGED <<site, cache, loop, fetch>>

fetchOne(i) ==
  \/ DownloadFails(i)
  \/ DownloadAndValidate(i)
  \/ setCert(i)
  \/ recordAttempt(i)
  \/ ReportError(i)

Next ==
  \/ Boot
  \/ Crash
  \/ \E i \in Issuer : fetchOne(i)
  \/ FinishFetch
  \/ ScheduledFetch
  \/ Stop
  \/ LoopExit
  \/ \E i \in Issuer, body \in Der \cup {"down"} : SiteChanges(i, body)
  \/ Tick

Spec == Init /\ [][Next]_vars

(***************************************************************************)
(* Downloads have a timeout, goroutines run and the ticker keeps ticking.  *)
(* Nothing is assumed of Stop, crashes or the sites.                       *)
(***************************************************************************)
Fairness ==
  /\ \A i \in Issuer : WF_vars(fetchOne(i))
  /\ WF_vars(FinishFetch)
  /\ WF_vars(ScheduledFetch)

FairSpec == Spec /\ Fairness
-----------------------------------------------------------------------------
(***************************************************************************)
(* Properties.                                                             *)
(***************************************************************************)
\* Whatever the sites serve, also each other's certificates, and whichever
\* goroutine wins: the modulus a proof is compared with is that of the
\* issuer's own pinned certificate, found valid when it was obtained.
CacheIsPinned ==
  up => \A i \in Issuer : certs[i].der = i /\ Valid(i, certs[i].fetchedAt)

\* setCert reads the clock inside its critical section: the updated_at that
\* the status reports is never older than a certificate in the cache, in
\* whatever order the goroutines get the lock.
UpdatedCoversCerts ==
  up => \A i \in Issuer : certs[i].fetchedAt <= updatedAt /\ updatedAt <= now

\* FetchNow returns (or dies with the process): wg.Wait cannot be kept waiting
\* by a goroutine that cannot hand in its error.
FetchReturns == step = "fetch" ~> step # "fetch"

\* A failing source of one issuer does not keep the other's embedded
\* certificate from being replaced: if a site serves the pinned bytes from
\* some time on, the issuer's record ends up fetched.
RefreshReplacesEmbedded ==
  \A i \in Issuer :
    <>[](up /\ ~ stopped /\ site[i] = i /\ Valid(i, now)) =>
      <>[](certs[i].source = "https")

\* README: "Fingerprint drift keeps the embedded copy in place and increments
\* consecutive_fail": after a fetch that saw drift the count is not zero.
DriftIsCounted == step = "wait" /\ drifted # {} => consecutiveFail > 0
=============================================================================
