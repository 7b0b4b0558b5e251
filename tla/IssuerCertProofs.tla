--------------------------- MODULE IssuerCertProofs ---------------------------
(***************************************************************************)
(* The safety properties of IssuerCert, for all validity periods, clocks   *)
(* and failure bounds.  The cache is only as good as the records that the  *)
(* goroutines are about to install: IInv says what a validated record is,  *)
(* however long the lock takes, and that none outlives its process.        *)
(***************************************************************************)
EXTENDS IssuerCert, TLAPS

\* A process that is not running has no fetch under way.
NoFetchWithoutProcess == ~ up => step = "exited"

\* The record of a goroutine that waits for the lock: its own issuer's pinned
\* certificate, validated at a moment that is not in the future.
InstallIsPinned ==
  \A i \in Issuer :
    gpc[i] = "install" =>
      /\ rec[i].der = i
      /\ Valid(i, rec[i].fetchedAt)
      /\ rec[i].fetchedAt <= now

IInv ==
  /\ TypeOK
  /\ NoFetchWithoutProcess
  /\ InstallIsPinned
  /\ CacheIsPinned
  /\ UpdatedCoversCerts
-----------------------------------------------------------------------------
\* A table of certificate records changes at one issuer.
LEMMA RecordUpdate ==
  ASSUME NEW f \in [Issuer -> CertRecord], NEW i \in Issuer, NEW c \in CertRecord
  PROVE  /\ [f EXCEPT ![i] = c] \in [Issuer -> CertRecord]
         /\ [f EXCEPT ![i] = c][i] = c
         /\ \A j \in Issuer : j # i => [f EXCEPT ![i] = c][j] = f[j]
  OBVIOUS

\* What LoadEmbedded puts into the cache.
LEMMA EmbeddedRecords ==
  ASSUME NEW t \in Nat
  PROVE  /\ Embedded(t) \in [Issuer -> CertRecord]
         /\ \A i \in Issuer : Embedded(t)[i].der = i /\ Embedded(t)[i].fetchedAt = t
  BY DEF Embedded, CertRecord, Der

\* A goroutine moves to another step of a running fetch.
LEMMA GotoType ==
  ASSUME TypeOK, NEW i \in Issuer, gpc[i] # "done",
         NEW label \in {"fetch", "install", "succeeded", "failed", "report", "done"},
         Goto(i, label)
  PROVE  /\ step = "fetch"
         /\ gpc' \in [Issuer -> {"fetch", "install", "succeeded", "failed",
                                 "report", "done"}]
         /\ gpc'[i] = label
         /\ \A j \in Issuer : j # i => gpc'[j] = gpc[j]
  BY DEF TypeOK, Goto

LEMMA Times ==
  ASSUME TypeOK
  PROVE  /\ now \in Nat /\ updatedAt \in Nat
         /\ \A i \in Issuer : /\ certs[i] \in CertRecord /\ rec[i] \in CertRecord
                              /\ certs[i].fetchedAt \in Nat
                              /\ rec[i].fetchedAt \in Nat
<1>1. now \in Nat /\ updatedAt \in Nat
  BY IssuerCertAssumption DEF TypeOK
<1>2. ASSUME NEW c \in CertRecord
      PROVE  c.fetchedAt \in Nat
  BY DEF CertRecord
<1> QED BY <1>1, <1>2 DEF TypeOK
-----------------------------------------------------------------------------
LEMMA InitIInv == Init => IInv
<1> SUFFICES ASSUME Init
             PROVE  IInv
  OBVIOUS
<1>1. Embedded(0) \in [Issuer -> CertRecord]
  BY EmbeddedRecords
<1>2. 0 \in 0..MaxTime /\ 0 \in 0..MaxFail
  BY IssuerCertAssumption
<1>3. TypeOK
  BY <1>1, <1>2 DEF Init, TypeOK
<1> QED
  BY <1>3 DEF Init, IInv, NoFetchWithoutProcess, InstallIsPinned, CacheIsPinned,
              UpdatedCoversCerts

\* Process start and end.
LEMMA BootIInv == IInv /\ Boot => IInv'
<1> SUFFICES ASSUME IInv, Boot
             PROVE  IInv'
  OBVIOUS
<1>1. now \in Nat
  BY Times DEF IInv
<1>2. certs' = Embedded(now) /\ certs' \in [Issuer -> CertRecord]
  BY <1>1, EmbeddedRecords DEF Boot
<1>3. \A i \in Issuer : certs'[i].der = i /\ certs'[i].fetchedAt = now
  BY <1>1, <1>2, EmbeddedRecords
<1>4. 0 \in 0..MaxFail
  BY IssuerCertAssumption
<1>5. TypeOK'
  BY <1>1, <1>2, <1>4 DEF Boot, Spawn, IInv, TypeOK
<1>6. CacheIsPinned' /\ UpdatedCoversCerts'
  BY <1>1, <1>3 DEF Boot, CacheIsPinned, UpdatedCoversCerts, Valid
<1>7. NoFetchWithoutProcess' /\ InstallIsPinned'
  BY DEF Boot, Spawn, NoFetchWithoutProcess, InstallIsPinned
<1> QED BY <1>5, <1>6, <1>7 DEF IInv

LEMMA CrashIInv == IInv /\ Crash => IInv'
<1> SUFFICES ASSUME IInv, Crash
             PROVE  IInv'
  OBVIOUS
<1>1. TypeOK'
  BY DEF Crash, IInv, TypeOK, cache
<1> QED
  BY <1>1 DEF Crash, IInv, NoFetchWithoutProcess, InstallIsPinned, CacheIsPinned,
              UpdatedCoversCerts

\* The steps of a goroutine.
LEMMA FetchOneIInv ==
  ASSUME IInv, NEW i \in Issuer, fetchOne(i)
  PROVE  IInv'
<1> USE DEF IInv, cache, loop
<1>1. CASE DownloadFails(i)
  <2>1. TypeOK'
    BY <1>1, GotoType DEF DownloadFails, TypeOK
  <2>2. InstallIsPinned'
    BY <1>1, GotoType DEF DownloadFails, InstallIsPinned, Valid
  <2> QED
    BY <1>1, <2>1, <2>2 DEF DownloadFails, NoFetchWithoutProcess, CacheIsPinned,
                            UpdatedCoversCerts, Valid
<1>2. CASE DownloadAndValidate(i)
  <2> DEFINE found == [der |-> i, source |-> "https", fetchedAt |-> now]
  <2>1. CASE Valid(i, now) /\ rec' = [rec EXCEPT ![i] = found] /\ Goto(i, "install")
    <3>1. found \in CertRecord
      BY Times DEF CertRecord, Der
    <3>2. rec' \in [Issuer -> CertRecord] /\ rec'[i] = found
      BY <2>1, <3>1, RecordUpdate DEF TypeOK
    <3>3. \A j \in Issuer : j # i => rec'[j] = rec[j]
      BY <2>1, <3>1, RecordUpdate DEF TypeOK
    <3>4. TypeOK'
      BY <1>2, <2>1, <3>2, GotoType DEF DownloadAndValidate, TypeOK
    <3>5. InstallIsPinned'
      BY <1>2, <2>1, <3>2, <3>3, Times, GotoType
      DEF DownloadAndValidate, InstallIsPinned, Valid
    <3> QED
      BY <1>2, <3>4, <3>5 DEF DownloadAndValidate, NoFetchWithoutProcess,
                              CacheIsPinned, UpdatedCoversCerts, Valid
  <2>2. CASE Goto(i, "failed") /\ UNCHANGED rec
    <3>1. TypeOK'
      BY <1>2, <2>2, GotoType DEF DownloadAndValidate, TypeOK
    <3>2. InstallIsPinned'
      BY <1>2, <2>2, GotoType DEF DownloadAndValidate, InstallIsPinned, Valid
    <3> QED
      BY <1>2, <3>1, <3>2 DEF DownloadAndValidate, NoFetchWithoutProcess,
                              CacheIsPinned, UpdatedCoversCerts, Valid
  <2> QED BY <1>2, <2>1, <2>2 DEF DownloadAndValidate
<1>3. CASE setCert(i)
  <2>1. rec[i] \in CertRecord
    BY Times
  <2>2. certs' \in [Issuer -> CertRecord] /\ certs'[i] = rec[i]
    BY <1>3, <2>1, RecordUpdate DEF setCert, TypeOK
  <2>3. \A j \in Issuer : j # i => certs'[j] = certs[j]
    BY <1>3, <2>1, RecordUpdate DEF setCert, TypeOK
  <2>4. TypeOK'
    BY <1>3, <2>2, Times, GotoType DEF setCert, TypeOK
  <2>5. InstallIsPinned' /\ NoFetchWithoutProcess'
    BY <1>3, GotoType DEF setCert, InstallIsPinned, NoFetchWithoutProcess, Valid
  <2>6. CacheIsPinned'
    BY <1>3, <2>2, <2>3 DEF setCert, InstallIsPinned, CacheIsPinned, Valid
  <2>7. UpdatedCoversCerts'
    BY <1>3, <2>2, <2>3, Times DEF setCert, InstallIsPinned, UpdatedCoversCerts
  <2> QED BY <2>4, <2>5, <2>6, <2>7
<1>4. CASE recordAttempt(i)
  <2>1. consecutiveFail' \in 0..MaxFail
    BY <1>4, IssuerCertAssumption DEF recordAttempt, TypeOK
  <2>2. PICK label \in {"done", "report"} : gpc[i] # "done" /\ Goto(i, label)
    BY <1>4 DEF recordAttempt
  <2>3. TypeOK'
    BY <1>4, <2>1, <2>2, GotoType DEF recordAttempt, TypeOK
  <2>4. InstallIsPinned'
    BY <1>4, <2>2, GotoType DEF recordAttempt, InstallIsPinned, Valid
  <2> QED
    BY <1>4, <2>3, <2>4 DEF recordAttempt, NoFetchWithoutProcess, CacheIsPinned,
                            UpdatedCoversCerts, Valid
<1>5. CASE ReportError(i)
  <2>1. TypeOK'
    BY <1>5, GotoType DEF ReportError, TypeOK
  <2>2. InstallIsPinned'
    BY <1>5, GotoType DEF ReportError, InstallIsPinned, Valid
  <2> QED
    BY <1>5, <2>1, <2>2 DEF ReportError, NoFetchWithoutProcess, CacheIsPinned,
                            UpdatedCoversCerts, Valid
<1> QED BY <1>1, <1>2, <1>3, <1>4, <1>5 DEF fetchOne

\* The loop around the fetches, and the world.
LEMMA LoopIInv ==
  ASSUME IInv, FinishFetch \/ ScheduledFetch \/ Stop \/ LoopExit
  PROVE  IInv'
<1> USE DEF IInv, cache, fetch, Spawn, NoFetchWithoutProcess, InstallIsPinned,
            CacheIsPinned, UpdatedCoversCerts, Valid
<1>1. CASE FinishFetch
  BY <1>1 DEF FinishFetch, TypeOK
<1>2. CASE ScheduledFetch
  BY <1>2 DEF ScheduledFetch, TypeOK
<1>3. CASE Stop
  BY <1>3 DEF Stop, TypeOK
<1>4. CASE LoopExit
  BY <1>4 DEF LoopExit, TypeOK
<1> QED BY <1>1, <1>2, <1>3, <1>4

LEMMA WorldIInv ==
  ASSUME IInv,
         Tick \/ \E i \in Issuer, body \in Der \cup {"down"} : SiteChanges(i, body)
  PROVE  IInv'
<1> USE DEF IInv, cache, loop, fetch, NoFetchWithoutProcess, InstallIsPinned,
            CacheIsPinned, UpdatedCoversCerts, Valid
<1>1. CASE Tick
  <2>1. now \in Nat /\ now' = now + 1 /\ now' \in 0..MaxTime
    BY <1>1, IssuerCertAssumption DEF Tick, TypeOK
  <2>2. TypeOK'
    BY <1>1, <2>1 DEF Tick, TypeOK
  <2> QED BY <1>1, <2>1, <2>2, Times DEF Tick
<1>2. ASSUME NEW i \in Issuer, NEW body \in Der \cup {"down"}, SiteChanges(i, body)
      PROVE  IInv'
  BY <1>2 DEF SiteChanges, TypeOK
<1> QED BY <1>1, <1>2

LEMMA NextIInv == IInv /\ [Next]_vars => IInv'
<1> SUFFICES ASSUME IInv, [Next]_vars
             PROVE  IInv'
  OBVIOUS
<1>1. CASE UNCHANGED vars
  BY <1>1 DEF vars, IInv, TypeOK, NoFetchWithoutProcess, InstallIsPinned,
              CacheIsPinned, UpdatedCoversCerts, Valid
<1> QED
  BY <1>1, BootIInv, CrashIInv, FetchOneIInv, LoopIInv, WorldIInv DEF Next
-----------------------------------------------------------------------------
\* What a goroutine may assume when it gets the lock: the strengthened
\* invariant holds in every reachable state.
THEOREM Invariance == Spec => []IInv
  BY InitIInv, NextIInv, PTL DEF Spec

\* The values of the cache and of the goroutines; outside a fetch every
\* goroutine has ended and its error channel is empty.
THEOREM TypeCorrect == Spec => []TypeOK
<1>1. IInv => TypeOK
  BY DEF IInv
<1> QED BY <1>1, Invariance, PTL

\* Trusted never returns another certificate than the issuer's pinned one, and
\* that one was valid when it was obtained.
THEOREM OnlyPinnedTrusted == Spec => []CacheIsPinned
<1>1. IInv => CacheIsPinned
  BY DEF IInv
<1> QED BY <1>1, Invariance, PTL

\* The updated_at of the status never precedes a certificate of the cache.
THEOREM UpdateTimeIsTrue == Spec => []UpdatedCoversCerts
<1>1. IInv => UpdatedCoversCerts
  BY DEF IInv
<1> QED BY <1>1, Invariance, PTL
=============================================================================
