------------------------------ MODULE SmtRoot -------------------------------
(***************************************************************************)
(* smtroot.Provider: the cache of revocation roots.  cmd/server fetches    *)
(* once before it serves and refuses to start if that fails; then one loop *)
(* refreshes.  A fetch asks the contract (one eth_call per issuer, in      *)
(* parallel) and, if any call failed, the GitHub release; a failed fetch   *)
(* leaves the cache in place.                                              *)
(*                                                                         *)
(* A root is the number of its publication: 0 is the zero word the         *)
(* contract answers for an issuer it does not know.  Timestamps, latencies *)
(* and the per-source attempt counters are left out.                       *)
(***************************************************************************)
EXTENDS Integers

CONSTANTS
  MaxVersion,   \* bound on the publications of an issuer's root
  MaxFail       \* consecutiveFail is counted up to MaxFail

ASSUME SmtRootAssumption == MaxVersion \in Nat \ {0} /\ MaxFail \in Nat \ {0}

Issuer == {"g2", "g3"}

NotLoaded == -1

Version == 0..MaxVersion

VARIABLES
  chain, release,    \* what the contract and the GitHub release hold
  rpcUp,             \* the RPC endpoint answers in time
  roots, sourceUsed, consecutiveFail,   \* the cache (source "none": not set yet;
                     \* lastError: see Healthy)
  phase,             \* of cmd/server: "boot", "serving", "refused"
  stopped,           \* stopCh is closed or the context is cancelled
  step,              \* where FetchNow, or the loop around it, is
  got, failed,       \* answers to the current OnchainSource.FetchAll
  base               \* history: the contract's roots when the fetch began

world == <<chain, release, rpcUp>>
cache == <<roots, sourceUsed, consecutiveFail>>
server == <<phase, stopped>>
answers == <<got, failed>>
vars == <<chain, release, rpcUp, roots, sourceUsed, consecutiveFail, phase,
          stopped, step, got, failed, base>>

NoAnswers == [i \in Issuer |-> NotLoaded]

\* lastError is empty exactly when no failure was recorded since a success.
Healthy == consecutiveFail = 0

TypeOK ==
  /\ chain \in [Issuer -> Version]
  /\ release \in [Issuer -> Version]
  /\ rpcUp \in BOOLEAN
  /\ roots \in [Issuer -> Version \cup {NotLoaded}]
  /\ sourceUsed \in {"none", "onchain", "github"}
  /\ consecutiveFail \in 0..MaxFail
  /\ phase \in {"boot", "serving", "refused"}
  /\ stopped \in BOOLEAN
  /\ step \in {"onchain", "github", "install", "exhausted", "wait", "exited"}
  /\ got \in [Issuer -> Version \cup {NotLoaded}]
  /\ failed \subseteq Issuer
  /\ base \in [Issuer -> Version]
  /\ step \in {"wait", "exited"} => got = NoAnswers /\ failed = {}
  /\ step = "wait" => phase = "serving"

Init ==
  /\ chain \in [Issuer -> {0, 1}]
  /\ release = chain
  /\ rpcUp \in BOOLEAN
  /\ roots = NoAnswers /\ sourceUsed = "none" /\ consecutiveFail = 0
  /\ phase = "boot" /\ stopped = FALSE
  /\ step = "onchain" /\ got = NoAnswers /\ failed = {}
  /\ base = chain
-----------------------------------------------------------------------------
(***************************************************************************)
(* The world around the provider.                                          *)
(***************************************************************************)
PublishRoot(i) ==
  /\ chain[i] < MaxVersion
  /\ chain' = [chain EXCEPT ![i] = @ + 1]
  /\ UNCHANGED <<release, rpcUp, cache, server, step, answers, base>>

PublishRelease ==
  /\ release # chain
  /\ release' = chain
  /\ UNCHANGED <<chain, rpcUp, cache, server, step, answers, base>>

ToggleRPC ==
  /\ rpcUp' = ~ rpcUp
  /\ UNCHANGED <<chain, release, cache, server, step, answers, base>>
-----------------------------------------------------------------------------
(***************************************************************************)
(* FetchNow.  OnchainSource.FetchAll: the calls answer one by one, and the *)
(* contract may change in between; a failed call (no answer in time, or the context *)
(* was cancelled) fails the source.                                        *)
(***************************************************************************)
Answered == {i \in Issuer : got[i] # NotLoaded} \cup failed

OnchainAnswer(i) ==
  /\ step = "onchain"
  /\ i \notin Answered
  /\ \/ rpcUp /\ got' = [got EXCEPT ![i] = chain[i]] /\ UNCHANGED failed
     \/ (~ rpcUp \/ stopped) /\ failed' = failed \cup {i} /\ UNCHANGED got
  /\ UNCHANGED <<world, cache, server, step, base>>

OnchainDonePartial ==   \* mutant: FetchAll returns the roots it could get
  /\ step = "onchain"
  /\ Answered = Issuer
  /\ step' = IF failed # Issuer THEN "install" ELSE "github"
  /\ UNCHANGED <<world, cache, server, answers, base>>

OnchainDone ==
  /\ step = "onchain"
  /\ Answered = Issuer
  /\ step' = IF failed = {} THEN "install" ELSE "github"
  /\ UNCHANGED <<world, cache, server, answers, base>>

\* One GET of the release; parseReleaseBody wants every issuer in its body.
GitHubFetchAll ==
  /\ step = "github"
  /\ \/ step' = "install" /\ got' = release
     \/ step' = "exhausted" /\ got' = NoAnswers
  /\ UNCHANGED <<world, cache, server, failed, base>>

InstallRootsKeepsAnswers ==   \* mutant: the answers are shared by fetches
  /\ step = "install"
  /\ roots' = got
  /\ sourceUsed' = IF failed = {} THEN "onchain" ELSE "github"
  /\ consecutiveFail' = 0
  /\ phase' = "serving"
  /\ step' = "wait" /\ failed' = {}
  /\ UNCHANGED <<world, stopped, got, base>>

\* setRoots on success merges the answers into the cache in one critical
\* section; FetchNow returns.
InstallRoots ==
  /\ step = "install"
  /\ roots' = [i \in Issuer |-> IF got[i] = NotLoaded THEN roots[i] ELSE got[i]]
  /\ sourceUsed' = IF failed = {} THEN "onchain" ELSE "github"
  /\ consecutiveFail' = 0
  /\ phase' = "serving"
  /\ step' = "wait" /\ got' = NoAnswers /\ failed' = {}
  /\ UNCHANGED <<world, stopped, base>>

RecordFailureQuitsLoop ==   \* mutant: the loop returns on an error
  /\ step = "exhausted"
  /\ consecutiveFail' = IF consecutiveFail < MaxFail THEN consecutiveFail + 1
                        ELSE MaxFail
  /\ phase' = IF phase = "boot" THEN "refused" ELSE phase
  /\ step' = "exited"
  /\ failed' = {}
  /\ UNCHANGED <<world, roots, sourceUsed, stopped, got, base>>

RecordFailureClearsRoots ==   \* mutant: the stale roots are dropped
  /\ step = "exhausted"
  /\ roots' = NoAnswers
  /\ consecutiveFail' = IF consecutiveFail < MaxFail THEN consecutiveFail + 1
                        ELSE MaxFail
  /\ phase' = IF phase = "boot" THEN "refused" ELSE phase
  /\ step' = IF phase = "boot" THEN "exited" ELSE "wait"
  /\ failed' = {}
  /\ UNCHANGED <<world, sourceUsed, stopped, got, base>>

\* setRoots on failure: the cache stays.  At startup the server gives up; the
\* loop ignores the error.
RecordFailure ==
  /\ step = "exhausted"
  /\ consecutiveFail' = IF consecutiveFail < MaxFail THEN consecutiveFail + 1
                        ELSE MaxFail
  /\ phase' = IF phase = "boot" THEN "refused" ELSE phase
  /\ step' = IF phase = "boot" THEN "exited" ELSE "wait"
  /\ failed' = {}
  /\ UNCHANGED <<world, roots, sourceUsed, stopped, got, base>>
-----------------------------------------------------------------------------
(***************************************************************************)
(* The loop: a select over the ticker and the stop signals; when both are  *)
(* ready, Go chooses either.                                               *)
(***************************************************************************)
ScheduledFetch ==
  /\ step = "wait"
  /\ step' = "onchain"
  /\ base' = chain
  /\ UNCHANGED <<world, cache, server, answers>>

Stop ==
  /\ phase = "serving"
  /\ ~ stopped
  /\ stopped' = TRUE
  /\ UNCHANGED <<world, cache, phase, step, answers, base>>

LoopExitNever ==   \* mutant: the loop does not select on stopCh
  step = "wait" /\ stopped /\ FALSE /\ UNCHANGED vars

LoopExit ==
  /\ step = "wait"
  /\ stopped
  /\ step' = "exited"
  /\ UNCHANGED <<world, cache, server, answers, base>>
-----------------------------------------------------------------------------
FetchStep ==
  \/ \E i \in Issuer : OnchainAnswer(i)
  \/ OnchainDone
  \/ GitHubFetchAll
  \/ InstallRoots
  \/ RecordFailure

Next ==
  \/ \E i \in Issuer : PublishRoot(i)
  \/ PublishRelease
  \/ ToggleRPC
  \/ FetchStep
  \/ ScheduledFetch
  \/ Stop
  \/ LoopExit

Spec == Init /\ [][Next]_vars

(***************************************************************************)
(* Every attempt has a timeout and the ticker keeps ticking; select picks  *)
(* among ready cases at random, so a stop that stays ready is picked.      *)
(***************************************************************************)
Fairness == WF_vars(FetchStep) /\ WF_vars(ScheduledFetch) /\ SF_vars(LoopExit)

FairSpec == Spec /\ Fairness
-----------------------------------------------------------------------------
(***************************************************************************)
(* Properties.                                                             *)
(***************************************************************************)
\* Startup is fail-closed and a source never answers for some issuers only:
\* while the server serves, every issuer has a root, whatever failed since.
ServingHasRoots ==
  phase = "serving" => \A i \in Issuer : roots[i] # NotLoaded

\* What a contract fetch is about to install is, for each issuer, a root the
\* contract held during this very fetch (the issuers' calls are separate, so
\* not necessarily at the same block).
InstalledRootsFresh ==
  step = "install" /\ failed = {} =>
    \A i \in Issuer : base[i] <= got[i] /\ got[i] <= chain[i]

\* The cache goes back to an older root only by falling back to the GitHub
\* release after a contract call failed in the same fetch.
RegressOnlyByFallback ==
  [][\A i \in Issuer :
       roots'[i] < roots[i] => sourceUsed' = "github" /\ failed # {}]_vars

\* Stale-on-error is temporary: if the contract answers from some time on and
\* nobody stops the provider, the cache ends up with the contract's roots and
\* /smt-root/status shows no failure.
RefreshRecovers ==
  <>[](phase = "serving" /\ rpcUp /\ ~ stopped) =>
    <>[](roots = chain /\ Healthy)

\* Stop ends the refresh loop, even when it comes during a fetch.
StopEndsLoop == stopped ~> step = "exited"

\* smtroot.go: the zero root of an unknown issuer is "meaningfully distinct
\* from 'root is loaded'": a zero word is not cached as a trusted root.
LoadedRootsNonZero == \A i \in Issuer : roots[i] # 0
=============================================================================
