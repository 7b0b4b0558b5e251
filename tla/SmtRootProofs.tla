----------------------------- MODULE SmtRootProofs -----------------------------
(***************************************************************************)
(* The safety properties of SmtRoot, for every number of publications.     *)
(* IInv follows a fetch: what it may hold at each step, and how the cache, *)
(* the release and the roots at the start of the fetch are ordered.        *)
(***************************************************************************)
EXTENDS SmtRoot, TLAPS

\* The startup fetch is the only one that can end in a refusal, and an
\* exhausted fetch has no answers left.
Phases ==
  /\ phase = "refused" => step = "exited"
  /\ step = "exhausted" => got = NoAnswers

\* The contract only moves forward; the cache and the release follow it.
Ordered ==
  \A i \in Issuer :
    /\ base[i] <= chain[i]
    /\ release[i] <= chain[i]
    /\ roots[i] <= chain[i]
    /\ step \notin {"wait", "exited"} => roots[i] <= base[i]

\* What the fetch has heard: from the contract since it began, or, after a
\* failed call, from the release.
Heard ==
  /\ step = "github" => failed # {}
  /\ step = "install" => \A i \in Issuer : got[i] # NotLoaded
  /\ \A i \in Issuer : got[i] <= chain[i]
  /\ \A i \in Issuer :
       step = "onchain" \/ (step = "install" /\ failed = {}) =>
         got[i] = NotLoaded \/ base[i] <= got[i]

IInv ==
  /\ TypeOK
  /\ Phases
  /\ Ordered
  /\ Heard
  /\ ServingHasRoots
-----------------------------------------------------------------------------
LEMMA InitIInv == Init => IInv
<1> SUFFICES ASSUME Init
             PROVE  IInv
  OBVIOUS
<1> USE SmtRootAssumption DEF Init
<1>1. chain \in [Issuer -> Version] /\ NoAnswers \in [Issuer -> Version \cup {NotLoaded}]
  BY DEF Version, NoAnswers
<1>2. \A i \in Issuer : chain[i] \in Nat /\ NoAnswers[i] = NotLoaded /\ NotLoaded = -1
  BY DEF NoAnswers, NotLoaded
<1>3. TypeOK
  BY <1>1, 0 \in 0..MaxFail DEF TypeOK
<1>4. Phases
  BY DEF Phases
<1>5. Ordered
  BY <1>2 DEF Ordered
<1>6. Heard
  BY <1>2 DEF Heard
<1>7. ServingHasRoots
  BY DEF ServingHasRoots
<1> QED BY <1>3, <1>4, <1>5, <1>6, <1>7 DEF IInv

\* The orders are between integers.
LEMMA Numbers ==
  ASSUME TypeOK, NEW i \in Issuer
  PROVE  /\ chain[i] \in Int /\ release[i] \in Int /\ base[i] \in Int
         /\ roots[i] \in Int /\ got[i] \in Int
         /\ NotLoaded = -1 /\ NoAnswers[i] = -1
         /\ chain[i] # NotLoaded /\ release[i] # NotLoaded
         /\ NotLoaded <= chain[i]
  BY SmtRootAssumption DEF TypeOK, Version, NotLoaded, NoAnswers

LEMMA NoAnswersType == NoAnswers \in [Issuer -> Version \cup {NotLoaded}]
  BY DEF NoAnswers

\* Publications and outages.
LEMMA WorldStep ==
  ASSUME IInv,
         (\E i \in Issuer : PublishRoot(i)) \/ PublishRelease \/ ToggleRPC
  PROVE  IInv'
<1> USE DEF IInv, cache, server, answers
<1>1. ASSUME NEW i \in Issuer, PublishRoot(i)
      PROVE  IInv'
  <2>1. chain[i] \in Version /\ chain[i] + 1 \in Version
    BY <1>1, SmtRootAssumption DEF PublishRoot, TypeOK, Version
  <2>2. \A j \in Issuer : chain[j] <= chain'[j] /\ chain'[j] \in Int
    BY <1>1, Numbers DEF PublishRoot, TypeOK
  <2>3. TypeOK'
    BY <1>1, <2>1 DEF PublishRoot, TypeOK, NoAnswers
  <2>4. Ordered'
    BY <1>1, <2>2, Numbers DEF PublishRoot, Ordered
  <2>5. Heard'
    BY <1>1, <2>2, Numbers DEF PublishRoot, Heard
  <2> QED
    BY <1>1, <2>3, <2>4, <2>5 DEF PublishRoot, Phases, ServingHasRoots, NoAnswers
<1>2. CASE PublishRelease
  <2>1. TypeOK' /\ Phases' /\ ServingHasRoots' /\ Heard'
    BY <1>2 DEF PublishRelease, TypeOK, Phases, Heard, ServingHasRoots, NoAnswers
  <2>2. Ordered'
    BY <1>2, Numbers DEF PublishRelease, Ordered
  <2> QED BY <2>1, <2>2
<1>3. CASE ToggleRPC
  BY <1>3 DEF ToggleRPC, TypeOK, Phases, Ordered, Heard, ServingHasRoots,
              NoAnswers
<1> QED BY <1>1, <1>2, <1>3

\* The steps of FetchNow.
LEMMA FetchStepIInv ==
  ASSUME IInv, FetchStep
  PROVE  IInv'
<1> USE DEF IInv, world, cache, server, answers
<1>1. ASSUME NEW i \in Issuer, OnchainAnswer(i)
      PROVE  IInv'
  <2>1. TypeOK'
    BY <1>1 DEF OnchainAnswer, TypeOK, NoAnswers
  <2>2. Phases' /\ Ordered' /\ ServingHasRoots'
    BY <1>1 DEF OnchainAnswer, Phases, Ordered, ServingHasRoots
  <2>3. Heard'
    <3>1. CASE rpcUp /\ got' = [got EXCEPT ![i] = chain[i]] /\ UNCHANGED failed
      BY <1>1, <3>1, Numbers DEF OnchainAnswer, Heard, Ordered, TypeOK
    <3>2. CASE UNCHANGED got
      BY <1>1, <3>2 DEF OnchainAnswer, Heard
    <3> QED BY <1>1, <3>1, <3>2 DEF OnchainAnswer
  <2> QED BY <2>1, <2>2, <2>3
<1>2. CASE OnchainDone
  <2>1. TypeOK' /\ Phases' /\ ServingHasRoots'
    BY <1>2 DEF OnchainDone, TypeOK, Phases, ServingHasRoots, NoAnswers
  <2>2. Ordered'
    BY <1>2 DEF OnchainDone, Ordered
  <2>3. Heard'
    BY <1>2 DEF OnchainDone, Answered, Heard
  <2> QED BY <2>1, <2>2, <2>3
<1>3. CASE GitHubFetchAll
  <2>1. TypeOK'
    BY <1>3, NoAnswersType DEF GitHubFetchAll, TypeOK
  <2>2. Phases' /\ ServingHasRoots'
    BY <1>3 DEF GitHubFetchAll, TypeOK, Phases, ServingHasRoots, NoAnswers
  <2>3. Ordered'
    BY <1>3 DEF GitHubFetchAll, Ordered
  <2>4. Heard'
    BY <1>3, Numbers DEF GitHubFetchAll, Heard, Ordered
  <2> QED BY <2>1, <2>2, <2>3, <2>4
<1>4. CASE InstallRoots
  <2>1. roots' \in [Issuer -> Version \cup {NotLoaded}]
    BY <1>4 DEF InstallRoots, TypeOK
  <2>2. \A i \in Issuer : roots'[i] = got[i] /\ got[i] # NotLoaded
    BY <1>4 DEF InstallRoots, Heard
  <2>3. TypeOK'
    BY <1>4, <2>1, NoAnswersType, SmtRootAssumption DEF InstallRoots, TypeOK, NoAnswers
  <2>4. Phases' /\ ServingHasRoots'
    BY <1>4, <2>2 DEF InstallRoots, Phases, ServingHasRoots
  <2>5. Ordered' /\ Heard'
    BY <1>4, <2>2, Numbers DEF InstallRoots, Ordered, Heard
  <2> QED BY <2>3, <2>4, <2>5
<1>5. CASE RecordFailure
  <2>1. consecutiveFail' \in 0..MaxFail
    BY <1>5, SmtRootAssumption DEF RecordFailure, TypeOK
  <2>2. TypeOK'
    BY <1>5, <2>1 DEF RecordFailure, TypeOK, Phases, NoAnswers
  <2>3. Phases' /\ ServingHasRoots'
    BY <1>5 DEF RecordFailure, TypeOK, Phases, ServingHasRoots
  <2>4. Ordered' /\ Heard'
    BY <1>5 DEF RecordFailure, Ordered, Heard
  <2> QED BY <2>2, <2>3, <2>4
<1> QED BY <1>1, <1>2, <1>3, <1>4, <1>5 DEF FetchStep

LEMMA NextIInv == IInv /\ [Next]_vars => IInv'
<1> SUFFICES ASSUME IInv, [Next]_vars
             PROVE  IInv'
  OBVIOUS
<1> USE DEF NoAnswers, world, cache, server, answers
<1>1. CASE (\E i \in Issuer : PublishRoot(i)) \/ PublishRelease \/ ToggleRPC
  BY <1>1, WorldStep
<1>2. CASE FetchStep
  BY <1>2, FetchStepIInv
<1>3. CASE ScheduledFetch
  <2>1. TypeOK' /\ Phases' /\ ServingHasRoots'
    BY <1>3 DEF ScheduledFetch, IInv, TypeOK, Phases, ServingHasRoots
  <2>2. Ordered'
    BY <1>3, Numbers DEF ScheduledFetch, IInv, Ordered
  <2>3. Heard'
    BY <1>3, Numbers DEF ScheduledFetch, IInv, TypeOK, Heard, NotLoaded
  <2> QED BY <2>1, <2>2, <2>3 DEF IInv
<1>4. CASE Stop
  BY <1>4 DEF Stop, IInv, TypeOK, Phases, Ordered, Heard, ServingHasRoots
<1>5. CASE LoopExit
  BY <1>5 DEF LoopExit, IInv, TypeOK, Phases, Ordered, Heard, ServingHasRoots
<1>6. CASE UNCHANGED vars
  BY <1>6 DEF vars, IInv, TypeOK, Phases, Ordered, Heard, ServingHasRoots
<1> QED BY <1>1, <1>2, <1>3, <1>4, <1>5, <1>6 DEF Next
-----------------------------------------------------------------------------
\* What each step of FetchNow may assume of the answers and of the cache: the
\* strengthened invariant holds in every reachable state.
THEOREM Invariance == Spec => []IInv
  BY InitIInv, NextIInv, PTL DEF Spec

\* The values of the cache and of the fetch; between fetches no answers are
\* left over, and the loop runs in a serving process only.
THEOREM TypeCorrect == Spec => []TypeOK
<1>1. IInv => TypeOK
  BY DEF IInv
<1> QED BY <1>1, Invariance, PTL

\* cmd/server never serves without a root for each issuer.
THEOREM NeverWithoutRoots == Spec => []ServingHasRoots
<1>1. IInv => ServingHasRoots
  BY DEF IInv
<1> QED BY <1>1, Invariance, PTL

\* setRoots installs from the contract only what it answered in this fetch.
THEOREM AnswersAreFresh == Spec => []InstalledRootsFresh
<1>1. IInv => InstalledRootsFresh
  BY DEF IInv, Heard, InstalledRootsFresh
<1> QED BY <1>1, Invariance, PTL

\* Only the fallback puts an older root back into the cache.
THEOREM OnlyFallbackRegresses == Spec => RegressOnlyByFallback
<1>1. IInv /\ [Next]_vars =>
        [\A i \in Issuer :
           roots'[i] < roots[i] => sourceUsed' = "github" /\ failed # {}]_vars
  <2> SUFFICES ASSUME IInv, [Next]_vars, NEW i \in Issuer, roots'[i] < roots[i]
               PROVE  sourceUsed' = "github" /\ failed # {}
    OBVIOUS
  <2>1. roots[i] \in Int
    BY SmtRootAssumption DEF IInv, TypeOK, Version, NotLoaded
  <2>2. InstallRoots
    BY <2>1 DEF Next, FetchStep, PublishRoot, PublishRelease, ToggleRPC,
                OnchainAnswer, OnchainDone, GitHubFetchAll, RecordFailure,
                ScheduledFetch, Stop, LoopExit, vars, cache
  <2>3. failed # {}
    <3> SUFFICES ASSUME failed = {}
                 PROVE  FALSE
      OBVIOUS
    <3>1. roots'[i] = got[i] /\ base[i] <= got[i] /\ roots[i] <= base[i]
      BY <2>2 DEF InstallRoots, IInv, Heard, Ordered
    <3> QED
      BY <2>1, <3>1, SmtRootAssumption DEF IInv, TypeOK, Version, NotLoaded
  <2> QED BY <2>2, <2>3 DEF InstallRoots
<1> QED BY <1>1, Invariance, PTL DEF Spec, RegressOnlyByFallback
=============================================================================
