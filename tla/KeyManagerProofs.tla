--------------------------- MODULE KeyManagerProofs ---------------------------
(***************************************************************************)
(* The safety properties of KeyManager for any number of processes and of  *)
(* keys.  IInv strengthens them with what each step of a download knows of *)
(* the temp file and of the file under the key's name.                     *)
(***************************************************************************)
EXTENDS KeyManager, TLAPS

\* The temp file holds the bytes that were hashed, and from the comparison
\* on, the pinned ones.
TempIsHashed ==
  \A p \in Process, k \in Key :
    /\ pc[p][k] = "check" => tmp[p][k] = body[p][k]
    /\ pc[p][k] = "rename" => tmp[p][k] = "pinned"

\* A goroutine that has passed the removal leaves no wrong key behind it.
WrongIsRemoved ==
  \A p \in Process, k \in Key :
    writable /\ pc[p][k] \notin {"stat", "verify", "remove"}
      => dest[k] # "other"

\* If a key is absent or wrong, a process that took part knows it or has not
\* finished with it; unless nobody has finished with it.
AbsenceIsKnown ==
  \A k \in Key :
    \/ dest[k] = "pinned"
    \/ \A p \in Process : pc[p][k] # "ok"
    \/ \E p \in Process : phase[p] # "off" /\ pc[p][k] # "ok"

\* JoinErrors loses no error.
ErrorsAreJoined ==
  \A p \in Process :
    phase[p] = "serving" /\ p \notin warned => \A k \in Key : pc[p][k] = "ok"

IInv ==
  /\ TypeOK
  /\ TempIsHashed
  /\ WrongIsRemoved
  /\ AbsenceIsKnown
  /\ ErrorsAreJoined
-----------------------------------------------------------------------------
LEMMA InitIInv == Init => IInv
  BY DEF Init, IInv, TypeOK, TempIsHashed, WrongIsRemoved, AbsenceIsKnown,
         ErrorsAreJoined, File, Content, Downloading, Label

\* A goroutine changes its own entries only.
Own(p, k) ==
  /\ phase[p] = "ensuring"
  /\ \E l \in Label : pc' = [pc EXCEPT ![p][k] = l]
  /\ tmp' = tmp \/ \E t \in File : tmp' = [tmp EXCEPT ![p][k] = t]
  /\ body' = body \/ \E b \in File : body' = [body EXCEPT ![p][k] = b]
  /\ dest' = dest \/ \E d \in File : dest' = [dest EXCEPT ![k] = d]
  /\ UNCHANGED <<writable, reachable, phase, warned>>

LEMMA OwnEntries ==
  ASSUME TypeOK, NEW p \in Process, NEW k \in Key, Own(p, k)
  PROVE  /\ pc' \in [Process -> [Key -> Label]]
         /\ tmp' \in [Process -> [Key -> File]]
         /\ body' \in [Process -> [Key -> File]]
         /\ dest' \in [Key -> File]
         /\ \A q \in Process, j \in Key : q # p \/ j # k =>
              /\ pc'[q][j] = pc[q][j]
              /\ tmp'[q][j] = tmp[q][j]
              /\ body'[q][j] = body[q][j]
         /\ \A j \in Key \ {k} : dest'[j] = dest[j]
<1>1. /\ pc' \in [Process -> [Key -> Label]]
      /\ \A q \in Process, j \in Key : q # p \/ j # k => pc'[q][j] = pc[q][j]
  <2>1. PICK l \in Label : pc' = [pc EXCEPT ![p][k] = l]
    BY DEF Own
  <2> QED BY <2>1 DEF TypeOK
<1>2. /\ tmp' \in [Process -> [Key -> File]]
      /\ \A q \in Process, j \in Key : q # p \/ j # k => tmp'[q][j] = tmp[q][j]
  <2>1. CASE tmp' = tmp
    BY <2>1 DEF TypeOK
  <2>2. CASE \E t \in File : tmp' = [tmp EXCEPT ![p][k] = t]
    BY <2>2 DEF TypeOK
  <2> QED BY <2>1, <2>2 DEF Own
<1>3. /\ body' \in [Process -> [Key -> File]]
      /\ \A q \in Process, j \in Key : q # p \/ j # k => body'[q][j] = body[q][j]
  <2>1. CASE body' = body
    BY <2>1 DEF TypeOK
  <2>2. CASE \E b \in File : body' = [body EXCEPT ![p][k] = b]
    BY <2>2 DEF TypeOK
  <2> QED BY <2>1, <2>2 DEF Own
<1>4. dest' \in [Key -> File] /\ \A j \in Key \ {k} : dest'[j] = dest[j]
  BY DEF TypeOK, Own
<1> QED BY <1>1, <1>2, <1>3, <1>4

\* The cases of a step: what it finds and what it leaves behind.
Effect(p, k) ==
  \/ /\ pc[p][k] = "stat"
     /\ pc'[p][k] = IF dest[k] = "none" THEN "get" ELSE "verify"
     /\ tmp'[p][k] = "none" /\ body'[p][k] = "none" /\ UNCHANGED dest
  \/ /\ pc[p][k] = "verify"
     /\ \/ dest[k] = "pinned" /\ pc'[p][k] = "ok"
        \/ pc'[p][k] = "remove"
     /\ tmp'[p][k] = "none" /\ body'[p][k] = "none" /\ UNCHANGED dest
  \/ /\ pc[p][k] = "remove"
     /\ \/ dest'[k] = "none" /\ pc'[p][k] = "get"
        \/ ~ writable /\ UNCHANGED dest /\ pc'[p][k] = "error"
     /\ tmp'[p][k] = "none" /\ body'[p][k] = "none"
  \/ /\ pc[p][k] = "get"
     /\ \/ pc'[p][k] = "create" /\ body'[p][k] \in Content
        \/ pc'[p][k] = "error" /\ body'[p][k] = "none"
     /\ tmp'[p][k] = "none" /\ UNCHANGED dest
  \/ /\ pc[p][k] = "create"
     /\ \/ pc'[p][k] = "write" /\ tmp'[p][k] = "other" /\ body'[p][k] \in Content
        \/ pc'[p][k] = "error" /\ tmp'[p][k] = "none" /\ body'[p][k] = "none"
     /\ UNCHANGED dest
  \/ /\ pc[p][k] = "write"
     /\ \/ /\ pc'[p][k] = "check"
           /\ tmp'[p][k] = body'[p][k] /\ body'[p][k] \in Content
        \/ pc'[p][k] = "error" /\ tmp'[p][k] = "none" /\ body'[p][k] = "none"
     /\ UNCHANGED dest
  \/ /\ pc[p][k] = "check"
     /\ \/ /\ pc'[p][k] = "rename" /\ body[p][k] = "pinned"
           /\ tmp'[p][k] = tmp[p][k]
        \/ pc'[p][k] = "error" /\ tmp'[p][k] = "none"
     /\ body'[p][k] = "none" /\ UNCHANGED dest
  \/ /\ pc[p][k] = "rename"
     /\ \/ pc'[p][k] = "ok" /\ dest'[k] = tmp[p][k]
        \/ pc'[p][k] = "error" /\ UNCHANGED dest
     /\ tmp'[p][k] = "none" /\ body'[p][k] = "none"

LEMMA StepEffect ==
  ASSUME TypeOK, NEW p \in Process, NEW k \in Key, EnsureOne(p, k)
  PROVE  Own(p, k) /\ Effect(p, k)
<1> USE DEF At, Goto, files
<1>a. /\ {"get", "verify", "remove", "create", "write", "check", "rename", "ok",
          "error"} \subseteq Label
      /\ Content \cup {"none", "other"} \subseteq File
  BY DEF Label, Downloading, File, Content
<1>b. pc[p][k] \notin Downloading => tmp[p][k] = "none"
  BY DEF TypeOK
<1>c. /\ pc[p][k] \notin {"create", "write", "check"} => body[p][k] = "none"
      /\ pc[p][k] \in {"create", "write", "check"} => body[p][k] \in Content
  BY DEF TypeOK, File
<1>d. tmp[p][k] \in File /\ body[p][k] \in File
  BY DEF TypeOK
<1>1. CASE Stat(p, k)
  <2>1. Own(p, k)
    BY <1>a, <1>d, <1>1 DEF Stat, Own
  <2>2. Effect(p, k)
    BY <1>b, <1>c, <1>1 DEF TypeOK, Stat, Effect, Downloading
  <2> QED BY <2>1, <2>2
<1>2. CASE VerifyFile(p, k)
  <2>1. Own(p, k)
    BY <1>a, <1>d, <1>2 DEF VerifyFile, Own
  <2>2. Effect(p, k)
    BY <1>b, <1>c, <1>2 DEF TypeOK, VerifyFile, Effect, Downloading
  <2> QED BY <2>1, <2>2
<1>3. CASE RemoveStale(p, k)
  <2>1. Own(p, k)
    BY <1>a, <1>d, <1>3 DEF RemoveStale, Own
  <2>2. Effect(p, k)
    BY <1>b, <1>c, <1>3 DEF TypeOK, RemoveStale, Effect, Downloading
  <2> QED BY <2>1, <2>2
<1>4. CASE Get(p, k)
  <2>1. Own(p, k)
    BY <1>a, <1>d, <1>4 DEF Get, Own
  <2>2. Effect(p, k)
    BY <1>b, <1>c, <1>4 DEF TypeOK, Get, Effect, Downloading
  <2> QED BY <2>1, <2>2
<1>5. CASE CreateTemp(p, k)
  <2>1. Own(p, k)
    BY <1>a, <1>d, <1>5 DEF CreateTemp, TempName, Drop, Own
  <2>2. Effect(p, k)
    BY <1>b, <1>c, <1>5 DEF TypeOK, CreateTemp, TempName, Drop, Effect, Downloading
  <2> QED BY <2>1, <2>2
<1>6. CASE WriteBody(p, k)
  <2>1. Own(p, k)
    BY <1>a, <1>d, <1>6 DEF WriteBody, TempName, RemoveTemp, Drop, Own
  <2>2. Effect(p, k)
    BY <1>b, <1>c, <1>6 DEF TypeOK, WriteBody, TempName, RemoveTemp, Drop, Effect, Downloading
  <2> QED BY <2>1, <2>2
<1>7. CASE CompareHash(p, k)
  <2>1. Own(p, k)
    BY <1>a, <1>d, <1>7 DEF CompareHash, TempName, RemoveTemp, Drop, Own
  <2>2. Effect(p, k)
    BY <1>b, <1>c, <1>7 DEF TypeOK, CompareHash, TempName, RemoveTemp, Drop, Effect, Downloading
  <2> QED BY <2>1, <2>2
<1>8. CASE Rename(p, k)
  <2>1. Own(p, k)
    BY <1>a, <1>d, <1>8 DEF Rename, TempName, RemoveTemp, Own
  <2>2. Effect(p, k)
    BY <1>b, <1>c, <1>8 DEF TypeOK, Rename, TempName, RemoveTemp, Effect, Downloading
  <2> QED BY <2>1, <2>2
<1> QED BY <1>1, <1>2, <1>3, <1>4, <1>5, <1>6, <1>7, <1>8 DEF EnsureOne
-----------------------------------------------------------------------------
\* The steps of a goroutine.
LEMMA GoroutineStep ==
  ASSUME IInv, NEW p \in Process, NEW k \in Key, EnsureOne(p, k)
  PROVE  IInv'
<1>1. TypeOK
  BY DEF IInv
<1>2. Own(p, k) /\ Effect(p, k)
  BY <1>1, StepEffect
<1>3. /\ pc' \in [Process -> [Key -> Label]]
      /\ tmp' \in [Process -> [Key -> File]]
      /\ body' \in [Process -> [Key -> File]]
      /\ dest' \in [Key -> File]
  BY <1>1, <1>2, OwnEntries
<1>4. \A q \in Process, j \in Key : q # p \/ j # k =>
        /\ pc'[q][j] = pc[q][j]
        /\ tmp'[q][j] = tmp[q][j]
        /\ body'[q][j] = body[q][j]
  BY <1>1, <1>2, OwnEntries
<1>5. \A j \in Key \ {k} : dest'[j] = dest[j]
  BY <1>1, <1>2, OwnEntries
<1>6. phase[p] = "ensuring" /\ UNCHANGED <<writable, reachable, phase, warned>>
  BY <1>2 DEF Own
<1>7. pc[p][k] \in {"stat", "verify", "remove", "get", "create", "write",
                    "check", "rename"}
  BY <1>2 DEF Effect
<1>8. dest'[k] = dest[k] \/ dest'[k] = "none" \/ dest'[k] = tmp[p][k]
  BY <1>2 DEF Effect
<1>10. TypeOK'
  <2>1. ASSUME NEW q \in Process, NEW j \in Key
        PROVE  /\ tmp'[q][j] # "none" <=> pc'[q][j] \in Downloading
               /\ body'[q][j] # "none" <=>
                    pc'[q][j] \in {"create", "write", "check"}
               /\ phase'[q] = "serving" => pc'[q][j] \in {"ok", "error"}
               /\ phase'[q] \in {"off", "crashed"} => pc'[q][j] = "stat"
    <3>1. CASE q # p \/ j # k
      BY <1>1, <1>4, <1>6, <3>1 DEF TypeOK
    <3>2. CASE q = p /\ j = k
      <4>1. tmp'[p][k] # "none" <=> pc'[p][k] \in Downloading
        BY <1>1, <1>2 DEF TypeOK, Effect, Downloading, Content
      <4>2. body'[p][k] # "none" <=> pc'[p][k] \in {"create", "write", "check"}
        BY <1>1, <1>2 DEF TypeOK, Effect, Downloading, Content
      <4> QED BY <1>6, <3>2, <4>1, <4>2
    <3> QED BY <3>1, <3>2
  <2> QED BY <1>1, <1>3, <1>6, <2>1 DEF TypeOK
<1>11. TempIsHashed'
  <2>1. /\ pc'[p][k] = "check" => tmp'[p][k] = body'[p][k]
        /\ pc'[p][k] = "rename" => tmp'[p][k] = "pinned"
    BY <1>2 DEF IInv, TempIsHashed, Effect
  <2> QED BY <1>4, <2>1 DEF IInv, TempIsHashed
<1>12. WrongIsRemoved'
  <2>1. ASSUME writable', dest'[k] = "other"
        PROVE  dest[k] = "other" /\ pc[p][k] \in {"stat", "verify"}
    BY <1>2, <1>6, <2>1 DEF IInv, TempIsHashed, WrongIsRemoved, Effect
  <2>2. ASSUME writable', dest'[k] = "other"
        PROVE  pc'[p][k] \in {"verify", "remove"}
    BY <1>2, <1>6, <2>1, <2>2 DEF Effect
  <2>3. ASSUME NEW q \in Process, NEW j \in Key, writable', dest'[j] = "other"
        PROVE  pc'[q][j] \in {"stat", "verify", "remove"}
    <3>1. CASE j # k
      BY <1>4, <1>5, <1>6, <2>3, <3>1 DEF IInv, WrongIsRemoved
    <3>2. CASE j = k /\ q = p
      BY <2>2, <2>3, <3>2
    <3>3. CASE j = k /\ q # p
      BY <1>4, <1>6, <2>1, <2>3, <3>3 DEF IInv, WrongIsRemoved
    <3> QED BY <3>1, <3>2, <3>3
  <2> QED BY <2>3 DEF WrongIsRemoved
<1>13. AbsenceIsKnown'
  <2>1. CASE dest'[k] = "pinned"
    BY <1>4, <1>5, <1>6, <2>1 DEF IInv, AbsenceIsKnown
  <2>2. CASE dest'[k] # "pinned"
    <3>1. pc'[p][k] # "ok"
      BY <1>2, <2>2 DEF IInv, TempIsHashed, Effect
    <3>2. \E q \in Process : phase'[q] # "off" /\ pc'[q][k] # "ok"
      BY <1>6, <3>1
    <3> QED BY <1>4, <1>5, <1>6, <3>2 DEF IInv, AbsenceIsKnown
  <2> QED BY <2>1, <2>2
<1>14. ErrorsAreJoined'
  BY <1>4, <1>6 DEF IInv, ErrorsAreJoined
<1> QED BY <1>10, <1>11, <1>12, <1>13, <1>14 DEF IInv

\* The steps of the processes and of the environment.
LEMMA ProcessStep ==
  ASSUME IInv, NEW p \in Process, Boot(p) \/ JoinErrors(p) \/ Crash(p)
  PROVE  IInv'
<1> USE DEF IInv, files
<1>1. CASE Boot(p)
  <2>1. TypeOK'
    BY <1>1 DEF TypeOK, Boot
  <2> QED
    BY <1>1, <2>1 DEF TypeOK, Boot, TempIsHashed, WrongIsRemoved,
                      AbsenceIsKnown, ErrorsAreJoined
<1>2. CASE JoinErrors(p)
  <2>1. TypeOK'
    BY <1>2 DEF TypeOK, JoinErrors
  <2>2. TempIsHashed' /\ WrongIsRemoved' /\ AbsenceIsKnown'
    BY <1>2 DEF TypeOK, JoinErrors, TempIsHashed, WrongIsRemoved,
                AbsenceIsKnown
  <2>3. ErrorsAreJoined'
    BY <1>2 DEF TypeOK, JoinErrors, ErrorsAreJoined
  <2> QED BY <2>1, <2>2, <2>3
<1>3. CASE Crash(p)
  <2>1. TypeOK'
    BY <1>3 DEF TypeOK, Crash, File, Label, Downloading
  <2>2. \A q \in Process, j \in Key :
          IF q = p THEN pc'[q][j] = "stat"
          ELSE pc'[q][j] = pc[q][j] /\ tmp'[q][j] = tmp[q][j]
                 /\ body'[q][j] = body[q][j] /\ phase'[q] = phase[q]
    BY <1>3 DEF TypeOK, Crash
  <2>3. TempIsHashed' /\ WrongIsRemoved'
    BY <1>3, <2>2 DEF Crash, TempIsHashed, WrongIsRemoved
  <2>4. AbsenceIsKnown'
    <3>1. phase'[p] # "off"
      BY <1>3 DEF TypeOK, Crash
    <3> QED BY <1>3, <2>2, <3>1 DEF Crash, AbsenceIsKnown
  <2>5. ErrorsAreJoined'
    <3>1. phase'[p] # "serving"
      BY <1>3 DEF TypeOK, Crash
    <3> QED BY <1>3, <2>2, <3>1 DEF Crash, ErrorsAreJoined
  <2> QED BY <2>1, <2>3, <2>4, <2>5
<1> QED BY <1>1, <1>2, <1>3

LEMMA NextIInv == IInv /\ [Next]_vars => IInv'
<1> SUFFICES ASSUME IInv, [Next]_vars
             PROVE  IInv'
  OBVIOUS
<1>1. ASSUME NEW p \in Process, Boot(p) \/ JoinErrors(p) \/ Crash(p)
      PROVE  IInv'
  BY <1>1, ProcessStep
<1>2. ASSUME NEW p \in Process, NEW k \in Key, EnsureOne(p, k)
      PROVE  IInv'
  BY <1>2, GoroutineStep
<1>3. CASE ToggleRelease
  BY <1>3 DEF ToggleRelease, files, IInv, TypeOK, TempIsHashed,
              WrongIsRemoved, AbsenceIsKnown, ErrorsAreJoined
<1>4. CASE UNCHANGED vars
  BY <1>4 DEF vars, IInv, TypeOK, TempIsHashed, WrongIsRemoved,
              AbsenceIsKnown, ErrorsAreJoined
<1> QED BY <1>1, <1>2, <1>3, <1>4 DEF Next
-----------------------------------------------------------------------------
\* What every step of every process may assume of the directory: the
\* strengthened invariant holds in every reachable state.
THEOREM Invariance == Spec => []IInv
  BY InitIInv, NextIInv, PTL DEF Spec

\* A temp file exists exactly during its download, however it ends, and no
\* process serves before its goroutines have returned.
THEOREM TypeCorrect == Spec => []TypeOK
<1>1. IInv => TypeOK
  BY DEF IInv
<1> QED BY <1>1, Invariance, PTL

\* In a writable KEYS_DIR no process serves with a key of another hash.
THEOREM OnlyPinnedServed == Spec => []ServesPinnedKeys
<1>1. IInv => ServesPinnedKeys
  BY DEF IInv, TypeOK, WrongIsRemoved, ServesPinnedKeys
<1> QED BY <1>1, Invariance, PTL

\* EnsureKeys' nil error means that the keys are in place, although the
\* processes remove and rename the same files.
THEOREM NilMeansPresent == Spec => []SuccessMeansPresent
<1>1. IInv => SuccessMeansPresent
  <2> SUFFICES ASSUME IInv, NEW q \in Process, phase[q] = "serving",
                      warned = {},
                      \A p \in Process : phase[p] \in {"off", "serving"},
                      NEW k \in Key
               PROVE  dest[k] = "pinned"
    BY DEF SuccessMeansPresent
  <2>1. \A p \in Process : phase[p] = "serving" => pc[p][k] = "ok"
    BY DEF IInv, ErrorsAreJoined
  <2> QED BY <2>1 DEF IInv, AbsenceIsKnown
<1> QED BY <1>1, Invariance, PTL

\* What is renamed to a key's name is the pinned key.
THEOREM RenamesArePinned == Spec => InstalledIsPinned
<1>1. IInv /\ [Next]_vars =>
        [\A k \in Key : dest'[k] # dest[k] => dest'[k] \in {"none", "pinned"}]_vars
  <2> SUFFICES ASSUME IInv, [Next]_vars, NEW k \in Key, dest'[k] # dest[k]
               PROVE  dest'[k] \in {"none", "pinned"}
    OBVIOUS
  <2>1. PICK p \in Process, j \in Key : EnsureOne(p, j)
    BY DEF Next, Boot, JoinErrors, Crash, ToggleRelease, files, vars
  <2>2. Own(p, j) /\ Effect(p, j) /\ \A i \in Key \ {j} : dest'[i] = dest[i]
    BY <2>1, StepEffect, OwnEntries DEF IInv
  <2> QED BY <2>2 DEF IInv, TempIsHashed, Effect
<1> QED BY <1>1, Invariance, PTL DEF Spec, InstalledIsPinned
=============================================================================
