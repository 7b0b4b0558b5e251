----------------------------- MODULE KeyManager -----------------------------
(***************************************************************************)
(* keymanager.EnsureKeys: server processes that share one KEYS_DIR check   *)
(* the verifying keys at start-up and download the missing and the wrong   *)
(* ones, one goroutine per key.  A download goes to a temp file of its     *)
(* own, is hashed, and is renamed into place.  The file operations of      *)
(* different goroutines and processes interleave, and a process may die    *)
(* between any two of them.                                                *)
(*                                                                         *)
(* The content of a file is "pinned" (the SHA-256 in expectedSHA256) or    *)
(* "other"; "none" is no file.  All processes run the same binary, and     *)
(* nobody else writes to the directory.                                    *)
(***************************************************************************)
EXTENDS Integers

CONSTANTS
  Process,   \* server processes on the directory
  Key        \* RequiredKeys

Content == {"pinned", "other"}

File == Content \cup {"none"}

VARIABLES
  dest,       \* the file under the name of each key
  tmp,        \* the temp file of each goroutine, by its creator's name
  writable,   \* the directory and its files may be changed
  reachable,  \* the release can be downloaded at present
  phase,      \* of each process
  pc,         \* next step of the goroutine of a process for a key
  body,       \* the download in progress
  warned      \* processes that started in spite of an error

files == <<dest, tmp, writable>>
vars == <<dest, tmp, writable, reachable, phase, pc, body, warned>>

Downloading == {"write", "check", "rename"}   \* the temp file exists

Label == {"stat", "verify", "remove", "get", "create", "ok", "error"}
           \cup Downloading

TypeOK ==
  /\ dest \in [Key -> File]
  /\ tmp \in [Process -> [Key -> File]]
  /\ writable \in BOOLEAN /\ reachable \in BOOLEAN
  /\ phase \in [Process -> {"off", "ensuring", "serving", "crashed"}]
  /\ pc \in [Process -> [Key -> Label]]
  /\ body \in [Process -> [Key -> File]]
  /\ warned \subseteq {p \in Process : phase[p] = "serving"}
  /\ \A p \in Process, k \in Key :
       /\ tmp[p][k] # "none" <=> pc[p][k] \in Downloading
       /\ body[p][k] # "none" <=> pc[p][k] \in {"create", "write", "check"}
       /\ phase[p] = "serving" => pc[p][k] \in {"ok", "error"}
       /\ phase[p] \in {"off", "crashed"} => pc[p][k] = "stat"

\* A new installation, a restart, or one after an upgrade of the hashes.
Init ==
  /\ dest \in [Key -> File]
  /\ tmp = [p \in Process |-> [k \in Key |-> "none"]]
  /\ writable \in BOOLEAN /\ reachable \in BOOLEAN
  /\ phase = [p \in Process |-> "off"]
  /\ pc = [p \in Process |-> [k \in Key |-> "stat"]]
  /\ body = [p \in Process |-> [k \in Key |-> "none"]]
  /\ warned = {}
-----------------------------------------------------------------------------
(***************************************************************************)
(* ensureOne: the goroutine of process p for key k.                        *)
(***************************************************************************)
At(p, k, label) == phase[p] = "ensuring" /\ pc[p][k] = label

Goto(p, k, label) == pc' = [pc EXCEPT ![p][k] = label]

Stat(p, k) ==
  /\ At(p, k, "stat")
  /\ Goto(p, k, IF dest[k] = "none" THEN "get" ELSE "verify")
  /\ UNCHANGED <<files, reachable, phase, body, warned>>

VerifyFileKeeps(p, k) ==   \* mutant: a wrong key is not removed first
  /\ At(p, k, "verify")
  /\ Goto(p, k, IF dest[k] = "pinned" THEN "ok" ELSE "get")
  /\ UNCHANGED <<files, reachable, phase, body, warned>>

\* Open and hash.  The content is that of the file that was opened, whatever
\* the name refers to later; a file that vanished since Stat, or that cannot
\* be read, is treated like a wrong one.
VerifyFile(p, k) ==
  /\ At(p, k, "verify")
  /\ \/ dest[k] = "pinned" /\ Goto(p, k, "ok")
     \/ Goto(p, k, "remove")
  /\ UNCHANGED <<files, reachable, phase, body, warned>>

\* os.Remove takes away whatever file has the name now.
RemoveStale(p, k) ==
  /\ At(p, k, "remove")
  /\ \/ /\ writable \/ dest[k] = "none"
        /\ dest' = [dest EXCEPT ![k] = "none"]
        /\ Goto(p, k, "get")
     \/ ~ writable /\ dest[k] # "none" /\ Goto(p, k, "error") /\ UNCHANGED dest
  /\ UNCHANGED <<tmp, writable, reachable, phase, body, warned>>

GetWithoutTimeout(p, k) ==   \* mutant: the client waits for an answer
  /\ At(p, k, "get")
  /\ reachable
  /\ Goto(p, k, "create")
  /\ \E c \in Content : body' = [body EXCEPT ![p][k] = c]
  /\ UNCHANGED <<files, reachable, phase, warned>>

\* The release is a moving tag: it may hold other keys than the pinned ones.
\* No answer in time, another status or no gzip data is an error.
Get(p, k) ==
  /\ At(p, k, "get")
  /\ \/ /\ reachable
        /\ Goto(p, k, "create")
        /\ \E c \in Content : body' = [body EXCEPT ![p][k] = c]
     \/ Goto(p, k, "error") /\ UNCHANGED body
  /\ UNCHANGED <<files, reachable, phase, warned>>

TempNameShared(p) == CHOOSE q \in Process : TRUE   \* mutant: one name per key

\* os.CreateTemp finds a name nobody uses: it is called by its creator here.
TempName(p) == p

RemoveTemp(p, k) == tmp' = [tmp EXCEPT ![TempName(p)][k] = "none"]

\* The body is closed (deferred).
Drop(p, k) == body' = [body EXCEPT ![p][k] = "none"]

CreateTemp(p, k) ==
  /\ At(p, k, "create")
  /\ \/ /\ writable
        /\ tmp' = [tmp EXCEPT ![TempName(p)][k] = "other"]
        /\ Goto(p, k, "write")
        /\ UNCHANGED body
     \/ ~ writable /\ Drop(p, k) /\ Goto(p, k, "error") /\ UNCHANGED tmp
  /\ UNCHANGED <<dest, writable, reachable, phase, warned>>

\* writeBoundedAndHash and Close: the whole body, or too much, or an error.
WriteBody(p, k) ==
  /\ At(p, k, "write")
  /\ \/ /\ tmp' = [tmp EXCEPT ![TempName(p)][k] = body[p][k]]
        /\ Goto(p, k, "check")
        /\ UNCHANGED body
     \/ RemoveTemp(p, k) /\ Drop(p, k) /\ Goto(p, k, "error")
  /\ UNCHANGED <<dest, writable, reachable, phase, warned>>

CompareHashKeepsTemp(p, k) ==   \* mutant: a wrong download stays on disk
  /\ At(p, k, "check")
  /\ Goto(p, k, IF body[p][k] = "pinned" THEN "rename" ELSE "error")
  /\ Drop(p, k)
  /\ UNCHANGED <<files, reachable, phase, warned>>

\* The hash is that of the bytes received, computed while they were written.
CompareHash(p, k) ==
  /\ At(p, k, "check")
  /\ \/ body[p][k] = "pinned" /\ Goto(p, k, "rename") /\ UNCHANGED tmp
     \/ body[p][k] = "other" /\ RemoveTemp(p, k) /\ Goto(p, k, "error")
  /\ Drop(p, k)
  /\ UNCHANGED <<dest, writable, reachable, phase, warned>>

RenameIgnoresError(p, k) ==   \* mutant: a failed rename is not reported
  /\ At(p, k, "rename")
  /\ dest' \in {dest, [dest EXCEPT ![k] = tmp[TempName(p)][k]]}
  /\ RemoveTemp(p, k)
  /\ Goto(p, k, "ok")
  /\ UNCHANGED <<writable, reachable, phase, body, warned>>

Rename(p, k) ==
  /\ At(p, k, "rename")
  /\ \/ /\ dest' = [dest EXCEPT ![k] = tmp[TempName(p)][k]]
        /\ Goto(p, k, "ok")
     \/ UNCHANGED dest /\ Goto(p, k, "error")
  /\ RemoveTemp(p, k)
  /\ UNCHANGED <<writable, reachable, phase, body, warned>>

EnsureOne(p, k) ==
  \/ Stat(p, k)
  \/ VerifyFile(p, k)
  \/ RemoveStale(p, k)
  \/ Get(p, k)
  \/ CreateTemp(p, k)
  \/ WriteBody(p, k)
  \/ CompareHash(p, k)
  \/ Rename(p, k)
-----------------------------------------------------------------------------
(***************************************************************************)
(* The process: EnsureKeys waits for its goroutines and joins their        *)
(* errors; the server logs a warning and goes on.                          *)
(***************************************************************************)
Boot(p) ==
  /\ phase[p] \in {"off", "crashed"}
  /\ phase' = [phase EXCEPT ![p] = "ensuring"]
  /\ UNCHANGED <<files, reachable, pc, body, warned>>

JoinErrors(p) ==
  /\ phase[p] = "ensuring"
  /\ \A k \in Key : pc[p][k] \in {"ok", "error"}
  /\ phase' = [phase EXCEPT ![p] = "serving"]
  /\ warned' = IF \E k \in Key : pc[p][k] = "error" THEN warned \cup {p}
               ELSE warned
  /\ UNCHANGED <<files, reachable, pc, body>>

\* The temp files of a dead process stay on disk, but no one opens them
\* again: their names are unique, so they are left out here.
Crash(p) ==
  /\ phase[p] \in {"ensuring", "serving"}
  /\ phase' = [phase EXCEPT ![p] = "crashed"]
  /\ pc' = [pc EXCEPT ![p] = [k \in Key |-> "stat"]]
  /\ tmp' = [tmp EXCEPT ![p] = [k \in Key |-> "none"]]
  /\ body' = [body EXCEPT ![p] = [k \in Key |-> "none"]]
  /\ warned' = warned \ {p}
  /\ UNCHANGED <<dest, writable, reachable>>

ToggleRelease ==
  /\ reachable' = ~ reachable
  /\ UNCHANGED <<files, phase, pc, body, warned>>

Next ==
  \/ \E p \in Process : Boot(p) \/ JoinErrors(p) \/ Crash(p)
  \/ \E p \in Process, k \in Key : EnsureOne(p, k)
  \/ ToggleRelease

Spec == Init /\ [][Next]_vars

\* Goroutines run, and every HTTP exchange ends within the client's timeout.
FairSpec ==
  /\ Spec
  /\ \A p \in Process : WF_vars(JoinErrors(p))
  /\ \A p \in Process, k \in Key : WF_vars(EnsureOne(p, k))
-----------------------------------------------------------------------------
(***************************************************************************)
(* Properties.                                                             *)
(***************************************************************************)
\* A key is only ever replaced by one with the pinned hash, although another
\* process downloads at the same time, the release moves, and downloads are
\* cut; a reader never finds a partial file under the key's name.
InstalledIsPinned ==
  [][\A k \in Key : dest'[k] # dest[k] => dest'[k] \in {"none", "pinned"}]_vars

\* In a directory that can be written, no server process verifies proofs with
\* a key of another hash, whether or not its downloads succeeded.
ServesPinnedKeys ==
  \A p \in Process, k \in Key :
    writable /\ phase[p] = "serving" => dest[k] # "other"

\* EnsureKeys returned nil means that the keys are there, although another
\* process may have removed what this one had just installed: when every
\* process that was ever started has returned without an error, all keys
\* are in place.
SuccessMeansPresent ==
  /\ \E p \in Process : phase[p] = "serving"
  /\ warned = {}
  /\ \A p \in Process : phase[p] \in {"off", "serving"}
  => \A k \in Key : dest[k] = "pinned"

\* Start-up does not hang on the release.
EnsureKeysReturns ==
  \A p \in Process : phase[p] = "ensuring" ~> phase[p] # "ensuring"
=============================================================================
