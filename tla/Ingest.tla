------------------------------- MODULE Ingest -------------------------------
(***************************************************************************)
(* Evidence on its way into the vault: POST .../evidence (from the import  *)
(* directory), POST .../evidence/upload (api/routes/evidence.py), and      *)
(* ingest_file (core/ingest.py), for one case.  A request writes, in this  *)
(* order and without a common transaction, a temporary file, a vault       *)
(* directory, the case's chain_of_custody.log (CustodyFile), and a         *)
(* database transaction with the Evidence row and an entry of the          *)
(* chain_of_custody table (log_action of core/custody.py).                 *)
(*                                                                         *)
(* File contents are values; a digest is the content it is the digest of.  *)
(* A database custody hash is, as in CustodyFile, what it commits to.      *)
(***************************************************************************)
EXTENDS Naturals, Sequences, FiniteSets

CONSTANTS
  Ingests,         \* requests, and the evidence ids they are given
  Files,           \* names in the import directory
  Contents,        \* what a file can contain
  Requests,        \* the requests clients may send
  Engines,         \* databases of the deployments that are looked at
  MaxFaults,       \* bound on crashes and I/O errors in a behaviour
  MaxEntries       \* bound on the custody log

VARIABLES
  engine,          \* the deployment's database
  req,             \* the request
  pc,              \* where its handler is
  src,             \* the import directory
  tmp,             \* data_dir/uploads/<uuid>.upload of each request
  stuck,           \* history: requests whose temporary file could not be removed
  sha,             \* src_sha256 of each request
  vault,           \* vault/<case>/evidence/<id> of each request
  added,           \* the custody row a request has added to its session
  dbLock,          \* requests with a flushed row: on SQLite, the lock's holder
  raced,           \* history: two requests have had one at once
  evidence,        \* ids of committed Evidence rows
  chain,           \* committed rows of the chain_of_custody table
  clock,           \* utcnow(), counted in log_action calls
  faults,          \* crashes and I/O errors so far
  log, torn, appending, tail, overlapped       \* see CustodyFile

custodyVars == <<log, torn, appending, tail, overlapped>>
dbVars == <<evidence, chain>>
sessionVars == <<added, dbLock, raced, clock>>
fileVars == <<src, tmp, stuck, vault>>
vars == <<engine, req, pc, fileVars, sha, sessionVars, dbVars, faults, custodyVars>>

Custody == INSTANCE CustodyFile WITH Writers <- Ingests, Bodies <- Ingests

NoFile == "no file"          \* also: no digest, no directory
EmptyDir == "empty dir"      \* the directory without the file
Partial == "partial"         \* a copy that was cut short or mixes two contents
FileState == Contents \cup {NoFile}

Request ==
  [via : {"import", "upload"}, file : Files, case : {"row", "no row"},
   size : {"fits", "too large"}]

ASSUME RequestsAssumption == Requests \subseteq Request
ASSUME EnginesAssumption == Engines \subseteq {"sqlite", "postgres"}
ASSUME BoundsAssumption == MaxFaults \in Nat /\ MaxEntries \in Nat \ {0}

\* On SQLite an INSERT locks out other writers until its transaction ends.
SingleWriter == engine = "sqlite"

NoRow == [id |-> NoFile]
ChainRow ==
  [id : Ingests, ts : Nat, prev_hash : Seq(Ingests), curr_hash : Seq(Ingests)]

End == {"done", "error", "aborted", "refused", "crashed"}
Pc == {"new", "received", "hash", "copy", "verify", "record", "append", "write",
       "commit", "committed", "failed"} \cup End

TypeOK ==
  /\ engine \in Engines
  /\ req \in [Ingests -> Requests]
  /\ pc \in [Ingests -> Pc]
  /\ src \in [Files -> FileState]
  /\ tmp \in [Ingests -> FileState]
  /\ stuck \subseteq Ingests
  /\ sha \in [Ingests -> FileState]
  /\ vault \in [Ingests -> FileState \cup {EmptyDir, Partial}]
  /\ added \in [Ingests -> ChainRow \cup {NoRow}]
  /\ \A i \in Ingests :
       added[i] # NoRow =>
         pc[i] \in {"append", "write", "commit", "committed", "done"}
  /\ dbLock \subseteq Ingests
  /\ raced \in BOOLEAN
  /\ evidence \subseteq Ingests
  /\ chain \subseteq ChainRow
  /\ clock \in Nat
  /\ faults \in 0..MaxFaults
  /\ Custody!TypeOK

Init ==
  /\ engine \in Engines
  /\ req \in [Ingests -> Requests]
  /\ pc = [i \in Ingests |-> "new"]
  /\ src \in [Files -> Contents]
  /\ tmp = [i \in Ingests |-> NoFile]
  /\ stuck = {}
  /\ sha = [i \in Ingests |-> NoFile]
  /\ vault = [i \in Ingests |-> NoFile]
  /\ added = [i \in Ingests |-> NoRow]
  /\ dbLock = {}
  /\ raced = FALSE
  /\ evidence = {}
  /\ chain = {}
  /\ clock = 0
  /\ faults = 0
  /\ Custody!Init

Fault ==
  /\ faults < MaxFaults
  /\ faults' = faults + 1

Goto(i, from, to) ==
  /\ pc[i] = from
  /\ pc' = [pc EXCEPT ![i] = to]
  /\ UNCHANGED <<engine, req>>

\* Whoever fills the import directory changes or removes a file, at any time.
ChangeSource(f, c) ==
  /\ c \in FileState \ {src[f]}
  /\ src' = [src EXCEPT ![f] = c]
  /\ UNCHANGED <<engine, req, pc, tmp, stuck, vault, sha, sessionVars, dbVars, faults, custodyVars>>

-----------------------------------------------------------------------------
(* The endpoints, before ingest_file.                                       *)

\* _ingest_from_import, lines 56-64: the file, then the case.
CheckImport(i) ==
  /\ req[i].via = "import"
  /\ Goto(i, "new",
          IF src[req[i].file] = NoFile \/ req[i].case = "no row"
          THEN "refused" ELSE "hash")
  /\ UNCHANGED <<fileVars, sha, sessionVars, dbVars, faults, custodyVars>>

\* upload_evidence, lines 139-148.  The 413 answer leaves the temporary file.
ReceiveUpload(i, c) ==
  /\ req[i].via = "upload"
  /\ Goto(i, "new", IF req[i].size = "fits" THEN "received" ELSE "refused")
  /\ tmp' = [tmp EXCEPT ![i] = c]
  /\ UNCHANGED <<src, stuck, vault, sha, sessionVars, dbVars, faults, custodyVars>>

\* Lines 156-162: without the case the temporary file is removed again.
CheckUploadCase(i) ==
  /\ Goto(i, "received", IF req[i].case = "row" THEN "hash" ELSE "refused")
  /\ tmp' = IF req[i].case = "row" THEN tmp ELSE [tmp EXCEPT ![i] = NoFile]
  /\ UNCHANGED <<src, stuck, vault, sha, sessionVars, dbVars, faults, custodyVars>>

\* Lines 139-153: receiving the upload raises (no space, for one) and is answered
\* 500, or the process dies over it.  What is written stays: the finally clause only
\* closes the upload, and the block that removes the file has not begun.
ReceiveFails(i, c) ==
  /\ Fault
  /\ req[i].via = "upload"
  /\ Goto(i, "new", "aborted") \/ Goto(i, "new", "crashed")
  /\ tmp' = [tmp EXCEPT ![i] = c]
  /\ UNCHANGED <<src, stuck, vault, sha, sessionVars, dbVars, custodyVars>>

\* session.get raises, in front of either endpoint's try block: the answer is 500,
\* and the temporary file stays.
LookupFails(i) ==
  /\ Fault
  /\ \/ Goto(i, "received", "aborted")
     \/ /\ req[i].via = "import" /\ src[req[i].file] # NoFile
        /\ Goto(i, "new", "aborted")
  /\ UNCHANGED <<fileVars, sha, sessionVars, dbVars, custodyVars>>

-----------------------------------------------------------------------------
(* ingest_file, and the transaction around it.                              *)

Source(i) == IF req[i].via = "import" THEN src[req[i].file] ELSE tmp[i]

\* Mutant: the session of a failed request is neither rolled back nor closed.
Rollback_Missing(i) == UNCHANGED sessionVars

\* session.rollback() in the endpoint's except clause.
Rollback(i) ==
  /\ added' = [added EXCEPT ![i] = NoRow]
  /\ dbLock' = dbLock \ {i}
  /\ UNCHANGED <<raced, clock>>

\* An exception out of ingest_file or session.commit.
Raise(i, from) ==
  /\ Goto(i, from, "failed")
  /\ Rollback(i)

\* Lines 44-49.
HashSource(i) ==
  /\ IF Source(i) = NoFile
     THEN Raise(i, "hash") /\ UNCHANGED sha
     ELSE /\ Goto(i, "hash", "copy")
          /\ sha' = [sha EXCEPT ![i] = Source(i)]
          /\ UNCHANGED sessionVars
  /\ UNCHANGED <<fileVars, dbVars, faults, custodyVars>>

\* Lines 54-64: mkdir, copy2, chmod.  An import file that is being changed can be
\* copied half and half; when it is gone the empty directory stays.
CopyFile(i) ==
  /\ \/ /\ Source(i) # NoFile
        /\ Goto(i, "copy", "verify")
        /\ \E c \in {Source(i)} \cup (IF req[i].via = "import" THEN {Partial} ELSE {}) :
             vault' = [vault EXCEPT ![i] = c]
        /\ UNCHANGED sessionVars
     \/ /\ Source(i) = NoFile
        /\ Raise(i, "copy")
        /\ vault' = [vault EXCEPT ![i] = EmptyDir]
  /\ UNCHANGED <<src, tmp, stuck, sha, dbVars, faults, custodyVars>>

\* The disk is full: the directory and what was copied stay.
CopyFails(i) ==
  /\ Fault
  /\ Raise(i, "copy")
  /\ \E c \in {NoFile, EmptyDir, Partial} : vault' = [vault EXCEPT ![i] = c]
  /\ UNCHANGED <<src, tmp, stuck, sha, dbVars, custodyVars>>

\* Mutant: the copy is not read back.
VerifyCopy_Trusts(i) ==
  /\ Goto(i, "verify", "record")
  /\ UNCHANGED <<fileVars, sha, sessionVars, dbVars, faults, custodyVars>>

\* Mutant: a copy that does not match stays.
VerifyCopy_Keeps(i) ==
  /\ IF vault[i] = sha[i]
     THEN Goto(i, "verify", "record") /\ UNCHANGED sessionVars
     ELSE Raise(i, "verify")
  /\ UNCHANGED <<fileVars, sha, dbVars, faults, custodyVars>>

\* Lines 67-71: the copy is read back; a mismatch removes the directory.
VerifyCopy(i) ==
  /\ IF vault[i] = sha[i]
     THEN Goto(i, "verify", "record") /\ UNCHANGED <<vault, sessionVars>>
     ELSE /\ Raise(i, "verify")
          /\ vault' = [vault EXCEPT ![i] = NoFile]
  /\ UNCHANGED <<src, tmp, stuck, sha, dbVars, faults, custodyVars>>

\* curr_hash of the row with the latest timestamp; without a row, no prev_hash.
LastHash(rows) ==
  IF rows = {} THEN <<>>
  ELSE (CHOOSE r \in rows : \A s \in rows : s.ts <= r.ts).curr_hash

\* Mutant: the row is flushed only at the commit (no_autoflush around log_action).
AddRecord_NoFlush(i) ==
  /\ Goto(i, "record", "append")
  /\ clock' = clock + 1
  /\ added' =
       [added EXCEPT ![i] =
          [id |-> i, ts |-> clock', prev_hash |-> LastHash(chain),
           curr_hash |-> Append(LastHash(chain), i)]]
  /\ UNCHANGED <<fileVars, sha, dbLock, raced, dbVars, faults, custodyVars>>

\* Lines 74-91.  The SELECT of log_action flushes the new Evidence row first,
\* which takes SQLite's write lock; it sees committed rows only.
AddRecord(i) ==
  /\ SingleWriter => dbLock = {}
  /\ Goto(i, "record", "append")
  /\ dbLock' = dbLock \cup {i}
  /\ raced' = (raced \/ dbLock # {})
  /\ clock' = clock + 1
  /\ added' =
       [added EXCEPT ![i] =
          [id |-> i, ts |-> clock', prev_hash |-> LastHash(chain),
           curr_hash |-> Append(LastHash(chain), i)]]
  /\ UNCHANGED <<fileVars, sha, dbVars, faults, custodyVars>>

\* append_entry, which is not guarded here: what it raises fails the request.
ReadTail(i) ==
  /\ IF torn
     THEN Raise(i, "append") /\ UNCHANGED custodyVars
     ELSE Goto(i, "append", "write") /\ Custody!ReadTail(i) /\ UNCHANGED sessionVars
  /\ UNCHANGED <<fileVars, sha, dbVars, faults>>

WriteEntry(i) ==
  /\ Goto(i, "write", "commit")
  /\ Custody!WriteEntry(i, i)
  /\ UNCHANGED <<fileVars, sha, sessionVars, dbVars, faults>>

\* Mutant: the exception is swallowed, as the other callers of append_entry do.
AppendFails_Swallowed(i) ==
  /\ Fault
  /\ Goto(i, "write", "commit")
  /\ Custody!AbandonAppend(i) \/ Custody!TearLine(i)
  /\ UNCHANGED <<fileVars, sha, sessionVars, dbVars>>

AppendFails(i) ==
  /\ Fault
  /\ Raise(i, "write")
  /\ Custody!AbandonAppend(i) \/ Custody!TearLine(i)
  /\ UNCHANGED <<fileVars, sha, dbVars>>

\* Mutant: the endpoint never commits the session.
Commit_Forgotten(i) ==
  /\ Goto(i, "commit", "committed")
  /\ dbLock' = dbLock \ {i}
  /\ UNCHANGED <<fileVars, sha, added, raced, clock, dbVars, faults, custodyVars>>

\* session.commit(): the Evidence, custody and audit rows become visible.
Commit(i) ==
  /\ Goto(i, "commit", "committed")
  /\ evidence' = evidence \cup {i}
  /\ chain' = chain \cup {added[i]}
  /\ dbLock' = dbLock \ {i}
  /\ UNCHANGED <<fileVars, sha, added, raced, clock, faults, custodyVars>>

\* A file cannot be read: the source, the log, or the copy, which then stays (as it
\* does when one that does not match cannot be removed).
ReadFails(i) ==
  /\ Fault
  /\ \E from \in {"hash", "verify", "append"} : Raise(i, from)
  /\ UNCHANGED <<fileVars, sha, dbVars, custodyVars>>

\* The database refuses the INSERT ("database is locked") or the commit.
DatabaseFails(i) ==
  /\ Fault
  /\ Raise(i, "record") \/ Raise(i, "commit")
  /\ UNCHANGED <<fileVars, sha, dbVars, custodyVars>>

\* Mutant: a request that failed is answered like any other.
Answer_Swallows(i) ==
  /\ Goto(i, "committed", "done") \/ Goto(i, "failed", "done")
  /\ tmp' = [tmp EXCEPT ![i] = NoFile]
  /\ UNCHANGED <<src, stuck, vault, sha, sessionVars, dbVars, faults, custodyVars>>

\* The finally clause of upload_evidence, and the answer.
Answer(i) ==
  /\ Goto(i, "committed", "done") \/ Goto(i, "failed", "error")
  /\ tmp' = [tmp EXCEPT ![i] = NoFile]
  /\ UNCHANGED <<src, stuck, vault, sha, sessionVars, dbVars, faults, custodyVars>>

\* Wherever an upload's temporary file is to be removed, a failure to do so is
\* ignored: the answer is the same, and the file stays.
UnlinkFails(i) ==
  /\ Fault
  /\ req[i].via = "upload"
  /\ \/ Goto(i, "committed", "done") \/ Goto(i, "failed", "error")
     \/ req[i].case = "no row" /\ Goto(i, "received", "refused")
  /\ stuck' = stuck \cup {i}
  /\ UNCHANGED <<src, tmp, vault, sha, sessionVars, dbVars, custodyVars>>

\* The API process dies under the request.
Crash(i) ==
  /\ Fault
  /\ \E from \in Pc \ ({"new"} \cup End) : Goto(i, from, "crashed")
  /\ Rollback(i)
  /\ IF i \in appending THEN Custody!AbandonAppend(i) ELSE UNCHANGED custodyVars
  /\ UNCHANGED <<fileVars, sha, dbVars>>

-----------------------------------------------------------------------------
HandlerNext(i) ==
  \/ CheckImport(i)
  \/ \E c \in Contents : ReceiveUpload(i, c)
  \/ CheckUploadCase(i)
  \/ HashSource(i) \/ CopyFile(i) \/ VerifyCopy(i) \/ AddRecord(i)
  \/ ReadTail(i) \/ WriteEntry(i) \/ Commit(i) \/ Answer(i)

HandlerFaults(i) ==
  \/ \E c \in FileState : ReceiveFails(i, c)
  \/ LookupFails(i) \/ ReadFails(i) \/ CopyFails(i) \/ AppendFails(i)
  \/ DatabaseFails(i) \/ UnlinkFails(i) \/ Crash(i)

Next ==
  \/ \E f \in Files, c \in FileState : ChangeSource(f, c)
  \/ \E i \in Ingests : HandlerNext(i) \/ HandlerFaults(i)

Spec == Init /\ [][Next]_vars

\* Handlers that are not stopped keep running.
FairSpec == Spec /\ \A i \in Ingests : WF_vars(HandlerNext(i))

-----------------------------------------------------------------------------
Logged(i) == \E k \in 1..Len(log) : log[k].body = i

\* The vault holds, for every Evidence row, a copy with the recorded digest,
\* although the source may change at any point of the ingest.
CommittedIsIntact == \A i \in evidence : vault[i] = sha[i]

\* Every Evidence row has its readable entry in chain_of_custody.log, through
\* crashes and failed appends: the entry is written before the commit, and an
\* append that fails fails the ingest.  The exception is a log that an earlier or
\* concurrent append has torn.
CommittedIsLogged == ~torn => \A i \in evidence : Logged(i)

\* Without crashes and I/O errors the log claims no evidence that the database
\* does not get.
LoggedIsCommitted ==
  faults = 0 => \A i \in Ingests : Logged(i) /\ pc[i] \in End => i \in evidence

\* Without crashes and I/O errors a request that fails leaves no copy behind.  From
\* the hashing on every end removes the temporary file, whatever fails: it outlives
\* its request only after a crash, where it cannot be removed, or if the upload ends
\* before: as too large, or because receiving it or looking up the case fails.
NoLeftovers ==
  \A i \in Ingests :
    pc[i] \in End =>
      /\ faults = 0 /\ i \notin evidence => vault[i] \in {NoFile, EmptyDir}
      /\ tmp[i] # NoFile =>
           \/ pc[i] \in {"crashed", "aborted"} \/ i \in stuck
           \/ pc[i] = "refused" /\ req[i].size = "too large"

\* The custody rows of a case are one chain in the order of their timestamps where
\* a writer locks the others out, and elsewhere until two ingests overlap from
\* log_action to their commits: then both link to the same row.
ChainIsLinear ==
  SingleWriter \/ ~raced =>
    \A r \in chain : r.prev_hash = LastHash({s \in chain : s.ts < r.ts})

\* Every request is answered or its process died: nobody waits for ever for the
\* write lock of a request that failed.
RequestsEnd == \A i \in Ingests : pc[i] # "new" ~> pc[i] \in End

\* What a request has been answered, if it has been.
Told(i) ==
  CASE pc[i] = "done" -> "taken"
    [] pc[i] \in {"error", "aborted", "refused"} -> "refused"
    [] OTHER -> "none"

Register ==
  INSTANCE EvidenceRegister
    WITH Items <- Ingests, Nothing <- NoFile, seen <- sha,
         held <- [i \in Ingests |-> IF i \in evidence THEN vault[i] ELSE NoFile],
         history <- LastHash(chain), answer <- [i \in Ingests |-> Told(i)]

\* While its custody rows are a chain, the vault with its tables implements the
\* register: whatever steps a request takes, and wherever it fails,
\* its evidence is in custody as hashed, at once or never, and the answer is right.
ImplementsRegister ==
  /\ Register!Init
  /\ [][SingleWriter \/ ~raced' => Register!Next \/ UNCHANGED Register!vars]_vars
=============================================================================
