---------------------------- MODULE Ingest_proofs ----------------------------
(***************************************************************************)
(* Proofs about Ingest, for any requests, files, contents and bounds:      *)
(*                                                                         *)
(*   IngestRefinesFile    Spec => Custody!Spec                             *)
(*   IngestLinksKnown     Spec => []Custody!EveryLinkKnown                 *)
(*   IngestTypeCorrect    Spec => []TypeOK                                 *)
(*   EvidenceIsIntact     Spec => []CommittedIsIntact                      *)
(*   EvidenceIsLogged     Spec => []CommittedIsLogged                      *)
(*   LogIsCommitted       Spec => []LoggedIsCommitted                      *)
(*   NothingIsLeft        Spec => []NoLeftovers                            *)
(*   RowsAreAChain        Spec => []ChainIsLinear                          *)
(*   IngestRefinesRegister  Spec => ImplementsRegister                     *)
(*   HistoryIsComplete    Spec => []HistoryIsEvidence                      *)
(***************************************************************************)
EXTENDS Ingest, SequenceTheorems, TLAPS

\* What is proved of CustodyFile, for the log of this module.
File == INSTANCE Custody_proofs WITH Writers <- Ingests, Bodies <- Ingests

\* Where the copy has been compared with the digest.
Verified(i) == pc[i] \in {"record", "append", "write", "commit", "committed"}

\* A copy that has been compared stays as it is.
CopyIsVerified ==
  \A i \in Ingests :
    /\ Verified(i) \/ i \in evidence => vault[i] = sha[i]
    /\ i \in evidence <=> pc[i] \in {"committed", "done"} \/ (i \in evidence /\ pc[i] = "crashed")

\* Where nothing has been copied yet, and where no temporary file is kept.
FilesFollow ==
  \A i \in Ingests :
    /\ pc[i] \in {"new", "received", "hash", "copy", "refused", "aborted"} => vault[i] = NoFile
    /\ req[i].via = "import" => tmp[i] = NoFile
    /\ pc[i] = "new" => tmp[i] = NoFile
    /\ pc[i] \in {"done", "error"} => tmp[i] = NoFile \/ i \in stuck
    /\ pc[i] = "refused" /\ tmp[i] # NoFile => req[i].size = "too large" \/ i \in stuck

\* Without faults a request that fails has removed its copy.
Faultless ==
  faults = 0 =>
    /\ ~torn
    /\ \A i \in Ingests :
         /\ pc[i] # "crashed"
         /\ pc[i] \in {"failed", "error"} => vault[i] \in {NoFile, EmptyDir} /\ ~Logged(i)

\* A request is in the log once it has appended, and a torn line is what hides it.
LoggedLater ==
  \A i \in Ingests :
    /\ Logged(i) => pc[i] \in {"commit", "committed", "failed", "done", "error", "crashed"}
    /\ ~torn /\ (pc[i] = "commit" \/ i \in evidence) => Logged(i)

\* The requests with a flushed row, and the latest committed one.
Pending == {i \in Ingests : pc[i] \in {"append", "write", "commit"}}

RowsInOrder ==
  /\ dbLock = Pending
  /\ \A i \in Pending : added[i] \in ChainRow /\ added[i].ts <= clock
  /\ chain = {} \/ \E r \in chain : \A s \in chain : s.ts <= r.ts
  /\ \A r \in chain : r.ts <= clock

\* Until two requests have a row in flight at once, the one that has links to the
\* end of the chain.
OneInFlight ==
  /\ SingleWriter => ~raced
  /\ ~raced =>
       /\ \A i, k \in Pending : i = k
       /\ \A i \in Pending :
            /\ added[i].prev_hash = LastHash(chain)
            /\ \A r \in chain : r.ts < added[i].ts
       /\ \A r \in chain : r.prev_hash = LastHash({s \in chain : s.ts < r.ts})

IngestInv ==
  /\ TypeOK /\ CopyIsVerified /\ FilesFollow /\ Faultless /\ LoggedLater
  /\ RowsInOrder /\ OneInFlight

-----------------------------------------------------------------------------
\* A request has the fields of its schema.
LEMMA RequestFields ==
  \A r \in Requests : r.file \in Files /\ r.size \in {"fits", "too large"}
BY RequestsAssumption DEF Request

\* Both instances of CustodyFile are one.
LEMMA SameFile ==
  /\ Custody!TypeOK <=> File!TypeOK
  /\ Custody!Init <=> File!Init
  /\ Custody!Next <=> File!Next
  /\ Custody!vars = File!vars
  /\ Custody!EveryLinkKnown <=> File!EveryLinkKnown
BY DEF Custody!TypeOK, File!TypeOK, Custody!Init, File!Init, Custody!Next, File!Next,
  Custody!vars, File!vars, Custody!EveryLinkKnown, File!EveryLinkKnown,
  Custody!ReadTail, File!ReadTail, Custody!WriteEntry, File!WriteEntry,
  Custody!AbandonAppend, File!AbandonAppend, Custody!TearLine, File!TearLine,
  Custody!PowerLoss, File!PowerLoss, Custody!EndAppend, File!EndAppend,
  Custody!NewEntry, File!NewEntry, Custody!last_entry_hash, File!last_entry_hash,
  Custody!compute_entry_hash, File!compute_entry_hash,
  Custody!GENESIS_HASH, File!GENESIS_HASH, Custody!CustodyEntry, File!CustodyEntry,
  Custody!Hashes, File!Hashes, Custody!GENESIS_HASH, File!GENESIS_HASH

LEMMA SameTypes == Custody!TypeOK' <=> File!TypeOK'
BY DEF Custody!TypeOK, File!TypeOK, Custody!CustodyEntry, File!CustodyEntry,
  Custody!Hashes, File!Hashes, Custody!GENESIS_HASH, File!GENESIS_HASH

\* Each step of a request is a step of the log, or leaves the log alone.
LEMMA StepOfLog == [Next]_vars => [Custody!Next]_Custody!vars
<1> SUFFICES ASSUME [Next]_vars PROVE [Custody!Next]_Custody!vars
  OBVIOUS
<1> USE DEF custodyVars, Custody!vars
<1>1. ASSUME NEW i \in Ingests, ReadTail(i) PROVE [Custody!Next]_Custody!vars
  BY <1>1 DEF ReadTail, Custody!Next
<1>2. ASSUME NEW i \in Ingests, WriteEntry(i) PROVE [Custody!Next]_Custody!vars
  BY <1>2 DEF WriteEntry, Custody!Next
<1>3. ASSUME NEW i \in Ingests, AppendFails(i) PROVE [Custody!Next]_Custody!vars
  BY <1>3 DEF AppendFails, Custody!Next
<1>4. ASSUME NEW i \in Ingests, Crash(i) PROVE [Custody!Next]_Custody!vars
  BY <1>4 DEF Crash, Custody!Next
<1>5. CASE UNCHANGED custodyVars
  BY <1>5
<1>6. ASSUME NEW i \in Ingests, HandlerNext(i) PROVE [Custody!Next]_Custody!vars
  BY <1>1, <1>2, <1>5, <1>6
  DEF HandlerNext, CheckImport, ReceiveUpload, CheckUploadCase, HashSource, CopyFile,
      VerifyCopy, AddRecord, Commit, Answer
<1>7. ASSUME NEW i \in Ingests, HandlerFaults(i) PROVE [Custody!Next]_Custody!vars
  BY <1>3, <1>4, <1>5, <1>7
  DEF HandlerFaults, CopyFails, DatabaseFails, ReceiveFails, LookupFails, ReadFails,
      UnlinkFails
<1> QED BY <1>5, <1>6, <1>7 DEF Next, vars, ChangeSource

\* Ingests write the log as CustodyFile describes.
THEOREM IngestRefinesFile == Spec => Custody!Spec
<1>1. Init => Custody!Init
  BY DEF Init
<1> QED BY <1>1, StepOfLog, PTL DEF Spec, Custody!Spec

\* An entry of the log links to the genesis hash or to an entry before it, however
\* many ingests append at once.
THEOREM IngestLinksKnown == Spec => []Custody!EveryLinkKnown
<1>1. Init => File!Init
  BY SameFile DEF Init
<1>2. [Next]_vars => [File!Next]_File!vars
  BY StepOfLog, SameFile DEF Custody!vars, File!vars
<1>3. File!EveryLinkKnown => Custody!EveryLinkKnown
  BY SameFile
<1>4. File!Spec => []File!EveryLinkKnown
  BY File!LinksKnown, BoundsAssumption
<1> QED BY <1>1, <1>2, <1>3, <1>4, PTL DEF Spec, File!Spec

-----------------------------------------------------------------------------
\* A log that stays has the same requests in it.
LEMMA LogStays ==
  ASSUME log' = log
  PROVE  \A i \in Ingests : Logged(i)' <=> Logged(i)
BY DEF Logged

\* An append adds its request to what is in the log, or a torn line hides it.
LEMMA LogGrows ==
  ASSUME Custody!TypeOK, NEW i \in Ingests, Custody!WriteEntry(i, i)
  PROVE  /\ torn' = torn
         /\ ~torn => Logged(i)'
         /\ \A k \in Ingests : Logged(k) => Logged(k)'
         /\ \A k \in Ingests \ {i} : Logged(k)' => Logged(k)
<1>1. CASE torn
  BY <1>1, LogStays DEF Custody!WriteEntry
<1>2. CASE ~torn
  <2> DEFINE e == Custody!NewEntry(i, tail[i])
  <2>1. log' = Append(log, e) /\ e.body = i /\ torn' = torn
    BY <1>2 DEF Custody!WriteEntry, Custody!NewEntry
  <2>2. e \in Custody!CustodyEntry
    <3>1. tail[i] \in Seq(Ingests)
      BY DEF Custody!TypeOK, Custody!Hashes
    <3>2. Append(tail[i], i) \in Seq(Ingests)
      BY <3>1, AppendProperties
    <3> QED BY <3>1, <3>2 DEF Custody!CustodyEntry, Custody!Hashes, Custody!NewEntry,
                              Custody!compute_entry_hash
  <2>3. log \in Seq(Custody!CustodyEntry) /\ Len(log) \in Nat
    BY LenProperties DEF Custody!TypeOK
  <2> HIDE DEF e
  <2>4. /\ Len(log') = Len(log) + 1
        /\ \A k \in 1..Len(log) : log'[k] = log[k]
        /\ log'[Len(log) + 1].body = i
    BY <2>1, <2>2, <2>3, AppendProperties
  <2>5. Logged(i)'
    BY <2>3, <2>4 DEF Logged
  <2>6. \A k \in Ingests : Logged(k) => Logged(k)'
    BY <2>3, <2>4 DEF Logged
  <2>7. \A k \in Ingests \ {i} : Logged(k)' => Logged(k)
    BY <2>3, <2>4 DEF Logged
  <2> QED BY <2>1, <2>5, <2>6, <2>7
<1> QED BY <1>1, <1>2

\* What log_action finds is a hash, if the table has a latest row.
LEMMA LastHashType ==
  ASSUME NEW rows \in SUBSET ChainRow,
         rows = {} \/ \E r \in rows : \A s \in rows : s.ts <= r.ts
  PROVE  LastHash(rows) \in Seq(Ingests)
<1>1. CASE rows = {}
  BY <1>1, EmptySeq DEF LastHash
<1>2. CASE rows # {}
  <2>1. (CHOOSE r \in rows : \A s \in rows : s.ts <= r.ts) \in rows
    BY <1>2
  <2> QED BY <1>2, <2>1 DEF LastHash, ChainRow
<1> QED BY <1>1, <1>2

\* The faults are counted.
LEMMA FaultsCount == IngestInv => faults \in Nat
<1>1. IngestInv => faults \in 0..MaxFaults
  BY DEF IngestInv, TypeOK
<1> QED BY <1>1, BoundsAssumption

-----------------------------------------------------------------------------
\* The first state has the invariant.
LEMMA IngestStart == Init => IngestInv
<1> SUFFICES ASSUME Init PROVE IngestInv
  OBVIOUS
<1>1. Custody!TypeOK
  BY SameFile, File!TypeInit, BoundsAssumption DEF Init
<1>2. log = <<>> /\ 1..Len(log) = {}
  BY EmptySeq DEF Init, Custody!Init
<1>3. \A i \in Ingests : ~Logged(i)
  BY <1>2 DEF Logged
<1>4. TypeOK
  <2>1. src \in [Files -> FileState]
    BY DEF Init, FileState
  <2>2. /\ tmp \in [Ingests -> FileState] /\ sha \in [Ingests -> FileState]
        /\ vault \in [Ingests -> FileState \cup {EmptyDir, Partial}]
        /\ pc \in [Ingests -> Pc] /\ added \in [Ingests -> ChainRow \cup {NoRow}]
    BY DEF Init, FileState, Pc
  <2>3. clock \in Nat /\ faults \in 0..MaxFaults
    BY BoundsAssumption DEF Init
  <2>4. \A i \in Ingests : added[i] = NoRow
    BY DEF Init
  <2> QED BY <1>1, <2>1, <2>2, <2>3, <2>4 DEF Init, TypeOK
<1> QED
  BY <1>3, <1>4 DEF Init, Custody!Init, IngestInv, CopyIsVerified, Verified, FilesFollow, Faultless,
    LoggedLater, RowsInOrder, Pending, OneInFlight

\* The variables keep their types.
LEMMA TypesStay == IngestInv /\ [Next]_vars => TypeOK'
<1> SUFFICES ASSUME IngestInv, [Next]_vars PROVE TypeOK'
  OBVIOUS
<1>0. Custody!TypeOK'
  <2>1. File!TypeOK /\ [File!Next]_File!vars
    BY StepOfLog, SameFile DEF IngestInv, TypeOK, Custody!vars, File!vars
  <2>2. File!TypeOK'
    BY <2>1, File!TypeStep, BoundsAssumption
  <2> QED BY <2>2, SameTypes
<1>00. \A i \in Ingests : Source(i) \in FileState
  <2> SUFFICES ASSUME NEW i \in Ingests PROVE Source(i) \in FileState
    OBVIOUS
  <2>1. /\ src \in [Files -> FileState] /\ tmp \in [Ingests -> FileState]
        /\ req[i] \in Requests
    BY DEF IngestInv, TypeOK
  <2>2. req[i].file \in Files
    BY <2>1, RequestFields
  <2> QED BY <2>1, <2>2 DEF Source
<1> USE DEF IngestInv, TypeOK, Goto, fileVars, sessionVars, dbVars, custodyVars, Pc,
    End, FileState
<1>1. ASSUME NEW f \in Files, NEW c \in FileState, ChangeSource(f, c) PROVE TypeOK'
  BY <1>0, BoundsAssumption, <1>1 DEF ChangeSource
<1>2. ASSUME NEW i \in Ingests, CheckImport(i) PROVE TypeOK'
  BY <1>0, BoundsAssumption, <1>2 DEF CheckImport
<1>3. ASSUME NEW i \in Ingests, NEW c \in Contents, ReceiveUpload(i, c) PROVE TypeOK'
  BY <1>0, BoundsAssumption, <1>3 DEF ReceiveUpload
<1>4. ASSUME NEW i \in Ingests, CheckUploadCase(i) PROVE TypeOK'
  BY <1>0, BoundsAssumption, <1>4 DEF CheckUploadCase
<1>5. ASSUME NEW i \in Ingests, HashSource(i) PROVE TypeOK'
  BY <1>0, BoundsAssumption, <1>5, <1>00 DEF HashSource, Source, Raise, Rollback
<1>6. ASSUME NEW i \in Ingests, CopyFile(i) PROVE TypeOK'
  BY <1>0, BoundsAssumption, <1>6, <1>00 DEF CopyFile, Source, Raise, Rollback
<1>7. ASSUME NEW i \in Ingests, VerifyCopy(i) PROVE TypeOK'
  BY <1>0, BoundsAssumption, <1>7 DEF VerifyCopy, Raise, Rollback
<1>8. ASSUME NEW i \in Ingests, AddRecord(i) PROVE TypeOK'
  <2>1. LastHash(chain) \in Seq(Ingests)
    BY LastHashType DEF RowsInOrder
  <2>2. Append(LastHash(chain), i) \in Seq(Ingests)
    BY <2>1, AppendProperties
  <2> QED BY <1>0, <1>8, <2>1, <2>2 DEF AddRecord, ChainRow
<1>9. ASSUME NEW i \in Ingests, ReadTail(i) PROVE TypeOK'
  BY <1>0, BoundsAssumption, <1>9 DEF ReadTail, Raise, Rollback
<1>10. ASSUME NEW i \in Ingests, WriteEntry(i) PROVE TypeOK'
  BY <1>0, BoundsAssumption, <1>10 DEF WriteEntry
<1>11. ASSUME NEW i \in Ingests, Commit(i) PROVE TypeOK'
  BY <1>0, BoundsAssumption, <1>11 DEF Commit, RowsInOrder, Pending
<1>12. ASSUME NEW i \in Ingests, Answer(i) PROVE TypeOK'
  BY <1>0, BoundsAssumption, <1>12 DEF Answer
<1>13. ASSUME NEW i \in Ingests, CopyFails(i) PROVE TypeOK'
  BY <1>0, BoundsAssumption, <1>13 DEF CopyFails, Fault, Raise, Rollback
<1>14. ASSUME NEW i \in Ingests, AppendFails(i) PROVE TypeOK'
  BY <1>0, BoundsAssumption, <1>14 DEF AppendFails, Fault, Raise, Rollback
<1>15. ASSUME NEW i \in Ingests, DatabaseFails(i) PROVE TypeOK'
  BY <1>0, BoundsAssumption, <1>15 DEF DatabaseFails, Fault, Raise, Rollback
<1>16. ASSUME NEW i \in Ingests, Crash(i) PROVE TypeOK'
  BY <1>0, BoundsAssumption, <1>16 DEF Crash, Fault, Rollback
<1>17. CASE UNCHANGED vars
  BY <1>0, BoundsAssumption, <1>17 DEF vars
<1>18. ASSUME NEW i \in Ingests, NEW c \in FileState, ReceiveFails(i, c) PROVE TypeOK'
  BY <1>0, BoundsAssumption, <1>18 DEF ReceiveFails, Fault
<1>19. ASSUME NEW i \in Ingests, LookupFails(i) PROVE TypeOK'
  BY <1>0, BoundsAssumption, <1>19 DEF LookupFails, Fault
<1>20. ASSUME NEW i \in Ingests, ReadFails(i) PROVE TypeOK'
  BY <1>0, BoundsAssumption, <1>20 DEF ReadFails, Fault, Raise, Rollback
<1>21. ASSUME NEW i \in Ingests, UnlinkFails(i) PROVE TypeOK'
  <2>1. stuck' \subseteq Ingests /\ faults' \in 0..MaxFaults
    <3>1. stuck' = stuck \cup {i} /\ faults < MaxFaults /\ faults' = faults + 1
      BY <1>21 DEF UnlinkFails, Fault
    <3>2. faults' \in 0..MaxFaults
      BY BoundsAssumption, <3>1
    <3>3. stuck' \subseteq Ingests
      BY <3>1
    <3> QED BY <3>2, <3>3
  <2>2. \E to \in Pc : pc' = [pc EXCEPT ![i] = to] /\ (added[i] # NoRow => to = "done")
    BY <1>21 DEF UnlinkFails
  <2>3. UNCHANGED <<engine, req, src, tmp, vault, sha, sessionVars, dbVars>>
    BY <1>21 DEF UnlinkFails
  <2> QED BY <1>0, <2>1, <2>2, <2>3
<1> QED BY <1>1, <1>2, <1>3, <1>4, <1>5, <1>6, <1>7, <1>8, <1>9, <1>10, <1>11,
     <1>12, <1>13, <1>14, <1>15, <1>16, <1>17,
     <1>18, <1>19, <1>20, <1>21 DEF Next, HandlerNext, HandlerFaults

\* Nobody touches a copy that has been compared.
LEMMA CopyStays == IngestInv /\ [Next]_vars => CopyIsVerified'
<1> SUFFICES ASSUME IngestInv, [Next]_vars PROVE CopyIsVerified'
  OBVIOUS
<1> USE DEF IngestInv, TypeOK, Goto, fileVars, sessionVars, dbVars, custodyVars, Pc,
    End, FileState, CopyIsVerified, Verified
<1>1. ASSUME NEW f \in Files, NEW c \in FileState, ChangeSource(f, c) PROVE CopyIsVerified'
  BY <1>1 DEF ChangeSource
<1>2. ASSUME NEW i \in Ingests, CheckImport(i) PROVE CopyIsVerified'
  BY <1>2 DEF CheckImport
<1>3. ASSUME NEW i \in Ingests, NEW c \in Contents, ReceiveUpload(i, c) PROVE CopyIsVerified'
  BY <1>3 DEF ReceiveUpload
<1>4. ASSUME NEW i \in Ingests, CheckUploadCase(i) PROVE CopyIsVerified'
  BY <1>4 DEF CheckUploadCase
<1>5. ASSUME NEW i \in Ingests, HashSource(i) PROVE CopyIsVerified'
  BY <1>5 DEF HashSource, Source, Raise, Rollback
<1>6. ASSUME NEW i \in Ingests, CopyFile(i) PROVE CopyIsVerified'
  BY <1>6 DEF CopyFile, Source, Raise, Rollback
<1>7. ASSUME NEW i \in Ingests, VerifyCopy(i) PROVE CopyIsVerified'
  BY <1>7 DEF VerifyCopy, Raise, Rollback
<1>8. ASSUME NEW i \in Ingests, AddRecord(i) PROVE CopyIsVerified'
  BY <1>8 DEF AddRecord
<1>9. ASSUME NEW i \in Ingests, ReadTail(i) PROVE CopyIsVerified'
  BY <1>9 DEF ReadTail, Raise, Rollback
<1>10. ASSUME NEW i \in Ingests, WriteEntry(i) PROVE CopyIsVerified'
  BY <1>10 DEF WriteEntry
<1>11. ASSUME NEW i \in Ingests, Commit(i) PROVE CopyIsVerified'
  BY <1>11 DEF Commit
<1>12. ASSUME NEW i \in Ingests, Answer(i) PROVE CopyIsVerified'
  BY <1>12 DEF Answer
<1>13. ASSUME NEW i \in Ingests, CopyFails(i) PROVE CopyIsVerified'
  BY <1>13 DEF CopyFails, Fault, Raise, Rollback
<1>14. ASSUME NEW i \in Ingests, AppendFails(i) PROVE CopyIsVerified'
  BY <1>14 DEF AppendFails, Fault, Raise, Rollback
<1>15. ASSUME NEW i \in Ingests, DatabaseFails(i) PROVE CopyIsVerified'
  BY <1>15 DEF DatabaseFails, Fault, Raise, Rollback
<1>16. ASSUME NEW i \in Ingests, Crash(i) PROVE CopyIsVerified'
  BY <1>16 DEF Crash, Fault, Rollback
<1>17. CASE UNCHANGED vars
  BY <1>17 DEF vars
<1>18. ASSUME NEW i \in Ingests, NEW c \in FileState, ReceiveFails(i, c) PROVE CopyIsVerified'
  BY <1>18 DEF ReceiveFails, Fault
<1>19. ASSUME NEW i \in Ingests, LookupFails(i) PROVE CopyIsVerified'
  BY <1>19 DEF LookupFails, Fault
<1>20. ASSUME NEW i \in Ingests, ReadFails(i) PROVE CopyIsVerified'
  BY <1>20 DEF ReadFails, Fault, Raise, Rollback
<1>21. ASSUME NEW i \in Ingests, UnlinkFails(i) PROVE CopyIsVerified'
  BY <1>21 DEF UnlinkFails, Fault
<1> QED BY <1>1, <1>2, <1>3, <1>4, <1>5, <1>6, <1>7, <1>8, <1>9, <1>10, <1>11,
     <1>12, <1>13, <1>14, <1>15, <1>16, <1>17,
     <1>18, <1>19, <1>20, <1>21 DEF Next, HandlerNext, HandlerFaults

\* Each way out of an upload but one removes the temporary file.
LEMMA FilesStay == IngestInv /\ [Next]_vars => FilesFollow'
<1> SUFFICES ASSUME IngestInv, [Next]_vars PROVE FilesFollow'
  OBVIOUS
<1> USE DEF IngestInv, TypeOK, Goto, fileVars, sessionVars, dbVars, custodyVars, Pc,
    End, FileState, FilesFollow
<1>1. ASSUME NEW f \in Files, NEW c \in FileState, ChangeSource(f, c) PROVE FilesFollow'
  BY <1>1 DEF ChangeSource
<1>2. ASSUME NEW i \in Ingests, CheckImport(i) PROVE FilesFollow'
  BY <1>2 DEF CheckImport
<1>3. ASSUME NEW i \in Ingests, NEW c \in Contents, ReceiveUpload(i, c) PROVE FilesFollow'
  <2>1. req[i] \in Requests
    OBVIOUS
  <2>2. req[i].size \in {"fits", "too large"}
    BY <2>1, RequestFields
  <2>3. /\ pc[i] = "new" /\ req[i].via = "upload"
        /\ req' = req /\ vault' = vault /\ stuck' = stuck /\ sha' = sha
        /\ pc' = [pc EXCEPT ![i] = IF req[i].size = "fits" THEN "received" ELSE "refused"]
        /\ tmp' = [tmp EXCEPT ![i] = c]
    BY <1>3 DEF ReceiveUpload
  <2> QED BY <2>2, <2>3
<1>4. ASSUME NEW i \in Ingests, CheckUploadCase(i) PROVE FilesFollow'
  BY <1>4 DEF CheckUploadCase
<1>5. ASSUME NEW i \in Ingests, HashSource(i) PROVE FilesFollow'
  BY <1>5 DEF HashSource, Source, Raise, Rollback
<1>6. ASSUME NEW i \in Ingests, CopyFile(i) PROVE FilesFollow'
  BY <1>6 DEF CopyFile, Source, Raise, Rollback
<1>7. ASSUME NEW i \in Ingests, VerifyCopy(i) PROVE FilesFollow'
  BY <1>7 DEF VerifyCopy, Raise, Rollback
<1>8. ASSUME NEW i \in Ingests, AddRecord(i) PROVE FilesFollow'
  BY <1>8 DEF AddRecord
<1>9. ASSUME NEW i \in Ingests, ReadTail(i) PROVE FilesFollow'
  BY <1>9 DEF ReadTail, Raise, Rollback
<1>10. ASSUME NEW i \in Ingests, WriteEntry(i) PROVE FilesFollow'
  BY <1>10 DEF WriteEntry
<1>11. ASSUME NEW i \in Ingests, Commit(i) PROVE FilesFollow'
  BY <1>11 DEF Commit
<1>12. ASSUME NEW i \in Ingests, Answer(i) PROVE FilesFollow'
  BY <1>12 DEF Answer
<1>13. ASSUME NEW i \in Ingests, CopyFails(i) PROVE FilesFollow'
  BY <1>13 DEF CopyFails, Fault, Raise, Rollback
<1>14. ASSUME NEW i \in Ingests, AppendFails(i) PROVE FilesFollow'
  BY <1>14 DEF AppendFails, Fault, Raise, Rollback
<1>15. ASSUME NEW i \in Ingests, DatabaseFails(i) PROVE FilesFollow'
  BY <1>15 DEF DatabaseFails, Fault, Raise, Rollback
<1>16. ASSUME NEW i \in Ingests, Crash(i) PROVE FilesFollow'
  BY <1>16 DEF Crash, Fault, Rollback
<1>17. CASE UNCHANGED vars
  BY <1>17 DEF vars
<1>18. ASSUME NEW i \in Ingests, NEW c \in FileState, ReceiveFails(i, c) PROVE FilesFollow'
  BY <1>18 DEF ReceiveFails, Fault
<1>19. ASSUME NEW i \in Ingests, LookupFails(i) PROVE FilesFollow'
  BY <1>19 DEF LookupFails, Fault
<1>20. ASSUME NEW i \in Ingests, ReadFails(i) PROVE FilesFollow'
  BY <1>20 DEF ReadFails, Fault, Raise, Rollback
<1>21. ASSUME NEW i \in Ingests, UnlinkFails(i) PROVE FilesFollow'
  BY <1>21 DEF UnlinkFails, Fault
<1> QED BY <1>1, <1>2, <1>3, <1>4, <1>5, <1>6, <1>7, <1>8, <1>9, <1>10, <1>11,
     <1>12, <1>13, <1>14, <1>15, <1>16, <1>17,
     <1>18, <1>19, <1>20, <1>21 DEF Next, HandlerNext, HandlerFaults

\* Without faults only a missing or changed source fails a request.
LEMMA FaultlessStays == IngestInv /\ [Next]_vars => Faultless'
<1> SUFFICES ASSUME IngestInv, [Next]_vars PROVE Faultless'
  OBVIOUS
<1>0. Fault => faults' # 0
  BY FaultsCount DEF Fault
<1> USE DEF IngestInv, TypeOK, Goto, fileVars, sessionVars, dbVars, custodyVars, Pc,
    End, FileState, Faultless, FilesFollow, LoggedLater
<1>1. ASSUME NEW f \in Files, NEW c \in FileState, ChangeSource(f, c) PROVE Faultless'
  BY <1>1, LogStays DEF ChangeSource
<1>2. ASSUME NEW i \in Ingests, CheckImport(i) PROVE Faultless'
  BY <1>2, LogStays DEF CheckImport
<1>3. ASSUME NEW i \in Ingests, NEW c \in Contents, ReceiveUpload(i, c) PROVE Faultless'
  BY <1>3, LogStays DEF ReceiveUpload
<1>4. ASSUME NEW i \in Ingests, CheckUploadCase(i) PROVE Faultless'
  BY <1>4, LogStays DEF CheckUploadCase
<1>5. ASSUME NEW i \in Ingests, HashSource(i) PROVE Faultless'
  <2>1. \A k \in Ingests : Logged(k)' <=> Logged(k)
    BY <1>5, LogStays DEF HashSource
  <2>2. ~Logged(i) /\ vault[i] = NoFile /\ pc[i] = "hash"
    BY <1>5 DEF HashSource, Raise
  <2>3. /\ vault' = vault /\ torn' = torn /\ faults' = faults
        /\ pc' \in {[pc EXCEPT ![i] = "failed"], [pc EXCEPT ![i] = "copy"]}
    BY <1>5 DEF HashSource, Raise
  <2> QED BY <2>1, <2>2, <2>3
<1>6. ASSUME NEW i \in Ingests, CopyFile(i) PROVE Faultless'
  <2>1. \A k \in Ingests : Logged(k)' <=> Logged(k)
    BY <1>6, LogStays DEF CopyFile
  <2>2. ~Logged(i) /\ pc[i] = "copy"
    BY <1>6 DEF CopyFile, Raise
  <2>3. /\ torn' = torn /\ faults' = faults
        /\ \/ pc' = [pc EXCEPT ![i] = "verify"] /\ \E c : vault' = [vault EXCEPT ![i] = c]
           \/ /\ pc' = [pc EXCEPT ![i] = "failed"]
              /\ vault' = [vault EXCEPT ![i] = EmptyDir]
    BY <1>6 DEF CopyFile, Raise
  <2> QED BY <2>1, <2>2, <2>3
<1>7. ASSUME NEW i \in Ingests, VerifyCopy(i) PROVE Faultless'
  <2>1. \A k \in Ingests : Logged(k)' <=> Logged(k)
    BY <1>7, LogStays DEF VerifyCopy
  <2>2. ~Logged(i) /\ pc[i] = "verify"
    BY <1>7 DEF VerifyCopy, Raise
  <2>3. /\ torn' = torn /\ faults' = faults
        /\ \/ pc' = [pc EXCEPT ![i] = "record"] /\ vault' = vault
           \/ /\ pc' = [pc EXCEPT ![i] = "failed"]
              /\ vault' = [vault EXCEPT ![i] = NoFile]
    BY <1>7 DEF VerifyCopy, Raise
  <2> QED BY <2>1, <2>2, <2>3
<1>8. ASSUME NEW i \in Ingests, AddRecord(i) PROVE Faultless'
  BY <1>8, LogStays DEF AddRecord
<1>9. ASSUME NEW i \in Ingests, ReadTail(i) PROVE Faultless'
  BY <1>9, LogStays DEF ReadTail, Raise, Rollback, Custody!ReadTail
<1>10. ASSUME NEW i \in Ingests, WriteEntry(i) PROVE Faultless'
  <2>1. /\ Custody!WriteEntry(i, i) /\ pc[i] = "write"
        /\ pc' = [pc EXCEPT ![i] = "commit"]
        /\ UNCHANGED <<req, fileVars, sha, sessionVars, dbVars, faults>>
    BY <1>10 DEF WriteEntry
  <2>2. /\ torn' = torn
        /\ ~torn => Logged(i)'
        /\ \A k \in Ingests : Logged(k) => Logged(k)'
        /\ \A k \in Ingests \ {i} : Logged(k)' => Logged(k)
    BY <2>1, LogGrows
  <2> QED BY <2>1, <2>2
<1>11. ASSUME NEW i \in Ingests, Commit(i) PROVE Faultless'
  BY <1>11, LogStays DEF Commit
<1>12. ASSUME NEW i \in Ingests, Answer(i) PROVE Faultless'
  BY <1>12, LogStays DEF Answer
<1>13. ASSUME NEW i \in Ingests, CopyFails(i) PROVE Faultless'
  <2>1. faults' # 0
    <3>1. Fault
      BY <1>13 DEF CopyFails
    <3> QED BY <3>1, <1>0
  <2> QED BY <2>1
<1>14. ASSUME NEW i \in Ingests, AppendFails(i) PROVE Faultless'
  <2>1. faults' # 0
    <3>1. Fault
      BY <1>14 DEF AppendFails
    <3> QED BY <3>1, <1>0
  <2> QED BY <2>1
<1>15. ASSUME NEW i \in Ingests, DatabaseFails(i) PROVE Faultless'
  <2>1. faults' # 0
    <3>1. Fault
      BY <1>15 DEF DatabaseFails
    <3> QED BY <3>1, <1>0
  <2> QED BY <2>1
<1>16. ASSUME NEW i \in Ingests, Crash(i) PROVE Faultless'
  <2>1. faults' # 0
    <3>1. Fault
      BY <1>16 DEF Crash
    <3> QED BY <3>1, <1>0
  <2> QED BY <2>1
<1>17. CASE UNCHANGED vars
  BY <1>17, LogStays DEF vars
<1>18. ASSUME NEW i \in Ingests, NEW c \in FileState, ReceiveFails(i, c) PROVE Faultless'
  <2>1. faults' # 0
    <3>1. Fault
      BY <1>18 DEF ReceiveFails
    <3> QED BY <3>1, <1>0
  <2> QED BY <2>1
<1>19. ASSUME NEW i \in Ingests, LookupFails(i) PROVE Faultless'
  <2>1. faults' # 0
    <3>1. Fault
      BY <1>19 DEF LookupFails
    <3> QED BY <3>1, <1>0
  <2> QED BY <2>1
<1>20. ASSUME NEW i \in Ingests, ReadFails(i) PROVE Faultless'
  <2>1. faults' # 0
    <3>1. Fault
      BY <1>20 DEF ReadFails
    <3> QED BY <3>1, <1>0
  <2> QED BY <2>1
<1>21. ASSUME NEW i \in Ingests, UnlinkFails(i) PROVE Faultless'
  <2>1. faults' # 0
    <3>1. Fault
      BY <1>21 DEF UnlinkFails
    <3> QED BY <3>1, <1>0
  <2> QED BY <2>1
<1> QED BY <1>1, <1>2, <1>3, <1>4, <1>5, <1>6, <1>7, <1>8, <1>9, <1>10, <1>11,
     <1>12, <1>13, <1>14, <1>15, <1>16, <1>17,
     <1>18, <1>19, <1>20, <1>21 DEF Next, HandlerNext, HandlerFaults

\* The entry is written before the commit.
LEMMA LoggedStays == IngestInv /\ [Next]_vars => LoggedLater'
<1> SUFFICES ASSUME IngestInv, [Next]_vars PROVE LoggedLater'
  OBVIOUS
<1> USE DEF IngestInv, TypeOK, Goto, fileVars, sessionVars, dbVars, custodyVars, Pc,
    End, FileState, LoggedLater, CopyIsVerified
<1>1. ASSUME NEW f \in Files, NEW c \in FileState, ChangeSource(f, c) PROVE LoggedLater'
  BY <1>1, LogStays DEF ChangeSource
<1>2. ASSUME NEW i \in Ingests, CheckImport(i) PROVE LoggedLater'
  BY <1>2, LogStays DEF CheckImport
<1>3. ASSUME NEW i \in Ingests, NEW c \in Contents, ReceiveUpload(i, c) PROVE LoggedLater'
  BY <1>3, LogStays DEF ReceiveUpload
<1>4. ASSUME NEW i \in Ingests, CheckUploadCase(i) PROVE LoggedLater'
  BY <1>4, LogStays DEF CheckUploadCase
<1>5. ASSUME NEW i \in Ingests, HashSource(i) PROVE LoggedLater'
  BY <1>5, LogStays DEF HashSource, Source, Raise, Rollback
<1>6. ASSUME NEW i \in Ingests, CopyFile(i) PROVE LoggedLater'
  BY <1>6, LogStays DEF CopyFile, Source, Raise, Rollback
<1>7. ASSUME NEW i \in Ingests, VerifyCopy(i) PROVE LoggedLater'
  BY <1>7, LogStays DEF VerifyCopy, Raise, Rollback
<1>8. ASSUME NEW i \in Ingests, AddRecord(i) PROVE LoggedLater'
  BY <1>8, LogStays DEF AddRecord
<1>9. ASSUME NEW i \in Ingests, ReadTail(i) PROVE LoggedLater'
  BY <1>9, LogStays DEF ReadTail, Raise, Rollback, Custody!ReadTail
<1>10. ASSUME NEW i \in Ingests, WriteEntry(i) PROVE LoggedLater'
  <2>1. /\ Custody!WriteEntry(i, i) /\ pc[i] = "write"
        /\ pc' = [pc EXCEPT ![i] = "commit"]
        /\ UNCHANGED <<req, fileVars, sha, sessionVars, dbVars, faults>>
    BY <1>10 DEF WriteEntry
  <2>2. /\ torn' = torn
        /\ ~torn => Logged(i)'
        /\ \A k \in Ingests : Logged(k) => Logged(k)'
        /\ \A k \in Ingests \ {i} : Logged(k)' => Logged(k)
    BY <2>1, LogGrows
  <2> QED BY <2>1, <2>2
<1>11. ASSUME NEW i \in Ingests, Commit(i) PROVE LoggedLater'
  BY <1>11, LogStays DEF Commit
<1>12. ASSUME NEW i \in Ingests, Answer(i) PROVE LoggedLater'
  BY <1>12, LogStays DEF Answer
<1>13. ASSUME NEW i \in Ingests, CopyFails(i) PROVE LoggedLater'
  BY <1>13, LogStays DEF CopyFails, Fault, Raise, Rollback
<1>14. ASSUME NEW i \in Ingests, AppendFails(i) PROVE LoggedLater'
  BY <1>14, LogStays DEF AppendFails, Fault, Raise, Rollback, Custody!AbandonAppend,
      Custody!TearLine
<1>15. ASSUME NEW i \in Ingests, DatabaseFails(i) PROVE LoggedLater'
  BY <1>15, LogStays DEF DatabaseFails, Fault, Raise, Rollback
<1>16. ASSUME NEW i \in Ingests, Crash(i) PROVE LoggedLater'
  BY <1>16, LogStays DEF Crash, Fault, Rollback, Custody!AbandonAppend
<1>17. CASE UNCHANGED vars
  BY <1>17, LogStays DEF vars
<1>18. ASSUME NEW i \in Ingests, NEW c \in FileState, ReceiveFails(i, c) PROVE LoggedLater'
  BY <1>18, LogStays DEF ReceiveFails, Fault
<1>19. ASSUME NEW i \in Ingests, LookupFails(i) PROVE LoggedLater'
  BY <1>19, LogStays DEF LookupFails, Fault
<1>20. ASSUME NEW i \in Ingests, ReadFails(i) PROVE LoggedLater'
  BY <1>20, LogStays DEF ReadFails, Fault, Raise, Rollback
<1>21. ASSUME NEW i \in Ingests, UnlinkFails(i) PROVE LoggedLater'
  BY <1>21, LogStays DEF UnlinkFails, Fault
<1> QED BY <1>1, <1>2, <1>3, <1>4, <1>5, <1>6, <1>7, <1>8, <1>9, <1>10, <1>11,
     <1>12, <1>13, <1>14, <1>15, <1>16, <1>17,
     <1>18, <1>19, <1>20, <1>21 DEF Next, HandlerNext, HandlerFaults

\* Rows get timestamps in the order of their log_action.
LEMMA RowsStay == IngestInv /\ [Next]_vars => RowsInOrder'
<1> SUFFICES ASSUME IngestInv, [Next]_vars PROVE RowsInOrder'
  OBVIOUS
<1> USE DEF IngestInv, TypeOK, Goto, fileVars, sessionVars, dbVars, custodyVars, Pc,
    End, FileState, RowsInOrder, Pending
<1>1. ASSUME NEW f \in Files, NEW c \in FileState, ChangeSource(f, c) PROVE RowsInOrder'
  BY <1>1 DEF ChangeSource
<1>2. ASSUME NEW i \in Ingests, CheckImport(i) PROVE RowsInOrder'
  BY <1>2 DEF CheckImport
<1>3. ASSUME NEW i \in Ingests, NEW c \in Contents, ReceiveUpload(i, c) PROVE RowsInOrder'
  BY <1>3 DEF ReceiveUpload
<1>4. ASSUME NEW i \in Ingests, CheckUploadCase(i) PROVE RowsInOrder'
  BY <1>4 DEF CheckUploadCase
<1>5. ASSUME NEW i \in Ingests, HashSource(i) PROVE RowsInOrder'
  BY <1>5 DEF HashSource, Source, Raise, Rollback
<1>6. ASSUME NEW i \in Ingests, CopyFile(i) PROVE RowsInOrder'
  BY <1>6 DEF CopyFile, Source, Raise, Rollback
<1>7. ASSUME NEW i \in Ingests, VerifyCopy(i) PROVE RowsInOrder'
  BY <1>7 DEF VerifyCopy, Raise, Rollback
<1>8. ASSUME NEW i \in Ingests, AddRecord(i) PROVE RowsInOrder'
  <2>1. /\ dbLock' = dbLock \cup {i} /\ clock' = clock + 1 /\ chain' = chain
        /\ pc[i] = "record" /\ pc' = [pc EXCEPT ![i] = "append"]
        /\ \A k \in Ingests : k # i => added'[k] = added[k]
    BY <1>8 DEF AddRecord
  <2>2. added'[i].ts = clock' /\ added'[i] \in ChainRow
    <3>1. added' = [added EXCEPT ![i] = added'[i]] /\ added'[i].id = i
      BY <1>8 DEF AddRecord
    <3>2. added'[i] \in ChainRow \cup {NoRow}
      BY TypesStay DEF TypeOK
    <3>3. added'[i] # NoRow
      BY <1>8 DEF AddRecord, NoRow
    <3>4. added'[i].ts = clock'
      BY <1>8 DEF AddRecord
    <3> QED BY <3>2, <3>3, <3>4
  <2>3. Pending' = Pending \cup {i}
    BY <2>1
  <2>4. \A r \in chain : r.ts \in Nat
    BY DEF ChainRow
  <2>5. \A k \in Pending' : added'[k] \in ChainRow /\ added'[k].ts <= clock'
    <3>1. \A k \in Pending : added[k].ts \in Nat /\ added[k].ts <= clock + 1
      BY DEF ChainRow
    <3> QED BY <2>1, <2>2, <2>3, <3>1
  <2>6. \A r \in chain' : r.ts <= clock'
    BY <2>1, <2>4
  <2> QED BY <2>1, <2>3, <2>5, <2>6
<1>9. ASSUME NEW i \in Ingests, ReadTail(i) PROVE RowsInOrder'
  BY <1>9 DEF ReadTail, Raise, Rollback
<1>10. ASSUME NEW i \in Ingests, WriteEntry(i) PROVE RowsInOrder'
  BY <1>10 DEF WriteEntry
<1>11. ASSUME NEW i \in Ingests, Commit(i) PROVE RowsInOrder'
  <2>1. /\ dbLock' = dbLock \ {i} /\ clock' = clock /\ added' = added
        /\ chain' = chain \cup {added[i]}
        /\ pc[i] = "commit" /\ pc' = [pc EXCEPT ![i] = "committed"]
    BY <1>11 DEF Commit
  <2>2. added[i] \in ChainRow /\ added[i].ts \in Nat /\ added[i].ts <= clock
    BY <2>1 DEF ChainRow
  <2>3. \A r \in chain : r.ts \in Nat
    BY DEF ChainRow
  <2>4. Pending' = Pending \ {i}
    BY <2>1
  <2>5. chain' = {} \/ \E r \in chain' : \A s \in chain' : s.ts <= r.ts
    <3>1. CASE \A s \in chain : s.ts <= added[i].ts
      BY <2>1, <2>2, <3>1
    <3>2. CASE \E s \in chain : ~(s.ts <= added[i].ts)
      <4>1. PICK r \in chain : \A s \in chain : s.ts <= r.ts
        BY <3>2
      <4>2. added[i].ts <= r.ts
        BY <2>2, <2>3, <3>2, <4>1
      <4> QED BY <2>1, <4>1, <4>2
    <3> QED BY <3>1, <3>2
  <2>6. \A r \in chain' : r.ts <= clock'
    BY <2>1, <2>2
  <2> QED BY <2>1, <2>4, <2>5, <2>6
<1>12. ASSUME NEW i \in Ingests, Answer(i) PROVE RowsInOrder'
  BY <1>12 DEF Answer
<1>13. ASSUME NEW i \in Ingests, CopyFails(i) PROVE RowsInOrder'
  BY <1>13 DEF CopyFails, Fault, Raise, Rollback
<1>14. ASSUME NEW i \in Ingests, AppendFails(i) PROVE RowsInOrder'
  BY <1>14 DEF AppendFails, Fault, Raise, Rollback
<1>15. ASSUME NEW i \in Ingests, DatabaseFails(i) PROVE RowsInOrder'
  BY <1>15 DEF DatabaseFails, Fault, Raise, Rollback
<1>16. ASSUME NEW i \in Ingests, Crash(i) PROVE RowsInOrder'
  BY <1>16 DEF Crash, Fault, Rollback
<1>17. CASE UNCHANGED vars
  BY <1>17 DEF vars
<1>18. ASSUME NEW i \in Ingests, NEW c \in FileState, ReceiveFails(i, c) PROVE RowsInOrder'
  BY <1>18 DEF ReceiveFails, Fault
<1>19. ASSUME NEW i \in Ingests, LookupFails(i) PROVE RowsInOrder'
  BY <1>19 DEF LookupFails, Fault
<1>20. ASSUME NEW i \in Ingests, ReadFails(i) PROVE RowsInOrder'
  BY <1>20 DEF ReadFails, Fault, Raise, Rollback
<1>21. ASSUME NEW i \in Ingests, UnlinkFails(i) PROVE RowsInOrder'
  BY <1>21 DEF UnlinkFails, Fault
<1> QED BY <1>1, <1>2, <1>3, <1>4, <1>5, <1>6, <1>7, <1>8, <1>9, <1>10, <1>11,
     <1>12, <1>13, <1>14, <1>15, <1>16, <1>17,
     <1>18, <1>19, <1>20, <1>21 DEF Next, HandlerNext, HandlerFaults

\* A row in flight stays the next one, unless another takes off.
LEMMA FlightStays == IngestInv /\ [Next]_vars => OneInFlight'
<1> SUFFICES ASSUME IngestInv, [Next]_vars PROVE OneInFlight'
  OBVIOUS
<1> USE DEF IngestInv, TypeOK, Goto, fileVars, sessionVars, dbVars, custodyVars, Pc,
    End, FileState, OneInFlight, Pending, SingleWriter
<1>1. ASSUME NEW f \in Files, NEW c \in FileState, ChangeSource(f, c) PROVE OneInFlight'
  BY <1>1 DEF ChangeSource
<1>2. ASSUME NEW i \in Ingests, CheckImport(i) PROVE OneInFlight'
  BY <1>2 DEF CheckImport
<1>3. ASSUME NEW i \in Ingests, NEW c \in Contents, ReceiveUpload(i, c) PROVE OneInFlight'
  BY <1>3 DEF ReceiveUpload
<1>4. ASSUME NEW i \in Ingests, CheckUploadCase(i) PROVE OneInFlight'
  BY <1>4 DEF CheckUploadCase
<1>5. ASSUME NEW i \in Ingests, HashSource(i) PROVE OneInFlight'
  BY <1>5 DEF HashSource, Source, Raise, Rollback
<1>6. ASSUME NEW i \in Ingests, CopyFile(i) PROVE OneInFlight'
  BY <1>6 DEF CopyFile, Source, Raise, Rollback
<1>7. ASSUME NEW i \in Ingests, VerifyCopy(i) PROVE OneInFlight'
  BY <1>7 DEF VerifyCopy, Raise, Rollback
<1>8. ASSUME NEW i \in Ingests, AddRecord(i) PROVE OneInFlight'
  <2> USE DEF RowsInOrder
  <2>1. /\ SingleWriter => dbLock = {}
        /\ raced' = (raced \/ dbLock # {}) /\ chain' = chain /\ engine' = engine
        /\ clock' = clock + 1 /\ pc[i] = "record" /\ pc' = [pc EXCEPT ![i] = "append"]
    BY <1>8 DEF AddRecord
  <2>2. added'[i].ts = clock + 1 /\ added'[i].prev_hash = LastHash(chain)
    BY <1>8 DEF AddRecord
  <2>3. Pending' = Pending \cup {i}
    BY <2>1
  <2>4. SingleWriter' => ~raced'
    BY <2>1
  <2>5. ASSUME ~raced' PROVE Pending' = {i} /\ ~raced
    BY <2>1, <2>3, <2>5
  <2>6. LastHash(chain') = LastHash(chain)
    BY <2>1
  <2>7. \A r \in chain : r.ts \in Nat /\ r.ts < clock + 1
    BY DEF ChainRow
  <2>8. \A r \in chain : LastHash({s \in chain' : s.ts < r.ts}) = LastHash({s \in chain : s.ts < r.ts})
    BY <2>1
  <2> QED BY <2>1, <2>2, <2>4, <2>5, <2>6, <2>7, <2>8
<1>9. ASSUME NEW i \in Ingests, ReadTail(i) PROVE OneInFlight'
  BY <1>9 DEF ReadTail, Raise, Rollback
<1>10. ASSUME NEW i \in Ingests, WriteEntry(i) PROVE OneInFlight'
  BY <1>10 DEF WriteEntry
<1>11. ASSUME NEW i \in Ingests, Commit(i) PROVE OneInFlight'
  <2> USE DEF RowsInOrder
  <2>1. /\ chain' = chain \cup {added[i]} /\ added' = added /\ raced' = raced
        /\ engine' = engine /\ pc[i] = "commit" /\ pc' = [pc EXCEPT ![i] = "committed"]
    BY <1>11 DEF Commit
  <2>2. SingleWriter' => ~raced'
    BY <2>1
  <2> SUFFICES ASSUME ~raced
               PROVE  /\ Pending' = {}
                      /\ \A r \in chain' : r.prev_hash = LastHash({s \in chain' : s.ts < r.ts})
    BY <2>1, <2>2
  <2>3. Pending' = {}
    BY <2>1
  <2>4. /\ added[i] \in ChainRow /\ added[i].prev_hash = LastHash(chain)
        /\ added[i].ts \in Nat /\ \A r \in chain : r.ts \in Nat /\ r.ts < added[i].ts
    BY <2>1 DEF ChainRow
  <2>5. {s \in chain' : s.ts < added[i].ts} = chain
    BY <2>1, <2>4
  <2>6. ASSUME NEW r \in chain
        PROVE {s \in chain' : s.ts < r.ts} = {s \in chain : s.ts < r.ts}
    BY <2>1, <2>4
  <2>7. \A r \in chain : r.prev_hash = LastHash({s \in chain : s.ts < r.ts})
    OBVIOUS
  <2>8. \A r \in chain : r.prev_hash = LastHash({s \in chain' : s.ts < r.ts})
    BY <2>6, <2>7
  <2>9. added[i].prev_hash = LastHash({s \in chain' : s.ts < added[i].ts})
    BY <2>4, <2>5
  <2> QED BY <2>1, <2>3, <2>8, <2>9
<1>12. ASSUME NEW i \in Ingests, Answer(i) PROVE OneInFlight'
  BY <1>12 DEF Answer
<1>13. ASSUME NEW i \in Ingests, CopyFails(i) PROVE OneInFlight'
  BY <1>13 DEF CopyFails, Fault, Raise, Rollback
<1>14. ASSUME NEW i \in Ingests, AppendFails(i) PROVE OneInFlight'
  BY <1>14 DEF AppendFails, Fault, Raise, Rollback
<1>15. ASSUME NEW i \in Ingests, DatabaseFails(i) PROVE OneInFlight'
  BY <1>15 DEF DatabaseFails, Fault, Raise, Rollback
<1>16. ASSUME NEW i \in Ingests, Crash(i) PROVE OneInFlight'
  BY <1>16 DEF Crash, Fault, Rollback
<1>17. CASE UNCHANGED vars
  BY <1>17 DEF vars
<1>18. ASSUME NEW i \in Ingests, NEW c \in FileState, ReceiveFails(i, c) PROVE OneInFlight'
  BY <1>18 DEF ReceiveFails, Fault
<1>19. ASSUME NEW i \in Ingests, LookupFails(i) PROVE OneInFlight'
  BY <1>19 DEF LookupFails, Fault
<1>20. ASSUME NEW i \in Ingests, ReadFails(i) PROVE OneInFlight'
  BY <1>20 DEF ReadFails, Fault, Raise, Rollback
<1>21. ASSUME NEW i \in Ingests, UnlinkFails(i) PROVE OneInFlight'
  BY <1>21 DEF UnlinkFails, Fault
<1> QED BY <1>1, <1>2, <1>3, <1>4, <1>5, <1>6, <1>7, <1>8, <1>9, <1>10, <1>11,
     <1>12, <1>13, <1>14, <1>15, <1>16, <1>17,
     <1>18, <1>19, <1>20, <1>21 DEF Next, HandlerNext, HandlerFaults

-----------------------------------------------------------------------------
LEMMA IngestInvariance == Spec => []IngestInv
<1>1. IngestInv /\ [Next]_vars => IngestInv'
  BY TypesStay, CopyStays, FilesStay, FaultlessStays, LoggedStays, RowsStay, FlightStays
  DEF IngestInv
<1> QED BY IngestStart, <1>1, PTL DEF Spec

\* The variables of Ingest keep their types, those of the log included.
THEOREM IngestTypeCorrect == Spec => []TypeOK
<1>1. IngestInv => TypeOK
  BY DEF IngestInv
<1> QED BY IngestInvariance, <1>1, PTL

\* Whatever happens to the sources, the vault has for every Evidence row a copy with
\* its digest.
THEOREM EvidenceIsIntact == Spec => []CommittedIsIntact
<1>1. IngestInv => CommittedIsIntact
  BY DEF IngestInv, TypeOK, CopyIsVerified, CommittedIsIntact
<1> QED BY IngestInvariance, <1>1, PTL

\* Every Evidence row has its entry in the log, until a line is torn.
THEOREM EvidenceIsLogged == Spec => []CommittedIsLogged
<1>1. IngestInv => CommittedIsLogged
  BY DEF IngestInv, TypeOK, LoggedLater, CommittedIsLogged
<1> QED BY IngestInvariance, <1>1, PTL

\* Without faults the log claims no evidence that the database does not get.
THEOREM LogIsCommitted == Spec => []LoggedIsCommitted
<1>1. IngestInv => LoggedIsCommitted
  BY DEF IngestInv, TypeOK, Pc, End, LoggedLater, Faultless, CopyIsVerified, LoggedIsCommitted
<1> QED BY IngestInvariance, <1>1, PTL

\* A request that fails without a fault leaves no copy.  From the hashing on each end
\* removes the temporary file, whatever fails; what is left is of a crash, a removal
\* that failed, or an upload that ended before.
THEOREM NothingIsLeft == Spec => []NoLeftovers
<1>1. IngestInv => NoLeftovers
  BY DEF IngestInv, TypeOK, Pc, End, FilesFollow, Faultless, CopyIsVerified, NoLeftovers
<1> QED BY IngestInvariance, <1>1, PTL

\* The custody rows of a case are one chain on SQLite, and elsewhere until two
\* ingests overlap from log_action to their commits.
THEOREM RowsAreAChain == Spec => []ChainIsLinear
<1>1. IngestInv => ChainIsLinear
  BY DEF IngestInv, OneInFlight, ChainIsLinear
<1> QED BY IngestInvariance, <1>1, PTL

-----------------------------------------------------------------------------
(* The register of evidence.                                                *)

\* What is copied has been hashed, and nothing is hashed twice.
Hashed ==
  \A i \in Ingests :
    /\ pc[i] \in {"copy", "verify"} \/ Verified(i) \/ i \in evidence => sha[i] # NoFile
    /\ pc[i] \in {"new", "received", "hash"} => sha[i] = NoFile

\* A row in flight adds its evidence to what it links to.
RowsLink == \A i \in Pending : added[i].curr_hash = Append(added[i].prev_hash, i)

RegisterInv == IngestInv /\ Hashed /\ RowsLink

\* A request is hashed once, and only evidence that was there is copied.
LEMMA HashedStays == IngestInv /\ Hashed /\ [Next]_vars => Hashed'
<1> SUFFICES ASSUME IngestInv, Hashed, [Next]_vars PROVE Hashed'
  OBVIOUS
<1> USE DEF IngestInv, TypeOK, Goto, fileVars, sessionVars, dbVars, custodyVars, Pc,
    End, FileState, Hashed, Verified, CopyIsVerified
<1>1. ASSUME NEW f \in Files, NEW c \in FileState, ChangeSource(f, c) PROVE Hashed'
  BY <1>1 DEF ChangeSource
<1>2. ASSUME NEW i \in Ingests, CheckImport(i) PROVE Hashed'
  BY <1>2 DEF CheckImport
<1>3. ASSUME NEW i \in Ingests, NEW c \in Contents, ReceiveUpload(i, c) PROVE Hashed'
  BY <1>3 DEF ReceiveUpload
<1>4. ASSUME NEW i \in Ingests, CheckUploadCase(i) PROVE Hashed'
  BY <1>4 DEF CheckUploadCase
<1>5. ASSUME NEW i \in Ingests, HashSource(i) PROVE Hashed'
  BY <1>5 DEF HashSource, Raise, Rollback
<1>6. ASSUME NEW i \in Ingests, CopyFile(i) PROVE Hashed'
  BY <1>6 DEF CopyFile, Raise, Rollback
<1>7. ASSUME NEW i \in Ingests, VerifyCopy(i) PROVE Hashed'
  BY <1>7 DEF VerifyCopy, Raise, Rollback
<1>8. ASSUME NEW i \in Ingests, AddRecord(i) PROVE Hashed'
  BY <1>8 DEF AddRecord
<1>9. ASSUME NEW i \in Ingests, ReadTail(i) PROVE Hashed'
  BY <1>9 DEF ReadTail, Raise, Rollback
<1>10. ASSUME NEW i \in Ingests, WriteEntry(i) PROVE Hashed'
  BY <1>10 DEF WriteEntry
<1>11. ASSUME NEW i \in Ingests, Commit(i) PROVE Hashed'
  BY <1>11 DEF Commit
<1>12. ASSUME NEW i \in Ingests, Answer(i) PROVE Hashed'
  BY <1>12 DEF Answer
<1>13. ASSUME NEW i \in Ingests,
              CopyFails(i) \/ AppendFails(i) \/ DatabaseFails(i) \/ Crash(i) \/ ReadFails(i)
       PROVE  Hashed'
  <2>1. sha' = sha /\ evidence' = evidence
    BY <1>13 DEF CopyFails, AppendFails, DatabaseFails, Crash, ReadFails
  <2>2. \E to \in {"failed", "crashed"} : pc' = [pc EXCEPT ![i] = to]
    BY <1>13 DEF CopyFails, AppendFails, DatabaseFails, Crash, ReadFails, Raise
  <2> QED BY <2>1, <2>2
<1>14. CASE UNCHANGED vars
  BY <1>14 DEF vars
<1>15. ASSUME NEW i \in Ingests, NEW c \in FileState, ReceiveFails(i, c) PROVE Hashed'
  BY <1>15 DEF ReceiveFails
<1>16. ASSUME NEW i \in Ingests, LookupFails(i) \/ UnlinkFails(i) PROVE Hashed'
  BY <1>16 DEF LookupFails, UnlinkFails
<1> QED BY <1>1, <1>2, <1>3, <1>4, <1>5, <1>6, <1>7, <1>8, <1>9, <1>10, <1>11,
     <1>12, <1>13, <1>14, <1>15, <1>16 DEF Next, HandlerNext, HandlerFaults

\* log_action makes the row in one piece.
LEMMA LinksStay == IngestInv /\ RowsLink /\ [Next]_vars => RowsLink'
<1> SUFFICES ASSUME IngestInv, RowsLink, [Next]_vars, NEW k \in Pending'
             PROVE  added'[k].curr_hash = Append(added'[k].prev_hash, k)
  BY DEF RowsLink
<1> USE DEF IngestInv, TypeOK, Goto, fileVars, sessionVars, dbVars, custodyVars, Pc,
    End, FileState, Pending
<1>1. k \in Ingests
  OBVIOUS
<1>2. CASE added' = added /\ k \in Pending
  BY <1>2 DEF RowsLink
<1>3. ASSUME NEW i \in Ingests, AddRecord(i)
      PROVE  added'[k].curr_hash = Append(added'[k].prev_hash, k)
  <2>1. CASE k = i
    BY <1>3, <2>1 DEF AddRecord
  <2>2. CASE k # i
    <3>1. added'[k] = added[k] /\ k \in Pending
      BY <1>3, <2>2 DEF AddRecord
    <3> QED BY <3>1 DEF RowsLink
  <2> QED BY <2>1, <2>2
<1>4. ASSUME NEW i \in Ingests, NEW from, Goto(i, from, "failed") \/ Goto(i, from, "crashed"),
             Rollback(i)
      PROVE  added'[k] = added[k] /\ k \in Pending
  <2>1. k # i /\ k \in Pending
    BY <1>4
  <2> QED BY <1>4, <2>1 DEF Rollback
<1>5. ASSUME NEW i \in Ingests, \E from : Raise(i, from)
      PROVE  added'[k] = added[k] /\ k \in Pending
  BY <1>4, <1>5 DEF Raise
<1>6. ASSUME NEW i \in Ingests,
             \/ CopyFails(i) \/ AppendFails(i) \/ DatabaseFails(i) \/ Crash(i)
             \/ ReadFails(i)
      PROVE  added'[k] = added[k] /\ k \in Pending
  BY <1>4, <1>5, <1>6 DEF CopyFails, AppendFails, DatabaseFails, Crash, ReadFails
<1>7. ASSUME NEW i \in Ingests,
             \/ HashSource(i) \/ CopyFile(i) \/ VerifyCopy(i) \/ ReadTail(i)
      PROVE  added'[k] = added[k] /\ k \in Pending
  <2>1. CASE \E from : Raise(i, from)
    BY <1>5, <2>1
  <2>2. CASE ~\E from : Raise(i, from)
    BY <1>7, <2>2 DEF HashSource, CopyFile, VerifyCopy, ReadTail
  <2> QED BY <2>1, <2>2
<1>8. ASSUME NEW i \in Ingests,
             \/ CheckImport(i) \/ CheckUploadCase(i) \/ WriteEntry(i) \/ Commit(i)
             \/ Answer(i) \/ \E c \in Contents : ReceiveUpload(i, c)
             \/ LookupFails(i) \/ UnlinkFails(i) \/ \E c \in FileState : ReceiveFails(i, c)
      PROVE  added' = added /\ k \in Pending
  BY <1>8 DEF CheckImport, CheckUploadCase, WriteEntry, Commit, Answer, ReceiveUpload,
     LookupFails, UnlinkFails, ReceiveFails
<1>9. ASSUME (\E f \in Files, c \in FileState : ChangeSource(f, c)) \/ UNCHANGED vars
      PROVE  added' = added /\ k \in Pending
  BY <1>9 DEF ChangeSource, vars
<1>10. CASE added'[k] = added[k] /\ k \in Pending
  BY <1>10 DEF RowsLink
<1> QED BY <1>2, <1>3, <1>6, <1>7, <1>8, <1>9, <1>10 DEF Next, HandlerNext, HandlerFaults

\* The row with the latest timestamp is the one log_action finds.
LEMMA LatestRow ==
  ASSUME NEW rows \in SUBSET ChainRow, NEW r \in ChainRow, \A s \in rows : s.ts < r.ts
  PROVE  LastHash(rows \cup {r}) = r.curr_hash
<1>1. /\ r.ts \in Nat /\ \A s \in rows : s.ts \in Nat
  BY DEF ChainRow
<1>2. \A s \in rows \cup {r} : s.ts <= r.ts
  BY <1>1
<1>3. \A x \in rows \cup {r} : (\A s \in rows \cup {r} : s.ts <= x.ts) => x = r
  <2> SUFFICES ASSUME NEW x \in rows, r.ts <= x.ts PROVE FALSE
    OBVIOUS
  <2> QED BY <1>1
<1>4. (CHOOSE x \in rows \cup {r} : \A s \in rows \cup {r} : s.ts <= x.ts) = r
  BY <1>2, <1>3
<1> QED BY <1>4 DEF LastHash

\* A step that nobody sees: no row, no copy of a committed one, no answer.
LEMMA NothingSeen ==
  ASSUME UNCHANGED <<sha, evidence, chain>>,
         \A k \in evidence \cap Ingests : vault'[k] = vault[k],
         \A k \in Ingests : Told(k)' = Told(k)
  PROVE  UNCHANGED Register!vars
<1> DEFINE h(k) == IF k \in evidence THEN vault[k] ELSE NoFile
<1>1. \A k \in Ingests : h(k)' = h(k)
  OBVIOUS
<1>2. [k \in Ingests |-> h(k)]' = [k \in Ingests |-> h(k)]
  BY <1>1
<1>3. [k \in Ingests |-> Told(k)]' = [k \in Ingests |-> Told(k)]
  OBVIOUS
<1>4. LastHash(chain)' = LastHash(chain)
  OBVIOUS
<1> QED BY <1>2, <1>3, <1>4 DEF Register!vars

\* A request that goes on, or ends without an answer, has told as much as before.
LEMMA NothingTold ==
  ASSUME TypeOK, NEW i \in Ingests, NEW from, NEW to, Goto(i, from, to),
         {from, to} \cap {"done", "error", "aborted", "refused"} = {}
  PROVE  \A k \in Ingests : Told(k)' = Told(k)
<1> SUFFICES ASSUME NEW k \in Ingests PROVE Told(k)' = Told(k)
  OBVIOUS
<1>1. pc'[k] = IF k = i THEN to ELSE pc[k]
  BY DEF Goto, TypeOK
<1>2. CASE k # i
  BY <1>1, <1>2 DEF Told
<1>3. CASE k = i
  BY <1>1, <1>3 DEF Told, Goto
<1> QED BY <1>2, <1>3

\* A request that ends is told what the register says.
LEMMA ToldAtTheEnd ==
  ASSUME TypeOK, NEW i \in Ingests, NEW from, NEW to, Goto(i, from, to),
         from \notin {"done", "error", "aborted", "refused"},
         to \in {"done", "error", "aborted", "refused"},
         i \in evidence <=> to = "done", i \in evidence => vault[i] # NoFile,
         UNCHANGED <<sha, evidence, chain, vault>>
  PROVE  Register!Tell(i)
<1> DEFINE h(k) == IF k \in evidence THEN vault[k] ELSE NoFile
<1>1. [k \in Ingests |-> h(k)]' = [k \in Ingests |-> h(k)] /\ LastHash(chain)' = LastHash(chain)
  OBVIOUS
<1>2. Told(i) = "none" /\ Told(i)' = IF h(i) = NoFile THEN "refused" ELSE "taken"
  BY DEF Told, Goto, TypeOK
<1>3. \A k \in Ingests \ {i} : Told(k)' = Told(k)
  BY DEF Told, Goto, TypeOK
<1> QED BY <1>1, <1>2, <1>3 DEF Register!Tell

\* Each step of a request is a step of the register, or nobody sees it.
LEMMA RegisterStep ==
  ASSUME RegisterInv, [Next]_vars, SingleWriter \/ ~raced'
  PROVE  Register!Next \/ UNCHANGED Register!vars
<1> DEFINE Done == Register!Next \/ UNCHANGED Register!vars
           Ends == {"done", "error", "aborted", "refused"}
<1>0. TypeOK /\ CopyIsVerified /\ RowsInOrder /\ OneInFlight /\ Hashed /\ RowsLink
  BY DEF RegisterInv, IngestInv
<1>a. \A k \in Ingests : k \in evidence => pc[k] \in {"committed", "done", "crashed"}
  BY <1>0 DEF CopyIsVerified
<1>b. \A k \in Ingests : k \in evidence => vault[k] # NoFile
  BY <1>0 DEF CopyIsVerified, Hashed
<1>c. ASSUME NEW i \in Ingests, NEW from, NEW to, Goto(i, from, to),
             {from, to} \cap Ends = {}, UNCHANGED <<sha, evidence, chain>>,
             \/ vault' = vault
             \/ from \in {"copy", "verify"} /\ \E c : vault' = [vault EXCEPT ![i] = c]
      PROVE  Done
  <2>1. \A k \in evidence \cap Ingests : vault'[k] = vault[k]
    <3>1. from \in {"copy", "verify"} => i \notin evidence
      BY <1>a, <1>c DEF Goto
    <3> QED BY <1>0, <1>c, <3>1 DEF TypeOK
  <2>2. \A k \in Ingests : Told(k)' = Told(k)
    BY <1>0, <1>c, NothingTold
  <2> QED BY <1>c, <2>1, <2>2, NothingSeen
<1>d. ASSUME NEW i \in Ingests, NEW from, NEW to, Goto(i, from, to), from \notin Ends,
             to \in Ends, i \in evidence <=> to = "done",
             UNCHANGED <<sha, evidence, chain, vault>>
      PROVE  Done
  <2>1. Register!Tell(i)
    BY <1>0, <1>b, <1>d, ToldAtTheEnd
  <2> QED BY <2>1 DEF Register!Next
<1> HIDE DEF Done
<1> USE DEF fileVars, sessionVars, dbVars
<1>1. ASSUME NEW f \in Files, NEW c \in FileState, ChangeSource(f, c) PROVE Done
  <2>1. \A k \in Ingests : Told(k)' = Told(k)
    BY <1>1 DEF ChangeSource, Told
  <2> QED BY <1>1, <2>1, NothingSeen DEF ChangeSource, Done
<1>2. ASSUME NEW i \in Ingests, CheckImport(i) \/ \E c \in Contents : ReceiveUpload(i, c)
      PROVE  Done
  <2>1. PICK to \in {"refused", "hash", "received"} : Goto(i, "new", to)
    BY <1>2 DEF CheckImport, ReceiveUpload
  <2>2. i \notin evidence /\ UNCHANGED <<sha, evidence, chain, vault>>
    BY <1>2, <1>a, <2>1 DEF CheckImport, ReceiveUpload, Goto
  <2>3. CASE to = "refused"
    BY <1>d, <2>1, <2>2, <2>3
  <2>4. CASE to # "refused"
    BY <1>c, <2>1, <2>2, <2>4
  <2> QED BY <2>3, <2>4
<1>15. ASSUME NEW i \in Ingests, LookupFails(i) \/ \E c \in FileState : ReceiveFails(i, c)
       PROVE  Done
  <2>1. PICK from \in {"new", "received"}, to \in {"aborted", "crashed"} : Goto(i, from, to)
    BY <1>15 DEF LookupFails, ReceiveFails
  <2>2. i \notin evidence /\ UNCHANGED <<sha, evidence, chain, vault>>
    BY <1>15, <1>a, <2>1 DEF LookupFails, ReceiveFails, Goto
  <2>3. CASE to = "aborted"
    BY <1>d, <2>1, <2>2, <2>3
  <2>4. CASE to = "crashed"
    BY <1>c, <2>1, <2>2, <2>4
  <2> QED BY <2>3, <2>4
<1>3. ASSUME NEW i \in Ingests, CheckUploadCase(i) PROVE Done
  <2>1. PICK to \in {"refused", "hash"} : Goto(i, "received", to)
    BY <1>3 DEF CheckUploadCase
  <2>2. i \notin evidence /\ UNCHANGED <<sha, evidence, chain, vault>>
    BY <1>3, <1>a, <2>1 DEF CheckUploadCase, Goto
  <2>3. CASE to = "refused"
    BY <1>d, <2>1, <2>2, <2>3
  <2>4. CASE to # "refused"
    BY <1>c, <2>1, <2>2, <2>4
  <2> QED BY <2>3, <2>4
<1>4. ASSUME NEW i \in Ingests, HashSource(i) PROVE Done
  <2>1. CASE Source(i) = NoFile
    BY <1>4, <1>c, <2>1 DEF HashSource, Raise
  <2>2. CASE Source(i) # NoFile
    <3>1. /\ Goto(i, "hash", "copy") /\ sha' = [sha EXCEPT ![i] = Source(i)]
          /\ UNCHANGED <<vault, evidence, chain>>
      BY <1>4, <2>2 DEF HashSource
    <3>2. Source(i) \in Contents
      <4>1. req[i].file \in Files
        BY <1>0, RequestFields DEF TypeOK
      <4> QED BY <1>0, <2>2, <4>1 DEF Source, TypeOK, FileState
    <3>3. sha[i] = NoFile /\ Told(i) = "none"
      BY <1>0, <3>1 DEF Hashed, Goto, Told
    <3>4. \A k \in Ingests : Told(k)' = Told(k)
      BY <1>0, <3>1, NothingTold
    <3>5. [k \in Ingests |-> Told(k)]' = [k \in Ingests |-> Told(k)]
      BY <3>4
    <3>6. LastHash(chain)' = LastHash(chain)
      BY <3>1
    <3>7. Register!LookAt(i, Source(i))
      BY <2>2, <3>1, <3>3, <3>5, <3>6 DEF Register!LookAt
    <3> QED BY <3>2, <3>7 DEF Register!Next, Done
  <2> QED BY <2>1, <2>2
<1>5. ASSUME NEW i \in Ingests, CopyFile(i) \/ CopyFails(i) PROVE Done
  <2>1. /\ \E to \in {"verify", "failed"} : Goto(i, "copy", to)
        /\ \E c : vault' = [vault EXCEPT ![i] = c]
        /\ UNCHANGED <<sha, evidence, chain>>
    BY <1>5 DEF CopyFile, CopyFails, Raise
  <2> QED BY <1>c, <2>1
<1>6. ASSUME NEW i \in Ingests, VerifyCopy(i) PROVE Done
  <2>1. /\ \E to \in {"record", "failed"} : Goto(i, "verify", to)
        /\ vault' = vault \/ \E c : vault' = [vault EXCEPT ![i] = c]
        /\ UNCHANGED <<sha, evidence, chain>>
    BY <1>6 DEF VerifyCopy, Raise
  <2> QED BY <1>c, <2>1
<1>7. ASSUME NEW i \in Ingests,
             \/ AddRecord(i) \/ ReadTail(i) \/ WriteEntry(i) \/ AppendFails(i)
             \/ DatabaseFails(i) \/ ReadFails(i)
      PROVE  Done
  <2>1. /\ \E from \in {"hash", "verify", "record", "append", "write", "commit"},
              to \in {"append", "write", "commit", "failed"} : Goto(i, from, to)
        /\ UNCHANGED <<sha, evidence, chain, vault>>
    BY <1>7 DEF AddRecord, ReadTail, WriteEntry, AppendFails, DatabaseFails, ReadFails, Raise
  <2> QED BY <1>c, <2>1
<1>8. ASSUME NEW i \in Ingests, Commit(i) PROVE Done
  <2>1. /\ Goto(i, "commit", "committed") /\ evidence' = evidence \cup {i}
        /\ chain' = chain \cup {added[i]}
        /\ UNCHANGED <<sha, vault, raced, added>> /\ pc[i] = "commit" /\ i \in Pending
    BY <1>8 DEF Commit, Goto, Pending
  <2>2. i \notin evidence /\ vault[i] = sha[i] /\ sha[i] # NoFile
    BY <1>0, <1>a, <2>1 DEF CopyIsVerified, Verified, Hashed
  <2>3. ~raced
    BY <1>0, <2>1 DEF OneInFlight
  <2>4. LastHash(chain') = Append(LastHash(chain), i)
    <3>1. /\ added[i] \in ChainRow /\ chain \in SUBSET ChainRow
          /\ added[i].prev_hash = LastHash(chain) /\ \A r \in chain : r.ts < added[i].ts
      BY <1>0, <2>1, <2>3 DEF RowsInOrder, OneInFlight, TypeOK
    <3>2. LastHash(chain') = added[i].curr_hash
      BY <2>1, <3>1, LatestRow
    <3> QED BY <1>0, <2>1, <3>1, <3>2 DEF RowsLink
  <2> DEFINE h(k) == IF k \in evidence THEN vault[k] ELSE NoFile
  <2>5. [k \in Ingests |-> h(k)]' = [[k \in Ingests |-> h(k)] EXCEPT ![i] = sha[i]]
    BY <2>1, <2>2
  <2>6. [k \in Ingests |-> Told(k)]' = [k \in Ingests |-> Told(k)]
    <3>1. \A k \in Ingests : Told(k)' = Told(k)
      BY <1>0, <2>1, NothingTold
    <3> QED BY <3>1
  <2>7. h(i) = NoFile /\ Told(i) = "none"
    BY <2>1, <2>2 DEF Told
  <2>8. Register!TakeIn(i)
    BY <2>1, <2>2, <2>4, <2>5, <2>6, <2>7 DEF Register!TakeIn
  <2> QED BY <2>8 DEF Register!Next, Done
<1>9. ASSUME NEW i \in Ingests, Answer(i) \/ UnlinkFails(i) PROVE Done
  <2>1. UNCHANGED <<sha, evidence, chain, vault>>
    BY <1>9 DEF Answer, UnlinkFails
  <2>2. CASE Goto(i, "committed", "done")
    <3>1. i \in evidence
      BY <1>0, <2>2 DEF CopyIsVerified, Goto
    <3> QED BY <1>d, <2>1, <2>2, <3>1
  <2>3. CASE Goto(i, "failed", "error")
    <3>1. i \notin evidence
      BY <1>a, <2>3 DEF Goto
    <3> QED BY <1>d, <2>1, <2>3, <3>1
  <2>4. CASE Goto(i, "received", "refused")
    <3>1. i \notin evidence
      BY <1>a, <2>4 DEF Goto
    <3> QED BY <1>d, <2>1, <2>4, <3>1
  <2> QED BY <1>9, <2>2, <2>3, <2>4 DEF Answer, UnlinkFails
<1>10. ASSUME NEW i \in Ingests, Crash(i) PROVE Done
  <2>1. /\ \E from \in Pc \ ({"new"} \cup End) : Goto(i, from, "crashed")
        /\ UNCHANGED <<sha, evidence, chain, vault>>
    BY <1>10 DEF Crash
  <2> QED BY <1>c, <2>1 DEF Pc, End
<1>11. ASSUME UNCHANGED vars PROVE Done
  <2>1. UNCHANGED <<sha, evidence, chain, vault, pc>>
    BY <1>11 DEF vars
  <2>2. \A k \in Ingests : Told(k)' = Told(k)
    BY <2>1 DEF Told
  <2> QED BY <2>1, <2>2, NothingSeen DEF Done
<1>12. ASSUME NEW i \in Ingests, HandlerNext(i) PROVE Done
  BY <1>2, <1>3, <1>4, <1>5, <1>6, <1>7, <1>8, <1>9, <1>12 DEF HandlerNext
<1>13. ASSUME NEW i \in Ingests, HandlerFaults(i) PROVE Done
  BY <1>5, <1>7, <1>9, <1>10, <1>13, <1>15 DEF HandlerFaults
<1>14. Done
  BY <1>1, <1>11, <1>12, <1>13 DEF Next
<1> QED BY <1>14 DEF Done

\* The first state has the invariant.
LEMMA RegisterStart == Init => RegisterInv /\ Register!Init
<1> SUFFICES ASSUME Init PROVE RegisterInv /\ Register!Init
  OBVIOUS
<1>1. IngestInv
  BY IngestStart
<1>2. Hashed /\ RowsLink
  BY DEF Init, Hashed, Verified, RowsLink, Pending
<1>3. \A k \in Ingests : Told(k) = "none" /\ k \notin evidence
  BY DEF Init, Told
<1>4. LastHash(chain) = <<>>
  BY DEF Init, LastHash
<1>5. sha = [k \in Ingests |-> NoFile]
  BY DEF Init
<1>6. Register!Init
  BY <1>3, <1>4, <1>5 DEF Register!Init
<1> QED BY <1>1, <1>2, <1>6 DEF RegisterInv

\* Every step keeps it.
LEMMA RegisterStays == RegisterInv /\ [Next]_vars => RegisterInv'
BY TypesStay, CopyStays, FilesStay, FaultlessStays, LoggedStays, RowsStay, FlightStays,
   HashedStays, LinksStay DEF RegisterInv, IngestInv

\* The vault with its tables implements the register of evidence while the custody
\* rows are a chain: for any number of requests, one step of each takes its evidence
\* in, as it was hashed, at the end of the history and for good, and what a client
\* is answered is so.
THEOREM IngestRefinesRegister == Spec => ImplementsRegister
<1>1. RegisterInv /\ [Next]_vars =>
        [SingleWriter \/ ~raced' => Register!Next \/ UNCHANGED Register!vars]_vars
  BY RegisterStep
<1> QED BY RegisterStart, RegisterStays, <1>1, PTL DEF Spec, ImplementsRegister

\* The last hash of the custody rows commits to the evidence in the database: to all
\* of it, each piece once.
HistoryIsEvidence ==
  SingleWriter \/ ~raced =>
    LET history == LastHash(chain)
    IN  /\ {history[k] : k \in 1..Len(history)} = evidence
        /\ \A j, k \in 1..Len(history) : history[j] = history[k] => j = k

\* What the register keeps is in its history, and a step adds to both or to neither.
LEMMA HistoryStays ==
  ASSUME RegisterInv, HistoryIsEvidence, [Next]_vars, SingleWriter' \/ ~raced'
  PROVE  HistoryIsEvidence'
<1>0. /\ TypeOK /\ CopyIsVerified /\ RowsInOrder /\ Hashed /\ OneInFlight
  BY DEF RegisterInv, IngestInv
<1> DEFINE h == LastHash(chain)
<1>1. engine' = engine /\ (raced => raced')
  <2>1. ASSUME NEW i \in Ingests, HandlerNext(i)
        PROVE  engine' = engine /\ (raced => raced')
    <3>1. engine' = engine
      BY <2>1 DEF HandlerNext, CheckImport, ReceiveUpload, CheckUploadCase, HashSource,
         CopyFile, VerifyCopy, AddRecord, ReadTail, WriteEntry, Commit, Answer, Goto, Raise
    <3>2. CASE AddRecord(i)
      <4>1. raced' = (raced \/ dbLock # {})
        BY <3>2 DEF AddRecord
      <4> QED BY <3>1, <4>1
    <3>3. ASSUME ~AddRecord(i) PROVE raced' = raced
      BY <2>1, <3>3 DEF HandlerNext, CheckImport, ReceiveUpload, CheckUploadCase, HashSource,
         CopyFile, VerifyCopy, ReadTail, WriteEntry, Commit, Answer, Raise, Rollback,
         sessionVars
    <3> QED BY <3>1, <3>2, <3>3
  <2>2. ASSUME NEW i \in Ingests, HandlerFaults(i)
        PROVE  engine' = engine /\ (raced => raced')
    <3>1. CASE CopyFails(i) \/ AppendFails(i) \/ DatabaseFails(i) \/ ReadFails(i)
      BY <3>1 DEF CopyFails, AppendFails, DatabaseFails, ReadFails, Goto, Raise, Rollback
    <3>2. CASE Crash(i)
      BY <3>2 DEF Crash, Goto, Rollback
    <3>3. CASE LookupFails(i) \/ UnlinkFails(i)
      <4>1. engine' = engine /\ UNCHANGED sessionVars
        BY <3>3 DEF LookupFails, UnlinkFails, Goto
      <4> QED BY <4>1 DEF sessionVars
    <3>4. ASSUME NEW c \in FileState, ReceiveFails(i, c)
          PROVE  engine' = engine /\ (raced => raced')
      <4>1. engine' = engine /\ UNCHANGED sessionVars
        BY <3>4 DEF ReceiveFails, Goto
      <4> QED BY <4>1 DEF sessionVars
    <3> QED BY <2>2, <3>1, <3>2, <3>3, <3>4 DEF HandlerFaults
  <2>3. (\E f \in Files, c \in FileState : ChangeSource(f, c)) \/ UNCHANGED vars =>
          engine' = engine /\ (raced => raced')
    BY DEF ChangeSource, vars, sessionVars
  <2> QED BY <2>1, <2>2, <2>3 DEF Next
<1>2. ~raced
  BY <1>0, <1>1 DEF SingleWriter, OneInFlight
<1>3. /\ {h[k] : k \in 1..Len(h)} = evidence
      /\ \A j, k \in 1..Len(h) : h[j] = h[k] => j = k
  BY <1>2 DEF HistoryIsEvidence
<1>4. CASE UNCHANGED <<chain, evidence>>
  BY <1>3, <1>4 DEF HistoryIsEvidence
<1>5. ASSUME NEW i \in Ingests, Commit(i) PROVE HistoryIsEvidence'
  <2>1. /\ evidence' = evidence \cup {i} /\ chain' = chain \cup {added[i]}
        /\ pc[i] = "commit" /\ i \in Pending
    BY <1>5 DEF Commit, Goto, Pending, dbVars
  <2>2. i \notin evidence
    BY <1>0, <2>1 DEF CopyIsVerified
  <2>3. /\ added[i] \in ChainRow /\ chain \in SUBSET ChainRow
        /\ added[i].prev_hash = h /\ \A r \in chain : r.ts < added[i].ts
    BY <1>0, <1>2, <2>1 DEF RowsInOrder, OneInFlight, TypeOK
  <2>4. LastHash(chain') = added[i].curr_hash
    BY <2>1, <2>3, LatestRow
  <2>5. added[i].curr_hash = Append(h, i)
    BY <2>1, <2>3 DEF RegisterInv, RowsLink
  <2>6. h \in Seq(Ingests) /\ Len(h) \in Nat
    BY <2>3, LenProperties DEF ChainRow
  <2> DEFINE g == LastHash(chain')
  <2>7. g = Append(h, i)
    BY <2>4, <2>5
  <2> HIDE DEF g, h
  <2>8. /\ Len(g) = Len(h) + 1 /\ g[Len(h) + 1] = i
        /\ \A k \in 1..Len(h) : g[k] = h[k]
    BY <2>6, <2>7, AppendProperties
  <2>9. {g[k] : k \in 1..Len(g)} = {h[k] : k \in 1..Len(h)} \cup {i}
    BY <2>6, <2>8
  <2>10. \A k \in 1..Len(h) : h[k] # i
    BY <1>3, <2>2
  <2>11. \A j, k \in 1..Len(g) : g[j] = g[k] => j = k
    BY <1>3, <2>6, <2>8, <2>10
  <2> QED BY <1>3, <2>1, <2>9, <2>11 DEF HistoryIsEvidence, g
<1>6. ASSUME NEW i \in Ingests, HandlerNext(i), ~Commit(i) PROVE UNCHANGED <<chain, evidence>>
  BY <1>6 DEF HandlerNext, CheckImport, ReceiveUpload, CheckUploadCase, HashSource, CopyFile,
     VerifyCopy, AddRecord, ReadTail, WriteEntry, Answer, dbVars
<1>7. ASSUME NEW i \in Ingests, HandlerFaults(i) PROVE UNCHANGED <<chain, evidence>>
  BY <1>7 DEF HandlerFaults, CopyFails, AppendFails, DatabaseFails, Crash, ReceiveFails,
     LookupFails, ReadFails, UnlinkFails, dbVars
<1>8. (\E f \in Files, c \in FileState : ChangeSource(f, c)) \/ UNCHANGED vars =>
        UNCHANGED <<chain, evidence>>
  BY DEF ChangeSource, vars, dbVars
<1> QED BY <1>4, <1>5, <1>6, <1>7, <1>8 DEF Next

\* While the custody rows are a chain, its last hash covers all the evidence of the
\* database, each piece once: nothing can be left out of it or counted twice.
THEOREM HistoryIsComplete == Spec => []HistoryIsEvidence
<1>1. Init => HistoryIsEvidence
  <2> SUFFICES ASSUME Init PROVE HistoryIsEvidence
    OBVIOUS
  <2>1. LastHash(chain) = <<>> /\ evidence = {} /\ 1..Len(<<>>) = {}
    BY EmptySeq DEF Init, LastHash
  <2> QED BY <2>1 DEF HistoryIsEvidence
<1>2. RegisterInv /\ HistoryIsEvidence /\ [Next]_vars => HistoryIsEvidence'
  <2>1. RegisterInv /\ HistoryIsEvidence /\ [Next]_vars /\ (SingleWriter' \/ ~raced') =>
          HistoryIsEvidence'
    BY HistoryStays
  <2>2. ~(SingleWriter' \/ ~raced') => HistoryIsEvidence'
    BY DEF HistoryIsEvidence
  <2> QED BY <2>1, <2>2
<1> QED BY RegisterStart, RegisterStays, <1>1, <1>2, PTL DEF Spec
=============================================================================
