------------------------- MODULE LabEvidence_proofs -------------------------
(***************************************************************************)
(* Proofs about LabEvidence, for any processes, labels, sources, contents, *)
(* commands and bounds:                                                    *)
(*                                                                         *)
(*   EvidenceTypeCorrect   Spec => []TypeOK                                *)
(*   EvidenceRefinesLab    Spec => Custody!LabSpec                         *)
(*   EvidenceOnNoFork      Spec => []Custody!EntriesExtendVerified         *)
(*   SoleClaimsAreIntact   Spec => []SoleClaimIsIntact                     *)
(*   SoleClaimsVerify      Spec => []SoleClaimVerifies                     *)
(*   LogAndRowsAgree       Spec => []LogAgrees                             *)
(***************************************************************************)
EXTENDS LabEvidence, SequenceTheorems, TLAPS

\* What is proved of LabCustody, for the log of the case.
File == INSTANCE Custody_proofs WITH Writers <- Procs, Bodies <- Events

\* Where the process of each kind of command can be.
Paths(p) ==
  /\ IsImport(p) => pc[p] \notin {"compare", "update"} /\ todo[p] = <<>>
  /\ req[p].cmd = "verify" =>
       pc[p] \in {"new", "compare", "update", "append", "appending", "record", "done",
                  "failed"}
  /\ pc[p] = "copy" => req[p].mode = "copy"

OnTheirPaths == \A p \in Procs : Paths(p)

\* A verify has a row in its hands until it is done with all.
VerifyHasRow ==
  \A p \in Procs :
    req[p].cmd = "verify"
      /\ pc[p] \in {"compare", "update", "append", "appending", "record"} =>
      todo[p] # <<>>

\* Nothing is hashed before its time.
NotHashedYet == \A p \in Procs : ~Hashed(p) => entries[p] = Nothing

\* A row says what its import was asked for and what it hashed.
RowsOfImports ==
  \A r \in Rows :
    /\ IsImport(r.by) /\ pc[r.by] \in {"append", "appending", "record", "done", "failed"}
    /\ r.kind = kind[req[r.by].cmd] /\ r.label = req[r.by].label
    /\ r.source = req[r.by].source /\ r.mode = req[r.by].mode
    /\ r.items = entries[r.by]

\* The same row, before and after a verify.
SameRow(r, q) ==
  /\ r.by = q.by /\ r.kind = q.kind /\ r.label = q.label
  /\ r.source = q.source /\ r.mode = q.mode /\ r.items = q.items

\* What a verify looks at are rows, but for the verdict in them.
TodoAreRows ==
  \A p \in Procs : \A n \in 1..Len(todo[p]) : \E r \in Rows : SameRow(r, todo[p][n])

\* Who fills a manifest has opened it.
ManifestOpened ==
  \A p \in Procs :
    IsImport(p) /\ pc[p] = "write" => manifest[req[p].label] \in Listing \cup {Garbled}

\* No other import has claimed the label.
Alone(p) == IsImport(p) /\ Claims(req[p].label) = {p}

\* Alone, an import finds its manifest as it left it,
HasRow(p) == \E r \in Rows : r.by = p
AloneInManifest ==
  \A p \in Procs :
    Alone(p) =>
      /\ pc[p] = "write" => manifest[req[p].label] = Nothing
      /\ pc[p] = "insert" \/ HasRow(p) => manifest[req[p].label] = entries[p]

\* and in the vault what it has hashed there.
AloneInVault ==
  \A p \in Procs :
    Alone(p) /\ req[p].mode = "copy" => Matches(entries[p], OwnDir(p))

\* What was hashed outside the case has not changed unseen.
SourceWatched ==
  \A p \in Procs :
    IsImport(p) /\ req[p].mode = "reference" /\ p \notin moved =>
      Matches(entries[p], Only(req[p].source, src))

\* A verdict that is still to be stored.
VerdictIsDue ==
  \A p \in Procs :
    req[p].cmd = "verify" /\ pc[p] = "update" /\ ~verdict[p] =>
      LET r == Head(todo[p])
      IN  Claims(r.label) = {r.by} => r.mode = "reference" /\ r.by \in moved

\* Who records an action has logged it, or a torn line hides it.
WritersHaveLogged == \A p \in Procs : pc[p] = "record" => Logged(Event(p)) \/ torn

\* So has an import that is done; one that gave up on its log had cause.
ImportsHaveLogged ==
  \A r \in Rows :
    /\ pc[r.by] = "done" => Logged([by |-> r.by, label |-> r.label]) \/ torn
    /\ pc[r.by] = "failed" => faults # 0 \/ ~Custody!verify_chain(log)

ActionsAreLogged == ~torn => \A e \in actions : Logged(e)

\* Only a fault tears a line.
Faultless == faults = 0 => ~torn

EvidenceInv ==
  /\ TypeOK /\ OnTheirPaths /\ VerifyHasRow /\ NotHashedYet /\ RowsOfImports
  /\ TodoAreRows /\ ManifestOpened /\ AloneInManifest /\ AloneInVault /\ SourceWatched
  /\ VerdictIsDue /\ SoleClaimVerifies /\ WritersHaveLogged /\ ImportsHaveLogged
  /\ ActionsAreLogged /\ Faultless

-----------------------------------------------------------------------------
\* Both instances of LabCustody are one.
LEMMA SameFile ==
  /\ Custody!TypeOK <=> File!TypeOK
  /\ Custody!Init <=> File!Init
  /\ Custody!LabNext <=> File!LabNext
  /\ Custody!vars = File!vars
  /\ Custody!EntriesExtendVerified <=> File!EntriesExtendVerified
  /\ \A p, b : Custody!WriteEntry(p, b) <=> File!WriteEntry(p, b)
  /\ Custody!verify_chain(log) <=> File!verify_chain(log)
BY DEF Custody!TypeOK, File!TypeOK, Custody!Init, File!Init, Custody!LabNext,
  File!LabNext, Custody!vars, File!vars, Custody!EntriesExtendVerified,
  File!EntriesExtendVerified, Custody!Prefix, File!Prefix, Custody!read_and_verify,
  File!read_and_verify, Custody!ReadTail, File!ReadTail, Custody!WriteEntry,
  File!WriteEntry, Custody!AbandonAppend, File!AbandonAppend, Custody!TearLine,
  File!TearLine, Custody!PowerLoss, File!PowerLoss, Custody!EndAppend, File!EndAppend,
  Custody!NewEntry, File!NewEntry, Custody!last_entry_hash, File!last_entry_hash,
  Custody!compute_entry_hash, File!compute_entry_hash,
  Custody!GENESIS_HASH, File!GENESIS_HASH, Custody!CustodyEntry, File!CustodyEntry,
  Custody!Hashes, File!Hashes, Custody!verify_chain, File!verify_chain

LEMMA SameTypes == Custody!TypeOK' <=> File!TypeOK'
BY DEF Custody!TypeOK, File!TypeOK, Custody!CustodyEntry, File!CustodyEntry,
  Custody!Hashes, File!Hashes, Custody!GENESIS_HASH, File!GENESIS_HASH

LEMMA SameVerdict == Custody!verify_chain(log)' <=> File!verify_chain(log)'
BY DEF Custody!verify_chain, File!verify_chain, Custody!last_entry_hash,
  File!last_entry_hash, Custody!compute_entry_hash, File!compute_entry_hash,
  Custody!GENESIS_HASH, File!GENESIS_HASH

\* The commands stay, and have the fields of their kind.
LEMMA RequestFields ==
  ASSUME TypeOK, NEW p \in Procs
  PROVE  /\ req[p].cmd \in {"ingest", "import_image", "verify"}
         /\ IsImport(p) <=> req[p].cmd # "verify"
         /\ IsImport(p) =>
              /\ req[p].label \in Labels /\ req[p].source \in Sources
              /\ req[p].mode \in {"copy", "reference"}
              /\ kind[req[p].cmd] \in Kinds
<1>1. req[p] \in Request
  BY RequestsAssumption DEF TypeOK
<1>2. req[p].cmd \in {"ingest", "import_image", "verify"}
  BY <1>1 DEF Request
<1>3. IsImport(p) <=> req[p].cmd # "verify"
  BY <1>2 DEF IsImport
<1>4. ASSUME IsImport(p)
      PROVE  /\ req[p].label \in Labels /\ req[p].source \in Sources
             /\ req[p].mode \in {"copy", "reference"}
  BY <1>1, <1>4 DEF Request, IsImport
<1>5. kind["ingest"] = "files" /\ kind["import_image"] = "image"
  BY DEF kind
<1>6. IsImport(p) => kind[req[p].cmd] \in Kinds
  BY <1>5 DEF IsImport, Kinds
<1> QED BY <1>2, <1>3, <1>4, <1>6

\* Who is at its log has something to log.
LEMMA EventType ==
  ASSUME TypeOK, VerifyHasRow, NEW p \in Procs,
         pc[p] \in {"append", "appending", "record"}
  PROVE  Event(p) \in Events
<1>1. CASE req[p].cmd = "verify"
  <2>1. todo[p] \in Seq(Evidence) /\ todo[p] # <<>>
    BY <1>1 DEF TypeOK, VerifyHasRow
  <2>2. Head(todo[p]) \in Evidence
    BY <2>1, HeadTailProperties
  <2>3. Head(todo[p]).label \in Labels
    BY <2>2 DEF Evidence
  <2> QED BY <1>1, <2>3 DEF Event, Events
<1>2. CASE req[p].cmd # "verify"
  <2>1. req[p].label \in Labels
    BY <1>2, RequestFields
  <2> QED BY <1>2, <2>1 DEF Event, Events
<1> QED BY <1>1, <1>2

\* Each step of a process is a step of the log, or leaves the log alone.
LEMMA StepOfLog == TypeOK /\ VerifyHasRow /\ [Next]_vars => [Custody!LabNext]_Custody!vars
<1> SUFFICES ASSUME TypeOK, VerifyHasRow, [Next]_vars
             PROVE  [Custody!LabNext]_Custody!vars
  OBVIOUS
<1> USE DEF custodyVars, Custody!vars
<1>1. ASSUME NEW p \in Procs, ReadLog(p) PROVE [Custody!LabNext]_Custody!vars
  BY <1>1 DEF ReadLog, Custody!LabNext
<1>2. ASSUME NEW p \in Procs, WriteEntry(p) PROVE [Custody!LabNext]_Custody!vars
  <2>1. Event(p) \in Events
    BY <1>2, EventType DEF WriteEntry, Goto
  <2> QED BY <1>2, <2>1 DEF WriteEntry, Custody!LabNext
<1>3. ASSUME NEW p \in Procs, AppendFails(p) PROVE [Custody!LabNext]_Custody!vars
  BY <1>3 DEF AppendFails, Custody!LabNext
<1>4. ASSUME NEW p \in Procs, Crash(p) PROVE [Custody!LabNext]_Custody!vars
  BY <1>4 DEF Crash, Custody!LabNext
<1>5. CASE UNCHANGED custodyVars
  BY <1>5
<1> QED
  BY <1>1, <1>2, <1>3, <1>4, <1>5
  DEF Next, ProcNext, ProcFaults, vars, ChangeSource, CheckImport, CopySource,
      HashEvidence, OpenManifest, WriteManifest, InsertEvidence, SelectRows,
      CompareManifest, UpdateRow, RecordAction, CopyFails, ManifestFails

\* The faults are counted.
Faulted == faults' \in 1..MaxFaults

LEMMA FaultsCount ==
  /\ TypeOK /\ Fault => Faulted
  /\ Faulted => faults' # 0 /\ faults' \in 0..MaxFaults
<1>1. TypeOK => faults \in 0..MaxFaults
  BY DEF TypeOK
<1> QED BY <1>1, BoundsAssumption DEF Fault, Faulted

\* A log that stays has the same entries in it.
LEMMA LogStays ==
  ASSUME log' = log
  PROVE  \A e : Logged(e)' <=> Logged(e)
BY DEF Logged

\* An append adds its entry to those in the log, or a torn line hides it; it does not
\* make a log verify.
LEMMA LogGrows ==
  ASSUME TypeOK, VerifyHasRow, NEW p \in Procs, WriteEntry(p)
  PROVE  /\ torn' = torn
         /\ ~torn => \A e : e = Event(p) => Logged(e)'
         /\ \A e : Logged(e) => Logged(e)'
         /\ Custody!verify_chain(log)' => Custody!verify_chain(log)
<1>1. Event(p) \in Events
  BY EventType DEF WriteEntry, Goto
<1>2. PICK b : b \in Events /\ b = Event(p)
  BY <1>1
<1>3. File!TypeOK /\ File!WriteEntry(p, b)
  BY <1>2, SameFile DEF WriteEntry, TypeOK
<1>4. \A e : (Logged(e) <=> File!InFile(e)) /\ (Logged(e)' <=> File!InFile(e)')
  BY DEF Logged, File!InFile
<1>5. /\ torn' = torn
      /\ ~torn => File!InFile(b)'
      /\ \A e : File!InFile(e) => File!InFile(e)'
  BY <1>2, <1>3, File!FileGrows, BoundsAssumption
<1>6. File!verify_chain(log)' => File!verify_chain(log)
  BY <1>2, <1>3, File!AppendMendsNothing, BoundsAssumption
<1>7. ~torn => Logged(b)'
  BY <1>4, <1>5
<1>8. ~torn => \A e : e = Event(p) => Logged(e)'
  BY <1>2, <1>7
<1> QED BY <1>4, <1>5, <1>6, <1>8, SameFile, SameVerdict

-----------------------------------------------------------------------------
\* One lemma for each part of the invariant.

\* Nobody leaves its path.
LEMMA PathsKept == EvidenceInv /\ [Next]_vars => OnTheirPaths'
<1> SUFFICES ASSUME EvidenceInv, [Next]_vars PROVE OnTheirPaths'
  OBVIOUS
<1>0. /\ pc \in [Procs -> Pc] /\ todo \in [Procs -> Seq(Evidence)]
      /\ \A q \in Procs : Paths(q)
  BY DEF EvidenceInv, TypeOK, OnTheirPaths
<1>r. \A q \in Procs : req[q].cmd \in {"ingest", "import_image", "verify"}
  BY RequestFields DEF EvidenceInv
<1> USE DEF OnTheirPaths, Paths, IsImport, worldVars, diskVars, dbVars, localVars,
    custodyVars
<1>1. ASSUME NEW p \in Procs, CheckImport(p) PROVE OnTheirPaths'
  BY <1>1, <1>0, <1>r DEF CheckImport, Goto
<1>2. ASSUME NEW p \in Procs, CopySource(p) PROVE OnTheirPaths'
  BY <1>2, <1>0, <1>r DEF CopySource, Goto
<1>3. ASSUME NEW p \in Procs, HashEvidence(p) PROVE OnTheirPaths'
  BY <1>3, <1>0, <1>r DEF HashEvidence, Goto
<1>4. ASSUME NEW p \in Procs, OpenManifest(p) PROVE OnTheirPaths'
  BY <1>4, <1>0, <1>r DEF OpenManifest, Goto
<1>5. ASSUME NEW p \in Procs, WriteManifest(p) PROVE OnTheirPaths'
  BY <1>5, <1>0, <1>r DEF WriteManifest, Goto
<1>6. ASSUME NEW p \in Procs, InsertEvidence(p) PROVE OnTheirPaths'
  BY <1>6, <1>0, <1>r DEF InsertEvidence, Goto
<1>7. ASSUME NEW p \in Procs, SelectRows(p) PROVE OnTheirPaths'
  BY <1>7, <1>0, <1>r DEF SelectRows, Goto
<1>8. ASSUME NEW p \in Procs, CompareManifest(p) PROVE OnTheirPaths'
  BY <1>8, <1>0, <1>r DEF CompareManifest, Goto
<1>9. ASSUME NEW p \in Procs, UpdateRow(p) PROVE OnTheirPaths'
  BY <1>9, <1>0, <1>r DEF UpdateRow, Goto
<1>10. ASSUME NEW p \in Procs, ReadLog(p) PROVE OnTheirPaths'
  BY <1>10, <1>0, <1>r DEF ReadLog, Goto
<1>11. ASSUME NEW p \in Procs, WriteEntry(p) PROVE OnTheirPaths'
  BY <1>11, <1>0, <1>r DEF WriteEntry, Goto
<1>12. ASSUME NEW p \in Procs, RecordAction(p) PROVE OnTheirPaths'
  BY <1>12, <1>0, <1>r DEF RecordAction, Goto
<1>13. ASSUME NEW p \in Procs, CopyFails(p) PROVE OnTheirPaths'
  BY <1>13, <1>0, <1>r DEF CopyFails, Fault, Goto
<1>14. ASSUME NEW p \in Procs, ManifestFails(p) PROVE OnTheirPaths'
  BY <1>14, <1>0, <1>r DEF ManifestFails, Fault, Goto
<1>15. ASSUME NEW p \in Procs, AppendFails(p) PROVE OnTheirPaths'
  BY <1>15, <1>0, <1>r DEF AppendFails, Fault, Goto
<1>16. ASSUME NEW p \in Procs, Crash(p) PROVE OnTheirPaths'
  BY <1>16, <1>0, <1>r DEF Crash, Fault, Goto, Pc, End
<1>17. ASSUME NEW s \in Sources, NEW c \in Contents \cup {NoFile}, ChangeSource(s,
            c)
     PROVE OnTheirPaths'
  BY <1>17, <1>0, <1>r DEF ChangeSource
<1>18. CASE UNCHANGED vars
  BY <1>18, <1>0, <1>r DEF vars
<1> QED BY <1>1, <1>2, <1>3, <1>4, <1>5, <1>6, <1>7, <1>8, <1>9, <1>10, <1>11,
     <1>12, <1>13, <1>14, <1>15, <1>16, <1>17, <1>18 DEF Next, ProcNext, ProcFaults

\* A verify goes on while it has rows.
LEMMA VerifyHasRowKept == EvidenceInv /\ [Next]_vars => VerifyHasRow'
<1> SUFFICES ASSUME EvidenceInv, [Next]_vars PROVE VerifyHasRow'
  OBVIOUS
<1>0. /\ pc \in [Procs -> Pc] /\ todo \in [Procs -> Seq(Evidence)]
      /\ \A q \in Procs : Paths(q)
  BY DEF EvidenceInv, TypeOK, OnTheirPaths
<1>r. \A q \in Procs : req[q].cmd \in {"ingest", "import_image", "verify"}
  BY RequestFields DEF EvidenceInv
<1>v. VerifyHasRow
  BY DEF EvidenceInv
<1> USE DEF VerifyHasRow, Paths, IsImport, worldVars, diskVars, dbVars, localVars,
    custodyVars
<1>1. ASSUME NEW p \in Procs, CheckImport(p) PROVE VerifyHasRow'
  BY <1>1, <1>0, <1>r, <1>v DEF CheckImport, Goto
<1>2. ASSUME NEW p \in Procs, CopySource(p) PROVE VerifyHasRow'
  BY <1>2, <1>0, <1>r, <1>v DEF CopySource, Goto
<1>3. ASSUME NEW p \in Procs, HashEvidence(p) PROVE VerifyHasRow'
  BY <1>3, <1>0, <1>r, <1>v DEF HashEvidence, Goto
<1>4. ASSUME NEW p \in Procs, OpenManifest(p) PROVE VerifyHasRow'
  BY <1>4, <1>0, <1>r, <1>v DEF OpenManifest, Goto
<1>5. ASSUME NEW p \in Procs, WriteManifest(p) PROVE VerifyHasRow'
  BY <1>5, <1>0, <1>r, <1>v DEF WriteManifest, Goto
<1>6. ASSUME NEW p \in Procs, InsertEvidence(p) PROVE VerifyHasRow'
  BY <1>6, <1>0, <1>r, <1>v DEF InsertEvidence, Goto
<1>7. ASSUME NEW p \in Procs, SelectRows(p) PROVE VerifyHasRow'
  BY <1>7, <1>0, <1>r, <1>v DEF SelectRows, Goto
<1>8. ASSUME NEW p \in Procs, CompareManifest(p) PROVE VerifyHasRow'
  BY <1>8, <1>0, <1>r, <1>v DEF CompareManifest, Goto
<1>9. ASSUME NEW p \in Procs, UpdateRow(p) PROVE VerifyHasRow'
  BY <1>9, <1>0, <1>r, <1>v DEF UpdateRow, Goto
<1>10. ASSUME NEW p \in Procs, ReadLog(p) PROVE VerifyHasRow'
  BY <1>10, <1>0, <1>r, <1>v DEF ReadLog, Goto
<1>11. ASSUME NEW p \in Procs, WriteEntry(p) PROVE VerifyHasRow'
  BY <1>11, <1>0, <1>r, <1>v DEF WriteEntry, Goto
<1>12. ASSUME NEW p \in Procs, RecordAction(p) PROVE VerifyHasRow'
  BY <1>12, <1>0, <1>r, <1>v DEF RecordAction, Goto
<1>13. ASSUME NEW p \in Procs, CopyFails(p) PROVE VerifyHasRow'
  BY <1>13, <1>0, <1>r, <1>v DEF CopyFails, Fault, Goto
<1>14. ASSUME NEW p \in Procs, ManifestFails(p) PROVE VerifyHasRow'
  BY <1>14, <1>0, <1>r, <1>v DEF ManifestFails, Fault, Goto
<1>15. ASSUME NEW p \in Procs, AppendFails(p) PROVE VerifyHasRow'
  BY <1>15, <1>0, <1>r, <1>v DEF AppendFails, Fault, Goto
<1>16. ASSUME NEW p \in Procs, Crash(p) PROVE VerifyHasRow'
  BY <1>16, <1>0, <1>r, <1>v DEF Crash, Fault, Goto, Pc, End
<1>17. ASSUME NEW s \in Sources, NEW c \in Contents \cup {NoFile}, ChangeSource(s,
            c)
     PROVE VerifyHasRow'
  BY <1>17, <1>0, <1>r, <1>v DEF ChangeSource
<1>18. CASE UNCHANGED vars
  BY <1>18, <1>0, <1>r, <1>v DEF vars
<1> QED BY <1>1, <1>2, <1>3, <1>4, <1>5, <1>6, <1>7, <1>8, <1>9, <1>10, <1>11,
     <1>12, <1>13, <1>14, <1>15, <1>16, <1>17, <1>18 DEF Next, ProcNext, ProcFaults

\* The log, and who is at it.
LEMMA LogTypes == EvidenceInv /\ [Next]_vars => Custody!TypeOK'
<1> SUFFICES ASSUME EvidenceInv, [Next]_vars PROVE Custody!TypeOK'
  OBVIOUS
<1>1. File!TypeOK /\ TypeOK
  BY SameFile DEF EvidenceInv, TypeOK
<1>2. [File!LabNext]_File!vars
  BY StepOfLog, SameFile DEF EvidenceInv, Custody!vars, File!vars
<1>3. [File!Next]_File!vars
  BY <1>2, File!LabStep, BoundsAssumption
<1> QED BY <1>1, <1>3, File!TypeStep, SameTypes, BoundsAssumption

Appenders == \A p \in Procs : p \in appending <=> pc[p] = "appending"

\* Who is inside append_entry.
LEMMA AppendersKept == EvidenceInv /\ [Next]_vars => Appenders'
<1> SUFFICES ASSUME EvidenceInv, [Next]_vars PROVE Appenders'
  OBVIOUS
<1>0. /\ pc \in [Procs -> Pc] /\ todo \in [Procs -> Seq(Evidence)]
      /\ \A q \in Procs : Paths(q)
  BY DEF EvidenceInv, TypeOK, OnTheirPaths
<1>r. \A q \in Procs : req[q].cmd \in {"ingest", "import_image", "verify"}
  BY RequestFields DEF EvidenceInv
<1>00. Appenders /\ appending \subseteq Procs
  BY DEF EvidenceInv, TypeOK, Appenders, Custody!TypeOK
<1> USE DEF Appenders, custodyVars
<1>1. ASSUME NEW p \in Procs, CheckImport(p) PROVE Appenders'
  BY <1>1, <1>0, <1>00 DEF CheckImport, Goto
<1>2. ASSUME NEW p \in Procs, CopySource(p) PROVE Appenders'
  BY <1>2, <1>0, <1>00 DEF CopySource, Goto
<1>3. ASSUME NEW p \in Procs, HashEvidence(p) PROVE Appenders'
  BY <1>3, <1>0, <1>00 DEF HashEvidence, Goto
<1>4. ASSUME NEW p \in Procs, OpenManifest(p) PROVE Appenders'
  BY <1>4, <1>0, <1>00 DEF OpenManifest, Goto
<1>5. ASSUME NEW p \in Procs, WriteManifest(p) PROVE Appenders'
  BY <1>5, <1>0, <1>00 DEF WriteManifest, Goto
<1>6. ASSUME NEW p \in Procs, InsertEvidence(p) PROVE Appenders'
  BY <1>6, <1>0, <1>00 DEF InsertEvidence, Goto
<1>7. ASSUME NEW p \in Procs, SelectRows(p) PROVE Appenders'
  BY <1>7, <1>0, <1>00 DEF SelectRows, Goto
<1>8. ASSUME NEW p \in Procs, CompareManifest(p) PROVE Appenders'
  BY <1>8, <1>0, <1>00 DEF CompareManifest, Goto
<1>9. ASSUME NEW p \in Procs, UpdateRow(p) PROVE Appenders'
  BY <1>9, <1>0, <1>00 DEF UpdateRow, Goto
<1>10. ASSUME NEW p \in Procs, ReadLog(p) PROVE Appenders'
  BY <1>10, <1>0, <1>00 DEF ReadLog, Goto, Custody!read_and_verify, Custody!ReadTail
<1>11. ASSUME NEW p \in Procs, WriteEntry(p) PROVE Appenders'
  BY <1>11, <1>0, <1>00 DEF WriteEntry, Goto, Custody!WriteEntry, Custody!EndAppend
<1>12. ASSUME NEW p \in Procs, RecordAction(p) PROVE Appenders'
  BY <1>12, <1>0, <1>00 DEF RecordAction, Goto
<1>13. ASSUME NEW p \in Procs, CopyFails(p) PROVE Appenders'
  BY <1>13, <1>0, <1>00 DEF CopyFails, Fault, Goto
<1>14. ASSUME NEW p \in Procs, ManifestFails(p) PROVE Appenders'
  BY <1>14, <1>0, <1>00 DEF ManifestFails, Fault, Goto
<1>15. ASSUME NEW p \in Procs, AppendFails(p) PROVE Appenders'
  BY <1>15, <1>0, <1>00 DEF AppendFails, Fault, Goto, Custody!AbandonAppend,
      Custody!TearLine, Custody!EndAppend
<1>16. ASSUME NEW p \in Procs, Crash(p) PROVE Appenders'
  BY <1>16, <1>0, <1>00 DEF Crash, Fault, Goto, Custody!AbandonAppend,
      Custody!EndAppend, Pc, End
<1>17. ASSUME NEW s \in Sources, NEW c \in Contents \cup {NoFile}, ChangeSource(s,
            c)
     PROVE Appenders'
  BY <1>17, <1>0, <1>00 DEF ChangeSource
<1>18. CASE UNCHANGED vars
  BY <1>18, <1>0, <1>00 DEF vars
<1> QED BY <1>1, <1>2, <1>3, <1>4, <1>5, <1>6, <1>7, <1>8, <1>9, <1>10, <1>11,
     <1>12, <1>13, <1>14, <1>15, <1>16, <1>17, <1>18 DEF Next, ProcNext, ProcFaults

\* What is hashed is a listing, and so is what stays of a manifest.
LEMMA ListingsAre ==
  ASSUME TypeOK
  PROVE  /\ Nothing \in Listing
         /\ \A s \in Sources, f \in Listing : Only(s, f) \in Listing
         /\ \A k \in Kinds, l \in Labels : vault[k][l] \in Listing
         /\ src \in Listing
BY DEF TypeOK, Nothing, Listing, Only

LEMMA HashingIs ==
  ASSUME TypeOK, NEW p \in Procs, IsImport(p)
  PROVE  OwnDir(p) \in Listing /\ Hashing(p) \in Listing
<1>1. OwnDir(p) \in Listing
  BY RequestFields, ListingsAre DEF OwnDir
<1> QED BY <1>1, RequestFields, ListingsAre DEF Hashing

LEMMA OverIs ==
  ASSUME NEW new \in Listing, NEW old \in Listing \cup {Garbled}, NEW m \in Over(new, old)
  PROVE  /\ m \in Listing \cup {Garbled}
         /\ old = Nothing => m = new
<1>1. CASE old = Nothing
  BY <1>1 DEF Over
<1>2. CASE old # Nothing /\ old = Garbled
  BY <1>2 DEF Over
<1>3. CASE old # Nothing /\ old # Garbled
  <2>1. \/ m = new \/ m = Garbled
        \/ m = [s \in Sources |-> IF new[s] = NoFile THEN old[s] ELSE new[s]]
    BY <1>3 DEF Over
  <2>2. old \in Listing
    BY <1>3
  <2> QED BY <1>3, <2>1, <2>2 DEF Listing
<1> QED BY <1>1, <1>2, <1>3

-----------------------------------------------------------------------------
\* Rows that stay, a row that is inserted, and rows whose verdict is updated.
LEMMA RowsStay ==
  ASSUME evidence' = evidence
  PROVE  Rows' = Rows
BY DEF Rows

LEMMA RowsAre ==
  ASSUME TypeOK
  PROVE  /\ Rows \subseteq Evidence
         /\ \A r, q \in Rows : r.label = q.label => r = q
<1>1. evidence \in Seq(Evidence) /\ Len(evidence) \in Nat
  BY LenProperties DEF TypeOK
<1>2. \A n \in 1..Len(evidence) : evidence[n] \in Evidence
  BY <1>1, ElementOfSeq
<1> QED BY <1>2 DEF TypeOK, Rows

UniqueLabels ==
  \A m, n \in 1..Len(evidence) : evidence[m].label = evidence[n].label => m = n
RowTypes == evidence \in Seq(Evidence) /\ UniqueLabels

LEMMA RowInserted ==
  ASSUME RowTypes, NEW r \in Evidence, \A q \in Rows : q.label # r.label,
         evidence' = Append(evidence, r)
  PROVE  Rows' = Rows \cup {r} /\ RowTypes'
<1>1. evidence \in Seq(Evidence) /\ Len(evidence) \in Nat
  BY LenProperties DEF RowTypes
<1>2. /\ evidence' \in Seq(Evidence) /\ Len(evidence') = Len(evidence) + 1
      /\ \A n \in 1..Len(evidence) : evidence'[n] = evidence[n]
      /\ evidence'[Len(evidence) + 1] = r
  BY <1>1, AppendProperties
<1>3. \A n \in 1..Len(evidence') : n \in 1..Len(evidence) \/ n = Len(evidence) + 1
  BY <1>1, <1>2
<1>4. \A n \in 1..Len(evidence) : n \in 1..Len(evidence')
  BY <1>1, <1>2
<1>5. Len(evidence) + 1 \in 1..Len(evidence')
  BY <1>1, <1>2
<1>6. Rows' = Rows \cup {r}
  <2>1. Rows' \subseteq Rows \cup {r}
    BY <1>2, <1>3 DEF Rows
  <2>2. Rows \subseteq Rows'
    BY <1>2, <1>4 DEF Rows
  <2>3. r \in Rows'
    BY <1>2, <1>5 DEF Rows
  <2> QED BY <2>1, <2>2, <2>3
<1>7. \A n \in 1..Len(evidence) : evidence[n].label # r.label
  BY DEF Rows
<1>8. UniqueLabels'
  BY <1>2, <1>3, <1>7 DEF RowTypes, UniqueLabels
<1> QED BY <1>2, <1>6, <1>8 DEF RowTypes

\* A row as it is after UpdateRow.
Updated(p, r) ==
  IF r.label = Head(todo[p]).label
  THEN [r EXCEPT !.last_verify_ok = IF verdict[p] THEN "yes" ELSE "no"] ELSE r

LEMMA RowsUpdated ==
  ASSUME TypeOK, NEW p \in Procs, UpdateRow(p)
  PROVE  Rows' = {Updated(p, r) : r \in Rows} /\ RowTypes'
<1>1. /\ evidence \in Seq(Evidence) /\ Len(evidence) \in Nat
      /\ \A n \in 1..Len(evidence) : evidence[n] \in Evidence
  BY LenProperties, ElementOfSeq DEF TypeOK
<1>2. evidence' = [n \in 1..Len(evidence) |-> Updated(p, evidence[n])]
  BY DEF UpdateRow, Updated
<1>3. \A r \in Evidence : Updated(p, r) \in Evidence /\ Updated(p, r).label = r.label
  BY DEF Updated, Evidence
<1>4. evidence' \in Seq(Evidence)
  <2>1. evidence' \in [1..Len(evidence) -> Evidence]
    BY <1>1, <1>2, <1>3
  <2> QED BY <1>1, <2>1, SeqDef
<1>5. Len(evidence') = Len(evidence)
  BY <1>1, <1>2, <1>4, LenProperties
<1>6. \A n \in 1..Len(evidence) : evidence'[n] = Updated(p, evidence[n])
  BY <1>2
<1>7. Rows' = {Updated(p, r) : r \in Rows}
  <2>1. ASSUME NEW q \in Rows' PROVE q \in {Updated(p, r) : r \in Rows}
    <3>1. PICK n \in 1..Len(evidence) : q = Updated(p, evidence[n])
      BY <1>5, <1>6 DEF Rows
    <3>2. evidence[n] \in Rows
      BY DEF Rows
    <3> QED BY <3>1, <3>2
  <2>2. ASSUME NEW r \in Rows PROVE Updated(p, r) \in Rows'
    <3>1. PICK n \in 1..Len(evidence) : r = evidence[n]
      BY DEF Rows
    <3>2. evidence'[n] \in Rows'
      BY <1>5 DEF Rows
    <3> QED BY <1>6, <3>1, <3>2
  <2> QED BY <2>1, <2>2
<1>8. UniqueLabels'
  BY <1>1, <1>3, <1>5, <1>6 DEF TypeOK, UniqueLabels
<1> QED BY <1>4, <1>7, <1>8 DEF RowTypes

\* The row of an import.
LEMMA NewRowInserted ==
  ASSUME EvidenceInv, NEW p \in Procs, InsertEvidence(p), ~Labelled(req[p].label)
  PROVE  /\ Rows' = Rows \cup {NewRow(p)} /\ RowTypes'
         /\ NewRow(p).by = p /\ NewRow(p).kind = kind[req[p].cmd]
         /\ NewRow(p).label = req[p].label /\ NewRow(p).source = req[p].source
         /\ NewRow(p).mode = req[p].mode /\ NewRow(p).items = entries[p]
         /\ NewRow(p).last_verify_ok = "null"
         /\ IsImport(p)
<1>1. TypeOK /\ OnTheirPaths /\ pc[p] = "insert"
  BY DEF EvidenceInv, InsertEvidence, Goto
<1>2. IsImport(p)
  BY <1>1, RequestFields DEF OnTheirPaths, Paths
<1>3. entries[p] \in Listing
  BY <1>1 DEF TypeOK
<1> DEFINE r == NewRow(p)
<1>4. /\ r.by = p /\ r.kind = kind[req[p].cmd] /\ r.label = req[p].label
      /\ r.source = req[p].source /\ r.mode = req[p].mode /\ r.items = entries[p]
      /\ r.last_verify_ok = "null"
  BY DEF NewRow
<1>5. r \in Evidence
  BY <1>1, <1>2, <1>3, RequestFields DEF NewRow, Evidence
<1>6. evidence' = Append(evidence, r)
  BY DEF InsertEvidence
<1>7. \A q \in Rows : q.label # r.label
  BY <1>4 DEF Labelled
<1>8. RowTypes
  BY <1>1 DEF TypeOK, RowTypes, UniqueLabels
<1>9. PICK q : q = r
  OBVIOUS
<1> HIDE DEF r
<1>10. Rows' = Rows \cup {q} /\ RowTypes'
  BY <1>5, <1>6, <1>7, <1>8, <1>9, RowInserted
<1> QED BY <1>2, <1>4, <1>9, <1>10 DEF r

\* What becomes of the rows in a step.
LEMMA RowsGrow ==
  ASSUME EvidenceInv, [Next]_vars
  PROVE  \A r \in Rows : \E q \in Rows' : SameRow(q, r)
<1>1. CASE evidence' = evidence
  BY <1>1, RowsStay DEF SameRow
<1>2. ASSUME NEW p \in Procs, InsertEvidence(p), ~Labelled(req[p].label)
      PROVE  \A r \in Rows : \E q \in Rows' : SameRow(q, r)
  <2>1. Rows' = Rows \cup {NewRow(p)}
    BY <1>2, NewRowInserted
  <2> QED BY <2>1 DEF SameRow
<1>3. ASSUME NEW p \in Procs, UpdateRow(p)
      PROVE  \A r \in Rows : \E q \in Rows' : SameRow(q, r)
  <2>1. TypeOK /\ Rows' = {Updated(p, r) : r \in Rows}
    BY <1>3, RowsUpdated DEF EvidenceInv
  <2>2. \A r \in Rows : SameRow(Updated(p, r), r)
    BY <2>1, RowsAre DEF SameRow, Updated, Evidence
  <2> QED BY <2>1, <2>2
<1>4. ASSUME NEW p \in Procs, InsertEvidence(p), Labelled(req[p].label)
      PROVE  evidence' = evidence
  BY <1>4 DEF InsertEvidence
<1> QED
  BY <1>1, <1>2, <1>3, <1>4
  DEF Next, ProcNext, ProcFaults, vars, dbVars, ChangeSource, CheckImport, CopySource,
      HashEvidence, OpenManifest, WriteManifest, SelectRows, CompareManifest, ReadLog,
      WriteEntry, RecordAction, CopyFails, ManifestFails, AppendFails, Crash

-----------------------------------------------------------------------------
\* The type invariant, part by part.
CommandTypes ==
  /\ req \in [Procs -> Requests]
  /\ pc \in [Procs -> Pc]
  /\ verdict \in [Procs -> BOOLEAN]
  /\ moved \subseteq Procs
  /\ faults \in 0..MaxFaults

\* Commands stay, and are where they can be.
LEMMA CommandTypesKept == EvidenceInv /\ [Next]_vars => CommandTypes'
<1> SUFFICES ASSUME EvidenceInv, [Next]_vars PROVE CommandTypes'
  OBVIOUS
<1>0. CommandTypes /\ TypeOK
  BY DEF EvidenceInv, TypeOK, CommandTypes
<1> USE DEF CommandTypes, Pc, End, worldVars, localVars
<1>1. ASSUME NEW p \in Procs, CheckImport(p) PROVE CommandTypes'
  BY <1>1, <1>0 DEF CheckImport, Goto
<1>2. ASSUME NEW p \in Procs, CopySource(p) PROVE CommandTypes'
  BY <1>2, <1>0 DEF CopySource, Goto
<1>3. ASSUME NEW p \in Procs, HashEvidence(p) PROVE CommandTypes'
  BY <1>3, <1>0 DEF HashEvidence, Goto
<1>4. ASSUME NEW p \in Procs, OpenManifest(p) PROVE CommandTypes'
  BY <1>4, <1>0 DEF OpenManifest, Goto
<1>5. ASSUME NEW p \in Procs, WriteManifest(p) PROVE CommandTypes'
  BY <1>5, <1>0 DEF WriteManifest, Goto
<1>6. ASSUME NEW p \in Procs, InsertEvidence(p) PROVE CommandTypes'
  BY <1>6, <1>0 DEF InsertEvidence, Goto
<1>7. ASSUME NEW p \in Procs, SelectRows(p) PROVE CommandTypes'
  BY <1>7, <1>0 DEF SelectRows, Goto
<1>8. ASSUME NEW p \in Procs, CompareManifest(p) PROVE CommandTypes'
  BY <1>8, <1>0 DEF CompareManifest, Goto, Matches
<1>9. ASSUME NEW p \in Procs, UpdateRow(p) PROVE CommandTypes'
  BY <1>9, <1>0 DEF UpdateRow, Goto
<1>10. ASSUME NEW p \in Procs, ReadLog(p) PROVE CommandTypes'
  BY <1>10, <1>0 DEF ReadLog, Goto
<1>11. ASSUME NEW p \in Procs, WriteEntry(p) PROVE CommandTypes'
  BY <1>11, <1>0 DEF WriteEntry, Goto
<1>12. ASSUME NEW p \in Procs, RecordAction(p) PROVE CommandTypes'
  BY <1>12, <1>0 DEF RecordAction, Goto
<1>13. ASSUME NEW p \in Procs, CopyFails(p) PROVE CommandTypes'
  BY <1>13, <1>0, FaultsCount DEF CopyFails, Fault, Goto
<1>14. ASSUME NEW p \in Procs, ManifestFails(p) PROVE CommandTypes'
  BY <1>14, <1>0, FaultsCount DEF ManifestFails, Fault, Goto
<1>15. ASSUME NEW p \in Procs, AppendFails(p) PROVE CommandTypes'
  BY <1>15, <1>0, FaultsCount DEF AppendFails, Fault, Goto
<1>16. ASSUME NEW p \in Procs, Crash(p) PROVE CommandTypes'
  BY <1>16, <1>0, FaultsCount DEF Crash, Fault, Goto
<1>17. ASSUME NEW s \in Sources, NEW c \in Contents \cup {NoFile}, ChangeSource(s,
            c)
     PROVE CommandTypes'
  BY <1>17, <1>0 DEF ChangeSource
<1>18. CASE UNCHANGED vars
  BY <1>18, <1>0 DEF vars
<1> QED BY <1>1, <1>2, <1>3, <1>4, <1>5, <1>6, <1>7, <1>8, <1>9, <1>10, <1>11,
     <1>12, <1>13, <1>14, <1>15, <1>16, <1>17, <1>18 DEF Next, ProcNext, ProcFaults

FileTypes ==
  /\ src \in Listing
  /\ vault \in [Kinds -> [Labels -> Listing]]
  /\ entries \in [Procs -> Listing]

\* A file that is copied into the vault.
LEMMA VaultWritten ==
  ASSUME vault \in [Kinds -> [Labels -> Listing]], NEW k \in Kinds, NEW l \in Labels,
         NEW s \in Sources, NEW c \in Contents \cup {NoFile},
         vault' = [vault EXCEPT ![k][l][s] = c]
  PROVE  /\ vault' \in [Kinds -> [Labels -> Listing]]
         /\ \A j \in Kinds, m \in Labels :
              j # k \/ m # l => vault'[j][m] = vault[j][m]
<1> DEFINE f == [vault[k][l] EXCEPT ![s] = c]
           g == [vault[k] EXCEPT ![l] = f]
<1>1. vault[k] \in [Labels -> Listing] /\ vault[k][l] \in Listing
  OBVIOUS
<1>2. f \in Listing
  BY <1>1 DEF Listing
<1>3. g \in [Labels -> Listing] /\ \A m \in Labels : m # l => g[m] = vault[k][m]
  BY <1>1, <1>2
<1>4. vault' = [vault EXCEPT ![k] = g]
  OBVIOUS
<1> HIDE DEF f, g
<1> QED BY <1>3, <1>4

LEMMA VaultTyped ==
  ASSUME vault \in [Kinds -> [Labels -> Listing]]
  PROVE  \A k \in Kinds, l \in Labels, s \in Sources, c \in Contents \cup {NoFile} :
           vault' = [vault EXCEPT ![k][l][s] = c] =>
             /\ vault' \in [Kinds -> [Labels -> Listing]]
             /\ \A j \in Kinds, m \in Labels :
                  j # k \/ m # l => vault'[j][m] = vault[j][m]
BY VaultWritten

\* Files hold contents.
LEMMA FileTypesKept == EvidenceInv /\ [Next]_vars => FileTypes'
<1> SUFFICES ASSUME EvidenceInv, [Next]_vars PROVE FileTypes'
  OBVIOUS
<1>0. FileTypes /\ TypeOK /\ \A q \in Procs : Paths(q)
  BY DEF EvidenceInv, TypeOK, FileTypes, OnTheirPaths
<1> USE DEF FileTypes, worldVars, diskVars, localVars
<1>1. ASSUME NEW p \in Procs, CheckImport(p) \/ OpenManifest(p) \/ WriteManifest(p)
            \/ InsertEvidence(p) \/ SelectRows(p) \/ CompareManifest(p) \/
            UpdateRow(p) \/ ReadLog(p) \/ WriteEntry(p) \/ RecordAction(p) \/
            ManifestFails(p) \/ AppendFails(p) \/ Crash(p)
     PROVE FileTypes'
  BY <1>1, <1>0 DEF CheckImport, Goto, OpenManifest, WriteManifest, InsertEvidence,
      SelectRows, CompareManifest, UpdateRow, ReadLog, WriteEntry, RecordAction,
      ManifestFails, Fault, AppendFails, Crash
<1>2. ASSUME NEW p \in Procs, CopySource(p) PROVE FileTypes'
  <2>1. IsImport(p)
    BY <1>2, <1>0, RequestFields DEF CopySource, Goto, Paths
  <2>2. kind[req[p].cmd] \in Kinds /\ req[p].label \in Labels /\ req[p].source \in Sources
    BY <1>0, <2>1, RequestFields
  <2>3. src[req[p].source] \in Contents \cup {NoFile}
    BY <1>0, <2>2 DEF FileTypes, Listing
  <2>4. /\ UNCHANGED <<src, entries>>
        /\ \/ vault' = vault
           \/ \E c \in Contents \cup {NoFile} :
                vault' = [vault EXCEPT ![kind[req[p].cmd]][req[p].label][req[p].source] = c]
    BY <1>2, <2>3 DEF CopySource, worldVars, localVars
  <2>5. vault' \in [Kinds -> [Labels -> Listing]]
    BY <1>0, <2>2, <2>4, VaultTyped DEF FileTypes
  <2> QED BY <1>0, <2>4, <2>5 DEF FileTypes
<1>3. ASSUME NEW p \in Procs, CopyFails(p) PROVE FileTypes'
  <2>1. IsImport(p)
    BY <1>3, <1>0, RequestFields DEF CopyFails, Goto, Paths
  <2>2. kind[req[p].cmd] \in Kinds /\ req[p].label \in Labels /\ req[p].source \in Sources
    BY <1>0, <2>1, RequestFields
  <2>3. src[req[p].source] \in Contents \cup {NoFile}
    BY <1>0, <2>2 DEF FileTypes, Listing
  <2>4. /\ UNCHANGED <<src, entries>>
        /\ \/ vault' = vault
           \/ \E c \in Contents \cup {NoFile} :
                vault' = [vault EXCEPT ![kind[req[p].cmd]][req[p].label][req[p].source] = c]
    BY <1>3, <2>3 DEF CopyFails, worldVars, localVars
  <2>5. vault' \in [Kinds -> [Labels -> Listing]]
    BY <1>0, <2>2, <2>4, VaultTyped DEF FileTypes
  <2> QED BY <1>0, <2>4, <2>5 DEF FileTypes
<1>4. ASSUME NEW p \in Procs, HashEvidence(p) PROVE FileTypes'
  <2>1. IsImport(p)
    BY <1>4, <1>0, RequestFields DEF HashEvidence, Goto, Paths
  <2>2. Hashing(p) \in Listing
    BY <1>0, <2>1, HashingIs
  <2> QED BY <1>4, <1>0, <2>2 DEF HashEvidence
<1>5. ASSUME NEW s \in Sources, NEW c \in Contents \cup {NoFile}, ChangeSource(s, c)
     PROVE FileTypes'
  BY <1>5, <1>0 DEF ChangeSource, Listing
<1>6. CASE UNCHANGED vars
  BY <1>6, <1>0 DEF vars
<1> QED BY <1>1, <1>2, <1>3, <1>4, <1>5, <1>6 DEF Next, ProcNext, ProcFaults

ManifestTypes == manifest \in [Labels -> Listing \cup {NoManifest, Garbled}]

\* A manifest lists contents, unless it is cut.
LEMMA ManifestTypesKept == EvidenceInv /\ [Next]_vars => ManifestTypes'
<1> SUFFICES ASSUME EvidenceInv, [Next]_vars PROVE ManifestTypes'
  OBVIOUS
<1>0. ManifestTypes /\ ManifestOpened /\ TypeOK /\ \A q \in Procs : Paths(q)
  BY DEF EvidenceInv, TypeOK, ManifestTypes, OnTheirPaths
<1> USE DEF ManifestTypes, diskVars
<1>1. ASSUME NEW p \in Procs, CheckImport(p) \/ CopySource(p) \/ HashEvidence(p) \/
            InsertEvidence(p) \/ SelectRows(p) \/ CompareManifest(p) \/ UpdateRow(p)
            \/ ReadLog(p) \/ WriteEntry(p) \/ RecordAction(p) \/ CopyFails(p) \/
            AppendFails(p) \/ Crash(p)
     PROVE ManifestTypes'
  BY <1>1, <1>0 DEF CheckImport, Goto, CopySource, HashEvidence, InsertEvidence,
      SelectRows, CompareManifest, UpdateRow, ReadLog, WriteEntry, RecordAction,
      CopyFails, Fault, AppendFails, Crash
<1>2. ASSUME NEW p \in Procs, OpenManifest(p) PROVE ManifestTypes'
  <2>1. IsImport(p) /\ req[p].label \in Labels
    BY <1>2, <1>0, RequestFields DEF OpenManifest, Goto, Paths
  <2> QED BY <1>2, <1>0, <2>1, ListingsAre DEF OpenManifest
<1>3. ASSUME NEW p \in Procs, WriteManifest(p) PROVE ManifestTypes'
  <2>1. IsImport(p) /\ req[p].label \in Labels
    BY <1>3, <1>0, RequestFields DEF WriteManifest, Goto, Paths
  <2>2. manifest[req[p].label] \in Listing \cup {Garbled}
    BY <1>3, <1>0, <2>1 DEF ManifestOpened, WriteManifest, Goto
  <2>3. entries[p] \in Listing
    BY <1>0 DEF TypeOK
  <2>4. \A m \in Over(entries[p], manifest[req[p].label]) :
          m \in Listing \cup {Garbled}
    BY <2>2, <2>3, OverIs
  <2>5. \E m \in Listing \cup {Garbled} :
          manifest' = [manifest EXCEPT ![req[p].label] = m]
    BY <1>3, <2>4 DEF WriteManifest
  <2> QED BY <1>0, <2>1, <2>5
<1>4. ASSUME NEW p \in Procs, ManifestFails(p) PROVE ManifestTypes'
  <2>1. IsImport(p) /\ req[p].label \in Labels
    BY <1>4, <1>0, RequestFields DEF ManifestFails, Goto, Paths
  <2> QED BY <1>4, <1>0, <2>1 DEF ManifestFails
<1>5. ASSUME NEW s \in Sources, NEW c \in Contents \cup {NoFile}, ChangeSource(s, c)
     PROVE ManifestTypes'
  BY <1>5, <1>0 DEF ChangeSource
<1>6. CASE UNCHANGED vars
  BY <1>6, <1>0 DEF vars
<1> QED BY <1>1, <1>2, <1>3, <1>4, <1>5, <1>6 DEF Next, ProcNext, ProcFaults

\* Who fills a manifest has opened it, and nobody takes it away.
LEMMA ManifestOpenedKept == EvidenceInv /\ [Next]_vars => ManifestOpened'
<1> SUFFICES ASSUME EvidenceInv, [Next]_vars PROVE ManifestOpened'
  OBVIOUS
<1>0. ManifestOpened /\ TypeOK /\ \A q \in Procs : Paths(q)
  BY DEF EvidenceInv, TypeOK, OnTheirPaths
<1>t. /\ manifest \in [Labels -> Listing \cup {NoManifest, Garbled}]
      /\ pc \in [Procs -> Pc] /\ \A q \in Procs : IsImport(q) => req[q].label \in Labels
  BY RequestFields DEF EvidenceInv, TypeOK
<1> USE DEF ManifestOpened, diskVars, IsImport
<1>1. ASSUME NEW p \in Procs, CheckImport(p) PROVE ManifestOpened'
  BY <1>1, <1>0, <1>t DEF CheckImport, Goto
<1>2. ASSUME NEW p \in Procs, CopySource(p) PROVE ManifestOpened'
  BY <1>2, <1>0, <1>t DEF CopySource, Goto
<1>3. ASSUME NEW p \in Procs, HashEvidence(p) PROVE ManifestOpened'
  BY <1>3, <1>0, <1>t DEF HashEvidence, Goto
<1>4. ASSUME NEW p \in Procs, OpenManifest(p) PROVE ManifestOpened'
  <2>1. IsImport(p) /\ req[p].label \in Labels
    BY <1>4, <1>0, RequestFields DEF OpenManifest, Goto, Paths
  <2> QED BY <1>4, <1>0, <1>t, <2>1, ListingsAre DEF OpenManifest, Goto
<1>5. ASSUME NEW p \in Procs, WriteManifest(p) PROVE ManifestOpened'
  <2>1. IsImport(p) /\ req[p].label \in Labels
    BY <1>5, <1>0, RequestFields DEF WriteManifest, Goto, Paths
  <2>2. manifest[req[p].label] \in Listing \cup {Garbled}
    BY <1>5, <1>0, <2>1 DEF ManifestOpened, WriteManifest, Goto
  <2>3. entries[p] \in Listing
    BY <1>0 DEF TypeOK
  <2>4. \A m \in Over(entries[p], manifest[req[p].label]) :
          m \in Listing \cup {Garbled}
    BY <2>2, <2>3, OverIs
  <2>5. \E m \in Listing \cup {Garbled} :
          manifest' = [manifest EXCEPT ![req[p].label] = m]
    BY <1>5, <2>4 DEF WriteManifest
  <2> QED BY <1>5, <1>0, <1>t, <2>1, <2>5 DEF WriteManifest, Goto
<1>6. ASSUME NEW p \in Procs, InsertEvidence(p) PROVE ManifestOpened'
  BY <1>6, <1>0, <1>t DEF InsertEvidence, Goto
<1>7. ASSUME NEW p \in Procs, SelectRows(p) PROVE ManifestOpened'
  BY <1>7, <1>0, <1>t DEF SelectRows, Goto
<1>8. ASSUME NEW p \in Procs, CompareManifest(p) PROVE ManifestOpened'
  BY <1>8, <1>0, <1>t DEF CompareManifest, Goto
<1>9. ASSUME NEW p \in Procs, UpdateRow(p) PROVE ManifestOpened'
  BY <1>9, <1>0, <1>t DEF UpdateRow, Goto
<1>10. ASSUME NEW p \in Procs, ReadLog(p) PROVE ManifestOpened'
  BY <1>10, <1>0, <1>t DEF ReadLog, Goto
<1>11. ASSUME NEW p \in Procs, WriteEntry(p) PROVE ManifestOpened'
  BY <1>11, <1>0, <1>t DEF WriteEntry, Goto
<1>12. ASSUME NEW p \in Procs, RecordAction(p) PROVE ManifestOpened'
  BY <1>12, <1>0, <1>t DEF RecordAction, Goto
<1>13. ASSUME NEW p \in Procs, CopyFails(p) PROVE ManifestOpened'
  BY <1>13, <1>0, <1>t DEF CopyFails, Fault, Goto
<1>14. ASSUME NEW p \in Procs, ManifestFails(p) PROVE ManifestOpened'
  <2>1. IsImport(p) /\ req[p].label \in Labels
    BY <1>14, <1>0, RequestFields DEF ManifestFails, Goto, Paths
  <2>2. manifest[req[p].label] \in Listing \cup {Garbled}
    BY <1>14, <1>0, <2>1 DEF ManifestFails, Goto
  <2> QED BY <1>14, <1>0, <1>t, <2>1, <2>2 DEF ManifestFails, Goto
<1>15. ASSUME NEW p \in Procs, AppendFails(p) PROVE ManifestOpened'
  BY <1>15, <1>0, <1>t DEF AppendFails, Fault, Goto
<1>16. ASSUME NEW p \in Procs, Crash(p) PROVE ManifestOpened'
  BY <1>16, <1>0, <1>t DEF Crash, Fault, Goto, Pc, End
<1>17. ASSUME NEW s \in Sources, NEW c \in Contents \cup {NoFile}, ChangeSource(s,
            c)
     PROVE ManifestOpened'
  BY <1>17, <1>0, <1>t DEF ChangeSource
<1>18. CASE UNCHANGED vars
  BY <1>18, <1>0, <1>t DEF vars
<1> QED BY <1>1, <1>2, <1>3, <1>4, <1>5, <1>6, <1>7, <1>8, <1>9, <1>10, <1>11,
     <1>12, <1>13, <1>14, <1>15, <1>16, <1>17, <1>18 DEF Next, ProcNext, ProcFaults

\* Rows are rows of imports, one for each label.
LEMMA RowTypesKept == EvidenceInv /\ [Next]_vars => RowTypes'
<1> SUFFICES ASSUME EvidenceInv, [Next]_vars PROVE RowTypes'
  OBVIOUS
<1>0. RowTypes /\ TypeOK
  BY DEF EvidenceInv, TypeOK, RowTypes, UniqueLabels
<1> USE DEF dbVars
<1>1. ASSUME NEW p \in Procs, CheckImport(p) \/ CopySource(p) \/ HashEvidence(p) \/
            OpenManifest(p) \/ WriteManifest(p) \/ SelectRows(p) \/
            CompareManifest(p) \/ ReadLog(p) \/ WriteEntry(p) \/ RecordAction(p) \/
            CopyFails(p) \/ ManifestFails(p) \/ AppendFails(p) \/ Crash(p)
     PROVE RowTypes'
  BY <1>1, <1>0 DEF CheckImport, Goto, CopySource, HashEvidence, OpenManifest,
      WriteManifest, SelectRows, CompareManifest, ReadLog, WriteEntry, RecordAction,
      CopyFails, Fault, ManifestFails, AppendFails, Crash, RowTypes, UniqueLabels
<1>2. ASSUME NEW p \in Procs, InsertEvidence(p) PROVE RowTypes'
  <2>1. CASE Labelled(req[p].label)
    BY <1>2, <1>0, <2>1 DEF InsertEvidence, RowTypes, UniqueLabels
  <2>2. CASE ~Labelled(req[p].label)
    BY <1>2, <2>2, NewRowInserted
  <2> QED BY <2>1, <2>2
<1>3. ASSUME NEW p \in Procs, UpdateRow(p) PROVE RowTypes'
  BY <1>3, <1>0, RowsUpdated
<1>4. ASSUME NEW s \in Sources, NEW c \in Contents \cup {NoFile}, ChangeSource(s, c)
     PROVE RowTypes'
  BY <1>4, <1>0 DEF ChangeSource, RowTypes, UniqueLabels
<1>5. CASE UNCHANGED vars
  BY <1>5, <1>0 DEF vars, RowTypes, UniqueLabels
<1> QED BY <1>1, <1>2, <1>3, <1>4, <1>5 DEF Next, ProcNext, ProcFaults

TodoTypes == todo \in [Procs -> Seq(Evidence)] /\ actions \subseteq Events

\* What a verify selects are rows.
LEMMA SelectedRows ==
  ASSUME TypeOK, NEW l
  PROVE  /\ Selected(l) \in Seq(Evidence)
         /\ \A n \in 1..Len(Selected(l)) : Selected(l)[n] \in Rows
<1>1. CASE l = "all"
  BY <1>1 DEF Selected, TypeOK, Rows
<1>2. CASE l # "all" /\ Labelled(l)
  <2>1. PICK r : r = CHOOSE q \in Rows : q.label = l
    OBVIOUS
  <2>2. r \in Rows /\ r \in Evidence
    BY <1>2, <2>1, RowsAre DEF Labelled
  <2>3. Selected(l) = <<r>>
    BY <1>2, <2>1 DEF Selected
  <2>4. <<r>> \in Seq(Evidence) /\ Len(<<r>>) = 1 /\ <<r>>[1] = r
    BY <2>2
  <2>5. \A n \in 1..Len(<<r>>) : <<r>>[n] = r
    BY <2>4
  <2> QED BY <2>2, <2>3, <2>4, <2>5
<1>3. CASE l # "all" /\ ~Labelled(l)
  <2>1. Selected(l) = <<>>
    BY <1>3 DEF Selected
  <2> QED BY <2>1, EmptySeq
<1> QED BY <1>1, <1>2, <1>3

\* One row less to do.
LEMMA TailOf ==
  ASSUME NEW s \in Seq(Evidence), s # <<>>
  PROVE  /\ Tail(s) \in Seq(Evidence)
         /\ \A n \in 1..Len(Tail(s)) : n + 1 \in 1..Len(s) /\ Tail(s)[n] = s[n + 1]
         /\ Head(s) = s[1] /\ 1 \in 1..Len(s)
<1>1. Len(s) \in Nat \ {0}
  BY EmptySeq, LenProperties
<1>2. /\ Tail(s) \in Seq(Evidence) /\ Len(Tail(s)) = Len(s) - 1
      /\ \A n \in 1..Len(Tail(s)) : Tail(s)[n] = s[n + 1]
      /\ Head(s) = s[1]
  BY HeadTailProperties
<1> QED BY <1>1, <1>2

\* A verify only ever has rows to do.
LEMMA TodoTypesKept == EvidenceInv /\ [Next]_vars => TodoTypes'
<1> SUFFICES ASSUME EvidenceInv, [Next]_vars PROVE TodoTypes'
  OBVIOUS
<1>0. /\ TodoTypes /\ TypeOK /\ VerifyHasRow
      /\ todo \in [Procs -> Seq(Evidence)]
  BY DEF EvidenceInv, TypeOK, TodoTypes
<1> USE DEF TodoTypes, localVars, dbVars
<1>1. ASSUME NEW p \in Procs, CheckImport(p) \/ CopySource(p) \/ HashEvidence(p) \/
            OpenManifest(p) \/ WriteManifest(p) \/ InsertEvidence(p) \/
            CompareManifest(p) \/ UpdateRow(p) \/ ReadLog(p) \/ WriteEntry(p) \/
            CopyFails(p) \/ ManifestFails(p) \/ AppendFails(p) \/ Crash(p)
     PROVE TodoTypes'
  BY <1>1, <1>0 DEF CheckImport, Goto, CopySource, HashEvidence, OpenManifest,
      WriteManifest, InsertEvidence, CompareManifest, UpdateRow, ReadLog,
      WriteEntry, CopyFails, Fault, ManifestFails, AppendFails, Crash
<1>2. ASSUME NEW p \in Procs, SelectRows(p) PROVE TodoTypes'
  BY <1>2, <1>0, SelectedRows DEF SelectRows, Goto
<1>3. ASSUME NEW p \in Procs, RecordAction(p) PROVE TodoTypes'
  <2>1. todo[p] \in Seq(Evidence)
    BY <1>0
  <2>2. Event(p) \in Events
    BY <1>3, <1>0, EventType DEF RecordAction
  <2>3. todo[p] # <<>> => Tail(todo[p]) \in Seq(Evidence)
    BY <2>1, TailOf
  <2>4. todo' \in [Procs -> Seq(Evidence)]
    BY <1>3, <1>0, <2>3 DEF RecordAction
  <2> QED BY <1>3, <1>0, <2>2, <2>4 DEF RecordAction
<1>4. ASSUME NEW s \in Sources, NEW c \in Contents \cup {NoFile}, ChangeSource(s, c)
     PROVE TodoTypes'
  BY <1>4, <1>0 DEF ChangeSource
<1>5. CASE UNCHANGED vars
  BY <1>5, <1>0 DEF vars
<1> QED BY <1>1, <1>2, <1>3, <1>4, <1>5 DEF Next, ProcNext, ProcFaults

-----------------------------------------------------------------------------
\* The stores and the processes, part by part.

\* What was hashed stays hashed.
LEMMA NotHashedYetKept == EvidenceInv /\ [Next]_vars => NotHashedYet'
<1> SUFFICES ASSUME EvidenceInv, [Next]_vars PROVE NotHashedYet'
  OBVIOUS
<1>0. /\ pc \in [Procs -> Pc] /\ entries \in [Procs -> Listing]
      /\ \A q \in Procs : Paths(q)
  BY DEF EvidenceInv, TypeOK, OnTheirPaths
<1>h. NotHashedYet
  BY DEF EvidenceInv
<1> USE DEF NotHashedYet, Hashed, localVars
<1>1. ASSUME NEW p \in Procs, CheckImport(p) PROVE NotHashedYet'
  BY <1>1, <1>0, <1>h DEF CheckImport, Goto
<1>2. ASSUME NEW p \in Procs, CopySource(p) PROVE NotHashedYet'
  BY <1>2, <1>0, <1>h DEF CopySource, Goto
<1>3. ASSUME NEW p \in Procs, HashEvidence(p) PROVE NotHashedYet'
  BY <1>3, <1>0, <1>h DEF HashEvidence, Goto
<1>4. ASSUME NEW p \in Procs, OpenManifest(p) PROVE NotHashedYet'
  BY <1>4, <1>0, <1>h DEF OpenManifest, Goto
<1>5. ASSUME NEW p \in Procs, WriteManifest(p) PROVE NotHashedYet'
  BY <1>5, <1>0, <1>h DEF WriteManifest, Goto
<1>6. ASSUME NEW p \in Procs, InsertEvidence(p) PROVE NotHashedYet'
  BY <1>6, <1>0, <1>h DEF InsertEvidence, Goto
<1>7. ASSUME NEW p \in Procs, SelectRows(p) PROVE NotHashedYet'
  BY <1>7, <1>0, <1>h DEF SelectRows, Goto
<1>8. ASSUME NEW p \in Procs, CompareManifest(p) PROVE NotHashedYet'
  BY <1>8, <1>0, <1>h DEF CompareManifest, Goto
<1>9. ASSUME NEW p \in Procs, UpdateRow(p) PROVE NotHashedYet'
  BY <1>9, <1>0, <1>h DEF UpdateRow, Goto
<1>10. ASSUME NEW p \in Procs, ReadLog(p) PROVE NotHashedYet'
  BY <1>10, <1>0, <1>h DEF ReadLog, Goto
<1>11. ASSUME NEW p \in Procs, WriteEntry(p) PROVE NotHashedYet'
  BY <1>11, <1>0, <1>h DEF WriteEntry, Goto
<1>12. ASSUME NEW p \in Procs, RecordAction(p) PROVE NotHashedYet'
  BY <1>12, <1>0, <1>h DEF RecordAction, Goto
<1>13. ASSUME NEW p \in Procs, CopyFails(p) PROVE NotHashedYet'
  BY <1>13, <1>0, <1>h DEF CopyFails, Fault, Goto
<1>14. ASSUME NEW p \in Procs, ManifestFails(p) PROVE NotHashedYet'
  BY <1>14, <1>0, <1>h DEF ManifestFails, Fault, Goto
<1>15. ASSUME NEW p \in Procs, AppendFails(p) PROVE NotHashedYet'
  BY <1>15, <1>0, <1>h DEF AppendFails, Fault, Goto
<1>16. ASSUME NEW p \in Procs, Crash(p) PROVE NotHashedYet'
  BY <1>16, <1>0, <1>h DEF Crash, Fault, Goto, Pc, End
<1>17. ASSUME NEW s \in Sources, NEW c \in Contents \cup {NoFile}, ChangeSource(s,
            c)
     PROVE NotHashedYet'
  BY <1>17, <1>0, <1>h DEF ChangeSource
<1>18. CASE UNCHANGED vars
  BY <1>18, <1>0, <1>h DEF vars
<1> QED BY <1>1, <1>2, <1>3, <1>4, <1>5, <1>6, <1>7, <1>8, <1>9, <1>10, <1>11,
     <1>12, <1>13, <1>14, <1>15, <1>16, <1>17, <1>18 DEF Next, ProcNext, ProcFaults

Active(p) == pc[p] \notin {"new", "refused"}

\* An import never gives its claim up, so who is alone now was alone before.
LEMMA ActiveStays ==
  ASSUME EvidenceInv, [Next]_vars
  PROVE  req' = req /\ \A q \in Procs : Active(q) => Active(q)'
<1>0. pc \in [Procs -> Pc]
  BY DEF EvidenceInv, TypeOK
<1> USE DEF Active, Goto, Fault
<1>1. ASSUME NEW p \in Procs, CheckImport(p)
     PROVE  req' = req /\ \A q \in Procs : Active(q) => Active(q)'
  BY <1>0, <1>1 DEF CheckImport
<1>2. ASSUME NEW p \in Procs, CopySource(p)
     PROVE  req' = req /\ \A q \in Procs : Active(q) => Active(q)'
  BY <1>0, <1>2 DEF CopySource
<1>3. ASSUME NEW p \in Procs, HashEvidence(p)
     PROVE  req' = req /\ \A q \in Procs : Active(q) => Active(q)'
  BY <1>0, <1>3 DEF HashEvidence
<1>4. ASSUME NEW p \in Procs, OpenManifest(p)
     PROVE  req' = req /\ \A q \in Procs : Active(q) => Active(q)'
  BY <1>0, <1>4 DEF OpenManifest
<1>5. ASSUME NEW p \in Procs, WriteManifest(p)
     PROVE  req' = req /\ \A q \in Procs : Active(q) => Active(q)'
  BY <1>0, <1>5 DEF WriteManifest
<1>6. ASSUME NEW p \in Procs, InsertEvidence(p)
     PROVE  req' = req /\ \A q \in Procs : Active(q) => Active(q)'
  BY <1>0, <1>6 DEF InsertEvidence
<1>7. ASSUME NEW p \in Procs, SelectRows(p)
     PROVE  req' = req /\ \A q \in Procs : Active(q) => Active(q)'
  BY <1>0, <1>7 DEF SelectRows
<1>8. ASSUME NEW p \in Procs, CompareManifest(p)
     PROVE  req' = req /\ \A q \in Procs : Active(q) => Active(q)'
  BY <1>0, <1>8 DEF CompareManifest
<1>9. ASSUME NEW p \in Procs, UpdateRow(p)
     PROVE  req' = req /\ \A q \in Procs : Active(q) => Active(q)'
  BY <1>0, <1>9 DEF UpdateRow
<1>10. ASSUME NEW p \in Procs, ReadLog(p)
     PROVE  req' = req /\ \A q \in Procs : Active(q) => Active(q)'
  BY <1>0, <1>10 DEF ReadLog
<1>11. ASSUME NEW p \in Procs, WriteEntry(p)
     PROVE  req' = req /\ \A q \in Procs : Active(q) => Active(q)'
  BY <1>0, <1>11 DEF WriteEntry
<1>12. ASSUME NEW p \in Procs, RecordAction(p)
     PROVE  req' = req /\ \A q \in Procs : Active(q) => Active(q)'
  BY <1>0, <1>12 DEF RecordAction
<1>13. ASSUME NEW p \in Procs, CopyFails(p)
     PROVE  req' = req /\ \A q \in Procs : Active(q) => Active(q)'
  BY <1>0, <1>13 DEF CopyFails
<1>14. ASSUME NEW p \in Procs, ManifestFails(p)
     PROVE  req' = req /\ \A q \in Procs : Active(q) => Active(q)'
  BY <1>0, <1>14 DEF ManifestFails
<1>15. ASSUME NEW p \in Procs, AppendFails(p)
     PROVE  req' = req /\ \A q \in Procs : Active(q) => Active(q)'
  BY <1>0, <1>15 DEF AppendFails
<1>16. ASSUME NEW p \in Procs, Crash(p)
     PROVE  req' = req /\ \A q \in Procs : Active(q) => Active(q)'
  BY <1>0, <1>16 DEF Crash, Pc, End
<1>17. ASSUME NEW s \in Sources, NEW c \in Contents \cup {NoFile}, ChangeSource(s,
            c)
     PROVE  req' = req /\ \A q \in Procs : Active(q) => Active(q)'
  BY <1>0, <1>17 DEF ChangeSource
<1>18. CASE UNCHANGED vars
  BY <1>18 DEF vars
<1> QED BY <1>1, <1>2, <1>3, <1>4, <1>5, <1>6, <1>7, <1>8, <1>9, <1>10, <1>11,
     <1>12, <1>13, <1>14, <1>15, <1>16, <1>17, <1>18 DEF Next, ProcNext, ProcFaults

LEMMA ClaimsGrow ==
  ASSUME EvidenceInv, [Next]_vars
  PROVE  /\ \A l, q : q \in Claims(l) => q \in Claims(l)'
         /\ \A l, q : q \in Claims(l) /\ Claims(l)' = {q} => Claims(l) = {q}
<1>1. \A l, q : q \in Claims(l) => q \in Claims(l)'
  BY ActiveStays DEF Active, Claims, IsImport
<1>2. ASSUME NEW l, NEW q, q \in Claims(l), Claims(l)' = {q} PROVE Claims(l) = {q}
  BY <1>1, <1>2
<1> QED BY <1>1, <1>2

LEMMA AloneEarlier ==
  ASSUME EvidenceInv, [Next]_vars
  PROVE  \A q \in Procs : Alone(q)' /\ Active(q) => Alone(q)
<1> SUFFICES ASSUME NEW q \in Procs, Alone(q)', Active(q) PROVE Alone(q)
  OBVIOUS
<1>1. req' = req
  BY ActiveStays
<1>2. PICK l : l = req[q].label
  OBVIOUS
<1>3. IsImport(q) /\ Claims(l)' = {q}
  BY <1>1, <1>2 DEF Alone, IsImport, Claims
<1>4. q \in Claims(l)
  BY <1>2, <1>3 DEF Claims, Active
<1>5. Claims(l) = {q}
  BY <1>3, <1>4, ClaimsGrow
<1> QED BY <1>2, <1>3, <1>5 DEF Alone

LEMMA OnlyOne ==
  ASSUME NEW p \in Procs, NEW q \in Procs, Alone(q), IsImport(p), Active(p),
         req[p].label = req[q].label
  PROVE  p = q
<1>1. p \in Claims(req[q].label)
  BY DEF Claims, Active
<1> QED BY <1>1 DEF Alone

\* Rows are rows of imports that are past their insert.
LEMMA RowOwners ==
  ASSUME EvidenceInv, NEW r \in Rows
  PROVE  /\ r.by \in Procs /\ r.label \in Labels /\ r.mode \in {"copy", "reference"}
         /\ r.by \in Claims(r.label)
<1>1. r \in Evidence
  BY RowsAre DEF EvidenceInv
<1>2. r.by \in Procs /\ r.label \in Labels /\ r.mode \in {"copy", "reference"}
  BY <1>1 DEF Evidence
<1> QED BY <1>2 DEF EvidenceInv, RowsOfImports, Claims

\* A row goes on saying what its import said.
LEMMA RowsOfImportsKept == EvidenceInv /\ [Next]_vars => RowsOfImports'
<1> SUFFICES ASSUME EvidenceInv, [Next]_vars PROVE RowsOfImports'
  OBVIOUS
<1>0. /\ pc \in [Procs -> Pc] /\ entries \in [Procs -> Listing]
      /\ \A q \in Procs : Paths(q)
  BY DEF EvidenceInv, TypeOK, OnTheirPaths
<1>i. RowsOfImports /\ \A r \in Rows : r.by \in Procs
  BY RowOwners DEF EvidenceInv
<1>q. evidence' = evidence => Rows' = Rows
  BY RowsStay
<1> USE DEF RowsOfImports, IsImport, dbVars, localVars
<1>1. ASSUME NEW p \in Procs, CheckImport(p) PROVE RowsOfImports'
  BY <1>1, <1>0, <1>i, <1>q DEF CheckImport, Goto
<1>2. ASSUME NEW p \in Procs, CopySource(p) PROVE RowsOfImports'
  BY <1>2, <1>0, <1>i, <1>q DEF CopySource, Goto
<1>3. ASSUME NEW p \in Procs, HashEvidence(p) PROVE RowsOfImports'
  BY <1>3, <1>0, <1>i, <1>q DEF HashEvidence, Goto
<1>4. ASSUME NEW p \in Procs, OpenManifest(p) PROVE RowsOfImports'
  BY <1>4, <1>0, <1>i, <1>q DEF OpenManifest, Goto
<1>5. ASSUME NEW p \in Procs, WriteManifest(p) PROVE RowsOfImports'
  BY <1>5, <1>0, <1>i, <1>q DEF WriteManifest, Goto
<1>6. ASSUME NEW p \in Procs, InsertEvidence(p) PROVE RowsOfImports'
  <2>1. UNCHANGED <<req, entries>> /\ pc[p] = "insert"
    BY <1>6 DEF InsertEvidence, Goto, localVars
  <2>2. CASE Labelled(req[p].label)
    BY <1>6, <1>0, <1>i, <1>q, <2>1, <2>2 DEF InsertEvidence, Goto
  <2>3. CASE ~Labelled(req[p].label)
    <3>1. PICK r : r = NewRow(p)
      OBVIOUS
    <3>2. /\ Rows' = Rows \cup {r}
          /\ r.by = p /\ r.kind = kind[req[p].cmd] /\ r.label = req[p].label
          /\ r.source = req[p].source /\ r.mode = req[p].mode /\ r.items = entries[p]
          /\ IsImport(p)
      BY <1>6, <2>3, <3>1, NewRowInserted
    <3>3. pc' = [pc EXCEPT ![p] = "append"]
      BY <1>6, <2>3 DEF InsertEvidence, Goto
    <3> QED BY <1>0, <1>i, <2>1, <3>2, <3>3
  <2> QED BY <2>2, <2>3
<1>7. ASSUME NEW p \in Procs, SelectRows(p) PROVE RowsOfImports'
  BY <1>7, <1>0, <1>i, <1>q DEF SelectRows, Goto
<1>8. ASSUME NEW p \in Procs, CompareManifest(p) PROVE RowsOfImports'
  BY <1>8, <1>0, <1>i, <1>q DEF CompareManifest, Goto, Paths
<1>9. ASSUME NEW p \in Procs, UpdateRow(p) PROVE RowsOfImports'
  <2>1. Rows' = {Updated(p, r) : r \in Rows}
    BY <1>9, RowsUpdated DEF EvidenceInv
  <2>2. /\ UNCHANGED <<req, entries>> /\ pc[p] = "update"
        /\ pc' = [pc EXCEPT ![p] = "append"]
    BY <1>9 DEF UpdateRow, Goto, localVars
  <2>3. \A r \in Rows : SameRow(Updated(p, r), r)
    BY RowsAre DEF EvidenceInv, SameRow, Updated, Evidence
  <2>4. \A r \in Rows' : \E o \in Rows : SameRow(r, o)
    BY <2>1, <2>3
  <2> QED BY <1>0, <1>i, <2>2, <2>4 DEF SameRow
<1>10. ASSUME NEW p \in Procs, ReadLog(p) PROVE RowsOfImports'
  BY <1>10, <1>0, <1>i, <1>q DEF ReadLog, Goto
<1>11. ASSUME NEW p \in Procs, WriteEntry(p) PROVE RowsOfImports'
  BY <1>11, <1>0, <1>i, <1>q DEF WriteEntry, Goto
<1>12. ASSUME NEW p \in Procs, RecordAction(p) PROVE RowsOfImports'
  <2>1. /\ Rows' = Rows /\ UNCHANGED <<req, entries>>
        /\ pc[p] = "record"
    BY <1>12, <1>q DEF RecordAction, Goto
  <2>2. \E to : pc' = [pc EXCEPT ![p] = to]
    BY <1>12 DEF RecordAction, Goto
  <2>3. IsImport(p) => pc' = [pc EXCEPT ![p] = "done"]
    <3>1. IsImport(p) => todo[p] = <<>>
      BY <1>0 DEF Paths, IsImport
    <3> QED BY <1>12, <3>1 DEF RecordAction, Goto
  <2> QED BY <1>0, <1>i, <2>1, <2>2, <2>3 DEF IsImport
<1>13. ASSUME NEW p \in Procs, CopyFails(p) PROVE RowsOfImports'
  BY <1>13, <1>0, <1>i, <1>q DEF CopyFails, Fault, Goto
<1>14. ASSUME NEW p \in Procs, ManifestFails(p) PROVE RowsOfImports'
  BY <1>14, <1>0, <1>i, <1>q DEF ManifestFails, Fault, Goto
<1>15. ASSUME NEW p \in Procs, AppendFails(p) PROVE RowsOfImports'
  BY <1>15, <1>0, <1>i, <1>q DEF AppendFails, Fault, Goto
<1>16. ASSUME NEW p \in Procs, Crash(p) PROVE RowsOfImports'
  BY <1>16, <1>0, <1>i, <1>q DEF Crash, Fault, Goto, Pc, End
<1>17. ASSUME NEW s \in Sources, NEW c \in Contents \cup {NoFile}, ChangeSource(s,
            c)
     PROVE RowsOfImports'
  BY <1>17, <1>0, <1>i, <1>q DEF ChangeSource
<1>18. CASE UNCHANGED vars
  BY <1>18, <1>0, <1>i, <1>q DEF vars
<1> QED BY <1>1, <1>2, <1>3, <1>4, <1>5, <1>6, <1>7, <1>8, <1>9, <1>10, <1>11,
     <1>12, <1>13, <1>14, <1>15, <1>16, <1>17, <1>18 DEF Next, ProcNext, ProcFaults

\* What a verify has selected stays in the table.
LEMMA TodoAreRowsKept == EvidenceInv /\ [Next]_vars => TodoAreRows'
<1> SUFFICES ASSUME EvidenceInv, [Next]_vars PROVE TodoAreRows'
  OBVIOUS
<1>0. TodoAreRows /\ TypeOK /\ todo \in [Procs -> Seq(Evidence)]
  BY DEF EvidenceInv, TypeOK
<1>g. \A r \in Rows : \E q \in Rows' : SameRow(q, r)
  BY RowsGrow
<1>e. ASSUME todo' = todo PROVE TodoAreRows'
  BY <1>0, <1>e, <1>g DEF SameRow, TodoAreRows
<1>q. evidence' = evidence => Rows' = Rows
  BY RowsStay
<1> USE DEF TodoAreRows, localVars, dbVars
<1>1. ASSUME NEW p \in Procs, CheckImport(p) \/ CopySource(p) \/ HashEvidence(p) \/
            OpenManifest(p) \/ WriteManifest(p) \/ InsertEvidence(p) \/
            CompareManifest(p) \/ UpdateRow(p) \/ ReadLog(p) \/ WriteEntry(p) \/
            CopyFails(p) \/ ManifestFails(p) \/ AppendFails(p) \/ Crash(p)
     PROVE TodoAreRows'
  BY <1>1, <1>e DEF CheckImport, Goto, CopySource, HashEvidence, OpenManifest,
      WriteManifest, InsertEvidence, CompareManifest, UpdateRow, ReadLog,
      WriteEntry, CopyFails, Fault, ManifestFails, AppendFails, Crash
<1>2. ASSUME NEW p \in Procs, SelectRows(p) PROVE TodoAreRows'
  <2>1. \A n \in 1..Len(Selected(req[p].label)) :
          Selected(req[p].label)[n] \in Rows
    BY <1>0, SelectedRows
  <2>2. todo' = [todo EXCEPT ![p] = Selected(req[p].label)] /\ Rows' = Rows
    BY <1>2, <1>q DEF SelectRows
  <2> SUFFICES ASSUME NEW q \in Procs, NEW n \in 1..Len(todo'[q])
               PROVE  \E r \in Rows : SameRow(r, todo'[q][n])
    BY <2>2
  <2>3. CASE q = p
    <3>1. todo'[q] = Selected(req[p].label)
      BY <1>0, <2>2, <2>3
    <3> QED BY <2>1, <3>1 DEF SameRow
  <2>4. CASE q # p
    BY <1>0, <2>2, <2>4
  <2> QED BY <2>3, <2>4
<1>3. ASSUME NEW p \in Procs, RecordAction(p) PROVE TodoAreRows'
  <2>1. Rows' = Rows
    BY <1>3, <1>q DEF RecordAction
  <2>2. CASE todo[p] = <<>>
    BY <1>3, <1>e, <2>2 DEF RecordAction
  <2>3. CASE todo[p] # <<>>
    <3>1. todo' = [todo EXCEPT ![p] = Tail(todo[p])]
      BY <1>3, <2>3 DEF RecordAction
    <3>2. \A n \in 1..Len(Tail(todo[p])) :
            n + 1 \in 1..Len(todo[p]) /\ Tail(todo[p])[n] = todo[p][n + 1]
      BY <1>0, <2>3, TailOf
    <3> QED BY <1>0, <2>1, <3>1, <3>2
  <2> QED BY <2>2, <2>3
<1>4. ASSUME NEW s \in Sources, NEW c \in Contents \cup {NoFile}, ChangeSource(s, c)
     PROVE TodoAreRows'
  BY <1>4, <1>e DEF ChangeSource
<1>5. CASE UNCHANGED vars
  BY <1>5, <1>e DEF vars
<1> QED BY <1>1, <1>2, <1>3, <1>4, <1>5 DEF Next, ProcNext, ProcFaults

\* What every listing matches.
LEMMA MatchesFacts ==
  /\ \A f : Matches(Nothing, f)
  /\ \A f : Matches(f, f)
  /\ \A s \in Sources, f \in Listing : Matches(Only(s, f), f)
BY DEF Matches, Nothing, Only, Listing

LEMMA SameOwners ==
  ASSUME Rows' = Rows
  PROVE  \A q : HasRow(q)' <=> HasRow(q)
BY DEF HasRow

\* Nobody else writes the manifest of an import that is alone.
LEMMA AloneInManifestKept == EvidenceInv /\ [Next]_vars => AloneInManifest'
<1> SUFFICES ASSUME EvidenceInv, [Next]_vars PROVE AloneInManifest'
  OBVIOUS
<1>0. /\ pc \in [Procs -> Pc] /\ entries \in [Procs -> Listing]
      /\ manifest \in [Labels -> Listing \cup {NoManifest, Garbled}]
      /\ \A q \in Procs : Paths(q)
      /\ TypeOK /\ NotHashedYet /\ AloneInManifest /\ AloneInVault
  BY DEF EvidenceInv, TypeOK, OnTheirPaths
<1>a. \A q \in Procs : Alone(q)' => Active(q)' /\ (Active(q) => Alone(q))
  BY AloneEarlier DEF Alone, Claims, Active
<1>b. \A q \in Procs : HasRow(q) =>
        pc[q] \in {"append", "appending", "record", "done", "failed"}
  BY DEF EvidenceInv, RowsOfImports, HasRow
<1>c. evidence' = evidence => \A q : HasRow(q)' <=> HasRow(q)
  BY RowsStay, SameOwners
<1>d. \A p, q \in Procs :
        Alone(q) /\ IsImport(p) /\ Active(p) /\ req[p].label = req[q].label => p = q
  BY OnlyOne
<1>e. \A q \in Procs : IsImport(q) => req[q].label \in Labels /\ kind[req[q].cmd] \in Kinds
  BY <1>0, RequestFields
<1>f. \A q \in Procs : Alone(q) => IsImport(q)
  BY DEF Alone
<1>r. req' = req
  BY ActiveStays
<1> USE DEF AloneInManifest, dbVars, diskVars, localVars, Active
<1>1. ASSUME NEW p \in Procs, CheckImport(p) PROVE AloneInManifest'
  BY <1>1, <1>0, <1>a, <1>b, <1>c DEF CheckImport, Goto
<1>2. ASSUME NEW p \in Procs, CopySource(p) PROVE AloneInManifest'
  BY <1>2, <1>0, <1>a, <1>b, <1>c DEF CopySource, Goto
<1>3. ASSUME NEW p \in Procs, HashEvidence(p) PROVE AloneInManifest'
  BY <1>3, <1>0, <1>a, <1>b, <1>c DEF HashEvidence, Goto
<1>4. ASSUME NEW p \in Procs, OpenManifest(p) PROVE AloneInManifest'
  <2>1. IsImport(p) /\ Active(p)
    BY <1>4, <1>0, RequestFields DEF OpenManifest, Goto, Paths, Active
  <2>2. /\ pc[p] = "open" /\ pc' = [pc EXCEPT ![p] = "write"]
        /\ manifest' = [manifest EXCEPT ![req[p].label] = Nothing]
        /\ UNCHANGED <<entries, evidence>>
    BY <1>4 DEF OpenManifest, Goto
  <2> QED BY <1>0, <1>a, <1>b, <1>c, <1>d, <1>e, <1>f, <1>r, <2>1, <2>2
<1>5. ASSUME NEW p \in Procs, WriteManifest(p) PROVE AloneInManifest'
  <2>1. IsImport(p) /\ Active(p)
    BY <1>5, <1>0, RequestFields DEF WriteManifest, Goto, Paths, Active
  <2>2. /\ pc[p] = "write" /\ pc' = [pc EXCEPT ![p] = "insert"]
        /\ UNCHANGED <<entries, evidence>>
    BY <1>5 DEF WriteManifest, Goto
  <2>3. PICK m \in Over(entries[p], manifest[req[p].label]) :
          manifest' = [manifest EXCEPT ![req[p].label] = m]
    BY <1>5 DEF WriteManifest
  <2>4. Alone(p) => m = entries[p]
    <3>1. Alone(p) => manifest[req[p].label] = Nothing
      BY <1>0, <2>2
    <3> QED BY <2>3, <3>1 DEF Over
  <2> QED BY <1>0, <1>a, <1>b, <1>c, <1>d, <1>e, <1>f, <1>r, <2>1, <2>2, <2>3, <2>4
<1>6. ASSUME NEW p \in Procs, InsertEvidence(p) PROVE AloneInManifest'
  <2>1. /\ pc[p] = "insert" /\ UNCHANGED <<manifest, entries>>
        /\ \E to \in {"append", "failed"} : pc' = [pc EXCEPT ![p] = to]
    BY <1>6 DEF InsertEvidence, Goto
  <2>2. \A q : HasRow(q)' => HasRow(q) \/ q = p
    <3>1. CASE Labelled(req[p].label)
      BY <1>6, <1>c, <3>1 DEF InsertEvidence
    <3>2. CASE ~Labelled(req[p].label)
      <4>1. PICK r : r = NewRow(p)
        OBVIOUS
      <4>2. Rows' = Rows \cup {r} /\ r.by = p
        BY <1>6, <3>2, <4>1, NewRowInserted
      <4> QED BY <4>2 DEF HasRow
    <3> QED BY <3>1, <3>2
  <2> QED BY <1>0, <1>a, <1>b, <1>r, <2>1, <2>2
<1>7. ASSUME NEW p \in Procs, SelectRows(p) PROVE AloneInManifest'
  BY <1>7, <1>0, <1>a, <1>b, <1>c DEF SelectRows, Goto
<1>8. ASSUME NEW p \in Procs, CompareManifest(p) PROVE AloneInManifest'
  BY <1>8, <1>0, <1>a, <1>b, <1>c DEF CompareManifest, Goto
<1>9. ASSUME NEW p \in Procs, UpdateRow(p) PROVE AloneInManifest'
  <2>1. /\ pc[p] = "update" /\ UNCHANGED <<manifest, entries>>
        /\ pc' = [pc EXCEPT ![p] = "append"]
    BY <1>9 DEF UpdateRow, Goto
  <2>2. \A q : HasRow(q)' => HasRow(q)
    <3>1. Rows' = {Updated(p, r) : r \in Rows}
      BY <1>9, <1>0, RowsUpdated
    <3>2. \A r \in Rows : Updated(p, r).by = r.by
      BY <1>0, RowsAre DEF Updated, Evidence
    <3> QED BY <3>1, <3>2 DEF HasRow
  <2> QED BY <1>0, <1>a, <1>b, <1>r, <2>1, <2>2
<1>10. ASSUME NEW p \in Procs, ReadLog(p) PROVE AloneInManifest'
  BY <1>10, <1>0, <1>a, <1>b, <1>c DEF ReadLog, Goto
<1>11. ASSUME NEW p \in Procs, WriteEntry(p) PROVE AloneInManifest'
  BY <1>11, <1>0, <1>a, <1>b, <1>c DEF WriteEntry, Goto
<1>12. ASSUME NEW p \in Procs, RecordAction(p) PROVE AloneInManifest'
  BY <1>12, <1>0, <1>a, <1>b, <1>c DEF RecordAction, Goto
<1>13. ASSUME NEW p \in Procs, CopyFails(p) PROVE AloneInManifest'
  BY <1>13, <1>0, <1>a, <1>b, <1>c DEF CopyFails, Fault, Goto
<1>14. ASSUME NEW p \in Procs, ManifestFails(p) PROVE AloneInManifest'
  <2>1. IsImport(p) /\ Active(p)
    BY <1>14, <1>0, RequestFields DEF ManifestFails, Goto, Paths, Active
  <2>2. /\ pc[p] = "write" /\ pc' = [pc EXCEPT ![p] = "failed"]
        /\ \E m : manifest' = [manifest EXCEPT ![req[p].label] = m]
        /\ UNCHANGED <<entries, evidence>>
    BY <1>14 DEF ManifestFails, Goto
  <2> QED BY <1>0, <1>a, <1>b, <1>c, <1>d, <1>e, <1>f, <1>r, <2>1, <2>2
<1>15. ASSUME NEW p \in Procs, AppendFails(p) PROVE AloneInManifest'
  BY <1>15, <1>0, <1>a, <1>b, <1>c DEF AppendFails, Fault, Goto
<1>16. ASSUME NEW p \in Procs, Crash(p) PROVE AloneInManifest'
  BY <1>16, <1>0, <1>a, <1>b, <1>c DEF Crash, Fault, Goto, Pc, End
<1>17. ASSUME NEW s \in Sources, NEW c \in Contents \cup {NoFile}, ChangeSource(s,
            c)
     PROVE AloneInManifest'
  BY <1>17, <1>0, <1>a, <1>b, <1>c DEF ChangeSource
<1>18. CASE UNCHANGED vars
  BY <1>18, <1>0, <1>a, <1>b, <1>c DEF vars
<1> QED BY <1>1, <1>2, <1>3, <1>4, <1>5, <1>6, <1>7, <1>8, <1>9, <1>10, <1>11,
     <1>12, <1>13, <1>14, <1>15, <1>16, <1>17, <1>18 DEF Next, ProcNext, ProcFaults

\* Nobody else writes the directory of an import that is alone.
LEMMA AloneInVaultKept == EvidenceInv /\ [Next]_vars => AloneInVault'
<1> SUFFICES ASSUME EvidenceInv, [Next]_vars PROVE AloneInVault'
  OBVIOUS
<1>0. /\ pc \in [Procs -> Pc] /\ entries \in [Procs -> Listing]
      /\ manifest \in [Labels -> Listing \cup {NoManifest, Garbled}]
      /\ \A q \in Procs : Paths(q)
      /\ TypeOK /\ NotHashedYet /\ AloneInManifest /\ AloneInVault
  BY DEF EvidenceInv, TypeOK, OnTheirPaths
<1>a. \A q \in Procs : Alone(q)' => Active(q)' /\ (Active(q) => Alone(q))
  BY AloneEarlier DEF Alone, Claims, Active
<1>b. \A q \in Procs : HasRow(q) =>
        pc[q] \in {"append", "appending", "record", "done", "failed"}
  BY DEF EvidenceInv, RowsOfImports, HasRow
<1>c. evidence' = evidence => \A q : HasRow(q)' <=> HasRow(q)
  BY RowsStay, SameOwners
<1>d. \A p, q \in Procs :
        Alone(q) /\ IsImport(p) /\ Active(p) /\ req[p].label = req[q].label => p = q
  BY OnlyOne
<1>e. \A q \in Procs : IsImport(q) => req[q].label \in Labels /\ kind[req[q].cmd] \in Kinds
  BY <1>0, RequestFields
<1>f. \A q \in Procs : Alone(q) => IsImport(q)
  BY DEF Alone
<1>r. req' = req
  BY ActiveStays
<1>m. \A q \in Procs : entries[q] = Nothing => \A f : Matches(entries[q], f)
  BY MatchesFacts
<1>n. \A q \in Procs : ~Active(q) => entries[q] = Nothing
  BY <1>0 DEF NotHashedYet, Hashed, Active
<1>v. vault \in [Kinds -> [Labels -> Listing]]
  BY <1>0 DEF TypeOK
<1>k. ASSUME entries' = entries, NEW q \in Procs, Alone(q)', req'[q].mode = "copy",
             entries[q] = Nothing \/ OwnDir(q)' = OwnDir(q)
      PROVE  Matches(entries[q], OwnDir(q))'
  <2>1. CASE entries[q] = Nothing
    BY <1>k, <2>1 DEF Matches, Nothing
  <2>2. CASE entries[q] # Nothing
    <3>1. Alone(q) /\ req[q].mode = "copy" /\ OwnDir(q)' = OwnDir(q)
      BY <1>a, <1>k, <1>n, <1>r, <2>2
    <3>2. Matches(entries[q], OwnDir(q))
      BY <1>0, <3>1 DEF AloneInVault
    <3> QED BY <1>k, <3>1, <3>2 DEF Matches
  <2> QED BY <2>1, <2>2
<1>s. ASSUME entries' = entries, vault' = vault PROVE AloneInVault'
  BY <1>k, <1>r, <1>s DEF AloneInVault, OwnDir
<1> USE DEF diskVars, localVars
<1>1. ASSUME NEW p \in Procs, CheckImport(p) \/ OpenManifest(p) \/ WriteManifest(p)
            \/ InsertEvidence(p) \/ SelectRows(p) \/ CompareManifest(p) \/
            UpdateRow(p) \/ ReadLog(p) \/ WriteEntry(p) \/ RecordAction(p) \/
            ManifestFails(p) \/ AppendFails(p) \/ Crash(p)
     PROVE AloneInVault'
  BY <1>1, <1>s DEF CheckImport, Goto, OpenManifest, WriteManifest, InsertEvidence,
      SelectRows, CompareManifest, UpdateRow, ReadLog, WriteEntry, RecordAction,
      ManifestFails, Fault, AppendFails, Crash
<1>2. ASSUME NEW p \in Procs, CopySource(p) PROVE AloneInVault'
  <2>1. IsImport(p) /\ Active(p) /\ pc[p] = "copy" /\ entries' = entries
    BY <1>2, <1>0, RequestFields DEF CopySource, Goto, Paths, Active, localVars
  <2>2. req[p].label \in Labels /\ kind[req[p].cmd] \in Kinds /\ req[p].source \in Sources
    BY <1>0, <2>1, RequestFields
  <2>3. \/ vault' = vault
        \/ \E c \in Contents \cup {NoFile} :
             vault' = [vault EXCEPT ![kind[req[p].cmd]][req[p].label][req[p].source] = c]
    <3>1. src[req[p].source] \in Contents \cup {NoFile}
      BY <1>0, <2>2 DEF TypeOK, Listing
    <3> QED BY <1>2, <3>1 DEF CopySource
  <2>4. \A k \in Kinds, l \in Labels :
          l # req[p].label => vault'[k][l] = vault[k][l]
    <3>1. CASE vault' = vault
      BY <3>1
    <3>2. CASE vault' # vault
      <4>1. PICK i \in Kinds, m \in Labels, s \in Sources :
              i = kind[req[p].cmd] /\ m = req[p].label /\ s = req[p].source
        BY <2>2
      <4>2. PICK c \in Contents \cup {NoFile} : vault' = [vault EXCEPT ![i][m][s] = c]
        BY <2>3, <3>2, <4>1
      <4>3. \A k \in Kinds, l \in Labels :
              k # i \/ l # m => vault'[k][l] = vault[k][l]
        BY <1>v, <4>2, VaultWritten
      <4> QED BY <4>1, <4>3
    <3> QED BY <3>1, <3>2
  <2>5. entries[p] = Nothing
    BY <1>0, <2>1 DEF NotHashedYet, Hashed
  <2> SUFFICES ASSUME NEW q \in Procs, Alone(q)', req'[q].mode = "copy"
               PROVE  Matches(entries[q], OwnDir(q))'
    BY DEF AloneInVault
  <2>6. entries[q] # Nothing => OwnDir(q)' = OwnDir(q)
    <3> SUFFICES ASSUME entries[q] # Nothing PROVE OwnDir(q)' = OwnDir(q)
      OBVIOUS
    <3>1. Alone(q) /\ q # p
      BY <1>a, <1>n, <2>5
    <3>2. req[p].label # req[q].label
      BY <1>d, <2>1, <3>1
    <3> QED BY <1>e, <1>f, <1>r, <2>4, <3>1, <3>2 DEF OwnDir
  <2> QED BY <1>k, <2>1, <2>6
<1>3. ASSUME NEW p \in Procs, HashEvidence(p) PROVE AloneInVault'
  <2>1. IsImport(p) /\ pc[p] = "list" /\ vault' = vault
        /\ entries' = [entries EXCEPT ![p] = Hashing(p)]
    BY <1>3, <1>0, RequestFields DEF HashEvidence, Goto, Paths, diskVars
  <2>2. req[p].source \in Sources /\ OwnDir(p) \in Listing
    BY <1>0, <2>1, RequestFields, HashingIs
  <2>3. req[p].mode = "copy" => Matches(Hashing(p), OwnDir(p))
    BY <2>2, MatchesFacts DEF Hashing
  <2> SUFFICES ASSUME NEW q \in Procs, Alone(q)', req'[q].mode = "copy"
               PROVE  Matches(entries[q], OwnDir(q))'
    BY DEF AloneInVault
  <2>4. OwnDir(q)' = OwnDir(q) /\ req[q].mode = "copy"
    BY <1>r, <2>1 DEF OwnDir
  <2>5. Matches(entries'[q], OwnDir(q))
    <3>1. CASE q = p
      BY <1>0, <2>1, <2>3, <2>4, <3>1
    <3>2. CASE q # p
      <4>1. entries'[q] = entries[q]
        BY <1>0, <2>1, <3>2
      <4>2. entries[q] = Nothing \/ Alone(q)
        BY <1>a, <1>n
      <4> QED BY <1>0, <1>m, <2>4, <4>1, <4>2 DEF AloneInVault
    <3> QED BY <3>1, <3>2
  <2> QED BY <2>4, <2>5 DEF Matches
<1>4. ASSUME NEW p \in Procs, CopyFails(p) PROVE AloneInVault'
  <2>1. IsImport(p) /\ Active(p) /\ pc[p] = "copy" /\ entries' = entries
    BY <1>4, <1>0, RequestFields DEF CopyFails, Goto, Paths, Active, localVars
  <2>2. req[p].label \in Labels /\ kind[req[p].cmd] \in Kinds /\ req[p].source \in Sources
    BY <1>0, <2>1, RequestFields
  <2>3. \/ vault' = vault
        \/ \E c \in Contents \cup {NoFile} :
             vault' = [vault EXCEPT ![kind[req[p].cmd]][req[p].label][req[p].source] = c]
    <3>1. src[req[p].source] \in Contents \cup {NoFile}
      BY <1>0, <2>2 DEF TypeOK, Listing
    <3> QED BY <1>4, <3>1 DEF CopyFails
  <2>4. \A k \in Kinds, l \in Labels :
          l # req[p].label => vault'[k][l] = vault[k][l]
    <3>1. CASE vault' = vault
      BY <3>1
    <3>2. CASE vault' # vault
      <4>1. PICK i \in Kinds, m \in Labels, s \in Sources :
              i = kind[req[p].cmd] /\ m = req[p].label /\ s = req[p].source
        BY <2>2
      <4>2. PICK c \in Contents \cup {NoFile} : vault' = [vault EXCEPT ![i][m][s] = c]
        BY <2>3, <3>2, <4>1
      <4>3. \A k \in Kinds, l \in Labels :
              k # i \/ l # m => vault'[k][l] = vault[k][l]
        BY <1>v, <4>2, VaultWritten
      <4> QED BY <4>1, <4>3
    <3> QED BY <3>1, <3>2
  <2>5. entries[p] = Nothing
    BY <1>0, <2>1 DEF NotHashedYet, Hashed
  <2> SUFFICES ASSUME NEW q \in Procs, Alone(q)', req'[q].mode = "copy"
               PROVE  Matches(entries[q], OwnDir(q))'
    BY DEF AloneInVault
  <2>6. entries[q] # Nothing => OwnDir(q)' = OwnDir(q)
    <3> SUFFICES ASSUME entries[q] # Nothing PROVE OwnDir(q)' = OwnDir(q)
      OBVIOUS
    <3>1. Alone(q) /\ q # p
      BY <1>a, <1>n, <2>5
    <3>2. req[p].label # req[q].label
      BY <1>d, <2>1, <3>1
    <3> QED BY <1>e, <1>f, <1>r, <2>4, <3>1, <3>2 DEF OwnDir
  <2> QED BY <1>k, <2>1, <2>6
<1>5. ASSUME NEW s \in Sources, NEW c \in Contents \cup {NoFile}, ChangeSource(s, c)
     PROVE AloneInVault'
  BY <1>5, <1>s DEF ChangeSource
<1>6. CASE UNCHANGED vars
  BY <1>6, <1>s DEF vars
<1> QED BY <1>1, <1>2, <1>3, <1>4, <1>5, <1>6 DEF Next, ProcNext, ProcFaults

\* A source that changes after its hashing has moved.
LEMMA SourceWatchedKept == EvidenceInv /\ [Next]_vars => SourceWatched'
<1> SUFFICES ASSUME EvidenceInv, [Next]_vars PROVE SourceWatched'
  OBVIOUS
<1>0. /\ TypeOK /\ SourceWatched /\ src \in Listing /\ entries \in [Procs -> Listing]
      /\ moved \subseteq Procs /\ NotHashedYet /\ \A q \in Procs : Paths(q)
  BY DEF EvidenceInv, TypeOK, OnTheirPaths
<1>r. req' = req
  BY ActiveStays
<1>s. ASSUME entries' = entries, src' = src, moved' = moved PROVE SourceWatched'
  BY <1>0, <1>r, <1>s DEF SourceWatched, IsImport, Only, Matches, Nothing
<1> USE DEF worldVars, localVars
<1>1. ASSUME NEW p \in Procs, CheckImport(p) \/ CopySource(p) \/ OpenManifest(p) \/
            WriteManifest(p) \/ InsertEvidence(p) \/ SelectRows(p) \/
            CompareManifest(p) \/ UpdateRow(p) \/ ReadLog(p) \/ WriteEntry(p) \/
            RecordAction(p) \/ CopyFails(p) \/ ManifestFails(p) \/ AppendFails(p) \/
            Crash(p)
     PROVE SourceWatched'
  BY <1>1, <1>s DEF CheckImport, Goto, CopySource, OpenManifest, WriteManifest,
      InsertEvidence, SelectRows, CompareManifest, UpdateRow, ReadLog, WriteEntry,
      RecordAction, CopyFails, Fault, ManifestFails, AppendFails, Crash
<1>2. ASSUME NEW p \in Procs, HashEvidence(p) PROVE SourceWatched'
  <2>1. /\ UNCHANGED <<src, moved>>
        /\ entries' = [entries EXCEPT ![p] = Hashing(p)]
    BY <1>2 DEF HashEvidence
  <2>2. req[p].mode = "reference" => Hashing(p) = Only(req[p].source, src)
    BY DEF Hashing
  <2>3. \A q \in Procs : Only(req[q].source, src)' = Only(req[q].source, src)
    BY <1>r, <2>1 DEF Only, Nothing
  <2> SUFFICES ASSUME NEW q \in Procs, IsImport(q), req[q].mode = "reference", q \notin moved
               PROVE  Matches(entries'[q], Only(req[q].source, src))
    BY <1>r, <2>1, <2>3 DEF SourceWatched, IsImport, Matches
  <2>4. CASE q = p
    BY <1>0, <2>1, <2>2, <2>4, MatchesFacts
  <2>5. CASE q # p
    BY <1>0, <2>1, <2>5 DEF SourceWatched
  <2> QED BY <2>4, <2>5
<1>3. ASSUME NEW s \in Sources, NEW c \in Contents \cup {NoFile}, ChangeSource(s, c)
     PROVE SourceWatched'
  <2>1. /\ src' = [src EXCEPT ![s] = c] /\ entries' = entries
        /\ moved' = moved \cup
             {q \in Procs : req[q].cmd # "verify" /\ Hashed(q) /\ req[q].source = s}
    BY <1>3 DEF ChangeSource
  <2> SUFFICES ASSUME NEW q \in Procs, IsImport(q), req[q].mode = "reference", q \notin moved'
               PROVE  \A t \in Sources : entries[q][t] # NoFile =>
                        [Nothing EXCEPT ![req[q].source] = src'[req[q].source]][t] = entries[q][t]
    BY <1>r, <2>1 DEF SourceWatched, IsImport, Matches, Only, Nothing
  <2>2. CASE ~Hashed(q)
    BY <1>0, <2>2 DEF NotHashedYet, Nothing
  <2>3. CASE Hashed(q)
    <3>1. req[q].source # s /\ q \notin moved
      BY <1>0, <2>1, <2>3, RequestFields
    <3>2. req[q].source \in Sources
      BY <1>0, RequestFields
    <3>3. src'[req[q].source] = src[req[q].source]
      BY <1>0, <2>1, <3>1, <3>2 DEF Listing
    <3>4. Matches(entries[q], Only(req[q].source, src))
      BY <1>0, <3>1 DEF SourceWatched
    <3> QED BY <3>3, <3>4 DEF Matches, Only
  <2> QED BY <2>2, <2>3
<1>4. CASE UNCHANGED vars
  BY <1>4, <1>s DEF vars
<1> QED BY <1>1, <1>2, <1>3, <1>4 DEF Next, ProcNext, ProcFaults

\* What a verify has in its hands is a row, and its import has claimed the label.
LEMMA HeadIsRow ==
  ASSUME EvidenceInv, NEW p \in Procs, todo[p] # <<>>
  PROVE  /\ Head(todo[p]).by \in Claims(Head(todo[p]).label)
         /\ \E r \in Rows : SameRow(r, Head(todo[p]))
<1>1. todo[p] \in Seq(Evidence)
  BY DEF EvidenceInv, TypeOK
<1>2. Head(todo[p]) = todo[p][1] /\ 1 \in 1..Len(todo[p])
  BY <1>1, TailOf
<1>3. PICK r \in Rows : SameRow(r, Head(todo[p]))
  BY <1>2 DEF EvidenceInv, TodoAreRows
<1>4. r.by \in Claims(r.label)
  BY RowOwners
<1> QED BY <1>3, <1>4 DEF SameRow

\* Alone, an import only ever fails a verify when its source has moved.
LEMMA AloneVerifies ==
  ASSUME EvidenceInv, NEW p \in Procs, CompareManifest(p),
         Claims(Head(todo[p]).label) = {Head(todo[p]).by}, ~verdict'[p],
         pc'[p] = "update"
  PROVE  Head(todo[p]).mode = "reference" /\ Head(todo[p]).by \in moved
<1>1. PICK h : h = Head(todo[p])
  OBVIOUS
<1>2. pc[p] = "compare" /\ req[p].cmd = "verify" /\ todo[p] # <<>>
  BY RequestFields
  DEF EvidenceInv, OnTheirPaths, Paths, VerifyHasRow, CompareManifest
<1>3. PICK r \in Rows : SameRow(r, h)
  BY <1>1, <1>2, HeadIsRow
<1>4. /\ r.by \in Procs /\ r.mode \in {"copy", "reference"} /\ IsImport(r.by)
      /\ r.kind = kind[req[r.by].cmd] /\ r.label = req[r.by].label
      /\ r.source = req[r.by].source /\ r.mode = req[r.by].mode
  BY RowOwners DEF EvidenceInv, RowsOfImports
<1>5. Alone(r.by) /\ HasRow(r.by)
  BY <1>1, <1>3, <1>4 DEF Alone, HasRow, SameRow
<1>6. manifest[h.label] = entries[r.by]
  BY <1>3, <1>4, <1>5 DEF EvidenceInv, AloneInManifest, SameRow
<1>7. verdict' = [verdict EXCEPT ![p] = Matches(manifest[h.label], root_dir(h))]
  <2>1. \/ pc' = [pc EXCEPT ![p] = "failed"]
        \/ verdict' = [verdict EXCEPT ![p] = Matches(manifest[h.label], root_dir(h))]
    BY <1>1 DEF CompareManifest, Goto
  <2>2. pc \in [Procs -> Pc]
    BY DEF EvidenceInv, TypeOK
  <2> QED BY <2>1, <2>2
<1>8. ~Matches(entries[r.by], root_dir(h))
  <2>1. verdict \in [Procs -> BOOLEAN]
    BY DEF EvidenceInv, TypeOK
  <2>2. verdict'[p] = Matches(manifest[h.label], root_dir(h))
    BY <1>7, <2>1
  <2> QED BY <1>6, <2>2
<1>9. r.mode # "copy"
  <2> SUFFICES ASSUME r.mode = "copy" PROVE FALSE
    OBVIOUS
  <2>1. root_dir(h) = OwnDir(r.by)
    BY <1>3, <1>4 DEF root_dir, OwnDir, SameRow
  <2>2. Matches(entries[r.by], OwnDir(r.by))
    BY <1>4, <1>5 DEF EvidenceInv, AloneInVault
  <2> QED BY <1>8, <2>1, <2>2
<1>10. r.by \in moved
  <2>1. root_dir(h) = Only(req[r.by].source, src)
    BY <1>3, <1>4, <1>9 DEF root_dir, SameRow
  <2>2. r.by \notin moved => Matches(entries[r.by], Only(req[r.by].source, src))
    BY <1>4, <1>9 DEF EvidenceInv, SourceWatched
  <2> QED BY <1>8, <2>1, <2>2
<1> QED BY <1>1, <1>3, <1>4, <1>9, <1>10 DEF SameRow

LEMMA MovedGrows == [Next]_vars => moved \subseteq moved'
BY DEF Next, ProcNext, ProcFaults, vars, worldVars, ChangeSource, CheckImport, CopySource,
  HashEvidence, OpenManifest, WriteManifest, InsertEvidence, SelectRows, CompareManifest,
  UpdateRow, ReadLog, WriteEntry, RecordAction, CopyFails, ManifestFails, AppendFails, Crash

\* VerdictIsDue after a step, spelled out.
LEMMA VerdictDue ==
  ASSUME req' = req,
         \A q \in Procs : \A l :
           /\ req[q].cmd = "verify" /\ pc'[q] = "update" /\ ~verdict'[q]
           /\ l = Head(todo'[q]).label /\ Claims(l)' = {Head(todo'[q]).by}
           => Head(todo'[q]).mode = "reference" /\ Head(todo'[q]).by \in moved'
  PROVE  VerdictIsDue'
<1> SUFFICES ASSUME NEW q \in Procs, req[q].cmd = "verify", pc'[q] = "update",
                    ~verdict'[q],
                    {p \in Procs : /\ req'[p].cmd \in {"ingest", "import_image"}
                                   /\ req'[p].label = Head(todo'[q]).label
                                   /\ pc'[p] \notin {"new", "refused"}}
                      = {Head(todo'[q]).by}
             PROVE  Head(todo'[q]).mode = "reference" /\ Head(todo'[q]).by \in moved'
  BY DEF VerdictIsDue, Claims, IsImport
<1>1. PICK l : l = Head(todo'[q]).label
  OBVIOUS
<1>2. Claims(l)' = {Head(todo'[q]).by}
  BY <1>1 DEF Claims, IsImport
<1> QED BY <1>1, <1>2

\* A verdict is that of the row it will be stored in.
LEMMA VerdictIsDueKept == EvidenceInv /\ [Next]_vars => VerdictIsDue'
<1> SUFFICES ASSUME EvidenceInv, [Next]_vars PROVE VerdictIsDue'
  OBVIOUS
<1>0. /\ pc \in [Procs -> Pc] /\ verdict \in [Procs -> BOOLEAN]
      /\ todo \in [Procs -> Seq(Evidence)] /\ moved \subseteq Procs
      /\ \A q \in Procs : Paths(q)
      /\ VerdictIsDue /\ VerifyHasRow
  BY DEF EvidenceInv, TypeOK, OnTheirPaths
<1>r. req' = req /\ moved \subseteq moved'
  BY ActiveStays, MovedGrows
<1>c. \A l, b : b \in Claims(l) /\ Claims(l)' = {b} => Claims(l) = {b}
  BY ClaimsGrow
<1>h. \A q \in Procs : todo[q] # <<>> =>
        Head(todo[q]).by \in Claims(Head(todo[q]).label)
  BY HeadIsRow
<1>k. ASSUME NEW q \in Procs, req[q].cmd = "verify", pc[q] = "update", ~verdict[q],
             todo'[q] = todo[q], NEW l, l = Head(todo[q]).label,
             Claims(l)' = {Head(todo[q]).by}
      PROVE  Head(todo[q]).mode = "reference" /\ Head(todo[q]).by \in moved'
  <2>1. todo[q] # <<>>
    BY <1>0, <1>k DEF VerifyHasRow
  <2>2. Claims(l) = {Head(todo[q]).by}
    BY <1>c, <1>h, <1>k, <2>1
  <2> QED BY <1>0, <1>k, <1>r, <2>2 DEF VerdictIsDue
<1>s. ASSUME \A q \in Procs :
               req[q].cmd = "verify" /\ pc'[q] = "update" /\ ~verdict'[q] =>
                 pc[q] = "update" /\ ~verdict[q] /\ todo'[q] = todo[q]
      PROVE  VerdictIsDue'
  <2> SUFFICES ASSUME NEW q \in Procs, req[q].cmd = "verify", pc'[q] = "update",
                      ~verdict'[q], NEW l, l = Head(todo'[q]).label,
                      Claims(l)' = {Head(todo'[q]).by}
               PROVE  Head(todo'[q]).mode = "reference" /\ Head(todo'[q]).by \in moved'
    BY <1>r, VerdictDue
  <2>1. pc[q] = "update" /\ ~verdict[q] /\ todo'[q] = todo[q]
    BY <1>s
  <2> QED BY <1>k, <2>1
<1> USE DEF localVars
<1>1. ASSUME NEW p \in Procs, CheckImport(p) \/ CopySource(p) \/ HashEvidence(p) \/
            OpenManifest(p) \/ WriteManifest(p) \/ InsertEvidence(p) \/ UpdateRow(p)
            \/ ReadLog(p) \/ WriteEntry(p) \/ CopyFails(p) \/ ManifestFails(p) \/
            AppendFails(p)
     PROVE VerdictIsDue'
  BY <1>1, <1>0, <1>s DEF CheckImport, Goto, CopySource, HashEvidence, OpenManifest,
      WriteManifest, InsertEvidence, UpdateRow, ReadLog, WriteEntry, CopyFails,
      Fault, ManifestFails, AppendFails
<1>2. ASSUME NEW p \in Procs, SelectRows(p) PROVE VerdictIsDue'
  BY <1>2, <1>0, <1>s DEF SelectRows, Goto
<1>3. ASSUME NEW p \in Procs, CompareManifest(p) PROVE VerdictIsDue'
  <2>1. /\ pc[p] = "compare" /\ todo' = todo
        /\ \E to : pc' = [pc EXCEPT ![p] = to]
        /\ \A q \in Procs : q # p => verdict'[q] = verdict[q]
    BY <1>3, <1>0 DEF CompareManifest, Goto
  <2> SUFFICES ASSUME NEW q \in Procs, req[q].cmd = "verify", pc'[q] = "update",
                      ~verdict'[q], NEW l, l = Head(todo'[q]).label,
                      Claims(l)' = {Head(todo'[q]).by}
               PROVE  Head(todo'[q]).mode = "reference" /\ Head(todo'[q]).by \in moved'
    BY <1>r, VerdictDue
  <2>2. CASE q # p
    <3>1. pc[q] = "update" /\ ~verdict[q] /\ todo'[q] = todo[q]
      BY <1>0, <2>1, <2>2
    <3> QED BY <1>k, <3>1
  <2>3. CASE q = p
    <3>1. todo[p] # <<>>
      BY <1>0, <2>1, <2>3 DEF VerifyHasRow
    <3>2. Claims(l) = {Head(todo[p]).by}
      BY <1>c, <1>h, <2>1, <2>3, <3>1
    <3> QED BY <1>3, <1>r, <2>1, <2>3, <3>2, AloneVerifies
  <2> QED BY <2>2, <2>3
<1>4. ASSUME NEW p \in Procs, RecordAction(p) PROVE VerdictIsDue'
  BY <1>4, <1>0, <1>s DEF RecordAction, Goto
<1>5. ASSUME NEW p \in Procs, Crash(p) PROVE VerdictIsDue'
  BY <1>5, <1>0, <1>s DEF Crash, Fault, Goto, Pc, End
<1>6. ASSUME NEW s \in Sources, NEW c \in Contents \cup {NoFile}, ChangeSource(s, c)
     PROVE VerdictIsDue'
  BY <1>6, <1>0, <1>s DEF ChangeSource
<1>7. CASE UNCHANGED vars
  BY <1>7, <1>0, <1>s DEF vars
<1> QED BY <1>1, <1>2, <1>3, <1>4, <1>5, <1>6, <1>7 DEF Next, ProcNext, ProcFaults

LEMMA ClaimsOfRows ==
  ASSUME \A r \in Rows' : \A l :
           l = r.label /\ Claims(l)' = {r.by} /\ r.last_verify_ok = "no" =>
             r.mode = "reference" /\ r.by \in moved'
  PROVE  SoleClaimVerifies'
<1> SUFFICES ASSUME NEW r \in Rows', r.last_verify_ok = "no",
                    {p \in Procs : /\ req'[p].cmd \in {"ingest", "import_image"}
                                   /\ req'[p].label = r.label
                                   /\ pc'[p] \notin {"new", "refused"}} = {r.by}
             PROVE  r.mode = "reference" /\ r.by \in moved'
  BY DEF SoleClaimVerifies, Claims, IsImport
<1>1. PICK l : l = r.label
  OBVIOUS
<1>2. Claims(l)' = {r.by}
  BY <1>1 DEF Claims, IsImport
<1> QED BY <1>1, <1>2

\* Only a source that has moved fails a verify of an import that is alone.
LEMMA SoleClaimVerifiesKept == EvidenceInv /\ [Next]_vars => SoleClaimVerifies'
<1> SUFFICES ASSUME EvidenceInv, [Next]_vars PROVE SoleClaimVerifies'
  OBVIOUS
<1>0. /\ SoleClaimVerifies /\ OnTheirPaths /\ VerifyHasRow /\ VerdictIsDue /\ TypeOK
      /\ pc \in [Procs -> Pc]
  BY DEF EvidenceInv, TypeOK
<1>r. moved \subseteq moved'
  BY MovedGrows
<1>c. \A r \in Rows : \A l : l = r.label /\ Claims(l)' = {r.by} => Claims(l) = {r.by}
  BY ClaimsGrow, RowOwners
<1>d. ASSUME \A r \in Rows' : \A l :
               l = r.label /\ Claims(l)' = {r.by} /\ r.last_verify_ok = "no" =>
                 r.mode = "reference" /\ r.by \in moved'
      PROVE  SoleClaimVerifies'
  BY <1>d, ClaimsOfRows
<1>s. ASSUME Rows' = Rows PROVE SoleClaimVerifies'
  <2> SUFFICES ASSUME NEW r \in Rows, NEW l, l = r.label, Claims(l)' = {r.by},
                      r.last_verify_ok = "no"
               PROVE  r.mode = "reference" /\ r.by \in moved'
    BY <1>d, <1>s
  <2>1. Claims(l) = {r.by}
    BY <1>c
  <2> QED BY <1>0, <1>r, <2>1 DEF SoleClaimVerifies
<1> USE DEF dbVars
<1>1. ASSUME NEW p \in Procs, CheckImport(p) \/ CopySource(p) \/ HashEvidence(p) \/
            OpenManifest(p) \/ WriteManifest(p) \/ SelectRows(p) \/
            CompareManifest(p) \/ ReadLog(p) \/ WriteEntry(p) \/ RecordAction(p) \/
            CopyFails(p) \/ ManifestFails(p) \/ AppendFails(p) \/ Crash(p)
     PROVE SoleClaimVerifies'
  BY <1>1, <1>s, RowsStay DEF CheckImport, Goto, CopySource, HashEvidence,
      OpenManifest, WriteManifest, SelectRows, CompareManifest, ReadLog, WriteEntry,
      RecordAction, CopyFails, Fault, ManifestFails, AppendFails, Crash
<1>2. ASSUME NEW p \in Procs, InsertEvidence(p) PROVE SoleClaimVerifies'
  <2>1. CASE Labelled(req[p].label)
    BY <1>2, <1>s, <2>1, RowsStay DEF InsertEvidence
  <2>2. CASE ~Labelled(req[p].label)
    <3>1. PICK q : q = NewRow(p)
      OBVIOUS
    <3>2. Rows' = Rows \cup {q} /\ q.last_verify_ok = "null"
      BY <1>2, <2>2, <3>1, NewRowInserted
    <3> SUFFICES ASSUME NEW r \in Rows, NEW l, l = r.label, Claims(l)' = {r.by},
                        r.last_verify_ok = "no"
                 PROVE  r.mode = "reference" /\ r.by \in moved'
      BY <1>d, <3>2
    <3>3. Claims(l) = {r.by}
      BY <1>c
    <3> QED BY <1>0, <1>r, <3>3 DEF SoleClaimVerifies
  <2> QED BY <2>1, <2>2
<1>3. ASSUME NEW p \in Procs, UpdateRow(p) PROVE SoleClaimVerifies'
  <2>1. Rows' = {Updated(p, r) : r \in Rows}
    BY <1>3, <1>0, RowsUpdated
  <2>2. pc[p] = "update" /\ req[p].cmd = "verify" /\ todo[p] # <<>>
    BY <1>3, <1>0, RequestFields DEF UpdateRow, Goto, OnTheirPaths, Paths, VerifyHasRow
  <2>3. PICK h \in Rows : SameRow(h, Head(todo[p]))
    BY <2>2, HeadIsRow
  <2> SUFFICES ASSUME NEW r \in Rows, NEW l, l = Updated(p, r).label,
                      Claims(l)' = {Updated(p, r).by},
                      Updated(p, r).last_verify_ok = "no"
               PROVE  Updated(p, r).mode = "reference" /\ Updated(p, r).by \in moved'
    BY <1>d, <2>1
  <2>4. /\ Updated(p, r).by = r.by /\ Updated(p, r).mode = r.mode
        /\ Updated(p, r).label = r.label
    BY <1>0, RowsAre DEF Updated, Evidence
  <2>5. Claims(r.label) = {r.by}
    BY <1>c, <2>4
  <2>6. CASE r.label # Head(todo[p]).label
    BY <1>0, <1>r, <2>4, <2>5, <2>6 DEF SoleClaimVerifies, Updated
  <2>7. CASE r.label = Head(todo[p]).label
    <3>1. r = h
      BY <1>0, <2>3, <2>7, RowsAre DEF SameRow
    <3>2. ~verdict[p]
      <4>1. r \in Evidence
        BY <1>0, RowsAre
      <4> QED BY <2>7, <4>1 DEF Updated, Evidence
    <3>3. Claims(Head(todo[p]).label) = {Head(todo[p]).by}
      BY <2>3, <2>5, <3>1 DEF SameRow
    <3>4. Head(todo[p]).mode = "reference" /\ Head(todo[p]).by \in moved
      BY <1>0, <2>2, <3>2, <3>3 DEF VerdictIsDue
    <3> QED BY <1>r, <2>3, <2>4, <3>1, <3>4 DEF SameRow
  <2> QED BY <2>6, <2>7
<1>4. ASSUME NEW s \in Sources, NEW c \in Contents \cup {NoFile}, ChangeSource(s, c)
     PROVE SoleClaimVerifies'
  BY <1>4, <1>s, RowsStay DEF ChangeSource
<1>5. CASE UNCHANGED vars
  BY <1>5, <1>s, RowsStay DEF vars
<1> QED BY <1>1, <1>2, <1>3, <1>4, <1>5 DEF Next, ProcNext, ProcFaults

-----------------------------------------------------------------------------
\* The log and what it is a record of.

\* Only a fault tears a line.
LEMMA FaultlessKept == EvidenceInv /\ [Next]_vars => Faultless'
<1> SUFFICES ASSUME EvidenceInv, [Next]_vars PROVE Faultless'
  OBVIOUS
<1>0. Faultless /\ TypeOK
  BY DEF EvidenceInv
<1> USE DEF Faultless, custodyVars
<1>1. ASSUME NEW p \in Procs, CheckImport(p) \/ CopySource(p) \/ HashEvidence(p) \/
            OpenManifest(p) \/ WriteManifest(p) \/ InsertEvidence(p) \/
            SelectRows(p) \/ CompareManifest(p) \/ UpdateRow(p) \/ RecordAction(p)
     PROVE Faultless'
  BY <1>1, <1>0 DEF CheckImport, Goto, CopySource, HashEvidence, OpenManifest,
      WriteManifest, InsertEvidence, SelectRows, CompareManifest, UpdateRow,
      RecordAction
<1>2. ASSUME NEW p \in Procs, ReadLog(p) PROVE Faultless'
  BY <1>2, <1>0 DEF ReadLog, Goto, Custody!read_and_verify, Custody!ReadTail
<1>3. ASSUME NEW p \in Procs, WriteEntry(p) PROVE Faultless'
  BY <1>3, <1>0 DEF WriteEntry, Goto, Custody!WriteEntry
<1>4. ASSUME NEW p \in Procs, AppendFails(p) PROVE Faultless'
  BY <1>4, <1>0, FaultsCount DEF AppendFails, Fault, Goto
<1>5. ASSUME NEW p \in Procs, Crash(p) PROVE Faultless'
  BY <1>5, <1>0, FaultsCount DEF Crash, Fault, Goto
<1>6. ASSUME NEW p \in Procs, CopyFails(p) PROVE Faultless'
  BY <1>6, <1>0, FaultsCount DEF CopyFails, Fault, Goto
<1>7. ASSUME NEW p \in Procs, ManifestFails(p) PROVE Faultless'
  BY <1>7, <1>0, FaultsCount DEF ManifestFails, Fault, Goto
<1>8. ASSUME NEW s \in Sources, NEW c \in Contents \cup {NoFile}, ChangeSource(s, c)
     PROVE Faultless'
  BY <1>8, <1>0 DEF ChangeSource
<1>9. CASE UNCHANGED vars
  BY <1>9, <1>0 DEF vars
<1> QED BY <1>1, <1>2, <1>3, <1>4, <1>5, <1>6, <1>7, <1>8, <1>9 DEF Next, ProcNext,
     ProcFaults

LEMMA ChainStays ==
  ASSUME log' = log
  PROVE  Custody!verify_chain(log)' <=> Custody!verify_chain(log)
BY DEF Custody!verify_chain, Custody!last_entry_hash, Custody!compute_entry_hash,
  Custody!GENESIS_HASH

\* Entries, a torn line, a broken chain and faults are there for good.
LEMMA NothingIsUndone ==
  ASSUME EvidenceInv, [Next]_vars
  PROVE  /\ \A e : Logged(e) => Logged(e)'
         /\ torn => torn'
         /\ Custody!verify_chain(log)' => Custody!verify_chain(log)
         /\ faults # 0 => faults' # 0
<1>0. TypeOK /\ VerifyHasRow
  BY DEF EvidenceInv
<1>1. ASSUME NEW p \in Procs, WriteEntry(p)
      PROVE  /\ \A e : Logged(e) => Logged(e)'
             /\ torn => torn'
             /\ Custody!verify_chain(log)' => Custody!verify_chain(log)
  BY <1>0, <1>1, LogGrows
<1>2. (\A p \in Procs : ~WriteEntry(p)) => log' = log /\ (torn => torn')
  BY DEF Next, ProcNext, ProcFaults, vars, custodyVars, ChangeSource, CheckImport,
     CopySource, HashEvidence, OpenManifest, WriteManifest, InsertEvidence, SelectRows,
     CompareManifest, UpdateRow, ReadLog, RecordAction, CopyFails, ManifestFails,
     AppendFails, Crash, Custody!read_and_verify, Custody!ReadTail,
     Custody!AbandonAppend, Custody!TearLine
<1>3. faults' = faults \/ Fault
  BY DEF Next, ProcNext, ProcFaults, vars, ChangeSource, CheckImport,
     CopySource, HashEvidence, OpenManifest, WriteManifest, InsertEvidence, SelectRows,
     CompareManifest, UpdateRow, ReadLog, WriteEntry, RecordAction, CopyFails,
     ManifestFails, AppendFails, Crash
<1>4. faults # 0 => faults' # 0
  BY <1>0, <1>3, FaultsCount
<1> QED BY <1>1, <1>2, <1>4, LogStays, ChainStays

LEMMA EventStays ==
  ASSUME req' = req, NEW p \in Procs, todo'[p] = todo[p]
  PROVE  \A e : e = Event(p) /\ Logged(e)' => Logged(Event(p))'
BY DEF Event, Logged

\* Who comes to its record_action has written its entry.
LEMMA WritersHaveLoggedKept == EvidenceInv /\ [Next]_vars => WritersHaveLogged'
<1> SUFFICES ASSUME EvidenceInv, [Next]_vars PROVE WritersHaveLogged'
  OBVIOUS
<1>0. /\ WritersHaveLogged /\ TypeOK /\ VerifyHasRow /\ pc \in [Procs -> Pc]
      /\ todo \in [Procs -> Seq(Evidence)]
  BY DEF EvidenceInv, TypeOK
<1>r. req' = req
  BY ActiveStays
<1>s. ASSUME \A q \in Procs : pc'[q] = "record" => pc[q] = "record" /\ todo'[q] = todo[q]
      PROVE  WritersHaveLogged'
  <2> SUFFICES ASSUME NEW q \in Procs, pc'[q] = "record"
               PROVE  Logged(Event(q))' \/ torn'
    BY DEF WritersHaveLogged
  <2>1. pc[q] = "record" /\ todo'[q] = todo[q]
    BY <1>s
  <2>2. PICK e : e = Event(q)
    OBVIOUS
  <2>3. Logged(e) \/ torn
    BY <1>0, <2>1, <2>2 DEF WritersHaveLogged
  <2>4. Logged(e)' \/ torn'
    BY <2>3, NothingIsUndone
  <2> QED BY <1>r, <2>1, <2>2, <2>4, EventStays
<1> USE DEF localVars
<1>1. ASSUME NEW p \in Procs, CheckImport(p) \/ CopySource(p) \/ HashEvidence(p) \/
            OpenManifest(p) \/ WriteManifest(p) \/ InsertEvidence(p) \/
            CompareManifest(p) \/ UpdateRow(p) \/ ReadLog(p) \/ CopyFails(p) \/
            ManifestFails(p) \/ AppendFails(p)
     PROVE WritersHaveLogged'
  BY <1>1, <1>0, <1>s DEF CheckImport, Goto, CopySource, HashEvidence, OpenManifest,
      WriteManifest, InsertEvidence, CompareManifest, UpdateRow, ReadLog, CopyFails,
      Fault, ManifestFails, AppendFails
<1>2. ASSUME NEW p \in Procs, SelectRows(p) PROVE WritersHaveLogged'
  BY <1>2, <1>0, <1>s DEF SelectRows, Goto
<1>3. ASSUME NEW p \in Procs, WriteEntry(p) PROVE WritersHaveLogged'
  <2>1. /\ todo' = todo /\ pc' = [pc EXCEPT ![p] = "record"]
    BY <1>3 DEF WriteEntry, Goto
  <2> SUFFICES ASSUME NEW q \in Procs, pc'[q] = "record"
               PROVE  Logged(Event(q))' \/ torn'
    BY DEF WritersHaveLogged
  <2>2. PICK e : e = Event(q)
    OBVIOUS
  <2>3. CASE q = p
    <3>1. Logged(e)' \/ torn'
      BY <1>3, <1>0, <2>2, <2>3, LogGrows
    <3> QED BY <1>r, <2>1, <2>2, <3>1, EventStays
  <2>4. CASE q # p
    <3>1. pc[q] = "record"
      BY <1>0, <2>1, <2>4
    <3>2. Logged(e) \/ torn
      BY <1>0, <2>2, <3>1 DEF WritersHaveLogged
    <3>3. Logged(e)' \/ torn'
      BY <3>2, NothingIsUndone
    <3> QED BY <1>r, <2>1, <2>2, <3>3, EventStays
  <2> QED BY <2>3, <2>4
<1>4. ASSUME NEW p \in Procs, RecordAction(p) PROVE WritersHaveLogged'
  BY <1>4, <1>0, <1>s DEF RecordAction, Goto
<1>5. ASSUME NEW p \in Procs, Crash(p) PROVE WritersHaveLogged'
  BY <1>5, <1>0, <1>s DEF Crash, Fault, Goto, Pc, End
<1>6. ASSUME NEW s \in Sources, NEW c \in Contents \cup {NoFile}, ChangeSource(s, c)
     PROVE WritersHaveLogged'
  BY <1>6, <1>0, <1>s DEF ChangeSource
<1>7. CASE UNCHANGED vars
  BY <1>7, <1>0, <1>s DEF vars
<1> QED BY <1>1, <1>2, <1>3, <1>4, <1>5, <1>6, <1>7 DEF Next, ProcNext, ProcFaults

\* What ImportsHaveLogged says of one row.
HasLogged(b, l) ==
  /\ pc[b] = "done" => Logged([by |-> b, label |-> l]) \/ torn
  /\ pc[b] = "failed" => faults # 0 \/ ~Custody!verify_chain(log)

LEMMA ImportsHaveLoggedIs ==
  /\ ImportsHaveLogged <=> \A r \in Rows : HasLogged(r.by, r.label)
  /\ ImportsHaveLogged' <=> \A r \in Rows' : HasLogged(r.by, r.label)'
BY DEF ImportsHaveLogged, HasLogged

\* An import that is done has logged its row.
LEMMA ImportsHaveLoggedKept == EvidenceInv /\ [Next]_vars => ImportsHaveLogged'
<1> SUFFICES ASSUME EvidenceInv, [Next]_vars PROVE ImportsHaveLogged'
  OBVIOUS
<1>0. /\ TypeOK /\ VerifyHasRow /\ Faultless /\ pc \in [Procs -> Pc]
      /\ \A r \in Rows : r.by \in Procs /\ IsImport(r.by) /\ r.label = req[r.by].label
      /\ \A r \in Rows :
           pc[r.by] \in {"append", "appending", "record", "done", "failed"}
      /\ \A r \in Rows : HasLogged(r.by, r.label)
  BY RowOwners, ImportsHaveLoggedIs DEF EvidenceInv, TypeOK, RowsOfImports
<1>g. /\ \A e : Logged(e) => Logged(e)'
      /\ torn => torn'
      /\ Custody!verify_chain(log)' => Custody!verify_chain(log)
      /\ faults # 0 => faults' # 0
  BY NothingIsUndone
<1>k. \A r \in Rows :
        /\ pc'[r.by] = "done" => pc[r.by] = "done"
        /\ pc'[r.by] = "failed" =>
             pc[r.by] = "failed" \/ faults' # 0 \/ ~Custody!verify_chain(log)'
        => HasLogged(r.by, r.label)'
  <2> SUFFICES ASSUME NEW b, NEW l, HasLogged(b, l),
                      pc'[b] = "done" => pc[b] = "done",
                      pc'[b] = "failed" =>
                        pc[b] = "failed" \/ faults' # 0 \/ ~Custody!verify_chain(log)'
               PROVE  HasLogged(b, l)'
    BY <1>0
  <2> QED BY <1>g DEF HasLogged
<1>s. ASSUME Rows' = Rows,
             \A r \in Rows :
               /\ pc'[r.by] = "done" => pc[r.by] = "done"
               /\ pc'[r.by] = "failed" =>
                    pc[r.by] = "failed" \/ faults' # 0 \/ ~Custody!verify_chain(log)'
      PROVE  ImportsHaveLogged'
  BY <1>k, <1>s, ImportsHaveLoggedIs
<1> USE DEF dbVars
<1>1. ASSUME NEW p \in Procs, CheckImport(p) \/ CopySource(p) \/ HashEvidence(p) \/
            OpenManifest(p) \/ WriteManifest(p) \/ SelectRows(p) \/
            CompareManifest(p) \/ WriteEntry(p) \/ CopyFails(p) \/ ManifestFails(p)
     PROVE ImportsHaveLogged'
  BY <1>1, <1>0, <1>s, RowsStay DEF CheckImport, Goto, CopySource, HashEvidence,
      OpenManifest, WriteManifest, SelectRows, CompareManifest, WriteEntry,
      CopyFails, Fault, ManifestFails
<1>2. ASSUME NEW p \in Procs, InsertEvidence(p) PROVE ImportsHaveLogged'
  <2>0. pc[p] = "insert" /\ \E to : pc' = [pc EXCEPT ![p] = to]
    BY <1>2 DEF InsertEvidence, Goto
  <2>1. \A r \in Rows : r.by # p
    BY <1>0, <2>0
  <2>2. \A r \in Rows : HasLogged(r.by, r.label)'
    BY <1>0, <1>k, <2>0, <2>1
  <2>3. CASE Labelled(req[p].label)
    BY <1>2, <2>2, <2>3, RowsStay, ImportsHaveLoggedIs DEF InsertEvidence
  <2>4. CASE ~Labelled(req[p].label)
    <3>1. PICK q : q = NewRow(p)
      OBVIOUS
    <3>2. Rows' = Rows \cup {q} /\ q.by = p
      BY <1>2, <2>4, <3>1, NewRowInserted
    <3>3. pc'[p] = "append"
      BY <1>2, <1>0, <2>4 DEF InsertEvidence, Goto
    <3>4. \A l : HasLogged(p, l)'
      BY <3>3 DEF HasLogged
    <3> QED BY <2>2, <3>2, <3>4, ImportsHaveLoggedIs
  <2> QED BY <2>3, <2>4
<1>3. ASSUME NEW p \in Procs, UpdateRow(p) PROVE ImportsHaveLogged'
  <2>1. Rows' = {Updated(p, r) : r \in Rows}
    BY <1>3, <1>0, RowsUpdated
  <2>2. \A r \in Rows : Updated(p, r).by = r.by /\ Updated(p, r).label = r.label
    BY <1>0, RowsAre DEF Updated, Evidence
  <2>3. pc' = [pc EXCEPT ![p] = "append"]
    BY <1>3 DEF UpdateRow, Goto
  <2>4. \A r \in Rows : HasLogged(r.by, r.label)'
    BY <1>0, <1>k, <2>3
  <2>5. ASSUME NEW r \in Rows' PROVE HasLogged(r.by, r.label)'
    <3>1. PICK o \in Rows : r.by = o.by /\ r.label = o.label
      BY <2>1, <2>2
    <3> QED BY <2>4, <3>1
  <2> QED BY <2>5, ImportsHaveLoggedIs
<1>4. ASSUME NEW p \in Procs, ReadLog(p) PROVE ImportsHaveLogged'
  <2>1. Rows' = Rows
    BY <1>4, RowsStay DEF ReadLog
  <2>2. \/ pc' = [pc EXCEPT ![p] = "appending"]
        \/ pc' = [pc EXCEPT ![p] = "failed"] /\ LogRefuses
    BY <1>4 DEF ReadLog, Goto
  <2>3. LogRefuses => faults' # 0 \/ ~Custody!verify_chain(log)'
    BY <1>0, <1>g DEF LogRefuses, Faultless
  <2> QED BY <1>0, <1>s, <2>1, <2>2, <2>3
<1>5. ASSUME NEW p \in Procs, AppendFails(p) PROVE ImportsHaveLogged'
  <2>1. Rows' = Rows /\ faults' # 0 /\ pc' = [pc EXCEPT ![p] = "failed"]
    BY <1>5, <1>0, RowsStay, FaultsCount DEF AppendFails, Goto
  <2> QED BY <1>0, <1>s, <2>1
<1>6. ASSUME NEW p \in Procs, RecordAction(p) PROVE ImportsHaveLogged'
  <2>1. /\ Rows' = Rows /\ pc[p] = "record"
        /\ \E to \in {"done", "compare"} : pc' = [pc EXCEPT ![p] = to]
    BY <1>6, RowsStay DEF RecordAction, Goto
  <2>2. ASSUME NEW r \in Rows, r.by = p PROVE HasLogged(r.by, r.label)'
    <3>1. PICK e : e = Event(p)
      OBVIOUS
    <3>2. e = [by |-> r.by, label |-> r.label]
      <4>1. r.label = req[p].label /\ req[p].cmd # "verify"
        BY <1>0, <2>2, RequestFields
      <4> QED BY <2>2, <3>1, <4>1 DEF Event
    <3>3. Logged(e) \/ torn
      BY <2>1, <3>1 DEF EvidenceInv, WritersHaveLogged
    <3>4. Logged(e)' \/ torn'
      BY <1>g, <3>3
    <3>5. pc'[r.by] # "failed"
      BY <1>0, <2>1, <2>2
    <3> QED BY <3>2, <3>4, <3>5 DEF HasLogged
  <2>3. \A r \in Rows : r.by # p => HasLogged(r.by, r.label)'
    BY <1>0, <1>k, <2>1
  <2> QED BY <2>1, <2>2, <2>3, ImportsHaveLoggedIs
<1>7. ASSUME NEW p \in Procs, Crash(p) PROVE ImportsHaveLogged'
  <2>1. Rows' = Rows /\ faults' # 0 /\ pc' = [pc EXCEPT ![p] = "failed"]
    BY <1>7, <1>0, RowsStay, FaultsCount DEF Crash, Goto
  <2> QED BY <1>0, <1>s, <2>1
<1>8. ASSUME NEW s \in Sources, NEW c \in Contents \cup {NoFile}, ChangeSource(s, c)
     PROVE ImportsHaveLogged'
  BY <1>8, <1>0, <1>s, RowsStay DEF ChangeSource
<1>9. CASE UNCHANGED vars
  BY <1>9, <1>0, <1>s, RowsStay DEF vars
<1> QED BY <1>1, <1>2, <1>3, <1>4, <1>5, <1>6, <1>7, <1>8, <1>9 DEF Next, ProcNext,
     ProcFaults

\* An action is recorded after its entry.
LEMMA ActionsAreLoggedKept == EvidenceInv /\ [Next]_vars => ActionsAreLogged'
<1> SUFFICES ASSUME EvidenceInv, [Next]_vars PROVE ActionsAreLogged'
  OBVIOUS
<1>0. ActionsAreLogged /\ WritersHaveLogged
  BY DEF EvidenceInv
<1>g. (\A e : Logged(e) => Logged(e)') /\ (torn => torn')
  BY NothingIsUndone
<1>s. ASSUME actions' = actions PROVE ActionsAreLogged'
  BY <1>0, <1>g, <1>s DEF ActionsAreLogged
<1> USE DEF dbVars
<1>1. ASSUME NEW p \in Procs, CheckImport(p) \/ CopySource(p) \/ HashEvidence(p) \/
            OpenManifest(p) \/ WriteManifest(p) \/ InsertEvidence(p) \/
            SelectRows(p) \/ CompareManifest(p) \/ UpdateRow(p) \/ ReadLog(p) \/
            WriteEntry(p) \/ CopyFails(p) \/ ManifestFails(p) \/ AppendFails(p) \/
            Crash(p)
     PROVE ActionsAreLogged'
  BY <1>1, <1>s DEF CheckImport, Goto, CopySource, HashEvidence, OpenManifest,
      WriteManifest, InsertEvidence, SelectRows, CompareManifest, UpdateRow,
      ReadLog, WriteEntry, CopyFails, Fault, ManifestFails, AppendFails, Crash
<1>2. ASSUME NEW p \in Procs, RecordAction(p) PROVE ActionsAreLogged'
  <2>1. PICK e : e = Event(p)
    OBVIOUS
  <2>2. actions' = actions \cup {e} /\ pc[p] = "record"
    BY <1>2, <2>1 DEF RecordAction
  <2>3. Logged(e) \/ torn
    BY <1>0, <2>1, <2>2 DEF WritersHaveLogged
  <2> QED BY <1>0, <1>g, <2>2, <2>3 DEF ActionsAreLogged
<1>3. ASSUME NEW s \in Sources, NEW c \in Contents \cup {NoFile}, ChangeSource(s, c)
     PROVE ActionsAreLogged'
  BY <1>3, <1>s DEF ChangeSource
<1>4. CASE UNCHANGED vars
  BY <1>4, <1>s DEF vars
<1> QED BY <1>1, <1>2, <1>3, <1>4 DEF Next, ProcNext, ProcFaults

-----------------------------------------------------------------------------
\* The type invariant is its parts.
LEMMA TypeParts ==
  TypeOK <=> /\ CommandTypes /\ FileTypes /\ ManifestTypes /\ RowTypes /\ TodoTypes
             /\ Custody!TypeOK /\ Appenders
BY DEF TypeOK, CommandTypes, FileTypes, ManifestTypes, RowTypes, UniqueLabels, TodoTypes,
  Appenders

\* A case without evidence.
LEMMA EvidenceInit == Init => EvidenceInv
<1> SUFFICES ASSUME Init PROVE EvidenceInv
  OBVIOUS
<1>1. /\ pc = [p \in Procs |-> "new"] /\ req \in [Procs -> Requests]
      /\ entries = [p \in Procs |-> Nothing] /\ todo = [p \in Procs |-> <<>>]
      /\ verdict = [p \in Procs |-> FALSE] /\ actions = {} /\ moved = {}
  BY DEF Init
<1>2. /\ File!Init /\ torn = FALSE /\ appending = {}
  BY SameFile DEF Init, Custody!Init
<1>3. Custody!TypeOK
  BY <1>2, File!TypeInit, SameFile, BoundsAssumption
<1>4. evidence = <<>> /\ evidence \in Seq(Evidence) /\ Rows = {}
      /\ 1..Len(evidence) = {}
  BY EmptySeq DEF Init, Rows
<1>5. Nothing \in Listing
  BY DEF Nothing, Listing
<1>6. CommandTypes
  <2>1. pc \in [Procs -> Pc]
    BY <1>1 DEF Pc
  <2>2. faults \in 0..MaxFaults
    BY BoundsAssumption DEF Init
  <2> QED BY <1>1, <2>1, <2>2 DEF CommandTypes
<1>7. FileTypes
  <2>1. src \in Listing
    BY DEF Init, Listing
  <2>2. vault \in [Kinds -> [Labels -> Listing]]
    BY <1>5 DEF Init
  <2> QED BY <1>1, <1>5, <2>1, <2>2 DEF FileTypes
<1>8. ManifestTypes
  BY DEF Init, ManifestTypes
<1>9. RowTypes
  BY <1>4 DEF RowTypes, UniqueLabels
<1>10. TodoTypes
  BY <1>1, EmptySeq DEF TodoTypes
<1>11. Appenders
  BY <1>1, <1>2 DEF Appenders
<1>12. TypeOK
  BY <1>3, <1>6, <1>7, <1>8, <1>9, <1>10, <1>11, TypeParts
<1>13. OnTheirPaths
  BY <1>1, <1>12, RequestFields DEF OnTheirPaths, Paths
<1>14. VerifyHasRow /\ NotHashedYet
  BY <1>1 DEF VerifyHasRow, NotHashedYet
<1>15. RowsOfImports /\ SoleClaimVerifies /\ ImportsHaveLogged
  BY <1>4 DEF RowsOfImports, SoleClaimVerifies, ImportsHaveLogged
<1>16. TodoAreRows
  <2>1. \A p \in Procs : 1..Len(todo[p]) = {}
    BY <1>1, EmptySeq
  <2> QED BY <2>1 DEF TodoAreRows
<1>17. ManifestOpened /\ VerdictIsDue /\ WritersHaveLogged
  BY <1>1 DEF ManifestOpened, VerdictIsDue, WritersHaveLogged
<1>18. AloneInManifest
  <2>1. \A p \in Procs : ~HasRow(p)
    BY <1>4 DEF HasRow
  <2> QED BY <1>1, <2>1 DEF AloneInManifest
<1>19. AloneInVault /\ SourceWatched
  BY <1>1, MatchesFacts DEF AloneInVault, SourceWatched
<1>20. ActionsAreLogged /\ Faultless
  BY <1>1, <1>2 DEF ActionsAreLogged, Faultless
<1> QED
  BY <1>12, <1>13, <1>14, <1>15, <1>16, <1>17, <1>18, <1>19, <1>20 DEF EvidenceInv

\* Every step keeps every part of the invariant.
LEMMA EvidenceStep == EvidenceInv /\ [Next]_vars => EvidenceInv'
<1> SUFFICES ASSUME EvidenceInv, [Next]_vars PROVE EvidenceInv'
  OBVIOUS
<1>1. /\ CommandTypes' /\ FileTypes' /\ ManifestTypes' /\ RowTypes' /\ TodoTypes'
      /\ Custody!TypeOK' /\ Appenders'
  BY CommandTypesKept, FileTypesKept, ManifestTypesKept, RowTypesKept, TodoTypesKept,
     LogTypes, AppendersKept
<1>2. TypeOK'
  BY <1>1
  DEF TypeOK, CommandTypes, FileTypes, ManifestTypes, RowTypes, UniqueLabels, TodoTypes,
      Appenders
<1>3. /\ OnTheirPaths' /\ VerifyHasRow' /\ NotHashedYet' /\ RowsOfImports'
      /\ TodoAreRows' /\ ManifestOpened'
  BY PathsKept, VerifyHasRowKept, NotHashedYetKept, RowsOfImportsKept, TodoAreRowsKept,
     ManifestOpenedKept
<1>4. /\ AloneInManifest' /\ AloneInVault' /\ SourceWatched' /\ VerdictIsDue'
      /\ SoleClaimVerifies'
  BY AloneInManifestKept, AloneInVaultKept, SourceWatchedKept, VerdictIsDueKept,
     SoleClaimVerifiesKept
<1>5. WritersHaveLogged' /\ ImportsHaveLogged' /\ ActionsAreLogged' /\ Faultless'
  BY WritersHaveLoggedKept, ImportsHaveLoggedKept, ActionsAreLoggedKept, FaultlessKept
<1> QED BY <1>2, <1>3, <1>4, <1>5 DEF EvidenceInv

LEMMA EvidenceInvariance == Spec => []EvidenceInv
BY EvidenceInit, EvidenceStep, PTL DEF Spec

-----------------------------------------------------------------------------
\* The variables always have values a run of the commands can give them: the rows of a
\* case have labels of their own.
THEOREM EvidenceTypeCorrect == Spec => []TypeOK
<1>1. EvidenceInv => TypeOK
  BY DEF EvidenceInv
<1> QED BY <1>1, EvidenceInvariance, PTL

\* Each step of a command is a step of dfirlab's custody log, or leaves it alone.
THEOREM EvidenceRefinesLab == Spec => Custody!LabSpec
<1>1. Init => Custody!Init
  BY DEF Init
<1>2. EvidenceInv => TypeOK /\ VerifyHasRow
  BY DEF EvidenceInv
<1> QED
  BY <1>1, <1>2, StepOfLog, EvidenceInvariance, PTL DEF Spec, Custody!LabSpec

\* Whatever commands run at once, append_entry never extends a log that does not verify:
\* each entry continues a prefix that verifies.
THEOREM EvidenceOnNoFork == Spec => []Custody!EntriesExtendVerified
<1>1. Init => File!Init
  BY SameFile DEF Init
<1>2. EvidenceInv /\ [Next]_vars => [File!LabNext]_File!vars
  BY StepOfLog, SameFile DEF EvidenceInv, Custody!vars, File!vars
<1>3. File!EntriesExtendVerified => Custody!EntriesExtendVerified
  BY SameFile
<1>4. File!LabSpec => []File!EntriesExtendVerified
  BY File!NothingOnAFork, BoundsAssumption
<1> QED
  BY <1>1, <1>2, <1>3, <1>4, EvidenceInvariance, PTL DEF Spec, File!LabSpec

\* Evidence whose label no other import has claimed is what was recorded when it was
\* imported: its manifest lists the items of its row, and a copy in the vault has them.
THEOREM SoleClaimsAreIntact == Spec => []SoleClaimIsIntact
<1>1. EvidenceInv => SoleClaimIsIntact
  <2> SUFFICES ASSUME EvidenceInv, NEW r \in Rows, Claims(r.label) = {r.by}
               PROVE  /\ manifest[r.label] = r.items
                      /\ r.mode = "copy" => Matches(r.items, vault[r.kind][r.label])
    BY DEF SoleClaimIsIntact
  <2>1. /\ r.by \in Procs /\ IsImport(r.by) /\ r.kind = kind[req[r.by].cmd]
        /\ r.label = req[r.by].label /\ r.mode = req[r.by].mode
        /\ r.items = entries[r.by]
    BY RowOwners DEF EvidenceInv, RowsOfImports
  <2>2. Alone(r.by) /\ HasRow(r.by)
    BY <2>1 DEF Alone, HasRow
  <2>3. manifest[r.label] = r.items
    BY <2>1, <2>2 DEF EvidenceInv, AloneInManifest
  <2>4. r.mode = "copy" => Matches(r.items, OwnDir(r.by))
    BY <2>1, <2>2 DEF EvidenceInv, AloneInVault
  <2> QED BY <2>1, <2>3, <2>4 DEF OwnDir
<1> QED BY <1>1, EvidenceInvariance, PTL

\* Under the same condition verify_case fails only evidence that is outside the case and
\* has changed since it was hashed.
THEOREM SoleClaimsVerify == Spec => []SoleClaimVerifies
<1>1. EvidenceInv => SoleClaimVerifies
  BY DEF EvidenceInv
<1> QED BY <1>1, EvidenceInvariance, PTL

\* record_action never records what the custody log does not show, unless a torn line
\* hides it; without faults or a fork, an import that has ended with a row has its entry.
THEOREM LogAndRowsAgree == Spec => []LogAgrees
<1>1. EvidenceInv => LogAgrees
  <2> SUFFICES ASSUME EvidenceInv
               PROVE  LogAgrees
    OBVIOUS
  <2>1. ~torn => \A e \in actions : Logged(e)
    BY DEF EvidenceInv, ActionsAreLogged
  <2>2. ASSUME faults = 0, Custody!verify_chain(log), NEW r \in Rows, pc[r.by] \in End
        PROVE  Logged([by |-> r.by, label |-> r.label])
    <3>1. pc[r.by] \in {"done", "failed"}
      BY <2>2 DEF EvidenceInv, RowsOfImports, End
    <3>2. pc[r.by] = "done" /\ ~torn
      BY <2>2, <3>1 DEF EvidenceInv, ImportsHaveLogged, Faultless
    <3> QED BY <3>2 DEF EvidenceInv, ImportsHaveLogged
  <2> QED BY <2>1, <2>2 DEF LogAgrees
<1> QED BY <1>1, EvidenceInvariance, PTL
=============================================================================

