-------------------------- MODULE CaseRecords_proofs --------------------------
(***************************************************************************)
(* Proofs about CaseRecords, for any requests, values and bounds:          *)
(*                                                                         *)
(*   RecordsTypeCorrect   Spec => []TypeOK                                 *)
(*   RecordsRefineFile    Spec => Custody!Spec                             *)
(*   RecordsLinksKnown    Spec => []Custody!EveryLinkKnown                 *)
(*   AnsweredCaseIsThere  Spec => []AnsweredIsCreated                      *)
(*   LogBeginsWithCreate  Spec => []CreateIsFirst                          *)
(*   ScansAreComplete     Spec => []ScanIsComplete                         *)
(*   SerialRunsAreUnique  Spec => []SerialIsUnique                         *)
(***************************************************************************)
EXTENDS CaseRecords, SequenceTheorems, TLAPS

\* What is proved of CustodyFile, for the log of the case.
File == INSTANCE Custody_proofs WITH Writers <- Reqs, Bodies <- Reqs

\* What the handlers and the scans keep for themselves.
Sessions ==
  /\ toCheck \in [Reqs -> SUBSET (Values \cup Pair)]
  /\ added \in [Reqs -> SUBSET (Values \cup Pair)]

\* Where the handler of each kind of request can be.
Paths(r) ==
  /\ req[r].cmd = "create" =>
       pc[r] \in {"new", "dirs", "append", "appending", "audit", "done", "failed"}
  /\ req[r].cmd = "log" =>
       pc[r] \in {"new", "append", "appending", "done", "refused", "failed"}
  /\ req[r].cmd = "ioc" =>
       pc[r] \in {"new", "ioc", "select", "scan", "check", "done", "refused", "failed"}
  /\ req[r].cmd = "index" => pc[r] \in {"new", "index", "done", "failed"}
  /\ req[r].cmd \in {"create", "log", "ioc", "index"}

OnTheirPaths == \A r \in Reqs : Paths(r)

\* The case is made by the one request that creates it.
OneCreator == \E r \in Reqs : Creators = {r}

CreatorFollows ==
  \A r \in Creators :
    /\ caseRow <=> pc[r] # "new"
    /\ pc[r] \in {"append", "appending", "audit", "done"} => dirs
    /\ pc[r] \in {"audit", "done"} => Logged(r) \/ torn
    /\ faults = 0 => pc[r] # "failed"

\* Without faults no line is torn.
Faultless == faults = 0 => ~torn

\* Who uses the case early is seen; the first append of all starts the chain.
NobodyEarlier ==
  ~early =>
    \A r \in Reqs :
      req[r].cmd = "log" /\ pc[r] \in {"append", "appending"} =>
        \A q \in Creators : pc[q] = "done"

FirstLink == log = <<>> => \A r \in appending : tail[r] = Custody!GENESIS_HASH

\* What a scan has still to check or to add are pairs of what is in the tables.
ScanPairs ==
  \A r \in Reqs :
    req[r].cmd = "ioc" =>
      owed[r] \cup toCheck[r] \cup added[r] \subseteq Matching(iocs, entities)

\* What a scan owes it has found, or will look at.
ScanCovers ==
  \A r \in Reqs :
    req[r].cmd = "ioc" =>
      /\ pc[r] # "check" => toCheck[r] = {}
      /\ pc[r] \in Scanning =>
           \A p \in owed[r] :
             Matched(p) \/ p \in added[r] \/ p \in toCheck[r] \/ p.ioc \in toScan[r]

\* Only who is at it has something added.
AddedBy ==
  \A r \in Reqs : added[r] # {} => pc[r] \in {"scan", "check", "index"}

\* Until two scans overlap there is one, and what it has added is not matched yet.
OneScan ==
  ~scansOverlapped =>
    /\ \A q, r \in Reqs : pc[q] \in Scanning /\ pc[r] \in Scanning => q = r
    /\ \A r \in Reqs : pc[r] \in Scanning => \A p \in added[r] : ~Matched(p)

\* Likewise for index runs.
OneRun ==
  ~runsOverlapped =>
    /\ \A q, r \in Reqs : pc[q] = "index" /\ pc[r] = "index" => q = r
    /\ \A r \in Reqs : pc[r] = "index" => \A v \in added[r] : ~Known(v)

CaseInv ==
  /\ TypeOK /\ Sessions /\ OnTheirPaths /\ OneCreator /\ CreatorFollows /\ Faultless
  /\ NobodyEarlier /\ FirstLink /\ CreateIsFirst /\ ScanPairs /\ ScanCovers /\ AddedBy
  /\ ScanIsComplete /\ OneScan /\ OneRun /\ SerialIsUnique

-----------------------------------------------------------------------------
\* Both instances of CustodyFile are one.
LEMMA SameFile ==
  /\ Custody!TypeOK <=> File!TypeOK
  /\ Custody!Init <=> File!Init
  /\ Custody!Next <=> File!Next
  /\ Custody!vars = File!vars
  /\ Custody!EveryLinkKnown <=> File!EveryLinkKnown
  /\ \A p, b : Custody!WriteEntry(p, b) <=> File!WriteEntry(p, b)
  /\ Custody!verify_chain(<<log[1]>>) <=> File!verify_chain(<<log[1]>>)
BY DEF Custody!TypeOK, File!TypeOK, Custody!Init, File!Init, Custody!Next, File!Next,
  Custody!vars, File!vars, Custody!EveryLinkKnown, File!EveryLinkKnown,
  Custody!ReadTail, File!ReadTail, Custody!WriteEntry, File!WriteEntry,
  Custody!AbandonAppend, File!AbandonAppend, Custody!TearLine, File!TearLine,
  Custody!PowerLoss, File!PowerLoss, Custody!EndAppend, File!EndAppend,
  Custody!NewEntry, File!NewEntry, Custody!last_entry_hash, File!last_entry_hash,
  Custody!compute_entry_hash, File!compute_entry_hash,
  Custody!GENESIS_HASH, File!GENESIS_HASH, Custody!CustodyEntry, File!CustodyEntry,
  Custody!Hashes, File!Hashes, Custody!verify_chain, File!verify_chain

LEMMA SameTypes == Custody!TypeOK' <=> File!TypeOK'
BY DEF Custody!TypeOK, File!TypeOK, Custody!CustodyEntry, File!CustodyEntry,
  Custody!Hashes, File!Hashes, Custody!GENESIS_HASH, File!GENESIS_HASH

\* The requests stay, and have the fields of their kind.
LEMMA RequestFields ==
  ASSUME TypeOK, NEW r \in Reqs
  PROVE  /\ req[r].cmd \in {"create", "log", "ioc", "index"}
         /\ req[r].cmd = "ioc" => req[r].value \in Values
         /\ req[r].cmd = "index" => req[r].values \subseteq Values
<1>1. req[r] \in Request
  BY RequestsAssumption DEF TypeOK
<1> QED BY <1>1 DEF Request

LEMMA SameRequests == [Next]_vars => req' = req
BY DEF Next, Step, vars, Goto, BeginScan, CommitCase, MakeDirs, UseCase, ReadTail,
  WriteEntry, AppendFails, Audit, AuditFails, CheckCase, CommitIoc, SelectIocs,
  SelectEntities, CheckPair, NextIoc, CommitScan, ParseText, CheckEntity,
  CommitEntities, Fails

\* Each step of a handler is a step of the log, or leaves the log alone.
LEMMA StepOfLog == [Next]_vars => [Custody!Next]_Custody!vars
<1> SUFFICES ASSUME [Next]_vars PROVE [Custody!Next]_Custody!vars
  OBVIOUS
<1> USE DEF custodyVars, Custody!vars
<1>1. ASSUME NEW r \in Reqs, ReadTail(r) PROVE [Custody!Next]_Custody!vars
  BY <1>1 DEF ReadTail, Custody!Next
<1>2. ASSUME NEW r \in Reqs, WriteEntry(r) PROVE [Custody!Next]_Custody!vars
  BY <1>2 DEF WriteEntry, Custody!Next
<1>3. ASSUME NEW r \in Reqs, AppendFails(r) PROVE [Custody!Next]_Custody!vars
  BY <1>3 DEF AppendFails, Custody!Next
<1>4. ASSUME NEW r \in Reqs, Fails(r) PROVE [Custody!Next]_Custody!vars
  BY <1>4 DEF Fails, Custody!Next
<1>5. CASE UNCHANGED custodyVars
  BY <1>5
<1> QED
  BY <1>1, <1>2, <1>3, <1>4, <1>5
  DEF Next, Step, vars, CommitCase, MakeDirs, UseCase, Audit, AuditFails, CheckCase,
      CommitIoc, SelectIocs, BeginScan, SelectEntities, CheckPair, NextIoc, CommitScan,
      ParseText, CheckEntity, CommitEntities

\* The faults are counted.
Faulted == faults' \in 1..MaxFaults

LEMMA FaultsCount ==
  /\ TypeOK /\ Fault => Faulted
  /\ Faulted => faults' # 0 /\ faults' \in 0..MaxFaults
<1>1. TypeOK => faults \in 0..MaxFaults
  BY DEF TypeOK
<1> QED BY <1>1, BoundsAssumption DEF Fault, Faulted

\* A log that stays has the same entries in it.
LEMMA LogStays ==
  ASSUME log' = log
  PROVE  \A q : Logged(q)' <=> Logged(q)
BY DEF Logged

\* An append adds its entry to those in the log, or a torn line hides it.
LEMMA LogGrows ==
  ASSUME TypeOK, NEW r \in Reqs, WriteEntry(r)
  PROVE  /\ torn' = torn
         /\ ~torn => \A q : q = r => Logged(q)'
         /\ \A q : Logged(q) => Logged(q)'
         /\ log # <<>> => log' # <<>> /\ log'[1] = log[1]
         /\ log = <<>> /\ log' # <<>> => ~torn /\ log'[1] = Custody!NewEntry(r, tail[r])
         /\ log' # <<>> => log'[1] \in Custody!CustodyEntry
         /\ r \in appending /\ tail[r] \in Custody!Hashes
<1>1. File!TypeOK /\ File!WriteEntry(r, r)
  BY SameFile DEF WriteEntry, TypeOK
<1>2. \A q : (Logged(q) <=> File!InFile(q)) /\ (Logged(q)' <=> File!InFile(q)')
  BY DEF Logged, File!InFile
<1>3. /\ torn' = torn
      /\ ~torn => File!InFile(r)'
      /\ \A q : File!InFile(q) => File!InFile(q)'
  BY <1>1, File!FileGrows, BoundsAssumption
<1>4. /\ log # <<>> => log' # <<>> /\ log'[1] = log[1]
      /\ log = <<>> /\ log' # <<>> => ~torn /\ log'[1] = File!NewEntry(r, tail[r])
      /\ log' # <<>> => log'[1] \in File!CustodyEntry
  BY <1>1, File!FirstWritten, BoundsAssumption
<1>5. /\ Custody!NewEntry(r, tail[r]) = File!NewEntry(r, tail[r])
      /\ Custody!CustodyEntry = File!CustodyEntry
  BY DEF Custody!NewEntry, File!NewEntry, Custody!compute_entry_hash,
    File!compute_entry_hash, Custody!CustodyEntry, File!CustodyEntry, Custody!Hashes,
    File!Hashes
<1>6. r \in appending /\ tail[r] \in Custody!Hashes
  BY DEF WriteEntry, Custody!WriteEntry, TypeOK, Custody!TypeOK
<1> QED BY <1>2, <1>3, <1>4, <1>5, <1>6

-----------------------------------------------------------------------------
\* What a step on the indicators and the entities is to the case and its log, and the
\* other way round.
Handling == {"append", "appending", "audit", "dirs"}

Indexes(r) ==
  /\ req[r].cmd \in {"ioc", "index"}
  /\ \E to \in Pc \ Handling : pc' = [pc EXCEPT ![r] = to]
  /\ UNCHANGED <<req, caseVars, early, faults, custodyVars>>

Working == {"scan", "check", "index"}

Elsewhere(r) ==
  /\ pc[r] \notin Working \cup {"ioc", "select"}
  /\ \E to \in Pc \ Working :
       pc' = [pc EXCEPT ![r] = to] /\ (to = "done" => req[r].cmd # "ioc")
  /\ UNCHANGED <<req, tableVars, sessionVars, owed, scansOverlapped, runsOverlapped>>

\* The steps of add_ioc and of the Indexer leave the case alone.
LEMMA IndexSteps ==
  ASSUME TypeOK, OnTheirPaths, NEW r \in Reqs,
         CheckCase(r) \/ CommitIoc(r) \/ SelectIocs(r) \/ SelectEntities(r) \/
             CheckPair(r) \/ NextIoc(r) \/ CommitScan(r) \/ ParseText(r) \/
             CheckEntity(r) \/ CommitEntities(r)
  PROVE  Indexes(r)
<1>0. pc \in [Reqs -> Pc] /\ Paths(r)
  BY DEF TypeOK, OnTheirPaths
<1> USE DEF Indexes, Handling, caseVars, tableVars, sessionVars, histVars,
    custodyVars, Pc, End, Paths
<1>1. CASE CheckCase(r)
  BY <1>0, <1>1 DEF CheckCase, Goto
<1>2. CASE CommitIoc(r)
  BY <1>0, <1>2 DEF CommitIoc, Goto
<1>3. CASE SelectIocs(r)
  BY <1>0, <1>3 DEF SelectIocs, BeginScan, Goto
<1>4. CASE SelectEntities(r)
  BY <1>0, <1>4 DEF SelectEntities, Goto
<1>5. CASE CheckPair(r)
  BY <1>0, <1>5 DEF CheckPair
<1>6. CASE NextIoc(r)
  BY <1>0, <1>6 DEF NextIoc, Goto
<1>7. CASE CommitScan(r)
  BY <1>0, <1>7 DEF CommitScan, Goto
<1>8. CASE ParseText(r)
  BY <1>0, <1>8 DEF ParseText, Goto
<1>9. CASE CheckEntity(r)
  BY <1>0, <1>9 DEF CheckEntity
<1>10. CASE CommitEntities(r)
  BY <1>0, <1>10 DEF CommitEntities, Goto
<1> QED BY <1>1, <1>2, <1>3, <1>4, <1>5, <1>6, <1>7, <1>8, <1>9, <1>10

\* The other steps leave the tables and the sessions alone.
LEMMA CaseSteps ==
  ASSUME TypeOK, OnTheirPaths, NEW r \in Reqs,
         CommitCase(r) \/ MakeDirs(r) \/ UseCase(r) \/ ReadTail(r) \/ WriteEntry(r)
             \/ AppendFails(r) \/ Audit(r) \/ AuditFails(r) \/ CheckCase(r)
  PROVE  Elsewhere(r)
<1>0. pc \in [Reqs -> Pc] /\ Paths(r)
  BY DEF TypeOK, OnTheirPaths
<1> USE DEF Elsewhere, Working, caseVars, tableVars, sessionVars, histVars,
    custodyVars, Pc, End, Paths
<1>1. CASE CommitCase(r)
  BY <1>0, <1>1 DEF CommitCase, Goto
<1>2. CASE MakeDirs(r)
  BY <1>0, <1>2 DEF MakeDirs, Goto
<1>3. CASE UseCase(r)
  BY <1>0, <1>3 DEF UseCase, Goto
<1>4. CASE ReadTail(r)
  BY <1>0, <1>4 DEF ReadTail, Goto
<1>5. CASE WriteEntry(r)
  BY <1>0, <1>5 DEF WriteEntry, Goto
<1>6. CASE AppendFails(r)
  BY <1>0, <1>6 DEF AppendFails, Fault, Goto
<1>7. CASE Audit(r)
  BY <1>0, <1>7 DEF Audit, Goto
<1>8. CASE AuditFails(r)
  BY <1>0, <1>8 DEF AuditFails, Fault, Goto
<1>9. CASE CheckCase(r)
  BY <1>0, <1>9 DEF CheckCase, Goto
<1> QED BY <1>1, <1>2, <1>3, <1>4, <1>5, <1>6, <1>7, <1>8, <1>9

-----------------------------------------------------------------------------
\* One lemma for each part of the invariant.

\* Nobody leaves its path.
LEMMA PathsKept == CaseInv /\ [Next]_vars => OnTheirPaths'
<1> SUFFICES ASSUME CaseInv, [Next]_vars PROVE OnTheirPaths'
  OBVIOUS
<1>0. pc \in [Reqs -> Pc] /\ \A r \in Reqs : Paths(r)
  BY DEF CaseInv, TypeOK, OnTheirPaths
<1> USE DEF OnTheirPaths, Paths
<1>1. ASSUME NEW r \in Reqs, CommitCase(r) PROVE OnTheirPaths'
  BY <1>1, <1>0 DEF CommitCase, Goto
<1>2. ASSUME NEW r \in Reqs, MakeDirs(r) PROVE OnTheirPaths'
  BY <1>2, <1>0 DEF MakeDirs, Goto
<1>3. ASSUME NEW r \in Reqs, UseCase(r) PROVE OnTheirPaths'
  BY <1>3, <1>0 DEF UseCase, Goto
<1>4. ASSUME NEW r \in Reqs, ReadTail(r) PROVE OnTheirPaths'
  BY <1>4, <1>0 DEF ReadTail, Goto
<1>5. ASSUME NEW r \in Reqs, WriteEntry(r) PROVE OnTheirPaths'
  BY <1>5, <1>0 DEF WriteEntry, Goto
<1>6. ASSUME NEW r \in Reqs, AppendFails(r) PROVE OnTheirPaths'
  BY <1>6, <1>0 DEF AppendFails, Fault, Goto
<1>7. ASSUME NEW r \in Reqs, Audit(r) PROVE OnTheirPaths'
  BY <1>7, <1>0 DEF Audit, Goto
<1>8. ASSUME NEW r \in Reqs, AuditFails(r) PROVE OnTheirPaths'
  BY <1>8, <1>0 DEF AuditFails, Fault, Goto
<1>9. ASSUME NEW r \in Reqs, CheckCase(r) PROVE OnTheirPaths'
  BY <1>9, <1>0 DEF CheckCase, Goto
<1>10. ASSUME NEW r \in Reqs, CommitIoc(r) PROVE OnTheirPaths'
  BY <1>10, <1>0 DEF CommitIoc, Goto
<1>11. ASSUME NEW r \in Reqs, SelectIocs(r) PROVE OnTheirPaths'
  BY <1>11, <1>0 DEF SelectIocs, BeginScan, Goto
<1>12. ASSUME NEW r \in Reqs, SelectEntities(r) PROVE OnTheirPaths'
  BY <1>12, <1>0 DEF SelectEntities, Goto
<1>13. ASSUME NEW r \in Reqs, CheckPair(r) PROVE OnTheirPaths'
  BY <1>13, <1>0 DEF CheckPair
<1>14. ASSUME NEW r \in Reqs, NextIoc(r) PROVE OnTheirPaths'
  BY <1>14, <1>0 DEF NextIoc, Goto
<1>15. ASSUME NEW r \in Reqs, CommitScan(r) PROVE OnTheirPaths'
  BY <1>15, <1>0 DEF CommitScan, Goto
<1>16. ASSUME NEW r \in Reqs, ParseText(r) PROVE OnTheirPaths'
  BY <1>16, <1>0 DEF ParseText, Goto
<1>17. ASSUME NEW r \in Reqs, CheckEntity(r) PROVE OnTheirPaths'
  BY <1>17, <1>0 DEF CheckEntity
<1>18. ASSUME NEW r \in Reqs, CommitEntities(r) PROVE OnTheirPaths'
  BY <1>18, <1>0 DEF CommitEntities, Goto
<1>19. ASSUME NEW r \in Reqs, Fails(r) PROVE OnTheirPaths'
  BY <1>19, <1>0 DEF Fails, Fault, Goto, Pc, End
<1>20. CASE UNCHANGED vars
  BY <1>20, <1>0 DEF vars
<1> QED BY <1>1, <1>2, <1>3, <1>4, <1>5, <1>6, <1>7, <1>8, <1>9, <1>10, <1>11,
     <1>12, <1>13, <1>14, <1>15, <1>16, <1>17, <1>18, <1>19, <1>20 DEF Next, Step

\* The creator stays the same.
LEMMA CreatorStays == [Next]_vars => Creators' = Creators
BY SameRequests DEF Creators

LEMMA OneCreatorKept == CaseInv /\ [Next]_vars => OneCreator'
BY CreatorStays DEF OneCreator, CaseInv

\* The log, and who is at it.
LEMMA LogTypes == CaseInv /\ [Next]_vars => Custody!TypeOK'
<1> SUFFICES ASSUME CaseInv, [Next]_vars PROVE Custody!TypeOK'
  OBVIOUS
<1>1. File!TypeOK /\ TypeOK
  BY SameFile DEF CaseInv, TypeOK
<1>2. [File!Next]_File!vars
  BY StepOfLog, SameFile DEF Custody!vars, File!vars
<1> QED BY <1>1, <1>2, File!TypeStep, SameTypes, BoundsAssumption

Appenders == \A r \in Reqs : r \in appending <=> pc[r] = "appending"

\* Who is inside append_entry.
LEMMA AppendersKept == CaseInv /\ [Next]_vars => Appenders'
<1> SUFFICES ASSUME CaseInv, [Next]_vars PROVE Appenders'
  OBVIOUS
<1>0. pc \in [Reqs -> Pc] /\ \A r \in Reqs : Paths(r)
  BY DEF CaseInv, TypeOK, OnTheirPaths
<1>00. Appenders /\ appending \subseteq Reqs
  BY DEF CaseInv, TypeOK, Appenders, Custody!TypeOK
<1> USE DEF Appenders, custodyVars, Handling
<1>1. ASSUME NEW r \in Reqs, Indexes(r) PROVE Appenders'
  BY <1>1, <1>0, <1>00 DEF Indexes, Paths, Pc
<1>2. ASSUME NEW r \in Reqs, CommitCase(r) PROVE Appenders'
  BY <1>2, <1>0, <1>00 DEF CommitCase, Goto
<1>3. ASSUME NEW r \in Reqs, MakeDirs(r) PROVE Appenders'
  BY <1>3, <1>0, <1>00 DEF MakeDirs, Goto
<1>4. ASSUME NEW r \in Reqs, UseCase(r) PROVE Appenders'
  BY <1>4, <1>0, <1>00 DEF UseCase, Goto
<1>5. ASSUME NEW r \in Reqs, ReadTail(r) PROVE Appenders'
  BY <1>5, <1>0, <1>00 DEF ReadTail, Goto, Custody!ReadTail
<1>6. ASSUME NEW r \in Reqs, WriteEntry(r) PROVE Appenders'
  BY <1>6, <1>0, <1>00 DEF WriteEntry, Goto, Custody!WriteEntry, Custody!EndAppend
<1>7. ASSUME NEW r \in Reqs, AppendFails(r) PROVE Appenders'
  BY <1>7, <1>0, <1>00 DEF AppendFails, Fault, Goto, Custody!AbandonAppend,
      Custody!TearLine, Custody!EndAppend
<1>8. ASSUME NEW r \in Reqs, Audit(r) PROVE Appenders'
  BY <1>8, <1>0, <1>00 DEF Audit, Goto
<1>9. ASSUME NEW r \in Reqs, AuditFails(r) PROVE Appenders'
  BY <1>9, <1>0, <1>00 DEF AuditFails, Fault, Goto
<1>10. ASSUME NEW r \in Reqs, Fails(r) PROVE Appenders'
  BY <1>10, <1>0, <1>00 DEF Fails, Fault, Goto, Custody!AbandonAppend,
      Custody!EndAppend, Pc, End
<1>11. CASE UNCHANGED vars
  BY <1>11, <1>0, <1>00 DEF vars
<1>12. TypeOK /\ OnTheirPaths
  BY DEF CaseInv
<1> QED BY <1>1, <1>2, <1>3, <1>4, <1>5, <1>6, <1>7, <1>8, <1>9, <1>10, <1>11,
     <1>12, IndexSteps DEF Next, Step

\* The variables of the case and of its handlers.
CaseTypes ==
  /\ req \in [Reqs -> Requests]
  /\ pc \in [Reqs -> Pc]
  /\ caseRow \in BOOLEAN
  /\ dirs \in BOOLEAN
  /\ dirs => caseRow
  /\ audited \subseteq Reqs
  /\ early \in BOOLEAN
  /\ faults \in 0..MaxFaults

\* Directories are only made for a case that is there.
LEMMA CaseTypesKept == CaseInv /\ [Next]_vars => CaseTypes'
<1> SUFFICES ASSUME CaseInv, [Next]_vars PROVE CaseTypes'
  OBVIOUS
<1>a. CaseTypes /\ TypeOK
  BY DEF CaseInv, TypeOK, CaseTypes
<1>b. Fault => faults' \in 0..MaxFaults
  BY <1>a, FaultsCount
<1> USE DEF CaseTypes, Pc, End, caseVars, tableVars, sessionVars, histVars
<1>1. ASSUME NEW r \in Reqs, CommitCase(r) PROVE CaseTypes'
  BY <1>1, <1>a, <1>b DEF CommitCase, Goto
<1>2. ASSUME NEW r \in Reqs, MakeDirs(r) PROVE CaseTypes'
  <2>1. r \in Creators /\ pc[r] # "new"
    BY <1>2, RequestFields, <1>a DEF MakeDirs, Goto, CaseInv, OnTheirPaths, Paths, Creators
  <2>2. caseRow
    BY <2>1 DEF CaseInv, CreatorFollows
  <2> QED BY <1>2, <1>a, <2>2 DEF MakeDirs, Goto
<1>3. ASSUME NEW r \in Reqs, UseCase(r) PROVE CaseTypes'
  BY <1>3, <1>a, <1>b DEF UseCase, Goto
<1>4. ASSUME NEW r \in Reqs, ReadTail(r) PROVE CaseTypes'
  BY <1>4, <1>a, <1>b DEF ReadTail, Goto
<1>5. ASSUME NEW r \in Reqs, WriteEntry(r) PROVE CaseTypes'
  BY <1>5, <1>a, <1>b DEF WriteEntry, Goto
<1>6. ASSUME NEW r \in Reqs, AppendFails(r) PROVE CaseTypes'
  BY <1>6, <1>a, <1>b DEF AppendFails, Fault, Goto
<1>7. ASSUME NEW r \in Reqs, Audit(r) PROVE CaseTypes'
  BY <1>7, <1>a, <1>b DEF Audit, Goto
<1>8. ASSUME NEW r \in Reqs, AuditFails(r) PROVE CaseTypes'
  BY <1>8, <1>a, <1>b DEF AuditFails, Fault, Goto
<1>9. ASSUME NEW r \in Reqs, CheckCase(r) PROVE CaseTypes'
  BY <1>9, <1>a, <1>b DEF CheckCase, Goto
<1>10. ASSUME NEW r \in Reqs, CommitIoc(r) PROVE CaseTypes'
  BY <1>10, <1>a, <1>b DEF CommitIoc, Goto
<1>11. ASSUME NEW r \in Reqs, SelectIocs(r) PROVE CaseTypes'
  BY <1>11, <1>a, <1>b DEF SelectIocs, BeginScan, Goto
<1>12. ASSUME NEW r \in Reqs, SelectEntities(r) PROVE CaseTypes'
  BY <1>12, <1>a, <1>b DEF SelectEntities, Goto
<1>13. ASSUME NEW r \in Reqs, CheckPair(r) PROVE CaseTypes'
  BY <1>13, <1>a, <1>b DEF CheckPair
<1>14. ASSUME NEW r \in Reqs, NextIoc(r) PROVE CaseTypes'
  BY <1>14, <1>a, <1>b DEF NextIoc, Goto
<1>15. ASSUME NEW r \in Reqs, CommitScan(r) PROVE CaseTypes'
  BY <1>15, <1>a, <1>b DEF CommitScan, Goto
<1>16. ASSUME NEW r \in Reqs, ParseText(r) PROVE CaseTypes'
  BY <1>16, <1>a, <1>b DEF ParseText, Goto
<1>17. ASSUME NEW r \in Reqs, CheckEntity(r) PROVE CaseTypes'
  BY <1>17, <1>a, <1>b DEF CheckEntity
<1>18. ASSUME NEW r \in Reqs, CommitEntities(r) PROVE CaseTypes'
  BY <1>18, <1>a, <1>b DEF CommitEntities, Goto
<1>19. ASSUME NEW r \in Reqs, Fails(r) PROVE CaseTypes'
  BY <1>19, <1>a, <1>b DEF Fails, Fault, Goto
<1>20. CASE UNCHANGED vars
  BY <1>20, <1>a, <1>b DEF vars
<1> QED BY <1>1, <1>2, <1>3, <1>4, <1>5, <1>6, <1>7, <1>8, <1>9, <1>10, <1>11,
     <1>12, <1>13, <1>14, <1>15, <1>16, <1>17, <1>18, <1>19, <1>20 DEF Next, Step

\* Only a fault tears a line.
LEMMA FaultlessKept == CaseInv /\ [Next]_vars => Faultless'
<1> SUFFICES ASSUME CaseInv, [Next]_vars PROVE Faultless'
  OBVIOUS
<1>0. Faultless /\ TypeOK
  BY DEF CaseInv
<1> USE DEF Faultless, custodyVars
<1>1. ASSUME NEW r \in Reqs, Indexes(r) PROVE Faultless'
  BY <1>1, <1>0 DEF Indexes
<1>2. ASSUME NEW r \in Reqs, CommitCase(r) PROVE Faultless'
  BY <1>2, <1>0 DEF CommitCase, Goto
<1>3. ASSUME NEW r \in Reqs, MakeDirs(r) PROVE Faultless'
  BY <1>3, <1>0 DEF MakeDirs, Goto
<1>4. ASSUME NEW r \in Reqs, UseCase(r) PROVE Faultless'
  BY <1>4, <1>0 DEF UseCase, Goto
<1>5. ASSUME NEW r \in Reqs, ReadTail(r) PROVE Faultless'
  BY <1>5, <1>0 DEF ReadTail, Goto, Custody!ReadTail
<1>6. ASSUME NEW r \in Reqs, WriteEntry(r) PROVE Faultless'
  BY <1>6, <1>0 DEF WriteEntry, Goto, Custody!WriteEntry
<1>7. ASSUME NEW r \in Reqs, AppendFails(r) PROVE Faultless'
  BY <1>7, <1>0, FaultsCount DEF AppendFails, Fault, Goto
<1>8. ASSUME NEW r \in Reqs, Audit(r) PROVE Faultless'
  BY <1>8, <1>0 DEF Audit, Goto
<1>9. ASSUME NEW r \in Reqs, AuditFails(r) PROVE Faultless'
  BY <1>9, <1>0, FaultsCount DEF AuditFails, Fault, Goto
<1>10. ASSUME NEW r \in Reqs, Fails(r) PROVE Faultless'
  BY <1>10, <1>0, FaultsCount DEF Fails, Fault, Goto, Custody!AbandonAppend
<1>11. CASE UNCHANGED vars
  BY <1>11, <1>0 DEF vars
<1>12. TypeOK /\ OnTheirPaths
  BY DEF CaseInv
<1> QED BY <1>1, <1>2, <1>3, <1>4, <1>5, <1>6, <1>7, <1>8, <1>9, <1>10, <1>11,
     <1>12, IndexSteps DEF Next, Step

\* The case, its directories and its entry follow the handler that makes them.
LEMMA CreatorFollowsKept == CaseInv /\ [Next]_vars => CreatorFollows'
<1> SUFFICES ASSUME CaseInv, [Next]_vars PROVE CreatorFollows'
  OBVIOUS
<1>0. /\ pc \in [Reqs -> Pc] /\ Creators' = Creators /\ TypeOK /\ Creators \subseteq Reqs
      /\ \A q \in Creators : req[q].cmd = "create" /\ Paths(q)
  BY CreatorStays DEF CaseInv, TypeOK, OnTheirPaths, Creators
<1>00. CreatorFollows /\ Faultless /\ NobodyEarlier /\ (\E q \in Reqs : Creators = {q})
  BY DEF CaseInv, OneCreator
<1> USE DEF CreatorFollows, custodyVars, caseVars, Paths
<1>1. ASSUME NEW r \in Reqs, Indexes(r) PROVE CreatorFollows'
  BY <1>1, <1>0, <1>00, LogStays DEF Indexes
<1>2. ASSUME NEW r \in Reqs, CommitCase(r) PROVE CreatorFollows'
  BY <1>2, <1>0, <1>00, LogStays DEF CommitCase, Goto, Creators
<1>3. ASSUME NEW r \in Reqs, MakeDirs(r) PROVE CreatorFollows'
  BY <1>3, <1>0, <1>00, LogStays DEF MakeDirs, Goto
<1>4. ASSUME NEW r \in Reqs, UseCase(r) PROVE CreatorFollows'
  BY <1>4, <1>0, <1>00, LogStays DEF UseCase, Goto
<1>5. ASSUME NEW r \in Reqs, ReadTail(r) PROVE CreatorFollows'
  BY <1>5, <1>0, <1>00, LogStays DEF ReadTail, Goto, Custody!ReadTail, Faultless
<1>6. ASSUME NEW r \in Reqs, WriteEntry(r) PROVE CreatorFollows'
  <2>1. /\ pc[r] = "appending"
        /\ pc' = [pc EXCEPT ![r] = IF req[r].cmd = "create" THEN "audit" ELSE "done"]
        /\ UNCHANGED <<req, caseRow, dirs, faults>>
    BY <1>6 DEF WriteEntry, Goto
  <2>2. /\ torn' = torn
        /\ Logged(r)' \/ torn
        /\ \A q : Logged(q) => Logged(q)'
    BY <1>6, <1>0, LogGrows
  <2> QED BY <1>0, <1>00, <2>1, <2>2
<1>7. ASSUME NEW r \in Reqs, AppendFails(r) PROVE CreatorFollows'
  BY <1>7, <1>0, <1>00, LogStays, FaultsCount DEF AppendFails, Fault, Goto,
      Custody!AbandonAppend, Custody!TearLine
<1>8. ASSUME NEW r \in Reqs, Audit(r) PROVE CreatorFollows'
  BY <1>8, <1>0, <1>00, LogStays DEF Audit, Goto
<1>9. ASSUME NEW r \in Reqs, AuditFails(r) PROVE CreatorFollows'
  BY <1>9, <1>0, <1>00, LogStays, FaultsCount DEF AuditFails, Fault, Goto
<1>10. ASSUME NEW r \in Reqs, Fails(r) PROVE CreatorFollows'
  BY <1>10, <1>0, <1>00, LogStays, FaultsCount DEF Fails, Fault, Goto,
      Custody!AbandonAppend, Pc, End
<1>11. CASE UNCHANGED vars
  BY <1>11, <1>0, <1>00, LogStays DEF vars
<1>12. TypeOK /\ OnTheirPaths
  BY DEF CaseInv
<1> QED BY <1>1, <1>2, <1>3, <1>4, <1>5, <1>6, <1>7, <1>8, <1>9, <1>10, <1>11,
     <1>12, IndexSteps DEF Next, Step

\* A handler that uses the case before it is made leaves its mark.
LEMMA NobodyEarlierKept == CaseInv /\ [Next]_vars => NobodyEarlier'
<1> SUFFICES ASSUME CaseInv, [Next]_vars PROVE NobodyEarlier'
  OBVIOUS
<1>0. /\ pc \in [Reqs -> Pc] /\ Creators' = Creators /\ TypeOK /\ Creators \subseteq Reqs
      /\ \A q \in Creators : req[q].cmd = "create" /\ Paths(q)
  BY CreatorStays DEF CaseInv, TypeOK, OnTheirPaths, Creators
<1>00. CreatorFollows /\ Faultless /\ NobodyEarlier /\ (\E q \in Reqs : Creators = {q})
  BY DEF CaseInv, OneCreator
<1>000. \A q \in Reqs : Paths(q)
  BY DEF CaseInv, OnTheirPaths
<1> USE DEF NobodyEarlier, histVars, Paths
<1>1. ASSUME NEW r \in Reqs, Indexes(r) PROVE NobodyEarlier'
  BY <1>1, <1>0, <1>00, <1>000 DEF Indexes, Handling
<1>2. ASSUME NEW r \in Reqs, CommitCase(r) PROVE NobodyEarlier'
  BY <1>2, <1>0, <1>00, <1>000 DEF CommitCase, Goto
<1>3. ASSUME NEW r \in Reqs, MakeDirs(r) PROVE NobodyEarlier'
  BY <1>3, <1>0, <1>00, <1>000 DEF MakeDirs, Goto
<1>4. ASSUME NEW r \in Reqs, UseCase(r) PROVE NobodyEarlier'
  BY <1>4, <1>0, <1>00, <1>000 DEF UseCase, Goto, Creators
<1>5. ASSUME NEW r \in Reqs, ReadTail(r) PROVE NobodyEarlier'
  BY <1>5, <1>0, <1>00, <1>000 DEF ReadTail, Goto
<1>6. ASSUME NEW r \in Reqs, WriteEntry(r) PROVE NobodyEarlier'
  BY <1>6, <1>0, <1>00, <1>000 DEF WriteEntry, Goto
<1>7. ASSUME NEW r \in Reqs, AppendFails(r) PROVE NobodyEarlier'
  BY <1>7, <1>0, <1>00, <1>000 DEF AppendFails, Fault, Goto
<1>8. ASSUME NEW r \in Reqs, Audit(r) PROVE NobodyEarlier'
  BY <1>8, <1>0, <1>00, <1>000 DEF Audit, Goto
<1>9. ASSUME NEW r \in Reqs, AuditFails(r) PROVE NobodyEarlier'
  BY <1>9, <1>0, <1>00, <1>000 DEF AuditFails, Fault, Goto
<1>10. ASSUME NEW r \in Reqs, Fails(r) PROVE NobodyEarlier'
  BY <1>10, <1>0, <1>00, <1>000 DEF Fails, Fault, Goto, Pc, End
<1>11. CASE UNCHANGED vars
  BY <1>11, <1>0, <1>00, <1>000 DEF vars
<1>12. TypeOK /\ OnTheirPaths
  BY DEF CaseInv
<1> QED BY <1>1, <1>2, <1>3, <1>4, <1>5, <1>6, <1>7, <1>8, <1>9, <1>10, <1>11,
     <1>12, IndexSteps DEF Next, Step

\* With the file empty, who is inside append_entry has read that it is.
LEMMA FirstLinkKept == CaseInv /\ [Next]_vars => FirstLink'
<1> SUFFICES ASSUME CaseInv, [Next]_vars PROVE FirstLink'
  OBVIOUS
<1>0. FirstLink /\ TypeOK /\ appending \subseteq Reqs /\ tail \in [Reqs -> Custody!Hashes]
  BY DEF CaseInv, TypeOK, Custody!TypeOK
<1> USE DEF FirstLink, custodyVars
<1>1. ASSUME NEW r \in Reqs, Indexes(r) PROVE FirstLink'
  BY <1>1, <1>0 DEF Indexes
<1>2. ASSUME NEW r \in Reqs, CommitCase(r) PROVE FirstLink'
  BY <1>2, <1>0 DEF CommitCase, Goto
<1>3. ASSUME NEW r \in Reqs, MakeDirs(r) PROVE FirstLink'
  BY <1>3, <1>0 DEF MakeDirs, Goto
<1>4. ASSUME NEW r \in Reqs, UseCase(r) PROVE FirstLink'
  BY <1>4, <1>0 DEF UseCase, Goto
<1>5. ASSUME NEW r \in Reqs, ReadTail(r) PROVE FirstLink'
  BY <1>5, <1>0 DEF ReadTail, Goto, Custody!ReadTail, Custody!last_entry_hash
<1>6. ASSUME NEW r \in Reqs, WriteEntry(r) PROVE FirstLink'
  <2>1. log = <<>> \/ log' # <<>>
    BY <1>6, <1>0, LogGrows
  <2>2. /\ appending' \subseteq appending
        /\ \A q \in appending' : tail'[q] = tail[q]
    BY <1>6, <1>0 DEF WriteEntry, Custody!WriteEntry, Custody!EndAppend
  <2> QED BY <1>0, <2>1, <2>2
<1>7. ASSUME NEW r \in Reqs, AppendFails(r) PROVE FirstLink'
  BY <1>7, <1>0 DEF AppendFails, Fault, Goto, Custody!AbandonAppend,
      Custody!TearLine, Custody!EndAppend
<1>8. ASSUME NEW r \in Reqs, Audit(r) PROVE FirstLink'
  BY <1>8, <1>0 DEF Audit, Goto
<1>9. ASSUME NEW r \in Reqs, AuditFails(r) PROVE FirstLink'
  BY <1>9, <1>0 DEF AuditFails, Fault, Goto
<1>10. ASSUME NEW r \in Reqs, Fails(r) PROVE FirstLink'
  BY <1>10, <1>0 DEF Fails, Fault, Goto, Custody!AbandonAppend, Custody!EndAppend
<1>11. CASE UNCHANGED vars
  BY <1>11, <1>0 DEF vars
<1>12. TypeOK /\ OnTheirPaths
  BY DEF CaseInv
<1> QED BY <1>1, <1>2, <1>3, <1>4, <1>5, <1>6, <1>7, <1>8, <1>9, <1>10, <1>11,
     <1>12, IndexSteps DEF Next, Step

LEMMA VerifiesAlone ==
  ASSUME NEW e \in Custody!CustodyEntry, e.prev_hash = Custody!GENESIS_HASH,
         e.entry_hash = Custody!compute_entry_hash(e.body, e.prev_hash)
  PROVE  Custody!verify_chain(<<e>>)
<1>1. /\ e \in File!CustodyEntry /\ e.prev_hash = File!GENESIS_HASH
      /\ e.entry_hash = File!compute_entry_hash(e.body, e.prev_hash)
  BY DEF Custody!CustodyEntry, File!CustodyEntry, Custody!Hashes, File!Hashes,
    Custody!GENESIS_HASH, File!GENESIS_HASH, Custody!compute_entry_hash,
    File!compute_entry_hash
<1>2. File!verify_chain(<<e>>)
  BY <1>1, File!ChainOfOne, BoundsAssumption
<1> QED BY <1>2
  DEF Custody!verify_chain, File!verify_chain, Custody!last_entry_hash,
      File!last_entry_hash, Custody!GENESIS_HASH, File!GENESIS_HASH,
      Custody!compute_entry_hash, File!compute_entry_hash

\* A log that stays begins as it did.
LEMMA SameLogVerdict ==
  ASSUME log' = log
  PROVE  Custody!verify_chain(<<log[1]>>)' <=> Custody!verify_chain(<<log[1]>>)
BY DEF Custody!verify_chain, Custody!last_entry_hash, Custody!GENESIS_HASH,
  Custody!compute_entry_hash

\* The first entry is written by the creator, or after its mark.
LEMMA CreateIsFirstKept == CaseInv /\ [Next]_vars => CreateIsFirst'
<1> SUFFICES ASSUME CaseInv, [Next]_vars PROVE CreateIsFirst'
  OBVIOUS
<1>0. CreateIsFirst /\ TypeOK /\ Creators' = Creators
  BY CreatorStays DEF CaseInv
<1> USE DEF CreateIsFirst, histVars, custodyVars
<1>1. ASSUME NEW r \in Reqs, Indexes(r) PROVE CreateIsFirst'
  BY <1>1, <1>0, SameLogVerdict DEF Indexes
<1>2. ASSUME NEW r \in Reqs, CommitCase(r) PROVE CreateIsFirst'
  BY <1>2, <1>0, SameLogVerdict DEF CommitCase, Goto
<1>3. ASSUME NEW r \in Reqs, MakeDirs(r) PROVE CreateIsFirst'
  BY <1>3, <1>0, SameLogVerdict DEF MakeDirs, Goto
<1>4. ASSUME NEW r \in Reqs, UseCase(r) PROVE CreateIsFirst'
  BY <1>4, <1>0, SameLogVerdict DEF UseCase, Goto
<1>5. ASSUME NEW r \in Reqs, ReadTail(r) PROVE CreateIsFirst'
  BY <1>5, <1>0, SameLogVerdict DEF ReadTail, Goto, Custody!ReadTail
<1>6. ASSUME NEW r \in Reqs, WriteEntry(r) PROVE CreateIsFirst'
  <2> SUFFICES ASSUME ~early', log' # <<>>
               PROVE  log'[1].body \in Creators /\ Custody!verify_chain(<<log'[1]>>)
    BY <1>0
  <2>1. early' = early
    BY <1>6 DEF WriteEntry
  <2>2. CASE log # <<>>
    <3>1. log'[1] = log[1]
      BY <1>6, <1>0, <2>2, LogGrows
    <3> QED BY <1>0, <2>1, <2>2, <3>1
  <2>3. CASE log = <<>>
    <3>1. /\ ~torn /\ log'[1] = Custody!NewEntry(r, tail[r])
          /\ log'[1] \in Custody!CustodyEntry
          /\ r \in appending
      BY <1>6, <1>0, <2>3, LogGrows
    <3>2. tail[r] = Custody!GENESIS_HASH
      BY <2>3, <3>1 DEF CaseInv, FirstLink
    <3>3. r \in Creators
      <4>1. pc[r] = "appending"
        BY <1>6 DEF WriteEntry, Goto
      <4>2. req[r].cmd \in {"create", "log"}
        BY <4>1, <1>0, RequestFields DEF CaseInv, OnTheirPaths, Paths
      <4>3. ASSUME req[r].cmd = "log" PROVE FALSE
        <5>1. PICK q \in Reqs : q \in Creators
          BY DEF CaseInv, OneCreator
        <5>2. pc[q] = "done"
          BY <2>1, <4>1, <4>3, <5>1 DEF CaseInv, NobodyEarlier
        <5>3. Logged(q)
          BY <3>1, <5>1, <5>2 DEF CaseInv, CreatorFollows
        <5>4. Len(log) = 0
          BY <2>3
        <5> QED BY <5>3, <5>4 DEF Logged
      <4> QED BY <4>2, <4>3 DEF Creators
    <3>4. /\ log'[1].body = r /\ log'[1].prev_hash = Custody!GENESIS_HASH
          /\ log'[1].entry_hash =
               Custody!compute_entry_hash(log'[1].body, log'[1].prev_hash)
      BY <3>1, <3>2 DEF Custody!NewEntry
    <3>5. Custody!verify_chain(<<log'[1]>>)
      BY <3>1, <3>4, VerifiesAlone
    <3> QED BY <3>3, <3>4, <3>5
  <2> QED BY <2>2, <2>3
<1>7. ASSUME NEW r \in Reqs, AppendFails(r) PROVE CreateIsFirst'
  BY <1>7, <1>0, SameLogVerdict DEF AppendFails, Fault, Goto, Custody!AbandonAppend,
      Custody!TearLine
<1>8. ASSUME NEW r \in Reqs, Audit(r) PROVE CreateIsFirst'
  BY <1>8, <1>0, SameLogVerdict DEF Audit, Goto
<1>9. ASSUME NEW r \in Reqs, AuditFails(r) PROVE CreateIsFirst'
  BY <1>9, <1>0, SameLogVerdict DEF AuditFails, Fault, Goto
<1>10. ASSUME NEW r \in Reqs, Fails(r) PROVE CreateIsFirst'
  BY <1>10, <1>0, SameLogVerdict DEF Fails, Fault, Goto, Custody!AbandonAppend
<1>11. CASE UNCHANGED vars
  BY <1>11, <1>0, SameLogVerdict DEF vars
<1>12. TypeOK /\ OnTheirPaths
  BY DEF CaseInv
<1> QED BY <1>1, <1>2, <1>3, <1>4, <1>5, <1>6, <1>7, <1>8, <1>9, <1>10, <1>11,
     <1>12, IndexSteps DEF Next, Step

-----------------------------------------------------------------------------
\* Pairs of the tables stay pairs of the tables when the tables grow.
LEMMA MatchingGrows ==
  ASSUME req' = req, iocs \subseteq iocs', entities \subseteq entities'
  PROVE  Matching(iocs, entities) \subseteq Matching(iocs, entities)'
BY DEF Matching

\* What a pair of the tables is.
LEMMA MatchingPairs ==
  ASSUME TypeOK, NEW p \in Matching(iocs, entities)
  PROVE  /\ p \in Pair /\ p.ioc \in iocs /\ p.entity \in entities
         /\ req[p.ioc].value = p.entity.value
<1>1. iocs \subseteq Reqs /\ entities \subseteq Entity
  BY DEF TypeOK
<1> QED BY <1>1 DEF Matching, Pair

\* The pairs of one indicator.
LEMMA MatchingOfOne ==
  ASSUME NEW i \in iocs
  PROVE  /\ Matching({i}, entities) \subseteq Matching(iocs, entities)
         /\ \A p \in Matching(iocs, entities) : p.ioc = i => p \in Matching({i}, entities)
BY DEF Matching

\* A session that is over has nothing added.
LEMMA AddedByKept == CaseInv /\ [Next]_vars => AddedBy'
<1> SUFFICES ASSUME CaseInv, [Next]_vars PROVE AddedBy'
  OBVIOUS
<1>0. /\ pc \in [Reqs -> Pc]
      /\ \A q \in Reqs : Paths(q)
  BY DEF CaseInv, TypeOK, OnTheirPaths
<1>00. /\ toCheck \in [Reqs -> SUBSET (Values \cup Pair)]
       /\ added \in [Reqs -> SUBSET (Values \cup Pair)]
       /\ toScan \in [Reqs -> SUBSET iocs] /\ owed \in [Reqs -> SUBSET Pair]
       /\ iocs \subseteq Reqs
  BY DEF CaseInv, Sessions, TypeOK
<1>000. AddedBy
  BY DEF CaseInv
<1> USE DEF AddedBy, Paths, tableVars, sessionVars, histVars
<1>1. ASSUME NEW r \in Reqs, Elsewhere(r) PROVE AddedBy'
  BY <1>1, <1>0, <1>00, <1>000 DEF Elsewhere, Working
<1>2. ASSUME NEW r \in Reqs, CommitIoc(r) PROVE AddedBy'
  BY <1>2, <1>0, <1>00, <1>000 DEF CommitIoc, Goto
<1>3. ASSUME NEW r \in Reqs, SelectIocs(r) PROVE AddedBy'
  BY <1>3, <1>0, <1>00, <1>000 DEF SelectIocs, BeginScan, Goto
<1>4. ASSUME NEW r \in Reqs, SelectEntities(r) PROVE AddedBy'
  BY <1>4, <1>0, <1>00, <1>000 DEF SelectEntities, Goto
<1>5. ASSUME NEW r \in Reqs, CheckPair(r) PROVE AddedBy'
  BY <1>5, <1>0, <1>00, <1>000 DEF CheckPair
<1>6. ASSUME NEW r \in Reqs, NextIoc(r) PROVE AddedBy'
  BY <1>6, <1>0, <1>00, <1>000 DEF NextIoc, Goto
<1>7. ASSUME NEW r \in Reqs, CommitScan(r) PROVE AddedBy'
  BY <1>7, <1>0, <1>00, <1>000 DEF CommitScan, Goto
<1>8. ASSUME NEW r \in Reqs, ParseText(r) PROVE AddedBy'
  BY <1>8, <1>0, <1>00, <1>000 DEF ParseText, Goto
<1>9. ASSUME NEW r \in Reqs, CheckEntity(r) PROVE AddedBy'
  BY <1>9, <1>0, <1>00, <1>000 DEF CheckEntity
<1>10. ASSUME NEW r \in Reqs, CommitEntities(r) PROVE AddedBy'
  BY <1>10, <1>0, <1>00, <1>000 DEF CommitEntities, Goto
<1>11. ASSUME NEW r \in Reqs, Fails(r) PROVE AddedBy'
  BY <1>11, <1>0, <1>00, <1>000 DEF Fails, Fault, Goto
<1>12. CASE UNCHANGED vars
  BY <1>12, <1>0, <1>00, <1>000 DEF vars
<1>13. TypeOK /\ OnTheirPaths
  BY DEF CaseInv
<1> QED BY <1>1, <1>2, <1>3, <1>4, <1>5, <1>6, <1>7, <1>8, <1>9, <1>10, <1>11,
     <1>12, <1>13, CaseSteps DEF Next, Step

\* A session only ever holds values and pairs.
LEMMA SessionsKept == CaseInv /\ [Next]_vars => Sessions'
<1> SUFFICES ASSUME CaseInv, [Next]_vars PROVE Sessions'
  OBVIOUS
<1>0. /\ pc \in [Reqs -> Pc]
      /\ \A q \in Reqs : Paths(q)
  BY DEF CaseInv, TypeOK, OnTheirPaths
<1>00. /\ toCheck \in [Reqs -> SUBSET (Values \cup Pair)]
       /\ added \in [Reqs -> SUBSET (Values \cup Pair)]
       /\ toScan \in [Reqs -> SUBSET iocs] /\ owed \in [Reqs -> SUBSET Pair]
       /\ iocs \subseteq Reqs
  BY DEF CaseInv, Sessions, TypeOK
<1>p. \A p \in Matching(iocs, entities) : p \in Pair
  BY MatchingPairs DEF CaseInv
<1>q. TypeOK
  BY DEF CaseInv
<1>v. \A q \in Reqs : req[q].cmd = "index" => req[q].values \subseteq Values
  BY <1>q, RequestFields
<1> USE DEF Sessions, tableVars, sessionVars, histVars
<1>1. ASSUME NEW r \in Reqs, Elsewhere(r) PROVE Sessions'
  BY <1>1, <1>0, <1>00 DEF Elsewhere
<1>2. ASSUME NEW r \in Reqs, CommitIoc(r) PROVE Sessions'
  BY <1>2, <1>0, <1>00 DEF CommitIoc, Goto
<1>3. ASSUME NEW r \in Reqs, SelectIocs(r) PROVE Sessions'
  BY <1>3, <1>0, <1>00, <1>p DEF SelectIocs, BeginScan, Goto
<1>4. ASSUME NEW r \in Reqs, SelectEntities(r) PROVE Sessions'
  BY <1>4, <1>0, <1>00, <1>p, MatchingOfOne DEF SelectEntities, Goto
<1>5. ASSUME NEW r \in Reqs, CheckPair(r) PROVE Sessions'
  BY <1>5, <1>0, <1>00 DEF CheckPair
<1>6. ASSUME NEW r \in Reqs, NextIoc(r) PROVE Sessions'
  BY <1>6, <1>0, <1>00 DEF NextIoc, Goto
<1>7. ASSUME NEW r \in Reqs, CommitScan(r) PROVE Sessions'
  BY <1>7, <1>0, <1>00 DEF CommitScan, Goto
<1>8. ASSUME NEW r \in Reqs, ParseText(r) PROVE Sessions'
  BY <1>8, <1>0, <1>00, <1>v DEF ParseText, Goto
<1>9. ASSUME NEW r \in Reqs, CheckEntity(r) PROVE Sessions'
  BY <1>9, <1>0, <1>00 DEF CheckEntity
<1>10. ASSUME NEW r \in Reqs, CommitEntities(r) PROVE Sessions'
  BY <1>10, <1>0, <1>00 DEF CommitEntities, Goto
<1>11. ASSUME NEW r \in Reqs, Fails(r) PROVE Sessions'
  BY <1>11, <1>0, <1>00 DEF Fails, Fault, Goto
<1>12. CASE UNCHANGED vars
  BY <1>12, <1>0, <1>00 DEF vars
<1>13. TypeOK /\ OnTheirPaths
  BY DEF CaseInv
<1> QED BY <1>1, <1>2, <1>3, <1>4, <1>5, <1>6, <1>7, <1>8, <1>9, <1>10, <1>11,
     <1>12, <1>13, CaseSteps DEF Next, Step

\* The tables, and what the sessions have of them.
TableTypes ==
  /\ iocs \subseteq {r \in Reqs : req[r].cmd = "ioc"}
  /\ entities \subseteq Entity
  /\ toScan \in [Reqs -> SUBSET iocs]
  /\ owed \in [Reqs -> SUBSET Pair]
  /\ scansOverlapped \in BOOLEAN
  /\ runsOverlapped \in BOOLEAN

SessionTypes ==
  /\ \A r \in Reqs : toCheck[r] \subseteq (IF req[r].cmd = "index" THEN Values ELSE Pair)
  /\ \A r \in Reqs : added[r] \subseteq (IF req[r].cmd = "index" THEN Values ELSE Pair)

MatchTypes ==
  /\ matches \subseteq [pair : Pair, by : Reqs]
  /\ \A m \in matches :
       /\ m.pair.ioc \in iocs /\ m.pair.entity \in entities
       /\ req[m.pair.ioc].value = m.pair.entity.value

\* Rows are only ever added, by the requests they are named after.
LEMMA TableTypesKept == CaseInv /\ [Next]_vars => TableTypes'
<1> SUFFICES ASSUME CaseInv, [Next]_vars PROVE TableTypes'
  OBVIOUS
<1>0. /\ pc \in [Reqs -> Pc]
      /\ \A q \in Reqs : Paths(q)
  BY DEF CaseInv, TypeOK, OnTheirPaths
<1>00. /\ toCheck \in [Reqs -> SUBSET (Values \cup Pair)]
       /\ added \in [Reqs -> SUBSET (Values \cup Pair)]
       /\ toScan \in [Reqs -> SUBSET iocs] /\ owed \in [Reqs -> SUBSET Pair]
       /\ iocs \subseteq Reqs
  BY DEF CaseInv, Sessions, TypeOK
<1>p. \A p \in Matching(iocs, entities) : p \in Pair
  BY MatchingPairs DEF CaseInv
<1>q. TypeOK
  BY DEF CaseInv
<1>v. \A q \in Reqs : req[q].cmd = "index" => req[q].values \subseteq Values
  BY <1>q, RequestFields
<1>t. TableTypes
  BY DEF CaseInv, TypeOK, TableTypes
<1> USE DEF TableTypes, tableVars, sessionVars, histVars
<1>1. ASSUME NEW r \in Reqs, Elsewhere(r) PROVE TableTypes'
  BY <1>1, <1>0, <1>00, <1>t DEF Elsewhere
<1>2. ASSUME NEW r \in Reqs, CommitIoc(r) PROVE TableTypes'
  BY <1>2, <1>0, <1>00, <1>t DEF CommitIoc, Goto, Paths
<1>3. ASSUME NEW r \in Reqs, SelectIocs(r) PROVE TableTypes'
  BY <1>3, <1>0, <1>00, <1>t, <1>p DEF SelectIocs, BeginScan, Goto
<1>4. ASSUME NEW r \in Reqs, SelectEntities(r) PROVE TableTypes'
  BY <1>4, <1>0, <1>00, <1>t, <1>p, MatchingOfOne DEF SelectEntities, Goto
<1>5. ASSUME NEW r \in Reqs, CheckPair(r) PROVE TableTypes'
  BY <1>5, <1>0, <1>00, <1>t DEF CheckPair
<1>6. ASSUME NEW r \in Reqs, NextIoc(r) PROVE TableTypes'
  BY <1>6, <1>0, <1>00, <1>t DEF NextIoc, Goto
<1>7. ASSUME NEW r \in Reqs, CommitScan(r) PROVE TableTypes'
  BY <1>7, <1>0, <1>00, <1>t DEF CommitScan, Goto
<1>8. ASSUME NEW r \in Reqs, ParseText(r) PROVE TableTypes'
  BY <1>8, <1>0, <1>00, <1>t, <1>v DEF ParseText, Goto
<1>9. ASSUME NEW r \in Reqs, CheckEntity(r) PROVE TableTypes'
  BY <1>9, <1>0, <1>00, <1>t DEF CheckEntity
<1>10. ASSUME NEW r \in Reqs, CommitEntities(r) PROVE TableTypes'
  <2>1. added[r] \subseteq Values
    BY <1>10, <1>0, <1>q DEF CommitEntities, Goto, Paths, TypeOK
  <2> QED BY <1>10, <1>t, <2>1 DEF CommitEntities, Goto, Entity
<1>11. ASSUME NEW r \in Reqs, Fails(r) PROVE TableTypes'
  BY <1>11, <1>0, <1>00, <1>t DEF Fails, Fault, Goto
<1>12. CASE UNCHANGED vars
  BY <1>12, <1>0, <1>00, <1>t DEF vars
<1>13. TypeOK /\ OnTheirPaths
  BY DEF CaseInv
<1> QED BY <1>1, <1>2, <1>3, <1>4, <1>5, <1>6, <1>7, <1>8, <1>9, <1>10, <1>11,
     <1>12, <1>13, CaseSteps DEF Next, Step

\* Scans hold pairs, index runs hold values.
LEMMA SessionTypesKept == CaseInv /\ [Next]_vars => SessionTypes'
<1> SUFFICES ASSUME CaseInv, [Next]_vars PROVE SessionTypes'
  OBVIOUS
<1>0. /\ pc \in [Reqs -> Pc]
      /\ \A q \in Reqs : Paths(q)
  BY DEF CaseInv, TypeOK, OnTheirPaths
<1>00. /\ toCheck \in [Reqs -> SUBSET (Values \cup Pair)]
       /\ added \in [Reqs -> SUBSET (Values \cup Pair)]
       /\ toScan \in [Reqs -> SUBSET iocs] /\ owed \in [Reqs -> SUBSET Pair]
       /\ iocs \subseteq Reqs
  BY DEF CaseInv, Sessions, TypeOK
<1>p. \A p \in Matching(iocs, entities) : p \in Pair
  BY MatchingPairs DEF CaseInv
<1>q. TypeOK
  BY DEF CaseInv
<1>v. \A q \in Reqs : req[q].cmd = "index" => req[q].values \subseteq Values
  BY <1>q, RequestFields
<1>s. SessionTypes
  BY DEF CaseInv, TypeOK, SessionTypes
<1> USE DEF SessionTypes, Paths, tableVars, sessionVars, histVars
<1>1. ASSUME NEW r \in Reqs, Elsewhere(r) PROVE SessionTypes'
  BY <1>1, <1>0, <1>00, <1>s DEF Elsewhere
<1>2. ASSUME NEW r \in Reqs, CommitIoc(r) PROVE SessionTypes'
  BY <1>2, <1>0, <1>00, <1>s DEF CommitIoc, Goto
<1>3. ASSUME NEW r \in Reqs, SelectIocs(r) PROVE SessionTypes'
  BY <1>3, <1>0, <1>00, <1>s, <1>p DEF SelectIocs, BeginScan, Goto
<1>4. ASSUME NEW r \in Reqs, SelectEntities(r) PROVE SessionTypes'
  BY <1>4, <1>0, <1>00, <1>s, <1>p, MatchingOfOne DEF SelectEntities, Goto
<1>5. ASSUME NEW r \in Reqs, CheckPair(r) PROVE SessionTypes'
  BY <1>5, <1>0, <1>00, <1>s DEF CheckPair
<1>6. ASSUME NEW r \in Reqs, NextIoc(r) PROVE SessionTypes'
  BY <1>6, <1>0, <1>00, <1>s DEF NextIoc, Goto
<1>7. ASSUME NEW r \in Reqs, CommitScan(r) PROVE SessionTypes'
  BY <1>7, <1>0, <1>00, <1>s DEF CommitScan, Goto
<1>8. ASSUME NEW r \in Reqs, ParseText(r) PROVE SessionTypes'
  BY <1>8, <1>0, <1>00, <1>s, <1>v DEF ParseText, Goto
<1>9. ASSUME NEW r \in Reqs, CheckEntity(r) PROVE SessionTypes'
  BY <1>9, <1>0, <1>00, <1>s DEF CheckEntity
<1>10. ASSUME NEW r \in Reqs, CommitEntities(r) PROVE SessionTypes'
  BY <1>10, <1>0, <1>00, <1>s DEF CommitEntities, Goto
<1>11. ASSUME NEW r \in Reqs, Fails(r) PROVE SessionTypes'
  BY <1>11, <1>0, <1>00, <1>s DEF Fails, Fault, Goto
<1>12. CASE UNCHANGED vars
  BY <1>12, <1>0, <1>00, <1>s DEF vars
<1>13. TypeOK /\ OnTheirPaths
  BY DEF CaseInv
<1> QED BY <1>1, <1>2, <1>3, <1>4, <1>5, <1>6, <1>7, <1>8, <1>9, <1>10, <1>11,
     <1>12, <1>13, CaseSteps DEF Next, Step

\* A match is between rows that are there.
LEMMA MatchTypesKept == CaseInv /\ [Next]_vars => MatchTypes'
<1> SUFFICES ASSUME CaseInv, [Next]_vars PROVE MatchTypes'
  OBVIOUS
<1>0. /\ pc \in [Reqs -> Pc]
      /\ \A q \in Reqs : Paths(q)
  BY DEF CaseInv, TypeOK, OnTheirPaths
<1>00. /\ toCheck \in [Reqs -> SUBSET (Values \cup Pair)]
       /\ added \in [Reqs -> SUBSET (Values \cup Pair)]
       /\ toScan \in [Reqs -> SUBSET iocs] /\ owed \in [Reqs -> SUBSET Pair]
       /\ iocs \subseteq Reqs
  BY DEF CaseInv, Sessions, TypeOK
<1>p. \A p \in Matching(iocs, entities) : p \in Pair
  BY MatchingPairs DEF CaseInv
<1>q. TypeOK
  BY DEF CaseInv
<1>v. \A q \in Reqs : req[q].cmd = "index" => req[q].values \subseteq Values
  BY <1>q, RequestFields
<1>m. MatchTypes
  BY DEF CaseInv, TypeOK, MatchTypes
<1> USE DEF MatchTypes, tableVars, sessionVars, histVars
<1>1. ASSUME NEW r \in Reqs, Elsewhere(r) PROVE MatchTypes'
  BY <1>1, <1>m DEF Elsewhere
<1>2. ASSUME NEW r \in Reqs, CommitIoc(r) PROVE MatchTypes'
  BY <1>2, <1>m DEF CommitIoc, Goto
<1>3. ASSUME NEW r \in Reqs, SelectIocs(r) PROVE MatchTypes'
  BY <1>3, <1>m DEF SelectIocs, BeginScan, Goto
<1>4. ASSUME NEW r \in Reqs, SelectEntities(r) PROVE MatchTypes'
  BY <1>4, <1>m DEF SelectEntities, Goto
<1>5. ASSUME NEW r \in Reqs, CheckPair(r) PROVE MatchTypes'
  BY <1>5, <1>m DEF CheckPair
<1>6. ASSUME NEW r \in Reqs, NextIoc(r) PROVE MatchTypes'
  BY <1>6, <1>m DEF NextIoc, Goto
<1>7. ASSUME NEW r \in Reqs, CommitScan(r) PROVE MatchTypes'
  <2>1. req[r].cmd = "ioc"
    BY <1>7, <1>0, RequestFields, <1>q DEF CommitScan, Goto, Paths
  <2>2. added[r] \subseteq Matching(iocs, entities)
    BY <2>1 DEF CaseInv, ScanPairs
  <2>3. \A p \in added[r] :
          /\ p \in Pair /\ p.ioc \in iocs /\ p.entity \in entities
          /\ req[p.ioc].value = p.entity.value
    BY <2>2, <1>q, MatchingPairs
  <2>4. /\ matches' = matches \cup {[pair |-> p, by |-> r] : p \in added[r]}
        /\ UNCHANGED <<req, iocs, entities>>
    BY <1>7 DEF CommitScan, Goto
  <2> QED BY <1>m, <2>3, <2>4
<1>8. ASSUME NEW r \in Reqs, ParseText(r) PROVE MatchTypes'
  BY <1>8, <1>m DEF ParseText, Goto
<1>9. ASSUME NEW r \in Reqs, CheckEntity(r) PROVE MatchTypes'
  BY <1>9, <1>m DEF CheckEntity
<1>10. ASSUME NEW r \in Reqs, CommitEntities(r) PROVE MatchTypes'
  BY <1>10, <1>m DEF CommitEntities, Goto
<1>11. ASSUME NEW r \in Reqs, Fails(r) PROVE MatchTypes'
  BY <1>11, <1>m DEF Fails, Fault, Goto
<1>12. CASE UNCHANGED vars
  BY <1>12, <1>m DEF vars
<1>13. TypeOK /\ OnTheirPaths
  BY DEF CaseInv
<1> QED BY <1>1, <1>2, <1>3, <1>4, <1>5, <1>6, <1>7, <1>8, <1>9, <1>10, <1>11,
     <1>12, <1>13, CaseSteps DEF Next, Step

\* A scan only holds pairs of the tables.
LEMMA ScanPairsKept == CaseInv /\ [Next]_vars => ScanPairs'
<1> SUFFICES ASSUME CaseInv, [Next]_vars PROVE ScanPairs'
  OBVIOUS
<1>0. /\ pc \in [Reqs -> Pc]
      /\ \A q \in Reqs : Paths(q)
  BY DEF CaseInv, TypeOK, OnTheirPaths
<1>00. /\ toCheck \in [Reqs -> SUBSET (Values \cup Pair)]
       /\ added \in [Reqs -> SUBSET (Values \cup Pair)]
       /\ toScan \in [Reqs -> SUBSET iocs] /\ owed \in [Reqs -> SUBSET Pair]
       /\ iocs \subseteq Reqs
  BY DEF CaseInv, Sessions, TypeOK
<1>s. ScanPairs /\ TypeOK
  BY DEF CaseInv
<1>g. req' = req
  BY SameRequests
<1>e. iocs \subseteq iocs' /\ entities \subseteq entities' =>
        Matching(iocs, entities) \subseteq Matching(iocs, entities)'
  BY <1>g, MatchingGrows
<1> USE DEF ScanPairs, Paths, tableVars, sessionVars, histVars
<1>1. ASSUME NEW r \in Reqs, Elsewhere(r) PROVE ScanPairs'
  BY <1>1, <1>0, <1>00, <1>s, <1>e DEF Elsewhere
<1>2. ASSUME NEW r \in Reqs, CommitIoc(r) PROVE ScanPairs'
  BY <1>2, <1>0, <1>00, <1>s, <1>e DEF CommitIoc, Goto
<1>3. ASSUME NEW r \in Reqs, SelectIocs(r) PROVE ScanPairs'
  BY <1>3, <1>0, <1>00, <1>s, <1>e DEF SelectIocs, BeginScan, Goto
<1>4. ASSUME NEW r \in Reqs, SelectEntities(r) PROVE ScanPairs'
  BY <1>4, <1>0, <1>00, <1>s, <1>e, MatchingOfOne DEF SelectEntities, Goto
<1>5. ASSUME NEW r \in Reqs, CheckPair(r) PROVE ScanPairs'
  BY <1>5, <1>0, <1>00, <1>s, <1>e DEF CheckPair
<1>6. ASSUME NEW r \in Reqs, NextIoc(r) PROVE ScanPairs'
  BY <1>6, <1>0, <1>00, <1>s, <1>e DEF NextIoc, Goto
<1>7. ASSUME NEW r \in Reqs, CommitScan(r) PROVE ScanPairs'
  BY <1>7, <1>0, <1>00, <1>s, <1>e DEF CommitScan, Goto
<1>8. ASSUME NEW r \in Reqs, ParseText(r) PROVE ScanPairs'
  BY <1>8, <1>0, <1>00, <1>s, <1>e DEF ParseText, Goto
<1>9. ASSUME NEW r \in Reqs, CheckEntity(r) PROVE ScanPairs'
  BY <1>9, <1>0, <1>00, <1>s, <1>e DEF CheckEntity
<1>10. ASSUME NEW r \in Reqs, CommitEntities(r) PROVE ScanPairs'
  BY <1>10, <1>0, <1>00, <1>s, <1>e DEF CommitEntities, Goto
<1>11. ASSUME NEW r \in Reqs, Fails(r) PROVE ScanPairs'
  BY <1>11, <1>0, <1>00, <1>s, <1>e DEF Fails, Fault, Goto
<1>12. CASE UNCHANGED vars
  BY <1>12, <1>0, <1>00, <1>s, <1>e DEF vars
<1>13. TypeOK /\ OnTheirPaths
  BY DEF CaseInv
<1> QED BY <1>1, <1>2, <1>3, <1>4, <1>5, <1>6, <1>7, <1>8, <1>9, <1>10, <1>11,
     <1>12, <1>13, CaseSteps DEF Next, Step

\* Matches are only ever added.
LEMMA MatchesStay ==
  ASSUME matches \subseteq matches'
  PROVE  \A p : Matched(p) => Matched(p)'
BY DEF Matched

\* What a scan owes it has, or will come to.
LEMMA ScanCoversKept == CaseInv /\ [Next]_vars => ScanCovers'
<1> SUFFICES ASSUME CaseInv, [Next]_vars PROVE ScanCovers'
  OBVIOUS
<1>0. /\ pc \in [Reqs -> Pc]
      /\ \A q \in Reqs : Paths(q)
  BY DEF CaseInv, TypeOK, OnTheirPaths
<1>00. /\ toCheck \in [Reqs -> SUBSET (Values \cup Pair)]
       /\ added \in [Reqs -> SUBSET (Values \cup Pair)]
       /\ toScan \in [Reqs -> SUBSET iocs] /\ owed \in [Reqs -> SUBSET Pair]
       /\ iocs \subseteq Reqs
  BY DEF CaseInv, Sessions, TypeOK
<1>s. ScanCovers /\ ScanPairs
  BY DEF CaseInv
<1>e. matches \subseteq matches' => \A p : Matched(p) => Matched(p)'
  BY MatchesStay
<1> USE DEF ScanCovers, Scanning, Paths, tableVars, sessionVars, histVars
<1>1. ASSUME NEW r \in Reqs, Elsewhere(r) PROVE ScanCovers'
  BY <1>1, <1>0, <1>00, <1>s, <1>e DEF Elsewhere, Working
<1>2. ASSUME NEW r \in Reqs, CommitIoc(r) PROVE ScanCovers'
  BY <1>2, <1>0, <1>00, <1>s, <1>e DEF CommitIoc, Goto
<1>3. ASSUME NEW r \in Reqs, SelectIocs(r) PROVE ScanCovers'
  BY <1>3, <1>0, <1>00, <1>s, <1>e DEF SelectIocs, BeginScan, Goto, Matching
<1>4. ASSUME NEW r \in Reqs, SelectEntities(r) PROVE ScanCovers'
  <2>1. PICK i \in toScan[r] :
          /\ toScan' = [toScan EXCEPT ![r] = @ \ {i}]
          /\ toCheck' = [toCheck EXCEPT ![r] = Matching({i}, entities)]
    BY <1>4 DEF SelectEntities
  <2>2. /\ pc[r] = "scan" /\ pc' = [pc EXCEPT ![r] = "check"]
        /\ UNCHANGED <<req, matches, added, owed>>
    BY <1>4 DEF SelectEntities, Goto
  <2>3. req[r].cmd = "ioc" => \A p \in owed[r] : p.ioc = i => p \in Matching({i}, entities)
    BY <1>s, <1>00, <2>1, MatchingOfOne DEF ScanPairs
  <2> QED BY <1>0, <1>00, <1>s, <1>e, <2>1, <2>2, <2>3
<1>5. ASSUME NEW r \in Reqs, CheckPair(r) PROVE ScanCovers'
  BY <1>5, <1>0, <1>00, <1>s, <1>e DEF CheckPair
<1>6. ASSUME NEW r \in Reqs, NextIoc(r) PROVE ScanCovers'
  BY <1>6, <1>0, <1>00, <1>s, <1>e DEF NextIoc, Goto
<1>7. ASSUME NEW r \in Reqs, CommitScan(r) PROVE ScanCovers'
  BY <1>7, <1>0, <1>00, <1>s, <1>e DEF CommitScan, Goto
<1>8. ASSUME NEW r \in Reqs, ParseText(r) PROVE ScanCovers'
  BY <1>8, <1>0, <1>00, <1>s, <1>e DEF ParseText, Goto
<1>9. ASSUME NEW r \in Reqs, CheckEntity(r) PROVE ScanCovers'
  BY <1>9, <1>0, <1>00, <1>s, <1>e DEF CheckEntity
<1>10. ASSUME NEW r \in Reqs, CommitEntities(r) PROVE ScanCovers'
  BY <1>10, <1>0, <1>00, <1>s, <1>e DEF CommitEntities, Goto
<1>11. ASSUME NEW r \in Reqs, Fails(r) PROVE ScanCovers'
  BY <1>11, <1>0, <1>00, <1>s, <1>e DEF Fails, Fault, Goto
<1>12. CASE UNCHANGED vars
  BY <1>12, <1>0, <1>00, <1>s, <1>e DEF vars
<1>13. TypeOK /\ OnTheirPaths
  BY DEF CaseInv
<1> QED BY <1>1, <1>2, <1>3, <1>4, <1>5, <1>6, <1>7, <1>8, <1>9, <1>10, <1>11,
     <1>12, <1>13, CaseSteps DEF Next, Step

\* When a scan answers, it has committed a match for whatever it owes.
LEMMA ScanIsCompleteKept == CaseInv /\ [Next]_vars => ScanIsComplete'
<1> SUFFICES ASSUME CaseInv, [Next]_vars PROVE ScanIsComplete'
  OBVIOUS
<1>0. /\ pc \in [Reqs -> Pc]
      /\ \A q \in Reqs : Paths(q)
  BY DEF CaseInv, TypeOK, OnTheirPaths
<1>00. /\ toCheck \in [Reqs -> SUBSET (Values \cup Pair)]
       /\ added \in [Reqs -> SUBSET (Values \cup Pair)]
       /\ toScan \in [Reqs -> SUBSET iocs] /\ owed \in [Reqs -> SUBSET Pair]
       /\ iocs \subseteq Reqs
  BY DEF CaseInv, Sessions, TypeOK
<1>s. ScanCovers /\ ScanPairs
  BY DEF CaseInv
<1>e. matches \subseteq matches' => \A p : Matched(p) => Matched(p)'
  BY MatchesStay
<1>c. ScanIsComplete
  BY DEF CaseInv
<1> USE DEF ScanIsComplete, Paths, tableVars, sessionVars, histVars
<1>1. ASSUME NEW r \in Reqs, Elsewhere(r) PROVE ScanIsComplete'
  BY <1>1, <1>0, <1>00, <1>c, <1>e DEF Elsewhere
<1>2. ASSUME NEW r \in Reqs, CommitIoc(r) PROVE ScanIsComplete'
  BY <1>2, <1>0, <1>00, <1>c, <1>e DEF CommitIoc, Goto
<1>3. ASSUME NEW r \in Reqs, SelectIocs(r) PROVE ScanIsComplete'
  BY <1>3, <1>0, <1>00, <1>c, <1>e DEF SelectIocs, BeginScan, Goto
<1>4. ASSUME NEW r \in Reqs, SelectEntities(r) PROVE ScanIsComplete'
  BY <1>4, <1>0, <1>00, <1>c, <1>e DEF SelectEntities, Goto
<1>5. ASSUME NEW r \in Reqs, CheckPair(r) PROVE ScanIsComplete'
  BY <1>5, <1>0, <1>00, <1>c, <1>e DEF CheckPair
<1>6. ASSUME NEW r \in Reqs, NextIoc(r) PROVE ScanIsComplete'
  BY <1>6, <1>0, <1>00, <1>c, <1>e DEF NextIoc, Goto
<1>7. ASSUME NEW r \in Reqs, CommitScan(r) PROVE ScanIsComplete'
  <2>1. /\ pc[r] = "scan" /\ toScan[r] = {} /\ pc' = [pc EXCEPT ![r] = "done"]
        /\ matches' = matches \cup {[pair |-> p, by |-> r] : p \in added[r]}
        /\ UNCHANGED <<req, owed>>
    BY <1>7 DEF CommitScan, Goto
  <2>2. ASSUME NEW p \in added[r] PROVE Matched(p)'
    <3>1. [pair |-> p, by |-> r] \in matches' /\ [pair |-> p, by |-> r].pair = p
      BY <2>1
    <3> QED BY <3>1 DEF Matched
  <2>3. req[r].cmd = "ioc" => \A p \in owed[r] : Matched(p)'
    BY <1>0, <1>s, <1>e, <2>1, <2>2 DEF ScanCovers, Scanning
  <2> QED BY <1>0, <1>00, <1>c, <1>e, <2>1, <2>3
<1>8. ASSUME NEW r \in Reqs, ParseText(r) PROVE ScanIsComplete'
  BY <1>8, <1>0, <1>00, <1>c, <1>e DEF ParseText, Goto
<1>9. ASSUME NEW r \in Reqs, CheckEntity(r) PROVE ScanIsComplete'
  BY <1>9, <1>0, <1>00, <1>c, <1>e DEF CheckEntity
<1>10. ASSUME NEW r \in Reqs, CommitEntities(r) PROVE ScanIsComplete'
  BY <1>10, <1>0, <1>00, <1>c, <1>e DEF CommitEntities, Goto
<1>11. ASSUME NEW r \in Reqs, Fails(r) PROVE ScanIsComplete'
  BY <1>11, <1>0, <1>00, <1>c, <1>e DEF Fails, Fault, Goto, Pc, End
<1>12. CASE UNCHANGED vars
  BY <1>12, <1>0, <1>00, <1>c, <1>e DEF vars
<1>13. TypeOK /\ OnTheirPaths
  BY DEF CaseInv
<1> QED BY <1>1, <1>2, <1>3, <1>4, <1>5, <1>6, <1>7, <1>8, <1>9, <1>10, <1>11,
     <1>12, <1>13, CaseSteps DEF Next, Step

LEMMA SameMatched ==
  ASSUME matches' = matches
  PROVE  \A p : Matched(p)' <=> Matched(p)
BY DEF Matched

LEMMA SameKnown ==
  ASSUME entities' = entities
  PROVE  \A v : Known(v)' <=> Known(v)
BY DEF Known

\* A second scan under way is seen.
LEMMA OneScanKept == CaseInv /\ [Next]_vars => OneScan'
<1> SUFFICES ASSUME CaseInv, [Next]_vars PROVE OneScan'
  OBVIOUS
<1>0. /\ pc \in [Reqs -> Pc]
      /\ \A q \in Reqs : Paths(q)
  BY DEF CaseInv, TypeOK, OnTheirPaths
<1>00. /\ toCheck \in [Reqs -> SUBSET (Values \cup Pair)]
       /\ added \in [Reqs -> SUBSET (Values \cup Pair)]
       /\ toScan \in [Reqs -> SUBSET iocs] /\ owed \in [Reqs -> SUBSET Pair]
       /\ iocs \subseteq Reqs
  BY DEF CaseInv, Sessions, TypeOK
<1>s. OneScan /\ AddedBy
  BY DEF CaseInv
<1>e. matches' = matches => \A p : Matched(p)' <=> Matched(p)
  BY SameMatched
<1> USE DEF OneScan, AddedBy, Scanning, tableVars, sessionVars, histVars
<1>1. ASSUME NEW r \in Reqs, Elsewhere(r) PROVE OneScan'
  BY <1>1, <1>0, <1>00, <1>s, <1>e DEF Elsewhere, Working
<1>2. ASSUME NEW r \in Reqs, CommitIoc(r) PROVE OneScan'
  BY <1>2, <1>0, <1>00, <1>s, <1>e DEF CommitIoc, Goto
<1>3. ASSUME NEW r \in Reqs, SelectIocs(r) PROVE OneScan'
  BY <1>3, <1>0, <1>00, <1>s, <1>e DEF SelectIocs, BeginScan, Goto, Others
<1>4. ASSUME NEW r \in Reqs, SelectEntities(r) PROVE OneScan'
  BY <1>4, <1>0, <1>00, <1>s, <1>e DEF SelectEntities, Goto
<1>5. ASSUME NEW r \in Reqs, CheckPair(r) PROVE OneScan'
  BY <1>5, <1>0, <1>00, <1>s, <1>e DEF CheckPair
<1>6. ASSUME NEW r \in Reqs, NextIoc(r) PROVE OneScan'
  BY <1>6, <1>0, <1>00, <1>s, <1>e DEF NextIoc, Goto
<1>7. ASSUME NEW r \in Reqs, CommitScan(r) PROVE OneScan'
  BY <1>7, <1>0, <1>00, <1>s, <1>e DEF CommitScan, Goto
<1>8. ASSUME NEW r \in Reqs, ParseText(r) PROVE OneScan'
  BY <1>8, <1>0, <1>00, <1>s, <1>e DEF ParseText, Goto
<1>9. ASSUME NEW r \in Reqs, CheckEntity(r) PROVE OneScan'
  BY <1>9, <1>0, <1>00, <1>s, <1>e DEF CheckEntity
<1>10. ASSUME NEW r \in Reqs, CommitEntities(r) PROVE OneScan'
  BY <1>10, <1>0, <1>00, <1>s, <1>e DEF CommitEntities, Goto
<1>11. ASSUME NEW r \in Reqs, Fails(r) PROVE OneScan'
  BY <1>11, <1>0, <1>00, <1>s, <1>e DEF Fails, Fault, Goto, Pc, End
<1>12. CASE UNCHANGED vars
  BY <1>12, <1>0, <1>00, <1>s, <1>e DEF vars
<1>13. TypeOK /\ OnTheirPaths
  BY DEF CaseInv
<1> QED BY <1>1, <1>2, <1>3, <1>4, <1>5, <1>6, <1>7, <1>8, <1>9, <1>10, <1>11,
     <1>12, <1>13, CaseSteps DEF Next, Step

\* A second index run under way is seen.
LEMMA OneRunKept == CaseInv /\ [Next]_vars => OneRun'
<1> SUFFICES ASSUME CaseInv, [Next]_vars PROVE OneRun'
  OBVIOUS
<1>0. /\ pc \in [Reqs -> Pc]
      /\ \A q \in Reqs : Paths(q)
  BY DEF CaseInv, TypeOK, OnTheirPaths
<1>00. /\ toCheck \in [Reqs -> SUBSET (Values \cup Pair)]
       /\ added \in [Reqs -> SUBSET (Values \cup Pair)]
       /\ toScan \in [Reqs -> SUBSET iocs] /\ owed \in [Reqs -> SUBSET Pair]
       /\ iocs \subseteq Reqs
  BY DEF CaseInv, Sessions, TypeOK
<1>s. OneRun /\ AddedBy
  BY DEF CaseInv
<1>e. entities' = entities => \A v : Known(v)' <=> Known(v)
  BY SameKnown
<1> USE DEF OneRun, AddedBy, tableVars, sessionVars, histVars
<1>1. ASSUME NEW r \in Reqs, Elsewhere(r) PROVE OneRun'
  BY <1>1, <1>0, <1>00, <1>s, <1>e DEF Elsewhere, Working
<1>2. ASSUME NEW r \in Reqs, CommitIoc(r) PROVE OneRun'
  BY <1>2, <1>0, <1>00, <1>s, <1>e DEF CommitIoc, Goto
<1>3. ASSUME NEW r \in Reqs, SelectIocs(r) PROVE OneRun'
  BY <1>3, <1>0, <1>00, <1>s, <1>e DEF SelectIocs, BeginScan, Goto
<1>4. ASSUME NEW r \in Reqs, SelectEntities(r) PROVE OneRun'
  BY <1>4, <1>0, <1>00, <1>s, <1>e DEF SelectEntities, Goto
<1>5. ASSUME NEW r \in Reqs, CheckPair(r) PROVE OneRun'
  BY <1>5, <1>0, <1>00, <1>s, <1>e DEF CheckPair
<1>6. ASSUME NEW r \in Reqs, NextIoc(r) PROVE OneRun'
  BY <1>6, <1>0, <1>00, <1>s, <1>e DEF NextIoc, Goto
<1>7. ASSUME NEW r \in Reqs, CommitScan(r) PROVE OneRun'
  BY <1>7, <1>0, <1>00, <1>s, <1>e DEF CommitScan, Goto
<1>8. ASSUME NEW r \in Reqs, ParseText(r) PROVE OneRun'
  BY <1>8, <1>0, <1>00, <1>s, <1>e DEF ParseText, Goto, Others
<1>9. ASSUME NEW r \in Reqs, CheckEntity(r) PROVE OneRun'
  BY <1>9, <1>0, <1>00, <1>s, <1>e DEF CheckEntity
<1>10. ASSUME NEW r \in Reqs, CommitEntities(r) PROVE OneRun'
  BY <1>10, <1>0, <1>00, <1>s, <1>e DEF CommitEntities, Goto
<1>11. ASSUME NEW r \in Reqs, Fails(r) PROVE OneRun'
  BY <1>11, <1>0, <1>00, <1>s, <1>e DEF Fails, Fault, Goto, Pc, End
<1>12. CASE UNCHANGED vars
  BY <1>12, <1>0, <1>00, <1>s, <1>e DEF vars
<1>13. TypeOK /\ OnTheirPaths
  BY DEF CaseInv
<1> QED BY <1>1, <1>2, <1>3, <1>4, <1>5, <1>6, <1>7, <1>8, <1>9, <1>10, <1>11,
     <1>12, <1>13, CaseSteps DEF Next, Step

\* One scan at a time adds no pair twice, one index run no value.
LEMMA SerialIsUniqueKept == CaseInv /\ [Next]_vars => SerialIsUnique'
<1> SUFFICES ASSUME CaseInv, [Next]_vars PROVE SerialIsUnique'
  OBVIOUS
<1>s. SerialIsUnique /\ OneScan /\ OneRun
  BY DEF CaseInv
<1> USE DEF SerialIsUnique, tableVars, sessionVars, histVars
<1>1. ASSUME NEW r \in Reqs, Elsewhere(r) PROVE SerialIsUnique'
  BY <1>1, <1>s DEF Elsewhere
<1>2. ASSUME NEW r \in Reqs, CommitIoc(r) PROVE SerialIsUnique'
  BY <1>2, <1>s DEF CommitIoc, Goto
<1>3. ASSUME NEW r \in Reqs, SelectIocs(r) PROVE SerialIsUnique'
  BY <1>3, <1>s DEF SelectIocs, BeginScan, Goto
<1>4. ASSUME NEW r \in Reqs, SelectEntities(r) PROVE SerialIsUnique'
  BY <1>4, <1>s DEF SelectEntities, Goto
<1>5. ASSUME NEW r \in Reqs, CheckPair(r) PROVE SerialIsUnique'
  BY <1>5, <1>s DEF CheckPair
<1>6. ASSUME NEW r \in Reqs, NextIoc(r) PROVE SerialIsUnique'
  BY <1>6, <1>s DEF NextIoc, Goto
<1>7. ASSUME NEW r \in Reqs, CommitScan(r) PROVE SerialIsUnique'
  <2>1. /\ pc[r] = "scan" /\ UNCHANGED <<entities, scansOverlapped, runsOverlapped>>
        /\ matches' = matches \cup {[pair |-> p, by |-> r] : p \in added[r]}
    BY <1>7 DEF CommitScan, Goto, histVars
  <2>2. ~scansOverlapped => \A p \in added[r] : \A m \in matches : m.pair # p
    BY <1>s, <2>1 DEF OneScan, Scanning, Matched
  <2> QED BY <1>s, <2>1, <2>2
<1>8. ASSUME NEW r \in Reqs, ParseText(r) PROVE SerialIsUnique'
  BY <1>8, <1>s DEF ParseText, Goto
<1>9. ASSUME NEW r \in Reqs, CheckEntity(r) PROVE SerialIsUnique'
  BY <1>9, <1>s DEF CheckEntity
<1>10. ASSUME NEW r \in Reqs, CommitEntities(r) PROVE SerialIsUnique'
  <2>1. /\ pc[r] = "index" /\ UNCHANGED <<matches, scansOverlapped, runsOverlapped>>
        /\ entities' = entities \cup {[by |-> r, value |-> v] : v \in added[r]}
    BY <1>10 DEF CommitEntities, Goto, histVars
  <2>2. ~runsOverlapped => \A v \in added[r] : \A e \in entities : e.value # v
    BY <1>s, <2>1 DEF OneRun, Known
  <2> QED BY <1>s, <2>1, <2>2
<1>11. ASSUME NEW r \in Reqs, Fails(r) PROVE SerialIsUnique'
  BY <1>11, <1>s DEF Fails, Fault, Goto
<1>12. CASE UNCHANGED vars
  BY <1>12, <1>s DEF vars
<1>13. TypeOK /\ OnTheirPaths
  BY DEF CaseInv
<1> QED BY <1>1, <1>2, <1>3, <1>4, <1>5, <1>6, <1>7, <1>8, <1>9, <1>10, <1>11,
     <1>12, <1>13, CaseSteps DEF Next, Step

-----------------------------------------------------------------------------
\* The type invariant is its parts.
LEMMA TypeParts ==
  TypeOK <=> /\ CaseTypes /\ TableTypes /\ SessionTypes /\ MatchTypes
             /\ Custody!TypeOK /\ Appenders
BY DEF TypeOK, CaseTypes, TableTypes, SessionTypes, MatchTypes, Appenders

\* Before the case there is nothing.
LEMMA RecordsInit == Init => CaseInv
<1> SUFFICES ASSUME Init PROVE CaseInv
  OBVIOUS
<1>1. /\ pc = [r \in Reqs |-> "new"]
      /\ toScan = [r \in Reqs |-> {}] /\ toCheck = [r \in Reqs |-> {}]
      /\ added = [r \in Reqs |-> {}] /\ owed = [r \in Reqs |-> {}]
      /\ iocs = {} /\ entities = {} /\ matches = {} /\ audited = {}
      /\ req \in [Reqs -> Requests]
  BY DEF Init
<1>2. /\ File!Init /\ log = <<>> /\ torn = FALSE /\ appending = {}
  BY SameFile DEF Init, Custody!Init
<1>3. Custody!TypeOK
  BY <1>2, File!TypeInit, SameFile, BoundsAssumption
<1>4. CaseTypes
  <2>1. pc \in [Reqs -> Pc]
    BY <1>1 DEF Pc
  <2>2. faults \in 0..MaxFaults
    BY BoundsAssumption DEF Init
  <2>3. caseRow = FALSE /\ dirs = FALSE /\ early = FALSE
    BY DEF Init
  <2> QED BY <1>1, <2>1, <2>2, <2>3 DEF CaseTypes
<1>5. TableTypes /\ SessionTypes /\ MatchTypes
  BY <1>1 DEF Init, TableTypes, SessionTypes, MatchTypes
<1>6. Appenders
  BY <1>1, <1>2 DEF Appenders
<1>7. TypeOK
  BY <1>3, <1>4, <1>5, <1>6, TypeParts
<1>8. Sessions
  BY <1>1 DEF Sessions
<1>9. OnTheirPaths
  BY <1>1, <1>7, RequestFields DEF OnTheirPaths, Paths
<1>10. OneCreator
  BY DEF Init, OneCreator, Creators
<1>11. CreatorFollows /\ Faultless
  BY <1>1, <1>2 DEF Init, CreatorFollows, Faultless, Creators
<1>12. NobodyEarlier /\ FirstLink /\ CreateIsFirst
  BY <1>1, <1>2 DEF NobodyEarlier, FirstLink, CreateIsFirst
<1>13. ScanPairs /\ ScanCovers /\ AddedBy /\ ScanIsComplete
  BY <1>1 DEF ScanPairs, ScanCovers, Scanning, AddedBy, ScanIsComplete
<1>14. OneScan /\ OneRun /\ SerialIsUnique
  BY <1>1 DEF OneScan, OneRun, Scanning, SerialIsUnique
<1> QED
  BY <1>7, <1>8, <1>9, <1>10, <1>11, <1>12, <1>13, <1>14 DEF CaseInv

\* Every step keeps every part of the invariant.
LEMMA RecordsStep == CaseInv /\ [Next]_vars => CaseInv'
<1> SUFFICES ASSUME CaseInv, [Next]_vars PROVE CaseInv'
  OBVIOUS
<1>1. CaseTypes' /\ TableTypes' /\ SessionTypes' /\ MatchTypes'
  BY CaseTypesKept, TableTypesKept, SessionTypesKept, MatchTypesKept
<1>2. Custody!TypeOK' /\ Appenders'
  BY LogTypes, AppendersKept
<1>3. TypeOK'
  BY <1>1, <1>2
  DEF TypeOK, CaseTypes, TableTypes, SessionTypes, MatchTypes, Appenders
<1>4. /\ Sessions' /\ OnTheirPaths' /\ OneCreator' /\ CreatorFollows' /\ Faultless'
      /\ NobodyEarlier' /\ FirstLink' /\ CreateIsFirst'
  BY SessionsKept, PathsKept, OneCreatorKept, CreatorFollowsKept, FaultlessKept,
     NobodyEarlierKept, FirstLinkKept, CreateIsFirstKept
<1>5. /\ ScanPairs' /\ ScanCovers' /\ AddedBy' /\ ScanIsComplete' /\ OneScan' /\ OneRun'
      /\ SerialIsUnique'
  BY ScanPairsKept, ScanCoversKept, AddedByKept, ScanIsCompleteKept, OneScanKept,
     OneRunKept, SerialIsUniqueKept
<1> QED BY <1>3, <1>4, <1>5 DEF CaseInv

LEMMA RecordsInvariance == Spec => []CaseInv
BY RecordsInit, RecordsStep, PTL DEF Spec

-----------------------------------------------------------------------------
\* The variables always have values a run of the program can give them: a match is
\* between an indicator and an entity that are there and agree.
THEOREM RecordsTypeCorrect == Spec => []TypeOK
<1>1. CaseInv => TypeOK
  BY DEF CaseInv
<1> QED BY <1>1, RecordsInvariance, PTL

\* Each step of a handler is a step of the custody log, or leaves it alone.
THEOREM RecordsRefineFile == Spec => Custody!Spec
<1>1. Init => Custody!Init
  BY DEF Init
<1> QED BY <1>1, StepOfLog, PTL DEF Spec, Custody!Spec

\* An entry of the case's log links to the genesis hash or to an entry before it,
\* however many handlers append at once.
THEOREM RecordsLinksKnown == Spec => []Custody!EveryLinkKnown
<1>1. Init => File!Init
  BY SameFile DEF Init
<1>2. [Next]_vars => [File!Next]_File!vars
  BY StepOfLog, SameFile DEF Custody!vars, File!vars
<1>3. File!EveryLinkKnown => Custody!EveryLinkKnown
  BY SameFile
<1>4. File!Spec => []File!EveryLinkKnown
  BY File!LinksKnown, BoundsAssumption
<1> QED BY <1>1, <1>2, <1>3, <1>4, PTL DEF Spec, File!Spec

\* A case whose creation create_case has answered has its directories and its entry,
\* or a torn line hides it; without faults nothing keeps it from the entry.
THEOREM AnsweredCaseIsThere == Spec => []AnsweredIsCreated
<1>1. CaseInv => AnsweredIsCreated
  <2> SUFFICES ASSUME CaseInv, NEW r \in Creators
               PROVE  /\ pc[r] = "done" => dirs /\ (Logged(r) \/ torn)
                      /\ faults = 0 /\ pc[r] \in End => Logged(r)
    BY DEF AnsweredIsCreated
  <2>1. r \in Reqs /\ req[r].cmd = "create"
    BY DEF Creators
  <2>2. pc[r] # "refused"
    BY <2>1 DEF CaseInv, OnTheirPaths, Paths
  <2>3. /\ pc[r] = "done" => dirs /\ (Logged(r) \/ torn)
        /\ faults = 0 => pc[r] # "failed" /\ ~torn
    BY DEF CaseInv, CreatorFollows, Faultless
  <2> QED BY <2>2, <2>3 DEF End
<1> QED BY <1>1, RecordsInvariance, PTL

\* The log of a case begins with case.create, unless a handler that found the case
\* among the rows used it before create_case was done.
THEOREM LogBeginsWithCreate == Spec => []CreateIsFirst
<1>1. CaseInv => CreateIsFirst
  BY DEF CaseInv
<1> QED BY <1>1, RecordsInvariance, PTL

\* match_iocs answers with a match for every pair that was committed when it began,
\* whatever other scans and index runs did meanwhile.
THEOREM ScansAreComplete == Spec => []ScanIsComplete
<1>1. CaseInv => ScanIsComplete
  BY DEF CaseInv
<1> QED BY <1>1, RecordsInvariance, PTL

\* Rows are duplicated only where two scans, or two index runs, overlap.
THEOREM SerialRunsAreUnique == Spec => []SerialIsUnique
<1>1. CaseInv => SerialIsUnique
  BY DEF CaseInv
<1> QED BY <1>1, RecordsInvariance, PTL
=============================================================================

