--------------------------- MODULE LabCase_proofs ---------------------------
(***************************************************************************)
(* Proofs about LabCase, for any processes, requests and bounds:           *)
(*                                                                         *)
(*   CaseRefinesLab       CaseSpec => LabSpec                              *)
(*   CaseNothingOnAFork   CaseSpec => []EntriesExtendVerified              *)
(*   CaseTypeCorrect      CaseSpec => []CaseTypeOK                         *)
(*   LogIsBacked          CaseSpec => []LoggedIsBacked                     *)
(*   NothingUnlogged      CaseSpec => []UnloggedNeedsCause                 *)
(*   ActionsAreLogged     CaseSpec => []RecordedIsLogged                   *)
(*   ShowsAreLogged       CaseSpec => []ShownIsLogged                      *)
(*   LogBeginsWithInit    CaseSpec => []InitIsFirst                        *)
(*   CaseIsCreatedOnce    CaseSpec => CreatedOnce                          *)
(*   HalfStays            CaseSpec => HalfCreatedStays                     *)
(*   CaseRefinesBook      CaseSpec => ImplementsBook                       *)
(***************************************************************************)
EXTENDS LabCase, Custody_proofs

\* Which commands get where.
Commands ==
  \A p \in Writers :
    /\ pc[p] \in {"layout", "json"} => req[p].cmd = "init"
    /\ pc[p] \in {"analyse", "report"} => req[p].cmd = "analyse"
    /\ pc[p] \in {"work", "declined"} => NeedsNoCase(p)
    /\ pc[p] = "record" => req[p].cmd # "init"
    /\ pc[p] = "answer" => req[p].cmd = "show"
    /\ pc[p] \in {"new", "refused"} => findings[p] = 0

\* At most one init is between its mkdir and its case.json, and then there is no
\* case.json that can be read.
Creating(p) == pc[p] \in {"layout", "json"}

OneCreator ==
  /\ \A p \in Writers : Creating(p) => dir /\ caseJson \in Missing
  /\ \A p, q \in Writers : Creating(p) /\ Creating(q) => p = q
  /\ caseJson \notin Missing => pc[caseJson] \notin {"new", "refused"}

\* A command is in the log only once it has appended.
LoggedLater ==
  \A p \in Writers : Logged(p) => pc[p] \in {"record", "answer"} \cup End

\* An analysis that is in the log, or is about to be, has all its findings and its
\* report.
Reporting(p) == Logged(p) \/ pc[p] \in {"append", "appending", "record"}

AnalysesBacked ==
  \A p \in Analyses :
    /\ Reporting(p) \/ pc[p] = "report" => findings[p] = req[p].findings
    /\ Reporting(p) => report[p] \in {"written", "lost"}

\* Who is about to record an action is in the log, and so is who has recorded one.
Recorders ==
  ~torn /\ ~powerLost =>
    \A p \in Writers : pc[p] = "record" \/ p \in actions => Logged(p)

\* Without a fault only a fork keeps a command from being logged.
Faultless ==
  faults = 0 =>
    /\ ~torn /\ ~powerLost
    /\ \A p \in Writers :
         /\ pc[p] \in {"answer", "failed"} => Logged(p) \/ ~verify_chain(log)
         /\ pc[p] = "done" /\ p \in Analyses => Logged(p)
         /\ told[p] = "verified" => Logged(p)

\* Once create_case has returned there is an entry, if only a torn one, and so there
\* is for whoever was let in then.
FirstEntry ==
  ~powerLost =>
    /\ \A p \in Writers :
         req[p].cmd = "init" /\ pc[p] = "done" => log # <<>> \/ torn
    /\ log # <<>> => req[log[1].body].cmd = "init" \/ log[1].body \in early
    /\ \A p \in Writers \ early :
         req[p].cmd # "init" /\ pc[p] \notin {"new", "refused"} =>
           log # <<>> \/ torn

CaseInv ==
  /\ CaseTypeOK /\ Commands /\ OneCreator /\ LoggedLater /\ AnalysesBacked
  /\ Recorders /\ Faultless /\ FirstEntry

-----------------------------------------------------------------------------
\* Each step of a command is a step of the log, or leaves the log alone.
LEMMA CaseStepOfLog == [CaseNext]_caseVars => [LabNext]_vars
<1> SUFFICES ASSUME [CaseNext]_caseVars PROVE [LabNext]_vars
  OBVIOUS
<1>1. ASSUME NEW p \in Writers, ProcNext(p) PROVE [LabNext]_vars
  <2>1. CASE ReadLog(p)
    BY <2>1 DEF ReadLog, LabNext
  <2>2. CASE AppendEntry(p)
    <3>1. p \in Bodies /\ WriteEntry(p, p)
      BY <2>2, OneEntryEach DEF AppendEntry
    <3> QED BY <3>1 DEF LabNext
  <2>3. CASE \/ MakeDir(p) \/ OpenCaseJson(p) \/ WriteCaseJson(p) \/ LoadCase(p)
             \/ InsertFinding(p) \/ OpenReport(p) \/ WriteReport(p)
             \/ RecordAction(p) \/ Answer(p) \/ EnsureLayout(p) \/ EndWork(p) \/ Decline(p)
    BY <2>3 DEF MakeDir, OpenCaseJson, WriteCaseJson, LoadCase, InsertFinding,
                OpenReport, WriteReport, RecordAction, Answer, EnsureLayout, EndWork,
                Decline
  <2> QED BY <1>1, <2>1, <2>2, <2>3 DEF ProcNext
<1>2. ASSUME NEW p \in Writers, AppendFails(p) PROVE [LabNext]_vars
  BY <1>2 DEF AppendFails, LabNext
<1>3. ASSUME NEW p \in Writers, RecordFails(p) PROVE [LabNext]_vars
  BY <1>3 DEF RecordFails
<1>4. ASSUME NEW p \in Writers, Crash(p) PROVE [LabNext]_vars
  BY <1>4 DEF Crash, LabNext
<1>5. ASSUME NEW k \in 0..Len(log), LosePower(k) PROVE [LabNext]_vars
  BY <1>5 DEF LosePower, LabNext
<1>6. CASE UNCHANGED caseVars
  BY <1>6 DEF caseVars
<1> QED BY <1>1, <1>2, <1>3, <1>4, <1>5, <1>6 DEF CaseNext

\* A case and its commands implement the log that LabCustody describes, so what
\* is proved of that log, and of CustodyFile's, holds of every dfirlab case.
THEOREM CaseRefinesLab == CaseSpec => LabSpec
<1>1. CaseInit => Init
  BY DEF CaseInit
<1> QED BY <1>1, CaseStepOfLog, PTL DEF CaseSpec, LabSpec

\* However the commands of a case interleave, crash or lose power, nothing in its
\* log is built on a fork.
THEOREM CaseNothingOnAFork == CaseSpec => []EntriesExtendVerified
BY CaseRefinesLab, NothingOnAFork, PTL

-----------------------------------------------------------------------------
\* Requests are well-formed.
LEMMA RequestFields ==
  ASSUME req \in [Writers -> Requests], NEW p \in Writers
  PROVE  /\ req[p].cmd \in {"init", "show", "analyse", "import", "verify"}
         /\ p \in Analyses <=> req[p].cmd = "analyse"
         /\ p \in Analyses => req[p].findings \in Nat
<1>1. req[p] \in Request
  BY RequestsAssumption
<1> QED BY <1>1 DEF Request, Analyses

\* A log that stays has the same commands in it.
LEMMA LogStays ==
  ASSUME log' = log
  PROVE  \A p \in Writers : Logged(p)' <=> Logged(p)
BY DEF Logged

\* An append adds its command to what is in the log, or a torn line hides it.
LEMMA LogGrows ==
  ASSUME TypeOK, NEW p \in Writers, WriteEntry(p, p)
  PROVE  /\ torn => log' = log
         /\ ~torn => Logged(p)' /\ log' # <<>>
         /\ \A q \in Writers : Logged(q) => Logged(q)'
         /\ \A q \in Writers \ {p} : Logged(q)' => Logged(q)
         /\ log # <<>> => log' # <<>> /\ log'[1] = log[1]
         /\ ~torn /\ log = <<>> => log'[1].body = p
<1>1. CASE torn
  BY <1>1, LogStays DEF WriteEntry
<1>2. CASE ~torn
  <2> DEFINE e == NewEntry(p, tail[p])
  <2>1. log' = Append(log, e) /\ e \in CustodyEntry /\ e.body = p
    BY <1>2, NewEntryType, OneEntryEach DEF WriteEntry, TypeOK
  <2>2. log \in Seq(CustodyEntry) /\ Len(log) \in Nat
    BY LenProperties DEF TypeOK
  <2>3. /\ Len(log') = Len(log) + 1
        /\ \A i \in 1..Len(log) : log'[i] = log[i]
        /\ log'[Len(log) + 1].body = p
    BY <2>1, <2>2, FileAppend
  <2> HIDE DEF e
  <2>4. log' \in Seq(CustodyEntry)
    BY <2>1, <2>2, FileAppend
  <2>5. log' # <<>> /\ (log = <<>> <=> Len(log) = 0)
    BY <2>2, <2>3, <2>4, EmptySeq
  <2>6. Logged(p)'
    BY <2>2, <2>3 DEF Logged
  <2>7. \A q \in Writers : Logged(q) => Logged(q)'
    BY <2>2, <2>3 DEF Logged
  <2>8. \A q \in Writers \ {p} : Logged(q)' => Logged(q)
    BY <2>2, <2>3 DEF Logged
  <2>9. log # <<>> => log'[1] = log[1]
    BY <2>2, <2>3, <2>5
  <2>10. log = <<>> => log'[1].body = p
    BY <2>2, <2>3, <2>5
  <2> QED BY <1>2, <2>5, <2>6, <2>7, <2>8, <2>9, <2>10
<1> QED BY <1>1, <1>2

\* A power loss puts nobody into the log.
LEMMA LogShrinks ==
  ASSUME TypeOK, NEW k \in 0..Len(log), PowerLoss(k)
  PROVE  \A p \in Writers : Logged(p)' => Logged(p)
<1>1. log \in Seq(CustodyEntry) /\ Len(log) \in Nat
  BY LenProperties DEF TypeOK
<1>2. Len(log') = k /\ \A i \in 1..k : log'[i] = log[i]
  BY PrefixOfFile DEF PowerLoss, TypeOK
<1> QED BY <1>1, <1>2 DEF Logged

\* Without a power loss a log that does not verify never does again.
LEMMA ForkStays ==
  ASSUME TypeOK, TypeOK', [LabNext]_vars, Len(log') >= Len(log), verify_chain(log')
  PROVE  verify_chain(log)
<1>1. \A i \in 1..Len(log) : log'[i] = log[i]
  BY LabStep, EntriesKept
<1>2. /\ log \in Seq(CustodyEntry) /\ Len(log) \in Nat
      /\ log' \in Seq(CustodyEntry) /\ Len(log') \in Nat
  BY LenProperties DEF TypeOK
<1> QED BY <1>1, <1>2, VerifyPrefix

-----------------------------------------------------------------------------
\* A case that does not exist has the invariant.
LEMMA CaseStart == CaseInit => CaseInv
<1> SUFFICES ASSUME CaseInit PROVE CaseInv
  OBVIOUS
<1>1. TypeOK /\ appending = {}
  BY TypeInit DEF CaseInit, Init
<1>2. req \in [Writers -> Requests]
  BY DEF CaseInit
<1>3. \A p \in Writers : findings[p] <= (IF p \in Analyses THEN req[p].findings ELSE 0)
  <2>1. ASSUME NEW p \in Writers
        PROVE  findings[p] = 0 /\ (p \in Analyses => req[p].findings \in Nat)
    BY <1>2, RequestFields DEF CaseInit
  <2> QED BY <2>1
<1>4. CaseTypeOK
  <2>1. faults \in 0..MaxFaults
    BY MaxFaultsAssumption DEF CaseInit
  <2> QED BY <1>1, <1>2, <1>3, <2>1 DEF CaseInit, CaseTypeOK, Pc, Missing
<1>5. log = <<>> /\ 1..Len(log) = {}
  BY EmptySeq DEF CaseInit, Init
<1>6. \A p \in Writers : ~Logged(p)
  BY <1>5 DEF Logged
<1> QED
  BY <1>1, <1>4, <1>5, <1>6
  DEF CaseInit, Init, CaseInv, Commands, OneCreator, Creating, LoggedLater,
      AnalysesBacked, Recorders, Faultless, FirstEntry, Reporting, Missing, Analyses

\* The variables of a case keep their types.
LEMMA CaseTypes == CaseInv /\ [CaseNext]_caseVars => CaseTypeOK'
<1> SUFFICES ASSUME CaseInv, [CaseNext]_caseVars PROVE CaseTypeOK'
  OBVIOUS
<1>0. TypeOK' /\ MaxFaults \in Nat
  BY CaseStepOfLog, LabStep, TypeStep, MaxFaultsAssumption DEF CaseInv, CaseTypeOK
<1> USE DEF Goto, fileVars, dbVars, histVars, End, Missing, CaseInv, CaseTypeOK, Pc, Analyses
<1>1. ASSUME NEW p \in Writers, MakeDir(p) PROVE CaseTypeOK'
  BY <1>0, RequestFields, <1>1 DEF MakeDir, vars
<1>2. ASSUME NEW p \in Writers, OpenCaseJson(p) PROVE CaseTypeOK'
  BY <1>0, RequestFields, <1>2 DEF OpenCaseJson, vars, OneCreator, Creating
<1>3. ASSUME NEW p \in Writers, WriteCaseJson(p) PROVE CaseTypeOK'
  BY <1>0, RequestFields, <1>3 DEF WriteCaseJson, vars, OneCreator, Creating,
      Commands
<1>4. ASSUME NEW p \in Writers, LoadCase(p) PROVE CaseTypeOK'
  BY <1>0, RequestFields, <1>4 DEF LoadCase, Admit, vars
<1>5. ASSUME NEW p \in Writers, InsertFinding(p) PROVE CaseTypeOK'
  BY <1>0, RequestFields, <1>5 DEF InsertFinding, vars, Commands
<1>6. ASSUME NEW p \in Writers, OpenReport(p) PROVE CaseTypeOK'
  BY <1>0, RequestFields, <1>6 DEF OpenReport, vars
<1>7. ASSUME NEW p \in Writers, WriteReport(p) PROVE CaseTypeOK'
  BY <1>0, RequestFields, <1>7 DEF WriteReport, vars
<1>8. ASSUME NEW p \in Writers, ReadLog(p) PROVE CaseTypeOK'
  BY <1>0, RequestFields, <1>8 DEF ReadLog, Raise, read_and_verify, ReadTail, vars
<1>9. ASSUME NEW p \in Writers, AppendEntry(p) PROVE CaseTypeOK'
  BY <1>0, RequestFields, <1>9 DEF AppendEntry, WriteEntry, EndAppend
<1>10. ASSUME NEW p \in Writers, RecordAction(p) PROVE CaseTypeOK'
  BY <1>0, RequestFields, <1>10 DEF RecordAction, vars
<1>11. ASSUME NEW p \in Writers, Answer(p) PROVE CaseTypeOK'
  BY <1>0, RequestFields, <1>11 DEF Answer, vars
<1>12. ASSUME NEW p \in Writers, AppendFails(p) PROVE CaseTypeOK'
  BY <1>0, RequestFields, <1>12 DEF AppendFails, Raise, Fault, AbandonAppend,
      TearLine, EndAppend
<1>13. ASSUME NEW p \in Writers, RecordFails(p) PROVE CaseTypeOK'
  BY <1>0, RequestFields, <1>13 DEF RecordFails, Raise, Fault, vars
<1>14. ASSUME NEW p \in Writers, Crash(p) PROVE CaseTypeOK'
  BY <1>0, RequestFields, <1>14 DEF Crash, Fault, AbandonAppend, EndAppend, vars
<1>15. ASSUME NEW k \in 0..Len(log), LosePower(k) PROVE CaseTypeOK'
  BY <1>0, RequestFields, <1>15 DEF LosePower, PowerLoss, Fault
<1>16. CASE UNCHANGED caseVars
  BY <1>0, RequestFields, <1>16 DEF caseVars, vars
<1>17. ASSUME NEW p \in Writers, EnsureLayout(p) PROVE CaseTypeOK'
  BY <1>0, RequestFields, <1>17 DEF EnsureLayout, vars, Admit, NeedsNoCase
<1>18. ASSUME NEW p \in Writers, EndWork(p) PROVE CaseTypeOK'
  BY <1>0, RequestFields, <1>18 DEF EndWork, vars, Admit, NeedsNoCase
<1>19. ASSUME NEW p \in Writers, Decline(p) PROVE CaseTypeOK'
  BY <1>0, RequestFields, <1>19 DEF Decline, vars, Admit, NeedsNoCase
<1> QED BY <1>1, <1>2, <1>3, <1>4, <1>5, <1>6, <1>7, <1>8, <1>9, <1>10, <1>11,
     <1>12, <1>13, <1>14, <1>15, <1>16, <1>17, <1>18, <1>19
     DEF CaseNext, ProcNext

\* A command stays on its way.
LEMMA CommandsStay == CaseInv /\ [CaseNext]_caseVars => Commands'
<1> SUFFICES ASSUME CaseInv, [CaseNext]_caseVars PROVE Commands'
  OBVIOUS
<1> USE DEF Goto, fileVars, dbVars, histVars, End, Missing, CaseInv, CaseTypeOK, Commands,
    NeedsNoCase
<1>1. ASSUME NEW p \in Writers, MakeDir(p) PROVE Commands'
  BY RequestFields, <1>1 DEF MakeDir, vars
<1>2. ASSUME NEW p \in Writers, OpenCaseJson(p) PROVE Commands'
  BY RequestFields, <1>2 DEF OpenCaseJson, vars
<1>3. ASSUME NEW p \in Writers, WriteCaseJson(p) PROVE Commands'
  BY RequestFields, <1>3 DEF WriteCaseJson, vars
<1>4. ASSUME NEW p \in Writers, LoadCase(p) PROVE Commands'
  BY RequestFields, <1>4 DEF LoadCase, vars
<1>5. ASSUME NEW p \in Writers, InsertFinding(p) PROVE Commands'
  BY RequestFields, <1>5 DEF InsertFinding, vars
<1>6. ASSUME NEW p \in Writers, OpenReport(p) PROVE Commands'
  BY RequestFields, <1>6 DEF OpenReport, vars
<1>7. ASSUME NEW p \in Writers, WriteReport(p) PROVE Commands'
  BY RequestFields, <1>7 DEF WriteReport, vars
<1>8. ASSUME NEW p \in Writers, ReadLog(p) PROVE Commands'
  BY RequestFields, <1>8 DEF ReadLog, Raise, read_and_verify, ReadTail, vars
<1>9. ASSUME NEW p \in Writers, AppendEntry(p) PROVE Commands'
  BY RequestFields, <1>9 DEF AppendEntry, WriteEntry, EndAppend
<1>10. ASSUME NEW p \in Writers, RecordAction(p) PROVE Commands'
  BY RequestFields, <1>10 DEF RecordAction, vars
<1>11. ASSUME NEW p \in Writers, Answer(p) PROVE Commands'
  BY RequestFields, <1>11 DEF Answer, vars
<1>12. ASSUME NEW p \in Writers, AppendFails(p) PROVE Commands'
  BY RequestFields, <1>12 DEF AppendFails, Raise, Fault, AbandonAppend, TearLine,
      EndAppend
<1>13. ASSUME NEW p \in Writers, RecordFails(p) PROVE Commands'
  BY RequestFields, <1>13 DEF RecordFails, Raise, Fault, vars
<1>14. ASSUME NEW p \in Writers, Crash(p) PROVE Commands'
  BY RequestFields, <1>14 DEF Crash, Fault, AbandonAppend, EndAppend, vars
<1>15. ASSUME NEW k \in 0..Len(log), LosePower(k) PROVE Commands'
  BY RequestFields, <1>15 DEF LosePower, PowerLoss, Fault
<1>16. CASE UNCHANGED caseVars
  BY RequestFields, <1>16 DEF caseVars, vars
<1>17. ASSUME NEW p \in Writers, EnsureLayout(p) PROVE Commands'
  BY RequestFields, <1>17 DEF EnsureLayout, vars
<1>18. ASSUME NEW p \in Writers, EndWork(p) PROVE Commands'
  BY RequestFields, <1>18 DEF EndWork, vars
<1>19. ASSUME NEW p \in Writers, Decline(p) PROVE Commands'
  BY RequestFields, <1>19 DEF Decline, vars
<1> QED BY <1>1, <1>2, <1>3, <1>4, <1>5, <1>6, <1>7, <1>8, <1>9, <1>10, <1>11,
     <1>12, <1>13, <1>14, <1>15, <1>16, <1>17, <1>18, <1>19
     DEF CaseNext, ProcNext

\* mkdir lets one init pass, and only that one writes case.json.
LEMMA CreatorStays == CaseInv /\ [CaseNext]_caseVars => OneCreator'
<1> SUFFICES ASSUME CaseInv, [CaseNext]_caseVars PROVE OneCreator'
  OBVIOUS
<1> USE DEF Goto, fileVars, dbVars, histVars, End, Missing, CaseInv, CaseTypeOK, OneCreator, Creating
<1>1. ASSUME NEW p \in Writers, MakeDir(p) PROVE OneCreator'
  BY <1>1 DEF MakeDir, vars
<1>2. ASSUME NEW p \in Writers, OpenCaseJson(p) PROVE OneCreator'
  BY <1>2 DEF OpenCaseJson, vars
<1>3. ASSUME NEW p \in Writers, WriteCaseJson(p) PROVE OneCreator'
  BY <1>3 DEF WriteCaseJson, vars
<1>4. ASSUME NEW p \in Writers, LoadCase(p) PROVE OneCreator'
  BY <1>4 DEF LoadCase, vars
<1>5. ASSUME NEW p \in Writers, InsertFinding(p) PROVE OneCreator'
  BY <1>5 DEF InsertFinding, vars
<1>6. ASSUME NEW p \in Writers, OpenReport(p) PROVE OneCreator'
  BY <1>6 DEF OpenReport, vars
<1>7. ASSUME NEW p \in Writers, WriteReport(p) PROVE OneCreator'
  BY <1>7 DEF WriteReport, vars
<1>8. ASSUME NEW p \in Writers, ReadLog(p) PROVE OneCreator'
  BY <1>8 DEF ReadLog, Raise, read_and_verify, ReadTail, vars
<1>9. ASSUME NEW p \in Writers, AppendEntry(p) PROVE OneCreator'
  BY <1>9 DEF AppendEntry, WriteEntry, EndAppend
<1>10. ASSUME NEW p \in Writers, RecordAction(p) PROVE OneCreator'
  BY <1>10 DEF RecordAction, vars
<1>11. ASSUME NEW p \in Writers, Answer(p) PROVE OneCreator'
  BY <1>11 DEF Answer, vars
<1>12. ASSUME NEW p \in Writers, AppendFails(p) PROVE OneCreator'
  BY <1>12 DEF AppendFails, Raise, Fault, AbandonAppend, TearLine, EndAppend
<1>13. ASSUME NEW p \in Writers, RecordFails(p) PROVE OneCreator'
  BY <1>13 DEF RecordFails, Raise, Fault, vars
<1>14. ASSUME NEW p \in Writers, Crash(p) PROVE OneCreator'
  BY <1>14 DEF Crash, Fault, AbandonAppend, EndAppend, vars
<1>15. ASSUME NEW k \in 0..Len(log), LosePower(k) PROVE OneCreator'
  BY <1>15 DEF LosePower, PowerLoss, Fault
<1>16. CASE UNCHANGED caseVars
  BY <1>16 DEF caseVars, vars
<1>17. ASSUME NEW p \in Writers, EnsureLayout(p) PROVE OneCreator'
  BY <1>17 DEF EnsureLayout, vars
<1>18. ASSUME NEW p \in Writers, EndWork(p) PROVE OneCreator'
  BY <1>18 DEF EndWork, vars
<1>19. ASSUME NEW p \in Writers, Decline(p) PROVE OneCreator'
  BY <1>19 DEF Decline, vars
<1> QED BY <1>1, <1>2, <1>3, <1>4, <1>5, <1>6, <1>7, <1>8, <1>9, <1>10, <1>11,
     <1>12, <1>13, <1>14, <1>15, <1>16, <1>17, <1>18, <1>19
     DEF CaseNext, ProcNext

\* Nobody is in the log before his append, and nobody begins anew.
LEMMA LoggedStays == CaseInv /\ [CaseNext]_caseVars => LoggedLater'
<1> SUFFICES ASSUME CaseInv, [CaseNext]_caseVars PROVE LoggedLater'
  OBVIOUS
<1> USE DEF Goto, fileVars, dbVars, histVars, End, Missing, CaseInv, CaseTypeOK, LoggedLater
<1>1. ASSUME NEW p \in Writers, MakeDir(p) PROVE LoggedLater'
  BY <1>1, LogStays DEF MakeDir, vars
<1>2. ASSUME NEW p \in Writers, OpenCaseJson(p) PROVE LoggedLater'
  BY <1>2, LogStays DEF OpenCaseJson, vars
<1>3. ASSUME NEW p \in Writers, WriteCaseJson(p) PROVE LoggedLater'
  BY <1>3, LogStays DEF WriteCaseJson, vars
<1>4. ASSUME NEW p \in Writers, LoadCase(p) PROVE LoggedLater'
  BY <1>4, LogStays DEF LoadCase, vars
<1>5. ASSUME NEW p \in Writers, InsertFinding(p) PROVE LoggedLater'
  BY <1>5, LogStays DEF InsertFinding, vars
<1>6. ASSUME NEW p \in Writers, OpenReport(p) PROVE LoggedLater'
  BY <1>6, LogStays DEF OpenReport, vars
<1>7. ASSUME NEW p \in Writers, WriteReport(p) PROVE LoggedLater'
  BY <1>7, LogStays DEF WriteReport, vars
<1>8. ASSUME NEW p \in Writers, ReadLog(p) PROVE LoggedLater'
  BY <1>8, LogStays DEF ReadLog, Raise, read_and_verify, ReadTail, vars
<1>9. ASSUME NEW p \in Writers, AppendEntry(p) PROVE LoggedLater'
  BY <1>9, LogGrows DEF AppendEntry
<1>10. ASSUME NEW p \in Writers, RecordAction(p) PROVE LoggedLater'
  BY <1>10, LogStays DEF RecordAction, vars
<1>11. ASSUME NEW p \in Writers, Answer(p) PROVE LoggedLater'
  BY <1>11, LogStays DEF Answer, vars
<1>12. ASSUME NEW p \in Writers, AppendFails(p) PROVE LoggedLater'
  BY <1>12, LogStays DEF AppendFails, Raise, Fault, AbandonAppend, TearLine,
      EndAppend
<1>13. ASSUME NEW p \in Writers, RecordFails(p) PROVE LoggedLater'
  BY <1>13, LogStays DEF RecordFails, Raise, Fault, vars
<1>14. ASSUME NEW p \in Writers, Crash(p) PROVE LoggedLater'
  BY <1>14, LogStays DEF Crash, Fault, AbandonAppend, EndAppend, vars
<1>15. ASSUME NEW k \in 0..Len(log), LosePower(k) PROVE LoggedLater'
  BY <1>15, LogShrinks DEF LosePower, PowerLoss, Fault
<1>16. CASE UNCHANGED caseVars
  BY <1>16, LogStays DEF caseVars, vars
<1>17. ASSUME NEW p \in Writers, EnsureLayout(p) PROVE LoggedLater'
  BY <1>17, LogStays DEF EnsureLayout, vars
<1>18. ASSUME NEW p \in Writers, EndWork(p) PROVE LoggedLater'
  BY <1>18, LogStays DEF EndWork, vars
<1>19. ASSUME NEW p \in Writers, Decline(p) PROVE LoggedLater'
  BY <1>19, LogStays DEF Decline, vars
<1> QED BY <1>1, <1>2, <1>3, <1>4, <1>5, <1>6, <1>7, <1>8, <1>9, <1>10, <1>11,
     <1>12, <1>13, <1>14, <1>15, <1>16, <1>17, <1>18, <1>19
     DEF CaseNext, ProcNext

\* Findings and report are there before the append, and nothing takes them away.
LEMMA BackedStays == CaseInv /\ [CaseNext]_caseVars => AnalysesBacked'
<1> SUFFICES ASSUME CaseInv, [CaseNext]_caseVars PROVE AnalysesBacked'
  OBVIOUS
<1> USE DEF Goto, fileVars, dbVars, histVars, End, Missing, CaseInv, CaseTypeOK, AnalysesBacked, Reporting, LoggedLater, Commands, Analyses
<1>1. ASSUME NEW p \in Writers, MakeDir(p) PROVE AnalysesBacked'
  BY RequestFields, <1>1, LogStays DEF MakeDir, vars
<1>2. ASSUME NEW p \in Writers, OpenCaseJson(p) PROVE AnalysesBacked'
  BY RequestFields, <1>2, LogStays DEF OpenCaseJson, vars
<1>3. ASSUME NEW p \in Writers, WriteCaseJson(p) PROVE AnalysesBacked'
  BY RequestFields, <1>3, LogStays DEF WriteCaseJson, vars
<1>4. ASSUME NEW p \in Writers, LoadCase(p) PROVE AnalysesBacked'
  BY RequestFields, <1>4, LogStays DEF LoadCase, vars
<1>5. ASSUME NEW p \in Writers, InsertFinding(p) PROVE AnalysesBacked'
  BY RequestFields, <1>5, LogStays DEF InsertFinding, vars
<1>6. ASSUME NEW p \in Writers, OpenReport(p) PROVE AnalysesBacked'
  BY RequestFields, <1>6, LogStays DEF OpenReport, vars
<1>7. ASSUME NEW p \in Writers, WriteReport(p) PROVE AnalysesBacked'
  BY RequestFields, <1>7, LogStays DEF WriteReport, vars
<1>8. ASSUME NEW p \in Writers, ReadLog(p) PROVE AnalysesBacked'
  BY RequestFields, <1>8, LogStays DEF ReadLog, Raise, read_and_verify, ReadTail,
      vars
<1>9. ASSUME NEW p \in Writers, AppendEntry(p) PROVE AnalysesBacked'
  BY RequestFields, <1>9, LogGrows DEF AppendEntry, WriteEntry
<1>10. ASSUME NEW p \in Writers, RecordAction(p) PROVE AnalysesBacked'
  BY RequestFields, <1>10, LogStays DEF RecordAction, vars
<1>11. ASSUME NEW p \in Writers, Answer(p) PROVE AnalysesBacked'
  BY RequestFields, <1>11, LogStays DEF Answer, vars
<1>12. ASSUME NEW p \in Writers, AppendFails(p) PROVE AnalysesBacked'
  BY RequestFields, <1>12, LogStays DEF AppendFails, Raise, Fault, AbandonAppend,
      TearLine, EndAppend
<1>13. ASSUME NEW p \in Writers, RecordFails(p) PROVE AnalysesBacked'
  BY RequestFields, <1>13, LogStays DEF RecordFails, Raise, Fault, vars
<1>14. ASSUME NEW p \in Writers, Crash(p) PROVE AnalysesBacked'
  BY RequestFields, <1>14, LogStays DEF Crash, Fault, AbandonAppend, EndAppend, vars
<1>15. ASSUME NEW k \in 0..Len(log), LosePower(k) PROVE AnalysesBacked'
  <2> SUFFICES ASSUME NEW p \in Analyses
               PROVE  /\ Reporting(p)' => Logged(p)
                      /\ pc'[p] # "report" /\ findings' = findings /\ req' = req
                      /\ report[p] \in {"written", "lost"} => report'[p] \in {"written", "lost"}
    BY <1>15 DEF LosePower
  <2>1. Logged(p)' => Logged(p)
    BY <1>15, LogShrinks DEF LosePower
  <2>2. pc'[p] \in {"new"} \cup End
    BY <1>15 DEF LosePower
  <2>3. report'[p] = report[p] \/ report'[p] = "lost"
    BY <1>15 DEF LosePower
  <2> QED BY <1>15, <2>1, <2>2, <2>3 DEF LosePower
<1>16. CASE UNCHANGED caseVars
  BY RequestFields, <1>16, LogStays DEF caseVars, vars
<1>17. ASSUME NEW p \in Writers, EnsureLayout(p) PROVE AnalysesBacked'
  BY RequestFields, <1>17, LogStays DEF EnsureLayout, vars, NeedsNoCase
<1>18. ASSUME NEW p \in Writers, EndWork(p) PROVE AnalysesBacked'
  BY RequestFields, <1>18, LogStays DEF EndWork, vars, NeedsNoCase
<1>19. ASSUME NEW p \in Writers, Decline(p) PROVE AnalysesBacked'
  BY RequestFields, <1>19, LogStays DEF Decline, vars, NeedsNoCase
<1> QED BY <1>1, <1>2, <1>3, <1>4, <1>5, <1>6, <1>7, <1>8, <1>9, <1>10, <1>11,
     <1>12, <1>13, <1>14, <1>15, <1>16, <1>17, <1>18, <1>19
     DEF CaseNext, ProcNext

\* The append comes before the action.
LEMMA RecordersStay == CaseInv /\ [CaseNext]_caseVars => Recorders'
<1> SUFFICES ASSUME CaseInv, [CaseNext]_caseVars PROVE Recorders'
  OBVIOUS
<1> USE DEF Goto, fileVars, dbVars, histVars, End, Missing, CaseInv, CaseTypeOK, Recorders
<1>1. ASSUME NEW p \in Writers, MakeDir(p) PROVE Recorders'
  BY <1>1, LogStays DEF MakeDir, vars
<1>2. ASSUME NEW p \in Writers, OpenCaseJson(p) PROVE Recorders'
  BY <1>2, LogStays DEF OpenCaseJson, vars
<1>3. ASSUME NEW p \in Writers, WriteCaseJson(p) PROVE Recorders'
  BY <1>3, LogStays DEF WriteCaseJson, vars
<1>4. ASSUME NEW p \in Writers, LoadCase(p) PROVE Recorders'
  BY <1>4, LogStays DEF LoadCase, vars
<1>5. ASSUME NEW p \in Writers, InsertFinding(p) PROVE Recorders'
  BY <1>5, LogStays DEF InsertFinding, vars
<1>6. ASSUME NEW p \in Writers, OpenReport(p) PROVE Recorders'
  BY <1>6, LogStays DEF OpenReport, vars
<1>7. ASSUME NEW p \in Writers, WriteReport(p) PROVE Recorders'
  BY <1>7, LogStays DEF WriteReport, vars
<1>8. ASSUME NEW p \in Writers, ReadLog(p) PROVE Recorders'
  BY <1>8, LogStays DEF ReadLog, Raise, read_and_verify, ReadTail, vars
<1>9. ASSUME NEW p \in Writers, AppendEntry(p) PROVE Recorders'
  BY <1>9, LogGrows DEF AppendEntry, WriteEntry, EndAppend
<1>10. ASSUME NEW p \in Writers, RecordAction(p) PROVE Recorders'
  BY <1>10, LogStays DEF RecordAction, vars
<1>11. ASSUME NEW p \in Writers, Answer(p) PROVE Recorders'
  BY <1>11, LogStays DEF Answer, vars
<1>12. ASSUME NEW p \in Writers, AppendFails(p) PROVE Recorders'
  BY <1>12, LogStays DEF AppendFails, Raise, Fault, AbandonAppend, TearLine,
      EndAppend
<1>13. ASSUME NEW p \in Writers, RecordFails(p) PROVE Recorders'
  BY <1>13, LogStays DEF RecordFails, Raise, Fault, vars
<1>14. ASSUME NEW p \in Writers, Crash(p) PROVE Recorders'
  BY <1>14, LogStays DEF Crash, Fault, AbandonAppend, EndAppend, vars
<1>15. ASSUME NEW k \in 0..Len(log), LosePower(k) PROVE Recorders'
  BY <1>15, LogShrinks DEF LosePower, PowerLoss, Fault
<1>16. CASE UNCHANGED caseVars
  BY <1>16, LogStays DEF caseVars, vars
<1>17. ASSUME NEW p \in Writers, EnsureLayout(p) PROVE Recorders'
  BY <1>17, LogStays DEF EnsureLayout, vars
<1>18. ASSUME NEW p \in Writers, EndWork(p) PROVE Recorders'
  BY <1>18, LogStays DEF EndWork, vars
<1>19. ASSUME NEW p \in Writers, Decline(p) PROVE Recorders'
  BY <1>19, LogStays DEF Decline, vars
<1> QED BY <1>1, <1>2, <1>3, <1>4, <1>5, <1>6, <1>7, <1>8, <1>9, <1>10, <1>11,
     <1>12, <1>13, <1>14, <1>15, <1>16, <1>17, <1>18, <1>19
     DEF CaseNext, ProcNext

\* The first entry is in the log before case.json lets another command in.
LEMMA FirstStays == CaseInv /\ [CaseNext]_caseVars => FirstEntry'
<1> SUFFICES ASSUME CaseInv, [CaseNext]_caseVars PROVE FirstEntry'
  OBVIOUS
<1> USE DEF Goto, fileVars, dbVars, histVars, End, Missing, CaseInv, CaseTypeOK, FirstEntry, Commands, OneCreator, Creating, Complete,
    Admit, NeedsNoCase
<1>1. ASSUME NEW p \in Writers, MakeDir(p) PROVE FirstEntry'
  BY <1>1, LogStays DEF MakeDir, vars
<1>2. ASSUME NEW p \in Writers, OpenCaseJson(p) PROVE FirstEntry'
  BY <1>2, LogStays DEF OpenCaseJson, vars
<1>3. ASSUME NEW p \in Writers, WriteCaseJson(p) PROVE FirstEntry'
  BY <1>3, LogStays DEF WriteCaseJson, vars
<1>4. ASSUME NEW p \in Writers, LoadCase(p) PROVE FirstEntry'
  BY <1>4, LogStays DEF LoadCase, vars
<1>5. ASSUME NEW p \in Writers, InsertFinding(p) PROVE FirstEntry'
  BY <1>5, LogStays DEF InsertFinding, vars
<1>6. ASSUME NEW p \in Writers, OpenReport(p) PROVE FirstEntry'
  BY <1>6, LogStays DEF OpenReport, vars
<1>7. ASSUME NEW p \in Writers, WriteReport(p) PROVE FirstEntry'
  BY <1>7, LogStays DEF WriteReport, vars
<1>8. ASSUME NEW p \in Writers, ReadLog(p) PROVE FirstEntry'
  BY <1>8, LogStays DEF ReadLog, Raise, read_and_verify, ReadTail, vars
<1>9. ASSUME NEW p \in Writers, AppendEntry(p) PROVE FirstEntry'
  <2> SUFFICES ASSUME ~powerLost PROVE FirstEntry'
    BY <1>9 DEF AppendEntry
  <2>1. /\ WriteEntry(p, p) /\ pc[p] = "appending" /\ UNCHANGED <<req, early, powerLost>>
        /\ pc' = [pc EXCEPT ![p] = IF req[p].cmd = "init" THEN "done" ELSE "record"]
        /\ torn' = torn
    BY <1>9 DEF AppendEntry, WriteEntry
  <2>2. /\ torn => log' = log
        /\ ~torn => log' # <<>>
        /\ log # <<>> => log' # <<>> /\ log'[1] = log[1]
        /\ ~torn /\ log = <<>> => log'[1].body = p
    BY <2>1, LogGrows
  <2>3. log' # <<>> \/ torn'
    BY <2>1, <2>2
  <2>4. log = <<>> /\ ~torn => req[p].cmd = "init" \/ p \in early
    BY <2>1
  <2>5. log' # <<>> => req'[log'[1].body].cmd = "init" \/ log'[1].body \in early'
    <3>1. CASE log # <<>>
      BY <2>1, <2>2, <3>1
    <3>2. CASE log = <<>> /\ torn
      BY <2>2, <3>2
    <3>3. CASE log = <<>> /\ ~torn
      BY <2>1, <2>2, <2>4, <3>3
    <3> QED BY <3>1, <3>2, <3>3
  <2> QED BY <2>1, <2>3, <2>5
<1>10. ASSUME NEW p \in Writers, RecordAction(p) PROVE FirstEntry'
  BY <1>10, LogStays DEF RecordAction, vars
<1>11. ASSUME NEW p \in Writers, Answer(p) PROVE FirstEntry'
  BY <1>11, LogStays DEF Answer, vars
<1>12. ASSUME NEW p \in Writers, AppendFails(p) PROVE FirstEntry'
  BY <1>12, LogStays DEF AppendFails, Raise, Fault, AbandonAppend, TearLine,
      EndAppend
<1>13. ASSUME NEW p \in Writers, RecordFails(p) PROVE FirstEntry'
  BY <1>13, LogStays DEF RecordFails, Raise, Fault, vars
<1>14. ASSUME NEW p \in Writers, Crash(p) PROVE FirstEntry'
  BY <1>14, LogStays DEF Crash, Fault, AbandonAppend, EndAppend, vars
<1>15. ASSUME NEW k \in 0..Len(log), LosePower(k) PROVE FirstEntry'
  BY <1>15, LogShrinks DEF LosePower, PowerLoss, Fault
<1>16. CASE UNCHANGED caseVars
  BY <1>16, LogStays DEF caseVars, vars
<1>17. ASSUME NEW p \in Writers, EnsureLayout(p) PROVE FirstEntry'
  BY <1>17, LogStays DEF EnsureLayout, vars
<1>18. ASSUME NEW p \in Writers, EndWork(p) PROVE FirstEntry'
  BY <1>18, LogStays DEF EndWork, vars
<1>19. ASSUME NEW p \in Writers, Decline(p) PROVE FirstEntry'
  BY <1>19, LogStays DEF Decline, vars
<1> QED BY <1>1, <1>2, <1>3, <1>4, <1>5, <1>6, <1>7, <1>8, <1>9, <1>10, <1>11,
     <1>12, <1>13, <1>14, <1>15, <1>16, <1>17, <1>18, <1>19
     DEF CaseNext, ProcNext

\* An append mends no fork.
LEMMA NoForkMended ==
  ASSUME TypeOK, TypeOK', [LabNext]_vars, NEW p \in Writers, WriteEntry(p, p),
         verify_chain(log')
  PROVE  verify_chain(log)
<1>1. log \in Seq(CustodyEntry) /\ Len(log) \in Nat
  BY LenProperties DEF TypeOK
<1>2. NewEntry(p, tail[p]) \in CustodyEntry
  BY NewEntryType, OneEntryEach DEF WriteEntry, TypeOK
<1>3. Len(log') >= Len(log)
  BY <1>1, <1>2, FileAppend DEF WriteEntry
<1> QED BY <1>3, ForkStays

\* Without a fault a command fails on a fork only, and a fork stays.
LEMMA FaultlessStays == CaseInv /\ [CaseNext]_caseVars => Faultless'
<1> SUFFICES ASSUME CaseInv, [CaseNext]_caseVars PROVE Faultless'
  OBVIOUS
<1>0. TypeOK /\ TypeOK' /\ [LabNext]_vars
  BY CaseStepOfLog, LabStep, TypeStep DEF CaseInv, CaseTypeOK
<1> USE DEF Goto, fileVars, dbVars, histVars, End, Missing, CaseInv, CaseTypeOK, Faultless, Recorders, Commands, Analyses
<1>1. ASSUME NEW p \in Writers, MakeDir(p) PROVE Faultless'
  BY RequestFields, <1>1, LogStays DEF MakeDir, vars
<1>2. ASSUME NEW p \in Writers, OpenCaseJson(p) PROVE Faultless'
  BY RequestFields, <1>2, LogStays DEF OpenCaseJson, vars
<1>3. ASSUME NEW p \in Writers, WriteCaseJson(p) PROVE Faultless'
  BY RequestFields, <1>3, LogStays DEF WriteCaseJson, vars
<1>4. ASSUME NEW p \in Writers, LoadCase(p) PROVE Faultless'
  BY RequestFields, <1>4, LogStays DEF LoadCase, vars
<1>5. ASSUME NEW p \in Writers, InsertFinding(p) PROVE Faultless'
  BY RequestFields, <1>5, LogStays DEF InsertFinding, vars
<1>6. ASSUME NEW p \in Writers, OpenReport(p) PROVE Faultless'
  BY RequestFields, <1>6, LogStays DEF OpenReport, vars
<1>7. ASSUME NEW p \in Writers, WriteReport(p) PROVE Faultless'
  BY RequestFields, <1>7, LogStays DEF WriteReport, vars
<1>8. ASSUME NEW p \in Writers, ReadLog(p) PROVE Faultless'
  BY RequestFields, <1>8, LogStays DEF ReadLog, Raise, read_and_verify, ReadTail,
      vars, LogRefuses
<1>9. ASSUME NEW p \in Writers, AppendEntry(p) PROVE Faultless'
  <2>1. /\ WriteEntry(p, p) /\ pc[p] = "appending" /\ UNCHANGED <<req, told, powerLost, faults>>
        /\ pc' = [pc EXCEPT ![p] = IF req[p].cmd = "init" THEN "done" ELSE "record"]
    BY <1>9 DEF AppendEntry
  <2>2. torn' = torn /\ (verify_chain(log)' => verify_chain(log))
    BY <1>0, <2>1, NoForkMended DEF WriteEntry
  <2>3. \A q \in Writers : Logged(q) => Logged(q)'
    BY <1>0, <2>1, LogGrows
  <2>4. pc'[p] \notin {"answer", "failed"} /\ (pc'[p] = "done" => p \notin Analyses')
    BY <2>1
  <2>5. \A q \in Writers \ {p} : pc'[q] = pc[q]
    BY <2>1
  <2> QED BY <2>1, <2>2, <2>3, <2>4, <2>5
<1>10. ASSUME NEW p \in Writers, RecordAction(p) PROVE Faultless'
  BY RequestFields, <1>10, LogStays DEF RecordAction, vars
<1>11. ASSUME NEW p \in Writers, Answer(p) PROVE Faultless'
  BY RequestFields, <1>11, LogStays DEF Answer, vars
<1>12. ASSUME NEW p \in Writers, AppendFails(p) PROVE Faultless'
  BY RequestFields, <1>12 DEF AppendFails, Raise, Fault
<1>13. ASSUME NEW p \in Writers, RecordFails(p) PROVE Faultless'
  BY RequestFields, <1>13 DEF RecordFails, Raise, Fault, vars
<1>14. ASSUME NEW p \in Writers, Crash(p) PROVE Faultless'
  BY RequestFields, <1>14 DEF Crash, Fault
<1>15. ASSUME NEW k \in 0..Len(log), LosePower(k) PROVE Faultless'
  BY RequestFields, <1>15 DEF LosePower, PowerLoss, Fault
<1>16. CASE UNCHANGED caseVars
  BY RequestFields, <1>16, LogStays DEF caseVars, vars
<1>17. ASSUME NEW p \in Writers, EnsureLayout(p) PROVE Faultless'
  BY RequestFields, <1>17, LogStays DEF EnsureLayout, vars
<1>18. ASSUME NEW p \in Writers, EndWork(p) PROVE Faultless'
  BY RequestFields, <1>18, LogStays DEF EndWork, vars
<1>19. ASSUME NEW p \in Writers, Decline(p) PROVE Faultless'
  BY RequestFields, <1>19, LogStays DEF Decline, vars
<1> QED BY <1>1, <1>2, <1>3, <1>4, <1>5, <1>6, <1>7, <1>8, <1>9, <1>10, <1>11,
     <1>12, <1>13, <1>14, <1>15, <1>16, <1>17, <1>18, <1>19
     DEF CaseNext, ProcNext

\* The invariant of a case.
LEMMA CaseInvariance == CaseSpec => []CaseInv
<1>1. CaseInv /\ [CaseNext]_caseVars => CaseInv'
  BY CaseTypes, CommandsStay, CreatorStays, LoggedStays, BackedStays, RecordersStay,
     FaultlessStays, FirstStays DEF CaseInv
<1> QED BY CaseStart, <1>1, PTL DEF CaseSpec

-----------------------------------------------------------------------------
\* The variables of a case keep their types.
THEOREM CaseTypeCorrect == CaseSpec => []CaseTypeOK
<1>1. CaseInv => CaseTypeOK
  BY DEF CaseInv
<1> QED BY CaseInvariance, <1>1, PTL

\* What the log says of an analysis is backed by its findings and its report.
THEOREM LogIsBacked == CaseSpec => []LoggedIsBacked
<1>1. CaseInv => LoggedIsBacked
  BY DEF CaseInv, AnalysesBacked, Reporting, LoggedIsBacked
<1> QED BY CaseInvariance, <1>1, PTL

\* Findings that the log does not know of have a fault or a fork behind them.
THEOREM NothingUnlogged == CaseSpec => []UnloggedNeedsCause
<1>1. CaseInv => UnloggedNeedsCause
  <2> SUFFICES ASSUME CaseInv, faults = 0, verify_chain(log), NEW p \in Writers,
                      findings[p] > 0, pc[p] \in End
               PROVE  Logged(p)
    BY DEF UnloggedNeedsCause
  <2>1. p \in Analyses /\ pc[p] \in {"done", "failed"}
    <3>1. findings[p] \in Nat /\ findings[p] <= (IF p \in Analyses THEN req[p].findings ELSE 0)
      BY DEF CaseInv, CaseTypeOK
    <3>2. p \in Analyses
      BY <3>1
    <3>3. pc[p] # "refused" /\ ~NeedsNoCase(p)
      BY <3>1, <3>2 DEF CaseInv, Commands, Analyses, NeedsNoCase
    <3> QED BY <3>2, <3>3 DEF CaseInv, Commands, End
  <2> QED BY <2>1 DEF CaseInv, Faultless
<1> QED BY CaseInvariance, <1>1, PTL

\* The actions table shows nothing that the log does not.
THEOREM ActionsAreLogged == CaseSpec => []RecordedIsLogged
<1>1. CaseInv => RecordedIsLogged
  BY DEF CaseInv, CaseTypeOK, Recorders, RecordedIsLogged
<1> QED BY CaseInvariance, <1>1, PTL

\* A show that vouches for the log is in it.
THEOREM ShowsAreLogged == CaseSpec => []ShownIsLogged
<1>1. CaseInv => ShownIsLogged
  BY DEF CaseInv, Faultless, ShownIsLogged
<1> QED BY CaseInvariance, <1>1, PTL

\* The log begins with case_init or with a command that was let in before create_case
\* had returned, until a power loss cuts it.
THEOREM LogBeginsWithInit == CaseSpec => []InitIsFirst
<1>1. CaseInv => InitIsFirst
  BY DEF CaseInv, FirstEntry, InitIsFirst
<1> QED BY CaseInvariance, <1>1, PTL

\* No init ever overwrites the case.json of another.
THEOREM CaseIsCreatedOnce == CaseSpec => CreatedOnce
<1>1. CaseInv /\ [CaseNext]_caseVars =>
        [caseJson \notin Missing => caseJson' \in {caseJson, "partial"}]_caseVars
  <2> SUFFICES ASSUME CaseInv, CaseNext, caseJson \notin Missing
               PROVE  caseJson' \in {caseJson, "partial"}
    OBVIOUS
  <2>1. ASSUME NEW p \in Writers, WriteCaseJson(p) PROVE FALSE
    BY <2>1 DEF WriteCaseJson, Goto, CaseInv, OneCreator, Creating
  <2> QED
    BY <2>1
    DEF CaseNext, ProcNext, fileVars, MakeDir, OpenCaseJson, LoadCase, InsertFinding,
        EnsureLayout, EndWork, Decline,
        OpenReport, WriteReport, ReadLog, AppendEntry, RecordAction, Answer,
        AppendFails, RecordFails, Crash, LosePower, Missing
<1> QED BY CaseInvariance, <1>1, PTL DEF CaseSpec, CreatedOnce

\* A directory without a case.json and without an init at work stays so, whether an
\* init left it or an import made it.
THEOREM HalfStays == CaseSpec => HalfCreatedStays
<1>1. CaseInv /\ [CaseNext]_caseVars => [HalfCreated => HalfCreated']_caseVars
  <2> SUFFICES ASSUME CaseInv, CaseNext, HalfCreated PROVE HalfCreated'
    OBVIOUS
  <2> USE DEF Goto, CaseInv, CaseTypeOK, HalfCreated
  <2>1. ASSUME NEW p \in Writers, OpenCaseJson(p) \/ WriteCaseJson(p) PROVE FALSE
    BY <2>1 DEF OpenCaseJson, WriteCaseJson
  <2>2. ASSUME NEW p \in Writers,
               \/ MakeDir(p) \/ LoadCase(p) \/ InsertFinding(p)
               \/ OpenReport(p) \/ WriteReport(p) \/ EnsureLayout(p) \/ EndWork(p)
               \/ Decline(p)
        PROVE  HalfCreated'
    BY <2>2
    DEF MakeDir, LoadCase, InsertFinding, OpenReport, WriteReport, EnsureLayout,
        EndWork, Decline, fileVars
  <2>3. ASSUME NEW p \in Writers,
               \/ ReadLog(p) \/ AppendEntry(p) \/ RecordAction(p) \/ Answer(p)
               \/ AppendFails(p) \/ RecordFails(p) \/ Crash(p)
        PROVE  HalfCreated'
    BY <2>3
    DEF ReadLog, AppendEntry, RecordAction, Answer, AppendFails, RecordFails, Crash,
        Raise, fileVars
  <2>4. ASSUME NEW k \in 0..Len(log), LosePower(k) PROVE HalfCreated'
    BY <2>4 DEF LosePower, Missing, End
  <2> QED BY <2>1, <2>2, <2>3, <2>4 DEF CaseNext, ProcNext
<1> QED BY CaseInvariance, <1>1, PTL DEF CaseSpec, HalfCreatedStays

-----------------------------------------------------------------------------
\* A step of one command, as the book sees it.
LEMMA StageMoves ==
  ASSUME CaseTypeOK, NEW p \in Writers, NEW from, NEW to, Goto(p, from, to)
  PROVE  /\ [q \in Writers |-> Stage(pc[q])]' =
              [[q \in Writers |-> Stage(pc[q])] EXCEPT ![p] = Stage(to)]
         /\ [q \in Writers |-> Stage(pc[q])][p] = Stage(from)
         /\ req' = req
<1>1. pc' = [pc EXCEPT ![p] = to] /\ pc \in [Writers -> Pc] /\ pc[p] = from /\ req' = req
  BY DEF Goto, CaseTypeOK
<1>2. \A q \in Writers : pc'[q] = IF q = p THEN to ELSE pc[q]
  BY <1>1
<1>3. \A q \in Writers : Stage(pc[q])' = IF q = p THEN Stage(to) ELSE Stage(pc[q])
  BY <1>2
<1> QED BY <1>1, <1>3

\* A step that is not seen leaves the stages.
LEMMA StageStays ==
  ASSUME CaseTypeOK, NEW p \in Writers, NEW from, NEW to, Goto(p, from, to),
         Stage(from) = Stage(to)
  PROVE  [q \in Writers |-> Stage(pc[q])]' = [q \in Writers |-> Stage(pc[q])]
BY StageMoves

\* The positions by stage.
LEMMA Stages ==
  /\ Stage("new") = "new" /\ Stage("refused") = "refused"
  /\ \A x \in {"layout", "json", "analyse", "report", "work"} : Stage(x) = "working"
  /\ \A x \in {"append", "appending", "record", "answer"} : Stage(x) = "ready"
  /\ \A x \in {"done", "declined", "failed"} : Stage(x) = "over"
BY DEF Stage

\* The book of a log has its entries' commands.
LEMMA EnteredIsSeq ==
  ASSUME NEW entries \in Seq(CustodyEntry)
  PROVE  /\ Entered(entries) \in Seq(Bodies) /\ Len(Entered(entries)) = Len(entries)
         /\ Len(entries) \in Nat
         /\ \A i \in 1..Len(entries) : Entered(entries)[i] = entries[i].body
         /\ \A i \in 1..Len(entries) : entries[i].body \in Bodies
<1>1. Len(entries) \in Nat /\ \A i \in 1..Len(entries) : entries[i] \in CustodyEntry
  BY LenProperties, ElementOfSeq
<1>2. \A i \in 1..Len(entries) : entries[i].body \in Bodies
  BY <1>1 DEF CustodyEntry
<1>3. \A i \in 1..Len(entries) : Entered(entries)[i] = entries[i].body
  BY DEF Entered
<1>4. Entered(entries) \in Seq(Bodies) /\ Len(Entered(entries)) = Len(entries)
  BY <1>1, <1>2 DEF Entered
<1> QED BY <1>1, <1>2, <1>3, <1>4

\* Who is in the book is in the log.
LEMMA BookIsLog ==
  ASSUME TypeOK
  PROVE  /\ Len(Entered(log)) = Len(log)
         /\ \A p \in Writers : Book!InBook(p) <=> Logged(p)
<1>1. log \in Seq(CustodyEntry)
  BY DEF TypeOK
<1> QED BY <1>1, EnteredIsSeq DEF Book!InBook, Logged

\* An entry is a line at the end of the book.
LEMMA BookGrows ==
  ASSUME TypeOK, NEW p \in Writers, WriteEntry(p, p), ~torn
  PROVE  Entered(log)' = Append(Entered(log), p)
<1> DEFINE e == NewEntry(p, tail[p])
<1>1. log' = Append(log, e) /\ e \in CustodyEntry /\ e.body = p /\ p \in Bodies
  BY NewEntryType, OneEntryEach DEF WriteEntry, TypeOK
<1>2. log \in Seq(CustodyEntry)
  BY DEF TypeOK
<1> HIDE DEF e
<1>3. /\ log' \in Seq(CustodyEntry) /\ Len(log') = Len(log) + 1
      /\ \A i \in 1..Len(log) : log'[i] = log[i]
      /\ log'[Len(log) + 1].body = p
  BY <1>1, <1>2, FileAppend
<1>4. /\ Entered(log) \in Seq(Bodies) /\ Len(Entered(log)) = Len(log) /\ Len(log) \in Nat
      /\ \A i \in 1..Len(log) : Entered(log)[i] = log[i].body
  BY <1>2, EnteredIsSeq
<1>5. /\ Entered(log') \in Seq(Bodies) /\ Len(Entered(log')) = Len(log')
      /\ \A i \in 1..Len(log') : Entered(log')[i] = log'[i].body
  BY <1>3, EnteredIsSeq
<1>6. /\ Append(Entered(log), p) \in Seq(Bodies)
      /\ Len(Append(Entered(log), p)) = Len(log) + 1
      /\ \A i \in 1..Len(log) : Append(Entered(log), p)[i] = Entered(log)[i]
      /\ Append(Entered(log), p)[Len(log) + 1] = p
  BY <1>1, <1>4, AppendProperties
<1>7. \A i \in 1..(Len(log) + 1) : Entered(log')[i] = Append(Entered(log), p)[i]
  BY <1>3, <1>4, <1>5, <1>6
<1>8. Entered(log') = Append(Entered(log), p)
  BY <1>3, <1>5, <1>6, <1>7, SeqEqual
<1> QED BY <1>8

\* A power loss leaves the beginning of the book.
LEMMA BookShrinks ==
  ASSUME TypeOK, NEW k \in 0..Len(log), PowerLoss(k)
  PROVE  Entered(log)' = SubSeq(Entered(log), 1, k)
<1>1. log \in Seq(CustodyEntry) /\ Len(log) \in Nat /\ k \in Int
  BY LenProperties DEF TypeOK
<1>2. /\ log' \in Seq(CustodyEntry) /\ Len(log') = k
      /\ \A i \in 1..k : log'[i] = log[i]
  BY <1>1, PrefixOfFile DEF PowerLoss
<1>3. /\ \A i \in 1..k : Entered(log)[i] = log[i].body
      /\ \A i \in 1..k : Entered(log)[i] \in Bodies
  BY <1>1, EnteredIsSeq
<1>4. /\ Entered(log') \in Seq(Bodies) /\ Len(Entered(log')) = k
      /\ \A i \in 1..k : Entered(log')[i] = log'[i].body
  BY <1>2, EnteredIsSeq
<1>5. /\ SubSeq(Entered(log), 1, k) \in Seq(Bodies)
      /\ Len(SubSeq(Entered(log), 1, k)) = k
      /\ \A i \in 1..k : SubSeq(Entered(log), 1, k)[i] = Entered(log)[i]
  BY <1>1, <1>3, SubSeqProperties
<1>6. Entered(log') = SubSeq(Entered(log), 1, k)
  BY <1>2, <1>3, <1>4, <1>5, SeqEqual
<1> QED BY <1>6

\* The state of a case whose files and creator stay.
LEMMA StateStays ==
  ASSUME UNCHANGED <<dir, caseJson>>, \A q \in Writers : Creating(q)' <=> Creating(q)
  PROVE  State' = State
BY DEF State, Creating, Missing

\* A case is half made exactly while an init makes it.
LEMMA StateHalf ==
  ASSUME OneCreator, NEW p \in Writers, Creating(p)
  PROVE  State = "half"
BY DEF State, Creating, OneCreator

\* Each step of a command is a step of the book, or is not seen in it.
LEMMA BookStep == CaseInv /\ [CaseNext]_caseVars => [Book!Next]_(Book!vars)
<1> SUFFICES ASSUME CaseInv, [CaseNext]_caseVars PROVE [Book!Next]_(Book!vars)
  OBVIOUS
<1> DEFINE Done == [Book!Next]_(Book!vars)
           D == torn \/ powerLost
           Rest == UNCHANGED <<dir, caseJson, findings, actions>>
<1>0. /\ CaseTypeOK /\ TypeOK /\ Commands /\ OneCreator /\ AnalysesBacked
      /\ LoggedLater /\ Recorders /\ pc \in [Writers -> Pc] /\ req \in [Writers -> Requests]
  BY DEF CaseInv, CaseTypeOK
<1>i. \A p \in Writers :
        /\ Creating(p) => Book!Makes(p)
        /\ pc[p] \in {"analyse", "report"} => req[p].cmd = "analyse"
        /\ pc[p] = "work" => Book!NeedsNoCase(p) /\ ~Book!Makes(p)
  BY <1>0, RequestFields DEF Commands, Creating, NeedsNoCase, Book!Makes, Book!NeedsNoCase
<1>c. \A p, q \in Writers : \A from, to :
        Goto(p, from, to) =>
          (Creating(q)' <=> IF q = p THEN to \in {"layout", "json"} ELSE Creating(q))
  BY <1>0 DEF Goto, Creating
<1>d. ASSUME NEW p \in Writers, NEW from, NEW to, Goto(p, from, to),
             from \in {"layout", "json"} <=> to \in {"layout", "json"},
             UNCHANGED <<dir, caseJson>>
      PROVE  State' = State
  <2>1. Creating(p) <=> from \in {"layout", "json"}
    BY <1>d DEF Goto, Creating
  <2>2. \A q \in Writers : Creating(q)' <=> Creating(q)
    BY <1>c, <1>d, <2>1
  <2> QED BY <1>d, <2>2, StateStays
\* Steps that nobody sees.
<1>e. ASSUME NEW p \in Writers, NEW from, NEW to, Goto(p, from, to), State' = State,
             Stage(from) = Stage(to), UNCHANGED <<findings, actions, Entered(log)>>,
             D' <=> D
      PROVE  Done
  <2>1. [q \in Writers |-> Stage(pc[q])]' = [q \in Writers |-> Stage(pc[q])] /\ req' = req
    BY <1>0, <1>e, StageStays DEF Goto
  <2>2. D' = D
    BY <1>e
  <2> QED BY <1>e, <2>1, <2>2 DEF Book!vars
\* Commands that end, other than an init that fails half way.
<1>f. ASSUME NEW p \in Writers, NEW from, NEW to, Goto(p, from, to),
             from \in {"analyse", "report", "work", "append", "appending", "record", "answer"},
             to \in {"done", "declined", "failed"}, Rest, UNCHANGED Entered(log), D => D'
      PROVE  Done
  <2>1. State' = State
    BY <1>d, <1>f
  <2>2. Book!Move(p, Stage(from), "over") /\ Stage(from) \in {"working", "ready"}
    BY <1>0, <1>f, StageMoves, Stages DEF Book!Move
  <2>3. D' \in {D, TRUE}
    BY <1>f
  <2>4. ~(Book!Makes(p) /\ [q \in Writers |-> Stage(pc[q])][p] = "working")
    <3>1. pc[p] = from /\ [q \in Writers |-> Stage(pc[q])][p] = Stage(from)
      BY <1>f DEF Goto
    <3>2. from \in {"append", "appending", "record", "answer"} => Stage(from) = "ready"
      BY Stages
    <3> QED BY <1>f, <1>i, <3>1, <3>2 DEF Book!Makes
  <2>5. Book!Stop(p)
    BY <1>f, <2>1, <2>2, <2>3, <2>4 DEF Book!Stop
  <2> QED BY <2>5 DEF Book!Next
\* What Raise does.
<1>g. ASSUME NEW p \in Writers, NEW from \in {"append", "appending", "record"},
             Raise(p, from), Rest, UNCHANGED Entered(log), D => D'
      PROVE  Done
  <2>1. CASE req[p].cmd = "show"
    <3>1. Goto(p, from, "answer")
      BY <1>g, <2>1 DEF Raise
    <3>2. Stage(from) = Stage("answer")
      BY <1>g, Stages
    <3>3. CASE D' <=> D
      BY <1>d, <1>e, <1>g, <3>1, <3>2, <3>3
    <3>4. CASE ~(D' <=> D)
      <4>1. D' = TRUE
        BY <1>g, <3>4
      <4>2. [q \in Writers |-> Stage(pc[q])]' = [q \in Writers |-> Stage(pc[q])] /\ req' = req
        BY <1>0, <3>1, <3>2, StageStays DEF Goto
      <4>3. State' = State
        BY <1>d, <1>g, <3>1
      <4>4. Book!Damage
        BY <1>g, <4>1, <4>2, <4>3 DEF Book!Damage
      <4> QED BY <4>4 DEF Book!Next
    <3> QED BY <3>3, <3>4
  <2>2. CASE req[p].cmd # "show"
    <3>1. Goto(p, from, "failed")
      BY <1>g, <2>2 DEF Raise
    <3> QED BY <1>f, <1>g, <3>1
  <2> QED BY <2>1, <2>2
<1> HIDE DEF Done
<1> USE DEF fileVars, dbVars, histVars, vars
<1>1. ASSUME NEW p \in Writers, MakeDir(p) PROVE Done
  <2>0. Book!Makes(p) /\ UNCHANGED <<caseJson, findings, actions, log, torn, powerLost>>
    BY <1>1 DEF MakeDir, Book!Makes
  <2>a. UNCHANGED Entered(log) /\ D' = D
    BY <2>0
  <2>1. CASE dir
    <3>1. Goto(p, "new", "refused") /\ dir' = dir
      BY <1>1, <2>1 DEF MakeDir
    <3>2. State # "none"
      BY <2>1 DEF State
    <3>3. State' = State
      BY <1>d, <2>0, <3>1
    <3>4. Book!Refuse(p)
      BY <1>0, <2>0, <2>a, <3>1, <3>2, <3>3, StageMoves, Stages DEF Book!Refuse, Book!Move
    <3> QED BY <3>4 DEF Book!Next, Done
  <2>2. CASE ~dir
    <3>1. Goto(p, "new", "layout") /\ dir' = TRUE
      BY <1>1, <2>2 DEF MakeDir
    <3>2. State = "none"
      BY <2>2 DEF State
    <3>3. State' = "half"
      <4>1. caseJson = "absent"
        BY <1>0, <2>2 DEF CaseTypeOK
      <4>2. Creating(p)'
        BY <1>c, <3>1
      <4> QED BY <2>0, <3>1, <4>1, <4>2 DEF State, Missing, Creating
    <3>4. Book!Make(p)
      BY <1>0, <2>0, <2>a, <3>1, <3>2, <3>3, StageMoves, Stages DEF Book!Make, Book!Move
    <3> QED BY <3>4 DEF Book!Next, Done
  <2> QED BY <2>1, <2>2
<1>2. ASSUME NEW p \in Writers, OpenCaseJson(p) PROVE Done
  <2>1. /\ Goto(p, "layout", "json") /\ caseJson' \in Missing
        /\ UNCHANGED <<dir, findings, actions, log, torn, powerLost>>
    BY <1>2 DEF OpenCaseJson, Missing
  <2>2. Creating(p) /\ Creating(p)'
    BY <1>c, <2>1 DEF Goto, Creating
  <2>3. dir /\ State = "half"
    BY <1>0, <2>2, StateHalf DEF OneCreator
  <2>4. State' = "half"
    BY <2>1, <2>2, <2>3 DEF State, Missing, Creating
  <2> QED BY <1>e, <2>1, <2>3, <2>4, Stages
<1>3. ASSUME NEW p \in Writers, WriteCaseJson(p) PROVE Done
  <2>1. /\ Goto(p, "json", "append") /\ caseJson' = p
        /\ UNCHANGED <<dir, findings, actions, log, torn, powerLost>>
    BY <1>3 DEF WriteCaseJson
  <2>2. Creating(p) /\ Book!Makes(p)
    BY <1>i, <2>1 DEF Goto, Creating
  <2>3. dir /\ State = "half"
    BY <1>0, <2>2, StateHalf DEF OneCreator
  <2>4. State' = "open"
    BY <2>1, <2>3, NamesAssumption DEF State, Missing
  <2>5. UNCHANGED Entered(log) /\ D' = D
    BY <2>1
  <2>6. Book!Open(p)
    BY <1>0, <2>1, <2>2, <2>3, <2>4, <2>5, StageMoves, Stages DEF Book!Open, Book!Move
  <2> QED BY <2>6 DEF Book!Next, Done
<1>4. ASSUME NEW p \in Writers, LoadCase(p) PROVE Done
  <2>1. /\ req[p].cmd \in {"show", "analyse"}
        /\ UNCHANGED <<dir, caseJson, findings, actions, log, torn, powerLost>>
        /\ Goto(p, "new",
             IF caseJson \in Missing THEN "refused"
             ELSE IF req[p].cmd = "show" THEN "append" ELSE "analyse")
    BY <1>4 DEF LoadCase
  <2>2. State = "open" <=> caseJson \notin Missing
    BY <1>0 DEF State, CaseTypeOK, Missing
  <2>3. State' = State
    BY <1>d, <2>1
  <2>4. UNCHANGED Entered(log) /\ D' = D /\ Book!Loads(p)
    BY <2>1 DEF Book!Loads
  <2>5. CASE caseJson \in Missing
    <3>1. Book!Refuse(p)
      BY <1>0, <2>1, <2>2, <2>3, <2>4, <2>5, StageMoves, Stages DEF Book!Refuse, Book!Move
    <3> QED BY <3>1 DEF Book!Next, Done
  <2>6. CASE caseJson \notin Missing
    <3>1. Book!LetIn(p)
      BY <1>0, <2>1, <2>2, <2>3, <2>4, <2>6, StageMoves, Stages DEF Book!LetIn, Book!Move
    <3> QED BY <3>1 DEF Book!Next, Done
  <2> QED BY <2>5, <2>6
<1>5. ASSUME NEW p \in Writers, InsertFinding(p) PROVE Done
  <2>1. /\ pc[p] = "analyse" /\ findings[p] < req[p].findings
        /\ findings' = [findings EXCEPT ![p] = @ + 1]
        /\ UNCHANGED <<req, pc, dir, caseJson, actions, log, torn, powerLost>>
    BY <1>5 DEF InsertFinding
  <2>2. State' = State /\ UNCHANGED Entered(log) /\ D' = D
    BY <2>1 DEF State, Missing
  <2>3. [q \in Writers |-> Stage(pc[q])]' = [q \in Writers |-> Stage(pc[q])]
    BY <2>1
  <2>4. Stage(pc[p]) = "working" /\ req[p].cmd = "analyse"
    BY <1>i, <2>1, Stages
  <2>5. Book!Find(p)
    BY <2>1, <2>2, <2>3, <2>4 DEF Book!Find
  <2> QED BY <2>5 DEF Book!Next, Done
<1>6. ASSUME NEW p \in Writers, OpenReport(p) PROVE Done
  <2>1. /\ Goto(p, "analyse", "report") /\ Rest
        /\ UNCHANGED <<findings, actions, log, torn, powerLost>>
    BY <1>6 DEF OpenReport
  <2>2. State' = State
    BY <1>d, <2>1
  <2> QED BY <1>e, <2>1, <2>2, Stages
<1>7. ASSUME NEW p \in Writers, WriteReport(p) PROVE Done
  <2>1. /\ Goto(p, "report", "append") /\ Rest
        /\ UNCHANGED <<findings, actions, log, torn, powerLost>>
    BY <1>7 DEF WriteReport
  <2>2. State' = State /\ UNCHANGED Entered(log) /\ D' = D
    BY <1>d, <2>1
  <2>3. req[p].cmd = "analyse" /\ p \in Analyses
    BY <1>i, <2>1 DEF Goto, Analyses
  <2>4. findings[p] = req[p].findings
    BY <1>0, <2>1, <2>3 DEF AnalysesBacked, Goto
  <2>5. Book!Finish(p)
    BY <1>0, <2>1, <2>2, <2>3, <2>4, StageMoves, Stages DEF Book!Finish, Book!Move
  <2> QED BY <2>5 DEF Book!Next, Done
<1>8. ASSUME NEW p \in Writers, ReadLog(p) PROVE Done
  <2>1. Rest /\ UNCHANGED <<findings, actions, log, torn, powerLost>>
    BY <1>8 DEF ReadLog, read_and_verify, ReadTail
  <2>2. CASE Goto(p, "append", "appending")
    BY <1>d, <1>e, <2>1, <2>2, Stages
  <2>3. CASE Raise(p, "append")
    BY <1>g, <2>1, <2>3
  <2> QED BY <1>8, <2>2, <2>3 DEF ReadLog
<1>9. ASSUME NEW p \in Writers, AppendEntry(p) PROVE Done
  <2>1. /\ Goto(p, "appending", IF req[p].cmd = "init" THEN "done" ELSE "record")
        /\ WriteEntry(p, p) /\ Rest /\ UNCHANGED <<torn, powerLost>>
    BY <1>9 DEF AppendEntry, WriteEntry
  <2>2. State' = State
    BY <1>d, <2>1
  <2>3. CASE torn
    <3>1. UNCHANGED Entered(log)
      BY <2>1, <2>3 DEF WriteEntry
    <3>2. CASE req[p].cmd = "init"
      BY <1>f, <2>1, <3>1, <3>2
    <3>3. CASE req[p].cmd # "init"
      BY <1>e, <2>1, <2>2, <3>1, <3>3, Stages
    <3> QED BY <3>2, <3>3
  <2>4. CASE ~torn
    <3>1. Entered(log)' = Append(Entered(log), p)
      BY <1>0, <2>1, <2>4, BookGrows
    <3>2. ~Logged(p)
      BY <1>0, <2>1 DEF LoggedLater, Goto, End
    <3>3. ~Book!InBook(p)
      BY <1>0, <3>2, BookIsLog
    <3>4. Book!Move(p, "ready", IF Book!Makes(p) THEN "over" ELSE "ready")
      BY <1>0, <2>1, StageMoves, Stages DEF Book!Move, Book!Makes
    <3>5. Book!Enter(p)
      BY <2>1, <2>2, <3>1, <3>3, <3>4 DEF Book!Enter
    <3> QED BY <3>5 DEF Book!Next, Done
  <2> QED BY <2>3, <2>4
<1>10. ASSUME NEW p \in Writers, RecordAction(p) PROVE Done
  <2>1. /\ Goto(p, "record", IF req[p].cmd = "show" THEN "answer" ELSE "done")
        /\ actions' = actions \cup {p}
        /\ UNCHANGED <<dir, caseJson, findings, log, torn, powerLost>>
    BY <1>10 DEF RecordAction
  <2>2. State' = State /\ UNCHANGED Entered(log) /\ D' = D
    BY <1>d, <2>1
  <2>3. Logged(p) \/ D
    BY <1>0, <2>1 DEF Recorders, Goto
  <2>4. Book!InBook(p) \/ D
    BY <1>0, <2>3, BookIsLog
  <2>5. Book!Move(p, "ready", IF req[p].cmd = "show" THEN "ready" ELSE "over")
    BY <1>0, <2>1, StageMoves, Stages DEF Book!Move
  <2>6. Book!Show(p)
    BY <2>1, <2>2, <2>4, <2>5 DEF Book!Show
  <2> QED BY <2>6 DEF Book!Next, Done
<1>11. ASSUME NEW p \in Writers, Answer(p) PROVE Done
  <2>1. /\ \E to \in {"done", "failed"} : Goto(p, "answer", to)
        /\ Rest /\ UNCHANGED <<log, torn, powerLost>>
    BY <1>11 DEF Answer
  <2> QED BY <1>f, <2>1
<1>12. ASSUME NEW p \in Writers, AppendFails(p) PROVE Done
  <2>1. /\ Raise(p, "appending") /\ Rest /\ UNCHANGED <<log, powerLost>>
        /\ torn => torn'
    BY <1>12 DEF AppendFails, AbandonAppend, TearLine
  <2> QED BY <1>g, <2>1
<1>13. ASSUME NEW p \in Writers, RecordFails(p) PROVE Done
  <2>1. Raise(p, "record") /\ Rest /\ UNCHANGED <<log, torn, powerLost>>
    BY <1>13 DEF RecordFails
  <2> QED BY <1>g, <2>1
<1>14. ASSUME NEW p \in Writers, Crash(p) PROVE Done
  <2>1. PICK from \in Pc \ ({"new"} \cup End) : Goto(p, from, "failed")
    BY <1>14 DEF Crash
  <2>2. Rest /\ UNCHANGED <<log, torn, powerLost>>
    BY <1>14 DEF Crash, AbandonAppend
  <2>3. CASE from \notin {"layout", "json"}
    BY <1>f, <2>1, <2>2, <2>3 DEF Pc, End
  <2>4. CASE from \in {"layout", "json"}
    <3>1. Creating(p) /\ Book!Makes(p) /\ pc[p] = from
      BY <1>i, <2>1, <2>4 DEF Goto, Creating
    <3>2. \A q \in Writers : ~Creating(q)'
      BY <1>0, <1>c, <2>1, <3>1 DEF OneCreator
    <3>3. State' = "bare"
      BY <1>0, <2>2, <3>1, <3>2 DEF OneCreator, State, Creating, Missing
    <3>4. Stage(from) = "working" /\ Stage("failed") = "over"
      BY <2>4, Stages
    <3>5. /\ Book!Move(p, "working", "over")
          /\ [q \in Writers |-> Stage(pc[q])][p] = "working"
      BY <1>0, <2>1, <3>4, StageMoves DEF Book!Move
    <3>6. UNCHANGED Entered(log) /\ D' = D
      BY <2>2
    <3>7. Book!Stop(p)
      BY <2>2, <3>1, <3>3, <3>5, <3>6 DEF Book!Stop
    <3> QED BY <3>7 DEF Book!Next, Done
  <2> QED BY <2>3, <2>4
<1>15. ASSUME NEW k \in 0..Len(log), LosePower(k) PROVE Done
  <2>1. /\ pc' = [p \in Writers |-> IF pc[p] \in {"new"} \cup End THEN pc[p] ELSE "failed"]
        /\ caseJson' \in {caseJson, IF caseJson = "absent" THEN "absent" ELSE "partial"}
        /\ powerLost' = TRUE /\ PowerLoss(k) /\ UNCHANGED <<req, dir, findings, actions>>
    BY <1>15 DEF LosePower
  <2>2. D' = TRUE
    BY <2>1
  <2>3. Entered(log)' = SubSeq(Entered(log), 1, k) /\ k \in 0..Len(Entered(log))
    BY <1>0, <2>1, BookShrinks, BookIsLog
  <2>4. \A p \in Writers : ~Creating(p)'
    BY <2>1 DEF Creating, End
  <2>5. State' \in (IF State = "none" THEN {"none"}
                    ELSE IF State = "open" THEN {"open", "bare"} ELSE {"bare"})
    <3>1. CASE ~dir
      BY <2>1, <3>1 DEF State
    <3>2. CASE dir /\ caseJson \in Missing
      <4>1. caseJson' \in Missing /\ dir'
        BY <2>1, <3>2 DEF Missing
      <4>2. State' = "bare" /\ State \in {"half", "bare"}
        BY <2>4, <3>2, <4>1 DEF State, Creating, Missing
      <4> QED BY <4>2
    <3>3. CASE dir /\ caseJson \notin Missing
      <4>1. State = "open"
        BY <3>3 DEF State
      <4>2. State' \in {"open", "bare"}
        BY <2>1, <2>4, <3>3 DEF State, Creating, Missing
      <4> QED BY <4>1, <4>2
    <3> QED BY <3>1, <3>2, <3>3
  <2>6. \A p \in Writers : Stage(pc[p])' = IF Stage(pc[p]) \in {"working", "ready"}
                                           THEN "over" ELSE Stage(pc[p])
    <3> SUFFICES ASSUME NEW p \in Writers
                 PROVE  Stage(pc[p])' = IF Stage(pc[p]) \in {"working", "ready"}
                                        THEN "over" ELSE Stage(pc[p])
      OBVIOUS
    <3>1. pc[p] \in Pc /\ pc'[p] = IF pc[p] \in {"new"} \cup End THEN pc[p] ELSE "failed"
      BY <1>0, <2>1
    <3> QED BY <3>1, Stages DEF Pc, End
  <2>7. [p \in Writers |-> Stage(pc[p])]' =
          [p \in Writers |-> IF [q \in Writers |-> Stage(pc[q])][p] \in {"working", "ready"}
                             THEN "over" ELSE [q \in Writers |-> Stage(pc[q])][p]]
    BY <2>6
  <2>8. Book!LosePower(k)
    BY <2>1, <2>2, <2>3, <2>5, <2>7 DEF Book!LosePower
  <2> QED BY <2>3, <2>8 DEF Book!Next, Done
<1>16. ASSUME UNCHANGED caseVars PROVE Done
  <2>1. UNCHANGED <<req, pc, dir, caseJson, findings, actions, log, torn, powerLost>>
    BY <1>16 DEF caseVars
  <2>2. State' = State /\ UNCHANGED Entered(log) /\ D' = D
    BY <2>1 DEF State, Missing
  <2>3. [q \in Writers |-> Stage(pc[q])]' = [q \in Writers |-> Stage(pc[q])]
    BY <2>1
  <2> QED BY <2>1, <2>2, <2>3 DEF Book!vars, Done
<1>18. ASSUME NEW p \in Writers, EnsureLayout(p) PROVE Done
  <2>1. /\ Goto(p, "new", "work") /\ dir' = TRUE /\ Book!NeedsNoCase(p)
        /\ UNCHANGED <<caseJson, findings, actions, log, torn, powerLost>>
    BY <1>18 DEF EnsureLayout, NeedsNoCase, Book!NeedsNoCase
  <2>2. UNCHANGED Entered(log) /\ D' = D
    BY <2>1
  <2>3. \A q \in Writers : Creating(q)' <=> Creating(q)
    <3>1. ~Creating(p)
      BY <2>1 DEF Goto, Creating
    <3> QED BY <1>c, <2>1, <3>1
  <2>4. State' = IF State = "none" THEN "bare" ELSE State
    <3>1. CASE dir
      <4>1. State' = State
        BY <2>1, <2>3, <3>1, StateStays
      <4>2. State # "none"
        BY <3>1 DEF State
      <4> QED BY <4>1, <4>2
    <3>2. CASE ~dir
      <4>1. caseJson = "absent" /\ \A q \in Writers : ~Creating(q)
        BY <1>0, <3>2 DEF CaseTypeOK, OneCreator
      <4>2. \A q \in Writers : ~Creating(q)'
        BY <2>3, <4>1
      <4>3. State = "none" /\ State' = "bare"
        BY <2>1, <3>2, <4>1, <4>2 DEF State, Creating, Missing
      <4> QED BY <4>3
    <3> QED BY <3>1, <3>2
  <2>5. Book!ComeIn(p)
    BY <1>0, <2>1, <2>2, <2>4, StageMoves, Stages DEF Book!ComeIn, Book!Move
  <2> QED BY <2>5 DEF Book!Next, Done
<1>19. ASSUME NEW p \in Writers, EndWork(p) PROVE Done
  <2>1. Goto(p, "work", "append") /\ Rest /\ UNCHANGED <<log, torn, powerLost>>
    BY <1>19 DEF EndWork
  <2>2. State' = State /\ UNCHANGED Entered(log) /\ D' = D
    BY <1>d, <2>1
  <2>3. Book!NeedsNoCase(p)
    BY <1>i, <2>1 DEF Goto
  <2>4. Book!Finish(p)
    BY <1>0, <2>1, <2>2, <2>3, StageMoves, Stages DEF Book!Finish, Book!Move
  <2> QED BY <2>4 DEF Book!Next, Done
<1>20. ASSUME NEW p \in Writers, Decline(p) PROVE Done
  <2>1. Goto(p, "work", "declined") /\ Rest /\ UNCHANGED <<log, torn, powerLost>>
    BY <1>20 DEF Decline
  <2> QED BY <1>f, <2>1
<1>17. Done
  BY <1>18, <1>19, <1>20, <1>1, <1>2, <1>3, <1>4, <1>5, <1>6, <1>7, <1>8, <1>9, <1>10, <1>11, <1>12, <1>13,
     <1>14, <1>15, <1>16 DEF CaseNext, ProcNext
<1> QED BY <1>17 DEF Done

\* A dfirlab case implements the book.  Whatever commands race, die or lose power: at
\* most one init makes the case, and none does after an import or a verify has made
\* the directory; no show or analysis is let in before the case is made; a command is
\* in the log once, and only with all its findings; and it is in the actions only if
\* it is in the log, until that is damaged.
THEOREM CaseRefinesBook == CaseSpec => ImplementsBook
<1>1. CaseInit => Book!Init
  <2> SUFFICES ASSUME CaseInit PROVE Book!Init
    OBVIOUS
  <2>1. \A p \in Writers : Stage(pc[p]) = "new"
    BY Stages DEF CaseInit
  <2>2. State = "none"
    BY DEF CaseInit, State
  <2>3. Entered(log) = <<>>
    <3>1. log \in Seq(CustodyEntry) /\ log = <<>>
      BY TypeInit DEF CaseInit, Init, TypeOK
    <3>2. Entered(log) \in Seq(Bodies) /\ Len(Entered(log)) = 0
      BY <3>1, EnteredIsSeq, EmptySeq
    <3> QED BY <3>2, EmptySeq
  <2>4. (torn \/ powerLost) = FALSE
    BY DEF CaseInit, Init
  <2> QED BY <2>1, <2>2, <2>3, <2>4 DEF CaseInit, Book!Init
<1> QED BY <1>1, CaseInvariance, BookStep, PTL DEF CaseSpec, ImplementsBook, Book!Spec
=============================================================================
