------------------------------- MODULE LabCase -------------------------------
(***************************************************************************)
(* One dfirlab case from `dfir init` on: processes that create it          *)
(* (dfirlab/case.py), analyse its evidence (inventory.py, timeline.py,     *)
(* triage.py, malware_helpers.py) and show it (dfirlab/cli.py), and what   *)
(* each of them leaves in case.json, the reports, the SQLite database and  *)
(* the custody log (LabCustody).  Imports and verifies (evidence.py) share *)
(* the directory, the log and the actions, and do not ask for a case: what *)
(* they do to the evidence is in LabEvidence.                              *)
(*                                                                         *)
(* An analysis reads items, commits findings one by one, writes a report,  *)
(* appends to the log and records an action.  Nothing is undone when a     *)
(* step raises.  Only SQLite syncs what it writes: a power loss can take   *)
(* files and the end of the log with it.  What the items are and what the  *)
(* analysis makes of them is left out: it knows how many findings it has.  *)
(***************************************************************************)
EXTENDS LabCustody

CONSTANTS
  Requests,        \* the commands users may give
  MaxFaults        \* bound on crashes, I/O errors and power losses

\* A process gives one command and appends at most one entry, its own.
ASSUME OneEntryEach == Bodies = Writers
ASSUME MaxFaultsAssumption == MaxFaults \in Nat

\* What caseJson holds for a missing file is not a process.
ASSUME NamesAssumption == Writers \cap {"absent", "partial"} = {}

VARIABLES
  req,             \* the command of each process
  pc,              \* where it is
  dir,             \* is there a directory of the case's name?
  caseJson,        \* case.json: the init that wrote it, or how it is missing
  findings,        \* committed rows of findings, by process
  report,          \* the report of each process
  actions,         \* processes with a committed row of actions
  told,            \* "verified" in the answer of a show
  early,           \* history: commands let in before create_case had ended
  powerLost,       \* history: there was a power loss
  faults           \* crashes, I/O errors and power losses so far

fileVars == <<dir, caseJson, report>>
dbVars == <<findings, actions>>
histVars == <<early, powerLost>>
caseVars == <<req, pc, fileVars, dbVars, told, histVars, faults, vars>>

\* The commands.  Of the analyses triage and entropy have findings, inventory,
\* timeline and strings have none; ingest and import-image are imports, and a
\* verify of several labels is one for each, with an entry of its own.
Request ==
  [cmd : {"init", "show", "import", "verify"}] \cup [cmd : {"analyse"}, findings : Nat]

ASSUME RequestsAssumption == Requests \subseteq Request

End == {"done", "refused", "declined", "failed"}
Pc == {"new", "layout", "json", "analyse", "report", "work", "append", "appending",
       "record", "answer"} \cup End

Analyses == {p \in Writers : req[p].cmd = "analyse"}
NeedsNoCase(p) == req[p].cmd \in {"import", "verify"}
Missing == {"absent", "partial"}

CaseTypeOK ==
  /\ TypeOK
  /\ req \in [Writers -> Requests]
  /\ pc \in [Writers -> Pc]
  /\ dir \in BOOLEAN
  /\ caseJson \in Missing \cup {p \in Writers : req[p].cmd = "init"}
  /\ caseJson # "absent" => dir
  /\ findings \in [Writers -> Nat]
  /\ \A p \in Writers :
       findings[p] <= (IF p \in Analyses THEN req[p].findings ELSE 0)
  /\ report \in [Writers -> {"none", "partial", "written", "lost"}]
  /\ actions \subseteq Writers
  /\ told \in [Writers -> {"nothing", "verified", "broken"}]
  /\ early \subseteq Writers
  /\ powerLost \in BOOLEAN
  /\ faults \in 0..MaxFaults
  /\ \A p \in Writers : p \in appending <=> pc[p] = "appending"

CaseInit ==
  /\ Init
  /\ req \in [Writers -> Requests]
  /\ pc = [p \in Writers |-> "new"]
  /\ dir = FALSE
  /\ caseJson = "absent"
  /\ findings = [p \in Writers |-> 0]
  /\ report = [p \in Writers |-> "none"]
  /\ actions = {}
  /\ told = [p \in Writers |-> "nothing"]
  /\ early = {}
  /\ powerLost = FALSE
  /\ faults = 0

Fault ==
  /\ faults < MaxFaults
  /\ faults' = faults + 1

Goto(p, from, to) ==
  /\ pc[p] = from
  /\ pc' = [pc EXCEPT ![p] = to]
  /\ UNCHANGED req

Logged(p) == \E i \in 1..Len(log) : log[i].body = p

-----------------------------------------------------------------------------
(* create_case.                                                             *)

\* Mutant: mkdir with exist_ok=True.
MakeDir_ExistOk(p) ==
  /\ req[p].cmd = "init"
  /\ Goto(p, "new", "layout")
  /\ dir' = TRUE
  /\ UNCHANGED <<caseJson, report, dbVars, told, histVars, faults, vars>>

\* Lines 76-79: mkdir with exist_ok=False, then the layout.
MakeDir(p) ==
  /\ req[p].cmd = "init"
  /\ Goto(p, "new", IF dir THEN "refused" ELSE "layout")
  /\ dir' = TRUE
  /\ UNCHANGED <<caseJson, report, dbVars, told, histVars, faults, vars>>

\* Line 92: write_text opens case.json with mode "w" ...
OpenCaseJson(p) ==
  /\ Goto(p, "layout", "json")
  /\ caseJson' = "partial"
  /\ UNCHANGED <<dir, report, dbVars, told, histVars, faults, vars>>

\* Mutant: create_case leaves the first entry to the first command.
WriteCaseJson_NoEntry(p) ==
  /\ Goto(p, "json", "done")
  /\ caseJson' = p
  /\ UNCHANGED <<dir, report, dbVars, told, histVars, faults, vars>>

\* ... and fills it; then init_db.
WriteCaseJson(p) ==
  /\ Goto(p, "json", "append")
  /\ caseJson' = p
  /\ UNCHANGED <<dir, report, dbVars, told, histVars, faults, vars>>

-----------------------------------------------------------------------------
(* The other commands.                                                      *)

\* create_case has returned, its entry written.
Complete == \E q \in Writers : req[q].cmd = "init" /\ pc[q] = "done"

Admit(p) == early' = IF Complete THEN early ELSE early \cup {p}

\* load_case, ensure_case_layout and init_db, with which shows and analyses begin.
LoadCase(p) ==
  /\ req[p].cmd \in {"show", "analyse"}
  /\ Goto(p, "new",
       IF caseJson \in Missing THEN "refused"
       ELSE IF req[p].cmd = "show" THEN "append" ELSE "analyse")
  /\ IF caseJson \in Missing THEN UNCHANGED early ELSE Admit(p)
  /\ UNCHANGED <<fileVars, dbVars, told, powerLost, faults, vars>>

\* Imports and verifies begin with ensure_case_layout, which makes a directory that
\* is not there (parents=True, exist_ok=True), and init_db: no case.json is read.
EnsureLayout(p) ==
  /\ NeedsNoCase(p)
  /\ Goto(p, "new", "work")
  /\ dir' = TRUE
  /\ Admit(p)
  /\ UNCHANGED <<caseJson, report, dbVars, told, powerLost, faults, vars>>

\* An import has committed a row of evidence, or may have before it died.
Stored ==
  \E q \in Writers :
    req[q].cmd = "import" /\ pc[q] \notin {"new", "work", "declined"}

\* An import has committed its row, a verify its verdict on one.
EndWork(p) ==
  /\ req[p].cmd = "verify" => Stored
  /\ Goto(p, "work", "append")
  /\ UNCHANGED <<fileVars, dbVars, told, histVars, faults, vars>>

\* An import raises over a missing source or a label that is taken; a verify finds
\* no evidence of its label, or a manifest that does not parse.  There is no entry.
Decline(p) ==
  /\ Goto(p, "work", "declined")
  /\ UNCHANGED <<fileVars, dbVars, told, histVars, faults, vars>>

\* Mutant: the findings of an earlier attempt are inserted again.
InsertFinding_Again(p) ==
  /\ pc[p] = "analyse"
  /\ req[p].findings > 0
  /\ findings' = [findings EXCEPT ![p] = @ + 1]
  /\ UNCHANGED <<req, pc, fileVars, actions, told, histVars, faults, vars>>

\* insert_finding commits each finding by itself.
InsertFinding(p) ==
  /\ pc[p] = "analyse"
  /\ findings[p] < req[p].findings
  /\ findings' = [findings EXCEPT ![p] = @ + 1]
  /\ UNCHANGED <<req, pc, fileVars, actions, told, histVars, faults, vars>>

\* Mutant: the report is written without waiting for the findings.
OpenReport_Early(p) ==
  /\ Goto(p, "analyse", "report")
  /\ report' = [report EXCEPT ![p] = "partial"]
  /\ UNCHANGED <<dir, caseJson, dbVars, told, histVars, faults, vars>>

\* write_text: the report has a name of its own, made from the time.
OpenReport(p) ==
  /\ Goto(p, "analyse", "report")
  /\ findings[p] = req[p].findings
  /\ report' = [report EXCEPT ![p] = "partial"]
  /\ UNCHANGED <<dir, caseJson, dbVars, told, histVars, faults, vars>>

WriteReport(p) ==
  /\ Goto(p, "report", "append")
  /\ report' = [report EXCEPT ![p] = "written"]
  /\ UNCHANGED <<dir, caseJson, dbVars, told, histVars, faults, vars>>

\* A show goes on after what its append or its record_action raised.
Raise(p, from) == Goto(p, from, IF req[p].cmd = "show" THEN "answer" ELSE "failed")

LogRefuses == torn \/ ~verify_chain(log)

ReadLog(p) ==
  /\ \/ Goto(p, "append", "appending") /\ read_and_verify(p)
     \/ LogRefuses /\ Raise(p, "append") /\ UNCHANGED vars
  /\ UNCHANGED <<fileVars, dbVars, told, histVars, faults>>

\* create_case ends with its entry.
AppendEntry(p) ==
  /\ Goto(p, "appending", IF req[p].cmd = "init" THEN "done" ELSE "record")
  /\ WriteEntry(p, p)
  /\ UNCHANGED <<fileVars, dbVars, told, histVars, faults>>

\* Mutant: an analysis swallows what append_entry raises, as a show does.
AppendFails_Swallowed(p) ==
  /\ Fault
  /\ Goto(p, "appending", IF req[p].cmd = "init" THEN "failed" ELSE "record")
  /\ AbandonAppend(p) \/ TearLine(p)
  /\ UNCHANGED <<fileVars, dbVars, told, histVars>>

AppendFails(p) ==
  /\ Fault
  /\ Raise(p, "appending")
  /\ AbandonAppend(p) \/ TearLine(p)
  /\ UNCHANGED <<fileVars, dbVars, told, histVars>>

RecordAction(p) ==
  /\ Goto(p, "record", IF req[p].cmd = "show" THEN "answer" ELSE "done")
  /\ actions' = actions \cup {p}
  /\ UNCHANGED <<fileVars, findings, told, histVars, faults, vars>>

RecordFails(p) ==
  /\ Fault
  /\ Raise(p, "record")
  /\ UNCHANGED <<fileVars, dbVars, told, histVars, vars>>

\* _cmd_show, lines 99-116: read_entries raises on a line that does not parse.
Answer(p) ==
  /\ Goto(p, "answer", IF torn THEN "failed" ELSE "done")
  /\ told' = [told EXCEPT ![p] =
                IF torn THEN @ ELSE IF verify_chain(log) THEN "verified" ELSE "broken"]
  /\ UNCHANGED <<fileVars, dbVars, histVars, faults, vars>>

-----------------------------------------------------------------------------
\* A step raises, or the process is killed.
Crash(p) ==
  /\ Fault
  /\ \E from \in Pc \ ({"new"} \cup End) : Goto(p, from, "failed")
  /\ IF p \in appending THEN AbandonAppend(p) ELSE UNCHANGED vars
  /\ UNCHANGED <<fileVars, dbVars, told, histVars>>

\* Every process dies.  What SQLite committed stays; other files may be lost.
LosePower(k) ==
  /\ Fault
  /\ PowerLoss(k)
  /\ pc' = [p \in Writers |-> IF pc[p] \in {"new"} \cup End THEN pc[p] ELSE "failed"]
  /\ caseJson' \in {caseJson, IF caseJson = "absent" THEN "absent" ELSE "partial"}
  /\ \E gone \in SUBSET {p \in Writers : report[p] # "none"} :
       report' = [p \in Writers |-> IF p \in gone THEN "lost" ELSE report[p]]
  /\ powerLost' = TRUE
  /\ UNCHANGED <<req, dir, dbVars, told, early>>

ProcNext(p) ==
  \/ MakeDir(p) \/ OpenCaseJson(p) \/ WriteCaseJson(p)
  \/ LoadCase(p) \/ InsertFinding(p) \/ OpenReport(p) \/ WriteReport(p)
  \/ EnsureLayout(p) \/ EndWork(p) \/ Decline(p)
  \/ ReadLog(p) \/ AppendEntry(p) \/ RecordAction(p) \/ Answer(p)

CaseNext ==
  \/ \E p \in Writers : ProcNext(p) \/ AppendFails(p) \/ RecordFails(p) \/ Crash(p)
  \/ \E k \in 0..Len(log) : LosePower(k)

CaseSpec == CaseInit /\ [][CaseNext]_caseVars

-----------------------------------------------------------------------------
\* An analysis in the log has left what its entry points to: all its findings,
\* and its report unless a power loss took it.
LoggedIsBacked ==
  \A p \in Analyses :
    Logged(p) => findings[p] = req[p].findings /\ report[p] \in {"written", "lost"}

\* Findings without an entry in the log come from a crash or an I/O error, or from
\* appends that overlapped and forked the log.
UnloggedNeedsCause ==
  faults = 0 /\ verify_chain(log) =>
    \A p \in Writers : findings[p] > 0 /\ pc[p] \in End => Logged(p)

\* The actions table shows nothing that the log does not, until a line is torn or
\* a power loss cuts the log, which the database survives.
RecordedIsLogged == ~torn /\ ~powerLost => \A p \in actions : Logged(p)

\* A show that found the log in order is itself in it (cli.py:92, "still recorded
\* in custody log for defensibility"), unless its append failed.
ShownIsLogged ==
  faults = 0 => \A p \in Writers : told[p] = "verified" => Logged(p)

\* The log begins with case_init, or with a command that was let in before
\* create_case had returned: one that found case.json and no entry, or an import or
\* a verify, which ask for neither.  The exception is a power loss, which takes it.
InitIsFirst ==
  ~powerLost /\ log # <<>> =>
    req[log[1].body].cmd = "init" \/ log[1].body \in early

\* A case is created once: no init ever writes over another's case.json, however
\* they race.
CreatedOnce ==
  [][caseJson \notin Missing => caseJson' \in {caseJson, "partial"}]_caseVars

HalfCreated ==
  /\ dir /\ caseJson \in Missing
  /\ \A p \in Writers : pc[p] \notin {"layout", "json"}

\* What a failed init leaves stays as it is, and so does a directory that an import
\* made without one: mkdir refuses every later init, and no other command writes a
\* case.json.
HalfCreatedStays == [][HalfCreated => HalfCreated']_caseVars

-----------------------------------------------------------------------------
\* How far a command is, for those who do not see its steps.
Stage(position) ==
  CASE position \in {"new", "refused"} -> position
    [] position \in {"layout", "json", "analyse", "report", "work"} -> "working"
    [] position \in {"done", "declined", "failed"} -> "over"
    [] OTHER -> "ready"

\* A directory without a readable case.json is half a case while an init is at work
\* in it, and no case otherwise.
State ==
  IF ~dir THEN "none"
  ELSE IF caseJson \notin Missing THEN "open"
  ELSE IF \E p \in Writers : pc[p] \in {"layout", "json"} THEN "half" ELSE "bare"

\* The log, for those who read no hashes.
Entered(entries) == [i \in 1..Len(entries) |-> entries[i].body]

Book ==
  INSTANCE CaseBook
    WITH Users <- Writers, asked <- req, stage <- [p \in Writers |-> Stage(pc[p])],
         state <- State, found <- findings, book <- Entered(log),
         shown <- actions, damaged <- torn \/ powerLost

\* The files and tables of a case implement the book: at most one init makes the
\* case, in a directory nobody else has made; a failed init, or an import before it,
\* leaves no case for good; shows and analyses are let in to a case only; and a
\* command that died is in the log and the actions only as far as it was complete.
ImplementsBook == Book!Spec
=============================================================================
