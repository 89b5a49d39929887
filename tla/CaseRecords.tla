----------------------------- MODULE CaseRecords -----------------------------
(***************************************************************************)
(* The records of one EviForge case: POST /api/cases (api/routes/cases.py) *)
(* that makes it, POST /api/cases/{case_id}/iocs (api/routes/iocs.py) and  *)
(* the Indexer (core/indexer.py), which relates indicators to the entities *)
(* found in evidence, over the database and the case's custody log         *)
(* (CustodyFile).                                                          *)
(*                                                                         *)
(* The case is in the database, where everybody finds it, before it has    *)
(* directories and a log.  A scan SELECTs indicators, entities and matches *)
(* one by one and commits what it adds at its end; a statement sees what   *)
(* is committed when it runs, as on Postgres (on SQLite the write lock     *)
(* only removes behaviours).  An IOCMatch and its Finding are added        *)
(* together and are one record here; a value stands for a type and a       *)
(* value.  process_text_content is the Indexer's interface for modules:    *)
(* nothing under src/ calls it, and nothing else adds entities.            *)
(***************************************************************************)
EXTENDS Naturals, Sequences, FiniteSets

CONSTANTS
  Reqs,            \* requests, each with a handler or caller of its own
  Values,          \* what an indicator or an entity can be
  Requests,        \* what they may ask for
  MaxFaults,       \* bound on crashes and errors in a behaviour
  MaxEntries       \* bound on the custody log

VARIABLES
  req,             \* the request
  pc,              \* where its handler is
  caseRow,         \* is the case committed?
  dirs,            \* does it have its directories?
  iocs,            \* committed rows of iocs, named by their requests
  entities,        \* committed rows of entities
  matches,         \* committed rows of matches, with their findings
  audited,         \* requests with a committed audit row
  toScan,          \* the indicators that a scan has still to look at
  toCheck,         \* pairs a scan has still to check, or values an index run has
  added,           \* what a session has added and not committed
  owed,            \* history: the pairs that were committed when a scan began
  early,           \* history: another request used the case before it was made
  scansOverlapped, \* history: two scans have been under way at once
  runsOverlapped,  \* history: two index runs have been under way at once
  faults,          \* crashes and errors so far
  log, torn, appending, tail, overlapped       \* see CustodyFile

custodyVars == <<log, torn, appending, tail, overlapped>>
caseVars == <<caseRow, dirs>>
tableVars == <<iocs, entities, matches>>
sessionVars == <<toScan, toCheck, added>>
histVars == <<owed, early, scansOverlapped, runsOverlapped>>
vars == <<req, pc, caseVars, tableVars, audited, sessionVars, histVars, faults,
          custodyVars>>

\* "log" stands for the handlers of the case that append to its log: ingests, jobs.
Request ==
  [cmd : {"create", "log"}] \cup [cmd : {"ioc"}, value : Values]
    \cup [cmd : {"index"}, values : SUBSET Values]

ASSUME RequestsAssumption == Requests \subseteq Request
ASSUME BoundsAssumption == MaxFaults \in Nat /\ MaxEntries \in Nat \ {0}

\* An entity is named by the run that added it, and by its value.
Entity == [by : Reqs, value : Values]
Pair == [ioc : Reqs, entity : Entity]

Custody == INSTANCE CustodyFile WITH Writers <- Reqs, Bodies <- Reqs

End == {"done", "refused", "failed"}
Pc == {"new", "dirs", "append", "appending", "audit", "ioc", "select", "scan", "check",
       "index"} \cup End

TypeOK ==
  /\ req \in [Reqs -> Requests]
  /\ pc \in [Reqs -> Pc]
  /\ caseRow \in BOOLEAN
  /\ dirs \in BOOLEAN
  /\ dirs => caseRow
  /\ iocs \subseteq {r \in Reqs : req[r].cmd = "ioc"}
  /\ entities \subseteq Entity
  /\ matches \subseteq [pair : Pair, by : Reqs]
  /\ \A m \in matches :
       /\ m.pair.ioc \in iocs /\ m.pair.entity \in entities
       /\ req[m.pair.ioc].value = m.pair.entity.value
  /\ audited \subseteq Reqs
  /\ toScan \in [Reqs -> SUBSET iocs]
  /\ \A r \in Reqs : toCheck[r] \subseteq (IF req[r].cmd = "index" THEN Values ELSE Pair)
  /\ \A r \in Reqs : added[r] \subseteq (IF req[r].cmd = "index" THEN Values ELSE Pair)
  /\ owed \in [Reqs -> SUBSET Pair]
  /\ early \in BOOLEAN
  /\ scansOverlapped \in BOOLEAN
  /\ runsOverlapped \in BOOLEAN
  /\ faults \in 0..MaxFaults
  /\ Custody!TypeOK
  /\ \A r \in Reqs : r \in appending <=> pc[r] = "appending"

\* One of the requests makes the case.
Init ==
  /\ req \in {f \in [Reqs -> Requests] : \E r \in Reqs :
                {r} = {q \in Reqs : f[q].cmd = "create"}}
  /\ pc = [r \in Reqs |-> "new"]
  /\ caseRow = FALSE
  /\ dirs = FALSE
  /\ iocs = {}
  /\ entities = {}
  /\ matches = {}
  /\ audited = {}
  /\ toScan = [r \in Reqs |-> {}]
  /\ toCheck = [r \in Reqs |-> {}]
  /\ added = [r \in Reqs |-> {}]
  /\ owed = [r \in Reqs |-> {}]
  /\ early = FALSE
  /\ scansOverlapped = FALSE
  /\ runsOverlapped = FALSE
  /\ faults = 0
  /\ Custody!Init

Fault ==
  /\ faults < MaxFaults
  /\ faults' = faults + 1

Goto(r, from, to) ==
  /\ pc[r] = from
  /\ pc' = [pc EXCEPT ![r] = to]
  /\ UNCHANGED req

Others(r, pcs) == {q \in Reqs \ {r} : pc[q] \in pcs}

-----------------------------------------------------------------------------
(* create_case.                                                             *)

\* Lines 35-42.
CommitCase(r) ==
  /\ req[r].cmd = "create"
  /\ Goto(r, "new", "dirs")
  /\ caseRow' = TRUE
  /\ UNCHANGED <<dirs, tableVars, audited, sessionVars, histVars, faults, custodyVars>>

\* Mutant: the directories are left to the first who needs them.
MakeDirs_Skipped(r) ==
  /\ Goto(r, "dirs", "append")
  /\ UNCHANGED <<caseVars, tableVars, audited, sessionVars, histVars, faults, custodyVars>>

\* Lines 44-47.
MakeDirs(r) ==
  /\ Goto(r, "dirs", "append")
  /\ dirs' = TRUE
  /\ UNCHANGED <<caseRow, tableVars, audited, sessionVars, histVars, faults, custodyVars>>

\* Another handler of the case, up to its append.
UseCase(r) ==
  /\ req[r].cmd = "log"
  /\ Goto(r, "new", IF caseRow THEN "append" ELSE "refused")
  /\ early' = (early \/ (caseRow /\ \E q \in Reqs : req[q].cmd = "create" /\ pc[q] # "done"))
  /\ UNCHANGED <<caseVars, tableVars, audited, sessionVars, owed, scansOverlapped,
                 runsOverlapped, faults, custodyVars>>

\* append_entry raises on a file that does not parse; create_case does not catch it.
ReadTail(r) ==
  /\ Goto(r, "append", IF torn THEN "failed" ELSE "appending")
  /\ IF torn THEN UNCHANGED custodyVars ELSE Custody!ReadTail(r)
  /\ UNCHANGED <<caseVars, tableVars, audited, sessionVars, histVars, faults>>

WriteEntry(r) ==
  /\ Goto(r, "appending", IF req[r].cmd = "create" THEN "audit" ELSE "done")
  /\ Custody!WriteEntry(r, r)
  /\ UNCHANGED <<caseVars, tableVars, audited, sessionVars, histVars, faults>>

\* Mutant: create_case swallows what append_entry raises, as create_case_job does.
AppendFails_Swallowed(r) ==
  /\ Fault
  /\ Goto(r, "appending", IF req[r].cmd = "create" THEN "audit" ELSE "failed")
  /\ Custody!AbandonAppend(r) \/ Custody!TearLine(r)
  /\ UNCHANGED <<caseVars, tableVars, audited, sessionVars, histVars>>

AppendFails(r) ==
  /\ Fault
  /\ Goto(r, "appending", "failed")
  /\ Custody!AbandonAppend(r) \/ Custody!TearLine(r)
  /\ UNCHANGED <<caseVars, tableVars, audited, sessionVars, histVars>>

\* The audit row in a session of its own, then the answer.
Audit(r) ==
  /\ Goto(r, "audit", "done")
  /\ audited' = audited \cup {r}
  /\ UNCHANGED <<caseVars, tableVars, sessionVars, histVars, faults, custodyVars>>

\* "except Exception: pass".
AuditFails(r) ==
  /\ Fault
  /\ Goto(r, "audit", "done")
  /\ UNCHANGED <<caseVars, tableVars, audited, sessionVars, histVars, custodyVars>>

-----------------------------------------------------------------------------
(* add_ioc and Indexer.match_iocs.                                          *)

\* Lines 34-36.
CheckCase(r) ==
  /\ req[r].cmd = "ioc"
  /\ Goto(r, "new", IF caseRow THEN "ioc" ELSE "refused")
  /\ UNCHANGED <<caseVars, tableVars, audited, sessionVars, histVars, faults, custodyVars>>

\* Lines 38-48: the indicator stays, whatever becomes of the scan.
CommitIoc(r) ==
  /\ Goto(r, "ioc", "select")
  /\ iocs' = iocs \cup {r}
  /\ UNCHANGED <<caseVars, entities, matches, audited, sessionVars, histVars, faults,
                 custodyVars>>

\* Pairs of an indicator and an entity of the same type and value.
Matching(I, E) ==
  {p \in [ioc : I, entity : E] : req[p.ioc].value = p.entity.value}

Scanning == {"scan", "check"}

BeginScan(r) ==
  /\ owed' = [owed EXCEPT ![r] = Matching(iocs, entities)]
  /\ scansOverlapped' = (scansOverlapped \/ Others(r, Scanning) # {})
  /\ Goto(r, "select", "scan")
  /\ UNCHANGED <<caseVars, tableVars, audited, toCheck, added, early, runsOverlapped,
                 faults, custodyVars>>

\* Mutant: only the new indicator is looked for.
SelectIocs_New(r) ==
  /\ BeginScan(r)
  /\ toScan' = [toScan EXCEPT ![r] = {r}]

\* match_iocs, line 105: all the indicators of the case.
SelectIocs(r) ==
  /\ BeginScan(r)
  /\ toScan' = [toScan EXCEPT ![r] = iocs]

\* Line 112: the entities of one indicator.
SelectEntities(r) ==
  /\ Goto(r, "scan", "check")
  /\ \E i \in toScan[r] :
       /\ toScan' = [toScan EXCEPT ![r] = @ \ {i}]
       /\ toCheck' = [toCheck EXCEPT ![r] = Matching({i}, entities)]
  /\ UNCHANGED <<caseVars, tableVars, audited, added, histVars, faults, custodyVars>>

Matched(p) == \E m \in matches : m.pair = p

\* Mutant: a match is added whether or not there is one.
CheckPair_Blind(r) ==
  /\ pc[r] = "check"
  /\ \E p \in toCheck[r] :
       /\ toCheck' = [toCheck EXCEPT ![r] = @ \ {p}]
       /\ added' = [added EXCEPT ![r] = @ \cup {p}]
  /\ UNCHANGED <<req, pc, caseVars, tableVars, audited, toScan, histVars, faults,
                 custodyVars>>

\* Lines 116-138: look for a match, then add it.
CheckPair(r) ==
  /\ pc[r] = "check"
  /\ \E p \in toCheck[r] :
       /\ toCheck' = [toCheck EXCEPT ![r] = @ \ {p}]
       /\ added' = IF Matched(p) THEN added ELSE [added EXCEPT ![r] = @ \cup {p}]
  /\ UNCHANGED <<req, pc, caseVars, tableVars, audited, toScan, histVars, faults,
                 custodyVars>>

NextIoc(r) ==
  /\ toCheck[r] = {}
  /\ Goto(r, "check", "scan")
  /\ UNCHANGED <<caseVars, tableVars, audited, sessionVars, histVars, faults, custodyVars>>

\* Line 140, then the answer.
CommitScan(r) ==
  /\ toScan[r] = {}
  /\ Goto(r, "scan", "done")
  /\ matches' = matches \cup {[pair |-> p, by |-> r] : p \in added[r]}
  /\ added' = [added EXCEPT ![r] = {}]
  /\ UNCHANGED <<caseVars, iocs, entities, audited, toScan, toCheck, histVars, faults,
                 custodyVars>>

-----------------------------------------------------------------------------
(* Indexer.process_text_content.                                            *)

\* The values found in the text, each once.  The case must be in the database.
ParseText(r) ==
  /\ req[r].cmd = "index"
  /\ caseRow
  /\ Goto(r, "new", "index")
  /\ toCheck' = [toCheck EXCEPT ![r] = req[r].values]
  /\ runsOverlapped' = (runsOverlapped \/ Others(r, {"index"}) # {})
  /\ UNCHANGED <<caseVars, tableVars, audited, toScan, added, owed, early,
                 scansOverlapped, faults, custodyVars>>

Known(v) == \E e \in entities : e.value = v

\* Lines 84-97.
CheckEntity(r) ==
  /\ pc[r] = "index"
  /\ \E v \in toCheck[r] :
       /\ toCheck' = [toCheck EXCEPT ![r] = @ \ {v}]
       /\ added' = IF Known(v) THEN added ELSE [added EXCEPT ![r] = @ \cup {v}]
  /\ UNCHANGED <<req, pc, caseVars, tableVars, audited, toScan, histVars, faults,
                 custodyVars>>

CommitEntities(r) ==
  /\ toCheck[r] = {}
  /\ Goto(r, "index", "done")
  /\ entities' = entities \cup {[by |-> r, value |-> v] : v \in added[r]}
  /\ added' = [added EXCEPT ![r] = {}]
  /\ UNCHANGED <<caseVars, iocs, matches, audited, toScan, toCheck, histVars, faults,
                 custodyVars>>

-----------------------------------------------------------------------------
\* A step raises, or the process dies: what the session has added is rolled back.
\* The answer is 500, or none.
Fails(r) ==
  /\ Fault
  /\ \E from \in Pc \ ({"new"} \cup End) : Goto(r, from, "failed")
  /\ IF r \in appending THEN Custody!AbandonAppend(r) ELSE UNCHANGED custodyVars
  /\ added' = [added EXCEPT ![r] = {}]
  /\ toScan' = [toScan EXCEPT ![r] = {}]
  /\ toCheck' = [toCheck EXCEPT ![r] = {}]
  /\ UNCHANGED <<caseVars, tableVars, audited, histVars>>

Step(r) ==
  \/ CommitCase(r) \/ MakeDirs(r) \/ UseCase(r) \/ ReadTail(r) \/ WriteEntry(r)
  \/ AppendFails(r) \/ Audit(r) \/ AuditFails(r)
  \/ CheckCase(r) \/ CommitIoc(r) \/ SelectIocs(r) \/ SelectEntities(r)
  \/ CheckPair(r) \/ NextIoc(r) \/ CommitScan(r)
  \/ ParseText(r) \/ CheckEntity(r) \/ CommitEntities(r)
  \/ Fails(r)

Next == \E r \in Reqs : Step(r)

Spec == Init /\ [][Next]_vars

-----------------------------------------------------------------------------
Creators == {r \in Reqs : req[r].cmd = "create"}
Logged(r) == \E i \in 1..Len(log) : log[i].body = r

\* A case whose creation was answered has its directories and its first entry,
\* unless a torn line of another handler hides it; and only an error keeps a
\* creation from being answered, whoever uses the case meanwhile.
AnsweredIsCreated ==
  \A r \in Creators :
    /\ pc[r] = "done" => dirs /\ (Logged(r) \/ torn)
    /\ faults = 0 /\ pc[r] \in End => Logged(r)

\* The log begins with case.create and verifies as far as that, unless the case was
\* used, by its id from the list of cases, before it was made.
CreateIsFirst ==
  ~early /\ log # <<>> => log[1].body \in Creators /\ Custody!verify_chain(<<log[1]>>)

\* A scan that is answered has found every pair that was in the tables when it
\* began, however other scans and index runs interleave, and whichever of them
\* failed: in particular it makes up for a scan that failed after its indicator
\* was committed.
ScanIsComplete ==
  \A r \in Reqs : req[r].cmd = "ioc" /\ pc[r] = "done" => \A p \in owed[r] : Matched(p)

\* A pair gets one match and one finding until two scans overlap, and a value one
\* entity until two index runs do.
SerialIsUnique ==
  /\ ~scansOverlapped => \A m, n \in matches : m.pair = n.pair => m = n
  /\ ~runsOverlapped => \A d, e \in entities : d.value = e.value => d = e
=============================================================================
