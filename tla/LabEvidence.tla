---------------------------- MODULE LabEvidence ----------------------------
(***************************************************************************)
(* The evidence of one dfirlab case (dfirlab/evidence.py): processes that  *)
(* run `dfir ingest`, `dfir import-image` and `dfir verify` at will, over  *)
(* the case's vault, its manifests, its SQLite database and its custody    *)
(* log (LabCustody).                                                       *)
(*                                                                         *)
(* A command writes these stores one after the other: copy, manifest, row, *)
(* log entry, action.  Nothing is undone when a later step raises, and no  *)
(* lock is held over two of them.  A source is one file with a name of its *)
(* own; what a directory holds, and what a manifest lists, maps sources to *)
(* contents.  The layout and the schema of the case are there.             *)
(***************************************************************************)
EXTENDS Naturals, Sequences, FiniteSets

CONSTANTS
  Procs,           \* processes, one command each
  Labels,          \* evidence labels
  Sources,         \* files outside the case
  Contents,        \* what a file can hold; equal hashes mean equal contents
  Requests,        \* the commands users may give
  MaxFaults,       \* bound on crashes and I/O errors in a behaviour
  MaxEntries       \* bound on the custody log

VARIABLES
  req,             \* the command of each process
  pc,              \* where it is
  src,             \* the files outside the case
  vault,           \* vault/evidence/<label> ("files"), vault/images/<label> ("image")
  manifest,        \* vault/manifests/<label>.manifest.jsonl
  entries,         \* what a process has hashed for its manifest
  evidence,        \* committed rows, in the order of their ids
  actions,         \* committed rows of record_action
  todo,            \* the rows that a verify has still to look at
  verdict,         \* its verdict on the first of them
  moved,           \* history: processes whose source changed after its hashing
  faults,          \* crashes and I/O errors so far
  log, torn, appending, tail, overlapped       \* see CustodyFile

custodyVars == <<log, torn, appending, tail, overlapped>>
diskVars == <<vault, manifest>>
dbVars == <<evidence, actions>>
localVars == <<entries, todo, verdict>>
worldVars == <<src, moved>>
vars == <<req, pc, worldVars, diskVars, dbVars, localVars, faults, custodyVars>>

NoFile == "no_file"

\* The files of a directory, or the lines of a manifest.
Listing == [Sources -> Contents \cup {NoFile}]
Nothing == [s \in Sources |-> NoFile]

\* A manifest that is not there, and one that does not parse.
NoManifest == [s \in Sources |-> "no_manifest"]
Garbled == [s \in Sources |-> "garbled"]

Kinds == {"files", "image"}
kind == [ingest |-> "files", import_image |-> "image"]

Request ==
  [cmd : {"ingest", "import_image"}, label : Labels, source : Sources,
   mode : {"copy", "reference"}]
    \cup [cmd : {"verify"}, label : Labels \cup {"all"}]

ASSUME RequestsAssumption == Requests \subseteq Request
ASSUME BoundsAssumption == MaxFaults \in Nat /\ MaxEntries \in Nat \ {0}

\* A row of the evidence table, with its rows of items.
Evidence ==
  [by : Procs, kind : Kinds, label : Labels, source : Sources,
   mode : {"copy", "reference"}, items : Listing,
   last_verify_ok : {"null", "yes", "no"}]

\* The details of an entry of the log and of a row of actions.
Events == [by : Procs, label : Labels]

Custody == INSTANCE LabCustody WITH Writers <- Procs, Bodies <- Events

End == {"refused", "failed", "done"}
Pc == {"new", "copy", "list", "open", "write", "insert", "compare", "update",
       "append", "appending", "record"} \cup End

TypeOK ==
  /\ req \in [Procs -> Requests]
  /\ pc \in [Procs -> Pc]
  /\ src \in Listing
  /\ vault \in [Kinds -> [Labels -> Listing]]
  /\ manifest \in [Labels -> Listing \cup {NoManifest, Garbled}]
  /\ entries \in [Procs -> Listing]
  /\ evidence \in Seq(Evidence)
  /\ \A m, n \in 1..Len(evidence) : evidence[m].label = evidence[n].label => m = n
  /\ actions \subseteq Events
  /\ todo \in [Procs -> Seq(Evidence)]
  /\ verdict \in [Procs -> BOOLEAN]
  /\ moved \subseteq Procs
  /\ faults \in 0..MaxFaults
  /\ Custody!TypeOK
  /\ \A p \in Procs : p \in appending <=> pc[p] = "appending"

Init ==
  /\ req \in [Procs -> Requests]
  /\ pc = [p \in Procs |-> "new"]
  /\ src \in [Sources -> Contents]
  /\ vault = [k \in Kinds |-> [l \in Labels |-> Nothing]]
  /\ manifest = [l \in Labels |-> NoManifest]
  /\ entries = [p \in Procs |-> Nothing]
  /\ evidence = <<>>
  /\ actions = {}
  /\ todo = [p \in Procs |-> <<>>]
  /\ verdict = [p \in Procs |-> FALSE]
  /\ moved = {}
  /\ faults = 0
  /\ Custody!Init

Fault ==
  /\ faults < MaxFaults
  /\ faults' = faults + 1

Goto(p, from, to) ==
  /\ pc[p] = from
  /\ pc' = [pc EXCEPT ![p] = to]
  /\ UNCHANGED req

-----------------------------------------------------------------------------
(* The world outside the case.                                              *)

Hashed(p) == pc[p] \notin {"new", "refused", "copy", "list"}

ChangeSource(s, c) ==
  /\ src' = [src EXCEPT ![s] = c]
  /\ moved' = moved \cup
       {p \in Procs : req[p].cmd # "verify" /\ Hashed(p) /\ req[p].source = s}
  /\ UNCHANGED <<req, pc, diskVars, dbVars, localVars, faults, custodyVars>>

-----------------------------------------------------------------------------
(* ingest and import_image.                                                 *)

IsImport(p) == req[p].cmd \in {"ingest", "import_image"}

OwnDir(p) == vault[kind[req[p].cmd]][req[p].label]

\* Lines 150-164 and 277-298: the source exists and, for a copy, the label has no
\* files of this kind in the vault.
CheckImport(p) ==
  /\ IsImport(p)
  /\ Goto(p, "new",
       IF src[req[p].source] = NoFile \/ (req[p].mode = "copy" /\ OwnDir(p) # Nothing)
       THEN "refused"
       ELSE IF req[p].mode = "copy" THEN "copy" ELSE "list")
  /\ UNCHANGED <<worldVars, diskVars, dbVars, localVars, faults, custodyVars>>

\* Lines 165-191 and 299-302.  When the source has gone, copy2 raises, and
\* walk_files of a directory finds nothing.
CopySource(p) ==
  /\ pc[p] = "copy"
  /\ IF src[req[p].source] = NoFile
     THEN /\ \/ Goto(p, "copy", "failed")
             \/ req[p].cmd = "ingest" /\ Goto(p, "copy", "list")
          /\ UNCHANGED vault
     ELSE /\ Goto(p, "copy", "list")
          /\ vault' = [vault EXCEPT ![kind[req[p].cmd]][req[p].label][req[p].source] =
                         src[req[p].source]]
  /\ UNCHANGED <<worldVars, manifest, dbVars, localVars, faults, custodyVars>>

\* The disk fills up: what was copied stays.
CopyFails(p) ==
  /\ Fault
  /\ Goto(p, "copy", "failed")
  /\ \E c \in Contents :
       vault' = [vault EXCEPT ![kind[req[p].cmd]][req[p].label][req[p].source] = c]
  /\ UNCHANGED <<worldVars, manifest, dbVars, localVars, custodyVars>>

Only(s, files) == [Nothing EXCEPT ![s] = files[s]]

\* Mutant: root_for_manifest is the source for a copy, too.
Hashing_Source(p) == Only(req[p].source, src)

\* What is hashed: all of the label's directory for an ingest by copy, else the
\* segments of the image in the vault, or the source itself.
Hashing(p) ==
  IF req[p].mode = "reference" THEN Only(req[p].source, src)
  ELSE IF req[p].cmd = "ingest" THEN OwnDir(p) ELSE Only(req[p].source, OwnDir(p))

SourceGone(p) == req[p].mode = "reference" /\ src[req[p].source] = NoFile

\* Lines 192-200 and 306-324.  A referenced file that has gone raises; of a
\* referenced directory that has gone nothing is hashed.
HashEvidence(p) ==
  /\ pc[p] = "list"
  /\ \/ (SourceGone(p) => req[p].cmd = "ingest") /\ Goto(p, "list", "open")
     \/ SourceGone(p) /\ Goto(p, "list", "failed")
  /\ entries' = [entries EXCEPT ![p] = Hashing(p)]
  /\ UNCHANGED <<worldVars, diskVars, dbVars, todo, verdict, faults, custodyVars>>

\* write_manifest opens the file with mode "w" ...
OpenManifest(p) ==
  /\ Goto(p, "open", "write")
  /\ manifest' = [manifest EXCEPT ![req[p].label] = Nothing]
  /\ UNCHANGED <<worldVars, vault, dbVars, localVars, faults, custodyVars>>

\* The bytes of one manifest over those of another: lines of the second may stay
\* behind those of the first, and one of them may be cut.
Over(new, old) ==
  IF old = Nothing THEN {new}
  ELSE {new, Garbled} \cup
         (IF old = Garbled THEN {}
          ELSE {[s \in Sources |-> IF new[s] = NoFile THEN old[s] ELSE new[s]]})

\* ... and fills it.
WriteManifest(p) ==
  /\ Goto(p, "write", "insert")
  /\ \E m \in Over(entries[p], manifest[req[p].label]) :
       manifest' = [manifest EXCEPT ![req[p].label] = m]
  /\ UNCHANGED <<worldVars, vault, dbVars, localVars, faults, custodyVars>>

\* The disk fills up in the write: a manifest that is empty, or ends in a line
\* that is cut, stays.
ManifestFails(p) ==
  /\ Fault
  /\ Goto(p, "write", "failed")
  /\ \E m \in {manifest[req[p].label], Garbled} :
       manifest' = [manifest EXCEPT ![req[p].label] = m]
  /\ UNCHANGED <<worldVars, vault, dbVars, localVars, custodyVars>>

Rows == {evidence[n] : n \in 1..Len(evidence)}
Labelled(l) == \E r \in Rows : r.label = l

NewRow(p) ==
  [by |-> p, kind |-> kind[req[p].cmd], label |-> req[p].label,
   source |-> req[p].source, mode |-> req[p].mode, items |-> entries[p],
   last_verify_ok |-> "null"]

\* Mutant: the command returns once the row is committed.
InsertEvidence_Returns(p) ==
  /\ Goto(p, "insert", IF Labelled(req[p].label) THEN "failed" ELSE "done")
  /\ evidence' =
       IF Labelled(req[p].label) THEN evidence ELSE Append(evidence, NewRow(p))
  /\ UNCHANGED <<worldVars, diskVars, actions, localVars, faults, custodyVars>>

\* Lines 205-247 and 329-370, one transaction.  A second row with the label is
\* an IntegrityError.
InsertEvidence(p) ==
  /\ Goto(p, "insert", IF Labelled(req[p].label) THEN "failed" ELSE "append")
  /\ evidence' =
       IF Labelled(req[p].label) THEN evidence ELSE Append(evidence, NewRow(p))
  /\ UNCHANGED <<worldVars, diskVars, actions, localVars, faults, custodyVars>>

-----------------------------------------------------------------------------
(* verify_case.                                                             *)

\* Lines 409-413.  The label of a row is unique; no label stands for "all".
Selected(l) ==
  IF l = "all" THEN evidence
  ELSE IF Labelled(l) THEN <<CHOOSE r \in Rows : r.label = l>> ELSE <<>>

\* Lines 409-417.
SelectRows(p) ==
  /\ req[p].cmd = "verify"
  /\ todo' = [todo EXCEPT ![p] = Selected(req[p].label)]
  /\ Goto(p, "new", IF todo'[p] = <<>> THEN "done" ELSE "compare")
  /\ UNCHANGED <<worldVars, diskVars, dbVars, entries, verdict, faults, custodyVars>>

\* Mutant: images are looked for in vault/evidence, too.
root_dir_IgnoresKind(r) ==
  IF r.mode = "copy" THEN vault["files"][r.label] ELSE Only(r.source, src)

root_dir(r) ==
  IF r.mode = "copy" THEN vault[r.kind][r.label] ELSE Only(r.source, src)

Matches(m, files) == \A s \in Sources : m[s] # NoFile => files[s] = m[s]

\* Lines 421-467.  A manifest that does not parse raises.
CompareManifest(p) ==
  /\ pc[p] = "compare"
  /\ LET r == Head(todo[p])
         m == manifest[r.label]
     IN  IF m \in {NoManifest, Garbled}
         THEN Goto(p, "compare", "failed") /\ UNCHANGED verdict
         ELSE /\ Goto(p, "compare", "update")
              /\ verdict' = [verdict EXCEPT ![p] = Matches(m, root_dir(r))]
  /\ UNCHANGED <<worldVars, diskVars, dbVars, entries, todo, faults, custodyVars>>

\* Lines 468-495: the report, and the UPDATE of the row with the label.
UpdateRow(p) ==
  /\ Goto(p, "update", "append")
  /\ evidence' =
       [n \in 1..Len(evidence) |->
          IF evidence[n].label = Head(todo[p]).label
          THEN [evidence[n] EXCEPT !.last_verify_ok = IF verdict[p] THEN "yes" ELSE "no"]
          ELSE evidence[n]]
  /\ UNCHANGED <<worldVars, diskVars, actions, localVars, faults, custodyVars>>

-----------------------------------------------------------------------------
(* append_entry and record_action, at the end of each.                      *)

Event(p) ==
  [by |-> p,
   label |-> IF req[p].cmd = "verify" THEN Head(todo[p]).label ELSE req[p].label]

LogRefuses == torn \/ ~Custody!verify_chain(log)

ReadLog(p) ==
  /\ Goto(p, "append", IF LogRefuses THEN "failed" ELSE "appending")
  /\ IF LogRefuses THEN UNCHANGED custodyVars ELSE Custody!read_and_verify(p)
  /\ UNCHANGED <<worldVars, diskVars, dbVars, localVars, faults>>

WriteEntry(p) ==
  /\ Goto(p, "appending", "record")
  /\ Custody!WriteEntry(p, Event(p))
  /\ UNCHANGED <<worldVars, diskVars, dbVars, localVars, faults>>

AppendFails(p) ==
  /\ Fault
  /\ Goto(p, "appending", "failed")
  /\ Custody!AbandonAppend(p) \/ Custody!TearLine(p)
  /\ UNCHANGED <<worldVars, diskVars, dbVars, localVars>>

\* record_action, and the next row of a verify.
RecordAction(p) ==
  /\ pc[p] = "record"
  /\ actions' = actions \cup {Event(p)}
  /\ todo' = IF todo[p] = <<>> THEN todo ELSE [todo EXCEPT ![p] = Tail(todo[p])]
  /\ Goto(p, "record", IF todo'[p] = <<>> THEN "done" ELSE "compare")
  /\ UNCHANGED <<worldVars, diskVars, evidence, entries, verdict, faults, custodyVars>>

\* The process is killed, or raises: "database is locked", an unreadable file.
Crash(p) ==
  /\ Fault
  /\ \E from \in Pc \ ({"new"} \cup End) : Goto(p, from, "failed")
  /\ IF p \in appending THEN Custody!AbandonAppend(p) ELSE UNCHANGED custodyVars
  /\ UNCHANGED <<worldVars, diskVars, dbVars, localVars>>

-----------------------------------------------------------------------------
ProcNext(p) ==
  \/ CheckImport(p) \/ CopySource(p) \/ HashEvidence(p)
  \/ OpenManifest(p) \/ WriteManifest(p) \/ InsertEvidence(p)
  \/ SelectRows(p) \/ CompareManifest(p) \/ UpdateRow(p)
  \/ ReadLog(p) \/ WriteEntry(p) \/ RecordAction(p)

ProcFaults(p) == CopyFails(p) \/ ManifestFails(p) \/ AppendFails(p) \/ Crash(p)

Next ==
  \/ \E s \in Sources, c \in Contents \cup {NoFile} : ChangeSource(s, c)
  \/ \E p \in Procs : ProcNext(p) \/ ProcFaults(p)

Spec == Init /\ [][Next]_vars

-----------------------------------------------------------------------------
\* The imports that got past their checks with a label.
Claims(l) ==
  {p \in Procs : IsImport(p) /\ req[p].label = l /\ pc[p] \notin {"new", "refused"}}

Logged(e) == \E i \in 1..Len(log) : log[i].body = e

\* Evidence whose label no other import has claimed is what was recorded when it
\* was imported: manifest, items and vault agree, although the source may change
\* at any time.
SoleClaimIsIntact ==
  \A r \in Rows :
    Claims(r.label) = {r.by} =>
      /\ manifest[r.label] = r.items
      /\ r.mode = "copy" => Matches(r.items, vault[r.kind][r.label])

\* Under the same condition a verify fails only on evidence that is outside the
\* case and has changed.
SoleClaimVerifies ==
  \A r \in Rows :
    Claims(r.label) = {r.by} /\ r.last_verify_ok = "no" =>
      r.mode = "reference" /\ r.by \in moved

\* The actions table never claims what the custody log does not show, unless a
\* torn line hides it; and evidence gets into the database without its entry in the
\* log only through a crash, an I/O error, or appends that overlap and fork the log.
LogAgrees ==
  /\ ~torn => \A e \in actions : Logged(e)
  /\ faults = 0 /\ Custody!verify_chain(log) =>
       \A r \in Rows : pc[r.by] \in End => Logged([by |-> r.by, label |-> r.label])

-----------------------------------------------------------------------------
\* cli.py:282, "Verify evidence against stored manifest(s)": evidence in the vault
\* that fails is evidence that has changed.
FailedIsChanged ==
  \A r \in Rows :
    r.mode = "copy" /\ r.last_verify_ok = "no" =>
      ~Matches(r.items, vault[r.kind][r.label])
=============================================================================
