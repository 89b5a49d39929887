# TLA+ specifications of EviForge

EviForge is an evidence platform: an API and a worker keep cases, evidence and
analysis jobs in a database, copies of the evidence in a vault, and one
hash-chained `chain_of_custody.log` per case. `dfirlab`, in the same
repository, is a command-line suite with cases of its own. What both promise is
that their records agree: vault, database and custody log. These modules
specify how the code writes them, and check and prove what follows.

All paths below are relative to `src/eviforge/` or `src/dfirlab/` of the
repository; line numbers are in the comments of the modules and in
`PROJECT.json`.

## 1. The system

| Part | State it keeps | Operations | Talks to |
|---|---|---|---|
| Custody log file (`core/custody.py`) | `vault/<case>/chain_of_custody.log` | `append_entry`, `iter_entries`, `last_entry_hash`, `verify_chain` | called by API threads, work horses and modules |
| Custody table (`core/custody.py`) | `chain_of_custody` rows | `log_action` | the transaction of an ingest (and `demo.py`, for a case of its own) |
| Jobs (`api/routes/cases.py`, `core/jobs.py`, `worker.py`) | `jobs` and `audit_log` rows, Redis list, RQ's failed registry | submit, enqueue, run, complete, fail | database, Redis, custody log, modules |
| Evidence ingest (`core/ingest.py`, `api/routes/evidence.py`) | import directory, temporary uploads, vault copies, `evidence` rows | import, upload | database, vault, custody log, custody table |
| Case creation (`api/routes/cases.py`) | `cases` rows, case directories | create | database, vault, custody log |
| Accounts (`core/auth.py`, `api/routes/auth.py`, `api/routes/admin.py`) | `users`, settings and audit rows, tokens | bootstrap, acknowledge, login, users, settings | database |
| Login limit (`api/routes/auth.py`) | counters in Redis, and one dictionary per process | `_enforce_login_rate_limit` | Redis |
| IOC indexer (`core/indexer.py`, `api/routes/iocs.py`) | `iocs`, `entities`, matches and findings | `add_ioc`, `match_iocs`, `process_text_content` | database |
| Forensic modules (`modules/*.py`) | artifacts on disk | `run` | third-party parsers; the custody log, for reports |
| dfirlab custody log (`custody.py`) | `<case>/chain_of_custody.log` | `append_entry`, `read_entries`, `verify_hash_chain` | every dfirlab command |
| dfirlab evidence (`evidence.py`, `manifest.py`, `db.py`, `actions.py`) | vault, manifests, SQLite rows | `ingest`, `import_image`, `verify_case` | files outside the case, custody log |
| dfirlab analysis and cases (`case.py`, `triage.py`, `timeline.py`, ...) | findings, reports, `case.json` | init, show, inventory, timeline, triage, entropy, strings | database, custody log |

What is hard in this code:

- API threads, worker processes and modules append to one file without a lock.
- A job is pushed to Redis before its row is committed.
- Every operation writes several stores (file system, database, Redis) in a
  fixed order and without a common transaction, and may stop in between.
- What a write to the custody log raises is swallowed by some callers and
  propagated by others.
- A module may swallow the one timeout it is given.
- The source of an ingest may change while it is hashed, copied and verified.
- In dfirlab a label names a directory, a manifest and a row, and only the row
  is UNIQUE.
- Imports and verifies of dfirlab run in any directory: they make one that is
  missing and never ask whether an `init` has made a case of it.
- An upload is in a temporary file before the block that removes it begins.
- Handlers look for a row in one statement and write it in another: the first
  admin, a changed role, a setting, a match, an entity.
- A login is counted in Redis by two commands, either of which may get no
  answer, and then by each process for itself.
- A file is read in chunks, and what it holds does not end where they do.

For each part, what makes it correct: a log that verifies as long as its
writers take turns, and that never mends or dangles; a job row whose status and
log entries tell one story and that never gets stuck out of sight; evidence
whose vault copy is what its row says; a verdict that is about the evidence; one
first admin, and an audit log from which the rights can be read; a limit on
logins that holds and shuts out nobody else; scans that find what was there.
`PROJECT.json` lists every hazard at its line with the properties that cover it.

## 2. The modules

```
CustodyChain               what a custody log promises
   ^ implemented by (refinement mapping Chain in CustodyFile)
CustodyFile                the file, append_entry, verify_chain
   ^ instantiated by           ^ extended by
JobPipeline                LabCustody
Ingest                         ^ instantiated by   ^ extended by
CaseRecords                LabEvidence          LabCase

JobDelivery                what the job queue promises
   ^ implemented by (refinement mapping Delivery in JobPipeline)
JobPipeline

EvidenceRegister           what an ingest promises
   ^ implemented by (refinement mapping Register in Ingest)
Ingest

CaseBook                   what a dfirlab case promises
   ^ implemented by (refinement mapping Book in LabCase)
LabCase

Accounts    LoginRateLimit    StringsExtract    (no custody log)
```

The proofs about the two logs, `CustodyFile` and `LabCustody`, are in
`Custody_proofs`, and those about another module `M` in `M_proofs`; only
`StringsExtract` has none. A module that instantiates a log has in its proofs an
instance of `Custody_proofs`.

| Module | Code | State | Actions |
|---|---|---|---|
| `CustodyChain` | what the log is for | one history of events, readable or not | append an event, damage, lose a tail |
| `JobDelivery` | what `enqueue_job` and the worker are for | where each job is, the status of its record | push, record, take, start, finish, reject, return, file, lose |
| `EvidenceRegister` | what an ingest is for | what each piece was looked at and is kept with, the history of those in custody, the answers | look at, take in, tell |
| `CaseBook` | what a dfirlab case is for | how far each command is, the case, the findings, the book of complete commands, the list of actions | make, open, let in, come in (without a case), refuse, find, finish, enter, show, stop, damage, lose power |
| `CustodyFile` | `core/custody.py` | the readable entries and a flag for a bad line behind them; per writer, the hash it has read | read the tail (line 129), write the line (141-142), give up, tear the line, power loss |
| `JobPipeline` | `create_case_job`, `enqueue_job`, `execute_module_task`, `main` | handler and horse positions, committed rows, Redis list, RQ's failed registry, audit rows, the log | one action per step that another process can see, and its failures |
| `Ingest` | `_ingest_from_import`, `upload_evidence`, `ingest_file`, `log_action` | sources, temporary files, vault, uncommitted and committed rows, SQLite's write lock, the log | as above; the engine, SQLite or Postgres, is chosen at the start |
| `CaseRecords` | `create_case`, `add_ioc`, `match_iocs`, `process_text_content` | the case's row and directories, the log, indicators, entities, matches | a step per statement or file that another handler can see |
| `Accounts` | `api/routes/auth.py`, `api/routes/admin.py`, `core/auth.py`, `core/audit.py` | users, settings, audit rows, who holds a token; per handler, the row it read and the keys it has left | check, read, write, audit: a step per statement |
| `LoginRateLimit` | `_enforce_login_rate_limit` | the counters in Redis and in each process, time | INCR, its answer, EXPIRE, no answer, a restart |
| `StringsExtract` | `dfirlab/strings_util.py`, `modules/strings.py` | a file that grows by a byte per step | the extractors are functions of it |
| `LabCustody` | `dfirlab/custody.py` | that of `CustodyFile` | as `CustodyFile`, but a log that does not verify is not extended |
| `LabEvidence` | `dfirlab/evidence.py`, `manifest.py` | sources, vault directories, manifests, rows, actions, the log | check, copy, hash, open and fill the manifest, insert, select, compare, update, append, record |
| `LabCase` | `dfirlab/case.py`, `cli.py`, `store.py`, `actions.py`, the analyses; of `evidence.py` what it does to the case | the directory, `case.json`, findings, reports, actions, the log | mkdir, open and write `case.json`, ensure the layout, end or decline an import or verify, insert one finding, open and write a report, append, record, answer |

Conventions:

- **Hashes.** A SHA-256 value is what it commits to: the sequence of bodies
  hashed into it. Two hashes are equal exactly when their histories are, which
  is collision freedom and nothing more.
- **The log file.** `json.loads` raises on a bad line and nothing behind it is
  read, so a file is its readable entries and the flag `torn`. An entry written
  behind a bad line is unreadable.
- **Data.** Evidence is a model value for its contents; `Partial` in `Ingest` is
  a copy of a file that was changing. An indicator or entity is its value, a
  password is right or wrong, a byte of a file is of one of four kinds. Names of
  modules and statuses are the code's strings. Timestamps are left out, except
  the order of the rows of `chain_of_custody`, which decides which row is the
  last, and the seconds of the login limit.
- **History variables.** `raced`, `early`, `owed`, `apart`, `attempts` and the
  like only serve the properties: no guard reads them.
- **Faults.** `MaxFaults` bounds crashes and I/O errors in a behaviour, and the
  actions that use it up have `Fault` as their first conjunct.
  `MaxEntries` bounds the log file; in `LoginRateLimit`, `MaxTime` and
  `MaxAttempts` bound the clock and the logins of a window; in `StringsExtract`,
  `MaxLen` bounds the file. No other counter is bounded by a guard.
- **Mutants.** Operators whose comment starts with "Mutant:" are bugs the code
  does not have. `PROJECT.json` names for each property the one that breaks it.

## 3. What is checked

All runs are exhaustive over their instance. Runs expected to find a violation
each check one statement that a document, comment or message of the repository
makes and the code does not keep.

| Run | Instance | Shows |
|---|---|---|
| `custody_file` | 3 writers, 2 bodies, 3 entries | `SerialChainVerifies`: until two appends overlap the log verifies, through failed appends, torn lines and power losses. `EveryLinkKnown`: a log may fork, but a link never dangles. `BrokenStaysBroken`. `SerialAppendsImplementChain`: the refinement of `CustodyChain`. |
| `job_safety` | 2 jobs, 2 workers, 6 kinds of request, 2 faults, SQLite | `TruthfulLog`: log and row disagree only by omission, and nothing is logged twice. `RunsAreLogged`: a run is omitted only after a fault. `AcceptedIsRunnable`: the API's table of modules agrees with the worker's registry and with each module's needs. `StrandedIsFiled`: a row that is not completed, not queued and in nobody's hands is in RQ's failed registry, unless a Redis restart dropped it. `StatusOrder`. `ImplementsDelivery`: the refinement of `JobDelivery`: a job is handed to one worker, once, and given up by none unfiled. |
| `job_liveness` | 2 jobs, 1 worker, 1 fault, Postgres, fairness | `WorkerFreed`, `JobSettles`. |
| `job_log_forks` | 1 job, 1 worker, no fault | **Violated:** `LogVerifies` (README.md:78). Handler and horse append on the same tail. |
| `ingest` | 2 ingests, 1 import file, 2 contents, both engines, 1 fault, fairness | `CommittedIsIntact`, `CommittedIsLogged`, `LoggedIsCommitted`, `NoLeftovers`: how far vault, log, database and temporary files agree when the source changes at any point; a temporary file outlives its request after a crash, a removal that failed, or an upload that ended before the hashing (too large, not received, case not looked up). `ChainIsLinear`: the custody rows are a chain, by the autoflush before the SELECT of `log_action` on SQLite, and on Postgres unless two ingests raced. `RequestsEnd`: nobody waits for ever for the write lock. `ImplementsRegister`: while the custody rows are a chain, the refinement of `EvidenceRegister`: evidence is in custody from one moment on, as it was hashed, and every answer says whether it is. |
| `accounts` | 3 of 21 requests, 2 users, new and used databases, 1 fault | `OneFounder`: bootstrap makes one admin unless two count the users before either inserts. `LockoutIsPermanent`: nothing undoes the demotion of the last admin. `NothingBeforeAck`. `AuditTells`: without faults the audit log is the history of a user's rights and of a setting, unless two changes of it overlapped or a settings request failed half way. |
| `login_limit` | 2 processes, limits 0 to 2, 2 windows, 3 logins each, 2 faults | `BucketLimit`: how many logins get through when Redis and the processes count apart. `RefusedAfterLimit`: nobody is refused early, whatever is lost, sent twice, or never expires. |
| `case_records` | 4 requests, 2 values, 1 fault | `AnsweredIsCreated`, `CreateIsFirst`: what a creation leaves when it fails in the middle or the case is used before it is made. `ScanIsComplete`: a scan finds every pair that was there when it began, those of failed scans included. `SerialIsUnique`: once, unless two overlap. |
| `strings` | every file of up to 7 bytes of 4 kinds | `ExtractorsAreReference`: the loops find the maximal strings. `ModuleFindsPieces`: the chunked search finds nothing else, and loses no string that is long enough. |
| `lab_case` | 3 commands, 2 findings, 2 faults | `EntriesExtendVerified`: nothing is built on a fork. `LoggedIsBacked`, `RecordedIsLogged`: findings, reports, actions and log agree as far as the order of the writes makes them. `InitIsFirst`: the log begins with it, or with a command that was let in before `create_case` had returned. `CreatedOnce`: no init overwrites another's case. `ImplementsBook`: the refinement of `CaseBook`: a command is in the log once, complete, and in the actions only if it is in the log; shows and analyses are let in to a case only; and a failed init, or an import before it, leaves a bare directory in which no init makes a case. |
| `lab_evidence` | 3 processes, 1 label, 1 source, 2 contents, 1 fault | `SoleClaimIsIntact`, `SoleClaimVerifies`: evidence whose label one import has claimed agrees with its manifest, and fails a verification only if it is outside the case and changed. `LogAgrees`: the actions table claims nothing that the log does not show, and a row without its entry takes a fault or a fork. |
| `lab_verdict` | 3 processes, imports by copy and verifies of a label, no fault | **Violated:** `FailedIsChanged` (dfirlab/cli.py:282). A refused import has already rewritten the manifest. |

**Why these bounds are enough to be of use.** A fork needs two overlapping
appends, and a third entry to be built on it or on what is left after a power
loss: three writers and three entries. In the pipeline the actors that meet are
the handler of a job, the horse of the same job and those of another job; two
jobs and two workers give all four at once, and two faults a failure of the
recovery from a failure. In the evidence modules two imports meet over a label
or a source, and a third process reads what they left. In `accounts` two
requests race and a third makes or breaks the rights they have been let in
with; the twenty-one requests are, for each endpoint, the ones that the code tells
apart. In `login_limit` the second window shows what the first leaves behind,
and with two processes Redis, one dictionary and the other each count a login of
the same window. In `case_records` two scans or two index runs overlap, a third
request brings what they find, and a creation meets two who use the case. A file
of seven bytes covers two and a third chunks of three bytes, a string that spans
a whole chunk, and three UTF-16 units and the half of a fourth. In `lab_case`
an init meets another init and a command, of those that ask for a case and of
those that do not, and two faults are a crash or a power
loss in the command that would notice the first.

`MaxEntries` is at least the number of entries that the processes of an instance
can write in the runs of `JobPipeline` (two per job), `Ingest`, `CaseRecords`,
`LabEvidence` and `LabCase` (one per command), so it never cuts a behaviour
there. Jobs, workers, requests and processes are interchangeable, and their
permutations are symmetries of the safety runs. The requests of `job_safety` are
one of each kind that the code tells apart; the modules of a kind differ in name
only.

**Fairness.** `JobPipeline!FairSpec` assumes that handlers and horses that are
not stopped take their next step, that a free worker takes a job from a
non-empty queue (RQ's `BLPOP` loop), that a run either ends or meets its 900 s
alarm, and that RQ's parent kills a horse that outlives `job_timeout`. It does
not assume that a module that swallowed the alarm ever returns, or that a fault
happens or does not. `Ingest!FairSpec` assumes that
handlers keep running and that a handler for which SQLite's lock is free often
enough gets it. The lock is released by whoever holds it, so weak fairness is
enough once the requests are finitely many, as they are here. No fairness is
assumed of sources, users, power or Redis. The handlers and commands of the
other modules wait for nobody, so that they end is a matter of each one alone,
and no property says so.

**Deadlock** is checked in `custody_file`; elsewhere every request may have been
answered, and the system may stop.

## 4. What is proved

`Custody_proofs`, for any writers, bodies and length of the file:

- `TypeCorrect`, and `LinksKnown`, `SerialVerifies` and `BrokenForGood`: the
  invariants and the action property of `custody_file`;
- `SerialRefinesChain`: until two appends overlap, the file implements
  `CustodyChain`.

The only assumption is that `MaxEntries` is a positive number. Neither
`SerialChainVerifies` nor `EveryLinkKnown` is inductive, and `IInv` strengthens
them: every entry carries its own hash (`SelfHashed`); a hash a writer holds is
still in the file (`TailKnown`), because the file only shrinks when all writers
are gone; before any overlap one writer appends at a time and holds the end of
the file (`SerialTail`), and the hash of an entry is the history up to it
(`SerialHistory`). The last is what connects the file to the abstract history,
and also gives `SerialChainVerifies`, without induction over the file.
`BrokenForGood` follows from types alone: a step that does not shorten the file
keeps its entries, and `verify_chain` of a longer file implies that of its
prefix (`VerifyPrefix`).

and, under the same assumption:

- `LabRefinesFile`: dfirlab's log implements `CustodyFile`, so that the theorems
  above hold of it;
- `NothingOnAFork`: `EntriesExtendVerified`. Its strengthening says the same of
  the hashes that writers hold (`TailsExtendVerified`); a prefix that verified
  stays in place while a writer that has read it is alive.

`LabCase_proofs`, for any processes and bounds, and any requests that are inits,
shows, imports, verifies or analyses with any number of findings:

- `CaseRefinesLab`: whatever the commands do, their log is a `LabCustody`, so
  that all the above holds of a case, and `CaseNothingOnAFork` in particular;
- `CaseTypeCorrect`, `LogIsBacked`, `ActionsAreLogged`, `LogBeginsWithInit`, the
  action property `CaseIsCreatedOnce` and the refinement `CaseRefinesBook`: every
  property of the run `lab_case`;
- `NothingUnlogged` (findings that the log does not know of have a fault or a
  forked log behind them), `ShowsAreLogged` (a `case show` that vouches for the
  log is in it) and `HalfStays` (a directory that a failed init or an import
  left without a case stays without), which no run repeats.

The inductive invariant `CaseInv` has one conjunct for each thing that the
properties leave unsaid. `Commands`: a position belongs to the commands that get
there. `OneCreator`: mkdir lets one init through, so nobody writes the
`case.json` of another; it is what makes `CreatedOnce` more than a check of
mkdir. `LoggedLater`: a command that is in the log has passed its append, so the
entry of the next append is new. `AnalysesBacked` extends `LoggedIsBacked` to
analyses that are about to be logged, with all findings rather than some.
`Recorders` says of the one who is about to record an action what
`RecordedIsLogged` says of the one who has. `Faultless` follows a command
without faults to its end: it is in the log, or found it forked, and a fork
stays one. `FirstEntry` gives `InitIsFirst` while the log is still empty: once
`create_case` has returned there is an entry, and so there is for every command
let in after that, whether it asks for the case or not. The
refinement takes nothing more: `OneCreator` makes a case half made as long as its
one init lives, `LoggedLater` keeps a command from a second entry, `AnalysesBacked`
says that a command is complete when the book lets it enter, and `Recorders` that it
is in the log when it is shown. The assumptions are that a command has one entry, its
own, that requests have the fields of their kinds, and that the bounds are
numbers and processes are not called what `caseJson` holds for a missing file.

`Ingest_proofs`, for any ingests, requests, files, contents, bounds and either
engine:

- `IngestRefinesFile`: whatever the ingests do, their log is a `CustodyFile`, so
  that no link of it dangles (`IngestLinksKnown`);
- `IngestTypeCorrect`, `EvidenceIsIntact`, `EvidenceIsLogged`, `LogIsCommitted`,
  `NothingIsLeft` and `RowsAreAChain`: every invariant of the run `ingest`;
- `IngestRefinesRegister`, its refinement, and `HistoryIsComplete`, which no run
  repeats: the history in the hash of the last custody row names all evidence,
  and each piece once. Both are under the condition of `ChainIsLinear`.

In `IngestInv`, `CopyIsVerified` says of a request that is past the comparison
what `CommittedIsIntact` says of a committed one, and `FilesFollow` which
positions have no copy or no temporary file yet, and which ends keep the file:
before the hashing nobody has to remove it (`aborted` is the 500 of a request
that raises there), and later only `stuck` requests have failed to. `LoggedLater` ties the log to
the positions: an entry is there before the commit, and not before the append.
`Faultless` needs it, because what fails without a fault (a source that is gone
or has changed) fails before the append. `OneInFlight` is the argument for
`ChainIsLinear`: a request between `log_action` and its commit links to the end
of the chain because nobody else is there, which on SQLite is the lock
(`dbLock`, which `RowsInOrder` identifies with those positions) and elsewhere
the hypothesis. The register's history is that hash: the commit of a request is
the one step that lengthens it, by its own entry, since its row was hashed on
the last one (`OneInFlight` with `RowsLink`) and is later than all the others
(`LatestRow`). `Hashed` says which positions have a digest: the register looks at
a piece before it takes it in. The assumptions are that requests have the fields
of their schema and that the bounds are numbers.

`Accounts_proofs`, for any users, values and requests:

- `AccountsTypeCorrect`, `OneFirstAdmin`, `AcknowledgedFirst`,
  `LockedOutForGood` and `AuditsTell`: every property of the run `accounts`.

`AccountsInv` adds to the types what a handler has found out on its way
(`Positions`: a write that can make an admin is of a request that was let in as
one, and the user it changes exists); that those who were let in came after the
acknowledgement, which nobody takes back (`AckedFirst`); and `FoundedOnce`: of
the requests that found no users at most one is about to insert, and then none
has. `AuditInv` is the argument for `AuditsTell`. A change is on its way from
the reading of a row to its audit row, and in between the log is behind:
`Undisturbed` says that the one change which is on its way has found the row as
it was read and has left it as was asked, and `ColumnTold` that what it read is
what the last audit row left. So the log is true again as soon as it is
audited. `KeyTold` says the same of a setting that a request has left behind in
its loop, and `RowsWereRead` that a user who was ever changed is there: the
history of a new user begins with nothing. That rows of the log are about
requests that are done (`AuditedIsDone`) keeps its past from changing. The
assumptions are that requests are those of the endpoints, that nobody
has made the accounts a used database starts with, and that `None` is none of
the values.

`JobPipeline_proofs`, for any jobs, workers, requests, modules' behaviours and
bounds, and either engine:

- `PipelineRefinesFile`: handlers and work horses write a `CustodyFile`, so that
  no link of it dangles (`PipelineLinksKnown`);
- `PipelineTypeCorrect`, `LogIsTruthful`, `EveryRunLogged`, `AcceptedRuns`,
  `StrandedAreFiled`, the action property `StatusInOrder` and the refinement
  `PipelineRefinesDelivery`: every property of the run `job_safety`.

The difficulty is that a job is in Redis before its row is there, so that
neither tells where the job is. `PipelineInv` says what each side knows: the row
follows the handler until it is committed (`RowFollowsHandler`) and the horse
after it has started the job (`RowFollowsHorse`); a job is in the queue or in
the hands of one worker, once (`Distinct`, `Alone`, `QueuedIsFresh`,
`NotYetPushed`); what the queue has delivered is done, filed or lost (`Filed`).
`LogFollows` says of each entry that its writer has left, which is why no event
is logged twice. The 31 actions do to a job, its row and its worker one of 13
things (lemma `Shapes`), and the parts about them are proved by these. Each of
the 13 is a step of `JobDelivery` or none, which gives the refinement: where a
job is follows from Redis and the workers, except that a job which is filed or
lost must have been delivered (`FiledIsOver`, a second invariant on top of
`PipelineInv`), or it could be pushed again. The assumptions are that requests
have the fields of their kinds, that jobs and workers have different names, and
that the bounds are numbers.

`CaseRecords_proofs`, for any requests, values and bounds:

- `RecordsRefineFile` and `RecordsLinksKnown`, as above;
- `RecordsTypeCorrect`, `AnsweredCaseIsThere`, `LogBeginsWithCreate`,
  `ScansAreComplete` and `SerialRunsAreUnique`: every property of the run
  `case_records`.

In `CaseInv`, `CreatorFollows` ties the row, the directories and the entry to
the one handler that makes them, and `NobodyEarlier` with `FirstLink` says who
can be about to write the first entry of the log and what it links to.
`ScanCovers` is the loop invariant of `match_iocs`: what a scan owes is matched,
added in its transaction, in its list or among the indicators it has yet to
look at. `OneScan` and `OneRun` say that without an overlap nobody else fills
the gap between the lookup and the insert. The assumptions are those of
`Ingest_proofs`.

`LabEvidence_proofs`, for any processes, labels, sources, contents, commands and
bounds:

- `EvidenceRefinesLab`: the commands write a `LabCustody`, so that none of them
  extends a log that does not verify (`EvidenceOnNoFork`);
- `EvidenceTypeCorrect`;
- `SoleClaimsAreIntact`, `SoleClaimsVerify` and `LogAndRowsAgree`: every
  property of the run `lab_evidence`.

Two properties are about an import whose label no other has claimed, and a claim
is never given up: who is alone after a step was alone before (`AloneEarlier`).
`AloneInManifest` and `AloneInVault` say what such an import finds, from its
hashing to long after its row, in the two stores that are keyed by the label;
`SourceWatched` what it may find outside the case. Between a comparison and the
UPDATE others run, and `VerdictIsDue` carries the verdict over: a verify holds
rows as they were selected (`TodoAreRows`), of which only the verdict has
changed since. `WritersHaveLogged` and `ImportsHaveLogged` follow an entry from
its append to the row of `actions`; that a log which did not verify never does
again (`AppendMendsNothing`, in `Custody_proofs`) is what makes a refused
append an excuse for good. The assumptions are that requests are those of the
command line and that the bounds are numbers.

`LoginRateLimit_proofs`, for any finite set of processes, any window, limits and
bounds:

- `LoginTypeCorrect`, `LimitHolds` and `NobodyRefusedEarly`: every property of
  the run `login_limit`.

Both properties are about sums over the processes. `LoginInv` has none: what a
sum would count is the size of a set. `Slots` holds a pair (process, number) for
each number up to the limit that a dictionary has given out, `InFlight` the
processes with a number of Redis that lets them through, `Pending` those with an
attempt; a step of one process changes each by what that process contributes
(`OneProcess`), and the numbers of the dictionaries are at most the limit for
each process that has one (`SlotsOfThoseApart`). `Spent` then holds who was let
through in the window of the moment, or will be, against the numbers given out.
It holds in that window only, since a counter outlives its own window
(`InWindow`) but no longer; when the window is over, nobody is let through in it
any more and `PastLimit` keeps what `Spent` has shown. For
`NobodyRefusedEarly`, `Counted` says that no counter is ahead of the attempts
that are over or on their way without a refusal (`Seen`), a crash or a lost reply
included. The assumptions are that the processes are finitely many, the window is
positive, and the bounds are numbers.

The invariants of the last four modules and `AuditInv` were checked by TLC, on
the instances of their runs, before they were proved. The proof of `AuditsTell`
found what the run had missed: `AuditTells` used to hold of its requests and not
of others, until a request that failed half way became an excuse and the
requests had one that makes another fail.

**Model-checked only.** One module has safety properties that are not proved:
what the folds in `ExtractorsAreReference` and `ModuleFindsPieces` of
`StringsExtract` compute for every file takes an induction over data, whose
theorem takes an operator as a parameter, which the prover cannot instantiate.

Liveness under fairness (`WorkerFreed`, `JobSettles`, `RequestsEnd`) is out of
the prover's reach and stays with TLC. The type invariants of all modules are proved; no run repeats
them.

## 5. What the runs say about the code

The violations:

1. **`chain_of_custody.log` forks in normal operation** (`job_log_forks`). The
   handler commits, a worker may already be running the job, and both append
   without a lock. dfirlab's log can fork, too, and then refuses every append.
2. **A refused dfirlab import damages committed evidence** (`lab_verdict`). The
   manifest is rewritten before the INSERT decides; the evidence then fails its
   verification although nothing has changed.

What the form of other properties says, for which no statement of the
repository has a run of its own:

3. A job is enqueued before it is committed, and a fast worker raises on a job
   that exists a moment later, although `core/jobs.py:49` writes the record "so
   the worker can find it". The row stays PENDING, and `StrandedIsFiled` finds
   it in RQ's failed registry.
4. `ChainIsLinear` needs its condition: two uploads on Postgres link their rows
   to the same one, against `docs/security.md:17`.
5. `SerialChainVerifies` holds through power losses: a log that has lost its last
   entries is accepted, although `docs/security.md:18` has modifications
   detected. No fsync, and no anchor for the last entry.
6. `OneFounder` needs its condition, and `LockoutIsPermanent` says that a
   restart does not help: `ensure_bootstrap_admin` counts users, not admins.
7. `SerialIsUnique` needs its condition: the tables have no UNIQUE
   constraint for what is looked up before it is added.
8. `AuditTells` needs `HalfSet`: a settings request whose second key collides
   with another request's first insert of it fails, and leaves its first key set
   without an audit row, since each key is committed on its own
   (`admin.py:202`). A client that sees the error has no sign of it.
9. `max_strings = 0` returns one string (`TakeMatches`).
10. `NoLeftovers` has to except uploads that fail early: after a 413, a full disk
    or a failed lookup of the case, the `.upload` file stays in `uploads/` while
    the process lives on, since the `finally` that removes it begins later
    (`evidence.py:164`).
11. `InitIsFirst` and `ImplementsBook` have to except imports and verifies: given
    a path that no `init` has made, they make the directory and begin its log,
    and a later `init` of that name is refused (`case.py:77`). What they leave
    has no `case.json`, so that no show or analysis will open it.

## 6. What is not modelled

- The scripts under `site/assets/javascripts/`: vendored third-party code of the
  generated documentation, which nothing of the program runs.
- A crash of the host between the vault copy and the database: which of two
  unsynced files survives is up to the file system. Power loss is modelled for
  the custody logs, and in `LabCase` for `case.json` and the reports.
- Two lines written at once and interleaved byte by byte: an entry is far
  smaller than the buffer of Python's file object, so it is one `write`.
- `str.splitlines()`, with which dfirlab reads its log and manifests: since they
  are written with `ensure_ascii=False`, a name with U+2028 or U+0085 makes them
  unreadable. A torn line or a garbled manifest is modelled, but as a fault.
- The archives an ingest may unpack: what their reader raises is a fault of the
  copy, as "database is locked" is one of the database.
- A torn line that is complete but for its newline, and a commit whose outcome
  the client does not learn.
- A Redis restart that delivers jobs again that have been run: `LoseQueue` only
  drops jobs. Nothing in the program says what should happen then.
- The growth of `_MEM_RATE_LIMIT`, from which no entry is removed: it is in the
  number of addresses, and the model has one.
- Different sources with files of the same name under one dfirlab label, and
  sources of more than one file: `LabEvidence` has one file per source.
- The audit rows of evidence and artifact routes, which are written after the
  answer is decided and read by nothing.
- The OSINT router, job lists and artifact previews: they read, and keep nothing.
- The parsing of evidence, templates, password hashing and the contents of
  tokens, argument parsing: no state of their own, or third-party code.

## 7. Plan

Each module of section 2 is checked, and proved but for what section 4 lists as
model-checked only. What could follow is in section 6: a Redis restart that
delivers a job again, once the program says what should happen then, and
sources of several files in dfirlab.

## 8. Running

`tlc -config <cfg> <module>` with the pairs under `runs` in `PROJECT.json`;
`tlapm` with each of the eight modules whose names end in `_proofs`. Every run ends within five minutes on two cores.
