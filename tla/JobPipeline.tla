----------------------------- MODULE JobPipeline -----------------------------
(***************************************************************************)
(* The life of the jobs of one case: POST /api/cases/{case_id}/jobs        *)
(* (api/routes/cases.py, core/jobs.py), the Redis queue, and the work      *)
(* horses that run execute_module_task (worker.py), over the job row in    *)
(* the database and the case's chain_of_custody.log (CustodyFile).         *)
(*                                                                         *)
(* The row is inserted, the job is pushed on the queue, and only then is   *)
(* the row committed; a handler or a horse can be stopped between any two  *)
(* steps; the log is written after the commits, and failures to write it   *)
(* are swallowed.  A handler is identified by its job.  Scripts call       *)
(* enqueue_job themselves (demo.py), without the handler's checks and log. *)
(***************************************************************************)
EXTENDS Naturals, Sequences, FiniteSets

CONSTANTS
  Jobs,            \* job ids; each is the subject of at most one request
  Workers,         \* rq worker processes
  Requests,        \* the requests clients may send
  ForeignKeys,     \* TRUE for Postgres, FALSE for the default SQLite
  MaxFaults,       \* bound on crashes and I/O errors in a behaviour
  MaxEntries       \* bound on the custody log

VARIABLES
  req,             \* the request about each job
  api,             \* where its handler, or the script, is
  row,             \* committed jobs.status, "none" without a row
  why,             \* kind of jobs.error_message
  audited,         \* jobs with a committed job.submit audit row
  queue,           \* Redis list of the default queue
  rqFailed,        \* RQ's FailedJobRegistry
  lost,            \* history: ids dropped by a Redis restart
  hpc,             \* where the work horse of each worker is
  hjob,            \* the job it was given
  faults,          \* crashes and I/O errors so far
  log, torn, appending, tail, overlapped       \* see CustodyFile

custodyVars == <<log, torn, appending, tail, overlapped>>
apiVars == <<req, api, audited>>
dbVars == <<row, why>>
redisVars == <<queue, rqFailed, lost>>
horseVars == <<hpc, hjob>>
vars == <<apiVars, dbVars, redisVars, horseVars, faults, custodyVars>>

NoJob == "no_job"

JobStatus == {"PENDING", "RUNNING", "COMPLETED", "FAILED"}

LogActions == {"job.enqueue", "job.complete", "job.failed"}
LogBodies == [action : LogActions, job : Jobs]

Custody ==
  INSTANCE CustodyFile WITH Writers <- Jobs \cup Workers, Bodies <- LogBodies

-----------------------------------------------------------------------------
\* The table of create_case_job.
module_requires_evidence ==
  [m \in {"inventory", "strings", "timeline", "parse_text", "exif", "triage",
          "yara", "pcap", "evtx", "registry", "browser", "email", "bulk",
          "carve", "verify", "report"} |-> m # "report"]

\* The names that ensure_modules_registered registers.
MODULE_REGISTRY ==
  {"inventory", "strings", "timeline", "parse_text", "exif", "triage", "yara",
   "pcap", "evtx", "registry", "browser", "email", "bulk", "carve", "verify",
   "report"}

\* ForensicModule.requires_evidence, overridden by ReportModule only.
requires_evidence(m) == m \notin {"report"}

Request ==
  [via : {"api", "script"},
   module : DOMAIN module_requires_evidence \cup {"unsupported"},
   case : {"row", "no_row"},               \* is there such a case?
   evidence : {"none", "row", "no_row"}]   \* no id, or is there such evidence?

\* The modules look their own subject up: the evidence, or the report its case.
SubjectMissing(r) ==
  IF r.module = "report" THEN r.case = "no_row" ELSE r.evidence # "row"

ASSUME RequestsAssumption == Requests \subseteq Request
ASSUME NamesAssumption == Jobs \cap Workers = {} /\ NoJob \notin Jobs
ASSUME BoundsAssumption == MaxFaults \in Nat /\ MaxEntries \in Nat \ {0}

ApiEnd == {"refused", "error", "crashed", "done"}
ApiPc == {"new", "validated", "flushed", "enqueued", "committed", "appending",
          "logged"} \cup ApiEnd
HorsePc == {"idle", "lookup", "setup", "run", "runaway", "result", "failing",
            "log_complete", "append_complete", "log_failed", "append_failed"}

TypeOK ==
  /\ req \in [Jobs -> Requests]
  /\ api \in [Jobs -> ApiPc]
  /\ row \in [Jobs -> JobStatus \cup {"none"}]
  /\ why \in [Jobs -> {"none", "unknown_module", "missing_evidence", "run"}]
  /\ audited \subseteq Jobs
  /\ queue \in Seq(Jobs)
  /\ rqFailed \subseteq Jobs
  /\ lost \subseteq Jobs
  /\ hpc \in [Workers -> HorsePc]
  /\ hjob \in [Workers -> Jobs \cup {NoJob}]
  /\ \A w \in Workers : hjob[w] = NoJob <=> hpc[w] = "idle"
  /\ faults \in 0..MaxFaults
  /\ Custody!TypeOK

Init ==
  /\ req \in [Jobs -> Requests]
  /\ api = [j \in Jobs |-> "new"]
  /\ row = [j \in Jobs |-> "none"]
  /\ why = [j \in Jobs |-> "none"]
  /\ audited = {}
  /\ queue = <<>>
  /\ rqFailed = {}
  /\ lost = {}
  /\ hpc = [w \in Workers |-> "idle"]
  /\ hjob = [w \in Workers |-> NoJob]
  /\ faults = 0
  /\ Custody!Init

Fault ==
  /\ faults < MaxFaults
  /\ faults' = faults + 1

-----------------------------------------------------------------------------
(* The handler of POST /api/cases/{case_id}/jobs, or a script.              *)

ApiStep(j, from, to) ==
  /\ api[j] = from
  /\ api' = [api EXCEPT ![j] = to]
  /\ UNCHANGED <<req, horseVars>>

\* Mutant: the check of line 157 is missing.
Accepted_NoEvidenceCheck(r) == r.module \in DOMAIN module_requires_evidence

Accepted(r) ==
  /\ r.module \in DOMAIN module_requires_evidence
  /\ module_requires_evidence[r.module] => r.evidence # "none"

\* Lines 154-159: the 400 answers.
Submit(j) ==
  /\ req[j].via = "api"
  /\ ApiStep(j, "new", IF Accepted(req[j]) THEN "validated" ELSE "refused")
  /\ UNCHANGED <<audited, dbVars, redisVars, faults, custodyVars>>

\* demo.py:96: a script calls enqueue_job with whatever it likes.
ScriptSubmit(j) ==
  /\ req[j].via = "script"
  /\ ApiStep(j, "new", "validated")
  /\ UNCHANGED <<audited, dbVars, redisVars, faults, custodyVars>>

\* session.add and flush in enqueue_job.  Postgres checks the foreign keys of
\* the row here; the answer is then 500.
KeysHold(r) == ~ForeignKeys \/ (r.case = "row" /\ r.evidence # "no_row")

InsertRow(j) ==
  /\ ApiStep(j, "validated", IF KeysHold(req[j]) THEN "flushed" ELSE "error")
  /\ UNCHANGED <<audited, dbVars, redisVars, faults, custodyVars>>

\* q.enqueue in enqueue_job: a worker can take the job from now on.
Enqueue(j) ==
  /\ ApiStep(j, "flushed", "enqueued")
  /\ queue' = Append(queue, j)
  /\ UNCHANGED <<audited, dbVars, rqFailed, lost, faults, custodyVars>>

\* session.commit in create_case_job: the row becomes visible.  A script is done.
CommitRow(j) ==
  /\ ApiStep(j, "enqueued", IF req[j].via = "api" THEN "committed" ELSE "done")
  /\ row' = [row EXCEPT ![j] = "PENDING"]
  /\ UNCHANGED <<audited, why, redisVars, faults, custodyVars>>

\* The database or Redis fails in one of the three steps above: 500, and the
\* session is closed without a commit.
SubmissionFails(j) ==
  /\ Fault
  /\ \E pc \in {"validated", "flushed", "enqueued"} : ApiStep(j, pc, "error")
  /\ UNCHANGED <<audited, dbVars, redisVars, custodyVars>>

\* append_entry of job.enqueue; what it raises is swallowed.
ApiReadTail(j) ==
  /\ ApiStep(j, "committed", IF torn THEN "logged" ELSE "appending")
  /\ IF torn THEN UNCHANGED custodyVars ELSE Custody!ReadTail(j)
  /\ UNCHANGED <<audited, dbVars, redisVars, faults>>

ApiWriteEntry(j) ==
  /\ ApiStep(j, "appending", "logged")
  /\ Custody!WriteEntry(j, [action |-> "job.enqueue", job |-> j])
  /\ UNCHANGED <<audited, dbVars, redisVars, faults>>

ApiAppendFails(j) ==
  /\ Fault
  /\ ApiStep(j, "appending", "logged")
  /\ Custody!AbandonAppend(j) \/ Custody!TearLine(j)
  /\ UNCHANGED <<audited, dbVars, redisVars>>

\* The audit row and its commit, then the answer.
Audit(j) ==
  /\ ApiStep(j, "logged", "done")
  /\ audited' = audited \cup {j}
  /\ UNCHANGED <<dbVars, redisVars, faults, custodyVars>>

AuditFails(j) ==
  /\ Fault
  /\ ApiStep(j, "logged", "done")
  /\ UNCHANGED <<audited, dbVars, redisVars, custodyVars>>

\* What a process that dies was appending is abandoned.
DropAppend(p) ==
  IF p \in appending THEN Custody!AbandonAppend(p) ELSE UNCHANGED custodyVars

\* The API process dies under the request; an open transaction is rolled back.
ApiCrash(j) ==
  /\ Fault
  /\ \E pc \in ApiPc \ ({"new"} \cup ApiEnd) : ApiStep(j, pc, "crashed")
  /\ DropAppend(j)
  /\ UNCHANGED <<audited, dbVars, redisVars>>

-----------------------------------------------------------------------------
(* The work horse: execute_module_task(job_id), as RQ runs it.              *)

HorseStep(w, from, to) ==
  /\ hpc[w] = from
  /\ hpc' = [hpc EXCEPT ![w] = to]
  /\ UNCHANGED <<apiVars, hjob>>

\* The horse ends and its worker is free again.
Release(w, from) ==
  /\ hpc[w] = from
  /\ hpc' = [hpc EXCEPT ![w] = "idle"]
  /\ hjob' = [hjob EXCEPT ![w] = NoJob]
  /\ UNCHANGED apiVars

\* Mutant: a failed job is not filed.
ReleaseFailed_NotFiled(w, from) == Release(w, from) /\ UNCHANGED redisVars

\* Mutant: the job is enqueued with a Retry, and runs again.
ReleaseFailed_Requeues(w, from) ==
  /\ Release(w, from)
  /\ queue' = Append(queue, hjob[w])
  /\ UNCHANGED <<rqFailed, lost>>

\* The task raises or its horse dies: RQ files the job as failed.  No retry is
\* configured and no failure handler updates the row.
ReleaseFailed(w, from) ==
  /\ Release(w, from)
  /\ rqFailed' = rqFailed \cup {hjob[w]}
  /\ UNCHANGED <<queue, lost>>

SetRow(w, status, reason) ==
  /\ row' = [row EXCEPT ![hjob[w]] = status]
  /\ why' = [why EXCEPT ![hjob[w]] = reason]

\* Worker.work: the first job of the queue goes to a free worker.
Dequeue(w) ==
  /\ hpc[w] = "idle"
  /\ queue # <<>>
  /\ queue' = Tail(queue)
  /\ hpc' = [hpc EXCEPT ![w] = "lookup"]
  /\ hjob' = [hjob EXCEPT ![w] = Head(queue)]
  /\ UNCHANGED <<apiVars, dbVars, rqFailed, lost, faults, custodyVars>>

\* Mutant: the task returns quietly when it finds no row.
RecordMissing_Returns(w) ==
  /\ hpc[w] = "lookup"
  /\ row[hjob[w]] = "none"
  /\ Release(w, "lookup")
  /\ UNCHANGED <<dbVars, redisVars, faults, custodyVars>>

\* session.get finds no committed row: ValueError.
RecordMissing(w) ==
  /\ hpc[w] = "lookup"
  /\ row[hjob[w]] = "none"
  /\ ReleaseFailed(w, "lookup")
  /\ UNCHANGED <<dbVars, faults, custodyVars>>

\* The row is committed as RUNNING.
StartJob(w) ==
  /\ hpc[w] = "lookup"
  /\ row[hjob[w]] # "none"
  /\ HorseStep(w, "lookup", "setup")
  /\ SetRow(w, "RUNNING", why[hjob[w]])
  /\ UNCHANGED <<redisVars, faults, custodyVars>>

UnknownModule(w) == req[hjob[w]].module \notin MODULE_REGISTRY
MissingEvidence(w) ==
  requires_evidence(req[hjob[w]].module) /\ req[hjob[w]].evidence = "none"

\* Lines 154-170: the job is failed without an entry in the custody log.
RejectJob(w) ==
  /\ hpc[w] = "setup"
  /\ UnknownModule(w) \/ MissingEvidence(w)
  /\ ReleaseFailed(w, "setup")
  /\ SetRow(w, "FAILED", IF UnknownModule(w) THEN "unknown_module"
                                             ELSE "missing_evidence")
  /\ UNCHANGED <<faults, custodyVars>>

\* Limits and the 900 s alarm are set, and the module starts.
BeginRun(w) ==
  /\ hpc[w] = "setup"
  /\ ~UnknownModule(w) /\ ~MissingEvidence(w)
  /\ HorseStep(w, "setup", "run")
  /\ UNCHANGED <<dbVars, redisVars, faults, custodyVars>>

\* mod.run returns a dict that can be stored; it may well say "failed".
RunReturns(w) ==
  /\ HorseStep(w, "run", "result")
  /\ ~SubjectMissing(req[hjob[w]])
  /\ UNCHANGED <<dbVars, redisVars, faults, custodyVars>>

\* mod.run raises, the alarm's _Timeout included, or its result cannot be stored.
RunRaises(w) ==
  /\ HorseStep(w, "run", "failing")
  /\ UNCHANGED <<dbVars, redisVars, faults, custodyVars>>

\* The alarm fires once and the module swallows it, or native code defers it: no
\* timer of the horse is left, RQ's own having been replaced by signal.alarm.
RunOverruns(w) ==
  /\ HorseStep(w, "run", "runaway")
  /\ ~SubjectMissing(req[hjob[w]])
  /\ UNCHANGED <<dbVars, redisVars, faults, custodyVars>>

\* A module that outlived the alarm may still come back, or never.
RunawayEnds(w) ==
  /\ HorseStep(w, "runaway", "result") \/ HorseStep(w, "runaway", "failing")
  /\ UNCHANGED <<dbVars, redisVars, faults, custodyVars>>

\* Mutant: the job is enqueued without a timeout.
KillRunaway_NoTimeout(w) == FALSE

\* RQ's worker kills a horse that outlives job_timeout="1h" by a minute.
KillRunaway(w) ==
  /\ ReleaseFailed(w, "runaway")
  /\ UNCHANGED <<dbVars, faults, custodyVars>>

\* Mutant: the custody entry is written before the row is committed.
CommitCompleted_AfterLog(w) ==
  /\ HorseStep(w, "result", "log_complete")
  /\ UNCHANGED <<dbVars, redisVars, faults, custodyVars>>

CommitCompleted(w) ==
  /\ HorseStep(w, "result", "log_complete")
  /\ SetRow(w, "COMPLETED", "none")
  /\ UNCHANGED <<redisVars, faults, custodyVars>>

\* Mutant: the except clause raises before it has logged.
CommitFailed_Raises(w) ==
  /\ ReleaseFailed(w, "failing")
  /\ SetRow(w, "FAILED", "run")
  /\ UNCHANGED <<faults, custodyVars>>

CommitFailed(w) ==
  /\ HorseStep(w, "failing", "log_failed")
  /\ SetRow(w, "FAILED", "run")
  /\ UNCHANGED <<redisVars, faults, custodyVars>>

\* A commit fails.  After one of RUNNING or FAILED the exception leaves the task;
\* after one of COMPLETED the handler's own commit fails on the same session.
WorkerCommitFails(w) ==
  /\ Fault
  /\ \/ hpc[w] = "lookup" /\ row[hjob[w]] # "none"
     \/ hpc[w] = "setup" /\ (UnknownModule(w) \/ MissingEvidence(w))
     \/ hpc[w] \in {"result", "failing"}
  /\ ReleaseFailed(w, hpc[w])
  /\ UNCHANGED <<dbVars, custodyVars>>

\* The task is over: it returns after "job.complete", and raises again after
\* "job.failed".
EndTask(w, from) ==
  IF from \in {"log_complete", "append_complete"}
  THEN Release(w, from) /\ UNCHANGED redisVars
  ELSE ReleaseFailed(w, from)

HorseReadTail(w) ==
  /\ ~torn
  /\ \/ HorseStep(w, "log_complete", "append_complete")
     \/ HorseStep(w, "log_failed", "append_failed")
  /\ Custody!ReadTail(w)
  /\ UNCHANGED <<dbVars, redisVars, faults>>

\* append_entry raises on a torn log, which is swallowed.
HorseLogUnreadable(w) ==
  /\ torn
  /\ hpc[w] \in {"log_complete", "log_failed"}
  /\ EndTask(w, hpc[w])
  /\ UNCHANGED <<dbVars, faults, custodyVars>>

HorseWriteEntry(w) ==
  /\ hpc[w] \in {"append_complete", "append_failed"}
  /\ Custody!WriteEntry(w,
       [action |-> IF hpc[w] = "append_complete" THEN "job.complete"
                                                 ELSE "job.failed",
        job |-> hjob[w]])
  /\ EndTask(w, hpc[w])
  /\ UNCHANGED <<dbVars, faults>>

HorseAppendFails(w) ==
  /\ Fault
  /\ hpc[w] \in {"append_complete", "append_failed"}
  /\ Custody!AbandonAppend(w) \/ Custody!TearLine(w)
  /\ EndTask(w, hpc[w])
  /\ UNCHANGED dbVars

\* The horse dies: out of memory, RLIMIT_CPU, a container that is stopped.
KillHorse(w) ==
  /\ Fault
  /\ hpc[w] # "idle"
  /\ ReleaseFailed(w, hpc[w])
  /\ DropAppend(w)
  /\ UNCHANGED dbVars

\* Redis restarts from a snapshot older than everything it holds.
LoseQueue ==
  /\ Fault
  /\ queue # <<>> \/ rqFailed # {}
  /\ lost' = lost \cup rqFailed \cup {queue[i] : i \in 1..Len(queue)}
  /\ queue' = <<>>
  /\ rqFailed' = {}
  /\ UNCHANGED <<apiVars, dbVars, horseVars, custodyVars>>

-----------------------------------------------------------------------------
ApiNext(j) ==
  \/ Submit(j) \/ ScriptSubmit(j) \/ InsertRow(j) \/ Enqueue(j) \/ CommitRow(j)
  \/ ApiReadTail(j) \/ ApiWriteEntry(j) \/ Audit(j)

HorseNext(w) ==
  \/ RecordMissing(w) \/ StartJob(w) \/ RejectJob(w) \/ BeginRun(w)
  \/ RunReturns(w) \/ RunRaises(w) \/ RunOverruns(w) \/ KillRunaway(w)
  \/ CommitCompleted(w) \/ CommitFailed(w)
  \/ HorseReadTail(w) \/ HorseLogUnreadable(w) \/ HorseWriteEntry(w)

ApiFaults(j) ==
  SubmissionFails(j) \/ ApiAppendFails(j) \/ AuditFails(j) \/ ApiCrash(j)

HorseFaults(w) == WorkerCommitFails(w) \/ HorseAppendFails(w) \/ KillHorse(w)

Next ==
  \/ \E j \in Jobs : ApiNext(j) \/ ApiFaults(j)
  \/ \E w \in Workers : Dequeue(w) \/ HorseNext(w) \/ RunawayEnds(w) \/ HorseFaults(w)
  \/ LoseQueue

Spec == Init /\ [][Next]_vars

\* Handlers and horses that are not stopped keep running, and a free worker polls
\* the queue.  A module run comes to an end or meets the alarm; one that outlives
\* the alarm need not come back, but RQ's worker kills it.  Faults need not happen.
Fairness ==
  /\ \A j \in Jobs : WF_vars(ApiNext(j))
  /\ \A w \in Workers : WF_vars(Dequeue(w)) /\ WF_vars(HorseNext(w))

FairSpec == Spec /\ Fairness

-----------------------------------------------------------------------------
Queued(j) == \E i \in 1..Len(queue) : queue[i] = j
Held(j) == \E w \in Workers : hjob[w] = j
Logged(action, j) ==
  \E i \in 1..Len(log) : log[i].body = [action |-> action, job |-> j]

\* The custody log never contradicts the database: it claims an enqueue only of
\* a committed job, an outcome only while the row says the same, and nothing twice.
TruthfulLog ==
  \A j \in Jobs :
    /\ Logged("job.enqueue", j) => row[j] # "none"
    /\ Logged("job.complete", j) => row[j] = "COMPLETED"
    /\ Logged("job.failed", j) => row[j] = "FAILED"
    /\ \A i, k \in 1..Len(log) : log[i].body = log[k].body => i = k

\* A run that ended is missing from the log only after a crash or an I/O error,
\* although two workers and the handlers append at the same time.
RunsAreLogged ==
  faults = 0 =>
    \A j \in Jobs :
      ~Held(j) /\ (row[j] = "COMPLETED" \/ (row[j] = "FAILED" /\ why[j] = "run")) =>
        Logged(IF row[j] = "COMPLETED" THEN "job.complete" ELSE "job.failed", j)

\* A job that is committed, not completed and in nobody's hands is still in the
\* queue, or RQ's failed registry has it, unless a Redis restart dropped it: the
\* operator can find every stranded PENDING or RUNNING row there.
StrandedIsFiled ==
  \A j \in Jobs :
    row[j] \in {"PENDING", "RUNNING", "FAILED"} /\ ~Queued(j) /\ ~Held(j)
      => j \in rqFailed \cup lost

\* A row takes each step of its life once, and COMPLETED and FAILED are final,
\* although execute_module_task never looks at the status it overwrites.
StatusOrder ==
  [][\A j \in Jobs :
       row'[j] # row[j] =>
         <<row[j], row'[j]>> \in
           {<<"none", "PENDING">>, <<"PENDING", "RUNNING">>,
            <<"RUNNING", "COMPLETED">>, <<"RUNNING", "FAILED">>}]_vars

\* Where Redis and the workers have a job; one that none of them has was not pushed
\* yet, or is completed.
Place(j) ==
  IF Queued(j) THEN "queued"
  ELSE IF Held(j) THEN "taken"
  ELSE IF j \in rqFailed THEN "filed"
  ELSE IF j \in lost THEN "lost"
  ELSE IF row[j] = "COMPLETED" THEN "over"
  ELSE "outside"

Delivery ==
  INSTANCE JobDelivery WITH place <- [j \in Jobs |-> Place(j)], status <- row

\* Handlers, Redis and workers, with a row that may be committed after a worker has
\* looked for it, deliver a job once and give up none of them unfiled.
ImplementsDelivery == Delivery!Spec

\* What the API accepts, the worker does not reject: the table of
\* create_case_job and the worker's registry agree on names and on evidence.
AcceptedIsRunnable ==
  \A j \in Jobs :
    req[j].via = "api" => why[j] \notin {"unknown_module", "missing_evidence"}

\* Every worker gets rid of the job it took: none is blocked for ever by a
\* module that swallows its timeout.
WorkerFreed ==
  \A w \in Workers : hpc[w] # "idle" ~> hpc[w] = "idle"

\* A committed job is completed or failed in the end, or is filed by RQ or lost
\* by Redis.
JobSettles ==
  \A j \in Jobs :
    row[j] = "PENDING" ~>
      (row[j] \in {"COMPLETED", "FAILED"} \/ j \in rqFailed \cup lost)

-----------------------------------------------------------------------------
\* README.md:78, "append-only, hash-chained chain_of_custody.log per case": the
\* log of a case verifies.
LogVerifies == Custody!verify_chain(log)
=============================================================================
