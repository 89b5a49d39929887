-------------------------- MODULE JobPipeline_proofs --------------------------
(***************************************************************************)
(* Proofs about JobPipeline, for any jobs, workers, requests and bounds:   *)
(*                                                                         *)
(*   PipelineTypeCorrect      Spec => []TypeOK                             *)
(*   PipelineRefinesFile      Spec => Custody!Spec                         *)
(*   PipelineLinksKnown       Spec => []Custody!EveryLinkKnown             *)
(*   LogIsTruthful            Spec => []TruthfulLog                        *)
(*   EveryRunLogged           Spec => []RunsAreLogged                      *)
(*   AcceptedRuns             Spec => []AcceptedIsRunnable                 *)
(*   StrandedAreFiled         Spec => []StrandedIsFiled                    *)
(*   StatusInOrder            Spec => StatusOrder                          *)
(*   PipelineRefinesDelivery  Spec => ImplementsDelivery                   *)
(***************************************************************************)
EXTENDS JobPipeline, SequenceTheorems, TLAPS

\* What is proved of CustodyFile, for the log of this module.
File ==
  INSTANCE Custody_proofs WITH Writers <- Jobs \cup Workers, Bodies <- LogBodies

\* Who is appending: the handlers and the horses at that point.
Appenders ==
  /\ \A j \in Jobs : j \in appending <=> api[j] = "appending"
  /\ \A w \in Workers : w \in appending <=> hpc[w] \in {"append_complete", "append_failed"}

\* A row is there from the handler's commit on.
RowFollowsHandler ==
  \A j \in Jobs :
    /\ api[j] \in {"new", "refused", "validated", "flushed", "enqueued", "error"} =>
         row[j] = "none"
    /\ api[j] \in {"committed", "appending", "logged", "done"} => row[j] # "none"

\* The row says where the horse of its job is.
RowFollowsHorse ==
  \A w \in Workers :
    /\ hpc[w] = "lookup" => row[hjob[w]] \in {"none", "PENDING"}
    /\ hpc[w] \in {"setup", "run", "runaway", "result", "failing"} =>
         row[hjob[w]] = "RUNNING"
    /\ hpc[w] \in {"log_complete", "append_complete"} => row[hjob[w]] = "COMPLETED"
    /\ hpc[w] \in {"log_failed", "append_failed"} =>
         row[hjob[w]] = "FAILED" /\ why[hjob[w]] = "run"

\* A job is in the queue or in one worker's hands, once, and only after its handler
\* has put it there.
Distinct == \A i, k \in 1..Len(queue) : queue[i] = queue[k] => i = k
Alone == \A v, w \in Workers : hjob[v] = hjob[w] /\ hjob[v] # NoJob => v = w
QueuedIsFresh == \A j \in Jobs : Queued(j) => ~Held(j) /\ row[j] \in {"none", "PENDING"}
NotYetPushed ==
  \A j \in Jobs :
    api[j] \in {"new", "refused", "validated", "flushed"} => ~Queued(j) /\ ~Held(j)

\* What the API has let through is what the worker can run.
AcceptedByApi ==
  \A j \in Jobs :
    req[j].via = "api" /\ api[j] \notin {"new", "refused"} => Accepted(req[j])

\* A job that was enqueued and is no longer delivered is filed, or lost, or done.
Filed ==
  \A j \in Jobs :
    (api[j] = "enqueued" \/ row[j] # "none") /\ ~Queued(j) /\ ~Held(j) =>
      row[j] = "COMPLETED" \/ j \in rqFailed \cup lost

\* Handlers and horses write their entry after the row, and once: then they leave.
LogFollows ==
  \A j \in Jobs :
    /\ Logged("job.enqueue", j) =>
         row[j] # "none" /\ api[j] \in {"logged", "done", "crashed"}
    /\ Logged("job.complete", j) => row[j] = "COMPLETED" /\ ~Held(j)
    /\ Logged("job.failed", j) => row[j] = "FAILED" /\ ~Held(j)

\* Without faults no line is torn, so that nobody is kept from appending.
Faultless == faults = 0 => ~torn

PipelineInv ==
  /\ TypeOK /\ Appenders /\ RowFollowsHandler /\ RowFollowsHorse /\ Distinct
  /\ Alone /\ QueuedIsFresh /\ NotYetPushed /\ AcceptedByApi /\ AcceptedIsRunnable
  /\ Filed /\ LogFollows /\ File!EachOnce /\ Faultless /\ RunsAreLogged

-----------------------------------------------------------------------------
\* Both instances of CustodyFile are one.
LEMMA SameFile ==
  /\ Custody!TypeOK <=> File!TypeOK
  /\ Custody!Init <=> File!Init
  /\ Custody!Next <=> File!Next
  /\ Custody!vars = File!vars
  /\ Custody!EveryLinkKnown <=> File!EveryLinkKnown
  /\ \A p, b : Custody!WriteEntry(p, b) <=> File!WriteEntry(p, b)
BY DEF Custody!TypeOK, File!TypeOK, Custody!Init, File!Init, Custody!Next, File!Next,
  Custody!vars, File!vars, Custody!EveryLinkKnown, File!EveryLinkKnown,
  Custody!ReadTail, File!ReadTail, Custody!WriteEntry, File!WriteEntry,
  Custody!AbandonAppend, File!AbandonAppend, Custody!TearLine, File!TearLine,
  Custody!PowerLoss, File!PowerLoss, Custody!EndAppend, File!EndAppend,
  Custody!NewEntry, File!NewEntry, Custody!last_entry_hash, File!last_entry_hash,
  Custody!compute_entry_hash, File!compute_entry_hash,
  Custody!GENESIS_HASH, File!GENESIS_HASH, Custody!CustodyEntry, File!CustodyEntry,
  Custody!Hashes, File!Hashes

LEMMA SameTypes == Custody!TypeOK' <=> File!TypeOK'
BY DEF Custody!TypeOK, File!TypeOK, Custody!CustodyEntry, File!CustodyEntry,
  Custody!Hashes, File!Hashes, Custody!GENESIS_HASH, File!GENESIS_HASH

\* The job of a busy worker.
LEMMA Busy ==
  ASSUME TypeOK, NEW w \in Workers
  PROVE  /\ hjob[w] = NoJob <=> hpc[w] = "idle"
         /\ hpc[w] # "idle" => hjob[w] \in Jobs /\ Held(hjob[w])
         /\ NoJob \notin Jobs
BY NamesAssumption DEF TypeOK, Held

\* Each step of a handler or a horse is a step of the log, or leaves the log alone.
LEMMA StepOfLog == TypeOK /\ [Next]_vars => [Custody!Next]_Custody!vars
<1> SUFFICES ASSUME TypeOK, [Next]_vars PROVE [Custody!Next]_Custody!vars
  OBVIOUS
<1> USE DEF custodyVars, Custody!vars, LogBodies, LogActions
<1>1. ASSUME NEW j \in Jobs, ApiReadTail(j) PROVE [Custody!Next]_Custody!vars
  BY <1>1 DEF ApiReadTail, Custody!Next
<1>2. ASSUME NEW j \in Jobs, ApiWriteEntry(j) PROVE [Custody!Next]_Custody!vars
  BY <1>2 DEF ApiWriteEntry, Custody!Next
<1>3. ASSUME NEW j \in Jobs, ApiAppendFails(j) \/ ApiCrash(j)
      PROVE  [Custody!Next]_Custody!vars
  BY <1>3 DEF ApiAppendFails, ApiCrash, DropAppend, Custody!Next
<1>4. ASSUME NEW w \in Workers, HorseReadTail(w) PROVE [Custody!Next]_Custody!vars
  BY <1>4 DEF HorseReadTail, Custody!Next
<1>5. ASSUME NEW w \in Workers, HorseWriteEntry(w) PROVE [Custody!Next]_Custody!vars
  <2>1. hjob[w] \in Jobs
    BY <1>5, Busy DEF HorseWriteEntry
  <2> QED BY <1>5, <2>1 DEF HorseWriteEntry, Custody!Next
<1>6. ASSUME NEW w \in Workers, HorseAppendFails(w) \/ KillHorse(w)
      PROVE  [Custody!Next]_Custody!vars
  BY <1>6 DEF HorseAppendFails, KillHorse, DropAppend, Custody!Next
<1>7. CASE UNCHANGED custodyVars
  BY <1>7
<1> QED
  BY <1>1, <1>2, <1>3, <1>4, <1>5, <1>6, <1>7
  DEF Next, ApiNext, ApiFaults, HorseNext, HorseFaults, vars, Submit, ScriptSubmit,
      InsertRow, Enqueue, CommitRow, SubmissionFails, Audit, AuditFails, Dequeue,
      RecordMissing, StartJob, RejectJob, BeginRun, RunReturns, RunRaises, RunOverruns,
      RunawayEnds, KillRunaway, CommitCompleted, CommitFailed, WorkerCommitFails,
      HorseLogUnreadable, LoseQueue

\* A push on the queue.
LEMMA Pushed ==
  ASSUME queue \in Seq(Jobs), NEW j \in Jobs, queue' = Append(queue, j)
  PROVE  /\ queue' \in Seq(Jobs)
         /\ \A k : Queued(k)' <=> Queued(k) \/ k = j
         /\ Distinct /\ ~Queued(j) => Distinct'
<1>1. Len(queue) \in Nat
  BY LenProperties
<1>2. /\ queue' \in Seq(Jobs) /\ Len(queue') = Len(queue) + 1
      /\ \A i \in 1..Len(queue) : queue'[i] = queue[i]
      /\ queue'[Len(queue) + 1] = j
  BY AppendProperties
<1>3. \A i \in 1..Len(queue') : i \in 1..Len(queue) \/ i = Len(queue) + 1
  BY <1>1, <1>2
<1>4. \A k : Queued(k)' <=> Queued(k) \/ k = j
  BY <1>1, <1>2, <1>3 DEF Queued
<1>5. Distinct /\ ~Queued(j) => Distinct'
  BY <1>1, <1>2, <1>3 DEF Queued, Distinct
<1> QED BY <1>2, <1>4, <1>5

\* The first job is taken from the queue.
LEMMA Popped ==
  ASSUME queue \in Seq(Jobs), queue # <<>>, queue' = Tail(queue)
  PROVE  /\ queue' \in Seq(Jobs)
         /\ Head(queue) \in Jobs /\ Queued(Head(queue))
         /\ \A k : Queued(k) <=> Queued(k)' \/ k = Head(queue)
         /\ Distinct => Distinct' /\ \A k : k = Head(queue) => ~Queued(k)'
<1>1. Len(queue) \in Nat \ {0}
  BY EmptySeq, LenProperties
<1>2. /\ queue' \in Seq(Jobs) /\ Len(queue') = Len(queue) - 1
      /\ \A i \in 1..Len(queue') : queue'[i] = queue[i + 1]
      /\ Head(queue) = queue[1] /\ Head(queue) \in Jobs
  BY HeadTailProperties
<1>3. \A i \in 1..Len(queue) : i = 1 \/ i - 1 \in 1..Len(queue')
  BY <1>1, <1>2
<1>4. \A i \in 1..Len(queue) : i = 1 \/ queue[i] = queue'[i - 1]
  BY <1>1, <1>2, <1>3
<1>5. \A i \in 1..Len(queue') : i + 1 \in 1..Len(queue)
  BY <1>1, <1>2
<1>6. \A k : Queued(k) <=> Queued(k)' \/ k = Head(queue)
  BY <1>1, <1>2, <1>3, <1>4, <1>5 DEF Queued
<1>7. Distinct => Distinct'
  BY <1>1, <1>2, <1>5 DEF Distinct
<1>8. Distinct => \A k : k = Head(queue) => ~Queued(k)'
  <2> SUFFICES ASSUME Distinct, NEW i \in 1..Len(queue'), queue'[i] = queue[1]
               PROVE  FALSE
    BY <1>2 DEF Queued
  <2>1. i + 1 \in 1..Len(queue) /\ 1 \in 1..Len(queue) /\ queue[i + 1] = queue[1]
    BY <1>1, <1>2, <1>5
  <2>2. i + 1 = 1
    BY <2>1 DEF Distinct
  <2> QED BY <1>2, <2>2
<1> QED BY <1>1, <1>2, <1>6, <1>7, <1>8

\* A queue that stays has the same jobs in it.
LEMMA QueueStays ==
  ASSUME queue' = queue
  PROVE  (Distinct' <=> Distinct) /\ \A k : Queued(k)' <=> Queued(k)
BY DEF Distinct, Queued

\* Workers that keep their jobs, and one that gives its job up.
LEMMA HandsStay ==
  ASSUME hjob' = hjob
  PROVE  \A k : Held(k)' <=> Held(k)
BY DEF Held

LEMMA Released ==
  ASSUME TypeOK, Alone, NEW w \in Workers, hpc[w] # "idle",
         hjob' = [hjob EXCEPT ![w] = NoJob]
  PROVE  \A k \in Jobs : Held(k)' <=> Held(k) /\ k # hjob[w]
<1>1. hjob \in [Workers -> Jobs \cup {NoJob}] /\ NoJob \notin Jobs
  BY NamesAssumption DEF TypeOK
<1> QED BY <1>1 DEF Held, Alone

LEMMA Taken ==
  ASSUME TypeOK, NEW w \in Workers, hpc[w] = "idle", NEW j \in Jobs,
         hjob' = [hjob EXCEPT ![w] = j]
  PROVE  \A k \in Jobs : Held(k)' <=> Held(k) \/ k = j
<1>1. /\ hjob \in [Workers -> Jobs \cup {NoJob}] /\ NoJob \notin Jobs
      /\ hjob[w] = NoJob
  BY NamesAssumption DEF TypeOK
<1> QED BY <1>1 DEF Held

\* A log that stays has the same entries in it.
LEMMA LogStays ==
  ASSUME log' = log
  PROVE  (File!EachOnce' <=> File!EachOnce) /\ \A a, k : Logged(a, k)' <=> Logged(a, k)
BY DEF Logged, File!EachOnce

\* An append adds its entry to those in the log, or a torn line hides it.
LEMMA LogGrows ==
  ASSUME Custody!TypeOK, NEW p \in Jobs \cup Workers, NEW a \in LogActions,
         NEW j \in Jobs, Custody!WriteEntry(p, [action |-> a, job |-> j])
  PROVE  /\ torn' = torn
         /\ ~torn => Logged(a, j)'
         /\ \A c, k : Logged(c, k) => Logged(c, k)'
         /\ \A c, k : Logged(c, k)' => Logged(c, k) \/ (c = a /\ k = j)
         /\ File!EachOnce /\ ~Logged(a, j) => File!EachOnce'
<1> DEFINE b == [action |-> a, job |-> j]
<1>1. b \in LogBodies
  BY DEF LogBodies
<1>2. File!TypeOK /\ File!WriteEntry(p, b)
  BY SameFile
<1>3. \A c, k : Logged(c, k) <=> File!InFile([action |-> c, job |-> k])
  BY DEF Logged, File!InFile
<1>4. \A c, k : Logged(c, k)' <=> File!InFile([action |-> c, job |-> k])'
  BY DEF Logged, File!InFile
<1>5. \A c, k : [action |-> c, job |-> k] = b => c = a /\ k = j
  OBVIOUS
<1> HIDE DEF b
<1>6. /\ torn' = torn
      /\ ~torn => File!InFile(b)'
      /\ \A d : File!InFile(d) => File!InFile(d)'
      /\ \A d : File!InFile(d)' => File!InFile(d) \/ d = b
      /\ File!EachOnce /\ ~File!InFile(b) => File!EachOnce'
  BY <1>1, <1>2, File!FileGrows, BoundsAssumption
<1>7. b = [action |-> a, job |-> j]
  BY DEF b
<1> QED BY <1>3, <1>4, <1>5, <1>6, <1>7

\* The entry a handler writes, and the one a horse writes.
LEMMA HandlerLogs ==
  ASSUME TypeOK, NEW j \in Jobs, ApiWriteEntry(j)
  PROVE  /\ torn' = torn
         /\ \A c, k : Logged(c, k) => Logged(c, k)'
         /\ \A c, k : Logged(c, k)' => Logged(c, k) \/ (c = "job.enqueue" /\ k = j)
         /\ File!EachOnce /\ ~Logged("job.enqueue", j) => File!EachOnce'
<1>1. Custody!WriteEntry(j, [action |-> "job.enqueue", job |-> j])
  BY DEF ApiWriteEntry
<1>2. "job.enqueue" \in LogActions /\ Custody!TypeOK
  BY DEF LogActions, TypeOK
<1> QED BY <1>1, <1>2, LogGrows

Outcome(w) == IF hpc[w] = "append_complete" THEN "job.complete" ELSE "job.failed"

LEMMA HorseLogs ==
  ASSUME TypeOK, NEW w \in Workers, HorseWriteEntry(w)
  PROVE  /\ torn' = torn
         /\ ~torn => \A c, k : c = Outcome(w) /\ k = hjob[w] => Logged(c, k)'
         /\ \A c, k : Logged(c, k) => Logged(c, k)'
         /\ \A c, k : Logged(c, k)' => Logged(c, k) \/ (c = Outcome(w) /\ k = hjob[w])
         /\ File!EachOnce /\ ~Logged(Outcome(w), hjob[w]) => File!EachOnce'
<1>1. Custody!WriteEntry(w, [action |-> Outcome(w), job |-> hjob[w]])
  BY DEF HorseWriteEntry, Outcome
<1>2. Outcome(w) \in LogActions /\ Custody!TypeOK
  BY DEF LogActions, TypeOK, Outcome
<1>3. hjob[w] \in Jobs /\ w \in Jobs \cup Workers
  BY Busy DEF HorseWriteEntry
<1> QED BY <1>1, <1>2, <1>3, LogGrows

\* What the API accepts is in the registry, with the evidence its module requires.
LEMMA AcceptedInRegistry ==
  ASSUME NEW r, Accepted(r)
  PROVE  /\ r.module \in MODULE_REGISTRY
         /\ requires_evidence(r.module) => r.evidence # "none"
BY DEF Accepted, module_requires_evidence, MODULE_REGISTRY, requires_evidence

\* The faults are counted.
Faulted == faults' \in 1..MaxFaults

LEMMA FaultsCount ==
  /\ TypeOK /\ Fault => Faulted
  /\ Faulted => faults' # 0 /\ faults' \in 0..MaxFaults
<1>1. TypeOK => faults \in 0..MaxFaults
  BY DEF TypeOK
<1> QED BY <1>1, BoundsAssumption DEF Fault, Faulted

-----------------------------------------------------------------------------
\* The steps of a handler or a horse that only move it, and end an append of its own
\* or begin one.
Appends(p, now) ==
  /\ p \in appending' <=> now
  /\ \A q \in Jobs \cup Workers : q # p => (q \in appending' <=> q \in appending)

HandlerTable ==
  {<<"new", "refused">>, <<"new", "validated">>, <<"validated", "flushed">>,
   <<"committed", "appending">>, <<"committed", "logged">>, <<"appending", "logged">>,
   <<"logged", "done">>}
  \cup {"validated", "flushed", "enqueued"} \X {"error"}
  \cup (ApiPc \ ({"new"} \cup ApiEnd)) \X {"crashed"}

HandlerMoves(j, to) ==
  /\ <<api[j], to>> \in HandlerTable
  /\ api' = [api EXCEPT ![j] = to]
  /\ to = "validated" /\ req[j].via = "api" => Accepted(req[j])
  /\ Appends(j, to = "appending")
  /\ torn' = torn \/ Faulted
  /\ faults' = faults \/ Faulted
  /\ audited' \subseteq Jobs
  /\ UNCHANGED <<req, row, why, queue, rqFailed, lost, hpc, hjob, log>>

HorseTable ==
  {<<"setup", "run">>, <<"run", "result">>, <<"run", "failing">>, <<"run", "runaway">>,
   <<"runaway", "result">>, <<"runaway", "failing">>,
   <<"log_complete", "append_complete">>, <<"log_failed", "append_failed">>}

HorseMoves(w, to) ==
  /\ <<hpc[w], to>> \in HorseTable
  /\ hpc' = [hpc EXCEPT ![w] = to]
  /\ Appends(w, to \in {"append_complete", "append_failed"})
  /\ UNCHANGED <<apiVars, dbVars, redisVars, hjob, faults, log, torn>>

\* A horse ends without an entry in the log: it has no run to log, or cannot log it.
HorseLeaves(w) ==
  /\ hpc[w] # "idle"
  /\ hpc' = [hpc EXCEPT ![w] = "idle"]
  /\ hjob' = [hjob EXCEPT ![w] = NoJob]
  /\ \/ rqFailed' = rqFailed \cup {hjob[w]}
     \/ hpc[w] \in {"log_complete", "append_complete"} /\ rqFailed' = rqFailed
  /\ \/ Faulted
     \/ faults' = faults /\ (torn \/ row[hjob[w]] = "none" \/ hpc[w] = "runaway")
  /\ torn' = torn \/ Faulted
  /\ Appends(w, FALSE)
  /\ UNCHANGED <<apiVars, dbVars, queue, lost, log>>

\* The kinds of steps that matter to the invariant.
Shape ==
  \/ \E j \in Jobs :
       (\E to \in ApiPc : HandlerMoves(j, to)) \/ Enqueue(j) \/ CommitRow(j) \/ ApiWriteEntry(j)
  \/ \E w \in Workers :
       \/ (\E to \in HorsePc : HorseMoves(w, to)) \/ HorseLeaves(w)
       \/ Dequeue(w) \/ StartJob(w) \/ RejectJob(w) \/ CommitCompleted(w) \/ CommitFailed(w)
       \/ HorseWriteEntry(w)
  \/ LoseQueue
  \/ UNCHANGED vars

\* Every step is one of them.
LEMMA Shapes == TypeOK /\ Appenders /\ [Next]_vars => Shape
<1> SUFFICES ASSUME TypeOK, Appenders, [Next]_vars PROVE Shape
  OBVIOUS
<1>0. /\ Fault => Faulted
      /\ Jobs \cap Workers = {}
  BY FaultsCount, NamesAssumption
<1>00. /\ api \in [Jobs -> ApiPc] /\ hpc \in [Workers -> HorsePc]
       /\ appending \subseteq Jobs \cup Workers /\ audited \subseteq Jobs
  BY DEF TypeOK, Custody!TypeOK
<1> USE DEF apiVars, dbVars, redisVars, horseVars, custodyVars, Appends, Appenders
<1>1. ASSUME NEW j \in Jobs, Submit(j) PROVE \E to \in ApiPc : HandlerMoves(j, to)
  <2>1. HandlerMoves(j, IF Accepted(req[j]) THEN "validated" ELSE "refused")
    BY <1>1, <1>0, <1>00 DEF Submit, ApiStep, HandlerMoves, HandlerTable, ApiPc,
        ApiEnd
  <2> QED BY <2>1 DEF ApiPc, ApiEnd
<1>2. ASSUME NEW j \in Jobs, ScriptSubmit(j) PROVE \E to \in ApiPc : HandlerMoves(j, to)
  <2>1. HandlerMoves(j, "validated")
    BY <1>2, <1>0, <1>00 DEF ScriptSubmit, ApiStep, HandlerMoves, HandlerTable,
        ApiPc, ApiEnd
  <2> QED BY <2>1 DEF ApiPc, ApiEnd
<1>3. ASSUME NEW j \in Jobs, InsertRow(j) PROVE \E to \in ApiPc : HandlerMoves(j, to)
  <2>1. HandlerMoves(j, IF KeysHold(req[j]) THEN "flushed" ELSE "error")
    BY <1>3, <1>0, <1>00 DEF InsertRow, ApiStep, HandlerMoves, HandlerTable, ApiPc,
        ApiEnd
  <2> QED BY <2>1 DEF ApiPc, ApiEnd
<1>4. ASSUME NEW j \in Jobs, SubmissionFails(j) PROVE \E to \in ApiPc : HandlerMoves(j, to)
  <2>1. HandlerMoves(j, "error")
    BY <1>4, <1>0, <1>00 DEF SubmissionFails, ApiStep, Fault, HandlerMoves,
        HandlerTable, ApiPc, ApiEnd
  <2> QED BY <2>1 DEF ApiPc, ApiEnd
<1>5. ASSUME NEW j \in Jobs, ApiReadTail(j) PROVE \E to \in ApiPc : HandlerMoves(j, to)
  <2>1. HandlerMoves(j, IF torn THEN "logged" ELSE "appending")
    BY <1>5, <1>0, <1>00 DEF ApiReadTail, ApiStep, Custody!ReadTail, HandlerMoves,
        HandlerTable, ApiPc, ApiEnd
  <2> QED BY <2>1 DEF ApiPc, ApiEnd
<1>6. ASSUME NEW j \in Jobs, ApiAppendFails(j) PROVE \E to \in ApiPc : HandlerMoves(j, to)
  <2>1. HandlerMoves(j, "logged")
    BY <1>6, <1>0, <1>00 DEF ApiAppendFails, ApiStep, Fault, Custody!AbandonAppend,
        Custody!TearLine, Custody!EndAppend, HandlerMoves, HandlerTable, ApiPc,
        ApiEnd
  <2> QED BY <2>1 DEF ApiPc, ApiEnd
<1>7. ASSUME NEW j \in Jobs, Audit(j) PROVE \E to \in ApiPc : HandlerMoves(j, to)
  <2>1. HandlerMoves(j, "done")
    BY <1>7, <1>0, <1>00 DEF Audit, ApiStep, HandlerMoves, HandlerTable, ApiPc,
        ApiEnd
  <2> QED BY <2>1 DEF ApiPc, ApiEnd
<1>8. ASSUME NEW j \in Jobs, AuditFails(j) PROVE \E to \in ApiPc : HandlerMoves(j, to)
  <2>1. HandlerMoves(j, "done")
    BY <1>8, <1>0, <1>00 DEF AuditFails, ApiStep, Fault, HandlerMoves, HandlerTable,
        ApiPc, ApiEnd
  <2> QED BY <2>1 DEF ApiPc, ApiEnd
<1>9. ASSUME NEW j \in Jobs, ApiCrash(j) PROVE \E to \in ApiPc : HandlerMoves(j, to)
  <2>1. HandlerMoves(j, "crashed")
    BY <1>9, <1>0, <1>00 DEF ApiCrash, ApiStep, Fault, DropAppend,
        Custody!AbandonAppend, Custody!EndAppend, HandlerMoves, HandlerTable, ApiPc,
        ApiEnd
  <2> QED BY <2>1 DEF ApiPc, ApiEnd
<1>10. ASSUME NEW w \in Workers, RecordMissing(w) PROVE HorseLeaves(w)
  BY <1>10, <1>0, <1>00 DEF RecordMissing, Release, ReleaseFailed, HorseLeaves
<1>11. ASSUME NEW w \in Workers, BeginRun(w) PROVE HorseMoves(w, "run")
  BY <1>11, <1>0, <1>00 DEF BeginRun, HorseStep, HorseMoves, HorseTable
<1>12. ASSUME NEW w \in Workers, RunReturns(w) PROVE HorseMoves(w, "result")
  BY <1>12, <1>0, <1>00 DEF RunReturns, HorseStep, HorseMoves, HorseTable
<1>13. ASSUME NEW w \in Workers, RunRaises(w) PROVE HorseMoves(w, "failing")
  BY <1>13, <1>0, <1>00 DEF RunRaises, HorseStep, HorseMoves, HorseTable
<1>14. ASSUME NEW w \in Workers, RunOverruns(w) PROVE HorseMoves(w, "runaway")
  BY <1>14, <1>0, <1>00 DEF RunOverruns, HorseStep, HorseMoves, HorseTable
<1>15. ASSUME NEW w \in Workers, RunawayEnds(w)
     PROVE HorseMoves(w, "result") \/ HorseMoves(w, "failing")
  BY <1>15, <1>0, <1>00 DEF RunawayEnds, HorseStep, HorseMoves, HorseTable
<1>16. ASSUME NEW w \in Workers, KillRunaway(w) PROVE HorseLeaves(w)
  BY <1>16, <1>0, <1>00 DEF KillRunaway, Release, ReleaseFailed, HorseLeaves
<1>17. ASSUME NEW w \in Workers, WorkerCommitFails(w) PROVE HorseLeaves(w)
  <2>1. Appends(w, FALSE) /\ log' = log /\ hpc[w] # "idle"
    BY <1>17, <1>0, <1>00 DEF WorkerCommitFails
  <2>2. Faulted
    BY <1>17, <1>0 DEF WorkerCommitFails
  <2>3. /\ hpc' = [hpc EXCEPT ![w] = "idle"] /\ hjob' = [hjob EXCEPT ![w] = NoJob]
        /\ UNCHANGED <<apiVars, dbVars, queue, lost>>
        /\ \/ rqFailed' = rqFailed \cup {hjob[w]}
           \/ hpc[w] \in {"log_complete", "append_complete"} /\ rqFailed' = rqFailed
    BY <1>17 DEF WorkerCommitFails, Release, ReleaseFailed
  <2> QED BY <2>1, <2>2, <2>3 DEF HorseLeaves
<1>18. ASSUME NEW w \in Workers, HorseReadTail(w)
     PROVE HorseMoves(w, "append_complete") \/ HorseMoves(w, "append_failed")
  BY <1>18, <1>0, <1>00 DEF HorseReadTail, HorseStep, Custody!ReadTail, HorseMoves,
      HorseTable
<1>19. ASSUME NEW w \in Workers, HorseLogUnreadable(w) PROVE HorseLeaves(w)
  BY <1>19, <1>0, <1>00 DEF HorseLogUnreadable, EndTask, Release, ReleaseFailed,
      HorseLeaves
<1>20. ASSUME NEW w \in Workers, HorseAppendFails(w) PROVE HorseLeaves(w)
  <2>1. Appends(w, FALSE) /\ log' = log /\ hpc[w] # "idle"
    BY <1>20, <1>0, <1>00 DEF HorseAppendFails, Custody!AbandonAppend,
        Custody!TearLine, Custody!EndAppend
  <2>2. Faulted
    BY <1>20, <1>0 DEF HorseAppendFails
  <2>3. /\ hpc' = [hpc EXCEPT ![w] = "idle"] /\ hjob' = [hjob EXCEPT ![w] = NoJob]
        /\ UNCHANGED <<apiVars, dbVars, queue, lost>>
        /\ \/ rqFailed' = rqFailed \cup {hjob[w]}
           \/ hpc[w] \in {"log_complete", "append_complete"} /\ rqFailed' = rqFailed
    BY <1>20 DEF HorseAppendFails, EndTask, Release, ReleaseFailed
  <2> QED BY <2>1, <2>2, <2>3 DEF HorseLeaves
<1>21. ASSUME NEW w \in Workers, KillHorse(w) PROVE HorseLeaves(w)
  <2>1. Appends(w, FALSE) /\ log' = log /\ hpc[w] # "idle"
    BY <1>21, <1>0, <1>00 DEF KillHorse, DropAppend, Custody!AbandonAppend,
        Custody!EndAppend
  <2>2. Faulted
    BY <1>21, <1>0 DEF KillHorse
  <2>3. /\ hpc' = [hpc EXCEPT ![w] = "idle"] /\ hjob' = [hjob EXCEPT ![w] = NoJob]
        /\ UNCHANGED <<apiVars, dbVars, queue, lost>>
        /\ \/ rqFailed' = rqFailed \cup {hjob[w]}
           \/ hpc[w] \in {"log_complete", "append_complete"} /\ rqFailed' = rqFailed
    BY <1>21 DEF KillHorse, Release, ReleaseFailed
  <2> QED BY <2>1, <2>2, <2>3 DEF HorseLeaves
<1> QED BY <1>1, <1>2, <1>3, <1>4, <1>5, <1>6, <1>7, <1>8, <1>9, <1>10, <1>11,
     <1>12, <1>13, <1>14, <1>15, <1>16, <1>17, <1>18, <1>19, <1>20, <1>21 DEF Shape,
     HorsePc, Next, ApiNext, ApiFaults, HorseNext, HorseFaults

-----------------------------------------------------------------------------
\* What each kind of step does to the queue, to the workers' hands and to the log.
SameQueue == (Distinct' <=> Distinct) /\ \A k : Queued(k)' <=> Queued(k)
SameHands == \A k : Held(k)' <=> Held(k)
SameLog == (File!EachOnce' <=> File!EachOnce) /\ \A a, k : Logged(a, k)' <=> Logged(a, k)
Frees(w) == \A k \in Jobs : Held(k)' <=> Held(k) /\ k # hjob[w]

LEMMA AfterHandlerMoves ==
  ASSUME NEW j \in Jobs, NEW to \in ApiPc, HandlerMoves(j, to)
  PROVE  /\ SameQueue /\ SameHands /\ SameLog
         /\ api' = [api EXCEPT ![j] = to]
         /\ to \in {"refused", "validated"} <=> api[j] = "new" /\ to # "crashed"
         /\ to = "flushed" => api[j] = "validated"
         /\ to = "error" => api[j] \in {"validated", "flushed", "enqueued"}
         /\ to \in {"appending", "logged", "done"} =>
              api[j] \in {"committed", "appending", "logged"}
         /\ to \notin {"new", "enqueued", "committed"}
         /\ api[j] \notin {"refused", "error", "crashed", "done"}
         /\ api[j] = "logged" => to \in {"done", "crashed"}
         /\ api[j] = "new" => to # "crashed"
         /\ to = "validated" /\ req[j].via = "api" => Accepted(req[j])
         /\ faults' = 0 => faults = 0 /\ torn' = torn
         /\ UNCHANGED <<req, row, why, rqFailed, lost, hpc, hjob>>
<1>1. SameQueue /\ SameHands /\ SameLog
  BY QueueStays, HandsStay, LogStays DEF HandlerMoves, SameQueue, SameHands, SameLog
<1>2. <<api[j], to>> \in HandlerTable
  BY DEF HandlerMoves
<1>3. faults' = 0 => faults = 0 /\ torn' = torn
  BY FaultsCount DEF HandlerMoves
<1> QED BY <1>1, <1>2, <1>3 DEF HandlerMoves, HandlerTable, ApiPc, ApiEnd

LEMMA AfterEnqueue ==
  ASSUME TypeOK, NEW j \in Jobs, Enqueue(j)
  PROVE  /\ SameHands /\ SameLog
         /\ \A k : Queued(k)' <=> Queued(k) \/ k = j
         /\ Distinct /\ ~Queued(j) => Distinct'
         /\ api[j] = "flushed" /\ api' = [api EXCEPT ![j] = "enqueued"]
         /\ UNCHANGED <<req, row, why, rqFailed, lost, hpc, hjob, torn, faults>>
<1> USE DEF Enqueue, ApiStep, apiVars, dbVars, horseVars, custodyVars
<1>1. SameHands /\ SameLog
  BY HandsStay, LogStays DEF SameHands, SameLog
<1>2. queue \in Seq(Jobs) /\ queue' = Append(queue, j)
  BY DEF TypeOK
<1> QED BY <1>1, <1>2, Pushed

LEMMA AfterCommitRow ==
  ASSUME NEW j \in Jobs, CommitRow(j)
  PROVE  /\ SameQueue /\ SameHands /\ SameLog
         /\ api[j] = "enqueued"
         /\ \E to \in {"committed", "done"} : api' = [api EXCEPT ![j] = to]
         /\ row' = [row EXCEPT ![j] = "PENDING"]
         /\ UNCHANGED <<req, why, rqFailed, lost, hpc, hjob, torn, faults>>
<1> USE DEF CommitRow, ApiStep, apiVars, redisVars, horseVars, custodyVars
<1>1. SameQueue /\ SameHands /\ SameLog
  BY QueueStays, HandsStay, LogStays DEF SameQueue, SameHands, SameLog
<1> QED BY <1>1

LEMMA AfterApiWriteEntry ==
  ASSUME TypeOK, NEW j \in Jobs, ApiWriteEntry(j)
  PROVE  /\ SameQueue /\ SameHands
         /\ \A a, k : Logged(a, k) => Logged(a, k)'
         /\ \A a, k : Logged(a, k)' => Logged(a, k) \/ (a = "job.enqueue" /\ k = j)
         /\ File!EachOnce /\ ~Logged("job.enqueue", j) => File!EachOnce'
         /\ api[j] = "appending" /\ api' = [api EXCEPT ![j] = "logged"]
         /\ UNCHANGED <<req, row, why, rqFailed, lost, hpc, hjob, torn, faults>>
<1>1. SameQueue /\ SameHands
  BY QueueStays, HandsStay
  DEF SameQueue, SameHands, ApiWriteEntry, ApiStep, redisVars, horseVars
<1> QED
  BY <1>1, HandlerLogs DEF ApiWriteEntry, ApiStep, dbVars, redisVars, horseVars

LEMMA AfterHorseMoves ==
  ASSUME NEW w \in Workers, NEW to \in HorsePc, HorseMoves(w, to)
  PROVE  /\ SameQueue /\ SameHands /\ SameLog
         /\ hpc' = [hpc EXCEPT ![w] = to]
         /\ hpc[w] # "idle" /\ to \notin {"idle", "lookup", "setup"}
         /\ to \in {"run", "runaway", "result", "failing"} =>
              hpc[w] \in {"setup", "run", "runaway"}
         /\ to = "append_complete" => hpc[w] = "log_complete"
         /\ to = "append_failed" => hpc[w] = "log_failed"
         /\ to \notin {"log_complete", "log_failed"}
         /\ UNCHANGED <<req, api, row, why, rqFailed, lost, hjob, torn, faults>>
<1> USE DEF HorseMoves, apiVars, dbVars, redisVars
<1>1. SameQueue /\ SameHands /\ SameLog
  BY QueueStays, HandsStay, LogStays DEF SameQueue, SameHands, SameLog
<1>2. <<hpc[w], to>> \in HorseTable
  OBVIOUS
<1> QED BY <1>1, <1>2 DEF HorseTable

LEMMA AfterHorseLeaves ==
  ASSUME TypeOK, Alone, NEW w \in Workers, HorseLeaves(w)
  PROVE  /\ SameQueue /\ Frees(w) /\ SameLog
         /\ hpc[w] # "idle" /\ hpc' = [hpc EXCEPT ![w] = "idle"]
         /\ hjob' = [hjob EXCEPT ![w] = NoJob]
         /\ \/ rqFailed' = rqFailed \cup {hjob[w]}
            \/ hpc[w] \in {"log_complete", "append_complete"} /\ rqFailed' = rqFailed
         /\ faults' = 0 =>
              /\ faults = 0 /\ torn' = torn
              /\ torn \/ row[hjob[w]] = "none" \/ hpc[w] = "runaway"
         /\ UNCHANGED <<req, api, row, why, lost>>
<1> USE DEF HorseLeaves, apiVars, dbVars
<1>1. SameQueue /\ Frees(w) /\ SameLog
  BY QueueStays, Released, LogStays DEF SameQueue, Frees, SameLog
<1>2. faults' = 0 =>
        /\ faults = 0 /\ torn' = torn
        /\ torn \/ row[hjob[w]] = "none" \/ hpc[w] = "runaway"
  BY FaultsCount
<1> QED BY <1>1, <1>2

LEMMA AfterDequeue ==
  ASSUME TypeOK, NEW w \in Workers, Dequeue(w)
  PROVE  \E j \in Jobs :
           /\ Queued(j) /\ \A k : Queued(k) <=> Queued(k)' \/ k = j
           /\ Distinct => Distinct' /\ ~Queued(j)'
           /\ \A k \in Jobs : Held(k)' <=> Held(k) \/ k = j
           /\ SameLog
           /\ hpc[w] = "idle" /\ hpc' = [hpc EXCEPT ![w] = "lookup"]
           /\ hjob' = [hjob EXCEPT ![w] = j]
           /\ UNCHANGED <<req, api, row, why, rqFailed, lost, torn, faults>>
<1>1. queue \in Seq(Jobs) /\ queue # <<>> /\ queue' = Tail(queue)
  BY DEF TypeOK, Dequeue
<1>2. PICK j \in Jobs :
        /\ j = Head(queue) /\ Queued(j) /\ \A k : Queued(k) <=> Queued(k)' \/ k = j
        /\ Distinct => Distinct' /\ ~Queued(j)'
  BY <1>1, Popped
<1>3. hpc[w] = "idle" /\ hjob' = [hjob EXCEPT ![w] = j]
  BY <1>2 DEF Dequeue
<1>4. \A k \in Jobs : Held(k)' <=> Held(k) \/ k = j
  BY <1>3, Taken
<1>5. SameLog
  BY LogStays DEF SameLog, Dequeue, custodyVars
<1> QED BY <1>2, <1>3, <1>4, <1>5 DEF Dequeue, apiVars, dbVars, custodyVars

\* The three commits of a horse that goes on.
RowStep(w, from, status, to) ==
  /\ hpc[w] = from /\ hpc' = [hpc EXCEPT ![w] = to]
  /\ row' = [row EXCEPT ![hjob[w]] = status]
  /\ UNCHANGED <<req, api, rqFailed, lost, hjob, torn, faults>>

LEMMA AfterCommit ==
  ASSUME NEW w \in Workers, StartJob(w) \/ CommitCompleted(w) \/ CommitFailed(w)
  PROVE  /\ SameQueue /\ SameHands /\ SameLog
         /\ StartJob(w) =>
              /\ RowStep(w, "lookup", "RUNNING", "setup") /\ row[hjob[w]] # "none"
              /\ why' = [why EXCEPT ![hjob[w]] = why[hjob[w]]]
         /\ CommitCompleted(w) =>
              /\ RowStep(w, "result", "COMPLETED", "log_complete")
              /\ why' = [why EXCEPT ![hjob[w]] = "none"]
         /\ CommitFailed(w) =>
              /\ RowStep(w, "failing", "FAILED", "log_failed")
              /\ why' = [why EXCEPT ![hjob[w]] = "run"]
<1> USE DEF StartJob, CommitCompleted, CommitFailed, HorseStep, SetRow, RowStep, apiVars,
            redisVars, custodyVars
<1>1. SameQueue /\ SameHands /\ SameLog
  BY QueueStays, HandsStay, LogStays DEF SameQueue, SameHands, SameLog
<1> QED BY <1>1

LEMMA AfterRejectJob ==
  ASSUME TypeOK, Alone, NEW w \in Workers, RejectJob(w)
  PROVE  /\ SameQueue /\ Frees(w) /\ SameLog
         /\ UnknownModule(w) \/ MissingEvidence(w)
         /\ hpc[w] = "setup" /\ hpc' = [hpc EXCEPT ![w] = "idle"]
         /\ hjob' = [hjob EXCEPT ![w] = NoJob]
         /\ row' = [row EXCEPT ![hjob[w]] = "FAILED"]
         /\ \E r \in {"unknown_module", "missing_evidence"} :
              why' = [why EXCEPT ![hjob[w]] = r]
         /\ rqFailed' = rqFailed \cup {hjob[w]}
         /\ UNCHANGED <<req, api, lost, torn, faults>>
<1> USE DEF RejectJob, Release, ReleaseFailed, SetRow, apiVars, custodyVars
<1>1. SameQueue /\ Frees(w) /\ SameLog
  BY QueueStays, Released, LogStays DEF SameQueue, Frees, SameLog
<1> QED BY <1>1

LEMMA AfterHorseWriteEntry ==
  ASSUME TypeOK, Alone, NEW w \in Workers, HorseWriteEntry(w)
  PROVE  /\ SameQueue /\ Frees(w)
         /\ ~torn => \A c, k : c = Outcome(w) /\ k = hjob[w] => Logged(c, k)'
         /\ \A c, k : Logged(c, k) => Logged(c, k)'
         /\ \A c, k : Logged(c, k)' => Logged(c, k) \/ (c = Outcome(w) /\ k = hjob[w])
         /\ File!EachOnce /\ ~Logged(Outcome(w), hjob[w]) => File!EachOnce'
         /\ hpc[w] \in {"append_complete", "append_failed"}
         /\ hpc' = [hpc EXCEPT ![w] = "idle"]
         /\ hjob' = [hjob EXCEPT ![w] = NoJob]
         /\ \/ rqFailed' = rqFailed \cup {hjob[w]}
            \/ hpc[w] = "append_complete" /\ rqFailed' = rqFailed
         /\ UNCHANGED <<req, api, row, why, lost, torn, faults>>
<1>1. /\ hpc[w] \in {"append_complete", "append_failed"}
      /\ hpc' = [hpc EXCEPT ![w] = "idle"]
      /\ hjob' = [hjob EXCEPT ![w] = NoJob]
      /\ \/ rqFailed' = rqFailed \cup {hjob[w]}
         \/ hpc[w] = "append_complete" /\ rqFailed' = rqFailed
      /\ UNCHANGED <<req, api, row, why, queue, lost, faults>>
  BY DEF HorseWriteEntry, EndTask, Release, ReleaseFailed, apiVars, dbVars, redisVars
<1>2. SameQueue /\ Frees(w)
  BY <1>1, QueueStays, Released DEF SameQueue, Frees
<1> QED BY <1>1, <1>2, HorseLogs

LEMMA AfterLoseQueue ==
  ASSUME TypeOK, LoseQueue
  PROVE  /\ Distinct' /\ \A k : ~Queued(k)'
         /\ SameHands /\ SameLog /\ faults' # 0
         /\ \A k : Queued(k) => k \in lost'
         /\ rqFailed \cup lost \subseteq lost'
         /\ UNCHANGED <<req, api, row, why, hpc, hjob, torn>>
<1> USE DEF LoseQueue, apiVars, dbVars, horseVars, custodyVars
<1>1. 1..Len(queue') = {}
  OBVIOUS
<1>2. SameHands /\ SameLog
  BY HandsStay, LogStays DEF SameHands, SameLog
<1>3. faults' # 0
  BY FaultsCount
<1> QED BY <1>1, <1>2, <1>3 DEF Queued, Distinct

LEMMA AfterStutter ==
  ASSUME UNCHANGED vars
  PROVE  /\ SameQueue /\ SameHands /\ SameLog
         /\ UNCHANGED <<req, api, row, why, rqFailed, lost, hpc, hjob, torn, faults>>
<1> USE DEF vars, apiVars, dbVars, redisVars, horseVars, custodyVars
<1>1. SameQueue /\ SameHands /\ SameLog
  BY QueueStays, HandsStay, LogStays DEF SameQueue, SameHands, SameLog
<1> QED BY <1>1

-----------------------------------------------------------------------------
\* The first state has the invariant.
LEMMA PipelineStart == Init => PipelineInv
<1> SUFFICES ASSUME Init PROVE PipelineInv
  OBVIOUS
<1>1. Custody!TypeOK
  BY SameFile, File!TypeInit, BoundsAssumption DEF Init
<1>2. 1..Len(log) = {} /\ 1..Len(queue) = {} /\ queue \in Seq(Jobs)
  <2>1. log = <<>> /\ queue = <<>>
    BY DEF Init, Custody!Init
  <2>2. Len(<<>>) = 0 /\ 1..0 = {} /\ <<>> \in Seq(Jobs)
    BY EmptySeq
  <2> QED BY <2>1, <2>2
<1>3. (\A a, j : ~Logged(a, j)) /\ (\A j : ~Queued(j)) /\ Distinct /\ File!EachOnce
  BY <1>2 DEF Logged, Queued, Distinct, File!EachOnce
<1>4. \A j \in Jobs : ~Held(j)
  BY NamesAssumption DEF Init, Held
<1>5. TypeOK
  <2>1. /\ api \in [Jobs -> ApiPc] /\ row \in [Jobs -> JobStatus \cup {"none"}]
        /\ why \in [Jobs -> {"none", "unknown_module", "missing_evidence", "run"}]
    BY DEF Init, ApiPc
  <2>2. /\ hpc \in [Workers -> HorsePc] /\ hjob \in [Workers -> Jobs \cup {NoJob}]
        /\ \A w \in Workers : hjob[w] = NoJob <=> hpc[w] = "idle"
    BY DEF Init, HorsePc
  <2>3. faults \in 0..MaxFaults
    <3>1. faults = 0
      BY DEF Init
    <3> QED BY <3>1, BoundsAssumption
  <2> QED BY <1>1, <1>2, <2>1, <2>2, <2>3 DEF Init, TypeOK
<1> QED
  BY <1>3, <1>4, <1>5
  DEF Init, Custody!Init, PipelineInv, Appenders, RowFollowsHandler, RowFollowsHorse,
    Alone, QueuedIsFresh, NotYetPushed, AcceptedByApi, AcceptedIsRunnable, Filed, LogFollows, Faultless,
    RunsAreLogged

\* The variables keep their types.
LEMMA TypesStay == TypeOK /\ Appenders /\ [Next]_vars => TypeOK'
<1> SUFFICES ASSUME TypeOK /\ Appenders, [Next]_vars PROVE TypeOK'
  OBVIOUS
<1>a. Shape
  BY Shapes
<1>b. Custody!TypeOK'
  <2>1. File!TypeOK /\ [File!Next]_File!vars
    BY StepOfLog, SameFile DEF TypeOK, Custody!vars, File!vars
  <2>2. File!TypeOK'
    BY <2>1, File!TypeStep, BoundsAssumption
  <2> QED BY <2>2, SameTypes
<1>c. /\ \A w \in Workers : hpc[w] # "idle" => hjob[w] \in Jobs
      /\ NoJob \notin Jobs
      /\ Faulted \/ Fault => faults' \in 0..MaxFaults
  BY Busy, FaultsCount, NamesAssumption
<1>d. <<>> \in Seq(Jobs) /\ {queue[i] : i \in 1..Len(queue)} \subseteq Jobs
  <2>1. queue \in Seq(Jobs)
    BY DEF TypeOK
  <2> QED BY <2>1, EmptySeq, ElementOfSeq
<1> USE DEF TypeOK, JobStatus, apiVars, dbVars, redisVars, horseVars, custodyVars
<1>1. ASSUME NEW j \in Jobs, NEW to \in ApiPc, HandlerMoves(j, to) PROVE TypeOK'
  BY <1>1, <1>b, <1>c DEF HandlerMoves, HandlerTable, ApiPc, ApiEnd
<1>2. ASSUME NEW j \in Jobs, Enqueue(j) PROVE TypeOK'
  BY <1>2, <1>b, <1>c, Pushed DEF Enqueue, ApiStep, ApiPc
<1>3. ASSUME NEW j \in Jobs, CommitRow(j) PROVE TypeOK'
  BY <1>3, <1>b, <1>c DEF CommitRow, ApiStep, ApiPc, ApiEnd
<1>4. ASSUME NEW j \in Jobs, ApiWriteEntry(j) PROVE TypeOK'
  BY <1>4, <1>b, <1>c DEF ApiWriteEntry, ApiStep, ApiPc
<1>5. ASSUME NEW w \in Workers, NEW to \in HorsePc, HorseMoves(w, to) PROVE TypeOK'
  BY <1>5, <1>b, <1>c DEF HorseMoves, HorseTable
<1>6. ASSUME NEW w \in Workers, HorseLeaves(w) PROVE TypeOK'
  BY <1>6, <1>b, <1>c DEF HorseLeaves, HorsePc
<1>7. ASSUME NEW w \in Workers, Dequeue(w) PROVE TypeOK'
  BY <1>7, <1>b, <1>c, Popped DEF Dequeue, HorsePc
<1>8. ASSUME NEW w \in Workers, StartJob(w) PROVE TypeOK'
  BY <1>8, <1>b, <1>c DEF StartJob, HorseStep, SetRow, HorsePc
<1>9. ASSUME NEW w \in Workers, RejectJob(w) PROVE TypeOK'
  BY <1>9, <1>b, <1>c DEF RejectJob, Release, ReleaseFailed, SetRow, HorsePc
<1>10. ASSUME NEW w \in Workers, CommitCompleted(w) PROVE TypeOK'
  BY <1>10, <1>b, <1>c DEF CommitCompleted, HorseStep, SetRow, HorsePc
<1>11. ASSUME NEW w \in Workers, CommitFailed(w) PROVE TypeOK'
  BY <1>11, <1>b, <1>c DEF CommitFailed, HorseStep, SetRow, HorsePc
<1>12. ASSUME NEW w \in Workers, HorseWriteEntry(w) PROVE TypeOK'
  BY <1>12, <1>b, <1>c DEF HorseWriteEntry, EndTask, Release, ReleaseFailed, HorsePc
<1>13. ASSUME LoseQueue PROVE TypeOK'
  BY <1>13, <1>b, <1>c, <1>d DEF LoseQueue, Fault
<1>14. CASE UNCHANGED vars
  BY <1>14, <1>b, <1>c DEF vars
<1> QED BY <1>a, <1>1, <1>2, <1>3, <1>4, <1>5, <1>6, <1>7, <1>8, <1>9, <1>10, <1>11,
     <1>12, <1>13, <1>14 DEF Shape

\* Only who is at that point is in append_entry.
LEMMA AppendersStay == PipelineInv /\ [Next]_vars => Appenders'
<1> SUFFICES ASSUME PipelineInv, [Next]_vars PROVE Appenders'
  OBVIOUS
<1>a. TypeOK /\ Alone /\ Appenders
  BY DEF PipelineInv
<1>b. Shape
  BY Shapes DEF PipelineInv
<1>c. /\ api \in [Jobs -> ApiPc]
      /\ hpc \in [Workers -> HorsePc]
      /\ hjob \in [Workers -> Jobs \cup {NoJob}]
      /\ appending \subseteq Jobs \cup Workers
  BY <1>a DEF TypeOK, Custody!TypeOK
<1>d. /\ NoJob \notin Jobs /\ Jobs \cap Workers = {}
      /\ \A w \in Workers : hjob[w] = NoJob <=> hpc[w] = "idle"
      /\ \A w \in Workers : hpc[w] # "idle" => hjob[w] \in Jobs /\ Held(hjob[w])
  BY <1>a, Busy, NamesAssumption
<1> USE DEF Appenders
<1>1. ASSUME NEW j \in Jobs, NEW to \in ApiPc, HandlerMoves(j, to) PROVE Appenders'
  BY <1>1, <1>a, <1>c, <1>d, AfterHandlerMoves DEF HandlerMoves, Appends
<1>2. ASSUME NEW j \in Jobs, Enqueue(j) PROVE Appenders'
  <2>1. UNCHANGED appending
    BY <1>2 DEF Enqueue, custodyVars
  <2> QED BY <1>2, <2>1, <1>a, <1>c, <1>d, AfterEnqueue
<1>3. ASSUME NEW j \in Jobs, CommitRow(j) PROVE Appenders'
  <2>1. UNCHANGED appending
    BY <1>3 DEF CommitRow, custodyVars
  <2> QED BY <1>3, <2>1, <1>a, <1>c, <1>d, AfterCommitRow
<1>4. ASSUME NEW j \in Jobs, ApiWriteEntry(j) PROVE Appenders'
  <2>1. appending' = appending \ {j}
    BY <1>4 DEF ApiWriteEntry, Custody!WriteEntry, Custody!EndAppend
  <2> QED BY <1>4, <2>1, <1>a, <1>c, <1>d, AfterApiWriteEntry
<1>5. ASSUME NEW w \in Workers, NEW to \in HorsePc, HorseMoves(w, to) PROVE Appenders'
  <2>1. Appends(w, to \in {"append_complete", "append_failed"})
    BY <1>5 DEF HorseMoves
  <2>2. hpc' = [hpc EXCEPT ![w] = to] /\ api' = api
    BY <1>5, AfterHorseMoves
  <2> QED BY <2>1, <2>2, <1>a, <1>c, <1>d DEF Appends
<1>6. ASSUME NEW w \in Workers, HorseLeaves(w) PROVE Appenders'
  <2>1. Appends(w, FALSE)
    BY <1>6 DEF HorseLeaves
  <2>2. hpc' = [hpc EXCEPT ![w] = "idle"] /\ api' = api
    BY <1>6, <1>a, AfterHorseLeaves
  <2> QED BY <2>1, <2>2, <1>a, <1>c, <1>d DEF Appends
<1>7. ASSUME NEW w \in Workers, Dequeue(w) PROVE Appenders'
  <2>1. UNCHANGED appending
    BY <1>7 DEF Dequeue, custodyVars
  <2> QED BY <1>7, <2>1, <1>a, <1>c, <1>d, AfterDequeue
<1>8. ASSUME NEW w \in Workers, StartJob(w) PROVE Appenders'
  <2>1. UNCHANGED appending
    BY <1>8 DEF StartJob, custodyVars
  <2> QED BY <1>8, <2>1, <1>a, <1>c, <1>d, AfterCommit DEF RowStep
<1>9. ASSUME NEW w \in Workers, RejectJob(w) PROVE Appenders'
  <2>1. UNCHANGED appending
    BY <1>9 DEF RejectJob, custodyVars
  <2> QED BY <1>9, <2>1, <1>a, <1>c, <1>d, AfterRejectJob
<1>10. ASSUME NEW w \in Workers, CommitCompleted(w) PROVE Appenders'
  <2>1. UNCHANGED appending
    BY <1>10 DEF CommitCompleted, custodyVars
  <2> QED BY <1>10, <2>1, <1>a, <1>c, <1>d, AfterCommit DEF RowStep
<1>11. ASSUME NEW w \in Workers, CommitFailed(w) PROVE Appenders'
  <2>1. UNCHANGED appending
    BY <1>11 DEF CommitFailed, custodyVars
  <2> QED BY <1>11, <2>1, <1>a, <1>c, <1>d, AfterCommit DEF RowStep
<1>12. ASSUME NEW w \in Workers, HorseWriteEntry(w) PROVE Appenders'
  <2>1. appending' = appending \ {w}
    BY <1>12 DEF HorseWriteEntry, Custody!WriteEntry, Custody!EndAppend
  <2>2. hpc' = [hpc EXCEPT ![w] = "idle"] /\ api' = api
    BY <1>12, <1>a, AfterHorseWriteEntry
  <2> QED BY <2>1, <2>2, <1>a, <1>c, <1>d
<1>13. ASSUME LoseQueue PROVE Appenders'
  <2>1. UNCHANGED appending
    BY <1>13 DEF LoseQueue, custodyVars
  <2> QED BY <1>13, <2>1, <1>a, <1>c, <1>d, AfterLoseQueue
<1>14. CASE UNCHANGED vars
  BY <1>14, <1>a, <1>c, <1>d, AfterStutter DEF vars, custodyVars
<1> QED BY <1>b, <1>1, <1>2, <1>3, <1>4, <1>5, <1>6, <1>7, <1>8, <1>9, <1>10, <1>11,
     <1>12, <1>13, <1>14 DEF Shape

\* Horses only touch a row that the handler has committed.
LEMMA RowHandlerStays == PipelineInv /\ [Next]_vars => RowFollowsHandler'
<1> SUFFICES ASSUME PipelineInv, [Next]_vars PROVE RowFollowsHandler'
  OBVIOUS
<1>a. TypeOK /\ Alone /\ RowFollowsHandler /\ RowFollowsHorse
  BY DEF PipelineInv
<1>b. Shape
  BY Shapes DEF PipelineInv
<1>c. /\ api \in [Jobs -> ApiPc]
      /\ row \in [Jobs -> JobStatus \cup {"none"}]
      /\ hpc \in [Workers -> HorsePc]
      /\ hjob \in [Workers -> Jobs \cup {NoJob}]
  BY <1>a DEF TypeOK
<1>d. /\ NoJob \notin Jobs /\ Jobs \cap Workers = {}
      /\ \A w \in Workers : hjob[w] = NoJob <=> hpc[w] = "idle"
      /\ \A w \in Workers : hpc[w] # "idle" => hjob[w] \in Jobs /\ Held(hjob[w])
  BY <1>a, Busy, NamesAssumption
<1> USE DEF RowFollowsHandler, RowFollowsHorse
<1>1. ASSUME NEW j \in Jobs, NEW to \in ApiPc, HandlerMoves(j, to) PROVE RowFollowsHandler'
  BY <1>1, <1>a, <1>c, <1>d, AfterHandlerMoves
<1>2. ASSUME NEW j \in Jobs, Enqueue(j) PROVE RowFollowsHandler'
  BY <1>2, <1>a, <1>c, <1>d, AfterEnqueue
<1>3. ASSUME NEW j \in Jobs, CommitRow(j) PROVE RowFollowsHandler'
  BY <1>3, <1>a, <1>c, <1>d, AfterCommitRow
<1>4. ASSUME NEW j \in Jobs, ApiWriteEntry(j) PROVE RowFollowsHandler'
  BY <1>4, <1>a, <1>c, <1>d, AfterApiWriteEntry
<1>5. ASSUME NEW w \in Workers, NEW to \in HorsePc, HorseMoves(w, to) PROVE RowFollowsHandler'
  BY <1>5, <1>a, <1>c, <1>d, AfterHorseMoves
<1>6. ASSUME NEW w \in Workers, HorseLeaves(w) PROVE RowFollowsHandler'
  BY <1>6, <1>a, <1>c, <1>d, AfterHorseLeaves DEF Frees
<1>7. ASSUME NEW w \in Workers, Dequeue(w) PROVE RowFollowsHandler'
  BY <1>7, <1>a, <1>c, <1>d, AfterDequeue
<1>8. ASSUME NEW w \in Workers, StartJob(w) PROVE RowFollowsHandler'
  BY <1>8, <1>a, <1>c, <1>d, AfterCommit DEF RowStep
<1>9. ASSUME NEW w \in Workers, RejectJob(w) PROVE RowFollowsHandler'
  BY <1>9, <1>a, <1>c, <1>d, AfterRejectJob DEF Frees
<1>10. ASSUME NEW w \in Workers, CommitCompleted(w) PROVE RowFollowsHandler'
  BY <1>10, <1>a, <1>c, <1>d, AfterCommit DEF RowStep
<1>11. ASSUME NEW w \in Workers, CommitFailed(w) PROVE RowFollowsHandler'
  BY <1>11, <1>a, <1>c, <1>d, AfterCommit DEF RowStep
<1>12. ASSUME NEW w \in Workers, HorseWriteEntry(w) PROVE RowFollowsHandler'
  BY <1>12, <1>a, <1>c, <1>d, AfterHorseWriteEntry DEF Frees, Outcome
<1>13. ASSUME LoseQueue PROVE RowFollowsHandler'
  BY <1>13, <1>a, <1>c, <1>d, AfterLoseQueue
<1>14. CASE UNCHANGED vars
  BY <1>14, <1>a, <1>c, <1>d, AfterStutter
<1> QED BY <1>b, <1>1, <1>2, <1>3, <1>4, <1>5, <1>6, <1>7, <1>8, <1>9, <1>10, <1>11,
     <1>12, <1>13, <1>14 DEF Shape

\* No two horses have one job.
LEMMA RowHorseStays == PipelineInv /\ [Next]_vars => RowFollowsHorse'
<1> SUFFICES ASSUME PipelineInv, [Next]_vars PROVE RowFollowsHorse'
  OBVIOUS
<1>a. TypeOK /\ Alone /\ RowFollowsHorse /\ RowFollowsHandler /\ QueuedIsFresh
  BY DEF PipelineInv
<1>b. Shape
  BY Shapes DEF PipelineInv
<1>c. /\ api \in [Jobs -> ApiPc]
      /\ row \in [Jobs -> JobStatus \cup {"none"}]
      /\ why \in [Jobs -> {"none", "unknown_module", "missing_evidence", "run"}]
      /\ hpc \in [Workers -> HorsePc]
      /\ hjob \in [Workers -> Jobs \cup {NoJob}]
  BY <1>a DEF TypeOK
<1>d. /\ NoJob \notin Jobs /\ Jobs \cap Workers = {}
      /\ \A w \in Workers : hjob[w] = NoJob <=> hpc[w] = "idle"
      /\ \A w \in Workers : hpc[w] # "idle" => hjob[w] \in Jobs /\ Held(hjob[w])
  BY <1>a, Busy, NamesAssumption
<1> USE DEF RowFollowsHorse, RowFollowsHandler, Alone, QueuedIsFresh
<1>1. ASSUME NEW j \in Jobs, NEW to \in ApiPc, HandlerMoves(j, to) PROVE RowFollowsHorse'
  BY <1>1, <1>a, <1>c, <1>d, AfterHandlerMoves
<1>2. ASSUME NEW j \in Jobs, Enqueue(j) PROVE RowFollowsHorse'
  BY <1>2, <1>a, <1>c, <1>d, AfterEnqueue
<1>3. ASSUME NEW j \in Jobs, CommitRow(j) PROVE RowFollowsHorse'
  BY <1>3, <1>a, <1>c, <1>d, AfterCommitRow
<1>4. ASSUME NEW j \in Jobs, ApiWriteEntry(j) PROVE RowFollowsHorse'
  BY <1>4, <1>a, <1>c, <1>d, AfterApiWriteEntry
<1>5. ASSUME NEW w \in Workers, NEW to \in HorsePc, HorseMoves(w, to) PROVE RowFollowsHorse'
  BY <1>5, <1>a, <1>c, <1>d, AfterHorseMoves
<1>6. ASSUME NEW w \in Workers, HorseLeaves(w) PROVE RowFollowsHorse'
  BY <1>6, <1>a, <1>c, <1>d, AfterHorseLeaves DEF Frees
<1>7. ASSUME NEW w \in Workers, Dequeue(w) PROVE RowFollowsHorse'
  BY <1>7, <1>a, <1>c, <1>d, AfterDequeue
<1>8. ASSUME NEW w \in Workers, StartJob(w) PROVE RowFollowsHorse'
  BY <1>8, <1>a, <1>c, <1>d, AfterCommit DEF RowStep
<1>9. ASSUME NEW w \in Workers, RejectJob(w) PROVE RowFollowsHorse'
  BY <1>9, <1>a, <1>c, <1>d, AfterRejectJob DEF Frees
<1>10. ASSUME NEW w \in Workers, CommitCompleted(w) PROVE RowFollowsHorse'
  BY <1>10, <1>a, <1>c, <1>d, AfterCommit DEF RowStep
<1>11. ASSUME NEW w \in Workers, CommitFailed(w) PROVE RowFollowsHorse'
  BY <1>11, <1>a, <1>c, <1>d, AfterCommit DEF RowStep
<1>12. ASSUME NEW w \in Workers, HorseWriteEntry(w) PROVE RowFollowsHorse'
  BY <1>12, <1>a, <1>c, <1>d, AfterHorseWriteEntry DEF Frees, Outcome
<1>13. ASSUME LoseQueue PROVE RowFollowsHorse'
  BY <1>13, <1>a, <1>c, <1>d, AfterLoseQueue
<1>14. CASE UNCHANGED vars
  BY <1>14, <1>a, <1>c, <1>d, AfterStutter
<1> QED BY <1>b, <1>1, <1>2, <1>3, <1>4, <1>5, <1>6, <1>7, <1>8, <1>9, <1>10, <1>11,
     <1>12, <1>13, <1>14 DEF Shape

\* A job is pushed once.
LEMMA DistinctStays == PipelineInv /\ [Next]_vars => Distinct'
<1> SUFFICES ASSUME PipelineInv, [Next]_vars PROVE Distinct'
  OBVIOUS
<1>a. TypeOK /\ Alone /\ Distinct /\ NotYetPushed
  BY DEF PipelineInv
<1>b. Shape
  BY Shapes DEF PipelineInv
<1>c. /\ api \in [Jobs -> ApiPc]
  BY <1>a DEF TypeOK
<1> USE DEF NotYetPushed, SameQueue
<1>1. ASSUME NEW j \in Jobs, NEW to \in ApiPc, HandlerMoves(j, to) PROVE Distinct'
  BY <1>1, <1>a, <1>c, AfterHandlerMoves
<1>2. ASSUME NEW j \in Jobs, Enqueue(j) PROVE Distinct'
  BY <1>2, <1>a, <1>c, AfterEnqueue
<1>3. ASSUME NEW j \in Jobs, CommitRow(j) PROVE Distinct'
  BY <1>3, <1>a, <1>c, AfterCommitRow
<1>4. ASSUME NEW j \in Jobs, ApiWriteEntry(j) PROVE Distinct'
  BY <1>4, <1>a, <1>c, AfterApiWriteEntry
<1>5. ASSUME NEW w \in Workers, NEW to \in HorsePc, HorseMoves(w, to) PROVE Distinct'
  BY <1>5, <1>a, <1>c, AfterHorseMoves
<1>6. ASSUME NEW w \in Workers, HorseLeaves(w) PROVE Distinct'
  BY <1>6, <1>a, <1>c, AfterHorseLeaves DEF Frees
<1>7. ASSUME NEW w \in Workers, Dequeue(w) PROVE Distinct'
  BY <1>7, <1>a, <1>c, AfterDequeue
<1>8. ASSUME NEW w \in Workers, StartJob(w) PROVE Distinct'
  BY <1>8, <1>a, <1>c, AfterCommit DEF RowStep
<1>9. ASSUME NEW w \in Workers, RejectJob(w) PROVE Distinct'
  BY <1>9, <1>a, <1>c, AfterRejectJob DEF Frees
<1>10. ASSUME NEW w \in Workers, CommitCompleted(w) PROVE Distinct'
  BY <1>10, <1>a, <1>c, AfterCommit DEF RowStep
<1>11. ASSUME NEW w \in Workers, CommitFailed(w) PROVE Distinct'
  BY <1>11, <1>a, <1>c, AfterCommit DEF RowStep
<1>12. ASSUME NEW w \in Workers, HorseWriteEntry(w) PROVE Distinct'
  BY <1>12, <1>a, <1>c, AfterHorseWriteEntry DEF Frees, Outcome
<1>13. ASSUME LoseQueue PROVE Distinct'
  BY <1>13, <1>a, <1>c, AfterLoseQueue
<1>14. CASE UNCHANGED vars
  BY <1>14, <1>a, <1>c, AfterStutter
<1> QED BY <1>b, <1>1, <1>2, <1>3, <1>4, <1>5, <1>6, <1>7, <1>8, <1>9, <1>10, <1>11,
     <1>12, <1>13, <1>14 DEF Shape

\* A job is taken from the queue once.
LEMMA AloneStays == PipelineInv /\ [Next]_vars => Alone'
<1> SUFFICES ASSUME PipelineInv, [Next]_vars PROVE Alone'
  OBVIOUS
<1>a. TypeOK /\ Alone /\ QueuedIsFresh
  BY DEF PipelineInv
<1>b. Shape
  BY Shapes DEF PipelineInv
<1>c. /\ hjob \in [Workers -> Jobs \cup {NoJob}]
  BY <1>a DEF TypeOK
<1>d. /\ NoJob \notin Jobs /\ Jobs \cap Workers = {}
      /\ \A w \in Workers : hjob[w] = NoJob <=> hpc[w] = "idle"
      /\ \A w \in Workers : hpc[w] # "idle" => hjob[w] \in Jobs /\ Held(hjob[w])
  BY <1>a, Busy, NamesAssumption
<1> USE DEF Alone, QueuedIsFresh, Held
<1>1. ASSUME NEW j \in Jobs, NEW to \in ApiPc, HandlerMoves(j, to) PROVE Alone'
  BY <1>1, <1>a, <1>c, <1>d, AfterHandlerMoves
<1>2. ASSUME NEW j \in Jobs, Enqueue(j) PROVE Alone'
  BY <1>2, <1>a, <1>c, <1>d, AfterEnqueue
<1>3. ASSUME NEW j \in Jobs, CommitRow(j) PROVE Alone'
  BY <1>3, <1>a, <1>c, <1>d, AfterCommitRow
<1>4. ASSUME NEW j \in Jobs, ApiWriteEntry(j) PROVE Alone'
  BY <1>4, <1>a, <1>c, <1>d, AfterApiWriteEntry
<1>5. ASSUME NEW w \in Workers, NEW to \in HorsePc, HorseMoves(w, to) PROVE Alone'
  BY <1>5, <1>a, <1>c, <1>d, AfterHorseMoves
<1>6. ASSUME NEW w \in Workers, HorseLeaves(w) PROVE Alone'
  BY <1>6, <1>a, <1>c, <1>d, AfterHorseLeaves DEF Frees
<1>7. ASSUME NEW w \in Workers, Dequeue(w) PROVE Alone'
  BY <1>7, <1>a, <1>c, <1>d, AfterDequeue
<1>8. ASSUME NEW w \in Workers, StartJob(w) PROVE Alone'
  BY <1>8, <1>a, <1>c, <1>d, AfterCommit DEF RowStep
<1>9. ASSUME NEW w \in Workers, RejectJob(w) PROVE Alone'
  BY <1>9, <1>a, <1>c, <1>d, AfterRejectJob DEF Frees
<1>10. ASSUME NEW w \in Workers, CommitCompleted(w) PROVE Alone'
  BY <1>10, <1>a, <1>c, <1>d, AfterCommit DEF RowStep
<1>11. ASSUME NEW w \in Workers, CommitFailed(w) PROVE Alone'
  BY <1>11, <1>a, <1>c, <1>d, AfterCommit DEF RowStep
<1>12. ASSUME NEW w \in Workers, HorseWriteEntry(w) PROVE Alone'
  BY <1>12, <1>a, <1>c, <1>d, AfterHorseWriteEntry DEF Frees, Outcome
<1>13. ASSUME LoseQueue PROVE Alone'
  BY <1>13, <1>a, <1>c, <1>d, AfterLoseQueue
<1>14. CASE UNCHANGED vars
  BY <1>14, <1>a, <1>c, <1>d, AfterStutter
<1> QED BY <1>b, <1>1, <1>2, <1>3, <1>4, <1>5, <1>6, <1>7, <1>8, <1>9, <1>10, <1>11,
     <1>12, <1>13, <1>14 DEF Shape

\* Only a job that was not taken yet is queued.
LEMMA FreshStays == PipelineInv /\ [Next]_vars => QueuedIsFresh'
<1> SUFFICES ASSUME PipelineInv, [Next]_vars PROVE QueuedIsFresh'
  OBVIOUS
<1>a. TypeOK /\ Alone /\ QueuedIsFresh /\ NotYetPushed /\ Distinct /\ RowFollowsHandler
  BY DEF PipelineInv
<1>b. Shape
  BY Shapes DEF PipelineInv
<1>c. /\ api \in [Jobs -> ApiPc]
      /\ row \in [Jobs -> JobStatus \cup {"none"}]
      /\ hjob \in [Workers -> Jobs \cup {NoJob}]
  BY <1>a DEF TypeOK
<1>d. /\ NoJob \notin Jobs /\ Jobs \cap Workers = {}
      /\ \A w \in Workers : hjob[w] = NoJob <=> hpc[w] = "idle"
      /\ \A w \in Workers : hpc[w] # "idle" => hjob[w] \in Jobs /\ Held(hjob[w])
  BY <1>a, Busy, NamesAssumption
<1> USE DEF QueuedIsFresh, NotYetPushed, RowFollowsHandler, SameQueue, SameHands
<1>1. ASSUME NEW j \in Jobs, NEW to \in ApiPc, HandlerMoves(j, to) PROVE QueuedIsFresh'
  BY <1>1, <1>a, <1>c, <1>d, AfterHandlerMoves
<1>2. ASSUME NEW j \in Jobs, Enqueue(j) PROVE QueuedIsFresh'
  BY <1>2, <1>a, <1>c, <1>d, AfterEnqueue
<1>3. ASSUME NEW j \in Jobs, CommitRow(j) PROVE QueuedIsFresh'
  BY <1>3, <1>a, <1>c, <1>d, AfterCommitRow
<1>4. ASSUME NEW j \in Jobs, ApiWriteEntry(j) PROVE QueuedIsFresh'
  BY <1>4, <1>a, <1>c, <1>d, AfterApiWriteEntry
<1>5. ASSUME NEW w \in Workers, NEW to \in HorsePc, HorseMoves(w, to) PROVE QueuedIsFresh'
  BY <1>5, <1>a, <1>c, <1>d, AfterHorseMoves
<1>6. ASSUME NEW w \in Workers, HorseLeaves(w) PROVE QueuedIsFresh'
  BY <1>6, <1>a, <1>c, <1>d, AfterHorseLeaves DEF Frees
<1>7. ASSUME NEW w \in Workers, Dequeue(w) PROVE QueuedIsFresh'
  BY <1>7, <1>a, <1>c, <1>d, AfterDequeue
<1>8. ASSUME NEW w \in Workers, StartJob(w) PROVE QueuedIsFresh'
  BY <1>8, <1>a, <1>c, <1>d, AfterCommit DEF RowStep
<1>9. ASSUME NEW w \in Workers, RejectJob(w) PROVE QueuedIsFresh'
  BY <1>9, <1>a, <1>c, <1>d, AfterRejectJob DEF Frees
<1>10. ASSUME NEW w \in Workers, CommitCompleted(w) PROVE QueuedIsFresh'
  BY <1>10, <1>a, <1>c, <1>d, AfterCommit DEF RowStep
<1>11. ASSUME NEW w \in Workers, CommitFailed(w) PROVE QueuedIsFresh'
  BY <1>11, <1>a, <1>c, <1>d, AfterCommit DEF RowStep
<1>12. ASSUME NEW w \in Workers, HorseWriteEntry(w) PROVE QueuedIsFresh'
  BY <1>12, <1>a, <1>c, <1>d, AfterHorseWriteEntry DEF Frees, Outcome
<1>13. ASSUME LoseQueue PROVE QueuedIsFresh'
  BY <1>13, <1>a, <1>c, <1>d, AfterLoseQueue
<1>14. CASE UNCHANGED vars
  BY <1>14, <1>a, <1>c, <1>d, AfterStutter
<1> QED BY <1>b, <1>1, <1>2, <1>3, <1>4, <1>5, <1>6, <1>7, <1>8, <1>9, <1>10, <1>11,
     <1>12, <1>13, <1>14 DEF Shape

\* Only a job that was pushed is in the queue, or in a worker's hands.
LEMMA PushedStays == PipelineInv /\ [Next]_vars => NotYetPushed'
<1> SUFFICES ASSUME PipelineInv, [Next]_vars PROVE NotYetPushed'
  OBVIOUS
<1>a. TypeOK /\ Alone /\ NotYetPushed
  BY DEF PipelineInv
<1>b. Shape
  BY Shapes DEF PipelineInv
<1>c. /\ api \in [Jobs -> ApiPc]
  BY <1>a DEF TypeOK
<1>d. /\ NoJob \notin Jobs /\ Jobs \cap Workers = {}
      /\ \A w \in Workers : hjob[w] = NoJob <=> hpc[w] = "idle"
      /\ \A w \in Workers : hpc[w] # "idle" => hjob[w] \in Jobs /\ Held(hjob[w])
  BY <1>a, Busy, NamesAssumption
<1> USE DEF NotYetPushed, SameQueue, SameHands
<1>1. ASSUME NEW j \in Jobs, NEW to \in ApiPc, HandlerMoves(j, to) PROVE NotYetPushed'
  BY <1>1, <1>a, <1>c, <1>d, AfterHandlerMoves
<1>2. ASSUME NEW j \in Jobs, Enqueue(j) PROVE NotYetPushed'
  BY <1>2, <1>a, <1>c, <1>d, AfterEnqueue
<1>3. ASSUME NEW j \in Jobs, CommitRow(j) PROVE NotYetPushed'
  BY <1>3, <1>a, <1>c, <1>d, AfterCommitRow
<1>4. ASSUME NEW j \in Jobs, ApiWriteEntry(j) PROVE NotYetPushed'
  BY <1>4, <1>a, <1>c, <1>d, AfterApiWriteEntry
<1>5. ASSUME NEW w \in Workers, NEW to \in HorsePc, HorseMoves(w, to) PROVE NotYetPushed'
  BY <1>5, <1>a, <1>c, <1>d, AfterHorseMoves
<1>6. ASSUME NEW w \in Workers, HorseLeaves(w) PROVE NotYetPushed'
  BY <1>6, <1>a, <1>c, <1>d, AfterHorseLeaves DEF Frees
<1>7. ASSUME NEW w \in Workers, Dequeue(w) PROVE NotYetPushed'
  BY <1>7, <1>a, <1>c, <1>d, AfterDequeue
<1>8. ASSUME NEW w \in Workers, StartJob(w) PROVE NotYetPushed'
  BY <1>8, <1>a, <1>c, <1>d, AfterCommit DEF RowStep
<1>9. ASSUME NEW w \in Workers, RejectJob(w) PROVE NotYetPushed'
  BY <1>9, <1>a, <1>c, <1>d, AfterRejectJob DEF Frees
<1>10. ASSUME NEW w \in Workers, CommitCompleted(w) PROVE NotYetPushed'
  BY <1>10, <1>a, <1>c, <1>d, AfterCommit DEF RowStep
<1>11. ASSUME NEW w \in Workers, CommitFailed(w) PROVE NotYetPushed'
  BY <1>11, <1>a, <1>c, <1>d, AfterCommit DEF RowStep
<1>12. ASSUME NEW w \in Workers, HorseWriteEntry(w) PROVE NotYetPushed'
  BY <1>12, <1>a, <1>c, <1>d, AfterHorseWriteEntry DEF Frees, Outcome
<1>13. ASSUME LoseQueue PROVE NotYetPushed'
  BY <1>13, <1>a, <1>c, <1>d, AfterLoseQueue
<1>14. CASE UNCHANGED vars
  BY <1>14, <1>a, <1>c, <1>d, AfterStutter
<1> QED BY <1>b, <1>1, <1>2, <1>3, <1>4, <1>5, <1>6, <1>7, <1>8, <1>9, <1>10, <1>11,
     <1>12, <1>13, <1>14 DEF Shape

\* The API only lets through what it accepts.
LEMMA ApiAcceptsStays == PipelineInv /\ [Next]_vars => AcceptedByApi'
<1> SUFFICES ASSUME PipelineInv, [Next]_vars PROVE AcceptedByApi'
  OBVIOUS
<1>a. TypeOK /\ Alone /\ AcceptedByApi
  BY DEF PipelineInv
<1>b. Shape
  BY Shapes DEF PipelineInv
<1>c. /\ api \in [Jobs -> ApiPc]
      /\ req \in [Jobs -> Requests]
  BY <1>a DEF TypeOK
<1> USE DEF AcceptedByApi
<1>1. ASSUME NEW j \in Jobs, NEW to \in ApiPc, HandlerMoves(j, to) PROVE AcceptedByApi'
  BY <1>1, <1>a, <1>c, AfterHandlerMoves
<1>2. ASSUME NEW j \in Jobs, Enqueue(j) PROVE AcceptedByApi'
  BY <1>2, <1>a, <1>c, AfterEnqueue
<1>3. ASSUME NEW j \in Jobs, CommitRow(j) PROVE AcceptedByApi'
  BY <1>3, <1>a, <1>c, AfterCommitRow
<1>4. ASSUME NEW j \in Jobs, ApiWriteEntry(j) PROVE AcceptedByApi'
  BY <1>4, <1>a, <1>c, AfterApiWriteEntry
<1>5. ASSUME NEW w \in Workers, NEW to \in HorsePc, HorseMoves(w, to) PROVE AcceptedByApi'
  BY <1>5, <1>a, <1>c, AfterHorseMoves
<1>6. ASSUME NEW w \in Workers, HorseLeaves(w) PROVE AcceptedByApi'
  BY <1>6, <1>a, <1>c, AfterHorseLeaves DEF Frees
<1>7. ASSUME NEW w \in Workers, Dequeue(w) PROVE AcceptedByApi'
  BY <1>7, <1>a, <1>c, AfterDequeue
<1>8. ASSUME NEW w \in Workers, StartJob(w) PROVE AcceptedByApi'
  BY <1>8, <1>a, <1>c, AfterCommit DEF RowStep
<1>9. ASSUME NEW w \in Workers, RejectJob(w) PROVE AcceptedByApi'
  BY <1>9, <1>a, <1>c, AfterRejectJob DEF Frees
<1>10. ASSUME NEW w \in Workers, CommitCompleted(w) PROVE AcceptedByApi'
  BY <1>10, <1>a, <1>c, AfterCommit DEF RowStep
<1>11. ASSUME NEW w \in Workers, CommitFailed(w) PROVE AcceptedByApi'
  BY <1>11, <1>a, <1>c, AfterCommit DEF RowStep
<1>12. ASSUME NEW w \in Workers, HorseWriteEntry(w) PROVE AcceptedByApi'
  BY <1>12, <1>a, <1>c, AfterHorseWriteEntry DEF Frees, Outcome
<1>13. ASSUME LoseQueue PROVE AcceptedByApi'
  BY <1>13, <1>a, <1>c, AfterLoseQueue
<1>14. CASE UNCHANGED vars
  BY <1>14, <1>a, <1>c, AfterStutter
<1> QED BY <1>b, <1>1, <1>2, <1>3, <1>4, <1>5, <1>6, <1>7, <1>8, <1>9, <1>10, <1>11,
     <1>12, <1>13, <1>14 DEF Shape

\* The worker finds nothing to reject in what the API has accepted.
LEMMA AcceptedStays == PipelineInv /\ [Next]_vars => AcceptedIsRunnable'
<1> SUFFICES ASSUME PipelineInv, [Next]_vars PROVE AcceptedIsRunnable'
  OBVIOUS
<1>a. TypeOK /\ Alone /\ AcceptedIsRunnable /\ AcceptedByApi /\ NotYetPushed
  BY DEF PipelineInv
<1>b. Shape
  BY Shapes DEF PipelineInv
<1>c. /\ req \in [Jobs -> Requests]
      /\ api \in [Jobs -> ApiPc]
      /\ why \in [Jobs -> {"none", "unknown_module", "missing_evidence", "run"}]
      /\ hjob \in [Workers -> Jobs \cup {NoJob}]
  BY <1>a DEF TypeOK
<1>d. /\ NoJob \notin Jobs /\ Jobs \cap Workers = {}
      /\ \A w \in Workers : hjob[w] = NoJob <=> hpc[w] = "idle"
      /\ \A w \in Workers : hpc[w] # "idle" => hjob[w] \in Jobs /\ Held(hjob[w])
  BY <1>a, Busy, NamesAssumption
<1>e. \A j \in Jobs : Accepted(req[j]) =>
        /\ req[j].module \in MODULE_REGISTRY
        /\ requires_evidence(req[j].module) => req[j].evidence # "none"
  BY AcceptedInRegistry
<1> USE DEF AcceptedIsRunnable, AcceptedByApi, NotYetPushed
<1>1. ASSUME NEW j \in Jobs, NEW to \in ApiPc, HandlerMoves(j, to) PROVE AcceptedIsRunnable'
  BY <1>1, <1>a, <1>c, <1>d, AfterHandlerMoves
<1>2. ASSUME NEW j \in Jobs, Enqueue(j) PROVE AcceptedIsRunnable'
  BY <1>2, <1>a, <1>c, <1>d, AfterEnqueue
<1>3. ASSUME NEW j \in Jobs, CommitRow(j) PROVE AcceptedIsRunnable'
  BY <1>3, <1>a, <1>c, <1>d, AfterCommitRow
<1>4. ASSUME NEW j \in Jobs, ApiWriteEntry(j) PROVE AcceptedIsRunnable'
  BY <1>4, <1>a, <1>c, <1>d, AfterApiWriteEntry
<1>5. ASSUME NEW w \in Workers, NEW to \in HorsePc, HorseMoves(w, to) PROVE AcceptedIsRunnable'
  BY <1>5, <1>a, <1>c, <1>d, AfterHorseMoves
<1>6. ASSUME NEW w \in Workers, HorseLeaves(w) PROVE AcceptedIsRunnable'
  BY <1>6, <1>a, <1>c, <1>d, AfterHorseLeaves DEF Frees
<1>7. ASSUME NEW w \in Workers, Dequeue(w) PROVE AcceptedIsRunnable'
  BY <1>7, <1>a, <1>c, <1>d, AfterDequeue
<1>8. ASSUME NEW w \in Workers, StartJob(w) PROVE AcceptedIsRunnable'
  BY <1>8, <1>a, <1>c, <1>d, AfterCommit DEF RowStep
<1>9. ASSUME NEW w \in Workers, RejectJob(w) PROVE AcceptedIsRunnable'
  BY <1>9, <1>a, <1>c, <1>d, <1>e, AfterRejectJob DEF Frees, UnknownModule,
      MissingEvidence
<1>10. ASSUME NEW w \in Workers, CommitCompleted(w) PROVE AcceptedIsRunnable'
  BY <1>10, <1>a, <1>c, <1>d, AfterCommit DEF RowStep
<1>11. ASSUME NEW w \in Workers, CommitFailed(w) PROVE AcceptedIsRunnable'
  BY <1>11, <1>a, <1>c, <1>d, AfterCommit DEF RowStep
<1>12. ASSUME NEW w \in Workers, HorseWriteEntry(w) PROVE AcceptedIsRunnable'
  BY <1>12, <1>a, <1>c, <1>d, AfterHorseWriteEntry DEF Frees, Outcome
<1>13. ASSUME LoseQueue PROVE AcceptedIsRunnable'
  BY <1>13, <1>a, <1>c, <1>d, AfterLoseQueue
<1>14. CASE UNCHANGED vars
  BY <1>14, <1>a, <1>c, <1>d, AfterStutter
<1> QED BY <1>b, <1>1, <1>2, <1>3, <1>4, <1>5, <1>6, <1>7, <1>8, <1>9, <1>10, <1>11,
     <1>12, <1>13, <1>14 DEF Shape

\* Whoever drops a job that is not done files it.
LEMMA FiledStays == PipelineInv /\ [Next]_vars => Filed'
<1> SUFFICES ASSUME PipelineInv, [Next]_vars PROVE Filed'
  OBVIOUS
<1>a. TypeOK /\ Alone /\ Filed /\ RowFollowsHorse /\ RowFollowsHandler
  BY DEF PipelineInv
<1>b. Shape
  BY Shapes DEF PipelineInv
<1>c. /\ api \in [Jobs -> ApiPc]
      /\ row \in [Jobs -> JobStatus \cup {"none"}]
      /\ hpc \in [Workers -> HorsePc]
      /\ hjob \in [Workers -> Jobs \cup {NoJob}]
  BY <1>a DEF TypeOK
<1>d. /\ NoJob \notin Jobs /\ Jobs \cap Workers = {}
      /\ \A w \in Workers : hjob[w] = NoJob <=> hpc[w] = "idle"
      /\ \A w \in Workers : hpc[w] # "idle" => hjob[w] \in Jobs /\ Held(hjob[w])
  BY <1>a, Busy, NamesAssumption
<1> USE DEF Filed, RowFollowsHorse, RowFollowsHandler, SameQueue, SameHands
<1>1. ASSUME NEW j \in Jobs, NEW to \in ApiPc, HandlerMoves(j, to) PROVE Filed'
  BY <1>1, <1>a, <1>c, <1>d, AfterHandlerMoves
<1>2. ASSUME NEW j \in Jobs, Enqueue(j) PROVE Filed'
  BY <1>2, <1>a, <1>c, <1>d, AfterEnqueue
<1>3. ASSUME NEW j \in Jobs, CommitRow(j) PROVE Filed'
  BY <1>3, <1>a, <1>c, <1>d, AfterCommitRow
<1>4. ASSUME NEW j \in Jobs, ApiWriteEntry(j) PROVE Filed'
  BY <1>4, <1>a, <1>c, <1>d, AfterApiWriteEntry
<1>5. ASSUME NEW w \in Workers, NEW to \in HorsePc, HorseMoves(w, to) PROVE Filed'
  BY <1>5, <1>a, <1>c, <1>d, AfterHorseMoves
<1>6. ASSUME NEW w \in Workers, HorseLeaves(w) PROVE Filed'
  BY <1>6, <1>a, <1>c, <1>d, AfterHorseLeaves DEF Frees
<1>7. ASSUME NEW w \in Workers, Dequeue(w) PROVE Filed'
  BY <1>7, <1>a, <1>c, <1>d, AfterDequeue
<1>8. ASSUME NEW w \in Workers, StartJob(w) PROVE Filed'
  BY <1>8, <1>a, <1>c, <1>d, AfterCommit DEF RowStep
<1>9. ASSUME NEW w \in Workers, RejectJob(w) PROVE Filed'
  BY <1>9, <1>a, <1>c, <1>d, AfterRejectJob DEF Frees
<1>10. ASSUME NEW w \in Workers, CommitCompleted(w) PROVE Filed'
  BY <1>10, <1>a, <1>c, <1>d, AfterCommit DEF RowStep
<1>11. ASSUME NEW w \in Workers, CommitFailed(w) PROVE Filed'
  BY <1>11, <1>a, <1>c, <1>d, AfterCommit DEF RowStep
<1>12. ASSUME NEW w \in Workers, HorseWriteEntry(w) PROVE Filed'
  BY <1>12, <1>a, <1>c, <1>d, AfterHorseWriteEntry DEF Frees, Outcome
<1>13. ASSUME LoseQueue PROVE Filed'
  BY <1>13, <1>a, <1>c, <1>d, AfterLoseQueue
<1>14. CASE UNCHANGED vars
  BY <1>14, <1>a, <1>c, <1>d, AfterStutter
<1> QED BY <1>b, <1>1, <1>2, <1>3, <1>4, <1>5, <1>6, <1>7, <1>8, <1>9, <1>10, <1>11,
     <1>12, <1>13, <1>14 DEF Shape

\* An entry is written after the row, by the one who has the job, and then it is let go.
LEMMA LogFollowsStays == PipelineInv /\ [Next]_vars => LogFollows'
<1> SUFFICES ASSUME PipelineInv, [Next]_vars PROVE LogFollows'
  OBVIOUS
<1>a. TypeOK /\ Alone /\ LogFollows /\ RowFollowsHandler /\ RowFollowsHorse /\
       QueuedIsFresh
  BY DEF PipelineInv
<1>b. Shape
  BY Shapes DEF PipelineInv
<1>c. /\ api \in [Jobs -> ApiPc]
      /\ row \in [Jobs -> JobStatus \cup {"none"}]
      /\ hpc \in [Workers -> HorsePc]
      /\ hjob \in [Workers -> Jobs \cup {NoJob}]
  BY <1>a DEF TypeOK
<1>d. /\ NoJob \notin Jobs /\ Jobs \cap Workers = {}
      /\ \A w \in Workers : hjob[w] = NoJob <=> hpc[w] = "idle"
      /\ \A w \in Workers : hpc[w] # "idle" => hjob[w] \in Jobs /\ Held(hjob[w])
  BY <1>a, Busy, NamesAssumption
<1> USE DEF LogFollows, RowFollowsHandler, RowFollowsHorse, QueuedIsFresh,
    SameHands, SameLog
<1>1. ASSUME NEW j \in Jobs, NEW to \in ApiPc, HandlerMoves(j, to) PROVE LogFollows'
  BY <1>1, <1>a, <1>c, <1>d, AfterHandlerMoves
<1>2. ASSUME NEW j \in Jobs, Enqueue(j) PROVE LogFollows'
  BY <1>2, <1>a, <1>c, <1>d, AfterEnqueue
<1>3. ASSUME NEW j \in Jobs, CommitRow(j) PROVE LogFollows'
  BY <1>3, <1>a, <1>c, <1>d, AfterCommitRow
<1>4. ASSUME NEW j \in Jobs, ApiWriteEntry(j) PROVE LogFollows'
  BY <1>4, <1>a, <1>c, <1>d, AfterApiWriteEntry
<1>5. ASSUME NEW w \in Workers, NEW to \in HorsePc, HorseMoves(w, to) PROVE LogFollows'
  BY <1>5, <1>a, <1>c, <1>d, AfterHorseMoves
<1>6. ASSUME NEW w \in Workers, HorseLeaves(w) PROVE LogFollows'
  BY <1>6, <1>a, <1>c, <1>d, AfterHorseLeaves DEF Frees
<1>7. ASSUME NEW w \in Workers, Dequeue(w) PROVE LogFollows'
  BY <1>7, <1>a, <1>c, <1>d, AfterDequeue
<1>8. ASSUME NEW w \in Workers, StartJob(w) PROVE LogFollows'
  BY <1>8, <1>a, <1>c, <1>d, AfterCommit DEF RowStep
<1>9. ASSUME NEW w \in Workers, RejectJob(w) PROVE LogFollows'
  BY <1>9, <1>a, <1>c, <1>d, AfterRejectJob DEF Frees
<1>10. ASSUME NEW w \in Workers, CommitCompleted(w) PROVE LogFollows'
  BY <1>10, <1>a, <1>c, <1>d, AfterCommit DEF RowStep
<1>11. ASSUME NEW w \in Workers, CommitFailed(w) PROVE LogFollows'
  BY <1>11, <1>a, <1>c, <1>d, AfterCommit DEF RowStep
<1>12. ASSUME NEW w \in Workers, HorseWriteEntry(w) PROVE LogFollows'
  BY <1>12, <1>a, <1>c, <1>d, AfterHorseWriteEntry DEF Frees, Outcome
<1>13. ASSUME LoseQueue PROVE LogFollows'
  BY <1>13, <1>a, <1>c, <1>d, AfterLoseQueue
<1>14. CASE UNCHANGED vars
  BY <1>14, <1>a, <1>c, <1>d, AfterStutter
<1> QED BY <1>b, <1>1, <1>2, <1>3, <1>4, <1>5, <1>6, <1>7, <1>8, <1>9, <1>10, <1>11,
     <1>12, <1>13, <1>14 DEF Shape

\* Nobody writes an entry twice.
LEMMA EachOnceStays == PipelineInv /\ [Next]_vars => File!EachOnce'
<1> SUFFICES ASSUME PipelineInv, [Next]_vars PROVE File!EachOnce'
  OBVIOUS
<1>a. TypeOK /\ Alone /\ File!EachOnce /\ LogFollows
  BY DEF PipelineInv
<1>b. Shape
  BY Shapes DEF PipelineInv
<1>c. /\ api \in [Jobs -> ApiPc]
      /\ row \in [Jobs -> JobStatus \cup {"none"}]
      /\ hpc \in [Workers -> HorsePc]
      /\ hjob \in [Workers -> Jobs \cup {NoJob}]
  BY <1>a DEF TypeOK
<1>d. /\ NoJob \notin Jobs /\ Jobs \cap Workers = {}
      /\ \A w \in Workers : hjob[w] = NoJob <=> hpc[w] = "idle"
      /\ \A w \in Workers : hpc[w] # "idle" => hjob[w] \in Jobs /\ Held(hjob[w])
  BY <1>a, Busy, NamesAssumption
<1> USE DEF LogFollows, SameLog
<1>1. ASSUME NEW j \in Jobs, NEW to \in ApiPc, HandlerMoves(j, to) PROVE File!EachOnce'
  BY <1>1, <1>a, <1>c, <1>d, AfterHandlerMoves
<1>2. ASSUME NEW j \in Jobs, Enqueue(j) PROVE File!EachOnce'
  BY <1>2, <1>a, <1>c, <1>d, AfterEnqueue
<1>3. ASSUME NEW j \in Jobs, CommitRow(j) PROVE File!EachOnce'
  BY <1>3, <1>a, <1>c, <1>d, AfterCommitRow
<1>4. ASSUME NEW j \in Jobs, ApiWriteEntry(j) PROVE File!EachOnce'
  BY <1>4, <1>a, <1>c, <1>d, AfterApiWriteEntry
<1>5. ASSUME NEW w \in Workers, NEW to \in HorsePc, HorseMoves(w, to) PROVE File!EachOnce'
  BY <1>5, <1>a, <1>c, <1>d, AfterHorseMoves
<1>6. ASSUME NEW w \in Workers, HorseLeaves(w) PROVE File!EachOnce'
  BY <1>6, <1>a, <1>c, <1>d, AfterHorseLeaves DEF Frees
<1>7. ASSUME NEW w \in Workers, Dequeue(w) PROVE File!EachOnce'
  BY <1>7, <1>a, <1>c, <1>d, AfterDequeue
<1>8. ASSUME NEW w \in Workers, StartJob(w) PROVE File!EachOnce'
  BY <1>8, <1>a, <1>c, <1>d, AfterCommit DEF RowStep
<1>9. ASSUME NEW w \in Workers, RejectJob(w) PROVE File!EachOnce'
  BY <1>9, <1>a, <1>c, <1>d, AfterRejectJob DEF Frees
<1>10. ASSUME NEW w \in Workers, CommitCompleted(w) PROVE File!EachOnce'
  BY <1>10, <1>a, <1>c, <1>d, AfterCommit DEF RowStep
<1>11. ASSUME NEW w \in Workers, CommitFailed(w) PROVE File!EachOnce'
  BY <1>11, <1>a, <1>c, <1>d, AfterCommit DEF RowStep
<1>12. ASSUME NEW w \in Workers, HorseWriteEntry(w) PROVE File!EachOnce'
  BY <1>12, <1>a, <1>c, <1>d, AfterHorseWriteEntry DEF Frees, Outcome
<1>13. ASSUME LoseQueue PROVE File!EachOnce'
  BY <1>13, <1>a, <1>c, <1>d, AfterLoseQueue
<1>14. CASE UNCHANGED vars
  BY <1>14, <1>a, <1>c, <1>d, AfterStutter
<1> QED BY <1>b, <1>1, <1>2, <1>3, <1>4, <1>5, <1>6, <1>7, <1>8, <1>9, <1>10, <1>11,
     <1>12, <1>13, <1>14 DEF Shape

\* A line is only torn by a fault.
LEMMA FaultlessStays == PipelineInv /\ [Next]_vars => Faultless'
<1> SUFFICES ASSUME PipelineInv, [Next]_vars PROVE Faultless'
  OBVIOUS
<1>a. TypeOK /\ Alone /\ Faultless
  BY DEF PipelineInv
<1>b. Shape
  BY Shapes DEF PipelineInv
<1> USE DEF Faultless
<1>1. ASSUME NEW j \in Jobs, NEW to \in ApiPc, HandlerMoves(j, to) PROVE Faultless'
  BY <1>1, <1>a, AfterHandlerMoves
<1>2. ASSUME NEW j \in Jobs, Enqueue(j) PROVE Faultless'
  BY <1>2, <1>a, AfterEnqueue
<1>3. ASSUME NEW j \in Jobs, CommitRow(j) PROVE Faultless'
  BY <1>3, <1>a, AfterCommitRow
<1>4. ASSUME NEW j \in Jobs, ApiWriteEntry(j) PROVE Faultless'
  BY <1>4, <1>a, AfterApiWriteEntry
<1>5. ASSUME NEW w \in Workers, NEW to \in HorsePc, HorseMoves(w, to) PROVE Faultless'
  BY <1>5, <1>a, AfterHorseMoves
<1>6. ASSUME NEW w \in Workers, HorseLeaves(w) PROVE Faultless'
  BY <1>6, <1>a, AfterHorseLeaves DEF Frees
<1>7. ASSUME NEW w \in Workers, Dequeue(w) PROVE Faultless'
  BY <1>7, <1>a, AfterDequeue
<1>8. ASSUME NEW w \in Workers, StartJob(w) PROVE Faultless'
  BY <1>8, <1>a, AfterCommit DEF RowStep
<1>9. ASSUME NEW w \in Workers, RejectJob(w) PROVE Faultless'
  BY <1>9, <1>a, AfterRejectJob DEF Frees
<1>10. ASSUME NEW w \in Workers, CommitCompleted(w) PROVE Faultless'
  BY <1>10, <1>a, AfterCommit DEF RowStep
<1>11. ASSUME NEW w \in Workers, CommitFailed(w) PROVE Faultless'
  BY <1>11, <1>a, AfterCommit DEF RowStep
<1>12. ASSUME NEW w \in Workers, HorseWriteEntry(w) PROVE Faultless'
  BY <1>12, <1>a, AfterHorseWriteEntry DEF Frees, Outcome
<1>13. ASSUME LoseQueue PROVE Faultless'
  BY <1>13, <1>a, AfterLoseQueue
<1>14. CASE UNCHANGED vars
  BY <1>14, <1>a, AfterStutter
<1> QED BY <1>b, <1>1, <1>2, <1>3, <1>4, <1>5, <1>6, <1>7, <1>8, <1>9, <1>10, <1>11,
     <1>12, <1>13, <1>14 DEF Shape

\* A horse that is not stopped by a fault logs what it has committed.
LEMMA RunsStay == PipelineInv /\ [Next]_vars => RunsAreLogged'
<1> SUFFICES ASSUME PipelineInv, [Next]_vars PROVE RunsAreLogged'
  OBVIOUS
<1>a. TypeOK /\ Alone /\ RunsAreLogged /\ Faultless /\ RowFollowsHorse /\
       RowFollowsHandler
  BY DEF PipelineInv
<1>b. Shape
  BY Shapes DEF PipelineInv
<1>c. /\ api \in [Jobs -> ApiPc]
      /\ row \in [Jobs -> JobStatus \cup {"none"}]
      /\ why \in [Jobs -> {"none", "unknown_module", "missing_evidence", "run"}]
      /\ hpc \in [Workers -> HorsePc]
      /\ hjob \in [Workers -> Jobs \cup {NoJob}]
  BY <1>a DEF TypeOK
<1>d. /\ NoJob \notin Jobs /\ Jobs \cap Workers = {}
      /\ \A w \in Workers : hjob[w] = NoJob <=> hpc[w] = "idle"
      /\ \A w \in Workers : hpc[w] # "idle" => hjob[w] \in Jobs /\ Held(hjob[w])
  BY <1>a, Busy, NamesAssumption
<1> USE DEF RunsAreLogged, Faultless, RowFollowsHorse, RowFollowsHandler, SameHands,
    SameLog
<1>1. ASSUME NEW j \in Jobs, NEW to \in ApiPc, HandlerMoves(j, to) PROVE RunsAreLogged'
  BY <1>1, <1>a, <1>c, <1>d, AfterHandlerMoves
<1>2. ASSUME NEW j \in Jobs, Enqueue(j) PROVE RunsAreLogged'
  BY <1>2, <1>a, <1>c, <1>d, AfterEnqueue
<1>3. ASSUME NEW j \in Jobs, CommitRow(j) PROVE RunsAreLogged'
  BY <1>3, <1>a, <1>c, <1>d, AfterCommitRow
<1>4. ASSUME NEW j \in Jobs, ApiWriteEntry(j) PROVE RunsAreLogged'
  BY <1>4, <1>a, <1>c, <1>d, AfterApiWriteEntry
<1>5. ASSUME NEW w \in Workers, NEW to \in HorsePc, HorseMoves(w, to) PROVE RunsAreLogged'
  BY <1>5, <1>a, <1>c, <1>d, AfterHorseMoves
<1>6. ASSUME NEW w \in Workers, HorseLeaves(w) PROVE RunsAreLogged'
  BY <1>6, <1>a, <1>c, <1>d, AfterHorseLeaves DEF Frees
<1>7. ASSUME NEW w \in Workers, Dequeue(w) PROVE RunsAreLogged'
  BY <1>7, <1>a, <1>c, <1>d, AfterDequeue
<1>8. ASSUME NEW w \in Workers, StartJob(w) PROVE RunsAreLogged'
  BY <1>8, <1>a, <1>c, <1>d, AfterCommit DEF RowStep
<1>9. ASSUME NEW w \in Workers, RejectJob(w) PROVE RunsAreLogged'
  BY <1>9, <1>a, <1>c, <1>d, AfterRejectJob DEF Frees
<1>10. ASSUME NEW w \in Workers, CommitCompleted(w) PROVE RunsAreLogged'
  BY <1>10, <1>a, <1>c, <1>d, AfterCommit DEF RowStep
<1>11. ASSUME NEW w \in Workers, CommitFailed(w) PROVE RunsAreLogged'
  BY <1>11, <1>a, <1>c, <1>d, AfterCommit DEF RowStep
<1>12. ASSUME NEW w \in Workers, HorseWriteEntry(w) PROVE RunsAreLogged'
  BY <1>12, <1>a, <1>c, <1>d, AfterHorseWriteEntry DEF Frees, Outcome
<1>13. ASSUME LoseQueue PROVE RunsAreLogged'
  BY <1>13, <1>a, <1>c, <1>d, AfterLoseQueue
<1>14. CASE UNCHANGED vars
  BY <1>14, <1>a, <1>c, <1>d, AfterStutter
<1> QED BY <1>b, <1>1, <1>2, <1>3, <1>4, <1>5, <1>6, <1>7, <1>8, <1>9, <1>10, <1>11,
     <1>12, <1>13, <1>14 DEF Shape

-----------------------------------------------------------------------------
LEMMA PipelineInvariance == Spec => []PipelineInv
<1>1. PipelineInv /\ [Next]_vars => PipelineInv'
  BY TypesStay, AppendersStay, RowHandlerStays, RowHorseStays, DistinctStays, AloneStays,
     FreshStays, PushedStays, ApiAcceptsStays, AcceptedStays, FiledStays, LogFollowsStays,
     EachOnceStays, FaultlessStays, RunsStay
  DEF PipelineInv
<1> QED BY PipelineStart, <1>1, PTL DEF Spec

\* The variables of JobPipeline keep their types, those of the log included.
THEOREM PipelineTypeCorrect == Spec => []TypeOK
<1>1. PipelineInv => TypeOK
  BY DEF PipelineInv
<1> QED BY PipelineInvariance, <1>1, PTL

\* Handlers and work horses write the log as CustodyFile describes.
THEOREM PipelineRefinesFile == Spec => Custody!Spec
<1>1. Init => Custody!Init
  BY DEF Init
<1> QED BY <1>1, StepOfLog, PipelineTypeCorrect, PTL DEF Spec, Custody!Spec

\* An entry of the log links to the genesis hash or to an entry before it, however
\* many handlers and horses append at once.
THEOREM PipelineLinksKnown == Spec => []Custody!EveryLinkKnown
<1>1. Init => File!Init
  BY SameFile DEF Init
<1>2. TypeOK /\ [Next]_vars => [File!Next]_File!vars
  BY StepOfLog, SameFile DEF Custody!vars, File!vars
<1>3. File!EveryLinkKnown => Custody!EveryLinkKnown
  BY SameFile
<1>4. File!Spec => []File!EveryLinkKnown
  BY File!LinksKnown, BoundsAssumption
<1> QED BY <1>1, <1>2, <1>3, <1>4, PipelineTypeCorrect, PTL DEF Spec, File!Spec

\* The log claims an enqueue only of a committed job, an outcome only while the row
\* says the same, and nothing twice.
THEOREM LogIsTruthful == Spec => []TruthfulLog
<1>1. PipelineInv => TruthfulLog
  BY DEF PipelineInv, LogFollows, File!EachOnce, TruthfulLog
<1> QED BY PipelineInvariance, <1>1, PTL

\* Without faults, every run that ended is in the log.
THEOREM EveryRunLogged == Spec => []RunsAreLogged
<1>1. PipelineInv => RunsAreLogged
  BY DEF PipelineInv
<1> QED BY PipelineInvariance, <1>1, PTL

\* The worker rejects nothing that the API has accepted.
THEOREM AcceptedRuns == Spec => []AcceptedIsRunnable
<1>1. PipelineInv => AcceptedIsRunnable
  BY DEF PipelineInv
<1> QED BY PipelineInvariance, <1>1, PTL

\* A job that nobody has and that is not completed is in RQ's failed registry, unless
\* a Redis restart dropped it.
THEOREM StrandedAreFiled == Spec => []StrandedIsFiled
<1>1. PipelineInv => StrandedIsFiled
  BY DEF PipelineInv, Filed, StrandedIsFiled
<1> QED BY PipelineInvariance, <1>1, PTL

\* What a step may do to a row.
LEMMA RowSteps ==
  ASSUME PipelineInv, [Next]_vars
  PROVE  \A j \in Jobs :
           row'[j] # row[j] =>
             <<row[j], row'[j]>> \in
               {<<"none", "PENDING">>, <<"PENDING", "RUNNING">>,
                <<"RUNNING", "COMPLETED">>, <<"RUNNING", "FAILED">>}
<1> DEFINE RowsInOrder ==
      \A j \in Jobs :
        row'[j] # row[j] =>
          <<row[j], row'[j]>> \in
            {<<"none", "PENDING">>, <<"PENDING", "RUNNING">>,
             <<"RUNNING", "COMPLETED">>, <<"RUNNING", "FAILED">>}
<1>a. TypeOK /\ Alone /\ RowFollowsHandler /\ RowFollowsHorse
  BY DEF PipelineInv
<1>b. Shape
  BY Shapes DEF PipelineInv
<1>c. /\ row \in [Jobs -> JobStatus \cup {"none"}]
      /\ hpc \in [Workers -> HorsePc]
      /\ hjob \in [Workers -> Jobs \cup {NoJob}]
  BY <1>a DEF TypeOK
<1>d. /\ NoJob \notin Jobs /\ Jobs \cap Workers = {}
      /\ \A w \in Workers : hjob[w] = NoJob <=> hpc[w] = "idle"
      /\ \A w \in Workers : hpc[w] # "idle" => hjob[w] \in Jobs /\ Held(hjob[w])
  BY <1>a, Busy, NamesAssumption
<1> USE DEF RowFollowsHandler, RowFollowsHorse
<1>1. ASSUME NEW j \in Jobs, NEW to \in ApiPc, HandlerMoves(j, to) PROVE RowsInOrder
  BY <1>1, <1>a, <1>c, <1>d, AfterHandlerMoves
<1>2. ASSUME NEW j \in Jobs, Enqueue(j) PROVE RowsInOrder
  BY <1>2, <1>a, <1>c, <1>d, AfterEnqueue
<1>3. ASSUME NEW j \in Jobs, CommitRow(j) PROVE RowsInOrder
  BY <1>3, <1>a, <1>c, <1>d, AfterCommitRow
<1>4. ASSUME NEW j \in Jobs, ApiWriteEntry(j) PROVE RowsInOrder
  BY <1>4, <1>a, <1>c, <1>d, AfterApiWriteEntry
<1>5. ASSUME NEW w \in Workers, NEW to \in HorsePc, HorseMoves(w, to) PROVE RowsInOrder
  BY <1>5, <1>a, <1>c, <1>d, AfterHorseMoves
<1>6. ASSUME NEW w \in Workers, HorseLeaves(w) PROVE RowsInOrder
  BY <1>6, <1>a, <1>c, <1>d, AfterHorseLeaves DEF Frees
<1>7. ASSUME NEW w \in Workers, Dequeue(w) PROVE RowsInOrder
  BY <1>7, <1>a, <1>c, <1>d, AfterDequeue
<1>8. ASSUME NEW w \in Workers, StartJob(w) PROVE RowsInOrder
  BY <1>8, <1>a, <1>c, <1>d, AfterCommit DEF RowStep
<1>9. ASSUME NEW w \in Workers, RejectJob(w) PROVE RowsInOrder
  BY <1>9, <1>a, <1>c, <1>d, AfterRejectJob DEF Frees
<1>10. ASSUME NEW w \in Workers, CommitCompleted(w) PROVE RowsInOrder
  BY <1>10, <1>a, <1>c, <1>d, AfterCommit DEF RowStep
<1>11. ASSUME NEW w \in Workers, CommitFailed(w) PROVE RowsInOrder
  BY <1>11, <1>a, <1>c, <1>d, AfterCommit DEF RowStep
<1>12. ASSUME NEW w \in Workers, HorseWriteEntry(w) PROVE RowsInOrder
  BY <1>12, <1>a, <1>c, <1>d, AfterHorseWriteEntry DEF Frees, Outcome
<1>13. ASSUME LoseQueue PROVE RowsInOrder
  BY <1>13, <1>a, <1>c, <1>d, AfterLoseQueue
<1>14. CASE UNCHANGED vars
  BY <1>14, <1>a, <1>c, <1>d, AfterStutter
<1> QED BY <1>b, <1>1, <1>2, <1>3, <1>4, <1>5, <1>6, <1>7, <1>8, <1>9, <1>10, <1>11,
     <1>12, <1>13, <1>14 DEF Shape

\* A row takes each step of its life once, and COMPLETED and FAILED are final.
THEOREM StatusInOrder == Spec => StatusOrder
<1>1. PipelineInv /\ [Next]_vars =>
        [\A j \in Jobs :
           row'[j] # row[j] =>
             <<row[j], row'[j]>> \in
               {<<"none", "PENDING">>, <<"PENDING", "RUNNING">>,
                <<"RUNNING", "COMPLETED">>, <<"RUNNING", "FAILED">>}]_vars
  BY RowSteps
<1> QED BY PipelineInvariance, <1>1, PTL DEF Spec, StatusOrder
-----------------------------------------------------------------------------
\* A job that is filed or lost is not delivered again, and no handler pushes it.
FiledIsOver ==
  \A j \in Jobs :
    j \in rqFailed \cup lost =>
      ~Queued(j) /\ ~Held(j) /\ api[j] \notin {"new", "refused", "validated", "flushed"}

LEMMA FiledIsOverStays == PipelineInv /\ FiledIsOver /\ [Next]_vars => FiledIsOver'
<1> SUFFICES ASSUME PipelineInv, FiledIsOver, [Next]_vars PROVE FiledIsOver'
  OBVIOUS
<1>a. TypeOK /\ Alone /\ Distinct /\ QueuedIsFresh /\ NotYetPushed /\ FiledIsOver
  BY DEF PipelineInv
<1>b. Shape
  BY Shapes DEF PipelineInv
<1>c. /\ api \in [Jobs -> ApiPc]
      /\ \A w \in Workers : hpc[w] # "idle" => hjob[w] \in Jobs /\ Held(hjob[w])
  BY <1>a, Busy DEF TypeOK
<1>1. ASSUME NEW j \in Jobs, NEW to \in ApiPc, HandlerMoves(j, to) PROVE FiledIsOver'
  BY <1>1, <1>a, <1>c, AfterHandlerMoves DEF FiledIsOver, SameQueue, SameHands
<1>2. ASSUME NEW j \in Jobs, Enqueue(j) PROVE FiledIsOver'
  BY <1>2, <1>a, <1>c, AfterEnqueue DEF FiledIsOver, SameQueue, SameHands
<1>3. ASSUME NEW j \in Jobs, CommitRow(j) PROVE FiledIsOver'
  BY <1>3, <1>a, <1>c, AfterCommitRow DEF FiledIsOver, SameQueue, SameHands
<1>4. ASSUME NEW j \in Jobs, ApiWriteEntry(j) PROVE FiledIsOver'
  BY <1>4, <1>a, <1>c, AfterApiWriteEntry DEF FiledIsOver, SameQueue, SameHands
<1>5. ASSUME NEW w \in Workers, NEW to \in HorsePc, HorseMoves(w, to) PROVE FiledIsOver'
  BY <1>5, <1>a, <1>c, AfterHorseMoves DEF FiledIsOver, SameQueue, SameHands
<1>6. ASSUME NEW w \in Workers, HorseLeaves(w) PROVE FiledIsOver'
  BY <1>6, <1>a, <1>c, AfterHorseLeaves DEF FiledIsOver, SameQueue, SameHands,
      Frees, QueuedIsFresh, NotYetPushed
<1>7. ASSUME NEW w \in Workers, Dequeue(w) PROVE FiledIsOver'
  BY <1>7, <1>a, <1>c, AfterDequeue DEF FiledIsOver, SameQueue, SameHands
<1>8. ASSUME NEW w \in Workers, StartJob(w) PROVE FiledIsOver'
  BY <1>8, <1>a, <1>c, AfterCommit DEF FiledIsOver, SameQueue, SameHands, RowStep
<1>9. ASSUME NEW w \in Workers, RejectJob(w) PROVE FiledIsOver'
  BY <1>9, <1>a, <1>c, AfterRejectJob DEF FiledIsOver, SameQueue, SameHands, Frees,
      QueuedIsFresh, NotYetPushed
<1>10. ASSUME NEW w \in Workers, CommitCompleted(w) PROVE FiledIsOver'
  BY <1>10, <1>a, <1>c, AfterCommit DEF FiledIsOver, SameQueue, SameHands, RowStep
<1>11. ASSUME NEW w \in Workers, CommitFailed(w) PROVE FiledIsOver'
  BY <1>11, <1>a, <1>c, AfterCommit DEF FiledIsOver, SameQueue, SameHands, RowStep
<1>12. ASSUME NEW w \in Workers, HorseWriteEntry(w) PROVE FiledIsOver'
  BY <1>12, <1>a, <1>c, AfterHorseWriteEntry DEF FiledIsOver, SameQueue, SameHands,
      Frees, QueuedIsFresh, NotYetPushed
<1>13. ASSUME LoseQueue PROVE FiledIsOver'
  BY <1>13, <1>a, AfterLoseQueue DEF FiledIsOver, LoseQueue, Queued, SameHands,
      QueuedIsFresh, NotYetPushed
<1>14. CASE UNCHANGED vars
  BY <1>14, <1>a, AfterStutter DEF FiledIsOver, SameQueue, SameHands
<1> QED BY <1>b, <1>1, <1>2, <1>3, <1>4, <1>5, <1>6, <1>7, <1>8, <1>9, <1>10, <1>11,
     <1>12, <1>13, <1>14 DEF Shape

\* A step that moves one job, and one that moves none.
LEMMA PlaceChanges ==
  ASSUME NEW j \in Jobs, NEW x, Place(j)' = x, \A k \in Jobs \ {j} : Place(k)' = Place(k)
  PROVE  [k \in Jobs |-> Place(k)]' = [[k \in Jobs |-> Place(k)] EXCEPT ![j] = x]
OBVIOUS

LEMMA PlacesStay ==
  ASSUME \A k \in Jobs : Place(k)' = Place(k)
  PROVE  [k \in Jobs |-> Place(k)]' = [k \in Jobs |-> Place(k)]
OBVIOUS

\* Each step delivers one job, loses all, moves one record, or is not about delivery.
LEMMA DeliveryStep ==
  PipelineInv /\ FiledIsOver /\ [Next]_vars => [Delivery!Next]_Delivery!vars
<1> SUFFICES ASSUME PipelineInv, FiledIsOver, [Next]_vars
             PROVE  [Delivery!Next]_Delivery!vars
  OBVIOUS
<1>a. /\ TypeOK /\ Alone /\ Distinct /\ QueuedIsFresh /\ NotYetPushed /\ FiledIsOver
      /\ RowFollowsHandler /\ RowFollowsHorse /\ Filed
  BY DEF PipelineInv
<1>b. Shape
  BY Shapes DEF PipelineInv
<1>c. /\ row \in [Jobs -> JobStatus \cup {"none"}]
      /\ \A w \in Workers : hpc[w] # "idle" => hjob[w] \in Jobs /\ Held(hjob[w])
  BY <1>a, Busy DEF TypeOK
<1>d. ASSUME \A k : (Queued(k)' <=> Queued(k)) /\ (Held(k)' <=> Held(k)),
             UNCHANGED <<row, rqFailed, lost>>
      PROVE  UNCHANGED Delivery!vars
  <2>1. \A k \in Jobs : Place(k)' = Place(k)
    BY <1>d DEF Place
  <2> QED BY <1>d, <2>1 DEF Delivery!vars
<1>1. ASSUME NEW j \in Jobs, NEW to \in ApiPc, HandlerMoves(j, to)
     PROVE  [Delivery!Next]_Delivery!vars
  BY <1>1, <1>a, <1>d, AfterHandlerMoves DEF SameQueue, SameHands
<1>2. ASSUME NEW j \in Jobs, Enqueue(j) PROVE [Delivery!Next]_Delivery!vars
  <2>1. Place(j) = "outside" /\ row[j] = "none"
    BY <1>2, <1>a, AfterEnqueue
    DEF Place, FiledIsOver, NotYetPushed, RowFollowsHandler
  <2>2. Place(j)' = "queued" /\ \A k \in Jobs \ {j} : Place(k)' = Place(k)
    BY <1>2, <1>a, AfterEnqueue DEF Place, SameHands
  <2>3. Delivery!Push(j)
    BY <1>2, <1>a, <2>1, <2>2, AfterEnqueue, PlaceChanges DEF Delivery!Push, Delivery!Move
  <2> QED BY <2>3 DEF Delivery!Next
<1>3. ASSUME NEW j \in Jobs, CommitRow(j) PROVE [Delivery!Next]_Delivery!vars
  <2>1. row[j] = "none" /\ row' = [row EXCEPT ![j] = "PENDING"]
    BY <1>3, <1>a, AfterCommitRow DEF RowFollowsHandler
  <2>2. Place(j) # "outside"
    BY <1>3, <1>a, <2>1, AfterCommitRow DEF Place, Filed
  <2>3. \A k \in Jobs : Place(k)' = Place(k)
    <3>1. \A k \in Jobs : (row'[k] = "COMPLETED" <=> row[k] = "COMPLETED")
      BY <1>c, <2>1
    <3>2. \A k \in Jobs : /\ Queued(k)' <=> Queued(k)
                          /\ Held(k)' <=> Held(k)
      BY <1>3, AfterCommitRow DEF SameQueue, SameHands
    <3>3. rqFailed' = rqFailed /\ lost' = lost
      BY <1>3, AfterCommitRow
    <3> QED BY <3>1, <3>2, <3>3 DEF Place
  <2>4. Delivery!Record(j)
    BY <2>1, <2>2, <2>3, PlacesStay DEF Delivery!Record, Delivery!Advance
  <2> QED BY <2>4 DEF Delivery!Next
<1>4. ASSUME NEW j \in Jobs, ApiWriteEntry(j) PROVE [Delivery!Next]_Delivery!vars
  BY <1>4, <1>a, <1>d, AfterApiWriteEntry DEF SameQueue, SameHands
<1>5. ASSUME NEW w \in Workers, NEW to \in HorsePc, HorseMoves(w, to)
     PROVE  [Delivery!Next]_Delivery!vars
  BY <1>5, <1>a, <1>d, AfterHorseMoves DEF SameQueue, SameHands
<1>6. ASSUME NEW w \in Workers, HorseLeaves(w) PROVE [Delivery!Next]_Delivery!vars
  <2>1. PICK j \in Jobs :
          j = hjob[w] /\ Held(j) /\ ~Queued(j) /\ Place(j) = "taken" /\ row' = row
    BY <1>6, <1>a, <1>c, AfterHorseLeaves DEF Place, QueuedIsFresh
  <2>2. \A k \in Jobs \ {j} : Place(k)' = Place(k)
    BY <1>6, <1>a, <2>1, AfterHorseLeaves DEF Place, SameQueue, Frees
  <2>3. ~Queued(j)' /\ ~Held(j)'
    BY <1>6, <1>a, <2>1, AfterHorseLeaves DEF SameQueue, Frees
  <2>4. CASE rqFailed' = rqFailed \cup {j}
    <3>1. Place(j)' = "filed"
      BY <2>3, <2>4 DEF Place
    <3>2. Delivery!File(j)
      BY <2>1, <2>2, <3>1, PlaceChanges DEF Delivery!File, Delivery!Move
    <3> QED BY <2>1, <3>2 DEF Delivery!Next
  <2>5. CASE hpc[w] \in {"log_complete", "append_complete"} /\ rqFailed' = rqFailed
    <3>1. row[j] = "COMPLETED" /\ j \notin rqFailed \cup lost /\ lost' = lost
      BY <1>6, <1>a, <2>1, <2>5, AfterHorseLeaves DEF RowFollowsHorse, FiledIsOver
    <3>2. Place(j)' = "over"
      BY <2>1, <2>3, <2>5, <3>1 DEF Place
    <3>3. Delivery!Return(j)
      BY <2>1, <2>2, <3>1, <3>2, PlaceChanges DEF Delivery!Return, Delivery!Move
    <3> QED BY <2>1, <3>3 DEF Delivery!Next
  <2> QED BY <1>6, <1>a, <2>1, <2>4, <2>5, AfterHorseLeaves
<1>7. ASSUME NEW w \in Workers, Dequeue(w) PROVE [Delivery!Next]_Delivery!vars
  <2>1. PICK j \in Jobs :
          /\ Queued(j) /\ ~Queued(j)'
          /\ \A k \in Jobs \ {j} : Queued(k)' <=> Queued(k)
          /\ Held(j)' /\ \A k \in Jobs \ {j} : Held(k)' <=> Held(k)
          /\ UNCHANGED <<row, rqFailed, lost>>
    BY <1>7, <1>a, AfterDequeue
  <2>2. Place(j) = "queued" /\ row[j] \in {"none", "PENDING"}
    BY <1>a, <2>1 DEF Place, QueuedIsFresh
  <2>3. Place(j)' = "taken" /\ \A k \in Jobs \ {j} : Place(k)' = Place(k)
    BY <2>1 DEF Place
  <2>4. Delivery!Take(j)
    BY <2>1, <2>2, <2>3, PlaceChanges DEF Delivery!Take, Delivery!Move
  <2> QED BY <2>4 DEF Delivery!Next
<1>8. ASSUME NEW w \in Workers, StartJob(w) PROVE [Delivery!Next]_Delivery!vars
  <2>1. PICK j \in Jobs :
          /\ j = hjob[w] /\ Held(j) /\ ~Queued(j) /\ row[j] = "PENDING"
          /\ row' = [row EXCEPT ![j] = "RUNNING"]
    BY <1>8, <1>a, <1>c, AfterCommit DEF RowStep, RowFollowsHorse, QueuedIsFresh
  <2>2. \A k : (Queued(k)' <=> Queued(k)) /\ (Held(k)' <=> Held(k))
    BY <1>8, AfterCommit DEF SameQueue, SameHands
  <2>3. rqFailed' = rqFailed /\ lost' = lost
    BY <1>8, AfterCommit DEF RowStep
  <2>4. Place(j) = "taken" /\ \A k \in Jobs : Place(k)' = Place(k)
    BY <1>c, <2>1, <2>2, <2>3 DEF Place
  <2>5. Delivery!Start(j)
    BY <2>1, <2>4, PlacesStay DEF Delivery!Start, Delivery!Advance
  <2> QED BY <2>1, <2>5 DEF Delivery!Next
<1>9. ASSUME NEW w \in Workers, RejectJob(w) PROVE [Delivery!Next]_Delivery!vars
  <2>1. PICK j \in Jobs :
          /\ j = hjob[w] /\ Held(j) /\ ~Queued(j) /\ row[j] = "RUNNING"
          /\ row' = [row EXCEPT ![j] = "FAILED"]
          /\ rqFailed' = rqFailed \cup {j} /\ lost' = lost
    BY <1>9, <1>a, <1>c, AfterRejectJob DEF RowFollowsHorse, QueuedIsFresh
  <2>2. /\ \A k \in Jobs : Queued(k)' <=> Queued(k)
        /\ \A k \in Jobs : Held(k)' <=> Held(k) /\ k # j
    BY <1>9, <1>a, <2>1, AfterRejectJob DEF SameQueue, Frees
  <2>3. Place(j) = "taken" /\ Place(j)' = "filed"
    BY <2>1, <2>2 DEF Place
  <2>4. \A k \in Jobs \ {j} : Place(k)' = Place(k)
    BY <1>c, <2>1, <2>2 DEF Place
  <2>5. Delivery!Reject(j)
    BY <2>1, <2>3, <2>4, PlaceChanges DEF Delivery!Reject, Delivery!Move, Delivery!Advance
  <2> QED BY <2>1, <2>5 DEF Delivery!Next
<1>10. ASSUME NEW w \in Workers, CommitCompleted(w) PROVE [Delivery!Next]_Delivery!vars
  <2>1. PICK j \in Jobs :
          /\ j = hjob[w] /\ Held(j) /\ ~Queued(j) /\ row[j] = "RUNNING"
          /\ row' = [row EXCEPT ![j] = "COMPLETED"]
    BY <1>10, <1>a, <1>c, AfterCommit DEF RowStep, RowFollowsHorse, QueuedIsFresh
  <2>2. \A k : (Queued(k)' <=> Queued(k)) /\ (Held(k)' <=> Held(k))
    BY <1>10, AfterCommit DEF SameQueue, SameHands
  <2>3. rqFailed' = rqFailed /\ lost' = lost
    BY <1>10, AfterCommit DEF RowStep
  <2>4. Place(j) = "taken" /\ \A k \in Jobs : Place(k)' = Place(k)
    BY <1>c, <2>1, <2>2, <2>3 DEF Place
  <2>5. Delivery!Finish(j)
    BY <2>1, <2>4, PlacesStay DEF Delivery!Finish, Delivery!Advance
  <2> QED BY <2>1, <2>5 DEF Delivery!Next
<1>11. ASSUME NEW w \in Workers, CommitFailed(w) PROVE [Delivery!Next]_Delivery!vars
  <2>1. PICK j \in Jobs :
          /\ j = hjob[w] /\ Held(j) /\ ~Queued(j) /\ row[j] = "RUNNING"
          /\ row' = [row EXCEPT ![j] = "FAILED"]
    BY <1>11, <1>a, <1>c, AfterCommit DEF RowStep, RowFollowsHorse, QueuedIsFresh
  <2>2. \A k : (Queued(k)' <=> Queued(k)) /\ (Held(k)' <=> Held(k))
    BY <1>11, AfterCommit DEF SameQueue, SameHands
  <2>3. rqFailed' = rqFailed /\ lost' = lost
    BY <1>11, AfterCommit DEF RowStep
  <2>4. Place(j) = "taken" /\ \A k \in Jobs : Place(k)' = Place(k)
    BY <1>c, <2>1, <2>2, <2>3 DEF Place
  <2>5. Delivery!Finish(j)
    BY <2>1, <2>4, PlacesStay DEF Delivery!Finish, Delivery!Advance
  <2> QED BY <2>1, <2>5 DEF Delivery!Next
<1>12. ASSUME NEW w \in Workers, HorseWriteEntry(w) PROVE [Delivery!Next]_Delivery!vars
  <2>1. PICK j \in Jobs :
          j = hjob[w] /\ Held(j) /\ ~Queued(j) /\ Place(j) = "taken" /\ row' = row
    BY <1>12, <1>a, <1>c, AfterHorseWriteEntry DEF Place, QueuedIsFresh
  <2>2. \A k \in Jobs \ {j} : Place(k)' = Place(k)
    BY <1>12, <1>a, <2>1, AfterHorseWriteEntry DEF Place, SameQueue, Frees
  <2>3. ~Queued(j)' /\ ~Held(j)'
    BY <1>12, <1>a, <2>1, AfterHorseWriteEntry DEF SameQueue, Frees
  <2>4. CASE rqFailed' = rqFailed \cup {j}
    <3>1. Place(j)' = "filed"
      BY <2>3, <2>4 DEF Place
    <3>2. Delivery!File(j)
      BY <2>1, <2>2, <3>1, PlaceChanges DEF Delivery!File, Delivery!Move
    <3> QED BY <2>1, <3>2 DEF Delivery!Next
  <2>5. CASE hpc[w] = "append_complete" /\ rqFailed' = rqFailed
    <3>1. row[j] = "COMPLETED" /\ j \notin rqFailed \cup lost /\ lost' = lost
      BY <1>12, <1>a, <2>1, <2>5, AfterHorseWriteEntry DEF RowFollowsHorse, FiledIsOver
    <3>2. Place(j)' = "over"
      BY <2>1, <2>3, <2>5, <3>1 DEF Place
    <3>3. Delivery!Return(j)
      BY <2>1, <2>2, <3>1, <3>2, PlaceChanges DEF Delivery!Return, Delivery!Move
    <3> QED BY <2>1, <3>3 DEF Delivery!Next
  <2> QED BY <1>12, <1>a, <2>1, <2>4, <2>5, AfterHorseWriteEntry
<1>13. ASSUME LoseQueue PROVE [Delivery!Next]_Delivery!vars
  <2>1. /\ lost' = lost \cup rqFailed \cup {queue[i] : i \in 1..Len(queue)}
        /\ rqFailed' = {} /\ row' = row
    BY <1>13, <1>a, AfterLoseQueue DEF LoseQueue
  <2>2. \A k \in Jobs : k \in lost' <=> k \in lost \/ k \in rqFailed \/ Queued(k)
    BY <2>1 DEF Queued
  <2>3. \A k \in Jobs : ~Queued(k)' /\ (Held(k)' <=> Held(k)) /\ ~(Queued(k) /\ Held(k))
    BY <1>13, <1>a, AfterLoseQueue DEF SameHands, QueuedIsFresh
  <2>4. \A k \in Jobs :
          Place(k)' = IF Place(k) \in {"queued", "filed"} THEN "lost" ELSE Place(k)
    BY <2>1, <2>2, <2>3 DEF Place
  <2>5. Delivery!Lose
    BY <2>1, <2>4 DEF Delivery!Lose
  <2> QED BY <2>5 DEF Delivery!Next
<1>14. CASE UNCHANGED vars
  BY <1>14, <1>d, AfterStutter DEF SameQueue, SameHands
<1> QED BY <1>b, <1>1, <1>2, <1>3, <1>4, <1>5, <1>6, <1>7, <1>8, <1>9, <1>10, <1>11,
     <1>12, <1>13, <1>14 DEF Shape

\* For any jobs and workers, and whatever dies or fails: a job is handed to one worker
\* once, although it may be taken before its row is committed; only that worker moves
\* its row on; and it is filed if it is given up.
THEOREM PipelineRefinesDelivery == Spec => ImplementsDelivery
<1>1. Init => FiledIsOver
  BY DEF Init, FiledIsOver
<1>2. Init => Delivery!Init
  <2> SUFFICES ASSUME Init PROVE Delivery!Init
    OBVIOUS
  <2>1. 1..Len(queue) = {}
    BY EmptySeq DEF Init
  <2>2. \A j \in Jobs : Place(j) = "outside" /\ row[j] = "none"
    BY <2>1, NamesAssumption DEF Init, Place, Queued, Held
  <2>3. row = [j \in Jobs |-> "none"]
    BY DEF Init
  <2> QED BY <2>2, <2>3 DEF Delivery!Init
<1> QED
  BY <1>1, <1>2, PipelineInvariance, FiledIsOverStays, DeliveryStep, PTL
  DEF Spec, ImplementsDelivery, Delivery!Spec
=============================================================================
