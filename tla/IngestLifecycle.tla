--------------------------- MODULE IngestLifecycle ---------------------------
(***************************************************************************)
(* The life of a source: what the ingest routes, the scout and process     *)
(* phases of services/pipeline.py and the queue worker do to the rows of   *)
(* sources, ingestion_jobs and queue_items.  An action is one committed    *)
(* transaction, or the read a route or a scout acts on later.              *)
(*                                                                         *)
(* A queue row carries the job it was inserted for, so QueueItems is used  *)
(* with the job's identity as the row's.  Sources are named by their URL.  *)
(* Pages, links, files and agents are abstracted to what the three tables  *)
(* see of them: how a scout classifies the other URLs, and whether a phase *)
(* returns or raises.  Slots and notifications are QueueWorker's subject:  *)
(* here a task claims whenever it is idle.  The row lock a running         *)
(* transaction holds on its job is left out: it only forbids some orders   *)
(* of two runs of the same job.                                            *)
(***************************************************************************)
EXTENDS QueueItems

CONSTANTS
  Sources,     \* URLs
  SourceOf,    \* ingestion_jobs.source_id, fixed when the job is created
  Tasks,       \* the worker's slots
  Clients,     \* requests in flight whose guard was read in an earlier step
  None,        \* NULL
  MaxMishaps   \* bound: database errors the worker or _fail_job meets, crashes,
               \* and heartbeats that go stale under a working task, in all

ASSUME SourceOfAssumption == SourceOf \in [Items -> Sources]
ASSUME NoneAssumption == None \notin Items
ASSUME BoundsAssumption == Items # {} /\ MaxMishaps \in Nat

VARIABLES
  srcStatus,  \* sources.status, "none" where there is no row
  display,    \* sources.display_status
  active,     \* sources.active_job_id
  jobStatus,  \* ingestion_jobs.status
  request,    \* what each client's handler has read and not yet written
  pc,         \* where each task is
  run,        \* the job each task works for
  found,      \* how a scout classified the links of its page
  \* Bounds and history, not part of the program
  mishaps,
  stalled,    \* jobs whose heartbeat went stale under a task still at work
  lost,       \* jobs whose failure _fail_job could not record
  attempts    \* how often each row was claimed

sourceRows == <<srcStatus, display, active>>
taskVars == <<pc, run, found>>
history == <<mishaps, stalled, lost, attempts>>
vars == <<rows, sourceRows, jobStatus, request, taskVars, history>>

SourceStatus == {"none", "active", "needs_confirmation", "dismissed",
                 "denied", "failed", "ingested"}
DisplayStatus == {"idle", "queued", "discovering", "extracting",
                  "failed", "needs_review"}
JobStatus == {"none", "scouting", "processing", "completed", "failed", "deleted"}
Link == {"skipped", "certain", "uncertain", "denied"}
Requests == [op : {"process", "discard", "reingest"}, source : Sources]
TaskState == {"idle", "starting", "fetching", "discovered", "processing",
              "reporting", "completing", "marking", "remarking"}

TypeOK ==
  /\ RowsTypeOK
  /\ srcStatus \in [Sources -> SourceStatus]
  /\ display \in [Sources -> DisplayStatus]
  /\ active \in [Sources -> Items \union {None}]
  /\ jobStatus \in [Items -> JobStatus]
  /\ request \in [Clients -> Requests \union {None}]
  /\ pc \in [Tasks -> TaskState]
  /\ run \in [Tasks -> Items]
  /\ found \in [Tasks -> [Sources -> Link]]
  /\ mishaps \in Nat
  /\ stalled \subseteq Items /\ lost \subseteq Items
  /\ attempts \in [Items -> Nat]

AnyJob == CHOOSE j \in Items : TRUE
NoLinks == [s \in Sources |-> "skipped"]

Init ==
  /\ EmptyTable
  /\ srcStatus = [s \in Sources |-> "none"]
  /\ display = [s \in Sources |-> "idle"]
  /\ active = [s \in Sources |-> None]
  /\ jobStatus = [j \in Items |-> "none"]
  /\ request = [c \in Clients |-> None]
  /\ pc = [t \in Tasks |-> "idle"]
  /\ run = [t \in Tasks |-> AnyJob]
  /\ found = [t \in Tasks |-> NoLinks]
  /\ mishaps = 0
  /\ stalled = {} /\ lost = {}
  /\ attempts = [j \in Items |-> 0]

Mishap == mishaps < MaxMishaps /\ mishaps' = mishaps + 1

-----------------------------------------------------------------------------
(* Creating jobs.  A binding gives each of some sources a job of its own   *)
(* that was not used before.                                               *)

JobExists(j) == jobStatus[j] \notin {"none", "deleted"}
Ended(j) == jobStatus[j] \in {"completed", "failed"}
Fresh == {j \in Items : jobStatus[j] = "none"}

Bindings(S) == {job \in [S -> Fresh] : \A s \in S : SourceOf[job[s]] = s}

WithJobs(job) ==
  [j \in Items |-> IF \E s \in DOMAIN job : job[s] = j
                   THEN "scouting" ELSE jobStatus[j]]
WithPointers(job) ==
  [s \in Sources |-> IF s \in DOMAIN job THEN job[s] ELSE active[s]]
WithDisplay(S, d) == [s \in Sources |-> IF s \in S THEN d ELSE display[s]]

(* add_to_queue skips a source that has a queued or processing row.        *)
HasRow(s) == \E j \in Items : SourceOf[j] = s /\ Exists(j)

(* Mutation: every job gets a row. *)
AddToQueueAlways(job) == Insert({job[s] : s \in DOMAIN job})

AddToQueue(job) == Insert({job[s] : s \in {x \in DOMAIN job : ~HasRow(x)}})

-----------------------------------------------------------------------------
(* Routes                                                                  *)

(* POST /ingest.  The upsert of create_source leaves the status of a known *)
(* source alone; nothing is asked of its active job.  (A URL given twice   *)
(* in one request is the same as two requests.)                            *)
Ingest(S) ==
  /\ S # {}
  /\ \E job \in Bindings(S) :
       /\ srcStatus' = [s \in Sources |-> IF s \in S /\ srcStatus[s] = "none"
                                          THEN "active" ELSE srcStatus[s]]
       /\ jobStatus' = WithJobs(job)
       /\ active' = WithPointers(job)
       /\ display' = WithDisplay(S, "queued")
       /\ AddToQueue(job)
  /\ UNCHANGED <<request, taskVars, history>>

(* confirm and reingest read the source first and write later: nothing is  *)
(* locked in between and the guard is not evaluated again.                 *)
CanReingest(s) ==
  srcStatus[s] \notin {"none", "needs_confirmation"} /\ active[s] = None

CanConfirm(s) == srcStatus[s] = "needs_confirmation"

CheckRequest(c, r) ==
  /\ request[c] = None
  /\ IF r.op = "reingest" THEN CanReingest(r.source) ELSE CanConfirm(r.source)
  /\ request' = [request EXCEPT ![c] = r]
  /\ UNCHANGED <<rows, sourceRows, jobStatus, taskVars, history>>

EndRequest(c) == request' = [request EXCEPT ![c] = None]

(* The job, the pointer to it and the row, written in one transaction.     *)
NewRun(s) ==
  \E job \in Bindings({s}) :
    /\ jobStatus' = WithJobs(job)
    /\ active' = WithPointers(job)
    /\ display' = WithDisplay({s}, "queued")
    /\ AddToQueue(job)

Reingest(c) ==
  /\ request[c] # None /\ request[c].op = "reingest"
  /\ NewRun(request[c].source)
  /\ EndRequest(c)
  /\ UNCHANGED <<srcStatus, taskVars, history>>

(* confirm with action "process".                                          *)
Process(c) ==
  /\ request[c] # None /\ request[c].op = "process"
  /\ NewRun(request[c].source)
  /\ srcStatus' = [srcStatus EXCEPT ![request[c].source] = "active"]
  /\ EndRequest(c)
  /\ UNCHANGED <<taskVars, history>>

(* confirm with action "discard".                                          *)
Discard(c) ==
  /\ request[c] # None /\ request[c].op = "discard"
  /\ srcStatus' = [srcStatus EXCEPT ![request[c].source] = "dismissed"]
  /\ display' = [display EXCEPT ![request[c].source] = "idle"]
  /\ EndRequest(c)
  /\ UNCHANGED <<rows, active, jobStatus, taskVars, history>>

(* A handler that raises, or whose client goes away, commits nothing.      *)
AbortRequest(c) ==
  /\ request[c] # None
  /\ EndRequest(c)
  /\ UNCHANGED <<rows, sourceRows, jobStatus, taskVars, history>>

(* DELETE /sources/{id}: the foreign keys cascade to the jobs and rows.  A *)
(* request that still holds the id of the deleted row can only fail.       *)
DeleteSource(s) ==
  /\ srcStatus[s] # "none"
  /\ srcStatus' = [srcStatus EXCEPT ![s] = "none"]
  /\ display' = [display EXCEPT ![s] = "idle"]
  /\ active' = [active EXCEPT ![s] = None]
  /\ jobStatus' = [j \in Items |-> IF SourceOf[j] = s /\ JobExists(j)
                                   THEN "deleted" ELSE jobStatus[j]]
  /\ status' = [j \in Items |-> IF SourceOf[j] = s /\ Exists(j)
                                THEN "gone" ELSE status[j]]
  /\ request' = [c \in Clients |->
                   IF request[c] # None /\ request[c].source = s
                   THEN None ELSE request[c]]
  /\ UNCHANGED <<retries, due, fresh, taskVars, history>>

-----------------------------------------------------------------------------
(* run_scout and run_process                                               *)

Goto(t, s) == pc' = [pc EXCEPT ![t] = s]
Page(t) == SourceOf[run[t]]

(* The worker's look at the source, then the first transaction of the      *)
(* scout.  It leaves the status of the job as an earlier run left it.      *)
BeginScout(t) ==
  /\ pc[t] = "starting"
  /\ display' = IF JobExists(run[t])
                THEN [display EXCEPT ![Page(t)] = "discovering"] ELSE display
  /\ Goto(t, "fetching")
  /\ UNCHANGED <<rows, srcStatus, active, jobStatus, request, run, found, history>>

(* Session 1 reads which of the linked URLs are known and classifies the   *)
(* others.                                                                 *)
Discover(t) ==
  /\ pc[t] = "fetching"
  /\ JobExists(run[t])
  /\ \E links \in [Sources -> Link] :
       /\ \A s \in Sources :
            srcStatus[s] # "none" \/ s = Page(t) => links[s] = "skipped"
       /\ found' = [found EXCEPT ![t] = links]
  /\ Goto(t, "discovered")
  /\ UNCHANGED <<rows, sourceRows, jobStatus, request, run, history>>

(* Session 2 writes what session 1 found, whatever happened in between: a  *)
(* denied URL only if it is still unknown, a certain one by an upsert, an  *)
(* uncertain one by an upsert and an UPDATE of its status.                 *)
Classified(t, l) == {s \in Sources : found[t][s] = l}

StatusAfterScout(t) ==
  [s \in Sources |->
     IF found[t][s] = "uncertain" THEN "needs_confirmation"
     ELSE IF srcStatus[s] # "none" \/ found[t][s] = "skipped" THEN srcStatus[s]
     ELSE IF found[t][s] = "denied" THEN "denied" ELSE "active"]

DisplayAfterScout(t) ==
  [s \in Sources |-> IF s = Page(t) THEN "extracting"
                     ELSE IF found[t][s] = "certain" THEN "queued"
                     ELSE IF found[t][s] = "uncertain" THEN "needs_review"
                     ELSE display[s]]

RecordLinks(t) ==
  /\ pc[t] = "discovered"
  /\ JobExists(run[t])
  /\ srcStatus' = StatusAfterScout(t)
  /\ display' = DisplayAfterScout(t)
  /\ \E job \in Bindings(Classified(t, "certain")) :
       /\ active' = WithPointers(job)
       /\ jobStatus' = [WithJobs(job) EXCEPT ![run[t]] = "processing"]
       /\ AddToQueue(job)
  /\ found' = [found EXCEPT ![t] = NoLinks]
  /\ Goto(t, "processing")
  /\ UNCHANGED <<request, run, history>>

(* Mutation: the end of a run leaves the pointer to the job in place. *)
EndRunKeepingPointer(t, jobEnd, srcEnd, shown) ==
  IF JobExists(run[t])
  THEN /\ jobStatus' = [jobStatus EXCEPT ![run[t]] = jobEnd]
       /\ srcStatus' = [srcStatus EXCEPT ![Page(t)] = srcEnd]
       /\ display' = [display EXCEPT ![Page(t)] = shown]
       /\ UNCHANGED active
  ELSE UNCHANGED <<sourceRows, jobStatus>>

(* run_process commits once, at its end; the pointer is cleared whichever  *)
(* job it names by then.  A job that was deleted is not missed.            *)
EndRun(t, jobEnd, srcEnd, shown) ==
  IF JobExists(run[t])
  THEN /\ jobStatus' = [jobStatus EXCEPT ![run[t]] = jobEnd]
       /\ srcStatus' = [srcStatus EXCEPT ![Page(t)] = srcEnd]
       /\ display' = [display EXCEPT ![Page(t)] = shown]
       /\ active' = [active EXCEPT ![Page(t)] = None]
  ELSE UNCHANGED <<sourceRows, jobStatus>>

(* Mutation: the source is given the status that belongs to the job. *)
CompleteRunMixedUp(t) ==
  /\ pc[t] = "processing"
  /\ EndRun(t, "completed", "completed", "idle")
  /\ Goto(t, "reporting")
  /\ UNCHANGED <<rows, request, run, found, history>>

CompleteRun(t) ==
  /\ pc[t] = "processing"
  /\ EndRun(t, "completed", "ingested", "idle")
  /\ Goto(t, "reporting")
  /\ UNCHANGED <<rows, request, run, found, history>>

(* Any phase may raise: its transaction is rolled back and _fail_job       *)
(* records the failure in one of its own, whose error is swallowed.        *)
FailRun(t) ==
  /\ pc[t] \in {"starting", "fetching", "discovered", "processing"}
  /\ \/ EndRun(t, "failed", "failed", "failed") /\ UNCHANGED <<mishaps, lost>>
     \/ /\ Mishap
        /\ lost' = lost \union {run[t]}
        /\ UNCHANGED <<sourceRows, jobStatus>>
  /\ found' = [found EXCEPT ![t] = NoLinks]
  /\ Goto(t, "reporting")
  /\ UNCHANGED <<rows, request, run, stalled, attempts>>

-----------------------------------------------------------------------------
(* The queue worker around them.  mark_failed is one step here: QueueWorker *)
(* has its two halves.                                                     *)

Busy(j) == \E t \in Tasks : pc[t] # "idle" /\ run[t] = j

ClaimRow(t, j) ==
  /\ pc[t] = "idle"
  /\ Claim(j)
  /\ Goto(t, "starting")
  /\ run' = [run EXCEPT ![t] = j]
  /\ attempts' = [attempts EXCEPT ![j] = @ + 1]
  /\ UNCHANGED <<sourceRows, jobStatus, request, found, mishaps, stalled, lost>>

Leave(t) ==
  /\ Goto(t, "idle")
  /\ run' = [run EXCEPT ![t] = AnyJob]

(* The source is looked up outside the worker's try: an error there ends   *)
(* the task and leaves the row processing.                                 *)
LookUpError(t) ==
  /\ pc[t] = "starting"
  /\ Mishap
  /\ Leave(t)
  /\ UNCHANGED <<rows, sourceRows, jobStatus, request, found, stalled, lost, attempts>>

(* The status of the job decides what becomes of the row; a job that is    *)
(* neither failed nor there counts as done.                                *)
ReadOutcome(t) ==
  /\ pc[t] = "reporting"
  /\ \/ /\ Goto(t, IF jobStatus[run[t]] = "failed" THEN "marking" ELSE "completing")
        /\ UNCHANGED mishaps
     \/ Goto(t, "remarking") /\ Mishap
  /\ UNCHANGED <<rows, sourceRows, jobStatus, request, run, found, stalled, lost, attempts>>

MarkCompleted(t) ==
  /\ pc[t] = "completing"
  /\ \/ Delete(run[t]) /\ Leave(t) /\ UNCHANGED mishaps
     \/ Goto(t, "remarking") /\ Mishap /\ UNCHANGED <<rows, run>>
  /\ UNCHANGED <<sourceRows, jobStatus, request, found, stalled, lost, attempts>>

MarkFailed(t) ==
  /\ pc[t] \in {"marking", "remarking"}
  /\ \/ /\ IF Exists(run[t]) THEN WriteFailure(run[t], ReadForFailure(run[t]))
                              ELSE UNCHANGED rows
        /\ Leave(t)
        /\ UNCHANGED mishaps
     \/ /\ Mishap
        /\ IF pc[t] = "marking" THEN Goto(t, "remarking") /\ UNCHANGED run
                                ELSE Leave(t)
        /\ UNCHANGED rows
  /\ UNCHANGED <<sourceRows, jobStatus, request, found, stalled, lost, attempts>>

Heartbeat(t) ==
  /\ pc[t] # "idle" /\ ~fresh[run[t]]
  /\ Beat(run[t])
  /\ UNCHANGED <<sourceRows, jobStatus, request, taskVars, history>>

HeartbeatLapses(j) ==
  /\ Lapse(j)
  /\ IF Busy(j) THEN Mishap /\ stalled' = stalled \union {j}
                ELSE UNCHANGED <<mishaps, stalled>>
  /\ UNCHANGED <<sourceRows, jobStatus, request, taskVars, lost, attempts>>

RetryComesDue(j) ==
  /\ BackoffEnds(j)
  /\ UNCHANGED <<sourceRows, jobStatus, request, taskVars, history>>

StaleSweep ==
  /\ ReclaimStale
  /\ UNCHANGED <<sourceRows, jobStatus, request, taskVars, history>>

(* The process dies with its tasks and its requests, and is started again. *)
Crash ==
  /\ Mishap
  /\ pc' = [t \in Tasks |-> "idle"]
  /\ run' = [t \in Tasks |-> AnyJob]
  /\ found' = [t \in Tasks |-> NoLinks]
  /\ request' = [c \in Clients |-> None]
  /\ UNCHANGED <<rows, sourceRows, jobStatus, stalled, lost, attempts>>

-----------------------------------------------------------------------------

ClientStep(c) ==
  \/ \E r \in Requests : CheckRequest(c, r)
  \/ Reingest(c) \/ Process(c) \/ Discard(c) \/ AbortRequest(c)

ScoutStep(t) == BeginScout(t) \/ Discover(t) \/ RecordLinks(t)

TaskStep(t) ==
  \/ ScoutStep(t) \/ CompleteRun(t) \/ FailRun(t)
  \/ LookUpError(t) \/ ReadOutcome(t) \/ MarkCompleted(t) \/ MarkFailed(t)

Claims == \E t \in Tasks, j \in Items : ClaimRow(t, j)

Next ==
  \/ \E S \in SUBSET Sources : Ingest(S)
  \/ \E s \in Sources : DeleteSource(s)
  \/ \E c \in Clients : ClientStep(c)
  \/ Claims
  \/ \E t \in Tasks : TaskStep(t) \/ Heartbeat(t)
  \/ \E j \in Items : HeartbeatLapses(j) \/ RetryComesDue(j)
  \/ StaleSweep
  \/ Crash

Spec == Init /\ [][Next]_vars

(* As in QueueWorker: the poll loop, every coroutine, the sweep and the    *)
(* clock go on; nothing is assumed of clients, errors, crashes or of a     *)
(* heartbeat that has an owner.                                            *)
Fairness ==
  /\ WF_vars(Claims)
  /\ \A t \in Tasks : WF_vars(TaskStep(t))
  /\ \A j \in Items : WF_vars(RetryComesDue(j))
  /\ \A j \in Items : WF_vars(~Busy(j) /\ HeartbeatLapses(j))
  /\ WF_vars(StaleSweep)

FairSpec == Spec /\ Fairness

-----------------------------------------------------------------------------
(* The pointer that makes reingest answer "A run is already in progress"   *)
(* never names a job that has ended or belongs to another source, so it    *)
(* never blocks a source on a finished run.                                *)
ActiveJobIsOpen ==
  \A s \in Sources : active[s] # None =>
    /\ SourceOf[active[s]] = s
    /\ jobStatus[active[s]] \in {"scouting", "processing"}

(* A task that kept its heartbeats, working for a source that is there.    *)
Running(t) == pc[t] # "idle" /\ jobStatus[run[t]] # "deleted" /\ run[t] \notin stalled

(* However requests, scouts and retries interleave, two tasks never work   *)
(* on the same source at once, unless one of them missed its heartbeats or *)
(* works for a source that was deleted.                                    *)
OneRunPerSource ==
  \A t1, t2 \in Tasks : Running(t1) /\ Running(t2) /\ Page(t1) = Page(t2) => t1 = t2

(* Jobs of sources none of whose runs missed its heartbeats.               *)
Steady == {j \in Items : \A k \in stalled : SourceOf[k] # SourceOf[j]}

(* The job has ended and its source is not shown as being worked on.       *)
Settled(j) == Ended(j) /\ display[SourceOf[j]] \notin {"discovering", "extracting"}

(* A row leaves the queue only when its run is accounted for: the job has  *)
(* ended (or was deleted with its source) and the source is not shown as   *)
(* being worked on.  The exceptions are a failure _fail_job could not      *)
(* record, a sweep that drops an abandoned row without a retry left, and a *)
(* source one of whose runs missed its heartbeats.                         *)
RowsLeaveSettled ==
  [][\A j \in Steady \ lost : Exists(j) /\ ~Exists(j)' =>
       \/ jobStatus'[j] = "deleted"
       \/ Settled(j)
       \/ j \in Stale /\ retries[j] = MaxRetries]_vars

(* A source whose active job is in the queue is released, whatever fails   *)
(* on the way, unless that failure or the last retry was lost.             *)
QueuedRunEnds ==
  \A s \in Sources, j \in Items :
    (active[s] = j /\ Exists(j)) ~>
      (active[s] # j \/ j \in lost \/ (status[j] = "gone" /\ retries[j] = MaxRetries))

(* What may leave a source blocked by its active job with nothing in the   *)
(* queue to release it, and nothing else does, whatever the order of runs, *)
(* requests, sweeps and crashes: the job never had a row (add_to_queue     *)
(* found an older one), _fail_job could not record its failure, a run of   *)
(* the source missed its heartbeats, or the sweep gave its row up without  *)
(* a retry left.                                                           *)
BlockedIsExplained ==
  \A s \in Sources : active[s] # None =>
    LET j == active[s]
    IN  \/ Exists(j)
        \/ status[j] = "absent"
        \/ j \in lost
        \/ j \notin Steady
        \/ retries[j] = MaxRetries

(* The inductive invariant behind OneRunPerSource: rows belong to jobs that *)
(* exist, a source has one row, and a run that kept its heartbeats is the  *)
(* only one on a fresh, claimed row.                                       *)
RowsHaveJobs ==
  \A j \in Items : /\ Exists(j) => JobExists(j)
                   /\ jobStatus[j] = "none" => status[j] = "absent"

OneRowPerSource ==
  \A i, j \in Items : Exists(i) /\ Exists(j) /\ SourceOf[i] = SourceOf[j] => i = j

RunsOwnRows ==
  \A t \in Tasks : Running(t) =>
    /\ status[run[t]] = "processing" /\ fresh[run[t]]
    /\ \A u \in Tasks : Running(u) /\ run[u] = run[t] => u = t

RunsInv == RowsHaveJobs /\ OneRowPerSource /\ RunsOwnRows

(* And behind RowsLeaveSettled: a task whose phases are over has left its  *)
(* job and its source settled, and nobody else unsettles them meanwhile.   *)
Reporting(t) == pc[t] \in {"reporting", "completing", "marking", "remarking"}

ReportsSettled ==
  \A t \in Tasks :
    Reporting(t) /\ Running(t) /\ run[t] \in Steady \ lost => Settled(run[t])

RetriesCounted == \A j \in Items : retries[j] <= MaxRetries

SettledInv == ReportsSettled /\ RetriesCounted

(* The tasks that have a row in hand.                                      *)
Holders(j) == {t \in Tasks : pc[t] # "idle" /\ run[t] = j}

Service == INSTANCE WorkQueue WITH
  Workers <- Tasks,
  state <- [j \in Items |-> LeaseState(j)],
  holders <- [j \in Items |-> Holders(j)],
  grants <- attempts,
  expired <- stalled

(* To sources and jobs the queue is what QueueWorker shows it to be: each  *)
(* row is leased to one run at a time and never comes back once settled,   *)
(* while scouts and requests add rows in batches, deletions withdraw them  *)
(* under a run, and failures of the run give them back.                    *)
LeasesAreKept == Service!Spec

(* What it rests on beyond RunsInv: no claim is ever without a retry.      *)
AttemptsCounted == \A j \in Items \ stalled : attempts[j] <= AttemptsOf(j)

-----------------------------------------------------------------------------
(* What a docstring says and the code does not keep.                       *)

NewJobsQueued ==
  \A j \in Items : jobStatus[j] = "none" /\ jobStatus'[j] # "none" => status'[j] = "queued"

(* The docstring of reingest_source: a new job is created and enqueued.    *)
ReingestEnqueues ==
  [][\A c \in Clients : Reingest(c) => NewJobsQueued]_vars
=============================================================================
