------------------------ MODULE IngestLifecycleProofs ------------------------
(***************************************************************************)
(* Theorems about IngestLifecycle, for every set of URLs, jobs, tasks and  *)
(* clients and every number of mishaps.                                    *)
(***************************************************************************)
EXTENDS IngestLifecycle, QueueItemsProofs

USE SourceOfAssumption, NoneAssumption, BoundsAssumption, MaxRetriesAssumption

(* What an idle task holds is well typed.                                  *)
LEMMA AnyJobIsJob == AnyJob \in Items
BY DEF AnyJob

(* Binding new jobs to sources keeps sources and jobs well typed.          *)
LEMMA BindingsTyped ==
  ASSUME TypeOK, NEW S \in SUBSET Sources, NEW job \in Bindings(S)
  PROVE  /\ DOMAIN job = S
         /\ \A s \in S : job[s] \in Fresh /\ SourceOf[job[s]] = s
         /\ WithJobs(job) \in [Items -> JobStatus]
         /\ WithPointers(job) \in [Sources -> Items \union {None}]
BY DEF TypeOK, Bindings, WithJobs, WithPointers, JobStatus, Fresh

(* So does showing one status for a set of sources.                        *)
LEMMA DisplayTyped ==
  ASSUME TypeOK, NEW S \in SUBSET Sources, NEW d \in DisplayStatus
  PROVE  WithDisplay(S, d) \in [Sources -> DisplayStatus]
BY DEF TypeOK, WithDisplay

(* And so does a request that creates a run.                               *)
LEMMA NewRunTyped ==
  ASSUME TypeOK, NEW s \in Sources, NewRun(s)
  PROVE  /\ RowsTypeOK' /\ display' \in [Sources -> DisplayStatus]
         /\ jobStatus' \in [Items -> JobStatus]
         /\ active' \in [Sources -> Items \union {None}]
<1> PICK job \in Bindings({s}) :
      /\ jobStatus' = WithJobs(job)
      /\ active' = WithPointers(job)
      /\ display' = WithDisplay({s}, "queued")
      /\ AddToQueue(job)
  BY DEF NewRun
<1>1. RowsTypeOK'
  BY AnyJobIsJob, RowsTyped, ReadTyped DEF AddToQueue, TypeOK
<1>2. display' \in [Sources -> DisplayStatus]
  BY DisplayTyped DEF DisplayStatus
<1>3. jobStatus' \in [Items -> JobStatus] /\ active' \in [Sources -> Items \union {None}]
  BY BindingsTyped
<1> QED BY <1>1, <1>2, <1>3

(* And so does the end of a run, whatever end it is.                       *)
LEMMA EndRunTyped ==
  ASSUME TypeOK, NEW t \in Tasks, NEW jobEnd \in JobStatus, NEW srcEnd \in SourceStatus,
         NEW shown \in DisplayStatus, EndRun(t, jobEnd, srcEnd, shown)
  PROVE  /\ srcStatus' \in [Sources -> SourceStatus]
         /\ display' \in [Sources -> DisplayStatus]
         /\ active' \in [Sources -> Items \union {None}]
         /\ jobStatus' \in [Items -> JobStatus]
<1> run[t] \in Items /\ Page(t) \in Sources
  BY DEF TypeOK, Page
<1>1. CASE JobExists(run[t])
  <2>1. srcStatus' \in [Sources -> SourceStatus]
    BY <1>1 DEF TypeOK, EndRun
  <2>2. display' \in [Sources -> DisplayStatus]
    BY <1>1 DEF TypeOK, EndRun
  <2>3. active' \in [Sources -> Items \union {None}]
    BY <1>1 DEF TypeOK, EndRun
  <2>4. jobStatus' \in [Items -> JobStatus]
    BY <1>1 DEF TypeOK, EndRun
  <2> QED BY <2>1, <2>2, <2>3, <2>4
<1>2. CASE ~JobExists(run[t])
  BY <1>2 DEF TypeOK, EndRun, sourceRows
<1> QED BY <1>1, <1>2

(* Type correctness of the tables, the requests and the tasks.             *)
THEOREM TypeCorrect == Spec => []TypeOK
<1>1. Init => TypeOK
  <2> SUFFICES ASSUME Init PROVE TypeOK
    OBVIOUS
  <2>1. RowsTypeOK
    BY DEF Init, EmptyTable, RowsTypeOK, RowStatus
  <2>2. found \in [Tasks -> [Sources -> Link]]
    BY DEF Init, NoLinks, Link
  <2> QED BY <2>1, <2>2, AnyJobIsJob
          DEF Init, TypeOK, SourceStatus, DisplayStatus, JobStatus, TaskState
<1>2. TypeOK /\ [Next]_vars => TypeOK'
  <2> SUFFICES ASSUME TypeOK, [Next]_vars PROVE TypeOK'
    OBVIOUS
  <2>0. UNCHANGED rows => RowsTypeOK'
    BY RowsKept DEF TypeOK
  <2> USE DEF taskVars, history, sourceRows
  <2>1. ASSUME NEW S \in SUBSET Sources, Ingest(S) PROVE TypeOK'
    <3> PICK job \in Bindings(S) :
          /\ srcStatus' = [s \in Sources |-> IF s \in S /\ srcStatus[s] = "none"
                                             THEN "active" ELSE srcStatus[s]]
          /\ jobStatus' = WithJobs(job)
          /\ active' = WithPointers(job)
          /\ display' = WithDisplay(S, "queued")
          /\ AddToQueue(job)
      BY <2>1 DEF Ingest
    <3>1. RowsTypeOK'
      BY AnyJobIsJob, RowsTyped, ReadTyped DEF AddToQueue, TypeOK
    <3>2. srcStatus' \in [Sources -> SourceStatus]
      BY DEF TypeOK, SourceStatus
    <3>3. display' \in [Sources -> DisplayStatus]
      BY DisplayTyped DEF DisplayStatus
    <3> QED BY <2>1, <3>1, <3>2, <3>3, BindingsTyped DEF Ingest, TypeOK
  <2>2. ASSUME NEW s \in Sources, DeleteSource(s) PROVE TypeOK'
    <3>1. RowsTypeOK'
      BY <2>2 DEF DeleteSource, TypeOK, RowsTypeOK, RowStatus
    <3>2. request' \in [Clients -> Requests \union {None}]
      BY <2>2 DEF DeleteSource, TypeOK
    <3>3. jobStatus' \in [Items -> JobStatus]
      BY <2>2 DEF DeleteSource, TypeOK, JobStatus
    <3> QED BY <2>2, <3>1, <3>2, <3>3
            DEF DeleteSource, TypeOK, SourceStatus, DisplayStatus
  <2>3. ASSUME NEW c \in Clients, ClientStep(c) PROVE TypeOK'
    <3>1. ASSUME NEW r \in Requests, CheckRequest(c, r) PROVE TypeOK'
      BY <3>1, <2>0 DEF CheckRequest, TypeOK
    <3>2. CASE Reingest(c) \/ Process(c)
      <4> DEFINE s == request[c].source
      <4>1. s \in Sources /\ NewRun(s)
        BY <3>2 DEF Reingest, Process, TypeOK, Requests
      <4>2. /\ RowsTypeOK' /\ display' \in [Sources -> DisplayStatus]
            /\ jobStatus' \in [Items -> JobStatus]
            /\ active' \in [Sources -> Items \union {None}]
        BY <4>1, NewRunTyped
      <4>3. srcStatus' \in [Sources -> SourceStatus]
        BY <3>2 DEF Reingest, Process, TypeOK, SourceStatus
      <4>4. request' \in [Clients -> Requests \union {None}]
        BY <3>2 DEF Reingest, Process, EndRequest, TypeOK
      <4> QED BY <3>2, <4>2, <4>3, <4>4 DEF Reingest, Process, TypeOK
    <3>3. CASE Discard(c)
      <4> request[c].source \in Sources
        BY <3>3 DEF Discard, TypeOK, Requests
      <4> QED BY <3>3, <2>0 DEF Discard, EndRequest, TypeOK, SourceStatus, DisplayStatus
    <3>4. CASE AbortRequest(c)
      BY <3>4, <2>0 DEF AbortRequest, EndRequest, TypeOK
    <3> QED BY <2>3, <3>1, <3>2, <3>3, <3>4 DEF ClientStep
  <2>4. ASSUME NEW t \in Tasks, NEW j \in Items, ClaimRow(t, j) PROVE TypeOK'
    <3>1. RowsTypeOK'
      BY <2>4, RowsTyped, ReadTyped DEF ClaimRow, TypeOK
    <3>2. attempts' \in [Items -> Nat]
      BY <2>4 DEF ClaimRow, TypeOK
    <3> QED BY <2>4, <3>1, <3>2 DEF ClaimRow, Goto, TypeOK, TaskState
  <2>5. ASSUME NEW t \in Tasks, TaskStep(t) \/ Heartbeat(t) PROVE TypeOK'
    <3>0. run[t] \in Items /\ Page(t) \in Sources
      BY DEF TypeOK, Page
    <3>1. CASE BeginScout(t)
      BY <3>0, <3>1, <2>0 DEF BeginScout, Goto, TypeOK, TaskState, DisplayStatus
    <3>2. CASE Discover(t)
      BY <3>2, <2>0 DEF Discover, Goto, TypeOK, TaskState
    <3>3. CASE RecordLinks(t)
      <4>1. Classified(t, "certain") \in SUBSET Sources
        BY DEF Classified
      <4> PICK job \in Bindings(Classified(t, "certain")) :
            /\ active' = WithPointers(job)
            /\ jobStatus' = [WithJobs(job) EXCEPT ![run[t]] = "processing"]
            /\ AddToQueue(job)
        BY <3>3 DEF RecordLinks
      <4>2. RowsTypeOK'
        BY AnyJobIsJob, RowsTyped, ReadTyped DEF AddToQueue, TypeOK
      <4>3. jobStatus' \in [Items -> JobStatus] /\ active' \in [Sources -> Items \union {None}]
        BY <4>1, BindingsTyped DEF JobStatus
      <4>4. srcStatus' \in [Sources -> SourceStatus]
        BY <3>3 DEF RecordLinks, StatusAfterScout, TypeOK, SourceStatus
      <4>5. display' \in [Sources -> DisplayStatus]
        BY <3>3 DEF RecordLinks, DisplayAfterScout, TypeOK, DisplayStatus
      <4> QED BY <3>3, <4>2, <4>3, <4>4, <4>5
              DEF RecordLinks, Goto, NoLinks, Link, TypeOK, TaskState
    <3>4. CASE CompleteRun(t)
      <4>1. EndRun(t, "completed", "ingested", "idle")
        BY <3>4 DEF CompleteRun
      <4> QED BY <3>4, <2>0, <4>1, EndRunTyped
              DEF CompleteRun, Goto, TypeOK, TaskState, JobStatus, SourceStatus, DisplayStatus
    <3>5. CASE FailRun(t)
      <4>1. CASE EndRun(t, "failed", "failed", "failed") /\ UNCHANGED <<mishaps, lost>>
        BY <3>5, <2>0, <4>1, EndRunTyped
           DEF FailRun, Goto, NoLinks, Link, TypeOK, TaskState, JobStatus, SourceStatus, DisplayStatus
      <4>2. CASE Mishap /\ lost' = lost \union {run[t]} /\ UNCHANGED <<sourceRows, jobStatus>>
        BY <3>0, <3>5, <2>0, <4>2 DEF FailRun, Goto, NoLinks, Link, TypeOK, TaskState, Mishap
      <4> QED BY <3>5, <4>1, <4>2 DEF FailRun
    <3>6. CASE LookUpError(t)
      BY <3>6, <2>0, AnyJobIsJob DEF LookUpError, Leave, Goto, Mishap, TypeOK, TaskState
    <3>7. CASE ReadOutcome(t)
      <4>1. pc' \in [Tasks -> TaskState]
        BY <3>7 DEF ReadOutcome, Goto, TypeOK, TaskState
      <4>2. mishaps' \in Nat
        BY <3>7 DEF ReadOutcome, Mishap, TypeOK
      <4> QED BY <3>7, <2>0, <4>1, <4>2 DEF ReadOutcome, TypeOK
    <3>8. CASE MarkCompleted(t)
      <4>1. RowsTypeOK'
        BY <3>0, <3>8, RowsTyped, ReadTyped DEF MarkCompleted, TypeOK
      <4>2. pc' \in [Tasks -> TaskState] /\ run' \in [Tasks -> Items]
        BY <3>8, AnyJobIsJob DEF MarkCompleted, Leave, Goto, TypeOK, TaskState
      <4>3. mishaps' \in Nat
        BY <3>8 DEF MarkCompleted, Mishap, TypeOK
      <4> QED BY <3>8, <4>1, <4>2, <4>3 DEF MarkCompleted, TypeOK
    <3>9. CASE MarkFailed(t)
      <4>1. RowsTypeOK'
        BY <3>0, <3>9, RowsTyped, ReadTyped, RowsKept DEF MarkFailed, TypeOK
      <4>2. pc' \in [Tasks -> TaskState] /\ run' \in [Tasks -> Items]
        BY <3>9, AnyJobIsJob DEF MarkFailed, Leave, Goto, TypeOK, TaskState
      <4>3. mishaps' \in Nat
        BY <3>9 DEF MarkFailed, Mishap, TypeOK
      <4> QED BY <3>9, <4>1, <4>2, <4>3 DEF MarkFailed, TypeOK
    <3>10. CASE Heartbeat(t)
      BY <3>0, <3>10, RowsTyped, ReadTyped DEF Heartbeat, TypeOK
    <3> QED BY <2>5, <3>1, <3>2, <3>3, <3>4, <3>5, <3>6, <3>7, <3>8, <3>9, <3>10
            DEF TaskStep, ScoutStep
  <2>6. ASSUME NEW j \in Items, HeartbeatLapses(j) \/ RetryComesDue(j) PROVE TypeOK'
    <3>1. RowsTypeOK'
      BY <2>6, RowsTyped, ReadTyped DEF HeartbeatLapses, RetryComesDue, TypeOK
    <3> QED BY <2>6, <3>1 DEF HeartbeatLapses, RetryComesDue, Mishap, TypeOK
  <2>7. CASE StaleSweep
    <3>1. RowsTypeOK'
      BY <2>7, AnyJobIsJob, RowsTyped, ReadTyped DEF StaleSweep, TypeOK
    <3> QED BY <2>7, <3>1 DEF StaleSweep, TypeOK
  <2>8. CASE Crash
    BY <2>8, <2>0, AnyJobIsJob DEF Crash, Mishap, NoLinks, Link, TypeOK, TaskState
  <2>9. CASE UNCHANGED vars
    BY <2>9, <2>0 DEF vars, TypeOK
  <2> QED BY <2>1, <2>2, <2>3, <2>4, <2>5, <2>6, <2>7, <2>8, <2>9 DEF Next, Claims
<1> QED BY <1>1, <1>2, PTL DEF Spec
-----------------------------------------------------------------------------
(* The active job of a source is open.                                     *)

(* New bindings point their sources at new, open jobs and disturb no other *)
(* pointer.                                                                *)
LEMMA BindingsPoint ==
  ASSUME TypeOK, ActiveJobIsOpen, NEW S \in SUBSET Sources, NEW job \in Bindings(S),
         NEW s \in Sources, WithPointers(job)[s] # None
  PROVE  /\ SourceOf[WithPointers(job)[s]] = s
         /\ WithJobs(job)[WithPointers(job)[s]] \in {"scouting", "processing"}
<1> DEFINE j == WithPointers(job)[s]
<1>1. j \in Items
  BY BindingsTyped
<1>2. CASE s \in S
  <2>1. j = job[s]
    BY <1>2, BindingsTyped DEF WithPointers
  <2> QED BY <1>1, <1>2, <2>1, BindingsTyped DEF WithJobs
<1>3. CASE s \notin S
  <2>1. j = active[s]
    BY <1>3, BindingsTyped DEF WithPointers
  <2>2. SourceOf[j] = s /\ jobStatus[j] \in {"scouting", "processing"}
    BY <2>1 DEF ActiveJobIsOpen
  <2> QED BY <1>1, <2>2 DEF WithJobs
<1> QED BY <1>2, <1>3

(* The end of a run clears the pointer of its own source only.             *)
LEMMA EndRunPoints ==
  ASSUME TypeOK, ActiveJobIsOpen, NEW t \in Tasks, NEW jobEnd, NEW srcEnd, NEW shown,
         EndRun(t, jobEnd, srcEnd, shown)
  PROVE  ActiveJobIsOpen'
<1>1. CASE JobExists(run[t])
  <2> SUFFICES ASSUME NEW s \in Sources, active'[s] # None
               PROVE  /\ SourceOf[active'[s]] = s
                      /\ jobStatus'[active'[s]] \in {"scouting", "processing"}
    BY DEF ActiveJobIsOpen
  <2>1. s # Page(t) /\ active'[s] = active[s]
    BY <1>1 DEF EndRun, TypeOK
  <2>2. active[s] \in Items /\ SourceOf[active[s]] = s
    BY <2>1 DEF ActiveJobIsOpen, TypeOK
  <2>3. active[s] # run[t]
    BY <2>1, <2>2 DEF Page
  <2> QED BY <1>1, <2>1, <2>2, <2>3 DEF EndRun, TypeOK, ActiveJobIsOpen
<1>2. CASE ~JobExists(run[t])
  BY <1>2 DEF EndRun, sourceRows, ActiveJobIsOpen
<1> QED BY <1>1, <1>2

(* No other step touches a pointer or the status of a job.                 *)
LEMMA PointersKept ==
  ActiveJobIsOpen /\ UNCHANGED <<active, jobStatus>> => ActiveJobIsOpen'
BY DEF ActiveJobIsOpen

(* For every interleaving of requests, runs and crashes the pointer that   *)
(* blocks a source names an open job of that source.                       *)
THEOREM ActiveJobsAreOpen == Spec => []ActiveJobIsOpen
<1>1. Init => ActiveJobIsOpen
  BY DEF Init, ActiveJobIsOpen
<1>2. TypeOK /\ ActiveJobIsOpen /\ [Next]_vars => ActiveJobIsOpen'
  <2> SUFFICES ASSUME TypeOK, ActiveJobIsOpen, [Next]_vars PROVE ActiveJobIsOpen'
    OBVIOUS
  <2> USE DEF taskVars, history, sourceRows
  <2>1. ASSUME NEW S \in SUBSET Sources, Ingest(S) PROVE ActiveJobIsOpen'
    <3> PICK job \in Bindings(S) : jobStatus' = WithJobs(job) /\ active' = WithPointers(job)
      BY <2>1 DEF Ingest
    <3> QED BY BindingsPoint DEF ActiveJobIsOpen
  <2>2. ASSUME NEW s \in Sources, DeleteSource(s) PROVE ActiveJobIsOpen'
    BY <2>2 DEF DeleteSource, ActiveJobIsOpen, TypeOK
  <2>3. ASSUME NEW c \in Clients, ClientStep(c) PROVE ActiveJobIsOpen'
    <3>1. CASE Reingest(c) \/ Process(c)
      <4> DEFINE s == request[c].source
      <4>1. {s} \in SUBSET Sources /\ NewRun(s)
        BY <3>1 DEF Reingest, Process, TypeOK, Requests
      <4> PICK job \in Bindings({s}) : jobStatus' = WithJobs(job) /\ active' = WithPointers(job)
        BY <4>1 DEF NewRun
      <4> QED BY <4>1, BindingsPoint DEF ActiveJobIsOpen
    <3>2. CASE ~(Reingest(c) \/ Process(c))
      BY <2>3, <3>2, PointersKept DEF ClientStep, CheckRequest, Discard, AbortRequest
    <3> QED BY <3>1, <3>2
  <2>4. ASSUME NEW t \in Tasks, NEW j \in Items, ClaimRow(t, j) PROVE ActiveJobIsOpen'
    BY <2>4, PointersKept DEF ClaimRow
  <2>5. ASSUME NEW t \in Tasks, TaskStep(t) \/ Heartbeat(t) PROVE ActiveJobIsOpen'
    <3>1. CASE RecordLinks(t)
      <4>1. Classified(t, "certain") \in SUBSET Sources
        BY DEF Classified
      <4> PICK job \in Bindings(Classified(t, "certain")) :
            /\ active' = WithPointers(job)
            /\ jobStatus' = [WithJobs(job) EXCEPT ![run[t]] = "processing"]
        BY <3>1 DEF RecordLinks
      <4> SUFFICES ASSUME NEW s \in Sources, active'[s] # None
                   PROVE  /\ SourceOf[active'[s]] = s
                          /\ jobStatus'[active'[s]] \in {"scouting", "processing"}
        BY DEF ActiveJobIsOpen
      <4>2. active'[s] \in Items
        BY <4>1, BindingsTyped
      <4>3. WithJobs(job) \in [Items -> JobStatus]
        BY <4>1, BindingsTyped
      <4> QED BY <4>1, <4>2, <4>3, BindingsPoint
    <3>2. CASE CompleteRun(t)
      BY <3>2, EndRunPoints DEF CompleteRun
    <3>3. CASE FailRun(t)
      BY <3>3, EndRunPoints, PointersKept DEF FailRun
    <3>4. CASE \/ BeginScout(t) \/ Discover(t) \/ LookUpError(t) \/ ReadOutcome(t)
               \/ MarkCompleted(t) \/ MarkFailed(t) \/ Heartbeat(t)
      BY <3>4, PointersKept
         DEF BeginScout, Discover, LookUpError, ReadOutcome, MarkCompleted, MarkFailed, Heartbeat
    <3> QED BY <2>5, <3>1, <3>2, <3>3, <3>4 DEF TaskStep, ScoutStep
  <2>6. CASE \E j \in Items : HeartbeatLapses(j) \/ RetryComesDue(j)
    BY <2>6, PointersKept DEF HeartbeatLapses, RetryComesDue
  <2>7. CASE StaleSweep \/ Crash \/ UNCHANGED vars
    BY <2>7, PointersKept DEF StaleSweep, Crash, vars
  <2> QED BY <2>1, <2>2, <2>3, <2>4, <2>5, <2>6, <2>7 DEF Next, Claims
<1> QED BY <1>1, <1>2, TypeCorrect, PTL DEF Spec
-----------------------------------------------------------------------------
(* One run per source.                                                     *)

(* The invariant survives a step that leaves the rows as they are, creates *)
(* and deletes no job, and gives no task new work.                         *)
LEMMA QuietStep ==
  ASSUME TypeOK, RunsInv, UNCHANGED status, stalled \subseteq stalled',
         \A j \in Items : fresh[j] => fresh'[j],
         \A j \in Items : jobStatus'[j] = jobStatus[j] \/ (JobExists(j) /\ JobExists(j)'),
         \A t \in Tasks : pc'[t] # "idle" => pc[t] # "idle" /\ run'[t] = run[t]
  PROVE  RunsInv'
<1>1. \A j \in Items : /\ jobStatus'[j] = "none" <=> jobStatus[j] = "none"
                       /\ jobStatus'[j] = "deleted" <=> jobStatus[j] = "deleted"
                       /\ JobExists(j)' <=> JobExists(j)
                       /\ Exists(j)' <=> Exists(j)
  BY DEF JobExists, Exists
<1>2. \A t \in Tasks : Running(t)' => Running(t) /\ run'[t] = run[t] /\ run[t] \in Items
  BY <1>1 DEF Running, TypeOK
<1>3. RowsHaveJobs'
  BY <1>1 DEF RunsInv, RowsHaveJobs
<1>4. OneRowPerSource'
  BY <1>1 DEF RunsInv, OneRowPerSource
<1>5. RunsOwnRows'
  BY <1>2 DEF RunsInv, RunsOwnRows
<1> QED BY <1>3, <1>4, <1>5 DEF RunsInv

(* It survives a task that takes its hands off its row, whether the row    *)
(* goes back to the queue or away.                                         *)
LEMMA LetGo ==
  ASSUME TypeOK, RunsInv, NEW t \in Tasks, pc[t] # "idle", Leave(t),
         UNCHANGED <<jobStatus, stalled>>,
         \A j \in Items \ {run[t]} : status'[j] = status[j] /\ fresh'[j] = fresh[j],
         \A j \in Items : Exists(j)' => Exists(j),
         \A j \in Items : status[j] = "absent" => status'[j] = "absent"
  PROVE  RunsInv'
<1>1. RowsHaveJobs'
  BY DEF RunsInv, RowsHaveJobs, JobExists
<1>2. OneRowPerSource'
  BY DEF RunsInv, OneRowPerSource
<1>3. \A u \in Tasks : Running(u)' =>
        u # t /\ Running(u) /\ run'[u] = run[u] /\ run[u] \in Items
  BY DEF Running, Leave, Goto, TypeOK
<1>4. \A u \in Tasks : Running(u)' => run[u] # run[t]
  <2> SUFFICES ASSUME NEW u \in Tasks, Running(u)', run[u] = run[t] PROVE FALSE
    OBVIOUS
  <2>1. Running(t)
    BY <1>3 DEF Running
  <2> QED BY <1>3, <2>1 DEF RunsInv, RunsOwnRows
<1>5. RunsOwnRows'
  BY <1>3, <1>4 DEF RunsInv, RunsOwnRows
<1> QED BY <1>1, <1>2, <1>5 DEF RunsInv

(* And the creation of jobs: a source that gets a row had none.            *)
LEMMA NewRuns ==
  ASSUME TypeOK, RunsInv, NEW S \in SUBSET Sources, NEW job \in Bindings(S), AddToQueue(job),
         UNCHANGED stalled,
         \A j \in Items : \/ jobStatus'[j] = WithJobs(job)[j]
                          \/ JobExists(j) /\ JobExists(j)',
         \A t \in Tasks : pc'[t] # "idle" => pc[t] # "idle" /\ run'[t] = run[t]
  PROVE  RunsInv'
<1> DEFINE new == {job[s] : s \in {x \in DOMAIN job : ~HasRow(x)}}
<1>1. /\ \A i \in new : status[i] = "absent"
      /\ status' = [i \in Items |-> IF i \in new THEN "queued" ELSE status[i]]
      /\ fresh' = fresh
  BY DEF AddToQueue, Insert
<1>2. \A j \in new : j \in Fresh /\ SourceOf[j] \in S /\ ~HasRow(SourceOf[j])
                     /\ job[SourceOf[j]] = j /\ WithJobs(job)[j] = "scouting"
  BY BindingsTyped DEF WithJobs, Fresh
<1>3. \A j \in Items : Exists(j)' <=> Exists(j) \/ j \in new
  BY <1>1 DEF Exists
<1>4. RowsHaveJobs'
  <2> SUFFICES ASSUME NEW j \in Items
               PROVE  /\ Exists(j)' => JobExists(j)'
                      /\ jobStatus'[j] = "none" => status'[j] = "absent"
    BY DEF RowsHaveJobs
  <2>1. CASE j \in new
    <3>1. jobStatus[j] = "none" /\ jobStatus'[j] = "scouting"
      BY <1>2, <2>1 DEF Fresh, JobExists
    <3> QED BY <3>1 DEF JobExists
  <2>2. CASE j \notin new
    <3>1. status'[j] = status[j] /\ (Exists(j)' <=> Exists(j))
      BY <1>1, <1>3, <2>2
    <3>2. jobStatus'[j] = jobStatus[j] \/ JobExists(j)'
      BY DEF WithJobs, JobExists
    <3> QED BY <3>1, <3>2 DEF RunsInv, RowsHaveJobs, JobExists
  <2> QED BY <2>1, <2>2
<1>5. OneRowPerSource'
  <2> SUFFICES ASSUME NEW i \in Items, NEW j \in Items, Exists(i)', Exists(j)',
                      SourceOf[i] = SourceOf[j]
               PROVE  i = j
    BY DEF OneRowPerSource
  <2>1. CASE i \in new /\ j \in new
    BY <1>2, <2>1
  <2>2. CASE Exists(i) /\ Exists(j)
    BY <2>2 DEF RunsInv, OneRowPerSource
  <2>3. CASE Exists(i) /\ j \in new
    BY <1>2, <2>3 DEF HasRow
  <2>4. CASE i \in new /\ Exists(j)
    BY <1>2, <2>4 DEF HasRow
  <2> QED BY <1>3, <2>1, <2>2, <2>3, <2>4
<1>6. RunsOwnRows'
  <2>1. \A t \in Tasks : Running(t)' => run'[t] = run[t] /\ run[t] \in Items /\ Running(t)
    <3> SUFFICES ASSUME NEW t \in Tasks, Running(t)' PROVE run'[t] = run[t] /\ run[t] \in Items /\ Running(t)
      OBVIOUS
    <3>1. run'[t] = run[t] /\ run[t] \in Items /\ pc[t] # "idle" /\ run[t] \notin stalled
      BY DEF Running, TypeOK
    <3>2. jobStatus'[run[t]] # "deleted"
      BY <3>1 DEF Running
    <3>3. jobStatus[run[t]] # "deleted"
      BY <3>1, <3>2, BindingsTyped DEF WithJobs, JobExists, Fresh
    <3> QED BY <3>1, <3>3 DEF Running
  <2>2. \A t \in Tasks : Running(t) => status[run[t]] = "processing" /\ run[t] \notin new
    BY <1>1 DEF RunsInv, RunsOwnRows
  <2> QED BY <1>1, <2>1, <2>2 DEF RunsInv, RunsOwnRows
<1> QED BY <1>4, <1>5, <1>6 DEF RunsInv

(* The end of a run neither creates nor deletes a job.                     *)
LEMMA EndRunKeepsJobs ==
  ASSUME TypeOK, NEW t \in Tasks, NEW jobEnd \in {"completed", "failed"}, NEW srcEnd, NEW shown,
         EndRun(t, jobEnd, srcEnd, shown)
  PROVE  \A j \in Items : jobStatus'[j] = jobStatus[j] \/ (JobExists(j) /\ JobExists(j)')
BY DEF EndRun, JobExists, TypeOK

(* The invariant holds before anything is ingested.                        *)
LEMMA RunsInit == Init => RunsInv
BY DEF Init, EmptyTable, RunsInv, RowsHaveJobs, OneRowPerSource, RunsOwnRows, Exists, Running

(* Every action preserves it.                                              *)
LEMMA RunsStep ==
  ASSUME TypeOK, RunsInv, [Next]_vars
  PROVE  RunsInv'
<1> USE DEF taskVars, history, sourceRows
<1>1. ASSUME NEW S \in SUBSET Sources, Ingest(S) PROVE RunsInv'
  BY <1>1, NewRuns DEF Ingest
<1>2. ASSUME NEW s \in Sources, DeleteSource(s) PROVE RunsInv'
  <2>1. \A j \in Items : /\ Exists(j)' <=> Exists(j) /\ SourceOf[j] # s
                         /\ jobStatus'[j] = "none" => jobStatus[j] = "none" /\ status'[j] = status[j]
                         /\ SourceOf[j] # s => jobStatus'[j] = jobStatus[j] /\ status'[j] = status[j]
    BY <1>2 DEF DeleteSource, Exists, JobExists, RunsInv, RowsHaveJobs
  <2>2. RowsHaveJobs'
    BY <2>1 DEF RunsInv, RowsHaveJobs, JobExists
  <2>3. OneRowPerSource'
    BY <2>1 DEF RunsInv, OneRowPerSource
  <2>4. \A t \in Tasks : Running(t)' =>
          Running(t) /\ run'[t] = run[t] /\ run[t] \in Items /\ SourceOf[run[t]] # s
    <3> SUFFICES ASSUME NEW t \in Tasks, Running(t)'
                 PROVE  Running(t) /\ run'[t] = run[t] /\ run[t] \in Items /\ SourceOf[run[t]] # s
      OBVIOUS
    <3>1. /\ run'[t] = run[t] /\ run[t] \in Items /\ pc[t] # "idle" /\ run[t] \notin stalled
          /\ jobStatus'[run[t]] # "deleted"
      BY <1>2 DEF DeleteSource, Running, TypeOK
    <3>2. Running(t)
      BY <1>2, <3>1 DEF DeleteSource, Running, JobExists
    <3>3. JobExists(run[t])
      BY <3>1, <3>2 DEF RunsInv, RunsOwnRows, RowsHaveJobs, Exists
    <3> QED BY <1>2, <3>1, <3>2, <3>3 DEF DeleteSource
  <2>5. RunsOwnRows'
    BY <1>2, <2>1, <2>4 DEF DeleteSource, RunsInv, RunsOwnRows
  <2> QED BY <2>2, <2>3, <2>5 DEF RunsInv
<1>3. ASSUME NEW c \in Clients, ClientStep(c) PROVE RunsInv'
  <2>1. CASE Reingest(c) \/ Process(c)
    <3> DEFINE s == request[c].source
    <3>1. {s} \in SUBSET Sources /\ NewRun(s)
      BY <2>1 DEF Reingest, Process, TypeOK, Requests
    <3> PICK job \in Bindings({s}) : jobStatus' = WithJobs(job) /\ AddToQueue(job)
      BY <3>1 DEF NewRun
    <3> QED BY <2>1, <3>1, NewRuns DEF Reingest, Process
  <2>2. CASE Discard(c) \/ AbortRequest(c) \/ \E r \in Requests : CheckRequest(c, r)
    BY <2>2, QuietStep DEF Discard, AbortRequest, CheckRequest, rows
  <2> QED BY <1>3, <2>1, <2>2 DEF ClientStep
<1>4. ASSUME NEW t \in Tasks, NEW j \in Items, ClaimRow(t, j) PROVE RunsInv'
  <2>1. status[j] = "queued" /\ pc[t] = "idle"
    BY <1>4 DEF ClaimRow, Claim, NextInLine, Claimable
  <2>2. /\ status' = [status EXCEPT ![j] = "processing"] /\ fresh' = [fresh EXCEPT ![j] = TRUE]
        /\ run' = [run EXCEPT ![t] = j] /\ pc' = [pc EXCEPT ![t] = "starting"]
        /\ UNCHANGED <<jobStatus, stalled>>
    BY <1>4 DEF ClaimRow, Claim, Goto
  <2>3. \A i \in Items : Exists(i)' <=> Exists(i)
    BY <2>1, <2>2 DEF Exists, TypeOK, RowsTypeOK
  <2>4. RowsHaveJobs'
    BY <2>1, <2>2, <2>3 DEF RunsInv, RowsHaveJobs, JobExists, TypeOK, RowsTypeOK, Exists
  <2>5. OneRowPerSource'
    BY <2>3 DEF RunsInv, OneRowPerSource
  <2>6. \A u \in Tasks \ {t} : Running(u)' =>
          /\ Running(u) /\ run'[u] = run[u] /\ run[u] \in Items /\ run[u] # j
          /\ status[run[u]] = "processing" /\ fresh[run[u]]
    BY <2>1, <2>2 DEF Running, TypeOK, RunsInv, RunsOwnRows
  <2>7. RunsOwnRows'
    BY <2>2, <2>6 DEF RunsInv, RunsOwnRows, TypeOK, RowsTypeOK
  <2> QED BY <2>4, <2>5, <2>7 DEF RunsInv
<1>5. ASSUME NEW t \in Tasks, TaskStep(t) \/ Heartbeat(t) PROVE RunsInv'
  <2>0. run[t] \in Items
    BY DEF TypeOK
  <2>1. CASE BeginScout(t) \/ Discover(t) \/ ReadOutcome(t)
    BY <2>1, QuietStep DEF BeginScout, Discover, ReadOutcome, Goto, rows, TypeOK
  <2>2. CASE RecordLinks(t)
    <3>1. Classified(t, "certain") \in SUBSET Sources
      BY DEF Classified
    <3> PICK job \in Bindings(Classified(t, "certain")) :
          /\ jobStatus' = [WithJobs(job) EXCEPT ![run[t]] = "processing"]
          /\ AddToQueue(job)
      BY <2>2 DEF RecordLinks
    <3>2. WithJobs(job) \in [Items -> JobStatus]
      BY <3>1, BindingsTyped
    <3>3. \A j \in Items : \/ jobStatus'[j] = WithJobs(job)[j]
                           \/ JobExists(j) /\ JobExists(j)'
      BY <2>2, <3>2 DEF RecordLinks, JobExists
    <3>4. \A u \in Tasks : pc'[u] # "idle" => pc[u] # "idle" /\ run'[u] = run[u]
      BY <2>2 DEF RecordLinks, Goto, TypeOK
    <3> QED BY <2>2, <3>1, <3>3, <3>4, NewRuns DEF RecordLinks
  <2>3. CASE CompleteRun(t) \/ FailRun(t)
    <3>1. \A j \in Items : jobStatus'[j] = jobStatus[j] \/ (JobExists(j) /\ JobExists(j)')
      BY <2>3, EndRunKeepsJobs DEF CompleteRun, FailRun
    <3>2. \A u \in Tasks : pc'[u] # "idle" => pc[u] # "idle" /\ run'[u] = run[u]
      BY <2>3 DEF CompleteRun, FailRun, Goto, TypeOK
    <3> QED BY <2>3, <3>1, <3>2, QuietStep DEF CompleteRun, FailRun, rows
  <2>4. CASE LookUpError(t)
    BY <2>4, QuietStep DEF LookUpError, Leave, Goto, rows, TypeOK
  <2>5. CASE MarkCompleted(t)
    <3>1. CASE Delete(run[t]) /\ Leave(t)
      BY <2>0, <2>5, <3>1, LetGo DEF MarkCompleted, Delete, Exists, TypeOK, RowsTypeOK
    <3>2. CASE Goto(t, "remarking") /\ UNCHANGED <<rows, run>>
      BY <2>5, <3>2, QuietStep DEF MarkCompleted, Goto, rows, TypeOK
    <3> QED BY <2>5, <3>1, <3>2 DEF MarkCompleted
  <2>6. CASE MarkFailed(t)
    <3>1. CASE Exists(run[t]) /\ WriteFailure(run[t], ReadForFailure(run[t])) /\ Leave(t)
      <4>1. /\ \A j \in Items \ {run[t]} : status'[j] = status[j] /\ fresh'[j] = fresh[j]
            /\ \A j \in Items : Exists(j)' => Exists(j)
            /\ \A j \in Items : status[j] = "absent" => status'[j] = "absent"
        BY <2>0, <3>1 DEF WriteFailure, Delete, Exists, TypeOK, RowsTypeOK
      <4> QED BY <2>6, <3>1, <4>1, LetGo DEF MarkFailed
    <3>2. CASE UNCHANGED rows /\ Leave(t)
      BY <2>6, <3>2, QuietStep DEF MarkFailed, Leave, Goto, rows, TypeOK
    <3>3. CASE Goto(t, "remarking") /\ UNCHANGED <<rows, run>>
      BY <2>6, <3>3, QuietStep DEF MarkFailed, Goto, rows, TypeOK
    <3> QED BY <2>6, <3>1, <3>2, <3>3 DEF MarkFailed
  <2>7. CASE Heartbeat(t)
    BY <2>0, <2>7, QuietStep DEF Heartbeat, Beat, TypeOK, RowsTypeOK
  <2> QED BY <1>5, <2>1, <2>2, <2>3, <2>4, <2>5, <2>6, <2>7 DEF TaskStep, ScoutStep
<1>6. ASSUME NEW j \in Items, HeartbeatLapses(j) PROVE RunsInv'
  <2>1. UNCHANGED <<status, jobStatus, pc, run>> /\ fresh' = [fresh EXCEPT ![j] = FALSE]
    BY <1>6 DEF HeartbeatLapses, Lapse
  <2>2. \A t \in Tasks : Running(t)' => Running(t) /\ run[t] # j /\ run[t] \in Items
    BY <1>6 DEF HeartbeatLapses, Running, Busy, TypeOK
  <2>3. RunsOwnRows'
    BY <2>1, <2>2 DEF RunsInv, RunsOwnRows, TypeOK, RowsTypeOK
  <2>4. RowsHaveJobs' /\ OneRowPerSource'
    BY <2>1 DEF RunsInv, RowsHaveJobs, OneRowPerSource, Exists, JobExists
  <2> QED BY <2>3, <2>4 DEF RunsInv
<1>7. ASSUME NEW j \in Items, RetryComesDue(j) PROVE RunsInv'
  BY <1>7, QuietStep DEF RetryComesDue, BackoffEnds
<1>8. CASE StaleSweep
  <2>1. \A j \in Items : /\ Exists(j)' => Exists(j)
                         /\ status[j] = "absent" => status'[j] = "absent"
                         /\ fresh[j] => status'[j] = status[j] /\ fresh'[j]
    BY <1>8 DEF StaleSweep, ReclaimStale, Retriable, Stale, Exists
  <2>2. \A t \in Tasks : Running(t)' => Running(t) /\ run'[t] = run[t] /\ run[t] \in Items
    BY <1>8 DEF StaleSweep, Running, TypeOK
  <2>3. RunsOwnRows'
    BY <1>8, <2>1, <2>2 DEF StaleSweep, RunsInv, RunsOwnRows
  <2>4. RowsHaveJobs' /\ OneRowPerSource'
    BY <1>8, <2>1 DEF StaleSweep, RunsInv, RowsHaveJobs, OneRowPerSource, JobExists
  <2> QED BY <2>3, <2>4 DEF RunsInv
<1>9. CASE Crash
  BY <1>9, QuietStep DEF Crash, rows
<1>10. CASE UNCHANGED vars
  BY <1>10, QuietStep DEF vars, rows
<1> QED BY <1>1, <1>2, <1>3, <1>4, <1>5, <1>6, <1>7, <1>8, <1>9, <1>10 DEF Next, Claims

(* So it holds in every reachable state.                                   *)
THEOREM RunsAreOwned == Spec => []RunsInv
<1>1. TypeOK /\ RunsInv /\ [Next]_vars => RunsInv'
  BY RunsStep
<1> QED BY <1>1, RunsInit, TypeCorrect, PTL DEF Spec

(* However many requests, scouts, retries and crashes there are, two tasks *)
(* that kept their heartbeats never work on the same source.               *)
THEOREM RunsAreExclusive == Spec => []OneRunPerSource
<1>1. TypeOK /\ RunsInv => OneRunPerSource
  <2> SUFFICES ASSUME TypeOK, RunsInv, NEW t1 \in Tasks, NEW t2 \in Tasks,
                      Running(t1), Running(t2), Page(t1) = Page(t2)
               PROVE  t1 = t2
    BY DEF OneRunPerSource
  <2>1. run[t1] = run[t2]
    BY DEF RunsInv, RunsOwnRows, OneRowPerSource, Exists, Page, TypeOK
  <2> QED BY <2>1 DEF RunsInv, RunsOwnRows
<1> QED BY <1>1, RunsAreOwned, TypeCorrect, PTL
-----------------------------------------------------------------------------
(* Rows leave the queue settled.                                           *)

(* No statement counts a row beyond its retries.                           *)
LEMMA RetriesStep ==
  ASSUME TypeOK, RetriesCounted, [Next]_vars
  PROVE  RetriesCounted'
<1>1. ASSUME NEW new, Insert(new) PROVE RetriesCounted'
  BY <1>1 DEF Insert, RetriesCounted
<1>2. ASSUME NEW t \in Tasks, MarkFailed(t) PROVE RetriesCounted'
  <2>1. CASE UNCHANGED retries
    BY <2>1 DEF RetriesCounted
  <2>2. CASE /\ retries' = [retries EXCEPT ![run[t]] = retries[run[t]] + 1]
             /\ retries[run[t]] < MaxRetries
    <3> run[t] \in Items /\ retries \in [Items -> Nat]
      BY DEF TypeOK, RowsTypeOK
    <3> QED BY <2>2 DEF RetriesCounted
  <2> QED BY <1>2, <2>1, <2>2
          DEF MarkFailed, WriteFailure, Requeues, ReadForFailure, Delete, rows
<1>3. CASE StaleSweep
  <2> SUFFICES ASSUME NEW j \in Items PROVE retries'[j] <= MaxRetries
    BY DEF RetriesCounted
  <2> retries[j] \in Nat /\ retries[j] <= MaxRetries
    BY DEF TypeOK, RowsTypeOK, RetriesCounted
  <2> QED BY <1>3 DEF StaleSweep, ReclaimStale, Retriable
<1>4. CASE UNCHANGED retries
  BY <1>4 DEF RetriesCounted
<1>5. ASSUME NEW c \in Clients, ClientStep(c) PROVE RetriesCounted'
  BY <1>5, <1>1, <1>4 DEF ClientStep, CheckRequest, Reingest, Process, Discard,
     AbortRequest, NewRun, AddToQueue, rows
<1>6. ASSUME NEW t \in Tasks, TaskStep(t) \/ Heartbeat(t) PROVE RetriesCounted'
  BY <1>6, <1>1, <1>2, <1>4 DEF TaskStep, ScoutStep, BeginScout, Discover, RecordLinks,
     CompleteRun, FailRun, LookUpError, ReadOutcome, MarkCompleted, Heartbeat, Beat,
     AddToQueue, Delete, rows
<1>7. ASSUME NEW S \in SUBSET Sources, Ingest(S) PROVE RetriesCounted'
  BY <1>7, <1>1 DEF Ingest, AddToQueue
<1>8. CASE \/ \E s \in Sources : DeleteSource(s)
           \/ Claims \/ Crash \/ UNCHANGED vars
           \/ \E j \in Items : HeartbeatLapses(j) \/ RetryComesDue(j)
  BY <1>4, <1>8 DEF DeleteSource, Claims, ClaimRow, Claim, Crash, HeartbeatLapses, Lapse,
     RetryComesDue, BackoffEnds, rows, vars
<1> QED BY <1>3, <1>5, <1>6, <1>7, <1>8 DEF Next

(* Tasks report on as before after a step that neither begins a scout nor  *)
(* ends a run: jobs that have ended stay so, or are deleted, and no source *)
(* is shown as being worked on that was not.                               *)
LEMMA ReportsKept ==
  ASSUME TypeOK, ReportsSettled, stalled \subseteq stalled', lost \subseteq lost',
         \A t \in Tasks : Reporting(t)' => Reporting(t) /\ run'[t] = run[t],
         \A j \in Items : jobStatus[j] = "deleted" => jobStatus'[j] = "deleted",
         \A j \in Items : Ended(j) => Ended(j)' \/ jobStatus'[j] = "deleted",
         \A s \in Sources : \/ display'[s] = display[s]
                            \/ display'[s] \notin {"discovering", "extracting"}
  PROVE  ReportsSettled'
<1> SUFFICES ASSUME NEW t \in Tasks, Reporting(t)', Running(t)', (run[t] \in Steady \ lost)'
             PROVE  Settled(run[t])'
  BY DEF ReportsSettled
<1>1. Reporting(t) /\ run'[t] = run[t] /\ run[t] \in Items /\ SourceOf[run[t]] \in Sources
  BY DEF TypeOK
<1>2. Running(t) /\ run[t] \in Steady \ lost
  BY <1>1 DEF Running, Reporting, Steady
<1>3. Settled(run[t])
  BY <1>1, <1>2 DEF ReportsSettled
<1>4. Ended(run[t])'
  BY <1>1, <1>3 DEF Settled, Running
<1>5. display'[SourceOf[run[t]]] \notin {"discovering", "extracting"}
  BY <1>1, <1>3 DEF Settled
<1> QED BY <1>1, <1>4, <1>5 DEF Settled

(* A task at a source of which no run missed its heartbeats is Running if  *)
(* its job is there, so it is the only such task.                          *)
LEMMA AloneOnItsPage ==
  ASSUME TypeOK, OneRunPerSource, NEW t \in Tasks, NEW u \in Tasks, Running(t), run[t] \in Steady,
         pc[u] # "idle", JobExists(run[u]), Page(u) = Page(t)
  PROVE  u = t
<1>1. run[u] \in Items /\ run[u] \notin stalled
  BY DEF TypeOK, Steady, Page
<1>2. Running(u)
  BY <1>1 DEF Running, JobExists
<1> QED BY <1>2 DEF OneRunPerSource

(* The steps of a scout are taken where nobody reports.                    *)
LEMMA ScoutKeepsReports ==
  ASSUME TypeOK, OneRunPerSource, ReportsSettled, NEW u \in Tasks, ScoutStep(u)
  PROVE  ReportsSettled'
<1> USE DEF sourceRows, history
<1>1. \A t \in Tasks : Reporting(t)' => Reporting(t) /\ t # u
  BY DEF ScoutStep, BeginScout, Discover, RecordLinks, Goto, Reporting, TypeOK
<1>2. UNCHANGED <<run, stalled, lost>>
  BY DEF ScoutStep, BeginScout, Discover, RecordLinks
<1>3. \A j \in Items : jobStatus[j] # "none" =>
         jobStatus'[j] = jobStatus[j] \/ (RecordLinks(u) /\ j = run[u])
  <2>1. CASE RecordLinks(u)
    <3> DEFINE S == Classified(u, "certain")
    <3> PICK job \in Bindings(S) : jobStatus' = [WithJobs(job) EXCEPT ![run[u]] = "processing"]
      BY <2>1 DEF RecordLinks
    <3>1. S \in SUBSET Sources
      BY DEF Classified
    <3>2. WithJobs(job) \in [Items -> JobStatus]
      BY <3>1, BindingsTyped
    <3>3. \A j \in Items : jobStatus[j] # "none" => WithJobs(job)[j] = jobStatus[j]
      BY <3>1, BindingsTyped DEF WithJobs, Fresh
    <3> QED BY <2>1, <3>2, <3>3
  <2>2. CASE BeginScout(u) \/ Discover(u)
    BY <2>2 DEF BeginScout, Discover
  <2> QED BY <2>1, <2>2 DEF ScoutStep
<1>4. \A s \in Sources : \/ display'[s] = display[s]
                         \/ display'[s] \notin {"discovering", "extracting"}
                         \/ s = Page(u) /\ JobExists(run[u])
  <2>1. CASE BeginScout(u)
    BY <2>1 DEF BeginScout, TypeOK
  <2>2. CASE Discover(u)
    BY <2>2 DEF Discover
  <2>3. CASE RecordLinks(u)
    BY <2>3 DEF RecordLinks, DisplayAfterScout
  <2> QED BY <2>1, <2>2, <2>3 DEF ScoutStep
<1>5. pc[u] # "idle"
  BY DEF ScoutStep, BeginScout, Discover, RecordLinks
<1>6. RecordLinks(u) => JobExists(run[u])
  BY DEF RecordLinks
<1> SUFFICES ASSUME NEW t \in Tasks, Reporting(t)', Running(t)', (run[t] \in Steady \ lost)'
             PROVE  Settled(run[t])'
  BY DEF ReportsSettled
<1>7. Reporting(t) /\ t # u /\ run'[t] = run[t] /\ run[t] \in Items /\ Page(t) \in Sources
  BY <1>1, <1>2 DEF TypeOK, Page
<1>8. jobStatus[run[t]] # "deleted"
  <2> SUFFICES ASSUME jobStatus[run[t]] = "deleted" PROVE FALSE
    OBVIOUS
  <2>1. jobStatus'[run[t]] = "deleted"
    BY <1>3, <1>6, <1>7 DEF JobExists
  <2> QED BY <1>7, <2>1 DEF Running
<1>9. Running(t) /\ run[t] \in Steady \ lost
  BY <1>2, <1>7, <1>8 DEF Running, Reporting, Steady
<1>10. ~(Page(t) = Page(u) /\ JobExists(run[u]))
  BY <1>5, <1>7, <1>9, AloneOnItsPage
<1>11. Settled(run[t])
  BY <1>7, <1>9 DEF ReportsSettled
<1>12. Ended(run[t])'
  <2>1. jobStatus'[run[t]] = jobStatus[run[t]]
    BY <1>3, <1>6, <1>7, <1>10, <1>11 DEF Settled, Ended, Page
  <2> QED BY <1>7, <1>11, <2>1 DEF Settled, Ended
<1>13. display'[SourceOf[run[t]]] \notin {"discovering", "extracting"}
  BY <1>4, <1>7, <1>10, <1>11 DEF Settled, Page
<1> QED BY <1>7, <1>12, <1>13 DEF Settled

(* The end of a run, good or bad, settles its job and its source; a        *)
(* failure that could not be recorded is remembered in lost.               *)
LEMMA EndsSettle ==
  ASSUME TypeOK, RunsInv, ReportsSettled, NEW u \in Tasks, CompleteRun(u) \/ FailRun(u)
  PROVE  ReportsSettled'
<1> USE DEF sourceRows, history
<1>0. run[u] \in Items /\ Page(u) \in Sources /\ pc[u] # "idle"
  BY DEF TypeOK, Page, CompleteRun, FailRun
<1>1. \A t \in Tasks : Reporting(t)' => Reporting(t) \/ t = u
  BY DEF CompleteRun, FailRun, Goto, Reporting, TypeOK
<1>2. UNCHANGED <<run, stalled>> /\ lost \subseteq lost'
  BY DEF CompleteRun, FailRun
<1>3. \/ \E jobEnd \in {"completed", "failed"}, srcEnd \in SourceStatus, shown \in {"idle", "failed"} :
           EndRun(u, jobEnd, srcEnd, shown)
      \/ run[u] \in lost' /\ UNCHANGED <<display, jobStatus>>
  BY DEF CompleteRun, FailRun, SourceStatus
<1>4. \A j \in Items : \/ jobStatus'[j] = jobStatus[j]
                       \/ jobStatus[j] # "deleted" /\ Ended(j)'
  BY <1>0, <1>3 DEF EndRun, JobExists, Ended, TypeOK
<1>5. \A s \in Sources : \/ display'[s] = display[s]
                         \/ display'[s] \notin {"discovering", "extracting"}
  BY <1>0, <1>3 DEF EndRun, TypeOK
<1> SUFFICES ASSUME NEW t \in Tasks, Reporting(t)', Running(t)', (run[t] \in Steady \ lost)'
             PROVE  Settled(run[t])'
  BY DEF ReportsSettled
<1>6. run'[t] = run[t] /\ run[t] \in Items /\ SourceOf[run[t]] \in Sources
  BY <1>2 DEF TypeOK
<1>7. pc[t] # "idle" /\ Running(t) /\ run[t] \in Steady \ lost
  <2>1. pc[t] # "idle"
    BY <1>0, <1>1 DEF Reporting
  <2>2. jobStatus[run[t]] # "deleted"
    BY <1>4, <1>6 DEF Running
  <2> QED BY <1>2, <1>6, <2>1, <2>2 DEF Running, Steady
<1>8. CASE t # u
  <2>1. Settled(run[t])
    BY <1>1, <1>7, <1>8 DEF ReportsSettled
  <2>2. Ended(run[t])'
    BY <1>4, <1>6, <2>1 DEF Settled, Ended
  <2>3. display'[SourceOf[run[t]]] \notin {"discovering", "extracting"}
    BY <1>5, <1>6, <2>1 DEF Settled
  <2> QED BY <1>6, <2>2, <2>3 DEF Settled
<1>9. CASE t = u
  <2>1. JobExists(run[u])
    BY <1>0, <1>7, <1>9 DEF RunsInv, RunsOwnRows, RowsHaveJobs, Exists
  <2> PICK jobEnd \in {"completed", "failed"}, srcEnd \in SourceStatus, shown \in {"idle", "failed"} :
         EndRun(u, jobEnd, srcEnd, shown)
    BY <1>3, <1>6, <1>9
  <2>2. jobStatus'[run[u]] = jobEnd
    BY <1>0, <2>1 DEF EndRun, TypeOK
  <2>3. display'[Page(u)] = shown
    BY <1>0, <2>1 DEF EndRun, TypeOK
  <2>4. Ended(run[u])'
    BY <1>2, <2>2 DEF Ended
  <2> QED BY <1>2, <1>9, <2>3, <2>4 DEF Settled, Page
<1> QED BY <1>8, <1>9

(* New jobs are made of identities no task has reported on.                *)
LEMMA BindingsKeepEnds ==
  ASSUME TypeOK, NEW S \in SUBSET Sources, NEW job \in Bindings(S),
         jobStatus' = WithJobs(job), display' = WithDisplay(S, "queued")
  PROVE  /\ \A j \in Items : jobStatus[j] # "none" => jobStatus'[j] = jobStatus[j]
         /\ \A s \in Sources : \/ display'[s] = display[s]
                               \/ display'[s] \notin {"discovering", "extracting"}
BY BindingsTyped DEF WithJobs, WithDisplay, Fresh

(* Every action preserves the invariant.                                   *)
LEMMA SettledStep ==
  ASSUME TypeOK, RunsInv, OneRunPerSource, SettledInv, [Next]_vars
  PROVE  SettledInv'
<1> USE DEF taskVars, history, sourceRows, Ended
<1> ReportsSettled
  BY DEF SettledInv
<1>0. RetriesCounted'
  BY RetriesStep DEF SettledInv
<1>1. ASSUME NEW S \in SUBSET Sources, Ingest(S) PROVE ReportsSettled'
  <2> PICK job \in Bindings(S) : jobStatus' = WithJobs(job) /\ display' = WithDisplay(S, "queued")
    BY <1>1 DEF Ingest
  <2> QED BY <1>1, BindingsKeepEnds, ReportsKept DEF Ingest, Reporting
<1>2. ASSUME NEW s \in Sources, DeleteSource(s) PROVE ReportsSettled'
  <2>1. \A j \in Items : jobStatus'[j] = jobStatus[j] \/ jobStatus'[j] = "deleted"
    BY <1>2 DEF DeleteSource
  <2>2. \A x \in Sources : display'[x] = display[x] \/ display'[x] \notin {"discovering", "extracting"}
    BY <1>2 DEF DeleteSource, TypeOK
  <2> QED BY <1>2, <2>1, <2>2, ReportsKept DEF DeleteSource, Reporting
<1>3. ASSUME NEW c \in Clients, ClientStep(c) PROVE ReportsSettled'
  <2>1. CASE Reingest(c) \/ Process(c)
    <3> DEFINE s == request[c].source
    <3>1. {s} \in SUBSET Sources /\ NewRun(s)
      BY <2>1 DEF Reingest, Process, TypeOK, Requests
    <3> PICK job \in Bindings({s}) : jobStatus' = WithJobs(job) /\ display' = WithDisplay({s}, "queued")
      BY <3>1 DEF NewRun
    <3>2. UNCHANGED <<pc, run, stalled, lost>>
      BY <2>1 DEF Reingest, Process
    <3> QED BY <3>1, <3>2, BindingsKeepEnds, ReportsKept DEF Reporting
  <2>2. CASE Discard(c)
    <3> \A x \in Sources : display'[x] = display[x] \/ display'[x] \notin {"discovering", "extracting"}
      BY <2>2 DEF Discard, TypeOK
    <3> QED BY <2>2, ReportsKept DEF Discard, Reporting
  <2>3. CASE AbortRequest(c) \/ \E r \in Requests : CheckRequest(c, r)
    BY <2>3, ReportsKept DEF AbortRequest, CheckRequest, Reporting
  <2> QED BY <1>3, <2>1, <2>2, <2>3 DEF ClientStep
<1>4. ASSUME NEW t \in Tasks, TaskStep(t) PROVE ReportsSettled'
  <2>1. CASE ScoutStep(t)
    BY <2>1, ScoutKeepsReports
  <2>2. CASE CompleteRun(t) \/ FailRun(t)
    BY <2>2, EndsSettle
  <2>3. CASE LookUpError(t) \/ ReadOutcome(t) \/ MarkCompleted(t) \/ MarkFailed(t)
    <3>1. UNCHANGED <<display, jobStatus, stalled, lost>>
      BY <2>3 DEF LookUpError, ReadOutcome, MarkCompleted, MarkFailed
    <3>2. \A u \in Tasks : Reporting(u)' => Reporting(u) /\ run'[u] = run[u]
      BY <2>3 DEF LookUpError, ReadOutcome, MarkCompleted, MarkFailed, Leave, Goto, Reporting, TypeOK
    <3> QED BY <3>1, <3>2, ReportsKept
  <2> QED BY <1>4, <2>1, <2>2, <2>3 DEF TaskStep
<1>5. ASSUME Claims PROVE ReportsSettled'
  <2> PICK t \in Tasks : \E j \in Items : ClaimRow(t, j)
    BY <1>5 DEF Claims
  <2>1. \A u \in Tasks : Reporting(u)' => Reporting(u) /\ run'[u] = run[u]
    BY DEF ClaimRow, Goto, Reporting, TypeOK
  <2> QED BY <2>1, ReportsKept DEF ClaimRow
<1>6. ASSUME Crash PROVE ReportsSettled'
  BY <1>6, ReportsKept DEF Crash, Reporting
<1>7. ASSUME \/ \E t \in Tasks : Heartbeat(t)
             \/ \E j \in Items : HeartbeatLapses(j) \/ RetryComesDue(j)
             \/ StaleSweep \/ UNCHANGED vars
      PROVE  ReportsSettled'
  <2>1. UNCHANGED <<display, jobStatus, pc, run, lost>> /\ stalled \subseteq stalled'
    BY <1>7 DEF Heartbeat, HeartbeatLapses, RetryComesDue, StaleSweep, vars
  <2> QED BY <2>1, ReportsKept DEF Reporting
<1>8. ReportsSettled'
  BY <1>1, <1>2, <1>3, <1>4, <1>5, <1>6, <1>7 DEF Next
<1> QED BY <1>0, <1>8 DEF SettledInv

(* A row that leaves does so by the task whose run is over, by the sweep   *)
(* or with its source.                                                     *)
LEMMA RowsLeaveBy ==
  ASSUME TypeOK, RunsInv, [Next]_vars, NEW j \in Items, Exists(j), ~Exists(j)'
  PROVE  \/ \E t \in Tasks : run[t] = j /\ Reporting(t)
         \/ j \in Stale /\ ~(retries[j] < MaxRetries)
         \/ jobStatus'[j] = "deleted"
<1> USE DEF taskVars, history, sourceRows
<1>0. ~(UNCHANGED status)
  BY DEF Exists
<1>1. ASSUME NEW new, Insert(new) PROVE FALSE
  BY <1>1 DEF Insert, Exists
<1>2. ASSUME NEW S \in SUBSET Sources, Ingest(S) PROVE FALSE
  BY <1>1, <1>2 DEF Ingest, AddToQueue
<1>3. ASSUME NEW c \in Clients, ClientStep(c) PROVE FALSE
  BY <1>0, <1>1, <1>3 DEF ClientStep, CheckRequest, Reingest, Process, Discard, AbortRequest,
     NewRun, AddToQueue, rows
<1>4. ASSUME NEW s \in Sources, DeleteSource(s) PROVE jobStatus'[j] = "deleted"
  <2>1. JobExists(j) /\ SourceOf[j] = s
    BY <1>4 DEF DeleteSource, RunsInv, RowsHaveJobs, Exists
  <2> QED BY <1>4, <2>1 DEF DeleteSource
<1>5. ASSUME Claims PROVE FALSE
  <2> PICK t \in Tasks : \E i \in Items : ClaimRow(t, i)
    BY <1>5 DEF Claims
  <2> QED BY DEF ClaimRow, Claim, TypeOK, RowsTypeOK, Exists
<1>6. ASSUME NEW t \in Tasks, TaskStep(t) PROVE run[t] = j /\ Reporting(t)
  <2> run[t] \in Items
    BY DEF TypeOK
  <2>1. ~ScoutStep(t)
    BY <1>0, <1>1 DEF ScoutStep, BeginScout, Discover, RecordLinks, AddToQueue, rows
  <2>2. ~(CompleteRun(t) \/ FailRun(t) \/ LookUpError(t) \/ ReadOutcome(t))
    BY <1>0 DEF CompleteRun, FailRun, LookUpError, ReadOutcome, rows
  <2>3. MarkCompleted(t) \/ MarkFailed(t)
    BY <1>6, <2>1, <2>2 DEF TaskStep
  <2>4. Reporting(t)
    BY <2>3 DEF MarkCompleted, MarkFailed, Reporting
  <2>5. \A i \in Items \ {run[t]} : status'[i] = status[i]
    BY <1>0, <2>3 DEF MarkCompleted, MarkFailed, Delete, WriteFailure, rows, TypeOK, RowsTypeOK
  <2> QED BY <2>4, <2>5 DEF Exists
<1>7. ASSUME StaleSweep PROVE j \in Stale /\ ~(retries[j] < MaxRetries)
  BY <1>7 DEF StaleSweep, ReclaimStale, Retriable, Exists
<1>8. ASSUME \/ \E t \in Tasks : Heartbeat(t)
             \/ \E i \in Items : HeartbeatLapses(i) \/ RetryComesDue(i)
             \/ Crash \/ UNCHANGED vars
      PROVE  FALSE
  BY <1>0, <1>8 DEF Heartbeat, Beat, HeartbeatLapses, Lapse, RetryComesDue, BackoffEnds, Crash,
     rows, vars
<1> QED BY <1>2, <1>3, <1>4, <1>5, <1>6, <1>7, <1>8 DEF Next

(* What the invariants make of those three ways: the row leaves settled, or *)
(* it is one of the exceptions RowsLeaveSettled names.                     *)
LEMMA RowsLeaveExplained ==
  ASSUME TypeOK, RunsInv, SettledInv, [Next]_vars,
         NEW j \in Steady \ lost, Exists(j), ~Exists(j)'
  PROVE  \/ jobStatus'[j] = "deleted"
         \/ Settled(j)
         \/ j \in Stale /\ retries[j] = MaxRetries
<1>0. j \in Items /\ \A k \in stalled : SourceOf[k] # SourceOf[j]
  BY DEF Steady
<1> SUFFICES ASSUME jobStatus'[j] # "deleted"
             PROVE  Settled(j) \/ (j \in Stale /\ retries[j] = MaxRetries)
  OBVIOUS
<1>1. CASE \E t \in Tasks : run[t] = j /\ Reporting(t)
  <2> PICK t \in Tasks : run[t] = j /\ Reporting(t)
    BY <1>1
  <2>1. Running(t)
    BY <1>0 DEF Running, Reporting, RunsInv, RowsHaveJobs, JobExists
  <2> QED BY <2>1 DEF SettledInv, ReportsSettled
<1>2. CASE j \in Stale /\ ~(retries[j] < MaxRetries)
  <2>1. retries[j] \in Nat
    BY <1>0 DEF TypeOK, RowsTypeOK
  <2>2. retries[j] <= MaxRetries
    BY <1>0 DEF SettledInv, RetriesCounted
  <2> QED BY <1>2, <2>1, <2>2, MaxRetriesAssumption
<1> QED BY <1>0, <1>1, <1>2, RowsLeaveBy

(* However many requests, scouts, retries, errors and crashes there are, a *)
(* row of a source whose runs kept their heartbeats leaves the queue with  *)
(* its job ended and its source no longer shown as being worked on, unless *)
(* the failure could not be recorded or the sweep dropped the row at its   *)
(* last retry.                                                             *)
THEOREM RowsLeaveOnlySettled == Spec => RowsLeaveSettled
<1>1. Init => SettledInv
  BY DEF Init, EmptyTable, SettledInv, ReportsSettled, RetriesCounted, Reporting
<1>2. TypeOK /\ RunsInv /\ OneRunPerSource /\ SettledInv /\ [Next]_vars => SettledInv'
  BY SettledStep
<1>3. TypeOK /\ RunsInv /\ SettledInv /\ [Next]_vars
      => [\A j \in Steady \ lost : Exists(j) /\ ~Exists(j)' =>
           \/ jobStatus'[j] = "deleted"
           \/ Settled(j)
           \/ j \in Stale /\ retries[j] = MaxRetries]_vars
  BY RowsLeaveExplained
<1> QED BY <1>1, <1>2, <1>3, TypeCorrect, RunsAreOwned, RunsAreExclusive, PTL
        DEF Spec, RowsLeaveSettled
-----------------------------------------------------------------------------
(* A blocked source is explained.                                          *)

(* Retry counters only grow.                                               *)
LEMMA RetriesGrow ==
  ASSUME TypeOK, [Next]_vars, NEW j \in Items
  PROVE  retries[j] <= retries'[j]
<1>0. retries[j] \in Nat
  BY DEF TypeOK, RowsTypeOK
<1>1. ASSUME NEW new, Insert(new) PROVE retries' = retries
  BY <1>1 DEF Insert
<1>2. ASSUME NEW t \in Tasks, MarkFailed(t) PROVE retries[j] <= retries'[j]
  <2>1. CASE UNCHANGED retries
    BY <1>0, <2>1
  <2>2. CASE retries' = [retries EXCEPT ![run[t]] = retries[run[t]] + 1]
    <3> run[t] \in Items /\ retries \in [Items -> Nat]
      BY DEF TypeOK, RowsTypeOK
    <3> QED BY <2>2
  <2> QED BY <1>2, <2>1, <2>2
          DEF MarkFailed, WriteFailure, ReadForFailure, Delete, rows
<1>3. CASE StaleSweep
  BY <1>0, <1>3 DEF StaleSweep, ReclaimStale
<1>4. CASE UNCHANGED retries
  BY <1>0, <1>4
<1>5. ASSUME NEW c \in Clients, ClientStep(c) PROVE retries[j] <= retries'[j]
  BY <1>5, <1>1, <1>4 DEF ClientStep, CheckRequest, Reingest, Process, Discard,
     AbortRequest, NewRun, AddToQueue, rows
<1>6. ASSUME NEW t \in Tasks, TaskStep(t) \/ Heartbeat(t) PROVE retries[j] <= retries'[j]
  BY <1>6, <1>1, <1>2, <1>4 DEF TaskStep, ScoutStep, BeginScout, Discover, RecordLinks,
     CompleteRun, FailRun, LookUpError, ReadOutcome, MarkCompleted, Heartbeat, Beat,
     AddToQueue, Delete, rows
<1>7. ASSUME NEW S \in SUBSET Sources, Ingest(S) PROVE retries[j] <= retries'[j]
  BY <1>7, <1>1, <1>4 DEF Ingest, AddToQueue
<1>8. CASE \/ \E s \in Sources : DeleteSource(s)
           \/ Claims \/ Crash \/ UNCHANGED vars
           \/ \E i \in Items : HeartbeatLapses(i) \/ RetryComesDue(i)
  BY <1>4, <1>8 DEF DeleteSource, Claims, ClaimRow, Claim, Crash, HeartbeatLapses, Lapse,
     RetryComesDue, BackoffEnds, rows, vars
<1> QED BY <1>3, <1>5, <1>6, <1>7, <1>8 DEF Next

(* A missed heartbeat and an unrecorded failure are never forgotten.       *)
LEMMA MarksGrow ==
  ASSUME [Next]_vars
  PROVE  stalled \subseteq stalled' /\ lost \subseteq lost'
<1> USE DEF history, taskVars
<1>1. ASSUME NEW t \in Tasks, TaskStep(t) \/ Heartbeat(t)
      PROVE  stalled \subseteq stalled' /\ lost \subseteq lost'
  BY <1>1 DEF TaskStep, ScoutStep, BeginScout, Discover, RecordLinks, CompleteRun, FailRun,
     LookUpError, ReadOutcome, MarkCompleted, MarkFailed, Heartbeat
<1>2. ASSUME NEW c \in Clients, ClientStep(c) PROVE UNCHANGED <<stalled, lost>>
  BY <1>2 DEF ClientStep, CheckRequest, Reingest, Process, Discard, AbortRequest
<1>3. CASE \/ \E S \in SUBSET Sources : Ingest(S)
           \/ \E s \in Sources : DeleteSource(s)
           \/ Claims \/ StaleSweep \/ Crash \/ UNCHANGED vars
           \/ \E i \in Items : HeartbeatLapses(i) \/ RetryComesDue(i)
  BY <1>3 DEF Ingest, DeleteSource, Claims, ClaimRow, StaleSweep, Crash, HeartbeatLapses,
     RetryComesDue, vars
<1> QED BY <1>1, <1>2, <1>3 DEF Next

(* A row comes into being queued.                                          *)
LEMMA RowsStartQueued ==
  ASSUME TypeOK, [Next]_vars, NEW j \in Items, status[j] = "absent"
  PROVE  status'[j] = "absent" \/ Exists(j)'
<1> USE DEF taskVars, history, sourceRows
<1>0. status \in [Items -> RowStatus] /\ ~Exists(j)
  BY DEF TypeOK, RowsTypeOK, Exists
<1>1. ASSUME NEW new, Insert(new) PROVE status'[j] = "absent" \/ Exists(j)'
  BY <1>1 DEF Insert, Exists
<1>2. CASE UNCHANGED status
  BY <1>2
<1>3. ASSUME NEW t \in Tasks, MarkCompleted(t) \/ MarkFailed(t) PROVE status'[j] = "absent"
  <2> run[t] \in Items
    BY DEF TypeOK
  <2> QED BY <1>0, <1>3 DEF MarkCompleted, MarkFailed, Delete, WriteFailure, Exists, rows
<1>4. ASSUME NEW c \in Clients, ClientStep(c) PROVE status'[j] = "absent" \/ Exists(j)'
  BY <1>4, <1>1, <1>2 DEF ClientStep, CheckRequest, Reingest, Process, Discard, AbortRequest,
     NewRun, AddToQueue, rows
<1>5. ASSUME NEW t \in Tasks, TaskStep(t) \/ Heartbeat(t)
      PROVE  status'[j] = "absent" \/ Exists(j)'
  BY <1>5, <1>1, <1>2, <1>3 DEF TaskStep, ScoutStep, BeginScout, Discover, RecordLinks,
     CompleteRun, FailRun, LookUpError, ReadOutcome, Heartbeat, Beat, AddToQueue, rows
<1>6. ASSUME NEW S \in SUBSET Sources, Ingest(S) PROVE status'[j] = "absent" \/ Exists(j)'
  BY <1>6, <1>1 DEF Ingest, AddToQueue
<1>7. ASSUME NEW s \in Sources, DeleteSource(s) PROVE status'[j] = "absent"
  BY <1>0, <1>7 DEF DeleteSource
<1>8. ASSUME Claims PROVE status'[j] = "absent"
  BY <1>0, <1>8 DEF Claims, ClaimRow, Claim, NextInLine, Claimable
<1>9. ASSUME StaleSweep PROVE status'[j] = "absent"
  BY <1>9 DEF StaleSweep, ReclaimStale, Stale, Retriable
<1>10. CASE \/ Crash \/ UNCHANGED vars
            \/ \E i \in Items : HeartbeatLapses(i) \/ RetryComesDue(i)
  BY <1>2, <1>10 DEF Crash, HeartbeatLapses, Lapse, RetryComesDue, BackoffEnds, rows, vars
<1> QED BY <1>4, <1>5, <1>6, <1>7, <1>8, <1>9, <1>10 DEF Next

(* A pointer is only ever moved to a job that is new.                      *)
LEMMA NewPointersNameFreshJobs ==
  ASSUME TypeOK, NEW S \in SUBSET Sources, NEW job \in Bindings(S), NEW s \in Sources,
         active' = WithPointers(job), active'[s] # None
  PROVE  active'[s] = active[s] \/ active'[s] \in Fresh
BY BindingsTyped DEF WithPointers

(* No other step moves a pointer.                                          *)
LEMMA PointersMoveToFreshJobs ==
  ASSUME TypeOK, [Next]_vars, NEW s \in Sources, active'[s] # None
  PROVE  active'[s] = active[s] \/ active'[s] \in Fresh
<1> USE DEF taskVars, history, sourceRows
<1>0. active \in [Sources -> Items \union {None}]
  BY DEF TypeOK
<1>1. ASSUME NEW S \in SUBSET Sources, Ingest(S)
      PROVE  active'[s] = active[s] \/ active'[s] \in Fresh
  <2> PICK job \in Bindings(S) : active' = WithPointers(job)
    BY <1>1 DEF Ingest
  <2> QED BY NewPointersNameFreshJobs
<1>2. ASSUME NEW x \in Sources, DeleteSource(x) PROVE active'[s] = active[s]
  BY <1>0, <1>2 DEF DeleteSource
<1>3. ASSUME NEW c \in Clients, ClientStep(c)
      PROVE  active'[s] = active[s] \/ active'[s] \in Fresh
  <2>1. CASE Reingest(c) \/ Process(c)
    <3> DEFINE x == request[c].source
    <3>1. {x} \in SUBSET Sources /\ NewRun(x)
      BY <2>1 DEF Reingest, Process, TypeOK, Requests
    <3> PICK job \in Bindings({x}) : active' = WithPointers(job)
      BY <3>1 DEF NewRun
    <3> QED BY <3>1, NewPointersNameFreshJobs
  <2>2. CASE ~(Reingest(c) \/ Process(c))
    BY <1>3, <2>2 DEF ClientStep, CheckRequest, Discard, AbortRequest
  <2> QED BY <2>1, <2>2
<1>4. ASSUME NEW t \in Tasks, TaskStep(t) \/ Heartbeat(t)
      PROVE  active'[s] = active[s] \/ active'[s] \in Fresh
  <2>1. CASE RecordLinks(t)
    <3>1. Classified(t, "certain") \in SUBSET Sources
      BY DEF Classified
    <3> PICK job \in Bindings(Classified(t, "certain")) : active' = WithPointers(job)
      BY <2>1 DEF RecordLinks
    <3> QED BY <3>1, NewPointersNameFreshJobs
  <2>2. CASE CompleteRun(t) \/ FailRun(t)
    BY <1>0, <2>2 DEF CompleteRun, FailRun, EndRun
  <2>3. CASE \/ BeginScout(t) \/ Discover(t) \/ LookUpError(t) \/ ReadOutcome(t)
             \/ MarkCompleted(t) \/ MarkFailed(t) \/ Heartbeat(t)
    BY <2>3 DEF BeginScout, Discover, LookUpError, ReadOutcome, MarkCompleted, MarkFailed,
       Heartbeat
  <2> QED BY <1>4, <2>1, <2>2, <2>3 DEF TaskStep, ScoutStep
<1>5. CASE \/ Claims \/ StaleSweep \/ Crash \/ UNCHANGED vars
           \/ \E i \in Items : HeartbeatLapses(i) \/ RetryComesDue(i)
  BY <1>5 DEF Claims, ClaimRow, StaleSweep, Crash, HeartbeatLapses, RetryComesDue, vars
<1> QED BY <1>1, <1>2, <1>3, <1>4, <1>5 DEF Next

(* A pointer that outlives the step around it still has its explanation:   *)
(* a row that left without settling its job was lost, stalled or out of    *)
(* retries, and none of the three is ever undone.                          *)
LEMMA BlockedStep ==
  ASSUME TypeOK, TypeOK', RunsInv, SettledInv, SettledInv', ActiveJobIsOpen, ActiveJobIsOpen',
         BlockedIsExplained, [Next]_vars
  PROVE  BlockedIsExplained'
<1> SUFFICES ASSUME NEW s \in Sources, active'[s] # None,
                    NEW j \in Items, j = active'[s],
                    ~Exists(j)', status'[j] # "absent", (j \notin lost)', (j \in Steady)'
             PROVE  retries'[j] = MaxRetries
  BY DEF BlockedIsExplained, TypeOK
<1>1. j \in Steady \ lost
  BY MarksGrow DEF Steady
<1>2. retries[j] <= retries'[j] /\ retries[j] \in Nat /\ retries'[j] \in Nat
      /\ retries'[j] <= MaxRetries
  BY RetriesGrow DEF TypeOK, RowsTypeOK, SettledInv, RetriesCounted
<1>3. status[j] # "absent"
  BY RowsStartQueued
<1>4. j \notin Fresh
  BY <1>3 DEF Fresh, RunsInv, RowsHaveJobs
<1>5. active[s] = j /\ j # None
  BY <1>4, PointersMoveToFreshJobs
<1>6. ~Ended(j) /\ jobStatus'[j] # "deleted"
  BY <1>5 DEF ActiveJobIsOpen, Ended
<1>7. retries[j] = MaxRetries
  <2>1. CASE Exists(j)
    BY <1>1, <1>6, <2>1, RowsLeaveExplained DEF Settled
  <2>2. CASE ~Exists(j)
    BY <1>1, <1>3, <1>5, <2>2 DEF BlockedIsExplained
  <2> QED BY <2>1, <2>2
<1> QED BY <1>2, <1>7, MaxRetriesAssumption

(* A source is never left with an active job and nothing to release it but *)
(* by one of the five mishaps BlockedIsExplained names, for any number of  *)
(* sources, jobs, tasks and requests and every order of their steps.       *)
THEOREM BlockedSourcesExplained == Spec => []BlockedIsExplained
<1>1. Init => BlockedIsExplained /\ SettledInv
  BY DEF Init, EmptyTable, BlockedIsExplained, SettledInv, ReportsSettled, RetriesCounted,
     Reporting
<1>2. TypeOK /\ RunsInv /\ OneRunPerSource /\ SettledInv /\ [Next]_vars => SettledInv'
  BY SettledStep
<1>3. /\ TypeOK /\ TypeOK' /\ RunsInv /\ SettledInv /\ SettledInv'
      /\ ActiveJobIsOpen /\ ActiveJobIsOpen' /\ BlockedIsExplained /\ [Next]_vars
      => BlockedIsExplained'
  BY BlockedStep
<1> QED BY <1>1, <1>2, <1>3, TypeCorrect, RunsAreOwned, RunsAreExclusive, ActiveJobsAreOpen, PTL
        DEF Spec
-----------------------------------------------------------------------------
(* The lease queue.                                                        *)

(* Claims are counted by claims only, and only they need a retry.          *)
LEMMA AttemptsStep ==
  ASSUME TypeOK, TypeOK', AttemptsCounted, [Next]_vars
  PROVE  AttemptsCounted'
<1> USE DEF taskVars, history, sourceRows
<1> SUFFICES ASSUME NEW j \in Items, j \notin stalled' PROVE attempts'[j] <= AttemptsOf(j)'
  BY DEF AttemptsCounted
<1>0. /\ j \notin stalled /\ RowsTypeOK /\ j \in Items
      /\ attempts[j] \in Nat /\ AttemptsOf(j) \in Nat /\ attempts[j] <= AttemptsOf(j)
  <2>1. j \notin stalled
    BY MarksGrow
  <2> QED BY <2>1 DEF AttemptsCounted, TypeOK, RowsTypeOK, AttemptsOf
<1>1. ASSUME UNCHANGED attempts, AttemptsOf(j) <= AttemptsOf(j)'
      PROVE  attempts'[j] <= AttemptsOf(j)'
  <2>1. AttemptsOf(j)' \in Int
    BY DEF TypeOK, RowsTypeOK, AttemptsOf
  <2> QED BY <1>0, <1>1, <2>1
<1>2. ASSUME NEW new, Insert(new), UNCHANGED attempts PROVE attempts'[j] <= AttemptsOf(j)'
  BY <1>0, <1>1, <1>2, StatementsCount
<1>3. ASSUME UNCHANGED <<rows, attempts>> PROVE attempts'[j] <= AttemptsOf(j)'
  BY <1>0, <1>1, <1>3, StatementsCount
<1>4. ASSUME NEW S \in SUBSET Sources, Ingest(S) PROVE attempts'[j] <= AttemptsOf(j)'
  BY <1>2, <1>4 DEF Ingest, AddToQueue
<1>5. ASSUME NEW s \in Sources, DeleteSource(s) PROVE attempts'[j] <= AttemptsOf(j)'
  <2>1. UNCHANGED <<attempts, retries>> /\ (status'[j] = status[j] \/ status'[j] = "gone")
    BY <1>5 DEF DeleteSource
  <2>2. AttemptsOf(j) <= AttemptsOf(j)'
    BY <1>0, <2>1 DEF AttemptsOf, RowsTypeOK
  <2> QED BY <1>1, <2>1, <2>2
<1>6. ASSUME NEW c \in Clients, ClientStep(c) PROVE attempts'[j] <= AttemptsOf(j)'
  BY <1>2, <1>3, <1>6 DEF ClientStep, CheckRequest, Reingest, Process, Discard, AbortRequest,
     NewRun, AddToQueue
<1>7. ASSUME NEW t \in Tasks, NEW i \in Items, ClaimRow(t, i)
      PROVE  attempts'[j] <= AttemptsOf(j)'
  <2>1. /\ status[i] = "queued" /\ status' = [status EXCEPT ![i] = "processing"]
        /\ attempts' = [attempts EXCEPT ![i] = attempts[i] + 1] /\ retries' = retries
    BY <1>7 DEF ClaimRow, Claim, NextInLine, Claimable
  <2>2. CASE i = j
    <3>1. attempts'[j] = attempts[j] + 1 /\ status'[j] = "processing"
      BY <2>1, <2>2 DEF TypeOK, RowsTypeOK
    <3>2. AttemptsOf(j) = retries[j] + 0 /\ AttemptsOf(j)' = retries[j] + 1
      BY <2>1, <2>2, <3>1 DEF AttemptsOf
    <3>3. retries[j] \in Nat
      BY <1>0 DEF RowsTypeOK
    <3> QED BY <1>0, <3>1, <3>2, <3>3
  <2>3. CASE i # j
    <3>1. attempts'[j] = attempts[j] /\ AttemptsOf(j)' = AttemptsOf(j)
      BY <2>1, <2>3 DEF AttemptsOf
    <3> QED BY <1>0, <3>1
  <2> QED BY <2>2, <2>3
<1>8. ASSUME NEW t \in Tasks, TaskStep(t) \/ Heartbeat(t) PROVE attempts'[j] <= AttemptsOf(j)'
  <2>0. run[t] \in Items
    BY DEF TypeOK
  <2>1. CASE ScoutStep(t)
    BY <1>2, <1>3, <2>1 DEF ScoutStep, BeginScout, Discover, RecordLinks, AddToQueue
  <2>2. CASE CompleteRun(t) \/ FailRun(t) \/ LookUpError(t) \/ ReadOutcome(t)
    BY <1>3, <2>2 DEF CompleteRun, FailRun, LookUpError, ReadOutcome
  <2>3. CASE MarkCompleted(t) \/ MarkFailed(t) \/ Heartbeat(t)
    <3>1. /\ UNCHANGED attempts
          /\ \/ Delete(run[t]) \/ WriteFailure(run[t], ReadForFailure(run[t]))
             \/ Beat(run[t]) \/ UNCHANGED rows
      BY <2>3 DEF MarkCompleted, MarkFailed, Heartbeat
    <3> QED BY <1>0, <1>1, <2>0, <3>1, StatementsCount
  <2> QED BY <1>8, <2>1, <2>2, <2>3 DEF TaskStep
<1>9. ASSUME NEW i \in Items, HeartbeatLapses(i) \/ RetryComesDue(i)
      PROVE  attempts'[j] <= AttemptsOf(j)'
  BY <1>0, <1>1, <1>9, StatementsCount DEF HeartbeatLapses, RetryComesDue
<1>10. CASE StaleSweep
  BY <1>0, <1>1, <1>10, StatementsCount DEF StaleSweep
<1>11. CASE Crash \/ UNCHANGED vars
  BY <1>3, <1>11 DEF Crash, vars
<1> QED BY <1>4, <1>5, <1>6, <1>7, <1>8, <1>9, <1>10, <1>11 DEF Next, Claims

(* Tasks keep the rows in their hands or let them go.                      *)
HandsShrink ==
  \A t \in Tasks : pc'[t] # "idle" => pc[t] # "idle" /\ run'[t] = run[t]
HandsKept ==
  \A t \in Tasks : (pc'[t] # "idle" <=> pc[t] # "idle") /\ run'[t] = run[t]
HistoryKept == UNCHANGED <<stalled, attempts>>

LEMMA HoldersShrink ==
  ASSUME NEW j \in Items, HandsShrink
  PROVE  Holders(j)' \subseteq Holders(j)
BY DEF HandsShrink, Holders

LEMMA HoldersKept ==
  ASSUME NEW j \in Items, HandsKept
  PROVE  Holders(j)' = Holders(j)
BY DEF HandsKept, Holders

(* What each kind of change of a row is to the lease queue.                *)
LEMMA RowKept ==
  ASSUME NEW j \in Items, HistoryKept, HandsShrink, status'[j] = status[j]
  PROVE  Service!RowStep(j)
BY HoldersShrink DEF Service!RowStep, Service!LetGo, Service!KeepsExpiry, LeaseState, HistoryKept

LEMMA RowSettled ==
  ASSUME NEW j \in Items, HistoryKept, HandsShrink, Exists(j), status'[j] = "gone"
  PROVE  Service!RowStep(j)
BY HoldersShrink
   DEF Service!RowStep, Service!Settle, Service!KeepsExpiry, LeaseState, Exists, HistoryKept

LEMMA RowGivenBack ==
  ASSUME NEW j \in Items, HistoryKept, HandsShrink,
         status[j] = "processing", status'[j] = "queued",
         j \notin stalled => Holders(j)' = {} /\ attempts[j] <= MaxRetries
  PROVE  Service!RowStep(j)
BY HoldersShrink
   DEF Service!RowStep, Service!GiveBack, Service!Promised, Service!KeepsExpiry, LeaseState,
       HistoryKept

LEMMA RowsSubmitted ==
  ASSUME NEW j \in Items, NEW new, Insert(new), HistoryKept, HandsKept
  PROVE  Service!RowStep(j)
<1>1. Holders(j)' = Holders(j)
  BY HoldersKept
<1>2. CASE j \in new
  BY <1>1, <1>2 DEF Insert, Service!RowStep, Service!Submit, Service!KeepsLease,
     Service!KeepsExpiry, LeaseState, HistoryKept
<1>3. CASE j \notin new
  BY <1>3, RowKept DEF Insert, HandsKept, HandsShrink
<1> QED BY <1>2, <1>3

(* A row that is in somebody's hands and kept its heartbeats is claimed,   *)
(* fresh and in nobody else's hands, while it exists.                      *)
LEMMA HeldRowIsOwned ==
  ASSUME TypeOK, RunsInv, NEW j \in Items, Exists(j), j \notin stalled,
         NEW t \in Tasks, pc[t] # "idle", run[t] = j
  PROVE  /\ status[j] = "processing" /\ fresh[j]
         /\ \A u \in Tasks : pc[u] # "idle" /\ run[u] = j => u = t
<1>1. jobStatus[j] # "deleted"
  BY DEF RunsInv, RowsHaveJobs, JobExists
<1>2. \A u \in Tasks : pc[u] # "idle" /\ run[u] = j => Running(u)
  BY <1>1 DEF Running
<1> QED BY <1>2 DEF RunsInv, RunsOwnRows

(* A row that is claimed goes from nobody's hands into one task's, with a  *)
(* retry for every claim before.                                           *)
LEMMA ClaimLeases ==
  ASSUME TypeOK, RunsInv, RetriesCounted, AttemptsCounted,
         NEW t \in Tasks, NEW i \in Items, ClaimRow(t, i), NEW j \in Items
  PROVE  Service!RowStep(j)
<1> USE DEF taskVars, history, sourceRows
<1>1. /\ status[i] = "queued" /\ status' = [status EXCEPT ![i] = "processing"]
      /\ pc[t] = "idle" /\ pc' = [pc EXCEPT ![t] = "starting"] /\ run' = [run EXCEPT ![t] = i]
      /\ attempts' = [attempts EXCEPT ![i] = attempts[i] + 1] /\ stalled' = stalled
  BY DEF ClaimRow, Claim, NextInLine, Claimable, Goto
<1>2. /\ pc'[t] = "starting" /\ run'[t] = i
      /\ \A u \in Tasks \ {t} : pc'[u] = pc[u] /\ run'[u] = run[u]
  BY <1>1 DEF TypeOK
<1>3. CASE i = j
  <2>1. Holders(j)' = Holders(j) \union {t}
    BY <1>2, <1>3 DEF Holders
  <2>2. ASSUME j \notin stalled PROVE Holders(j) = {} /\ attempts[j] <= MaxRetries
    <3>1. Holders(j) = {}
      BY <1>1, <1>3, <2>2, HeldRowIsOwned DEF Holders, Exists
    <3>2. AttemptsOf(j) = retries[j] + 0
      BY <1>1, <1>3 DEF AttemptsOf
    <3>3. retries[j] \in Nat /\ attempts[j] \in Nat /\ retries[j] <= MaxRetries
      BY DEF TypeOK, RowsTypeOK, RetriesCounted
    <3>4. attempts[j] <= AttemptsOf(j)
      BY <2>2 DEF AttemptsCounted
    <3> QED BY <3>1, <3>2, <3>3, <3>4
  <2>3. status'[j] = "processing" /\ attempts'[j] = attempts[j] + 1
    BY <1>1, <1>3 DEF TypeOK, RowsTypeOK
  <2> QED BY <1>1, <1>3, <2>1, <2>2, <2>3
          DEF Service!RowStep, Service!Lease, Service!Promised, Service!KeepsExpiry, LeaseState
<1>4. CASE i # j
  <2>1. Holders(j)' = Holders(j)
    BY <1>1, <1>2, <1>4 DEF Holders
  <2>2. status'[j] = status[j] /\ attempts'[j] = attempts[j]
    BY <1>1, <1>4
  <2> QED BY <1>1, <2>1, <2>2
          DEF Service!RowStep, Service!LetGo, Service!KeepsExpiry, LeaseState
<1> QED BY <1>3, <1>4

(* A task that reports a failure gives its row back, settles it after the  *)
(* last retry, or finds that it is not its own any more.                   *)
LEMMA FailureGivesBack ==
  ASSUME TypeOK, RunsInv, AttemptsCounted,
         NEW t \in Tasks, MarkFailed(t), NEW j \in Items
  PROVE  Service!RowStep(j)
<1> USE DEF taskVars, history, sourceRows
<1>0. run[t] \in Items /\ pc[t] # "idle" /\ HistoryKept
  BY DEF MarkFailed, TypeOK, HistoryKept
<1>1. CASE UNCHANGED status /\ (Leave(t) \/ (Goto(t, "remarking") /\ UNCHANGED run))
  <2>1. HandsShrink
    BY <1>0, <1>1 DEF Leave, Goto, HandsShrink, TypeOK
  <2> QED BY <1>0, <1>1, <2>1, RowKept
<1>2. CASE Exists(run[t]) /\ WriteFailure(run[t], ReadForFailure(run[t])) /\ Leave(t)
  <2>1. HandsShrink /\ pc'[t] = "idle"
    BY <1>0, <1>2 DEF Leave, Goto, HandsShrink, TypeOK
  <2>2. CASE run[t] # j
    <3>1. status'[j] = status[j]
      BY <1>0, <1>2, <2>2 DEF WriteFailure, Delete, TypeOK, RowsTypeOK
    <3> QED BY <1>0, <2>1, <3>1, RowKept
  <2>3. CASE run[t] = j /\ ~Requeues(ReadForFailure(j))
    <3>1. status'[j] = "gone"
      BY <1>2, <2>3 DEF WriteFailure, Delete, TypeOK, RowsTypeOK
    <3> QED BY <1>0, <1>2, <2>1, <2>3, <3>1, RowSettled
  <2>4. CASE run[t] = j /\ Requeues(ReadForFailure(j)) /\ status[j] = "processing"
    <3>1. status'[j] = "queued"
      BY <1>2, <2>4 DEF WriteFailure, ReadForFailure, TypeOK, RowsTypeOK
    <3>2. ASSUME j \notin stalled PROVE Holders(j)' = {} /\ attempts[j] <= MaxRetries
      <4>1. \A u \in Tasks : pc[u] # "idle" /\ run[u] = j => u = t
        BY <1>0, <1>2, <2>4, <3>2, HeldRowIsOwned
      <4>2. Holders(j)' = {}
        BY <2>1, <4>1 DEF HandsShrink, Holders
      <4>3. retries[j] < MaxRetries
        BY <2>4 DEF Requeues, ReadForFailure
      <4>4. AttemptsOf(j) = retries[j] + 1
        BY <2>4 DEF AttemptsOf
      <4>5. retries[j] \in Nat /\ attempts[j] \in Nat /\ attempts[j] <= AttemptsOf(j)
        BY <3>2 DEF TypeOK, RowsTypeOK, AttemptsCounted
      <4> QED BY <4>2, <4>3, <4>4, <4>5, MaxRetriesAssumption
    <3> QED BY <1>0, <2>1, <2>4, <3>1, <3>2, RowGivenBack
  <2>5. CASE run[t] = j /\ Requeues(ReadForFailure(j)) /\ status[j] # "processing"
    <3>1. status'[j] = status[j]
      BY <1>2, <2>5 DEF WriteFailure, ReadForFailure
    <3> QED BY <1>0, <2>1, <3>1, RowKept
  <2> QED BY <2>2, <2>3, <2>4, <2>5
<1> QED BY <1>1, <1>2 DEF MarkFailed, rows

(* The sweep takes a row out of nobody's hands, unless a heartbeat was     *)
(* missed.                                                                 *)
LEMMA SweepGivesBack ==
  ASSUME TypeOK, RunsInv, AttemptsCounted, StaleSweep, NEW j \in Items
  PROVE  Service!RowStep(j)
<1>0. HistoryKept /\ HandsShrink /\ UNCHANGED <<pc, run>>
  BY DEF StaleSweep, history, taskVars, HistoryKept, HandsShrink
<1>1. CASE j \in Retriable
  <2>1. /\ status[j] = "processing" /\ ~fresh[j] /\ retries[j] < MaxRetries
        /\ status'[j] = "queued"
    BY <1>1 DEF StaleSweep, ReclaimStale, Retriable, Stale
  <2>2. ASSUME j \notin stalled PROVE Holders(j)' = {} /\ attempts[j] <= MaxRetries
    <3>1. Holders(j) = {}
      BY <2>1, <2>2, HeldRowIsOwned DEF Holders, Exists
    <3>2. Holders(j)' = Holders(j)
      BY <1>0 DEF Holders
    <3>3. AttemptsOf(j) = retries[j] + 1
      BY <2>1 DEF AttemptsOf
    <3>4. retries[j] \in Nat /\ attempts[j] \in Nat /\ attempts[j] <= AttemptsOf(j)
      BY <2>2 DEF TypeOK, RowsTypeOK, AttemptsCounted
    <3> QED BY <2>1, <3>1, <3>2, <3>3, <3>4, MaxRetriesAssumption
  <2> QED BY <1>0, <2>1, <2>2, RowGivenBack
<1>2. CASE j \in Stale \ Retriable
  <2>1. Exists(j) /\ status'[j] = "gone"
    BY <1>2 DEF StaleSweep, ReclaimStale, Stale, Exists
  <2> QED BY <1>0, <2>1, RowSettled
<1>3. CASE j \notin Stale
  <2>1. status'[j] = status[j]
    BY <1>3 DEF StaleSweep, ReclaimStale, Retriable
  <2> QED BY <1>0, <2>1, RowKept
<1> QED BY <1>1, <1>2, <1>3

(* Every step of routes, scouts, runs, worker and clock moves every row by *)
(* a step of the lease queue.                                              *)
LEMMA LeaseStep ==
  TypeOK /\ RunsInv /\ RetriesCounted /\ AttemptsCounted /\ [Next]_vars
    => [Service!Next]_(Service!vars)
<1> SUFFICES ASSUME TypeOK, RunsInv, RetriesCounted, AttemptsCounted, [Next]_vars,
                    NEW j \in Items
             PROVE  Service!RowStep(j)
  BY DEF Service!Next
<1> USE DEF taskVars, history, sourceRows
<1>0. ASSUME UNCHANGED <<pc, run>> PROVE HandsKept /\ HandsShrink
  BY <1>0 DEF HandsKept, HandsShrink
<1>1. ASSUME NEW S \in SUBSET Sources, Ingest(S) PROVE Service!RowStep(j)
  BY <1>0, <1>1, RowsSubmitted DEF Ingest, AddToQueue, HistoryKept
<1>2. ASSUME NEW s \in Sources, DeleteSource(s) PROVE Service!RowStep(j)
  <2>1. HandsShrink /\ HistoryKept
    BY <1>0, <1>2 DEF DeleteSource, HistoryKept
  <2>2. CASE Exists(j) /\ SourceOf[j] = s
    BY <1>2, <2>1, <2>2, RowSettled DEF DeleteSource
  <2>3. CASE ~(Exists(j) /\ SourceOf[j] = s)
    <3>1. status'[j] = status[j]
      BY <1>2, <2>3 DEF DeleteSource
    <3> QED BY <2>1, <3>1, RowKept
  <2> QED BY <2>2, <2>3
<1>3. ASSUME NEW c \in Clients, ClientStep(c) PROVE Service!RowStep(j)
  <2>1. UNCHANGED <<pc, run>> /\ HistoryKept
    BY <1>3 DEF ClientStep, CheckRequest, Reingest, Process, Discard, AbortRequest, HistoryKept
  <2>2. UNCHANGED status \/ \E new : Insert(new)
    BY <1>3 DEF ClientStep, CheckRequest, Reingest, Process, Discard, AbortRequest, NewRun,
       AddToQueue, rows
  <2> QED BY <1>0, <2>1, <2>2, RowKept, RowsSubmitted
<1>4. ASSUME NEW t \in Tasks, NEW i \in Items, ClaimRow(t, i) PROVE Service!RowStep(j)
  BY <1>4, ClaimLeases
<1>5. ASSUME NEW t \in Tasks, TaskStep(t) \/ Heartbeat(t) PROVE Service!RowStep(j)
  <2>0. run[t] \in Items
    BY DEF TypeOK
  <2>1. CASE RecordLinks(t)
    <3>1. HandsKept /\ HistoryKept
      BY <2>1 DEF RecordLinks, Goto, HandsKept, HistoryKept, TypeOK
    <3>2. \E new : Insert(new)
      BY <2>1 DEF RecordLinks, AddToQueue
    <3> QED BY <3>1, <3>2, RowsSubmitted
  <2>2. CASE \/ BeginScout(t) \/ Discover(t) \/ CompleteRun(t) \/ FailRun(t)
             \/ LookUpError(t) \/ ReadOutcome(t)
    <3>1. UNCHANGED status /\ HistoryKept
      BY <2>2 DEF BeginScout, Discover, CompleteRun, FailRun, LookUpError, ReadOutcome, rows,
         HistoryKept
    <3>2. pc[t] # "idle" /\ (Leave(t) \/ (UNCHANGED run /\ \E s \in TaskState : Goto(t, s)))
      BY <2>2 DEF BeginScout, Discover, CompleteRun, FailRun, LookUpError, ReadOutcome, TaskState
    <3>3. HandsShrink
      BY <3>2 DEF Leave, Goto, HandsShrink, TypeOK
    <3> QED BY <3>1, <3>3, RowKept
  <2>3. CASE MarkCompleted(t)
    <3>1. HandsShrink /\ HistoryKept
      BY <2>3 DEF MarkCompleted, Leave, Goto, HandsShrink, HistoryKept, TypeOK
    <3>2. status'[j] = status[j] \/ (Exists(j) /\ status'[j] = "gone")
      BY <2>0, <2>3 DEF MarkCompleted, Delete, rows, TypeOK, RowsTypeOK
    <3> QED BY <3>1, <3>2, RowKept, RowSettled
  <2>4. CASE MarkFailed(t)
    BY <2>4, FailureGivesBack
  <2>5. CASE Heartbeat(t)
    BY <1>0, <2>5, RowKept DEF Heartbeat, Beat, HistoryKept
  <2> QED BY <1>5, <2>1, <2>2, <2>3, <2>4, <2>5 DEF TaskStep, ScoutStep
<1>6. ASSUME NEW i \in Items, HeartbeatLapses(i) PROVE Service!RowStep(j)
  <2>1. UNCHANGED <<status, pc, run, attempts>>
    BY <1>6 DEF HeartbeatLapses, Lapse
  <2>2. CASE i = j /\ Busy(i)
    <3>1. Holders(j) # {} /\ j \in stalled' /\ Holders(j)' = Holders(j)
      BY <1>6, <2>1, <2>2 DEF HeartbeatLapses, Busy, Holders
    <3> QED BY <2>1, <3>1 DEF Service!RowStep, Service!Expire, LeaseState
  <2>3. CASE ~(i = j /\ Busy(i))
    <3>1. j \in stalled' <=> j \in stalled
      BY <1>6, <2>3 DEF HeartbeatLapses
    <3>2. Holders(j)' = Holders(j)
      BY <2>1 DEF Holders
    <3> QED BY <2>1, <3>1, <3>2
            DEF Service!RowStep, Service!LetGo, Service!KeepsExpiry, LeaseState
  <2> QED BY <2>2, <2>3
<1>7. ASSUME NEW i \in Items, RetryComesDue(i) PROVE Service!RowStep(j)
  BY <1>0, <1>7, RowKept DEF RetryComesDue, BackoffEnds, HistoryKept
<1>8. CASE StaleSweep
  BY <1>8, SweepGivesBack
<1>9. CASE Crash
  BY <1>9, RowKept DEF Crash, rows, HistoryKept, HandsShrink
<1>10. CASE UNCHANGED vars
  BY <1>0, <1>10, RowKept DEF vars, rows, HistoryKept
<1> QED BY <1>1, <1>2, <1>3, <1>4, <1>5, <1>6, <1>7, <1>8, <1>9, <1>10 DEF Next, Claims

(* To sources and jobs the queue is a lease queue: scouts and requests     *)
(* that add rows in batches, deletions, runs that fail or stall, sweeps    *)
(* and crashes move each row as WorkQueue allows.                          *)
THEOREM RunsLeaseRows == Spec => LeasesAreKept
<1>1. Init => Service!Init
  <2> SUFFICES ASSUME Init PROVE Service!Init
    OBVIOUS
  <2>1. \A j \in Items : LeaseState(j) = "absent" /\ Holders(j) = {}
    BY DEF Init, EmptyTable, LeaseState, Holders
  <2> QED BY <2>1 DEF Init, Service!Init
<1>2. Init => RetriesCounted /\ AttemptsCounted
  <2> SUFFICES ASSUME Init, NEW j \in Items
               PROVE  retries[j] <= MaxRetries /\ attempts[j] <= AttemptsOf(j)
    BY DEF RetriesCounted, AttemptsCounted
  <2>1. status[j] = "absent" /\ retries[j] = 0 /\ attempts[j] = 0
    BY DEF Init, EmptyTable
  <2> QED BY <2>1 DEF AttemptsOf
<1>3. /\ TypeOK /\ RetriesCounted /\ [Next]_vars => RetriesCounted'
      /\ TypeOK /\ TypeOK' /\ AttemptsCounted /\ [Next]_vars => AttemptsCounted'
  BY RetriesStep, AttemptsStep
<1>4. TypeOK /\ RunsInv /\ RetriesCounted /\ AttemptsCounted /\ [Next]_vars
        => [Service!Next]_(Service!vars)
  BY LeaseStep
<1> QED BY <1>1, <1>2, <1>3, <1>4, TypeCorrect, RunsAreOwned, PTL
        DEF Spec, LeasesAreKept, Service!Spec
=============================================================================
