----------------------------- MODULE QueueWorker -----------------------------
(***************************************************************************)
(* kb_manager/services/queue_worker.py: one poll loop that holds a slot of *)
(* an asyncio.Semaphore while it claims, one asyncio task per claimed row, *)
(* one heartbeat per task, and a sweep that reclaims rows whose heartbeat  *)
(* went stale.  An action is the code between two awaits at which another  *)
(* coroutine, another transaction or a crash can step in.                  *)
(*                                                                         *)
(* The pipeline is what it is to the worker: a call that returns after a   *)
(* while and leaves the job "failed" or not (IngestLifecycle models what   *)
(* it does to jobs and sources).                                           *)
(***************************************************************************)
EXTENDS QueueItems, FiniteSets

CONSTANTS
  Tasks,       \* identities for the asyncio tasks _process_item_wrapper runs in
  MaxJobs,     \* settings.MAX_CONCURRENT_JOBS
  MaxFaults,   \* bound: database errors seen by the worker
  MaxCrashes   \* bound: crashes or shutdowns, each followed by a start

ASSUME SizesAssumption ==
  /\ Items # {}
  /\ MaxJobs \in Nat \ {0}
  /\ MaxFaults \in Nat /\ MaxCrashes \in Nat
(* asyncio never runs out of tasks: there are as many as slots can ever be. *)
ASSUME TasksAssumption ==
  IsFiniteSet(Tasks) /\ Cardinality(Tasks) >= MaxJobs + MaxFaults

VARIABLES
  permits,   \* _semaphore._value
  event,     \* _notify_event.is_set()
  loop,      \* where _run_loop is
  pc,        \* where each task is
  item,      \* the row each task was given
  seen,      \* the row as mark_failed's session read it
  notifying, \* a route has committed a row and not yet called notify()
  \* Bounds and history, not part of the program
  faults, crashes,
  surplus,   \* slots released twice since the worker was started
  attempts,  \* how often each row was claimed
  stalled    \* rows whose heartbeat went stale under a task still at work

workerVars == <<permits, event, loop, pc, item, seen>>
history == <<faults, crashes, surplus, attempts, stalled>>
vars == <<rows, workerVars, notifying, history>>

LoopState == {"acquiring", "claiming", "giving_up", "waiting", "sleeping"}

TaskState == {"idle", "starting", "running", "completing",
              "marking", "writing", "remarking", "rewriting", "finishing"}

(* A task is live until its wrapper has released the slot, and engaged     *)
(* while it still means to do something to its row.                        *)
Live == {t \in Tasks : pc[t] # "idle"}
Engaged(t) == pc[t] \notin {"idle", "finishing"}
Owners(i) == {t \in Tasks : Engaged(t) /\ item[t] = i}
Abandoned(i) == \A t \in Live : item[t] # i

TypeOK ==
  /\ RowsTypeOK
  /\ permits \in Nat
  /\ event \in BOOLEAN
  /\ loop \in LoopState
  /\ pc \in [Tasks -> TaskState]
  /\ item \in [Tasks -> Items]
  /\ seen \in [Tasks -> Snapshot]
  /\ notifying \in BOOLEAN
  /\ faults \in Nat /\ crashes \in Nat /\ surplus \in Nat
  /\ attempts \in [Items -> Nat]
  /\ stalled \subseteq Items

(* The locals of a task that has not started.                              *)
AnyItem == CHOOSE i \in Items : TRUE
Unread == [status |-> "absent", retries |-> 0]

Init ==
  /\ EmptyTable
  /\ permits = MaxJobs
  /\ event = FALSE
  /\ loop = "acquiring"
  /\ pc = [t \in Tasks |-> "idle"]
  /\ item = [t \in Tasks |-> AnyItem]
  /\ seen = [t \in Tasks |-> Unread]
  /\ notifying = FALSE
  /\ faults = 0 /\ crashes = 0 /\ surplus = 0
  /\ attempts = [i \in Items |-> 0]
  /\ stalled = {}

Fault == faults < MaxFaults /\ faults' = faults + 1

-----------------------------------------------------------------------------
(* The rest of the program: a route or a scout commits a new row; a route  *)
(* then calls notify(), a scout does not; deleting a source cascades to    *)
(* its row.                                                                *)

Enqueue(i) ==
  /\ Insert({i})
  /\ notifying' \in {notifying, TRUE}
  /\ UNCHANGED <<workerVars, history>>

Notify ==
  /\ notifying
  /\ notifying' = FALSE
  /\ event' = TRUE
  /\ UNCHANGED <<rows, permits, loop, pc, item, seen, history>>

DeleteSource(i) ==
  /\ Exists(i)
  /\ Delete(i)
  /\ UNCHANGED <<workerVars, notifying, history>>

-----------------------------------------------------------------------------
(* _run_loop                                                               *)

(* Mutation: the loop does not wait for a free slot. *)
AcquireAnySlot ==
  /\ loop = "acquiring"
  /\ permits' = permits - 1
  /\ loop' = "claiming"
  /\ UNCHANGED <<rows, event, pc, item, seen, notifying, history>>

AcquireSlot ==
  /\ loop = "acquiring" /\ permits > 0
  /\ permits' = permits - 1
  /\ loop' = "claiming"
  /\ UNCHANGED <<rows, event, pc, item, seen, notifying, history>>

(* claim_next found a row: the commit and the create_task that follows.    *)
ClaimItem(i, t) ==
  /\ loop = "claiming" /\ pc[t] = "idle"
  /\ Claim(i)
  /\ attempts' = [attempts EXCEPT ![i] = @ + 1]
  /\ pc' = [pc EXCEPT ![t] = "starting"]
  /\ item' = [item EXCEPT ![t] = i]
  /\ loop' = "acquiring"
  /\ UNCHANGED <<permits, event, seen, notifying, faults, crashes, surplus, stalled>>

(* claim_next found nothing.  A row committed after this read and before   *)
(* the clear() of GiveUp loses its notification.                           *)
ClaimNothing ==
  /\ loop = "claiming" /\ NothingToClaim
  /\ loop' = "giving_up"
  /\ UNCHANGED <<rows, permits, event, pc, item, seen, notifying, history>>

(* Mutation: the slot is not released when there is nothing to claim. *)
GiveUpKeepingSlot ==
  /\ loop = "giving_up"
  /\ event' = FALSE
  /\ loop' = "waiting"
  /\ UNCHANGED <<rows, permits, pc, item, seen, notifying, history>>

GiveUp ==
  /\ loop = "giving_up"
  /\ permits' = permits + 1
  /\ event' = FALSE
  /\ loop' = "waiting"
  /\ UNCHANGED <<rows, pc, item, seen, notifying, history>>

(* wait_for(event.wait(), poll_interval) ends either way.                  *)
Wake ==
  /\ loop = "waiting" /\ event
  /\ loop' = "acquiring"
  /\ UNCHANGED <<rows, permits, event, pc, item, seen, notifying, history>>


PollTimeout ==
  /\ loop = "waiting" /\ ~event
  /\ loop' = "acquiring"
  /\ UNCHANGED <<rows, permits, event, pc, item, seen, notifying, history>>

(* claim_next or its commit raises: the inner handler releases the slot    *)
(* and re-raises, the outer handler releases it again.                     *)
ClaimError ==
  /\ loop = "claiming"
  /\ Fault
  /\ permits' = permits + 2
  /\ surplus' = surplus + 1
  /\ loop' = "sleeping"
  /\ UNCHANGED <<rows, event, pc, item, seen, notifying, crashes, attempts, stalled>>

EndSleep ==
  /\ loop = "sleeping"
  /\ loop' = "acquiring"
  /\ UNCHANGED <<rows, permits, event, pc, item, seen, notifying, history>>

-----------------------------------------------------------------------------
(* _process_item_wrapper and _process_item                                 *)

Goto(t, s) == pc' = [pc EXCEPT ![t] = s]

(* The row of the source is read before the try: an error there goes to    *)
(* the wrapper and leaves the queue row processing.                        *)
LookUpSource(t) ==
  /\ pc[t] = "starting"
  /\ \/ Goto(t, "running") /\ UNCHANGED faults
     \/ Goto(t, "finishing") /\ Fault
  /\ UNCHANGED <<rows, permits, event, loop, item, seen, notifying,
                 crashes, surplus, attempts, stalled>>

(* run_scout has returned and the status of the job has been read; or one  *)
(* of the statements around it has raised.                                 *)
PipelineReturns(t) ==
  /\ pc[t] = "running"
  /\ \/ (Goto(t, "completing") \/ Goto(t, "marking")) /\ UNCHANGED faults
     \/ Goto(t, "remarking") /\ Fault
  /\ UNCHANGED <<rows, permits, event, loop, item, seen, notifying,
                 crashes, surplus, attempts, stalled>>

Complete(t) ==
  /\ pc[t] = "completing"
  /\ \/ Delete(item[t]) /\ Goto(t, "finishing") /\ UNCHANGED faults
     \/ UNCHANGED rows /\ Goto(t, "remarking") /\ Fault
  /\ UNCHANGED <<permits, event, loop, item, seen, notifying,
                 crashes, surplus, attempts, stalled>>

(* mark_failed, called in the try ("marking", "writing") and once more in  *)
(* the except clause ("remarking", "rewriting").  An error in the first    *)
(* call leads to the second, an error in the second is swallowed.          *)
OnError(t) == IF pc[t] \in {"marking", "writing"} THEN "remarking" ELSE "finishing"

MarkRead(t) ==
  /\ pc[t] \in {"marking", "remarking"}
  /\ \/ /\ Exists(item[t])
        /\ seen' = [seen EXCEPT ![t] = ReadForFailure(item[t])]
        /\ Goto(t, IF pc[t] = "marking" THEN "writing" ELSE "rewriting")
        /\ UNCHANGED faults
     \/ ~Exists(item[t]) /\ Goto(t, "finishing") /\ UNCHANGED <<seen, faults>>
     \/ Goto(t, OnError(t)) /\ Fault /\ UNCHANGED seen
  /\ UNCHANGED <<rows, permits, event, loop, item, notifying,
                 crashes, surplus, attempts, stalled>>

MarkWrite(t) ==
  /\ pc[t] \in {"writing", "rewriting"}
  /\ \/ /\ WriteFailure(item[t], seen[t])
        /\ event' = (event \/ Requeues(seen[t]))
        /\ Goto(t, "finishing")
        /\ UNCHANGED faults
     \/ /\ WriteMisses(item[t], seen[t])
        /\ Goto(t, OnError(t))
        /\ UNCHANGED <<rows, event, faults>>
     \/ Goto(t, OnError(t)) /\ Fault /\ UNCHANGED <<rows, event>>
  /\ UNCHANGED <<permits, loop, item, seen, notifying,
                 crashes, surplus, attempts, stalled>>

(* Mutation: the slot is released once by the task and once by its wrapper. *)
FinishReleasingTwice(t) ==
  /\ pc[t] = "finishing"
  /\ Goto(t, "idle")
  /\ permits' = permits + 2
  /\ item' = [item EXCEPT ![t] = AnyItem]
  /\ seen' = [seen EXCEPT ![t] = Unread]
  /\ UNCHANGED <<rows, event, loop, notifying, history>>

(* The finally of the wrapper: the heartbeat ends and the slot is freed.   *)
Finish(t) ==
  /\ pc[t] = "finishing"
  /\ Goto(t, "idle")
  /\ permits' = permits + 1
  /\ item' = [item EXCEPT ![t] = AnyItem]
  /\ seen' = [seen EXCEPT ![t] = Unread]
  /\ UNCHANGED <<rows, event, loop, notifying, history>>

(* _heartbeat_loop: a failed update is swallowed, so a beat may be missed  *)
(* but never ends the loop.                                                *)
Heartbeat(t) ==
  /\ t \in Live /\ ~fresh[item[t]]
  /\ Beat(item[t])
  /\ UNCHANGED <<workerVars, notifying, history>>

-----------------------------------------------------------------------------
(* Time, the sweep, and crashes                                            *)

HeartbeatLapses(i) ==
  /\ Lapse(i)
  /\ stalled' = IF Owners(i) # {} THEN stalled \union {i} ELSE stalled
  /\ UNCHANGED <<workerVars, notifying, faults, crashes, surplus, attempts>>

RetryComesDue(i) ==
  /\ BackoffEnds(i)
  /\ UNCHANGED <<workerVars, notifying, history>>

StaleSweep ==
  /\ ReclaimStale
  /\ event' = (event \/ Retriable # {})
  /\ UNCHANGED <<permits, loop, pc, item, seen, notifying, history>>

(* The process dies, or stop() cancels the loop and every task; then a new *)
(* QueueWorker is started on the same table.                               *)
Restart ==
  /\ crashes < MaxCrashes
  /\ crashes' = crashes + 1
  /\ permits' = MaxJobs
  /\ surplus' = 0
  /\ event' = FALSE
  /\ loop' = "acquiring"
  /\ pc' = [t \in Tasks |-> "idle"]
  /\ item' = [t \in Tasks |-> AnyItem]
  /\ seen' = [t \in Tasks |-> Unread]
  /\ notifying' = FALSE
  /\ UNCHANGED <<rows, faults, attempts, stalled>>

-----------------------------------------------------------------------------

TaskStep(t) ==
  \/ LookUpSource(t) \/ PipelineReturns(t) \/ Complete(t)
  \/ MarkRead(t) \/ MarkWrite(t) \/ Finish(t)

LoopStep ==
  \/ AcquireSlot
  \/ \E i \in Items, t \in Tasks : ClaimItem(i, t)
  \/ ClaimNothing \/ GiveUp \/ Wake \/ PollTimeout \/ ClaimError \/ EndSleep

Clock == \E i \in Items : HeartbeatLapses(i) \/ RetryComesDue(i)

Next ==
  \/ \E i \in Items : Enqueue(i) \/ DeleteSource(i)
  \/ Notify
  \/ LoopStep
  \/ \E t \in Tasks : TaskStep(t) \/ Heartbeat(t)
  \/ Clock
  \/ StaleSweep
  \/ Restart

Spec == Init /\ [][Next]_vars

(* The event loop runs every coroutine that is ready, the sweep runs every *)
(* stale_timeout/2 seconds, a backoff ends, and a heartbeat nobody renews  *)
(* goes stale.  Nothing is assumed of the routes, of errors, of crashes or *)
(* of a heartbeat that has an owner.                                       *)
Fairness ==
  /\ WF_vars(LoopStep)
  /\ \A t \in Tasks : WF_vars(TaskStep(t))
  /\ \A i \in Items : WF_vars(RetryComesDue(i))
  /\ \A i \in Items : WF_vars(Abandoned(i) /\ HeartbeatLapses(i))
  /\ WF_vars(StaleSweep)

FairSpec == Spec /\ Fairness

-----------------------------------------------------------------------------
(* The slots held by tasks and by the loop.                                *)
Held == Cardinality(Live) + IF loop \in {"claiming", "giving_up"} THEN 1 ELSE 0

(* Every slot is either free, or held by a live task, or held by the loop  *)
(* while it claims; the only slots beyond MaxJobs are those the two error  *)
(* handlers of _run_loop released twice.                                   *)
PermitAccounting == permits + Held = MaxJobs + surplus

(* queue_worker.py's "bounded concurrency": as long as no claim has failed *)
(* since the worker was started, at most MaxJobs rows are worked on.       *)
ConcurrencyCap == surplus = 0 => Cardinality(Live) <= MaxJobs

(* A row that never outlived a heartbeat under a working task has one      *)
(* owner at a time, and while it has one neither the sweep nor a failure   *)
(* reported by somebody else puts it back in the queue.                    *)
ExclusiveOwner ==
  \A i \in Items \ stalled :
    /\ \A t1, t2 \in Owners(i) : t1 = t2
    /\ Owners(i) # {} => status[i] # "queued"

(* Whatever mix of job failures, database errors, crashes and sweeps a row *)
(* goes through, it is claimed once and then once per retry, unless its    *)
(* heartbeat went stale under a working task.                              *)
AttemptsBounded ==
  \A i \in Items \ stalled :
    /\ retries[i] <= MaxRetries
    /\ attempts[i] <= retries[i] + 1

(* The inductive invariant behind ExclusiveOwner, AttemptsBounded and      *)
(* NoRowLost: an owner's row is never queued, its heartbeat is fresh until *)
(* stalled says otherwise, and what mark_failed read of it still holds.    *)
OwnershipInv ==
  /\ \A i \in Items : retries[i] <= MaxRetries
  /\ \A t \in Tasks : Engaged(t) => status[item[t]] # "absent"
  /\ \A t \in Tasks : Engaged(t) /\ item[t] \notin stalled =>
       /\ status[item[t]] # "queued"
       /\ status[item[t]] = "processing" => fresh[item[t]]
       /\ pc[t] \in {"writing", "rewriting"} => seen[t].retries = retries[item[t]]
       /\ \A u \in Tasks : Engaged(u) /\ item[u] = item[t] => u = t
  /\ \A i \in Items \ stalled : attempts[i] <= AttemptsOf(i)

(* A row leaves the table only because its source is deleted, its task saw *)
(* the job through, or all of its retries are used up: no interleaving of  *)
(* tasks, errors, sweep and crashes loses a row that still had a retry,    *)
(* unless its heartbeat went stale under a working task.                   *)
NoRowLost ==
  [][\A i \in Items \ stalled : Exists(i) /\ ~Exists(i)' =>
       \/ DeleteSource(i)
       \/ retries[i] = MaxRetries
       \/ \E t \in Tasks : pc[t] = "completing" /\ item[t] = i]_vars

(* The owners of a row are the tasks that still mean to do something to it.*)
Service == INSTANCE WorkQueue WITH
  Workers <- Tasks,
  state <- [i \in Items |-> LeaseState(i)],
  holders <- [i \in Items |-> Owners(i)],
  grants <- attempts,
  expired <- stalled

(* The table, the poll loop, the tasks, their heartbeats and the sweep     *)
(* together implement the lease service of WorkQueue: whatever crashes or  *)
(* errors come in between, a row is only ever leased when nobody holds it, *)
(* given back with a retry left, and never returns once it is settled.     *)
LeasesAreKept == Service!Spec

=============================================================================
