-------------------------- MODULE QueueWorkerProofs --------------------------
(***************************************************************************)
(* Theorems about QueueWorker, for every table, number of slots, retries,  *)
(* errors and crashes.                                                     *)
(***************************************************************************)
EXTENDS QueueWorker, QueueItemsProofs, FiniteSetTheorems

(* What a task without work holds is well typed.                           *)
LEMMA BlankLocals == AnyItem \in Items /\ Unread \in Snapshot
BY SizesAssumption DEF AnyItem, Unread, Snapshot, RowStatus

(* Type correctness of the worker.                                         *)
THEOREM TypeCorrect == Spec => []TypeOK
<1> USE SizesAssumption, MaxRetriesAssumption
<1>1. Init => TypeOK
  <2> SUFFICES ASSUME Init PROVE TypeOK
    OBVIOUS
  <2>1. RowsTypeOK
    BY DEF Init, EmptyTable, RowsTypeOK, RowStatus
  <2>2. item \in [Tasks -> Items] /\ seen \in [Tasks -> Snapshot]
    BY BlankLocals DEF Init
  <2> QED BY <2>1, <2>2 DEF Init, TypeOK, LoopState, TaskState
<1>2. TypeOK /\ [Next]_vars => TypeOK'
  <2> SUFFICES ASSUME TypeOK, [Next]_vars PROVE TypeOK'
    OBVIOUS
  <2> USE DEF TypeOK, LoopState, TaskState, workerVars, history
  <2>1. CASE \E i \in Items : Enqueue(i) \/ DeleteSource(i)
    BY <2>1, BlankLocals, RowsTyped DEF Enqueue, DeleteSource
  <2>2. CASE Notify
    BY <2>2, RowsKept DEF Notify
  <2>3. CASE LoopStep
    <3>1. CASE AcquireSlot
      BY <3>1, RowsKept DEF AcquireSlot
    <3>2. CASE \E i \in Items, t \in Tasks : ClaimItem(i, t)
      <4> PICK i \in Items, t \in Tasks : ClaimItem(i, t)
        BY <3>2
      <4>1. RowsTypeOK'
        BY BlankLocals, RowsTyped DEF ClaimItem
      <4>2. pc' \in [Tasks -> TaskState] /\ attempts' \in [Items -> Nat]
        BY DEF ClaimItem
      <4> QED BY <4>1, <4>2 DEF ClaimItem
    <3>3. CASE ClaimNothing
      BY <3>3, RowsKept DEF ClaimNothing
    <3>4. CASE GiveUp
      <4>1. event' \in BOOLEAN
        BY <3>4 DEF GiveUp
      <4> QED BY <3>4, <4>1, RowsKept DEF GiveUp
    <3>5. CASE Wake \/ PollTimeout \/ EndSleep
      BY <3>5, RowsKept DEF Wake, PollTimeout, EndSleep
    <3>6. CASE ClaimError
      BY <3>6, RowsKept DEF ClaimError, Fault
    <3> QED BY <2>3, <3>1, <3>2, <3>3, <3>4, <3>5, <3>6 DEF LoopStep
  <2>4. ASSUME NEW t \in Tasks, TaskStep(t) \/ Heartbeat(t) PROVE TypeOK'
    <3> item[t] \in Items /\ seen[t] \in Snapshot
      OBVIOUS
    <3>1. CASE LookUpSource(t)
      BY <3>1, RowsKept DEF LookUpSource, Goto, Fault
    <3>2. CASE PipelineReturns(t)
      BY <3>2, RowsKept DEF PipelineReturns, Goto, Fault
    <3>3. CASE Complete(t)
      BY <3>3, RowsTyped DEF Complete, Goto, Fault
    <3>4. CASE MarkRead(t)
      BY <3>4, ReadTyped, RowsKept DEF MarkRead, Goto, Fault, OnError
    <3>5. CASE MarkWrite(t)
      <4>1. RowsTypeOK'
        BY <3>5, RowsTyped DEF MarkWrite
      <4>2. event' \in BOOLEAN
        BY <3>5 DEF MarkWrite
      <4>3. pc' \in [Tasks -> TaskState]
        BY <3>5 DEF MarkWrite, Goto, OnError
      <4>4. faults' \in Nat
        BY <3>5 DEF MarkWrite, Fault
      <4> QED BY <3>5, <4>1, <4>2, <4>3, <4>4 DEF MarkWrite
    <3>6. CASE Finish(t)
      BY <3>6, BlankLocals, RowsKept DEF Finish, Goto
    <3>7. CASE Heartbeat(t)
      BY <3>7, RowsTyped DEF Heartbeat
    <3> QED BY <2>4, <3>1, <3>2, <3>3, <3>4, <3>5, <3>6, <3>7 DEF TaskStep
  <2>5. CASE Clock
    <3>1. CASE \E i \in Items : HeartbeatLapses(i)
      BY <3>1, BlankLocals, RowsTyped DEF HeartbeatLapses
    <3>2. CASE \E i \in Items : RetryComesDue(i)
      BY <3>2, BlankLocals, RowsTyped DEF RetryComesDue
    <3> QED BY <2>5, <3>1, <3>2 DEF Clock
  <2>6. CASE StaleSweep
    <3>1. RowsTypeOK'
      BY <2>6, BlankLocals, RowsTyped DEF StaleSweep
    <3>2. event' \in BOOLEAN
      BY <2>6 DEF StaleSweep
    <3> QED BY <2>6, <3>1, <3>2 DEF StaleSweep
  <2>7. CASE Restart
    <3>1. event' \in BOOLEAN
      BY <2>7 DEF Restart
    <3>2. notifying' \in BOOLEAN
      BY <2>7 DEF Restart
    <3> QED BY <2>7, <3>1, <3>2, BlankLocals, RowsKept DEF Restart
  <2>8. CASE UNCHANGED vars
    BY <2>8, RowsKept DEF vars
  <2> QED BY <2>1, <2>2, <2>3, <2>4, <2>5, <2>6, <2>7, <2>8 DEF Next
<1> QED BY <1>1, <1>2, PTL DEF Spec

-----------------------------------------------------------------------------
(* The ownership invariant holds of an empty table,                        *)
LEMMA OwnershipInit == Init => OwnershipInv
BY MaxRetriesAssumption, BlankLocals
   DEF Init, EmptyTable, OwnershipInv, Engaged, AttemptsOf

(* is preserved by every action,                                           *)
LEMMA OwnershipStep == TypeOK /\ OwnershipInv /\ [Next]_vars => OwnershipInv'
<1> SUFFICES ASSUME TypeOK, OwnershipInv, [Next]_vars PROVE OwnershipInv'
  OBVIOUS
<1> USE MaxRetriesAssumption DEF TypeOK, RowsTypeOK, OwnershipInv, Engaged, AttemptsOf
<1>1. ASSUME NEW i \in Items, Enqueue(i) PROVE OwnershipInv'
  BY <1>1 DEF Enqueue, Insert, workerVars, history
<1>2. ASSUME NEW i \in Items, DeleteSource(i) PROVE OwnershipInv'
  BY <1>2 DEF DeleteSource, Delete, Exists, workerVars, history
<1>3. CASE Notify
  BY <1>3 DEF Notify, rows, history
<1>4. CASE AcquireSlot \/ ClaimNothing \/ GiveUp \/ Wake \/ PollTimeout \/ ClaimError \/ EndSleep
  BY <1>4 DEF AcquireSlot, ClaimNothing, GiveUp, Wake, PollTimeout, ClaimError, EndSleep,
              rows, history
<1>5. ASSUME NEW i \in Items, NEW t \in Tasks, ClaimItem(i, t) PROVE OwnershipInv'
  BY <1>5 DEF ClaimItem, Claim, NextInLine, Claimable
<1>6. ASSUME NEW t \in Tasks, LookUpSource(t) \/ PipelineReturns(t) PROVE OwnershipInv'
  BY <1>6 DEF LookUpSource, PipelineReturns, Goto, rows
<1>7. ASSUME NEW t \in Tasks, Complete(t) PROVE OwnershipInv'
  BY <1>7 DEF Complete, Delete, Exists, Goto, rows
<1>8. ASSUME NEW t \in Tasks, MarkRead(t) PROVE OwnershipInv'
  BY <1>8 DEF MarkRead, ReadForFailure, OnError, Goto, rows
<1>9. ASSUME NEW t \in Tasks, MarkWrite(t) PROVE OwnershipInv'
  <2> DEFINE i == item[t]
  <2>1. i \in Items /\ pc[t] \in {"writing", "rewriting"} /\ seen[t].retries \in Nat
    BY <1>9 DEF MarkWrite, Snapshot
  <2>2. UNCHANGED <<item, seen, attempts, stalled>>
    BY <1>9 DEF MarkWrite
  <2>3. CASE rows' = rows
    BY <1>9, <2>1, <2>2, <2>3 DEF MarkWrite, OnError, Goto, rows
  <2>4. CASE WriteFailure(i, seen[t]) /\ Requeues(seen[t]) /\ Goto(t, "finishing")
    <3>1. retries' = [retries EXCEPT ![i] = seen[t].retries + 1]
      BY <2>4 DEF WriteFailure
    <3>2. seen[t].retries + 1 <= MaxRetries
      BY <2>1, <2>4 DEF Requeues
    <3>3. i \notin stalled => seen[t].retries = retries[i] /\ attempts[i] <= retries[i] + 1
      BY <2>1
    <3>4. status[i] # "absent"
      BY <2>1
    <3>5. \/ UNCHANGED <<status, fresh>>
          \/ status' = [status EXCEPT ![i] = "queued"] /\ fresh' = [fresh EXCEPT ![i] = TRUE]
      BY <2>4 DEF WriteFailure
    <3> QED BY <2>1, <2>2, <2>4, <3>1, <3>2, <3>3, <3>4, <3>5 DEF Goto
  <2>5. CASE WriteFailure(i, seen[t]) /\ ~Requeues(seen[t]) /\ Goto(t, "finishing")
    BY <2>1, <2>2, <2>5 DEF WriteFailure, Delete, Exists, Goto
  <2> QED BY <1>9, <2>3, <2>4, <2>5 DEF MarkWrite
<1>10. ASSUME NEW t \in Tasks, Finish(t) PROVE OwnershipInv'
  BY <1>10 DEF Finish, Goto, rows, history
<1>11. ASSUME NEW t \in Tasks, Heartbeat(t) PROVE OwnershipInv'
  BY <1>11 DEF Heartbeat, Beat, Exists, workerVars, history
<1>12. ASSUME NEW i \in Items, HeartbeatLapses(i) PROVE OwnershipInv'
  BY <1>12 DEF HeartbeatLapses, Lapse, Owners, workerVars
<1>13. ASSUME NEW i \in Items, RetryComesDue(i) PROVE OwnershipInv'
  BY <1>13 DEF RetryComesDue, BackoffEnds, workerVars, history
<1>14. CASE StaleSweep
  BY <1>14 DEF StaleSweep, ReclaimStale, Stale, Retriable, history
<1>15. CASE Restart
  BY <1>15 DEF Restart, rows
<1>16. CASE UNCHANGED vars
  BY <1>16 DEF vars, rows, workerVars, history
<1> QED
  BY <1>1, <1>2, <1>3, <1>4, <1>5, <1>6, <1>7, <1>8, <1>9, <1>10, <1>11, <1>12,
     <1>13, <1>14, <1>15, <1>16
     DEF Next, LoopStep, TaskStep, Clock

(* and therefore holds in every reachable state.                           *)
LEMMA Ownership == Spec => []OwnershipInv
<1>1. Init => OwnershipInv
  BY OwnershipInit
<1>2. TypeOK /\ OwnershipInv /\ [Next]_vars => OwnershipInv'
  BY OwnershipStep
<1> QED BY <1>1, <1>2, TypeCorrect, PTL DEF Spec

(* No two tasks work on a row, and no row is put back in the queue under   *)
(* its owner, as long as its heartbeat did not go stale: claim_next's lock *)
(* and status, the sweep's cutoff and mark_failed fit together.            *)
THEOREM OwnersAreExclusive == Spec => []ExclusiveOwner
<1>1. OwnershipInv => ExclusiveOwner
  BY DEF OwnershipInv, ExclusiveOwner, Owners
<1> QED BY <1>1, Ownership, PTL

(* A row is claimed at most MaxRetries + 1 times, through any mix of       *)
(* failures, errors, crashes and reclaims, as long as its heartbeat did    *)
(* not go stale under a task.                                              *)
THEOREM AttemptsAreBounded == Spec => []AttemptsBounded
<1>1. TypeOK /\ OwnershipInv => AttemptsBounded
  <2> SUFFICES ASSUME TypeOK, OwnershipInv, NEW i \in Items \ stalled
               PROVE  retries[i] <= MaxRetries /\ attempts[i] <= retries[i] + 1
    BY DEF AttemptsBounded
  <2>1. attempts[i] \in Nat /\ retries[i] \in Nat
    BY DEF TypeOK, RowsTypeOK
  <2>2. attempts[i] <= AttemptsOf(i) /\ retries[i] <= MaxRetries
    BY DEF OwnershipInv
  <2> QED BY <2>1, <2>2 DEF AttemptsOf
<1> QED BY <1>1, Ownership, TypeCorrect, PTL

(* No step deletes a row that still has a retry, but for the deletion of   *)
(* its source and the completion of its run.                               *)
THEOREM RowsAreNotLost == Spec => NoRowLost
<1> DEFINE Loses(i) == Exists(i) /\ ~Exists(i)'
           Excuse(i) == \/ DeleteSource(i)
                        \/ retries[i] = MaxRetries
                        \/ \E t \in Tasks : pc[t] = "completing" /\ item[t] = i
<1>1. TypeOK /\ OwnershipInv /\ [Next]_vars =>
        [\A i \in Items \ stalled : Loses(i) => Excuse(i)]_vars
  <2> SUFFICES ASSUME TypeOK, OwnershipInv, [Next]_vars,
                      NEW i \in Items \ stalled, Loses(i)
               PROVE  Excuse(i)
    OBVIOUS
  <2> USE MaxRetriesAssumption DEF TypeOK, RowsTypeOK, Exists
  <2>1. status' # status
    OBVIOUS
  <2>2. ASSUME NEW j \in Items, Enqueue(j) PROVE Excuse(i)
    BY <2>2 DEF Enqueue, Insert
  <2>3. ASSUME NEW j \in Items, DeleteSource(j) PROVE Excuse(i)
    <3>1. j = i
      BY <2>3 DEF DeleteSource, Delete
    <3> QED BY <2>3, <3>1
  <2>4. ASSUME NEW j \in Items, NEW t \in Tasks, ClaimItem(j, t) PROVE Excuse(i)
    BY <2>4 DEF ClaimItem, Claim
  <2>5. ASSUME NEW t \in Tasks, Complete(t) PROVE Excuse(i)
    BY <2>1, <2>5 DEF Complete, Delete, rows
  <2>6. ASSUME NEW t \in Tasks, MarkWrite(t) PROVE Excuse(i)
    <3>1. pc[t] \in {"writing", "rewriting"} /\ WriteFailure(item[t], seen[t])
      BY <2>1, <2>6 DEF MarkWrite, rows
    <3>2. item[t] = i /\ ~Requeues(seen[t])
      BY <3>1 DEF WriteFailure, Delete
    <3>3. seen[t].retries = retries[i] /\ retries[i] <= MaxRetries /\ seen[t].retries \in Nat
      BY <3>1, <3>2 DEF OwnershipInv, Engaged, Snapshot
    <3> QED BY <3>2, <3>3 DEF Requeues
  <2>7. CASE StaleSweep
    <3>1. i \in Stale \ Retriable
      BY <2>7 DEF StaleSweep, ReclaimStale, Stale
    <3> QED BY <3>1 DEF OwnershipInv, Stale, Retriable
  <2>8. ASSUME NEW t \in Tasks, Heartbeat(t) PROVE Excuse(i)
    BY <2>1, <2>8 DEF Heartbeat, Beat
  <2>9. ASSUME NEW j \in Items, HeartbeatLapses(j) \/ RetryComesDue(j) PROVE Excuse(i)
    BY <2>1, <2>9 DEF HeartbeatLapses, RetryComesDue, Lapse, BackoffEnds
  <2>10. ASSUME NEW t \in Tasks,
                LookUpSource(t) \/ PipelineReturns(t) \/ MarkRead(t) \/ Finish(t)
         PROVE  Excuse(i)
    BY <2>1, <2>10 DEF LookUpSource, PipelineReturns, MarkRead, Finish, rows
  <2>11. CASE Notify \/ Restart \/ AcquireSlot \/ ClaimNothing \/ GiveUp \/ Wake
               \/ PollTimeout \/ ClaimError \/ EndSleep
    BY <2>1, <2>11 DEF Notify, Restart, AcquireSlot, ClaimNothing, GiveUp, Wake,
                      PollTimeout, ClaimError, EndSleep, rows
  <2>12. CASE UNCHANGED vars
    BY <2>1, <2>12 DEF vars, rows
  <2> QED BY <2>2, <2>3, <2>4, <2>5, <2>6, <2>7, <2>8, <2>9, <2>10, <2>11, <2>12
             DEF Next, LoopStep, TaskStep, Clock
<1>2. NoRowLost <=> [][\A i \in Items \ stalled : Loses(i) => Excuse(i)]_vars
  BY DEF NoRowLost
<1> QED BY <1>1, <1>2, Ownership, TypeCorrect, PTL DEF Spec

-----------------------------------------------------------------------------
(* Semaphore accounting.  The live tasks can be counted.                   *)
LEMMA LiveIsFinite == IsFiniteSet(Live) /\ Cardinality(Live) \in Nat
<1>1. Live \subseteq Tasks
  BY DEF Live
<1> QED BY <1>1, TasksAssumption, FS_Subset, FS_CardinalityType

(* A task that moves between two states in which it holds its slot.        *)
LEMMA StaysLive ==
  ASSUME TypeOK, NEW t \in Tasks, pc[t] # "idle",
         NEW s \in TaskState \ {"idle"}, Goto(t, s)
  PROVE  Live' = Live
BY DEF TypeOK, Live, Goto

(* Every action keeps free and held slots in balance.                      *)
LEMMA PermitStep == TypeOK /\ PermitAccounting /\ [Next]_vars => PermitAccounting'
<1> SUFFICES ASSUME TypeOK, PermitAccounting, [Next]_vars PROVE PermitAccounting'
  OBVIOUS
<1> USE LiveIsFinite, SizesAssumption DEF PermitAccounting, Held
<1>a. permits \in Nat /\ surplus \in Nat /\ MaxJobs \in Nat
  BY DEF TypeOK
<1>b. ASSUME UNCHANGED <<permits, surplus, loop>>, Live' = Live PROVE PermitAccounting'
  BY <1>b
<1>1. ASSUME NEW i \in Items, Enqueue(i) \/ DeleteSource(i) \/ HeartbeatLapses(i)
                              \/ RetryComesDue(i)
      PROVE  PermitAccounting'
  BY <1>1, <1>b DEF Enqueue, DeleteSource, HeartbeatLapses, RetryComesDue, workerVars, history, Live
<1>2. CASE Notify \/ StaleSweep
  BY <1>2, <1>b DEF Notify, StaleSweep, history, Live
<1>3. CASE AcquireSlot
  BY <1>3, <1>a DEF AcquireSlot, history, Live
<1>4. ASSUME NEW i \in Items, NEW t \in Tasks, ClaimItem(i, t) PROVE PermitAccounting'
  <2>1. Live' = Live \union {t} /\ t \notin Live
    BY <1>4 DEF ClaimItem, Live, TypeOK
  <2>2. Cardinality(Live') = Cardinality(Live) + 1
    BY <2>1, FS_AddElement
  <2> QED BY <1>4, <1>a, <2>2 DEF ClaimItem
<1>5. CASE ClaimNothing
  BY <1>5, <1>a DEF ClaimNothing, history, Live
<1>6. CASE GiveUp
  BY <1>6, <1>a DEF GiveUp, history, Live
<1>7. CASE Wake \/ PollTimeout \/ EndSleep
  BY <1>7, <1>a DEF Wake, PollTimeout, EndSleep, history, Live
<1>8. CASE ClaimError
  BY <1>8, <1>a DEF ClaimError, Live
<1>9. ASSUME NEW t \in Tasks,
             \/ LookUpSource(t) \/ PipelineReturns(t) \/ Complete(t)
             \/ MarkRead(t) \/ MarkWrite(t)
      PROVE  PermitAccounting'
  <2>1. pc[t] # "idle" /\ UNCHANGED <<permits, surplus, loop>>
    BY <1>9 DEF LookUpSource, PipelineReturns, Complete, MarkRead, MarkWrite
  <2>2. \E s \in TaskState \ {"idle"} : Goto(t, s)
    BY <1>9 DEF LookUpSource, PipelineReturns, Complete, MarkRead, MarkWrite, OnError, TaskState
  <2>3. Live' = Live
    BY <2>1, <2>2, StaysLive
  <2> QED BY <1>b, <2>1, <2>3
<1>10. ASSUME NEW t \in Tasks, Finish(t) PROVE PermitAccounting'
  <2>1. Live' = Live \ {t} /\ t \in Live
    BY <1>10 DEF Finish, Goto, Live, TypeOK
  <2>2. Cardinality(Live') = Cardinality(Live) - 1
    BY <2>1, FS_RemoveElement
  <2> QED BY <1>10, <1>a, <2>2 DEF Finish, history
<1>11. ASSUME NEW t \in Tasks, Heartbeat(t) PROVE PermitAccounting'
  BY <1>11, <1>b DEF Heartbeat, workerVars, history, Live
<1>12. CASE Restart
  <2>1. Live' = {}
    BY <1>12 DEF Restart, Live
  <2> QED BY <1>12, <1>a, <2>1, FS_EmptySet DEF Restart
<1>13. CASE UNCHANGED vars
  BY <1>13, <1>b DEF vars, workerVars, history, Live
<1> QED
  BY <1>1, <1>2, <1>3, <1>4, <1>5, <1>6, <1>7, <1>8, <1>9, <1>10, <1>11, <1>12, <1>13
     DEF Next, LoopStep, TaskStep, Clock

(* Slots are neither lost nor invented, whatever fails and whatever        *)
(* crashes, but for the second release of each failed claim.               *)
THEOREM PermitsAddUp == Spec => []PermitAccounting
<1>1. Init => PermitAccounting
  <2> SUFFICES ASSUME Init PROVE PermitAccounting
    OBVIOUS
  <2>1. Live = {}
    BY DEF Init, Live
  <2> QED BY <2>1, FS_EmptySet, SizesAssumption DEF Init, PermitAccounting, Held
<1>2. TypeOK /\ PermitAccounting /\ [Next]_vars => PermitAccounting'
  BY PermitStep
<1> QED BY <1>1, <1>2, TypeCorrect, PTL DEF Spec

(* While no claim has failed, no more than MAX_CONCURRENT_JOBS rows are    *)
(* processed at a time.                                                    *)
THEOREM ConcurrencyIsCapped == Spec => []ConcurrencyCap
<1>1. TypeOK /\ PermitAccounting => ConcurrencyCap
  BY LiveIsFinite, SizesAssumption DEF TypeOK, PermitAccounting, Held, ConcurrencyCap
<1> QED BY <1>1, PermitsAddUp, TypeCorrect, PTL
-----------------------------------------------------------------------------
(* Polling.                                                                *)

RowsPresent == {i \in Items : Exists(i)}

(* A step adds one row to the table at most.                               *)
LEMMA OneRowAtATime ==
  ASSUME TypeOK, [Next]_vars
  PROVE  \E x \in Items : RowsPresent' \subseteq RowsPresent \union {x}
<1> USE DEF workerVars, history
<1> SUFFICES \E x \in Items : \A i \in Items \ {x} : Exists(i)' => Exists(i)
  BY DEF RowsPresent
<1>0. AnyItem \in Items /\ status \in [Items -> RowStatus]
      /\ \A t \in Tasks : item[t] \in Items
  BY BlankLocals DEF TypeOK, RowsTypeOK
<1>1. ASSUME NEW i \in Items, Enqueue(i) \/ DeleteSource(i)
      PROVE  \A j \in Items \ {i} : Exists(j)' => Exists(j)
  BY <1>0, <1>1 DEF Enqueue, DeleteSource, Insert, Delete, Exists
<1>2. ASSUME NEW i \in Items, NEW t \in Tasks, ClaimItem(i, t)
      PROVE  \A j \in Items \ {i} : Exists(j)' => Exists(j)
  BY <1>0, <1>2 DEF ClaimItem, Claim, Exists
<1>3. ASSUME NEW t \in Tasks, TaskStep(t) \/ Heartbeat(t)
      PROVE  \A j \in Items \ {item[t]} : Exists(j)' => Exists(j)
  BY <1>0, <1>3 DEF TaskStep, LookUpSource, PipelineReturns, Complete, MarkRead, MarkWrite,
     Finish, Heartbeat, Beat, Delete, WriteFailure, Exists, rows
<1>4. CASE StaleSweep
  <2>1. \A j \in Items : Exists(j)' => Exists(j)
    BY <1>4 DEF StaleSweep, ReclaimStale, Stale, Retriable, Exists
  <2> QED BY <1>0, <2>1
<1>5. CASE \/ Notify \/ AcquireSlot \/ ClaimNothing \/ GiveUp \/ Wake \/ PollTimeout
           \/ ClaimError \/ EndSleep \/ Clock \/ Restart \/ UNCHANGED vars
  <2>1. UNCHANGED status
    BY <1>5 DEF Notify, AcquireSlot, ClaimNothing, GiveUp, Wake, PollTimeout, ClaimError,
       EndSleep, Clock, HeartbeatLapses, Lapse, RetryComesDue, BackoffEnds, Restart, rows, vars
  <2> QED BY <1>0, <2>1 DEF Exists
<1>6. CASE \E i \in Items, t \in Tasks : ClaimItem(i, t)
  BY <1>2, <1>6
<1>7. CASE \E t \in Tasks : TaskStep(t) \/ Heartbeat(t)
  BY <1>0, <1>3, <1>7
<1>8. CASE \E i \in Items : Enqueue(i) \/ DeleteSource(i)
  BY <1>1, <1>8
<1> QED BY <1>4, <1>5, <1>6, <1>7, <1>8 DEF Next, LoopStep

(* However many rows the table could hold, it holds finitely many.         *)
LEMMA RowsAreFinite == Spec => []IsFiniteSet(RowsPresent)
<1>1. Init => IsFiniteSet(RowsPresent)
  <2> SUFFICES ASSUME Init PROVE RowsPresent = {}
    BY FS_EmptySet
  <2> QED BY DEF Init, EmptyTable, Exists, RowsPresent
<1>2. TypeOK /\ IsFiniteSet(RowsPresent) /\ [Next]_vars => IsFiniteSet(RowsPresent)'
  <2> SUFFICES ASSUME TypeOK, IsFiniteSet(RowsPresent), [Next]_vars
               PROVE  IsFiniteSet(RowsPresent')
    OBVIOUS
  <2> PICK x \in Items : RowsPresent' \in SUBSET (RowsPresent \union {x})
    BY OneRowAtATime
  <2>1. IsFiniteSet(RowsPresent \union {x})
    BY FS_AddElement
  <2> QED BY <2>1, FS_Subset
<1> QED BY <1>1, <1>2, TypeCorrect, PTL DEF Spec

(* The loop gives its slot back and waits (ClaimNothing) only when nothing *)
(* is due: in every reachable state exactly one row can be claimed, or no  *)
(* row is due at all.  Ties in priority and rows inserted out of order     *)
(* never leave claim_next without an answer or with two.                   *)
THEOREM ClaimFindsTheRow ==
  Spec => [](\/ NothingToClaim
             \/ \E i \in Items : NextInLine(i) /\ \A j \in Items : NextInLine(j) => j = i)
<1>1. IsFiniteSet(RowsPresent)
      => \/ NothingToClaim
         \/ \E i \in Items : NextInLine(i) /\ \A j \in Items : NextInLine(j) => j = i
  BY SomeRowIsNext, OneIsNext DEF RowsPresent
<1> QED BY <1>1, RowsAreFinite, PTL
=============================================================================
