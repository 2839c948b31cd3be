--------------------------- MODULE WorkQueueProofs ---------------------------
(***************************************************************************)
(* QueueWorker implements WorkQueue, for every table, number of slots,     *)
(* retries, errors and crashes.                                            *)
(***************************************************************************)
EXTENDS QueueWorkerProofs

(* How a change of a row looks to a user of the queue: what has to be      *)
(* known of status, owners, attempts and stalls for each abstract step.    *)
StallKept(j) == j \in stalled' <=> j \in stalled
AttemptsKept(j) == attempts'[j] = attempts[j]

LEMMA ToSubmit ==
  ASSUME NEW j \in Items, StallKept(j), AttemptsKept(j), Owners(j)' = Owners(j),
         status[j] = "absent", status'[j] = "queued"
  PROVE  Service!RowStep(j)
BY DEF Service!RowStep, Service!Submit, Service!KeepsLease, Service!KeepsExpiry,
       LeaseState, StallKept, AttemptsKept

LEMMA ToLease ==
  ASSUME NEW j \in Items, NEW t \in Tasks, StallKept(j), attempts'[j] = attempts[j] + 1,
         Owners(j)' = Owners(j) \union {t},
         status[j] = "queued", status'[j] = "processing",
         j \notin stalled => Owners(j) = {} /\ attempts[j] <= MaxRetries
  PROVE  Service!RowStep(j)
BY DEF Service!RowStep, Service!Lease, Service!Promised, Service!KeepsExpiry,
       LeaseState, StallKept

LEMMA ToGiveBack ==
  ASSUME NEW j \in Items, StallKept(j), AttemptsKept(j),
         Owners(j)' \subseteq Owners(j),
         status[j] = "processing", status'[j] = "queued",
         j \notin stalled => Owners(j)' = {} /\ attempts[j] <= MaxRetries
  PROVE  Service!RowStep(j)
BY DEF Service!RowStep, Service!GiveBack, Service!Promised, Service!KeepsExpiry,
       LeaseState, StallKept, AttemptsKept

LEMMA ToSettle ==
  ASSUME NEW j \in Items, StallKept(j), AttemptsKept(j),
         Owners(j)' \subseteq Owners(j),
         Exists(j), status'[j] = "gone"
  PROVE  Service!RowStep(j)
BY DEF Service!RowStep, Service!Settle, Service!KeepsExpiry,
       Exists, LeaseState, StallKept, AttemptsKept

LEMMA ToLetGo ==
  ASSUME NEW j \in Items, StallKept(j), AttemptsKept(j),
         Owners(j)' \subseteq Owners(j), status'[j] = status[j]
  PROVE  Service!RowStep(j)
BY DEF Service!RowStep, Service!LetGo, Service!KeepsExpiry,
       LeaseState, StallKept, AttemptsKept

LEMMA ToExpire ==
  ASSUME NEW j \in Items, AttemptsKept(j), Owners(j)' = Owners(j), Owners(j) # {},
         status'[j] = status[j], j \in stalled'
  PROVE  Service!RowStep(j)
BY DEF Service!RowStep, Service!Expire, LeaseState, AttemptsKept

(* A row that a step leaves alone, but for what its owners may forget.     *)
LEMMA OwnersForget ==
  ASSUME NEW j \in Items, \A t \in Tasks : Engaged(t)' => Engaged(t) /\ item'[t] = item[t]
  PROVE  Owners(j)' \subseteq Owners(j)
BY DEF Owners

(* The empty table.                                                        *)
LEMMA ServiceInit == Init => Service!Init
<1> SUFFICES ASSUME Init PROVE Service!Init
  OBVIOUS
<1>1. \A i \in Items : LeaseState(i) = "absent" /\ Owners(i) = {}
  BY DEF Init, EmptyTable, LeaseState, Owners, Engaged
<1> QED BY <1>1 DEF Init, Service!Init

(* Every action moves every row by a step of the service.                  *)
LEMMA ServiceStep ==
  TypeOK /\ OwnershipInv /\ [Next]_vars => [Service!Next]_(Service!vars)
<1> SUFFICES ASSUME TypeOK, OwnershipInv, [Next]_vars, NEW j \in Items
             PROVE  Service!RowStep(j)
  BY DEF Service!Next
<1> USE DEF TypeOK, RowsTypeOK
<1>a. ASSUME UNCHANGED <<status, item, attempts, stalled>>,
             \A t \in Tasks : Engaged(t)' => Engaged(t)
      PROVE  Service!RowStep(j)
  BY <1>a, OwnersForget, ToLetGo DEF StallKept, AttemptsKept
<1>b. ASSUME UNCHANGED <<status, pc, item, attempts, stalled>> PROVE Service!RowStep(j)
  BY <1>a, <1>b DEF Engaged
<1>1. ASSUME NEW i \in Items, Enqueue(i) PROVE Service!RowStep(j)
  <2>1. Owners(j)' = Owners(j) /\ StallKept(j) /\ AttemptsKept(j)
    BY <1>1 DEF Enqueue, workerVars, history, Owners, Engaged, StallKept, AttemptsKept
  <2>2. CASE i = j
    BY <1>1, <2>1, <2>2, ToSubmit DEF Enqueue, Insert
  <2>3. CASE i # j
    BY <1>1, <2>1, <2>3, ToLetGo DEF Enqueue, Insert
  <2> QED BY <2>2, <2>3
<1>2. ASSUME NEW i \in Items, DeleteSource(i) PROVE Service!RowStep(j)
  <2>1. Owners(j)' = Owners(j) /\ StallKept(j) /\ AttemptsKept(j)
    BY <1>2 DEF DeleteSource, workerVars, history, Owners, Engaged, StallKept, AttemptsKept
  <2>2. CASE i = j
    BY <1>2, <2>1, <2>2, ToSettle DEF DeleteSource, Delete
  <2>3. CASE i # j
    BY <1>2, <2>1, <2>3, ToLetGo DEF DeleteSource, Delete
  <2> QED BY <2>2, <2>3
<1>3. CASE Notify \/ AcquireSlot \/ ClaimNothing \/ GiveUp \/ Wake \/ PollTimeout
             \/ ClaimError \/ EndSleep
  BY <1>3, <1>b DEF Notify, AcquireSlot, ClaimNothing, GiveUp, Wake, PollTimeout,
                    ClaimError, EndSleep, rows, history
<1>4. ASSUME NEW i \in Items, NEW t \in Tasks, ClaimItem(i, t) PROVE Service!RowStep(j)
  <2>1. ~Engaged(t) /\ Engaged(t)' /\ item'[t] = i
    BY <1>4 DEF ClaimItem, Engaged
  <2>2. \A u \in Tasks \ {t} : (Engaged(u)' <=> Engaged(u)) /\ item'[u] = item[u]
    BY <1>4 DEF ClaimItem, Engaged
  <2>3. status[i] = "queued" /\ StallKept(j)
    BY <1>4 DEF ClaimItem, Claim, NextInLine, Claimable, StallKept
  <2>4. CASE i = j
    <3>1. Owners(j)' = Owners(j) \union {t}
      BY <2>1, <2>2, <2>4 DEF Owners
    <3>2. j \notin stalled => Owners(j) = {}
      BY <2>3, <2>4 DEF OwnershipInv, Owners
    <3>3. j \notin stalled => attempts[j] <= MaxRetries
      BY <2>3, <2>4, MaxRetriesAssumption DEF OwnershipInv, AttemptsOf
    <3>4. status'[j] = "processing" /\ attempts'[j] = attempts[j] + 1
      BY <1>4, <2>4 DEF ClaimItem, Claim
    <3> QED BY <2>3, <2>4, <3>1, <3>2, <3>3, <3>4, ToLease
  <2>5. CASE i # j
    <3>1. Owners(j)' \subseteq Owners(j)
      BY <2>1, <2>2, <2>5 DEF Owners
    <3>2. status'[j] = status[j] /\ AttemptsKept(j)
      BY <1>4, <2>5 DEF ClaimItem, Claim, AttemptsKept
    <3> QED BY <2>3, <3>1, <3>2, ToLetGo
  <2> QED BY <2>4, <2>5
<1>5. ASSUME NEW t \in Tasks, LookUpSource(t) \/ PipelineReturns(t) \/ MarkRead(t)
      PROVE  Service!RowStep(j)
  <2>1. UNCHANGED <<status, item, attempts, stalled>>
    BY <1>5 DEF LookUpSource, PipelineReturns, MarkRead, rows
  <2>2. Engaged(t) /\ \E s \in TaskState : Goto(t, s)
    BY <1>5 DEF LookUpSource, PipelineReturns, MarkRead, OnError, Engaged, TaskState
  <2>3. \A u \in Tasks : Engaged(u)' => Engaged(u)
    BY <2>2 DEF Goto, Engaged
  <2> QED BY <1>a, <2>1, <2>3
<1>6. ASSUME NEW t \in Tasks, Complete(t) \/ MarkWrite(t) PROVE Service!RowStep(j)
  <2>1. UNCHANGED <<item, attempts, stalled>>
    BY <1>6 DEF Complete, MarkWrite
  <2>2. Engaged(t) /\ \E s \in TaskState : Goto(t, s)
    BY <1>6 DEF Complete, MarkWrite, OnError, Engaged, TaskState
  <2>3. \A u \in Tasks : Engaged(u)' => Engaged(u) /\ item'[u] = item[u]
    BY <2>1, <2>2 DEF Goto, Engaged
  <2>4. Owners(j)' \subseteq Owners(j) /\ StallKept(j) /\ AttemptsKept(j)
    BY <2>1, <2>3, OwnersForget DEF StallKept, AttemptsKept
  <2>5. CASE status'[j] = status[j]
    BY <2>4, <2>5, ToLetGo
  <2>6. CASE Delete(item[t]) /\ status'[j] # status[j]
    BY <2>4, <2>6, ToSettle DEF Delete
  <2>7. CASE /\ pc[t] \in {"writing", "rewriting"}
             /\ WriteFailure(item[t], seen[t]) /\ Requeues(seen[t]) /\ Goto(t, "finishing")
             /\ status'[j] # status[j]
    <3>1. item[t] = j /\ status'[j] = "queued" /\ Exists(j)
      BY <2>7 DEF WriteFailure
    <3>2. status[j] = "processing"
      BY <2>7, <3>1 DEF Exists
    <3>3. ~Engaged(t)'
      BY <2>7 DEF Goto, Engaged
    <3>4. j \notin stalled => Owners(j)' = {}
      BY <2>2, <2>3, <3>1, <3>3 DEF OwnershipInv, Owners
    <3>5. j \notin stalled => seen[t].retries = retries[j] /\ attempts[j] <= retries[j] + 1
      BY <2>2, <2>7, <3>1, <3>2, MaxRetriesAssumption DEF OwnershipInv, AttemptsOf
    <3>6. j \notin stalled => attempts[j] <= MaxRetries
      BY <2>7, <3>5, MaxRetriesAssumption DEF Requeues
    <3> QED BY <2>4, <3>1, <3>2, <3>4, <3>6, ToGiveBack
  <2>8. \/ UNCHANGED status
        \/ Delete(item[t])
        \/ /\ pc[t] \in {"writing", "rewriting"}
           /\ WriteFailure(item[t], seen[t]) /\ Requeues(seen[t]) /\ Goto(t, "finishing")
    BY <1>6 DEF Complete, MarkWrite, WriteFailure, rows
  <2> QED BY <2>5, <2>6, <2>7, <2>8
<1>7. ASSUME NEW t \in Tasks, Finish(t) PROVE Service!RowStep(j)
  <2>1. \A u \in Tasks : Engaged(u)' => Engaged(u) /\ item'[u] = item[u]
    BY <1>7 DEF Finish, Goto, Engaged
  <2> QED BY <1>7, <2>1, OwnersForget, ToLetGo
          DEF Finish, rows, history, StallKept, AttemptsKept
<1>8. ASSUME NEW t \in Tasks, Heartbeat(t) PROVE Service!RowStep(j)
  BY <1>8, <1>b DEF Heartbeat, Beat, workerVars, history
<1>9. ASSUME NEW i \in Items, HeartbeatLapses(i) PROVE Service!RowStep(j)
  <2>1. Owners(j)' = Owners(j) /\ UNCHANGED <<status, attempts>>
    BY <1>9 DEF HeartbeatLapses, Lapse, workerVars, Owners, Engaged
  <2>2. CASE i = j /\ Owners(i) # {}
    BY <1>9, <2>1, <2>2, ToExpire DEF HeartbeatLapses, AttemptsKept
  <2>3. CASE i # j \/ Owners(i) = {}
    BY <1>9, <2>1, <2>3, ToLetGo DEF HeartbeatLapses, StallKept, AttemptsKept
  <2> QED BY <2>2, <2>3
<1>10. ASSUME NEW i \in Items, RetryComesDue(i) PROVE Service!RowStep(j)
  BY <1>10, <1>b DEF RetryComesDue, BackoffEnds, workerVars, history
<1>11. CASE StaleSweep
  <2>1. Owners(j)' = Owners(j) /\ StallKept(j) /\ AttemptsKept(j)
    BY <1>11 DEF StaleSweep, history, Owners, Engaged, StallKept, AttemptsKept
  <2>2. CASE j \in Retriable
    <3>1. status[j] = "processing" /\ ~fresh[j] /\ retries[j] < MaxRetries
      BY <2>2 DEF Retriable, Stale
    <3>2. j \notin stalled => Owners(j) = {}
      BY <3>1 DEF OwnershipInv, Owners
    <3>3. j \notin stalled => attempts[j] <= MaxRetries
      BY <3>1, MaxRetriesAssumption DEF OwnershipInv, AttemptsOf
    <3>4. status'[j] = "queued"
      BY <1>11, <2>2 DEF StaleSweep, ReclaimStale
    <3> QED BY <2>1, <3>1, <3>2, <3>3, <3>4, ToGiveBack
  <2>3. CASE j \in Stale \ Retriable
    BY <1>11, <2>1, <2>3, ToSettle DEF StaleSweep, ReclaimStale, Stale, Exists
  <2>4. CASE j \notin Stale
    BY <1>11, <2>1, <2>4, ToLetGo DEF StaleSweep, ReclaimStale, Retriable
  <2> QED BY <2>2, <2>3, <2>4
<1>12. CASE Restart
  <2>1. \A u \in Tasks : ~Engaged(u)'
    BY <1>12 DEF Restart, Engaged
  <2> QED BY <1>12, <2>1, OwnersForget, ToLetGo DEF Restart, rows, StallKept, AttemptsKept
<1>13. CASE UNCHANGED vars
  BY <1>13, <1>b DEF vars, rows, workerVars, history
<1> QED
  BY <1>1, <1>2, <1>3, <1>4, <1>5, <1>6, <1>7, <1>8, <1>9, <1>10, <1>11, <1>12, <1>13
     DEF Next, LoopStep, TaskStep, Clock

(* The worker and its table implement the lease service: the rows of the   *)
(* table are leased, given back and settled as WorkQueue allows, whatever  *)
(* the loop, the tasks, the sweep and a restart do in between.             *)
THEOREM QueueImplementsLeases == Spec => LeasesAreKept
<1>1. Init => Service!Init
  BY ServiceInit
<1>2. TypeOK /\ OwnershipInv /\ [Next]_vars => [Service!Next]_(Service!vars)
  BY ServiceStep
<1> QED BY <1>1, <1>2, Ownership, TypeCorrect, PTL DEF Spec, LeasesAreKept, Service!Spec
=============================================================================
