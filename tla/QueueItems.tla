----------------------------- MODULE QueueItems -----------------------------
(***************************************************************************)
(* The queue_items table and the statements of kb_manager/queries/queue.py *)
(* that change it.  A statement here is one SQL statement (or one          *)
(* SELECT ... FOR UPDATE and the UPDATE under its lock), so it is atomic;  *)
(* the one function that reads and writes without a lock, mark_failed, is  *)
(* given as two steps, ReadForFailure and WriteFailure.                    *)
(*                                                                         *)
(* A row identity is a number that grows with created_at, the time its     *)
(* transaction started: rows may become visible in another order.  A row   *)
(* never inserted is "absent", a deleted one "gone"; the program knows     *)
(* neither value.  Times are abstracted to what the WHERE clauses ask of   *)
(* them: "due" is next_attempt_at <= now (or NULL), "fresh" is             *)
(* last_heartbeat >= now - stale_timeout (or NULL).                        *)
(***************************************************************************)
EXTENDS Integers

CONSTANTS
  Items,       \* identities of queue rows, in the order of created_at
  MaxRetries,  \* QueueItem.max_retries
  Priority     \* the priority the caller of add_to_queue gives a row

ASSUME ItemsAssumption == Items \subseteq Nat
ASSUME MaxRetriesAssumption == MaxRetries \in Nat
ASSUME PriorityAssumption == Priority \in [Items -> Int]

VARIABLES
  status,   \* queue_items.status
  retries,  \* queue_items.retry_count
  due,      \* next_attempt_at is NULL or has passed
  fresh     \* last_heartbeat is NULL or younger than the stale timeout

rows == <<status, retries, due, fresh>>

RowStatus == {"absent", "queued", "processing", "gone"}

RowsTypeOK ==
  /\ status \in [Items -> RowStatus]
  /\ retries \in [Items -> Nat]
  /\ due \in [Items -> BOOLEAN]
  /\ fresh \in [Items -> BOOLEAN]

EmptyTable ==
  /\ status = [i \in Items |-> "absent"]
  /\ retries = [i \in Items |-> 0]
  /\ due = [i \in Items |-> TRUE]
  /\ fresh = [i \in Items |-> TRUE]

Exists(i) == status[i] \in {"queued", "processing"}

-----------------------------------------------------------------------------
(* add_to_queue's INSERTs of one transaction.  The duplicate check that    *)
(* precedes each depends on the source of the row and is left to the       *)
(* modules that know sources.                                              *)

Insert(new) ==
  /\ \A i \in new : status[i] = "absent"
  /\ status' = [i \in Items |-> IF i \in new THEN "queued" ELSE status[i]]
  /\ UNCHANGED <<retries, due, fresh>>

-----------------------------------------------------------------------------
(* claim_next: the due queued row of highest priority, oldest first.       *)

(* Mutation: the status of the row is not looked at. *)
ClaimableTwice(i) == Exists(i) /\ due[i]

Claimable(i) == status[i] = "queued" /\ due[i]

Before(i, j) ==
  \/ Priority[i] > Priority[j]
  \/ Priority[i] = Priority[j] /\ i < j

NextInLine(i) ==
  /\ Claimable(i)
  /\ \A j \in Items : Claimable(j) /\ j # i => Before(i, j)

Claim(i) ==
  /\ NextInLine(i)
  /\ status' = [status EXCEPT ![i] = "processing"]
  /\ fresh' = [fresh EXCEPT ![i] = TRUE]
  /\ UNCHANGED <<retries, due>>

NothingToClaim == \A i \in Items : ~Claimable(i)

-----------------------------------------------------------------------------
(* update_heartbeat writes by id whatever the status of the row, and       *)
(* nothing when the row is gone.                                           *)

Beat(i) ==
  /\ fresh' = [fresh EXCEPT ![i] = Exists(i) \/ @]
  /\ UNCHANGED <<status, retries, due>>

(* Time passes: a heartbeat gets older than the stale timeout, a backoff   *)
(* delay ends.                                                             *)

Lapse(i) ==
  /\ status[i] = "processing" /\ fresh[i]
  /\ fresh' = [fresh EXCEPT ![i] = FALSE]
  /\ UNCHANGED <<status, retries, due>>

BackoffEnds(i) ==
  /\ status[i] = "queued" /\ ~due[i]
  /\ due' = [due EXCEPT ![i] = TRUE]
  /\ UNCHANGED <<status, retries, fresh>>

-----------------------------------------------------------------------------
(* mark_completed, and the DELETE of any other statement.                  *)

Delete(i) ==
  /\ status' = [status EXCEPT ![i] = IF Exists(i) THEN "gone" ELSE @]
  /\ UNCHANGED <<retries, due, fresh>>

(* mark_failed's db.get: the row as the session sees it.                   *)

Snapshot == [status : RowStatus, retries : Nat]

ReadForFailure(i) == [status |-> status[i], retries |-> retries[i]]

(* mark_failed's flush.  The ORM writes the columns that differ from what  *)
(* it read: a row read as "queued" keeps its current status and heartbeat. *)
(* WriteMisses is the UPDATE that matches no row, an error to the caller.  *)

(* Mutations: the limit compared the wrong way, off by one either side. *)
RequeuesTooOften(read) == read.retries <= MaxRetries
RequeuesTooRarely(read) == read.retries + 1 < MaxRetries

Requeues(read) == read.retries < MaxRetries

WriteMisses(i, read) == Requeues(read) /\ ~Exists(i)

WriteFailure(i, read) ==
  IF Requeues(read)
  THEN /\ Exists(i)
       /\ retries' = [retries EXCEPT ![i] = read.retries + 1]
       /\ due' = [due EXCEPT ![i] = FALSE]
       /\ IF read.status = "processing"
          THEN /\ status' = [status EXCEPT ![i] = "queued"]
               /\ fresh' = [fresh EXCEPT ![i] = TRUE]
          ELSE UNCHANGED <<status, fresh>>
  ELSE Delete(i)

-----------------------------------------------------------------------------
(* reclaim_stale: every processing row whose heartbeat is stale goes back  *)
(* to the queue, due at once, or is deleted when its retries are used up.  *)

(* Mutation: the sweep does not ask for the age of the heartbeat. *)
AnyProcessing == {i \in Items : status[i] = "processing"}

Stale == {i \in Items : status[i] = "processing" /\ ~fresh[i]}

(* Mutation: the sweep gives up one retry early. *)
RetriableTooRarely == {i \in Stale : retries[i] + 1 < MaxRetries}

Retriable == {i \in Stale : retries[i] < MaxRetries}

ReclaimStale ==
  /\ Stale # {}
  /\ status' = [i \in Items |->
                  IF i \in Retriable THEN "queued"
                  ELSE IF i \in Stale THEN "gone" ELSE status[i]]
  /\ retries' = [i \in Items |->
                  IF i \in Retriable THEN retries[i] + 1 ELSE retries[i]]
  /\ due' = [i \in Items |-> i \in Retriable \/ due[i]]
  /\ fresh' = [i \in Items |-> i \in Retriable \/ fresh[i]]

-----------------------------------------------------------------------------
(* A row as WorkQueue sees it: waiting, leased to somebody or settled.     *)
LeaseState(i) ==
  CASE status[i] = "absent" -> "absent"
    [] status[i] = "queued" -> "waiting"
    [] status[i] = "processing" -> "leased"
    [] OTHER -> "settled"

(* The claims a row has had when no retry was lost.                        *)
AttemptsOf(i) == retries[i] + IF status[i] \in {"processing", "gone"} THEN 1 ELSE 0
=============================================================================
