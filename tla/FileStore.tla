------------------------------ MODULE FileStore ------------------------------
(***************************************************************************)
(* The rows of kb_files and the objects in the S3 bucket: the review       *)
(* routes of routes/files.py with the background tasks they leave behind,  *)
(* the upload pipeline, and the part of run_process that supersedes,       *)
(* creates and stores the file of a page.  An action is one committed      *)
(* transaction or one call of S3; a route's own transaction is one action, *)
(* but for the copy of a file, which commits what it read some time ago.   *)
(*                                                                         *)
(* Content is abstracted to the file it belongs to, and the fields of a    *)
(* row that take part in its S3 key to the key they give.  Sidecars are    *)
(* left out: they are put and deleted together with their object.  There   *)
(* is one page, whose runs do not overlap (IngestLifecycle, RunsAreExclusive). *)
(***************************************************************************)
EXTENDS Integers

CONSTANTS
  Files,      \* identities of kb_files rows
  Keys,       \* S3 keys
  KeysFor,    \* the keys the fields of each file may give
  Tasks,      \* background tasks that can be in flight at once
  Clients,    \* requests to copy a file that can be in flight at once
  None,       \* NULL
  MaxDate,    \* bound: the modify dates of the page are 1 .. MaxDate
  MaxCalls,   \* bound: requests and runs, and with them the faults
  MaxFaults   \* bound: S3 errors, failed commits and crashes

ASSUME NoneAssumption == None \notin Files /\ None \notin Keys
ASSUME KeysForAssumption == KeysFor \in [Files -> (SUBSET Keys) \ {{}}]
ASSUME BoundsAssumption ==
  Files # {} /\ MaxDate \in Nat /\ MaxCalls \in Nat /\ MaxFaults \in Nat

VARIABLES
  status,     \* kb_files.status; a row is "absent" before and "gone" after
  keyOf,      \* the key build_s3_key gives for the row as it is
  s3Key,      \* kb_files.s3_key
  date,       \* kb_files.modify_date; 0 is NULL
  versioned,  \* rows whose source_url is the URL versioning asks for
  bucket,     \* the file whose content is stored under each key
  task,       \* the background tasks
  copy,       \* requests to copy a file: the row as each has read it
  run,        \* run_process: its step and its uncommitted changes
  \* Bounds and history, not part of the program
  calls, faults,
  approved,   \* files that were approved at some time
  revived,    \* files that are current though no run made them so: brought
              \* back by a review, or copied from a row that was gone or
              \* superseded before the copy was there; and their copies
  disturbed   \* files whose S3 tasks overlapped, were cut off, or met a run

fileRows == <<status, keyOf, s3Key, date, versioned>>
history == <<faults, approved, revived, disturbed>>
vars == <<fileRows, bucket, task, copy, run, history, calls>>

Verdict == {"approved", "pending_review", "rejected"}
FileStatus == Verdict \union {"superseded"}
RowState == FileStatus \union {"absent", "uncommitted", "gone"}
RowSeen == [status : RowState, key : Keys, s3Key : Keys \union {None}]
Operation == {"upload", "recompute", "remove", "qa", "pipeline"}
TaskAt == {"idle", "reading", "judging", "enriching", "routing",
           "putting", "deleting", "saving", "removing"}
Task == [at : TaskAt, op : Operation, file : Files,
         old : Keys \union {None}, seen : RowSeen]
NoCopy == [of |-> None, status |-> "absent", s3Key |-> None]
Copy == [of : Files, status : FileStatus, s3Key : Keys \union {None}] \union {NoCopy}
RunAt == {"idle", "cleaning", "extracting", "storing", "committing"}
Run == [at : RunAt, date : 0 .. MaxDate, old : Files \union {None},
        new : Files \union {None}, verdict : Verdict]

TypeOK ==
  /\ status \in [Files -> RowState]
  /\ keyOf \in [Files -> Keys]
  /\ s3Key \in [Files -> Keys \union {None}]
  /\ date \in [Files -> 0 .. MaxDate]
  /\ versioned \subseteq Files
  /\ bucket \in [Keys -> Files \union {None}]
  /\ task \in [Tasks -> Task]
  /\ copy \in [Clients -> Copy]
  /\ run \in Run
  /\ calls \in Nat /\ faults \in Nat
  /\ approved \subseteq Files /\ revived \subseteq Files /\ disturbed \subseteq Files

AnyFile == CHOOSE f \in Files : TRUE
AnyKey(f) == CHOOSE k \in KeysFor[f] : TRUE
Unread == [status |-> "absent", key |-> AnyKey(AnyFile), s3Key |-> None]
NoTask == [at |-> "idle", op |-> "qa", file |-> AnyFile, old |-> None, seen |-> Unread]
NoRun == [at |-> "idle", date |-> 0, old |-> None, new |-> None, verdict |-> "rejected"]

Init ==
  /\ status = [f \in Files |-> "absent"]
  /\ keyOf = [f \in Files |-> AnyKey(f)]
  /\ s3Key = [f \in Files |-> None]
  /\ date = [f \in Files |-> 0]
  /\ versioned = {}
  /\ bucket = [k \in Keys |-> None]
  /\ task = [t \in Tasks |-> NoTask]
  /\ copy = [c \in Clients |-> NoCopy]
  /\ run = NoRun
  /\ calls = 0 /\ faults = 0
  /\ approved = {} /\ revived = {} /\ disturbed = {}

-----------------------------------------------------------------------------
(* routing_matrix.py: what the verdicts of the agents come to.             *)

(* Mutation: the quality verdict is taken for the status. *)
RouteMixedUp(quality, uniqueness, metadataComplete) ==
  IF ~metadataComplete \/ quality = "rejected" THEN "rejected"
  ELSE IF uniqueness = "conflicting" THEN "pending_review" ELSE quality

Route(quality, uniqueness, metadataComplete) ==
  IF ~metadataComplete \/ quality = "rejected" THEN "rejected"
  ELSE IF uniqueness = "conflicting" THEN "pending_review" ELSE "approved"

Routed == {Route(q, u, m) : q \in {"accepted", "rejected"},
                            u \in {"unique", "overlapping", "conflicting"},
                            m \in BOOLEAN}

-----------------------------------------------------------------------------
(* Rows                                                                    *)

Exists(f) == status[f] \in FileStatus

(* The run's UPDATE of the row it supersedes locks it until the run ends.  *)
Writable(f) == Exists(f) /\ f # run.old

Row(f) == [status |-> status[f], key |-> keyOf[f], s3Key |-> s3Key[f]]

SetStatus(f, s) ==
  /\ status' = [status EXCEPT ![f] = s]
  /\ approved' = IF s = "approved" THEN approved \union {f} ELSE approved
  /\ revived' = IF status[f] = "superseded" /\ s # "superseded"
                THEN revived \union {f} ELSE revived

(* The ORM writes a column only when it differs from what the session      *)
(* read, however the row has changed since; a deleted row is not updated.  *)
WriteStatus(f, read, s) ==
  IF Exists(f) /\ s # read THEN SetStatus(f, s)
                           ELSE UNCHANGED <<status, approved, revived>>

-----------------------------------------------------------------------------
(* Background tasks of FastAPI: they start after the response and live in  *)
(* memory only.                                                            *)

TouchesS3(t) == task[t].at # "idle" /\ task[t].op \notin {"qa", "remove"}
InFlight(f) == \E t \in Tasks : TouchesS3(t) /\ task[t].file = f

FirstStep(op) ==
  CASE op = "remove" -> "removing" [] op = "pipeline" -> "enriching" [] OTHER -> "reading"

Schedule(t, op, f, key) ==
  /\ task[t].at = "idle"
  /\ task' = [task EXCEPT ![t] = [at |-> FirstStep(op), op |-> op, file |-> f,
                                  old |-> key, seen |-> Unread]]
  /\ disturbed' = IF op # "qa" /\ InFlight(f)
                  THEN disturbed \union {f} ELSE disturbed

(* A task goes on, holding the row as it last read it.                     *)
Step(t, at, seen) ==
  task' = [task EXCEPT ![t] = [at |-> at, op |-> task[t].op, file |-> task[t].file,
                               old |-> task[t].old, seen |-> seen]]

Done(t) == task' = [task EXCEPT ![t] = NoTask]

Fault == faults < MaxFaults /\ calls + faults < MaxCalls /\ faults' = faults + 1

Call == calls + faults < MaxCalls /\ calls' = calls + 1

Store(key, f) == bucket' = [bucket EXCEPT ![key] = f]

-----------------------------------------------------------------------------
(* Routes.  None of them asks for the status of the file.                  *)

Approve(f, t) ==
  /\ Writable(f)
  /\ SetStatus(f, "approved")
  /\ Schedule(t, "upload", f, None)
  /\ UNCHANGED <<keyOf, s3Key, date, versioned, bucket, run, faults>>

Reject(f) ==
  /\ Writable(f)
  /\ SetStatus(f, "rejected")
  /\ UNCHANGED <<keyOf, s3Key, date, versioned, bucket, task, run, faults, disturbed>>

(* PUT /files/{id} and revalidate: the agents look at the file again.      *)
Reconsider(f, t) ==
  /\ Exists(f)
  /\ Schedule(t, "qa", f, None)
  /\ UNCHANGED <<fileRows, bucket, run, faults, approved, revived>>

(* PATCH of title, brand, region or language.                              *)
(* Mutation: a file that was never stored is stored by the edit, too. *)
EditStoringAlways(f, k, t) ==
  /\ Writable(f)
  /\ keyOf' = [keyOf EXCEPT ![f] = k]
  /\ Schedule(t, "recompute", f, s3Key[f])
  /\ UNCHANGED <<status, s3Key, date, versioned, bucket, run, faults, approved, revived>>

EditMetadata(f, k, t) ==
  /\ Writable(f)
  /\ keyOf' = [keyOf EXCEPT ![f] = k]
  /\ IF s3Key[f] # None THEN Schedule(t, "recompute", f, s3Key[f])
                        ELSE UNCHANGED <<task, disturbed>>
  /\ UNCHANGED <<status, s3Key, date, versioned, bucket, run, faults, approved, revived>>

(* PATCH of folder_id: the folder is the namespace in the key, but only    *)
(* the sidecar is written.                                                 *)
MoveToFolder(f, k) ==
  /\ Writable(f)
  /\ keyOf' = [keyOf EXCEPT ![f] = k]
  /\ UNCHANGED <<status, s3Key, date, versioned, bucket, task, run, history>>

UploadFile(f, k, t) ==
  /\ status[f] = "absent"
  /\ SetStatus(f, "pending_review")
  /\ keyOf' = [keyOf EXCEPT ![f] = k]
  /\ Schedule(t, "pipeline", f, None)
  /\ UNCHANGED <<s3Key, date, versioned, bucket, run, faults>>

DeleteFile(f, t) ==
  /\ Writable(f)
  /\ SetStatus(f, "gone")
  /\ IF s3Key[f] # None THEN Schedule(t, "remove", f, s3Key[f])
                        ELSE UNCHANGED <<task, disturbed>>
  /\ UNCHANGED <<keyOf, s3Key, date, versioned, bucket, run, faults>>

-----------------------------------------------------------------------------
(* copy_file: the row is read, and looked up in other tables, before its   *)
(* copy is inserted and committed.  By then it may have changed or be      *)
(* gone.  Its modify_date and source_url never change.                     *)

ReadForCopy(c, f) ==
  /\ copy[c].of = None /\ Exists(f)
  /\ copy' = [copy EXCEPT ![c] = [of |-> f, status |-> status[f], s3Key |-> s3Key[f]]]
  /\ UNCHANGED <<fileRows, bucket, task, run, history>>

(* The row is no longer the current version it was read as.                *)
Outlived(r) == r.status # "superseded" /\ (~Exists(r.of) \/ status[r.of] = "superseded")

CommitCopy(c, g, k, t) ==
  LET src == copy[c] IN
  /\ src.of # None /\ status[g] = "absent"
  /\ status' = [status EXCEPT ![g] = src.status]
  /\ approved' = IF src.status = "approved" THEN approved \union {g} ELSE approved
  /\ revived' = IF src.of \in revived \/ Outlived(src) THEN revived \union {g} ELSE revived
  /\ keyOf' = [keyOf EXCEPT ![g] = k]
  /\ date' = [date EXCEPT ![g] = date[src.of]]
  /\ versioned' = IF src.of \in versioned THEN versioned \union {g} ELSE versioned
  /\ IF src.status = "approved" /\ src.s3Key # None
     THEN Schedule(t, "upload", g, None)
     ELSE UNCHANGED <<task, disturbed>>
  /\ copy' = [copy EXCEPT ![c] = NoCopy]
  /\ UNCHANGED <<s3Key, bucket, run, faults>>

(* The folder or the source is gone, or the commit fails.                  *)
AbortCopy(c) ==
  /\ copy[c].of # None
  /\ copy' = [copy EXCEPT ![c] = NoCopy]
  /\ UNCHANGED <<fileRows, bucket, task, run, history>>

-----------------------------------------------------------------------------
(* The steps of a background task.  An uploader's failure is a return      *)
(* value; an exception ends the task.                                      *)

ReadRow(t) ==
  /\ task[t].at = "reading"
  /\ IF Exists(task[t].file)
     THEN Step(t, IF task[t].op = "qa" THEN "judging" ELSE "putting", Row(task[t].file))
     ELSE Done(t)
  /\ UNCHANGED <<fileRows, bucket, run, history>>

(* _run_qa_background and revalidate: the verdict becomes the status.      *)
Judge(t) ==
  /\ task[t].at = "judging" /\ task[t].file # run.old
  /\ \E verdict \in Routed : WriteStatus(task[t].file, task[t].seen.status, verdict)
  /\ Done(t)
  /\ UNCHANGED <<keyOf, s3Key, date, versioned, bucket, run, faults, disturbed>>

(* process_upload: new metadata, a verdict, and the upload if it is good.  *)
Enrich(t) ==
  /\ task[t].at = "enriching" /\ task[t].file # run.old
  /\ IF Exists(task[t].file)
     THEN \E k \in KeysFor[task[t].file] :
            /\ keyOf' = [keyOf EXCEPT ![task[t].file] = k]
            /\ Step(t, "routing", [Row(task[t].file) EXCEPT !.key = k])
     ELSE Done(t) /\ UNCHANGED keyOf
  /\ UNCHANGED <<status, s3Key, date, versioned, bucket, run, history>>

RouteUpload(t) ==
  /\ task[t].at = "routing" /\ task[t].file # run.old
  /\ \E verdict \in Routed :
       /\ WriteStatus(task[t].file, task[t].seen.status, verdict)
       /\ IF verdict = "approved" /\ Exists(task[t].file)
          THEN Step(t, "putting", Row(task[t].file))
          ELSE Done(t)
  /\ UNCHANGED <<keyOf, s3Key, date, versioned, bucket, run, faults, disturbed>>

RejectUpload(t) ==
  /\ task[t].at \in {"enriching", "routing"} /\ task[t].file # run.old
  /\ WriteStatus(task[t].file, status[task[t].file], "rejected")
  /\ Done(t)
  /\ UNCHANGED <<keyOf, s3Key, date, versioned, bucket, run, faults, disturbed>>

(* Mutation: the old object is deleted even if it was just overwritten. *)
PutAndDelete(t) ==
  /\ task[t].at = "putting"
  /\ \/ /\ Store(task[t].seen.key, task[t].file)
        /\ Step(t, IF task[t].old # None THEN "deleting" ELSE "saving", task[t].seen)
        /\ UNCHANGED faults
     \/ Fault /\ Done(t) /\ UNCHANGED bucket
  /\ UNCHANGED <<fileRows, run, approved, revived, disturbed>>

(* The content may be stored and the sidecar fail, which is a failure.     *)
PutObject(t) ==
  /\ task[t].at = "putting"
  /\ \/ /\ Store(task[t].seen.key, task[t].file)
        /\ Step(t, IF task[t].old \notin {None, task[t].seen.key}
                   THEN "deleting" ELSE "saving", task[t].seen)
        /\ UNCHANGED faults
     \/ /\ Fault
        /\ Store(task[t].seen.key, task[t].file) \/ UNCHANGED bucket
        /\ Done(t)
  /\ UNCHANGED <<fileRows, run, approved, revived, disturbed>>

DeleteOldObject(t) ==
  /\ task[t].at = "deleting"
  /\ \/ Store(task[t].old, None) /\ UNCHANGED faults
     \/ Fault /\ UNCHANGED bucket
  /\ Step(t, "saving", task[t].seen)
  /\ UNCHANGED <<fileRows, run, approved, revived, disturbed>>

(* The new key reaches the row, or the commit fails.                       *)
SaveKey(t) ==
  /\ task[t].at = "saving" /\ task[t].file # run.old
  /\ \/ /\ s3Key' = [s3Key EXCEPT ![task[t].file] =
                       IF Exists(task[t].file)
                          /\ task[t].seen.key \notin {task[t].old, task[t].seen.s3Key}
                       THEN task[t].seen.key ELSE @]
        /\ UNCHANGED <<status, faults, approved, revived, disturbed>>
     \/ /\ Fault
        /\ disturbed' = disturbed \union {task[t].file}
        /\ IF task[t].op = "pipeline"
           THEN WriteStatus(task[t].file, status[task[t].file], "rejected")
           ELSE UNCHANGED <<status, approved, revived>>
        /\ UNCHANGED s3Key
  /\ Done(t)
  /\ UNCHANGED <<keyOf, date, versioned, bucket, run>>

RemoveObject(t) ==
  /\ task[t].at = "removing"
  /\ \/ Store(task[t].old, None) /\ UNCHANGED faults
     \/ Fault /\ UNCHANGED bucket
  /\ Done(t)
  /\ UNCHANGED <<fileRows, run, approved, revived, disturbed>>

-----------------------------------------------------------------------------
(* run_process.  Its changes of rows are one transaction; what it does to  *)
(* the bucket happens at once.                                             *)

Versions(s) == {f \in versioned : Exists(f) /\ status[f] \in s}
Current == Versions(FileStatus \ {"superseded"})
Newest(S) == {f \in S : \A g \in S : date[g] <= date[f]}

(* Mutation: any other modify date is taken for a newer one. *)
SupersededByOther(d) == IF Current = {} THEN {None} ELSE {f \in Newest(Current) : date[f] # d}

(* Mutation: only a published version is looked for. *)
SupersededIfApproved(d) ==
  LET published == Versions({"approved"}) IN
  IF published = {} THEN {None} ELSE {f \in Newest(published) : date[f] < d}

(* check_and_supersede: what it supersedes; it skips when there is nothing *)
(* to choose.                                                              *)
SupersededBy(d) == IF Current = {} THEN {None} ELSE {f \in Newest(Current) : date[f] < d}

CheckVersion(d) ==
  /\ run.at = "idle"
  /\ \E f \in SupersededBy(d) :
       /\ run' = [NoRun EXCEPT !.at = "cleaning", !.date = d, !.old = f]
       /\ disturbed' = disturbed \union ({f} \ {None})
  /\ UNCHANGED <<fileRows, bucket, task, faults, approved, revived>>

(* The object of the last superseded file is deleted before the commit.    *)
Superseded == Versions({"superseded"}) \union ({run.old} \ {None})

CleanUp ==
  /\ run.at = "cleaning"
  /\ IF Superseded = {} THEN UNCHANGED <<bucket, faults>>
     ELSE \E f \in Newest(Superseded) :
            \/ s3Key[f] # None /\ Store(s3Key[f], None) /\ UNCHANGED faults
            \/ s3Key[f] # None /\ Fault /\ UNCHANGED bucket
            \/ s3Key[f] = None /\ UNCHANGED <<bucket, faults>>
  /\ run' = [run EXCEPT !.at = "extracting"]
  /\ UNCHANGED <<fileRows, task, approved, revived, disturbed>>

(* The extractor is asked for the page's URL without .model.json, the run  *)
(* looks for files under the URL with it; which one a file gets is up to   *)
(* the model's answer.                                                     *)
ExtractFile(f, k, v) ==
  /\ run.at = "extracting" /\ status[f] = "absent"
  /\ status' = [status EXCEPT ![f] = "uncommitted"]
  /\ keyOf' = [keyOf EXCEPT ![f] = k]
  /\ date' = [date EXCEPT ![f] = run.date]
  /\ versioned' = IF v THEN versioned \union {f} ELSE versioned
  /\ \E verdict \in Routed :
       /\ run' = [run EXCEPT !.new = f, !.verdict = verdict,
                    !.at = IF verdict = "approved" THEN "storing" ELSE "committing"]
       /\ approved' = IF verdict = "approved" THEN approved \union {f} ELSE approved
  /\ UNCHANGED <<s3Key, bucket, task, faults, revived, disturbed>>

ExtractNothing ==
  /\ run.at = "extracting"
  /\ run' = [run EXCEPT !.at = "committing"]
  /\ UNCHANGED <<fileRows, bucket, task, history>>

StoreNew ==
  /\ run.at = "storing"
  /\ \/ /\ Store(keyOf[run.new], run.new)
        /\ s3Key' = [s3Key EXCEPT ![run.new] = keyOf[run.new]]
        /\ UNCHANGED faults
     \/ /\ Fault
        /\ Store(keyOf[run.new], run.new) \/ UNCHANGED bucket
        /\ UNCHANGED s3Key
  /\ run' = [run EXCEPT !.at = "committing"]
  /\ UNCHANGED <<status, keyOf, date, versioned, task, approved, revived, disturbed>>

CommitRun ==
  /\ run.at = "committing"
  /\ status' = [f \in Files |-> IF f = run.new THEN run.verdict
                                ELSE IF f = run.old THEN "superseded" ELSE status[f]]
  /\ run' = NoRun
  /\ UNCHANGED <<keyOf, s3Key, date, versioned, bucket, task, history>>

(* An agent, the fetch or the database raises: the rows are rolled back.   *)
Rollback == [f \in Files |-> IF f = run.new THEN "gone" ELSE status[f]]

AbortRun ==
  /\ run.at # "idle"
  /\ status' = Rollback
  /\ run' = NoRun
  /\ UNCHANGED <<keyOf, s3Key, date, versioned, bucket, task, history>>

(* The process dies, and with it every task, request and transaction.      *)
Crash ==
  /\ Fault
  /\ status' = Rollback
  /\ run' = NoRun
  /\ task' = [t \in Tasks |-> NoTask]
  /\ copy' = [c \in Clients |-> NoCopy]
  /\ disturbed' = disturbed \union {f \in Files : InFlight(f)}
  /\ UNCHANGED <<keyOf, s3Key, date, versioned, bucket, approved, revived>>

-----------------------------------------------------------------------------

FileRoute(f) ==
  \/ Reject(f)
  \/ \E k \in KeysFor[f] : MoveToFolder(f, k)
  \/ \E t \in Tasks :
       \/ Approve(f, t) \/ Reconsider(f, t) \/ DeleteFile(f, t)
       \/ \E k \in KeysFor[f] : EditMetadata(f, k, t) \/ UploadFile(f, k, t)

CopyStep(c) ==
  \/ \E g \in Files, t \in Tasks : \E k \in KeysFor[g] : CommitCopy(c, g, k, t)
  \/ AbortCopy(c)

TaskStep(t) ==
  \/ ReadRow(t) \/ Judge(t) \/ Enrich(t) \/ RouteUpload(t) \/ RejectUpload(t)
  \/ PutObject(t) \/ DeleteOldObject(t) \/ SaveKey(t) \/ RemoveObject(t)

RunStep ==
  \/ CleanUp
  \/ \E f \in Files : \E k \in KeysFor[f], v \in BOOLEAN : ExtractFile(f, k, v)
  \/ ExtractNothing \/ StoreNew \/ CommitRun \/ AbortRun

Next ==
  \/ Call /\ UNCHANGED copy /\ \E f \in Files : FileRoute(f)
  \/ Call /\ \E c \in Clients, f \in Files : ReadForCopy(c, f)
  \/ Call /\ UNCHANGED copy /\ \E d \in 1 .. MaxDate : CheckVersion(d)
  \/ UNCHANGED calls /\ \E c \in Clients : CopyStep(c)
  \/ UNCHANGED <<calls, copy>> /\ \E t \in Tasks : TaskStep(t)
  \/ UNCHANGED <<calls, copy>> /\ RunStep
  \/ UNCHANGED calls /\ Crash

Spec == Init /\ [][Next]_vars

-----------------------------------------------------------------------------
(* Nothing reaches the bucket, and no row gets a key, without an approval  *)
(* by a person or by the routing matrix, whatever edits, copies, uploads   *)
(* and runs are in flight.  (The approval need not stand any more: no task *)
(* looks at the status again.)                                             *)
PublishedWasApproved ==
  /\ \A k \in Keys : bucket[k] # None => bucket[k] \in approved
  /\ \A f \in Files : s3Key[f] # None => f \in approved

(* What a task or a run is going to store has been approved, and so has    *)
(* every row that says so or that a task read as saying so: the invariant  *)
(* behind PublishedWasApproved.                                            *)
Publishing(r) ==
  \/ r.at \in {"putting", "deleting", "saving"}
  \/ r.at = "reading" /\ r.op # "qa"

RowsApproved == \A f \in Files : status[f] = "approved" => f \in approved

TasksApproved ==
  \A t \in Tasks :
    Publishing(task[t]) \/ task[t].seen.status = "approved" => task[t].file \in approved

CopiesApproved == \A c \in Clients : copy[c].status = "approved" => copy[c].of \in approved

RunApproved ==
  /\ run.at = "storing" => run.new \in approved
  /\ run.new # None /\ run.verdict = "approved" => run.new \in approved

ApprovalInv ==
  PublishedWasApproved /\ RowsApproved /\ TasksApproved /\ CopiesApproved /\ RunApproved

(* A run never puts a version of the page next to a newer one: when it     *)
(* commits, the dates of the other current versions are older, unless one  *)
(* was brought back from superseded by a review, or is a copy that was     *)
(* read from a current version and committed when that was gone or         *)
(* superseded; the version check cannot know of either.                    *)
VersionsAdvance ==
  [][CommitRun /\ run.new # None =>
       \A f \in Current \ revived : date[f] < date[run.new]]_vars

(* And it puts its file in the place of a current version, so that runs    *)
(* never add to the versions there are.  Only where there was none at the  *)
(* version check does it put its file next to those that reviews and late  *)
(* copies brought back since.                                              *)
VersionsReplaced ==
  [][CommitRun =>
       LET stored == versioned \intersect {run.new} IN
       \/ Current \subseteq revived /\ Current' = Current \union stored
       \/ \E f \in Current : Current' = (Current \ {f}) \union stored]_vars

(* From the version check to the commit the current versions stay older    *)
(* than the run, and nobody touches the row it is writing: the invariant   *)
(* behind VersionsAdvance.                                                 *)
VersionsInv ==
  /\ \A f \in Files : status[f] = "absent" => f \notin versioned
  /\ run.at # "idle" => \A f \in Current \ revived : date[f] < run.date
  /\ run.new # None => status[run.new] = "uncommitted" /\ date[run.new] = run.date

(* What a run is going to supersede stays a current version until the run  *)
(* ends, and one that found none to supersede meets none but by a review   *)
(* or a late copy: the invariant behind VersionsReplaced.                  *)
ReplacingInv ==
  /\ run.old # None => run.old \in Current
  /\ run.at # "idle" /\ run.old = None => Current \subseteq revived

(* recompute_s3_location: a failure on the way cannot leave a row pointing *)
(* at a missing object.  So the key of a row whose tasks have ended leads  *)
(* to its content, through any sequence of edits, moves, approvals and S3  *)
(* failures, if no other file shares its keys, its tasks never overlapped  *)
(* or died, and no run superseded it.                                      *)
Private(f) == \A g \in Files \ {f} : KeysFor[f] \intersect KeysFor[g] = {}

RowsPointAtObjects ==
  \A f \in Files \ disturbed :
    Private(f) /\ Exists(f) /\ s3Key[f] # None /\ ~InFlight(f) => bucket[s3Key[f]] = f

(* The invariant behind it.  Rows and tasks deal in keys of their file, a  *)
(* task to remove is only that, and a run has disturbed what it supersedes.*)
TaskOwned(r) ==
  /\ r.old \in KeysFor[r.file] \union {None}
  /\ r.at \in {"putting", "deleting", "saving"} => r.seen.key \in KeysFor[r.file]
  /\ r.at # "idle" => (r.at = "removing" <=> r.op = "remove")
  /\ r.op = "qa" => r.at \in {"idle", "reading", "judging"}
  /\ r.at = "judging" => r.op = "qa"

KeysOwned ==
  /\ \A f \in Files : keyOf[f] \in KeysFor[f] /\ s3Key[f] \in KeysFor[f] \union {None}
  /\ \A t \in Tasks : TaskOwned(task[t])
  /\ run.old # None => run.old \in disturbed

Held(f) == s3Key[f] # None => bucket[s3Key[f]] = f

(* An S3 task between its steps: until it has put the new object the row's *)
(* own is there, and then the new one.                                     *)
TaskHolding(r) ==
  /\ r.old \in {None, s3Key[r.file]}
  /\ r.at \in {"putting", "deleting", "saving"} => r.seen.s3Key = s3Key[r.file]
  /\ IF r.at \in {"deleting", "saving"} THEN bucket[r.seen.key] = r.file ELSE Held(r.file)
  /\ r.at = "deleting" => r.seen.key # r.old

Works(t, f) == TouchesS3(t) /\ task[t].file = f

FileHeld(f) ==
  /\ InFlight(f) => status[f] \notin {"absent", "uncommitted", "superseded"}
  /\ status[f] \in {"absent", "superseded"} => s3Key[f] = None
  /\ \A t \in Tasks : task[t].at = "removing" /\ task[t].file = f => status[f] = "gone"
  /\ \A t, u \in Tasks : Works(t, f) /\ Works(u, f) => t = u
  /\ status[f] # "gone" =>
       /\ \A t \in Tasks : Works(t, f) => TaskHolding(task[t])
       /\ ~InFlight(f) => Held(f)

ObjectsInv == KeysOwned /\ \A f \in Files \ disturbed : Private(f) => FileHeld(f)

-----------------------------------------------------------------------------
(* What the documentation says and the code does not keep.                 *)

(* docs/business-case.md: approved is "auto-published to S3", so once its  *)
(* tasks have ended an approved file has a key, unless something failed.   *)
ApprovedIsPublished ==
  \A f \in Files :
    faults = 0 /\ status[f] = "approved" /\ ~InFlight(f) => s3Key[f] # None

(* docs/components/versioning.md: re-ingesting a page does not create      *)
(* duplicate files, so a run that creates one supersedes the older version *)
(* of the page.  (Files of the page have a date, uploads have none.)       *)
Outdated(f) == Exists(f) /\ status[f] # "superseded" /\ 0 < date[f] /\ date[f] < run.date

OlderVersionIsSuperseded ==
  [][CommitRun /\ run.new # None => \A f \in Files : Outdated(f) => f = run.old]_vars
=============================================================================
