--------------------------- MODULE FileStoreProofs ---------------------------
(***************************************************************************)
(* Theorems about FileStore, for every set of files, keys and tasks and    *)
(* every number of requests, runs and faults.                              *)
(***************************************************************************)
EXTENDS FileStore, TLAPS

USE NoneAssumption, KeysForAssumption, BoundsAssumption

(* What idle tasks and an idle run hold is well typed.                     *)
LEMMA IdleTyped ==
  /\ AnyFile \in Files
  /\ \A f \in Files : AnyKey(f) \in Keys /\ KeysFor[f] \subseteq Keys
  /\ Unread \in RowSeen /\ NoTask \in Task /\ NoRun \in Run
<1>1. AnyFile \in Files
  BY DEF AnyFile
<1>2. ASSUME NEW f \in Files PROVE AnyKey(f) \in Keys /\ KeysFor[f] \subseteq Keys
  BY DEF AnyKey
<1>3. Unread \in RowSeen
  BY <1>1, <1>2 DEF Unread, RowSeen, RowState
<1>4. NoTask \in Task
  BY <1>1, <1>3 DEF NoTask, Task, TaskAt, Operation
<1>5. NoRun \in Run
  BY DEF NoRun, Run, RunAt, Verdict
<1> QED BY <1>1, <1>2, <1>3, <1>4, <1>5

(* What the routing matrix returns is a verdict.                           *)
LEMMA RoutedIsVerdict == Routed \subseteq Verdict
BY DEF Routed, Route, Verdict

(* A row as a session reads it is well typed.                              *)
LEMMA RowTyped ==
  ASSUME TypeOK, NEW f \in Files
  PROVE  Row(f) \in RowSeen
BY DEF TypeOK, Row, RowSeen

(* Changing the status of a row keeps it, and its history, well typed.     *)
LEMMA SetStatusTyped ==
  ASSUME TypeOK, NEW f \in Files, NEW s \in RowState, SetStatus(f, s)
  PROVE  /\ status' \in [Files -> RowState]
         /\ approved' \subseteq Files /\ revived' \subseteq Files
BY DEF TypeOK, SetStatus

LEMMA WriteStatusTyped ==
  ASSUME TypeOK, NEW f \in Files, NEW read, NEW s \in RowState, WriteStatus(f, read, s)
  PROVE  /\ status' \in [Files -> RowState]
         /\ approved' \subseteq Files /\ revived' \subseteq Files
<1>1. CASE SetStatus(f, s)
  BY <1>1, SetStatusTyped
<1>2. CASE UNCHANGED <<status, approved, revived>>
  BY <1>2 DEF TypeOK
<1> QED BY <1>1, <1>2 DEF WriteStatus

(* Scheduling, advancing and ending a task keep the tasks well typed.      *)
LEMMA ScheduleTyped ==
  ASSUME TypeOK, NEW t \in Tasks, NEW op \in Operation, NEW f \in Files,
         NEW key \in Keys \union {None}, Schedule(t, op, f, key)
  PROVE  task' \in [Tasks -> Task] /\ disturbed' \subseteq Files
<1>1. FirstStep(op) \in TaskAt
  BY DEF FirstStep, Operation, TaskAt
<1>2. [at |-> FirstStep(op), op |-> op, file |-> f, old |-> key, seen |-> Unread] \in Task
  BY <1>1, IdleTyped DEF Task
<1>3. task' \in [Tasks -> Task]
  BY <1>2 DEF Schedule, TypeOK
<1>4. disturbed' \subseteq Files
  BY DEF Schedule, TypeOK
<1> QED BY <1>3, <1>4

LEMMA StepTyped ==
  ASSUME TypeOK, NEW t \in Tasks, NEW at \in TaskAt, NEW seen \in RowSeen,
         Step(t, at, seen) \/ Done(t)
  PROVE  task' \in [Tasks -> Task]
<1> task[t] \in Task
  BY DEF TypeOK
<1>1. CASE Step(t, at, seen)
  BY <1>1 DEF TypeOK, Step, Task
<1>2. CASE Done(t)
  BY <1>2, IdleTyped DEF TypeOK, Done
<1> QED BY <1>1, <1>2

(* What is put into or deleted from the bucket keeps it well typed.        *)
LEMMA StoreTyped ==
  ASSUME TypeOK, NEW key, NEW f \in Files \union {None}, Store(key, f) \/ UNCHANGED bucket
  PROVE  bucket' \in [Keys -> Files \union {None}]
BY DEF TypeOK, Store

(* A task holds a file, an old key and a row as it was read.               *)
LEMMA TaskHolds ==
  ASSUME TypeOK, NEW t \in Tasks
  PROVE  /\ task[t].file \in Files /\ task[t].old \in Keys \union {None}
         /\ task[t].seen \in RowSeen /\ task[t].seen.key \in Keys
         /\ task[t].op \in Operation
BY DEF TypeOK, Task, RowSeen

LEMMA RunHolds ==
  ASSUME TypeOK
  PROVE  /\ run.old \in Files \union {None} /\ run.new \in Files \union {None}
         /\ run.verdict \in Verdict /\ run.date \in 0 .. MaxDate /\ run.at \in RunAt
BY DEF TypeOK, Run

-----------------------------------------------------------------------------
(* The routes keep the types.                                              *)
LEMMA ApproveTyped ==
  ASSUME TypeOK, calls' \in Nat, copy' \in [Clients -> Copy],
         NEW f \in Files, NEW t \in Tasks, Approve(f, t)
  PROVE  TypeOK'
<1>1. "approved" \in RowState /\ "upload" \in Operation
  BY DEF RowState, FileStatus, Verdict, Operation
<1>2. SetStatus(f, "approved") /\ Schedule(t, "upload", f, None)
  BY DEF Approve
<1>3. task' \in [Tasks -> Task] /\ disturbed' \subseteq Files
  BY <1>1, <1>2, ScheduleTyped
<1>4. /\ status' \in [Files -> RowState]
      /\ approved' \subseteq Files /\ revived' \subseteq Files
  BY <1>1, <1>2, SetStatusTyped
<1> QED BY <1>3, <1>4 DEF TypeOK, Approve

LEMMA RejectTyped ==
  ASSUME TypeOK, calls' \in Nat, copy' \in [Clients -> Copy],
         NEW f \in Files, Reject(f)
  PROVE  TypeOK'
<1>1. "rejected" \in RowState /\ SetStatus(f, "rejected")
  BY DEF RowState, FileStatus, Verdict, Reject
<1>2. /\ status' \in [Files -> RowState]
      /\ approved' \subseteq Files /\ revived' \subseteq Files
  BY <1>1, SetStatusTyped
<1> QED BY <1>2 DEF TypeOK, Reject

LEMMA ReconsiderTyped ==
  ASSUME TypeOK, calls' \in Nat, copy' \in [Clients -> Copy],
         NEW f \in Files, NEW t \in Tasks, Reconsider(f, t)
  PROVE  TypeOK'
<1>1. "qa" \in Operation /\ Schedule(t, "qa", f, None)
  BY DEF Operation, Reconsider
<1>2. task' \in [Tasks -> Task] /\ disturbed' \subseteq Files
  BY <1>1, ScheduleTyped
<1> QED BY <1>2 DEF TypeOK, Reconsider, fileRows

(* A new key of a row is one of the keys its fields may give.              *)
LEMMA NewKeyTyped ==
  ASSUME TypeOK, NEW f \in Files, NEW k \in KeysFor[f], keyOf' = [keyOf EXCEPT ![f] = k]
  PROVE  keyOf' \in [Files -> Keys]
BY IdleTyped DEF TypeOK

LEMMA EditMetadataTyped ==
  ASSUME TypeOK, calls' \in Nat, copy' \in [Clients -> Copy],
         NEW f \in Files, NEW k \in KeysFor[f],
         NEW t \in Tasks, EditMetadata(f, k, t)
  PROVE  TypeOK'
<1>1. keyOf' \in [Files -> Keys]
  BY NewKeyTyped DEF EditMetadata
<1>2. s3Key[f] \in Keys \union {None} /\ "recompute" \in Operation
  BY DEF TypeOK, Operation
<1>3. \/ Schedule(t, "recompute", f, s3Key[f])
      \/ UNCHANGED <<task, disturbed>>
  BY DEF EditMetadata
<1>4. task' \in [Tasks -> Task] /\ disturbed' \subseteq Files
  <2>1. CASE Schedule(t, "recompute", f, s3Key[f])
    BY <1>2, <2>1, ScheduleTyped
  <2>2. CASE UNCHANGED <<task, disturbed>>
    BY <2>2 DEF TypeOK
  <2> QED BY <1>3, <2>1, <2>2
<1> QED BY <1>1, <1>4 DEF TypeOK, EditMetadata

LEMMA MoveToFolderTyped ==
  ASSUME TypeOK, calls' \in Nat, copy' \in [Clients -> Copy],
         NEW f \in Files, NEW k \in KeysFor[f], MoveToFolder(f, k)
  PROVE  TypeOK'
<1>1. keyOf' \in [Files -> Keys]
  BY NewKeyTyped DEF MoveToFolder
<1> QED BY <1>1 DEF TypeOK, MoveToFolder, history

(* A request to copy holds the row as it has read it, or nothing.          *)
LEMMA CopyHolds ==
  ASSUME TypeOK, NEW c \in Clients, copy[c].of # None
  PROVE  /\ copy[c].of \in Files /\ copy[c].status \in FileStatus
         /\ copy[c].s3Key \in Keys \union {None}
BY DEF TypeOK, Copy, NoCopy

LEMMA ReadForCopyTyped ==
  ASSUME TypeOK, calls' \in Nat, NEW c \in Clients, NEW f \in Files, ReadForCopy(c, f)
  PROVE  TypeOK'
<1> DEFINE r == [of |-> f, status |-> status[f], s3Key |-> s3Key[f]]
<1>1. r \in Copy
  BY DEF ReadForCopy, Exists, TypeOK, Copy
<1>2. copy' = [copy EXCEPT ![c] = r]
  BY DEF ReadForCopy
<1> HIDE DEF r
<1>3. copy' \in [Clients -> Copy]
  BY <1>1, <1>2 DEF TypeOK
<1> QED BY <1>3 DEF TypeOK, ReadForCopy, fileRows, history

LEMMA CommitCopyTyped ==
  ASSUME TypeOK, calls' \in Nat, NEW c \in Clients, NEW g \in Files,
         NEW k \in KeysFor[g], NEW t \in Tasks, CommitCopy(c, g, k, t)
  PROVE  TypeOK'
<1>0. copy[c].of \in Files /\ copy[c].status \in FileStatus
  BY CopyHolds DEF CommitCopy
<1>1. keyOf' \in [Files -> Keys]
  BY NewKeyTyped DEF CommitCopy
<1>2. date' \in [Files -> 0 .. MaxDate]
  BY <1>0 DEF CommitCopy, TypeOK
<1>3. versioned' \subseteq Files
  BY DEF CommitCopy, TypeOK
<1>4. status' \in [Files -> RowState]
  BY <1>0 DEF CommitCopy, TypeOK, RowState
<1>5. approved' \subseteq Files /\ revived' \subseteq Files
  BY DEF CommitCopy, TypeOK
<1>6. Schedule(t, "upload", g, None) \/ UNCHANGED <<task, disturbed>>
  BY DEF CommitCopy
<1>7. task' \in [Tasks -> Task] /\ disturbed' \subseteq Files
  <2>1. CASE Schedule(t, "upload", g, None)
    <3>1. "upload" \in Operation
      BY DEF Operation
    <3> QED BY <2>1, <3>1, ScheduleTyped
  <2>2. CASE UNCHANGED <<task, disturbed>>
    BY <2>2 DEF TypeOK
  <2> QED BY <1>6, <2>1, <2>2
<1>8. copy' \in [Clients -> Copy]
  BY DEF CommitCopy, TypeOK, Copy
<1> QED BY <1>1, <1>2, <1>3, <1>4, <1>5, <1>7, <1>8 DEF TypeOK, CommitCopy

LEMMA AbortCopyTyped ==
  ASSUME TypeOK, calls' \in Nat, NEW c \in Clients, AbortCopy(c)
  PROVE  TypeOK'
<1>1. copy' \in [Clients -> Copy]
  BY DEF AbortCopy, TypeOK, Copy
<1> QED BY <1>1 DEF TypeOK, AbortCopy, fileRows, history

LEMMA UploadFileTyped ==
  ASSUME TypeOK, calls' \in Nat, copy' \in [Clients -> Copy],
         NEW f \in Files, NEW k \in KeysFor[f],
         NEW t \in Tasks, UploadFile(f, k, t)
  PROVE  TypeOK'
<1>1. keyOf' \in [Files -> Keys]
  BY NewKeyTyped DEF UploadFile
<1>2. "pending_review" \in RowState /\ "pipeline" \in Operation
  BY DEF RowState, FileStatus, Verdict, Operation
<1>3. SetStatus(f, "pending_review") /\ Schedule(t, "pipeline", f, None)
  BY DEF UploadFile
<1>4. task' \in [Tasks -> Task] /\ disturbed' \subseteq Files
  BY <1>2, <1>3, ScheduleTyped
<1>5. /\ status' \in [Files -> RowState]
      /\ approved' \subseteq Files /\ revived' \subseteq Files
  BY <1>2, <1>3, SetStatusTyped
<1> QED BY <1>1, <1>4, <1>5 DEF TypeOK, UploadFile

LEMMA DeleteFileTyped ==
  ASSUME TypeOK, calls' \in Nat, copy' \in [Clients -> Copy],
         NEW f \in Files, NEW t \in Tasks, DeleteFile(f, t)
  PROVE  TypeOK'
<1>1. "gone" \in RowState /\ "remove" \in Operation /\ s3Key[f] \in Keys \union {None}
  BY DEF RowState, Operation, TypeOK
<1>2. SetStatus(f, "gone")
  BY DEF DeleteFile
<1>3. /\ status' \in [Files -> RowState]
      /\ approved' \subseteq Files /\ revived' \subseteq Files
  BY <1>1, <1>2, SetStatusTyped
<1>4. Schedule(t, "remove", f, s3Key[f]) \/ UNCHANGED <<task, disturbed>>
  BY DEF DeleteFile
<1>5. task' \in [Tasks -> Task] /\ disturbed' \subseteq Files
  <2>1. CASE Schedule(t, "remove", f, s3Key[f])
    BY <1>1, <2>1, ScheduleTyped
  <2>2. CASE UNCHANGED <<task, disturbed>>
    BY <2>2 DEF TypeOK
  <2> QED BY <1>4, <2>1, <2>2
<1> QED BY <1>3, <1>5 DEF TypeOK, DeleteFile

-----------------------------------------------------------------------------
(* The steps of a background task keep the types.                          *)
LEMMA ReadRowTyped ==
  ASSUME TypeOK, calls' \in Nat, copy' \in [Clients -> Copy],
         NEW t \in Tasks, ReadRow(t)
  PROVE  TypeOK'
<1> DEFINE at == IF task[t].op = "qa" THEN "judging" ELSE "putting"
<1>1. at \in TaskAt /\ task[t].file \in Files
  BY TaskHolds DEF TaskAt
<1>2. Row(task[t].file) \in RowSeen
  BY <1>1, RowTyped
<1>3. Step(t, at, Row(task[t].file)) \/ Done(t)
  BY DEF ReadRow
<1>4. task' \in [Tasks -> Task]
  BY <1>1, <1>2, <1>3, StepTyped
<1> QED BY <1>4 DEF TypeOK, ReadRow, fileRows, history

(* A verdict on the file of a task keeps the row well typed.               *)
LEMMA JudgedTyped ==
  ASSUME TypeOK, NEW t \in Tasks, NEW read, NEW verdict \in Routed \union {"rejected"},
         WriteStatus(task[t].file, read, verdict)
  PROVE  /\ status' \in [Files -> RowState]
         /\ approved' \subseteq Files /\ revived' \subseteq Files
<1>1. verdict \in RowState /\ task[t].file \in Files
  BY RoutedIsVerdict, TaskHolds DEF Verdict, FileStatus, RowState
<1> QED BY <1>1, WriteStatusTyped

(* A task that has ended holds what an idle task holds.                    *)
LEMMA DoneTyped ==
  ASSUME TypeOK, NEW t \in Tasks, Done(t)
  PROVE  task' \in [Tasks -> Task]
BY IdleTyped DEF TypeOK, Done

LEMMA JudgeTyped ==
  ASSUME TypeOK, calls' \in Nat, copy' \in [Clients -> Copy],
         NEW t \in Tasks, Judge(t)
  PROVE  TypeOK'
<1>1. PICK verdict \in Routed : WriteStatus(task[t].file, task[t].seen.status, verdict)
  BY DEF Judge
<1>2. /\ status' \in [Files -> RowState]
      /\ approved' \subseteq Files /\ revived' \subseteq Files
  BY <1>1, JudgedTyped
<1>3. task' \in [Tasks -> Task]
  BY DoneTyped DEF Judge
<1> QED BY <1>2, <1>3 DEF TypeOK, Judge

LEMMA EnrichTyped ==
  ASSUME TypeOK, calls' \in Nat, copy' \in [Clients -> Copy],
         NEW t \in Tasks, Enrich(t)
  PROVE  TypeOK'
<1> DEFINE f == task[t].file
<1>1. f \in Files
  BY TaskHolds
<1>2. keyOf' \in [Files -> Keys] /\ task' \in [Tasks -> Task]
  <2>1. CASE Exists(f)
    <3>1. PICK k \in KeysFor[f] :
            /\ keyOf' = [keyOf EXCEPT ![f] = k]
            /\ Step(t, "routing", [Row(f) EXCEPT !.key = k])
      BY <2>1 DEF Enrich
    <3>2. keyOf' \in [Files -> Keys]
      BY <1>1, <3>1, NewKeyTyped
    <3>3. k \in Keys
      BY <1>1, IdleTyped
    <3>4. [Row(f) EXCEPT !.key = k] \in RowSeen
      BY <1>1, <3>3, RowTyped DEF RowSeen
    <3>5. task' \in [Tasks -> Task]
      <4>1. "routing" \in TaskAt
        BY DEF TaskAt
      <4> QED BY <3>1, <3>4, <4>1, StepTyped
    <3> QED BY <3>2, <3>5
  <2>2. CASE ~Exists(f)
    <3>1. Done(t) /\ UNCHANGED keyOf
      BY <2>2 DEF Enrich
    <3> QED BY <3>1, DoneTyped DEF TypeOK
  <2> QED BY <2>1, <2>2
<1> QED BY <1>2 DEF TypeOK, Enrich, history

LEMMA RouteUploadTyped ==
  ASSUME TypeOK, calls' \in Nat, copy' \in [Clients -> Copy],
         NEW t \in Tasks, RouteUpload(t)
  PROVE  TypeOK'
<1>1. PICK verdict \in Routed :
        /\ WriteStatus(task[t].file, task[t].seen.status, verdict)
        /\ Step(t, "putting", Row(task[t].file)) \/ Done(t)
  BY DEF RouteUpload
<1>2. /\ status' \in [Files -> RowState]
      /\ approved' \subseteq Files /\ revived' \subseteq Files
  BY <1>1, JudgedTyped
<1>3. "putting" \in TaskAt /\ Row(task[t].file) \in RowSeen
  BY TaskHolds, RowTyped DEF TaskAt
<1>4. task' \in [Tasks -> Task]
  BY <1>1, <1>3, StepTyped
<1> QED BY <1>2, <1>4 DEF TypeOK, RouteUpload

LEMMA RejectUploadTyped ==
  ASSUME TypeOK, calls' \in Nat, copy' \in [Clients -> Copy],
         NEW t \in Tasks, RejectUpload(t)
  PROVE  TypeOK'
<1>1. /\ status' \in [Files -> RowState]
      /\ approved' \subseteq Files /\ revived' \subseteq Files
  BY JudgedTyped DEF RejectUpload
<1>2. task' \in [Tasks -> Task]
  BY DoneTyped DEF RejectUpload
<1> QED BY <1>1, <1>2 DEF TypeOK, RejectUpload

LEMMA PutObjectTyped ==
  ASSUME TypeOK, calls' \in Nat, copy' \in [Clients -> Copy],
         NEW t \in Tasks, PutObject(t)
  PROVE  TypeOK'
<1> DEFINE at == IF task[t].old \notin {None, task[t].seen.key} THEN "deleting" ELSE "saving"
<1>1. task[t].file \in Files /\ task[t].seen \in RowSeen
  BY TaskHolds
<1>2. /\ Store(task[t].seen.key, task[t].file) \/ UNCHANGED bucket
      /\ Step(t, at, task[t].seen) \/ Done(t)
      /\ faults' \in Nat
  BY DEF PutObject, Fault, TypeOK
<1>3. bucket' \in [Keys -> Files \union {None}]
  BY <1>1, <1>2, StoreTyped
<1>4. task' \in [Tasks -> Task]
  <2>1. at \in TaskAt
    BY DEF TaskAt
  <2> QED BY <1>1, <1>2, <2>1, StepTyped
<1> QED BY <1>2, <1>3, <1>4 DEF TypeOK, PutObject, fileRows

LEMMA DeleteOldObjectTyped ==
  ASSUME TypeOK, calls' \in Nat, copy' \in [Clients -> Copy],
         NEW t \in Tasks, DeleteOldObject(t)
  PROVE  TypeOK'
<1>1. /\ Store(task[t].old, None) \/ UNCHANGED bucket
      /\ Step(t, "saving", task[t].seen) /\ faults' \in Nat
  BY DEF DeleteOldObject, Fault, TypeOK
<1>2. bucket' \in [Keys -> Files \union {None}]
  BY <1>1, StoreTyped
<1>3. task' \in [Tasks -> Task]
  <2>1. "saving" \in TaskAt /\ task[t].seen \in RowSeen
    BY TaskHolds DEF TaskAt
  <2> QED BY <1>1, <2>1, StepTyped
<1> QED BY <1>1, <1>2, <1>3 DEF TypeOK, DeleteOldObject, fileRows

LEMMA SaveKeyTyped ==
  ASSUME TypeOK, calls' \in Nat, copy' \in [Clients -> Copy],
         NEW t \in Tasks, SaveKey(t)
  PROVE  TypeOK'
<1> DEFINE f == task[t].file
<1>1. f \in Files /\ task[t].seen.key \in Keys
  BY TaskHolds
<1>2. task' \in [Tasks -> Task]
  BY DoneTyped DEF SaveKey
<1>3. s3Key' \in [Files -> Keys \union {None}]
  <2> DEFINE key == IF /\ Exists(f)
                       /\ task[t].seen.key \notin {task[t].old, task[t].seen.s3Key}
                    THEN task[t].seen.key ELSE s3Key[f]
  <2>1. \/ s3Key' = [s3Key EXCEPT ![f] = key]
        \/ s3Key' = s3Key
    <3>1. CASE UNCHANGED s3Key
      BY <3>1
    <3>2. CASE s3Key' = [s3Key EXCEPT ![f] = IF /\ Exists(f)
                          /\ task[t].seen.key \notin {task[t].old, task[t].seen.s3Key}
                       THEN task[t].seen.key ELSE @]
      BY <3>2
    <3> QED BY <3>1, <3>2 DEF SaveKey
  <2>2. key \in Keys \union {None}
    BY <1>1 DEF TypeOK
  <2> HIDE DEF key
  <2> QED BY <2>1, <2>2 DEF TypeOK
<1>3a. faults' \in Nat /\ disturbed' \subseteq Files
  BY <1>1 DEF SaveKey, Fault, TypeOK
<1>4. /\ status' \in [Files -> RowState]
      /\ approved' \subseteq Files /\ revived' \subseteq Files
  <2>1. \/ WriteStatus(f, status[f], "rejected")
        \/ UNCHANGED <<status, approved, revived>>
    BY DEF SaveKey
  <2>2. CASE WriteStatus(f, status[f], "rejected")
    BY <2>2, JudgedTyped
  <2>3. CASE UNCHANGED <<status, approved, revived>>
    BY <2>3 DEF TypeOK
  <2> QED BY <2>1, <2>2, <2>3
<1> QED BY <1>2, <1>3, <1>3a, <1>4 DEF TypeOK, SaveKey

LEMMA RemoveObjectTyped ==
  ASSUME TypeOK, calls' \in Nat, copy' \in [Clients -> Copy],
         NEW t \in Tasks, RemoveObject(t)
  PROVE  TypeOK'
<1>1. /\ Store(task[t].old, None) \/ UNCHANGED bucket
      /\ Done(t) /\ faults' \in Nat
  BY DEF RemoveObject, Fault, TypeOK
<1>2. bucket' \in [Keys -> Files \union {None}]
  BY <1>1, StoreTyped
<1>3. task' \in [Tasks -> Task]
  BY <1>1, DoneTyped
<1> QED BY <1>1, <1>2, <1>3 DEF TypeOK, RemoveObject, fileRows

-----------------------------------------------------------------------------
(* The steps of a run keep the types.                                      *)
LEMMA CheckVersionTyped ==
  ASSUME TypeOK, calls' \in Nat, copy' \in [Clients -> Copy],
         NEW d \in 1 .. MaxDate, CheckVersion(d)
  PROVE  TypeOK'
<1>1. SupersededBy(d) \subseteq Files \union {None}
  BY DEF SupersededBy, Newest, Current, Versions, TypeOK
<1>2. PICK f \in SupersededBy(d) :
        /\ run' = [NoRun EXCEPT !.at = "cleaning", !.date = d, !.old = f]
        /\ disturbed' = disturbed \union ({f} \ {None})
  BY DEF CheckVersion
<1>3. run' \in Run
  <2>1. d \in 0 .. MaxDate /\ f \in Files \union {None} /\ "cleaning" \in RunAt
    BY <1>1, <1>2 DEF RunAt
  <2>2. NoRun \in Run
    BY IdleTyped
  <2> QED BY <1>2, <2>1, <2>2 DEF Run
<1>4. disturbed' \subseteq Files
  BY <1>1, <1>2 DEF TypeOK
<1> QED BY <1>3, <1>4 DEF TypeOK, CheckVersion, fileRows

(* A run that only goes on to its next step stays well typed.              *)
LEMMA RunStepTyped ==
  ASSUME TypeOK, NEW at \in RunAt, run' = [run EXCEPT !.at = at]
  PROVE  run' \in Run
BY DEF TypeOK, Run

LEMMA CleanUpTyped ==
  ASSUME TypeOK, calls' \in Nat, copy' \in [Clients -> Copy], CleanUp
  PROVE  TypeOK'
<1>1. run' \in Run
  BY RunStepTyped DEF CleanUp, RunAt
<1>2. bucket' \in [Keys -> Files \union {None}] /\ faults' \in Nat
  BY DEF CleanUp, Store, Fault, TypeOK
<1> QED BY <1>1, <1>2 DEF TypeOK, CleanUp, fileRows

LEMMA ExtractFileTyped ==
  ASSUME TypeOK, calls' \in Nat, copy' \in [Clients -> Copy],
         NEW f \in Files, NEW k \in KeysFor[f],
         NEW v \in BOOLEAN, ExtractFile(f, k, v)
  PROVE  TypeOK'
<1>1. status' \in [Files -> RowState]
  BY DEF ExtractFile, TypeOK, RowState
<1>2. keyOf' \in [Files -> Keys]
  BY NewKeyTyped DEF ExtractFile
<1>3. date' \in [Files -> 0 .. MaxDate]
  BY RunHolds DEF ExtractFile, TypeOK
<1>4. versioned' \subseteq Files
  BY DEF ExtractFile, TypeOK
<1>5. PICK verdict \in Routed :
       /\ run' = [run EXCEPT !.new = f, !.verdict = verdict,
                    !.at = IF verdict = "approved" THEN "storing" ELSE "committing"]
       /\ approved' = IF verdict = "approved" THEN approved \union {f} ELSE approved
  BY DEF ExtractFile
<1>6. run' \in Run
  BY <1>5, RoutedIsVerdict DEF TypeOK, Run, RunAt
<1>7. approved' \subseteq Files
  BY <1>5 DEF TypeOK
<1> QED BY <1>1, <1>2, <1>3, <1>4, <1>6, <1>7 DEF TypeOK, ExtractFile

LEMMA ExtractNothingTyped ==
  ASSUME TypeOK, calls' \in Nat, copy' \in [Clients -> Copy], ExtractNothing
  PROVE  TypeOK'
<1>1. run' \in Run
  BY RunStepTyped DEF ExtractNothing, RunAt
<1> QED BY <1>1 DEF TypeOK, ExtractNothing, fileRows, history

LEMMA StoreNewTyped ==
  ASSUME TypeOK, calls' \in Nat, copy' \in [Clients -> Copy], StoreNew
  PROVE  TypeOK'
<1>1. run' \in Run
  BY RunStepTyped DEF StoreNew, RunAt
<1>2. /\ Store(keyOf[run.new], run.new) \/ UNCHANGED bucket
      /\ s3Key' = [s3Key EXCEPT ![run.new] = keyOf[run.new]] \/ UNCHANGED s3Key
      /\ faults' \in Nat
  BY DEF StoreNew, Fault, TypeOK
<1>3. s3Key' \in [Files -> Keys \union {None}]
  BY <1>2, RunHolds DEF TypeOK
<1>4. bucket' \in [Keys -> Files \union {None}]
  BY <1>2, RunHolds, StoreTyped
<1> QED BY <1>1, <1>2, <1>3, <1>4 DEF TypeOK, StoreNew

LEMMA CommitRunTyped ==
  ASSUME TypeOK, calls' \in Nat, copy' \in [Clients -> Copy], CommitRun
  PROVE  TypeOK'
<1>1. status' \in [Files -> RowState]
  BY RunHolds DEF CommitRun, TypeOK, RowState, FileStatus
<1> QED BY <1>1, IdleTyped DEF TypeOK, CommitRun, history

LEMMA RollbackTyped ==
  ASSUME TypeOK
  PROVE  Rollback \in [Files -> RowState]
BY DEF TypeOK, Rollback, RowState

LEMMA AbortRunTyped ==
  ASSUME TypeOK, calls' \in Nat, copy' \in [Clients -> Copy], AbortRun
  PROVE  TypeOK'
BY RollbackTyped, IdleTyped DEF TypeOK, AbortRun, history

LEMMA CrashTyped ==
  ASSUME TypeOK, calls' \in Nat, Crash
  PROVE  TypeOK'
<1>0. copy' \in [Clients -> Copy]
  BY DEF Crash, Copy
<1>1. task' \in [Tasks -> Task]
  BY IdleTyped DEF Crash
<1>2. faults' \in Nat /\ disturbed' \subseteq Files
  BY DEF Crash, Fault, TypeOK
<1> QED BY <1>0, <1>1, <1>2, RollbackTyped, IdleTyped DEF TypeOK, Crash

-----------------------------------------------------------------------------
(* TypeOK is kept by every step of every action.                           *)
LEMMA RouteTyped ==
  ASSUME TypeOK, calls' \in Nat, copy' \in [Clients -> Copy],
         NEW f \in Files, FileRoute(f)
  PROVE  TypeOK'
<1>1. CASE Reject(f)
  BY <1>1, RejectTyped
<1>2. CASE \E k \in KeysFor[f] : MoveToFolder(f, k)
  BY <1>2, MoveToFolderTyped
<1>3. ASSUME NEW t \in Tasks, Approve(f, t) \/ Reconsider(f, t) \/ DeleteFile(f, t)
      PROVE  TypeOK'
  BY <1>3, ApproveTyped, ReconsiderTyped, DeleteFileTyped
<1>4. ASSUME NEW t \in Tasks, NEW k \in KeysFor[f],
             EditMetadata(f, k, t) \/ UploadFile(f, k, t)
      PROVE  TypeOK'
  BY <1>4, EditMetadataTyped, UploadFileTyped
<1> QED BY <1>1, <1>2, <1>3, <1>4 DEF FileRoute

LEMMA CopyStepTyped ==
  ASSUME TypeOK, calls' \in Nat, NEW c \in Clients, CopyStep(c)
  PROVE  TypeOK'
BY CommitCopyTyped, AbortCopyTyped DEF CopyStep

LEMMA TaskStepTyped ==
  ASSUME TypeOK, calls' \in Nat, copy' \in [Clients -> Copy],
         NEW t \in Tasks, TaskStep(t)
  PROVE  TypeOK'
BY ReadRowTyped, JudgeTyped, EnrichTyped, RouteUploadTyped, RejectUploadTyped,
   PutObjectTyped, DeleteOldObjectTyped, SaveKeyTyped, RemoveObjectTyped DEF TaskStep

LEMMA RunTyped ==
  ASSUME TypeOK, calls' \in Nat, copy' \in [Clients -> Copy], RunStep
  PROVE  TypeOK'
BY CleanUpTyped, ExtractFileTyped, ExtractNothingTyped, StoreNewTyped,
   CommitRunTyped, AbortRunTyped DEF RunStep

LEMMA NextTyped ==
  ASSUME TypeOK, [Next]_vars
  PROVE  TypeOK'
<1>1. CASE UNCHANGED vars
  BY <1>1 DEF TypeOK, vars, fileRows, history
<1>2. CASE Next
  <2>1. calls' \in Nat
    BY <1>2 DEF Next, Call, TypeOK
  <2>2. ASSUME UNCHANGED copy PROVE copy' \in [Clients -> Copy]
    BY <2>2 DEF TypeOK
  <2>3. ASSUME UNCHANGED copy, NEW f \in Files, FileRoute(f) PROVE TypeOK'
    BY <2>1, <2>2, <2>3, RouteTyped
  <2>4. ASSUME NEW c \in Clients, NEW f \in Files, ReadForCopy(c, f) PROVE TypeOK'
    BY <2>1, <2>4, ReadForCopyTyped
  <2>5. ASSUME UNCHANGED copy, NEW d \in 1 .. MaxDate, CheckVersion(d) PROVE TypeOK'
    BY <2>1, <2>2, <2>5, CheckVersionTyped
  <2>6. ASSUME NEW c \in Clients, CopyStep(c) PROVE TypeOK'
    BY <2>1, <2>6, CopyStepTyped
  <2>7. ASSUME UNCHANGED copy, NEW t \in Tasks, TaskStep(t) PROVE TypeOK'
    BY <2>1, <2>2, <2>7, TaskStepTyped
  <2>8. ASSUME UNCHANGED copy, RunStep PROVE TypeOK'
    BY <2>1, <2>2, <2>8, RunTyped
  <2>9. CASE Crash
    BY <2>1, <2>9, CrashTyped
  <2> QED BY <1>2, <2>3, <2>4, <2>5, <2>6, <2>7, <2>8, <2>9 DEF Next
<1> QED BY <1>1, <1>2

(* Every state the file store reaches is well typed: in particular, every  *)
(* status a verdict, a copy, a version check or a rollback gives a row is  *)
(* a status of kb_files.                                                   *)
THEOREM TypeCorrect == Spec => []TypeOK
<1>1. Init => TypeOK
  BY IdleTyped DEF Init, TypeOK, RowState, Copy
<1>2. TypeOK /\ [Next]_vars => TypeOK'
  BY NextTyped
<1> QED BY <1>1, <1>2, PTL DEF Spec

-----------------------------------------------------------------------------
(* A verdict or a review that makes a row approved enters it in the        *)
(* history, which only grows.                                              *)
LEMMA SetStatusApproves ==
  ASSUME TypeOK, RowsApproved, NEW f \in Files, NEW s \in RowState, SetStatus(f, s)
  PROVE  /\ approved \subseteq approved' /\ RowsApproved'
         /\ s = "approved" => f \in approved'
BY DEF TypeOK, RowsApproved, SetStatus

LEMMA WriteStatusApproves ==
  ASSUME TypeOK, RowsApproved, NEW f \in Files, NEW read, NEW s \in RowState,
         WriteStatus(f, read, s)
  PROVE  /\ approved \subseteq approved' /\ RowsApproved'
         /\ s = "approved" /\ Exists(f) /\ s # read => f \in approved'
<1>1. CASE Exists(f) /\ s # read
  <2>1. SetStatus(f, s)
    BY <1>1 DEF WriteStatus
  <2> QED BY <2>1, SetStatusApproves
<1>2. CASE ~(Exists(f) /\ s # read)
  <2>1. UNCHANGED <<status, approved, revived>>
    BY <1>2 DEF WriteStatus
  <2> QED BY <1>2, <2>1 DEF RowsApproved
<1> QED BY <1>1, <1>2

(* Nothing that was approved is forgotten, so what a step leaves alone     *)
(* stays as approved as it was.                                            *)
LEMMA StoreApproved ==
  ASSUME TypeOK, PublishedWasApproved, approved \subseteq approved',
         NEW key, NEW f \in Files \union {None}, f # None => f \in approved',
         Store(key, f) \/ UNCHANGED bucket
  PROVE  \A k \in Keys : bucket'[k] # None => bucket'[k] \in approved'
BY DEF TypeOK, PublishedWasApproved, Store

LEMMA PublishedKept ==
  ASSUME PublishedWasApproved, approved \subseteq approved', UNCHANGED <<bucket, s3Key>>
  PROVE  PublishedWasApproved'
BY DEF PublishedWasApproved

LEMMA RunKept ==
  ASSUME RunApproved, approved \subseteq approved', UNCHANGED run
  PROVE  RunApproved'
BY DEF RunApproved

LEMMA TasksKept ==
  ASSUME TasksApproved, approved \subseteq approved', UNCHANGED task
  PROVE  TasksApproved'
BY DEF TasksApproved, Publishing

(* A task that stores something stores an approved file.                   *)
LEMMA TaskChange ==
  ASSUME TypeOK, TasksApproved, approved \subseteq approved', NEW t \in Tasks,
         NEW r \in Task, task' = [task EXCEPT ![t] = r],
         Publishing(r) \/ r.seen.status = "approved" => r.file \in approved'
  PROVE  TasksApproved'
<1> SUFFICES ASSUME NEW u \in Tasks,
                    Publishing(task'[u]) \/ task'[u].seen.status = "approved"
             PROVE  task'[u].file \in approved'
  BY DEF TasksApproved, Publishing
<1>1. CASE u = t
  <2>1. task'[u] = r
    BY <1>1 DEF TypeOK
  <2> QED BY <2>1
<1>2. CASE u # t
  <2>1. task'[u] = task[u]
    BY <1>2 DEF TypeOK
  <2> QED BY <2>1 DEF TasksApproved
<1> QED BY <1>1, <1>2

LEMMA DoneApproved ==
  ASSUME TypeOK, TasksApproved, approved \subseteq approved', NEW t \in Tasks, Done(t)
  PROVE  TasksApproved'
<1>1. NoTask \in Task
  BY IdleTyped
<1>2. NoTask.at = "idle" /\ NoTask.seen.status = "absent"
  BY DEF NoTask, Unread
<1>3. task' = [task EXCEPT ![t] = NoTask]
  BY DEF Done
<1>4. ~Publishing(NoTask)
  BY <1>2 DEF Publishing
<1> QED BY <1>1, <1>2, <1>3, <1>4, TaskChange

LEMMA ScheduleApproved ==
  ASSUME TypeOK, TasksApproved, approved \subseteq approved', NEW t \in Tasks,
         NEW op \in Operation, NEW f \in Files, NEW key \in Keys \union {None},
         Schedule(t, op, f, key),
         op \in {"upload", "recompute"} => f \in approved'
  PROVE  TasksApproved'
<1> DEFINE r == [at |-> FirstStep(op), op |-> op, file |-> f, old |-> key, seen |-> Unread]
<1>1. /\ FirstStep(op) \in {"removing", "enriching", "reading"}
      /\ FirstStep(op) = "reading" => op \in {"upload", "recompute", "qa"}
  BY DEF FirstStep, Operation
<1>2. r \in Task
  BY <1>1, IdleTyped DEF Task, TaskAt
<1>3. task' = [task EXCEPT ![t] = r]
  BY DEF Schedule
<1>4. r.at = FirstStep(op) /\ r.op = op /\ r.file = f /\ r.seen.status = "absent"
  BY DEF Unread
<1> HIDE DEF r
<1>5. Publishing(r) => r.file \in approved'
  BY <1>1, <1>4 DEF Publishing
<1> QED BY <1>2, <1>3, <1>4, <1>5, TaskChange

(* A task that goes on holds what it held, and what it has just read.      *)
LEMMA StepApproved ==
  ASSUME TypeOK, TasksApproved, approved \subseteq approved', NEW t \in Tasks,
         NEW at \in TaskAt, NEW seen \in RowSeen,
         Step(t, at, seen), at # "reading",
         at \in {"putting", "deleting", "saving"} \/ seen.status = "approved"
           => task[t].file \in approved'
  PROVE  TasksApproved'
<1> DEFINE r == [at |-> at, op |-> task[t].op, file |-> task[t].file,
                 old |-> task[t].old, seen |-> seen]
<1>1. r \in Task
  BY TaskHolds DEF Task
<1>2. task' = [task EXCEPT ![t] = r]
  BY DEF Step
<1>3. r.at = at /\ r.file = task[t].file /\ r.seen = seen
  OBVIOUS
<1> HIDE DEF r
<1>4. Publishing(r) => r.file \in approved'
  BY <1>3 DEF Publishing
<1> QED BY <1>1, <1>2, <1>3, <1>4, TaskChange

-----------------------------------------------------------------------------
(* ApprovalInv but for what requests to copy have read.                    *)
StoredApproved == PublishedWasApproved /\ RowsApproved /\ TasksApproved /\ RunApproved

(* The routes keep it.                                                     *)
LEMMA RouteApproved ==
  ASSUME TypeOK, StoredApproved, NEW f \in Files, FileRoute(f)
  PROVE  StoredApproved'
<1> USE DEF StoredApproved
<1>1. CASE Reject(f)
  <2>1. SetStatus(f, "rejected") /\ "rejected" \in RowState
    BY <1>1 DEF Reject, RowState, FileStatus, Verdict
  <2>2. approved \subseteq approved' /\ RowsApproved'
    BY <2>1, SetStatusApproves
  <2> QED BY <1>1, <2>2, PublishedKept, RunKept, TasksKept DEF Reject
<1>2. ASSUME NEW k \in KeysFor[f], MoveToFolder(f, k) PROVE StoredApproved'
  <2>1. approved \subseteq approved' /\ RowsApproved'
    BY <1>2 DEF MoveToFolder, history, RowsApproved
  <2> QED BY <1>2, <2>1, PublishedKept, RunKept, TasksKept DEF MoveToFolder
<1>3. ASSUME NEW t \in Tasks, Approve(f, t) PROVE StoredApproved'
  <2>1. /\ SetStatus(f, "approved") /\ "approved" \in RowState
        /\ Schedule(t, "upload", f, None) /\ "upload" \in Operation
    BY <1>3 DEF Approve, RowState, FileStatus, Verdict, Operation
  <2>2. approved \subseteq approved' /\ RowsApproved' /\ f \in approved'
    BY <2>1, SetStatusApproves
  <2>3. TasksApproved'
    BY <2>1, <2>2, ScheduleApproved
  <2> QED BY <1>3, <2>2, <2>3, PublishedKept, RunKept DEF Approve
<1>4. ASSUME NEW t \in Tasks, Reconsider(f, t) PROVE StoredApproved'
  <2>1. approved \subseteq approved' /\ RowsApproved'
    BY <1>4 DEF Reconsider, fileRows, RowsApproved
  <2>2. Schedule(t, "qa", f, None) /\ "qa" \in Operation
    BY <1>4 DEF Reconsider, Operation
  <2>3. TasksApproved'
    BY <2>1, <2>2, ScheduleApproved
  <2> QED BY <1>4, <2>1, <2>3, PublishedKept, RunKept DEF Reconsider, fileRows
<1>5. ASSUME NEW t \in Tasks, DeleteFile(f, t) PROVE StoredApproved'
  <2>1. SetStatus(f, "gone") /\ "gone" \in RowState
    BY <1>5 DEF DeleteFile, RowState
  <2>2. approved \subseteq approved' /\ RowsApproved'
    BY <2>1, SetStatusApproves
  <2>3. TasksApproved'
    <3>1. CASE Schedule(t, "remove", f, s3Key[f])
      <4>1. "remove" \in Operation /\ s3Key[f] \in Keys \union {None}
        BY DEF Operation, TypeOK
      <4> QED BY <2>2, <3>1, <4>1, ScheduleApproved
    <3>2. CASE UNCHANGED <<task, disturbed>>
      BY <2>2, <3>2, TasksKept
    <3> QED BY <1>5, <3>1, <3>2 DEF DeleteFile
  <2> QED BY <1>5, <2>2, <2>3, PublishedKept, RunKept DEF DeleteFile
<1>6. ASSUME NEW t \in Tasks, NEW k \in KeysFor[f], EditMetadata(f, k, t)
      PROVE  StoredApproved'
  <2>1. approved \subseteq approved' /\ RowsApproved'
    BY <1>6 DEF EditMetadata, RowsApproved
  <2>2. TasksApproved'
    <3>1. CASE s3Key[f] # None
      <4>1. Schedule(t, "recompute", f, s3Key[f])
        BY <1>6, <3>1 DEF EditMetadata
      <4>2. "recompute" \in Operation /\ s3Key[f] \in Keys \union {None}
        BY DEF Operation, TypeOK
      <4>3. f \in approved'
        BY <2>1, <3>1 DEF PublishedWasApproved
      <4> QED BY <2>1, <4>1, <4>2, <4>3, ScheduleApproved
    <3>2. CASE s3Key[f] = None
      BY <1>6, <2>1, <3>2, TasksKept DEF EditMetadata
    <3> QED BY <3>1, <3>2
  <2> QED BY <1>6, <2>1, <2>2, PublishedKept, RunKept DEF EditMetadata
<1>7. ASSUME NEW t \in Tasks, NEW k \in KeysFor[f], UploadFile(f, k, t)
      PROVE  StoredApproved'
  <2>1. /\ SetStatus(f, "pending_review") /\ "pending_review" \in RowState
        /\ Schedule(t, "pipeline", f, None) /\ "pipeline" \in Operation
    BY <1>7 DEF UploadFile, RowState, FileStatus, Verdict, Operation
  <2>2. approved \subseteq approved' /\ RowsApproved'
    BY <2>1, SetStatusApproves
  <2>3. TasksApproved'
    BY <2>1, <2>2, ScheduleApproved
  <2> QED BY <1>7, <2>2, <2>3, PublishedKept, RunKept DEF UploadFile
<1> QED BY <1>1, <1>2, <1>3, <1>4, <1>5, <1>6, <1>7 DEF FileRoute

(* The steps of a copy leave all else alone, or commit it.                 *)
Copying == \E c \in Clients : CopyStep(c) \/ \E f \in Files : ReadForCopy(c, f)
OnlyCopies == UNCHANGED <<fileRows, bucket, task, run, history>>

LEMMA CopyingCases ==
  Copying => \/ OnlyCopies
             \/ \E c \in Clients, g \in Files, t \in Tasks :
                  \E k \in KeysFor[g] : CommitCopy(c, g, k, t)
BY DEF Copying, CopyStep, ReadForCopy, AbortCopy, OnlyCopies

(* A copy is approved only if what it was read from was.                   *)
LEMMA CommitCopyApproved ==
  ASSUME TypeOK, ApprovalInv, NEW c \in Clients, NEW g \in Files,
         NEW k \in KeysFor[g], NEW t \in Tasks, CommitCopy(c, g, k, t)
  PROVE  StoredApproved'
<1> USE DEF StoredApproved, ApprovalInv
<1>1. /\ approved \subseteq approved'
      /\ copy[c].status = "approved" => g \in approved'
  BY DEF CommitCopy
<1>2. RowsApproved'
  BY <1>1 DEF CommitCopy, RowsApproved, TypeOK
<1>3. TasksApproved'
  <2>1. CASE copy[c].status = "approved" /\ copy[c].s3Key # None
    <3>1. Schedule(t, "upload", g, None) /\ "upload" \in Operation
      BY <2>1 DEF CommitCopy, Operation
    <3> QED BY <1>1, <2>1, <3>1, ScheduleApproved
  <2>2. CASE ~(copy[c].status = "approved" /\ copy[c].s3Key # None)
    BY <1>1, <2>2, TasksKept DEF CommitCopy
  <2> QED BY <2>1, <2>2
<1> QED BY <1>1, <1>2, <1>3, PublishedKept, RunKept DEF CommitCopy

LEMMA CopyingApproved ==
  ASSUME TypeOK, ApprovalInv, Copying
  PROVE  StoredApproved'
<1>1. CASE OnlyCopies
  BY <1>1 DEF OnlyCopies, fileRows, history, ApprovalInv, StoredApproved, PublishedWasApproved,
              RowsApproved, TasksApproved, RunApproved, Publishing
<1> QED BY <1>1, CopyingCases, CommitCopyApproved

(* The steps of a background task keep it.                                 *)
LEMMA TaskStepApproved ==
  ASSUME TypeOK, StoredApproved, NEW t \in Tasks, TaskStep(t)
  PROVE  StoredApproved'
<1> USE DEF StoredApproved
<1> DEFINE f == task[t].file
           seen == task[t].seen
<1>0. /\ f \in Files /\ seen \in RowSeen /\ task[t].old \in Keys \union {None}
      /\ \A v \in Routed \union {"rejected"} : v \in RowState
      /\ {"judging", "routing", "putting", "deleting", "saving"} \subseteq TaskAt
  BY TaskHolds, RoutedIsVerdict DEF RowState, FileStatus, Verdict, TaskAt
<1> HIDE DEF f, seen
<1>1. CASE ReadRow(t)
  <2>1. approved \subseteq approved' /\ RowsApproved'
    BY <1>1 DEF ReadRow, fileRows, history, RowsApproved
  <2>2. TasksApproved'
    <3>1. CASE Exists(f)
      <4> DEFINE at == IF task[t].op = "qa" THEN "judging" ELSE "putting"
      <4>1. Step(t, at, Row(f))
        BY <1>1, <3>1 DEF ReadRow, f
      <4>2. at \in TaskAt /\ at # "reading" /\ Row(f) \in RowSeen
        BY <1>0, RowTyped
      <4>3. at = "putting" => f \in approved
        BY <1>1 DEF ReadRow, TasksApproved, Publishing, f
      <4>4. Row(f).status = "approved" => f \in approved
        BY <1>0 DEF Row, RowsApproved
      <4>5. at \in {"judging", "putting"}
        OBVIOUS
      <4> HIDE DEF at
      <4> QED BY <2>1, <4>1, <4>2, <4>3, <4>4, <4>5, StepApproved DEF f
    <3>2. CASE ~Exists(f)
      BY <1>1, <2>1, <3>2, DoneApproved DEF ReadRow, f
    <3> QED BY <3>1, <3>2
  <2> QED BY <1>1, <2>1, <2>2, PublishedKept, RunKept DEF ReadRow, fileRows
<1>2. CASE Judge(t)
  <2>1. PICK verdict \in Routed : WriteStatus(f, seen.status, verdict)
    BY <1>2 DEF Judge, f, seen
  <2>2. approved \subseteq approved' /\ RowsApproved'
    BY <1>0, <2>1, WriteStatusApproves
  <2> QED BY <1>2, <2>2, DoneApproved, PublishedKept, RunKept DEF Judge
<1>3. CASE Enrich(t)
  <2>1. approved \subseteq approved' /\ RowsApproved'
    BY <1>3 DEF Enrich, history, RowsApproved
  <2>2. TasksApproved'
    <3>1. CASE Exists(f)
      <4>1. PICK k \in KeysFor[f] : Step(t, "routing", [Row(f) EXCEPT !.key = k])
        BY <1>3, <3>1 DEF Enrich, f
      <4>2. [Row(f) EXCEPT !.key = k] \in RowSeen
        BY <1>0, IdleTyped, RowTyped DEF RowSeen
      <4>3. [Row(f) EXCEPT !.key = k].status = status[f]
        BY DEF Row
      <4>4. status[f] = "approved" => f \in approved
        BY <1>0 DEF RowsApproved
      <4> QED BY <1>0, <2>1, <4>1, <4>2, <4>3, <4>4, StepApproved DEF f
    <3>2. CASE ~Exists(f)
      BY <1>3, <2>1, <3>2, DoneApproved DEF Enrich, f
    <3> QED BY <3>1, <3>2
  <2> QED BY <1>3, <2>1, <2>2, PublishedKept, RunKept DEF Enrich
<1>4. CASE RouteUpload(t)
  <2>1. PICK verdict \in Routed :
          /\ WriteStatus(f, seen.status, verdict)
          /\ IF verdict = "approved" /\ Exists(f)
             THEN Step(t, "putting", Row(f)) ELSE Done(t)
    BY <1>4 DEF RouteUpload, f, seen
  <2>2. /\ approved \subseteq approved' /\ RowsApproved'
        /\ verdict = "approved" /\ Exists(f) /\ verdict # seen.status => f \in approved'
    BY <1>0, <2>1, WriteStatusApproves
  <2>3. TasksApproved'
    <3>1. CASE verdict = "approved" /\ Exists(f)
      <4>1. Step(t, "putting", Row(f)) /\ Row(f) \in RowSeen
        BY <1>0, <2>1, <3>1, RowTyped
      <4>2. seen.status = "approved" => f \in approved
        BY DEF TasksApproved, f, seen
      <4>3. f \in approved'
        BY <2>2, <3>1, <4>2
      <4> QED BY <1>0, <2>2, <4>1, <4>3, StepApproved DEF f
    <3>2. CASE ~(verdict = "approved" /\ Exists(f))
      BY <2>1, <2>2, <3>2, DoneApproved
    <3> QED BY <3>1, <3>2
  <2> QED BY <1>4, <2>2, <2>3, PublishedKept, RunKept DEF RouteUpload
<1>5. CASE RejectUpload(t)
  <2>1. WriteStatus(f, status[f], "rejected")
    BY <1>5 DEF RejectUpload, f
  <2>2. approved \subseteq approved' /\ RowsApproved'
    BY <1>0, <2>1, WriteStatusApproves
  <2> QED BY <1>5, <2>2, DoneApproved, PublishedKept, RunKept DEF RejectUpload
<1>6. CASE PutObject(t)
  <2>1. /\ approved \subseteq approved' /\ RowsApproved' /\ UNCHANGED <<run, s3Key>>
        /\ Store(seen.key, f) \/ UNCHANGED bucket
    BY <1>6 DEF PutObject, fileRows, RowsApproved, f, seen
  <2>2. f \in approved
    BY <1>6 DEF PutObject, TasksApproved, Publishing, f
  <2>3. \A k \in Keys : bucket'[k] # None => bucket'[k] \in approved'
    BY <1>0, <2>1, <2>2, StoreApproved
  <2>4. PublishedWasApproved'
    BY <2>1, <2>3 DEF PublishedWasApproved
  <2>5. TasksApproved'
    <3>1. CASE Done(t)
      BY <2>1, <3>1, DoneApproved
    <3>2. CASE \E at \in {"deleting", "saving"} : Step(t, at, seen)
      BY <1>0, <2>1, <2>2, <3>2, StepApproved DEF f
    <3> QED BY <1>6, <3>1, <3>2 DEF PutObject, seen
  <2> QED BY <2>1, <2>4, <2>5, RunKept
<1>7. CASE DeleteOldObject(t)
  <2>1. /\ approved \subseteq approved' /\ RowsApproved' /\ UNCHANGED <<run, s3Key>>
        /\ Store(task[t].old, None) \/ UNCHANGED bucket
        /\ Step(t, "saving", seen)
    BY <1>7 DEF DeleteOldObject, fileRows, RowsApproved, seen
  <2>2. f \in approved
    BY <1>7 DEF DeleteOldObject, TasksApproved, Publishing, f
  <2>3. \A k \in Keys : bucket'[k] # None => bucket'[k] \in approved'
    BY <1>0, <2>1, StoreApproved
  <2>4. PublishedWasApproved'
    BY <2>1, <2>3 DEF PublishedWasApproved
  <2>5. TasksApproved'
    BY <1>0, <2>1, <2>2, StepApproved DEF f
  <2> QED BY <2>1, <2>4, <2>5, RunKept
<1>8. CASE SaveKey(t)
  <2>1. f \in approved
    BY <1>8 DEF SaveKey, TasksApproved, Publishing, f
  <2>2. approved \subseteq approved' /\ RowsApproved'
    <3>1. CASE WriteStatus(f, status[f], "rejected")
      BY <1>0, <3>1, WriteStatusApproves
    <3>2. CASE UNCHANGED <<status, approved, revived>>
      BY <3>2 DEF RowsApproved
    <3> QED BY <1>8, <3>1, <3>2 DEF SaveKey, f
  <2>3. PublishedWasApproved'
    <3>1. UNCHANGED bucket
      BY <1>8 DEF SaveKey
    <3>2. ASSUME NEW g \in Files, g # f PROVE s3Key'[g] = s3Key[g]
      <4>1. CASE UNCHANGED s3Key
        BY <4>1
      <4>2. CASE s3Key' = [s3Key EXCEPT ![f] =
                   IF Exists(f) /\ seen.key \notin {task[t].old, seen.s3Key}
                   THEN seen.key ELSE @]
        BY <3>2, <4>2 DEF TypeOK
      <4> QED BY <1>8, <4>1, <4>2 DEF SaveKey, f, seen
    <3> QED BY <2>1, <2>2, <3>1, <3>2 DEF PublishedWasApproved
  <2> QED BY <1>8, <2>2, <2>3, DoneApproved, RunKept DEF SaveKey
<1>9. CASE RemoveObject(t)
  <2>1. /\ approved \subseteq approved' /\ RowsApproved' /\ UNCHANGED <<run, s3Key>>
        /\ Store(task[t].old, None) \/ UNCHANGED bucket
        /\ Done(t)
    BY <1>9 DEF RemoveObject, fileRows, RowsApproved
  <2>2. \A k \in Keys : bucket'[k] # None => bucket'[k] \in approved'
    BY <2>1, StoreApproved
  <2>3. PublishedWasApproved'
    BY <2>1, <2>2 DEF PublishedWasApproved
  <2> QED BY <2>1, <2>3, DoneApproved, RunKept
<1> QED BY <1>1, <1>2, <1>3, <1>4, <1>5, <1>6, <1>7, <1>8, <1>9 DEF TaskStep

(* The steps of a run, and a crash, keep it.                               *)
LEMMA RunStepApproved ==
  ASSUME TypeOK, StoredApproved,
         \/ RunStep \/ Crash
         \/ \E d \in 1 .. MaxDate : CheckVersion(d)
  PROVE  StoredApproved'
<1> USE DEF StoredApproved
<1>1. ASSUME NEW d \in 1 .. MaxDate, CheckVersion(d) PROVE StoredApproved'
  <2>1. approved \subseteq approved' /\ RowsApproved'
    BY <1>1 DEF CheckVersion, fileRows, RowsApproved
  <2>2. PICK s \in SupersededBy(d) :
          run' = [NoRun EXCEPT !.at = "cleaning", !.date = d, !.old = s]
    BY <1>1 DEF CheckVersion
  <2>3. run'.at = "cleaning" /\ run'.new = None
    BY <2>2 DEF NoRun
  <2>4. RunApproved'
    BY <2>3 DEF RunApproved
  <2> QED BY <1>1, <2>1, <2>4, PublishedKept, TasksKept DEF CheckVersion, fileRows
<1>2. CASE CleanUp
  <2>1. approved \subseteq approved' /\ RowsApproved' /\ UNCHANGED <<s3Key, task>>
    BY <1>2 DEF CleanUp, fileRows, RowsApproved
  <2>2. (\E key : Store(key, None)) \/ UNCHANGED bucket
    BY <1>2 DEF CleanUp
  <2>3. PublishedWasApproved'
    BY <2>1, <2>2, StoreApproved DEF PublishedWasApproved
  <2>4. run'.at = "extracting" /\ run'.new = run.new /\ run'.verdict = run.verdict
    BY <1>2 DEF CleanUp, TypeOK, Run
  <2>5. RunApproved'
    BY <2>1, <2>4 DEF RunApproved
  <2> QED BY <2>1, <2>3, <2>5, TasksKept
<1>3. ASSUME NEW f \in Files, NEW k \in KeysFor[f], NEW v \in BOOLEAN, ExtractFile(f, k, v)
      PROVE  StoredApproved'
  <2>1. PICK verdict \in Routed :
       /\ run' = [run EXCEPT !.new = f, !.verdict = verdict,
                    !.at = IF verdict = "approved" THEN "storing" ELSE "committing"]
       /\ approved' = IF verdict = "approved" THEN approved \union {f} ELSE approved
    BY <1>3 DEF ExtractFile
  <2>2. approved \subseteq approved'
    BY <2>1
  <2>3. RowsApproved'
    BY <1>3, <2>2 DEF ExtractFile, RowsApproved, TypeOK
  <2>4. /\ run'.at = IF verdict = "approved" THEN "storing" ELSE "committing"
        /\ run'.new = f /\ run'.verdict = verdict
    BY <2>1 DEF TypeOK, Run
  <2>5. RunApproved'
    BY <2>1, <2>4 DEF RunApproved
  <2> QED BY <1>3, <2>2, <2>3, <2>5, PublishedKept, TasksKept DEF ExtractFile
<1>4. CASE ExtractNothing
  <2>1. approved \subseteq approved' /\ RowsApproved'
    BY <1>4 DEF ExtractNothing, fileRows, history, RowsApproved
  <2>2. run'.at = "committing" /\ run'.new = run.new /\ run'.verdict = run.verdict
    BY <1>4 DEF ExtractNothing, TypeOK, Run
  <2>3. RunApproved'
    BY <2>1, <2>2 DEF RunApproved
  <2> QED BY <1>4, <2>1, <2>3, PublishedKept, TasksKept DEF ExtractNothing, fileRows
<1>5. CASE StoreNew
  <2>1. approved \subseteq approved' /\ RowsApproved' /\ UNCHANGED task
    BY <1>5 DEF StoreNew, RowsApproved
  <2>2. run.new \in approved
    BY <1>5 DEF StoreNew, RunApproved
  <2>3. Store(keyOf[run.new], run.new) \/ UNCHANGED bucket
    BY <1>5 DEF StoreNew
  <2>4. \A k \in Keys : bucket'[k] # None => bucket'[k] \in approved'
    BY <2>1, <2>2, <2>3, RunHolds, StoreApproved
  <2>5. s3Key' = [s3Key EXCEPT ![run.new] = keyOf[run.new]] \/ UNCHANGED s3Key
    BY <1>5 DEF StoreNew
  <2>6. PublishedWasApproved'
    BY <2>1, <2>2, <2>4, <2>5 DEF PublishedWasApproved, TypeOK
  <2>7. run'.at = "committing" /\ run'.new = run.new /\ run'.verdict = run.verdict
    BY <1>5 DEF StoreNew, TypeOK, Run
  <2>8. RunApproved'
    BY <2>1, <2>7 DEF RunApproved
  <2> QED BY <2>1, <2>6, <2>8, TasksKept
<1>6. CASE CommitRun
  <2>1. UNCHANGED <<approved, task, bucket, s3Key>> /\ run' = NoRun
    BY <1>6 DEF CommitRun, history
  <2>2. RunApproved'
    BY <2>1 DEF RunApproved, NoRun
  <2>3. RowsApproved'
    <3> SUFFICES ASSUME NEW f \in Files, status'[f] = "approved" PROVE f \in approved
      BY <2>1 DEF RowsApproved
    <3>1. CASE f = run.new
      <4>1. run.verdict = "approved"
        BY <1>6, <3>1 DEF CommitRun
      <4> QED BY <3>1, <4>1 DEF RunApproved
    <3>2. CASE f # run.new
      <4>1. status[f] = "approved"
        BY <1>6, <3>2 DEF CommitRun
      <4> QED BY <4>1 DEF RowsApproved
    <3> QED BY <3>1, <3>2
  <2> QED BY <2>1, <2>2, <2>3, PublishedKept, TasksKept
<1>7. CASE AbortRun
  <2>1. UNCHANGED <<approved, task, bucket, s3Key>> /\ run' = NoRun
    BY <1>7 DEF AbortRun, history
  <2>2. RunApproved' /\ RowsApproved'
    BY <1>7, <2>1 DEF AbortRun, Rollback, RunApproved, RowsApproved, NoRun
  <2> QED BY <2>1, <2>2, PublishedKept, TasksKept
<1>8. CASE Crash
  <2>1. UNCHANGED <<approved, bucket, s3Key>> /\ run' = NoRun
    BY <1>8 DEF Crash
  <2>2. RunApproved' /\ RowsApproved'
    BY <1>8, <2>1 DEF Crash, Rollback, RunApproved, RowsApproved, NoRun
  <2>3. \A t \in Tasks : task'[t] = NoTask
    BY <1>8 DEF Crash
  <2>4. ~Publishing(NoTask) /\ NoTask.seen.status # "approved"
    BY DEF Publishing, NoTask, Unread
  <2>5. TasksApproved'
    BY <2>3, <2>4 DEF TasksApproved, Publishing
  <2> QED BY <2>1, <2>2, <2>5, PublishedKept
<1> QED BY <1>1, <1>2, <1>3, <1>4, <1>5, <1>6, <1>7, <1>8 DEF RunStep

(* The steps of Next, as the lemmas about them take them.                  *)
LEMMA NextCases ==
  ASSUME Next
  PROVE  \/ UNCHANGED copy /\ \E f \in Files : FileRoute(f)
         \/ Copying
         \/ UNCHANGED copy /\ \E d \in 1 .. MaxDate : CheckVersion(d)
         \/ UNCHANGED copy /\ \E t \in Tasks : TaskStep(t)
         \/ UNCHANGED copy /\ RunStep
         \/ Crash
BY DEF Next, Copying

(* No approval is forgotten.                                               *)
LEMMA ApprovedGrows ==
  ASSUME Next
  PROVE  approved \subseteq approved'
<1> USE DEF history
<1>1. ASSUME NEW f \in Files, FileRoute(f) PROVE approved \subseteq approved'
  BY <1>1 DEF FileRoute, Reject, MoveToFolder, Approve, Reconsider, DeleteFile,
              EditMetadata, UploadFile, SetStatus
<1>2. CASE Copying
  BY <1>2, CopyingCases DEF OnlyCopies, CommitCopy
<1>3. ASSUME NEW t \in Tasks, TaskStep(t) PROVE approved \subseteq approved'
  BY <1>3 DEF TaskStep, ReadRow, Judge, Enrich, RouteUpload, RejectUpload, PutObject,
              DeleteOldObject, SaveKey, RemoveObject, WriteStatus, SetStatus
<1>4. CASE RunStep \/ Crash \/ \E d \in 1 .. MaxDate : CheckVersion(d)
  BY <1>4 DEF RunStep, CleanUp, ExtractFile, ExtractNothing, StoreNew, CommitRun, AbortRun,
              Crash, CheckVersion
<1> QED BY <1>1, <1>2, <1>3, <1>4, NextCases

(* What a request to copy has read as approved was approved.               *)
LEMMA NextCopiesApproved ==
  ASSUME TypeOK, ApprovalInv, Next
  PROVE  CopiesApproved'
<1>1. approved \subseteq approved'
  BY ApprovedGrows
<1> SUFFICES ASSUME NEW c \in Clients, copy'[c].status = "approved"
             PROVE  copy'[c].of \in approved'
  BY DEF CopiesApproved
<1>2. CASE copy'[c] = copy[c]
  BY <1>1, <1>2 DEF ApprovalInv, CopiesApproved
<1>3. ASSUME NEW b \in Clients, NEW f \in Files, ReadForCopy(b, f), copy'[c] # copy[c]
      PROVE  copy'[c].of \in approved'
  <2>1. copy'[c] = [of |-> f, status |-> status[f], s3Key |-> s3Key[f]]
    BY <1>3 DEF ReadForCopy, TypeOK
  <2>2. copy'[c].of = f /\ status[f] = "approved"
    BY <2>1
  <2> QED BY <1>1, <2>2 DEF ApprovalInv, RowsApproved
<1>4. ASSUME NEW b \in Clients, CopyStep(b), copy'[c] # copy[c]
      PROVE  FALSE
  <2>1. copy' = [copy EXCEPT ![b] = NoCopy]
    BY <1>4 DEF CopyStep, CommitCopy, AbortCopy
  <2>2. copy'[c] = NoCopy
    BY <1>4, <2>1 DEF TypeOK
  <2> QED BY <2>2 DEF NoCopy
<1>5. CASE Crash
  BY <1>5 DEF Crash, NoCopy
<1> QED BY <1>2, <1>3, <1>4, <1>5, NextCases DEF Copying

LEMMA NextApproved ==
  ASSUME TypeOK, ApprovalInv, [Next]_vars
  PROVE  ApprovalInv'
<1>1. CASE UNCHANGED vars
  BY <1>1 DEF vars, fileRows, history, ApprovalInv, PublishedWasApproved, RowsApproved,
              TasksApproved, CopiesApproved, RunApproved, Publishing
<1>2. CASE Next
  <2>1. StoredApproved
    BY DEF ApprovalInv, StoredApproved
  <2>2. StoredApproved'
    BY <1>2, <2>1, NextCases, RouteApproved, CopyingApproved, TaskStepApproved, RunStepApproved
  <2> QED BY <1>2, <2>2, NextCopiesApproved DEF ApprovalInv, StoredApproved
<1> QED BY <1>1, <1>2

(* Nothing is published without an approval, whatever requests, background *)
(* tasks, runs, S3 errors and crashes interleave.                          *)
THEOREM OnlyApprovedIsPublished == Spec => []PublishedWasApproved
<1>1. Init => ApprovalInv
  BY DEF Init, ApprovalInv, PublishedWasApproved, RowsApproved, TasksApproved,
         CopiesApproved, RunApproved, Publishing, NoTask, NoCopy, NoRun, Unread
<1>2. TypeOK /\ ApprovalInv /\ [Next]_vars => ApprovalInv'
  BY NextApproved
<1>3. ApprovalInv => PublishedWasApproved
  BY DEF ApprovalInv
<1> QED BY <1>1, <1>2, <1>3, TypeCorrect, PTL DEF Spec

-----------------------------------------------------------------------------
(* Steps that keep dates, versions and the run, and bring no row back that *)
(* is not marked as revived, keep VersionsInv.                             *)
VersionsFixed == UNCHANGED <<date, versioned, run>>

LEMMA SetStatusVersions ==
  ASSUME TypeOK, VersionsInv, NEW f \in Files, NEW s \in RowState \ {"absent"},
         SetStatus(f, s), VersionsFixed, Exists(f) \/ status[f] = "absent"
  PROVE  VersionsInv'
<1>1. /\ status' = [status EXCEPT ![f] = s]
      /\ revived \subseteq revived'
      /\ status[f] = "superseded" /\ s # "superseded" => f \in revived'
  BY DEF SetStatus
<1>2. UNCHANGED <<date, versioned, run>>
  BY DEF VersionsFixed
<1>3. \A g \in Files : status'[g] = IF g = f THEN s ELSE status[g]
  BY <1>1 DEF TypeOK
<1>4. \A g \in Files : status'[g] = "absent" => g \notin versioned'
  BY <1>2, <1>3 DEF VersionsInv
<1>5. ASSUME NEW g \in Current', g \notin revived'
      PROVE  g \in Current \ revived
  <2>1. /\ g \in Files /\ g \in versioned /\ status'[g] \in FileStatus \ {"superseded"}
    BY <1>2, <1>5 DEF Current, Versions, Exists, TypeOK
  <2>2. CASE g = f
    <3>1. status[f] # "superseded"
      BY <1>1, <1>3, <1>5, <2>1, <2>2
    <3>2. status[f] # "absent"
      BY <2>1, <2>2 DEF VersionsInv
    <3>3. status[f] \in FileStatus
      BY <3>2 DEF Exists
    <3> QED BY <1>1, <1>5, <2>1, <2>2, <3>1, <3>3 DEF Current, Versions, Exists
  <2>3. CASE g # f
    BY <1>1, <1>3, <1>5, <2>1, <2>3 DEF Current, Versions, Exists
  <2> QED BY <2>2, <2>3
<1>6. run'.at # "idle" => \A g \in Current' \ revived' : date'[g] < run'.date
  BY <1>2, <1>5 DEF VersionsInv
<1>7. run'.new # None => status'[run'.new] = "uncommitted" /\ date'[run'.new] = run'.date
  <2>1. SUFFICES ASSUME run.new # None
        PROVE  status'[run.new] = "uncommitted" /\ date[run.new] = run.date
    BY <1>2
  <2>2. status[run.new] = "uncommitted" /\ date[run.new] = run.date
    BY <2>1 DEF VersionsInv
  <2>3. run.new # f
    BY <2>2 DEF Exists, FileStatus, Verdict
  <2>4. run.new \in Files
    BY <2>1, RunHolds
  <2> QED BY <1>3, <2>2, <2>3, <2>4
<1> QED BY <1>4, <1>6, <1>7 DEF VersionsInv

(* Steps that change no row, or only keys, keep VersionsInv.               *)
LEMMA RowsLeftVersions ==
  ASSUME VersionsInv, VersionsFixed, UNCHANGED <<status, revived>>
  PROVE  VersionsInv'
BY DEF VersionsInv, VersionsFixed, Current, Versions, Exists

LEMMA WriteStatusVersions ==
  ASSUME TypeOK, VersionsInv, NEW f \in Files, NEW read, NEW s \in RowState \ {"absent"},
         WriteStatus(f, read, s), VersionsFixed
  PROVE  VersionsInv'
<1>1. CASE Exists(f) /\ s # read
  <2>1. SetStatus(f, s)
    BY <1>1 DEF WriteStatus
  <2> QED BY <1>1, <2>1, SetStatusVersions
<1>2. CASE ~(Exists(f) /\ s # read)
  <2>1. UNCHANGED <<status, revived>>
    BY <1>2 DEF WriteStatus
  <2> QED BY <2>1, RowsLeftVersions
<1> QED BY <1>1, <1>2

(* A copy that counts as a version is as old as one that is current yet.   *)
LEMMA CommitCopyVersions ==
  ASSUME TypeOK, VersionsInv, NEW c \in Clients, NEW g \in Files,
         NEW k \in KeysFor[g], NEW t \in Tasks, CommitCopy(c, g, k, t)
  PROVE  VersionsInv'
<1> DEFINE f == copy[c].of
           s == copy[c].status
<1>0. f \in Files /\ s \in FileStatus
  BY CopyHolds DEF CommitCopy
<1>1. /\ status' = [status EXCEPT ![g] = s] /\ date' = [date EXCEPT ![g] = date[f]]
      /\ status[g] = "absent"
      /\ run' = run
  BY DEF CommitCopy
<1>2. /\ g \notin versioned
      /\ versioned' = IF f \in versioned THEN versioned \union {g} ELSE versioned
      /\ revived' = IF f \in revived \/ Outlived(copy[c]) THEN revived \union {g} ELSE revived
  BY DEF CommitCopy, VersionsInv
<1>9. s # "superseded" /\ ~Outlived(copy[c]) => Exists(f) /\ status[f] # "superseded"
  BY DEF Outlived
<1> HIDE DEF f, s
<1>3. \A h \in Files : /\ status'[h] = IF h = g THEN s ELSE status[h]
                       /\ date'[h] = IF h = g THEN date[f] ELSE date[h]
  BY <1>1 DEF TypeOK
<1>4. \A h \in Files : status'[h] = "absent" => h \notin versioned'
  <2> SUFFICES ASSUME NEW h \in Files, status'[h] = "absent" PROVE h \notin versioned'
    OBVIOUS
  <2>1. h # g
    BY <1>0, <1>3 DEF FileStatus, Verdict
  <2>2. h \notin versioned
    BY <1>3, <2>1 DEF VersionsInv
  <2> QED BY <1>2, <2>1, <2>2
<1>5. ASSUME NEW h \in Current', h \notin revived'
      PROVE  \E v \in Current \ revived : date'[h] = date[v]
  <2>1. h \in Files /\ h \in versioned' /\ status'[h] \in FileStatus \ {"superseded"}
    BY <1>2, <1>5 DEF Current, Versions, Exists, TypeOK
  <2>2. CASE h = g
    <3>1. f \in versioned /\ f \notin revived /\ ~Outlived(copy[c])
      BY <1>2, <1>5, <2>1, <2>2
    <3>2. f \in Current
      BY <1>3, <1>9, <2>1, <2>2, <3>1 DEF Current, Versions, Exists
    <3>3. date'[h] = date[f]
      BY <1>3, <2>2
    <3> QED BY <3>1, <3>2, <3>3
  <2>3. CASE h # g
    <3>1. h \in Current \ revived
      BY <1>2, <1>3, <1>5, <2>1, <2>3 DEF Current, Versions, Exists
    <3>2. date'[h] = date[h]
      BY <1>3, <2>1, <2>3
    <3> QED BY <3>1, <3>2
  <2> QED BY <2>2, <2>3
<1>6. run'.at # "idle" => \A h \in Current' \ revived' : date'[h] < run'.date
  BY <1>1, <1>5 DEF VersionsInv
<1>7. run'.new # None => status'[run'.new] = "uncommitted" /\ date'[run'.new] = run'.date
  <2>1. SUFFICES ASSUME run.new # None
        PROVE  status'[run.new] = "uncommitted" /\ date'[run.new] = run.date
    BY <1>1
  <2>2. status[run.new] = "uncommitted" /\ date[run.new] = run.date /\ run.new \in Files
    BY <2>1, RunHolds DEF VersionsInv
  <2>3. run.new # g
    BY <1>1, <2>2
  <2> QED BY <1>3, <2>2, <2>3
<1> QED BY <1>4, <1>6, <1>7 DEF VersionsInv

LEMMA CopyingVersions ==
  ASSUME TypeOK, VersionsInv, Copying
  PROVE  VersionsInv'
<1>1. CASE OnlyCopies
  BY <1>1, RowsLeftVersions DEF OnlyCopies, fileRows, history, VersionsFixed
<1> QED BY <1>1, CopyingCases, CommitCopyVersions

LEMMA RouteVersions ==
  ASSUME TypeOK, VersionsInv, NEW f \in Files, FileRoute(f)
  PROVE  VersionsInv'
<1>0. {"approved", "rejected", "pending_review", "gone"} \subseteq RowState \ {"absent"}
  BY DEF RowState, FileStatus, Verdict
<1>1. CASE Reject(f)
  BY <1>0, <1>1, SetStatusVersions DEF Reject, Writable, VersionsFixed
<1>2. ASSUME NEW k \in KeysFor[f], MoveToFolder(f, k) PROVE VersionsInv'
  BY <1>2, RowsLeftVersions DEF MoveToFolder, history, VersionsFixed
<1>3. ASSUME NEW t \in Tasks, Approve(f, t) PROVE VersionsInv'
  BY <1>0, <1>3, SetStatusVersions DEF Approve, Writable, VersionsFixed
<1>4. ASSUME NEW t \in Tasks, Reconsider(f, t) PROVE VersionsInv'
  BY <1>4, RowsLeftVersions DEF Reconsider, fileRows, VersionsFixed
<1>5. ASSUME NEW t \in Tasks, DeleteFile(f, t) PROVE VersionsInv'
  BY <1>0, <1>5, SetStatusVersions DEF DeleteFile, Writable, VersionsFixed
<1>6. ASSUME NEW t \in Tasks, NEW k \in KeysFor[f], EditMetadata(f, k, t)
      PROVE  VersionsInv'
  BY <1>6, RowsLeftVersions DEF EditMetadata, VersionsFixed
<1>7. ASSUME NEW t \in Tasks, NEW k \in KeysFor[f], UploadFile(f, k, t)
      PROVE  VersionsInv'
  BY <1>0, <1>7, SetStatusVersions DEF UploadFile, VersionsFixed
<1> QED BY <1>1, <1>2, <1>3, <1>4, <1>5, <1>6, <1>7 DEF FileRoute

LEMMA TaskStepVersions ==
  ASSUME TypeOK, VersionsInv, NEW t \in Tasks, TaskStep(t)
  PROVE  VersionsInv'
<1>0. /\ task[t].file \in Files
      /\ \A v \in Routed \union {"rejected"} : v \in RowState \ {"absent"}
  BY TaskHolds, RoutedIsVerdict DEF RowState, FileStatus, Verdict
<1>1. CASE ReadRow(t)
  BY <1>1, RowsLeftVersions DEF ReadRow, fileRows, history, VersionsFixed
<1>2. CASE Judge(t)
  BY <1>0, <1>2, WriteStatusVersions DEF Judge, VersionsFixed
<1>3. CASE Enrich(t)
  BY <1>3, RowsLeftVersions DEF Enrich, history, VersionsFixed
<1>4. CASE RouteUpload(t)
  BY <1>0, <1>4, WriteStatusVersions DEF RouteUpload, VersionsFixed
<1>5. CASE RejectUpload(t)
  BY <1>0, <1>5, WriteStatusVersions DEF RejectUpload, VersionsFixed
<1>6. CASE PutObject(t) \/ DeleteOldObject(t) \/ RemoveObject(t)
  BY <1>6, RowsLeftVersions DEF PutObject, DeleteOldObject, RemoveObject, fileRows, VersionsFixed
<1>7. CASE SaveKey(t)
  <2>1. VersionsFixed
    BY <1>7 DEF SaveKey, VersionsFixed
  <2>2. CASE WriteStatus(task[t].file, status[task[t].file], "rejected")
    BY <1>0, <2>1, <2>2, WriteStatusVersions
  <2>3. CASE UNCHANGED <<status, approved, revived>>
    BY <2>1, <2>3, RowsLeftVersions
  <2> QED BY <1>7, <2>2, <2>3 DEF SaveKey
<1> QED BY <1>1, <1>2, <1>3, <1>4, <1>5, <1>6, <1>7 DEF TaskStep

(* A run starts only past the newest current version.                      *)
LEMMA CheckVersionVersions ==
  ASSUME TypeOK, VersionsInv, NEW d \in 1 .. MaxDate, CheckVersion(d)
  PROVE  VersionsInv'
<1>1. PICK s \in SupersededBy(d) :
        run' = [NoRun EXCEPT !.at = "cleaning", !.date = d, !.old = s]
  BY DEF CheckVersion
<1>2. run'.date = d /\ run'.new = None
  BY <1>1 DEF NoRun
<1>3. UNCHANGED <<status, date, versioned, revived>>
  BY DEF CheckVersion, fileRows
<1>4. ASSUME NEW f \in Current PROVE date[f] < d
  <2>1. s \in Newest(Current) /\ date[s] < d
    BY <1>4 DEF SupersededBy
  <2>2. date[f] <= date[s] /\ s \in Files /\ f \in Files
    BY <1>4, <2>1 DEF Newest, Current, Versions, TypeOK
  <2>3. date[f] \in Int /\ date[s] \in Int /\ d \in Int
    BY <2>2 DEF TypeOK
  <2> QED BY <2>1, <2>2, <2>3
<1>5. Current' = Current
  BY <1>3 DEF Current, Versions, Exists
<1> QED BY <1>2, <1>3, <1>4, <1>5 DEF VersionsInv

LEMMA ExtractFileVersions ==
  ASSUME TypeOK, VersionsInv, NEW f \in Files, NEW k \in KeysFor[f],
         NEW v \in BOOLEAN, ExtractFile(f, k, v)
  PROVE  VersionsInv'
<1>1. PICK verdict \in Routed :
       run' = [run EXCEPT !.new = f, !.verdict = verdict,
                 !.at = IF verdict = "approved" THEN "storing" ELSE "committing"]
  BY DEF ExtractFile
<1>2. run'.new = f /\ run'.date = run.date /\ run.at # "idle"
  BY <1>1 DEF ExtractFile, TypeOK, Run
<1>3. \A g \in Files : /\ status'[g] = IF g = f THEN "uncommitted" ELSE status[g]
                       /\ date'[g] = IF g = f THEN run.date ELSE date[g]
  BY DEF ExtractFile, TypeOK
<1>4. versioned' \subseteq versioned \union {f} /\ revived' = revived
  BY DEF ExtractFile
<1>5. \A g \in Files : status'[g] = "absent" => g \notin versioned'
  BY <1>3, <1>4 DEF VersionsInv
<1>6. ASSUME NEW g \in Current' \ revived' PROVE date'[g] < run'.date
  <2>1. g \in versioned' /\ status'[g] \in FileStatus \ {"superseded"} /\ g \in Files
    BY <1>4, <1>6 DEF Current, Versions, Exists, TypeOK
  <2>2. g # f
    BY <1>3, <2>1 DEF FileStatus, Verdict
  <2>3. g \in Current \ revived
    BY <1>3, <1>4, <1>6, <2>1, <2>2 DEF Current, Versions, Exists
  <2> QED BY <1>2, <1>3, <2>1, <2>2, <2>3 DEF VersionsInv
<1> QED BY <1>2, <1>3, <1>5, <1>6 DEF VersionsInv

(* A run that goes on keeps its date and its row; one that ends has none.  *)
LEMMA RunStepVersions ==
  ASSUME TypeOK, VersionsInv, RunStep \/ Crash
  PROVE  VersionsInv'
<1>1. CASE CleanUp \/ ExtractNothing \/ StoreNew
  <2>1. /\ UNCHANGED <<status, date, versioned, revived>>
        /\ run.at # "idle" /\ \E at \in RunAt : run' = [run EXCEPT !.at = at]
    BY <1>1 DEF CleanUp, ExtractNothing, StoreNew, fileRows, history, RunAt
  <2>2. run'.new = run.new /\ run'.date = run.date
    BY <2>1 DEF TypeOK, Run
  <2>3. Current' = Current
    BY <2>1 DEF Current, Versions, Exists
  <2> QED BY <2>1, <2>2, <2>3 DEF VersionsInv
<1>2. ASSUME NEW f \in Files, NEW k \in KeysFor[f], NEW v \in BOOLEAN, ExtractFile(f, k, v)
      PROVE  VersionsInv'
  BY <1>2, ExtractFileVersions
<1>3. CASE CommitRun \/ AbortRun \/ Crash
  <2>1. run' = NoRun /\ UNCHANGED versioned
    BY <1>3 DEF CommitRun, AbortRun, Crash
  <2>2. run'.at = "idle" /\ run'.new = None
    BY <2>1 DEF NoRun
  <2>3. \A f \in Files : status'[f] = "absent" => status[f] = "absent"
    <3>1. run.verdict # "absent"
      BY RunHolds DEF Verdict
    <3> QED BY <1>3, <3>1 DEF CommitRun, AbortRun, Crash, Rollback
  <2> QED BY <2>1, <2>2, <2>3 DEF VersionsInv
<1> QED BY <1>1, <1>2, <1>3 DEF RunStep

LEMMA NextVersions ==
  ASSUME TypeOK, VersionsInv, [Next]_vars
  PROVE  VersionsInv'
<1>1. CASE UNCHANGED vars
  BY <1>1, RowsLeftVersions DEF vars, fileRows, history, VersionsFixed
<1>2. CASE Next
  BY <1>2, NextCases, RouteVersions, CopyingVersions, CheckVersionVersions, TaskStepVersions,
     RunStepVersions
<1> QED BY <1>1, <1>2

(* No run commits a version of the page next to one as new or newer: what  *)
(* it found at the version check still holds at its commit, whatever       *)
(* reviews, copies and deletions came in between.                          *)
THEOREM NoVersionGoesBack == Spec => VersionsAdvance
<1>1. Init => VersionsInv
  BY DEF Init, VersionsInv, NoRun
<1>2. TypeOK /\ VersionsInv /\ [Next]_vars => VersionsInv'
  BY NextVersions
<1>3. VersionsInv /\ CommitRun /\ run.new # None
        => \A f \in Current \ revived : date[f] < date[run.new]
  BY DEF VersionsInv, CommitRun
<1> QED BY <1>1, <1>2, <1>3, TypeCorrect, PTL DEF Spec, VersionsAdvance

-----------------------------------------------------------------------------
(* A step that leaves the run alone, takes what it supersedes out of       *)
(* nothing and adds only revived versions keeps ReplacingInv.              *)
OldStays == run.old \in Current => run.old \in Current'
OnlyRevivedJoin == revived \subseteq revived' /\ Current' \subseteq Current \union revived'

LEMMA ReviewsReplace ==
  ASSUME ReplacingInv, UNCHANGED run, OldStays, OnlyRevivedJoin
  PROVE  ReplacingInv'
BY DEF ReplacingInv, OldStays, OnlyRevivedJoin

LEMMA RowsLeftReplacing ==
  ASSUME ReplacingInv, VersionsFixed, UNCHANGED <<status, revived>>
  PROVE  ReplacingInv'
BY DEF ReplacingInv, VersionsFixed, Current, Versions, Exists

LEMMA SetStatusReplacing ==
  ASSUME TypeOK, VersionsInv, ReplacingInv, NEW f \in Files, NEW s \in RowState \ {"absent"},
         SetStatus(f, s), VersionsFixed, Writable(f) \/ status[f] = "absent"
  PROVE  ReplacingInv'
<1>1. /\ status' = [status EXCEPT ![f] = s]
      /\ revived \subseteq revived'
      /\ status[f] = "superseded" /\ s # "superseded" => f \in revived'
  BY DEF SetStatus
<1>2. UNCHANGED <<date, versioned, run>>
  BY DEF VersionsFixed
<1>3. \A g \in Files : status'[g] = IF g = f THEN s ELSE status[g]
  BY <1>1 DEF TypeOK
<1>4. ASSUME NEW g \in Current', g \notin revived'
      PROVE  g \in Current
  <2>1. /\ g \in Files /\ g \in versioned /\ status'[g] \in FileStatus \ {"superseded"}
    BY <1>2, <1>4 DEF Current, Versions, Exists, TypeOK
  <2>2. CASE g = f
    <3>1. status[f] # "superseded"
      BY <1>1, <1>3, <1>4, <2>1, <2>2
    <3>2. status[f] # "absent"
      BY <2>1, <2>2 DEF VersionsInv
    <3>3. status[f] \in FileStatus
      BY <3>2 DEF Writable, Exists
    <3> QED BY <2>1, <2>2, <3>1, <3>3 DEF Current, Versions, Exists
  <2>3. CASE g # f
    BY <1>3, <2>1, <2>3 DEF Current, Versions, Exists
  <2> QED BY <2>2, <2>3
<1>5. OldStays
  <2> SUFFICES ASSUME run.old \in Current PROVE run.old \in Current'
    BY DEF OldStays
  <2>1. run.old # f
    <3>1. status[run.old] # "absent"
      BY DEF Current, Versions, Exists, FileStatus, Verdict
    <3> QED BY <3>1 DEF Writable
  <2>2. run.old \in Files
    BY DEF Current, Versions, TypeOK
  <2> QED BY <1>2, <1>3, <2>1, <2>2 DEF Current, Versions, Exists
<1>6. OnlyRevivedJoin
  BY <1>1, <1>4 DEF OnlyRevivedJoin
<1> QED BY <1>2, <1>5, <1>6, ReviewsReplace

LEMMA WriteStatusReplacing ==
  ASSUME TypeOK, VersionsInv, ReplacingInv, NEW f \in Files, NEW read,
         NEW s \in RowState \ {"absent"}, WriteStatus(f, read, s), VersionsFixed,
         f # run.old
  PROVE  ReplacingInv'
<1>1. CASE Exists(f) /\ s # read
  <2>1. SetStatus(f, s) /\ Writable(f)
    BY <1>1 DEF WriteStatus, Writable
  <2> QED BY <2>1, SetStatusReplacing
<1>2. CASE ~(Exists(f) /\ s # read)
  <2>1. UNCHANGED <<status, revived>>
    BY <1>2 DEF WriteStatus
  <2> QED BY <2>1, RowsLeftReplacing
<1> QED BY <1>1, <1>2

(* A copy that counts as a version is one more only while what it was read *)
(* from is current, too.                                                   *)
LEMMA CommitCopyReplacing ==
  ASSUME TypeOK, VersionsInv, ReplacingInv, NEW c \in Clients, NEW g \in Files,
         NEW k \in KeysFor[g], NEW t \in Tasks, CommitCopy(c, g, k, t)
  PROVE  ReplacingInv'
<1> DEFINE f == copy[c].of
           s == copy[c].status
<1>0. f \in Files /\ s \in FileStatus
  BY CopyHolds DEF CommitCopy
<1>1. /\ status' = [status EXCEPT ![g] = s]
      /\ status[g] = "absent"
      /\ run' = run
  BY DEF CommitCopy
<1>2. /\ g \notin versioned
      /\ versioned' = IF f \in versioned THEN versioned \union {g} ELSE versioned
      /\ revived' = IF f \in revived \/ Outlived(copy[c]) THEN revived \union {g} ELSE revived
  BY <1>1 DEF CommitCopy, VersionsInv
<1>8. s # "superseded" /\ ~Outlived(copy[c]) => Exists(f) /\ status[f] # "superseded"
  BY DEF Outlived
<1> HIDE DEF f, s
<1>3. \A h \in Files : status'[h] = IF h = g THEN s ELSE status[h]
  BY <1>1 DEF TypeOK
<1>4. Current \subseteq Current'
  <2> SUFFICES ASSUME NEW h \in Current PROVE h \in Current'
    OBVIOUS
  <2>1. h \in Files /\ h \in versioned /\ h # g
    BY <1>2 DEF Current, Versions, TypeOK
  <2> QED BY <1>2, <1>3, <2>1 DEF Current, Versions, Exists
<1>5. ASSUME NEW h \in Current'
      PROVE  h \in Current \union revived' \/ (h = g /\ f \in Current)
  <2>1. h \in Files /\ h \in versioned' /\ status'[h] \in FileStatus \ {"superseded"}
    BY <1>2, <1>5 DEF Current, Versions, Exists, TypeOK
  <2>2. CASE h = g /\ ~Outlived(copy[c])
    <3>1. f \in versioned
      BY <1>2, <2>1, <2>2
    <3> QED BY <1>3, <1>8, <2>1, <2>2, <3>1 DEF Current, Versions, Exists
  <2>3. CASE h = g /\ Outlived(copy[c])
    BY <1>2, <2>3
  <2>4. CASE h # g
    BY <1>2, <1>3, <2>1, <2>4 DEF Current, Versions, Exists
  <2> QED BY <2>2, <2>3, <2>4
<1>6. run.old # None => run'.old \in Current'
  BY <1>1, <1>4 DEF ReplacingInv
<1>7. run.at # "idle" /\ run.old = None => Current' \subseteq revived'
  BY <1>2, <1>5 DEF ReplacingInv
<1> QED BY <1>1, <1>6, <1>7 DEF ReplacingInv

LEMMA CopyingReplacing ==
  ASSUME TypeOK, VersionsInv, ReplacingInv, Copying
  PROVE  ReplacingInv'
<1>1. CASE OnlyCopies
  BY <1>1, RowsLeftReplacing DEF OnlyCopies, fileRows, history, VersionsFixed
<1> QED BY <1>1, CopyingCases, CommitCopyReplacing

LEMMA RouteReplacing ==
  ASSUME TypeOK, VersionsInv, ReplacingInv, NEW f \in Files, FileRoute(f)
  PROVE  ReplacingInv'
<1>0. {"approved", "rejected", "pending_review", "gone"} \subseteq RowState \ {"absent"}
  BY DEF RowState, FileStatus, Verdict
<1>1. CASE Reject(f)
  BY <1>0, <1>1, SetStatusReplacing DEF Reject, VersionsFixed
<1>2. ASSUME NEW k \in KeysFor[f], MoveToFolder(f, k) PROVE ReplacingInv'
  BY <1>2, RowsLeftReplacing DEF MoveToFolder, history, VersionsFixed
<1>3. ASSUME NEW t \in Tasks, Approve(f, t) PROVE ReplacingInv'
  BY <1>0, <1>3, SetStatusReplacing DEF Approve, VersionsFixed
<1>4. ASSUME NEW t \in Tasks, Reconsider(f, t) PROVE ReplacingInv'
  BY <1>4, RowsLeftReplacing DEF Reconsider, fileRows, VersionsFixed
<1>5. ASSUME NEW t \in Tasks, DeleteFile(f, t) PROVE ReplacingInv'
  BY <1>0, <1>5, SetStatusReplacing DEF DeleteFile, VersionsFixed
<1>6. ASSUME NEW t \in Tasks, NEW k \in KeysFor[f], EditMetadata(f, k, t)
      PROVE  ReplacingInv'
  BY <1>6, RowsLeftReplacing DEF EditMetadata, VersionsFixed
<1>7. ASSUME NEW t \in Tasks, NEW k \in KeysFor[f], UploadFile(f, k, t)
      PROVE  ReplacingInv'
  BY <1>0, <1>7, SetStatusReplacing DEF UploadFile, VersionsFixed
<1> QED BY <1>1, <1>2, <1>3, <1>4, <1>5, <1>6, <1>7 DEF FileRoute

LEMMA TaskStepReplacing ==
  ASSUME TypeOK, VersionsInv, ReplacingInv, NEW t \in Tasks, TaskStep(t)
  PROVE  ReplacingInv'
<1>0. /\ task[t].file \in Files
      /\ \A v \in Routed \union {"rejected"} : v \in RowState \ {"absent"}
  BY TaskHolds, RoutedIsVerdict DEF RowState, FileStatus, Verdict
<1>1. CASE ReadRow(t)
  BY <1>1, RowsLeftReplacing DEF ReadRow, fileRows, history, VersionsFixed
<1>2. CASE Judge(t)
  BY <1>0, <1>2, WriteStatusReplacing DEF Judge, VersionsFixed
<1>3. CASE Enrich(t)
  BY <1>3, RowsLeftReplacing DEF Enrich, history, VersionsFixed
<1>4. CASE RouteUpload(t)
  BY <1>0, <1>4, WriteStatusReplacing DEF RouteUpload, VersionsFixed
<1>5. CASE RejectUpload(t)
  BY <1>0, <1>5, WriteStatusReplacing DEF RejectUpload, VersionsFixed
<1>6. CASE PutObject(t) \/ DeleteOldObject(t) \/ RemoveObject(t)
  BY <1>6, RowsLeftReplacing DEF PutObject, DeleteOldObject, RemoveObject, fileRows,
                                 VersionsFixed
<1>7. CASE SaveKey(t)
  <2>1. VersionsFixed /\ task[t].file # run.old
    BY <1>7 DEF SaveKey, VersionsFixed
  <2>2. CASE WriteStatus(task[t].file, status[task[t].file], "rejected")
    BY <1>0, <2>1, <2>2, WriteStatusReplacing
  <2>3. CASE UNCHANGED <<status, approved, revived>>
    BY <2>1, <2>3, RowsLeftReplacing
  <2> QED BY <1>7, <2>2, <2>3 DEF SaveKey
<1> QED BY <1>1, <1>2, <1>3, <1>4, <1>5, <1>6, <1>7 DEF TaskStep

(* A run supersedes a current version if there is one.                     *)
LEMMA CheckVersionReplacing ==
  ASSUME TypeOK, NEW d \in 1 .. MaxDate, CheckVersion(d)
  PROVE  ReplacingInv'
<1>1. PICK f \in SupersededBy(d) :
        run' = [NoRun EXCEPT !.at = "cleaning", !.date = d, !.old = f]
  BY DEF CheckVersion
<1>2. run'.old = f
  BY <1>1 DEF NoRun
<1>3. Current' = Current
  BY DEF CheckVersion, fileRows, Current, Versions, Exists
<1>4. CASE Current = {}
  <2>1. f = None
    BY <1>1, <1>4 DEF SupersededBy
  <2> QED BY <1>2, <1>3, <1>4, <2>1 DEF ReplacingInv
<1>5. CASE Current # {}
  <2>1. f \in Current
    BY <1>1, <1>5 DEF SupersededBy, Newest
  <2>2. f # None
    BY <2>1, NoneAssumption DEF Current, Versions, TypeOK
  <2> QED BY <1>2, <1>3, <2>1, <2>2 DEF ReplacingInv
<1> QED BY <1>4, <1>5

(* The file a run creates is nobody's version before the commit.           *)
LEMMA ExtractFileReplacing ==
  ASSUME TypeOK, VersionsInv, ReplacingInv, NEW f \in Files, NEW k \in KeysFor[f],
         NEW v \in BOOLEAN, ExtractFile(f, k, v)
  PROVE  ReplacingInv'
<1>1. PICK verdict \in Routed :
       run' = [run EXCEPT !.new = f, !.verdict = verdict,
                 !.at = IF verdict = "approved" THEN "storing" ELSE "committing"]
  BY DEF ExtractFile
<1>2. run'.old = run.old /\ run.at # "idle"
  BY <1>1 DEF ExtractFile, TypeOK, Run
<1>3. \A g \in Files : status'[g] = IF g = f THEN "uncommitted" ELSE status[g]
  BY DEF ExtractFile, TypeOK
<1>4. /\ versioned \subseteq versioned' /\ versioned' \subseteq versioned \union {f}
      /\ revived' = revived /\ status[f] = "absent"
  BY DEF ExtractFile
<1>5. Current' = Current
  <2>1. ASSUME NEW g \in Files PROVE g \in Current' <=> g \in Current
    <3>1. CASE g = f
      <4>1. status[g] = "absent" /\ status'[g] = "uncommitted"
        BY <1>3, <1>4, <3>1
      <4> QED BY <4>1 DEF Current, Versions, FileStatus, Verdict
    <3>2. CASE g # f
      BY <1>3, <1>4, <3>2 DEF Current, Versions, Exists
    <3> QED BY <3>1, <3>2
  <2>2. Current' \subseteq Files /\ Current \subseteq Files
    BY <1>4 DEF Current, Versions, TypeOK
  <2> QED BY <2>1, <2>2
<1> QED BY <1>2, <1>4, <1>5 DEF ReplacingInv

LEMMA RunStepReplacing ==
  ASSUME TypeOK, VersionsInv, ReplacingInv, RunStep \/ Crash
  PROVE  ReplacingInv'
<1>1. CASE CleanUp \/ ExtractNothing \/ StoreNew
  <2>1. /\ UNCHANGED <<status, date, versioned, revived>>
        /\ run.at # "idle" /\ \E at \in RunAt : run' = [run EXCEPT !.at = at]
    BY <1>1 DEF CleanUp, ExtractNothing, StoreNew, fileRows, history, RunAt
  <2>2. run'.old = run.old
    BY <2>1 DEF TypeOK, Run
  <2>3. Current' = Current
    BY <2>1 DEF Current, Versions, Exists
  <2> QED BY <2>1, <2>2, <2>3 DEF ReplacingInv
<1>2. ASSUME NEW f \in Files, NEW k \in KeysFor[f], NEW v \in BOOLEAN, ExtractFile(f, k, v)
      PROVE  ReplacingInv'
  BY <1>2, ExtractFileReplacing
<1>3. CASE CommitRun \/ AbortRun \/ Crash
  <2>1. run'.at = "idle" /\ run'.old = None
    BY <1>3 DEF CommitRun, AbortRun, Crash, NoRun
  <2> QED BY <2>1 DEF ReplacingInv
<1> QED BY <1>1, <1>2, <1>3 DEF RunStep

LEMMA NextReplacing ==
  ASSUME TypeOK, VersionsInv, ReplacingInv, [Next]_vars
  PROVE  ReplacingInv'
<1>1. CASE UNCHANGED vars
  BY <1>1, RowsLeftReplacing DEF vars, fileRows, history, VersionsFixed
<1>2. CASE Next
  BY <1>2, NextCases, RouteReplacing, CopyingReplacing, CheckVersionReplacing,
     TaskStepReplacing, RunStepReplacing
<1> QED BY <1>1, <1>2

(* What a commit does to the versions: the old one leaves, the new one     *)
(* joins if it goes by the URL of the page, and no other does either.      *)
LEMMA CommitReplaces ==
  ASSUME TypeOK, VersionsInv, CommitRun
  PROVE  Current' = (Current \ {run.old}) \union (versioned \intersect {run.new})
<1>1. /\ versioned' = versioned /\ versioned \subseteq Files
      /\ \A f \in Files : status'[f] = IF f = run.new THEN run.verdict
                                       ELSE IF f = run.old THEN "superseded" ELSE status[f]
  BY DEF CommitRun, TypeOK
<1>2. run.verdict \in FileStatus \ {"superseded"}
  BY RunHolds DEF FileStatus, Verdict
<1>3. run.new \in Files => run.new # None
  BY NoneAssumption
<1>4. ASSUME NEW f \in Files
      PROVE  f \in Current' <=> f \in (Current \ {run.old}) \union (versioned \intersect {run.new})
  <2>1. CASE f = run.new
    <3>1. status[f] = "uncommitted"
      BY <1>3, <2>1 DEF VersionsInv
    <3>2. f \notin Current
      BY <3>1 DEF Current, Versions, Exists, FileStatus, Verdict
    <3>3. status'[f] = run.verdict
      BY <1>1, <2>1
    <3>4. f \in Current' <=> f \in versioned
      BY <1>1, <1>2, <3>3 DEF Current, Versions, Exists
    <3> QED BY <2>1, <3>2, <3>4
  <2>2. CASE f # run.new /\ f = run.old
    <3>1. status'[f] = "superseded"
      BY <1>1, <2>2
    <3>2. f \notin Current'
      BY <3>1 DEF Current, Versions
    <3> QED BY <2>2, <3>2
  <2>3. CASE f # run.new /\ f # run.old
    <3>1. status'[f] = status[f]
      BY <1>1, <2>3
    <3>2. f \in Current' <=> f \in Current
      BY <1>1, <3>1 DEF Current, Versions, Exists
    <3> QED BY <2>3, <3>2
  <2> QED BY <2>1, <2>2, <2>3
<1>5. Current' \subseteq Files /\ Current \subseteq Files
  BY <1>1 DEF Current, Versions
<1> QED BY <1>1, <1>4, <1>5

(* Runs never add to the current versions of the page: each puts its file  *)
(* in the place of the version it found, which reviews, copies, deletions  *)
(* and background tasks could not take away in between.                    *)
THEOREM RunsReplaceVersions == Spec => VersionsReplaced
<1>1. Init => VersionsInv /\ ReplacingInv
  BY DEF Init, VersionsInv, ReplacingInv, NoRun
<1>2. TypeOK /\ VersionsInv /\ ReplacingInv /\ [Next]_vars => VersionsInv' /\ ReplacingInv'
  BY NextVersions, NextReplacing
<1> DEFINE stored == versioned \intersect {run.new}
           Replaced == \/ Current \subseteq revived /\ Current' = Current \union stored
                       \/ \E f \in Current : Current' = (Current \ {f}) \union stored
<1>3. ASSUME TypeOK, VersionsInv, ReplacingInv, CommitRun PROVE Replaced
  <2>1. Current' = (Current \ {run.old}) \union stored
    BY <1>3, CommitReplaces
  <2>2. CASE run.old = None
    <3>1. None \notin Current
      BY <1>3, NoneAssumption DEF Current, Versions, TypeOK
    <3>2. Current \subseteq revived
      BY <1>3, <2>2 DEF ReplacingInv, CommitRun
    <3>3. Current \ {run.old} = Current
      BY <2>2, <3>1
    <3> QED BY <2>1, <3>2, <3>3
  <2>3. CASE run.old # None
    <3>1. run.old \in Current
      BY <1>3, <2>3 DEF ReplacingInv
    <3> QED BY <2>1, <3>1
  <2> QED BY <2>2, <2>3
<1>4. TypeOK /\ VersionsInv /\ ReplacingInv => [CommitRun => Replaced]_vars
  BY <1>3
<1> QED BY <1>1, <1>2, <1>4, TypeCorrect, PTL DEF Spec, VersionsReplaced
-----------------------------------------------------------------------------
(* Rows and tasks deal in the keys of their file.                          *)
RowsOwned == \A f \in Files : keyOf[f] \in KeysFor[f] /\ s3Key[f] \in KeysFor[f] \union {None}

TasksOwned == \A t \in Tasks : TaskOwned(task[t])

LEMMA NoTaskOwned == TaskOwned(NoTask)
BY IdleTyped DEF TaskOwned, NoTask

LEMMA TaskChangeOwned ==
  ASSUME TypeOK, TasksOwned, NEW t \in Tasks, NEW r,
         task' = [task EXCEPT ![t] = r], TaskOwned(r)
  PROVE  TasksOwned'
<1>1. \A u \in Tasks : task'[u] = IF u = t THEN r ELSE task[u]
  BY DEF TypeOK
<1>2. ASSUME NEW u \in Tasks PROVE TaskOwned(task'[u])
  BY <1>1, <1>2 DEF TasksOwned
<1> QED BY <1>2 DEF TasksOwned, TaskOwned

LEMMA DoneOwned ==
  ASSUME TypeOK, TasksOwned, NEW t \in Tasks, Done(t)
  PROVE  TasksOwned'
BY NoTaskOwned, TaskChangeOwned DEF Done

LEMMA ScheduleOwned ==
  ASSUME TypeOK, TasksOwned, NEW t \in Tasks, NEW op \in Operation, NEW f \in Files,
         NEW key \in KeysFor[f] \union {None}, Schedule(t, op, f, key)
  PROVE  TasksOwned'
<1> DEFINE r == [at |-> FirstStep(op), op |-> op, file |-> f, old |-> key, seen |-> Unread]
<1>1. /\ FirstStep(op) \in {"removing", "enriching", "reading"}
      /\ FirstStep(op) = "removing" <=> op = "remove"
      /\ op = "qa" => FirstStep(op) = "reading"
  BY DEF FirstStep, Operation
<1>2. task' = [task EXCEPT ![t] = r]
  BY DEF Schedule
<1>3. r.at = FirstStep(op) /\ r.op = op /\ r.file = f /\ r.old = key
  OBVIOUS
<1> HIDE DEF r
<1>4. TaskOwned(r)
  BY <1>1, <1>3 DEF TaskOwned
<1> QED BY <1>2, <1>4, TaskChangeOwned

LEMMA StepOwned ==
  ASSUME TypeOK, TasksOwned, NEW t \in Tasks, NEW at, NEW seen, Step(t, at, seen),
         at \notin {"idle", "removing"}, task[t].op # "remove",
         task[t].op = "qa" <=> at = "judging",
         at \in {"putting", "deleting", "saving"} => seen.key \in KeysFor[task[t].file]
  PROVE  TasksOwned'
<1> DEFINE r == [at |-> at, op |-> task[t].op, file |-> task[t].file,
                 old |-> task[t].old, seen |-> seen]
<1>1. task' = [task EXCEPT ![t] = r]
  BY DEF Step
<1>2. /\ r.at = at /\ r.op = task[t].op /\ r.file = task[t].file
      /\ r.old = task[t].old /\ r.seen = seen
  OBVIOUS
<1> HIDE DEF r
<1>3. TaskOwned(task[t])
  BY DEF TasksOwned
<1>4. TaskOwned(r)
  BY <1>2, <1>3 DEF TaskOwned
<1> QED BY <1>1, <1>4, TaskChangeOwned

(* A row gets the keys its fields may give.                                *)
LEMMA NewKeyOwned ==
  ASSUME TypeOK, RowsOwned, NEW f \in Files, NEW k \in KeysFor[f],
         \/ keyOf' = [keyOf EXCEPT ![f] = k] /\ UNCHANGED s3Key
         \/ s3Key' = [s3Key EXCEPT ![f] = k] /\ UNCHANGED keyOf
  PROVE  RowsOwned'
BY DEF TypeOK, RowsOwned

LEMMA RouteOwned ==
  ASSUME TypeOK, KeysOwned, NEW f \in Files, FileRoute(f)
  PROVE  RowsOwned' /\ TasksOwned'
<1> USE DEF Operation
<1>0. RowsOwned /\ TasksOwned /\ s3Key[f] \in KeysFor[f] \union {None}
  BY DEF KeysOwned, RowsOwned, TasksOwned
<1>1. CASE Reject(f)
  BY <1>0, <1>1 DEF Reject, RowsOwned, TasksOwned
<1>2. ASSUME NEW k \in KeysFor[f], MoveToFolder(f, k) PROVE RowsOwned' /\ TasksOwned'
  BY <1>0, <1>2, NewKeyOwned DEF MoveToFolder, TasksOwned
<1>3. ASSUME NEW t \in Tasks, Approve(f, t) PROVE RowsOwned' /\ TasksOwned'
  BY <1>0, <1>3, ScheduleOwned DEF Approve, RowsOwned
<1>4. ASSUME NEW t \in Tasks, Reconsider(f, t) PROVE RowsOwned' /\ TasksOwned'
  BY <1>0, <1>4, ScheduleOwned DEF Reconsider, RowsOwned, fileRows
<1>5. ASSUME NEW t \in Tasks, DeleteFile(f, t) PROVE RowsOwned' /\ TasksOwned'
  <2>1. RowsOwned'
    BY <1>0, <1>5 DEF DeleteFile, RowsOwned
  <2>2. CASE Schedule(t, "remove", f, s3Key[f])
    BY <1>0, <2>1, <2>2, ScheduleOwned
  <2>3. CASE UNCHANGED task
    BY <1>0, <2>1, <2>3 DEF TasksOwned
  <2> QED BY <1>5, <2>2, <2>3 DEF DeleteFile
<1>6. ASSUME NEW t \in Tasks, NEW k \in KeysFor[f], EditMetadata(f, k, t)
      PROVE  RowsOwned' /\ TasksOwned'
  <2>1. RowsOwned'
    BY <1>0, <1>6, NewKeyOwned DEF EditMetadata
  <2>2. CASE Schedule(t, "recompute", f, s3Key[f])
    BY <1>0, <2>1, <2>2, ScheduleOwned
  <2>3. CASE UNCHANGED task
    BY <1>0, <2>1, <2>3 DEF TasksOwned
  <2> QED BY <1>6, <2>2, <2>3 DEF EditMetadata
<1>7. ASSUME NEW t \in Tasks, NEW k \in KeysFor[f], UploadFile(f, k, t)
      PROVE  RowsOwned' /\ TasksOwned'
  BY <1>0, <1>7, NewKeyOwned, ScheduleOwned DEF UploadFile
<1> QED BY <1>1, <1>2, <1>3, <1>4, <1>5, <1>6, <1>7 DEF FileRoute

LEMMA CopyingOwned ==
  ASSUME TypeOK, KeysOwned, Copying
  PROVE  RowsOwned' /\ TasksOwned'
<1>0. RowsOwned /\ TasksOwned
  BY DEF KeysOwned, RowsOwned, TasksOwned
<1>1. CASE OnlyCopies
  BY <1>0, <1>1 DEF OnlyCopies, fileRows, RowsOwned, TasksOwned
<1>2. ASSUME NEW c \in Clients, NEW g \in Files, NEW t \in Tasks, NEW k \in KeysFor[g],
             CommitCopy(c, g, k, t)
      PROVE  RowsOwned' /\ TasksOwned'
  <2>1. RowsOwned'
    BY <1>0, <1>2, NewKeyOwned DEF CommitCopy
  <2>2. CASE Schedule(t, "upload", g, None)
    BY <1>0, <2>1, <2>2, ScheduleOwned DEF Operation
  <2>3. CASE UNCHANGED task
    BY <1>0, <2>1, <2>3 DEF TasksOwned
  <2> QED BY <1>2, <2>2, <2>3 DEF CommitCopy
<1> QED BY <1>1, <1>2, CopyingCases

LEMMA TaskStepOwned ==
  ASSUME TypeOK, KeysOwned, NEW t \in Tasks, TaskStep(t)
  PROVE  RowsOwned' /\ TasksOwned'
<1> DEFINE f == task[t].file
           seen == task[t].seen
<1>0. RowsOwned /\ TasksOwned /\ TaskOwned(task[t])
  BY DEF KeysOwned, RowsOwned, TasksOwned
<1>1. f \in Files /\ keyOf[f] \in KeysFor[f] /\ Row(f).key = keyOf[f]
  BY <1>0, TaskHolds DEF RowsOwned, Row
<1>2. /\ task[t].at \in {"enriching", "routing", "putting", "deleting", "saving"} =>
           task[t].op \notin {"qa", "remove"}
      /\ task[t].at = "reading" => task[t].op # "remove"
      /\ task[t].at \in {"putting", "deleting", "saving"} => seen.key \in KeysFor[f]
  BY <1>0 DEF TaskOwned
<1> HIDE DEF f, seen
<1>3. CASE ReadRow(t)
  <2>1. RowsOwned'
    BY <1>0, <1>3 DEF ReadRow, fileRows, RowsOwned
  <2>2. CASE Exists(f)
    <3>1. Step(t, IF task[t].op = "qa" THEN "judging" ELSE "putting", Row(f))
      BY <1>3, <2>2 DEF ReadRow, f
    <3>2. task[t].op # "remove"
      BY <1>2, <1>3 DEF ReadRow
    <3> QED BY <1>0, <1>1, <2>1, <3>1, <3>2, StepOwned DEF f
  <2>3. CASE ~Exists(f)
    BY <1>0, <1>3, <2>1, <2>3, DoneOwned DEF ReadRow, f
  <2> QED BY <2>2, <2>3
<1>4. CASE Judge(t) \/ RejectUpload(t) \/ RemoveObject(t)
  BY <1>0, <1>4, DoneOwned DEF Judge, RejectUpload, RemoveObject, fileRows, RowsOwned
<1>5. CASE Enrich(t)
  <2>1. CASE Exists(f)
    <3>1. PICK k \in KeysFor[f] : /\ keyOf' = [keyOf EXCEPT ![f] = k]
                                  /\ Step(t, "routing", [Row(f) EXCEPT !.key = k])
      BY <1>5, <2>1 DEF Enrich, f
    <3>2. RowsOwned'
      BY <1>0, <1>1, <1>5, <3>1, NewKeyOwned DEF Enrich
    <3>3. task[t].op \notin {"qa", "remove"}
      BY <1>2, <1>5 DEF Enrich
    <3> QED BY <1>0, <3>1, <3>2, <3>3, StepOwned
  <2>2. CASE ~Exists(f)
    BY <1>0, <1>5, <2>2, DoneOwned DEF Enrich, f, RowsOwned
  <2> QED BY <2>1, <2>2
<1>6. CASE RouteUpload(t)
  <2>1. RowsOwned'
    BY <1>0, <1>6 DEF RouteUpload, RowsOwned
  <2>2. CASE Step(t, "putting", Row(f))
    <3>1. task[t].op \notin {"qa", "remove"}
      BY <1>2, <1>6 DEF RouteUpload
    <3> QED BY <1>0, <1>1, <2>1, <2>2, <3>1, StepOwned DEF f
  <2>3. CASE Done(t)
    BY <1>0, <2>1, <2>3, DoneOwned
  <2> QED BY <1>6, <2>2, <2>3 DEF RouteUpload, f
<1>7. CASE PutObject(t)
  <2>1. RowsOwned'
    BY <1>0, <1>7 DEF PutObject, fileRows, RowsOwned
  <2>2. CASE Step(t, IF task[t].old \notin {None, seen.key} THEN "deleting" ELSE "saving", seen)
    <3>1. task[t].op \notin {"qa", "remove"} /\ seen.key \in KeysFor[f]
      BY <1>2, <1>7 DEF PutObject
    <3> QED BY <1>0, <2>1, <2>2, <3>1, StepOwned DEF f
  <2>3. CASE Done(t)
    BY <1>0, <2>1, <2>3, DoneOwned
  <2> QED BY <1>7, <2>2, <2>3 DEF PutObject, seen
<1>8. CASE DeleteOldObject(t)
  <2>1. RowsOwned'
    BY <1>0, <1>8 DEF DeleteOldObject, fileRows, RowsOwned
  <2>2. Step(t, "saving", seen)
    BY <1>8 DEF DeleteOldObject, seen
  <2>3. task[t].op \notin {"qa", "remove"} /\ seen.key \in KeysFor[f]
    BY <1>2, <1>8 DEF DeleteOldObject
  <2> QED BY <1>0, <2>1, <2>2, <2>3, StepOwned DEF f
<1>9. CASE SaveKey(t)
  <2>1. seen.key \in KeysFor[f]
    BY <1>2, <1>9 DEF SaveKey
  <2>2. s3Key' = [s3Key EXCEPT ![f] = seen.key] \/ UNCHANGED s3Key
    BY <1>9 DEF SaveKey, f, seen, TypeOK
  <2>3. RowsOwned'
    BY <1>0, <1>1, <1>9, <2>1, <2>2, NewKeyOwned DEF SaveKey, RowsOwned
  <2> QED BY <1>0, <1>9, <2>3, DoneOwned DEF SaveKey
<1> QED BY <1>3, <1>4, <1>5, <1>6, <1>7, <1>8, <1>9 DEF TaskStep

LEMMA RunStepOwned ==
  ASSUME TypeOK, KeysOwned, RunStep \/ Crash \/ \E d \in 1 .. MaxDate : CheckVersion(d)
  PROVE  RowsOwned' /\ TasksOwned'
<1>0. RowsOwned /\ TasksOwned
  BY DEF KeysOwned, RowsOwned, TasksOwned
<1>1. CASE CleanUp \/ ExtractNothing \/ CommitRun \/ AbortRun
           \/ \E d \in 1 .. MaxDate : CheckVersion(d)
  BY <1>0, <1>1 DEF CleanUp, ExtractNothing, CommitRun, AbortRun, CheckVersion, fileRows,
                    RowsOwned, TasksOwned
<1>2. ASSUME NEW f \in Files, NEW k \in KeysFor[f], NEW v \in BOOLEAN, ExtractFile(f, k, v)
      PROVE  RowsOwned' /\ TasksOwned'
  BY <1>0, <1>2, NewKeyOwned DEF ExtractFile, TasksOwned
<1>3. CASE StoreNew
  <2>1. \/ s3Key' = [s3Key EXCEPT ![run.new] = keyOf[run.new]]
        \/ UNCHANGED s3Key
    BY <1>3 DEF StoreNew
  <2>2. RowsOwned'
    <3>1. CASE run.new \in Files
      <4>1. keyOf[run.new] \in KeysFor[run.new]
        BY <1>0, <3>1 DEF RowsOwned
      <4> QED BY <1>0, <1>3, <2>1, <3>1, <4>1, NewKeyOwned DEF StoreNew, RowsOwned
    <3>2. CASE run.new \notin Files
      BY <1>0, <1>3, <2>1, <3>2 DEF StoreNew, RowsOwned, TypeOK
    <3> QED BY <3>1, <3>2
  <2> QED BY <1>0, <1>3, <2>2 DEF StoreNew, TasksOwned
<1>4. CASE Crash
  <2>1. \A t \in Tasks : task'[t] = NoTask
    BY <1>4 DEF Crash
  <2> QED BY <1>0, <1>4, <2>1, NoTaskOwned DEF Crash, RowsOwned, TasksOwned, TaskOwned
<1> QED BY <1>1, <1>2, <1>3, <1>4 DEF RunStep

(* What a run supersedes it has disturbed.                                 *)
LEMMA DisturbedGrows ==
  ASSUME TypeOK, [Next]_vars
  PROVE  disturbed \subseteq disturbed'
<1>2. ASSUME NEW f \in Files, FileRoute(f) PROVE disturbed \subseteq disturbed'
  <2> USE DEF history
  <2>1. \A k \in KeysFor[f] : Reject(f) \/ MoveToFolder(f, k) => UNCHANGED disturbed
    BY DEF Reject, MoveToFolder
  <2>2. \A t \in Tasks : Approve(f, t) \/ Reconsider(f, t) => disturbed \subseteq disturbed'
    BY DEF Approve, Reconsider, Schedule
  <2>3. \A t \in Tasks, k \in KeysFor[f] :
          EditMetadata(f, k, t) \/ UploadFile(f, k, t) => disturbed \subseteq disturbed'
    BY DEF EditMetadata, UploadFile, Schedule
  <2>4. \A t \in Tasks : DeleteFile(f, t) => disturbed \subseteq disturbed'
    BY DEF DeleteFile, Schedule
  <2> QED BY <1>2, <2>1, <2>2, <2>3, <2>4 DEF FileRoute
<1>3. ASSUME NEW t \in Tasks, TaskStep(t) PROVE disturbed \subseteq disturbed'
  BY <1>3 DEF TaskStep, ReadRow, Judge, Enrich, RouteUpload, RejectUpload, PutObject,
              DeleteOldObject, SaveKey, RemoveObject, history
<1>4. CASE RunStep \/ Crash \/ \E d \in 1 .. MaxDate : CheckVersion(d)
  BY <1>4 DEF RunStep, CleanUp, ExtractFile, ExtractNothing, StoreNew, CommitRun, AbortRun,
              Crash, CheckVersion, history
<1>5. CASE Copying
  BY <1>5, CopyingCases DEF OnlyCopies, CommitCopy, Schedule, history
<1> QED BY <1>2, <1>3, <1>4, <1>5, NextCases DEF vars, history

LEMMA NextOwned ==
  ASSUME TypeOK, KeysOwned, [Next]_vars
  PROVE  KeysOwned'
<1>1. RowsOwned' /\ TasksOwned'
  <2>1. CASE UNCHANGED vars
    BY <2>1 DEF KeysOwned, RowsOwned, TasksOwned, vars, fileRows
  <2>2. CASE Next
    BY <2>2, NextCases, RouteOwned, CopyingOwned, TaskStepOwned, RunStepOwned
  <2> QED BY <2>1, <2>2
<1>2. disturbed \subseteq disturbed'
  BY DisturbedGrows
<1>3. run'.old # None => run'.old \in disturbed'
  <2>1. CASE run'.old = run.old
    BY <1>2, <2>1 DEF KeysOwned
  <2>2. CASE run' = NoRun
    BY <2>2 DEF NoRun
  <2>3. ASSUME NEW d \in 1 .. MaxDate, CheckVersion(d)
        PROVE  run'.old # None => run'.old \in disturbed'
    <3>1. PICK s \in SupersededBy(d) :
            /\ run' = [NoRun EXCEPT !.at = "cleaning", !.date = d, !.old = s]
            /\ disturbed' = disturbed \union ({s} \ {None})
      BY <2>3 DEF CheckVersion
    <3>2. run'.old = s
      BY <3>1 DEF NoRun
    <3> QED BY <3>1, <3>2
  <2>4. run' = run \/ run' = NoRun \/ run'.old = run.old
          \/ \E d \in 1 .. MaxDate : CheckVersion(d)
    <3>1. CASE UNCHANGED vars
      BY <3>1 DEF vars
    <3>2. ASSUME NEW f \in Files, FileRoute(f) PROVE run' = run
      BY <3>2 DEF FileRoute, Reject, MoveToFolder, Approve, Reconsider, DeleteFile,
                  EditMetadata, UploadFile
    <3>3. ASSUME NEW t \in Tasks, TaskStep(t) PROVE run' = run
      BY <3>3 DEF TaskStep, ReadRow, Judge, Enrich, RouteUpload, RejectUpload, PutObject,
                  DeleteOldObject, SaveKey, RemoveObject
    <3>4. CASE CleanUp \/ ExtractNothing \/ StoreNew
      BY <3>4 DEF CleanUp, ExtractNothing, StoreNew, TypeOK, Run
    <3>5. ASSUME NEW f \in Files, NEW k \in KeysFor[f], NEW v \in BOOLEAN, ExtractFile(f, k, v)
          PROVE  run'.old = run.old
      BY <3>5 DEF ExtractFile, TypeOK, Run
    <3>6. CASE CommitRun \/ AbortRun \/ Crash
      BY <3>6 DEF CommitRun, AbortRun, Crash
    <3>7. CASE Copying
      BY <3>7, CopyingCases DEF OnlyCopies, CommitCopy
    <3> QED BY <3>1, <3>2, <3>3, <3>4, <3>5, <3>6, <3>7, NextCases DEF RunStep
  <2> QED BY <2>1, <2>2, <2>3, <2>4
<1> QED BY <1>1, <1>3 DEF KeysOwned, RowsOwned, TasksOwned

-----------------------------------------------------------------------------
(* What a step does to the object of one file.  A task on the file is one  *)
(* that is to do something in S3.                                          *)
OnFile(r, f) == r.at # "idle" /\ r.op # "qa" /\ r.file = f

SameTasks(f) ==
  \A t \in Tasks : OnFile(task[t], f) \/ OnFile(task'[t], f) => task'[t] = task[t]

Untouched(f) ==
  /\ status'[f] = status[f] /\ s3Key'[f] = s3Key[f]
  /\ \A k \in KeysFor[f] : bucket'[k] = bucket[k]
  /\ SameTasks(f)

LEMMA OnFileOwned ==
  ASSUME KeysOwned, NEW f, NEW t \in Tasks
  PROVE  /\ Works(t, f) <=> OnFile(task[t], f) /\ task[t].at # "removing"
         /\ task[t].at = "removing" /\ task[t].file = f => OnFile(task[t], f)
BY DEF KeysOwned, TaskOwned, OnFile, Works, TouchesS3

(* The same in the next state.                                             *)
LEMMA OnFileOwnedNext ==
  ASSUME KeysOwned', NEW f, NEW t \in Tasks
  PROVE  /\ Works(t, f)' <=> OnFile(task'[t], f) /\ task'[t].at # "removing"
         /\ task'[t].at = "removing" /\ task'[t].file = f => OnFile(task'[t], f)
BY DEF KeysOwned, TaskOwned, OnFile, Works, TouchesS3

LEMMA InFlightWorks ==
  ASSUME NEW f
  PROVE  /\ InFlight(f) <=> \E t \in Tasks : Works(t, f)
         /\ InFlight(f)' <=> \E t \in Tasks : Works(t, f)'
BY DEF InFlight, Works, TouchesS3

LEMMA UntouchedHeld ==
  ASSUME TypeOK, KeysOwned, KeysOwned', NEW f \in Files, FileHeld(f), Untouched(f)
  PROVE  FileHeld(f)'
<1>1. \A t \in Tasks : Works(t, f)' <=> Works(t, f)
  BY OnFileOwned, OnFileOwnedNext DEF Untouched, SameTasks
<1>2. \A t \in Tasks : Works(t, f) => task'[t] = task[t]
  BY OnFileOwned DEF Untouched, SameTasks
<1>3. InFlight(f)' <=> InFlight(f)
  BY <1>1, InFlightWorks
<1>4. status'[f] = status[f] /\ s3Key'[f] = s3Key[f]
  BY DEF Untouched, SameTasks
<1>5. s3Key[f] \in KeysFor[f] \union {None}
  BY DEF KeysOwned
<1>6. Held(f) => Held(f)'
  BY <1>4, <1>5 DEF Held, Untouched
<1>7. ASSUME NEW t \in Tasks, task'[t].at = "removing", task'[t].file = f
      PROVE  status[f] = "gone"
  <2>1. OnFile(task'[t], f)
    BY <1>7, OnFileOwnedNext
  <2>2. task'[t] = task[t]
    BY <2>1 DEF Untouched, SameTasks
  <2> QED BY <1>7, <2>2 DEF FileHeld
<1>8. ASSUME NEW t \in Tasks, Works(t, f), TaskHolding(task[t]) PROVE TaskHolding(task[t])'
  <2>1. task'[t] = task[t] /\ task[t].file = f
    BY <1>2, <1>8 DEF Works
  <2>2. task[t].at \in {"deleting", "saving"} => task[t].seen.key \in KeysFor[f]
    BY <2>1 DEF KeysOwned, TaskOwned
  <2>3. task[t].at \in {"deleting", "saving"} =>
          bucket'[task[t].seen.key] = bucket[task[t].seen.key]
    BY <2>2 DEF Untouched, SameTasks
  <2> QED BY <1>4, <1>6, <1>8, <2>1, <2>3 DEF TaskHolding
<1> QED BY <1>1, <1>3, <1>4, <1>6, <1>7, <1>8 DEF FileHeld

(* Keys of a private file belong to nobody else.                           *)
LEMMA StoreElsewhere ==
  ASSUME TypeOK, NEW f \in Files, Private(f), NEW g \in Files \ {f}, NEW key \in KeysFor[g],
         NEW x, Store(key, x) \/ UNCHANGED bucket
  PROVE  \A k \in KeysFor[f] : bucket'[k] = bucket[k]
<1>1. key \notin KeysFor[f]
  BY DEF Private
<1>2. \A k \in KeysFor[f] : k \in Keys
  BY IdleTyped
<1> QED BY <1>1, <1>2 DEF Store, TypeOK

(* A row whose tasks stay as they are may get another status.              *)
LEMMA StatusHeld ==
  ASSUME TypeOK, KeysOwned, KeysOwned', NEW f \in Files, FileHeld(f),
         status[f] \in FileStatus \union {"uncommitted"},
         status'[f] \in Verdict \/ status'[f] = status[f],
         s3Key'[f] = s3Key[f], UNCHANGED bucket,
         SameTasks(f)
  PROVE  FileHeld(f)'
<1>0. /\ status[f] # "gone"
      /\ status'[f] \in {"absent", "gone"} => FALSE
      /\ status'[f] \in {"uncommitted", "superseded"} => status'[f] = status[f]
  BY DEF FileStatus, Verdict
<1>1. \A t \in Tasks : Works(t, f)' <=> Works(t, f)
  BY OnFileOwned, OnFileOwnedNext DEF SameTasks
<1>2. \A t \in Tasks : Works(t, f) => task'[t] = task[t]
  BY OnFileOwned DEF SameTasks
<1>3. InFlight(f)' <=> InFlight(f)
  BY <1>1, InFlightWorks
<1>4. Held(f) => Held(f)'
  BY DEF Held
<1>5. ASSUME NEW t \in Tasks, task'[t].at = "removing", task'[t].file = f PROVE FALSE
  <2>1. task'[t] = task[t]
    BY <1>5, OnFileOwnedNext DEF SameTasks
  <2> QED BY <1>0, <1>5, <2>1 DEF FileHeld
<1>6. ASSUME NEW t \in Tasks, Works(t, f) PROVE TaskHolding(task[t])'
  <2>1. task'[t] = task[t] /\ task[t].file = f /\ TaskHolding(task[t])
    BY <1>0, <1>2, <1>6 DEF Works, FileHeld
  <2> QED BY <1>4, <2>1 DEF TaskHolding
<1>7. InFlight(f)' => status'[f] \notin {"absent", "uncommitted", "superseded"}
  BY <1>0, <1>3 DEF FileHeld
<1>8. status'[f] \in {"absent", "superseded"} => s3Key'[f] = None
  BY <1>0 DEF FileHeld
<1>9. \A t, u \in Tasks : Works(t, f)' /\ Works(u, f)' => t = u
  BY <1>1 DEF FileHeld
<1>10. ~InFlight(f)' => Held(f)'
  BY <1>0, <1>3, <1>4 DEF FileHeld
<1> QED BY <1>1, <1>5, <1>6, <1>7, <1>8, <1>9, <1>10 DEF FileHeld

(* A row without a task gets one.                                          *)
LEMMA ScheduleHeld ==
  ASSUME TypeOK, KeysOwned, KeysOwned', NEW f \in Files \ disturbed', FileHeld(f),
         NEW t \in Tasks, NEW op \in {"upload", "recompute", "pipeline"},
         NEW key \in {None, s3Key[f]}, Schedule(t, op, f, key),
         status[f] # "gone", status'[f] \in Verdict,
         s3Key'[f] = s3Key[f], UNCHANGED bucket
  PROVE  FileHeld(f)'
<1> DEFINE r == [at |-> FirstStep(op), op |-> op, file |-> f, old |-> key, seen |-> Unread]
<1>1. ~InFlight(f)
  BY DEF Schedule
<1>2. FirstStep(op) \in {"enriching", "reading"}
  BY DEF FirstStep
<1>3. \A u \in Tasks : task'[u] = IF u = t THEN r ELSE task[u]
  BY DEF Schedule, TypeOK
<1>4. r.at = FirstStep(op) /\ r.op = op /\ r.file = f /\ r.old = key
  OBVIOUS
<1> HIDE DEF r
<1>5. Held(f)'
  BY <1>1 DEF FileHeld, Held
<1>6. TaskHolding(r)'
  BY <1>2, <1>4, <1>5 DEF TaskHolding, Held
<1>7. \A u \in Tasks : Works(u, f)' => u = t
  BY <1>1, <1>3 DEF InFlight, Works, TouchesS3
<1>8. ASSUME NEW u \in Tasks, task'[u].at = "removing", task'[u].file = f PROVE FALSE
  <2>1. u # t
    BY <1>2, <1>3, <1>4, <1>8
  <2> QED BY <1>3, <1>8, <2>1 DEF FileHeld
<1>9. status'[f] \notin {"absent", "uncommitted", "superseded", "gone"}
  BY DEF Verdict
<1>10. \A u \in Tasks : Works(u, f)' => TaskHolding(task[u])'
  BY <1>3, <1>6, <1>7 DEF TaskHolding, Held
<1> QED BY <1>5, <1>7, <1>8, <1>9, <1>10 DEF FileHeld

(* A file that is gone has no object that would have to be there.          *)
LEMMA GoneHeld ==
  ASSUME NEW f \in Files, FileHeld(f), status'[f] = "gone",
         \A t \in Tasks : Works(t, f)' => Works(t, f)
  PROVE  FileHeld(f)'
BY DEF FileHeld

(* The task of a row goes on or ends.                                      *)
LEMMA WorkHeld ==
  ASSUME TypeOK, KeysOwned, KeysOwned', NEW f \in Files, FileHeld(f),
         NEW t \in Tasks, Works(t, f), NEW r, task' = [task EXCEPT ![t] = r],
         r.at = "idle" \/ (r.file = f /\ r.op = task[t].op),
         r.at # "removing",
         status'[f] \in Verdict \/ status'[f] = status[f],
         status[f] = "gone" => status'[f] = "gone",
         r.at = "idle" => Held(f)' \/ status'[f] = "gone",
         r.at # "idle" => TaskHolding(r)' \/ status'[f] = "gone"
  PROVE  FileHeld(f)'
<1>1. \A u \in Tasks : task'[u] = IF u = t THEN r ELSE task[u]
  BY DEF TypeOK
<1>2. \A u \in Tasks : Works(u, f) => u = t
  BY DEF FileHeld
<1>3. \A u \in Tasks : Works(u, f)' => u = t
  BY <1>1, <1>2 DEF Works, TouchesS3
<1>4. status[f] \notin {"absent", "uncommitted", "superseded"}
  BY InFlightWorks DEF FileHeld
<1>5. status'[f] \notin {"absent", "uncommitted", "superseded"}
  BY <1>4 DEF Verdict
<1>6. ASSUME NEW u \in Tasks, task'[u].at = "removing", task'[u].file = f
      PROVE  status'[f] = "gone"
  BY <1>1, <1>6 DEF FileHeld
<1>7. CASE status'[f] = "gone"
  BY <1>3, <1>5, <1>6, <1>7 DEF FileHeld
<1>8. CASE status'[f] # "gone"
  <2>1. CASE r.at = "idle"
    <3>1. \A u \in Tasks : ~Works(u, f)'
      BY <1>1, <1>3, <2>1 DEF Works, TouchesS3
    <3> QED BY <1>5, <1>6, <1>8, <2>1, <3>1 DEF FileHeld
  <2>2. CASE r.at # "idle"
    <3>1. Works(t, f)'
      BY <1>1, <2>2 DEF Works, TouchesS3
    <3>2. InFlight(f)'
      BY <3>1, InFlightWorks
    <3>3. TaskHolding(task[t])'
      BY <1>1, <1>8, <2>2 DEF TaskHolding, Held
    <3> QED BY <1>3, <1>5, <1>6, <3>2, <3>3 DEF FileHeld
  <2> QED BY <2>1, <2>2
<1> QED BY <1>7, <1>8

-----------------------------------------------------------------------------
(* Tasks of other files, and looks of the agents, leave a file's tasks     *)
(* alone.                                                                  *)
LEMMA ScheduleElsewhere ==
  ASSUME TypeOK, NEW f \in Files, NEW t \in Tasks, NEW op, NEW g, NEW key,
         Schedule(t, op, g, key), g # f \/ op = "qa"
  PROVE  SameTasks(f)
<1> DEFINE r == [at |-> FirstStep(op), op |-> op, file |-> g, old |-> key, seen |-> Unread]
<1>1. \A u \in Tasks : task'[u] = IF u = t THEN r ELSE task[u]
  BY DEF Schedule, TypeOK
<1>2. r.op = op /\ r.file = g
  OBVIOUS
<1> HIDE DEF r
<1>3. task[t].at = "idle"
  BY DEF Schedule
<1> QED BY <1>1, <1>2, <1>3 DEF SameTasks, OnFile

LEMMA StepElsewhere ==
  ASSUME TypeOK, NEW f \in Files, NEW t \in Tasks, ~OnFile(task[t], f), task[t].at # "idle",
         Done(t) \/ \E at, seen : Step(t, at, seen)
  PROVE  SameTasks(f)
<1>1. CASE Done(t)
  <2>1. \A u \in Tasks : task'[u] = IF u = t THEN NoTask ELSE task[u]
    BY <1>1 DEF Done, TypeOK
  <2> QED BY <2>1 DEF SameTasks, OnFile, NoTask
<1>2. ASSUME NEW at, NEW seen, Step(t, at, seen) PROVE SameTasks(f)
  <2> DEFINE r == [at |-> at, op |-> task[t].op, file |-> task[t].file,
                   old |-> task[t].old, seen |-> seen]
  <2>1. \A u \in Tasks : task'[u] = IF u = t THEN r ELSE task[u]
    BY <1>2 DEF Step, TypeOK
  <2>2. r.op = task[t].op /\ r.file = task[t].file
    OBVIOUS
  <2> HIDE DEF r
  <2> QED BY <2>1, <2>2 DEF SameTasks, OnFile
<1> QED BY <1>1, <1>2

(* The routes keep the object of a private file.                           *)
LEMMA RouteHeld ==
  ASSUME TypeOK, KeysOwned, KeysOwned', NEW f \in Files \ disturbed', Private(f), FileHeld(f),
         NEW g \in Files, FileRoute(g)
  PROVE  FileHeld(f)'
<1>0. ASSUME Exists(g)
      PROVE  status[g] # "gone" /\ status[g] \in FileStatus \union {"uncommitted"}
  BY <1>0 DEF Exists, FileStatus, Verdict
<1>1. CASE Reject(g)
  <2>1. Exists(g) /\ SetStatus(g, "rejected") /\ UNCHANGED <<s3Key, bucket, task>>
    BY <1>1 DEF Reject, Writable
  <2>2. SameTasks(f)
    BY <2>1 DEF SameTasks
  <2>3. CASE g = f
    <3>1. status'[f] \in Verdict
      BY <2>1, <2>3 DEF SetStatus, Verdict, TypeOK
    <3> QED BY <1>0, <2>1, <2>2, <2>3, <3>1, StatusHeld
  <2>4. CASE g # f
    BY <2>1, <2>2, <2>4, UntouchedHeld DEF Untouched, SetStatus, TypeOK
  <2> QED BY <2>3, <2>4
<1>2. ASSUME NEW k \in KeysFor[g], MoveToFolder(g, k) PROVE FileHeld(f)'
  BY <1>2, UntouchedHeld DEF Untouched, SameTasks, MoveToFolder
<1>3. ASSUME NEW t \in Tasks, Approve(g, t) PROVE FileHeld(f)'
  <2>1. /\ Exists(g) /\ SetStatus(g, "approved") /\ UNCHANGED <<s3Key, bucket>>
        /\ Schedule(t, "upload", g, None)
    BY <1>3 DEF Approve, Writable
  <2>2. CASE g = f
    <3>1. status'[f] \in Verdict
      BY <2>1, <2>2 DEF SetStatus, Verdict, TypeOK
    <3> QED BY <1>0, <2>1, <2>2, <3>1, ScheduleHeld
  <2>3. CASE g # f
    <3>1. SameTasks(f)
      BY <2>1, <2>3, ScheduleElsewhere
    <3> QED BY <2>1, <2>3, <3>1, UntouchedHeld DEF Untouched, SetStatus, TypeOK
  <2> QED BY <2>2, <2>3
<1>4. ASSUME NEW t \in Tasks, Reconsider(g, t) PROVE FileHeld(f)'
  <2>1. SameTasks(f)
    BY <1>4, ScheduleElsewhere DEF Reconsider
  <2> QED BY <1>4, <2>1, UntouchedHeld DEF Untouched, Reconsider, fileRows
<1>5. ASSUME NEW t \in Tasks, DeleteFile(g, t) PROVE FileHeld(f)'
  <2>1. /\ SetStatus(g, "gone") /\ UNCHANGED <<s3Key, bucket>>
        /\ Schedule(t, "remove", g, s3Key[g]) \/ UNCHANGED task
    BY <1>5 DEF DeleteFile
  <2>2. CASE g = f
    <3>1. status'[f] = "gone"
      BY <2>1, <2>2 DEF SetStatus, TypeOK
    <3>2. \A u \in Tasks : Works(u, f)' => Works(u, f)
      <4>1. CASE Schedule(t, "remove", g, s3Key[g])
        <5>1. \A u \in Tasks : u # t => task'[u] = task[u]
          BY <4>1 DEF Schedule, TypeOK
        <5>2. task'[t].op = "remove"
          BY <4>1 DEF Schedule, TypeOK
        <5> QED BY <5>1, <5>2 DEF Works, TouchesS3
      <4>2. CASE UNCHANGED task
        BY <4>2 DEF Works, TouchesS3
      <4> QED BY <2>1, <4>1, <4>2
    <3> QED BY <3>1, <3>2, GoneHeld
  <2>3. CASE g # f
    <3>1. SameTasks(f)
      BY <2>1, <2>3, ScheduleElsewhere DEF SameTasks
    <3> QED BY <2>1, <2>3, <3>1, UntouchedHeld DEF Untouched, SetStatus, TypeOK
  <2> QED BY <2>2, <2>3
<1>6. ASSUME NEW t \in Tasks, NEW k \in KeysFor[g], EditMetadata(g, k, t) PROVE FileHeld(f)'
  <2>1. /\ Exists(g) /\ UNCHANGED <<status, s3Key, bucket>>
        /\ \/ s3Key[g] # None /\ Schedule(t, "recompute", g, s3Key[g])
           \/ UNCHANGED task
    BY <1>6 DEF EditMetadata, Writable
  <2>2. CASE g = f /\ s3Key[f] # None /\ Schedule(t, "recompute", f, s3Key[f])
    <3>1. status'[f] \in Verdict
      BY <2>1, <2>2 DEF FileHeld, Exists, FileStatus, Verdict
    <3> QED BY <1>0, <2>1, <2>2, <3>1, ScheduleHeld
  <2>3. CASE g # f \/ UNCHANGED task
    <3>1. SameTasks(f)
      BY <2>1, <2>3, ScheduleElsewhere DEF SameTasks
    <3> QED BY <2>1, <3>1, UntouchedHeld DEF Untouched
  <2> QED BY <2>1, <2>2, <2>3
<1>7. ASSUME NEW t \in Tasks, NEW k \in KeysFor[g], UploadFile(g, k, t) PROVE FileHeld(f)'
  <2>1. /\ status[g] = "absent" /\ SetStatus(g, "pending_review")
        /\ Schedule(t, "pipeline", g, None) /\ UNCHANGED <<s3Key, bucket>>
    BY <1>7 DEF UploadFile
  <2>2. CASE g = f
    <3>1. status'[f] \in Verdict
      BY <2>1, <2>2 DEF SetStatus, Verdict, TypeOK
    <3> QED BY <2>1, <2>2, <3>1, ScheduleHeld
  <2>3. CASE g # f
    <3>1. SameTasks(f)
      BY <2>1, <2>3, ScheduleElsewhere
    <3> QED BY <2>1, <2>3, <3>1, UntouchedHeld DEF Untouched, SetStatus, TypeOK
  <2> QED BY <2>2, <2>3
<1> QED BY <1>1, <1>2, <1>3, <1>4, <1>5, <1>6, <1>7 DEF FileRoute

(* A copy is a new row, with an upload of its own if it has one.           *)
LEMMA CommitCopyHeld ==
  ASSUME TypeOK, KeysOwned, KeysOwned', NEW f \in Files \ disturbed', Private(f), FileHeld(f),
         NEW c \in Clients, NEW h \in Files, NEW k \in KeysFor[h], NEW t \in Tasks,
         CommitCopy(c, h, k, t)
  PROVE  FileHeld(f)'
<1> DEFINE s == copy[c].status
<1>0. s \in FileStatus
  BY CopyHolds DEF CommitCopy
<1>1. /\ status[h] = "absent" /\ UNCHANGED <<s3Key, bucket>>
      /\ status' = [status EXCEPT ![h] = s]
      /\ \/ s = "approved" /\ Schedule(t, "upload", h, None)
         \/ UNCHANGED task
  BY DEF CommitCopy
<1> HIDE DEF s
<1>2. CASE h = f /\ s = "approved" /\ Schedule(t, "upload", f, None)
  <2>1. status'[f] \in Verdict
    BY <1>1, <1>2 DEF Verdict, TypeOK
  <2> QED BY <1>1, <1>2, <2>1, ScheduleHeld
<1>3. CASE h = f /\ UNCHANGED task
  <2>1. status'[f] \in FileStatus /\ s3Key'[f] = None
    BY <1>0, <1>1, <1>3 DEF FileHeld, TypeOK
  <2>2. \A u \in Tasks : ~Works(u, f)'
    BY <1>1, <1>3, InFlightWorks DEF FileHeld, Works, TouchesS3
  <2>3. ~InFlight(f)'
    BY <2>2, InFlightWorks
  <2>4. \A u \in Tasks : ~(task'[u].at = "removing" /\ task'[u].file = f)
    BY <1>1, <1>3 DEF FileHeld
  <2> QED BY <2>1, <2>2, <2>3, <2>4 DEF FileHeld, Held
<1>4. CASE h # f
  <2>1. SameTasks(f)
    BY <1>1, <1>4, ScheduleElsewhere DEF SameTasks
  <2> QED BY <1>1, <1>4, <2>1, UntouchedHeld DEF Untouched, TypeOK
<1> QED BY <1>1, <1>2, <1>3, <1>4

LEMMA CopyingHeld ==
  ASSUME TypeOK, KeysOwned, KeysOwned', NEW f \in Files \ disturbed', Private(f), FileHeld(f),
         Copying
  PROVE  FileHeld(f)'
<1>1. CASE OnlyCopies
  BY <1>1, UntouchedHeld DEF Untouched, SameTasks, OnlyCopies, fileRows
<1> QED BY <1>1, CopyingCases, CommitCopyHeld

(* A verdict is written to a row that exists, or nothing is.               *)
LEMMA VerdictWritten ==
  ASSUME TypeOK, NEW g \in Files, NEW read, NEW s \in Verdict, WriteStatus(g, read, s)
  PROVE  /\ status'[g] \in Verdict \/ status'[g] = status[g]
         /\ status'[g] # status[g] => Exists(g)
         /\ \A h \in Files \ {g} : status'[h] = status[h]
BY DEF WriteStatus, SetStatus, TypeOK

(* A task that works on a row of which nothing is known any more.          *)
LEMMA WorkOnGone ==
  ASSUME NEW f \in Files, NEW t \in Tasks, Works(t, f), FileHeld(f), ~Exists(f),
         status[f] \in RowState
  PROVE  status[f] = "gone"
<1>1. InFlight(f)
  BY InFlightWorks
<1> QED BY <1>1 DEF FileHeld, Exists, RowState, FileStatus

(* The task of a file goes on to another step, or ends.                    *)
LEMMA GoesOn ==
  ASSUME TypeOK, KeysOwned, KeysOwned', NEW f \in Files, FileHeld(f),
         NEW t \in Tasks, Works(t, f), NEW at, NEW seen, Step(t, at, seen),
         at \notin {"idle", "removing"},
         status'[f] \in Verdict \/ status'[f] = status[f],
         status[f] = "gone" => status'[f] = "gone",
         s3Key'[f] = s3Key[f],
         status[f] # "gone" =>
           /\ at \in {"putting", "deleting", "saving"} => seen.s3Key = s3Key[f]
           /\ IF at \in {"deleting", "saving"} THEN bucket'[seen.key] = f ELSE Held(f)'
           /\ at = "deleting" => seen.key # task[t].old
  PROVE  FileHeld(f)'
<1>1. PICK r : r = [at |-> at, op |-> task[t].op, file |-> task[t].file,
                    old |-> task[t].old, seen |-> seen]
  OBVIOUS
<1>2. /\ task' = [task EXCEPT ![t] = r]
      /\ r.at = at /\ r.op = task[t].op /\ r.file = f /\ r.old = task[t].old /\ r.seen = seen
  BY <1>1 DEF Step, Works
<1>3. status[f] # "gone" => task[t].old \in {None, s3Key[f]}
  BY DEF FileHeld, TaskHolding, Works
<1>4. ASSUME status[f] # "gone" PROVE TaskHolding(r)'
  <2>1. r.old \in {None, s3Key'[r.file]}
    BY <1>2, <1>3, <1>4
  <2>2. r.at \in {"putting", "deleting", "saving"} => r.seen.s3Key = s3Key'[r.file]
    BY <1>2, <1>4
  <2>3. IF r.at \in {"deleting", "saving"} THEN bucket'[r.seen.key] = r.file
                                           ELSE Held(r.file)'
    BY <1>2, <1>4
  <2>4. r.at = "deleting" => r.seen.key # r.old
    BY <1>2, <1>4
  <2> QED BY <2>1, <2>2, <2>3, <2>4 DEF TaskHolding, Held
<1> QED BY <1>2, <1>4, WorkHeld

LEMMA Ends ==
  ASSUME TypeOK, KeysOwned, KeysOwned', NEW f \in Files, FileHeld(f),
         NEW t \in Tasks, Works(t, f), Done(t),
         status'[f] \in Verdict \/ status'[f] = status[f],
         status[f] = "gone" => status'[f] = "gone",
         status[f] # "gone" => Held(f)'
  PROVE  FileHeld(f)'
<1>1. task' = [task EXCEPT ![t] = NoTask] /\ NoTask.at = "idle"
  BY DEF Done, NoTask
<1> QED BY <1>1, WorkHeld

(* The steps of a background task on a private file keep its object.       *)
LEMMA WorkStepHeld ==
  ASSUME TypeOK, KeysOwned, KeysOwned', NEW f \in Files \ disturbed', FileHeld(f),
         NEW t \in Tasks, Works(t, f), TaskStep(t)
  PROVE  FileHeld(f)'
<1> DEFINE seen == task[t].seen
<1>1. /\ task[t].file = f /\ task[t].op \notin {"qa", "remove"}
      /\ task[t].at \notin {"judging", "removing"}
  BY DEF Works, TouchesS3, KeysOwned, TaskOwned
<1>2. status[f] # "gone" => TaskHolding(task[t])
  BY DEF FileHeld
<1>3. status[f] \in RowState
  BY DEF TypeOK
<1>4. ~Exists(f) => status[f] = "gone"
  BY <1>3, WorkOnGone
<1>5. ~Exists(f) <=> status[f] = "gone"
  BY <1>4 DEF Exists, FileStatus, Verdict
<1>6. CASE ReadRow(t)
  <2>1. UNCHANGED <<status, s3Key, bucket>> /\ task[t].at = "reading"
    BY <1>6 DEF ReadRow, fileRows
  <2>2. status[f] # "gone" => Held(f)
    BY <1>1, <1>2, <2>1 DEF TaskHolding
  <2>3. CASE Exists(f)
    <3>1. Step(t, "putting", Row(f)) /\ Row(f).s3Key = s3Key[f]
      BY <1>1, <1>6, <2>3 DEF ReadRow, Row
    <3> QED BY <2>1, <2>2, <3>1, GoesOn DEF Held
  <2>4. CASE ~Exists(f)
    <3>1. Done(t)
      BY <1>1, <1>6, <2>4 DEF ReadRow
    <3> QED BY <2>1, <2>2, <3>1, Ends DEF Held
  <2> QED BY <2>3, <2>4
<1>7. CASE Judge(t)
  BY <1>1, <1>7 DEF Judge
<1>8. CASE Enrich(t)
  <2>1. UNCHANGED <<status, s3Key, bucket>> /\ task[t].at = "enriching"
    BY <1>8 DEF Enrich
  <2>2. status[f] # "gone" => Held(f)
    BY <1>1, <1>2, <2>1 DEF TaskHolding
  <2>3. CASE Exists(f)
    <3>1. PICK k \in KeysFor[f] : Step(t, "routing", [Row(f) EXCEPT !.key = k])
      BY <1>1, <1>8, <2>3 DEF Enrich
    <3> QED BY <2>1, <2>2, <3>1, GoesOn DEF Held
  <2>4. CASE ~Exists(f)
    <3>1. Done(t)
      BY <1>1, <1>8, <2>4 DEF Enrich
    <3> QED BY <2>1, <2>2, <3>1, Ends DEF Held
  <2> QED BY <2>3, <2>4
<1>9. CASE RouteUpload(t)
  <2>1. UNCHANGED <<s3Key, bucket>> /\ task[t].at = "routing"
    BY <1>9 DEF RouteUpload
  <2>2. status[f] # "gone" => Held(f)
    BY <1>1, <1>2, <2>1 DEF TaskHolding
  <2>3. PICK verdict \in Routed : /\ WriteStatus(f, seen.status, verdict)
                                  /\ Step(t, "putting", Row(f)) \/ Done(t)
    BY <1>1, <1>9 DEF RouteUpload
  <2>4. /\ status'[f] \in Verdict \/ status'[f] = status[f]
        /\ status[f] = "gone" => status'[f] = "gone"
    BY <1>5, <2>3, VerdictWritten, RoutedIsVerdict
  <2>5. Row(f).s3Key = s3Key[f]
    BY DEF Row
  <2>6. CASE Step(t, "putting", Row(f))
    BY <2>1, <2>2, <2>4, <2>5, <2>6, GoesOn DEF Held
  <2>7. CASE Done(t)
    BY <2>1, <2>2, <2>4, <2>7, Ends DEF Held
  <2> QED BY <2>3, <2>6, <2>7
<1>10. CASE RejectUpload(t)
  <2>1. UNCHANGED <<s3Key, bucket>> /\ task[t].at \in {"enriching", "routing"} /\ Done(t)
    BY <1>10 DEF RejectUpload
  <2>2. status[f] # "gone" => Held(f)
    BY <1>1, <1>2, <2>1 DEF TaskHolding
  <2>3. WriteStatus(f, status[f], "rejected") /\ "rejected" \in Verdict
    BY <1>1, <1>10 DEF RejectUpload, Verdict
  <2>4. /\ status'[f] \in Verdict \/ status'[f] = status[f]
        /\ status[f] = "gone" => status'[f] = "gone"
    BY <1>5, <2>3, VerdictWritten
  <2> QED BY <2>1, <2>2, <2>4, Ends DEF Held
<1>11. CASE PutObject(t)
  <2>1. UNCHANGED <<status, s3Key>> /\ task[t].at = "putting"
    BY <1>11 DEF PutObject, fileRows
  <2>2. status[f] # "gone" => Held(f) /\ seen.s3Key = s3Key[f]
    BY <1>1, <1>2, <2>1 DEF TaskHolding
  <2>3. Store(seen.key, f) => bucket'[seen.key] = f /\ (Held(f) => Held(f)')
    BY <2>1, TaskHolds DEF Store, TypeOK, Held
  <2>4. CASE /\ Store(seen.key, f)
             /\ Step(t, IF task[t].old \notin {None, seen.key}
                        THEN "deleting" ELSE "saving", seen)
    <3> DEFINE at == IF task[t].old \notin {None, seen.key} THEN "deleting" ELSE "saving"
    <3>1. at \in {"deleting", "saving"} /\ (at = "deleting" => seen.key # task[t].old)
      OBVIOUS
    <3>2. Step(t, at, seen)
      BY <2>4
    <3> HIDE DEF at
    <3> QED BY <2>1, <2>2, <2>3, <2>4, <3>1, <3>2, GoesOn
  <2>5. CASE (Store(seen.key, f) \/ UNCHANGED bucket) /\ Done(t)
    <3>1. status[f] # "gone" => Held(f)'
      BY <2>1, <2>2, <2>3, <2>5 DEF Held
    <3> QED BY <2>1, <2>5, <3>1, Ends
  <2> QED BY <1>1, <1>11, <2>4, <2>5 DEF PutObject
<1>12. CASE DeleteOldObject(t)
  <2>1. UNCHANGED <<status, s3Key>> /\ task[t].at = "deleting" /\ Step(t, "saving", seen)
    BY <1>12 DEF DeleteOldObject, fileRows
  <2>2. status[f] # "gone" =>
          seen.s3Key = s3Key[f] /\ bucket[seen.key] = f /\ seen.key # task[t].old
    BY <1>1, <1>2, <2>1 DEF TaskHolding
  <2>3. status[f] # "gone" => bucket'[seen.key] = f
    BY <1>12, <2>2, TaskHolds DEF DeleteOldObject, Store, TypeOK
  <2> QED BY <2>1, <2>2, <2>3, GoesOn
<1>13. CASE SaveKey(t)
  <2>1. task[t].at = "saving" /\ Done(t) /\ UNCHANGED bucket
    BY <1>13 DEF SaveKey
  <2>2. f \notin disturbed'
    OBVIOUS
  <2>3. /\ s3Key' = [s3Key EXCEPT ![f] =
                       IF Exists(f) /\ seen.key \notin {task[t].old, seen.s3Key}
                       THEN seen.key ELSE @]
        /\ UNCHANGED status
    BY <1>1, <1>13, <2>2 DEF SaveKey
  <2>4. status[f] # "gone" => /\ seen.s3Key = s3Key[f] /\ bucket[seen.key] = f
                              /\ task[t].old \in {None, s3Key[f]}
    BY <1>1, <1>2, <2>1 DEF TaskHolding
  <2>5. seen.key # None
    BY TaskHolds
  <2>6. status[f] # "gone" => s3Key'[f] = seen.key
    BY <1>5, <2>3, <2>4, <2>5 DEF TypeOK
  <2>7. status[f] # "gone" => Held(f)'
    BY <2>1, <2>4, <2>6 DEF Held
  <2> QED BY <2>1, <2>3, <2>7, Ends
<1>14. CASE RemoveObject(t)
  BY <1>1, <1>14 DEF RemoveObject
<1> QED BY <1>6, <1>7, <1>8, <1>9, <1>10, <1>11, <1>12, <1>13, <1>14 DEF TaskStep

(* So do the others: agents may change the status of the file, a removal   *)
(* finds it gone, and what belongs to another file is elsewhere.           *)
LEMMA OtherStepHeld ==
  ASSUME TypeOK, KeysOwned, KeysOwned', NEW f \in Files \ disturbed', Private(f), FileHeld(f),
         NEW t \in Tasks, ~Works(t, f), TaskStep(t)
  PROVE  FileHeld(f)'
<1> DEFINE g == task[t].file
<1>1. task[t].at # "idle" /\ (Done(t) \/ \E at, seen : Step(t, at, seen))
  BY DEF TaskStep, ReadRow, Judge, Enrich, RouteUpload, RejectUpload, PutObject,
         DeleteOldObject, SaveKey, RemoveObject
<1>2. g \in Files /\ TaskOwned(task[t])
  BY TaskHolds DEF KeysOwned
<1>3. CASE g = f /\ task[t].op = "qa"
  <2>1. ~OnFile(task[t], f)
    BY <1>3 DEF OnFile
  <2>2. SameTasks(f)
    BY <1>1, <2>1, StepElsewhere
  <2>3. task[t].at \in {"reading", "judging"}
    BY <1>1, <1>2, <1>3 DEF TaskOwned
  <2>4. ReadRow(t) \/ Judge(t)
    BY <2>3 DEF TaskStep, Enrich, RouteUpload, RejectUpload, PutObject, DeleteOldObject,
                SaveKey, RemoveObject
  <2>5. CASE ReadRow(t)
    BY <2>2, <2>5, UntouchedHeld DEF ReadRow, fileRows, Untouched
  <2>6. CASE Judge(t)
    <3>1. PICK verdict \in Routed : WriteStatus(f, task[t].seen.status, verdict)
      BY <1>3, <2>6 DEF Judge
    <3>2. /\ status'[f] \in Verdict \/ status'[f] = status[f]
          /\ status'[f] # status[f] => Exists(f)
      BY <3>1, VerdictWritten, RoutedIsVerdict
    <3>3. UNCHANGED <<s3Key, bucket>>
      BY <2>6 DEF Judge
    <3>4. CASE status'[f] = status[f]
      BY <2>2, <3>3, <3>4, UntouchedHeld DEF Untouched
    <3>5. CASE status'[f] # status[f]
      BY <2>2, <3>2, <3>3, <3>5, StatusHeld DEF Exists
    <3> QED BY <3>4, <3>5
  <2> QED BY <2>4, <2>5, <2>6
<1>4. CASE g = f /\ task[t].op = "remove"
  <2>1. task[t].at = "removing" /\ status[f] = "gone"
    BY <1>1, <1>2, <1>4 DEF TaskOwned, FileHeld
  <2>2. RemoveObject(t)
    BY <2>1 DEF TaskStep, ReadRow, Judge, Enrich, RouteUpload, RejectUpload, PutObject,
                DeleteOldObject, SaveKey
  <2>3. status'[f] = "gone" /\ Done(t)
    BY <2>1, <2>2 DEF RemoveObject, fileRows
  <2>4. \A u \in Tasks : Works(u, f)' => Works(u, f)
    <3>1. \A u \in Tasks : task'[u] = IF u = t THEN NoTask ELSE task[u]
      BY <2>3 DEF Done, TypeOK
    <3> QED BY <3>1 DEF Works, TouchesS3, NoTask
  <2> QED BY <2>3, <2>4, GoneHeld
<1>5. CASE g # f
  <2>1. SameTasks(f)
    BY <1>1, <1>5, StepElsewhere DEF OnFile
  <2>2. \A k \in KeysFor[f] : bucket'[k] = bucket[k]
    <3>1. CASE UNCHANGED bucket
      BY <3>1
    <3>2. CASE PutObject(t)
      <4>1. task[t].seen.key \in KeysFor[g]
        BY <1>2, <3>2 DEF TaskOwned, PutObject
      <4>2. Store(task[t].seen.key, g) \/ UNCHANGED bucket
        BY <3>2 DEF PutObject
      <4> QED BY <1>2, <1>5, <4>1, <4>2, StoreElsewhere
    <3>3. CASE DeleteOldObject(t) \/ RemoveObject(t)
      <4>1. Store(task[t].old, None) \/ UNCHANGED bucket
        BY <3>3 DEF DeleteOldObject, RemoveObject
      <4>2. CASE task[t].old \in KeysFor[g]
        BY <1>2, <1>5, <4>1, <4>2, StoreElsewhere
      <4>3. CASE task[t].old = None
        BY <4>1, <4>3 DEF Store, TypeOK
      <4> QED BY <1>2, <4>2, <4>3 DEF TaskOwned
    <3> QED BY <3>1, <3>2, <3>3 DEF TaskStep, ReadRow, Judge, Enrich, RouteUpload,
                                    RejectUpload, SaveKey
  <2>3. s3Key'[f] = s3Key[f]
    BY <1>5 DEF TaskStep, ReadRow, Judge, Enrich, RouteUpload, RejectUpload, PutObject,
                DeleteOldObject, SaveKey, RemoveObject, fileRows, TypeOK
  <2>4. status'[f] = status[f]
    <3>1. CASE UNCHANGED status
      BY <3>1
    <3>2. ASSUME NEW read, NEW s \in Verdict, WriteStatus(g, read, s)
          PROVE  status'[f] = status[f]
      BY <1>2, <1>5, <3>2, VerdictWritten
    <3>3. "rejected" \in Verdict
      BY DEF Verdict
    <3> QED BY <3>1, <3>2, <3>3, RoutedIsVerdict
            DEF TaskStep, ReadRow, Judge, Enrich, RouteUpload, RejectUpload, PutObject,
                DeleteOldObject, SaveKey, RemoveObject, fileRows
  <2> QED BY <2>1, <2>2, <2>3, <2>4, UntouchedHeld DEF Untouched
<1>6. g = f => task[t].op \in {"qa", "remove"}
  BY <1>1 DEF Works, TouchesS3
<1> QED BY <1>3, <1>4, <1>5, <1>6

(* The run keeps the object of a private file it has not superseded: it    *)
(* stores the file it creates under a key of its own, and deletes the      *)
(* object of a superseded file only.                                       *)
LEMMA CheckOrEmptyHeld ==
  ASSUME TypeOK, KeysOwned, KeysOwned', NEW f \in Files, FileHeld(f),
         ExtractNothing \/ \E d \in 1 .. MaxDate : CheckVersion(d)
  PROVE  FileHeld(f)'
<1>1. UNCHANGED <<status, s3Key, bucket, task>>
  BY DEF ExtractNothing, CheckVersion, fileRows
<1> QED BY <1>1, UntouchedHeld DEF Untouched, SameTasks

LEMMA CleanUpHeld ==
  ASSUME TypeOK, KeysOwned, KeysOwned', NEW f \in Files \ disturbed, Private(f), FileHeld(f),
         CleanUp
  PROVE  FileHeld(f)'
<1>1. UNCHANGED <<status, s3Key, task>>
  BY DEF CleanUp, fileRows
<1>2. \A k \in KeysFor[f] : bucket'[k] = bucket[k]
  <2>1. CASE UNCHANGED bucket
    BY <2>1
  <2>2. ASSUME NEW g \in Newest(Superseded), s3Key[g] # None, Store(s3Key[g], None)
        PROVE  \A k \in KeysFor[f] : bucket'[k] = bucket[k]
    <3>1. g \in Files /\ (status[g] = "superseded" \/ g = run.old)
      BY <2>2, RunHolds DEF Newest, Superseded, Versions, Exists, TypeOK
    <3>2. g # f
      BY <2>2, <3>1 DEF FileHeld, KeysOwned
    <3>3. s3Key[g] \in KeysFor[g]
      BY <2>2, <3>1 DEF KeysOwned
    <3> QED BY <2>2, <3>1, <3>2, <3>3, StoreElsewhere
  <2> QED BY <2>1, <2>2 DEF CleanUp
<1> QED BY <1>1, <1>2, UntouchedHeld DEF Untouched, SameTasks

LEMMA ExtractFileHeld ==
  ASSUME TypeOK, KeysOwned, KeysOwned', NEW f \in Files, FileHeld(f),
         NEW g \in Files, NEW k \in KeysFor[g], NEW v \in BOOLEAN, ExtractFile(g, k, v)
  PROVE  FileHeld(f)'
<1>1. /\ status[g] = "absent" /\ UNCHANGED <<s3Key, bucket, task>>
      /\ status' = [status EXCEPT ![g] = "uncommitted"]
  BY DEF ExtractFile
<1>2. CASE g = f
  <2>1. status'[f] = "uncommitted" /\ s3Key'[f] = None
    BY <1>1, <1>2 DEF FileHeld, TypeOK
  <2>2. ~InFlight(f)
    BY <1>1, <1>2 DEF FileHeld
  <2>3. \A t \in Tasks : ~Works(t, f)'
    BY <1>1, <2>2, InFlightWorks DEF Works, TouchesS3
  <2>4. ~InFlight(f)'
    BY <2>3, InFlightWorks
  <2>5. \A t \in Tasks : ~(task'[t].at = "removing" /\ task'[t].file = f)
    BY <1>1, <1>2 DEF FileHeld
  <2> QED BY <2>1, <2>3, <2>4, <2>5 DEF FileHeld, Held
<1>3. CASE g # f
  BY <1>1, <1>3, UntouchedHeld DEF Untouched, SameTasks, TypeOK
<1> QED BY <1>2, <1>3

LEMMA StoreNewHeld ==
  ASSUME TypeOK, KeysOwned, KeysOwned', ApprovalInv, VersionsInv,
         NEW f \in Files, Private(f), FileHeld(f), StoreNew
  PROVE  FileHeld(f)'
<1> DEFINE g == run.new
<1>1. g \in Files /\ status[g] = "uncommitted"
  BY DEF ApprovalInv, RunApproved, VersionsInv, StoreNew, TypeOK
<1>2. UNCHANGED <<status, task>>
  BY DEF StoreNew
<1>3. keyOf[g] \in KeysFor[g] /\ keyOf[g] # None /\ keyOf[g] \in Keys
  BY <1>1 DEF KeysOwned, TypeOK
<1>4. /\ Store(keyOf[g], g) \/ UNCHANGED bucket
      /\ \/ Store(keyOf[g], g) /\ s3Key' = [s3Key EXCEPT ![g] = keyOf[g]]
         \/ UNCHANGED s3Key
  BY DEF StoreNew
<1>5. CASE g = f
  <2>1. ~InFlight(f)
    BY <1>1, <1>5 DEF FileHeld
  <2>2. \A t \in Tasks : ~Works(t, f)'
    BY <1>2, <2>1, InFlightWorks DEF Works, TouchesS3
  <2>3. ~InFlight(f)'
    BY <2>2, InFlightWorks
  <2>4. Held(f)
    BY <1>1, <1>5, <2>1 DEF FileHeld
  <2>5. Held(f)'
    <3>1. Store(keyOf[f], f) \/ UNCHANGED bucket
      BY <1>4, <1>5
    <3>2. CASE Store(keyOf[f], f) /\ s3Key' = [s3Key EXCEPT ![f] = keyOf[f]]
      BY <1>3, <1>5, <3>2 DEF Held, Store, TypeOK
    <3>3. CASE UNCHANGED s3Key
      BY <2>4, <3>1, <3>3 DEF Held, Store, TypeOK
    <3> QED BY <1>4, <1>5, <3>2, <3>3
  <2>6. status'[f] = "uncommitted"
    BY <1>1, <1>2, <1>5
  <2>7. \A t \in Tasks : ~(task'[t].at = "removing" /\ task'[t].file = f)
    BY <1>1, <1>2, <1>5 DEF FileHeld
  <2> QED BY <2>2, <2>3, <2>5, <2>6, <2>7 DEF FileHeld
<1>6. CASE g # f
  <2>1. \A k \in KeysFor[f] : bucket'[k] = bucket[k]
    BY <1>1, <1>3, <1>4, <1>6, StoreElsewhere
  <2>2. s3Key'[f] = s3Key[f]
    BY <1>4, <1>6 DEF TypeOK
  <2> QED BY <1>2, <2>1, <2>2, UntouchedHeld DEF Untouched, SameTasks
<1> QED BY <1>5, <1>6

(* The end of a run writes its verdict to the row it created, which no     *)
(* task has seen yet, or takes the row back.                               *)
LEMMA RunEndHeld ==
  ASSUME TypeOK, KeysOwned, KeysOwned', VersionsInv, NEW f \in Files \ disturbed, FileHeld(f),
         CommitRun \/ AbortRun
  PROVE  FileHeld(f)'
<1>1. UNCHANGED <<s3Key, bucket, task>> /\ SameTasks(f)
  BY DEF CommitRun, AbortRun, SameTasks
<1>2. f # run.old
  BY DEF KeysOwned
<1>3. CASE f = run.new
  <2>1. status[f] = "uncommitted"
    BY <1>3 DEF VersionsInv
  <2>2. CASE CommitRun
    <3>1. status'[f] \in Verdict
      BY <1>3, <2>2, RunHolds DEF CommitRun
    <3> QED BY <1>1, <2>1, <3>1, StatusHeld
  <2>3. CASE AbortRun
    <3>1. status'[f] = "gone"
      BY <1>3, <2>3 DEF AbortRun, Rollback
    <3>2. \A t \in Tasks : Works(t, f)' => Works(t, f)
      BY <1>1 DEF Works, TouchesS3
    <3> QED BY <3>1, <3>2, GoneHeld
  <2> QED BY <2>2, <2>3
<1>4. CASE f # run.new
  <2>1. status'[f] = status[f]
    BY <1>2, <1>4 DEF CommitRun, AbortRun, Rollback
  <2> QED BY <1>1, <2>1, UntouchedHeld DEF Untouched
<1> QED BY <1>3, <1>4

(* A crash disturbs the files it cuts tasks off; the others have none.     *)
LEMMA CrashHeld ==
  ASSUME TypeOK, KeysOwned, KeysOwned', NEW f \in Files \ disturbed', FileHeld(f), Crash
  PROVE  FileHeld(f)'
<1>1. ~InFlight(f) /\ UNCHANGED <<s3Key, bucket>>
  BY DEF Crash
<1>2. \A t \in Tasks : task'[t] = NoTask
  BY DEF Crash
<1>3. \A t \in Tasks : ~Works(t, f)' /\ task'[t].at # "removing"
  BY <1>2 DEF Works, TouchesS3, NoTask
<1>4. ~InFlight(f)'
  BY <1>3, InFlightWorks
<1>5. status'[f] = status[f] \/ status'[f] = "gone"
  BY DEF Crash, Rollback
<1>6. CASE status'[f] = "gone"
  BY <1>3, <1>6, GoneHeld
<1>7. CASE status'[f] # "gone"
  <2>1. status'[f] = status[f] /\ Held(f)'
    BY <1>1, <1>5, <1>7 DEF FileHeld, Held
  <2> QED BY <1>1, <1>3, <1>4, <2>1 DEF FileHeld
<1> QED BY <1>6, <1>7

LEMMA RunStepHeld ==
  ASSUME TypeOK, KeysOwned, KeysOwned', ApprovalInv, VersionsInv, disturbed \subseteq disturbed',
         NEW f \in Files \ disturbed', Private(f), FileHeld(f),
         RunStep \/ Crash \/ \E d \in 1 .. MaxDate : CheckVersion(d)
  PROVE  FileHeld(f)'
<1>1. f \in Files \ disturbed
  OBVIOUS
<1>2. CASE CleanUp
  BY <1>1, <1>2, CleanUpHeld
<1>3. ASSUME NEW g \in Files, NEW k \in KeysFor[g], NEW v \in BOOLEAN, ExtractFile(g, k, v)
      PROVE  FileHeld(f)'
  BY <1>3, ExtractFileHeld
<1>4. CASE ExtractNothing \/ \E d \in 1 .. MaxDate : CheckVersion(d)
  BY <1>4, CheckOrEmptyHeld
<1>5. CASE StoreNew
  BY <1>5, StoreNewHeld
<1>6. CASE CommitRun \/ AbortRun
  BY <1>1, <1>6, RunEndHeld
<1>7. CASE Crash
  BY <1>7, CrashHeld
<1> QED BY <1>2, <1>3, <1>4, <1>5, <1>6, <1>7 DEF RunStep

LEMMA NextObjects ==
  ASSUME TypeOK, ApprovalInv, VersionsInv, ObjectsInv, [Next]_vars
  PROVE  ObjectsInv'
<1>1. KeysOwned /\ KeysOwned'
  BY NextOwned DEF ObjectsInv
<1>2. disturbed \subseteq disturbed'
  BY DisturbedGrows
<1>3. ASSUME NEW f \in Files \ disturbed', Private(f) PROVE FileHeld(f)'
  <2>1. FileHeld(f)
    BY <1>2, <1>3 DEF ObjectsInv
  <2>2. CASE UNCHANGED vars
    <3>1. UNCHANGED <<status, s3Key, bucket, task>>
      BY <2>2 DEF vars, fileRows
    <3> QED BY <1>1, <2>1, <3>1, UntouchedHeld DEF Untouched, SameTasks
  <2>3. ASSUME NEW g \in Files, FileRoute(g) PROVE FileHeld(f)'
    BY <1>1, <1>3, <2>1, <2>3, RouteHeld
  <2>4. ASSUME NEW t \in Tasks, TaskStep(t) PROVE FileHeld(f)'
    <3>1. CASE Works(t, f)
      BY <1>1, <1>3, <2>1, <2>4, <3>1, WorkStepHeld
    <3>2. CASE ~Works(t, f)
      BY <1>1, <1>3, <2>1, <2>4, <3>2, OtherStepHeld
    <3> QED BY <3>1, <3>2
  <2>5. CASE RunStep \/ Crash \/ \E d \in 1 .. MaxDate : CheckVersion(d)
    BY <1>1, <1>2, <1>3, <2>1, <2>5, RunStepHeld
  <2>6. CASE Copying
    BY <1>1, <1>3, <2>1, <2>6, CopyingHeld
  <2> QED BY <2>2, <2>3, <2>4, <2>5, <2>6, NextCases
<1>4. \A f : Private(f)' <=> Private(f)
  BY DEF Private
<1> QED BY <1>1, <1>3, <1>4 DEF ObjectsInv

(* The key of a row whose tasks have ended leads to its content: no        *)
(* interleaving of edits, moves, approvals, deletions, runs and failing    *)
(* steps of recompute_s3_location leaves a row pointing at an object that  *)
(* is missing or another file's, but for the files the property excepts.   *)
THEOREM RowsKeepTheirObjects == Spec => []RowsPointAtObjects
<1>1. Init => ApprovalInv /\ VersionsInv /\ ObjectsInv
  <2> SUFFICES ASSUME Init PROVE ApprovalInv /\ VersionsInv /\ ObjectsInv
    OBVIOUS
  <2>1. ApprovalInv
    BY DEF Init, ApprovalInv, PublishedWasApproved, RowsApproved, TasksApproved,
           CopiesApproved, RunApproved, Publishing, NoTask, NoCopy, NoRun, Unread
  <2>2. VersionsInv
    BY DEF Init, VersionsInv, NoRun
  <2>3. KeysOwned
    <3>1. \A f \in Files : keyOf[f] \in KeysFor[f] /\ s3Key[f] = None
      BY DEF Init, AnyKey
    <3>2. \A t \in Tasks : TaskOwned(task[t])
      BY NoTaskOwned DEF Init
    <3> QED BY <3>1, <3>2 DEF KeysOwned, Init, NoRun
  <2>4. \A f \in Files : FileHeld(f)
    BY DEF Init, FileHeld, InFlight, Works, TouchesS3, NoTask, Held
  <2> QED BY <2>1, <2>2, <2>3, <2>4 DEF ObjectsInv
<1>2. TypeOK /\ ApprovalInv /\ VersionsInv /\ ObjectsInv /\ [Next]_vars
        => ApprovalInv' /\ VersionsInv' /\ ObjectsInv'
  BY NextApproved, NextVersions, NextObjects
<1>3. ObjectsInv => RowsPointAtObjects
  BY DEF ObjectsInv, RowsPointAtObjects, FileHeld, Held, Exists, FileStatus, Verdict
<1> QED BY <1>1, <1>2, <1>3, TypeCorrect, PTL DEF Spec
=============================================================================
