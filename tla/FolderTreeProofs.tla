--------------------------- MODULE FolderTreeProofs ---------------------------
(***************************************************************************)
(* Theorems about FolderTree, for every number of folders, files, clients, *)
(* names, knowledge bases and faults.                                      *)
(***************************************************************************)
EXTENDS FolderTree, FiniteSetTheorems, SequenceTheorems, WellFoundedInduction, TLAPS

(* The checks of a request, which only change the request.                 *)
Checks(c) ==
  \/ \E p \in Folders \union {None}, t \in Targets, n \in Names : CheckCreate(c, p, t, n)
  \/ \E d \in Folders, n \in Names : CheckRename(c, d, n)
  \/ \E d \in Folders : CheckAdd(c, d)
  \/ \E f \in Files, d \in Folders \union {None} : CheckMove(c, f, d)

LEMMA NothingTyped == Nothing \in Ask
BY DEF Nothing, Ask, None

LEMMA EndsTyped ==
  ASSUME TypeOK, NEW c \in Clients, Ends(c)
  PROVE  /\ op' \in [Clients -> Operation]
         /\ ask' \in [Clients -> Ask]
         /\ tree' \in [Clients -> SUBSET Folders]
         /\ keys' \in [Clients -> SUBSET Files]
         /\ doomed' \in [Clients -> SUBSET Files]
BY NothingTyped DEF TypeOK, Ends, Operation

LEMMA AsksTyped ==
  ASSUME TypeOK, NEW c \in Clients, NEW o \in Operation, NEW a \in Ask, Asks(c, o, a)
  PROVE  /\ op' \in [Clients -> Operation]
         /\ ask' \in [Clients -> Ask]
         /\ UNCHANGED <<tree, keys, doomed>>
BY DEF TypeOK, Asks

LEMMA ChecksTyped ==
  ASSUME TypeOK, NEW c \in Clients, Checks(c)
  PROVE  TypeOK'
<1>1. \E o \in Operation, a \in Ask : Asks(c, o, a)
  <2>1. ASSUME NEW p \in Folders \union {None}, NEW t \in Targets, NEW n \in Names,
               CheckCreate(c, p, t, n)
        PROVE  \E o \in Operation, a \in Ask : Asks(c, o, a)
    BY <2>1 DEF CheckCreate, Operation, Ask
  <2>2. ASSUME NEW d \in Folders, NEW n \in Names, CheckRename(c, d, n)
        PROVE  \E o \in Operation, a \in Ask : Asks(c, o, a)
    BY <2>2 DEF CheckRename, Operation, Ask, TypeOK
  <2>3. ASSUME NEW d \in Folders, CheckAdd(c, d)
        PROVE  \E o \in Operation, a \in Ask : Asks(c, o, a)
    BY <2>3 DEF CheckAdd, Operation, Ask, TypeOK
  <2>4. ASSUME NEW f \in Files, NEW d \in Folders \union {None}, CheckMove(c, f, d)
        PROVE  \E o \in Operation, a \in Ask : Asks(c, o, a)
    BY <2>4 DEF CheckMove, Operation, Ask
  <2> QED BY <2>1, <2>2, <2>3, <2>4 DEF Checks
<1>2. UNCHANGED <<folderRows, fileRows, storage, history>>
  BY DEF Checks, CheckCreate, CheckRename, CheckAdd, CheckMove
<1> QED BY <1>1, <1>2, AsksTyped DEF TypeOK, folderRows, fileRows, storage, history

LEMMA FolderStepTyped ==
  ASSUME TypeOK, NEW c \in Clients, CommitCreate(c) \/ CommitRename(c) \/ DeleteEmpty(c) \/ Abort(c)
  PROVE  TypeOK'
<1> USE DEF TypeOK, fileRows, storage, history, folderRows
<1> ask[c] \in Ask
  OBVIOUS
<1>1. CASE CommitCreate(c)
  <2>1. made' \in 0 .. MaxFolders /\ made' \in Folders
    BY <1>1, FolderBounds DEF CommitCreate, Folders
  <2>2. /\ parent' \in [Folders -> Folders \union {None}]
        /\ target' \in [Folders -> Targets \union {None}]
        /\ name' \in [Folders -> Names \union {None}]
        /\ folders' \subseteq Folders
    BY <1>1, <2>1 DEF CommitCreate, Ask
  <2>3. Ends(c) /\ UNCHANGED <<fileRows, storage, history>>
    BY <1>1 DEF CommitCreate
  <2> QED BY <2>1, <2>2, <2>3, EndsTyped
<1>2. CASE CommitRename(c)
  <2>1. name' \in [Folders -> Names \union {None}] /\ Ends(c)
    BY <1>2 DEF CommitRename, Ask
  <2> QED BY <1>2, <2>1, EndsTyped DEF CommitRename
<1>3. CASE DeleteEmpty(c)
  <2>1. /\ parent' \in [Folders -> Folders \union {None}]
        /\ target' \in [Folders -> Targets \union {None}]
        /\ name' \in [Folders -> Names \union {None}]
        /\ folders' \subseteq Folders /\ made' = made
    BY <1>3 DEF DeleteEmpty, RemoveFolders, Without
  <2>2. folderOf' \in [Files -> Folders \union {None}] /\ Ends(c)
    BY <1>3 DEF DeleteEmpty, Unfiled
  <2> QED BY <1>3, <2>1, <2>2, EndsTyped DEF DeleteEmpty
<1>4. CASE Abort(c)
  BY <1>4, EndsTyped DEF Abort
<1> QED BY <1>1, <1>2, <1>3, <1>4

LEMMA FileStepTyped ==
  ASSUME TypeOK, NEW c \in Clients,
         \/ \E f \in Files : CommitAdd(c, f) \/ RemoveObject(c, f)
         \/ CommitMove(c) \/ SyncAfterCascade(c)
  PROVE  TypeOK'
<1> USE DEF TypeOK, fileRows, storage, history, folderRows
<1> ask[c] \in Ask
  OBVIOUS
<1>1. ASSUME NEW f \in Files, CommitAdd(c, f) PROVE TypeOK'
  <2>1. /\ folderOf' \in [Files -> Folders \union {None}]
        /\ fileTarget' \in [Files -> Targets \union {None}]
        /\ files' \subseteq Files /\ keyed' \subseteq files' /\ deleted' \subseteq Files \ files'
    BY <1>1 DEF CommitAdd, Ask
  <2> QED BY <1>1, <2>1, EndsTyped DEF CommitAdd
<1>2. CASE CommitMove(c)
  <2>1. folderOf' \in [Files -> Folders \union {None}] /\ Ends(c)
    BY <1>2 DEF CommitMove, Ask
  <2> QED BY <1>2, <2>1, EndsTyped DEF CommitMove
<1>3. ASSUME NEW f \in Files, RemoveObject(c, f) PROVE TypeOK'
  <2>1. keys' \in [Clients -> SUBSET Files]
    BY <1>3 DEF RemoveObject
  <2>2. bucket' \subseteq Files /\ orphaned' \subseteq Files /\ faults' \in Nat
    BY <1>3 DEF RemoveObject, Fault
  <2> QED BY <1>3, <2>1, <2>2 DEF RemoveObject
<1>4. CASE SyncAfterCascade(c)
  <2>1. indexed' \subseteq Files /\ orphaned' \subseteq Files /\ faults' \in Nat
    BY <1>4 DEF SyncAfterCascade, Fault
  <2> QED BY <1>4, <2>1, EndsTyped DEF SyncAfterCascade
<1> QED BY <1>1, <1>2, <1>3, <1>4

LEMMA StoreTyped ==
  ASSUME TypeOK, NEW f \in Files, BeginStore(f) \/ PutObject(f) \/ SaveKey(f)
  PROVE  TypeOK'
<1> USE DEF TypeOK, fileRows, storage, history, folderRows, requests
<1>1. CASE BeginStore(f) \/ PutObject(f)
  BY <1>1 DEF BeginStore, PutObject
<1>2. CASE SaveKey(f)
  <2>1. keyed' \subseteq files' /\ orphaned' \subseteq Files /\ indexed' \subseteq Files
    BY <1>2 DEF SaveKey
  <2> QED BY <1>2, <2>1 DEF SaveKey
<1> QED BY <1>1, <1>2

LEMMA CascadeTyped ==
  ASSUME TypeOK, NEW c \in Clients,
         \/ \E d \in Folders : CheckDelete(c, d)
         \/ CollectKeys(c) \/ DeleteFiles(c) \/ DropFolders(c)
  PROVE  TypeOK'
<1> USE DEF TypeOK, fileRows, storage, history, folderRows
<1>1. ASSUME NEW d \in Folders, CheckDelete(c, d) PROVE TypeOK'
  <2>1. op' \in [Clients -> Operation]
    BY <1>1 DEF CheckDelete, Operation
  <2>2. tree' \in [Clients -> SUBSET Folders]
    BY <1>1 DEF CheckDelete, Subtree
  <2>3. ask' \in [Clients -> Ask]
    BY <1>1 DEF CheckDelete, Ask
  <2> QED BY <1>1, <2>1, <2>2, <2>3 DEF CheckDelete
<1>2. CASE CollectKeys(c)
  BY <1>2 DEF CollectKeys, Operation
<1>3. CASE DeleteFiles(c)
  BY <1>3 DEF DeleteFiles, Content, Operation
<1>4. CASE DropFolders(c)
  <2>1. /\ parent' \in [Folders -> Folders \union {None}]
        /\ target' \in [Folders -> Targets \union {None}]
        /\ name' \in [Folders -> Names \union {None}]
        /\ folders' \subseteq Folders /\ made' = made
    BY <1>4 DEF DropFolders, RemoveFolders, Without
  <2>2. folderOf' \in [Files -> Folders \union {None}]
    BY <1>4 DEF DropFolders, Unfiled
  <2>3. fileTarget' \in [Files -> Targets \union {None}]
    BY <1>4 DEF DropFolders
  <2>4. files' \subseteq Files /\ keyed' \subseteq files' /\ deleted' \subseteq Files \ files'
    BY <1>4 DEF DropFolders
  <2>5. escaped' \subseteq Files /\ orphaned' \subseteq Files /\ UNCHANGED <<storage, faults>>
    BY <1>4 DEF DropFolders
  <2>6. /\ op' \in [Clients -> Operation]
        /\ ask' \in [Clients -> Ask]
        /\ tree' \in [Clients -> SUBSET Folders]
        /\ keys' \in [Clients -> SUBSET Files]
        /\ doomed' \in [Clients -> SUBSET Files]
    <3>1. CASE keys[c] = {}
      BY <1>4, <3>1, EndsTyped DEF DropFolders
    <3>2. CASE keys[c] # {}
      BY <1>4, <3>2, NothingTyped DEF DropFolders, Operation
    <3> QED BY <3>1, <3>2
  <2> QED BY <2>1, <2>2, <2>3, <2>4, <2>5, <2>6
<1> QED BY <1>1, <1>2, <1>3, <1>4

LEMMA CrashTyped == TypeOK /\ Crash => TypeOK'
<1> SUFFICES ASSUME TypeOK, Crash PROVE TypeOK'
  OBVIOUS
<1> USE DEF TypeOK, Crash
<1>1. faults' \in Nat
  BY DEF Fault
<1>2. ask' \in [Clients -> Ask] /\ op' \in [Clients -> Operation]
  BY NothingTyped DEF Operation
<1>3. orphaned' \subseteq Files
  OBVIOUS
<1> QED BY <1>1, <1>2, <1>3 DEF folderRows, fileRows

(* The actions of a request, by what they may change.                      *)
LEMMA RequestSteps ==
  ASSUME NEW c \in Clients, FolderRequest(c) \/ FileRequest(c) \/ DeleteRequest(c)
  PROVE  \/ Checks(c)
         \/ CommitCreate(c) \/ CommitRename(c) \/ DeleteEmpty(c) \/ Abort(c)
         \/ \E f \in Files : CommitAdd(c, f) \/ RemoveObject(c, f)
         \/ CommitMove(c) \/ SyncAfterCascade(c)
         \/ \E d \in Folders : CheckDelete(c, d)
         \/ CollectKeys(c) \/ DeleteFiles(c) \/ DropFolders(c)
BY DEF FolderRequest, FileRequest, DeleteRequest, Checks

(* Type correctness of folders, files, requests and storage.               *)
THEOREM TypeCorrect == Spec => []TypeOK
<1>1. Init => TypeOK
  BY NothingTyped, FolderBounds DEF Init, TypeOK, Operation
<1>2. TypeOK /\ [Next]_vars => TypeOK'
  <2> SUFFICES ASSUME TypeOK, [Next]_vars PROVE TypeOK'
    OBVIOUS
  <2>1. ASSUME NEW c \in Clients, FolderRequest(c) \/ FileRequest(c) \/ DeleteRequest(c)
        PROVE  TypeOK'
    <3>1. CASE Checks(c)
      BY <3>1, ChecksTyped
    <3>2. CASE CommitCreate(c) \/ CommitRename(c) \/ DeleteEmpty(c) \/ Abort(c)
      BY <3>2, FolderStepTyped
    <3>3. CASE \/ \E f \in Files : CommitAdd(c, f) \/ RemoveObject(c, f)
               \/ CommitMove(c) \/ SyncAfterCascade(c)
      BY <3>3, FileStepTyped
    <3>4. CASE \/ \E d \in Folders : CheckDelete(c, d)
               \/ CollectKeys(c) \/ DeleteFiles(c) \/ DropFolders(c)
      BY <3>4, CascadeTyped
    <3> QED BY <2>1, <3>1, <3>2, <3>3, <3>4, RequestSteps
  <2>2. ASSUME NEW f \in Files, BeginStore(f) \/ PutObject(f) \/ SaveKey(f) PROVE TypeOK'
    BY <2>2, StoreTyped
  <2>3. CASE Crash
    BY <2>3, CrashTyped
  <2>4. CASE UNCHANGED vars
    BY <2>4 DEF vars, TypeOK, folderRows, fileRows, requests, storage, history
  <2> QED BY <2>1, <2>2, <2>3, <2>4 DEF Next
<1> QED BY <1>1, <1>2, PTL DEF Spec

-----------------------------------------------------------------------------
(* The actions that change the rows of folders.                            *)
LEMMA FolderRowSteps ==
  ASSUME [Next]_vars
  PROVE  \/ UNCHANGED folderRows
         \/ \E c \in Clients :
              CommitCreate(c) \/ CommitRename(c) \/ DeleteEmpty(c) \/ DropFolders(c)
<1>1. ASSUME NEW c \in Clients, FolderRequest(c) \/ FileRequest(c) \/ DeleteRequest(c),
             ~(CommitCreate(c) \/ CommitRename(c) \/ DeleteEmpty(c) \/ DropFolders(c))
      PROVE  UNCHANGED folderRows
  <2>1. CASE Checks(c)
    BY <2>1 DEF Checks, CheckCreate, CheckRename, CheckAdd, CheckMove
  <2>2. CASE Abort(c) \/ CommitMove(c) \/ SyncAfterCascade(c) \/ CollectKeys(c) \/ DeleteFiles(c)
    BY <2>2 DEF Abort, CommitMove, SyncAfterCascade, CollectKeys, DeleteFiles
  <2>3. CASE \E f \in Files : CommitAdd(c, f) \/ RemoveObject(c, f)
    BY <2>3 DEF CommitAdd, RemoveObject
  <2>4. CASE \E d \in Folders : CheckDelete(c, d)
    BY <2>4 DEF CheckDelete
  <2> QED BY <1>1, <2>1, <2>2, <2>3, <2>4, RequestSteps
<1>2. ASSUME NEW f \in Files, BeginStore(f) \/ PutObject(f) \/ SaveKey(f)
      PROVE  UNCHANGED folderRows
  BY <1>2 DEF BeginStore, PutObject, SaveKey
<1>3. CASE Crash
  BY <1>3 DEF Crash
<1>4. CASE UNCHANGED vars
  BY <1>4 DEF vars
<1> QED BY <1>1, <1>2, <1>3, <1>4 DEF Next

(* Removing folders leaves the columns of the others alone.                *)
LEMMA FoldersRemain ==
  ASSUME TypeOK, NEW ds, RemoveFolders(ds)
  PROVE  /\ folders' = folders \ ds /\ made' = made
         /\ \A d \in folders' : /\ parent'[d] = parent[d]
                              /\ target'[d] = target[d]
                              /\ name'[d] = name[d]
BY DEF TypeOK, RemoveFolders, Without

(* What a created folder brings: its own columns, and nothing else.        *)
LEMMA FolderCreated ==
  ASSUME TypeOK, NEW c \in Clients, CommitCreate(c)
  PROVE  /\ made' = made + 1 /\ folders' = folders \union {made'}
         /\ parent'[made'] = ask[c].folder
         /\ target'[made'] = ask[c].target
         /\ name'[made'] = ask[c].name
         /\ \A d \in folders \ {made'} : /\ parent'[d] = parent[d]
                                        /\ target'[d] = target[d]
                                        /\ name'[d] = name[d]
<1>1. made' \in Folders
  BY FolderBounds DEF CommitCreate, TypeOK, Folders
<1> QED BY <1>1 DEF CommitCreate, TypeOK

(* Two requests that passed the check for one name cannot both be written: *)
(* siblings, and roots of one knowledge base, keep different names.        *)
THEOREM SiblingsStayDistinct == Spec => []SiblingsDiffer
<1>1. Init => SiblingsDiffer
  BY DEF Init, SiblingsDiffer
<1>2. TypeOK /\ SiblingsDiffer /\ [Next]_vars => SiblingsDiffer'
  <2> SUFFICES ASSUME TypeOK, SiblingsDiffer, [Next]_vars PROVE SiblingsDiffer'
    OBVIOUS
  <2>1. CASE UNCHANGED folderRows
    BY <2>1 DEF SiblingsDiffer, folderRows
  <2>2. ASSUME NEW c \in Clients, CommitCreate(c) PROVE SiblingsDiffer'
    <3>1. \A e \in folders \ {made'} :
            parent[e] = ask[c].folder /\ name[e] = ask[c].name =>
              ask[c].folder = None /\ target[e] # ask[c].target
      BY <2>2 DEF CommitCreate, Taken, None, TypeOK, Folders
    <3> QED BY <2>2, <3>1, FolderCreated DEF SiblingsDiffer
  <2>3. ASSUME NEW c \in Clients, CommitRename(c) PROVE SiblingsDiffer'
    <3> DEFINE d == ask[c].folder
    <3>1. /\ d \in folders /\ name' = [name EXCEPT ![d] = ask[c].name]
          /\ UNCHANGED <<folders, parent, target>>
          /\ ~Taken(parent[d], target[d], ask[c].name, d)
      BY <2>3 DEF CommitRename
    <3>2. \A e \in folders \ {d} : parent[e] = parent[d] /\ name[e] = ask[c].name =>
            parent[d] = None /\ target[e] # target[d]
      BY <3>1 DEF Taken
    <3>3. name'[d] = ask[c].name /\ \A e \in folders \ {d} : name'[e] = name[e]
      BY <3>1 DEF TypeOK
    <3> HIDE DEF d
    <3> QED BY <3>1, <3>2, <3>3 DEF SiblingsDiffer
  <2>4. ASSUME NEW c \in Clients, DeleteEmpty(c) \/ DropFolders(c) PROVE SiblingsDiffer'
    <3>1. PICK ds : RemoveFolders(ds)
      BY <2>4 DEF DeleteEmpty, DropFolders
    <3> QED BY <3>1, FoldersRemain DEF SiblingsDiffer
  <2> QED BY <2>1, <2>2, <2>3, <2>4, FolderRowSteps
<1> QED BY <1>1, <1>2, TypeCorrect, PTL DEF Spec

-----------------------------------------------------------------------------
(* The knowledge base of a folder and of its files.                        *)

(* A request that ends, or that only moves on, decides nothing any more.   *)
Settles(c) ==
  \/ op'[c] = op[c] /\ ask'[c] = ask[c]
  \/ op'[c] \notin {"create", "add", "move"} /\ ask'[c].folder \in {ask[c].folder, None}

LEMMA EndsSettle ==
  ASSUME TypeOK, NEW c \in Clients, Ends(c)
  PROVE  /\ \A b \in Clients : Settles(b)
         /\ op'[c] = "idle" /\ ask'[c].folder = 0
         /\ \A b \in Clients \ {c} : op'[b] = op[b] /\ ask'[b] = ask[b]
BY DEF TypeOK, Ends, Settles, Nothing, None

LEMMA SettledKeepsTargets ==
  ASSUME TypeOK, StillAsRead, TargetsInherited,
         UNCHANGED <<folderRows, files, folderOf, fileTarget, deleted>>,
         \A c \in Clients : Settles(c)
  PROVE  StillAsRead' /\ TargetsInherited'
<1>1. \A c \in Clients : ask'[c].folder \in 0 .. made
  BY DEF StillAsRead, Settles, None, folderRows, TypeOK
<1>2. \A c \in Clients : op'[c] \in {"create", "add", "move"} => op'[c] = op[c] /\ ask'[c] = ask[c]
  BY DEF Settles
<1>3. StillAsRead'
  BY <1>1, <1>2 DEF StillAsRead, folderRows
<1>4. TargetsInherited'
  BY DEF TargetsInherited, folderRows
<1> QED BY <1>3, <1>4

LEMMA ReadingKeepsTargets ==
  ASSUME TypeOK, StillAsRead, TargetsInherited, NEW c \in Clients,
         Checks(c) \/ \E d \in Folders : CheckDelete(c, d)
  PROVE  StillAsRead' /\ TargetsInherited'
<1>1. UNCHANGED <<folderRows, fileRows>>
  BY DEF Checks, CheckCreate, CheckRename, CheckAdd, CheckMove, CheckDelete
<1>2. TargetsInherited'
  BY <1>1 DEF TargetsInherited, folderRows, fileRows
<1>3. ASSUME NEW o, NEW a, op' = [op EXCEPT ![c] = o], ask' = [ask EXCEPT ![c] = a],
             a.folder \in folders \union {None},
             o \in {"create", "add"} /\ a.folder \in folders => target[a.folder] = a.target,
             o = "move" => /\ a.file \in files
                           /\ a.folder \in folders => target[a.folder] = fileTarget[a.file]
      PROVE  StillAsRead'
  <2>1. /\ op'[c] = o /\ ask'[c] = a
        /\ \A b \in Clients \ {c} : op'[b] = op[b] /\ ask'[b] = ask[b]
    BY <1>3 DEF TypeOK
  <2>2. made \in Nat
    BY FolderBounds DEF TypeOK
  <2>3. a.folder \in 0 .. made
    <3> DEFINE d == a.folder
    <3>1. d \in folders \union {0}
      BY <1>3 DEF None
    <3>2. folders \subseteq 1 .. made
      BY DEF StillAsRead
    <3> HIDE DEF d
    <3>3. d \in 0 .. made
      BY <2>2, <3>1, <3>2
    <3> QED BY <3>3 DEF d
  <2>4. UNCHANGED <<folders, made, target, files, deleted, fileTarget>>
    BY <1>1 DEF folderRows, fileRows
  <2> QED BY <1>3, <2>1, <2>3, <2>4 DEF StillAsRead
<1>4. ASSUME NEW p \in Folders \union {None}, NEW t \in Targets, NEW n \in Names,
             CheckCreate(c, p, t, n)
      PROVE  StillAsRead'
  <2> DEFINE a == [folder |-> p, file |-> None, target |-> t, name |-> n]
  <2>1. op' = [op EXCEPT ![c] = "create"] /\ ask' = [ask EXCEPT ![c] = a]
    BY <1>4 DEF CheckCreate, Asks
  <2>2. p \in folders \union {None} /\ (p \in folders => target[p] = t)
    BY <1>4, FolderBounds DEF CheckCreate, None, TypeOK, Folders
  <2>3. a.folder = p /\ a.target = t
    OBVIOUS
  <2> HIDE DEF a
  <2> QED BY <1>3, <2>1, <2>2, <2>3
<1>5. ASSUME NEW d \in Folders, NEW n \in Names, CheckRename(c, d, n)
      PROVE  StillAsRead'
  BY <1>3, <1>5 DEF CheckRename, Asks
<1>6. ASSUME NEW d \in Folders, CheckAdd(c, d) PROVE StillAsRead'
  BY <1>3, <1>6 DEF CheckAdd, Asks
<1>7. ASSUME NEW f \in Files, NEW d \in Folders \union {None}, CheckMove(c, f, d)
      PROVE  StillAsRead'
  <2> DEFINE a == [folder |-> d, file |-> f, target |-> None, name |-> None]
  <2>1. op' = [op EXCEPT ![c] = "move"] /\ ask' = [ask EXCEPT ![c] = a]
    BY <1>7 DEF CheckMove, Asks
  <2>2. /\ f \in files /\ d \in folders \union {None}
        /\ d \in folders => target[d] = fileTarget[f]
    BY <1>7, FolderBounds DEF CheckMove, MayMove, None, TypeOK, Folders
  <2>3. a.folder = d /\ a.file = f
    OBVIOUS
  <2> HIDE DEF a
  <2> QED BY <1>3, <2>1, <2>2, <2>3
<1>8. ASSUME NEW d \in Folders, CheckDelete(c, d) PROVE StillAsRead'
  <2> DEFINE o == IF Children(d) = {} /\ Content({d}) = {} THEN "delete" ELSE "collect"
  <2>1. op' = [op EXCEPT ![c] = o] /\ o \notin {"create", "add", "move"}
    BY <1>8 DEF CheckDelete
  <2> HIDE DEF o
  <2> QED BY <1>3, <1>8, <2>1 DEF CheckDelete
<1> QED BY <1>2, <1>4, <1>5, <1>6, <1>7, <1>8 DEF Checks

LEMMA CreateKeepsTargets ==
  ASSUME TypeOK, StillAsRead, TargetsInherited, NEW c \in Clients, CommitCreate(c)
  PROVE  StillAsRead' /\ TargetsInherited'
<1> DEFINE p == ask[c].folder
<1>1. made' \notin folders /\ made' = made + 1 /\ made \in Nat /\ made' # None
  BY FolderCreated, FolderBounds DEF StillAsRead, TypeOK, None
<1>2. p \in folders => target[p] = target'[made'] /\ target'[p] = target[p]
  BY <1>1, FolderCreated DEF StillAsRead, CommitCreate
<1>3. UNCHANGED <<files, folderOf, fileTarget, deleted>> /\ Ends(c)
  BY DEF CommitCreate, fileRows
<1>4. parent'[made'] = p /\ p \in folders \union {None}
  BY FolderCreated DEF CommitCreate
<1> HIDE DEF p
<1>5. \A d \in folders' : parent'[d] # None =>
        parent'[d] \in folders' /\ target'[parent'[d]] = target'[d]
  BY <1>1, <1>2, <1>4, FolderCreated DEF TargetsInherited
<1>6. \A f \in files' : folderOf'[f] # None =>
        folderOf'[f] \in folders' /\ target'[folderOf'[f]] = fileTarget'[f]
  BY <1>1, <1>3, FolderCreated DEF TargetsInherited
<1>7. StillAsRead'
  <2>1. /\ op'[c] = "idle" /\ ask'[c].folder = 0
        /\ \A b \in Clients \ {c} : op'[b] = op[b] /\ ask'[b] = ask[b]
    BY <1>3, EndsSettle
  <2>2. /\ folders' \subseteq 1 .. made'
        /\ \A b \in Clients : ask'[b].folder \in 0 .. made'
    <3>1. folders' = folders \union {made'}
      BY FolderCreated
    <3>2. \A b \in Clients : ask'[b].folder \in 0 .. made
      BY <1>1, <2>1 DEF StillAsRead
    <3> QED BY <1>1, <3>1, <3>2 DEF StillAsRead
  <2>3. \A b \in Clients \ {c} : ask[b].folder # made'
    BY <1>1 DEF StillAsRead
  <2>4. \A b \in Clients \ {c} : ask[b].folder \in folders' =>
          ask[b].folder \in folders /\ target'[ask[b].folder] = target[ask[b].folder]
    BY <2>3, FolderCreated
  <2> QED BY <1>3, <2>1, <2>2, <2>4 DEF StillAsRead
<1> QED BY <1>5, <1>6, <1>7 DEF TargetsInherited

LEMMA RemovalKeepsTargets ==
  ASSUME TypeOK, StillAsRead, TargetsInherited, NEW ds, NEW mine, NEW c \in Clients,
         Restricted(ds, mine), RemoveFolders(ds), folderOf' = Unfiled(ds),
         files' \subseteq files, files \union deleted \subseteq files' \union deleted',
         \A f \in files' : fileTarget'[f] = fileTarget[f],
         \A b \in Clients : Settles(b)
  PROVE  StillAsRead' /\ TargetsInherited'
<1>1. \A d \in folders' : d \in folders /\ d \notin ds /\ parent'[d] = parent[d] /\ target'[d] = target[d]
  BY FoldersRemain
<1>2. \A d \in folders' : parent[d] # None => parent[d] \in folders'
  BY <1>1, FoldersRemain DEF Restricted, TargetsInherited
<1>3. \A f \in files' : folderOf'[f] # None => folderOf'[f] = folderOf[f] /\ folderOf[f] \notin ds
  BY DEF Unfiled, TypeOK
<1>4. \A f \in files' : folderOf'[f] # None => folderOf'[f] \in folders'
  BY <1>3, FoldersRemain DEF TargetsInherited
<1>5. TargetsInherited'
  BY <1>1, <1>2, <1>3, <1>4 DEF TargetsInherited
<1>6. made' = made /\ folders' \subseteq folders
  BY FoldersRemain
<1>7. \A b \in Clients : ask'[b].folder \in 0 .. made
  BY DEF StillAsRead, Settles, None, TypeOK
<1>8. \A b \in Clients : op'[b] \in {"create", "add", "move"} => op'[b] = op[b] /\ ask'[b] = ask[b]
  BY DEF Settles
<1>9. StillAsRead'
  BY <1>1, <1>6, <1>7, <1>8 DEF StillAsRead
<1> QED BY <1>5, <1>9

LEMMA FileWritesKeepTargets ==
  ASSUME TypeOK, StillAsRead, TargetsInherited, NEW c \in Clients,
         CommitMove(c) \/ \E f \in Files : CommitAdd(c, f)
  PROVE  StillAsRead' /\ TargetsInherited'
<1>1. /\ UNCHANGED <<folders, parent, target, made>> /\ deleted' = deleted /\ Ends(c)
  BY DEF CommitMove, CommitAdd, folderRows
<1>2. /\ \A b \in Clients : ask'[b].folder \in 0 .. made
      /\ op'[c] = "idle"
      /\ \A b \in Clients \ {c} : op'[b] = op[b] /\ ask'[b] = ask[b]
  <2>1. made \in Nat
    BY FolderBounds DEF TypeOK
  <2> QED BY <1>1, <2>1, EndsSettle DEF StillAsRead
<1>3. CASE CommitMove(c)
  <2> DEFINE g == ask[c].file
             d == ask[c].folder
  <2>1. /\ UNCHANGED <<files, fileTarget>>
        /\ g \in files /\ d \in folders \union {None}
        /\ d \in folders => target[d] = fileTarget[g]
        /\ folderOf' = [folderOf EXCEPT ![g] = d]
    BY <1>3 DEF CommitMove, StillAsRead
  <2>2. StillAsRead'
    BY <1>1, <1>2, <2>1 DEF StillAsRead
  <2>3. folderOf'[g] = d /\ \A f \in files \ {g} : folderOf'[f] = folderOf[f]
    BY <2>1 DEF TypeOK
  <2> HIDE DEF g, d
  <2>4. TargetsInherited'
    BY <1>1, <2>1, <2>3 DEF TargetsInherited
  <2> QED BY <2>2, <2>4
<1>4. ASSUME NEW f \in Files, CommitAdd(c, f) PROVE StillAsRead' /\ TargetsInherited'
  <2> DEFINE d == ask[c].folder
  <2>1. /\ f \notin files \union deleted /\ files' = files \union {f}
        /\ d \in folders /\ target[d] = ask[c].target
    BY <1>4 DEF CommitAdd, StillAsRead
  <2>2. /\ folderOf'[f] = d /\ fileTarget'[f] = ask[c].target
        /\ \A g \in files : folderOf'[g] = folderOf[g] /\ fileTarget'[g] = fileTarget[g]
    BY <1>4, <2>1 DEF CommitAdd, TypeOK
  <2> HIDE DEF d
  <2>3. TargetsInherited'
    BY <1>1, <2>1, <2>2 DEF TargetsInherited
  <2>4. \A b \in Clients \ {c} : op[b] = "move" => ask[b].file # f
    BY <2>1 DEF StillAsRead
  <2>5. StillAsRead'
    BY <1>1, <1>2, <2>1, <2>2, <2>4 DEF StillAsRead
  <2> QED BY <2>3, <2>5
<1> QED BY <1>3, <1>4

(* Every step keeps what requests have read, and where folders and files   *)
(* are, true.                                                              *)
LEMMA TargetsInductive ==
  ASSUME TypeOK, StillAsRead, TargetsInherited, [Next]_vars
  PROVE  StillAsRead' /\ TargetsInherited'
<1>1. ASSUME NEW c \in Clients, FolderRequest(c) \/ FileRequest(c) \/ DeleteRequest(c)
      PROVE  StillAsRead' /\ TargetsInherited'
  <2>1. CASE Checks(c) \/ \E d \in Folders : CheckDelete(c, d)
    BY <2>1, ReadingKeepsTargets
  <2>2. CASE CommitCreate(c)
    BY <2>2, CreateKeepsTargets
  <2>3. CASE CommitRename(c)
    <3>1. \A b \in Clients : Settles(b)
      BY <2>3, EndsSettle DEF CommitRename
    <3>2. UNCHANGED <<folders, parent, target, made, files, folderOf, fileTarget, deleted>>
      BY <2>3 DEF CommitRename, fileRows
    <3>3. StillAsRead'
      <4>1. \A b \in Clients : ask'[b].folder \in 0 .. made
        BY <3>1, FolderBounds DEF StillAsRead, Settles, None, TypeOK
      <4>2. \A b \in Clients : op'[b] \in {"create", "add", "move"} =>
              op'[b] = op[b] /\ ask'[b] = ask[b]
        BY <3>1 DEF Settles
      <4> QED BY <3>2, <4>1, <4>2 DEF StillAsRead
    <3> QED BY <3>2, <3>3 DEF TargetsInherited
  <2>4. CASE DeleteEmpty(c)
    <3>1. \A b \in Clients : Settles(b)
      BY <2>4, EndsSettle DEF DeleteEmpty
    <3> QED BY <2>4, <3>1, RemovalKeepsTargets DEF DeleteEmpty
  <2>5. CASE DropFolders(c)
    <3>1. \A b \in Clients : Settles(b)
      <4>1. CASE keys[c] = {}
        BY <2>5, <4>1, EndsSettle DEF DropFolders
      <4>2. CASE keys[c] # {}
        BY <2>5, <4>2 DEF DropFolders, Settles, Nothing, None, TypeOK
      <4> QED BY <4>1, <4>2
    <3>2. /\ files' = files \ doomed[c] /\ deleted' = deleted \union doomed[c]
          /\ fileTarget' = [f \in Files |-> IF f \in doomed[c] THEN None ELSE fileTarget[f]]
      BY <2>5 DEF DropFolders
    <3>3. \A f \in files' : fileTarget'[f] = fileTarget[f]
      BY <3>2 DEF TypeOK
    <3>4. deleted' \union files' = deleted \union files \union doomed[c]
      BY <3>2
    <3>5. StillAsRead' /\ TargetsInherited'
      BY <2>5, <3>1, <3>2, <3>3, <3>4, RemovalKeepsTargets DEF DropFolders
    <3> QED BY <3>5
  <2>6. CASE CommitMove(c) \/ \E f \in Files : CommitAdd(c, f)
    BY <2>6, FileWritesKeepTargets
  <2>7. CASE Abort(c) \/ SyncAfterCascade(c)
    BY <2>7, EndsSettle, SettledKeepsTargets DEF Abort, SyncAfterCascade, fileRows
  <2>8. CASE CollectKeys(c) \/ DeleteFiles(c) \/ \E f \in Files : RemoveObject(c, f)
    <3>1. \A b \in Clients : Settles(b)
      BY <2>8 DEF CollectKeys, DeleteFiles, RemoveObject, Settles, TypeOK
    <3> QED BY <2>8, <3>1, SettledKeepsTargets DEF CollectKeys, DeleteFiles, RemoveObject, fileRows
  <2> QED BY <1>1, <2>1, <2>2, <2>3, <2>4, <2>5, <2>6, <2>7, <2>8, RequestSteps
<1>2. ASSUME NEW f \in Files, BeginStore(f) \/ PutObject(f) \/ SaveKey(f)
      PROVE  StillAsRead' /\ TargetsInherited'
  BY <1>2, SettledKeepsTargets DEF BeginStore, PutObject, SaveKey, Settles, fileRows, requests
<1>3. CASE Crash
  <2>1. \A c \in Clients : Settles(c)
    BY <1>3 DEF Crash, Settles, Nothing
  <2> QED BY <1>3, <2>1, SettledKeepsTargets DEF Crash, fileRows
<1>4. CASE UNCHANGED vars
  BY <1>4, SettledKeepsTargets DEF vars, Settles, fileRows, requests
<1> QED BY <1>1, <1>2, <1>3, <1>4 DEF Next

(* Every folder has a live parent of its knowledge base, and every file is *)
(* in a live folder of its own, whatever was read and changed meanwhile.   *)
THEOREM FoldersKeepTheirTarget == Spec => []TargetsInherited
<1>1. Init => StillAsRead /\ TargetsInherited
  BY DEF Init, StillAsRead, TargetsInherited, Nothing, None
<1>2. TypeOK /\ StillAsRead /\ TargetsInherited /\ [Next]_vars
        => StillAsRead' /\ TargetsInherited'
  BY TargetsInductive
<1> QED BY <1>1, <1>2, TypeCorrect, PTL DEF Spec

-----------------------------------------------------------------------------
(* The objects of the files a cascade deletes, and of those it does not.   *)

LEMMA EndsCleaning ==
  ASSUME TypeOK, NEW c \in Clients, Ends(c)
  PROVE  /\ op'[c] = "idle" /\ keys'[c] = {}
         /\ \A b \in Clients \ {c} : op'[b] = op[b] /\ keys'[b] = keys[b]
BY DEF TypeOK, Ends

(* What a step does to the requests when it removes no key from a cascade. *)
CleaningKept ==
  \A b \in Clients :
    \/ op'[b] = op[b] /\ keys'[b] = keys[b]
    \/ op[b] # "cleaning" /\ op'[b] # "cleaning"
         /\ keys'[b] \in {{}, keys[b], Content(tree[b]) \intersect keyed}

LEMMA CleaningKeepsObjects ==
  ASSUME TypeOK, KeysInv, LeftoversInv, CleaningKept,
         UNCHANGED <<fileRows, storage, history>>
  PROVE  KeysInv' /\ LeftoversInv'
<1>1. \A b \in Clients : keys'[b] \subseteq files \union deleted
  BY DEF CleaningKept, KeysInv, Content
<1>2. \A b \in Clients : op'[b] = "cleaning" <=> op[b] = "cleaning"
  BY DEF CleaningKept
<1>3. \A b \in Clients : op[b] = "cleaning" => keys'[b] = keys[b]
  BY DEF CleaningKept
<1>4. KeysInv'
  BY <1>1, <1>2, <1>3 DEF KeysInv, fileRows, storage, history
<1>5. LeftoversInv'
  BY <1>2, <1>3 DEF LeftoversInv, fileRows, storage, history
<1> QED BY <1>4, <1>5

LEMMA RequestsKeepObjects ==
  ASSUME TypeOK, KeysInv, LeftoversInv, NEW c \in Clients,
         \/ Checks(c) \/ \E d \in Folders : CheckDelete(c, d)
         \/ CommitCreate(c) \/ CommitRename(c) \/ Abort(c)
         \/ CollectKeys(c) \/ DeleteFiles(c)
  PROVE  KeysInv' /\ LeftoversInv'
<1>1. UNCHANGED <<fileRows, storage, history>>
  BY DEF Checks, CheckCreate, CheckRename, CheckAdd, CheckMove, CheckDelete,
         CommitCreate, CommitRename, Abort, CollectKeys, DeleteFiles
<1>2. CleaningKept
  <2>1. CASE Checks(c)
    <3>1. PICK o, a : o \in Operation \ {"cleaning"} /\ Asks(c, o, a)
      BY <2>1 DEF Checks, CheckCreate, CheckRename, CheckAdd, CheckMove, Operation
    <3> QED BY <3>1 DEF CleaningKept, Asks, TypeOK
  <2>2. ASSUME NEW d \in Folders, CheckDelete(c, d) PROVE CleaningKept
    BY <2>2 DEF CleaningKept, CheckDelete, TypeOK
  <2>3. CASE CommitCreate(c) \/ CommitRename(c) \/ Abort(c)
    <3>1. op[c] # "cleaning" /\ Ends(c)
      BY <2>3 DEF CommitCreate, CommitRename, Abort
    <3> QED BY <3>1, EndsCleaning DEF CleaningKept
  <2>4. CASE CollectKeys(c) \/ DeleteFiles(c)
    BY <2>4 DEF CleaningKept, CollectKeys, DeleteFiles, TypeOK
  <2> QED BY <2>1, <2>2, <2>3, <2>4
<1> QED BY <1>1, <1>2, CleaningKeepsObjects

LEMMA FileWritesKeepObjects ==
  ASSUME TypeOK, KeysInv, LeftoversInv, NEW c \in Clients,
         \/ DeleteEmpty(c) \/ CommitMove(c) \/ \E f \in Files : CommitAdd(c, f)
  PROVE  KeysInv' /\ LeftoversInv'
<1>1. /\ op[c] # "cleaning" /\ Ends(c)
      /\ UNCHANGED <<keyed, deleted, storage, history>>
  BY DEF DeleteEmpty, CommitMove, CommitAdd
<1>2. /\ op'[c] = "idle" /\ keys'[c] = {}
      /\ \A b \in Clients \ {c} : op'[b] = op[b] /\ keys'[b] = keys[b]
  BY <1>1, EndsCleaning
<1>3. LeftoversInv'
  BY <1>1, <1>2 DEF LeftoversInv, storage, history
<1>4. files' = files => KeysInv'
  BY <1>1, <1>2 DEF KeysInv, storage, history
<1>5. ASSUME NEW f \in Files, CommitAdd(c, f) PROVE KeysInv'
  <2>1. f \notin files \union deleted /\ files' = files \union {f}
    BY <1>5 DEF CommitAdd
  <2>2. storing[f] = "no" /\ f \notin keyed /\ \A b \in Clients : f \notin keys[b]
    BY <2>1 DEF KeysInv, TypeOK
  <2> QED BY <1>1, <1>2, <2>1, <2>2 DEF KeysInv, storage, history
<1>6. CASE DeleteEmpty(c) \/ CommitMove(c)
  <2>1. files' = files
    BY <1>6 DEF DeleteEmpty, CommitMove
  <2> QED BY <1>3, <1>4, <2>1
<1> QED BY <1>3, <1>5, <1>6

LEMMA DropKeepsObjects ==
  ASSUME TypeOK, KeysInv, LeftoversInv, NEW c \in Clients, DropFolders(c)
  PROVE  KeysInv' /\ LeftoversInv'
<1>1. /\ files' = files \ doomed[c] /\ deleted' = deleted \union doomed[c]
      /\ keyed' = keyed \ doomed[c]
      /\ escaped' = escaped \union (keys[c] \intersect (files \ doomed[c]))
      /\ orphaned' = orphaned \union ((doomed[c] \ keys[c]) \intersect (bucket \union indexed))
      /\ UNCHANGED <<bucket, indexed, storing>> /\ op[c] = "drop"
  BY DEF DropFolders, storage
<1>2. /\ \A b \in Clients \ {c} : op'[b] = op[b] /\ keys'[b] = keys[b]
      /\ keys'[c] = keys[c]
      /\ op'[c] = (IF keys[c] = {} THEN "idle" ELSE "cleaning")
  <2>1. CASE keys[c] = {}
    BY <2>1, EndsCleaning DEF DropFolders
  <2>2. CASE keys[c] # {}
    BY <2>2 DEF DropFolders, TypeOK
  <2> QED BY <2>1, <2>2
<1>3. KeysInv'
  BY <1>1, <1>2 DEF KeysInv
<1>4. \A b \in Clients : keys'[b] = keys[b] /\ (op[b] = "cleaning" => op'[b] = "cleaning")
  BY <1>1, <1>2
<1>5. LeftoversInv'
  <2> SUFFICES ASSUME NEW f \in deleted' \ orphaned', storing[f] = "no"
               PROVE  /\ f \in bucket => \E b \in Clients : op'[b] = "cleaning" /\ f \in keys'[b]
                      /\ f \in indexed => \E b \in Clients : op'[b] = "cleaning"
    BY <1>1 DEF LeftoversInv
  <2>1. CASE f \in deleted
    BY <1>1, <1>4, <2>1 DEF LeftoversInv
  <2>2. CASE f \in doomed[c] /\ f \in keys[c]
    BY <1>2, <2>2
  <2>3. CASE f \in doomed[c] /\ f \notin keys[c]
    BY <1>1, <2>3
  <2> QED BY <1>1, <2>1, <2>2, <2>3
<1> QED BY <1>3, <1>5

LEMMA CleanupKeepsObjects ==
  ASSUME TypeOK, KeysInv, LeftoversInv, NEW c \in Clients,
         SyncAfterCascade(c) \/ \E f \in Files : RemoveObject(c, f)
  PROVE  KeysInv' /\ LeftoversInv'
<1>1. /\ op[c] = "cleaning" /\ UNCHANGED <<files, deleted, keyed, escaped, storing>>
      /\ orphaned \subseteq orphaned'
  BY DEF SyncAfterCascade, RemoveObject, fileRows
<1>2. ASSUME NEW f \in Files, RemoveObject(c, f) PROVE KeysInv' /\ LeftoversInv'
  <2>1. /\ op' = op /\ indexed' = indexed /\ f \in keys[c]
        /\ keys'[c] = keys[c] \ {f}
        /\ \A b \in Clients \ {c} : keys'[b] = keys[b]
        /\ bucket \ {f} \subseteq bucket' /\ bucket' \subseteq bucket
        /\ f \in bucket' => f \in orphaned'
    BY <1>2 DEF RemoveObject, TypeOK
  <2>2. f \in files => f \in escaped
    BY <1>1, <2>1 DEF KeysInv
  <2>3. KeysInv'
    BY <1>1, <2>1, <2>2 DEF KeysInv
  <2>4. LeftoversInv'
    BY <1>1, <2>1 DEF LeftoversInv
  <2> QED BY <2>3, <2>4
<1>3. CASE SyncAfterCascade(c)
  <2>1. /\ op'[c] = "idle" /\ keys'[c] = {} /\ keys[c] = {} /\ bucket' = bucket
        /\ \A b \in Clients \ {c} : op'[b] = op[b] /\ keys'[b] = keys[b]
        /\ indexed' = bucket \/ (deleted \intersect indexed' \subseteq orphaned')
    BY <1>3, EndsCleaning DEF SyncAfterCascade
  <2>2. KeysInv'
    BY <1>1, <2>1 DEF KeysInv
  <2>3. \A f \in deleted \ orphaned : storing[f] = "no" /\ f \in bucket =>
          \E b \in Clients \ {c} : op[b] = "cleaning" /\ f \in keys[b]
    BY <2>1 DEF LeftoversInv
  <2>4. LeftoversInv'
    BY <1>1, <2>1, <2>3 DEF LeftoversInv
  <2> QED BY <2>2, <2>4
<1> QED BY <1>2, <1>3

LEMMA StoreKeepsObjects ==
  ASSUME TypeOK, KeysInv, LeftoversInv, NEW f \in Files,
         BeginStore(f) \/ PutObject(f) \/ SaveKey(f)
  PROVE  KeysInv' /\ LeftoversInv'
<1>1. UNCHANGED <<files, deleted, requests, escaped>> /\ orphaned \subseteq orphaned'
  BY DEF BeginStore, PutObject, SaveKey, fileRows, history
<1>2. /\ \A g \in Files \ {f} : storing'[g] = storing[g]
      /\ \A g \in Files \ {f} : g \in keyed' <=> g \in keyed
      /\ \A g \in Files \ {f} : g \in bucket' <=> g \in bucket
      /\ bucket \subseteq bucket' /\ indexed' \in {bucket, indexed}
  BY DEF BeginStore, PutObject, SaveKey, fileRows, TypeOK
<1>3. /\ storing'[f] # "no" => f \in files \union deleted
      /\ f \in files /\ (f \in keyed' \/ storing'[f] = "save") => f \in bucket' \/ f \in escaped
  BY DEF BeginStore, PutObject, SaveKey, fileRows, TypeOK, KeysInv
<1>4. KeysInv'
  BY <1>1, <1>2, <1>3 DEF KeysInv, requests, TypeOK
<1>5. storing'[f] = "no" => f \in files \/ f \in orphaned'
  BY DEF BeginStore, PutObject, SaveKey, TypeOK
<1>6. LeftoversInv'
  BY <1>1, <1>2, <1>5 DEF LeftoversInv, requests, TypeOK
<1> QED BY <1>4, <1>6

LEMMA CrashKeepsObjects ==
  ASSUME TypeOK, KeysInv, LeftoversInv, Crash
  PROVE  KeysInv' /\ LeftoversInv'
<1>1. KeysInv'
  <2>1. /\ \A c \in Clients : keys'[c] = {}
        /\ \A f \in Files : storing'[f] = "no"
        /\ UNCHANGED <<files, keyed, deleted, bucket, escaped>>
    BY DEF Crash, fileRows
  <2> QED BY <2>1 DEF KeysInv, TypeOK
<1>2. LeftoversInv'
  BY DEF LeftoversInv, Crash, fileRows
<1> QED BY <1>1, <1>2

LEMMA ObjectsInductive ==
  Spec => [](KeysInv /\ LeftoversInv)
<1> DEFINE Inv == KeysInv /\ LeftoversInv
<1>1. Init => Inv
  BY DEF Init, KeysInv, LeftoversInv
<1>2. TypeOK /\ Inv /\ [Next]_vars => Inv'
  <2> SUFFICES ASSUME TypeOK, KeysInv, LeftoversInv, [Next]_vars PROVE Inv'
    OBVIOUS
  <2>1. ASSUME NEW c \in Clients, FolderRequest(c) \/ FileRequest(c) \/ DeleteRequest(c)
        PROVE  Inv'
    BY <2>1, RequestSteps, RequestsKeepObjects, FileWritesKeepObjects, DropKeepsObjects,
       CleanupKeepsObjects
  <2>2. ASSUME NEW f \in Files, BeginStore(f) \/ PutObject(f) \/ SaveKey(f) PROVE Inv'
    BY <2>2, StoreKeepsObjects
  <2>3. CASE Crash
    BY <2>3, CrashKeepsObjects
  <2>4. CASE UNCHANGED vars
    BY <2>4, CleaningKeepsObjects DEF vars, CleaningKept, requests
  <2> QED BY <2>1, <2>2, <2>3, <2>4 DEF Next
<1> QED BY <1>1, <1>2, TypeCorrect, PTL DEF Spec

(* A cascade removes no object of a file it does not delete, but for files *)
(* moved out of the subtree after their keys were collected.               *)
THEOREM KeysKeepTheirObjects == Spec => []KeysHaveObjects
<1>1. KeysInv => KeysHaveObjects
  BY DEF KeysInv, KeysHaveObjects
<1> QED BY <1>1, ObjectsInductive, PTL

(* When the cascades are done, nothing of a deleted file is left that no   *)
(* error, crash or overlapping upload explains.                            *)
THEOREM CascadesLeaveNothing == Spec => []NothingLeftBehind
<1>1. TypeOK /\ LeftoversInv => NothingLeftBehind
  BY DEF LeftoversInv, NothingLeftBehind
<1> QED BY <1>1, ObjectsInductive, TypeCorrect, PTL

-----------------------------------------------------------------------------
(* What is above a folder: Up(e) is the smallest set with e and the parent *)
(* of each of its folders.                                                 *)
Closed(C) == \A d \in C : parent[d] \in C \union {None}

Up(e) == {d \in Folders : \A C \in SUBSET Folders : e \in C /\ Closed(C) => d \in C}

LEMMA UpStep ==
  ASSUME TypeOK, NEW e \in Folders
  PROVE  Up(e) = {e} \union (IF parent[e] = None THEN {} ELSE Up(parent[e]))
<1> DEFINE p == parent[e]
           U == IF p = None THEN {} ELSE Up(p)
           C == {e} \union U
<1>1. p \in Folders \union {None}
  BY DEF TypeOK
<1>2. U \subseteq Folders /\ Closed(U) /\ (p # None => p \in U)
  <2>1. CASE p = None
    BY <2>1 DEF Closed
  <2>2. CASE p # None
    <3>1. U \subseteq Folders /\ p \in U
      BY <1>1, <2>2 DEF Up
    <3>2. ASSUME NEW d \in U, parent[d] # None PROVE parent[d] \in U
      <4>1. d \in Folders /\ parent[d] \in Folders
        BY <3>1, <3>2 DEF TypeOK
      <4> QED BY <2>2, <3>2, <4>1 DEF Up, Closed
    <3> QED BY <3>1, <3>2 DEF Closed
  <2> QED BY <2>1, <2>2
<1>3. C \in SUBSET Folders /\ e \in C /\ Closed(C)
  BY <1>2 DEF Closed
<1>4. Up(e) \subseteq C
  <2> HIDE DEF C
  <2> QED BY <1>3 DEF Up
<1>5. e \in Up(e)
  BY DEF Up
<1>6. ASSUME p # None PROVE Up(p) \subseteq Up(e)
  <2> SUFFICES ASSUME NEW d \in Up(p), NEW D \in SUBSET Folders, e \in D, Closed(D)
               PROVE  d \in D
    BY <1>1, <1>6 DEF Up
  <2>1. p \in D
    BY <1>6 DEF Closed
  <2> QED BY <2>1 DEF Up
<1> QED BY <1>4, <1>5, <1>6

(* Above follows the parents up.                                           *)
LEMMA AboveStep ==
  ASSUME TypeOK
  PROVE  /\ Above(None) = {}
         /\ \A e \in Folders : Above(e) = {e} \union Above(parent[e])
<1> DEFINE D == Folders \union {None}
           f == CHOOSE f : f = [d \in D |-> IF d = None THEN {} ELSE {d} \union f[parent[d]]]
           g == [d \in D |-> IF d = None THEN {} ELSE Up(d)]
<1>0. None \notin Folders /\ \A d \in Folders : parent[d] \in D
  BY DEF None, Folders, TypeOK
<1>1. ASSUME NEW d \in D
      PROVE  g[d] = IF d = None THEN {} ELSE {d} \union g[parent[d]]
  <2>1. CASE d = None
    BY <2>1
  <2>2. CASE d # None
    <3>1. d \in Folders /\ parent[d] \in D
      BY <1>0, <2>2
    <3>2. g[parent[d]] = IF parent[d] = None THEN {} ELSE Up(parent[d])
      BY <3>1
    <3>3. g[d] = Up(d)
      BY <2>2
    <3> HIDE DEF g
    <3> QED BY <2>2, <3>1, <3>2, <3>3, UpStep
  <2> QED BY <2>1, <2>2
<1>2. g = [d \in D |-> IF d = None THEN {} ELSE {d} \union g[parent[d]]]
  <2>1. g = [d \in D |-> g[d]]
    OBVIOUS
  <2> HIDE DEF g
  <2> QED BY <1>1, <2>1
<1>3. f = [d \in D |-> IF d = None THEN {} ELSE {d} \union f[parent[d]]]
  <2> HIDE DEF g
  <2> QED BY <1>2
<1>4. \A e : Above(e) = f[e]
  BY DEF Above
<1> HIDE DEF f
<1>5. f[None] = {} /\ \A e \in Folders : f[e] = {e} \union f[parent[e]]
  BY <1>0, <1>3
<1> QED BY <1>4, <1>5

LEMMA LeastFolder ==
  ASSUME NEW S \in SUBSET Folders, S # {}
  PROVE  \E d \in S : \A e \in S : ~(e < d)
<1>1. S \in SUBSET Nat
  BY FolderBounds DEF Folders
<1>2. \E d \in S : \A e \in S : ~(<<e, d>> \in OpToRel(<, Nat))
  BY <1>1, NatLessThanWellFounded, WFMin
<1> QED BY <1>1, <1>2 DEF OpToRel

(* Folders that hang together below d, and below which nothing else hangs, *)
(* are all that is below d.                                                *)
LEMMA HangingTogether ==
  ASSUME TypeOK, ParentsFirst, TargetsInherited, NEW d \in Folders,
         NEW ds \in SUBSET Folders, d \in ds, ds \intersect folders # {},
         \A e \in ds \intersect folders : e = d \/ parent[e] \in ds,
         \A e \in folders : parent[e] \in ds => e \in ds
  PROVE  d \in folders /\ ds \intersect folders = Subtree(d)
<1>0. None \notin Folders /\ folders \subseteq Folders
  BY DEF None, Folders, TypeOK
<1>1. \A e \in folders : parent[e] \in Folders => parent[e] \in folders /\ parent[e] < e
  BY <1>0 DEF ParentsFirst, TargetsInherited, Folders
<1>2. \A e \in ds \intersect folders : e # d => parent[e] \in ds \intersect folders /\ parent[e] < e
  BY <1>0, <1>1
<1>3. d \in folders
  <2>1. PICK e \in ds \intersect folders : \A x \in ds \intersect folders : ~(x < e)
    BY <1>0, LeastFolder
  <2> QED BY <1>2, <2>1
<1>4. \A e \in ds \intersect folders : d \in Above(e)
  <2> DEFINE bad == {e \in ds \intersect folders : d \notin Above(e)}
  <2> SUFFICES ASSUME bad # {} PROVE FALSE
    OBVIOUS
  <2>1. PICK e \in bad : \A x \in bad : ~(x < e)
    <3>1. bad \in SUBSET Folders
      OBVIOUS
    <3> HIDE DEF bad
    <3> QED BY <3>1, LeastFolder
  <2>2. Above(e) = {e} \union Above(parent[e])
    BY AboveStep
  <2>3. e # d
    BY <2>2
  <2>4. parent[e] \in ds \intersect folders /\ parent[e] < e
    BY <1>2, <2>3
  <2>5. d \in Above(parent[e])
    BY <2>1, <2>4
  <2> QED BY <2>2, <2>5
<1>5. \A e \in folders : d \in Above(e) => e \in ds
  <2> DEFINE bad == {e \in folders : d \in Above(e) /\ e \notin ds}
  <2> SUFFICES ASSUME bad # {} PROVE FALSE
    OBVIOUS
  <2>1. PICK e \in bad : \A x \in bad : ~(x < e)
    <3>1. bad \in SUBSET Folders
      BY <1>0
    <3> HIDE DEF bad
    <3> QED BY <3>1, LeastFolder
  <2>2. e \in Folders /\ Above(e) = {e} \union Above(parent[e])
    BY <1>0, AboveStep
  <2>3. d \in Above(parent[e])
    BY <2>2
  <2>4. parent[e] \in Folders
    BY <2>2, <2>3, AboveStep DEF TypeOK
  <2>5. parent[e] \in folders /\ parent[e] < e
    BY <1>1, <2>4
  <2>6. parent[e] \in ds
    BY <2>1, <2>3, <2>5
  <2> QED BY <2>6
<1> QED BY <1>3, <1>4, <1>5 DEF Subtree

-----------------------------------------------------------------------------
(* What a step may do to the cascades in flight: go on with one whose      *)
(* folders and files it leaves alone, or end it.                           *)
Cascading == {"collect", "purge", "drop"}

LEMMA TreesKept ==
  ASSUME TypeOK, TreesInv, ParentsFirst', made' \in Nat, made <= made',
         \A d \in 1 .. made : d \in folders' => d \in folders /\ parent'[d] = parent[d],
         \A b \in Clients : op'[b] \in Cascading =>
           op[b] \in Cascading /\ tree'[b] = tree[b] /\ ask'[b].folder = ask[b].folder,
         \A b \in Clients : doomed'[b] \in {doomed[b], {}},
         \A b \in Clients : op'[b] # "drop" => doomed'[b] = {},
         \A b \in Clients : \A f \in doomed'[b] : f \in files' /\ folderOf'[f] = folderOf[f]
  PROVE  TreesInv'
<1>1. ASSUME NEW b \in Clients, op'[b] \in Cascading
      PROVE  /\ ask'[b].folder \in tree'[b] /\ tree'[b] \subseteq 1 .. made'
             /\ \A d \in tree'[b] \intersect folders' :
                  d = ask'[b].folder \/ parent'[d] \in tree'[b]
  <2>1. /\ tree'[b] = tree[b] /\ ask'[b].folder = ask[b].folder
        /\ ask[b].folder \in tree[b] /\ tree[b] \subseteq 1 .. made
        /\ \A d \in tree[b] \intersect folders : d = ask[b].folder \/ parent[d] \in tree[b]
    BY <1>1 DEF TreesInv, Cascading
  <2>2. 1 .. made \subseteq 1 .. made'
    BY DEF TypeOK
  <2> QED BY <2>1, <2>2
<1>2. \A b \in Clients : doomed'[b] \subseteq files' /\ (op'[b] # "drop" => doomed'[b] = {})
  OBVIOUS
<1>3. ASSUME NEW b \in Clients, NEW f \in doomed'[b] PROVE folderOf'[f] \in tree'[b]
  <2>1. op'[b] = "drop" /\ f \in doomed[b]
    BY <1>3
  <2>2. tree'[b] = tree[b]
    BY <2>1 DEF Cascading
  <2> QED BY <1>3, <2>1, <2>2 DEF TreesInv
<1>4. \A b, c \in Clients : b # c => doomed'[b] \intersect doomed'[c] = {}
  BY DEF TreesInv
<1> QED BY <1>1, <1>2, <1>3, <1>4 DEF TreesInv, Cascading

(* Steps that leave the rows of folders alone.                             *)
LEMMA TreesStand ==
  ASSUME TypeOK, TreesInv, UNCHANGED <<folders, parent, made>>
  PROVE  /\ ParentsFirst' /\ made' \in Nat /\ made <= made'
         /\ \A d \in 1 .. made : d \in folders' => d \in folders /\ parent'[d] = parent[d]
<1>1. made \in Nat
  BY FolderBounds DEF TypeOK
<1>2. ParentsFirst'
  BY DEF TreesInv, ParentsFirst
<1> QED BY <1>1, <1>2

(* The end of a request ends its cascade, and nobody else's.               *)
LEMMA TreesEnd ==
  ASSUME TypeOK, TreesInv, NEW c \in Clients, Ends(c)
  PROVE  /\ \A b \in Clients : op'[b] \in Cascading =>
              op[b] \in Cascading /\ tree'[b] = tree[b] /\ ask'[b].folder = ask[b].folder
         /\ \A b \in Clients : doomed'[b] \in {doomed[b], {}}
         /\ \A b \in Clients : op'[b] # "drop" => doomed'[b] = {}
<1>1. /\ op'[c] = "idle" /\ doomed'[c] = {}
      /\ \A b \in Clients \ {c} : /\ op'[b] = op[b] /\ tree'[b] = tree[b]
                                  /\ ask'[b] = ask[b] /\ doomed'[b] = doomed[b]
  BY DEF Ends, TypeOK
<1>2. \A b \in Clients : op[b] # "drop" => doomed[b] = {}
  BY DEF TreesInv
<1> QED BY <1>1, <1>2 DEF Cascading

(* Removing folders removes nobody's files but the cascade's own.          *)
LEMMA RemovalKeepsTrees ==
  ASSUME TypeOK, TreesInv, NEW ds, RemoveFolders(ds)
  PROVE  /\ ParentsFirst' /\ made' \in Nat /\ made <= made'
         /\ \A d \in 1 .. made : d \in folders' => d \in folders /\ parent'[d] = parent[d]
<1>1. made \in Nat /\ made' = made
  BY FolderBounds DEF TypeOK, RemoveFolders
<1>2. ParentsFirst'
  <2> SUFFICES ASSUME NEW d \in Folders PROVE parent'[d] \in 0 .. d - 1
    BY DEF ParentsFirst
  <2>1. parent'[d] \in {parent[d], 0}
    BY DEF RemoveFolders, Without, None
  <2>2. d \in Nat /\ 1 <= d
    BY FolderBounds DEF Folders
  <2> QED BY <2>1, <2>2 DEF TreesInv, ParentsFirst
<1> QED BY <1>1, <1>2, FoldersRemain

LEMMA FolderWritesKeepTrees ==
  ASSUME TypeOK, StillAsRead, TreesInv, NEW c \in Clients,
         CommitCreate(c) \/ CommitRename(c) \/ DeleteEmpty(c) \/ Abort(c)
  PROVE  TreesInv'
<1>1. Ends(c)
  BY DEF CommitCreate, CommitRename, DeleteEmpty, Abort
<1>2. \A b \in Clients : doomed'[b] \in {doomed[b], {}}
  BY <1>1, TreesEnd
<1>3. \A b \in Clients : doomed[b] \subseteq files
  BY DEF TreesInv
<1>4. CASE CommitCreate(c)
  <2>1. made \in Nat /\ made' = made + 1 /\ made' \in Folders
    BY <1>4, FolderBounds DEF CommitCreate, TypeOK, Folders
  <2>2. parent' = [parent EXCEPT ![made'] = ask[c].folder] /\ ask[c].folder \in 0 .. made
    BY <1>4 DEF CommitCreate, StillAsRead
  <2>3. \A d \in Folders : parent'[d] = IF d = made' THEN ask[c].folder ELSE parent[d]
    BY <2>1, <2>2 DEF TypeOK
  <2>4. ParentsFirst'
    <3> SUFFICES ASSUME NEW d \in Folders PROVE parent'[d] \in 0 .. d - 1
      BY DEF ParentsFirst
    <3>1. CASE d = made'
      BY <2>1, <2>2, <2>3, <3>1
    <3>2. CASE d # made'
      BY <2>3, <3>2 DEF TreesInv, ParentsFirst
    <3> QED BY <3>1, <3>2
  <2>5. \A d \in 1 .. made : d \in folders' => d \in folders /\ parent'[d] = parent[d]
    BY <1>4, <2>1, FolderCreated
  <2>6. UNCHANGED <<files, folderOf>>
    BY <1>4 DEF CommitCreate, fileRows
  <2>7. \A b \in Clients : \A f \in doomed'[b] : f \in files' /\ folderOf'[f] = folderOf[f]
    BY <1>2, <1>3, <2>6
  <2> QED BY <1>1, <2>1, <2>4, <2>5, <2>7, TreesEnd, TreesKept
<1>5. CASE CommitRename(c) \/ Abort(c)
  <2>1. UNCHANGED <<folders, parent, made, files, folderOf>>
    BY <1>5 DEF CommitRename, Abort, folderRows, fileRows
  <2>2. \A b \in Clients : \A f \in doomed'[b] : f \in files' /\ folderOf'[f] = folderOf[f]
    BY <1>2, <1>3, <2>1
  <2> QED BY <1>1, <2>1, <2>2, TreesStand, TreesEnd, TreesKept
<1>6. CASE DeleteEmpty(c)
  <2> DEFINE d == ask[c].folder
  <2>1. /\ RemoveFolders({d}) /\ folderOf' = Unfiled({d}) /\ files' = files
        /\ Content({d}) \intersect Locked = {}
    BY <1>6 DEF DeleteEmpty, Restricted
  <2>2. ASSUME NEW b \in Clients, NEW f \in doomed'[b]
        PROVE  f \in files' /\ folderOf'[f] = folderOf[f]
    <3>1. f \in files /\ f \in Locked
      BY <1>2, <1>3, <2>2 DEF Locked
    <3>2. folderOf[f] # d
      BY <2>1, <3>1 DEF Content
    <3> QED BY <2>1, <3>1, <3>2 DEF Unfiled, TypeOK
  <2> HIDE DEF d
  <2> QED BY <1>1, <2>1, <2>2, RemovalKeepsTrees, TreesEnd, TreesKept
<1> QED BY <1>4, <1>5, <1>6

LEMMA FileWritesKeepTrees ==
  ASSUME TypeOK, TreesInv, NEW c \in Clients,
         CommitMove(c) \/ SyncAfterCascade(c) \/ \E f \in Files : CommitAdd(c, f)
  PROVE  TreesInv'
<1>1. Ends(c) /\ UNCHANGED <<folders, parent, made>>
  BY DEF CommitMove, CommitAdd, SyncAfterCascade, folderRows
<1>2. \A b \in Clients : doomed'[b] \in {doomed[b], {}}
  BY <1>1, TreesEnd
<1>3. ASSUME NEW b \in Clients, NEW f \in doomed'[b]
      PROVE  f \in files' /\ folderOf'[f] = folderOf[f]
  <2>1. f \in files /\ f \in Locked /\ f \in Files
    BY <1>2, <1>3 DEF TreesInv, Locked, TypeOK
  <2>2. CASE CommitMove(c)
    BY <2>1, <2>2 DEF CommitMove, TypeOK
  <2>3. CASE SyncAfterCascade(c)
    BY <2>1, <2>3 DEF SyncAfterCascade, fileRows
  <2>4. ASSUME NEW g \in Files, CommitAdd(c, g)
        PROVE  f \in files' /\ folderOf'[f] = folderOf[f]
    BY <2>1, <2>4 DEF CommitAdd, TypeOK
  <2> QED BY <2>2, <2>3, <2>4
<1> QED BY <1>1, <1>3, TreesStand, TreesEnd, TreesKept

(* A request that only reads, and the steps of an upload.                  *)
LEMMA OthersKeepTrees ==
  ASSUME TypeOK, TreesInv, UNCHANGED <<folders, parent, made, files, folderOf>>,
         UNCHANGED doomed,
         \A b \in Clients : op'[b] \in Cascading =>
           op[b] \in Cascading /\ tree'[b] = tree[b] /\ ask'[b].folder = ask[b].folder,
         \A b \in Clients : op[b] = "drop" => op'[b] = "drop"
  PROVE  TreesInv'
<1>1. \A b \in Clients : doomed[b] \subseteq files /\ (op[b] # "drop" => doomed[b] = {})
  BY DEF TreesInv
<1>2. \A b \in Clients : op'[b] # "drop" => doomed'[b] = {}
  BY <1>1
<1>3. \A b \in Clients : \A f \in doomed'[b] : f \in files' /\ folderOf'[f] = folderOf[f]
  BY <1>1
<1> QED BY <1>2, <1>3, TreesStand, TreesKept

LEMMA ReadingKeepsTrees ==
  ASSUME TypeOK, TreesInv, NEW c \in Clients,
         Checks(c) \/ CollectKeys(c) \/ \E f \in Files : RemoveObject(c, f)
  PROVE  TreesInv'
<1>1. UNCHANGED <<folders, parent, made, files, folderOf, doomed, tree>>
  BY DEF Checks, CheckCreate, CheckRename, CheckAdd, CheckMove, Asks, CollectKeys,
         RemoveObject, folderRows, fileRows
<1>2. CASE Checks(c)
  <2>1. PICK o \in {"create", "rename", "add", "move"} : \E a : Asks(c, o, a)
    BY <1>2 DEF Checks, CheckCreate, CheckRename, CheckAdd, CheckMove
  <2>2. /\ op[c] = "idle" /\ op'[c] = o
        /\ \A b \in Clients \ {c} : op'[b] = op[b] /\ ask'[b] = ask[b]
    BY <2>1 DEF Asks, TypeOK
  <2> QED BY <1>1, <2>1, <2>2, OthersKeepTrees DEF Cascading
<1>3. CASE CollectKeys(c)
  <2>1. /\ op[c] = "collect" /\ op'[c] = "purge" /\ ask' = ask
        /\ \A b \in Clients \ {c} : op'[b] = op[b]
    BY <1>3 DEF CollectKeys, TypeOK
  <2> QED BY <1>1, <2>1, OthersKeepTrees DEF Cascading
<1>4. CASE \E f \in Files : RemoveObject(c, f)
  BY <1>1, <1>4, OthersKeepTrees DEF RemoveObject
<1> QED BY <1>2, <1>3, <1>4

(* walk_subtree finds folders that hang together.                          *)
LEMMA CheckDeleteKeepsTrees ==
  ASSUME TypeOK, StillAsRead, TargetsInherited, TreesInv, NEW c \in Clients, NEW d \in Folders,
         CheckDelete(c, d)
  PROVE  TreesInv'
<1>1. /\ op[c] = "idle" /\ d \in folders
      /\ UNCHANGED <<folders, parent, made, files, folderOf, doomed>>
      /\ ask'[c].folder = d /\ op'[c] \in {"delete", "collect"}
      /\ op'[c] = "collect" => tree'[c] = Subtree(d)
      /\ \A b \in Clients \ {c} : op'[b] = op[b] /\ tree'[b] = tree[b] /\ ask'[b] = ask[b]
  BY DEF CheckDelete, TypeOK, folderRows, fileRows
<1>2. d \in Subtree(d) /\ Subtree(d) \subseteq 1 .. made
  BY <1>1, AboveStep DEF Subtree, StillAsRead
<1>3. ASSUME NEW e \in Subtree(d), e # d PROVE parent[e] \in Subtree(d)
  <2>1. e \in folders /\ e \in Folders /\ d \in Above(e)
    BY <1>3 DEF Subtree, TypeOK
  <2>2. d \in Above(parent[e])
    BY <1>3, <2>1, AboveStep
  <2>3. parent[e] # None
    BY <2>2, AboveStep
  <2> QED BY <2>1, <2>2, <2>3 DEF TargetsInherited, Subtree
<1>4. ASSUME NEW b \in Clients, op'[b] \in Cascading
      PROVE  /\ ask'[b].folder \in tree'[b] /\ tree'[b] \subseteq 1 .. made'
             /\ \A e \in tree'[b] \intersect folders' :
                  e = ask'[b].folder \/ parent'[e] \in tree'[b]
  <2>1. CASE b = c
    BY <1>1, <1>2, <1>3, <1>4, <2>1 DEF Cascading
  <2>2. CASE b # c
    BY <1>1, <1>4, <2>2 DEF TreesInv, Cascading
  <2> QED BY <2>1, <2>2
<1>5. ParentsFirst'
  BY <1>1 DEF TreesInv, ParentsFirst
<1>6. \A b \in Clients : op[b] = "drop" => op'[b] = "drop" /\ tree'[b] = tree[b]
  BY <1>1
<1>7. \A b \in Clients : doomed'[b] \subseteq files' /\ (op'[b] # "drop" => doomed'[b] = {})
  BY <1>1, <1>6 DEF TreesInv
<1>8. ASSUME NEW b \in Clients, NEW f \in doomed'[b] PROVE folderOf'[f] \in tree'[b]
  <2>1. op[b] = "drop"
    BY <1>1, <1>8 DEF TreesInv
  <2> QED BY <1>1, <1>6, <1>8, <2>1 DEF TreesInv
<1>9. \A a, b \in Clients : a # b => doomed'[a] \intersect doomed'[b] = {}
  BY <1>1 DEF TreesInv
<1> QED BY <1>4, <1>5, <1>7, <1>8, <1>9 DEF TreesInv, Cascading

(* delete_files_in_folders takes files nobody else has deleted.            *)
LEMMA DeleteFilesKeepsTrees ==
  ASSUME TypeOK, TreesInv, NEW c \in Clients, DeleteFiles(c)
  PROVE  TreesInv'
<1>1. /\ op[c] = "purge" /\ op'[c] = "drop"
      /\ Content(tree[c]) \intersect Locked = {}
      /\ doomed'[c] = Content(tree[c])
      /\ UNCHANGED <<folders, parent, made, files, folderOf, ask, tree>>
      /\ \A b \in Clients \ {c} : op'[b] = op[b] /\ doomed'[b] = doomed[b]
  BY DEF DeleteFiles, TypeOK, folderRows, fileRows
<1>2. \A b \in Clients : op'[b] \in Cascading => op[b] \in Cascading
  BY <1>1 DEF Cascading
<1>3. \A b \in Clients : op'[b] \in Cascading =>
        /\ ask'[b].folder \in tree'[b] /\ tree'[b] \subseteq 1 .. made'
        /\ \A d \in tree'[b] \intersect folders' : d = ask'[b].folder \/ parent'[d] \in tree'[b]
  BY <1>1, <1>2 DEF TreesInv, Cascading
<1>4. ParentsFirst'
  BY <1>1 DEF TreesInv, ParentsFirst
<1>5. \A b \in Clients : doomed'[b] \subseteq files' /\ (op'[b] # "drop" => doomed'[b] = {})
  BY <1>1 DEF TreesInv, Content
<1>6. \A b \in Clients : \A f \in doomed'[b] : folderOf'[f] \in tree'[b]
  BY <1>1 DEF TreesInv, Content
<1>7. \A b \in Clients \ {c} : doomed'[c] \intersect doomed'[b] = {}
  BY <1>1 DEF Locked
<1>8. \A a, b \in Clients : a # b => doomed'[a] \intersect doomed'[b] = {}
  BY <1>1, <1>7 DEF TreesInv
<1> QED BY <1>3, <1>4, <1>5, <1>6, <1>8 DEF TreesInv, Cascading

LEMMA DropKeepsTrees ==
  ASSUME TypeOK, TreesInv, NEW c \in Clients, DropFolders(c)
  PROVE  TreesInv'
<1>1. /\ RemoveFolders(tree[c]) /\ folderOf' = Unfiled(tree[c])
      /\ files' = files \ doomed[c] /\ op[c] = "drop"
      /\ (Content(tree[c]) \ doomed[c]) \intersect Locked = {}
  BY DEF DropFolders, Restricted
<1>2. /\ op'[c] \in {"idle", "cleaning"} /\ doomed'[c] = {}
      /\ \A b \in Clients \ {c} : /\ op'[b] = op[b] /\ tree'[b] = tree[b]
                                  /\ ask'[b] = ask[b] /\ doomed'[b] = doomed[b]
  BY DEF DropFolders, Ends, TypeOK
<1>3. ASSUME NEW b \in Clients, NEW f \in doomed'[b]
      PROVE  f \in files' /\ folderOf'[f] = folderOf[f]
  <2>1. b # c /\ f \in doomed[b] /\ f \in files /\ f \in Files
    BY <1>2, <1>3 DEF TreesInv, TypeOK
  <2>2. f \in Locked /\ f \notin doomed[c]
    BY <2>1 DEF Locked, TreesInv
  <2>3. folderOf[f] \notin tree[c]
    BY <1>1, <2>1, <2>2 DEF Content
  <2> QED BY <1>1, <2>1, <2>2, <2>3 DEF Unfiled
<1>4. \A b \in Clients : op'[b] \in Cascading =>
        op[b] \in Cascading /\ tree'[b] = tree[b] /\ ask'[b].folder = ask[b].folder
  BY <1>2 DEF Cascading
<1>5. \A b \in Clients : op'[b] # "drop" => doomed'[b] = {}
  BY <1>2 DEF TreesInv
<1>6. \A b \in Clients : doomed'[b] \in {doomed[b], {}}
  BY <1>2
<1> QED BY <1>1, <1>3, <1>4, <1>5, <1>6, RemovalKeepsTrees, TreesKept

LEMMA TreesInductive ==
  ASSUME TypeOK, StillAsRead, TargetsInherited, TreesInv, [Next]_vars
  PROVE  TreesInv'
<1>1. ASSUME NEW c \in Clients, FolderRequest(c) \/ FileRequest(c) \/ DeleteRequest(c)
      PROVE  TreesInv'
  BY <1>1, RequestSteps, ReadingKeepsTrees, FolderWritesKeepTrees, FileWritesKeepTrees,
     CheckDeleteKeepsTrees, DeleteFilesKeepsTrees, DropKeepsTrees
<1>2. ASSUME NEW f \in Files, BeginStore(f) \/ PutObject(f) \/ SaveKey(f) PROVE TreesInv'
  <2>1. UNCHANGED <<folders, parent, made, files, folderOf, doomed, op, tree, ask>>
    BY <1>2 DEF BeginStore, PutObject, SaveKey, folderRows, fileRows, requests
  <2> QED BY <2>1, OthersKeepTrees
<1>3. CASE Crash
  <2>1. UNCHANGED <<folders, parent, made, files, folderOf>>
    BY <1>3 DEF Crash, folderRows, fileRows
  <2>2. \A b \in Clients : op'[b] = "idle" /\ doomed'[b] = {}
    BY <1>3 DEF Crash
  <2>3. \A b \in Clients : op'[b] \notin Cascading
    BY <2>2 DEF Cascading
  <2> QED BY <2>1, <2>2, <2>3, TreesStand, TreesKept
<1>4. CASE UNCHANGED vars
  <2>1. UNCHANGED <<folders, parent, made, files, folderOf, doomed, op, tree, ask>>
    BY <1>4 DEF vars, folderRows, fileRows, requests
  <2> QED BY <2>1, OthersKeepTrees
<1> QED BY <1>1, <1>2, <1>3, <1>4 DEF Next

(* A removal takes a folder with all that is below it, and files with it.  *)
WholeSubtree ==
  LET removed == folders \ folders' IN
  /\ removed # {} => \E d \in removed : removed = Subtree(d)
  /\ files \ files' \subseteq Content(removed)
  /\ \A f \in Content(removed) \intersect files' : folderOf'[f] = None

(* No other step removes folders or files.                                 *)
LEMMA RowsStay ==
  ASSUME TypeOK, [Next]_vars, \A c \in Clients : ~(DeleteEmpty(c) \/ DropFolders(c))
  PROVE  folders \subseteq folders' /\ files \subseteq files'
<1>1. folders \subseteq folders'
  BY FolderRowSteps DEF folderRows, CommitCreate, CommitRename
<1>2. files \subseteq files'
  <2>1. ASSUME NEW c \in Clients, FolderRequest(c) \/ FileRequest(c) \/ DeleteRequest(c)
        PROVE  files \subseteq files'
    <3>1. CASE Checks(c)
      BY <3>1 DEF Checks, CheckCreate, CheckRename, CheckAdd, CheckMove, fileRows
    <3>2. CASE CommitCreate(c) \/ CommitRename(c) \/ Abort(c) \/ CommitMove(c)
               \/ SyncAfterCascade(c) \/ CollectKeys(c) \/ DeleteFiles(c)
      BY <3>2 DEF CommitCreate, CommitRename, Abort, CommitMove, SyncAfterCascade,
                  CollectKeys, DeleteFiles, fileRows
    <3>3. CASE \/ \E f \in Files : CommitAdd(c, f) \/ RemoveObject(c, f)
               \/ \E d \in Folders : CheckDelete(c, d)
      BY <3>3 DEF CommitAdd, RemoveObject, CheckDelete, fileRows
    <3> QED BY <2>1, <3>1, <3>2, <3>3, RequestSteps
  <2>2. ASSUME NEW f \in Files, BeginStore(f) \/ PutObject(f) \/ SaveKey(f)
        PROVE  files \subseteq files'
    BY <2>2 DEF BeginStore, PutObject, SaveKey, fileRows
  <2>3. CASE Crash \/ UNCHANGED vars
    BY <2>3 DEF Crash, vars, fileRows
  <2> QED BY <2>1, <2>2, <2>3 DEF Next
<1> QED BY <1>1, <1>2

(* What a deletion takes: folders that hang together below the folder that *)
(* was asked for, and below which nothing else hangs.                      *)
Dropped(c) == IF op[c] = "delete" THEN {ask[c].folder} ELSE tree[c]

LEMMA DeletionHangsTogether ==
  ASSUME TypeOK, TargetsInherited, TreesInv, NEW c \in Clients,
         DeleteEmpty(c) \/ DropFolders(c)
  PROVE  /\ RemoveFolders(Dropped(c)) /\ folderOf' = Unfiled(Dropped(c))
         /\ \A e \in folders : parent[e] \in Dropped(c) => e \in Dropped(c)
         /\ \A e \in Dropped(c) \intersect folders :
              e = ask[c].folder \/ parent[e] \in Dropped(c)
         /\ Dropped(c) \intersect folders # {} =>
              ask[c].folder \in Dropped(c) \intersect folders
<1> DEFINE d == ask[c].folder
           ds == Dropped(c)
<1>1. /\ RemoveFolders(ds) /\ folderOf' = Unfiled(ds)
      /\ \A e \in folders : parent[e] \in ds => e \in ds
  BY DEF DeleteEmpty, DropFolders, Restricted, Dropped
<1>2. \A e \in ds \intersect folders : e = d \/ parent[e] \in ds
  BY DEF TreesInv, DeleteEmpty, DropFolders, Dropped
<1>3. ASSUME ds \intersect folders # {} PROVE d \in ds \intersect folders
  <2>1. d \in ds /\ ds \subseteq Folders /\ d \in Folders
    <3>1. CASE op[c] = "delete"
      BY <1>3, <3>1 DEF TypeOK, Dropped
    <3>2. CASE op[c] = "drop"
      BY <3>2 DEF TreesInv, TypeOK, Dropped
    <3> QED BY <3>1, <3>2 DEF DeleteEmpty, DropFolders
  <2>2. ds \intersect folders # {} /\ ParentsFirst
    BY <1>3 DEF TreesInv
  <2> HIDE DEF d, ds
  <2> QED BY <1>1, <1>2, <2>1, <2>2, HangingTogether
<1> QED BY <1>1, <1>2, <1>3

LEMMA RemovalIsWhole ==
  ASSUME TypeOK, TargetsInherited, TreesInv, NEW c \in Clients,
         DeleteEmpty(c) \/ DropFolders(c)
  PROVE  WholeSubtree
<1> DEFINE d == ask[c].folder
           ds == Dropped(c)
           removed == folders \ folders'
<1>1. /\ RemoveFolders(ds) /\ folderOf' = Unfiled(ds)
      /\ \A e \in folders : parent[e] \in ds => e \in ds
      /\ \A e \in ds \intersect folders : e = d \/ parent[e] \in ds
      /\ ds \intersect folders # {} => d \in ds \intersect folders
  BY DeletionHangsTogether
<1>2. removed = ds \intersect folders
  BY <1>1 DEF RemoveFolders
<1>3. ASSUME removed # {} PROVE \E x \in removed : removed = Subtree(x)
  <2>1. ds \in SUBSET Folders /\ d \in Folders /\ ParentsFirst
    BY <1>1, <1>2, <1>3 DEF Dropped, TreesInv, TypeOK
  <2>2. ds \intersect folders = Subtree(d)
    <3> HIDE DEF d, ds
    <3> QED BY <1>1, <1>2, <1>3, <2>1, HangingTogether
  <2> QED BY <1>1, <1>2, <1>3, <2>2
<1>4. files \ files' \subseteq Content(removed)
  <2>1. CASE DeleteEmpty(c)
    BY <2>1 DEF DeleteEmpty
  <2>2. CASE DropFolders(c)
    <3> SUFFICES ASSUME NEW f \in doomed[c] PROVE f \in Content(removed)
      BY <2>2 DEF DropFolders
    <3>1. f \in files /\ folderOf[f] \in tree[c] /\ tree[c] = ds
      BY <2>2 DEF TreesInv, DropFolders, Dropped
    <3>2. folderOf[f] # None
      BY <3>1 DEF TypeOK, None, Folders
    <3> QED BY <1>2, <3>1, <3>2 DEF Content, TargetsInherited
  <2> QED BY <2>1, <2>2
<1>5. \A f \in Content(removed) \intersect files' : folderOf'[f] = None
  BY <1>1, <1>2 DEF Content, Unfiled, TypeOK
<1> QED BY <1>3, <1>4, <1>5 DEF WholeSubtree

LEMMA TreesInitially == Init => StillAsRead /\ TargetsInherited /\ TreesInv
<1>1. Init => StillAsRead /\ TargetsInherited
  BY DEF Init, StillAsRead, TargetsInherited, Nothing, None
<1>2. Init => TreesInv
  <2>1. \A d \in Folders : 0 \in 0 .. d - 1
    BY FolderBounds DEF Folders
  <2> QED BY <2>1 DEF Init, TreesInv, ParentsFirst, None
<1> QED BY <1>1, <1>2

(* Folders disappear as one whole subtree or not at all, whatever is       *)
(* created, moved or deleted below them between the statements of the      *)
(* cascade; the files in them are deleted or unfiled, and no others.       *)
THEOREM CascadesTakeWholeSubtrees == Spec => WholeSubtrees
<1>1. Init => StillAsRead /\ TargetsInherited /\ TreesInv
  BY TreesInitially
<1>2. TypeOK /\ StillAsRead /\ TargetsInherited /\ TreesInv /\ [Next]_vars => TreesInv'
  BY TreesInductive
<1>3. TypeOK /\ StillAsRead /\ TargetsInherited /\ [Next]_vars
        => StillAsRead' /\ TargetsInherited'
  BY TargetsInductive
<1>4. TypeOK /\ TargetsInherited /\ TreesInv /\ [Next]_vars => WholeSubtree
  <2> SUFFICES ASSUME TypeOK, TargetsInherited, TreesInv, [Next]_vars PROVE WholeSubtree
    OBVIOUS
  <2>1. ASSUME NEW c \in Clients, DeleteEmpty(c) \/ DropFolders(c) PROVE WholeSubtree
    BY <2>1, RemovalIsWhole
  <2>2. CASE \A c \in Clients : ~(DeleteEmpty(c) \/ DropFolders(c))
    <3>1. folders \subseteq folders' /\ files \subseteq files'
      BY <2>2, RowsStay
    <3> QED BY <3>1 DEF WholeSubtree, Content
  <2> QED BY <2>1, <2>2
<1>5. WholeSubtree <=> LET removed == folders \ folders' IN
        /\ removed # {} => \E d \in removed : removed = Subtree(d)
        /\ files \ files' \subseteq Content(removed)
        /\ \A f \in Content(removed) \intersect files' : folderOf'[f] = None
  BY DEF WholeSubtree
<1> QED BY <1>1, <1>2, <1>3, <1>4, <1>5, TypeCorrect, PTL DEF Spec, WholeSubtrees

-----------------------------------------------------------------------------
(* Every request acts at once: the tree implements Forest.                 *)

(* What a step may do to the requests that are about to write a name.      *)
NamesKept ==
  \A b \in Clients :
    \/ op'[b] = op[b] /\ ask'[b] = ask[b]
    \/ op'[b] \notin {"create", "rename"}

LEMMA FilledKept ==
  ASSUME TypeOK, ColumnsFilled, NamesKept,
         \A d \in folders' : target'[d] \in Targets /\ name'[d] \in Names
  PROVE  ColumnsFilled'
BY DEF ColumnsFilled, NamesKept

LEMMA EndsKeepNames ==
  ASSUME TypeOK, NEW c \in Clients, Ends(c)
  PROVE  NamesKept
BY DEF TypeOK, Ends, NamesKept

LEMMA FilledInductive ==
  ASSUME TypeOK, ColumnsFilled, [Next]_vars
  PROVE  ColumnsFilled'
<1>1. ASSUME NEW c \in Clients, Checks(c) PROVE ColumnsFilled'
  <2>1. UNCHANGED folderRows
    BY <1>1 DEF Checks, CheckCreate, CheckRename, CheckAdd, CheckMove
  <2>2. PICK o \in {"create", "rename", "add", "move"} : \E a \in Ask :
          /\ Asks(c, o, a)
          /\ o \in {"create", "rename"} => a.name \in Names
          /\ o = "create" => a.target \in Targets
    <3>1. ASSUME NEW p \in Folders \union {None}, NEW t \in Targets, NEW n \in Names,
                 CheckCreate(c, p, t, n)
          PROVE  \E a \in Ask : Asks(c, "create", a) /\ a.name \in Names /\ a.target \in Targets
      BY <3>1 DEF CheckCreate, Ask
    <3>2. ASSUME NEW d \in Folders, NEW n \in Names, CheckRename(c, d, n)
          PROVE  \E a \in Ask : Asks(c, "rename", a) /\ a.name \in Names
      BY <3>2 DEF CheckRename, Ask, TypeOK
    <3>3. ASSUME NEW d \in Folders, CheckAdd(c, d) PROVE \E a \in Ask : Asks(c, "add", a)
      BY <3>3 DEF CheckAdd, Ask, TypeOK
    <3>4. ASSUME NEW f \in Files, NEW d \in Folders \union {None}, CheckMove(c, f, d)
          PROVE  \E a \in Ask : Asks(c, "move", a)
      BY <3>4 DEF CheckMove, Ask
    <3> QED BY <1>1, <3>1, <3>2, <3>3, <3>4 DEF Checks
  <2>3. /\ op'[c] \in {"create", "rename"} => ask'[c].name \in Names
        /\ op'[c] = "create" => ask'[c].target \in Targets
        /\ \A b \in Clients \ {c} : op'[b] = op[b] /\ ask'[b] = ask[b]
    BY <2>2 DEF Asks, TypeOK
  <2> QED BY <2>1, <2>3 DEF ColumnsFilled, folderRows
<1>2. ASSUME NEW c \in Clients, CommitCreate(c) PROVE ColumnsFilled'
  <2>1. NamesKept
    BY <1>2, EndsKeepNames DEF CommitCreate
  <2>2. ask[c].target \in Targets /\ ask[c].name \in Names
    BY <1>2 DEF ColumnsFilled, CommitCreate
  <2>3. \A d \in folders' : target'[d] \in Targets /\ name'[d] \in Names
    BY <1>2, <2>2, FolderCreated DEF ColumnsFilled
  <2> QED BY <2>1, <2>3, FilledKept
<1>3. ASSUME NEW c \in Clients, CommitRename(c) PROVE ColumnsFilled'
  <2>1. NamesKept
    BY <1>3, EndsKeepNames DEF CommitRename
  <2>2. /\ name' = [name EXCEPT ![ask[c].folder] = ask[c].name]
        /\ UNCHANGED <<folders, target>> /\ ask[c].name \in Names
    BY <1>3 DEF CommitRename, ColumnsFilled
  <2>3. \A d \in folders' : target'[d] \in Targets /\ name'[d] \in Names
    BY <2>2 DEF ColumnsFilled, TypeOK
  <2> QED BY <2>1, <2>3, FilledKept
<1>4. ASSUME NEW c \in Clients, DeleteEmpty(c) \/ DropFolders(c) PROVE ColumnsFilled'
  <2>1. NamesKept
    BY <1>4, EndsKeepNames DEF DeleteEmpty, DropFolders, NamesKept, TypeOK
  <2>2. PICK ds : RemoveFolders(ds)
    BY <1>4 DEF DeleteEmpty, DropFolders
  <2>3. \A d \in folders' : target'[d] \in Targets /\ name'[d] \in Names
    BY <2>2, FoldersRemain DEF ColumnsFilled
  <2> QED BY <2>1, <2>3, FilledKept
<1>5. ASSUME UNCHANGED folderRows, NamesKept PROVE ColumnsFilled'
  BY <1>5, FilledKept DEF folderRows, ColumnsFilled
<1>6. ASSUME NEW c \in Clients,
             \/ Abort(c) \/ CommitMove(c) \/ SyncAfterCascade(c) \/ CollectKeys(c) \/ DeleteFiles(c)
             \/ \E f \in Files : CommitAdd(c, f) \/ RemoveObject(c, f)
             \/ \E d \in Folders : CheckDelete(c, d)
      PROVE  ColumnsFilled'
  <2>1. UNCHANGED folderRows
    BY <1>6 DEF Abort, CommitMove, SyncAfterCascade, CollectKeys, DeleteFiles,
                CommitAdd, RemoveObject, CheckDelete
  <2>2. CASE Ends(c)
    BY <2>1, <2>2, <1>5, EndsKeepNames
  <2>3. CASE CollectKeys(c) \/ DeleteFiles(c) \/ \E f \in Files : RemoveObject(c, f)
    <3>1. NamesKept
      BY <2>3 DEF CollectKeys, DeleteFiles, RemoveObject, NamesKept, TypeOK
    <3> QED BY <2>1, <3>1, <1>5
  <2>4. ASSUME NEW d \in Folders, CheckDelete(c, d) PROVE ColumnsFilled'
    <3>1. NamesKept
      BY <2>4 DEF CheckDelete, NamesKept, TypeOK
    <3> QED BY <2>1, <3>1, <1>5
  <2> QED BY <1>6, <2>2, <2>3, <2>4 DEF Abort, CommitMove, SyncAfterCascade, CommitAdd
<1>7. CASE \/ \E f \in Files : BeginStore(f) \/ PutObject(f) \/ SaveKey(f)
           \/ Crash \/ UNCHANGED vars
  <2>1. UNCHANGED folderRows /\ NamesKept
    BY <1>7 DEF BeginStore, PutObject, SaveKey, Crash, vars, requests, NamesKept
  <2> QED BY <2>1, <1>5
<1> QED BY <1>1, <1>2, <1>3, <1>4, <1>6, <1>7, RequestSteps DEF Next

(* What the deletions have found, and steps of one request about it.       *)
AllFound == [c \in Clients |-> Found(c)]

OthersLeft(c) ==
  \A b \in Clients \ {c} :
    op'[b] = op[b] /\ ask'[b] = ask[b] /\ tree'[b] = tree[b] /\ doomed'[b] = doomed[b]

LEMMA FoundBy ==
  ASSUME NEW c \in Clients, OthersLeft(c)
  PROVE  AllFound' = [AllFound EXCEPT ![c] = Found(c)']
<1>1. \A b \in Clients \ {c} : Found(b)' = Found(b)
  BY DEF OthersLeft, Found
<1> HIDE DEF Found
<1> QED BY <1>1 DEF AllFound

LEMMA FoundLeft ==
  ASSUME NEW c \in Clients, OthersLeft(c), Found(c)' = Found(c)
  PROVE  AllFound' = AllFound
BY FoundBy DEF AllFound

(* A request that has ended has found nothing.                             *)
LEMMA FoundNothing ==
  ASSUME NEW c, op[c] \notin {"delete", "drop"}
  PROVE  Found(c) = Tree!Unseen
BY DEF Found, Tree!Unseen

LEMMA EndFinds ==
  ASSUME TypeOK, NEW c \in Clients, Ends(c)
  PROVE  OthersLeft(c) /\ op'[c] = "idle" /\ Found(c)' = Tree!Unseen
<1>1. OthersLeft(c) /\ op'[c] = "idle"
  BY DEF TypeOK, Ends, OthersLeft
<1> QED BY <1>1 DEF Found, Tree!Unseen

LEMMA EndsKeepFound ==
  ASSUME TypeOK, NEW c \in Clients, Ends(c), op[c] \notin {"delete", "drop"}
  PROVE  AllFound' = AllFound
BY EndFinds, FoundNothing, FoundLeft

(* A step that the users of the tree do not notice.                        *)
LEMMA TreeStands ==
  ASSUME UNCHANGED <<folders, parent, target, name, made, files, folderOf, fileTarget, deleted>>,
         AllFound' = AllFound
  PROVE  UNCHANGED Tree!vars
BY DEF Tree!vars, AllFound

(* A deletion that looks: at an empty folder, or at those of its cascade.  *)
LEMMA LookActsAtOnce ==
  ASSUME TypeOK, TreesInv, NEW c \in Clients,
         DeleteFiles(c) \/ \E d \in Folders : CheckDelete(c, d)
  PROVE  [Tree!Next]_(Tree!vars)
<1>1. UNCHANGED <<folders, parent, target, name, made, files, folderOf, fileTarget, deleted>>
  BY DEF DeleteFiles, CheckDelete, folderRows, fileRows
<1>2. OthersLeft(c) /\ op[c] \notin {"delete", "drop"}
  BY DEF DeleteFiles, CheckDelete, OthersLeft, TypeOK
<1>3. Found(c) = Tree!Unseen
  BY <1>2, FoundNothing
<1>4. ASSUME NEW ds \in SUBSET Folders, ds # {},
             Found(c)' = [folders |-> ds, files |-> {f \in files : folderOf[f] \in ds}]
      PROVE  Tree!Next
  <2>1. {f \in files : folderOf[f] \in ds}
          = {f \in Tree!Filed : [g \in files |-> [folder |-> folderOf[g],
                                                 target |-> fileTarget[g]]][f].folder \in ds}
    BY DEF Tree!Filed
  <2>2. AllFound' = [AllFound EXCEPT ![c] = Found(c)'] /\ AllFound[c] = Tree!Unseen
    BY <1>2, <1>3, FoundBy DEF AllFound
  <2> HIDE DEF Found
  <2>3. Tree!Inspect(c, ds)
    BY <1>1, <1>4, <2>1, <2>2 DEF Tree!Inspect, AllFound
  <2> QED BY <2>3 DEF Tree!Next
<1>5. CASE DeleteFiles(c)
  <2>1. op'[c] = "drop" /\ tree'[c] = tree[c] /\ doomed'[c] = {f \in files : folderOf[f] \in tree[c]}
    BY <1>5 DEF DeleteFiles, Content, TypeOK
  <2>2. tree[c] \in SUBSET Folders /\ tree[c] # {}
    BY <1>5 DEF DeleteFiles, TreesInv, TypeOK
  <2>3. Found(c)' = [folders |-> tree[c], files |-> {f \in files : folderOf[f] \in tree[c]}]
    BY <2>1 DEF Found
  <2> QED BY <1>4, <2>2, <2>3
<1>6. ASSUME NEW d \in Folders, CheckDelete(c, d)
      PROVE  [Tree!Next]_(Tree!vars)
  <2>1. CASE Children(d) = {} /\ Content({d}) = {}
    <3>1. op'[c] = "delete" /\ ask'[c].folder = d
      BY <1>6, <2>1 DEF CheckDelete, TypeOK
    <3>2. {f \in files : folderOf[f] \in {d}} = {}
      BY <2>1 DEF Content
    <3>3. Found(c)' = [folders |-> {d}, files |-> {f \in files : folderOf[f] \in {d}}]
      BY <3>1, <3>2 DEF Found
    <3> QED BY <1>4, <3>3
  <2>2. CASE ~(Children(d) = {} /\ Content({d}) = {})
    <3>1. op'[c] = "collect"
      BY <1>6, <2>2 DEF CheckDelete, TypeOK
    <3>2. Found(c)' = Found(c)
      BY <1>3, <3>1 DEF Found, Tree!Unseen
    <3> QED BY <1>1, <1>2, <3>2, FoundLeft, TreeStands
  <2> QED BY <2>1, <2>2
<1> QED BY <1>5, <1>6

(* Deletions that come to nothing.                                         *)
LEMMA CancelActsAtOnce ==
  ASSUME UNCHANGED <<folders, parent, target, name, made, files, folderOf, fileTarget, deleted>>,
         NEW cs \in SUBSET Clients,
         AllFound' = [c \in Clients |-> IF c \in cs THEN Tree!Unseen ELSE AllFound[c]]
  PROVE  Tree!Next
<1>1. Tree!Cancel(cs)
  BY DEF Tree!Cancel, AllFound
<1> QED BY <1>1 DEF Tree!Next

LEMMA RollbackActsAtOnce ==
  ASSUME TypeOK, (\E c \in Clients : Abort(c)) \/ Crash
  PROVE  Tree!Next
<1>1. UNCHANGED <<folders, parent, target, name, made, files, folderOf, fileTarget, deleted>>
  BY DEF Abort, Crash, folderRows, fileRows
<1>2. ASSUME NEW c \in Clients, Abort(c) PROVE Tree!Next
  <2>1. AllFound' = [AllFound EXCEPT ![c] = Tree!Unseen]
    BY <1>2, EndFinds, FoundBy DEF Abort
  <2>2. AllFound' = [b \in Clients |-> IF b \in {c} THEN Tree!Unseen ELSE AllFound[b]]
    BY <2>1 DEF AllFound
  <2>3. {c} \in SUBSET Clients
    OBVIOUS
  <2> QED BY <1>1, <2>2, <2>3, CancelActsAtOnce
<1>3. CASE Crash
  <2>1. \A c \in Clients : Found(c)' = Tree!Unseen
    BY <1>3 DEF Crash, Found, Tree!Unseen
  <2> HIDE DEF Found
  <2>2. AllFound' = [b \in Clients |-> IF b \in Clients THEN Tree!Unseen ELSE AllFound[b]]
    BY <2>1 DEF AllFound
  <2> QED BY <1>1, <2>2, CancelActsAtOnce
<1> QED BY <1>2, <1>3

(* What the check of a new folder found still holds when it is inserted.   *)
LEMMA CreateActsAtOnce ==
  ASSUME TypeOK, StillAsRead, ColumnsFilled, NEW c \in Clients, CommitCreate(c)
  PROVE  Tree!Next
<1>1. PICK d \in Folders : d = made'
  BY FolderBounds DEF CommitCreate, TypeOK, Folders
<1>2. d \notin 1 .. made /\ 1 .. made' = (1 .. made) \union {d}
  BY <1>1 DEF CommitCreate, TypeOK
<1>3. PICK p \in Folders \union {None}, t \in Targets, n \in Names :
        /\ p = ask[c].folder /\ t = ask[c].target /\ n = ask[c].name
        /\ p = None \/ (p \in folders /\ target[p] = t)
  BY DEF CommitCreate, StillAsRead, ColumnsFilled, TypeOK
<1>4. Tree!NameFree(p, t, n, None)
  <2>1. \A e \in folders \ {None} :
          parent[e] = p /\ name[e] = n => p = None /\ target[e] # t
    BY <1>3 DEF CommitCreate, Taken
  <2> QED BY <2>1 DEF Tree!NameFree, Tree!Live
<1>5. UNCHANGED <<files, folderOf, fileTarget, deleted>>
  BY DEF CommitCreate, fileRows
<1>6. /\ folders' = folders \union {d}
      /\ parent'[d] = p /\ target'[d] = t /\ name'[d] = n
      /\ \A e \in folders \ {d} :
           parent'[e] = parent[e] /\ target'[e] = target[e] /\ name'[e] = name[e]
  BY <1>1, <1>3, FolderCreated
<1>7. AllFound' = AllFound
  BY EndsKeepFound DEF CommitCreate
<1>8. Tree!Create(d, p, t, n)
  BY <1>2, <1>3, <1>4, <1>5, <1>6, <1>7 DEF Tree!Create, Tree!Live, AllFound
<1> QED BY <1>8 DEF Tree!Next

LEMMA RenameActsAtOnce ==
  ASSUME TypeOK, ColumnsFilled, NEW c \in Clients, CommitRename(c)
  PROVE  Tree!Next
<1>1. PICK d \in Folders, n \in Names :
        /\ d = ask[c].folder /\ d \in folders
        /\ ~Taken(parent[d], target[d], n, d)
        /\ name' = [name EXCEPT ![d] = n]
  BY DEF CommitRename, ColumnsFilled, TypeOK
<1>2. UNCHANGED <<folders, parent, target, made, files, folderOf, fileTarget, deleted>>
  BY DEF CommitRename, fileRows
<1>3. Tree!NameFree(parent[d], target[d], n, d)
  BY <1>1 DEF Taken, Tree!NameFree, Tree!Live
<1>4. \A e \in folders : name'[e] = IF e = d THEN n ELSE name[e]
  BY <1>1 DEF TypeOK
<1>5. AllFound' = AllFound
  BY EndsKeepFound DEF CommitRename
<1>6. Tree!Rename(d, n)
  BY <1>1, <1>2, <1>3, <1>4, <1>5 DEF Tree!Rename, Tree!Live, AllFound
<1> QED BY <1>6 DEF Tree!Next

LEMMA FilingActsAtOnce ==
  ASSUME TypeOK, StillAsRead, NEW c \in Clients, NEW f \in Files, CommitAdd(c, f)
  PROVE  Tree!Next
<1>1. PICK d \in Folders :
        /\ d \in folders /\ target[d] = ask[c].target
        /\ folderOf' = [folderOf EXCEPT ![f] = d]
        /\ fileTarget' = [fileTarget EXCEPT ![f] = target[d]]
  BY DEF CommitAdd, StillAsRead, TypeOK
<1>2. /\ f \notin files \union deleted /\ files' = files \union {f} /\ deleted' = deleted
      /\ UNCHANGED <<folders, parent, target, name, made>>
  BY DEF CommitAdd, folderRows
<1>3. \A g \in files' : /\ folderOf'[g] = IF g = f THEN d ELSE folderOf[g]
                        /\ fileTarget'[g] = IF g = f THEN target[d] ELSE fileTarget[g]
  BY <1>1, <1>2 DEF TypeOK
<1>4. AllFound' = AllFound
  BY EndsKeepFound DEF CommitAdd
<1>5. Tree!File(f, d)
  BY <1>1, <1>2, <1>3, <1>4 DEF Tree!File, Tree!Live, Tree!Filed, AllFound
<1> QED BY <1>5 DEF Tree!Next

LEMMA MoveActsAtOnce ==
  ASSUME TypeOK, StillAsRead, NEW c \in Clients, CommitMove(c)
  PROVE  Tree!Next
<1>1. PICK f \in Files, d \in Folders \union {None} :
        /\ f \in files /\ folderOf' = [folderOf EXCEPT ![f] = d]
        /\ d = None \/ (d \in folders /\ target[d] = fileTarget[f])
  BY DEF CommitMove, StillAsRead, TypeOK
<1>2. UNCHANGED <<folders, parent, target, name, made, files, fileTarget, deleted>>
  BY DEF CommitMove, folderRows
<1>3. \A g \in files : folderOf'[g] = IF g = f THEN d ELSE folderOf[g]
  BY <1>1 DEF TypeOK
<1>4. AllFound' = AllFound
  BY EndsKeepFound DEF CommitMove
<1>5. Tree!Move(f, d)
  BY <1>1, <1>2, <1>3, <1>4 DEF Tree!Move, Tree!Live, Tree!Filed, AllFound
<1> QED BY <1>5 DEF Tree!Next

(* A deletion removes what it has found.                                   *)
LEMMA DeletionFound ==
  ASSUME TypeOK, NEW c \in Clients, DeleteEmpty(c) \/ DropFolders(c)
  PROVE  /\ AllFound[c].folders = Dropped(c)
         /\ AllFound[c].files = IF op[c] = "drop" THEN doomed[c] ELSE {}
         /\ AllFound' = [AllFound EXCEPT ![c] = Tree!Unseen]
<1>1. op[c] \in {"delete", "drop"}
  BY DEF DeleteEmpty, DropFolders
<1>2. AllFound[c] = Found(c)
  BY DEF AllFound
<1>3. AllFound[c].folders = Dropped(c) /\ AllFound[c].files = IF op[c] = "drop" THEN doomed[c] ELSE {}
  BY <1>1, <1>2 DEF Found, Dropped
<1>4. OthersLeft(c) /\ op'[c] \in {"idle", "cleaning"}
  <2>1. CASE Ends(c)
    BY <2>1, EndFinds
  <2>2. CASE ~Ends(c)
    BY <2>2 DEF DeleteEmpty, DropFolders, OthersLeft, TypeOK
  <2> QED BY <2>1, <2>2
<1>5. Found(c)' = Tree!Unseen
  BY <1>4 DEF Found, Tree!Unseen
<1> QED BY <1>3, <1>4, <1>5, FoundBy

LEMMA DeletionActsAtOnce ==
  ASSUME TypeOK, TargetsInherited, TreesInv, NEW c \in Clients,
         DeleteEmpty(c) \/ DropFolders(c)
  PROVE  Tree!Next
<1>1. PICK ds \in SUBSET Folders : ds = Dropped(c) \intersect folders
  BY DEF TypeOK
<1>2. PICK fs \in SUBSET Files :
        /\ fs = IF op[c] = "drop" THEN doomed[c] ELSE {}
        /\ files' = files \ fs /\ deleted' = deleted \union fs
        /\ \A f \in files \ fs : fileTarget'[f] = fileTarget[f]
        /\ \A f \in fs : f \in files /\ folderOf[f] \in ds
  <2>1. CASE DeleteEmpty(c)
    BY <2>1 DEF DeleteEmpty
  <2>2. CASE DropFolders(c)
    <3>0. op[c] = "drop"
      BY <2>2 DEF DropFolders
    <3>1. /\ files' = files \ doomed[c] /\ deleted' = deleted \union doomed[c]
          /\ \A f \in files \ doomed[c] : fileTarget'[f] = fileTarget[f]
      BY <2>2 DEF DropFolders, TypeOK
    <3>2. \A f \in doomed[c] : f \in files /\ folderOf[f] \in tree[c]
      BY DEF TreesInv
    <3>3. \A f \in doomed[c] : folderOf[f] \in folders
      BY <3>2 DEF TargetsInherited, TypeOK, None, Folders
    <3>4. doomed[c] \in SUBSET Files /\ Dropped(c) = tree[c]
      BY <2>2 DEF TypeOK, DropFolders, Dropped
    <3> QED BY <1>1, <3>0, <3>1, <3>2, <3>3, <3>4
  <2> QED BY <2>1, <2>2
<1>3. /\ folders' = folders \ ds /\ made' = made
      /\ \A d \in folders' : parent'[d] = parent[d] /\ target'[d] = target[d] /\ name'[d] = name[d]
  BY <1>1, DeletionHangsTogether, FoldersRemain
<1>4. \A f \in files \ fs : folderOf'[f] = IF folderOf[f] \in ds THEN None ELSE folderOf[f]
  <2> SUFFICES ASSUME NEW f \in files \ fs
               PROVE  folderOf'[f] = IF folderOf[f] \in ds THEN None ELSE folderOf[f]
    OBVIOUS
  <2>1. folderOf[f] \in Dropped(c) => folderOf[f] = None \/ folderOf[f] \in ds
    BY <1>1 DEF TargetsInherited
  <2>2. folderOf'[f] = IF folderOf[f] \in Dropped(c) THEN None ELSE folderOf[f]
    BY DeletionHangsTogether DEF Unfiled, TypeOK
  <2> QED BY <1>1, <2>1, <2>2
<1>5. files' \union deleted' = files \union deleted
  BY <1>2
<1>6. CASE ds = {}
  <2>1. folders' = folders /\ files' = files /\ deleted' = deleted /\ made' = made
    BY <1>2, <1>3, <1>6
  <2>2. \A f \in files : folderOf'[f] = folderOf[f] /\ fileTarget'[f] = fileTarget[f]
    BY <1>2, <1>4, <1>6
  <2>3. Tree!Cancel({c})
    <3>1. AllFound' = [b \in Clients |-> IF b \in {c} THEN Tree!Unseen ELSE AllFound[b]]
      BY DeletionFound DEF AllFound
    <3> QED BY <1>3, <2>1, <2>2, <3>1 DEF Tree!Cancel, AllFound
  <2> QED BY <2>3 DEF Tree!Next
<1>7. CASE ds # {}
  <2>1. PICK d \in Folders : d = ask[c].folder /\ d \in ds
    BY <1>1, <1>7, DeletionHangsTogether
  <2>2. ds = {e \in folders : e = d \/ parent[e] \in ds}
    <3>1. \A e \in folders : parent[e] \in ds => e \in ds
      BY <1>1, DeletionHangsTogether
    <3>2. \A e \in ds : e = d \/ parent[e] \in ds
      <4> SUFFICES ASSUME NEW e \in ds, e # d PROVE parent[e] \in ds
        OBVIOUS
      <4>1. parent[e] \in Dropped(c) /\ e \in folders
        BY <1>1, <2>1, DeletionHangsTogether
      <4>2. None \notin Dropped(c)
        BY <2>1 DEF Dropped, TypeOK, None, Folders
      <4> QED BY <1>1, <4>1, <4>2 DEF TargetsInherited
    <3> QED BY <1>1, <2>1, <3>1, <3>2
  <2>3. Tree!Branch(d, ds) /\ d \in folders
    BY <1>1, <2>1, <2>2 DEF Tree!Branch, Tree!Live
  <2>4. /\ AllFound[c].folders \intersect Tree!Live = ds /\ AllFound[c].files = fs
        /\ AllFound' = [AllFound EXCEPT ![c] = Tree!Unseen]
    BY <1>1, <1>2, DeletionFound DEF Tree!Live
  <2>5. /\ \A f \in fs : f \in files /\ folderOf[f] \in ds
        /\ [e \in folders' |-> [parent |-> parent'[e], target |-> target'[e], name |-> name'[e]]]
             = [e \in folders \ ds |->
                  [parent |-> parent[e], target |-> target[e], name |-> name[e]]]
        /\ [f \in files' |-> [folder |-> folderOf'[f], target |-> fileTarget'[f]]]
             = [f \in files \ fs |->
                  IF folderOf[f] \in ds THEN [folder |-> None, target |-> fileTarget[f]]
                  ELSE [folder |-> folderOf[f], target |-> fileTarget[f]]]
    BY <1>2, <1>3, <1>4
  <2>6. Tree!Remove(c, d)
    <3> DEFINE X == AllFound[c].folders \intersect Tree!Live
               Y == AllFound[c].files
               N == [e \in folders |-> [parent |-> parent[e], target |-> target[e],
                                       name |-> name[e]]]
               P == [f \in files |-> [folder |-> folderOf[f], target |-> fileTarget[f]]]
    <3>1. X = ds /\ Y = fs
      BY <2>4
    <3>2. d \in X
      BY <2>1, <3>1
    <3>3. Tree!Branch(d, X)
      BY <2>3, <3>1
    <3>4. \A f \in Y : f \in Tree!Filed /\ P[f].folder \in X
      <4> HIDE DEF X, Y
      <4> QED BY <2>5, <3>1 DEF Tree!Filed
    <3>5. N' = [e \in Tree!Live \ X |-> N[e]]
      <4> HIDE DEF X
      <4> QED BY <2>5, <3>1 DEF Tree!Live
    <3>6. P' = [f \in Tree!Filed \ Y |->
                  IF P[f].folder \in X THEN [folder |-> None, target |-> P[f].target]
                  ELSE P[f]]
      <4> HIDE DEF X, Y
      <4> QED BY <1>2, <2>5, <3>1 DEF Tree!Filed
    <3> QED BY <1>3, <1>5, <2>4, <3>2, <3>3, <3>4, <3>5, <3>6, Zenon
       DEF Tree!Remove, AllFound
  <2> QED BY <2>6 DEF Tree!Next
<1> QED BY <1>6, <1>7

(* The steps that change what the users of the tree see.                   *)
LEMMA TreeRowSteps ==
  ASSUME TypeOK, [Next]_vars
  PROVE  \/ /\ UNCHANGED <<folders, parent, target, name, made,
                           files, folderOf, fileTarget, deleted>>
            /\ AllFound' = AllFound
         \/ \E c \in Clients :
              \/ CommitCreate(c) \/ CommitRename(c) \/ DeleteEmpty(c) \/ DropFolders(c)
              \/ CommitMove(c) \/ \E f \in Files : CommitAdd(c, f)
              \/ DeleteFiles(c) \/ \E d \in Folders : CheckDelete(c, d)
         \/ (\E c \in Clients : Abort(c)) \/ Crash
<1> USE DEF folderRows, fileRows
<1>1. ASSUME NEW c \in Clients, FolderRequest(c) \/ FileRequest(c) \/ DeleteRequest(c),
             ~(CommitCreate(c) \/ CommitRename(c) \/ DeleteEmpty(c) \/ DropFolders(c)),
             ~(CommitMove(c) \/ \E f \in Files : CommitAdd(c, f)),
             ~(DeleteFiles(c) \/ (\E d \in Folders : CheckDelete(c, d)) \/ Abort(c))
      PROVE  /\ UNCHANGED <<folders, parent, target, name, made,
                            files, folderOf, fileTarget, deleted>>
             /\ AllFound' = AllFound
  <2>1. CASE Checks(c)
    <3>1. /\ UNCHANGED <<folders, parent, target, name, made,
                         files, folderOf, fileTarget, deleted>>
          /\ OthersLeft(c) /\ {op[c], op'[c]} \intersect {"delete", "drop"} = {}
      BY <2>1 DEF Checks, CheckCreate, CheckRename, CheckAdd, CheckMove, Asks, OthersLeft, TypeOK
    <3>2. Found(c)' = Found(c)
      BY <3>1 DEF Found
    <3> QED BY <3>1, <3>2, FoundLeft
  <2>2. CASE SyncAfterCascade(c)
    BY <2>2, EndsKeepFound DEF SyncAfterCascade
  <2>3. CASE CollectKeys(c) \/ \E f \in Files : RemoveObject(c, f)
    <3>1. /\ UNCHANGED <<folders, parent, target, name, made,
                         files, folderOf, fileTarget, deleted>>
          /\ OthersLeft(c) /\ {op[c], op'[c]} \intersect {"delete", "drop"} = {}
      BY <2>3 DEF CollectKeys, RemoveObject, OthersLeft, TypeOK
    <3>2. Found(c)' = Found(c)
      BY <3>1 DEF Found
    <3> QED BY <3>1, <3>2, FoundLeft
  <2> QED BY <1>1, <2>1, <2>2, <2>3, RequestSteps
<1>2. ASSUME \/ \E f \in Files : BeginStore(f) \/ PutObject(f) \/ SaveKey(f)
             \/ UNCHANGED vars
      PROVE  /\ UNCHANGED <<folders, parent, target, name, made,
                            files, folderOf, fileTarget, deleted>>
             /\ AllFound' = AllFound
  <2>1. /\ UNCHANGED <<folders, parent, target, name, made,
                       files, folderOf, fileTarget, deleted>>
        /\ UNCHANGED <<op, ask, tree, doomed>>
    BY <1>2 DEF BeginStore, PutObject, SaveKey, vars, requests
  <2> QED BY <2>1 DEF AllFound, Found
<1> QED BY <1>1, <1>2 DEF Next

(* Requests that check in one statement and write in another write what is *)
(* still as they checked it, and deletions what they found and no more:    *)
(* the tree implements Forest, in which a deletion looks first, too.       *)
THEOREM RequestsActAtOnce == Spec => ActsAtOnce
<1>1. Init => ColumnsFilled
  BY DEF Init, ColumnsFilled
<1>2. TypeOK /\ ColumnsFilled /\ [Next]_vars => ColumnsFilled'
  BY FilledInductive
<1>3. Init => StillAsRead /\ TargetsInherited /\ TreesInv
  BY TreesInitially
<1>4. TypeOK /\ StillAsRead /\ TargetsInherited /\ [Next]_vars
        => StillAsRead' /\ TargetsInherited'
  BY TargetsInductive
<1>5. TypeOK /\ StillAsRead /\ TargetsInherited /\ TreesInv /\ [Next]_vars => TreesInv'
  BY TreesInductive
<1>6. Init => Tree!Init
  <2> SUFFICES ASSUME Init PROVE Tree!Init
    OBVIOUS
  <2>1. \A c \in Clients : Found(c) = Tree!Unseen
    BY FoundNothing DEF Init
  <2> HIDE DEF Found
  <2>2. AllFound = [c \in Clients |-> Tree!Unseen]
    BY <2>1 DEF AllFound
  <2> QED BY <2>2 DEF Init, Tree!Init, AllFound
<1>7. TypeOK /\ StillAsRead /\ TargetsInherited /\ TreesInv /\ ColumnsFilled /\ [Next]_vars
        => [Tree!Next]_(Tree!vars)
  BY TreeRowSteps, TreeStands, CreateActsAtOnce, RenameActsAtOnce, FilingActsAtOnce,
     MoveActsAtOnce, DeletionActsAtOnce, LookActsAtOnce, RollbackActsAtOnce
<1> QED BY <1>1, <1>2, <1>3, <1>4, <1>5, <1>6, <1>7, TypeCorrect, PTL
        DEF Spec, ActsAtOnce, Tree!Spec

-----------------------------------------------------------------------------
(* The path get_breadcrumb collects.                                       *)
IsChain(f, N) ==
  f = [n \in 0 .. N |->
        [d \in Folders \union {None} |->
           IF n = 0 \/ d \notin folders THEN <<>> ELSE Append(f[n - 1][parent[d]], d)]]

(* A path one folder longer is a folder appended to the parent's path.     *)
LEMMA LongerChain ==
  ASSUME TypeOK, NEW N \in Nat, NEW f, IsChain(f, N)
  PROVE  \E g : IsChain(g, N + 1)
<1> DEFINE D == Folders \union {None}
           last == [d \in D |-> IF d \notin folders THEN <<>> ELSE Append(f[N][parent[d]], d)]
           g == [n \in 0 .. N + 1 |-> IF n = N + 1 THEN last ELSE f[n]]
           row(h, n) == [d \in D |->
             IF n = 0 \/ d \notin folders THEN <<>> ELSE Append(h[n - 1][parent[d]], d)]
<1>1. \A n \in 0 .. N : f[n] = row(f, n)
  BY DEF IsChain
<1>2. \A n \in 0 .. N : g[n] = f[n]
  OBVIOUS
<1>3. g[N + 1] = last
  OBVIOUS
<1> HIDE DEF g
<1>4. ASSUME NEW n \in 1 .. N PROVE row(g, n) = row(f, n)
  <2>1. n - 1 \in 0 .. N
    OBVIOUS
  <2>2. g[n - 1] = f[n - 1]
    BY <1>2, <2>1
  <2> QED BY <2>2
<1>5. row(g, 0) = row(f, 0)
  <2>1. \A d \in D : row(g, 0)[d] = <<>> /\ row(f, 0)[d] = <<>>
    OBVIOUS
  <2>2. row(g, 0) = [d \in D |-> <<>>] /\ row(f, 0) = [d \in D |-> <<>>]
    OBVIOUS
  <2> QED BY <2>2
<1>6. row(g, N + 1) = last
  <2>1. N + 1 # 0 /\ (N + 1) - 1 = N
    OBVIOUS
  <2>2. g[(N + 1) - 1] = f[N]
    BY <1>2, <2>1
  <2>3. \A d \in D : (IF N + 1 = 0 \/ d \notin folders THEN <<>>
                                   ELSE Append(g[(N + 1) - 1][parent[d]], d)) = last[d]
    BY <2>1, <2>2
  <2> QED BY <2>3
<1>7. \A n \in 0 .. N + 1 : g[n] = row(g, n)
  <2> SUFFICES ASSUME NEW n \in 0 .. N + 1 PROVE g[n] = row(g, n)
    OBVIOUS
  <2> HIDE DEF row
  <2>1. CASE n = 0
    BY <1>1, <1>2, <1>5, <2>1
  <2>2. CASE n \in 1 .. N
    BY <1>1, <1>2, <1>4, <2>2
  <2>3. CASE n = N + 1
    BY <1>3, <1>6, <2>3
  <2> QED BY <2>1, <2>2, <2>3
<1>8. g = [n \in 0 .. N + 1 |-> g[n]]
  BY DEF g
<1>9. g = [n \in 0 .. N + 1 |-> row(g, n)]
  <2> HIDE DEF row
  <2> QED BY <1>7, <1>8
<1>10. IsChain(g, N + 1)
  BY <1>9 DEF IsChain
<1> QED BY <1>10

LEMMA ChainExists ==
  ASSUME TypeOK, NEW N \in Nat
  PROVE  \E f : IsChain(f, N)
<1> DEFINE bad == {n \in Nat : ~ \E f : IsChain(f, n)}
<1> SUFFICES ASSUME bad # {} PROVE FALSE
  OBVIOUS
<1>1. PICK n \in bad : \A m \in bad : ~(m < n)
  <2>1. bad \in SUBSET Nat
    OBVIOUS
  <2> HIDE DEF bad
  <2>2. \E m \in bad : \A l \in bad : ~(<<l, m>> \in OpToRel(<, Nat))
    BY <2>1, NatLessThanWellFounded, WFMin
  <2> QED BY <2>1, <2>2 DEF OpToRel
<1>2. CASE n = 0
  <2> DEFINE D == Folders \union {None}
             f == [m \in 0 .. 0 |-> [d \in D |-> <<>>]]
  <2>1. \A m \in 0 .. 0 :
          [d \in D |-> <<>>] = [d \in D |->
            IF m = 0 \/ d \notin folders THEN <<>> ELSE Append(f[m - 1][parent[d]], d)]
    OBVIOUS
  <2>2. IsChain(f, 0)
    <3>1. f = [m \in 0 .. 0 |-> [d \in D |->
            IF m = 0 \/ d \notin folders THEN <<>> ELSE Append(f[m - 1][parent[d]], d)]]
      BY <2>1
    <3> HIDE DEF f
    <3> QED BY <3>1 DEF IsChain
  <2> QED BY <1>2, <2>2
<1>3. CASE n # 0
  <2>1. n - 1 \in Nat /\ n - 1 < n /\ n = (n - 1) + 1
    BY <1>3
  <2>2. PICK f : IsChain(f, n - 1)
    BY <1>1, <2>1
  <2>3. \E g : IsChain(g, (n - 1) + 1)
    <3> HIDE DEF bad
    <3> QED BY <2>1, <2>2, LongerChain
  <2> QED BY <2>1, <2>3
<1> QED BY <1>2, <1>3

LEMMA BreadcrumbIsChain ==
  ASSUME TypeOK
  PROVE  \E f : IsChain(f, Cap) /\ \A e : Breadcrumb(e) = f[Cap][e]
<1> DEFINE f == CHOOSE f : f = [n \in 0 .. Cap |->
        [d \in Folders \union {None} |->
           IF n = 0 \/ d \notin folders THEN <<>> ELSE Append(f[n - 1][parent[d]], d)]]
<1>1. PICK g : IsChain(g, Cap)
  BY ChainExists, FolderBounds
<1>2. IsChain(f, Cap)
  BY <1>1 DEF IsChain
<1>3. \A e : Breadcrumb(e) = f[Cap][e]
  BY DEF Breadcrumb
<1> QED BY <1>2, <1>3

(* What is above a folder is no younger than it, so there is one more      *)
(* above it than above its parent.                                         *)
LEMMA AboveIsOlder ==
  ASSUME TypeOK, ParentsFirst
  PROVE  \A e \in Folders : Above(e) \subseteq 1 .. e
<1> DEFINE bad == {e \in Folders : ~(Above(e) \subseteq 1 .. e)}
<1> SUFFICES ASSUME bad # {} PROVE FALSE
  OBVIOUS
<1>1. PICK e \in bad : \A d \in bad : ~(d < e)
  <2>1. bad \in SUBSET Folders
    OBVIOUS
  <2> HIDE DEF bad
  <2> QED BY <2>1, LeastFolder
<1>2. Above(e) = {e} \union Above(parent[e]) /\ e \in Nat /\ e \in 1 .. e
  BY AboveStep, FolderBounds DEF Folders
<1>3. CASE parent[e] = None
  BY <1>2, <1>3, AboveStep
<1>4. CASE parent[e] # None
  <2>1. parent[e] \in Folders /\ parent[e] < e
    BY <1>4 DEF ParentsFirst, Folders, None, TypeOK
  <2>2. Above(parent[e]) \subseteq 1 .. parent[e]
    BY <1>1, <2>1
  <2>3. 1 .. parent[e] \subseteq 1 .. e
    BY <1>2, <2>1 DEF Folders
  <2> QED BY <1>2, <2>2, <2>3
<1> QED BY <1>3, <1>4

LEMMA OneMoreAbove ==
  ASSUME TypeOK, ParentsFirst, NEW e \in Folders
  PROVE  /\ Cardinality(Above(e)) = Cardinality(Above(parent[e])) + 1
         /\ Cardinality(Above(parent[e])) \in Nat
         /\ Cardinality(Above(None)) = 0
<1>1. Above(e) = {e} \union Above(parent[e]) /\ Above(None) = {}
  BY AboveStep
<1>2. parent[e] \in Folders \union {None} /\ (parent[e] # None => parent[e] < e)
  BY DEF ParentsFirst, Folders, None, TypeOK
<1>3. IsFiniteSet(Above(parent[e])) /\ e \notin Above(parent[e])
  <2>1. CASE parent[e] = None
    BY <1>1, <2>1, FS_EmptySet
  <2>2. CASE parent[e] # None
    <3>1. Above(parent[e]) \subseteq 1 .. parent[e]
      BY <1>2, <2>2, AboveIsOlder
    <3>2. IsFiniteSet(1 .. parent[e])
      BY <1>2, <2>2, FS_Interval DEF Folders
    <3> QED BY <1>2, <2>2, <3>1, <3>2, FS_Subset DEF Folders
  <2> QED BY <2>1, <2>2
<1>4. Above(e) = Above(parent[e]) \union {e}
  BY <1>1
<1> QED BY <1>1, <1>3, <1>4, FS_AddElement, FS_EmptySet, FS_CardinalityType

LEMMA LongerPath ==
  ASSUME NEW S, NEW s \in Seq(S), NEW e \in S
  PROVE  /\ Append(s, e) \in Seq(S) /\ Append(s, e) # <<>>
         /\ Len(Append(s, e)) = Len(s) + 1
         /\ s # <<>> => Head(Append(s, e)) = Head(s)
BY AppendProperties, HeadTailAppend

(* A path that may be as long as there are folders above reaches the root. *)
LEMMA ChainReachesRoot ==
  ASSUME TypeOK, ParentsFirst, TargetsInherited, NEW f, IsChain(f, Cap)
  PROVE  \A d \in folders : \A n \in 0 .. Cap : Cardinality(Above(d)) <= n =>
           /\ f[n][d] \in Seq(Folders) /\ f[n][d] # <<>>
           /\ Len(f[n][d]) = Cardinality(Above(d))
           /\ parent[Head(f[n][d])] = None
<1> DEFINE Reaches(d, n) ==
             /\ f[n][d] \in Seq(Folders) /\ f[n][d] # <<>>
             /\ Len(f[n][d]) = Cardinality(Above(d))
             /\ parent[Head(f[n][d])] = None
           bad == {d \in folders : ~ \A n \in 0 .. Cap : Cardinality(Above(d)) <= n => Reaches(d, n)}
<1> SUFFICES ASSUME bad # {} PROVE FALSE
  OBVIOUS
<1>0. folders \subseteq Folders /\ None \notin Folders
  BY DEF TypeOK, None, Folders
<1>1. PICK d \in bad : \A e \in bad : ~(e < d)
  <2>1. bad \in SUBSET Folders
    BY <1>0
  <2> HIDE DEF bad
  <2> QED BY <2>1, LeastFolder
<1>2. PICK n \in 0 .. Cap : Cardinality(Above(d)) <= n /\ ~Reaches(d, n)
  BY <1>1
<1> DEFINE p == parent[d]
<1>3. d \in folders /\ d \in Folders /\ p \in Folders \union {None}
  BY <1>0, <1>1 DEF TypeOK
<1>4. /\ Cardinality(Above(d)) = Cardinality(Above(p)) + 1
      /\ Cardinality(Above(p)) \in Nat /\ Cardinality(Above(None)) = 0
  BY <1>3, OneMoreAbove
<1>5. n # 0 /\ n - 1 \in 0 .. Cap /\ Cardinality(Above(p)) <= n - 1
  BY <1>2, <1>4, FolderBounds
<1>6. f[n][d] = Append(f[n - 1][p], d)
  <2>1. f[n] = [e \in Folders \union {None} |->
                 IF n = 0 \/ e \notin folders THEN <<>> ELSE Append(f[n - 1][parent[e]], e)]
    BY DEF IsChain
  <2> QED BY <1>3, <1>5, <2>1
<1>7. CASE p = None
  <2>1. f[n - 1][p] = <<>>
    <3>1. f[n - 1] = [e \in Folders \union {None} |->
            IF n - 1 = 0 \/ e \notin folders THEN <<>>
                                           ELSE Append(f[(n - 1) - 1][parent[e]], e)]
      BY <1>5 DEF IsChain
    <3> QED BY <1>0, <1>3, <1>7, <3>1
  <2>2. f[n][d] = <<d>>
    BY <1>6, <2>1
  <2>3. Reaches(d, n)
    BY <1>3, <1>4, <1>7, <2>2
  <2> QED BY <1>2, <2>3
<1>8. CASE p # None
  <2>1. p \in folders /\ p < d
    BY <1>3, <1>8 DEF TargetsInherited, ParentsFirst, Folders, None
  <2>2. Reaches(p, n - 1)
    BY <1>1, <1>5, <2>1
  <2>3. PICK s \in Seq(Folders) : s = f[n - 1][p]
    BY <2>2
  <2>4. /\ Append(s, d) \in Seq(Folders) /\ Append(s, d) # <<>>
        /\ Len(Append(s, d)) = Len(s) + 1
        /\ s # <<>> => Head(Append(s, d)) = Head(s)
    BY <1>3, LongerPath
  <2>5. Reaches(d, n)
    BY <1>4, <1>6, <2>2, <2>3, <2>4
  <2> QED BY <1>2, <2>5
<1> QED BY <1>7, <1>8

(* The path shown for a folder reaches its root, for trees of every shape  *)
(* and every cap, as long as the folder is no deeper than the cap.         *)
THEOREM BreadcrumbsReachRoots == Spec => []PathsReachRoots
<1>1. Init => StillAsRead /\ TargetsInherited /\ TreesInv
  BY TreesInitially
<1>2. TypeOK /\ StillAsRead /\ TargetsInherited /\ TreesInv /\ [Next]_vars => TreesInv'
  BY TreesInductive
<1>3. TypeOK /\ StillAsRead /\ TargetsInherited /\ [Next]_vars
        => StillAsRead' /\ TargetsInherited'
  BY TargetsInductive
<1>4. TypeOK /\ TargetsInherited /\ TreesInv => PathsReachRoots
  <2> SUFFICES ASSUME TypeOK, TargetsInherited, TreesInv,
                      NEW d \in folders, Cardinality(Above(d)) <= Cap
               PROVE  /\ Len(Breadcrumb(d)) = Cardinality(Above(d))
                      /\ parent[Head(Breadcrumb(d))] = None
    BY DEF PathsReachRoots
  <2>1. PICK f : IsChain(f, Cap) /\ \A e : Breadcrumb(e) = f[Cap][e]
    BY BreadcrumbIsChain
  <2>2. Cap \in 0 .. Cap /\ ParentsFirst
    BY FolderBounds DEF TreesInv
  <2> QED BY <2>1, <2>2, ChainReachesRoot
<1> QED BY <1>1, <1>2, <1>3, <1>4, TypeCorrect, PTL DEF Spec
=============================================================================
