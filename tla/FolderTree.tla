------------------------------ MODULE FolderTree ------------------------------
(***************************************************************************)
(* The folders table, the files that are in folders, and what a cascade    *)
(* leaves in S3 and in the knowledge base: routes/folders.py,              *)
(* queries/folders.py, and the folder checks of routes/files.py.           *)
(*                                                                         *)
(* Transactions are READ COMMITTED and a handler is suspended at every     *)
(* statement, so a request reads (Check...) and writes later (Commit...);  *)
(* in between other requests commit.  What protects the writes is the      *)
(* database: the foreign keys, the unique indexes and the locks on rows    *)
(* deleted and not yet committed.  A write they refuse, like any other     *)
(* error, rolls the request back (Abort).                                  *)
(*                                                                         *)
(* A folder's identity is the number of its creation; 0 is NULL, also in   *)
(* the columns of a row that is not there.  Every file has an S3 key of    *)
(* its own, so an object is named by its file.                             *)
(***************************************************************************)
EXTENDS Integers, Sequences, FiniteSets

CONSTANTS
  MaxFolders,  \* bound: folders ever created
  Names,       \* folder names up to case
  Targets,     \* knowledge bases (kb_target)
  Files,       \* identities of kb_files rows
  Clients,     \* requests in flight at once
  Cap,         \* the longest path get_breadcrumb follows: 64
  MaxFaults    \* bound: S3 errors, refused syncs and crashes

ASSUME FolderBounds ==
  /\ MaxFolders \in Nat \ {0} /\ Cap \in Nat \ {0} /\ MaxFaults \in Nat

VARIABLES
  folders,     \* the rows of the folders table
  parent, target, name,   \* their columns
  files,       \* the rows of kb_files
  folderOf, fileTarget,   \* kb_files.folder_id, kb_files.kb_target
  keyed,       \* rows whose s3_key is set
  bucket,      \* files whose object is in S3
  indexed,     \* files whose object is in the knowledge base
  storing,     \* the background task that stores each file
  op,          \* what each request does next
  ask,         \* what it was asked for
  tree,        \* delete_folder: subtree_ids
  keys,        \* delete_folder: s3_keys, and what _cascade_delete_s3 has left
  doomed,      \* rows a request has deleted and not committed
  \* Bounds and history, not part of the program
  made,        \* folders created so far
  deleted,     \* files deleted with their folder
  faults,
  escaped,     \* files that left the subtree after their keys were collected
  orphaned     \* files whose objects nobody will remove, and why is known

folderRows == <<folders, parent, target, name, made>>
fileRows == <<files, folderOf, fileTarget, keyed, deleted>>
requests == <<op, ask, tree, keys, doomed>>
storage == <<bucket, indexed, storing>>
history == <<faults, escaped, orphaned>>
vars == <<folderRows, fileRows, requests, storage, history>>

None == 0
Folders == 1 .. MaxFolders
Operation == {"idle", "create", "rename", "add", "move",
              "delete", "collect", "purge", "drop", "cleaning"}
Ask == [folder : Folders \union {None}, file : Files \union {None},
        target : Targets \union {None}, name : Names \union {None}]

TypeOK ==
  /\ folders \subseteq Folders /\ made \in 0 .. MaxFolders
  /\ parent \in [Folders -> Folders \union {None}]
  /\ target \in [Folders -> Targets \union {None}]
  /\ name \in [Folders -> Names \union {None}]
  /\ files \subseteq Files /\ keyed \subseteq files /\ deleted \subseteq Files \ files
  /\ folderOf \in [Files -> Folders \union {None}]
  /\ fileTarget \in [Files -> Targets \union {None}]
  /\ bucket \subseteq Files /\ indexed \subseteq Files
  /\ storing \in [Files -> {"no", "put", "save"}]
  /\ op \in [Clients -> Operation]
  /\ ask \in [Clients -> Ask]
  /\ tree \in [Clients -> SUBSET Folders]
  /\ keys \in [Clients -> SUBSET Files]
  /\ doomed \in [Clients -> SUBSET Files]
  /\ faults \in Nat
  /\ escaped \subseteq Files /\ orphaned \subseteq Files

Nothing == [folder |-> None, file |-> None, target |-> None, name |-> None]

Init ==
  /\ folders = {} /\ made = 0
  /\ parent = [d \in Folders |-> None]
  /\ target = [d \in Folders |-> None]
  /\ name = [d \in Folders |-> None]
  /\ files = {} /\ keyed = {} /\ deleted = {}
  /\ folderOf = [f \in Files |-> None]
  /\ fileTarget = [f \in Files |-> None]
  /\ bucket = {} /\ indexed = {}
  /\ storing = [f \in Files |-> "no"]
  /\ op = [c \in Clients |-> "idle"]
  /\ ask = [c \in Clients |-> Nothing]
  /\ tree = [c \in Clients |-> {}]
  /\ keys = [c \in Clients |-> {}]
  /\ doomed = [c \in Clients |-> {}]
  /\ faults = 0 /\ escaped = {} /\ orphaned = {}

Fault == faults < MaxFaults /\ faults' = faults + 1

-----------------------------------------------------------------------------
(* Reading the tree                                                        *)

Children(d) == {e \in folders : parent[e] = d}
Content(ds) == {f \in files : folderOf[f] \in ds}

(* walk_subtree: the folder and everything below it.                       *)
Above(e) ==
  LET above[d \in Folders \union {None}] ==
        IF d = None THEN {} ELSE {d} \union above[parent[d]]
  IN  above[e]

Subtree(d) == {e \in folders : d \in Above(e)}

(* get_breadcrumb: the path from the root, cut at Cap folders.             *)

(* Mutation: one folder less than Cap is read. *)
BreadcrumbShort(e) ==
  LET chain[n \in 0 .. Cap] ==
        [d \in Folders \union {None} |->
           IF n = 1 \/ d \notin folders THEN <<>> ELSE Append(chain[n - 1][parent[d]], d)]
  IN  chain[Cap][e]

Breadcrumb(e) ==
  LET chain[n \in 0 .. Cap] ==
        [d \in Folders \union {None} |->
           IF n = 0 \/ d \notin folders THEN <<>> ELSE Append(chain[n - 1][parent[d]], d)]
  IN  chain[Cap][e]

(* name_exists_under_parent, and the two partial unique indexes: names     *)
(* differ below a parent, and between the roots of a knowledge base.       *)
Taken(p, t, n, except) ==
  \E d \in folders \ {except} :
    name[d] = n /\ parent[d] = p /\ (p = None => target[d] = t)

(* Rows other transactions cannot write before a cascade commits.          *)
Locked == UNION {doomed[c] : c \in Clients}

-----------------------------------------------------------------------------
(* Requests                                                                *)

Asks(c, o, a) ==
  /\ op[c] = "idle"
  /\ op' = [op EXCEPT ![c] = o]
  /\ ask' = [ask EXCEPT ![c] = a]
  /\ UNCHANGED <<tree, keys, doomed>>

Ends(c) ==
  /\ op' = [op EXCEPT ![c] = "idle"]
  /\ ask' = [ask EXCEPT ![c] = Nothing]
  /\ tree' = [tree EXCEPT ![c] = {}]
  /\ keys' = [keys EXCEPT ![c] = {}]
  /\ doomed' = [doomed EXCEPT ![c] = {}]

(* Mutation: the cleanup is scheduled before the commit, and not undone.   *)
AbortCleaningUp(c) ==
  /\ op[c] \notin {"idle", "cleaning"}
  /\ op' = [op EXCEPT ![c] = "cleaning"]
  /\ ask' = [ask EXCEPT ![c] = Nothing]
  /\ tree' = [tree EXCEPT ![c] = {}]
  /\ doomed' = [doomed EXCEPT ![c] = {}]
  /\ UNCHANGED <<keys, folderRows, fileRows, storage, history>>

(* The rollback: a foreign key or a unique index that refuses the write, a *)
(* row that is gone, a lost connection.  The response is a 500.            *)
Abort(c) ==
  /\ op[c] \notin {"idle", "cleaning"}
  /\ Ends(c)
  /\ UNCHANGED <<folderRows, fileRows, storage, history>>

(* POST /folders: a subfolder inherits the knowledge base of its parent.   *)
CheckCreate(c, p, t, n) ==
  /\ p \in folders \union {None}
  /\ p # None => t = target[p]
  /\ ~Taken(p, t, n, None)
  /\ Asks(c, "create", [folder |-> p, file |-> None, target |-> t, name |-> n])
  /\ UNCHANGED <<folderRows, fileRows, storage, history>>

(* Mutation: the unique indexes are missing. *)
CommitCreateUnindexed(c) ==
  /\ op[c] = "create" /\ made < MaxFolders
  /\ ask[c].folder \in folders \union {None}
  /\ made' = made + 1
  /\ folders' = folders \union {made'}
  /\ parent' = [parent EXCEPT ![made'] = ask[c].folder]
  /\ target' = [target EXCEPT ![made'] = ask[c].target]
  /\ name' = [name EXCEPT ![made'] = ask[c].name]
  /\ Ends(c)
  /\ UNCHANGED <<fileRows, storage, history>>

CommitCreate(c) ==
  /\ op[c] = "create" /\ made < MaxFolders
  /\ ask[c].folder \in folders \union {None}
  /\ ~Taken(ask[c].folder, ask[c].target, ask[c].name, None)
  /\ made' = made + 1
  /\ folders' = folders \union {made'}
  /\ parent' = [parent EXCEPT ![made'] = ask[c].folder]
  /\ target' = [target EXCEPT ![made'] = ask[c].target]
  /\ name' = [name EXCEPT ![made'] = ask[c].name]
  /\ Ends(c)
  /\ UNCHANGED <<fileRows, storage, history>>

(* PATCH /folders: only the name and defaults change, never the parent.    *)
CheckRename(c, d, n) ==
  /\ d \in folders /\ n # name[d]
  /\ ~Taken(parent[d], target[d], n, d)
  /\ Asks(c, "rename", [folder |-> d, file |-> None, target |-> target[d], name |-> n])
  /\ UNCHANGED <<folderRows, fileRows, storage, history>>

CommitRename(c) ==
  LET d == ask[c].folder IN
  /\ op[c] = "rename" /\ d \in folders
  /\ ~Taken(parent[d], target[d], ask[c].name, d)
  /\ name' = [name EXCEPT ![d] = ask[c].name]
  /\ Ends(c)
  /\ UNCHANGED <<folders, parent, target, made, fileRows, storage, history>>

(* POST /files/upload and /files/{id}/copy: the new row is of the          *)
(* knowledge base the folder was read with.                                *)
CheckAdd(c, d) ==
  /\ d \in folders
  /\ Asks(c, "add", [folder |-> d, file |-> None, target |-> target[d], name |-> None])
  /\ UNCHANGED <<folderRows, fileRows, storage, history>>

CommitAdd(c, f) ==
  /\ op[c] = "add" /\ ask[c].folder \in folders
  /\ f \notin files \union deleted
  /\ files' = files \union {f}
  /\ folderOf' = [folderOf EXCEPT ![f] = ask[c].folder]
  /\ fileTarget' = [fileTarget EXCEPT ![f] = ask[c].target]
  /\ Ends(c)
  /\ UNCHANGED <<folderRows, keyed, deleted, storage, history>>

(* PATCH /files with a folder_id: within the knowledge base only.          *)

MayMove(f, d) ==
  /\ d \in folders \union {None} /\ d # folderOf[f]
  /\ d # None => target[d] = fileTarget[f]

CheckMove(c, f, d) ==
  /\ f \in files /\ MayMove(f, d)
  /\ Asks(c, "move", [folder |-> d, file |-> f, target |-> None, name |-> None])
  /\ UNCHANGED <<folderRows, fileRows, storage, history>>

(* Mutation: a row that a cascade has deleted is moved before the cascade commits. *)
CommitMoveUnlocked(c) ==
  LET f == ask[c].file IN
  /\ op[c] = "move"
  /\ f \in files /\ ask[c].folder \in folders \union {None}
  /\ folderOf' = [folderOf EXCEPT ![f] = ask[c].folder]
  /\ Ends(c)
  /\ UNCHANGED <<folderRows, files, fileTarget, keyed, deleted, storage, history>>

CommitMove(c) ==
  LET f == ask[c].file IN
  /\ op[c] = "move"
  /\ f \in files \ Locked /\ ask[c].folder \in folders \union {None}
  /\ folderOf' = [folderOf EXCEPT ![f] = ask[c].folder]
  /\ Ends(c)
  /\ UNCHANGED <<folderRows, files, fileTarget, keyed, deleted, storage, history>>

-----------------------------------------------------------------------------
(* DELETE /folders                                                         *)

(* get_folder, is_empty, and walk_subtree when the folder is not empty and *)
(* the request cascades; without cascade the answer is 409.                *)
CheckDelete(c, d) ==
  /\ op[c] = "idle" /\ d \in folders
  /\ IF Children(d) = {} /\ Content({d}) = {}
     THEN op' = [op EXCEPT ![c] = "delete"] /\ UNCHANGED tree
     ELSE op' = [op EXCEPT ![c] = "collect"] /\ tree' = [tree EXCEPT ![c] = Subtree(d)]
  /\ ask' = [ask EXCEPT ![c] = [folder |-> d, file |-> None, target |-> None, name |-> None]]
  /\ UNCHANGED <<keys, doomed, folderRows, fileRows, storage, history>>

Without(column, ds) == [d \in Folders |-> IF d \in ds THEN None ELSE column[d]]

RemoveFolders(ds) ==
  /\ folders' = folders \ ds
  /\ parent' = Without(parent, ds)
  /\ target' = Without(target, ds)
  /\ name' = Without(name, ds)
  /\ made' = made

(* ON DELETE SET NULL, and the ORM's own UPDATE before the DELETE.         *)
Unfiled(ds) ==
  [f \in Files |-> IF folderOf[f] \in ds THEN None ELSE folderOf[f]]

(* ON DELETE RESTRICT: nothing outside ds has its parent in ds; and rows   *)
(* of other cascades cannot be set to NULL before they commit.             *)
Restricted(ds, mine) ==
  /\ \A d \in folders : parent[d] \in ds => d \in ds
  /\ (Content(ds) \ mine) \intersect Locked = {}

DeleteEmpty(c) ==
  LET d == ask[c].folder IN
  /\ op[c] = "delete"
  /\ Restricted({d}, {})
  /\ RemoveFolders({d})
  /\ folderOf' = Unfiled({d})
  /\ Ends(c)
  /\ UNCHANGED <<files, fileTarget, keyed, deleted, storage, history>>

(* collect_s3_keys_in_folders                                              *)
CollectKeys(c) ==
  /\ op[c] = "collect"
  /\ op' = [op EXCEPT ![c] = "purge"]
  /\ keys' = [keys EXCEPT ![c] = Content(tree[c]) \intersect keyed]
  /\ UNCHANGED <<ask, tree, doomed, folderRows, fileRows, storage, history>>

(* delete_files_in_folders: waits for rows another cascade has deleted.    *)
DeleteFiles(c) ==
  /\ op[c] = "purge"
  /\ Content(tree[c]) \intersect Locked = {}
  /\ op' = [op EXCEPT ![c] = "drop"]
  /\ doomed' = [doomed EXCEPT ![c] = Content(tree[c])]
  /\ UNCHANGED <<ask, tree, keys, folderRows, fileRows, storage, history>>

(* delete_folder for each of subtree_ids, the commit, and the background   *)
(* task if a key was collected.                                            *)
DropFolders(c) ==
  /\ op[c] = "drop"
  /\ Restricted(tree[c], doomed[c])
  /\ RemoveFolders(tree[c])
  /\ files' = files \ doomed[c]
  /\ deleted' = deleted \union doomed[c]
  /\ keyed' = keyed \ doomed[c]
  /\ folderOf' = Unfiled(tree[c])
  /\ fileTarget' = [f \in Files |-> IF f \in doomed[c] THEN None ELSE fileTarget[f]]
  /\ IF keys[c] = {} THEN Ends(c)
     ELSE /\ op' = [op EXCEPT ![c] = "cleaning"]
          /\ ask' = [ask EXCEPT ![c] = Nothing]
          /\ tree' = [tree EXCEPT ![c] = {}]
          /\ doomed' = [doomed EXCEPT ![c] = {}]
          /\ keys' = keys
  /\ escaped' = escaped \union (keys[c] \intersect (files \ doomed[c]))
  /\ orphaned' = orphaned \union ((doomed[c] \ keys[c]) \intersect (bucket \union indexed))
  /\ UNCHANGED <<storage, faults>>

(* _cascade_delete_s3: an object that cannot be deleted is passed over.    *)
RemoveObject(c, f) ==
  /\ op[c] = "cleaning" /\ f \in keys[c]
  /\ keys' = [keys EXCEPT ![c] = @ \ {f}]
  /\ \/ bucket' = bucket \ {f} /\ UNCHANGED <<faults, orphaned>>
     \/ Fault /\ orphaned' = orphaned \union {f} /\ UNCHANGED bucket
  /\ UNCHANGED <<op, ask, tree, doomed, folderRows, fileRows, indexed, storing, escaped>>

(* Mutation: the knowledge base is synchronised before the objects go. *)
SyncEarly(c) ==
  /\ op[c] = "cleaning" /\ keys[c] # {}
  /\ indexed' = bucket
  /\ bucket' = bucket \ keys[c]
  /\ Ends(c)
  /\ UNCHANGED <<folderRows, fileRows, storing, history>>

(* The single sync at its end; the service may refuse it, for instance     *)
(* because another ingestion is running, and nobody asks again.            *)
SyncAfterCascade(c) ==
  /\ op[c] = "cleaning" /\ keys[c] = {}
  /\ Ends(c)
  /\ \/ indexed' = bucket /\ UNCHANGED <<faults, orphaned>>
     \/ Fault /\ orphaned' = orphaned \union (deleted \intersect indexed) /\ UNCHANGED indexed
  /\ UNCHANGED <<folderRows, fileRows, bucket, storing, escaped>>

-----------------------------------------------------------------------------
(* A file that is approved is stored in the background: the row is read,   *)
(* the object put, the key saved and the knowledge base synchronised.  (A  *)
(* file that has a key may be approved and stored again: see FileStore.)   *)

BeginStore(f) ==
  /\ f \in files \ keyed /\ storing[f] = "no"
  /\ storing' = [storing EXCEPT ![f] = "put"]
  /\ UNCHANGED <<folderRows, fileRows, requests, bucket, indexed, history>>

PutObject(f) ==
  /\ storing[f] = "put"
  /\ bucket' = bucket \union {f}
  /\ storing' = [storing EXCEPT ![f] = "save"]
  /\ UNCHANGED <<folderRows, fileRows, requests, indexed, history>>

(* Mutation: the key is written whether or not the row is still there. *)
SaveKeyAnyway(f) ==
  /\ storing[f] = "save" /\ f \notin Locked
  /\ storing' = [storing EXCEPT ![f] = "no"]
  /\ keyed' = keyed \union {f}
  /\ indexed' \in {bucket, indexed}
  /\ UNCHANGED <<folderRows, files, folderOf, fileTarget, deleted, requests, bucket, history>>

(* update_file does nothing for a row that is gone: its object stays.      *)
SaveKey(f) ==
  /\ storing[f] = "save" /\ f \notin Locked
  /\ storing' = [storing EXCEPT ![f] = "no"]
  /\ IF f \in files THEN keyed' = keyed \union {f} /\ UNCHANGED orphaned
                    ELSE orphaned' = orphaned \union {f} /\ UNCHANGED keyed
  /\ indexed' \in {bucket, indexed}
  /\ UNCHANGED <<folderRows, files, folderOf, fileTarget, deleted, requests, bucket,
                 faults, escaped>>

(* The process dies: transactions roll back, background tasks are lost.    *)
Crash ==
  /\ Fault
  /\ op' = [c \in Clients |-> "idle"]
  /\ ask' = [c \in Clients |-> Nothing]
  /\ tree' = [c \in Clients |-> {}]
  /\ keys' = [c \in Clients |-> {}]
  /\ doomed' = [c \in Clients |-> {}]
  /\ storing' = [f \in Files |-> "no"]
  /\ orphaned' = orphaned \union (deleted \intersect (bucket \union indexed))
  /\ UNCHANGED <<folderRows, fileRows, bucket, indexed, escaped>>

-----------------------------------------------------------------------------

FolderRequest(c) ==
  \/ \E p \in Folders \union {None}, t \in Targets, n \in Names : CheckCreate(c, p, t, n)
  \/ \E d \in Folders, n \in Names : CheckRename(c, d, n)
  \/ CommitCreate(c) \/ CommitRename(c) \/ Abort(c)

FileRequest(c) ==
  \/ \E d \in Folders : CheckAdd(c, d)
  \/ \E f \in Files : CommitAdd(c, f)
  \/ \E f \in Files, d \in Folders \union {None} : CheckMove(c, f, d)
  \/ CommitMove(c)

DeleteRequest(c) ==
  \/ \E d \in Folders : CheckDelete(c, d)
  \/ DeleteEmpty(c) \/ CollectKeys(c) \/ DeleteFiles(c) \/ DropFolders(c)
  \/ \E f \in Files : RemoveObject(c, f)
  \/ SyncAfterCascade(c)

Next ==
  \/ \E c \in Clients : FolderRequest(c) \/ FileRequest(c) \/ DeleteRequest(c)
  \/ \E f \in Files : BeginStore(f) \/ PutObject(f) \/ SaveKey(f)
  \/ Crash

Spec == Init /\ [][Next]_vars

-----------------------------------------------------------------------------
(* Every folder hangs below a live parent of the same knowledge base, and  *)
(* every file that is in a folder is in a live one of its knowledge base,  *)
(* although each request decides on rows it read earlier.                  *)
TargetsInherited ==
  /\ \A d \in folders : parent[d] # None =>
       parent[d] \in folders /\ target[parent[d]] = target[d]
  /\ \A f \in files : folderOf[f] # None =>
       folderOf[f] \in folders /\ target[folderOf[f]] = fileTarget[f]

(* Siblings, and the roots of a knowledge base, have different names, also *)
(* when two requests passed the check for the same name.                   *)
SiblingsDiffer ==
  \A d, e \in folders :
    d # e /\ parent[d] = parent[e] /\ name[d] = name[e] =>
      parent[d] = None /\ target[d] # target[e]

(* The path shown for a folder reaches up to its root as long as the       *)
(* folder is no deeper than the cap of the loop that collects it.          *)
PathsReachRoots ==
  \A d \in folders : Cardinality(Above(d)) <= Cap =>
    Len(Breadcrumb(d)) = Cardinality(Above(d)) /\ parent[Head(Breadcrumb(d))] = None

(* Folders disappear as one whole subtree or not at all, whatever is       *)
(* created, moved or deleted below them meanwhile; the files in them are   *)
(* deleted or unfiled, and no file from elsewhere is.                      *)
WholeSubtrees ==
  [][LET removed == folders \ folders' IN
     /\ removed # {} => \E d \in removed : removed = Subtree(d)
     /\ files \ files' \subseteq Content(removed)
     /\ \A f \in Content(removed) \intersect files' : folderOf'[f] = None]_vars

(* What a request to delete is going to remove: the folder it found empty, *)
(* or the folders of its cascade and the files it has deleted in them.     *)
Found(c) ==
  [folders |-> IF op[c] = "delete" THEN {ask[c].folder}
               ELSE IF op[c] = "drop" THEN tree[c] ELSE {},
   files |-> IF op[c] = "drop" THEN doomed[c] ELSE {}]

(* The tree as its users see it, and what any request may do to it.        *)
Tree == INSTANCE Forest WITH
  node <- [d \in folders |-> [parent |-> parent[d], target |-> target[d], name |-> name[d]]],
  used <- 1 .. made,
  place <- [f \in files |-> [folder |-> folderOf[f], target |-> fileTarget[f]]],
  usedFiles <- files \union deleted,
  found <- [c \in Clients |-> Found(c)]

(* A request checks in one statement and writes in another, and a cascade  *)
(* takes four.  Still parent, knowledge base and name are as they were     *)
(* checked when it commits, or it fails.  A deletion fails if a subfolder  *)
(* came in between, and removes the files it found and no others.  That    *)
(* there are no others it does not promise: a file that came in between    *)
(* loses its folder, even where the folder was deleted for being empty.    *)
ActsAtOnce == Tree!Spec

(* A row that has a key has its object: no cascade that fails, is rolled   *)
(* back or meets another one removes the object of a file it did not       *)
(* delete, but for files that left the subtree between two statements.     *)
KeysHaveObjects ==
  \A f \in files \intersect keyed : f \in bucket \/ f \in escaped

(* When the cascades are done, nothing of a deleted file is left in S3 or  *)
(* answered from by the knowledge base, unless an error, a crash, or an    *)
(* upload that overlapped the cascade explains it.                         *)
NothingLeftBehind ==
  (\A c \in Clients : op[c] # "cleaning") =>
    \A f \in deleted \ orphaned : storing[f] = "no" => f \notin bucket \union indexed

(* The inductive invariants.  For TargetsInherited: what a request has     *)
(* read stays true of the rows it is about, for as long as they exist.     *)
StillAsRead ==
  /\ folders \subseteq 1 .. made
  /\ \A c \in Clients : ask[c].folder \in 0 .. made
  /\ \A c \in Clients : op[c] \in {"create", "add"} /\ ask[c].folder \in folders =>
       target[ask[c].folder] = ask[c].target
  /\ \A c \in Clients : op[c] = "move" =>
       /\ ask[c].file \in files \union deleted
       /\ ask[c].file \in files /\ ask[c].folder \in folders =>
            target[ask[c].folder] = fileTarget[ask[c].file]

(* For WholeSubtrees: parents were created before their children, so the   *)
(* folders of a cascade that are still there hang together below its root; *)
(* and what it has deleted and not committed stays where it was.           *)
ParentsFirst == \A d \in Folders : parent[d] \in 0 .. d - 1

TreesInv ==
  /\ ParentsFirst
  /\ \A c \in Clients : op[c] \in {"collect", "purge", "drop"} =>
       /\ ask[c].folder \in tree[c] /\ tree[c] \subseteq 1 .. made
       /\ \A d \in tree[c] \intersect folders : d = ask[c].folder \/ parent[d] \in tree[c]
  /\ \A c \in Clients : doomed[c] \subseteq files /\ (op[c] # "drop" => doomed[c] = {})
  /\ \A c \in Clients : \A f \in doomed[c] : folderOf[f] \in tree[c]
  /\ \A b, c \in Clients : b # c => doomed[b] \intersect doomed[c] = {}

(* For ActsAtOnce: a folder has a knowledge base and a name, and so has    *)
(* what a request is about to write.                                       *)
ColumnsFilled ==
  /\ \A d \in folders : target[d] \in Targets /\ name[d] \in Names
  /\ \A c \in Clients :
       /\ op[c] \in {"create", "rename"} => ask[c].name \in Names
       /\ op[c] = "create" => ask[c].target \in Targets

(* For KeysHaveObjects: what is going to be removed belongs to rows that   *)
(* are gone, or that are known to have escaped.                            *)
KeysInv ==
  /\ \A c \in Clients : keys[c] \subseteq files \union deleted
  /\ \A f \in Files : storing[f] # "no" => f \in files \union deleted
  /\ \A c \in Clients : op[c] = "cleaning" => keys[c] \intersect files \subseteq escaped
  /\ \A f \in files : f \in keyed \/ storing[f] = "save" => f \in bucket \/ f \in escaped

(* For NothingLeftBehind: some cascade still has the object of a deleted   *)
(* file among its keys, or has still to synchronise.                       *)
LeftoversInv ==
  \A f \in deleted \ orphaned : storing[f] = "no" =>
    /\ f \in bucket => \E c \in Clients : op[c] = "cleaning" /\ f \in keys[c]
    /\ f \in indexed => \E c \in Clients : op[c] = "cleaning"

(* What queries/folders.py says of the collected keys: they are cleaned up *)
(* after their rows are removed.                                           *)
CleanupFollowsRows ==
  \A c \in Clients : op[c] = "cleaning" => keys[c] \intersect files = {}
=============================================================================
