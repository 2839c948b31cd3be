-------------------------------- MODULE Forest --------------------------------
(***************************************************************************)
(* What the folder tree promises.  A creation, a renaming, a filing or a   *)
(* move takes effect at one moment, and what it was allowed for is true at *)
(* that moment: a folder is created below a live parent of its knowledge   *)
(* base under a free name, a file is filed or moved within its knowledge   *)
(* base.  A deletion has two moments.  It looks at some folders and the    *)
(* files in them; and it removes a folder with all that is below it, if    *)
(* that is nothing but folders it looked at, and exactly the files it      *)
(* found.  Files that came into the folders since stay, without a folder.  *)
(***************************************************************************)
EXTENDS Naturals

CONSTANTS Folders, Files, Names, Targets, Clients, None

VARIABLES
  node,      \* the live folders: parent, knowledge base and name of each
  used,      \* folders that are or were live
  place,     \* the live files: folder and knowledge base of each
  usedFiles, \* files that are or were live
  found      \* the folders and files each client's deletion has looked at

vars == <<node, used, place, usedFiles, found>>

Live == DOMAIN node
Filed == DOMAIN place

Unseen == [folders |-> {}, files |-> {}]

Init ==
  /\ node = [d \in {} |-> None] /\ used = {}
  /\ place = [f \in {} |-> None] /\ usedFiles = {}
  /\ found = [c \in Clients |-> Unseen]

(* Names differ below a parent, and between the roots of a knowledge base. *)
NameFree(p, t, n, except) ==
  \A e \in Live \ {except} :
    node[e].parent = p /\ node[e].name = n => p = None /\ node[e].target # t

Create(d, p, t, n) ==
  /\ d \notin used /\ used' = used \union {d}
  /\ p = None \/ (p \in Live /\ node[p].target = t)
  /\ NameFree(p, t, n, None)
  /\ node' = [e \in Live \union {d} |->
                IF e = d THEN [parent |-> p, target |-> t, name |-> n] ELSE node[e]]
  /\ UNCHANGED <<place, usedFiles, found>>

Rename(d, n) ==
  /\ d \in Live /\ NameFree(node[d].parent, node[d].target, n, d)
  /\ node' = [e \in Live |->
                IF e = d THEN [parent |-> node[d].parent, target |-> node[d].target,
                               name |-> n] ELSE node[e]]
  /\ UNCHANGED <<used, place, usedFiles, found>>

File(f, d) ==
  /\ f \notin usedFiles /\ usedFiles' = usedFiles \union {f}
  /\ d \in Live
  /\ place' = [g \in Filed \union {f} |->
                 IF g = f THEN [folder |-> d, target |-> node[d].target] ELSE place[g]]
  /\ UNCHANGED <<node, used, found>>

Move(f, d) ==
  /\ f \in Filed
  /\ d = None \/ (d \in Live /\ node[d].target = place[f].target)
  /\ place' = [g \in Filed |->
                 IF g = f THEN [folder |-> d, target |-> place[f].target] ELSE place[g]]
  /\ UNCHANGED <<node, used, usedFiles, found>>

Inspect(c, ds) ==
  /\ found[c] = Unseen /\ ds # {}
  /\ found' = [found EXCEPT ![c] =
                  [folders |-> ds, files |-> {f \in Filed : place[f].folder \in ds}]]
  /\ UNCHANGED <<node, used, place, usedFiles>>

(* The folder itself and whatever has its parent among the branch.  Parents *)
(* are created before their children, so that no other set is a branch.    *)
Branch(d, ds) == ds = {e \in Live : e = d \/ node[e].parent \in ds}

(* What others removed meanwhile is gone already; nothing else has changed *)
(* for the folders that were looked at, nor for the files found in them.   *)
Remove(c, d) ==
  LET ds == found[c].folders \intersect Live
      fs == found[c].files
  IN  /\ d \in ds /\ Branch(d, ds)
      /\ \A f \in fs : f \in Filed /\ place[f].folder \in ds
      /\ node' = [e \in Live \ ds |-> node[e]]
      /\ place' = [f \in Filed \ fs |->
                     IF place[f].folder \in ds
                     THEN [folder |-> None, target |-> place[f].target] ELSE place[f]]
      /\ found' = [found EXCEPT ![c] = Unseen]
      /\ UNCHANGED <<used, usedFiles>>

(* Deletions end with nothing done.                                        *)
Cancel(cs) ==
  /\ found' = [c \in Clients |-> IF c \in cs THEN Unseen ELSE found[c]]
  /\ UNCHANGED <<node, used, place, usedFiles>>

Next ==
  \/ \E cs \in SUBSET Clients : Cancel(cs)
  \/ \E c \in Clients, d \in Folders : Remove(c, d)
  \/ \E c \in Clients, ds \in SUBSET Folders : Inspect(c, ds)
  \/ \E f \in Files, d \in Folders \union {None} : Move(f, d)
  \/ \E f \in Files, d \in Folders : File(f, d)
  \/ \E d \in Folders, n \in Names : Rename(d, n)
  \/ \E d \in Folders, p \in Folders \union {None}, t \in Targets, n \in Names :
       Create(d, p, t, n)

Spec == Init /\ [][Next]_vars
=============================================================================
