----------------------------- MODULE MCFolderTree -----------------------------
(* Instances of FolderTree for TLC.                                        *)
EXTENDS FolderTree, TLC

(* Clients, files, names and knowledge bases are interchangeable.          *)
Symmetry == Permutations(Clients) \union Permutations(Files)
              \union Permutations(Names) \union Permutations(Targets)
=============================================================================
