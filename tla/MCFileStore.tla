----------------------------- MODULE MCFileStore -----------------------------
(* Instances of FileStore for TLC.                                         *)
EXTENDS FileStore, TLC

CONSTANTS a, b, c, f1

(* One file has keys of its own, the others share theirs.                  *)
OneOfItsOwn == [f \in Files |-> IF f = f1 THEN {a, b} ELSE {c}]

(* Files that share their key are alike; no definition may single one out. *)
ASSUME AnyFile = f1

Symmetry == Permutations(Tasks) \union Permutations(Files \ {f1})
=============================================================================
