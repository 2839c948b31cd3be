-------------------------- MODULE MCIngestLifecycle --------------------------
(* Instances of IngestLifecycle for TLC.                                   *)
EXTENDS IngestLifecycle, TLC

CONSTANTS page, linked

(* Two jobs for a page and one for a page it links to.                     *)
ThreeJobs == [j \in Items |-> IF j = 2 THEN linked ELSE page]

SameSource == [j \in Items |-> page]

FirstComeFirstServed == [j \in Items |-> 0]

Interchangeable == Permutations(Tasks) \union Permutations(Clients)
=============================================================================
