---------------------------- MODULE MCQueueWorker ----------------------------
(* Instances of QueueWorker for TLC.                                       *)
EXTENDS QueueWorker, TLC

(* Two rows of different priority: the younger one overtakes the older.    *)
YoungerFirst == [i \in Items |-> i]
FirstComeFirstServed == [i \in Items |-> 0]

TaskSymmetry == Permutations(Tasks)
=============================================================================
