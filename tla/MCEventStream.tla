---------------------------- MODULE MCEventStream ----------------------------
(* Instances of EventStream for TLC.                                       *)
EXTENDS EventStream

CONSTANT j1

(* The runs share a job, and so its two channels.                          *)
OneJob == [r \in Runs |-> j1]
=============================================================================
