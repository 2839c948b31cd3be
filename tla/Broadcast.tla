------------------------------ MODULE Broadcast ------------------------------
(***************************************************************************)
(* What the event bus promises the streams of a job: each key has one log  *)
(* of messages, and a stream is a place in it that moves on by one message *)
(* at a time.  A stream starts at the end of the log.  It is over with the *)
(* message that closed the channel while it was there, and with no other:  *)
(* the log goes on for those that come later, and nobody's pace is         *)
(* anybody else's.                                                         *)
(***************************************************************************)
EXTENDS Integers

CONSTANTS Keys, Readers

VARIABLES
  length,  \* how many messages the log of each key holds
  view     \* the key of each reader, its place and where it will end

vars == <<length, view>>

Reading == DOMAIN view

(* The end of a stream whose channel is open.                              *)
Open == -1

Init ==
  /\ length = [k \in Keys |-> 0]
  /\ view = [r \in {} |-> Open]

Append(k) == length' = [length EXCEPT ![k] = @ + 1]

Post(k) == Append(k) /\ UNCHANGED view

(* The message is the last one for all that read the key now.              *)
PostLast(k) ==
  /\ Append(k)
  /\ view' = [r \in Reading |->
                IF view[r].key = k /\ view[r].end = Open
                THEN [key |-> k, at |-> view[r].at, end |-> length[k] + 1] ELSE view[r]]

Join(r, k) ==
  /\ r \notin Reading
  /\ view' = [s \in Reading \union {r} |->
                IF s = r THEN [key |-> k, at |-> length[k], end |-> Open] ELSE view[s]]
  /\ UNCHANGED length

Last(r) == IF view[r].end = Open THEN length[view[r].key] ELSE view[r].end

Read(r) ==
  /\ r \in Reading /\ view[r].at < Last(r)
  /\ view' = [s \in Reading |->
                IF s = r THEN [key |-> view[r].key, at |-> view[r].at + 1, end |-> view[r].end]
                         ELSE view[s]]
  /\ UNCHANGED length

Leave(r) ==
  /\ r \in Reading
  /\ view' = [s \in Reading \ {r} |-> view[s]]
  /\ UNCHANGED length

Next ==
  \/ \E k \in Keys : Post(k) \/ PostLast(k)
  \/ \E r \in Readers, k \in Keys : Join(r, k)
  \/ \E r \in Readers : Read(r) \/ Leave(r)

Spec == Init /\ [][Next]_vars
=============================================================================
