----------------------------- MODULE EventStream -----------------------------
(***************************************************************************)
(* The in-memory event bus of services/stream_manager.py, the SSE streams  *)
(* that read from it (routes/ingest.py, routes/queue.py), and the runs     *)
(* that publish (services/pipeline.py, services/queue_worker.py).          *)
(*                                                                         *)
(* Everything happens in one event loop.  A put into the unbounded queue   *)
(* of a stream never suspends, so that a publish, and a publish and the    *)
(* close of its channel, are one step each.  A run and a client may be     *)
(* preempted between any two of their steps.                               *)
(*                                                                         *)
(* Runs of one job share its channels: a retry, and a second run of an     *)
(* item that was reclaimed while its first run was still alive.            *)
(***************************************************************************)
EXTENDS Integers, Sequences, FiniteSets

CONSTANTS
  Runs,       \* calls of run_scout
  Jobs,
  JobOf,      \* the job each run is for
  Clients,    \* readers of scout-stream and progress-stream
  Listeners,  \* readers of events/stream
  Capacity,   \* what a listener's queue holds: 256
  MaxEvents   \* bound: plain events of all runs

ASSUME JobOfAssumption == JobOf \in [Runs -> Jobs]
ASSUME SizesAssumption == Capacity \in Nat \ {0} /\ MaxEvents \in Nat

VARIABLES
  channels,   \* _channels: the subscribers of each key
  queue,      \* the queue of each client
  client,     \* what each client does
  watches,    \* the key each client asked for, NoKey when it is away
  last,       \* the last message sent to each client that reads
  listening,  \* _event_subscribers
  feed,       \* how many events the queue of each listener holds
  phase,      \* how far each run has got
  status,     \* ingestion_jobs.status
  \* Bounds and history, not part of the program
  left,       \* plain events the runs may still publish
  published,  \* messages published on each key
  events,     \* events mirrored to the listeners
  heard,      \* the last event sent to each listener that met no full queue
  overflowed  \* listeners that met a full queue

streams == <<channels, queue, client, watches, last>>
global == <<listening, feed, events, heard, overflowed>>
progress == <<phase, left>>
vars == <<streams, global, progress, status, published>>

Keys == Jobs \X {"scout", "progress"}
Message == [key : Keys, serial : Nat, kind : {"event", "error", "terminal", "end"}]
NoKey == <<>>
Nothing == [key |-> NoKey, serial |-> 0, kind |-> "event"]

Phase == {"waiting", "scout", "scouted", "scout failed",
          "progress", "processed", "progress failed", "ended"}

TypeOK ==
  /\ channels \in [Keys -> SUBSET Clients]
  /\ queue \in [Clients -> Seq(Message)]
  /\ client \in [Clients -> {"away", "reading"}]
  /\ watches \in [Clients -> Keys \union {NoKey}]
  /\ last \in [Clients -> Message \union {Nothing}]
  /\ listening \subseteq Listeners /\ overflowed \subseteq Listeners
  /\ feed \in [Listeners -> 0 .. Capacity]
  /\ heard \in [Listeners -> Nat]
  /\ phase \in [Runs -> Phase]
  /\ status \in [Jobs -> {"scouting", "processing", "completed", "failed"}]
  /\ left \in 0 .. MaxEvents
  /\ published \in [Keys -> Nat] /\ events \in Nat

Init ==
  /\ channels = [k \in Keys |-> {}]
  /\ queue = [c \in Clients |-> <<>>]
  /\ client = [c \in Clients |-> "away"]
  /\ published = [k \in Keys |-> 0]
  /\ watches = [c \in Clients |-> NoKey]
  /\ last = [c \in Clients |-> Nothing]
  /\ listening = {} /\ overflowed = {}
  /\ feed = [l \in Listeners |-> 0]
  /\ heard = [l \in Listeners |-> 0]
  /\ phase = [r \in Runs |-> "waiting"]
  /\ status = [j \in Jobs |-> "scouting"]
  /\ left = MaxEvents
  /\ events = 0

-----------------------------------------------------------------------------
(* The bus                                                                 *)

(* Mutation: the loop over the listeners ends at the first full queue. *)
NotifyUntilFull ==
  /\ events' = events + 1
  /\ IF \E l \in listening : feed[l] = Capacity
     THEN /\ overflowed' = overflowed \union {l \in listening : feed[l] = Capacity}
          /\ UNCHANGED feed
     ELSE /\ feed' = [l \in Listeners |-> IF l \in listening THEN feed[l] + 1 ELSE feed[l]]
          /\ UNCHANGED overflowed
  /\ UNCHANGED <<listening, heard>>

(* Mutation: the listeners' queues have no limit. *)
NotifyUnbounded ==
  /\ events' = events + 1
  /\ feed' = [l \in Listeners |-> IF l \in listening THEN feed[l] + 1 ELSE feed[l]]
  /\ UNCHANGED <<listening, heard, overflowed>>

(* Mutation: put instead of put_nowait waits for room. *)
NotifyWaiting ==
  /\ \A l \in listening : feed[l] < Capacity
  /\ events' = events + 1
  /\ feed' = [l \in Listeners |-> IF l \in listening THEN feed[l] + 1 ELSE feed[l]]
  /\ UNCHANGED <<listening, heard, overflowed>>

(* publish_event: a listener whose queue is full does not get the event.   *)
NotifyListeners ==
  LET full == {l \in listening : feed[l] = Capacity} IN
  /\ events' = events + 1
  /\ feed' = [l \in Listeners |-> IF l \in listening \ full THEN feed[l] + 1 ELSE feed[l]]
  /\ overflowed' = overflowed \union full
  /\ heard' = [l \in Listeners |-> IF l \in full THEN 0 ELSE heard[l]]
  /\ UNCHANGED listening

(* The i-th message from now on key k.                                     *)
Note(k, i, kind) == [key |-> k, serial |-> published[k] + i, kind |-> kind]

Deliver(k, messages) ==
  queue' = [c \in Clients |-> IF c \in channels[k] THEN queue[c] \o messages ELSE queue[c]]

(* Mutation: the subscribers of the job's other channel get it too. *)
PublishToJob(k, kind) ==
  /\ queue' = [c \in Clients |->
        IF \E o \in Keys : o[1] = k[1] /\ c \in channels[o]
        THEN queue[c] \o <<Note(k, 1, kind)>> ELSE queue[c]]
  /\ published' = [published EXCEPT ![k] = @ + 1]
  /\ NotifyListeners
  /\ UNCHANGED <<channels, client, watches, last>>

Publish(k, kind) ==
  /\ Deliver(k, <<Note(k, 1, kind)>>)
  /\ published' = [published EXCEPT ![k] = @ + 1]
  /\ NotifyListeners
  /\ UNCHANGED <<channels, client, watches, last>>

(* Mutation: the channel is closed before the last message is published.   *)
PublishAfterClose(k, kind) ==
  /\ Deliver(k, <<Note(k, 1, "end")>>)
  /\ published' = [published EXCEPT ![k] = @ + 1]
  /\ channels' = [channels EXCEPT ![k] = {}]
  /\ NotifyListeners
  /\ UNCHANGED <<client, watches, last>>

(* publish and close_channel: the key is forgotten, and None ends each of  *)
(* the queues it had.                                                      *)
PublishAndClose(k, kind) ==
  /\ Deliver(k, <<Note(k, 1, kind), Note(k, 2, "end")>>)
  /\ published' = [published EXCEPT ![k] = @ + 1]
  /\ channels' = [channels EXCEPT ![k] = {}]
  /\ NotifyListeners
  /\ UNCHANGED <<client, watches, last>>

-----------------------------------------------------------------------------
(* Runs: the worker takes an item up, run_scout, run_process, the outcome  *)

Advance(r, from, to) ==
  /\ phase[r] = from
  /\ phase' = [phase EXCEPT ![r] = to]
  /\ UNCHANGED left

(* worker_started and phase_changed go to the listeners only.              *)
TakeUp(r) ==
  /\ Advance(r, "waiting", "scout")
  /\ NotifyListeners
  /\ UNCHANGED <<streams, status, published>>

(* Components, links, pages, files; an error in one file is one of them.   *)
Report(r) ==
  /\ phase[r] \in {"scout", "progress"} /\ left > 0
  /\ left' = left - 1
  /\ Publish(<<JobOf[r], phase[r]>>, "event")
  /\ UNCHANGED <<phase, status>>

CommitScout(r) ==
  /\ Advance(r, "scout", "scouted")
  /\ status' = [status EXCEPT ![JobOf[r]] = "processing"]
  /\ UNCHANGED <<streams, global, published>>

(* Mutation: scout_complete is published before the commit. *)
CompleteScoutEarly(r) ==
  /\ Advance(r, "scout", "progress")
  /\ PublishAndClose(<<JobOf[r], "scout">>, "terminal")
  /\ UNCHANGED status

CompleteScout(r) ==
  /\ Advance(r, "scouted", "progress")
  /\ PublishAndClose(<<JobOf[r], "scout">>, "terminal")
  /\ UNCHANGED status

CommitProcess(r) ==
  /\ Advance(r, "progress", "processed")
  /\ status' = [status EXCEPT ![JobOf[r]] = "completed"]
  /\ UNCHANGED <<streams, global, published>>

CompleteProcess(r) ==
  /\ Advance(r, "processed", "ended")
  /\ PublishAndClose(<<JobOf[r], "progress">>, "terminal")
  /\ UNCHANGED status

(* Mutation: a failed run is recorded and says nothing. *)
FailSilently(r) ==
  /\ Advance(r, "scout", "ended") \/ Advance(r, "progress", "ended")
  /\ status' = [status EXCEPT ![JobOf[r]] = "failed"]
  /\ UNCHANGED <<streams, global, published>>

(* _fail_job: its own errors in the database are only logged.              *)
Fail(r) ==
  /\ \/ Advance(r, "scout", "scout failed")
     \/ Advance(r, "progress", "progress failed")
  /\ status' \in {status, [status EXCEPT ![JobOf[r]] = "failed"]}
  /\ UNCHANGED <<streams, global, published>>

ReportFailure(r) ==
  /\ \/ /\ Advance(r, "scout failed", "ended")
        /\ PublishAndClose(<<JobOf[r], "scout">>, "error")
     \/ /\ Advance(r, "progress failed", "ended")
        /\ PublishAndClose(<<JobOf[r], "progress">>, "error")
  /\ UNCHANGED status

Run(r) ==
  \/ TakeUp(r) \/ Report(r) \/ CommitScout(r) \/ CompleteScout(r)
  \/ CommitProcess(r) \/ CompleteProcess(r)
  \/ Fail(r) \/ ReportFailure(r)

-----------------------------------------------------------------------------
(* Clients of one job                                                      *)

(* What a stream that starts now has seen of its key.                      *)
Blank(k) == [key |-> k, serial |-> published[k], kind |-> "event"]

(* The handler checks that the job exists, and nothing of its state; the   *)
(* generator subscribes when the response starts.  The key is created anew *)
(* when the channel was closed before.                                     *)
Open(c, k) ==
  /\ client[c] = "away"
  /\ client' = [client EXCEPT ![c] = "reading"]
  /\ watches' = [watches EXCEPT ![c] = k]
  /\ channels' = [channels EXCEPT ![k] = @ \union {c}]
  /\ queue' = [queue EXCEPT ![c] = <<>>]
  /\ last' = [last EXCEPT ![c] = Blank(k)]
  /\ UNCHANGED <<global, progress, status, published>>

(* Mutation: the generator does not remove its queue when it ends. *)
LeaveSubscribed(c) ==
  /\ client' = [client EXCEPT ![c] = "away"]
  /\ watches' = [watches EXCEPT ![c] = NoKey]
  /\ last' = [last EXCEPT ![c] = Nothing]
  /\ UNCHANGED <<channels, queue, published>>

(* The finally clause.                                                     *)
Leave(c) ==
  /\ client' = [client EXCEPT ![c] = "away"]
  /\ channels' = [channels EXCEPT ![watches[c]] = @ \ {c}]
  /\ queue' = [queue EXCEPT ![c] = <<>>]
  /\ watches' = [watches EXCEPT ![c] = NoKey]
  /\ last' = [last EXCEPT ![c] = Nothing]
  /\ UNCHANGED published

(* A message is sent; the terminal one and None end the stream.            *)
Receive(c) ==
  /\ client[c] = "reading" /\ queue[c] # <<>>
  /\ IF Head(queue[c]).kind \in {"terminal", "end"}
     THEN Leave(c)
     ELSE /\ last' = [last EXCEPT ![c] = Head(queue[c])]
          /\ queue' = [queue EXCEPT ![c] = Tail(@)]
          /\ UNCHANGED <<channels, client, watches, published>>
  /\ UNCHANGED <<global, progress, status>>

Disconnect(c) ==
  /\ client[c] # "away"
  /\ Leave(c)
  /\ UNCHANGED <<global, progress, status>>

-----------------------------------------------------------------------------
(* Listeners                                                               *)

Listen(l) ==
  /\ l \notin listening
  /\ listening' = listening \union {l}
  /\ heard' = [heard EXCEPT ![l] = events]
  /\ UNCHANGED <<streams, feed, events, overflowed, progress, status, published>>

Hear(l) ==
  /\ l \in listening /\ feed[l] > 0
  /\ heard' = [heard EXCEPT ![l] = IF l \in overflowed THEN 0 ELSE @ + 1]
  /\ feed' = [feed EXCEPT ![l] = @ - 1]
  /\ UNCHANGED <<streams, listening, events, overflowed, progress, status, published>>

StopListening(l) ==
  /\ l \in listening
  /\ listening' = listening \ {l}
  /\ overflowed' = overflowed \ {l}
  /\ feed' = [feed EXCEPT ![l] = 0]
  /\ heard' = [heard EXCEPT ![l] = 0]
  /\ UNCHANGED <<streams, events, progress, status, published>>

-----------------------------------------------------------------------------

Next ==
  \/ \E r \in Runs : Run(r)
  \/ \E c \in Clients :
       \/ \E k \in Keys : Open(c, k)
       \/ Receive(c) \/ Disconnect(c)
  \/ \E l \in Listeners : Listen(l) \/ Hear(l) \/ StopListening(l)

Spec == Init /\ [][Next]_vars

(* The event loop runs every task that is ready, and a stream's response   *)
(* is written as long as its client is there.  Nothing is assumed of a     *)
(* listener: it may never read.                                            *)
FairSpec ==
  /\ Spec
  /\ \A r \in Runs : WF_vars(Run(r))
  /\ \A c \in Clients : WF_vars(Receive(c))

-----------------------------------------------------------------------------
(* The queue of a client ends with None.                                   *)
Told(c) == queue[c] # <<>> /\ queue[c][Len(queue[c])].kind = "end"

(* A stream carries every message of its key, and none of another, once    *)
(* and in order from the moment it subscribed until its channel is closed, *)
(* whatever other streams and runs of the job do.                          *)
DeliveredInOrder ==
  \A c \in Clients : client[c] = "reading" =>
    /\ \A i \in DOMAIN queue[c] :
         queue[c][i].key = watches[c] /\ queue[c][i].serial = last[c].serial + i
    /\ ~Told(c) => published[watches[c]] = last[c].serial + Len(queue[c])

(* A stream that is open is fed or has been told that it ends: nobody      *)
(* waits on a queue that close_channel forgot.  And nobody else is fed:    *)
(* the queue of a stream that ended does not stay behind in a channel.     *)
NobodyForgotten ==
  \A c \in Clients, k \in Keys :
    c \in channels[k] <=> client[c] = "reading" /\ watches[c] = k /\ ~Told(c)

(* A stream never just stops: what comes before None says how the run      *)
(* ended.                                                                  *)
EndIsExplained ==
  \A c \in Clients : client[c] = "reading" /\ Told(c) =>
    (<<last[c]>> \o queue[c])[Len(queue[c])].kind \in {"error", "terminal"}

(* A client told that scouting is complete can fetch the content map: the  *)
(* 409 of GET content-map is over, also when a second run of the job fails.*)
ContentMapReady ==
  \A c \in Clients : client[c] = "reading" /\ watches[c][2] = "scout" =>
    ((\E i \in DOMAIN queue[c] : queue[c][i].kind = "terminal")
       => status[watches[c][1]] # "scouting")

(* Seen from the streams the bus is Broadcast: a log for each key, and for *)
(* each stream a place in it and, once the channel was closed, its end.    *)
(* Queues, channels and the order in which subscribers are served do not   *)
(* show.                                                                   *)
Place(c) ==
  [key |-> watches[c], at |-> last[c].serial,
   end |-> IF Told(c) THEN last[c].serial + Len(queue[c]) - 1 ELSE -1]

Places == [c \in {d \in Clients : client[d] = "reading"} |-> Place(c)]

Log == INSTANCE Broadcast WITH Readers <- Clients, length <- published, view <- Places

StreamsShareALog == Log!Spec

(* A listener that never met a full queue misses no event, however slow    *)
(* the others are.                                                         *)
SlowListenersAlone ==
  \A l \in listening \ overflowed : heard[l] + feed[l] = events

(* A stream opened while the phase it shows is running comes to its end.   *)
StreamsEnd ==
  \A c \in Clients :
    (client[c] = "reading" /\ \E r \in Runs : watches[c] = <<JobOf[r], phase[r]>>)
      ~> client[c] # "reading"

(* No reader holds up a run, not even one that never reads.                *)
RunsNeverWait == <>(\A r \in Runs : phase[r] = "ended")
=============================================================================
