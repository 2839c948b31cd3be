--------------------------- MODULE EventStreamProofs ---------------------------
(***************************************************************************)
(* Theorems about EventStream, for every number of runs, jobs, clients and *)
(* listeners and every capacity.                                           *)
(***************************************************************************)
EXTENDS EventStream, SequenceTheorems, TLAPS

-----------------------------------------------------------------------------
(* Queues                                                                  *)

LEMMA OneMore ==
  ASSUME NEW q \in Seq(Message), NEW m \in Message
  PROVE  /\ q \o <<m>> \in Seq(Message)
         /\ Len(q \o <<m>>) = Len(q) + 1
         /\ DOMAIN (q \o <<m>>) = 1 .. Len(q) + 1
         /\ \A i \in 1 .. Len(q) : (q \o <<m>>)[i] = q[i]
         /\ (q \o <<m>>)[Len(q) + 1] = m
         /\ q \o <<m>> # <<>>
<1>1. <<m>> \in Seq(Message) /\ Len(<<m>>) = 1 /\ <<m>>[1] = m
  OBVIOUS
<1>2. Len(q) \in Nat
  BY LenProperties
<1>3. /\ q \o <<m>> \in Seq(Message)
      /\ Len(q \o <<m>>) = Len(q) + 1
      /\ \A i \in 1 .. Len(q) + 1 : (q \o <<m>>)[i] = IF i <= Len(q) THEN q[i] ELSE <<m>>[i - Len(q)]
  BY <1>1, ConcatProperties
<1>4. DOMAIN (q \o <<m>>) = 1 .. Len(q) + 1
  BY <1>3, LenProperties
<1>5. \A i \in 1 .. Len(q) : (q \o <<m>>)[i] = q[i]
  BY <1>2, <1>3
<1>6. (q \o <<m>>)[Len(q) + 1] = <<m>>[1]
  BY <1>2, <1>3
<1>7. q \o <<m>> # <<>>
  BY <1>2, <1>3, EmptySeq
<1> QED BY <1>1, <1>3, <1>4, <1>5, <1>6, <1>7

LEMMA TwoMore ==
  ASSUME NEW q \in Seq(Message), NEW m \in Message, NEW n \in Message
  PROVE  /\ q \o <<m, n>> \in Seq(Message)
         /\ Len(q \o <<m, n>>) = Len(q) + 2
         /\ DOMAIN (q \o <<m, n>>) = 1 .. Len(q) + 2
         /\ \A i \in 1 .. Len(q) : (q \o <<m, n>>)[i] = q[i]
         /\ (q \o <<m, n>>)[Len(q) + 1] = m
         /\ (q \o <<m, n>>)[Len(q) + 2] = n
         /\ q \o <<m, n>> # <<>>
<1>1. <<m, n>> \in Seq(Message) /\ Len(<<m, n>>) = 2 /\ <<m, n>>[1] = m /\ <<m, n>>[2] = n
  OBVIOUS
<1>2. Len(q) \in Nat
  BY LenProperties
<1>3. /\ q \o <<m, n>> \in Seq(Message)
      /\ Len(q \o <<m, n>>) = Len(q) + 2
      /\ \A i \in 1 .. Len(q) + 2 :
           (q \o <<m, n>>)[i] = IF i <= Len(q) THEN q[i] ELSE <<m, n>>[i - Len(q)]
  BY <1>1, ConcatProperties
<1>4. DOMAIN (q \o <<m, n>>) = 1 .. Len(q) + 2
  BY <1>3, LenProperties
<1>5. \A i \in 1 .. Len(q) : (q \o <<m, n>>)[i] = q[i]
  BY <1>2, <1>3
<1>6. (q \o <<m, n>>)[Len(q) + 1] = <<m, n>>[1] /\ (q \o <<m, n>>)[Len(q) + 2] = <<m, n>>[2]
  BY <1>2, <1>3
<1>7. q \o <<m, n>> # <<>>
  BY <1>2, <1>3, EmptySeq
<1> QED BY <1>1, <1>3, <1>4, <1>5, <1>6, <1>7

LEMMA OneLess ==
  ASSUME NEW q \in Seq(Message), q # <<>>
  PROVE  /\ Head(q) = q[1] /\ Head(q) \in Message
         /\ Len(q) \in Nat \ {0}
         /\ Tail(q) \in Seq(Message)
         /\ Len(Tail(q)) = Len(q) - 1
         /\ DOMAIN Tail(q) = 1 .. Len(q) - 1
         /\ \A i \in 1 .. Len(q) - 1 : Tail(q)[i] = q[i + 1]
BY HeadTailProperties, EmptySeq, LenProperties

LEMMA Queues ==
  ASSUME TypeOK, NEW c \in Clients
  PROVE  /\ queue[c] \in Seq(Message)
         /\ Len(queue[c]) \in Nat
         /\ DOMAIN queue[c] = 1 .. Len(queue[c])
         /\ \A i \in 1 .. Len(queue[c]) : queue[c][i] \in Message
         /\ queue[c] # <<>> => Len(queue[c]) > 0
         /\ last[c].serial \in Nat
<1>1. queue[c] \in Seq(Message) /\ last[c] \in Message \union {Nothing}
  BY DEF TypeOK
<1>2. last[c].serial \in Nat
  BY <1>1 DEF Message, Nothing
<1>3. Len(queue[c]) \in Nat /\ (queue[c] # <<>> => Len(queue[c]) > 0)
  BY <1>1, EmptySeq, LenProperties
<1>4. DOMAIN queue[c] = 1 .. Len(queue[c]) /\ \A i \in 1 .. Len(queue[c]) : queue[c][i] \in Message
  BY <1>1, LenProperties, ElementOfSeq
<1> QED BY <1>1, <1>2, <1>3, <1>4

LEMMA NotesAreMessages ==
  ASSUME TypeOK, NEW k \in Keys, NEW i \in Nat, NEW kind \in {"event", "error", "terminal", "end"}
  PROVE  Note(k, i, kind) \in Message
BY DEF Note, Message, TypeOK

LEMMA JobKeys ==
  ASSUME NEW r \in Runs
  PROVE  <<JobOf[r], "scout">> \in Keys /\ <<JobOf[r], "progress">> \in Keys /\ JobOf[r] \in Jobs
BY JobOfAssumption DEF Keys

-----------------------------------------------------------------------------
(* Type correctness                                                        *)

StreamTypes ==
  /\ channels \in [Keys -> SUBSET Clients]
  /\ queue \in [Clients -> Seq(Message)]
  /\ client \in [Clients -> {"away", "reading"}]
  /\ watches \in [Clients -> Keys \union {NoKey}]
  /\ last \in [Clients -> Message \union {Nothing}]
  /\ published \in [Keys -> Nat]

GlobalTypes ==
  /\ listening \subseteq Listeners /\ overflowed \subseteq Listeners
  /\ feed \in [Listeners -> 0 .. Capacity]
  /\ heard \in [Listeners -> Nat]
  /\ events \in Nat

RunTypes ==
  /\ phase \in [Runs -> Phase]
  /\ status \in [Jobs -> {"scouting", "processing", "completed", "failed"}]
  /\ left \in 0 .. MaxEvents

LEMMA Types == TypeOK <=> StreamTypes /\ GlobalTypes /\ RunTypes
BY DEF TypeOK, StreamTypes, GlobalTypes, RunTypes

LEMMA TypesNext == TypeOK' <=> StreamTypes' /\ GlobalTypes' /\ RunTypes'
BY DEF TypeOK, StreamTypes, GlobalTypes, RunTypes

(* What a run does to the streams: nothing, or a message on a key, with or *)
(* without the end of its channel.                                         *)
Publishes ==
  \E r \in Runs :
    \/ phase[r] \in {"scout", "progress"} /\ Publish(<<JobOf[r], phase[r]>>, "event")
    \/ phase[r] = "scouted" /\ PublishAndClose(<<JobOf[r], "scout">>, "terminal")
    \/ PublishAndClose(<<JobOf[r], "progress">>, "terminal")
    \/ PublishAndClose(<<JobOf[r], "scout">>, "error")
    \/ PublishAndClose(<<JobOf[r], "progress">>, "error")

LEMMA RunEffects ==
  ASSUME TypeOK, NEW r \in Runs, Run(r)
  PROVE  /\ \/ Publishes
            \/ NotifyListeners /\ UNCHANGED <<streams, published>>
            \/ UNCHANGED <<streams, global, published>>
         /\ \/ status' = status
            \/ \E s \in {"processing", "completed", "failed"} :
                 status' = [status EXCEPT ![JobOf[r]] = s]
         /\ phase[r] = "scout" /\ phase'[r] = "scouted" => status' = [status EXCEPT ![JobOf[r]] = "processing"]
<1>1. CASE TakeUp(r)
  BY <1>1 DEF TakeUp, Advance
<1>2. CASE Report(r)
  BY <1>2 DEF Report, Publishes
<1>3. CASE CommitScout(r)
  BY <1>3 DEF CommitScout, Advance
<1>4. CASE CompleteScout(r)
  BY <1>4 DEF CompleteScout, Advance, Publishes
<1>5. CASE CommitProcess(r)
  BY <1>5 DEF CommitProcess, Advance
<1>6. CASE CompleteProcess(r)
  BY <1>6 DEF CompleteProcess, Advance, Publishes
<1>7. CASE Fail(r)
  <2>1. UNCHANGED <<streams, global, published>>
    BY <1>7 DEF Fail
  <2>2. status' = status \/ status' = [status EXCEPT ![JobOf[r]] = "failed"]
    BY <1>7 DEF Fail
  <2>3. ~(phase[r] = "scout" /\ phase'[r] = "scouted")
    BY <1>7 DEF Fail, Advance, TypeOK
  <2> QED BY <2>1, <2>2, <2>3
<1>8. CASE ReportFailure(r)
  BY <1>8 DEF ReportFailure, Advance, Publishes
<1> QED BY <1>1, <1>2, <1>3, <1>4, <1>5, <1>6, <1>7, <1>8 DEF Run

LEMMA NotifyTyped ==
  ASSUME GlobalTypes, NotifyListeners
  PROVE  GlobalTypes'
<1> USE SizesAssumption DEF GlobalTypes, NotifyListeners
<1>1. events' \in Nat /\ listening' \subseteq Listeners /\ overflowed' \subseteq Listeners
  OBVIOUS
<1>2. feed' \in [Listeners -> 0 .. Capacity]
  OBVIOUS
<1>3. heard' \in [Listeners -> Nat]
  OBVIOUS
<1> QED BY <1>1, <1>2, <1>3

LEMMA PublishTyped ==
  ASSUME TypeOK, NEW k \in Keys, NEW kind \in {"event", "error", "terminal"},
         Publish(k, kind) \/ PublishAndClose(k, kind)
  PROVE  StreamTypes' /\ NotifyListeners
<1>1. NotifyListeners
  BY DEF Publish, PublishAndClose
<1>2. UNCHANGED <<client, watches, last>> /\ published' \in [Keys -> Nat]
  <2>1. published' = [published EXCEPT ![k] = published[k] + 1]
    BY DEF Publish, PublishAndClose
  <2>2. published[k] + 1 \in Nat
    BY DEF TypeOK
  <2>3. published' \in [Keys -> Nat]
    BY <2>1, <2>2 DEF TypeOK
  <2> QED BY <2>3 DEF Publish, PublishAndClose
<1>3. channels' \in [Keys -> SUBSET Clients]
  BY DEF Publish, PublishAndClose, TypeOK
<1>4. queue' \in [Clients -> Seq(Message)]
  <2>1. Note(k, 1, kind) \in Message /\ Note(k, 2, "end") \in Message
    BY NotesAreMessages
  <2>2. \A c \in Clients : /\ queue[c] \o <<Note(k, 1, kind)>> \in Seq(Message)
                          /\ queue[c] \o <<Note(k, 1, kind), Note(k, 2, "end")>> \in Seq(Message)
    BY <2>1, Queues, OneMore, TwoMore
  <2>3. CASE Publish(k, kind)
    BY <2>2, <2>3, Queues DEF Publish, Deliver
  <2>4. CASE PublishAndClose(k, kind)
    BY <2>2, <2>4, Queues DEF PublishAndClose, Deliver
  <2> QED BY <2>3, <2>4
<1> QED BY <1>1, <1>2, <1>3, <1>4 DEF TypeOK, StreamTypes

LEMMA LeaveTyped ==
  ASSUME StreamTypes, NEW c \in Clients, Leave(c)
  PROVE  StreamTypes'
<1>1. <<>> \in Seq(Message)
  BY EmptySeq
<1> QED BY <1>1 DEF StreamTypes, Leave

LEMMA ClientTyped ==
  ASSUME TypeOK, NEW c \in Clients,
         (\E k \in Keys : Open(c, k)) \/ Receive(c) \/ Disconnect(c)
  PROVE  TypeOK'
<1>1. UNCHANGED <<global, progress, status>>
  BY DEF Open, Receive, Disconnect
<1>2. StreamTypes'
  <2>1. ASSUME NEW k \in Keys, Open(c, k) PROVE StreamTypes'
    <3>1. <<>> \in Seq(Message) /\ Blank(k) \in Message
      BY EmptySeq DEF Blank, Message, TypeOK
    <3> QED BY <2>1, <3>1 DEF Open, TypeOK, StreamTypes
  <2>2. CASE Receive(c)
    <3>1. CASE Leave(c)
      BY <3>1, LeaveTyped, Types
    <3>2. CASE ~Leave(c)
      <4>1. queue[c] # <<>> /\ last' = [last EXCEPT ![c] = Head(queue[c])]
            /\ queue' = [queue EXCEPT ![c] = Tail(@)]
            /\ UNCHANGED <<channels, client, watches, published>>
        BY <2>2, <3>2 DEF Receive
      <4>2. Head(queue[c]) \in Message /\ Tail(queue[c]) \in Seq(Message)
        BY <4>1, Queues, OneLess
      <4> QED BY <4>1, <4>2 DEF TypeOK, StreamTypes
    <3> QED BY <3>1, <3>2
  <2>3. CASE Disconnect(c)
    BY <2>3, LeaveTyped, Types DEF Disconnect
  <2> QED BY <2>1, <2>2, <2>3
<1> QED BY <1>1, <1>2, Types, TypesNext DEF GlobalTypes, RunTypes, global, progress

LEMMA ListenerTyped ==
  ASSUME TypeOK, NEW l \in Listeners, Listen(l) \/ Hear(l) \/ StopListening(l)
  PROVE  TypeOK'
<1>1. UNCHANGED <<streams, progress, status, published>>
  BY DEF Listen, Hear, StopListening
<1>2. GlobalTypes'
  <2> USE SizesAssumption DEF GlobalTypes
  <2>0. GlobalTypes
    BY Types
  <2>1. CASE Listen(l)
    BY <2>0, <2>1 DEF Listen
  <2>2. CASE Hear(l)
    <3>1. feed[l] - 1 \in 0 .. Capacity
      BY <2>0, <2>2 DEF Hear
    <3>2. feed' \in [Listeners -> 0 .. Capacity]
      BY <2>0, <2>2, <3>1 DEF Hear
    <3>3. heard' \in [Listeners -> Nat]
      BY <2>0, <2>2 DEF Hear
    <3> QED BY <2>0, <2>2, <3>2, <3>3 DEF Hear
  <2>3. CASE StopListening(l)
    BY <2>0, <2>3 DEF StopListening
  <2> QED BY <2>1, <2>2, <2>3
<1> QED BY <1>1, <1>2, Types, TypesNext DEF StreamTypes, RunTypes, streams, progress

LEMMA RunTyped ==
  ASSUME TypeOK, NEW r \in Runs, Run(r)
  PROVE  TypeOK'
<1>1. RunTypes'
  <2>1. phase' \in [Runs -> Phase]
    BY DEF Run, TakeUp, Report, CommitScout, CompleteScout, CommitProcess, CompleteProcess,
           Fail, ReportFailure, Advance, TypeOK, Phase
  <2>2. left' = left \/ (left > 0 /\ left' = left - 1)
    BY DEF Run, TakeUp, Report, CommitScout, CompleteScout, CommitProcess, CompleteProcess,
           Fail, ReportFailure, Advance
  <2>3. status' \in [Jobs -> {"scouting", "processing", "completed", "failed"}]
    BY RunEffects DEF TypeOK
  <2> QED BY <2>1, <2>2, <2>3, SizesAssumption DEF RunTypes, TypeOK
<1>2. StreamTypes' /\ GlobalTypes'
  <2>1. CASE Publishes
    <3>1. PICK s \in Runs :
            \/ phase[s] \in {"scout", "progress"} /\ Publish(<<JobOf[s], phase[s]>>, "event")
            \/ PublishAndClose(<<JobOf[s], "scout">>, "terminal")
            \/ PublishAndClose(<<JobOf[s], "progress">>, "terminal")
            \/ PublishAndClose(<<JobOf[s], "scout">>, "error")
            \/ PublishAndClose(<<JobOf[s], "progress">>, "error")
      BY <2>1 DEF Publishes
    <3>2. \E k \in Keys, kind \in {"event", "error", "terminal"} :
            Publish(k, kind) \/ PublishAndClose(k, kind)
      BY <3>1, JobKeys
    <3> QED BY <3>2, PublishTyped, NotifyTyped, Types
  <2>2. CASE NotifyListeners /\ UNCHANGED <<streams, published>>
    BY <2>2, NotifyTyped, Types DEF StreamTypes, streams
  <2>3. CASE UNCHANGED <<streams, global, published>>
    BY <2>3, Types DEF StreamTypes, GlobalTypes, streams, global
  <2> QED BY <2>1, <2>2, <2>3, RunEffects
<1> QED BY <1>1, <1>2, TypesNext

LEMMA StutterTyped ==
  ASSUME TypeOK, UNCHANGED vars
  PROVE  TypeOK'
BY DEF TypeOK, vars, streams, global, progress

(* Type correctness of channels, queues, streams, listeners and runs       *)
(* (stream_manager.py:26).                                                 *)
THEOREM TypeCorrect == Spec => []TypeOK
<1>1. Init => TypeOK
  <2>1. <<>> \in Seq(Message)
    BY EmptySeq
  <2> QED BY <2>1, SizesAssumption DEF Init, TypeOK, Phase
<1>2. TypeOK /\ [Next]_vars => TypeOK'
  BY RunTyped, ClientTyped, ListenerTyped, StutterTyped DEF Next
<1> QED BY <1>1, <1>2, PTL DEF Spec

-----------------------------------------------------------------------------
(* Listeners                                                               *)

(* A queue that nobody reads is empty.                                     *)
ListenersInv ==
  /\ \A l \in Listeners \ listening : feed[l] = 0
  /\ SlowListenersAlone

LEMMA NotifyKeepsListeners ==
  ASSUME TypeOK, ListenersInv, NotifyListeners
  PROVE  ListenersInv'
<1> USE DEF TypeOK
<1>1. \A l \in Listeners \ listening' : feed'[l] = 0
  BY DEF ListenersInv, NotifyListeners
<1>2. ASSUME NEW l \in listening', l \notin overflowed'
      PROVE  heard'[l] + feed'[l] = events'
  <2>1. l \in listening /\ l \notin overflowed /\ feed[l] # Capacity
    BY <1>2 DEF NotifyListeners
  <2>2. heard'[l] = heard[l]
    BY <2>1 DEF NotifyListeners
  <2>3. feed'[l] = feed[l] + 1
    BY <2>1 DEF NotifyListeners
  <2>4. heard[l] + feed[l] = events
    BY <2>1 DEF ListenersInv, SlowListenersAlone
  <2>5. heard[l] \in Nat /\ feed[l] \in 0 .. Capacity /\ events' = events + 1
    BY <2>1 DEF NotifyListeners
  <2> QED BY <2>2, <2>3, <2>4, <2>5, SizesAssumption
<1> QED BY <1>1, <1>2 DEF ListenersInv, SlowListenersAlone

LEMMA ListenersKept ==
  ASSUME TypeOK, ListenersInv, UNCHANGED global
  PROVE  ListenersInv'
BY DEF ListenersInv, SlowListenersAlone, global

LEMMA ListenKeepsListeners ==
  ASSUME TypeOK, ListenersInv, NEW l \in Listeners,
         Listen(l) \/ Hear(l) \/ StopListening(l)
  PROVE  ListenersInv'
<1> USE DEF TypeOK
<1>1. \A m \in Listeners \ listening' : feed'[m] = 0
  <2>1. CASE Listen(l)
    BY <2>1 DEF Listen, ListenersInv
  <2>2. CASE Hear(l)
    BY <2>2 DEF Hear, ListenersInv
  <2>3. CASE StopListening(l)
    BY <2>3 DEF StopListening, ListenersInv
  <2> QED BY <2>1, <2>2, <2>3
<1>2. ASSUME NEW m \in listening', m \notin overflowed'
      PROVE  heard'[m] + feed'[m] = events'
  <2>1. CASE m # l
    <3>1. m \in listening /\ m \notin overflowed
      BY <1>2, <2>1 DEF Listen, Hear, StopListening
    <3>2. heard'[m] = heard[m] /\ feed'[m] = feed[m] /\ events' = events
      BY <2>1, <3>1 DEF Listen, Hear, StopListening
    <3> QED BY <3>1, <3>2 DEF ListenersInv, SlowListenersAlone
  <2>2. CASE m = l
    <3>1. CASE Listen(l)
      <4>1. feed[l] = 0 /\ heard'[l] = events
        BY <3>1 DEF Listen, ListenersInv
      <4> QED BY <2>2, <3>1, <4>1 DEF Listen
    <3>2. CASE Hear(l)
      <4>1. l \in listening \ overflowed
        BY <1>2, <2>2, <3>2 DEF Hear
      <4>2. heard[l] + feed[l] = events
        BY <4>1 DEF ListenersInv, SlowListenersAlone
      <4>3. heard'[l] = heard[l] + 1 /\ feed'[l] = feed[l] - 1 /\ events' = events
        BY <3>2, <4>1 DEF Hear
      <4>4. heard[l] \in Nat /\ feed[l] \in Int
        OBVIOUS
      <4> QED BY <2>2, <4>2, <4>3, <4>4
    <3>3. CASE StopListening(l)
      BY <1>2, <2>2, <3>3 DEF StopListening
    <3> QED BY <3>1, <3>2, <3>3
  <2> QED BY <2>1, <2>2
<1> QED BY <1>1, <1>2 DEF ListenersInv, SlowListenersAlone

LEMMA PublishesNotify == Publishes => NotifyListeners
BY DEF Publishes, Publish, PublishAndClose

LEMMA ListenersInductive == TypeOK /\ ListenersInv /\ [Next]_vars => ListenersInv'
<1> SUFFICES ASSUME TypeOK, ListenersInv, [Next]_vars PROVE ListenersInv'
  OBVIOUS
<1>1. ASSUME NEW r \in Runs, Run(r) PROVE ListenersInv'
  BY <1>1, RunEffects, PublishesNotify, NotifyKeepsListeners, ListenersKept
<1>2. ASSUME NEW c \in Clients, (\E k \in Keys : Open(c, k)) \/ Receive(c) \/ Disconnect(c)
      PROVE ListenersInv'
  <2>1. UNCHANGED global
    BY <1>2 DEF Open, Receive, Disconnect
  <2> QED BY <2>1, ListenersKept
<1>3. ASSUME UNCHANGED vars PROVE ListenersInv'
  BY <1>3, ListenersKept DEF vars
<1> QED BY <1>1, <1>2, <1>3, ListenKeepsListeners DEF Next

(* A reader of events/stream whose queue was never full got every event,   *)
(* however many others are slow (stream_manager.py:50-73).                 *)
THEOREM ListenersMissNothing == Spec => []SlowListenersAlone
<1>1. Init => ListenersInv
  BY DEF Init, ListenersInv, SlowListenersAlone
<1> QED BY <1>1, TypeCorrect, ListenersInductive, PTL DEF Spec, ListenersInv

-----------------------------------------------------------------------------
(* Streams.  The invariants, client by client.                             *)

Watching(c) == client[c] = "reading" => watches[c] \in Keys

Fed(c) ==
  \A k \in Keys : c \in channels[k] <=> client[c] = "reading" /\ watches[c] = k /\ ~Told(c)

InOrder(c) == client[c] = "reading" =>
  /\ \A i \in DOMAIN queue[c] :
       queue[c][i].key = watches[c] /\ queue[c][i].serial = last[c].serial + i
  /\ ~Told(c) => published[watches[c]] = last[c].serial + Len(queue[c])

Explained(c) == client[c] = "reading" /\ Told(c) =>
  (<<last[c]>> \o queue[c])[Len(queue[c])].kind \in {"error", "terminal"}

Completed(c) == \E i \in DOMAIN queue[c] : queue[c][i].kind = "terminal"

Ready(c) == client[c] = "reading" /\ watches[c][2] = "scout" =>
  (Completed(c) => status[watches[c][1]] # "scouting")

StreamInv(c) == Watching(c) /\ Fed(c) /\ InOrder(c) /\ Explained(c)

ScoutsCommitted == \A r \in Runs : phase[r] = "scouted" => status[JobOf[r]] # "scouting"

LEMMA StreamInvs ==
  (\A c \in Clients : StreamInv(c)) => DeliveredInOrder /\ NobodyForgotten /\ EndIsExplained
BY DEF StreamInv, Fed, InOrder, Explained, DeliveredInOrder, NobodyForgotten, EndIsExplained

LEMMA ReadyInvs == (\A c \in Clients : Ready(c)) => ContentMapReady
BY DEF Ready, Completed, ContentMapReady

LEMMA BeforeLast ==
  ASSUME NEW q \in Seq(Message), q # <<>>, NEW x \in Message \union {Nothing}
  PROVE  (<<x>> \o q)[Len(q)] = IF Len(q) = 1 THEN x ELSE q[Len(q) - 1]
<1> DEFINE S == Message \union {Nothing}
<1>1. <<x>> \in Seq(S) /\ Len(<<x>>) = 1 /\ <<x>>[1] = x
  OBVIOUS
<1>2. q \in Seq(S)
  BY SeqMonotonic
<1>3. Len(q) \in Nat \ {0}
  BY EmptySeq
<1>4. \A i \in 1 .. 1 + Len(q) : (<<x>> \o q)[i] = IF i <= 1 THEN <<x>>[i] ELSE q[i - 1]
  BY <1>1, <1>2, ConcatProperties
<1> QED BY <1>1, <1>3, <1>4

LEMMA Serials ==
  ASSUME NEW p, NEW a \in Nat, NEW b \in Nat, p = a + b
  PROVE  p + 1 = a + (b + 1) /\ p + 2 = a + (b + 2)
OBVIOUS

LEMMA StreamKept ==
  ASSUME NEW c \in Clients, StreamInv(c), UNCHANGED <<streams, published>>
  PROVE  StreamInv(c)'
BY DEF StreamInv, Watching, Fed, InOrder, Explained, Told, streams

(* A message on a key the client is not subscribed to.                     *)
LEMMA NotSubscribed ==
  ASSUME TypeOK, NEW c \in Clients, StreamInv(c), NEW k \in Keys, c \notin channels[k],
         NEW kind, Publish(k, kind) \/ PublishAndClose(k, kind)
  PROVE  StreamInv(c)' /\ queue'[c] = queue[c]
<1>1. queue'[c] = queue[c]
  BY DEF Publish, PublishAndClose, Deliver, TypeOK
<1>2. client' = client /\ watches' = watches /\ last' = last
  BY DEF Publish, PublishAndClose
<1>3. \A o \in Keys : c \in channels'[o] <=> c \in channels[o]
  BY DEF Publish, PublishAndClose, TypeOK
<1>4. \A o \in Keys : o # k => published'[o] = published[o]
  BY DEF Publish, PublishAndClose, TypeOK
<1>5. Told(c)' <=> Told(c)
  BY <1>1 DEF Told
<1>6. Watching(c)' /\ Fed(c)' /\ Explained(c)'
  BY <1>1, <1>2, <1>3, <1>5 DEF StreamInv, Watching, Fed, Explained
<1>7. client[c] = "reading" /\ ~Told(c) => watches[c] \in Keys /\ watches[c] # k
  BY DEF StreamInv, Fed, Watching
<1>8. InOrder(c)'
  BY <1>1, <1>2, <1>4, <1>5, <1>7 DEF StreamInv, InOrder
<1> QED BY <1>1, <1>6, <1>8 DEF StreamInv

(* A message on the key of a client, and no end.                           *)
LEMMA Subscribed ==
  ASSUME TypeOK, NEW c \in Clients, StreamInv(c), NEW k \in Keys, c \in channels[k],
         Publish(k, "event")
  PROVE  StreamInv(c)' /\ (Completed(c)' => Completed(c))
<1> DEFINE q == queue[c]
           m == Note(k, 1, "event")
<1>1. client[c] = "reading" /\ watches[c] = k /\ ~Told(c)
  BY DEF StreamInv, Fed
<1>2. client' = client /\ watches' = watches /\ last' = last /\ channels' = channels
      /\ queue'[c] = q \o <<m>> /\ published'[k] = published[k] + 1
  BY DEF Publish, Deliver, TypeOK
<1>3. q \in Seq(Message) /\ Len(q) \in Nat /\ DOMAIN q = 1 .. Len(q) /\ last[c].serial \in Nat
  BY Queues
<1>4. m \in Message /\ m.key = k /\ m.serial = published[k] + 1 /\ m.kind = "event"
  BY NotesAreMessages DEF Note
<1> HIDE DEF q, m
<1>5. /\ Len(q \o <<m>>) = Len(q) + 1
      /\ DOMAIN (q \o <<m>>) = 1 .. Len(q) + 1
      /\ \A i \in 1 .. Len(q) : (q \o <<m>>)[i] = q[i]
      /\ (q \o <<m>>)[Len(q) + 1] = m
      /\ q \o <<m>> # <<>>
  BY <1>3, <1>4, OneMore
<1>6. ~Told(c)'
  BY <1>2, <1>4, <1>5 DEF Told
<1>7. Watching(c)' /\ Fed(c)' /\ Explained(c)'
  BY <1>1, <1>2, <1>6 DEF StreamInv, Watching, Fed, Explained
<1>8. /\ \A i \in 1 .. Len(q) : q[i].key = k /\ q[i].serial = last[c].serial + i
      /\ published[k] = last[c].serial + Len(q)
  BY <1>1, <1>3 DEF StreamInv, InOrder, q
<1>9. ASSUME NEW i \in 1 .. Len(q) + 1
      PROVE  (q \o <<m>>)[i].key = k /\ (q \o <<m>>)[i].serial = last[c].serial + i
  <2>1. CASE i \in 1 .. Len(q)
    BY <1>5, <1>8, <2>1
  <2>2. CASE i = Len(q) + 1
    BY <1>3, <1>4, <1>5, <1>8, <2>2
  <2> QED BY <1>3, <2>1, <2>2
<1>10. InOrder(c)'
  <2>1. published'[k] = last[c].serial + (Len(q) + 1)
    BY <1>2, <1>3, <1>8, Serials
  <2>2. \A i \in DOMAIN queue'[c] : /\ queue'[c][i].key = watches'[c]
                                   /\ queue'[c][i].serial = last'[c].serial + i
    BY <1>1, <1>2, <1>5, <1>9
  <2>3. published'[watches'[c]] = last'[c].serial + Len(queue'[c])
    BY <1>1, <1>2, <1>5, <2>1
  <2> QED BY <2>2, <2>3 DEF InOrder
<1>11. Completed(c)' => Completed(c)
  <2> SUFFICES ASSUME NEW i \in 1 .. Len(q) + 1, (q \o <<m>>)[i].kind = "terminal"
               PROVE  Completed(c)
    BY <1>2, <1>5 DEF Completed
  <2>1. i # Len(q) + 1
    BY <1>4, <1>5
  <2>2. i \in 1 .. Len(q)
    BY <1>3, <2>1
  <2> QED BY <1>3, <1>5, <2>2 DEF Completed, q
<1> QED BY <1>7, <1>10, <1>11 DEF StreamInv

(* The last message on the key of a client, and the end.                   *)
LEMMA Ended ==
  ASSUME TypeOK, NEW c \in Clients, StreamInv(c), NEW k \in Keys, c \in channels[k],
         NEW kind \in {"error", "terminal"}, PublishAndClose(k, kind)
  PROVE  StreamInv(c)' /\ (Completed(c)' => Completed(c) \/ kind = "terminal")
<1> DEFINE q == queue[c]
           m == Note(k, 1, kind)
           n == Note(k, 2, "end")
           r == q \o <<m, n>>
<1>1. client[c] = "reading" /\ watches[c] = k /\ ~Told(c)
  BY DEF StreamInv, Fed
<1>2. client' = client /\ watches' = watches /\ last' = last /\ queue'[c] = r
  BY DEF PublishAndClose, Deliver, TypeOK
<1>3. q \in Seq(Message) /\ Len(q) \in Nat /\ DOMAIN q = 1 .. Len(q) /\ last[c].serial \in Nat
  BY Queues
<1>4. /\ m \in Message /\ m.key = k /\ m.serial = published[k] + 1 /\ m.kind = kind
      /\ n \in Message /\ n.key = k /\ n.serial = published[k] + 2 /\ n.kind = "end"
  BY NotesAreMessages DEF Note
<1>0. last[c] \in Message \union {Nothing}
  BY DEF TypeOK
<1>5. \A o \in Keys : c \notin channels'[o]
  BY <1>1 DEF PublishAndClose, TypeOK, StreamInv, Fed
<1>6. /\ \A i \in 1 .. Len(q) : q[i].key = k /\ q[i].serial = last[c].serial + i
      /\ published[k] = last[c].serial + Len(q)
  BY <1>1, <1>3 DEF StreamInv, InOrder
<1> HIDE DEF q, m, n
<1>7. /\ r \in Seq(Message)
      /\ Len(r) = Len(q) + 2
      /\ DOMAIN r = 1 .. Len(q) + 2
      /\ \A i \in 1 .. Len(q) : r[i] = q[i]
      /\ r[Len(q) + 1] = m
      /\ r[Len(q) + 2] = n
      /\ r # <<>>
  BY <1>3, <1>4, TwoMore
<1> HIDE DEF r
<1>8. Told(c)'
  BY <1>2, <1>4, <1>7 DEF Told
<1>9. Watching(c)' /\ Fed(c)'
  BY <1>1, <1>2, <1>5, <1>8 DEF StreamInv, Watching, Fed
<1>10. Explained(c)'
  <2>1. Len(r) # 1 /\ Len(r) - 1 = Len(q) + 1
    BY <1>3, <1>7
  <2>2. (<<last[c]>> \o r)[Len(r)] = m
    BY <1>0, <1>7, <2>1, BeforeLast
  <2> QED BY <1>2, <1>4, <2>2 DEF Explained
<1>14. m.serial = last[c].serial + (Len(q) + 1) /\ n.serial = last[c].serial + (Len(q) + 2)
  BY <1>3, <1>4, <1>6, Serials
<1>11. ASSUME NEW i \in 1 .. Len(q) + 2
       PROVE  r[i].key = k /\ r[i].serial = last[c].serial + i
  <2>1. CASE i \in 1 .. Len(q)
    BY <1>6, <1>7, <2>1
  <2>2. CASE i = Len(q) + 1
    BY <1>4, <1>7, <1>14, <2>2
  <2>3. CASE i = Len(q) + 2
    BY <1>4, <1>7, <1>14, <2>3
  <2> QED BY <1>3, <2>1, <2>2, <2>3
<1>12. InOrder(c)'
  BY <1>1, <1>2, <1>7, <1>8, <1>11 DEF InOrder
<1>13. Completed(c)' => Completed(c) \/ kind = "terminal"
  <2> SUFFICES ASSUME NEW i \in 1 .. Len(q) + 2, r[i].kind = "terminal", kind # "terminal"
               PROVE  Completed(c)
    BY <1>2, <1>7 DEF Completed
  <2>1. i # Len(q) + 1 /\ i # Len(q) + 2
    BY <1>4, <1>7
  <2>2. i \in 1 .. Len(q)
    BY <1>3, <2>1
  <2> QED BY <1>3, <1>7, <2>2 DEF Completed, q
<1> QED BY <1>9, <1>10, <1>12, <1>13 DEF StreamInv

(* The steps of another client.                                            *)
LEMMA OthersKept ==
  ASSUME NEW d \in Clients, StreamInv(d),
         queue'[d] = queue[d], client'[d] = client[d], watches'[d] = watches[d],
         last'[d] = last[d], published' = published,
         \A k \in Keys : d \in channels'[k] <=> d \in channels[k]
  PROVE  StreamInv(d)'
BY DEF StreamInv, Watching, Fed, InOrder, Explained, Told

LEMMA AwayKeeps ==
  ASSUME TypeOK, NEW c \in Clients, client'[c] = "away", \A k \in Keys : c \notin channels'[k]
  PROVE  StreamInv(c)' /\ Ready(c)'
BY DEF StreamInv, Watching, Fed, InOrder, Explained, Ready

LEMMA LeaveKeeps ==
  ASSUME TypeOK, \A d \in Clients : StreamInv(d), NEW c \in Clients, client[c] = "reading", Leave(c),
         NEW d \in Clients
  PROVE  StreamInv(d)' /\ (d # c => UNCHANGED <<queue[d], client[d], watches[d]>>)
                       /\ client'[c] = "away"
<1>1. watches[c] \in Keys
  BY DEF StreamInv, Watching
<1>2. client'[c] = "away"
  BY DEF Leave, TypeOK
<1>3. CASE d = c
  <2>1. \A k \in Keys : c \notin channels'[k]
    <3> SUFFICES ASSUME NEW k \in Keys, c \in channels'[k] PROVE FALSE
      OBVIOUS
    <3>1. k # watches[c] /\ c \in channels[k]
      BY <1>1 DEF Leave, TypeOK
    <3> QED BY <3>1 DEF StreamInv, Fed
  <2> QED BY <1>2, <1>3, <2>1, AwayKeeps
<1>4. CASE d # c
  <2>1. /\ queue'[d] = queue[d] /\ client'[d] = client[d] /\ watches'[d] = watches[d]
        /\ last'[d] = last[d] /\ published' = published
    BY <1>4 DEF Leave, TypeOK
  <2>2. \A k \in Keys : d \in channels'[k] <=> d \in channels[k]
    BY <1>1, <1>4 DEF Leave, TypeOK
  <2> QED BY <1>2, <1>4, <2>1, <2>2, OthersKept
<1> QED BY <1>3, <1>4

LEMMA OpenKeeps ==
  ASSUME TypeOK, \A d \in Clients : StreamInv(d), NEW c \in Clients, NEW k \in Keys, Open(c, k),
         NEW d \in Clients
  PROVE  StreamInv(d)' /\ (d # c => UNCHANGED <<queue[d], client[d], watches[d]>>)
                       /\ (d = c => ~Completed(c)')
<1>1. CASE d = c
  <2>1. /\ queue'[c] = <<>> /\ client'[c] = "reading" /\ watches'[c] = k
        /\ last'[c] = Blank(k) /\ published' = published
    BY DEF Open, TypeOK
  <2>2. \A o \in Keys : c \in channels'[o] <=> o = k
    BY DEF Open, TypeOK, StreamInv, Fed
  <2>3. ~Told(c)' /\ ~Completed(c)'
    BY <2>1 DEF Told, Completed
  <2>4. Watching(c)' /\ Fed(c)' /\ Explained(c)'
    BY <2>1, <2>2, <2>3 DEF Watching, Fed, Explained
  <2>5. InOrder(c)'
    <3>1. published[k] \in Nat /\ last'[c].serial = published[k]
      BY <2>1 DEF Blank, TypeOK
    <3>2. Len(queue'[c]) = 0 /\ DOMAIN queue'[c] = {}
      BY <2>1
    <3> QED BY <2>1, <3>1, <3>2 DEF InOrder
  <2> QED BY <1>1, <2>3, <2>4, <2>5 DEF StreamInv
<1>2. CASE d # c
  <2>1. /\ queue'[d] = queue[d] /\ client'[d] = client[d] /\ watches'[d] = watches[d]
        /\ last'[d] = last[d] /\ published' = published
    BY <1>2 DEF Open, TypeOK
  <2>2. \A o \in Keys : d \in channels'[o] <=> d \in channels[o]
    BY <1>2 DEF Open, TypeOK
  <2> QED BY <1>2, <2>1, <2>2, OthersKept
<1> QED BY <1>1, <1>2

(* A message is taken from the queue and sent.                             *)
Sent(c) ==
  /\ client[c] = "reading" /\ queue[c] # <<>>
  /\ Head(queue[c]).kind \notin {"terminal", "end"}
  /\ last' = [last EXCEPT ![c] = Head(queue[c])]
  /\ queue' = [queue EXCEPT ![c] = Tail(@)]
  /\ UNCHANGED <<channels, client, watches, published>>

LEMMA SentKeeps ==
  ASSUME TypeOK, \A d \in Clients : StreamInv(d), NEW c \in Clients, Sent(c), NEW d \in Clients
  PROVE  StreamInv(d)' /\ (d # c => queue'[d] = queue[d]) /\ (Completed(d)' => Completed(d))
<1>1. CASE d # c
  <2>1. queue'[d] = queue[d] /\ last'[d] = last[d]
    BY <1>1 DEF Sent, TypeOK
  <2> QED BY <1>1, <2>1, OthersKept DEF Sent, Completed
<1>2. CASE d = c
  <2> DEFINE q == queue[c]
             r == Tail(queue[c])
  <2>1. queue'[c] = r /\ last'[c] = q[1] /\ q[1].kind \notin {"terminal", "end"}
    BY Queues, OneLess DEF Sent, TypeOK
  <2>2. /\ q \in Seq(Message) /\ q # <<>> /\ q[1] \in Message
        /\ Len(q) \in Nat \ {0} /\ DOMAIN q = 1 .. Len(q)
        /\ r \in Seq(Message) /\ Len(r) = Len(q) - 1 /\ DOMAIN r = 1 .. Len(q) - 1
        /\ \A i \in 1 .. Len(q) - 1 : r[i] = q[i + 1]
    BY Queues, OneLess DEF Sent
  <2>3. last[c].serial \in Nat /\ last[c] \in Message \union {Nothing} /\ client[c] = "reading"
    BY Queues DEF Sent, TypeOK
  <2>4. /\ \A i \in 1 .. Len(q) : q[i].key = watches[c] /\ q[i].serial = last[c].serial + i
        /\ ~Told(c) => published[watches[c]] = last[c].serial + Len(q)
    BY <2>2, <2>3 DEF StreamInv, InOrder
  <2>5. Told(c) <=> q[Len(q)].kind = "end"
    BY <2>2 DEF Told
  <2>6. Told(c)' <=> r # <<>> /\ r[Len(r)].kind = "end"
    BY <2>1 DEF Told
  <2> HIDE DEF q, r
  <2>7. Len(q) = 1 => r = <<>> /\ ~Told(c)
    BY <2>1, <2>2, <2>5, EmptySeq
  <2>8. Len(q) # 1 => r # <<>> /\ r[Len(r)] = q[Len(q)]
    BY <2>2, EmptySeq
  <2>9. Told(c)' <=> Told(c)
    BY <2>5, <2>6, <2>7, <2>8
  <2>10. UNCHANGED <<channels, client, watches, published>>
    BY DEF Sent
  <2>11. Watching(c)' /\ Fed(c)'
    BY <2>9, <2>10 DEF StreamInv, Watching, Fed
  <2>12. q[1].serial = last[c].serial + 1
    BY <2>2, <2>4
  <2>13. InOrder(c)'
    <3>1. ASSUME NEW i \in 1 .. Len(q) - 1
          PROVE  r[i].key = watches[c] /\ r[i].serial = q[1].serial + i
      <4>1. i + 1 \in 1 .. Len(q) /\ r[i] = q[i + 1]
        BY <2>2
      <4>2. r[i].serial = last[c].serial + (i + 1) /\ r[i].key = watches[c]
        BY <2>4, <4>1
      <4>3. last[c].serial + (i + 1) = (last[c].serial + 1) + i
        BY <2>3
      <4> QED BY <2>12, <4>2, <4>3
    <3>2. last[c].serial + Len(q) = (last[c].serial + 1) + (Len(q) - 1)
      BY <2>2, <2>3
    <3>3. \A i \in DOMAIN queue'[c] : /\ queue'[c][i].key = watches'[c]
                                     /\ queue'[c][i].serial = last'[c].serial + i
      BY <2>1, <2>2, <2>10, <3>1
    <3>4. ~Told(c) => published'[watches'[c]] = last'[c].serial + Len(queue'[c])
      BY <2>1, <2>2, <2>4, <2>10, <2>12, <3>2
    <3> QED BY <2>9, <3>3, <3>4 DEF InOrder
  <2>14. Explained(c)'
    <3> SUFFICES ASSUME Told(c)'
                 PROVE  (<<q[1]>> \o r)[Len(r)].kind \in {"error", "terminal"}
      BY <2>1 DEF Explained
    <3>1. Told(c) /\ r # <<>> /\ Len(q) # 1
      BY <2>6, <2>7, <2>9
    <3>2. (<<last[c]>> \o q)[Len(q)].kind \in {"error", "terminal"}
      BY <2>3, <3>1 DEF StreamInv, Explained, q
    <3>3. (<<last[c]>> \o q)[Len(q)] = q[Len(q) - 1]
      BY <2>2, <2>3, <3>1, BeforeLast
    <3>4. (<<q[1]>> \o r)[Len(r)] = IF Len(r) = 1 THEN q[1] ELSE r[Len(r) - 1]
      BY <2>2, <3>1, BeforeLast
    <3>5. CASE Len(r) = 1
      <4>1. Len(q) - 1 = 1
        BY <2>2, <3>5
      <4> QED BY <3>2, <3>3, <3>4, <3>5, <4>1
    <3>6. CASE Len(r) # 1
      <4>1. Len(r) - 1 \in 1 .. Len(q) - 1 /\ (Len(r) - 1) + 1 = Len(q) - 1
        BY <2>2, <3>1, <3>6, EmptySeq
      <4>2. r[Len(r) - 1] = q[(Len(r) - 1) + 1]
        BY <2>2, <4>1
      <4> QED BY <3>2, <3>3, <3>4, <3>6, <4>1, <4>2
    <3> QED BY <3>5, <3>6
  <2>15. Completed(c)' => Completed(c)
    <3> SUFFICES ASSUME NEW i \in 1 .. Len(q) - 1, r[i].kind = "terminal"
                 PROVE  Completed(c)
      BY <2>1, <2>2 DEF Completed
    <3>1. i + 1 \in 1 .. Len(q) /\ q[i + 1].kind = "terminal"
      BY <2>2
    <3> QED BY <2>2, <3>1 DEF Completed, q
  <2> QED BY <1>2, <2>11, <2>13, <2>14, <2>15 DEF StreamInv
<1> QED BY <1>1, <1>2

-----------------------------------------------------------------------------
(* The inductive invariant of streams                                      *)

StreamsInv ==
  /\ \A c \in Clients : StreamInv(c) /\ Ready(c)
  /\ ScoutsCommitted

LEMMA ScoutedByCommit ==
  ASSUME TypeOK, NEW r \in Runs, Run(r), NEW s \in Runs, phase'[s] = "scouted"
  PROVE  phase[s] = "scouted" \/ (s = r /\ phase[r] = "scout")
BY DEF Run, TakeUp, Report, CommitScout, CompleteScout, CommitProcess, CompleteProcess,
       Fail, ReportFailure, Advance, TypeOK

LEMMA StatusMovesOn ==
  ASSUME TypeOK, NEW r \in Runs, Run(r), NEW j \in Jobs, status[j] # "scouting"
  PROVE  status'[j] # "scouting"
BY RunEffects DEF TypeOK

LEMMA CommitsKept ==
  ASSUME TypeOK, ScoutsCommitted, NEW r \in Runs, Run(r)
  PROVE  ScoutsCommitted'
<1> SUFFICES ASSUME NEW s \in Runs, phase'[s] = "scouted"
             PROVE  status'[JobOf[s]] # "scouting"
  BY DEF ScoutsCommitted
<1>1. CASE phase[s] = "scouted"
  BY <1>1, JobKeys, StatusMovesOn DEF ScoutsCommitted
<1>2. CASE s = r /\ phase[r] = "scout"
  BY <1>2, JobKeys, RunEffects DEF TypeOK
<1> QED BY <1>1, <1>2, ScoutedByCommit

(* Nothing terminal is new in the queue of the client.                     *)
LEMMA ReadyKept ==
  ASSUME TypeOK, NEW r \in Runs, Run(r), NEW c \in Clients, StreamInv(c), Ready(c),
         client' = client, watches' = watches, Completed(c)' => Completed(c)
  PROVE  Ready(c)'
<1> SUFFICES ASSUME client[c] = "reading", watches[c][2] = "scout", Completed(c)
             PROVE  status'[watches[c][1]] # "scouting"
  BY DEF Ready
<1>1. status[watches[c][1]] # "scouting"
  BY DEF Ready
<1>2. watches[c][1] \in Jobs
  BY DEF StreamInv, Watching, Keys
<1> QED BY <1>1, <1>2, StatusMovesOn

LEMMA PublishesKeep ==
  ASSUME TypeOK, StreamsInv, NEW r \in Runs, Run(r), Publishes, NEW c \in Clients
  PROVE  StreamInv(c)' /\ Ready(c)'
<1>1. PICK s \in Runs :
        \/ phase[s] \in {"scout", "progress"} /\ Publish(<<JobOf[s], phase[s]>>, "event")
        \/ phase[s] = "scouted" /\ PublishAndClose(<<JobOf[s], "scout">>, "terminal")
        \/ PublishAndClose(<<JobOf[s], "progress">>, "terminal")
        \/ PublishAndClose(<<JobOf[s], "scout">>, "error")
        \/ PublishAndClose(<<JobOf[s], "progress">>, "error")
  BY DEF Publishes
<1>2. StreamInv(c) /\ Ready(c) /\ ScoutsCommitted
  BY DEF StreamsInv
<1>3. client' = client /\ watches' = watches
  BY <1>1 DEF Publish, PublishAndClose
<1>4. ASSUME NEW k \in Keys, NEW kind, Publish(k, kind) \/ PublishAndClose(k, kind), c \notin channels[k]
      PROVE  StreamInv(c)' /\ Ready(c)'
  <2>1. StreamInv(c)' /\ queue'[c] = queue[c]
    BY <1>2, <1>4, NotSubscribed
  <2> QED BY <1>2, <1>3, <2>1, ReadyKept DEF Completed
<1>5. ASSUME NEW k \in Keys, Publish(k, "event")
      PROVE  StreamInv(c)' /\ Ready(c)'
  BY <1>2, <1>3, <1>4, <1>5, Subscribed, ReadyKept
<1>6. ASSUME NEW k \in Keys, PublishAndClose(k, "error")
      PROVE  StreamInv(c)' /\ Ready(c)'
  <2>1. CASE c \in channels[k]
    <3>1. StreamInv(c)' /\ (Completed(c)' => Completed(c))
      BY <1>2, <1>6, <2>1, Ended
    <3> QED BY <1>2, <1>3, <3>1, ReadyKept
  <2> QED BY <1>4, <1>6, <2>1
<1>7. ASSUME NEW k \in Keys, PublishAndClose(k, "terminal"),
             k[2] = "scout" => status[k[1]] # "scouting"
      PROVE  StreamInv(c)' /\ Ready(c)'
  <2>1. CASE c \in channels[k]
    <3>1. StreamInv(c)'
      BY <1>2, <1>7, <2>1, Ended
    <3>2. watches'[c] = k
      BY <1>2, <1>3, <2>1 DEF StreamInv, Fed
    <3>3. k[1] \in Jobs
      BY DEF Keys
    <3>4. k[2] = "scout" => status'[k[1]] # "scouting"
      BY <1>7, <3>3, StatusMovesOn
    <3> QED BY <3>1, <3>2, <3>4 DEF Ready
  <2> QED BY <1>4, <1>7, <2>1
<1>8. CASE phase[s] \in {"scout", "progress"} /\ Publish(<<JobOf[s], phase[s]>>, "event")
  BY <1>5, <1>8, JobKeys
<1>9. CASE phase[s] = "scouted" /\ PublishAndClose(<<JobOf[s], "scout">>, "terminal")
  BY <1>2, <1>7, <1>9, JobKeys DEF ScoutsCommitted
<1>10. CASE PublishAndClose(<<JobOf[s], "progress">>, "terminal")
  BY <1>7, <1>10, JobKeys
<1>11. CASE \/ PublishAndClose(<<JobOf[s], "scout">>, "error")
            \/ PublishAndClose(<<JobOf[s], "progress">>, "error")
  BY <1>6, <1>11, JobKeys
<1> QED BY <1>1, <1>8, <1>9, <1>10, <1>11

LEMMA RunKeeps ==
  ASSUME TypeOK, StreamsInv, NEW r \in Runs, Run(r)
  PROVE  StreamsInv'
<1>1. ScoutsCommitted'
  BY CommitsKept DEF StreamsInv
<1>2. ASSUME NEW c \in Clients PROVE StreamInv(c)' /\ Ready(c)'
  <2>1. CASE UNCHANGED <<streams, published>>
    <3>1. StreamInv(c)'
      BY <2>1, StreamKept DEF StreamsInv
    <3>2. client' = client /\ watches' = watches /\ (Completed(c)' => Completed(c))
      BY <2>1 DEF streams, Completed
    <3> QED BY <3>1, <3>2, ReadyKept DEF StreamsInv
  <2>2. CASE Publishes
    BY <2>2, PublishesKeep
  <2> QED BY <2>1, <2>2, RunEffects
<1> QED BY <1>1, <1>2 DEF StreamsInv

LEMMA ClientKeeps ==
  ASSUME TypeOK, StreamsInv, NEW c \in Clients,
         (\E k \in Keys : Open(c, k)) \/ Receive(c) \/ Disconnect(c)
  PROVE  StreamsInv'
<1>1. UNCHANGED <<phase, status>>
  BY DEF Open, Receive, Disconnect, progress
<1>2. ScoutsCommitted'
  BY <1>1 DEF StreamsInv, ScoutsCommitted
<1>3. \A d \in Clients : StreamInv(d) /\ Ready(d)
  BY DEF StreamsInv
<1>4. ASSUME NEW d \in Clients PROVE StreamInv(d)' /\ Ready(d)'
  <2>1. ASSUME NEW k \in Keys, Open(c, k) PROVE StreamInv(d)' /\ Ready(d)'
    BY <1>1, <1>3, <2>1, OpenKeeps DEF Ready, Completed
  <2>2. CASE client[c] = "reading" /\ Leave(c)
    BY <1>1, <1>3, <2>2, LeaveKeeps DEF Ready, Completed
  <2>3. CASE Sent(c)
    <3>1. StreamInv(d)' /\ (Completed(d)' => Completed(d))
      BY <1>3, <2>3, SentKeeps
    <3> QED BY <1>1, <1>3, <2>3, <3>1 DEF Ready, Sent
  <2>4. Receive(c) => Sent(c) \/ (client[c] = "reading" /\ Leave(c))
    BY DEF Receive, Sent
  <2>5. Disconnect(c) => client[c] = "reading" /\ Leave(c)
    BY DEF Disconnect, TypeOK
  <2> QED BY <2>1, <2>2, <2>3, <2>4, <2>5
<1> QED BY <1>2, <1>4 DEF StreamsInv

LEMMA StreamsUntouched ==
  ASSUME StreamsInv, UNCHANGED <<streams, progress, status, published>>
  PROVE  StreamsInv'
<1>1. ScoutsCommitted'
  BY DEF StreamsInv, ScoutsCommitted, progress
<1>2. ASSUME NEW c \in Clients PROVE StreamInv(c)' /\ Ready(c)'
  <2>1. StreamInv(c)'
    BY StreamKept DEF StreamsInv
  <2>2. Ready(c)'
    BY DEF StreamsInv, Ready, Completed, streams
  <2> QED BY <2>1, <2>2
<1> QED BY <1>1, <1>2 DEF StreamsInv

LEMMA StreamsInductive == TypeOK /\ StreamsInv /\ [Next]_vars => StreamsInv'
<1> SUFFICES ASSUME TypeOK, StreamsInv, [Next]_vars PROVE StreamsInv'
  OBVIOUS
<1>1. ASSUME NEW l \in Listeners, Listen(l) \/ Hear(l) \/ StopListening(l) PROVE StreamsInv'
  BY <1>1, StreamsUntouched DEF Listen, Hear, StopListening
<1>2. ASSUME UNCHANGED vars PROVE StreamsInv'
  BY <1>2, StreamsUntouched DEF vars
<1> QED BY <1>1, <1>2, RunKeeps, ClientKeeps DEF Next

LEMMA StreamsHold == Spec => []StreamsInv
<1>1. Init => StreamsInv
  <2>1. ASSUME Init, NEW c \in Clients PROVE StreamInv(c) /\ Ready(c)
    BY <2>1 DEF Init, StreamInv, Watching, Fed, InOrder, Explained, Ready
  <2>2. Init => ScoutsCommitted
    BY DEF Init, ScoutsCommitted
  <2> QED BY <2>1, <2>2 DEF StreamsInv
<1> QED BY <1>1, TypeCorrect, StreamsInductive, PTL DEF Spec

(* A stream carries all and only the messages of its key, in order, until  *)
(* its channel is closed (stream_manager.py:50-123).                       *)
THEOREM StreamsAreInOrder == Spec => []DeliveredInOrder
<1>1. StreamsInv => DeliveredInOrder
  BY StreamInvs DEF StreamsInv
<1> QED BY <1>1, StreamsHold, PTL

(* Every open stream is fed or has been told to end, and only they are     *)
(* (subscribe, close_channel and the finally clauses of the generators).   *)
THEOREM NobodyIsForgotten == Spec => []NobodyForgotten
<1>1. StreamsInv => NobodyForgotten
  BY StreamInvs DEF StreamsInv
<1> QED BY <1>1, StreamsHold, PTL

(* What comes before the end of a stream says how the run ended (the       *)
(* publish before every close_channel in pipeline.py).                     *)
THEOREM EndsAreExplained == Spec => []EndIsExplained
<1>1. StreamsInv => EndIsExplained
  BY StreamInvs DEF StreamsInv
<1> QED BY <1>1, StreamsHold, PTL

(* A client with scout_complete in its queue finds the job past scouting   *)
(* (the commit before the publish, pipeline.py:453-462).                   *)
THEOREM ContentMapsAreReady == Spec => []ContentMapReady
<1>1. StreamsInv => ContentMapReady
  BY ReadyInvs DEF StreamsInv
<1> QED BY <1>1, StreamsHold, PTL
-----------------------------------------------------------------------------
(* The bus implements Broadcast                                            *)

Readers == {c \in Clients : client[c] = "reading"}

LEMMA ReadersRead == Log!Reading = Readers /\ \A c \in Readers : Places[c] = Place(c)
BY DEF Log!Reading, Places, Readers

LEMMA PlacesKept ==
  ASSUME Readers' = Readers, \A c \in Readers : Place(c)' = Place(c)
  PROVE  Places' = Places
BY DEF Places, Readers

(* A place looks open exactly while its channel is.                        *)
LEMMA OpenPlaces ==
  ASSUME TypeOK, NEW c \in Readers
  PROVE  Place(c).end = Log!Open <=> ~Told(c)
<1> c \in Clients
  BY DEF Readers
<1>1. CASE ~Told(c)
  BY <1>1 DEF Place, Log!Open
<1>2. CASE Told(c)
  <2>1. Len(queue[c]) \in Nat \ {0} /\ last[c].serial \in Nat
    BY <1>2, Queues DEF Told
  <2>2. last[c].serial + Len(queue[c]) - 1 # -1
    BY <2>1
  <2> QED BY <1>2, <2>2 DEF Place, Log!Open
<1> QED BY <1>1, <1>2

(* Who is not subscribed does not move.                                    *)
LEMMA StrangersStay ==
  ASSUME NEW c \in Clients, queue'[c] = queue[c], UNCHANGED <<watches, last>>
  PROVE  Place(c)' = Place(c)
BY DEF Place, Told

LEMMA PostsAreSeen ==
  ASSUME TypeOK, StreamsInv, NEW k \in Keys, Publish(k, "event")
  PROVE  Log!Next
<1>1. published' = [published EXCEPT ![k] = published[k] + 1]
      /\ UNCHANGED <<channels, client, watches, last>>
  BY DEF Publish
<1>2. ASSUME NEW c \in Readers PROVE Place(c)' = Place(c)
  <2>0. c \in Clients /\ StreamInv(c)
    BY DEF Readers, StreamsInv
  <2>1. CASE c \in channels[k]
    <3>1. StreamInv(c)'
      BY <2>0, <2>1, Subscribed
    <3>2. ~Told(c) /\ ~Told(c)'
      BY <1>1, <2>0, <2>1, <3>1 DEF StreamInv, Fed
    <3> QED BY <1>1, <3>2 DEF Place
  <2>2. CASE c \notin channels[k]
    BY <1>1, <2>0, <2>2, NotSubscribed, StrangersStay
  <2> QED BY <2>1, <2>2
<1>3. Places' = Places
  BY <1>1, <1>2, PlacesKept DEF Readers
<1>4. Log!Post(k)
  BY <1>1, <1>3 DEF Log!Post, Log!Append
<1> QED BY <1>4 DEF Log!Next

LEMMA LastPostsAreSeen ==
  ASSUME TypeOK, StreamsInv, NEW k \in Keys, NEW kind \in {"error", "terminal"},
         PublishAndClose(k, kind)
  PROVE  Log!Next
<1>1. published' = [published EXCEPT ![k] = published[k] + 1]
      /\ UNCHANGED <<client, watches, last>>
  BY DEF PublishAndClose
<1>2. ASSUME NEW c \in Readers, c \in channels[k]
      PROVE  /\ Place(c).key = k /\ ~Told(c)
             /\ Place(c)' = [key |-> k, at |-> Place(c).at, end |-> published[k] + 1]
  <2>0. c \in Clients /\ StreamInv(c) /\ client[c] = "reading"
    BY DEF Readers, StreamsInv
  <2>1. watches[c] = k /\ ~Told(c)
    BY <1>2, <2>0 DEF StreamInv, Fed
  <2>2. StreamInv(c)' /\ channels'[k] = {}
    BY <1>2, <2>0, Ended DEF PublishAndClose, TypeOK
  <2>3. Told(c)'
    BY <1>1, <2>0, <2>1, <2>2 DEF StreamInv, Fed
  <2>4. Len(queue'[c]) = Len(queue[c]) + 2
    <3>1. queue'[c] = queue[c] \o <<Note(k, 1, kind), Note(k, 2, "end")>>
      BY <1>2, <2>0 DEF PublishAndClose, Deliver, TypeOK
    <3>2. Note(k, 1, kind) \in Message /\ Note(k, 2, "end") \in Message
      BY NotesAreMessages
    <3> QED BY <2>0, <3>1, <3>2, Queues, TwoMore
  <2>5. published[k] = last[c].serial + Len(queue[c])
    BY <2>0, <2>1 DEF StreamInv, InOrder
  <2>6. last[c].serial \in Nat /\ Len(queue[c]) \in Nat
    BY <2>0, Queues
  <2>7. last'[c].serial + Len(queue'[c]) - 1 = published[k] + 1
    BY <1>1, <2>4, <2>5, <2>6
  <2> QED BY <1>1, <2>1, <2>3, <2>7 DEF Place
<1>3. ASSUME NEW c \in Readers, c \notin channels[k]
      PROVE  Place(c)' = Place(c) /\ ~(Place(c).key = k /\ ~Told(c))
  <2>0. c \in Clients /\ StreamInv(c) /\ client[c] = "reading"
    BY DEF Readers, StreamsInv
  <2>1. Place(c)' = Place(c)
    BY <1>1, <1>3, <2>0, NotSubscribed, StrangersStay
  <2>2. ~(watches[c] = k /\ ~Told(c))
    BY <1>3, <2>0 DEF StreamInv, Fed
  <2> QED BY <2>1, <2>2 DEF Place
<1>4. Places' = [c \in Log!Reading |->
                   IF Places[c].key = k /\ Places[c].end = Log!Open
                   THEN [key |-> k, at |-> Places[c].at, end |-> published[k] + 1] ELSE Places[c]]
  <2>1. Places' = [c \in Readers |-> Place(c)']
    BY <1>1 DEF Places, Readers
  <2>2. \A c \in Readers :
          Place(c)' = IF Places[c].key = k /\ Places[c].end = Log!Open
                      THEN [key |-> k, at |-> Places[c].at, end |-> published[k] + 1] ELSE Places[c]
    BY <1>2, <1>3, OpenPlaces, ReadersRead
  <2> QED BY <2>1, <2>2, ReadersRead
<1>5. Log!PostLast(k)
  BY <1>1, <1>4 DEF Log!PostLast, Log!Append
<1> QED BY <1>5 DEF Log!Next

LEMMA OpeningJoins ==
  ASSUME TypeOK, NEW c \in Clients, NEW k \in Keys, Open(c, k)
  PROVE  Log!Next
<1>1. /\ c \notin Readers /\ Readers' = Readers \union {c} /\ published' = published
  BY DEF Open, Readers, TypeOK
<1>2. Place(c)' = [key |-> k, at |-> published[k], end |-> Log!Open]
  BY DEF Open, Place, Told, Blank, Log!Open, TypeOK
<1>3. \A d \in Readers : Place(d)' = Place(d)
  BY <1>1 DEF Open, Place, Told, Readers, TypeOK
<1>4. Places' = [d \in Log!Reading \union {c} |->
                   IF d = c THEN [key |-> k, at |-> published[k], end |-> Log!Open] ELSE Places[d]]
  <2>1. Places' = [d \in Readers \union {c} |-> Place(d)']
    BY <1>1 DEF Places, Readers
  <2> QED BY <1>1, <1>2, <1>3, <2>1, ReadersRead
<1>5. Log!Join(c, k)
  BY <1>1, <1>4, ReadersRead DEF Log!Join
<1> QED BY <1>5 DEF Log!Next

LEMMA LeavingLeaves ==
  ASSUME TypeOK, NEW c \in Clients, client[c] = "reading", Leave(c)
  PROVE  Log!Next
<1>1. /\ c \in Readers /\ Readers' = Readers \ {c} /\ published' = published
  BY DEF Leave, Readers, TypeOK
<1>2. \A d \in Readers \ {c} : Place(d)' = Place(d)
  BY DEF Leave, Place, Told, Readers, TypeOK
<1>3. Places' = [d \in Log!Reading \ {c} |-> Places[d]]
  <2>1. Places' = [d \in Readers \ {c} |-> Place(d)']
    BY <1>1 DEF Places, Readers
  <2> QED BY <1>2, <2>1, ReadersRead
<1>4. Log!Leave(c)
  BY <1>1, <1>3, ReadersRead DEF Log!Leave
<1> QED BY <1>4 DEF Log!Next

(* What is sent next is the next message of the log: the queue of a stream *)
(* is the stretch between its place and the end it can have.               *)
LEMMA SendingReads ==
  ASSUME TypeOK, StreamsInv, NEW c \in Clients, Sent(c)
  PROVE  Log!Next
<1> DEFINE q == queue[c]
           n == last[c].serial
<1>1. /\ UNCHANGED <<channels, client, watches, published>>
      /\ last'[c] = q[1] /\ queue'[c] = Tail(q) /\ q[1].kind # "end"
      /\ Len(q) \in Nat \ {0} /\ Len(Tail(q)) = Len(q) - 1 /\ DOMAIN q = 1 .. Len(q)
      /\ n \in Nat /\ client[c] = "reading"
  BY Queues, OneLess DEF Sent, TypeOK
<1>2. StreamInv(c) /\ StreamInv(c)'
  BY SentKeeps DEF StreamsInv
<1>3. watches[c] \in Keys /\ (Told(c)' <=> Told(c))
  BY <1>1, <1>2 DEF StreamInv, Watching, Fed
<1>4. q[1].serial = n + 1 /\ (~Told(c) => published[watches[c]] = n + Len(q))
  BY <1>1, <1>2 DEF StreamInv, InOrder
<1>5. Told(c) => Len(q) # 1
  BY <1>1 DEF Told
<1> HIDE DEF q, n
<1>6. Place(c) = [key |-> watches[c], at |-> n, end |-> IF Told(c) THEN n + Len(q) - 1 ELSE -1]
  BY DEF Place, q, n
<1>7. Place(c)' = [key |-> Place(c).key, at |-> Place(c).at + 1, end |-> Place(c).end]
  <2>1. (n + 1) + (Len(q) - 1) - 1 = n + Len(q) - 1
    BY <1>1
  <2>2. Place(c)' = [key |-> watches[c], at |-> n + 1,
                     end |-> IF Told(c) THEN (n + 1) + (Len(q) - 1) - 1 ELSE -1]
    BY <1>1, <1>3, <1>4 DEF Place
  <2> QED BY <1>6, <2>1, <2>2
<1>8. ASSUME NEW d \in Readers, d # c PROVE Place(d)' = Place(d)
  BY <1>8, <1>1 DEF Sent, Place, Told, Readers, TypeOK
<1>9. c \in Readers /\ Readers' = Readers
  BY <1>1 DEF Readers
<1>10. Places' = [d \in Log!Reading |->
                    IF d = c THEN [key |-> Places[c].key, at |-> Places[c].at + 1,
                                   end |-> Places[c].end]
                             ELSE Places[d]]
  <2>1. Places' = [d \in Readers |-> Place(d)']
    BY <1>9 DEF Places, Readers
  <2> QED BY <1>7, <1>8, <1>9, <2>1, ReadersRead
<1>11. Places[c].at < Log!Last(c)
  <2>1. CASE Told(c)
    <3>1. n < n + Len(q) - 1 /\ n + Len(q) - 1 # -1
      BY <1>1, <1>5, <2>1
    <3> QED BY <1>6, <1>9, <2>1, <3>1, ReadersRead DEF Log!Last, Log!Open
  <2>2. CASE ~Told(c)
    <3>1. n < n + Len(q)
      BY <1>1
    <3> QED BY <1>4, <1>6, <1>9, <2>2, <3>1, ReadersRead DEF Log!Last, Log!Open
  <2> QED BY <2>1, <2>2
<1>12. Log!Read(c)
  BY <1>1, <1>9, <1>10, <1>11, ReadersRead DEF Log!Read
<1> QED BY <1>12 DEF Log!Next

(* Every step of the bus and its users is a step of Broadcast.             *)
LEMMA BusSteps == TypeOK /\ StreamsInv /\ [Next]_vars => [Log!Next]_Log!vars
<1> SUFFICES ASSUME TypeOK, StreamsInv, [Next]_vars PROVE Log!Next \/ UNCHANGED Log!vars
  OBVIOUS
<1>1. ASSUME UNCHANGED <<streams, published>> PROVE UNCHANGED Log!vars
  BY <1>1 DEF Log!vars, Places, Place, Told, streams
<1>2. ASSUME NEW r \in Runs, Run(r) PROVE Log!Next \/ UNCHANGED Log!vars
  <2>1. CASE Publishes
    <3>1. PICK s \in Runs :
            \/ phase[s] \in {"scout", "progress"} /\ Publish(<<JobOf[s], phase[s]>>, "event")
            \/ PublishAndClose(<<JobOf[s], "scout">>, "terminal")
            \/ PublishAndClose(<<JobOf[s], "progress">>, "terminal")
            \/ PublishAndClose(<<JobOf[s], "scout">>, "error")
            \/ PublishAndClose(<<JobOf[s], "progress">>, "error")
      BY <2>1 DEF Publishes
    <3>2. \/ \E k \in Keys : Publish(k, "event")
          \/ \E k \in Keys : \E kind \in {"error", "terminal"} : PublishAndClose(k, kind)
      BY <3>1, JobKeys
    <3> QED BY <3>2, PostsAreSeen, LastPostsAreSeen
  <2>2. CASE UNCHANGED <<streams, published>>
    BY <1>1, <2>2
  <2> QED BY <1>2, <2>1, <2>2, RunEffects
<1>3. ASSUME NEW c \in Clients, (\E k \in Keys : Open(c, k)) \/ Receive(c) \/ Disconnect(c)
      PROVE  Log!Next
  <2>1. Receive(c) => Sent(c) \/ (client[c] = "reading" /\ Leave(c))
    BY DEF Receive, Sent
  <2>2. Disconnect(c) => client[c] = "reading" /\ Leave(c)
    BY DEF Disconnect, TypeOK
  <2> QED BY <1>3, <2>1, <2>2, OpeningJoins, LeavingLeaves, SendingReads
<1>4. ASSUME NEW l \in Listeners, Listen(l) \/ Hear(l) \/ StopListening(l)
      PROVE  UNCHANGED Log!vars
  BY <1>1, <1>4 DEF Listen, Hear, StopListening
<1> QED BY <1>1, <1>2, <1>3, <1>4 DEF Next, vars

(* For any number of runs, jobs and streams the bus is a log for each key: *)
(* a stream starts at the end of the log of its key, moves on by one       *)
(* message at a time, and ends where the channel was closed while it read, *)
(* whatever other streams, listeners and later runs of the job do.         *)
THEOREM StreamsReadOneLog == Spec => StreamsShareALog
<1>1. Init => Log!Init
  BY DEF Init, Log!Init, Places
<1> QED BY <1>1, BusSteps, TypeCorrect, StreamsHold, PTL
        DEF Spec, StreamsShareALog, Log!Spec
=============================================================================
