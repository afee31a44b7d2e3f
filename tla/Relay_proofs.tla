------------------------------ MODULE Relay_proofs ------------------------------
(***************************************************************************)
(* Proofs about Relay for any keys, peers, limits of the queues and number *)
(* of faults.                                                              *)
(*                                                                         *)
(* The order of the queue and the retained values are carried by one fact: *)
(* the revisions retained, those of the batch and those of the queue lie   *)
(* one behind the other, and no revision was given out twice.  That a      *)
(* connected relay is subscribed is carried by where the thread may be:    *)
(* m_connected is set behind a SUBACK that grants, and whoever closes the   *)
(* socket takes it back.                                                   *)
(***************************************************************************)
EXTENDS Relay, SequenceTheorems, TLAPS

Value == [key : Keys, revision : Nat]
Arrived == [from : Peers \cup {Self}, topic : {"value", "@presence"}]

Threads == {"off", "top", "connect", "connack", "suback", "backoff", "pump", "sending",
            "pumpIn", "bye", "ended"}

ControlTypes ==
    /\ running \in BOOLEAN /\ stop \in BOOLEAN /\ connected \in BOOLEAN
    /\ session \in BOOLEAN /\ granted \in BOOLEAN
    /\ pc \in Threads
    /\ link \in {"closed", "up", "stalled", "cut", "dead"}
    /\ reply \in {NoReply, "welcome", "granted", "refused"}

Counters == faults \in 0..MaxFaults /\ starts \in 0..MaxStarts

QueueTypes ==
    /\ clock \in 0..MaxClock
    /\ last \in [Keys -> Nat] /\ retained \in [Keys -> Nat]
    /\ outbound \in Seq(Value) /\ Len(outbound) <= MaxOutbound
    /\ batch \in Seq(Value) /\ Len(batch) <= MaxOutbound

\* What other controllers send.
PeerTypes ==
    /\ inbound \in Seq(Arrived) /\ Len(inbound) <= MaxInbound
    /\ peers \subseteq Peers \cup {Self}
    /\ OwnNeverComesBack

\* Where the thread is without a connection, and where it waits for answers.
Unconnected == {"off", "connect", "backoff", "ended"}
Waiting == {"connack", "suback"}

ThreadControl ==
    /\ pc = "off" <=> ~running
    /\ pc \in Unconnected => link = "closed"
    /\ reply # NoReply => pc \in Waiting
    /\ connected => pc \notin Unconnected \cup Waiting /\ link # "closed"

\* What the broker holds as long as the link was not cut.
Alive == link \in {"up", "stalled"}

Subscribed ==
    /\ connected /\ Alive => session /\ granted
    /\ pc \in Waiting /\ Alive => session
    /\ pc = "suback" /\ reply = "granted" /\ Alive => granted

\* The revisions retained, in the batch and in the queue.
Rising(q) == \A i, j \in DOMAIN q : i < j => q[i].revision < q[j].revision
Before(q, r) == \A i \in DOMAIN q, j \in DOMAIN r : q[i].revision < r[j].revision
Behind(q) == \A i \in DOMAIN q, k \in Keys : retained[k] < q[i].revision
Pushed(q) == \A i \in DOMAIN q : q[i].revision <= last[q[i].key]

InLine ==
    /\ \A k \in Keys : retained[k] <= last[k] /\ last[k] <= clock
    /\ Rising(batch) /\ Rising(outbound) /\ Before(batch, outbound)
    /\ Behind(batch) /\ Behind(outbound)
    /\ Pushed(batch) /\ Pushed(outbound)
    /\ outbound # <<>> => outbound[Len(outbound)].revision = clock

RelayInv ==
    /\ ControlTypes /\ Counters /\ QueueTypes /\ PeerTypes
    /\ ThreadControl /\ Subscribed /\ InLine
-----------------------------------------------------------------------------
(* The thread and its connection.                                          *)

LEMMA Init_Inv == RelayInit => RelayInv
<1> SUFFICES ASSUME RelayInit PROVE RelayInv
  OBVIOUS
<1>1. ControlTypes
  BY DEF RelayInit, ControlTypes, Threads, NoReply
<1>2. QueueTypes /\ Counters
  BY RelayAssumption DEF RelayInit, QueueTypes, Counters
<1>3. PeerTypes
  BY RelayAssumption DEF RelayInit, PeerTypes, OwnNeverComesBack
<1>4. ThreadControl /\ Subscribed
  BY DEF RelayInit, ThreadControl, Subscribed, Alive, Unconnected, Waiting
<1>5. InLine
  BY DEF RelayInit, InLine, Rising, Before, Behind, Pushed
<1> QED BY <1>1, <1>2, <1>3, <1>4, <1>5 DEF RelayInv

\* What the main thread, the broker and the network do to the control state.
Outside ==
    \/ Start \/ RequestStop \/ Join \/ PopInbound \/ (\E k \in Keys : Push(k))
    \/ LinkChanges \/ Detect \/ FireWill \/ (\E p \in Peers : PeerChanges(p))

Control == ControlTypes /\ ThreadControl /\ Subscribed

LEMMA Outside_Control == Control /\ Outside => Control'
<1> SUFFICES ASSUME Control, Outside PROVE Control'
  OBVIOUS
<1> USE DEF Control, ControlTypes, ThreadControl, Subscribed, Alive, Unconnected, Waiting,
            Threads, NoReply
<1>1. CASE Start
  BY <1>1 DEF Start, linkVars, brokerVars
<1>2. CASE RequestStop
  BY <1>2 DEF RequestStop, threadVars, linkVars, brokerVars
<1>3. CASE Join
  BY <1>3 DEF Join, linkVars, brokerVars
<1>4. CASE PopInbound
  BY <1>4 DEF PopInbound, mainVars, threadVars, linkVars, brokerVars
<1>5. CASE \E k \in Keys : Push(k)
  BY <1>5 DEF Push, threadVars, linkVars, brokerVars
<1>6. CASE LinkChanges
  BY <1>6 DEF LinkChanges, Fault, mainVars, threadVars, brokerVars
<1>7. CASE Detect
  BY <1>7 DEF Detect, mainVars, threadVars, brokerVars
<1>8. CASE FireWill
  BY <1>8 DEF FireWill, mainVars, threadVars, linkVars
<1>9. CASE \E p \in Peers : PeerChanges(p)
  BY <1>9 DEF PeerChanges, mainVars, threadVars, linkVars
<1> QED BY <1>1, <1>2, <1>3, <1>4, <1>5, <1>6, <1>7, <1>8, <1>9 DEF Outside

LEMMA Thread_Control == Control /\ Thread => Control'
<1> SUFFICES ASSUME Control, Thread PROVE Control'
  OBVIOUS
<1> USE DEF Control, ControlTypes, ThreadControl, Subscribed, Alive, Unconnected, Waiting,
            Threads, NoReply, GoTo, Close, mainVars, linkVars, brokerVars
<1>1. CASE Top
  BY <1>1 DEF Top
<1>2. CASE Connect
  BY <1>2 DEF Connect
<1>3. CASE ConnectFails
  BY <1>3 DEF ConnectFails, Fault
<1>4. CASE AwaitFails
  BY <1>4 DEF AwaitFails
<1>5. CASE ConnAck
  BY <1>5 DEF ConnAck, Fault
<1>6. CASE SubAck
  <2>1. CASE reply = "granted"
    <3>1. session /\ granted /\ link = "up"
      BY <1>6, <2>1 DEF SubAck
    <3>2. connected' = TRUE /\ pc' = "pump" /\ reply' = "none" /\ link' = "up"
      BY <1>6, <2>1, <3>1 DEF SubAck, Announce
    <3>3. UNCHANGED <<running, stop, session, granted>>
      BY <1>6 DEF SubAck
    <3> QED BY <1>6, <3>1, <3>2, <3>3
  <2>2. CASE reply = "refused"
    <3>1. pc' = "backoff" /\ reply' = "none" /\ link' = "closed"
      BY <1>6, <2>2 DEF SubAck
    <3>2. UNCHANGED <<running, stop, session, granted, connected>>
      BY <1>6, <2>2 DEF SubAck
    <3> QED BY <1>6, <3>1, <3>2 DEF SubAck
  <2> QED BY <1>6, <2>1, <2>2 DEF SubAck
<1>7. CASE Backoff
  BY <1>7 DEF Backoff
<1>8. CASE TakeBatch
  BY <1>8 DEF TakeBatch
<1>9. CASE SendOne
  BY <1>9 DEF SendOne
<1>10. CASE SendFailed
  BY <1>10 DEF SendFailed
<1>11. CASE BatchSent
  BY <1>11 DEF BatchSent
<1>12. CASE ConnectionLost
  BY <1>12 DEF ConnectionLost
<1>13. CASE PumpDone
  BY <1>13 DEF PumpDone
<1>14. CASE Bye
  BY <1>14 DEF Bye
<1> QED BY <1>1, <1>2, <1>3, <1>4, <1>5, <1>6, <1>7, <1>8, <1>9, <1>10, <1>11, <1>12,
           <1>13, <1>14 DEF Thread
-----------------------------------------------------------------------------
(* The queue, the batch and what the broker retains.                       *)

Queues == QueueTypes /\ InLine

queueVars == <<clock, last, retained, outbound, batch>>

LEMMA TailOfQueue ==
  ASSUME NEW q \in Seq(Value), q # <<>>
  PROVE  /\ Tail(q) \in Seq(Value)
         /\ Len(Tail(q)) = Len(q) - 1 /\ Len(q) \in Nat \ {0}
         /\ DOMAIN q = 1..Len(q) /\ DOMAIN Tail(q) = 1..(Len(q) - 1)
         /\ \A i \in DOMAIN Tail(q) : i + 1 \in DOMAIN q /\ Tail(q)[i] = q[i + 1]
         /\ q[1] \in Value /\ 1 \in DOMAIN q
  OBVIOUS

LEMMA AppendToQueue ==
  ASSUME NEW q \in Seq(Value), NEW m \in Value
  PROVE  /\ Append(q, m) \in Seq(Value)
         /\ Len(Append(q, m)) = Len(q) + 1 /\ Len(q) \in Nat
         /\ DOMAIN q = 1..Len(q) /\ DOMAIN Append(q, m) = 1..(Len(q) + 1)
         /\ \A i \in DOMAIN q : Append(q, m)[i] = q[i]
         /\ Append(q, m)[Len(q) + 1] = m
         /\ Append(q, m) # <<>>
  OBVIOUS

LEMMA RevisionsAreNumbers ==
  ASSUME NEW q \in Seq(Value)
  PROVE  \A i \in DOMAIN q : q[i] \in Value /\ q[i].key \in Keys /\ q[i].revision \in Nat
<1>1. \A i \in DOMAIN q : q[i] \in Value
  OBVIOUS
<1> QED BY <1>1 DEF Value

\* A queue that loses its oldest message keeps its order.
LEMMA TailInLine ==
  ASSUME NEW q \in Seq(Value), q # <<>>, NEW b
  PROVE  /\ Rising(q) => Rising(Tail(q))
         /\ Behind(q) => Behind(Tail(q))
         /\ Pushed(q) => Pushed(Tail(q))
         /\ Before(b, q) => Before(b, Tail(q))
         /\ Before(q, b) => Before(Tail(q), b)
<1>1. /\ \A i \in DOMAIN Tail(q) : i + 1 \in DOMAIN q /\ Tail(q)[i] = q[i + 1]
      /\ DOMAIN Tail(q) \subseteq Int
  BY TailOfQueue
<1>2. Rising(q) => Rising(Tail(q))
  BY <1>1 DEF Rising
<1>3. Behind(q) => Behind(Tail(q))
  BY <1>1 DEF Behind
<1>4. Pushed(q) => Pushed(Tail(q))
  BY <1>1 DEF Pushed
<1>5. (Before(b, q) => Before(b, Tail(q))) /\ (Before(q, b) => Before(Tail(q), b))
  BY <1>1 DEF Before
<1> QED BY <1>2, <1>3, <1>4, <1>5

LEMMA Push_Queues == ASSUME NEW k \in Keys PROVE Queues /\ Push(k) => Queues'
<1> SUFFICES ASSUME Queues, Push(k) PROVE Queues'
  OBVIOUS
<1> DEFINE room == IF Len(outbound) < MaxOutbound THEN outbound ELSE Tail(outbound)
           m == [key |-> k, revision |-> clock + 1]
<1>1. /\ clock \in Nat /\ clock' = clock + 1 /\ clock' \in 0..MaxClock
      /\ last' = [last EXCEPT ![k] = clock + 1] /\ last' \in [Keys -> Nat]
      /\ outbound' = Append(room, m) /\ m \in Value
      /\ UNCHANGED <<batch, retained>>
  BY RelayAssumption
     DEF Push, PushOutbound, Queues, QueueTypes, Value, threadVars, brokerVars
<1>2. /\ room \in Seq(Value) /\ Len(room) < MaxOutbound
      /\ Rising(room) /\ Before(batch, room) /\ Behind(room) /\ Pushed(room)
  <2>1. CASE Len(outbound) < MaxOutbound
    BY <2>1 DEF Queues, QueueTypes, InLine
  <2>2. CASE ~(Len(outbound) < MaxOutbound)
    <3>1. outbound \in Seq(Value) /\ outbound # <<>> /\ Len(outbound) <= MaxOutbound
      BY <2>2, RelayAssumption DEF Queues, QueueTypes
    <3> QED BY <2>2, <3>1, TailOfQueue, TailInLine, RelayAssumption DEF Queues, InLine
  <2> QED BY <2>1, <2>2
<1> HIDE DEF room, m
<1>3. /\ outbound' \in Seq(Value) /\ Len(outbound') = Len(room) + 1 /\ Len(room) \in Nat
      /\ DOMAIN room = 1..Len(room) /\ DOMAIN outbound' = 1..(Len(room) + 1)
      /\ \A i \in DOMAIN room : outbound'[i] = room[i]
      /\ outbound'[Len(room) + 1] = m /\ outbound' # <<>>
  BY <1>1, <1>2, AppendToQueue
<1>4. m.key = k /\ m.revision = clock + 1
  BY DEF m
<1>5. \A i \in DOMAIN outbound' : i \in DOMAIN room \/ i = Len(room) + 1
  BY <1>3
<1>6. /\ \A i \in DOMAIN room : room[i].key \in Keys /\ room[i].revision \in Nat
      /\ \A i \in DOMAIN batch : batch[i].key \in Keys /\ batch[i].revision \in Nat
  BY <1>2, RevisionsAreNumbers DEF Queues, QueueTypes
<1>7. \A j \in Keys : /\ retained[j] \in Nat /\ last[j] \in Nat
                      /\ retained[j] <= last[j] /\ last[j] <= clock
                      /\ last'[j] = IF j = k THEN clock + 1 ELSE last[j]
  BY <1>1 DEF Queues, QueueTypes, InLine
<1>8. /\ \A i \in DOMAIN room : room[i].revision <= last[room[i].key]
      /\ \A i \in DOMAIN batch : batch[i].revision <= last[batch[i].key]
  BY <1>2 DEF Pushed, Queues, InLine
<1>9. /\ \A i \in DOMAIN room : room[i].revision < clock + 1 /\ room[i].revision <= last'[room[i].key]
      /\ \A i \in DOMAIN batch : batch[i].revision < clock + 1
                               /\ batch[i].revision <= last'[batch[i].key]
  BY <1>1, <1>6, <1>7, <1>8
<1>10. QueueTypes'
  BY <1>1, <1>2, <1>3, RelayAssumption DEF Queues, QueueTypes
<1>11. Rising(outbound')
  BY <1>2, <1>3, <1>4, <1>5, <1>9 DEF Rising
<1>12. Before(batch, outbound')
  BY <1>2, <1>3, <1>4, <1>5, <1>9 DEF Before
<1>13. \A i \in DOMAIN outbound', j \in Keys : retained[j] < outbound'[i].revision
  BY <1>1, <1>2, <1>3, <1>4, <1>5, <1>7 DEF Behind
<1>14. \A i \in DOMAIN outbound' : outbound'[i].revision <= last'[outbound'[i].key]
  BY <1>1, <1>3, <1>4, <1>5, <1>7, <1>9
<1>15. outbound'[Len(outbound')].revision = clock'
  BY <1>1, <1>3, <1>4
<1>16. \A j \in Keys : retained'[j] <= last'[j] /\ last'[j] <= clock'
  BY <1>1, <1>7
<1>17. Rising(batch) /\ Behind(batch)
  BY DEF Queues, InLine
<1> QED BY <1>1, <1>9, <1>10, <1>11, <1>12, <1>13, <1>14, <1>15, <1>16, <1>17
        DEF Queues, InLine, Rising, Before, Behind, Pushed

LEMMA SendOne_Queues == Queues /\ SendOne => Queues' /\ \A k \in Keys : retained'[k] >= retained[k]
<1> SUFFICES ASSUME Queues, SendOne
             PROVE  Queues' /\ \A k \in Keys : retained'[k] >= retained[k]
  OBVIOUS
<1>1. /\ batch # <<>> /\ batch' = Tail(batch)
      /\ retained' \in {retained, [retained EXCEPT ![batch[1].key] = batch[1].revision]}
      /\ UNCHANGED <<clock, last, outbound>>
  BY DEF SendOne, mainVars
<1>2. batch \in Seq(Value) /\ outbound \in Seq(Value)
  BY DEF Queues, QueueTypes
<1>3. /\ Rising(Tail(batch)) /\ Pushed(Tail(batch)) /\ Before(Tail(batch), outbound)
      /\ Tail(batch) \in Seq(Value) /\ Len(Tail(batch)) = Len(batch) - 1 /\ Len(batch) \in Nat
  BY <1>1, <1>2, TailInLine, TailOfQueue DEF Queues, InLine
<1>4. /\ batch[1].key \in Keys /\ batch[1].revision \in Nat /\ 1 \in DOMAIN batch
      /\ batch[1].revision <= last[batch[1].key]
      /\ \A i \in DOMAIN Tail(batch) : Tail(batch)[i].revision > batch[1].revision
      /\ \A i \in DOMAIN outbound : outbound[i].revision > batch[1].revision
  <2>1. 1 \in DOMAIN batch /\ batch[1].key \in Keys /\ batch[1].revision \in Nat
    BY <1>1, <1>2, TailOfQueue, RevisionsAreNumbers
  <2>2. \A i \in DOMAIN Tail(batch) : i + 1 \in DOMAIN batch /\ Tail(batch)[i] = batch[i + 1]
                                     /\ 1 < i + 1
    <3>1. DOMAIN Tail(batch) = 1..(Len(batch) - 1) /\ Len(batch) \in Nat
      BY <1>1, <1>2, TailOfQueue
    <3> QED BY <3>1, <1>1, <1>2, TailOfQueue
  <2>3. \A i \in DOMAIN Tail(batch) : batch[1].revision < Tail(batch)[i].revision
                                     /\ Tail(batch)[i].revision \in Nat
    BY <2>1, <2>2, <1>2, RevisionsAreNumbers DEF Queues, InLine, Rising
  <2>4. \A i \in DOMAIN outbound : batch[1].revision < outbound[i].revision
                                  /\ outbound[i].revision \in Nat
    BY <2>1, <1>2, RevisionsAreNumbers DEF Queues, InLine, Before
  <2> QED BY <2>1, <2>3, <2>4 DEF Queues, InLine, Pushed
<1>5. /\ retained' \in [Keys -> Nat]
      /\ \A k \in Keys : \/ retained'[k] = retained[k]
                         \/ k = batch[1].key /\ retained'[k] = batch[1].revision
  <2>1. retained \in [Keys -> Nat]
    BY DEF Queues, QueueTypes
  <2>2. CASE retained' = retained
    BY <2>1, <2>2
  <2>3. CASE retained' = [retained EXCEPT ![batch[1].key] = batch[1].revision]
    BY <1>4, <2>1, <2>3
  <2> QED BY <1>1, <2>2, <2>3
<1>6. \A k \in Keys : /\ retained[k] \in Nat /\ last[k] \in Nat
                      /\ retained[k] < batch[1].revision
                      /\ retained[k] <= last[k] /\ last[k] <= clock
  BY <1>4 DEF Queues, QueueTypes, InLine, Behind
<1>7. \A k \in Keys : retained'[k] >= retained[k] /\ retained'[k] <= last[k]
                     /\ retained'[k] <= batch[1].revision
  BY <1>4, <1>5, <1>6
<1>8. /\ \A i \in DOMAIN Tail(batch) : Tail(batch)[i].revision \in Nat
      /\ \A i \in DOMAIN outbound : outbound[i].revision \in Nat
  BY <1>2, <1>3, RevisionsAreNumbers
<1>9. /\ \A i \in DOMAIN Tail(batch), k \in Keys : retained'[k] < Tail(batch)[i].revision
      /\ \A i \in DOMAIN outbound, k \in Keys : retained'[k] < outbound[i].revision
  BY <1>4, <1>5, <1>7, <1>8
<1>10. QueueTypes'
  BY <1>1, <1>3, <1>5, RelayAssumption DEF Queues, QueueTypes
<1>11. InLine'
  BY <1>1, <1>3, <1>6, <1>7, <1>9 DEF Queues, InLine, Rising, Before, Behind, Pushed
<1> QED BY <1>7, <1>10, <1>11 DEF Queues

\* What is dropped, or handed over as a whole, leaves no gap in the order.
LEMMA Moved_Queues ==
  ASSUME Queues, UNCHANGED <<clock, last, retained>>,
         \/ outbound' = <<>> /\ batch' \in {<<>>, outbound}
         \/ outbound' = outbound /\ batch' \in {<<>>, batch}
  PROVE  Queues'
<1>1. Len(<<>>) = 0 /\ DOMAIN <<>> = {} /\ <<>> \in Seq(Value)
  OBVIOUS
<1>2. QueueTypes'
  <2>1. \A q \in {<<>>, outbound, batch} : q \in Seq(Value) /\ Len(q) <= MaxOutbound
    <3>1. <<>> \in Seq(Value) /\ Len(<<>>) <= MaxOutbound
      BY RelayAssumption
    <3> QED BY <3>1 DEF Queues, QueueTypes
  <2>2. outbound' \in {<<>>, outbound, batch} /\ batch' \in {<<>>, outbound, batch}
    OBVIOUS
  <2>3. /\ outbound' \in Seq(Value) /\ Len(outbound') <= MaxOutbound
        /\ batch' \in Seq(Value) /\ Len(batch') <= MaxOutbound
    BY <2>1, <2>2
  <2>4. clock' \in 0..MaxClock /\ last' \in [Keys -> Nat] /\ retained' \in [Keys -> Nat]
    BY DEF Queues, QueueTypes
  <2> QED BY <2>3, <2>4 DEF QueueTypes
<1>3. InLine'
  BY <1>1 DEF Queues, InLine, Rising, Before, Behind, Pushed
<1> QED BY <1>2, <1>3 DEF Queues

LEMMA Step_Queues == Queues /\ [RelayNext]_relayVars => Queues'
<1> SUFFICES ASSUME Queues, [RelayNext]_relayVars PROVE Queues'
  OBVIOUS
<1>1. CASE Start
  BY <1>1, Moved_Queues DEF Start, brokerVars
<1>2. CASE \E k \in Keys : Push(k)
  BY <1>2, Push_Queues
<1>3. CASE SendOne
  BY <1>3, SendOne_Queues
<1>4. CASE TakeBatch
  BY <1>4, Moved_Queues DEF TakeBatch, mainVars, brokerVars
<1>5. CASE SendFailed
  BY <1>5, Moved_Queues DEF SendFailed, mainVars, brokerVars
<1>6. CASE UNCHANGED queueVars
  BY <1>6, Moved_Queues DEF queueVars
<1>7. CASE RequestStop \/ Join \/ PopInbound \/ LinkChanges \/ Detect \/ FireWill
  BY <1>6, <1>7 DEF RequestStop, Join, PopInbound, LinkChanges, Detect, FireWill,
                    mainVars, threadVars, brokerVars, queueVars
<1>8. CASE (\E p \in Peers : PeerChanges(p)) \/ (\E m \in Traffic : Receive(m))
  BY <1>6, <1>8 DEF PeerChanges, Receive, mainVars, threadVars, brokerVars, queueVars
<1>9. CASE Top \/ Connect \/ ConnectFails \/ AwaitFails \/ ConnAck \/ Backoff
  BY <1>6, <1>9 DEF Top, Connect, ConnectFails, AwaitFails, ConnAck, Backoff, GoTo,
                    mainVars, brokerVars, queueVars
<1>10. CASE SubAck
  BY <1>6, <1>10 DEF SubAck, Announce, GoTo, mainVars, queueVars
<1>11. CASE BatchSent \/ ConnectionLost \/ PumpDone \/ Bye
  BY <1>6, <1>11 DEF BatchSent, ConnectionLost, PumpDone, Bye, GoTo, mainVars, brokerVars,
                     queueVars
<1>12. CASE UNCHANGED relayVars
  BY <1>6, <1>12 DEF relayVars, mainVars, threadVars, brokerVars, queueVars
<1> QED BY <1>1, <1>2, <1>3, <1>4, <1>5, <1>7, <1>8, <1>9, <1>10, <1>11, <1>12
        DEF RelayNext, Thread
-----------------------------------------------------------------------------
(* What comes in, and the bounds of the counters.                          *)

LEMMA Receive_Peers ==
  ASSUME PeerTypes, NEW m \in Traffic, Receive(m)
  PROVE  PeerTypes'
<1>1. m \in Arrived
  BY DEF Traffic, Arrived
<1>2. HandlePublish(m)
  BY DEF Receive
<1>3. CASE m.topic = "@presence"
  <2>1. inbound' = inbound /\ peers' \subseteq Peers \cup {Self} /\ Self \notin peers'
    BY <1>1, <1>2, <1>3 DEF HandlePublish, PeerTypes, OwnNeverComesBack, Arrived
  <2> QED BY <2>1 DEF PeerTypes, OwnNeverComesBack
<1>4. CASE m.topic # "@presence"
  <2>1. peers' = peers
    BY <1>2, <1>4 DEF HandlePublish
  <2>2. CASE m.from # Self /\ Len(inbound) < MaxInbound
    <3>1. inbound' = Append(inbound, m) /\ inbound \in Seq(Arrived)
      BY <1>2, <1>4, <2>2 DEF HandlePublish, PeerTypes
    <3>2. /\ inbound' \in Seq(Arrived) /\ Len(inbound') = Len(inbound) + 1
          /\ Len(inbound) \in Nat /\ DOMAIN inbound' = 1..(Len(inbound) + 1)
          /\ \A i \in 1..Len(inbound) : inbound'[i] = inbound[i]
          /\ inbound'[Len(inbound) + 1] = m /\ DOMAIN inbound = 1..Len(inbound)
      BY <1>1, <3>1
    <3>3. \A i \in DOMAIN inbound' : i \in 1..Len(inbound) \/ i = Len(inbound) + 1
      BY <3>2
    <3>4. \A i \in DOMAIN inbound' : inbound'[i].from # Self
      BY <2>2, <3>2, <3>3 DEF PeerTypes, OwnNeverComesBack
    <3>5. Len(inbound') <= MaxInbound
      BY <2>2, <3>2, RelayAssumption
    <3> QED BY <2>1, <3>2, <3>4, <3>5 DEF PeerTypes, OwnNeverComesBack
  <2>3. CASE ~(m.from # Self /\ Len(inbound) < MaxInbound)
    BY <1>2, <1>4, <2>1, <2>3 DEF HandlePublish, PeerTypes, OwnNeverComesBack
  <2> QED BY <2>2, <2>3
<1> QED BY <1>3, <1>4

LEMMA Step_Peers == PeerTypes /\ [RelayNext]_relayVars => PeerTypes'
<1> SUFFICES ASSUME PeerTypes, [RelayNext]_relayVars PROVE PeerTypes'
  OBVIOUS
<1>1. CASE Start
  BY <1>1, RelayAssumption DEF Start, PeerTypes, OwnNeverComesBack
<1>2. CASE PopInbound
  <2>1. inbound \in Seq(Arrived) /\ inbound # <<>> /\ inbound' = Tail(inbound) /\ peers' = peers
    BY <1>2 DEF PopInbound, PeerTypes, threadVars
  <2>2. /\ inbound' \in Seq(Arrived) /\ Len(inbound') = Len(inbound) - 1 /\ Len(inbound) \in Nat
        /\ \A i \in DOMAIN inbound' : i + 1 \in DOMAIN inbound /\ inbound'[i] = inbound[i + 1]
    BY <2>1
  <2> QED BY <2>1, <2>2, RelayAssumption DEF PeerTypes, OwnNeverComesBack
<1>3. CASE \E m \in Traffic : Receive(m)
  BY <1>3, Receive_Peers
<1>4. CASE UNCHANGED <<inbound, peers>>
  BY <1>4 DEF PeerTypes, OwnNeverComesBack
<1>5. CASE RequestStop \/ Join \/ LinkChanges \/ Detect \/ FireWill
  BY <1>4, <1>5 DEF RequestStop, Join, LinkChanges, Detect, FireWill, threadVars
<1>6. CASE (\E k \in Keys : Push(k)) \/ (\E p \in Peers : PeerChanges(p))
  BY <1>4, <1>6 DEF Push, PeerChanges, threadVars
<1>7. CASE Top \/ Connect \/ ConnectFails \/ AwaitFails \/ ConnAck \/ SubAck \/ Backoff
  BY <1>4, <1>7 DEF Top, Connect, ConnectFails, AwaitFails, ConnAck, SubAck, Backoff, GoTo,
                    Announce
<1>8. CASE \/ TakeBatch \/ SendOne \/ SendFailed \/ BatchSent
           \/ ConnectionLost \/ PumpDone \/ Bye
  BY <1>4, <1>8 DEF TakeBatch, SendOne, SendFailed, BatchSent, ConnectionLost, PumpDone, Bye,
                    GoTo
<1>9. CASE UNCHANGED relayVars
  BY <1>4, <1>9 DEF relayVars, threadVars
<1> QED BY <1>1, <1>2, <1>3, <1>5, <1>6, <1>7, <1>8, <1>9 DEF RelayNext, Thread

LEMMA Step_Counters == Counters /\ [RelayNext]_relayVars => Counters'
<1> SUFFICES ASSUME Counters, [RelayNext]_relayVars PROVE Counters'
  OBVIOUS
<1>1. CASE Start
  BY <1>1, RelayAssumption DEF Start, Counters, linkVars
<1>2. CASE UNCHANGED starts /\ (Fault \/ UNCHANGED faults)
  BY <1>2, RelayAssumption DEF Fault, Counters
<1>3. CASE RequestStop \/ Join \/ PopInbound \/ LinkChanges \/ Detect \/ FireWill
  BY <1>2, <1>3 DEF RequestStop, Join, PopInbound, LinkChanges, Detect, FireWill, mainVars,
                    linkVars
<1>4. CASE \/ \E k \in Keys : Push(k)
           \/ \E p \in Peers : PeerChanges(p)
           \/ \E m \in Traffic : Receive(m)
  BY <1>2, <1>4 DEF Push, PeerChanges, Receive, mainVars, linkVars
<1>5. CASE Top \/ Connect \/ ConnectFails \/ AwaitFails \/ ConnAck \/ SubAck \/ Backoff
  BY <1>2, <1>5 DEF Top, Connect, ConnectFails, AwaitFails, ConnAck, SubAck, Backoff,
                    mainVars, linkVars
<1>6. CASE \/ TakeBatch \/ SendOne \/ SendFailed \/ BatchSent
           \/ ConnectionLost \/ PumpDone \/ Bye
  BY <1>2, <1>6 DEF TakeBatch, SendOne, SendFailed, BatchSent, ConnectionLost, PumpDone, Bye,
                    mainVars, linkVars
<1>7. CASE UNCHANGED relayVars
  BY <1>2, <1>7 DEF relayVars, mainVars, linkVars
<1> QED BY <1>1, <1>3, <1>4, <1>5, <1>6, <1>7 DEF RelayNext, Thread

LEMMA Step_Control == Control /\ [RelayNext]_relayVars => Control'
<1> SUFFICES ASSUME Control, [RelayNext]_relayVars PROVE Control'
  OBVIOUS
<1>1. CASE \E m \in Traffic : Receive(m)
  BY <1>1 DEF Receive, mainVars, linkVars, brokerVars, Control, ControlTypes, ThreadControl,
              Subscribed, Alive
<1>2. CASE UNCHANGED relayVars
  BY <1>2 DEF relayVars, mainVars, threadVars, linkVars, brokerVars, Control, ControlTypes,
              ThreadControl, Subscribed, Alive
<1> QED BY <1>1, <1>2, Outside_Control, Thread_Control DEF RelayNext, Outside
-----------------------------------------------------------------------------
LEMMA Step_Inv == RelayInv /\ [RelayNext]_relayVars => RelayInv'
<1> SUFFICES ASSUME RelayInv, [RelayNext]_relayVars PROVE RelayInv'
  OBVIOUS
<1>1. Control' /\ Queues'
  BY Step_Control, Step_Queues DEF RelayInv, Control, Queues
<1>2. PeerTypes' /\ Counters'
  BY Step_Peers, Step_Counters DEF RelayInv
<1> QED BY <1>1, <1>2 DEF RelayInv, Control, Queues

\* Whatever the connection, the broker and the main thread do, the thread's
\* state, the broker's session and the queues stay in step: this is the
\* inductive invariant the theorems below rest on.
THEOREM RelayInvariant == RelaySpec => []RelayInv
  BY Init_Inv, Step_Inv, PTL DEF RelaySpec

\* Neither queue outgrows its limit, no value retained is newer than what was
\* pushed, the thread runs exactly while m_running says so, and none of our own
\* messages comes back as a peer's.
THEOREM RelayTypeCorrect == RelaySpec => []RelayTypeOK
<1>1. RelayInv => RelayTypeOK
  <2> SUFFICES ASSUME RelayInv PROVE RelayTypeOK
    OBVIOUS
  <2>1. \A k \in Keys : 0 <= retained[k] /\ retained[k] <= last[k] /\ last[k] <= clock
    BY DEF RelayInv, QueueTypes, InLine
  <2>2. pc \in {"off", "top", "connect", "backoff", "ended"} => reply = NoReply
    BY DEF RelayInv, ThreadControl, Waiting
  <2>3. pc = "off" <=> ~running
    BY DEF RelayInv, ThreadControl
  <2>4. /\ Len(outbound) <= MaxOutbound /\ Len(batch) <= MaxOutbound
        /\ clock \in 0..MaxClock /\ faults \in 0..MaxFaults /\ starts \in 0..MaxStarts
    BY DEF RelayInv, QueueTypes, Counters
  <2>5. Len(inbound) <= MaxInbound /\ peers \subseteq Peers \cup {Self} /\ OwnNeverComesBack
    BY DEF RelayInv, PeerTypes
  <2>6. /\ running \in BOOLEAN /\ stop \in BOOLEAN /\ connected \in BOOLEAN
        /\ session \in BOOLEAN /\ granted \in BOOLEAN
        /\ link \in {"closed", "up", "stalled", "cut", "dead"}
    BY DEF RelayInv, ControlTypes
  <2> QED BY <2>1, <2>2, <2>3, <2>4, <2>5, <2>6 DEF RelayTypeOK
<1> QED BY <1>1, RelayInvariant, PTL

\* The queue ends with the latest value pushed, and what waits in the batch and
\* in the queue is in the order in which it was pushed, for any limit.
THEOREM NewestIsKept == RelaySpec => []QueueKeepsNewest
<1>1. RelayInv => QueueKeepsNewest
  <2> SUFFICES ASSUME RelayInv PROVE QueueKeepsNewest
    OBVIOUS
  <2> DEFINE waiting == batch \o outbound
  <2>1. batch \in Seq(Value) /\ outbound \in Seq(Value)
    BY DEF RelayInv, QueueTypes
  <2>2. /\ DOMAIN waiting = 1..(Len(batch) + Len(outbound))
        /\ \A i \in DOMAIN waiting :
              waiting[i] = IF i <= Len(batch) THEN batch[i] ELSE outbound[i - Len(batch)]
        /\ DOMAIN batch = 1..Len(batch) /\ DOMAIN outbound = 1..Len(outbound)
        /\ Len(batch) \in Nat /\ Len(outbound) \in Nat
    BY <2>1, ConcatProperties, LenProperties
  <2> HIDE DEF waiting
  <2>3. \A i, j \in DOMAIN waiting : i < j => waiting[i].revision < waiting[j].revision
    <3> SUFFICES ASSUME NEW i \in DOMAIN waiting, NEW j \in DOMAIN waiting, i < j
                 PROVE  waiting[i].revision < waiting[j].revision
      OBVIOUS
    <3>1. CASE j <= Len(batch)
      BY <2>2, <3>1 DEF RelayInv, InLine, Rising
    <3>2. CASE i <= Len(batch) /\ ~(j <= Len(batch))
      <4>1. i \in DOMAIN batch /\ j - Len(batch) \in DOMAIN outbound
        BY <2>2, <3>2
      <4> QED BY <2>2, <3>2, <4>1 DEF RelayInv, InLine, Before
    <3>3. CASE ~(i <= Len(batch))
      <4>1. /\ i - Len(batch) \in DOMAIN outbound /\ j - Len(batch) \in DOMAIN outbound
            /\ i - Len(batch) < j - Len(batch) /\ ~(j <= Len(batch))
        BY <2>2, <3>3
      <4> QED BY <2>2, <3>3, <4>1 DEF RelayInv, InLine, Rising
    <3> QED BY <2>2, <3>1, <3>2, <3>3
  <2>4. outbound # <<>> => outbound[Len(outbound)].revision = clock
    BY DEF RelayInv, InLine
  <2> QED BY <2>3, <2>4 DEF QueueKeepsNewest, waiting
<1> QED BY <1>1, RelayInvariant, PTL

\* A relay that says it is connected, on a link that is up, has a subscription.
THEOREM NeverDeaf == RelaySpec => []ConnectedMeansSubscribed
<1>1. RelayInv => ConnectedMeansSubscribed
  BY DEF RelayInv, Subscribed, Alive, ConnectedMeansSubscribed
<1> QED BY <1>1, RelayInvariant, PTL

\* The broker never goes back to an older value, whatever was lost in between.
THEOREM NeverBackwards == RelaySpec => RetainedForward
<1> DEFINE Forward == \A k \in Keys : retained'[k] >= retained[k]
<1>1. RelayInv /\ [RelayNext]_relayVars => [Forward]_relayVars
  <2> SUFFICES ASSUME RelayInv, RelayNext PROVE Forward
    OBVIOUS
  <2>1. CASE SendOne
    BY <2>1, SendOne_Queues DEF RelayInv, Queues
  <2>2. CASE UNCHANGED retained
    BY <2>2 DEF RelayInv, QueueTypes
  <2>3. SendOne \/ UNCHANGED retained
    BY DEF RelayNext, Thread, Start, RequestStop, Join, PopInbound, Push, Receive, LinkChanges,
           Detect, FireWill, PeerChanges, Top, Connect, ConnectFails, AwaitFails, ConnAck,
           SubAck, Backoff, TakeBatch, SendFailed, BatchSent, ConnectionLost, PumpDone, Bye,
           brokerVars
  <2> QED BY <2>1, <2>2, <2>3
<1> QED BY <1>1, RelayInvariant, PTL DEF RelaySpec, RetainedForward
=============================================================================
