-------------------------------- MODULE Relay --------------------------------
(***************************************************************************)
(* src/Relay.cpp: the thread that keeps the connection to the broker, the  *)
(* two queues it shares with the main thread, and the main thread's side   *)
(* of them.  The connection, the broker and the other controllers are the  *)
(* environment.                                                            *)
(*                                                                         *)
(* A link that was cut is not yet known to be: what is sent on it goes     *)
(* into the void and nothing comes, until the socket is dead.  A link that *)
(* is stalled is up, but the broker does not read and nothing comes.       *)
(***************************************************************************)
EXTENDS Integers, Sequences
LOCAL INSTANCE SequencesExt

CONSTANTS Keys,         \* the topics below our own prefix
          Self,         \* m_config.controller
          Peers,        \* the other controllers of the room
          MaxOutbound,  \* kMaxOutboundQueue
          MaxInbound,   \* kMaxInboundQueue
          MaxClock,     \* bound: values ever pushed
          MaxFaults,    \* bound: cuts, stalls and refusals of the broker
          MaxStarts     \* bound: how often the bridge is added

ASSUME RelayAssumption ==
    /\ Self \notin Peers
    /\ MaxOutbound \in Nat \ {0} /\ MaxInbound \in Nat
    /\ MaxClock \in Nat /\ MaxFaults \in Nat /\ MaxStarts \in Nat

VARIABLES
    \* the main thread
    running,    \* m_running
    stop,       \* m_stop
    starts,     \* how often Start was called
    last,       \* history: the last revision pushed of each key, 0 for none
    clock,      \* how many values were pushed
    \* the relay thread
    pc,         \* where ThreadMain is
    batch,      \* the messages PumpOutbound took and has not sent
    connected,  \* m_connected
    peers,      \* m_peers
    \* the queues
    outbound,   \* m_outbound
    inbound,    \* m_inbound
    \* the connection
    link,       \* closed, up, stalled, cut or dead
    reply,      \* the broker's answer that is on its way
    faults,     \* how many there were
    \* the broker
    session,    \* it holds a session of ours, with its will
    granted,    \* and a subscription in it
    retained,   \* the revision retained under each key, 0 for none
    present     \* the controllers whose presence is retained

mainVars == <<running, stop, starts, last, clock>>
threadVars == <<pc, batch, connected, peers>>
linkVars == <<link, reply, faults>>
brokerVars == <<session, granted, retained, present>>
relayVars == <<mainVars, threadVars, outbound, inbound, linkVars, brokerVars>>

NoReply == "none"

RelayInit ==
    /\ running = FALSE /\ stop = FALSE /\ starts = 0
    /\ last = [k \in Keys |-> 0] /\ clock = 0
    /\ pc = "off" /\ batch = <<>> /\ connected = FALSE /\ peers = {}
    /\ outbound = <<>> /\ inbound = <<>>
    /\ link = "closed" /\ reply = NoReply /\ faults = 0
    /\ session = FALSE /\ granted = FALSE
    /\ retained = [k \in Keys |-> 0] /\ present = {}
-----------------------------------------------------------------------------
(* The main thread.  It waits in Stop until the thread has ended.           *)

\* The bridge is added: a new Relay with empty queues is started.
Start ==
    /\ ~running
    /\ starts < MaxStarts
    /\ starts' = starts + 1
    /\ running' = TRUE /\ stop' = FALSE
    /\ pc' = "top" /\ batch' = <<>> /\ connected' = FALSE /\ peers' = {}
    /\ outbound' = <<>> /\ inbound' = <<>>
    /\ UNCHANGED <<last, clock, linkVars, brokerVars>>

\* Mutant: the value that comes last finds the queue full.
PushOutbound_DropNewest(m) ==
    outbound' = IF Len(outbound) < MaxOutbound THEN Append(outbound, m) ELSE outbound

\* Mutant: the limit is noticed one message late.
PushOutbound_OneMore(m) ==
    outbound' = Append(IF Len(outbound) <= MaxOutbound THEN outbound ELSE Tail(outbound), m)

\* The oldest goes when the queue is full.
PushOutbound(m) ==
    outbound' = Append(IF Len(outbound) < MaxOutbound THEN outbound ELSE Tail(outbound), m)

Push(k) ==
    /\ running /\ ~stop
    /\ clock < MaxClock
    /\ clock' = clock + 1
    /\ last' = [last EXCEPT ![k] = clock']
    /\ PushOutbound([key |-> k, revision |-> clock'])
    /\ UNCHANGED <<running, stop, starts, threadVars, inbound, linkVars, brokerVars>>

PopInbound ==
    /\ running /\ ~stop
    /\ inbound # <<>>
    /\ inbound' = Tail(inbound)
    /\ UNCHANGED <<mainVars, threadVars, outbound, linkVars, brokerVars>>

RequestStop ==
    /\ running /\ ~stop
    /\ stop' = TRUE
    /\ UNCHANGED <<running, starts, last, clock, threadVars, outbound, inbound,
                   linkVars, brokerVars>>

\* join returns.
Join ==
    /\ stop
    /\ pc = "ended"
    /\ running' = FALSE
    /\ connected' = FALSE
    /\ pc' = "off"
    /\ UNCHANGED <<stop, starts, last, clock, batch, peers, outbound, inbound,
                   linkVars, brokerVars>>
-----------------------------------------------------------------------------
(* The connection and the broker.                                          *)

\* A packet handed to the socket reaches the broker.
Delivered == link = "up"

\* Send does not return while the broker reads nothing; it fails on a dead link.
CanSend == link # "stalled"
SendFails == link = "dead"

Fault == faults < MaxFaults /\ faults' = faults + 1

LinkChanges ==
    /\ \/ link \in {"up", "stalled"} /\ Fault /\ link' = "cut"
       \/ link = "up" /\ Fault /\ link' = "stalled"
       \/ link = "stalled" /\ link' = "up" /\ UNCHANGED faults
    /\ UNCHANGED <<mainVars, threadVars, outbound, inbound, reply, brokerVars>>

\* TCP finds out.
Detect ==
    /\ link = "cut"
    /\ link' = "dead"
    /\ UNCHANGED <<mainVars, threadVars, outbound, inbound, reply, faults, brokerVars>>

\* The broker misses a client that did not say goodbye and publishes the will.
FireWill ==
    /\ session /\ link \notin {"up", "stalled"}
    /\ session' = FALSE /\ granted' = FALSE
    /\ present' = present \ {Self}
    /\ UNCHANGED <<mainVars, threadVars, outbound, inbound, linkVars, retained>>

\* Another controller enters or leaves the room.
PeerChanges(p) ==
    /\ present' = IF p \in present THEN present \ {p} ELSE present \cup {p}
    /\ UNCHANGED <<mainVars, threadVars, outbound, inbound, linkVars,
                   session, granted, retained>>

\* What may be delivered under a subscription to the whole room: values of
\* every controller, our own among them, and presence.
Traffic ==
    [from : {p \in Peers \cup {Self} : p = Self => \E k \in Keys : retained[k] # 0},
     topic : {"value"}]
    \cup [from : Peers \cup {Self}, topic : {"@presence"}]
-----------------------------------------------------------------------------
(* The relay thread.                                                        *)

\* Transport::Close; what was on its way is gone with the socket.
Close == link' = "closed" /\ reply' = NoReply

GoTo(step) == pc' = step /\ UNCHANGED <<batch, connected, peers>>

\* Mutant: the loop does not look at m_stop while there is no connection.
Top_IgnoresStop ==
    /\ pc = "top"
    /\ GoTo(IF link = "closed" THEN "connect" ELSE IF stop THEN "bye" ELSE "pump")
    /\ UNCHANGED <<mainVars, outbound, inbound, linkVars, brokerVars>>

\* The condition of the loop, and whether there is a connection.
Top ==
    /\ pc = "top"
    /\ GoTo(IF stop THEN "bye" ELSE IF link = "closed" THEN "connect" ELSE "pump")
    /\ UNCHANGED <<mainVars, outbound, inbound, linkVars, brokerVars>>

\* Connect and CONNECT.  The broker ends a session it still holds for the same
\* client, whose will it publishes.
Connect ==
    /\ pc = "connect"
    /\ GoTo("connack")
    /\ link' = "up"
    /\ session' = TRUE /\ granted' = FALSE
    /\ present' = present \ {Self}
    /\ reply' = "welcome"
    /\ UNCHANGED <<mainVars, outbound, inbound, faults, retained>>

\* The host is not reached, or the broker turns us down.
ConnectFails ==
    /\ pc = "connect"
    /\ Fault
    /\ GoTo("backoff")
    /\ UNCHANGED <<mainVars, outbound, inbound, link, reply, brokerVars>>

\* Nothing has come within the deadline, or the thread is told to stop.
AwaitFails ==
    /\ pc \in {"connack", "suback"}
    /\ stop \/ link # "up"
    /\ Close
    /\ GoTo("backoff")
    /\ UNCHANGED <<mainVars, outbound, inbound, faults, brokerVars>>

\* CONNACK, and SUBSCRIBE; the broker grants the filter or not.
ConnAck ==
    /\ pc = "connack"
    /\ ~stop /\ link = "up"
    /\ GoTo("suback")
    /\ \/ granted' = TRUE /\ reply' = "granted" /\ UNCHANGED faults
       \/ granted' = FALSE /\ reply' = "refused" /\ Fault
    /\ UNCHANGED <<mainVars, outbound, inbound, link, session, retained, present>>

\* Presence goes out; whether it does is not looked at.
Announce ==
    /\ present' = IF Delivered THEN present \cup {Self} ELSE present
    /\ connected' = TRUE
    /\ pc' = "pump"
    /\ UNCHANGED <<batch, peers>>

\* Mutant: any SUBACK will do.
SubAck_Assumed ==
    /\ pc = "suback"
    /\ ~stop /\ link = "up"
    /\ reply' = NoReply
    /\ Announce
    /\ UNCHANGED <<mainVars, outbound, inbound, link, faults, session, granted, retained>>

\* The SUBACK must be checked, not assumed.
SubAck ==
    /\ pc = "suback"
    /\ ~stop /\ link = "up"
    /\ \/ reply = "granted" /\ Announce /\ reply' = NoReply /\ UNCHANGED link
       \/ reply = "refused" /\ GoTo("backoff") /\ Close /\ UNCHANGED present
    /\ UNCHANGED <<mainVars, outbound, inbound, faults, session, granted, retained>>

\* The wait ends early when the thread is told to stop.
Backoff ==
    /\ pc = "backoff"
    /\ GoTo("top")
    /\ UNCHANGED <<mainVars, outbound, inbound, linkVars, brokerVars>>

TakeBatch ==
    /\ pc = "pump"
    /\ batch' = outbound
    /\ outbound' = <<>>
    /\ pc' = "sending"
    /\ UNCHANGED <<mainVars, connected, peers, inbound, linkVars, brokerVars>>

\* Mutant: the batch is sent from its end.
SendOne_LastFirst ==
    /\ pc = "sending"
    /\ batch # <<>>
    /\ CanSend /\ ~SendFails
    /\ batch' = Front(batch)
    /\ retained' = IF Delivered
                   THEN [retained EXCEPT ![Last(batch).key] = Last(batch).revision]
                   ELSE retained
    /\ UNCHANGED <<mainVars, pc, connected, peers, outbound, inbound, linkVars,
                   session, granted, present>>

\* A batch goes in its order; what is sent on a cut link is lost.
SendOne ==
    /\ pc = "sending"
    /\ batch # <<>>
    /\ CanSend /\ ~SendFails
    /\ batch' = Tail(batch)
    /\ retained' = IF Delivered
                   THEN [retained EXCEPT ![batch[1].key] = batch[1].revision]
                   ELSE retained
    /\ UNCHANGED <<mainVars, pc, connected, peers, outbound, inbound, linkVars,
                   session, granted, present>>

\* The rest of the batch is gone.
SendFailed ==
    /\ pc = "sending"
    /\ batch # <<>>
    /\ SendFails
    /\ batch' = <<>>
    /\ connected' = FALSE
    /\ pc' = "pumpIn"
    /\ UNCHANGED <<mainVars, peers, outbound, inbound, linkVars, brokerVars>>

BatchSent ==
    /\ pc = "sending"
    /\ batch = <<>>
    /\ pc' = "pumpIn"
    /\ UNCHANGED <<mainVars, batch, connected, peers, outbound, inbound, linkVars, brokerVars>>
-----------------------------------------------------------------------------
(* What arrives.                                                            *)

\* Mutant: our own messages are not told from others'.
HandlePublish_Echoes(m) ==
    IF m.topic = "@presence"
    THEN /\ peers' = IF m.from \in present THEN peers \cup {m.from} ELSE peers \ {m.from}
         /\ UNCHANGED inbound
    ELSE /\ inbound' = IF Len(inbound) < MaxInbound THEN Append(inbound, m) ELSE inbound
         /\ UNCHANGED peers

\* Presence moves m_peers; a value of another controller is queued, or shed
\* when the queue is full.
HandlePublish(m) ==
    IF m.topic = "@presence"
    THEN /\ peers' = IF m.from \notin present THEN peers \ {m.from}
                     ELSE IF m.from # Self THEN peers \cup {m.from} ELSE peers
         /\ UNCHANGED inbound
    ELSE /\ inbound' = IF m.from # Self /\ Len(inbound) < MaxInbound
                       THEN Append(inbound, m) ELSE inbound
         /\ UNCHANGED peers

\* Retained messages may come before the SUBACK.
Receive(m) ==
    /\ pc \in {"suback", "pumpIn"}
    /\ link = "up" /\ granted
    /\ pc = "suback" => ~stop
    /\ HandlePublish(m)
    /\ UNCHANGED <<mainVars, pc, batch, connected, outbound, linkVars, brokerVars>>

\* Mutant: a connection that failed is left open.
ConnectionLost_LeftOpen ==
    /\ pc = "pumpIn"
    /\ link = "dead"
    /\ connected' = FALSE
    /\ pc' = "top"
    /\ UNCHANGED <<mainVars, batch, peers, outbound, inbound, linkVars, brokerVars>>

\* PumpInbound fails.
ConnectionLost ==
    /\ pc = "pumpIn"
    /\ link = "dead"
    /\ connected' = FALSE
    /\ Close
    /\ pc' = "top"
    /\ UNCHANGED <<mainVars, batch, peers, outbound, inbound, faults, brokerVars>>

\* Nothing more has come.  A PINGREQ that is due is left out: it fails, or waits
\* on a stalled link, as the next Send or Recv does.
PumpDone ==
    /\ pc = "pumpIn"
    /\ link # "dead"
    /\ GoTo("top")
    /\ UNCHANGED <<mainVars, outbound, inbound, linkVars, brokerVars>>

\* DISCONNECT, which discards the will, and the end of the thread.
Bye ==
    /\ pc = "bye"
    /\ CanSend
    /\ session' = (session /\ ~Delivered)
    /\ granted' = (granted /\ ~Delivered)
    /\ Close
    /\ connected' = FALSE
    /\ pc' = "ended"
    /\ UNCHANGED <<mainVars, batch, peers, outbound, inbound, faults, retained, present>>
-----------------------------------------------------------------------------
Thread ==
    \/ Top \/ Connect \/ ConnectFails \/ AwaitFails \/ ConnAck \/ SubAck \/ Backoff
    \/ TakeBatch \/ SendOne \/ SendFailed \/ BatchSent
    \/ ConnectionLost \/ PumpDone \/ Bye

RelayNext ==
    \/ Start \/ RequestStop \/ Join \/ PopInbound
    \/ \E k \in Keys : Push(k)
    \/ Thread
    \/ \E m \in Traffic : Receive(m)
    \/ LinkChanges \/ Detect \/ FireWill
    \/ \E p \in Peers : PeerChanges(p)

RelaySpec == RelayInit /\ [][RelayNext]_relayVars

\* The operating system runs the thread, TCP gives up on a link that was cut,
\* and join returns.  Nothing makes a stalled broker read again, and nothing
\* makes the controller add or remove the bridge.
RelayFairSpec ==
    /\ RelaySpec
    /\ WF_relayVars(Thread) /\ WF_relayVars(Detect) /\ WF_relayVars(Join)
-----------------------------------------------------------------------------
(* Properties.                                                             *)

\* Our own retained messages, which the broker sends back, never reach the
\* registry as a peer's; nor do we become a peer of our own.
OwnNeverComesBack ==
    /\ \A i \in DOMAIN inbound : inbound[i].from # Self
    /\ Self \notin peers

RelayTypeOK ==
    /\ running \in BOOLEAN /\ stop \in BOOLEAN /\ connected \in BOOLEAN
    /\ session \in BOOLEAN /\ granted \in BOOLEAN
    /\ pc = "off" <=> ~running
    /\ Len(outbound) <= MaxOutbound /\ Len(batch) <= MaxOutbound
    /\ Len(inbound) <= MaxInbound
    /\ clock \in 0..MaxClock
    /\ \A k \in Keys : 0 <= retained[k] /\ retained[k] <= last[k] /\ last[k] <= clock
    /\ link \in {"closed", "up", "stalled", "cut", "dead"}
    /\ pc \in {"off", "top", "connect", "backoff", "ended"} => reply = NoReply
    /\ faults \in 0..MaxFaults /\ starts \in 0..MaxStarts
    /\ peers \subseteq Peers \cup {Self}
    /\ OwnNeverComesBack

\* src/Relay.cpp:118-119, "Dropping the oldest keeps the newest state moving":
\* the queue ends with the latest value pushed, and a key's values wait in the
\* order they were pushed.
QueueKeepsNewest ==
    /\ outbound # <<>> => outbound[Len(outbound)].revision = clock
    /\ LET waiting == batch \o outbound
       IN  \A i, j \in DOMAIN waiting :
              i < j /\ waiting[i].key = waiting[j].key =>
                  waiting[i].revision < waiting[j].revision

\* The value the broker retains never gives way to an older one, across lost
\* connections, lost batches and restarts of the thread.
RetainedForward == [][\A k \in Keys : retained'[k] >= retained[k]]_relayVars

\* src/Relay.cpp:347-351: when the relay says it is connected and the link is
\* up, the broker has granted the room's topics: it is never deaf.
ConnectedMeansSubscribed == connected /\ link = "up" => session /\ granted

\* Removing the bridge does not hang EuroScope: from any state the thread could
\* be in, join returns, unless the broker stops reading for good.
StopReturns == []<>(link # "stalled") => (stop ~> ~running)

\* When faults have ceased, a thread that is not told to stop ends up connected.
Recovers == []<>(link # "stalled") => <>[](~running \/ stop \/ connected)
=============================================================================
