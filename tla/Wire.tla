---------------------------------- MODULE Wire ----------------------------------
(***************************************************************************)
(* The octets between the relay thread and the broker: src/Transport.cpp    *)
(* with its TLS handshake, records and partial transfers, composed with     *)
(* the codec and with the loops of src/Relay.cpp that feed it.              *)
(*                                                                         *)
(* On a TLS connection the network carries records: a header, which is a    *)
(* number from 256 on, and as many octets as it says.  SChannel is modelled *)
(* by what the code expects of it.  A packet is handed on when Decode has   *)
(* taken it off m_rx.                                                       *)
(***************************************************************************)
EXTENDS MqttCodec

CONSTANTS Scripts,        \* what the broker may say on a connection
          Connects,       \* the CONNECT packets the configuration may ask for
          Subscribe,      \* the SUBSCRIBE that follows CONNACK
          Wanted,         \* the packets the relay has to say once subscribed
          Modes,          \* subset of BOOLEAN: m_config.tls
          Tokens,         \* handshake messages of the server
          MaxIterations,  \* the limit of the handshake, 32 in the code
          MaxMessage,     \* m_tlsMaxMsg
          MaxRecv,        \* the size of the buffer passed to Recv
          Window,         \* bound: octets on their way to us
          MaxRecord,      \* bound: octets the broker sends at a time
          SendSizes,      \* bound: how many octets ::send takes, if not all
          MaxFaults,      \* bound: cuts, rejections and deadlines
          MaxConns        \* bound: connections

ASSUME WireAssumption ==
    /\ Modes \subseteq BOOLEAN
    /\ {Tokens, MaxIterations, MaxMessage, MaxRecv, MaxRecord} \cup SendSizes
           \subseteq Nat \ {0}
    /\ {Window, MaxFaults, MaxConns} \subseteq Nat
    /\ Wanted \in Seq(ToSet(Wanted)) \ {<<>>}

\* A broker says nothing before CONNECT, and each packet after the one before.
ASSUME ScriptsAssumption ==
    \A s \in Scripts :
        /\ Len(s) \in Nat /\ DOMAIN s = 1..Len(s)
        /\ \A i \in DOMAIN s : s[i].after \in Nat \ {0}
        /\ \A i, j \in DOMAIN s : i <= j => s[i].after <= s[j].after

VARIABLES
    \* the broker
    script,     \* the packets it says on this connection
    said,       \* how many octets of them it has sent
    record,     \* what reached it of a record that is not complete
    up,         \* the octets it has not yet read
    heard,      \* history: the packets it has read from them
    \* the network
    wire,       \* what is on its way to us
    cut,        \* nothing more goes either way
    faults,
    conns,      \* connections opened so far
    \* Transport
    tls,        \* m_tls
    tokens,     \* what the handshake still takes
    iteration,
    incoming,   \* ciphertext not yet decrypted: m_tlsIncoming
    plain,      \* m_tlsPlain
    data,       \* what Send has not yet encrypted
    out,        \* what is left of the record ::send is at
    \* Relay
    pc,
    phase,      \* connack, suback, pump or bye
    rx,         \* m_rx
    queue,      \* packets it has to say
    sent,       \* history: the packets passed to Send
    handed      \* history: the packets Decode took from m_rx

brokerVars == <<script, said, record, up, heard>>
netVars == <<wire, cut, faults, conns, tls>>
tlsVars == <<tokens, iteration>>
readVars == <<incoming, plain>>
writeVars == <<data, out>>
relayVars == <<pc, phase, rx, queue, sent, handed>>
wireVars == <<brokerVars, netVars, tlsVars, readVars, writeVars, relayVars>>

Fault == faults < MaxFaults /\ faults' = faults + 1
-----------------------------------------------------------------------------
(* TLS records.                                                             *)

Header(n) == 256 + n

\* The last word of a connection that ends in order carries no octets.
CloseNotify == Header(0)

\* Whether the buffer holds all of its first record.
Whole(b) == b # <<>> /\ Len(b) >= 1 + b[1] - 256

Payload(b) == SubSeq(b, 2, 1 + b[1] - 256)
Behind(b) == From(b, 2 + b[1] - 256)
-----------------------------------------------------------------------------
(* The broker.                                                              *)

Text(b, at) == SubSeq(b, at + 2, at + 1 + U16(b, at))

\* How a server reads the body of a CONNECT: the flags say which strings are
\* there.
ReadConnect(b) ==
    LET after == [at \in 1..Len(b) |-> at + 2 + U16(b, at)]
        id == 12
        topic == after[id] + 1
        message == after[topic]
        name == after[message]
        secret == IF b[8] >= 128 THEN after[name] ELSE name
    IN  [kind |-> "CONNECT", clientId |-> Text(b, id), keepAlive |-> U16(b, 9),
         will |-> [topic |-> Text(b, topic), payload |-> Text(b, message),
                   retain |-> (b[8] \div 32) % 2 = 1],
         username |-> IF b[8] >= 128 THEN Text(b, name) ELSE <<>>,
         password |-> IF (b[8] \div 64) % 2 = 1 THEN Text(b, secret) ELSE <<>>]

\* What a server reads of a packet.
ReadPacket(b) ==
    LET type == b[1] \div 16
        body == From(b, 3)
    IN  CASE type = CONNECT   -> {ReadConnect(x) : x \in {body}}
          [] type = SUBSCRIBE -> {[kind |-> "SUBSCRIBE", packetId |-> U16(body, 1),
                                   filter |-> Text(body, 4)]}
          [] type = PUBLISH   -> {[kind |-> "PUBLISH", topic |-> p.topic, payload |-> p.payload,
                                   retain |-> p.retain, user |-> p.user] :
                                  p \in Decode(b).packets}
          [] type = PINGREQ   -> {[kind |-> "PINGREQ"]}
          [] OTHER            -> {[kind |-> "DISCONNECT"]}

\* A server takes a packet off the octets it has when they hold a whole one.  The
\* relay's are short: one octet says their length.
BrokerHears(octets) ==
    IF Len(octets) < 2 \/ Len(octets) < 2 + octets[2]
    THEN up' = octets /\ UNCHANGED heard
    ELSE /\ up' = From(octets, 3 + octets[2])
         /\ heard' \in {Append(heard, p) : p \in ReadPacket(SubSeq(octets, 1, 2 + octets[2]))}

\* What the broker is ready to say: it answers CONNECT and SUBSCRIBE.
ReadyOctets ==
    FlattenSeq([i \in DOMAIN script |->
                   IF script[i].after <= Len(heard) THEN script[i].octets ELSE <<>>])

BrokerSays ==
    /\ ~cut /\ pc # "closed"
    /\ \E ready \in {ReadyOctets} :
          \E chunk \in {SubSeq(ready, said + 1, Min({said + MaxRecord, Len(ready)}))} :
              /\ chunk # <<>>
              /\ said' = said + Len(chunk)
              /\ wire' = wire \o (IF tls THEN <<Header(Len(chunk))>> \o chunk ELSE chunk)
    /\ Len(wire') <= Window
    /\ UNCHANGED <<script, record, up, heard, cut, faults, conns, tls, tlsVars, readVars, writeVars, relayVars>>

\* The connection ends: in order, in TLS with a word, or at once.
Cut ==
    /\ ~cut /\ pc # "closed"
    /\ Fault
    /\ cut' = TRUE
    /\ wire' \in {<<>>, IF tls THEN Append(wire, CloseNotify) ELSE wire}
    /\ UNCHANGED <<brokerVars, conns, tls, tlsVars, readVars, writeVars, relayVars>>
-----------------------------------------------------------------------------
(* Sending.                                                                 *)

Encode(p) ==
    CASE p.kind = "CONNECT"   -> EncodeConnect(p)
      [] p.kind = "SUBSCRIBE" -> EncodeSubscribe(p)
      [] p.kind = "PUBLISH"   -> EncodePublish(p)
      [] p.kind = "PINGREQ"   -> EncodePingReq
      [] OTHER                -> EncodeDisconnect

StartSend(p) ==
    /\ pc' = "send"
    /\ data' = Encode(p) /\ out' = <<>>
    /\ sent' = Append(sent, p)

\* TlsSend encrypts at most m_tlsMaxMsg octets at a time.
NextRecord ==
    /\ pc = "send" /\ out = <<>> /\ data # <<>>
    /\ LET chunk == SubSeq(data, 1, Min({MaxMessage, Len(data)}))
       IN  /\ out' = IF tls THEN <<Header(Len(chunk))>> \o chunk ELSE data
           /\ data' = IF tls THEN From(data, Len(chunk) + 1) ELSE <<>>
    /\ UNCHANGED <<brokerVars, netVars, tlsVars, readVars, relayVars>>

\* ::send takes some of it.  A timeout changes nothing: it is tried again.
Transmit ==
    /\ pc = "send"
    /\ \E n \in (SendSizes \cup {Len(out)}) \cap 1..Len(out) :
          /\ out' = From(out, n + 1)
          /\ \E arrived \in {record \o SubSeq(out, 1, n)} :
                IF cut THEN UNCHANGED <<record, up, heard>>
                ELSE IF tls /\ ~Whole(arrived) THEN record' = arrived /\ UNCHANGED <<up, heard>>
                ELSE /\ record' = <<>>
                     /\ \E octets \in {up \o (IF tls THEN Payload(arrived) ELSE arrived)} :
                           BrokerHears(octets)
    /\ UNCHANGED <<script, said, netVars, tlsVars, readVars, data, relayVars>>

\* TcpTransport::Close.  m_rx is not its business.
Close ==
    /\ pc' = "closed"
    /\ wire' = <<>> /\ data' = <<>> /\ out' = <<>>
    /\ incoming' = <<>> /\ plain' = <<>>

\* Mutant: what a connection left in m_rx is not cleared for the next.
SendEnds_KeepsRx ==
    /\ pc = "send" /\ out = <<>> /\ data = <<>>
    /\ pc' = IF phase = "pump" THEN "pump" ELSE "receive"
    /\ phase # "bye"
    /\ UNCHANGED <<brokerVars, netVars, tlsVars, readVars, writeVars, phase, rx, queue, sent, handed>>

\* Send has returned; m_rx is cleared once CONNECT is out.
SendEnds ==
    /\ pc = "send" /\ out = <<>> /\ data = <<>>
    /\ pc' = IF phase = "pump" THEN "pump" ELSE "receive"
    /\ phase # "bye"
    /\ rx' = IF phase = "connack" THEN <<>> ELSE rx
    /\ UNCHANGED <<brokerVars, netVars, tlsVars, readVars, writeVars, phase, queue, sent, handed>>

\* The socket is dead.  PumpOutbound leaves it to Recv to find out, a ping that
\* cannot be sent does not.
SendFails ==
    /\ pc = "send" /\ cut
    /\ IF phase = "pump" /\ Last(sent).kind # "PINGREQ"
       THEN pc' = "receive" /\ data' = <<>> /\ out' = <<>> /\ UNCHANGED <<wire, readVars>>
       ELSE Close
    /\ queue' = <<>>
    /\ UNCHANGED <<brokerVars, cut, faults, conns, tls, tlsVars, phase, rx, sent, handed>>

\* After DISCONNECT the connection is closed.
Goodbye ==
    /\ pc = "send" /\ out = <<>> /\ data = <<>>
    /\ phase = "bye"
    /\ Close
    /\ UNCHANGED <<brokerVars, cut, faults, conns, tls, tlsVars, phase, rx, queue, sent, handed>>
-----------------------------------------------------------------------------
(* Connecting.                                                              *)

\* A connection to a new socket; with TLS the first message of ours goes out and
\* the server's are on their way.
Connect ==
    /\ pc = "closed"
    /\ conns < MaxConns
    /\ conns' = conns + 1
    /\ script' \in Scripts /\ said' = 0 /\ record' = <<>> /\ up' = <<>> /\ heard' = <<>>
    /\ cut' = FALSE
    /\ phase' = "connack" /\ queue' = Wanted /\ handed' = <<>>
    /\ tokens' = Tokens /\ iteration' = 1
    /\ IF tls
       THEN /\ wire' = [i \in 1..(2 * Tokens) |-> IF i % 2 = 1 THEN Header(1) ELSE 0]
            /\ pc' = "handshakeRecv" /\ sent' = <<>>
            /\ UNCHANGED writeVars
       ELSE /\ sent' \in {<<c>> : c \in Connects}
            /\ pc' = "send" /\ data' = Encode(sent'[1]) /\ out' = <<>>
            /\ UNCHANGED wire
    /\ UNCHANGED <<faults, tls, readVars, rx>>

\* ::recv in the handshake: some octets, or a timeout, after which SChannel is
\* asked again with what there is.
HandshakeRecv ==
    /\ pc = "handshakeRecv"
    /\ pc' = "handshake"
    /\ \/ \E n \in 1..Len(wire) :
             incoming' = incoming \o SubSeq(wire, 1, n) /\ wire' = From(wire, n + 1)
       \/ wire = <<>> /\ ~cut /\ UNCHANGED <<wire, incoming>>
    /\ UNCHANGED <<brokerVars, cut, faults, conns, tls, tlsVars, plain, writeVars,
                   phase, rx, queue, sent, handed>>

\* SECBUFFER_EXTRA: what SChannel could not use yet is kept.
Remaining(b) == Behind(b)

\* InitializeSecurityContext takes one message, or says that it needs more of it.
\* With the last one the handshake is complete; what is left is the beginning of
\* the application's stream.
Handshake ==
    /\ pc = "handshake"
    /\ iteration < MaxIterations
    /\ iteration' = iteration + 1
    /\ incoming = <<>> \/ incoming[1] # CloseNotify
    /\ IF ~Whole(incoming)
       THEN pc' = "handshakeRecv" /\ UNCHANGED <<tokens, incoming, data, out, sent>>
       ELSE /\ tokens' = tokens - 1
            /\ incoming' = Remaining(incoming)
            /\ IF tokens > 1
               THEN pc' = "handshakeRecv" /\ UNCHANGED <<data, out, sent>>
               ELSE \E c \in Connects : StartSend(c)
    /\ UNCHANGED <<brokerVars, netVars, plain, phase, rx, queue, handed>>

\* The server goes away, in TLS or below, or the limit is reached.
HandshakeFails ==
    /\ \/ pc = "handshake" /\ incoming # <<>> /\ incoming[1] = CloseNotify
       \/ pc = "handshake" /\ iteration = MaxIterations
       \/ pc = "handshakeRecv" /\ wire = <<>> /\ cut
    /\ Close
    /\ UNCHANGED <<brokerVars, cut, faults, conns, tls, tlsVars, phase, rx, queue, sent, handed>>

\* The server's certificate is refused, or the answer to CONNECT or SUBSCRIBE is
\* not there in time.
GivesUp ==
    /\ \/ pc = "handshake"
       \/ pc = "receive" /\ phase \in {"connack", "suback"}
    /\ Fault
    /\ Close
    /\ UNCHANGED <<brokerVars, cut, conns, tls, tlsVars, phase, rx, queue, sent, handed>>
-----------------------------------------------------------------------------
(* Receiving.                                                               *)

\* Recv without TLS: what came, up to the size of the buffer.
Receive ==
    /\ pc = "receive" /\ ~tls
    /\ \E n \in 1..Min({MaxRecv, Len(wire)}) :
          rx' = rx \o SubSeq(wire, 1, n) /\ wire' = From(wire, n + 1)
    /\ pc' = "decode"
    /\ UNCHANGED <<brokerVars, cut, faults, conns, tls, tlsVars, readVars, writeVars,
                   phase, queue, sent, handed>>

\* Mutant: what does not fit into the caller's buffer is dropped.
TakePlain_Truncates ==
    /\ pc = "receive" /\ plain # <<>>
    /\ rx' = rx \o SubSeq(plain, 1, Min({MaxRecv, Len(plain)}))
    /\ plain' = <<>>
    /\ pc' = "decode"
    /\ UNCHANGED <<brokerVars, netVars, tlsVars, incoming, writeVars, phase, queue, sent, handed>>

\* TlsRecv hands back what is decrypted first, as much as fits.
TakePlain ==
    /\ pc = "receive" /\ plain # <<>>
    /\ rx' = rx \o SubSeq(plain, 1, Min({MaxRecv, Len(plain)}))
    /\ plain' = From(plain, Min({MaxRecv, Len(plain)}) + 1)
    /\ pc' = "decode"
    /\ UNCHANGED <<brokerVars, netVars, tlsVars, incoming, writeVars, phase, queue, sent, handed>>

\* DecryptMessage opens the first record and gives back what is behind it.
Decrypt ==
    /\ pc = "receive" /\ tls /\ plain = <<>>
    /\ Whole(incoming) /\ incoming[1] # CloseNotify
    /\ plain' = Payload(incoming)
    /\ incoming' = Behind(incoming)
    /\ UNCHANGED <<brokerVars, netVars, tlsVars, writeVars, relayVars>>

ReadMore ==
    /\ pc = "receive" /\ tls /\ plain = <<>>
    /\ ~Whole(incoming)
    /\ \E n \in 1..Len(wire) :
          incoming' = incoming \o SubSeq(wire, 1, n) /\ wire' = From(wire, n + 1)
    /\ UNCHANGED <<brokerVars, cut, faults, conns, tls, tlsVars, plain, writeVars, relayVars>>

Idle == plain = <<>> /\ ~Whole(incoming) /\ wire = <<>>

\* Mutant: a timeout starts the wait over, with what is in m_rx left there.
NothingComes_Waits ==
    /\ pc = "receive" /\ Idle /\ ~cut /\ rx = <<>>
    /\ pc' = "decode"
    /\ UNCHANGED <<brokerVars, netVars, tlsVars, readVars, writeVars, phase, rx, queue, sent, handed>>

\* A timeout is no octets, and what is in m_rx is looked at again.
NothingComes ==
    /\ pc = "receive" /\ Idle /\ ~cut
    /\ pc' = "decode"
    /\ UNCHANGED <<brokerVars, netVars, tlsVars, readVars, writeVars, phase, rx, queue, sent, handed>>

\* The peer closed, in TLS or below.
ReceiveFails ==
    /\ pc = "receive"
    /\ \/ Idle /\ cut
       \/ plain = <<>> /\ Whole(incoming) /\ incoming[1] = CloseNotify
    /\ Close
    /\ UNCHANGED <<brokerVars, cut, faults, conns, tls, tlsVars, phase, rx, queue, sent, handed>>
-----------------------------------------------------------------------------
(* Decoding: the loops of ConnectAndSubscribe, AwaitSubAck and PumpInbound.  *)

\* A complete packet is not in the buffer yet.
NeedMore ==
    /\ pc = "decode"
    /\ Decode(rx).result = "NeedMore"
    /\ pc' = IF phase = "pump" THEN "pump" ELSE "receive"
    /\ UNCHANGED <<brokerVars, netVars, tlsVars, readVars, writeVars, phase, rx, queue, sent, handed>>

Malformed ==
    /\ pc = "decode"
    /\ Decode(rx).result = "Malformed"
    /\ Close
    /\ UNCHANGED <<brokerVars, cut, faults, conns, tls, tlsVars, phase, rx, queue, sent, handed>>

Presence == Wanted[1]

\* What the packet is answered with: SUBSCRIBE, presence, the end, or nothing.
\* The wait for CONNACK takes one packet each time it has received.
Follow(p) ==
    CASE phase = "connack" /\ p.type = CONNACK /\ p.returnCode = 0 ->
            phase' = "suback" /\ StartSend(Subscribe) /\ UNCHANGED <<queue, wire, readVars>>
      [] phase = "connack" /\ p.type # CONNACK ->
            pc' = "receive" /\ UNCHANGED <<phase, writeVars, sent, queue, wire, readVars>>
      [] phase = "suback" /\ p.type = SUBACK /\ p.returnCode \in 0..2 ->
            phase' = "pump" /\ StartSend(Presence) /\ queue' = Tail(queue) /\ UNCHANGED <<wire, readVars>>
      [] phase = "pump" \/ (phase = "suback" /\ p.type # SUBACK) ->
            UNCHANGED <<pc, phase, writeVars, sent, queue, wire, readVars>>
      [] OTHER -> Close /\ UNCHANGED <<phase, sent, queue>>

Packet ==
    /\ pc = "decode"
    /\ \E answer \in {Decode(rx)} :
          /\ answer.result = "Ok"
          /\ rx' = From(rx, answer.consumed + 1)
          /\ \E p \in answer.packets : handed' = Append(handed, p) /\ Follow(p)
    /\ UNCHANGED <<brokerVars, cut, faults, conns, tls, tlsVars>>

\* PumpOutbound, the PINGREQ that is due, and DISCONNECT when told to stop.
Pump ==
    /\ pc = "pump"
    /\ \/ pc' = "receive" /\ UNCHANGED <<phase, writeVars, sent, queue>>
       \/ queue # <<>> /\ StartSend(Head(queue)) /\ queue' = Tail(queue) /\ UNCHANGED phase
       \/ StartSend([kind |-> "DISCONNECT"]) /\ phase' = "bye" /\ UNCHANGED queue
    /\ UNCHANGED <<brokerVars, netVars, tlsVars, readVars, rx, handed>>
-----------------------------------------------------------------------------
WireInit ==
    /\ script = <<>> /\ said = 0 /\ record = <<>> /\ up = <<>> /\ heard = <<>>
    /\ wire = <<>> /\ cut = FALSE /\ faults = 0 /\ conns = 0
    /\ tls \in Modes
    /\ tokens = Tokens /\ iteration = 1
    /\ incoming = <<>> /\ plain = <<>> /\ data = <<>> /\ out = <<>>
    /\ pc = "closed" /\ phase = "connack" /\ rx = <<>>
    /\ queue = Wanted /\ sent = <<>> /\ handed = <<>>

Thread ==
    \/ SendFails \/ NextRecord \/ Transmit \/ SendEnds \/ Goodbye
    \/ HandshakeRecv \/ Handshake \/ HandshakeFails
    \/ Receive \/ TakePlain \/ Decrypt \/ ReadMore \/ NothingComes \/ ReceiveFails
    \/ NeedMore \/ Malformed \/ Packet \/ Pump

WireNext == Connect \/ Thread \/ BrokerSays \/ Cut \/ GivesUp

WireSpec == WireInit /\ [][WireNext]_wireVars

\* The thread runs, and the broker says what it has to say.
WireFairSpec == WireSpec /\ WF_wireVars(Thread) /\ WF_wireVars(BrokerSays)
-----------------------------------------------------------------------------
(* Properties.                                                              *)

\* The packets of a script that can be read: those before one that is malformed.
Offer(s) ==
    LET last == Max({0} \cup {i \in DOMAIN s : \A j \in 1..i : s[j].means # {}})
    IN  [i \in 1..last |-> CHOOSE p \in s[i].means : TRUE]

In == INSTANCE PacketPipe WITH
          Offers <- {Offer(s) : s \in Scripts}, Packets <- {},
          offer <- Offer(script), got <- handed

\* However the broker's octets are cut into records and segments, Decode finds
\* the packets the broker sent, each once, in order, with the topic, payload,
\* user properties and codes it had; nothing is read behind a malformed one and
\* nothing of an earlier connection.
ReadsInStep == In!PipeSpec

Sayable == Connects \cup {Subscribe, [kind |-> "DISCONNECT"]} \cup ToSet(Wanted)

Out == INSTANCE PacketPipe WITH
          Offers <- {<<>>} \cup {<<c>> : c \in Connects},
          Packets <- Sayable,
          offer <- sent, got <- heard

\* However ::send cuts them, a server reads of our octets the packets that were
\* sent, whole and in order.
WritesInStep == Out!PipeSpec

\* Either direction of a connection, from Send and Recv to the octets on the
\* wire, is a pipe of packets, each read as what it is.
InStep == ReadsInStep /\ WritesInStep

\* Unless the connection breaks, a deadline passes, the handshake reaches its limit
\* or the relay is told to stop, all the broker said is handed on: nothing that
\* has arrived is lost between the buffers, or waits in one of them for octets
\* that need not come.
EverythingIsRead ==
    pc # "closed" ~> \/ handed = Offer(script)
                     \/ faults > 0 \/ iteration = MaxIterations \/ phase = "bye"
=============================================================================
