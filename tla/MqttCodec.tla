------------------------------- MODULE MqttCodec -------------------------------
(***************************************************************************)
(* src/MqttCodec.cpp: the subset of MQTT 5.0 the relay speaks, octet by     *)
(* octet.  A string is the sequence of its octets.  What may be refused is  *)
(* a set of at most one result: empty when the code returns false.          *)
(***************************************************************************)
EXTENDS Integers, SequencesExt

CONNECT == 1
CONNACK == 2
PUBLISH == 3
SUBSCRIBE == 8
SUBACK == 9
PINGREQ == 12
PINGRESP == 13
DISCONNECT == 14

\* struct Packet, as Decode finds it.
NoPacket == [type |-> CONNECT, flags |-> 0, returnCode |-> 0, topic |-> <<>>,
             payload |-> <<>>, retain |-> FALSE, user |-> <<>>, packetId |-> 0]

From(b, at) == SubSeq(b, at, Len(b))
-----------------------------------------------------------------------------
(* Variable-length integers: seven bits an octet, the least first.          *)

VarIntLength(n) ==
    IF n >= 128 ^ 4 THEN 5 ELSE Min({k \in 1..4 : n < 128 ^ k})

EncodeVarInt(n) ==
    LET k == VarIntLength(n)
    IN  [i \in 1..k |-> ((n \div 128 ^ (i - 1)) % 128) + (IF i < k THEN 128 ELSE 0)]

\* The last octet of a number: MQTT allows four.
VarIntEnds(b, at) ==
    {i \in at..(at + 3) : i <= Len(b) /\ b[i] < 128 /\ \A j \in at..(i - 1) : b[j] >= 128}

VarIntValue(b, at, last) ==
    LET digit == [k \in 0..3 |-> IF at + k > last THEN 0 ELSE b[at + k] % 128]
    IN  digit[0] + 128 * digit[1] + 16384 * digit[2] + 2097152 * digit[3]

\* The number that begins at an octet, and what comes after it.
DecodeVarInt(b, at) ==
    {[value |-> VarIntValue(b, at, last), next |-> last + 1] : last \in VarIntEnds(b, at)}
-----------------------------------------------------------------------------
(* Encoding.                                                                *)

PutU16(v) == <<(v \div 256) % 256, v % 256>>

PutString(s) == PutU16(Len(s)) \o s

Frame(type, flags, body) == <<type * 16 + flags>> \o EncodeVarInt(Len(body)) \o body

PutProperties(user) ==
    LET block == FlattenSeq([i \in DOMAIN user |->
                    <<38>> \o PutString(user[i].key) \o PutString(user[i].value)])
    IN  EncodeVarInt(Len(block)) \o block

\* Mutant: the password is not announced.
ConnectFlags_NoPassword(c) ==
    2 + (IF c.will.retain THEN 36 ELSE 4) + (IF c.username # <<>> THEN 128 ELSE 0)

\* A clean session with a will, which the relay always leaves, and the user
\* name and password where they are set.
ConnectFlags(c) ==
    2 + (IF c.will.retain THEN 36 ELSE 4)
      + (IF c.username # <<>> THEN 128 ELSE 0)
      + (IF c.password # <<>> THEN 64 ELSE 0)

PutIfSet(s) == IF s # <<>> THEN PutString(s) ELSE <<>>

\* "MQTT", level 5 and the flags that announce the strings at the end; the
\* properties are empty.
EncodeConnect(c) ==
    Frame(CONNECT, 0,
        PutString(<<77, 81, 84, 84>>) \o <<5, ConnectFlags(c)>>
        \o PutU16(c.keepAlive) \o <<0>>
        \o PutString(c.clientId)
        \o <<0>> \o PutString(c.will.topic) \o PutString(c.will.payload)
        \o PutIfSet(c.username) \o PutIfSet(c.password))

\* QoS 0: there is no packet identifier.
EncodePublish(p) ==
    Frame(PUBLISH, IF p.retain THEN 1 ELSE 0,
          PutString(p.topic) \o PutProperties(p.user) \o p.payload)

EncodeSubscribe(s) ==
    Frame(SUBSCRIBE, 2, PutU16(s.packetId) \o <<0>> \o PutString(s.filter) \o <<0>>)

EncodePingReq == Frame(PINGREQ, 0, <<>>)
EncodeDisconnect == Frame(DISCONNECT, 0, <<>>)
-----------------------------------------------------------------------------
(* Decoding.                                                                *)

U16(b, at) == 256 * b[at] + b[at + 1]

\* Where a string that begins at an octet ends, if it is all there.
StringEnds(b, at) ==
    IF at + 1 > Len(b) \/ at + 1 + U16(b, at) > Len(b) THEN {}
    ELSE {at + 2 + U16(b, at)}

SkipBytes(b, at, n) == IF at + n - 1 > Len(b) THEN {} ELSE {at + n}

StringPairEnds(b, at) == UNION {StringEnds(b, middle) : middle \in StringEnds(b, at)}

\* Where the property that begins at an octet ends.  The length of one that is
\* not known cannot be known either.
PropertyEnds(b, at) ==
    CASE b[at] = 38 -> StringPairEnds(b, at + 1)
      [] b[at] = 1  -> SkipBytes(b, at + 1, 1)
      [] b[at] = 35 -> SkipBytes(b, at + 1, 2)
      [] b[at] = 2  -> SkipBytes(b, at + 1, 4)
      [] b[at] = 11 -> {v.next : v \in DecodeVarInt(b, at + 1)}
      [] b[at] \in {3, 8, 9} -> StringEnds(b, at + 1)
      [] OTHER -> {}

UserProperty(b, at) ==
    LET value == at + 3 + U16(b, at + 1)
    IN  [key |-> SubSeq(b, at + 3, value - 1),
         value |-> SubSeq(b, value + 2, value + 1 + U16(b, value))]

OwnProperty(b, at) == IF b[at] = 38 THEN <<UserProperty(b, at)>> ELSE <<>>

\* The user properties of a block, in their order.
ParseProperties(b) ==
    LET rest[at \in 1..(Len(b) + 1)] ==
            IF at > Len(b) THEN {<<>>}
            ELSE UNION {{OwnProperty(b, at) \o later : later \in rest[end]} :
                           end \in PropertyEnds(b, at)}
    IN  rest[1]

QoS(flags) == (flags \div 2) % 4

\* Mutant: a packet of a higher QoS is read as if it had no identifier.
PublishOffset_NoIdentifier(flags, b) == 3 + U16(b, 1)

\* Where the properties of a PUBLISH begin: a QoS above 0 puts an identifier first.
PublishOffset(flags, b) == 3 + U16(b, 1) + (IF QoS(flags) > 0 THEN 2 ELSE 0)

DecodePublish(flags, b) ==
    IF Len(b) < 2 \/ Len(b) < PublishOffset(flags, b) - 1 THEN {}
    ELSE {[NoPacket EXCEPT
              !.topic = SubSeq(b, 3, 2 + U16(b, 1)),
              !.user = block.user,
              !.payload = From(b, block.end),
              !.retain = flags % 2 = 1] :
          block \in UNION {
              IF len.next + len.value - 1 > Len(b) THEN {}
              ELSE {[user |-> user, end |-> len.next + len.value] :
                       user \in ParseProperties(SubSeq(b, len.next, len.next + len.value - 1))} :
              len \in DecodeVarInt(b, PublishOffset(flags, b))}}

DecodeConnAck(b) ==
    IF Len(b) < 2 THEN {} ELSE {[NoPacket EXCEPT !.returnCode = b[2]]}

\* The reason code comes after the properties.
DecodeSubAck(b) ==
    IF Len(b) < 2 THEN {}
    ELSE {[NoPacket EXCEPT !.packetId = U16(b, 1),
                           !.returnCode = b[len.next + len.value]] :
             len \in {l \in DecodeVarInt(b, 3) : l.next + l.value <= Len(b)}}

\* Anything we never asked for is skipped, to stay in step with the stream.
DecodeBody(type, flags, b) ==
    CASE type = CONNACK -> DecodeConnAck(b)
      [] type = PUBLISH -> DecodePublish(flags, b)
      [] type = SUBACK  -> DecodeSubAck(b)
      [] OTHER          -> {NoPacket}

Answer(result, packets, consumed) ==
    [result |-> result, packets |-> packets, consumed |-> consumed]

Consumed(len) == len.next + len.value - 1

\* A buffer whose first packet is so long: is it all there, and can it be read?
Framed(b, len) ==
    LET packets == UNION {DecodeBody(b[1] \div 16, b[1] % 16, body) :
                             body \in {SubSeq(b, len.next, len.next + len.value - 1)}}
    IN  IF Len(b) < len.next + len.value - 1 THEN Answer("NeedMore", {}, 0)
        ELSE IF packets = {} THEN Answer("Malformed", {}, 0)
        ELSE Answer("Ok", {[p EXCEPT !.type = b[1] \div 16, !.flags = b[1] % 16] : p \in packets},
                    Consumed(len))

\* At most one packet from the front of the buffer.  A length that has not come
\* to its end after four octets never will.
Decode(b) ==
    IF Len(b) < 2 \/ DecodeVarInt(b, 2) = {}
    THEN Answer(IF Len(b) >= 5 THEN "Malformed" ELSE "NeedMore", {}, 0)
    ELSE CHOOSE answer \in {Framed(b, len) : len \in DecodeVarInt(b, 2)} : TRUE
=============================================================================
