--------------------------------- MODULE MCWire ---------------------------------
(***************************************************************************)
(* Wire with short scripts: every packet is written out octet by octet and  *)
(* next to it, by hand, what MQTT says it means.                            *)
(***************************************************************************)
EXTENDS Wire

Found(type, flags) ==
    [type |-> type, flags |-> flags, returnCode |-> 0, topic |-> <<>>, payload |-> <<>>,
     retain |-> FALSE, user |-> <<>>, packetId |-> 0]

Said(after, octets, means) == [after |-> after, octets |-> octets, means |-> means]

Accepted == Said(1, <<32, 2, 0, 0>>, {Found(2, 0)})
Refused  == Said(1, <<32, 2, 0, 135>>, {[Found(2, 0) EXCEPT !.returnCode = 135]})
Granted  == Said(2, <<144, 4, 0, 1, 0, 1>>,
                 {[Found(9, 0) EXCEPT !.packetId = 1, !.returnCode = 1]})
Denied   == Said(2, <<144, 4, 0, 1, 0, 135>>,
                 {[Found(9, 0) EXCEPT !.packetId = 1, !.returnCode = 135]})

\* Retained, with a subscription identifier of two octets before the user property.
Retained(after) ==
    Said(after, <<49, 15, 0, 1, 65, 10, 11, 129, 1, 38, 0, 1, 75, 0, 1, 86, 7>>,
         {[Found(3, 1) EXCEPT !.topic = <<65>>, !.payload = <<7>>, !.retain = TRUE,
                              !.user = <<[key |-> <<75>>, value |-> <<86>>]>>]})

\* At QoS 1, which nobody asked for.
Numbered == Said(3, <<50, 7, 0, 1, 65, 0, 9, 0, 7>>,
                 {[Found(3, 2) EXCEPT !.topic = <<65>>, !.payload = <<7>>]})

Pong    == Said(3, <<208, 0>>, {Found(13, 0)})
Strange == Said(1, <<240, 0>>, {Found(15, 0)})

\* A property nobody knows, and a length that does not end.
Unknown == Said(3, <<48, 5, 0, 0, 2, 99, 0>>, {})
Endless == Said(3, <<48, 128, 128, 128, 128>>, {})

MCScripts == {<<Strange, Accepted, Retained(2), Granted, Pong>>,
              <<Accepted, Granted, Numbered, Unknown, Pong>>,
              <<Accepted, Granted, Endless>>, <<Accepted, Denied>>, <<Refused>>}

MCConnects == {[kind |-> "CONNECT", clientId |-> <<67>>, keepAlive |-> 60,
                username |-> name, password |-> secret,
                will |-> [topic |-> <<84>>, payload |-> <<>>, retain |-> TRUE]] :
               <<name, secret>> \in {<< <<>>, <<>> >>, << <<85>>, <<80>> >>}}

MCSubscribe == [kind |-> "SUBSCRIBE", packetId |-> 1, filter |-> <<35>>]

MCWanted == <<[kind |-> "PUBLISH", topic |-> <<84>>, payload |-> <<67>>, retain |-> TRUE,
               user |-> <<>>],
              [kind |-> "PINGREQ"],
              [kind |-> "PUBLISH", topic |-> <<70>>, payload |-> <<>>, retain |-> TRUE,
               user |-> <<[key |-> <<75>>, value |-> <<86>>]>>]>>
=============================================================================
