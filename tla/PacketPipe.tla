------------------------------- MODULE PacketPipe ------------------------------
(***************************************************************************)
(* What one direction of a connection promises, whatever the transport does *)
(* to the octets: the packets that were offered are taken one by one, in    *)
(* their order, each as it was offered.  A new connection begins anew.      *)
(***************************************************************************)
EXTENDS Sequences, Integers

CONSTANTS Offers,    \* what a new connection may begin with
          Packets    \* what may be offered later

VARIABLES offer, got

pipeVars == <<offer, got>>

PipeInit == offer = <<>> /\ got = <<>>

Open == offer' \in Offers /\ got' = <<>>

Say(p) == offer' = Append(offer, p) /\ UNCHANGED got

Take ==
    /\ Len(got) < Len(offer)
    /\ got' = Append(got, offer[Len(got) + 1])
    /\ UNCHANGED offer

PipeNext == Open \/ Take \/ \E p \in Packets : Say(p)

PipeSpec == PipeInit /\ [][PipeNext]_pipeVars
=============================================================================
