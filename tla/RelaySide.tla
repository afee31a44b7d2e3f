------------------------------ MODULE RelaySide ------------------------------
(***************************************************************************)
(* The relay's side of src/Registry.cpp: what leaves through the outbox    *)
(* and what comes in as the remote view.  The main thread meets the relay  *)
(* thread in two queues only; DrainRelay takes the one message by message, *)
(* and the relay thread may append to it in between.                       *)
(*                                                                         *)
(* The fields are those of one provider.  A local value is its revision;   *)
(* of a remote one the publisher's revision is kept, and the callsign it   *)
(* was sent for as history.                                                *)
(***************************************************************************)
EXTENDS AircraftTable, SequencesExt

CONSTANTS Fields,           \* the provider's qualified field names
          AircraftFields,   \* those of them with aircraft scope
          Decls,            \* what it may declare: [fields, synced]
          Allowed,          \* whether bridge.json has it on the allow list
          Peers,            \* the other controllers of the room
          Offers,           \* the messages that may come from them
          PendingTtlMs,     \* kPendingRemoteTtlMs
          MaxKeys,          \* maxKeysPerProvider
          MaxOutbound,      \* kMaxOutboundQueue
          MaxInbound,       \* kMaxInboundQueue
          MaxPending,       \* bound: m_pendingRemote (unbounded in the code)
          MaxClock          \* bound: local revisions (2^64 in the code)

\* fits: the payload parses as the field's type and is within its cap.  The
\* revision is whatever number the peer sent, 0 too, which no bridge sends.
Message == [peer : Peers, field : Fields, callsign : Callsigns \cup {NoCallsign},
            revision : Nat, fits : BOOLEAN]

ASSUME RelaySideAssumption ==
    /\ AircraftFields \subseteq Fields
    /\ \A d \in Decls : d.synced \subseteq d.fields /\ d.fields \subseteq Fields
    /\ Allowed \in BOOLEAN
    /\ Offers \subseteq Message
    /\ PendingTtlMs \in Nat /\ MaxKeys \in Nat
    /\ MaxOutbound \in Nat \ {0} /\ MaxInbound \in Nat
    /\ MaxPending \in Nat /\ MaxClock \in Nat

VARIABLES
    declared,   \* m_fieldIndex: the fields ever declared
    live,       \* those whose m_fields entry names a live provider
    synced,     \* those flagged ESB_F_SYNC
    local,      \* m_globals and m_aircraft: <<field, slot>> -> revision
    clock,      \* m_clock, as far as local values move it
    outbox,     \* m_outbox: a set of <<field, slot>>
    outbound,   \* Relay::m_outbound
    inbound,    \* Relay::m_inbound
    pending,    \* m_pendingRemote
    remote,     \* m_remote: <<field, slot, peer>> -> entry
    peers,      \* m_peers
    stage,      \* how far DrainRelay has come
    cursor      \* its index into m_pendingRemote

schemaVars == <<declared, live, synced>>
outVars == <<local, clock, outbox, outbound>>
inVars == <<pending, remote, peers>>
drainVars == <<stage, cursor>>
sideVars == <<tableVars, schemaVars, outVars, inbound, inVars, drainVars>>

\* kGlobalSlot.
Global == 0

SlotsOf(f) == IF f \in AircraftFields THEN {s \in DOMAIN slots : LiveSlot(s)} ELSE {Global}

Put(f, k, v) == [x \in DOMAIN f \cup {k} |-> IF x = k THEN v ELSE f[x]]

SideInit ==
    /\ TableInit
    /\ declared = {} /\ live = {} /\ synced = {}
    /\ local = <<>> /\ clock = 0 /\ outbox = {} /\ outbound = <<>>
    /\ inbound = <<>> /\ pending = <<>> /\ remote = <<>> /\ peers = {}
    /\ stage = "idle" /\ cursor = 1
-----------------------------------------------------------------------------
(* The provider comes and goes.  Its local values go with it; remote values *)
(* and what the outbox holds stay.                                          *)

Register(d) ==
    /\ stage = "idle"
    /\ live = {}
    /\ declared' = declared \cup d.fields
    /\ live' = d.fields
    /\ synced' = (synced \ d.fields) \cup d.synced
    /\ UNCHANGED <<tableVars, outVars, inbound, inVars, drainVars>>

Release ==
    /\ stage = "idle"
    /\ live # {}
    /\ live' = {}
    /\ local' = Restrict(local, {k \in DOMAIN local : k[1] \notin live})
    /\ UNCHANGED <<tableVars, declared, synced, clock, outbox, outbound, inbound,
                   inVars, drainVars>>
-----------------------------------------------------------------------------
(* Outbound: a write marks its key, the flush sends what is current then.   *)

\* Both consents: the author's flag and the user's list.
SyncEligible(f) == f \in synced /\ Allowed

QueueOutbound(k) == outbox' = IF SyncEligible(k[1]) THEN outbox \cup {k} ELSE outbox

\* set_global and set_ac with a value that is not the present one.
Write(f, s) ==
    /\ stage = "idle"
    /\ f \in live /\ s \in SlotsOf(f)
    /\ clock < MaxClock
    /\ clock' = clock + 1
    /\ local' = Put(local, <<f, s>>, clock')
    /\ QueueOutbound(<<f, s>>)
    /\ UNCHANGED <<tableVars, schemaVars, outbound, inbound, inVars, drainVars>>

\* clear_global and clear_ac; the second does not queue.
Clear(f, s) ==
    /\ stage = "idle"
    /\ f \in live /\ s \in SlotsOf(f)
    /\ <<f, s>> \in DOMAIN local
    /\ clock < MaxClock
    /\ clock' = clock + 1
    /\ local' = Restrict(local, DOMAIN local \ {<<f, s>>})
    /\ IF s = Global THEN QueueOutbound(<<f, s>>) ELSE UNCHANGED outbox
    /\ UNCHANGED <<tableVars, schemaVars, outbound, inbound, inVars, drainVars>>

\* The callsign the wire carries, looked up with a handle of generation 0.
WireCallsign(s) ==
    IF s # Global /\ Validate(Handle(s, 0)) = "OK" THEN CallsignOf(Handle(s, 0))
    ELSE NoCallsign

\* Something to send is there, and can be named.
Sendable(k) ==
    k \in DOMAIN local /\ (k[2] # Global => WireCallsign(k[2]) # NoCallsign)

Packet(k) == [field |-> k[1], callsign |-> WireCallsign(k[2]), revision |-> local[k]]

\* Mutant: the newest goes when the queue is full.
Newest_Oldest(n, s) == SubSeq(s, 1, Min({n, Len(s)}))

\* PushOutbound for a series of messages: the oldest go when the queue is full.
Newest(n, s) == SubSeq(s, Max({1, Len(s) - n + 1}), Len(s))

\* Mutant: the consent a write was queued under is good for the flush too.
Batches_NotAsked(K) == kSubset(Min({MaxKeys, Cardinality(K)}), K)

\* What a flush may take of the keys of the outbox: those that may leave, up to
\* the provider's cap.
Batches(K) ==
    LET eligible == {k \in K : SyncEligible(k[1])}
    IN  kSubset(Min({MaxKeys, Cardinality(eligible)}), eligible)

\* FlushOutbox: the cap counts what turns out not to be there any more, and the
\* order is that of the keys.
FlushOutbox ==
    /\ outbox # {}
    /\ outbox' = {}
    /\ \E batch \in Batches(outbox) :
          \E leaving \in SetToSeqs({k \in batch : Sendable(k)}) :
              outbound' = Newest(MaxOutbound,
                              outbound \o [i \in DOMAIN leaving |-> Packet(leaving[i])])

\* The relay thread swaps the queue for an empty one.
TakeOutbound ==
    /\ outbound # <<>>
    /\ outbound' = <<>>
    /\ UNCHANGED <<tableVars, schemaVars, local, clock, outbox, inbound, inVars, drainVars>>
-----------------------------------------------------------------------------
(* Inbound: ApplyRemote.                                                    *)

\* The relay thread brings a message in; a full queue sheds it.
Arrive(m) ==
    /\ Len(inbound) < MaxInbound
    /\ inbound' = Append(inbound, m)
    /\ UNCHANGED <<tableVars, schemaVars, outVars, inVars, drainVars>>

\* Mutant: a dead provider's schema is as good as a live one's.
Valid_NotAsked(m) ==
    /\ m.field \in declared
    /\ m.fits
    /\ m.field \in AircraftFields <=> m.callsign # NoCallsign

\* The message meets the schema as it is now.
Valid(m) ==
    /\ m.field \in declared \cap live \cap synced
    /\ m.fits
    /\ m.field \in AircraftFields <=> m.callsign # NoCallsign

Known(c) == Resolve(c) # NoHandle

RemoteKey(m) ==
    <<m.field, IF m.callsign = NoCallsign THEN Global ELSE index[m.callsign], m.peer>>

\* Mutant: what came last is newest.
Outdated_Never(m) == FALSE

\* The same publisher sent a newer value of this key before.  A message without a
\* number is never outdated.
Outdated(m) ==
    m.revision # 0 /\ RemoteKey(m) \in DOMAIN remote /\ m.revision < remote[RemoteKey(m)].revision

\* The value goes into the remote view.
Lands(m) ==
    /\ Valid(m)
    /\ m.callsign # NoCallsign => Known(m.callsign)
    /\ ~Outdated(m)

\* The aircraft is not in sight: the message is held for it.
Waits(m) == Valid(m) /\ m.callsign # NoCallsign /\ ~Known(m.callsign)

\* remote' and peers' after ApplyRemote; a message held changes neither view.
Apply(m) ==
    /\ peers' = peers \cup {m.peer}
    /\ remote' = IF Lands(m)
                 THEN Put(remote, RemoteKey(m),
                          [revision |-> m.revision, callsign |-> m.callsign])
                 ELSE remote
-----------------------------------------------------------------------------
(* DrainRelay.                                                              *)

StartDrain ==
    /\ stage = "idle"
    /\ stage' = "pop"
    /\ UNCHANGED <<tableVars, schemaVars, outVars, inbound, inVars, cursor>>

PopInbound ==
    /\ stage = "pop"
    /\ inbound # <<>>
    /\ LET m == Head(inbound)
       IN  /\ Apply(m)
           /\ Waits(m) => Len(pending) < MaxPending
           /\ pending' = IF Waits(m) THEN Append(pending, [message |-> m, arrived |-> now])
                         ELSE pending
    /\ inbound' = Tail(inbound)
    /\ UNCHANGED <<tableVars, schemaVars, outVars, drainVars>>

StartRetry ==
    /\ stage = "pop"
    /\ inbound = <<>>
    /\ stage' = "retry"
    /\ cursor' = 1
    /\ UNCHANGED <<tableVars, schemaVars, outVars, inbound, inVars>>

Stale(p) == now - p.arrived > PendingTtlMs

\* It can still wait.
PassPending ==
    /\ stage = "retry"
    /\ cursor <= Len(pending)
    /\ ~Known(pending[cursor].message.callsign) /\ ~Stale(pending[cursor])
    /\ cursor' = cursor + 1
    /\ UNCHANGED <<tableVars, schemaVars, outVars, inbound, inVars, stage>>

\* Mutant: the loop goes on behind the element that moved up.
TakePending_SkipsNext ==
    /\ stage = "retry"
    /\ cursor <= Len(pending)
    /\ LET p == pending[cursor]
       IN  /\ Known(p.message.callsign) \/ Stale(p)
           /\ IF Known(p.message.callsign) THEN Apply(p.message)
              ELSE UNCHANGED <<remote, peers>>
    /\ pending' = RemoveAt(pending, cursor)
    /\ cursor' = cursor + 1
    /\ UNCHANGED <<tableVars, schemaVars, outVars, inbound, stage>>

\* Its aircraft is in sight, or its time is up.
TakePending ==
    /\ stage = "retry"
    /\ cursor <= Len(pending)
    /\ LET p == pending[cursor]
       IN  /\ Known(p.message.callsign) \/ Stale(p)
           /\ IF Known(p.message.callsign) THEN Apply(p.message)
              ELSE UNCHANGED <<remote, peers>>
    /\ pending' = RemoveAt(pending, cursor)
    /\ UNCHANGED <<tableVars, schemaVars, outVars, inbound, drainVars>>

\* The end of DrainRelay; whether the flush is due is left open.
EndDrain ==
    /\ stage = "retry"
    /\ cursor > Len(pending)
    /\ stage' = "idle"
    /\ cursor' = 1
    /\ FlushOutbox \/ UNCHANGED <<outbox, outbound>>
    /\ UNCHANGED <<tableVars, schemaVars, local, clock, inbound, inVars>>
-----------------------------------------------------------------------------
(* Aircraft come and go.                                                    *)

\* Mutant: DropAircraftSlot without DropRemoteSlot.
DropAircraftSlots_LocalOnly(S) ==
    /\ local' = Restrict(local, {k \in DOMAIN local : k[2] \notin S})
    /\ UNCHANGED remote

\* Local and remote values of the slots are dropped alike.
DropAircraftSlots(S) ==
    /\ local' = Restrict(local, {k \in DOMAIN local : k[2] \notin S})
    /\ remote' = Restrict(remote, {k \in DOMAIN remote : k[2] \notin S})

Leave(S) ==
    /\ DropAircraftSlots(S)
    /\ UNCHANGED <<schemaVars, clock, outbox, outbound, inbound, pending, peers, drainVars>>

Traffic ==
    /\ stage = "idle"
    /\ \/ \E c \in Callsigns : Retire(c) /\ Leave({index[c]})
       \/ Sweep /\ Leave(Expired)
       \/ /\ Tick \/ \E c \in Callsigns : Observe(c)
          /\ UNCHANGED <<schemaVars, outVars, inbound, inVars, drainVars>>

DrainRelay ==
    StartDrain \/ PopInbound \/ StartRetry \/ PassPending \/ TakePending \/ EndDrain

SideNext ==
    \/ \E d \in Decls : Register(d)
    \/ Release
    \/ \E f \in Fields : \E s \in SlotsOf(f) : Write(f, s) \/ Clear(f, s)
    \/ \E m \in Offers : Arrive(m)
    \/ TakeOutbound
    \/ DrainRelay
    \/ Traffic

SideSpec == SideInit /\ [][SideNext]_sideVars
-----------------------------------------------------------------------------
(* The queries.                                                            *)

\* The key a field and a handle stand for, and whether they stand for one.  A
\* global field needs no aircraft; nobody asks whether the provider is live.
KeyOf(f, h) == <<f, IF f \in AircraftFields THEN h[1] ELSE Global>>

Asked(f, h) ==
    IF f \notin declared THEN "NO_FIELD"
    ELSE IF f \in AircraftFields THEN Validate(h)
    ELSE "OK"

\* remote_publishers: who published the field, for that aircraft if it has one.
RemotePublishers(f, h) ==
    IF Asked(f, h) # "OK" THEN {}
    ELSE {p \in Peers : <<KeyOf(f, h)[1], KeyOf(f, h)[2], p>> \in DOMAIN remote}

\* get_remote: the value one of them published.
GetRemote(f, h, p) ==
    IF Asked(f, h) # "OK" THEN Asked(f, h)
    ELSE IF p \notin RemotePublishers(f, h) THEN "UNSET"
    ELSE "OK"

\* list_peers.
ListPeers == peers

\* ".esb net": what it lists as syncing out.
DumpNet == {f \in declared : SyncEligible(f)}
-----------------------------------------------------------------------------
(* Properties.                                                             *)

\* docs/ARCHITECTURE.md 11.4: a plugin that asks with a handle it was once given
\* for a callsign gets what was published for that callsign, or nothing.  Slots
\* are reused, and the message may have waited for its aircraft.  What no plugin
\* can ask for any more is not kept, and who published is a known peer.
RemoteInSight ==
    /\ \A f \in Fields, i \in issued, p \in Peers :
          GetRemote(f, i[1], p) = "OK" =>
              /\ p \in ListPeers
              /\ f \in AircraftFields =>
                    remote[<<f, i[1][1], p>>].callsign = i[2]
    /\ \A k \in DOMAIN remote :
          \E h \in {NoHandle} \cup {HandleOf(s) : s \in DOMAIN slots} :
              KeyOf(k[1], h) = <<k[1], k[2]>> /\ GetRemote(k[1], h, k[3]) = "OK"

\* docs/ARCHITECTURE.md 11.3: within one publisher's stream a value never gives
\* way to one with an older number, whichever of them was held back.  Only what
\* has no number replaces whatever is there.
RemoteOrdered ==
    [][\A k \in DOMAIN remote \cap DOMAIN remote' :
          remote'[k].revision # 0 => remote'[k].revision >= remote[k].revision]_sideVars

\* docs/ARCHITECTURE.md 11.6: whatever enters the remote view is of a field that
\* is declared, flagged and alive at that time, not when the message came.
ComesInByConsent ==
    [][\A k \in DOMAIN remote' :
          (k \in DOMAIN remote => remote'[k] # remote[k]) => k[1] \in synced \cap live]_sideVars

\* docs/ARCHITECTURE.md 11.1: whatever leaves is of a field that both author and
\* user let go at that time, not when it was written, and that the user is shown
\* in the audit ".esb net" prints.
LeavesByConsent ==
    [][\A i \in DOMAIN outbound' :
          outbound'[i] \notin ToSet(outbound) => outbound'[i].field \in DumpNet]_sideVars

\* A drain leaves nothing waiting that could have been decided: neither for an
\* aircraft in sight nor beyond its time.
DrainSettles ==
    [][stage = "retry" /\ stage' = "idle" =>
          \A i \in DOMAIN pending : /\ ~Known(pending[i].message.callsign)
                                    /\ ~Stale(pending[i])]_sideVars

\* What a flush takes from the outbox is sent with its present revision, as
\* long as the author and the user still consent and the cap has room.
Sent(K) ==
    \A k \in K \cap outbox :
        k \notin outbox' /\ k \in DOMAIN local /\ SyncEligible(k[1])
        /\ Cardinality(outbox) <= Min({MaxKeys, MaxOutbound}) =>
            \E i \in DOMAIN outbound' :
                /\ outbound'[i].field = k[1]
                /\ outbound'[i].revision = local[k]

\* Changes of global values, however many were coalesced.
GlobalsAreSent == [][Sent(Fields \X {Global})]_sideVars

\* docs/ARCHITECTURE.md 11.3: "every synced value is published under its author's
\* own topic prefix, for aircraft scope exactly as for global scope".
EveryScopeIsSent == [][Sent(Fields \X ({Global} \cup 1..MaxSlots))]_sideVars
=============================================================================
