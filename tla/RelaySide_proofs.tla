---------------------------- MODULE RelaySide_proofs ----------------------------
(***************************************************************************)
(* Proofs about RelaySide for any aircraft, fields, peers, messages and    *)
(* limits.                                                                 *)
(*                                                                         *)
(* The table's invariant is taken over from AircraftTable_proofs: every    *)
(* step of the relay's side is a step of the table, or leaves it alone.    *)
(* Upon it rests InSight: what the remote view holds under a slot was sent *)
(* for the callsign that is live in that slot.                             *)
(***************************************************************************)
EXTENDS RelaySide, AircraftTable_proofs

Held == [message : Message, arrived : Nat]

SideTypes ==
    /\ inbound \in Seq(Message)
    /\ pending \in Seq(Held)
    /\ cursor \in Nat \ {0}
    /\ declared \subseteq Fields /\ live \subseteq declared /\ peers \subseteq Peers
    /\ \A k \in DOMAIN remote : k \in Fields \X Nat \X Peers /\ remote[k].revision \in Nat

\* What was sent for an aircraft is kept under the slot it is live in.
InSight ==
    \A k \in DOMAIN remote :
        /\ k[1] \in declared /\ k[3] \in peers
        /\ k[1] \in AircraftFields => OfLiveSlot(k[2], remote[k].callsign)
        /\ k[1] \notin AircraftFields => k[2] = Global

\* What the retry has passed can still wait.
Undecided(p) == ~Known(p.message.callsign) /\ ~Stale(p)

Passed ==
    stage = "retry" => \A i \in DOMAIN pending : i < cursor => Undecided(pending[i])

SideInv == TableInv /\ SideTypes /\ InSight /\ Passed
-----------------------------------------------------------------------------
LEMMA SideInit_Inv == SideInit => SideInv
<1> SUFFICES ASSUME SideInit PROVE SideInv
  OBVIOUS
<1>1. TableInv
  BY TableInit_Inv DEF SideInit
<1>2. DOMAIN remote = {} /\ SideTypes
  <2>1. DOMAIN <<>> = {} /\ <<>> \in Seq(Message) /\ <<>> \in Seq(Held)
    OBVIOUS
  <2> QED BY <2>1 DEF SideInit, SideTypes
<1> QED BY <1>1, <1>2 DEF SideInit, SideInv, InSight, Passed

\* What RemoveAt leaves.
LEMMA Removed ==
  ASSUME NEW S, NEW q \in Seq(S), NEW n \in 1..Len(q)
  PROVE  /\ RemoveAt(q, n) \in Seq(S) /\ Len(RemoveAt(q, n)) = Len(q) - 1
         /\ \A i \in 1..(Len(q) - 1) : i < n => RemoveAt(q, n)[i] = q[i]
<1> DEFINE a == SubSeq(q, 1, n - 1)
           b == SubSeq(q, n + 1, Len(q))
<1>1. Len(q) \in Nat /\ \A i \in 1..Len(q) : q[i] \in S
  OBVIOUS
<1>2. /\ a \in Seq(S) /\ Len(a) = n - 1
      /\ \A i \in 1..(n - 1) : a[i] = q[i]
  BY <1>1, SubSeqProperties
<1>3. b \in Seq(S) /\ Len(b) = Len(q) - n
  BY <1>1, SubSeqProperties
<1> HIDE DEF a, b
<1>4. /\ a \o b \in Seq(S) /\ Len(a \o b) = Len(q) - 1
      /\ \A i \in 1..(Len(q) - 1) : i < n => (a \o b)[i] = q[i]
  <2>1. /\ a \o b \in Seq(S) /\ Len(a \o b) = Len(a) + Len(b)
        /\ \A i \in 1..(Len(a) + Len(b)) :
              (a \o b)[i] = IF i <= Len(a) THEN a[i] ELSE b[i - Len(a)]
    BY <1>2, <1>3, ConcatProperties
  <2>2. n \in Nat /\ Len(a) + Len(b) = Len(q) - 1
    BY <1>1, <1>2, <1>3
  <2>3. \A i \in 1..(Len(q) - 1) : i < n => i \in 1..(n - 1) /\ i <= Len(a)
    BY <1>1, <1>2, <2>2
  <2> QED BY <1>2, <2>1, <2>2, <2>3
<1> QED BY <1>4 DEF RemoveAt, a, b
-----------------------------------------------------------------------------
(* A message that is applied.                                              *)

\* A callsign that is known is that of the slot its index entry names.
LEMMA KnownIsLive ==
  ASSUME TableInv, NEW c \in Callsigns, Known(c)
  PROVE  index[c] \in Nat /\ OfLiveSlot(index[c], c)
<1>1. Tracked(c) /\ LiveSlot(index[c])
  BY DEF Known, Resolve
<1> QED BY <1>1 DEF TableInv, TableTypeOK, IndexMatchesSlots, OfLiveSlot

\* The key a message lands under.
LEMMA LandsUnder ==
  ASSUME TableInv, SideTypes, NEW m \in Message, Lands(m)
  PROVE  LET k == RemoteKey(m)
         IN  /\ k \in Fields \X Nat \X Peers
             /\ k[1] \in declared \cap live \cap synced /\ k[3] = m.peer
             /\ k[1] \in AircraftFields => OfLiveSlot(k[2], m.callsign)
             /\ k[1] \notin AircraftFields => k[2] = Global
<1>1. /\ m.field \in Fields /\ m.peer \in Peers
      /\ m.callsign \in Callsigns \cup {NoCallsign}
  BY DEF Message
<1>2. /\ m.field \in declared \cap live \cap synced
      /\ m.field \in AircraftFields <=> m.callsign # NoCallsign
      /\ m.callsign # NoCallsign => Known(m.callsign)
  BY DEF Lands, Valid
<1>3. CASE m.callsign = NoCallsign
  BY <1>1, <1>2, <1>3 DEF RemoteKey, Global
<1>4. CASE m.callsign # NoCallsign
  <2>1. m.callsign \in Callsigns /\ Known(m.callsign)
    BY <1>1, <1>2, <1>4
  <2>2. index[m.callsign] \in Nat /\ OfLiveSlot(index[m.callsign], m.callsign)
    BY <2>1, KnownIsLive
  <2> QED BY <1>1, <1>2, <1>4, <2>2 DEF RemoteKey
<1> QED BY <1>3, <1>4

\* What becomes of the remote view.
LEMMA AppliedView ==
  ASSUME NEW m, Apply(m)
  PROVE  /\ DOMAIN remote' \subseteq DOMAIN remote \cup {RemoteKey(m)}
         /\ \A k \in DOMAIN remote' :
               \/ k \in DOMAIN remote /\ remote'[k] = remote[k]
               \/ /\ Lands(m) /\ k = RemoteKey(m)
                  /\ remote'[k] = [revision |-> m.revision, callsign |-> m.callsign]
<1>1. CASE Lands(m)
  BY <1>1 DEF Apply, Put
<1>2. CASE ~Lands(m)
  BY <1>2 DEF Apply
<1> QED BY <1>1, <1>2

LEMMA Apply_Inv ==
  ASSUME SideInv, NEW m \in Message, Apply(m), UNCHANGED <<tableVars, schemaVars>>
  PROVE  /\ InSight' /\ peers' \subseteq Peers
         /\ \A k \in DOMAIN remote' : k \in Fields \X Nat \X Peers /\ remote'[k].revision \in Nat
<1>1. m.peer \in Peers /\ m.revision \in Nat /\ peers' = peers \cup {m.peer}
  BY DEF Message, Apply
<1>2. peers' \subseteq Peers
  BY <1>1 DEF SideInv, SideTypes
<1>3. \A s, c : OfLiveSlot(s, c)' <=> OfLiveSlot(s, c)
  BY DEF OfLiveSlot, LiveSlot, tableVars
<1>4. ASSUME NEW k \in DOMAIN remote'
      PROVE  /\ k \in Fields \X Nat \X Peers /\ remote'[k].revision \in Nat
             /\ k[1] \in declared /\ k[3] \in peers'
             /\ k[1] \in AircraftFields => OfLiveSlot(k[2], remote'[k].callsign)
             /\ k[1] \notin AircraftFields => k[2] = Global
  <2>1. CASE k \in DOMAIN remote /\ remote'[k] = remote[k]
    BY <1>1, <2>1 DEF SideInv, SideTypes, InSight
  <2>2. CASE /\ Lands(m) /\ k = RemoteKey(m)
             /\ remote'[k] = [revision |-> m.revision, callsign |-> m.callsign]
    <3>1. remote'[k].revision = m.revision /\ remote'[k].callsign = m.callsign
      BY <2>2
    <3> QED BY <1>1, <2>2, <3>1, LandsUnder DEF SideInv
  <2> QED BY <2>1, <2>2, AppliedView
<1> QED BY <1>2, <1>3, <1>4 DEF InSight, schemaVars
-----------------------------------------------------------------------------
(* The steps of a drain.                                                   *)

LEMMA SameTable == ASSUME UNCHANGED tableVars, TableInv PROVE TableInv'
BY TableNext_Inv

\* While the table stands still, so does what can be decided.
LEMMA SameVerdict ==
  ASSUME UNCHANGED tableVars
  PROVE  /\ \A c : Known(c)' <=> Known(c)
         /\ \A p : Stale(p)' <=> Stale(p)
         /\ \A s, c : OfLiveSlot(s, c)' <=> OfLiveSlot(s, c)
BY DEF Known, Resolve, Tracked, LiveSlot, HandleOf, Stale, OfLiveSlot, tableVars

\* A step that leaves the remote view, the peers and what is declared as they are.
LEMMA SameView ==
  ASSUME InSight, UNCHANGED <<tableVars, declared, remote, peers>>
  PROVE  InSight'
BY SameVerdict DEF InSight

\* A step outside the retry of held messages.
LEMMA NotRetrying == ASSUME stage' # "retry" PROVE Passed'
BY DEF Passed

LEMMA PopInbound_Inv == SideInv /\ PopInbound => SideInv'
<1> SUFFICES ASSUME SideInv, PopInbound PROVE SideInv'
  OBVIOUS
<1> DEFINE m == Head(inbound)
<1>1. /\ inbound \in Seq(Message) /\ inbound # <<>> /\ pending \in Seq(Held)
      /\ inbound' = Tail(inbound) /\ Apply(m) /\ stage' = "pop"
      /\ pending' = IF Waits(m) THEN Append(pending, [message |-> m, arrived |-> now])
                    ELSE pending
      /\ UNCHANGED <<tableVars, schemaVars, cursor>>
  BY DEF PopInbound, SideInv, SideTypes, drainVars
<1>2. m \in Message /\ inbound' \in Seq(Message)
  BY <1>1
<1>3. pending' \in Seq(Held)
  <2>1. [message |-> m, arrived |-> now] \in Held
    BY <1>2 DEF Held, SideInv, TableInv, TableTypeOK
  <2> QED BY <1>1, <2>1
<1> HIDE DEF m
<1>4. /\ InSight' /\ peers' \subseteq Peers
      /\ \A k \in DOMAIN remote' : k \in Fields \X Nat \X Peers /\ remote'[k].revision \in Nat
  BY <1>1, <1>2, Apply_Inv
<1>5. SideTypes'
  BY <1>1, <1>2, <1>3, <1>4 DEF SideInv, SideTypes, schemaVars
<1>6. TableInv' /\ Passed'
  BY <1>1, SameTable, NotRetrying DEF SideInv
<1> QED BY <1>4, <1>5, <1>6 DEF SideInv

LEMMA TakePending_Inv == SideInv /\ TakePending => SideInv'
<1> SUFFICES ASSUME SideInv, TakePending PROVE SideInv'
  OBVIOUS
<1> DEFINE p == pending[cursor]
<1>1. /\ pending \in Seq(Held) /\ cursor \in 1..Len(pending) /\ Len(pending) \in Nat
      /\ pending' = RemoveAt(pending, cursor) /\ stage = "retry" /\ stage' = "retry"
      /\ UNCHANGED <<tableVars, schemaVars, inbound, cursor>>
      /\ Apply(p.message) \/ UNCHANGED <<remote, peers>>
  BY DEF TakePending, SideInv, SideTypes, drainVars
<1>2. /\ pending' \in Seq(Held) /\ Len(pending') = Len(pending) - 1
      /\ \A i \in 1..(Len(pending) - 1) : i < cursor => pending'[i] = pending[i]
  BY <1>1, Removed
<1>3. p \in Held /\ p.message \in Message
  <2>1. p \in Held
    BY <1>1
  <2> QED BY <2>1 DEF Held
<1> HIDE DEF p
<1>4. /\ InSight' /\ peers' \subseteq Peers
      /\ \A k \in DOMAIN remote' : k \in Fields \X Nat \X Peers /\ remote'[k].revision \in Nat
  <2>1. CASE Apply(p.message)
    BY <1>1, <1>3, <2>1, Apply_Inv
  <2>2. CASE UNCHANGED <<remote, peers>>
    BY <1>1, <2>2, SameView DEF schemaVars, SideInv, SideTypes
  <2> QED BY <1>1, <2>1, <2>2
<1>5. SideTypes'
  BY <1>1, <1>2, <1>4 DEF SideInv, SideTypes, schemaVars
<1>6. Passed'
  <2> SUFFICES ASSUME NEW i \in DOMAIN pending', i < cursor
               PROVE  Undecided(pending[i])'
    BY <1>1 DEF Passed
  <2>1. i \in 1..(Len(pending) - 1) /\ i \in DOMAIN pending /\ pending'[i] = pending[i]
    <3>1. DOMAIN pending' = 1..Len(pending') /\ DOMAIN pending = 1..Len(pending)
      BY <1>1, <1>2
    <3> QED BY <1>1, <1>2, <3>1
  <2>2. Undecided(pending[i])
    BY <1>1, <2>1 DEF SideInv, Passed
  <2> QED BY <1>1, <2>1, <2>2 DEF Undecided, Known, Resolve, Tracked, LiveSlot, HandleOf,
                                  Stale, tableVars
<1>7. TableInv'
  BY <1>1, SameTable DEF SideInv
<1> QED BY <1>4, <1>5, <1>6, <1>7 DEF SideInv

LEMMA PassPending_Inv == SideInv /\ PassPending => SideInv'
<1> SUFFICES ASSUME SideInv, PassPending PROVE SideInv'
  OBVIOUS
<1>1. /\ cursor' = cursor + 1 /\ cursor \in Nat \ {0} /\ stage = "retry"
      /\ ~Known(pending[cursor].message.callsign) /\ ~Stale(pending[cursor])
      /\ UNCHANGED <<tableVars, schemaVars, inbound, pending, remote, peers>>
  BY DEF PassPending, SideInv, SideTypes, inVars
<1>2. SideTypes'
  BY <1>1 DEF SideInv, SideTypes, schemaVars
<1>3. InSight'
  BY <1>1, SameView DEF SideInv, schemaVars
<1>4. Passed'
  <2> SUFFICES ASSUME NEW i \in DOMAIN pending, i < cursor + 1
               PROVE  ~Known(pending[i].message.callsign)' /\ ~Stale(pending[i])'
    BY <1>1 DEF Passed, Undecided
  <2>1. i \in Nat /\ (i < cursor \/ i = cursor)
    <3>1. DOMAIN pending \subseteq Nat
      BY DEF SideInv, SideTypes
    <3> QED BY <1>1, <3>1
  <2>2. ~Known(pending[i].message.callsign) /\ ~Stale(pending[i])
    BY <1>1, <2>1 DEF SideInv, Passed, Undecided
  <2> QED BY <1>1, <2>2, SameVerdict
<1>5. TableInv'
  BY <1>1, SameTable DEF SideInv
<1> QED BY <1>2, <1>3, <1>4, <1>5 DEF SideInv
-----------------------------------------------------------------------------
(* Steps that leave the table, the remote view and the held messages alone. *)

LEMMA Apart_Inv ==
  ASSUME SideInv, UNCHANGED <<tableVars, inVars>>,
         declared \subseteq declared', declared' \subseteq Fields, live' \subseteq declared',
         inbound' \in Seq(Message), cursor' \in Nat \ {0}, Passed'
  PROVE  SideInv'
<1>1. SideTypes'
  BY DEF SideInv, SideTypes, inVars
<1>2. InSight'
  BY SameVerdict DEF SideInv, InSight, inVars
<1>3. TableInv'
  BY SameTable DEF SideInv
<1> QED BY <1>1, <1>2, <1>3 DEF SideInv

LEMMA Quiet_Inv ==
  ASSUME SideInv,
         \/ \E d \in Decls : Register(d)
         \/ Release
         \/ \E f \in Fields : \E s \in SlotsOf(f) : Write(f, s) \/ Clear(f, s)
         \/ \E m \in Offers : Arrive(m)
         \/ TakeOutbound \/ StartDrain \/ StartRetry \/ EndDrain
         \/ UNCHANGED sideVars
  PROVE  SideInv'
<1>1. /\ inbound \in Seq(Message) /\ cursor \in Nat \ {0} /\ pending \in Seq(Held)
      /\ declared \subseteq Fields /\ live \subseteq declared
  BY DEF SideInv, SideTypes
<1>2. ASSUME NEW d \in Decls, Register(d)
      PROVE  SideInv'
  <2>1. d.fields \subseteq Fields
    BY RelaySideAssumption
  <2>2. stage' # "retry"
    BY <1>2 DEF Register, drainVars
  <2> QED BY <1>1, <1>2, <2>1, <2>2, Apart_Inv, NotRetrying DEF Register, drainVars
<1>3. CASE Release
  <2>1. stage' # "retry"
    BY <1>3 DEF Release, drainVars
  <2> QED BY <1>1, <1>3, <2>1, Apart_Inv, NotRetrying DEF Release, drainVars
<1>4. ASSUME NEW f \in Fields, NEW s \in SlotsOf(f), Write(f, s) \/ Clear(f, s)
      PROVE  SideInv'
  <2>1. stage' # "retry" /\ UNCHANGED <<tableVars, schemaVars, inbound, inVars, drainVars>>
    BY <1>4 DEF Write, Clear, drainVars
  <2> QED BY <1>1, <2>1, Apart_Inv, NotRetrying DEF schemaVars, drainVars
<1>5. ASSUME NEW m \in Offers, Arrive(m)
      PROVE  SideInv'
  <2>1. inbound' \in Seq(Message)
    <3>1. m \in Message
      BY RelaySideAssumption
    <3> QED BY <1>1, <1>5, <3>1 DEF Arrive
  <2>2. UNCHANGED <<tableVars, schemaVars, inVars, drainVars>>
    BY <1>5 DEF Arrive
  <2>3. Passed'
    BY <2>2 DEF SideInv, Passed, Undecided, Known, Resolve, Tracked, LiveSlot, HandleOf, Stale,
                tableVars, inVars, drainVars
  <2> QED BY <1>1, <2>1, <2>2, <2>3, Apart_Inv DEF schemaVars, drainVars
<1>6. CASE TakeOutbound \/ UNCHANGED sideVars
  <2>1. UNCHANGED <<tableVars, schemaVars, inbound, inVars, drainVars>>
    BY <1>6 DEF TakeOutbound, sideVars
  <2>2. Passed'
    BY <2>1 DEF SideInv, Passed, Undecided, Known, Resolve, Tracked, LiveSlot, HandleOf, Stale,
                tableVars, inVars, drainVars
  <2> QED BY <1>1, <2>1, <2>2, Apart_Inv DEF schemaVars, drainVars
<1>7. CASE StartDrain
  <2>1. stage' = "pop" /\ UNCHANGED <<tableVars, schemaVars, inbound, inVars, cursor>>
    BY <1>7 DEF StartDrain
  <2> QED BY <1>1, <2>1, Apart_Inv, NotRetrying DEF schemaVars
<1>8. CASE StartRetry
  <2>1. cursor' = 1 /\ UNCHANGED <<tableVars, schemaVars, inbound, inVars>>
    BY <1>8 DEF StartRetry
  <2>2. Passed'
    BY <1>1, <2>1 DEF Passed, inVars
  <2> QED BY <1>1, <2>1, <2>2, Apart_Inv DEF schemaVars
<1>9. CASE EndDrain
  <2>1. stage' = "idle" /\ cursor' = 1 /\ UNCHANGED <<tableVars, schemaVars, inbound, inVars>>
    BY <1>9 DEF EndDrain
  <2> QED BY <1>1, <2>1, Apart_Inv, NotRetrying DEF schemaVars
<1> QED BY <1>2, <1>3, <1>4, <1>5, <1>6, <1>7, <1>8, <1>9
-----------------------------------------------------------------------------
(* Aircraft come and go.                                                    *)

LEMMA Traffic_Inv == SideInv /\ Traffic => SideInv'
<1> SUFFICES ASSUME SideInv, Traffic PROVE SideInv'
  OBVIOUS
<1>1. stage' = "idle"
  BY DEF Traffic, Leave, drainVars
<1>2. UNCHANGED <<schemaVars, inbound, pending, peers, cursor>>
  BY DEF Traffic, Leave, drainVars, inVars
<1>3. /\ \A k \in DOMAIN remote' : k \in DOMAIN remote /\ remote'[k] = remote[k]
      /\ \A k \in DOMAIN remote' : \A d : OfLiveSlot(k[2], d) => OfLiveSlot(k[2], d)'
  <2>1. ASSUME NEW S, \/ \E c \in Callsigns : Retire(c) /\ S = {index[c]}
                      \/ Sweep /\ S = Expired,
               Leave(S)
        PROVE  <1>3
    <3>1. remote' = [k \in {x \in DOMAIN remote : x[2] \notin S} |-> remote[k]]
      BY <2>1 DEF Leave, DropAircraftSlots, Restrict
    <3> QED BY <2>1, <3>1, RetireKeepsOthers DEF SideInv
  <2>2. ASSUME Tick \/ \E c \in Callsigns : Observe(c), UNCHANGED inVars
        PROVE  <1>3
    <3>1. \A s, d : OfLiveSlot(s, d) => OfLiveSlot(s, d)'
      BY <2>2, ObserveKeepsLive DEF Tick, OfLiveSlot, LiveSlot, SideInv
    <3> QED BY <2>2, <3>1 DEF inVars
  <2> QED BY <2>1, <2>2 DEF Traffic
<1>4. SideTypes'
  BY <1>2, <1>3 DEF SideInv, SideTypes, schemaVars
<1>5. InSight'
  BY <1>2, <1>3 DEF SideInv, InSight, schemaVars
<1>6. TableInv'
  <2>1. TableNext
    BY DEF Traffic, TableNext
  <2> QED BY <2>1, TableNext_Inv DEF SideInv
<1> QED BY <1>1, <1>4, <1>5, <1>6, NotRetrying DEF SideInv

LEMMA SideNext_Inv == SideInv /\ [SideNext]_sideVars => SideInv'
BY Quiet_Inv, Traffic_Inv, PopInbound_Inv, PassPending_Inv, TakePending_Inv
   DEF SideNext, DrainRelay

\* The table, the remote view and the held messages stay in step: this is the
\* inductive invariant the theorems below rest on.
THEOREM SideInvariant == SideSpec => []SideInv
  BY SideInit_Inv, SideNext_Inv, PTL DEF SideSpec
-----------------------------------------------------------------------------
\* A plugin that asks with a handle it was once given gets what was published for
\* the callsign the handle was given for, or nothing, and nothing is kept that
\* nobody can ask for: for any aircraft, slots, peers and messages.
THEOREM RemoteStaysInSight == SideSpec => []RemoteInSight
<1>1. ASSUME SideInv
      PROVE  RemoteInSight
  <2>1. \A k \in DOMAIN remote :
           /\ k \in Fields \X Nat \X Peers
           /\ k[1] \in declared /\ k[3] \in peers
           /\ k[1] \in AircraftFields => OfLiveSlot(k[2], remote[k].callsign)
           /\ k[1] \notin AircraftFields => k[2] = Global
    BY <1>1 DEF SideInv, SideTypes, InSight
  <2>2. ASSUME NEW f \in Fields, NEW i \in issued, NEW p \in Peers,
               GetRemote(f, i[1], p) = "OK"
        PROVE  /\ p \in ListPeers
               /\ f \in AircraftFields => remote[<<f, i[1][1], p>>].callsign = i[2]
    <3>1. Asked(f, i[1]) = "OK" /\ p \in RemotePublishers(f, i[1])
      BY <2>2 DEF GetRemote
    <3>2. <<KeyOf(f, i[1])[1], KeyOf(f, i[1])[2], p>> \in DOMAIN remote
      BY <3>1 DEF RemotePublishers
    <3>3. p \in ListPeers
      BY <2>1, <3>2 DEF ListPeers
    <3>4. ASSUME f \in AircraftFields
          PROVE  remote[<<f, i[1][1], p>>].callsign = i[2]
      <4>1. <<f, i[1][1], p>> \in DOMAIN remote /\ Validate(i[1]) = "OK"
        BY <3>1, <3>2, <3>4 DEF KeyOf, Asked
      <4>2. slots[i[1][1]].callsign = remote[<<f, i[1][1], p>>].callsign
        BY <2>1, <3>4, <4>1 DEF OfLiveSlot
      <4>3. slots[i[1][1]].generation = i[1][2]
        BY <4>1 DEF Validate
      <4>4. slots[i[1][1]].callsign = i[2]
        BY <1>1, <4>3 DEF SideInv, TableInv, IssuedBelow
      <4> QED BY <4>2, <4>4
    <3> QED BY <3>3, <3>4
  <2>3. ASSUME NEW k \in DOMAIN remote
        PROVE  \E h \in {NoHandle} \cup {HandleOf(s) : s \in DOMAIN slots} :
                  KeyOf(k[1], h) = <<k[1], k[2]>> /\ GetRemote(k[1], h, k[3]) = "OK"
    <3>1. /\ k[1] \in declared /\ k[3] \in Peers /\ <<k[1], k[2], k[3]>> = k
      BY <2>1
    <3>2. CASE k[1] \in AircraftFields
      <4> DEFINE h == HandleOf(k[2])
      <4>1. k[2] \in DOMAIN slots /\ LiveSlot(k[2])
        BY <2>1, <3>2 DEF OfLiveSlot
      <4>2. h[1] = k[2] /\ h[2] = slots[k[2]].generation /\ h # NoHandle
        <5>1. slots[k[2]] \in Entry
          BY <1>1, <4>1 DEF SideInv, TableInv, TableTypeOK
        <5> QED BY <5>1, EntryGeneration DEF HandleOf, Handle, NoHandle, Entry
      <4> HIDE DEF h
      <4>3. Validate(h) = "OK"
        BY <4>1, <4>2 DEF Validate
      <4>4. KeyOf(k[1], h) = <<k[1], k[2]>> /\ Asked(k[1], h) = "OK"
        BY <3>1, <3>2, <4>2, <4>3 DEF KeyOf, Asked
      <4>5. GetRemote(k[1], h, k[3]) = "OK"
        BY <3>1, <4>4 DEF GetRemote, RemotePublishers
      <4>6. h \in {HandleOf(s) : s \in DOMAIN slots}
        BY <4>1 DEF h
      <4> QED BY <4>4, <4>5, <4>6
    <3>3. CASE k[1] \notin AircraftFields
      <4>1. KeyOf(k[1], NoHandle) = <<k[1], k[2]>> /\ Asked(k[1], NoHandle) = "OK"
        BY <2>1, <3>1, <3>3 DEF KeyOf, Asked
      <4>2. GetRemote(k[1], NoHandle, k[3]) = "OK"
        BY <3>1, <4>1 DEF GetRemote, RemotePublishers
      <4> QED BY <4>1, <4>2
    <3> QED BY <3>2, <3>3
  <2> QED BY <2>2, <2>3 DEF RemoteInSight
<1> QED BY <1>1, SideInvariant, PTL
-----------------------------------------------------------------------------
\* The three ways a step can move the remote view.
LEMMA ViewMoves ==
  ASSUME SideInv, SideNext
  PROVE  \/ \E m \in Message : Apply(m) /\ UNCHANGED schemaVars
         \/ \A k \in DOMAIN remote' : k \in DOMAIN remote /\ remote'[k] = remote[k]
<1>1. CASE PopInbound
  BY <1>1 DEF PopInbound, SideInv, SideTypes
<1>2. CASE TakePending
  <2>1. pending[cursor] \in Held
    BY <1>2 DEF TakePending, SideInv, SideTypes
  <2>2. pending[cursor].message \in Message
    BY <2>1 DEF Held
  <2> QED BY <1>2, <2>2 DEF TakePending
<1>3. CASE Traffic
  <2>1. ASSUME NEW S, Leave(S)
        PROVE  \A k \in DOMAIN remote' : k \in DOMAIN remote /\ remote'[k] = remote[k]
    BY <2>1 DEF Leave, DropAircraftSlots, Restrict
  <2> QED BY <1>3, <2>1 DEF Traffic, inVars
<1>4. CASE UNCHANGED remote
  BY <1>4
<1> QED
  BY <1>1, <1>2, <1>3, <1>4
     DEF SideNext, DrainRelay, Register, Release, Write, Clear, Arrive, TakeOutbound,
         StartDrain, StartRetry, PassPending, EndDrain, inVars

\* Within one publisher's stream a value never gives way to one with an older
\* number, whichever messages were held back for their aircraft: what takes the
\* place of a newer value has no number at all.
THEOREM StreamsAreOrdered == SideSpec => RemoteOrdered
<1> DEFINE Ordered == \A k \in DOMAIN remote \cap DOMAIN remote' :
                         remote'[k].revision # 0 => remote'[k].revision >= remote[k].revision
<1>1. SideInv /\ [SideNext]_sideVars => [Ordered]_sideVars
  <2> SUFFICES ASSUME SideInv, SideNext, NEW k \in DOMAIN remote \cap DOMAIN remote',
                      remote'[k].revision # 0
               PROVE  remote'[k].revision >= remote[k].revision
    OBVIOUS
  <2>1. remote[k].revision \in Nat
    BY DEF SideInv, SideTypes
  <2>2. CASE remote'[k] = remote[k]
    BY <2>1, <2>2
  <2>3. ASSUME NEW m \in Message, Lands(m), k = RemoteKey(m),
               remote'[k] = [revision |-> m.revision, callsign |-> m.callsign]
        PROVE  remote'[k].revision >= remote[k].revision
    <3>1. ~(m.revision < remote[k].revision)
      BY <2>3 DEF Lands, Outdated
    <3>2. m.revision \in Nat /\ remote'[k].revision = m.revision
      BY <2>3 DEF Message
    <3> QED BY <2>1, <3>1, <3>2
  <2> QED BY <2>2, <2>3, ViewMoves, AppliedView
<1> QED BY <1>1, SideInvariant, PTL DEF SideSpec, RemoteOrdered

\* Nothing enters the remote view but for a field that is declared, flagged and
\* alive in that step, even if its message was held from before.
THEOREM ConsentComesFirst == SideSpec => ComesInByConsent
<1> DEFINE Consented ==
             \A k \in DOMAIN remote' :
                (k \in DOMAIN remote => remote'[k] # remote[k]) => k[1] \in synced \cap live
<1>1. SideInv /\ [SideNext]_sideVars => [Consented]_sideVars
  <2> SUFFICES ASSUME SideInv, SideNext, NEW k \in DOMAIN remote',
                      k \in DOMAIN remote => remote'[k] # remote[k]
               PROVE  k[1] \in synced \cap live
    OBVIOUS
  <2>1. PICK m \in Message : Apply(m)
    BY ViewMoves
  <2>2. Lands(m) /\ k = RemoteKey(m)
    BY <2>1, AppliedView
  <2> QED BY <2>1, <2>2, LandsUnder DEF SideInv
<1> QED BY <1>1, SideInvariant, PTL DEF SideSpec, ComesInByConsent

\* A drain that ends has left no held message that could have been decided.
THEOREM DrainsSettle == SideSpec => DrainSettles
<1> DEFINE Settled ==
             stage = "retry" /\ stage' = "idle" =>
                \A i \in DOMAIN pending : /\ ~Known(pending[i].message.callsign)
                                          /\ ~Stale(pending[i])
<1>1. SideInv /\ [SideNext]_sideVars => [Settled]_sideVars
  <2> SUFFICES ASSUME SideInv, SideNext, stage = "retry", stage' = "idle",
                      NEW i \in DOMAIN pending
               PROVE  ~Known(pending[i].message.callsign) /\ ~Stale(pending[i])
    OBVIOUS
  <2>1. EndDrain
    BY DEF SideNext, DrainRelay, Register, Release, Write, Clear, Arrive, TakeOutbound,
           StartDrain, PopInbound, StartRetry, PassPending, TakePending, Traffic, drainVars
  <2>2. pending \in Seq(Held) /\ cursor \in Nat /\ cursor > Len(pending)
    BY <2>1 DEF EndDrain, SideInv, SideTypes
  <2>3. i < cursor
    BY <2>2
  <2> QED BY <2>3 DEF SideInv, Passed, Undecided
<1> QED BY <1>1, SideInvariant, PTL DEF SideSpec, DrainSettles
-----------------------------------------------------------------------------
(* Outbound.  The outbox and the queue are independent of the remote view,  *)
(* and so is what the proofs need of them.                                  *)

OutMessage == [field : Fields, callsign : Callsigns \cup {NoCallsign}, revision : Nat]

OutInv ==
    /\ IsFiniteSet(outbox) /\ outbox \subseteq Fields \X Nat
    /\ synced \subseteq declared
    /\ outbound \in Seq(OutMessage)
    /\ clock \in Nat
    /\ \A k \in DOMAIN local : local[k] \in Nat

LEMMA LimitOf ==
  ASSUME NEW a \in Int, NEW b \in Int
  PROVE  /\ Max({a, b}) = IF a >= b THEN a ELSE b
         /\ Min({a, b}) = IF a <= b THEN a ELSE b
  BY DEF Max, Min

\* What PushOutbound leaves of a series: its last messages, in their order.
LEMMA NewestIs ==
  ASSUME NEW S, NEW q \in Seq(S), NEW n \in Nat \ {0}
  PROVE  /\ Newest(n, q) \in Seq(S)
         /\ \A i \in DOMAIN Newest(n, q) : \E j \in 1..Len(q) : Newest(n, q)[i] = q[j]
         /\ \A j \in 1..Len(q) : j > Len(q) - n => \E i \in DOMAIN Newest(n, q) : Newest(n, q)[i] = q[j]
<1> DEFINE m == Max({1, Len(q) - n + 1})
           r == SubSeq(q, m, Len(q))
<1>1. Len(q) \in Nat /\ \A i \in 1..Len(q) : q[i] \in S
  OBVIOUS
<1>2. m = (IF 1 >= Len(q) - n + 1 THEN 1 ELSE Len(q) - n + 1)
  BY <1>1, LimitOf
<1> HIDE DEF m
<1>3. m \in Int /\ m >= 1 /\ \A i \in m..Len(q) : q[i] \in S
  BY <1>1, <1>2
<1>4. /\ r \in Seq(S)
      /\ Len(r) = IF m <= Len(q) THEN Len(q) - m + 1 ELSE 0
      /\ \A i \in 1..(Len(q) - m + 1) : r[i] = q[m + i - 1]
  BY <1>1, <1>3, SubSeqProperties
<1>5. Newest(n, q) = r
  BY DEF Newest, m
<1> HIDE DEF r
<1>6. DOMAIN r = 1..Len(r)
  BY <1>4
<1>7. ASSUME NEW i \in DOMAIN r
      PROVE  \E j \in 1..Len(q) : r[i] = q[j]
  <2>1. i \in 1..(Len(q) - m + 1) /\ m + i - 1 \in 1..Len(q)
    BY <1>1, <1>3, <1>4, <1>6
  <2> QED BY <1>4, <2>1
<1>8. ASSUME NEW j \in 1..Len(q), j > Len(q) - n
      PROVE  \E i \in DOMAIN r : r[i] = q[j]
  <2>1. /\ j - m + 1 \in 1..(Len(q) - m + 1) /\ m + (j - m + 1) - 1 = j
        /\ j - m + 1 \in DOMAIN r
    <3>1. /\ j \in Int /\ n \in Int /\ j >= m /\ j <= Len(q) /\ Len(q) \in Int
      BY <1>1, <1>2, <1>8
    <3>2. Len(r) = Len(q) - m + 1
      BY <1>3, <1>4, <3>1
    <3> QED BY <1>3, <1>6, <3>1, <3>2
  <2> QED BY <1>4, <2>1
<1> HIDE DEF r
<1>9. \A i \in DOMAIN r : \E j \in 1..Len(q) : r[i] = q[j]
  BY <1>7
<1>10. \A j \in 1..Len(q) : j > Len(q) - n => \E i \in DOMAIN r : r[i] = q[j]
  BY <1>8
<1> QED BY <1>4, <1>5, <1>9, <1>10

LEMMA WireCallsignType ==
  ASSUME TableInv, NEW s
  PROVE  WireCallsign(s) \in Callsigns \cup {NoCallsign}
<1>1. CASE Validate(Handle(s, 0)) = "OK"
  <2>1. s \in DOMAIN slots
    BY <1>1 DEF Validate, Handle
  <2>2. slots[s] \in Entry
    BY <2>1 DEF TableInv, TableTypeOK
  <2>3. slots[s].callsign \in Callsigns \cup {NoCallsign}
    BY <2>2 DEF Entry
  <2> QED BY <2>3 DEF WireCallsign, CallsignOf, Handle
<1> QED BY <1>1 DEF WireCallsign

\* An order of a finite set lists each of its members.
LEMMA Listed ==
  ASSUME NEW S, IsFiniteSet(S), NEW q \in SetToSeqs(S)
  PROVE  /\ q \in Seq(S) /\ Len(q) = Cardinality(S) /\ DOMAIN q = 1..Len(q)
         /\ \A x \in S : \E i \in DOMAIN q : q[i] = x
<1> DEFINE n == Cardinality(S)
<1>1. n \in Nat
  BY FS_CardinalityType
<1>2. q \in [1..n -> S] /\ \A i, j \in 1..n : i # j => q[i] # q[j]
  BY DEF SetToSeqs
<1> HIDE DEF n
<1>3. q \in Injection(1..n, S)
  BY <1>2, Zenon DEF Injection, IsInjective
<1>4. IsFiniteSet(1..n) /\ Cardinality(1..n) = n
  BY <1>1, FS_Interval
<1>5. q \in Surjection(1..n, S)
  BY <1>3, <1>4, FS_Injection DEF n
<1>6. \A x \in S : \E i \in 1..n : q[i] = x
  BY <1>5 DEF Surjection
<1>7. q \in Seq(S) /\ Len(q) = n /\ DOMAIN q = 1..n
  BY <1>1, <1>2
<1> QED BY <1>6, <1>7 DEF n

\* What a flush appends: packets of keys that may leave, and of all of them when
\* the outbox is within the cap.
LEMMA Flushed ==
  ASSUME TableInv, OutInv, FlushOutbox
  PROVE  \E packed \in Seq(OutMessage) :
            /\ outbound' = Newest(MaxOutbound, outbound \o packed)
            /\ Len(packed) <= Cardinality(outbox)
            /\ \A i \in 1..Len(packed) :
                  \E k \in outbox : SyncEligible(k[1]) /\ packed[i] = Packet(k)
            /\ Cardinality(outbox) <= MaxKeys =>
                  \A k \in outbox : SyncEligible(k[1]) /\ Sendable(k) =>
                     \E i \in 1..Len(packed) : packed[i] = Packet(k)
<1> DEFINE eligible == {k \in outbox : SyncEligible(k[1])}
           room == Min({MaxKeys, Cardinality(eligible)})
<1>1. PICK batch \in Batches(outbox) :
         \E leaving \in SetToSeqs({k \in batch : Sendable(k)}) :
            outbound' = Newest(MaxOutbound,
                            outbound \o [i \in DOMAIN leaving |-> Packet(leaving[i])])
  BY DEF FlushOutbox
<1> DEFINE sent == {k \in batch : Sendable(k)}
<1>2. PICK leaving \in SetToSeqs(sent) :
         outbound' = Newest(MaxOutbound,
                         outbound \o [i \in DOMAIN leaving |-> Packet(leaving[i])])
  BY <1>1
<1> DEFINE packed == [i \in DOMAIN leaving |-> Packet(leaving[i])]
<1>3. batch \subseteq eligible /\ Cardinality(batch) = room
  BY DEF Batches, kSubset
<1>4. /\ IsFiniteSet(outbox) /\ IsFiniteSet(eligible) /\ IsFiniteSet(batch) /\ IsFiniteSet(sent)
      /\ Cardinality(eligible) <= Cardinality(outbox)
      /\ Cardinality(sent) <= Cardinality(outbox)
      /\ Cardinality(eligible) \in Nat /\ Cardinality(outbox) \in Nat
  <2>1. IsFiniteSet(outbox) /\ eligible \in SUBSET outbox /\ batch \in SUBSET outbox
        /\ sent \in SUBSET outbox
    BY <1>3 DEF OutInv
  <2> QED BY <2>1, FS_Subset, FS_CardinalityType
<1>5. /\ leaving \in Seq(sent) /\ Len(leaving) = Cardinality(sent)
      /\ DOMAIN leaving = 1..Len(leaving)
      /\ \A x \in sent : \E i \in DOMAIN leaving : leaving[i] = x
  BY <1>2, <1>4, Listed
<1>6. ASSUME NEW k \in sent
      PROVE  Packet(k) \in OutMessage
  <2>1. k[1] \in Fields /\ k \in DOMAIN local
    BY <1>3 DEF OutInv, Sendable
  <2>2. local[k] \in Nat /\ WireCallsign(k[2]) \in Callsigns \cup {NoCallsign}
    BY <2>1, WireCallsignType DEF OutInv
  <2> QED BY <2>1, <2>2 DEF Packet, OutMessage
<1>7. \A i \in 1..Len(leaving) : leaving[i] \in sent
  BY <1>5
<1>8. /\ packed \in Seq(OutMessage) /\ Len(packed) = Len(leaving)
      /\ \A i \in 1..Len(packed) : packed[i] = Packet(leaving[i])
  <2>1. Len(leaving) \in Nat /\ packed \in [1..Len(leaving) -> OutMessage]
    BY <1>5, <1>6, <1>7
  <2>2. \A i \in 1..Len(leaving) : packed[i] = Packet(leaving[i])
    BY <1>5
  <2> HIDE DEF packed
  <2>3. packed \in Seq(OutMessage) /\ Len(packed) = Len(leaving)
    BY <2>1
  <2> QED BY <2>2, <2>3
<1>9. \A i \in 1..Len(packed) : \E k \in outbox : SyncEligible(k[1]) /\ packed[i] = Packet(k)
  BY <1>3, <1>7, <1>8
<1>10. ASSUME Cardinality(outbox) <= MaxKeys, NEW k \in outbox, SyncEligible(k[1]), Sendable(k)
       PROVE  \E i \in 1..Len(packed) : packed[i] = Packet(k)
  <2>1. room = Cardinality(eligible)
    <3> HIDE DEF eligible
    <3>1. MaxKeys \in Int /\ Cardinality(eligible) \in Int /\ Cardinality(eligible) <= MaxKeys
      BY <1>4, <1>10, RelaySideAssumption
    <3>2. room = IF MaxKeys <= Cardinality(eligible) THEN MaxKeys ELSE Cardinality(eligible)
      BY <3>1, LimitOf
    <3> QED BY <3>1, <3>2
  <2>2. batch = eligible
    BY <1>3, <1>4, <2>1, FS_Subset
  <2>3. k \in sent
    BY <1>10, <2>2
  <2>4. PICK i \in 1..Len(leaving) : leaving[i] = k
    BY <1>5, <2>3
  <2> QED BY <1>8, <2>4
<1> HIDE DEF packed
<1>11. outbound' = Newest(MaxOutbound, outbound \o packed)
  BY <1>2 DEF packed
<1> QED BY <1>4, <1>5, <1>8, <1>9, <1>10, <1>11

LEMMA SideInit_Out == SideInit => OutInv
  BY FS_EmptySet DEF SideInit, OutInv

LEMMA FlushKeepsTypes ==
  ASSUME TableInv, OutInv, FlushOutbox
  PROVE  outbound' \in Seq(OutMessage) /\ outbox' = {}
<1>1. PICK packed \in Seq(OutMessage) : outbound' = Newest(MaxOutbound, outbound \o packed)
  BY Flushed
<1>2. outbound \o packed \in Seq(OutMessage)
  BY <1>1 DEF OutInv
<1> QED BY <1>1, <1>2, NewestIs, RelaySideAssumption DEF FlushOutbox

LEMMA SideNext_Out == SideInv /\ OutInv /\ [SideNext]_sideVars => OutInv'
<1> SUFFICES ASSUME SideInv, OutInv, [SideNext]_sideVars PROVE OutInv'
  OBVIOUS
<1>1. ASSUME NEW d \in Decls, Register(d) PROVE OutInv'
  <2>1. d.synced \subseteq d.fields
    BY RelaySideAssumption
  <2> QED BY <1>1, <2>1 DEF Register, OutInv, outVars
<1>2. CASE Release
  <2>1. \A k \in DOMAIN local' : local'[k] \in Nat
    BY <1>2 DEF Release, OutInv, Restrict
  <2> QED BY <1>2, <2>1 DEF Release, OutInv
<1>3. ASSUME NEW f \in Fields, NEW s \in SlotsOf(f), Write(f, s) \/ Clear(f, s) PROVE OutInv'
  <2>1. s \in Nat
    <3>1. DOMAIN slots \subseteq Nat
      BY DEF SideInv, TableInv, TableTypeOK
    <3> QED BY <3>1 DEF SlotsOf, Global
  <2>2. outbox' \subseteq outbox \cup {<<f, s>>} /\ outbox \subseteq outbox'
    BY <1>3 DEF Write, Clear, QueueOutbound
  <2>3. IsFiniteSet(outbox') /\ outbox' \subseteq Fields \X Nat
    <3>1. IsFiniteSet(outbox \cup {<<f, s>>})
      BY FS_AddElement DEF OutInv
    <3> QED BY <2>1, <2>2, <3>1, FS_Subset DEF OutInv
  <2>4. clock' \in Nat
    BY <1>3 DEF Write, Clear, OutInv
  <2>5. \A k \in DOMAIN local' : local'[k] \in Nat
    BY <1>3, <2>4 DEF Write, Clear, OutInv, Put, Restrict
  <2> QED BY <1>3, <2>3, <2>4, <2>5 DEF Write, Clear, OutInv, schemaVars
<1>4. CASE TakeOutbound
  BY <1>4 DEF TakeOutbound, OutInv, schemaVars
<1>5. CASE EndDrain
  <2>1. CASE FlushOutbox
    <3>1. outbound' \in Seq(OutMessage) /\ outbox' = {}
      BY <2>1, FlushKeepsTypes DEF SideInv
    <3> QED BY <1>5, <3>1, FS_EmptySet DEF EndDrain, OutInv, schemaVars
  <2>2. CASE UNCHANGED <<outbox, outbound>>
    BY <1>5, <2>2 DEF EndDrain, OutInv, schemaVars
  <2> QED BY <1>5, <2>1, <2>2 DEF EndDrain
<1>6. CASE Traffic
  <2>1. ASSUME NEW S, Leave(S) PROVE OutInv'
    <3>1. \A k \in DOMAIN local' : local'[k] \in Nat
      BY <2>1 DEF Leave, DropAircraftSlots, OutInv, Restrict
    <3> QED BY <2>1, <3>1 DEF Leave, OutInv, schemaVars
  <2> QED BY <1>6, <2>1 DEF Traffic, OutInv, schemaVars, outVars
<1>7. CASE UNCHANGED <<schemaVars, outVars>>
  BY <1>7 DEF OutInv, schemaVars, outVars
<1> QED
  BY <1>1, <1>2, <1>3, <1>4, <1>5, <1>6, <1>7
     DEF SideNext, DrainRelay, Arrive, StartDrain, PopInbound, StartRetry, PassPending,
         TakePending, sideVars

\* What the outbox names, and what the queue holds, is of the provider's fields
\* and callsigns; only declared fields are ever flagged.
THEOREM OutboundInvariant == SideSpec => []OutInv
  BY SideInit_Out, SideNext_Out, SideInvariant, PTL DEF SideSpec

\* Whatever enters the queue is of a field that the author has flagged and the
\* user has allowed in that step, however long ago the value was written.
THEOREM ConsentBeforeSending == SideSpec => LeavesByConsent
<1> DEFINE Consented ==
             \A i \in DOMAIN outbound' :
                outbound'[i] \notin ToSet(outbound) => outbound'[i].field \in DumpNet
<1>1. SideInv /\ OutInv /\ [SideNext]_sideVars => [Consented]_sideVars
  <2> SUFFICES ASSUME SideInv, OutInv, SideNext, NEW i \in DOMAIN outbound',
                      outbound'[i] \notin ToSet(outbound)
               PROVE  outbound'[i].field \in DumpNet
    OBVIOUS
  <2>1. outbound \in Seq(OutMessage) /\ \A j \in DOMAIN outbound : outbound[j] \in ToSet(outbound)
    BY DEF OutInv, ToSet
  <2>2. outbound' # outbound /\ outbound' # <<>>
    BY <2>1
  <2>3. FlushOutbox
    BY <2>2 DEF SideNext, DrainRelay, Register, Release, Write, Clear, Arrive, TakeOutbound,
                StartDrain, PopInbound, StartRetry, PassPending, TakePending, EndDrain, Traffic,
                Leave, outVars
  <2>4. PICK packed \in Seq(OutMessage) :
           /\ outbound' = Newest(MaxOutbound, outbound \o packed)
           /\ \A j \in 1..Len(packed) :
                 \E k \in outbox : SyncEligible(k[1]) /\ packed[j] = Packet(k)
    BY <2>3, Flushed DEF SideInv
  <2>5. /\ outbound \o packed \in Seq(OutMessage)
        /\ Len(outbound \o packed) = Len(outbound) + Len(packed)
        /\ \A j \in 1..(Len(outbound) + Len(packed)) :
              (outbound \o packed)[j] =
                 IF j <= Len(outbound) THEN outbound[j] ELSE packed[j - Len(outbound)]
    BY <2>1, <2>4, ConcatProperties
  <2>6. PICK j \in 1..Len(outbound \o packed) : outbound'[i] = (outbound \o packed)[j]
    BY <2>4, <2>5, NewestIs, RelaySideAssumption
  <2>7. j > Len(outbound)
    BY <2>1, <2>5, <2>6
  <2>8. j - Len(outbound) \in 1..Len(packed) /\ outbound'[i] = packed[j - Len(outbound)]
    BY <2>1, <2>4, <2>5, <2>6, <2>7
  <2>9. PICK k \in outbox : SyncEligible(k[1]) /\ outbound'[i] = Packet(k)
    BY <2>4, <2>8
  <2>10. outbound'[i].field = k[1]
    BY <2>9 DEF Packet
  <2> QED BY <2>9, <2>10 DEF DumpNet, SyncEligible, OutInv
<1> QED BY <1>1, SideInvariant, OutboundInvariant, PTL DEF SideSpec, LeavesByConsent

\* No change of a global value is lost between its write and the queue: what
\* leaves the outbox is queued with the value it has by then, if the consents
\* stand and the limits have room for what is due.
THEOREM GlobalValuesAreSent == SideSpec => GlobalsAreSent
<1> DEFINE K == Fields \X {Global}
<1>1. SideInv /\ OutInv /\ [SideNext]_sideVars => [Sent(K)]_sideVars
  <2> SUFFICES ASSUME SideInv, OutInv, SideNext, NEW k \in K, k \in outbox,
                      k \notin outbox', k \in DOMAIN local, SyncEligible(k[1]),
                      Cardinality(outbox) <= Min({MaxKeys, MaxOutbound})
               PROVE  \E i \in DOMAIN outbound' : /\ outbound'[i].field = k[1]
                                                  /\ outbound'[i].revision = local[k]
    BY DEF Sent
  <2>1. FlushOutbox
    BY DEF SideNext, DrainRelay, Register, Release, Write, Clear, QueueOutbound, Arrive,
           TakeOutbound, StartDrain, PopInbound, StartRetry, PassPending, TakePending, EndDrain,
           Traffic, Leave, outVars
  <2>2. Cardinality(outbox) \in Nat /\ MaxKeys \in Int /\ MaxOutbound \in Nat \ {0}
    BY FS_CardinalityType, RelaySideAssumption DEF OutInv
  <2>3. Cardinality(outbox) <= MaxKeys /\ Cardinality(outbox) <= MaxOutbound
    <3> DEFINE n == Cardinality(outbox)
               low == Min({MaxKeys, MaxOutbound})
    <3>1. low = IF MaxKeys <= MaxOutbound THEN MaxKeys ELSE MaxOutbound
      <4>1. MaxKeys \in Int /\ MaxOutbound \in Int
        BY <2>2
      <4> QED BY <4>1, LimitOf
    <3>2. n <= low
      OBVIOUS
    <3> HIDE DEF low
    <3> QED BY <2>2, <3>1, <3>2
  <2>4. Sendable(k)
    BY DEF Sendable
  <2>5. PICK packed \in Seq(OutMessage) :
           /\ outbound' = Newest(MaxOutbound, outbound \o packed)
           /\ Len(packed) <= Cardinality(outbox)
           /\ \E i \in 1..Len(packed) : packed[i] = Packet(k)
    BY <2>1, <2>3, <2>4, Flushed DEF SideInv
  <2>6. PICK p \in 1..Len(packed) : packed[p] = Packet(k)
    BY <2>5
  <2>7. outbound \in Seq(OutMessage) /\ Len(outbound) \in Nat /\ Len(packed) \in Nat
    BY <2>5 DEF OutInv
  <2>8. /\ outbound \o packed \in Seq(OutMessage)
        /\ Len(outbound \o packed) = Len(outbound) + Len(packed)
        /\ \A j \in 1..(Len(outbound) + Len(packed)) :
              (outbound \o packed)[j] =
                 IF j <= Len(outbound) THEN outbound[j] ELSE packed[j - Len(outbound)]
    BY <2>5, <2>7, ConcatProperties
  <2>9. /\ Len(outbound) + p \in 1..Len(outbound \o packed)
        /\ (outbound \o packed)[Len(outbound) + p] = Packet(k)
        /\ Len(outbound) + p > Len(outbound \o packed) - MaxOutbound
    BY <2>2, <2>3, <2>5, <2>6, <2>7, <2>8
  <2>10. PICK i \in DOMAIN outbound' : outbound'[i] = Packet(k)
    <3> DEFINE q == outbound \o packed
               c == Len(outbound) + p
    <3>1. q \in Seq(OutMessage) /\ c \in 1..Len(q) /\ c > Len(q) - MaxOutbound
          /\ q[c] = Packet(k) /\ outbound' = Newest(MaxOutbound, q)
      BY <2>5, <2>8, <2>9
    <3> HIDE DEF q, c
    <3>2. \E i \in DOMAIN Newest(MaxOutbound, q) : Newest(MaxOutbound, q)[i] = q[c]
      BY <2>2, <3>1, NewestIs
    <3> QED BY <3>1, <3>2, Zenon
  <2> QED BY <2>10 DEF Packet
<1> QED BY <1>1, SideInvariant, OutboundInvariant, PTL DEF SideSpec, GlobalsAreSent
=============================================================================
