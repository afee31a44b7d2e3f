---------------------------- MODULE AircraftTable ----------------------------
(***************************************************************************)
(* src/AircraftTable.cpp: the table that gives every callsign a slot and a *)
(* generation.  A handle is the pair of the two.  A slot is                *)
(*                                                                         *)
(*   used and live   EuroScope can see the aircraft                        *)
(*   used and dead   retired; kept so that a reconnect finds the same slot *)
(*   unused          reclaimed, on the free list                           *)
(*                                                                         *)
(* Slots are numbered from 1 here and from 0 in the code, so NoSlot = 0 is *)
(* the absence of an index entry.                                          *)
(***************************************************************************)
EXTENDS Integers, Sequences, FiniteSets

CONSTANTS Callsigns,      \* the callsigns EuroScope may show
          NoCallsign,     \* the cleared callsign of a reclaimed slot
          TtlMs,          \* a live entry unseen for so long is retired
          GraceMs,        \* a dead entry lingers so long beyond TtlMs
          MaxSlots,       \* bound: slots the vector can hold (2^32 in the code)
          MaxGeneration,  \* bound: generations of a slot (2^32 in the code)
          MaxNow          \* bound: the clock stops here

ASSUME TableAssumption ==
    /\ NoCallsign \notin Callsigns
    /\ TtlMs \in Nat \ {0} /\ GraceMs \in Nat
    /\ MaxSlots \in Nat /\ MaxGeneration \in Nat /\ MaxNow \in Nat

VARIABLES slots,    \* m_slots
          free,     \* m_free, a stack
          index,    \* m_index: callsign -> slot, NoSlot when absent
          now,      \* the tick count the callers pass in
          issued    \* history: <<handle, callsign>> for every handle returned

tableVars == <<slots, free, index, now, issued>>

NoSlot == 0

Entry == [callsign   : Callsigns \cup {NoCallsign},
          generation : 1..MaxGeneration,
          used       : BOOLEAN,
          live       : BOOLEAN,
          firstSeen  : Nat,
          lastSeen   : Nat]

Handle(slot, generation) == <<slot, generation>>

\* ESB_AIRCRAFT_NONE is the all-zero handle: slot 0 of the code, generation 0.
NoHandle == Handle(1, 0)

Tracked(c) == index[c] # NoSlot
LiveSlot(s) == slots[s].used /\ slots[s].live
HandleOf(s) == Handle(s, slots[s].generation)

TableInit ==
    /\ slots = <<>>
    /\ free = <<>>
    /\ index = [c \in Callsigns |-> NoSlot]
    /\ now = 0
    /\ issued = {}

Tick ==
    /\ now < MaxNow
    /\ now' = now + 1
    /\ UNCHANGED <<slots, free, index, issued>>
-----------------------------------------------------------------------------
(* Observe: EuroScope shows the callsign.                                  *)

Issue(slot, generation, c) ==
    issued' = issued \cup {<<Handle(slot, generation), c>>}

\* The callsign still has an entry.  A retired one comes back to life under
\* the generation its retirement left.
ObserveTracked(c) ==
    /\ Tracked(c)
    /\ LET s == index[c]
           e == slots[s]
       IN  /\ slots' = [slots EXCEPT ![s] =
                  [e EXCEPT !.live = TRUE,
                            !.firstSeen = IF e.live THEN @ ELSE now,
                            !.lastSeen = now]]
           /\ Issue(s, e.generation, c)
    /\ UNCHANGED <<free, index, now>>

\* Mutant: the entry is built afresh and its generation starts over.
ObserveRecycled_FromOne(c) ==
    /\ ~Tracked(c)
    /\ free # <<>>
    /\ LET s == free[Len(free)]
       IN  /\ free' = SubSeq(free, 1, Len(free) - 1)
           /\ slots' = [slots EXCEPT ![s] =
                  [callsign |-> c, generation |-> 1, used |-> TRUE,
                   live |-> TRUE, firstSeen |-> now, lastSeen |-> now]]
           /\ index' = [index EXCEPT ![c] = s]
           /\ Issue(s, 1, c)
    /\ UNCHANGED now

\* A new callsign on a reclaimed slot, the one reclaimed last.
ObserveRecycled(c) ==
    /\ ~Tracked(c)
    /\ free # <<>>
    /\ LET s == free[Len(free)]
           g == slots[s].generation + 1
       IN  /\ g <= MaxGeneration
           /\ free' = SubSeq(free, 1, Len(free) - 1)
           /\ slots' = [slots EXCEPT ![s] =
                  [callsign |-> c, generation |-> g, used |-> TRUE,
                   live |-> TRUE, firstSeen |-> now, lastSeen |-> now]]
           /\ index' = [index EXCEPT ![c] = s]
           /\ Issue(s, g, c)
    /\ UNCHANGED now

\* A new callsign on a new slot.  Generations start at 1: Handle(1, 0) is taken.
ObserveFresh(c) ==
    /\ ~Tracked(c)
    /\ free = <<>>
    /\ Len(slots) < MaxSlots
    /\ 1 <= MaxGeneration
    /\ LET s == Len(slots) + 1
       IN  /\ slots' = Append(slots,
                  [callsign |-> c, generation |-> 1, used |-> TRUE,
                   live |-> TRUE, firstSeen |-> now, lastSeen |-> now])
           /\ index' = [index EXCEPT ![c] = s]
           /\ Issue(s, 1, c)
    /\ UNCHANGED <<free, now>>

Observe(c) == ObserveTracked(c) \/ ObserveRecycled(c) \/ ObserveFresh(c)
-----------------------------------------------------------------------------
(* Retire: a disconnect.  Sweep: what stopped being observed ages out.     *)

\* Mutant: the generation is left to the next occupant.
Dead_SameGeneration(e) == [e EXCEPT !.live = FALSE]

\* Bumping the generation invalidates every handle held anywhere.
Dead(e) == [e EXCEPT !.live = FALSE, !.generation = @ + 1]

Unused(e) == [e EXCEPT !.callsign = NoCallsign, !.used = FALSE]

Retire(c) ==
    /\ Tracked(c)
    /\ slots[index[c]].live
    /\ slots[index[c]].generation < MaxGeneration
    /\ slots' = [slots EXCEPT ![index[c]] = Dead(@)]
    /\ UNCHANGED <<free, index, now, issued>>

Age(e) == IF now > e.lastSeen THEN now - e.lastSeen ELSE 0

Expired ==
    {s \in DOMAIN slots : LiveSlot(s) /\ Age(slots[s]) >= TtlMs}

\* Mutant: the grace period is counted from the last sighting.
Lapsed_GraceOnly ==
    {s \in DOMAIN slots : /\ slots[s].used /\ ~slots[s].live
                          /\ Age(slots[s]) >= GraceMs}

\* Mutant: a dead entry is skipped by the loop.
Lapsed_Never == {}

Lapsed ==
    {s \in DOMAIN slots : /\ slots[s].used /\ ~slots[s].live
                          /\ Age(slots[s]) >= TtlMs + GraceMs}

\* The elements of a set of slots in the order the loop visits them.
Listings(S) ==
    {q \in [1..Cardinality(S) -> S] :
        \A i, j \in 1..Cardinality(S) : i < j => q[i] < q[j]}

\* Mutant: the index entry of a reclaimed slot is not erased.
Sweep_KeepsIndex ==
    /\ Expired \cup Lapsed # {}
    /\ \A s \in Expired : slots[s].generation < MaxGeneration
    /\ slots' = [s \in DOMAIN slots |->
                    IF s \in Expired THEN Dead(slots[s])
                    ELSE IF s \in Lapsed THEN Unused(slots[s])
                    ELSE slots[s]]
    /\ \E q \in Listings(Lapsed) : free' = free \o q
    /\ UNCHANGED <<index, now, issued>>

\* One pass over all slots; a slot it retires is reclaimed by a later pass.
Sweep ==
    /\ Expired \cup Lapsed # {}
    /\ \A s \in Expired : slots[s].generation < MaxGeneration
    /\ slots' = [s \in DOMAIN slots |->
                    IF s \in Expired THEN Dead(slots[s])
                    ELSE IF s \in Lapsed THEN Unused(slots[s])
                    ELSE slots[s]]
    /\ index' = [c \in Callsigns |->
                    IF \E s \in Lapsed : slots[s].callsign = c
                    THEN NoSlot ELSE index[c]]
    /\ \E q \in Listings(Lapsed) : free' = free \o q
    /\ UNCHANGED <<now, issued>>
-----------------------------------------------------------------------------
(* The queries.                                                            *)

\* Validate: the status of a handle a plugin holds.
Validate(h) ==
    IF h = NoHandle \/ h[1] \notin DOMAIN slots THEN "UNKNOWN_AIRCRAFT"
    ELSE IF ~LiveSlot(h[1]) \/ slots[h[1]].generation # h[2]
         THEN "STALE_AIRCRAFT"
         ELSE "OK"

\* Resolve: the handle of a callsign, NoHandle for ESB_E_UNKNOWN_AIRCRAFT.
Resolve(c) ==
    IF Tracked(c) /\ LiveSlot(index[c]) THEN HandleOf(index[c]) ELSE NoHandle

\* CallsignOf, for a handle that Validate accepts.
CallsignOf(h) == slots[h[1]].callsign
-----------------------------------------------------------------------------
TableNext ==
    \/ Tick
    \/ \E c \in Callsigns : Observe(c) \/ Retire(c)
    \/ Sweep

TableSpec == TableInit /\ [][TableNext]_tableVars

\* EuroScope's timer fires every second and sweeps; time passes.
TableFairSpec == TableSpec /\ WF_tableVars(Tick) /\ WF_tableVars(Sweep)
-----------------------------------------------------------------------------
(* Properties.                                                             *)

TableTypeOK ==
    /\ slots \in Seq(Entry)
    /\ free \in Seq(Nat)
    /\ index \in [Callsigns -> Nat]
    /\ now \in Nat
    /\ issued \subseteq ((Nat \X Nat) \X Callsigns)

\* The index and the used entries are the same relation, read in either
\* direction: what Observe, Retire and Sweep keep in two containers.
IndexMatchesSlots ==
    /\ \A c \in Callsigns :
          Tracked(c) => /\ index[c] \in DOMAIN slots
                        /\ slots[index[c]].used
                        /\ slots[index[c]].callsign = c
    /\ \A s \in DOMAIN slots :
          slots[s].used => /\ slots[s].callsign \in Callsigns
                           /\ index[slots[s].callsign] = s

\* The free list holds each reclaimed slot exactly once: no slot is leaked,
\* none is handed to two aircraft.
FreeMatchesSlots ==
    /\ \A i \in DOMAIN free : /\ free[i] \in DOMAIN slots
                              /\ ~slots[free[i]].used
    /\ \A i, j \in DOMAIN free : free[i] = free[j] => i = j
    /\ \A s \in DOMAIN slots :
          ~slots[s].used => /\ ~slots[s].live
                            /\ \E i \in DOMAIN free : free[i] = s

SlotsConserved == IndexMatchesSlots /\ FreeMatchesSlots

\* A handle a plugin ever received either fails validation or still names the
\* aircraft it was given out for, across reconnects and slot reuse.
NeverRetargets ==
    \A p \in issued : Validate(p[1]) = "OK" => /\ CallsignOf(p[1]) = p[2]
                                               /\ Resolve(p[2]) = p[1]

\* A slot changes hands only when its last occupant has been out of sight for
\* the TTL and the grace period: a quick reconnect lands on the same slot.
ReconnectKeepsSlot ==
    [][\A c \in Callsigns :
          Tracked(c) /\ index'[c] # index[c] =>
              now - slots[index[c]].lastSeen >= TtlMs + GraceMs]_tableVars

\* The vector grows only while every slot is taken by an aircraft in sight or
\* in its grace period: memory follows the peak traffic, not the session.
GrowsOnlyWhenFull ==
    [][Len(slots') > Len(slots) =>
          \A s \in DOMAIN slots : slots[s].used]_tableVars

\* "anything that stops being observed has to age out on its own": unless it
\* is seen again in the last stretch before the clock's bound, or a slot has
\* used up the bound on generations, a tracked callsign is retired and then
\* reclaimed without any disconnect.
AgesOut ==
    \A c \in Callsigns :
        Tracked(c) ~> \/ ~Tracked(c)
                      \/ slots[index[c]].lastSeen > MaxNow - (TtlMs + GraceMs)
                      \/ \E s \in DOMAIN slots :
                            slots[s].generation = MaxGeneration

-----------------------------------------------------------------------------
(* The table implements AircraftHandles: a callsign's abstract handle is   *)
(* what Resolve answers.                                                   *)

Promise == INSTANCE AircraftHandles WITH
               Handles <- (1..MaxSlots) \X (1..MaxGeneration),
               live    <- [c \in Callsigns |-> Resolve(c)]

ImplementsHandles == Promise!Spec
=============================================================================
