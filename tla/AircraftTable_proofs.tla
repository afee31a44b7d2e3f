------------------------ MODULE AircraftTable_proofs ------------------------
(***************************************************************************)
(* Proofs about AircraftTable for any set of callsigns, any TTL and grace  *)
(* period and any bounds.                                                  *)
(*                                                                         *)
(* The invariant is SlotsConserved (the index, the used entries and the    *)
(* free list describe one partition of the slots) together with the place  *)
(* every issued handle has in it: its generation is never above its slot's *)
(* and equals it only while the slot is live with the same callsign.       *)
(***************************************************************************)
EXTENDS AircraftTable, FiniteSetTheorems, SequenceTheorems, TLAPS

\* An issued handle never runs ahead of its slot, and is level with it only
\* while the slot is live with the callsign the handle was issued for.
IssuedBelow ==
    \A p \in issued :
        /\ p[1][1] \in DOMAIN slots
        /\ 1 <= p[1][2] /\ p[1][2] <= slots[p[1][1]].generation
        /\ p[1][2] = slots[p[1][1]].generation =>
               /\ LiveSlot(p[1][1])
               /\ slots[p[1][1]].callsign = p[2]

\* The handle of a live slot has been issued.
LiveIssued ==
    \A s \in DOMAIN slots :
        LiveSlot(s) => <<HandleOf(s), slots[s].callsign>> \in issued

SizeBounded == Len(slots) <= MaxSlots

TableInv ==
    /\ TableTypeOK
    /\ IndexMatchesSlots
    /\ FreeMatchesSlots
    /\ IssuedBelow
    /\ LiveIssued
    /\ SizeBounded
-----------------------------------------------------------------------------
LEMMA TableInit_Inv == TableInit => TableInv
  BY TableAssumption DEF TableInit, TableInv, TableTypeOK, IndexMatchesSlots,
         FreeMatchesSlots, IssuedBelow, LiveIssued, SizeBounded, Tracked, NoSlot

LEMMA Tick_Inv == TableInv /\ Tick => TableInv'
  BY DEF Tick, TableInv, TableTypeOK, IndexMatchesSlots, FreeMatchesSlots,
         IssuedBelow, LiveIssued, SizeBounded, Tracked, LiveSlot, HandleOf

LEMMA ObserveTracked_Inv ==
  ASSUME TableInv, NEW c \in Callsigns, ObserveTracked(c)
  PROVE  TableInv'
<1> USE DEF Tracked, NoSlot
<1> DEFINE s == index[c]
           e == slots[s]
           n == [e EXCEPT !.live = TRUE,
                          !.firstSeen = IF e.live THEN @ ELSE now,
                          !.lastSeen = now]
<1>1. /\ s \in DOMAIN slots /\ e.used /\ e.callsign = c /\ e \in Entry
      /\ slots' = [slots EXCEPT ![s] = n]
      /\ issued' = issued \cup {<<Handle(s, e.generation), c>>}
      /\ free' = free /\ index' = index /\ now' = now
      /\ DOMAIN slots' = DOMAIN slots /\ Len(slots') = Len(slots)
  BY DEF ObserveTracked, Issue, TableInv, TableTypeOK, IndexMatchesSlots
<1>2. n \in Entry /\ n.callsign = c /\ n.generation = e.generation
                  /\ n.used /\ n.live
  BY <1>1 DEF TableInv, TableTypeOK, Entry
<1> HIDE DEF n, e
<1>3. slots'[s] = n /\ \A t \in DOMAIN slots : t # s => slots'[t] = slots[t]
  BY <1>1
<1>4. TableTypeOK'
  BY <1>1, <1>2, <1>3 DEF TableInv, TableTypeOK, Entry, Handle, e
<1>5. IndexMatchesSlots'
  BY <1>1, <1>2, <1>3 DEF TableInv, IndexMatchesSlots, e
<1>6. FreeMatchesSlots'
  BY <1>1, <1>2, <1>3 DEF TableInv, FreeMatchesSlots, e
<1>7. IssuedBelow'
  <2>1. SUFFICES ASSUME NEW p \in issued'
                 PROVE  /\ p[1][1] \in DOMAIN slots'
                        /\ 1 <= p[1][2] /\ p[1][2] <= slots'[p[1][1]].generation
                        /\ p[1][2] = slots'[p[1][1]].generation =>
                              /\ slots'[p[1][1]].used /\ slots'[p[1][1]].live
                              /\ slots'[p[1][1]].callsign = p[2]
    BY DEF IssuedBelow, LiveSlot
  <2>2. CASE p = <<Handle(s, e.generation), c>>
    BY <1>1, <1>2, <1>3, <2>2 DEF Handle, Entry
  <2>3. CASE p \in issued
    BY <1>1, <1>2, <1>3, <2>3 DEF TableInv, IssuedBelow, LiveSlot, e
  <2> QED BY <1>1, <2>1, <2>2, <2>3
<1>8. LiveIssued'
  BY <1>1, <1>2, <1>3 DEF TableInv, LiveIssued, LiveSlot, HandleOf, Handle, e
<1>9. SizeBounded'
  BY <1>1 DEF TableInv, SizeBounded
<1> QED BY <1>4, <1>5, <1>6, <1>7, <1>8, <1>9 DEF TableInv

LEMMA ObserveRecycled_Inv ==
  ASSUME TableInv, NEW c \in Callsigns, ObserveRecycled(c)
  PROVE  TableInv'
<1> USE DEF Tracked, NoSlot
<1> DEFINE s == free[Len(free)]
           g == slots[s].generation + 1
           n == [callsign |-> c, generation |-> g, used |-> TRUE,
                 live |-> TRUE, firstSeen |-> now, lastSeen |-> now]
<1>1. /\ index[c] = 0 /\ free \in Seq(Nat) /\ Len(free) \in Nat /\ Len(free) >= 1
      /\ slots \in Seq(Entry) /\ g <= MaxGeneration
      /\ slots' = [slots EXCEPT ![s] = n]
      /\ issued' = issued \cup {<<Handle(s, g), c>>}
      /\ free' = SubSeq(free, 1, Len(free) - 1)
      /\ index' = [index EXCEPT ![c] = s]
      /\ now' = now /\ now \in Nat
  BY DEF ObserveRecycled, Issue, TableInv, TableTypeOK
<1>2. /\ s \in DOMAIN slots /\ s \in Nat /\ s # 0
      /\ ~slots[s].used /\ ~slots[s].live /\ slots[s] \in Entry
  BY <1>1 DEF TableInv, FreeMatchesSlots
<1>3. n \in Entry /\ g \in Nat /\ g = slots[s].generation + 1
  <2>1. slots[s].generation \in 1..MaxGeneration
    BY <1>2 DEF Entry
  <2>2. g \in 1..MaxGeneration /\ g \in Nat
    BY <1>1, <2>1, TableAssumption
  <2> HIDE DEF g
  <2>3. n \in Entry
    BY <1>1, <2>2 DEF Entry
  <2> QED BY <2>2, <2>3 DEF g
<1>4. /\ slots'[s] = n
      /\ \A t \in DOMAIN slots : t # s => slots'[t] = slots[t]
      /\ DOMAIN slots' = DOMAIN slots /\ Len(slots') = Len(slots)
      /\ slots' \in Seq(Entry)
  BY <1>1, <1>2, <1>3
<1>5. /\ free' \in Seq(Nat)
      /\ DOMAIN free' = 1..(Len(free) - 1)
      /\ \A i \in 1..(Len(free) - 1) : free'[i] = free[i] /\ free[i] # s
      /\ DOMAIN free = 1..Len(free)
  BY <1>1 DEF TableInv, FreeMatchesSlots
<1> HIDE DEF s
<1>6. TableTypeOK'
  BY <1>1, <1>2, <1>3, <1>4, <1>5 DEF TableInv, TableTypeOK, Handle
<1>7. IndexMatchesSlots'
  BY <1>1, <1>2, <1>4 DEF TableInv, TableTypeOK, IndexMatchesSlots
<1>8. FreeMatchesSlots'
  <2>1. \A i \in DOMAIN free' : free'[i] \in DOMAIN slots' /\ ~slots'[free'[i]].used
    BY <1>1, <1>4, <1>5 DEF TableInv, FreeMatchesSlots
  <2>2. \A i, j \in DOMAIN free' : free'[i] = free'[j] => i = j
    BY <1>1, <1>5 DEF TableInv, FreeMatchesSlots
  <2>3. ASSUME NEW t \in DOMAIN slots', ~slots'[t].used
        PROVE  ~slots'[t].live /\ \E i \in DOMAIN free' : free'[i] = t
    <3>1. t # s /\ t \in DOMAIN slots /\ ~slots[t].used /\ slots'[t] = slots[t]
      BY <1>4, <2>3
    <3>2. ~slots[t].live /\ \E i \in DOMAIN free : free[i] = t
      BY <3>1 DEF TableInv, FreeMatchesSlots
    <3>3. PICK i \in DOMAIN free : free[i] = t
      BY <3>2
    <3>4. i # Len(free)
      BY <3>1, <3>3 DEF s
    <3>5. i \in DOMAIN free' /\ free'[i] = t
      BY <1>1, <1>5, <3>3, <3>4
    <3> QED BY <3>1, <3>2, <3>5
  <2> QED BY <2>1, <2>2, <2>3 DEF FreeMatchesSlots
<1>9. IssuedBelow'
  <2>1. SUFFICES ASSUME NEW p \in issued'
                 PROVE  /\ p[1][1] \in DOMAIN slots'
                        /\ 1 <= p[1][2] /\ p[1][2] <= slots'[p[1][1]].generation
                        /\ p[1][2] = slots'[p[1][1]].generation =>
                              /\ slots'[p[1][1]].used /\ slots'[p[1][1]].live
                              /\ slots'[p[1][1]].callsign = p[2]
    BY DEF IssuedBelow, LiveSlot
  <2>2. CASE p = <<Handle(s, g), c>>
    BY <1>2, <1>3, <1>4, <2>2 DEF Handle, Entry
  <2>3. CASE p \in issued
    <3>1. p \in (Nat \X Nat) \X Callsigns
      BY <2>3 DEF TableInv, TableTypeOK
    <3>2. CASE p[1][1] = s
      BY <1>2, <1>3, <1>4, <2>3, <3>1, <3>2 DEF TableInv, IssuedBelow, Entry
    <3>3. CASE p[1][1] # s
      BY <1>4, <2>3, <3>3 DEF TableInv, IssuedBelow, LiveSlot
    <3> QED BY <3>2, <3>3
  <2> QED BY <1>1, <2>1, <2>2, <2>3
<1>10. LiveIssued'
  BY <1>1, <1>2, <1>4 DEF TableInv, LiveIssued, LiveSlot, HandleOf, Handle
<1>11. SizeBounded'
  BY <1>4 DEF TableInv, SizeBounded
<1> QED BY <1>6, <1>7, <1>8, <1>9, <1>10, <1>11 DEF TableInv

LEMMA ObserveFresh_Inv ==
  ASSUME TableInv, NEW c \in Callsigns, ObserveFresh(c)
  PROVE  TableInv'
<1> USE DEF Tracked, NoSlot
<1> DEFINE s == Len(slots) + 1
           n == [callsign |-> c, generation |-> 1, used |-> TRUE,
                 live |-> TRUE, firstSeen |-> now, lastSeen |-> now]
<1>1. /\ index[c] = 0 /\ slots \in Seq(Entry) /\ Len(slots) \in Nat
      /\ 1 <= MaxGeneration /\ Len(slots) < MaxSlots /\ free = <<>>
      /\ slots' = Append(slots, n)
      /\ issued' = issued \cup {<<Handle(s, 1), c>>}
      /\ index' = [index EXCEPT ![c] = s]
      /\ free' = free /\ now' = now /\ now \in Nat
  BY DEF ObserveFresh, Issue, TableInv, TableTypeOK
<1>2. n \in Entry
  BY <1>1, TableAssumption DEF Entry
<1>3. /\ slots' \in Seq(Entry) /\ Len(slots') = s
      /\ slots'[s] = n /\ DOMAIN slots' = 1..s /\ DOMAIN slots = 1..Len(slots)
      /\ \A t \in DOMAIN slots : t # s /\ slots'[t] = slots[t]
  BY <1>1, <1>2
<1> HIDE DEF n
<1>4. TableTypeOK'
  BY <1>1, <1>3 DEF TableInv, TableTypeOK, Handle
<1>5. IndexMatchesSlots'
  BY <1>1, <1>3 DEF TableInv, TableTypeOK, IndexMatchesSlots, n
<1>6. FreeMatchesSlots'
  BY <1>1, <1>3 DEF TableInv, FreeMatchesSlots, n
<1>7. IssuedBelow'
  <2>1. SUFFICES ASSUME NEW p \in issued'
                 PROVE  /\ p[1][1] \in DOMAIN slots'
                        /\ 1 <= p[1][2] /\ p[1][2] <= slots'[p[1][1]].generation
                        /\ p[1][2] = slots'[p[1][1]].generation =>
                              /\ slots'[p[1][1]].used /\ slots'[p[1][1]].live
                              /\ slots'[p[1][1]].callsign = p[2]
    BY DEF IssuedBelow, LiveSlot
  <2>2. CASE p = <<Handle(s, 1), c>>
    BY <1>1, <1>3, <2>2 DEF Handle, n
  <2>3. CASE p \in issued
    BY <1>1, <1>3, <2>3 DEF TableInv, IssuedBelow, LiveSlot
  <2> QED BY <1>1, <2>1, <2>2, <2>3
<1>8. LiveIssued'
  BY <1>1, <1>3 DEF TableInv, LiveIssued, LiveSlot, HandleOf, Handle, n
<1>9. SizeBounded'
  BY <1>1, <1>3, TableAssumption DEF SizeBounded
<1> QED BY <1>4, <1>5, <1>6, <1>7, <1>8, <1>9 DEF TableInv

LEMMA EntryGeneration ==
  ASSUME NEW e \in Entry
  PROVE  e.generation \in Nat /\ e.generation \in 1..MaxGeneration
<1>1. e.generation \in 1..MaxGeneration
  BY DEF Entry
<1> QED BY <1>1, TableAssumption

\* What retiring does to an entry: it stays a well-formed entry of the same
\* callsign, one generation on.
LEMMA DeadEntry ==
  ASSUME NEW e \in Entry, e.generation < MaxGeneration
  PROVE  /\ Dead(e) \in Entry
         /\ Dead(e).callsign = e.callsign /\ Dead(e).used = e.used
         /\ ~Dead(e).live
         /\ Dead(e).generation = e.generation + 1 /\ e.generation \in Nat
<1>1. e.generation \in 1..MaxGeneration
  BY DEF Entry
<1>2. e.generation \in Nat /\ e.generation + 1 \in 1..MaxGeneration
  BY <1>1, TableAssumption
<1>3. /\ Dead(e).callsign = e.callsign /\ Dead(e).used = e.used
      /\ Dead(e).live = FALSE /\ Dead(e).generation = e.generation + 1
  BY DEF Dead, Entry
<1>4. Dead(e) \in Entry
  BY <1>2 DEF Dead, Entry
<1> QED BY <1>2, <1>3, <1>4

LEMMA Retire_Inv ==
  ASSUME TableInv, NEW c \in Callsigns, Retire(c)
  PROVE  TableInv'
<1> USE DEF Tracked, NoSlot
<1> DEFINE s == index[c]
           n == Dead(slots[s])
<1>1. /\ s \in DOMAIN slots /\ slots[s].used /\ slots[s].live
      /\ slots[s].callsign = c /\ slots[s] \in Entry
      /\ slots[s].generation < MaxGeneration
      /\ slots' = [slots EXCEPT ![s] = n]
      /\ free' = free /\ index' = index /\ now' = now /\ issued' = issued
  BY DEF Retire, TableInv, TableTypeOK, IndexMatchesSlots
<1>2. /\ n \in Entry /\ n.callsign = c /\ n.used /\ ~n.live
      /\ n.generation = slots[s].generation + 1 /\ slots[s].generation \in Nat
  BY <1>1, DeadEntry
<1> HIDE DEF n
<1>3. /\ slots'[s] = n
      /\ \A t \in DOMAIN slots : t # s => slots'[t] = slots[t]
      /\ DOMAIN slots' = DOMAIN slots /\ Len(slots') = Len(slots)
      /\ slots' \in Seq(Entry)
  BY <1>1, <1>2 DEF TableInv, TableTypeOK
<1>4. TableTypeOK'
  BY <1>1, <1>3 DEF TableInv, TableTypeOK
<1>5. IndexMatchesSlots'
  BY <1>1, <1>2, <1>3 DEF TableInv, IndexMatchesSlots
<1>6. FreeMatchesSlots'
  BY <1>1, <1>2, <1>3 DEF TableInv, FreeMatchesSlots
<1>7. IssuedBelow'
  <2>1. SUFFICES ASSUME NEW p \in issued
                 PROVE  /\ p[1][1] \in DOMAIN slots'
                        /\ 1 <= p[1][2] /\ p[1][2] <= slots'[p[1][1]].generation
                        /\ p[1][2] = slots'[p[1][1]].generation =>
                              /\ slots'[p[1][1]].used /\ slots'[p[1][1]].live
                              /\ slots'[p[1][1]].callsign = p[2]
    BY <1>1 DEF IssuedBelow, LiveSlot
  <2>2. p \in (Nat \X Nat) \X Callsigns
    BY DEF TableInv, TableTypeOK
  <2>3. CASE p[1][1] = s
    BY <1>1, <1>2, <1>3, <2>2, <2>3 DEF TableInv, IssuedBelow
  <2>4. CASE p[1][1] # s
    BY <1>3, <2>4 DEF TableInv, IssuedBelow, LiveSlot
  <2> QED BY <2>3, <2>4
<1>8. LiveIssued'
  BY <1>1, <1>2, <1>3 DEF TableInv, LiveIssued, LiveSlot, HandleOf, Handle
<1>9. SizeBounded'
  BY <1>3 DEF TableInv, SizeBounded
<1> QED BY <1>4, <1>5, <1>6, <1>7, <1>8, <1>9 DEF TableInv

\* A listing of a set of slots names each of them once.
LEMMA ListingProperties ==
  ASSUME NEW S, IsFiniteSet(S), S \subseteq Nat, NEW q \in Listings(S)
  PROVE  /\ q \in Seq(S) /\ Len(q) = Cardinality(S) /\ Cardinality(S) \in Nat
         /\ \A i, j \in 1..Len(q) : q[i] = q[j] => i = j
         /\ \A s \in S : \E i \in 1..Len(q) : q[i] = s
<1> DEFINE k == Cardinality(S)
<1>3. k \in Nat
  BY FS_CardinalityType
<1> HIDE DEF k
<1>4. q \in [1..k -> S] /\ \A i, j \in 1..k : i < j => q[i] < q[j]
  BY DEF Listings, k
<1>5. \A i, j \in 1..k : q[i] = q[j] => i = j
  <2>1. SUFFICES ASSUME NEW i \in 1..k, NEW j \in 1..k, q[i] = q[j], i < j
                 PROVE  FALSE
    BY <1>3
  <2>2. q[i] \in Nat /\ q[i] < q[j]
    BY <1>4, <2>1
  <2> QED BY <2>1, <2>2
<1>6. q \in Injection(1..k, S)
  BY <1>4, <1>5 DEF Injection, IsInjective
<1>7. IsFiniteSet(1..k) /\ Cardinality(1..k) = k
  BY <1>3, FS_Interval
<1>8. q \in Surjection(1..k, S)
  BY <1>6, <1>7, FS_Injection DEF k
<1>9. \A s \in S : \E i \in 1..k : q[i] = s
  BY <1>8 DEF Surjection
<1>10. q \in Seq(S) /\ Len(q) = k
  BY <1>3, <1>4
<1> QED BY <1>3, <1>5, <1>9, <1>10 DEF k

\* What a pass of Sweep does to one slot, and that the slots it retires are
\* not the ones it reclaims.
LEMMA SweepEffect ==
  ASSUME TableInv, Sweep
  PROVE  /\ Len(slots) \in Nat /\ DOMAIN slots = 1..Len(slots)
         /\ slots' \in Seq(Entry)
         /\ Len(slots') = Len(slots) /\ DOMAIN slots' = DOMAIN slots
         /\ Expired \subseteq DOMAIN slots /\ Lapsed \subseteq DOMAIN slots
         /\ \A s \in Expired :
               /\ LiveSlot(s) /\ s \notin Lapsed
               /\ slots'[s].callsign = slots[s].callsign
               /\ slots'[s].used /\ ~slots'[s].live
               /\ slots'[s].generation = slots[s].generation + 1
         /\ \A s \in Lapsed :
               /\ slots[s].used /\ ~slots[s].live
               /\ ~slots'[s].used /\ ~slots'[s].live
               /\ slots'[s].generation = slots[s].generation
         /\ \A s \in DOMAIN slots : s \notin Expired \cup Lapsed =>
               slots'[s] = slots[s]
<1>1. /\ slots \in Seq(Entry) /\ Len(slots) \in Nat
      /\ DOMAIN slots = 1..Len(slots)
      /\ \A s \in DOMAIN slots : slots[s] \in Entry
  BY DEF TableInv, TableTypeOK
<1>2. Expired \subseteq DOMAIN slots /\ Lapsed \subseteq DOMAIN slots
  BY DEF Expired, Lapsed
<1>3. slots' = [s \in DOMAIN slots |->
                    IF s \in Expired THEN Dead(slots[s])
                    ELSE IF s \in Lapsed THEN Unused(slots[s])
                    ELSE slots[s]]
  BY DEF Sweep
<1>4. \A s \in Expired : LiveSlot(s) /\ s \notin Lapsed
                         /\ slots[s].generation < MaxGeneration
  BY DEF Expired, Lapsed, LiveSlot, Sweep
<1>5. \A s \in Lapsed : slots[s].used /\ ~slots[s].live /\ s \notin Expired
  BY DEF Expired, Lapsed, LiveSlot
<1>6. ASSUME NEW s \in Expired
      PROVE  /\ slots'[s] \in Entry
             /\ slots'[s].callsign = slots[s].callsign
             /\ slots'[s].used /\ ~slots'[s].live
             /\ slots'[s].generation = slots[s].generation + 1
  <2>1. slots'[s] = Dead(slots[s]) /\ slots[s] \in Entry
    BY <1>1, <1>2, <1>3
  <2> QED BY <1>4, <2>1, DeadEntry DEF LiveSlot
<1>7. ASSUME NEW s \in Lapsed
      PROVE  /\ slots'[s] \in Entry
             /\ ~slots'[s].used /\ ~slots'[s].live
             /\ slots'[s].generation = slots[s].generation
  <2>1. slots'[s] = Unused(slots[s]) /\ slots[s] \in Entry
    BY <1>1, <1>2, <1>3, <1>5
  <2> QED BY <1>5, <2>1 DEF Unused, Entry
<1>8. \A s \in DOMAIN slots : s \notin Expired \cup Lapsed => slots'[s] = slots[s]
  BY <1>3
<1>9. \A s \in DOMAIN slots : slots'[s] \in Entry
  BY <1>1, <1>6, <1>7, <1>8
<1>10. slots' \in Seq(Entry) /\ Len(slots') = Len(slots) /\ DOMAIN slots' = DOMAIN slots
  BY <1>1, <1>3, <1>9
<1> QED BY <1>1, <1>2, <1>4, <1>5, <1>6, <1>7, <1>8, <1>10

LEMMA Sweep_Inv ==
  ASSUME TableInv, Sweep
  PROVE  TableInv'
<1> USE DEF Tracked, NoSlot
<1>a. /\ Len(slots) \in Nat /\ DOMAIN slots = 1..Len(slots)
      /\ slots' \in Seq(Entry)
      /\ Len(slots') = Len(slots) /\ DOMAIN slots' = DOMAIN slots
      /\ Lapsed \in SUBSET (1..Len(slots))
  BY SweepEffect
<1>b. \A s \in Expired :
          /\ slots[s].used /\ slots[s].live /\ s \notin Lapsed
          /\ slots'[s].callsign = slots[s].callsign
          /\ slots'[s].used /\ ~slots'[s].live
          /\ slots'[s].generation = slots[s].generation + 1
  BY SweepEffect DEF LiveSlot
<1>c. \A s \in Lapsed :
          /\ slots[s].used /\ ~slots[s].live
          /\ ~slots'[s].used /\ ~slots'[s].live
          /\ slots'[s].generation = slots[s].generation
  BY SweepEffect
<1>d. \A s \in DOMAIN slots : s \notin Expired \cup Lapsed => slots'[s] = slots[s]
  BY SweepEffect
<1>1. /\ now' = now /\ now \in Nat /\ issued' = issued
      /\ index' = [c \in Callsigns |->
                      IF \E s \in Lapsed : slots[s].callsign = c
                      THEN NoSlot ELSE index[c]]
      /\ index \in [Callsigns -> Nat]
  BY DEF Sweep, TableInv, TableTypeOK
<1>2. PICK q \in Listings(Lapsed) : free' = free \o q
  BY DEF Sweep
<1>3. /\ q \in Seq(Lapsed) /\ Len(q) \in Nat
      /\ \A i, j \in 1..Len(q) : q[i] = q[j] => i = j
      /\ \A s \in Lapsed : \E i \in 1..Len(q) : q[i] = s
  <2>1. IsFiniteSet(Lapsed) /\ Lapsed \subseteq Nat
    <3>1. IsFiniteSet(1..Len(slots))
      BY <1>a, FS_Interval
    <3>2. Lapsed \in SUBSET (1..Len(slots)) /\ Lapsed \subseteq Nat
      BY <1>a
    <3>3. IsFiniteSet(Lapsed)
      BY <3>1, <3>2, FS_Subset, Zenon
    <3> QED BY <3>2, <3>3
  <2>2. /\ q \in Seq(Lapsed) /\ Len(q) = Cardinality(Lapsed)
        /\ Cardinality(Lapsed) \in Nat
        /\ \A i, j \in 1..Len(q) : q[i] = q[j] => i = j
        /\ \A s \in Lapsed : \E i \in 1..Len(q) : q[i] = s
    BY <1>2, <2>1, ListingProperties
  <2> QED BY <2>2
<1>4. /\ free \in Seq(Nat) /\ Len(free) \in Nat /\ DOMAIN free = 1..Len(free)
      /\ \A i \in DOMAIN free : free[i] \notin Lapsed /\ free[i] \in DOMAIN slots
                               /\ ~slots[free[i]].used
  BY <1>c DEF TableInv, TableTypeOK, FreeMatchesSlots
<1>5. q \in Seq(Nat)
  <2>1. Lapsed \subseteq Nat
    BY <1>a
  <2> QED BY <1>3, <2>1, SeqMonotonic
<1>6. /\ free' \in Seq(Nat)
      /\ DOMAIN free' = 1..(Len(free) + Len(q))
      /\ \A i \in 1..Len(free) : i \in DOMAIN free' /\ free'[i] = free[i]
      /\ \A i \in 1..Len(q) : /\ Len(free) + i \in DOMAIN free'
                              /\ free'[Len(free) + i] = q[i]
      /\ \A i \in DOMAIN free' :
            i \notin 1..Len(free) => /\ i - Len(free) \in 1..Len(q)
                                     /\ free'[i] = q[i - Len(free)]
  <2>1. /\ free \o q \in Seq(Nat)
        /\ Len(free \o q) = Len(free) + Len(q)
        /\ \A i \in 1..(Len(free) + Len(q)) :
              (free \o q)[i] = IF i <= Len(free) THEN free[i]
                               ELSE q[i - Len(free)]
    BY <1>4, <1>5, ConcatProperties
  <2>2. DOMAIN free' = 1..(Len(free) + Len(q))
    BY <1>2, <2>1
  <2>3. ASSUME NEW i \in 1..Len(q)
        PROVE  /\ Len(free) + i \in 1..(Len(free) + Len(q))
               /\ ~(Len(free) + i <= Len(free)) /\ (Len(free) + i) - Len(free) = i
    BY <1>3, <1>4
  <2>4. ASSUME NEW i \in 1..(Len(free) + Len(q)), i \notin 1..Len(free)
        PROVE  i - Len(free) \in 1..Len(q) /\ ~(i <= Len(free))
    BY <1>3, <1>4, <2>4
  <2>5. ASSUME NEW i \in 1..Len(free)
        PROVE  i \in 1..(Len(free) + Len(q)) /\ i <= Len(free)
    BY <1>3, <1>4
  <2> QED BY <1>2, <2>1, <2>2, <2>3, <2>4, <2>5
<1>10a. \A i \in DOMAIN free' : i \notin 1..Len(free) => free'[i] \in Lapsed
  BY <1>3, <1>6, ElementOfSeq
<1>7. TableTypeOK'
  BY <1>1, <1>6, <1>a DEF TableInv, TableTypeOK
<1>8. IndexMatchesSlots'
  <2>1. ASSUME NEW c \in Callsigns, index'[c] # 0
        PROVE  /\ index'[c] \in DOMAIN slots' /\ slots'[index'[c]].used
               /\ slots'[index'[c]].callsign = c
    <3>1. index'[c] = index[c] /\ \A s \in Lapsed : slots[s].callsign # c
      BY <1>1, <2>1
    <3>2. /\ index[c] \in DOMAIN slots /\ slots[index[c]].used
          /\ slots[index[c]].callsign = c /\ index[c] \notin Lapsed
      BY <2>1, <3>1, <1>a, <1>c DEF TableInv, IndexMatchesSlots
    <3> QED BY <3>1, <3>2, <1>a, <1>b, <1>d
  <2>2. ASSUME NEW s \in DOMAIN slots', slots'[s].used
        PROVE  slots'[s].callsign \in Callsigns /\ index'[slots'[s].callsign] = s
    <3>1. s \in DOMAIN slots /\ s \notin Lapsed
      BY <2>2, <1>a, <1>c
    <3>2. slots[s].used /\ slots'[s].callsign = slots[s].callsign
      BY <2>2, <3>1, <1>b, <1>d
    <3>3. slots[s].callsign \in Callsigns /\ index[slots[s].callsign] = s
      BY <3>1, <3>2 DEF TableInv, IndexMatchesSlots
    <3>4. \A t \in Lapsed : slots[t].callsign # slots[s].callsign
      BY <3>1, <3>3, <1>a, <1>c DEF TableInv, IndexMatchesSlots
    <3> QED BY <1>1, <3>2, <3>3, <3>4
  <2> QED BY <2>1, <2>2 DEF IndexMatchesSlots
<1>9. FreeMatchesSlots'
  <2>1. \A i \in DOMAIN free' : free'[i] \in DOMAIN slots' /\ ~slots'[free'[i]].used
    <3>1. SUFFICES ASSUME NEW i \in DOMAIN free'
                   PROVE  free'[i] \in DOMAIN slots' /\ ~slots'[free'[i]].used
      OBVIOUS
    <3>2. CASE i \in 1..Len(free)
      <4>1. /\ free'[i] = free[i] /\ free[i] \notin Lapsed
            /\ free[i] \in DOMAIN slots /\ ~slots[free[i]].used
        BY <1>4, <1>6, <3>2
      <4>2. free[i] \notin Expired
        BY <4>1, <1>b
      <4> QED BY <4>1, <4>2, <1>a, <1>d
    <3>3. CASE i \notin 1..Len(free)
      BY <1>6, <1>a, <1>c, <3>1, <3>3, <1>10a
    <3> QED BY <3>2, <3>3
  <2>2. ASSUME NEW i \in DOMAIN free', NEW j \in DOMAIN free', free'[i] = free'[j]
        PROVE  i = j
    <3>1. CASE i \in 1..Len(free) /\ j \in 1..Len(free)
      BY <1>4, <1>6, <2>2, <3>1 DEF TableInv, FreeMatchesSlots
    <3>2. CASE i \notin 1..Len(free) /\ j \notin 1..Len(free)
      <4>1. /\ i - Len(free) \in 1..Len(q) /\ free'[i] = q[i - Len(free)]
            /\ j - Len(free) \in 1..Len(q) /\ free'[j] = q[j - Len(free)]
        BY <1>6, <2>2, <3>2
      <4>2. i - Len(free) = j - Len(free)
        BY <1>3, <2>2, <4>1
      <4> QED BY <1>3, <1>4, <1>6, <2>2, <4>2
    <3>3. CASE i \in 1..Len(free) /\ j \notin 1..Len(free)
      BY <1>4, <1>6, <1>10a, <2>2, <3>3
    <3>4. CASE i \notin 1..Len(free) /\ j \in 1..Len(free)
      BY <1>4, <1>6, <1>10a, <2>2, <3>4
    <3> QED BY <3>1, <3>2, <3>3, <3>4
  <2>3. ASSUME NEW s \in DOMAIN slots', ~slots'[s].used
        PROVE  ~slots'[s].live /\ \E i \in DOMAIN free' : free'[i] = s
    <3>1. CASE s \in Lapsed
      <4>1. PICK i \in 1..Len(q) : q[i] = s
        BY <1>3, <3>1
      <4>2. Len(free) + i \in DOMAIN free' /\ free'[Len(free) + i] = s
        BY <1>3, <1>4, <1>6, <4>1
      <4> QED BY <3>1, <4>2, <1>c
    <3>2. CASE s \notin Lapsed
      <4>1. s \in DOMAIN slots /\ slots'[s] = slots[s]
        BY <2>3, <3>2, <1>a, <1>b, <1>d
      <4>2. ~slots[s].live /\ \E i \in DOMAIN free : free[i] = s
        BY <2>3, <4>1 DEF TableInv, FreeMatchesSlots
      <4> QED BY <1>3, <1>4, <1>6, <4>1, <4>2
    <3> QED BY <3>1, <3>2
  <2> QED BY <2>1, <2>2, <2>3 DEF FreeMatchesSlots
<1>10. IssuedBelow'
  <2>1. SUFFICES ASSUME NEW p \in issued
                 PROVE  /\ p[1][1] \in DOMAIN slots'
                        /\ 1 <= p[1][2] /\ p[1][2] <= slots'[p[1][1]].generation
                        /\ p[1][2] = slots'[p[1][1]].generation =>
                              /\ slots'[p[1][1]].used /\ slots'[p[1][1]].live
                              /\ slots'[p[1][1]].callsign = p[2]
    BY <1>1 DEF IssuedBelow, LiveSlot
  <2>2. p \in (Nat \X Nat) \X Callsigns /\ p[1][2] \in Nat
    BY DEF TableInv, TableTypeOK
  <2>3. /\ p[1][1] \in DOMAIN slots
        /\ 1 <= p[1][2] /\ p[1][2] <= slots[p[1][1]].generation
        /\ p[1][2] = slots[p[1][1]].generation =>
              /\ slots[p[1][1]].used /\ slots[p[1][1]].live
              /\ slots[p[1][1]].callsign = p[2]
    BY DEF TableInv, IssuedBelow, LiveSlot
  <2>4. slots[p[1][1]].generation \in Nat
    BY <2>3, EntryGeneration DEF TableInv, TableTypeOK
  <2>5. CASE p[1][1] \in Expired
    BY <2>2, <2>3, <2>4, <2>5, <1>a, <1>b
  <2>6. CASE p[1][1] \in Lapsed
    BY <2>2, <2>3, <2>4, <2>6, <1>a, <1>c
  <2>7. CASE p[1][1] \notin Expired \cup Lapsed
    BY <2>3, <2>7, <1>a, <1>d
  <2> QED BY <2>5, <2>6, <2>7
<1>11. LiveIssued'
  BY <1>1, <1>a, <1>b, <1>c, <1>d
     DEF TableInv, LiveIssued, LiveSlot, HandleOf, Handle
<1>12. SizeBounded'
  BY <1>a DEF TableInv, SizeBounded
<1> QED BY <1>7, <1>8, <1>9, <1>10, <1>11, <1>12 DEF TableInv

LEMMA TableNext_Inv == TableInv /\ [TableNext]_tableVars => TableInv'
<1> SUFFICES ASSUME TableInv, [TableNext]_tableVars
             PROVE  TableInv'
  OBVIOUS
<1>1. CASE Tick
  BY <1>1, Tick_Inv
<1>2. ASSUME NEW c \in Callsigns, Observe(c)
      PROVE  TableInv'
  BY <1>2, ObserveTracked_Inv, ObserveRecycled_Inv, ObserveFresh_Inv DEF Observe
<1>3. ASSUME NEW c \in Callsigns, Retire(c)
      PROVE  TableInv'
  BY <1>3, Retire_Inv
<1>4. CASE Sweep
  BY <1>4, Sweep_Inv
<1>5. CASE UNCHANGED tableVars
  BY <1>5 DEF tableVars, TableInv, TableTypeOK, IndexMatchesSlots,
              FreeMatchesSlots, IssuedBelow, LiveIssued, SizeBounded,
              Tracked, LiveSlot, HandleOf
<1> QED BY <1>1, <1>2, <1>3, <1>4, <1>5 DEF TableNext

-----------------------------------------------------------------------------
(* Who is in sight, for the modules on top of the table.                   *)

OfLiveSlot(s, c) == s \in DOMAIN slots /\ LiveSlot(s) /\ slots[s].callsign = c

\* Sighting an aircraft leaves every other one in its slot, under its handle.
LEMMA ObserveKeepsLive ==
  ASSUME TableInv, NEW c \in Callsigns, Observe(c)
  PROVE  \A s, d : OfLiveSlot(s, d) => OfLiveSlot(s, d)' /\ HandleOf(s)' = HandleOf(s)
<1>1. slots \in Seq(Entry) /\ DOMAIN slots = 1..Len(slots) /\ Len(slots) \in Nat
  BY DEF TableInv, TableTypeOK
<1>2. CASE ObserveTracked(c)
  <2> DEFINE e == slots[index[c]]
             n == [e EXCEPT !.live = TRUE,
                            !.firstSeen = IF e.live THEN @ ELSE now,
                            !.lastSeen = now]
  <2>1. slots' = [slots EXCEPT ![index[c]] = n] /\ index[c] \in DOMAIN slots /\ e.used
        /\ e \in Entry
    BY <1>1, <1>2 DEF ObserveTracked, TableInv, IndexMatchesSlots
  <2>2. n.live /\ n.used /\ n.callsign = e.callsign /\ n.generation = e.generation
    BY <2>1 DEF Entry
  <2> HIDE DEF n
  <2>3. DOMAIN slots' = DOMAIN slots /\ slots'[index[c]] = n
        /\ \A s \in DOMAIN slots : s # index[c] => slots'[s] = slots[s]
    BY <2>1
  <2> QED BY <2>2, <2>3 DEF OfLiveSlot, LiveSlot, HandleOf
<1>3. CASE ObserveRecycled(c)
  <2> DEFINE s0 == free[Len(free)]
  <2>1. free \in Seq(Nat) /\ free # <<>>
    BY <1>3 DEF ObserveRecycled, TableInv, TableTypeOK
  <2>2. Len(free) \in DOMAIN free
    BY <2>1
  <2>3. s0 \in DOMAIN slots /\ ~slots[s0].used
    BY <2>2 DEF TableInv, FreeMatchesSlots
  <2>4. DOMAIN slots' = DOMAIN slots /\ \A s \in DOMAIN slots : s # s0 => slots'[s] = slots[s]
    BY <1>3 DEF ObserveRecycled
  <2> QED BY <2>3, <2>4 DEF OfLiveSlot, LiveSlot, HandleOf
<1>4. CASE ObserveFresh(c)
  <2>1. \A s \in DOMAIN slots : s \in DOMAIN slots' /\ slots'[s] = slots[s]
    <3>1. PICK e : slots' = Append(slots, e)
      BY <1>4 DEF ObserveFresh
    <3> QED BY <1>1, <3>1
  <2> QED BY <2>1 DEF OfLiveSlot, LiveSlot, HandleOf
<1> QED BY <1>2, <1>3, <1>4 DEF Observe

\* Retirement takes no slot but those it is about.
LEMMA RetireKeepsOthers ==
  ASSUME TableInv, NEW S,
         \/ \E c \in Callsigns : Retire(c) /\ S = {index[c]}
         \/ Sweep /\ S = Expired
  PROVE  \A s, d : OfLiveSlot(s, d) /\ s \notin S => OfLiveSlot(s, d)' /\ HandleOf(s)' = HandleOf(s)
<1>1. ASSUME NEW c \in Callsigns, Retire(c), S = {index[c]}
      PROVE  \A s, d : OfLiveSlot(s, d) /\ s \notin S => OfLiveSlot(s, d)' /\ HandleOf(s)' = HandleOf(s)
  <2>1. slots \in Seq(Entry)
    BY DEF TableInv, TableTypeOK
  <2>2. DOMAIN slots' = DOMAIN slots /\ \A s \in DOMAIN slots : s # index[c] => slots'[s] = slots[s]
    BY <1>1, <2>1 DEF Retire
  <2> QED BY <1>1, <2>2 DEF OfLiveSlot, LiveSlot, HandleOf
<1>2. CASE Sweep /\ S = Expired
  <2>1. \A s \in DOMAIN slots : LiveSlot(s) => s \notin Lapsed
    BY DEF LiveSlot, Lapsed
  <2> QED BY <1>2, <2>1, SweepEffect DEF OfLiveSlot, LiveSlot, HandleOf
<1> QED BY <1>1, <1>2
-----------------------------------------------------------------------------
\* The table's invariant, for every behaviour of the specification.
THEOREM TableInvariant == TableSpec => []TableInv
<1>1. TableInit => TableInv
  BY TableInit_Inv
<1>2. TableInv /\ [TableNext]_tableVars => TableInv'
  BY TableNext_Inv
<1> QED BY <1>1, <1>2, PTL DEF TableSpec

\* Type correctness.
THEOREM TypeCorrect == TableSpec => []TableTypeOK
<1>1. TableInv => TableTypeOK
  BY DEF TableInv
<1> QED BY <1>1, TableInvariant, PTL

\* The index, the used entries and the free list partition the slots.
THEOREM SlotsAreConserved == TableSpec => []SlotsConserved
<1>1. TableInv => SlotsConserved
  BY DEF TableInv, SlotsConserved
<1> QED BY <1>1, TableInvariant, PTL

\* A handle that validates names the aircraft it was issued for.
THEOREM HandlesNeverRetarget == TableSpec => []NeverRetargets
<1>1. TableInv => NeverRetargets
  <2>1. SUFFICES ASSUME TableInv, NEW p \in issued, Validate(p[1]) = "OK"
                 PROVE  CallsignOf(p[1]) = p[2] /\ Resolve(p[2]) = p[1]
    BY DEF NeverRetargets
  <2>2. /\ p \in (Nat \X Nat) \X Callsigns
        /\ p[1] = <<p[1][1], p[1][2]>> /\ p[2] \in Callsigns
    BY <2>1 DEF TableInv, TableTypeOK
  <2>3. /\ p[1][1] \in DOMAIN slots /\ LiveSlot(p[1][1])
        /\ slots[p[1][1]].generation = p[1][2]
    BY <2>1 DEF Validate
  <2>4. slots[p[1][1]].callsign = p[2]
    BY <2>1, <2>3 DEF TableInv, IssuedBelow
  <2>5. index[p[2]] = p[1][1] /\ p[1][1] # NoSlot
    <3>1. slots[p[1][1]].used
      BY <2>3 DEF LiveSlot
    <3>2. DOMAIN slots = 1..Len(slots)
      BY <2>1 DEF TableInv, TableTypeOK
    <3> QED BY <2>1, <2>3, <2>4, <3>1, <3>2
            DEF TableInv, IndexMatchesSlots, NoSlot
  <2>6. Resolve(p[2]) = p[1]
    BY <2>2, <2>3, <2>5 DEF Resolve, Tracked, HandleOf, Handle
  <2> QED BY <2>4, <2>6 DEF CallsignOf
<1> QED BY <1>1, TableInvariant, PTL

\* A tracked callsign loses its slot only after the TTL and the grace period.
THEOREM SlotIsKept == TableSpec => ReconnectKeepsSlot
<1>1. ASSUME TableInv, [TableNext]_tableVars, NEW c \in Callsigns, Tracked(c),
             index'[c] # index[c]
      PROVE  now - slots[index[c]].lastSeen >= TtlMs + GraceMs
  <2>1. CASE Sweep
    <3>1. PICK s \in Lapsed : slots[s].callsign = c
      BY <1>1, <2>1 DEF Sweep, TableInv, TableTypeOK
    <3>2. s = index[c] /\ slots[s] \in Entry /\ Age(slots[s]) >= TtlMs + GraceMs
      BY <1>1, <3>1 DEF Lapsed, TableInv, TableTypeOK, IndexMatchesSlots
    <3>3. slots[s].lastSeen \in Nat /\ now \in Nat
      BY <1>1, <3>2 DEF Entry, TableInv, TableTypeOK
    <3>4. CASE now > slots[s].lastSeen
      BY <3>2, <3>4 DEF Age
    <3>5. CASE ~(now > slots[s].lastSeen)
      <4>1. 0 >= TtlMs + GraceMs
        BY <3>2, <3>5 DEF Age
      <4> QED BY <4>1, TableAssumption
    <3> QED BY <3>2, <3>4, <3>5
  <2>2. ASSUME NEW d \in Callsigns, ObserveTracked(d) \/ Retire(d)
        PROVE  FALSE
    BY <1>1, <2>2 DEF ObserveTracked, Retire
  <2>3. ASSUME NEW d \in Callsigns, ObserveRecycled(d) \/ ObserveFresh(d)
        PROVE  FALSE
    <3>1. c # d
      BY <1>1, <2>3 DEF ObserveRecycled, ObserveFresh
    <3> QED BY <1>1, <2>3, <3>1
            DEF ObserveRecycled, ObserveFresh, TableInv, TableTypeOK
  <2>4. CASE Tick \/ UNCHANGED tableVars
    BY <1>1, <2>4 DEF Tick, tableVars
  <2> QED BY <1>1, <2>1, <2>2, <2>3, <2>4 DEF TableNext, Observe
<1>2. TableInv /\ [TableNext]_tableVars =>
        [\A c \in Callsigns :
           Tracked(c) /\ index'[c] # index[c] =>
             now - slots[index[c]].lastSeen >= TtlMs + GraceMs]_tableVars
  BY <1>1
<1> QED BY <1>2, TableInvariant, PTL DEF TableSpec, ReconnectKeepsSlot

\* The vector grows only when no slot is free.
THEOREM GrowthIsBounded == TableSpec => GrowsOnlyWhenFull
<1>1. ASSUME TableInv, [TableNext]_tableVars, Len(slots') > Len(slots),
             NEW s \in DOMAIN slots
      PROVE  slots[s].used
  <2>1. CASE free = <<>>
    BY <1>1, <2>1 DEF TableInv, FreeMatchesSlots
  <2>2. CASE free # <<>>
    <3>1. ASSUME NEW c \in Callsigns, Observe(c)
          PROVE  Len(slots') = Len(slots)
      <4>1. slots \in Seq(Entry)
        BY <1>1 DEF TableInv, TableTypeOK
      <4> QED BY <2>2, <3>1, <4>1
              DEF Observe, ObserveTracked, ObserveRecycled, ObserveFresh
    <3>2. ASSUME NEW c \in Callsigns, Retire(c)
          PROVE  Len(slots') = Len(slots)
      BY <1>1, <3>2 DEF Retire, TableInv, TableTypeOK
    <3>3. Sweep => Len(slots') = Len(slots)
      BY <1>1, SweepEffect
    <3>4. Tick \/ UNCHANGED tableVars => Len(slots') = Len(slots)
      BY DEF Tick, tableVars
    <3>5. Len(slots) \in Nat
      BY <1>1 DEF TableInv, TableTypeOK
    <3> QED BY <1>1, <3>1, <3>2, <3>3, <3>4, <3>5 DEF TableNext
  <2> QED BY <2>1, <2>2
<1>2. TableInv /\ [TableNext]_tableVars =>
        [Len(slots') > Len(slots) =>
           \A s \in DOMAIN slots : slots[s].used]_tableVars
  BY <1>1
<1> QED BY <1>2, TableInvariant, PTL DEF TableSpec, GrowsOnlyWhenFull
-----------------------------------------------------------------------------
(* The refinement.                                                         *)

\* What Resolve answers, from the slot the callsign's entry is in.
LEMMA ResolveCases ==
  ASSUME TableInv, NEW c \in Callsigns
  PROVE  /\ Tracked(c) /\ LiveSlot(index[c]) =>
               /\ Resolve(c) = HandleOf(index[c]) /\ Resolve(c) # NoHandle
         /\ ~(Tracked(c) /\ LiveSlot(index[c])) => Resolve(c) = NoHandle
<1>1. ASSUME Tracked(c)
      PROVE  slots[index[c]].generation \in Nat /\ slots[index[c]].generation # 0
  <2>1. slots[index[c]] \in Entry
    BY <1>1 DEF TableInv, TableTypeOK, IndexMatchesSlots
  <2> QED BY <2>1, EntryGeneration
<1> QED BY <1>1 DEF Resolve, HandleOf, Handle, NoHandle

\* An issued handle whose generation has reached its slot's is answered by
\* Resolve; so the handle of a dead slot, or one generation on, is fresh.
LEMMA FreshHandle ==
  ASSUME TableInv, NEW s \in DOMAIN slots, NEW g \in Nat, NEW d \in Callsigns,
         \/ g = slots[s].generation /\ ~LiveSlot(s)
         \/ g = slots[s].generation + 1
  PROVE  <<<<s, g>>, d>> \notin issued
<1>1. slots[s].generation \in Nat
  <2>1. slots[s] \in Entry
    BY DEF TableInv, TableTypeOK
  <2> QED BY <2>1, EntryGeneration
<1>2. SUFFICES ASSUME <<<<s, g>>, d>> \in issued
               PROVE  FALSE
  OBVIOUS
<1>3. g <= slots[s].generation /\ (g = slots[s].generation => LiveSlot(s))
  BY <1>2 DEF TableInv, IssuedBelow
<1> QED BY <1>1, <1>3

\* A step that leaves a callsign's index entry and its slot alone leaves the
\* answer of Resolve alone.
LEMMA ResolveUntouched ==
  ASSUME TableInv, NEW d \in Callsigns, index'[d] = index[d],
         Tracked(d) => slots'[index[d]] = slots[index[d]]
  PROVE  Resolve(d)' = Resolve(d)
BY DEF Resolve, Tracked, LiveSlot, HandleOf

\* Two callsigns never share a slot.
LEMMA SlotsDistinct ==
  ASSUME TableInv, NEW c \in Callsigns, NEW d \in Callsigns, c # d, Tracked(d)
  PROVE  /\ index[d] \in DOMAIN slots /\ slots[index[d]].used
         /\ slots[index[d]].callsign = d
         /\ index[d] # index[c]
BY DEF TableInv, IndexMatchesSlots, Tracked, NoSlot

LEMMA ObserveTracked_Refines ==
  ASSUME TableInv, NEW c \in Callsigns, ObserveTracked(c)
  PROVE  [Promise!Next]_(Promise!handleVars)
<1> DEFINE s == index[c]
<1>1. /\ Tracked(c) /\ s \in DOMAIN slots /\ slots[s].used
      /\ slots[s].callsign = c /\ slots[s] \in Entry
      /\ s \in 1..MaxSlots
  <2>1. /\ Tracked(c) /\ s \in DOMAIN slots /\ slots[s].used
        /\ slots[s].callsign = c
    BY DEF ObserveTracked, TableInv, IndexMatchesSlots
  <2>2. slots \in Seq(Entry) /\ Len(slots) <= MaxSlots
    BY DEF TableInv, TableTypeOK, SizeBounded
  <2>3. slots[s] \in Entry /\ s \in 1..Len(slots) /\ Len(slots) \in Nat
    BY <2>1, <2>2
  <2>4. s \in 1..MaxSlots
    BY <2>2, <2>3, TableAssumption
  <2> QED BY <2>1, <2>3, <2>4
<1>2. /\ index' = index /\ DOMAIN slots' = DOMAIN slots
      /\ slots'[s].used /\ slots'[s].live
      /\ slots'[s].generation = slots[s].generation
      /\ \A t \in DOMAIN slots : t # s => slots'[t] = slots[t]
      /\ issued' = issued \cup {<<HandleOf(s), c>>}
  BY <1>1 DEF ObserveTracked, Issue, TableInv, TableTypeOK, HandleOf, Entry
<1>3. ASSUME NEW d \in Callsigns, d # c
      PROVE  Resolve(d)' = Resolve(d)
  BY <1>2, <1>3, SlotsDistinct, ResolveUntouched
<1>4. Resolve(c)' = HandleOf(s)
  BY <1>1, <1>2 DEF Resolve, Tracked, LiveSlot, HandleOf
<1>5. CASE slots[s].live
  <2>1. Resolve(c) = HandleOf(s)
    BY <1>1, <1>5 DEF Resolve, LiveSlot
  <2>2. issued' = issued
    BY <1>1, <1>2, <1>5 DEF TableInv, LiveIssued, LiveSlot
  <2>3. \A d \in Callsigns : Resolve(d)' = Resolve(d)
    BY <1>3, <1>4, <2>1
  <2> QED BY <2>2, <2>3 DEF Promise!handleVars
<1>6. CASE ~slots[s].live
  <2>1. Resolve(c) = NoHandle
    BY <1>6 DEF Resolve, LiveSlot
  <2>2. slots[s].generation \in 1..MaxGeneration /\ slots[s].generation \in Nat
    BY <1>1, EntryGeneration
  <2>3. HandleOf(s) \in (1..MaxSlots) \X (1..MaxGeneration)
    BY <1>1, <2>2, TableAssumption DEF HandleOf, Handle
  <2>4. \A d \in Callsigns : <<HandleOf(s), d>> \notin issued
    BY <1>1, <1>6, <2>2, FreshHandle DEF HandleOf, Handle, LiveSlot
  <2>5. Promise!Appear(c, HandleOf(s))
    BY <1>2, <1>3, <1>4, <2>1, <2>4 DEF Promise!Appear, Promise!InSight
  <2> QED BY <2>3, <2>5 DEF Promise!Next
<1> QED BY <1>5, <1>6

\* A callsign with no entry gets a slot it shares with nobody: what the two
\* ways of allocating one have in common.
LEMMA Allocation_Refines ==
  ASSUME TableInv, NEW c \in Callsigns, ~Tracked(c),
         NEW s \in (1..MaxSlots), NEW g \in (1..MaxGeneration),
         index' = [index EXCEPT ![c] = s],
         slots'[s].used, slots'[s].live, slots'[s].generation = g,
         \A d \in Callsigns : Tracked(d) => slots'[index[d]] = slots[index[d]],
         \A d \in Callsigns : <<<<s, g>>, d>> \notin issued,
         issued' = issued \cup {<<Handle(s, g), c>>}
  PROVE  [Promise!Next]_(Promise!handleVars)
<1>1. index \in [Callsigns -> Nat] /\ s # NoSlot
  BY TableAssumption DEF TableInv, TableTypeOK, NoSlot
<1>2. ASSUME NEW d \in Callsigns, d # c
      PROVE  Resolve(d)' = Resolve(d)
  BY <1>1, <1>2, ResolveUntouched
<1>3. Resolve(c) = NoHandle
  BY DEF Resolve
<1>4. Resolve(c)' = Handle(s, g)
  BY <1>1 DEF Resolve, Tracked, LiveSlot, HandleOf
<1>5. Promise!Appear(c, Handle(s, g))
  BY <1>2, <1>3, <1>4 DEF Promise!Appear, Promise!InSight, Handle
<1>6. Handle(s, g) \in (1..MaxSlots) \X (1..MaxGeneration)
  BY DEF Handle
<1> QED BY <1>5, <1>6 DEF Promise!Next

LEMMA ObserveRecycled_Refines ==
  ASSUME TableInv, NEW c \in Callsigns, ObserveRecycled(c)
  PROVE  [Promise!Next]_(Promise!handleVars)
<1> DEFINE s == free[Len(free)]
           g == slots[s].generation + 1
<1>1. /\ ~Tracked(c) /\ free \in Seq(Nat) /\ Len(free) \in Nat /\ Len(free) >= 1
      /\ slots \in Seq(Entry) /\ g <= MaxGeneration /\ Len(slots) <= MaxSlots
      /\ index' = [index EXCEPT ![c] = s]
      /\ issued' = issued \cup {<<Handle(s, g), c>>}
  BY DEF ObserveRecycled, Issue, TableInv, TableTypeOK, SizeBounded
<1>2. s \in DOMAIN slots /\ ~slots[s].used /\ slots[s] \in Entry
  BY <1>1 DEF TableInv, FreeMatchesSlots
<1>3. slots[s].generation \in Nat
  BY <1>2, EntryGeneration
<1>4. s \in 1..MaxSlots /\ g \in 1..MaxGeneration /\ g \in Nat
  BY <1>1, <1>2, <1>3, TableAssumption
<1>5. /\ slots'[s].used /\ slots'[s].live /\ slots'[s].generation = g
      /\ \A t \in DOMAIN slots : t # s => slots'[t] = slots[t]
  BY <1>1, <1>2 DEF ObserveRecycled
<1>6. \A d \in Callsigns : <<<<s, g>>, d>> \notin issued
  BY <1>2, <1>4, FreshHandle
<1> HIDE DEF s, g
<1>7. \A d \in Callsigns : Tracked(d) => slots'[index[d]] = slots[index[d]]
  BY <1>2, <1>5 DEF TableInv, IndexMatchesSlots
<1> QED BY <1>1, <1>4, <1>5, <1>6, <1>7, Allocation_Refines

LEMMA ObserveFresh_Refines ==
  ASSUME TableInv, NEW c \in Callsigns, ObserveFresh(c)
  PROVE  [Promise!Next]_(Promise!handleVars)
<1> DEFINE s == Len(slots) + 1
<1>1. /\ ~Tracked(c) /\ slots \in Seq(Entry) /\ Len(slots) \in Nat
      /\ DOMAIN slots = 1..Len(slots)
      /\ 1 <= MaxGeneration /\ Len(slots) < MaxSlots
      /\ index' = [index EXCEPT ![c] = s]
      /\ issued' = issued \cup {<<Handle(s, 1), c>>}
  BY DEF ObserveFresh, Issue, TableInv, TableTypeOK
<1>2. s \in 1..MaxSlots /\ 1 \in 1..MaxGeneration /\ s \notin DOMAIN slots
  BY <1>1, TableAssumption
<1>3. /\ slots'[s].used /\ slots'[s].live /\ slots'[s].generation = 1
      /\ \A t \in DOMAIN slots : slots'[t] = slots[t]
  BY <1>1 DEF ObserveFresh
<1>4. \A d \in Callsigns : <<<<s, 1>>, d>> \notin issued
  BY <1>2 DEF TableInv, IssuedBelow
<1> HIDE DEF s
<1>5. \A d \in Callsigns : Tracked(d) => slots'[index[d]] = slots[index[d]]
  BY <1>3 DEF TableInv, IndexMatchesSlots
<1> QED BY <1>1, <1>2, <1>3, <1>4, <1>5, Allocation_Refines

LEMMA Retire_Refines ==
  ASSUME TableInv, NEW c \in Callsigns, Retire(c)
  PROVE  [Promise!Next]_(Promise!handleVars)
<1> DEFINE s == index[c]
<1>1. /\ Tracked(c) /\ s \in DOMAIN slots /\ LiveSlot(s) /\ slots[s] \in Entry
      /\ slots[s].generation < MaxGeneration
      /\ slots' = [slots EXCEPT ![s] = Dead(slots[s])]
      /\ index' = index /\ issued' = issued
  BY DEF Retire, LiveSlot, TableInv, TableTypeOK, IndexMatchesSlots
<1>2. ~slots'[s].live
  BY <1>1, DeadEntry
<1>3. Resolve(c) # NoHandle /\ Resolve(c)' = NoHandle
  BY <1>1, <1>2, ResolveCases DEF Resolve, LiveSlot
<1>4. ASSUME NEW d \in Callsigns, d # c
      PROVE  Resolve(d)' = Resolve(d)
  BY <1>1, <1>4, SlotsDistinct, ResolveUntouched
<1>5. Promise!Disappear({c}) /\ {c} \in SUBSET Promise!InSight
  BY <1>1, <1>3, <1>4 DEF Promise!Disappear, Promise!InSight
<1> QED BY <1>5 DEF Promise!Next

LEMMA Sweep_Refines ==
  ASSUME TableInv, Sweep
  PROVE  [Promise!Next]_(Promise!handleVars)
<1> DEFINE gone == {c \in Callsigns : Tracked(c) /\ index[c] \in Expired}
<1>1. /\ issued' = issued
      /\ \A c \in Callsigns :
            index'[c] = IF \E s \in Lapsed : slots[s].callsign = c
                        THEN NoSlot ELSE index[c]
  BY DEF Sweep
<1>2. ASSUME NEW c \in gone
      PROVE  Resolve(c) # NoHandle /\ Resolve(c)' = NoHandle
  <2>1. LiveSlot(index[c]) /\ ~slots'[index[c]].live /\ slots[index[c]].callsign = c
    BY <1>2, SweepEffect DEF TableInv, IndexMatchesSlots
  <2>2. Resolve(c) # NoHandle
    BY <1>2, <2>1, ResolveCases
  <2>3. index'[c] = NoSlot \/ index'[c] = index[c]
    BY <1>1
  <2> QED BY <2>1, <2>2, <2>3 DEF Resolve, Tracked, LiveSlot
<1>3. ASSUME NEW c \in Callsigns, c \notin gone
      PROVE  Resolve(c)' = Resolve(c)
  <2>1. CASE \E s \in Lapsed : slots[s].callsign = c
    <3>1. PICK s \in Lapsed : slots[s].callsign = c
      BY <2>1
    <3>2. index[c] = s /\ ~LiveSlot(s)
      BY <3>1, SweepEffect DEF TableInv, IndexMatchesSlots, LiveSlot
    <3> QED BY <1>1, <2>1, <3>2 DEF Resolve, Tracked
  <2>2. CASE ~\E s \in Lapsed : slots[s].callsign = c
    <3>1. index'[c] = index[c]
      BY <1>1, <2>2
    <3>2. ASSUME Tracked(c)
          PROVE  slots'[index[c]] = slots[index[c]]
      <4>1. /\ index[c] \in DOMAIN slots /\ slots[index[c]].callsign = c
            /\ index[c] \notin Expired
        BY <1>3, <3>2 DEF TableInv, IndexMatchesSlots
      <4>2. index[c] \notin Lapsed
        BY <2>2, <4>1
      <4> QED BY <4>1, <4>2, SweepEffect
    <3> QED BY <3>1, <3>2, ResolveUntouched
  <2> QED BY <2>1, <2>2
<1>4. CASE gone = {}
  BY <1>1, <1>3, <1>4 DEF Promise!handleVars
<1>5. CASE gone # {}
  <2>1. gone \in SUBSET Promise!InSight
    BY <1>2 DEF Promise!InSight
  <2>2. Promise!Disappear(gone)
    BY <1>1, <1>2, <1>3, <1>5 DEF Promise!Disappear
  <2> QED BY <2>1, <2>2 DEF Promise!Next
<1> QED BY <1>4, <1>5

\* The table keeps the promise of AircraftHandles: a callsign in sight has a
\* handle of its own, never given out before and never given out again.
THEOREM Implementation == TableSpec => ImplementsHandles
<1>1. TableInit => Promise!Init
  BY DEF TableInit, Promise!Init, Resolve, Tracked
<1>2. TableInv /\ [TableNext]_tableVars => [Promise!Next]_(Promise!handleVars)
  <2> SUFFICES ASSUME TableInv, [TableNext]_tableVars
               PROVE  [Promise!Next]_(Promise!handleVars)
    OBVIOUS
  <2>1. CASE Tick \/ UNCHANGED tableVars
    BY <2>1 DEF Tick, tableVars, Promise!handleVars, Resolve, Tracked, LiveSlot,
                HandleOf
  <2>2. ASSUME NEW c \in Callsigns, Observe(c)
        PROVE  [Promise!Next]_(Promise!handleVars)
    BY <2>2, ObserveTracked_Refines, ObserveRecycled_Refines,
       ObserveFresh_Refines DEF Observe
  <2>3. ASSUME NEW c \in Callsigns, Retire(c)
        PROVE  [Promise!Next]_(Promise!handleVars)
    BY <2>3, Retire_Refines
  <2>4. CASE Sweep
    BY <2>4, Sweep_Refines
  <2> QED BY <2>1, <2>2, <2>3, <2>4 DEF TableNext
<1> QED BY <1>1, <1>2, TableInvariant, PTL
        DEF TableSpec, ImplementsHandles, Promise!Spec
=============================================================================
