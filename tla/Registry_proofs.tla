---------------------------- MODULE Registry_proofs ----------------------------
(***************************************************************************)
(* Proofs about Registry for any declarations, values, plugins and bounds. *)
(*                                                                         *)
(* The invariant has three parts.  Claims: a live entry of m_providers is  *)
(* the one its id leads to and owns every field it declared; the owner of  *)
(* a field is an entry that declared it.  Values: each has the type and    *)
(* scope of its field and was published by the owner, which is live.       *)
(* Lists: m_slotFields mirrors m_aircraft, of slots in sight alone.        *)
(***************************************************************************)
EXTENDS Registry, AircraftTable_proofs

Provider == [id : Ids, version : {d.version : d \in Decls}, module : Bases, path : Paths,
             fields : SUBSET FieldNames, revision : Nat, live : BOOLEAN]
Field == [type : Types, scope : Scopes, persist : BOOLEAN, provider : Nat]
Plugin == [path : Paths, handles : SUBSET Nat]

ClaimTypes ==
    /\ providers \in Seq(Provider)
    /\ claim \in [Ids -> Nat]
    /\ DOMAIN fields \subseteq FieldNames
    /\ \A q \in DOMAIN fields : fields[q] \in Field
    /\ \A b \in DOMAIN loaded : b \in Bases /\ loaded[b] \in Plugin
    /\ clock \in Nat /\ dirty \in BOOLEAN
    /\ \A q \in DOMAIN staged : staged[q] \in Values

\* The declaration an entry was made from, and what the catalogue kept of it.
Declares(d, p) ==
    /\ d.id = p.id /\ d.version = p.version /\ p.fields = Qualified(d)
    /\ \A n \in DOMAIN d.fields : /\ <<d.id, n>> \in DOMAIN fields
                                  /\ fields[<<d.id, n>>].type = d.fields[n].type

Declared ==
    \A i \in DOMAIN providers :
        /\ \E d \in Decls : Declares(d, providers[i])
        /\ 1 <= providers[i].revision /\ providers[i].revision <= clock

Owners ==
    \A q \in DOMAIN fields :
        /\ fields[q].provider \in DOMAIN providers
        /\ q \in providers[fields[q].provider].fields

Claimants ==
    /\ \A id \in Ids : claim[id] # NoProvider =>
          claim[id] \in DOMAIN providers /\ providers[claim[id]].id = id
    /\ \A i \in DOMAIN providers : providers[i].live =>
          /\ claim[providers[i].id] = i
          /\ \A q \in providers[i].fields : fields[q].provider = i

ClaimInv == ClaimTypes /\ Declared /\ Owners /\ Claimants

\* A cell under a field: what may be kept there.
Fits(q, cell) ==
    /\ q \in DOMAIN fields
    /\ cell \in Cell /\ cell.value.type = fields[q].type
    /\ cell.claimant = fields[q].provider
    /\ providers[fields[q].provider].live

GlobalsInv ==
    \A q \in DOMAIN globals : Fits(q, globals[q]) /\ fields[q].scope = "GLOBAL"

AircraftInv ==
    \A k \in DOMAIN aircraft :
        /\ k \in FieldNames \X Nat
        /\ Fits(k[1], aircraft[k]) /\ fields[k[1]].scope = "AIRCRAFT"
        /\ k[2] \in DOMAIN slots /\ LiveSlot(k[2])

Lists ==
    /\ \A k \in DOMAIN aircraft :
          k[2] \in DOMAIN slotFields /\ k[1] \in slotFields[k[2]]
    /\ \A s \in DOMAIN slotFields :
          /\ slotFields[s] # {}
          /\ \A q \in slotFields[s] : <<q, s>> \in DOMAIN aircraft

ValueInv == GlobalsInv /\ AircraftInv /\ Lists

RegInv == TableInv /\ ClaimInv /\ ValueInv
-----------------------------------------------------------------------------
LEMMA RegistryInit_Inv == RegistryInit => RegInv
<1> SUFFICES ASSUME RegistryInit PROVE RegInv
  OBVIOUS
<1>1. TableInv
  BY TableInit_Inv DEF RegistryInit
<1>2. DOMAIN <<>> = {} /\ <<>> \in Seq(Provider)
  OBVIOUS
<1>3. /\ providers = <<>> /\ DOMAIN fields = {} /\ DOMAIN globals = {} /\ DOMAIN aircraft = {}
      /\ DOMAIN slotFields = {} /\ DOMAIN loaded = {} /\ DOMAIN providers = {}
      /\ claim = [id \in Ids |-> NoProvider] /\ clock = 0 /\ dirty = FALSE /\ staged \in Saved
  BY <1>2 DEF RegistryInit
<1>4. ClaimTypes
  BY <1>2, <1>3, RegistryAssumption DEF ClaimTypes, NoProvider
<1>5. ClaimInv
  BY <1>3, <1>4 DEF ClaimInv, Declared, Owners, Claimants
<1>6. ValueInv
  BY <1>3 DEF ValueInv, GlobalsInv, AircraftInv, Lists
<1> QED BY <1>1, <1>5, <1>6 DEF RegInv

\* Every declaration is about its own provider's fields.
LEMMA OwnNames ==
  ASSUME NEW d \in Decls
  PROVE  /\ d.id \in Ids /\ Qualified(d) \subseteq FieldNames
         /\ \A q \in Qualified(d) : q = <<d.id, q[2]>> /\ q[1] = d.id /\ q[2] \in DOMAIN d.fields
         /\ \A n \in DOMAIN d.fields : <<d.id, n>> \in Qualified(d)
BY DEF Ids, Qualified, FieldNames

LEMMA ProvidersAre ==
  ASSUME ClaimInv
  PROVE  /\ Len(providers) \in Nat /\ DOMAIN providers = 1..Len(providers)
         /\ \A i \in DOMAIN providers : providers[i] \in Provider
BY DEF ClaimInv, ClaimTypes

\* A field with a live owner is its provider's, and the provider is the one its
\* id leads to.
LEMMA LiveOwner ==
  ASSUME ClaimInv, NEW q \in DOMAIN fields, providers[fields[q].provider].live
  PROVE  LET i == fields[q].provider
         IN  /\ i \in DOMAIN providers /\ q \in providers[i].fields
             /\ claim[q[1]] = i /\ q[1] = providers[i].id /\ q[1] \in Ids /\ i # NoProvider
<1> DEFINE i == fields[q].provider
<1>1. i \in DOMAIN providers /\ q \in providers[i].fields
  BY DEF ClaimInv, Owners
<1>2. PICK d \in Decls : Declares(d, providers[i])
  BY <1>1 DEF ClaimInv, Declared
<1>3. q[1] = providers[i].id /\ q[1] \in Ids
  BY <1>1, <1>2, OwnNames DEF Declares
<1>4. claim[providers[i].id] = i
  BY <1>1 DEF ClaimInv, Claimants
<1>5. i # NoProvider
  BY <1>1, ProvidersAre DEF NoProvider
<1> QED BY <1>1, <1>3, <1>4, <1>5

\* A sequence of entries made from another.
LEMMA MappedProviders ==
  ASSUME ClaimInv, NEW P, P = [i \in DOMAIN providers |-> P[i]],
         \A i \in DOMAIN providers : P[i] \in Provider
  PROVE  P \in Seq(Provider) /\ Len(P) = Len(providers) /\ DOMAIN P = DOMAIN providers
<1>1. Len(providers) \in Nat /\ DOMAIN providers = 1..Len(providers)
  BY ProvidersAre
<1>2. P \in [1..Len(providers) -> Provider]
  BY <1>1
<1> QED BY <1>1, <1>2
-----------------------------------------------------------------------------
(* Claims.                                                                  *)

\* m_providers once a set of claims is marked dead.
Without(I) ==
    [i \in DOMAIN providers |->
        IF i \in I THEN [providers[i] EXCEPT !.live = FALSE] ELSE providers[i]]

\* What holds of a claim holds of it dead.
LEMMA DeadClaim ==
  ASSUME ClaimInv, NEW i \in DOMAIN providers
  PROVE  LET p == [providers[i] EXCEPT !.live = FALSE]
         IN  /\ p \in Provider /\ p.live = FALSE
             /\ p.id = providers[i].id /\ p.version = providers[i].version
             /\ p.fields = providers[i].fields /\ p.revision = providers[i].revision
<1>1. providers[i] \in Provider
  BY ProvidersAre
<1> QED BY <1>1 DEF Provider

\* Marking claims dead, as unregister_provider, ReapDeadModules and a refused
\* registration do.
LEMMA Release_Claims ==
  ASSUME ClaimInv, NEW I,
         providers' = Without(I),
         UNCHANGED <<claim, fields, staged, dirty, loaded>>, clock' \in Nat, clock' >= clock
  PROVE  ClaimInv' /\ \A i \in DOMAIN providers : i \notin I => providers'[i] = providers[i]
<1>1. \A i \in DOMAIN providers :
         /\ providers'[i] \in Provider
         /\ providers'[i].id = providers[i].id /\ providers'[i].version = providers[i].version
         /\ providers'[i].fields = providers[i].fields
         /\ providers'[i].revision = providers[i].revision
         /\ providers'[i].live => providers[i].live
  BY DeadClaim, ProvidersAre DEF Without
<1>2. providers' \in Seq(Provider) /\ DOMAIN providers' = DOMAIN providers
  BY <1>1, MappedProviders DEF Without
<1>3. ClaimTypes'
  BY <1>2 DEF ClaimInv, ClaimTypes
<1>4. Declared'
  <2> SUFFICES ASSUME NEW i \in DOMAIN providers
               PROVE  /\ \E d \in Decls : Declares(d, providers[i])'
                      /\ 1 <= providers'[i].revision /\ providers'[i].revision <= clock'
    BY <1>2 DEF Declared
  <2>1. PICK d \in Decls : Declares(d, providers[i])
    BY DEF ClaimInv, Declared
  <2>2. Declares(d, providers[i])'
    BY <1>1, <2>1 DEF Declares
  <2>3. 1 <= providers[i].revision /\ providers[i].revision <= clock
        /\ providers[i].revision \in Nat /\ clock \in Nat
    BY ProvidersAre DEF ClaimInv, Declared, ClaimTypes, Provider
  <2> QED BY <1>1, <2>2, <2>3
<1>5. Owners'
  BY <1>1, <1>2 DEF ClaimInv, Owners
<1>6. Claimants'
  BY <1>1, <1>2 DEF ClaimInv, Claimants
<1> QED BY <1>3, <1>4, <1>5, <1>6 DEF ClaimInv, Without

\* The revision of an entry moves with the clock.
LEMMA Advance_Claims ==
  ASSUME ClaimInv, NEW i \in DOMAIN providers, Advance(i), dirty' \in BOOLEAN,
         UNCHANGED <<claim, fields, staged, loaded>>
  PROVE  /\ ClaimInv' /\ DOMAIN providers' = DOMAIN providers
         /\ clock' = clock + 1 /\ providers'[i].revision = clock + 1
         /\ \A j \in DOMAIN providers :
               /\ providers'[j].live = providers[j].live
               /\ j # i => providers'[j] = providers[j]
<1> DEFINE p == [providers[i] EXCEPT !.revision = clock + 1]
<1>1. providers' = [providers EXCEPT ![i] = p] /\ clock' = clock + 1 /\ clock \in Nat
  BY DEF Advance, ClaimInv, ClaimTypes
<1>2. /\ p \in Provider /\ p.live = providers[i].live /\ p.id = providers[i].id
      /\ p.version = providers[i].version /\ p.fields = providers[i].fields
      /\ p.revision = clock + 1
  <2>1. providers[i] \in Provider
    BY ProvidersAre
  <2> QED BY <1>1, <2>1 DEF Provider
<1> HIDE DEF p
<1>3. \A j \in DOMAIN providers :
         /\ providers'[j] \in Provider
         /\ providers'[j].id = providers[j].id /\ providers'[j].version = providers[j].version
         /\ providers'[j].fields = providers[j].fields
         /\ providers'[j].live = providers[j].live
         /\ IF j = i THEN providers'[j].revision = clock + 1 ELSE providers'[j] = providers[j]
  BY <1>1, <1>2, ProvidersAre
<1>4. providers' \in Seq(Provider) /\ DOMAIN providers' = DOMAIN providers
  BY <1>1, <1>3, MappedProviders
<1>5. ClaimTypes'
  BY <1>1, <1>4 DEF ClaimInv, ClaimTypes
<1>6. Declared'
  <2> SUFFICES ASSUME NEW j \in DOMAIN providers
               PROVE  /\ \E d \in Decls : Declares(d, providers[j])'
                      /\ 1 <= providers'[j].revision /\ providers'[j].revision <= clock'
    BY <1>4 DEF Declared
  <2>1. PICK d \in Decls : Declares(d, providers[j])
    BY DEF ClaimInv, Declared
  <2>2. Declares(d, providers[j])'
    BY <1>3, <2>1 DEF Declares
  <2>3. 1 <= providers[j].revision /\ providers[j].revision <= clock
        /\ providers[j].revision \in Nat
    BY ProvidersAre DEF ClaimInv, Declared, Provider
  <2> QED BY <1>1, <1>3, <2>2, <2>3
<1>7. Owners'
  BY <1>3, <1>4 DEF ClaimInv, Owners
<1>8. Claimants'
  BY <1>3, <1>4 DEF ClaimInv, Claimants
<1> QED BY <1>1, <1>3, <1>4, <1>5, <1>6, <1>7, <1>8 DEF ClaimInv
-----------------------------------------------------------------------------
(* Values that go.                                                          *)

\* A field whose owner is live after the step as before.
Stays(q) ==
    /\ q \in DOMAIN fields' /\ fields'[q].type = fields[q].type
    /\ fields'[q].scope = fields[q].scope /\ fields'[q].provider = fields[q].provider
    /\ providers'[fields[q].provider].live

LEMMA Fits_Stays ==
  ASSUME NEW q, NEW cell, Fits(q, cell), Stays(q)
  PROVE  Fits(q, cell)' /\ fields'[q].scope = fields[q].scope
BY DEF Fits, Stays

LEMMA GlobalsStay ==
  ASSUME GlobalsInv,
         \A q \in DOMAIN globals' :
             q \in DOMAIN globals /\ globals'[q] = globals[q] /\ Stays(q)
  PROVE  GlobalsInv'
<1> SUFFICES ASSUME NEW q \in DOMAIN globals'
             PROVE  Fits(q, globals[q])' /\ fields'[q].scope = "GLOBAL"
  BY DEF GlobalsInv
<1>1. q \in DOMAIN globals /\ globals'[q] = globals[q] /\ Stays(q)
  OBVIOUS
<1>2. Fits(q, globals[q]) /\ fields[q].scope = "GLOBAL"
  BY <1>1 DEF GlobalsInv
<1> QED BY <1>1, <1>2 DEF Fits, Stays

LEMMA AircraftStay ==
  ASSUME AircraftInv,
         \A k \in DOMAIN aircraft' :
             /\ k \in DOMAIN aircraft /\ aircraft'[k] = aircraft[k] /\ Stays(k[1])
             /\ k[2] \in DOMAIN slots' /\ LiveSlot(k[2])'
  PROVE  AircraftInv'
<1> SUFFICES ASSUME NEW k \in DOMAIN aircraft'
             PROVE  /\ k \in FieldNames \X Nat
                    /\ Fits(k[1], aircraft[k])' /\ fields'[k[1]].scope = "AIRCRAFT"
                    /\ k[2] \in DOMAIN slots' /\ LiveSlot(k[2])'
  BY DEF AircraftInv
<1>1. /\ k \in DOMAIN aircraft /\ aircraft'[k] = aircraft[k] /\ Stays(k[1])
      /\ k[2] \in DOMAIN slots' /\ LiveSlot(k[2])'
  OBVIOUS
<1>2. k \in FieldNames \X Nat /\ Fits(k[1], aircraft[k]) /\ fields[k[1]].scope = "AIRCRAFT"
  BY <1>1 DEF AircraftInv
<1> QED BY <1>1, <1>2 DEF Fits, Stays

LEMMA DropGlobals ==
  ASSUME GlobalsInv, NEW F
  PROVE  LET kept == GlobalsWithout(F)
         IN  /\ DOMAIN kept = DOMAIN globals \ F
             /\ \A q \in DOMAIN kept : kept[q] = globals[q]
BY DEF GlobalsInv, GlobalsWithout, Drop, Restrict

LEMMA DropWide ==
  ASSUME AircraftInv, Lists, NEW F, DropAircraftValues(F)
  PROVE  /\ DOMAIN aircraft' = {k \in DOMAIN aircraft : k[1] \notin F}
         /\ \A k \in DOMAIN aircraft' : aircraft'[k] = aircraft[k]
         /\ Lists'
<1> DEFINE wide == {q \in F : fields[q].scope = "AIRCRAFT"}
           X == {k \in wide \X DOMAIN slotFields : k[1] \in slotFields[k[2]]}
<1>1. \A k \in DOMAIN aircraft : k = <<k[1], k[2]>> /\ fields[k[1]].scope = "AIRCRAFT"
  BY DEF AircraftInv
<1>2. /\ aircraft' = [k \in DOMAIN aircraft \ X |-> aircraft[k]]
      /\ slotFields' = [s \in {t \in DOMAIN slotFields : slotFields[t] \ wide # {}} |->
                           slotFields[s] \ wide]
  BY DEF DropAircraftValues, Drop, Restrict
<1>3. \A k \in DOMAIN aircraft : k \in X <=> k[1] \in F
  <2> SUFFICES ASSUME NEW k \in DOMAIN aircraft PROVE k \in X <=> k[1] \in F
    OBVIOUS
  <2>1. k[2] \in DOMAIN slotFields /\ k[1] \in slotFields[k[2]]
    BY DEF Lists
  <2> QED BY <1>1, <2>1
<1> HIDE DEF X
<1>4. /\ DOMAIN aircraft' = {k \in DOMAIN aircraft : k[1] \notin F}
      /\ \A k \in DOMAIN aircraft' : aircraft'[k] = aircraft[k]
  BY <1>2, <1>3
<1>5. ASSUME NEW k \in DOMAIN aircraft'
      PROVE  k[2] \in DOMAIN slotFields' /\ k[1] \in slotFields'[k[2]]
  <2>1. k[2] \in DOMAIN slotFields /\ k[1] \in slotFields[k[2]] /\ k[1] \notin wide
    BY <1>4 DEF Lists
  <2> QED BY <1>2, <2>1
<1>6. ASSUME NEW s \in DOMAIN slotFields'
      PROVE  /\ slotFields'[s] # {}
             /\ \A q \in slotFields'[s] : <<q, s>> \in DOMAIN aircraft'
  <2>1. /\ s \in DOMAIN slotFields /\ slotFields'[s] = slotFields[s] \ wide
        /\ slotFields'[s] # {}
    BY <1>2
  <2>2. ASSUME NEW q \in slotFields'[s] PROVE <<q, s>> \in DOMAIN aircraft'
    <3>1. <<q, s>> \in DOMAIN aircraft /\ q \notin wide
      BY <2>1 DEF Lists
    <3>2. fields[q].scope = "AIRCRAFT"
      BY <1>1, <3>1
    <3> QED BY <1>4, <3>1, <3>2
  <2> QED BY <2>1, <2>2
<1> QED BY <1>4, <1>5, <1>6 DEF Lists

LEMMA DropSlots ==
  ASSUME AircraftInv, Lists, NEW S, DropAircraftSlots(S)
  PROVE  /\ globals' = globals
         /\ DOMAIN aircraft' = {k \in DOMAIN aircraft : k[2] \notin S}
         /\ \A k \in DOMAIN aircraft' : aircraft'[k] = aircraft[k]
         /\ Lists'
<1> DEFINE X == UNION {slotFields[s] \X {s} : s \in S \cap DOMAIN slotFields}
<1>1. \A k \in DOMAIN aircraft : k = <<k[1], k[2]>>
  BY DEF AircraftInv
<1>2. /\ aircraft' = [k \in DOMAIN aircraft \ X |-> aircraft[k]]
      /\ slotFields' = [s \in DOMAIN slotFields \ S |-> slotFields[s]]
      /\ globals' = globals
  BY DEF DropAircraftSlots, Drop, Restrict
<1>3. ASSUME NEW k \in DOMAIN aircraft PROVE k \in X <=> k[2] \in S
  <2>1. k[2] \in DOMAIN slotFields /\ k[1] \in slotFields[k[2]] /\ k = <<k[1], k[2]>>
    BY <1>1 DEF Lists
  <2>2. ASSUME k[2] \in S PROVE k \in X
    <3>1. k \in slotFields[k[2]] \X {k[2]}
      BY <2>1
    <3> QED BY <2>1, <2>2, <3>1
  <2>3. ASSUME k \in X PROVE k[2] \in S
    BY <2>3
  <2> QED BY <2>2, <2>3
<1> HIDE DEF X
<1>4. /\ DOMAIN aircraft' = {k \in DOMAIN aircraft : k[2] \notin S}
      /\ \A k \in DOMAIN aircraft' : aircraft'[k] = aircraft[k]
  BY <1>2, <1>3
<1>5. Lists'
  BY <1>2, <1>4 DEF Lists
<1> QED BY <1>2, <1>4, <1>5
-----------------------------------------------------------------------------
(* Claims that go take their values with them.                              *)

LEMMA Release_Inv ==
  ASSUME RegInv, NEW I, NEW F, DropProviderValues(F),
         providers' = Without(I),
         \A i \in I \cap DOMAIN providers : providers[i].live => providers[i].fields \subseteq F,
         UNCHANGED <<claim, fields, staged, dirty, loaded, tableVars>>,
         clock' \in Nat, clock' >= clock
  PROVE  RegInv'
<1>1. ClaimInv' /\ \A i \in DOMAIN providers : i \notin I => providers'[i] = providers[i]
  <2>1. ClaimInv /\ UNCHANGED <<claim, fields, staged, dirty, loaded>>
    BY DEF RegInv
  <2> QED BY <2>1, Release_Claims
<1>2. TableInv' /\ slots' = slots
  BY TableNext_Inv DEF RegInv, tableVars
<1>3. /\ \A q \in DOMAIN globals' : q \in DOMAIN globals \ F /\ globals'[q] = globals[q]
      /\ \A k \in DOMAIN aircraft' :
            k \in DOMAIN aircraft /\ k[1] \notin F /\ aircraft'[k] = aircraft[k]
      /\ Lists'
  <2>1. GlobalsInv /\ AircraftInv /\ Lists
    BY DEF RegInv, ValueInv
  <2>2. globals' = GlobalsWithout(F) /\ DropAircraftValues(F)
    BY DEF DropProviderValues
  <2>3. \A q \in DOMAIN globals' : q \in DOMAIN globals \ F /\ globals'[q] = globals[q]
    BY <2>1, <2>2, DropGlobals
  <2> QED BY <2>1, <2>2, <2>3, DropWide
<1>4. ASSUME NEW q \in DOMAIN fields, providers[fields[q].provider].live, q \notin F
      PROVE  Stays(q)
  <2>1. fields[q].provider \in DOMAIN providers /\ q \in providers[fields[q].provider].fields
    BY <1>4, LiveOwner DEF RegInv
  <2>2. fields[q].provider \notin I
    BY <1>4, <2>1
  <2> QED BY <1>1, <1>4, <2>1, <2>2 DEF Stays
<1>5. GlobalsInv'
  BY <1>3, <1>4, GlobalsStay DEF RegInv, ValueInv, GlobalsInv, Fits
<1>6. AircraftInv'
  <2>1. ASSUME NEW k \in DOMAIN aircraft'
        PROVE  /\ k \in DOMAIN aircraft /\ aircraft'[k] = aircraft[k] /\ Stays(k[1])
               /\ k[2] \in DOMAIN slots' /\ LiveSlot(k[2])'
    BY <1>2, <1>3, <1>4 DEF RegInv, ValueInv, AircraftInv, Fits, LiveSlot
  <2> QED BY <2>1, AircraftStay DEF RegInv, ValueInv
<1> QED BY <1>1, <1>2, <1>3, <1>5, <1>6 DEF RegInv, ValueInv

LEMMA RegisterRejected_Inv ==
  ASSUME RegInv, NEW b, NEW d \in Decls, RegisterRejected(b, d)
  PROVE  RegInv'
<1> DEFINE i == claim[d.id]
<1>1. /\ DropProviderValues(FieldsOf(i)) /\ i # NoProvider
      /\ providers' = Without({i})
      /\ UNCHANGED <<claim, fields, staged, dirty, loaded, tableVars>> /\ clock' = clock
  BY DEF RegisterRejected, Released, Without, pluginVars
<1>2. clock \in Nat
  BY DEF RegInv, ClaimInv, ClaimTypes
<1>3. FieldsOf(i) = providers[i].fields
  BY <1>1 DEF FieldsOf
<1> HIDE DEF i
<1> QED BY <1>1, <1>2, <1>3, Release_Inv

LEMMA Unregister_Inv ==
  ASSUME RegInv, NEW b, NEW i \in DOMAIN providers, Unregister(b, i)
  PROVE  RegInv'
<1> DEFINE F == FieldsOf(claim[providers[i].id])
<1>1. F = providers[i].fields
  BY LiveOwner, ProvidersAre DEF RegInv, ClaimInv, Claimants, FieldsOf, Unregister, NoProvider
<1>2. /\ DropProviderValues(F) /\ clock' = clock + 1
      /\ UNCHANGED <<claim, fields, staged, dirty, loaded, tableVars>>
      /\ providers' = [providers EXCEPT ![i].live = FALSE]
  BY DEF Unregister, pluginVars
<1>3. providers' = Without({i})
  BY <1>2, ProvidersAre DEF RegInv, Without
<1>4. clock \in Nat
  BY DEF RegInv, ClaimInv, ClaimTypes
<1> HIDE DEF F
<1>5. clock' \in Nat /\ clock' >= clock
  BY <1>2, <1>4
<1> QED BY <1>1, <1>2, <1>3, <1>5, Release_Inv

LEMMA ReapDeadModules_Inv ==
  ASSUME RegInv, ReapDeadModules
  PROVE  RegInv'
<1> DEFINE F == UNION {FieldsOf(i) : i \in Orphans}
<1>1. Cardinality(Orphans) \in Nat
  <2>1. IsFiniteSet(DOMAIN providers)
    BY ProvidersAre, FS_Interval DEF RegInv
  <2>2. Orphans \subseteq DOMAIN providers
    BY DEF Orphans
  <2> QED BY <2>1, <2>2, FS_Subset, FS_CardinalityType
<1>2. \A i \in Orphans \cap DOMAIN providers : providers[i].fields \subseteq F
  BY ProvidersAre DEF RegInv, FieldsOf, NoProvider
<1>3. /\ DropProviderValues(F) /\ clock' = clock + Cardinality(Orphans)
      /\ UNCHANGED <<claim, fields, staged, dirty, loaded, tableVars>>
      /\ providers' = Without(Orphans)
  BY DEF ReapDeadModules, Without, pluginVars
<1>4. clock' \in Nat /\ clock' >= clock
  BY <1>1, <1>3 DEF RegInv, ClaimInv, ClaimTypes
<1> HIDE DEF F
<1> QED BY <1>2, <1>3, <1>4, Release_Inv
-----------------------------------------------------------------------------
(* Steps that leave claims and values alone, and the aircraft.              *)

LEMMA Loaded_Inv ==
  ASSUME RegInv, \A b \in DOMAIN loaded' : b \in Bases /\ loaded'[b] \in Plugin,
         UNCHANGED <<providers, claim, fields, valueVars, clock, staged, dirty, tableVars>>
  PROVE  RegInv'
<1>1. TableInv'
  BY TableNext_Inv DEF RegInv
<1>2. ClaimTypes'
  BY DEF RegInv, ClaimInv, ClaimTypes
<1>3. ClaimInv'
  BY <1>2 DEF RegInv, ClaimInv, Declared, Declares, Owners, Claimants
<1>4. ValueInv'
  BY DEF RegInv, ValueInv, GlobalsInv, AircraftInv, Lists, Fits, LiveSlot, valueVars, tableVars
<1> QED BY <1>1, <1>3, <1>4 DEF RegInv

LEMMA Modules_Inv ==
  ASSUME RegInv,
         \/ \E b \in Bases, path \in Paths : LoadModule(b, path)
         \/ \E b \in Bases : UnloadModule(b)
         \/ \E b \in DOMAIN loaded, d \in Decls : RegisterAgain(b, d)
         \/ UNCHANGED registryVars
  PROVE  RegInv'
<1>1. \A b \in DOMAIN loaded : b \in Bases /\ loaded[b] \in Plugin
  BY DEF RegInv, ClaimInv, ClaimTypes
<1>2. ASSUME NEW b \in Bases, NEW path \in Paths, LoadModule(b, path)
      PROVE  RegInv'
  <2>1. [path |-> path, handles |-> {}] \in Plugin
    BY DEF Plugin
  <2> QED BY <1>1, <1>2, <2>1, Loaded_Inv DEF LoadModule, Put
<1>3. ASSUME NEW b \in Bases, UnloadModule(b)
      PROVE  RegInv'
  BY <1>1, <1>3, Loaded_Inv DEF UnloadModule, Drop, Restrict
<1>4. ASSUME NEW b \in DOMAIN loaded, NEW d \in Decls, RegisterAgain(b, d)
      PROVE  RegInv'
  <2> DEFINE i == claim[d.id]
  <2>1. i \in Nat
    BY OwnNames DEF RegInv, ClaimInv, ClaimTypes
  <2>2. /\ Grant(b, i)
        /\ UNCHANGED <<providers, claim, fields, valueVars, clock, staged, dirty, tableVars>>
    BY <1>4 DEF RegisterAgain
  <2> HIDE DEF i
  <2>3. [loaded[b] EXCEPT !.handles = @ \cup {i}] \in Plugin
    BY <1>1, <2>1 DEF Plugin
  <2>4. \A x \in DOMAIN loaded' : x \in Bases /\ loaded'[x] \in Plugin
    BY <1>1, <2>2, <2>3 DEF Grant
  <2> QED BY <2>2, <2>4, Loaded_Inv
<1>5. CASE UNCHANGED registryVars
  BY <1>1, <1>5, Loaded_Inv DEF registryVars, pluginVars
<1> QED BY <1>2, <1>3, <1>4, <1>5

\* Aircraft come and go, and take the values of their slots with them.
LEMMA Slots_Inv ==
  ASSUME RegInv, TableNext, NEW S, DropAircraftSlots(S),
         \A s, c : OfLiveSlot(s, c) /\ s \notin S => OfLiveSlot(s, c)',
         UNCHANGED <<providers, claim, fields, staged, dirty, pluginVars>>,
         clock' \in Nat, clock' >= clock
  PROVE  RegInv'
<1>1. TableInv'
  BY TableNext_Inv DEF RegInv
<1>2. ClaimTypes'
  BY DEF RegInv, ClaimInv, ClaimTypes, pluginVars
<1>3. Declared'
  <2>1. \A i \in DOMAIN providers : providers[i].revision \in Nat
    BY ProvidersAre DEF RegInv, Provider
  <2> QED BY <2>1 DEF RegInv, ClaimInv, ClaimTypes, Declared, Declares
<1>4. ClaimInv'
  BY <1>2, <1>3 DEF RegInv, ClaimInv, Owners, Claimants
<1>5. /\ globals' = globals /\ Lists'
      /\ \A k \in DOMAIN aircraft' :
            k \in DOMAIN aircraft /\ k[2] \notin S /\ aircraft'[k] = aircraft[k]
  BY DropSlots DEF RegInv, ValueInv
<1>6. GlobalsInv'
  BY <1>5 DEF RegInv, ValueInv, GlobalsInv, Fits
<1>7. AircraftInv'
  <2> SUFFICES ASSUME NEW k \in DOMAIN aircraft'
               PROVE  /\ k \in DOMAIN aircraft /\ aircraft'[k] = aircraft[k] /\ Stays(k[1])
                      /\ k[2] \in DOMAIN slots' /\ LiveSlot(k[2])'
    BY AircraftStay DEF RegInv, ValueInv
  <2>1. OfLiveSlot(k[2], slots[k[2]].callsign) /\ Stays(k[1])
    BY <1>5 DEF RegInv, ValueInv, AircraftInv, Fits, Stays, OfLiveSlot
  <2> QED BY <1>5, <2>1 DEF OfLiveSlot
<1> QED BY <1>1, <1>4, <1>5, <1>6, <1>7 DEF RegInv, ValueInv

\* Sightings and the passing of time leave the values alone.
LEMMA Sighted_Inv ==
  ASSUME RegInv, TableNext,
         \A s, c : OfLiveSlot(s, c) => OfLiveSlot(s, c)',
         UNCHANGED <<providers, claim, fields, valueVars, clock, staged, dirty, pluginVars>>
  PROVE  RegInv'
<1>1. TableInv'
  BY TableNext_Inv DEF RegInv
<1>2. ClaimInv'
  BY DEF RegInv, ClaimInv, ClaimTypes, Declared, Declares, Owners, Claimants, pluginVars
<1>3. GlobalsInv' /\ Lists'
  BY DEF RegInv, ValueInv, GlobalsInv, Lists, Fits, valueVars
<1>4. AircraftInv'
  <2> SUFFICES ASSUME NEW k \in DOMAIN aircraft
               PROVE  Stays(k[1]) /\ k[2] \in DOMAIN slots' /\ LiveSlot(k[2])'
    BY AircraftStay DEF RegInv, ValueInv, valueVars
  <2>1. OfLiveSlot(k[2], slots[k[2]].callsign) /\ Stays(k[1])
    BY DEF RegInv, ValueInv, AircraftInv, Fits, Stays, OfLiveSlot
  <2> QED BY <2>1 DEF OfLiveSlot
<1> QED BY <1>1, <1>2, <1>3, <1>4 DEF RegInv, ValueInv

LEMMA Traffic_RegInv == RegInv /\ Traffic => RegInv'
<1> SUFFICES ASSUME RegInv, Traffic PROVE RegInv'
  OBVIOUS
<1>1. TableInv /\ clock \in Nat
  BY DEF RegInv, ClaimInv, ClaimTypes
<1>2. ASSUME NEW c \in Callsigns, ObserveAircraft(c)
      PROVE  RegInv'
  <2>1. Observe(c) /\ UNCHANGED <<providers, claim, fields, valueVars, clock, staged, dirty, pluginVars>>
    BY <1>2 DEF ObserveAircraft
  <2>2. \A s, d : OfLiveSlot(s, d) => OfLiveSlot(s, d)'
    BY <1>1, <2>1, ObserveKeepsLive
  <2> QED BY <1>1, <2>1, <2>2, Sighted_Inv DEF TableNext
<1>3. ASSUME NEW c \in Callsigns, RetireAircraft(c)
      PROVE  RegInv'
  <2>1. /\ Retire(c) /\ DropAircraftSlots({index[c]}) /\ clock' = clock + 1
        /\ UNCHANGED <<providers, claim, fields, staged, dirty, pluginVars>>
    BY <1>3 DEF RetireAircraft
  <2>2. TableNext
    BY <2>1 DEF TableNext
  <2>3. \A s, d : OfLiveSlot(s, d) /\ s \notin {index[c]} => OfLiveSlot(s, d)'
    BY <1>1, <2>1, RetireKeepsOthers
  <2> QED BY <1>1, <2>1, <2>2, <2>3, Slots_Inv
<1>4. CASE SweepAircraft
  <2>1. /\ Sweep /\ DropAircraftSlots(Expired)
        /\ clock' = IF Expired = {} THEN clock ELSE clock + 1
        /\ UNCHANGED <<providers, claim, fields, staged, dirty, pluginVars>>
    BY <1>4 DEF SweepAircraft
  <2>2. TableNext
    BY <2>1 DEF TableNext
  <2>3. \A s, d : OfLiveSlot(s, d) /\ s \notin Expired => OfLiveSlot(s, d)'
    BY <1>1, <2>1, RetireKeepsOthers
  <2> QED BY <1>1, <2>1, <2>2, <2>3, Slots_Inv
<1>5. CASE TimePasses
  <2>1. Tick /\ UNCHANGED <<providers, claim, fields, valueVars, clock, staged, dirty, pluginVars>>
    BY <1>5 DEF TimePasses
  <2>2. \A s, d : OfLiveSlot(s, d) => OfLiveSlot(s, d)'
    BY <2>1 DEF Tick, OfLiveSlot, LiveSlot
  <2> QED BY <2>1, <2>2, Sighted_Inv DEF TableNext
<1> QED BY <1>2, <1>3, <1>4, <1>5 DEF Traffic
-----------------------------------------------------------------------------
(* Publishing.                                                              *)

\* What a call that passed CheckWrite does to claims and clock.
LEMMA Publisher ==
  ASSUME RegInv, NEW b, NEW i \in DOMAIN providers, NEW q, NEW scope,
         CheckWrite(b, i, q, scope), Advance(i), dirty' \in BOOLEAN,
         UNCHANGED <<claim, fields, staged, pluginVars, tableVars>>
  PROVE  /\ TableInv' /\ ClaimInv' /\ Stays(q) /\ i \in Nat /\ clock \in Nat
         /\ \A p \in DOMAIN fields : providers[fields[p].provider].live => Stays(p)
<1>1. ClaimInv /\ UNCHANGED <<claim, fields, staged, loaded>>
  BY DEF RegInv, pluginVars
<1>2. /\ ClaimInv' /\ clock \in Nat
      /\ \A j \in DOMAIN providers : providers'[j].live = providers[j].live
  BY <1>1, Advance_Claims DEF ClaimInv, ClaimTypes
<1>3. TableInv'
  BY TableNext_Inv DEF RegInv
<1>4. ASSUME NEW p \in DOMAIN fields, providers[fields[p].provider].live
      PROVE  Stays(p)
  <2>1. fields[p].provider \in DOMAIN providers
    BY DEF RegInv, ClaimInv, Owners
  <2> QED BY <1>1, <1>2, <1>4, <2>1 DEF Stays
<1>5. Stays(q) /\ i \in Nat
  BY <1>1, <1>4, ProvidersAre DEF CheckWrite
<1> QED BY <1>2, <1>3, <1>4, <1>5

\* What Store leaves fits the field.
LEMMA StoredFits ==
  ASSUME NEW b, NEW i \in Nat, NEW q, NEW scope, CheckWrite(b, i, q, scope),
         NEW v \in Values, v.type = fields[q].type, clock \in Nat, Stays(q)
  PROVE  LET cell == Stored(v, i) IN
         /\ q \in DOMAIN fields' /\ cell \in Cell /\ cell.value.type = fields'[q].type
         /\ cell.claimant = fields'[q].provider /\ providers'[fields'[q].provider].live
         /\ fields'[q].scope = scope
<1>1. Stored(v, i) \in Cell /\ Stored(v, i).value = v /\ Stored(v, i).claimant = i
  BY DEF Stored, Cell
<1> QED BY <1>1 DEF CheckWrite, Stays

\* A write to a global leaves the aircraft's values as they are.
LEMMA UntouchedAircraft ==
  ASSUME AircraftInv, Lists, UNCHANGED <<aircraft, slotFields, tableVars>>,
         \A p \in DOMAIN fields : providers[fields[p].provider].live => Stays(p)
  PROVE  AircraftInv' /\ Lists'
<1>1. AircraftInv'
  BY AircraftStay DEF AircraftInv, Fits, LiveSlot, tableVars
<1> QED BY <1>1 DEF Lists

LEMMA SetGlobal_Inv ==
  ASSUME RegInv, NEW b, NEW i \in DOMAIN providers, NEW q, NEW v \in Values,
         SetGlobal(b, i, q, v)
  PROVE  RegInv'
<1> DEFINE cell == Stored(v, i)
<1>1. /\ CheckWrite(b, i, q, "GLOBAL") /\ Advance(i) /\ v.type = fields[q].type
      /\ UNCHANGED <<claim, fields, staged, pluginVars, tableVars>>
      /\ UNCHANGED <<aircraft, slotFields>>
      /\ DOMAIN globals' = DOMAIN globals \cup {q} /\ globals'[q] = cell
      /\ \A p \in DOMAIN globals' : p # q => p \in DOMAIN globals /\ globals'[p] = globals[p]
  BY DEF SetGlobal, Put
<1>2. dirty' \in BOOLEAN
  BY DEF SetGlobal, MarkStateDirty
<1>3. /\ TableInv' /\ ClaimInv' /\ Stays(q) /\ i \in Nat /\ clock \in Nat
      /\ \A p \in DOMAIN fields : providers[fields[p].provider].live => Stays(p)
  BY <1>1, <1>2, Publisher
<1>4. Fits(q, globals[q])' /\ fields'[q].scope = "GLOBAL"
  <2>1. /\ q \in DOMAIN fields' /\ cell \in Cell /\ cell.value.type = fields'[q].type
        /\ cell.claimant = fields'[q].provider /\ providers'[fields'[q].provider].live
        /\ fields'[q].scope = "GLOBAL"
    BY <1>1, <1>3, StoredFits
  <2> QED BY <1>1, <2>1 DEF Fits
<1> HIDE DEF cell
<1>5. GlobalsInv'
  <2> SUFFICES ASSUME NEW p \in DOMAIN globals'
               PROVE  Fits(p, globals[p])' /\ fields'[p].scope = "GLOBAL"
    BY DEF GlobalsInv
  <2>1. CASE p = q
    BY <1>4, <2>1
  <2>2. CASE p # q
    <3>1. p \in DOMAIN globals /\ globals'[p] = globals[p]
      BY <1>1, <2>2
    <3>2. Fits(p, globals[p]) /\ fields[p].scope = "GLOBAL"
      BY <3>1 DEF RegInv, ValueInv, GlobalsInv
    <3> QED BY <1>3, <3>1, <3>2 DEF Fits, Stays
  <2> QED BY <2>1, <2>2
<1>6. AircraftInv' /\ Lists'
  BY <1>1, <1>3, UntouchedAircraft DEF RegInv, ValueInv
<1> QED BY <1>3, <1>5, <1>6 DEF RegInv, ValueInv

LEMMA ClearGlobal_Inv ==
  ASSUME RegInv, NEW b, NEW i \in DOMAIN providers, NEW q, ClearGlobal(b, i, q)
  PROVE  RegInv'
<1>1. /\ CheckWrite(b, i, q, "GLOBAL") /\ Advance(i)
      /\ UNCHANGED <<claim, fields, staged, pluginVars, tableVars>>
      /\ UNCHANGED <<aircraft, slotFields>>
      /\ \A p \in DOMAIN globals' : p \in DOMAIN globals /\ globals'[p] = globals[p]
  BY DEF ClearGlobal, Drop, Restrict
<1>2. dirty' \in BOOLEAN
  BY DEF ClearGlobal, MarkStateDirty
<1>3. /\ TableInv' /\ ClaimInv'
      /\ \A p \in DOMAIN fields : providers[fields[p].provider].live => Stays(p)
  BY <1>1, <1>2, Publisher
<1>4. GlobalsInv'
  BY <1>1, <1>3, GlobalsStay DEF RegInv, ValueInv, GlobalsInv, Fits
<1>5. AircraftInv' /\ Lists'
  BY <1>1, <1>3, UntouchedAircraft DEF RegInv, ValueInv
<1> QED BY <1>3, <1>4, <1>5 DEF RegInv, ValueInv

LEMMA SetAircraft_Inv ==
  ASSUME RegInv, NEW b, NEW i \in DOMAIN providers, NEW h, NEW q \in FieldNames,
         NEW v \in Values, SetAircraft(b, i, h, q, v)
  PROVE  RegInv'
<1> DEFINE cell == Stored(v, i)
           s == h[1]
<1>1. /\ CheckWrite(b, i, q, "AIRCRAFT") /\ Advance(i) /\ v.type = fields[q].type
      /\ UNCHANGED <<claim, fields, staged, pluginVars, tableVars>>
      /\ UNCHANGED <<globals, dirty>> /\ Validate(h) = "OK"
      /\ DOMAIN aircraft' = DOMAIN aircraft \cup {<<q, s>>} /\ aircraft'[<<q, s>>] = cell
      /\ \A k \in DOMAIN aircraft' :
            k # <<q, s>> => k \in DOMAIN aircraft /\ aircraft'[k] = aircraft[k]
  BY DEF SetAircraft, Put
<1>2. dirty' \in BOOLEAN
  BY <1>1 DEF RegInv, ClaimInv, ClaimTypes
<1>3. /\ TableInv' /\ ClaimInv' /\ Stays(q) /\ i \in Nat /\ clock \in Nat
      /\ \A p \in DOMAIN fields : providers[fields[p].provider].live => Stays(p)
  BY <1>1, <1>2, Publisher
<1>4. s \in DOMAIN slots' /\ LiveSlot(s)' /\ s \in Nat
  <2>1. s \in DOMAIN slots /\ LiveSlot(s)
    BY <1>1 DEF Validate
  <2>2. DOMAIN slots \subseteq Nat
    BY DEF RegInv, TableInv, TableTypeOK
  <2> QED BY <1>1, <2>1, <2>2 DEF LiveSlot, tableVars
<1>5. Fits(q, aircraft[<<q, s>>])' /\ fields'[q].scope = "AIRCRAFT"
  <2>1. /\ q \in DOMAIN fields' /\ cell \in Cell /\ cell.value.type = fields'[q].type
        /\ cell.claimant = fields'[q].provider /\ providers'[fields'[q].provider].live
        /\ fields'[q].scope = "AIRCRAFT"
    BY <1>1, <1>3, StoredFits
  <2> QED BY <1>1, <2>1 DEF Fits
<1> HIDE DEF cell, s
<1>6. AircraftInv'
  <2> SUFFICES ASSUME NEW k \in DOMAIN aircraft'
               PROVE  /\ k \in FieldNames \X Nat
                      /\ Fits(k[1], aircraft[k])' /\ fields'[k[1]].scope = "AIRCRAFT"
                      /\ k[2] \in DOMAIN slots' /\ LiveSlot(k[2])'
    BY DEF AircraftInv
  <2>1. CASE k = <<q, s>>
    BY <1>4, <1>5, <2>1
  <2>2. CASE k # <<q, s>>
    <3>1. k \in DOMAIN aircraft /\ aircraft'[k] = aircraft[k]
      BY <1>1, <2>2
    <3>2. /\ k \in FieldNames \X Nat
          /\ Fits(k[1], aircraft[k]) /\ fields[k[1]].scope = "AIRCRAFT"
          /\ k[2] \in DOMAIN slots /\ LiveSlot(k[2])
      BY <3>1 DEF RegInv, ValueInv, AircraftInv
    <3>3. Stays(k[1])
      BY <1>3, <3>2 DEF Fits
    <3> QED BY <1>1, <3>1, <3>2, <3>3 DEF Fits, Stays, LiveSlot, tableVars
  <2> QED BY <2>1, <2>2
<1>7. GlobalsInv'
  BY <1>1, <1>3, GlobalsStay DEF RegInv, ValueInv, GlobalsInv, Fits
<1>8. Lists'
  <2>1. Lists /\ slotFields' = IF <<q, s>> \in DOMAIN aircraft THEN slotFields
                               ELSE Put(slotFields, s, FieldsAt(s) \cup {q})
    BY DEF SetAircraft, s, RegInv, ValueInv
  <2>2. CASE <<q, s>> \in DOMAIN aircraft
    <3>1. slotFields' = slotFields /\ DOMAIN aircraft' = DOMAIN aircraft
      BY <1>1, <2>1, <2>2
    <3> QED BY <2>1, <3>1 DEF Lists
  <2>3. CASE <<q, s>> \notin DOMAIN aircraft
    <3>1. /\ DOMAIN slotFields' = DOMAIN slotFields \cup {s}
          /\ slotFields'[s] = FieldsAt(s) \cup {q}
          /\ \A t \in DOMAIN slotFields : t # s => slotFields'[t] = slotFields[t]
      BY <2>1, <2>3 DEF Put
    <3>2. ASSUME NEW k \in DOMAIN aircraft'
          PROVE  k[2] \in DOMAIN slotFields' /\ k[1] \in slotFields'[k[2]]
      <4>1. CASE k = <<q, s>>
        <5>1. k[1] = q /\ k[2] = s
          BY <4>1
        <5> QED BY <3>1, <5>1
      <4>2. CASE k # <<q, s>>
        <5>1. k[2] \in DOMAIN slotFields /\ k[1] \in slotFields[k[2]]
          BY <1>1, <2>1, <4>2 DEF Lists
        <5> QED BY <3>1, <5>1 DEF FieldsAt
      <4> QED BY <4>1, <4>2
    <3>3. ASSUME NEW t \in DOMAIN slotFields'
          PROVE  /\ slotFields'[t] # {}
                 /\ \A p \in slotFields'[t] : <<p, t>> \in DOMAIN aircraft'
      BY <1>1, <2>1, <3>1 DEF Lists, FieldsAt
    <3> QED BY <3>2, <3>3 DEF Lists
  <2> QED BY <2>2, <2>3
<1> QED BY <1>3, <1>6, <1>7, <1>8 DEF RegInv, ValueInv

LEMMA ClearAircraft_Inv ==
  ASSUME RegInv, NEW b, NEW i \in DOMAIN providers, NEW h, NEW q \in FieldNames,
         ClearAircraft(b, i, h, q)
  PROVE  RegInv'
<1> DEFINE s == h[1]
<1>1. /\ CheckWrite(b, i, q, "AIRCRAFT") /\ Advance(i)
      /\ UNCHANGED <<claim, fields, staged, pluginVars, tableVars>>
      /\ UNCHANGED <<globals, dirty>> /\ <<q, s>> \in DOMAIN aircraft
      /\ DOMAIN aircraft' = DOMAIN aircraft \ {<<q, s>>}
      /\ \A k \in DOMAIN aircraft' : aircraft'[k] = aircraft[k]
      /\ slotFields' = IF FieldsAt(s) \subseteq {q} THEN Drop(slotFields, {s})
                       ELSE Put(slotFields, s, FieldsAt(s) \ {q})
  BY DEF ClearAircraft, Drop, Restrict
<1> HIDE DEF s
<1>2. dirty' \in BOOLEAN
  BY <1>1 DEF RegInv, ClaimInv, ClaimTypes
<1>3. /\ TableInv' /\ ClaimInv'
      /\ \A p \in DOMAIN fields : providers[fields[p].provider].live => Stays(p)
  BY <1>1, <1>2, Publisher
<1>4. AircraftInv'
  <2> SUFFICES ASSUME NEW k \in DOMAIN aircraft'
               PROVE  /\ k \in DOMAIN aircraft /\ aircraft'[k] = aircraft[k] /\ Stays(k[1])
                      /\ k[2] \in DOMAIN slots' /\ LiveSlot(k[2])'
    BY AircraftStay DEF RegInv, ValueInv
  <2> QED BY <1>1, <1>3 DEF RegInv, ValueInv, AircraftInv, Fits, LiveSlot, tableVars
<1>5. GlobalsInv'
  BY <1>1, <1>3, GlobalsStay DEF RegInv, ValueInv, GlobalsInv, Fits
<1>6. Lists'
  <2>1. Lists /\ s \in DOMAIN slotFields /\ FieldsAt(s) = slotFields[s]
    BY <1>1 DEF RegInv, ValueInv, Lists, FieldsAt
  <2>2. \A k \in DOMAIN aircraft : k = <<k[1], k[2]>>
    BY DEF RegInv, ValueInv, AircraftInv
  <2>3. CASE slotFields[s] \subseteq {q}
    <3>1. /\ DOMAIN slotFields' = DOMAIN slotFields \ {s}
          /\ \A t \in DOMAIN slotFields' : slotFields'[t] = slotFields[t]
      BY <1>1, <2>1, <2>3 DEF Drop, Restrict
    <3>2. \A k \in DOMAIN aircraft' : k[2] # s
      BY <1>1, <2>1, <2>2, <2>3 DEF Lists
    <3> QED BY <1>1, <2>1, <3>1, <3>2 DEF Lists
  <2>4. CASE ~(slotFields[s] \subseteq {q})
    <3>1. /\ DOMAIN slotFields' = DOMAIN slotFields
          /\ slotFields'[s] = slotFields[s] \ {q}
          /\ \A t \in DOMAIN slotFields : t # s => slotFields'[t] = slotFields[t]
      BY <1>1, <2>1, <2>4 DEF Put
    <3>2. \A k \in DOMAIN aircraft' :
             k[2] \in DOMAIN slotFields' /\ k[1] \in slotFields'[k[2]]
      BY <1>1, <2>1, <2>2, <3>1 DEF Lists
    <3>3. ASSUME NEW t \in DOMAIN slotFields'
          PROVE  /\ slotFields'[t] # {}
                 /\ \A p \in slotFields'[t] : <<p, t>> \in DOMAIN aircraft'
      BY <1>1, <2>1, <2>4, <3>1 DEF Lists
    <3> QED BY <3>2, <3>3 DEF Lists
  <2> QED BY <2>3, <2>4
<1> QED BY <1>3, <1>4, <1>5, <1>6 DEF RegInv, ValueInv
-----------------------------------------------------------------------------
(* A new claim.                                                             *)

\* The catalogue with the fields of a declaration.
LEMMA Catalogued ==
  ASSUME ClaimInv, NEW d \in Decls, Acceptable(d), NEW i \in Nat, fields' = Catalogue(d, i)
  PROVE  /\ DOMAIN fields' = DOMAIN fields \cup Qualified(d) /\ DOMAIN fields' \subseteq FieldNames
         /\ \A q \in DOMAIN fields' : fields'[q] \in Field
         /\ \A q \in DOMAIN fields : /\ fields'[q].type = fields[q].type
                                     /\ fields'[q].scope = fields[q].scope
         /\ \A q \in DOMAIN fields \ Qualified(d) : fields'[q] = fields[q]
         /\ \A q \in Qualified(d) : /\ fields'[q].provider = i
                                    /\ fields'[q].type = d.fields[q[2]].type
<1>1. /\ d.fields \in [DOMAIN d.fields -> Attributes] /\ Qualified(d) \subseteq FieldNames
      /\ \A q \in Qualified(d) : q = <<d.id, q[2]>> /\ q[2] \in DOMAIN d.fields
  BY RegistryAssumption, OwnNames
<1>2. DOMAIN fields \subseteq FieldNames /\ \A q \in DOMAIN fields : fields[q] \in Field
  BY DEF ClaimInv, ClaimTypes
<1>3. DOMAIN fields' = DOMAIN fields \cup Qualified(d)
  BY DEF Catalogue
<1>4. ASSUME NEW q \in DOMAIN fields \ Qualified(d)
      PROVE  fields'[q] = fields[q]
  BY <1>4 DEF Catalogue
<1>5. ASSUME NEW q \in Qualified(d), q \in DOMAIN fields
      PROVE  /\ fields'[q] \in Field /\ fields'[q].type = fields[q].type
             /\ fields'[q].scope = fields[q].scope /\ fields'[q].provider = i
             /\ fields'[q].type = d.fields[q[2]].type
  <2>1. fields'[q] = [fields[q] EXCEPT !.provider = i, !.persist = d.fields[q[2]].persist]
    BY <1>5 DEF Catalogue
  <2>2. fields[q] \in Field /\ d.fields[q[2]].persist \in BOOLEAN
    BY <1>1, <1>2, <1>5 DEF Attributes
  <2>3. fields[q].type = d.fields[q[2]].type
    BY <1>1, <1>5 DEF Acceptable
  <2> QED BY <2>1, <2>2, <2>3 DEF Field
<1>6. ASSUME NEW q \in Qualified(d), q \notin DOMAIN fields
      PROVE  /\ fields'[q] \in Field /\ fields'[q].provider = i
             /\ fields'[q].type = d.fields[q[2]].type
  <2>1. fields'[q] = [type     |-> d.fields[q[2]].type,
                      scope    |-> d.fields[q[2]].scope,
                      persist  |-> d.fields[q[2]].persist,
                      provider |-> i]
    BY <1>6 DEF Catalogue
  <2>2. d.fields[q[2]] \in Attributes
    BY <1>1, <1>6
  <2> QED BY <2>1, <2>2 DEF Attributes, Field
<1> QED BY <1>1, <1>2, <1>3, <1>4, <1>5, <1>6

\* m_providers with the latest claimant of an id marked dead.
LEMMA ReleasedAre ==
  ASSUME ClaimInv, NEW id
  PROVE  /\ Released(id) \in Seq(Provider) /\ Len(Released(id)) = Len(providers)
         /\ \A j \in DOMAIN providers :
               /\ Released(id)[j].id = providers[j].id
               /\ Released(id)[j].version = providers[j].version
               /\ Released(id)[j].fields = providers[j].fields
               /\ Released(id)[j].revision = providers[j].revision
               /\ Released(id)[j].live <=> j # claim[id] /\ providers[j].live
<1>1. Released(id) = [j \in DOMAIN providers |-> Released(id)[j]]
  BY DEF Released
<1>2. \A j \in DOMAIN providers :
         /\ Released(id)[j] \in Provider
         /\ Released(id)[j].id = providers[j].id
         /\ Released(id)[j].version = providers[j].version
         /\ Released(id)[j].fields = providers[j].fields
         /\ Released(id)[j].revision = providers[j].revision
         /\ Released(id)[j].live <=> j # claim[id] /\ providers[j].live
  BY DeadClaim, ProvidersAre DEF Released, Provider
<1> QED BY <1>1, <1>2, MappedProviders

\* There are finitely many fields to restore.
LEMMA RestoredFinite ==
  ASSUME NEW d \in Decls, NEW S \in SUBSET Qualified(d)
  PROVE  Cardinality(S) \in Nat
<1> DEFINE f == [n \in DOMAIN d.fields |-> <<d.id, n>>]
<1>1. f \in Surjection(DOMAIN d.fields, Qualified(d))
  BY DEF Surjection, Qualified
<1>2. IsFiniteSet(DOMAIN d.fields)
  BY RegistryAssumption
<1> HIDE DEF f
<1> QED BY <1>1, <1>2, FS_Surjection, FS_Subset, FS_CardinalityType

\* The entry a new claim appends, and who is live behind it.
LEMMA RegisterNew_Providers ==
  ASSUME ClaimInv, NEW b \in DOMAIN loaded, NEW d \in Decls, RegisterNew(b, d)
  PROVE  LET i == Len(providers) + 1 IN
         /\ i \in Nat /\ i \notin DOMAIN providers /\ DOMAIN providers' = DOMAIN providers \cup {i}
         /\ providers' \in Seq(Provider) /\ clock' \in Nat /\ clock' > clock
         /\ providers'[i].id = d.id /\ providers'[i].version = d.version
         /\ providers'[i].fields = Qualified(d) /\ providers'[i].revision = clock'
         /\ providers'[i].live
         /\ \A j \in DOMAIN providers :
               /\ providers'[j].id = providers[j].id /\ providers'[j].version = providers[j].version
               /\ providers'[j].fields = providers[j].fields
               /\ providers'[j].revision = providers[j].revision
               /\ providers'[j].live <=> j # claim[d.id] /\ providers[j].live
<1> DEFINE i == Len(providers) + 1
           R == Released(d.id)
           c == Claimant(b, d)
<1>1. /\ Len(providers) \in Nat /\ DOMAIN providers = 1..Len(providers)
      /\ R \in Seq(Provider) /\ Len(R) = Len(providers)
  BY ProvidersAre, ReleasedAre
<1>2. clock' \in Nat /\ clock' > clock
  <2>1. Restorable(d) \subseteq Qualified(d)
    BY DEF Restorable, Claimed
  <2>2. Cardinality(Restorable(d)) \in Nat
    BY <2>1, RestoredFinite
  <2> QED BY <2>2 DEF RegisterNew, ClaimInv, ClaimTypes
<1>3. c \in Provider /\ c.id = d.id /\ c.version = d.version /\ c.fields = Qualified(d)
      /\ c.revision = clock' /\ c.live
  <2>1. b \in Bases /\ loaded[b].path \in Paths
    BY DEF ClaimInv, ClaimTypes, Plugin
  <2>2. d.id \in Ids /\ Qualified(d) \in SUBSET FieldNames /\ d.version \in {e.version : e \in Decls}
    BY OwnNames
  <2> QED BY <1>2, <2>1, <2>2 DEF Claimant, Provider
<1>4. providers' = Append(R, c)
  BY DEF RegisterNew
<1>5. /\ \A j \in DOMAIN providers :
            /\ R[j].id = providers[j].id /\ R[j].version = providers[j].version
            /\ R[j].fields = providers[j].fields /\ R[j].revision = providers[j].revision
            /\ R[j].live <=> j # claim[d.id] /\ providers[j].live
  BY ReleasedAre
<1> HIDE DEF R, c
<1>6. /\ providers' \in Seq(Provider) /\ DOMAIN providers' = 1..i /\ providers'[i] = c
      /\ \A j \in 1..Len(providers) : providers'[j] = R[j]
  BY <1>1, <1>3, <1>4
<1> QED BY <1>1, <1>2, <1>3, <1>5, <1>6

LEMMA RegisterNew_Claims ==
  ASSUME ClaimInv, NEW b \in DOMAIN loaded, NEW d \in Decls, RegisterNew(b, d)
  PROVE  ClaimInv'
<1> DEFINE i == Len(providers) + 1
           Q == Qualified(d)
<1>1. /\ i \in Nat /\ i \notin DOMAIN providers /\ DOMAIN providers' = DOMAIN providers \cup {i}
      /\ providers' \in Seq(Provider) /\ clock' \in Nat /\ clock' > clock
      /\ providers'[i].id = d.id /\ providers'[i].version = d.version
      /\ providers'[i].fields = Q /\ providers'[i].revision = clock'
      /\ providers'[i].live
      /\ \A j \in DOMAIN providers :
            /\ providers'[j].id = providers[j].id /\ providers'[j].version = providers[j].version
            /\ providers'[j].fields = providers[j].fields
            /\ providers'[j].revision = providers[j].revision
            /\ providers'[j].live <=> j # claim[d.id] /\ providers[j].live
  BY RegisterNew_Providers
<1>2. /\ fields' = Catalogue(d, i) /\ Acceptable(d)
      /\ claim' = [claim EXCEPT ![d.id] = i] /\ staged' = Drop(staged, Claimed(d))
      /\ Grant(b, i) /\ UNCHANGED dirty
  BY DEF RegisterNew
<1> HIDE DEF i
<1>3. /\ DOMAIN fields' = DOMAIN fields \cup Q /\ DOMAIN fields' \subseteq FieldNames
      /\ \A q \in DOMAIN fields' : fields'[q] \in Field
      /\ \A q \in DOMAIN fields : fields'[q].type = fields[q].type
      /\ \A q \in DOMAIN fields \ Q : fields'[q] = fields[q]
      /\ \A q \in Q : /\ fields'[q].provider = i
                      /\ fields'[q].type = d.fields[q[2]].type
  BY <1>1, <1>2, Catalogued
<1>4. /\ d.id \in Ids /\ \A q \in Q : q[1] = d.id
      /\ \A n \in DOMAIN d.fields : <<d.id, n>> \in Q
  BY OwnNames
<1> HIDE DEF Q
<1>5. ClaimTypes'
  <2>1. \A x \in DOMAIN loaded' : x \in Bases /\ loaded'[x] \in Plugin
    <3>1. [loaded[b] EXCEPT !.handles = @ \cup {i}] \in Plugin
      <4>1. loaded[b] \in Plugin
        BY DEF ClaimInv, ClaimTypes
      <4> QED BY <1>1, <4>1 DEF Plugin
    <3> QED BY <1>2, <3>1 DEF Grant, ClaimInv, ClaimTypes
  <2>2. \A q \in DOMAIN staged' : staged'[q] \in Values
    BY <1>2 DEF Drop, Restrict, ClaimInv, ClaimTypes
  <2>3. claim' \in [Ids -> Nat]
    BY <1>1, <1>2 DEF ClaimInv, ClaimTypes
  <2> QED BY <1>1, <1>2, <1>3, <2>1, <2>2, <2>3 DEF ClaimInv, ClaimTypes
<1>6. Declared'
  <2> SUFFICES ASSUME NEW j \in DOMAIN providers'
               PROVE  /\ \E e \in Decls : Declares(e, providers[j])'
                      /\ 1 <= providers'[j].revision /\ providers'[j].revision <= clock'
    BY DEF Declared
  <2>1. CASE j = i
    <3>1. Declares(d, providers[j])'
      <4>1. ASSUME NEW n \in DOMAIN d.fields
            PROVE  /\ <<d.id, n>> \in DOMAIN fields'
                   /\ fields'[<<d.id, n>>].type = d.fields[n].type
        <5>1. <<d.id, n>> \in Q /\ <<d.id, n>>[2] = n
          BY <1>4
        <5> QED BY <1>3, <5>1
      <4> QED BY <1>1, <2>1, <4>1 DEF Declares, Q
    <3>2. clock \in Nat
      BY DEF ClaimInv, ClaimTypes
    <3> QED BY <1>1, <2>1, <3>1, <3>2
  <2>2. CASE j \in DOMAIN providers
    <3>1. PICK e \in Decls : Declares(e, providers[j])
      BY <2>2 DEF ClaimInv, Declared
    <3>2. Declares(e, providers[j])'
      BY <1>1, <1>3, <2>2, <3>1 DEF Declares
    <3>3. 1 <= providers[j].revision /\ providers[j].revision <= clock
          /\ providers[j].revision \in Nat /\ clock \in Nat
      BY <2>2, ProvidersAre DEF ClaimInv, ClaimTypes, Declared, Provider
    <3> QED BY <1>1, <2>2, <3>2, <3>3
  <2> QED BY <1>1, <2>1, <2>2
<1>7. Owners'
  <2> SUFFICES ASSUME NEW q \in DOMAIN fields'
               PROVE  /\ fields'[q].provider \in DOMAIN providers'
                      /\ q \in providers'[fields'[q].provider].fields
    BY DEF Owners
  <2>1. CASE q \in Q
    BY <1>1, <1>3, <2>1
  <2>2. CASE q \notin Q
    BY <1>1, <1>3, <2>2 DEF ClaimInv, Owners
  <2> QED BY <2>1, <2>2
<1>8. Claimants'
  <2>1. ASSUME NEW id \in Ids, claim'[id] # NoProvider
        PROVE  claim'[id] \in DOMAIN providers' /\ providers'[claim'[id]].id = id
    BY <1>1, <1>2, <1>4, <2>1 DEF ClaimInv, ClaimTypes, Claimants
  <2>2. ASSUME NEW j \in DOMAIN providers', providers'[j].live
        PROVE  /\ claim'[providers'[j].id] = j
               /\ \A q \in providers'[j].fields : fields'[q].provider = j
    <3>1. CASE j = i
      BY <1>1, <1>2, <1>3, <1>4, <3>1 DEF ClaimInv, ClaimTypes
    <3>2. CASE j \in DOMAIN providers
      <4>1. providers[j].live /\ j # claim[d.id]
        BY <1>1, <2>2, <3>2
      <4>2. /\ claim[providers[j].id] = j
            /\ \A q \in providers[j].fields : fields[q].provider = j
        BY <3>2, <4>1 DEF ClaimInv, Claimants
      <4>3. PICK e \in Decls : Declares(e, providers[j])
        BY <3>2 DEF ClaimInv, Declared
      <4>4. e.id # d.id /\ e.id \in Ids /\ providers[j].id = e.id
        BY <4>1, <4>2, <4>3, OwnNames DEF Declares
      <4>5. \A q \in providers[j].fields : q \in DOMAIN fields /\ q \notin Q
        <5>1. \A q \in Qualified(e) : q[1] = e.id /\ q = <<e.id, q[2]>> /\ q[2] \in DOMAIN e.fields
          BY OwnNames
        <5> QED BY <1>4, <4>3, <4>4, <5>1 DEF Declares
      <4> QED BY <1>1, <1>2, <1>3, <3>2, <4>2, <4>4, <4>5 DEF ClaimInv, ClaimTypes
    <3> QED BY <1>1, <3>1, <3>2
  <2> QED BY <2>1, <2>2 DEF Claimants
<1> QED BY <1>5, <1>6, <1>7, <1>8 DEF ClaimInv

\* The values of the earlier claim go, the others stay, saved ones come back.
LEMMA RegisterNew_Values ==
  ASSUME RegInv, NEW b \in DOMAIN loaded, NEW d \in Decls, RegisterNew(b, d)
  PROVE  ValueInv'
<1> DEFINE i == Len(providers) + 1
           F == FieldsOf(claim[d.id])
           S == Restorable(d)
           kept == GlobalsWithout(F)
<1>1. /\ i \in Nat /\ DOMAIN providers' = DOMAIN providers \cup {i}
      /\ clock' \in Nat /\ providers'[i].live
      /\ \A j \in DOMAIN providers :
            providers'[j].live <=> j # claim[d.id] /\ providers[j].live
  BY RegisterNew_Providers DEF RegInv
<1>2. /\ fields' = Catalogue(d, i) /\ Acceptable(d) /\ UNCHANGED tableVars
      /\ DropAircraftValues(F) /\ GlobalsInv /\ AircraftInv /\ Lists
  BY DEF RegisterNew, RegInv, ValueInv
<1>3. PICK r \in Numberings(S) :
         globals' = [q \in DOMAIN kept \cup S |->
                        IF q \in S THEN [value |-> staged[q], revision |-> r[q], claimant |-> i]
                        ELSE kept[q]]
  BY DEF RegisterNew
<1>4. \A q \in S : r[q] \in Nat
  <2>1. S \subseteq Qualified(d)
    BY DEF Restorable, Claimed
  <2>2. Cardinality(S) \in Nat
    BY <2>1, RestoredFinite
  <2>3. clock \in Nat /\ r \in [S -> (clock + 2)..(clock + 1 + Cardinality(S))]
    BY DEF Numberings, RegInv, ClaimInv, ClaimTypes
  <2> HIDE DEF S
  <2> QED BY <2>2, <2>3
<1> HIDE DEF i, F
<1>5. /\ DOMAIN fields' = DOMAIN fields \cup Qualified(d)
      /\ \A q \in DOMAIN fields \ Qualified(d) : fields'[q] = fields[q]
      /\ \A q \in Qualified(d) : fields'[q].provider = i
  BY <1>1, <1>2, Catalogued DEF RegInv
\* A field that is not the earlier claimant's keeps a live owner.
<1>6. ASSUME NEW q \in DOMAIN fields, providers[fields[q].provider].live, q \notin F
      PROVE  Stays(q)
  <2> DEFINE o == fields[q].provider
  <2>1. /\ o \in DOMAIN providers /\ q \in providers[o].fields /\ claim[q[1]] = o
        /\ o # NoProvider
    BY <1>6, LiveOwner DEF RegInv
  <2>2. o # claim[d.id]
    BY <1>6, <2>1 DEF F, FieldsOf
  <2>3. q \notin Qualified(d)
    BY <2>1, <2>2, OwnNames
  <2>4. fields'[q] = fields[q] /\ q \in DOMAIN fields' /\ providers'[o].live
    BY <1>1, <1>5, <1>6, <2>1, <2>2, <2>3
  <2> QED BY <2>4 DEF Stays
<1>7. ASSUME NEW q \in S
      PROVE  /\ q \in DOMAIN fields' /\ fields'[q].scope = "GLOBAL"
             /\ staged[q] \in Values /\ staged[q].type = fields'[q].type
             /\ fields'[q].provider = i /\ providers'[i].live
  <2>1. q \in Qualified(d) /\ q \in DOMAIN staged /\ fields'[q].scope = "GLOBAL"
        /\ staged[q].type = fields'[q].type
    BY DEF Restorable, Claimed
  <2> QED BY <1>1, <1>5, <2>1 DEF RegInv, ClaimInv, ClaimTypes
<1> HIDE DEF S
<1>8. DOMAIN kept = DOMAIN globals \ F /\ \A q \in DOMAIN kept : kept[q] = globals[q]
  BY <1>2, DropGlobals
<1> HIDE DEF kept
<1>9. GlobalsInv'
  <2> SUFFICES ASSUME NEW q \in DOMAIN globals'
               PROVE  Fits(q, globals[q])' /\ fields'[q].scope = "GLOBAL"
    BY DEF GlobalsInv
  <2>1. CASE q \in S
    <3>1. globals'[q] = [value |-> staged[q], revision |-> r[q], claimant |-> i]
      BY <1>3, <2>1
    <3> QED BY <1>1, <1>4, <1>7, <2>1, <3>1 DEF Fits, Cell
  <2>2. CASE q \notin S
    <3>1. q \in DOMAIN globals /\ q \notin F /\ globals'[q] = globals[q]
      BY <1>3, <1>8, <2>2
    <3>2. Fits(q, globals[q]) /\ fields[q].scope = "GLOBAL"
      BY <1>2, <3>1 DEF GlobalsInv
    <3>3. Stays(q)
      BY <1>6, <3>1, <3>2 DEF Fits
    <3> QED BY <3>1, <3>2, <3>3 DEF Fits, Stays
  <2> QED BY <2>1, <2>2
<1>10. /\ Lists'
       /\ \A k \in DOMAIN aircraft' :
             k \in DOMAIN aircraft /\ k[1] \notin F /\ aircraft'[k] = aircraft[k]
  BY <1>2, DropWide
<1>11. AircraftInv'
  <2> SUFFICES ASSUME NEW k \in DOMAIN aircraft'
               PROVE  /\ k \in DOMAIN aircraft /\ aircraft'[k] = aircraft[k] /\ Stays(k[1])
                      /\ k[2] \in DOMAIN slots' /\ LiveSlot(k[2])'
    BY <1>2, AircraftStay
  <2> QED BY <1>2, <1>6, <1>10 DEF AircraftInv, Fits, LiveSlot, tableVars
<1> QED BY <1>9, <1>10, <1>11 DEF ValueInv

LEMMA RegisterNew_Inv ==
  ASSUME RegInv, NEW b \in DOMAIN loaded, NEW d \in Decls, RegisterNew(b, d)
  PROVE  RegInv'
<1>1. TableInv'
  BY TableNext_Inv DEF RegInv, RegisterNew
<1>2. ClaimInv'
  BY RegisterNew_Claims DEF RegInv
<1>3. ValueInv'
  BY RegisterNew_Values
<1> QED BY <1>1, <1>2, <1>3 DEF RegInv
-----------------------------------------------------------------------------
LEMMA RegistryNext_Inv == RegInv /\ [RegistryNext]_registryVars => RegInv'
<1> SUFFICES ASSUME RegInv, [RegistryNext]_registryVars PROVE RegInv'
  OBVIOUS
<1>1. CASE Lifecycle
  <2>1. CASE ReapDeadModules
    BY <2>1, ReapDeadModules_Inv
  <2>2. ASSUME NEW b \in DOMAIN loaded, NEW d \in Decls,
               RegisterRejected(b, d) \/ RegisterNew(b, d)
        PROVE  RegInv'
    BY <2>2, RegisterRejected_Inv, RegisterNew_Inv
  <2>3. ASSUME NEW b \in DOMAIN loaded, NEW i \in DOMAIN providers, Unregister(b, i)
        PROVE  RegInv'
    BY <2>3, Unregister_Inv
  <2> QED BY <1>1, <2>1, <2>2, <2>3, Modules_Inv DEF Lifecycle
<1>2. CASE Publish
  <2>1. PICK b \in DOMAIN loaded, i \in DOMAIN providers, q \in FieldNames :
           \/ \E v \in Values : SetGlobal(b, i, q, v)
           \/ ClearGlobal(b, i, q)
           \/ \E p \in issued : \/ \E v \in Values : SetAircraft(b, i, p[1], q, v)
                                \/ ClearAircraft(b, i, p[1], q)
    BY <1>2 DEF Publish
  <2>2. CASE \E v \in Values : SetGlobal(b, i, q, v)
    BY <2>2, SetGlobal_Inv
  <2>3. CASE ClearGlobal(b, i, q)
    BY <2>3, ClearGlobal_Inv
  <2>4. ASSUME NEW p \in issued,
               \/ \E v \in Values : SetAircraft(b, i, p[1], q, v)
               \/ ClearAircraft(b, i, p[1], q)
        PROVE  RegInv'
    BY <2>4, SetAircraft_Inv, ClearAircraft_Inv
  <2> QED BY <2>1, <2>2, <2>3, <2>4
<1>3. CASE Traffic
  BY <1>3, Traffic_RegInv
<1>4. CASE UNCHANGED registryVars
  BY <1>4, Modules_Inv
<1> QED BY <1>1, <1>2, <1>3, <1>4 DEF RegistryNext

\* The inductive invariant behind the theorems below: claims and the catalogue
\* agree, every value belongs to a live claim, and the lists of the slots mirror
\* the values of the aircraft in sight.
THEOREM RegistryInvariant == RegistrySpec => []RegInv
  BY RegistryInit_Inv, RegistryNext_Inv, PTL DEF RegistrySpec

\* Types, and that every value has the type and scope of its field whatever
\* earlier lives declared and whatever the state file held.
THEOREM RegistryTypeCorrect == RegistrySpec => []RegistryTypeOK
<1>1. RegInv => RegistryTypeOK
  <2> SUFFICES ASSUME RegInv PROVE RegistryTypeOK
    OBVIOUS
  <2>1. /\ \A i \in DOMAIN providers :
              /\ providers[i].id \in Ids /\ providers[i].fields \subseteq DOMAIN fields
              /\ providers[i].revision \in 1..clock /\ providers[i].live \in BOOLEAN
    <3> SUFFICES ASSUME NEW i \in DOMAIN providers
                 PROVE  /\ providers[i].id \in Ids /\ providers[i].fields \subseteq DOMAIN fields
                        /\ providers[i].revision \in 1..clock /\ providers[i].live \in BOOLEAN
      OBVIOUS
    <3>1. providers[i] \in Provider /\ clock \in Nat
      BY ProvidersAre DEF RegInv, ClaimInv, ClaimTypes
    <3>2. PICK d \in Decls : Declares(d, providers[i])
      BY DEF RegInv, ClaimInv, Declared
    <3>3. providers[i].fields \subseteq DOMAIN fields
      BY <3>2, OwnNames DEF Declares
    <3>4. providers[i].revision \in 1..clock
      BY <3>1 DEF RegInv, ClaimInv, Declared, Provider
    <3> QED BY <3>1, <3>3, <3>4 DEF Provider
  <2>2. claim \in [Ids -> 0..Len(providers)]
    BY ProvidersAre DEF RegInv, ClaimInv, ClaimTypes, Claimants, NoProvider
  <2>3. \A q \in DOMAIN fields :
           /\ fields[q].type \in Types /\ fields[q].scope \in Scopes
           /\ fields[q].persist \in BOOLEAN /\ fields[q].provider \in DOMAIN providers
    BY DEF RegInv, ClaimInv, ClaimTypes, Owners, Field
  <2>4. /\ DOMAIN globals \subseteq DOMAIN fields
        /\ \A q \in DOMAIN globals : globals[q] \in Cell
        /\ DOMAIN aircraft \subseteq (DOMAIN fields) \X (DOMAIN slots)
        /\ \A k \in DOMAIN aircraft : aircraft[k] \in Cell
        /\ ValuesTyped
    BY DEF RegInv, ValueInv, GlobalsInv, AircraftInv, Fits, ValuesTyped
  <2>5. \A s \in DOMAIN slotFields : slotFields[s] \subseteq DOMAIN fields
    <3> SUFFICES ASSUME NEW s \in DOMAIN slotFields, NEW q \in slotFields[s]
                 PROVE  q \in DOMAIN fields
      OBVIOUS
    <3>1. <<q, s>> \in DOMAIN aircraft /\ <<q, s>>[1] = q
      BY DEF RegInv, ValueInv, Lists
    <3> QED BY <3>1 DEF RegInv, ValueInv, AircraftInv, Fits
  <2> QED BY <2>1, <2>2, <2>3, <2>4, <2>5 DEF RegistryTypeOK, RegInv, ClaimInv, ClaimTypes
<1> QED BY <1>1, RegistryInvariant, PTL

\* An id has at most one live claimant, which owns what it declared, and that is
\* what discovery tells: for any number of plugins, lives and declarations.
THEOREM OneClaimant == RegistrySpec => []ClaimsExclusive
<1>1. RegInv => ClaimsExclusive
  <2> SUFFICES ASSUME RegInv, NEW i \in ListProviders
               PROVE  LET p == providers[i] IN
                      /\ claim[p.id] = i
                      /\ ProviderVersion(p.id) = p.version
                      /\ \A q \in p.fields : /\ fields[q].provider = i
                                             /\ OwnField(i, q[2]) = "OK"
                      /\ \A l \in DumpSchema(p.id) :
                            /\ ResolveField(l[1], l[2]) = "OK"
                            /\ \E d \in Decls : /\ d.id = p.id /\ d.version = p.version
                                               /\ l[1][2] \in DOMAIN d.fields
                                               /\ d.fields[l[1][2]].type = l[2]
    BY DEF ClaimsExclusive
  <2> DEFINE p == providers[i]
  <2>1. i \in DOMAIN providers /\ p.live
    BY DEF ListProviders
  <2>2. i # NoProvider /\ claim[p.id] = i /\ \A q \in p.fields : fields[q].provider = i
    BY <2>1, ProvidersAre DEF RegInv, ClaimInv, Claimants, NoProvider
  <2>3. Present(p.id)
    BY <2>1, <2>2 DEF Present
  <2>4. PICK d \in Decls : Declares(d, p)
    BY <2>1 DEF RegInv, ClaimInv, Declared
  <2>5. \A q \in p.fields :
           /\ q = <<p.id, q[2]>> /\ q[1] = p.id /\ q[2] \in DOMAIN d.fields
           /\ q \in DOMAIN fields /\ fields[q].type = d.fields[q[2]].type
    BY <2>4, OwnNames DEF Declares
  <2>6. ASSUME NEW q \in p.fields
        PROVE  OwnField(i, q[2]) = "OK"
    BY <2>1, <2>2, <2>5 DEF OwnField
  <2>7. ASSUME NEW l \in DumpSchema(p.id)
        PROVE  /\ ResolveField(l[1], l[2]) = "OK"
               /\ d.id = p.id /\ d.version = p.version
               /\ l[1][2] \in DOMAIN d.fields /\ d.fields[l[1][2]].type = l[2]
    <3>1. PICK q \in p.fields : l = <<q, fields[q].type>>
      BY <2>2, <2>3 DEF DumpSchema
    <3>2. l[1] = q /\ l[2] = fields[q].type
      BY <3>1
    <3>3. ResolveField(q, fields[q].type) = "OK"
      BY <2>3, <2>5, <3>1 DEF ResolveField
    <3> QED BY <2>4, <2>5, <3>1, <3>2, <3>3 DEF Declares
  <2>8. ProviderVersion(p.id) = p.version
    BY <2>2, <2>3 DEF ProviderVersion
  <2> QED BY <2>2, <2>4, <2>6, <2>7, <2>8
<1> QED BY <1>1, RegistryInvariant, PTL

\* No value outlives the claim it was published under, however that ends.
THEOREM DeadPublishNothing == RegistrySpec => []ValuesDieWithClaim
<1>1. RegInv => ValuesDieWithClaim
  <2> SUFFICES ASSUME RegInv PROVE ValuesDieWithClaim
    OBVIOUS
  <2>1. \A q \in DOMAIN fields : q \in providers[fields[q].provider].fields
    BY DEF RegInv, ClaimInv, Owners
  <2> QED BY <2>1 DEF RegInv, ValueInv, GlobalsInv, AircraftInv, Fits, ValuesDieWithClaim
<1> QED BY <1>1, RegistryInvariant, PTL

\* Aircraft out of sight have no values: the next one in the slot starts clean.
THEOREM SlotsStartClean == RegistrySpec => []ValuesOnlyInSight
<1>1. RegInv => ValuesOnlyInSight
  BY DEF RegInv, ValueInv, AircraftInv, ValuesOnlyInSight
<1> QED BY <1>1, RegistryInvariant, PTL
-----------------------------------------------------------------------------
(* What the queries find.                                                   *)

\* The key a value of an aircraft is read with.
ReadUnder(k) == <<k[1], HandleOf(k[2])>>

Shown(cell) == [value |-> cell.value, revision |-> cell.revision]

\* What is visible are the cells, no more and no less.
ViewFacts ==
    /\ DOMAIN View = VisibleKeys
    /\ \A k \in VisibleKeys : \/ \E q \in DOMAIN globals : k = <<q, NoHandle>>
                              \/ \E x \in DOMAIN aircraft : k = ReadUnder(x)
    /\ \A q \in DOMAIN globals :
          /\ <<q, NoHandle>> \in VisibleKeys
          /\ View[<<q, NoHandle>>] = Shown(globals[q])
    /\ \A x \in DOMAIN aircraft :
          /\ HandleOf(x[2]) # NoHandle /\ Validate(HandleOf(x[2])) = "OK"
          /\ ReadUnder(x) \in VisibleKeys
          /\ View[ReadUnder(x)] = Shown(aircraft[x])

LEMMA HandleOfSlot ==
  ASSUME TableInv, NEW s \in DOMAIN slots
  PROVE  /\ HandleOf(s) = <<s, slots[s].generation>> /\ HandleOf(s) # NoHandle
         /\ HandleOf(s)[1] = s /\ s \in Nat /\ s # NoSlot
         /\ slots[s].generation \in 1..MaxGeneration /\ s \in 1..MaxSlots
         /\ LiveSlot(s) <=> Validate(HandleOf(s)) = "OK"
<1>1. slots[s].generation \in 1..MaxGeneration /\ MaxGeneration \in Nat
  <2>1. slots[s] \in Entry
    BY DEF TableInv, TableTypeOK
  <2> QED BY <2>1, EntryGeneration, TableAssumption
<1>2. s \in 1..MaxSlots
  <2>1. DOMAIN slots = 1..Len(slots) /\ Len(slots) \in Nat /\ Len(slots) <= MaxSlots
    BY DEF TableInv, TableTypeOK, SizeBounded
  <2> QED BY <2>1, TableAssumption
<1>3. HandleOf(s) = <<s, slots[s].generation>> /\ HandleOf(s) # NoHandle
  BY <1>1 DEF HandleOf, NoHandle, Handle
<1>4. HandleOf(s)[1] = s /\ HandleOf(s)[2] = slots[s].generation
  BY <1>3
<1>5. LiveSlot(s) <=> Validate(HandleOf(s)) = "OK"
  BY <1>3, <1>4 DEF Validate
<1> QED BY <1>1, <1>2, <1>3, <1>4, <1>5, TableAssumption DEF NoSlot

LEMMA GlobalsFound ==
  ASSUME RegInv, NEW q
  PROVE  GetGlobal(q) = "OK" <=> q \in DOMAIN globals
BY DEF RegInv, ValueInv, GlobalsInv, Fits, GetGlobal

LEMMA AircraftFound ==
  ASSUME RegInv, NEW q, NEW s \in DOMAIN slots
  PROVE  GetAircraft(HandleOf(s), q) = "OK" <=> <<q, s>> \in DOMAIN aircraft
<1>1. HandleOf(s)[1] = s /\ (LiveSlot(s) <=> Validate(HandleOf(s)) = "OK")
  BY HandleOfSlot DEF RegInv
<1>2. ASSUME <<q, s>> \in DOMAIN aircraft
      PROVE  /\ q \in DOMAIN fields /\ fields[q].scope = "AIRCRAFT"
             /\ providers[fields[q].provider].live /\ LiveSlot(s)
  <2>1. <<q, s>>[1] = q /\ <<q, s>>[2] = s
    OBVIOUS
  <2> QED BY <1>2, <2>1 DEF RegInv, ValueInv, AircraftInv, Fits
<1> QED BY <1>1, <1>2 DEF GetAircraft

LEMMA ViewIs == RegInv => ViewFacts
<1> SUFFICES ASSUME RegInv PROVE ViewFacts
  OBVIOUS
<1>1. \A k \in DOMAIN aircraft : /\ k \in FieldNames \X Nat /\ k = <<k[1], k[2]>>
                                 /\ k[2] \in DOMAIN slots /\ LiveSlot(k[2])
  BY DEF RegInv, ValueInv, AircraftInv
<1>2. \A q \in DOMAIN globals : q \in FieldNames
  BY DEF RegInv, ValueInv, GlobalsInv, Fits, ClaimInv, ClaimTypes
<1>3. \A s \in DOMAIN slots : /\ HandleOf(s) # NoHandle /\ HandleOf(s)[1] = s
                              /\ LiveSlot(s) => Validate(HandleOf(s)) = "OK"
  BY HandleOfSlot DEF RegInv
<1>4. ASSUME NEW k \in VisibleKeys
      PROVE  \/ \E q \in DOMAIN globals : k = <<q, NoHandle>>
             \/ \E x \in DOMAIN aircraft : k = ReadUnder(x)
  <2>1. CASE k \in {<<q, NoHandle>> : q \in {p \in FieldNames : GetGlobal(p) = "OK"}}
    BY <2>1, GlobalsFound
  <2>2. CASE k \in {x \in FieldNames \X {HandleOf(s) : s \in DOMAIN slots} :
                       GetAircraft(x[2], x[1]) = "OK"}
    <3>1. PICK q \in FieldNames, s \in DOMAIN slots : k = <<q, HandleOf(s)>>
      BY <2>2
    <3>2. GetAircraft(HandleOf(s), q) = "OK"
      BY <2>2, <3>1
    <3>3. <<q, s>> \in DOMAIN aircraft
      BY <3>2, AircraftFound
    <3>4. ReadUnder(<<q, s>>) = k
      BY <3>1 DEF ReadUnder
    <3> QED BY <3>3, <3>4
  <2> QED BY <2>1, <2>2 DEF VisibleKeys
<1>5. DOMAIN View = VisibleKeys
  BY DEF View
<1>6. ASSUME NEW q \in DOMAIN globals
      PROVE  <<q, NoHandle>> \in VisibleKeys /\ View[<<q, NoHandle>>] = Shown(globals[q])
  <2>1. <<q, NoHandle>> \in VisibleKeys
    BY <1>2, GlobalsFound DEF VisibleKeys
  <2>2. <<q, NoHandle>>[1] = q /\ <<q, NoHandle>>[2] = NoHandle
    OBVIOUS
  <2> QED BY <2>1, <2>2 DEF View, Shown, ReadSlot
<1>7. ASSUME NEW x \in DOMAIN aircraft
      PROVE  ReadUnder(x) \in VisibleKeys /\ View[ReadUnder(x)] = Shown(aircraft[x])
  <2>1. GetAircraft(HandleOf(x[2]), x[1]) = "OK"
    BY <1>1, AircraftFound
  <2>2. ReadUnder(x)[1] = x[1] /\ ReadUnder(x)[2] = HandleOf(x[2])
    BY DEF ReadUnder
  <2>3. ReadUnder(x) \in FieldNames \X {HandleOf(s) : s \in DOMAIN slots}
    BY <1>1 DEF ReadUnder
  <2>4. ReadUnder(x) \in VisibleKeys
    BY <2>1, <2>2, <2>3 DEF VisibleKeys
  <2>5. HandleOf(x[2]) # NoHandle /\ HandleOf(x[2])[1] = x[2] /\ x = <<x[1], x[2]>>
    BY <1>1, <1>3
  <2> QED BY <2>2, <2>4, <2>5 DEF View, Shown, ReadSlot
<1> QED BY <1>1, <1>3, <1>4, <1>5, <1>6, <1>7 DEF ViewFacts

\* All ways to a value agree, and the lists of the slots are exactly the values
\* there are.
THEOREM ListsAreExact == RegistrySpec => []ValuesIndexed
<1>1. RegInv => ValuesIndexed
  <2> SUFFICES ASSUME RegInv PROVE ValuesIndexed
    OBVIOUS
  <2> DEFINE at(k) == <<k[1], IF k[2] = NoHandle THEN NoSlot ELSE k[2][1]>>
             wide(i) == {q \in providers[i].fields : fields[q].scope = "AIRCRAFT"}
             lines(i) == ((providers[i].fields \ wide(i)) \cap DOMAIN globals) \X {NoSlot}
                         \cup {k \in wide(i) \X DOMAIN slotFields :
                                  k[1] \in slotFields[k[2]] /\ k \in DOMAIN aircraft}
  <2>1. ViewFacts
    BY ViewIs
  <2>2. \A q \in DOMAIN globals : at(<<q, NoHandle>>) = <<q, NoSlot>>
    OBVIOUS
  <2>3. \A x \in DOMAIN aircraft : at(ReadUnder(x)) = x
    <3> SUFFICES ASSUME NEW x \in DOMAIN aircraft PROVE at(ReadUnder(x)) = x
      OBVIOUS
    <3>1. x = <<x[1], x[2]>> /\ HandleOf(x[2]) # NoHandle /\ HandleOf(x[2])[1] = x[2]
      BY HandleOfSlot DEF RegInv, ValueInv, AircraftInv
    <3>2. ReadUnder(x)[1] = x[1] /\ ReadUnder(x)[2] = HandleOf(x[2])
      BY DEF ReadUnder
    <3> QED BY <3>1, <3>2
  <2>4. ASSUME NEW q \in DOMAIN globals
        PROVE  <<q, NoSlot>> \in DumpAll
    <3>1. q \in DOMAIN fields /\ providers[fields[q].provider].live /\ fields[q].scope = "GLOBAL"
      BY DEF RegInv, ValueInv, GlobalsInv, Fits
    <3>2. fields[q].provider \in ListProviders /\ q \in providers[fields[q].provider].fields
      BY <3>1, LiveOwner DEF RegInv, ListProviders
    <3>3. <<q, NoSlot>> \in lines(fields[q].provider)
      BY <3>1, <3>2
    <3> QED BY <3>2, <3>3 DEF DumpAll
  <2>5. ASSUME NEW x \in DOMAIN aircraft
        PROVE  x \in DumpAll
    <3>1. /\ x = <<x[1], x[2]>> /\ x[1] \in DOMAIN fields /\ fields[x[1]].scope = "AIRCRAFT"
          /\ providers[fields[x[1]].provider].live
          /\ x[2] \in DOMAIN slotFields /\ x[1] \in slotFields[x[2]]
      BY DEF RegInv, ValueInv, AircraftInv, Lists, Fits
    <3>2. /\ fields[x[1]].provider \in ListProviders
          /\ x[1] \in providers[fields[x[1]].provider].fields
      BY <3>1, LiveOwner DEF RegInv, ListProviders
    <3>3. x \in lines(fields[x[1]].provider)
      BY <3>1, <3>2
    <3> QED BY <3>2, <3>3 DEF DumpAll
  <2>6. ASSUME NEW y \in DumpAll
        PROVE  (\E q \in DOMAIN globals : y = <<q, NoSlot>>) \/ y \in DOMAIN aircraft
    <3>1. PICK i \in ListProviders : y \in lines(i)
      BY <2>6 DEF DumpAll
    <3> QED BY <3>1
  <2>7. DumpAll = {at(k) : k \in VisibleKeys}
    <3>1. \A k \in VisibleKeys : at(k) \in DumpAll
      BY <2>1, <2>2, <2>3, <2>4, <2>5 DEF ViewFacts
    <3>2. \A y \in DumpAll : \E k \in VisibleKeys : y = at(k)
      BY <2>1, <2>2, <2>3, <2>6 DEF ViewFacts
    <3> HIDE DEF at
    <3> QED BY <3>1, <3>2
  <2>8. ASSUME NEW q \in FieldNames, NEW c \in Callsigns
        PROVE  DumpValue(q, c) <=> GetGlobal(q) = "OK" \/ GetAircraft(Resolve(c), q) = "OK"
    <3>1. GetGlobal(q) = "OK" <=> q \in DOMAIN globals
      BY GlobalsFound
    <3>2. /\ q \in DOMAIN globals => /\ q \in DOMAIN fields /\ fields[q].scope = "GLOBAL"
                                     /\ providers[fields[q].provider].live
          /\ \A s : <<q, s>> \in DOMAIN aircraft =>
                /\ q \in DOMAIN fields /\ fields[q].scope = "AIRCRAFT"
                /\ providers[fields[q].provider].live
      <4>1. \A s : <<q, s>>[1] = q
        OBVIOUS
      <4> QED BY <4>1 DEF RegInv, ValueInv, GlobalsInv, AircraftInv, Fits
    <3>3. CASE Tracked(c) /\ LiveSlot(index[c])
      <4>1. Resolve(c) = HandleOf(index[c]) /\ Resolve(c) # NoHandle /\ index[c] \in DOMAIN slots
        BY <3>3, ResolveCases DEF RegInv, TableInv, IndexMatchesSlots
      <4>2. GetAircraft(Resolve(c), q) = "OK" <=> <<q, index[c]>> \in DOMAIN aircraft
        BY <4>1, AircraftFound
      <4> QED BY <3>1, <3>2, <4>1, <4>2 DEF DumpValue
    <3>4. CASE ~(Tracked(c) /\ LiveSlot(index[c]))
      <4>1. Resolve(c) = NoHandle
        BY <3>4, ResolveCases DEF RegInv
      <4>2. GetAircraft(Resolve(c), q) # "OK"
        BY <4>1 DEF GetAircraft, Validate
      <4> QED BY <3>1, <3>2, <4>1, <4>2 DEF DumpValue
    <3> QED BY <3>3, <3>4
  <2>9. ShownAsRead
    BY <2>7, <2>8 DEF ShownAsRead
  <2> QED BY <2>9 DEF ValuesIndexed, RegInv, ValueInv, Lists
<1> QED BY <1>1, RegistryInvariant, PTL
-----------------------------------------------------------------------------
(* What a step does to what consumers see.                                  *)

\* All cells are old ones but those of G and A.
KeptBut(G, A) ==
    /\ \A q \in DOMAIN globals' \ G : q \in DOMAIN globals /\ globals'[q] = globals[q]
    /\ \A x \in DOMAIN aircraft' \ A : /\ x \in DOMAIN aircraft /\ aircraft'[x] = aircraft[x]
                                       /\ HandleOf(x[2])' = HandleOf(x[2])

\* What is gone was a field of T, or of an aircraft that left sight.
LeftBut(T) ==
    /\ \A q \in DOMAIN globals \ DOMAIN globals' : q \in T
    /\ \A x \in DOMAIN aircraft \ DOMAIN aircraft' : x[1] \in T \/ ~LiveSlot(x[2])'

Fresh(G, A) ==
    /\ \A q \in G : /\ q \in DOMAIN globals'
                    /\ clock < globals'[q].revision /\ globals'[q].revision <= clock'
    /\ \A p, q \in G : globals'[p].revision = globals'[q].revision => p = q
    /\ \A x \in A : /\ x \in DOMAIN aircraft'
                    /\ clock < aircraft'[x].revision /\ aircraft'[x].revision <= clock'
    /\ \A x, y \in A : x = y
    /\ G = {} \/ A = {}

Still(id) == ProviderRevision(id) # 0 /\ ProviderRevision(id)' = ProviderRevision(id)

\* The revision of every provider concerned has moved.
Announced(G, A, T) ==
    \A id \in Ids : Still(id) => /\ \A q \in G \cup T : q[1] # id
                                 /\ \A x \in A : x[1][1] # id

Moved(G, A, T) ==
    /\ KeptBut(G, A) /\ LeftBut(T) /\ Fresh(G, A) /\ Announced(G, A, T)
    /\ clock' >= clock

\* Steps that neither write nor drop.
LEMMA Unmoved ==
  ASSUME RegInv, UNCHANGED <<valueVars, clock>>,
         \A s, c : OfLiveSlot(s, c) => OfLiveSlot(s, c)' /\ HandleOf(s)' = HandleOf(s)
  PROVE  Moved({}, {}, {})
<1>1. \A x \in DOMAIN aircraft : HandleOf(x[2])' = HandleOf(x[2])
  BY DEF RegInv, ValueInv, AircraftInv, OfLiveSlot
<1>2. clock' >= clock
  BY DEF RegInv, ClaimInv, ClaimTypes
<1> QED BY <1>1, <1>2 DEF Moved, KeptBut, LeftBut, Fresh, Announced, valueVars

LEMMA SameHandles ==
  ASSUME UNCHANGED tableVars
  PROVE  \A s, c : OfLiveSlot(s, c) => OfLiveSlot(s, c)' /\ HandleOf(s)' = HandleOf(s)
BY DEF OfLiveSlot, LiveSlot, HandleOf, tableVars

\* Who retires is no longer live.
LEMMA RetiredAreGone ==
  ASSUME TableInv, NEW S,
         \/ \E c \in Callsigns : Retire(c) /\ S = {index[c]}
         \/ Sweep /\ S = Expired
  PROVE  \A s \in S : ~LiveSlot(s)'
<1>1. ASSUME NEW c \in Callsigns, Retire(c), S = {index[c]}
      PROVE  \A s \in S : ~LiveSlot(s)'
  <2> DEFINE t == index[c]
  <2>1. t \in DOMAIN slots /\ slots[t] \in Entry /\ slots[t].generation < MaxGeneration
    BY <1>1 DEF TableInv, TableTypeOK, IndexMatchesSlots, Retire
  <2>2. slots'[t] = Dead(slots[t]) /\ S = {t}
    BY <1>1, <2>1 DEF Retire
  <2> HIDE DEF t
  <2> QED BY <2>1, <2>2, DeadEntry DEF LiveSlot
<1>2. CASE Sweep /\ S = Expired
  BY <1>2, SweepEffect DEF LiveSlot
<1> QED BY <1>1, <1>2

LEMMA Slots_Moved ==
  ASSUME RegInv, NEW S, DropAircraftSlots(S), clock' >= clock,
         \A s, c : OfLiveSlot(s, c) /\ s \notin S =>
                      OfLiveSlot(s, c)' /\ HandleOf(s)' = HandleOf(s),
         \A s \in S : ~LiveSlot(s)'
  PROVE  Moved({}, {}, {})
<1>1. /\ globals' = globals /\ DOMAIN aircraft' = {k \in DOMAIN aircraft : k[2] \notin S}
      /\ \A k \in DOMAIN aircraft' : aircraft'[k] = aircraft[k]
  BY DropSlots DEF RegInv, ValueInv
<1>2. \A x \in DOMAIN aircraft' : HandleOf(x[2])' = HandleOf(x[2])
  BY <1>1 DEF RegInv, ValueInv, AircraftInv, OfLiveSlot
<1> QED BY <1>1, <1>2 DEF Moved, KeptBut, LeftBut, Fresh, Announced

LEMMA Release_Moved ==
  ASSUME RegInv, NEW I, NEW F, DropProviderValues(F), providers' = Without(I),
         \A q \in F : \E j \in I \cap DOMAIN providers :
             q \in providers[j].fields /\ claim[providers[j].id] = j,
         UNCHANGED <<claim, tableVars>>, clock' >= clock
  PROVE  Moved({}, {}, F)
<1>1. GlobalsInv /\ AircraftInv /\ Lists /\ ClaimInv
  BY DEF RegInv, ValueInv
<1>2. globals' = GlobalsWithout(F) /\ DropAircraftValues(F)
  BY DEF DropProviderValues
<1>3. DOMAIN globals' = DOMAIN globals \ F /\ \A q \in DOMAIN globals' : globals'[q] = globals[q]
  BY <1>1, <1>2, DropGlobals
<1>4. /\ DOMAIN aircraft' = {k \in DOMAIN aircraft : k[1] \notin F}
      /\ \A k \in DOMAIN aircraft' : aircraft'[k] = aircraft[k]
  BY <1>1, <1>2, DropWide
<1>5. \A s : HandleOf(s)' = HandleOf(s)
  BY DEF HandleOf, tableVars
<1>6. KeptBut({}, {}) /\ LeftBut(F) /\ Fresh({}, {})
  BY <1>3, <1>4, <1>5 DEF KeptBut, LeftBut, Fresh
<1>7. Announced({}, {}, F)
  <2> SUFFICES ASSUME NEW q \in F
               PROVE  ~Still(q[1])
    BY DEF Announced
  <2>1. PICK j \in I \cap DOMAIN providers :
           q \in providers[j].fields /\ claim[providers[j].id] = j
    OBVIOUS
  <2>2. PICK d \in Decls : Declares(d, providers[j])
    BY <2>1 DEF RegInv, ClaimInv, Declared
  <2>3. q[1] = providers[j].id
    BY <2>1, <2>2, OwnNames DEF Declares
  <2>4. providers'[j] = [providers[j] EXCEPT !.live = FALSE]
    BY <2>1 DEF Without
  <2>5. ~providers'[j].live
    BY <1>1, <2>1, <2>4, DeadClaim
  <2>6. ~Present(q[1])'
    BY <2>1, <2>3, <2>5 DEF Present
  <2> QED BY <2>6 DEF Still, ProviderRevision
<1> QED BY <1>6, <1>7 DEF Moved

\* A write takes the revision of its provider along.
LEMMA Publisher_Announces ==
  ASSUME RegInv, NEW b, NEW i \in DOMAIN providers, NEW q, NEW scope,
         CheckWrite(b, i, q, scope), Advance(i), dirty' \in BOOLEAN,
         UNCHANGED <<claim, fields, staged, pluginVars>>
  PROVE  ~Still(q[1]) /\ clock' = clock + 1 /\ clock \in Nat
<1>1. ClaimInv /\ UNCHANGED <<claim, fields, staged, loaded>>
  BY DEF RegInv, pluginVars
<1>2. /\ clock' = clock + 1 /\ clock \in Nat /\ providers'[i].revision = clock + 1
      /\ providers'[i].live = providers[i].live
  BY <1>1, Advance_Claims DEF ClaimInv, ClaimTypes
<1>3. q \in DOMAIN fields /\ fields[q].provider = i /\ providers[i].live
  BY DEF CheckWrite
<1>4. claim[q[1]] = i /\ i # NoProvider
  BY <1>1, <1>3, LiveOwner
<1>5. ProviderRevision(q[1]) = providers[i].revision /\ ProviderRevision(q[1])' = clock + 1
  BY <1>1, <1>2, <1>3, <1>4 DEF ProviderRevision, Present
<1>6. providers[i].revision <= clock /\ providers[i].revision \in Nat
  BY <1>1, ProvidersAre DEF ClaimInv, Declared, Provider
<1> QED BY <1>2, <1>5, <1>6 DEF Still

LEMMA Publish_Moved ==
  ASSUME RegInv, NEW b, NEW i \in DOMAIN providers, NEW q, NEW h, NEW v
  PROVE  /\ SetGlobal(b, i, q, v) => Moved({q}, {}, {})
         /\ ClearGlobal(b, i, q) => Moved({}, {}, {q})
         /\ SetAircraft(b, i, h, q, v) => Moved({}, {<<q, h[1]>>}, {})
         /\ ClearAircraft(b, i, h, q) => Moved({}, {}, {q})
<1>1. dirty \in BOOLEAN
  BY DEF RegInv, ClaimInv, ClaimTypes
<1>2. ASSUME UNCHANGED tableVars
      PROVE  \A s : HandleOf(s)' = HandleOf(s)
  BY <1>2 DEF HandleOf, tableVars
<1>3. Stored(v, i).revision = clock + 1
  BY DEF Stored
<1>4. ASSUME SetGlobal(b, i, q, v) PROVE Moved({q}, {}, {})
  <2>1. /\ CheckWrite(b, i, q, "GLOBAL") /\ Advance(i) /\ dirty' \in BOOLEAN
        /\ UNCHANGED <<claim, fields, staged, pluginVars, tableVars, aircraft>>
        /\ DOMAIN globals' = DOMAIN globals \cup {q} /\ globals'[q] = Stored(v, i)
        /\ \A p \in DOMAIN globals : p # q => globals'[p] = globals[p]
    BY <1>1, <1>4 DEF SetGlobal, MarkStateDirty, Put
  <2>2. ~Still(q[1]) /\ clock' = clock + 1 /\ clock \in Nat
    BY <2>1, Publisher_Announces
  <2> QED BY <1>2, <1>3, <2>1, <2>2 DEF Moved, KeptBut, LeftBut, Fresh, Announced
<1>5. ASSUME ClearGlobal(b, i, q) PROVE Moved({}, {}, {q})
  <2>1. /\ CheckWrite(b, i, q, "GLOBAL") /\ Advance(i) /\ dirty' \in BOOLEAN
        /\ UNCHANGED <<claim, fields, staged, pluginVars, tableVars, aircraft>>
        /\ DOMAIN globals' = DOMAIN globals \ {q}
        /\ \A p \in DOMAIN globals' : globals'[p] = globals[p]
    BY <1>1, <1>5 DEF ClearGlobal, MarkStateDirty, Drop, Restrict
  <2>2. ~Still(q[1]) /\ clock' = clock + 1 /\ clock \in Nat
    BY <2>1, Publisher_Announces
  <2> QED BY <1>2, <2>1, <2>2 DEF Moved, KeptBut, LeftBut, Fresh, Announced
<1>6. ASSUME SetAircraft(b, i, h, q, v) PROVE Moved({}, {<<q, h[1]>>}, {})
  <2> DEFINE x == <<q, h[1]>>
  <2>1. /\ CheckWrite(b, i, q, "AIRCRAFT") /\ Advance(i) /\ dirty' \in BOOLEAN
        /\ UNCHANGED <<claim, fields, staged, pluginVars, tableVars, globals>>
        /\ DOMAIN aircraft' = DOMAIN aircraft \cup {x} /\ aircraft'[x] = Stored(v, i)
        /\ \A k \in DOMAIN aircraft : k # x => aircraft'[k] = aircraft[k]
    BY <1>1, <1>6 DEF SetAircraft, Put
  <2>2. ~Still(q[1]) /\ clock' = clock + 1 /\ clock \in Nat
    BY <2>1, Publisher_Announces
  <2>3. x[1] = q
    OBVIOUS
  <2> HIDE DEF x
  <2>4. Moved({}, {x}, {})
    BY <1>2, <1>3, <2>1, <2>2, <2>3 DEF Moved, KeptBut, LeftBut, Fresh, Announced
  <2> QED BY <2>4 DEF x
<1>7. ASSUME ClearAircraft(b, i, h, q) PROVE Moved({}, {}, {q})
  <2> DEFINE x == <<q, h[1]>>
  <2>1. /\ CheckWrite(b, i, q, "AIRCRAFT") /\ Advance(i) /\ dirty' \in BOOLEAN
        /\ UNCHANGED <<claim, fields, staged, pluginVars, tableVars, globals>>
        /\ DOMAIN aircraft' = DOMAIN aircraft \ {x}
        /\ \A k \in DOMAIN aircraft' : aircraft'[k] = aircraft[k]
    BY <1>1, <1>7 DEF ClearAircraft, Drop, Restrict
  <2>2. ~Still(q[1]) /\ clock' = clock + 1 /\ clock \in Nat
    BY <2>1, Publisher_Announces
  <2>3. x[1] = q
    OBVIOUS
  <2> HIDE DEF x
  <2> QED BY <1>2, <2>1, <2>2, <2>3 DEF Moved, KeptBut, LeftBut, Fresh, Announced
<1> QED BY <1>4, <1>5, <1>6, <1>7

\* A new claim: what the earlier one had goes, what was saved comes back, and
\* the revision of the provider is one it never had.
LEMMA RegisterNew_Moved ==
  ASSUME RegInv, NEW b \in DOMAIN loaded, NEW d \in Decls, RegisterNew(b, d)
  PROVE  \E G, T : Moved(G, {}, T)
<1> DEFINE i == Len(providers) + 1
           F == FieldsOf(claim[d.id])
           S == Restorable(d)
           kept == GlobalsWithout(F)
<1>1. /\ i \in Nat /\ i \notin DOMAIN providers /\ DOMAIN providers' = DOMAIN providers \cup {i}
      /\ clock' \in Nat /\ clock' > clock
      /\ providers'[i].revision = clock' /\ providers'[i].live
  BY RegisterNew_Providers DEF RegInv
<1>2. /\ UNCHANGED tableVars /\ clock' = clock + 1 + Cardinality(S)
      /\ claim' = [claim EXCEPT ![d.id] = i]
      /\ DropAircraftValues(F) /\ GlobalsInv /\ AircraftInv /\ Lists
      /\ clock \in Nat /\ claim \in [Ids -> Nat] /\ d.id \in Ids
  BY OwnNames DEF RegisterNew, RegInv, ValueInv, ClaimInv, ClaimTypes
<1>3. PICK r \in Numberings(S) :
         globals' = [q \in DOMAIN kept \cup S |->
                        IF q \in S THEN [value |-> staged[q], revision |-> r[q], claimant |-> i]
                        ELSE kept[q]]
  BY DEF RegisterNew
<1>4. S \subseteq Qualified(d)
  BY DEF Restorable, Claimed
<1>5. Cardinality(S) \in Nat
  BY <1>4, RestoredFinite
<1>6. /\ r \in [S -> (clock + 2)..(clock + 1 + Cardinality(S))]
      /\ \A p, q \in S : r[p] = r[q] => p = q
  BY <1>3 DEF Numberings
<1> HIDE DEF S, i
<1>7. \A q \in S : clock < r[q] /\ r[q] <= clock'
  BY <1>2, <1>5, <1>6
<1>8. DOMAIN kept = DOMAIN globals \ F /\ \A q \in DOMAIN kept : kept[q] = globals[q]
  BY <1>2, DropGlobals
<1> HIDE DEF kept
<1>9. /\ DOMAIN aircraft' = {k \in DOMAIN aircraft : k[1] \notin F}
      /\ \A k \in DOMAIN aircraft' : aircraft'[k] = aircraft[k]
  BY <1>2, DropWide
<1>10. /\ DOMAIN globals' = DOMAIN kept \cup S
       /\ \A q \in S : globals'[q].revision = r[q]
       /\ \A q \in DOMAIN kept \ S : globals'[q] = globals[q]
  BY <1>3, <1>8
<1>11. \A s : HandleOf(s)' = HandleOf(s)
  BY <1>2 DEF HandleOf, tableVars
<1>12. KeptBut(S, {}) /\ LeftBut(F)
  BY <1>8, <1>9, <1>10, <1>11 DEF KeptBut, LeftBut
<1>13. Fresh(S, {})
  BY <1>6, <1>7, <1>10 DEF Fresh
<1>14. \A q \in S \cup F : q[1] = d.id
  <2>1. ASSUME NEW q \in F PROVE q[1] = d.id
    <3> DEFINE j == claim[d.id]
    <3>1. j # NoProvider /\ q \in providers[j].fields
      BY <2>1 DEF F, FieldsOf
    <3>2. j \in DOMAIN providers /\ providers[j].id = d.id
      BY <1>2, <3>1 DEF RegInv, ClaimInv, Claimants
    <3>3. PICK e \in Decls : Declares(e, providers[j])
      BY <3>2 DEF RegInv, ClaimInv, Declared
    <3> QED BY <3>1, <3>2, <3>3, OwnNames DEF Declares
  <2> QED BY <1>4, <2>1, OwnNames
<1>15. ~Still(d.id)
  <2>1. claim'[d.id] = i /\ i # NoProvider
    BY <1>1, <1>2, ProvidersAre DEF NoProvider, RegInv, i
  <2>2. ProviderRevision(d.id)' = clock'
    BY <1>1, <2>1 DEF ProviderRevision, Present, NoProvider
  <2>3. ProviderRevision(d.id) # 0 => ProviderRevision(d.id) <= clock /\ ProviderRevision(d.id) \in Nat
    <3> DEFINE j == claim[d.id]
    <3>1. SUFFICES ASSUME ProviderRevision(d.id) # 0
                   PROVE  providers[j].revision <= clock /\ providers[j].revision \in Nat
      BY DEF ProviderRevision
    <3>2. j \in DOMAIN providers
      BY <1>2, <3>1 DEF ProviderRevision, Present, RegInv, ClaimInv, Claimants
    <3> QED BY <3>2, ProvidersAre DEF RegInv, ClaimInv, Declared, Provider
  <2> QED BY <1>1, <1>2, <2>2, <2>3 DEF Still
<1> HIDE DEF F
<1>16. Announced(S, {}, F)
  BY <1>14, <1>15 DEF Announced
<1> QED BY <1>1, <1>2, <1>12, <1>13, <1>16 DEF Moved

\* Every step is one of these moves.
LEMMA Step_Moved ==
  ASSUME RegInv, [RegistryNext]_registryVars
  PROVE  \E G, A, T : Moved(G, A, T)
<1>1. TableInv /\ ClaimInv /\ clock \in Nat
  BY DEF RegInv, ClaimInv, ClaimTypes
<1>2. ASSUME UNCHANGED <<valueVars, clock, tableVars>>
      PROVE  \E G, A, T : Moved(G, A, T)
  BY <1>2, SameHandles, Unmoved
<1>3. CASE Lifecycle
  <2>1. ASSUME NEW b \in DOMAIN loaded, NEW d \in Decls, RegisterRejected(b, d)
        PROVE  \E G, A, T : Moved(G, A, T)
    <3> DEFINE i == claim[d.id]
    <3>1. /\ DropProviderValues(FieldsOf(i)) /\ i # NoProvider
          /\ providers' = Without({i})
          /\ UNCHANGED <<claim, tableVars>> /\ clock' = clock
      BY <2>1 DEF RegisterRejected, Released, Without
    <3>2. FieldsOf(i) = providers[i].fields /\ d.id \in Ids
      BY <3>1, OwnNames DEF FieldsOf
    <3>3. i \in DOMAIN providers /\ claim[providers[i].id] = i
      BY <1>1, <3>1, <3>2 DEF ClaimInv, Claimants
    <3> HIDE DEF i
    <3>4. clock' >= clock
      BY <1>1, <3>1
    <3> QED BY <3>1, <3>2, <3>3, <3>4, Release_Moved
  <2>2. ASSUME NEW b \in DOMAIN loaded, NEW i \in DOMAIN providers, Unregister(b, i)
        PROVE  \E G, A, T : Moved(G, A, T)
    <3> DEFINE F == FieldsOf(claim[providers[i].id])
    <3>1. F = providers[i].fields /\ claim[providers[i].id] = i
      BY <1>1, <2>2, ProvidersAre DEF ClaimInv, Claimants, FieldsOf, Unregister, NoProvider
    <3>2. /\ DropProviderValues(F) /\ clock' = clock + 1
          /\ UNCHANGED <<claim, tableVars>>
          /\ providers' = [providers EXCEPT ![i].live = FALSE]
      BY <2>2 DEF Unregister
    <3>3. providers' = Without({i})
      BY <1>1, <3>2, ProvidersAre DEF Without
    <3>4. clock' >= clock
      BY <1>1, <3>2
    <3> HIDE DEF F
    <3> QED BY <3>1, <3>2, <3>3, <3>4, Release_Moved
  <2>3. CASE ReapDeadModules
    <3> DEFINE F == UNION {FieldsOf(i) : i \in Orphans}
    <3>1. IsFiniteSet(DOMAIN providers) /\ Orphans \subseteq DOMAIN providers
      BY <1>1, ProvidersAre, FS_Interval DEF Orphans
    <3>2. Cardinality(Orphans) \in Nat
      BY <3>1, FS_Subset, FS_CardinalityType
    <3>3. \A q \in F : \E j \in Orphans \cap DOMAIN providers :
             q \in providers[j].fields /\ claim[providers[j].id] = j
      BY <1>1 DEF FieldsOf, Orphans, ClaimInv, Claimants
    <3>4. /\ DropProviderValues(F) /\ clock' = clock + Cardinality(Orphans)
          /\ UNCHANGED <<claim, tableVars>> /\ providers' = Without(Orphans)
      BY <2>3 DEF ReapDeadModules, Without
    <3> HIDE DEF F
    <3>5. clock' >= clock
      BY <1>1, <3>2, <3>4
    <3> QED BY <3>3, <3>4, <3>5, Release_Moved
  <2>4. CASE \/ \E b \in Bases, path \in Paths : LoadModule(b, path)
             \/ \E b \in Bases : UnloadModule(b)
             \/ \E b \in DOMAIN loaded, d \in Decls : RegisterAgain(b, d)
    BY <1>2, <2>4 DEF LoadModule, UnloadModule, RegisterAgain
  <2> QED BY <1>3, <2>1, <2>2, <2>3, <2>4, RegisterNew_Moved DEF Lifecycle
<1>4. CASE Publish
  <2>1. PICK b \in DOMAIN loaded, i \in DOMAIN providers, q \in FieldNames :
           \/ \E v \in Values : SetGlobal(b, i, q, v)
           \/ ClearGlobal(b, i, q)
           \/ \E p \in issued : \/ \E v \in Values : SetAircraft(b, i, p[1], q, v)
                                \/ ClearAircraft(b, i, p[1], q)
    BY <1>4 DEF Publish
  <2>2. ASSUME NEW v \in Values, SetGlobal(b, i, q, v)
        PROVE  \E G, A, T : Moved(G, A, T)
    BY <2>2, Publish_Moved
  <2>3. ASSUME NEW p \in issued, NEW v \in Values, SetAircraft(b, i, p[1], q, v)
        PROVE  \E G, A, T : Moved(G, A, T)
    BY <2>3, Publish_Moved
  <2>4. CASE ClearGlobal(b, i, q)
    BY <2>4, Publish_Moved
  <2>5. ASSUME NEW p \in issued, ClearAircraft(b, i, p[1], q)
        PROVE  \E G, A, T : Moved(G, A, T)
    BY <2>5, Publish_Moved
  <2> QED BY <2>1, <2>2, <2>3, <2>4, <2>5
<1>5. CASE Traffic
  <2>1. ASSUME NEW c \in Callsigns, ObserveAircraft(c)
        PROVE  \E G, A, T : Moved(G, A, T)
    <3>1. Observe(c) /\ UNCHANGED <<valueVars, clock>>
      BY <2>1 DEF ObserveAircraft
    <3> QED BY <1>1, <3>1, ObserveKeepsLive, Unmoved
  <2>2. ASSUME NEW c \in Callsigns, RetireAircraft(c)
        PROVE  \E G, A, T : Moved(G, A, T)
    <3> DEFINE S == {index[c]}
    <3>1. Retire(c) /\ DropAircraftSlots(S) /\ clock' >= clock
      BY <1>1, <2>2 DEF RetireAircraft
    <3> HIDE DEF S
    <3>2. \E e \in Callsigns : Retire(e) /\ S = {index[e]}
      BY <3>1 DEF S
    <3> QED BY <1>1, <3>1, <3>2, RetireKeepsOthers, RetiredAreGone, Slots_Moved
  <2>3. CASE SweepAircraft
    <3>1. Sweep /\ DropAircraftSlots(Expired) /\ clock' >= clock
      BY <1>1, <2>3 DEF SweepAircraft
    <3> QED BY <1>1, <3>1, RetireKeepsOthers, RetiredAreGone, Slots_Moved
  <2>4. CASE TimePasses
    <3>1. UNCHANGED <<valueVars, clock>>
      BY <2>4 DEF TimePasses
    <3>2. \A s, c : OfLiveSlot(s, c) => OfLiveSlot(s, c)' /\ HandleOf(s)' = HandleOf(s)
      BY <2>4 DEF TimePasses, Tick, OfLiveSlot, LiveSlot, HandleOf
    <3> QED BY <3>1, <3>2, Unmoved
  <2> QED BY <1>5, <2>1, <2>2, <2>3, <2>4 DEF Traffic
<1>6. CASE UNCHANGED registryVars
  BY <1>2, <1>6 DEF registryVars
<1> QED BY <1>3, <1>4, <1>5, <1>6 DEF RegistryNext

\* A new claim is the only step that hands an id on.
LEMMA ClaimsMoveUp ==
  ASSUME RegInv, [RegistryNext]_registryVars, NEW id \in Ids, claim'[id] # claim[id],
         NEW j \in DOMAIN providers
  PROVE  providers'[claim'[id]].revision > providers[j].revision
<1>1. PICK b \in DOMAIN loaded, d \in Decls : RegisterNew(b, d)
  <2>1. claim' # claim
    OBVIOUS
  <2>2. CASE Lifecycle
    BY <2>1, <2>2 DEF Lifecycle, LoadModule, UnloadModule, RegisterAgain, RegisterRejected,
                      Unregister, ReapDeadModules
  <2>3. CASE Publish
    <3>1. PICK b \in DOMAIN loaded, i \in DOMAIN providers, q \in FieldNames :
             \/ \E v \in Values : SetGlobal(b, i, q, v)
             \/ ClearGlobal(b, i, q)
             \/ \E p \in issued : \/ \E v \in Values : SetAircraft(b, i, p[1], q, v)
                                  \/ ClearAircraft(b, i, p[1], q)
      BY <2>3 DEF Publish
    <3>2. ASSUME NEW v \in Values, SetGlobal(b, i, q, v) PROVE FALSE
      BY <2>1, <3>2 DEF SetGlobal
    <3>3. ASSUME ClearGlobal(b, i, q) PROVE FALSE
      BY <2>1, <3>3 DEF ClearGlobal
    <3>4. ASSUME NEW p \in issued, NEW v \in Values, SetAircraft(b, i, p[1], q, v) PROVE FALSE
      BY <2>1, <3>4 DEF SetAircraft
    <3>5. ASSUME NEW p \in issued, ClearAircraft(b, i, p[1], q) PROVE FALSE
      BY <2>1, <3>5 DEF ClearAircraft
    <3> QED BY <3>1, <3>2, <3>3, <3>4, <3>5
  <2>4. CASE Traffic
    BY <2>1, <2>4 DEF Traffic, ObserveAircraft, RetireAircraft, SweepAircraft, TimePasses
  <2> QED BY <2>1, <2>2, <2>3, <2>4 DEF RegistryNext, registryVars
<1> DEFINE i == Len(providers) + 1
<1>2. providers'[i].revision = clock' /\ clock' > clock /\ clock' \in Nat /\ clock \in Nat
  BY <1>1, RegisterNew_Providers DEF RegInv, ClaimInv, ClaimTypes
<1>3. claim' = [claim EXCEPT ![d.id] = i]
  BY <1>1 DEF RegisterNew
<1> HIDE DEF i
<1>4. claim'[id] = i
  BY <1>3 DEF RegInv, ClaimInv, ClaimTypes
<1>5. providers[j].revision <= clock /\ providers[j].revision \in Nat
  BY ProvidersAre DEF RegInv, ClaimInv, Declared, Provider
<1> QED BY <1>2, <1>4, <1>5

\* What stands under a key that is new or changed was written by this step.
LEMMA WrittenNow ==
  ASSUME ViewFacts, ViewFacts', NEW G, NEW A, NEW T, Moved(G, A, T),
         NEW k \in VisibleKeys', ~(k \in VisibleKeys /\ View[k] = View'[k])
  PROVE  \/ \E q \in G : /\ k = <<q, NoHandle>> /\ q \in DOMAIN globals'
                         /\ View'[k] = Shown(globals'[q])
         \/ \E x \in A : /\ x \in DOMAIN aircraft' /\ k = <<x[1], HandleOf(x[2])'>>
                         /\ View'[k] = Shown(aircraft'[x])
<1>1. ASSUME NEW q \in DOMAIN globals', k = <<q, NoHandle>>
      PROVE  q \in G /\ View'[k] = Shown(globals'[q])
  <2>1. View'[k] = Shown(globals'[q])
    BY <1>1 DEF ViewFacts, Shown
  <2>2. ASSUME q \notin G PROVE FALSE
    <3>1. q \in DOMAIN globals /\ globals'[q] = globals[q]
      BY <2>2 DEF Moved, KeptBut
    <3>2. k \in VisibleKeys /\ View[k] = Shown(globals[q])
      BY <1>1, <3>1 DEF ViewFacts
    <3> QED BY <2>1, <3>1, <3>2
  <2> QED BY <2>1, <2>2
<1>2. ASSUME NEW x \in DOMAIN aircraft', k = <<x[1], HandleOf(x[2])'>>
      PROVE  x \in A /\ View'[k] = Shown(aircraft'[x])
  <2>1. View'[k] = Shown(aircraft'[x])
    BY <1>2 DEF ViewFacts, Shown, ReadUnder
  <2>2. ASSUME x \notin A PROVE FALSE
    <3>1. x \in DOMAIN aircraft /\ aircraft'[x] = aircraft[x] /\ HandleOf(x[2])' = HandleOf(x[2])
      BY <2>2 DEF Moved, KeptBut
    <3>2. k \in VisibleKeys /\ View[k] = Shown(aircraft[x])
      BY <1>2, <3>1 DEF ViewFacts, ReadUnder
    <3> QED BY <2>1, <3>1, <3>2
  <2> QED BY <2>1, <2>2
<1>3. \/ \E q \in DOMAIN globals' : k = <<q, NoHandle>>
      \/ \E x \in DOMAIN aircraft' : k = <<x[1], HandleOf(x[2])'>>
  BY DEF ViewFacts, ReadUnder
<1> QED BY <1>1, <1>2, <1>3

\* What no longer stands under its key was dropped, or its aircraft has left.
LEMMA GoneNow ==
  ASSUME ViewFacts, ViewFacts', NEW G, NEW A, NEW T, Moved(G, A, T),
         NEW k \in VisibleKeys, k \notin VisibleKeys'
  PROVE  \/ k[1] \in T
         \/ k[2] # NoHandle /\ Validate(k[2])' # "OK"
         \/ \E x \in A : k[1] = x[1]
<1>1. ASSUME NEW q \in DOMAIN globals, k = <<q, NoHandle>>
      PROVE  k[1] \in T
  <2>1. q \notin DOMAIN globals'
    BY <1>1 DEF ViewFacts
  <2> QED BY <1>1, <2>1 DEF Moved, LeftBut
<1>2. ASSUME NEW x \in DOMAIN aircraft, k = ReadUnder(x), k[1] \notin T,
             x \notin A
      PROVE  k[2] # NoHandle /\ Validate(k[2])' # "OK"
  <2>1. k[1] = x[1] /\ k[2] = HandleOf(x[2]) /\ k[2] # NoHandle
    BY <1>2 DEF ReadUnder, ViewFacts
  <2>2. x \notin DOMAIN aircraft'
    BY <1>2 DEF ViewFacts, Moved, KeptBut, ReadUnder
  <2>3. ~LiveSlot(x[2])'
    BY <1>2, <2>1, <2>2 DEF Moved, LeftBut
  <2>4. k[2][1] = x[2]
    BY <2>1 DEF HandleOf, Handle
  <2> QED BY <2>1, <2>3, <2>4 DEF Validate, LiveSlot
<1>3. ASSUME NEW x \in DOMAIN aircraft, k = ReadUnder(x)
      PROVE  k[1] = x[1]
  BY <1>3 DEF ReadUnder
<1> QED BY <1>1, <1>2, <1>3 DEF ViewFacts

\* A consumer that skips a provider whose revision stands still misses nothing
\* but aircraft that left sight, and the revision never falls back, not even to
\* a number an earlier claim of the id had: provider_revision is a sound gate.
THEOREM RevisionIsSoundGate == RegistrySpec => GateSound
<1> DEFINE Gate ==
      \A id \in Ids :
          /\ claim'[id] # claim[id] =>
                 \A i \in DOMAIN providers :
                     providers'[claim'[id]].revision > providers[i].revision
          /\ ProviderRevision(id) # 0 /\ ProviderRevision(id)' = ProviderRevision(id) =>
                 \A k \in DOMAIN View \cup DOMAIN View' :
                     k[1][1] = id =>
                        IF k \in DOMAIN View /\ k \in DOMAIN View'
                        THEN View[k] = View'[k]
                        ELSE k \in DOMAIN View /\ k[2] # NoHandle
                                /\ Validate(k[2])' # "OK"
<1>1. ASSUME RegInv, ViewFacts, ViewFacts', [RegistryNext]_registryVars
      PROVE  Gate
  <2>1. PICK G, A, T : Moved(G, A, T)
    BY <1>1, Step_Moved
  <2> SUFFICES ASSUME NEW id \in Ids, Still(id),
                      NEW k \in DOMAIN View \cup DOMAIN View', k[1][1] = id
               PROVE  IF k \in DOMAIN View /\ k \in DOMAIN View'
                      THEN View[k] = View'[k]
                      ELSE k \in DOMAIN View /\ k[2] # NoHandle /\ Validate(k[2])' # "OK"
    BY <1>1, ClaimsMoveUp DEF Still
  <2>2. DOMAIN View = VisibleKeys /\ DOMAIN View' = VisibleKeys'
    BY <1>1 DEF ViewFacts
  <2>3. k[1] \notin G \cup T /\ \A x \in A : x[1] # k[1]
    BY <2>1 DEF Moved, Announced
  <2>4. CASE k \in VisibleKeys'
    <3>1. ASSUME NEW q \in G, k = <<q, NoHandle>> PROVE FALSE
      BY <2>3, <3>1
    <3>2. k \in VisibleKeys /\ View[k] = View'[k]
      BY <1>1, <2>1, <2>3, <2>4, <3>1, WrittenNow
    <3> QED BY <2>2, <2>4, <3>2
  <2>5. CASE k \notin VisibleKeys'
    <3>1. k \in VisibleKeys
      BY <2>2, <2>5
    <3>2. k[2] # NoHandle /\ Validate(k[2])' # "OK"
      BY <1>1, <2>1, <2>3, <2>5, <3>1, GoneNow
    <3> QED BY <2>2, <2>5, <3>1, <3>2
  <2> QED BY <2>4, <2>5
<1>2. RegistrySpec => [][Gate]_registryVars
  BY <1>1, RegistryInvariant, ViewIs, PTL DEF RegistrySpec
<1> QED BY <1>2 DEF GateSound

\* What can be read is read under the name of a field and a handle in bounds.
Addressed ==
    VisibleKeys \subseteq FieldNames \X ({NoHandle} \cup (1..MaxSlots) \X (1..MaxGeneration))

LEMMA KeysAre == RegInv => Addressed
<1> SUFFICES ASSUME RegInv PROVE Addressed
  OBVIOUS
<1>1. \A s \in DOMAIN slots : HandleOf(s) \in (1..MaxSlots) \X (1..MaxGeneration)
  BY HandleOfSlot DEF RegInv
<1> QED BY <1>1 DEF Addressed, VisibleKeys

\* The registry implements FieldBoard for a consumer that polls: whatever it
\* reads under a key is the latest value written there, under a revision no
\* other value ever had, and keys of aircraft name their handle.
THEOREM RegistryImplementsBoard == RegistrySpec => ImplementsBoard
<1>1. RegistryInit => Board!Init
  <2> SUFFICES ASSUME RegistryInit PROVE View = <<>> /\ clock = 0
    BY DEF Board!Init
  <2>1. RegInv
    BY RegistryInit_Inv
  <2>2. DOMAIN globals = {} /\ DOMAIN aircraft = {} /\ clock = 0
    BY DEF RegistryInit
  <2>3. VisibleKeys = {}
    BY <2>1, <2>2, ViewIs DEF ViewFacts
  <2> QED BY <2>2, <2>3 DEF View
<1>2. ASSUME RegInv, RegInv', ViewFacts, ViewFacts', Addressed', [RegistryNext]_registryVars
      PROVE  Board!Update
  <2>1. PICK G, A, T : Moved(G, A, T)
    BY <1>2, Step_Moved
  <2>2. DOMAIN View = VisibleKeys /\ DOMAIN View' = VisibleKeys'
    BY <1>2 DEF ViewFacts
  <2>3. Board!Written = {k \in VisibleKeys' : ~(k \in VisibleKeys /\ View[k] = View'[k])}
    BY <2>2 DEF Board!Written
  <2>4. ASSUME NEW k \in Board!Written
        PROVE  \/ \E q \in G : /\ k = <<q, NoHandle>> /\ q \in DOMAIN globals'
                               /\ View'[k] = Shown(globals'[q])
               \/ \E x \in A : /\ x \in DOMAIN aircraft'
                               /\ k = <<x[1], HandleOf(x[2])'>>
                               /\ View'[k] = Shown(aircraft'[x])
    BY <1>2, <2>1, <2>3, <2>4, WrittenNow
  <2>5. /\ \A q \in DOMAIN globals' : globals'[q] \in Cell
        /\ \A x \in DOMAIN aircraft' : aircraft'[x] \in Cell
    BY <1>2 DEF RegInv, ValueInv, GlobalsInv, AircraftInv, Fits
  <2>6. clock \in Nat /\ clock' \in Nat /\ clock' >= clock
    BY <1>2, <2>1 DEF RegInv, ClaimInv, ClaimTypes, Moved
  <2>7. Fresh(G, A)
    BY <2>1 DEF Moved
  <2>8. ASSUME NEW k \in Board!Written
        PROVE  View'[k].value \in Values /\ View'[k].revision \in (clock + 1)..clock'
    <3>1. CASE \E q \in G : q \in DOMAIN globals' /\ View'[k] = Shown(globals'[q])
      BY <2>5, <2>6, <2>7, <3>1 DEF Fresh, Shown, Cell
    <3>2. CASE \E x \in A : x \in DOMAIN aircraft' /\ View'[k] = Shown(aircraft'[x])
      BY <2>5, <2>6, <2>7, <3>2 DEF Fresh, Shown, Cell
    <3> QED BY <2>4, <3>1, <3>2
  <2>9. ASSUME NEW j \in Board!Written, NEW k \in Board!Written,
               View'[j].revision = View'[k].revision
        PROVE  j = k
    <3>1. CASE A = {}
      <4>1. PICK p \in G : j = <<p, NoHandle>> /\ View'[j] = Shown(globals'[p])
        BY <2>4, <3>1
      <4>2. PICK q \in G : k = <<q, NoHandle>> /\ View'[k] = Shown(globals'[q])
        BY <2>4, <3>1
      <4>3. globals'[p].revision = globals'[q].revision
        BY <2>9, <4>1, <4>2 DEF Shown
      <4> QED BY <2>7, <4>1, <4>2, <4>3 DEF Fresh
    <3>2. CASE G = {}
      <4>1. PICK x \in A : j = <<x[1], HandleOf(x[2])'>>
        BY <2>4, <3>2
      <4>2. PICK y \in A : k = <<y[1], HandleOf(y[2])'>>
        BY <2>4, <3>2
      <4> QED BY <2>7, <4>1, <4>2 DEF Fresh
    <3> QED BY <2>7, <3>1, <3>2 DEF Fresh
  <2> QED BY <1>2, <2>2, <2>6, <2>8, <2>9 DEF Board!Update, Addressed
<1>3. RegistrySpec => [][Board!Update]_(Board!boardVars)
  BY <1>2, RegistryInvariant, ViewIs, KeysAre, PTL DEF RegistrySpec
<1> QED BY <1>1, <1>3, PTL DEF RegistrySpec, ImplementsBoard, Board!Spec
=============================================================================
