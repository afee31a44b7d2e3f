--------------------------- MODULE Persistence_proofs ---------------------------
(***************************************************************************)
(* Proofs about Persistence for any declarations, values, disks and bounds.*)
(*                                                                         *)
(* What a save writes is fixed when it begins, for nothing else runs until *)
(* it ends (Saving).  On this rests what is on file: what is staged, for   *)
(* nothing that is staged belongs to a live provider (Apart), and, while   *)
(* the dirty flag is down, every persistent value (Clean).                 *)
(***************************************************************************)
EXTENDS Persistence, Registry_proofs, WellFoundedInduction

\* The writer and the reader of the state file agree on what they can read.
Faithful == \A v \in Values : RoundTrip[v] \in {v, Unreadable}

FileTypes ==
    /\ file.kind = "state" => \A q \in DOMAIN file.state : file.state[q] \in Values
    /\ temp.kind = "state" => \A q \in DOMAIN temp.state : temp.state[q] \in Values
    /\ stage \in {"none", "opened", "written", "removed"}
    /\ bridge \in BOOLEAN /\ shutdown \in BOOLEAN /\ diskFails \in BOOLEAN
    /\ runs \in Nat

\* What the temporary file holds, and when the registry is closed.
Saving ==
    /\ stage \in {"written", "removed"} =>
          temp = Text(ToSave) \/ (diskFails /\ temp = Garbled)
    /\ stage = "none" /\ ~bridge => shutdown

SaveInv == RegInv /\ FileTypes /\ Saving
-----------------------------------------------------------------------------
(* What a new process starts with.                                          *)

Blank ==
    /\ TableInit
    /\ providers = <<>> /\ claim = [id \in Ids |-> NoProvider] /\ fields = <<>>
    /\ globals = <<>> /\ aircraft = <<>> /\ slotFields = <<>>
    /\ clock = 0 /\ dirty = FALSE /\ loaded = <<>>
    /\ \A q \in DOMAIN staged : staged[q] \in Values

LEMMA BlankIsFine == Blank => RegInv
<1> SUFFICES ASSUME Blank PROVE RegInv
  OBVIOUS
<1>1. TableInv
  BY TableInit_Inv DEF Blank
<1>2. DOMAIN <<>> = {} /\ <<>> \in Seq(Provider)
  OBVIOUS
<1>3. /\ providers = <<>> /\ DOMAIN fields = {} /\ DOMAIN globals = {} /\ DOMAIN aircraft = {}
      /\ DOMAIN slotFields = {} /\ DOMAIN loaded = {} /\ DOMAIN providers = {}
      /\ claim = [id \in Ids |-> NoProvider] /\ clock = 0 /\ dirty = FALSE
      /\ \A q \in DOMAIN staged : staged[q] \in Values
  BY <1>2 DEF Blank
<1>4. ClaimTypes
  BY <1>2, <1>3 DEF ClaimTypes, NoProvider
<1>5. ClaimInv
  BY <1>3, <1>4 DEF ClaimInv, Declared, Owners, Claimants
<1>6. ValueInv
  BY <1>3 DEF ValueInv, GlobalsInv, AircraftInv, Lists
<1> QED BY <1>1, <1>5, <1>6 DEF RegInv

LEMMA RestartIsBlank ==
  ASSUME SaveInv, Restart
  PROVE  /\ Blank' /\ staged' = StagedFrom(file, <<>>) /\ stage' = "none" /\ bridge'
         /\ fields' = <<>> /\ globals' = <<>> /\ dirty' = FALSE /\ UNCHANGED <<fileVars, diskFails>>
<1>1. DOMAIN <<>> = {}
  OBVIOUS
<1>2. \A q \in DOMAIN staged' : staged'[q] \in Values
  BY <1>1 DEF Restart, StagedFrom, SaveInv, FileTypes
<1> QED BY <1>2 DEF Restart, Blank, TableInit
-----------------------------------------------------------------------------
(* The text of a state.                                                     *)

LEMMA TextIs ==
  ASSUME NEW state, Text(state).kind = "state",
         \A q \in DOMAIN state : state[q] \in Values
  PROVE  /\ DOMAIN Text(state).state = DOMAIN state
         /\ \A q \in DOMAIN state : /\ Text(state).state[q] \in Values
                                    /\ Faithful => Text(state).state[q] = state[q]
<1>1. \A q \in DOMAIN state : RoundTrip[state[q]] # Unreadable
  BY DEF Text, Garbled
<1>2. Text(state).state = [q \in DOMAIN state |-> RoundTrip[state[q]]]
  BY <1>1 DEF Text, Complete
<1>3. \A v \in Values : RoundTrip[v] \in Values \cup {Unreadable}
  BY PersistenceAssumption
<1> QED BY <1>1, <1>2, <1>3 DEF Faithful

\* What a save writes.
LEMMA ToSaveIs ==
  ASSUME RegInv
  PROVE  /\ DOMAIN ToSave = Persistent \cup DOMAIN staged
         /\ \A q \in DOMAIN ToSave : ToSave[q] \in Values
         /\ \A q \in Persistent : ToSave[q] = globals[q].value
         /\ \A q \in DOMAIN staged \ Persistent : ToSave[q] = staged[q]
<1>1. \A q \in DOMAIN staged : staged[q] \in Values
  BY DEF RegInv, ClaimInv, ClaimTypes
<1>2. \A q \in Persistent : globals[q].value \in Values
  BY DEF Persistent, RegInv, ValueInv, GlobalsInv, Fits, Cell
<1> QED BY <1>1, <1>2 DEF ToSave

\* A save does not touch what it saves.
LEMMA ToSaveStays ==
  ASSUME UNCHANGED <<globals, fields, staged>>
  PROVE  Persistent' = Persistent /\ ToSave' = ToSave
BY DEF Persistent, ToSave

LEMMA SameRegistry ==
  ASSUME RegInv, UNCHANGED registryVars
  PROVE  RegInv'
BY RegistryNext_Inv

\* The steps of a save.
SaveStep == Flush \/ RemoveBridge \/ Write \/ RemoveOld \/ Rename \/ RenameFails

LEMMA SaveStep_Same ==
  ASSUME SaveStep
  PROVE  /\ UNCHANGED <<providers, claim, fields, valueVars, clock, staged, pluginVars, tableVars>>
         /\ UNCHANGED <<diskFails, runs>>
         /\ dirty' = dirty \/ (Rename /\ dirty' = FALSE)
         /\ bridge' => bridge
BY DEF SaveStep, Flush, RemoveBridge, Write, RemoveOld, Rename, RenameFails, registryVars,
       OpenTemp, SaveEnds, fileVars

LEMMA SaveStep_Inv ==
  ASSUME SaveInv, SaveStep
  PROVE  SaveInv'
<1>1. /\ UNCHANGED <<providers, claim, fields, valueVars, clock, staged, pluginVars, tableVars>>
      /\ dirty' \in BOOLEAN /\ diskFails' = diskFails
  BY SaveStep_Same DEF SaveInv, RegInv, ClaimInv, ClaimTypes
<1>2. RegInv'
  <2>1. TableInv'
    BY <1>1, TableNext_Inv DEF SaveInv, RegInv
  <2>2. ClaimInv'
    BY <1>1 DEF SaveInv, RegInv, ClaimInv, ClaimTypes, Declared, Declares, Owners, Claimants,
                pluginVars
  <2>3. ValueInv'
    BY <1>1 DEF SaveInv, RegInv, ValueInv, GlobalsInv, AircraftInv, Lists, Fits, LiveSlot,
                valueVars, tableVars
  <2> QED BY <2>1, <2>2, <2>3 DEF RegInv
<1>3. ToSave' = ToSave
  BY <1>1, ToSaveStays DEF valueVars
<1>4. Garbled.kind # "state" /\ NoFile.kind # "state"
  BY DEF Garbled, NoFile
<1>5. Text(ToSave).kind = "state" =>
         \A q \in DOMAIN Text(ToSave).state : Text(ToSave).state[q] \in Values
  BY ToSaveIs, TextIs DEF SaveInv
<1>6. FileTypes'
  BY <1>1, <1>4, <1>5 DEF SaveStep, Flush, RemoveBridge, Write, RemoveOld, Rename, RenameFails,
        OpenTemp, SaveEnds, fileVars, SaveInv, FileTypes
<1>7. Saving'
  BY <1>1, <1>3 DEF SaveStep, Flush, RemoveBridge, Write, RemoveOld, Rename, RenameFails,
        OpenTemp, SaveEnds, fileVars, SaveInv, FileTypes, Saving
<1> QED BY <1>2, <1>6, <1>7 DEF SaveInv

LEMMA Around_RegInv ==
  ASSUME SaveInv, Around
  PROVE  SaveInv' /\ UNCHANGED <<fileVars, processVars>> /\ stage = "none"
<1>1. RegistryNext /\ UNCHANGED <<fileVars, processVars>> /\ stage = "none"
  BY DEF Around, RegistryNext, Lifecycle
<1>2. RegInv'
  BY <1>1, RegistryNext_Inv DEF SaveInv
<1>3. FileTypes' /\ Saving'
  BY <1>1 DEF SaveInv, FileTypes, Saving, fileVars, processVars
<1> QED BY <1>1, <1>2, <1>3 DEF SaveInv
-----------------------------------------------------------------------------
(* The bridge is added again.                                               *)

\* A bounded set of numbers has a greatest.
LEMMA Greatest ==
  ASSUME NEW S \in SUBSET Nat, S # {}, NEW c \in Nat, \A n \in S : n <= c
  PROVE  \E n \in S : \A m \in S : m <= n
<1> DEFINE T == {c - n : n \in S}
<1>2. T \subseteq Nat /\ T # {}
  <2>1. \A n \in S : c - n \in Nat
    OBVIOUS
  <2> QED BY <2>1
<1> DEFINE less == OpToRel(<, Nat)
<1>1. IsWellFoundedOn(less, Nat)
  BY NatLessThanWellFounded
<1> HIDE DEF less, T
<1>3. PICK x \in T : \A y \in T : ~(<<y, x>> \in less)
  BY <1>1, <1>2, WFMin
<1>4. \A y \in T : ~(y < x)
  BY <1>2, <1>3 DEF less, OpToRel
<1>5. PICK n \in S : x = c - n
  BY DEF T
<1>6. ASSUME NEW m \in S PROVE m <= n
  <2>1. ~(c - m < c - n) /\ m \in Nat /\ n \in Nat
    BY <1>4, <1>5 DEF T
  <2> QED BY <2>1
<1> QED BY <1>6

\* There are finitely many fields.
LEMMA FieldsFinite ==
  ASSUME ClaimInv
  PROVE  IsFiniteSet(DOMAIN fields)
<1> DEFINE E == {providers[i].fields : i \in DOMAIN providers}
<1>1. IsFiniteSet(E)
  <2> DEFINE g == [i \in DOMAIN providers |-> providers[i].fields]
  <2>1. g \in Surjection(DOMAIN providers, E)
    BY DEF Surjection
  <2>2. IsFiniteSet(DOMAIN providers)
    BY ProvidersAre, FS_Interval
  <2> HIDE DEF g, E
  <2> QED BY <2>1, <2>2, FS_Surjection
<1>2. \A F \in E : IsFiniteSet(F)
  <2> SUFFICES ASSUME NEW i \in DOMAIN providers PROVE IsFiniteSet(providers[i].fields)
    OBVIOUS
  <2>1. PICK d \in Decls : Declares(d, providers[i])
    BY DEF ClaimInv, Declared
  <2> DEFINE f == [n \in DOMAIN d.fields |-> <<d.id, n>>]
  <2>2. f \in Surjection(DOMAIN d.fields, Qualified(d))
    BY DEF Surjection, Qualified
  <2>3. IsFiniteSet(DOMAIN d.fields)
    BY RegistryAssumption
  <2> HIDE DEF f
  <2> QED BY <2>1, <2>2, <2>3, FS_Surjection DEF Declares
<1>3. DOMAIN fields \subseteq UNION E
  BY DEF ClaimInv, Owners
<1> HIDE DEF E
<1> QED BY <1>1, <1>2, <1>3, FS_UNION, FS_Subset

\* What the constructor takes from the file and what it restores.
Takes == IF file.kind = "state" THEN Reclaimed(StagedFrom(file, staged)) ELSE {}
Restores == {q \in Takes : StagedFrom(file, staged)[q].type = fields[q].type}

LEMMA AddBridge_Effect ==
  ASSUME SaveInv, AddBridge
  PROVE  /\ clock' \in Nat /\ clock' >= clock
         /\ staged' = Drop(StagedFrom(file, staged), Takes)
         /\ DOMAIN globals' = DOMAIN globals \cup Restores
         /\ \A q \in Restores :
               /\ globals'[q].value = StagedFrom(file, staged)[q]
               /\ globals'[q].revision \in Nat /\ globals'[q].claimant = fields[q].provider
               /\ globals'[q] = [value |-> globals'[q].value, revision |-> globals'[q].revision,
                                 claimant |-> globals'[q].claimant]
         /\ \A q \in DOMAIN globals \ Restores : globals'[q] = globals[q]
         /\ DOMAIN providers' = DOMAIN providers
         /\ providers' = [i \in DOMAIN providers |-> providers'[i]]
         /\ \A i \in DOMAIN providers :
               /\ providers'[i] = [providers[i] EXCEPT !.revision = providers'[i].revision]
               /\ providers'[i].revision \in Nat /\ providers'[i].revision >= providers[i].revision
               /\ providers'[i].revision <= clock'
<1> DEFINE state == StagedFrom(file, staged)
           Of(i) == {q \in Restores : fields[q].provider = i}
<1>1. clock \in Nat /\ Cardinality(Restores) \in Nat
  <2>1. Restores \subseteq DOMAIN fields
    BY DEF Restores, Takes, Reclaimed
  <2> QED BY <2>1, FieldsFinite, FS_Subset, FS_CardinalityType
          DEF SaveInv, RegInv, ClaimInv, ClaimTypes
<1>2. /\ clock' = clock + Cardinality(Restores)
      /\ staged' = Drop(state, Takes)
  BY DEF AddBridge, Restores, Takes
<1>3. PICK r \in Revisions(Restores) :
         /\ globals' = [q \in DOMAIN globals \cup Restores |->
                IF q \in Restores
                THEN [value |-> state[q], revision |-> r[q], claimant |-> fields[q].provider]
                ELSE globals[q]]
         /\ providers' = [i \in DOMAIN providers |->
                [providers[i] EXCEPT !.revision = Max({@} \cup {r[q] : q \in Of(i)})]]
  BY DEF AddBridge, Restores, Takes
<1>4. \A q \in Restores : r[q] \in Nat /\ r[q] <= clock'
  BY <1>1, <1>2 DEF Revisions
<1> HIDE DEF state, Of
<1>5. ASSUME NEW i \in DOMAIN providers
      PROVE  /\ providers'[i] = [providers[i] EXCEPT !.revision = providers'[i].revision]
             /\ providers'[i].revision \in Nat /\ providers'[i].revision >= providers[i].revision
             /\ providers'[i].revision <= clock'
  <2> DEFINE S == {providers[i].revision} \cup {r[q] : q \in Of(i)}
  <2>1. providers[i].revision \in Nat /\ providers[i].revision <= clock'
    BY <1>1, <1>2, ProvidersAre DEF SaveInv, RegInv, ClaimInv, Declared, Provider
  <2>2. S \in SUBSET Nat /\ S # {} /\ \A n \in S : n <= clock'
    BY <1>4, <2>1 DEF Of
  <2>3. clock' \in Nat
    BY <1>1, <1>2
  <2>4. providers[i].revision \in S
    OBVIOUS
  <2>5. providers'[i] = [providers[i] EXCEPT !.revision = Max(S)]
    BY <1>3
  <2> HIDE DEF S
  <2>6. Max(S) \in S /\ \A n \in S : n <= Max(S)
    BY <2>2, <2>3, Greatest DEF Max
  <2>7. providers[i] \in Provider
    BY ProvidersAre DEF SaveInv, RegInv
  <2>8. providers'[i].revision = Max(S)
    BY <2>5, <2>7 DEF Provider
  <2> QED BY <2>2, <2>4, <2>5, <2>6, <2>8
<1>6. /\ DOMAIN globals' = DOMAIN globals \cup Restores
      /\ \A q \in DOMAIN globals \ Restores : globals'[q] = globals[q]
      /\ \A q \in Restores :
            globals'[q] = [value |-> state[q], revision |-> r[q], claimant |-> fields[q].provider]
  BY <1>3
<1>7. DOMAIN providers' = DOMAIN providers /\ providers' = [i \in DOMAIN providers |-> providers'[i]]
  BY <1>3
<1> QED BY <1>1, <1>2, <1>4, <1>5, <1>6, <1>7 DEF state

LEMMA AddBridge_Claims ==
  ASSUME SaveInv, AddBridge
  PROVE  /\ ClaimInv'
         /\ \A i \in DOMAIN providers : /\ providers'[i].live = providers[i].live
                                        /\ providers'[i].fields = providers[i].fields
<1>1. /\ clock' \in Nat /\ clock' >= clock
      /\ staged' = Drop(StagedFrom(file, staged), Takes)
      /\ DOMAIN providers' = DOMAIN providers
      /\ providers' = [i \in DOMAIN providers |-> providers'[i]]
      /\ \A i \in DOMAIN providers :
            /\ providers'[i] = [providers[i] EXCEPT !.revision = providers'[i].revision]
            /\ providers'[i].revision \in Nat /\ providers'[i].revision >= providers[i].revision
            /\ providers'[i].revision <= clock'
  BY AddBridge_Effect
<1>2. UNCHANGED <<claim, fields, dirty, loaded>>
  BY DEF AddBridge, pluginVars
<1>3. ASSUME NEW i \in DOMAIN providers
      PROVE  /\ providers'[i] \in Provider /\ providers'[i].live = providers[i].live
             /\ providers'[i].id = providers[i].id /\ providers'[i].version = providers[i].version
             /\ providers'[i].fields = providers[i].fields
  <2> DEFINE n == providers'[i].revision
  <2>1. providers[i] \in Provider
    BY ProvidersAre DEF SaveInv, RegInv
  <2>2. providers'[i] = [providers[i] EXCEPT !.revision = n] /\ n \in Nat
    BY <1>1
  <2> HIDE DEF n
  <2> QED BY <2>1, <2>2 DEF Provider
<1>4. providers' \in Seq(Provider)
  BY <1>1, <1>3, MappedProviders DEF SaveInv, RegInv
<1>5. ClaimTypes'
  <2>1. \A q \in DOMAIN staged' : staged'[q] \in Values
    BY <1>1 DEF Drop, Restrict, StagedFrom, SaveInv, FileTypes, RegInv, ClaimInv, ClaimTypes
  <2> QED BY <1>1, <1>2, <1>4, <2>1 DEF SaveInv, RegInv, ClaimInv, ClaimTypes
<1>6. Declared'
  <2> SUFFICES ASSUME NEW i \in DOMAIN providers
               PROVE  /\ \E d \in Decls : Declares(d, providers[i])'
                      /\ 1 <= providers'[i].revision /\ providers'[i].revision <= clock'
    BY <1>1 DEF Declared
  <2>1. PICK d \in Decls : Declares(d, providers[i])
    BY DEF SaveInv, RegInv, ClaimInv, Declared
  <2>2. Declares(d, providers[i])'
    BY <1>2, <1>3, <2>1 DEF Declares
  <2>3. 1 <= providers[i].revision /\ providers[i].revision \in Nat
    BY ProvidersAre DEF SaveInv, RegInv, ClaimInv, Declared, Provider
  <2> QED BY <1>1, <2>2, <2>3
<1>7. Owners' /\ Claimants'
  BY <1>1, <1>2, <1>3 DEF SaveInv, RegInv, ClaimInv, Owners, Claimants
<1> QED BY <1>3, <1>5, <1>6, <1>7 DEF ClaimInv

LEMMA AddBridge_Inv ==
  ASSUME SaveInv, AddBridge
  PROVE  SaveInv'
<1>1. /\ ClaimInv'
      /\ \A i \in DOMAIN providers : providers'[i].live = providers[i].live
  BY AddBridge_Claims
<1>2. /\ DOMAIN globals' = DOMAIN globals \cup Restores
      /\ \A q \in DOMAIN globals \ Restores : globals'[q] = globals[q]
      /\ \A q \in Restores :
            /\ globals'[q].value = StagedFrom(file, staged)[q]
            /\ globals'[q].revision \in Nat /\ globals'[q].claimant = fields[q].provider
            /\ globals'[q] = [value |-> globals'[q].value, revision |-> globals'[q].revision,
                              claimant |-> globals'[q].claimant]
  BY AddBridge_Effect
<1>3. UNCHANGED <<fields, aircraft, slotFields, tableVars, file, temp, stage, shutdown, diskFails>>
      /\ bridge'
  BY DEF AddBridge, fileVars
<1>4. TableInv'
  BY <1>3, TableNext_Inv DEF SaveInv, RegInv
<1>5. \A q \in DOMAIN fields : /\ fields[q].provider \in DOMAIN providers
                               /\ fields[q].provider \in Nat
  BY ProvidersAre DEF SaveInv, RegInv, ClaimInv, Owners
<1>6. ASSUME NEW q \in DOMAIN globals' PROVE Fits(q, globals[q])' /\ fields'[q].scope = "GLOBAL"
  <2>1. CASE q \in Restores
    <3>1. /\ q \in DOMAIN fields /\ providers[fields[q].provider].live
          /\ fields[q].scope = "GLOBAL" /\ file.kind = "state"
          /\ q \in DOMAIN file.state /\ StagedFrom(file, staged) = file.state
          /\ file.state[q].type = fields[q].type
      BY <2>1 DEF Restores, Takes, Reclaimed, StagedFrom
    <3>2. file.state[q] \in Values
      BY <3>1 DEF SaveInv, FileTypes
    <3> DEFINE v == globals'[q].value
               n == globals'[q].revision
               o == globals'[q].claimant
    <3>3. globals'[q] = [value |-> v, revision |-> n, claimant |-> o] /\ v = file.state[q]
          /\ n \in Nat /\ o = fields[q].provider
      BY <1>2, <2>1, <3>1
    <3> HIDE DEF v, n, o
    <3>4. globals'[q] \in Cell
      BY <1>5, <3>1, <3>2, <3>3 DEF Cell
    <3>5. globals'[q].value.type = fields[q].type /\ globals'[q].claimant = fields[q].provider
      BY <3>1, <3>3
    <3> QED BY <1>1, <1>3, <1>5, <3>1, <3>4, <3>5 DEF Fits
  <2>2. CASE q \notin Restores
    <3>1. q \in DOMAIN globals /\ globals'[q] = globals[q]
      BY <1>2, <2>2
    <3> QED BY <1>1, <1>3, <1>5, <3>1 DEF SaveInv, RegInv, ValueInv, GlobalsInv, Fits
  <2> QED BY <2>1, <2>2
<1>7. GlobalsInv'
  BY <1>6 DEF GlobalsInv
<1>8. AircraftInv' /\ Lists'
  BY <1>1, <1>3, <1>5 DEF SaveInv, RegInv, ValueInv, AircraftInv, Lists, Fits, LiveSlot, tableVars
<1>9. FileTypes' /\ Saving'
  BY <1>3 DEF SaveInv, FileTypes, Saving, AddBridge
<1> QED BY <1>1, <1>4, <1>7, <1>8, <1>9 DEF SaveInv, RegInv, ValueInv

LEMMA SaveInit_Inv == PersistInit => SaveInv
<1> SUFFICES ASSUME PersistInit PROVE SaveInv
  OBVIOUS
<1>1. RegInv
  BY RegistryInit_Inv DEF PersistInit
<1>2. FileTypes
  BY <1>1, PersistenceAssumption
     DEF PersistInit, FileTypes, Complete, NoFile, RegInv, ClaimInv, ClaimTypes
<1>3. Saving
  BY DEF PersistInit, Saving
<1> QED BY <1>1, <1>2, <1>3 DEF SaveInv

LEMMA SaveNext_Inv ==
  ASSUME SaveInv, [PersistNext]_persistVars, (Blank => RegInv)'
  PROVE  SaveInv'
<1>1. CASE Around
  BY <1>1, Around_RegInv
<1>2. CASE SaveStep
  BY <1>2, SaveStep_Inv
<1>3. CASE Restart
  <2>1. RegInv'
    BY <1>3, RestartIsBlank
  <2>2. /\ stage' = "none" /\ bridge' = TRUE /\ shutdown' = FALSE /\ runs' = runs + 1
        /\ UNCHANGED <<file, temp, diskFails>>
    BY <1>3 DEF Restart, fileVars
  <2>3. FileTypes'
    <3>1. runs' \in Nat /\ stage' \in {"none", "opened", "written", "removed"}
      BY <2>2 DEF SaveInv, FileTypes
    <3>2. bridge' \in BOOLEAN /\ shutdown' \in BOOLEAN /\ diskFails' \in BOOLEAN
      BY <2>2, Zenon DEF SaveInv, FileTypes
    <3>3. /\ file'.kind = "state" => \A q \in DOMAIN file'.state : file'.state[q] \in Values
          /\ temp'.kind = "state" => \A q \in DOMAIN temp'.state : temp'.state[q] \in Values
      BY <2>2, Zenon DEF SaveInv, FileTypes
    <3> QED BY <3>1, <3>2, <3>3 DEF FileTypes
  <2>4. Saving'
    BY <2>2 DEF Saving
  <2> QED BY <2>1, <2>3, <2>4 DEF SaveInv
<1>4. CASE AddBridge
  BY <1>4, AddBridge_Inv
<1>5. CASE UNCHANGED persistVars
  <2>1. RegInv'
    BY <1>5, SameRegistry DEF SaveInv, persistVars
  <2>2. UNCHANGED <<globals, fields, staged, fileVars, processVars>>
    BY <1>5 DEF persistVars, registryVars, valueVars
  <2>3. ToSave' = ToSave
    BY <2>2, ToSaveStays
  <2> QED BY <2>1, <2>2, <2>3 DEF SaveInv, FileTypes, Saving, fileVars, processVars
<1> QED BY <1>1, <1>2, <1>3, <1>4, <1>5 DEF PersistNext, SaveStep

\* The registry keeps its invariant across saves, restarts and second bridges,
\* and a temporary file that is complete holds what the save began with.
THEOREM SaveInvariant == PersistSpec => []SaveInv
  BY SaveInit_Inv, SaveNext_Inv, BlankIsFine, PTL DEF PersistSpec

\* A save never passes a point without a complete state in one of the two
\* files, if the disk works and what is saved can be read back.
THEOREM AlwaysOneFile == PersistSpec => CompleteOnDisk
<1> DEFINE NeverNone == ~diskFails /\ Text(ToSave).kind = "state"
                   /\ (file.kind = "state" \/ (stage # "none" /\ temp.kind = "state")) =>
                      "state" \in {file'.kind, temp'.kind}
<1>1. ASSUME SaveInv, [PersistNext]_persistVars PROVE NeverNone
  <2> SUFFICES ASSUME ~diskFails, Text(ToSave).kind = "state",
                      file.kind = "state" \/ (stage # "none" /\ temp.kind = "state")
               PROVE  file'.kind = "state" \/ temp'.kind = "state"
    OBVIOUS
  <2>1. CASE Around \/ Restart \/ AddBridge \/ UNCHANGED persistVars
    BY <2>1 DEF Around, Restart, AddBridge, persistVars, fileVars
  <2>2. CASE SaveStep
    BY <1>1, <2>2 DEF SaveInv, Saving, SaveStep, Flush, RemoveBridge, Write, RemoveOld, Rename,
                      RenameFails, OpenTemp, SaveEnds, fileVars
  <2> QED BY <1>1, <2>1, <2>2 DEF PersistNext, SaveStep
<1>2. PersistSpec => [][NeverNone]_persistVars
  BY <1>1, SaveInvariant, PTL DEF PersistSpec
<1> QED BY <1>2 DEF CompleteOnDisk
-----------------------------------------------------------------------------
(* What is on file.                                                         *)

\* What is staged is on file.
Kept ==
    file.kind = "state" =>
        \A q \in DOMAIN staged : q \in DOMAIN file.state /\ file.state[q] = staged[q]

\* What a live provider declared as persistent is no longer staged.
Apart ==
    \A q \in DOMAIN staged \cap DOMAIN fields :
        providers[fields[q].provider].live =>
            ~(fields[q].persist /\ fields[q].scope = "GLOBAL")

\* The file is there, and the last save can be read.
Sound == stage # "removed" /\ ~diskFails /\ Text(saved).kind = "state"

OnFile(q, v) == q \in DOMAIN file.state /\ file.state[q] = v

Backed == Sound => \A q \in DOMAIN staged : OnFile(q, staged[q])

Clean == Sound /\ ~dirty => \A q \in Persistent : OnFile(q, globals[q].value)

\* While the bridge is away, what is on file for live providers is what they have.
Away ==
    stage = "none" /\ ~bridge /\ ~diskFails /\ file.kind = "state" =>
        \A q \in Reclaimed(file.state) :
            q \in DOMAIN globals /\ globals[q].value = file.state[q]

FileInv == Kept /\ Apart /\ Backed /\ Clean /\ Away

LEMMA FileInit_Inv == PersistInit => FileInv
<1> SUFFICES ASSUME PersistInit PROVE FileInv
  OBVIOUS
<1>1. DOMAIN <<>> = {}
  OBVIOUS
<1>2. /\ DOMAIN fields = {} /\ DOMAIN globals = {} /\ bridge
      /\ file = IF staged = <<>> THEN NoFile ELSE Complete(staged)
  BY <1>1 DEF PersistInit, RegistryInit
<1>3. Persistent = {}
  BY <1>2 DEF Persistent
<1>4. NoFile.kind # "state" /\ Complete(staged).state = staged
  BY DEF NoFile, Complete
<1>5. \A q \in DOMAIN staged : file.state = staged /\ file.kind = "state"
  BY <1>1, <1>2, <1>4 DEF Complete
<1> QED BY <1>2, <1>3, <1>4, <1>5 DEF FileInv, Kept, Apart, Backed, Clean, Away, OnFile

\* Steps of plugins that end claims or leave them alone.
Ends ==
    /\ UNCHANGED <<fields, staged, dirty, fileVars, processVars>>
    /\ \A i \in DOMAIN providers : providers'[i].live => providers[i].live
    /\ \A q \in DOMAIN globals' : q \in DOMAIN globals /\ globals'[q] = globals[q]
    /\ \A q \in DOMAIN globals \ DOMAIN globals' : ~providers'[fields[q].provider].live

LEMMA Ends_Inv ==
  ASSUME SaveInv, FileInv, Ends
  PROVE  FileInv'
<1>1. /\ UNCHANGED <<fields, staged, dirty, file, saved, stage, bridge, diskFails>>
      /\ \A q \in DOMAIN fields : providers'[fields[q].provider].live =>
                                      providers[fields[q].provider].live
  BY DEF Ends, fileVars, processVars, SaveInv, RegInv, ClaimInv, Owners
<1>2. Kept' /\ Apart' /\ Backed'
  BY <1>1 DEF FileInv, Kept, Apart, Backed, Sound, OnFile, Text
<1>3. Persistent' \subseteq Persistent /\ \A q \in Persistent' : globals'[q] = globals[q]
  BY <1>1 DEF Ends, Persistent
<1>4. Clean'
  BY <1>1, <1>3 DEF FileInv, Clean, Sound, OnFile, Text
<1>5. Away'
  <2> SUFFICES ASSUME stage = "none", ~bridge, ~diskFails, file.kind = "state",
                      NEW q \in Reclaimed(file.state)'
               PROVE  q \in DOMAIN globals' /\ globals'[q].value = file.state[q]
    BY <1>1 DEF Away
  <2>1. q \in Reclaimed(file.state) /\ providers'[fields[q].provider].live
    BY <1>1 DEF Reclaimed
  <2>2. q \in DOMAIN globals /\ globals[q].value = file.state[q]
    BY <2>1 DEF FileInv, Away
  <2> QED BY <2>1, <2>2 DEF Ends
<1> QED BY <1>2, <1>4, <1>5 DEF FileInv

\* The claims of I end, and with them the values of their fields F.
LEMMA Release_Ends ==
  ASSUME SaveInv, NEW I, NEW F, DropProviderValues(F), providers' = Without(I),
         \A q \in F : \E j \in I \cap DOMAIN providers :
             q \in providers[j].fields /\ claim[providers[j].id] = j,
         UNCHANGED <<fields, staged, dirty, fileVars, processVars>>
  PROVE  Ends
<1>1. ClaimInv /\ GlobalsInv
  BY DEF SaveInv, RegInv, ValueInv
<1>2. \A i \in DOMAIN providers : /\ providers'[i].live => providers[i].live
                                  /\ i \in I => ~providers'[i].live
  BY <1>1, DeadClaim DEF Without
<1>3. DOMAIN globals' = DOMAIN globals \ F /\ \A q \in DOMAIN globals' : globals'[q] = globals[q]
  BY <1>1, DropGlobals DEF DropProviderValues
<1>4. ASSUME NEW q \in DOMAIN globals, q \in F
      PROVE  ~providers'[fields[q].provider].live
  <2>1. PICK j \in I \cap DOMAIN providers :
           q \in providers[j].fields /\ claim[providers[j].id] = j
    BY <1>4
  <2>2. PICK d \in Decls : Declares(d, providers[j])
    BY <1>1, <2>1 DEF ClaimInv, Declared
  <2>3. q[1] = providers[j].id
    BY <2>1, <2>2, OwnNames DEF Declares
  <2>4. q \in DOMAIN fields /\ providers[fields[q].provider].live
    BY <1>1, <1>4 DEF GlobalsInv, Fits
  <2>5. fields[q].provider = j
    BY <1>1, <2>1, <2>3, <2>4, LiveOwner
  <2> QED BY <1>2, <2>1, <2>5
<1> QED BY <1>2, <1>3, <1>4 DEF Ends

\* The values that stay when a new claim is made are those of other owners.
LEMMA RegisterNew_Keeps ==
  ASSUME RegInv, NEW b \in DOMAIN loaded, NEW d \in Decls, RegisterNew(b, d)
  PROVE  /\ \A q \in DOMAIN globals' \ Restorable(d) :
               /\ q \in DOMAIN globals /\ globals'[q] = globals[q]
               /\ q \in DOMAIN fields \ Qualified(d) /\ fields'[q] = fields[q]
         /\ \A q \in Restorable(d) : /\ q \in DOMAIN staged /\ q \in DOMAIN globals'
                                     /\ globals'[q].value = staged[q]
         /\ \A q \in DOMAIN fields' : q \notin Qualified(d) =>
               /\ q \in DOMAIN fields /\ fields'[q] = fields[q]
               /\ providers'[fields[q].provider].live => providers[fields[q].provider].live
<1> DEFINE i == Len(providers) + 1
           F == FieldsOf(claim[d.id])
           S == Restorable(d)
           kept == GlobalsWithout(F)
<1>1. /\ i \in Nat
      /\ \A j \in DOMAIN providers :
            providers'[j].live <=> j # claim[d.id] /\ providers[j].live
  BY RegisterNew_Providers DEF RegInv
<1>2. ClaimInv /\ GlobalsInv /\ fields' = Catalogue(d, i) /\ Acceptable(d)
  BY DEF RegInv, ValueInv, RegisterNew
<1>3. PICK r \in Numberings(S) :
         globals' = [q \in DOMAIN kept \cup S |->
                        IF q \in S THEN [value |-> staged[q], revision |-> r[q], claimant |-> i]
                        ELSE kept[q]]
  BY DEF RegisterNew
<1> HIDE DEF i
<1>4. /\ DOMAIN fields' = DOMAIN fields \cup Qualified(d)
      /\ \A q \in DOMAIN fields \ Qualified(d) : fields'[q] = fields[q]
  BY <1>1, <1>2, Catalogued
<1>5. DOMAIN kept = DOMAIN globals \ F /\ \A q \in DOMAIN kept : kept[q] = globals[q]
  BY <1>2, DropGlobals
<1>6. S \subseteq DOMAIN staged
  BY DEF Restorable, Claimed
<1> HIDE DEF S, kept
<1>7. ASSUME NEW q \in DOMAIN globals' \ S
      PROVE  /\ q \in DOMAIN globals /\ globals'[q] = globals[q]
             /\ q \in DOMAIN fields \ Qualified(d) /\ fields'[q] = fields[q]
  <2>1. q \in DOMAIN globals /\ q \notin F /\ globals'[q] = globals[q]
    BY <1>3, <1>5
  <2>2. q \in DOMAIN fields /\ providers[fields[q].provider].live
    BY <1>2, <2>1 DEF GlobalsInv, Fits
  <2>3. /\ q \in providers[fields[q].provider].fields /\ claim[q[1]] = fields[q].provider
        /\ fields[q].provider # NoProvider
    BY <1>2, <2>2, LiveOwner
  <2>4. q \notin Qualified(d)
    BY <2>1, <2>3, OwnNames DEF F, FieldsOf
  <2> QED BY <1>4, <2>1, <2>2, <2>4
<1>8. \A q \in S : q \in DOMAIN globals' /\ globals'[q].value = staged[q]
  BY <1>3
<1>9. \A q \in DOMAIN fields : fields[q].provider \in DOMAIN providers
  BY <1>2 DEF ClaimInv, Owners
<1> QED BY <1>1, <1>4, <1>6, <1>7, <1>8, <1>9 DEF S

LEMMA RegisterNew_File ==
  ASSUME SaveInv, FileInv, NEW b \in DOMAIN loaded, NEW d \in Decls, RegisterNew(b, d),
         UNCHANGED <<fileVars, processVars>>, bridge \/ stage # "none"
  PROVE  FileInv'
<1>1. RegInv /\ UNCHANGED <<file, saved, stage, bridge, diskFails, dirty>>
  BY DEF SaveInv, fileVars, processVars, RegisterNew
<1>2. /\ DOMAIN staged' = DOMAIN staged \ Claimed(d)
      /\ \A q \in DOMAIN staged' : staged'[q] = staged[q]
  BY DEF RegisterNew, Drop, Restrict
<1>3. /\ \A q \in DOMAIN globals' \ Restorable(d) :
            /\ q \in DOMAIN globals /\ globals'[q] = globals[q]
            /\ q \in DOMAIN fields \ Qualified(d) /\ fields'[q] = fields[q]
      /\ \A q \in Restorable(d) : /\ q \in DOMAIN staged /\ q \in DOMAIN globals'
                                  /\ globals'[q].value = staged[q]
      /\ \A q \in DOMAIN fields' : q \notin Qualified(d) =>
            /\ q \in DOMAIN fields /\ fields'[q] = fields[q]
            /\ providers'[fields[q].provider].live => providers[fields[q].provider].live
  BY <1>1, RegisterNew_Keeps
<1>4. Kept' /\ Backed'
  BY <1>1, <1>2 DEF FileInv, Kept, Backed, Sound, OnFile, Text
<1>5. Apart'
  <2> SUFFICES ASSUME NEW q \in DOMAIN staged' \cap DOMAIN fields',
                      providers'[fields'[q].provider].live,
                      fields'[q].persist, fields'[q].scope = "GLOBAL"
               PROVE  FALSE
    BY DEF Apart
  <2>1. q \notin Qualified(d)
    BY <1>2 DEF Claimed
  <2> QED BY <1>2, <1>3, <2>1 DEF FileInv, Apart
<1>6. Clean'
  <2> SUFFICES ASSUME Sound, ~dirty, NEW q \in Persistent'
               PROVE  OnFile(q, globals'[q].value)
    BY <1>1 DEF Clean, Sound, OnFile, Text
  <2>1. CASE q \in Restorable(d)
    BY <1>3, <2>1 DEF FileInv, Backed
  <2>2. CASE q \notin Restorable(d)
    <3>1. q \in Persistent /\ globals'[q] = globals[q]
      BY <1>3, <2>2 DEF Persistent
    <3> QED BY <3>1 DEF FileInv, Clean
  <2> QED BY <2>1, <2>2
<1>7. Away'
  BY <1>1 DEF Away
<1> QED BY <1>4, <1>5, <1>6, <1>7 DEF FileInv

LEMMA Publish_File ==
  ASSUME SaveInv, FileInv, Publish, UNCHANGED <<fileVars, processVars>>,
         bridge \/ stage # "none"
  PROVE  FileInv'
<1>1. ClaimInv /\ dirty \in BOOLEAN /\ UNCHANGED <<file, saved, stage, bridge, diskFails>>
  BY DEF SaveInv, RegInv, ClaimInv, ClaimTypes, fileVars, processVars
<1>2. PICK b \in DOMAIN loaded, i \in DOMAIN providers, q \in FieldNames :
         \/ \E v \in Values : SetGlobal(b, i, q, v)
         \/ ClearGlobal(b, i, q)
         \/ \E p \in issued : \/ \E v \in Values : SetAircraft(b, i, p[1], q, v)
                              \/ ClearAircraft(b, i, p[1], q)
  BY DEF Publish
<1> DEFINE Quiet == \/ dirty'
                    \/ /\ ~dirty
                       /\ \A p \in DOMAIN globals' : fields[p].persist =>
                             p \in DOMAIN globals /\ globals'[p] = globals[p]
<1>3. ASSUME NEW v \in Values, SetGlobal(b, i, q, v)
      PROVE  UNCHANGED <<claim, fields, staged, pluginVars>> /\ Advance(i) /\ dirty' \in BOOLEAN
             /\ Quiet
  BY <1>1, <1>3 DEF SetGlobal, MarkStateDirty, Put
<1>4. ASSUME ClearGlobal(b, i, q)
      PROVE  UNCHANGED <<claim, fields, staged, pluginVars>> /\ Advance(i) /\ dirty' \in BOOLEAN
             /\ Quiet
  BY <1>1, <1>4 DEF ClearGlobal, MarkStateDirty, Drop, Restrict
<1>5. ASSUME NEW h, NEW v \in Values, SetAircraft(b, i, h, q, v)
      PROVE  UNCHANGED <<claim, fields, staged, pluginVars>> /\ Advance(i) /\ dirty' \in BOOLEAN
             /\ Quiet
  BY <1>1, <1>5 DEF SetAircraft
<1>6. ASSUME NEW h, ClearAircraft(b, i, h, q)
      PROVE  UNCHANGED <<claim, fields, staged, pluginVars>> /\ Advance(i) /\ dirty' \in BOOLEAN
             /\ Quiet
  BY <1>1, <1>6 DEF ClearAircraft
<1>7. UNCHANGED <<claim, fields, staged, pluginVars>> /\ Advance(i) /\ dirty' \in BOOLEAN /\ Quiet
  BY <1>2, <1>3, <1>4, <1>5, <1>6
<1>8. \A j \in DOMAIN providers : providers'[j].live = providers[j].live
  BY <1>1, <1>7, Advance_Claims DEF pluginVars
<1>9. \A p \in DOMAIN fields : fields[p].provider \in DOMAIN providers
  BY <1>1 DEF ClaimInv, Owners
<1>10. Kept' /\ Apart' /\ Backed'
  BY <1>1, <1>7, <1>8, <1>9 DEF FileInv, Kept, Apart, Backed, Sound, OnFile, Text
<1>11. Clean'
  <2> SUFFICES ASSUME Sound, ~dirty', NEW p \in Persistent'
               PROVE  OnFile(p, globals'[p].value)
    BY <1>1 DEF Clean, Sound, OnFile, Text
  <2>1. ~dirty /\ p \in Persistent /\ globals'[p] = globals[p]
    BY <1>7 DEF Persistent
  <2> QED BY <2>1 DEF FileInv, Clean
<1>12. Away'
  BY <1>1 DEF Away
<1> QED BY <1>10, <1>11, <1>12 DEF FileInv

LEMMA Around_File ==
  ASSUME SaveInv, FileInv, Around
  PROVE  FileInv'
<1>1. ClaimInv /\ stage = "none" /\ UNCHANGED <<fileVars, processVars>>
      /\ (~bridge => shutdown)
  BY DEF Around, SaveInv, RegInv, Saving
<1>2. ASSUME NEW b \in Bases, NEW path \in Paths, LoadModule(b, path) PROVE FileInv'
  BY <1>1, <1>2, Ends_Inv DEF Ends, LoadModule, valueVars
<1>3. ASSUME NEW b \in Bases, UnloadModule(b) PROVE FileInv'
  BY <1>1, <1>3, Ends_Inv DEF Ends, UnloadModule, valueVars
<1>4. ASSUME NEW b \in DOMAIN loaded, NEW i \in DOMAIN providers, Unregister(b, i)
      PROVE  FileInv'
  <2> DEFINE F == FieldsOf(claim[providers[i].id])
  <2>1. F = providers[i].fields /\ claim[providers[i].id] = i
    BY <1>1, <1>4, ProvidersAre DEF ClaimInv, Claimants, FieldsOf, Unregister, NoProvider
  <2>2. DropProviderValues(F) /\ UNCHANGED <<fields, staged, dirty>>
        /\ providers' = [providers EXCEPT ![i].live = FALSE]
    BY <1>4 DEF Unregister
  <2>3. providers' = Without({i})
    BY <1>1, <2>2, ProvidersAre DEF Without
  <2> HIDE DEF F
  <2>4. Ends
    BY <1>1, <2>1, <2>2, <2>3, Release_Ends
  <2> QED BY <2>4, Ends_Inv
<1>5. CASE ReapDeadModules
  <2> DEFINE F == UNION {FieldsOf(i) : i \in Orphans}
  <2>1. \A q \in F : \E j \in Orphans \cap DOMAIN providers :
           q \in providers[j].fields /\ claim[providers[j].id] = j
    BY <1>1 DEF FieldsOf, Orphans, ClaimInv, Claimants
  <2>2. DropProviderValues(F) /\ UNCHANGED <<fields, staged, dirty>>
        /\ providers' = Without(Orphans)
    BY <1>5 DEF ReapDeadModules, Without
  <2> HIDE DEF F
  <2>3. Ends
    BY <1>1, <2>1, <2>2, Release_Ends
  <2> QED BY <2>3, Ends_Inv
<1>6. ASSUME NEW b \in DOMAIN loaded, NEW d \in Decls, RegisterRejected(b, d)
      PROVE  FileInv'
  <2> DEFINE i == claim[d.id]
  <2>1. /\ DropProviderValues(FieldsOf(i)) /\ i # NoProvider
        /\ providers' = Without({i}) /\ UNCHANGED <<fields, staged, dirty>>
    BY <1>6 DEF RegisterRejected, Released, Without
  <2>2. FieldsOf(i) = providers[i].fields /\ d.id \in Ids
    BY <2>1, OwnNames DEF FieldsOf
  <2>3. i \in DOMAIN providers /\ claim[providers[i].id] = i
    BY <1>1, <2>1, <2>2 DEF ClaimInv, Claimants
  <2> HIDE DEF i
  <2>4. Ends
    BY <1>1, <2>1, <2>2, <2>3, Release_Ends
  <2> QED BY <2>4, Ends_Inv
<1>7. ASSUME NEW b \in DOMAIN loaded, NEW d \in Decls, RegisterAgain(b, d)
      PROVE  FileInv'
  BY <1>1, <1>7, Ends_Inv DEF Ends, RegisterAgain, valueVars
<1>8. ASSUME NEW b \in DOMAIN loaded, NEW d \in Decls, RegisterNew(b, d), ~shutdown
      PROVE  FileInv'
  BY <1>1, <1>8, RegisterNew_File
<1>9. ASSUME Publish, ~shutdown PROVE FileInv'
  BY <1>1, <1>9, Publish_File
<1> QED BY <1>2, <1>3, <1>4, <1>5, <1>6, <1>7, <1>8, <1>9 DEF Around

LEMMA SaveStep_File ==
  ASSUME Faithful, SaveInv, FileInv, SaveStep
  PROVE  FileInv'
<1>1. /\ UNCHANGED <<providers, fields, globals, staged, diskFails>>
      /\ Persistent' = Persistent /\ ToSave' = ToSave /\ RegInv
  BY SaveStep_Same, ToSaveStays DEF valueVars, SaveInv
\* What a save leaves when it ends well.
<1>2. ASSUME Rename, Text(ToSave).kind = "state"
      PROVE  /\ DOMAIN Text(ToSave).state = Persistent \cup DOMAIN staged
             /\ \A q \in Persistent : Text(ToSave).state[q] = globals[q].value
             /\ \A q \in DOMAIN staged : q \notin Persistent
                                         /\ Text(ToSave).state[q] = staged[q]
  <2>1. \A q \in DOMAIN staged : q \notin Persistent
    BY DEF FileInv, Apart, Persistent, SaveInv, RegInv, ValueInv, GlobalsInv, Fits
  <2> QED BY <1>1, <1>2, <2>1, ToSaveIs, TextIs
<1>3. CASE Rename
  <2>1. /\ file' = temp /\ saved' = ToSave /\ stage' = "none" /\ dirty' = FALSE /\ bridge' = bridge
        /\ temp = Text(ToSave) \/ (diskFails /\ temp = Garbled)
    BY <1>3 DEF Rename, SaveEnds, SaveInv, Saving
  <2>2. Garbled.kind # "state"
    BY DEF Garbled
  <2>3. Text(saved)' = Text(ToSave)
    BY <2>1 DEF Text
  <2>4. Kept'
    BY <1>1, <1>2, <1>3, <2>1, <2>2 DEF Kept
  <2>5. Apart'
    BY <1>1 DEF FileInv, Apart
  <2>6. Backed' /\ Clean'
    BY <1>1, <1>2, <1>3, <2>1, <2>3 DEF Backed, Clean, Sound, OnFile
  <2>7. Away'
    <3> SUFFICES ASSUME file'.kind = "state", ~diskFails, NEW q \in Reclaimed(file.state)'
                 PROVE  q \in DOMAIN globals /\ globals[q].value = file'.state[q]
      BY <1>1 DEF Away
    <3>1. /\ file' = Text(ToSave)
          /\ q \in DOMAIN Text(ToSave).state \cap DOMAIN fields
          /\ providers[fields[q].provider].live
          /\ fields[q].persist /\ fields[q].scope = "GLOBAL"
      BY <1>1, <2>1 DEF Reclaimed
    <3>2. q \in Persistent
      BY <1>2, <1>3, <3>1 DEF FileInv, Apart
    <3> QED BY <1>2, <1>3, <3>1, <3>2 DEF Persistent
  <2> QED BY <2>4, <2>5, <2>6, <2>7 DEF FileInv
<1>4. CASE Flush \/ RemoveBridge \/ Write \/ RemoveOld \/ RenameFails
  <2>1. UNCHANGED <<saved, dirty>> /\ (file' = file \/ (file' = NoFile /\ stage' = "removed"))
    BY <1>4 DEF Flush, RemoveBridge, Write, RemoveOld, RenameFails, OpenTemp, fileVars,
                registryVars
  <2>2. Sound' => Sound /\ file' = file
    BY <1>1, <1>4, <2>1 DEF Flush, RemoveBridge, Write, RemoveOld, RenameFails, Sound, OpenTemp,
                       SaveEnds, Text
  <2>3. NoFile.kind # "state"
    BY DEF NoFile
  <2>4. Kept' /\ Apart'
    BY <1>1, <2>1, <2>3 DEF FileInv, Kept, Apart
  <2>5. Backed' /\ Clean'
    BY <1>1, <2>1, <2>2 DEF FileInv, Backed, Clean, OnFile
  <2>6. Away'
    BY <1>1, <1>4 DEF Flush, RemoveBridge, Write, RemoveOld, RenameFails, OpenTemp, SaveEnds,
                      Away, SaveInv, FileTypes
  <2> QED BY <2>4, <2>5, <2>6 DEF FileInv
<1> QED BY <1>3, <1>4 DEF SaveStep

LEMMA AddBridge_File ==
  ASSUME SaveInv, FileInv, AddBridge
  PROVE  FileInv'
<1> DEFINE state == StagedFrom(file, staged)
<1>1. UNCHANGED <<fields, dirty, file, saved, stage, diskFails>> /\ bridge'
  BY DEF AddBridge, fileVars
<1>2. /\ DOMAIN staged' = DOMAIN state \ Takes /\ \A q \in DOMAIN staged' : staged'[q] = state[q]
      /\ DOMAIN globals' = DOMAIN globals \cup Restores
      /\ \A q \in Restores : globals'[q].value = state[q]
      /\ \A q \in DOMAIN globals \ Restores : globals'[q] = globals[q]
  BY AddBridge_Effect DEF Drop, Restrict
<1>3. /\ file.kind = "state" => state = file.state
      /\ file.kind # "state" => state = staged
  BY DEF StagedFrom
<1> HIDE DEF state
<1>4. \A q \in DOMAIN fields : providers'[fields[q].provider].live = providers[fields[q].provider].live
  BY AddBridge_Claims DEF SaveInv, RegInv, ClaimInv, Owners
<1>5. Kept'
  BY <1>1, <1>2, <1>3 DEF Kept
<1>6. Backed'
  BY <1>1, <1>2, <1>3 DEF FileInv, Backed, Sound, OnFile, Text
<1>7. Apart'
  <2>1. CASE file.kind = "state"
    BY <1>1, <1>2, <1>3, <1>4, <2>1 DEF Apart, Takes, Reclaimed, state
  <2>2. CASE file.kind # "state"
    BY <1>1, <1>2, <1>3, <1>4, <2>2 DEF FileInv, Apart
  <2> QED BY <2>1, <2>2
<1>8. Clean'
  <2> SUFFICES ASSUME Sound, ~dirty, NEW q \in Persistent'
               PROVE  OnFile(q, globals'[q].value)
    BY <1>1 DEF Clean, Sound, OnFile, Text
  <2>1. CASE q \in Restores
    <3>1. file.kind = "state" /\ q \in DOMAIN file.state
      BY <1>3, <2>1 DEF Restores, Takes, Reclaimed, state
    <3> QED BY <1>2, <1>3, <2>1, <3>1 DEF OnFile
  <2>2. CASE q \notin Restores
    <3>1. q \in Persistent /\ globals'[q] = globals[q]
      BY <1>1, <1>2, <2>2 DEF Persistent
    <3> QED BY <3>1 DEF FileInv, Clean
  <2> QED BY <2>1, <2>2
<1>9. Away'
  BY <1>1 DEF Away
<1> QED BY <1>5, <1>6, <1>7, <1>8, <1>9 DEF FileInv

LEMMA FileNext_Inv ==
  ASSUME Faithful, SaveInv, FileInv, [PersistNext]_persistVars
  PROVE  FileInv'
<1>1. CASE Restart
  <2>1. DOMAIN <<>> = {}
    OBVIOUS
  <2>2. /\ staged' = StagedFrom(file, <<>>) /\ bridge' /\ UNCHANGED <<file, saved>>
        /\ DOMAIN fields' = {} /\ DOMAIN globals' = {}
    BY <1>1, <2>1, RestartIsBlank DEF fileVars
  <2>3. /\ file.kind = "state" => staged' = file.state
        /\ file.kind # "state" => DOMAIN staged' = {}
    BY <2>1, <2>2 DEF StagedFrom
  <2> QED BY <2>2, <2>3 DEF FileInv, Kept, Apart, Backed, Clean, Away, OnFile, Persistent
<1>2. CASE UNCHANGED persistVars
  <2>1. UNCHANGED <<providers, fields, globals, staged, dirty, file, saved, stage, bridge, diskFails>>
    BY <1>2 DEF persistVars, registryVars, valueVars, fileVars, processVars
  <2> QED BY <2>1 DEF FileInv, Kept, Apart, Backed, Clean, Away, OnFile, Persistent, Sound, Text,
                      Reclaimed
<1> QED BY <1>1, <1>2, Around_File, SaveStep_File, AddBridge_File DEF PersistNext, SaveStep

\* What is on file, if the writer and the reader agree: everything staged, and
\* while the dirty flag is down every persistent value.
THEOREM FileInvariant == Faithful => (PersistSpec => []FileInv)
<1> SUFFICES ASSUME Faithful PROVE PersistSpec => []FileInv
  OBVIOUS
<1>1. SaveInv /\ FileInv /\ [PersistNext]_persistVars => FileInv'
  BY FileNext_Inv
<1> QED BY <1>1, FileInit_Inv, SaveInvariant, PTL DEF PersistSpec

\* However many saves other providers cause, what is staged for providers that
\* did not load is still on file.
THEOREM StagedSurvives == Faithful => (PersistSpec => []StagedIsKept)
<1>1. FileInv => StagedIsKept
  BY DEF FileInv, Kept, StagedIsKept
<1> QED BY <1>1, FileInvariant, PTL

\* As long as the dirty flag is down no persistent value differs from the file,
\* if the disk works and what was saved can be read.
THEOREM CleanLosesNothing == Faithful => (PersistSpec => []CleanMeansSaved)
<1>1. FileInv => CleanMeansSaved
  BY DEF FileInv, Clean, Sound, OnFile, CleanMeansSaved
<1> QED BY <1>1, FileInvariant, PTL

\* Removing the bridge and adding it again changes no value of the plugins that
\* stayed, if the disk works.
THEOREM ReaddIsHarmless == Faithful => (PersistSpec => ReaddKeepsValues)
<1> SUFFICES ASSUME Faithful PROVE PersistSpec => ReaddKeepsValues
  OBVIOUS
<1> DEFINE Harmless == bridge' /\ ~bridge /\ runs' = runs /\ ~diskFails =>
                          /\ DOMAIN globals' = DOMAIN globals
                          /\ \A q \in DOMAIN globals : globals'[q].value = globals[q].value
<1>1. ASSUME SaveInv, FileInv, [PersistNext]_persistVars PROVE Harmless
  <2> SUFFICES ASSUME bridge', ~bridge, runs' = runs, ~diskFails
               PROVE  /\ DOMAIN globals' = DOMAIN globals
                      /\ \A q \in DOMAIN globals : globals'[q].value = globals[q].value
    OBVIOUS
  <2>1. AddBridge
    <3>1. ~Around /\ ~UNCHANGED persistVars
      BY DEF Around, persistVars, processVars
    <3>2. ~SaveStep
      BY SaveStep_Same
    <3>3. ~Restart
      BY <1>1 DEF Restart, SaveInv, FileTypes
    <3> QED BY <1>1, <3>1, <3>2, <3>3 DEF PersistNext, SaveStep
  <2>2. /\ DOMAIN globals' = DOMAIN globals \cup Restores
        /\ \A q \in Restores : globals'[q].value = StagedFrom(file, staged)[q]
        /\ \A q \in DOMAIN globals \ Restores : globals'[q] = globals[q]
    BY <1>1, <2>1, AddBridge_Effect
  <2>3. ASSUME NEW q \in Restores
        PROVE  q \in DOMAIN globals /\ globals'[q].value = globals[q].value
    <3>1. file.kind = "state" /\ q \in Reclaimed(file.state) /\ StagedFrom(file, staged) = file.state
      BY DEF Restores, Takes, StagedFrom
    <3>2. q \in DOMAIN globals /\ globals[q].value = file.state[q]
      BY <1>1, <2>1, <3>1 DEF FileInv, Away, AddBridge
    <3> QED BY <2>2, <3>1, <3>2
  <2> QED BY <2>2, <2>3
<1>2. PersistSpec => [][Harmless]_persistVars
  BY <1>1, SaveInvariant, FileInvariant, PTL DEF PersistSpec
<1> QED BY <1>2 DEF ReaddKeepsValues
=============================================================================
