------------------------------- MODULE Registry -------------------------------
(***************************************************************************)
(* src/Registry.cpp: providers and their claims, the field catalogue, and  *)
(* the values plugins publish, on top of the aircraft table.  Everything   *)
(* runs on EuroScope's main thread, so one call is one step.  A call the   *)
(* code refuses without changing anything is a step that is not taken.     *)
(*                                                                         *)
(* A field is named by its qualified name <<provider id, field name>>,     *)
(* which is in bijection with its ESB_FieldId: ids are never given up.     *)
(* Provider indices start at 1 here; NoProvider = 0 is a missing claim.    *)
(***************************************************************************)
EXTENDS AircraftTable, Functions

CONSTANTS Decls,          \* the declarations plugins may register
          Types,          \* ESB_Type
          Values,         \* records with a type and a datum
          Bases,          \* the addresses a DLL can be mapped at (HMODULE)
          Paths,          \* the files plugins are loaded from
          Saved,          \* possible contents of the state file at start
          MaxProviders,   \* bound: entries of m_providers
          MaxClock,       \* bound: revisions (2^64 in the code)
          MaxLives        \* bound: how often a DLL is loaded

Scopes == {"GLOBAL", "AIRCRAFT"}
Attributes == [type : Types, scope : Scopes, persist : BOOLEAN]
Ids == {d.id : d \in Decls}
Qualified(d) == {<<d.id, n>> : n \in DOMAIN d.fields}
FieldNames == UNION {Qualified(d) : d \in Decls}

ASSUME RegistryAssumption ==
    /\ \A d \in Decls : /\ IsFiniteSet(DOMAIN d.fields)
                        /\ d.fields \in [DOMAIN d.fields -> Attributes]
    /\ \A v \in Values : v.type \in Types
    /\ \A s \in Saved : \A q \in DOMAIN s : s[q] \in Values
    /\ MaxProviders \in Nat /\ MaxClock \in Nat /\ MaxLives \in Nat

VARIABLES
    providers,    \* m_providers, only appended to
    claim,        \* m_providerIndex: provider id -> the latest claimant
    fields,       \* m_fields by qualified name, only extended
    globals,      \* m_globals: field -> value
    aircraft,     \* m_aircraft: <<field, slot>> -> value
    slotFields,   \* m_slotFields: slot -> the fields with a value there
    clock,        \* m_clock, the last revision handed out
    staged,       \* m_staged: saved values no provider has claimed yet
    dirty,        \* m_stateDirty
    loaded,       \* Windows: base -> the plugin mapped there
    lives         \* how many DLLs have been loaded so far

valueVars == <<globals, aircraft, slotFields>>
pluginVars == <<loaded, lives>>
registryVars == <<providers, claim, fields, valueVars, clock, staged, dirty,
                  pluginVars, tableVars>>

NoProvider == 0

\* A function with one more point, or with another value at a point.
Put(f, k, v) == [x \in DOMAIN f \cup {k} |-> IF x = k THEN v ELSE f[x]]
Drop(f, S) == Restrict(f, DOMAIN f \ S)

RegistryInit ==
    /\ TableInit
    /\ providers = <<>>
    /\ claim = [id \in Ids |-> NoProvider]
    /\ fields = <<>>
    /\ globals = <<>> /\ aircraft = <<>> /\ slotFields = <<>>
    /\ clock = 0
    /\ staged \in Saved
    /\ dirty = FALSE
    /\ loaded = <<>> /\ lives = 0
-----------------------------------------------------------------------------
(* EuroScope and Windows load and unload the plugins' DLLs.  A plugin keeps *)
(* the provider handles it was given; each load is a new life of its file.  *)

LoadModule(b, path) ==
    /\ lives < MaxLives
    /\ b \notin DOMAIN loaded
    /\ \A x \in DOMAIN loaded : loaded[x].path # path
    /\ lives' = lives + 1
    /\ loaded' = Put(loaded, b, [path |-> path, handles |-> {}])
    /\ UNCHANGED <<providers, claim, fields, valueVars, clock, staged, dirty, tableVars>>

\* With or without an unregister_provider before it.
UnloadModule(b) ==
    /\ b \in DOMAIN loaded
    /\ loaded' = Drop(loaded, {b})
    /\ UNCHANGED <<providers, claim, fields, valueVars, clock, staged, dirty,
                   lives, tableVars>>

\* The file the claim came from is mapped, and at the address it had then.
ModuleIsLoaded(i) ==
    LET m == providers[i].module
    IN  m \in DOMAIN loaded /\ loaded[m].path = providers[i].path

Grant(b, i) == loaded' = [loaded EXCEPT ![b].handles = @ \cup {i}]
-----------------------------------------------------------------------------
(* DropProviderValues and DropAircraftSlot.                                *)

\* Mutant: the globals of a released claim stay behind.
GlobalsWithout_All(F) == globals

GlobalsWithout(F) == Drop(globals, {q \in F : fields[q].scope = "GLOBAL"})

\* Mutant: the lists of the slots keep the dropped fields.
DropAircraftValues_KeepsLists(F) ==
    /\ aircraft' = Drop(aircraft, {k \in DOMAIN aircraft : k[1] \in F})
    /\ UNCHANGED slotFields

\* The aircraft values of a set of fields, found through slotFields.
DropAircraftValues(F) ==
    LET wide == {q \in F : fields[q].scope = "AIRCRAFT"}
    IN  /\ aircraft' = Drop(aircraft,
               {k \in wide \X DOMAIN slotFields : k[1] \in slotFields[k[2]]})
        /\ slotFields' =
               [s \in {t \in DOMAIN slotFields : slotFields[t] \ wide # {}} |->
                   slotFields[s] \ wide]

DropProviderValues(F) == globals' = GlobalsWithout(F) /\ DropAircraftValues(F)

\* Mutant: the values of a retired slot stay behind.
DropAircraftSlots_None(S) == UNCHANGED valueVars

\* All values of a set of slots.
DropAircraftSlots(S) ==
    /\ aircraft' = Drop(aircraft,
           UNION {slotFields[s] \X {s} : s \in S \cap DOMAIN slotFields})
    /\ slotFields' = Drop(slotFields, S)
    /\ UNCHANGED globals

FieldsOf(i) == IF i = NoProvider THEN {} ELSE providers[i].fields
-----------------------------------------------------------------------------
(* register_provider.                                                      *)

\* The latest claimant of the id is live and its DLL still mapped.
Held(id) ==
    /\ claim[id] # NoProvider
    /\ providers[claim[id]].live
    /\ ModuleIsLoaded(claim[id])

\* The schema is well formed, and every field an earlier life declared keeps
\* its type.
Acceptable(d) ==
    \A n \in DOMAIN d.fields :
        /\ d.fields[n].persist => d.fields[n].scope = "GLOBAL"
        /\ <<d.id, n>> \in DOMAIN fields =>
               fields[<<d.id, n>>].type = d.fields[n].type

\* Mutant: only the index moves on to the new claimant.
Released_StaysLive(id) == providers

\* m_providers once the latest claimant of the id is marked dead.
Released(id) ==
    [i \in DOMAIN providers |->
        IF i = claim[id] THEN [providers[i] EXCEPT !.live = FALSE] ELSE providers[i]]

\* Idempotent registration: the same module, version and number of fields.
RegisterAgain(b, d) ==
    LET i == claim[d.id]
    IN  /\ Held(d.id)
        /\ providers[i].module = b
        /\ providers[i].version = d.version
        /\ Cardinality(providers[i].fields) = Cardinality(DOMAIN d.fields)
        /\ Grant(b, i)
    /\ UNCHANGED <<providers, claim, fields, valueVars, clock, staged, dirty, lives, tableVars>>

\* The claim of the previous life is released, then the schema is refused.
RegisterRejected(b, d) ==
    /\ claim[d.id] # NoProvider
    /\ ~Held(d.id)
    /\ ~Acceptable(d)
    /\ providers' = Released(d.id)
    /\ DropProviderValues(FieldsOf(claim[d.id]))
    /\ UNCHANGED <<claim, fields, clock, staged, dirty, pluginVars, tableVars>>

\* Mutant: a field redeclared stays with its earlier owner.
Catalogue_KeepsOwner(d, i) ==
    [q \in DOMAIN fields \cup Qualified(d) |->
        IF q \in DOMAIN fields THEN fields[q]
        ELSE [type     |-> d.fields[q[2]].type,
              scope    |-> d.fields[q[2]].scope,
              persist  |-> d.fields[q[2]].persist,
              provider |-> i]]

\* Mutant: the index is taken after the entry was appended.
Catalogue_NextIndex(d, i) ==
    [q \in DOMAIN fields \cup Qualified(d) |->
        IF q \notin Qualified(d) THEN fields[q]
        ELSE [type     |-> d.fields[q[2]].type,
              scope    |-> d.fields[q[2]].scope,
              persist  |-> d.fields[q[2]].persist,
              provider |-> i + 1]]

\* The catalogue after claimant i declares d: a field an earlier life declared
\* keeps its type and scope and gets the new owner and flags.
Catalogue(d, i) ==
    [q \in DOMAIN fields \cup Qualified(d) |->
        IF q \notin Qualified(d) THEN fields[q]
        ELSE IF q \in DOMAIN fields
             THEN [fields[q] EXCEPT !.provider = i, !.persist = d.fields[q[2]].persist]
             ELSE [type     |-> d.fields[q[2]].type,
                   scope    |-> d.fields[q[2]].scope,
                   persist  |-> d.fields[q[2]].persist,
                   provider |-> i]]

\* RestoreStagedFor: what the state file had for these fields is used up, and
\* applied where the type still agrees.
Claimed(d) ==
    {q \in Qualified(d) \cap DOMAIN staged :
        fields'[q].persist /\ fields'[q].scope = "GLOBAL"}

\* Mutant: the saved type is not compared.
Restorable_AnyType(d) == Claimed(d)

Restorable(d) == {q \in Claimed(d) : staged[q].type = fields'[q].type}

\* Revisions for a set of fields, in the order the declaration lists them.
Numberings(S) ==
    {r \in [S -> (clock + 2)..(clock + 1 + Cardinality(S))] :
        \A p, q \in S : r[p] = r[q] => p = q}

\* Mutant: the revisions of a new claim start over.
Claimant_FirstRevision(b, d) ==
    [id |-> d.id, version |-> d.version, module |-> b, path |-> loaded[b].path,
     fields |-> Qualified(d), revision |-> 1, live |-> TRUE]

\* The new entry of m_providers.
Claimant(b, d) ==
    [id |-> d.id, version |-> d.version, module |-> b, path |-> loaded[b].path,
     fields |-> Qualified(d), revision |-> clock', live |-> TRUE]

\* A new claim: the id is free, or its holder is dead or its DLL is gone.
RegisterNew(b, d) ==
    LET i == Len(providers) + 1 IN
        /\ ~Held(d.id)
        /\ Acceptable(d)
        /\ i <= MaxProviders
        /\ fields' = Catalogue(d, i)
        /\ claim' = [claim EXCEPT ![d.id] = i]
        /\ staged' = Drop(staged, Claimed(d))
        /\ clock' = clock + 1 + Cardinality(Restorable(d))
        /\ clock' <= MaxClock
        /\ providers' = Append(Released(d.id), Claimant(b, d))
        /\ \E r \in Numberings(Restorable(d)) :
              LET kept == GlobalsWithout(FieldsOf(claim[d.id]))
              IN  globals' = [q \in DOMAIN kept \cup Restorable(d) |->
                     IF q \in Restorable(d)
                     THEN [value |-> staged[q], revision |-> r[q], claimant |-> i]
                     ELSE kept[q]]
        /\ DropAircraftValues(FieldsOf(claim[d.id]))
        /\ Grant(b, i)
    /\ UNCHANGED <<dirty, lives, tableVars>>

\* unregister_provider.
Unregister(b, i) ==
    /\ i \in loaded[b].handles
    /\ providers[i].live
    /\ clock < MaxClock
    /\ providers' = [providers EXCEPT ![i].live = FALSE]
    /\ DropProviderValues(FieldsOf(claim[providers[i].id]))
    /\ clock' = clock + 1
    /\ UNCHANGED <<claim, fields, staged, dirty, pluginVars, tableVars>>

Orphans == {i \in DOMAIN providers : providers[i].live /\ ~ModuleIsLoaded(i)}

\* ReapDeadModules.  Housekeeping calls it and SweepAircraft, each when its own
\* interval has passed, so either may run without the other.
ReapDeadModules ==
    /\ Orphans # {}
    /\ clock + Cardinality(Orphans) <= MaxClock
    /\ providers' = [i \in DOMAIN providers |->
                        IF i \in Orphans THEN [providers[i] EXCEPT !.live = FALSE]
                        ELSE providers[i]]
    /\ DropProviderValues(UNION {FieldsOf(i) : i \in Orphans})
    /\ clock' = clock + Cardinality(Orphans)
    /\ UNCHANGED <<claim, fields, staged, dirty, pluginVars, tableVars>>
-----------------------------------------------------------------------------
(* Publishing.  b is the plugin that calls, i the provider handle it uses.  *)

\* Mutant: ownership is not checked.
CheckWrite_AnyProvider(b, i, q, scope) ==
    /\ i \in loaded[b].handles
    /\ providers[i].live
    /\ q \in DOMAIN fields
    /\ fields[q].scope = scope

CheckWrite(b, i, q, scope) ==
    /\ i \in loaded[b].handles
    /\ providers[i].live
    /\ q \in DOMAIN fields
    /\ fields[q].scope = scope
    /\ fields[q].provider = i

\* Mutant: the revision is read before the clock moves on.
Stored_OldClock(v, i) ==
    [value |-> v, revision |-> clock, claimant |-> i]

\* What Store leaves in a slot.  claimant is history: the claim the value was
\* published under.
Stored(v, i) ==
    [value |-> v, revision |-> clock + 1, claimant |-> i]

\* Mutant: the owner's revision is not moved.
Advance_ClockOnly(i) ==
    /\ clock < MaxClock
    /\ clock' = clock + 1
    /\ UNCHANGED providers

\* The clock moves on and takes the owner's revision with it: provider_revision
\* is the gate a polling consumer looks at first.
Advance(i) ==
    /\ clock < MaxClock
    /\ clock' = clock + 1
    /\ providers' = [providers EXCEPT ![i].revision = clock + 1]

\* Mutant: only the first value of a field is news to the file.
MarkStateDirty_FirstOnly(q) ==
    dirty' = (dirty \/ (fields[q].persist /\ q \notin DOMAIN globals))

\* MarkStateDirty.
MarkStateDirty(q) == dirty' = (dirty \/ fields[q].persist)

\* Writing the value that is there already changes nothing.
SetGlobal(b, i, q, v) ==
    /\ CheckWrite(b, i, q, "GLOBAL")
    /\ v.type = fields[q].type
    /\ q \in DOMAIN globals => globals[q].value # v
    /\ globals' = Put(globals, q, Stored(v, i))
    /\ Advance(i)
    /\ MarkStateDirty(q)
    /\ UNCHANGED <<claim, fields, aircraft, slotFields, staged, pluginVars, tableVars>>

ClearGlobal(b, i, q) ==
    /\ CheckWrite(b, i, q, "GLOBAL")
    /\ q \in DOMAIN globals
    /\ globals' = Drop(globals, {q})
    /\ Advance(i)
    /\ MarkStateDirty(q)
    /\ UNCHANGED <<claim, fields, aircraft, slotFields, staged, pluginVars, tableVars>>

FieldsAt(s) == IF s \in DOMAIN slotFields THEN slotFields[s] ELSE {}

\* h is any handle the plugin was ever given; Validate refuses the stale ones.
SetAircraft(b, i, h, q, v) ==
    LET s == h[1] IN
    /\ CheckWrite(b, i, q, "AIRCRAFT")
    /\ v.type = fields[q].type
    /\ Validate(h) = "OK"
    /\ <<q, s>> \in DOMAIN aircraft => aircraft[<<q, s>>].value # v
    /\ aircraft' = Put(aircraft, <<q, s>>, Stored(v, i))
    /\ slotFields' = IF <<q, s>> \in DOMAIN aircraft THEN slotFields
                     ELSE Put(slotFields, s, FieldsAt(s) \cup {q})
    /\ Advance(i)
    /\ UNCHANGED <<claim, fields, globals, staged, dirty, pluginVars, tableVars>>

\* Mutant: the field stays on the slot's list.
ClearAircraft_KeepsList(b, i, h, q) ==
    /\ CheckWrite(b, i, q, "AIRCRAFT")
    /\ Validate(h) = "OK"
    /\ <<q, h[1]>> \in DOMAIN aircraft
    /\ aircraft' = Drop(aircraft, {<<q, h[1]>>})
    /\ Advance(i)
    /\ UNCHANGED <<claim, fields, globals, slotFields, staged, dirty, pluginVars, tableVars>>

ClearAircraft(b, i, h, q) ==
    LET s == h[1] IN
    /\ CheckWrite(b, i, q, "AIRCRAFT")
    /\ Validate(h) = "OK"
    /\ <<q, s>> \in DOMAIN aircraft
    /\ aircraft' = Drop(aircraft, {<<q, s>>})
    /\ slotFields' = IF FieldsAt(s) \subseteq {q} THEN Drop(slotFields, {s})
                     ELSE Put(slotFields, s, FieldsAt(s) \ {q})
    /\ Advance(i)
    /\ UNCHANGED <<claim, fields, globals, staged, dirty, pluginVars, tableVars>>
-----------------------------------------------------------------------------
(* The aircraft come and go.                                               *)

RetireAircraft(c) ==
    /\ Retire(c)
    /\ DropAircraftSlots({index[c]})
    /\ clock < MaxClock
    /\ clock' = clock + 1
    /\ UNCHANGED <<providers, claim, fields, staged, dirty, pluginVars>>

\* Mutant: the values are dropped when the slot is reclaimed.
SweepAircraft_AtReclaim ==
    /\ Sweep
    /\ DropAircraftSlots(Lapsed)
    /\ clock' = IF Expired = {} THEN clock ELSE clock + 1
    /\ clock' <= MaxClock
    /\ UNCHANGED <<providers, claim, fields, staged, dirty, pluginVars>>

SweepAircraft ==
    /\ Sweep
    /\ DropAircraftSlots(Expired)
    /\ clock' = IF Expired = {} THEN clock ELSE clock + 1
    /\ clock' <= MaxClock
    /\ UNCHANGED <<providers, claim, fields, staged, dirty, pluginVars>>

ObserveAircraft(c) ==
    /\ Observe(c)
    /\ UNCHANGED <<providers, claim, fields, valueVars, clock, staged, dirty, pluginVars>>

TimePasses ==
    /\ Tick
    /\ UNCHANGED <<providers, claim, fields, valueVars, clock, staged, dirty, pluginVars>>
-----------------------------------------------------------------------------
Lifecycle ==
    \/ \E b \in Bases, path \in Paths : LoadModule(b, path)
    \/ \E b \in Bases : UnloadModule(b)
    \/ \E b \in DOMAIN loaded, d \in Decls :
          RegisterAgain(b, d) \/ RegisterRejected(b, d) \/ RegisterNew(b, d)
    \/ \E b \in DOMAIN loaded, i \in DOMAIN providers : Unregister(b, i)
    \/ ReapDeadModules

Publish ==
    \E b \in DOMAIN loaded, i \in DOMAIN providers, q \in FieldNames :
        \/ \E v \in Values : SetGlobal(b, i, q, v)
        \/ ClearGlobal(b, i, q)
        \/ \E p \in issued : \/ \E v \in Values : SetAircraft(b, i, p[1], q, v)
                             \/ ClearAircraft(b, i, p[1], q)

Traffic ==
    \/ \E c \in Callsigns : ObserveAircraft(c) \/ RetireAircraft(c)
    \/ SweepAircraft
    \/ TimePasses

RegistryNext == Lifecycle \/ Publish \/ Traffic

RegistrySpec == RegistryInit /\ [][RegistryNext]_registryVars
-----------------------------------------------------------------------------
(* The queries: what they answer, "OK" or the error, of the state.         *)

\* The latest claimant of the id is live.
Present(id) == claim[id] # NoProvider /\ providers[claim[id]].live

\* provider_revision: 0 without a live claimant.
ProviderRevision(id) == IF Present(id) THEN providers[claim[id]].revision ELSE 0

\* own_field, asked with handle i: the field has to be the latest claimant's.
OwnField(i, n) ==
    LET q == <<providers[i].id, n>> IN
    IF ~providers[i].live THEN "INVALID_ARG"
    ELSE IF q \notin DOMAIN fields \/ fields[q].provider # claim[q[1]] THEN "NO_FIELD"
    ELSE "OK"

\* resolve: a field of an earlier life that the provider no longer declares
\* is still found.
ResolveField(q, expect) ==
    IF ~Present(q[1]) THEN "NO_PROVIDER"
    ELSE IF q \notin DOMAIN fields THEN "NO_FIELD"
    ELSE IF fields[q].type # expect THEN "TYPE_MISMATCH"
    ELSE "OK"

\* provider_version, NoVersion for ESB_E_NO_PROVIDER.
NoVersion == 0
ProviderVersion(id) == IF Present(id) THEN providers[claim[id]].version ELSE NoVersion

\* list_providers: a line for each live claim.
ListProviders == {i \in DOMAIN providers : providers[i].live}

\* ".esb schema": what the claimant declared, as the catalogue has it.
DumpSchema(id) ==
    IF Present(id) THEN {<<q, fields[q].type>> : q \in providers[claim[id]].fields} ELSE {}

GetGlobal(q) ==
    IF q \notin DOMAIN fields THEN "NO_FIELD"
    ELSE IF fields[q].scope # "GLOBAL" THEN "INVALID_ARG"
    ELSE IF ~providers[fields[q].provider].live THEN "NO_PROVIDER"
    ELSE IF q \notin DOMAIN globals THEN "UNSET"
    ELSE "OK"

\* get_ac: the handle is looked at before the field.
GetAircraft(h, q) ==
    IF Validate(h) # "OK" THEN Validate(h)
    ELSE IF q \notin DOMAIN fields THEN "NO_FIELD"
    ELSE IF fields[q].scope # "AIRCRAFT" THEN "INVALID_ARG"
    ELSE IF ~providers[fields[q].provider].live THEN "NO_PROVIDER"
    ELSE IF <<q, h[1]>> \notin DOMAIN aircraft THEN "UNSET"
    ELSE "OK"

\* The keys under which get_global and get_ac find a value.
VisibleKeys ==
    {<<q, NoHandle>> : q \in {p \in FieldNames : GetGlobal(p) = "OK"}}
    \cup {k \in FieldNames \X {HandleOf(s) : s \in DOMAIN slots} :
             GetAircraft(k[2], k[1]) = "OK"}

\* ".esb get": the value shown for a field and a callsign, found by slot and
\* without a handle.
DumpValue(q, c) ==
    /\ q \in DOMAIN fields
    /\ providers[fields[q].provider].live
    /\ IF fields[q].scope = "GLOBAL" THEN q \in DOMAIN globals
       ELSE Resolve(c) # NoHandle /\ <<q, index[c]>> \in DOMAIN aircraft

\* ".esb dump": the lines with a value, walked by provider, field and list of
\* the slot; NoSlot for a global.
DumpAll ==
    UNION {LET wide == {q \in providers[i].fields : fields[q].scope = "AIRCRAFT"}
           IN  ((providers[i].fields \ wide) \cap DOMAIN globals) \X {NoSlot}
               \cup {k \in wide \X DOMAIN slotFields :
                         k[1] \in slotFields[k[2]] /\ k \in DOMAIN aircraft} :
           i \in ListProviders}

\* ReadSlot, for a caller whose buffer has room for the value.
ReadSlot(cell) == cell.value

\* What is read there: the value and the answer of revision().
View == [k \in VisibleKeys |->
            LET cell == IF k[2] = NoHandle THEN globals[k[1]]
                        ELSE aircraft[<<k[1], k[2][1]>>]
            IN  [value |-> ReadSlot(cell), revision |-> cell.revision]]
-----------------------------------------------------------------------------
(* Properties.                                                             *)

Cell == [value : Values, revision : Nat, claimant : Nat]

PartialFunctions(S, T) == UNION {[D -> T] : D \in SUBSET S}

\* A value has the type and the scope its field has in the catalogue, whatever
\* earlier lives declared and whatever the state file held.
ValuesTyped ==
    /\ \A q \in DOMAIN globals : /\ globals[q].value.type = fields[q].type
                                 /\ fields[q].scope = "GLOBAL"
    /\ \A k \in DOMAIN aircraft : /\ aircraft[k].value.type = fields[k[1]].type
                                  /\ fields[k[1]].scope = "AIRCRAFT"

RegistryTypeOK ==
    /\ \A i \in DOMAIN providers :
          /\ providers[i].id \in Ids
          /\ providers[i].fields \subseteq DOMAIN fields
          /\ providers[i].revision \in 1..clock
          /\ providers[i].live \in BOOLEAN
    /\ claim \in [Ids -> 0..Len(providers)]
    /\ DOMAIN fields \subseteq FieldNames
    /\ \A q \in DOMAIN fields : /\ fields[q].type \in Types
                                /\ fields[q].scope \in Scopes
                                /\ fields[q].persist \in BOOLEAN
                                /\ fields[q].provider \in DOMAIN providers
    /\ DOMAIN globals \subseteq DOMAIN fields
    /\ \A q \in DOMAIN globals : globals[q] \in Cell
    /\ DOMAIN aircraft \subseteq (DOMAIN fields) \X (DOMAIN slots)
    /\ \A k \in DOMAIN aircraft : aircraft[k] \in Cell
    /\ \A s \in DOMAIN slotFields : slotFields[s] \subseteq DOMAIN fields
    /\ clock \in Nat
    /\ \A q \in DOMAIN staged : staged[q] \in Values
    /\ dirty \in BOOLEAN
    /\ ValuesTyped

\* What a user is shown is what the plugins read.  ".esb dump" walks providers,
\* fields and the slots' lists, ".esb get" goes by slot, get_ac by handle.
ShownAsRead ==
    /\ DumpAll = {<<k[1], IF k[2] = NoHandle THEN NoSlot ELSE k[2][1]>> : k \in VisibleKeys}
    /\ \A q \in FieldNames, c \in Callsigns :
          DumpValue(q, c) <=> GetGlobal(q) = "OK" \/ GetAircraft(Resolve(c), q) = "OK"

\* m_slotFields lists exactly the aircraft values there are, in lists that are
\* never empty: a value missing from its list would outlive its aircraft and
\* be read by the next.  All ways to a value agree on what there is.
ValuesIndexed ==
    /\ ShownAsRead
    /\ \A k \in DOMAIN aircraft :
          k[2] \in DOMAIN slotFields /\ k[1] \in slotFields[k[2]]
    /\ \A s \in DOMAIN slotFields :
          slotFields[s] # {} /\ slotFields[s] \X {s} \subseteq DOMAIN aircraft

\* Aircraft that left sight have no values: the next occupant of the slot
\* starts with a clean one.
ValuesOnlyInSight == \A k \in DOMAIN aircraft : LiveSlot(k[2])

\* An id has at most one live claimant, the latest.  That claimant owns every
\* field it declared, and discovery tells its consumers of no other: its
\* version, and its fields under the types it declared them with.
ClaimsExclusive ==
    \A i \in ListProviders :
        LET p == providers[i] IN
            /\ claim[p.id] = i
            /\ ProviderVersion(p.id) = p.version
            /\ \A q \in p.fields : fields[q].provider = i /\ OwnField(i, q[2]) = "OK"
            /\ \A l \in DumpSchema(p.id) :
                  /\ ResolveField(l[1], l[2]) = "OK"
                  /\ \E d \in Decls : /\ d.id = p.id /\ d.version = p.version
                                     /\ l[1][2] \in DOMAIN d.fields
                                     /\ d.fields[l[1][2]].type = l[2]

\* Every value was published under the claim that owns its field now, and that
\* claim is live: values die with the claim, however it ends.
ValuesDieWithClaim ==
    LET Owned(q, cell) == /\ providers[fields[q].provider].live
                          /\ cell.claimant = fields[q].provider
                          /\ q \in providers[cell.claimant].fields
    IN  /\ \A q \in DOMAIN globals : Owned(q, globals[q])
        /\ \A k \in DOMAIN aircraft : Owned(k[1], aircraft[k])

\* A consumer that skips a provider whose revision stands still misses nothing
\* but aircraft that left sight, and the revision never falls back: not even
\* to a number an earlier claim of the id had.
GateSound ==
    [][\A id \in Ids :
          /\ claim'[id] # claim[id] =>
                 \A i \in DOMAIN providers :
                     providers'[claim'[id]].revision > providers[i].revision
          /\ ProviderRevision(id) # 0 /\ ProviderRevision(id)' = ProviderRevision(id) =>
                 \A k \in DOMAIN View \cup DOMAIN View' :
                     k[1][1] = id =>
                        IF k \in DOMAIN View /\ k \in DOMAIN View'
                        THEN View[k] = View'[k]
                        ELSE k \in DOMAIN View /\ k[2] # NoHandle
                                /\ Validate(k[2])' # "OK"]_registryVars

-----------------------------------------------------------------------------
(* The registry implements FieldBoard for a consumer that polls.           *)

Board == INSTANCE FieldBoard WITH
             Keys  <- FieldNames \X ({NoHandle} \cup (1..MaxSlots) \X (1..MaxGeneration)),
             board <- View,
             stamp <- clock

ImplementsBoard == Board!Spec
=============================================================================
