------------------------------ MODULE MCRegistry ------------------------------
(* Instances of Registry for TLC.                                          *)
EXTENDS Registry, TLC

Global(t) == [type |-> t, scope |-> "GLOBAL", persist |-> FALSE]
Kept(t) == [type |-> t, scope |-> "GLOBAL", persist |-> TRUE]
PerAircraft(t) == [type |-> t, scope |-> "AIRCRAFT", persist |-> FALSE]

Decl(id, version, f) == [id |-> id, version |-> version, fields |-> f]

I64(n) == [type |-> "I64", datum |-> n]
Str(n) == [type |-> "STR", datum |-> n]

\* Lifecycle: one id, redeclared with another field type and a field less; and
\* another id, whose plugin and the first try each other's fields.
LifecycleDecls ==
    {Decl("p", 1, ("set" :> Kept("I64")) @@ ("tobt" :> PerAircraft("I64"))),
     Decl("p", 2, ("set" :> Kept("STR"))),
     Decl("q", 1, ("label" :> Global("I64")))}

\* The saved value has the type of either declaration.
LifecycleSaved == {<<>>} \cup {(<<"p", "set">> :> v) : v \in {I64(1), Str(1)}}

\* Aircraft: one provider with two fields per aircraft.
AircraftDecls ==
    {Decl("p", 1, ("tobt" :> PerAircraft("I64")) @@ ("ctot" :> PerAircraft("I64")))}

TwoValues == {I64(1), I64(2)}
BothTypes == {I64(1), Str(1)}
NoSaved == {<<>>}

CallsignSymmetry == Permutations(Callsigns)

RegistrySymmetry ==
    Permutations(Callsigns) \cup Permutations(Bases) \cup Permutations(Paths)
=============================================================================
