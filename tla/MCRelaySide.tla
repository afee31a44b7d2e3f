----------------------------- MODULE MCRelaySide -----------------------------
(* Instances of RelaySide for TLC.                                         *)
EXTENDS RelaySide, TLC

CONSTANTS a1, a2, p1

TwoAircraft == {a1, a2}

\* One field of each scope; a later version takes back the consent for both.
BothScopes == {"tobt", "set"}
Versions == {[fields |-> BothScopes, synced |-> BothScopes],
             [fields |-> BothScopes, synced |-> {}]}

From(p, f, c, r) ==
    [peer |-> p, field |-> f, callsign |-> c, revision |-> r, fits |-> TRUE]

\* Two revisions of a value of one aircraft and one without a number, one of the
\* other aircraft.
SomeOffers ==
    {From(p1, "tobt", a1, 0), From(p1, "tobt", a1, 1), From(p1, "tobt", a1, 2),
     From(p1, "tobt", a2, 1)}
=============================================================================
