----------------------------- MODULE MCPersistence -----------------------------
(* Instances of Persistence for TLC.                                       *)
EXTENDS Persistence, TLC

Kept(t) == [type |-> t, scope |-> "GLOBAL", persist |-> TRUE]
Plain(t) == [type |-> t, scope |-> "GLOBAL", persist |-> FALSE]
I64(n) == [type |-> "I64", datum |-> n]
F64(n) == [type |-> "F64", datum |-> n]

\* Two plugins with a persistent field each; the state file may hold a value
\* for the second, which need not load at all.
TwoPlugins ==
    {[id |-> i, version |-> 1, fields |-> ("set" :> Kept("F64"))] : i \in {"p", "q"}}

\* One plugin whose next version gives up a field that was not persistent.
OnePlugin ==
    {[id |-> "p", version |-> 1, fields |-> ("set" :> Kept("I64")) @@ ("run" :> Plain("I64"))],
     [id |-> "p", version |-> 2, fields |-> ("set" :> Kept("I64"))]}

OneInteger == {I64(1)}
Doubles == {F64(0), F64(1)}

NoSaved == {<<>>}
SavedForQ == {<<>>, (<<"q", "set">> :> F64(1))}

Exact == [v \in Values |-> v]

\* F64(0) stands for NaN: "%.17g" writes a word that no number starts with.
NotANumber == [v \in Values |-> IF v.datum = 0 THEN Unreadable ELSE v]
=============================================================================
