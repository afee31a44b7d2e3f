------------------------------ MODULE FieldBoard ------------------------------
(***************************************************************************)
(* What the registry promises to a consumer that polls: a board of values, *)
(* each under the key it is read with (a global field, or a field and an   *)
(* aircraft handle) and each with a revision that was never used before.   *)
(* docs/ARCHITECTURE.md 7, "Revision counters".                            *)
(***************************************************************************)
EXTENDS Integers

CONSTANTS Keys,     \* what a value can be read under
          Values

VARIABLES board,    \* partial function: key -> [value, revision]
          stamp     \* no revision handed out so far is greater

boardVars == <<board, stamp>>

Init == board = <<>> /\ stamp = 0

\* The keys that hold another value, or the same one written again.
Written == {k \in DOMAIN board' : k \notin DOMAIN board \/ board'[k] # board[k]}

\* Any keys may be dropped; what is written gets revisions of its own.
Update ==
    /\ stamp' >= stamp
    /\ DOMAIN board' \subseteq Keys
    /\ \A k \in Written : /\ board'[k].value \in Values
                          /\ board'[k].revision \in (stamp + 1)..stamp'
    /\ \A j, k \in Written :
          board'[j].revision = board'[k].revision => j = k

Spec == Init /\ [][Update]_boardVars
=============================================================================
