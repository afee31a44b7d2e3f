--------------------------- MODULE AircraftHandles ---------------------------
(***************************************************************************)
(* What the aircraft table promises to the plugins, with nothing of how it *)
(* keeps the promise: a callsign that comes into sight gets a handle that  *)
(* was never given out before, keeps it for as long as it stays in sight,  *)
(* and a handle is never given to a second aircraft.                       *)
(***************************************************************************)
CONSTANTS Callsigns,   \* the aircraft EuroScope may show
          Handles,     \* the handles that can be given out
          NoHandle     \* ESB_AIRCRAFT_NONE, not one of Handles

VARIABLES live,        \* callsign -> its handle, NoHandle while it is gone
          issued       \* <<handle, callsign>>: every handle ever given out

handleVars == <<live, issued>>

InSight == {c \in Callsigns : live[c] # NoHandle}

Init ==
    /\ live = [c \in Callsigns |-> NoHandle]
    /\ issued = {}

\* A callsign comes into sight, for the first time or again.
Appear(c, h) ==
    /\ c \notin InSight
    /\ \A d \in Callsigns : <<h, d>> \notin issued
    /\ live' = [live EXCEPT ![c] = h]
    /\ issued' = issued \cup {<<h, c>>}

\* One disconnect, or all the aircraft one sweep finds overdue.
Disappear(gone) ==
    /\ gone # {}
    /\ live' = [c \in Callsigns |-> IF c \in gone THEN NoHandle ELSE live[c]]
    /\ UNCHANGED issued

Next ==
    \/ \E c \in Callsigns, h \in Handles : Appear(c, h)
    \/ \E gone \in SUBSET InSight : Disappear(gone)

Spec == Init /\ [][Next]_handleVars
=============================================================================
