----------------------------- MODULE MCRoomTabs -----------------------------
(* An instance of RoomTabs for TLC.                                          *)
EXTENDS RoomTabs

CONSTANTS r1, r2

\* Nobody moves to another tab while the button reads connecting: Connected finds
\* the tab that Connect left.
PatientSpec == Init /\ [][Next /\ (tabs.connecting # None => tabs'.shown = tabs.shown)]_vars

=============================================================================
