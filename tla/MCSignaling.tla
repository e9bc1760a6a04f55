----------------------------- MODULE MCSignaling -----------------------------
(* Instances of Signaling for TLC.  Which socket claims which seat is what    *)
(* tells them apart.                                                          *)
EXTENDS SignalingRefinement

CONSTANTS p1, p2, p3, r1, r2, s1, s2, s3

\* One room: the first peer may reconnect on a second socket while its first
\* one lives, the second peer has one socket at a time.
OneRoom == {<<s1, r1, p1>>, <<s2, r1, p1>>, <<s3, r1, p2>>}

\* A tab that is in two rooms: one peerId (claimPeerId keeps it in the tab's
\* sessionStorage), one socket for each room.
TabInTwoRooms == {<<s1, r1, p1>>, <<s2, r2, p1>>, <<s3, r1, p2>>}

==============================================================================
