------------------------------- MODULE MCServer -------------------------------
(* Signaling on three instances in one run: a behaviour has one room and more    *)
(* frames, one room and a restart, or two rooms and a socket that moves between  *)
(* them.                                                                         *)
EXTENDS SignalingRefinement

CONSTANTS p1, p2, p3, r1, r2, s1, s2, s3

VARIABLE instance

\* The first peer may reconnect on a second socket while its first one lives, the
\* second peer has one socket at a time.
OneRoom == INSTANCE Signaling WITH
    Claims <- {<<s1, r1, p1>>, <<s2, r1, p1>>, <<s3, r1, p2>>}, MaxRestarts <- 0
Restarting == INSTANCE Signaling WITH
    Claims <- {<<s1, r1, p1>>, <<s2, r1, p1>>, <<s3, r1, p2>>}, MaxFrames <- 0

\* A socket that joins one room and then, under another id, the other; its
\* first seat may be resumed on another socket, before a third peer's eyes.
MovingClaims == {<<s1, r1, p1>>, <<s1, r2, p2>>, <<s2, r1, p3>>, <<s3, r1, p1>>}
MovingSocket == INSTANCE Signaling WITH
    Claims <- MovingClaims, MaxFrames <- 0, MaxRestarts <- 0

ServerInit == instance \in {"one room", "restart", "moving socket"} /\ Init
ServerNext ==
    /\ UNCHANGED instance
    /\ \/ instance = "one room" /\ OneRoom!Next
       \/ instance = "restart" /\ Restarting!Next
       \/ instance = "moving socket" /\ MovingSocket!Next
ServerSpec == ServerInit /\ [][ServerNext]_<<instance, vars>>

\* No step depends on the history cause, and only a step is asked about it: states
\* that differ in nothing else are explored once (VIEW), each step into them checked.
Observed == <<instance, srv, sock, missed, told, sent, serving, restarts>>

-----------------------------------------------------------------------------
\* room.ts:58-89, server.ts:290-375: every step of the server while the socket moves, and
\* up to the second frame of one room, is a step of the abstract room service or none.
MovesAsPromised ==
    Service!Init /\ [][instance = "moving socket" \/ (instance = "one room" /\ sent' <= 1)
                           => Service!Next]_Service!svars

===============================================================================
