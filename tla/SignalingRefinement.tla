------------------------- MODULE SignalingRefinement -------------------------
(* The signaling server implements RoomService: a seat is here while it is   *)
(* bound to a socket and away while it is held.                              *)
EXTENDS Signaling

\* No place is null: a join that gives up a place is told from one that does not.
ASSUME RefinementAssumption == None \notin RoomIds \X Peers

PresenceOf(r, p) ==
    IF p \notin srv.peers[r] THEN "out"
    ELSE IF srv.seat[r][p].ws = None THEN "away" ELSE "here"

presence == [r \in RoomIds |-> [p \in Peers |-> PresenceOf(r, p)]]
inbox == [r \in RoomIds |-> [p \in Peers |-> srv.seat[r][p].got]]
waiting == [r \in RoomIds |-> [p \in Peers |-> srv.seat[r][p].queue]]

Service == INSTANCE RoomService WITH up <- serving

\* GRACE_MS, room.ts 58-60 and 91: with sockets, timers and indexes hidden, every
\* step of the server is one the members were promised: a place is kept across a
\* lost connection, data waits for it in order, and whoever returns gets all of it.
ImplementsRoomService == Service!Spec

==============================================================================
