----------------------------- MODULE RoomService -----------------------------
(***************************************************************************)
(* What the signaling server promises the members of its rooms, without    *)
(* sockets, maps, timers or indexes (docs/connection.md, "The transport";  *)
(* the comments of GRACE_MS in server.ts and of room.ts).                  *)
(*                                                                         *)
(* A peer is out of a room, here, or away: its connection was lost and its *)
(* place is kept.  Frames go to those who are here; data frames wait for   *)
(* those who are away, the newest QueueMax of them, and are handed over,   *)
(* in order, to whoever comes back.                                        *)
(***************************************************************************)
EXTENDS Naturals, Sequences

CONSTANTS Peers, RoomIds, QueueMax, MaxFrames, None

VARIABLES
    presence,  \* [RoomIds -> [Peers -> {"out", "here", "away"}]]
    inbox,     \* frames handed to the connection since the peer arrived
    waiting,   \* frames kept for a peer that is away
    sent,      \* frames accepted so far
    up         \* the service is running

svars == <<presence, inbox, waiting, sent, up>>

Everywhere(v) == [r \in RoomIds |-> [p \in Peers |-> v]]

Init ==
    /\ presence = Everywhere("out")
    /\ inbox = Everywhere(<<>>)
    /\ waiting = Everywhere(<<>>)
    /\ sent = 0
    /\ up = TRUE

\* p leaves r: a place is empty, and nothing of it is kept.
Out(r, p) ==
    /\ presence' = [presence EXCEPT ![r][p] = "out"]
    /\ inbox' = [inbox EXCEPT ![r][p] = <<>>]
    /\ waiting' = [waiting EXCEPT ![r][p] = <<>>]

\* An explicit leave, or the end of the wait for one who is away.
Depart(r, p) ==
    /\ up
    /\ presence[r][p] # "out"
    /\ Out(r, p)
    /\ UNCHANGED <<sent, up>>

Lapse(r, p) ==
    /\ up
    /\ presence[r][p] = "here"
    /\ presence' = [presence EXCEPT ![r][p] = "away"]
    /\ UNCHANGED <<inbox, waiting, sent, up>>

\* p arrives at r, or comes back to what waited for it; the connection it does
\* so on may have to give up a place it had, gone.
Come(r, p, gone) ==
    /\ up
    /\ presence[r][p] = "out" => waiting[r][p] = <<>> /\ inbox[r][p] = <<>>
    /\ gone # <<r, p>>
    /\ gone # None => presence[gone[1]][gone[2]] = "here"
    /\ LET Cleared(f, v) == IF gone = None THEN f ELSE [f EXCEPT ![gone[1]][gone[2]] = v]
       IN  /\ presence' = [Cleared(presence, "out") EXCEPT ![r][p] = "here"]
           /\ inbox' = [Cleared(inbox, <<>>) EXCEPT ![r][p] = @ \o waiting[r][p]]
           /\ waiting' = [Cleared(waiting, <<>>) EXCEPT ![r][p] = <<>>]
    /\ UNCHANGED <<sent, up>>

Newest(q) == IF Len(q) > QueueMax THEN SubSeq(q, Len(q) - QueueMax + 1, Len(q)) ELSE q

\* A member's frame goes to some of the others.  A connection that broke unseen
\* may swallow it; data (durable) for one who is away waits.
Accept(r, from) ==
    /\ up
    /\ sent < MaxFrames
    /\ presence[r][from] = "here"
    /\ sent' = sent + 1
    /\ UNCHANGED <<presence, up>>
    /\ \E To \in SUBSET Peers, durable \in BOOLEAN :
          /\ waiting' = [waiting EXCEPT ![r] = [p \in Peers |->
                            IF durable /\ p \in To /\ presence[r][p] = "away"
                            THEN Newest(Append(@[p], sent + 1)) ELSE @[p]]]
          /\ \E Swallowed \in SUBSET To :
                inbox' = [inbox EXCEPT ![r] = [p \in Peers |->
                            IF p \in To \ Swallowed /\ presence[r][p] = "here"
                            THEN Append(@[p], sent + 1) ELSE @[p]]]

\* The process stops, or is replaced: the rooms are gone.
Halt ==
    /\ presence' = Everywhere("out")
    /\ inbox' = Everywhere(<<>>)
    /\ waiting' = Everywhere(<<>>)
    /\ up' \in BOOLEAN
    /\ UNCHANGED sent

Next ==
    \/ \E r \in RoomIds, p \in Peers :
          \/ Depart(r, p)
          \/ Lapse(r, p)
          \/ Accept(r, p)
          \/ \E gone \in {None} \cup (RoomIds \X Peers) : Come(r, p, gone)
    \/ Halt

Spec == Init /\ [][Next]_svars

==============================================================================
