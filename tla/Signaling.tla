------------------------------ MODULE Signaling ------------------------------
(***************************************************************************)
(* The signaling server: packages/signaling/src/server.ts and room.ts.     *)
(*                                                                         *)
(* Every room is a Map of seats.  A seat is bound to the WebSocket its     *)
(* peer speaks through; when that socket dies the seat is HELD for         *)
(* GRACE_MS, control-plane data for it is queued, and a join under the     *)
(* same peerId resumes it silently.  Two indexes are kept beside the       *)
(* rooms: peerIndex (peerId -> room and socket) and wsIndex (socket ->     *)
(* peerId, which authenticates every relayed frame).                       *)
(*                                                                         *)
(* Node runs one handler at a time, so a handler is one action.  What the  *)
(* handlers do to the maps is written as functions of the record srv, in   *)
(* the order the code calls them.  The sockets are outside the server: a   *)
(* socket may be closed, may vanish without a word ("zombie": readyState   *)
(* still says OPEN), and its close event comes some time after it stopped  *)
(* being OPEN ("closing").                                                 *)
(*                                                                         *)
(* Frames the server refuses (malformed, rate limited, from mismatch) only *)
(* answer an error and change nothing here.                                *)
(***************************************************************************)
EXTENDS Naturals, Sequences

CONSTANTS
    Peers,        \* peerIds
    RoomIds,      \* room names
    Sockets,      \* WebSocket connections
    Claims,       \* which <<socket, room, peer>> the clients ever join with
    QueueMax,     \* QUEUE_MAX_MSGS
    MaxFrames,    \* bound of the model: relayed frames accepted in a behaviour
    MaxRestarts,  \* bound of the model: stops of the server process
    None          \* null, undefined

ASSUME SignalingAssumption ==
    /\ Claims \subseteq Sockets \X RoomIds \X Peers
    /\ QueueMax \in Nat \ {0}
    /\ MaxFrames \in Nat
    /\ MaxRestarts \in Nat
    /\ None \notin Peers \cup RoomIds \cup Sockets

VARIABLES
    srv,       \* the server's maps
    sock,      \* what each socket is doing
    missed,    \* w._missed: heartbeats since the last pong
    told,      \* history: the roster the frames written to a socket describe
    sent,      \* number of relayed frames accepted so far; frames are numbered
    serving,   \* the process is up and listening
    restarts,  \* how often it was stopped
    cause      \* history: the socket whose join or leave, or the seat whose
               \* grace timer, the last step handled; None: neither

vars == <<srv, sock, missed, told, sent, serving, restarts, cause>>

------------------------------------------------------------------------------
(* Data *)

Frames == 1..MaxFrames

\* A seat (interface Peer).  The last three fields are history: the frames
\* written to the seat's socket while its client was there to read them, the
\* queueable frames that came while it is held, and whether a frame addressed
\* to the seat ever went nowhere.
Seat == [ws: Sockets \cup {None}, timer: BOOLEAN, queue: Seq(Frames),
         got: Seq(Frames), owed: Seq(Frames), lost: BOOLEAN]

NewSeat(s) == [ws |-> s, timer |-> FALSE, queue |-> <<>>,
               got |-> <<>>, owed |-> <<>>, lost |-> FALSE]
NoSeat == NewSeat(None)

\* A peerIndex entry; NoEntry stands for a peerId that has none.
Entry == [roomId: RoomIds \cup {None}, ws: Sockets \cup {None}]
NoEntry == [roomId |-> None, ws |-> None]

\* rooms is the key set of the Map of rooms, peers[r] the key set of room r.
Server == [rooms: SUBSET RoomIds,
           peers: [RoomIds -> SUBSET Peers],
           seat: [RoomIds -> [Peers -> Seat]],
           peerIndex: [Peers -> Entry],
           wsIndex: [Sockets -> Peers \cup {None}]]

FreshServer == [rooms |-> {},
                peers |-> [r \in RoomIds |-> {}],
                seat |-> [r \in RoomIds |-> [p \in Peers |-> NoSeat]],
                peerIndex |-> [p \in Peers |-> NoEntry],
                wsIndex |-> [s \in Sockets |-> None]]

SocketState == {"idle", "open", "zombie", "closing"}

\* readyState === OPEN, as the server sees it
Writable(s) == sock[s] \in {"open", "zombie"}

\* the seats of room r of the maps S that a frame can be written to
Listening(S, r) == {p \in S.peers[r] : S.seat[r][p].ws # None /\ Writable(S.seat[r][p].ws)}

\* the sockets on which those seats, but for p's, hear a broadcast
Hears(S, r, p) == {S.seat[r][q].ws : q \in Listening(S, r) \ {p}}

------------------------------------------------------------------------------
(* The server's handlers, as functions of its maps *)

\* Faulty: the empty room is not deleted.
OnLeaveKeepsRoom(S, r, p) ==
    IF r \notin S.rooms
    THEN S
    ELSE [rooms     |-> S.rooms,
          peers     |-> [S.peers EXCEPT ![r] = @ \ {p}],
          seat      |-> [S.seat EXCEPT ![r][p] = NoSeat],
          peerIndex |-> [S.peerIndex EXCEPT ![p] = NoEntry],
          wsIndex   |-> [s \in Sockets |->
                           IF s = S.peerIndex[p].ws THEN None ELSE S.wsIndex[s]]]

\* onLeave: the seat goes, the indexes forget the peer, an empty room is
\* deleted.  The entry's socket is forgotten, whatever room the entry names.
OnLeave(S, r, p) ==
    IF r \notin S.rooms
    THEN S
    ELSE [rooms     |-> IF S.peers[r] \subseteq {p} THEN S.rooms \ {r} ELSE S.rooms,
          peers     |-> [S.peers EXCEPT ![r] = @ \ {p}],
          seat      |-> [S.seat EXCEPT ![r][p] = NoSeat],
          peerIndex |-> [S.peerIndex EXCEPT ![p] = NoEntry],
          wsIndex   |-> [s \in Sockets |->
                           IF s = S.peerIndex[p].ws THEN None ELSE S.wsIndex[s]]]

\* Faulty: no timer is armed; the dead socket stays indexed.
HoldSeatForEver(S, r, p) ==
    IF p \notin S.peers[r] THEN S
    ELSE [S EXCEPT !.seat[r][p].ws = None,
                   !.wsIndex = [s \in Sockets |->
                                  IF s = S.seat[r][p].ws THEN None ELSE @[s]]]

\* What holdSeat does now; the timer it arms is GraceExpire.
HoldSeat(S, r, p) ==
    IF r \notin S.rooms \/ p \notin S.peers[r]
    THEN S
    ELSE [S EXCEPT !.seat[r][p] = [@ EXCEPT !.ws = None, !.timer = TRUE],
                   !.wsIndex = [s \in Sockets |->
                                  IF s = S.seat[r][p].ws THEN None ELSE @[s]]]

\* The close event of a socket: its seat is held unless a newer socket took it.
OnDisconnect(S, s) ==
    LET p == S.wsIndex[s] IN
    IF p = None THEN S
    ELSE IF S.peerIndex[p].ws # s THEN S
    ELSE HoldSeat(S, S.peerIndex[p].roomId, p)

\* Faulty: the timer stays armed; the queue is replayed and kept; it is thrown away.
ResumeArmed(S, s, r, p) ==
    LET old == S.seat[r][p] IN
    [S EXCEPT !.seat[r][p] = [old EXCEPT !.ws = s, !.queue = <<>>,
                                         !.got = @ \o old.queue, !.owed = <<>>],
              !.peerIndex[p] = [roomId |-> r, ws |-> s],
              !.wsIndex = [t \in Sockets |->
                             IF t = s THEN p ELSE IF t = old.ws THEN None ELSE @[t]]]
ResumeKeepsQueue(S, s, r, p) ==
    [ResumeArmed(S, s, r, p) EXCEPT !.seat[r][p].timer = FALSE,
                                    !.seat[r][p].queue = S.seat[r][p].queue]
ResumeDropsQueue(S, s, r, p) ==
    [ResumeArmed(S, s, r, p) EXCEPT !.seat[r][p].timer = FALSE,
                                    !.seat[r][p].got = S.seat[r][p].got]

\* onJoin, the seat exists: swap the socket in, disarm the timer, replay.
Resume(S, s, r, p) ==
    LET old == S.seat[r][p] IN
    [S EXCEPT !.seat[r][p] = [old EXCEPT !.ws = s, !.timer = FALSE, !.queue = <<>>,
                                         !.got = @ \o old.queue, !.owed = <<>>],
              !.peerIndex[p] = [roomId |-> r, ws |-> s],
              !.wsIndex = [t \in Sockets |->
                             IF t = s THEN p ELSE IF t = old.ws THEN None ELSE @[t]]]

\* onJoin, no seat: a new one, in the Room object fetched at the start of the
\* call.  If that object is no longer in the Map, the seat is in no room.
Enter(S, s, r, p) ==
    [S EXCEPT !.peers[r] = IF r \in S.rooms THEN @ \cup {p} ELSE @,
              !.seat[r][p] = IF r \in S.rooms THEN NewSeat(s) ELSE @,
              !.peerIndex[p] = [roomId |-> r, ws |-> s],
              !.wsIndex[s] = p]

\* The first half of onJoin: the room is fetched or created, and a seat this
\* socket holds under another id is left.
PriorId(S, s, p) == S.wsIndex[s] \notin {None, p}
PriorRoom(S, s, r) == LET e == S.peerIndex[S.wsIndex[s]]
                      IN  IF e = NoEntry THEN r ELSE e.roomId
BeforeJoin(S, s, r, p) ==
    LET S0 == [S EXCEPT !.rooms = @ \cup {r}]
    IN  IF PriorId(S, s, p) THEN OnLeave(S0, PriorRoom(S, s, r), S.wsIndex[s]) ELSE S0

\* deliver: written to a seat whose socket is OPEN; queued, if it may be, for a
\* seat that has no socket, the oldest dropped over the cap; else gone.
DropNewest(q) == IF Len(q) > QueueMax THEN SubSeq(q, 1, QueueMax) ELSE q   \* faulty
DropOldest(q) == IF Len(q) > QueueMax THEN Tail(q) ELSE q

Deliver(seat, m, queueIfHeld) ==
    IF seat.ws # None /\ sock[seat.ws] = "open"
    THEN [seat EXCEPT !.got = Append(@, m)]
    ELSE IF seat.ws = None /\ queueIfHeld
    THEN [seat EXCEPT !.queue = DropOldest(Append(@, m)), !.owed = Append(@, m)]
    ELSE [seat EXCEPT !.lost = @ \/ queueIfHeld]

\* room.send / room.broadcast to the seats in To
Post(S, r, To, m, queueIfHeld) ==
    [S EXCEPT !.seat[r] = [p \in Peers |->
        IF p \in To THEN Deliver(@[p], m, queueIfHeld) ELSE @[p]]]

------------------------------------------------------------------------------
(* What the clients hear.  A frame "left" or "joined" edits the roster; the  *)
(* "peers" frame replaces it.                                                *)

\* Faulty: the roster is that of the connected.
TellConnected(T, S, s, r, p) ==
    [T EXCEPT ![s][r] = IF r \in S.rooms THEN Listening(S, r) \ {p} ELSE {}]

TellLeft(T, S, r, p) ==
    [s \in Sockets |-> IF s \in Hears(S, r, p) /\ r \in S.rooms
                       THEN [T[s] EXCEPT ![r] = @ \ {p}] ELSE T[s]]

TellJoined(T, S, r, p) ==
    [s \in Sockets |-> IF s \in Hears(S, r, p) /\ r \in S.rooms
                       THEN [T[s] EXCEPT ![r] = @ \cup {p}] ELSE T[s]]

TellPeers(T, S, s, r, p) ==
    [T EXCEPT ![s][r] = IF r \in S.rooms THEN S.peers[r] \ {p} ELSE {}]

------------------------------------------------------------------------------
(* Actions: one per frame, event or timer the process handles *)

Init ==
    /\ srv = FreshServer
    /\ sock = [s \in Sockets |-> "idle"]
    /\ missed = [s \in Sockets |-> 0]
    /\ told = [s \in Sockets |-> [r \in RoomIds |-> {}]]
    /\ sent = 0
    /\ serving = TRUE
    /\ restarts = 0
    /\ cause = None

\* No map refers to s any longer: the name may stand for the next connection.
Unreferenced(s) ==
    /\ srv.wsIndex[s] = None
    /\ \A p \in Peers : srv.peerIndex[p].ws # s
    /\ \A r \in RoomIds, p \in Peers : srv.seat[r][p].ws # s

OnConnect(s) ==
    /\ serving
    /\ sock[s] = "idle"
    /\ Unreferenced(s)
    /\ sock' = [sock EXCEPT ![s] = "open"]
    /\ cause' = None
    /\ UNCHANGED <<srv, missed, told, sent, serving, restarts>>

\* Superseding a seat's old socket terminates it, if it is not already closing.
Terminate(s) == [sock EXCEPT ![s] = IF @ \in {"open", "zombie"} THEN "closing" ELSE @]

Join(s, r, p) ==
    /\ serving
    /\ sock[s] = "open"
    /\ <<s, r, p>> \in Claims
    /\ LET S == BeforeJoin(srv, s, r, p)
           q == srv.wsIndex[s]
           T == IF PriorId(srv, s, p) THEN TellLeft(told, srv, PriorRoom(srv, s, r), q)
                                      ELSE told
       IN  IF p \in S.peers[r]
           THEN /\ srv' = Resume(S, s, r, p)
                /\ sock' = IF S.seat[r][p].ws \in {None, s} THEN sock
                                                            ELSE Terminate(S.seat[r][p].ws)
                /\ told' = TellPeers(T, S, s, r, p)
           ELSE /\ srv' = Enter(S, s, r, p)
                /\ sock' = sock
                /\ told' = TellJoined(TellPeers(T, S, s, r, p), S, r, p)
    /\ cause' = s
    /\ UNCHANGED <<missed, sent, serving, restarts>>

\* Faulty: a leave is taken from whatever socket it comes on.
LeaveUnchecked(s, r, p) ==
    /\ serving
    /\ sock[s] = "open"
    /\ <<s, r, p>> \in Claims
    /\ srv' = OnLeave(srv, r, p)
    /\ told' = TellLeft(told, srv, r, p)
    /\ cause' = s
    /\ UNCHANGED <<sock, missed, sent, serving, restarts>>

\* An explicit leave names a room and the socket's own peerId.
Leave(s, r, p) ==
    /\ serving
    /\ sock[s] = "open"
    /\ <<s, r, p>> \in Claims
    /\ srv.wsIndex[s] = p
    /\ srv' = OnLeave(srv, r, p)
    /\ told' = TellLeft(told, srv, r, p)
    /\ cause' = s
    /\ UNCHANGED <<sock, missed, sent, serving, restarts>>

\* Whom a relayed frame goes to: one named peer, or the room but the sender.
Addressees(r, from, to) == IF to = None THEN srv.peers[r] \ {from} ELSE srv.peers[r] \cap {to}

Accepts(s, r, from) ==
    /\ serving
    /\ sock[s] = "open"
    /\ sent < MaxFrames
    /\ <<s, r, from>> \in Claims
    /\ r \in srv.rooms
    /\ srv.wsIndex[s] = from

\* The control plane: a sealed envelope, queued for whoever is held.
RelayData(s, r, from, to) ==
    /\ Accepts(s, r, from)
    /\ srv' = Post(srv, r, Addressees(r, from, to), sent + 1, TRUE)
    /\ sent' = sent + 1
    /\ cause' = None
    /\ UNCHANGED <<sock, missed, told, serving, restarts>>

\* A handshake frame (offer, answer, ice): meaningful only live.
Relay(s, r, from, to) ==
    /\ Accepts(s, r, from)
    /\ to # None
    /\ srv' = Post(srv, r, Addressees(r, from, to), sent + 1, FALSE)
    /\ sent' = sent + 1
    /\ cause' = None
    /\ UNCHANGED <<sock, missed, told, serving, restarts>>

\* The grace timer of a held seat fires.  The code looks the seat up again: it
\* leaves only if nothing took it meanwhile.
GraceExpire(r, p) ==
    /\ serving
    /\ p \in srv.peers[r]
    /\ srv.seat[r][p].timer
    /\ LET S == [srv EXCEPT !.seat[r][p].timer = FALSE]
       IN  IF S.seat[r][p].ws = None
           THEN /\ srv' = OnLeave(S, r, p)
                /\ told' = TellLeft(told, S, r, p)
           ELSE /\ srv' = S
                /\ UNCHANGED told
    /\ cause' = <<r, p>>
    /\ UNCHANGED <<sock, missed, sent, serving, restarts>>

\* The close event of a socket.
Close(s) ==
    /\ sock[s] = "closing"
    /\ sock' = [sock EXCEPT ![s] = "idle"]
    /\ srv' = OnDisconnect(srv, s)
    /\ missed' = [missed EXCEPT ![s] = 0]
    /\ told' = [told EXCEPT ![s] = [r \in RoomIds |-> {}]]
    /\ cause' = None
    /\ UNCHANGED <<sent, serving, restarts>>

\* Faulty: one ping too many.
HeartbeatLate ==
    /\ serving
    /\ \E s \in Sockets : Writable(s)
    /\ sock' = [s \in Sockets |-> IF Writable(s) /\ missed[s] > 2 THEN "closing" ELSE sock[s]]
    /\ missed' = [s \in Sockets |-> IF Writable(s) /\ missed[s] <= 2 THEN missed[s] + 1 ELSE missed[s]]
    /\ cause' = None
    /\ UNCHANGED <<srv, told, sent, serving, restarts>>

\* The 30 s heartbeat: a socket with two pings unanswered is terminated,
\* every other one is pinged again.
Heartbeat ==
    /\ serving
    /\ \E s \in Sockets : Writable(s)
    /\ sock' = [s \in Sockets |-> IF Writable(s) /\ missed[s] >= 2 THEN "closing" ELSE sock[s]]
    /\ missed' = [s \in Sockets |-> IF Writable(s) /\ missed[s] < 2 THEN missed[s] + 1 ELSE missed[s]]
    /\ cause' = None
    /\ UNCHANGED <<srv, told, sent, serving, restarts>>

Pong(s) ==
    /\ sock[s] = "open"
    /\ missed[s] > 0
    /\ missed' = [missed EXCEPT ![s] = 0]
    /\ cause' = None
    /\ UNCHANGED <<srv, sock, told, sent, serving, restarts>>

\* The client's end: a socket closed with a goodbye, or gone without one.
ClientClose(s) ==
    /\ sock[s] = "open"
    /\ sock' = [sock EXCEPT ![s] = "closing"]
    /\ cause' = None
    /\ UNCHANGED <<srv, missed, told, sent, serving, restarts>>

Vanish(s) ==
    /\ sock[s] = "open"
    /\ sock' = [sock EXCEPT ![s] = "zombie"]
    /\ cause' = None
    /\ UNCHANGED <<srv, missed, told, sent, serving, restarts>>

\* Faulty: the seats are left in their rooms, their timers armed.
StopKeepsSeats ==
    /\ serving
    /\ restarts < MaxRestarts
    /\ serving' = FALSE
    /\ restarts' = restarts + 1
    /\ srv' = [srv EXCEPT !.rooms = {}]
    /\ sock' = [s \in Sockets |-> IF Writable(s) THEN "closing" ELSE sock[s]]
    /\ cause' = None
    /\ UNCHANGED <<missed, told, sent>>

\* stop(): every seat is removed with its timer, every socket terminated.  The
\* indexes are left as they are.
Stop ==
    /\ serving
    /\ restarts < MaxRestarts
    /\ serving' = FALSE
    /\ restarts' = restarts + 1
    /\ srv' = [srv EXCEPT !.rooms = {},
                          !.peers = [r \in RoomIds |-> {}],
                          !.seat = [r \in RoomIds |-> [p \in Peers |-> NoSeat]]]
    /\ sock' = [s \in Sockets |-> IF Writable(s) THEN "closing" ELSE sock[s]]
    /\ cause' = None
    /\ UNCHANGED <<missed, told, sent>>

\* A new process (after a stop, or in place of one that crashed) knows nothing.
Restart ==
    /\ \/ ~serving
       \/ restarts < MaxRestarts
    /\ serving' = TRUE
    /\ restarts' = IF serving THEN restarts + 1 ELSE restarts
    /\ srv' = FreshServer
    /\ sock' = [s \in Sockets |-> "idle"]
    /\ missed' = [s \in Sockets |-> 0]
    /\ told' = [s \in Sockets |-> [r \in RoomIds |-> {}]]
    /\ cause' = None
    /\ UNCHANGED sent

Next ==
    \/ \E s \in Sockets : OnConnect(s) \/ Close(s) \/ Pong(s) \/ ClientClose(s) \/ Vanish(s)
    \/ \E s \in Sockets, r \in RoomIds, p \in Peers : Join(s, r, p) \/ Leave(s, r, p)
    \/ \E s \in Sockets, r \in RoomIds, p \in Peers, to \in Peers \cup {None} :
          RelayData(s, r, p, to) \/ Relay(s, r, p, to)
    \/ \E r \in RoomIds, p \in Peers : GraceExpire(r, p)
    \/ Heartbeat
    \/ Stop
    \/ Restart

Spec == Init /\ [][Next]_vars

\* The runtime keeps its timers going and delivers close events; nothing is
\* asked of the clients.
Fairness ==
    /\ WF_vars(Heartbeat)
    /\ \A s \in Sockets : WF_vars(Close(s))
    /\ \A r \in RoomIds, p \in Peers : WF_vars(GraceExpire(r, p))

FairSpec == Spec /\ Fairness

------------------------------------------------------------------------------
(* Properties *)

TypeOK ==
    /\ srv \in Server
    /\ sock \in [Sockets -> SocketState]
    /\ missed \in [Sockets -> 0..2]
    /\ told \in [Sockets -> [RoomIds -> SUBSET Peers]]
    /\ sent \in 0..MaxFrames
    /\ serving \in BOOLEAN
    /\ restarts \in 0..MaxRestarts
    /\ cause \in Sockets \cup (RoomIds \X Peers) \cup {None}

\* The rooms and the two indexes tell one story.  A seat is indexed under its
\* own room; a seat with a socket is indexed under that socket and the socket
\* under the seat's peer; nothing else is indexed; and the Map holds exactly
\* the rooms somebody has a seat in.  Every authentication (relay, leave) and
\* every clean-up (disconnect, leave) in server.ts relies on it.
RoomsAgree(S) == \A r \in RoomIds : r \in S.rooms <=> S.peers[r] # {}

SeatsIndexed(S) ==
    \A r \in RoomIds : \A p \in S.peers[r] :
       /\ S.peerIndex[p].roomId = r
       /\ S.seat[r][p].ws # None => /\ S.peerIndex[p].ws = S.seat[r][p].ws
                                    /\ S.wsIndex[S.seat[r][p].ws] = p

NothingElseIndexed(S) ==
    /\ \A p \in Peers : S.peerIndex[p] # NoEntry =>
          /\ S.peerIndex[p].roomId \in RoomIds
          /\ S.peerIndex[p].ws \in Sockets
          /\ p \in S.peers[S.peerIndex[p].roomId]
    /\ \A s \in Sockets : S.wsIndex[s] # None =>
          /\ S.peerIndex[S.wsIndex[s]].ws = s
          /\ S.seat[S.peerIndex[S.wsIndex[s]].roomId][S.wsIndex[s]].ws = s

IndexesAgree == serving => RoomsAgree(srv) /\ SeatsIndexed(srv) /\ NothingElseIndexed(srv)

\* Every seat is on its way to being used or freed: a seat without a socket has
\* its grace timer armed, a seat with one has none, and a seat's socket has not
\* had its close event yet.  (GRACE_MS: "only a person who vanished is waited
\* for"; a seat outside this rule would be listed for ever.)
NoGhostSeat ==
    \A r \in RoomIds : \A p \in srv.peers[r] :
       /\ srv.seat[r][p].timer <=> srv.seat[r][p].ws = None
       /\ srv.seat[r][p].ws # None => sock[srv.seat[r][p].ws] # "idle"

\* What the clients of this repository keep to: one room per peerId on a server,
\* and in a room never two peerIds over one socket.
ClaimsAreSeparate ==
    \A c, d \in Claims :
       /\ c[3] = d[3] => c[2] = d[2]
       /\ c[1] = d[1] /\ c[2] = d[2] => c[3] = d[3]

\* The inductive invariant under IndexesAgree and NoGhostSeat: besides, every
\* seat was claimed, no socket stands in two peerIndex entries, and the socket
\* of an entry is indexed until its close event.
SeatsClaimed(S) ==
    /\ \A r \in RoomIds : \A p \in S.peers[r] : \E s \in Sockets : <<s, r, p>> \in Claims
    /\ \A s \in Sockets : S.wsIndex[s] # None =>
          <<s, S.peerIndex[S.wsIndex[s]].roomId, S.wsIndex[s]>> \in Claims

OneEntryPerSocket(S) ==
    \A p, q \in Peers :
       S.peerIndex[p].ws = S.peerIndex[q].ws => p = q \/ S.peerIndex[p].ws = None

IndexedUntilClosed ==
    \A p \in Peers : LET s == srv.peerIndex[p].ws
                     IN  s # None => sock[s] = "idle" \/ srv.wsIndex[s] = p

Aligned(S) ==
    SeatsIndexed(S) /\ NothingElseIndexed(S) /\ SeatsClaimed(S) /\ OneEntryPerSocket(S)

SeatsInv ==
    /\ NoGhostSeat
    /\ serving => RoomsAgree(srv) /\ Aligned(srv) /\ IndexedUntilClosed
    /\ ~serving => \A r \in RoomIds : srv.peers[r] = {}

\* The frames written to a live socket describe the room it is in: the "peers"
\* it got on joining, edited by every "joined" and "left" since, is the room's
\* membership but for itself, held seats included.
RosterTold ==
    \A r \in RoomIds : \A p \in Listening(srv, r) :
       told[srv.seat[r][p].ws][r] = srv.peers[r] \ {p}

Increasing(q) == \A i, j \in 1..Len(q) : i < j => q[i] < q[j]

\* What a seat is sent, across socket swaps and holds, is in the order the
\* server accepted it and never twice: frames already written, then the queue
\* a resume would replay.
InOrder ==
    \A r \in RoomIds : \A p \in srv.peers[r] :
       Increasing(srv.seat[r][p].got \o srv.seat[r][p].queue)

\* A held seat is waited on with exactly the newest QueueMax data frames that
\* came for it since it was held; a seat with a socket has nothing queued.
BacklogKept ==
    \A r \in RoomIds : \A p \in srv.peers[r] :
       LET st == srv.seat[r][p]
           over == IF Len(st.owed) > QueueMax THEN Len(st.owed) - QueueMax ELSE 0
       IN  /\ st.queue = SubSeq(st.owed, over + 1, Len(st.owed))
           /\ st.ws # None => st.owed = <<>>

\* server.ts:277-278, 302-350: a seat bound to a socket is given up by a frame of that
\* very socket (an explicit leave, a join under another id) and by nothing else, no
\* stranger's leave, late close event or timer; a held seat is given up by its own
\* grace timer and by nothing else.
GoneOnlyByLeaveOrGrace ==
    [][serving /\ serving' /\ restarts' = restarts =>
       \A r \in RoomIds : \A p \in srv.peers[r] \ srv'.peers[r] :
          LET st == srv.seat[r][p]
          IN  IF st.ws = None THEN st.timer /\ cause' = <<r, p>>
                              ELSE sock[st.ws] = "open" /\ cause' = st.ws]_vars

\* Somebody sits at r under p with nobody behind the seat.
Deserted(r, p) ==
    /\ p \in srv.peers[r]
    /\ srv.seat[r][p].ws # None => sock[srv.seat[r][p].ws] # "open"

\* GRACE_MS (server.ts:103-105): "a peer that truly evaporated is seen to leave
\* within this plus that": a seat nobody is behind is eventually resumed or given up.
EvaporatedIsSeenToLeave == \A r \in RoomIds, p \in Peers : Deserted(r, p) ~> ~Deserted(r, p)

\* docs/connection.md:22 (and room.ts:60): "the server holds the seat and the client
\* queues: a blip loses nothing": nothing addressed to a member, queueable at
\* the time, went nowhere.
BlipLosesNothing ==
    \A r \in RoomIds : \A p \in srv.peers[r] : ~srv.seat[r][p].lost

==============================================================================
