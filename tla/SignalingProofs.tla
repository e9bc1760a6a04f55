--------------------------- MODULE SignalingProofs ---------------------------
(* Theorems about Signaling, for every number of peers, rooms and sockets:    *)
(* its types, where seats and sockets are, the order of the frames a seat is  *)
(* sent, what is queued for a held seat, the rosters told, and that every     *)
(* step of the server is a step of RoomService or none.                       *)
EXTENDS SignalingRefinement, SequenceTheorems, TLAPS

------------------------------------------------------------------------------
(* Types *)

\* What the seats of the maps are made of.
LEMMA SeatTypes ==
    ASSUME NEW s \in Sockets \cup {None}
    PROVE  NewSeat(s) \in Seat
BY DEF NewSeat, Seat

\* deliver keeps a seat a seat.
LEMMA DeliverType ==
    ASSUME NEW seat \in Seat, NEW m \in Frames, NEW b \in BOOLEAN
    PROVE  Deliver(seat, m, b) \in Seat
<1>1. /\ Append(seat.queue, m) \in Seq(Frames)
      /\ Append(seat.got, m) \in Seq(Frames)
      /\ Append(seat.owed, m) \in Seq(Frames)
  BY DEF Seat
<1>2. DropOldest(Append(seat.queue, m)) \in Seq(Frames)
  BY <1>1, SignalingAssumption DEF DropOldest
<1>3. QED
  BY <1>1, <1>2 DEF Deliver, Seat

\* Each handler maps server maps to server maps.
LEMMA OnLeaveType ==
    ASSUME NEW S \in Server, NEW r \in RoomIds, NEW p \in Peers
    PROVE  OnLeave(S, r, p) \in Server
<1>1. NoSeat \in Seat
  BY SeatTypes DEF NoSeat
<1>2. NoEntry \in Entry
  BY DEF NoEntry, Entry
<1>3. QED
  BY <1>1, <1>2 DEF OnLeave, Server

LEMMA HoldSeatType ==
    ASSUME NEW S \in Server, NEW r \in RoomIds, NEW p \in Peers
    PROVE  HoldSeat(S, r, p) \in Server
<1> DEFINE old == S.seat[r][p]
           new == [old EXCEPT !.ws = None, !.timer = TRUE]
<1>1. old \in Seat
  BY DEF Server
<1>2. new \in Seat
  <2> HIDE DEF old
  <2> QED
    BY <1>1 DEF Seat
<1>3. QED
  BY <1>2 DEF HoldSeat, Server

LEMMA OnDisconnectType ==
    ASSUME NEW S \in Server, NEW s \in Sockets
    PROVE  OnDisconnect(S, s) \in Server
<1>1. ASSUME S.wsIndex[s] # None, S.peerIndex[S.wsIndex[s]].ws = s,
             S.peerIndex[S.wsIndex[s]].roomId \in RoomIds
      PROVE  OnDisconnect(S, s) \in Server
  BY <1>1, HoldSeatType DEF OnDisconnect, Server
<1>2. ASSUME S.wsIndex[s] # None, S.peerIndex[S.wsIndex[s]].roomId \notin RoomIds
      PROVE  OnDisconnect(S, s) = S
  BY <1>2 DEF OnDisconnect, HoldSeat, Server
<1>3. QED
  BY <1>1, <1>2 DEF OnDisconnect

LEMMA ResumeType ==
    ASSUME NEW S \in Server, NEW s \in Sockets, NEW r \in RoomIds, NEW p \in Peers
    PROVE  Resume(S, s, r, p) \in Server
<1> DEFINE old == S.seat[r][p]
           all == old.got \o old.queue
           new == [old EXCEPT !.ws = s, !.timer = FALSE, !.queue = <<>>,
                              !.got = all, !.owed = <<>>]
<1>1. old \in Seat
  BY DEF Server
<1>2. new \in Seat
  <2> HIDE DEF old
  <2>1. all \in Seq(Frames) /\ <<>> \in Seq(Frames)
    BY <1>1 DEF Seat
  <2> HIDE DEF all
  <2> QED
    BY <1>1, <2>1 DEF Seat
<1>3. [roomId |-> r, ws |-> s] \in Entry
  BY DEF Entry
<1>4. QED
  BY <1>2, <1>3 DEF Resume, Server

LEMMA EnterType ==
    ASSUME NEW S \in Server, NEW s \in Sockets, NEW r \in RoomIds, NEW p \in Peers
    PROVE  Enter(S, s, r, p) \in Server
<1>1. NewSeat(s) \in Seat
  BY SeatTypes
<1>2. [roomId |-> r, ws |-> s] \in Entry
  BY DEF Entry
<1>3. /\ S.peers[r] \subseteq Peers
      /\ S.seat[r] \in [Peers -> Seat]
      /\ S.wsIndex \in [Sockets -> Peers \cup {None}]
  BY DEF Server
<1>4. CASE r \in S.rooms
  <2> DEFINE ps == S.peers[r] \cup {p}
             st == [S.seat[r] EXCEPT ![p] = NewSeat(s)]
             en == [roomId |-> r, ws |-> s]
  <2>1. ps \in SUBSET Peers /\ st \in [Peers -> Seat] /\ en \in Entry
    BY <1>1, <1>2, <1>3
  <2>2. Enter(S, s, r, p) = [S EXCEPT !.peers[r] = ps, !.seat[r] = st,
                                      !.peerIndex[p] = en, !.wsIndex[s] = p]
    BY <1>4 DEF Enter, Server
  <2> HIDE DEF ps, st, en
  <2>3. /\ [S.peers EXCEPT ![r] = ps] \in [RoomIds -> SUBSET Peers]
        /\ [S.seat EXCEPT ![r] = st] \in [RoomIds -> [Peers -> Seat]]
        /\ [S.peerIndex EXCEPT ![p] = en] \in [Peers -> Entry]
        /\ [S.wsIndex EXCEPT ![s] = p] \in [Sockets -> Peers \cup {None}]
    BY <2>1 DEF Server
  <2>4. QED
    BY <2>2, <2>3 DEF Server
<1>5. CASE r \notin S.rooms
  BY <1>2, <1>3, <1>5 DEF Enter, Server
<1>6. QED
  BY <1>4, <1>5

LEMMA BeforeJoinType ==
    ASSUME NEW S \in Server, NEW s \in Sockets, NEW r \in RoomIds, NEW p \in Peers
    PROVE  BeforeJoin(S, s, r, p) \in Server
<1> DEFINE S0 == [S EXCEPT !.rooms = @ \cup {r}]
<1>1. S0 \in Server
  BY DEF Server
<1>2. ASSUME PriorId(S, s, p), PriorRoom(S, s, r) \in RoomIds
      PROVE  OnLeave(S0, PriorRoom(S, s, r), S.wsIndex[s]) \in Server
  <2>1. S.wsIndex[s] \in Peers
    BY <1>2 DEF PriorId, Server
  <2>2. QED
    BY <1>1, <1>2, <2>1, OnLeaveType
<1>3. ASSUME PriorRoom(S, s, r) \notin RoomIds
      PROVE  OnLeave(S0, PriorRoom(S, s, r), S.wsIndex[s]) = S0
  BY <1>1, <1>3 DEF OnLeave, Server
<1>4. QED
  BY <1>1, <1>2, <1>3 DEF BeforeJoin

LEMMA PostType ==
    ASSUME NEW S \in Server, NEW r \in RoomIds, NEW To, NEW m \in Frames, NEW b \in BOOLEAN
    PROVE  Post(S, r, To, m, b) \in Server
<1>1. \A p \in Peers : S.seat[r][p] \in Seat /\ Deliver(S.seat[r][p], m, b) \in Seat
  BY DeliverType DEF Server
<1>2. QED
  BY <1>1 DEF Post, Server

LEMMA FreshServerType == FreshServer \in Server
<1>1. NoSeat \in Seat /\ NoEntry \in Entry
  BY SeatTypes DEF NoSeat, NoEntry, Entry
<1>2. QED
  BY <1>1 DEF FreshServer, Server

\* The roster edits keep rosters rosters.
Rosters == [Sockets -> [RoomIds -> SUBSET Peers]]

LEMMA TellTypes ==
    ASSUME NEW T \in Rosters, NEW S \in Server, NEW r, NEW p \in Peers
    PROVE  /\ TellLeft(T, S, r, p) \in Rosters
           /\ TellJoined(T, S, r, p) \in Rosters
           /\ \A s \in Sockets : TellPeers(T, S, s, r, p) \in Rosters
<1>1. ASSUME NEW t \in Sockets, r \in S.rooms
      PROVE  /\ [T[t] EXCEPT ![r] = @ \ {p}] \in [RoomIds -> SUBSET Peers]
             /\ [T[t] EXCEPT ![r] = @ \cup {p}] \in [RoomIds -> SUBSET Peers]
             /\ [T[t] EXCEPT ![r] = S.peers[r] \ {p}] \in [RoomIds -> SUBSET Peers]
  BY <1>1 DEF Rosters, Server
<1>2. ASSUME NEW t \in Sockets
      PROVE  [T[t] EXCEPT ![r] = {}] \in [RoomIds -> SUBSET Peers]
  BY DEF Rosters
<1>3. /\ TellLeft(T, S, r, p) \in Rosters
      /\ TellJoined(T, S, r, p) \in Rosters
  BY <1>1 DEF TellLeft, TellJoined, Rosters
<1>4. \A s \in Sockets : TellPeers(T, S, s, r, p) \in Rosters
  BY <1>1, <1>2 DEF TellPeers, Rosters
<1>5. QED
  BY <1>3, <1>4

LEMMA InitTypeOK == Init => TypeOK
BY FreshServerType, SignalingAssumption DEF Init, TypeOK, SocketState

LEMMA JoinTypeOK ==
    ASSUME TypeOK, NEW s \in Sockets, NEW r \in RoomIds, NEW p \in Peers, Join(s, r, p)
    PROVE  TypeOK'
<1> DEFINE S == BeforeJoin(srv, s, r, p)
           q == srv.wsIndex[s]
           T == IF PriorId(srv, s, p) THEN TellLeft(told, srv, PriorRoom(srv, s, r), q)
                                      ELSE told
<1>1. srv \in Server /\ told \in Rosters
  BY DEF TypeOK, Rosters
<1>2. S \in Server
  BY <1>1, BeforeJoinType
<1>3. T \in Rosters
  <2>1. CASE PriorId(srv, s, p)
    <3>1. q \in Peers
      BY <1>1, <2>1 DEF PriorId, Server
    <3>2. QED
      BY <1>1, <2>1, <3>1, TellTypes
  <2>2. QED
    BY <1>1, <2>1
<1> HIDE DEF S, T
<1>4. CASE p \in S.peers[r]
  <2>1. srv' \in Server
    BY <1>2, <1>4, ResumeType DEF Join, S
  <2>2. told' \in Rosters
    BY <1>2, <1>3, <1>4, TellTypes DEF Join, S, T
  <2>3. sock' \in [Sockets -> SocketState]
    <3>1. sock' \in {sock, Terminate(S.seat[r][p].ws)}
      BY <1>4 DEF Join, S
    <3>2. QED
      BY <3>1 DEF Terminate, TypeOK, SocketState
  <2>4. QED
    BY <2>1, <2>2, <2>3 DEF Join, TypeOK, Rosters
<1>5. CASE p \notin S.peers[r]
  <2>1. srv' \in Server
    BY <1>2, <1>5, EnterType DEF Join, S
  <2>2. told' = TellJoined(TellPeers(T, S, s, r, p), S, r, p)
    BY <1>5 DEF Join, S, T
  <2>3. told' \in Rosters
    BY <1>2, <1>3, <2>2, TellTypes
  <2>4. sock' = sock
    BY <1>5 DEF Join, S
  <2>5. QED
    BY <2>1, <2>3, <2>4 DEF Join, TypeOK, Rosters
<1>6. QED
  BY <1>4, <1>5

LEMMA LeaveTypeOK ==
    ASSUME TypeOK, NEW s \in Sockets, NEW r \in RoomIds, NEW p \in Peers, Leave(s, r, p)
    PROVE  TypeOK'
<1>1. srv' \in Server
  BY OnLeaveType DEF TypeOK, Leave
<1>2. told' \in Rosters
  BY TellTypes DEF TypeOK, Leave, Rosters
<1>3. QED
  BY <1>1, <1>2 DEF TypeOK, Leave, Rosters

LEMMA PostTypeOK ==
    ASSUME TypeOK, NEW s \in Sockets, NEW r \in RoomIds, NEW p \in Peers,
           NEW to \in Peers \cup {None},
           RelayData(s, r, p, to) \/ Relay(s, r, p, to)
    PROVE  TypeOK'
<1>1. sent + 1 \in 1..MaxFrames
  <2>1. sent < MaxFrames
    BY DEF RelayData, Relay, Accepts
  <2>2. QED
    BY <2>1, SignalingAssumption DEF TypeOK
<1>2. srv' \in Server
  BY <1>1, PostType DEF TypeOK, RelayData, Relay, Frames
<1>3. /\ sent' = sent + 1
      /\ UNCHANGED <<sock, missed, told, serving, restarts>>
      /\ cause' = None
  BY DEF RelayData, Relay
<1>4. sent' \in 0..MaxFrames
  BY <1>1, <1>3, SignalingAssumption
<1>5. QED
  BY <1>2, <1>3, <1>4 DEF TypeOK

LEMMA GraceExpireTypeOK ==
    ASSUME TypeOK, NEW r \in RoomIds, NEW p \in Peers, GraceExpire(r, p)
    PROVE  TypeOK'
<1> DEFINE S == [srv EXCEPT !.seat[r][p].timer = FALSE]
<1>1. srv \in Server /\ told \in Rosters
  BY DEF TypeOK, Rosters
<1>2. S \in Server
  <2> DEFINE old == srv.seat[r][p]
             new == [old EXCEPT !.timer = FALSE]
  <2>1. old \in Seat
    BY <1>1 DEF Server
  <2>2. new \in Seat
    <3> HIDE DEF old
    <3> QED
      BY <2>1 DEF Seat
  <2>3. QED
    BY <1>1, <2>2 DEF Server
<1> HIDE DEF S
<1>3. \/ srv' = OnLeave(S, r, p) /\ told' = TellLeft(told, S, r, p)
      \/ srv' = S /\ told' = told
  BY DEF GraceExpire, S
<1>4. OnLeave(S, r, p) \in Server
  BY <1>2, OnLeaveType
<1>5. TellLeft(told, S, r, p) \in Rosters
  BY <1>1, <1>2, TellTypes
<1>6. srv' \in Server /\ told' \in Rosters
  BY <1>1, <1>2, <1>3, <1>4, <1>5
<1>7. QED
  BY <1>6 DEF GraceExpire, TypeOK, Rosters

LEMMA CloseTypeOK ==
    ASSUME TypeOK, NEW s \in Sockets, Close(s)
    PROVE  TypeOK'
<1>1. srv' \in Server
  BY OnDisconnectType DEF TypeOK, Close
<1>2. told' \in Rosters
  <2>1. [r \in RoomIds |-> {}] \in [RoomIds -> SUBSET Peers]
    OBVIOUS
  <2>2. QED
    BY <2>1 DEF TypeOK, Close, Rosters
<1>3. QED
  BY <1>1, <1>2 DEF TypeOK, Close, SocketState, Rosters

\* The steps of the sockets alone.
LEMMA SocketsTypeOK ==
    ASSUME TypeOK,
           Heartbeat \/ \E s \in Sockets : OnConnect(s) \/ Pong(s) \/ ClientClose(s) \/ Vanish(s)
    PROVE  TypeOK'
<1>1. CASE Heartbeat
  BY <1>1 DEF TypeOK, Heartbeat, SocketState
<1>2. ASSUME NEW s \in Sockets, OnConnect(s) \/ Pong(s) \/ ClientClose(s) \/ Vanish(s)
      PROVE  TypeOK'
  <2>1. \/ missed' = missed /\ \E x \in SocketState : sock' = [sock EXCEPT ![s] = x]
        \/ missed' = [missed EXCEPT ![s] = 0] /\ sock' = sock
    BY <1>2 DEF OnConnect, Pong, ClientClose, Vanish, SocketState
  <2>2. UNCHANGED <<srv, told, sent, serving, restarts>> /\ cause' = None
    BY <1>2 DEF OnConnect, Pong, ClientClose, Vanish
  <2>3. sock' \in [Sockets -> SocketState] /\ missed' \in [Sockets -> 0..2]
    <3>1. sock \in [Sockets -> SocketState] /\ missed \in [Sockets -> 0..2]
      BY DEF TypeOK
    <3>2. [missed EXCEPT ![s] = 0] \in [Sockets -> 0..2]
      BY <3>1
    <3>3. \A x \in SocketState : [sock EXCEPT ![s] = x] \in [Sockets -> SocketState]
      BY <3>1
    <3>4. QED
      BY <2>1, <3>1, <3>2, <3>3
  <2>4. QED
    BY <2>2, <2>3 DEF TypeOK
<1>3. QED
  BY <1>1, <1>2

LEMMA ProcessTypeOK ==
    ASSUME TypeOK, Stop \/ Restart
    PROVE  TypeOK'
<1>1. CASE Stop
  <2>1. srv' \in Server
    BY <1>1, SeatTypes DEF Stop, TypeOK, Server, NoSeat
  <2>2. sock' \in [Sockets -> SocketState]
    BY <1>1 DEF Stop, TypeOK, SocketState
  <2>3. restarts' \in 0..MaxRestarts /\ serving' \in BOOLEAN
    <3>1. restarts \in 0..MaxRestarts /\ restarts < MaxRestarts /\ restarts' = restarts + 1
      BY <1>1 DEF Stop, TypeOK
    <3>2. restarts' \in 0..MaxRestarts
      BY <3>1, SignalingAssumption
    <3>3. QED
      BY <1>1, <3>2 DEF Stop
  <2>4. QED
    BY <1>1, <2>1, <2>2, <2>3 DEF Stop, TypeOK
<1>2. CASE Restart
  BY <1>2, FreshServerType, SignalingAssumption DEF Restart, TypeOK, SocketState
<1>3. QED
  BY <1>1, <1>2

LEMMA StepTypeOK == TypeOK /\ [Next]_vars => TypeOK'
<1> SUFFICES ASSUME TypeOK, [Next]_vars
             PROVE  TypeOK'
  OBVIOUS
<1>1. CASE UNCHANGED vars
  BY <1>1 DEF vars, TypeOK
<1>2. CASE Next
  BY <1>2, JoinTypeOK, LeaveTypeOK, PostTypeOK, GraceExpireTypeOK, CloseTypeOK,
     SocketsTypeOK, ProcessTypeOK DEF Next
<1>3. QED
  BY <1>1, <1>2

\* The maps of the server, the sockets and the history keep their types
\* whatever the clients claim.
THEOREM SignalingTypes == Spec => []TypeOK
BY InitTypeOK, StepTypeOK, PTL DEF Spec

------------------------------------------------------------------------------
(* What each handler does to the fields the indexes are about *)

LeaveEffect(S, R, r, p) ==
    /\ R.rooms = IF S.peers[r] \subseteq {p} THEN S.rooms \ {r} ELSE S.rooms
    /\ \A x \in RoomIds : R.peers[x] = IF x = r THEN S.peers[x] \ {p} ELSE S.peers[x]
    /\ \A x \in RoomIds, y \in Peers :
          R.seat[x][y] = IF x = r /\ y = p THEN NoSeat ELSE S.seat[x][y]
    /\ \A y \in Peers : R.peerIndex[y] = IF y = p THEN NoEntry ELSE S.peerIndex[y]
    /\ \A s \in Sockets : R.wsIndex[s] = IF s = S.peerIndex[p].ws THEN None
                                                                  ELSE S.wsIndex[s]

LEMMA OnLeaveFields ==
    ASSUME NEW S \in Server, NEW r \in S.rooms, NEW p \in Peers
    PROVE  LeaveEffect(S, OnLeave(S, r, p), r, p)
<1> SUFFICES ASSUME NEW R, R = OnLeave(S, r, p)
             PROVE  LeaveEffect(S, R, r, p)
  OBVIOUS
<1> QED
  BY DEF OnLeave, Server, LeaveEffect

HoldEffect(S, R, r, p) ==
    /\ R.rooms = S.rooms
    /\ R.peers = S.peers
    /\ \A x \in RoomIds, y \in Peers :
          /\ R.seat[x][y].ws = IF x = r /\ y = p THEN None ELSE S.seat[x][y].ws
          /\ R.seat[x][y].timer = IF x = r /\ y = p THEN TRUE ELSE S.seat[x][y].timer
    /\ R.peerIndex = S.peerIndex
    /\ \A s \in Sockets : R.wsIndex[s] = IF s = S.seat[r][p].ws THEN None
                                                                ELSE S.wsIndex[s]

LEMMA HoldSeatFields ==
    ASSUME NEW S \in Server, NEW r \in S.rooms, NEW p \in S.peers[r]
    PROVE  HoldEffect(S, HoldSeat(S, r, p), r, p)
<1> SUFFICES ASSUME NEW R, R = HoldSeat(S, r, p)
             PROVE  HoldEffect(S, R, r, p)
  OBVIOUS
<1>1. \A x \in RoomIds, y \in Peers : S.seat[x][y] \in Seat
  BY DEF Server
<1>2. r \in RoomIds /\ p \in Peers
  BY DEF Server
<1> DEFINE new == [S.seat[r][p] EXCEPT !.ws = None, !.timer = TRUE]
<1>3. R = [S EXCEPT !.seat[r][p] = new,
                    !.wsIndex = [s \in Sockets |-> IF s = S.seat[r][p].ws THEN None ELSE @[s]]]
  BY <1>2 DEF HoldSeat
<1>4. R.seat[r][p] = new
  <2> HIDE DEF new
  <2> QED
    BY <1>2, <1>3 DEF Server
<1>5. \A x \in RoomIds, y \in Peers : x # r \/ y # p => R.seat[x][y] = S.seat[x][y]
  BY <1>2, <1>3 DEF Server
<1>6. R.seat[r][p].ws = None /\ R.seat[r][p].timer = TRUE
  BY <1>1, <1>2, <1>4 DEF Seat
<1>7. /\ R.rooms = S.rooms /\ R.peers = S.peers /\ R.peerIndex = S.peerIndex
      /\ \A s \in Sockets : R.wsIndex[s] = IF s = S.seat[r][p].ws THEN None ELSE S.wsIndex[s]
  BY <1>3 DEF Server
<1>8. QED
  BY <1>5, <1>6, <1>7 DEF HoldEffect

ResumeEffect(S, R, s, r, p) ==
    /\ R.rooms = S.rooms
    /\ R.peers = S.peers
    /\ \A x \in RoomIds, y \in Peers :
          /\ R.seat[x][y].ws = IF x = r /\ y = p THEN s ELSE S.seat[x][y].ws
          /\ R.seat[x][y].timer = IF x = r /\ y = p THEN FALSE ELSE S.seat[x][y].timer
    /\ \A y \in Peers : R.peerIndex[y] = IF y = p THEN [roomId |-> r, ws |-> s]
                                                  ELSE S.peerIndex[y]
    /\ \A t \in Sockets : R.wsIndex[t] = IF t = s THEN p
                                         ELSE IF t = S.seat[r][p].ws THEN None
                                         ELSE S.wsIndex[t]

LEMMA ResumeFields ==
    ASSUME NEW S \in Server, NEW s \in Sockets, NEW r \in RoomIds, NEW p \in Peers
    PROVE  ResumeEffect(S, Resume(S, s, r, p), s, r, p)
<1> SUFFICES ASSUME NEW R, R = Resume(S, s, r, p)
             PROVE  ResumeEffect(S, R, s, r, p)
  OBVIOUS
<1> DEFINE old == S.seat[r][p]
           all == old.got \o old.queue
<1>1. old \in Seat
  BY DEF Server
<1>2. R.seat[r][p] = [old EXCEPT !.ws = s, !.timer = FALSE, !.queue = <<>>,
                                 !.got = all, !.owed = <<>>]
  BY DEF Resume, Server
<1>3. R.seat[r][p].ws = s /\ R.seat[r][p].timer = FALSE
  <2> HIDE DEF old, all
  <2> QED
    BY <1>1, <1>2 DEF Seat
<1>4. \A x \in RoomIds, y \in Peers : x # r \/ y # p => R.seat[x][y] = S.seat[x][y]
  BY DEF Resume, Server
<1>5. /\ R.rooms = S.rooms /\ R.peers = S.peers
      /\ \A y \in Peers : R.peerIndex[y] = IF y = p THEN [roomId |-> r, ws |-> s]
                                                    ELSE S.peerIndex[y]
  BY DEF Resume, Server
<1>6. \A t \in Sockets : R.wsIndex[t] = IF t = s THEN p
                                        ELSE IF t = S.seat[r][p].ws THEN None
                                        ELSE S.wsIndex[t]
  BY DEF Resume, Server
<1>7. QED
  BY <1>3, <1>4, <1>5, <1>6 DEF ResumeEffect

EnterEffect(S, R, s, r, p) ==
    /\ R.rooms = S.rooms
    /\ \A x \in RoomIds : R.peers[x] = IF x = r THEN S.peers[x] \cup {p} ELSE S.peers[x]
    /\ \A x \in RoomIds, y \in Peers :
          R.seat[x][y] = IF x = r /\ y = p THEN NewSeat(s) ELSE S.seat[x][y]
    /\ \A y \in Peers : R.peerIndex[y] = IF y = p THEN [roomId |-> r, ws |-> s]
                                                  ELSE S.peerIndex[y]
    /\ \A t \in Sockets : R.wsIndex[t] = IF t = s THEN p ELSE S.wsIndex[t]

LEMMA EnterFields ==
    ASSUME NEW S \in Server, NEW s \in Sockets, NEW r \in S.rooms, NEW p \in Peers
    PROVE  EnterEffect(S, Enter(S, s, r, p), s, r, p)
<1> SUFFICES ASSUME NEW R, R = Enter(S, s, r, p)
             PROVE  EnterEffect(S, R, s, r, p)
  OBVIOUS
<1>1. r \in RoomIds
  BY DEF Server
<1>2. QED
  BY <1>1 DEF Enter, Server, EnterEffect

------------------------------------------------------------------------------
(* The handlers keep rooms and indexes aligned *)

LEMMA SeatSocket ==
    ASSUME NEW S \in Server, NEW x \in RoomIds, NEW y \in Peers
    PROVE  S.seat[x][y].ws \in Sockets \cup {None}
BY DEF Server, Seat

\* What is known of a socket the server has under a peerId.
LEMMA IndexedSocket ==
    ASSUME NEW S \in Server, Aligned(S), NEW s \in Sockets, S.wsIndex[s] # None
    PROVE  /\ S.wsIndex[s] \in Peers
           /\ S.peerIndex[S.wsIndex[s]] # NoEntry
           /\ S.peerIndex[S.wsIndex[s]].ws = s
           /\ S.peerIndex[S.wsIndex[s]].roomId \in RoomIds
           /\ S.wsIndex[s] \in S.peers[S.peerIndex[S.wsIndex[s]].roomId]
           /\ S.seat[S.peerIndex[S.wsIndex[s]].roomId][S.wsIndex[s]].ws = s
<1> DEFINE p == S.wsIndex[s]
           e == S.peerIndex[p]
<1>1. p \in Peers
  BY DEF Server
<1>2. e.ws = s /\ S.seat[e.roomId][p].ws = s
  BY DEF Aligned, NothingElseIndexed
<1>3. NoEntry.ws = None /\ None # s
  BY SignalingAssumption DEF NoEntry
<1>4. e # NoEntry
  <2> HIDE DEF e
  <2> QED
    BY <1>2, <1>3
<1>5. e.roomId \in RoomIds /\ p \in S.peers[e.roomId]
  <2>1. \A y \in Peers : S.peerIndex[y] # NoEntry =>
           S.peerIndex[y].roomId \in RoomIds /\ y \in S.peers[S.peerIndex[y].roomId]
    BY DEF Aligned, NothingElseIndexed
  <2>2. QED
    BY <1>1, <1>4, <2>1
<1>6. QED
  BY <1>1, <1>2, <1>4, <1>5

LEMMA OnLeaveAligned ==
    ASSUME NEW S \in Server, Aligned(S), NEW r \in S.rooms, NEW p \in S.peers[r]
    PROVE  Aligned(OnLeave(S, r, p))
<1> SUFFICES ASSUME NEW R, R = OnLeave(S, r, p)
             PROVE  Aligned(R)
  OBVIOUS
<1> DEFINE w == S.peerIndex[p].ws
<1>0. r \in RoomIds /\ p \in Peers
  BY DEF Server
<1>1. /\ \A x \in RoomIds : R.peers[x] = IF x = r THEN S.peers[x] \ {p} ELSE S.peers[x]
      /\ \A x \in RoomIds, y \in Peers :
            R.seat[x][y] = IF x = r /\ y = p THEN NoSeat ELSE S.seat[x][y]
      /\ \A y \in Peers : R.peerIndex[y] = IF y = p THEN NoEntry ELSE S.peerIndex[y]
      /\ \A s \in Sockets : R.wsIndex[s] = IF s = w THEN None ELSE S.wsIndex[s]
  <2>1. LeaveEffect(S, R, r, p)
    BY <1>0, OnLeaveFields
  <2>2. QED
    BY <2>1 DEF LeaveEffect
<1>2. \A x \in RoomIds : R.peers[x] \subseteq S.peers[x]
  BY <1>1
<1>3. \A x \in RoomIds : p \notin R.peers[x]
  <2>1. ASSUME NEW x \in RoomIds, p \in S.peers[x] PROVE x = r
    BY <1>0, <2>1 DEF Aligned, SeatsIndexed
  <2>2. QED
    BY <1>1, <2>1
<1>t. \A x \in RoomIds : S.peers[x] \subseteq Peers
  BY DEF Server
<1>u. \A x \in RoomIds, y \in Peers : S.seat[x][y].ws \in Sockets \cup {None}
  BY SeatSocket
<1>4. SeatsIndexed(R)
  <2> SUFFICES ASSUME NEW x \in RoomIds, NEW y \in R.peers[x]
               PROVE  /\ R.peerIndex[y].roomId = x
                      /\ R.seat[x][y].ws # None => /\ R.peerIndex[y].ws = R.seat[x][y].ws
                                                   /\ R.wsIndex[R.seat[x][y].ws] = y
    BY DEF SeatsIndexed
  <2>1. y # p /\ y \in S.peers[x] /\ y \in Peers
    BY <1>2, <1>3, <1>t
  <2>2. R.peerIndex[y] = S.peerIndex[y] /\ R.seat[x][y] = S.seat[x][y]
    BY <1>1, <2>1
  <2>3. /\ S.peerIndex[y].roomId = x
        /\ S.seat[x][y].ws # None => /\ S.peerIndex[y].ws = S.seat[x][y].ws
                                     /\ S.wsIndex[S.seat[x][y].ws] = y
    BY <2>1 DEF Aligned, SeatsIndexed
  <2>4. S.seat[x][y].ws # None => S.seat[x][y].ws # w
    BY <1>0, <2>1, <2>3 DEF Aligned, OneEntryPerSocket
  <2>5. QED
    BY <1>1, <1>u, <2>1, <2>2, <2>3, <2>4
<1>5. NothingElseIndexed(R)
  <2>1. ASSUME NEW y \in Peers, R.peerIndex[y] # NoEntry
        PROVE  /\ R.peerIndex[y].roomId \in RoomIds
               /\ R.peerIndex[y].ws \in Sockets
               /\ y \in R.peers[R.peerIndex[y].roomId]
    <3>1. y # p /\ R.peerIndex[y] = S.peerIndex[y]
      BY <1>1, <2>1
    <3>2. /\ S.peerIndex[y].roomId \in RoomIds
          /\ S.peerIndex[y].ws \in Sockets
          /\ y \in S.peers[S.peerIndex[y].roomId]
      BY <2>1, <3>1 DEF Aligned, NothingElseIndexed
    <3>3. \A x \in RoomIds : y \in S.peers[x] => y \in R.peers[x]
      BY <1>1, <3>1
    <3>4. QED
      BY <3>1, <3>2, <3>3
  <2>2. ASSUME NEW s \in Sockets, R.wsIndex[s] # None
        PROVE  /\ R.peerIndex[R.wsIndex[s]].ws = s
               /\ R.seat[R.peerIndex[R.wsIndex[s]].roomId][R.wsIndex[s]].ws = s
    <3>1. s # w /\ R.wsIndex[s] = S.wsIndex[s] /\ S.wsIndex[s] \in Peers
      BY <1>1, <2>2 DEF Server
    <3>2. /\ S.peerIndex[S.wsIndex[s]].ws = s
          /\ S.seat[S.peerIndex[S.wsIndex[s]].roomId][S.wsIndex[s]].ws = s
          /\ S.peerIndex[S.wsIndex[s]].roomId \in RoomIds
      BY <2>2, <3>1, IndexedSocket
    <3>3. S.wsIndex[s] # p
      BY <3>1, <3>2
    <3>6. /\ R.peerIndex[S.wsIndex[s]] = S.peerIndex[S.wsIndex[s]]
          /\ R.seat[S.peerIndex[S.wsIndex[s]].roomId][S.wsIndex[s]]
               = S.seat[S.peerIndex[S.wsIndex[s]].roomId][S.wsIndex[s]]
      BY <1>1, <3>1, <3>2, <3>3
    <3>7. QED
      BY <3>1, <3>2, <3>6
  <2>3. QED
    BY <2>1, <2>2 DEF NothingElseIndexed
<1>6. SeatsClaimed(R)
  <2>1. \A x \in RoomIds : \A y \in R.peers[x] : \E s \in Sockets : <<s, x, y>> \in Claims
    BY <1>2 DEF Aligned, SeatsClaimed
  <2>2. ASSUME NEW s \in Sockets, R.wsIndex[s] # None
        PROVE  <<s, R.peerIndex[R.wsIndex[s]].roomId, R.wsIndex[s]>> \in Claims
    <3>1. s # w /\ R.wsIndex[s] = S.wsIndex[s] /\ S.wsIndex[s] \in Peers
      BY <1>1, <2>2 DEF Server
    <3>2. S.peerIndex[S.wsIndex[s]].ws = s
      BY <2>2, <3>1 DEF Aligned, NothingElseIndexed
    <3>3. S.wsIndex[s] # p
      BY <3>1, <3>2
    <3>4. QED
      BY <1>1, <2>2, <3>1, <3>3 DEF Aligned, SeatsClaimed
  <2>3. QED
    BY <2>1, <2>2 DEF SeatsClaimed
<1>7. OneEntryPerSocket(R)
  BY <1>1 DEF Aligned, OneEntryPerSocket, NoEntry
<1>8. QED
  BY <1>4, <1>5, <1>6, <1>7 DEF Aligned

LEMMA HoldSeatAligned ==
    ASSUME NEW S \in Server, Aligned(S), NEW r \in S.rooms, NEW p \in S.peers[r],
           S.seat[r][p].ws # None
    PROVE  Aligned(HoldSeat(S, r, p))
<1> SUFFICES ASSUME NEW R, R = HoldSeat(S, r, p)
             PROVE  Aligned(R)
  OBVIOUS
<1> DEFINE w == S.seat[r][p].ws
<1>0. r \in RoomIds /\ p \in Peers
  BY DEF Server
<1>1. /\ R.peers = S.peers
      /\ \A x \in RoomIds, y \in Peers :
            R.seat[x][y].ws = IF x = r /\ y = p THEN None ELSE S.seat[x][y].ws
      /\ R.peerIndex = S.peerIndex
      /\ \A s \in Sockets : R.wsIndex[s] = IF s = w THEN None ELSE S.wsIndex[s]
  <2>1. HoldEffect(S, R, r, p)
    BY <1>0, HoldSeatFields
  <2>2. QED
    BY <2>1 DEF HoldEffect
<1>2. w \in Sockets /\ S.wsIndex[w] = p /\ S.peerIndex[p].ws = w /\ S.peerIndex[p].roomId = r
  BY <1>0 DEF Aligned, SeatsIndexed, Server, Seat
<1>t. \A x \in RoomIds : S.peers[x] \subseteq Peers
  BY DEF Server
<1>u. \A x \in RoomIds, y \in Peers : S.seat[x][y].ws \in Sockets \cup {None}
  BY SeatSocket
<1>4. SeatsIndexed(R)
  <2> SUFFICES ASSUME NEW x \in RoomIds, NEW y \in S.peers[x]
               PROVE  /\ R.peerIndex[y].roomId = x
                      /\ R.seat[x][y].ws # None => /\ R.peerIndex[y].ws = R.seat[x][y].ws
                                                   /\ R.wsIndex[R.seat[x][y].ws] = y
    BY <1>1 DEF SeatsIndexed
  <2>1. /\ S.peerIndex[y].roomId = x
        /\ S.seat[x][y].ws # None => /\ S.peerIndex[y].ws = S.seat[x][y].ws
                                     /\ S.wsIndex[S.seat[x][y].ws] = y
    BY DEF Aligned, SeatsIndexed
  <2>2. CASE x = r /\ y = p
    BY <1>1, <1>0, <2>1, <2>2
  <2>3. CASE ~(x = r /\ y = p)
    <3>1. R.seat[x][y].ws = S.seat[x][y].ws
      BY <1>1, <1>t, <2>3
    <3>2. y # p
      BY <1>2, <2>1, <2>3
    <3>3. S.seat[x][y].ws # None => S.seat[x][y].ws # w
      BY <1>2, <2>1, <3>2
    <3>4. QED
      BY <1>1, <1>t, <1>u, <2>1, <3>1, <3>3
  <2>4. QED
    BY <2>2, <2>3
<1>5. NothingElseIndexed(R)
  <2>1. ASSUME NEW y \in Peers, R.peerIndex[y] # NoEntry
        PROVE  /\ R.peerIndex[y].roomId \in RoomIds
               /\ R.peerIndex[y].ws \in Sockets
               /\ y \in R.peers[R.peerIndex[y].roomId]
    BY <1>1, <2>1 DEF Aligned, NothingElseIndexed
  <2>2. ASSUME NEW s \in Sockets, R.wsIndex[s] # None
        PROVE  /\ R.peerIndex[R.wsIndex[s]].ws = s
               /\ R.seat[R.peerIndex[R.wsIndex[s]].roomId][R.wsIndex[s]].ws = s
    <3>1. s # w /\ R.wsIndex[s] = S.wsIndex[s] /\ S.wsIndex[s] \in Peers
      BY <1>1, <2>2 DEF Server
    <3>2. /\ S.peerIndex[S.wsIndex[s]].ws = s
          /\ S.seat[S.peerIndex[S.wsIndex[s]].roomId][S.wsIndex[s]].ws = s
          /\ S.peerIndex[S.wsIndex[s]].roomId \in RoomIds
      BY <2>2, <3>1, IndexedSocket
    <3>3. S.wsIndex[s] # p
      BY <1>2, <3>1, <3>2
    <3>4. QED
      BY <1>1, <3>1, <3>2, <3>3
  <2>3. QED
    BY <2>1, <2>2 DEF NothingElseIndexed
<1>6. SeatsClaimed(R)
  BY <1>1 DEF Aligned, SeatsClaimed
<1>7. OneEntryPerSocket(R)
  BY <1>1 DEF Aligned, OneEntryPerSocket
<1>8. QED
  BY <1>4, <1>5, <1>6, <1>7 DEF Aligned

\* Maps that seat and index the same sockets are alike.
LEMMA SameAligned ==
    ASSUME NEW S \in Server, Aligned(S), NEW R,
           R.peers = S.peers, R.peerIndex = S.peerIndex, R.wsIndex = S.wsIndex,
           \A x \in RoomIds, y \in Peers : R.seat[x][y].ws = S.seat[x][y].ws
    PROVE  Aligned(R)
<1>1. SeatsIndexed(R)
  <2>1. \A x \in RoomIds : S.peers[x] \subseteq Peers
    BY DEF Server
  <2>2. QED
    BY <2>1 DEF Aligned, SeatsIndexed
<1>2. NothingElseIndexed(R)
  <2>1. ASSUME NEW s \in Sockets, S.wsIndex[s] # None
        PROVE  /\ S.peerIndex[S.wsIndex[s]].ws = s
               /\ R.seat[S.peerIndex[S.wsIndex[s]].roomId][S.wsIndex[s]].ws = s
    <3>1. /\ S.wsIndex[s] \in Peers /\ S.peerIndex[S.wsIndex[s]].roomId \in RoomIds
          /\ S.peerIndex[S.wsIndex[s]].ws = s
          /\ S.seat[S.peerIndex[S.wsIndex[s]].roomId][S.wsIndex[s]].ws = s
      BY <2>1, IndexedSocket
    <3>2. R.seat[S.peerIndex[S.wsIndex[s]].roomId][S.wsIndex[s]].ws
            = S.seat[S.peerIndex[S.wsIndex[s]].roomId][S.wsIndex[s]].ws
      BY <3>1
    <3>3. QED
      BY <3>1, <3>2
  <2>2. QED
    BY <2>1 DEF Aligned, NothingElseIndexed
<1>3. SeatsClaimed(R) /\ OneEntryPerSocket(R)
  BY DEF Aligned, SeatsClaimed, OneEntryPerSocket
<1>4. QED
  BY <1>1, <1>2, <1>3 DEF Aligned

\* A peer that is indexed nowhere else may take its seat back on socket s.
LEMMA ResumeAligned ==
    ASSUME NEW S \in Server, Aligned(S),
           NEW s \in Sockets, NEW r \in RoomIds, NEW p \in S.peers[r],
           <<s, r, p>> \in Claims,
           S.wsIndex[s] \in {None, p},
           \A y \in Peers : S.peerIndex[y].ws = s => y = p
    PROVE  Aligned(Resume(S, s, r, p))
<1> SUFFICES ASSUME NEW R, R = Resume(S, s, r, p)
             PROVE  Aligned(R)
  OBVIOUS
<1> DEFINE w == S.seat[r][p].ws
<1>0. p \in Peers
  BY DEF Server
<1>1. /\ R.peers = S.peers
      /\ \A x \in RoomIds, y \in Peers :
            R.seat[x][y].ws = IF x = r /\ y = p THEN s ELSE S.seat[x][y].ws
      /\ \A y \in Peers : R.peerIndex[y] = IF y = p THEN [roomId |-> r, ws |-> s]
                                                    ELSE S.peerIndex[y]
      /\ \A t \in Sockets : R.wsIndex[t] = IF t = s THEN p ELSE IF t = w THEN None
                                                           ELSE S.wsIndex[t]
  <2>1. ResumeEffect(S, R, s, r, p)
    BY <1>0, ResumeFields
  <2>2. QED
    BY <2>1 DEF ResumeEffect
<1>2. /\ S.peerIndex[p].roomId = r
      /\ w # None => S.peerIndex[p].ws = w /\ S.wsIndex[w] = p
  BY DEF Aligned, SeatsIndexed
<1>t. \A x \in RoomIds : S.peers[x] \subseteq Peers
  BY DEF Server
<1>u. \A x \in RoomIds, y \in Peers : S.seat[x][y].ws \in Sockets \cup {None}
  BY SeatSocket
<1>3. R.peerIndex[p] = [roomId |-> r, ws |-> s] /\ R.seat[r][p].ws = s /\ R.wsIndex[s] = p
  BY <1>0, <1>1
<1>4. \A y \in Peers : y # p => R.peerIndex[y] = S.peerIndex[y]
  BY <1>1
<1>5. SeatsIndexed(R)
  <2> SUFFICES ASSUME NEW x \in RoomIds, NEW y \in S.peers[x]
               PROVE  /\ R.peerIndex[y].roomId = x
                      /\ R.seat[x][y].ws # None => /\ R.peerIndex[y].ws = R.seat[x][y].ws
                                                   /\ R.wsIndex[R.seat[x][y].ws] = y
    BY <1>1 DEF SeatsIndexed
  <2>1. /\ S.peerIndex[y].roomId = x
        /\ S.seat[x][y].ws # None => /\ S.peerIndex[y].ws = S.seat[x][y].ws
                                     /\ S.wsIndex[S.seat[x][y].ws] = y
    BY DEF Aligned, SeatsIndexed
  <2>2. CASE y = p
    BY <1>2, <1>3, <2>1, <2>2
  <2>3. CASE y # p
    <3>1. R.seat[x][y].ws = S.seat[x][y].ws /\ R.peerIndex[y] = S.peerIndex[y]
      BY <1>1, <1>t, <2>3
    <3>2. S.seat[x][y].ws # None => S.seat[x][y].ws # w /\ S.seat[x][y].ws # s
      BY <1>2, <1>t, <2>1, <2>3
    <3>3. S.seat[x][y].ws # None => R.wsIndex[S.seat[x][y].ws] = S.wsIndex[S.seat[x][y].ws]
      BY <1>1, <1>t, <1>u, <3>2
    <3>4. QED
      BY <2>1, <3>1, <3>3
  <2>4. QED
    BY <2>2, <2>3
<1>6. NothingElseIndexed(R)
  <2>1. ASSUME NEW y \in Peers, R.peerIndex[y] # NoEntry
        PROVE  /\ R.peerIndex[y].roomId \in RoomIds
               /\ R.peerIndex[y].ws \in Sockets
               /\ y \in R.peers[R.peerIndex[y].roomId]
    <3>1. CASE y = p
      BY <1>1, <1>3, <3>1
    <3>2. CASE y # p
      BY <1>1, <1>4, <2>1, <3>2 DEF Aligned, NothingElseIndexed
    <3>3. QED
      BY <3>1, <3>2
  <2>2. ASSUME NEW t \in Sockets, R.wsIndex[t] # None
        PROVE  /\ R.peerIndex[R.wsIndex[t]].ws = t
               /\ R.seat[R.peerIndex[R.wsIndex[t]].roomId][R.wsIndex[t]].ws = t
    <3>1. CASE t = s
      <4>1. R.wsIndex[t] = p /\ R.peerIndex[p].roomId = r /\ R.peerIndex[p].ws = t
        BY <1>3, <3>1
      <4>2. QED
        BY <1>3, <3>1, <4>1
    <3>2. CASE t # s
      <4>1. t # w /\ R.wsIndex[t] = S.wsIndex[t] /\ S.wsIndex[t] \in Peers
        BY <1>1, <2>2, <3>2 DEF Server
      <4>2. /\ S.peerIndex[S.wsIndex[t]].ws = t
            /\ S.seat[S.peerIndex[S.wsIndex[t]].roomId][S.wsIndex[t]].ws = t
            /\ S.peerIndex[S.wsIndex[t]].roomId \in RoomIds
        BY <2>2, <4>1, IndexedSocket
      <4>3. S.wsIndex[t] # p
        BY <1>2, <4>1, <4>2
      <4>5. /\ R.peerIndex[S.wsIndex[t]] = S.peerIndex[S.wsIndex[t]]
            /\ R.seat[S.peerIndex[S.wsIndex[t]].roomId][S.wsIndex[t]].ws
                 = S.seat[S.peerIndex[S.wsIndex[t]].roomId][S.wsIndex[t]].ws
        BY <1>1, <1>4, <4>1, <4>2, <4>3
      <4>6. QED
        BY <4>1, <4>2, <4>5
    <3>3. QED
      BY <3>1, <3>2
  <2>3. QED
    BY <2>1, <2>2 DEF NothingElseIndexed
<1>7. SeatsClaimed(R)
  <2>1. ASSUME NEW t \in Sockets, R.wsIndex[t] # None
        PROVE  <<t, R.peerIndex[R.wsIndex[t]].roomId, R.wsIndex[t]>> \in Claims
    <3>1. CASE t = s
      BY <1>3, <3>1
    <3>2. CASE t # s
      <4>1. t # w /\ R.wsIndex[t] = S.wsIndex[t] /\ S.wsIndex[t] \in Peers
        BY <1>1, <2>1, <3>2 DEF Server
      <4>2. /\ S.peerIndex[S.wsIndex[t]].ws = t
            /\ S.seat[S.peerIndex[S.wsIndex[t]].roomId][S.wsIndex[t]].ws = t
        BY <2>1, <4>1 DEF Aligned, NothingElseIndexed
      <4>3. S.wsIndex[t] # p
        BY <1>2, <4>1, <4>2
      <4>4. QED
        BY <1>4, <2>1, <4>1, <4>3 DEF Aligned, SeatsClaimed
    <3>3. QED
      BY <3>1, <3>2
  <2>2. QED
    BY <1>1, <2>1 DEF Aligned, SeatsClaimed
<1>8. OneEntryPerSocket(R)
  BY <1>3, <1>4 DEF Aligned, OneEntryPerSocket
<1>9. QED
  BY <1>5, <1>6, <1>7, <1>8 DEF Aligned

LEMMA EnterAligned ==
    ASSUME NEW S \in Server, Aligned(S), ClaimsAreSeparate,
           NEW s \in Sockets, NEW r \in S.rooms, NEW p \in Peers, p \notin S.peers[r],
           <<s, r, p>> \in Claims,
           \A y \in Peers : S.peerIndex[y].ws = s => y = p
    PROVE  Aligned(Enter(S, s, r, p))
<1> SUFFICES ASSUME NEW R, R = Enter(S, s, r, p)
             PROVE  Aligned(R)
  OBVIOUS
<1>0. r \in RoomIds
  BY DEF Server
<1>1. /\ \A x \in RoomIds : R.peers[x] = IF x = r THEN S.peers[x] \cup {p} ELSE S.peers[x]
      /\ \A x \in RoomIds, y \in Peers :
            R.seat[x][y] = IF x = r /\ y = p THEN NewSeat(s) ELSE S.seat[x][y]
      /\ \A y \in Peers : R.peerIndex[y] = IF y = p THEN [roomId |-> r, ws |-> s]
                                                    ELSE S.peerIndex[y]
      /\ \A t \in Sockets : R.wsIndex[t] = IF t = s THEN p ELSE S.wsIndex[t]
  <2>1. EnterEffect(S, R, s, r, p)
    BY EnterFields
  <2>2. QED
    BY <2>1 DEF EnterEffect
<1>p. /\ \A x \in RoomIds : S.peers[x] \subseteq R.peers[x]
      /\ \A x \in RoomIds : \A y \in R.peers[x] : y # p => y \in S.peers[x]
      /\ \A x \in RoomIds : p \in R.peers[x] /\ p \notin S.peers[x] => x = r
      /\ p \in R.peers[r]
  <2>1. \A x \in RoomIds : R.peers[x] = IF x = r THEN S.peers[x] \cup {p} ELSE S.peers[x]
    BY <1>1
  <2>2. QED
    BY <1>0, <2>1
<1>2. \A x \in RoomIds : p \notin S.peers[x]
  <2>1. ASSUME NEW x \in RoomIds, p \in S.peers[x]
        PROVE  x = r
    <3>1. PICK t \in Sockets : <<t, x, p>> \in Claims
      BY <2>1 DEF Aligned, SeatsClaimed
    <3>2. QED
      BY <3>1 DEF ClaimsAreSeparate
  <2>2. QED
    BY <2>1
<1>3. S.peerIndex[p] = NoEntry
  BY <1>2 DEF Aligned, NothingElseIndexed
<1>4. \A t \in Sockets : S.wsIndex[t] # p
  <2>1. ASSUME NEW t \in Sockets, S.wsIndex[t] = p PROVE FALSE
    <3>1. S.wsIndex[t] # None
      BY <2>1, SignalingAssumption
    <3>2. S.peerIndex[S.wsIndex[t]] # NoEntry
      BY <3>1, IndexedSocket
    <3>3. QED
      BY <1>3, <2>1, <3>2
  <2>2. QED
    BY <2>1
<1>5. R.peerIndex[p] = [roomId |-> r, ws |-> s] /\ R.seat[r][p].ws = s /\ R.wsIndex[s] = p
  BY <1>0, <1>1 DEF NewSeat
<1>6. \A y \in Peers : y # p => R.peerIndex[y] = S.peerIndex[y]
  BY <1>1
<1>t. \A x \in RoomIds : S.peers[x] \subseteq Peers
  BY DEF Server
<1>u. \A x \in RoomIds, y \in Peers : S.seat[x][y].ws \in Sockets \cup {None}
  BY SeatSocket
<1>7. SeatsIndexed(R)
  <2> SUFFICES ASSUME NEW x \in RoomIds, NEW y \in R.peers[x]
               PROVE  /\ R.peerIndex[y].roomId = x
                      /\ R.seat[x][y].ws # None => /\ R.peerIndex[y].ws = R.seat[x][y].ws
                                                   /\ R.wsIndex[R.seat[x][y].ws] = y
    BY DEF SeatsIndexed
  <2>1. CASE y = p
    <3>1. x = r
      BY <1>p, <1>2, <2>1
    <3>2. QED
      BY <1>5, <2>1, <3>1
  <2>2. CASE y # p
    <3>1. y \in S.peers[x] /\ y \in Peers
      BY <1>p, <1>t, <2>2
    <3>2. /\ S.peerIndex[y].roomId = x
          /\ S.seat[x][y].ws # None => /\ S.peerIndex[y].ws = S.seat[x][y].ws
                                       /\ S.wsIndex[S.seat[x][y].ws] = y
      BY <3>1 DEF Aligned, SeatsIndexed
    <3>3. R.seat[x][y] = S.seat[x][y] /\ R.peerIndex[y] = S.peerIndex[y]
      BY <1>1, <2>2, <3>1
    <3>4. S.seat[x][y].ws # None => S.seat[x][y].ws # s
      BY <2>2, <3>1, <3>2
    <3>5. QED
      BY <1>1, <1>u, <3>1, <3>2, <3>3, <3>4
  <2>3. QED
    BY <2>1, <2>2
<1>8. NothingElseIndexed(R)
  <2>1. ASSUME NEW y \in Peers, R.peerIndex[y] # NoEntry
        PROVE  /\ R.peerIndex[y].roomId \in RoomIds
               /\ R.peerIndex[y].ws \in Sockets
               /\ y \in R.peers[R.peerIndex[y].roomId]
    <3>1. CASE y = p
      BY <1>0, <1>p, <1>5, <3>1
    <3>2. CASE y # p
      <4>1. /\ S.peerIndex[y].roomId \in RoomIds
            /\ S.peerIndex[y].ws \in Sockets
            /\ y \in S.peers[S.peerIndex[y].roomId]
        BY <1>6, <2>1, <3>2 DEF Aligned, NothingElseIndexed
      <4>2. QED
        BY <1>p, <1>6, <3>2, <4>1
    <3>3. QED
      BY <3>1, <3>2
  <2>2. ASSUME NEW t \in Sockets, R.wsIndex[t] # None
        PROVE  /\ R.peerIndex[R.wsIndex[t]].ws = t
               /\ R.seat[R.peerIndex[R.wsIndex[t]].roomId][R.wsIndex[t]].ws = t
    <3>1. CASE t = s
      <4>1. R.wsIndex[t] = p /\ R.peerIndex[p].roomId = r /\ R.peerIndex[p].ws = t
        BY <1>5, <3>1
      <4>2. QED
        BY <1>5, <3>1, <4>1
    <3>2. CASE t # s
      <4>1. R.wsIndex[t] = S.wsIndex[t] /\ S.wsIndex[t] \in Peers /\ S.wsIndex[t] # p
        BY <1>1, <1>4, <2>2, <3>2 DEF Server
      <4>2. /\ S.peerIndex[S.wsIndex[t]].ws = t
            /\ S.seat[S.peerIndex[S.wsIndex[t]].roomId][S.wsIndex[t]].ws = t
            /\ S.peerIndex[S.wsIndex[t]].roomId \in RoomIds
        BY <2>2, <4>1, IndexedSocket
      <4>4. /\ R.peerIndex[S.wsIndex[t]] = S.peerIndex[S.wsIndex[t]]
            /\ R.seat[S.peerIndex[S.wsIndex[t]].roomId][S.wsIndex[t]]
                 = S.seat[S.peerIndex[S.wsIndex[t]].roomId][S.wsIndex[t]]
        BY <1>1, <4>1, <4>2
      <4>5. QED
        BY <4>1, <4>2, <4>4
    <3>3. QED
      BY <3>1, <3>2
  <2>3. QED
    BY <2>1, <2>2 DEF NothingElseIndexed
<1>9. SeatsClaimed(R)
  <2>1. ASSUME NEW t \in Sockets, R.wsIndex[t] # None
        PROVE  <<t, R.peerIndex[R.wsIndex[t]].roomId, R.wsIndex[t]>> \in Claims
    <3>1. CASE t = s
      BY <1>5, <3>1
    <3>2. CASE t # s
      <4>1. R.wsIndex[t] = S.wsIndex[t] /\ S.wsIndex[t] \in Peers /\ S.wsIndex[t] # p
        BY <1>1, <1>4, <2>1, <3>2 DEF Server
      <4>2. QED
        BY <1>6, <2>1, <4>1 DEF Aligned, SeatsClaimed
    <3>3. QED
      BY <3>1, <3>2
  <2>2. ASSUME NEW x \in RoomIds, NEW y \in R.peers[x]
        PROVE  \E t \in Sockets : <<t, x, y>> \in Claims
    <3>1. CASE x = r /\ y = p
      BY <3>1
    <3>2. CASE ~(x = r /\ y = p)
      <4>1. y \in S.peers[x]
        BY <1>p, <3>2
      <4>2. QED
        BY <4>1 DEF Aligned, SeatsClaimed
    <3>3. QED
      BY <3>1, <3>2
  <2>3. QED
    BY <2>1, <2>2 DEF SeatsClaimed
<1>10. OneEntryPerSocket(R)
  BY <1>5, <1>6 DEF Aligned, OneEntryPerSocket
<1>11. QED
  BY <1>7, <1>8, <1>9, <1>10 DEF Aligned

------------------------------------------------------------------------------
(* SeatsInv as a predicate of the maps S and of the set L of sockets that     *)
(* have not had their close event                                             *)

IndexedOn(S, L) == \A p \in Peers : S.peerIndex[p].ws \in L => S.wsIndex[S.peerIndex[p].ws] = p

SeatsLiveOn(S, L) ==
    \A r \in RoomIds : \A p \in S.peers[r] :
       /\ S.seat[r][p].timer <=> S.seat[r][p].ws = None
       /\ S.seat[r][p].ws # None => S.seat[r][p].ws \in L

MapsInv(S, L) == RoomsAgree(S) /\ Aligned(S) /\ IndexedOn(S, L) /\ SeatsLiveOn(S, L)

LEMMA OnLeaveInv ==
    ASSUME NEW S \in Server, NEW L \in SUBSET Sockets, MapsInv(S, L),
           NEW r \in RoomIds, NEW p \in S.peers[r]
    PROVE  MapsInv(OnLeave(S, r, p), L)
<1> SUFFICES ASSUME NEW R, R = OnLeave(S, r, p)
             PROVE  MapsInv(R, L)
  OBVIOUS
<1>0. r \in S.rooms /\ p \in Peers
  BY DEF MapsInv, RoomsAgree, Server
<1>1. LeaveEffect(S, R, r, p)
  BY <1>0, OnLeaveFields
<1>2. Aligned(R)
  BY <1>0, OnLeaveAligned DEF MapsInv
<1>3. RoomsAgree(R)
  <2>1. /\ R.rooms = IF S.peers[r] \subseteq {p} THEN S.rooms \ {r} ELSE S.rooms
        /\ \A x \in RoomIds : R.peers[x] = IF x = r THEN S.peers[x] \ {p} ELSE S.peers[x]
    BY <1>1 DEF LeaveEffect
  <2>2. \A x \in RoomIds : x \in S.rooms <=> S.peers[x] # {}
    BY DEF MapsInv, RoomsAgree
  <2>3. S.peers[r] \subseteq {p} <=> S.peers[r] \ {p} = {}
    OBVIOUS
  <2>4. r \in R.rooms <=> R.peers[r] # {}
    BY <1>0, <2>1, <2>3
  <2>5. \A x \in RoomIds : x # r => (x \in R.rooms <=> R.peers[x] # {})
    BY <2>1, <2>2
  <2>6. QED
    BY <2>4, <2>5 DEF RoomsAgree
<1>4. IndexedOn(R, L)
  <2> SUFFICES ASSUME NEW y \in Peers, R.peerIndex[y].ws \in L
               PROVE  R.wsIndex[R.peerIndex[y].ws] = y
    BY DEF IndexedOn
  <2>1. R.peerIndex[y].ws \in Sockets
    OBVIOUS
  <2>2. y # p
    BY <1>1, <2>1, SignalingAssumption DEF LeaveEffect, NoEntry
  <2>3. R.peerIndex[y] = S.peerIndex[y] /\ S.wsIndex[S.peerIndex[y].ws] = y
    BY <1>1, <2>2 DEF LeaveEffect, MapsInv, IndexedOn
  <2>4. S.peerIndex[y].ws # S.peerIndex[p].ws
    BY <1>0, <2>1, <2>2, <2>3, SignalingAssumption DEF MapsInv, Aligned, OneEntryPerSocket
  <2>5. QED
    BY <1>1, <2>1, <2>3, <2>4 DEF LeaveEffect
<1>5. SeatsLiveOn(R, L)
  <2> SUFFICES ASSUME NEW x \in RoomIds, NEW y \in R.peers[x]
               PROVE  /\ R.seat[x][y].timer <=> R.seat[x][y].ws = None
                      /\ R.seat[x][y].ws # None => R.seat[x][y].ws \in L
    BY DEF SeatsLiveOn
  <2>1. y \in S.peers[x] /\ y \in Peers /\ ~(x = r /\ y = p)
    BY <1>1 DEF LeaveEffect, Server
  <2>2. R.seat[x][y] = S.seat[x][y]
    BY <1>1, <2>1 DEF LeaveEffect
  <2>3. QED
    BY <2>1, <2>2 DEF MapsInv, SeatsLiveOn
<1>6. QED
  BY <1>2, <1>3, <1>4, <1>5 DEF MapsInv

\* A close event: the seat over the socket, if there is one, is held.
LEMMA OnDisconnectInv ==
    ASSUME NEW S \in Server, NEW L \in SUBSET Sockets, MapsInv(S, L), NEW s \in Sockets
    PROVE  MapsInv(OnDisconnect(S, s), L \ {s})
<1> SUFFICES ASSUME NEW R, R = OnDisconnect(S, s)
             PROVE  MapsInv(R, L \ {s})
  OBVIOUS
<1> DEFINE p == S.wsIndex[s]
           r == S.peerIndex[p].roomId
<1>0. \A x \in RoomIds : S.peers[x] \subseteq Peers
  BY DEF Server
<1>1. CASE p = None
  <2>1. R = S
    BY <1>1 DEF OnDisconnect
  <2>2. ASSUME NEW x \in RoomIds, NEW y \in S.peers[x]
        PROVE  S.seat[x][y].ws # s
    BY <1>0, <1>1, SignalingAssumption DEF MapsInv, Aligned, SeatsIndexed
  <2>3. QED
    BY <2>1, <2>2 DEF MapsInv, IndexedOn, SeatsLiveOn
<1>2. CASE p # None
  <2>1. /\ p \in Peers /\ S.peerIndex[p].ws = s /\ S.seat[r][p].ws = s
    BY <1>2, IndexedSocket DEF MapsInv
  <2>2. r \in RoomIds /\ p \in S.peers[r]
    BY <1>2, IndexedSocket DEF MapsInv
  <2>3. r \in S.rooms
    BY <2>2 DEF MapsInv, RoomsAgree
  <2>4. R = HoldSeat(S, r, p)
    BY <1>2, <2>1 DEF OnDisconnect
  <2>5. Aligned(R)
    BY <2>1, <2>2, <2>3, <2>4, HoldSeatAligned, SignalingAssumption DEF MapsInv
  <2>6. HoldEffect(S, R, r, p)
    BY <2>2, <2>3, <2>4, HoldSeatFields
  <2> HIDE DEF p, r
  <2>7. RoomsAgree(R)
    BY <2>6 DEF HoldEffect, MapsInv, RoomsAgree
  <2>8. IndexedOn(R, L \ {s})
    BY <2>1, <2>6 DEF HoldEffect, MapsInv, IndexedOn
  <2>9. SeatsLiveOn(R, L \ {s})
    <3> SUFFICES ASSUME NEW x \in RoomIds, NEW y \in S.peers[x]
                 PROVE  /\ R.seat[x][y].timer <=> R.seat[x][y].ws = None
                        /\ R.seat[x][y].ws # None => R.seat[x][y].ws \in L \ {s}
      BY <2>6 DEF SeatsLiveOn, HoldEffect
    <3>1. CASE x = r /\ y = p
      BY <2>1, <2>6, <3>1 DEF HoldEffect
    <3>2. CASE ~(x = r /\ y = p)
      <4>1. R.seat[x][y].ws = S.seat[x][y].ws /\ R.seat[x][y].timer = S.seat[x][y].timer
        BY <1>0, <2>6, <3>2 DEF HoldEffect
      <4>2. S.seat[x][y].ws # s
        <5>1. ASSUME S.seat[x][y].ws = s PROVE FALSE
          <6>1. S.wsIndex[s] = y /\ S.peerIndex[y].roomId = x
            BY <5>1, SignalingAssumption DEF MapsInv, Aligned, SeatsIndexed
          <6>2. QED
            BY <3>2, <6>1 DEF p, r
        <5>2. QED
          BY <5>1
      <4>3. QED
        BY <4>1, <4>2 DEF MapsInv, SeatsLiveOn
    <3>3. QED
      BY <3>1, <3>2
  <2>10. QED
    BY <2>5, <2>7, <2>8, <2>9 DEF MapsInv
<1>3. QED
  BY <1>1, <1>2

\* What the first half of onJoin leaves behind: the target room is in the Map,
\* perhaps still empty, and the socket speaks for nobody but the joiner.
ReadyToJoin(S, L, s, r, p) ==
    /\ r \in S.rooms
    /\ \A x \in RoomIds : x # r => (x \in S.rooms <=> S.peers[x] # {})
    /\ Aligned(S)
    /\ IndexedOn(S, L)
    /\ SeatsLiveOn(S, L)
    /\ S.wsIndex[s] \in {None, p}

LEMMA BeforeJoinInv ==
    ASSUME NEW S \in Server, NEW L \in SUBSET Sockets, MapsInv(S, L), ClaimsAreSeparate,
           NEW s \in L, NEW r \in RoomIds, NEW p \in Peers, <<s, r, p>> \in Claims
    PROVE  ReadyToJoin(BeforeJoin(S, s, r, p), L, s, r, p)
<1> DEFINE S0 == [S EXCEPT !.rooms = @ \cup {r}]
           q == S.wsIndex[s]
<1>1. /\ S0 \in Server
      /\ S0.rooms = S.rooms \cup {r}
      /\ S0.peers = S.peers /\ S0.seat = S.seat
      /\ S0.peerIndex = S.peerIndex /\ S0.wsIndex = S.wsIndex
  BY DEF Server
<1>2. Aligned(S0)
  BY <1>1, SameAligned DEF MapsInv
<1>3. IndexedOn(S0, L) /\ SeatsLiveOn(S0, L)
  BY <1>1 DEF MapsInv, IndexedOn, SeatsLiveOn
<1> HIDE DEF S0
<1>4. CASE ~PriorId(S, s, p)
  <2>1. BeforeJoin(S, s, r, p) = S0
    BY <1>4 DEF BeforeJoin, S0
  <2>2. S0.wsIndex[s] \in {None, p}
    BY <1>1, <1>4 DEF PriorId
  <2>3. r \in S0.rooms /\ \A x \in RoomIds : x # r => (x \in S0.rooms <=> S0.peers[x] # {})
    BY <1>1 DEF MapsInv, RoomsAgree
  <2>4. QED
    BY <1>2, <1>3, <2>1, <2>2, <2>3 DEF ReadyToJoin
<1>5. CASE PriorId(S, s, p)
  <2>1. q \in Peers /\ q # p /\ q # None
    BY <1>5 DEF PriorId, Server
  <2>2. S.peerIndex[q].ws = s
    BY <2>1 DEF MapsInv, Aligned, NothingElseIndexed
  <2>3. S.peerIndex[q] # NoEntry
    BY <2>2, SignalingAssumption DEF NoEntry
  <2> DEFINE x0 == S.peerIndex[q].roomId
  <2>4. x0 \in RoomIds /\ q \in S.peers[x0]
    BY <2>1, <2>3 DEF MapsInv, Aligned, NothingElseIndexed
  <2>5. <<s, x0, q>> \in Claims
    BY <2>1 DEF MapsInv, Aligned, SeatsClaimed
  <2>6. x0 # r
    BY <2>1, <2>5 DEF ClaimsAreSeparate
  <2>7. BeforeJoin(S, s, r, p) = OnLeave(S0, x0, q)
    BY <1>5, <2>3 DEF BeforeJoin, PriorRoom, S0
  <2>8. x0 \in S0.rooms /\ q \in S0.peers[x0]
    BY <1>1, <2>4 DEF MapsInv, RoomsAgree
  <2> DEFINE R == OnLeave(S0, x0, q)
  <2>9. LeaveEffect(S0, R, x0, q)
    BY <1>1, <2>1, <2>8, OnLeaveFields
  <2>10. Aligned(R)
    BY <1>1, <1>2, <2>8, OnLeaveAligned
  <2> HIDE DEF R, q, x0
  <2>11. R.wsIndex[s] = None
    BY <1>1, <2>2, <2>9 DEF LeaveEffect
  <2>12. /\ R.rooms = IF S0.peers[x0] \subseteq {q} THEN S0.rooms \ {x0} ELSE S0.rooms
         /\ \A x \in RoomIds : R.peers[x] = IF x = x0 THEN S0.peers[x] \ {q} ELSE S0.peers[x]
    BY <2>9 DEF LeaveEffect
  <2>13. r \in R.rooms
    BY <1>1, <2>6, <2>12
  <2>14. ASSUME NEW x \in RoomIds, x # r PROVE x \in R.rooms <=> R.peers[x] # {}
    <3>1. x \in S0.rooms <=> S0.peers[x] # {}
      BY <1>1, <2>14 DEF MapsInv, RoomsAgree
    <3>2. CASE x # x0
      BY <2>12, <3>1, <3>2
    <3>3. CASE x = x0
      BY <2>8, <2>12, <3>3
    <3>4. QED
      BY <3>2, <3>3
  <2>15. IndexedOn(R, L)
    <3> SUFFICES ASSUME NEW y \in Peers, R.peerIndex[y].ws \in L
                 PROVE  R.wsIndex[R.peerIndex[y].ws] = y
      BY DEF IndexedOn
    <3>1. R.peerIndex[y].ws \in Sockets
      OBVIOUS
    <3>2. y # q
      BY <2>9, <3>1, SignalingAssumption DEF LeaveEffect, NoEntry
    <3>3. R.peerIndex[y] = S0.peerIndex[y]
      BY <2>9, <3>2 DEF LeaveEffect
    <3>4. S0.wsIndex[S0.peerIndex[y].ws] = y
      BY <1>3, <3>3 DEF IndexedOn
    <3>5. S0.peerIndex[y].ws # S0.peerIndex[q].ws
      BY <1>2, <2>1, <3>1, <3>2, <3>3, SignalingAssumption DEF Aligned, OneEntryPerSocket
    <3>6. QED
      BY <2>9, <3>1, <3>3, <3>4, <3>5 DEF LeaveEffect
  <2>16. SeatsLiveOn(R, L)
    <3> SUFFICES ASSUME NEW x \in RoomIds, NEW y \in R.peers[x]
                 PROVE  /\ R.seat[x][y].timer <=> R.seat[x][y].ws = None
                        /\ R.seat[x][y].ws # None => R.seat[x][y].ws \in L
      BY DEF SeatsLiveOn
    <3>1. y \in S0.peers[x] /\ y \in Peers /\ ~(x = x0 /\ y = q)
      BY <1>1, <2>12 DEF Server
    <3>2. R.seat[x][y] = S0.seat[x][y]
      BY <2>9, <3>1 DEF LeaveEffect
    <3>3. QED
      BY <1>3, <3>1, <3>2 DEF SeatsLiveOn
  <2>17. QED
    BY <2>7, <2>10, <2>11, <2>13, <2>14, <2>15, <2>16 DEF ReadyToJoin, R
<1>6. QED
  BY <1>4, <1>5

\* On a socket that is ready to join no other peer is indexed.
LEMMA ReadySocket ==
    ASSUME NEW S, NEW L, NEW s \in L, NEW r, NEW p, ReadyToJoin(S, L, s, r, p),
           NEW y \in Peers, S.peerIndex[y].ws = s
    PROVE  y = p
BY SignalingAssumption DEF ReadyToJoin, IndexedOn

LEMMA ResumeInv ==
    ASSUME NEW S \in Server, NEW L \in SUBSET Sockets, NEW s \in L, NEW r \in RoomIds,
           NEW p \in S.peers[r], ReadyToJoin(S, L, s, r, p), <<s, r, p>> \in Claims
    PROVE  MapsInv(Resume(S, s, r, p), L)
<1> SUFFICES ASSUME NEW R, R = Resume(S, s, r, p)
             PROVE  MapsInv(R, L)
  OBVIOUS
<1>0. p \in Peers /\ \A x \in RoomIds : S.peers[x] \subseteq Peers
  BY DEF Server
<1>1. ResumeEffect(S, R, s, r, p)
  BY <1>0, ResumeFields
<1>2. \A y \in Peers : S.peerIndex[y].ws = s => y = p
  BY ReadySocket
<1>3. Aligned(R)
  BY <1>2, ResumeAligned DEF ReadyToJoin
<1>4. RoomsAgree(R)
  BY <1>1 DEF ResumeEffect, ReadyToJoin, RoomsAgree
<1>5. IndexedOn(R, L)
  <2> SUFFICES ASSUME NEW y \in Peers, R.peerIndex[y].ws \in L
               PROVE  R.wsIndex[R.peerIndex[y].ws] = y
    BY DEF IndexedOn
  <2>1. CASE y = p
    BY <1>0, <1>1, <2>1 DEF ResumeEffect
  <2>2. CASE y # p
    <3>1. R.peerIndex[y] = S.peerIndex[y] /\ S.wsIndex[S.peerIndex[y].ws] = y
      BY <1>1, <2>2 DEF ResumeEffect, ReadyToJoin, IndexedOn
    <3>2. S.peerIndex[y].ws # s
      BY <1>2, <2>2
    <3>3. S.peerIndex[y].ws # S.seat[r][p].ws
      <4>1. S.seat[r][p].ws \in Sockets => S.wsIndex[S.seat[r][p].ws] = p
        BY SignalingAssumption DEF ReadyToJoin, Aligned, SeatsIndexed
      <4>2. QED
        BY <2>2, <3>1, <4>1
    <3>4. QED
      BY <1>1, <3>1, <3>2, <3>3 DEF ResumeEffect
  <2>3. QED
    BY <2>1, <2>2
<1>6. SeatsLiveOn(R, L)
  <2> SUFFICES ASSUME NEW x \in RoomIds, NEW y \in S.peers[x]
               PROVE  /\ R.seat[x][y].timer <=> R.seat[x][y].ws = None
                      /\ R.seat[x][y].ws # None => R.seat[x][y].ws \in L
    BY <1>1 DEF SeatsLiveOn, ResumeEffect
  <2>1. CASE x = r /\ y = p
    BY <1>0, <1>1, <2>1, SignalingAssumption DEF ResumeEffect
  <2>2. CASE ~(x = r /\ y = p)
    <3>1. R.seat[x][y].ws = S.seat[x][y].ws /\ R.seat[x][y].timer = S.seat[x][y].timer
      BY <1>0, <1>1, <2>2 DEF ResumeEffect
    <3>2. QED
      BY <3>1 DEF ReadyToJoin, SeatsLiveOn
  <2>3. QED
    BY <2>1, <2>2
<1>7. QED
  BY <1>3, <1>4, <1>5, <1>6 DEF MapsInv

LEMMA EnterInv ==
    ASSUME NEW S \in Server, NEW L \in SUBSET Sockets, NEW s \in L, NEW r \in RoomIds,
           NEW p \in Peers, p \notin S.peers[r], ReadyToJoin(S, L, s, r, p),
           <<s, r, p>> \in Claims, ClaimsAreSeparate
    PROVE  MapsInv(Enter(S, s, r, p), L)
<1> SUFFICES ASSUME NEW R, R = Enter(S, s, r, p)
             PROVE  MapsInv(R, L)
  OBVIOUS
<1>0. r \in S.rooms /\ \A x \in RoomIds : S.peers[x] \subseteq Peers
  BY DEF ReadyToJoin, Server
<1>1. EnterEffect(S, R, s, r, p)
  BY <1>0, EnterFields
<1>2. \A y \in Peers : S.peerIndex[y].ws = s => y = p
  BY ReadySocket
<1>3. Aligned(R)
  BY <1>0, <1>2, EnterAligned DEF ReadyToJoin
<1>4. RoomsAgree(R)
  BY <1>1 DEF EnterEffect, ReadyToJoin, RoomsAgree
<1>5. IndexedOn(R, L)
  <2> SUFFICES ASSUME NEW y \in Peers, R.peerIndex[y].ws \in L
               PROVE  R.wsIndex[R.peerIndex[y].ws] = y
    BY DEF IndexedOn
  <2>1. CASE y = p
    BY <1>1, <2>1 DEF EnterEffect
  <2>2. CASE y # p
    <3>1. R.peerIndex[y] = S.peerIndex[y] /\ S.wsIndex[S.peerIndex[y].ws] = y
      BY <1>1, <2>2 DEF EnterEffect, ReadyToJoin, IndexedOn
    <3>2. S.peerIndex[y].ws # s
      BY <1>2, <2>2
    <3>3. QED
      BY <1>1, <3>1, <3>2 DEF EnterEffect
  <2>3. QED
    BY <2>1, <2>2
<1>6. SeatsLiveOn(R, L)
  <2> SUFFICES ASSUME NEW x \in RoomIds, NEW y \in R.peers[x]
               PROVE  /\ R.seat[x][y].timer <=> R.seat[x][y].ws = None
                      /\ R.seat[x][y].ws # None => R.seat[x][y].ws \in L
    BY DEF SeatsLiveOn
  <2>1. CASE x = r /\ y = p
    BY <1>1, <2>1, SignalingAssumption DEF EnterEffect, NewSeat
  <2>2. CASE ~(x = r /\ y = p)
    <3>0. R.peers[x] = IF x = r THEN S.peers[x] \cup {p} ELSE S.peers[x]
      BY <1>1 DEF EnterEffect
    <3>1. y \in S.peers[x] /\ y \in Peers
      BY <1>0, <2>2, <3>0
    <3>2. R.seat[x][y] = S.seat[x][y]
      BY <1>1, <2>2, <3>1 DEF EnterEffect
    <3>3. QED
      BY <3>1, <3>2 DEF ReadyToJoin, SeatsLiveOn
  <2>3. QED
    BY <2>1, <2>2
<1>7. QED
  BY <1>3, <1>4, <1>5, <1>6 DEF MapsInv

------------------------------------------------------------------------------
(* SeatsInv is inductive *)

\* The sockets that have not had their close event.
Unclosed == {s \in Sockets : sock[s] # "idle"}

LEMMA SeatsInvServing ==
    ASSUME TypeOK
    PROVE  SeatsInv <=> /\ serving => MapsInv(srv, Unclosed)
                        /\ ~serving => \A r \in RoomIds : srv.peers[r] = {}
<1>1. srv \in Server /\ \A r \in RoomIds : srv.peers[r] \subseteq Peers
  BY DEF TypeOK, Server
<1>2. \A r \in RoomIds, p \in Peers : srv.seat[r][p].ws \in Sockets \cup {None}
  BY <1>1, SeatSocket
<1>3. NoGhostSeat <=> SeatsLiveOn(srv, Unclosed)
  BY <1>1, <1>2 DEF NoGhostSeat, SeatsLiveOn, Unclosed
<1>4. IndexedUntilClosed <=> IndexedOn(srv, Unclosed)
  <2>1. \A p \in Peers : srv.peerIndex[p].ws \in Sockets \cup {None}
    BY <1>1 DEF Server, Entry
  <2>2. QED
    BY <2>1, SignalingAssumption DEF IndexedUntilClosed, IndexedOn, Unclosed
<1>5. (\A r \in RoomIds : srv.peers[r] = {}) => SeatsLiveOn(srv, Unclosed)
  BY DEF SeatsLiveOn
<1>6. QED
  BY <1>3, <1>4, <1>5 DEF SeatsInv, MapsInv

LEMMA SeatsInvServingNext ==
    ASSUME TypeOK'
    PROVE  SeatsInv' <=> /\ serving' => MapsInv(srv', Unclosed')
                         /\ ~serving' => \A r \in RoomIds : srv'.peers[r] = {}
<1>1. srv' \in Server /\ \A r \in RoomIds : srv'.peers[r] \subseteq Peers
  BY DEF TypeOK, Server
<1>2. \A r \in RoomIds, p \in Peers : srv'.seat[r][p].ws \in Sockets \cup {None}
  BY <1>1, SeatSocket
<1>3. NoGhostSeat' <=> SeatsLiveOn(srv', Unclosed')
  BY <1>1, <1>2 DEF NoGhostSeat, SeatsLiveOn, Unclosed
<1>4. IndexedUntilClosed' <=> IndexedOn(srv', Unclosed')
  <2>1. \A p \in Peers : srv'.peerIndex[p].ws \in Sockets \cup {None}
    BY <1>1 DEF Server, Entry
  <2>2. QED
    BY <2>1, SignalingAssumption DEF IndexedUntilClosed, IndexedOn, Unclosed
<1>5. (\A r \in RoomIds : srv'.peers[r] = {}) => SeatsLiveOn(srv', Unclosed')
  BY DEF SeatsLiveOn
<1>6. QED
  BY <1>3, <1>4, <1>5 DEF SeatsInv, MapsInv

LEMMA JoinSeatsInv ==
    ASSUME TypeOK, TypeOK', SeatsInv, ClaimsAreSeparate,
           NEW s \in Sockets, NEW r \in RoomIds, NEW p \in Peers, Join(s, r, p)
    PROVE  SeatsInv'
<1> DEFINE S == BeforeJoin(srv, s, r, p)
<1>1. serving /\ serving' /\ sock[s] = "open" /\ <<s, r, p>> \in Claims
  BY DEF Join
<1>2. srv \in Server /\ s \in Unclosed /\ Unclosed \in SUBSET Sockets
  BY <1>1 DEF TypeOK, Unclosed
<1>3. MapsInv(srv, Unclosed)
  BY <1>1, SeatsInvServing
<1>4. S \in Server /\ ReadyToJoin(S, Unclosed, s, r, p)
  BY <1>1, <1>2, <1>3, BeforeJoinType, BeforeJoinInv
<1> HIDE DEF S
<1>5. Unclosed' = Unclosed
  <2>1. \/ sock' = sock
        \/ sock' = Terminate(S.seat[r][p].ws)
    BY DEF Join, S
  <2>2. ASSUME NEW w, sock' = Terminate(w) PROVE Unclosed' = Unclosed
    BY <2>2 DEF Terminate, Unclosed, TypeOK
  <2>3. ASSUME sock' = sock PROVE Unclosed' = Unclosed
    BY <2>3 DEF Unclosed
  <2>4. QED
    BY <2>1, <2>2, <2>3
<1>6. MapsInv(srv', Unclosed)
  <2>1. CASE p \in S.peers[r]
    <3>1. srv' = Resume(S, s, r, p)
      BY <2>1 DEF Join, S
    <3>2. QED
      BY <1>1, <1>2, <1>4, <2>1, <3>1, ResumeInv
  <2>2. CASE p \notin S.peers[r]
    <3>1. srv' = Enter(S, s, r, p)
      BY <2>2 DEF Join, S
    <3>2. QED
      BY <1>1, <1>2, <1>4, <2>2, <3>1, EnterInv
  <2>3. QED
    BY <2>1, <2>2
<1>7. QED
  BY <1>1, <1>5, <1>6, SeatsInvServingNext

LEMMA LeaveSeatsInv ==
    ASSUME TypeOK, TypeOK', SeatsInv, ClaimsAreSeparate,
           NEW s \in Sockets, NEW r \in RoomIds, NEW p \in Peers, Leave(s, r, p)
    PROVE  SeatsInv'
<1>1. serving /\ serving' /\ sock' = sock /\ <<s, r, p>> \in Claims /\ srv.wsIndex[s] = p
  BY DEF Leave
<1>2. srv \in Server /\ Unclosed \in SUBSET Sockets /\ Unclosed' = Unclosed
  BY <1>1 DEF TypeOK, Unclosed
<1>3. MapsInv(srv, Unclosed)
  BY <1>1, SeatsInvServing
<1>4. p \in srv.peers[r]
  <2>1. p # None
    BY SignalingAssumption
  <2>2. srv.peerIndex[p].ws = s /\ <<s, srv.peerIndex[p].roomId, p>> \in Claims
    BY <1>1, <1>3, <2>1 DEF MapsInv, Aligned, NothingElseIndexed, SeatsClaimed
  <2>3. srv.peerIndex[p].roomId = r
    BY <1>1, <2>2 DEF ClaimsAreSeparate
  <2>4. srv.peerIndex[p] # NoEntry
    BY <2>2, SignalingAssumption DEF NoEntry
  <2>5. QED
    BY <1>3, <2>3, <2>4 DEF MapsInv, Aligned, NothingElseIndexed
<1>5. srv' = OnLeave(srv, r, p)
  BY DEF Leave
<1>6. MapsInv(srv', Unclosed)
  BY <1>2, <1>3, <1>4, <1>5, OnLeaveInv
<1>7. QED
  BY <1>1, <1>2, <1>6, SeatsInvServingNext

LEMMA CloseSeatsInv ==
    ASSUME TypeOK, TypeOK', SeatsInv, NEW s \in Sockets, Close(s)
    PROVE  SeatsInv'
<1>1. /\ serving' = serving /\ srv' = OnDisconnect(srv, s) /\ srv \in Server
      /\ Unclosed \in SUBSET Sockets
  BY DEF Close, TypeOK, Unclosed
<1>2. Unclosed' = Unclosed \ {s}
  BY DEF Close, TypeOK, Unclosed
<1>3. CASE serving
  <2>1. MapsInv(srv, Unclosed)
    BY <1>3, SeatsInvServing
  <2>2. MapsInv(srv', Unclosed')
    BY <1>1, <1>2, <2>1, OnDisconnectInv
  <2>3. QED
    BY <1>1, <1>3, <2>2, SeatsInvServingNext
<1>4. CASE ~serving
  <2>1. \A r \in RoomIds : srv.peers[r] = {}
    BY <1>4, SeatsInvServing
  <2>2. srv' = srv
    <3>1. \A r, p : HoldSeat(srv, r, p) = srv \/ (r \in RoomIds /\ p \in srv.peers[r])
      BY <1>1 DEF HoldSeat, Server
    <3>2. QED
      BY <1>1, <2>1, <3>1 DEF OnDisconnect
  <2>3. QED
    BY <1>1, <1>4, <2>1, <2>2, SeatsInvServingNext
<1>5. QED
  BY <1>3, <1>4

LEMMA PostSeatsInv ==
    ASSUME TypeOK, TypeOK', SeatsInv,
           NEW s \in Sockets, NEW r \in RoomIds, NEW p \in Peers,
           NEW to \in Peers \cup {None},
           RelayData(s, r, p, to) \/ Relay(s, r, p, to)
    PROVE  SeatsInv'
<1>1. serving /\ serving' = serving /\ Unclosed' = Unclosed /\ srv \in Server
  BY DEF RelayData, Relay, Accepts, Unclosed, TypeOK
<1>2. PICK b \in BOOLEAN : srv' = Post(srv, r, Addressees(r, p, to), sent + 1, b)
  BY DEF RelayData, Relay
<1>3. ASSUME NEW seat \in Seat, NEW m
      PROVE  Deliver(seat, m, b).ws = seat.ws /\ Deliver(seat, m, b).timer = seat.timer
  BY DEF Deliver, Seat
<1>4. \A x \in RoomIds, y \in Peers : srv.seat[x][y] \in Seat
  BY <1>1 DEF Server
<1>5. \A x \in RoomIds, y \in Peers :
         \/ srv'.seat[x][y] = srv.seat[x][y]
         \/ srv'.seat[x][y] = Deliver(srv.seat[x][y], sent + 1, b)
  BY <1>1, <1>2 DEF Post, Server
<1>6. \A x \in RoomIds, y \in Peers :
         srv'.seat[x][y].ws = srv.seat[x][y].ws /\ srv'.seat[x][y].timer = srv.seat[x][y].timer
  BY <1>3, <1>4, <1>5
<1>7. /\ srv'.rooms = srv.rooms /\ srv'.peers = srv.peers
      /\ srv'.peerIndex = srv.peerIndex /\ srv'.wsIndex = srv.wsIndex
  BY <1>1, <1>2 DEF Post, Server
<1>8. MapsInv(srv, Unclosed)
  BY <1>1, SeatsInvServing
<1>9. Aligned(srv')
  BY <1>1, <1>6, <1>7, <1>8, SameAligned DEF MapsInv
<1>10. RoomsAgree(srv') /\ IndexedOn(srv', Unclosed)
  BY <1>7, <1>8 DEF MapsInv, RoomsAgree, IndexedOn
<1>11. SeatsLiveOn(srv', Unclosed)
  <2>1. \A x \in RoomIds : srv.peers[x] \subseteq Peers
    BY <1>1 DEF Server
  <2>2. QED
    BY <1>6, <1>7, <1>8, <2>1 DEF MapsInv, SeatsLiveOn
<1>12. QED
  BY <1>1, <1>9, <1>10, <1>11, SeatsInvServingNext DEF MapsInv

LEMMA GraceExpireSeatsInv ==
    ASSUME TypeOK, TypeOK', SeatsInv, NEW r \in RoomIds, NEW p \in Peers, GraceExpire(r, p)
    PROVE  SeatsInv'
<1> DEFINE S == [srv EXCEPT !.seat[r][p].timer = FALSE]
<1>1. /\ serving /\ serving' = serving /\ Unclosed' = Unclosed /\ srv \in Server
      /\ Unclosed \in SUBSET Sockets /\ p \in srv.peers[r]
  BY DEF GraceExpire, Unclosed, TypeOK
<1>2. MapsInv(srv, Unclosed)
  BY <1>1, SeatsInvServing
<1>3. srv.seat[r][p].ws = None
  BY <1>1, <1>2 DEF GraceExpire, MapsInv, SeatsLiveOn
<1> DEFINE new == [srv.seat[r][p] EXCEPT !.timer = FALSE]
<1>4. /\ S.rooms = srv.rooms /\ S.peers = srv.peers
      /\ S.peerIndex = srv.peerIndex /\ S.wsIndex = srv.wsIndex
      /\ S.seat = [srv.seat EXCEPT ![r][p] = new]
  BY <1>1 DEF Server
<1>5. S.seat[r][p].ws = None
  <2>1. srv.seat[r][p] \in Seat
    BY <1>1 DEF Server
  <2>2. new.ws = None
    BY <1>3, <2>1 DEF Seat
  <2> HIDE DEF new, S
  <2>3. S.seat[r][p] = new
    BY <1>1, <1>4 DEF Server
  <2>4. QED
    BY <2>2, <2>3
<1>6. [S.seat EXCEPT ![r][p] = NoSeat] = [srv.seat EXCEPT ![r][p] = NoSeat]
  <2> HIDE DEF new, S
  <2>1. QED
    BY <1>1, <1>4 DEF Server
<1>7. srv' = OnLeave(S, r, p)
  BY <1>5 DEF GraceExpire
<1> HIDE DEF new, S
<1>8. OnLeave(S, r, p) = OnLeave(srv, r, p)
  <2>1. r \in srv.rooms
    BY <1>1, <1>2 DEF MapsInv, RoomsAgree
  <2>2. QED
    BY <1>4, <1>6, <2>1 DEF OnLeave
<1>9. MapsInv(srv', Unclosed)
  BY <1>1, <1>2, <1>7, <1>8, OnLeaveInv
<1>10. QED
  BY <1>1, <1>9, SeatsInvServingNext

LEMMA SocketsSeatsInv ==
    ASSUME TypeOK, TypeOK', SeatsInv,
           Heartbeat \/ \E s \in Sockets : OnConnect(s) \/ Pong(s) \/ ClientClose(s) \/ Vanish(s)
    PROVE  SeatsInv'
<1>1. srv' = srv /\ serving' = serving /\ Unclosed \in SUBSET Sockets
  BY DEF Heartbeat, OnConnect, Pong, ClientClose, Vanish, Unclosed
<1>2. CASE \E s \in Sockets : OnConnect(s)
  <2>1. PICK s \in Sockets : OnConnect(s)
    BY <1>2
  <2>2. Unclosed' = Unclosed \cup {s} /\ serving /\ Unreferenced(s)
    BY <2>1 DEF OnConnect, Unclosed, TypeOK
  <2>3. MapsInv(srv, Unclosed)
    BY <2>2, SeatsInvServing
  <2>4. MapsInv(srv, Unclosed \cup {s})
    BY <2>2, <2>3 DEF MapsInv, IndexedOn, SeatsLiveOn, Unreferenced
  <2>5. QED
    BY <1>1, <2>2, <2>4, SeatsInvServingNext
<1>3. CASE Heartbeat \/ \E s \in Sockets : Pong(s) \/ ClientClose(s) \/ Vanish(s)
  <2>1. \A s \in Sockets : sock'[s] = "idle" <=> sock[s] = "idle"
    BY <1>3 DEF Heartbeat, Pong, ClientClose, Vanish, TypeOK, Writable
  <2>2. Unclosed' = Unclosed
    BY <2>1 DEF Unclosed
  <2>3. QED
    BY <1>1, <2>2, SeatsInvServing, SeatsInvServingNext
<1>4. QED
  BY <1>2, <1>3

LEMMA FreshMapsInv ==
    ASSUME NEW L \in SUBSET Sockets
    PROVE  MapsInv(FreshServer, L)
<1>1. RoomsAgree(FreshServer) /\ SeatsLiveOn(FreshServer, L)
  BY DEF FreshServer, RoomsAgree, SeatsLiveOn
<1>2. IndexedOn(FreshServer, L)
  BY SignalingAssumption DEF FreshServer, IndexedOn, NoEntry
<1>3. Aligned(FreshServer)
  BY DEF FreshServer, Aligned, SeatsIndexed, NothingElseIndexed, SeatsClaimed,
         OneEntryPerSocket, NoEntry
<1>4. QED
  BY <1>1, <1>2, <1>3 DEF MapsInv

LEMMA ProcessSeatsInv ==
    ASSUME TypeOK, TypeOK', SeatsInv, Stop \/ Restart
    PROVE  SeatsInv'
<1>1. CASE Stop
  <2>1. serving' = FALSE /\ \A r \in RoomIds : srv'.peers[r] = {}
    BY <1>1 DEF Stop, TypeOK, Server
  <2>2. QED
    BY <2>1, SeatsInvServingNext
<1>2. CASE Restart
  <2>1. serving' = TRUE /\ srv' = FreshServer /\ Unclosed' \in SUBSET Sockets
    BY <1>2 DEF Restart, Unclosed
  <2>2. QED
    BY <2>1, FreshMapsInv, SeatsInvServingNext
<1>3. QED
  BY <1>1, <1>2

LEMMA InitSeatsInv == Init => SeatsInv
<1> SUFFICES ASSUME Init
             PROVE  SeatsInv
  OBVIOUS
<1>1. TypeOK
  BY InitTypeOK
<1>2. serving /\ srv = FreshServer /\ Unclosed \in SUBSET Sockets
  BY DEF Init, Unclosed
<1>3. MapsInv(srv, Unclosed)
  BY <1>2, FreshMapsInv
<1>4. QED
  BY <1>1, <1>2, <1>3, SeatsInvServing

LEMMA StepSeatsInv ==
    ASSUME ClaimsAreSeparate, TypeOK, TypeOK', SeatsInv, [Next]_vars
    PROVE  SeatsInv'
<1>1. CASE UNCHANGED vars
  <2>1. Unclosed' = Unclosed
    BY <1>1 DEF vars, Unclosed
  <2>2. QED
    BY <1>1, <2>1, SeatsInvServing, SeatsInvServingNext DEF vars
<1>2. CASE Next
  BY <1>2, JoinSeatsInv, LeaveSeatsInv, CloseSeatsInv, PostSeatsInv, GraceExpireSeatsInv,
     SocketsSeatsInv, ProcessSeatsInv DEF Next
<1>3. QED
  BY <1>1, <1>2

\* If the clients keep to one room per peerId and one peerId per room and
\* socket, the rooms, the seats and the two indexes always agree, and no seat is
\* ever left with neither a socket that will still close nor an armed timer.
THEOREM SeatsAlwaysHold ==
    ASSUME ClaimsAreSeparate
    PROVE  Spec => []SeatsInv
<1>1. Init => SeatsInv
  BY InitSeatsInv
<1>2. TypeOK /\ TypeOK' /\ SeatsInv /\ [Next]_vars => SeatsInv'
  BY StepSeatsInv
<1>3. QED
  BY <1>1, <1>2, SignalingTypes, PTL DEF Spec

\* The same of the maps alone: rooms, seats and indexes agree while the server runs.
THEOREM SeatsAlwaysIndexed ==
    ASSUME ClaimsAreSeparate
    PROVE  Spec => []IndexesAgree
<1>1. SeatsInv => IndexesAgree
  BY DEF SeatsInv, IndexesAgree, Aligned
<1>2. QED
  BY <1>1, SeatsAlwaysHold, PTL

\* The same of the seats alone: a held seat has its timer, another one its socket.
THEOREM NoSeatIsAGhost ==
    ASSUME ClaimsAreSeparate
    PROVE  Spec => []NoGhostSeat
<1>1. SeatsInv => NoGhostSeat
  BY DEF SeatsInv
<1>2. QED
  BY <1>1, SeatsAlwaysHold, PTL

------------------------------------------------------------------------------
(* How a seat goes *)

\* What the first half of onJoin does to the seats: at most the seat that this very
\* socket holds under another id goes.
BeforeJoinEffect(S, R, s, p) ==
    \/ /\ ~PriorId(S, s, p)
       /\ R.peers = S.peers /\ R.seat = S.seat
    \/ \E x0 \in RoomIds : \E q \in S.peers[x0] :
          /\ PriorId(S, s, p)
          /\ q # p
          /\ S.seat[x0][q].ws = s
          /\ \A x \in RoomIds : R.peers[x] = IF x = x0 THEN S.peers[x] \ {q} ELSE S.peers[x]
          /\ \A x \in RoomIds, y \in Peers :
                R.seat[x][y] = IF x = x0 /\ y = q THEN NoSeat ELSE S.seat[x][y]

LEMMA BeforeJoinFields ==
    ASSUME NEW S \in Server, NEW L \in SUBSET Sockets, MapsInv(S, L),
           NEW s \in Sockets, NEW r \in RoomIds, NEW p \in Peers
    PROVE  BeforeJoinEffect(S, BeforeJoin(S, s, r, p), s, p)
<1> DEFINE S0 == [S EXCEPT !.rooms = @ \cup {r}]
           q == S.wsIndex[s]
           x0 == S.peerIndex[q].roomId
<1>1. /\ S0 \in Server
      /\ S0.rooms = S.rooms \cup {r}
      /\ S0.peers = S.peers /\ S0.seat = S.seat
  BY DEF Server
<1> HIDE DEF S0
<1>2. CASE ~PriorId(S, s, p)
  BY <1>1, <1>2 DEF BeforeJoin, S0, BeforeJoinEffect
<1>3. CASE PriorId(S, s, p)
  <2>1. q # None /\ q # p
    BY <1>3 DEF PriorId
  <2>2. /\ q \in Peers /\ S.peerIndex[q] # NoEntry /\ x0 \in RoomIds
        /\ q \in S.peers[x0] /\ S.seat[x0][q].ws = s
    BY <2>1, IndexedSocket DEF MapsInv
  <2>3. x0 \in S0.rooms
    BY <1>1, <2>2 DEF MapsInv, RoomsAgree
  <2>4. BeforeJoin(S, s, r, p) = OnLeave(S0, x0, q)
    BY <1>3, <2>2 DEF BeforeJoin, PriorRoom, S0
  <2>5. LeaveEffect(S0, OnLeave(S0, x0, q), x0, q)
    BY <1>1, <2>2, <2>3, OnLeaveFields
  <2> DEFINE R == BeforeJoin(S, s, r, p)
  <2>6. LeaveEffect(S0, R, x0, q)
    BY <2>4, <2>5
  <2> HIDE DEF R, q, x0
  <2>7. /\ \A x \in RoomIds : R.peers[x] = IF x = x0 THEN S.peers[x] \ {q} ELSE S.peers[x]
        /\ \A x \in RoomIds, y \in Peers :
              R.seat[x][y] = IF x = x0 /\ y = q THEN NoSeat ELSE S.seat[x][y]
    BY <1>1, <2>6 DEF LeaveEffect
  <2>8. BeforeJoinEffect(S, R, s, p)
    BY <1>3, <2>1, <2>2, <2>7 DEF BeforeJoinEffect
  <2>9. QED
    BY <2>8 DEF R
<1>4. QED
  BY <1>2, <1>3

\* A join takes no seat from its room but one that its own socket held.
LEMMA JoinTakesOwnSeat ==
    ASSUME TypeOK, SeatsInv, ClaimsAreSeparate,
           NEW s \in Sockets, NEW r \in RoomIds, NEW p \in Peers, Join(s, r, p),
           NEW x \in RoomIds, NEW y \in srv.peers[x] \ srv'.peers[x]
    PROVE  srv.seat[x][y].ws = s
<1> DEFINE S == BeforeJoin(srv, s, r, p)
<1>1. serving /\ sock[s] = "open" /\ <<s, r, p>> \in Claims
  BY DEF Join
<1>2. srv \in Server /\ s \in Unclosed /\ Unclosed \in SUBSET Sockets
  BY <1>1 DEF TypeOK, Unclosed
<1>3. MapsInv(srv, Unclosed)
  BY <1>1, SeatsInvServing
<1>4. S \in Server /\ r \in S.rooms
  BY <1>1, <1>2, <1>3, BeforeJoinType, BeforeJoinInv DEF ReadyToJoin
<1>5. BeforeJoinEffect(srv, S, s, p)
  BY <1>2, <1>3, BeforeJoinFields
<1>6. srv' = Resume(S, s, r, p) \/ srv' = Enter(S, s, r, p)
  BY DEF Join
<1> HIDE DEF S
<1>7. S.peers[x] \subseteq srv'.peers[x]
  <2>1. CASE srv' = Resume(S, s, r, p)
    <3>1. ResumeEffect(S, srv', s, r, p)
      BY <1>4, <2>1, ResumeFields
    <3>2. QED
      BY <3>1 DEF ResumeEffect
  <2>2. CASE srv' = Enter(S, s, r, p)
    <3>1. EnterEffect(S, srv', s, r, p)
      BY <1>4, <2>2, EnterFields
    <3>2. QED
      BY <3>1 DEF EnterEffect
  <2>3. QED
    BY <1>6, <2>1, <2>2
<1>8. y \notin S.peers[x]
  BY <1>7
<1>9. QED
  BY <1>5, <1>8 DEF BeforeJoinEffect

\* A leave takes the seat of the socket it came on.
LEMMA LeaveTakesOwnSeat ==
    ASSUME TypeOK, SeatsInv, ClaimsAreSeparate,
           NEW s \in Sockets, NEW r \in RoomIds, NEW p \in Peers,
           serving, <<s, r, p>> \in Claims, srv.wsIndex[s] = p
    PROVE  p \in srv.peers[r] /\ srv.seat[r][p].ws = s
<1>1. srv \in Server /\ Aligned(srv)
  BY SeatsInvServing DEF TypeOK, MapsInv
<1>2. p # None
  BY SignalingAssumption
<1>3. /\ srv.peerIndex[p].roomId \in RoomIds
      /\ p \in srv.peers[srv.peerIndex[p].roomId]
      /\ srv.seat[srv.peerIndex[p].roomId][p].ws = s
  BY <1>1, <1>2, IndexedSocket
<1>4. <<s, srv.peerIndex[p].roomId, p>> \in Claims
  BY <1>1, <1>2 DEF Aligned, SeatsClaimed
<1>5. srv.peerIndex[p].roomId = r
  BY <1>4 DEF ClaimsAreSeparate
<1>6. QED
  BY <1>3, <1>5

\* Leaving takes one seat from one room.
LEMMA OnLeaveTakesOne ==
    ASSUME NEW S \in Server, NEW r \in RoomIds, NEW p \in Peers,
           NEW x \in RoomIds, NEW y \in S.peers[x] \ OnLeave(S, r, p).peers[x]
    PROVE  x = r /\ y = p
<1>1. r \in S.rooms
  BY DEF OnLeave
<1>2. LeaveEffect(S, OnLeave(S, r, p), r, p)
  BY <1>1, OnLeaveFields
<1>3. QED
  BY <1>2 DEF LeaveEffect

\* A close event takes no seat.
LEMMA OnDisconnectTakesNone ==
    ASSUME NEW S \in Server, NEW s \in Sockets
    PROVE  OnDisconnect(S, s).peers = S.peers
<1>1. CASE OnDisconnect(S, s) = S
  BY <1>1
<1>2. CASE OnDisconnect(S, s) # S
  <2> DEFINE p == S.wsIndex[s]
             r == S.peerIndex[p].roomId
  <2>1. OnDisconnect(S, s) = HoldSeat(S, r, p)
    BY <1>2 DEF OnDisconnect
  <2>2. r \in S.rooms /\ p \in S.peers[r]
    BY <1>2, <2>1 DEF HoldSeat
  <2> HIDE DEF p, r
  <2>3. HoldEffect(S, OnDisconnect(S, s), r, p)
    BY <2>1, <2>2, HoldSeatFields
  <2>4. QED
    BY <2>3 DEF HoldEffect
<1>3. QED
  BY <1>1, <1>2

LEMMA StepTakesSeats ==
    ASSUME ClaimsAreSeparate, TypeOK, SeatsInv, [Next]_vars,
           serving, serving', restarts' = restarts,
           NEW x \in RoomIds, NEW y \in srv.peers[x] \ srv'.peers[x]
    PROVE  LET st == srv.seat[x][y]
           IN  IF st.ws = None THEN st.timer /\ cause' = <<x, y>>
                               ELSE sock[st.ws] = "open" /\ cause' = st.ws
<1>1. srv \in Server /\ None \notin Sockets
  BY SignalingAssumption DEF TypeOK
<1>2. ASSUME NEW s \in Sockets, srv.seat[x][y].ws = s, sock[s] = "open", cause' = s
      PROVE  LET st == srv.seat[x][y]
             IN  IF st.ws = None THEN st.timer /\ cause' = <<x, y>>
                                 ELSE sock[st.ws] = "open" /\ cause' = st.ws
  BY <1>1, <1>2
<1>3. ASSUME NEW s \in Sockets, NEW r \in RoomIds, NEW p \in Peers, Join(s, r, p)
      PROVE  srv.seat[x][y].ws = s /\ sock[s] = "open" /\ cause' = s
  BY <1>3, JoinTakesOwnSeat DEF Join
<1>4. ASSUME NEW s \in Sockets, NEW r \in RoomIds, NEW p \in Peers, Leave(s, r, p)
      PROVE  srv.seat[x][y].ws = s /\ sock[s] = "open" /\ cause' = s
  <2>1. srv' = OnLeave(srv, r, p) /\ <<s, r, p>> \in Claims /\ srv.wsIndex[s] = p
        /\ sock[s] = "open" /\ cause' = s
    BY <1>4 DEF Leave
  <2>2. x = r /\ y = p
    BY <1>1, <2>1, OnLeaveTakesOne
  <2>3. QED
    BY <2>1, <2>2, LeaveTakesOwnSeat
<1>5. ASSUME NEW r \in RoomIds, NEW p \in Peers, GraceExpire(r, p)
      PROVE  srv.seat[x][y].ws = None /\ srv.seat[x][y].timer /\ cause' = <<x, y>>
  <2> DEFINE old == srv.seat[r][p]
             new == [old EXCEPT !.timer = FALSE]
             S == [srv EXCEPT !.seat[r][p] = new]
  <2>1. [srv EXCEPT !.seat[r][p].timer = FALSE] = S
    BY <1>1 DEF Server
  <2>2. old \in Seat /\ old.timer
    BY <1>1, <1>5 DEF GraceExpire, Server
  <2>3. \/ S.seat[r][p].ws = None /\ srv' = OnLeave(S, r, p)
        \/ srv' = S
    BY <1>5, <2>1 DEF GraceExpire
  <2>4. new \in Seat /\ new.ws = old.ws
    <3> HIDE DEF old
    <3> QED
      BY <2>2 DEF Seat
  <2> HIDE DEF new
  <2>5. S \in Server /\ S.peers = srv.peers /\ S.seat[r][p] = new
    BY <1>1, <2>4 DEF Server
  <2> HIDE DEF S
  <2>6. S.seat[r][p].ws = None /\ srv' = OnLeave(S, r, p)
    BY <2>3, <2>5
  <2>7. x = r /\ y = p
    BY <2>5, <2>6, OnLeaveTakesOne
  <2>8. cause' = <<r, p>>
    BY <1>5 DEF GraceExpire
  <2>9. QED
    BY <2>2, <2>4, <2>5, <2>6, <2>7, <2>8
<1>6. ASSUME NEW s \in Sockets, Close(s)
      PROVE  FALSE
  BY <1>1, <1>6, OnDisconnectTakesNone DEF Close
<1>7. ASSUME NEW s \in Sockets, NEW r \in RoomIds, NEW p \in Peers,
             NEW to \in Peers \cup {None},
             RelayData(s, r, p, to) \/ Relay(s, r, p, to)
      PROVE  FALSE
  <2>1. PICK b \in BOOLEAN : srv' = Post(srv, r, Addressees(r, p, to), sent + 1, b)
    BY <1>7 DEF RelayData, Relay
  <2>2. srv'.peers = srv.peers
    BY <1>1, <2>1 DEF Post, Server
  <2>3. QED
    BY <2>2
<1>8. ~Stop
  BY DEF Stop
<1>9. ~Restart
  <2>1. restarts \in Nat
    BY SignalingAssumption DEF TypeOK
  <2>2. QED
    BY <2>1 DEF Restart
<1>10. srv' # srv
  OBVIOUS
<1>11. /\ ~Heartbeat
       /\ ~(UNCHANGED vars)
       /\ \A s \in Sockets : ~(OnConnect(s) \/ Pong(s) \/ ClientClose(s) \/ Vanish(s))
  BY <1>10 DEF Heartbeat, OnConnect, Pong, ClientClose, Vanish, vars
<1>12. CASE \E r \in RoomIds, p \in Peers : GraceExpire(r, p)
  BY <1>5, <1>12
<1>13. CASE \E s \in Sockets : srv.seat[x][y].ws = s /\ sock[s] = "open" /\ cause' = s
  BY <1>2, <1>13
<1>14. QED
  BY <1>3, <1>4, <1>6, <1>7, <1>8, <1>9, <1>11, <1>12, <1>13 DEF Next

\* server.ts:277-278, 302-350: however many rooms, peers and sockets there are, a seat bound
\* to a socket goes only by a join or leave that came on that very socket, and a held seat only
\* by its own grace timer, for clients that keep to one room per peerId: no stranger's leave,
\* no late close event and no timer of a seat resumed since ever takes one.
THEOREM SeatsGoByLeaveOrGrace ==
    ASSUME ClaimsAreSeparate
    PROVE  Spec => GoneOnlyByLeaveOrGrace
<1>1. TypeOK /\ SeatsInv /\ [Next]_vars =>
         [serving /\ serving' /\ restarts' = restarts =>
            \A r \in RoomIds : \A p \in srv.peers[r] \ srv'.peers[r] :
               LET st == srv.seat[r][p]
               IN  IF st.ws = None THEN st.timer /\ cause' = <<r, p>>
                                   ELSE sock[st.ws] = "open" /\ cause' = st.ws]_vars
  BY StepTakesSeats
<1>2. QED
  BY <1>1, SignalingTypes, SeatsAlwaysHold, PTL DEF Spec, GoneOnlyByLeaveOrGrace

------------------------------------------------------------------------------
(* Frames, queues and rosters *)

\* The frames of a seat, with those written before those queued, n being accepted so far.
Ordered(st, n) ==
    /\ \A i \in 1..Len(st.got) : st.got[i] <= n
    /\ \A i \in 1..Len(st.queue) : st.queue[i] <= n
    /\ Increasing(st.got)
    /\ Increasing(st.queue)
    /\ \A i \in 1..Len(st.got) : \A j \in 1..Len(st.queue) : st.got[i] < st.queue[j]

\* The queue is the end of what is owed.
Backlog(st) ==
    /\ Len(st.queue) = IF Len(st.owed) > QueueMax THEN QueueMax ELSE Len(st.owed)
    /\ \A i \in 1..Len(st.queue) : st.queue[i] = st.owed[Len(st.owed) - Len(st.queue) + i]
    /\ st.ws # None => st.owed = <<>>

MapsFrames(S, n) ==
    \A r \in RoomIds : \A p \in Peers :
       Ordered(S.seat[r][p], n) /\ Backlog(S.seat[r][p])

FramesInv == MapsFrames(srv, sent)

------------------------------------------------------------------------------
(* One seat *)

LEMMA NewSeatFrames ==
    ASSUME NEW s, NEW n
    PROVE  Ordered(NewSeat(s), n) /\ Backlog(NewSeat(s))
<1> DEFINE st == NewSeat(s)
<1>1. st.got = <<>> /\ st.queue = <<>> /\ st.owed = <<>>
  BY DEF NewSeat
<1> HIDE DEF st
<1>2. Len(st.got) = 0 /\ Len(st.queue) = 0 /\ Len(st.owed) = 0
  BY <1>1
<1>3. Ordered(st, n)
  BY <1>2 DEF Ordered, Increasing
<1>4. Backlog(st)
  BY <1>1, <1>2, SignalingAssumption DEF Backlog
<1>5. QED
  BY <1>3, <1>4 DEF st

\* What an edit of the seat's socket and timer leaves alone.
LEMMA SameFrames ==
    ASSUME NEW st, NEW x, NEW n, Ordered(st, n), Backlog(st),
           x.got = st.got, x.queue = st.queue, x.owed = st.owed,
           x.ws # None => st.ws # None
    PROVE  Ordered(x, n) /\ Backlog(x)
BY DEF Ordered, Backlog

LEMMA LaterFrames ==
    ASSUME NEW st \in Seat, NEW n \in Nat, Ordered(st, n)
    PROVE  Ordered(st, n + 1)
<1>1. /\ \A i \in 1..Len(st.got) : st.got[i] \in Nat
      /\ \A i \in 1..Len(st.queue) : st.queue[i] \in Nat
  BY SignalingAssumption DEF Seat, Frames
<1>2. QED
  BY <1>1 DEF Ordered

LEMMA Joined ==
    ASSUME NEW st \in Seat, NEW n, Ordered(st, n)
    PROVE  LET all == st.got \o st.queue
           IN  /\ Increasing(all)
               /\ \A i \in 1..Len(all) : all[i] <= n
<1> DEFINE g == st.got
           q == st.queue
           all == g \o q
<1>1. /\ g \in Seq(Frames) /\ q \in Seq(Frames)
      /\ Len(g) \in Nat /\ Len(q) \in Nat
  BY DEF Seat
<1>2. /\ \A i \in 1..Len(g) : g[i] <= n
      /\ \A i \in 1..Len(q) : q[i] <= n
      /\ \A i, j \in 1..Len(g) : i < j => g[i] < g[j]
      /\ \A i, j \in 1..Len(q) : i < j => q[i] < q[j]
      /\ \A i \in 1..Len(g) : \A j \in 1..Len(q) : g[i] < q[j]
  BY DEF Ordered, Increasing
<1> HIDE DEF g, q
<1>3. /\ Len(all) = Len(g) + Len(q)
      /\ \A i \in 1..Len(all) : all[i] = IF i <= Len(g) THEN g[i] ELSE q[i - Len(g)]
  BY <1>1
<1> HIDE DEF all
<1>4. \A i \in 1..Len(all) : i \in 1..Len(g) \/ (i > Len(g) /\ i - Len(g) \in 1..Len(q))
  BY <1>1, <1>3
<1>5. \A i \in 1..Len(all) : all[i] <= n
  BY <1>1, <1>2, <1>3, <1>4
<1>6. ASSUME NEW i \in 1..Len(all), NEW j \in 1..Len(all), i < j
      PROVE  all[i] < all[j]
  <2>1. CASE j \in 1..Len(g)
    <3>1. i \in 1..Len(g)
      BY <1>6, <2>1
    <3>2. all[i] = g[i] /\ all[j] = g[j]
      BY <1>3, <2>1, <3>1
    <3>3. QED
      BY <1>2, <1>6, <2>1, <3>1, <3>2
  <2>2. CASE j > Len(g) /\ j - Len(g) \in 1..Len(q)
    <3>1. all[j] = q[j - Len(g)]
      BY <1>1, <1>3, <2>2
    <3>2. CASE i \in 1..Len(g)
      <4>1. all[i] = g[i]
        BY <1>3, <3>2
      <4>2. QED
        BY <1>2, <2>2, <3>1, <3>2, <4>1
    <3>3. CASE i > Len(g) /\ i - Len(g) \in 1..Len(q)
      <4>1. all[i] = q[i - Len(g)]
        BY <1>1, <1>3, <3>3
      <4>2. i - Len(g) < j - Len(g)
        BY <1>1, <1>6
      <4>3. QED
        BY <1>2, <2>2, <3>1, <3>3, <4>1, <4>2
    <3>4. QED
      BY <1>4, <3>2, <3>3
  <2>3. QED
    BY <1>4, <2>1, <2>2
<1>7. QED
  BY <1>5, <1>6 DEF Increasing, all, g, q

\* Resuming: the queue goes behind what was written.
LEMMA ResumedFrames ==
    ASSUME NEW st \in Seat, NEW x \in Seat, NEW n, Ordered(st, n),
           x.got = st.got \o st.queue, x.queue = <<>>, x.owed = <<>>
    PROVE  Ordered(x, n) /\ Backlog(x)
<1>1. Len(x.queue) = 0 /\ Len(x.owed) = 0
  OBVIOUS
<1>2. Ordered(x, n)
  <2>1. Increasing(x.got) /\ \A i \in 1..Len(x.got) : x.got[i] <= n
    BY Joined
  <2>2. Increasing(x.queue)
    BY <1>1 DEF Increasing
  <2>3. \A i \in 1..Len(x.queue) : FALSE
    BY <1>1
  <2>4. QED
    BY <2>1, <2>2, <2>3 DEF Ordered
<1>3. Backlog(x)
  BY <1>1, SignalingAssumption DEF Backlog
<1>4. QED
  BY <1>2, <1>3

\* A frame behind others that came before it.
LEMMA AppendedFrames ==
    ASSUME NEW q \in Seq(Frames), NEW n \in Nat, n + 1 \in Frames,
           \A i \in 1..Len(q) : q[i] <= n, Increasing(q)
    PROVE  LET z == Append(q, n + 1)
           IN  /\ Increasing(z)
               /\ \A i \in 1..Len(z) : z[i] <= n + 1
<1> DEFINE z == Append(q, n + 1)
<1>1. /\ Len(z) = Len(q) + 1 /\ Len(q) \in Nat
      /\ \A i \in 1..Len(q) : z[i] = q[i] /\ q[i] \in Nat
      /\ z[Len(q) + 1] = n + 1
  BY SignalingAssumption DEF Frames
<1> HIDE DEF z
<1>2. \A i \in 1..Len(z) : i \in 1..Len(q) \/ i = Len(q) + 1
  BY <1>1
<1>3. \A i \in 1..Len(z) : z[i] <= n + 1
  BY <1>1, <1>2
<1>4. ASSUME NEW i \in 1..Len(z), NEW j \in 1..Len(z), i < j
      PROVE  z[i] < z[j]
  <2>1. i \in 1..Len(q)
    BY <1>1, <1>4
  <2>2. CASE j \in 1..Len(q)
    BY <1>1, <1>4, <2>1, <2>2 DEF Increasing
  <2>3. CASE j = Len(q) + 1
    BY <1>1, <2>1, <2>3
  <2>4. QED
    BY <1>2, <2>2, <2>3
<1>5. QED
  BY <1>3, <1>4 DEF Increasing, z

\* Dropping the oldest keeps the end of the queue.
LEMMA DroppedFrames ==
    ASSUME NEW z \in Seq(Frames), z # <<>>
    PROVE  /\ DropOldest(z) \in Seq(Frames)
           /\ Len(DropOldest(z)) = IF Len(z) > QueueMax THEN Len(z) - 1 ELSE Len(z)
           /\ \A i \in 1..Len(DropOldest(z)) :
                  /\ Len(z) - Len(DropOldest(z)) + i \in 1..Len(z)
                  /\ DropOldest(z)[i] = z[Len(z) - Len(DropOldest(z)) + i]
<1>1. Len(z) \in Nat \ {0} /\ QueueMax \in Nat
  BY SignalingAssumption
<1>2. CASE Len(z) > QueueMax
  <2>1. /\ Tail(z) \in Seq(Frames) /\ Len(Tail(z)) = Len(z) - 1
        /\ \A i \in 1..Len(Tail(z)) : Tail(z)[i] = z[i + 1]
    OBVIOUS
  <2>2. DropOldest(z) = Tail(z)
    BY <1>2 DEF DropOldest
  <2>3. \A i \in 1..Len(Tail(z)) : Len(z) - Len(Tail(z)) + i = i + 1 /\ i + 1 \in 1..Len(z)
    BY <1>1, <2>1
  <2>4. QED
    BY <1>2, <2>1, <2>2, <2>3
<1>3. CASE ~(Len(z) > QueueMax)
  <2>1. DropOldest(z) = z
    BY <1>3 DEF DropOldest
  <2>2. \A i \in 1..Len(z) : Len(z) - Len(z) + i = i
    BY <1>1
  <2>3. QED
    BY <1>3, <2>1, <2>2
<1>4. QED
  BY <1>2, <1>3

LEMMA Offsets ==
    ASSUME NEW a \in Nat, NEW q \in Nat, q <= a
    PROVE  /\ \A k \in 1..q : a - q + k \in 1..a /\ a + 1 - (q + 1) + k = a - q + k
           /\ a + 1 - (q + 1) + (q + 1) = a + 1
OBVIOUS

\* What deliver makes of a seat.
LEMMA DeliveredFrames ==
    ASSUME NEW st \in Seat, NEW n \in Nat, n + 1 \in Frames, NEW b \in BOOLEAN,
           Ordered(st, n), Backlog(st)
    PROVE  Ordered(Deliver(st, n + 1, b), n + 1) /\ Backlog(Deliver(st, n + 1, b))
<1> DEFINE m == n + 1
           x == Deliver(st, m, b)
<1>1. /\ st.got \in Seq(Frames) /\ st.queue \in Seq(Frames) /\ st.owed \in Seq(Frames)
      /\ Len(st.got) \in Nat /\ Len(st.queue) \in Nat /\ Len(st.owed) \in Nat
      /\ QueueMax \in Nat \ {0} /\ m \in Frames
  BY SignalingAssumption DEF Seat
<1>2. CASE st.ws # None /\ sock[st.ws] = "open"
  <2> DEFINE g == Append(st.got, m)
  <2>1. x = [st EXCEPT !.got = g]
    BY <1>2 DEF Deliver
  <2>2. /\ Increasing(g) /\ \A i \in 1..Len(g) : g[i] <= m
    BY <1>1, AppendedFrames DEF Ordered
  <2> HIDE DEF g, x
  <2>3. /\ x.got = g /\ x.queue = st.queue /\ x.owed = st.owed /\ x.ws = st.ws
    BY <2>1 DEF Seat
  <2>4. st.owed = <<>> /\ Len(st.owed) = 0 /\ Len(st.queue) = 0
    BY <1>1, <1>2 DEF Backlog
  <2>5. Ordered(x, m)
    <3>1. Increasing(x.queue)
      BY <2>3, <2>4 DEF Increasing
    <3>2. QED
      BY <2>2, <2>3, <2>4, <3>1 DEF Ordered
  <2>6. Backlog(x)
    BY <2>3 DEF Backlog
  <2>7. QED
    BY <2>5, <2>6 DEF x
<1>3. CASE st.ws = None /\ b
  <2> DEFINE z == Append(st.queue, m)
             d == DropOldest(z)
             o == Append(st.owed, m)
  <2>1. x = [st EXCEPT !.queue = d, !.owed = o]
    BY <1>3 DEF Deliver
  <2>2. /\ z \in Seq(Frames) /\ z # <<>> /\ Len(z) = Len(st.queue) + 1
        /\ \A i \in 1..Len(st.queue) : z[i] = st.queue[i]
        /\ z[Len(st.queue) + 1] = m
    BY <1>1
  <2>3. /\ Len(o) = Len(st.owed) + 1 /\ o \in Seq(Frames)
        /\ \A i \in 1..Len(st.owed) : o[i] = st.owed[i]
        /\ o[Len(st.owed) + 1] = m
    BY <1>1
  <2>4. Increasing(z) /\ \A i \in 1..Len(z) : z[i] <= m
    BY <1>1, AppendedFrames DEF Ordered
  <2> HIDE DEF z, o
  <2>5. /\ d \in Seq(Frames)
        /\ Len(d) = IF Len(z) > QueueMax THEN Len(z) - 1 ELSE Len(z)
        /\ \A i \in 1..Len(d) : /\ Len(z) - Len(d) + i \in 1..Len(z)
                                /\ d[i] = z[Len(z) - Len(d) + i]
    BY <2>2, DroppedFrames
  <2> HIDE DEF d, x
  <2>6. x.got = st.got /\ x.queue = d /\ x.owed = o /\ x.ws = st.ws
    BY <2>1 DEF Seat
  <2>7. Len(d) \in Nat /\ Len(z) \in Nat
    BY <2>2, <2>5
  <2>8. Ordered(x, m)
    <3>1. ASSUME NEW i \in 1..Len(d), NEW j \in 1..Len(d), i < j  PROVE d[i] < d[j]
      <4> DEFINE k == Len(z) - Len(d) + i
                 l == Len(z) - Len(d) + j
      <4>1. k \in 1..Len(z) /\ l \in 1..Len(z) /\ d[i] = z[k] /\ d[j] = z[l]
        BY <2>5
      <4>2. k < l
        BY <2>7, <3>1
      <4> HIDE DEF k, l
      <4>3. QED
        BY <2>4, <4>1, <4>2 DEF Increasing
    <3>2. \A i \in 1..Len(d) : d[i] <= m
      BY <2>4, <2>5
    <3>3. \A i \in 1..Len(st.got) : st.got[i] <= m
      BY <1>1, LaterFrames DEF Ordered
    <3>4. ASSUME NEW i \in 1..Len(st.got), NEW k \in 1..Len(z)
          PROVE  st.got[i] < z[k]
      <4>1. st.got[i] <= n /\ st.got[i] \in Nat
        BY <1>1, SignalingAssumption DEF Ordered, Frames
      <4>2. k \in 1..Len(st.queue) \/ k = Len(st.queue) + 1
        BY <1>1, <2>2
      <4>3. QED
        BY <2>2, <4>1, <4>2 DEF Ordered
    <3>5. ASSUME NEW i \in 1..Len(st.got), NEW j \in 1..Len(d)
          PROVE  st.got[i] < d[j]
      BY <2>5, <3>4
    <3>6. QED
      BY <2>6, <3>1, <3>2, <3>3, <3>5 DEF Ordered, Increasing
  <2>9. Backlog(x)
    <3>1. Len(st.queue) = IF Len(st.owed) > QueueMax THEN QueueMax ELSE Len(st.owed)
      BY DEF Backlog
    <3>2. Len(d) = IF Len(o) > QueueMax THEN QueueMax ELSE Len(o)
      BY <1>1, <2>2, <2>3, <2>5, <3>1
    <3>3. \A k \in 1..Len(z) : z[k] = o[Len(o) - Len(z) + k]
      <4>0. Len(st.queue) \in Nat /\ Len(st.owed) \in Nat
        BY <1>1
      <4> SUFFICES ASSUME NEW k \in 1..Len(z)  PROVE z[k] = o[Len(o) - Len(z) + k]
        OBVIOUS
      <4>1. k \in 1..Len(st.queue) \/ k = Len(st.queue) + 1
        BY <1>1, <2>2
      <4>2. CASE k \in 1..Len(st.queue)
        <5>1. st.queue[k] = st.owed[Len(st.owed) - Len(st.queue) + k]
          BY <4>2 DEF Backlog
        <5> DEFINE l == Len(st.owed) - Len(st.queue) + k
        <5>2. Len(st.queue) <= Len(st.owed)
          BY <1>1, <3>1
        <5>3. l \in 1..Len(st.owed)
          BY <4>0, <4>2, <5>2, Offsets
        <5>4. Len(o) - Len(z) + k = l
          <6>1. Len(o) = Len(st.owed) + 1 /\ Len(z) = Len(st.queue) + 1
            BY <2>2, <2>3
          <6>2. QED
            BY <4>0, <4>2, <5>2, <6>1, Offsets
        <5>5. z[k] = st.queue[k]
          BY <2>2, <4>2
        <5> HIDE DEF l
        <5>6. o[l] = st.owed[l]
          BY <2>3, <5>3
        <5>7. QED
          BY <5>1, <5>4, <5>5, <5>6 DEF l
      <4>3. CASE k = Len(st.queue) + 1
        <5>0. Len(st.queue) <= Len(st.owed)
          BY <1>1, <3>1
        <5>1. Len(o) - Len(z) + k = Len(st.owed) + 1
          <6>1. Len(o) = Len(st.owed) + 1 /\ Len(z) = Len(st.queue) + 1
            BY <2>2, <2>3
          <6> DEFINE a == Len(st.owed)
                     l == Len(st.queue)
          <6>2. Len(o) = a + 1 /\ Len(z) = l + 1 /\ k = l + 1 /\ a \in Nat /\ l \in Nat
            BY <4>0, <4>3, <6>1
          <6> HIDE DEF a, l
          <6>3. Len(o) - Len(z) + k = a + 1
            BY <6>2
          <6>4. QED
            BY <6>3 DEF a
        <5>2. QED
          BY <2>2, <2>3, <4>3, <5>1
      <4>4. QED
        BY <4>1, <4>2, <4>3
    <3>4. \A i \in 1..Len(d) : d[i] = o[Len(o) - Len(d) + i]
      <4> SUFFICES ASSUME NEW i \in 1..Len(d)  PROVE d[i] = o[Len(o) - Len(d) + i]
        OBVIOUS
      <4> DEFINE k == Len(z) - Len(d) + i
      <4>1. k \in 1..Len(z) /\ d[i] = z[k]
        BY <2>5
      <4>2. Len(o) - Len(z) + k = Len(o) - Len(d) + i
        <5>1. Len(o) \in Nat
          BY <2>3
        <5>2. QED
          BY <2>7, <5>1
      <4> HIDE DEF k
      <4>3. QED
        BY <3>3, <4>1, <4>2
    <3>5. QED
      BY <1>3, <2>6, <3>2, <3>4 DEF Backlog
  <2>10. QED
    BY <2>8, <2>9 DEF x
<1>4. CASE ~(st.ws # None /\ sock[st.ws] = "open") /\ ~(st.ws = None /\ b)
  <2>1. x = [st EXCEPT !.lost = @ \/ b]
    BY <1>4 DEF Deliver
  <2> HIDE DEF x
  <2>2. x.got = st.got /\ x.queue = st.queue /\ x.owed = st.owed /\ x.ws = st.ws
    BY <2>1 DEF Seat
  <2>3. Ordered(st, m)
    BY LaterFrames
  <2>4. QED
    BY <2>2, <2>3, SameFrames DEF x
<1>5. QED
  BY <1>2, <1>3, <1>4

------------------------------------------------------------------------------
(* The maps *)

LEMMA OnLeaveFrames ==
    ASSUME NEW S \in Server, NEW n, NEW r \in RoomIds, NEW p \in Peers, MapsFrames(S, n)
    PROVE  MapsFrames(OnLeave(S, r, p), n)
<1> DEFINE R == OnLeave(S, r, p)
<1>1. CASE r \notin S.rooms
  BY <1>1 DEF OnLeave
<1>2. CASE r \in S.rooms
  <2>1. R.seat = [S.seat EXCEPT ![r][p] = NoSeat]
    BY <1>2 DEF OnLeave
  <2>2. S.seat \in [RoomIds -> [Peers -> Seat]]
    BY DEF Server
  <2> HIDE DEF R
  <2>3. /\ R.seat[r][p] = NoSeat
        /\ \A r1 \in RoomIds : \A p1 \in Peers :
              r1 # r \/ p1 # p => R.seat[r1][p1] = S.seat[r1][p1]
    BY <2>1, <2>2
  <2>4. Ordered(NoSeat, n) /\ Backlog(NoSeat)
    BY NewSeatFrames DEF NoSeat
  <2>5. MapsFrames(R, n)
    BY <2>3, <2>4 DEF MapsFrames
  <2>6. QED
    BY <2>5 DEF R
<1>3. QED
  BY <1>1, <1>2

LEMMA HoldSeatFrames ==
    ASSUME NEW S \in Server, NEW n, NEW r \in RoomIds, NEW p \in Peers, MapsFrames(S, n)
    PROVE  MapsFrames(HoldSeat(S, r, p), n)
<1> DEFINE R == HoldSeat(S, r, p)
           old == S.seat[r][p]
           new == [old EXCEPT !.ws = None, !.timer = TRUE]
<1>1. CASE r \notin S.rooms \/ p \notin S.peers[r]
  BY <1>1 DEF HoldSeat
<1>2. CASE ~(r \notin S.rooms \/ p \notin S.peers[r])
  <2>1. R.seat = [S.seat EXCEPT ![r][p] = new]
    BY <1>2 DEF HoldSeat, Server
  <2>2. S.seat \in [RoomIds -> [Peers -> Seat]] /\ old \in Seat
    BY DEF Server
  <2>3. Ordered(old, n) /\ Backlog(old)
    BY DEF MapsFrames
  <2> HIDE DEF R, old
  <2>4. new.got = old.got /\ new.queue = old.queue /\ new.owed = old.owed /\ new.ws = None
    BY <2>2 DEF Seat
  <2> HIDE DEF new
  <2>5. Ordered(new, n) /\ Backlog(new)
    BY <2>3, <2>4, SameFrames
  <2>6. /\ R.seat[r][p] = new
        /\ \A r1 \in RoomIds : \A p1 \in Peers :
              r1 # r \/ p1 # p => R.seat[r1][p1] = S.seat[r1][p1]
    BY <2>1, <2>2
  <2>7. MapsFrames(R, n)
    BY <2>5, <2>6 DEF MapsFrames
  <2>8. QED
    BY <2>7 DEF R
<1>3. QED
  BY <1>1, <1>2

LEMMA OnDisconnectFrames ==
    ASSUME NEW S \in Server, NEW n, NEW s \in Sockets, MapsFrames(S, n)
    PROVE  MapsFrames(OnDisconnect(S, s), n)
<1>1. CASE OnDisconnect(S, s) = S
  BY <1>1
<1>2. CASE OnDisconnect(S, s) # S
  <2> DEFINE p == S.wsIndex[s]
             r == S.peerIndex[p].roomId
  <2>1. p # None /\ OnDisconnect(S, s) = HoldSeat(S, r, p)
    BY <1>2 DEF OnDisconnect
  <2>2. p \in Peers
    BY <2>1 DEF Server
  <2>3. r \in RoomIds
    BY <1>2, <2>1 DEF HoldSeat, Server
  <2> HIDE DEF p, r
  <2>4. QED
    BY <2>1, <2>2, <2>3, HoldSeatFrames
<1>3. QED
  BY <1>1, <1>2

LEMMA ResumeFrames ==
    ASSUME NEW S \in Server, NEW n, NEW s \in Sockets, NEW r \in RoomIds, NEW p \in Peers,
           MapsFrames(S, n)
    PROVE  MapsFrames(Resume(S, s, r, p), n)
<1> DEFINE R == Resume(S, s, r, p)
           old == S.seat[r][p]
           all == old.got \o old.queue
           new == [old EXCEPT !.ws = s, !.timer = FALSE, !.queue = <<>>,
                              !.got = all, !.owed = <<>>]
<1>1. R.seat = [S.seat EXCEPT ![r][p] = new]
  BY DEF Resume, Server
<1>2. S.seat \in [RoomIds -> [Peers -> Seat]] /\ old \in Seat
  BY DEF Server
<1>3. Ordered(old, n)
  BY DEF MapsFrames
<1> HIDE DEF R, old
<1>4. all \in Seq(Frames) /\ <<>> \in Seq(Frames)
  BY <1>2 DEF Seat
<1> HIDE DEF all
<1>5. new \in Seat /\ new.got = all /\ new.queue = <<>> /\ new.owed = <<>>
  BY <1>2, <1>4 DEF Seat
<1> HIDE DEF new
<1>6. Ordered(new, n) /\ Backlog(new)
  BY <1>2, <1>3, <1>5, ResumedFrames DEF all
<1>7. /\ R.seat[r][p] = new
      /\ \A r1 \in RoomIds : \A p1 \in Peers :
            r1 # r \/ p1 # p => R.seat[r1][p1] = S.seat[r1][p1]
  BY <1>1, <1>2
<1>8. MapsFrames(R, n)
  BY <1>6, <1>7 DEF MapsFrames
<1>9. QED
  BY <1>8 DEF R

LEMMA EnterFrames ==
    ASSUME NEW S \in Server, NEW n, NEW s \in Sockets, NEW r \in RoomIds, NEW p \in Peers,
           MapsFrames(S, n)
    PROVE  MapsFrames(Enter(S, s, r, p), n)
<1> DEFINE R == Enter(S, s, r, p)
<1>1. R.seat = [S.seat EXCEPT ![r][p] = IF r \in S.rooms THEN NewSeat(s) ELSE @]
  BY DEF Enter, Server
<1>2. S.seat \in [RoomIds -> [Peers -> Seat]]
  BY DEF Server
<1> HIDE DEF R
<1>3. /\ R.seat[r][p] \in {NewSeat(s), S.seat[r][p]}
      /\ \A r1 \in RoomIds : \A p1 \in Peers :
            r1 # r \/ p1 # p => R.seat[r1][p1] = S.seat[r1][p1]
  BY <1>1, <1>2
<1>4. /\ Ordered(NewSeat(s), n) /\ Backlog(NewSeat(s))
      /\ Ordered(S.seat[r][p], n) /\ Backlog(S.seat[r][p])
  BY NewSeatFrames DEF MapsFrames
<1>5. MapsFrames(R, n)
  BY <1>3, <1>4 DEF MapsFrames
<1>6. QED
  BY <1>5 DEF R

LEMMA BeforeJoinFrames ==
    ASSUME NEW S \in Server, NEW n, NEW s \in Sockets, NEW r \in RoomIds, NEW p \in Peers,
           MapsFrames(S, n)
    PROVE  MapsFrames(BeforeJoin(S, s, r, p), n)
<1> DEFINE S0 == [S EXCEPT !.rooms = @ \cup {r}]
           prior == PriorRoom(S, s, r)
           id == S.wsIndex[s]
<1>1. S0 \in Server /\ S0.seat = S.seat
  BY DEF Server
<1> HIDE DEF S0
<1>2. MapsFrames(S0, n)
  BY <1>1 DEF MapsFrames
<1>3. CASE PriorId(S, s, p)
  <2>1. BeforeJoin(S, s, r, p) = OnLeave(S0, prior, id)
    BY <1>3 DEF BeforeJoin, S0
  <2>2. id \in Peers
    BY <1>3 DEF PriorId, Server
  <2>3. prior \notin RoomIds => OnLeave(S0, prior, id) = S0
    BY <1>1 DEF OnLeave, Server
  <2>4. prior \in RoomIds => MapsFrames(OnLeave(S0, prior, id), n)
    BY <1>1, <1>2, <2>2, OnLeaveFrames
  <2>5. QED
    BY <1>2, <2>1, <2>3, <2>4
<1>4. CASE ~PriorId(S, s, p)
  BY <1>2, <1>4 DEF BeforeJoin, S0
<1>5. QED
  BY <1>3, <1>4

LEMMA PostFrames ==
    ASSUME NEW S \in Server, NEW n \in Nat, n + 1 \in Frames, NEW r \in RoomIds, NEW To,
           NEW b \in BOOLEAN, MapsFrames(S, n)
    PROVE  MapsFrames(Post(S, r, To, n + 1, b), n + 1)
<1> DEFINE R == Post(S, r, To, n + 1, b)
<1>1. S.seat \in [RoomIds -> [Peers -> Seat]]
  BY DEF Server
<1>2. R.seat = [S.seat EXCEPT ![r] = [p \in Peers |->
                  IF p \in To THEN Deliver(@[p], n + 1, b) ELSE @[p]]]
  BY DEF Post, Server
<1> HIDE DEF R
<1>3. ASSUME NEW r1 \in RoomIds, NEW p \in Peers
      PROVE  R.seat[r1][p] \in {S.seat[r1][p], Deliver(S.seat[r1][p], n + 1, b)}
  <2>1. CASE r1 = r
    BY <1>1, <1>2, <2>1
  <2>2. CASE r1 # r
    BY <1>1, <1>2, <2>2
  <2>3. QED
    BY <2>1, <2>2
<1>4. ASSUME NEW r1 \in RoomIds, NEW p \in Peers
      PROVE  Ordered(R.seat[r1][p], n + 1) /\ Backlog(R.seat[r1][p])
  <2> DEFINE st == S.seat[r1][p]
  <2>1. st \in Seat /\ Ordered(st, n) /\ Backlog(st)
    BY <1>1 DEF MapsFrames
  <2> HIDE DEF st
  <2>2. Ordered(st, n + 1)
    BY <2>1, LaterFrames
  <2>3. Ordered(Deliver(st, n + 1, b), n + 1) /\ Backlog(Deliver(st, n + 1, b))
    BY <2>1, DeliveredFrames
  <2>4. QED
    BY <1>3, <2>1, <2>2, <2>3 DEF st
<1>5. QED
  BY <1>4 DEF MapsFrames, R

------------------------------------------------------------------------------
(* Order and backlog *)

LEMMA FreshFrames ==
    ASSUME NEW n
    PROVE  MapsFrames(FreshServer, n)
<1>1. \A r \in RoomIds : \A p \in Peers : FreshServer.seat[r][p] = NoSeat
  BY DEF FreshServer
<1>2. QED
  BY <1>1, NewSeatFrames DEF MapsFrames, NoSeat

LEMMA StepFrames ==
    ASSUME TypeOK, FramesInv, [Next]_vars
    PROVE  FramesInv'
<1>1. srv \in Server /\ sent \in Nat /\ MapsFrames(srv, sent)
  BY SignalingAssumption DEF TypeOK, FramesInv
<1>2. ASSUME NEW s \in Sockets, NEW r \in RoomIds, NEW p \in Peers, Join(s, r, p)
      PROVE  FramesInv'
  <2> DEFINE S == BeforeJoin(srv, s, r, p)
  <2>1. S \in Server /\ MapsFrames(S, sent)
    BY <1>1, BeforeJoinType, BeforeJoinFrames
  <2>2. /\ srv' = Resume(S, s, r, p) \/ srv' = Enter(S, s, r, p)
        /\ sent' = sent
    BY <1>2 DEF Join
  <2> HIDE DEF S
  <2>3. QED
    BY <2>1, <2>2, ResumeFrames, EnterFrames DEF FramesInv
<1>3. ASSUME NEW s \in Sockets, NEW r \in RoomIds, NEW p \in Peers, Leave(s, r, p)
      PROVE  FramesInv'
  BY <1>1, <1>3, OnLeaveFrames DEF Leave, FramesInv
<1>4. ASSUME NEW s \in Sockets, NEW r \in RoomIds, NEW p \in Peers,
             NEW to \in Peers \cup {None},
             RelayData(s, r, p, to) \/ Relay(s, r, p, to)
      PROVE  FramesInv'
  <2>1. sent + 1 \in Frames
    <3>1. sent < MaxFrames
      BY <1>4 DEF RelayData, Relay, Accepts
    <3>2. QED
      BY <1>1, <3>1, SignalingAssumption DEF Frames
  <2>2. PICK b \in BOOLEAN : srv' = Post(srv, r, Addressees(r, p, to), sent + 1, b)
    BY <1>4 DEF RelayData, Relay
  <2>3. sent' = sent + 1
    BY <1>4 DEF RelayData, Relay
  <2>4. QED
    BY <1>1, <2>1, <2>2, <2>3, PostFrames DEF FramesInv
<1>5. ASSUME NEW r \in RoomIds, NEW p \in Peers, GraceExpire(r, p)
      PROVE  FramesInv'
  <2> DEFINE old == srv.seat[r][p]
             new == [old EXCEPT !.timer = FALSE]
             S == [srv EXCEPT !.seat[r][p] = new]
  <2>1. [srv EXCEPT !.seat[r][p].timer = FALSE] = S
    BY <1>1 DEF Server
  <2>2. (srv' = OnLeave(S, r, p) \/ srv' = S) /\ sent' = sent
    BY <1>5, <2>1 DEF GraceExpire
  <2>3. old \in Seat /\ Ordered(old, sent) /\ Backlog(old)
    BY <1>1 DEF Server, MapsFrames
  <2>4. srv.seat \in [RoomIds -> [Peers -> Seat]]
    BY <1>1 DEF Server
  <2> HIDE DEF old
  <2>5. /\ new \in Seat /\ new.ws = old.ws
        /\ new.got = old.got /\ new.queue = old.queue /\ new.owed = old.owed
    BY <2>3 DEF Seat
  <2> HIDE DEF new
  <2>6. Ordered(new, sent) /\ Backlog(new)
    BY <2>3, <2>5, SameFrames
  <2>7. S \in Server /\ S.seat = [srv.seat EXCEPT ![r][p] = new]
    BY <1>1, <2>5 DEF Server
  <2> HIDE DEF S
  <2>8. /\ S.seat[r][p] = new
        /\ \A r1 \in RoomIds : \A p1 \in Peers :
              r1 # r \/ p1 # p => S.seat[r1][p1] = srv.seat[r1][p1]
    BY <2>4, <2>7
  <2>9. MapsFrames(S, sent)
    BY <1>1, <2>6, <2>8 DEF MapsFrames
  <2>10. QED
    BY <2>2, <2>7, <2>9, OnLeaveFrames DEF FramesInv
<1>6. ASSUME NEW s \in Sockets, Close(s)
      PROVE  FramesInv'
  BY <1>1, <1>6, OnDisconnectFrames DEF Close, FramesInv
<1>7. ASSUME Stop
      PROVE  FramesInv'
  <2>1. srv'.seat = [r \in RoomIds |-> [p \in Peers |-> NoSeat]] /\ sent' = sent
    BY <1>1, <1>7 DEF Stop, Server
  <2>2. \A r \in RoomIds : \A p \in Peers : srv'.seat[r][p] = NoSeat
    BY <2>1
  <2>3. Ordered(NoSeat, sent) /\ Backlog(NoSeat)
    BY NewSeatFrames DEF NoSeat
  <2>4. QED
    BY <2>1, <2>2, <2>3 DEF MapsFrames, FramesInv
<1>8. ASSUME Restart
      PROVE  FramesInv'
  BY <1>8, FreshFrames DEF Restart, FramesInv
<1>9. ASSUME srv' = srv, sent' = sent
      PROVE  FramesInv'
  BY <1>9 DEF FramesInv
<1>10. CASE Heartbeat
  BY <1>9, <1>10 DEF Heartbeat
<1>11. ASSUME NEW s \in Sockets, OnConnect(s) \/ Pong(s) \/ ClientClose(s) \/ Vanish(s)
       PROVE  FramesInv'
  BY <1>9, <1>11 DEF OnConnect, Pong, ClientClose, Vanish
<1>12. CASE UNCHANGED vars
  BY <1>9, <1>12 DEF vars
<1>13. QED
  BY <1>2, <1>3, <1>4, <1>5, <1>6, <1>7, <1>8, <1>10, <1>11, <1>12 DEF Next

LEMMA FramesInvHolds == Spec => [](TypeOK /\ FramesInv)
<1>1. Init => FramesInv
  BY FreshFrames DEF Init, FramesInv
<1>2. TypeOK /\ FramesInv /\ [Next]_vars => FramesInv'
  BY StepFrames
<1>3. QED
  BY <1>1, <1>2, SignalingTypes, PTL DEF Spec

LEMMA FramesInvProves ==
    ASSUME TypeOK, FramesInv
    PROVE  InOrder /\ BacklogKept
<1>1. ASSUME NEW r \in RoomIds, NEW p \in srv.peers[r]
      PROVE  /\ srv.seat[r][p] \in Seat
             /\ Ordered(srv.seat[r][p], sent) /\ Backlog(srv.seat[r][p])
  <2>1. p \in Peers
    BY DEF TypeOK, Server
  <2>2. QED
    BY <2>1 DEF TypeOK, Server, FramesInv, MapsFrames
<1>2. InOrder
  BY <1>1, Joined DEF InOrder
<1>3. ASSUME NEW r \in RoomIds, NEW p \in srv.peers[r]
      PROVE  LET st == srv.seat[r][p]
                 over == IF Len(st.owed) > QueueMax THEN Len(st.owed) - QueueMax ELSE 0
             IN  /\ st.queue = SubSeq(st.owed, over + 1, Len(st.owed))
                 /\ st.ws # None => st.owed = <<>>
  <2> DEFINE st == srv.seat[r][p]
             over == IF Len(st.owed) > QueueMax THEN Len(st.owed) - QueueMax ELSE 0
             tail == SubSeq(st.owed, over + 1, Len(st.owed))
  <2>1. st \in Seat /\ Backlog(st)
    BY <1>1
  <2> HIDE DEF st
  <2>2. /\ st.queue \in Seq(Frames) /\ st.owed \in Seq(Frames)
        /\ Len(st.queue) \in Nat /\ Len(st.owed) \in Nat /\ QueueMax \in Nat \ {0}
    BY <2>1, SignalingAssumption DEF Seat
  <2>3. over \in Nat /\ over <= Len(st.owed) /\ Len(st.queue) = Len(st.owed) - over
    BY <2>1, <2>2 DEF Backlog
  <2> HIDE DEF over
  <2>4. /\ tail \in Seq(Frames) /\ Len(tail) = Len(st.owed) - over
        /\ \A i \in 1..Len(tail) : tail[i] = st.owed[over + i]
    <3>1. \A i \in over + 1..Len(st.owed) : st.owed[i] \in Frames
      BY <2>2, <2>3
    <3>2. /\ Len(tail) = IF over + 1 <= Len(st.owed) THEN Len(st.owed) - (over + 1) + 1 ELSE 0
          /\ \A i \in 1..Len(st.owed) - (over + 1) + 1 :
                tail[i] = st.owed[over + 1 + i - 1]
      BY <2>2, <2>3, <3>1, SubSeqProperties
    <3>3. tail \in Seq(Frames)
      BY <2>2, <2>3, <3>1, SubSeqProperties
    <3>4. Len(tail) = Len(st.owed) - over
      BY <2>2, <2>3, <3>2
    <3> HIDE DEF tail
    <3>5. ASSUME NEW i \in 1..Len(tail)  PROVE tail[i] = st.owed[over + i]
      <4>1. i \in 1..Len(st.owed) - (over + 1) + 1 /\ over + 1 + i - 1 = over + i
        BY <2>2, <2>3, <3>4
      <4>2. QED
        BY <3>2, <4>1
    <3>6. QED
      BY <3>3, <3>4, <3>5
  <2> HIDE DEF tail
  <2>5. Len(st.queue) = Len(tail) /\ Len(tail) \in Nat
    BY <2>2, <2>3, <2>4
  <2>6. ASSUME NEW i \in 1..Len(tail)  PROVE st.queue[i] = tail[i]
    <3>1. st.queue[i] = st.owed[Len(st.owed) - Len(st.queue) + i]
      BY <2>1, <2>5 DEF Backlog
    <3>2. Len(st.owed) - Len(st.queue) + i = over + i
      BY <2>2, <2>3
    <3>3. QED
      BY <2>4, <3>1, <3>2
  <2>7. st.queue = tail
    BY <2>2, <2>4, <2>5, <2>6, SeqEqual
  <2>8. st.ws # None => st.owed = <<>>
    BY <2>1 DEF Backlog
  <2>9. QED
    BY <2>7, <2>8 DEF tail, over, st
<1>4. QED
  BY <1>2, <1>3 DEF BacklogKept

\* room.ts:61-103: what a seat is sent, across socket swaps and holds, is in the
\* order the server accepted it and never twice, for any number of rooms, peers, sockets
\* and frames, and any claims.
THEOREM FramesStayInOrder == Spec => []InOrder
<1>1. TypeOK /\ FramesInv => InOrder
  BY FramesInvProves
<1>2. QED
  BY <1>1, FramesInvHolds, PTL

\* room.ts:77-90: a held seat is waited on with exactly the newest QUEUE_MAX_MSGS data
\* frames that came for it, for every size of the queue.
THEOREM BacklogIsTheNewest == Spec => []BacklogKept
<1>1. TypeOK /\ FramesInv => BacklogKept
  BY FramesInvProves
<1>2. QED
  BY <1>1, FramesInvHolds, PTL

------------------------------------------------------------------------------
(* The roster told *)

\* The sockets the server can write to.
Writing == {s \in Sockets : Writable(s)}

\* RosterTold, of maps S, rosters T and the sockets W that are written to.
RosterOn(S, T, W) ==
    \A x \in RoomIds : \A y \in S.peers[x] :
       S.seat[x][y].ws \in W => T[S.seat[x][y].ws][x] = S.peers[x] \ {y}

LEMMA RosterToldHere ==
    ASSUME TypeOK
    PROVE  RosterTold <=> RosterOn(srv, told, Writing)
<1>1. \A x \in RoomIds : srv.peers[x] \subseteq Peers
  BY DEF TypeOK, Server
<1>2. \A x \in RoomIds, y \in Peers : srv.seat[x][y].ws \in Sockets \cup {None}
  BY SeatSocket DEF TypeOK
<1>3. ASSUME NEW x \in RoomIds, NEW y \in srv.peers[x]
      PROVE  srv.seat[x][y].ws # None /\ Writable(srv.seat[x][y].ws)
                <=> srv.seat[x][y].ws \in Writing
  BY <1>1, <1>2, SignalingAssumption DEF Writing
<1>4. QED
  BY <1>3 DEF RosterTold, RosterOn, Listening

LEMMA RosterToldNext ==
    ASSUME TypeOK'
    PROVE  RosterTold' <=> RosterOn(srv', told', Writing')
<1>1. \A x \in RoomIds : srv'.peers[x] \subseteq Peers
  BY DEF TypeOK, Server
<1>2. \A x \in RoomIds, y \in Peers : srv'.seat[x][y].ws \in Sockets \cup {None}
  BY SeatSocket DEF TypeOK
<1>3. ASSUME NEW x \in RoomIds, NEW y \in srv'.peers[x]
      PROVE  srv'.seat[x][y].ws # None /\ sock'[srv'.seat[x][y].ws] \in {"open", "zombie"}
                <=> srv'.seat[x][y].ws \in Writing'
  BY <1>1, <1>2, SignalingAssumption DEF Writing, Writable
<1>4. QED
  BY <1>3 DEF RosterTold, RosterOn, Listening, Writable

------------------------------------------------------------------------------
(* Who hears of whom *)

LEMMA HeardBy ==
    ASSUME NEW S \in Server, NEW x \in RoomIds, NEW p, NEW t \in Sockets
    PROVE  t \in Hears(S, x, p) <=> /\ t \in Writing
                                    /\ \E y \in S.peers[x] : y # p /\ S.seat[x][y].ws = t
<1>1. \A y \in S.peers[x] : S.seat[x][y].ws = t => (S.seat[x][y].ws # None)
  BY SignalingAssumption
<1>2. QED
  BY <1>1 DEF Hears, Listening, Writing

------------------------------------------------------------------------------
(* The handlers *)

\* Maps R are maps S without a seat; with a seat over another socket, s.
Without(S, R, r, p) ==
    /\ \A x \in RoomIds : R.peers[x] = IF x = r THEN S.peers[x] \ {p} ELSE S.peers[x]
    /\ \A x \in RoomIds, y \in Peers :
          ~(x = r /\ y = p) => R.seat[x][y].ws = S.seat[x][y].ws

Reseated(S, R, s, r, p) ==
    /\ R.peers = S.peers
    /\ \A x \in RoomIds, y \in Peers :
          R.seat[x][y].ws = IF x = r /\ y = p THEN s ELSE S.seat[x][y].ws

OnlySeatOn(S, s, r, p) ==
    \A x \in RoomIds : \A y \in S.peers[x] : S.seat[x][y].ws = s => x = r /\ y = p

LEMMA LeftRoster ==
    ASSUME NEW S \in Server, NEW R, NEW T \in Rosters, RosterOn(S, T, Writing),
           NEW r \in S.rooms, NEW p \in S.peers[r], Without(S, R, r, p),
           NEW U, U = TellLeft(T, S, r, p)
    PROVE  RosterOn(R, U, Writing)
<1>0. ASSUME NEW t \in Sockets, NEW x \in RoomIds
      PROVE  U[t][x] = IF t \in Hears(S, r, p) /\ x = r THEN T[t][x] \ {p} ELSE T[t][x]
  <2>1. r \in RoomIds /\ T[t] \in [RoomIds -> SUBSET Peers]
    BY DEF Server, Rosters
  <2>2. QED
    BY <2>1 DEF TellLeft
<1> SUFFICES ASSUME NEW x \in RoomIds, NEW y \in R.peers[x], R.seat[x][y].ws \in Writing
             PROVE  U[R.seat[x][y].ws][x] = R.peers[x] \ {y}
  BY DEF RosterOn
<1> DEFINE w == R.seat[x][y].ws
<1>1. r \in RoomIds /\ y \in S.peers[x] /\ y \in Peers /\ ~(x = r /\ y = p)
  BY DEF Server, Without
<1>2. w = S.seat[x][y].ws /\ w \in Sockets /\ w \in Writing
  BY <1>1 DEF Writing, Without
<1> HIDE DEF w
<1>3. T[w][x] = S.peers[x] \ {y}
  BY <1>1, <1>2 DEF RosterOn
<1>4. CASE x = r
  <2>1. w \in Hears(S, r, p)
    <3>1. w \in Hears(S, r, p) <=> /\ w \in Writing
                                   /\ \E z \in S.peers[r] : z # p /\ S.seat[r][z].ws = w
      BY <1>1, <1>2, HeardBy
    <3>2. y \in S.peers[r] /\ y # p /\ S.seat[r][y].ws = w
      BY <1>1, <1>2, <1>4
    <3>3. QED
      BY <1>2, <3>1, <3>2
  <2>2. U[w][x] = T[w][x] \ {p}
    BY <1>0, <1>2, <1>4, <2>1
  <2>3. QED
    BY <1>3, <1>4, <2>2 DEF w, Without
<1>5. CASE x # r
  <2>1. U[w][x] = T[w][x]
    BY <1>0, <1>2, <1>5
  <2>2. QED
    BY <1>3, <1>5, <2>1 DEF w, Without
<1>6. QED
  BY <1>4, <1>5

\* A resume: only p's socket is another one, and nobody else sits on it.
LEMMA ResumedRoster ==
    ASSUME NEW S \in Server, NEW R, NEW T \in Rosters, NEW W \in SUBSET Writing,
           RosterOn(S, T, Writing), NEW s \in Sockets, NEW r \in S.rooms, NEW p \in S.peers[r],
           Reseated(S, R, s, r, p), OnlySeatOn(S, s, r, p),
           NEW U, U = TellPeers(T, S, s, r, p)
    PROVE  RosterOn(R, U, W)
<1>0. ASSUME NEW t \in Sockets, NEW x \in RoomIds
      PROVE  U[t][x] = IF t = s /\ x = r THEN S.peers[r] \ {p} ELSE T[t][x]
  <2>1. r \in RoomIds /\ T[t] \in [RoomIds -> SUBSET Peers] /\ T[s] \in [RoomIds -> SUBSET Peers]
    BY DEF Server, Rosters
  <2>2. QED
    BY <2>1 DEF TellPeers, Rosters
<1> SUFFICES ASSUME NEW x \in RoomIds, NEW y \in R.peers[x], R.seat[x][y].ws \in W
             PROVE  U[R.seat[x][y].ws][x] = R.peers[x] \ {y}
  BY DEF RosterOn
<1> DEFINE w == R.seat[x][y].ws
<1>1. y \in S.peers[x] /\ y \in Peers /\ R.peers[x] = S.peers[x]
  BY DEF Server, Reseated
<1>2. w \in Writing /\ w \in Sockets
  <2>1. w \in Writing
    OBVIOUS
  <2> HIDE DEF w
  <2>2. QED
    BY <2>1 DEF Writing
<1>3. w = IF x = r /\ y = p THEN s ELSE S.seat[x][y].ws
  BY <1>1 DEF Reseated
<1> HIDE DEF w
<1>4. CASE x = r /\ y = p
  BY <1>0, <1>1, <1>2, <1>3, <1>4 DEF w
<1>5. CASE ~(x = r /\ y = p)
  <2>1. w # s
    BY <1>1, <1>3, <1>5 DEF OnlySeatOn
  <2>2. U[w][x] = T[w][x]
    BY <1>0, <1>2, <2>1
  <2>3. T[w][x] = S.peers[x] \ {y}
    BY <1>1, <1>2, <1>3, <1>5 DEF RosterOn
  <2>4. QED
    BY <1>1, <2>2, <2>3 DEF w
<1>6. QED
  BY <1>4, <1>5

\* An arrival: the room hears of it, the newcomer hears of the room.
LEMMA EnteredRoster ==
    ASSUME NEW S \in Server, NEW R, NEW T \in Rosters,
           RosterOn(S, T, Writing), NEW s \in Sockets, NEW r \in S.rooms, NEW p \in Peers,
           p \notin S.peers[r],
           \A x \in RoomIds : R.peers[x] = IF x = r THEN S.peers[x] \cup {p} ELSE S.peers[x],
           \A x \in RoomIds, y \in Peers :
               R.seat[x][y].ws = IF x = r /\ y = p THEN s ELSE S.seat[x][y].ws,
           \A x \in RoomIds : \A y \in S.peers[x] : S.seat[x][y].ws # s,
           NEW T1, T1 = TellPeers(T, S, s, r, p), NEW U, U = TellJoined(T1, S, r, p)
    PROVE  RosterOn(R, U, Writing)
<1>7. r \in RoomIds /\ T1 \in Rosters
  BY TellTypes DEF Server
<1>8. ASSUME NEW t \in Sockets, NEW x \in RoomIds
      PROVE  T1[t][x] = IF t = s /\ x = r THEN S.peers[r] \ {p} ELSE T[t][x]
  <2>1. T[t] \in [RoomIds -> SUBSET Peers] /\ T[s] \in [RoomIds -> SUBSET Peers]
    BY DEF Rosters
  <2>2. QED
    BY <1>7, <2>1 DEF TellPeers, Rosters
<1>9. ASSUME NEW t \in Sockets, NEW x \in RoomIds
      PROVE  U[t][x] = IF t \in Hears(S, r, p) /\ x = r THEN T1[t][x] \cup {p} ELSE T1[t][x]
  <2>1. T1[t] \in [RoomIds -> SUBSET Peers]
    BY <1>7 DEF Rosters
  <2>2. QED
    BY <1>7, <2>1 DEF TellJoined
<1> SUFFICES ASSUME NEW x \in RoomIds, NEW y \in R.peers[x], R.seat[x][y].ws \in Writing
             PROVE  U[R.seat[x][y].ws][x] = R.peers[x] \ {y}
  BY DEF RosterOn
<1> DEFINE w == R.seat[x][y].ws
<1>1. S.peers[x] \subseteq Peers
  BY DEF Server
<1>2. w \in Sockets
  <2>1. w \in Writing
    OBVIOUS
  <2> HIDE DEF w
  <2>2. QED
    BY <2>1 DEF Writing
<1> HIDE DEF w
<1>3. T1[w][x] = IF w = s /\ x = r THEN S.peers[r] \ {p} ELSE T[w][x]
  BY <1>2, <1>8
<1>4. U[w][x] = IF w \in Hears(S, r, p) /\ x = r THEN T1[w][x] \cup {p} ELSE T1[w][x]
  BY <1>2, <1>9
<1>5. CASE x = r /\ y = p
  <2>1. w = s
    BY <1>1, <1>5 DEF w
  <2>2. w \notin Hears(S, r, p)
    <3>1. w \in Hears(S, r, p) <=> /\ w \in Writing
                                   /\ \E z \in S.peers[r] : z # p /\ S.seat[r][z].ws = w
      BY <1>2, <1>7, HeardBy
    <3>2. QED
      BY <1>7, <2>1, <3>1
  <2>3. T1[w][x] = S.peers[r] \ {p}
    BY <1>3, <1>5, <2>1
  <2>4. R.peers[x] \ {y} = S.peers[r] \ {p}
    BY <1>5
  <2>5. QED
    BY <1>4, <2>2, <2>3, <2>4 DEF w
<1>6. CASE ~(x = r /\ y = p)
  <2>1. y \in S.peers[x] /\ y \in Peers
    BY <1>1, <1>6
  <2>2. w = S.seat[x][y].ws /\ w # s /\ w \in Writing
    BY <1>6, <2>1 DEF w
  <2>3. T1[w][x] = S.peers[x] \ {y}
    BY <1>2, <1>3, <2>1, <2>2 DEF RosterOn
  <2>4. CASE x = r
    <3>1. y # p
      BY <1>6, <2>4
    <3>2. w \in Hears(S, r, p)
      <4>1. w \in Hears(S, r, p) <=> /\ w \in Writing
                                     /\ \E z \in S.peers[r] : z # p /\ S.seat[r][z].ws = w
        BY <1>2, <1>7, HeardBy
      <4>2. QED
        BY <2>1, <2>2, <2>4, <3>1, <4>1
    <3>3. QED
      BY <1>4, <2>3, <2>4, <3>1, <3>2 DEF w
  <2>5. CASE x # r
    BY <1>4, <2>3, <2>5 DEF w
  <2>6. QED
    BY <2>4, <2>5
<1>10. QED
  BY <1>5, <1>6

\* A seat that lost its socket, or nobody's: rosters and members as before.
LEMMA SameRoster ==
    ASSUME NEW S \in Server, NEW R, NEW T, RosterOn(S, T, Writing), NEW U,
           NEW W \in SUBSET Sockets,
           R.peers = S.peers,
           \A x \in RoomIds, y \in Peers : R.seat[x][y].ws \in {S.seat[x][y].ws, None},
           \A x \in RoomIds : \A y \in S.peers[x] :
               S.seat[x][y].ws \in W => S.seat[x][y].ws \in Writing,
           \A t \in W, x \in RoomIds : t \in Writing => U[t][x] = T[t][x]
    PROVE  RosterOn(R, U, W)
<1> SUFFICES ASSUME NEW x \in RoomIds, NEW y \in R.peers[x], R.seat[x][y].ws \in W
             PROVE  U[R.seat[x][y].ws][x] = R.peers[x] \ {y}
  BY DEF RosterOn
<1>1. y \in S.peers[x] /\ y \in Peers /\ R.peers[x] = S.peers[x]
  BY DEF Server
<1>2. R.seat[x][y].ws = S.seat[x][y].ws
  BY <1>1, SignalingAssumption
<1>3. S.seat[x][y].ws \in Writing
  BY <1>1, <1>2
<1>4. T[S.seat[x][y].ws][x] = S.peers[x] \ {y}
  BY <1>1, <1>3 DEF RosterOn
<1>5. QED
  BY <1>1, <1>2, <1>3, <1>4

\* The seat a socket holds under another id is left before it joins.
LEMMA BeforeJoinRoster ==
    ASSUME TypeOK, MapsInv(srv, Unclosed), RosterOn(srv, told, Writing), ClaimsAreSeparate,
           NEW s \in Sockets, NEW r \in RoomIds, NEW p \in Peers, <<s, r, p>> \in Claims,
           NEW S, S = BeforeJoin(srv, s, r, p),
           NEW T, T = IF PriorId(srv, s, p)
                      THEN TellLeft(told, srv, PriorRoom(srv, s, r), srv.wsIndex[s])
                      ELSE told
    PROVE  RosterOn(S, T, Writing)
<1> DEFINE S0 == [srv EXCEPT !.rooms = @ \cup {r}]
           q == srv.wsIndex[s]
           x0 == srv.peerIndex[q].roomId
<1>0. srv \in Server /\ told \in Rosters
  BY DEF TypeOK, Rosters
<1>1. /\ S0 \in Server
      /\ S0.rooms = srv.rooms \cup {r}
      /\ S0.peers = srv.peers /\ S0.seat = srv.seat
  BY <1>0 DEF Server
<1> HIDE DEF S0
<1>2. CASE ~PriorId(srv, s, p)
  <2>1. S = S0 /\ T = told
    BY <1>2 DEF BeforeJoin, S0
  <2>2. QED
    BY <1>1, <2>1 DEF RosterOn
<1>3. CASE PriorId(srv, s, p)
  <2>1. q \in Peers /\ q # None
    BY <1>0, <1>3 DEF PriorId, Server
  <2>2. /\ srv.peerIndex[q] # NoEntry
        /\ x0 \in RoomIds /\ q \in srv.peers[x0]
    BY <1>0, <2>1, IndexedSocket DEF MapsInv
  <2>3. S = OnLeave(S0, x0, q) /\ T = TellLeft(told, srv, x0, q)
    BY <1>3, <2>2 DEF BeforeJoin, PriorRoom, S0
  <2>4. x0 \in srv.rooms /\ x0 \in S0.rooms
    BY <1>1, <2>2 DEF MapsInv, RoomsAgree
  <2>5. LeaveEffect(S0, S, x0, q)
    BY <1>1, <2>1, <2>3, <2>4, OnLeaveFields
  <2> HIDE DEF q, x0
  <2>6. Without(srv, S, x0, q)
    <3>1. \A x \in RoomIds : S.peers[x] = IF x = x0 THEN srv.peers[x] \ {q} ELSE srv.peers[x]
      BY <1>1, <2>5 DEF LeaveEffect
    <3>2. \A x \in RoomIds, y \in Peers :
             ~(x = x0 /\ y = q) => S.seat[x][y].ws = srv.seat[x][y].ws
      BY <1>1, <2>5 DEF LeaveEffect
    <3>3. QED
      BY <3>1, <3>2 DEF Without
  <2>7. QED
    BY <1>0, <2>2, <2>3, <2>4, <2>6, LeftRoster
<1>4. QED
  BY <1>2, <1>3

LEMMA JoinRoster ==
    ASSUME TypeOK, SeatsInv, RosterOn(srv, told, Writing), ClaimsAreSeparate,
           NEW s \in Sockets, NEW r \in RoomIds, NEW p \in Peers, Join(s, r, p)
    PROVE  RosterOn(srv', told', Writing')
<1> DEFINE S == BeforeJoin(srv, s, r, p)
           T == IF PriorId(srv, s, p)
                THEN TellLeft(told, srv, PriorRoom(srv, s, r), srv.wsIndex[s]) ELSE told
<1>1. serving /\ sock[s] = "open" /\ <<s, r, p>> \in Claims
  BY DEF Join
<1>2. srv \in Server /\ told \in Rosters /\ s \in Unclosed /\ Unclosed \in SUBSET Sockets
  BY <1>1 DEF TypeOK, Rosters, Unclosed
<1>3. MapsInv(srv, Unclosed)
  BY <1>1, SeatsInvServing
<1>4. S \in Server /\ ReadyToJoin(S, Unclosed, s, r, p)
  BY <1>1, <1>2, <1>3, BeforeJoinType, BeforeJoinInv
<1>5. RosterOn(S, T, Writing)
  BY <1>1, <1>3, BeforeJoinRoster
<1>6. T \in Rosters
  <2>1. CASE PriorId(srv, s, p)
    <3>1. srv.wsIndex[s] \in Peers
      BY <1>2, <2>1 DEF PriorId, Server
    <3>2. QED
      BY <1>2, <2>1, <3>1, TellTypes
  <2>2. QED
    BY <1>2, <2>1
<1>7. p \in S.peers[r] =>
         /\ srv' = Resume(S, s, r, p)
         /\ told' = TellPeers(T, S, s, r, p)
         /\ sock' = sock \/ sock' = Terminate(S.seat[r][p].ws)
  BY DEF Join
<1>8. p \notin S.peers[r] =>
         /\ srv' = Enter(S, s, r, p)
         /\ told' = TellJoined(TellPeers(T, S, s, r, p), S, r, p)
         /\ sock' = sock
  BY DEF Join
<1> HIDE DEF S, T
<1>9. r \in S.rooms /\ Aligned(S) /\ \A x \in RoomIds : S.peers[x] \subseteq Peers
  BY <1>4 DEF ReadyToJoin, Server
<1>10. ASSUME NEW x \in RoomIds, NEW y \in S.peers[x], S.seat[x][y].ws = s
       PROVE  y = p /\ S.peerIndex[p].roomId = x
  <2>1. S.seat[x][y].ws # None /\ y \in Peers
    BY <1>9, <1>10, SignalingAssumption
  <2>2. S.wsIndex[s] = y /\ S.peerIndex[y].roomId = x
    BY <1>9, <1>10, <2>1 DEF Aligned, SeatsIndexed
  <2>3. S.wsIndex[s] \in {None, p}
    BY <1>4 DEF ReadyToJoin
  <2>4. QED
    BY <2>1, <2>2, <2>3, SignalingAssumption
<1>11. CASE p \in S.peers[r]
  <2>1. srv' = Resume(S, s, r, p) /\ told' = TellPeers(T, S, s, r, p)
    BY <1>7, <1>11
  <2>2. Writing' \in SUBSET Writing
    <3>1. ASSUME NEW w, sock' = Terminate(w) PROVE Writing' \in SUBSET Writing
      BY <3>1 DEF Terminate, Writing, Writable, TypeOK
    <3>2. ASSUME sock' = sock PROVE Writing' \in SUBSET Writing
      BY <3>2 DEF Writing, Writable
    <3>3. QED
      BY <1>7, <1>11, <3>1, <3>2
  <2>3. ResumeEffect(S, srv', s, r, p)
    BY <1>4, <2>1, ResumeFields
  <2>4. Reseated(S, srv', s, r, p)
    BY <2>3 DEF ResumeEffect, Reseated
  <2>5. OnlySeatOn(S, s, r, p)
    <3>1. S.peerIndex[p].roomId = r
      BY <1>9, <1>11 DEF Aligned, SeatsIndexed
    <3>2. QED
      BY <1>10, <3>1 DEF OnlySeatOn
  <2>6. QED
    BY <1>4, <1>5, <1>6, <1>9, <1>11, <2>1, <2>2, <2>4, <2>5, ResumedRoster
<1>12. CASE p \notin S.peers[r]
  <2>1. srv' = Enter(S, s, r, p) /\ Writing' = Writing
    BY <1>8, <1>12 DEF Writing, Writable
  <2>2. told' = TellJoined(TellPeers(T, S, s, r, p), S, r, p)
    BY <1>8, <1>12
  <2>3. EnterEffect(S, srv', s, r, p)
    BY <1>4, <1>9, <2>1, EnterFields
  <2>4. \A x \in RoomIds : srv'.peers[x] = IF x = r THEN S.peers[x] \cup {p} ELSE S.peers[x]
    BY <2>3 DEF EnterEffect
  <2>5. \A x \in RoomIds, y \in Peers :
           srv'.seat[x][y].ws = IF x = r /\ y = p THEN s ELSE S.seat[x][y].ws
    BY <2>3 DEF EnterEffect, NewSeat
  <2>6. \A x \in RoomIds : \A y \in S.peers[x] : S.seat[x][y].ws # s
    <3>1. ASSUME NEW x \in RoomIds, NEW y \in S.peers[x], S.seat[x][y].ws = s
          PROVE  FALSE
      <4>1. y = p
        BY <1>10, <3>1
      <4>2. PICK t \in Sockets : <<t, x, p>> \in Claims
        BY <1>9, <4>1 DEF Aligned, SeatsClaimed
      <4>3. x = r
        BY <1>1, <4>2 DEF ClaimsAreSeparate
      <4>4. QED
        BY <1>12, <4>1, <4>3
    <3>2. QED
      BY <3>1
  <2>7. RosterOn(srv', told', Writing)
    <3> DEFINE T1 == TellPeers(T, S, s, r, p)
    <3>1. told' = TellJoined(T1, S, r, p)
      BY <2>2
    <3> HIDE DEF T1
    <3>2. T1 = TellPeers(T, S, s, r, p)
      BY DEF T1
    <3>3. QED
      BY <1>4, <1>5, <1>6, <1>9, <1>12, <2>4, <2>5, <2>6, <3>1, <3>2, EnteredRoster
  <2>8. QED
    BY <2>1, <2>7
<1>13. QED
  BY <1>11, <1>12

LEMMA LeaveRoster ==
    ASSUME TypeOK, SeatsInv, RosterOn(srv, told, Writing), ClaimsAreSeparate,
           NEW s \in Sockets, NEW r \in RoomIds, NEW p \in Peers, Leave(s, r, p)
    PROVE  RosterOn(srv', told', Writing')
<1>1. /\ serving /\ Writing' = Writing /\ <<s, r, p>> \in Claims /\ srv.wsIndex[s] = p
      /\ srv' = OnLeave(srv, r, p) /\ told' = TellLeft(told, srv, r, p)
  BY DEF Leave, Writing, Writable
<1>2. srv \in Server /\ told \in Rosters
  BY DEF TypeOK, Rosters
<1>3. MapsInv(srv, Unclosed)
  BY <1>1, SeatsInvServing
<1>4. p \in srv.peers[r]
  <2>1. srv.wsIndex[s] # None
    BY <1>1, SignalingAssumption
  <2>2. <<s, srv.peerIndex[p].roomId, p>> \in Claims
    BY <1>1, <1>3, <2>1 DEF MapsInv, Aligned, SeatsClaimed
  <2>3. srv.peerIndex[p].roomId = r
    BY <1>1, <2>2 DEF ClaimsAreSeparate
  <2>4. srv.wsIndex[s] \in srv.peers[srv.peerIndex[srv.wsIndex[s]].roomId]
    BY <1>2, <1>3, <2>1, IndexedSocket DEF MapsInv
  <2>5. QED
    BY <1>1, <2>3, <2>4
<1>5. r \in srv.rooms
  BY <1>3, <1>4 DEF MapsInv, RoomsAgree
<1>6. LeaveEffect(srv, srv', r, p)
  BY <1>1, <1>2, <1>5, OnLeaveFields
<1>7. Without(srv, srv', r, p)
  BY <1>6 DEF LeaveEffect, Without
<1>8. QED
  BY <1>1, <1>2, <1>4, <1>5, <1>7, LeftRoster

LEMMA GraceExpireRoster ==
    ASSUME TypeOK, SeatsInv, RosterOn(srv, told, Writing),
           NEW r \in RoomIds, NEW p \in Peers, GraceExpire(r, p)
    PROVE  RosterOn(srv', told', Writing')
<1> DEFINE old == srv.seat[r][p]
           new == [old EXCEPT !.timer = FALSE]
           S == [srv EXCEPT !.seat[r][p].timer = FALSE]
<1>1. /\ serving /\ Writing' = Writing /\ p \in srv.peers[r]
      /\ srv \in Server /\ told \in Rosters
  BY DEF GraceExpire, Writing, Writable, TypeOK, Rosters
<1>2. MapsInv(srv, Unclosed)
  BY <1>1, SeatsInvServing
<1>3. r \in srv.rooms
  BY <1>1, <1>2 DEF MapsInv, RoomsAgree
<1>4. old \in Seat
  BY <1>1 DEF Server
<1>5. new \in Seat /\ new.ws = old.ws
  <2> HIDE DEF old
  <2> QED
    BY <1>4 DEF Seat
<1>6. /\ S.rooms = srv.rooms /\ S.peers = srv.peers
      /\ S.seat = [srv.seat EXCEPT ![r][p] = new]
      /\ S \in Server
  BY <1>1, <1>5 DEF Server
<1>7. \/ srv' = OnLeave(S, r, p) /\ told' = TellLeft(told, S, r, p)
      \/ srv' = S /\ told' = told
  BY DEF GraceExpire
<1> HIDE DEF S, new
<1>8. \A x \in RoomIds, y \in Peers : S.seat[x][y].ws = srv.seat[x][y].ws
  <2>1. S.seat[r][p] = new
    BY <1>1, <1>6 DEF Server
  <2>2. \A x \in RoomIds, y \in Peers :
           ~(x = r /\ y = p) => S.seat[x][y] = srv.seat[x][y]
    BY <1>1, <1>6 DEF Server
  <2>3. QED
    BY <1>5, <2>1, <2>2
<1>9. RosterOn(S, told, Writing)
  <2>1. \A x \in RoomIds : srv.peers[x] \subseteq Peers
    BY <1>1 DEF Server
  <2>2. QED
    BY <1>6, <1>8, <2>1 DEF RosterOn
<1>10. CASE srv' = OnLeave(S, r, p) /\ told' = TellLeft(told, S, r, p)
  <2>1. r \in S.rooms /\ p \in S.peers[r]
    BY <1>1, <1>3, <1>6
  <2>2. LeaveEffect(S, srv', r, p)
    BY <1>6, <1>10, <2>1, OnLeaveFields
  <2>3. Without(S, srv', r, p)
    BY <2>2 DEF LeaveEffect, Without
  <2>4. QED
    BY <1>1, <1>6, <1>9, <1>10, <2>1, <2>3, LeftRoster
<1>11. CASE srv' = S /\ told' = told
  BY <1>1, <1>9, <1>11
<1>12. QED
  BY <1>7, <1>10, <1>11

LEMMA CloseRoster ==
    ASSUME TypeOK, SeatsInv, RosterOn(srv, told, Writing), NEW s \in Sockets, Close(s)
    PROVE  RosterOn(srv', told', Writing')
<1>1. srv \in Server /\ srv' = OnDisconnect(srv, s)
  BY DEF Close, TypeOK
<1>2. /\ Writing' = Writing /\ s \notin Writing /\ Writing \in SUBSET Sockets
      /\ \A t \in Sockets : t # s => told'[t] = told[t]
  BY DEF Close, TypeOK, Writing, Writable
<1>3. /\ srv'.peers = srv.peers
      /\ \A x \in RoomIds, y \in Peers : srv'.seat[x][y].ws \in {srv.seat[x][y].ws, None}
  <2> DEFINE q == srv.wsIndex[s]
             x0 == srv.peerIndex[q].roomId
  <2>1. CASE srv' = srv
    BY <2>1
  <2>2. CASE srv' # srv
    <3>1. srv' = HoldSeat(srv, x0, q)
      BY <1>1, <2>2 DEF OnDisconnect
    <3>2. x0 \in srv.rooms /\ q \in srv.peers[x0]
      BY <2>2, <3>1 DEF HoldSeat
    <3> HIDE DEF q, x0
    <3>3. HoldEffect(srv, srv', x0, q)
      BY <1>1, <3>1, <3>2, HoldSeatFields
    <3>4. QED
      BY <3>3 DEF HoldEffect
  <2>3. QED
    BY <2>1, <2>2
<1>4. RosterOn(srv', told', Writing)
  BY <1>1, <1>2, <1>3, SameRoster
<1>5. QED
  BY <1>2, <1>4

LEMMA PostRoster ==
    ASSUME TypeOK, RosterOn(srv, told, Writing),
           NEW s \in Sockets, NEW r \in RoomIds, NEW p \in Peers,
           NEW to \in Peers \cup {None},
           RelayData(s, r, p, to) \/ Relay(s, r, p, to)
    PROVE  RosterOn(srv', told', Writing')
<1>1. srv \in Server /\ told' = told /\ Writing' = Writing
  BY DEF RelayData, Relay, TypeOK, Writing, Writable
<1>2. PICK b \in BOOLEAN : srv' = Post(srv, r, Addressees(r, p, to), sent + 1, b)
  BY DEF RelayData, Relay
<1>3. ASSUME NEW seat \in Seat, NEW m
      PROVE  Deliver(seat, m, b).ws = seat.ws
  BY DEF Deliver, Seat
<1>4. \A x \in RoomIds, y \in Peers : srv.seat[x][y] \in Seat
  BY <1>1 DEF Server
<1>5. \A x \in RoomIds, y \in Peers :
         \/ srv'.seat[x][y] = srv.seat[x][y]
         \/ srv'.seat[x][y] = Deliver(srv.seat[x][y], sent + 1, b)
  BY <1>1, <1>2 DEF Post, Server
<1>6. \A x \in RoomIds, y \in Peers : srv'.seat[x][y].ws = srv.seat[x][y].ws
  BY <1>3, <1>4, <1>5
<1>7. srv'.peers = srv.peers /\ \A x \in RoomIds : srv.peers[x] \subseteq Peers
  BY <1>1, <1>2 DEF Post, Server
<1>8. QED
  BY <1>1, <1>6, <1>7 DEF RosterOn

LEMMA SocketsRoster ==
    ASSUME TypeOK, RosterOn(srv, told, Writing),
           Heartbeat \/ \E s \in Sockets : OnConnect(s) \/ Pong(s) \/ ClientClose(s) \/ Vanish(s)
    PROVE  RosterOn(srv', told', Writing')
<1>1. srv' = srv /\ told' = told /\ srv \in Server
  BY DEF Heartbeat, OnConnect, Pong, ClientClose, Vanish, TypeOK
<1>2. CASE \E s \in Sockets : OnConnect(s)
  <2>1. PICK s \in Sockets : OnConnect(s)
    BY <1>2
  <2>2. Writing' = Writing \cup {s} /\ \A x \in RoomIds, y \in Peers : srv.seat[x][y].ws # s
    BY <2>1 DEF OnConnect, Unreferenced, Writing, Writable, TypeOK
  <2>3. \A x \in RoomIds : srv.peers[x] \subseteq Peers
    BY <1>1 DEF Server
  <2>4. QED
    BY <1>1, <2>2, <2>3 DEF RosterOn
<1>3. CASE Heartbeat \/ \E s \in Sockets : Pong(s) \/ ClientClose(s) \/ Vanish(s)
  <2>1. \A t \in Sockets : sock'[t] \in {"open", "zombie"} => sock[t] \in {"open", "zombie"}
    BY <1>3 DEF Heartbeat, Pong, ClientClose, Vanish, TypeOK, Writable
  <2>2. Writing' \subseteq Writing
    BY <2>1 DEF Writing, Writable
  <2>3. QED
    BY <1>1, <2>2 DEF RosterOn
<1>4. QED
  BY <1>2, <1>3

LEMMA ProcessRoster ==
    ASSUME TypeOK, Stop \/ Restart
    PROVE  RosterOn(srv', told', Writing')
<1>1. \A x \in RoomIds : srv'.peers[x] = {}
  <2>1. CASE Stop
    BY <2>1 DEF Stop, TypeOK, Server
  <2>2. CASE Restart
    BY <2>2 DEF Restart, FreshServer
  <2>3. QED
    BY <2>1, <2>2
<1>2. QED
  BY <1>1 DEF RosterOn

LEMMA InitRoster == Init => RosterTold
<1> SUFFICES ASSUME Init
             PROVE  RosterTold
  OBVIOUS
<1>1. \A r \in RoomIds : srv.peers[r] = {}
  BY DEF Init, FreshServer
<1>2. \A r \in RoomIds : Listening(srv, r) = {}
  BY <1>1 DEF Listening
<1>3. QED
  BY <1>2 DEF RosterTold

LEMMA StepRoster ==
    ASSUME ClaimsAreSeparate, TypeOK, TypeOK', SeatsInv, RosterTold, [Next]_vars
    PROVE  RosterTold'
<1>1. RosterOn(srv, told, Writing)
  BY RosterToldHere
<1>2. RosterOn(srv', told', Writing')
  <2>1. CASE UNCHANGED vars
    <3>1. srv' = srv /\ told' = told /\ Writing' = Writing
      BY <2>1 DEF vars, Writing, Writable
    <3>2. QED
      BY <1>1, <3>1
  <2>2. CASE Next
    BY <1>1, <2>2, JoinRoster, LeaveRoster, GraceExpireRoster, CloseRoster, PostRoster,
       SocketsRoster, ProcessRoster DEF Next
  <2>3. QED
    BY <2>1, <2>2
<1>3. QED
  BY <1>2, RosterToldNext

\* server.ts:303-361: the "peers", "joined" and "left" frames written to a live
\* socket add up to the membership of its room but for itself, held seats included, if
\* the clients keep to one room per peerId and one peerId per room and socket.
THEOREM RosterIsTold ==
    ASSUME ClaimsAreSeparate
    PROVE  Spec => []RosterTold
<1>1. Init => RosterTold
  BY InitRoster
<1>2. TypeOK /\ TypeOK' /\ SeatsInv /\ RosterTold /\ [Next]_vars => RosterTold'
  BY StepRoster
<1>3. QED
  BY <1>1, <1>2, SignalingTypes, SeatsAlwaysHold, PTL DEF Spec

------------------------------------------------------------------------------
(* The abstract state *)

\* The abstract state as functions of the maps.
At(S, r, p) == IF p \notin S.peers[r] THEN "out"
               ELSE IF S.seat[r][p].ws = None THEN "away" ELSE "here"
Presence(S) == [r \in RoomIds |-> [p \in Peers |-> At(S, r, p)]]
Inbox(S) == [r \in RoomIds |-> [p \in Peers |-> S.seat[r][p].got]]
Waiting(S) == [r \in RoomIds |-> [p \in Peers |-> S.seat[r][p].queue]]

\* The invariant the mapping rests on besides those of SignalingProofs and FramesInv:
\* nothing is left of a peer that has no place.
Vacant(S) == \A r \in RoomIds : \A p \in Peers : p \notin S.peers[r] => S.seat[r][p] = NoSeat

Abstract(V) == [RoomIds -> [Peers -> V]]

------------------------------------------------------------------------------
(* The mapping *)

LEMMA ViewTypes ==
    ASSUME NEW S \in Server
    PROVE  /\ Presence(S) \in Abstract({"out", "here", "away"})
           /\ Inbox(S) \in Abstract(Seq(Frames))
           /\ Waiting(S) \in Abstract(Seq(Frames))
<1>1. \A r \in RoomIds, p \in Peers : S.seat[r][p] \in Seat
  BY DEF Server
<1>2. \A r \in RoomIds, p \in Peers :
         S.seat[r][p].got \in Seq(Frames) /\ S.seat[r][p].queue \in Seq(Frames)
  BY <1>1 DEF Seat
<1>3. \A r \in RoomIds, p \in Peers : At(S, r, p) \in {"out", "here", "away"}
  BY DEF At
<1>4. QED
  BY <1>2, <1>3 DEF Presence, Inbox, Waiting, Abstract

LEMMA MapsAreViews ==
    /\ presence = Presence(srv) /\ inbox = Inbox(srv) /\ waiting = Waiting(srv)
    /\ presence' = Presence(srv') /\ inbox' = Inbox(srv') /\ waiting' = Waiting(srv')
BY DEF presence, inbox, waiting, Presence, Inbox, Waiting, PresenceOf, At

\* Two tables that differ at one place, or nowhere.
LEMMA OneChanged ==
    ASSUME NEW V, NEW f \in Abstract(V), NEW g \in Abstract(V),
           NEW r \in RoomIds, NEW p \in Peers,
           \A x \in RoomIds, y \in Peers : x # r \/ y # p => g[x][y] = f[x][y]
    PROVE  g = [f EXCEPT ![r][p] = g[r][p]]
<1>1. g[r] = [f[r] EXCEPT ![p] = g[r][p]]
  BY DEF Abstract
<1>2. \A x \in RoomIds : x # r => g[x] = f[x]
  <2>1. ASSUME NEW x \in RoomIds, x # r  PROVE g[x] = f[x]
    <3>1. \A y \in Peers : g[x][y] = f[x][y]
      BY <2>1
    <3>2. QED
      BY <3>1 DEF Abstract
  <2>2. QED
    BY <2>1
<1>3. QED
  BY <1>1, <1>2 DEF Abstract

\* Maps that differ at one place.
SameElsewhere(S, R, r, p) ==
    \A x \in RoomIds, y \in Peers : x # r \/ y # p =>
       /\ y \in R.peers[x] <=> y \in S.peers[x]
       /\ R.seat[x][y] = S.seat[x][y]

LEMMA PlaceChanged ==
    ASSUME NEW S \in Server, NEW R \in Server, NEW r \in RoomIds, NEW p \in Peers,
           SameElsewhere(S, R, r, p)
    PROVE  /\ Presence(R) = [Presence(S) EXCEPT ![r][p] = At(R, r, p)]
           /\ Inbox(R) = [Inbox(S) EXCEPT ![r][p] = R.seat[r][p].got]
           /\ Waiting(R) = [Waiting(S) EXCEPT ![r][p] = R.seat[r][p].queue]
<1>1. /\ Presence(S) \in Abstract({"out", "here", "away"})
      /\ Presence(R) \in Abstract({"out", "here", "away"})
      /\ Inbox(S) \in Abstract(Seq(Frames)) /\ Inbox(R) \in Abstract(Seq(Frames))
      /\ Waiting(S) \in Abstract(Seq(Frames)) /\ Waiting(R) \in Abstract(Seq(Frames))
  BY ViewTypes
<1>2. \A x \in RoomIds, y \in Peers : x # r \/ y # p =>
         /\ Presence(R)[x][y] = Presence(S)[x][y]
         /\ Inbox(R)[x][y] = Inbox(S)[x][y]
         /\ Waiting(R)[x][y] = Waiting(S)[x][y]
  BY DEF Presence, Inbox, Waiting, At, SameElsewhere
<1>3. /\ Presence(R)[r][p] = At(R, r, p)
      /\ Inbox(R)[r][p] = R.seat[r][p].got
      /\ Waiting(R)[r][p] = R.seat[r][p].queue
  BY DEF Presence, Inbox, Waiting
<1>4. Presence(R) = [Presence(S) EXCEPT ![r][p] = Presence(R)[r][p]]
  BY <1>1, <1>2, OneChanged
<1>5. Inbox(R) = [Inbox(S) EXCEPT ![r][p] = Inbox(R)[r][p]]
  BY <1>1, <1>2, OneChanged
<1>6. Waiting(R) = [Waiting(S) EXCEPT ![r][p] = Waiting(R)[r][p]]
  BY <1>1, <1>2, OneChanged
<1>7. QED
  BY <1>3, <1>4, <1>5, <1>6

\* Maps that differ only in what the mapping hides.
LEMMA SameViews ==
    ASSUME NEW S \in Server, NEW R \in Server,
           \A x \in RoomIds, y \in Peers :
              /\ y \in R.peers[x] <=> y \in S.peers[x]
              /\ R.seat[x][y].ws = S.seat[x][y].ws
              /\ R.seat[x][y].got = S.seat[x][y].got
              /\ R.seat[x][y].queue = S.seat[x][y].queue
    PROVE  Presence(R) = Presence(S) /\ Inbox(R) = Inbox(S) /\ Waiting(R) = Waiting(S)
<1>1. \A x \in RoomIds, y \in Peers : At(R, x, y) = At(S, x, y)
  BY DEF At
<1>2. QED
  BY <1>1 DEF Presence, Inbox, Waiting

------------------------------------------------------------------------------
(* What each handler does to the seats, whole *)

LEMMA HoldSeatSeats ==
    ASSUME NEW S \in Server, NEW r \in S.rooms, NEW p \in S.peers[r]
    PROVE  LET R == HoldSeat(S, r, p)
               st == S.seat[r][p]
           IN  /\ R.peers = S.peers
               /\ R.seat[r][p].got = st.got /\ R.seat[r][p].queue = st.queue
               /\ R.seat[r][p].ws = None
               /\ \A x \in RoomIds, y \in Peers :
                     x # r \/ y # p => R.seat[x][y] = S.seat[x][y]
<1> DEFINE st == S.seat[r][p]
           new == [st EXCEPT !.ws = None, !.timer = TRUE]
           R == HoldSeat(S, r, p)
<1>1. r \in RoomIds /\ p \in Peers /\ st \in Seat /\ S.seat \in [RoomIds -> [Peers -> Seat]]
  BY DEF Server
<1>2. R.seat = [S.seat EXCEPT ![r][p] = new] /\ R.peers = S.peers
  BY <1>1 DEF HoldSeat, Server
<1> HIDE DEF R, st
<1>3. new.got = st.got /\ new.queue = st.queue /\ new.ws = None
  BY <1>1 DEF Seat
<1> HIDE DEF new
<1>4. /\ R.seat[r][p] = new
      /\ \A x \in RoomIds, y \in Peers : x # r \/ y # p => R.seat[x][y] = S.seat[x][y]
  BY <1>1, <1>2
<1>5. /\ R.seat[r][p].got = st.got /\ R.seat[r][p].queue = st.queue
      /\ R.seat[r][p].ws = None
  BY <1>3, <1>4
<1>6. QED
  BY <1>2, <1>4, <1>5 DEF R, st

ResumesSeat(S, R, s, r, p) ==
    /\ R.peers = S.peers
    /\ R.seat[r][p].got = S.seat[r][p].got \o S.seat[r][p].queue
    /\ R.seat[r][p].queue = <<>> /\ R.seat[r][p].ws = s
    /\ \A x \in RoomIds, y \in Peers : x # r \/ y # p => R.seat[x][y] = S.seat[x][y]

LEMMA ResumeSeats ==
    ASSUME NEW S \in Server, NEW s \in Sockets, NEW r \in RoomIds, NEW p \in Peers
    PROVE  ResumesSeat(S, Resume(S, s, r, p), s, r, p)
<1> DEFINE st == S.seat[r][p]
           all == st.got \o st.queue
           new == [st EXCEPT !.ws = s, !.timer = FALSE, !.queue = <<>>,
                             !.got = all, !.owed = <<>>]
           R == Resume(S, s, r, p)
<1>1. st \in Seat /\ S.seat \in [RoomIds -> [Peers -> Seat]]
  BY DEF Server
<1>2. R.seat = [S.seat EXCEPT ![r][p] = new] /\ R.peers = S.peers
  BY DEF Resume, Server
<1> HIDE DEF R, all, st
<1>3. new.got = all /\ new.queue = <<>> /\ new.ws = s
  BY <1>1 DEF Seat
<1> HIDE DEF new
<1>4. /\ R.seat[r][p] = new
      /\ \A x \in RoomIds, y \in Peers : x # r \/ y # p => R.seat[x][y] = S.seat[x][y]
  BY <1>1, <1>2
<1>5. /\ R.seat[r][p].got = all /\ R.seat[r][p].queue = <<>>
      /\ R.seat[r][p].ws = s
  BY <1>3, <1>4
<1>6. QED
  BY <1>2, <1>4, <1>5 DEF R, st, all, ResumesSeat

LEMMA PostSeats ==
    ASSUME NEW S \in Server, NEW r \in RoomIds, NEW To, NEW m, NEW b
    PROVE  LET R == Post(S, r, To, m, b)
           IN  /\ R.peers = S.peers
               /\ \A x \in RoomIds, y \in Peers :
                     R.seat[x][y] = IF x = r /\ y \in To THEN Deliver(S.seat[x][y], m, b)
                                                         ELSE S.seat[x][y]
<1> DEFINE R == Post(S, r, To, m, b)
<1>1. S.seat \in [RoomIds -> [Peers -> Seat]]
  BY DEF Server
<1>2. /\ R.peers = S.peers
      /\ R.seat = [S.seat EXCEPT ![r] = [p \in Peers |->
                     IF p \in To THEN Deliver(@[p], m, b) ELSE @[p]]]
  BY DEF Post, Server
<1> HIDE DEF R
<1>3. ASSUME NEW x \in RoomIds, NEW y \in Peers
      PROVE  R.seat[x][y] = IF x = r /\ y \in To THEN Deliver(S.seat[x][y], m, b)
                                                 ELSE S.seat[x][y]
  <2>1. CASE x = r
    BY <1>1, <1>2, <2>1
  <2>2. CASE x # r
    BY <1>1, <1>2, <2>2
  <2>3. QED
    BY <2>1, <2>2
<1>4. QED
  BY <1>2, <1>3 DEF R

------------------------------------------------------------------------------
(* What each handler does to the places *)

LEMMA NoSeatIsEmpty == NoSeat.got = <<>> /\ NoSeat.queue = <<>> /\ NoSeat.ws = None
BY DEF NoSeat, NewSeat

\* A place that is cleared.
Clears(S, R, r, p) ==
    /\ \A x \in RoomIds : R.peers[x] = IF x = r THEN S.peers[x] \ {p} ELSE S.peers[x]
    /\ \A x \in RoomIds, y \in Peers :
          R.seat[x][y] = IF x = r /\ y = p THEN NoSeat ELSE S.seat[x][y]

LEMMA ClearedViews ==
    ASSUME NEW S \in Server, NEW R \in Server, NEW r \in RoomIds, NEW p \in Peers,
           Clears(S, R, r, p)
    PROVE  /\ Presence(R) = [Presence(S) EXCEPT ![r][p] = "out"]
           /\ Inbox(R) = [Inbox(S) EXCEPT ![r][p] = <<>>]
           /\ Waiting(R) = [Waiting(S) EXCEPT ![r][p] = <<>>]
           /\ Vacant(S) => Vacant(R)
<1>1. R.seat[r][p] = NoSeat /\ p \notin R.peers[r]
  BY DEF Clears
<1>2. SameElsewhere(S, R, r, p)
  BY DEF Clears, SameElsewhere
<1>3. At(R, r, p) = "out"
  BY <1>1 DEF At
<1>4. /\ Presence(R) = [Presence(S) EXCEPT ![r][p] = At(R, r, p)]
      /\ Inbox(R) = [Inbox(S) EXCEPT ![r][p] = R.seat[r][p].got]
      /\ Waiting(R) = [Waiting(S) EXCEPT ![r][p] = R.seat[r][p].queue]
  BY <1>2, PlaceChanged
<1>5. ASSUME Vacant(S), NEW x \in RoomIds, NEW y \in Peers, y \notin R.peers[x]
      PROVE  R.seat[x][y] = NoSeat
  <2>1. CASE x = r /\ y = p
    BY <1>1, <2>1
  <2>2. CASE ~(x = r /\ y = p)
    BY <1>2, <1>5, <2>2 DEF Vacant, SameElsewhere
  <2>3. QED
    BY <2>1, <2>2
<1>6. Vacant(S) => Vacant(R)
  BY <1>5 DEF Vacant
<1>7. QED
  BY <1>1, <1>3, <1>4, <1>6, NoSeatIsEmpty

\* A leave clears one place.
LEMMA LeftViews ==
    ASSUME NEW S \in Server, NEW r \in S.rooms, NEW p \in Peers
    PROVE  LET R == OnLeave(S, r, p)
           IN  /\ Presence(R) = [Presence(S) EXCEPT ![r][p] = "out"]
               /\ Inbox(R) = [Inbox(S) EXCEPT ![r][p] = <<>>]
               /\ Waiting(R) = [Waiting(S) EXCEPT ![r][p] = <<>>]
               /\ Vacant(S) => Vacant(R)
<1> DEFINE R == OnLeave(S, r, p)
<1>1. r \in RoomIds
  BY DEF Server
<1>2. R \in Server /\ LeaveEffect(S, R, r, p)
  BY <1>1, OnLeaveType, OnLeaveFields
<1> HIDE DEF R
<1>3. Clears(S, R, r, p)
  BY <1>2 DEF LeaveEffect, Clears
<1>4. /\ Presence(R) = [Presence(S) EXCEPT ![r][p] = "out"]
      /\ Inbox(R) = [Inbox(S) EXCEPT ![r][p] = <<>>]
      /\ Waiting(R) = [Waiting(S) EXCEPT ![r][p] = <<>>]
      /\ Vacant(S) => Vacant(R)
  BY <1>1, <1>2, <1>3, ClearedViews
<1>5. QED
  BY <1>4 DEF R

\* A held seat keeps its frames; only its peer is away.
LEMMA HeldViews ==
    ASSUME NEW S \in Server, NEW r \in S.rooms, NEW p \in S.peers[r]
    PROVE  LET R == HoldSeat(S, r, p)
           IN  /\ Presence(R) = [Presence(S) EXCEPT ![r][p] = "away"]
               /\ Inbox(R) = Inbox(S)
               /\ Waiting(R) = Waiting(S)
               /\ Vacant(S) => Vacant(R)
<1> DEFINE R == HoldSeat(S, r, p)
<1>1. r \in RoomIds /\ p \in Peers
  BY DEF Server
<1>2. R \in Server
  BY <1>1, HoldSeatType
<1>3. /\ R.peers = S.peers
      /\ R.seat[r][p].got = S.seat[r][p].got /\ R.seat[r][p].queue = S.seat[r][p].queue
      /\ R.seat[r][p].ws = None
      /\ \A x \in RoomIds, y \in Peers : x # r \/ y # p => R.seat[x][y] = S.seat[x][y]
  BY HoldSeatSeats
<1> HIDE DEF R
<1>4. Presence(R) = [Presence(S) EXCEPT ![r][p] = At(R, r, p)]
  <2>1. SameElsewhere(S, R, r, p)
    BY <1>3 DEF SameElsewhere
  <2>2. QED
    BY <1>1, <1>2, <2>1, PlaceChanged
<1>5. At(R, r, p) = "away"
  BY <1>3 DEF At
<1>6. Inbox(R) = Inbox(S) /\ Waiting(R) = Waiting(S)
  <2>1. \A x \in RoomIds, y \in Peers : /\ R.seat[x][y].got = S.seat[x][y].got
                                        /\ R.seat[x][y].queue = S.seat[x][y].queue
    BY <1>3
  <2>2. QED
    BY <2>1 DEF Inbox, Waiting
<1>7. Vacant(S) => Vacant(R)
  BY <1>1, <1>3 DEF Vacant
<1>8. QED
  BY <1>4, <1>5, <1>6, <1>7 DEF R

\* The first half of onJoin gives up at most one place, that of a peer who is here,
\* and not the joiner's.
SameViewsOf(S, R) ==
    Presence(R) = Presence(S) /\ Inbox(R) = Inbox(S) /\ Waiting(R) = Waiting(S)

GivesUp(S, R, p) ==
    \E x0 \in RoomIds, q \in Peers :
       /\ q # p
       /\ Presence(S)[x0][q] = "here"
       /\ Presence(R) = [Presence(S) EXCEPT ![x0][q] = "out"]
       /\ Inbox(R) = [Inbox(S) EXCEPT ![x0][q] = <<>>]
       /\ Waiting(R) = [Waiting(S) EXCEPT ![x0][q] = <<>>]

LEMMA BeforeJoinViews ==
    ASSUME NEW S \in Server, NEW R \in Server, NEW s \in Sockets, NEW p \in Peers,
           BeforeJoinEffect(S, R, s, p), Vacant(S)
    PROVE  /\ Vacant(R)
           /\ SameViewsOf(S, R) \/ GivesUp(S, R, p)
           /\ \A x \in RoomIds : R.seat[x][p] = S.seat[x][p]
<1>1. CASE R.peers = S.peers /\ R.seat = S.seat
  BY <1>1 DEF Presence, Inbox, Waiting, At, Vacant, SameViewsOf
<1>2. CASE ~(R.peers = S.peers /\ R.seat = S.seat)
  <2>1. PICK x0 \in RoomIds : \E q \in S.peers[x0] :
           /\ q # p
           /\ S.seat[x0][q].ws = s
           /\ \A x \in RoomIds : R.peers[x] = IF x = x0 THEN S.peers[x] \ {q} ELSE S.peers[x]
           /\ \A x \in RoomIds, y \in Peers :
                 R.seat[x][y] = IF x = x0 /\ y = q THEN NoSeat ELSE S.seat[x][y]
    BY <1>2 DEF BeforeJoinEffect
  <2>2. PICK q \in S.peers[x0] :
           /\ q # p
           /\ S.seat[x0][q].ws = s
           /\ \A x \in RoomIds : R.peers[x] = IF x = x0 THEN S.peers[x] \ {q} ELSE S.peers[x]
           /\ \A x \in RoomIds, y \in Peers :
                 R.seat[x][y] = IF x = x0 /\ y = q THEN NoSeat ELSE S.seat[x][y]
    BY <2>1
  <2>3. q \in Peers /\ s # None
    BY SignalingAssumption DEF Server
  <2>c. Clears(S, R, x0, q)
    BY <2>2 DEF Clears
  <2>4. /\ Presence(R) = [Presence(S) EXCEPT ![x0][q] = "out"]
        /\ Inbox(R) = [Inbox(S) EXCEPT ![x0][q] = <<>>]
        /\ Waiting(R) = [Waiting(S) EXCEPT ![x0][q] = <<>>]
        /\ Vacant(R)
    BY <2>3, <2>c, ClearedViews
  <2>5. Presence(S)[x0][q] = "here"
    BY <2>2, <2>3 DEF Presence, At
  <2>6. \A x \in RoomIds : R.seat[x][p] = S.seat[x][p]
    BY <2>2
  <2>7. GivesUp(S, R, p)
    BY <2>2, <2>3, <2>4, <2>5 DEF GivesUp
  <2>8. QED
    BY <2>4, <2>6, <2>7
<1>3. QED
  BY <1>1, <1>2

\* The second half: the joiner is here and has what waited for it.
JoinedViews(S, R, r, p) ==
    /\ Presence(R) = [Presence(S) EXCEPT ![r][p] = "here"]
    /\ Inbox(R) = [Inbox(S) EXCEPT ![r][p] = Inbox(S)[r][p] \o Waiting(S)[r][p]]
    /\ Waiting(R) = [Waiting(S) EXCEPT ![r][p] = <<>>]
    /\ Vacant(R)

Seats(S, R, s, r, p) ==
    /\ \A x \in RoomIds, y \in Peers :
          y \in R.peers[x] <=> y \in S.peers[x] \/ (x = r /\ y = p)
    /\ R.seat[r][p].ws = s /\ R.seat[r][p].queue = <<>>
    /\ R.seat[r][p].got = S.seat[r][p].got \o S.seat[r][p].queue
    /\ \A x \in RoomIds, y \in Peers : x # r \/ y # p => R.seat[x][y] = S.seat[x][y]

LEMMA JoinedAt ==
    ASSUME NEW S \in Server, NEW R \in Server, NEW s \in Sockets,
           NEW r \in RoomIds, NEW p \in Peers,
           Seats(S, R, s, r, p), Vacant(S)
    PROVE  JoinedViews(S, R, r, p)
<1>1. s # None
  BY SignalingAssumption
<1>2. At(R, r, p) = "here"
  BY <1>1 DEF At, Seats
<1>3. SameElsewhere(S, R, r, p)
  BY DEF SameElsewhere, Seats
<1>4. /\ Presence(R) = [Presence(S) EXCEPT ![r][p] = At(R, r, p)]
      /\ Inbox(R) = [Inbox(S) EXCEPT ![r][p] = R.seat[r][p].got]
      /\ Waiting(R) = [Waiting(S) EXCEPT ![r][p] = R.seat[r][p].queue]
  BY <1>3, PlaceChanged
<1>5. Inbox(S)[r][p] = S.seat[r][p].got /\ Waiting(S)[r][p] = S.seat[r][p].queue
  BY DEF Inbox, Waiting
<1>6. ASSUME NEW x \in RoomIds, NEW y \in Peers, y \notin R.peers[x]
      PROVE  R.seat[x][y] = NoSeat
  BY <1>6 DEF Vacant, Seats
<1>7. Vacant(R)
  BY <1>6 DEF Vacant
<1>8. QED
  BY <1>2, <1>4, <1>5, <1>7 DEF JoinedViews, Seats

LEMMA ResumedViews ==
    ASSUME NEW S \in Server, NEW s \in Sockets, NEW r \in RoomIds, NEW p \in S.peers[r],
           Vacant(S)
    PROVE  JoinedViews(S, Resume(S, s, r, p), r, p)
<1> DEFINE R == Resume(S, s, r, p)
<1>1. p \in Peers
  BY DEF Server
<1>2. R \in Server
  BY <1>1, ResumeType
<1>3. ResumesSeat(S, R, s, r, p)
  BY <1>1, ResumeSeats
<1> HIDE DEF R
<1>4. Seats(S, R, s, r, p)
  BY <1>1, <1>3 DEF Seats, ResumesSeat
<1>5. JoinedViews(S, R, r, p)
  BY <1>1, <1>2, <1>4, JoinedAt
<1>6. QED
  BY <1>5 DEF R

LEMMA EnteredViews ==
    ASSUME NEW S \in Server, NEW s \in Sockets, NEW r \in S.rooms, NEW p \in Peers,
           p \notin S.peers[r], Vacant(S)
    PROVE  JoinedViews(S, Enter(S, s, r, p), r, p)
<1> DEFINE R == Enter(S, s, r, p)
<1>1. r \in RoomIds
  BY DEF Server
<1>2. R \in Server
  BY <1>1, EnterType
<1>3. EnterEffect(S, R, s, r, p)
  BY EnterFields
<1> HIDE DEF R
<1>4. \A x \in RoomIds, y \in Peers :
         y \in R.peers[x] <=> y \in S.peers[x] \/ (x = r /\ y = p)
  <2>1. \A x \in RoomIds : R.peers[x] = IF x = r THEN S.peers[x] \cup {p} ELSE S.peers[x]
    BY <1>3 DEF EnterEffect
  <2>2. QED
    BY <2>1
<1>5. \A x \in RoomIds, y \in Peers :
         R.seat[x][y] = IF x = r /\ y = p THEN NewSeat(s) ELSE S.seat[x][y]
  BY <1>3 DEF EnterEffect
<1>6. R.seat[r][p].ws = s /\ R.seat[r][p].queue = <<>> /\ R.seat[r][p].got = <<>>
  BY <1>1, <1>5 DEF NewSeat
<1>7. S.seat[r][p].got = <<>> /\ S.seat[r][p].queue = <<>>
  BY <1>1, NoSeatIsEmpty DEF Vacant
<1>8. R.seat[r][p].got = S.seat[r][p].got \o S.seat[r][p].queue
  <2>1. <<>> \o <<>> = <<>>
    OBVIOUS
  <2>2. QED
    BY <1>6, <1>7, <2>1
<1>9. \A x \in RoomIds, y \in Peers : x # r \/ y # p => R.seat[x][y] = S.seat[x][y]
  BY <1>5
<1>10. Seats(S, R, s, r, p)
  BY <1>4, <1>6, <1>8, <1>9 DEF Seats
<1>11. JoinedViews(S, R, r, p)
  BY <1>1, <1>2, <1>10, JoinedAt
<1>12. QED
  BY <1>11 DEF R

\* Two tables that differ in one row.
LEMMA RowChanged ==
    ASSUME NEW V, NEW f \in Abstract(V), NEW g \in Abstract(V), NEW r \in RoomIds,
           \A x \in RoomIds, y \in Peers : x # r => g[x][y] = f[x][y]
    PROVE  g = [f EXCEPT ![r] = g[r]]
<1>1. ASSUME NEW x \in RoomIds, x # r  PROVE g[x] = f[x]
  <2>1. \A y \in Peers : g[x][y] = f[x][y]
    BY <1>1
  <2>2. QED
    BY <2>1 DEF Abstract
<1>2. QED
  BY <1>1 DEF Abstract

\* At most one frame over the cap, what deliver keeps is the newest QUEUE_MAX_MSGS.
LEMMA DropIsNewest ==
    ASSUME NEW q \in Seq(Frames), NEW m \in Frames, Len(q) <= QueueMax
    PROVE  DropOldest(Append(q, m)) = Service!Newest(Append(q, m))
<1> DEFINE z == Append(q, m)
<1>1. /\ z \in Seq(Frames) /\ Len(z) = Len(q) + 1 /\ Len(q) \in Nat
      /\ QueueMax \in Nat \ {0}
  BY SignalingAssumption
<1> HIDE DEF z
<1>2. CASE Len(z) > QueueMax
  <2>1. Len(z) = QueueMax + 1
    BY <1>1, <1>2
  <2>2. Tail(z) = SubSeq(z, 2, Len(z))
    <3>1. z # <<>>
      BY <1>1, <2>1
    <3>2. /\ Tail(z) \in Seq(Frames) /\ Len(Tail(z)) = Len(z) - 1
          /\ \A i \in 1..Len(Tail(z)) : Tail(z)[i] = z[i + 1]
      BY <1>1, <3>1
    <3>3. \A i \in 2..Len(z) : z[i] \in Frames
      BY <1>1
    <3>4. /\ SubSeq(z, 2, Len(z)) \in Seq(Frames)
          /\ Len(SubSeq(z, 2, Len(z))) = Len(z) - 1
          /\ \A i \in 1..Len(z) - 1 : SubSeq(z, 2, Len(z))[i] = z[i + 1]
      BY <1>1, <2>1, <3>3, SubSeqProperties
    <3>5. QED
      BY <3>2, <3>4, SeqEqual
  <2>3. Len(z) - QueueMax + 1 = 2
    BY <1>1, <2>1
  <2>4. Service!Newest(z) = SubSeq(z, 2, Len(z))
    BY <1>2, <2>3 DEF Service!Newest
  <2>5. QED
    BY <1>2, <2>2, <2>4 DEF DropOldest, z
<1>3. CASE ~(Len(z) > QueueMax)
  BY <1>3 DEF DropOldest, Service!Newest, z
<1>4. QED
  BY <1>2, <1>3

\* A frame for the seats in To: handed to those whose socket is open, kept for those
\* who are away if it may be, the newest QueueMax of them.
Delivered(S, R, r, To, Swallowed, m, b) ==
    /\ Presence(R) = Presence(S)
    /\ Inbox(R) = [Inbox(S) EXCEPT ![r] = [p \in Peers |->
          IF p \in To \ Swallowed /\ Presence(S)[r][p] = "here"
          THEN Append(@[p], m) ELSE @[p]]]
    /\ Waiting(R) = [Waiting(S) EXCEPT ![r] = [p \in Peers |->
          IF b /\ p \in To /\ Presence(S)[r][p] = "away"
          THEN Service!Newest(Append(@[p], m)) ELSE @[p]]]

LEMMA PostedViews ==
    ASSUME NEW S \in Server, NEW n, MapsFrames(S, n), Vacant(S),
           NEW r \in RoomIds, NEW To \in SUBSET S.peers[r], NEW m \in Frames, NEW b \in BOOLEAN
    PROVE  /\ Vacant(Post(S, r, To, m, b))
           /\ \E W \in SUBSET To : Delivered(S, Post(S, r, To, m, b), r, To, W, m, b)
<1> DEFINE R == Post(S, r, To, m, b)
           Swallowed == {p \in To : S.seat[r][p].ws # None /\ sock[S.seat[r][p].ws] # "open"}
<1>1. /\ R.peers = S.peers
      /\ \A x \in RoomIds, y \in Peers :
            R.seat[x][y] = IF x = r /\ y \in To THEN Deliver(S.seat[x][y], m, b)
                                                ELSE S.seat[x][y]
  BY PostSeats
<1>2. R \in Server
  BY PostType
<1> HIDE DEF R
<1>3. \A x \in RoomIds, y \in Peers : x # r \/ y \notin To => R.seat[x][y] = S.seat[x][y]
  BY <1>1
<1>4. /\ Inbox(S) \in Abstract(Seq(Frames)) /\ Inbox(R) \in Abstract(Seq(Frames))
      /\ Waiting(S) \in Abstract(Seq(Frames)) /\ Waiting(R) \in Abstract(Seq(Frames))
  BY <1>2, ViewTypes
<1>5. ASSUME NEW y \in To
      PROVE  /\ y \in Peers /\ R.seat[r][y].ws = S.seat[r][y].ws
             /\ Presence(S)[r][y] = IF S.seat[r][y].ws = None THEN "away" ELSE "here"
             /\ R.seat[r][y].got = IF y \notin Swallowed /\ Presence(S)[r][y] = "here"
                                   THEN Append(S.seat[r][y].got, m) ELSE S.seat[r][y].got
             /\ R.seat[r][y].queue = IF b /\ Presence(S)[r][y] = "away"
                                     THEN Service!Newest(Append(S.seat[r][y].queue, m))
                                     ELSE S.seat[r][y].queue
  <2> DEFINE st == S.seat[r][y]
             x == Deliver(st, m, b)
             z == DropOldest(Append(st.queue, m))
  <2>1. y \in Peers /\ y \in S.peers[r] /\ st \in Seat
    BY DEF Server
  <2>2. R.seat[r][y] = x
    BY <1>1, <2>1
  <2>3. Presence(S)[r][y] = IF st.ws = None THEN "away" ELSE "here"
    BY <2>1 DEF Presence, At
  <2>4. y \in Swallowed <=> st.ws # None /\ sock[st.ws] # "open"
    OBVIOUS
  <2>5. z = Service!Newest(Append(st.queue, m))
    <3>1. Backlog(st)
      BY <2>1 DEF MapsFrames
    <3> HIDE DEF st
    <3>2. st.queue \in Seq(Frames) /\ Len(st.queue) <= QueueMax
      <4>1. st.queue \in Seq(Frames) /\ st.owed \in Seq(Frames)
        BY <2>1 DEF Seat
      <4>2. Len(st.owed) \in Nat /\ QueueMax \in Nat
        BY <4>1, SignalingAssumption
      <4>3. QED
        BY <3>1, <4>1, <4>2 DEF Backlog
    <3>3. QED
      BY <3>2, DropIsNewest
  <2> HIDE DEF st, Swallowed, z
  <2>6. /\ x.ws = st.ws
        /\ x.got = IF st.ws # None /\ sock[st.ws] = "open" THEN Append(st.got, m) ELSE st.got
        /\ x.queue = IF st.ws = None /\ b THEN z ELSE st.queue
    <3>1. CASE st.ws # None /\ sock[st.ws] = "open"
      BY <2>1, <3>1 DEF Deliver, Seat
    <3>2. CASE st.ws = None /\ b
      BY <2>1, <3>2 DEF Deliver, Seat, z
    <3>3. CASE ~(st.ws # None /\ sock[st.ws] = "open") /\ ~(st.ws = None /\ b)
      BY <2>1, <3>3 DEF Deliver, Seat
    <3>4. QED
      BY <3>1, <3>2, <3>3
  <2> HIDE DEF x
  <2>7. QED
    BY <2>1, <2>2, <2>3, <2>4, <2>5, <2>6 DEF st
<1> HIDE DEF Swallowed
<1>6. Presence(R) = Presence(S)
  <2>1. \A x \in RoomIds, y \in Peers : At(R, x, y) = At(S, x, y)
    BY <1>1, <1>3, <1>5 DEF At
  <2>2. QED
    BY <2>1 DEF Presence
<1>7. Inbox(R) = [Inbox(S) EXCEPT ![r] = [p \in Peers |->
                     IF p \in To \ Swallowed /\ Presence(S)[r][p] = "here"
                     THEN Append(@[p], m) ELSE @[p]]]
  <2>1. \A x \in RoomIds, y \in Peers : x # r => Inbox(R)[x][y] = Inbox(S)[x][y]
    BY <1>3 DEF Inbox
  <2>2. Inbox(R) = [Inbox(S) EXCEPT ![r] = Inbox(R)[r]]
    BY <1>4, <2>1, RowChanged
  <2>3. \A p \in Peers : R.seat[r][p].got =
           IF p \in To \ Swallowed /\ Presence(S)[r][p] = "here"
           THEN Append(S.seat[r][p].got, m) ELSE S.seat[r][p].got
    BY <1>3, <1>5
  <2>4. Inbox(R)[r] = [p \in Peers |->
           IF p \in To \ Swallowed /\ Presence(S)[r][p] = "here"
           THEN Append(Inbox(S)[r][p], m) ELSE Inbox(S)[r][p]]
    BY <2>3 DEF Inbox
  <2>5. Inbox(S) = [x \in RoomIds |-> Inbox(S)[x]]
    BY DEF Inbox
  <2>6. QED
    BY <2>2, <2>4, <2>5
<1>8. Waiting(R) = [Waiting(S) EXCEPT ![r] = [p \in Peers |->
                     IF b /\ p \in To /\ Presence(S)[r][p] = "away"
                     THEN Service!Newest(Append(@[p], m)) ELSE @[p]]]
  <2>1. \A x \in RoomIds, y \in Peers : x # r => Waiting(R)[x][y] = Waiting(S)[x][y]
    BY <1>3 DEF Waiting
  <2>2. Waiting(R) = [Waiting(S) EXCEPT ![r] = Waiting(R)[r]]
    BY <1>4, <2>1, RowChanged
  <2>3. \A p \in Peers : R.seat[r][p].queue =
           IF b /\ p \in To /\ Presence(S)[r][p] = "away"
           THEN Service!Newest(Append(S.seat[r][p].queue, m)) ELSE S.seat[r][p].queue
    BY <1>3, <1>5
  <2>4. Waiting(R)[r] = [p \in Peers |->
           IF b /\ p \in To /\ Presence(S)[r][p] = "away"
           THEN Service!Newest(Append(Waiting(S)[r][p], m)) ELSE Waiting(S)[r][p]]
    BY <2>3 DEF Waiting
  <2>5. Waiting(S) = [x \in RoomIds |-> Waiting(S)[x]]
    BY DEF Waiting
  <2>6. QED
    BY <2>2, <2>4, <2>5
<1>9. Vacant(R)
  BY <1>1, <1>3 DEF Vacant
<1>10. Delivered(S, R, r, To, Swallowed, m, b)
  BY <1>6, <1>7, <1>8 DEF Delivered
<1>11. Swallowed \in SUBSET To
  BY DEF Swallowed
<1>12. QED
  BY <1>9, <1>10, <1>11 DEF R

------------------------------------------------------------------------------
(* Every step of the server is a step of the service *)

\* The inductive invariant of the mapping.
PlacesInv == TypeOK /\ SeatsInv /\ FramesInv /\ Vacant(srv)

\* A step that changes nothing the members can see.
LEMMA HiddenStep ==
    ASSUME Presence(srv') = Presence(srv), Inbox(srv') = Inbox(srv),
           Waiting(srv') = Waiting(srv), UNCHANGED <<sent, serving>>
    PROVE  UNCHANGED Service!svars
BY MapsAreViews DEF Service!svars

LEMMA DepartStep ==
    ASSUME NEW r \in RoomIds, NEW p \in Peers, serving, UNCHANGED <<sent, serving>>,
           Presence(srv)[r][p] # "out",
           Presence(srv') = [Presence(srv) EXCEPT ![r][p] = "out"],
           Inbox(srv') = [Inbox(srv) EXCEPT ![r][p] = <<>>],
           Waiting(srv') = [Waiting(srv) EXCEPT ![r][p] = <<>>]
    PROVE  Service!Next
<1>1. Service!Depart(r, p)
  BY MapsAreViews DEF Service!Depart, Service!Out
<1>2. QED
  BY <1>1 DEF Service!Next

LEMMA JoinService ==
    ASSUME ClaimsAreSeparate, PlacesInv,
           NEW s \in Sockets, NEW r \in RoomIds, NEW p \in Peers, Join(s, r, p)
    PROVE  Service!Next /\ Vacant(srv')
<1> DEFINE S == BeforeJoin(srv, s, r, p)
<1>1. /\ TypeOK /\ SeatsInv /\ Vacant(srv)
      /\ serving /\ sock[s] = "open" /\ <<s, r, p>> \in Claims
      /\ UNCHANGED <<sent, serving>>
  BY DEF Join, PlacesInv
<1>2. srv \in Server /\ s \in Unclosed /\ Unclosed \in SUBSET Sockets
  BY <1>1 DEF TypeOK, Unclosed
<1>3. MapsInv(srv, Unclosed)
  BY <1>1, SeatsInvServing
<1>4. S \in Server /\ r \in S.rooms
  BY <1>1, <1>2, <1>3, BeforeJoinType, BeforeJoinInv DEF ReadyToJoin
<1>5. BeforeJoinEffect(srv, S, s, p)
  BY <1>2, <1>3, BeforeJoinFields
<1>6. IF p \in S.peers[r] THEN srv' = Resume(S, s, r, p) ELSE srv' = Enter(S, s, r, p)
  BY DEF Join
<1> HIDE DEF S
<1>7. /\ Vacant(S)
      /\ SameViewsOf(srv, S) \/ GivesUp(srv, S, p)
      /\ \A x \in RoomIds : S.seat[x][p] = srv.seat[x][p]
  BY <1>1, <1>2, <1>4, <1>5, BeforeJoinViews
<1>8. JoinedViews(S, srv', r, p)
  <2>1. CASE p \in S.peers[r]
    BY <1>4, <1>6, <1>7, <2>1, ResumedViews
  <2>2. CASE p \notin S.peers[r]
    BY <1>4, <1>6, <1>7, <2>2, EnteredViews
  <2>3. QED
    BY <2>1, <2>2
<1>9. Waiting(S)[r][p] = Waiting(srv)[r][p]
  BY <1>7 DEF Waiting
<1>10. /\ Presence(srv') = [Presence(S) EXCEPT ![r][p] = "here"]
       /\ Inbox(srv') = [Inbox(S) EXCEPT ![r][p] = Inbox(S)[r][p] \o Waiting(srv)[r][p]]
       /\ Waiting(srv') = [Waiting(S) EXCEPT ![r][p] = <<>>]
       /\ Vacant(srv')
  BY <1>8, <1>9 DEF JoinedViews
<1>11. Presence(srv)[r][p] = "out" => Waiting(srv)[r][p] = <<>> /\ Inbox(srv)[r][p] = <<>>
  <2>1. Presence(srv)[r][p] = "out" => p \notin srv.peers[r]
    BY DEF Presence, At
  <2>2. p \notin srv.peers[r] => srv.seat[r][p] = NoSeat
    BY <1>1 DEF Vacant
  <2>3. QED
    BY <2>1, <2>2, NoSeatIsEmpty DEF Waiting, Inbox
<1>12. /\ Inbox(S) = [x \in RoomIds |-> Inbox(S)[x]]
       /\ \A x \in RoomIds : Inbox(S)[x] = [y \in Peers |-> Inbox(S)[x][y]]
  BY DEF Inbox
<1>13. [Inbox(S) EXCEPT ![r][p] = @ \o Waiting(srv)[r][p]] = Inbox(srv')
  BY <1>10, <1>12
<1>14. None # <<r, p>>
  BY RefinementAssumption
<1>15. CASE SameViewsOf(srv, S)
  <2>1. Service!Come(r, p, None)
    BY <1>1, <1>10, <1>11, <1>13, <1>14, <1>15, MapsAreViews DEF Service!Come, SameViewsOf
  <2>2. QED
    BY <1>10, <2>1 DEF Service!Next
<1>16. CASE GivesUp(srv, S, p)
  <2>1. PICK x0 \in RoomIds, q \in Peers :
               /\ q # p
               /\ Presence(srv)[x0][q] = "here"
               /\ Presence(S) = [Presence(srv) EXCEPT ![x0][q] = "out"]
               /\ Inbox(S) = [Inbox(srv) EXCEPT ![x0][q] = <<>>]
               /\ Waiting(S) = [Waiting(srv) EXCEPT ![x0][q] = <<>>]
    BY <1>16 DEF GivesUp
  <2> DEFINE gone == <<x0, q>>
  <2>2. /\ gone \in RoomIds \X Peers /\ gone # None /\ gone # <<r, p>>
        /\ gone[1] = x0 /\ gone[2] = q
    BY <2>1, RefinementAssumption
  <2> HIDE DEF gone
  <2>3. Service!Come(r, p, gone)
    BY <1>1, <1>10, <1>11, <1>13, <2>1, <2>2, MapsAreViews DEF Service!Come
  <2>4. QED
    BY <1>10, <2>2, <2>3 DEF Service!Next
<1>17. QED
  BY <1>7, <1>15, <1>16

LEMMA LeaveService ==
    ASSUME ClaimsAreSeparate, PlacesInv,
           NEW s \in Sockets, NEW r \in RoomIds, NEW p \in Peers, Leave(s, r, p)
    PROVE  Service!Next /\ Vacant(srv')
<1>1. /\ TypeOK /\ SeatsInv /\ Vacant(srv) /\ srv \in Server
      /\ serving /\ <<s, r, p>> \in Claims /\ srv.wsIndex[s] = p
      /\ srv' = OnLeave(srv, r, p) /\ UNCHANGED <<sent, serving>>
  BY DEF Leave, PlacesInv, TypeOK
<1>2. p \in srv.peers[r]
  BY <1>1, LeaveTakesOwnSeat
<1>3. r \in srv.rooms
  BY <1>1, <1>2 DEF SeatsInv, RoomsAgree
<1>4. /\ Presence(srv') = [Presence(srv) EXCEPT ![r][p] = "out"]
      /\ Inbox(srv') = [Inbox(srv) EXCEPT ![r][p] = <<>>]
      /\ Waiting(srv') = [Waiting(srv) EXCEPT ![r][p] = <<>>]
      /\ Vacant(srv')
  BY <1>1, <1>3, LeftViews
<1>5. Presence(srv)[r][p] # "out"
  BY <1>2 DEF Presence, At
<1>6. QED
  BY <1>1, <1>4, <1>5, DepartStep

LEMMA GraceExpireService ==
    ASSUME PlacesInv, NEW r \in RoomIds, NEW p \in Peers, GraceExpire(r, p)
    PROVE  Service!Next /\ Vacant(srv')
<1> DEFINE old == srv.seat[r][p]
           new == [old EXCEPT !.timer = FALSE]
           S == [srv EXCEPT !.seat[r][p] = new]
<1>1. /\ SeatsInv /\ Vacant(srv) /\ srv \in Server
      /\ serving /\ p \in srv.peers[r] /\ old.timer /\ UNCHANGED <<sent, serving>>
  BY DEF GraceExpire, PlacesInv, TypeOK
<1>2. [srv EXCEPT !.seat[r][p].timer = FALSE] = S
  BY <1>1 DEF Server
<1>3. r \in srv.rooms /\ old.ws = None
  BY <1>1 DEF SeatsInv, RoomsAgree, NoGhostSeat
<1>4. old \in Seat /\ srv.seat \in [RoomIds -> [Peers -> Seat]]
  BY <1>1 DEF Server
<1>5. S.seat[r][p].ws = None => srv' = OnLeave(S, r, p)
  BY <1>2 DEF GraceExpire
<1> HIDE DEF old
<1>6. /\ new \in Seat /\ new.ws = old.ws /\ new.got = old.got /\ new.queue = old.queue
  BY <1>4 DEF Seat
<1> HIDE DEF new
<1>7. /\ S \in Server /\ S.seat = [srv.seat EXCEPT ![r][p] = new]
      /\ S.peers = srv.peers /\ S.rooms = srv.rooms
  BY <1>1, <1>6 DEF Server
<1> HIDE DEF S
<1>8. /\ S.seat[r][p] = new
      /\ \A x \in RoomIds, y \in Peers : x # r \/ y # p => S.seat[x][y] = srv.seat[x][y]
  BY <1>4, <1>7
<1>9. \A x \in RoomIds, y \in Peers :
         /\ y \in S.peers[x] <=> y \in srv.peers[x]
         /\ S.seat[x][y].ws = srv.seat[x][y].ws
         /\ S.seat[x][y].got = srv.seat[x][y].got
         /\ S.seat[x][y].queue = srv.seat[x][y].queue
  BY <1>6, <1>7, <1>8 DEF old
<1>10. Presence(S) = Presence(srv) /\ Inbox(S) = Inbox(srv) /\ Waiting(S) = Waiting(srv)
  BY <1>1, <1>7, <1>9, SameViews
<1>11. Vacant(S)
  BY <1>1, <1>7, <1>8 DEF Vacant
<1>12. srv' = OnLeave(S, r, p) /\ r \in S.rooms
  BY <1>3, <1>5, <1>6, <1>7, <1>8
<1>13. /\ Presence(srv') = [Presence(S) EXCEPT ![r][p] = "out"]
       /\ Inbox(srv') = [Inbox(S) EXCEPT ![r][p] = <<>>]
       /\ Waiting(srv') = [Waiting(S) EXCEPT ![r][p] = <<>>]
       /\ Vacant(srv')
  BY <1>7, <1>11, <1>12, LeftViews
<1>14. Presence(srv)[r][p] # "out"
  BY <1>1 DEF Presence, At
<1>15. QED
  BY <1>1, <1>10, <1>13, <1>14, DepartStep

LEMMA CloseService ==
    ASSUME PlacesInv, NEW s \in Sockets, Close(s)
    PROVE  (Service!Next \/ UNCHANGED Service!svars) /\ Vacant(srv')
<1>1. /\ TypeOK /\ SeatsInv /\ Vacant(srv) /\ srv \in Server
      /\ srv' = OnDisconnect(srv, s) /\ UNCHANGED <<sent, serving>>
  BY DEF Close, PlacesInv, TypeOK
<1>2. CASE srv' = srv
  BY <1>1, <1>2, HiddenStep
<1>3. CASE srv' # srv
  <2> DEFINE p == srv.wsIndex[s]
             r == srv.peerIndex[p].roomId
  <2>1. p # None /\ srv' = HoldSeat(srv, r, p)
    BY <1>1, <1>3 DEF OnDisconnect
  <2>2. r \in srv.rooms /\ p \in srv.peers[r]
    <3>1. \A x, y : HoldSeat(srv, x, y) = srv \/ (x \in srv.rooms /\ y \in srv.peers[x])
      BY DEF HoldSeat
    <3> HIDE DEF p, r
    <3>2. QED
      BY <1>3, <2>1, <3>1
  <2>3. r \in RoomIds /\ p \in Peers
    BY <1>1, <2>2 DEF Server
  <2>4. serving
    BY <1>1, <2>2, <2>3 DEF SeatsInv
  <2>5. Aligned(srv)
    BY <1>1, <2>4 DEF SeatsInv
  <2>6. srv.seat[r][p].ws = s
    BY <1>1, <2>1, <2>5, IndexedSocket
  <2> HIDE DEF p, r
  <2>7. Presence(srv)[r][p] = "here"
    BY <2>2, <2>3, <2>6, SignalingAssumption DEF Presence, At
  <2>8. /\ Presence(srv') = [Presence(srv) EXCEPT ![r][p] = "away"]
        /\ Inbox(srv') = Inbox(srv)
        /\ Waiting(srv') = Waiting(srv)
        /\ Vacant(srv')
    BY <1>1, <2>1, <2>2, HeldViews
  <2>9. Service!Lapse(r, p)
    BY <1>1, <2>4, <2>7, <2>8, MapsAreViews DEF Service!Lapse
  <2>10. QED
    BY <2>3, <2>8, <2>9 DEF Service!Next
<1>4. QED
  BY <1>2, <1>3

LEMMA PostService ==
    ASSUME ClaimsAreSeparate, PlacesInv,
           NEW s \in Sockets, NEW r \in RoomIds, NEW p \in Peers, NEW to \in Peers \cup {None},
           RelayData(s, r, p, to) \/ Relay(s, r, p, to)
    PROVE  Service!Next /\ Vacant(srv')
<1> DEFINE To == Addressees(r, p, to)
<1>1. /\ TypeOK /\ SeatsInv /\ FramesInv /\ Vacant(srv) /\ srv \in Server
      /\ serving /\ sent < MaxFrames /\ <<s, r, p>> \in Claims /\ srv.wsIndex[s] = p
      /\ sent' = sent + 1 /\ serving' = serving
  BY DEF RelayData, Relay, Accepts, PlacesInv, TypeOK
<1>2. PICK b \in BOOLEAN : srv' = Post(srv, r, To, sent + 1, b)
  BY DEF RelayData, Relay
<1>3. To \in SUBSET srv.peers[r] /\ To \in SUBSET Peers
  BY <1>1 DEF Addressees, Server
<1>4. sent + 1 \in Frames
  BY <1>1, SignalingAssumption DEF TypeOK, Frames
<1>5. MapsFrames(srv, sent)
  BY <1>1 DEF FramesInv
<1> HIDE DEF To
<1>6. Vacant(srv') /\ \E W \in SUBSET To : Delivered(srv, srv', r, To, W, sent + 1, b)
  BY <1>1, <1>2, <1>3, <1>4, <1>5, PostedViews
<1>7. PICK Swallowed \in SUBSET To : Delivered(srv, srv', r, To, Swallowed, sent + 1, b)
  BY <1>6
<1>8. Presence(srv)[r][p] = "here"
  <2>1. p \in srv.peers[r] /\ srv.seat[r][p].ws = s
    BY <1>1, LeaveTakesOwnSeat
  <2>2. QED
    BY <2>1, SignalingAssumption DEF Presence, At
<1>9. /\ presence' = presence /\ presence[r][p] = "here"
      /\ inbox' = [inbox EXCEPT ![r] = [y \in Peers |->
            IF y \in To \ Swallowed /\ presence[r][y] = "here"
            THEN Append(@[y], sent + 1) ELSE @[y]]]
      /\ waiting' = [waiting EXCEPT ![r] = [y \in Peers |->
            IF b /\ y \in To /\ presence[r][y] = "away"
            THEN Service!Newest(Append(@[y], sent + 1)) ELSE @[y]]]
  BY <1>7, <1>8, MapsAreViews DEF Delivered
<1>10. Service!Accept(r, p)
  BY <1>1, <1>3, <1>9, Zenon DEF Service!Accept
<1>11. QED
  BY <1>6, <1>10 DEF Service!Next

LEMMA HaltService ==
    ASSUME PlacesInv, Stop \/ Restart
    PROVE  Service!Next /\ Vacant(srv')
<1>1. /\ \A x \in RoomIds : srv'.peers[x] = {}
      /\ \A x \in RoomIds, y \in Peers : srv'.seat[x][y] = NoSeat
      /\ sent' = sent /\ serving' \in BOOLEAN
  <2>1. CASE Stop
    <3>1. /\ srv'.peers = [x \in RoomIds |-> {}]
          /\ srv'.seat = [x \in RoomIds |-> [y \in Peers |-> NoSeat]]
      BY <2>1 DEF Stop, PlacesInv, TypeOK, Server
    <3>2. sent' = sent /\ serving' = FALSE
      BY <2>1 DEF Stop
    <3>3. \A x \in RoomIds : srv'.peers[x] = {}
      BY <3>1
    <3>4. \A x \in RoomIds, y \in Peers : srv'.seat[x][y] = NoSeat
      BY <3>1
    <3>5. serving' \in BOOLEAN
      BY <3>2
    <3>6. QED
      BY <3>2, <3>3, <3>4, <3>5
  <2>2. CASE Restart
    BY <2>2 DEF Restart, FreshServer
  <2>3. QED
    BY <2>1, <2>2
<1>2. /\ Presence(srv') = Service!Everywhere("out")
      /\ Inbox(srv') = Service!Everywhere(<<>>)
      /\ Waiting(srv') = Service!Everywhere(<<>>)
  BY <1>1, NoSeatIsEmpty DEF Presence, Inbox, Waiting, At, Service!Everywhere
<1>3. Service!Halt
  BY <1>1, <1>2, MapsAreViews DEF Service!Halt
<1>4. QED
  BY <1>1, <1>3 DEF Service!Next, Vacant

LEMMA StepService ==
    ASSUME ClaimsAreSeparate, PlacesInv, [Next]_vars
    PROVE  [Service!Next]_Service!svars /\ Vacant(srv')
<1>1. ASSUME srv' = srv, UNCHANGED <<sent, serving>>
      PROVE  [Service!Next]_Service!svars /\ Vacant(srv')
  BY <1>1, HiddenStep DEF PlacesInv
<1>2. CASE UNCHANGED vars
  BY <1>1, <1>2 DEF vars
<1>3. CASE Heartbeat
  BY <1>1, <1>3 DEF Heartbeat
<1>4. ASSUME NEW s \in Sockets, OnConnect(s) \/ Pong(s) \/ ClientClose(s) \/ Vanish(s)
      PROVE  [Service!Next]_Service!svars /\ Vacant(srv')
  BY <1>1, <1>4 DEF OnConnect, Pong, ClientClose, Vanish
<1>5. QED
  BY <1>2, <1>3, <1>4, JoinService, LeaveService, GraceExpireService, CloseService,
     PostService, HaltService DEF Next

LEMMA InitService == Init => Service!Init /\ Vacant(srv)
<1> SUFFICES ASSUME Init
             PROVE  Service!Init /\ Vacant(srv)
  OBVIOUS
<1>1. /\ \A x \in RoomIds : srv.peers[x] = {}
      /\ \A x \in RoomIds, y \in Peers : srv.seat[x][y] = NoSeat
      /\ sent = 0 /\ serving = TRUE
  BY DEF Init, FreshServer
<1>2. /\ Presence(srv) = Service!Everywhere("out")
      /\ Inbox(srv) = Service!Everywhere(<<>>)
      /\ Waiting(srv) = Service!Everywhere(<<>>)
  BY <1>1, NoSeatIsEmpty DEF Presence, Inbox, Waiting, At, Service!Everywhere
<1>3. QED
  BY <1>1, <1>2, MapsAreViews DEF Service!Init, Vacant

\* GRACE_MS, room.ts:58-91, server.ts:290-375: with sockets, timers and indexes hidden, the
\* server implements RoomService for every number of rooms, peers, sockets and frames and
\* every size of the queue, if the clients keep to one room per peerId: a place is kept
\* across a lost connection, data waits for it in order, and who returns gets all of it.
THEOREM ServerImplementsRoomService ==
    ASSUME ClaimsAreSeparate
    PROVE  Spec => ImplementsRoomService
<1>1. Init => Service!Init /\ Vacant(srv)
  BY InitService
<1>2. TypeOK /\ SeatsInv /\ FramesInv /\ Vacant(srv) /\ [Next]_vars =>
         [Service!Next]_Service!svars /\ Vacant(srv)'
  BY StepService DEF PlacesInv
<1>3. QED
  BY <1>1, <1>2, SeatsAlwaysHold, FramesInvHolds, PTL
     DEF Spec, ImplementsRoomService, Service!Spec
==============================================================================
