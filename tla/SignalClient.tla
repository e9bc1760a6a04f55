---------------------------- MODULE SignalClient ----------------------------
(***************************************************************************)
(* One page's end of the control plane: class QOSPeer of                   *)
(* packages/browser/src/peer.ts, the part that keeps a signaling WebSocket *)
(* alive and its seat taken.                                               *)
(*                                                                         *)
(* The page trusts a socket only while it hears from it.  Waking up makes  *)
(* the socket suspect until something answers; what is typed meanwhile     *)
(* waits in the outbox; a socket that does not answer is closed, detached  *)
(* and replaced.  Sockets the page has given up still exist: their frames  *)
(* may still arrive, their close events may still fire.                    *)
(*                                                                         *)
(* A page runs one callback at a time: a callback is an action, and what   *)
(* the methods do to the object is written as functions of the record me,  *)
(* in the order the code calls them.  The network and the server are       *)
(* external: the server is reduced to what it does with one seat (a join   *)
(* takes the seat and cuts the socket that had it; frames of any other     *)
(* socket are refused).  Clock values are abstracted to timers that fire.  *)
(***************************************************************************)
EXTENDS Naturals, Sequences

CONSTANTS
    Sockets,    \* WebSocket objects, reused once nothing refers to them
    OutboxMax,  \* OUTBOX_MAX
    MaxFrames,  \* bound of the model: envelopes the app sends
    MaxFaults,  \* bound of the model: connections that break
    MaxWakes,   \* bound of the model: wake() calls
    Overlap,    \* wake() may come before a closing socket's close event, or before connect()
                \* has its key
    None

ASSUME ClientAssumption ==
    /\ OutboxMax \in Nat \ {0}
    /\ MaxFrames \in Nat /\ MaxFaults \in Nat /\ MaxWakes \in Nat
    /\ Overlap \in BOOLEAN
    /\ None \notin Sockets

VARIABLES
    me,        \* the QOSPeer object and its sockets as the page sees them
    stage,     \* how far connect() got: "new", "deriving", "joined"
    sealing,   \* sealChain: envelopes not sealed yet
    link,      \* what the network does with each socket: "up"; "shut", the page closed
               \* it and what it wrote still arrives; "dead", silently; "cut", ended
    seat,      \* the socket the server has the peer's seat on, or None
    budget     \* what is left of the bounds: frames, faults, wakes

vars == <<me, stage, sealing, link, seat, budget>>

Envelopes == 1..MaxFrames
\* the frames of a socket: 0 is a join, MaxFrames + 1 a leave
JoinFrame == 0
LeaveFrame == MaxFrames + 1

ReadyState == {"connecting", "open", "closing", "closed"}

\* wire[s] are the frames written to s that the server has not read; left and
\* dropped are history: the envelopes written, and those the outbox had no room for.
Page == [ws: Sockets \cup {None}, ready: [Sockets -> ReadyState],
         onclose: SUBSET Sockets, reconnect: BOOLEAN,
         liveness: Sockets \cup {None}, probe: Sockets \cup {None},
         suspect: BOOLEAN, disconnected: BOOLEAN,
         outbox: Seq(Envelopes), wire: [Sockets -> Seq(0..(MaxFrames + 1))],
         left: Seq(Envelopes), dropped: SUBSET Envelopes]

------------------------------------------------------------------------------
(* Methods, as functions of the object *)

IsUp(m) == m.ws # None /\ m.ready[m.ws] = "open"

Signal(m, f) == IF IsUp(m) THEN [m EXCEPT !.wire[m.ws] = Append(@, f)] ELSE m

\* Before connect() has derived the room's name there is none to join: the server
\* refuses such a frame.
Join(m) == IF stage = "joined" THEN Signal(m, JoinFrame) ELSE m

FlushOutbox(m) ==
    IF IsUp(m) THEN [m EXCEPT !.wire[m.ws] = @ \o m.outbox, !.left = @ \o m.outbox,
                              !.outbox = <<>>]
               ELSE m

\* Any frame proves the socket.
Heard(m) ==
    IF m.suspect THEN FlushOutbox([m EXCEPT !.suspect = FALSE, !.probe = None]) ELSE m

\* Faulty: the outbox has no bound.
SealedUnbounded(m, n) ==
    IF IsUp(m) /\ ~m.suspect
    THEN [m EXCEPT !.wire[m.ws] = Append(@, n), !.left = Append(@, n)]
    ELSE IF m.disconnected THEN m ELSE [m EXCEPT !.outbox = Append(@, n)]

\* The end of one link of the seal chain.
Sealed(m, n) ==
    IF IsUp(m) /\ ~m.suspect
    THEN [m EXCEPT !.wire[m.ws] = Append(@, n), !.left = Append(@, n)]
    ELSE IF m.disconnected THEN m
    ELSE LET q == Append(m.outbox, n)
         IN  IF Len(q) > OutboxMax
             THEN [m EXCEPT !.outbox = Tail(q), !.dropped = @ \cup {Head(q)}]
             ELSE [m EXCEPT !.outbox = q]

ScheduleReconnect(m) == IF m.disconnected THEN m ELSE [m EXCEPT !.reconnect = TRUE]

\* _openSignaling up to its await, on a fresh WebSocket s.
OpenSignaling(m, s) == [m EXCEPT !.ws = s, !.ready[s] = "connecting", !.wire[s] = <<>>,
                                 !.onclose = @ \ {s}]

\* Faulty: what was typed while the socket was down is not flushed.
OpenedUnflushed(m, s) ==
    Join([m EXCEPT !.ready[s] = "open", !.suspect = FALSE, !.liveness = s,
                   !.onclose = @ \cup {s}])

\* _openSignaling after the await: trusted, watched, joined, flushed.
Opened(m, s) ==
    FlushOutbox(Join([m EXCEPT !.ready[s] = "open", !.suspect = FALSE, !.liveness = s,
                               !.onclose = @ \cup {s}]))

\* ws.onclose, as _openSignaling sets it.
OnClose(m) ==
    ScheduleReconnect([m EXCEPT !.liveness = None, !.probe = None, !.suspect = FALSE])

\* Faulty: the reconnect is left to a close event that is detached; the dead socket's
\* handler stays attached; the object starts over with an empty outbox.
DeadWaitsForClose(m, s, fresh) ==
    [m EXCEPT !.suspect = FALSE, !.ready[s] = "closing", !.onclose = @ \ {s}]
DeadKeepsHandler(m, s, fresh) ==
    OpenSignaling([m EXCEPT !.suspect = FALSE, !.ready[s] = "closing", !.reconnect = FALSE], fresh)
DeadForgets(m, s, fresh) ==
    OpenSignaling([m EXCEPT !.suspect = FALSE, !.ready[s] = "closing", !.outbox = <<>>,
                            !.onclose = @ \ {s}, !.reconnect = FALSE], fresh)

\* declareSocketDead(ws) with this.ws = ws, as both callers have checked.
DeclareSocketDead(m, s, fresh) ==
    OpenSignaling([m EXCEPT !.suspect = FALSE, !.ready[s] = "closing",
                            !.onclose = @ \ {s}, !.reconnect = FALSE], fresh)

------------------------------------------------------------------------------
(* Actions: the page *)

\* A WebSocket name nothing refers to any longer stands for a new object.
Free(s) ==
    /\ me.ready[s] = "closed"
    /\ me.ws # s /\ me.liveness # s /\ me.probe # s /\ seat # s
    /\ me.wire[s] = <<>>

\* The object becomes m.  A socket it opened is a fresh connection; one it closed
\* still delivers what was written to it; what is written to a broken one is lost.
Becomes(m) ==
    /\ link' = [s \in Sockets |->
                  IF m.ready[s] = "connecting" /\ me.ready[s] # "connecting" THEN "up"
                  ELSE IF m.ready[s] = "closing" /\ link[s] = "up" THEN "shut"
                  ELSE link[s]]
    /\ me' = [m EXCEPT !.wire = [s \in Sockets |->
                  IF link'[s] \in {"up", "shut"} THEN @[s] ELSE <<>>]]

Init ==
    /\ me = [ws |-> None, ready |-> [s \in Sockets |-> "closed"], onclose |-> {},
             reconnect |-> FALSE, liveness |-> None, probe |-> None, suspect |-> FALSE,
             disconnected |-> FALSE, outbox |-> <<>>,
             wire |-> [s \in Sockets |-> <<>>], left |-> <<>>, dropped |-> {}]
    /\ stage = "new"
    /\ sealing = <<>>
    /\ link = [s \in Sockets |-> "cut"]
    /\ seat = None
    /\ budget = [frames |-> MaxFrames, faults |-> MaxFaults, wakes |-> MaxWakes]

outside == <<sealing, seat, budget>>

Connect ==
    /\ stage = "new"
    /\ stage' = "deriving"
    /\ UNCHANGED <<me, link, outside>>

\* connect() goes on when the room key is there, unless disconnect() came first.
KeyDerived(s) ==
    /\ stage = "deriving"
    /\ Free(s)
    /\ stage' = "joined"
    /\ Becomes(IF me.disconnected THEN me ELSE OpenSignaling(me, s))
    /\ UNCHANGED outside

OnOpen(s) ==
    /\ me.ready[s] = "connecting"
    /\ link[s] = "up"
    /\ Becomes(Opened(me, s))
    /\ UNCHANGED <<stage, outside>>

\* The attempt fails: onerror, or the 20 s watchdog of an attempt nobody answers.
ConnectFails(s) ==
    /\ me.ready[s] = "connecting"
    /\ link[s] # "up"
    /\ Becomes(ScheduleReconnect([me EXCEPT !.ready[s] = "closed"]))
    /\ UNCHANGED <<stage, outside>>

ReconnectFires(s) ==
    /\ me.reconnect
    /\ Free(s)
    /\ Becomes(OpenSignaling([me EXCEPT !.reconnect = FALSE], s))
    /\ UNCHANGED <<stage, outside>>

\* The close event.  A dead connection has one too when the OS gives up on it.
CloseEvent(s) ==
    /\ me.ready[s] \in {"open", "closing"}
    /\ link[s] # "up"
    /\ LET m == [me EXCEPT !.ready[s] = "closed"]
       IN  Becomes(IF s \in m.onclose THEN OnClose(m) ELSE m)
    /\ UNCHANGED <<stage, outside>>

\* The page sees the closing handshake of the other end begin.
CloseBegins(s) ==
    /\ me.ready[s] = "open"
    /\ link[s] = "cut"
    /\ Becomes([me EXCEPT !.ready[s] = "closing"])
    /\ UNCHANGED <<stage, outside>>

\* wake(): a socket that is gone is replaced, one that is open is put to the proof.
Wake(s) ==
    /\ stage # "new" /\ ~me.disconnected
    /\ budget.wakes > 0
    /\ budget' = [budget EXCEPT !.wakes = @ - 1]
    /\ \/ /\ IF me.ws = None THEN Overlap
             ELSE me.ready[me.ws] \in IF Overlap THEN {"closing", "closed"} ELSE {"closed"}
          /\ Free(s)
          /\ Becomes(OpenSignaling([me EXCEPT !.reconnect = FALSE], s))
       \/ /\ me.ws = s /\ me.ready[s] = "open"
          /\ Becomes(Join([me EXCEPT !.suspect = TRUE, !.probe = s]))
    /\ UNCHANGED <<stage, sealing, seat>>

\* WAKE_PROBE_MS are over.  The answer may only be late.
ProbeFires(s) ==
    /\ me.probe # None
    /\ LET m == [me EXCEPT !.probe = None]
       IN  IF me.suspect /\ me.ws = me.probe
           THEN Free(s) /\ Becomes(DeclareSocketDead(m, me.probe, s))
           ELSE Becomes(m)
    /\ UNCHANGED <<stage, outside>>

\* The liveness interval finds that nothing was heard for SILENT_MS, pings
\* included.
LivenessTick(s) ==
    /\ me.liveness # None
    /\ me.ws = me.liveness /\ me.ready[me.ws] = "open"
    /\ link[me.ws] # "up"
    /\ Free(s)
    /\ Becomes(DeclareSocketDead(me, me.ws, s))
    /\ UNCHANGED <<stage, outside>>

\* Something is heard: the "peers" that answers a join, a pong, an error, or what
\* others said.
OnMessage(s) ==
    /\ me.ready[s] = "open" /\ link[s] = "up"
    /\ Becomes(Heard(me))
    /\ UNCHANGED <<stage, outside>>

\* The app sends: the envelope joins the chain, and is sealed in its turn.
Send ==
    /\ stage = "joined"
    /\ budget.frames > 0
    /\ budget' = [budget EXCEPT !.frames = @ - 1]
    /\ sealing' = Append(sealing, MaxFrames - budget.frames + 1)
    /\ UNCHANGED <<me, stage, link, seat>>

Seal ==
    /\ sealing # <<>>
    /\ sealing' = Tail(sealing)
    /\ Becomes(Sealed(me, Head(sealing)))
    /\ UNCHANGED <<stage, seat, budget>>

\* disconnect(), and pagehide, where the page's other sockets end as well.
Closed(m, s) == IF m.ready[s] \in {"connecting", "open"} THEN "closing" ELSE m.ready[s]

\* Faulty: leave is sent, the socket is not closed.
DisconnectKeepsSocket ==
    /\ stage # "new" /\ ~me.disconnected
    /\ Becomes(Signal([me EXCEPT !.disconnected = TRUE, !.reconnect = FALSE, !.liveness = None,
                                 !.probe = None, !.outbox = <<>>], LeaveFrame))
    /\ UNCHANGED <<stage, outside>>

Disconnect ==
    /\ stage # "new" /\ ~me.disconnected
    /\ LET m == Signal([me EXCEPT !.disconnected = TRUE, !.reconnect = FALSE, !.liveness = None,
                                  !.probe = None, !.outbox = <<>>], LeaveFrame)
       IN  Becomes(IF m.ws = None THEN m ELSE [m EXCEPT !.ready[m.ws] = Closed(m, m.ws)])
    /\ UNCHANGED <<stage, outside>>

PageHide ==
    /\ stage # "new" /\ ~me.disconnected
    /\ LET m == Signal([me EXCEPT !.disconnected = TRUE, !.reconnect = FALSE, !.liveness = None,
                                  !.probe = None, !.outbox = <<>>], LeaveFrame)
       IN  Becomes([m EXCEPT !.ready = [s \in Sockets |-> Closed(m, s)], !.onclose = {}])
    /\ UNCHANGED <<stage, outside>>

------------------------------------------------------------------------------
(* Actions: the network and the server (external) *)

\* A connection dies in silence, or is ended with a reset the page will see.
Breaks(s) ==
    /\ link[s] = "up"
    /\ budget.faults > 0
    /\ budget' = [budget EXCEPT !.faults = @ - 1]
    /\ \E fate \in {"dead", "cut"} : link' = [link EXCEPT ![s] = fate]
    /\ me' = [me EXCEPT !.wire[s] = <<>>]
    /\ UNCHANGED <<stage, sealing, seat>>

\* The server reads a frame: a join takes the seat and terminates the socket that
\* had it; anything else counts only on the seat's own socket.
ServerReads(s) ==
    /\ me.wire[s] # <<>>
    /\ link[s] \in {"up", "shut"}
    /\ LET f == Head(me.wire[s])
           joins == f = JoinFrame
           own == seat = s
       IN  /\ seat' = IF joins THEN s ELSE IF own /\ f = LeaveFrame THEN None ELSE seat
           /\ link' = IF joins /\ ~own /\ seat # None THEN [link EXCEPT ![seat] = "cut"] ELSE link
           /\ me' = [me EXCEPT !.wire = [t \in Sockets |->
                        IF t = s THEN Tail(@[t]) ELSE IF link'[t] = "cut" THEN <<>> ELSE @[t]]]
    /\ UNCHANGED <<stage, sealing, budget>>

\* The server notices that the seat's socket is gone (a close event, or two
\* missed pongs), and holds the seat.
ServerDrops(s) ==
    /\ seat = s
    /\ \/ link[s] \in {"dead", "cut"}
       \/ link[s] = "shut" /\ me.wire[s] = <<>>
    /\ seat' = None
    /\ link' = [link EXCEPT ![s] = "cut"]
    /\ UNCHANGED <<me, stage, sealing, budget>>

Next ==
    \/ Connect
    \/ \E s \in Sockets :
          \/ KeyDerived(s) \/ OnOpen(s) \/ ConnectFails(s) \/ ReconnectFires(s)
          \/ CloseEvent(s) \/ CloseBegins(s) \/ Wake(s) \/ ProbeFires(s)
          \/ LivenessTick(s) \/ OnMessage(s)
          \/ Breaks(s) \/ ServerReads(s) \/ ServerDrops(s)
    \/ Send \/ Seal
    \/ Disconnect \/ PageHide

Spec == Init /\ [][Next]_vars

\* The page's timers and events come, the network delivers, the server reads.
\* Nothing is asked of the user, and nothing need break.
Fairness ==
    /\ WF_vars(\E s \in Sockets : KeyDerived(s))
    /\ WF_vars(\E s \in Sockets : ReconnectFires(s))
    /\ WF_vars(\E s \in Sockets : ProbeFires(s))
    /\ WF_vars(\E s \in Sockets : LivenessTick(s))
    /\ \A s \in Sockets : /\ WF_vars(OnOpen(s)) /\ WF_vars(ConnectFails(s))
                          /\ WF_vars(CloseEvent(s)) /\ WF_vars(OnMessage(s))
                          /\ WF_vars(ServerReads(s)) /\ WF_vars(ServerDrops(s))
    /\ WF_vars(Seal)

FairSpec == Spec /\ Fairness

------------------------------------------------------------------------------
(* Properties *)

TypeOK ==
    /\ me \in Page
    /\ Len(me.outbox) <= OutboxMax
    /\ stage \in {"new", "deriving", "joined"}
    /\ sealing \in Seq(Envelopes)
    /\ link \in [Sockets -> {"up", "shut", "dead", "cut"}]
    /\ seat \in Sockets \cup {None}
    /\ budget \in [frames: 0..MaxFrames, faults: 0..MaxFaults, wakes: 0..MaxWakes]

Increasing(q) == \A i, j \in 1..Len(q) : i < j => q[i] < q[j]

Elements(q) == {q[i] : i \in 1..Len(q)}

\* peer.ts:266, 271: envelopes leave in the order they were sent, whatever the
\* socket did between them, and each at most once.
LeavesInOrder == Increasing(me.left \o me.outbox \o sealing)

\* peer.ts:271-273: a line typed during a blip still lands: until the page is left, an
\* envelope was written, is waiting, or gave way to OutboxMax newer ones.
NothingTypedIsForgotten ==
    ~me.disconnected =>
       /\ 1..(MaxFrames - budget.frames) \subseteq
             Elements(me.left) \cup Elements(me.outbox) \cup Elements(sealing) \cup me.dropped
       /\ \A n \in me.dropped : \A i \in 1..Len(me.outbox) : n < me.outbox[i]

\* peer.ts:841-849: the page is never "alive but permanently disconnected": a
\* reconnect is due, or an attempt with a watchdog is being made, or the socket is
\* open and watched by the liveness interval, or it is closing, the last two with the
\* close handler attached; and whatever is suspect is being probed.
NeverWedged ==
    stage = "joined" /\ ~me.disconnected =>
       /\ \/ me.reconnect
          \/ me.ready[me.ws] = "connecting"
          \/ /\ \/ me.ready[me.ws] = "open" /\ me.liveness = me.ws
                \/ me.ready[me.ws] = "closing"
             /\ me.ws \in me.onclose
       /\ me.suspect => me.probe = me.ws

\* Of all the sockets the page ever made, only the current one is being opened, is
\* open, or will run its close handler; and none is current while a reconnect is due.
OneSocket ==
    stage = "joined" /\ ~me.disconnected =>
       /\ me.ws \in Sockets
       /\ \A s \in Sockets \ {me.ws} :
             /\ me.ready[s] \in {"closing", "closed"}
             /\ s \in me.onclose => me.ready[s] = "closed"
       /\ me.reconnect => me.ready[me.ws] = "closed"

Attached ==
    /\ IsUp(me)
    /\ seat = me.ws
    /\ me.outbox = <<>> /\ ~me.suspect

\* docs/connection.md: "With one resumable connection per person, a flap is that
\* person's few seconds of silence".  Once nothing breaks any more the page ends
\* up, and stays, on one open socket that has the seat and owes nothing.
Settles == <>[](stage # "joined" \/ me.disconnected \/ Attached)

\* After disconnect() or pagehide the seat is eventually nobody's, for good.
SeatIsGivenUp == <>[](me.disconnected => seat = None)

==============================================================================
