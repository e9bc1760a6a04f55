-------------------------- MODULE SignalClientProofs --------------------------
(* Theorems about SignalClient, for every number of sockets and every bound.  *)
EXTENDS SignalClient, SequenceTheorems, TLAPS

------------------------------------------------------------------------------
(* What the methods do to the control fields *)

WireFrames == 0..(MaxFrames + 1)

\* n differs from m at most in what is queued and written.
Same(m, n) ==
    /\ n.ws = m.ws /\ n.ready = m.ready /\ n.onclose = m.onclose
    /\ n.reconnect = m.reconnect /\ n.liveness = m.liveness /\ n.probe = m.probe
    /\ n.suspect = m.suspect /\ n.disconnected = m.disconnected

\* A page whose outbox keeps its bound.
Bounded(m) == m \in Page /\ Len(m.outbox) <= OutboxMax

\* Every envelope is a frame, and so are joins and leaves.
LEMMA FramesOnWire ==
    Envelopes \subseteq WireFrames /\ JoinFrame \in WireFrames /\ LeaveFrame \in WireFrames
BY ClientAssumption DEF Envelopes, WireFrames, JoinFrame, LeaveFrame

\* signal() writes or does nothing.
LEMMA SignalKeeps ==
    ASSUME NEW m, Bounded(m), NEW f \in WireFrames
    PROVE  Bounded(Signal(m, f)) /\ Same(m, Signal(m, f))
<1>1. m \in Page /\ Len(m.outbox) <= OutboxMax
  BY DEF Bounded
<1>2. CASE IsUp(m)
  <2>1. m.ws \in Sockets
    BY <1>1, <1>2 DEF IsUp, Page
  <2>2. Append(m.wire[m.ws], f) \in Seq(WireFrames)
    BY <1>1, <2>1 DEF Page, WireFrames
  <2>3. QED
    BY <1>1, <1>2, <2>1, <2>2 DEF Signal, Bounded, Page, Same, WireFrames
<1>3. CASE ~IsUp(m)
  BY <1>1, <1>3 DEF Signal, Bounded, Same
<1>4. QED
  BY <1>2, <1>3

LEMMA JoinKeeps ==
    ASSUME NEW m, Bounded(m)
    PROVE  Bounded(Join(m)) /\ Same(m, Join(m))
BY SignalKeeps, FramesOnWire DEF Join, Same

\* flushOutbox() moves the outbox to the wire, or does nothing.
LEMMA FlushKeeps ==
    ASSUME NEW m, Bounded(m)
    PROVE  Bounded(FlushOutbox(m)) /\ Same(m, FlushOutbox(m))
<1>1. m \in Page /\ Len(m.outbox) <= OutboxMax
  BY DEF Bounded
<1>2. CASE IsUp(m)
  <2>1. m.ws \in Sockets
    BY <1>1, <1>2 DEF IsUp, Page
  <2>2. m.outbox \in Seq(Envelopes) /\ m.outbox \in Seq(WireFrames)
    <3>1. m.outbox \in Seq(Envelopes)
      BY <1>1 DEF Page
    <3>2. Seq(Envelopes) \subseteq Seq(WireFrames)
      BY FramesOnWire
    <3>3. QED
      BY <3>1, <3>2
  <2>3. /\ m.wire[m.ws] \o m.outbox \in Seq(WireFrames)
        /\ m.left \o m.outbox \in Seq(Envelopes)
        /\ <<>> \in Seq(Envelopes) /\ Len(<<>>) <= OutboxMax
    BY <1>1, <2>1, <2>2, ClientAssumption DEF Page, WireFrames
  <2>4. QED
    BY <1>1, <1>2, <2>1, <2>3 DEF FlushOutbox, Bounded, Page, Same, WireFrames
<1>3. CASE ~IsUp(m)
  BY <1>1, <1>3 DEF FlushOutbox, Bounded, Same
<1>4. QED
  BY <1>2, <1>3

\* heard() lifts a suspicion and its probe, and touches no socket.
LEMMA HeardKeeps ==
    ASSUME NEW m, Bounded(m)
    PROVE  /\ Bounded(Heard(m))
           /\ IF m.suspect THEN Same([m EXCEPT !.suspect = FALSE, !.probe = None], Heard(m))
                           ELSE Heard(m) = m
<1> DEFINE n == [m EXCEPT !.suspect = FALSE, !.probe = None]
<1>1. Bounded(n)
  BY DEF Bounded, Page
<1>2. Bounded(FlushOutbox(n)) /\ Same(n, FlushOutbox(n))
  BY <1>1, FlushKeeps
<1>3. QED
  BY <1>2 DEF Heard

\* An envelope is written, queued, or dropped with the page.
LEMMA SealedKeeps ==
    ASSUME NEW m, Bounded(m), NEW n \in Envelopes
    PROVE  Bounded(Sealed(m, n)) /\ Same(m, Sealed(m, n))
<1>1. m \in Page /\ Len(m.outbox) <= OutboxMax /\ n \in WireFrames
  BY FramesOnWire DEF Bounded
<1>2. CASE IsUp(m) /\ ~m.suspect
  <2>1. m.ws \in Sockets
    BY <1>1, <1>2 DEF IsUp, Page
  <2>2. Append(m.wire[m.ws], n) \in Seq(WireFrames) /\ Append(m.left, n) \in Seq(Envelopes)
    BY <1>1, <2>1 DEF Page, WireFrames
  <2>3. QED
    BY <1>1, <1>2, <2>1, <2>2 DEF Sealed, Bounded, Page, Same, WireFrames
<1>3. CASE ~(IsUp(m) /\ ~m.suspect) /\ ~m.disconnected
  <2> DEFINE q == Append(m.outbox, n)
  <2>1. m.outbox \in Seq(Envelopes)
    BY <1>1 DEF Page
  <2>2. q \in Seq(Envelopes) /\ Len(q) = Len(m.outbox) + 1 /\ Len(m.outbox) \in Nat
    BY <2>1
  <2>3. q # <<>> /\ Head(q) \in Envelopes /\ Tail(q) \in Seq(Envelopes)
        /\ Len(Tail(q)) = Len(q) - 1
    <3> HIDE DEF q
    <3> QED
      BY <2>2
  <2> HIDE DEF q
  <2>4. CASE Len(q) > OutboxMax
    <3>1. Sealed(m, n) = [m EXCEPT !.outbox = Tail(q), !.dropped = @ \cup {Head(q)}]
      BY <1>3, <2>4 DEF Sealed, q
    <3>2. Len(Tail(q)) <= OutboxMax
      BY <1>1, <2>2, <2>3, ClientAssumption
    <3> DEFINE rest == Tail(q)
               gone == m.dropped \cup {Head(q)}
    <3>3. rest \in Seq(Envelopes) /\ Len(rest) <= OutboxMax /\ gone \in SUBSET Envelopes
      BY <1>1, <2>3, <3>2 DEF Page
    <3>4. Sealed(m, n) = [m EXCEPT !.outbox = rest, !.dropped = gone]
      BY <1>1, <3>1 DEF Page
    <3> HIDE DEF rest, gone
    <3>5. QED
      BY <1>1, <3>3, <3>4 DEF Bounded, Page, Same
  <2>5. CASE ~(Len(q) > OutboxMax)
    <3>1. Sealed(m, n) = [m EXCEPT !.outbox = q]
      BY <1>3, <2>5 DEF Sealed, q
    <3>2. Len(q) <= OutboxMax
      BY <2>2, <2>5, ClientAssumption
    <3>3. QED
      BY <1>1, <2>2, <3>1, <3>2 DEF Bounded, Page, Same
  <2>6. QED
    BY <2>4, <2>5
<1>4. CASE ~(IsUp(m) /\ ~m.suspect) /\ m.disconnected
  BY <1>1, <1>4 DEF Sealed, Bounded, Same
<1>5. QED
  BY <1>2, <1>3, <1>4

------------------------------------------------------------------------------
(* Opening, losing and replacing a socket *)

\* _openSignaling makes s current and detached.
LEMMA OpenKeeps ==
    ASSUME NEW m, Bounded(m), NEW s \in Sockets
    PROVE  /\ Bounded(OpenSignaling(m, s))
           /\ Same([m EXCEPT !.ws = s, !.ready[s] = "connecting", !.onclose = @ \ {s}],
                   OpenSignaling(m, s))
<1>1. <<>> \in Seq(WireFrames)
  OBVIOUS
<1>2. QED
  BY <1>1 DEF OpenSignaling, Bounded, Page, Same, ReadyState, WireFrames

\* An attempt that succeeds is trusted, watched and given its close handler.
LEMMA OpenedKeeps ==
    ASSUME NEW m, Bounded(m), NEW s \in Sockets
    PROVE  /\ Bounded(Opened(m, s))
           /\ Same([m EXCEPT !.ready[s] = "open", !.suspect = FALSE, !.liveness = s,
                             !.onclose = @ \cup {s}], Opened(m, s))
<1> DEFINE n == [m EXCEPT !.ready[s] = "open", !.suspect = FALSE, !.liveness = s,
                          !.onclose = @ \cup {s}]
<1>1. Bounded(n)
  BY DEF Bounded, Page, ReadyState
<1> HIDE DEF n
<1>2. Bounded(Join(n)) /\ Same(n, Join(n))
  BY <1>1, JoinKeeps
<1>3. Bounded(FlushOutbox(Join(n))) /\ Same(Join(n), FlushOutbox(Join(n)))
  BY <1>2, FlushKeeps
<1>4. Opened(m, s) = FlushOutbox(Join(n))
  BY DEF Opened, n
<1>5. QED
  BY <1>2, <1>3, <1>4 DEF Same, n

\* A socket declared dead is detached before it is replaced.
LEMMA DeadKeeps ==
    ASSUME NEW m, Bounded(m), NEW s \in Sockets, NEW fresh \in Sockets
    PROVE  /\ Bounded(DeclareSocketDead(m, s, fresh))
           /\ Same([m EXCEPT !.suspect = FALSE, !.ready = [[@ EXCEPT ![s] = "closing"]
                                                          EXCEPT ![fresh] = "connecting"],
                             !.onclose = (@ \ {s}) \ {fresh}, !.reconnect = FALSE,
                             !.ws = fresh],
                   DeclareSocketDead(m, s, fresh))
<1> DEFINE n == [m EXCEPT !.suspect = FALSE, !.ready[s] = "closing",
                          !.onclose = @ \ {s}, !.reconnect = FALSE]
<1>1. Bounded(n)
  BY DEF Bounded, Page, ReadyState
<1>2. /\ Bounded(OpenSignaling(n, fresh))
      /\ Same([n EXCEPT !.ws = fresh, !.ready[fresh] = "connecting",
                        !.onclose = @ \ {fresh}], OpenSignaling(n, fresh))
  <2> HIDE DEF n
  <2> QED
    BY <1>1, OpenKeeps
<1>3. DeclareSocketDead(m, s, fresh) = OpenSignaling(n, fresh)
  BY DEF DeclareSocketDead
<1>4. /\ n.ws = m.ws /\ n.ready = [m.ready EXCEPT ![s] = "closing"]
      /\ n.onclose = m.onclose \ {s} /\ n.reconnect = FALSE /\ n.suspect = FALSE
      /\ n.liveness = m.liveness /\ n.probe = m.probe /\ n.disconnected = m.disconnected
  BY DEF Bounded, Page
<1>5. n \in Page /\ m \in Page
  BY <1>1 DEF Bounded
<1> HIDE DEF n
<1>6. QED
  BY <1>2, <1>3, <1>4, <1>5 DEF Same, Page

LEMMA ScheduleKeeps ==
    ASSUME NEW m, Bounded(m)
    PROVE  /\ Bounded(ScheduleReconnect(m))
           /\ Same(IF m.disconnected THEN m ELSE [m EXCEPT !.reconnect = TRUE],
                   ScheduleReconnect(m))
BY DEF ScheduleReconnect, Bounded, Page, Same

Links == [Sockets -> {"up", "shut", "dead", "cut"}]

\* The page becomes m, less what was written to a connection that is gone.
LEMMA BecomesKeeps ==
    ASSUME NEW m, Bounded(m), link \in Links, Becomes(m)
    PROVE  Bounded(me') /\ Same(m, me') /\ link' \in Links
<1>1. \A s \in Sockets : link[s] \in {"up", "shut", "dead", "cut"}
  BY DEF Links
<1>2. link' \in Links
  <2> DEFINE fate(s) == IF m.ready[s] = "connecting" /\ me.ready[s] # "connecting" THEN "up"
                        ELSE IF m.ready[s] = "closing" /\ link[s] = "up" THEN "shut"
                        ELSE link[s]
  <2>1. link' = [s \in Sockets |-> fate(s)]
    BY DEF Becomes
  <2>2. \A s \in Sockets : fate(s) \in {"up", "shut", "dead", "cut"}
    BY <1>1
  <2> HIDE DEF fate
  <2>3. QED
    BY <2>1, <2>2 DEF Links
<1> DEFINE w == [s \in Sockets |-> IF link'[s] \in {"up", "shut"} THEN m.wire[s] ELSE <<>>]
<1>3. w \in [Sockets -> Seq(WireFrames)]
  <2>1. \A s \in Sockets : m.wire[s] \in Seq(WireFrames)
    BY DEF Bounded, Page, WireFrames
  <2>2. <<>> \in Seq(WireFrames)
    OBVIOUS
  <2>3. QED
    BY <2>1, <2>2
<1>4. me' = [m EXCEPT !.wire = w]
  BY DEF Becomes
<1> HIDE DEF w
<1>5. QED
  BY <1>2, <1>3, <1>4 DEF Bounded, Page, Same, WireFrames

------------------------------------------------------------------------------
(* Types *)

Stages == {"new", "deriving", "joined"}
Budgets == [frames: 0..MaxFrames, faults: 0..MaxFaults, wakes: 0..MaxWakes]

\* The methods called by the actions, on a page of the right type.
LEMMA MethodTypes ==
    ASSUME NEW m, Bounded(m), NEW s \in Sockets, NEW b \in BOOLEAN
    PROVE  /\ Bounded([m EXCEPT !.ready[s] = "closed"])
           /\ Bounded([m EXCEPT !.ready[s] = "closing"])
           /\ Bounded([m EXCEPT !.reconnect = b])
           /\ Bounded([m EXCEPT !.probe = None])
           /\ Bounded([m EXCEPT !.suspect = TRUE, !.probe = s])
           /\ Bounded(OnClose(m))
<1>1. /\ Bounded([m EXCEPT !.ready[s] = "closed"])
      /\ Bounded([m EXCEPT !.ready[s] = "closing"])
      /\ Bounded([m EXCEPT !.reconnect = b])
      /\ Bounded([m EXCEPT !.probe = None])
      /\ Bounded([m EXCEPT !.suspect = TRUE, !.probe = s])
  BY DEF Bounded, Page, ReadyState
<1> DEFINE n == [m EXCEPT !.liveness = None, !.probe = None, !.suspect = FALSE]
<1>2. Bounded(n)
  BY DEF Bounded, Page
<1> HIDE DEF n
<1>3. Bounded(ScheduleReconnect(n))
  BY <1>2, ScheduleKeeps
<1>4. QED
  BY <1>1, <1>3 DEF OnClose, n

\* disconnect() and pagehide: leave is signalled, everything pending is dropped.
Gone(m) == [m EXCEPT !.disconnected = TRUE, !.reconnect = FALSE, !.liveness = None,
                     !.probe = None, !.outbox = <<>>]

LEMMA GoneKeeps ==
    ASSUME NEW m, Bounded(m)
    PROVE  /\ Bounded(Signal(Gone(m), LeaveFrame))
           /\ Same(Gone(m), Signal(Gone(m), LeaveFrame))
<1>1. Len(<<>>) <= OutboxMax /\ <<>> \in Seq(Envelopes)
  BY ClientAssumption
<1>2. Bounded(Gone(m))
  BY <1>1 DEF Gone, Bounded, Page
<1>3. QED
  BY <1>2, SignalKeeps, FramesOnWire

\* A step that only changes the page and its links.
LEMMA PageStep ==
    ASSUME TypeOK, NEW m, Bounded(m), Becomes(m)
    PROVE  Bounded(me') /\ Same(m, me') /\ link' \in Links
BY BecomesKeeps DEF TypeOK, Links

\* The actions that act on one socket keep the types.
LEMMA SocketTypes ==
    ASSUME TypeOK, NEW s \in Sockets,
           \/ KeyDerived(s) \/ OnOpen(s) \/ ConnectFails(s) \/ ReconnectFires(s)
           \/ CloseEvent(s) \/ CloseBegins(s) \/ Wake(s) \/ ProbeFires(s)
           \/ LivenessTick(s) \/ OnMessage(s)
    PROVE  TypeOK'
<1> USE DEF outside
<1>0. Bounded(me)
  BY DEF TypeOK, Bounded
<1>1. CASE KeyDerived(s)
  <2>1. Bounded(IF me.disconnected THEN me ELSE OpenSignaling(me, s))
    BY <1>0, OpenKeeps
  <2>2. Bounded(me') /\ link' \in Links
    BY <1>1, <2>1, PageStep DEF KeyDerived
  <2>3. QED
    BY <1>1, <2>2 DEF KeyDerived, TypeOK, Bounded, Links
<1>2. CASE OnOpen(s)
  <2>1. Bounded(me') /\ link' \in Links
    BY <1>0, <1>2, OpenedKeeps, PageStep DEF OnOpen
  <2>2. QED
    BY <1>2, <2>1 DEF OnOpen, TypeOK, Bounded, Links
<1>3. CASE ConnectFails(s)
  <2>1. Bounded(ScheduleReconnect([me EXCEPT !.ready[s] = "closed"]))
    BY <1>0, MethodTypes, ScheduleKeeps
  <2>2. Bounded(me') /\ link' \in Links
    BY <1>3, <2>1, PageStep DEF ConnectFails
  <2>3. QED
    BY <1>3, <2>2 DEF ConnectFails, TypeOK, Bounded, Links
<1>4. CASE ReconnectFires(s)
  <2>1. Bounded(OpenSignaling([me EXCEPT !.reconnect = FALSE], s))
    BY <1>0, MethodTypes, OpenKeeps
  <2>2. Bounded(me') /\ link' \in Links
    BY <1>4, <2>1, PageStep DEF ReconnectFires
  <2>3. QED
    BY <1>4, <2>2 DEF ReconnectFires, TypeOK, Bounded, Links
<1>5. CASE CloseEvent(s)
  <2> DEFINE m == [me EXCEPT !.ready[s] = "closed"]
             n == IF s \in m.onclose THEN OnClose(m) ELSE m
  <2>1. Bounded(m)
    BY <1>0, MethodTypes
  <2>2. Bounded(n)
    <3> HIDE DEF m
    <3> QED
      BY <2>1, MethodTypes
  <2>3. Becomes(n)
    BY <1>5 DEF CloseEvent
  <2> HIDE DEF n
  <2>4. Bounded(me') /\ link' \in Links
    BY <2>2, <2>3, PageStep
  <2>5. QED
    BY <1>5, <2>4 DEF CloseEvent, TypeOK, Bounded, Links
<1>6. CASE CloseBegins(s)
  <2>1. Bounded(me') /\ link' \in Links
    BY <1>0, <1>6, MethodTypes, PageStep DEF CloseBegins
  <2>2. QED
    BY <1>6, <2>1 DEF CloseBegins, TypeOK, Bounded, Links
<1>7. CASE Wake(s)
  <2>1. Bounded(OpenSignaling([me EXCEPT !.reconnect = FALSE], s))
    BY <1>0, MethodTypes, OpenKeeps
  <2>2. Bounded(Join([me EXCEPT !.suspect = TRUE, !.probe = s]))
    BY <1>0, MethodTypes, JoinKeeps
  <2>3. Bounded(me') /\ link' \in Links
    BY <1>7, <2>1, <2>2, PageStep DEF Wake
  <2>4. budget' \in Budgets
    BY <1>7, ClientAssumption DEF Wake, TypeOK, Budgets
  <2>5. QED
    BY <1>7, <2>3, <2>4 DEF Wake, TypeOK, Bounded, Links, Budgets
<1>8. CASE ProbeFires(s)
  <2> DEFINE m == [me EXCEPT !.probe = None]
  <2>1. Bounded(m) /\ me.probe \in Sockets
    <3>1. me.probe \in Sockets
      BY <1>0, <1>8 DEF ProbeFires, Bounded, Page
    <3>2. Bounded(m)
      BY <1>0, <3>1, MethodTypes
    <3>3. QED
      BY <3>1, <3>2
  <2>2. Bounded(DeclareSocketDead(m, me.probe, s))
    BY <2>1, DeadKeeps
  <2>3. Becomes(m) \/ Becomes(DeclareSocketDead(m, me.probe, s))
    BY <1>8 DEF ProbeFires
  <2> HIDE DEF m
  <2>4. Bounded(me') /\ link' \in Links
    BY <2>1, <2>2, <2>3, PageStep
  <2>5. QED
    BY <1>8, <2>4 DEF ProbeFires, TypeOK, Bounded, Links
<1>9. CASE LivenessTick(s)
  <2>1. me.ws \in Sockets
    BY <1>0, <1>9 DEF LivenessTick, Bounded, Page
  <2>2. Bounded(me') /\ link' \in Links
    BY <1>0, <1>9, <2>1, DeadKeeps, PageStep DEF LivenessTick
  <2>3. QED
    BY <1>9, <2>2 DEF LivenessTick, TypeOK, Bounded, Links
<1>10. CASE OnMessage(s)
  <2>1. Bounded(me') /\ link' \in Links
    BY <1>0, <1>10, HeardKeeps, PageStep DEF OnMessage
  <2>2. QED
    BY <1>10, <2>1 DEF OnMessage, TypeOK, Bounded, Links
<1>11. QED
  BY <1>1, <1>2, <1>3, <1>4, <1>5, <1>6, <1>7, <1>8, <1>9, <1>10

\* The others: the user, the seal chain, the network and the server.
LEMMA OtherTypes ==
    ASSUME TypeOK,
           \/ Connect \/ Send \/ Seal \/ Disconnect \/ PageHide
           \/ \E s \in Sockets : Breaks(s) \/ ServerReads(s) \/ ServerDrops(s)
    PROVE  TypeOK'
<1> USE DEF outside
<1>0. Bounded(me)
  BY DEF TypeOK, Bounded
<1>1. CASE Connect
  BY <1>1 DEF Connect, TypeOK
<1>2. CASE Send
  <2> DEFINE n == MaxFrames - budget.frames + 1
  <2>1. n \in Envelopes /\ budget' \in Budgets
    <3>1. /\ budget \in Budgets /\ budget.frames \in 1..MaxFrames
          /\ budget' = [budget EXCEPT !.frames = budget.frames - 1]
      BY <1>2, ClientAssumption DEF Send, TypeOK, Budgets
    <3>2. n \in Envelopes
      BY <3>1, ClientAssumption DEF Envelopes
    <3>3. budget.frames - 1 \in 0..MaxFrames
      BY <3>1, ClientAssumption
    <3>4. budget' \in Budgets
      BY <3>1, <3>3 DEF Budgets
    <3>5. QED
      BY <3>2, <3>4
  <2>2. sealing' \in Seq(Envelopes)
    BY <1>2, <2>1 DEF Send, TypeOK
  <2>3. QED
    BY <1>2, <2>1, <2>2 DEF Send, TypeOK, Budgets
<1>3. CASE Seal
  <2>1. Head(sealing) \in Envelopes /\ Tail(sealing) \in Seq(Envelopes)
    BY <1>3 DEF Seal, TypeOK
  <2>2. Bounded(me') /\ link' \in Links
    BY <1>0, <1>3, <2>1, SealedKeeps, PageStep DEF Seal
  <2>3. QED
    BY <1>3, <2>1, <2>2 DEF Seal, TypeOK, Bounded, Links
<1>4. CASE Disconnect
  <2> DEFINE m == Signal(Gone(me), LeaveFrame)
             n == IF m.ws = None THEN m ELSE [m EXCEPT !.ready[m.ws] = Closed(m, m.ws)]
  <2>1. Bounded(m)
    BY <1>0, GoneKeeps
  <2>2. Becomes(n)
    BY <1>4 DEF Disconnect, Gone
  <2>3. Bounded(n)
    <3> HIDE DEF m
    <3> QED
      BY <2>1 DEF Bounded, Page, Closed, ReadyState
  <2> HIDE DEF n
  <2>4. Bounded(me') /\ link' \in Links
    BY <2>2, <2>3, PageStep
  <2>5. QED
    BY <1>4, <2>4 DEF Disconnect, TypeOK, Bounded, Links
<1>5. CASE PageHide
  <2> DEFINE m == Signal(Gone(me), LeaveFrame)
             n == [m EXCEPT !.ready = [s \in Sockets |-> Closed(m, s)], !.onclose = {}]
  <2>1. Bounded(m)
    BY <1>0, GoneKeeps
  <2>2. Becomes(n)
    BY <1>5 DEF PageHide, Gone
  <2>3. Bounded(n)
    <3> HIDE DEF m
    <3>1. [s \in Sockets |-> Closed(m, s)] \in [Sockets -> ReadyState]
      BY <2>1 DEF Bounded, Page, Closed, ReadyState
    <3>2. QED
      BY <2>1, <3>1 DEF Bounded, Page
  <2> HIDE DEF n
  <2>4. Bounded(me') /\ link' \in Links
    BY <2>2, <2>3, PageStep
  <2>5. QED
    BY <1>5, <2>4 DEF PageHide, TypeOK, Bounded, Links
<1>6. ASSUME NEW s \in Sockets, Breaks(s) PROVE TypeOK'
  <2>1. <<>> \in Seq(WireFrames)
    OBVIOUS
  <2>2. Bounded(me')
    BY <1>0, <1>6, <2>1 DEF Breaks, Bounded, Page, WireFrames
  <2>3. link' \in Links
    <3>1. PICK fate \in {"dead", "cut"} : link' = [link EXCEPT ![s] = fate]
      BY <1>6 DEF Breaks
    <3>2. QED
      BY <3>1 DEF TypeOK, Links
  <2>4. budget' \in Budgets
    <3>1. budget.faults > 0 /\ budget' = [budget EXCEPT !.faults = @ - 1]
      BY <1>6 DEF Breaks
    <3>2. QED
      BY <3>1, ClientAssumption DEF TypeOK, Budgets
  <2>5. UNCHANGED <<stage, sealing, seat>>
    BY <1>6 DEF Breaks
  <2>6. QED
    BY <2>2, <2>3, <2>4, <2>5 DEF TypeOK, Bounded, Links, Budgets
<1>7. ASSUME NEW s \in Sockets, ServerReads(s) PROVE TypeOK'
  <2>1. \A t \in Sockets : me.wire[t] \in Seq(WireFrames)
    BY <1>0 DEF Bounded, Page, WireFrames
  <2>2. me.wire[s] # <<>>
    BY <1>7 DEF ServerReads
  <2>3. Tail(me.wire[s]) \in Seq(WireFrames) /\ <<>> \in Seq(WireFrames)
    BY <2>1, <2>2
  <2> DEFINE w == [t \in Sockets |->
                     IF t = s THEN Tail(me.wire[t]) ELSE IF link'[t] = "cut" THEN <<>>
                     ELSE me.wire[t]]
  <2>4. w \in [Sockets -> Seq(WireFrames)]
    BY <2>1, <2>3
  <2>5. me' = [me EXCEPT !.wire = w]
    BY <1>7 DEF ServerReads
  <2>6. Bounded(me')
    <3> HIDE DEF w
    <3> QED
      BY <1>0, <2>4, <2>5 DEF Bounded, Page, WireFrames
  <2>7. link' \in Links
    BY <1>7 DEF ServerReads, TypeOK, Links
  <2>8. seat' \in Sockets \cup {None}
    BY <1>7 DEF ServerReads, TypeOK
  <2>9. QED
    BY <1>7, <2>6, <2>7, <2>8 DEF ServerReads, TypeOK, Bounded, Links
<1>8. ASSUME NEW s \in Sockets, ServerDrops(s) PROVE TypeOK'
  BY <1>8 DEF ServerDrops, TypeOK
<1>9. QED
  BY <1>1, <1>2, <1>3, <1>4, <1>5, <1>6, <1>7, <1>8

LEMMA InitTypes == Init => TypeOK
<1>1. <<>> \in Seq(Envelopes) /\ <<>> \in Seq(WireFrames) /\ Len(<<>>) <= OutboxMax
  BY ClientAssumption
<1>2. QED
  BY <1>1, ClientAssumption DEF Init, TypeOK, Page, ReadyState, WireFrames

LEMMA NextTypes == TypeOK /\ [Next]_vars => TypeOK'
<1>1. ASSUME TypeOK, UNCHANGED vars PROVE TypeOK'
  BY <1>1 DEF vars, TypeOK
<1>2. ASSUME TypeOK, Next PROVE TypeOK'
  BY <1>2, SocketTypes, OtherTypes DEF Next
<1>3. QED
  BY <1>1, <1>2

\* The page, its sockets and its bounds keep their types, the outbox's included.
THEOREM SignalClientTypes == Spec => []TypeOK
BY InitTypes, NextTypes, PTL DEF Spec

------------------------------------------------------------------------------
(* One live socket, always looked after *)

Untouched(m) ==
    /\ m.ws = None /\ m.onclose = {} /\ ~m.reconnect /\ ~m.suspect
    /\ \A s \in Sockets : m.ready[s] = "closed"

\* OneSocket and NeverWedged of a page, and what makes them inductive: only an
\* open or closing socket is ever suspect.
Alive(m) ==
    /\ m.ws \in Sockets
    /\ \A s \in Sockets \ {m.ws} : /\ m.ready[s] \in {"closing", "closed"}
                                   /\ s \in m.onclose => m.ready[s] = "closed"
    /\ m.reconnect => m.ready[m.ws] = "closed"
    /\ \/ m.reconnect
       \/ m.ready[m.ws] = "connecting"
       \/ /\ \/ m.ready[m.ws] = "open" /\ m.liveness = m.ws
             \/ m.ready[m.ws] = "closing"
          /\ m.ws \in m.onclose
    /\ m.suspect => m.probe = m.ws /\ m.ready[m.ws] \in {"open", "closing"}

PageInv(m, st) == IF st = "joined" THEN m.disconnected \/ Alive(m) ELSE Untouched(m)

LEMMA SameInv ==
    ASSUME NEW m, NEW n, NEW st, Same(m, n), PageInv(m, st)
    PROVE  PageInv(n, st)
<1>1. /\ n.ws = m.ws /\ n.ready = m.ready /\ n.onclose = m.onclose
      /\ n.reconnect = m.reconnect /\ n.liveness = m.liveness /\ n.probe = m.probe
      /\ n.suspect = m.suspect /\ n.disconnected = m.disconnected
  BY DEF Same
<1>2. Alive(m) => Alive(n)
  BY <1>1 DEF Alive
<1>3. Untouched(m) => Untouched(n)
  BY <1>1 DEF Untouched
<1>4. QED
  BY <1>1, <1>2, <1>3 DEF PageInv

\* A step that makes the page n, up to what is queued and written, keeps the
\* invariant if n has it.
LEMMA BecomesInv ==
    ASSUME TypeOK, NEW m, Bounded(m), NEW n, Same(n, m), PageInv(n, stage'), Becomes(m)
    PROVE  PageInv(me', stage')
<1>1. PageInv(m, stage')
  BY SameInv
<1>2. Same(m, me')
  BY PageStep
<1>3. QED
  BY <1>1, <1>2, SameInv

\* A fresh socket takes over from one that is closed, or detached and closing.
LEMMA TakeOver ==
    ASSUME NEW m, Bounded(m), NEW s \in Sockets, m.ready[s] = "closed",
           \A t \in Sockets : /\ m.ready[t] \in {"closing", "closed"}
                              /\ t \in m.onclose => m.ready[t] = "closed",
           ~m.reconnect, ~m.suspect
    PROVE  Alive([m EXCEPT !.ws = s, !.ready[s] = "connecting", !.onclose = @ \ {s}])
<1> DEFINE n == [m EXCEPT !.ws = s, !.ready[s] = "connecting", !.onclose = @ \ {s}]
<1>1. m \in Page
  BY DEF Bounded
<1>2. n.ws = s /\ n.onclose = m.onclose \ {s} /\ ~n.reconnect /\ ~n.suspect
  BY <1>1 DEF Page
<1>3. n.ready = [m.ready EXCEPT ![s] = "connecting"] /\ m.ready \in [Sockets -> ReadyState]
  BY <1>1 DEF Page
<1> HIDE DEF n
<1>4. n.ready[s] = "connecting" /\ \A t \in Sockets \ {s} : n.ready[t] = m.ready[t]
  BY <1>3
<1>5. \A t \in Sockets \ {s} : /\ n.ready[t] \in {"closing", "closed"}
                               /\ t \in n.onclose => n.ready[t] = "closed"
  BY <1>2, <1>4
<1>6. Alive(n)
  BY <1>2, <1>4, <1>5, Zenon DEF Alive
<1>7. QED
  BY <1>6 DEF n

LEMMA OpeningInv ==
    ASSUME ~Overlap, TypeOK, PageInv(me, stage), NEW s \in Sockets,
           KeyDerived(s) \/ ReconnectFires(s) \/ OnOpen(s) \/ ConnectFails(s)
    PROVE  PageInv(me', stage')
<1> USE DEF outside
<1>0. Bounded(me)
  BY DEF TypeOK, Bounded
<1>1. CASE KeyDerived(s)
  <2> DEFINE n == [me EXCEPT !.ws = s, !.ready[s] = "connecting", !.onclose = @ \ {s}]
  <2>1. Untouched(me) /\ stage' = "joined" /\ s \in Sockets /\ me.ready[s] = "closed"
    BY <1>1 DEF KeyDerived, PageInv, Free
  <2>2. CASE me.disconnected
    <3>1. Becomes(me) /\ Same(me, me) /\ PageInv(me, stage')
      BY <1>1, <2>1, <2>2 DEF KeyDerived, Same, PageInv
    <3>2. QED
      BY <1>0, <3>1, BecomesInv
  <2>3. CASE ~me.disconnected
    <3>1. Alive(n)
      BY <1>0, <2>1, TakeOver DEF Untouched
    <3>2. PageInv(n, stage')
      BY <2>1, <3>1 DEF PageInv
    <3>3. Becomes(OpenSignaling(me, s))
      BY <1>1, <2>3 DEF KeyDerived
    <3>4. Bounded(OpenSignaling(me, s)) /\ Same(n, OpenSignaling(me, s))
      BY <1>0, OpenKeeps
    <3> HIDE DEF n
    <3>5. QED
      BY <3>2, <3>3, <3>4, BecomesInv
  <2>4. QED
    BY <2>2, <2>3
<1>2. CASE ReconnectFires(s)
  <2> DEFINE m == [me EXCEPT !.reconnect = FALSE]
             n == [m EXCEPT !.ws = s, !.ready[s] = "connecting", !.onclose = @ \ {s}]
  <2>1. Bounded(m)
    BY <1>0, MethodTypes
  <2>2. stage = "joined" /\ stage' = "joined" /\ me.ready[s] = "closed" /\ me.reconnect
    BY <1>2 DEF ReconnectFires, Free, PageInv, Untouched
  <2>3. me.disconnected \/ Alive(n)
    <3>1. SUFFICES ASSUME ~me.disconnected PROVE Alive(n)
      OBVIOUS
    <3>2. Alive(me)
      BY <2>2, <3>1 DEF PageInv
    <3>3. /\ m.ready[s] = "closed" /\ ~m.reconnect /\ ~m.suspect
          /\ \A t \in Sockets : /\ m.ready[t] \in {"closing", "closed"}
                                /\ t \in m.onclose => m.ready[t] = "closed"
      BY <1>0, <2>2, <3>2 DEF Alive, Bounded, Page
    <3> HIDE DEF m
    <3>4. QED
      BY <2>1, <3>3, TakeOver
  <2>4. PageInv(n, stage')
    BY <1>0, <2>2, <2>3 DEF PageInv, Bounded, Page
  <2>5. Becomes(OpenSignaling(m, s))
    BY <1>2 DEF ReconnectFires
  <2>6. Bounded(OpenSignaling(m, s)) /\ Same(n, OpenSignaling(m, s))
    <3> HIDE DEF m
    <3> QED
      BY <2>1, OpenKeeps
  <2> HIDE DEF m, n
  <2>7. QED
    BY <2>4, <2>5, <2>6, BecomesInv
<1>3. CASE OnOpen(s)
  <2> DEFINE n == [me EXCEPT !.ready[s] = "open", !.suspect = FALSE, !.liveness = s,
                             !.onclose = @ \cup {s}]
  <2>1. stage = "joined" /\ stage' = "joined" /\ me.ready[s] = "connecting"
    BY <1>3 DEF OnOpen, PageInv, Untouched
  <2>2. PageInv(n, stage')
    BY <1>0, <2>1 DEF PageInv, Alive, Bounded, Page
  <2>3. Bounded(Opened(me, s)) /\ Same(n, Opened(me, s)) /\ Becomes(Opened(me, s))
    BY <1>0, <1>3, OpenedKeeps DEF OnOpen
  <2> HIDE DEF n
  <2>4. QED
    BY <2>2, <2>3, BecomesInv
<1>4. CASE ConnectFails(s)
  <2> DEFINE m == [me EXCEPT !.ready[s] = "closed"]
             n == IF m.disconnected THEN m ELSE [m EXCEPT !.reconnect = TRUE]
  <2>1. stage = "joined" /\ stage' = "joined" /\ me.ready[s] = "connecting"
    BY <1>4 DEF ConnectFails, PageInv, Untouched
  <2>2. PageInv(n, stage')
    BY <1>0, <2>1 DEF PageInv, Alive, Bounded, Page
  <2>3. Bounded(m) /\ Becomes(ScheduleReconnect(m))
    BY <1>0, <1>4, MethodTypes DEF ConnectFails
  <2>4. Bounded(ScheduleReconnect(m)) /\ Same(n, ScheduleReconnect(m))
    <3> HIDE DEF m
    <3> QED
      BY <2>3, ScheduleKeeps
  <2> HIDE DEF m, n
  <2>5. QED
    BY <2>2, <2>3, <2>4, BecomesInv
<1>5. QED
  BY <1>1, <1>2, <1>3, <1>4

\* The close event of the current socket schedules a reconnect; that of a socket given
\* up finds its handler detached.
LEMMA ClosingInv ==
    ASSUME TypeOK, PageInv(me, stage), NEW s \in Sockets, CloseEvent(s) \/ CloseBegins(s)
    PROVE  PageInv(me', stage')
<1> USE DEF outside
<1>0. Bounded(me) /\ me \in Page
  BY DEF TypeOK, Bounded
<1>1. stage = "joined" /\ stage' = "joined" /\ (me.disconnected \/ Alive(me))
  BY DEF CloseEvent, CloseBegins, PageInv, Untouched
<1>2. CASE CloseEvent(s)
  <2> DEFINE m == [me EXCEPT !.ready[s] = "closed"]
             n == IF s \in m.onclose THEN OnClose(m) ELSE m
  <2>1. Bounded(m) /\ Bounded(OnClose(m))
    <3>1. Bounded(m)
      BY <1>0, MethodTypes
    <3> HIDE DEF m
    <3>2. QED
      BY <3>1, MethodTypes
  <2>2. me.ready[s] \in {"open", "closing"} /\ Becomes(n)
    BY <1>2 DEF CloseEvent
  <2>3. me.disconnected => n.disconnected
    BY <1>0 DEF OnClose, ScheduleReconnect, Page
  <2>4. ASSUME Alive(me), ~me.disconnected, s = me.ws PROVE Alive(n)
    <3>1. s \in me.onclose /\ \A t \in Sockets \ {s} :
             me.ready[t] \in {"closing", "closed"} /\ (t \in me.onclose => me.ready[t] = "closed")
      BY <2>2, <2>4 DEF Alive
    <3>2. n = OnClose(m)
      BY <1>0, <3>1 DEF Page
    <3>3. /\ n.ws = s /\ n.onclose = me.onclose /\ n.reconnect /\ ~n.suspect
          /\ n.ready = [me.ready EXCEPT ![s] = "closed"]
      <4> HIDE DEF n
      <4> QED
        BY <1>0, <2>4, <3>2 DEF OnClose, ScheduleReconnect, Page
    <3> HIDE DEF n
    <3>4. n.ready[s] = "closed" /\ \A t \in Sockets \ {s} : n.ready[t] = me.ready[t]
      BY <1>0, <3>3 DEF Page
    <3>5. QED
      BY <3>1, <3>3, <3>4 DEF Alive
  <2>5. ASSUME Alive(me), s # me.ws PROVE Alive(n)
    <3>1. n = m
      BY <1>0, <2>2, <2>5 DEF Alive, Page
    <3>2. Alive(m)
      BY <1>0, <2>5 DEF Alive, Page
    <3>3. QED
      BY <3>1, <3>2
  <2>6. PageInv(n, stage') /\ Bounded(n) /\ Same(n, n)
    <3>1. Bounded(n)
      BY <2>1
    <3> HIDE DEF n
    <3>2. QED
      BY <1>1, <2>3, <2>4, <2>5, <3>1 DEF PageInv, Same
  <2> HIDE DEF n
  <2>7. QED
    BY <2>2, <2>6, BecomesInv
<1>3. CASE CloseBegins(s)
  <2> DEFINE n == [me EXCEPT !.ready[s] = "closing"]
  <2>1. me.ready[s] = "open" /\ Becomes(n)
    BY <1>3 DEF CloseBegins
  <2>2. Bounded(n)
    BY <1>0, MethodTypes
  <2>3. PageInv(n, stage')
    BY <1>0, <1>1, <2>1 DEF PageInv, Alive, Page
  <2> HIDE DEF n
  <2>4. QED
    BY <2>1, <2>2, <2>3, BecomesInv DEF Same
<1>4. QED
  BY <1>2, <1>3

\* The current socket, declared dead, is detached, and a fresh one takes over.
LEMMA DeadInv ==
    ASSUME NEW m, Bounded(m), m.ws \in Sockets,
           \A t \in Sockets \ {m.ws} : /\ m.ready[t] \in {"closing", "closed"}
                                       /\ t \in m.onclose => m.ready[t] = "closed",
           NEW s \in Sockets, m.ready[s] = "closed", s # m.ws
    PROVE  /\ Bounded(DeclareSocketDead(m, m.ws, s))
           /\ Alive(DeclareSocketDead(m, m.ws, s))
<1> DEFINE d == [m EXCEPT !.suspect = FALSE, !.ready[m.ws] = "closing",
                          !.onclose = @ \ {m.ws}, !.reconnect = FALSE]
           n == [d EXCEPT !.ws = s, !.ready[s] = "connecting", !.onclose = @ \ {s}]
<1>1. Bounded(d) /\ ~d.reconnect /\ ~d.suspect /\ d.ready[s] = "closed"
  BY DEF Bounded, Page, ReadyState
<1>2. \A t \in Sockets : /\ d.ready[t] \in {"closing", "closed"}
                         /\ t \in d.onclose => d.ready[t] = "closed"
  BY DEF Bounded, Page
<1>3. DeclareSocketDead(m, m.ws, s) = OpenSignaling(d, s)
  BY DEF DeclareSocketDead
<1> HIDE DEF d
<1>4. Alive(n)
  BY <1>1, <1>2, TakeOver
<1>5. Bounded(OpenSignaling(d, s)) /\ Same(n, OpenSignaling(d, s))
  BY <1>1, OpenKeeps
<1> HIDE DEF n
<1>6. Alive(OpenSignaling(d, s))
  BY <1>4, <1>5 DEF Alive, Same
<1>7. QED
  BY <1>3, <1>5, <1>6
\* Waking up: a socket that is gone is replaced by the reconnect that was due, an open
\* one becomes suspect.  Without overlap there is no third case.
LEMMA WakeInv ==
    ASSUME ~Overlap, TypeOK, PageInv(me, stage), NEW s \in Sockets, Wake(s)
    PROVE  PageInv(me', stage')
<1>0. Bounded(me) /\ me \in Page
  BY DEF TypeOK, Bounded
<1>1. CASE /\ me.ws # None /\ me.ready[me.ws] = "closed" /\ Free(s)
           /\ Becomes(OpenSignaling([me EXCEPT !.reconnect = FALSE], s))
  <2> DEFINE m == [me EXCEPT !.reconnect = FALSE]
             n == [m EXCEPT !.ws = s, !.ready[s] = "connecting", !.onclose = @ \ {s}]
  <2>1. Bounded(m) /\ Alive(me) /\ stage' = "joined"
    BY <1>0, <1>1, MethodTypes DEF Wake, PageInv, Untouched
  <2>2. /\ m.ready[s] = "closed" /\ ~m.reconnect /\ ~m.suspect
        /\ \A t \in Sockets : /\ m.ready[t] \in {"closing", "closed"}
                              /\ t \in m.onclose => m.ready[t] = "closed"
    BY <1>0, <1>1, <2>1 DEF Alive, Free, Page
  <2> HIDE DEF m
  <2>3. Alive(n)
    BY <2>1, <2>2, TakeOver
  <2>4. Bounded(OpenSignaling(m, s)) /\ Same(n, OpenSignaling(m, s))
    BY <2>1, OpenKeeps
  <2>5. Becomes(OpenSignaling(m, s))
    BY <1>1 DEF m
  <2> HIDE DEF n
  <2>6. QED
    BY <2>1, <2>3, <2>4, <2>5, BecomesInv DEF PageInv
<1>2. CASE /\ me.ws = s /\ me.ready[s] = "open"
           /\ Becomes(Join([me EXCEPT !.suspect = TRUE, !.probe = s]))
  <2> DEFINE n == [me EXCEPT !.suspect = TRUE, !.probe = s]
  <2>1. Bounded(n) /\ Alive(me) /\ stage' = "joined"
    BY <1>0, <1>2, MethodTypes DEF Wake, PageInv, Untouched
  <2>2. Alive(n)
    BY <1>0, <1>2, <2>1 DEF Alive, Page
  <2> HIDE DEF n
  <2>3. Bounded(Join(n)) /\ Same(n, Join(n))
    BY <2>1, JoinKeeps
  <2>4. Becomes(Join(n))
    BY <1>2 DEF n
  <2>5. QED
    BY <2>1, <2>2, <2>3, <2>4, BecomesInv DEF PageInv
<1>3. QED
  BY <1>1, <1>2 DEF Wake

\* A probe nobody answers, and a socket nothing was heard on.
LEMMA VerdictInv ==
    ASSUME TypeOK, PageInv(me, stage), NEW s \in Sockets, ProbeFires(s) \/ LivenessTick(s)
    PROVE  PageInv(me', stage')
<1> USE DEF outside
<1>0. Bounded(me) /\ me \in Page
  BY DEF TypeOK, Bounded
<1>1. stage' = stage
  BY DEF ProbeFires, LivenessTick
<1>2. CASE ProbeFires(s)
  <2> DEFINE m == [me EXCEPT !.probe = None]
  <2>1. Bounded(m) /\ m.ws = me.ws /\ m.ready = me.ready /\ m.onclose = me.onclose
        /\ m.disconnected = me.disconnected
    BY <1>0, MethodTypes DEF Page
  <2>2. CASE me.suspect /\ me.ws = me.probe
    <3>1. /\ stage = "joined" /\ me.ws \in Sockets /\ me.ready[s] = "closed"
          /\ Becomes(DeclareSocketDead(m, m.ws, s))
      BY <1>0, <1>2, <2>1, <2>2 DEF ProbeFires, PageInv, Untouched, Free, Page
    <3> DEFINE d == DeclareSocketDead(m, m.ws, s)
    <3>2. Bounded(d) /\ (me.disconnected => d.disconnected)
      <4> HIDE DEF m
      <4>1. Bounded(d)
        BY <2>1, <3>1, DeadKeeps
      <4>2. me.disconnected => d.disconnected
        BY <2>1 DEF DeclareSocketDead, OpenSignaling, Bounded, Page
      <4>3. QED
        BY <4>1, <4>2
    <3>3. ASSUME Alive(me) PROVE Alive(d)
      <4> HIDE DEF m
      <4>1. /\ s # m.ws
            /\ \A t \in Sockets \ {m.ws} : /\ m.ready[t] \in {"closing", "closed"}
                                           /\ t \in m.onclose => m.ready[t] = "closed"
        BY <2>1, <2>2, <3>1, <3>3 DEF Alive
      <4>2. QED
        BY <2>1, <3>1, <4>1, DeadInv
    <3> HIDE DEF d, m
    <3>4. PageInv(d, stage')
      BY <1>1, <3>1, <3>2, <3>3 DEF PageInv
    <3>5. QED
      BY <3>1, <3>2, <3>4, BecomesInv DEF Same, d
  <2>3. CASE ~(me.suspect /\ me.ws = me.probe)
    <3>1. Becomes(m)
      BY <1>2, <2>3 DEF ProbeFires
    <3>2. ~m.disconnected /\ stage = "joined" => ~me.suspect
      BY <2>1, <2>3 DEF PageInv, Alive
    <3>3. PageInv(m, stage')
      BY <1>0, <1>1, <2>1, <3>2 DEF PageInv, Alive, Untouched, Page
    <3> HIDE DEF m
    <3>4. QED
      BY <2>1, <3>1, <3>3, BecomesInv DEF Same
  <2>4. QED
    BY <2>2, <2>3
<1>3. CASE LivenessTick(s)
  <2>1. /\ stage = "joined" /\ me.ws \in Sockets /\ me.ready[me.ws] = "open"
        /\ me.ready[s] = "closed" /\ Becomes(DeclareSocketDead(me, me.ws, s))
    BY <1>0, <1>3 DEF LivenessTick, PageInv, Untouched, Free, Page
  <2> DEFINE d == DeclareSocketDead(me, me.ws, s)
  <2>2. Bounded(d) /\ (me.disconnected => d.disconnected)
    <3>1. Bounded(d)
      BY <1>0, <2>1, DeadKeeps
    <3>2. me.disconnected => d.disconnected
      BY <1>0 DEF DeclareSocketDead, OpenSignaling, Page
    <3>3. QED
      BY <3>1, <3>2
  <2>3. ASSUME Alive(me) PROVE Alive(d)
    <3>1. /\ s # me.ws
          /\ \A t \in Sockets \ {me.ws} : /\ me.ready[t] \in {"closing", "closed"}
                                          /\ t \in me.onclose => me.ready[t] = "closed"
      BY <2>1, <2>3 DEF Alive
    <3>2. QED
      BY <1>0, <2>1, <3>1, DeadInv
  <2> HIDE DEF d
  <2>4. PageInv(d, stage')
    BY <1>1, <2>1, <2>2, <2>3 DEF PageInv
  <2>5. QED
    BY <2>1, <2>2, <2>4, BecomesInv DEF Same, d
<1>4. QED
  BY <1>2, <1>3

\* What is heard and what is sealed changes no socket.
LEMMA TrafficInv ==
    ASSUME TypeOK, PageInv(me, stage), Seal \/ \E s \in Sockets : OnMessage(s)
    PROVE  PageInv(me', stage')
<1> USE DEF outside
<1>0. Bounded(me) /\ me \in Page
  BY DEF TypeOK, Bounded
<1>1. CASE Seal
  <2>1. Head(sealing) \in Envelopes /\ stage' = stage /\ Becomes(Sealed(me, Head(sealing)))
    BY <1>1 DEF Seal, TypeOK
  <2>2. Bounded(Sealed(me, Head(sealing))) /\ Same(me, Sealed(me, Head(sealing)))
    BY <1>0, <2>1, SealedKeeps
  <2>3. QED
    BY <2>1, <2>2, BecomesInv
<1>2. ASSUME NEW s \in Sockets, OnMessage(s) PROVE PageInv(me', stage')
  <2> DEFINE n == IF me.suspect THEN [me EXCEPT !.suspect = FALSE, !.probe = None] ELSE me
  <2>1. stage' = stage /\ Becomes(Heard(me))
    BY <1>2 DEF OnMessage
  <2>2. Bounded(Heard(me)) /\ Same(n, Heard(me))
    BY <1>0, HeardKeeps DEF Same
  <2>3. PageInv(n, stage')
    BY <1>0, <2>1 DEF PageInv, Alive, Untouched, Page
  <2> HIDE DEF n
  <2>4. QED
    BY <2>1, <2>2, <2>3, BecomesInv
<1>3. QED
  BY <1>1, <1>2

\* A page that is left promises nothing more; one that is left before it joined never
\* will.
LEMMA LeavingInv ==
    ASSUME TypeOK, PageInv(me, stage), Disconnect \/ PageHide
    PROVE  PageInv(me', stage')
<1> USE DEF outside
<1>0. Bounded(me) /\ me \in Page
  BY DEF TypeOK, Bounded
<1> DEFINE m == Signal(Gone(me), LeaveFrame)
<1>1. Bounded(m) /\ Same(Gone(me), m)
  BY <1>0, GoneKeeps
<1>2. m.disconnected /\ m.ws = me.ws /\ m.ready = me.ready /\ m.onclose = me.onclose
      /\ ~m.reconnect /\ m.suspect = me.suspect /\ m \in Page
  <2>1. Gone(me).disconnected /\ Gone(me).ws = me.ws /\ Gone(me).ready = me.ready
        /\ Gone(me).onclose = me.onclose /\ ~Gone(me).reconnect /\ Gone(me).suspect = me.suspect
    BY <1>0 DEF Gone, Page
  <2> HIDE DEF m
  <2>2. QED
    BY <1>1, <2>1 DEF Same, Bounded
<1>3. CASE Disconnect
  <2> DEFINE n == IF m.ws = None THEN m ELSE [m EXCEPT !.ready[m.ws] = Closed(m, m.ws)]
  <2>1. stage' = stage /\ Becomes(n)
    BY <1>3 DEF Disconnect, Gone
  <2> HIDE DEF m
  <2>2. n.disconnected /\ (Untouched(me) => Untouched(n))
    BY <1>2 DEF Untouched, Page
  <2>3. Bounded(n)
    BY <1>1, <1>2 DEF Bounded, Page, Closed, ReadyState
  <2> HIDE DEF n
  <2>4. PageInv(n, stage')
    BY <2>1, <2>2 DEF PageInv
  <2>5. QED
    BY <2>1, <2>3, <2>4, BecomesInv DEF Same
<1>4. CASE PageHide
  <2> DEFINE n == [m EXCEPT !.ready = [s \in Sockets |-> Closed(m, s)], !.onclose = {}]
  <2>1. stage' = stage /\ Becomes(n)
    BY <1>4 DEF PageHide, Gone
  <2> HIDE DEF m
  <2>2. n.disconnected /\ (Untouched(me) => Untouched(n))
    BY <1>2 DEF Untouched, Page, Closed
  <2>3. Bounded(n)
    BY <1>1, <1>2 DEF Bounded, Page, Closed, ReadyState
  <2> HIDE DEF n
  <2>4. PageInv(n, stage')
    BY <2>1, <2>2 DEF PageInv
  <2>5. QED
    BY <2>1, <2>3, <2>4, BecomesInv DEF Same
<1>5. QED
  BY <1>3, <1>4

\* The network and the server only read and lose what was written.
LEMMA OutsideInv ==
    ASSUME TypeOK, PageInv(me, stage),
           \/ Connect \/ Send
           \/ \E s \in Sockets : Breaks(s) \/ ServerReads(s) \/ ServerDrops(s)
    PROVE  PageInv(me', stage')
<1>0. me \in Page
  BY DEF TypeOK
<1>1. CASE Connect
  BY <1>1 DEF Connect, PageInv
<1>2. CASE Send
  BY <1>2 DEF Send
<1>3. ASSUME NEW s \in Sockets, Breaks(s) \/ ServerReads(s) \/ ServerDrops(s)
      PROVE  PageInv(me', stage')
  <2>1. stage' = stage
    BY <1>3 DEF Breaks, ServerReads, ServerDrops
  <2>2. \/ me' = me
        \/ \E w : me' = [me EXCEPT !.wire = w]
    <3>1. ASSUME Breaks(s) PROVE me' = [me EXCEPT !.wire = [@ EXCEPT ![s] = <<>>]]
      BY <1>0, <3>1 DEF Breaks, Page
    <3>2. ASSUME ServerReads(s) PROVE \E w : me' = [me EXCEPT !.wire = w]
      BY <3>2 DEF ServerReads
    <3>3. ASSUME ServerDrops(s) PROVE me' = me
      BY <3>3 DEF ServerDrops
    <3>4. QED
      BY <1>0, <1>3, <3>1, <3>2, <3>3
  <2>3. Same(me, me')
    BY <1>0, <2>2 DEF Same, Page
  <2>4. QED
    BY <2>1, <2>3, SameInv
<1>4. QED
  BY <1>1, <1>2, <1>3

LEMMA PageInvNext ==
    ASSUME ~Overlap, TypeOK, PageInv(me, stage), [Next]_vars
    PROVE  PageInv(me', stage')
<1>1. CASE UNCHANGED vars
  BY <1>1 DEF vars
<1>2. CASE Next
  BY <1>2, OpeningInv, ClosingInv, WakeInv, VerdictInv, TrafficInv, LeavingInv, OutsideInv
     DEF Next
<1>3. QED
  BY <1>1, <1>2

\* peer.ts:841-849 and 908-913, without the overlap of a wake: at every moment exactly
\* one socket of the page is being opened, or open and watched, or a reconnect is due;
\* and a suspect socket is being probed.
THEOREM PageIsNeverWedged ==
    ASSUME ~Overlap
    PROVE  Spec => []NeverWedged
<1>1. Init => PageInv(me, stage)
  BY DEF Init, PageInv, Untouched
<1>2. TypeOK /\ PageInv(me, stage) /\ [Next]_vars => PageInv(me, stage)'
  BY PageInvNext
<1>3. PageInv(me, stage) => NeverWedged
  BY DEF PageInv, Alive, NeverWedged
<1>4. QED
  BY <1>1, <1>2, <1>3, SignalClientTypes, PTL DEF Spec

\* peer.ts:502-519, without the overlap of a wake: a socket the page gave up can never
\* disturb it.
THEOREM PageKeepsOneSocket ==
    ASSUME ~Overlap
    PROVE  Spec => []OneSocket
<1>1. Init => PageInv(me, stage)
  BY DEF Init, PageInv, Untouched
<1>2. TypeOK /\ PageInv(me, stage) /\ [Next]_vars => PageInv(me, stage)'
  BY PageInvNext
<1>3. PageInv(me, stage) => OneSocket
  BY DEF PageInv, Alive, OneSocket
<1>4. QED
  BY <1>1, <1>2, <1>3, SignalClientTypes, PTL DEF Spec

------------------------------------------------------------------------------
(* Envelopes: none forgotten, and in order *)

\* Every number of A is below every number of B.
Before(A, B) == \A a \in A, b \in B : a < b

\* NothingTypedIsForgotten, and what makes it inductive: what waits (o) and what is being
\* sealed (q) follow each other, what the outbox had no room for (d) is older than both, and
\* none was ever numbered above n, the number of envelopes sent.
Kept(l, o, q, d, gone, n) ==
    /\ Increasing(o) /\ Increasing(q) /\ Before(Elements(o), Elements(q))
    /\ Before(d, Elements(o) \cup Elements(q))
    /\ Elements(l) \cup Elements(o) \cup Elements(q) \cup d \subseteq 1..n
    /\ ~gone => 1..n \subseteq Elements(l) \cup Elements(o) \cup Elements(q) \cup d

\* LeavesInOrder needs that too, and that what was written is older than what was not.
Ahead(l, o, q) ==
    /\ Increasing(l)
    /\ Before(Elements(l), Elements(o) \cup Elements(q))

\* Envelopes wait only while no trusted socket is there to take them.
WaitsForSocket(m) == m.outbox # <<>> => ~m.disconnected /\ ~(IsUp(m) /\ ~m.suspect)

KeptInv ==
    Kept(me.left, me.outbox, sealing, me.dropped, me.disconnected, MaxFrames - budget.frames)
OrderInv == Ahead(me.left, me.outbox, sealing) /\ WaitsForSocket(me)

LEMMA ElementsOfConcat ==
    ASSUME NEW S, NEW p \in Seq(S), NEW q \in Seq(S)
    PROVE  Elements(p \o q) = Elements(p) \cup Elements(q)
<1>1. /\ Len(p \o q) = Len(p) + Len(q) /\ Len(p) \in Nat /\ Len(q) \in Nat
      /\ \A i \in 1..Len(p) : (p \o q)[i] = p[i]
      /\ \A i \in 1..Len(q) : (p \o q)[Len(p) + i] = q[i]
  OBVIOUS
<1> DEFINE r == p \o q
<1>2. ASSUME NEW x \in Elements(r) PROVE x \in Elements(p) \cup Elements(q)
  <2>1. PICK k \in 1..Len(r) : x = r[k]
    BY DEF Elements
  <2>2. CASE k <= Len(p)
    BY <1>1, <2>1, <2>2 DEF Elements
  <2>3. CASE k > Len(p)
    <3>1. k - Len(p) \in 1..Len(q) /\ Len(p) + (k - Len(p)) = k
      BY <1>1, <2>1, <2>3
    <3>2. x = q[k - Len(p)]
      BY <1>1, <2>1, <3>1
    <3>3. QED
      BY <3>1, <3>2 DEF Elements
  <2>4. QED
    BY <1>1, <2>1, <2>2, <2>3
<1>3. ASSUME NEW x \in Elements(p) PROVE x \in Elements(r)
  <2>1. PICK k \in 1..Len(p) : x = p[k]
    BY DEF Elements
  <2>2. k \in 1..Len(r) /\ x = r[k]
    BY <1>1, <2>1
  <2>3. QED
    BY <2>2 DEF Elements
<1>4. ASSUME NEW x \in Elements(q) PROVE x \in Elements(r)
  <2>1. PICK k \in 1..Len(q) : x = q[k]
    BY DEF Elements
  <2>2. Len(p) + k \in 1..Len(r) /\ x = r[Len(p) + k]
    BY <1>1, <2>1
  <2>3. QED
    BY <2>2 DEF Elements
<1>5. QED
  BY <1>2, <1>3, <1>4

LEMMA ElementsOfAppend ==
    ASSUME NEW q \in Seq(Nat), NEW x \in Nat
    PROVE  Elements(Append(q, x)) = Elements(q) \cup {x}
<1>1. Append(q, x) = q \o <<x>> /\ <<x>> \in Seq(Nat)
  OBVIOUS
<1>2. Elements(<<x>>) = {x}
  BY DEF Elements
<1>3. Elements(q \o <<x>>) = Elements(q) \cup Elements(<<x>>)
  BY <1>1, ElementsOfConcat
<1>4. QED
  BY <1>1, <1>2, <1>3, Zenon

LEMMA ElementsOfTail ==
    ASSUME NEW S, NEW q \in Seq(S), q # <<>>
    PROVE  Elements(q) = {Head(q)} \cup Elements(Tail(q))
<1>1. q = <<Head(q)>> \o Tail(q) /\ <<Head(q)>> \in Seq(S) /\ Tail(q) \in Seq(S)
  OBVIOUS
<1>2. Elements(<<Head(q)>>) = {Head(q)}
  BY DEF Elements
<1>3. Elements(<<Head(q)>> \o Tail(q)) = Elements(<<Head(q)>>) \cup Elements(Tail(q))
  BY <1>1, ElementsOfConcat
<1>4. QED
  BY <1>1, <1>2, <1>3, Zenon

\* Two ordered sequences of which one precedes the other are ordered together; and so
\* are the parts of an ordered sequence.
LEMMA IncreasingConcat ==
    ASSUME NEW p \in Seq(Nat), NEW q \in Seq(Nat)
    PROVE  Increasing(p \o q) <=>
              Increasing(p) /\ Increasing(q) /\ Before(Elements(p), Elements(q))
<1>1. /\ Len(p \o q) = Len(p) + Len(q) /\ Len(p) \in Nat /\ Len(q) \in Nat
      /\ \A i \in 1..Len(p) : (p \o q)[i] = p[i]
      /\ \A i \in 1..Len(q) : (p \o q)[Len(p) + i] = q[i]
  OBVIOUS
<1> DEFINE r == p \o q
<1>2. ASSUME Increasing(p), Increasing(q), Before(Elements(p), Elements(q))
      PROVE  Increasing(r)
  <2> SUFFICES ASSUME NEW i \in 1..Len(r), NEW j \in 1..Len(r), i < j PROVE r[i] < r[j]
    BY DEF Increasing
  <2>1. CASE j <= Len(p)
    BY <1>1, <1>2, <2>1 DEF Increasing
  <2>2. CASE i > Len(p)
    <3>1. /\ i - Len(p) \in 1..Len(q) /\ j - Len(p) \in 1..Len(q) /\ i - Len(p) < j - Len(p)
          /\ Len(p) + (i - Len(p)) = i /\ Len(p) + (j - Len(p)) = j
      BY <1>1, <2>2
    <3>2. r[i] = q[i - Len(p)] /\ r[j] = q[j - Len(p)]
      BY <1>1, <3>1
    <3>3. QED
      BY <1>2, <3>1, <3>2 DEF Increasing
  <2>3. CASE i <= Len(p) /\ j > Len(p)
    <3>1. /\ i \in 1..Len(p) /\ j - Len(p) \in 1..Len(q) /\ Len(p) + (j - Len(p)) = j
      BY <1>1, <2>3
    <3>2. r[i] = p[i] /\ r[j] = q[j - Len(p)]
      BY <1>1, <3>1
    <3>3. r[i] \in Elements(p) /\ r[j] \in Elements(q)
      BY <3>1, <3>2 DEF Elements
    <3>4. QED
      BY <1>2, <3>3 DEF Before
  <2>4. QED
    BY <1>1, <2>1, <2>2, <2>3
<1>3. ASSUME Increasing(r) PROVE Increasing(p)
  <2> SUFFICES ASSUME NEW i \in 1..Len(p), NEW j \in 1..Len(p), i < j PROVE p[i] < p[j]
    BY DEF Increasing
  <2>1. i \in 1..Len(r) /\ j \in 1..Len(r) /\ r[i] = p[i] /\ r[j] = p[j]
    BY <1>1
  <2> HIDE DEF r
  <2>2. QED
    BY <1>3, <2>1 DEF Increasing
<1>4. ASSUME Increasing(r) PROVE Increasing(q)
  <2> SUFFICES ASSUME NEW i \in 1..Len(q), NEW j \in 1..Len(q), i < j PROVE q[i] < q[j]
    BY DEF Increasing
  <2>1. /\ Len(p) + i \in 1..Len(r) /\ Len(p) + j \in 1..Len(r) /\ Len(p) + i < Len(p) + j
        /\ r[Len(p) + i] = q[i] /\ r[Len(p) + j] = q[j]
    BY <1>1
  <2> HIDE DEF r
  <2>2. QED
    BY <1>4, <2>1 DEF Increasing
<1>5. ASSUME Increasing(r) PROVE Before(Elements(p), Elements(q))
  <2> SUFFICES ASSUME NEW a \in Elements(p), NEW b \in Elements(q) PROVE a < b
    BY DEF Before
  <2>1. PICK i \in 1..Len(p) : a = p[i]
    BY DEF Elements
  <2>2. PICK j \in 1..Len(q) : b = q[j]
    BY DEF Elements
  <2>3. /\ i \in 1..Len(r) /\ Len(p) + j \in 1..Len(r) /\ i < Len(p) + j
        /\ r[i] = a /\ r[Len(p) + j] = b
    BY <1>1, <2>1, <2>2
  <2> HIDE DEF r
  <2>4. QED
    BY <1>5, <2>3 DEF Increasing
<1> HIDE DEF r
<1>6. QED
  BY <1>2, <1>3, <1>4, <1>5 DEF r

LEMMA IncreasingAppend ==
    ASSUME NEW q \in Seq(Nat), NEW x \in Nat, Increasing(q), Before(Elements(q), {x})
    PROVE  Increasing(Append(q, x))
<1>1. Append(q, x) = q \o <<x>> /\ <<x>> \in Seq(Nat)
  OBVIOUS
<1>2. Elements(<<x>>) = {x} /\ Increasing(<<x>>)
  BY DEF Elements, Increasing
<1>3. QED
  BY <1>1, <1>2, IncreasingConcat

LEMMA IncreasingTail ==
    ASSUME NEW q \in Seq(Nat), q # <<>>, Increasing(q)
    PROVE  /\ Increasing(Tail(q)) /\ Before({Head(q)}, Elements(Tail(q)))
           /\ Elements(q) = {Head(q)} \cup Elements(Tail(q))
<1>1. q = <<Head(q)>> \o Tail(q) /\ <<Head(q)>> \in Seq(Nat) /\ Tail(q) \in Seq(Nat)
  OBVIOUS
<1>2. Elements(<<Head(q)>>) = {Head(q)}
  BY DEF Elements
<1>3. Increasing(<<Head(q)>> \o Tail(q))
  BY <1>1
<1>4. QED
  BY <1>1, <1>2, <1>3, IncreasingConcat, ElementsOfTail

\* What was written is kept; what waited still waits, or all of it was written, in order.
Delivers(m, n) ==
    /\ n.dropped = m.dropped /\ n.disconnected = m.disconnected
    /\ \/ n.left = m.left /\ n.outbox = m.outbox
       \/ n.left = m.left \o m.outbox /\ n.outbox = <<>>

\* The methods that signal, open, close or replace a socket forget no envelope.
LEMMA MethodsDeliver ==
    ASSUME NEW m, Bounded(m), NEW f \in WireFrames, NEW s \in Sockets, NEW t \in Sockets
    PROVE  /\ Delivers(m, Signal(m, f)) /\ Delivers(m, Join(m))
           /\ Delivers(m, FlushOutbox(m)) /\ Delivers(m, Heard(m))
           /\ Delivers(m, OpenSignaling(m, s)) /\ Delivers(m, Opened(m, s))
           /\ Delivers(m, DeclareSocketDead(m, t, s))
           /\ Delivers(m, ScheduleReconnect(m)) /\ Delivers(m, OnClose(m))
<1>1. m \in Page
  BY DEF Bounded
<1>2. ASSUME NEW n, n \in Page, NEW g
      PROVE  /\ Delivers(n, Signal(n, g)) /\ Delivers(n, FlushOutbox(n))
             /\ Delivers(n, OpenSignaling(n, s))
  BY <1>2 DEF Signal, FlushOutbox, OpenSignaling, Delivers, Page
<1>3. ASSUME NEW n, n \in Page PROVE Delivers(n, Join(n))
  BY <1>2, <1>3 DEF Join, Delivers
<1>4. Delivers(m, Heard(m))
  <2> DEFINE n == [m EXCEPT !.suspect = FALSE, !.probe = None]
  <2>1. n \in Page /\ n.left = m.left /\ n.outbox = m.outbox /\ n.dropped = m.dropped
        /\ n.disconnected = m.disconnected
    BY <1>1 DEF Page
  <2> HIDE DEF n
  <2>2. Delivers(n, FlushOutbox(n))
    BY <1>2, <2>1
  <2>3. Delivers(m, FlushOutbox(n))
    BY <2>1, <2>2 DEF Delivers
  <2>4. Delivers(m, m)
    BY DEF Delivers
  <2>5. QED
    BY <2>3, <2>4 DEF Heard, n
<1>5. Delivers(m, Opened(m, s))
  <2> DEFINE n == [m EXCEPT !.ready[s] = "open", !.suspect = FALSE, !.liveness = s,
                            !.onclose = @ \cup {s}]
  <2>1. Bounded(n)
    BY DEF Bounded, Page, ReadyState
  <2>2. n.left = m.left /\ n.outbox = m.outbox /\ n.dropped = m.dropped
        /\ n.disconnected = m.disconnected
    BY <1>1 DEF Page
  <2> HIDE DEF n
  <2>3. n \in Page /\ Join(n) \in Page /\ Delivers(n, Join(n))
    BY <1>3, <2>1, JoinKeeps DEF Bounded
  <2>4. Delivers(Join(n), FlushOutbox(Join(n)))
    BY <1>2, <2>3
  <2>5. Join(n).left = n.left /\ Join(n).outbox = n.outbox
    BY <2>3 DEF Join, Signal, Page
  <2>6. Opened(m, s) = FlushOutbox(Join(n))
    BY DEF Opened, n
  <2>7. QED
    BY <2>2, <2>3, <2>4, <2>5, <2>6 DEF Delivers
<1>6. Delivers(m, DeclareSocketDead(m, t, s))
  BY <1>1 DEF DeclareSocketDead, OpenSignaling, Delivers, Page
<1>7. Delivers(m, ScheduleReconnect(m)) /\ Delivers(m, OnClose(m))
  BY <1>1 DEF ScheduleReconnect, OnClose, Delivers, Page
<1>8. QED
  BY <1>1, <1>2, <1>3, <1>4, <1>5, <1>6, <1>7

\* What the network does to the wire is not what was written.
LEMMA BecomesDelivers ==
    ASSUME NEW m, Bounded(m), Becomes(m)
    PROVE  me'.left = m.left /\ me'.outbox = m.outbox /\ me'.dropped = m.dropped
           /\ me'.disconnected = m.disconnected
BY DEF Becomes, Bounded, Page

LEMMA TypedParts ==
    ASSUME TypeOK
    PROVE  /\ me.left \in Seq(Nat) /\ me.outbox \in Seq(Nat) /\ sealing \in Seq(Nat)
           /\ me.left \in Seq(Envelopes) /\ me.outbox \in Seq(Envelopes)
           /\ me.dropped \subseteq Envelopes /\ sealing \in Seq(Envelopes)
           /\ MaxFrames - budget.frames \in Nat /\ Envelopes \subseteq Nat
<1>1. Envelopes \subseteq Nat /\ Seq(Envelopes) \subseteq Seq(Nat)
  <2>1. Envelopes \subseteq Nat
    BY DEF Envelopes
  <2>2. QED
    BY <2>1, SeqMonotonic
<1>2. me.left \in Seq(Envelopes) /\ me.outbox \in Seq(Envelopes)
      /\ me.dropped \subseteq Envelopes /\ sealing \in Seq(Envelopes)
  BY DEF TypeOK, Page
<1>3. MaxFrames - budget.frames \in Nat
  BY ClientAssumption DEF TypeOK
<1>4. QED
  BY <1>1, <1>2, <1>3

LEMMA EmptyElements == Elements(<<>>) = {} /\ Increasing(<<>>)
BY DEF Elements, Increasing


(* What can happen to the envelopes.  l was written, o waits, q is being sealed, d was *)
(* dropped; n were sent.                                                               *)

\* All that waited is written.
LEMMA FlushedKept ==
    ASSUME NEW l \in Seq(Nat), NEW o \in Seq(Nat), NEW q \in Seq(Nat), NEW d, NEW gone, NEW n,
           Kept(l, o, q, d, gone, n)
    PROVE  /\ Kept(l \o o, <<>>, q, d, gone, n)
           /\ Ahead(l, o, q) => Ahead(l \o o, <<>>, q)
<1> DEFINE r == l \o o
<1>1. Elements(r) = Elements(l) \cup Elements(o)
  BY ElementsOfConcat
<1> HIDE DEF r
<1>2. /\ Increasing(q) /\ Before(Elements(o), Elements(q))
      /\ Before(d, Elements(o) \cup Elements(q))
      /\ Elements(l) \cup Elements(o) \cup Elements(q) \cup d \subseteq 1..n
      /\ ~gone => 1..n \subseteq Elements(l) \cup Elements(o) \cup Elements(q) \cup d
  BY DEF Kept
<1>3. Before(d, {} \cup Elements(q)) /\ Before({}, Elements(q))
  BY <1>2 DEF Before
<1>4. Kept(r, <<>>, q, d, gone, n)
  BY <1>1, <1>2, <1>3, EmptyElements, Zenon DEF Kept
<1>5. ASSUME Ahead(l, o, q) PROVE Ahead(r, <<>>, q)
  <2>1. Before(Elements(l), Elements(o)) /\ Before(Elements(r), {} \cup Elements(q))
    BY <1>1, <1>2, <1>5 DEF Ahead, Before
  <2>2. Increasing(r)
    BY <1>5, <2>1, IncreasingConcat DEF Kept, Ahead, r
  <2>3. QED
    BY <2>1, <2>2, EmptyElements DEF Ahead
<1>6. QED
  BY <1>4, <1>5 DEF r

\* What waited is given up with the page.
LEMMA GivenUpKept ==
    ASSUME NEW l \in Seq(Nat), NEW o \in Seq(Nat), NEW q \in Seq(Nat), NEW d, NEW gone, NEW n,
           Kept(l, o, q, d, gone, n)
    PROVE  /\ Kept(l, <<>>, q, d, TRUE, n)
           /\ Ahead(l, o, q) => Ahead(l, <<>>, q)
BY EmptyElements DEF Kept, Ahead, Before

\* One more is sent.
LEMMA SentKept ==
    ASSUME NEW l \in Seq(Nat), NEW o \in Seq(Nat), NEW q \in Seq(Nat), NEW d, NEW gone,
           NEW n \in Nat, Kept(l, o, q, d, gone, n)
    PROVE  /\ Kept(l, o, Append(q, n + 1), d, gone, n + 1)
           /\ Ahead(l, o, q) => Ahead(l, o, Append(q, n + 1))
<1> DEFINE r == Append(q, n + 1)
<1>1. Elements(r) = Elements(q) \cup {n + 1}
  BY ElementsOfAppend
<1>2. /\ Increasing(o) /\ Increasing(q) /\ Before(Elements(o), Elements(q))
      /\ Before(d, Elements(o) \cup Elements(q))
      /\ Elements(l) \cup Elements(o) \cup Elements(q) \cup d \subseteq 1..n
      /\ ~gone => 1..n \subseteq Elements(l) \cup Elements(o) \cup Elements(q) \cup d
  BY DEF Kept
<1>3. \A x \in 1..n : x < n + 1
  OBVIOUS
<1>4. Increasing(r)
  <2>1. Before(Elements(q), {n + 1})
    BY <1>2, <1>3 DEF Before
  <2>2. QED
    BY <1>2, <2>1, IncreasingAppend
<1> HIDE DEF r
<1>5. /\ Before(Elements(o), Elements(r))
      /\ Before(d, Elements(o) \cup Elements(r))
  BY <1>1, <1>2, <1>3 DEF Before
<1>6. 1..(n + 1) = 1..n \cup {n + 1}
  OBVIOUS
<1>7. Kept(l, o, r, d, gone, n + 1)
  BY <1>1, <1>2, <1>4, <1>5, <1>6 DEF Kept
<1>8. Ahead(l, o, q) => Ahead(l, o, r)
  BY <1>1, <1>2, <1>3 DEF Ahead, Before
<1>9. QED
  BY <1>7, <1>8 DEF r

\* The next one is sealed: it is written, it waits, or it is lost with the page.
LEMMA SealedKept ==
    ASSUME NEW l \in Seq(Nat), NEW o \in Seq(Nat), NEW q \in Seq(Nat), NEW d, NEW gone, NEW n,
           Kept(l, o, q, d, gone, n), q # <<>>
    PROVE  /\ Kept(Append(l, Head(q)), o, Tail(q), d, gone, n)
           /\ Kept(l, Append(o, Head(q)), Tail(q), d, gone, n)
           /\ gone => Kept(l, o, Tail(q), d, gone, n)
           /\ Ahead(l, o, q) => /\ o = <<>> => Ahead(Append(l, Head(q)), o, Tail(q))
                                /\ Ahead(l, Append(o, Head(q)), Tail(q))
                                /\ Ahead(l, o, Tail(q))
<1> DEFINE h == Head(q)
           t == Tail(q)
<1>1. h \in Nat /\ t \in Seq(Nat)
  OBVIOUS
<1>2. /\ Increasing(o) /\ Increasing(q) /\ Before(Elements(o), Elements(q))
      /\ Before(d, Elements(o) \cup Elements(q))
      /\ Elements(l) \cup Elements(o) \cup Elements(q) \cup d \subseteq 1..n
      /\ ~gone => 1..n \subseteq Elements(l) \cup Elements(o) \cup Elements(q) \cup d
  BY DEF Kept
<1>3. /\ Increasing(t) /\ Before({h}, Elements(t))
      /\ Elements(q) = {h} \cup Elements(t)
  BY <1>2, IncreasingTail
<1> HIDE DEF h, t
<1>4. Elements(Append(l, h)) = Elements(l) \cup {h} /\ Elements(Append(o, h)) = Elements(o) \cup {h}
  <2>1. Elements(Append(l, h)) = Elements(l) \cup {h}
    BY <1>1, ElementsOfAppend
  <2>2. Elements(Append(o, h)) = Elements(o) \cup {h}
    BY <1>1, ElementsOfAppend
  <2>3. QED
    BY <2>1, <2>2
<1>5. Increasing(Append(o, h))
  <2>1. Before(Elements(o), {h})
    BY <1>2, <1>3 DEF Before
  <2>2. QED
    BY <1>1, <1>2, <2>1, IncreasingAppend
<1>6. Kept(Append(l, h), o, t, d, gone, n)
  <2>1. Before(Elements(o), Elements(t)) /\ Before(d, Elements(o) \cup Elements(t))
    BY <1>2, <1>3 DEF Before
  <2> DEFINE r == Append(l, h)
  <2>2. Elements(r) = Elements(l) \cup {h}
    BY <1>4
  <2> HIDE DEF r
  <2>3. Kept(r, o, t, d, gone, n)
    BY <1>2, <1>3, <2>1, <2>2 DEF Kept
  <2>4. QED
    BY <2>3 DEF r
<1>7. Kept(l, Append(o, h), t, d, gone, n)
  <2> DEFINE r == Append(o, h)
  <2>1. Elements(r) = Elements(o) \cup {h} /\ Increasing(r)
    BY <1>4, <1>5
  <2> HIDE DEF r
  <2>2. Before(Elements(r), Elements(t)) /\ Before(d, Elements(r) \cup Elements(t))
    BY <1>2, <1>3, <2>1 DEF Before
  <2>3. Kept(l, r, t, d, gone, n)
    BY <1>2, <1>3, <2>1, <2>2 DEF Kept
  <2>4. QED
    BY <2>3 DEF r
<1>8. gone => Kept(l, o, t, d, gone, n)
  <2>1. Before(Elements(o), Elements(t)) /\ Before(d, Elements(o) \cup Elements(t))
    BY <1>2, <1>3 DEF Before
  <2>2. QED
    BY <1>2, <1>3, <2>1 DEF Kept
<1>9. ASSUME Ahead(l, o, q), o = <<>> PROVE Ahead(Append(l, h), o, t)
  <2>1. Increasing(l) /\ Before(Elements(l), {h})
    BY <1>3, <1>9 DEF Ahead, Before
  <2>2. Increasing(Append(l, h))
    BY <1>1, <2>1, IncreasingAppend
  <2>3. Before(Elements(l) \cup {h}, Elements(o) \cup Elements(t))
    BY <1>3, <1>9, EmptyElements DEF Ahead, Before
  <2>4. QED
    BY <1>4, <2>2, <2>3 DEF Ahead
<1>10. ASSUME Ahead(l, o, q) PROVE Ahead(l, Append(o, h), t) /\ Ahead(l, o, t)
  <2>1. /\ Before(Elements(l), (Elements(o) \cup {h}) \cup Elements(t))
        /\ Before(Elements(l), Elements(o) \cup Elements(t))
    BY <1>3, <1>10 DEF Ahead, Before
  <2>2. QED
    BY <1>4, <1>10, <2>1 DEF Ahead
<1>11. QED
  BY <1>6, <1>7, <1>8, <1>9, <1>10 DEF h, t

\* The outbox is full: the oldest gives way.
LEMMA EvictedKept ==
    ASSUME NEW l \in Seq(Nat), NEW o \in Seq(Nat), NEW q \in Seq(Nat), NEW d, NEW gone, NEW n,
           Kept(l, o, q, d, gone, n), o # <<>>
    PROVE  /\ Kept(l, Tail(o), q, d \cup {Head(o)}, gone, n)
           /\ Ahead(l, o, q) => Ahead(l, Tail(o), q)
<1> DEFINE h == Head(o)
           t == Tail(o)
<1>1. h \in Nat /\ t \in Seq(Nat)
  OBVIOUS
<1>2. /\ Increasing(o) /\ Increasing(q) /\ Before(Elements(o), Elements(q))
      /\ Before(d, Elements(o) \cup Elements(q))
      /\ Elements(l) \cup Elements(o) \cup Elements(q) \cup d \subseteq 1..n
      /\ ~gone => 1..n \subseteq Elements(l) \cup Elements(o) \cup Elements(q) \cup d
  BY DEF Kept
<1>3. /\ Increasing(t) /\ Before({h}, Elements(t))
      /\ Elements(o) = {h} \cup Elements(t)
  BY <1>2, IncreasingTail
<1> HIDE DEF h, t
<1>4. Before(Elements(t), Elements(q)) /\ Before(d \cup {h}, Elements(t) \cup Elements(q))
  BY <1>2, <1>3 DEF Before
<1>5. Kept(l, t, q, d \cup {h}, gone, n)
  BY <1>2, <1>3, <1>4 DEF Kept
<1>6. Ahead(l, o, q) => Ahead(l, t, q)
  BY <1>3 DEF Ahead, Before
<1>7. QED
  BY <1>5, <1>6 DEF h, t

\* A method that delivers keeps both.
LEMMA DeliversKept ==
    ASSUME TypeOK, KeptInv, Delivers(me, me'), sealing' = sealing,
           budget'.frames = budget.frames
    PROVE  /\ KeptInv'
           /\ Ahead(me.left, me.outbox, sealing) => Ahead(me.left, me.outbox, sealing)'
<1> DEFINE n == MaxFrames - budget.frames
<1>1. me.left \in Seq(Nat) /\ me.outbox \in Seq(Nat) /\ sealing \in Seq(Nat)
  BY TypedParts
<1>2. /\ me'.dropped = me.dropped /\ me'.disconnected = me.disconnected
      /\ MaxFrames - budget'.frames = n
  BY DEF Delivers
<1>3. CASE me'.left = me.left /\ me'.outbox = me.outbox
  BY <1>2, <1>3 DEF KeptInv
<1>4. CASE me'.left = me.left \o me.outbox /\ me'.outbox = <<>>
  <2>1. Kept(me.left, me.outbox, sealing, me.dropped, me.disconnected, n)
    BY DEF KeptInv
  <2> HIDE DEF n
  <2>2. /\ Kept(me.left \o me.outbox, <<>>, sealing, me.dropped, me.disconnected, n)
        /\ Ahead(me.left, me.outbox, sealing) => Ahead(me.left \o me.outbox, <<>>, sealing)
    BY <1>1, <2>1, FlushedKept
  <2>3. QED
    BY <1>2, <1>4, <2>2 DEF KeptInv
<1>5. QED
  BY <1>3, <1>4 DEF Delivers

\* Sealed(me, Head(sealing)), all three ways.
LEMMA SealKept ==
    ASSUME TypeOK, KeptInv, Seal
    PROVE  /\ KeptInv'
           /\ OrderInv => OrderInv'
<1> DEFINE n == MaxFrames - budget.frames
           h == Head(sealing)
           m == Sealed(me, h)
           o == Append(me.outbox, h)
<1>0. me \in Page /\ Len(me.outbox) <= OutboxMax /\ Bounded(me)
  BY DEF TypeOK, Bounded
<1>1. /\ me.left \in Seq(Nat) /\ me.outbox \in Seq(Nat) /\ sealing \in Seq(Nat)
      /\ sealing # <<>> /\ h \in Envelopes /\ h \in Nat /\ o \in Seq(Nat)
  <2>1. sealing \in Seq(Envelopes) /\ sealing # <<>> /\ Envelopes \subseteq Nat
    BY TypedParts DEF Seal
  <2>2. h \in Envelopes
    BY <2>1
  <2>3. me.left \in Seq(Nat) /\ me.outbox \in Seq(Nat) /\ sealing \in Seq(Nat)
    BY TypedParts
  <2> HIDE DEF h
  <2>4. QED
    BY <2>1, <2>2, <2>3
<1>2. Kept(me.left, me.outbox, sealing, me.dropped, me.disconnected, n)
  BY DEF KeptInv
<1>3. /\ sealing' = Tail(sealing) /\ Becomes(m) /\ MaxFrames - budget'.frames = n
  BY DEF Seal
<1>4. /\ me'.left = m.left /\ me'.outbox = m.outbox /\ me'.dropped = m.dropped
      /\ me'.disconnected = m.disconnected
  BY <1>0, <1>1, <1>3, SealedKeeps, BecomesDelivers
<1>5. Same(m, me')
  BY <1>0, <1>1, <1>3, SealedKeeps, PageStep
<1>6. Same(me, m)
  BY <1>0, <1>1, SealedKeeps
<1>7. WaitsForSocket(me') <=> (m.outbox # <<>> => ~me.disconnected /\ ~(IsUp(me) /\ ~me.suspect))
  BY <1>4, <1>5, <1>6 DEF WaitsForSocket, Same, IsUp
<1>8. CASE IsUp(me) /\ ~me.suspect
  <2>1. /\ m.left = Append(me.left, h) /\ m.outbox = me.outbox /\ m.dropped = me.dropped
        /\ m.disconnected = me.disconnected
    BY <1>0, <1>8 DEF Sealed, Page
  <2>2. /\ Kept(Append(me.left, h), me.outbox, Tail(sealing), me.dropped, me.disconnected, n)
        /\ Ahead(me.left, me.outbox, sealing) /\ me.outbox = <<>> =>
              Ahead(Append(me.left, h), me.outbox, Tail(sealing))
    <3> HIDE DEF n
    <3> QED
      BY <1>1, <1>2, SealedKept
  <2> HIDE DEF n, h, m, o
  <2>3. KeptInv'
    BY <1>3, <1>4, <2>1, <2>2 DEF KeptInv
  <2>4. ASSUME OrderInv PROVE OrderInv'
    <3>1. me.outbox = <<>>
      BY <1>8, <2>4 DEF OrderInv, WaitsForSocket
    <3>2. Ahead(Append(me.left, h), me.outbox, Tail(sealing))
      BY <2>2, <2>4, <3>1 DEF OrderInv
    <3>3. QED
      BY <1>3, <1>4, <1>7, <2>1, <3>1, <3>2 DEF OrderInv
  <2>5. QED
    BY <2>3, <2>4
<1>9. CASE ~(IsUp(me) /\ ~me.suspect) /\ me.disconnected
  <2>1. m = me
    BY <1>9 DEF Sealed
  <2>2. /\ Kept(me.left, me.outbox, Tail(sealing), me.dropped, me.disconnected, n)
        /\ Ahead(me.left, me.outbox, sealing) => Ahead(me.left, me.outbox, Tail(sealing))
    <3> HIDE DEF n
    <3> QED
      BY <1>1, <1>2, <1>9, SealedKept
  <2> HIDE DEF n, h, m, o
  <2>3. KeptInv'
    BY <1>3, <1>4, <2>1, <2>2 DEF KeptInv
  <2>4. ASSUME OrderInv PROVE OrderInv'
    BY <1>3, <1>4, <1>7, <2>1, <2>2, <2>4 DEF OrderInv, WaitsForSocket
  <2>5. QED
    BY <2>3, <2>4
<1>10. CASE ~(IsUp(me) /\ ~me.suspect) /\ ~me.disconnected
  <2>1. /\ Kept(me.left, o, Tail(sealing), me.dropped, me.disconnected, n)
        /\ Ahead(me.left, me.outbox, sealing) => Ahead(me.left, o, Tail(sealing))
    <3> HIDE DEF n
    <3> QED
      BY <1>1, <1>2, SealedKept
  <2>2. Tail(sealing) \in Seq(Nat) /\ o # <<>>
    <3> HIDE DEF h
    <3>1. Tail(sealing) \in Seq(Nat)
      BY <1>1
    <3>2. o # <<>>
      <4>1. Elements(o) = Elements(me.outbox) \cup {h}
        BY <1>1, ElementsOfAppend
      <4> HIDE DEF o
      <4>2. QED
        BY <4>1, EmptyElements
    <3>3. QED
      BY <3>1, <3>2
  <2>3. /\ Kept(me.left, Tail(o), Tail(sealing), me.dropped \cup {Head(o)}, me.disconnected, n)
        /\ Ahead(me.left, o, Tail(sealing)) => Ahead(me.left, Tail(o), Tail(sealing))
    <3> HIDE DEF n, o
    <3> QED
      BY <1>1, <2>1, <2>2, EvictedKept
  <2>4. /\ m.left = me.left /\ m.disconnected = me.disconnected
        /\ \/ m.outbox = o /\ m.dropped = me.dropped
           \/ m.outbox = Tail(o) /\ m.dropped = me.dropped \cup {Head(o)}
    BY <1>0, <1>10 DEF Sealed, Page
  <2> HIDE DEF n, h, m, o
  <2>5. KeptInv'
    BY <1>3, <1>4, <2>1, <2>3, <2>4 DEF KeptInv
  <2>6. ASSUME OrderInv PROVE OrderInv'
    <3>1. Ahead(me.left, m.outbox, Tail(sealing))
      BY <2>1, <2>3, <2>4, <2>6 DEF OrderInv
    <3>2. WaitsForSocket(me')
      BY <1>7, <1>10
    <3>3. QED
      BY <1>3, <1>4, <2>4, <3>1, <3>2 DEF OrderInv
  <2>7. QED
    BY <2>5, <2>6
<1>11. QED
  BY <1>8, <1>9, <1>10

\* disconnect() and pagehide give up what waits, and write nothing.
LEMMA LeaveKept ==
    ASSUME TypeOK, KeptInv, Disconnect \/ PageHide
    PROVE  /\ KeptInv'
           /\ OrderInv => OrderInv'
<1> USE DEF outside
<1> DEFINE n == MaxFrames - budget.frames
           m == Signal(Gone(me), LeaveFrame)
<1>0. me \in Page /\ Bounded(me)
  BY DEF TypeOK, Bounded
<1>1. Bounded(m)
  BY <1>0, GoneKeeps
<1>2. /\ m.left = me.left /\ m.outbox = <<>> /\ m.dropped = me.dropped /\ m.disconnected
  BY <1>0 DEF Gone, Signal, Page
<1>3. /\ me'.left = me.left /\ me'.outbox = <<>> /\ me'.dropped = me.dropped
      /\ me'.disconnected = TRUE
  <2>1. CASE Disconnect
    <3> DEFINE p == IF m.ws = None THEN m ELSE [m EXCEPT !.ready[m.ws] = Closed(m, m.ws)]
    <3>1. Becomes(p)
      BY <2>1 DEF Disconnect, Gone
    <3> HIDE DEF m
    <3>2. Bounded(p) /\ p.left = m.left /\ p.outbox = m.outbox /\ p.dropped = m.dropped
          /\ p.disconnected = m.disconnected
      BY <1>1 DEF Bounded, Page, Closed, ReadyState
    <3> HIDE DEF p
    <3>3. QED
      BY <1>1, <1>2, <3>1, <3>2, BecomesDelivers DEF Bounded, Page
  <2>2. CASE PageHide
    <3> DEFINE p == [m EXCEPT !.ready = [s \in Sockets |-> Closed(m, s)], !.onclose = {}]
    <3>1. Becomes(p)
      BY <2>2 DEF PageHide, Gone
    <3> HIDE DEF m
    <3>2. Bounded(p) /\ p.left = m.left /\ p.outbox = m.outbox /\ p.dropped = m.dropped
          /\ p.disconnected = m.disconnected
      BY <1>1 DEF Bounded, Page, Closed, ReadyState
    <3> HIDE DEF p
    <3>3. QED
      BY <1>1, <1>2, <3>1, <3>2, BecomesDelivers DEF Bounded, Page
  <2>3. QED
    BY <2>1, <2>2
<1>4. sealing' = sealing /\ MaxFrames - budget'.frames = n
  BY DEF Disconnect, PageHide
<1>5. /\ Kept(me.left, <<>>, sealing, me.dropped, TRUE, n)
      /\ Ahead(me.left, me.outbox, sealing) => Ahead(me.left, <<>>, sealing)
  <2>1. Kept(me.left, me.outbox, sealing, me.dropped, me.disconnected, n)
    BY DEF KeptInv
  <2> HIDE DEF n
  <2>2. QED
    BY <2>1, GivenUpKept, TypedParts
<1> HIDE DEF n, m
<1>6. QED
  BY <1>3, <1>4, <1>5 DEF KeptInv, OrderInv, WaitsForSocket

LEMMA SendKept ==
    ASSUME TypeOK, KeptInv, Send
    PROVE  /\ KeptInv'
           /\ OrderInv => OrderInv'
<1> DEFINE n == MaxFrames - budget.frames
<1>1. n \in Nat /\ me' = me /\ sealing' = Append(sealing, n + 1)
  BY TypedParts DEF Send
<1>2. MaxFrames - budget'.frames = n + 1
  BY ClientAssumption DEF Send, TypeOK
<1>3. Kept(me.left, me.outbox, sealing, me.dropped, me.disconnected, n)
  BY DEF KeptInv
<1>4. me.left \in Seq(Nat) /\ me.outbox \in Seq(Nat) /\ sealing \in Seq(Nat)
  BY TypedParts
<1> HIDE DEF n
<1>5. /\ Kept(me.left, me.outbox, Append(sealing, n + 1), me.dropped, me.disconnected, n + 1)
      /\ Ahead(me.left, me.outbox, sealing) => Ahead(me.left, me.outbox, Append(sealing, n + 1))
  BY <1>1, <1>3, <1>4, SentKept
<1>6. QED
  BY <1>1, <1>2, <1>5 DEF KeptInv, OrderInv

\* The actions that act on one socket are methods that deliver.
LEMMA SocketDelivers ==
    ASSUME TypeOK, NEW s \in Sockets,
           \/ KeyDerived(s) \/ OnOpen(s) \/ ConnectFails(s) \/ ReconnectFires(s)
           \/ CloseEvent(s) \/ CloseBegins(s) \/ Wake(s) \/ ProbeFires(s)
           \/ LivenessTick(s) \/ OnMessage(s)
    PROVE  Delivers(me, me') /\ sealing' = sealing /\ budget'.frames = budget.frames
<1> USE DEF outside
<1>0. Bounded(me) /\ me \in Page /\ Delivers(me, me)
  BY DEF TypeOK, Bounded, Delivers
<1>1. ASSUME NEW m, Bounded(m), Becomes(m), Delivers(me, m) PROVE Delivers(me, me')
  BY <1>1, BecomesDelivers DEF Delivers
<1>2. ASSUME NEW m, Bounded(m), NEW n, Delivers(m, n), m.left = me.left,
             m.outbox = me.outbox, m.dropped = me.dropped, m.disconnected = me.disconnected
      PROVE  Delivers(me, n)
  BY <1>2 DEF Delivers
<1>3. Delivers(me, me')
  <2>1. CASE KeyDerived(s)
    <3>1. Bounded(OpenSignaling(me, s)) /\ Delivers(me, OpenSignaling(me, s))
      BY <1>0, OpenKeeps, MethodsDeliver, FramesOnWire
    <3>2. Becomes(me) \/ Becomes(OpenSignaling(me, s))
      BY <2>1 DEF KeyDerived
    <3>3. QED
      BY <1>0, <1>1, <3>1, <3>2
  <2>2. CASE OnOpen(s)
    <3>1. Bounded(Opened(me, s)) /\ Delivers(me, Opened(me, s))
      BY <1>0, OpenedKeeps, MethodsDeliver, FramesOnWire
    <3>2. QED
      BY <1>1, <2>2, <3>1 DEF OnOpen
  <2>3. CASE ConnectFails(s)
    <3> DEFINE m == [me EXCEPT !.ready[s] = "closed"]
    <3>1. Bounded(m) /\ m.left = me.left /\ m.outbox = me.outbox /\ m.dropped = me.dropped
          /\ m.disconnected = me.disconnected /\ Becomes(ScheduleReconnect(m))
      BY <1>0, <2>3, MethodTypes DEF ConnectFails, Page
    <3> HIDE DEF m
    <3>2. Bounded(ScheduleReconnect(m)) /\ Delivers(m, ScheduleReconnect(m))
      BY <3>1, ScheduleKeeps, MethodsDeliver, FramesOnWire
    <3>3. QED
      BY <1>1, <1>2, <3>1, <3>2
  <2>4. CASE ReconnectFires(s) \/ (Wake(s) /\ Becomes(OpenSignaling([me EXCEPT !.reconnect = FALSE], s)))
    <3> DEFINE m == [me EXCEPT !.reconnect = FALSE]
    <3>1. Bounded(m) /\ m.left = me.left /\ m.outbox = me.outbox /\ m.dropped = me.dropped
          /\ m.disconnected = me.disconnected /\ Becomes(OpenSignaling(m, s))
      BY <1>0, <2>4, MethodTypes DEF ReconnectFires, Page
    <3> HIDE DEF m
    <3>2. Bounded(OpenSignaling(m, s)) /\ Delivers(m, OpenSignaling(m, s))
      BY <3>1, OpenKeeps, MethodsDeliver, FramesOnWire
    <3>3. QED
      BY <1>1, <1>2, <3>1, <3>2
  <2>5. CASE CloseEvent(s)
    <3> DEFINE m == [me EXCEPT !.ready[s] = "closed"]
    <3>1. Bounded(m) /\ m.left = me.left /\ m.outbox = me.outbox /\ m.dropped = me.dropped
          /\ m.disconnected = me.disconnected /\ (Becomes(m) \/ Becomes(OnClose(m)))
      BY <1>0, <2>5, MethodTypes DEF CloseEvent, Page
    <3> HIDE DEF m
    <3>2. Bounded(OnClose(m)) /\ Delivers(m, OnClose(m)) /\ Delivers(m, m)
      BY <3>1, MethodTypes, MethodsDeliver, FramesOnWire DEF Delivers
    <3>3. QED
      BY <1>1, <1>2, <3>1, <3>2
  <2>6. CASE CloseBegins(s)
    <3> DEFINE m == [me EXCEPT !.ready[s] = "closing"]
    <3>1. Bounded(m) /\ Delivers(me, m) /\ Becomes(m)
      BY <1>0, <2>6, MethodTypes DEF CloseBegins, Delivers, Page
    <3> HIDE DEF m
    <3>2. QED
      BY <1>1, <3>1
  <2>7. CASE Wake(s) /\ Becomes(Join([me EXCEPT !.suspect = TRUE, !.probe = s]))
    <3> DEFINE m == [me EXCEPT !.suspect = TRUE, !.probe = s]
    <3>1. Bounded(m) /\ m.left = me.left /\ m.outbox = me.outbox /\ m.dropped = me.dropped
          /\ m.disconnected = me.disconnected /\ Becomes(Join(m))
      BY <1>0, <2>7, MethodTypes DEF Page
    <3> HIDE DEF m
    <3>2. Bounded(Join(m)) /\ Delivers(m, Join(m))
      BY <3>1, JoinKeeps, MethodsDeliver, FramesOnWire
    <3>3. QED
      BY <1>1, <1>2, <3>1, <3>2
  <2>8. CASE ProbeFires(s)
    <3> DEFINE m == [me EXCEPT !.probe = None]
    <3>1. me.probe \in Sockets
      BY <1>0, <2>8 DEF ProbeFires, Page
    <3>2. Bounded(m) /\ m.left = me.left /\ m.outbox = me.outbox /\ m.dropped = me.dropped
          /\ m.disconnected = me.disconnected
          /\ (Becomes(m) \/ Becomes(DeclareSocketDead(m, me.probe, s)))
      BY <1>0, <2>8, MethodTypes DEF ProbeFires, Page
    <3> HIDE DEF m
    <3>3. Bounded(DeclareSocketDead(m, me.probe, s)) /\ Delivers(m, m)
          /\ Delivers(m, DeclareSocketDead(m, me.probe, s))
      BY <3>1, <3>2, DeadKeeps, MethodsDeliver, FramesOnWire DEF Delivers
    <3>4. QED
      BY <1>1, <1>2, <3>2, <3>3
  <2>9. CASE LivenessTick(s)
    <3>1. me.ws \in Sockets /\ Becomes(DeclareSocketDead(me, me.ws, s))
      BY <1>0, <2>9 DEF LivenessTick, Page
    <3>2. Bounded(DeclareSocketDead(me, me.ws, s)) /\ Delivers(me, DeclareSocketDead(me, me.ws, s))
      BY <1>0, <3>1, DeadKeeps, MethodsDeliver, FramesOnWire
    <3>3. QED
      BY <1>1, <3>1, <3>2
  <2>10. CASE OnMessage(s)
    <3>1. Bounded(Heard(me)) /\ Delivers(me, Heard(me)) /\ Becomes(Heard(me))
      BY <1>0, <2>10, HeardKeeps, MethodsDeliver, FramesOnWire DEF OnMessage
    <3>2. QED
      BY <1>1, <3>1
  <2>11. Wake(s) => \/ Becomes(OpenSignaling([me EXCEPT !.reconnect = FALSE], s))
                    \/ Becomes(Join([me EXCEPT !.suspect = TRUE, !.probe = s]))
    BY DEF Wake
  <2>12. QED
    BY <2>1, <2>2, <2>3, <2>4, <2>5, <2>6, <2>7, <2>8, <2>9, <2>10, <2>11
<1>4. sealing' = sealing /\ budget'.frames = budget.frames
  BY DEF KeyDerived, OnOpen, ConnectFails, ReconnectFires, CloseEvent, CloseBegins, Wake,
         ProbeFires, LivenessTick, OnMessage, TypeOK
<1>5. QED
  BY <1>3, <1>4

\* The network, the server and connect() write nothing.
LEMMA OutsideDelivers ==
    ASSUME TypeOK,
           Connect \/ \E s \in Sockets : Breaks(s) \/ ServerReads(s) \/ ServerDrops(s)
    PROVE  /\ Delivers(me, me') /\ sealing' = sealing /\ budget'.frames = budget.frames
           /\ Same(me, me') /\ me'.outbox = me.outbox
<1>0. me \in Page
  BY DEF TypeOK
<1>1. Connect => me' = me /\ sealing' = sealing /\ budget' = budget
  BY DEF Connect, outside
<1>2. ASSUME NEW s \in Sockets, Breaks(s)
      PROVE  me' = [me EXCEPT !.wire[s] = <<>>] /\ sealing' = sealing
             /\ budget'.frames = budget.frames
  BY <1>2 DEF Breaks, TypeOK
<1>3. ASSUME NEW s \in Sockets, ServerReads(s)
      PROVE  (\E w : me' = [me EXCEPT !.wire = w]) /\ sealing' = sealing /\ budget' = budget
  BY <1>3 DEF ServerReads
<1>4. ASSUME NEW s \in Sockets, ServerDrops(s)
      PROVE  me' = me /\ sealing' = sealing /\ budget' = budget
  BY <1>4 DEF ServerDrops
<1>5. \A w : LET n == [me EXCEPT !.wire = w] IN Delivers(me, n) /\ Same(me, n) /\ n.outbox = me.outbox
  BY <1>0 DEF Delivers, Same, Page
<1>6. \A s \in Sockets : [me EXCEPT !.wire[s] = <<>>] = [me EXCEPT !.wire = [@ EXCEPT ![s] = <<>>]]
  BY <1>0 DEF Page
<1>7. Delivers(me, me) /\ Same(me, me)
  BY DEF Delivers, Same
<1>8. QED
  BY <1>1, <1>2, <1>3, <1>4, <1>5, <1>6, <1>7

LEMMA KeptNext ==
    ASSUME TypeOK, KeptInv, [Next]_vars
    PROVE  KeptInv'
<1>1. CASE UNCHANGED vars
  BY <1>1 DEF vars, KeptInv
<1>2. ASSUME Delivers(me, me'), sealing' = sealing, budget'.frames = budget.frames
      PROVE  KeptInv'
  BY <1>2, DeliversKept
<1>3. CASE Next
  BY <1>2, <1>3, SocketDelivers, OutsideDelivers, SendKept, SealKept, LeaveKept DEF Next
<1>4. QED
  BY <1>1, <1>3

LEMMA KeptInit == Init => KeptInv
<1> SUFFICES ASSUME Init PROVE KeptInv
  OBVIOUS
<1>1. /\ me.left = <<>> /\ me.outbox = <<>> /\ sealing = <<>> /\ me.dropped = {}
      /\ budget.frames = MaxFrames
  BY DEF Init
<1>2. 1..(MaxFrames - budget.frames) = {}
  BY <1>1, ClientAssumption
<1>3. Kept(<<>>, <<>>, <<>>, {}, me.disconnected, MaxFrames - budget.frames)
  BY <1>2, EmptyElements DEF Kept, Before
<1>4. QED
  BY <1>1, <1>3 DEF KeptInv

\* peer.ts:271-273, whatever a wake overlaps with: until the page is left, an envelope was
\* written, is waiting in the outbox or the seal chain, or gave way to OUTBOX_MAX newer ones.
THEOREM TypedIsNeverForgotten == Spec => []NothingTypedIsForgotten
<1>1. KeptInv /\ TypeOK => NothingTypedIsForgotten
  <2> SUFFICES ASSUME KeptInv, TypeOK, ~me.disconnected
               PROVE  /\ 1..(MaxFrames - budget.frames) \subseteq
                            Elements(me.left) \cup Elements(me.outbox) \cup Elements(sealing)
                               \cup me.dropped
                      /\ \A n \in me.dropped : \A i \in 1..Len(me.outbox) : n < me.outbox[i]
    BY DEF NothingTypedIsForgotten
  <2>1. \A i \in 1..Len(me.outbox) : me.outbox[i] \in Elements(me.outbox)
    BY DEF Elements
  <2>2. QED
    BY <2>1 DEF KeptInv, Kept, Before
<1>2. TypeOK /\ KeptInv /\ [Next]_vars => KeptInv'
  BY KeptNext
<1>3. QED
  BY <1>1, <1>2, KeptInit, SignalClientTypes, PTL DEF Spec

\* A step keeps WaitsForSocket if the page it makes, up to the wire, has it.
LEMMA BecomesWaits ==
    ASSUME TypeOK, NEW m, Bounded(m), Becomes(m), WaitsForSocket(m)
    PROVE  WaitsForSocket(me')
<1>1. Same(m, me') /\ me'.outbox = m.outbox
  BY PageStep, BecomesDelivers
<1>2. QED
  BY <1>1 DEF Same, WaitsForSocket, IsUp

\* What a socket that opens, or is heard, finds waiting is written at once; a fresh socket
\* is not open yet.
LEMMA MethodsWait ==
    ASSUME NEW m, Bounded(m), NEW s \in Sockets, NEW t \in Sockets,
           m.outbox # <<>> => ~m.disconnected
    PROVE  /\ WaitsForSocket(OpenSignaling(m, s)) /\ WaitsForSocket(Opened(m, s))
           /\ WaitsForSocket(DeclareSocketDead(m, t, s))
           /\ WaitsForSocket(m) => WaitsForSocket(Heard(m))
<1>0. m \in Page
  BY DEF Bounded
<1>1. ASSUME NEW n, n \in Page, n.outbox # <<>> => ~n.disconnected
      PROVE  WaitsForSocket(FlushOutbox(n)) /\ WaitsForSocket(OpenSignaling(n, s))
  BY <1>1 DEF WaitsForSocket, FlushOutbox, OpenSignaling, IsUp, Page
<1>2. WaitsForSocket(Opened(m, s))
  <2> DEFINE n == [m EXCEPT !.ready[s] = "open", !.suspect = FALSE, !.liveness = s,
                            !.onclose = @ \cup {s}]
  <2>1. Bounded(n) /\ n.outbox = m.outbox /\ n.disconnected = m.disconnected
    BY DEF Bounded, Page, ReadyState
  <2> HIDE DEF n
  <2>2. Bounded(Join(n)) /\ Join(n).outbox = n.outbox /\ Join(n).disconnected = n.disconnected
    <3>1. Bounded(Join(n)) /\ Same(n, Join(n))
      BY <2>1, JoinKeeps
    <3>2. Join(n).outbox = n.outbox
      BY <2>1 DEF Join, Signal, Bounded, Page
    <3>3. QED
      BY <3>1, <3>2 DEF Same
  <2>3. QED
    BY <1>1, <2>1, <2>2 DEF Opened, n, Bounded
<1>3. WaitsForSocket(DeclareSocketDead(m, t, s))
  <2> DEFINE n == [m EXCEPT !.suspect = FALSE, !.ready[t] = "closing",
                            !.onclose = @ \ {t}, !.reconnect = FALSE]
  <2>1. n \in Page /\ n.outbox = m.outbox /\ n.disconnected = m.disconnected
    BY <1>0 DEF Page, ReadyState
  <2>2. DeclareSocketDead(m, t, s) = OpenSignaling(n, s)
    BY DEF DeclareSocketDead
  <2> HIDE DEF n
  <2>3. QED
    BY <1>1, <2>1, <2>2
<1>4. WaitsForSocket(m) => WaitsForSocket(Heard(m))
  <2> DEFINE n == [m EXCEPT !.suspect = FALSE, !.probe = None]
  <2>1. n \in Page /\ n.outbox = m.outbox /\ n.disconnected = m.disconnected
    BY <1>0 DEF Page
  <2>2. Heard(m) = IF m.suspect THEN FlushOutbox(n) ELSE m
    BY DEF Heard
  <2> HIDE DEF n
  <2>3. QED
    BY <1>1, <2>1, <2>2
<1>5. QED
  BY <1>0, <1>1, <1>2, <1>3, <1>4

\* Without the overlap of a wake, the close event that lifts a suspicion is that of the
\* current socket: with it, what waits would be overtaken.
LEMMA SocketWaits ==
    ASSUME ~Overlap, TypeOK, PageInv(me, stage), WaitsForSocket(me), NEW s \in Sockets,
           \/ KeyDerived(s) \/ OnOpen(s) \/ ConnectFails(s) \/ ReconnectFires(s)
           \/ CloseEvent(s) \/ CloseBegins(s) \/ Wake(s) \/ ProbeFires(s)
           \/ LivenessTick(s) \/ OnMessage(s)
    PROVE  WaitsForSocket(me')
<1>0. Bounded(me) /\ me \in Page /\ (me.outbox # <<>> => ~me.disconnected)
  BY DEF TypeOK, Bounded, WaitsForSocket
<1>1. CASE KeyDerived(s)
  <2>1. Bounded(OpenSignaling(me, s)) /\ WaitsForSocket(OpenSignaling(me, s))
    BY <1>0, OpenKeeps, MethodsWait
  <2>2. Becomes(me) \/ Becomes(OpenSignaling(me, s))
    BY <1>1 DEF KeyDerived
  <2>3. QED
    BY <1>0, <2>1, <2>2, BecomesWaits
<1>2. CASE OnOpen(s)
  <2>1. Bounded(Opened(me, s)) /\ WaitsForSocket(Opened(me, s))
    BY <1>0, OpenedKeeps, MethodsWait
  <2>2. QED
    BY <1>2, <2>1, BecomesWaits DEF OnOpen
<1>3. CASE ConnectFails(s)
  <2> DEFINE m == [me EXCEPT !.ready[s] = "closed"]
  <2>1. Bounded(m) /\ WaitsForSocket(m)
    BY <1>0, MethodTypes DEF WaitsForSocket, IsUp, Page
  <2> HIDE DEF m
  <2>2. Bounded(ScheduleReconnect(m)) /\ WaitsForSocket(ScheduleReconnect(m))
    BY <2>1, ScheduleKeeps DEF ScheduleReconnect, WaitsForSocket, IsUp, Bounded, Page
  <2>3. QED
    BY <1>3, <2>2, BecomesWaits DEF ConnectFails, m
<1>4. CASE ReconnectFires(s) \/ (Wake(s) /\ Becomes(OpenSignaling([me EXCEPT !.reconnect = FALSE], s)))
  <2> DEFINE m == [me EXCEPT !.reconnect = FALSE]
  <2>1. Bounded(m) /\ (m.outbox # <<>> => ~m.disconnected) /\ Becomes(OpenSignaling(m, s))
    BY <1>0, <1>4, MethodTypes DEF ReconnectFires, Page
  <2> HIDE DEF m
  <2>2. Bounded(OpenSignaling(m, s)) /\ WaitsForSocket(OpenSignaling(m, s))
    BY <2>1, OpenKeeps, MethodsWait
  <2>3. QED
    BY <2>1, <2>2, BecomesWaits
<1>5. CASE CloseEvent(s)
  <2> DEFINE m == [me EXCEPT !.ready[s] = "closed"]
  <2>1. Bounded(m) /\ WaitsForSocket(m) /\ m.disconnected = me.disconnected
        /\ m.outbox = me.outbox /\ m.ws = me.ws /\ m.onclose = me.onclose
        /\ m.ready[s] = "closed"
    BY <1>0, MethodTypes DEF WaitsForSocket, IsUp, Page
  <2>2. Becomes(IF s \in m.onclose THEN OnClose(m) ELSE m)
    BY <1>5 DEF CloseEvent
  <2> HIDE DEF m
  <2>3. Bounded(OnClose(m))
    BY <2>1, MethodTypes
  <2>4. ASSUME s \in m.onclose PROVE WaitsForSocket(OnClose(m))
    <3>1. CASE me.disconnected
      <4>1. m.outbox = <<>>
        BY <1>0, <2>1, <3>1
      <4>2. OnClose(m).outbox = m.outbox
        BY <2>1 DEF OnClose, ScheduleReconnect, Bounded, Page
      <4>3. QED
        BY <4>1, <4>2 DEF WaitsForSocket
    <3>2. CASE ~me.disconnected
      <4>1. me.ready[s] \in {"open", "closing"}
        BY <1>5 DEF CloseEvent
      <4>2. Alive(me)
        BY <3>2, <4>1 DEF PageInv, Untouched
      <4>3. s = me.ws
        BY <2>1, <2>4, <4>1, <4>2 DEF Alive
      <4>4. OnClose(m).ws = s /\ OnClose(m).ready[s] = "closed" /\ ~OnClose(m).disconnected
        BY <2>1, <3>2, <4>3 DEF OnClose, ScheduleReconnect, Bounded, Page
      <4>5. QED
        BY <4>4 DEF WaitsForSocket, IsUp
    <3>3. QED
      BY <3>1, <3>2
  <2>5. QED
    BY <2>1, <2>2, <2>3, <2>4, BecomesWaits
<1>6. CASE CloseBegins(s)
  <2> DEFINE m == [me EXCEPT !.ready[s] = "closing"]
  <2>1. Bounded(m) /\ WaitsForSocket(m) /\ Becomes(m)
    BY <1>0, <1>6, MethodTypes DEF CloseBegins, WaitsForSocket, IsUp, Page
  <2> HIDE DEF m
  <2>2. QED
    BY <2>1, BecomesWaits
<1>7. CASE Wake(s) /\ Becomes(Join([me EXCEPT !.suspect = TRUE, !.probe = s]))
  <2> DEFINE m == [me EXCEPT !.suspect = TRUE, !.probe = s]
  <2>1. Bounded(m) /\ m.suspect /\ m.outbox = me.outbox /\ m.disconnected = me.disconnected
    BY <1>0, MethodTypes DEF Page
  <2>2. Becomes(Join(m))
    BY <1>7
  <2> HIDE DEF m
  <2>3. Bounded(Join(m)) /\ Same(m, Join(m)) /\ Join(m).outbox = m.outbox
    BY <2>1, JoinKeeps DEF Join, Signal, Bounded, Page
  <2>4. WaitsForSocket(Join(m))
    BY <1>0, <2>1, <2>3 DEF WaitsForSocket, Same
  <2>5. QED
    BY <2>2, <2>3, <2>4, BecomesWaits
<1>8. CASE ProbeFires(s)
  <2> DEFINE m == [me EXCEPT !.probe = None]
  <2>1. me.probe \in Sockets
    BY <1>0, <1>8 DEF ProbeFires, Page
  <2>2. Bounded(m) /\ WaitsForSocket(m)
    BY <1>0, <2>1, MethodTypes DEF WaitsForSocket, IsUp, Page
  <2>3. Becomes(m) \/ Becomes(DeclareSocketDead(m, me.probe, s))
    BY <1>8 DEF ProbeFires
  <2> HIDE DEF m
  <2>4. /\ Bounded(DeclareSocketDead(m, me.probe, s))
        /\ WaitsForSocket(DeclareSocketDead(m, me.probe, s))
    BY <2>1, <2>2, DeadKeeps, MethodsWait DEF WaitsForSocket
  <2>5. QED
    BY <2>2, <2>3, <2>4, BecomesWaits
<1>9. CASE LivenessTick(s)
  <2>1. me.ws \in Sockets /\ Becomes(DeclareSocketDead(me, me.ws, s))
    BY <1>0, <1>9 DEF LivenessTick, Page
  <2>2. /\ Bounded(DeclareSocketDead(me, me.ws, s))
        /\ WaitsForSocket(DeclareSocketDead(me, me.ws, s))
    BY <1>0, <2>1, DeadKeeps, MethodsWait
  <2>3. QED
    BY <2>1, <2>2, BecomesWaits
<1>10. CASE OnMessage(s)
  <2>1. Bounded(Heard(me)) /\ WaitsForSocket(Heard(me))
    BY <1>0, HeardKeeps, MethodsWait
  <2>2. QED
    BY <1>10, <2>1, BecomesWaits DEF OnMessage
<1>11. Wake(s) => \/ Becomes(OpenSignaling([me EXCEPT !.reconnect = FALSE], s))
                  \/ Becomes(Join([me EXCEPT !.suspect = TRUE, !.probe = s]))
  BY DEF Wake
<1>12. QED
  BY <1>1, <1>2, <1>3, <1>4, <1>5, <1>6, <1>7, <1>8, <1>9, <1>10, <1>11

LEMMA OrderNext ==
    ASSUME ~Overlap, TypeOK, PageInv(me, stage), KeptInv, OrderInv, [Next]_vars
    PROVE  OrderInv'
<1>1. CASE UNCHANGED vars
  BY <1>1 DEF vars, OrderInv, WaitsForSocket, IsUp
<1>2. ASSUME Delivers(me, me'), sealing' = sealing, budget'.frames = budget.frames,
             WaitsForSocket(me')
      PROVE  OrderInv'
  BY <1>2, DeliversKept DEF OrderInv
<1>3. ASSUME NEW s \in Sockets,
             \/ KeyDerived(s) \/ OnOpen(s) \/ ConnectFails(s) \/ ReconnectFires(s)
             \/ CloseEvent(s) \/ CloseBegins(s) \/ Wake(s) \/ ProbeFires(s)
             \/ LivenessTick(s) \/ OnMessage(s)
      PROVE  OrderInv'
  BY <1>2, <1>3, SocketDelivers, SocketWaits DEF OrderInv
<1>4. CASE Connect \/ \E s \in Sockets : Breaks(s) \/ ServerReads(s) \/ ServerDrops(s)
  <2>1. Same(me, me') /\ me'.outbox = me.outbox
    BY <1>4, OutsideDelivers
  <2>2. WaitsForSocket(me')
    BY <2>1 DEF Same, OrderInv, WaitsForSocket, IsUp
  <2>3. QED
    BY <1>2, <1>4, <2>2, OutsideDelivers
<1>5. CASE Send \/ Seal \/ Disconnect \/ PageHide
  BY <1>5, SendKept, SealKept, LeaveKept
<1>6. CASE Next
  BY <1>3, <1>4, <1>5, <1>6 DEF Next
<1>7. QED
  BY <1>1, <1>6

\* What was written, waits and is being sealed is one increasing sequence.
LEMMA AheadInOrder == TypeOK /\ KeptInv /\ OrderInv => LeavesInOrder
<1> SUFFICES ASSUME TypeOK, KeptInv, OrderInv PROVE LeavesInOrder
  OBVIOUS
<1> DEFINE r == me.outbox \o sealing
<1>1. me.left \in Seq(Nat) /\ me.outbox \in Seq(Nat) /\ sealing \in Seq(Nat) /\ r \in Seq(Nat)
  BY TypedParts
<1>2. Increasing(r) /\ Elements(r) = Elements(me.outbox) \cup Elements(sealing)
  BY <1>1, IncreasingConcat, ElementsOfConcat DEF KeptInv, Kept
<1>3. Increasing(me.left) /\ Before(Elements(me.left), Elements(r))
  BY <1>2 DEF OrderInv, Ahead
<1>4. me.left \o r = me.left \o me.outbox \o sealing
  <2>1. \A a, b, c \in Seq(Nat) : a \o (b \o c) = (a \o b) \o c
    BY ConcatAssociative
  <2>2. QED
    BY <1>1, <2>1, Zenon
<1> HIDE DEF r
<1>5. Increasing(me.left \o r)
  BY <1>1, <1>2, <1>3, IncreasingConcat
<1>6. QED
  BY <1>4, <1>5 DEF LeavesInOrder

\* peer.ts:266 and 271, without the overlap of a wake: envelopes leave in the order they were
\* sent, each at most once, through any number of sockets, wakes and losses.
THEOREM EnvelopesLeaveInOrder ==
    ASSUME ~Overlap
    PROVE  Spec => []LeavesInOrder
<1>1. Init => PageInv(me, stage) /\ OrderInv
  <2>1. Init => PageInv(me, stage)
    BY DEF Init, PageInv, Untouched
  <2>2. Init => me.left = <<>> /\ me.outbox = <<>>
    BY DEF Init
  <2>3. me.left = <<>> /\ me.outbox = <<>> => OrderInv
    BY EmptyElements DEF OrderInv, Ahead, Before, WaitsForSocket
  <2>4. QED
    BY <2>1, <2>2, <2>3
<1>2. TypeOK /\ PageInv(me, stage) /\ [Next]_vars => PageInv(me, stage)'
  BY PageInvNext
<1>3. TypeOK /\ KeptInv /\ [Next]_vars => KeptInv'
  BY KeptNext
<1>4. TypeOK /\ PageInv(me, stage) /\ KeptInv /\ OrderInv /\ [Next]_vars => OrderInv'
  BY OrderNext
<1>5. QED
  BY <1>1, <1>2, <1>3, <1>4, AheadInOrder, KeptInit, SignalClientTypes, PTL DEF Spec

==============================================================================
