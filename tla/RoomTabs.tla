------------------------------- MODULE RoomTabs -------------------------------
(***************************************************************************)
(* The room tabs of the browser application (packages/browser/src/app.ts)  *)
(* and the dyncap chains of what it signs in them (dyncap.ts).             *)
(*                                                                         *)
(* The page keeps one context per room.  Its globals (qpeer, activeRoom    *)
(* and the rest) are aliases into one of them: the shown tab's, but for a  *)
(* callback of another room's connection or a /share, which swap them in   *)
(* and back.  What is signed goes through one queue of closures           *)
(* (signQueue).  A closure reads the aliases when it runs, and again after *)
(* the await on the signature; by then the swap is over, so it finds those *)
(* of the shown tab.                                                       *)
(*                                                                         *)
(* In every room one other peer listens, who verifies what bears the       *)
(* page's peerId, in whatever order it comes; some of it never does.       *)
(*                                                                         *)
(* Every tab of the browser has the seed and saves its own table of the    *)
(* numbers in the one localStorage, over whatever is there.  Another tab   *)
(* has a peerId of its own, unless it is a duplicate of the page: then     *)
(* what it signs is taken for the page's.                                  *)
(***************************************************************************)
EXTENDS Integers, Sequences, FiniteSets

CONSTANTS
    Rooms,
    WitnessRing, \* WITNESS_RING, witnesses a listener keeps of one peer
    None,
    MaxFrames,   \* bound of the model: envelopes signed
    MaxReloads   \* bound of the model: reloads of the page

VARIABLES
    tabs,    \* rooms open, the one shown, the room each tab's qpeer is connected to, and
             \* the one connect() waits for
    queue,   \* closures waiting in signQueue: the room each envelope is meant for
    signing, \* the envelope whose signature is awaited, or None
    mem,     \* dyncapState.seqByRoom in the page
    disk,    \* the same in localStorage
    other,   \* the same in another tab of the browser, None if there is none
    twin,    \* whether that tab has the page's peerId
    saved,   \* history: the numbers the page itself has last saved
    setBack, \* history: rooms whose number was lower than that when a reload read it
    wire,    \* envelopes sent in each room
    heard,   \* those its listener has got
    chain,   \* what the listener keeps of the page: dyncapChains
    made,    \* envelopes signed
    reloads

pageVars == <<tabs, queue, signing>>
storeVars == <<mem, disk, other, twin, saved, setBack>>
otherVars == <<other, twin>>
roomVars == <<wire, heard, chain>>
vars == <<pageVars, storeVars, roomVars, made, reloads>>

\* The id stands for the witness, a hash over the payload: no two envelopes share it.
Envelope == [meant : Rooms, room : Rooms, seq : Nat \ {0}, by : {"page", "copy"}, id : Nat]

\* The alias qpeer, outside the swaps.
Peer == tabs.peer[tabs.shown]

\* Room r's connection is some tab's, so its callbacks come.  (One whose tab was given
\* another connection in its place is left out: nothing is sent on it any more.)
Running(r) == \E t \in tabs.open : tabs.peer[t] = r

\* None is neither a room, an envelope nor a table of numbers.
ASSUME TabsAssumption ==
    /\ WitnessRing \in Nat \ {0}
    /\ None \notin Rooms \cup Envelope \cup [Rooms -> Nat]

TypeOK ==
    /\ tabs \in [open : SUBSET Rooms, shown : Rooms, peer : [Rooms -> Rooms \cup {None}],
                 connecting : Rooms \cup {None}]
    /\ tabs.shown \in tabs.open
    /\ queue \in Seq(Rooms) /\ (signing = None => queue = <<>>)
    /\ signing \in Envelope \cup {None}
    /\ mem \in [Rooms -> Nat] /\ disk \in [Rooms -> Nat]
    /\ other \in [Rooms -> Nat] \cup {None} /\ twin \in BOOLEAN
    /\ saved \in [Rooms -> Nat] /\ setBack \subseteq Rooms
    /\ wire \in [Rooms -> SUBSET Envelope] /\ heard \in [Rooms -> SUBSET Envelope]
    /\ chain \in [Rooms -> [held : SUBSET Envelope, contested : BOOLEAN]]
    /\ made \in Nat /\ reloads \in Nat

Init ==
    /\ \E r \in Rooms :
           tabs = [open |-> Rooms, shown |-> r, peer |-> [t \in Rooms |-> None],
                   connecting |-> None]
    /\ queue = <<>> /\ signing = None
    /\ mem = [r \in Rooms |-> 0] /\ disk = mem
    /\ other = None /\ twin = FALSE
    /\ saved = mem /\ setBack = {}
    /\ wire = [r \in Rooms |-> {}] /\ heard = wire
    /\ chain = [r \in Rooms |-> [held |-> {}, contested |-> FALSE]]
    /\ made = 0 /\ reloads = 0

-----------------------------------------------------------------------------
(* Tabs and connections *)

SwitchToRoom(r) ==
    /\ r \in tabs.open \ {tabs.shown}
    /\ tabs' = [tabs EXCEPT !.shown = r]
    /\ UNCHANGED <<queue, signing, storeVars, roomVars, made, reloads>>

OpenRoomTab(r) ==
    /\ r \notin tabs.open
    /\ tabs' = [tabs EXCEPT !.open = @ \cup {r}, !.shown = r]
    /\ UNCHANGED <<queue, signing, storeVars, roomVars, made, reloads>>

\* Bound of the model: a room whose connection another tab holds, or is about to, stays open.
CloseRoomTab(r) ==
    /\ r \in tabs.open /\ tabs.open # {r}
    /\ tabs.connecting # r /\ \A t \in Rooms \ {r} : tabs.peer[t] # r
    /\ \E s \in tabs.open \ {r} :
           /\ tabs.shown # r => s = tabs.shown
           /\ tabs' = [tabs EXCEPT !.open = @ \ {r}, !.shown = s, !.peer[r] = None]
    /\ UNCHANGED <<queue, signing, storeVars, roomVars, made, reloads>>

\* connect() up to its await, or whole when it disconnects.  The button is disabled meanwhile.
Connect ==
    /\ tabs.connecting = None
    /\ tabs' = IF Peer = None THEN [tabs EXCEPT !.connecting = tabs.shown]
               ELSE [tabs EXCEPT !.peer[tabs.shown] = None]
    /\ UNCHANGED <<queue, signing, storeVars, roomVars, made, reloads>>

\* setQpeer, after fetchAutoTurn: into the tab that is shown by now.
Connected ==
    /\ tabs.connecting # None
    /\ tabs' = [tabs EXCEPT !.peer[tabs.shown] = tabs.connecting, !.connecting = None]
    /\ UNCHANGED <<queue, signing, storeVars, roomVars, made, reloads>>

-----------------------------------------------------------------------------
(* Signing *)

\* The closures of signQueue run while they find a qpeer, up to the first await: the number
\* is taken there, the room is the alias's.
Run(closures) ==
    IF closures = <<>> \/ Peer = None
    THEN /\ queue' = <<>> /\ signing' = None
         /\ UNCHANGED <<mem, made>>
    ELSE LET room == tabs.shown IN
         /\ queue' = Tail(closures)
         /\ signing' = [meant |-> Head(closures), room |-> room, seq |-> mem[room] + 1,
                        by |-> "page", id |-> made + 1]
         /\ mem' = [mem EXCEPT ![room] = @ + 1]
         /\ made' = made + 1

\* signedSend and signedBroadcast: an idle queue runs the closure when the task that called
\* is over, before any other.
Signed(meant) ==
    /\ made + Len(queue) < MaxFrames
    /\ IF signing = None THEN Run(<<meant>>)
       ELSE queue' = Append(queue, meant) /\ UNCHANGED <<signing, mem, made>>
    /\ UNCHANGED <<tabs, disk, otherVars, saved, setBack, roomVars, reloads>>

\* A callback of room r's connection has something for a peer: the handshake of
\* onPeerReady, an answer of onMessage.
PeerReady(r) ==
    /\ Running(r) /\ tabs.peer[r] # None
    /\ Signed(r)

Command == Peer # None /\ Signed(tabs.shown)

\* /share @lemma to another room: runIn.
Share(r) ==
    /\ Peer # None /\ r \in tabs.open \ {tabs.shown}
    /\ Signed(r)

\* Faulty: the page sends without saving.
FinishUnsaved ==
    /\ signing # None
    /\ wire' = IF Peer = None THEN wire ELSE [wire EXCEPT ![Peer] = @ \cup {signing}]
    /\ Run(queue)
    /\ UNCHANGED <<tabs, disk, otherVars, saved, setBack, heard, chain, reloads>>

\* The signature is there: saveDyncap, and the envelope goes out on the alias's connection.
\* It may be lost; then nobody takes it.
Finish ==
    /\ signing # None
    /\ disk' = mem /\ saved' = mem
    /\ wire' = IF Peer = None THEN wire ELSE [wire EXCEPT ![Peer] = @ \cup {signing}]
    /\ Run(queue)
    /\ UNCHANGED <<tabs, otherVars, setBack, heard, chain, reloads>>

\* The signature or the save throws: the error is swallowed, the queue moves on.
SigningFails ==
    /\ signing # None
    /\ Run(queue)
    /\ UNCHANGED <<tabs, disk, otherVars, saved, setBack, roomVars, reloads>>

\* A signed envelope of somebody else comes in: verifyDyncapIfPresent saves the page's
\* numbers with the chain it has extended.
Hear ==
    /\ \E r \in Rooms : Running(r)
    /\ disk' = mem /\ saved' = mem
    /\ UNCHANGED <<pageVars, mem, otherVars, setBack, roomVars, made, reloads>>

\* The tabs come back (qos-joined-rooms), unconnected; loadDyncap takes what is stored.
Reload ==
    /\ reloads < MaxReloads
    /\ tabs' = [tabs EXCEPT !.peer = [t \in Rooms |-> None], !.connecting = None]
    /\ queue' = <<>> /\ signing' = None
    /\ mem' = disk
    /\ setBack' = setBack \cup {r \in Rooms : disk[r] < saved[r]}
    /\ reloads' = reloads + 1
    /\ UNCHANGED <<disk, otherVars, saved, roomVars, made>>

\* Another tab of the browser loads what is stored: a duplicate of the page, whose
\* sessionStorage is copied with the peerId in it, or a tab that claims one of its own.
\* Bound of the model: one at a time, the one before it is closed.
OpenTab ==
    /\ other' = disk
    /\ twin' \in BOOLEAN
    /\ UNCHANGED <<pageVars, mem, disk, saved, setBack, roomVars, made, reloads>>

\* The other tab signs in a room, and saves the numbers it knows of.
OtherSigns(r) ==
    /\ other # None /\ made + Len(queue) < MaxFrames
    /\ other' = [other EXCEPT ![r] = @ + 1]
    /\ disk' = other'
    /\ wire' = IF ~twin THEN wire
               ELSE [wire EXCEPT ![r] = @ \cup {[meant |-> r, room |-> r, seq |-> other[r] + 1,
                                                 by |-> "copy", id |-> made + 1]}]
    /\ made' = made + 1
    /\ UNCHANGED <<pageVars, mem, twin, saved, setBack, heard, chain, reloads>>

OtherHears ==
    /\ other # None
    /\ disk' = other
    /\ UNCHANGED <<pageVars, mem, otherVars, saved, setBack, roomVars, made, reloads>>

-----------------------------------------------------------------------------
(* Listening *)

\* One number too many: the lowest is forgotten.
Pruned(held) ==
    IF Cardinality(held) <= WitnessRing THEN held
    ELSE held \ {CHOOSE f \in held : \A g \in held : f.seq <= g.seq}

\* Faulty: of two envelopes under one number the later counts.
VerifiedLast(c, f) ==
    [c EXCEPT !.held = Pruned({g \in c.held : g.seq # f.seq} \cup {f})]

\* verifyEnvelope and what verifyDyncapIfPresent keeps of it.
Verified(c, f) ==
    LET known == {g \in c.held : g.seq = f.seq} IN
    IF known = {} THEN [c EXCEPT !.held = Pruned(@ \cup {f})]
    ELSE IF f \in known THEN c
    ELSE [c EXCEPT !.contested = TRUE]

Take(r) ==
    /\ \E f \in wire[r] :
           /\ heard' = [heard EXCEPT ![r] = @ \cup {f}]
           /\ chain' = [chain EXCEPT ![r] = Verified(@, f)]
    /\ UNCHANGED <<pageVars, storeVars, wire, made, reloads>>

Next ==
    \/ \E r \in Rooms : SwitchToRoom(r) \/ OpenRoomTab(r) \/ CloseRoomTab(r)
    \/ Connect \/ Connected
    \/ \E r \in Rooms : PeerReady(r) \/ Share(r)
    \/ Command \/ Finish \/ SigningFails
    \/ Hear \/ Reload \/ OpenTab \/ OtherHears
    \/ \E r \in Rooms : OtherSigns(r) \/ Take(r)

Spec == Init /\ [][Next]_vars

-----------------------------------------------------------------------------
(* Properties *)

\* dyncap.ts:11-13: a contested chain is evidence of a clone.  The page is contested in a room
\* only if a duplicate of it has signed there, if something it signed for another room was put
\* there, or if it was reloaded after another tab had set the number stored for that room back
\* below one the page had saved: nothing the page does, loses or fails at makes one of its
\* numbers come twice.
HonestIsTrusted ==
    \A r \in Rooms : chain[r].contested =>
        \/ r \in setBack
        \/ \E f \in wire[r] : f.by = "copy" \/ f.room # r

\* dyncap.ts:11-13 and 249-256: a listener that has heard two envelopes under one number, in
\* whatever order and however often, has contested the chain, unless its ring is full of
\* higher numbers.
ForkIsSeen ==
    \A r \in Rooms : \A f, g \in heard[r] :
        f.seq = g.seq /\ f # g =>
            \/ chain[r].contested
            \/ Cardinality({h \in chain[r].held : h.seq > f.seq}) = WitnessRing

\* docs/commands.md:597: no cross-talk between rooms.  What the page sends in a room was
\* meant for it and is signed for it.
NoCrossTalk ==
    \A r \in Rooms : \A f \in wire[r] : f.meant = r /\ f.room = r

===============================================================================
