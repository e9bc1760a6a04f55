---------------------------- MODULE RoomTabsProofs ----------------------------
(***************************************************************************)
(* Proofs about RoomTabs, for every set of rooms and every size of the     *)
(* ring.  The page's numbers never come twice in a room whose stored       *)
(* number nobody sets back, because what it has sent is never above what   *)
(* it has saved; a listener's ring holds the highest numbers it has heard. *)
(***************************************************************************)
EXTENDS RoomTabs, FiniteSetTheorems, NaturalsInduction, WellFoundedInduction, TLAPS

-----------------------------------------------------------------------------
(* Types *)

\* A turn of the signer keeps the types of what it changes.
LEMMA RunTypes ==
    ASSUME TypeOK, NEW closures \in Seq(Rooms), Run(closures)
    PROVE  /\ queue' \in Seq(Rooms) /\ (signing' = None => queue' = <<>>)
           /\ signing' \in Envelope \cup {None}
           /\ mem' \in [Rooms -> Nat] /\ made' \in Nat
<1>1. CASE closures = <<>> \/ Peer = None
  <2>1. queue' = <<>> /\ signing' = None /\ mem' = mem /\ made' = made
    BY <1>1 DEF Run
  <2>2. mem \in [Rooms -> Nat] /\ made \in Nat
    BY DEF TypeOK
  <2> QED BY <2>1, <2>2
<1>2. CASE ~(closures = <<>> \/ Peer = None)
  <2>1. tabs.shown \in Rooms /\ Head(closures) \in Rooms /\ Tail(closures) \in Seq(Rooms)
    BY <1>2 DEF TypeOK
  <2>2. mem \in [Rooms -> Nat] /\ mem[tabs.shown] \in Nat /\ made \in Nat
    BY <2>1 DEF TypeOK
  <2>3. signing' \in Envelope
    BY <1>2, <2>1, <2>2 DEF Run, Envelope
  <2>4. mem' \in [Rooms -> Nat] /\ made' \in Nat
    BY <1>2, <2>1, <2>2 DEF Run
  <2>5. queue' \in Seq(Rooms)
    BY <1>2, <2>1 DEF Run
  <2>6. signing' # None
    BY <2>3, TabsAssumption
  <2> QED BY <2>3, <2>4, <2>5, <2>6
<1> QED BY <1>1, <1>2

\* What is kept of a peer after one more envelope has the type of a chain.
LEMMA VerifiedTypes ==
    ASSUME NEW c \in [held : SUBSET Envelope, contested : BOOLEAN], NEW f \in Envelope
    PROVE  Verified(c, f) \in [held : SUBSET Envelope, contested : BOOLEAN]
<1>1. Pruned(c.held \cup {f}) \in SUBSET Envelope
  BY DEF Pruned
<1> QED BY <1>1 DEF Verified

\* What the page and another tab keep in memory and in storage, what its rooms have seen
\* and what their listeners keep has its type.
THEOREM RoomTabsTypes == Spec => []TypeOK
<1>1. Init => TypeOK
  <2> SUFFICES ASSUME Init PROVE TypeOK
    OBVIOUS
  <2>1. PICK r \in Rooms :
           tabs = [open |-> Rooms, shown |-> r, peer |-> [t \in Rooms |-> None],
                   connecting |-> None]
    BY DEF Init
  <2>2. /\ mem \in [Rooms -> Nat] /\ disk = mem /\ saved = mem
        /\ other = None /\ twin \in BOOLEAN /\ setBack \subseteq Rooms
    BY DEF Init
  <2>4. queue \in Seq(Rooms) /\ queue = <<>> /\ signing = None
    BY DEF Init
  <2>3. /\ wire \in [Rooms -> SUBSET Envelope] /\ heard \in [Rooms -> SUBSET Envelope]
        /\ chain \in [Rooms -> [held : SUBSET Envelope, contested : BOOLEAN]]
        /\ made \in Nat /\ reloads \in Nat
    BY DEF Init
  <2> QED BY <2>1, <2>2, <2>3, <2>4 DEF TypeOK
<1>2. TypeOK /\ [Next]_vars => TypeOK'
  <2> SUFFICES ASSUME TypeOK, [Next]_vars PROVE TypeOK'
    OBVIOUS
  <2> USE DEF pageVars, storeVars, otherVars, roomVars
  <2>1. ASSUME NEW r \in Rooms, SwitchToRoom(r) PROVE TypeOK'
    BY <2>1 DEF TypeOK, SwitchToRoom
  <2>2. ASSUME NEW r \in Rooms, OpenRoomTab(r) PROVE TypeOK'
    BY <2>2 DEF TypeOK, OpenRoomTab
  <2>3. ASSUME NEW r \in Rooms, CloseRoomTab(r) PROVE TypeOK'
    <3>1. PICK s \in tabs.open :
             tabs' = [tabs EXCEPT !.open = @ \ {r}, !.shown = s, !.peer[r] = None] /\ s # r
      BY <2>3 DEF CloseRoomTab
    <3>2. /\ tabs.open \in SUBSET Rooms /\ tabs.peer \in [Rooms -> Rooms \cup {None}]
          /\ tabs.connecting \in Rooms \cup {None}
      BY DEF TypeOK
    <3>3. tabs' = [open |-> tabs.open \ {r}, shown |-> s,
                   peer |-> [tabs.peer EXCEPT ![r] = None], connecting |-> tabs.connecting]
      BY <3>1 DEF TypeOK
    <3>4. [tabs.peer EXCEPT ![r] = None] \in [Rooms -> Rooms \cup {None}]
      BY <3>2
    <3>5. /\ tabs' \in [open : SUBSET Rooms, shown : Rooms, peer : [Rooms -> Rooms \cup {None}],
                         connecting : Rooms \cup {None}]
          /\ tabs'.shown \in tabs'.open
      BY <3>1, <3>2, <3>3, <3>4
    <3> QED BY <2>3, <3>5 DEF TypeOK, CloseRoomTab
  <2>4. CASE Connect
    BY <2>4 DEF TypeOK, Connect
  <2>5. CASE Connected
    BY <2>5 DEF TypeOK, Connected
  <2>6. ASSUME NEW r \in Rooms, Signed(r) PROVE TypeOK'
    <3>1. CASE signing = None
      <4>1. <<r>> \in Seq(Rooms)
        OBVIOUS
      <4> QED BY <2>6, <3>1, <4>1, RunTypes DEF TypeOK, Signed
    <3>2. CASE signing # None
      <4>1. Append(queue, r) \in Seq(Rooms)
        BY DEF TypeOK
      <4> QED BY <2>6, <3>2, <4>1 DEF TypeOK, Signed
    <3> QED BY <3>1, <3>2
  <2>7. ASSUME NEW r \in Rooms, PeerReady(r) \/ Share(r) PROVE TypeOK'
    BY <2>6, <2>7 DEF PeerReady, Share
  <2>8. CASE Command
    BY <2>6, <2>8 DEF Command, TypeOK
  <2>9. CASE Finish
    <3>1. queue \in Seq(Rooms)
      BY DEF TypeOK
    <3>2. wire' \in [Rooms -> SUBSET Envelope]
      BY <2>9 DEF Finish, TypeOK, Peer
    <3> QED BY <2>9, <3>1, <3>2, RunTypes DEF Finish, TypeOK
  <2>10. CASE SigningFails
    <3>1. queue \in Seq(Rooms)
      BY DEF TypeOK
    <3> QED BY <2>10, <3>1, RunTypes DEF SigningFails, TypeOK
  <2>11. CASE Hear
    BY <2>11 DEF TypeOK, Hear
  <2>12. CASE Reload
    <3>1. tabs' = [open |-> tabs.open, shown |-> tabs.shown, peer |-> [t \in Rooms |-> None],
                   connecting |-> None]
      BY <2>12 DEF TypeOK, Reload
    <3>2. queue' \in Seq(Rooms)
      BY <2>12 DEF Reload
    <3> QED BY <2>12, <3>1, <3>2 DEF TypeOK, Reload
  <2>13. CASE OpenTab
    BY <2>13 DEF TypeOK, OpenTab
  <2>14. ASSUME NEW r \in Rooms, OtherSigns(r) PROVE TypeOK'
    <3>1. other \in [Rooms -> Nat] /\ other' \in [Rooms -> Nat]
      BY <2>14 DEF TypeOK, OtherSigns
    <3>2. [meant |-> r, room |-> r, seq |-> other[r] + 1, by |-> "copy", id |-> made + 1] \in Envelope
      <4>1. other[r] \in Nat /\ made \in Nat
        BY <3>1 DEF TypeOK
      <4>2. other[r] + 1 \in Nat \ {0} /\ made + 1 \in Nat
        BY <4>1
      <4> QED BY <4>2 DEF Envelope
    <3>3. wire' \in [Rooms -> SUBSET Envelope]
      BY <2>14, <3>2 DEF TypeOK, OtherSigns
    <3> QED BY <2>14, <3>1, <3>3 DEF TypeOK, OtherSigns
  <2>15. ASSUME NEW r \in Rooms, Take(r) PROVE TypeOK'
    <3>1. PICK f \in wire[r] : /\ heard' = [heard EXCEPT ![r] = @ \cup {f}]
                               /\ chain' = [chain EXCEPT ![r] = Verified(@, f)]
      BY <2>15 DEF Take
    <3>2. f \in Envelope
      BY <3>1 DEF TypeOK
    <3>3. chain' \in [Rooms -> [held : SUBSET Envelope, contested : BOOLEAN]]
      BY <3>1, <3>2, VerifiedTypes DEF TypeOK
    <3> QED BY <2>15, <3>1, <3>2, <3>3 DEF TypeOK, Take
  <2>16. CASE OtherHears
    BY <2>16 DEF TypeOK, OtherHears
  <2>17. CASE UNCHANGED vars
    BY <2>17 DEF TypeOK, vars
  <2> QED BY <2>1, <2>2, <2>3, <2>4, <2>5, <2>7, <2>8, <2>9, <2>10, <2>11, <2>12, <2>13,
             <2>14, <2>15, <2>16, <2>17 DEF Next
<1> QED BY <1>1, <1>2, PTL DEF Spec

-----------------------------------------------------------------------------
(* The ring *)

\* What a listener keeps of the envelopes S it has heard: one for each of the highest
\* numbers, as many as the ring holds; a second one under a number kept contests the chain.
Ring(c, S) ==
    /\ c.held \subseteq S
    /\ IsFiniteSet(c.held) /\ Cardinality(c.held) <= WitnessRing
    /\ \A f, g \in c.held : f.seq = g.seq => f = g
    /\ \A f \in S :
           \/ \E g \in c.held : g.seq = f.seq
           \/ Cardinality(c.held) = WitnessRing /\ \A g \in c.held : g.seq > f.seq
    /\ \A f \in S, g \in c.held : f.seq = g.seq /\ f # g => c.contested

\* A finite set of envelopes that is not empty has one with the lowest number.
LEMMA Lowest ==
    ASSUME NEW H \in SUBSET Envelope, H # {}
    PROVE  \E f \in H : \A g \in H : f.seq <= g.seq
<1> DEFINE N == {f.seq : f \in H}
<1>1. N \subseteq Nat /\ N # {}
  BY DEF Envelope
<1>2. PICK n \in N : \A m \in N : ~(<<m, n>> \in OpToRel(<, Nat))
  BY <1>1, NatLessThanWellFounded, WFMin
<1>3. \A m \in N : n <= m
  <2> SUFFICES ASSUME NEW m \in N PROVE n <= m
    OBVIOUS
  <2>1. ~(m < n)
    BY <1>1, <1>2 DEF OpToRel
  <2> QED BY <1>1, <2>1
<1>4. PICK f \in H : f.seq = n
  BY <1>2
<1> QED BY <1>3, <1>4

\* Forgetting the lowest of one number too many.
LEMMA PrunedKeepsHighest ==
    ASSUME NEW H \in SUBSET Envelope, IsFiniteSet(H), Cardinality(H) <= WitnessRing + 1,
           \A f, g \in H : f.seq = g.seq => f = g
    PROVE  /\ Pruned(H) \subseteq H /\ IsFiniteSet(Pruned(H))
           /\ Cardinality(Pruned(H)) <= WitnessRing
           /\ \A f \in H \ Pruned(H) : /\ Cardinality(Pruned(H)) = WitnessRing
                                       /\ \A g \in Pruned(H) : g.seq > f.seq
<1>1. CASE Cardinality(H) <= WitnessRing
  BY <1>1 DEF Pruned
<1>2. CASE ~(Cardinality(H) <= WitnessRing)
  <2>1. Cardinality(H) \in Nat /\ WitnessRing \in Nat
    BY FS_CardinalityType, TabsAssumption
  <2>2. Cardinality(H) = WitnessRing + 1
    BY <1>2, <2>1
  <2>3. H # {}
    BY <2>1, <2>2, FS_EmptySet
  <2> DEFINE low == CHOOSE f \in H : \A g \in H : f.seq <= g.seq
  <2>4. low \in H /\ \A g \in H : low.seq <= g.seq
    BY <2>3, Lowest
  <2>5. Pruned(H) = H \ {low}
    BY <1>2 DEF Pruned
  <2> HIDE DEF low
  <2>6. IsFiniteSet(H \ {low}) /\ Cardinality(H \ {low}) = WitnessRing
    <3>1. /\ IsFiniteSet(H \ {low})
          /\ Cardinality(H \ {low}) = IF low \in H THEN Cardinality(H) - 1 ELSE Cardinality(H)
      BY FS_RemoveElement
    <3>2. Cardinality(H \ {low}) = Cardinality(H) - 1
      BY <2>4, <3>1
    <3> QED BY <2>1, <2>2, <3>1, <3>2
  <2>7. \A g \in H \ {low} : g.seq > low.seq
    <3> SUFFICES ASSUME NEW g \in H, g # low PROVE g.seq > low.seq
      OBVIOUS
    <3>1. g.seq \in Nat /\ low.seq \in Nat /\ low.seq <= g.seq
      BY <2>4 DEF Envelope
    <3> QED BY <2>4, <3>1
  <2>8. H \ Pruned(H) = {low}
    BY <2>4, <2>5
  <2>9. /\ Pruned(H) \subseteq H /\ IsFiniteSet(Pruned(H))
        /\ Cardinality(Pruned(H)) = WitnessRing
        /\ \A g \in Pruned(H) : g.seq > low.seq
    BY <2>5, <2>6, <2>7
  <2>10. Cardinality(Pruned(H)) <= WitnessRing
    BY <2>1, <2>9
  <2> QED BY <2>8, <2>9, <2>10
<1> QED BY <1>1, <1>2

\* verifyEnvelope keeps the ring, whatever envelope comes.
LEMMA VerifiedKeepsRing ==
    ASSUME NEW c \in [held : SUBSET Envelope, contested : BOOLEAN],
           NEW S \in SUBSET Envelope, NEW f \in Envelope, Ring(c, S)
    PROVE  Ring(Verified(c, f), S \cup {f})
<1> DEFINE known == {g \in c.held : g.seq = f.seq}
           d == Verified(c, f)
<1>1. CASE known = {}
  <2> DEFINE H == c.held \cup {f}
  <2>1. d = [c EXCEPT !.held = Pruned(H)]
    BY <1>1 DEF Verified
  <2>2. d.held = Pruned(H) /\ d.contested = c.contested
    BY <2>1
  <2>3. f \notin c.held
    BY <1>1
  <2>4. H \in SUBSET Envelope /\ IsFiniteSet(H) /\ Cardinality(H) <= WitnessRing + 1
    <3>1. Cardinality(c.held) \in Nat /\ WitnessRing \in Nat
      BY FS_CardinalityType, TabsAssumption DEF Ring
    <3> QED BY <2>3, <3>1, FS_AddElement DEF Ring
  <2>5. \A g, h \in H : g.seq = h.seq => g = h
    BY <1>1 DEF Ring
  <2>6. /\ Pruned(H) \subseteq H /\ IsFiniteSet(Pruned(H))
        /\ Cardinality(Pruned(H)) <= WitnessRing
        /\ \A x \in H \ Pruned(H) : /\ Cardinality(Pruned(H)) = WitnessRing
                                    /\ \A g \in Pruned(H) : g.seq > x.seq
    BY <2>4, <2>5, PrunedKeepsHighest
  <2>7. d.held \subseteq S \cup {f}
    BY <2>2, <2>6 DEF Ring
  <2>8. \A x \in S \cup {f} :
           \/ \E g \in d.held : g.seq = x.seq
           \/ Cardinality(d.held) = WitnessRing /\ \A g \in d.held : g.seq > x.seq
    <3> SUFFICES ASSUME NEW x \in S \cup {f}, ~ \E g \in d.held : g.seq = x.seq
                 PROVE  Cardinality(d.held) = WitnessRing /\ \A g \in d.held : g.seq > x.seq
      OBVIOUS
    <3>1. CASE \E g \in H : g.seq = x.seq
      <4>1. PICK g \in H : g.seq = x.seq
        BY <3>1
      <4>2. g \in H \ Pruned(H)
        BY <2>2, <4>1
      <4> QED BY <2>2, <2>6, <4>1, <4>2
    <3>2. CASE ~ \E g \in H : g.seq = x.seq
      <4>1. x \in S /\ ~ \E g \in c.held : g.seq = x.seq
        BY <3>2
      <4>2. Cardinality(c.held) = WitnessRing /\ \A g \in c.held : g.seq > x.seq
        BY <4>1 DEF Ring
      <4>3. Cardinality(H) = WitnessRing + 1
        BY <2>3, <4>2, FS_AddElement, TabsAssumption DEF Ring
      <4>4. ~(Cardinality(H) <= WitnessRing)
        BY <4>3, TabsAssumption
      <4>5. Pruned(H) # H
        BY <2>6, <4>4
      <4>6. PICK y \in H : y \in H \ Pruned(H)
        BY <2>6, <4>5
      <4>7. Cardinality(Pruned(H)) = WitnessRing /\ \A g \in Pruned(H) : g.seq > y.seq
        BY <2>6, <4>6
      <4>8. \A g \in Pruned(H) : g.seq > x.seq
        <5> SUFFICES ASSUME NEW g \in Pruned(H), g = f PROVE f.seq > x.seq
          BY <2>6, <4>2
        <5>1. y \in c.held
          BY <4>6
        <5>2. f.seq > y.seq /\ y.seq > x.seq
          BY <4>2, <4>7, <5>1
        <5> QED BY <5>1, <5>2 DEF Envelope
      <4> QED BY <2>2, <4>7, <4>8
    <3> QED BY <3>1, <3>2
  <2>9. \A x \in S \cup {f}, g \in d.held : x.seq = g.seq /\ x # g => d.contested
    <3> SUFFICES ASSUME NEW x \in S \cup {f}, NEW g \in d.held, x.seq = g.seq, x # g
                 PROVE  d.contested
      OBVIOUS
    <3>1. CASE x = f
      BY <1>1, <2>2, <2>6, <3>1
    <3>2. CASE x # f /\ g # f
      BY <2>2, <2>6, <3>2 DEF Ring
    <3>3. CASE x # f /\ g = f
      <4>1. x \in S /\ ~ \E h \in c.held : h.seq = x.seq
        BY <1>1, <3>3
      <4>2. Cardinality(c.held) = WitnessRing /\ \A h \in c.held : h.seq > f.seq
        BY <3>3, <4>1 DEF Ring
      <4>3. Cardinality(H) = WitnessRing + 1
        BY <2>3, <4>2, FS_AddElement, TabsAssumption DEF Ring
      <4>8. ~(Cardinality(H) <= WitnessRing)
        BY <4>3, TabsAssumption
      <4>4. PICK y \in H : y \in H \ Pruned(H)
        BY <2>6, <4>8
      <4>5. f \in Pruned(H)
        BY <2>2, <3>3
      <4>6. f.seq > y.seq /\ y \in c.held
        BY <2>6, <4>4, <4>5
      <4>7. y.seq > f.seq
        BY <4>2, <4>6
      <4> QED BY <4>6, <4>7 DEF Envelope
    <3> QED BY <3>1, <3>2, <3>3
  <2> HIDE DEF H
  <2>10. \A g, h \in d.held : g.seq = h.seq => g = h
    BY <2>2, <2>5, <2>6
  <2> QED BY <2>2, <2>6, <2>7, <2>8, <2>9, <2>10 DEF Ring
<1>2. CASE known # {} /\ f \in known
  <2>1. d = c /\ S \cup {f} = S
    BY <1>2 DEF Verified, Ring
  <2> QED BY <2>1
<1>3. CASE known # {} /\ f \notin known
  <2>1. d.held = c.held /\ d.contested
    BY <1>3 DEF Verified
  <2>2. PICK k \in c.held : k.seq = f.seq
    BY <1>3
  <2> QED BY <2>1, <2>2 DEF Ring
<1> QED BY <1>1, <1>2, <1>3

Rings == \A r \in Rooms : Ring(chain[r], heard[r])

\* Every step leaves every listener with its ring.
LEMMA RingsKept == Spec => []Rings
<1>1. Init => Rings
  <2> SUFFICES ASSUME Init, NEW r \in Rooms PROVE Ring(chain[r], heard[r])
    BY DEF Rings
  <2>1. chain[r].held = {} /\ heard[r] = {}
    BY DEF Init
  <2> QED BY <2>1, FS_EmptySet, TabsAssumption DEF Ring
<1>2. TypeOK /\ Rings /\ [Next]_vars => Rings'
  <2> SUFFICES ASSUME TypeOK, Rings, [Next]_vars PROVE Rings'
    OBVIOUS
  <2>1. ASSUME NEW r \in Rooms, Take(r) PROVE Rings'
    <3>1. PICK f \in wire[r] : /\ heard' = [heard EXCEPT ![r] = @ \cup {f}]
                               /\ chain' = [chain EXCEPT ![r] = Verified(@, f)]
      BY <2>1 DEF Take
    <3>2. /\ f \in Envelope /\ heard[r] \in SUBSET Envelope
          /\ chain[r] \in [held : SUBSET Envelope, contested : BOOLEAN]
      BY <3>1 DEF TypeOK
    <3>3. Ring(Verified(chain[r], f), heard[r] \cup {f})
      BY <3>2, VerifiedKeepsRing DEF Rings
    <3>4. chain'[r] = Verified(chain[r], f) /\ heard'[r] = heard[r] \cup {f}
      BY <3>1 DEF TypeOK
    <3>5. \A t \in Rooms \ {r} : chain'[t] = chain[t] /\ heard'[t] = heard[t]
      BY <3>1 DEF TypeOK
    <3> QED BY <3>3, <3>4, <3>5 DEF Rings
  <2>2. CASE UNCHANGED <<chain, heard>>
    BY <2>2 DEF Rings
  <2>3. (\E r \in Rooms : Take(r)) \/ UNCHANGED <<chain, heard>>
    BY DEF Next, vars, roomVars, SwitchToRoom, OpenRoomTab, CloseRoomTab, Connect, Connected,
           PeerReady, Share, Command, Signed, Finish, SigningFails, Hear, Reload, OpenTab,
           OtherHears, OtherSigns
  <2> QED BY <2>1, <2>2, <2>3
<1> QED BY <1>1, <1>2, RoomTabsTypes, PTL DEF Spec

\* Two envelopes under one number contest the chain of whoever hears both, unless they are
\* below a full ring, however many envelopes, rooms, tabs and reloads there are.
THEOREM ForksAreSeen == Spec => []ForkIsSeen
<1>1. TypeOK /\ Rings => ForkIsSeen
  <2> SUFFICES ASSUME TypeOK, Rings, NEW r \in Rooms, NEW f \in heard[r], NEW g \in heard[r],
                      f.seq = g.seq, f # g, ~chain[r].contested
               PROVE  Cardinality({h \in chain[r].held : h.seq > f.seq}) = WitnessRing
    BY DEF ForkIsSeen
  <2>1. Ring(chain[r], heard[r])
    BY DEF Rings
  <2>2. ~ \E h \in chain[r].held : h.seq = f.seq
    BY <2>1 DEF Ring
  <2>3. /\ Cardinality(chain[r].held) = WitnessRing
        /\ \A h \in chain[r].held : h.seq > f.seq
    BY <2>1, <2>2 DEF Ring
  <2>4. {h \in chain[r].held : h.seq > f.seq} = chain[r].held
    BY <2>3
  <2> QED BY <2>3, <2>4
<1> QED BY <1>1, RingsKept, RoomTabsTypes, PTL

-----------------------------------------------------------------------------
(* The page's numbers *)

\* What the page has sent in a room, but for what it signed for a room whose number another
\* tab had set back when the page was reloaded.
Own(t) == {f \in wire[t] : f.by = "page" /\ f.room \notin setBack}

\* In the rooms whose number was never set back: no number sent is above what the page has
\* saved, nor what it has saved above its memory; the number being signed is higher than any
\* sent; and the envelopes a room has seen have numbers of their own.
Numbered ==
    /\ \A r \in Rooms \ setBack : saved[r] <= mem[r]
    /\ \A t \in Rooms : \A f \in Own(t) : f.seq <= saved[f.room]
    /\ signing # None =>
           /\ signing.by = "page"
           /\ signing.room \notin setBack =>
                  /\ signing.seq <= mem[signing.room]
                  /\ \A t \in Rooms : \A f \in Own(t) :
                         f.room = signing.room => f.seq < signing.seq
    /\ \A t \in Rooms : \A f, g \in Own(t) : f.room = g.room /\ f.seq = g.seq => f = g

\* The closure that runs next takes a number above all that memory knows.
LEMMA RunNumbers ==
    ASSUME TypeOK, NEW closures \in Seq(Rooms), Run(closures)
    PROVE  /\ \A r \in Rooms : mem[r] <= mem'[r] /\ mem'[r] \in Nat
           /\ signing' # None => /\ signing'.by = "page" /\ signing'.room \in Rooms
                                 /\ signing'.seq = mem'[signing'.room]
                                 /\ mem[signing'.room] < signing'.seq
<1>1. CASE closures = <<>> \/ Peer = None
  <2>1. mem' = mem /\ signing' = None
    BY <1>1 DEF Run
  <2> QED BY <2>1 DEF TypeOK
<1>2. CASE ~(closures = <<>> \/ Peer = None)
  <2>1. tabs.shown \in Rooms /\ mem \in [Rooms -> Nat]
    BY DEF TypeOK
  <2>2. /\ signing'.room = tabs.shown /\ signing'.seq = mem[tabs.shown] + 1
        /\ signing'.by = "page"
        /\ mem' = [mem EXCEPT ![tabs.shown] = @ + 1]
    BY <1>2 DEF Run
  <2> QED BY <2>1, <2>2
<1> QED BY <1>1, <1>2

\* What was saved and sent stays below the number taken next.
LEMMA RunNumbered ==
    ASSUME TypeOK, NEW closures \in Seq(Rooms), Run(closures),
           wire' \in [Rooms -> SUBSET Envelope], saved' \in [Rooms -> Nat], setBack' = setBack,
           \A r \in Rooms \ setBack : saved'[r] <= mem[r],
           \A t \in Rooms : \A f \in Own(t)' : f.seq <= saved'[f.room],
           \A t \in Rooms : \A f, g \in Own(t)' : f.room = g.room /\ f.seq = g.seq => f = g
    PROVE  Numbered'
<1>1. /\ \A r \in Rooms : mem[r] <= mem'[r] /\ mem'[r] \in Nat
      /\ signing' # None => /\ signing'.by = "page" /\ signing'.room \in Rooms
                            /\ signing'.seq = mem'[signing'.room]
                            /\ mem[signing'.room] < signing'.seq
  BY RunNumbers
<1>2. \A r \in Rooms : mem[r] \in Nat
  BY DEF TypeOK
<1>3. \A r \in Rooms \ setBack' : saved'[r] <= mem'[r]
  <2> SUFFICES ASSUME NEW r \in Rooms \ setBack PROVE saved'[r] <= mem'[r]
    OBVIOUS
  <2>1. saved'[r] <= mem[r] /\ mem[r] <= mem'[r]
    BY <1>1
  <2>2. saved'[r] \in Nat /\ mem[r] \in Nat /\ mem'[r] \in Nat
    BY <1>1, <1>2
  <2> QED BY <2>1, <2>2
<1>4. ASSUME signing' # None, signing'.room \notin setBack',
             NEW t \in Rooms, NEW f \in Own(t)', f.room = signing'.room
      PROVE  f.seq < signing'.seq
  <2>1. f \in wire'[t]
    BY <1>4 DEF Own
  <2>2. f.seq \in Nat /\ f.room \in Rooms
    BY <2>1 DEF Envelope
  <2>3. f.seq <= saved'[f.room] /\ saved'[f.room] <= mem[f.room]
    BY <1>4, <2>2
  <2>4. mem[f.room] < signing'.seq /\ signing'.seq \in Nat
    BY <1>1, <1>4
  <2>5. saved'[f.room] \in Nat /\ mem[f.room] \in Nat
    BY <1>2, <2>2
  <2> QED BY <2>2, <2>3, <2>4, <2>5
<1>5. signing' # None => signing'.seq <= mem'[signing'.room]
  BY <1>1
<1> QED BY <1>1, <1>3, <1>4, <1>5 DEF Numbered

LEMMA NumbersKept == Spec => []Numbered
<1>1. Init => Numbered
  BY DEF Init, Numbered, Own
<1>2. TypeOK /\ TypeOK' /\ Numbered /\ [Next]_vars => Numbered'
  <2> SUFFICES ASSUME TypeOK, TypeOK', Numbered, [Next]_vars PROVE Numbered'
    OBVIOUS
  <2>1. /\ mem \in [Rooms -> Nat] /\ saved \in [Rooms -> Nat] /\ queue \in Seq(Rooms)
        /\ wire \in [Rooms -> SUBSET Envelope] /\ wire' \in [Rooms -> SUBSET Envelope]
        /\ saved' \in [Rooms -> Nat]
        /\ signing # None => signing \in Envelope
    BY DEF TypeOK
  <2>2. CASE UNCHANGED <<wire, signing, mem, saved, setBack>>
    <3>1. \A t \in Rooms : Own(t)' = Own(t)
      BY <2>2 DEF Own
    <3> QED BY <2>2, <3>1 DEF Numbered
  <2>3. ASSUME NEW closures \in Seq(Rooms), Run(closures), UNCHANGED <<wire, saved, setBack>>
        PROVE  Numbered'
    <3>1. \A t \in Rooms : Own(t)' = Own(t)
      BY <2>3 DEF Own
    <3>2. /\ \A r \in Rooms \ setBack : saved'[r] <= mem[r]
          /\ \A t \in Rooms : \A f \in Own(t)' : f.seq <= saved'[f.room]
          /\ \A t \in Rooms : \A f, g \in Own(t)' : f.room = g.room /\ f.seq = g.seq => f = g
      BY <2>3, <3>1 DEF Numbered
    <3> QED BY <2>1, <2>3, <3>2, RunNumbered
  <2>4. ASSUME NEW r \in Rooms, Signed(r) PROVE Numbered'
    <3>1. CASE signing = None
      <4>1. <<r>> \in Seq(Rooms)
        OBVIOUS
      <4> QED BY <2>3, <2>4, <3>1, <4>1 DEF Signed, roomVars
    <3>2. CASE signing # None
      BY <2>2, <2>4, <3>2 DEF Signed, roomVars
    <3> QED BY <3>1, <3>2
  <2>5. CASE Finish
    <3>1. /\ signing \in Envelope /\ signing # None /\ saved' = mem /\ setBack' = setBack
          /\ Run(queue)
      BY <2>1, <2>5 DEF Finish
    <3>2. \A t \in Rooms : \A f \in Own(t)' : f \in Own(t) \/ (f = signing /\ f.room \notin setBack)
      BY <2>5, <3>1 DEF Finish, Peer, TypeOK, Own
    <3>3. ASSUME NEW t \in Rooms, NEW f \in Own(t)' PROVE f.seq <= mem[f.room]
      <4>1. CASE f = signing /\ f.room \notin setBack
        BY <3>1, <4>1 DEF Numbered
      <4>2. CASE f \in Own(t)
        <5>1. f \in Envelope /\ f.room \notin setBack
          BY <2>1, <4>2 DEF Own
        <5>2. f.seq \in Nat /\ f.room \in Rooms
          BY <5>1 DEF Envelope
        <5>3. f.seq <= saved[f.room] /\ saved[f.room] <= mem[f.room]
          BY <4>2, <5>1, <5>2 DEF Numbered
        <5>4. saved[f.room] \in Nat /\ mem[f.room] \in Nat
          BY <2>1, <5>2
        <5> QED BY <5>2, <5>3, <5>4
      <4> QED BY <3>2, <4>1, <4>2
    <3>4. ASSUME NEW t \in Rooms, NEW f \in Own(t)', NEW g \in Own(t)',
                 f.room = g.room, f.seq = g.seq
          PROVE  f = g
      <4>1. ASSUME NEW h \in Own(t), h.room = signing.room, signing.room \notin setBack
            PROVE  h.seq < signing.seq /\ h.seq \in Nat /\ signing.seq \in Nat
        <5>1. h \in Envelope
          BY <2>1 DEF Own
        <5> QED BY <3>1, <4>1, <5>1 DEF Numbered, Envelope
      <4>2. CASE f \in Own(t) /\ g \in Own(t)
        BY <3>4, <4>2 DEF Numbered
      <4>3. CASE f \in Own(t) /\ g = signing /\ g.room \notin setBack
        BY <3>4, <4>1, <4>3
      <4>4. CASE f = signing /\ f.room \notin setBack /\ g \in Own(t)
        BY <3>4, <4>1, <4>4
      <4> QED BY <3>2, <4>2, <4>3, <4>4
    <3>5. \A r \in Rooms \ setBack : saved'[r] <= mem[r]
      BY <2>1, <3>1
    <3> QED BY <2>1, <3>1, <3>3, <3>4, <3>5, RunNumbered
  <2>6. CASE SigningFails
    BY <2>1, <2>3, <2>6 DEF SigningFails, roomVars
  <2>7. CASE Hear
    <3>1. saved' = mem /\ UNCHANGED <<wire, signing, mem, setBack>>
      BY <2>7 DEF Hear, pageVars, roomVars
    <3>2. \A t \in Rooms : Own(t)' = Own(t)
      BY <3>1 DEF Own
    <3>3. \A t \in Rooms : \A f \in Own(t) : f.seq <= mem[f.room]
      <4> SUFFICES ASSUME NEW t \in Rooms, NEW f \in Own(t) PROVE f.seq <= mem[f.room]
        OBVIOUS
      <4>1. f \in Envelope /\ f.room \notin setBack
        BY <2>1 DEF Own
      <4>2. f.seq \in Nat /\ f.room \in Rooms
        BY <4>1 DEF Envelope
      <4>3. f.seq <= saved[f.room] /\ saved[f.room] <= mem[f.room]
        BY <4>1, <4>2 DEF Numbered
      <4> QED BY <2>1, <4>2, <4>3
    <3>4. \A r \in Rooms : mem[r] <= mem[r]
      BY <2>1
    <3> QED BY <3>1, <3>2, <3>3, <3>4 DEF Numbered
  <2>8. CASE Reload
    <3>1. /\ mem' = disk /\ UNCHANGED <<saved, wire>> /\ signing' = None
          /\ setBack' = setBack \cup {r \in Rooms : disk[r] < saved[r]}
      BY <2>8 DEF Reload, roomVars
    <3>2. \A t \in Rooms : Own(t)' \subseteq Own(t)
      BY <3>1 DEF Own
    <3>3. \A r \in Rooms \ setBack' : saved'[r] <= mem'[r]
      <4> SUFFICES ASSUME NEW r \in Rooms, ~(disk[r] < saved[r]) PROVE saved[r] <= disk[r]
        BY <3>1
      <4>1. disk[r] \in Nat /\ saved[r] \in Nat
        BY DEF TypeOK
      <4> QED BY <4>1
    <3>4. /\ \A t \in Rooms : \A f \in Own(t)' : f.seq <= saved'[f.room]
          /\ \A t \in Rooms : \A f, g \in Own(t)' : f.room = g.room /\ f.seq = g.seq => f = g
      BY <3>1, <3>2 DEF Numbered
    <3> QED BY <3>1, <3>3, <3>4 DEF Numbered
  <2>9. ASSUME NEW r \in Rooms, OtherSigns(r) PROVE Numbered'
    <3>1. /\ UNCHANGED <<signing, mem, saved, setBack>>
          /\ \A t \in Rooms : \A f \in wire'[t] : f \in wire[t] \/ f.by = "copy"
      BY <2>9 DEF OtherSigns, pageVars, TypeOK
    <3>2. \A t \in Rooms : Own(t)' \subseteq Own(t)
      BY <3>1 DEF Own
    <3>3. /\ \A t \in Rooms : \A f \in Own(t)' : f.seq <= saved'[f.room]
          /\ \A t \in Rooms : \A f, g \in Own(t)' : f.room = g.room /\ f.seq = g.seq => f = g
      BY <3>1, <3>2 DEF Numbered
    <3>4. signing # None => /\ signing.by = "page"
                            /\ signing.room \notin setBack =>
                                  /\ signing.seq <= mem[signing.room]
                                  /\ \A t \in Rooms : \A f \in Own(t)' :
                                         f.room = signing.room => f.seq < signing.seq
      BY <3>2 DEF Numbered
    <3>5. \A t \in Rooms \ setBack : saved[t] <= mem[t]
      BY DEF Numbered
    <3> QED BY <3>1, <3>3, <3>4, <3>5 DEF Numbered
  <2>10. CASE (\E r \in Rooms : \/ SwitchToRoom(r) \/ OpenRoomTab(r) \/ CloseRoomTab(r)
                                \/ Take(r))
              \/ Connect \/ Connected \/ OpenTab \/ OtherHears \/ UNCHANGED vars
    BY <2>2, <2>10 DEF SwitchToRoom, OpenRoomTab, CloseRoomTab, Take, Connect, Connected, vars,
       OpenTab, OtherHears, pageVars, storeVars, roomVars
  <2> QED BY <2>4, <2>5, <2>6, <2>7, <2>8, <2>9, <2>10
          DEF Next, PeerReady, Share, Command, TypeOK
<1> QED BY <1>1, <1>2, RoomTabsTypes, PTL DEF Spec

\* A listener has heard only what was sent, and keeps only what it has heard.
LEMMA HeardWasSent == Spec => [](\A r \in Rooms : heard[r] \subseteq wire[r])
<1> DEFINE Sent == \A r \in Rooms : heard[r] \subseteq wire[r]
<1>1. Init => Sent
  BY DEF Init
<1>2. TypeOK /\ Sent /\ [Next]_vars => Sent'
  <2> SUFFICES ASSUME TypeOK, Sent, [Next]_vars PROVE Sent'
    OBVIOUS
  <2>1. CASE UNCHANGED <<heard, wire>>
    BY <2>1
  <2>2. CASE Finish
    BY <2>2 DEF Finish, TypeOK, Peer
  <2>3. ASSUME NEW r \in Rooms, OtherSigns(r) PROVE Sent'
    BY <2>3 DEF OtherSigns, TypeOK
  <2>4. ASSUME NEW r \in Rooms, Take(r) PROVE Sent'
    BY <2>4 DEF Take, TypeOK
  <2>5. \/ UNCHANGED <<heard, wire>> \/ Finish
        \/ \E r \in Rooms : OtherSigns(r) \/ Take(r)
    BY DEF Next, vars, roomVars, SwitchToRoom, OpenRoomTab, CloseRoomTab, Connect, Connected,
           PeerReady, Share, Command, Signed, SigningFails, Hear, Reload, OpenTab,
           OtherHears
  <2> QED BY <2>1, <2>2, <2>3, <2>4, <2>5
<1> QED BY <1>1, <1>2, RoomTabsTypes, PTL DEF Spec

\* The page is contested in a room only if a duplicate has signed there, if something it
\* signed for another room was put there, or if it was reloaded from a number another tab had
\* set back: whatever is lost, whatever signature or save fails, and however often it is
\* reloaded, hears of others or has its tabs moved.
THEOREM PageIsTrusted == Spec => []HonestIsTrusted
<1>1. Init => HonestIsTrusted
  BY DEF Init, HonestIsTrusted
<1> DEFINE Sent == \A r \in Rooms : heard[r] \subseteq wire[r]
<1>2. /\ TypeOK /\ TypeOK' /\ Numbered /\ Rings /\ Sent /\ HonestIsTrusted /\ [Next]_vars
      => HonestIsTrusted'
  <2> SUFFICES ASSUME TypeOK, TypeOK', Numbered, Rings, Sent, HonestIsTrusted, [Next]_vars
               PROVE  HonestIsTrusted'
    OBVIOUS
  <2>1. setBack \subseteq setBack'
    BY DEF Next, vars, storeVars, SwitchToRoom, OpenRoomTab, CloseRoomTab, Connect,
       Connected, PeerReady, Share, Command, Signed, Finish, SigningFails, Hear, Reload,
       OpenTab, OtherHears, OtherSigns, Take
  <2>2. \A r \in Rooms : wire[r] \subseteq wire'[r]
    <3>1. CASE Finish
      BY <3>1 DEF Finish, TypeOK, Peer
    <3>2. ASSUME NEW r \in Rooms, OtherSigns(r) PROVE \A t \in Rooms : wire[t] \subseteq wire'[t]
      BY <3>2 DEF OtherSigns, TypeOK
    <3>3. Finish \/ (\E r \in Rooms : OtherSigns(r)) \/ wire' = wire
      BY DEF Next, vars, roomVars, SwitchToRoom, OpenRoomTab, CloseRoomTab, Connect, Connected,
         PeerReady, Share, Command, Signed, SigningFails, Hear, Reload, OpenTab,
         OtherHears, Take
    <3> QED BY <3>1, <3>2, <3>3
  <2>3. CASE chain' = chain
    BY <2>1, <2>2, <2>3 DEF HonestIsTrusted
  <2>4. ASSUME NEW r \in Rooms, Take(r) PROVE HonestIsTrusted'
    <3> SUFFICES ASSUME NEW t \in Rooms, chain'[t].contested, ~chain[t].contested,
                        t \notin setBack, \A f \in wire[t] : f.by = "page" /\ f.room = t
                 PROVE  FALSE
      <4>1. ASSUME NEW x \in Rooms, NEW f \in wire[x], f.by # "copy" PROVE f.by = "page"
        <5>1. f \in Envelope
          BY DEF TypeOK
        <5> QED BY <4>1, <5>1 DEF Envelope
      <4> QED BY <2>1, <2>2, <4>1 DEF HonestIsTrusted
    <3>1. PICK f \in wire[r] : chain' = [chain EXCEPT ![r] = Verified(@, f)]
      BY <2>4 DEF Take
    <3>2. t = r /\ chain'[t] = Verified(chain[t], f)
      BY <3>1 DEF TypeOK
    <3>3. chain[t] \in [held : SUBSET Envelope, contested : BOOLEAN]
      BY DEF TypeOK
    <3>4. PICK g \in chain[t].held : g.seq = f.seq /\ g # f
      BY <3>2, <3>3 DEF Verified
    <3>5. g \in wire[t] /\ f \in wire[t]
      BY <3>1, <3>2, <3>4 DEF Rings, Ring
    <3>6. g \in Own(t) /\ f \in Own(t) /\ f.room = g.room
      BY <3>5 DEF Own
    <3> QED BY <3>4, <3>6 DEF Numbered
  <2>5. (\E r \in Rooms : Take(r)) \/ chain' = chain
    BY DEF Next, vars, roomVars, SwitchToRoom, OpenRoomTab, CloseRoomTab, Connect, Connected,
       PeerReady, Share, Command, Signed, Finish, SigningFails, Hear, Reload, OpenTab,
       OtherHears, OtherSigns
  <2> QED BY <2>3, <2>4, <2>5
<1> QED BY <1>1, <1>2, RoomTabsTypes, NumbersKept, RingsKept, HeardWasSent, PTL DEF Spec

===============================================================================
