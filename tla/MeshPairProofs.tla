---------------------------- MODULE MeshPairProofs ----------------------------
(* Proofs about MeshPair: its types, and that nothing but a fault tears down a  *)
(* link that works, however many dials, rosters, calls and late frames.         *)
EXTENDS MeshPair, SequenceTheorems, TLAPS

\* What the bounds are.
ConstantsOK == MaxPcs \in Nat /\ MaxRosters \in Nat /\ MaxMedia \in Nat /\ MaxFaults \in Nat

-----------------------------------------------------------------------------
(* Frames on a wire *)

IsOffer(m) == m.type = "offer"
IsAnswer(m) == m.type = "answer"

\* Of connection u: every frame, none, those behind its first; no offer, no answer, at most
\* one frame, at most one answer, no offer behind an answer.
AllOf(w, u) == \A i \in 1..Len(w) : w[i].ufrag = u
NoneOf(w, u) == \A i \in 1..Len(w) : w[i].ufrag # u
LastOf(w, u) == \A i, j \in 1..Len(w) : i < j /\ w[i].ufrag = u => w[j].ufrag = u
NoOfferOf(w, u) == \A i \in 1..Len(w) : IsOffer(w[i]) => w[i].ufrag # u
NoAnswerOf(w, u) == \A i \in 1..Len(w) : IsAnswer(w[i]) => w[i].ufrag # u
OneOf(w, u) == \A i, j \in 1..Len(w) : w[i].ufrag = u /\ w[j].ufrag = u => i = j
OneAnswerOf(w, u) ==
    \A i, j \in 1..Len(w) :
        (IsAnswer(w[i]) /\ w[i].ufrag = u) /\ (IsAnswer(w[j]) /\ w[j].ufrag = u) => i = j
NoOfferBehind(w, u) ==
    \A i, j \in 1..Len(w) :
        i < j /\ (IsAnswer(w[i]) /\ w[i].ufrag = u) /\ IsOffer(w[j]) => w[j].ufrag # u

\* Of any connection; FirstOffers: an offer is the first frame of its connection.
NoOffers(w) == \A i \in 1..Len(w) : ~IsOffer(w[i])
NoAnswers(w) == \A i \in 1..Len(w) : ~IsAnswer(w[i])
OneOffer(w) == \A i, j \in 1..Len(w) : IsOffer(w[i]) /\ IsOffer(w[j]) => i = j
OneAnswer(w) == \A i, j \in 1..Len(w) : IsAnswer(w[i]) /\ IsAnswer(w[j]) => i = j
FirstOffers(w) ==
    \A i, j \in 1..Len(w) : i < j /\ IsOffer(w[j]) => w[i].ufrag # w[j].ufrag

\* What t has that lacks the first frame of w, and what is known of that frame.
KeepsOf(w, t, u) ==
    /\ AllOf(w, u) => AllOf(t, u)
    /\ NoneOf(w, u) => NoneOf(t, u)
    /\ LastOf(w, u) => LastOf(t, u)
    /\ NoOfferOf(w, u) => NoOfferOf(t, u)
    /\ NoAnswerOf(w, u) => NoAnswerOf(t, u)
    /\ OneOf(w, u) => OneOf(t, u)
    /\ OneAnswerOf(w, u) => OneAnswerOf(t, u)
    /\ NoOfferBehind(w, u) => NoOfferBehind(t, u)
Keeps(w, t) ==
    /\ \A u : KeepsOf(w, t, u)
    /\ NoOffers(w) => NoOffers(t)
    /\ NoAnswers(w) => NoAnswers(t)
    /\ OneOffer(w) => OneOffer(t)
    /\ OneAnswer(w) => OneAnswer(t)
    /\ FirstOffers(w) => FirstOffers(t)
HeadOf(w, t, m, u) ==
    /\ AllOf(w, u) => m.ufrag = u
    /\ NoneOf(w, u) => m.ufrag # u
    /\ LastOf(w, u) /\ m.ufrag = u => AllOf(t, u)
    /\ NoOfferOf(w, u) /\ IsOffer(m) => m.ufrag # u
    /\ NoAnswerOf(w, u) /\ IsAnswer(m) => m.ufrag # u
    /\ OneOf(w, u) /\ m.ufrag = u => NoneOf(t, u)
    /\ OneAnswerOf(w, u) /\ m.ufrag = u /\ IsAnswer(m) => NoAnswerOf(t, u)
    /\ NoOfferBehind(w, u) /\ m.ufrag = u /\ IsAnswer(m) => NoOfferOf(t, u)
Took(w, t, m) ==
    /\ \A u : HeadOf(w, t, m, u)
    /\ NoOffers(w) => ~IsOffer(m)
    /\ NoAnswers(w) => ~IsAnswer(m)
    /\ OneOffer(w) /\ IsOffer(m) => NoOffers(t)
    /\ OneAnswer(w) /\ IsAnswer(m) => NoAnswers(t)
    /\ FirstOffers(w) => NoOfferOf(t, m.ufrag)

LEMMA SameKeeps == \A w : Keeps(w, w)
BY DEF Keeps, KeepsOf

LEMMA TailReads ==
    ASSUME NEW w \in Seq(Signal), w # <<>>
    PROVE  /\ Tail(w) \in Seq(Signal) /\ Head(w) \in Signal
           /\ Len(w) \in Nat /\ Len(Tail(w)) = Len(w) - 1 /\ 1 \in 1..Len(w)
           /\ Head(w) = w[1]
           /\ \A i \in 1..Len(Tail(w)) : i + 1 \in 1..Len(w) /\ Tail(w)[i] = w[i + 1]
<1>1. Len(w) \in Nat /\ Len(w) # 0
  BY EmptySeq
<1>2. /\ Head(w) = w[1] /\ Head(w) \in Signal
      /\ Tail(w) \in Seq(Signal)
      /\ Len(Tail(w)) = Len(w) - 1
      /\ \A i \in 1..Len(Tail(w)) : Tail(w)[i] = w[i + 1]
  BY <1>1, HeadTailProperties
<1>3. QED
  BY <1>1, <1>2

LEMMA TailKeeps ==
    ASSUME NEW w \in Seq(Signal), w # <<>>
    PROVE  Keeps(w, Tail(w)) /\ Took(w, Tail(w), Head(w))
<1> DEFINE t == Tail(w)
           m == Head(w)
<1>1. /\ Len(w) \in Nat /\ Len(t) = Len(w) - 1 /\ 1 \in 1..Len(w)
      /\ m = w[1]
      /\ \A i \in 1..Len(t) : i + 1 \in 1..Len(w) /\ t[i] = w[i + 1]
  BY TailReads
<1> HIDE DEF t, m
<1>2. \A i \in 1..Len(t) : 1 < i + 1 /\ 1 # i + 1 /\ i \in Int
  BY <1>1
<1>3. \A i, j \in 1..Len(t) : (i < j => i + 1 < j + 1) /\ (i + 1 = j + 1 => i = j)
  BY <1>2
<1>4. ASSUME NEW u PROVE KeepsOf(w, t, u)
  <2>1. /\ AllOf(w, u) => AllOf(t, u)
        /\ NoneOf(w, u) => NoneOf(t, u)
        /\ NoOfferOf(w, u) => NoOfferOf(t, u)
        /\ NoAnswerOf(w, u) => NoAnswerOf(t, u)
    BY <1>1 DEF AllOf, NoneOf, NoOfferOf, NoAnswerOf
  <2>2. LastOf(w, u) => LastOf(t, u)
    BY <1>1, <1>3 DEF LastOf
  <2>3. OneOf(w, u) => OneOf(t, u)
    BY <1>1, <1>3 DEF OneOf
  <2>4. OneAnswerOf(w, u) => OneAnswerOf(t, u)
    BY <1>1, <1>3 DEF OneAnswerOf
  <2>5. NoOfferBehind(w, u) => NoOfferBehind(t, u)
    BY <1>1, <1>3 DEF NoOfferBehind
  <2>6. QED
    BY <2>1, <2>2, <2>3, <2>4, <2>5 DEF KeepsOf
<1>5. Keeps(w, t)
  <2>1. (NoOffers(w) => NoOffers(t)) /\ (NoAnswers(w) => NoAnswers(t))
    BY <1>1 DEF NoOffers, NoAnswers
  <2>2. (OneOffer(w) => OneOffer(t)) /\ (OneAnswer(w) => OneAnswer(t))
    BY <1>1, <1>3 DEF OneOffer, OneAnswer
  <2>3. FirstOffers(w) => FirstOffers(t)
    BY <1>1, <1>3 DEF FirstOffers
  <2>4. QED
    BY <1>4, <2>1, <2>2, <2>3 DEF Keeps
<1>6. ASSUME NEW u PROVE HeadOf(w, t, m, u)
  <2>1. /\ AllOf(w, u) => m.ufrag = u
        /\ NoneOf(w, u) => m.ufrag # u
        /\ NoOfferOf(w, u) /\ IsOffer(m) => m.ufrag # u
        /\ NoAnswerOf(w, u) /\ IsAnswer(m) => m.ufrag # u
    BY <1>1 DEF AllOf, NoneOf, NoOfferOf, NoAnswerOf
  <2>2. LastOf(w, u) /\ m.ufrag = u => AllOf(t, u)
    BY <1>1, <1>2 DEF LastOf, AllOf
  <2>3. OneOf(w, u) /\ m.ufrag = u => NoneOf(t, u)
    BY <1>1, <1>2 DEF OneOf, NoneOf
  <2>4. OneAnswerOf(w, u) /\ m.ufrag = u /\ IsAnswer(m) => NoAnswerOf(t, u)
    BY <1>1, <1>2 DEF OneAnswerOf, NoAnswerOf
  <2>5. NoOfferBehind(w, u) /\ m.ufrag = u /\ IsAnswer(m) => NoOfferOf(t, u)
    BY <1>1, <1>2 DEF NoOfferBehind, NoOfferOf
  <2>6. QED
    BY <2>1, <2>2, <2>3, <2>4, <2>5 DEF HeadOf
<1>7. Took(w, t, m)
  <2>1. (NoOffers(w) => ~IsOffer(m)) /\ (NoAnswers(w) => ~IsAnswer(m))
    BY <1>1 DEF NoOffers, NoAnswers
  <2>2. OneOffer(w) /\ IsOffer(m) => NoOffers(t)
    BY <1>1, <1>2 DEF OneOffer, NoOffers
  <2>3. OneAnswer(w) /\ IsAnswer(m) => NoAnswers(t)
    BY <1>1, <1>2 DEF OneAnswer, NoAnswers
  <2>4. FirstOffers(w) => NoOfferOf(t, m.ufrag)
    BY <1>1, <1>2 DEF FirstOffers, NoOfferOf
  <2>5. QED
    BY <1>6, <2>1, <2>2, <2>3, <2>4 DEF Took
<1>8. QED
  BY <1>5, <1>7 DEF t, m

\* What a frame k of connection u = k.ufrag does behind all others.
AddsOf(w, t, k, u) ==
    /\ AllOf(w, u) /\ k.ufrag = u => AllOf(t, u)
    /\ NoneOf(w, u) /\ k.ufrag # u => NoneOf(t, u)
    /\ LastOf(w, u) /\ k.ufrag = u => LastOf(t, u)
    /\ NoOfferOf(w, u) /\ (IsOffer(k) => k.ufrag # u) => NoOfferOf(t, u)
    /\ NoAnswerOf(w, u) /\ IsOffer(k) => NoAnswerOf(t, u)
    /\ NoneOf(w, u) => OneOf(t, u)
    /\ NoAnswerOf(w, u) => OneAnswerOf(t, u)
    /\ OneAnswerOf(w, u) /\ IsOffer(k) => OneAnswerOf(t, u)
    /\ NoOfferBehind(w, u) /\ (IsAnswer(k) \/ NoAnswerOf(w, u)) => NoOfferBehind(t, u)
Adds(w, t, k) ==
    /\ \A u : AddsOf(w, t, k, u)
    /\ NoOffers(w) /\ IsAnswer(k) => NoOffers(t)
    /\ NoAnswers(w) /\ IsOffer(k) => NoAnswers(t)
    /\ NoOffers(w) => OneOffer(t)
    /\ NoAnswers(w) => OneAnswer(t)
    /\ OneOffer(w) /\ IsAnswer(k) => OneOffer(t)
    /\ OneAnswer(w) /\ IsOffer(k) => OneAnswer(t)
    /\ FirstOffers(w) /\ (IsAnswer(k) \/ NoneOf(w, k.ufrag)) => FirstOffers(t)

LEMMA SentAdds ==
    ASSUME NEW w \in Seq(Signal), NEW k \in Signal
    PROVE  Append(w, k) \in Seq(Signal) /\ Adds(w, Append(w, k), k)
<1> DEFINE t == Append(w, k)
           n == Len(w)
<1>1. /\ n \in Nat /\ Len(t) = n + 1 /\ t \in Seq(Signal)
      /\ t[n + 1] = k
      /\ \A i \in 1..n : t[i] = w[i]
  BY AppendProperties
<1>2. \A i \in 1..Len(t) : (i \in 1..n /\ t[i] = w[i]) \/ (i = n + 1 /\ t[i] = k)
  BY <1>1
<1>3. \A i, j \in 1..Len(t) : i < j => i \in 1..n /\ t[i] = w[i]
  BY <1>1, <1>2
<1>4. (IsOffer(k) /\ ~IsAnswer(k)) \/ (IsAnswer(k) /\ ~IsOffer(k))
  BY DEF Signal, IsOffer, IsAnswer
<1> HIDE DEF t, n
<1>5. \A i \in 1..Len(w) : i \in 1..n
  BY DEF n
<1>6. 1..n = 1..Len(w)
  BY DEF n
<1>7. ASSUME NEW u PROVE AddsOf(w, t, k, u)
  <2>1. /\ AllOf(w, u) /\ k.ufrag = u => AllOf(t, u)
        /\ NoneOf(w, u) /\ k.ufrag # u => NoneOf(t, u)
        /\ NoOfferOf(w, u) /\ (IsOffer(k) => k.ufrag # u) => NoOfferOf(t, u)
        /\ NoAnswerOf(w, u) /\ IsOffer(k) => NoAnswerOf(t, u)
    BY <1>2, <1>4, <1>6 DEF AllOf, NoneOf, NoOfferOf, NoAnswerOf
  <2>2. LastOf(w, u) /\ k.ufrag = u => LastOf(t, u)
    BY <1>2, <1>3, <1>6 DEF LastOf
  <2>3. NoneOf(w, u) => OneOf(t, u)
    BY <1>2, <1>6 DEF NoneOf, OneOf
  <2>4. /\ NoAnswerOf(w, u) => OneAnswerOf(t, u)
        /\ OneAnswerOf(w, u) /\ IsOffer(k) => OneAnswerOf(t, u)
    BY <1>2, <1>4, <1>6 DEF NoAnswerOf, OneAnswerOf
  <2>5. NoOfferBehind(w, u) /\ (IsAnswer(k) \/ NoAnswerOf(w, u)) => NoOfferBehind(t, u)
    BY <1>2, <1>3, <1>4, <1>6 DEF NoAnswerOf, NoOfferBehind
  <2>6. QED
    BY <2>1, <2>2, <2>3, <2>4, <2>5 DEF AddsOf
<1>8. /\ NoOffers(w) /\ IsAnswer(k) => NoOffers(t)
      /\ NoAnswers(w) /\ IsOffer(k) => NoAnswers(t)
  BY <1>2, <1>4, <1>6 DEF NoOffers, NoAnswers
<1>9. (NoOffers(w) => OneOffer(t)) /\ (OneOffer(w) /\ IsAnswer(k) => OneOffer(t))
  BY <1>2, <1>4, <1>6 DEF NoOffers, OneOffer
<1>10. (NoAnswers(w) => OneAnswer(t)) /\ (OneAnswer(w) /\ IsOffer(k) => OneAnswer(t))
  BY <1>2, <1>4, <1>6 DEF NoAnswers, OneAnswer
<1>11. FirstOffers(w) /\ (IsAnswer(k) \/ NoneOf(w, k.ufrag)) => FirstOffers(t)
  BY <1>2, <1>3, <1>4, <1>6 DEF FirstOffers, NoneOf
<1>12. Adds(w, t, k)
  BY <1>7, <1>8, <1>9, <1>10, <1>11 DEF Adds
<1>13. QED
  BY <1>1, <1>12 DEF t

\* How the predicates follow from each other.
LinksOf(w, u) ==
    /\ NoneOf(w, u) => /\ LastOf(w, u) /\ NoOfferOf(w, u) /\ NoAnswerOf(w, u)
                       /\ OneOf(w, u) /\ OneAnswerOf(w, u) /\ NoOfferBehind(w, u)
    /\ NoAnswerOf(w, u) => OneAnswerOf(w, u)
    /\ AllOf(w, u) /\ NoOfferOf(w, u) => NoOffers(w)
    /\ AllOf(w, u) /\ NoAnswerOf(w, u) => NoAnswers(w)
FollowsIn(w) ==
    /\ \A u : LinksOf(w, u)
    /\ NoOffers(w) => OneOffer(w)
    /\ NoAnswers(w) => OneAnswer(w)

LEMMA FramesFollow == \A w : FollowsIn(w)
<1>1. ASSUME NEW w, NEW u PROVE LinksOf(w, u)
  <2>1. NoneOf(w, u) => LastOf(w, u) /\ NoOfferOf(w, u) /\ NoAnswerOf(w, u)
    BY DEF NoneOf, LastOf, NoOfferOf, NoAnswerOf
  <2>2. NoneOf(w, u) => OneOf(w, u) /\ OneAnswerOf(w, u) /\ NoOfferBehind(w, u)
    BY DEF NoneOf, OneOf, OneAnswerOf, NoOfferBehind
  <2>3. NoAnswerOf(w, u) => OneAnswerOf(w, u)
    BY DEF NoAnswerOf, OneAnswerOf
  <2>4. /\ AllOf(w, u) /\ NoOfferOf(w, u) => NoOffers(w)
        /\ AllOf(w, u) /\ NoAnswerOf(w, u) => NoAnswers(w)
    BY DEF AllOf, NoOfferOf, NoAnswerOf, NoOffers, NoAnswers
  <2>5. QED
    BY <2>1, <2>2, <2>3, <2>4 DEF LinksOf
<1>2. ASSUME NEW w PROVE (NoOffers(w) => OneOffer(w)) /\ (NoAnswers(w) => OneAnswer(w))
  BY DEF NoOffers, NoAnswers, OneOffer, OneAnswer
<1>3. QED
  BY <1>1, <1>2 DEF FollowsIn

\* Frames of nothing are not sent.
LEMMA NoFrameOfNothing ==
    ASSUME NEW w \in Seq(Signal) PROVE NoneOf(w, 0)
<1>1. \A i \in 1..Len(w) : w[i] \in Signal
  BY ElementOfSeq
<1>2. QED
  BY <1>1 DEF NoneOf, Signal, Ufrag

-----------------------------------------------------------------------------
(* The invariant, of an end with kind node or not, connection c, channel o, jobs D and     *)
(* frames sent w, and the far end with connection d, channel e and frames sent x           *)

Knows(d, u) == d # NoPc /\ d.remote = u
Making(c) == c # NoPc /\ c.state = "have-remote-offer"
Joined(c, d) ==
    /\ Knows(c, d.ufrag) /\ Knows(d, c.ufrag)
    /\ \/ c.role = "offered" /\ d.role = "answered"
       \/ c.role = "answered" /\ d.role = "offered"

\* What an end knows of its own connection; a second offer of one connection is made on an
\* open channel only, by no node.
RolesOK(node, c, o) ==
    /\ c # NoPc =>
          /\ c.role # "none" \/ c.state = "have-remote-offer" => c.remote # 0
          /\ c.role = "none" /\ c.state = "stable" => c.remote = 0
          /\ c.role # "none" /\ c.state = "have-local-offer" => o # 0 /\ ~node
    /\ o # 0 => c # NoPc /\ c.role # "none"
JobsOK(node, c, o, D) ==
    \A j \in D : j.job = "media" => ~node /\ (j.ufrag = c.ufrag => o # 0)

\* Frames of a connection are the last ones; once it is known they are the only ones.
OrderOK(c, w, d) ==
    /\ LastOf(w, c.ufrag)
    /\ c # NoPc /\ Knows(d, c.ufrag) => AllOf(w, c.ufrag)

\* A connection that settled nothing has sent one offer or nothing; who knows it took it.
DialOK(c, w, d) ==
    c # NoPc /\ c.role = "none" =>
        /\ NoAnswerOf(w, c.ufrag) /\ OneOf(w, c.ufrag)
        /\ c.state = "stable" => NoneOf(w, c.ufrag)
        /\ Knows(d, c.ufrag) => c.state # "stable" /\ d.role # "offered" /\ NoneOf(w, c.ufrag)

\* A node offers once per connection, before anything is known of it.
FirstOK(node, w, d) ==
    node => FirstOffers(w) /\ (d # NoPc => NoOfferOf(w, d.remote))

\* What settled nothing yet is answered once.
OnceOK(c, w, d) ==
    Knows(c, d.ufrag) /\ d # NoPc /\ d.role = "none" =>
        OneAnswerOf(w, c.ufrag) /\ (Making(c) => c.role = "none")

\* Before the channel opens nothing is offered behind an answer.
BehindOK(c, o, w) == c # NoPc /\ o = 0 => NoOfferBehind(w, c.ufrag)

\* On a link, or with the far channel open, a node is asked one thing at a time: an offer is
\* coming, or an answer is made, or it is going back, and the far end waits for it.
TurnOK(node, c, w, d, e, x) ==
    node /\ (Joined(c, d) \/ e # 0) =>
        /\ OneOffer(x) /\ OneAnswer(w)
        /\ NoOffers(x) \/ NoAnswers(w)
        /\ Making(c) => NoOffers(x) /\ NoAnswers(w)
        /\ d.state = "have-local-offer" \/ (NoOffers(x) /\ NoAnswers(w) /\ ~Making(c))
        /\ AllOf(x, d.ufrag)
        /\ c # NoPc => c.remote = 0 \/ c.remote = d.ufrag

SideOK(node, c, o, w, d, e, x) ==
    /\ RolesOK(node, c, o)
    /\ OrderOK(c, w, d)
    /\ DialOK(c, w, d)
    /\ FirstOK(node, w, d)
    /\ OnceOK(c, w, d)
    /\ BehindOK(c, o, w)
    /\ TurnOK(node, c, w, d, e, x)
EndsOK(n, c, o, w, m, d, e, x) ==
    SideOK(n, c, o, w, d, e, x) /\ SideOK(m, d, e, x, c, o, w)

MeshInv ==
    \A p \in Pair :
        /\ SideOK(~Browser(p), pc[p], open[p], wire[p], pc[Far(p)], open[Far(p)], wire[Far(p)])
        /\ JobsOK(~Browser(p), pc[p], open[p], doing[p])

\* Of a connection, or of none.
Named(c) == (c # NoPc => c.ufrag # 0) /\ (c = NoPc => c.ufrag = 0)

-----------------------------------------------------------------------------
(* What each kind of step does to the ends *)

\* Frames are taken or lost, nothing else.
LEMMA WiresKeep ==
    ASSUME NEW n, NEW c, NEW o, NEW w, NEW d, NEW e, NEW x, NEW w2, NEW x2,
           SideOK(n, c, o, w, d, e, x), Keeps(w, w2), Keeps(x, x2)
    PROVE  SideOK(n, c, o, w2, d, e, x2)
<1>1. OrderOK(c, w2, d)
  BY DEF SideOK, OrderOK, Keeps, KeepsOf
<1>2. DialOK(c, w2, d)
  BY DEF SideOK, DialOK, Keeps, KeepsOf
<1>3. FirstOK(n, w2, d)
  BY DEF SideOK, FirstOK, Keeps, KeepsOf
<1>4. OnceOK(c, w2, d)
  BY DEF SideOK, OnceOK, Keeps, KeepsOf
<1>5. BehindOK(c, o, w2)
  BY DEF SideOK, BehindOK, Keeps, KeepsOf
<1>6. TurnOK(n, c, w2, d, e, x2)
  BY DEF SideOK, TurnOK, Keeps, KeepsOf
<1>7. QED
  BY <1>1, <1>2, <1>3, <1>4, <1>5, <1>6 DEF SideOK

LEMMA QuietStep ==
    ASSUME NEW n, NEW c, NEW o, NEW w, NEW m, NEW d, NEW e, NEW x, NEW w2, NEW x2,
           EndsOK(n, c, o, w, m, d, e, x), Keeps(w, w2), Keeps(x, x2)
    PROVE  EndsOK(n, c, o, w2, m, d, e, x2)
BY WiresKeep DEF EndsOK

\* cleanup
LEMMA GoneStep ==
    ASSUME NEW n, NEW c, NEW o, NEW w \in Seq(Signal), NEW m, NEW d, NEW e, NEW x,
           EndsOK(n, c, o, w, m, d, e, x), Named(NoPc)
    PROVE  EndsOK(n, NoPc, 0, w, m, d, e, x)
<1>1. NoneOf(w, NoPc.ufrag) /\ NoPc.ufrag = 0
  BY NoFrameOfNothing DEF Named
<1>2. LastOf(w, NoPc.ufrag)
  BY <1>1, FramesFollow DEF FollowsIn, LinksOf
<1>3. SideOK(n, NoPc, 0, w, d, e, x)
  <2>1. RolesOK(n, NoPc, 0) /\ OrderOK(NoPc, w, d) /\ DialOK(NoPc, w, d)
    BY <1>2 DEF RolesOK, OrderOK, DialOK
  <2>2. FirstOK(n, w, d) /\ OnceOK(NoPc, w, d) /\ BehindOK(NoPc, 0, w)
    BY DEF EndsOK, SideOK, OnceOK, BehindOK, Knows
  <2>3. TurnOK(n, NoPc, w, d, e, x)
    BY DEF EndsOK, SideOK, TurnOK, Joined, Knows, Making
  <2>4. QED
    BY <2>1, <2>2, <2>3 DEF SideOK
<1>4. SideOK(m, d, e, x, NoPc, 0, w)
  <2>1. RolesOK(m, d, e) /\ OrderOK(d, x, NoPc) /\ BehindOK(d, e, x)
    BY DEF EndsOK, SideOK, OrderOK, Knows
  <2>2. DialOK(d, x, NoPc) /\ FirstOK(m, x, NoPc)
    BY DEF EndsOK, SideOK, DialOK, FirstOK, Knows
  <2>3. OnceOK(d, x, NoPc) /\ TurnOK(m, d, x, NoPc, 0, w)
    BY DEF OnceOK, TurnOK, Joined, Knows
  <2>4. QED
    BY <2>1, <2>2, <2>3 DEF SideOK
<1>5. QED
  BY <1>3, <1>4 DEF EndsOK

\* A connection nobody has heard of: its number is nowhere.
New(c2, w, d, x) ==
    /\ c2 # NoPc /\ c2.role = "none" /\ c2.ufrag # 0
    /\ NoneOf(w, c2.ufrag) /\ NoneOf(x, c2.ufrag)
    /\ d # NoPc => d.ufrag # c2.ufrag /\ d.remote # c2.ufrag

\* initiateConnection, or the connection an offer is dropped for.
LEMMA DialStep ==
    ASSUME NEW n, NEW c, NEW o, NEW w, NEW m, NEW d, NEW e, NEW x \in Seq(Signal),
           NEW c2, NEW x2 \in Seq(Signal),
           EndsOK(n, c, o, w, m, d, e, x), Named(d), Keeps(x, x2),
           New(c2, w, d, x), c2.state = "stable", c2.remote = 0
    PROVE  EndsOK(n, c2, 0, w, m, d, e, x2)
<1>1. LinksOf(w, c2.ufrag)
  BY FramesFollow DEF FollowsIn
<1>2. NoOfferOf(x2, c2.remote)
  BY NoFrameOfNothing, FramesFollow DEF FollowsIn, LinksOf
<1>3. SideOK(n, c2, 0, w, d, e, x2)
  <2>1. RolesOK(n, c2, 0) /\ OrderOK(c2, w, d)
    BY <1>1 DEF New, RolesOK, OrderOK, Knows, LinksOf
  <2>2. DialOK(c2, w, d) /\ FirstOK(n, w, d)
    BY <1>1 DEF EndsOK, SideOK, New, DialOK, Knows, LinksOf
  <2>3. OnceOK(c2, w, d) /\ BehindOK(c2, 0, w)
    BY <1>1 DEF New, OnceOK, BehindOK, LinksOf
  <2>4. ~Joined(c2, d) /\ ~Making(c2)
    BY DEF New, Joined, Making
  <2>5. TurnOK(n, c2, w, d, e, x2)
    BY <2>4 DEF EndsOK, SideOK, TurnOK, Keeps, KeepsOf
  <2>6. QED
    BY <2>1, <2>2, <2>3, <2>5 DEF SideOK
<1>4. ~Knows(c2, d.ufrag) \/ d = NoPc
  BY DEF Knows, Named
<1>5. ~Joined(c2, d) /\ ~Joined(d, c2)
  BY DEF New, Joined
<1>6. SideOK(m, d, e, x2, c2, 0, w)
  <2>1. RolesOK(m, d, e) /\ OrderOK(d, x2, c2)
    BY <1>4 DEF EndsOK, SideOK, OrderOK, Keeps, KeepsOf
  <2>2. DialOK(d, x2, c2)
    BY <1>4 DEF EndsOK, SideOK, DialOK, Keeps, KeepsOf
  <2>3. FirstOK(m, x2, c2)
    BY <1>2 DEF EndsOK, SideOK, FirstOK, Keeps
  <2>4. OnceOK(d, x2, c2)
    BY DEF New, OnceOK, Knows
  <2>5. BehindOK(d, e, x2) /\ TurnOK(m, d, x2, c2, 0, w)
    BY <1>5 DEF EndsOK, SideOK, BehindOK, TurnOK, Keeps, KeepsOf
  <2>6. QED
    BY <2>1, <2>2, <2>3, <2>4, <2>5 DEF SideOK
<1>7. QED
  BY <1>3, <1>6 DEF EndsOK

\* AnswerAnew: h is the offer taken.
LEMMA AnewStep ==
    ASSUME NEW n, NEW c, NEW o, NEW w, NEW m, NEW d, NEW e, NEW x, NEW c2, NEW x2, NEW h,
           EndsOK(n, c, o, w, m, d, e, x), Keeps(x, x2), Took(x, x2, h),
           IsOffer(h), h.ufrag # 0,
           New(c2, w, d, x), c2.state = "have-remote-offer", c2.remote = h.ufrag
    PROVE  EndsOK(n, c2, 0, w, m, d, e, x2)
<1>1. LinksOf(w, c2.ufrag) /\ FollowsIn(x2)
  BY FramesFollow DEF FollowsIn
<1>2. \A u : HeadOf(x, x2, h, u) /\ KeepsOf(x, x2, u)
  BY DEF Took, Keeps
<1>3. SideOK(n, c2, 0, w, d, e, x2)
  <2>1. RolesOK(n, c2, 0) /\ OrderOK(c2, w, d)
    BY <1>1 DEF New, RolesOK, OrderOK, Knows, LinksOf
  <2>2. DialOK(c2, w, d) /\ FirstOK(n, w, d)
    BY <1>1 DEF EndsOK, SideOK, New, DialOK, Knows, LinksOf
  <2>3. OnceOK(c2, w, d) /\ BehindOK(c2, 0, w)
    BY <1>1 DEF New, OnceOK, BehindOK, LinksOf
  <2>4. ~Joined(c2, d)
    BY DEF New, Joined
  <2>5. ASSUME n, e # 0
        PROVE  /\ OneOffer(x2) /\ OneAnswer(w) /\ NoOffers(x2) /\ NoAnswers(w)
               /\ d.state = "have-local-offer"
               /\ AllOf(x2, d.ufrag) /\ c2.remote = d.ufrag
    <3>2. /\ OneOffer(x) /\ OneAnswer(w)
          /\ NoOffers(x) \/ NoAnswers(w)
          /\ d.state = "have-local-offer" \/ (NoOffers(x) /\ NoAnswers(w) /\ ~Making(c))
          /\ AllOf(x, d.ufrag)
      BY <2>5 DEF EndsOK, SideOK, TurnOK
    <3>3. ~NoOffers(x) /\ NoOffers(x2)
      BY <3>2 DEF Took
    <3>4. AllOf(x2, d.ufrag) /\ h.ufrag = d.ufrag
      BY <1>2, <3>2 DEF HeadOf, KeepsOf
    <3>5. QED
      BY <1>1, <3>2, <3>3, <3>4 DEF FollowsIn
  <2>6. TurnOK(n, c2, w, d, e, x2)
    BY <2>4, <2>5 DEF TurnOK
  <2>7. QED
    BY <2>1, <2>2, <2>3, <2>6 DEF SideOK
<1>4. ~Joined(c2, d) /\ ~Joined(d, c2)
  BY DEF New, Joined
<1>5. SideOK(m, d, e, x2, c2, 0, w)
  <2>1. RolesOK(m, d, e) /\ OrderOK(d, x2, c2)
    BY <1>2 DEF EndsOK, SideOK, OrderOK, Knows, HeadOf, KeepsOf
  <2>2. DialOK(d, x2, c2)
    BY <1>2 DEF EndsOK, SideOK, DialOK, Knows, HeadOf, KeepsOf, New
  <2>3. FirstOK(m, x2, c2)
    BY DEF EndsOK, SideOK, FirstOK, Keeps, Took
  <2>4. OnceOK(d, x2, c2)
    BY DEF New, OnceOK, Knows
  <2>5. BehindOK(d, e, x2) /\ TurnOK(m, d, x2, c2, 0, w)
    BY <1>2, <1>4 DEF EndsOK, SideOK, BehindOK, TurnOK, KeepsOf
  <2>6. QED
    BY <2>1, <2>2, <2>3, <2>4, <2>5 DEF SideOK
<1>6. QED
  BY <1>3, <1>5 DEF EndsOK

\* AnswerOnIt: h is the offer taken.
LEMMA OnItStep ==
    ASSUME NEW n, NEW c, NEW o, NEW w, NEW m, NEW d, NEW e, NEW x, NEW c2, NEW x2, NEW h,
           EndsOK(n, c, o, w, m, d, e, x), Keeps(x, x2), Took(x, x2, h),
           IsOffer(h), h.ufrag # 0,
           c # NoPc, c2 # NoPc, c2.ufrag = c.ufrag, c2.role = c.role,
           c2.state = "have-remote-offer", c2.remote = h.ufrag,
           c.remote = 0 \/ c.remote = h.ufrag,
           n => c.state = "stable" /\ o # 0 /\ c.remote = h.ufrag
    PROVE  EndsOK(n, c2, o, w, m, d, e, x2)
<1>1. FollowsIn(x2) /\ FollowsIn(w) /\ LinksOf(w, c.ufrag)
  BY FramesFollow DEF FollowsIn
<1>2. \A u : HeadOf(x, x2, h, u) /\ KeepsOf(x, x2, u)
  BY DEF Took, Keeps
<1>3. c.remote = 0 => c.role = "none" /\ o = 0
  BY DEF EndsOK, SideOK, RolesOK
\* Who settled nothing and is known sends nothing more.
<1>4. ~(Knows(c, d.ufrag) /\ h.ufrag = d.ufrag /\ d # NoPc /\ d.role = "none")
  BY <1>2 DEF EndsOK, SideOK, DialOK, HeadOf
<1>5. SideOK(n, c2, o, w, d, e, x2)
  <2>1. RolesOK(n, c2, o) /\ OrderOK(c2, w, d)
    BY DEF EndsOK, SideOK, RolesOK, OrderOK
  <2>2. DialOK(c2, w, d) /\ FirstOK(n, w, d) /\ BehindOK(c2, o, w)
    BY DEF EndsOK, SideOK, DialOK, BehindOK
  <2>3. OnceOK(c2, w, d)
    <3>1. SUFFICES ASSUME h.ufrag = d.ufrag, d # NoPc, d.role = "none"
                   PROVE  OneAnswerOf(w, c.ufrag) /\ c.role = "none"
      BY DEF OnceOK, Knows
    <3>2. c.role = "none"
      BY <1>3, <1>4, <3>1 DEF Knows
    <3>3. QED
      BY <1>1, <3>2 DEF EndsOK, SideOK, DialOK, LinksOf
  <2>4. ASSUME n, Joined(c2, d) \/ e # 0
        PROVE  /\ OneOffer(x2) /\ OneAnswer(w) /\ NoOffers(x2) /\ NoAnswers(w)
               /\ d.state = "have-local-offer"
               /\ AllOf(x2, d.ufrag) /\ c2.remote = d.ufrag
    <3>1. Joined(c, d) \/ e # 0
      BY <2>4 DEF Joined, Knows
    <3>2. /\ OneOffer(x) /\ OneAnswer(w)
          /\ NoOffers(x) \/ NoAnswers(w)
          /\ d.state = "have-local-offer" \/ (NoOffers(x) /\ NoAnswers(w) /\ ~Making(c))
          /\ AllOf(x, d.ufrag)
      BY <2>4, <3>1 DEF EndsOK, SideOK, TurnOK
    <3>3. ~NoOffers(x) /\ NoOffers(x2)
      BY <3>2 DEF Took
    <3>4. AllOf(x2, d.ufrag) /\ h.ufrag = d.ufrag
      BY <1>2, <3>2 DEF HeadOf, KeepsOf
    <3>5. QED
      BY <1>1, <3>2, <3>3, <3>4 DEF FollowsIn
  <2>5. TurnOK(n, c2, w, d, e, x2)
    BY <2>4 DEF TurnOK
  <2>6. QED
    BY <2>1, <2>2, <2>3, <2>5 DEF SideOK
<1>6. SideOK(m, d, e, x2, c2, o, w)
  <2>1. RolesOK(m, d, e) /\ OrderOK(d, x2, c2)
    BY <1>2 DEF EndsOK, SideOK, OrderOK, Knows, HeadOf, KeepsOf
  <2>2. DialOK(d, x2, c2)
    <3>1. ASSUME d # NoPc, d.role = "none", h.ufrag = d.ufrag
          PROVE  d.state # "stable" /\ c.role # "offered" /\ NoneOf(x2, d.ufrag)
      <4>1. c.role = "none"
        BY <1>3, <1>4, <3>1 DEF Knows
      <4>2. QED
        BY <1>2, <3>1, <4>1 DEF EndsOK, SideOK, DialOK, HeadOf
    <3>2. QED
      BY <1>2, <3>1 DEF EndsOK, SideOK, DialOK, Knows, KeepsOf
  <2>3. FirstOK(m, x2, c2)
    BY DEF EndsOK, SideOK, FirstOK, Keeps, Took
  <2>4. OnceOK(d, x2, c2)
    BY <1>2 DEF EndsOK, SideOK, OnceOK, Knows, KeepsOf
  <2>5. BehindOK(d, e, x2)
    BY <1>2 DEF EndsOK, SideOK, BehindOK, KeepsOf
  <2>6. TurnOK(m, d, x2, c2, o, w)
    \* A node never offers what is known already.
    <3>1. m => c.remote = 0
      BY <1>2 DEF EndsOK, SideOK, FirstOK, HeadOf
    <3>2. m => o = 0 /\ ~Joined(d, c2)
      BY <1>3, <3>1 DEF Joined
    <3>3. QED
      BY <3>2 DEF TurnOK
  <2>7. QED
    BY <2>1, <2>2, <2>3, <2>4, <2>5, <2>6 DEF SideOK
<1>7. QED
  BY <1>5, <1>6 DEF EndsOK

\* OfferMade, and sent as k.
LEMMA OfferStep ==
    ASSUME NEW n, NEW c, NEW o, NEW w, NEW m, NEW d, NEW e, NEW x, NEW c2, NEW w2, NEW k,
           EndsOK(n, c, o, w, m, d, e, x), Adds(w, w2, k),
           IsOffer(k), k.ufrag = c.ufrag,
           c # NoPc, c2 # NoPc, c2.ufrag = c.ufrag, c2.role = c.role, c2.remote = c.remote,
           c.state = "stable", c2.state = "have-local-offer",
           c.role = "none" \/ (~n /\ o # 0)
    PROVE  EndsOK(n, c2, o, w2, m, d, e, x)
<1>1. FollowsIn(w2) /\ FollowsIn(w) /\ LinksOf(w, c.ufrag) /\ LinksOf(w2, c.ufrag)
  BY FramesFollow DEF FollowsIn
<1>2. \A u : AddsOf(w, w2, k, u)
  BY DEF Adds
<1>3. /\ ~Making(c) /\ ~Making(c2)
      /\ Joined(c2, d) <=> Joined(c, d)
      /\ Joined(d, c2) <=> Joined(d, c)
  BY DEF Making, Joined, Knows
<1>4. c.role = "none" => o = 0 /\ NoneOf(w, c.ufrag) /\ ~Knows(d, c.ufrag) /\ ~Joined(c, d)
  BY DEF EndsOK, SideOK, RolesOK, DialOK, Joined
<1>5. SideOK(n, c2, o, w2, d, e, x)
  <2>1. RolesOK(n, c2, o)
    BY DEF EndsOK, SideOK, RolesOK
  <2>2. OrderOK(c2, w2, d)
    BY <1>2 DEF EndsOK, SideOK, OrderOK, AddsOf
  <2>3. DialOK(c2, w2, d)
    BY <1>1, <1>2, <1>4 DEF DialOK, AddsOf, LinksOf
  <2>4. FirstOK(n, w2, d)
    BY <1>2, <1>4 DEF EndsOK, SideOK, FirstOK, Adds, AddsOf, Knows
  <2>5. OnceOK(c2, w2, d)
    BY <1>2, <1>3 DEF EndsOK, SideOK, OnceOK, AddsOf, Knows
  <2>6. BehindOK(c2, o, w2)
    BY <1>1, <1>2, <1>4 DEF EndsOK, SideOK, BehindOK, AddsOf, LinksOf
  <2>7. TurnOK(n, c2, w2, d, e, x)
    BY <1>3, <1>4 DEF EndsOK, SideOK, TurnOK, Adds
  <2>8. QED
    BY <2>1, <2>2, <2>3, <2>4, <2>5, <2>6, <2>7 DEF SideOK
<1>6. SideOK(m, d, e, x, c2, o, w2)
  <2>1. RolesOK(m, d, e) /\ OrderOK(d, x, c2) /\ DialOK(d, x, c2)
    BY DEF EndsOK, SideOK, OrderOK, DialOK, Knows
  <2>2. FirstOK(m, x, c2) /\ OnceOK(d, x, c2) /\ BehindOK(d, e, x)
    BY DEF EndsOK, SideOK, FirstOK, OnceOK, Knows
  <2>3. TurnOK(m, d, x, c2, o, w2)
    <3>1. SUFFICES ASSUME m, Joined(d, c) \/ o # 0
                   PROVE  /\ OneOffer(w2) /\ OneAnswer(x)
                          /\ NoAnswers(x) /\ ~Making(d)
                          /\ AllOf(w2, c.ufrag)
                          /\ d # NoPc => d.remote = 0 \/ d.remote = c.ufrag
      BY <1>3 DEF TurnOK
    <3>2. /\ OneAnswer(x) /\ NoOffers(w) /\ NoAnswers(x) /\ ~Making(d)
          /\ AllOf(w, c.ufrag)
          /\ d # NoPc => d.remote = 0 \/ d.remote = c.ufrag
      BY <3>1 DEF EndsOK, SideOK, TurnOK
    <3>3. QED
      BY <1>2, <3>2 DEF Adds, AddsOf
  <2>4. QED
    BY <2>1, <2>2, <2>3 DEF SideOK
<1>7. QED
  BY <1>5, <1>6 DEF EndsOK

\* AnswerMade, and sent as k.
LEMMA AnswerStep ==
    ASSUME NEW n, NEW c, NEW o, NEW w, NEW m, NEW d, NEW e, NEW x, NEW c2, NEW w2, NEW k,
           EndsOK(n, c, o, w, m, d, e, x), Adds(w, w2, k),
           IsAnswer(k), k.ufrag = c.ufrag,
           c # NoPc, c2 # NoPc, c2.ufrag = c.ufrag, c2.remote = c.remote,
           c2.role = (IF c.role = "none" THEN "answered" ELSE c.role),
           c.state = "have-remote-offer", c2.state = "stable", ~IsOffer(k)
    PROVE  EndsOK(n, c2, o, w2, m, d, e, x)
<1>1. FollowsIn(w2) /\ FollowsIn(w) /\ LinksOf(w, c.ufrag) /\ LinksOf(w2, c.ufrag)
  BY FramesFollow DEF FollowsIn
<1>2. \A u : AddsOf(w, w2, k, u)
  BY DEF Adds
<1>3. Making(c) /\ ~Making(c2) /\ c2.role # "none"
  BY DEF Making
\* Nobody else thinks that its offer on this connection was answered.
<1>4. /\ Joined(c2, d) => Joined(c, d)
      /\ Joined(d, c2) => Joined(d, c)
  <2>1. c.role = "none" => ~(Knows(d, c.ufrag) /\ d.role = "offered")
    BY DEF EndsOK, SideOK, DialOK
  <2>2. QED
    BY <2>1 DEF Joined, Knows
<1>5. SideOK(n, c2, o, w2, d, e, x)
  <2>1. RolesOK(n, c2, o)
    BY <1>3 DEF EndsOK, SideOK, RolesOK
  <2>2. OrderOK(c2, w2, d)
    BY <1>2 DEF EndsOK, SideOK, OrderOK, AddsOf
  <2>3. DialOK(c2, w2, d)
    BY <1>3 DEF DialOK
  <2>4. FirstOK(n, w2, d)
    BY <1>2 DEF EndsOK, SideOK, FirstOK, Adds, AddsOf
  <2>5. OnceOK(c2, w2, d)
    <3>1. SUFFICES ASSUME Knows(c, d.ufrag), d # NoPc, d.role = "none"
                   PROVE  OneAnswerOf(w2, c.ufrag)
      BY <1>3 DEF OnceOK, Knows
    <3>2. c.role = "none"
      BY <1>3, <3>1 DEF EndsOK, SideOK, OnceOK
    <3>3. QED
      BY <1>2, <3>2 DEF EndsOK, SideOK, DialOK, AddsOf
  <2>6. BehindOK(c2, o, w2)
    BY <1>2 DEF EndsOK, SideOK, BehindOK, AddsOf
  <2>7. TurnOK(n, c2, w2, d, e, x)
    <3>1. SUFFICES ASSUME n, Joined(c, d) \/ e # 0
                   PROVE  /\ OneOffer(x) /\ OneAnswer(w2)
                          /\ NoOffers(x) /\ d.state = "have-local-offer"
                          /\ AllOf(x, d.ufrag)
                          /\ c.remote = 0 \/ c.remote = d.ufrag
      BY <1>3, <1>4 DEF TurnOK
    <3>2. /\ OneOffer(x) /\ NoOffers(x) /\ NoAnswers(w)
          /\ d.state = "have-local-offer" /\ AllOf(x, d.ufrag)
          /\ c.remote = 0 \/ c.remote = d.ufrag
      BY <1>3, <3>1 DEF EndsOK, SideOK, TurnOK
    <3>3. QED
      BY <3>2 DEF Adds
  <2>8. QED
    BY <2>1, <2>2, <2>3, <2>4, <2>5, <2>6, <2>7 DEF SideOK
<1>6. SideOK(m, d, e, x, c2, o, w2)
  <2>1. RolesOK(m, d, e) /\ OrderOK(d, x, c2) /\ DialOK(d, x, c2)
    BY DEF EndsOK, SideOK, OrderOK, DialOK, Knows
  <2>2. FirstOK(m, x, c2) /\ OnceOK(d, x, c2) /\ BehindOK(d, e, x)
    BY <1>3 DEF EndsOK, SideOK, FirstOK, OnceOK
  <2>3. TurnOK(m, d, x, c2, o, w2)
    <3>1. SUFFICES ASSUME m, Joined(d, c) \/ o # 0
                   PROVE  /\ OneOffer(w2) /\ OneAnswer(x)
                          /\ NoOffers(w2) /\ NoAnswers(x) /\ ~Making(d)
                          /\ AllOf(w2, c.ufrag)
                          /\ d # NoPc => d.remote = 0 \/ d.remote = c.ufrag
      BY <1>4 DEF TurnOK
    <3>2. /\ OneAnswer(x) /\ NoOffers(w) /\ NoAnswers(x) /\ ~Making(d)
          /\ AllOf(w, c.ufrag)
          /\ d # NoPc => d.remote = 0 \/ d.remote = c.ufrag
      BY <3>1 DEF EndsOK, SideOK, TurnOK
    <3>3. QED
      BY <1>2, <3>2 DEF Adds, AddsOf
  <2>4. QED
    BY <2>1, <2>2, <2>3 DEF SideOK
<1>7. QED
  BY <1>5, <1>6 DEF EndsOK

\* OnAnswer: h is the answer taken.  Only this makes a link.
LEMMA SettleStep ==
    ASSUME NEW n, NEW c, NEW o, NEW w, NEW m, NEW d, NEW e, NEW x, NEW c2, NEW x2, NEW h,
           EndsOK(n, c, o, w, m, d, e, x), Keeps(x, x2), Took(x, x2, h),
           IsAnswer(h), h.ufrag # 0,
           c # NoPc, c2 # NoPc, c2.ufrag = c.ufrag, c2.remote = h.ufrag,
           c2.role = (IF c.role = "none" THEN "offered" ELSE c.role),
           c.state = "have-local-offer", c2.state = "stable"
    PROVE  EndsOK(n, c2, o, w, m, d, e, x2)
<1>1. FollowsIn(w) /\ FollowsIn(x2) /\ (\A u : LinksOf(w, u) /\ LinksOf(x2, u))
  BY FramesFollow DEF FollowsIn
<1>2. \A u : HeadOf(x, x2, h, u) /\ KeepsOf(x, x2, u)
  BY DEF Took, Keeps
<1>3. ~Making(c) /\ ~Making(c2) /\ c2.role # "none"
  BY DEF Making
\* Who settled nothing has answered nothing.
<1>4. ~(d # NoPc /\ d.role = "none" /\ h.ufrag = d.ufrag)
  BY <1>2 DEF EndsOK, SideOK, DialOK, HeadOf
\* A link that is new: the far end knows this one and has sent nothing behind the answer.
<1>5. ASSUME Joined(c2, d) \/ Joined(d, c2), c.role = "none"
      PROVE  /\ Knows(d, c.ufrag) /\ d.role = "answered" /\ h.ufrag = d.ufrag
             /\ NoOffers(w) /\ NoAnswers(w) /\ AllOf(w, c.ufrag) /\ AllOf(x2, d.ufrag)
  <2>1. Knows(d, c.ufrag) /\ d.role = "answered" /\ h.ufrag = d.ufrag /\ d # NoPc
    BY <1>5 DEF Joined, Knows
  <2>2. NoneOf(w, c.ufrag) /\ AllOf(w, c.ufrag)
    BY <1>5, <2>1 DEF EndsOK, SideOK, DialOK, OrderOK
  <2>3. NoOffers(w) /\ NoAnswers(w)
    BY <1>1, <2>2 DEF LinksOf
  <2>4. AllOf(x2, d.ufrag)
    BY <1>2, <2>1 DEF EndsOK, SideOK, OrderOK, HeadOf
  <2>5. QED
    BY <2>1, <2>2, <2>3, <2>4
<1>6. SideOK(n, c2, o, w, d, e, x2)
  <2>1. RolesOK(n, c2, o) /\ OrderOK(c2, w, d)
    BY <1>3 DEF EndsOK, SideOK, RolesOK, OrderOK
  <2>2. DialOK(c2, w, d) /\ FirstOK(n, w, d)
    BY <1>3 DEF EndsOK, SideOK, DialOK
  <2>3. OnceOK(c2, w, d) /\ BehindOK(c2, o, w)
    BY <1>4 DEF EndsOK, SideOK, OnceOK, BehindOK, Knows
  <2>4. TurnOK(n, c2, w, d, e, x2)
    <3>1. SUFFICES ASSUME n, Joined(c2, d) \/ e # 0
                   PROVE  /\ OneOffer(x2) /\ OneAnswer(w)
                          /\ NoOffers(x2) \/ NoAnswers(w)
                          /\ d.state = "have-local-offer" \/ (NoOffers(x2) /\ NoAnswers(w))
                          /\ AllOf(x2, d.ufrag) /\ h.ufrag = d.ufrag
      BY <1>3 DEF TurnOK
    <3>2. c.role = "none"
      BY <3>1 DEF EndsOK, SideOK, RolesOK
    <3>3. CASE e # 0
      <4>1. /\ OneOffer(x) /\ OneAnswer(w)
            /\ NoOffers(x) \/ NoAnswers(w)
            /\ d.state = "have-local-offer" \/ (NoOffers(x) /\ NoAnswers(w))
            /\ AllOf(x, d.ufrag)
        BY <3>1, <3>3 DEF EndsOK, SideOK, TurnOK
      <4>2. AllOf(x2, d.ufrag) /\ h.ufrag = d.ufrag
        BY <1>2, <4>1 DEF HeadOf, KeepsOf
      <4>3. QED
        BY <4>1, <4>2 DEF Keeps
    <3>4. CASE e = 0
      <4>1. /\ Knows(d, c.ufrag) /\ h.ufrag = d.ufrag
            /\ NoAnswers(w) /\ AllOf(x2, d.ufrag)
        BY <1>5, <3>1, <3>2, <3>4
      <4>2. NoOfferBehind(x, d.ufrag)
        BY <3>4, <4>1 DEF EndsOK, SideOK, BehindOK, Knows
      <4>3. NoOfferOf(x2, d.ufrag)
        BY <1>2, <4>1, <4>2 DEF HeadOf
      <4>4. NoOffers(x2)
        BY <1>1, <4>1, <4>3 DEF LinksOf
      <4>5. QED
        BY <1>1, <4>1, <4>4 DEF FollowsIn
    <3>5. QED
      BY <3>3, <3>4
  <2>5. QED
    BY <2>1, <2>2, <2>3, <2>4 DEF SideOK
<1>7. SideOK(m, d, e, x2, c2, o, w)
  <2>1. RolesOK(m, d, e) /\ OrderOK(d, x2, c2)
    BY <1>2 DEF EndsOK, SideOK, OrderOK, Knows, HeadOf, KeepsOf
  <2>2. DialOK(d, x2, c2)
    BY <1>2, <1>4 DEF EndsOK, SideOK, DialOK, Knows, KeepsOf
  <2>3. FirstOK(m, x2, c2)
    BY DEF EndsOK, SideOK, FirstOK, Keeps, Took
  <2>4. OnceOK(d, x2, c2) /\ BehindOK(d, e, x2)
    BY <1>2, <1>3 DEF EndsOK, SideOK, OnceOK, BehindOK, KeepsOf
  <2>5. TurnOK(m, d, x2, c2, o, w)
    <3>1. SUFFICES ASSUME m, Joined(d, c2) \/ o # 0
                   PROVE  /\ OneOffer(w) /\ OneAnswer(x2)
                          /\ NoOffers(w) /\ NoAnswers(x2) /\ ~Making(d)
                          /\ AllOf(w, c.ufrag)
                          /\ d # NoPc => d.remote = 0 \/ d.remote = c.ufrag
      BY DEF TurnOK
    <3>2. CASE o # 0
      <4>1. /\ OneAnswer(x) /\ OneOffer(w)
            /\ NoOffers(w) \/ NoAnswers(x)
            /\ Making(d) => NoOffers(w) /\ NoAnswers(x)
            /\ AllOf(w, c.ufrag)
            /\ d # NoPc => d.remote = 0 \/ d.remote = c.ufrag
        BY <3>1, <3>2 DEF EndsOK, SideOK, TurnOK
      <4>2. ~NoAnswers(x) /\ NoAnswers(x2)
        BY <4>1 DEF Took
      <4>3. QED
        BY <1>1, <4>1, <4>2 DEF FollowsIn
    <3>3. CASE o = 0
      <4>1. c.role = "none"
        BY <3>3 DEF EndsOK, SideOK, RolesOK
      <4>2. /\ Knows(d, c.ufrag) /\ d.role = "answered" /\ h.ufrag = d.ufrag
            /\ NoOffers(w) /\ AllOf(w, c.ufrag) /\ AllOf(x2, d.ufrag)
        BY <1>5, <3>1, <3>3, <4>1
      <4>3. OneAnswerOf(x, d.ufrag) /\ ~Making(d)
        BY <4>1, <4>2 DEF EndsOK, SideOK, OnceOK
      <4>4. NoAnswers(x2)
        BY <1>1, <1>2, <4>2, <4>3 DEF HeadOf, LinksOf
      <4>5. QED
        BY <1>1, <4>2, <4>3, <4>4 DEF FollowsIn, Knows
    <3>4. QED
      BY <3>2, <3>3
  <2>6. QED
    BY <2>1, <2>2, <2>3, <2>4, <2>5 DEF SideOK
<1>8. QED
  BY <1>6, <1>7 DEF EndsOK

\* ChannelOpens
LEMMA OpenStep ==
    ASSUME NEW n, NEW c, NEW o, NEW w, NEW m, NEW d, NEW e, NEW x, NEW o2,
           EndsOK(n, c, o, w, m, d, e, x), Joined(c, d), o = 0, o2 # 0
    PROVE  EndsOK(n, c, o2, w, m, d, e, x)
<1>1. c # NoPc /\ c.role # "none"
  BY DEF Joined, Knows
<1>2. ~(c.role # "none" /\ c.state = "have-local-offer")
  BY <1>1 DEF EndsOK, SideOK, RolesOK
<1>3. Joined(d, c)
  BY DEF Joined
<1>4. SideOK(n, c, o2, w, d, e, x)
  <2>1. RolesOK(n, c, o2) /\ BehindOK(c, o2, w)
    BY <1>1, <1>2 DEF EndsOK, SideOK, RolesOK, BehindOK
  <2>2. QED
    BY <2>1 DEF EndsOK, SideOK
<1>5. SideOK(m, d, e, x, c, o2, w)
  <2>1. TurnOK(m, d, x, c, o2, w)
    BY <1>3 DEF EndsOK, SideOK, TurnOK
  <2>2. QED
    BY <2>1 DEF EndsOK, SideOK
<1>6. QED
  BY <1>4, <1>5 DEF EndsOK

-----------------------------------------------------------------------------
(* The two ends in a state *)

Good == TypeOK /\ MeshInv

LEMMA FarFacts ==
    ASSUME NEW p \in Pair
    PROVE  /\ Far(p) \in Pair /\ Far(p) # p /\ Far(Far(p)) = p
           /\ \A q \in Pair : q = p \/ q = Far(p)
BY DEF Pair, Far

LEMMA PcFacts ==
    /\ NoPc.ufrag = 0 /\ 0 \notin Ufrag
    /\ \A c \in Pc : /\ c # NoPc /\ c.ufrag \in Ufrag /\ c.ufrag # 0
                     /\ c.remote \in Ufrag \cup {0}
                     /\ c.role \in {"none", "offered", "answered"}
    /\ \A c \in Pc \cup {NoPc} : Named(c) /\ (c # NoPc => c \in Pc)
<1>1. NoPc.ufrag = 0 /\ 0 \notin Ufrag
  BY DEF NoPc, Ufrag
<1>2. \A c \in Pc : /\ c.ufrag \in Ufrag /\ c.remote \in Ufrag \cup {0}
                    /\ c.role \in {"none", "offered", "answered"}
  BY DEF Pc
<1>3. \A c \in Pc : c # NoPc /\ c.ufrag # 0
  BY <1>1, <1>2
<1>4. QED
  BY <1>1, <1>2, <1>3 DEF Named

LEMMA TheEnds ==
    ASSUME MeshInv, NEW p \in Pair
    PROVE  /\ EndsOK(~Browser(p), pc[p], open[p], wire[p],
                     ~Browser(Far(p)), pc[Far(p)], open[Far(p)], wire[Far(p)])
           /\ JobsOK(~Browser(p), pc[p], open[p], doing[p])
BY FarFacts DEF MeshInv, EndsOK

\* A step of p is one of its end and of the frames of both.
FarKept(p) ==
    /\ kind' = kind
    /\ pc'[Far(p)] = pc[Far(p)] /\ open'[Far(p)] = open[Far(p)]
    /\ doing'[Far(p)] = doing[Far(p)]

LEMMA OneEndMoves ==
    ASSUME MeshInv, NEW p \in Pair, FarKept(p),
           EndsOK(~Browser(p), pc'[p], open'[p], wire'[p],
                  ~Browser(Far(p)), pc[Far(p)], open[Far(p)], wire'[Far(p)]),
           JobsOK(~Browser(p), pc'[p], open'[p], doing'[p])
    PROVE  MeshInv'
<1> DEFINE f == Far(p)
<1>1. f \in Pair /\ Far(f) = p /\ \A q \in Pair : q = p \/ q = f
  BY FarFacts
<1>2. SideOK(~Browser(p), pc'[p], open'[p], wire'[p], pc'[f], open'[f], wire'[f])
  BY DEF EndsOK, FarKept
<1>3. SideOK(~Browser(f), pc'[f], open'[f], wire'[f], pc'[p], open'[p], wire'[p])
  BY DEF EndsOK, FarKept
<1>4. JobsOK(~Browser(f), pc'[f], open'[f], doing'[f])
  BY <1>1, TheEnds DEF FarKept
<1>5. (Browser(p)' <=> Browser(p)) /\ (Browser(f)' <=> Browser(f))
  BY DEF Browser, FarKept
<1>6. SideOK(~Browser(p), pc[p], open[p], wire[p], pc[Far(p)], open[Far(p)], wire[Far(p)])'
  BY <1>2, <1>5
<1>7. SideOK(~Browser(f), pc[f], open[f], wire[f], pc[Far(f)], open[Far(f)], wire[Far(f)])'
  BY <1>1, <1>3, <1>5
<1>8. /\ JobsOK(~Browser(p), pc[p], open[p], doing[p])'
      /\ JobsOK(~Browser(f), pc[f], open[f], doing[f])'
  BY <1>4, <1>5
<1>9. QED
  BY <1>1, <1>6, <1>7, <1>8 DEF MeshInv

-----------------------------------------------------------------------------
(* Types *)

LEMMA FlagSet ==
    ASSUME NEW f \in [Pair -> BOOLEAN], NEW p \in Pair, NEW b \in BOOLEAN
    PROVE  [f EXCEPT ![p] = b] \in [Pair -> BOOLEAN]
OBVIOUS

Budgets == [rosters: 0..MaxRosters, media: 0..MaxMedia, faults: 0..MaxFaults]

LEMMA SpendTypes ==
    ASSUME ConstantsOK, budget \in Budgets, NEW what \in {"rosters", "media", "faults"}, Spend(what)
    PROVE  budget' \in Budgets
BY DEF ConstantsOK, Spend, Budgets

LEMMA StartTypes ==
    ASSUME TypeOK, NEW p \in Pair, NEW job \in {"dial", "answer", "media"}, NEW u \in Ufrag,
           Starts(p, job, u)
    PROVE  /\ doing' \in [Pair -> SUBSET Job]
           /\ doing'[p] = doing[p] \cup {[job |-> job, ufrag |-> u]}
           /\ doing'[Far(p)] = doing[Far(p)]
BY FarFacts DEF TypeOK, Starts, Job

LEMMA DoneTypes ==
    ASSUME TypeOK, NEW p \in Pair, NEW job \in doing[p], Done(p, job)
    PROVE  /\ doing' \in [Pair -> SUBSET Job]
           /\ doing'[p] \subseteq doing[p]
           /\ doing'[Far(p)] = doing[Far(p)]
BY FarFacts DEF TypeOK, Done

LEMMA SendTypes ==
    ASSUME TypeOK, NEW p \in Pair, NEW type \in {"offer", "answer"}, pc[p] # NoPc, Send(p, type)
    PROVE  /\ wire' \in [Pair -> Seq(Signal)]
           /\ [type |-> type, ufrag |-> pc[p].ufrag] \in Signal
           /\ Adds(wire[p], wire'[p], [type |-> type, ufrag |-> pc[p].ufrag])
           /\ wire'[Far(p)] = wire[Far(p)]
<1> DEFINE k == [type |-> type, ufrag |-> pc[p].ufrag]
<1>1. pc[p].ufrag \in Ufrag
  BY PcFacts DEF TypeOK
<1>2. k \in Signal
  BY <1>1 DEF Signal
<1>3. wire[p] \in Seq(Signal) /\ wire' = [wire EXCEPT ![p] = Append(wire[p], k)]
  BY DEF TypeOK, Send
<1> HIDE DEF k
<1>4. Append(wire[p], k) \in Seq(Signal) /\ Adds(wire[p], Append(wire[p], k), k)
  BY <1>2, <1>3, SentAdds
<1>5. /\ wire'[p] = Append(wire[p], k) /\ wire'[Far(p)] = wire[Far(p)]
      /\ wire' \in [Pair -> Seq(Signal)]
  BY <1>3, <1>4, FarFacts DEF TypeOK
<1>6. QED
  BY <1>2, <1>4, <1>5 DEF k

\* A frame is taken from the queue of q, or lost.
LEMMA FrameGone ==
    ASSUME TypeOK, NEW q \in Pair, wire[q] # <<>>, wire' = [wire EXCEPT ![q] = Tail(@)]
    PROVE  /\ wire' \in [Pair -> Seq(Signal)]
           /\ Keeps(wire[q], wire'[q]) /\ Took(wire[q], wire'[q], Head(wire[q]))
           /\ wire'[Far(q)] = wire[Far(q)]
           /\ Head(wire[q]) \in Signal
<1>1. wire[q] \in Seq(Signal)
  BY DEF TypeOK
<1>2. Tail(wire[q]) \in Seq(Signal) /\ Head(wire[q]) \in Signal
  BY <1>1, TailReads
<1>3. wire'[q] = Tail(wire[q]) /\ wire'[Far(q)] = wire[Far(q)] /\ wire' \in [Pair -> Seq(Signal)]
  BY <1>2, FarFacts DEF TypeOK
<1>4. QED
  BY <1>1, <1>2, <1>3, TailKeeps

States == {"stable", "have-local-offer", "have-remote-offer"}

\* Connections and channels after p has connection c and channel o.
PcsOK ==
    /\ pc \in [Pair -> Pc \cup {NoPc}]
    /\ open \in [Pair -> Ufrag \cup {0}]
    /\ \A p \in Pair : IsOpen(p) => open[p] = pc[p].ufrag

LEMMA PcTypes ==
    ASSUME PcsOK, NEW p \in Pair, NEW c \in Pc \cup {NoPc}, NEW o \in Ufrag \cup {0},
           pc' = [pc EXCEPT ![p] = c], open' = [open EXCEPT ![p] = o],
           o # 0 => o = c.ufrag
    PROVE  /\ PcsOK' /\ pc'[p] = c /\ open'[p] = o
           /\ pc'[Far(p)] = pc[Far(p)] /\ open'[Far(p)] = open[Far(p)]
<1>1. /\ pc'[p] = c /\ open'[p] = o
      /\ pc'[Far(p)] = pc[Far(p)] /\ open'[Far(p)] = open[Far(p)]
      /\ pc' \in [Pair -> Pc \cup {NoPc}] /\ open' \in [Pair -> Ufrag \cup {0}]
  BY FarFacts DEF PcsOK
<1>2. \A q \in Pair : open'[q] # 0 => open'[q] = pc'[q].ufrag
  BY <1>1, FarFacts DEF PcsOK, IsOpen
<1>3. QED
  BY <1>1, <1>2 DEF PcsOK, IsOpen

LEMMA TypesAre ==
    TypeOK <=> /\ PcsOK
               /\ kind \in [Pair -> {"browser", "node"}]
               /\ makingOffer \in [Pair -> BOOLEAN] /\ young \in [Pair -> BOOLEAN]
               /\ doing \in [Pair -> SUBSET Job]
               /\ wire \in [Pair -> Seq(Signal)]
               /\ budget \in Budgets
BY DEF TypeOK, PcsOK, Budgets

LEMMA NewPcMakes ==
    ASSUME TypeOK, NEW p \in Pair, NEW s \in States, NEW r \in Ufrag \cup {0},
           NEW for, NewPc(p, s, r, for)
    PROVE  /\ PcsOK' /\ Fresh \in Ufrag
           /\ pc'[p].ufrag = Fresh /\ pc'[p].state = s /\ pc'[p].remote = r
           /\ pc'[Far(p)] = pc[Far(p)] /\ open'[p] = 0 /\ open'[Far(p)] = open[Far(p)]
           /\ New(pc'[p], wire[p], pc[Far(p)], wire[Far(p)])
           /\ \A j \in doing[p] : j.ufrag # Fresh
<1> DEFINE f == Far(p)
           c == [ufrag |-> Fresh, remote |-> r, state |-> s, role |-> "none",
                 channels |-> for = "dial", listens |-> for = "offer"]
<1>1. Fresh \in Unused
  BY DEF NewPc, Fresh
<1>2. /\ Fresh \in Ufrag
      /\ \A q \in Pair :
            /\ pc[q] # NoPc => Fresh # pc[q].ufrag /\ Fresh # pc[q].remote
            /\ \A j \in doing[q] : Fresh # j.ufrag
            /\ \A k \in Range(wire[q]) : Fresh # k.ufrag
  BY <1>1 DEF Unused
<1>3. c \in Pc
  BY <1>2 DEF Pc, States
<1>4. c.ufrag = Fresh /\ c.state = s /\ c.remote = r /\ c.role = "none"
  OBVIOUS
<1>5. pc' = [pc EXCEPT ![p] = c] /\ open' = [open EXCEPT ![p] = 0]
  BY DEF NewPc
<1> HIDE DEF c
<1>6. /\ PcsOK' /\ pc'[p] = c /\ open'[p] = 0
      /\ pc'[Far(p)] = pc[Far(p)] /\ open'[Far(p)] = open[Far(p)]
  BY <1>3, <1>5, PcTypes, TypesAre
<1>7. ASSUME NEW q \in Pair PROVE NoneOf(wire[q], Fresh)
  <2>1. wire[q] \in Seq(Signal)
    BY DEF TypeOK
  <2>2. \A i \in 1..Len(wire[q]) : wire[q][i] \in Range(wire[q])
    BY <2>1 DEF Range
  <2>3. QED
    BY <1>2, <2>2 DEF NoneOf
<1>8. New(c, wire[p], pc[f], wire[f])
  BY <1>2, <1>3, <1>4, <1>7, FarFacts, PcFacts DEF New
<1>9. QED
  BY <1>2, <1>4, <1>6, <1>8

-----------------------------------------------------------------------------
(* Every action keeps both *)

\* Jobs that are left, or make no offer on a link.
LEMMA JobsKept ==
    ASSUME NEW n, NEW c, NEW o, NEW D, NEW c2, NEW o2, NEW D2, JobsOK(n, c, o, D),
           \A j \in D2 : j \in D \/ j.job # "media",
           (c2.ufrag = c.ufrag /\ o2 = o) \/ (\A j \in D : j.ufrag # c2.ufrag)
    PROVE  JobsOK(n, c2, o2, D2)
BY DEF JobsOK

LEMMA InitiateKeeps ==
    ASSUME Good, NEW p \in Pair, Initiate(p), budget' \in Budgets
    PROVE  Good'
<1> DEFINE f == Far(p)
<1> USE DEF Good
<1>1. NewPc(p, "stable", 0, "dial")
  BY DEF Initiate
<1>2. /\ PcsOK' /\ Fresh \in Ufrag
      /\ pc'[p].ufrag = Fresh /\ pc'[p].state = "stable" /\ pc'[p].remote = 0
      /\ pc'[f] = pc[f] /\ open'[p] = 0 /\ open'[f] = open[f]
      /\ New(pc'[p], wire[p], pc[f], wire[f])
      /\ \A j \in doing[p] : j.ufrag # Fresh
  BY <1>1, NewPcMakes DEF States
<1>3. /\ doing' \in [Pair -> SUBSET Job]
      /\ doing'[p] = doing[p] \cup {[job |-> "dial", ufrag |-> Fresh]}
      /\ doing'[f] = doing[f]
  BY <1>2, StartTypes DEF Initiate
<1>4. young' \in [Pair -> BOOLEAN]
  BY FlagSet DEF Initiate, TypeOK
<1>5. makingOffer' \in [Pair -> BOOLEAN]
  <2>1. (makingOffer[p] \/ ~Browser(p)) \in BOOLEAN
    OBVIOUS
  <2>2. QED
    BY <2>1, FlagSet DEF Initiate, TypeOK
<1>6. kind' = kind /\ wire' = wire
  BY DEF Initiate
<1>7. TypeOK'
  <2>1. kind' \in [Pair -> {"browser", "node"}] /\ wire' \in [Pair -> Seq(Signal)]
    BY <1>6, TypesAre
  <2>2. QED
    BY <1>2, <1>3, <1>4, <1>5, <2>1 DEF TypeOK, PcsOK, Budgets
<1>8. FarKept(p)
  BY <1>2, <1>3, <1>6 DEF FarKept
<1>9. EndsOK(~Browser(p), pc'[p], open'[p], wire'[p], ~Browser(f), pc[f], open[f], wire'[f])
  <2>1. wire[f] \in Seq(Signal) /\ Named(pc[f])
    BY FarFacts, PcFacts DEF TypeOK
  <2>2. Keeps(wire[f], wire[f])
    BY SameKeeps
  <2>3. EndsOK(~Browser(p), pc[p], open[p], wire[p], ~Browser(f), pc[f], open[f], wire[f])
    BY TheEnds
  <2> HIDE DEF f
  <2>4. EndsOK(~Browser(p), pc'[p], 0, wire[p], ~Browser(f), pc[f], open[f], wire[f])
    BY <1>2, <2>1, <2>2, <2>3, DialStep
  <2>5. QED
    BY <1>2, <1>6, <2>4
<1>10. JobsOK(~Browser(p), pc'[p], open'[p], doing'[p])
  <2>1. \A j \in doing'[p] : j \in doing[p] \/ j.job # "media"
    BY <1>3
  <2>2. \A j \in doing[p] : j.ufrag # pc'[p].ufrag
    BY <1>2
  <2>3. QED
    BY <2>1, <2>2, TheEnds, JobsKept
<1>11. QED
  BY <1>7, <1>8, <1>9, <1>10, OneEndMoves

LEMMA OnPeersKeeps ==
    ASSUME ConstantsOK, Good, NEW p \in Pair, OnPeers(p) PROVE Good'
<1>1. budget \in Budgets
  BY TypesAre DEF Good
<1>2. budget' \in Budgets
  BY <1>1, SpendTypes DEF OnPeers
<1>3. QED
  BY <1>2, InitiateKeeps DEF OnPeers

LEMMA SweepKeeps ==
    ASSUME Good, NEW p \in Pair, Sweep(p) PROVE Good'
<1>1. budget' \in Budgets
  BY TypesAre DEF Good, Sweep
<1>2. QED
  BY <1>1, InitiateKeeps DEF Sweep

LEMMA CleanupKeeps ==
    ASSUME Good, NEW p \in Pair, Cleanup(p), UNCHANGED <<kind, doing, wire>>, budget' \in Budgets
    PROVE  Good'
<1> DEFINE f == Far(p)
<1> USE DEF Good
<1>1. /\ PcsOK' /\ pc'[p] = NoPc /\ open'[p] = 0
      /\ pc'[f] = pc[f] /\ open'[f] = open[f]
  BY TypesAre, PcTypes DEF Cleanup
<1>2. makingOffer' \in [Pair -> BOOLEAN] /\ young' \in [Pair -> BOOLEAN]
  <2>1. (makingOffer[p] /\ Browser(p)) \in BOOLEAN /\ (young[p] /\ Browser(p)) \in BOOLEAN
    OBVIOUS
  <2>2. makingOffer' = [makingOffer EXCEPT ![p] = makingOffer[p] /\ Browser(p)]
    BY DEF Cleanup
  <2>3. young' = [young EXCEPT ![p] = young[p] /\ Browser(p)]
    BY DEF Cleanup
  <2>4. makingOffer' \in [Pair -> BOOLEAN]
    BY <2>1, <2>2, FlagSet DEF TypeOK
  <2>5. young' \in [Pair -> BOOLEAN]
    BY <2>1, <2>3, FlagSet DEF TypeOK
  <2>6. QED
    BY <2>4, <2>5
<1>3. TypeOK'
  <2>1. /\ kind' \in [Pair -> {"browser", "node"}] /\ wire' \in [Pair -> Seq(Signal)]
        /\ doing' \in [Pair -> SUBSET Job]
    BY TypesAre
  <2>2. QED
    BY <1>1, <1>2, <2>1 DEF TypeOK, PcsOK, Budgets
<1>4. FarKept(p)
  BY <1>1 DEF FarKept
<1>5. EndsOK(~Browser(p), pc'[p], open'[p], wire'[p], ~Browser(f), pc[f], open[f], wire'[f])
  <2>1. wire[p] \in Seq(Signal) /\ Named(NoPc)
    BY PcFacts DEF TypeOK
  <2>2. EndsOK(~Browser(p), pc[p], open[p], wire[p], ~Browser(f), pc[f], open[f], wire[f])
    BY TheEnds
  <2> HIDE DEF f
  <2>3. EndsOK(~Browser(p), NoPc, 0, wire[p], ~Browser(f), pc[f], open[f], wire[f])
    BY <2>1, <2>2, GoneStep
  <2>4. QED
    BY <1>1, <2>3
<1>6. JobsOK(~Browser(p), pc'[p], open'[p], doing'[p])
  <2>1. \A j \in doing[p] : j.ufrag # 0
    BY PcFacts DEF TypeOK, Job
  <2>2. \A j \in doing[p] : j.ufrag # pc'[p].ufrag
    BY <1>1, <2>1, PcFacts
  <2>3. QED
    BY <2>2, TheEnds, JobsKept
<1>7. QED
  BY <1>3, <1>4, <1>5, <1>6, OneEndMoves

\* Nothing but frames, flags and jobs changes.
LEMMA QuietKeeps ==
    ASSUME Good, NEW p \in Pair, UNCHANGED <<kind, pc, open>>, budget' \in Budgets,
           makingOffer' \in [Pair -> BOOLEAN], young' \in [Pair -> BOOLEAN],
           doing' \in [Pair -> SUBSET Job], doing'[Far(p)] = doing[Far(p)],
           JobsOK(~Browser(p), pc[p], open[p], doing'[p]),
           wire' \in [Pair -> Seq(Signal)],
           Keeps(wire[p], wire'[p]), Keeps(wire[Far(p)], wire'[Far(p)])
    PROVE  Good'
<1> DEFINE f == Far(p)
<1> USE DEF Good
<1>1. TypeOK'
  <2>1. PcsOK' /\ kind' \in [Pair -> {"browser", "node"}]
    BY TypesAre DEF PcsOK, IsOpen
  <2>2. QED
    BY <2>1 DEF TypeOK, PcsOK, Budgets
<1>2. FarKept(p)
  BY DEF FarKept
<1>3. EndsOK(~Browser(p), pc'[p], open'[p], wire'[p], ~Browser(f), pc[f], open[f], wire'[f])
  <2>1. EndsOK(~Browser(p), pc[p], open[p], wire[p], ~Browser(f), pc[f], open[f], wire[f])
    BY TheEnds
  <2> HIDE DEF f
  <2>2. Keeps(wire[f], wire'[f])
    BY DEF f
  <2>3. EndsOK(~Browser(p), pc[p], open[p], wire'[p], ~Browser(f), pc[f], open[f], wire'[f])
    BY <2>1, <2>2, QuietStep
  <2>4. QED
    BY <2>3
<1>4. QED
  BY <1>1, <1>2, <1>3, OneEndMoves

LEMMA ReapOrphansKeeps ==
    ASSUME Good, NEW p \in Pair, ReapOrphans(p) PROVE Good'
<1>1. budget' \in Budgets
  BY TypesAre DEF Good, ReapOrphans
<1>2. QED
  BY <1>1, CleanupKeeps DEF ReapOrphans

LEMMA BreakKeeps ==
    ASSUME ConstantsOK, Good, NEW p \in Pair, Break(p) PROVE Good'
<1>1. budget' \in Budgets
  BY TypesAre, SpendTypes DEF Good, Break
<1>2. QED
  BY <1>1, CleanupKeeps DEF Break

LEMMA FailsKeeps ==
    ASSUME Good, NEW p \in Pair, Fails(p) PROVE Good'
<1>1. budget' \in Budgets
  BY TypesAre DEF Good, Fails
<1>2. QED
  BY <1>1, CleanupKeeps DEF Fails

LEMMA AgesKeeps ==
    ASSUME Good, NEW p \in Pair, Ages(p) PROVE Good'
<1> USE DEF Good
<1>1. young' \in [Pair -> BOOLEAN]
  BY FlagSet, TypesAre DEF Ages
<1>2. /\ budget' \in Budgets /\ makingOffer' \in [Pair -> BOOLEAN]
      /\ doing' \in [Pair -> SUBSET Job] /\ wire' \in [Pair -> Seq(Signal)]
  BY TypesAre DEF Ages
<1>3. /\ UNCHANGED <<kind, pc, open>> /\ doing' = doing /\ wire' = wire
  BY DEF Ages
<1>4. JobsOK(~Browser(p), pc[p], open[p], doing'[p])
  BY <1>3, TheEnds
<1>5. Keeps(wire[p], wire'[p]) /\ Keeps(wire[Far(p)], wire'[Far(p)])
  BY <1>3, SameKeeps
<1>6. QED
  BY <1>1, <1>2, <1>3, <1>4, <1>5, QuietKeeps

LEMMA RenegotiateKeeps ==
    ASSUME ConstantsOK, Good, NEW p \in Pair, Renegotiate(p) PROVE Good'
<1> USE DEF Good
<1>1. pc[p] # NoPc /\ pc[p].ufrag \in Ufrag /\ open[p] # 0
  <2>1. open[p] # 0 /\ open[p] \in Ufrag \cup {0} /\ open[p] = pc[p].ufrag
    BY DEF Renegotiate, IsOpen, TypeOK
  <2>2. QED
    BY <2>1, PcFacts
<1>2. /\ doing' \in [Pair -> SUBSET Job]
      /\ doing'[p] = doing[p] \cup {[job |-> "media", ufrag |-> pc[p].ufrag]}
      /\ doing'[Far(p)] = doing[Far(p)]
  BY <1>1, StartTypes DEF Renegotiate
<1>3. makingOffer' \in [Pair -> BOOLEAN]
  BY FlagSet, TypesAre DEF Renegotiate
<1>4. budget' \in Budgets
  BY SpendTypes, TypesAre DEF Renegotiate
<1>5. /\ UNCHANGED <<kind, pc, open, wire>>
      /\ young' \in [Pair -> BOOLEAN] /\ wire' \in [Pair -> Seq(Signal)]
  BY TypesAre DEF Renegotiate
<1>6. JobsOK(~Browser(p), pc[p], open[p], doing'[p])
  BY <1>1, <1>2, TheEnds DEF JobsOK, Renegotiate
<1>7. Keeps(wire[p], wire'[p]) /\ Keeps(wire[Far(p)], wire'[Far(p)])
  BY <1>5, SameKeeps
<1>8. QED
  BY <1>2, <1>3, <1>4, <1>5, <1>6, <1>7, QuietKeeps

LEMMA LoseKeeps ==
    ASSUME ConstantsOK, Good, NEW p \in Pair, Lose(p) PROVE Good'
<1> USE DEF Good
<1>1. /\ wire' \in [Pair -> Seq(Signal)]
      /\ Keeps(wire[p], wire'[p]) /\ wire'[Far(p)] = wire[Far(p)]
  BY FrameGone DEF Lose
<1>2. Keeps(wire[Far(p)], wire'[Far(p)])
  BY <1>1, SameKeeps
<1>3. budget' \in Budgets
  BY SpendTypes, TypesAre DEF Lose
<1>4. /\ UNCHANGED <<kind, pc, open>> /\ doing' = doing
      /\ makingOffer' \in [Pair -> BOOLEAN] /\ young' \in [Pair -> BOOLEAN]
      /\ doing' \in [Pair -> SUBSET Job]
  BY TypesAre DEF Lose
<1>5. JobsOK(~Browser(p), pc[p], open[p], doing'[p])
  BY <1>4, TheEnds
<1>6. QED
  BY <1>1, <1>2, <1>3, <1>4, <1>5, QuietKeeps

LEMMA LinkedIsJoined ==
    ASSUME Linked, NEW p \in Pair PROVE Joined(pc[p], pc[Far(p)])
<1>1. /\ pc[p] # NoPc /\ pc[p].remote = pc[Far(p)].ufrag
      /\ pc[Far(p)] # NoPc /\ pc[Far(p)].remote = pc[p].ufrag
  BY FarFacts DEF Linked
<1>2. {pc[q].role : q \in Pair} = {pc[p].role, pc[Far(p)].role}
  BY FarFacts
<1>3. {pc[p].role, pc[Far(p)].role} = {"offered", "answered"}
  BY <1>2 DEF Linked
<1>4. QED
  BY <1>1, <1>3 DEF Joined, Knows

LEMMA ChannelOpensKeeps ==
    ASSUME Good, NEW p \in Pair, ChannelOpens(p) PROVE Good'
<1> DEFINE f == Far(p)
<1> USE DEF Good
<1>1. Joined(pc[p], pc[f]) /\ pc[p] # NoPc /\ open[p] = 0
  BY LinkedIsJoined DEF ChannelOpens, IsOpen, Joined, Knows
<1>2. pc[p].ufrag \in Ufrag /\ pc[p].ufrag # 0 /\ pc[p] \in Pc \cup {NoPc}
  BY <1>1, PcFacts DEF TypeOK
<1>3. pc' = [pc EXCEPT ![p] = pc[p]] /\ open' = [open EXCEPT ![p] = pc[p].ufrag]
  BY DEF ChannelOpens, TypeOK
<1>4. /\ PcsOK' /\ pc'[p] = pc[p] /\ open'[p] = pc[p].ufrag
      /\ pc'[f] = pc[f] /\ open'[f] = open[f]
  BY <1>2, <1>3, PcTypes, TypesAre
<1>5. young' \in [Pair -> BOOLEAN]
  <2>1. (young[p] /\ ~Browser(p)) \in BOOLEAN
    OBVIOUS
  <2>2. young' = [young EXCEPT ![p] = young[p] /\ ~Browser(p)]
    BY DEF ChannelOpens
  <2>3. QED
    BY <2>1, <2>2, FlagSet, TypesAre
<1>6. UNCHANGED <<kind, makingOffer, doing, wire, budget>>
  BY DEF ChannelOpens
<1>7. TypeOK'
  <2>1. /\ kind' \in [Pair -> {"browser", "node"}] /\ wire' \in [Pair -> Seq(Signal)]
        /\ doing' \in [Pair -> SUBSET Job] /\ budget' \in Budgets
        /\ makingOffer' \in [Pair -> BOOLEAN]
    BY <1>6, TypesAre
  <2>2. QED
    BY <1>4, <1>5, <2>1 DEF TypeOK, PcsOK, Budgets
<1>8. FarKept(p)
  BY <1>4, <1>6 DEF FarKept
<1>9. EndsOK(~Browser(p), pc'[p], open'[p], wire'[p], ~Browser(f), pc[f], open[f], wire'[f])
  <2>1. EndsOK(~Browser(p), pc[p], open[p], wire[p], ~Browser(f), pc[f], open[f], wire[f])
    BY TheEnds
  <2> HIDE DEF f
  <2>2. EndsOK(~Browser(p), pc[p], pc[p].ufrag, wire[p], ~Browser(f), pc[f], open[f], wire[f])
    BY <1>1, <1>2, <2>1, OpenStep
  <2>3. QED
    BY <1>4, <1>6, <2>2
<1>10. JobsOK(~Browser(p), pc'[p], open'[p], doing'[p])
  BY <1>2, <1>4, <1>6, TheEnds DEF JobsOK
<1>11. QED
  BY <1>7, <1>8, <1>9, <1>10, OneEndMoves

\* What a step of p with its connection c, which had it already, has to show.
LEMMA SamePcKeeps ==
    ASSUME Good, NEW p \in Pair, NEW c \in Pc,
           pc' = [pc EXCEPT ![p] = c], c.ufrag = pc[p].ufrag, UNCHANGED <<kind, open, budget>>,
           makingOffer' \in [Pair -> BOOLEAN], young' \in [Pair -> BOOLEAN],
           doing' \in [Pair -> SUBSET Job], doing'[Far(p)] = doing[Far(p)],
           \A j \in doing'[p] : j \in doing[p] \/ j.job # "media",
           wire' \in [Pair -> Seq(Signal)],
           EndsOK(~Browser(p), c, open[p], wire'[p],
                  ~Browser(Far(p)), pc[Far(p)], open[Far(p)], wire'[Far(p)])
    PROVE  Good' /\ pc'[p] = c /\ pc'[Far(p)] = pc[Far(p)]
<1> USE DEF Good
<1>1. /\ open' = [open EXCEPT ![p] = open[p]] /\ open[p] \in Ufrag \cup {0}
      /\ open[p] # 0 => open[p] = c.ufrag
  BY DEF TypeOK, IsOpen
<1>2. /\ PcsOK' /\ pc'[p] = c /\ open'[p] = open[p]
      /\ pc'[Far(p)] = pc[Far(p)] /\ open'[Far(p)] = open[Far(p)]
  BY <1>1, PcTypes, TypesAre
<1>3. TypeOK'
  <2>1. kind' \in [Pair -> {"browser", "node"}] /\ budget' \in Budgets
    BY TypesAre
  <2>2. QED
    BY <1>2, <2>1 DEF TypeOK, PcsOK, Budgets
<1>4. FarKept(p)
  BY <1>2 DEF FarKept
<1>5. JobsOK(~Browser(p), pc'[p], open'[p], doing'[p])
  <2>1. JobsOK(~Browser(p), pc[p], open[p], doing[p])
    BY TheEnds
  <2>2. pc'[p].ufrag = pc[p].ufrag /\ open'[p] = open[p]
    BY <1>2
  <2>3. \A j \in doing'[p] : j \in doing[p] \/ j.job # "media"
    OBVIOUS
  <2>4. QED
    BY <2>1, <2>2, <2>3 DEF JobsOK
<1>6. QED
  BY <1>2, <1>3, <1>4, <1>5, OneEndMoves

LEMMA OfferMadeKeeps ==
    ASSUME Good, NEW p \in Pair, NEW job \in doing[p], OfferMade(p, job)
    PROVE  Good'
<1> DEFINE f == Far(p)
           makes == /\ pc[p].ufrag = job.ufrag /\ pc[p].state = "stable"
                    /\ job.job = "dial" => pc[p].role = "none"
<1> USE DEF Good
<1>1. job \in Job /\ job.ufrag # 0 /\ (job.job = "dial" \/ job.job = "media")
  BY PcFacts DEF TypeOK, Job, OfferMade
<1>2. /\ doing' \in [Pair -> SUBSET Job] /\ doing'[p] \subseteq doing[p]
      /\ doing'[f] = doing[f]
  BY DoneTypes DEF OfferMade
<1>3. makingOffer' \in [Pair -> BOOLEAN]
  <2>1. (makingOffer[p] /\ Browser(p) /\ job.job = "dial") \in BOOLEAN
    OBVIOUS
  <2>2. makingOffer' = [makingOffer EXCEPT ![p] = makingOffer[p] /\ Browser(p) /\ job.job = "dial"]
    BY DEF OfferMade
  <2>3. QED
    BY <2>1, <2>2, FlagSet, TypesAre
<1>4. UNCHANGED <<kind, open, young, budget>> /\ young' \in [Pair -> BOOLEAN] /\ budget' \in Budgets
  BY TypesAre DEF OfferMade
<1>5. EndsOK(~Browser(p), pc[p], open[p], wire[p], ~Browser(f), pc[f], open[f], wire[f])
  BY TheEnds
<1>6. JobsOK(~Browser(p), pc[p], open[p], doing[p])
  BY TheEnds
<1>7. CASE ~makes
  <2>1. pc' = pc /\ wire' = wire
    BY <1>7 DEF OfferMade
  <2>2. Keeps(wire[p], wire'[p]) /\ Keeps(wire[Far(p)], wire'[Far(p)])
    BY <2>1, SameKeeps
  <2>3. JobsOK(~Browser(p), pc[p], open[p], doing'[p])
    BY <1>2, <1>6 DEF JobsOK
  <2>4. wire' \in [Pair -> Seq(Signal)]
    BY <2>1, TypesAre
  <2>5. QED
    BY <1>2, <1>3, <1>4, <2>1, <2>2, <2>3, <2>4, QuietKeeps
<1>8. CASE makes
  <2> DEFINE c == [pc[p] EXCEPT !.state = "have-local-offer"]
             k == [type |-> "offer", ufrag |-> pc[p].ufrag]
  <2>1. pc' = [pc EXCEPT ![p] = c] /\ Send(p, "offer")
    BY <1>8 DEF OfferMade
  <2>2. pc[p] \in Pc
    BY <1>1, <1>8, PcFacts DEF TypeOK
  <2>3. /\ c \in Pc /\ c.ufrag = pc[p].ufrag /\ c.role = pc[p].role
        /\ c.remote = pc[p].remote /\ c.state = "have-local-offer"
    BY <2>2 DEF Pc
  <2>4. c # NoPc /\ pc[p] # NoPc
    BY <2>2, <2>3, PcFacts
  <2>5. /\ wire' \in [Pair -> Seq(Signal)]
        /\ Adds(wire[p], wire'[p], k) /\ wire'[f] = wire[f]
    BY <2>1, <2>4, SendTypes
  <2>6. IsOffer(k) /\ k.ufrag = pc[p].ufrag
    BY DEF IsOffer
  <2>7. pc[p].role = "none" \/ (Browser(p) /\ open[p] # 0)
    BY <1>1, <1>6, <1>8 DEF JobsOK
  <2> HIDE DEF c, k, f
  <2>8. EndsOK(~Browser(p), c, open[p], wire'[p], ~Browser(f), pc[f], open[f], wire[f])
    BY <1>5, <1>8, <2>3, <2>4, <2>5, <2>6, <2>7, OfferStep
  <2>9. EndsOK(~Browser(p), c, open[p], wire'[p],
               ~Browser(Far(p)), pc[Far(p)], open[Far(p)], wire'[Far(p)])
    BY <2>5, <2>8 DEF f
  <2>10. \A j \in doing'[p] : j \in doing[p] \/ j.job # "media"
    BY <1>2
  <2>11. doing'[Far(p)] = doing[Far(p)]
    BY <1>2 DEF f
  <2>12. QED
    BY <1>2, <1>3, <1>4, <2>1, <2>3, <2>5, <2>9, <2>10, <2>11, SamePcKeeps
<1>9. QED
  BY <1>7, <1>8

LEMMA AnswerMadeKeeps ==
    ASSUME Good, NEW p \in Pair, NEW job \in doing[p], AnswerMade(p, job)
    PROVE  Good'
<1> DEFINE f == Far(p)
           makes == pc[p].ufrag = job.ufrag /\ pc[p].state = "have-remote-offer"
<1> USE DEF Good
<1>1. job \in Job /\ job.ufrag # 0
  BY PcFacts DEF TypeOK, Job
<1>2. /\ doing' \in [Pair -> SUBSET Job] /\ doing'[p] \subseteq doing[p]
      /\ doing'[f] = doing[f]
  BY DoneTypes DEF AnswerMade
<1>3. UNCHANGED <<kind, open, makingOffer, young, budget>>
  BY DEF AnswerMade
<1>4. makingOffer' \in [Pair -> BOOLEAN] /\ young' \in [Pair -> BOOLEAN] /\ budget' \in Budgets
  BY <1>3, TypesAre
<1>5. EndsOK(~Browser(p), pc[p], open[p], wire[p], ~Browser(f), pc[f], open[f], wire[f])
  BY TheEnds
<1>6. JobsOK(~Browser(p), pc[p], open[p], doing[p])
  BY TheEnds
<1>7. CASE ~makes
  <2>1. pc' = pc /\ wire' = wire
    BY <1>7 DEF AnswerMade
  <2>2. Keeps(wire[p], wire'[p]) /\ Keeps(wire[Far(p)], wire'[Far(p)])
    BY <2>1, SameKeeps
  <2>3. JobsOK(~Browser(p), pc[p], open[p], doing'[p])
    BY <1>2, <1>6 DEF JobsOK
  <2>4. wire' \in [Pair -> Seq(Signal)]
    BY <2>1, TypesAre
  <2>5. QED
    BY <1>2, <1>3, <1>4, <2>1, <2>2, <2>3, <2>4, QuietKeeps
<1>8. CASE makes
  <2> DEFINE c == [pc[p] EXCEPT !.state = "stable", !.remote = pc[p].remote,
                                !.role = IF @ = "none" THEN "answered" ELSE @]
             k == [type |-> "answer", ufrag |-> pc[p].ufrag]
  <2>1. pc' = [pc EXCEPT ![p] = c] /\ Send(p, "answer")
    BY <1>8 DEF AnswerMade, Settled, TypeOK
  <2>2. pc[p] \in Pc
    BY <1>1, <1>8, PcFacts DEF TypeOK
  <2>3. /\ c \in Pc /\ c.ufrag = pc[p].ufrag
        /\ c.role = (IF pc[p].role = "none" THEN "answered" ELSE pc[p].role)
        /\ c.remote = pc[p].remote /\ c.state = "stable"
    BY <2>2 DEF Pc
  <2>4. c # NoPc /\ pc[p] # NoPc
    BY <2>2, <2>3, PcFacts
  <2>5. /\ wire' \in [Pair -> Seq(Signal)]
        /\ Adds(wire[p], wire'[p], k) /\ wire'[f] = wire[f]
    BY <2>1, <2>4, SendTypes
  <2>6. IsAnswer(k) /\ ~IsOffer(k) /\ k.ufrag = pc[p].ufrag
    BY DEF IsOffer, IsAnswer
  <2> HIDE DEF c, k, f
  <2>7. EndsOK(~Browser(p), c, open[p], wire'[p], ~Browser(f), pc[f], open[f], wire[f])
    BY <1>5, <1>8, <2>3, <2>4, <2>5, <2>6, AnswerStep
  <2>8. EndsOK(~Browser(p), c, open[p], wire'[p],
               ~Browser(Far(p)), pc[Far(p)], open[Far(p)], wire'[Far(p)])
    BY <2>5, <2>7 DEF f
  <2>9. \A j \in doing'[p] : j \in doing[p] \/ j.job # "media"
    BY <1>2
  <2>10. doing'[Far(p)] = doing[Far(p)]
    BY <1>2 DEF f
  <2>11. QED
    BY <1>2, <1>3, <1>4, <2>1, <2>3, <2>5, <2>8, <2>9, <2>10, SamePcKeeps
<1>9. QED
  BY <1>7, <1>8

LEMMA TakeTypes ==
    ASSUME TypeOK, NEW p \in Pair, wire[Far(p)] # <<>>, Take(p)
    PROVE  /\ wire' \in [Pair -> Seq(Signal)] /\ wire'[p] = wire[p]
           /\ Keeps(wire[Far(p)], wire'[Far(p)])
           /\ Took(wire[Far(p)], wire'[Far(p)], Head(wire[Far(p)]))
           /\ Head(wire[Far(p)]) \in Signal
           /\ Head(wire[Far(p)]).ufrag \in Ufrag /\ Head(wire[Far(p)]).ufrag # 0
           /\ wire[Far(p)] \in Seq(Signal) /\ wire'[Far(p)] \in Seq(Signal)
<1>1. Far(p) \in Pair /\ Far(Far(p)) = p
  BY FarFacts
<1>2. /\ wire' \in [Pair -> Seq(Signal)] /\ wire'[p] = wire[p]
      /\ Keeps(wire[Far(p)], wire'[Far(p)])
      /\ Took(wire[Far(p)], wire'[Far(p)], Head(wire[Far(p)]))
      /\ Head(wire[Far(p)]) \in Signal
  BY <1>1, FrameGone DEF Take
<1>3. Head(wire[Far(p)]).ufrag \in Ufrag /\ 0 \notin Ufrag
  BY <1>2, PcFacts DEF Signal
<1>4. QED
  BY <1>1, <1>2, <1>3 DEF TypeOK

LEMMA OnAnswerKeeps ==
    ASSUME Good, NEW p \in Pair, OnAnswer(p) PROVE Good'
<1> DEFINE f == Far(p)
           m == Head(wire[f])
           settles == pc[p] # NoPc /\ pc[p].state = "have-local-offer"
<1> USE DEF Good
<1>1. wire[f] # <<>> /\ IsAnswer(m) /\ Take(p)
  BY DEF OnAnswer, Gets, IsAnswer
<1>2. /\ wire' \in [Pair -> Seq(Signal)] /\ wire'[p] = wire[p]
      /\ Keeps(wire[f], wire'[f]) /\ Took(wire[f], wire'[f], m)
      /\ m.ufrag \in Ufrag /\ m.ufrag # 0
  BY <1>1, TakeTypes
<1>3. UNCHANGED <<kind, open, young, doing, budget>>
  BY DEF OnAnswer
<1>4. /\ young' \in [Pair -> BOOLEAN] /\ budget' \in Budgets
      /\ doing' \in [Pair -> SUBSET Job] /\ doing' = doing
  BY <1>3, TypesAre
<1>5. EndsOK(~Browser(p), pc[p], open[p], wire[p], ~Browser(f), pc[f], open[f], wire[f])
  BY TheEnds
<1>6. CASE ~settles
  <2>1. pc' = pc /\ makingOffer' = makingOffer
    BY <1>6 DEF OnAnswer
  <2>2. Keeps(wire[p], wire'[p])
    BY <1>2, SameKeeps
  <2>3. JobsOK(~Browser(p), pc[p], open[p], doing'[p])
    BY <1>4, TheEnds
  <2>4. makingOffer' \in [Pair -> BOOLEAN]
    BY <2>1, TypesAre
  <2>5. QED
    BY <1>2, <1>3, <1>4, <2>1, <2>2, <2>3, <2>4, QuietKeeps
<1>7. CASE settles
  <2> DEFINE c == [pc[p] EXCEPT !.state = "stable", !.remote = m.ufrag,
                                !.role = IF @ = "none" THEN "offered" ELSE @]
  <2>1. pc' = [pc EXCEPT ![p] = c]
    BY <1>7 DEF OnAnswer, Settled, TypeOK
  <2>2. makingOffer' \in [Pair -> BOOLEAN]
    <3>1. (makingOffer[p] /\ Browser(p)) \in BOOLEAN
      OBVIOUS
    <3>2. makingOffer' = [makingOffer EXCEPT ![p] = makingOffer[p] /\ Browser(p)]
      BY <1>7 DEF OnAnswer
    <3>3. QED
      BY <3>1, <3>2, FlagSet, TypesAre
  <2>3. pc[p] \in Pc
    BY <1>7, PcFacts DEF TypeOK
  <2> HIDE DEF m
  <2>4. /\ c \in Pc /\ c.ufrag = pc[p].ufrag
        /\ c.role = (IF pc[p].role = "none" THEN "offered" ELSE pc[p].role)
        /\ c.remote = m.ufrag /\ c.state = "stable"
    BY <1>2, <2>3 DEF Pc
  <2>5. c # NoPc /\ pc[p] # NoPc
    BY <2>3, <2>4, PcFacts
  <2> HIDE DEF c, f
  <2>6. EndsOK(~Browser(p), c, open[p], wire[p], ~Browser(f), pc[f], open[f], wire'[f])
    BY <1>1, <1>2, <1>5, <1>7, <2>4, <2>5, SettleStep
  <2>7. EndsOK(~Browser(p), c, open[p], wire'[p],
               ~Browser(Far(p)), pc[Far(p)], open[Far(p)], wire'[Far(p)])
    BY <1>2, <2>6 DEF f
  <2>8. \A j \in doing'[p] : j \in doing[p] \/ j.job # "media"
    BY <1>4
  <2>9. QED
    BY <1>2, <1>3, <1>4, <2>1, <2>2, <2>4, <2>7, <2>8, SamePcKeeps
<1>8. QED
  BY <1>6, <1>7

\* Who takes an offer on the connection it has knows no other session.
TakesOn(p, m) ==
    /\ pc[p] # NoPc /\ (pc[p].remote = 0 \/ pc[p].remote = m.ufrag)
    /\ ~Browser(p) => pc[p].state = "stable" /\ pc[p].remote = m.ufrag /\ open[p] # 0

LEMMA OfferCases ==
    ASSUME NEW p \in Pair, OnOffer(p), NEW m, m = Head(wire[Far(p)])
    PROVE  \/ NewPc(p, "stable", 0, "offer") /\ UNCHANGED <<makingOffer, doing>>
           \/ AnswerAnew(p, m)
           \/ Ignore
           \/ TakesOn(p, m) /\ AnswerOnIt(p, m)
<1>1. CASE Browser(p)
  <2>1. BrowserOnOffer(p, m)
    BY <1>1 DEF OnOffer
  <2>2. QED
    BY <1>1, <2>1 DEF BrowserOnOffer, Elsewhere, TakesOn
<1>2. CASE ~Browser(p)
  <2>1. NodeOnOffer(p, m)
    BY <1>2 DEF OnOffer
  <2>2. QED
    BY <2>1 DEF NodeOnOffer, IsOpen, TakesOn
<1>3. QED
  BY <1>1, <1>2

LEMMA OnOfferKeeps ==
    ASSUME Good, NEW p \in Pair, OnOffer(p) PROVE Good'
<1> DEFINE f == Far(p)
           m == Head(wire[f])
<1> USE DEF Good
<1>1. wire[f] # <<>> /\ IsOffer(m) /\ Take(p)
  BY DEF OnOffer, Gets, IsOffer
<1>2. /\ wire' \in [Pair -> Seq(Signal)] /\ wire'[p] = wire[p]
      /\ Keeps(wire[f], wire'[f]) /\ Took(wire[f], wire'[f], m)
      /\ m.ufrag \in Ufrag /\ m.ufrag # 0
      /\ wire[f] \in Seq(Signal) /\ wire'[f] \in Seq(Signal)
  BY <1>1, TakeTypes
<1>3. UNCHANGED <<kind, budget>> /\ budget' \in Budgets /\ kind' \in [Pair -> {"browser", "node"}]
  BY TypesAre DEF OnOffer
<1>4. young' \in [Pair -> BOOLEAN]
  BY FlagSet, TypesAre DEF OnOffer
<1>5. EndsOK(~Browser(p), pc[p], open[p], wire[p], ~Browser(f), pc[f], open[f], wire[f])
  BY TheEnds
<1>6. JobsOK(~Browser(p), pc[p], open[p], doing[p])
  BY TheEnds
<1>7. Named(pc[f])
  BY FarFacts, PcFacts DEF TypeOK
<1>8. CASE NewPc(p, "stable", 0, "offer") /\ UNCHANGED <<makingOffer, doing>>
  <2>1. /\ PcsOK' /\ Fresh \in Ufrag
        /\ pc'[p].ufrag = Fresh /\ pc'[p].state = "stable" /\ pc'[p].remote = 0
        /\ pc'[f] = pc[f] /\ open'[p] = 0 /\ open'[f] = open[f]
        /\ New(pc'[p], wire[p], pc[f], wire[f])
        /\ \A j \in doing[p] : j.ufrag # Fresh
    BY <1>8, NewPcMakes DEF States
  <2>2. TypeOK'
    <3>1. makingOffer' \in [Pair -> BOOLEAN] /\ doing' \in [Pair -> SUBSET Job]
      BY <1>8, TypesAre
    <3>2. QED
      BY <1>2, <1>3, <1>4, <2>1, <3>1 DEF TypeOK, PcsOK, Budgets
  <2>3. FarKept(p)
    BY <1>3, <1>8, <2>1 DEF FarKept
  <2>4. EndsOK(~Browser(p), pc'[p], open'[p], wire'[p], ~Browser(f), pc[f], open[f], wire'[f])
    <3> HIDE DEF f, m
    <3>1. EndsOK(~Browser(p), pc'[p], 0, wire[p], ~Browser(f), pc[f], open[f], wire'[f])
      BY <1>2, <1>5, <1>7, <2>1, DialStep
    <3>2. QED
      BY <1>2, <2>1, <3>1
  <2>5. JobsOK(~Browser(p), pc'[p], open'[p], doing'[p])
    BY <1>6, <1>8, <2>1 DEF JobsOK
  <2>6. QED
    BY <2>2, <2>3, <2>4, <2>5, OneEndMoves
<1>9. CASE AnswerAnew(p, m)
  <2>1. /\ PcsOK' /\ Fresh \in Ufrag
        /\ pc'[p].ufrag = Fresh /\ pc'[p].state = "have-remote-offer" /\ pc'[p].remote = m.ufrag
        /\ pc'[f] = pc[f] /\ open'[p] = 0 /\ open'[f] = open[f]
        /\ New(pc'[p], wire[p], pc[f], wire[f])
        /\ \A j \in doing[p] : j.ufrag # Fresh
    BY <1>2, <1>9, NewPcMakes DEF AnswerAnew, States
  <2>2. /\ doing' \in [Pair -> SUBSET Job]
        /\ doing'[p] = doing[p] \cup {[job |-> "answer", ufrag |-> Fresh]}
        /\ doing'[f] = doing[f]
    BY <1>9, <2>1, StartTypes DEF AnswerAnew
  <2>3. makingOffer' \in [Pair -> BOOLEAN]
    BY <1>9, FlagSet, TypesAre DEF AnswerAnew
  <2>4. TypeOK'
    BY <1>2, <1>3, <1>4, <2>1, <2>2, <2>3 DEF TypeOK, PcsOK, Budgets
  <2>5. FarKept(p)
    BY <1>3, <2>1, <2>2 DEF FarKept
  <2>6. EndsOK(~Browser(p), pc'[p], open'[p], wire'[p], ~Browser(f), pc[f], open[f], wire'[f])
    <3> HIDE DEF f, m
    <3>1. EndsOK(~Browser(p), pc'[p], 0, wire[p], ~Browser(f), pc[f], open[f], wire'[f])
      BY <1>1, <1>2, <1>5, <2>1, AnewStep
    <3>2. QED
      BY <1>2, <2>1, <3>1
  <2>7. JobsOK(~Browser(p), pc'[p], open'[p], doing'[p])
    BY <1>6, <2>1, <2>2 DEF JobsOK
  <2>8. QED
    BY <2>4, <2>5, <2>6, <2>7, OneEndMoves
<1>10. CASE Ignore
  <2>1. UNCHANGED <<kind, pc, open>> /\ makingOffer' = makingOffer /\ doing' = doing
    BY <1>3, <1>10 DEF Ignore
  <2>2. /\ makingOffer' \in [Pair -> BOOLEAN] /\ doing' \in [Pair -> SUBSET Job]
        /\ doing'[Far(p)] = doing[Far(p)]
    BY <2>1, TypesAre
  <2>3. Keeps(wire[p], wire'[p])
    BY <1>2, SameKeeps
  <2>4. JobsOK(~Browser(p), pc[p], open[p], doing'[p])
    BY <1>6, <2>1
  <2>5. QED
    BY <1>2, <1>3, <1>4, <2>1, <2>2, <2>3, <2>4, QuietKeeps
<1>11. CASE TakesOn(p, m) /\ AnswerOnIt(p, m)
  <2> DEFINE c == [pc[p] EXCEPT !.state = "have-remote-offer", !.remote = m.ufrag]
  <2>1. pc' = [pc EXCEPT ![p] = c] /\ UNCHANGED <<open, makingOffer>>
    BY <1>11 DEF AnswerOnIt, TypeOK
  <2>2. pc[p] \in Pc /\ pc[p] # NoPc
    BY <1>11, PcFacts DEF TakesOn, TypeOK
  <2>3. /\ doing' \in [Pair -> SUBSET Job]
        /\ doing'[p] = doing[p] \cup {[job |-> "answer", ufrag |-> pc[p].ufrag]}
        /\ doing'[f] = doing[f]
    <3>1. pc[p].ufrag \in Ufrag
      BY <2>2, PcFacts
    <3>2. QED
      BY <1>11, <3>1, StartTypes DEF AnswerOnIt
  <2>4. makingOffer' \in [Pair -> BOOLEAN]
    BY <2>1, TypesAre
  <2>5. /\ pc[p].remote = 0 \/ pc[p].remote = m.ufrag
        /\ ~Browser(p) => pc[p].state = "stable" /\ open[p] # 0 /\ pc[p].remote = m.ufrag
    BY <1>11 DEF TakesOn
  <2> HIDE DEF m
  <2>6. /\ c \in Pc /\ c.ufrag = pc[p].ufrag /\ c.role = pc[p].role
        /\ c.remote = m.ufrag /\ c.state = "have-remote-offer"
    BY <1>2, <2>2 DEF Pc
  <2>7. c # NoPc
    BY <2>6, PcFacts
  <2> HIDE DEF c, f
  <2>8. EndsOK(~Browser(p), c, open[p], wire[p], ~Browser(f), pc[f], open[f], wire'[f])
    BY <1>1, <1>2, <1>5, <2>2, <2>5, <2>6, <2>7, OnItStep
  <2>9. EndsOK(~Browser(p), c, open[p], wire'[p],
               ~Browser(Far(p)), pc[Far(p)], open[Far(p)], wire'[Far(p)])
    BY <1>2, <2>8 DEF f
  <2>10. \A j \in doing'[p] : j \in doing[p] \/ j.job # "media"
    BY <2>3
  <2>11. doing'[Far(p)] = doing[Far(p)]
    BY <2>3 DEF f
  <2>12. UNCHANGED <<kind, open, budget>>
    BY <1>3, <2>1
  <2>13. QED
    BY <1>2, <1>4, <2>1, <2>3, <2>4, <2>6, <2>9, <2>10, <2>11, <2>12, SamePcKeeps
<1>12. QED
  BY <1>8, <1>9, <1>10, <1>11, OfferCases

LEMMA GoodAtFirst == ASSUME ConstantsOK, Init PROVE Good
<1>1. TypeOK
  <2>1. /\ kind \in [Pair -> {"browser", "node"}]
        /\ pc = [p \in Pair |-> NoPc] /\ open = [p \in Pair |-> 0]
        /\ doing = [p \in Pair |-> {}] /\ wire = [p \in Pair |-> <<>>]
        /\ makingOffer = [p \in Pair |-> FALSE] /\ young = makingOffer
    BY DEF Init
  <2>2. makingOffer \in [Pair -> BOOLEAN] /\ young \in [Pair -> BOOLEAN]
    BY <2>1
  <2>3. budget \in Budgets
    BY DEF Init, Budgets, ConstantsOK
  <2>4. <<>> \in Seq(Signal)
    OBVIOUS
  <2>5. wire \in [Pair -> Seq(Signal)] /\ doing \in [Pair -> SUBSET Job]
    BY <2>1, <2>4
  <2>6. PcsOK
    BY <2>1 DEF PcsOK, IsOpen
  <2>7. QED
    BY <2>1, <2>2, <2>3, <2>5, <2>6, TypesAre
<1>2. MeshInv
  <2>1. ASSUME NEW p \in Pair
        PROVE  /\ pc[p] = NoPc /\ pc[Far(p)] = NoPc /\ open[p] = 0 /\ open[Far(p)] = 0
               /\ doing[p] = {} /\ wire[p] = <<>> /\ wire[Far(p)] = <<>>
    BY FarFacts DEF Init
  <2>2. LastOf(<<>>, NoPc.ufrag) /\ FirstOffers(<<>>)
    BY DEF LastOf, FirstOffers
  <2>3. ASSUME NEW n PROVE SideOK(n, NoPc, 0, <<>>, NoPc, 0, <<>>)
    BY <2>2 DEF SideOK, RolesOK, OrderOK, DialOK, FirstOK, OnceOK, BehindOK, TurnOK, Joined, Knows
  <2>4. ASSUME NEW n PROVE JobsOK(n, NoPc, 0, {})
    BY DEF JobsOK
  <2>5. QED
    BY <2>1, <2>3, <2>4 DEF MeshInv
<1>3. QED
  BY <1>1, <1>2 DEF Good

LEMMA GoodStep ==
    ASSUME ConstantsOK, Good, NEW p \in Pair,
           \/ OnPeers(p) \/ Sweep(p) \/ ReapOrphans(p) \/ Renegotiate(p)
           \/ \E job \in doing[p] : OfferMade(p, job) \/ AnswerMade(p, job)
           \/ OnOffer(p) \/ OnAnswer(p)
           \/ ChannelOpens(p) \/ Break(p) \/ Fails(p) \/ Ages(p) \/ Lose(p)
    PROVE  Good'
<1>1. CASE OnPeers(p)  BY <1>1, OnPeersKeeps
<1>2. CASE Sweep(p)  BY <1>2, SweepKeeps
<1>3. CASE ReapOrphans(p)  BY <1>3, ReapOrphansKeeps
<1>4. CASE Renegotiate(p)  BY <1>4, RenegotiateKeeps
<1>5. CASE \E job \in doing[p] : OfferMade(p, job) \/ AnswerMade(p, job)
  BY <1>5, OfferMadeKeeps, AnswerMadeKeeps
<1>6. CASE OnOffer(p)  BY <1>6, OnOfferKeeps
<1>7. CASE OnAnswer(p)  BY <1>7, OnAnswerKeeps
<1>8. CASE ChannelOpens(p)  BY <1>8, ChannelOpensKeeps
<1>9. CASE Break(p)  BY <1>9, BreakKeeps
<1>10. CASE Fails(p)  BY <1>10, FailsKeeps
<1>11. CASE Ages(p)  BY <1>11, AgesKeeps
<1>12. CASE Lose(p)  BY <1>12, LoseKeeps
<1>13. QED
  BY <1>1, <1>2, <1>3, <1>4, <1>5, <1>6, <1>7, <1>8, <1>9, <1>10, <1>11, <1>12

LEMMA StutterKeeps == ASSUME Good, UNCHANGED vars PROVE Good'
<1>1. /\ kind' = kind /\ pc' = pc /\ open' = open /\ makingOffer' = makingOffer
      /\ young' = young /\ doing' = doing /\ wire' = wire /\ budget' = budget
  BY DEF vars
<1>2. TypeOK'
  BY <1>1 DEF Good, TypeOK, IsOpen
<1>3. MeshInv'
  BY <1>1 DEF Good, MeshInv, Browser
<1>4. QED
  BY <1>2, <1>3 DEF Good

LEMMA AlwaysGood == ASSUME ConstantsOK PROVE Spec => []Good
<1>1. Init => Good
  BY GoodAtFirst
<1>2. Good /\ [Next]_vars => Good'
  <2> SUFFICES ASSUME Good, [Next]_vars PROVE Good'
    OBVIOUS
  <2>1. CASE Next
    BY <2>1, GoodStep DEF Next
  <2>2. CASE UNCHANGED vars
    BY <2>2, StutterKeeps
  <2>3. QED
    BY <2>1, <2>2
<1>3. QED
  BY <1>1, <1>2, PTL DEF Spec

-----------------------------------------------------------------------------
(* A link that works *)

\* Every frame from the far end of a link is of the session the link is one of.
LEMMA LinkFrames ==
    ASSUME Good, Linked, NEW p \in Pair, wire[Far(p)] # <<>>
    PROVE  Head(wire[Far(p)]).ufrag = pc[p].remote
<1> DEFINE f == Far(p)
<1>1. Joined(pc[p], pc[f])
  BY LinkedIsJoined
<1>2. AllOf(wire[f], pc[f].ufrag)
  BY <1>1, TheEnds DEF Good, EndsOK, SideOK, OrderOK, Joined, Knows
<1>3. HeadOf(wire[f], Tail(wire[f]), Head(wire[f]), pc[f].ufrag)
  BY FarFacts, TailKeeps DEF Good, TypeOK, Took
<1>4. QED
  BY <1>1, <1>2, <1>3 DEF HeadOf, Joined, Knows

\* A node on a link is idle when an offer comes.
LEMMA NodeIsIdle ==
    ASSUME Good, Linked, NEW p \in Pair, ~Browser(p), Gets(p, "offer")
    PROVE  pc[p].state = "stable"
<1> DEFINE f == Far(p)
           m == Head(wire[f])
<1>1. Joined(pc[p], pc[f])
  BY LinkedIsJoined
<1>2. pc[p] # NoPc /\ pc[p].role # "none" /\ pc[p].state \in States
  BY <1>1, PcFacts DEF Joined, Knows, Good, TypeOK, Pc, States
<1>3. pc[p].state # "have-local-offer"
  BY <1>2, TheEnds DEF Good, EndsOK, SideOK, RolesOK
<1>4. Took(wire[f], Tail(wire[f]), m) /\ IsOffer(m)
  BY FarFacts, TailKeeps DEF Good, TypeOK, Gets, IsOffer
<1>5. ~NoOffers(wire[f])
  BY <1>4 DEF Took
<1>6. ~Making(pc[p])
  BY <1>1, <1>5, TheEnds DEF Good, EndsOK, SideOK, TurnOK
<1>7. QED
  BY <1>2, <1>3, <1>6 DEF Making, States

\* What p may do to its connection on a link: anything but its session and its part in it.
LEMMA LinkStays ==
    ASSUME BothOpen, NEW p \in Pair, pc'[p] # NoPc, pc'[Far(p)] = pc[Far(p)], open' = open,
           pc'[p].ufrag = pc[p].ufrag, pc'[p].remote = pc[p].remote, pc'[p].role = pc[p].role
    PROVE  BothOpen'
<1> DEFINE f == Far(p)
<1>1. f \in Pair /\ Far(f) = p /\ \A q \in Pair : q = p \/ q = f
  BY FarFacts
<1>2. /\ pc[p].remote = pc[f].ufrag /\ pc[f] # NoPc /\ pc[f].remote = pc[p].ufrag
      /\ {pc[q].role : q \in Pair} = {"offered", "answered"}
      /\ \A q \in Pair : open[q] # 0
  BY <1>1 DEF BothOpen, Linked, IsOpen
<1>3. \A q \in Pair : pc'[q].role = pc[q].role
  BY <1>1
<1>4. {pc'[q].role : q \in Pair} = {"offered", "answered"}
  BY <1>2, <1>3
<1>5. \A q \in Pair : pc'[q] # NoPc /\ pc'[q].remote = pc'[Far(q)].ufrag
  BY <1>1, <1>2
<1>6. QED
  BY <1>2, <1>4, <1>5 DEF BothOpen, Linked, IsOpen

\* Only a fault ends it.
Kept == BothOpen' \/ budget'.faults < budget.faults

LEMMA FaultIsOne ==
    ASSUME budget \in Budgets, Spend("faults") PROVE budget'.faults < budget.faults
BY DEF Spend, Budgets

LEMMA OffersLeaveLinks ==
    ASSUME Good, BothOpen, NEW p \in Pair, NEW job \in doing[p],
           OfferMade(p, job) \/ AnswerMade(p, job)
    PROVE  BothOpen'
<1>1. pc[p] \in Pc /\ pc[p].role # "none" /\ pc[p] # NoPc
  BY LinkedIsJoined, PcFacts DEF BothOpen, Joined, Knows, Good, TypeOK
<1>2. open' = open /\ pc \in [Pair -> Pc \cup {NoPc}]
  BY DEF OfferMade, AnswerMade, Good, TypeOK
<1>3. CASE pc' = pc
  BY <1>1, <1>2, <1>3, LinkStays
<1>4. CASE pc' = [pc EXCEPT ![p].state = "have-local-offer"]
  <2> DEFINE c == [pc[p] EXCEPT !.state = "have-local-offer"]
  <2>1. c \in Pc /\ c.ufrag = pc[p].ufrag /\ c.remote = pc[p].remote /\ c.role = pc[p].role
    BY <1>1 DEF Pc
  <2>2. pc'[p] = c /\ pc'[Far(p)] = pc[Far(p)]
    BY <1>2, <1>4, FarFacts
  <2>3. QED
    BY <1>2, <2>1, <2>2, PcFacts, LinkStays
<1>5. CASE Settled(p, "answered", pc[p].remote)
  <2> DEFINE c == [pc[p] EXCEPT !.state = "stable", !.remote = pc[p].remote,
                                !.role = IF @ = "none" THEN "answered" ELSE @]
  <2>1. c \in Pc /\ c.ufrag = pc[p].ufrag /\ c.remote = pc[p].remote /\ c.role = pc[p].role
    BY <1>1 DEF Pc
  <2>2. pc'[p] = c /\ pc'[Far(p)] = pc[Far(p)]
    BY <1>2, <1>5, FarFacts DEF Settled
  <2>3. QED
    BY <1>2, <2>1, <2>2, PcFacts, LinkStays
<1>6. QED
  BY <1>3, <1>4, <1>5 DEF OfferMade, AnswerMade

LEMMA AnswersLeaveLinks ==
    ASSUME Good, BothOpen, NEW p \in Pair, OnAnswer(p)
    PROVE  BothOpen'
<1> DEFINE m == Head(wire[Far(p)])
<1>1. pc[p] \in Pc /\ pc[p].role # "none" /\ pc[p] # NoPc
  BY LinkedIsJoined, PcFacts DEF BothOpen, Joined, Knows, Good, TypeOK
<1>2. open' = open /\ pc \in [Pair -> Pc \cup {NoPc}]
  BY DEF OnAnswer, Good, TypeOK
<1>3. m.ufrag = pc[p].remote
  BY LinkFrames DEF BothOpen, OnAnswer, Gets
<1>4. CASE pc' = pc
  BY <1>1, <1>2, <1>4, LinkStays
<1>5. CASE Settled(p, "offered", m.ufrag)
  <2> HIDE DEF m
  <2> DEFINE c == [pc[p] EXCEPT !.state = "stable", !.remote = m.ufrag,
                                !.role = IF @ = "none" THEN "offered" ELSE @]
  <2>1. c \in Pc /\ c.ufrag = pc[p].ufrag /\ c.remote = pc[p].remote /\ c.role = pc[p].role
    BY <1>1, <1>3 DEF Pc
  <2>2. pc'[p] = c /\ pc'[Far(p)] = pc[Far(p)]
    BY <1>2, <1>5, FarFacts DEF Settled
  <2>3. QED
    BY <1>2, <2>1, <2>2, PcFacts, LinkStays
<1>6. QED
  BY <1>4, <1>5 DEF OnAnswer

LEMMA DialsLeaveLinks ==
    ASSUME Good, BothOpen, NEW p \in Pair, OnOffer(p)
    PROVE  BothOpen'
<1> DEFINE m == Head(wire[Far(p)])
<1>1. pc[p] \in Pc /\ pc[p].role # "none" /\ pc[p] # NoPc /\ pc[p].remote # 0 /\ open[p] # 0
  <2>1. Joined(pc[p], pc[Far(p)]) /\ open[p] # 0
    BY LinkedIsJoined DEF BothOpen, IsOpen
  <2>2. pc[p] \in Pc /\ pc[p].role # "none" /\ pc[p] # NoPc
    BY <2>1, PcFacts DEF Joined, Knows, Good, TypeOK
  <2>3. pc[p].remote # 0
    BY <2>2, TheEnds DEF Good, EndsOK, SideOK, RolesOK
  <2>4. QED
    BY <2>1, <2>2, <2>3
<1>2. pc \in [Pair -> Pc \cup {NoPc}] /\ Gets(p, "offer")
  BY DEF OnOffer, Good, TypeOK
<1>3. m.ufrag = pc[p].remote
  BY <1>2, LinkFrames DEF BothOpen, Gets
<1>4. Ignore \/ AnswerOnIt(p, m)
  <2>1. CASE Browser(p)
    <3>1. BrowserOnOffer(p, m)
      BY <2>1 DEF OnOffer
    <3>2. QED
      BY <1>1, <1>3, <3>1 DEF BrowserOnOffer, Elsewhere
  <2>2. CASE ~Browser(p)
    <3>1. NodeOnOffer(p, m)
      BY <2>2 DEF OnOffer
    <3>2. pc[p].state = "stable"
      BY <1>2, <2>2, NodeIsIdle DEF BothOpen
    <3>3. QED
      BY <1>1, <1>3, <3>1, <3>2 DEF NodeOnOffer, IsOpen
  <2>3. QED
    BY <2>1, <2>2
<1>5. CASE Ignore
  BY <1>1, <1>5, LinkStays DEF Ignore
<1>6. CASE AnswerOnIt(p, m)
  <2> HIDE DEF m
  <2> DEFINE c == [pc[p] EXCEPT !.state = "have-remote-offer", !.remote = m.ufrag]
  <2>1. c \in Pc /\ c.ufrag = pc[p].ufrag /\ c.remote = pc[p].remote /\ c.role = pc[p].role
    BY <1>1, <1>3 DEF Pc
  <2>2. pc'[p] = c /\ pc'[Far(p)] = pc[Far(p)] /\ open' = open
    BY <1>2, <1>6, FarFacts DEF AnswerOnIt
  <2>3. QED
    BY <2>1, <2>2, PcFacts, LinkStays
<1>7. QED
  BY <1>4, <1>5, <1>6

LEMMA OthersLeaveLinks ==
    ASSUME Good, BothOpen, NEW p \in Pair,
           \/ OnPeers(p) \/ Sweep(p) \/ ReapOrphans(p) \/ Renegotiate(p)
           \/ ChannelOpens(p) \/ Break(p) \/ Fails(p) \/ Ages(p) \/ Lose(p)
    PROVE  Kept
<1>1. IsOpen(p) /\ Far(p) \in Pair /\ pc[p].remote = pc[Far(p)].ufrag /\ pc[p] # NoPc
  BY FarFacts DEF BothOpen, Linked
<1>2. ~(OnPeers(p) \/ Sweep(p) \/ ReapOrphans(p) \/ ChannelOpens(p) \/ Fails(p))
  BY <1>1 DEF OnPeers, Sweep, ReapOrphans, ChannelOpens, Fails
<1>3. CASE Renegotiate(p) \/ Ages(p)
  <2>1. pc' = pc /\ open' = open
    BY <1>3 DEF Renegotiate, Ages
  <2>2. BothOpen'
    BY <1>1, <2>1, LinkStays
  <2>3. QED
    BY <2>2 DEF Kept
<1>4. CASE Break(p) \/ Lose(p)
  <2>1. budget \in Budgets /\ Spend("faults")
    BY <1>4, TypesAre DEF Good, Break, Lose
  <2>2. QED
    BY <2>1, FaultIsOne DEF Kept
<1>5. QED
  BY <1>2, <1>3, <1>4

-----------------------------------------------------------------------------
(* The theorems *)

\* Connections, channels, jobs and frames keep their types, for every number of sessions,
\* rosters, calls and faults (peer.ts and qospeer.mjs).
THEOREM MeshTypes == ASSUME ConstantsOK PROVE Spec => []TypeOK
<1>1. Good => TypeOK
  BY DEF Good
<1>2. QED
  BY <1>1, AlwaysGood, PTL

\* docs/connection.md:162-163: only a fault ends a link both of whose channels are open.  No
\* roster, retry, call or late frame does, of browsers (peer.ts) or nodes (qospeer.mjs), however
\* many there are.
THEOREM WorkingLinksAreKept == ASSUME ConstantsOK PROVE Spec => KeepsWhatWorks
<1>1. Good /\ [Next]_vars => [BothOpen => BothOpen' \/ budget'.faults < budget.faults]_vars
  <2> SUFFICES ASSUME Good, Next, BothOpen
               PROVE  BothOpen' \/ budget'.faults < budget.faults
    OBVIOUS
  <2>1. PICK p \in Pair :
            \/ OnPeers(p) \/ Sweep(p) \/ ReapOrphans(p) \/ Renegotiate(p)
            \/ \E job \in doing[p] : OfferMade(p, job) \/ AnswerMade(p, job)
            \/ OnOffer(p) \/ OnAnswer(p)
            \/ ChannelOpens(p) \/ Break(p) \/ Fails(p) \/ Ages(p) \/ Lose(p)
    BY DEF Next
  <2>2. CASE \E job \in doing[p] : OfferMade(p, job) \/ AnswerMade(p, job)
    BY <2>2, OffersLeaveLinks
  <2>3. CASE OnOffer(p)
    BY <2>3, DialsLeaveLinks
  <2>4. CASE OnAnswer(p)
    BY <2>4, AnswersLeaveLinks
  <2>5. CASE \/ OnPeers(p) \/ Sweep(p) \/ ReapOrphans(p) \/ Renegotiate(p)
             \/ ChannelOpens(p) \/ Break(p) \/ Fails(p) \/ Ages(p) \/ Lose(p)
    BY <2>5, OthersLeaveLinks DEF Kept
  <2>6. QED
    BY <2>1, <2>2, <2>3, <2>4, <2>5
<1>2. QED
  BY <1>1, AlwaysGood, PTL DEF Spec, KeepsWhatWorks

=============================================================================
