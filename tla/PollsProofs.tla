----------------------------- MODULE PollsProofs -----------------------------
(* Proofs about Polls: its types, that a poll that was removed stays gone,     *)
(* that no peer ever goes back to an older vote, and that everybody agrees     *)
(* when nothing is under way.                                                  *)
EXTENDS Polls, SequenceTheorems, TLAPS

\* What the constants are: the creator is a peer, the bounds are numbers.
ConstantsOK ==
    /\ Creator \in Peers
    /\ MaxVotes \in Nat /\ MaxMoves \in Nat /\ MaxLeaves \in Nat

-----------------------------------------------------------------------------
(* Frames and queues *)

\* The frames the server may be about to hand to a peer.
Frame ==
    [kind: {"peers"}, peers: SUBSET Peers]
    \cup [kind: {"joined"}, peer: Peers]
    \cup [kind: {"sync"}, from: Peers, copy: Poll]
    \cup [kind: {"open", "lock", "close", "retract"}, from: Peers]
    \cup [kind: {"option"}, from: Peers, option: Options]
    \cup [kind: {"ballot"}, from: Peers, vote: 0..MaxVotes]

\* m is a vote of v; what m says v has voted.
IsBallot(m, v) == m.kind = "ballot" /\ m.from = v
Says(m, v) ==
    IF m.kind = "sync" THEN m.copy.ballots[v]
    ELSE IF IsBallot(m, v) THEN m.vote ELSE 0

QueuesOK ==
    /\ down \in [Peers -> Seq(Frame)]
    /\ \A p \in Peers : \A i \in 1..Len(down[p]) : ~IsBallot(down[p][i], p)

LEMMA FrameFields ==
    ASSUME ConstantsOK, NEW m \in Frame
    PROVE  /\ m.kind = "peers" => m.peers \subseteq Peers
           /\ m.kind = "joined" => m.peer \in Peers
           /\ m.kind = "sync" => m.copy \in Poll
           /\ m.kind = "option" => m.option \in Options
           /\ m.kind = "ballot" => m.from \in Peers /\ m.vote \in 0..MaxVotes
BY DEF Frame

LEMMA FramesMade ==
    /\ \A S \in SUBSET Peers : [kind |-> "peers", peers |-> S] \in Frame
    /\ \A p \in Peers : [kind |-> "joined", peer |-> p] \in Frame
    /\ \A p \in Peers, c \in Poll : [kind |-> "sync", from |-> p, copy |-> c] \in Frame
    /\ \A p \in Peers : /\ [kind |-> "open", from |-> p] \in Frame
                        /\ [kind |-> "lock", from |-> p] \in Frame
                        /\ [kind |-> "close", from |-> p] \in Frame
                        /\ [kind |-> "retract", from |-> p] \in Frame
    /\ \A p \in Peers, o \in Options : [kind |-> "option", from |-> p, option |-> o] \in Frame
    /\ \A p \in Peers, n \in 0..MaxVotes : [kind |-> "ballot", from |-> p, vote |-> n] \in Frame
BY DEF Frame

LEMMA PollFields ==
    ASSUME ConstantsOK, NEW c \in Poll
    PROVE  /\ c # NoPoll
           /\ c.ballots \in Votes /\ c.options \subseteq Options
           /\ \A v \in Peers : c.ballots[v] \in Nat
           /\ \A o \in SUBSET Options :
                  /\ [c EXCEPT !.options = o] \in Poll
                  /\ [c EXCEPT !.options = o].ballots = c.ballots
           /\ \A b \in Votes :
                  /\ [c EXCEPT !.ballots = b] \in Poll
                  /\ [c EXCEPT !.ballots = b].ballots = b
           /\ [c EXCEPT !.nominationsLocked = TRUE] \in Poll
           /\ [c EXCEPT !.nominationsLocked = TRUE].ballots = c.ballots
           /\ Close(c) \in Poll
           /\ Close(c).ballots = c.ballots
<1>1. c.ballots \in Votes /\ c.options \subseteq Options
  BY DEF Poll
<1>2. \A v \in Peers : c.ballots[v] \in Nat
  BY <1>1 DEF Votes, ConstantsOK
<1>3. c # NoPoll
  BY DEF Poll, NoPoll
<1>4. \A o \in SUBSET Options : /\ [c EXCEPT !.options = o] \in Poll
                                /\ [c EXCEPT !.options = o].ballots = c.ballots
  BY DEF Poll
<1>5. \A b \in Votes : /\ [c EXCEPT !.ballots = b] \in Poll
                       /\ [c EXCEPT !.ballots = b].ballots = b
  BY DEF Poll
<1>6. /\ [c EXCEPT !.nominationsLocked = TRUE] \in Poll
      /\ [c EXCEPT !.nominationsLocked = TRUE].ballots = c.ballots
  BY DEF Poll
<1>7. Close(c) \in Poll /\ Close(c).ballots = c.ballots
  BY <1>1 DEF Poll, Close
<1>8. QED
  BY <1>1, <1>2, <1>3, <1>4, <1>5, <1>6, <1>7

LEMMA NoVotesType == ConstantsOK => NoVotes \in Votes /\ \A v \in Peers : NoVotes[v] = 0
BY DEF ConstantsOK, NoVotes, Votes

LEMMA NewPollType ==
    ConstantsOK => /\ NewPoll \in Poll /\ NewPoll # NoPoll
                   /\ NewPoll.ballots = NoVotes /\ NewPoll.options = {}
BY NoVotesType DEF NewPoll, Poll, NoPoll

\* What was heard before the poll, and what it makes of a copy.
LEMMA FlushedReads ==
    ASSUME ConstantsOK, TypeOK, NEW p \in Peers, NEW c \in Poll
    PROVE  /\ Flushed(p, c) \in Poll
           /\ \A v \in Peers :
                  Flushed(p, c).ballots[v] = IF early[p].ballots[v] # 0
                                             THEN early[p].ballots[v] ELSE c.ballots[v]
<1> DEFINE b == [q \in Peers |-> IF early[p].ballots[q] # 0
                                 THEN early[p].ballots[q] ELSE c.ballots[q]]
<1>1. early[p].ballots \in Votes /\ early[p].options \subseteq Options
  BY DEF TypeOK
<1>2. c.ballots \in Votes /\ c.options \subseteq Options
  BY PollFields
<1>3. b \in Votes
  BY <1>1, <1>2 DEF Votes
<1>4. Flushed(p, c) = [c EXCEPT !.options = c.options \cup early[p].options, !.ballots = b]
  BY DEF Flushed, Poll
<1>5. \A v \in Peers : b[v] = IF early[p].ballots[v] # 0
                              THEN early[p].ballots[v] ELSE c.ballots[v]
  OBVIOUS
<1> HIDE DEF b
<1>6. Flushed(p, c) \in Poll /\ Flushed(p, c).ballots = b
  BY <1>1, <1>2, <1>3, <1>4 DEF Poll
<1>7. QED
  BY <1>5, <1>6

\* What somebody else's copy makes of one's own: no vote that is there is changed.
LEMMA MergedReads ==
    ASSUME ConstantsOK, NEW c \in Poll, NEW d \in Poll
    PROVE  /\ Merged(c, d) \in Poll
           /\ \A v \in Peers :
                  Merged(c, d).ballots[v] = IF c.ballots[v] # 0 THEN c.ballots[v]
                                            ELSE d.ballots[v]
<1> DEFINE b == [q \in Peers |-> IF c.ballots[q] # 0 THEN c.ballots[q] ELSE d.ballots[q]]
           both == [c EXCEPT !.options = c.options \cup d.options, !.ballots = b,
                             !.nominationsLocked = c.nominationsLocked \/ d.nominationsLocked]
<1>1. c.ballots \in Votes /\ d.ballots \in Votes
  BY PollFields
<1>2. b \in Votes
  BY <1>1 DEF Votes
<1>3. \A v \in Peers : b[v] = IF c.ballots[v] # 0 THEN c.ballots[v] ELSE d.ballots[v]
  OBVIOUS
<1>4. Merged(c, d) = IF d.status = "closed" /\ c.status = "open" THEN Close(both) ELSE both
  BY DEF Merged, Poll
<1> HIDE DEF b
<1>5. both \in Poll /\ both.ballots = b
  BY <1>2 DEF Poll
<1> HIDE DEF both
<1>6. Merged(c, d) \in Poll /\ Merged(c, d).ballots = b
  BY <1>4, <1>5, PollFields
<1>7. QED
  BY <1>3, <1>6

-----------------------------------------------------------------------------
(* Types *)

\* A queue of p: frames, and none of them a vote of its own.
QueueOK(s, p) ==
    /\ s \in Seq(Frame)
    /\ \A i \in 1..Len(s) : ~IsBallot(s[i], p)

LEMMA QueuesAre ==
    QueuesOK <=> /\ down \in [Peers -> Seq(Frame)]
                 /\ \A p \in Peers : QueueOK(down[p], p)
BY DEF QueuesOK, QueueOK

LEMMA QueuesBecome ==
    ASSUME NEW f, down' = [q \in Peers |-> f[q]], \A q \in Peers : QueueOK(f[q], q)
    PROVE  QueuesOK'
BY DEF QueuesOK, QueueOK

LEMMA EmptyQueue == \A p : QueueOK(<<>>, p)
BY EmptySeq DEF QueueOK

LEMMA AppendQueue ==
    ASSUME NEW s, NEW p, QueueOK(s, p), NEW m \in Frame, ~IsBallot(m, p)
    PROVE  QueueOK(Append(s, m), p)
<1>1. s \in Seq(Frame)
  BY DEF QueueOK
<1>2. /\ Append(s, m) \in Seq(Frame)
      /\ Len(Append(s, m)) = Len(s) + 1
      /\ \A i \in 1..Len(s) : Append(s, m)[i] = s[i]
      /\ Append(s, m)[Len(s) + 1] = m
  BY <1>1, AppendProperties
<1>3. ASSUME NEW i \in 1..Len(Append(s, m)) PROVE ~IsBallot(Append(s, m)[i], p)
  <2>1. Len(s) \in Nat
    BY <1>1
  <2>2. i \in 1..Len(s) \/ i = Len(s) + 1
    BY <1>2, <2>1
  <2>3. QED
    BY <1>2, <2>2 DEF QueueOK
<1>4. QED
  BY <1>2, <1>3 DEF QueueOK

LEMMA TailQueue ==
    ASSUME NEW s, NEW p, QueueOK(s, p), s # <<>>
    PROVE  /\ QueueOK(Tail(s), p)
           /\ Head(s) \in Frame /\ ~IsBallot(Head(s), p)
           /\ Len(s) \in Nat /\ Len(s) # 0 /\ Head(s) = s[1]
           /\ Len(Tail(s)) = Len(s) - 1
           /\ \A i \in 1..Len(Tail(s)) : Tail(s)[i] = s[i + 1]
<1>1. s \in Seq(Frame) /\ Len(s) \in Nat /\ Len(s) # 0
  BY EmptySeq DEF QueueOK
<1>2. /\ Head(s) = s[1] /\ Head(s) \in Frame
      /\ Tail(s) \in Seq(Frame)
      /\ Len(Tail(s)) = Len(s) - 1
      /\ \A i \in 1..Len(Tail(s)) : Tail(s)[i] = s[i + 1]
  BY <1>1, HeadTailProperties
<1>3. \A i \in 1..Len(Tail(s)) : i + 1 \in 1..Len(s)
  BY <1>1, <1>2
<1>4. 1 \in 1..Len(s)
  BY <1>1
<1>5. QED
  BY <1>1, <1>2, <1>3, <1>4 DEF QueueOK

\* What a frame p takes leaves.
LEMMA TakenQueues ==
    ASSUME ConstantsOK, TypeOK, QueuesOK, NEW p \in Peers, down[p] # <<>>, Taken(p)
    PROVE  /\ QueuesOK'
           /\ down'[p] = Tail(down[p])
           /\ \A q \in Peers \ {p} : down'[q] = down[q]
           /\ \A q \in Peers \ here : down'[q] = <<>>
<1>1. down \in [Peers -> Seq(Frame)] /\ \A q \in Peers : QueueOK(down[q], q)
  BY QueuesAre
<1> DEFINE f == [q \in Peers |-> IF q = p THEN Tail(down[p]) ELSE down[q]]
<1>2. down' = [q \in Peers |-> f[q]]
  BY <1>1 DEF Taken
<1>3. \A q \in Peers : QueueOK(f[q], q)
  BY <1>1, TailQueue
<1>4. \A q \in Peers \ here : q # p /\ down[q] = <<>>
  BY DEF TypeOK
<1>5. /\ down'[p] = Tail(down[p])
      /\ \A q \in Peers \ {p} : down'[q] = down[q]
  BY <1>1 DEF Taken
<1> HIDE DEF f
<1>6. QueuesOK'
  BY <1>2, <1>3, QueuesBecome
<1>7. QED
  BY <1>4, <1>5, <1>6

\* What a broadcast of p adds.
LEMMA BroadcastQueues ==
    ASSUME ConstantsOK, TypeOK, QueuesOK, NEW p \in Peers, NEW m \in Frame, Broadcast(p, m),
           m.kind = "ballot" => m.from = p
    PROVE  /\ QueuesOK'
           /\ \A q \in Peers : down'[q] = down[q] \/ (q # p /\ down'[q] = Append(down[q], m))
           /\ \A q \in Peers \ here : down'[q] = <<>>
<1>1. down \in [Peers -> Seq(Frame)] /\ \A q \in Peers : QueueOK(down[q], q)
  BY QueuesAre
<1> DEFINE f == [q \in Peers |-> IF q \in here \ {p} THEN Append(down[q], m) ELSE down[q]]
<1>2. down' = [q \in Peers |-> f[q]]
  BY DEF Broadcast
<1>3. \A q \in Peers : QueueOK(f[q], q)
  <2>1. \A q \in Peers \ {p} : ~IsBallot(m, q)
    BY DEF IsBallot
  <2>2. QED
    BY <1>1, <2>1, AppendQueue
<1>4. \A q \in Peers : down'[q] = down[q] \/ (q # p /\ down'[q] = Append(down[q], m))
  BY DEF Broadcast
<1>5. \A q \in Peers \ here : down'[q] = <<>>
  BY DEF Broadcast, TypeOK
<1> HIDE DEF f
<1>6. QueuesOK'
  BY <1>2, <1>3, QueuesBecome
<1>7. QED
  BY <1>4, <1>5, <1>6

\* What a peer that takes a frame gives others of its copy.
LEMMA SyncQueues ==
    ASSUME ConstantsOK, TypeOK, QueuesOK, NEW p \in Peers, NEW qs, down[p] # <<>>,
           Syncs(p, qs)
    PROVE  /\ QueuesOK'
           /\ down'[p] = Tail(down[p])
           /\ \A q \in Peers \ {p} :
                  \/ down'[q] = down[q]
                  \/ Holds(p) /\ down'[q] = Append(down[q], [kind |-> "sync", from |-> p,
                                                             copy |-> poll[p]])
           /\ \A q \in Peers \ here : down'[q] = <<>>
<1>1. down \in [Peers -> Seq(Frame)] /\ \A q \in Peers : QueueOK(down[q], q)
  BY QueuesAre
<1> DEFINE m == [kind |-> "sync", from |-> p, copy |-> poll[p]]
           f == [q \in Peers |-> IF q = p THEN Tail(down[p])
                                 ELSE IF q \in qs \cap here /\ Holds(p) THEN Append(down[q], m)
                                 ELSE down[q]]
<1>2. down' = [q \in Peers |-> f[q]]
  BY DEF Syncs
<1>3. Holds(p) => m \in Frame /\ \A q \in Peers : ~IsBallot(m, q)
  <2>1. Holds(p) => poll[p] \in Poll
    BY DEF TypeOK, Holds
  <2>2. QED
    BY <2>1, FramesMade DEF IsBallot
<1>4. /\ down'[p] = Tail(down[p])
      /\ \A q \in Peers \ {p} :
             down'[q] = down[q] \/ (Holds(p) /\ down'[q] = Append(down[q], m))
      /\ \A q \in Peers \ here : q # p => down'[q] = down[q]
  BY DEF Syncs
<1>5. \A q \in Peers \ here : q # p /\ down[q] = <<>>
  BY DEF TypeOK
<1> HIDE DEF m
<1>6. \A q \in Peers : QueueOK(f[q], q)
  BY <1>1, <1>3, TailQueue, AppendQueue
<1> HIDE DEF f
<1>7. QueuesOK'
  BY <1>2, <1>6, QueuesBecome
<1>8. QED
  BY <1>4, <1>5, <1>7 DEF m

\* The copy of p becomes c and no other copy changes.
Keeps(p, c) ==
    /\ poll' \in [Peers -> Poll \cup {NoPoll}]
    /\ poll'[p] = c
    /\ \A q \in Peers \ {p} : poll'[q] = poll[q]

LEMMA KeepReads ==
    ASSUME TypeOK, NEW p \in Peers, NEW c \in Poll \cup {NoPoll}, Keep(p, c)
    PROVE  Keeps(p, c)
BY DEF TypeOK, Keep, Keeps

-----------------------------------------------------------------------------
(* The order of votes in a queue *)

\* A vote of v comes after nothing that says more of v; no vote of v in s is less than n;
\* nothing in s says more of v than n.
Rising(s, v) ==
    \A j \in 1..Len(s) :
        IsBallot(s[j], v) => \A i \in 1..(j - 1) : Says(s[i], v) <= s[j].vote
NoLess(s, v, n) == \A j \in 1..Len(s) : IsBallot(s[j], v) => n <= s[j].vote
NoMore(s, v, n) == \A i \in 1..Len(s) : Says(s[i], v) <= n

LEMMA SaysIsCount ==
    ASSUME ConstantsOK, NEW m \in Frame, NEW v \in Peers
    PROVE  Says(m, v) \in Nat /\ (IsBallot(m, v) => m.vote = Says(m, v))
<1>1. m.kind = "sync" => m.copy \in Poll
  BY FrameFields
<1>2. m.kind = "sync" => m.copy.ballots[v] \in Nat
  BY <1>1, PollFields
<1>3. IsBallot(m, v) => m.vote \in Nat
  BY FrameFields DEF IsBallot, ConstantsOK
<1>4. QED
  BY <1>2, <1>3 DEF Says, IsBallot

LEMMA EmptyOrder ==
    \A v, n : Rising(<<>>, v) /\ NoLess(<<>>, v, n) /\ NoMore(<<>>, v, n)
BY EmptySeq DEF Rising, NoLess, NoMore

LEMMA LowerBound ==
    ASSUME ConstantsOK, NEW s \in Seq(Frame), NEW v \in Peers, NEW n \in Nat, NEW k \in Nat,
           NoLess(s, v, n), k <= n
    PROVE  NoLess(s, v, k)
<1> SUFFICES ASSUME NEW j \in 1..Len(s), IsBallot(s[j], v) PROVE k <= s[j].vote
  BY DEF NoLess
<1>1. s[j] \in Frame
  BY ElementOfSeq
<1>2. s[j].vote \in Nat
  BY <1>1, FrameFields DEF IsBallot, ConstantsOK
<1>3. n <= s[j].vote
  BY DEF NoLess
<1>4. QED
  BY <1>2, <1>3

LEMMA UpperBound ==
    ASSUME ConstantsOK, NEW s \in Seq(Frame), NEW v \in Peers, NEW n \in Nat, NEW k \in Nat,
           NoMore(s, v, n), n <= k
    PROVE  NoMore(s, v, k)
<1> SUFFICES ASSUME NEW j \in 1..Len(s) PROVE Says(s[j], v) <= k
  BY DEF NoMore
<1>1. s[j] \in Frame
  BY ElementOfSeq
<1>2. Says(s[j], v) \in Nat
  BY <1>1, SaysIsCount
<1>3. Says(s[j], v) <= n
  BY DEF NoMore
<1>4. QED
  BY <1>2, <1>3

LEMMA AppendOrder ==
    ASSUME NEW s \in Seq(Frame), NEW m \in Frame, NEW v \in Peers
    PROVE  /\ Rising(s, v) /\ (IsBallot(m, v) => NoMore(s, v, m.vote))
                  => Rising(Append(s, m), v)
           /\ \A n : NoLess(s, v, n) /\ (IsBallot(m, v) => n <= m.vote)
                  => NoLess(Append(s, m), v, n)
           /\ \A n : NoMore(s, v, n) /\ Says(m, v) <= n => NoMore(Append(s, m), v, n)
<1> DEFINE t == Append(s, m)
<1>1. /\ Len(s) \in Nat /\ Len(t) = Len(s) + 1
      /\ \A i \in 1..Len(s) : t[i] = s[i]
      /\ t[Len(s) + 1] = m
  BY AppendProperties
<1> HIDE DEF t
<1>2. \A j \in 1..Len(t) : j \in 1..Len(s) \/ j = Len(s) + 1
  BY <1>1
<1>3. ASSUME Rising(s, v), IsBallot(m, v) => NoMore(s, v, m.vote) PROVE Rising(t, v)
  <2> SUFFICES ASSUME NEW j \in 1..Len(t), IsBallot(t[j], v), NEW i \in 1..(j - 1)
               PROVE  Says(t[i], v) <= t[j].vote
    BY DEF Rising
  <2>1. CASE j \in 1..Len(s)
    <3>1. i \in 1..Len(s)
      BY <1>1, <2>1
    <3>2. t[i] = s[i] /\ t[j] = s[j]
      BY <1>1, <2>1, <3>1
    <3>3. QED
      BY <1>3, <2>1, <3>2 DEF Rising
  <2>2. CASE j = Len(s) + 1
    <3>1. i \in 1..Len(s)
      BY <1>1, <2>2
    <3>2. t[i] = s[i] /\ t[j] = m
      BY <1>1, <2>2, <3>1
    <3>3. QED
      BY <1>3, <3>1, <3>2 DEF NoMore
  <2>3. QED
    BY <1>2, <2>1, <2>2
<1>4. ASSUME NEW n, NoLess(s, v, n), IsBallot(m, v) => n <= m.vote PROVE NoLess(t, v, n)
  BY <1>1, <1>2, <1>4 DEF NoLess
<1>5. ASSUME NEW n, NoMore(s, v, n), Says(m, v) <= n PROVE NoMore(t, v, n)
  BY <1>1, <1>2, <1>5 DEF NoMore
<1>6. QED
  BY <1>3, <1>4, <1>5 DEF t

LEMMA TailOrder ==
    ASSUME NEW s \in Seq(Frame), s # <<>>, NEW v \in Peers
    PROVE  /\ Rising(s, v) => Rising(Tail(s), v) /\ NoLess(Tail(s), v, Says(Head(s), v))
           /\ \A n : NoLess(s, v, n) =>
                  NoLess(Tail(s), v, n) /\ (IsBallot(Head(s), v) => n <= Head(s).vote)
           /\ \A n : NoMore(s, v, n) => NoMore(Tail(s), v, n) /\ Says(Head(s), v) <= n
<1> DEFINE t == Tail(s)
<1>1. Len(s) \in Nat /\ Len(s) # 0
  BY EmptySeq
<1>2. /\ Head(s) = s[1] /\ Len(t) = Len(s) - 1
      /\ \A i \in 1..Len(t) : t[i] = s[i + 1]
  BY <1>1, HeadTailProperties
<1> HIDE DEF t
<1>3. 1 \in 1..Len(s) /\ \A i \in 1..Len(t) : i + 1 \in 1..Len(s)
  BY <1>1, <1>2
<1>4. ASSUME Rising(s, v) PROVE Rising(t, v) /\ NoLess(t, v, Says(s[1], v))
  <2>1. ASSUME NEW j \in 1..Len(t), IsBallot(t[j], v), NEW i \in 1..(j - 1)
        PROVE  Says(t[i], v) <= t[j].vote
    <3>1. i \in 1..Len(t) /\ i + 1 \in 1..((j + 1) - 1)
      BY <1>1, <1>2
    <3>2. t[i] = s[i + 1] /\ t[j] = s[j + 1] /\ j + 1 \in 1..Len(s)
      BY <1>2, <1>3, <3>1
    <3>3. QED
      BY <1>4, <2>1, <3>1, <3>2 DEF Rising
  <2>2. ASSUME NEW j \in 1..Len(t), IsBallot(t[j], v)
        PROVE  Says(s[1], v) <= t[j].vote
    <3>1. 1 \in 1..((j + 1) - 1)
      OBVIOUS
    <3>2. t[j] = s[j + 1] /\ j + 1 \in 1..Len(s)
      BY <1>2, <1>3
    <3>3. QED
      BY <1>4, <2>2, <3>1, <3>2 DEF Rising
  <2>3. QED
    BY <2>1, <2>2 DEF Rising, NoLess
<1>5. ASSUME NEW n, NoLess(s, v, n)
      PROVE  NoLess(t, v, n) /\ (IsBallot(s[1], v) => n <= s[1].vote)
  BY <1>2, <1>3, <1>5 DEF NoLess
<1>6. ASSUME NEW n, NoMore(s, v, n) PROVE NoMore(t, v, n) /\ Says(s[1], v) <= n
  BY <1>2, <1>3, <1>6 DEF NoMore
<1>7. QED
  BY <1>2, <1>4, <1>5, <1>6 DEF t

-----------------------------------------------------------------------------
(* The inductive invariant *)

\* What v has voted, as v itself knows.
Count(v) == IF Holds(v) THEN poll[v].ballots[v] ELSE 0

\* At p, with copy c, what came early e and queue s, no vote of v still to come is less than
\* what is known or comes before it.
InOrderAt(c, e, s, v) ==
    /\ c # NoPoll => NoLess(s, v, c.ballots[v])
    /\ NoLess(s, v, e.ballots[v])
    /\ Rising(s, v)

\* Nobody knows or will hear more of v than n.
BoundedAt(c, e, s, v, n) ==
    /\ c # NoPoll => c.ballots[v] <= n
    /\ e.ballots[v] <= n
    /\ NoMore(s, v, n)

VotesInOrder ==
    \A p, v \in Peers : InOrderAt(poll[p], early[p], down[p], v)
NobodyAhead ==
    \A v \in Peers \ retracted, p \in Peers : BoundedAt(poll[p], early[p], down[p], v, Count(v))

PollInv == RetractedStaysGone /\ VotesInOrder /\ NobodyAhead

-----------------------------------------------------------------------------
(* Steps after which everybody knows the votes it knew, or none *)

NoLouder(s, t) ==
    \A v \in Peers :
        /\ Rising(s, v) => Rising(t, v)
        /\ \A n \in Nat : /\ NoLess(s, v, n) => NoLess(t, v, n)
                          /\ NoMore(s, v, n) => NoMore(t, v, n)

CopyCalm(q) ==
    \/ poll'[q] = NoPoll /\ (Holds(q) => q \in retracted')
    \/ /\ poll'[q] \in Poll /\ q \notin retracted'
       /\ poll'[q].ballots = IF Holds(q) THEN poll[q].ballots ELSE NoVotes

Calm ==
    /\ retracted \subseteq retracted'
    /\ \A q \in Peers : /\ NoLouder(down[q], down'[q])
                        /\ early'[q].ballots \in {early[q].ballots, NoVotes}
                        /\ CopyCalm(q)

LEMMA SameIsCalm == \A s : NoLouder(s, s)
BY DEF NoLouder

LEMMA TailIsCalm == \A s \in Seq(Frame) : s # <<>> => NoLouder(s, Tail(s))
BY TailOrder DEF NoLouder

LEMMA EmptyIsCalm == \A s : NoLouder(s, <<>>)
BY EmptyOrder DEF NoLouder

LEMMA QuietFrames ==
    ASSUME NEW m, NEW v, m.kind \notin {"ballot", "sync"}
    PROVE  ~IsBallot(m, v) /\ Says(m, v) = 0
BY DEF IsBallot, Says

\* A bound on what a queue says is no less than nothing.
LEMMA QuietAppend ==
    ASSUME ConstantsOK, NEW s \in Seq(Frame), NEW m \in Frame, m.kind \notin {"ballot", "sync"}
    PROVE  NoLouder(s, Append(s, m))
<1> SUFFICES ASSUME NEW v \in Peers
             PROVE  /\ Rising(s, v) => Rising(Append(s, m), v)
                    /\ \A n \in Nat : /\ NoLess(s, v, n) => NoLess(Append(s, m), v, n)
                                      /\ NoMore(s, v, n) => NoMore(Append(s, m), v, n)
  BY DEF NoLouder
<1>1. ~IsBallot(m, v) /\ Says(m, v) = 0
  BY QuietFrames
<1>2. \A n \in Nat : 0 <= n
  OBVIOUS
<1>3. QED
  BY <1>1, <1>2, AppendOrder

LEMMA QuietSingle ==
    ASSUME ConstantsOK, NEW s, NEW m \in Frame, m.kind \notin {"ballot", "sync"}
    PROVE  NoLouder(s, <<m>>)
<1>1. <<>> \in Seq(Frame) /\ <<m>> = Append(<<>>, m)
  BY EmptySeq
<1>2. NoLouder(<<>>, <<m>>)
  BY <1>1, QuietAppend
<1>3. QED
  BY <1>2, EmptyOrder DEF NoLouder

LEMMA CalmInv ==
    ASSUME ConstantsOK, TypeOK, TypeOK', QueuesOK, QueuesOK', PollInv, Calm
    PROVE  PollInv' /\ MovesForward
<1>1. RetractedStaysGone'
  <2> SUFFICES ASSUME NEW p \in retracted' PROVE poll'[p] = NoPoll
    BY DEF RetractedStaysGone, Holds
  <2>1. p \in Peers
    BY DEF TypeOK
  <2>2. QED
    BY <2>1 DEF Calm, CopyCalm
<1>3. ASSUME NEW p \in Peers, NEW v \in Peers
      PROVE  early[p].ballots[v] \in Nat /\ NoVotes[v] = 0
             /\ early'[p].ballots[v] \in {early[p].ballots[v], 0}
  <2>1. early[p].ballots \in Votes
    BY DEF TypeOK
  <2>2. QED
    BY <2>1, NoVotesType DEF Calm, Votes, ConstantsOK
<1>4. VotesInOrder'
  <2> SUFFICES ASSUME NEW p \in Peers, NEW v \in Peers
               PROVE  InOrderAt(poll'[p], early'[p], down'[p], v)
    BY DEF VotesInOrder
  <2>1. InOrderAt(poll[p], early[p], down[p], v) /\ NoLouder(down[p], down'[p])
    BY DEF PollInv, VotesInOrder, Calm
  <2>2. down[p] \in Seq(Frame) /\ early[p].ballots[v] \in Nat
    BY <1>3 DEF QueuesOK
  <2>3. NoLess(down[p], v, early[p].ballots[v])
    BY <2>1 DEF InOrderAt
  <2>4. NoLess(down[p], v, 0)
    <3>1. 0 \in Nat /\ 0 <= early[p].ballots[v]
      BY <2>2
    <3>2. QED
      BY <2>2, <2>3, <3>1, LowerBound
  <2>5. NoLess(down'[p], v, 0) /\ NoLess(down'[p], v, early[p].ballots[v])
    BY <2>1, <2>2, <2>3, <2>4 DEF NoLouder
  <2>6. NoLess(down'[p], v, early'[p].ballots[v])
    BY <1>3, <2>5
  <2>7. poll'[p] # NoPoll => NoLess(down'[p], v, poll'[p].ballots[v])
    <3>1. CASE Holds(p) /\ poll'[p] # NoPoll
      <4>1. poll[p] \in Poll /\ poll'[p].ballots = poll[p].ballots
        BY <3>1 DEF Calm, CopyCalm, TypeOK, Holds
      <4>2. poll[p].ballots[v] \in Nat /\ NoLess(down[p], v, poll[p].ballots[v])
        BY <2>1, <3>1, <4>1, PollFields DEF InOrderAt, Holds
      <4>3. QED
        BY <2>1, <4>1, <4>2 DEF NoLouder
    <3>2. CASE ~Holds(p) /\ poll'[p] # NoPoll
      <4>1. poll'[p].ballots[v] = 0
        BY <1>3, <3>2 DEF Calm, CopyCalm
      <4>2. QED
        BY <2>5, <4>1
    <3>3. QED
      BY <3>1, <3>2
  <2>8. Rising(down'[p], v)
    BY <2>1 DEF InOrderAt, NoLouder
  <2>9. QED
    BY <2>6, <2>7, <2>8 DEF InOrderAt
<1>5. ASSUME NEW v \in Peers \ retracted'
      PROVE  Count(v) \in Nat /\ Count(v)' = Count(v)
  <2>1. Holds(v) => poll[v] \in Poll
    BY DEF TypeOK, Holds
  <2>2. Count(v) \in Nat
    BY <2>1, PollFields DEF Count
  <2>3. CASE Holds(v)
    <3>1. poll'[v] \in Poll /\ poll'[v].ballots = poll[v].ballots
      BY <2>3 DEF Calm, CopyCalm
    <3>2. Holds(v)'
      BY <3>1, PollFields DEF Holds
    <3>3. QED
      BY <2>2, <2>3, <3>1, <3>2 DEF Count
  <2>4. CASE ~Holds(v)
    <3>1. poll'[v] = NoPoll \/ poll'[v].ballots = NoVotes
      BY <2>4 DEF Calm, CopyCalm
    <3>2. NoVotes[v] = 0
      BY <1>3
    <3>3. Holds(v)' => poll'[v].ballots[v] = 0
      BY <3>1, <3>2 DEF Holds
    <3>4. QED
      BY <2>4, <3>3 DEF Count
  <2>5. QED
    BY <2>2, <2>3, <2>4
<1>6. NobodyAhead'
  <2> SUFFICES ASSUME NEW v \in Peers \ retracted', NEW p \in Peers
               PROVE  BoundedAt(poll'[p], early'[p], down'[p], v, Count(v)')
    BY DEF NobodyAhead
  <2>1. v \notin retracted
    BY DEF Calm
  <2>2. BoundedAt(poll[p], early[p], down[p], v, Count(v)) /\ NoLouder(down[p], down'[p])
    BY <2>1 DEF PollInv, NobodyAhead, Calm
  <2>3. Count(v) \in Nat /\ Count(v)' = Count(v) /\ 0 <= Count(v)
    BY <1>5
  <2>4. NoMore(down'[p], v, Count(v))
    BY <2>2, <2>3 DEF BoundedAt, NoLouder
  <2>5. early'[p].ballots[v] <= Count(v)
    BY <1>3, <2>2, <2>3 DEF BoundedAt
  <2>6. poll'[p] # NoPoll => poll'[p].ballots[v] <= Count(v)
    <3>1. CASE Holds(p) /\ poll'[p] # NoPoll
      BY <2>2, <3>1 DEF BoundedAt, Calm, CopyCalm, Holds
    <3>2. CASE ~Holds(p) /\ poll'[p] # NoPoll
      <4>1. poll'[p].ballots = NoVotes
        BY <3>2 DEF Calm, CopyCalm
      <4>2. QED
        BY <1>3, <2>3, <4>1
    <3>3. QED
      BY <3>1, <3>2
  <2>7. QED
    BY <2>3, <2>4, <2>5, <2>6 DEF BoundedAt
<1>7. MovesForward
  <2> SUFFICES ASSUME NEW p \in Peers, NEW v \in Peers, Holds(p), poll'[p] # NoPoll
               PROVE  poll[p].ballots[v] <= poll'[p].ballots[v]
    BY DEF MovesForward, Holds
  <2>1. poll[p] \in Poll /\ poll'[p].ballots = poll[p].ballots
    BY DEF TypeOK, Holds, Calm, CopyCalm
  <2>2. poll[p].ballots[v] \in Nat
    BY <2>1, PollFields
  <2>3. QED
    BY <2>1, <2>2
<1>8. QED
  BY <1>1, <1>4, <1>6, <1>7 DEF PollInv

LEMMA CopiesCalm ==
    ASSUME TypeOK, PollInv, UNCHANGED <<poll, retracted>>
    PROVE  \A q \in Peers : CopyCalm(q)
BY DEF TypeOK, PollInv, RetractedStaysGone, CopyCalm, Holds

\* A copy is kept with the votes that were in it, or without votes where there was none.
LEMMA KeptCalm ==
    ASSUME TypeOK, PollInv, UNCHANGED retracted, NEW p \in Peers, p \notin retracted,
           NEW c \in Poll, Keeps(p, c),
           c.ballots = IF Holds(p) THEN poll[p].ballots ELSE NoVotes
    PROVE  \A q \in Peers : CopyCalm(q)
<1>1. CopyCalm(p)
  BY DEF CopyCalm, Keeps
<1>2. ASSUME NEW q \in Peers \ {p} PROVE CopyCalm(q)
  BY DEF Keeps, TypeOK, PollInv, RetractedStaysGone, CopyCalm, Holds
<1>3. QED
  BY <1>1, <1>2

LEMMA EarlyTypes ==
    ASSUME ConstantsOK, TypeOK, NEW p \in Peers, early' = [early EXCEPT ![p] = NothingEarly]
    PROVE  /\ early' \in [Peers -> [options: SUBSET Options, ballots: Votes]]
           /\ early'[p].ballots = NoVotes /\ early'[p].options = {}
           /\ \A q \in Peers \ {p} : early'[q] = early[q]
BY NoVotesType DEF TypeOK, NothingEarly

-----------------------------------------------------------------------------
(* The room *)

LEMMA JoinCalm ==
    ASSUME ConstantsOK, TypeOK, QueuesOK, PollInv, NEW p \in Peers, Join(p)
    PROVE  TypeOK' /\ QueuesOK' /\ Calm
<1> DEFINE m == [kind |-> "peers", peers |-> here]
           k == [kind |-> "joined", peer |-> p]
           f == [q \in Peers |-> IF q = p THEN <<m>> ELSE IF q \in here THEN Append(down[q], k)
                                 ELSE down[q]]
<1>1. m \in Frame /\ k \in Frame /\ m.kind = "peers" /\ k.kind = "joined"
  BY FramesMade DEF TypeOK
<1>2. down' = [q \in Peers |-> f[q]]
  BY DEF Join
<1>3. \A q \in Peers \ here' : down'[q] = <<>>
  BY DEF Join, TypeOK
<1> HIDE DEF m, k
<1>4. \A q \in Peers : QueueOK(down[q], q) /\ down[q] \in Seq(Frame)
  BY QueuesAre
<1>5. \A q : ~IsBallot(m, q) /\ ~IsBallot(k, q)
  BY <1>1, QuietFrames
<1>6. \A q \in Peers : QueueOK(<<m>>, q)
  <2>1. <<m>> = Append(<<>>, m)
    OBVIOUS
  <2>2. QED
    BY <1>1, <1>5, <2>1, EmptyQueue, AppendQueue
<1>7. \A q \in Peers : QueueOK(f[q], q)
  BY <1>1, <1>4, <1>5, <1>6, AppendQueue
<1>8. QueuesOK'
  <2> HIDE DEF f
  <2>1. QED
    BY <1>2, <1>7, QueuesBecome
<1>9. \A q \in Peers : NoLouder(down[q], down'[q])
  <2>1. \A q \in Peers : NoLouder(down[q], <<m>>)
    BY <1>1, QuietSingle
  <2>2. \A q \in Peers : NoLouder(down[q], Append(down[q], k))
    BY <1>1, <1>4, QuietAppend
  <2>3. QED
    BY <1>2, <2>1, <2>2, SameIsCalm
<1>10. TypeOK'
  BY <1>3 DEF Join, TypeOK
<1>11. QED
  BY <1>8, <1>9, <1>10, CopiesCalm DEF Calm, Join

LEMMA LeaveCalm ==
    ASSUME ConstantsOK, TypeOK, QueuesOK, PollInv, NEW p \in Peers, Leave(p)
    PROVE  TypeOK' /\ QueuesOK' /\ Calm
<1> DEFINE f == [q \in Peers |-> IF q = p THEN <<>> ELSE down[q]]
<1>1. \A q \in Peers : QueueOK(down[q], q) /\ down[q] \in Seq(Frame)
  BY QueuesAre
<1>2. down' = [q \in Peers |-> f[q]]
  BY DEF Leave, QueuesOK
<1>3. \A q \in Peers : QueueOK(f[q], q)
  BY <1>1, EmptyQueue
<1>4. \A q \in Peers : NoLouder(down[q], down'[q])
  BY <1>2, EmptyIsCalm, SameIsCalm
<1>5. \A q \in Peers \ here' : down'[q] = <<>>
  BY <1>2 DEF Leave, TypeOK
<1> HIDE DEF f
<1>6. QueuesOK'
  BY <1>2, <1>3, QueuesBecome
<1>7. /\ early' \in [Peers -> [options: SUBSET Options, ballots: Votes]]
      /\ \A q \in Peers : early'[q].ballots \in {early[q].ballots, NoVotes}
  BY EarlyTypes DEF Leave
<1>8. missed' \in BOOLEAN
  BY DEF Leave
<1>9. leaves' \in 0..MaxLeaves
  BY DEF Leave, TypeOK, ConstantsOK
<1>10. TypeOK'
  BY <1>5, <1>7, <1>8, <1>9 DEF Leave, TypeOK
<1>11. QED
  BY <1>4, <1>6, <1>7, <1>10, CopiesCalm DEF Calm, Leave

-----------------------------------------------------------------------------
(* What people do *)

\* A frame without a vote is broadcast.
LEMMA QuietBroadcast ==
    ASSUME ConstantsOK, TypeOK, QueuesOK, NEW p \in Peers, NEW m \in Frame,
           m.kind \notin {"ballot", "sync"}, Broadcast(p, m)
    PROVE  /\ QueuesOK'
           /\ \A q \in Peers : NoLouder(down[q], down'[q])
           /\ \A q \in Peers \ here : down'[q] = <<>>
<1>1. /\ QueuesOK'
      /\ \A q \in Peers : down'[q] = down[q] \/ (q # p /\ down'[q] = Append(down[q], m))
      /\ \A q \in Peers \ here : down'[q] = <<>>
  BY BroadcastQueues
<1>2. \A q \in Peers : down[q] \in Seq(Frame)
  BY DEF QueuesOK
<1>3. QED
  BY <1>1, <1>2, SameIsCalm, QuietAppend

\* What a copy may be kept as without a frame that carries votes.
LEMMA CreateCalm ==
    ASSUME ConstantsOK, TypeOK, QueuesOK, PollInv, CreatePoll
    PROVE  TypeOK' /\ QueuesOK' /\ Calm
<1>1. Creator \in Peers /\ Creator \notin retracted /\ ~Holds(Creator)
  BY DEF CreatePoll, ConstantsOK, IsRetracted
<1>2. NewPoll \in Poll /\ Keeps(Creator, NewPoll) /\ NewPoll.ballots = NoVotes
  BY <1>1, NewPollType, KeepReads DEF CreatePoll
<1>3. \A q \in Peers : CopyCalm(q)
  BY <1>1, <1>2, KeptCalm DEF CreatePoll
<1> DEFINE m == [kind |-> "open", from |-> Creator]
<1>4. m \in Frame /\ m.kind \notin {"ballot", "sync"} /\ Broadcast(Creator, m)
  BY <1>1, FramesMade DEF CreatePoll
<1> HIDE DEF m
<1>5. /\ QueuesOK'
      /\ \A q \in Peers : NoLouder(down[q], down'[q])
      /\ \A q \in Peers \ here : down'[q] = <<>>
  BY <1>1, <1>4, QuietBroadcast
<1>6. TypeOK'
  BY <1>2, <1>5 DEF CreatePoll, TypeOK, Keeps
<1>7. QED
  BY <1>3, <1>5, <1>6 DEF Calm, CreatePoll

\* A nomination, the lock and the close are kept and broadcast alike.
LEMMA ChangeCalm ==
    ASSUME ConstantsOK, TypeOK, QueuesOK, PollInv, NEW p \in Peers, Holds(p),
           NEW c \in Poll, c.ballots = poll[p].ballots, Keep(p, c),
           NEW m \in Frame, m.kind \notin {"ballot", "sync"}, Broadcast(p, m),
           Move(p), UNCHANGED <<retracted, missed>>
    PROVE  TypeOK' /\ QueuesOK' /\ Calm
<1>1. p \notin retracted
  BY DEF PollInv, RetractedStaysGone
<1>2. Keeps(p, c)
  BY KeepReads
<1>3. \A q \in Peers : CopyCalm(q)
  BY <1>1, <1>2, KeptCalm
<1>4. /\ QueuesOK'
      /\ \A q \in Peers : NoLouder(down[q], down'[q])
      /\ \A q \in Peers \ here : down'[q] = <<>>
  BY QuietBroadcast
<1>5. moves' \in 0..MaxMoves
  BY DEF Move, TypeOK, ConstantsOK
<1>6. TypeOK'
  BY <1>2, <1>4, <1>5 DEF Move, TypeOK, Keeps
<1>7. QED
  BY <1>3, <1>4, <1>6 DEF Calm, Move

LEMMA EditCalm ==
    ASSUME ConstantsOK, TypeOK, QueuesOK, PollInv,
           \/ \E p \in Peers, o \in Options : AddOption(p, o)
           \/ LockNominations
           \/ ClosePoll
    PROVE  TypeOK' /\ QueuesOK' /\ Calm
<1>1. ASSUME NEW p \in Peers, NEW o \in Options, AddOption(p, o)
      PROVE  TypeOK' /\ QueuesOK' /\ Calm
  <2> DEFINE c == [poll[p] EXCEPT !.options = poll[p].options \cup {o}]
             m == [kind |-> "option", from |-> p, option |-> o]
  <2>1. Holds(p) /\ poll[p] \in Poll
    BY <1>1 DEF AddOption, Holds, TypeOK
  <2>2. poll[p].options \cup {o} \in SUBSET Options
    BY <2>1, PollFields
  <2>3. c \in Poll /\ c.ballots = poll[p].ballots
    BY <2>1, <2>2, PollFields
  <2>4. m \in Frame /\ m.kind \notin {"ballot", "sync"}
    BY FramesMade
  <2>5. Keep(p, c) /\ Broadcast(p, m) /\ Move(p) /\ UNCHANGED <<retracted, missed>>
    BY <1>1, <2>1 DEF AddOption, Poll
  <2> HIDE DEF c, m
  <2>6. QED
    BY <2>1, <2>3, <2>4, <2>5, ChangeCalm
<1>2. CASE LockNominations
  <2> DEFINE p == Creator
             c == [poll[p] EXCEPT !.nominationsLocked = TRUE]
             m == [kind |-> "lock", from |-> p]
  <2>1. p \in Peers /\ Holds(p) /\ poll[p] \in Poll
    BY <1>2 DEF LockNominations, Holds, TypeOK, ConstantsOK
  <2>2. c \in Poll /\ c.ballots = poll[p].ballots
    BY <2>1, PollFields
  <2>3. m \in Frame /\ m.kind \notin {"ballot", "sync"}
    BY <2>1, FramesMade
  <2>4. Keep(p, c) /\ Broadcast(p, m) /\ Move(p) /\ UNCHANGED <<retracted, missed>>
    BY <1>2 DEF LockNominations
  <2> HIDE DEF c, m, p
  <2>5. QED
    BY <2>1, <2>2, <2>3, <2>4, ChangeCalm
<1>3. CASE ClosePoll
  <2> DEFINE p == Creator
             c == Close(poll[p])
             m == [kind |-> "close", from |-> p]
  <2>1. p \in Peers /\ Holds(p) /\ poll[p] \in Poll
    BY <1>3 DEF ClosePoll, Holds, TypeOK, ConstantsOK
  <2>2. c \in Poll /\ c.ballots = poll[p].ballots
    BY <2>1, PollFields
  <2>3. m \in Frame /\ m.kind \notin {"ballot", "sync"}
    BY <2>1, FramesMade
  <2>4. Keep(p, c) /\ Broadcast(p, m) /\ Move(p) /\ UNCHANGED <<retracted, missed>>
    BY <1>3 DEF ClosePoll
  <2> HIDE DEF c, m, p
  <2>5. QED
    BY <2>1, <2>2, <2>3, <2>4, ChangeCalm
<1>4. QED
  BY <1>1, <1>2, <1>3

\* Who removes the poll, or hears its creator remove it, keeps a tombstone.
LEMMA GoneCalm ==
    ASSUME TypeOK, PollInv, NEW p \in Peers, retracted' = retracted \cup {p}, Keeps(p, NoPoll)
    PROVE  \A q \in Peers : CopyCalm(q)
BY DEF TypeOK, PollInv, RetractedStaysGone, CopyCalm, Keeps, Holds

LEMMA ForgetCalm ==
    ASSUME ConstantsOK, TypeOK, QueuesOK, PollInv, NEW p \in Peers, ForgetPoll(p)
    PROVE  TypeOK' /\ QueuesOK' /\ Calm
<1>1. Keeps(p, NoPoll)
  BY KeepReads DEF ForgetPoll
<1>2. \A q \in Peers : CopyCalm(q)
  BY <1>1, GoneCalm DEF ForgetPoll
<1>3. /\ QueuesOK'
      /\ \A q \in Peers : NoLouder(down[q], down'[q])
      /\ \A q \in Peers \ here : down'[q] = <<>>
  <2>1. CASE p = Creator
    <3> DEFINE m == [kind |-> "retract", from |-> p]
    <3>1. m \in Frame /\ m.kind \notin {"ballot", "sync"} /\ Broadcast(p, m)
      BY <2>1, FramesMade DEF ForgetPoll
    <3> HIDE DEF m
    <3>2. QED
      BY <3>1, QuietBroadcast
  <2>2. CASE p # Creator
    <3>1. down' = down
      BY <2>2 DEF ForgetPoll
    <3>2. QED
      BY <3>1, SameIsCalm DEF QueuesOK, TypeOK
  <2>3. QED
    BY <2>1, <2>2
<1>4. moves' \in 0..MaxMoves
  BY DEF ForgetPoll, Move, TypeOK, ConstantsOK
<1>5. TypeOK'
  <2>1. missed' \in BOOLEAN
    BY DEF ForgetPoll
  <2>2. QED
    BY <1>1, <1>3, <1>4, <2>1 DEF ForgetPoll, Move, TypeOK, Keeps
<1>6. QED
  BY <1>2, <1>3, <1>5 DEF Calm, ForgetPoll, Move

-----------------------------------------------------------------------------
(* What they hear *)

LEMMA HeardQueues ==
    ASSUME ConstantsOK, TypeOK, QueuesOK, NEW p \in Peers, down[p] # <<>>, Taken(p),
           UNCHANGED here
    PROVE  /\ QueuesOK'
           /\ \A q \in Peers : NoLouder(down[q], down'[q])
           /\ \A q \in Peers \ here' : down'[q] = <<>>
           /\ down'[p] = Tail(down[p]) /\ \A q \in Peers \ {p} : down'[q] = down[q]
           /\ down[p] \in Seq(Frame)
           /\ Head(down[p]) \in Frame /\ ~IsBallot(Head(down[p]), p)
<1>1. /\ QueuesOK'
      /\ down'[p] = Tail(down[p])
      /\ \A q \in Peers \ {p} : down'[q] = down[q]
      /\ \A q \in Peers \ here : down'[q] = <<>>
  BY TakenQueues
<1>2. down[p] \in Seq(Frame) /\ QueueOK(down[p], p)
  BY QueuesAre
<1>3. Head(down[p]) \in Frame /\ ~IsBallot(Head(down[p]), p)
  BY <1>2, TailQueue
<1>4. \A q \in Peers : NoLouder(down[q], down'[q])
  BY <1>1, <1>2, SameIsCalm, TailIsCalm
<1>5. QED
  BY <1>1, <1>2, <1>3, <1>4

\* A frame that is of no use here is let go.
LEMMA IgnoredCalm ==
    ASSUME ConstantsOK, TypeOK, QueuesOK, PollInv, NEW p \in Peers, down[p] # <<>>, Heard(p),
           UNCHANGED <<poll, retracted>>, late' \in BOOLEAN,
           early' \in [Peers -> [options: SUBSET Options, ballots: Votes]],
           \A q \in Peers : early'[q].ballots \in {early[q].ballots, NoVotes}
    PROVE  TypeOK' /\ QueuesOK' /\ Calm
<1>1. TypeOK' /\ QueuesOK'
  BY HeardQueues DEF TypeOK, Heard
<1>2. QED
  BY <1>1, HeardQueues, CopiesCalm DEF Calm, Heard

\* A copy is changed by what is heard, but for its votes.
LEMMA ChangedCalm ==
    ASSUME ConstantsOK, TypeOK, QueuesOK, PollInv, NEW p \in Peers, down[p] # <<>>, Heard(p),
           UNCHANGED <<retracted, early>>, late' \in BOOLEAN,
           Holds(p), NEW c \in Poll, c.ballots = poll[p].ballots, Keeps(p, c)
    PROVE  TypeOK' /\ QueuesOK' /\ Calm
<1>1. TypeOK' /\ QueuesOK'
  BY HeardQueues DEF TypeOK, Keeps, Heard
<1>2. p \notin retracted
  BY DEF PollInv, RetractedStaysGone
<1>3. QED
  BY <1>1, <1>2, HeardQueues, KeptCalm DEF Calm, Heard

LEMMA OptionCalm ==
    ASSUME ConstantsOK, TypeOK, QueuesOK, PollInv, NEW p \in Peers, OnOption(p)
    PROVE  TypeOK' /\ QueuesOK' /\ Calm
<1> DEFINE o == Head(down[p]).option
           shut == Holds(p) /\ (poll[p].nominationsLocked \/ ~Open(p))
           late1 == late \/ (shut /\ o \notin poll[p].options)
<1>1. down[p] # <<>> /\ Heard(p) /\ UNCHANGED retracted /\ Head(down[p]).kind = "option"
  BY DEF OnOption, Gets
<1>2. Head(down[p]) \in Frame
  BY <1>1, HeardQueues DEF Heard
<1>3. o \in Options
  BY <1>1, <1>2, FrameFields
<1>4. late' \in BOOLEAN
  BY DEF OnOption
<1>5. CASE Holds(p) /\ ~shut
  <2> DEFINE c == [poll[p] EXCEPT !.options = poll[p].options \cup {o}]
  <2>1. poll[p] \in Poll
    BY <1>5 DEF Holds, TypeOK
  <2>2. poll[p].options \cup {o} \in SUBSET Options
    BY <1>3, <2>1, PollFields
  <2>3. c \in Poll /\ c.ballots = poll[p].ballots
    BY <2>1, <2>2, PollFields
  <2>4. early' = early /\ Keep(p, c)
    BY <1>5 DEF OnOption, Keep, TypeOK
  <2> HIDE DEF c, o, shut
  <2>5. Keeps(p, c)
    BY <2>3, <2>4, KeepReads
  <2>6. QED
    BY <1>1, <1>4, <1>5, <2>3, <2>4, <2>5, ChangedCalm
<1>6. CASE ~(Holds(p) /\ ~shut)
  <2>1. poll' = poll
    BY <1>6 DEF OnOption
  <2>2. \/ early' = early
        \/ early' = [early EXCEPT ![p].options = early[p].options \cup {o}]
    BY DEF OnOption, TypeOK
  <2>3. /\ early' \in [Peers -> [options: SUBSET Options, ballots: Votes]]
        /\ \A q \in Peers : early'[q].ballots = early[q].ballots
    <3>1. early \in [Peers -> [options: SUBSET Options, ballots: Votes]]
      BY DEF TypeOK
    <3> HIDE DEF o
    <3> DEFINE w == [early[p] EXCEPT !.options = early[p].options \cup {o}]
    <3>2. /\ w \in [options: SUBSET Options, ballots: Votes]
          /\ w.ballots = early[p].ballots
      BY <1>3, <3>1
    <3>3. early' = early \/ early' = [early EXCEPT ![p] = w]
      BY <2>2
    <3> HIDE DEF w
    <3>4. QED
      BY <3>1, <3>2, <3>3
  <2>4. QED
    BY <1>1, <1>4, <2>1, <2>3, IgnoredCalm
<1>7. QED
  BY <1>5, <1>6

LEMMA LockCalm ==
    ASSUME ConstantsOK, TypeOK, QueuesOK, PollInv, NEW p \in Peers, OnLock(p) \/ OnClose(p)
    PROVE  TypeOK' /\ QueuesOK' /\ Calm
<1>1. down[p] # <<>> /\ Heard(p) /\ UNCHANGED <<retracted, early>> /\ late' \in BOOLEAN
  BY DEF OnLock, OnClose, Gets, TypeOK
<1>2. CASE UNCHANGED poll
  BY <1>1, <1>2, IgnoredCalm DEF TypeOK
<1>3. CASE ~UNCHANGED poll
  <2> DEFINE locked == [poll[p] EXCEPT !.nominationsLocked = TRUE]
  <2>1. Holds(p) /\ poll[p] \in Poll
    BY <1>3 DEF OnLock, OnClose, Holds, TypeOK
  <2>2. /\ locked \in Poll /\ locked.ballots = poll[p].ballots
        /\ Close(poll[p]) \in Poll /\ Close(poll[p]).ballots = poll[p].ballots
    BY <2>1, PollFields
  <2>3. Keep(p, locked) \/ Keep(p, Close(poll[p]))
    BY <1>3 DEF OnLock, OnClose, Keep, TypeOK
  <2> HIDE DEF locked
  <2>4. Keeps(p, locked) \/ Keeps(p, Close(poll[p]))
    BY <2>2, <2>3, KeepReads
  <2>5. QED
    BY <1>1, <2>1, <2>2, <2>4, ChangedCalm
<1>4. QED
  BY <1>2, <1>3

LEMMA RetractCalm ==
    ASSUME ConstantsOK, TypeOK, QueuesOK, PollInv, NEW p \in Peers, OnRetract(p)
    PROVE  TypeOK' /\ QueuesOK' /\ Calm
<1>1. down[p] # <<>> /\ Taken(p) /\ UNCHANGED <<here, early, late, moves, leaves>>
  BY DEF OnRetract, Gets
<1>2. CASE Holds(p)
  <2>1. Keeps(p, NoPoll) /\ retracted' = retracted \cup {p}
    BY <1>2, KeepReads DEF OnRetract
  <2>2. \A q \in Peers : CopyCalm(q)
    BY <2>1, GoneCalm
  <2>3. TypeOK' /\ QueuesOK'
    <3>1. missed' \in BOOLEAN
      BY <1>2 DEF OnRetract
    <3>2. QED
      BY <1>1, <2>1, <3>1, HeardQueues DEF TypeOK, Keeps
  <2>4. QED
    BY <1>1, <2>1, <2>2, <2>3, HeardQueues DEF Calm
<1>3. CASE ~Holds(p)
  <2>1. UNCHANGED <<poll, retracted>> /\ Heard(p)
    BY <1>3 DEF OnRetract, Heard
  <2>2. QED
    BY <1>1, <2>1, IgnoredCalm DEF TypeOK
<1>4. QED
  BY <1>2, <1>3

-----------------------------------------------------------------------------
(* Steps that carry votes *)

LEMMA Counts ==
    ASSUME ConstantsOK, TypeOK
    PROVE  \A v \in Peers : /\ Count(v) \in Nat
                            /\ \A p \in Peers : /\ Holds(p) => poll[p].ballots[v] \in Nat
                                                /\ early[p].ballots[v] \in Nat
<1>1. \A p \in Peers : Holds(p) => poll[p] \in Poll
  BY DEF TypeOK, Holds
<1>2. \A v, p \in Peers : Holds(p) => poll[p].ballots[v] \in Nat
  BY <1>1, PollFields
<1>3. \A v, p \in Peers : early[p].ballots[v] \in Nat
  BY DEF TypeOK, Votes, ConstantsOK
<1>4. \A v \in Peers : Count(v) \in Nat
  BY <1>2 DEF Count
<1>5. QED
  BY <1>2, <1>3, <1>4

\* A copy that is given says of no voter more than the voter knows.
LEMMA SyncInv ==
    ASSUME ConstantsOK, TypeOK, QueuesOK, PollInv, NEW p \in Peers, OnPeers(p) \/ OnJoined(p)
    PROVE  TypeOK' /\ QueuesOK' /\ PollInv' /\ MovesForward
<1> DEFINE m == [kind |-> "sync", from |-> p, copy |-> poll[p]]
<1>1. /\ down[p] # <<>> /\ \E qs : Syncs(p, qs)
      /\ UNCHANGED <<here, poll, retracted, early, missed, late, moves, leaves>>
  BY DEF OnPeers, OnJoined, Gets
<1>2. /\ QueuesOK'
      /\ down'[p] = Tail(down[p])
      /\ \A q \in Peers \ {p} :
             down'[q] = down[q] \/ (Holds(p) /\ down'[q] = Append(down[q], m))
      /\ \A q \in Peers \ here : down'[q] = <<>>
  BY <1>1, SyncQueues
<1>3. TypeOK'
  BY <1>1, <1>2 DEF TypeOK
<1>4. Holds(p) => /\ m \in Frame
                  /\ \A v \in Peers : ~IsBallot(m, v) /\ Says(m, v) = poll[p].ballots[v]
  <2>1. Holds(p) => poll[p] \in Poll
    BY DEF TypeOK, Holds
  <2>2. QED
    BY <2>1, FramesMade DEF IsBallot, Says
<1> HIDE DEF m
<1>5. \A q \in Peers : down[q] \in Seq(Frame)
  BY DEF QueuesOK
<1>6. ASSUME NEW q \in Peers, NEW v \in Peers
      PROVE  /\ InOrderAt(poll[q], early[q], down'[q], v)
             /\ v \notin retracted => BoundedAt(poll[q], early[q], down'[q], v, Count(v))
  <2>1. /\ InOrderAt(poll[q], early[q], down[q], v)
        /\ v \notin retracted => BoundedAt(poll[q], early[q], down[q], v, Count(v))
    BY DEF PollInv, VotesInOrder, NobodyAhead
  <2>2. CASE down'[q] = down[q]
    BY <2>1, <2>2
  <2>3. CASE q = p
    <3>1. NoLouder(down[q], down'[q])
      BY <1>1, <1>2, <1>5, <2>3, TailIsCalm
    <3>2. Holds(q) => poll[q].ballots[v] \in Nat
      BY Counts
    <3>3. early[q].ballots[v] \in Nat /\ Count(v) \in Nat
      BY Counts
    <3>4. QED
      BY <2>1, <3>1, <3>2, <3>3 DEF NoLouder, InOrderAt, BoundedAt, Holds
  <2>4. CASE Holds(p) /\ down'[q] = Append(down[q], m)
    <3>1. ~IsBallot(m, v) /\ m \in Frame
      BY <1>4, <2>4
    <3>2. InOrderAt(poll[q], early[q], down'[q], v)
      BY <1>5, <2>1, <2>4, <3>1, AppendOrder DEF InOrderAt
    <3>3. ASSUME v \notin retracted PROVE NoMore(down'[q], v, Count(v))
      <4>1. Says(m, v) <= Count(v)
        BY <1>4, <2>4, <3>3 DEF PollInv, NobodyAhead, BoundedAt, Holds
      <4>2. NoMore(down[q], v, Count(v))
        BY <2>1, <3>3 DEF BoundedAt
      <4>3. QED
        BY <1>5, <2>4, <3>1, <4>1, <4>2, AppendOrder
    <3>4. QED
      BY <2>1, <3>2, <3>3 DEF BoundedAt
  <2>5. QED
    BY <1>2, <2>2, <2>3, <2>4
<1>7. \A v \in Peers : Count(v)' = Count(v)
  BY <1>1 DEF Count, Holds
<1>8. VotesInOrder' /\ NobodyAhead'
  BY <1>1, <1>6, <1>7 DEF VotesInOrder, NobodyAhead
<1>9. RetractedStaysGone'
  BY <1>1 DEF PollInv, RetractedStaysGone, Holds
<1>10. MovesForward
  BY <1>1, Counts DEF MovesForward
<1>11. QED
  BY <1>2, <1>3, <1>8, <1>9, <1>10 DEF PollInv

\* A vote is more than anybody knows of the voter.
LEMMA CastInv ==
    ASSUME ConstantsOK, TypeOK, QueuesOK, PollInv, NEW p \in Peers, CastVote(p)
    PROVE  TypeOK' /\ QueuesOK' /\ PollInv' /\ MovesForward
<1> DEFINE n == poll[p].ballots[p] + 1
           c == [poll[p] EXCEPT !.ballots = [poll[p].ballots EXCEPT ![p] = n]]
           m == [kind |-> "ballot", from |-> p, vote |-> n]
<1>1. /\ Holds(p) /\ poll[p] \in Poll /\ poll[p].ballots[p] < MaxVotes
      /\ Broadcast(p, m) /\ Move(p) /\ UNCHANGED retracted
  BY DEF CastVote, Holds, TypeOK
<1>2. poll[p].ballots \in Votes /\ poll[p].ballots[p] \in Nat
  BY <1>1, PollFields
<1>3. n \in Nat /\ n \in 0..MaxVotes /\ poll[p].ballots[p] < n
  BY <1>1, <1>2 DEF ConstantsOK
<1>4. /\ [poll[p].ballots EXCEPT ![p] = n] \in Votes
      /\ \A v \in Peers : [poll[p].ballots EXCEPT ![p] = n][v]
                              = IF v = p THEN n ELSE poll[p].ballots[v]
  BY <1>2, <1>3 DEF Votes
<1>5. /\ c \in Poll
      /\ c.ballots = [poll[p].ballots EXCEPT ![p] = n]
  BY <1>1, <1>4, PollFields
<1>6. Keep(p, c)
  BY <1>1 DEF CastVote, Poll
<1>7. m \in Frame /\ m.from = p /\ m.vote = n /\ IsBallot(m, p) /\ Says(m, p) = n
      /\ \A v \in Peers \ {p} : ~IsBallot(m, v) /\ Says(m, v) = 0
  BY <1>3, FramesMade DEF IsBallot, Says
<1>8. \A v \in Peers : c.ballots[v] = IF v = p THEN n ELSE poll[p].ballots[v]
  BY <1>4, <1>5
<1> HIDE DEF n, c, m
<1>9. Keeps(p, c)
  BY <1>5, <1>6, KeepReads
<1>10. /\ QueuesOK'
       /\ \A q \in Peers : down'[q] = down[q] \/ (q # p /\ down'[q] = Append(down[q], m))
       /\ \A q \in Peers \ here : down'[q] = <<>>
  BY <1>1, <1>7, BroadcastQueues
<1>11. moves' \in 0..MaxMoves /\ UNCHANGED <<here, early, late, leaves>>
  BY <1>1 DEF Move, TypeOK, ConstantsOK
<1>12. TypeOK'
  <2>1. missed' \in BOOLEAN
    BY DEF CastVote
  <2>2. QED
    BY <1>1, <1>5, <1>9, <1>10, <1>11, <2>1 DEF TypeOK, Keeps
<1>13. p \notin retracted /\ Count(p) < n /\ Count(p) \in Nat
  BY <1>1, <1>2, <1>3 DEF PollInv, RetractedStaysGone, Count
<1>14. /\ Count(p)' = n
       /\ \A v \in Peers \ {p} : Count(v)' = Count(v)
  <2>1. Holds(p)' /\ poll'[p].ballots[p] = n
    BY <1>5, <1>8, <1>9, PollFields DEF Keeps, Holds
  <2>2. \A v \in Peers \ {p} : poll'[v] = poll[v]
    BY <1>9 DEF Keeps
  <2>3. QED
    BY <2>1, <2>2 DEF Count, Holds
<1>15. \A q \in Peers : down[q] \in Seq(Frame)
  BY DEF QueuesOK
<1>16. ASSUME NEW q \in Peers, NEW v \in Peers
       PROVE  /\ InOrderAt(poll[q], early[q], down[q], v)
              /\ v \notin retracted => BoundedAt(poll[q], early[q], down[q], v, Count(v))
  BY DEF PollInv, VotesInOrder, NobodyAhead
<1>17. ASSUME NEW q \in Peers, NEW v \in Peers
       PROVE  /\ InOrderAt(poll'[q], early[q], down'[q], v)
              /\ v \notin retracted => BoundedAt(poll'[q], early[q], down'[q], v, Count(v)')
  <2>1. CASE v # p
    <3>1. poll'[q] # NoPoll => poll[q] # NoPoll /\ poll'[q].ballots[v] = poll[q].ballots[v]
      BY <1>1, <1>8, <1>9, <2>1 DEF Keeps, Holds
    <3>2. ~IsBallot(m, v) /\ Says(m, v) = 0
      BY <1>7, <2>1
    <3>3. /\ Rising(down[q], v) => Rising(down'[q], v)
          /\ \A k : NoLess(down[q], v, k) => NoLess(down'[q], v, k)
          /\ \A k \in Nat : NoMore(down[q], v, k) => NoMore(down'[q], v, k)
      <4>1. \A k \in Nat : 0 <= k
        OBVIOUS
      <4>2. CASE down'[q] = down[q]
        BY <4>2
      <4>3. CASE down'[q] = Append(down[q], m)
        BY <1>7, <1>15, <3>2, <4>1, <4>3, AppendOrder
      <4>4. QED
        BY <1>10, <4>2, <4>3
    <3>4. Count(v) \in Nat /\ Count(v)' = Count(v)
      BY <1>14, <2>1, Counts
    <3>5. InOrderAt(poll'[q], early[q], down'[q], v)
      BY <1>16, <3>1, <3>3 DEF InOrderAt
    <3>6. v \notin retracted => BoundedAt(poll'[q], early[q], down'[q], v, Count(v)')
      BY <1>16, <3>1, <3>3, <3>4 DEF BoundedAt
    <3>7. QED
      BY <3>5, <3>6
  <2>2. CASE v = p
    <3>1. BoundedAt(poll[q], early[q], down[q], p, Count(p))
          /\ InOrderAt(poll[q], early[q], down[q], p)
      BY <1>13, <1>16
    <3>2. NoMore(down[q], p, n)
      BY <1>3, <1>13, <1>15, <3>1, UpperBound DEF BoundedAt
    <3>3. early[q].ballots[p] <= n /\ early[q].ballots[p] \in Nat
      BY <1>3, <1>13, <3>1, Counts DEF BoundedAt
    <3>4. poll[q] # NoPoll => poll[q].ballots[p] <= n
      BY <1>3, <1>13, <3>1, Counts DEF BoundedAt, Holds
    <3>5. CASE q = p
      <4>1. down'[p] = down[p] /\ poll'[p] = c
        BY <1>9, <1>10, <3>5 DEF Keeps
      <4>2. c.ballots[p] = n
        BY <1>8
      <4>3. NoLess(down[p], p, n)
        <5>1. \A i \in 1..Len(down[p]) : ~IsBallot(down[p][i], p)
          BY DEF QueuesOK
        <5>2. QED
          BY <5>1 DEF NoLess
      <4>4. InOrderAt(c, early[p], down[p], p)
        BY <3>1, <3>5, <4>2, <4>3 DEF InOrderAt
      <4>5. BoundedAt(c, early[p], down[p], p, n)
        BY <1>3, <3>2, <3>3, <3>5, <4>2 DEF BoundedAt
      <4>6. QED
        BY <1>14, <2>2, <3>5, <4>1, <4>4, <4>5
    <3>6. CASE q # p
      <4>1. poll'[q] = poll[q]
        BY <1>9, <3>6 DEF Keeps
      <4>2. CASE down'[q] = down[q]
        BY <1>14, <2>2, <3>1, <3>2, <3>3, <3>4, <4>1, <4>2 DEF BoundedAt
      <4>3. CASE down'[q] = Append(down[q], m)
        <5>1. Rising(down'[q], p)
          BY <1>7, <1>15, <3>1, <3>2, <4>3, AppendOrder DEF InOrderAt
        <5>2. NoLess(down'[q], p, early[q].ballots[p])
          BY <1>7, <1>15, <3>1, <3>3, <4>3, AppendOrder DEF InOrderAt
        <5>3. poll[q] # NoPoll => NoLess(down'[q], p, poll[q].ballots[p])
          BY <1>7, <1>15, <3>1, <3>4, <4>3, AppendOrder DEF InOrderAt
        <5>4. NoMore(down'[q], p, n)
          <6>1. Says(m, p) <= n
            BY <1>3, <1>7
          <6>2. QED
            BY <1>7, <1>15, <3>2, <4>3, <6>1, AppendOrder
        <5>5. QED
          BY <1>14, <2>2, <3>3, <3>4, <4>1, <5>1, <5>2, <5>3, <5>4 DEF InOrderAt, BoundedAt
      <4>4. QED
        BY <1>10, <4>2, <4>3
    <3>7. QED
      BY <3>5, <3>6
  <2>3. QED
    BY <2>1, <2>2
<1>18. VotesInOrder' /\ NobodyAhead'
  BY <1>1, <1>11, <1>17 DEF VotesInOrder, NobodyAhead
<1>19. RetractedStaysGone'
  <2>1. \A q \in retracted : q \in Peers /\ q # p /\ poll[q] = NoPoll
    BY <1>1 DEF PollInv, RetractedStaysGone, Holds, TypeOK
  <2>2. QED
    BY <1>1, <1>9, <2>1 DEF Keeps, RetractedStaysGone, Holds
<1>20. MovesForward
  <2> SUFFICES ASSUME NEW q \in Peers, NEW v \in Peers, Holds(q)
               PROVE  poll[q].ballots[v] <= poll'[q].ballots[v]
    BY DEF MovesForward
  <2>1. poll[q].ballots[v] \in Nat
    BY Counts
  <2>2. CASE q = p
    BY <1>3, <1>8, <1>9, <2>1, <2>2 DEF Keeps, n
  <2>3. CASE q # p
    BY <1>9, <2>1, <2>3 DEF Keeps
  <2>4. QED
    BY <2>2, <2>3
<1>21. QED
  BY <1>10, <1>12, <1>18, <1>19, <1>20 DEF PollInv

-----------------------------------------------------------------------------
(* What is learnt from the next frame *)

Known(p, v) == IF Holds(p) THEN poll[p].ballots[v] ELSE 0

\* In what p has of the poll from now on, c, or has without it, every vote is one it knew, one
\* that came early or the next frame's.
Learnt(p, c) ==
    /\ c = NoPoll => ~Holds(p)
    /\ c # NoPoll => p \notin retracted
    /\ \A v \in Peers :
           LET said == Says(Head(down[p]), v)
           IN  /\ c # NoPoll => c.ballots[v] \in {Known(p, v), early[p].ballots[v], said}
               /\ Holds(p) => poll[p].ballots[v] <= c.ballots[v]
               /\ early'[p].ballots[v] \in {early[p].ballots[v], 0, said}

\* A vote that p may learn is less than none to come and more than no voter knows.
LEMMA FitVotes ==
    ASSUME ConstantsOK, TypeOK, QueuesOK, PollInv, NEW p \in Peers, down[p] # <<>>,
           NEW v \in Peers,
           NEW n \in {Known(p, v), early[p].ballots[v], 0, Says(Head(down[p]), v)}
    PROVE  /\ n \in Nat
           /\ NoLess(Tail(down[p]), v, n)
           /\ v \notin retracted => n <= Count(v)
<1> DEFINE s == down[p]
           m == Head(s)
<1>1. s \in Seq(Frame) /\ m \in Frame
  BY QueuesAre, TailQueue DEF QueueOK
<1>2. InOrderAt(poll[p], early[p], s, v)
  BY DEF PollInv, VotesInOrder
<1>3. v \notin retracted => BoundedAt(poll[p], early[p], s, v, Count(v))
  BY DEF PollInv, NobodyAhead
<1>4. /\ Count(v) \in Nat /\ early[p].ballots[v] \in Nat
      /\ Holds(p) => poll[p].ballots[v] \in Nat
  BY Counts
<1> HIDE DEF s
<1>5. /\ NoLess(Tail(s), v, Says(m, v))
      /\ \A k : NoLess(s, v, k) => NoLess(Tail(s), v, k)
      /\ \A k : NoMore(s, v, k) => Says(m, v) <= k
  BY <1>1, <1>2, TailOrder DEF InOrderAt, s
<1>6. NoLess(s, v, 0)
  <2>1. 0 \in Nat /\ 0 <= early[p].ballots[v]
    BY <1>4
  <2>2. NoLess(s, v, early[p].ballots[v])
    BY <1>2 DEF InOrderAt
  <2>3. QED
    BY <1>1, <1>4, <2>1, <2>2, LowerBound
<1>7. CASE n = Says(m, v)
  <2>1. n \in Nat
    BY <1>1, <1>7, SaysIsCount
  <2>2. v \notin retracted => n <= Count(v)
    BY <1>3, <1>5, <1>7 DEF BoundedAt
  <2>3. QED
    BY <1>5, <1>7, <2>1, <2>2 DEF s
<1>8. CASE n = early[p].ballots[v]
  BY <1>2, <1>3, <1>4, <1>5, <1>8 DEF InOrderAt, BoundedAt, s
<1>9. CASE n = 0
  BY <1>4, <1>5, <1>6, <1>9 DEF s
<1>10. CASE n = Known(p, v) /\ Holds(p)
  BY <1>2, <1>3, <1>4, <1>5, <1>10 DEF InOrderAt, BoundedAt, Known, Holds, s
<1>11. QED
  BY <1>7, <1>8, <1>9, <1>10 DEF Known, s

LEMMA LearntInv ==
    ASSUME ConstantsOK, TypeOK, QueuesOK, PollInv, NEW p \in Peers, down[p] # <<>>, Heard(p),
           UNCHANGED retracted, late' \in BOOLEAN,
           NEW c \in Poll \cup {NoPoll}, Keeps(p, c), Learnt(p, c),
           early' \in [Peers -> [options: SUBSET Options, ballots: Votes]],
           \A q \in Peers \ {p} : early'[q] = early[q]
    PROVE  TypeOK' /\ QueuesOK' /\ PollInv' /\ MovesForward
<1>1. TypeOK' /\ QueuesOK'
  BY HeardQueues DEF TypeOK, Keeps, Heard
<1>2. /\ down'[p] = Tail(down[p]) /\ \A q \in Peers \ {p} : down'[q] = down[q]
      /\ down[p] \in Seq(Frame)
  BY HeardQueues DEF Heard
<1>3. poll'[p] = c /\ \A q \in Peers \ {p} : poll'[q] = poll[q]
  BY DEF Keeps
<1>4. ASSUME NEW v \in Peers PROVE Count(v) \in Nat /\ Count(v)' \in Nat /\ Count(v) <= Count(v)'
  <2>1. Count(v) \in Nat
    BY Counts
  <2>2. CASE v # p
    BY <1>3, <2>1, <2>2 DEF Count, Holds
  <2>3. CASE v = p /\ c = NoPoll
    BY <1>3, <2>1, <2>3 DEF Count, Holds, Learnt
  <2>4. CASE v = p /\ c # NoPoll
    <3>1. c \in Poll /\ c.ballots[p] \in Nat
      BY <2>4, PollFields
    <3>2. Count(p)' = c.ballots[p]
      BY <1>3, <2>4 DEF Count, Holds
    <3>3. Holds(p) => poll[p].ballots[p] <= c.ballots[p]
      BY DEF Learnt
    <3>4. Count(p) <= c.ballots[p]
      BY <3>1, <3>3 DEF Count
    <3>5. QED
      BY <2>1, <2>4, <3>1, <3>2, <3>4
  <2>5. QED
    BY <2>2, <2>3, <2>4
<1>5. ASSUME NEW v \in Peers
      PROVE  /\ c # NoPoll => c.ballots[v] \in {Known(p, v), early[p].ballots[v],
                                                Says(Head(down[p]), v)}
             /\ early'[p].ballots[v] \in {early[p].ballots[v], 0, Says(Head(down[p]), v)}
  BY DEF Learnt
<1>6. ASSUME NEW q \in Peers, NEW v \in Peers
      PROVE  /\ InOrderAt(poll'[q], early'[q], down'[q], v)
             /\ v \notin retracted => BoundedAt(poll'[q], early'[q], down'[q], v, Count(v)')
  <2>1. /\ InOrderAt(poll[q], early[q], down[q], v)
        /\ v \notin retracted => BoundedAt(poll[q], early[q], down[q], v, Count(v))
    BY DEF PollInv, VotesInOrder, NobodyAhead
  <2>2. down[q] \in Seq(Frame)
    BY DEF QueuesOK
  <2>3. v \notin retracted => NoMore(down[q], v, Count(v)')
    BY <1>4, <2>1, <2>2, UpperBound DEF BoundedAt
  <2>4. CASE q # p
    <3>1. poll'[q] = poll[q] /\ early'[q] = early[q] /\ down'[q] = down[q]
      BY <1>2, <1>3, <2>4
    <3>2. early[q].ballots[v] \in Nat /\ (Holds(q) => poll[q].ballots[v] \in Nat)
      BY Counts
    <3>3. v \notin retracted =>
              /\ poll[q] # NoPoll => poll[q].ballots[v] <= Count(v)'
              /\ early[q].ballots[v] <= Count(v)'
      BY <1>4, <2>1, <3>2 DEF BoundedAt, Holds
    <3>4. QED
      BY <2>1, <2>3, <3>1, <3>3 DEF BoundedAt
  <2>5. CASE q = p
    <3> DEFINE t == Tail(down[p])
    <3>1. down'[q] = t /\ poll'[q] = c
      BY <1>2, <1>3, <2>5
    <3>2. /\ early'[p].ballots[v] \in Nat
          /\ NoLess(t, v, early'[p].ballots[v])
          /\ v \notin retracted => early'[p].ballots[v] <= Count(v)
      <4>1. early'[p].ballots[v] \in {Known(p, v), early[p].ballots[v], 0,
                                      Says(Head(down[p]), v)}
        BY <1>5
      <4>2. QED
        BY <4>1, FitVotes
    <3>3. ASSUME c # NoPoll
          PROVE  /\ c.ballots[v] \in Nat
                 /\ NoLess(t, v, c.ballots[v])
                 /\ v \notin retracted => c.ballots[v] <= Count(v)
      <4>1. c.ballots[v] \in {Known(p, v), early[p].ballots[v], 0, Says(Head(down[p]), v)}
        BY <1>5, <3>3
      <4>2. QED
        BY <4>1, FitVotes
    <3>4. /\ Rising(t, v)
          /\ v \notin retracted => NoMore(t, v, Count(v)')
      BY <2>1, <2>2, <2>3, <2>5, TailOrder DEF InOrderAt
    <3> HIDE DEF t
    <3>5. InOrderAt(c, early'[p], t, v)
      BY <3>2, <3>3, <3>4 DEF InOrderAt
    <3>6. v \notin retracted => BoundedAt(c, early'[p], t, v, Count(v)')
      <4>1. \A n \in Nat : n <= Count(v) => n <= Count(v)'
        BY <1>4
      <4>2. QED
        BY <3>2, <3>3, <3>4, <4>1 DEF BoundedAt
    <3>7. QED
      BY <2>5, <3>1, <3>5, <3>6
  <2>6. QED
    BY <2>4, <2>5
<1>7. VotesInOrder' /\ NobodyAhead'
  BY <1>6 DEF VotesInOrder, NobodyAhead
<1>8. RetractedStaysGone'
  <2>1. \A q \in retracted : q \in Peers /\ poll[q] = NoPoll
    BY DEF PollInv, RetractedStaysGone, Holds, TypeOK
  <2>2. p \in retracted => c = NoPoll
    BY DEF Learnt
  <2>3. QED
    BY <1>3, <2>1, <2>2 DEF RetractedStaysGone, Holds
<1>9. MovesForward
  <2> SUFFICES ASSUME NEW q \in Peers, NEW v \in Peers, Holds(q)
               PROVE  poll[q].ballots[v] <= poll'[q].ballots[v]
    BY DEF MovesForward
  <2>1. poll[q].ballots[v] \in Nat
    BY Counts
  <2>2. CASE q = p
    BY <1>3, <2>2 DEF Learnt
  <2>3. CASE q # p
    BY <1>3, <2>1, <2>3
  <2>4. QED
    BY <2>2, <2>3
<1>10. QED
  BY <1>1, <1>7, <1>8, <1>9 DEF PollInv

LEMMA OpenInv ==
    ASSUME ConstantsOK, TypeOK, QueuesOK, PollInv, NEW p \in Peers, OnOpen(p)
    PROVE  TypeOK' /\ QueuesOK' /\ PollInv' /\ MovesForward
<1>1. down[p] # <<>> /\ Heard(p) /\ UNCHANGED <<retracted, late>> /\ late' \in BOOLEAN
  BY DEF OnOpen, Gets, TypeOK
<1>2. CASE Holds(p) \/ IsRetracted(p)
  <2>1. UNCHANGED <<poll, early>>
    BY <1>2 DEF OnOpen
  <2>2. TypeOK' /\ QueuesOK' /\ Calm
    BY <1>1, <2>1, IgnoredCalm DEF TypeOK
  <2>3. QED
    BY <2>2, CalmInv
<1>3. CASE ~Holds(p) /\ p \notin retracted
  <2> DEFINE c == Flushed(p, NewPoll)
  <2>1. /\ c \in Poll
        /\ \A v \in Peers : c.ballots[v] = IF early[p].ballots[v] # 0
                                           THEN early[p].ballots[v] ELSE 0
    BY NewPollType, NoVotesType, FlushedReads
  <2>2. Keep(p, c) /\ early' = [early EXCEPT ![p] = NothingEarly]
    BY <1>3 DEF OnOpen, IsRetracted
  <2> HIDE DEF c
  <2>3. Keeps(p, c)
    BY <2>1, <2>2, KeepReads
  <2>4. /\ early' \in [Peers -> [options: SUBSET Options, ballots: Votes]]
        /\ early'[p].ballots = NoVotes
        /\ \A q \in Peers \ {p} : early'[q] = early[q]
    BY <2>2, EarlyTypes
  <2>5. Learnt(p, c)
    BY <1>3, <2>1, <2>4, PollFields, NoVotesType DEF Learnt, Known
  <2>6. QED
    BY <1>1, <2>1, <2>3, <2>4, <2>5, LearntInv
<1>4. QED
  BY <1>2, <1>3 DEF IsRetracted

LEMMA BallotInv ==
    ASSUME ConstantsOK, TypeOK, QueuesOK, PollInv, NEW p \in Peers, OnBallot(p)
    PROVE  TypeOK' /\ QueuesOK' /\ PollInv' /\ MovesForward
<1> DEFINE m == Head(down[p])
<1>1. /\ down[p] # <<>> /\ Heard(p) /\ UNCHANGED retracted /\ late' \in BOOLEAN
      /\ m.kind = "ballot"
  BY DEF OnBallot, Gets, TypeOK
<1>2. down[p] \in Seq(Frame) /\ m \in Frame
  BY <1>1, HeardQueues DEF Heard
<1>3. m.from \in Peers /\ m.vote \in 0..MaxVotes /\ m.vote \in Nat
  BY <1>1, <1>2, FrameFields DEF ConstantsOK
<1>4. IsBallot(m, m.from) /\ Says(m, m.from) = m.vote
  BY <1>1 DEF IsBallot, Says
<1>5. CASE Holds(p) /\ Open(p)
  <2> DEFINE b == [poll[p].ballots EXCEPT ![m.from] = m.vote]
             c == [poll[p] EXCEPT !.ballots = b]
  <2>1. poll[p] \in Poll /\ poll[p].ballots \in Votes
    BY <1>5, PollFields DEF Holds, TypeOK
  <2>2. /\ b \in Votes
        /\ \A v \in Peers : b[v] = IF v = m.from THEN m.vote ELSE poll[p].ballots[v]
    BY <1>3, <2>1 DEF Votes
  <2>3. Keep(p, c) /\ early' = early
    BY <1>5 DEF OnBallot, Keep, TypeOK
  <2> HIDE DEF b
  <2>4. c \in Poll /\ c.ballots = b
    BY <2>1, <2>2, PollFields
  <2> HIDE DEF c, m
  <2>5. Keeps(p, c)
    BY <2>3, <2>4, KeepReads
  <2>6. poll[p].ballots[m.from] <= m.vote
    <3>1. NoLess(down[p], m.from, poll[p].ballots[m.from])
      BY <1>3, <1>5 DEF PollInv, VotesInOrder, InOrderAt, Holds
    <3>2. QED
      BY <1>1, <1>2, <1>3, <1>4, <3>1, TailOrder DEF m
  <2>7. \A v \in Peers : poll[p].ballots[v] \in Nat
    BY <2>1, PollFields
  <2>8. Learnt(p, c)
    <3>1. p \notin retracted
      BY <1>5 DEF PollInv, RetractedStaysGone
    <3>2. c # NoPoll
      BY <2>4, PollFields
    <3>3. ASSUME NEW v \in Peers
          PROVE  /\ c.ballots[v] \in {Known(p, v), early[p].ballots[v], Says(Head(down[p]), v)}
                 /\ poll[p].ballots[v] <= c.ballots[v]
      BY <1>4, <1>5, <2>2, <2>4, <2>6, <2>7 DEF Known, m
    <3>4. QED
      BY <2>3, <3>1, <3>2, <3>3 DEF Learnt
  <2>9. QED
    BY <1>1, <2>3, <2>4, <2>5, <2>8, LearntInv DEF TypeOK
<1>6. CASE ~Holds(p) /\ p \notin retracted
  <2> DEFINE b == [early[p].ballots EXCEPT ![m.from] = m.vote]
             w == [early[p] EXCEPT !.ballots = b]
  <2>1. /\ early \in [Peers -> [options: SUBSET Options, ballots: Votes]]
        /\ early[p].ballots \in Votes
    BY DEF TypeOK
  <2>2. /\ b \in Votes
        /\ \A v \in Peers : b[v] = IF v = m.from THEN m.vote ELSE early[p].ballots[v]
    BY <1>3, <2>1 DEF Votes
  <2>3. poll' = poll /\ early' = [early EXCEPT ![p] = w]
    BY <1>6 DEF OnBallot, IsRetracted, TypeOK
  <2> HIDE DEF b
  <2>4. w \in [options: SUBSET Options, ballots: Votes] /\ w.ballots = b
    BY <2>1, <2>2
  <2> HIDE DEF w, m
  <2>5. /\ early' \in [Peers -> [options: SUBSET Options, ballots: Votes]]
        /\ early'[p].ballots = b
        /\ \A q \in Peers \ {p} : early'[q] = early[q]
    BY <2>1, <2>3, <2>4
  <2>6. Keeps(p, NoPoll)
    BY <1>6, <2>3 DEF Keeps, TypeOK, Holds
  <2>7. Learnt(p, NoPoll)
    BY <1>4, <1>6, <2>2, <2>5 DEF Learnt, m
  <2>8. QED
    BY <1>1, <2>5, <2>6, <2>7, LearntInv
<1>7. CASE ~(Holds(p) /\ Open(p)) /\ ~(~Holds(p) /\ p \notin retracted)
  <2>1. UNCHANGED <<poll, early>>
    BY <1>7 DEF OnBallot, IsRetracted
  <2>2. TypeOK' /\ QueuesOK' /\ Calm
    BY <1>1, <2>1, IgnoredCalm DEF TypeOK
  <2>3. QED
    BY <2>2, CalmInv
<1>8. QED
  BY <1>5, <1>6, <1>7

LEMMA CopyInv ==
    ASSUME ConstantsOK, TypeOK, QueuesOK, PollInv, NEW p \in Peers, OnSync(p)
    PROVE  TypeOK' /\ QueuesOK' /\ PollInv' /\ MovesForward
<1> DEFINE theirs == Head(down[p]).copy
<1>1. /\ down[p] # <<>> /\ Heard(p) /\ UNCHANGED retracted /\ late' \in BOOLEAN
      /\ Head(down[p]).kind = "sync"
  BY DEF OnSync, Gets, TypeOK
<1>2. theirs \in Poll
  BY <1>1, HeardQueues, FrameFields DEF Heard
<1>3. \A v \in Peers : Says(Head(down[p]), v) = theirs.ballots[v]
  BY <1>1 DEF Says
<1>4. \A v \in Peers : theirs.ballots[v] \in Nat
  BY <1>2, PollFields
<1>5. CASE IsRetracted(p)
  <2>1. UNCHANGED <<poll, early>>
    BY <1>5 DEF OnSync
  <2>2. TypeOK' /\ QueuesOK' /\ Calm
    BY <1>1, <2>1, IgnoredCalm DEF TypeOK
  <2>3. QED
    BY <2>2, CalmInv
<1>6. CASE ~IsRetracted(p) /\ Holds(p)
  <2> DEFINE c == Merged(poll[p], theirs)
  <2>1. poll[p] \in Poll
    BY <1>6 DEF Holds, TypeOK
  <2>2. /\ c \in Poll /\ c # NoPoll
        /\ \A v \in Peers : c.ballots[v] = IF poll[p].ballots[v] # 0 THEN poll[p].ballots[v]
                                           ELSE theirs.ballots[v]
    BY <1>2, <2>1, MergedReads, PollFields
  <2>3. Keep(p, c) /\ early' = early
    BY <1>6 DEF OnSync
  <2>4. \A v \in Peers : poll[p].ballots[v] \in Nat
    BY <2>1, PollFields
  <2> HIDE DEF c, theirs
  <2>5. Keeps(p, c)
    BY <2>2, <2>3, KeepReads
  <2>6. ASSUME NEW v \in Peers
        PROVE  /\ c.ballots[v] \in {Known(p, v), early[p].ballots[v], Says(Head(down[p]), v)}
               /\ poll[p].ballots[v] <= c.ballots[v]
    BY <1>3, <1>4, <1>6, <2>2, <2>4 DEF Known
  <2>7. Learnt(p, c)
    BY <1>6, <2>2, <2>3, <2>6 DEF Learnt, IsRetracted
  <2>8. QED
    BY <1>1, <2>2, <2>3, <2>5, <2>7, LearntInv DEF TypeOK
<1>7. CASE ~IsRetracted(p) /\ ~Holds(p)
  <2> DEFINE d == Flushed(p, theirs)
             c == IF theirs.status = "closed" THEN Close(d) ELSE d
  <2>1. /\ d \in Poll
        /\ \A v \in Peers : d.ballots[v] = IF early[p].ballots[v] # 0
                                           THEN early[p].ballots[v] ELSE theirs.ballots[v]
    BY <1>2, FlushedReads
  <2>2. Keep(p, c) /\ early' = [early EXCEPT ![p] = NothingEarly]
    BY <1>7 DEF OnSync
  <2> HIDE DEF d
  <2>3. c \in Poll /\ c # NoPoll /\ c.ballots = d.ballots
    BY <2>1, PollFields
  <2> HIDE DEF c, theirs
  <2>4. Keeps(p, c)
    BY <2>2, <2>3, KeepReads
  <2>5. /\ early' \in [Peers -> [options: SUBSET Options, ballots: Votes]]
        /\ early'[p].ballots = NoVotes
        /\ \A q \in Peers \ {p} : early'[q] = early[q]
    BY <2>2, EarlyTypes
  <2>6. Learnt(p, c)
    BY <1>3, <1>7, <2>1, <2>3, <2>5, NoVotesType DEF Learnt, IsRetracted
  <2>7. QED
    BY <1>1, <2>3, <2>4, <2>5, <2>6, LearntInv
<1>8. QED
  BY <1>5, <1>6, <1>7

-----------------------------------------------------------------------------
(* The theorems *)

LEMMA InitInv == ConstantsOK /\ Init => TypeOK /\ QueuesOK /\ PollInv
<1> SUFFICES ASSUME ConstantsOK, Init PROVE TypeOK /\ QueuesOK /\ PollInv
  OBVIOUS
<1>1. TypeOK
  <2>1. NothingEarly \in [options: SUBSET Options, ballots: Votes]
    BY NoVotesType DEF NothingEarly
  <2>2. early \in [Peers -> [options: SUBSET Options, ballots: Votes]]
    BY <2>1 DEF Init
  <2>3. moves \in 0..MaxMoves /\ leaves \in 0..MaxLeaves
    BY DEF Init, ConstantsOK
  <2>4. QED
    BY <2>2, <2>3 DEF Init, TypeOK
<1>2. QueuesOK
  BY EmptyQueue, QueuesAre DEF Init, QueueOK
<1>3. RetractedStaysGone
  BY DEF Init, RetractedStaysGone
<1>4. \A p \in Peers : down[p] = <<>> /\ poll[p] = NoPoll /\ early[p].ballots = NoVotes
  BY DEF Init, NothingEarly
<1>5. VotesInOrder
  BY <1>4, EmptyOrder DEF VotesInOrder, InOrderAt
<1>6. \A v \in Peers : Count(v) = 0
  BY <1>4 DEF Count, Holds
<1>7. NobodyAhead
  BY <1>4, <1>6, EmptyOrder, NoVotesType DEF NobodyAhead, BoundedAt
<1>8. QED
  BY <1>1, <1>2, <1>3, <1>5, <1>7 DEF PollInv

LEMMA NextInv ==
    ASSUME ConstantsOK, TypeOK, QueuesOK, PollInv, [Next]_vars
    PROVE  TypeOK' /\ QueuesOK' /\ PollInv' /\ MovesForward
<1> DEFINE Goal == TypeOK' /\ QueuesOK' /\ PollInv' /\ MovesForward
<1>1. ASSUME TypeOK' /\ QueuesOK' /\ Calm PROVE Goal
  BY <1>1, CalmInv
<1>2. ASSUME CreatePoll PROVE Goal
  BY <1>1, <1>2, CreateCalm
<1>3. ASSUME LockNominations \/ ClosePoll \/ \E p \in Peers, o \in Options : AddOption(p, o)
      PROVE  Goal
  BY <1>1, <1>3, EditCalm
<1>4. ASSUME NEW p \in Peers, Join(p) \/ Leave(p) PROVE Goal
  BY <1>1, <1>4, JoinCalm, LeaveCalm
<1>5. ASSUME NEW p \in Peers, OnPeers(p) \/ OnJoined(p) PROVE Goal
  BY <1>5, SyncInv
<1>6. ASSUME NEW p \in Peers, CastVote(p) PROVE Goal
  BY <1>6, CastInv
<1>7. ASSUME NEW p \in Peers, ForgetPoll(p) PROVE Goal
  BY <1>1, <1>7, ForgetCalm
<1>8. ASSUME NEW p \in Peers, OnOpen(p) PROVE Goal
  BY <1>8, OpenInv
<1>9. ASSUME NEW p \in Peers, OnOption(p) PROVE Goal
  BY <1>1, <1>9, OptionCalm
<1>10. ASSUME NEW p \in Peers, OnBallot(p) PROVE Goal
  BY <1>10, BallotInv
<1>11. ASSUME NEW p \in Peers, OnLock(p) \/ OnClose(p) PROVE Goal
  BY <1>1, <1>11, LockCalm
<1>12. ASSUME NEW p \in Peers, OnRetract(p) PROVE Goal
  BY <1>1, <1>12, RetractCalm
<1>13. ASSUME NEW p \in Peers, OnSync(p) PROVE Goal
  BY <1>13, CopyInv
<1>14. ASSUME UNCHANGED vars PROVE Goal
  <2>1. TypeOK' /\ QueuesOK'
    BY <1>14 DEF vars, TypeOK, QueuesOK
  <2>2. Calm
    BY <1>14, CopiesCalm, SameIsCalm DEF vars, Calm
  <2>3. QED
    BY <1>1, <2>1, <2>2
<1> HIDE DEF Goal
<1>15. ASSUME Next PROVE Goal
  BY <1>2, <1>3, <1>4, <1>5, <1>6, <1>7, <1>8, <1>9, <1>10, <1>11, <1>12, <1>13, <1>15 DEF Next
<1>16. Next \/ UNCHANGED vars
  OBVIOUS
<1>17. QED
  BY <1>14, <1>15, <1>16 DEF Goal

\* Every copy of a poll is a poll, and so is what is on its way and what came early: no frame
\* of poll-* messages, in whatever order, makes anything else of it (app.ts:7690-7900).
THEOREM PollTypes == ASSUME ConstantsOK PROVE Spec => []TypeOK
<1>1. Init => TypeOK /\ QueuesOK /\ PollInv
  BY InitInv
<1>2. (TypeOK /\ QueuesOK /\ PollInv) /\ [Next]_vars => (TypeOK /\ QueuesOK /\ PollInv)'
  BY NextInv
<1>3. QED
  BY <1>1, <1>2, PTL DEF Spec

\* app.ts:8981, "tombstoned -- don't heal back": who removed the poll or heard it removed does
\* not have it again, whatever copies and frames are under way, however many peers there are.
THEOREM RemovedPollsStayGone == ASSUME ConstantsOK PROVE Spec => []RetractedStaysGone
<1>1. Init => TypeOK /\ QueuesOK /\ PollInv
  BY InitInv
<1>2. (TypeOK /\ QueuesOK /\ PollInv) /\ [Next]_vars => (TypeOK /\ QueuesOK /\ PollInv)'
  BY NextInv
<1>3. PollInv => RetractedStaysGone
  BY DEF PollInv
<1>4. QED
  BY <1>1, <1>2, <1>3, PTL DEF Spec

\* app.ts:7829, "latest wins": no peer goes back to an older vote of anybody.  A frame replaces
\* what one has, whatever it says (app.ts:7831), so that this is due to the order of the frames
\* alone: no vote of v comes behind a copy or a vote that says more of v.
THEOREM VotesMoveForward == ASSUME ConstantsOK PROVE Spec => BallotsMoveForward
<1>1. Init => TypeOK /\ QueuesOK /\ PollInv
  BY InitInv
<1>2. (TypeOK /\ QueuesOK /\ PollInv) /\ [Next]_vars => (TypeOK /\ QueuesOK /\ PollInv)'
  BY NextInv
<1>3. (TypeOK /\ QueuesOK /\ PollInv) /\ [Next]_vars => MovesForward
  BY NextInv
<1>4. (TypeOK /\ QueuesOK /\ PollInv) /\ [Next]_vars => [MovesForward]_vars
  BY <1>3
<1>5. QED
  BY <1>1, <1>2, <1>4, PTL DEF Spec, BallotsMoveForward

-----------------------------------------------------------------------------
(* What there is to agree on, and who will hear of it *)

\* That there is a poll, that it is locked or closed, an option, that somebody voted so often.
Fact ==
    [kind: {"poll", "lock", "close"}]
    \cup [kind: {"option"}, option: Options]
    \cup [kind: {"vote"}, of: Peers, least: 1..MaxVotes]

\* f is so in a copy; f was heard early; a frame brings f to who heeds it; a frame has f in
\* the copy it carries; f is heeded by who has no poll yet as well.
In(c, f) ==
    \/ f.kind = "poll"
    \/ f.kind = "lock" /\ c.nominationsLocked
    \/ f.kind = "close" /\ c.status = "closed"
    \/ f.kind = "option" /\ f.option \in c.options
    \/ f.kind = "vote" /\ f.least <= c.ballots[f.of]
Kept(e, f) ==
    \/ f.kind = "option" /\ f.option \in e.options
    \/ f.kind = "vote" /\ f.least <= e.ballots[f.of]
IsNews(m, f) ==
    \/ f.kind = "poll" /\ m.kind = "open"
    \/ f.kind \in {"lock", "close"} /\ m.kind = f.kind
    \/ f.kind = "option" /\ m.kind = "option" /\ m.option = f.option
    \/ f.kind = "vote" /\ IsBallot(m, f.of) /\ f.least <= m.vote
InCopy(m, f) == m.kind = "sync" /\ In(m.copy, f)
Lasting(f) == f.kind \notin {"lock", "close"}

\* With copy c, what came early e and queue s: what is known, whether there will be a copy when
\* frame j is taken, and whether f will be known by then.
Knows(c, e, f) == IF c # NoPoll THEN In(c, f) ELSE Kept(e, f)
Gives(m) == m.kind \in {"open", "sync"}
WillHold(c, s, j) == c # NoPoll \/ \E i \in 1..Len(s) : i < j /\ Gives(s[i])
Tells(c, s, f, i) == InCopy(s[i], f) \/ (IsNews(s[i], f) /\ (Lasting(f) \/ WillHold(c, s, i)))
Has(c, e, s, f, j) == Knows(c, e, f) \/ \E i \in 1..Len(s) : i < j /\ Tells(c, s, f, i)

\* f is known or mentioned at all: of the poll itself, anything that only is where there is one.
Plain(m) == m.kind \in {"peers", "joined", "retract"}
Mentions(m, f) == IF f.kind = "poll" THEN ~Plain(m) ELSE IsNews(m, f) \/ InCopy(m, f)
Rumour(c, e, f) ==
    IF f.kind = "poll" THEN c # NoPoll \/ e # NothingEarly ELSE Knows(c, e, f)
Hears(c, e, s, f) == Rumour(c, e, f) \/ \E i \in 1..Len(s) : Mentions(s[i], f)

\* The last vote of v that is known; whether a vote of v of n or more is, or is on its way as
\* a ballot; whether n is a vote of v that something here says.
VoteOf(c, e, v) == IF c # NoPoll THEN c.ballots[v] ELSE e.ballots[v]
HearsVote(c, e, s, v, n) ==
    n <= VoteOf(c, e, v) \/ \E i \in 1..Len(s) : IsBallot(s[i], v) /\ n <= s[i].vote
Source(c, e, s, v, n) == VoteOf(c, e, v) = n \/ \E i \in 1..Len(s) : Says(s[i], v) = n

\* Frame j of s is one at which its receiver gives q its copy.
OwesAt(s, j, q) ==
    \/ s[j].kind = "joined" /\ s[j].peer = q
    \/ s[j].kind = "peers" /\ q \in s[j].peers

\* Who may still have the poll, and who of them is there.
Able == Peers \ retracted
Room == here \ retracted

\* q will know f when everything is in; r will have the poll and know f when it serves q.
Safe(q, f) == Has(poll[q], early[q], down[q], f, Len(down[q]) + 1)
Serves(r, j, q, f) ==
    /\ OwesAt(down[r], j, q)
    /\ WillHold(poll[r], down[r], j)
    /\ Has(poll[r], early[r], down[r], f, j)
OwedBy(r, q, f) == \E j \in 1..Len(down[r]) : Serves(r, j, q, f)

HeardOf(f) == \E p \in Room : Hears(poll[p], early[p], down[p], f)
Served(q, f) == Safe(q, f) \/ \E r \in Room \ {q} : OwedBy(r, q, f)

\* What anybody in the room has heard, everybody will know or is to be served by who will.
Reaches == \A f \in Fact : HeardOf(f) => \A q \in Room : Served(q, f)

\* Everybody will have the poll before the creator's next word, or is to be served by it.
\* (ThePoll is the fact that there is one.)
ThePoll == [kind |-> "poll"]
CreatorServes ==
    Creator \in here /\ Holds(Creator) =>
        \A q \in Room \ {Creator} : Safe(q, ThePoll) \/ OwedBy(Creator, q, ThePoll)

\* Before the creator opens the poll nobody has heard of it.
Blank(p) ==
    /\ ~Holds(p) /\ early[p] = NothingEarly
    /\ \A i \in 1..Len(down[p]) : Plain(down[p][i])
Unborn == ~Holds(Creator) /\ Creator \notin retracted => \A p \in Peers : Blank(p)

AwayIdle == \A p \in Peers \ here : early[p] = NothingEarly

\* Who has an older vote of v than somebody else hears the newer one, and not only in a copy.
NoneBehind ==
    \A p, x \in Able, v \in Peers, m, n \in 1..MaxVotes :
        m < n /\ Source(poll[p], early[p], down[p], v, n)
              /\ Source(poll[x], early[x], down[x], v, m)
            => HearsVote(poll[x], early[x], down[x], v, n)

\* s says n of v behind a frame at which its receiver gives x its copy.
Passed(s, x, v, n) ==
    \E i, k \in 1..Len(s) : i < k /\ OwesAt(s, i, x) /\ IsBallot(s[k], v) /\ s[k].vote = n

\* A newcomer that p will serve before it hears a second vote hears that vote as well.
NonePassed ==
    \A p, x \in Able, v \in Peers, n \in 2..MaxVotes :
        Passed(down[p], x, v, n) => HearsVote(poll[x], early[x], down[x], v, n)

\* The result counts the ballots there are, or none.
Sound(c) == c.result = IF c.status = "closed" THEN c.ballots ELSE NoVotes
Results ==
    \A p \in Peers : /\ Holds(p) => Sound(poll[p])
                     /\ \A i \in 1..Len(down[p]) :
                            down[p][i].kind = "sync" => Sound(down[p][i].copy)

AgreeInv ==
    /\ AwayIdle
    /\ ~late => Unborn /\ Results
    /\ ~missed /\ ~late => Reaches /\ CreatorServes /\ NoneBehind /\ NonePassed

-----------------------------------------------------------------------------
(* Queues that grow, and queues of which the first frame is taken *)

LEMMA FactCases ==
    ASSUME ConstantsOK, NEW f \in Fact
    PROVE  /\ f.kind \in {"poll", "lock", "close", "option", "vote"}
           /\ f.kind = "option" => f.option \in Options
           /\ f.kind = "vote" => /\ f.of \in Peers /\ f.least \in 1..MaxVotes
                                 /\ f.least \in Nat /\ 0 < f.least
BY DEF Fact, ConstantsOK

Grows(s, t) ==
    /\ Len(s) \in Nat /\ Len(t) \in Nat /\ Len(s) <= Len(t)
    /\ \A i \in 1..Len(s) : t[i] = s[i]
Shifts(s, t) ==
    /\ Len(s) \in Nat /\ Len(t) \in Nat /\ Len(s) = Len(t) + 1
    /\ \A i \in 1..Len(t) : t[i] = s[i + 1]

LEMMA SameGrows == \A s \in Seq(Frame) : Grows(s, s)
BY DEF Grows

LEMMA AppendGrows ==
    ASSUME NEW s \in Seq(Frame), NEW m \in Frame
    PROVE  /\ Grows(s, Append(s, m))
           /\ Len(Append(s, m)) = Len(s) + 1 /\ Append(s, m)[Len(s) + 1] = m
<1>1. /\ Len(s) \in Nat /\ Len(Append(s, m)) = Len(s) + 1
      /\ \A i \in 1..Len(s) : Append(s, m)[i] = s[i]
      /\ Append(s, m)[Len(s) + 1] = m
  BY AppendProperties
<1>2. QED
  BY <1>1 DEF Grows

LEMMA TailShifts ==
    ASSUME NEW s \in Seq(Frame), s # <<>>
    PROVE  /\ Shifts(s, Tail(s))
           /\ s[1] = Head(s) /\ Head(s) \in Frame /\ 1 \in 1..Len(s)
<1>1. Len(s) \in Nat /\ Len(s) # 0
  BY EmptySeq
<1>2. /\ Head(s) = s[1] /\ Head(s) \in Frame
      /\ Len(Tail(s)) = Len(s) - 1
      /\ \A i \in 1..Len(Tail(s)) : Tail(s)[i] = s[i + 1]
  BY <1>1, HeadTailProperties
<1>3. QED
  BY <1>1, <1>2 DEF Shifts

\* Later, no less is known.
LEMMA LaterHas ==
    ASSUME NEW c, NEW e, NEW s, NEW f, NEW j \in Nat, NEW k \in Nat, j <= k
    PROVE  /\ WillHold(c, s, j) => WillHold(c, s, k)
           /\ Has(c, e, s, f, j) => Has(c, e, s, f, k)
<1>1. \A i \in 1..Len(s) : i < j => i < k
  OBVIOUS
<1>2. QED
  BY <1>1 DEF WillHold, Has

LEMMA GrowHas ==
    ASSUME NEW c, NEW e, NEW s, NEW c2, NEW e2, NEW t, NEW f, Grows(s, t),
           c # NoPoll => c2 # NoPoll, Knows(c, e, f) => Knows(c2, e2, f), NEW j \in Nat
    PROVE  /\ WillHold(c, s, j) => WillHold(c2, t, j)
           /\ Has(c, e, s, f, j) => Has(c2, e2, t, f, j)
<1>1. \A i \in 1..Len(s) : i \in 1..Len(t) /\ t[i] = s[i] /\ i \in Nat
  BY DEF Grows
<1>2. ASSUME NEW k \in Nat, WillHold(c, s, k) PROVE WillHold(c2, t, k)
  BY <1>1, <1>2 DEF WillHold
<1>3. ASSUME NEW i \in 1..Len(s), Tells(c, s, f, i) PROVE Tells(c2, t, f, i)
  BY <1>1, <1>2, <1>3 DEF Tells
<1>4. QED
  BY <1>1, <1>2, <1>3 DEF Has

LEMMA ShiftHas ==
    ASSUME NEW c, NEW e, NEW s, NEW c2, NEW e2, NEW t, NEW f, Shifts(s, t),
           c # NoPoll \/ Gives(s[1]) => c2 # NoPoll, NEW j \in Nat, 2 <= j
    PROVE  /\ WillHold(c, s, j) => WillHold(c2, t, j - 1)
           /\ \A i \in 1..Len(s) :
                  1 < i /\ i < j /\ Tells(c, s, f, i) => Has(c2, e2, t, f, j - 1)
<1>1. ASSUME NEW i \in 1..Len(s), 1 < i
      PROVE  i - 1 \in 1..Len(t) /\ t[i - 1] = s[i] /\ i \in Nat
  <2>1. i - 1 \in 1..Len(t) /\ (i - 1) + 1 = i
    BY <1>1 DEF Shifts
  <2>2. t[i - 1] = s[(i - 1) + 1]
    BY <2>1 DEF Shifts
  <2>3. QED
    BY <2>1, <2>2
<1>2. ASSUME NEW k \in Nat, 2 <= k, WillHold(c, s, k) PROVE WillHold(c2, t, k - 1)
  <2>1. ASSUME NEW i \in 1..Len(s), i < k, Gives(s[i]), ~Gives(s[1])
        PROVE  WillHold(c2, t, k - 1)
    <3>1. 1 < i
      BY <2>1
    <3>2. i - 1 \in 1..Len(t) /\ t[i - 1] = s[i] /\ i - 1 < k - 1
      BY <1>1, <2>1, <3>1
    <3>3. QED
      BY <2>1, <3>2 DEF WillHold
  <2>2. QED
    BY <1>2, <2>1 DEF WillHold
<1>3. ASSUME NEW i \in 1..Len(s), 1 < i, i < j, Tells(c, s, f, i)
      PROVE  Has(c2, e2, t, f, j - 1)
  <2>1. i - 1 \in 1..Len(t) /\ t[i - 1] = s[i] /\ i - 1 < j - 1 /\ i \in Nat /\ 2 <= i
    BY <1>1, <1>3
  <2>2. Tells(c2, t, f, i - 1)
    BY <1>2, <1>3, <2>1 DEF Tells
  <2>3. QED
    BY <2>1, <2>2 DEF Has
<1>4. QED
  BY <1>2, <1>3

-----------------------------------------------------------------------------
(* A frame is taken by who may have the poll *)

\* What c and e become by m: nothing that is known is lost, and what m tells is known, but for
\* a vote in a copy where there is an older one already; nothing else is.
Outvoted(c, e, m, f) ==
    /\ f.kind = "vote" /\ m.kind = "sync"
    /\ 0 < VoteOf(c, e, f.of) /\ VoteOf(c, e, f.of) < m.copy.ballots[f.of]
Takes(c, e, m, c2, e2) ==
    /\ c # NoPoll \/ Gives(m) => c2 # NoPoll
    /\ \A f \in Fact :
           /\ Knows(c, e, f) => Knows(c2, e2, f)
           /\ IsNews(m, f) /\ (Lasting(f) \/ c # NoPoll) => Knows(c2, e2, f)
           /\ InCopy(m, f) => Knows(c2, e2, f) \/ Outvoted(c, e, m, f)
           /\ Rumour(c2, e2, f) => Rumour(c, e, f) \/ Mentions(m, f)
    /\ \A v \in Peers :
           /\ VoteOf(c2, e2, v) \in {VoteOf(c, e, v), Says(m, v)}
           /\ VoteOf(c, e, v) <= VoteOf(c2, e2, v)
           /\ IsBallot(m, v) => m.vote <= VoteOf(c2, e2, v)

LEMMA TakeHas ==
    ASSUME NEW c, NEW e, NEW s, NEW c2, NEW e2, NEW t, NEW f \in Fact, Shifts(s, t),
           Takes(c, e, s[1], c2, e2), NEW j \in Nat, 2 <= j
    PROVE  /\ WillHold(c, s, j) => WillHold(c2, t, j - 1)
           /\ Has(c, e, s, f, j) => \/ Has(c2, e2, t, f, j - 1)
                                    \/ InCopy(s[1], f) /\ Outvoted(c, e, s[1], f)
<1>1. c # NoPoll \/ Gives(s[1]) => c2 # NoPoll
  BY DEF Takes
<1>2. Knows(c2, e2, f) => Has(c2, e2, t, f, j - 1)
  BY DEF Has
<1>3. Tells(c, s, f, 1) => Knows(c2, e2, f) \/ (InCopy(s[1], f) /\ Outvoted(c, e, s[1], f))
  <2>1. WillHold(c, s, 1) => c # NoPoll
    BY DEF WillHold
  <2>2. QED
    BY <2>1 DEF Takes, Tells
<1>4. Knows(c, e, f) => Knows(c2, e2, f)
  BY DEF Takes
<1>5. ASSUME NEW i \in 1..Len(s), i < j, Tells(c, s, f, i),
             ~(InCopy(s[1], f) /\ Outvoted(c, e, s[1], f))
      PROVE  Has(c2, e2, t, f, j - 1)
  <2>1. CASE i = 1
    BY <1>2, <1>3, <1>5, <2>1
  <2>2. CASE 1 < i
    BY <1>1, <1>5, <2>2, ShiftHas
  <2>3. QED
    BY <2>1, <2>2
<1>6. WillHold(c, s, j) => WillHold(c2, t, j - 1)
  BY <1>1, ShiftHas
<1>7. QED
  BY <1>2, <1>4, <1>5, <1>6 DEF Has

LEMMA TakeHears ==
    ASSUME NEW c, NEW e, NEW s, NEW c2, NEW e2, NEW t, NEW f \in Fact, Shifts(s, t),
           1 \in 1..Len(s), Takes(c, e, s[1], c2, e2), Hears(c2, e2, t, f)
    PROVE  Hears(c, e, s, f)
<1>1. Rumour(c2, e2, f) => Rumour(c, e, f) \/ Mentions(s[1], f)
  BY DEF Takes
<1>2. \A i \in 1..Len(t) : i + 1 \in 1..Len(s) /\ t[i] = s[i + 1]
  BY DEF Shifts
<1>3. QED
  BY <1>1, <1>2 DEF Hears

LEMMA TakeVotes ==
    ASSUME NEW c, NEW e, NEW s, NEW c2, NEW e2, NEW t, NEW v \in Peers, NEW n \in Nat,
           Shifts(s, t), 1 \in 1..Len(s), Takes(c, e, s[1], c2, e2),
           VoteOf(c, e, v) \in Nat, VoteOf(c2, e2, v) \in Nat,
           IsBallot(s[1], v) => s[1].vote \in Nat
    PROVE  /\ HearsVote(c, e, s, v, n) => HearsVote(c2, e2, t, v, n)
           /\ Source(c2, e2, t, v, n) => Source(c, e, s, v, n)
<1>1. /\ VoteOf(c2, e2, v) \in {VoteOf(c, e, v), Says(s[1], v)}
      /\ VoteOf(c, e, v) <= VoteOf(c2, e2, v)
      /\ IsBallot(s[1], v) => s[1].vote <= VoteOf(c2, e2, v)
  BY DEF Takes
<1>2. \A i \in 1..Len(t) : i + 1 \in 1..Len(s) /\ t[i] = s[i + 1]
  BY DEF Shifts
<1>3. ASSUME NEW i \in 1..Len(s), IsBallot(s[i], v), n <= s[i].vote
      PROVE  HearsVote(c2, e2, t, v, n)
  <2>1. CASE i = 1
    BY <1>1, <1>3, <2>1 DEF HearsVote
  <2>2. CASE i # 1
    <3>1. i - 1 \in 1..Len(t) /\ (i - 1) + 1 = i
      BY <2>2 DEF Shifts
    <3>2. t[i - 1] = s[i]
      BY <1>2, <3>1
    <3>3. QED
      BY <1>3, <3>1, <3>2 DEF HearsVote
  <2>3. QED
    BY <2>1, <2>2
<1>4. HearsVote(c, e, s, v, n) => HearsVote(c2, e2, t, v, n)
  BY <1>1, <1>3 DEF HearsVote
<1>5. Source(c2, e2, t, v, n) => Source(c, e, s, v, n)
  BY <1>1, <1>2 DEF Source
<1>6. QED
  BY <1>4, <1>5

-----------------------------------------------------------------------------
(* What each handler makes of a frame *)

LEMMA CloseFields ==
    ASSUME ConstantsOK, NEW c \in Poll
    PROVE  /\ Close(c).status = "closed" /\ Close(c).result = c.ballots
           /\ Close(c).nominationsLocked = c.nominationsLocked
           /\ Close(c).options = c.options /\ Close(c).ballots = c.ballots
BY DEF Close, Poll

LEMMA FlushedFields ==
    ASSUME ConstantsOK, TypeOK, NEW p \in Peers, NEW c \in Poll
    PROVE  /\ Flushed(p, c).status = c.status /\ Flushed(p, c).result = c.result
           /\ Flushed(p, c).nominationsLocked = c.nominationsLocked
           /\ Flushed(p, c).options = c.options \cup early[p].options
<1> DEFINE b == [q \in Peers |-> IF early[p].ballots[q] # 0
                                 THEN early[p].ballots[q] ELSE c.ballots[q]]
<1>1. Flushed(p, c) = [c EXCEPT !.options = c.options \cup early[p].options, !.ballots = b]
  BY DEF Flushed, Poll
<1> HIDE DEF b
<1>2. QED
  BY <1>1 DEF Poll

LEMMA MergedFields ==
    ASSUME ConstantsOK, NEW c \in Poll, NEW d \in Poll
    PROVE  /\ Merged(c, d).options = c.options \cup d.options
           /\ Merged(c, d).nominationsLocked = (c.nominationsLocked \/ d.nominationsLocked)
           /\ d.status = "closed" /\ c.status = "open" =>
                  /\ Merged(c, d).status = "closed"
                  /\ Merged(c, d).result = Merged(c, d).ballots
           /\ ~(d.status = "closed" /\ c.status = "open") =>
                  Merged(c, d).status = c.status /\ Merged(c, d).result = c.result
<1> DEFINE b == [q \in Peers |-> IF c.ballots[q] # 0 THEN c.ballots[q] ELSE d.ballots[q]]
           both == [c EXCEPT !.options = c.options \cup d.options, !.ballots = b,
                             !.nominationsLocked = c.nominationsLocked \/ d.nominationsLocked]
<1>1. c.ballots \in Votes /\ d.ballots \in Votes
  BY PollFields
<1>2. b \in Votes
  BY <1>1 DEF Votes
<1>3. Merged(c, d) = IF d.status = "closed" /\ c.status = "open" THEN Close(both) ELSE both
  BY DEF Merged, Poll
<1> HIDE DEF b
<1>4. /\ both \in Poll /\ both.status = c.status /\ both.result = c.result
      /\ both.options = c.options \cup d.options
      /\ both.nominationsLocked = (c.nominationsLocked \/ d.nominationsLocked)
  BY <1>2 DEF Poll
<1> HIDE DEF both
<1>5. QED
  BY <1>3, <1>4, CloseFields

LEMMA FlushedIn ==
    ASSUME ConstantsOK, TypeOK, NEW p \in Peers, NEW c \in Poll, NEW f \in Fact
    PROVE  /\ In(c, f) => \/ In(Flushed(p, c), f)
                          \/ f.kind = "vote" /\ early[p].ballots[f.of] # 0
           /\ Kept(early[p], f) => In(Flushed(p, c), f)
           /\ In(Flushed(p, c), f) => In(c, f) \/ Kept(early[p], f)
<1>1. \A v \in Peers : /\ Flushed(p, c).ballots[v] = IF early[p].ballots[v] # 0
                                                     THEN early[p].ballots[v] ELSE c.ballots[v]
  BY FlushedReads
<1>2. \A v \in Peers : early[p].ballots[v] \in Nat /\ c.ballots[v] \in Nat
  BY Counts, PollFields
<1>3. QED
  BY <1>1, <1>2, FlushedFields, FactCases DEF In, Kept

LEMMA MergedIn ==
    ASSUME ConstantsOK, NEW c \in Poll, NEW d \in Poll, NEW f \in Fact
    PROVE  /\ In(c, f) => In(Merged(c, d), f)
           /\ In(d, f) => \/ In(Merged(c, d), f)
                          \/ f.kind = "vote" /\ c.ballots[f.of] # 0
           /\ In(Merged(c, d), f) => In(c, f) \/ In(d, f)
<1>1. \A v \in Peers : /\ Merged(c, d).ballots[v] = IF c.ballots[v] # 0 THEN c.ballots[v]
                                                    ELSE d.ballots[v]
  BY MergedReads
<1>2. \A v \in Peers : c.ballots[v] \in Nat /\ d.ballots[v] \in Nat
  BY PollFields
<1>3. c.status \in {"open", "closed"} /\ d.status \in {"open", "closed"}
  BY DEF Poll
<1>4. CASE f.kind = "vote"
  BY <1>1, <1>2, <1>4, FactCases DEF In
<1>5. CASE f.kind # "vote"
  BY <1>3, <1>5, MergedFields, FactCases DEF In
<1>6. QED
  BY <1>4, <1>5

\* No fact is known of nothing.
LEMMA NothingKept ==
    ASSUME ConstantsOK, NEW f \in Fact
    PROVE  ~Kept(NothingEarly, f)
<1>1. NothingEarly.options = {} /\ NothingEarly.ballots = NoVotes
  BY DEF NothingEarly
<1>2. QED
  BY <1>1, NoVotesType, FactCases DEF Kept

LEMMA VotesAreCounts ==
    ASSUME ConstantsOK, TypeOK, NEW p \in Peers, NEW v \in Peers
    PROVE  VoteOf(poll[p], early[p], v) \in Nat
BY Counts DEF VoteOf, Holds

\* What is of no news to anybody changes nothing.
LEMMA TakesPlain ==
    ASSUME NEW c, NEW e, NEW m, m.kind \in {"peers", "joined", "retract"},
           \A v \in Peers : VoteOf(c, e, v) \in Nat
    PROVE  Takes(c, e, m, c, e)
<1>1. ~Gives(m) /\ \A v : ~IsBallot(m, v)
  BY DEF Gives, IsBallot
<1>2. \A f \in Fact : ~IsNews(m, f) /\ ~InCopy(m, f)
  BY DEF IsNews, InCopy, IsBallot
<1>3. QED
  BY <1>1, <1>2 DEF Takes

\* The step by which p takes a frame and nobody else notices.
Listens(p) ==
    /\ down[p] # <<>> /\ Shifts(down[p], down'[p]) /\ 1 \in 1..Len(down[p])
    /\ down[p][1] = Head(down[p])
    /\ UNCHANGED <<here, retracted>> /\ (~missed' => ~missed) /\ (~late' => ~late)
    /\ \A q \in Peers \ {p} : /\ down'[q] = down[q] /\ poll'[q] = poll[q]
                              /\ early'[q] = early[q]

LEMMA Listening ==
    ASSUME ConstantsOK, TypeOK, QueuesOK, NEW p \in Peers,
           \/ OnOpen(p) \/ OnOption(p) \/ OnBallot(p) \/ OnLock(p) \/ OnClose(p) \/ OnSync(p)
           \/ OnRetract(p) /\ ~Holds(p)
    PROVE  Listens(p)
<1>1. down[p] # <<>> /\ Taken(p) /\ UNCHANGED <<here, retracted, missed>>
  <2>1. down[p] # <<>>
    BY DEF OnOpen, OnOption, OnBallot, OnLock, OnClose, OnSync, OnRetract, Gets
  <2>2. Taken(p) /\ UNCHANGED here
    BY DEF OnOpen, OnOption, OnBallot, OnLock, OnClose, OnSync, OnRetract, Heard
  <2>3. UNCHANGED <<retracted, missed>>
    BY DEF OnOpen, OnOption, OnBallot, OnLock, OnClose, OnSync, OnRetract, Heard
  <2>4. QED
    BY <2>1, <2>2, <2>3
<1>0. ~late' => ~late
  BY DEF OnOpen, OnOption, OnBallot, OnLock, OnClose, OnSync, OnRetract
<1>2. /\ down'[p] = Tail(down[p]) /\ \A q \in Peers \ {p} : down'[q] = down[q]
      /\ down[p] \in Seq(Frame)
  BY <1>1, HeardQueues
<1>3. \A q \in Peers \ {p} : poll'[q] = poll[q]
  BY DEF OnOpen, OnOption, OnBallot, OnLock, OnClose, OnSync, OnRetract, Keep, TypeOK
<1>4. \A q \in Peers \ {p} : early'[q] = early[q]
  BY DEF OnOpen, OnOption, OnBallot, OnLock, OnClose, OnSync, OnRetract, TypeOK
<1>5. QED
  BY <1>0, <1>1, <1>2, <1>3, <1>4, TailShifts DEF Listens

LEMMA TakesOpen ==
    ASSUME ConstantsOK, TypeOK, QueuesOK, NEW p \in Peers, p \notin retracted, OnOpen(p)
    PROVE  Takes(poll[p], early[p], Head(down[p]), poll'[p], early'[p])
<1> DEFINE m == Head(down[p])
<1>1. m.kind = "open"
  BY DEF OnOpen, Gets
<1>2. \A f \in Fact : ~InCopy(m, f) /\ (IsNews(m, f) => f.kind = "poll")
  BY <1>1 DEF InCopy, IsNews, IsBallot
<1>3. \A v \in Peers : ~IsBallot(m, v) /\ VoteOf(poll[p], early[p], v) \in Nat
  BY <1>1, VotesAreCounts DEF IsBallot
<1> HIDE DEF m
<1>4. CASE Holds(p)
  <2>1. UNCHANGED <<poll, early>> /\ poll[p] # NoPoll
    BY <1>4 DEF OnOpen, Holds
  <2>2. \A f \in Fact : f.kind = "poll" => Knows(poll[p], early[p], f)
    BY <2>1 DEF Knows, In
  <2>3. QED
    BY <1>2, <1>3, <2>1, <2>2 DEF Takes, m
<1>5. CASE ~Holds(p)
  <2> DEFINE c == Flushed(p, NewPoll)
  <2>1. Keep(p, c) /\ early' = [early EXCEPT ![p] = NothingEarly]
    BY <1>5 DEF OnOpen, IsRetracted
  <2>2. NewPoll \in Poll /\ NewPoll.ballots = NoVotes
    BY NewPollType
  <2>3. c \in Poll /\ c # NoPoll
    BY <2>2, FlushedReads, PollFields
  <2>4. /\ \A f \in Fact : /\ Kept(early[p], f) => In(c, f)
                           /\ In(c, f) => f.kind = "poll" \/ Kept(early[p], f)
                           /\ f.kind = "poll" => In(c, f)
    <3>1. \A f \in Fact : In(NewPoll, f) => f.kind = "poll"
      BY NoVotesType, FactCases DEF In, NewPoll
    <3>2. QED
      BY <2>2, <3>1, FlushedIn DEF In
  <2>5. \A v \in Peers : c.ballots[v] = early[p].ballots[v]
    BY <2>2, FlushedReads, NoVotesType
  <2> HIDE DEF c
  <2>6. poll'[p] = c /\ poll[p] = NoPoll
    BY <1>5, <2>1, <2>3 DEF Keep, Holds, TypeOK
  <2>7. \A v \in Peers : VoteOf(c, early'[p], v) = VoteOf(poll[p], early[p], v)
    BY <2>3, <2>5, <2>6 DEF VoteOf
  <2>8. ASSUME NEW f \in Fact
        PROVE  /\ Knows(poll[p], early[p], f) => Knows(c, early'[p], f)
               /\ IsNews(m, f) => Knows(c, early'[p], f)
               /\ Rumour(c, early'[p], f) => Rumour(poll[p], early[p], f) \/ Mentions(m, f)
    <3>1. Mentions(m, f) \/ f.kind # "poll"
      BY <1>1 DEF Mentions, Plain, m
    <3>2. QED
      BY <1>2, <2>3, <2>4, <2>6, <3>1 DEF Knows, Rumour
  <2>9. QED
    BY <1>2, <1>3, <2>3, <2>6, <2>7, <2>8 DEF Takes, m
<1>6. QED
  BY <1>4, <1>5

LEMMA TakesOption ==
    ASSUME ConstantsOK, TypeOK, QueuesOK, NEW p \in Peers, p \notin retracted, OnOption(p), ~late'
    PROVE  Takes(poll[p], early[p], Head(down[p]), poll'[p], early'[p])
<1> DEFINE m == Head(down[p])
           o == m.option
<1>1. m.kind = "option" /\ down[p] # <<>>
  BY DEF OnOption, Gets
<1>2. m \in Frame
  BY <1>1, TailShifts DEF QueuesOK
<1>3. o \in Options
  BY <1>1, <1>2, FrameFields
<1>4. ~Gives(m) /\ \A f \in Fact : /\ ~InCopy(m, f)
                                   /\ IsNews(m, f) <=> f.kind = "option" /\ f.option = o
  BY <1>1 DEF InCopy, IsNews, IsBallot, Gives
<1>5. \A v \in Peers : ~IsBallot(m, v) /\ VoteOf(poll[p], early[p], v) \in Nat
  BY <1>1, VotesAreCounts DEF IsBallot
<1>6. CASE Holds(p)
  <2>1. poll[p] \in Poll /\ early' = early
    BY <1>6 DEF OnOption, Holds, TypeOK
  <2>2. poll'[p] = [poll[p] EXCEPT !.options = poll[p].options \cup {o}]
    <3>1. CASE poll[p].nominationsLocked \/ ~Open(p)
      <4>1. o \in poll[p].options /\ poll' = poll
        BY <1>6, <3>1 DEF OnOption
      <4>2. poll[p].options = poll[p].options \cup {o}
        BY <4>1
      <4>3. QED
        BY <2>1, <4>1, <4>2 DEF Poll
    <3>2. CASE ~(poll[p].nominationsLocked \/ ~Open(p))
      BY <1>6, <2>1, <3>2 DEF OnOption, TypeOK
    <3>3. QED
      BY <3>1, <3>2
  <2> DEFINE c == [poll[p] EXCEPT !.options = poll[p].options \cup {o}]
  <2>3. poll[p].options \cup {o} \in SUBSET Options
    BY <1>3, <2>1, PollFields
  <2>4. /\ c \in Poll /\ c # NoPoll /\ poll[p] # NoPoll
        /\ c.ballots = poll[p].ballots /\ c.options = poll[p].options \cup {o}
        /\ c.status = poll[p].status /\ c.nominationsLocked = poll[p].nominationsLocked
    <3>1. /\ c \in Poll /\ c.ballots = poll[p].ballots
          /\ c # NoPoll /\ poll[p] # NoPoll
      BY <2>1, <2>3, PollFields
    <3>2. /\ c.options = poll[p].options \cup {o}
          /\ c.status = poll[p].status /\ c.nominationsLocked = poll[p].nominationsLocked
      BY <2>1 DEF Poll
    <3>3. QED
      BY <3>1, <3>2
  <2> HIDE DEF c, m, o
  <2>5. poll'[p] = c
    BY <2>2 DEF c
  <2>6. \A f \in Fact : In(c, f) <=> In(poll[p], f) \/ (f.kind = "option" /\ f.option = o)
    BY <2>4 DEF In
  <2>7. \A v \in Peers : VoteOf(c, early[p], v) = VoteOf(poll[p], early[p], v)
    BY <2>4 DEF VoteOf
  <2>8. ASSUME NEW f \in Fact
        PROVE  /\ Knows(poll[p], early[p], f) => Knows(c, early[p], f)
               /\ IsNews(m, f) => Knows(c, early[p], f)
               /\ Rumour(c, early[p], f) => Rumour(poll[p], early[p], f) \/ Mentions(m, f)
    BY <1>4, <2>4, <2>6 DEF Knows, Rumour, Mentions
  <2>9. QED
    BY <1>4, <1>5, <2>1, <2>4, <2>5, <2>7, <2>8 DEF Takes, m
<1>7. CASE ~Holds(p)
  <2> DEFINE e == [early[p] EXCEPT !.options = early[p].options \cup {o}]
  <2>1. early \in [Peers -> [options: SUBSET Options, ballots: Votes]]
    BY DEF TypeOK
  <2>2. poll' = poll /\ early'[p] = e /\ poll[p] = NoPoll
    BY <1>7, <2>1 DEF OnOption, IsRetracted, Holds
  <2>3. e.ballots = early[p].ballots /\ e.options = early[p].options \cup {o}
    BY <2>1
  <2> HIDE DEF e, m, o
  <2>4. \A f \in Fact : Kept(e, f) <=> Kept(early[p], f) \/ (f.kind = "option" /\ f.option = o)
    BY <2>3 DEF Kept
  <2>5. \A v \in Peers : VoteOf(poll[p], e, v) = VoteOf(poll[p], early[p], v)
    BY <2>2, <2>3 DEF VoteOf
  <2>6. ASSUME NEW f \in Fact
        PROVE  /\ Knows(poll[p], early[p], f) => Knows(poll[p], e, f)
               /\ IsNews(m, f) => Knows(poll[p], e, f)
               /\ Rumour(poll[p], e, f) => Rumour(poll[p], early[p], f) \/ Mentions(m, f)
    BY <1>1, <1>4, <2>2, <2>4 DEF Knows, Rumour, Mentions, Plain, m
  <2>7. QED
    BY <1>4, <1>5, <2>2, <2>5, <2>6 DEF Takes, m
<1>8. QED
  BY <1>6, <1>7

\* A ballot replaces what there was, and is never the older one.
LEMMA TakesBallot ==
    ASSUME ConstantsOK, TypeOK, QueuesOK, PollInv, NEW p \in Peers, p \notin retracted,
           OnBallot(p), ~late'
    PROVE  Takes(poll[p], early[p], Head(down[p]), poll'[p], early'[p])
<1> DEFINE m == Head(down[p])
           a == m.from
           n == m.vote
<1>1. m.kind = "ballot" /\ down[p] # <<>>
  BY DEF OnBallot, Gets
<1>2. m \in Frame /\ down[p] \in Seq(Frame)
  BY <1>1, TailShifts DEF QueuesOK
<1>3. a \in Peers /\ n \in 0..MaxVotes /\ n \in Nat
  BY <1>1, <1>2, FrameFields DEF ConstantsOK
<1>4. /\ ~Gives(m)
      /\ \A f \in Fact : /\ ~InCopy(m, f)
                         /\ IsNews(m, f) <=> f.kind = "vote" /\ f.of = a /\ f.least <= n
      /\ \A v : IsBallot(m, v) <=> v = a
  BY <1>1 DEF InCopy, IsNews, IsBallot, Gives
<1>5. \A v \in Peers : /\ VoteOf(poll[p], early[p], v) \in Nat
                       /\ Says(m, v) = IF v = a THEN n ELSE 0
  BY <1>1, VotesAreCounts DEF Says, IsBallot
<1>6. VoteOf(poll[p], early[p], a) <= n
  <2>1. IsBallot(m, a)
    BY <1>4
  <2>2. InOrderAt(poll[p], early[p], down[p], a)
    BY <1>3 DEF PollInv, VotesInOrder
  <2>3. NoLess(down[p], a, VoteOf(poll[p], early[p], a))
    BY <2>2 DEF InOrderAt, VoteOf
  <2>4. QED
    BY <1>1, <1>2, <1>3, <2>1, <2>3, TailOrder
<1>7. CASE Holds(p)
  <2> DEFINE b == [poll[p].ballots EXCEPT ![a] = n]
             c == [poll[p] EXCEPT !.ballots = b]
  <2>1. poll[p] \in Poll /\ poll[p].ballots \in Votes /\ early' = early
    BY <1>7, PollFields DEF OnBallot, Holds, TypeOK
  <2>2. /\ b \in Votes
        /\ \A v \in Peers : b[v] = IF v = a THEN n ELSE poll[p].ballots[v]
    BY <1>3, <2>1 DEF Votes
  <2>3. poll'[p] = c
    BY <1>7 DEF OnBallot, TypeOK
  <2> HIDE DEF b
  <2>4. c \in Poll /\ c.ballots = b /\ c # NoPoll /\ poll[p] # NoPoll
    BY <2>1, <2>2, PollFields
  <2>5. /\ c.options = poll[p].options /\ c.status = poll[p].status
        /\ c.nominationsLocked = poll[p].nominationsLocked
    BY <2>1 DEF Poll
  <2> HIDE DEF c, m, a, n
  <2>6. \A v \in Peers : /\ VoteOf(c, early[p], v) = IF v = a THEN n ELSE poll[p].ballots[v]
                         /\ VoteOf(poll[p], early[p], v) = poll[p].ballots[v]
    BY <2>2, <2>4 DEF VoteOf
  <2>7. ASSUME NEW f \in Fact
        PROVE  /\ In(poll[p], f) => In(c, f)
               /\ IsNews(m, f) => In(c, f)
               /\ In(c, f) => In(poll[p], f) \/ IsNews(m, f)
    <3>1. CASE f.kind = "vote"
      BY <1>3, <1>4, <1>5, <1>6, <2>2, <2>4, <2>6, <3>1, FactCases DEF In
    <3>2. CASE f.kind # "vote"
      BY <1>4, <2>5, <3>2 DEF In
    <3>3. QED
      BY <3>1, <3>2
  <2>8. ASSUME NEW f \in Fact
        PROVE  /\ Knows(poll[p], early[p], f) => Knows(c, early[p], f)
               /\ IsNews(m, f) => Knows(c, early[p], f)
               /\ Rumour(c, early[p], f) => Rumour(poll[p], early[p], f) \/ Mentions(m, f)
    BY <2>4, <2>7 DEF Knows, Rumour, Mentions
  <2>9. \A v \in Peers : /\ VoteOf(c, early[p], v) \in {VoteOf(poll[p], early[p], v), Says(m, v)}
                         /\ VoteOf(poll[p], early[p], v) <= VoteOf(c, early[p], v)
                         /\ IsBallot(m, v) => n <= VoteOf(c, early[p], v)
    BY <1>3, <1>4, <1>5, <1>6, <2>6
  <2>10. QED
    BY <1>4, <2>1, <2>3, <2>4, <2>8, <2>9 DEF Takes, m, n
<1>8. CASE ~Holds(p)
  <2> DEFINE b == [early[p].ballots EXCEPT ![a] = n]
             e == [early[p] EXCEPT !.ballots = b]
  <2>1. /\ early \in [Peers -> [options: SUBSET Options, ballots: Votes]]
        /\ early[p].ballots \in Votes
    BY DEF TypeOK
  <2>2. /\ b \in Votes
        /\ \A v \in Peers : b[v] = IF v = a THEN n ELSE early[p].ballots[v]
    BY <1>3, <2>1 DEF Votes
  <2>3. poll' = poll /\ early'[p] = e /\ poll[p] = NoPoll
    BY <1>8, <2>1 DEF OnBallot, IsRetracted, Holds
  <2> HIDE DEF b
  <2>4. e.ballots = b /\ e.options = early[p].options
    BY <2>1, <2>2
  <2> HIDE DEF e, m, a, n
  <2>5. \A v \in Peers : /\ VoteOf(poll[p], e, v) = IF v = a THEN n ELSE early[p].ballots[v]
                         /\ VoteOf(poll[p], early[p], v) = early[p].ballots[v]
    BY <2>2, <2>3, <2>4 DEF VoteOf
  <2>6. ASSUME NEW f \in Fact
        PROVE  /\ Kept(early[p], f) => Kept(e, f)
               /\ IsNews(m, f) => Kept(e, f)
               /\ Kept(e, f) => Kept(early[p], f) \/ IsNews(m, f)
    <3>1. CASE f.kind = "vote"
      BY <1>3, <1>4, <1>5, <1>6, <2>2, <2>4, <2>5, <3>1, FactCases DEF Kept
    <3>2. CASE f.kind # "vote"
      BY <1>4, <2>4, <3>2 DEF Kept
    <3>3. QED
      BY <3>1, <3>2
  <2>7. ASSUME NEW f \in Fact
        PROVE  /\ Knows(poll[p], early[p], f) => Knows(poll[p], e, f)
               /\ IsNews(m, f) => Knows(poll[p], e, f)
               /\ Rumour(poll[p], e, f) => Rumour(poll[p], early[p], f) \/ Mentions(m, f)
    BY <1>1, <2>3, <2>6 DEF Knows, Rumour, Mentions, Plain, m
  <2>8. \A v \in Peers : /\ VoteOf(poll[p], e, v) \in {VoteOf(poll[p], early[p], v), Says(m, v)}
                         /\ VoteOf(poll[p], early[p], v) <= VoteOf(poll[p], e, v)
                         /\ IsBallot(m, v) => n <= VoteOf(poll[p], e, v)
    BY <1>3, <1>4, <1>5, <1>6, <2>5
  <2>9. QED
    BY <1>4, <2>3, <2>7, <2>8 DEF Takes, m, n
<1>9. QED
  BY <1>7, <1>8

\* The lock and the close change what they say, and nothing where there is no poll.
LEMMA TakesWord ==
    ASSUME ConstantsOK, TypeOK, QueuesOK, NEW p \in Peers, OnLock(p) \/ OnClose(p)
    PROVE  Takes(poll[p], early[p], Head(down[p]), poll'[p], early'[p])
<1> DEFINE m == Head(down[p])
<1>1. m.kind \in {"lock", "close"} /\ early' = early
  BY DEF OnLock, OnClose, Gets
<1>2. /\ ~Gives(m)
      /\ \A f \in Fact : ~InCopy(m, f) /\ (IsNews(m, f) <=> f.kind = m.kind)
      /\ \A v : ~IsBallot(m, v)
  BY <1>1 DEF InCopy, IsNews, IsBallot, Gives
<1>3. \A v \in Peers : VoteOf(poll[p], early[p], v) \in Nat
  BY VotesAreCounts
<1>4. CASE Holds(p)
  <2>1. poll[p] \in Poll
    BY <1>4 DEF Holds, TypeOK
  <2> DEFINE locked == [poll[p] EXCEPT !.nominationsLocked = TRUE]
             c == IF m.kind = "lock" THEN locked
                  ELSE IF Open(p) THEN Close(poll[p]) ELSE poll[p]
  <2>2. poll'[p] = c
    BY <1>4 DEF OnLock, OnClose, Gets, TypeOK
  <2>3. /\ locked \in Poll /\ locked.ballots = poll[p].ballots
        /\ Close(poll[p]) \in Poll
    BY <2>1, PollFields
  <2>4. /\ locked.options = poll[p].options /\ locked.status = poll[p].status
        /\ locked.nominationsLocked
    BY <2>1 DEF Poll
  <2>5. /\ c \in Poll /\ c.ballots = poll[p].ballots /\ c.options = poll[p].options
        /\ c.status = IF m.kind = "close" THEN "closed" ELSE poll[p].status
        /\ c.nominationsLocked = (poll[p].nominationsLocked \/ m.kind = "lock")
    <3> HIDE DEF locked
    <3>1. poll[p].status \in {"open", "closed"} /\ poll[p].nominationsLocked \in BOOLEAN
      BY <2>1 DEF Poll
    <3>2. CASE m.kind = "lock"
      BY <2>3, <2>4, <3>1, <3>2
    <3>3. CASE m.kind = "close"
      BY <2>1, <2>3, <3>1, <3>3, CloseFields DEF Open
    <3>4. QED
      BY <1>1, <3>2, <3>3
  <2> HIDE DEF c, locked, m
  <2>6. c # NoPoll /\ poll[p] # NoPoll
    BY <2>1, <2>5, PollFields
  <2>7. \A f \in Fact : In(c, f) <=> In(poll[p], f) \/ f.kind = m.kind
    BY <1>1, <2>5, FactCases DEF In
  <2>8. \A v \in Peers : VoteOf(c, early[p], v) = VoteOf(poll[p], early[p], v)
    BY <2>5, <2>6 DEF VoteOf
  <2>9. ASSUME NEW f \in Fact
        PROVE  /\ Knows(poll[p], early[p], f) => Knows(c, early[p], f)
               /\ IsNews(m, f) => Knows(c, early[p], f)
               /\ Rumour(c, early[p], f) => Rumour(poll[p], early[p], f) \/ Mentions(m, f)
    BY <1>2, <2>6, <2>7 DEF Knows, Rumour, Mentions
  <2>10. QED
    BY <1>1, <1>2, <1>3, <2>2, <2>6, <2>8, <2>9 DEF Takes, m
<1>5. CASE ~Holds(p)
  <2>1. poll' = poll /\ poll[p] = NoPoll
    BY <1>5 DEF OnLock, OnClose, Holds
  <2>2. \A f \in Fact : IsNews(m, f) => ~Lasting(f)
    BY <1>1, <1>2 DEF Lasting
  <2> HIDE DEF m
  <2>3. QED
    BY <1>1, <1>2, <1>3, <2>1, <2>2 DEF Takes, m
<1>6. QED
  BY <1>4, <1>5

\* A copy: its votes count only where there is none.
LEMMA TakesSync ==
    ASSUME ConstantsOK, TypeOK, QueuesOK, NEW p \in Peers, p \notin retracted, OnSync(p)
    PROVE  Takes(poll[p], early[p], Head(down[p]), poll'[p], early'[p])
<1> DEFINE m == Head(down[p])
           d == m.copy
<1>1. m.kind = "sync" /\ down[p] # <<>>
  BY DEF OnSync, Gets
<1>2. m \in Frame
  BY <1>1, TailShifts DEF QueuesOK
<1>3. d \in Poll
  BY <1>1, <1>2, FrameFields
<1>4. /\ \A f \in Fact : ~IsNews(m, f) /\ (InCopy(m, f) <=> In(d, f))
      /\ \A v \in Peers : ~IsBallot(m, v) /\ Says(m, v) = d.ballots[v]
  BY <1>1 DEF IsNews, InCopy, IsBallot, Says
<1>5. \A v \in Peers : VoteOf(poll[p], early[p], v) \in Nat /\ d.ballots[v] \in Nat
  BY <1>3, VotesAreCounts, PollFields
<1>6. \A f \in Fact : InCopy(m, f) => Mentions(m, f)
  BY <1>1 DEF Mentions, Plain
<1>7. ASSUME NEW f \in Fact, f.kind = "vote", In(d, f), VoteOf(poll[p], early[p], f.of) # 0
      PROVE  \/ Outvoted(poll[p], early[p], m, f)
             \/ f.least <= VoteOf(poll[p], early[p], f.of)
  <2>1. f.of \in Peers /\ f.least \in Nat /\ f.least <= d.ballots[f.of]
    BY <1>7, FactCases DEF In
  <2>2. QED
    BY <1>1, <1>5, <1>7, <2>1 DEF Outvoted
<1>8. CASE Holds(p)
  <2> DEFINE c == Merged(poll[p], d)
  <2>1. poll[p] \in Poll /\ poll[p] # NoPoll
    BY <1>8 DEF Holds, TypeOK
  <2>2. Keep(p, c) /\ early' = early
    BY <1>8 DEF OnSync, IsRetracted
  <2>3. c \in Poll /\ c # NoPoll
    BY <1>3, <2>1, MergedReads, PollFields
  <2>4. poll'[p] = c
    BY <2>2 DEF Keep, TypeOK
  <2>5. \A v \in Peers : c.ballots[v] = IF poll[p].ballots[v] # 0 THEN poll[p].ballots[v]
                                        ELSE d.ballots[v]
    BY <1>3, <2>1, MergedReads
  <2>6. ASSUME NEW f \in Fact
        PROVE  /\ In(poll[p], f) => In(c, f)
               /\ In(d, f) => \/ In(c, f)
                              \/ f.kind = "vote" /\ poll[p].ballots[f.of] # 0
               /\ In(c, f) => In(poll[p], f) \/ In(d, f)
    BY <1>3, <2>1, MergedIn
  <2> HIDE DEF c, d, m
  <2>7. \A v \in Peers : VoteOf(c, early[p], v) = c.ballots[v]
                         /\ VoteOf(poll[p], early[p], v) = poll[p].ballots[v]
    BY <2>1, <2>3 DEF VoteOf
  <2>8. ASSUME NEW f \in Fact
        PROVE  /\ Knows(poll[p], early[p], f) => Knows(c, early[p], f)
               /\ InCopy(m, f) => Knows(c, early[p], f) \/ Outvoted(poll[p], early[p], m, f)
               /\ Rumour(c, early[p], f) => Rumour(poll[p], early[p], f) \/ Mentions(m, f)
    <3>1. In(d, f) => In(c, f) \/ Outvoted(poll[p], early[p], m, f)
      <4>1. CASE f.kind = "vote" /\ poll[p].ballots[f.of] # 0
        <5>1. f.of \in Peers
          BY <4>1, FactCases
        <5>2. f.least <= VoteOf(poll[p], early[p], f.of) => In(poll[p], f)
          BY <2>7, <4>1, <5>1 DEF In
        <5>3. QED
          BY <1>7, <2>6, <2>7, <4>1, <5>1, <5>2
      <4>2. QED
        BY <2>6, <4>1
    <3>2. QED
      BY <1>4, <1>6, <2>1, <2>3, <2>6, <3>1 DEF Knows, Rumour
  <2>9. \A v \in Peers : /\ VoteOf(c, early[p], v) \in {VoteOf(poll[p], early[p], v), Says(m, v)}
                         /\ VoteOf(poll[p], early[p], v) <= VoteOf(c, early[p], v)
    BY <1>4, <1>5, <2>5, <2>7
  <2>10. QED
    BY <1>4, <2>2, <2>3, <2>4, <2>8, <2>9 DEF Takes, m
<1>9. CASE ~Holds(p)
  <2> DEFINE g == Flushed(p, d)
             c == IF d.status = "closed" THEN Close(g) ELSE g
  <2>1. Keep(p, c) /\ early' = [early EXCEPT ![p] = NothingEarly] /\ poll[p] = NoPoll
    BY <1>9 DEF OnSync, IsRetracted, Holds
  <2>2. g \in Poll /\ \A v \in Peers : g.ballots[v] = IF early[p].ballots[v] # 0
                                                      THEN early[p].ballots[v] ELSE d.ballots[v]
    BY <1>3, FlushedReads
  <2>3. g.status = d.status
    BY <1>3, FlushedFields
  <2>4. ASSUME NEW f \in Fact
        PROVE  /\ In(d, f) => In(g, f) \/ (f.kind = "vote" /\ early[p].ballots[f.of] # 0)
               /\ Kept(early[p], f) => In(g, f)
               /\ In(g, f) => In(d, f) \/ Kept(early[p], f)
    BY <1>3, FlushedIn
  <2>5. poll'[p] = c
    BY <2>1 DEF Keep, TypeOK
  <2> HIDE DEF g
  <2>6. /\ c \in Poll /\ c # NoPoll /\ c.ballots = g.ballots
        /\ \A f \in Fact : In(c, f) <=> In(g, f)
    <3>1. /\ Close(g) \in Poll /\ g # NoPoll /\ Close(g) # NoPoll
      BY <2>2, PollFields
    <3>2. d.status = "closed" => \A f \in Fact : In(Close(g), f) <=> In(g, f)
      BY <2>2, <2>3, CloseFields DEF In
    <3>3. Close(g).ballots = g.ballots
      BY <2>2, CloseFields
    <3>4. QED
      BY <2>2, <3>1, <3>2, <3>3
  <2> HIDE DEF c, d, m
  <2>7. \A v \in Peers : /\ VoteOf(c, early'[p], v) = g.ballots[v]
                         /\ VoteOf(poll[p], early[p], v) = early[p].ballots[v]
    BY <2>1, <2>6 DEF VoteOf
  <2>8. ASSUME NEW f \in Fact
        PROVE  /\ Knows(poll[p], early[p], f) => Knows(c, early'[p], f)
               /\ InCopy(m, f) => Knows(c, early'[p], f) \/ Outvoted(poll[p], early[p], m, f)
               /\ Rumour(c, early'[p], f) => Rumour(poll[p], early[p], f) \/ Mentions(m, f)
    <3>1. In(d, f) => In(c, f) \/ Outvoted(poll[p], early[p], m, f)
      <4>1. CASE f.kind = "vote" /\ early[p].ballots[f.of] # 0
        <5>1. f.of \in Peers
          BY <4>1, FactCases
        <5>2. f.least <= VoteOf(poll[p], early[p], f.of) => Kept(early[p], f)
          BY <2>7, <4>1, <5>1 DEF Kept
        <5>3. QED
          BY <1>7, <2>4, <2>6, <2>7, <4>1, <5>1, <5>2
      <4>2. QED
        BY <2>4, <2>6, <4>1
    <3>2. f.kind = "poll" => Mentions(m, f)
      BY <1>1 DEF Mentions, Plain
    <3>3. QED
      BY <1>4, <1>6, <2>1, <2>4, <2>6, <3>1, <3>2 DEF Knows, Rumour
  <2>9. \A v \in Peers : /\ VoteOf(c, early'[p], v) \in {VoteOf(poll[p], early[p], v), Says(m, v)}
                         /\ VoteOf(poll[p], early[p], v) <= VoteOf(c, early'[p], v)
    BY <1>4, <1>5, <2>2, <2>7
  <2>10. QED
    BY <1>4, <2>5, <2>6, <2>8, <2>9 DEF Takes, m
<1>10. QED
  BY <1>8, <1>9

\* Whatever frame p takes, while no vote or nomination comes late.
LEMMA Taking ==
    ASSUME ConstantsOK, TypeOK, QueuesOK, PollInv, NEW p \in Peers, p \notin retracted, ~late',
           \/ OnOpen(p) \/ OnOption(p) \/ OnBallot(p) \/ OnLock(p) \/ OnClose(p) \/ OnSync(p)
           \/ OnRetract(p) /\ ~Holds(p)
    PROVE  Takes(poll[p], early[p], Head(down[p]), poll'[p], early'[p])
<1>1. CASE OnRetract(p) /\ ~Holds(p)
  <2>1. poll' = poll /\ early' = early /\ Head(down[p]).kind = "retract"
    BY <1>1 DEF OnRetract, Gets
  <2>2. QED
    BY <2>1, TakesPlain, VotesAreCounts
<1>2. QED
  BY <1>1, TakesOpen, TakesOption, TakesBallot, TakesWord, TakesSync

-----------------------------------------------------------------------------
(* Steps that leave nobody without *)

\* Who was safe is safe, and who is owed a copy that will say f still is, or is safe now.
Carries ==
    \A q \in Room \cap Room', f \in Fact :
        /\ Safe(q, f) => Safe(q, f)'
        /\ \A r \in Room \ {q} :
               OwedBy(r, q, f) => (r \in Room' /\ OwedBy(r, q, f)') \/ Safe(q, f)'

\* q knows all it knew, and has all to come that it had.
KeepsUp(q) ==
    /\ Grows(down[q], down'[q])
    /\ poll[q] # NoPoll => poll'[q] # NoPoll
    /\ \A f \in Fact : Knows(poll[q], early[q], f) => Knows(poll'[q], early'[q], f)

\* Whom p is to serve after its next frame it will serve as well after it, or need not.
ServesOn(p) ==
    \A f \in Fact, q \in Room \ {p}, j \in Nat :
        2 <= j /\ j \in 1..Len(down[p]) /\ Serves(p, j, q, f)
            => \/ /\ WillHold(poll'[p], down'[p], j - 1)
                  /\ Has(poll'[p], early'[p], down'[p], f, j - 1)
               \/ Safe(q, f)'

LEMMA OwesMeans ==
    ASSUME QueuesOK, NEW p \in Peers, NEW q
    PROVE  Owes(p, q) <=> \E j \in 1..Len(down[p]) : OwesAt(down[p], j, q)
<1>1. down[p] \in Seq(Frame)
  BY DEF QueuesOK
<1>2. Range(down[p]) = {down[p][j] : j \in 1..Len(down[p])}
  BY <1>1 DEF Range
<1>3. QED
  BY <1>2 DEF Owes, OwesAt

LEMMA KeptSafe ==
    ASSUME NEW q, KeepsUp(q), NEW f \in Fact, Safe(q, f)
    PROVE  Safe(q, f)'
<1> DEFINE k == Len(down[q]) + 1
<1>1. /\ Grows(down[q], down'[q]) /\ k \in Nat /\ Len(down'[q]) + 1 \in Nat
      /\ k <= Len(down'[q]) + 1
      /\ poll[q] # NoPoll => poll'[q] # NoPoll
      /\ Knows(poll[q], early[q], f) => Knows(poll'[q], early'[q], f)
  BY DEF KeepsUp, Grows
<1>2. Has(poll[q], early[q], down[q], f, k)
  BY DEF Safe
<1> HIDE DEF k
<1>3. Has(poll'[q], early'[q], down'[q], f, k)
  BY <1>1, <1>2, GrowHas
<1>4. Has(poll'[q], early'[q], down'[q], f, Len(down'[q]) + 1)
  BY <1>1, <1>3, LaterHas
<1>5. QED
  BY <1>4 DEF Safe

LEMMA KeptOwed ==
    ASSUME NEW r, KeepsUp(r), NEW q, NEW f \in Fact, OwedBy(r, q, f)
    PROVE  OwedBy(r, q, f)'
<1>1. PICK j \in 1..Len(down[r]) : Serves(r, j, q, f)
  BY DEF OwedBy
<1>2. /\ Grows(down[r], down'[r]) /\ j \in Nat
      /\ j \in 1..Len(down'[r]) /\ down'[r][j] = down[r][j]
      /\ poll[r] # NoPoll => poll'[r] # NoPoll
      /\ Knows(poll[r], early[r], f) => Knows(poll'[r], early'[r], f)
  BY DEF KeepsUp, Grows
<1>3. /\ WillHold(poll'[r], down'[r], j)
      /\ Has(poll'[r], early'[r], down'[r], f, j)
  BY <1>1, <1>2, GrowHas DEF Serves
<1>4. OwesAt(down'[r], j, q)
  BY <1>1, <1>2 DEF Serves, OwesAt
<1>5. QED
  BY <1>2, <1>3, <1>4 DEF OwedBy, Serves

\* A step after which everybody keeps up who stays, and who does not owes nothing.
LEMMA GrowCarries ==
    ASSUME TypeOK, QueuesOK, \A q \in Room \cap Room' : KeepsUp(q),
           \A r \in Room \ Room' : ~Unserved(r)
    PROVE  Carries
<1> SUFFICES ASSUME NEW q \in Room \cap Room', NEW f \in Fact
             PROVE  /\ Safe(q, f) => Safe(q, f)'
                    /\ \A r \in Room \ {q} :
                           OwedBy(r, q, f) => r \in Room' /\ OwedBy(r, q, f)'
  BY DEF Carries
<1>1. Safe(q, f) => Safe(q, f)'
  BY KeptSafe
<1>2. ASSUME NEW r \in Room, OwedBy(r, q, f) PROVE r \in Room' /\ OwedBy(r, q, f)'
  <2>1. r \in Peers /\ q \in Peers
    BY DEF Room, TypeOK
  <2>2. Owes(r, q)
    BY <1>2, <2>1, OwesMeans DEF OwedBy, Serves
  <2>3. r \in Room'
    BY <2>1, <2>2 DEF Unserved
  <2>4. QED
    BY <1>2, <2>3, KeptOwed
<1>3. QED
  BY <1>1, <1>2

\* p takes a frame and loses nothing by it; whom it serves is served.
LEMMA TakeCarries ==
    ASSUME TypeOK, NEW p \in Room, Room' = Room, \A q \in Room \ {p} : KeepsUp(q),
           Shifts(down[p], down'[p]),
           \A f \in Fact : Safe(p, f) => Safe(p, f)',
           ServesOn(p),
           \A f \in Fact, q \in Room \ {p} : Serves(p, 1, q, f) => Safe(q, f)'
    PROVE  Carries
<1> SUFFICES ASSUME NEW q \in Room, NEW f \in Fact
             PROVE  /\ Safe(q, f) => Safe(q, f)'
                    /\ \A r \in Room \ {q} :
                           OwedBy(r, q, f) => OwedBy(r, q, f)' \/ Safe(q, f)'
  BY DEF Carries
<1>1. Safe(q, f) => Safe(q, f)'
  BY KeptSafe
<1>2. ASSUME NEW r \in Room \ {q}, OwedBy(r, q, f) PROVE OwedBy(r, q, f)' \/ Safe(q, f)'
  <2>1. CASE r # p
    BY <1>2, <2>1, KeptOwed
  <2>2. CASE r = p
    <3>1. PICK j \in 1..Len(down[p]) : Serves(p, j, q, f)
      BY <1>2, <2>2 DEF OwedBy
    <3>2. CASE j = 1
      BY <2>2, <3>1, <3>2
    <3>3. CASE j # 1 /\ ~Safe(q, f)'
      <4>1. j \in Nat /\ 2 <= j
        BY <3>3
      <4>2. j - 1 \in 1..Len(down'[p]) /\ (j - 1) + 1 = j
        BY <4>1 DEF Shifts
      <4>3. down'[p][j - 1] = down[p][j]
        BY <4>2 DEF Shifts
      <4>4. OwesAt(down'[p], j - 1, q)
        BY <3>1, <4>3 DEF Serves, OwesAt
      <4>5. /\ WillHold(poll'[p], down'[p], j - 1)
            /\ Has(poll'[p], early'[p], down'[p], f, j - 1)
        BY <2>2, <3>1, <3>3, <4>1 DEF ServesOn
      <4>6. QED
        BY <2>2, <4>2, <4>4, <4>5 DEF OwedBy, Serves
    <3>4. QED
      BY <3>2, <3>3
  <2>3. QED
    BY <2>1, <2>2
<1>3. QED
  BY <1>1, <1>2

\* Who does not notice keeps up.
LEMMA SameKeepsUp ==
    ASSUME QueuesOK, NEW q \in Peers, down'[q] = down[q], poll'[q] = poll[q],
           early'[q] = early[q]
    PROVE  KeepsUp(q) /\ \A f : Hears(poll[q], early[q], down[q], f)' =
                                    Hears(poll[q], early[q], down[q], f)
BY SameGrows DEF KeepsUp, QueuesOK

\* Who will know that there is a poll will have it.
LEMMA SafeHolds ==
    ASSUME NEW q, Safe(q, ThePoll)
    PROVE  WillHold(poll[q], down[q], Len(down[q]) + 1)
<1>1. Knows(poll[q], early[q], ThePoll) => poll[q] # NoPoll
  BY DEF Knows, Kept, ThePoll
<1>2. \A i : Tells(poll[q], down[q], ThePoll, i) => Gives(down[q][i])
  BY DEF Tells, InCopy, IsNews, Gives, ThePoll
<1>3. QED
  BY <1>1, <1>2 DEF Safe, Has, WillHold

\* Who gets a frame besides keeps up, and hears what it mentions.
LEMMA AppendKeepsUp ==
    ASSUME QueuesOK, NEW q \in Peers, NEW m \in Frame, down'[q] = Append(down[q], m),
           poll'[q] = poll[q], early'[q] = early[q]
    PROVE  /\ KeepsUp(q)
           /\ \A f : Hears(poll[q], early[q], down[q], f)'
                         => Hears(poll[q], early[q], down[q], f) \/ Mentions(m, f)
           /\ \A f \in Fact :
                  \/ InCopy(m, f)
                  \/ IsNews(m, f) /\ (Lasting(f) \/ Safe(q, ThePoll))
                  => Safe(q, f)'
<1> DEFINE s == down[q]
           t == down'[q]
<1>1. /\ s \in Seq(Frame) /\ Grows(s, t) /\ Len(t) = Len(s) + 1 /\ t[Len(s) + 1] = m
      /\ Len(s) \in Nat
  BY AppendGrows DEF QueuesOK
<1>2. KeepsUp(q)
  BY <1>1 DEF KeepsUp
<1>3. ASSUME NEW f, Hears(poll'[q], early'[q], t, f)
      PROVE  Hears(poll[q], early[q], s, f) \/ Mentions(m, f)
  <2>1. \A i \in 1..Len(t) : (i \in 1..Len(s) /\ t[i] = s[i]) \/ t[i] = m
    BY <1>1 DEF Grows
  <2>2. QED
    BY <1>3, <2>1 DEF Hears
<1>4. ASSUME NEW f \in Fact,
             InCopy(m, f) \/ (IsNews(m, f) /\ (Lasting(f) \/ Safe(q, ThePoll)))
      PROVE  Has(poll'[q], early'[q], t, f, Len(t) + 1)
  <2>1. Safe(q, ThePoll) => WillHold(poll[q], s, Len(s) + 1)
    BY SafeHolds
  <2>2. WillHold(poll[q], s, Len(s) + 1) => WillHold(poll'[q], t, Len(s) + 1)
    BY <1>1 DEF WillHold, Grows
  <2>3. Tells(poll'[q], t, f, Len(s) + 1)
    BY <1>1, <1>4, <2>1, <2>2 DEF Tells
  <2>4. Len(s) + 1 \in 1..Len(t) /\ Len(s) + 1 < Len(t) + 1
    BY <1>1
  <2>5. QED
    BY <2>3, <2>4 DEF Has
<1>5. \A f \in Fact :
          InCopy(m, f) \/ (IsNews(m, f) /\ (Lasting(f) \/ Safe(q, ThePoll))) => Safe(q, f)'
  BY <1>4 DEF Safe
<1>6. QED
  BY <1>2, <1>3, <1>5

-----------------------------------------------------------------------------
(* A frame is taken *)

LEMMA SafeVote ==
    ASSUME ConstantsOK, TypeOK, QueuesOK, NEW q \in Peers, NEW f \in Fact, f.kind = "vote",
           NEW n \in Nat, f.least <= n,
           HearsVote(poll[q], early[q], down[q], f.of, n)
    PROVE  Safe(q, f)
<1> DEFINE c == poll[q]
           e == early[q]
           s == down[q]
<1>1. f.of \in Peers /\ f.least \in Nat
  BY FactCases
<1>2. VoteOf(c, e, f.of) \in Nat
  BY <1>1, VotesAreCounts
<1>3. s \in Seq(Frame) /\ Len(s) \in Nat
  BY DEF QueuesOK
<1>4. CASE n <= VoteOf(c, e, f.of)
  <2>1. f.least <= VoteOf(c, e, f.of)
    BY <1>1, <1>2, <1>4
  <2>2. Knows(c, e, f)
    BY <2>1 DEF Knows, In, Kept, VoteOf
  <2>3. QED
    BY <2>2 DEF Safe, Has
<1>5. CASE \E i \in 1..Len(s) : IsBallot(s[i], f.of) /\ n <= s[i].vote
  <2>1. PICK i \in 1..Len(s) : IsBallot(s[i], f.of) /\ n <= s[i].vote
    BY <1>5
  <2>2. s[i] \in Frame
    BY <1>3, <2>1, ElementOfSeq
  <2>3. s[i].vote \in Nat
    BY <2>1, <2>2, FrameFields DEF IsBallot, ConstantsOK
  <2>4. f.least <= s[i].vote
    BY <1>1, <2>1, <2>3
  <2>5. Tells(c, s, f, i)
    BY <2>1, <2>4 DEF Tells, IsNews, Lasting
  <2>6. i < Len(s) + 1
    BY <1>3, <2>1
  <2>7. QED
    BY <2>1, <2>5, <2>6 DEF Safe, Has
<1>6. QED
  BY <1>4, <1>5 DEF HearsVote

\* A vote in a copy that is left out for an older one comes as a ballot yet, and comes, or has
\* come, to whom p is to serve before it.
LEMMA OutvotedHears ==
    ASSUME ConstantsOK, TypeOK, QueuesOK, NoneBehind, NonePassed, NEW p \in Room,
           NEW f \in Fact, down[p] # <<>>, InCopy(down[p][1], f),
           Outvoted(poll[p], early[p], down[p][1], f)
    PROVE  \E i \in 1..Len(down[p]) :
               /\ 1 < i /\ Tells(poll[p], down[p], f, i)
               /\ \A j \in 1..Len(down[p]), x \in Room :
                      j <= i /\ OwesAt(down[p], j, x) => Safe(x, f)
<1> DEFINE s == down[p]
           v == f.of
           n == s[1].copy.ballots[v]
           k == VoteOf(poll[p], early[p], v)
<1>1. p \in Peers /\ p \in Able
  BY DEF Room, Able, TypeOK
<1>2. s \in Seq(Frame) /\ Len(s) \in Nat /\ 1 \in 1..Len(s) /\ s[1] \in Frame
  BY <1>1, TailShifts DEF QueuesOK
<1>3. f.kind = "vote" /\ s[1].kind = "sync" /\ 0 < k /\ k < n
  BY DEF Outvoted
<1>4. v \in Peers /\ f.least \in Nat
  BY <1>3, FactCases
<1>5. s[1].copy \in Poll
  BY <1>2, <1>3, FrameFields
<1>6. n \in 0..MaxVotes /\ k \in Nat /\ MaxVotes \in Nat
  <2>1. s[1].copy.ballots \in Votes
    BY <1>5, PollFields
  <2>2. QED
    BY <1>1, <1>4, <2>1, VotesAreCounts DEF Votes, ConstantsOK
<1>7. f.least <= n
  BY <1>3 DEF InCopy, In
<1> HIDE DEF n, k, s, v
<1>8. n \in 1..MaxVotes /\ k \in 1..MaxVotes /\ n \in Nat
  BY <1>3, <1>6
<1>9. Source(poll[p], early[p], s, v, n) /\ Source(poll[p], early[p], s, v, k)
  <2>1. Says(s[1], v) = n
    BY <1>3 DEF Says, n, s
  <2>2. QED
    BY <1>2, <2>1 DEF Source, k, s
<1>10. HearsVote(poll[p], early[p], s, v, n)
  BY <1>1, <1>3, <1>4, <1>8, <1>9 DEF NoneBehind, s
<1>11. PICK i \in 1..Len(s) : IsBallot(s[i], v) /\ n <= s[i].vote
  BY <1>3, <1>6, <1>10 DEF HearsVote, k
<1>12. s[i] \in Frame
  BY <1>2, <1>11, ElementOfSeq
<1>13. s[i].vote \in Nat
  BY <1>11, <1>12, FrameFields DEF IsBallot, ConstantsOK
<1>14. f.least <= s[i].vote /\ 1 < s[i].vote
  BY <1>3, <1>4, <1>6, <1>7, <1>11, <1>13
<1>15. 1 < i
  <2>1. i # 1
    BY <1>3, <1>11 DEF IsBallot
  <2>2. QED
    BY <2>1
<1>16. Tells(poll[p], s, f, i)
  BY <1>3, <1>11, <1>14 DEF Tells, IsNews, Lasting, v
<1>17. ASSUME NEW j \in 1..Len(s), NEW x \in Room, j <= i, OwesAt(s, j, x)
       PROVE  Safe(x, f)
  <2>1. j # i
    BY <1>11, <1>17 DEF OwesAt, IsBallot
  <2>2. j < i /\ x \in Able /\ x \in Peers
    BY <1>17, <2>1 DEF Room, Able, TypeOK
  <2>3. HearsVote(poll[x], early[x], down[x], v, s[i].vote)
    <3>1. Passed(s, x, v, s[i].vote)
      BY <1>11, <1>17, <2>2 DEF Passed
    <3>2. s[i].vote \in 2..MaxVotes
      BY <1>6, <1>11, <1>12, <1>13, <1>14, FrameFields DEF IsBallot
    <3>3. QED
      BY <1>1, <1>4, <2>2, <3>1, <3>2 DEF NonePassed, s
  <2>4. QED
    BY <1>3, <1>13, <1>14, <2>2, <2>3, SafeVote DEF v
<1>18. QED
  BY <1>15, <1>16, <1>17 DEF s

\* What p takes it has taken in, and is as good a server as before.
LEMMA TakenWell ==
    ASSUME ConstantsOK, TypeOK, QueuesOK, NEW p \in Room, down[p] # <<>>,
           Shifts(down[p], down'[p]), \A q \in Room \ {p} : KeepsUp(q),
           Takes(poll[p], early[p], Head(down[p]), poll'[p], early'[p]),
           NoneBehind, NonePassed
    PROVE  /\ \A f \in Fact : Safe(p, f) => Safe(p, f)'
           /\ ServesOn(p)
<1> DEFINE s == down[p]
           t == down'[p]
           c == poll[p]
           e == early[p]
           c2 == poll'[p]
           e2 == early'[p]
<1>1. p \in Peers
  BY DEF Room, TypeOK
<1>2. s \in Seq(Frame) /\ s[1] = Head(s) /\ Len(s) \in Nat /\ 1 <= Len(s)
  BY <1>1, TailShifts DEF QueuesOK
<1>3. Shifts(s, t) /\ Takes(c, e, s[1], c2, e2) /\ Len(t) + 1 = Len(s)
  BY <1>2 DEF Shifts
<1>4. c # NoPoll \/ Gives(s[1]) => c2 # NoPoll
  BY <1>3 DEF Takes
<1>5. ASSUME NEW f \in Fact, Safe(p, f) PROVE Safe(p, f)'
  <2> DEFINE k == Len(s) + 1
  <2>1. k \in Nat /\ 2 <= k /\ k - 1 = Len(t) + 1 /\ Has(c, e, s, f, k)
    BY <1>2, <1>3, <1>5 DEF Safe
  <2>2. CASE InCopy(s[1], f) /\ Outvoted(c, e, s[1], f)
    <3>1. PICK i \in 1..Len(s) : 1 < i /\ Tells(c, s, f, i)
      BY <2>2, OutvotedHears
    <3>2. i < k
      BY <1>2, <3>1
    <3> HIDE DEF k
    <3>3. Has(c2, e2, t, f, k - 1)
      BY <1>3, <1>4, <2>1, <3>1, <3>2, ShiftHas
    <3>4. QED
      BY <2>1, <3>3 DEF Safe
  <2>3. CASE ~(InCopy(s[1], f) /\ Outvoted(c, e, s[1], f))
    <3> HIDE DEF k
    <3>1. Has(c2, e2, t, f, k - 1)
      BY <1>3, <2>1, <2>3, TakeHas
    <3>2. QED
      BY <2>1, <3>1 DEF Safe
  <2>4. QED
    BY <2>2, <2>3
<1>6. ASSUME NEW f \in Fact, NEW q \in Room \ {p}, NEW j \in Nat, 2 <= j, Serves(p, j, q, f),
             j \in 1..Len(s), ~Safe(q, f)'
      PROVE  WillHold(c2, t, j - 1) /\ Has(c2, e2, t, f, j - 1)
  <2>1. OwesAt(s, j, q) /\ WillHold(c, s, j) /\ Has(c, e, s, f, j)
    BY <1>6 DEF Serves
  <2>2. WillHold(c2, t, j - 1)
    BY <1>3, <1>4, <1>6, <2>1, ShiftHas
  <2>3. CASE InCopy(s[1], f) /\ Outvoted(c, e, s[1], f)
    <3>1. PICK i \in 1..Len(s) :
              /\ 1 < i /\ Tells(c, s, f, i)
              /\ \A l \in 1..Len(s), x \in Room : l <= i /\ OwesAt(s, l, x) => Safe(x, f)
      BY <2>3, OutvotedHears
    <3>2. ~Safe(q, f)
      BY <1>6, KeptSafe
    <3>3. i < j
      BY <1>6, <2>1, <3>1, <3>2
    <3>4. Has(c2, e2, t, f, j - 1)
      BY <1>3, <1>4, <1>6, <3>1, <3>3, ShiftHas
    <3>5. QED
      BY <2>2, <3>4
  <2>4. CASE ~(InCopy(s[1], f) /\ Outvoted(c, e, s[1], f))
    BY <1>3, <1>6, <2>1, <2>2, <2>4, TakeHas
  <2>5. QED
    BY <2>3, <2>4
<1>7. QED
  BY <1>5, <1>6 DEF ServesOn

LEMMA ListenCarries ==
    ASSUME ConstantsOK, TypeOK, QueuesOK, NEW p \in Peers, Listens(p),
           Head(down[p]).kind \notin {"peers", "joined"},
           p \notin retracted =>
               Takes(poll[p], early[p], Head(down[p]), poll'[p], early'[p]),
           NoneBehind, NonePassed
    PROVE  Carries /\ \A f \in Fact : HeardOf(f)' => HeardOf(f)
<1>1. /\ Room' = Room /\ Room \subseteq Peers /\ down[p] # <<>>
      /\ Shifts(down[p], down'[p]) /\ down[p][1] = Head(down[p]) /\ 1 \in 1..Len(down[p])
  BY DEF Listens, Room, TypeOK
<1>2. ASSUME NEW q \in Room \ {p}
      PROVE  KeepsUp(q) /\ \A f : Hears(poll[q], early[q], down[q], f)' =
                                      Hears(poll[q], early[q], down[q], f)
  BY <1>1, SameKeepsUp DEF Listens
<1>3. CASE p \in Room
  <2>1. Takes(poll[p], early[p], Head(down[p]), poll'[p], early'[p])
    BY <1>3 DEF Room
  <2>2. ASSUME NEW q \in Room PROVE ~OwesAt(down[p], 1, q)
    BY <1>1 DEF OwesAt
  <2>3. (\A f \in Fact : Safe(p, f) => Safe(p, f)') /\ ServesOn(p)
    BY <1>1, <1>2, <1>3, <2>1, TakenWell
  <2>4. Carries
    <3>1. \A f \in Fact, q \in Room \ {p} : ~Serves(p, 1, q, f)
      BY <2>2 DEF Serves
    <3>2. QED
      BY <1>1, <1>2, <1>3, <2>3, <3>1, TakeCarries
  <2>5. ASSUME NEW f \in Fact, HeardOf(f)' PROVE HeardOf(f)
    <3>1. PICK q \in Room : Hears(poll'[q], early'[q], down'[q], f)
      BY <1>1, <2>5 DEF HeardOf
    <3>2. CASE q = p
      <4>1. Hears(poll[p], early[p], down[p], f)
        BY <1>1, <2>1, <3>1, <3>2, TakeHears
      <4>2. QED
        BY <1>3, <4>1 DEF HeardOf
    <3>3. CASE q # p
      BY <1>2, <3>1, <3>3 DEF HeardOf
    <3>4. QED
      BY <3>2, <3>3
  <2>6. QED
    BY <2>4, <2>5
<1>4. CASE p \notin Room
  <2>1. Carries
    BY <1>1, <1>2, <1>4, GrowCarries
  <2>2. QED
    BY <1>1, <1>2, <1>4, <2>1 DEF HeardOf
<1>5. QED
  BY <1>3, <1>4

\* p takes a frame at which it gives its copy, if it has one, to those the frame names.
Hands(p) ==
    /\ down[p] # <<>> /\ Head(down[p]).kind \in {"peers", "joined"}
    /\ UNCHANGED <<here, poll, retracted, early, missed, late>>
    /\ down'[p] = Tail(down[p])
    /\ \A q \in Peers \ {p} :
           down'[q] = IF q \in here /\ OwesAt(down[p], 1, q) /\ Holds(p)
                      THEN Append(down[q], [kind |-> "sync", from |-> p, copy |-> poll[p]])
                      ELSE down[q]

LEMMA Handing ==
    ASSUME TypeOK, QueuesOK, NEW p \in Peers, OnPeers(p) \/ OnJoined(p)
    PROVE  Hands(p)
<1>1. /\ down[p] # <<>> /\ Head(down[p]).kind \in {"peers", "joined"}
      /\ UNCHANGED <<here, poll, retracted, early, missed, late>>
  BY DEF OnPeers, OnJoined, Gets
<1>2. down[p][1] = Head(down[p])
  BY <1>1, TailShifts DEF QueuesOK
<1>3. CASE OnPeers(p)
  <2>1. Head(down[p]).kind = "peers" /\ Syncs(p, Head(down[p]).peers)
    BY <1>3 DEF OnPeers, Gets
  <2>2. \A q : OwesAt(down[p], 1, q) <=> q \in Head(down[p]).peers
    BY <1>2, <2>1 DEF OwesAt
  <2>3. QED
    BY <1>1, <2>1, <2>2 DEF Hands, Syncs
<1>4. CASE OnJoined(p)
  <2>1. Head(down[p]).kind = "joined" /\ Syncs(p, {Head(down[p]).peer})
    BY <1>4 DEF OnJoined, Gets
  <2>2. \A q : OwesAt(down[p], 1, q) <=> q \in {Head(down[p]).peer}
    BY <1>2, <2>1 DEF OwesAt
  <2>3. QED
    BY <1>1, <2>1, <2>2 DEF Hands, Syncs
<1>5. QED
  BY <1>3, <1>4

LEMMA HandCarries ==
    ASSUME ConstantsOK, TypeOK, QueuesOK, PollInv, NEW p \in Peers, Hands(p),
           NoneBehind, NonePassed
    PROVE  Carries /\ \A f \in Fact : HeardOf(f)' => HeardOf(f)
<1> DEFINE m == [kind |-> "sync", from |-> p, copy |-> poll[p]]
<1>1. /\ Room' = Room /\ Room \subseteq Peers /\ down[p] # <<>> /\ p \in here
      /\ UNCHANGED <<poll, early>> /\ down'[p] = Tail(down[p])
      /\ Head(down[p]).kind \in {"peers", "joined"}
  BY DEF Hands, Room, TypeOK
<1>2. Shifts(down[p], down'[p]) /\ down[p][1] = Head(down[p]) /\ 1 \in 1..Len(down[p])
  BY <1>1, TailShifts DEF QueuesOK
<1>3. ASSUME Holds(p)
      PROVE  /\ m \in Frame /\ p \in Room
             /\ \A f : InCopy(m, f) <=> Knows(poll[p], early[p], f)
             /\ \A f \in Fact : Mentions(m, f) => Hears(poll[p], early[p], down[p], f)
  <2>1. poll[p] \in Poll /\ p \in Room
    BY <1>1, <1>3 DEF TypeOK, Holds, PollInv, RetractedStaysGone, Room
  <2>2. m \in Frame
    BY <2>1, FramesMade
  <2>3. \A f : InCopy(m, f) <=> Knows(poll[p], early[p], f)
    BY <1>3 DEF InCopy, Knows, Holds
  <2>4. \A f : ~IsNews(m, f)
    BY DEF IsNews, IsBallot
  <2> HIDE DEF m
  <2>5. \A f \in Fact : Mentions(m, f) => Hears(poll[p], early[p], down[p], f)
    BY <1>3, <2>3, <2>4 DEF Mentions, Hears, Rumour, Holds
  <2>6. QED
    BY <2>1, <2>2, <2>3, <2>5
<1> HIDE DEF m
<1>4. ASSUME NEW q \in Room \ {p}
      PROVE  /\ KeepsUp(q)
             /\ \A f \in Fact :
                    /\ Hears(poll'[q], early'[q], down'[q], f)
                           => \/ Hears(poll[q], early[q], down[q], f)
                              \/ p \in Room /\ Hears(poll[p], early[p], down[p], f)
                    /\ Serves(p, 1, q, f) => Safe(q, f)'
  <2>1. q \in Peers \ {p} /\ q \in here
    BY <1>1 DEF Room
  <2>2. CASE OwesAt(down[p], 1, q) /\ Holds(p)
    <3>1. down'[q] = Append(down[q], m)
      BY <2>1, <2>2 DEF Hands, m
    <3>2. /\ KeepsUp(q)
          /\ \A f : Hears(poll'[q], early'[q], down'[q], f)
                        => Hears(poll[q], early[q], down[q], f) \/ Mentions(m, f)
          /\ \A f \in Fact : InCopy(m, f) => Safe(q, f)'
      BY <1>1, <1>3, <2>1, <2>2, <3>1, AppendKeepsUp
    <3>3. ASSUME NEW f \in Fact, Serves(p, 1, q, f) PROVE InCopy(m, f)
      <4>1. Has(poll[p], early[p], down[p], f, 1)
        BY <3>3 DEF Serves
      <4>2. Knows(poll[p], early[p], f)
        BY <4>1 DEF Has
      <4>3. QED
        BY <1>3, <2>2, <4>2
    <3>4. QED
      BY <1>3, <2>2, <3>2, <3>3
  <2>3. CASE ~(OwesAt(down[p], 1, q) /\ Holds(p))
    <3>1. down'[q] = down[q]
      BY <2>1, <2>3 DEF Hands
    <3>2. /\ KeepsUp(q)
          /\ \A f : Hears(poll[q], early[q], down[q], f)' = Hears(poll[q], early[q], down[q], f)
      BY <1>1, <2>1, <3>1, SameKeepsUp
    <3>3. \A f : ~Serves(p, 1, q, f)
      <4>1. WillHold(poll[p], down[p], 1) => Holds(p)
        BY DEF WillHold, Holds
      <4>2. QED
        BY <2>3, <4>1 DEF Serves
    <3>4. QED
      BY <3>2, <3>3
  <2>4. QED
    BY <2>2, <2>3
<1>5. Takes(poll[p], early[p], Head(down[p]), poll'[p], early'[p])
  BY <1>1, TakesPlain, VotesAreCounts
<1>6. CASE p \in Room
  <2>1. (\A f \in Fact : Safe(p, f) => Safe(p, f)') /\ ServesOn(p)
    BY <1>1, <1>2, <1>4, <1>5, <1>6, TakenWell
  <2>2. Carries
    BY <1>1, <1>2, <1>4, <1>6, <2>1, TakeCarries
  <2>3. ASSUME NEW f \in Fact, HeardOf(f)' PROVE HeardOf(f)
    <3>1. PICK q \in Room : Hears(poll'[q], early'[q], down'[q], f)
      BY <1>1, <2>3 DEF HeardOf
    <3>2. CASE q = p
      <4>1. Hears(poll[p], early[p], down[p], f)
        BY <1>2, <1>5, <3>1, <3>2, TakeHears
      <4>2. QED
        BY <1>6, <4>1 DEF HeardOf
    <3>3. CASE q # p
      BY <1>4, <3>1, <3>3 DEF HeardOf
    <3>4. QED
      BY <3>2, <3>3
  <2>4. QED
    BY <2>2, <2>3
<1>7. CASE p \notin Room
  <2>1. Carries
    BY <1>1, <1>4, <1>7, GrowCarries
  <2>2. ASSUME NEW f \in Fact, HeardOf(f)' PROVE HeardOf(f)
    <3>1. PICK q \in Room : Hears(poll'[q], early'[q], down'[q], f)
      BY <1>1, <2>2 DEF HeardOf
    <3>2. QED
      BY <1>4, <1>7, <3>1 DEF HeardOf
  <2>3. QED
    BY <2>1, <2>2
<1>8. QED
  BY <1>6, <1>7

-----------------------------------------------------------------------------
(* Who hears of it, from step to step *)

LEMMA ReachesKept ==
    ASSUME Reaches, Carries, Room' \subseteq Room, \A f \in Fact : HeardOf(f)' => HeardOf(f)
    PROVE  Reaches'
<1> SUFFICES ASSUME NEW f \in Fact, HeardOf(f)', NEW q \in Room' PROVE Served(q, f)'
  BY DEF Reaches, Fact
<1>1. q \in Room /\ Served(q, f)
  BY DEF Reaches
<1>2. QED
  BY <1>1 DEF Carries, Served

LEMMA CreatorKept ==
    ASSUME ConstantsOK, PollInv, CreatorServes, Carries, Room' \subseteq Room,
           Creator \in here' /\ Holds(Creator)' => Creator \in here /\ Holds(Creator)
    PROVE  CreatorServes'
<1> SUFFICES ASSUME Creator \in here' /\ Holds(Creator)', NEW q \in Room' \ {Creator}
             PROVE  Safe(q, ThePoll)' \/ OwedBy(Creator, q, ThePoll)'
  BY DEF CreatorServes, ThePoll
<1>1. Creator \in Room
  BY DEF PollInv, RetractedStaysGone, Room
<1>2. ThePoll \in Fact
  BY DEF ThePoll, Fact
<1>3. q \in Room \ {Creator} /\ (Safe(q, ThePoll) \/ OwedBy(Creator, q, ThePoll))
  BY DEF CreatorServes
<1>4. QED
  BY <1>1, <1>2, <1>3 DEF Carries

\* What p gives up by leaving, forgetting or hearing the poll removed was owed to nobody.
LEMMA GoneCarries ==
    ASSUME ConstantsOK, TypeOK, QueuesOK, NEW p \in Peers, ~Unserved(p), Room' = Room \ {p},
           \A q \in Room \ {p} :
               /\ poll'[q] = poll[q] /\ early'[q] = early[q]
               /\ \/ down'[q] = down[q]
                  \/ down'[q] = Append(down[q], [kind |-> "retract", from |-> p])
    PROVE  Carries /\ \A f \in Fact : HeardOf(f)' => HeardOf(f)
<1> DEFINE m == [kind |-> "retract", from |-> p]
<1>1. m \in Frame
  BY FramesMade
<1>2. \A f \in Fact : ~Mentions(m, f)
  BY FactCases DEF Mentions, Plain, IsNews, InCopy, IsBallot
<1> HIDE DEF m
<1>3. ASSUME NEW q \in Room \ {p}
      PROVE  /\ KeepsUp(q)
             /\ \A f \in Fact : Hears(poll'[q], early'[q], down'[q], f)
                                    => Hears(poll[q], early[q], down[q], f)
  <2>1. q \in Peers
    BY DEF Room, TypeOK
  <2>2. CASE down'[q] = down[q]
    BY <2>1, <2>2, SameKeepsUp
  <2>3. CASE down'[q] = Append(down[q], m)
    BY <1>1, <1>2, <2>1, <2>3, AppendKeepsUp
  <2>4. QED
    BY <2>2, <2>3 DEF m
<1>4. Carries
  <2>1. \A q \in Room \cap Room' : KeepsUp(q)
    BY <1>3
  <2>2. QED
    BY <2>1, GrowCarries
<1>5. QED
  BY <1>3, <1>4 DEF HeardOf

\* Who changes its copy says so, and everybody who is to be served by it will get the change.
LEMMA EditReaches ==
    ASSUME ConstantsOK, TypeOK, QueuesOK, PollInv, NEW p \in Peers, Holds(p), p \in here,
           NEW c \in Poll, Keeps(p, c), NEW m \in Frame, m.kind # "sync", Broadcast(p, m),
           UNCHANGED <<here, retracted, early>>,
           \A f \in Fact :
               /\ In(poll[p], f) => In(c, f)
               /\ IsNews(m, f) => In(c, f) /\ (Lasting(f) \/ p = Creator)
               /\ In(c, f) => In(poll[p], f) \/ IsNews(m, f),
           Reaches, CreatorServes
    PROVE  Reaches' /\ CreatorServes'
<1>1. /\ Room' = Room /\ Room \subseteq Peers /\ p \in Room
      /\ poll'[p] = c /\ c # NoPoll /\ poll[p] # NoPoll
      /\ \A q \in Peers \ {p} : poll'[q] = poll[q]
      /\ down'[p] = down[p]
      /\ \A q \in Room \ {p} : down'[q] = Append(down[q], m)
  BY PollFields DEF Room, TypeOK, PollInv, RetractedStaysGone, Keeps, Holds, Broadcast
<1>2. \A f : ~InCopy(m, f)
  BY DEF InCopy
<1>3. /\ KeepsUp(p)
      /\ \A f \in Fact : Hears(poll'[p], early'[p], down'[p], f)
             => Hears(poll[p], early[p], down[p], f) \/ IsNews(m, f)
  <2>1. Grows(down[p], down'[p])
    BY <1>1, SameGrows DEF QueuesOK
  <2>2. \A f \in Fact : Knows(poll[p], early[p], f) => Knows(poll'[p], early'[p], f)
    BY <1>1 DEF Knows
  <2>3. \A f \in Fact : Rumour(poll'[p], early'[p], f)
                            => Rumour(poll[p], early[p], f) \/ IsNews(m, f)
    BY <1>1 DEF Rumour, Knows
  <2>4. QED
    BY <1>1, <2>1, <2>2, <2>3 DEF KeepsUp, Hears
<1>4. ASSUME NEW q \in Room \ {p}
      PROVE  /\ KeepsUp(q)
             /\ \A f : Hears(poll'[q], early'[q], down'[q], f)
                           => Hears(poll[q], early[q], down[q], f) \/ Mentions(m, f)
             /\ \A f \in Fact :
                    IsNews(m, f) /\ (Lasting(f) \/ Safe(q, ThePoll)) => Safe(q, f)'
  BY <1>1, AppendKeepsUp
<1>5. Carries
  BY <1>1, <1>3, <1>4, GrowCarries
<1>6. \A f \in Fact : HeardOf(f)' => HeardOf(f) \/ IsNews(m, f)
  <2> SUFFICES ASSUME NEW f \in Fact, HeardOf(f)', ~IsNews(m, f) PROVE HeardOf(f)
    OBVIOUS
  <2>1. PICK q \in Room : Hears(poll'[q], early'[q], down'[q], f)
    BY <1>1 DEF HeardOf
  <2>2. CASE f.kind = "poll"
    BY <1>1, <2>2 DEF HeardOf, Hears, Rumour
  <2>3. CASE f.kind # "poll"
    <3>1. ~Mentions(m, f)
      BY <1>2, <2>3 DEF Mentions
    <3>2. QED
      BY <1>3, <1>4, <2>1, <3>1 DEF HeardOf
  <2>4. QED
    BY <2>2, <2>3
<1>7. CreatorServes'
  <2>1. Holds(Creator)' => Holds(Creator)
    BY <1>1 DEF Holds, ConstantsOK
  <2>2. Creator \in here' /\ Holds(Creator)' => Creator \in here /\ Holds(Creator)
    BY <2>1
  <2>3. QED
    BY <1>1, <1>5, <2>2, CreatorKept
<1>8. ASSUME NEW f \in Fact, HeardOf(f)', NEW q \in Room PROVE Served(q, f)'
  <2>1. CASE HeardOf(f)
    BY <1>1, <1>5, <1>8, <2>1 DEF Reaches, Served, Carries
  <2>2. CASE IsNews(m, f) /\ q = p
    <3>1. Knows(poll'[p], early'[p], f)
      BY <1>1, <2>2 DEF Knows
    <3>2. QED
      BY <2>2, <3>1 DEF Served, Safe, Has
  <2>3. CASE IsNews(m, f) /\ q # p /\ (Lasting(f) \/ Safe(q, ThePoll))
    BY <1>4, <2>3 DEF Served
  <2>4. CASE IsNews(m, f) /\ q # p /\ p = Creator /\ ~Safe(q, ThePoll)
    <3>1. OwedBy(p, q, ThePoll)
      BY <2>4 DEF CreatorServes
    <3>2. PICK j \in 1..Len(down[p]) : OwesAt(down[p], j, q)
      BY <3>1 DEF OwedBy, Serves
    <3>3. WillHold(poll'[p], down'[p], j) /\ Has(poll'[p], early'[p], down'[p], f, j)
      BY <1>1, <2>4 DEF WillHold, Has, Knows
    <3>4. Serves(p, j, q, f)'
      BY <1>1, <3>2, <3>3 DEF Serves
    <3>5. OwedBy(p, q, f)'
      BY <1>1, <3>4 DEF OwedBy
    <3>6. QED
      BY <1>1, <2>4, <3>5 DEF Served
  <2>5. QED
    BY <1>6, <1>8, <2>1, <2>2, <2>3, <2>4
<1>9. Reaches'
  BY <1>1, <1>8 DEF Reaches, Fact
<1>10. QED
  BY <1>7, <1>9

\* When the creator opens the poll nobody has heard of it, and everybody there is told.
LEMMA CreateReaches ==
    ASSUME ConstantsOK, TypeOK, QueuesOK, Unborn, CreatePoll
    PROVE  Reaches' /\ CreatorServes'
<1> DEFINE m == [kind |-> "open", from |-> Creator]
<1>1. /\ Creator \in Peers /\ Creator \in here /\ Creator \notin retracted
      /\ \A q \in Peers : Blank(q)
      /\ UNCHANGED <<here, retracted, early>>
  BY DEF CreatePoll, ConstantsOK, IsRetracted, Unborn
<1>2. /\ Room' = Room /\ Room \subseteq Peers /\ Creator \in Room
      /\ poll'[Creator] = NewPoll /\ NewPoll # NoPoll
      /\ \A q \in Peers \ {Creator} : poll'[q] = poll[q]
      /\ down'[Creator] = down[Creator]
      /\ \A q \in Room \ {Creator} : down'[q] = Append(down[q], m)
  BY <1>1, NewPollType DEF CreatePoll, Room, TypeOK, Keep, Broadcast
<1>3. m \in Frame /\ m.kind = "open"
  BY <1>1, FramesMade
<1> HIDE DEF m
<1>4. \A f \in Fact : /\ IsNews(m, f) <=> f.kind = "poll"
                      /\ Mentions(m, f) => f.kind = "poll"
  BY <1>3 DEF IsNews, IsBallot, Mentions, InCopy
<1>5. \A f \in Fact : In(NewPoll, f) <=> f.kind = "poll"
  BY NoVotesType, FactCases DEF In, NewPoll
<1>6. ASSUME NEW q \in Room, NEW f \in Fact, Hears(poll[q], early[q], down[q], f) PROVE FALSE
  <2>1. Blank(q)
    BY <1>1, <1>2
  <2>2. ~Rumour(poll[q], early[q], f)
    BY <2>1, NothingKept DEF Blank, Holds, Rumour, Knows
  <2>3. \A i \in 1..Len(down[q]) : ~Mentions(down[q][i], f)
    BY <2>1, FactCases DEF Blank, Mentions, Plain, IsNews, InCopy, IsBallot
  <2>4. QED
    BY <1>6, <2>2, <2>3 DEF Hears
<1>7. ASSUME NEW q \in Room \ {Creator}
      PROVE  /\ \A f : Hears(poll'[q], early'[q], down'[q], f)
                           => Hears(poll[q], early[q], down[q], f) \/ Mentions(m, f)
             /\ \A f \in Fact : f.kind = "poll" => Safe(q, f)'
  <2>1. \A f : f.kind = "poll" => Lasting(f)
    BY DEF Lasting
  <2>2. QED
    BY <1>1, <1>2, <1>3, <1>4, <2>1, AppendKeepsUp
<1>8. ASSUME NEW f \in Fact, NEW q \in Room, Hears(poll'[q], early'[q], down'[q], f)
      PROVE  f.kind = "poll"
  <2>1. CASE q = Creator
    <3>1. ~Hears(poll[q], early[q], down[q], f)
      BY <1>6
    <3>2. QED
      BY <1>2, <1>5, <1>8, <2>1, <3>1 DEF Hears, Rumour, Knows
  <2>2. CASE q # Creator
    BY <1>4, <1>6, <1>7, <1>8, <2>2
  <2>3. QED
    BY <2>1, <2>2
<1>9. ASSUME NEW f \in Fact, f.kind = "poll", NEW q \in Room PROVE Safe(q, f)'
  <2>1. Knows(poll'[Creator], early'[Creator], f)
    BY <1>2, <1>5, <1>9 DEF Knows
  <2>2. Safe(Creator, f)'
    BY <2>1 DEF Safe, Has
  <2>3. QED
    BY <1>7, <1>9, <2>2
<1>10. Reaches'
  BY <1>2, <1>8, <1>9 DEF Reaches, HeardOf, Served, Fact
<1>11. CreatorServes'
  <2>1. ThePoll \in Fact /\ ThePoll.kind = "poll"
    BY DEF ThePoll, Fact
  <2>2. \A q \in Room : Safe(q, ThePoll)'
    BY <1>9, <2>1
  <2>3. QED
    BY <1>2, <2>2 DEF CreatorServes, ThePoll
<1>12. QED
  BY <1>10, <1>11

\* Who serves knows in the end what it says.
LEMMA ServerKnows ==
    ASSUME QueuesOK, NEW r \in Peers, NEW q, NEW f, OwedBy(r, q, f)
    PROVE  WillHold(poll[r], down[r], Len(down[r]) + 1) /\ Safe(r, f)
<1>1. PICK j \in 1..Len(down[r]) : Serves(r, j, q, f)
  BY DEF OwedBy
<1>2. down[r] \in Seq(Frame) /\ Len(down[r]) \in Nat
  BY DEF QueuesOK
<1>3. j \in Nat /\ Len(down[r]) + 1 \in Nat /\ j <= Len(down[r]) + 1
  BY <1>1, <1>2
<1>4. WillHold(poll[r], down[r], j) /\ Has(poll[r], early[r], down[r], f, j)
  BY <1>1 DEF Serves
<1>5. QED
  BY <1>3, <1>4, LaterHas DEF Safe

\* Somebody will have the poll and know what anybody has heard.
LEMMA SomebodyKnows ==
    ASSUME ConstantsOK, TypeOK, QueuesOK, Reaches, NEW f \in Fact, HeardOf(f)
    PROVE  \E r \in Room : WillHold(poll[r], down[r], Len(down[r]) + 1) /\ Safe(r, f)
<1> DEFINE Good(r) == WillHold(poll[r], down[r], Len(down[r]) + 1) /\ Safe(r, f)
<1>1. PICK p \in Room : Hears(poll[p], early[p], down[p], f)
  BY DEF HeardOf
<1>2. Room \subseteq Peers /\ ThePoll \in Fact /\ ThePoll.kind = "poll"
  BY DEF Room, TypeOK, ThePoll, Fact
<1>3. Hears(poll[p], early[p], down[p], ThePoll)
  <2>1. Knows(poll[p], early[p], f) => poll[p] # NoPoll \/ early[p] # NothingEarly
    BY NothingKept DEF Knows
  <2>2. \A i \in 1..Len(down[p]) : Mentions(down[p][i], f) => Mentions(down[p][i], ThePoll)
    BY <1>2, FactCases DEF Mentions, Plain, IsNews, InCopy, IsBallot
  <2>3. Rumour(poll[p], early[p], f) => Rumour(poll[p], early[p], ThePoll)
    BY <1>2, <2>1 DEF Rumour
  <2>4. QED
    BY <1>1, <2>2, <2>3 DEF Hears
<1>4. HeardOf(ThePoll)
  BY <1>3 DEF HeardOf
<1>5. \A q \in Room : Served(q, f) /\ Served(q, ThePoll)
  BY <1>2, <1>4 DEF Reaches
<1>6. \A r, q \in Room : OwedBy(r, q, f) => Good(r)
  BY <1>2, ServerKnows
<1>7. \A r \in Room : Safe(r, f) \/ \E s \in Room : Good(s)
  BY <1>5, <1>6 DEF Served
<1>8. CASE Safe(p, ThePoll)
  BY <1>7, <1>8, SafeHolds
<1>9. CASE ~Safe(p, ThePoll)
  <2>1. PICK r \in Room : OwedBy(r, p, ThePoll)
    BY <1>5, <1>9 DEF Served
  <2>2. WillHold(poll[r], down[r], Len(down[r]) + 1)
    BY <1>2, <2>1, ServerKnows
  <2>3. QED
    BY <1>7, <2>1, <2>2
<1>10. QED
  BY <1>8, <1>9

\* Who comes in serves those who are there and is served by them.
LEMMA JoinReaches ==
    ASSUME ConstantsOK, TypeOK, QueuesOK, PollInv, AwayIdle, Reaches, CreatorServes,
           NEW p \in Peers, Join(p)
    PROVE  Reaches' /\ CreatorServes'
<1> DEFINE k == [kind |-> "joined", peer |-> p]
           n == [kind |-> "peers", peers |-> here]
<1>1. /\ p \notin here /\ here' = here \cup {p} /\ UNCHANGED <<poll, retracted, early>>
      /\ Room \subseteq Room' /\ Room' \subseteq Room \cup {p} /\ p \notin Room
      /\ Room \subseteq Peers /\ Room \subseteq here
      /\ early[p] = NothingEarly
  BY DEF Join, Room, TypeOK, AwayIdle
<1>2. /\ down'[p] = <<n>> /\ n.kind = "peers" /\ n.peers = here
      /\ \A q \in Room : down'[q] = Append(down[q], k)
      /\ k.kind = "joined" /\ k.peer = p /\ k \in Frame
  BY <1>1, FramesMade DEF Join
<1> HIDE DEF k, n
<1>3. \A f \in Fact : ~Mentions(k, f) /\ ~Mentions(n, f)
  BY <1>2, FactCases DEF Mentions, Plain, IsNews, InCopy, IsBallot
<1>4. Len(down'[p]) = 1 /\ down'[p][1] = n
  BY <1>2
<1>5. ASSUME NEW q \in Room
      PROVE  /\ KeepsUp(q)
             /\ \A f \in Fact : Hears(poll'[q], early'[q], down'[q], f)
                                    => Hears(poll[q], early[q], down[q], f)
  BY <1>1, <1>2, <1>3, AppendKeepsUp
<1>6. Carries
  BY <1>1, <1>5, GrowCarries
\* Whom p finds, and what it knows of before.
<1>7. ASSUME Holds(p), NEW f \in Fact, In(poll[p], f), NEW q \in Room
      PROVE  OwedBy(p, q, f)'
  <2>1. OwesAt(down'[p], 1, q)
    BY <1>1, <1>2, <1>4 DEF OwesAt
  <2>2. WillHold(poll'[p], down'[p], 1) /\ Has(poll'[p], early'[p], down'[p], f, 1)
    BY <1>1, <1>7 DEF WillHold, Has, Knows, Holds
  <2>3. QED
    BY <1>4, <2>1, <2>2 DEF OwedBy, Serves
\* Whoever of them will have the poll and know f tells p.
<1>8. ASSUME NEW r \in Room, NEW f \in Fact, Safe(r, f),
             WillHold(poll[r], down[r], Len(down[r]) + 1)
      PROVE  OwedBy(r, p, f)'
  <2> DEFINE s == down[r]
             t == down'[r]
             j == Len(s) + 1
  <2>1. s \in Seq(Frame)
    BY <1>1 DEF QueuesOK
  <2>2. /\ Grows(s, t) /\ Len(t) = Len(s) + 1 /\ t[j] = k /\ j \in Nat /\ j \in 1..Len(t)
    <3>1. t = Append(s, k) /\ k \in Frame /\ Len(s) \in Nat
      BY <1>2, <2>1
    <3>2. Grows(s, t) /\ Len(t) = Len(s) + 1 /\ t[Len(s) + 1] = k
      BY <2>1, <3>1, AppendGrows
    <3>3. QED
      BY <3>1, <3>2
  <2>3. WillHold(poll[r], s, j) /\ Has(poll[r], early[r], s, f, j)
    BY <1>8 DEF Safe
  <2> HIDE DEF s, t, j
  <2>4. WillHold(poll'[r], t, j) /\ Has(poll'[r], early'[r], t, f, j)
    BY <1>1, <2>2, <2>3, GrowHas
  <2>5. OwesAt(t, j, p)
    BY <1>2, <2>2 DEF OwesAt
  <2>6. QED
    BY <2>2, <2>4, <2>5 DEF OwedBy, Serves, t
<1>9. ASSUME NEW f \in Fact, HeardOf(f)'
      PROVE  HeardOf(f) \/ (p \in Room' /\ Holds(p) /\ In(poll[p], f))
  <2>1. PICK q \in Room' : Hears(poll'[q], early'[q], down'[q], f)
    BY <1>9 DEF HeardOf
  <2>2. CASE q \in Room
    BY <1>5, <2>1, <2>2 DEF HeardOf
  <2>3. CASE q \notin Room
    <3>1. q = p /\ p \in Room'
      BY <1>1, <2>3
    <3>2. \A i \in 1..Len(down'[p]) : ~Mentions(down'[p][i], f)
      BY <1>3, <1>4
    <3>3. Rumour(poll[p], NothingEarly, f)
      BY <1>1, <2>1, <3>1, <3>2 DEF Hears
    <3>4. Holds(p) /\ In(poll[p], f)
      BY <3>3, NothingKept DEF Rumour, Knows, Holds, In
    <3>5. QED
      BY <3>1, <3>4
  <2>4. QED
    BY <2>2, <2>3
<1>10. ASSUME NEW f \in Fact, HeardOf(f)', NEW q \in Room' PROVE Served(q, f)'
  <2>1. CASE HeardOf(f) /\ q \in Room
    BY <1>1, <1>6, <2>1 DEF Reaches, Served, Carries
  <2>2. CASE HeardOf(f) /\ q \notin Room
    <3>1. q = p
      BY <1>1, <2>2
    <3>2. PICK r \in Room : WillHold(poll[r], down[r], Len(down[r]) + 1) /\ Safe(r, f)
      BY <2>2, SomebodyKnows
    <3>3. r \in Room' \ {q} /\ OwedBy(r, q, f)'
      BY <1>1, <1>8, <3>1, <3>2
    <3>4. QED
      BY <3>3 DEF Served
  <2>3. CASE p \in Room' /\ Holds(p) /\ In(poll[p], f)
    <3>1. CASE q = p
      <4>1. Knows(poll'[p], early'[p], f)
        BY <1>1, <2>3 DEF Knows, Holds
      <4>2. QED
        BY <3>1, <4>1 DEF Served, Safe, Has
    <3>2. CASE q # p
      <4>1. q \in Room /\ OwedBy(p, q, f)'
        BY <1>1, <1>7, <2>3, <3>2
      <4>2. QED
        BY <2>3, <3>2, <4>1 DEF Served
    <3>3. QED
      BY <3>1, <3>2
  <2>4. QED
    BY <1>9, <1>10, <2>1, <2>2, <2>3
<1>11. Reaches'
  BY <1>10 DEF Reaches, Fact
<1>12. CreatorServes'
  <2> SUFFICES ASSUME Creator \in here', Holds(Creator)', NEW q \in Room' \ {Creator}
               PROVE  Safe(q, ThePoll)' \/ OwedBy(Creator, q, ThePoll)'
    BY DEF CreatorServes, ThePoll
  <2>1. /\ Holds(Creator) /\ ThePoll \in Fact /\ In(poll[Creator], ThePoll)
        /\ Creator \notin retracted /\ Creator \in Peers
    BY <1>1 DEF Holds, ThePoll, Fact, In, ConstantsOK, PollInv, RetractedStaysGone
  <2>2. CASE Creator = p
    BY <1>1, <1>7, <2>1, <2>2
  <2>3. CASE Creator # p
    <3>1. Creator \in Room /\ Creator \in here
      BY <1>1, <2>1, <2>3 DEF Room
    <3>2. CASE q \in Room
      BY <1>1, <1>6, <2>1, <3>1, <3>2 DEF CreatorServes, Carries
    <3>3. CASE q \notin Room
      <4>1. q = p
        BY <1>1, <3>3
      <4>2. Safe(Creator, ThePoll) /\ WillHold(poll[Creator], down[Creator],
                                               Len(down[Creator]) + 1)
        BY <2>1 DEF Safe, Has, Knows, WillHold, Holds
      <4>3. QED
        BY <1>8, <2>1, <3>1, <4>1, <4>2
    <3>4. QED
      BY <3>2, <3>3
  <2>4. QED
    BY <2>2, <2>3
<1>13. QED
  BY <1>11, <1>12

-----------------------------------------------------------------------------
(* What people do to the poll *)

\* p makes its copy c and says so by m.
Edits(p, c, m) ==
    /\ Holds(p) /\ p \in here /\ UNCHANGED <<here, retracted, early>>
    /\ c \in Poll /\ Keeps(p, c) /\ m \in Frame /\ m.kind # "sync" /\ Broadcast(p, m)
    /\ ~Plain(m) /\ (Open(p) \/ m.kind = "lock")
    /\ \A f \in Fact :
           /\ IsNews(m, f) => Lasting(f) \/ p = Creator
           /\ In(c, f) <=> In(poll[p], f) \/ IsNews(m, f)

LEMMA AddingOption ==
    ASSUME ConstantsOK, TypeOK, NEW p \in Peers, NEW o \in Options, AddOption(p, o)
    PROVE  \E c, m : Edits(p, c, m) /\ c.ballots = poll[p].ballots /\ m.kind # "ballot"
                     /\ c.status = poll[p].status /\ c.result = poll[p].result
<1> DEFINE c == [poll[p] EXCEPT !.options = poll[p].options \cup {o}]
           m == [kind |-> "option", from |-> p, option |-> o]
<1>1. Holds(p) /\ poll[p] \in Poll
  BY DEF AddOption, Holds, TypeOK
<1>2. poll[p].options \cup {o} \in SUBSET Options
  BY <1>1, PollFields
<1>3. c \in Poll /\ c.ballots = poll[p].ballots
  BY <1>1, <1>2, PollFields
<1>4. /\ c.options = poll[p].options \cup {o} /\ c.status = poll[p].status
      /\ c.nominationsLocked = poll[p].nominationsLocked /\ c.result = poll[p].result
  BY <1>1 DEF Poll
<1>5. m \in Frame /\ m.kind = "option" /\ m.option = o
  BY FramesMade
<1>6. Keep(p, c) /\ Broadcast(p, m) /\ Move(p) /\ UNCHANGED retracted /\ Open(p)
  BY <1>1 DEF AddOption, Poll
<1> HIDE DEF c, m
<1>7. \A f \in Fact : /\ IsNews(m, f) <=> f.kind = "option" /\ f.option = o
                      /\ In(c, f) <=> In(poll[p], f) \/ (f.kind = "option" /\ f.option = o)
  BY <1>3, <1>4, <1>5 DEF IsNews, IsBallot, In
<1>8. Keeps(p, c)
  BY <1>3, <1>6, KeepReads
<1>9. Edits(p, c, m)
  BY <1>1, <1>3, <1>5, <1>6, <1>7, <1>8 DEF Edits, Move, Plain, Lasting
<1>10. QED
  BY <1>3, <1>4, <1>5, <1>9

LEMMA Locking ==
    ASSUME ConstantsOK, TypeOK, LockNominations
    PROVE  \E c, m : Edits(Creator, c, m) /\ c.ballots = poll[Creator].ballots
                     /\ m.kind # "ballot"
                     /\ c.status = poll[Creator].status /\ c.result = poll[Creator].result
<1> DEFINE p == Creator
           c == [poll[p] EXCEPT !.nominationsLocked = TRUE]
           m == [kind |-> "lock", from |-> p]
<1>1. p \in Peers /\ Holds(p) /\ poll[p] \in Poll
  BY DEF LockNominations, Holds, TypeOK, ConstantsOK
<1>2. c \in Poll /\ c.ballots = poll[p].ballots
  BY <1>1, PollFields
<1>3. /\ c.options = poll[p].options /\ c.status = poll[p].status
      /\ c.nominationsLocked /\ c.result = poll[p].result
  BY <1>1 DEF Poll
<1>4. m \in Frame /\ m.kind = "lock"
  BY <1>1, FramesMade
<1>5. Keep(p, c) /\ Broadcast(p, m) /\ Move(p) /\ UNCHANGED retracted
  BY DEF LockNominations
<1> HIDE DEF c, m
<1>6. \A f \in Fact : /\ IsNews(m, f) <=> f.kind = "lock"
                      /\ In(c, f) <=> In(poll[p], f) \/ f.kind = "lock"
  BY <1>2, <1>3, <1>4, FactCases DEF IsNews, IsBallot, In
<1> HIDE DEF p
<1>7. Keeps(p, c)
  BY <1>1, <1>2, <1>5, KeepReads
<1>8. Edits(p, c, m)
  BY <1>1, <1>2, <1>4, <1>5, <1>6, <1>7 DEF Edits, Move, Plain, p
<1>9. QED
  BY <1>2, <1>3, <1>4, <1>8 DEF p

LEMMA Closing ==
    ASSUME ConstantsOK, TypeOK, ClosePoll
    PROVE  \E c, m : Edits(Creator, c, m) /\ c.ballots = poll[Creator].ballots
                     /\ m.kind # "ballot"
                     /\ c.status = "closed" /\ c.result = c.ballots
<1> DEFINE p == Creator
           c == Close(poll[p])
           m == [kind |-> "close", from |-> p]
<1>1. p \in Peers /\ Holds(p) /\ poll[p] \in Poll
  BY DEF ClosePoll, Holds, TypeOK, ConstantsOK
<1>2. c \in Poll
  BY <1>1, PollFields
<1>3. /\ c.options = poll[p].options /\ c.status = "closed" /\ c.result = c.ballots
      /\ c.nominationsLocked = poll[p].nominationsLocked /\ c.ballots = poll[p].ballots
  BY <1>1, CloseFields
<1>4. m \in Frame /\ m.kind = "close"
  BY <1>1, FramesMade
<1>5. Keep(p, c) /\ Broadcast(p, m) /\ Move(p) /\ UNCHANGED retracted /\ Open(p)
  BY DEF ClosePoll
<1> HIDE DEF c, m
<1>6. \A f \in Fact : /\ IsNews(m, f) <=> f.kind = "close"
                      /\ In(c, f) <=> In(poll[p], f) \/ f.kind = "close"
  BY <1>2, <1>3, <1>4, FactCases DEF IsNews, IsBallot, In
<1> HIDE DEF p
<1>7. Keeps(p, c)
  BY <1>1, <1>2, <1>5, KeepReads
<1>8. Edits(p, c, m)
  BY <1>1, <1>2, <1>4, <1>5, <1>6, <1>7 DEF Edits, Move, Plain, p
<1>9. QED
  BY <1>2, <1>3, <1>4, <1>8 DEF p

LEMMA Voting ==
    ASSUME ConstantsOK, TypeOK, NEW p \in Peers, CastVote(p)
    PROVE  \E c, m :
               /\ Edits(p, c, m) /\ IsBallot(m, p) /\ m.vote = poll[p].ballots[p] + 1
               /\ \A v \in Peers : c.ballots[v] = IF v = p THEN m.vote ELSE poll[p].ballots[v]
               /\ c.status = poll[p].status /\ c.result = poll[p].result
<1> DEFINE n == poll[p].ballots[p] + 1
           b == [poll[p].ballots EXCEPT ![p] = n]
           c == [poll[p] EXCEPT !.ballots = b]
           m == [kind |-> "ballot", from |-> p, vote |-> n]
<1>1. /\ Holds(p) /\ poll[p] \in Poll /\ poll[p].ballots \in Votes
      /\ poll[p].ballots[p] \in Nat /\ poll[p].ballots[p] < MaxVotes
      /\ \A v \in Peers : poll[p].ballots[v] \in Nat
  BY PollFields DEF CastVote, Holds, TypeOK
<1>2. n \in 0..MaxVotes /\ n \in Nat
  BY <1>1 DEF ConstantsOK
<1>3. b \in Votes /\ \A v \in Peers : b[v] = IF v = p THEN n ELSE poll[p].ballots[v]
  BY <1>1, <1>2 DEF Votes
<1>4. Keep(p, c) /\ Broadcast(p, m) /\ Move(p) /\ UNCHANGED retracted /\ Open(p)
  BY <1>1 DEF CastVote, Poll, Votes
<1> HIDE DEF b
<1>5. /\ c \in Poll /\ c.ballots = b /\ c.options = poll[p].options
      /\ c.status = poll[p].status /\ c.nominationsLocked = poll[p].nominationsLocked
      /\ c.result = poll[p].result
  BY <1>1, <1>3 DEF Poll
<1>6. m \in Frame /\ m.kind = "ballot" /\ m.from = p /\ m.vote = n
  BY <1>2, FramesMade
<1>7. Keeps(p, c)
  BY <1>4, <1>5, KeepReads
<1>0. n = poll[p].ballots[p] + 1
  OBVIOUS
<1> HIDE DEF c, m, n
<1>8. ASSUME NEW f \in Fact
      PROVE  /\ IsNews(m, f) => Lasting(f)
             /\ In(c, f) <=> In(poll[p], f) \/ IsNews(m, f)
  <2>1. IsNews(m, f) <=> f.kind = "vote" /\ f.of = p /\ f.least <= n
    BY <1>6 DEF IsNews, IsBallot
  <2>2. CASE f.kind = "vote"
    <3>1. f.of \in Peers /\ f.least \in Nat
      BY <2>2, FactCases
    <3>2. In(c, f) <=> f.least <= b[f.of]
      BY <1>5, <2>2 DEF In
    <3>3. In(poll[p], f) <=> f.least <= poll[p].ballots[f.of]
      BY <2>2 DEF In
    <3>4. CASE f.of = p
      BY <1>0, <1>1, <1>3, <2>1, <2>2, <3>1, <3>2, <3>3, <3>4 DEF Lasting
    <3>5. CASE f.of # p
      BY <1>3, <2>1, <2>2, <3>1, <3>2, <3>3, <3>5 DEF Lasting
    <3>6. QED
      BY <3>4, <3>5
  <2>3. CASE f.kind # "vote"
    BY <1>5, <2>1, <2>3 DEF In
  <2>4. QED
    BY <2>2, <2>3
<1>9. Edits(p, c, m)
  BY <1>1, <1>4, <1>5, <1>6, <1>7, <1>8 DEF Edits, Move, Plain
<1>10. IsBallot(m, p)
  BY <1>6 DEF IsBallot
<1>11. QED
  BY <1>0, <1>3, <1>5, <1>6, <1>9, <1>10

LEMMA EditCarries ==
    ASSUME ConstantsOK, TypeOK, QueuesOK, PollInv, NEW p \in Peers, NEW c, NEW m,
           Edits(p, c, m), Reaches, CreatorServes
    PROVE  Reaches' /\ CreatorServes'
BY EditReaches DEF Edits

-----------------------------------------------------------------------------
(* The steps, by what they do to who hears of it *)

TakesIn(p) ==
    \/ OnOpen(p) \/ OnOption(p) \/ OnBallot(p) \/ OnLock(p) \/ OnClose(p) \/ OnSync(p)
    \/ OnRetract(p) /\ ~Holds(p)

\* p gives up the poll for good.
Goes(p) ==
    /\ Holds(p) /\ p \in here /\ retracted' = retracted \cup {p} /\ Keeps(p, NoPoll)
    /\ UNCHANGED <<here, early>> /\ (~missed' => ~Unserved(p))
    /\ \A q \in Peers \ {p} :
           \/ down'[q] = down[q]
           \/ down'[q] = Append(down[q], [kind |-> "retract", from |-> p])
    /\ down'[p] = down[p] \/ (down[p] # <<>> /\ down'[p] = Tail(down[p]))

LEMMA Going ==
    ASSUME ConstantsOK, TypeOK, QueuesOK, NEW p \in Peers,
           ForgetPoll(p) \/ (OnRetract(p) /\ Holds(p))
    PROVE  Goes(p)
<1>1. CASE ForgetPoll(p)
  <2>1. Holds(p) /\ p \in here /\ retracted' = retracted \cup {p} /\ UNCHANGED <<here, early>>
    BY <1>1 DEF ForgetPoll, Move
  <2>2. Keeps(p, NoPoll)
    BY <1>1, KeepReads DEF ForgetPoll
  <2>3. ~missed' => ~Unserved(p)
    BY <1>1 DEF ForgetPoll
  <2>4. /\ down'[p] = down[p]
        /\ \A q \in Peers \ {p} :
               \/ down'[q] = down[q]
               \/ down'[q] = Append(down[q], [kind |-> "retract", from |-> p])
    BY <1>1 DEF ForgetPoll, Broadcast
  <2>5. QED
    BY <2>1, <2>2, <2>3, <2>4 DEF Goes
<1>2. CASE OnRetract(p) /\ Holds(p)
  <2>1. /\ Holds(p) /\ retracted' = retracted \cup {p} /\ UNCHANGED <<here, early>>
        /\ down[p] # <<>> /\ Taken(p)
    BY <1>2 DEF OnRetract, Gets
  <2>2. p \in here
    BY <2>1 DEF TypeOK
  <2>3. Keeps(p, NoPoll)
    BY <1>2, KeepReads DEF OnRetract
  <2>4. ~missed' => ~Unserved(p)
    BY <1>2 DEF OnRetract
  <2>5. down'[p] = Tail(down[p]) /\ \A q \in Peers \ {p} : down'[q] = down[q]
    BY <2>1, HeardQueues
  <2>6. QED
    BY <2>1, <2>2, <2>3, <2>4, <2>5 DEF Goes
<1>3. QED
  BY <1>1, <1>2

LEMMA StepCases ==
    ASSUME ConstantsOK, TypeOK, QueuesOK, Next
    PROVE  \/ CreatePoll
           \/ \E p \in Peers : \E c, m :
                  /\ Edits(p, c, m) /\ c.ballots = poll[p].ballots /\ m.kind # "ballot"
                  /\ \/ c.status = poll[p].status /\ c.result = poll[p].result
                     \/ c.status = "closed" /\ c.result = c.ballots
           \/ \E p \in Peers : \/ CastVote(p) \/ Join(p) \/ Leave(p) \/ Hands(p)
                               \/ Goes(p) \/ TakesIn(p)
<1>1. ASSUME NEW p \in Peers, NEW o \in Options, AddOption(p, o)
      PROVE  \E c, m : /\ Edits(p, c, m) /\ c.ballots = poll[p].ballots /\ m.kind # "ballot"
                       /\ c.status = poll[p].status /\ c.result = poll[p].result
  BY <1>1, AddingOption
<1>2. LockNominations \/ ClosePoll =>
          \E c, m : /\ Edits(Creator, c, m) /\ c.ballots = poll[Creator].ballots
                    /\ m.kind # "ballot"
                    /\ \/ c.status = poll[Creator].status /\ c.result = poll[Creator].result
                       \/ c.status = "closed" /\ c.result = c.ballots
  BY Locking, Closing
<1>3. \A p \in Peers : /\ OnPeers(p) \/ OnJoined(p) => Hands(p)
                       /\ ForgetPoll(p) => Goes(p)
                       /\ OnRetract(p) => Goes(p) \/ TakesIn(p)
  BY Handing, Going DEF TakesIn
<1>4. Creator \in Peers
  BY DEF ConstantsOK
<1>5. \A p \in Peers : OnOpen(p) \/ OnOption(p) \/ OnBallot(p) \/ OnLock(p) \/ OnClose(p)
                           \/ OnSync(p) => TakesIn(p)
  BY DEF TakesIn
<1>6. QED
  BY <1>1, <1>2, <1>3, <1>4, <1>5 DEF Next

\* What went wrong stays so.
LEMMA HistoryGrows ==
    ASSUME ConstantsOK, TypeOK, QueuesOK, Next
    PROVE  (~missed' => ~missed) /\ (~late' => ~late)
<1> DEFINE Goal == (~missed' => ~missed) /\ (~late' => ~late)
<1>1. CASE CreatePoll
  BY <1>1 DEF CreatePoll
<1>2. CASE LockNominations
  BY <1>2 DEF LockNominations, Move
<1>3. CASE ClosePoll
  BY <1>3 DEF ClosePoll, Move
<1>4. ASSUME NEW p \in Peers PROVE Join(p) => Goal
  BY DEF Join
<1>5. ASSUME NEW p \in Peers, Leave(p) PROVE Goal
  <2>1. (missed \/ Unserved(p)) => missed'
    BY <1>5 DEF Leave
  <2>2. late' = late
    BY <1>5 DEF Leave
  <2>3. QED
    BY <2>1, <2>2
<1>6. ASSUME NEW p \in Peers, OnPeers(p) \/ OnJoined(p) PROVE Goal
  BY <1>6, Handing DEF Hands
<1>7. ASSUME NEW p \in Peers, CastVote(p) PROVE Goal
  <2>1. missed => missed'
    BY <1>7 DEF CastVote
  <2>2. late' = late
    BY <1>7 DEF CastVote, Move
  <2>3. QED
    BY <2>1, <2>2
<1>8. ASSUME NEW p \in Peers, ForgetPoll(p) PROVE Goal
  <2>1. (missed \/ Unserved(p)) => missed'
    BY <1>8 DEF ForgetPoll
  <2>2. late' = late
    BY <1>8 DEF ForgetPoll, Move
  <2>3. QED
    BY <2>1, <2>2
<1>9. ASSUME NEW p \in Peers, NEW o \in Options PROVE AddOption(p, o) => Goal
  BY DEF AddOption, Move
<1>10. ASSUME NEW p \in Peers, TakesIn(p) PROVE Goal
  BY <1>10, Listening DEF TakesIn, Listens
<1>11. ASSUME NEW p \in Peers, OnRetract(p) PROVE Goal
  <2>1. CASE Holds(p)
    <3>1. (missed \/ Unserved(p)) => missed'
      BY <1>11, <2>1 DEF OnRetract
    <3>2. late' = late
      BY <1>11 DEF OnRetract
    <3>3. QED
      BY <3>1, <3>2
  <2>2. CASE ~Holds(p)
    BY <1>10, <1>11, <2>2 DEF TakesIn
  <2>3. QED
    BY <2>1, <2>2
<1> HIDE DEF Goal
<1>12. ASSUME NEW p \in Peers,
              OnOpen(p) \/ OnOption(p) \/ OnBallot(p) \/ OnLock(p) \/ OnClose(p) \/ OnSync(p)
       PROVE  Goal
  BY <1>10, <1>12 DEF TakesIn
<1>13. Goal
  BY <1>1, <1>2, <1>3, <1>4, <1>5, <1>6, <1>7, <1>8, <1>9, <1>11, <1>12 DEF Next, Goal
<1>14. QED
  BY <1>13 DEF Goal

\* The poll is lost to who removes it, and to nobody else.
LEMMA HoldsOn ==
    ASSUME ConstantsOK, TypeOK, QueuesOK, PollInv, ~late', Next
    PROVE  /\ retracted \subseteq retracted'
           /\ \A q \in Peers : Holds(q) => Holds(q)' \/ q \in retracted'
<1> DEFINE Goal == /\ retracted \subseteq retracted'
                   /\ \A q \in Peers : Holds(q) => Holds(q)' \/ q \in retracted'
<1>1. CASE CreatePoll
  <2>1. Keeps(Creator, NewPoll) /\ NewPoll # NoPoll
    BY <1>1, NewPollType, KeepReads DEF CreatePoll, ConstantsOK
  <2>2. QED
    BY <1>1, <2>1 DEF CreatePoll, Keeps, Holds
<1>2. ASSUME NEW p \in Peers, NEW c, NEW m, Edits(p, c, m) PROVE Goal
  <2>1. c # NoPoll
    BY <1>2, PollFields DEF Edits
  <2>2. QED
    BY <1>2, <2>1 DEF Edits, Keeps, Holds
<1>3. ASSUME NEW p \in Peers, CastVote(p) PROVE Goal
  BY <1>2, <1>3, Voting
<1>4. ASSUME NEW p \in Peers, Join(p) \/ Leave(p) \/ Hands(p) PROVE Goal
  BY <1>4 DEF Join, Leave, Hands, Holds
<1>5. ASSUME NEW p \in Peers, Goes(p) PROVE Goal
  BY <1>5 DEF Goes, Keeps, Holds
<1>6. ASSUME NEW p \in Peers, TakesIn(p) PROVE Goal
  <2>1. Listens(p)
    BY <1>6, Listening DEF TakesIn
  <2>2. p \notin retracted => Takes(poll[p], early[p], Head(down[p]), poll'[p], early'[p])
    BY <1>6, Taking DEF TakesIn
  <2>3. Holds(p) => poll'[p] # NoPoll
    BY <2>2 DEF PollInv, RetractedStaysGone, Takes, Holds
  <2>4. QED
    BY <2>1, <2>3 DEF Listens, Holds
<1>7. QED
  BY <1>1, <1>2, <1>3, <1>4, <1>5, <1>6, StepCases

LEMMA AwayIdleKept ==
    ASSUME ConstantsOK, TypeOK, QueuesOK, AwayIdle, Next
    PROVE  AwayIdle'
<1>1. CASE CreatePoll
  BY <1>1 DEF CreatePoll, AwayIdle
<1>2. ASSUME NEW p \in Peers, NEW c, NEW m, Edits(p, c, m) PROVE AwayIdle'
  BY <1>2 DEF Edits, AwayIdle
<1>3. ASSUME NEW p \in Peers, CastVote(p) PROVE AwayIdle'
  BY <1>2, <1>3, Voting
<1>4. ASSUME NEW p \in Peers, Join(p) \/ Hands(p) \/ Goes(p) PROVE AwayIdle'
  BY <1>4 DEF Join, Hands, Goes, AwayIdle
<1>5. ASSUME NEW p \in Peers, Leave(p) PROVE AwayIdle'
  <2>1. /\ here' = here \ {p} /\ early'[p] = NothingEarly
        /\ \A q \in Peers \ {p} : early'[q] = early[q]
    BY <1>5 DEF Leave, TypeOK
  <2>2. QED
    BY <2>1 DEF AwayIdle
<1>6. ASSUME NEW p \in Peers, TakesIn(p) PROVE AwayIdle'
  <2>1. Listens(p)
    BY <1>6, Listening DEF TakesIn
  <2>2. p \in here
    BY <2>1 DEF Listens, TypeOK
  <2>3. QED
    BY <2>1, <2>2 DEF Listens, AwayIdle
<1>7. QED
  BY <1>1, <1>2, <1>3, <1>4, <1>5, <1>6, StepCases

\* Before there is a poll frames make nothing of it.
LEMMA UnbornKept ==
    ASSUME ConstantsOK, TypeOK, QueuesOK, PollInv, ~late', Unborn, Next
    PROVE  Unborn'
<1> SUFFICES ASSUME ~Holds(Creator)', Creator \notin retracted' PROVE \A q \in Peers : Blank(q)'
  BY DEF Unborn
<1>1. /\ \A q \in Peers : Blank(q) /\ down[q] \in Seq(Frame)
      /\ ~Holds(Creator) /\ Creator \in Peers
  BY HoldsOn DEF Unborn, ConstantsOK, QueuesOK
<1>2. \A q \in Peers : ~Holds(q) /\ early[q] = NothingEarly
  BY <1>1 DEF Blank
<1>3. ASSUME NEW q \in Peers, poll'[q] = poll[q], early'[q] = early[q],
             \/ down'[q] = down[q]
             \/ down[q] # <<>> /\ down'[q] = Tail(down[q])
             \/ \E m \in Frame : Plain(m) /\ (down'[q] = Append(down[q], m) \/ down'[q] = <<m>>)
      PROVE  Blank(q)'
  <2>1. \A i \in 1..Len(down[q]) : Plain(down[q][i])
    BY <1>1 DEF Blank
  <2>2. CASE down[q] # <<>> /\ down'[q] = Tail(down[q])
    <3>1. Shifts(down[q], down'[q])
      BY <1>1, <2>2, TailShifts
    <3>2. \A i \in 1..Len(down'[q]) : i + 1 \in 1..Len(down[q]) /\ down'[q][i] = down[q][i + 1]
      BY <3>1 DEF Shifts
    <3>3. QED
      BY <1>2, <1>3, <2>1, <3>2 DEF Blank, Holds
  <2>3. ASSUME NEW m \in Frame, Plain(m), down'[q] = Append(down[q], m) PROVE Blank(q)'
    <3>1. /\ Grows(down[q], down'[q]) /\ Len(down'[q]) = Len(down[q]) + 1
          /\ down'[q][Len(down[q]) + 1] = m
      BY <1>1, <2>3, AppendGrows
    <3>2. \A i \in 1..Len(down'[q]) : \/ i \in 1..Len(down[q]) /\ down'[q][i] = down[q][i]
                                      \/ down'[q][i] = m
      BY <3>1 DEF Grows
    <3>3. QED
      BY <1>2, <1>3, <2>1, <2>3, <3>2 DEF Blank, Holds
  <2>4. ASSUME NEW m \in Frame, Plain(m), down'[q] = <<m>> PROVE Blank(q)'
    <3>1. \A i \in 1..Len(down'[q]) : down'[q][i] = m
      BY <2>4
    <3>2. QED
      BY <1>2, <1>3, <2>4, <3>1 DEF Blank, Holds
  <2>5. CASE down'[q] = down[q]
    BY <1>2, <1>3, <2>1, <2>5 DEF Blank, Holds
  <2>6. QED
    BY <1>3, <2>2, <2>3, <2>4, <2>5
<1>4. ~CreatePoll
  <2>1. CreatePoll => poll'[Creator] = NewPoll /\ NewPoll # NoPoll
    BY <1>1, NewPollType DEF CreatePoll, Keep, TypeOK
  <2>2. QED
    BY <2>1 DEF Holds
<1>5. ASSUME NEW p \in Peers, NEW c, NEW m, Edits(p, c, m) PROVE FALSE
  BY <1>2, <1>5 DEF Edits
<1>6. ASSUME NEW p \in Peers, CastVote(p) \/ Goes(p) PROVE FALSE
  BY <1>2, <1>6 DEF CastVote, Goes
<1>7. ASSUME NEW p \in Peers, Join(p), NEW q \in Peers PROVE Blank(q)'
  <2> DEFINE k == [kind |-> "joined", peer |-> p]
             n == [kind |-> "peers", peers |-> here]
  <2>1. k \in Frame /\ n \in Frame /\ Plain(k) /\ Plain(n)
    BY FramesMade DEF Plain, TypeOK
  <2>2. \/ down'[q] = down[q] \/ down'[q] = Append(down[q], k) \/ down'[q] = <<n>>
    BY <1>7 DEF Join
  <2>3. poll' = poll /\ early' = early
    BY <1>7 DEF Join
  <2> HIDE DEF k, n
  <2>4. QED
    BY <1>3, <2>1, <2>2, <2>3
<1>8. ASSUME NEW p \in Peers, Leave(p), NEW q \in Peers PROVE Blank(q)'
  <2>1. CASE q = p
    <3>1. poll' = poll /\ early'[p] = NothingEarly /\ down'[p] = <<>>
      BY <1>8 DEF Leave, TypeOK, QueuesOK
    <3>2. \A i \in 1..Len(down'[p]) : FALSE
      BY <3>1
    <3>3. QED
      BY <1>2, <2>1, <3>1, <3>2 DEF Blank, Holds
  <2>2. CASE q # p
    BY <1>3, <1>8, <2>2 DEF Leave, TypeOK, QueuesOK
  <2>3. QED
    BY <2>1, <2>2
<1>9. ASSUME NEW p \in Peers, Hands(p), NEW q \in Peers PROVE Blank(q)'
  <2>1. /\ poll' = poll /\ early' = early /\ down[p] # <<>> /\ down'[p] = Tail(down[p])
        /\ q # p => down'[q] = down[q]
    BY <1>2, <1>9 DEF Hands
  <2>2. QED
    BY <1>3, <2>1
<1>10. ASSUME NEW p \in Peers, TakesIn(p), NEW q \in Peers PROVE Blank(q)'
  <2>1. Listens(p)
    BY <1>10, Listening DEF TakesIn
  <2>2. Plain(Head(down[p]))
    BY <1>1, <2>1 DEF Listens, Blank
  <2>3. OnRetract(p) /\ ~Holds(p)
    BY <1>10, <2>2 DEF TakesIn, Plain, OnOpen, OnOption, OnBallot, OnLock, OnClose, OnSync, Gets
  <2>4. /\ poll' = poll /\ early' = early /\ down[p] # <<>> /\ down'[p] = Tail(down[p])
        /\ q # p => down'[q] = down[q]
    <3>1. poll' = poll /\ early' = early /\ down[p] # <<>> /\ Taken(p) /\ UNCHANGED here
      BY <2>3 DEF OnRetract, Gets
    <3>2. QED
      BY <3>1, HeardQueues
  <2>5. QED
    BY <1>3, <2>4
<1>11. QED
  BY <1>4, <1>5, <1>6, <1>7, <1>8, <1>9, <1>10, StepCases

\* Everybody will still know of it, or be served by who does.
LEMMA ReachesOn ==
    ASSUME ConstantsOK, TypeOK, QueuesOK, PollInv, PollInv', AgreeInv, ~missed', ~late', Next
    PROVE  Reaches' /\ CreatorServes'
<1> DEFINE Goal == Reaches' /\ CreatorServes'
<1>1. /\ Reaches /\ CreatorServes /\ NoneBehind /\ NonePassed /\ Unborn /\ AwayIdle
  BY HistoryGrows DEF AgreeInv
<1>2. ASSUME Carries /\ \A f \in Fact : HeardOf(f)' => HeardOf(f),
             here' \subseteq here, Room' \subseteq Room, Holds(Creator)' => Holds(Creator)
      PROVE  Goal
  BY <1>1, <1>2, ReachesKept, CreatorKept
<1>3. CASE CreatePoll
  BY <1>1, <1>3, CreateReaches
<1>4. ASSUME NEW p \in Peers, NEW c, NEW m, Edits(p, c, m) PROVE Goal
  BY <1>1, <1>4, EditCarries
<1>5. ASSUME NEW p \in Peers, CastVote(p) PROVE Goal
  BY <1>4, <1>5, Voting
<1>6. ASSUME NEW p \in Peers, Join(p) PROVE Goal
  BY <1>1, <1>6, JoinReaches
<1>7. ASSUME NEW p \in Peers, Leave(p) PROVE Goal
  <2>1. /\ ~Unserved(p) /\ here' = here \ {p} /\ poll' = poll /\ retracted' = retracted
        /\ \A q \in Peers \ {p} : early'[q] = early[q] /\ down'[q] = down[q]
    BY <1>7 DEF Leave, TypeOK, QueuesOK
  <2>2. Room' = Room \ {p} /\ Room \subseteq Peers
    BY <2>1 DEF Room, TypeOK
  <2>3. Carries /\ \A f \in Fact : HeardOf(f)' => HeardOf(f)
    BY <2>1, <2>2, GoneCarries
  <2>4. QED
    BY <1>2, <2>1, <2>2, <2>3 DEF Holds
<1>8. ASSUME NEW p \in Peers, Hands(p) PROVE Goal
  <2>1. Carries /\ \A f \in Fact : HeardOf(f)' => HeardOf(f)
    BY <1>1, <1>8, HandCarries
  <2>2. QED
    BY <1>2, <1>8, <2>1 DEF Hands, Room, Holds
<1>9. ASSUME NEW p \in Peers, Goes(p) PROVE Goal
  <2>1. /\ ~Unserved(p) /\ here' = here /\ early' = early /\ retracted' = retracted \cup {p}
        /\ poll'[p] = NoPoll /\ \A q \in Peers \ {p} : poll'[q] = poll[q]
    BY <1>9 DEF Goes, Keeps
  <2>2. Room' = Room \ {p} /\ Room \subseteq Peers
    BY <2>1 DEF Room, TypeOK
  <2>3. Carries /\ \A f \in Fact : HeardOf(f)' => HeardOf(f)
    BY <1>9, <2>1, <2>2, GoneCarries DEF Goes
  <2>4. Holds(Creator)' => Holds(Creator)
    BY <2>1 DEF Holds, ConstantsOK
  <2>5. QED
    BY <1>2, <2>1, <2>2, <2>3, <2>4
<1>10. ASSUME NEW p \in Peers, TakesIn(p) PROVE Goal
  <2>1. Listens(p)
    BY <1>10, Listening DEF TakesIn
  <2>2. p \notin retracted => Takes(poll[p], early[p], Head(down[p]), poll'[p], early'[p])
    BY <1>10, Taking DEF TakesIn
  <2>3. Head(down[p]).kind \notin {"peers", "joined"}
    BY <1>10 DEF TakesIn, OnOpen, OnOption, OnBallot, OnLock, OnClose, OnSync, OnRetract, Gets
  <2>4. Carries /\ \A f \in Fact : HeardOf(f)' => HeardOf(f)
    BY <1>1, <2>1, <2>2, <2>3, ListenCarries
  <2>5. Holds(Creator)' => Holds(Creator)
    <3>1. CASE p # Creator
      BY <2>1, <3>1 DEF Listens, Holds, ConstantsOK
    <3>2. CASE p = Creator /\ Creator \in retracted
      BY <2>1, <3>2 DEF Listens, PollInv, RetractedStaysGone
    <3>3. CASE p = Creator /\ ~Holds(Creator) /\ Creator \notin retracted
      <4>1. Blank(p)
        BY <1>1, <3>3 DEF Unborn
      <4>2. Plain(Head(down[p]))
        BY <2>1, <4>1 DEF Listens, Blank
      <4>3. OnRetract(p) /\ ~Holds(p)
        BY <1>10, <4>2
        DEF TakesIn, Plain, OnOpen, OnOption, OnBallot, OnLock, OnClose, OnSync, Gets
      <4>4. QED
        BY <3>3, <4>3 DEF OnRetract, Holds
    <3>4. QED
      BY <3>1, <3>2, <3>3
  <2>6. QED
    BY <1>2, <2>1, <2>4, <2>5 DEF Listens, Room
<1>11. QED
  BY <1>3, <1>4, <1>5, <1>6, <1>7, <1>8, <1>9, <1>10, StepCases

-----------------------------------------------------------------------------
(* Results *)

SoundIn(s) == \A i \in 1..Len(s) : s[i].kind = "sync" => Sound(s[i].copy)

LEMMA SoundQueues ==
    ASSUME NEW s \in Seq(Frame), SoundIn(s)
    PROVE  /\ s # <<>> => SoundIn(Tail(s))
           /\ s # <<>> /\ Head(s).kind = "sync" => Sound(Head(s).copy)
           /\ \A m \in Frame : (m.kind = "sync" => Sound(m.copy)) =>
                  SoundIn(Append(s, m)) /\ SoundIn(<<m>>)
           /\ SoundIn(<<>>)
<1>1. ASSUME s # <<>> PROVE SoundIn(Tail(s)) /\ (Head(s).kind = "sync" => Sound(Head(s).copy))
  <2>1. Shifts(s, Tail(s)) /\ Head(s) = s[1] /\ 1 \in 1..Len(s)
    BY <1>1, TailShifts
  <2>2. \A i \in 1..Len(Tail(s)) : i + 1 \in 1..Len(s) /\ Tail(s)[i] = s[i + 1]
    BY <2>1 DEF Shifts
  <2>3. SoundIn(Tail(s))
    BY <2>2 DEF SoundIn
  <2>4. QED
    BY <2>1, <2>3 DEF SoundIn
<1>2. ASSUME NEW m \in Frame, m.kind = "sync" => Sound(m.copy)
      PROVE  SoundIn(Append(s, m)) /\ SoundIn(<<m>>)
  <2>1. /\ Grows(s, Append(s, m)) /\ Len(Append(s, m)) = Len(s) + 1
        /\ Append(s, m)[Len(s) + 1] = m
    BY AppendGrows
  <2>2. \A i \in 1..Len(Append(s, m)) :
            (i \in 1..Len(s) /\ Append(s, m)[i] = s[i]) \/ Append(s, m)[i] = m
    BY <2>1 DEF Grows
  <2>3. SoundIn(Append(s, m))
    BY <1>2, <2>2 DEF SoundIn
  <2>4. \A i \in 1..Len(<<m>>) : <<m>>[i] = m
    OBVIOUS
  <2>5. SoundIn(<<m>>)
    BY <1>2, <2>4 DEF SoundIn
  <2>6. QED
    BY <2>3, <2>5
<1>3. SoundIn(<<>>)
  BY DEF SoundIn
<1>4. QED
  BY <1>1, <1>2, <1>3

\* What p takes leaves it a sound copy, or none.
LEMMA SoundTaken ==
    ASSUME ConstantsOK, TypeOK, QueuesOK, NEW p \in Peers, TakesIn(p), ~late',
           Holds(p) => Sound(poll[p]), SoundIn(down[p]), poll'[p] # NoPoll
    PROVE  Sound(poll'[p])
<1> DEFINE c == poll[p]
           m == Head(down[p])
<1>1. Holds(p) => c \in Poll /\ c.status \in {"open", "closed"}
  BY DEF Holds, TypeOK, Poll
<1>2. down[p] # <<>> /\ down[p] \in Seq(Frame) /\ m \in Frame
  BY Listening, TailShifts DEF TakesIn, Listens, QueuesOK
<1>3. m.kind = "sync" => Sound(m.copy) /\ m.copy \in Poll
  BY <1>2, SoundQueues, FrameFields
<1>4. CASE poll'[p] = c
  BY <1>4 DEF Holds
<1>5. CASE OnOpen(p)
  <2>1. CASE Holds(p) \/ IsRetracted(p)
    BY <1>4, <1>5, <2>1 DEF OnOpen
  <2>2. CASE ~(Holds(p) \/ IsRetracted(p))
    <3>1. poll'[p] = Flushed(p, NewPoll)
      BY <1>5, <2>2 DEF OnOpen, Keep, TypeOK
    <3>2. NewPoll \in Poll /\ NewPoll.status = "open" /\ NewPoll.result = NoVotes
      BY NewPollType DEF NewPoll
    <3>3. QED
      BY <3>1, <3>2, FlushedFields DEF Sound
  <2>3. QED
    BY <2>1, <2>2
<1>6. CASE OnOption(p) /\ poll' # poll
  <2>1. Holds(p) /\ poll' = [poll EXCEPT ![p].options = @ \cup {m.option}]
    BY <1>6 DEF OnOption
  <2>2. poll'[p] = [c EXCEPT !.options = c.options \cup {m.option}]
    BY <2>1 DEF TypeOK
  <2>3. poll'[p].status = c.status /\ poll'[p].result = c.result /\ poll'[p].ballots = c.ballots
    BY <1>1, <2>1, <2>2 DEF Poll
  <2>4. QED
    BY <2>1, <2>3 DEF Sound
<1>7. CASE OnBallot(p) /\ poll' # poll
  <2>1. Holds(p) /\ Open(p) /\ poll' = [poll EXCEPT ![p].ballots[m.from] = m.vote]
    BY <1>7 DEF OnBallot
  <2> DEFINE b == [c.ballots EXCEPT ![m.from] = m.vote]
  <2>2. poll'[p] = [c EXCEPT !.ballots = b]
    BY <2>1 DEF TypeOK
  <2> HIDE DEF b
  <2>3. poll'[p].status = c.status /\ poll'[p].result = c.result
    BY <1>1, <2>1, <2>2 DEF Poll
  <2>4. QED
    BY <2>1, <2>3 DEF Sound, Open
<1>8. CASE OnLock(p) /\ poll' # poll
  <2>1. Holds(p) /\ poll'[p] = [c EXCEPT !.nominationsLocked = TRUE]
    BY <1>8 DEF OnLock, TypeOK
  <2>2. poll'[p].status = c.status /\ poll'[p].result = c.result /\ poll'[p].ballots = c.ballots
    BY <1>1, <2>1 DEF Poll
  <2>3. QED
    BY <2>1, <2>2 DEF Sound
<1>9. CASE OnClose(p) /\ poll' # poll
  <2>1. Holds(p) /\ poll'[p] = Close(c)
    BY <1>9 DEF OnClose, TypeOK
  <2>2. QED
    BY <1>1, <2>1, CloseFields DEF Sound
<1>10. CASE OnSync(p)
  <2> DEFINE d == m.copy
  <2>1. m.kind = "sync" /\ Sound(d) /\ d \in Poll /\ d.status \in {"open", "closed"}
    BY <1>3, <1>10 DEF OnSync, Gets, Poll
  <2>2. CASE IsRetracted(p)
    BY <1>4, <1>10, <2>2 DEF OnSync
  <2>3. CASE ~IsRetracted(p) /\ Holds(p)
    <3>1. poll'[p] = Merged(c, d)
      BY <1>10, <2>3 DEF OnSync, Keep, TypeOK
    <3>2. ~Open(p) => poll'[p].ballots = c.ballots
      BY <1>10, <2>3 DEF OnSync
    <3>3. CASE d.status = "closed" /\ c.status = "open"
      BY <1>1, <2>1, <2>3, <3>1, <3>3, MergedFields DEF Sound
    <3>4. CASE ~(d.status = "closed" /\ c.status = "open")
      <4>1. poll'[p].status = c.status /\ poll'[p].result = c.result
        BY <1>1, <2>1, <2>3, <3>1, <3>4, MergedFields
      <4>2. QED
        BY <1>1, <2>3, <3>2, <4>1 DEF Sound, Open
    <3>5. QED
      BY <3>3, <3>4
  <2>4. CASE ~IsRetracted(p) /\ ~Holds(p)
    <3> DEFINE g == Flushed(p, d)
    <3>1. poll'[p] = IF d.status = "closed" THEN Close(g) ELSE g
      BY <1>10, <2>4 DEF OnSync, Keep, TypeOK
    <3>2. g \in Poll /\ g.status = d.status /\ g.result = d.result
      BY <2>1, FlushedReads, FlushedFields
    <3> HIDE DEF g
    <3>3. Close(g).status = "closed" /\ Close(g).result = Close(g).ballots
      BY <3>2, CloseFields
    <3>4. QED
      BY <2>1, <3>1, <3>2, <3>3 DEF Sound
  <2>5. QED
    BY <2>2, <2>3, <2>4
<1>11. CASE OnRetract(p) /\ ~Holds(p)
  BY <1>4, <1>11 DEF OnRetract
<1>12. poll' = poll => poll'[p] = c
  OBVIOUS
<1>13. QED
  BY <1>4, <1>5, <1>6, <1>7, <1>8, <1>9, <1>10, <1>11, <1>12 DEF TakesIn

\* A closed poll counts its ballots, an open one nothing, wherever it is.
LEMMA ResultsKept ==
    ASSUME ConstantsOK, TypeOK, QueuesOK, ~late', Results, Next
    PROVE  Results'
<1> DEFINE SoundAt(q) == (poll'[q] # NoPoll => Sound(poll'[q])) /\ SoundIn(down'[q])
<1>1. \A q \in Peers : (poll[q] # NoPoll => Sound(poll[q])) /\ SoundIn(down[q])
  BY DEF Results, SoundIn, Holds
<1>2. \A q \in Peers : down[q] \in Seq(Frame)
  BY DEF QueuesOK
<1>3. SUFFICES \A q \in Peers : SoundAt(q)
  BY DEF Results, SoundIn, Holds
<1>4. ASSUME NEW q \in Peers, poll'[q] = NoPoll \/ poll'[q] = poll[q] \/ Sound(poll'[q]),
             \/ down'[q] = down[q] \/ down'[q] = <<>>
             \/ down[q] # <<>> /\ down'[q] = Tail(down[q])
             \/ \E m \in Frame : /\ m.kind = "sync" => Sound(m.copy)
                                 /\ down'[q] = Append(down[q], m) \/ down'[q] = <<m>>
      PROVE  SoundAt(q)
  <2>1. poll'[q] # NoPoll => Sound(poll'[q])
    BY <1>1, <1>4
  <2>2. SoundIn(down'[q])
    BY <1>1, <1>2, <1>4, SoundQueues
  <2>3. QED
    BY <2>1, <2>2
<1> HIDE DEF SoundAt
<1>5. CASE CreatePoll
  <2> DEFINE m == [kind |-> "open", from |-> Creator]
  <2>1. m \in Frame /\ m.kind # "sync"
    BY FramesMade DEF ConstantsOK
  <2>2. ASSUME NEW q \in Peers
        PROVE  /\ down'[q] = down[q] \/ down'[q] = Append(down[q], m)
               /\ poll'[q] = poll[q] \/ poll'[q] = NewPoll
    BY <1>5 DEF CreatePoll, Broadcast, Keep, TypeOK
  <2>3. Sound(NewPoll)
    BY DEF Sound, NewPoll
  <2> HIDE DEF m
  <2>4. QED
    BY <1>4, <2>1, <2>2, <2>3
<1>6. ASSUME NEW p \in Peers, NEW c, NEW m, Edits(p, c, m), Sound(c)
      PROVE  \A q \in Peers : SoundAt(q)
  <2>1. ASSUME NEW q \in Peers
        PROVE  /\ down'[q] = down[q] \/ down'[q] = Append(down[q], m)
               /\ poll'[q] = poll[q] \/ poll'[q] = c
    BY <1>6 DEF Edits, Broadcast, Keeps
  <2>2. m \in Frame /\ m.kind # "sync"
    BY <1>6 DEF Edits
  <2>3. QED
    BY <1>4, <1>6, <2>1, <2>2
<1>7. ASSUME NEW p \in Peers, NEW c, NEW m, Edits(p, c, m), c.ballots = poll[p].ballots,
             \/ c.status = poll[p].status /\ c.result = poll[p].result
             \/ c.status = "closed" /\ c.result = c.ballots
      PROVE  \A q \in Peers : SoundAt(q)
  <2>1. Sound(poll[p])
    BY <1>1, <1>7 DEF Edits, Holds
  <2>2. Sound(c)
    BY <1>7, <2>1 DEF Sound
  <2>3. QED
    BY <1>6, <1>7, <2>2
<1>8. ASSUME NEW p \in Peers, CastVote(p) PROVE \A q \in Peers : SoundAt(q)
  <2>1. PICK c, m : /\ Edits(p, c, m) /\ IsBallot(m, p)
                    /\ c.status = poll[p].status /\ c.result = poll[p].result
    BY <1>8, Voting
  <2>2. Sound(poll[p]) /\ Open(p)
    BY <1>1, <2>1 DEF Edits, Holds, IsBallot
  <2>3. Sound(c)
    BY <2>1, <2>2 DEF Sound, Open
  <2>4. QED
    BY <1>6, <2>1, <2>3
<1>9. ASSUME NEW p \in Peers, Join(p), NEW q \in Peers PROVE SoundAt(q)
  <2> DEFINE k == [kind |-> "joined", peer |-> p]
             n == [kind |-> "peers", peers |-> here]
  <2>1. k \in Frame /\ n \in Frame /\ k.kind # "sync" /\ n.kind # "sync"
    BY FramesMade DEF TypeOK
  <2>2. \/ down'[q] = down[q] \/ down'[q] = Append(down[q], k) \/ down'[q] = <<n>>
    BY <1>9 DEF Join
  <2>3. poll' = poll
    BY <1>9 DEF Join
  <2> HIDE DEF k, n
  <2>4. QED
    BY <1>4, <2>1, <2>2, <2>3
<1>10. ASSUME NEW p \in Peers, Leave(p), NEW q \in Peers PROVE SoundAt(q)
  BY <1>4, <1>10 DEF Leave, QueuesOK
<1>11. ASSUME NEW p \in Peers, Hands(p), NEW q \in Peers PROVE SoundAt(q)
  <2> DEFINE m == [kind |-> "sync", from |-> p, copy |-> poll[p]]
  <2>1. Holds(p) => m \in Frame /\ m.copy = poll[p] /\ Sound(poll[p])
    BY <1>1, FramesMade DEF TypeOK, Holds
  <2>2. /\ poll'[q] = poll[q]
        /\ \/ down'[q] = down[q] \/ (down[q] # <<>> /\ down'[q] = Tail(down[q]))
           \/ Holds(p) /\ down'[q] = Append(down[q], m)
    BY <1>11 DEF Hands
  <2> HIDE DEF m
  <2>3. QED
    BY <1>4, <2>1, <2>2
<1>12. ASSUME NEW p \in Peers, Goes(p), NEW q \in Peers PROVE SoundAt(q)
  <2> DEFINE m == [kind |-> "retract", from |-> p]
  <2>1. m \in Frame /\ m.kind # "sync"
    BY FramesMade
  <2>2. /\ poll'[q] = NoPoll \/ poll'[q] = poll[q]
        /\ \/ down'[q] = down[q] \/ (down[q] # <<>> /\ down'[q] = Tail(down[q]))
           \/ down'[q] = Append(down[q], m)
    BY <1>12 DEF Goes, Keeps
  <2> HIDE DEF m
  <2>3. QED
    BY <1>4, <2>1, <2>2
<1>13. ASSUME NEW p \in Peers, TakesIn(p), NEW q \in Peers PROVE SoundAt(q)
  <2>1. Listens(p)
    BY <1>13, Listening DEF TakesIn
  <2>2. CASE q # p
    BY <1>4, <2>1, <2>2 DEF Listens
  <2>3. CASE q = p
    <3>1. poll'[p] # NoPoll => Sound(poll'[p])
      BY <1>1, <1>13, SoundTaken DEF Holds
    <3>2. down[p] # <<>> /\ down'[p] = Tail(down[p])
      <4>1. down[p] # <<>> /\ Taken(p)
        BY <1>13, <2>1 DEF Listens, TakesIn, OnOpen, OnOption, OnBallot, OnLock, OnClose,
                           OnSync, OnRetract, Heard
      <4>2. QED
        BY <4>1, TakenQueues
    <3>3. QED
      BY <1>4, <2>3, <3>1, <3>2
  <2>4. QED
    BY <2>2, <2>3
<1>14. QED
  BY <1>5, <1>7, <1>8, <1>9, <1>10, <1>11, <1>12, <1>13, StepCases

-----------------------------------------------------------------------------
(* Nobody is left with an older vote *)

LEMMA VotesAppend ==
    ASSUME NEW s \in Seq(Frame), NEW m \in Frame, NEW c, NEW e, NEW v, NEW n
    PROVE  /\ HearsVote(c, e, s, v, n) => HearsVote(c, e, Append(s, m), v, n)
           /\ Source(c, e, Append(s, m), v, n) => Source(c, e, s, v, n) \/ Says(m, v) = n
           /\ IsBallot(m, v) /\ n <= m.vote => HearsVote(c, e, Append(s, m), v, n)
           /\ \A x : Passed(Append(s, m), x, v, n) =>
                  \/ Passed(s, x, v, n)
                  \/ /\ IsBallot(m, v) /\ m.vote = n
                     /\ \E i \in 1..Len(s) : OwesAt(s, i, x)
<1> DEFINE t == Append(s, m)
<1>1. Grows(s, t) /\ Len(t) = Len(s) + 1 /\ t[Len(s) + 1] = m
  BY AppendGrows
<1> HIDE DEF t
<1>2. /\ \A i \in 1..Len(s) : i \in 1..Len(t) /\ t[i] = s[i]
      /\ \A i \in 1..Len(t) : (i \in 1..Len(s) /\ t[i] = s[i]) \/ (i = Len(s) + 1 /\ t[i] = m)
      /\ Len(s) \in Nat /\ Len(s) + 1 \in 1..Len(t)
  BY <1>1 DEF Grows
<1>3. HearsVote(c, e, s, v, n) => HearsVote(c, e, t, v, n)
  BY <1>2 DEF HearsVote
<1>4. Source(c, e, t, v, n) => Source(c, e, s, v, n) \/ Says(m, v) = n
  BY <1>2 DEF Source
<1>5. IsBallot(m, v) /\ n <= m.vote => HearsVote(c, e, t, v, n)
  BY <1>1, <1>2 DEF HearsVote
<1>6. ASSUME NEW x, Passed(t, x, v, n), ~Passed(s, x, v, n)
      PROVE  IsBallot(m, v) /\ m.vote = n /\ \E i \in 1..Len(s) : OwesAt(s, i, x)
  <2>1. PICK i \in 1..Len(t), k \in 1..Len(t) :
            i < k /\ OwesAt(t, i, x) /\ IsBallot(t[k], v) /\ t[k].vote = n
    BY <1>6 DEF Passed
  <2>2. i \in 1..Len(s) /\ t[i] = s[i]
    BY <1>1, <1>2, <2>1
  <2>3. OwesAt(s, i, x)
    BY <2>1, <2>2 DEF OwesAt
  <2>4. k \notin 1..Len(s)
    BY <1>2, <1>6, <2>1, <2>2, <2>3 DEF Passed
  <2>5. t[k] = m
    BY <1>2, <2>4
  <2>6. QED
    BY <2>1, <2>2, <2>3, <2>5
<1>7. QED
  BY <1>3, <1>4, <1>5, <1>6 DEF t

LEMMA PassedShift ==
    ASSUME NEW s, NEW t, Shifts(s, t), NEW x, NEW v, NEW n, Passed(t, x, v, n)
    PROVE  Passed(s, x, v, n)
<1>1. PICK i \in 1..Len(t), k \in 1..Len(t) :
          i < k /\ OwesAt(t, i, x) /\ IsBallot(t[k], v) /\ t[k].vote = n
  BY DEF Passed
<1>2. /\ i + 1 \in 1..Len(s) /\ k + 1 \in 1..Len(s) /\ i + 1 < k + 1
      /\ t[i] = s[i + 1] /\ t[k] = s[k + 1]
  BY <1>1 DEF Shifts
<1>3. OwesAt(s, i + 1, x)
  BY <1>1, <1>2 DEF OwesAt
<1>4. QED
  BY <1>1, <1>2, <1>3 DEF Passed

\* q hears the votes it heard, and says, or will hear behind a newcomer, no others.
KeepsVotes(q) ==
    \A v \in Peers, n \in 1..MaxVotes :
        /\ HearsVote(poll[q], early[q], down[q], v, n)
               => HearsVote(poll'[q], early'[q], down'[q], v, n)
        /\ Source(poll'[q], early'[q], down'[q], v, n)
               => Source(poll[q], early[q], down[q], v, n)
        /\ \A x \in Peers : Passed(down'[q], x, v, n) => Passed(down[q], x, v, n)

LEMMA VotesKept ==
    ASSUME ConstantsOK, NoneBehind, NonePassed, Able' \subseteq Able,
           \A q \in Able' : KeepsVotes(q)
    PROVE  NoneBehind' /\ NonePassed'
<1>1. Able' \subseteq Peers /\ 2..MaxVotes \subseteq 1..MaxVotes
  BY DEF Able, ConstantsOK
<1>2. NoneBehind'
  BY <1>1 DEF NoneBehind, KeepsVotes
<1>3. NonePassed'
  BY <1>1 DEF NonePassed, KeepsVotes
<1>4. QED
  BY <1>2, <1>3

\* Another frame that says nothing of votes.
LEMMA QuietKeepsVotes ==
    ASSUME ConstantsOK, QueuesOK, NEW q \in Peers,
           \A v \in Peers : VoteOf(poll'[q], early'[q], v) = VoteOf(poll[q], early[q], v),
           \/ down'[q] = down[q]
           \/ \E m \in Frame : m.kind \notin {"ballot", "sync"} /\ down'[q] = Append(down[q], m)
    PROVE  KeepsVotes(q)
<1> DEFINE c == poll[q]
           e == early[q]
           c2 == poll'[q]
           e2 == early'[q]
           s == down[q]
           t == down'[q]
<1> SUFFICES ASSUME NEW v \in Peers, NEW n \in 1..MaxVotes
             PROVE  /\ HearsVote(c, e, s, v, n) => HearsVote(c2, e2, t, v, n)
                    /\ Source(c2, e2, t, v, n) => Source(c, e, s, v, n)
                    /\ \A x \in Peers : Passed(t, x, v, n) => Passed(s, x, v, n)
  BY DEF KeepsVotes
<1>1. VoteOf(c2, e2, v) = VoteOf(c, e, v) /\ s \in Seq(Frame)
  BY DEF QueuesOK
<1> HIDE DEF c, e, c2, e2
<1>2. /\ HearsVote(c, e, s, v, n) => HearsVote(c2, e2, s, v, n)
      /\ Source(c2, e2, s, v, n) => Source(c, e, s, v, n)
  BY <1>1 DEF HearsVote, Source
<1>3. CASE t = s
  BY <1>2, <1>3
<1>4. ASSUME NEW m \in Frame, m.kind \notin {"ballot", "sync"}, t = Append(s, m)
      PROVE  /\ HearsVote(c2, e2, s, v, n) => HearsVote(c2, e2, t, v, n)
             /\ Source(c2, e2, t, v, n) => Source(c2, e2, s, v, n)
             /\ \A x \in Peers : Passed(t, x, v, n) => Passed(s, x, v, n)
  <2>1. ~IsBallot(m, v) /\ Says(m, v) = 0 /\ n # 0
    BY <1>4, QuietFrames
  <2> HIDE DEF s, t
  <2>2. QED
    BY <1>1, <1>4, <2>1, VotesAppend
<1>5. QED
  BY <1>2, <1>3, <1>4

\* A page that is closed loses no vote that was on its way to it.
LEMMA LeaveKeepsVotes ==
    ASSUME ConstantsOK, TypeOK, QueuesOK, NEW p \in Peers, Leave(p), ~missed'
    PROVE  \A q \in Peers : KeepsVotes(q)
<1>1. /\ early[p].ballots = NoVotes /\ ~(\E m \in Range(down[p]) : m.kind = "ballot")
      /\ poll' = poll /\ early'[p] = NothingEarly /\ down'[p] = <<>>
      /\ \A q \in Peers \ {p} : early'[q] = early[q] /\ down'[q] = down[q]
  BY DEF Leave, TypeOK, QueuesOK
<1>2. \A q \in Peers \ {p} : KeepsVotes(q)
  BY <1>1, QuietKeepsVotes
<1>3. KeepsVotes(p)
  <2> SUFFICES ASSUME NEW v \in Peers, NEW n \in 1..MaxVotes
               PROVE  /\ HearsVote(poll[p], early[p], down[p], v, n)
                             => HearsVote(poll[p], NothingEarly, <<>>, v, n)
                      /\ Source(poll[p], NothingEarly, <<>>, v, n)
                             => Source(poll[p], early[p], down[p], v, n)
                      /\ \A x \in Peers : ~Passed(<<>>, x, v, n)
    BY <1>1 DEF KeepsVotes
  <2>1. VoteOf(poll[p], NothingEarly, v) = VoteOf(poll[p], early[p], v)
    BY <1>1 DEF VoteOf, NothingEarly
  <2>2. \A i \in 1..Len(down[p]) : ~IsBallot(down[p][i], v)
    <3>1. Range(down[p]) = {down[p][i] : i \in 1..Len(down[p])}
      BY DEF Range, QueuesOK
    <3>2. QED
      BY <1>1, <3>1 DEF IsBallot
  <2>3. \A i \in 1..Len(<<>>) : FALSE
    OBVIOUS
  <2>4. QED
    BY <2>1, <2>2, <2>3 DEF HearsVote, Source, Passed
<1>4. QED
  BY <1>2, <1>3

\* What p takes in, it knows.
LEMMA TakeKeepsVotes ==
    ASSUME ConstantsOK, TypeOK, QueuesOK, NEW p \in Peers, down[p] # <<>>,
           Shifts(down[p], down'[p]),
           Takes(poll[p], early[p], Head(down[p]), poll'[p], early'[p])
    PROVE  KeepsVotes(p)
<1>1. /\ down[p] \in Seq(Frame) /\ down[p][1] = Head(down[p]) /\ 1 \in 1..Len(down[p])
      /\ Head(down[p]) \in Frame
  BY TailShifts DEF QueuesOK
<1>2. \A v \in Peers : /\ VoteOf(poll[p], early[p], v) \in Nat
                       /\ VoteOf(poll'[p], early'[p], v) \in Nat
                       /\ IsBallot(down[p][1], v) => down[p][1].vote \in Nat
  <2>1. \A v \in Peers : VoteOf(poll[p], early[p], v) \in Nat
    BY VotesAreCounts
  <2>2. \A v \in Peers : VoteOf(poll'[p], early'[p], v) \in Nat
    BY <1>1, <2>1, SaysIsCount DEF Takes
  <2>3. \A v : IsBallot(down[p][1], v) => down[p][1].vote \in Nat
    BY <1>1, FrameFields DEF IsBallot, ConstantsOK
  <2>4. QED
    BY <2>1, <2>2, <2>3
<1>3. ASSUME NEW v \in Peers, NEW n \in 1..MaxVotes
      PROVE  /\ HearsVote(poll[p], early[p], down[p], v, n)
                    => HearsVote(poll'[p], early'[p], down'[p], v, n)
             /\ Source(poll'[p], early'[p], down'[p], v, n)
                    => Source(poll[p], early[p], down[p], v, n)
  <2>1. n \in Nat
    OBVIOUS
  <2>2. Takes(poll[p], early[p], down[p][1], poll'[p], early'[p])
    BY <1>1
  <2>3. QED
    BY <1>1, <1>2, <2>1, <2>2, TakeVotes
<1>4. QED
  BY <1>3, PassedShift DEF KeepsVotes

\* A copy that is given says no older vote than who gets it hears.
LEMMA HandVotes ==
    ASSUME ConstantsOK, TypeOK, QueuesOK, PollInv, NoneBehind, NonePassed,
           NEW p \in Peers, Hands(p)
    PROVE  NoneBehind' /\ NonePassed'
<1> DEFINE m == [kind |-> "sync", from |-> p, copy |-> poll[p]]
           Heeds(q, v, n) == HearsVote(poll[q], early[q], down[q], v, n)
           Spoken(q, v, n) == Source(poll[q], early[q], down[q], v, n)
           Newcomer(q) == q # p /\ q \in here /\ OwesAt(down[p], 1, q) /\ Holds(p)
<1>1. /\ Able' = Able /\ Able \subseteq Peers /\ down[p] # <<>>
      /\ poll' = poll /\ early' = early /\ down'[p] = Tail(down[p])
      /\ Head(down[p]).kind \in {"peers", "joined"}
  BY DEF Hands, Able
<1>2. Shifts(down[p], down'[p]) /\ down[p][1] = Head(down[p]) /\ 1 \in 1..Len(down[p])
  BY <1>1, TailShifts DEF QueuesOK
<1>3. KeepsVotes(p)
  <2>1. Takes(poll[p], early[p], Head(down[p]), poll'[p], early'[p])
    BY <1>1, TakesPlain, VotesAreCounts
  <2>2. QED
    BY <1>1, <1>2, <2>1, TakeKeepsVotes
<1>4. Holds(p) => /\ m \in Frame /\ p \in Able
                  /\ \A v : ~IsBallot(m, v) /\ Says(m, v) = poll[p].ballots[v]
  <2>1. Holds(p) => m \in Frame
    BY FramesMade DEF TypeOK, Holds
  <2>2. Holds(p) => p \in Able
    BY DEF PollInv, RetractedStaysGone, Able
  <2>3. \A v : ~IsBallot(m, v) /\ Says(m, v) = poll[p].ballots[v]
    BY DEF IsBallot, Says
  <2> HIDE DEF m
  <2>4. QED
    BY <2>1, <2>2, <2>3
<1> HIDE DEF m
<1>5. ASSUME NEW q \in Peers, ~Newcomer(q) PROVE KeepsVotes(q)
  <2>1. q # p => down'[q] = down[q]
    BY <1>5 DEF Hands
  <2>2. CASE q # p
    BY <1>1, <2>1, <2>2, QuietKeepsVotes
  <2>3. QED
    BY <1>3, <2>2
<1>6. ASSUME NEW q \in Peers, NEW v \in Peers, NEW n \in 1..MaxVotes
      PROVE  /\ Heeds(q, v, n) => Heeds(q, v, n)'
             /\ Spoken(q, v, n)' => \/ Spoken(q, v, n)
                                    \/ Newcomer(q) /\ poll[p].ballots[v] = n
             /\ \A x \in Peers : Passed(down'[q], x, v, n) => Passed(down[q], x, v, n)
  <2>1. CASE Newcomer(q)
    <3>1. down'[q] = Append(down[q], m) /\ down[q] \in Seq(Frame)
      BY <2>1 DEF Hands, m, QueuesOK
    <3>2. /\ HearsVote(poll[q], early[q], down[q], v, n)
                 => HearsVote(poll[q], early[q], down'[q], v, n)
          /\ Source(poll[q], early[q], down'[q], v, n)
                 => Source(poll[q], early[q], down[q], v, n) \/ poll[p].ballots[v] = n
          /\ \A x \in Peers : Passed(down'[q], x, v, n) => Passed(down[q], x, v, n)
      BY <1>4, <2>1, <3>1, VotesAppend
    <3>3. QED
      BY <1>1, <2>1, <3>2
  <2>2. CASE ~Newcomer(q)
    BY <1>5, <2>2 DEF KeepsVotes
  <2>3. QED
    BY <2>1, <2>2
<1>7. \A v \in Peers, n \in 1..MaxVotes : Holds(p) /\ poll[p].ballots[v] = n => Spoken(p, v, n)
  BY DEF Source, VoteOf, Holds
\* p says m of v and hears n: the vote comes behind the newcomer, who hears it.
<1>8. ASSUME NEW x \in Peers, x \in Able, NEW v \in Peers, NEW k \in 1..MaxVotes,
             NEW n \in 1..MaxVotes, k < n, Newcomer(x), poll[p].ballots[v] = k, Heeds(p, v, n)
      PROVE  Heeds(x, v, n)
  <2>1. VoteOf(poll[p], early[p], v) = k /\ k \in Nat /\ n \in Nat
    BY <1>8 DEF VoteOf, Holds
  <2>2. ~(n <= k)
    BY <1>8, <2>1
  <2>3. PICK i \in 1..Len(down[p]) : IsBallot(down[p][i], v) /\ n <= down[p][i].vote
    BY <1>8, <2>1, <2>2 DEF HearsVote
  <2> DEFINE l == down[p][i].vote
  <2>4. l \in 2..MaxVotes /\ n <= l
    <3>1. down[p][i] \in Frame
      BY <2>3, ElementOfSeq DEF QueuesOK
    <3>2. l \in 0..MaxVotes
      BY <2>3, <3>1, FrameFields DEF IsBallot
    <3>3. QED
      BY <1>8, <2>3, <3>2 DEF ConstantsOK
  <2>5. 1 < i
    <3>1. ~IsBallot(down[p][1], v)
      BY <1>1, <1>2 DEF IsBallot
    <3>2. i # 1
      BY <2>3, <3>1
    <3>3. QED
      BY <3>2
  <2>6. Passed(down[p], x, v, l)
    BY <1>2, <1>8, <2>3, <2>5 DEF Passed
  <2> HIDE DEF l
  <2>7. HearsVote(poll[x], early[x], down[x], v, l)
    BY <1>4, <1>8, <2>4, <2>6 DEF NonePassed
  <2>8. VoteOf(poll[x], early[x], v) \in Nat
    BY VotesAreCounts
  <2>9. \A j \in 1..Len(down[x]) : IsBallot(down[x][j], v) => down[x][j].vote \in Nat
    <3>1. \A j \in 1..Len(down[x]) : down[x][j] \in Frame
      BY ElementOfSeq DEF QueuesOK
    <3>2. QED
      BY <3>1, FrameFields DEF IsBallot, ConstantsOK
  <2>10. l \in Nat /\ n <= l
    BY <2>4 DEF ConstantsOK
  <2>11. QED
    BY <2>1, <2>7, <2>8, <2>9, <2>10 DEF HearsVote
<1> HIDE DEF Heeds, Spoken, Newcomer
<1>9. ASSUME NEW q \in Able, NEW x \in Able, NEW v \in Peers, NEW k \in 1..MaxVotes,
             NEW n \in 1..MaxVotes, k < n, Spoken(q, v, n)', Spoken(x, v, k)'
      PROVE  Heeds(x, v, n)'
  <2>1. PICK r \in Able : Spoken(r, v, n)
    BY <1>1, <1>4, <1>6, <1>7, <1>9 DEF Newcomer
  <2>2. \A y \in Able : Spoken(y, v, k) => Heeds(y, v, n)
    BY <1>9, <2>1 DEF NoneBehind, Spoken, Heeds
  <2>3. CASE Spoken(x, v, k)
    BY <1>1, <1>6, <2>2, <2>3
  <2>4. CASE ~Spoken(x, v, k)
    <3>1. Newcomer(x) /\ poll[p].ballots[v] = k
      BY <1>1, <1>6, <1>9, <2>4
    <3>2. p \in Able /\ Holds(p)
      BY <1>4, <3>1 DEF Newcomer
    <3>3. Heeds(p, v, n)
      BY <1>7, <2>2, <3>1, <3>2
    <3>4. Heeds(x, v, n)
      BY <1>1, <1>8, <1>9, <3>1, <3>3
    <3>5. QED
      BY <1>1, <1>6, <3>4
  <2>5. QED
    BY <2>3, <2>4
<1>10. NoneBehind'
  BY <1>1, <1>9 DEF NoneBehind, Heeds, Spoken
<1>11. NonePassed'
  <2>1. ASSUME NEW q \in Able, NEW x \in Able, NEW v \in Peers, NEW n \in 2..MaxVotes,
               Passed(down'[q], x, v, n)
        PROVE  Heeds(x, v, n)'
    <3>1. n \in 1..MaxVotes /\ q \in Peers /\ x \in Peers
      BY <1>1 DEF ConstantsOK
    <3>2. Passed(down[q], x, v, n)
      BY <1>6, <2>1, <3>1
    <3>3. Heeds(x, v, n)
      BY <3>2 DEF NonePassed, Heeds
    <3>4. QED
      BY <1>6, <3>1, <3>3
  <2>2. QED
    BY <1>1, <2>1 DEF NonePassed, Heeds
<1>12. QED
  BY <1>10, <1>11

\* A second vote goes past nobody.
LEMMA CastVotes ==
    ASSUME ConstantsOK, TypeOK, QueuesOK, PollInv, PollInv', QueuesOK', TypeOK', AwayIdle,
           NoneBehind, NonePassed, NEW p \in Peers, CastVote(p), ~missed'
    PROVE  NoneBehind' /\ NonePassed'
<1>1. PICK c, m :
          /\ Edits(p, c, m) /\ IsBallot(m, p) /\ m.vote = poll[p].ballots[p] + 1
          /\ \A v \in Peers : c.ballots[v] = IF v = p THEN m.vote ELSE poll[p].ballots[v]
  BY Voting
<1> DEFINE last == poll[p].ballots[p]
           new == m.vote
           Heeds(q, v, n) == HearsVote(poll[q], early[q], down[q], v, n)
           Spoken(q, v, n) == Source(poll[q], early[q], down[q], v, n)
<1>2. /\ Holds(p) /\ p \in here /\ p \notin retracted /\ p \in Able
      /\ Able' = Able /\ Able \subseteq Peers /\ early' = early /\ here' = here
      /\ poll'[p] = c /\ c # NoPoll /\ poll[p] # NoPoll /\ m \in Frame
      /\ \A q \in Peers \ {p} : poll'[q] = poll[q]
  BY <1>1, PollFields DEF Edits, Keeps, Able, PollInv, RetractedStaysGone, Holds
<1>3. /\ \A q \in Peers : down[q] \in Seq(Frame)
      /\ \A q \in here \ {p} : down'[q] = Append(down[q], m)
      /\ \A q \in Peers : q \notin here \/ q = p => down'[q] = down[q]
  BY <1>1 DEF Edits, Broadcast, QueuesOK, TypeOK
<1>4. last \in Nat /\ new = last + 1 /\ new \in Nat
  BY <1>1, <1>2, Counts
<1>5. last = 0 \/ PastWhom(p) = {}
  <2>1. last > 0 /\ PastWhom(p) # {} => missed'
    BY DEF CastVote
  <2>2. ~(last > 0) \/ PastWhom(p) = {}
    BY <2>1
  <2> HIDE DEF last
  <2>3. QED
    BY <1>4, <2>2
\* Of p nobody says more than p does.
<1>6. /\ \A q \in Peers, n \in 1..MaxVotes : Spoken(q, p, n) => n <= last
      /\ \A q \in Peers, n \in 1..MaxVotes : Spoken(q, p, n)' => n <= new
  <2>1. Count(p) = last /\ Count(p)' = new
    BY <1>1, <1>2 DEF Count, Holds
  <2>2. \A q \in Peers : /\ BoundedAt(poll[q], early[q], down[q], p, last)
                         /\ BoundedAt(poll'[q], early'[q], down'[q], p, new)
    BY <1>1, <1>2, <2>1 DEF PollInv, NobodyAhead, Edits
  <2>3. QED
    BY <2>2 DEF BoundedAt, Source, VoteOf, NoMore
<1>7. m.kind = "ballot" /\ m.from = p
  BY <1>1 DEF IsBallot
<1> HIDE DEF last, new
<1>8. ASSUME NEW q \in Peers, NEW v \in Peers, NEW n \in 1..MaxVotes
      PROVE  /\ Heeds(q, v, n) => Heeds(q, v, n)'
             /\ v # p /\ Spoken(q, v, n)' => Spoken(q, v, n)
             /\ \A x \in Peers : Passed(down'[q], x, v, n) =>
                    \/ Passed(down[q], x, v, n)
                    \/ v = p /\ n = new /\ \E i \in 1..Len(down[q]) : OwesAt(down[q], i, x)
             /\ q \in here \ {p} \/ q = p => \A l \in 1..MaxVotes : l <= new => Heeds(q, p, l)'
  <2>1. n \in Nat /\ VoteOf(poll[q], early[q], v) \in Nat
    BY VotesAreCounts
  <2>2. VoteOf(poll'[q], early'[q], v) = IF q = p /\ v = p THEN new
                                         ELSE VoteOf(poll[q], early[q], v)
    BY <1>1, <1>2 DEF VoteOf, new
  <2>3. VoteOf(poll[p], early[p], p) = last
    BY <1>2 DEF VoteOf, last
  <2>4. Heeds(q, v, n) => HearsVote(poll'[q], early'[q], down[q], v, n)
    BY <1>4, <2>1, <2>2, <2>3 DEF HearsVote
  <2>5. v # p /\ Source(poll'[q], early'[q], down[q], v, n) => Spoken(q, v, n)
    BY <2>2 DEF Source
  <2>6. CASE q \in here \ {p}
    <3>1. down'[q] = Append(down[q], m) /\ down[q] \in Seq(Frame) /\ m \in Frame
      BY <1>2, <1>3, <2>6
    <3>2. v # p => ~IsBallot(m, v) /\ Says(m, v) = 0
      BY <1>7 DEF IsBallot, Says
    <3>3. IsBallot(m, v) /\ m.vote = n => v = p /\ n = new
      BY <1>7 DEF IsBallot, new
    <3>4. \A l \in 1..MaxVotes : l <= new => HearsVote(poll'[q], early'[q], down'[q], p, l)
      BY <1>1, <3>1, VotesAppend DEF new
    <3>5. /\ HearsVote(poll'[q], early'[q], down[q], v, n)
                 => HearsVote(poll'[q], early'[q], down'[q], v, n)
          /\ v # p /\ Source(poll'[q], early'[q], down'[q], v, n)
                 => Source(poll'[q], early'[q], down[q], v, n)
          /\ \A x \in Peers : Passed(down'[q], x, v, n) =>
                 \/ Passed(down[q], x, v, n)
                 \/ v = p /\ n = new /\ \E i \in 1..Len(down[q]) : OwesAt(down[q], i, x)
      BY <3>1, <3>2, <3>3, VotesAppend
    <3> HIDE DEF Heeds, Spoken
    <3>6. /\ Heeds(q, v, n)' <=> HearsVote(poll'[q], early'[q], down'[q], v, n)
          /\ Spoken(q, v, n)' <=> Source(poll'[q], early'[q], down'[q], v, n)
          /\ \A l : Heeds(q, p, l)' <=> HearsVote(poll'[q], early'[q], down'[q], p, l)
      BY DEF Heeds, Spoken
    <3>7. QED
      BY <2>4, <2>5, <2>6, <3>4, <3>5, <3>6
  <2>7. CASE q \notin here \/ q = p
    <3>1. down'[q] = down[q]
      BY <1>3, <2>7
    <3>2. q = p => \A l \in 1..MaxVotes : l <= new => Heeds(q, p, l)'
      BY <1>1, <1>2 DEF HearsVote, VoteOf, new
    <3>3. (Heeds(q, v, n) => Heeds(q, v, n)') /\ (v # p /\ Spoken(q, v, n)' => Spoken(q, v, n))
      BY <2>4, <2>5, <3>1
    <3> HIDE DEF Heeds, Spoken
    <3>4. QED
      BY <2>7, <3>1, <3>2, <3>3
  <2>8. QED
    BY <2>6, <2>7
\* Who is away has no vote of p, or p votes for the first time.
<1>9. ASSUME NEW x \in Peers, x \notin here, 0 < last
      PROVE  /\ \A n \in 1..MaxVotes : ~Spoken(x, p, n)'
             /\ \A q \in Peers : \A i \in 1..Len(down[q]) : ~OwesAt(down[q], i, x)
  <2>1. x \notin PastWhom(p)
    BY <1>4, <1>5, <1>9
  <2>2. /\ Holds(x) => poll[x].ballots[p] = 0
        /\ \A q \in Peers : ~Owes(q, x)
    BY <1>9, <2>1 DEF PastWhom
  <2>3. /\ early'[x] = NothingEarly /\ poll'[x] = poll[x] /\ down'[x] = <<>>
    BY <1>2, <1>3, <1>9 DEF AwayIdle, TypeOK
  <2>4. VoteOf(poll'[x], early'[x], p) = 0
    BY <2>2, <2>3, NoVotesType DEF VoteOf, Holds, NothingEarly
  <2>5. \A i \in 1..Len(<<>>) : FALSE
    OBVIOUS
  <2>6. \A n \in 1..MaxVotes : ~Spoken(x, p, n)'
    BY <2>3, <2>4, <2>5 DEF Source
  <2>7. QED
    BY <2>2, <2>6, OwesMeans
<1> HIDE DEF Heeds, Spoken
<1>10. ASSUME NEW q \in Able, NEW x \in Able, NEW v \in Peers, NEW k \in 1..MaxVotes,
              NEW n \in 1..MaxVotes, k < n, Spoken(q, v, n)', Spoken(x, v, k)'
       PROVE  Heeds(x, v, n)'
  <2>1. CASE v # p
    <3>1. Spoken(q, v, n) /\ Spoken(x, v, k)
      BY <1>2, <1>8, <1>10, <2>1
    <3>2. Heeds(x, v, n)
      BY <1>10, <3>1 DEF NoneBehind, Spoken, Heeds
    <3>3. QED
      BY <1>2, <1>8, <3>2
  <2>2. CASE v = p
    <3>1. n <= new /\ k < new
      BY <1>2, <1>4, <1>6, <1>10, <2>2
    <3>2. 0 < last
      BY <1>4, <3>1
    <3>3. x \in here
      BY <1>2, <1>9, <1>10, <2>2, <3>2
    <3>4. QED
      BY <1>2, <1>8, <2>2, <3>1, <3>3
  <2>3. QED
    BY <2>1, <2>2
<1>11. NoneBehind'
  BY <1>2, <1>10 DEF NoneBehind, Heeds, Spoken
<1>12. ASSUME NEW q \in Able, NEW x \in Able, NEW v \in Peers, NEW n \in 2..MaxVotes,
              Passed(down'[q], x, v, n)
       PROVE  Heeds(x, v, n)'
  <2>1. n \in 1..MaxVotes /\ q \in Peers /\ x \in Peers /\ n \in Nat /\ 1 < n
    BY <1>2 DEF ConstantsOK
  <2>2. CASE Passed(down[q], x, v, n)
    <3>1. Heeds(x, v, n)
      BY <2>2 DEF NonePassed, Heeds
    <3>2. QED
      BY <1>8, <2>1, <3>1
  <2>3. CASE v = p /\ n = new /\ \E i \in 1..Len(down[q]) : OwesAt(down[q], i, x)
    <3>1. 0 < last
      BY <1>4, <2>1, <2>3
    <3>2. x \in here
      BY <1>9, <2>1, <2>3, <3>1
    <3>3. QED
      BY <1>8, <2>1, <2>3, <3>2
  <2>4. QED
    BY <1>8, <1>12, <2>1, <2>2, <2>3
<1>13. NonePassed'
  BY <1>2, <1>12 DEF NonePassed, Heeds
<1>14. QED
  BY <1>11, <1>13

LEMMA VotesOn ==
    ASSUME ConstantsOK, TypeOK, QueuesOK, PollInv, TypeOK', QueuesOK', PollInv', AgreeInv,
           ~missed', ~late', Next
    PROVE  NoneBehind' /\ NonePassed'
<1> DEFINE Goal == NoneBehind' /\ NonePassed'
<1>1. NoneBehind /\ NonePassed /\ Unborn /\ AwayIdle
  BY HistoryGrows DEF AgreeInv
<1>2. Able' \subseteq Able
  <2>1. retracted \subseteq retracted'
    BY HoldsOn
  <2>2. QED
    BY <2>1 DEF Able
<1>3. ASSUME \A q \in Able' : KeepsVotes(q) PROVE Goal
  BY <1>1, <1>2, <1>3, VotesKept
<1>4. Able' \subseteq Peers
  BY DEF Able
<1>5. ASSUME CreatePoll, NEW q \in Peers PROVE KeepsVotes(q)
  <2> DEFINE m == [kind |-> "open", from |-> Creator]
  <2>1. m \in Frame /\ m.kind \notin {"ballot", "sync"}
    BY FramesMade DEF ConstantsOK
  <2>2. down'[q] = down[q] \/ down'[q] = Append(down[q], m)
    BY <1>5 DEF CreatePoll, Broadcast
  <2> HIDE DEF m
  <2>3. ASSUME NEW v \in Peers
        PROVE  VoteOf(poll'[q], early'[q], v) = VoteOf(poll[q], early[q], v)
    <3>1. CASE q # Creator
      BY <1>5, <3>1 DEF CreatePoll, Keep, TypeOK
    <3>2. CASE q = Creator
      <4>1. poll'[q] = NewPoll /\ Creator \notin retracted /\ poll[q] = NoPoll
        BY <1>5, <3>2 DEF CreatePoll, Keep, TypeOK, IsRetracted, Holds
      <4>2. early[q] = NothingEarly
        BY <1>1, <3>2, <4>1 DEF Unborn, Blank, Holds
      <4>3. NewPoll # NoPoll /\ NewPoll.ballots = NoVotes /\ NothingEarly.ballots = NoVotes
        BY NewPollType DEF NothingEarly
      <4>4. QED
        BY <4>1, <4>2, <4>3 DEF VoteOf
    <3>3. QED
      BY <3>1, <3>2
  <2>4. QED
    BY <2>1, <2>2, <2>3, QuietKeepsVotes
<1>6. ASSUME NEW p \in Peers, NEW c, NEW m, Edits(p, c, m), c.ballots = poll[p].ballots,
             m.kind # "ballot", NEW q \in Peers
      PROVE  KeepsVotes(q)
  <2>1. m \in Frame /\ m.kind \notin {"ballot", "sync"}
    BY <1>6 DEF Edits
  <2>2. down'[q] = down[q] \/ down'[q] = Append(down[q], m)
    BY <1>6 DEF Edits, Broadcast
  <2>3. \A v \in Peers : VoteOf(poll'[q], early'[q], v) = VoteOf(poll[q], early[q], v)
    <3>1. c # NoPoll /\ poll[p] # NoPoll /\ poll'[p] = c /\ early' = early
      BY <1>6, PollFields DEF Edits, Keeps, Holds
    <3>2. q # p => poll'[q] = poll[q]
      BY <1>6 DEF Edits, Keeps
    <3>3. QED
      BY <1>6, <3>1, <3>2 DEF VoteOf
  <2>4. QED
    BY <2>1, <2>2, <2>3, QuietKeepsVotes
<1>7. ASSUME NEW p \in Peers, Join(p), NEW q \in Peers PROVE KeepsVotes(q)
  <2> DEFINE k == [kind |-> "joined", peer |-> p]
             n == [kind |-> "peers", peers |-> here]
  <2>1. /\ k \in Frame /\ n \in Frame
        /\ k.kind \notin {"ballot", "sync"} /\ n.kind \notin {"ballot", "sync"}
    BY FramesMade DEF TypeOK
  <2>2. \/ down'[q] = down[q] \/ down'[q] = Append(down[q], k)
        \/ down[q] = <<>> /\ down'[q] = <<n>>
    BY <1>7 DEF Join, TypeOK
  <2>3. poll' = poll /\ early' = early
    BY <1>7 DEF Join
  <2> HIDE DEF k, n
  <2>4. down[q] = <<>> /\ down'[q] = <<n>> => down'[q] = Append(down[q], n)
    OBVIOUS
  <2>5. QED
    BY <2>1, <2>2, <2>3, <2>4, QuietKeepsVotes
<1>8. ASSUME NEW p \in Peers, Leave(p) PROVE Goal
  BY <1>3, <1>4, <1>8, LeaveKeepsVotes
<1>9. ASSUME NEW p \in Peers, Hands(p) PROVE Goal
  BY <1>1, <1>9, HandVotes
<1>10. ASSUME NEW p \in Peers, CastVote(p) PROVE Goal
  BY <1>1, <1>10, CastVotes
<1>11. ASSUME NEW p \in Peers, Goes(p), NEW q \in Able' PROVE KeepsVotes(q)
  <2> DEFINE m == [kind |-> "retract", from |-> p]
  <2>1. q \in Peers \ {p}
    BY <1>11 DEF Goes, Able
  <2>2. m \in Frame /\ m.kind \notin {"ballot", "sync"}
    BY FramesMade
  <2>3. /\ poll'[q] = poll[q] /\ early'[q] = early[q]
        /\ down'[q] = down[q] \/ down'[q] = Append(down[q], m)
    BY <1>11, <2>1 DEF Goes, Keeps
  <2> HIDE DEF m
  <2>4. QED
    BY <2>1, <2>2, <2>3, QuietKeepsVotes
<1>12. ASSUME NEW p \in Peers, TakesIn(p), NEW q \in Able' PROVE KeepsVotes(q)
  <2>1. Listens(p) /\ q \in Peers
    BY <1>4, <1>12, Listening DEF TakesIn
  <2>2. CASE q # p
    BY <2>1, <2>2, QuietKeepsVotes DEF Listens
  <2>3. CASE q = p
    <3>1. p \notin retracted
      BY <1>2, <2>3 DEF Able
    <3>2. Takes(poll[p], early[p], Head(down[p]), poll'[p], early'[p])
      BY <1>12, <3>1, Taking DEF TakesIn
    <3>3. QED
      BY <2>1, <2>3, <3>2, TakeKeepsVotes DEF Listens
  <2>4. QED
    BY <2>2, <2>3
<1> HIDE DEF Goal
<1>13. ASSUME CreatePoll PROVE Goal
  BY <1>3, <1>4, <1>5, <1>13
<1>14. ASSUME NEW p \in Peers, NEW c, NEW m, Edits(p, c, m), c.ballots = poll[p].ballots,
              m.kind # "ballot"
       PROVE  Goal
  BY <1>3, <1>4, <1>6, <1>14
<1>15. ASSUME NEW p \in Peers, Join(p) PROVE Goal
  BY <1>3, <1>4, <1>7, <1>15
<1>16. ASSUME NEW p \in Peers, Goes(p) \/ TakesIn(p) PROVE Goal
  BY <1>3, <1>11, <1>12, <1>16
<1>17. Goal
  BY <1>8, <1>9, <1>10, <1>13, <1>14, <1>15, <1>16, StepCases
<1>18. QED
  BY <1>17 DEF Goal

-----------------------------------------------------------------------------
(* Everybody agrees *)

LEMMA AgreeInit == ConstantsOK /\ Init => AgreeInv
<1> SUFFICES ASSUME ConstantsOK, Init PROVE AgreeInv
  OBVIOUS
<1>1. /\ \A p \in Peers : poll[p] = NoPoll /\ early[p] = NothingEarly /\ down[p] = <<>>
      /\ here = Peers /\ retracted = {}
  BY DEF Init
<1>2. \A i \in 1..Len(<<>>) : FALSE
  OBVIOUS
<1>3. \A p \in Peers : Blank(p)
  BY <1>1, <1>2 DEF Blank, Holds
<1>4. Unborn /\ AwayIdle
  BY <1>1, <1>3 DEF Unborn, AwayIdle
<1>5. Results
  BY <1>1, <1>2 DEF Results, Holds
<1>6. \A p \in Peers, f \in Fact : ~Hears(poll[p], early[p], down[p], f)
  BY <1>1, <1>2, NothingKept DEF Hears, Rumour, Knows
<1>7. Reaches
  BY <1>1, <1>6 DEF Reaches, HeardOf, Room
<1>8. CreatorServes
  BY <1>1 DEF CreatorServes, Holds, ConstantsOK
<1>9. \A p \in Peers, v \in Peers, n \in 1..MaxVotes :
          ~Source(poll[p], early[p], down[p], v, n)
  <2>1. \A p, v \in Peers : VoteOf(poll[p], early[p], v) = 0
    BY <1>1, NoVotesType DEF VoteOf, NothingEarly
  <2>2. QED
    BY <1>1, <1>2, <2>1 DEF Source
<1>10. NoneBehind
  BY <1>9 DEF NoneBehind, Able
<1>11. NonePassed
  BY <1>1, <1>2 DEF NonePassed, Passed, Able
<1>12. QED
  BY <1>4, <1>5, <1>7, <1>8, <1>10, <1>11 DEF AgreeInv

LEMMA AgreeNext ==
    ASSUME ConstantsOK, TypeOK, QueuesOK, PollInv, AgreeInv, [Next]_vars
    PROVE  AgreeInv'
<1>1. CASE Next
  <2>1. TypeOK' /\ QueuesOK' /\ PollInv'
    BY <1>1, NextInv
  <2>2. AwayIdle'
    BY <1>1, AwayIdleKept DEF AgreeInv
  <2>3. ~late' => Unborn' /\ Results'
    BY <1>1, HistoryGrows, UnbornKept, ResultsKept DEF AgreeInv
  <2>4. ~missed' /\ ~late' => Reaches' /\ CreatorServes'
    BY <1>1, <2>1, ReachesOn
  <2>5. ~missed' /\ ~late' => NoneBehind' /\ NonePassed'
    BY <1>1, <2>1, VotesOn
  <2>6. QED
    BY <2>2, <2>3, <2>4, <2>5 DEF AgreeInv
<1>2. CASE UNCHANGED vars
  <2>1. AwayIdle' /\ (~late' => Unborn' /\ Results')
    BY <1>2 DEF vars, AgreeInv, AwayIdle, Unborn, Results, Blank, Holds
  <2>2. ~missed' /\ ~late' => Reaches' /\ CreatorServes'
    BY <1>2 DEF vars, AgreeInv, Reaches, HeardOf, Served, Safe, OwedBy, Serves, Room,
                CreatorServes, Holds, ThePoll
  <2>3. ~missed' /\ ~late' => NoneBehind' /\ NonePassed'
    BY <1>2 DEF vars, AgreeInv, NoneBehind, NonePassed, Able
  <2>4. QED
    BY <2>1, <2>2, <2>3 DEF AgreeInv
<1>3. QED
  BY <1>1, <1>2

\* With nothing under way what one knows all know.
LEMMA RestAgrees ==
    ASSUME ConstantsOK, TypeOK, QueuesOK, PollInv, AgreeInv
    PROVE  PollsAgree
<1> SUFFICES ASSUME AtRest, ~missed, ~late, NEW p \in here, NEW q \in here, Holds(p), Holds(q)
             PROVE  poll[p] = poll[q]
  BY DEF PollsAgree
<1>1. /\ here \subseteq Peers /\ p \in Peers /\ q \in Peers
      /\ \A r \in Peers : down[r] = <<>>
      /\ p \in Room /\ q \in Room /\ Room \subseteq Peers
      /\ Reaches /\ Results
  BY DEF TypeOK, AtRest, Room, PollInv, RetractedStaysGone, AgreeInv
<1>2. \A i \in 1..Len(<<>>) : FALSE
  OBVIOUS
<1>3. ASSUME NEW r \in Room, NEW t \in Room, Holds(r), Holds(t), NEW f \in Fact, In(poll[r], f)
      PROVE  In(poll[t], f)
  <2>1. Rumour(poll[r], early[r], f)
    BY <1>3 DEF Rumour, Knows, Holds
  <2>2. HeardOf(f)
    BY <1>3, <2>1 DEF HeardOf, Hears
  <2>3. Served(t, f)
    BY <1>1, <2>2 DEF Reaches
  <2>4. \A s \in Room : ~OwedBy(s, t, f)
    BY <1>1, <1>2 DEF OwedBy
  <2>5. Has(poll[t], early[t], down[t], f, Len(down[t]) + 1)
    BY <2>3, <2>4 DEF Served, Safe
  <2>6. QED
    BY <1>1, <1>2, <1>3, <2>5 DEF Has, Knows, Holds
<1>4. /\ poll[p] \in Poll /\ poll[q] \in Poll
      /\ \A f \in Fact : In(poll[p], f) <=> In(poll[q], f)
  BY <1>1, <1>3 DEF TypeOK, Holds
<1>5. poll[p].status = poll[q].status
  <2>1. [kind |-> "close"] \in Fact
    BY DEF Fact
  <2>2. poll[p].status = "closed" <=> poll[q].status = "closed"
    BY <1>4, <2>1 DEF In
  <2>3. QED
    BY <1>4, <2>2 DEF Poll
<1>6. poll[p].nominationsLocked = poll[q].nominationsLocked
  <2>1. [kind |-> "lock"] \in Fact
    BY DEF Fact
  <2>2. poll[p].nominationsLocked <=> poll[q].nominationsLocked
    BY <1>4, <2>1 DEF In
  <2>3. poll[p].nominationsLocked \in BOOLEAN /\ poll[q].nominationsLocked \in BOOLEAN
    BY <1>4 DEF Poll
  <2>4. QED
    BY <2>2, <2>3
<1>7. poll[p].options = poll[q].options
  <2>1. ASSUME NEW o \in Options PROVE o \in poll[p].options <=> o \in poll[q].options
    <3> DEFINE f == [kind |-> "option", option |-> o]
    <3>1. f \in Fact /\ f.kind = "option" /\ f.option = o
      BY DEF Fact
    <3> HIDE DEF f
    <3>2. QED
      BY <1>4, <3>1 DEF In
  <2>2. poll[p].options \subseteq Options /\ poll[q].options \subseteq Options
    BY <1>4, PollFields
  <2>3. QED
    BY <2>1, <2>2
<1>8. poll[p].ballots = poll[q].ballots
  <2>1. /\ poll[p].ballots \in [Peers -> 0..MaxVotes]
        /\ poll[q].ballots \in [Peers -> 0..MaxVotes]
    BY <1>4, PollFields DEF Votes
  <2>2. ASSUME NEW v \in Peers, NEW n \in 1..MaxVotes
        PROVE  n <= poll[p].ballots[v] <=> n <= poll[q].ballots[v]
    <3> DEFINE f == [kind |-> "vote", of |-> v, least |-> n]
    <3>1. f \in Fact /\ f.kind = "vote" /\ f.of = v /\ f.least = n
      BY DEF Fact
    <3> HIDE DEF f
    <3>2. QED
      BY <1>4, <3>1 DEF In
  <2>3. ASSUME NEW v \in Peers PROVE poll[p].ballots[v] = poll[q].ballots[v]
    <3>1. poll[p].ballots[v] \in 0..MaxVotes /\ poll[q].ballots[v] \in 0..MaxVotes
      BY <2>1
    <3>2. \A n \in 1..MaxVotes : n <= poll[p].ballots[v] <=> n <= poll[q].ballots[v]
      BY <2>2
    <3> DEFINE a == poll[p].ballots[v]
               b == poll[q].ballots[v]
    <3> HIDE DEF a, b
    <3>3. a \in 0..MaxVotes /\ b \in 0..MaxVotes /\ MaxVotes \in Nat
      BY <3>1 DEF a, b, ConstantsOK
    <3>4. \A n \in 1..MaxVotes : n <= a <=> n <= b
      BY <3>2 DEF a, b
    <3>5. (a # 0 => a <= b) /\ (b # 0 => b <= a)
      BY <3>3, <3>4
    <3>6. a = b
      BY <3>3, <3>5
    <3>7. QED
      BY <3>6 DEF a, b
  <2>4. QED
    BY <2>1, <2>3
<1>9. poll[p].result = poll[q].result
  BY <1>1, <1>5, <1>8 DEF Results, Sound
<1>10. QED
  BY <1>4, <1>5, <1>6, <1>7, <1>8, <1>9 DEF Poll

\* Group_Decisions.md:32-34: when nothing is under way everybody in the room who has the poll
\* has the same poll, votes and result, whoever came in when and whatever was heard before the
\* poll itself, however many peers and options there are.  Everybody gives its copy to who comes
\* in or was there before it (app.ts:8262-8310, onPeerReady), and a copy adds to what one has
\* without replacing a vote (app.ts:9023-9025), so that a newer vote must come as a frame of its
\* own: not so when it went past somebody, or somebody left or lost the poll with a newcomer
\* unserved (missed), or when a vote or a nomination crossed the close or the lock (late).
THEOREM PollsAlwaysAgree == ASSUME ConstantsOK PROVE Spec => []PollsAgree
<1>1. Init => TypeOK /\ QueuesOK /\ PollInv /\ AgreeInv
  BY InitInv, AgreeInit
<1>2. (TypeOK /\ QueuesOK /\ PollInv /\ AgreeInv) /\ [Next]_vars
          => (TypeOK /\ QueuesOK /\ PollInv /\ AgreeInv)'
  BY NextInv, AgreeNext
<1>3. TypeOK /\ QueuesOK /\ PollInv /\ AgreeInv => PollsAgree
  BY RestAgrees
<1>4. QED
  BY <1>1, <1>2, <1>3, PTL DEF Spec

=============================================================================
