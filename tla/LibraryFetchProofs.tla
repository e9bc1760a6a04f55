-------------------------- MODULE LibraryFetchProofs --------------------------
(* Proofs about LibraryFetch: its types, and that only the whole, right file is *)
(* kept, once, for every number of holders, chunks, asks and faults.            *)
EXTENDS LibraryFetch, SequenceTheorems, TLAPS

\* What is true of every transfer, in the map or not.
Sound(x) ==
    /\ x.pending <= Len(x.arrived)
    /\ Len(x.arrived) <= Total
    /\ x.kept <= 1
    /\ x.kept > 0 => x.writer = "closed" /\ x.pending = 0 /\ x.arrived = WholeFile

Transfers(m) ==
    /\ m \in Asker
    /\ m.incoming <= Len(m.xfers)
    /\ \A n \in 1..Len(m.xfers) : Sound(m.xfers[n])

\* The one in the map is still being written.
Current(m) ==
    m.incoming # 0 =>
        m.xfers[m.incoming].kept = 0 /\ m.xfers[m.incoming].writer = "open"

Frames ==
    /\ want \in [Holders -> 0..MaxAsks]
    /\ answers \in [Holders -> Seq({"head", "deny"})]
    /\ parts \in [Holders -> Seq(Chunk)]
    /\ channel \in [Holders -> BOOLEAN]
    /\ serving \in [Holders -> Seq(Serving)]
    /\ gap \in BOOLEAN
    /\ budget \in [asks: 0..MaxAsks, faults: 0..MaxFaults]

\* Every timer was set by an ask; every part file being opened, every answer and every
\* ask on its way stands for one.
Within(a, b, c, d) ==
    /\ a \in Nat /\ b \in Nat /\ c \in Nat /\ d \in Nat
    /\ a + b + c + d <= MaxAsks

AsksSpent ==
    /\ budget.asks + me.timers <= MaxAsks
    /\ \A h \in Holders :
           Within(me.opening[h], Len(answers[h]), want[h], budget.asks)

FetchInv == Transfers(me) /\ Current(me) /\ Frames /\ AsksSpent

------------------------------------------------------------------------------
(* The asker's functions *)

LEMMA PutTransfer ==
    ASSUME NEW m, Transfers(m), NEW n \in 1..Len(m.xfers), NEW x \in Incoming, Sound(x)
    PROVE  /\ Transfers([m EXCEPT !.xfers[n] = x])
           /\ [m EXCEPT !.xfers[n] = x].timers = m.timers
           /\ [m EXCEPT !.xfers[n] = x].opening = m.opening
           /\ [m EXCEPT !.xfers[n] = x].incoming = m.incoming
           /\ Len([m EXCEPT !.xfers[n] = x].xfers) = Len(m.xfers)
           /\ \A k \in 1..Len(m.xfers) :
                  [m EXCEPT !.xfers[n] = x].xfers[k] = IF k = n THEN x ELSE m.xfers[k]
<1> DEFINE xs == [m.xfers EXCEPT ![n] = x]
           put == [m EXCEPT !.xfers[n] = x]
<1>1. m \in Asker /\ m.xfers \in Seq(Incoming)
  BY DEF Transfers, Asker
<1>2. /\ xs \in Seq(Incoming) /\ Len(xs) = Len(m.xfers)
      /\ \A k \in 1..Len(m.xfers) : xs[k] = IF k = n THEN x ELSE m.xfers[k]
  BY <1>1, ExceptSeq
<1>3. put = [m EXCEPT !.xfers = xs]
  BY <1>1 DEF Asker
<1> HIDE DEF xs
<1>4. /\ put \in Asker /\ put.xfers = xs /\ put.timers = m.timers
      /\ put.opening = m.opening /\ put.incoming = m.incoming
  BY <1>1, <1>2, <1>3 DEF Asker
<1> HIDE DEF put
<1>5. Transfers(put)
  BY <1>2, <1>4 DEF Transfers
<1>6. QED
  BY <1>2, <1>4, <1>5 DEF put

LEMMA NoneInMap ==
    ASSUME NEW m, Transfers(m)
    PROVE  LET out == [m EXCEPT !.asked = None, !.incoming = 0]
           IN  /\ Transfers(out) /\ Current(out)
               /\ out.timers = m.timers /\ out.opening = m.opening
<1> DEFINE out == [m EXCEPT !.asked = None, !.incoming = 0]
<1>1. m \in Asker
  BY DEF Transfers
<1>2. /\ out \in Asker /\ out.incoming = 0 /\ out.xfers = m.xfers
      /\ out.timers = m.timers /\ out.opening = m.opening
  BY <1>1 DEF Asker
<1> HIDE DEF out
<1>3. Len(out.xfers) \in Nat
  BY <1>2 DEF Asker
<1>4. Transfers(out) /\ Current(out)
  BY <1>2, <1>3 DEF Transfers, Current
<1>5. QED
  BY <1>2, <1>4 DEF out

LEMMA AbandonHolds ==
    ASSUME NEW m, Transfers(m),
           m.incoming # 0 => m.xfers[m.incoming].kept = 0
    PROVE  /\ Transfers(Abandon(m)) /\ Current(Abandon(m))
           /\ Abandon(m).timers = m.timers /\ Abandon(m).opening = m.opening
<1>1. m \in Asker
  BY DEF Transfers
<1>2. CASE m.incoming = 0
  <2>1. [m EXCEPT !.asked = None] = [m EXCEPT !.asked = None, !.incoming = 0]
    BY <1>1, <1>2 DEF Asker
  <2>2. QED
    BY <1>2, <2>1, NoneInMap DEF Abandon
<1>3. CASE m.incoming # 0
  <2> DEFINE n == m.incoming
             y == m.xfers[n]
             x == [y EXCEPT !.writer = IF @ = "open" THEN "closed" ELSE @]
             put == [m EXCEPT !.xfers[n] = x]
  <2>1. n \in 1..Len(m.xfers) /\ y \in Incoming /\ Sound(y) /\ y.kept = 0
    BY <1>1, <1>3 DEF Transfers, Asker
  <2> HIDE DEF y
  <2>2. x \in Incoming /\ Sound(x)
    BY <2>1 DEF Incoming, Sound
  <2>3. Transfers(put) /\ put.timers = m.timers /\ put.opening = m.opening
    BY <2>1, <2>2, PutTransfer
  <2>4. Abandon(m) = [put EXCEPT !.asked = None, !.incoming = 0]
    BY <1>1, <1>3 DEF Abandon, Asker, y
  <2> HIDE DEF put
  <2>5. QED
    BY <2>3, <2>4, NoneInMap
<1>4. QED
  BY <1>2, <1>3

LEMMA FinishHolds ==
    ASSUME NEW m, Transfers(m), NEW n \in 1..Len(m.xfers)
    PROVE  /\ Transfers(Finish(m, n)) /\ Current(Finish(m, n))
           /\ Finish(m, n).timers = m.timers /\ Finish(m, n).opening = m.opening
<1> DEFINE y == m.xfers[n]
           x == [y EXCEPT !.writer = IF @ = "open" THEN "closing" ELSE @]
           put == [m EXCEPT !.xfers[n] = x]
<1>1. m \in Asker /\ y \in Incoming /\ Sound(y)
  BY DEF Transfers, Asker
<1> HIDE DEF y
<1>2. x \in Incoming /\ Sound(x)
  BY <1>1 DEF Incoming, Sound
<1>3. Transfers(put) /\ put.timers = m.timers /\ put.opening = m.opening
  BY <1>2, PutTransfer
<1>4. Finish(m, n) = [put EXCEPT !.asked = None, !.incoming = 0]
  BY <1>1 DEF Finish, Asker, y
<1> HIDE DEF put
<1>5. QED
  BY <1>3, <1>4, NoneInMap

\* The chunk that is due is appended, and is being written.
LEMMA ArriveHolds ==
    ASSUME NEW m, Transfers(m), Current(m), m.incoming # 0,
           NEW c \in Chunk, c.seq = Due(m.xfers[m.incoming])
    PROVE  /\ Transfers(Arrive(m, c)) /\ Current(Arrive(m, c))
           /\ Arrive(m, c).timers = m.timers /\ Arrive(m, c).opening = m.opening
<1> DEFINE n == m.incoming
           y == m.xfers[n]
           x == [y EXCEPT !.arrived = Append(@, c), !.pending = @ + 1]
           put == [m EXCEPT !.xfers[n] = x]
<1>1. m \in Asker /\ n \in 1..Len(m.xfers) /\ y \in Incoming /\ Sound(y)
  BY DEF Transfers, Asker
<1>2. y.kept = 0 /\ y.writer = "open" /\ c.seq = Len(y.arrived)
  BY DEF Current, Due
<1> HIDE DEF y
<1>3. c.seq + 1 <= Total /\ Total \in Nat
  BY FetchAssumption DEF Chunk
<1>4. y.arrived \in Seq(Chunk) /\ y.pending \in Nat
  BY <1>1 DEF Incoming
<1>5. Append(y.arrived, c) \in Seq(Chunk) /\ Len(Append(y.arrived, c)) = Len(y.arrived) + 1
  BY <1>4
<1>6. /\ x.arrived = Append(y.arrived, c) /\ x.pending = y.pending + 1
      /\ x.kept = 0 /\ x.writer = "open"
  BY <1>1, <1>2 DEF Incoming
<1>7. x.pending <= Len(x.arrived) /\ Len(x.arrived) <= Total
  BY <1>1, <1>2, <1>3, <1>4, <1>5, <1>6 DEF Sound
<1>8. y.pending + 1 \in 0..Total
  BY <1>1, <1>2, <1>3, <1>4, <1>5 DEF Sound
<1>9. x \in Incoming
  BY <1>1, <1>5, <1>8 DEF Incoming
<1>10. Sound(x)
  BY <1>6, <1>7 DEF Sound
<1>11. /\ Transfers(put) /\ put.timers = m.timers /\ put.opening = m.opening
       /\ put.incoming = n /\ put.xfers[n] = x
  BY <1>1, <1>9, <1>10, PutTransfer
<1>12. Arrive(m, c) = put
  BY DEF Arrive, y
<1> HIDE DEF put, x
<1>13. Current(put)
  BY <1>6, <1>11 DEF Current
<1>14. QED
  BY <1>11, <1>12, <1>13

------------------------------------------------------------------------------
(* The asker's actions *)

LEMMA SameTransfers ==
    ASSUME NEW m, Transfers(m), Current(m), NEW k \in Asker,
           k.xfers = m.xfers, k.incoming = m.incoming
    PROVE  Transfers(k) /\ Current(k)
BY DEF Transfers, Current

LEMMA Counters ==
    ASSUME FetchInv
    PROVE  /\ MaxAsks \in Nat /\ MaxFaults \in Nat /\ Total \in Nat \ {0}
           /\ me \in Asker
           /\ budget \in [asks: 0..MaxAsks, faults: 0..MaxFaults]
           /\ budget.asks \in 0..MaxAsks /\ budget.faults \in 0..MaxFaults
           /\ me.timers \in Nat /\ budget.asks + me.timers <= MaxAsks
<1>1. /\ MaxAsks \in Nat /\ MaxFaults \in Nat /\ Total \in Nat \ {0} /\ me \in Asker
      /\ budget \in [asks: 0..MaxAsks, faults: 0..MaxFaults]
  BY FetchAssumption DEF FetchInv, Transfers, Frames
<1>2. budget.asks \in 0..MaxAsks /\ budget.faults \in 0..MaxFaults
  BY <1>1
<1>3. me.timers \in Nat /\ budget.asks + me.timers <= MaxAsks
  BY <1>1 DEF FetchInv, AsksSpent, Asker
<1>4. QED
  BY <1>1, <1>2, <1>3

LEMMA OneMore ==
    ASSUME NEW a, NEW b, NEW c, NEW d, Within(a, b, c, d)
    PROVE  /\ d > 0 => c + 1 \in 0..MaxAsks /\ Within(a, b, c + 1, d - 1)
           /\ d > 0 => Within(a, b, c, d - 1)
           /\ \A n \in Nat : n <= b => Within(a, n, c, d)
           /\ \A n \in Nat : n + 1 = b => a + 1 \in 0..MaxAsks /\ Within(a + 1, n, c, d)
           /\ \A n \in Nat : n <= a => Within(n, b, c, d)
           /\ \A n \in Nat : n + 1 = c => n \in 0..MaxAsks /\ Within(a, b + 1, n, d)
           /\ \A n \in Nat : n + 1 = c => Within(a, b, n, d)
BY FetchAssumption DEF Within

\* An ask or a fault is taken from what is left.
LEMMA Spending ==
    ASSUME FetchInv
    PROVE  /\ budget.asks > 0 =>
                  LET left == [budget EXCEPT !.asks = @ - 1]
                  IN  /\ left \in [asks: 0..MaxAsks, faults: 0..MaxFaults]
                      /\ left.asks = budget.asks - 1
           /\ budget.faults > 0 =>
                  LET left == [budget EXCEPT !.faults = @ - 1]
                  IN  /\ left \in [asks: 0..MaxAsks, faults: 0..MaxFaults]
                      /\ left.asks = budget.asks
<1>1. /\ MaxAsks \in Nat /\ MaxFaults \in Nat
      /\ budget \in [asks: 0..MaxAsks, faults: 0..MaxFaults]
  BY Counters
<1>2. /\ budget.asks > 0 => budget.asks - 1 \in 0..MaxAsks
      /\ budget.faults > 0 => budget.faults - 1 \in 0..MaxFaults
  BY <1>1
<1>3. QED
  BY <1>1, <1>2

LEMMA WantInv ==
    ASSUME FetchInv, NEW h \in Holders, Want(h)
    PROVE  FetchInv'
<1>1. /\ me \in Asker /\ MaxAsks \in Nat /\ budget.asks \in Nat /\ me.timers \in Nat
      /\ budget.asks + me.timers <= MaxAsks
  BY Counters
<1>2. budget.asks > 0 /\ budget' = [budget EXCEPT !.asks = @ - 1]
  BY DEF Want
<1>3. /\ budget' \in [asks: 0..MaxAsks, faults: 0..MaxFaults]
      /\ budget'.asks = budget.asks - 1
  BY <1>2, Spending
<1>4. /\ me' \in Asker /\ me'.xfers = me.xfers /\ me'.incoming = me.incoming
      /\ me'.opening = me.opening /\ me'.timers \in {me.timers, me.timers + 1}
  <2>1. me.timers + 1 \in 0..MaxAsks
    BY <1>1, <1>2
  <2>2. \/ me' = [me EXCEPT !.asked = h, !.timers = @ + 1]
        \/ me' = [me EXCEPT !.asked = h]
    BY DEF Want
  <2>3. QED
    BY <1>1, <2>1, <2>2 DEF Asker
<1>5. /\ want' \in [Holders -> 0..MaxAsks]
      /\ \A g \in Holders : want'[g] \in {want[g], want[g] + 1}
  <2>1. want[h] + 1 \in 0..MaxAsks
    <3>1. Within(me.opening[h], Len(answers[h]), want[h], budget.asks)
      BY DEF FetchInv, AsksSpent
    <3>2. QED
      BY <1>2, <3>1, OneMore
  <2>2. want \in [Holders -> 0..MaxAsks]
    BY DEF FetchInv, Frames
  <2>3. want' = want \/ want' = [want EXCEPT ![h] = @ + 1]
    BY DEF Want
  <2>4. QED
    BY <2>1, <2>2, <2>3
<1>6. Transfers(me') /\ Current(me')
  BY <1>4, SameTransfers DEF FetchInv
<1>7. Frames'
  BY <1>3, <1>5 DEF Want, Frames, FetchInv
<1>8. AsksSpent'
  <2>1. budget'.asks + me'.timers <= MaxAsks
    BY <1>1, <1>3, <1>4
  <2>2. ASSUME NEW g \in Holders
        PROVE  Within(me'.opening[g], Len(answers'[g]), want'[g], budget'.asks)
    <3>1. Within(me.opening[g], Len(answers[g]), want[g], budget.asks)
      BY DEF FetchInv, AsksSpent
    <3>2. /\ answers' = answers /\ me'.opening = me.opening /\ budget'.asks = budget.asks - 1
          /\ want'[g] \in {want[g], want[g] + 1}
      BY <1>3, <1>4, <1>5 DEF Want
    <3>3. QED
      BY <1>2, <3>1, <3>2, OneMore
  <2>3. QED
    BY <2>1, <2>2 DEF AsksSpent
<1>9. QED
  BY <1>6, <1>7, <1>8 DEF FetchInv

\* The map loses its entry, and the frames on their way, but for those taken, stay.
LEMMA GivenUpInv ==
    ASSUME FetchInv, me' = Abandon(me), UNCHANGED <<want, channel, serving, budget>>,
           parts' \in [Holders -> Seq(Chunk)], gap' \in BOOLEAN,
           answers' \in [Holders -> Seq({"head", "deny"})],
           \A h \in Holders : Len(answers'[h]) <= Len(answers[h])
    PROVE  FetchInv'
<1>1. /\ Transfers(me') /\ Current(me') /\ me'.timers = me.timers
      /\ me'.opening = me.opening
  BY AbandonHolds DEF FetchInv, Current
<1>2. Frames'
  BY DEF Frames, FetchInv
<1>3. AsksSpent'
  <2>1. budget'.asks + me'.timers <= MaxAsks
    BY <1>1 DEF FetchInv, AsksSpent
  <2>2. ASSUME NEW g \in Holders
        PROVE  Within(me'.opening[g], Len(answers'[g]), want'[g], budget'.asks)
    <3>1. Len(answers'[g]) \in Nat
      OBVIOUS
    <3>2. Within(me.opening[g], Len(answers[g]), want[g], budget.asks)
      BY DEF FetchInv, AsksSpent
    <3>3. QED
      BY <1>1, <3>1, <3>2, OneMore
  <2>3. QED
    BY <2>1, <2>2 DEF AsksSpent
<1>4. QED
  BY <1>1, <1>2, <1>3 DEF FetchInv

LEMMA Taking ==
    ASSUME Frames, NEW h \in Holders, answers[h] # <<>>
    PROVE  LET rest == [answers EXCEPT ![h] = Tail(@)]
           IN  /\ rest \in [Holders -> Seq({"head", "deny"})]
               /\ \A g \in Holders : Len(rest[g]) <= Len(answers[g])
               /\ Len(rest[h]) + 1 = Len(answers[h])
<1> DEFINE q == answers[h]
<1>1. q \in Seq({"head", "deny"}) /\ q # <<>>
  BY DEF Frames
<1> HIDE DEF q
<1>2. Tail(q) \in Seq({"head", "deny"}) /\ Len(Tail(q)) + 1 = Len(q)
  BY <1>1
<1>3. answers \in [Holders -> Seq({"head", "deny"})]
  BY DEF Frames
<1>4. \A g \in Holders : Len(answers[g]) \in Nat
  BY <1>3
<1>5. QED
  BY <1>2, <1>3, <1>4 DEF q

LEMMA EndingInv ==
    ASSUME FetchInv, NEW h \in Holders, Cancel \/ OnDeny(h)
    PROVE  FetchInv'
<1>1. CASE Cancel
  <2>1. /\ me' = Abandon(me) /\ UNCHANGED <<want, channel, serving, budget>>
        /\ parts' \in [Holders -> Seq(Chunk)] /\ gap' \in BOOLEAN
        /\ answers' \in [Holders -> Seq({"head", "deny"})] /\ answers' = answers
    BY <1>1 DEF Cancel, transport, FetchInv, Frames
  <2>2. \A g \in Holders : Len(answers'[g]) <= Len(answers[g])
    <3>1. ASSUME NEW g \in Holders  PROVE Len(answers[g]) \in Nat
      BY DEF FetchInv, Frames
    <3>2. QED
      BY <2>1, <3>1
  <2>3. QED
    BY <2>1, <2>2, GivenUpInv
<1>2. CASE OnDeny(h)
  <2>1. /\ me' = Abandon(me) /\ UNCHANGED <<want, channel, serving, budget>>
        /\ parts' \in [Holders -> Seq(Chunk)] /\ gap' \in BOOLEAN
        /\ answers[h] # <<>> /\ answers' = [answers EXCEPT ![h] = Tail(@)]
    BY <1>2 DEF OnDeny, FetchInv, Frames
  <2>2. /\ answers' \in [Holders -> Seq({"head", "deny"})]
        /\ \A g \in Holders : Len(answers'[g]) <= Len(answers[g])
    BY <2>1, Taking DEF FetchInv
  <2>3. QED
    BY <2>1, <2>2, GivenUpInv
<1>3. QED
  BY <1>1, <1>2

LEMMA TimerInv ==
    ASSUME FetchInv, AskTimesOut
    PROVE  FetchInv'
<1>1. /\ me \in Asker /\ MaxAsks \in Nat /\ budget.asks \in Nat /\ me.timers \in Nat
      /\ budget.asks + me.timers <= MaxAsks
  BY Counters
<1>2. /\ me' \in Asker /\ me'.xfers = me.xfers /\ me'.incoming = me.incoming
      /\ me'.opening = me.opening /\ me'.timers = me.timers - 1
  <2>1. /\ me.timers > 0
        /\ \/ me' = [me EXCEPT !.timers = @ - 1, !.asked = None]
           \/ me' = [me EXCEPT !.timers = @ - 1, !.asked = @]
    BY DEF AskTimesOut
  <2>2. me.timers - 1 \in 0..MaxAsks
    BY <1>1, <2>1
  <2>3. QED
    BY <1>1, <2>1, <2>2 DEF Asker
<1>3. Transfers(me') /\ Current(me')
  BY <1>2, SameTransfers DEF FetchInv
<1>4. Frames'
  BY DEF AskTimesOut, transport, FetchInv, Frames
<1>5. AsksSpent'
  <2>1. want' = want /\ answers' = answers /\ budget' = budget
    BY DEF AskTimesOut, transport
  <2>2. budget'.asks + me'.timers <= MaxAsks
    BY <1>1, <1>2, <2>1
  <2>3. QED
    BY <1>2, <2>1, <2>2 DEF FetchInv, AsksSpent
<1>6. QED
  BY <1>3, <1>4, <1>5 DEF FetchInv

LEMMA HeadInv ==
    ASSUME FetchInv, NEW h \in Holders, OnHead(h)
    PROVE  FetchInv'
<1>1. me \in Asker
  BY Counters
<1>2. answers[h] # <<>> /\ answers' = [answers EXCEPT ![h] = Tail(@)]
  BY DEF OnHead
<1>3. /\ answers' \in [Holders -> Seq({"head", "deny"})]
      /\ \A g \in Holders : Len(answers'[g]) <= Len(answers[g])
      /\ Len(answers'[h]) + 1 = Len(answers[h])
  BY <1>2, Taking DEF FetchInv
<1>4. me.opening[h] + 1 \in 0..MaxAsks
  <2>1. Len(answers'[h]) \in Nat
    BY <1>3
  <2>2. Within(me.opening[h], Len(answers[h]), want[h], budget.asks)
    BY DEF FetchInv, AsksSpent
  <2>3. QED
    BY <1>3, <2>1, <2>2, OneMore
<1>5. /\ me' \in Asker /\ me'.xfers = me.xfers /\ me'.incoming = me.incoming
      /\ me'.timers = me.timers
      /\ \A g \in Holders :
             \/ me'.opening[g] = me.opening[g]
             \/ g = h /\ me'.opening[g] = me.opening[g] + 1
  <2>1. me' = [me EXCEPT !.opening[h] = @ + 1] \/ me' = me
    BY DEF OnHead
  <2>2. me.opening \in [Holders -> 0..MaxAsks]
    BY <1>1 DEF Asker
  <2>3. CASE me' = [me EXCEPT !.opening[h] = @ + 1]
    <3> DEFINE o == [me.opening EXCEPT ![h] = @ + 1]
    <3>1. me' = [me EXCEPT !.opening = o]
      BY <2>3
    <3>2. /\ o \in [Holders -> 0..MaxAsks]
          /\ \A g \in Holders :
                 \/ o[g] = me.opening[g]
                 \/ g = h /\ o[g] = me.opening[g] + 1
      BY <1>4, <2>2
    <3> HIDE DEF o
    <3>3. QED
      BY <1>1, <3>1, <3>2 DEF Asker
  <2>4. QED
    BY <1>1, <2>1, <2>3
<1>6. Transfers(me') /\ Current(me')
  BY <1>5, SameTransfers DEF FetchInv
<1>7. Frames'
  BY <1>3 DEF OnHead, FetchInv, Frames
<1>8. AsksSpent'
  <2>1. budget' = budget /\ want' = want
    BY DEF OnHead
  <2>2. ASSUME NEW g \in Holders
        PROVE  Within(me'.opening[g], Len(answers'[g]), want'[g], budget'.asks)
    <3>1. Len(answers'[g]) \in Nat /\ Len(answers'[g]) <= Len(answers[g])
      BY <1>3
    <3>2. Within(me.opening[g], Len(answers[g]), want[g], budget.asks)
      BY DEF FetchInv, AsksSpent
    <3>3. \/ me'.opening[g] = me.opening[g]
          \/ /\ me'.opening[g] = me.opening[g] + 1
             /\ Len(answers'[g]) + 1 = Len(answers[g])
      BY <1>3, <1>5
    <3>4. QED
      BY <2>1, <3>1, <3>2, <3>3, OneMore
  <2>3. QED
    BY <1>5, <2>1, <2>2 DEF FetchInv, AsksSpent
<1>9. QED
  BY <1>6, <1>7, <1>8 DEF FetchInv

\* openPart is back, with a file or without.
LEMMA OpenInv ==
    ASSUME FetchInv, NEW h \in Holders, PartOpened(h) \/ PartRefused(h)
    PROVE  FetchInv'
<1> DEFINE o == [me.opening EXCEPT ![h] = @ - 1]
<1>1. me \in Asker /\ me.opening \in [Holders -> 0..MaxAsks] /\ MaxAsks \in Nat
      /\ Total \in Nat \ {0} /\ me.xfers \in Seq(Incoming)
  BY Counters DEF Asker
<1>2. me.opening[h] > 0 /\ UNCHANGED <<want, answers, parts, channel, serving, gap>>
  BY DEF PartOpened, PartRefused, transport
<1>3. /\ o \in [Holders -> 0..MaxAsks]
      /\ \A g \in Holders : o[g] \in Nat /\ o[g] <= me.opening[g]
  BY <1>1, <1>2
<1> HIDE DEF o
<1>4. /\ budget' \in [asks: 0..MaxAsks, faults: 0..MaxFaults]
      /\ budget'.asks = budget.asks
  BY Counters, Spending DEF PartOpened, PartRefused, Faulted
<1>5. Transfers(me') /\ Current(me') /\ me'.timers = me.timers /\ me'.opening = o
  <2>1. CASE PartOpened(h)
    <3> DEFINE xs == Append(me.xfers, Opened(h))
    <3>1. me' = [me EXCEPT !.opening = o, !.xfers = xs, !.incoming = Len(me.xfers) + 1]
      BY <2>1 DEF PartOpened, o
    <3>2. /\ Opened(h) \in Incoming /\ Sound(Opened(h))
          /\ Opened(h).kept = 0 /\ Opened(h).writer = "open"
      BY <1>1 DEF Opened, Incoming, Sound
    <3>3. /\ xs \in Seq(Incoming) /\ Len(xs) = Len(me.xfers) + 1 /\ Len(me.xfers) \in Nat
          /\ xs[Len(me.xfers) + 1] = Opened(h)
          /\ \A n \in 1..Len(me.xfers) : xs[n] = me.xfers[n]
      BY <1>1, <3>2
    <3> HIDE DEF xs
    <3>4. /\ me' \in Asker /\ me'.xfers = xs /\ me'.incoming = Len(me.xfers) + 1
          /\ me'.opening = o /\ me'.timers = me.timers
      <4> DEFINE j == Len(me.xfers) + 1
      <4>1. o \in [Holders -> 0..MaxAsks] /\ j \in Nat /\ xs \in Seq(Incoming)
        BY <1>3, <3>3
      <4>2. me' = [me EXCEPT !.opening = o, !.xfers = xs, !.incoming = j]
        BY <3>1
      <4> HIDE DEF j
      <4>3. /\ me' \in Asker /\ me'.xfers = xs /\ me'.incoming = j
            /\ me'.opening = o /\ me'.timers = me.timers
        BY <1>1, <4>1, <4>2 DEF Asker
      <4>4. QED
        BY <4>3 DEF j
    <3>5. ASSUME NEW n \in 1..Len(xs)  PROVE Sound(xs[n])
      <4>1. n \in 1..Len(me.xfers) \/ n = Len(me.xfers) + 1
        BY <3>3
      <4>2. QED
        BY <3>2, <3>3, <4>1 DEF FetchInv, Transfers
    <3>6. Transfers(me')
      BY <3>3, <3>4, <3>5 DEF Transfers
    <3>7. Current(me')
      BY <3>2, <3>3, <3>4 DEF Current
    <3>8. QED
      BY <3>4, <3>6, <3>7
  <2>2. CASE PartRefused(h)
    <3>1. me' = [me EXCEPT !.opening = o]
      BY <2>2 DEF PartRefused, o
    <3>2. /\ me' \in Asker /\ me'.xfers = me.xfers /\ me'.incoming = me.incoming
          /\ me'.opening = o /\ me'.timers = me.timers
      BY <1>1, <1>3, <3>1 DEF Asker
    <3>3. QED
      BY <3>2, SameTransfers DEF FetchInv
  <2>3. QED
    BY <2>1, <2>2
<1>6. Frames'
  BY <1>2, <1>4 DEF FetchInv, Frames
<1>7. AsksSpent'
  <2>1. ASSUME NEW g \in Holders
        PROVE  Within(me'.opening[g], Len(answers'[g]), want'[g], budget'.asks)
    <3>1. Within(me.opening[g], Len(answers[g]), want[g], budget.asks)
      BY DEF FetchInv, AsksSpent
    <3>2. QED
      BY <1>2, <1>3, <1>4, <1>5, <3>1, OneMore
  <2>2. budget'.asks + me'.timers <= MaxAsks
    BY <1>4, <1>5, Counters
  <2>3. QED
    BY <2>1, <2>2 DEF AsksSpent
<1>8. QED
  BY <1>5, <1>6, <1>7 DEF FetchInv

\* What a step of the writer, or a chunk, leaves alone.
LEMMA OfTheFileInv ==
    ASSUME FetchInv, Transfers(me'), Current(me'),
           me'.timers = me.timers, me'.opening = me.opening,
           parts' \in [Holders -> Seq(Chunk)], gap' \in BOOLEAN,
           budget' \in [asks: 0..MaxAsks, faults: 0..MaxFaults],
           budget'.asks = budget.asks,
           UNCHANGED <<want, answers, channel, serving>>
    PROVE  FetchInv'
<1>1. Frames'
  BY DEF FetchInv, Frames
<1>2. AsksSpent'
  BY DEF FetchInv, AsksSpent
<1>3. QED
  BY <1>1, <1>2 DEF FetchInv

LEMMA PartInv ==
    ASSUME FetchInv, NEW h \in Holders, OnPart(h)
    PROVE  FetchInv'
<1> DEFINE c == Head(parts[h])
<1>1. parts[h] \in Seq(Chunk) /\ parts[h] # <<>> /\ parts' = [parts EXCEPT ![h] = Tail(@)]
  BY DEF OnPart, FetchInv, Frames
<1>2. c \in Chunk /\ Tail(parts[h]) \in Seq(Chunk)
  BY <1>1
<1>3. parts' \in [Holders -> Seq(Chunk)]
  BY <1>1, <1>2 DEF FetchInv, Frames
<1>4. UNCHANGED <<want, answers, channel, serving, budget>>
  BY DEF OnPart
<1>5. \/ me' = me /\ gap' = gap
      \/ me' = Abandon(me) /\ gap' = TRUE
      \/ /\ me' = Arrive(me, c) /\ gap' = gap
         /\ me.incoming # 0 /\ c.seq = Due(me.xfers[me.incoming])
  BY DEF OnPart
<1> HIDE DEF c
<1>6. budget \in [asks: 0..MaxAsks, faults: 0..MaxFaults] /\ gap \in BOOLEAN
  BY DEF FetchInv, Frames
<1>7. Transfers(me) /\ Current(me)
  BY DEF FetchInv
<1>8. /\ Transfers(me') /\ Current(me')
      /\ me'.timers = me.timers /\ me'.opening = me.opening
  BY <1>2, <1>5, <1>7, AbandonHolds, ArriveHolds DEF Current
<1>9. QED
  BY <1>3, <1>4, <1>5, <1>6, <1>8, OfTheFileInv

LEMMA WrittenInv ==
    ASSUME FetchInv, NEW n \in 1..Len(me.xfers), Written(n)
    PROVE  FetchInv'
<1> DEFINE y == me.xfers[n]
           x == [y EXCEPT !.pending = @ - 1]
           put == [me EXCEPT !.xfers[n] = x]
<1>1. Transfers(me) /\ Current(me) /\ me \in Asker /\ y \in Incoming /\ Sound(y) /\ y.pending > 0
  BY DEF FetchInv, Transfers, Asker, Written
<1>2. /\ me' = put \/ me' = Finish(put, n)
      /\ UNCHANGED <<want, answers, parts, channel, serving, gap, budget>>
  BY DEF Written, transport
<1> HIDE DEF y
<1>3. Total \in Nat
  BY FetchAssumption
<1>4. x \in Incoming /\ Sound(x) /\ x.kept = y.kept /\ x.writer = y.writer
  <2>1. y.pending \in 0..Total /\ Len(y.arrived) \in Nat
    BY <1>1 DEF Incoming
  <2>2. y.pending - 1 \in 0..Total /\ y.pending - 1 <= Len(y.arrived)
    BY <1>1, <1>3, <2>1 DEF Sound
  <2>3. QED
    BY <1>1, <2>2 DEF Incoming, Sound
<1> HIDE DEF x
<1>5. /\ Transfers(put) /\ put.timers = me.timers /\ put.opening = me.opening
      /\ put.incoming = me.incoming /\ Len(put.xfers) = Len(me.xfers)
      /\ \A k \in 1..Len(me.xfers) : put.xfers[k] = IF k = n THEN x ELSE me.xfers[k]
  BY <1>1, <1>4, PutTransfer
<1> HIDE DEF put
<1>6. Current(put)
  <2>1. put.incoming # 0 => me.incoming \in 1..Len(me.xfers)
    BY <1>1, <1>5 DEF Transfers, Asker
  <2>2. QED
    BY <1>1, <1>4, <1>5, <2>1 DEF Current, y
<1>7. /\ Transfers(Finish(put, n)) /\ Current(Finish(put, n))
      /\ Finish(put, n).timers = me.timers /\ Finish(put, n).opening = me.opening
  BY <1>5, FinishHolds
<1>8. /\ Transfers(me') /\ Current(me')
      /\ me'.timers = me.timers /\ me'.opening = me.opening
  BY <1>2, <1>5, <1>6, <1>7
<1>9. /\ parts' \in [Holders -> Seq(Chunk)] /\ gap' \in BOOLEAN
      /\ budget' \in [asks: 0..MaxAsks, faults: 0..MaxFaults]
  BY <1>2 DEF FetchInv, Frames
<1>10. QED
  BY <1>2, <1>8, <1>9, OfTheFileInv

LEMMA WriteFailsInv ==
    ASSUME FetchInv, NEW n \in 1..Len(me.xfers), WriteFails(n)
    PROVE  FetchInv'
<1> DEFINE y == me.xfers[n]
           x == [y EXCEPT !.pending = @ - 1, !.writer = "errored"]
           put == [me EXCEPT !.xfers[n] = x]
<1>1. Transfers(me) /\ Current(me) /\ me \in Asker /\ y \in Incoming /\ Sound(y) /\ y.pending > 0
  BY DEF FetchInv, Transfers, Asker, WriteFails
<1>2. [me EXCEPT !.xfers[n].pending = @ - 1, !.xfers[n].writer = "errored"] = put
  BY <1>1 DEF Asker
<1>3. me' = Abandon(put) /\ UNCHANGED <<want, answers, parts, channel, serving, gap>>
  BY <1>2 DEF WriteFails, transport
<1>4. /\ budget' \in [asks: 0..MaxAsks, faults: 0..MaxFaults]
      /\ budget'.asks = budget.asks
  BY Counters, Spending DEF WriteFails, Faulted
<1> HIDE DEF y
<1>5. Total \in Nat
  BY FetchAssumption
<1>6. y.kept = 0 /\ y.pending \in 0..Total /\ Len(y.arrived) \in Nat
  <2>1. y.pending \in 0..Total /\ y.kept \in Nat /\ Len(y.arrived) \in Nat
    BY <1>1 DEF Incoming
  <2>2. QED
    BY <1>1, <2>1 DEF Sound
<1>7. x \in Incoming /\ Sound(x) /\ x.kept = 0
  <2>1. y.pending - 1 \in 0..Total /\ y.pending - 1 <= Len(y.arrived)
    BY <1>1, <1>5, <1>6 DEF Sound
  <2>2. x \in Incoming
    BY <1>1, <1>5, <2>1 DEF Incoming
  <2>3. x.pending = y.pending - 1 /\ x.arrived = y.arrived /\ x.kept = 0
    BY <1>1, <1>6 DEF Incoming
  <2>4. Len(x.arrived) <= Total
    BY <1>1, <2>3 DEF Sound
  <2> HIDE DEF x
  <2>5. QED
    BY <2>1, <2>2, <2>3, <2>4 DEF Sound
<1> HIDE DEF x
<1>8. /\ Transfers(put) /\ put.timers = me.timers /\ put.opening = me.opening
      /\ put.incoming = me.incoming /\ Len(put.xfers) = Len(me.xfers)
      /\ \A k \in 1..Len(me.xfers) : put.xfers[k] = IF k = n THEN x ELSE me.xfers[k]
  BY <1>1, <1>7, PutTransfer
<1> HIDE DEF put
<1>9. put.incoming # 0 => put.xfers[put.incoming].kept = 0
  <2>1. put.incoming # 0 => me.incoming \in 1..Len(me.xfers)
    BY <1>1, <1>8 DEF Transfers, Asker
  <2>2. QED
    BY <1>1, <1>7, <1>8, <2>1 DEF Current
<1>10. /\ Transfers(me') /\ Current(me')
       /\ me'.timers = me.timers /\ me'.opening = me.opening
  BY <1>3, <1>8, <1>9, AbandonHolds
<1>11. parts' \in [Holders -> Seq(Chunk)] /\ gap' \in BOOLEAN
  BY <1>3 DEF FetchInv, Frames
<1>12. QED
  BY <1>3, <1>4, <1>10, <1>11, OfTheFileInv

\* A file is kept only out of a writer that is closing, which none is twice.
LEMMA ClosedInv ==
    ASSUME FetchInv, NEW n \in 1..Len(me.xfers), FileClosed(n)
    PROVE  FetchInv'
<1> DEFINE y == me.xfers[n]
           x == Verified(y)
           put == [me EXCEPT !.xfers[n] = x]
<1>1. /\ Transfers(me) /\ Current(me) /\ me \in Asker /\ y \in Incoming /\ Sound(y)
      /\ y.writer = "closing" /\ y.pending = 0
  BY DEF FetchInv, Transfers, Asker, FileClosed
<1>2. me' = put /\ UNCHANGED <<want, answers, parts, channel, serving, gap, budget>>
  BY DEF FileClosed, transport
<1>3. n # me.incoming
  BY <1>1 DEF Current
<1> HIDE DEF y
<1>4. y.kept = 0
  <2>1. y.kept \in Nat
    BY <1>1 DEF Incoming
  <2>2. QED
    BY <1>1, <2>1 DEF Sound
<1>5. x \in Incoming /\ Sound(x)
  <2> DEFINE q == IF y.arrived = WholeFile THEN y.kept + 1 ELSE y.kept
  <2>1. x = [y EXCEPT !.writer = "closed", !.kept = q]
    BY DEF Verified
  <2>2. q \in Nat /\ q <= 1 /\ (q > 0 => y.arrived = WholeFile)
    BY <1>4
  <2> HIDE DEF q, x
  <2>3. /\ x \in Incoming /\ x.kept = q
        /\ x.pending = 0 /\ x.arrived = y.arrived /\ x.writer = "closed"
    BY <1>1, <2>1, <2>2 DEF Incoming
  <2>4. Len(y.arrived) \in Nat /\ Len(y.arrived) <= Total
    BY <1>1 DEF Incoming, Sound
  <2>5. QED
    BY <2>2, <2>3, <2>4 DEF Sound
<1> HIDE DEF x
<1>6. /\ Transfers(put) /\ put.timers = me.timers /\ put.opening = me.opening
      /\ put.incoming = me.incoming /\ Len(put.xfers) = Len(me.xfers)
      /\ \A k \in 1..Len(me.xfers) : put.xfers[k] = IF k = n THEN x ELSE me.xfers[k]
  BY <1>1, <1>5, PutTransfer
<1> HIDE DEF put
<1>7. Current(put)
  <2>1. put.incoming # 0 => me.incoming \in 1..Len(me.xfers)
    BY <1>1, <1>6 DEF Transfers, Asker
  <2>2. QED
    BY <1>1, <1>3, <1>6, <2>1 DEF Current
<1>8. /\ parts' \in [Holders -> Seq(Chunk)] /\ gap' \in BOOLEAN
      /\ budget' \in [asks: 0..MaxAsks, faults: 0..MaxFaults]
  BY <1>2 DEF FetchInv, Frames
<1>9. QED
  BY <1>2, <1>6, <1>7, <1>8, OfTheFileInv

------------------------------------------------------------------------------
(* The holders and the transport *)

\* A frame of theirs leaves the asker alone.
LEMMA TransportInv ==
    ASSUME FetchInv, me' = me, Frames', budget'.asks = budget.asks,
           \A g \in Holders :
               /\ Len(answers'[g]) \in Nat
               /\ \/ want'[g] = want[g] /\ Len(answers'[g]) <= Len(answers[g])
                  \/ /\ want'[g] \in Nat /\ want'[g] + 1 = want[g]
                     /\ \/ answers'[g] = answers[g]
                        \/ Len(answers'[g]) = Len(answers[g]) + 1
    PROVE  FetchInv'
<1>1. AsksSpent'
  <2>1. ASSUME NEW g \in Holders
        PROVE  Within(me'.opening[g], Len(answers'[g]), want'[g], budget'.asks)
    <3>1. Within(me.opening[g], Len(answers[g]), want[g], budget.asks)
      BY DEF FetchInv, AsksSpent
    <3>2. QED
      BY <3>1, OneMore
  <2>2. QED
    BY <2>1 DEF FetchInv, AsksSpent
<1>2. QED
  BY <1>1 DEF FetchInv, Transfers, Current

LEMMA ServeInv ==
    ASSUME FetchInv, NEW h \in Holders, Serve(h)
    PROVE  FetchInv'
<1>1. Frames
  BY DEF FetchInv
<1>2. /\ want[h] > 0 /\ want' = [want EXCEPT ![h] = @ - 1]
      /\ UNCHANGED <<me, parts, channel, gap, budget>>
  BY DEF Serve
<1>3. PICK word \in {"head", "deny"} : answers' = [answers EXCEPT ![h] = Append(@, word)]
  BY DEF Serve
<1>4. /\ want' \in [Holders -> 0..MaxAsks]
      /\ want'[h] \in Nat /\ want'[h] + 1 = want[h]
      /\ \A g \in Holders : g # h => want'[g] = want[g]
  BY <1>1, <1>2, FetchAssumption DEF Frames
<1>5. /\ answers' \in [Holders -> Seq({"head", "deny"})]
      /\ Len(answers'[h]) = Len(answers[h]) + 1
      /\ \A g \in Holders : g # h => answers'[g] = answers[g]
  BY <1>1, <1>3 DEF Frames
<1>6. serving' \in [Holders -> Seq(Serving)]
  <2>1. CASE UNCHANGED serving
    BY <1>1, <2>1 DEF Frames
  <2>2. CASE \E ok \in BOOLEAN : serving' = [serving EXCEPT ![h] =
                Append(@, [next |-> 0, ok |-> ok, reading |-> FALSE])]
    <3>1. PICK ok \in BOOLEAN : serving' = [serving EXCEPT ![h] =
                Append(@, [next |-> 0, ok |-> ok, reading |-> FALSE])]
      BY <2>2
    <3>2. [next |-> 0, ok |-> ok, reading |-> FALSE] \in Serving
      BY FetchAssumption DEF Serving
    <3>3. Append(serving[h], [next |-> 0, ok |-> ok, reading |-> FALSE]) \in Seq(Serving)
      BY <1>1, <3>2 DEF Frames
    <3>4. QED
      BY <1>1, <3>1, <3>3 DEF Frames
  <2>3. QED
    BY <2>1, <2>2 DEF Serve
<1>7. Frames'
  BY <1>1, <1>2, <1>4, <1>5, <1>6 DEF Frames
<1>8. ASSUME NEW g \in Holders
      PROVE  /\ Len(answers'[g]) \in Nat
             /\ \/ want'[g] = want[g] /\ Len(answers'[g]) <= Len(answers[g])
                \/ /\ want'[g] \in Nat /\ want'[g] + 1 = want[g]
                   /\ \/ answers'[g] = answers[g]
                      \/ Len(answers'[g]) = Len(answers[g]) + 1
  <2>1. Len(answers'[g]) \in Nat
    BY <1>5
  <2>2. QED
    BY <1>4, <1>5, <2>1
<1>9. QED
  BY <1>2, <1>7, <1>8, TransportInv

LEMMA Cutting ==
    ASSUME NEW s \in Seq(Serving), NEW k \in 1..Len(s)
    PROVE  RemoveAt(s, k) \in Seq(Serving)
<1>1. /\ SubSeq(s, 1, k - 1) \in Seq(Serving)
      /\ SubSeq(s, k + 1, Len(s)) \in Seq(Serving)
  BY SubSeqProperties
<1>2. QED
  BY <1>1 DEF RemoveAt

LEMMA SliceInv ==
    ASSUME FetchInv, NEW h \in Holders, NEW k \in 1..Len(serving[h]),
           ReadSlice(h, k) \/ SendPart(h, k)
    PROVE  FetchInv'
<1> DEFINE s == serving[h]
           v == s[k]
<1>1. Frames
  BY DEF FetchInv
<1>2. s \in Seq(Serving) /\ v \in Serving /\ k \in 1..Len(s)
  BY <1>1 DEF Frames
<1>3. UNCHANGED <<me, want, answers, channel, gap, budget>>
  BY DEF ReadSlice, SendPart, transport
<1>4. RemoveAt(s, k) \in Seq(Serving)
  BY <1>2, Cutting
<1>5. serving' \in [Holders -> Seq(Serving)] /\ parts' \in [Holders -> Seq(Chunk)]
  <2>1. CASE ReadSlice(h, k)
    <3> DEFINE z == [v EXCEPT !.reading = TRUE]
    <3>1. z \in Serving
      BY <1>2 DEF Serving
    <3>2. [s EXCEPT ![k] = z] \in Seq(Serving)
      BY <1>2, <3>1, ExceptSeq
    <3>3. \/ serving' = [serving EXCEPT ![h] = [s EXCEPT ![k] = z]]
          \/ serving' = [serving EXCEPT ![h] = RemoveAt(s, k)]
      <4>1. [s EXCEPT ![k].reading = TRUE] = [s EXCEPT ![k] = z]
        OBVIOUS
      <4>2. QED
        BY <1>1, <2>1, <4>1 DEF ReadSlice, Frames
    <3>4. parts' = parts
      BY <2>1 DEF ReadSlice, transport
    <3>5. QED
      BY <1>1, <1>4, <3>2, <3>3, <3>4 DEF Frames
  <2>2. CASE SendPart(h, k)
    <3> DEFINE z == [v EXCEPT !.next = @ + 1, !.reading = FALSE]
               c == [seq |-> v.next, ok |-> v.ok]
    <3>1. c \in Chunk /\ v.next \in 0..(Total - 1) /\ Total \in Nat
      BY <1>2, FetchAssumption DEF Serving, Chunk
    <3>2. v.next + 1 # Total => [s EXCEPT ![k] = z] \in Seq(Serving)
      <4>1. v.next + 1 # Total => v.next + 1 \in 0..(Total - 1)
        BY <3>1
      <4>2. v.next + 1 # Total => z \in Serving
        BY <1>2, <4>1 DEF Serving
      <4>3. QED
        BY <1>2, <4>2, ExceptSeq
    <3>3. \/ serving' = [serving EXCEPT ![h] = [s EXCEPT ![k] = z]] /\ v.next + 1 # Total
          \/ serving' = [serving EXCEPT ![h] = RemoveAt(s, k)]
      BY <1>1, <2>2 DEF SendPart, Frames
    <3>4. parts' = [parts EXCEPT ![h] = Append(@, c)] \/ parts' = [parts EXCEPT ![h] = @]
      BY <2>2 DEF SendPart
    <3> HIDE DEF z, c
    <3>5. parts' \in [Holders -> Seq(Chunk)]
      <4>1. Append(parts[h], c) \in Seq(Chunk) /\ parts[h] \in Seq(Chunk)
        BY <1>1, <3>1 DEF Frames
      <4>2. QED
        BY <1>1, <3>4, <4>1 DEF Frames
    <3>6. serving' \in [Holders -> Seq(Serving)]
      BY <1>1, <1>4, <3>2, <3>3 DEF Frames
    <3>7. QED
      BY <3>5, <3>6
  <2>3. QED
    BY <2>1, <2>2
<1>6. Frames'
  BY <1>1, <1>3, <1>5 DEF Frames
<1>7. ASSUME NEW g \in Holders  PROVE Len(answers[g]) \in Nat
  BY <1>1 DEF Frames
<1>8. QED
  BY <1>3, <1>6, <1>7, TransportInv

LEMMA ChannelInv ==
    ASSUME FetchInv, NEW h \in Holders, ChannelCloses(h) \/ ChannelOpens(h)
    PROVE  FetchInv'
<1>1. Frames
  BY DEF FetchInv
<1>2. UNCHANGED <<me, want, answers, serving, gap>>
  BY DEF ChannelCloses, ChannelOpens
<1>3. /\ budget' \in [asks: 0..MaxAsks, faults: 0..MaxFaults]
      /\ budget'.asks = budget.asks
  BY Counters, Spending DEF ChannelCloses, ChannelOpens, Faulted
<1>4. channel' \in [Holders -> BOOLEAN] /\ parts' \in [Holders -> Seq(Chunk)]
  <2>1. <<>> \in Seq(Chunk)
    OBVIOUS
  <2>2. /\ channel' = [channel EXCEPT ![h] = FALSE] \/ channel' = [channel EXCEPT ![h] = TRUE]
        /\ parts' = [parts EXCEPT ![h] = <<>>] \/ parts' = parts
    BY DEF ChannelCloses, ChannelOpens
  <2>3. channel \in [Holders -> BOOLEAN] /\ parts \in [Holders -> Seq(Chunk)]
    BY <1>1 DEF Frames
  <2>4. channel' \in [Holders -> BOOLEAN]
    BY <2>2, <2>3
  <2>5. parts' \in [Holders -> Seq(Chunk)]
    BY <2>1, <2>2, <2>3
  <2>6. QED
    BY <2>4, <2>5
<1>5. Frames'
  BY <1>1, <1>2, <1>3, <1>4 DEF Frames
<1>6. ASSUME NEW g \in Holders  PROVE Len(answers[g]) \in Nat
  BY <1>1 DEF Frames
<1>7. QED
  BY <1>2, <1>3, <1>5, <1>6, TransportInv

LEMMA LossInv ==
    ASSUME FetchInv, NEW h \in Holders, RelayLoses(h)
    PROVE  FetchInv'
<1>1. Frames /\ MaxAsks \in Nat
  BY FetchAssumption DEF FetchInv
<1>2. UNCHANGED <<me, parts, channel, serving, gap>>
  BY DEF RelayLoses
<1>3. /\ budget' \in [asks: 0..MaxAsks, faults: 0..MaxFaults]
      /\ budget'.asks = budget.asks
  BY Counters, Spending DEF RelayLoses, Faulted
<1>4. CASE want[h] > 0 /\ want' = [want EXCEPT ![h] = @ - 1] /\ UNCHANGED answers
  <2>1. /\ want' \in [Holders -> 0..MaxAsks]
        /\ want'[h] \in Nat /\ want'[h] + 1 = want[h]
        /\ \A g \in Holders : g # h => want'[g] = want[g]
    BY <1>1, <1>4 DEF Frames
  <2>2. Frames'
    BY <1>1, <1>2, <1>3, <1>4, <2>1 DEF Frames
  <2>3. ASSUME NEW g \in Holders  PROVE Len(answers[g]) \in Nat
    BY <1>1 DEF Frames
  <2>4. QED
    BY <1>2, <1>3, <1>4, <2>1, <2>2, <2>3, TransportInv
<1>5. CASE answers[h] # <<>> /\ answers' = [answers EXCEPT ![h] = Tail(@)] /\ UNCHANGED want
  <2>1. /\ answers' \in [Holders -> Seq({"head", "deny"})]
        /\ \A g \in Holders : Len(answers'[g]) <= Len(answers[g])
    BY <1>1, <1>5, Taking
  <2>2. Frames'
    BY <1>1, <1>2, <1>3, <1>5, <2>1 DEF Frames
  <2>3. ASSUME NEW g \in Holders  PROVE Len(answers'[g]) \in Nat
    BY <2>1
  <2>4. QED
    BY <1>2, <1>3, <1>5, <2>1, <2>2, <2>3, TransportInv
<1>6. QED
  BY <1>4, <1>5 DEF RelayLoses

------------------------------------------------------------------------------
(* Theorems *)

LEMMA FetchInit == Init => FetchInv
<1> SUFFICES ASSUME Init  PROVE FetchInv
  OBVIOUS
<1>1. MaxAsks \in Nat /\ MaxFaults \in Nat
  BY FetchAssumption
<1>2. /\ me \in Asker /\ me.incoming = 0 /\ Len(me.xfers) = 0
      /\ me.timers = 0 /\ \A h \in Holders : me.opening[h] = 0
  BY <1>1 DEF Init, Asker
<1>3. Transfers(me) /\ Current(me)
  BY <1>2 DEF Transfers, Current
<1>4. Frames
  <2>1. budget \in [asks: 0..MaxAsks, faults: 0..MaxFaults]
    <3>1. budget = [asks |-> MaxAsks, faults |-> MaxFaults]
      BY DEF Init
    <3>2. MaxAsks \in 0..MaxAsks /\ MaxFaults \in 0..MaxFaults
      BY <1>1
    <3>3. QED
      BY <3>1, <3>2
  <2>2. want \in [Holders -> 0..MaxAsks] /\ gap \in BOOLEAN
    <3>1. want = [h \in Holders |-> 0] /\ gap = FALSE
      BY DEF Init
    <3>2. 0 \in 0..MaxAsks
      BY <1>1
    <3>3. QED
      BY <3>1, <3>2
  <2>3. answers \in [Holders -> Seq({"head", "deny"})]
    BY DEF Init
  <2>4. parts \in [Holders -> Seq(Chunk)] /\ serving \in [Holders -> Seq(Serving)]
    BY DEF Init
  <2>5. channel \in [Holders -> BOOLEAN]
    BY DEF Init
  <2>6. QED
    BY <2>1, <2>2, <2>3, <2>4, <2>5 DEF Frames
<1>5. AsksSpent
  BY <1>1, <1>2 DEF Init, AsksSpent, Within
<1>6. QED
  BY <1>3, <1>4, <1>5 DEF FetchInv

LEMMA FetchStep == FetchInv /\ [Next]_vars => FetchInv'
<1> SUFFICES ASSUME FetchInv, [Next]_vars  PROVE FetchInv'
  OBVIOUS
<1>1. CASE AskTimesOut
  BY <1>1, TimerInv
<1>2. CASE Cancel
  <2>1. CASE Holders = {}
    <3>1. me' = Abandon(me) /\ UNCHANGED <<transport, serving, gap, budget>>
      BY <1>2 DEF Cancel
    <3>2. QED
      BY <2>1, <3>1, GivenUpInv DEF FetchInv, Frames, transport
  <2>2. CASE Holders # {}
    BY <1>2, <2>2, EndingInv
  <2>3. QED
    BY <2>1, <2>2
<1>3. ASSUME NEW h \in Holders, Want(h)  PROVE FetchInv'
  BY <1>3, WantInv
<1>4. ASSUME NEW h \in Holders, OnDeny(h)  PROVE FetchInv'
  BY <1>4, EndingInv
<1>5. ASSUME NEW h \in Holders, OnHead(h)  PROVE FetchInv'
  BY <1>5, HeadInv
<1>6. ASSUME NEW h \in Holders, OnPart(h)  PROVE FetchInv'
  BY <1>6, PartInv
<1>7. ASSUME NEW h \in Holders, PartOpened(h) \/ PartRefused(h)  PROVE FetchInv'
  BY <1>7, OpenInv
<1>8. ASSUME NEW h \in Holders, Serve(h)  PROVE FetchInv'
  BY <1>8, ServeInv
<1>9. ASSUME NEW h \in Holders, ChannelCloses(h) \/ ChannelOpens(h)  PROVE FetchInv'
  BY <1>9, ChannelInv
<1>10. ASSUME NEW h \in Holders, RelayLoses(h)  PROVE FetchInv'
  BY <1>10, LossInv
<1>11. ASSUME NEW h \in Holders, NEW k \in 1..Len(serving[h]), ReadSlice(h, k) \/ SendPart(h, k)
       PROVE  FetchInv'
  BY <1>11, SliceInv
<1>12. ASSUME NEW n \in 1..Len(me.xfers), Written(n)  PROVE FetchInv'
  BY <1>12, WrittenInv
<1>13. ASSUME NEW n \in 1..Len(me.xfers), WriteFails(n)  PROVE FetchInv'
  BY <1>13, WriteFailsInv
<1>14. ASSUME NEW n \in 1..Len(me.xfers), FileClosed(n)  PROVE FetchInv'
  BY <1>14, ClosedInv
<1>15. CASE UNCHANGED vars
  BY <1>15 DEF vars, transport, FetchInv, Transfers, Current, Frames, AsksSpent
<1>16. QED
  BY <1>1, <1>2, <1>3, <1>4, <1>5, <1>6, <1>7, <1>8, <1>9, <1>10, <1>11, <1>12, <1>13,
     <1>14, <1>15 DEF Next

LEMMA FetchInvHolds == Spec => []FetchInv
  BY FetchInit, FetchStep, PTL DEF Spec

\* A transfer that is in the map was given up by nobody, so nothing of it was kept.
LEMMA InvProves == FetchInv => TypeOK /\ KeptIsTheFile /\ KeptOnce
<1> SUFFICES ASSUME FetchInv  PROVE TypeOK /\ KeptIsTheFile /\ KeptOnce
  OBVIOUS
<1>1. Transfers(me) /\ Current(me) /\ Frames
  BY DEF FetchInv
<1>2. TypeOK
  BY <1>1 DEF Transfers, Frames, TypeOK, Sound, Due
<1>3. ASSUME NEW n \in 1..Len(me.xfers)
      PROVE  /\ me.xfers[n].kept > 0 => me.xfers[n].arrived = WholeFile
             /\ me.xfers[n].kept <= 1
             /\ n = me.incoming => me.xfers[n].kept = 0 /\ me.xfers[n].writer = "open"
  <2>1. Sound(me.xfers[n])
    BY <1>1 DEF Transfers
  <2>2. n # 0
    OBVIOUS
  <2>3. QED
    BY <1>1, <2>1, <2>2 DEF Sound, Current
<1>4. QED
  BY <1>2, <1>3 DEF KeptIsTheFile, KeptOnce

\* library-fetch.ts:111-217: every map, writer and frame keeps its type, no transfer holds
\* more chunks than the file has, for any number of holders, chunks, asks and faults.
THEOREM FetchTypes == Spec => []TypeOK
<1>1. FetchInv => TypeOK
  BY InvProves
<1>2. QED
  BY <1>1, FetchInvHolds, PTL

\* library-fetch.ts:12-15, 159-166: whatever is kept is the whole file, in order, of the
\* bytes that were asked for, however many fetches of it overlap.
THEOREM KeptFilesAreWhole == Spec => []KeptIsTheFile
<1>1. FetchInv => KeptIsTheFile
  BY InvProves
<1>2. QED
  BY <1>1, FetchInvHolds, PTL

\* library-fetch.ts:141-166: a transfer is received at most once, and never while it is
\* still the one in the map.
THEOREM KeptFilesOnce == Spec => []KeptOnce
<1>1. FetchInv => KeptOnce
  BY InvProves
<1>2. QED
  BY <1>1, FetchInvHolds, PTL

==============================================================================
