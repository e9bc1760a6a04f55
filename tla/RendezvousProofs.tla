--------------------------- MODULE RendezvousProofs ---------------------------
(* Proofs about Rendezvous: its types, that a lock backs a promise that is     *)
(* still open and never outlives it, that nobody pays without being paid, and  *)
(* that a swap is whole: no coin is lost, and none is held twice.              *)
EXTENDS Rendezvous, SequenceTheorems, FiniteSetTheorems, TLAPS

-----------------------------------------------------------------------------
(* The frames of a proposal on a wire *)

\* None; none of a kind; all among some; the first one, the only one of all if of that kind.
Silent(s, id) == \A i \in 1..Len(s) : s[i].id # id
No(s, id, kind) == \A i \in 1..Len(s) : s[i].id = id => s[i].kind # kind
AllIn(s, id, S) == \A i \in 1..Len(s) : s[i].id = id => s[i] \in S
First(s, id, kind) ==
    \A i, j \in 1..Len(s) : i < j /\ s[i].id = id /\ s[j].id = id => s[j].kind # kind
Alone(s, id, kind) ==
    \A i, j \in 1..Len(s) : s[i].id = id /\ s[j].id = id /\ s[i].kind = kind => i = j

\* What the last frame offers; the terms behind which no other terms are; what commits say.
LastOf(s, id, i) ==
    i \in 1..Len(s) /\ s[i].id = id /\ \A j \in 1..Len(s) : i < j => s[j].id # id
LastToken(s, id, t) == \A i \in 1..Len(s) : LastOf(s, id, i) => s[i].token = t
LastTerms(s, id, i) ==
    /\ i \in 1..Len(s) /\ s[i].id = id /\ s[i].kind \in {"propose", "counter"}
    /\ \A j \in 1..Len(s) : i < j /\ s[j].id = id => s[j].kind # "counter"
Terms(s, id, g) == \A i \in 1..Len(s) : LastTerms(s, id, i) => s[i].gives = g
CommitSays(s, id, paid, spec) ==
    \A i \in 1..Len(s) : s[i].id = id /\ s[i].kind = "commit" =>
        paid = {s[i].givesToken} /\ Worth(s[i].getsToken) = spec

\* What t keeps of s; t says the same as s of proposal id.
Keeps(s, t, id) ==
    /\ Silent(s, id) => Silent(t, id)
    /\ \A k : No(s, id, k) => No(t, id, k)
    /\ \A S : AllIn(s, id, S) => AllIn(t, id, S)
    /\ \A k : First(s, id, k) => First(t, id, k)
    /\ \A k : Alone(s, id, k) => Alone(t, id, k)
    /\ \A v : LastToken(s, id, v) => LastToken(t, id, v)
    /\ \A g : Terms(s, id, g) => Terms(t, id, g)
    /\ \A T, g : CommitSays(s, id, T, g) => CommitSays(t, id, T, g)
Same(s, t, id) ==
    /\ Keeps(s, t, id)
    /\ Silent(t, id) => Silent(s, id)
    /\ \A k : No(t, id, k) => No(s, id, k)

\* What is known of a frame m of id taken from s, which leaves t, and of one put behind s.
Took(s, t, m, id) ==
    /\ ~Silent(s, id) /\ ~No(s, id, m.kind)
    /\ \A k : m.kind # k /\ No(t, id, k) => No(s, id, k)
    /\ \A S : AllIn(s, id, S) => m \in S
    /\ \A k : First(s, id, k) => No(t, id, k)
    /\ Alone(s, id, m.kind) => Silent(t, id)
    /\ \A k : Alone(s, id, k) => No(t, id, k)
    /\ \A v : LastToken(s, id, v) /\ Silent(t, id) => m.token = v
    /\ \A g : Terms(s, id, g) /\ m.kind \in {"propose", "counter"} /\ No(t, id, "counter")
              => m.gives = g
    /\ \A T, g : CommitSays(s, id, T, g) /\ m.kind = "commit"
                 => T = {m.givesToken} /\ Worth(m.getsToken) = g
Added(s, t, m, id) ==
    /\ ~Silent(t, id)
    /\ \A k : No(t, id, k) <=> No(s, id, k) /\ m.kind # k
    /\ \A S : AllIn(s, id, S) /\ m \in S => AllIn(t, id, S)
    /\ \A k : First(s, id, k) /\ (m.kind # k \/ Silent(s, id)) => First(t, id, k)
    /\ \A k : Silent(s, id) \/ No(t, id, k) => Alone(t, id, k)
    /\ LastToken(t, id, m.token)
    /\ \A g : Terms(s, id, g) /\ m.kind \notin {"propose", "counter"} => Terms(t, id, g)
    /\ m.kind = "counter" \/ Silent(s, id) => Terms(t, id, m.gives)
    /\ \A T, g : /\ CommitSays(s, id, T, g)
                 /\ m.kind = "commit" => T = {m.givesToken} /\ Worth(m.getsToken) = g
                 => CommitSays(t, id, T, g)

\* What follows when nothing is said, and when nothing is committed.
Quiet(s, id) ==
    /\ Silent(s, id) =>
          /\ \A k : No(s, id, k) /\ First(s, id, k) /\ Alone(s, id, k)
          /\ \A S : AllIn(s, id, S)
          /\ \A v : LastToken(s, id, v)
          /\ \A g : Terms(s, id, g)
    /\ No(s, id, "commit") => Alone(s, id, "commit") /\ \A T, g : CommitSays(s, id, T, g)

LEMMA SilenceIsQuiet == \A s, id : Quiet(s, id)
<1> SUFFICES ASSUME NEW s, NEW id PROVE Quiet(s, id)
  OBVIOUS
<1>1. Silent(s, id) => \A k : No(s, id, k) /\ First(s, id, k) /\ Alone(s, id, k)
  BY DEF Silent, No, First, Alone
<1>2. Silent(s, id) => (\A S : AllIn(s, id, S)) /\ (\A v : LastToken(s, id, v))
  BY DEF Silent, AllIn, LastToken, LastOf
<1>3. Silent(s, id) => \A g : Terms(s, id, g)
  BY DEF Silent, Terms, LastTerms
<1>4. No(s, id, "commit") => Alone(s, id, "commit") /\ \A T, g : CommitSays(s, id, T, g)
  BY DEF No, Alone, CommitSays
<1>5. QED
  BY <1>1, <1>2, <1>3, <1>4 DEF Quiet

LEMMA SameReflexive == \A s, id : Same(s, s, id)
BY DEF Same, Keeps

LEMMA SameKeeps == \A s, t, id : Same(s, t, id) => Keeps(s, t, id)
BY DEF Same

LEMMA TailReads ==
    ASSUME NEW s \in Seq(Frame), s # <<>>
    PROVE  /\ Tail(s) \in Seq(Frame) /\ Head(s) \in Frame
           /\ Len(s) \in Nat /\ Len(Tail(s)) = Len(s) - 1 /\ 1 \in 1..Len(s)
           /\ Head(s) = s[1]
           /\ \A i \in 1..Len(Tail(s)) : i + 1 \in 1..Len(s) /\ 1 < i + 1 /\ Tail(s)[i] = s[i + 1]
           /\ \A i, j \in 1..Len(Tail(s)) : (i < j <=> i + 1 < j + 1) /\ (i + 1 = j + 1 => i = j)
           /\ \A i \in 1..Len(s) : i = 1 \/ (i - 1 \in 1..Len(Tail(s)) /\ (i - 1) + 1 = i)
<1>1. Len(s) \in Nat /\ Len(s) # 0
  BY EmptySeq
<1>2. /\ Head(s) = s[1] /\ Head(s) \in Frame
      /\ Tail(s) \in Seq(Frame)
      /\ Len(Tail(s)) = Len(s) - 1
      /\ \A i \in 1..Len(Tail(s)) : Tail(s)[i] = s[i + 1]
  BY <1>1, HeadTailProperties
<1>3. QED
  BY <1>1, <1>2

\* Taking the first frame.
LEMMA TailKeeps ==
    ASSUME NEW s \in Seq(Frame), s # <<>>, NEW id
    PROVE  Keeps(s, Tail(s), id)
<1> DEFINE t == Tail(s)
<1>1. /\ \A i \in 1..Len(t) : i + 1 \in 1..Len(s) /\ t[i] = s[i + 1]
      /\ \A i, j \in 1..Len(t) : (i < j <=> i + 1 < j + 1) /\ (i + 1 = j + 1 => i = j)
      /\ \A i \in 1..Len(s) : i = 1 \/ (i - 1 \in 1..Len(t) /\ (i - 1) + 1 = i)
      /\ \A i \in 1..Len(t) : 1 < i + 1
  BY TailReads
<1> HIDE DEF t
<1>2. /\ Silent(s, id) => Silent(t, id)
      /\ \A k : No(s, id, k) => No(t, id, k)
      /\ \A S : AllIn(s, id, S) => AllIn(t, id, S)
  BY <1>1 DEF Silent, No, AllIn
<1>3. \A k : First(s, id, k) => First(t, id, k)
  BY <1>1 DEF First
<1>4. \A k : Alone(s, id, k) => Alone(t, id, k)
  BY <1>1 DEF Alone
<1>5. \A i, j \in 1..Len(s) : i < j /\ i # 1 => j # 1
  BY DEF LastOf
<1>6. ASSUME NEW i \in 1..Len(t), NEW j \in 1..Len(s), i + 1 < j
      PROVE  j - 1 \in 1..Len(t) /\ i < j - 1 /\ t[j - 1] = s[j]
  <2>1. j # 1
    BY <1>1, <1>6
  <2>2. QED
    BY <1>1, <1>6, <2>1
<1>7. ASSUME NEW v, LastToken(s, id, v) PROVE LastToken(t, id, v)
  <2>1. ASSUME NEW i \in 1..Len(t), LastOf(t, id, i) PROVE LastOf(s, id, i + 1)
    BY <1>1, <1>6, <2>1 DEF LastOf
  <2>2. QED
    BY <1>1, <1>7, <2>1 DEF LastToken
<1>8. ASSUME NEW g, Terms(s, id, g) PROVE Terms(t, id, g)
  <2>1. ASSUME NEW i \in 1..Len(t), LastTerms(t, id, i) PROVE LastTerms(s, id, i + 1)
    BY <1>1, <1>6, <2>1 DEF LastTerms
  <2>2. QED
    BY <1>1, <1>8, <2>1 DEF Terms
<1>9. \A T, g : CommitSays(s, id, T, g) => CommitSays(t, id, T, g)
  BY <1>1 DEF CommitSays
<1>10. Keeps(s, t, id)
  BY <1>2, <1>3, <1>4, <1>7, <1>8, <1>9 DEF Keeps
<1>11. QED
  BY <1>10 DEF t

LEMMA OtherTaken ==
    ASSUME NEW s \in Seq(Frame), s # <<>>, NEW id, Head(s).id # id
    PROVE  Same(s, Tail(s), id)
<1> DEFINE t == Tail(s)
           m == Head(s)
<1>1. /\ m = s[1]
      /\ \A i \in 1..Len(t) : i + 1 \in 1..Len(s) /\ t[i] = s[i + 1]
      /\ \A i \in 1..Len(s) : i = 1 \/ (i - 1 \in 1..Len(t) /\ (i - 1) + 1 = i)
  BY TailReads
<1>2. Keeps(s, t, id) /\ m.id # id
  BY TailKeeps
<1> HIDE DEF t, m
<1>3. \A i \in 1..Len(s) : s[i].id = id => i - 1 \in 1..Len(t) /\ t[i - 1] = s[i]
  BY <1>1, <1>2
<1>4. (Silent(t, id) => Silent(s, id)) /\ \A k : No(t, id, k) => No(s, id, k)
  BY <1>3 DEF Silent, No
<1>5. Same(s, t, id)
  BY <1>2, <1>4 DEF Same
<1>6. QED
  BY <1>5 DEF t

LEMMA OwnTaken ==
    ASSUME NEW s \in Seq(Frame), s # <<>>
    PROVE  Took(s, Tail(s), Head(s), Head(s).id)
<1> DEFINE t == Tail(s)
           m == Head(s)
           id == m.id
<1>1. /\ m = s[1] /\ 1 \in 1..Len(s) /\ m.id = id
      /\ \A i \in 1..Len(t) : i + 1 \in 1..Len(s) /\ 1 < i + 1 /\ 1 # i + 1 /\ t[i] = s[i + 1]
      /\ \A i \in 1..Len(s) : i = 1 \/ (i - 1 \in 1..Len(t) /\ (i - 1) + 1 = i)
  BY TailReads
<1> HIDE DEF t, m, id
<1>2. \A i \in 1..Len(s) : i = 1 \/ (i - 1 \in 1..Len(t) /\ t[i - 1] = s[i])
  BY <1>1
<1>3. /\ ~Silent(s, id) /\ ~No(s, id, m.kind)
      /\ \A S : AllIn(s, id, S) => m \in S
  BY <1>1 DEF Silent, No, AllIn
<1>4. \A k : m.kind # k /\ No(t, id, k) => No(s, id, k)
  BY <1>1, <1>2 DEF No
<1>5. \A k : First(s, id, k) => No(t, id, k)
  BY <1>1 DEF First, No
<1>6. /\ Alone(s, id, m.kind) => Silent(t, id)
      /\ \A k : Alone(s, id, k) => No(t, id, k)
  BY <1>1 DEF Alone, Silent, No
<1>7. ASSUME NEW v, LastToken(s, id, v), Silent(t, id) PROVE m.token = v
  <2>1. \A j \in 1..Len(s) : 1 < j => s[j].id # id
    BY <1>2, <1>7 DEF Silent
  <2>2. LastOf(s, id, 1)
    BY <1>1, <2>1 DEF LastOf
  <2>3. QED
    BY <1>1, <1>7, <2>2 DEF LastToken
<1>8. ASSUME NEW g, Terms(s, id, g), m.kind \in {"propose", "counter"}, No(t, id, "counter")
      PROVE  m.gives = g
  <2>1. \A j \in 1..Len(s) : 1 < j /\ s[j].id = id => s[j].kind # "counter"
    BY <1>2, <1>8 DEF No
  <2>2. LastTerms(s, id, 1)
    BY <1>1, <1>8, <2>1 DEF LastTerms
  <2>3. QED
    BY <1>1, <1>8, <2>2 DEF Terms
<1>9. \A T, g : CommitSays(s, id, T, g) /\ m.kind = "commit"
                => T = {m.givesToken} /\ Worth(m.getsToken) = g
  BY <1>1 DEF CommitSays
<1>10. Took(s, t, m, id)
  BY <1>3, <1>4, <1>5, <1>6, <1>7, <1>8, <1>9 DEF Took
<1>11. QED
  BY <1>10 DEF t, m, id

\* Sending one behind the others.
LEMMA AppendReads ==
    ASSUME NEW s \in Seq(Frame), NEW m \in Frame
    PROVE  /\ Append(s, m) \in Seq(Frame)
           /\ Len(s) \in Nat /\ Len(Append(s, m)) = Len(s) + 1
           /\ Append(s, m)[Len(s) + 1] = m
           /\ \A i \in 1..Len(s) : i \in 1..Len(Append(s, m)) /\ Append(s, m)[i] = s[i]
           /\ \A i \in 1..Len(Append(s, m)) : i \in 1..Len(s) \/ i = Len(s) + 1
           /\ \A i \in 1..Len(s) : i < Len(s) + 1
           /\ \A i, j \in 1..Len(Append(s, m)) : i < j => i \in 1..Len(s)
           /\ Len(s) + 1 \in 1..Len(Append(s, m))
<1>1. /\ Append(s, m) \in Seq(Frame)
      /\ Len(s) \in Nat /\ Len(Append(s, m)) = Len(s) + 1
      /\ Append(s, m)[Len(s) + 1] = m
      /\ \A i \in 1..Len(s) : Append(s, m)[i] = s[i]
  BY AppendProperties
<1>2. QED
  BY <1>1

LEMMA OtherAdded ==
    ASSUME NEW s \in Seq(Frame), NEW m \in Frame, NEW id, m.id # id
    PROVE  Same(s, Append(s, m), id)
<1> DEFINE t == Append(s, m)
           n == Len(s) + 1
<1>1. /\ t[n] = m
      /\ \A i \in 1..Len(s) : i \in 1..Len(t) /\ t[i] = s[i]
      /\ \A i \in 1..Len(t) : i \in 1..Len(s) \/ i = n
  BY AppendReads
<1> HIDE DEF t, n
<1>2. \A i \in 1..Len(t) : t[i].id = id => i \in 1..Len(s) /\ t[i] = s[i]
  BY <1>1
<1>3. /\ Silent(s, id) => Silent(t, id)
      /\ \A k : No(s, id, k) => No(t, id, k)
      /\ \A S : AllIn(s, id, S) => AllIn(t, id, S)
  BY <1>2 DEF Silent, No, AllIn
<1>4. (\A k : First(s, id, k) => First(t, id, k)) /\ (\A k : Alone(s, id, k) => Alone(t, id, k))
  BY <1>2 DEF First, Alone
<1>5. ASSUME NEW v, LastToken(s, id, v) PROVE LastToken(t, id, v)
  <2>1. ASSUME NEW i \in 1..Len(t), LastOf(t, id, i) PROVE LastOf(s, id, i)
    BY <1>1, <1>2, <2>1 DEF LastOf
  <2>2. QED
    BY <1>1, <1>2, <1>5, <2>1 DEF LastToken, LastOf
<1>6. ASSUME NEW g, Terms(s, id, g) PROVE Terms(t, id, g)
  <2>1. ASSUME NEW i \in 1..Len(t), LastTerms(t, id, i) PROVE LastTerms(s, id, i)
    BY <1>1, <1>2, <2>1 DEF LastTerms
  <2>2. QED
    BY <1>1, <1>2, <1>6, <2>1 DEF Terms, LastTerms
<1>7. \A T, g : CommitSays(s, id, T, g) => CommitSays(t, id, T, g)
  BY <1>2 DEF CommitSays
<1>8. (Silent(t, id) => Silent(s, id)) /\ \A k : No(t, id, k) => No(s, id, k)
  BY <1>1 DEF Silent, No
<1>9. Same(s, t, id)
  BY <1>3, <1>4, <1>5, <1>6, <1>7, <1>8 DEF Same, Keeps
<1>10. QED
  BY <1>9 DEF t

LEMMA OwnAdded ==
    ASSUME NEW s \in Seq(Frame), NEW m \in Frame
    PROVE  Added(s, Append(s, m), m, m.id)
<1> DEFINE t == Append(s, m)
           n == Len(s) + 1
           id == m.id
<1>1. /\ t[n] = m /\ m.id = id /\ n \in 1..Len(t)
      /\ \A i \in 1..Len(s) : i \in 1..Len(t) /\ t[i] = s[i] /\ i < n
      /\ \A i \in 1..Len(t) : i \in 1..Len(s) \/ i = n
      /\ \A i, j \in 1..Len(t) : i < j => i \in 1..Len(s)
      /\ ~(n < n)
  BY AppendReads
<1> HIDE DEF t, n, id
<1>2. /\ ~Silent(t, id)
      /\ \A k : No(t, id, k) <=> No(s, id, k) /\ m.kind # k
      /\ \A S : AllIn(s, id, S) /\ m \in S => AllIn(t, id, S)
  BY <1>1 DEF Silent, No, AllIn
<1>3. \A k : First(s, id, k) /\ (m.kind # k \/ Silent(s, id)) => First(t, id, k)
  BY <1>1 DEF First, Silent
<1>4. \A k : Silent(s, id) \/ No(t, id, k) => Alone(t, id, k)
  BY <1>1 DEF Alone, No, Silent
<1>5. LastToken(t, id, m.token)
  <2>1. \A i \in 1..Len(t) : LastOf(t, id, i) => i = n
    BY <1>1 DEF LastOf
  <2>2. QED
    BY <1>1, <2>1 DEF LastToken
<1>6. ASSUME NEW g, Terms(s, id, g), m.kind \notin {"propose", "counter"} PROVE Terms(t, id, g)
  <2>1. ASSUME NEW i \in 1..Len(t), LastTerms(t, id, i)
        PROVE  i \in 1..Len(s) /\ LastTerms(s, id, i)
    BY <1>1, <1>6, <2>1 DEF LastTerms
  <2>2. QED
    BY <1>1, <1>6, <2>1 DEF Terms
<1>7. ASSUME m.kind = "counter" \/ Silent(s, id) PROVE Terms(t, id, m.gives)
  <2>1. \A i \in 1..Len(t) : LastTerms(t, id, i) => i = n
    BY <1>1, <1>7 DEF LastTerms, Silent
  <2>2. QED
    BY <1>1, <2>1 DEF Terms
<1>8. \A T, g : /\ CommitSays(s, id, T, g)
                /\ m.kind = "commit" => T = {m.givesToken} /\ Worth(m.getsToken) = g
                => CommitSays(t, id, T, g)
  BY <1>1 DEF CommitSays
<1>9. Added(s, t, m, id)
  BY <1>2, <1>3, <1>4, <1>5, <1>6, <1>7, <1>8 DEF Added
<1>10. QED
  BY <1>9 DEF t, id

-----------------------------------------------------------------------------
(* One proposal, of proposer P and participant Q: their entries sp and sq, the notes lp    *)
(* and lq they have locked for it, and the wires A from P to Q and B from Q to P           *)

Mine(w, id) == {l.note : l \in {k \in w.locked : k.id = id}}
IsLive(st) == st # NoProposal
Vowed(st) == IsLive(st) /\ st.role = "participant" /\ st.myStatus = "accepted"
Paid(st, r) == IsLive(st) /\ st.accepted[r] # Nothing

\* What is locked is what was put in.
ProposerBacked(P, sp, lp) ==
    IF Paid(sp, P) THEN lp = {sp.accepted[P]} /\ Worth(sp.accepted[P]) = sp.gives[P] ELSE lp = {}
ParticipantBacked(Q, sq, lq) ==
    IF Vowed(sq) THEN \E t \in Notes : lq = {t} /\ Worth(t) = sq.gives[Q] ELSE lq = {}

\* What ~astray leaves out.
NoCrossing(id, A, B) ==
    /\ No(A, id, "counter") \/ Silent(B, id)
    /\ No(B, id, "counter") \/ Silent(A, id)

\* A proposal is made once, and nothing was done about it before it is heard.
ProposedOnce(id, Q, sp, sq, A, B) ==
    /\ First(A, id, "propose")
    /\ ~No(A, id, "propose") => ~IsLive(sq) /\ Silent(B, id) /\ ~Paid(sp, Q)

\* Who has ended it has no entry.
EndsLast(id, sp, sq, A, B) ==
    /\ IsLive(sp) => No(A, id, "abort") /\ No(A, id, "commit")
    /\ IsLive(sq) => No(B, id, "reject")

\* The last thing the participant said is what it stands by.
AnswerStands(id, sq, lq, B) ==
    IsLive(sq) => Silent(B, id) \/ (Vowed(sq) /\ \E t \in Notes : lq = {t} /\ LastToken(B, id, t))

\* What the proposer has heard of the participant's note is what the participant has locked.
PaidIn(id, Q, sp, sq, lq, A, B) ==
    Paid(sp, Q) =>
        /\ Silent(A, id) /\ No(B, id, "accept")
        /\ Worth(sp.accepted[Q]) = sp.gives[Q]
        /\ Silent(B, id) /\ IsLive(sq) => Vowed(sq) /\ lq = {sp.accepted[Q]}

\* The two mean the same terms but for a counter on its way.
SameTerms(id, sp, sq, A, B) ==
    /\ IsLive(sp) /\ IsLive(sq) /\ No(A, id, "counter") /\ No(B, id, "counter") => sp.gives = sq.gives
    /\ IsLive(sp) => Terms(A, id, sp.gives)
    /\ IsLive(sq) => Terms(B, id, sq.gives)

\* A commit on its way takes what the participant has locked and brings what it was told.
CommitsFit(id, P, sq, lq, A) ==
    /\ Alone(A, id, "commit")
    /\ IsLive(sq) /\ ~No(A, id, "commit") => Vowed(sq) /\ CommitSays(A, id, lq, sq.gives[P])

Deal(id, P, Q, sp, sq, lp, lq, A, B) ==
    /\ ProposerBacked(P, sp, lp)
    /\ ParticipantBacked(Q, sq, lq)
    /\ NoCrossing(id, A, B)
    /\ ProposedOnce(id, Q, sp, sq, A, B)
    /\ EndsLast(id, sp, sq, A, B)
    /\ First(B, id, "accept")
    /\ AnswerStands(id, sq, lq, B)
    /\ PaidIn(id, Q, sp, sq, lq, A, B)
    /\ SameTerms(id, sp, sq, A, B)
    /\ CommitsFit(id, P, sq, lq, A)

-----------------------------------------------------------------------------
(* What each kind of step does to a proposal *)

\* Frames of other proposals come and go.
LEMMA DealAside ==
    ASSUME NEW id, NEW P, NEW Q, NEW sp, NEW sq, NEW lp, NEW lq, NEW A, NEW B, NEW A2, NEW B2,
           Deal(id, P, Q, sp, sq, lp, lq, A, B), Same(A, A2, id), Same(B, B2, id)
    PROVE  Deal(id, P, Q, sp, sq, lp, lq, A2, B2)
<1>1. NoCrossing(id, A2, B2) /\ First(B2, id, "accept")
  BY DEF Deal, NoCrossing, Same, Keeps
<1>2. ProposedOnce(id, Q, sp, sq, A2, B2)
  BY DEF Deal, ProposedOnce, Same, Keeps
<1>3. EndsLast(id, sp, sq, A2, B2)
  BY DEF Deal, EndsLast, Same, Keeps
<1>4. AnswerStands(id, sq, lq, B2)
  BY DEF Deal, AnswerStands, Same, Keeps
<1>5. PaidIn(id, Q, sp, sq, lq, A2, B2)
  BY DEF Deal, PaidIn, Same, Keeps
<1>6. SameTerms(id, sp, sq, A2, B2)
  BY DEF Deal, SameTerms, Same, Keeps
<1>7. CommitsFit(id, P, sq, lq, A2)
  BY DEF Deal, CommitsFit, Same, Keeps
<1>8. QED
  BY <1>1, <1>2, <1>3, <1>4, <1>5, <1>6, <1>7 DEF Deal

\* An entry goes: abort, reject, a timer, a reload, a commit that is applied.
LEMMA ProposerGone ==
    ASSUME NEW id, NEW P, NEW Q, NEW sp, NEW sq, NEW lp, NEW lq, NEW A, NEW B,
           Deal(id, P, Q, sp, sq, lp, lq, A, B)
    PROVE  Deal(id, P, Q, NoProposal, sq, {}, lq, A, B)
BY DEF Deal, ProposerBacked, ProposedOnce, EndsLast, PaidIn, SameTerms, Paid, IsLive

LEMMA ParticipantGone ==
    ASSUME NEW id, NEW P, NEW Q, NEW sp, NEW sq, NEW lp, NEW lq, NEW A, NEW B,
           Deal(id, P, Q, sp, sq, lp, lq, A, B)
    PROVE  Deal(id, P, Q, sp, NoProposal, lp, {}, A, B)
BY DEF Deal, ParticipantBacked, ProposedOnce, EndsLast, AnswerStands, PaidIn, SameTerms,
       CommitsFit, Vowed, IsLive

\* Who is gone says so; no counter may meet it.
LEMMA AbortIsSent ==
    ASSUME NEW id, NEW P, NEW Q, NEW sq, NEW lq, NEW A, NEW B, NEW A2, NEW m,
           Deal(id, P, Q, NoProposal, sq, {}, lq, A, B), No(A, id, "commit"),
           Added(A, A2, m, id), m.kind = "abort", NoCrossing(id, A2, B)
    PROVE  Deal(id, P, Q, NoProposal, sq, {}, lq, A2, B)
<1>1. ProposedOnce(id, Q, NoProposal, sq, A2, B)
  BY DEF Deal, ProposedOnce, Added
<1>2. EndsLast(id, NoProposal, sq, A2, B) /\ SameTerms(id, NoProposal, sq, A2, B)
  BY DEF Deal, EndsLast, SameTerms, IsLive
<1>3. PaidIn(id, Q, NoProposal, sq, lq, A2, B) /\ ProposerBacked(P, NoProposal, {})
  BY DEF PaidIn, ProposerBacked, Paid, IsLive
<1>4. CommitsFit(id, P, sq, lq, A2)
  BY DEF Deal, CommitsFit, Added
<1>5. QED
  BY <1>1, <1>2, <1>3, <1>4 DEF Deal

LEMMA RejectIsSent ==
    ASSUME NEW id, NEW P, NEW Q, NEW sp, NEW lp, NEW A, NEW B, NEW B2, NEW m,
           Deal(id, P, Q, sp, NoProposal, lp, {}, A, B), No(A, id, "propose"),
           Added(B, B2, m, id), m.kind = "reject", NoCrossing(id, A, B2)
    PROVE  Deal(id, P, Q, sp, NoProposal, lp, {}, A, B2)
<1>1. ProposedOnce(id, Q, sp, NoProposal, A, B2) /\ First(B2, id, "accept")
  BY DEF Deal, ProposedOnce, Added
<1>2. EndsLast(id, sp, NoProposal, A, B2) /\ SameTerms(id, sp, NoProposal, A, B2)
  BY DEF Deal, EndsLast, SameTerms, IsLive
<1>3. PaidIn(id, Q, sp, NoProposal, {}, A, B2)
  BY DEF Deal, PaidIn, Added, IsLive
<1>4. AnswerStands(id, NoProposal, {}, B2) /\ CommitsFit(id, P, NoProposal, {}, A)
  BY DEF Deal, AnswerStands, CommitsFit, IsLive
<1>5. QED
  BY <1>1, <1>2, <1>3, <1>4 DEF Deal

\* A frame is lost or let go: no counter is, unless nobody is there to take it.
LEMMA FromProposerGone ==
    ASSUME NEW id, NEW P, NEW Q, NEW sp, NEW sq, NEW lp, NEW lq, NEW A, NEW B, NEW A2, NEW m,
           Deal(id, P, Q, sp, sq, lp, lq, A, B), Keeps(A, A2, id), Took(A, A2, m, id),
           m.kind # "counter" \/ ~IsLive(sq)
    PROVE  Deal(id, P, Q, sp, sq, lp, lq, A2, B)
<1>1. NoCrossing(id, A2, B)
  BY DEF Deal, NoCrossing, Keeps
<1>2. ProposedOnce(id, Q, sp, sq, A2, B)
  BY DEF Deal, ProposedOnce, Keeps
<1>3. EndsLast(id, sp, sq, A2, B)
  BY DEF Deal, EndsLast, Keeps
<1>4. PaidIn(id, Q, sp, sq, lq, A2, B)
  BY DEF Deal, PaidIn, Keeps
<1>5. SameTerms(id, sp, sq, A2, B)
  BY DEF Deal, SameTerms, Keeps, Took
<1>6. CommitsFit(id, P, sq, lq, A2)
  BY DEF Deal, CommitsFit, Keeps
<1>7. QED
  BY <1>1, <1>2, <1>3, <1>4, <1>5, <1>6 DEF Deal

LEMMA FromParticipantGone ==
    ASSUME NEW id, NEW P, NEW Q, NEW sp, NEW sq, NEW lp, NEW lq, NEW A, NEW B, NEW B2, NEW m,
           Deal(id, P, Q, sp, sq, lp, lq, A, B), Keeps(B, B2, id), Took(B, B2, m, id),
           m.kind \in {"accept", "counter", "reject"}, m.kind # "counter" \/ ~IsLive(sp)
    PROVE  Deal(id, P, Q, sp, sq, lp, lq, A, B2)
<1>1. NoCrossing(id, A, B2) /\ First(B2, id, "accept")
  BY DEF Deal, NoCrossing, Keeps
<1>2. ProposedOnce(id, Q, sp, sq, A, B2)
  BY DEF Deal, ProposedOnce, Keeps
<1>3. EndsLast(id, sp, sq, A, B2)
  BY DEF Deal, EndsLast, Keeps
<1>4. AnswerStands(id, sq, lq, B2)
  BY DEF Deal, AnswerStands, Keeps
<1>5. PaidIn(id, Q, sp, sq, lq, A, B2)
  <2>1. ASSUME Paid(sp, Q) PROVE ~IsLive(sq)
    BY <2>1 DEF Deal, PaidIn, EndsLast, Paid, Took
  <2>2. QED
    BY <2>1 DEF Deal, PaidIn, Keeps
<1>6. SameTerms(id, sp, sq, A, B2)
  BY DEF Deal, SameTerms, Keeps, Took
<1>7. QED
  BY <1>1, <1>2, <1>3, <1>4, <1>5, <1>6 DEF Deal

\* /rdv
LEMMA DealProposed ==
    ASSUME NEW id, NEW P, NEW Q, NEW sp, NEW A, NEW B, NEW A2, NEW m,
           Silent(A, id), Silent(B, id), Added(A, A2, m, id), m.kind = "propose",
           IsLive(sp), sp.gives = m.gives, sp.accepted[Q] = Nothing, sp.accepted[P] # Nothing,
           Worth(sp.accepted[P]) = sp.gives[P]
    PROVE  Deal(id, P, Q, sp, NoProposal, {sp.accepted[P]}, {}, A2, B)
<1>1. Quiet(A, id) /\ Quiet(B, id)
  BY SilenceIsQuiet
<1>2. ProposerBacked(P, sp, {sp.accepted[P]}) /\ ParticipantBacked(Q, NoProposal, {})
  BY DEF ProposerBacked, ParticipantBacked, Paid, Vowed, IsLive
<1>3. NoCrossing(id, A2, B) /\ First(B, id, "accept")
  BY <1>1 DEF NoCrossing, Quiet
<1>4. ProposedOnce(id, Q, sp, NoProposal, A2, B)
  BY <1>1 DEF ProposedOnce, Quiet, Added, Paid, IsLive
<1>5. EndsLast(id, sp, NoProposal, A2, B) /\ AnswerStands(id, NoProposal, {}, B)
  BY <1>1 DEF EndsLast, AnswerStands, Quiet, Added, IsLive
<1>6. PaidIn(id, Q, sp, NoProposal, {}, A2, B)
  BY DEF PaidIn, Paid
<1>7. SameTerms(id, sp, NoProposal, A2, B)
  BY <1>1 DEF SameTerms, Quiet, Added, IsLive
<1>8. CommitsFit(id, P, NoProposal, {}, A2)
  BY <1>1 DEF CommitsFit, Added, IsLive
<1>9. QED
  BY <1>2, <1>3, <1>4, <1>5, <1>6, <1>7, <1>8 DEF Deal

\* OnPropose
LEMMA DealHeard ==
    ASSUME NEW id, NEW P, NEW Q, NEW sp, NEW sq, NEW sq2, NEW lp, NEW lq, NEW A, NEW B, NEW A2,
           NEW m, Deal(id, P, Q, sp, sq, lp, lq, A, B), Keeps(A, A2, id), Took(A, A2, m, id),
           ~IsLive(sq), m.kind = "propose", IsLive(sq2), sq2.myStatus = "pending",
           sq2.gives = m.gives
    PROVE  Deal(id, P, Q, sp, sq2, lp, lq, A2, B)
<1>1. Quiet(A2, id) /\ Quiet(B, id)
  BY SilenceIsQuiet
<1>2. /\ Silent(B, id) /\ ~Paid(sp, Q) /\ No(A2, id, "propose") /\ No(A2, id, "commit")
  <2>1. ~No(A, id, "propose") /\ First(A, id, "propose")
    BY DEF Deal, ProposedOnce, Took
  <2>2. No(A2, id, "propose") /\ Silent(B, id) /\ ~Paid(sp, Q)
    BY <2>1 DEF Deal, ProposedOnce, Took
  <2>3. No(A2, id, "commit")
    BY DEF Deal, CommitsFit, Took
  <2>4. QED
    BY <2>2, <2>3
<1>3. ParticipantBacked(Q, sq2, lq)
  BY DEF Deal, ParticipantBacked, Vowed
<1>4. NoCrossing(id, A2, B) /\ First(B, id, "accept")
  BY <1>1, <1>2 DEF NoCrossing, Quiet
<1>5. ProposedOnce(id, Q, sp, sq2, A2, B) /\ EndsLast(id, sp, sq2, A2, B)
  BY <1>1, <1>2 DEF Deal, ProposedOnce, EndsLast, Quiet, Keeps
<1>6. AnswerStands(id, sq2, lq, B) /\ PaidIn(id, Q, sp, sq2, lq, A2, B)
  BY <1>2 DEF AnswerStands, PaidIn
<1>7. SameTerms(id, sp, sq2, A2, B)
  BY <1>1, <1>2 DEF Deal, SameTerms, Quiet, Keeps, Took
<1>8. CommitsFit(id, P, sq2, lq, A2)
  BY <1>1, <1>2 DEF CommitsFit, Quiet
<1>9. QED
  BY <1>3, <1>4, <1>5, <1>6, <1>7, <1>8 DEF Deal

\* AcceptAsParticipant
LEMMA DealAccepted ==
    ASSUME NEW id, NEW P, NEW Q, NEW sp, NEW sq, NEW sq2, NEW lp, NEW lq, NEW A, NEW B, NEW B2,
           NEW m, Deal(id, P, Q, sp, sq, lp, lq, A, B), Added(B, B2, m, id), m.kind = "accept",
           IsLive(sq), ~Vowed(sq), Vowed(sq2), sq2.gives = sq.gives,
           m.token \in Notes, Worth(m.token) = sq2.gives[Q], NoCrossing(id, A, B2)
    PROVE  Deal(id, P, Q, sp, sq2, lp, {m.token}, A, B2)
<1>1. Quiet(B, id) /\ Quiet(A, id)
  BY SilenceIsQuiet
<1>2. IsLive(sq2)
  BY DEF Vowed
<1>3. Silent(B, id)
  BY DEF Deal, AnswerStands
<1>4. ~Paid(sp, Q) /\ No(A, id, "propose") /\ No(A, id, "commit")
  <2>1. ~Paid(sp, Q)
    BY <1>3 DEF Deal, PaidIn
  <2>2. No(A, id, "propose") /\ No(A, id, "commit")
    BY DEF Deal, ProposedOnce, CommitsFit
  <2>3. QED
    BY <2>1, <2>2
<1>5. ParticipantBacked(Q, sq2, {m.token})
  BY DEF ParticipantBacked
<1>6. First(B2, id, "accept") /\ AnswerStands(id, sq2, {m.token}, B2)
  BY <1>1, <1>3 DEF Added, Quiet, AnswerStands
<1>7. ProposedOnce(id, Q, sp, sq2, A, B2) /\ PaidIn(id, Q, sp, sq2, {m.token}, A, B2)
  BY <1>4 DEF Deal, ProposedOnce, PaidIn
<1>8. EndsLast(id, sp, sq2, A, B2)
  BY <1>1, <1>3 DEF Deal, EndsLast, Added, Quiet
<1>9. SameTerms(id, sp, sq2, A, B2)
  BY <1>1, <1>2, <1>3 DEF Deal, SameTerms, Added, Quiet
<1>10. CommitsFit(id, P, sq2, {m.token}, A)
  BY <1>1, <1>4 DEF CommitsFit, Quiet
<1>11. QED
  BY <1>5, <1>6, <1>7, <1>8, <1>9, <1>10 DEF Deal

\* The participant's Counter
LEMMA DealCountered ==
    ASSUME NEW id, NEW P, NEW Q, NEW sp, NEW sq, NEW sq2, NEW lp, NEW lq, NEW A, NEW B, NEW B2,
           NEW m, Deal(id, P, Q, sp, sq, lp, lq, A, B), Added(B, B2, m, id), m.kind = "counter",
           IsLive(sq), Vowed(sq2), sq2.gives = m.gives,
           m.token \in Notes, Worth(m.token) = sq2.gives[Q], NoCrossing(id, A, B2)
    PROVE  Deal(id, P, Q, sp, sq2, lp, {m.token}, A, B2)
<1>1. Quiet(A, id) /\ Quiet(B, id)
  BY SilenceIsQuiet
<1>2. IsLive(sq2) /\ ~No(B2, id, "counter") /\ ~Silent(B2, id)
  BY DEF Vowed, Added
<1>3. Silent(A, id)
  BY <1>2 DEF NoCrossing
<1>4. ParticipantBacked(Q, sq2, {m.token})
  BY DEF ParticipantBacked
<1>5. First(B2, id, "accept") /\ AnswerStands(id, sq2, {m.token}, B2)
  BY DEF Deal, Added, AnswerStands
<1>6. ProposedOnce(id, Q, sp, sq2, A, B2)
  BY <1>1, <1>3 DEF Deal, ProposedOnce, Quiet
<1>7. PaidIn(id, Q, sp, sq2, {m.token}, A, B2)
  BY <1>2 DEF Deal, PaidIn, Added
<1>8. EndsLast(id, sp, sq2, A, B2)
  BY DEF Deal, EndsLast, Added
<1>9. SameTerms(id, sp, sq2, A, B2)
  BY <1>2 DEF Deal, SameTerms, Added
<1>10. CommitsFit(id, P, sq2, {m.token}, A)
  BY <1>1, <1>3 DEF CommitsFit, Quiet
<1>11. QED
  BY <1>4, <1>5, <1>6, <1>7, <1>8, <1>9, <1>10 DEF Deal

\* The participant's OnCounter
LEMMA CounterHeard ==
    ASSUME NEW id, NEW P, NEW Q, NEW sp, NEW sq, NEW sq2, NEW lp, NEW lq, NEW A, NEW B, NEW A2,
           NEW m, Deal(id, P, Q, sp, sq, lp, lq, A, B), Keeps(A, A2, id), Took(A, A2, m, id),
           m.kind = "counter", IsLive(sq), IsLive(sq2), sq2.myStatus = "pending",
           sq2.gives = m.gives
    PROVE  Deal(id, P, Q, sp, sq2, lp, {}, A2, B)
<1>1. Quiet(B, id) /\ Quiet(A2, id)
  BY SilenceIsQuiet
<1>2. Silent(B, id) /\ ~Silent(A, id)
  BY DEF Deal, NoCrossing, Took
<1>3. ~Paid(sp, Q) /\ No(A2, id, "propose") /\ No(A2, id, "commit")
  <2>1. ~Paid(sp, Q)
    BY <1>2 DEF Deal, PaidIn
  <2>2. No(A2, id, "propose") /\ No(A2, id, "commit")
    BY DEF Deal, ProposedOnce, CommitsFit, Took
  <2>3. QED
    BY <2>1, <2>2
<1>4. ParticipantBacked(Q, sq2, {})
  BY DEF ParticipantBacked, Vowed
<1>5. NoCrossing(id, A2, B) /\ First(B, id, "accept")
  BY <1>1, <1>2 DEF NoCrossing, Quiet
<1>6. ProposedOnce(id, Q, sp, sq2, A2, B) /\ EndsLast(id, sp, sq2, A2, B)
  BY <1>1, <1>2, <1>3 DEF Deal, ProposedOnce, EndsLast, Quiet, Keeps
<1>7. AnswerStands(id, sq2, {}, B) /\ PaidIn(id, Q, sp, sq2, {}, A2, B)
  BY <1>2, <1>3 DEF AnswerStands, PaidIn
<1>8. SameTerms(id, sp, sq2, A2, B)
  BY <1>1, <1>2 DEF Deal, SameTerms, Quiet, Keeps, Took
<1>9. CommitsFit(id, P, sq2, {}, A2)
  BY <1>1, <1>3 DEF CommitsFit, Quiet
<1>10. QED
  BY <1>4, <1>5, <1>6, <1>7, <1>8, <1>9 DEF Deal

\* AcceptAsProposer, before it is known whether both have accepted
LEMMA DealPaid ==
    ASSUME NEW id, NEW P, NEW Q, NEW sp, NEW sp2, NEW sq, NEW lp, NEW lq, NEW A, NEW B,
           Deal(id, P, Q, sp, sq, lp, lq, A, B), IsLive(sp), IsLive(sp2),
           sp2.gives = sp.gives, sp2.accepted[Q] = sp.accepted[Q], sp2.accepted[P] # Nothing,
           Worth(sp2.accepted[P]) = sp2.gives[P]
    PROVE  Deal(id, P, Q, sp2, sq, {sp2.accepted[P]}, lq, A, B)
<1>1. ProposerBacked(P, sp2, {sp2.accepted[P]})
  BY DEF ProposerBacked, Paid
<1>2. ProposedOnce(id, Q, sp2, sq, A, B) /\ EndsLast(id, sp2, sq, A, B)
  BY DEF Deal, ProposedOnce, EndsLast, Paid
<1>3. PaidIn(id, Q, sp2, sq, lq, A, B) /\ SameTerms(id, sp2, sq, A, B)
  BY DEF Deal, PaidIn, SameTerms, Paid
<1>4. QED
  BY <1>1, <1>2, <1>3 DEF Deal

\* The proposer's Counter
LEMMA ProposerCountered ==
    ASSUME NEW id, NEW P, NEW Q, NEW sp, NEW sp2, NEW sq, NEW lp, NEW lq, NEW A, NEW B, NEW A2,
           NEW m, Deal(id, P, Q, sp, sq, lp, lq, A, B), Added(A, A2, m, id), m.kind = "counter",
           IsLive(sp), IsLive(sp2), sp2.gives = m.gives, sp2.accepted[Q] = Nothing,
           sp2.accepted[P] # Nothing, Worth(sp2.accepted[P]) = sp2.gives[P],
           NoCrossing(id, A2, B)
    PROVE  Deal(id, P, Q, sp2, sq, {sp2.accepted[P]}, lq, A2, B)
<1>1. Quiet(B, id) /\ Quiet(A2, id)
  BY SilenceIsQuiet
<1>2. ~No(A2, id, "counter")
  BY DEF Added
<1>3. Silent(B, id)
  BY <1>2 DEF NoCrossing
<1>4. ProposerBacked(P, sp2, {sp2.accepted[P]})
  BY DEF ProposerBacked, Paid
<1>5. ProposedOnce(id, Q, sp2, sq, A2, B)
  BY DEF Deal, ProposedOnce, Paid, Added
<1>6. EndsLast(id, sp2, sq, A2, B) /\ No(A2, id, "commit")
  BY DEF Deal, EndsLast, Added
<1>7. PaidIn(id, Q, sp2, sq, lq, A2, B)
  BY DEF PaidIn, Paid
<1>8. SameTerms(id, sp2, sq, A2, B)
  BY <1>1, <1>2, <1>3 DEF Deal, SameTerms, Added, Quiet
<1>9. CommitsFit(id, P, sq, lq, A2)
  BY <1>1, <1>6 DEF CommitsFit, Quiet
<1>10. QED
  BY <1>4, <1>5, <1>6, <1>7, <1>8, <1>9 DEF Deal

\* OnAccept, before it is known whether both have accepted
LEMMA AcceptHeard ==
    ASSUME NEW id, NEW P, NEW Q, NEW sp, NEW sp2, NEW sq, NEW lp, NEW lq, NEW A, NEW B, NEW B2,
           NEW m, Deal(id, P, Q, sp, sq, lp, lq, A, B), Keeps(B, B2, id), Took(B, B2, m, id),
           AllIn(A, id, {k \in Frame : k.kind \in {"propose", "counter", "commit", "abort"}}),
           m.kind = "accept", IsLive(sp), IsLive(sp2), sp2.gives = sp.gives,
           sp2.accepted[P] = sp.accepted[P], sp2.accepted[Q] = m.token,
           Worth(m.token) = sp.gives[Q]
    PROVE  Deal(id, P, Q, sp2, sq, lp, lq, A, B2)
<1>1. Quiet(A, id) /\ Quiet(B2, id)
  BY SilenceIsQuiet
<1>2. ~Silent(B, id) /\ ~No(B, id, "accept") /\ No(B2, id, "accept")
  BY DEF Deal, Took
<1>3. Silent(A, id)
  <2>1. No(A, id, "propose") /\ No(A, id, "counter")
    BY <1>2 DEF Deal, ProposedOnce, NoCrossing
  <2>2. No(A, id, "commit") /\ No(A, id, "abort")
    BY DEF Deal, EndsLast
  <2>3. QED
    BY <2>1, <2>2 DEF No, Silent, AllIn
<1>4. ProposerBacked(P, sp2, lp)
  BY DEF Deal, ProposerBacked, Paid
<1>5. NoCrossing(id, A, B2) /\ First(B2, id, "accept")
  BY <1>1, <1>3 DEF Deal, NoCrossing, Keeps, Quiet
<1>6. ProposedOnce(id, Q, sp2, sq, A, B2) /\ EndsLast(id, sp2, sq, A, B2)
  BY <1>1, <1>3 DEF Deal, ProposedOnce, EndsLast, Keeps, Quiet
<1>7. AnswerStands(id, sq, lq, B2)
  BY DEF Deal, AnswerStands, Keeps
<1>8. PaidIn(id, Q, sp2, sq, lq, A, B2)
  BY <1>2, <1>3 DEF Deal, PaidIn, AnswerStands, Took
<1>9. SameTerms(id, sp2, sq, A, B2)
  BY DEF Deal, SameTerms, Keeps, Took
<1>10. QED
  BY <1>4, <1>5, <1>6, <1>7, <1>8, <1>9 DEF Deal

\* The proposer's OnCounter
LEMMA ProposerHeardCounter ==
    ASSUME NEW id, NEW P, NEW Q, NEW sp, NEW sp2, NEW sq, NEW lp, NEW lq, NEW A, NEW B, NEW B2,
           NEW m, Deal(id, P, Q, sp, sq, lp, lq, A, B), Keeps(B, B2, id), Took(B, B2, m, id),
           m.kind = "counter", IsLive(sp), IsLive(sp2), sp2.gives = m.gives,
           sp2.accepted[P] = Nothing, sp2.accepted[Q] = m.token, Worth(m.token) = m.gives[Q]
    PROVE  Deal(id, P, Q, sp2, sq, {}, lq, A, B2)
<1>1. Quiet(A, id) /\ Quiet(B2, id)
  BY SilenceIsQuiet
<1>2. Silent(A, id) /\ No(B2, id, "accept") /\ ~Silent(B, id)
  BY DEF Deal, NoCrossing, Took
<1>3. ProposerBacked(P, sp2, {})
  BY DEF ProposerBacked, Paid
<1>4. NoCrossing(id, A, B2) /\ First(B2, id, "accept")
  BY <1>1, <1>2 DEF Deal, NoCrossing, Keeps, Quiet
<1>5. ProposedOnce(id, Q, sp2, sq, A, B2) /\ EndsLast(id, sp2, sq, A, B2)
  BY <1>1, <1>2 DEF Deal, ProposedOnce, EndsLast, Keeps, Quiet
<1>6. AnswerStands(id, sq, lq, B2)
  BY DEF Deal, AnswerStands, Keeps
<1>7. PaidIn(id, Q, sp2, sq, lq, A, B2)
  BY <1>2 DEF Deal, PaidIn, AnswerStands, Took
<1>8. SameTerms(id, sp2, sq, A, B2)
  BY <1>1, <1>2 DEF Deal, SameTerms, Keeps, Took, Quiet
<1>9. QED
  BY <1>3, <1>4, <1>5, <1>6, <1>7, <1>8 DEF Deal

\* finalize: both have accepted
LEMMA DealCommitted ==
    ASSUME NEW id, NEW P, NEW Q, NEW sp, NEW sq, NEW lp, NEW lq, NEW A, NEW B, NEW A2, NEW m,
           Deal(id, P, Q, sp, sq, lp, lq, A, B), Added(A, A2, m, id), m.kind = "commit",
           AllIn(B, id, {k \in Frame : k.kind \in {"accept", "counter", "reject"}}),
           Paid(sp, P), Paid(sp, Q), m.givesToken = sp.accepted[Q],
           m.getsToken = sp.accepted[P], NoCrossing(id, A2, B)
    PROVE  Deal(id, P, Q, NoProposal, sq, {}, lq, A2, B)
<1>1. Quiet(A, id)
  BY SilenceIsQuiet
<1>2. Silent(A, id) /\ ~Silent(A2, id) /\ IsLive(sp)
  BY DEF Deal, PaidIn, Added, Paid
<1>3. IsLive(sq) => Silent(B, id)
  <2>1. No(B, id, "counter") /\ No(B, id, "accept")
    BY <1>2 DEF NoCrossing, Deal, PaidIn
  <2>2. IsLive(sq) => No(B, id, "reject")
    BY DEF Deal, EndsLast
  <2>3. QED
    BY <2>1, <2>2 DEF No, Silent, AllIn
<1>4. ProposerBacked(P, NoProposal, {}) /\ PaidIn(id, Q, NoProposal, sq, lq, A2, B)
  BY DEF ProposerBacked, PaidIn, Paid, IsLive
<1>5. ProposedOnce(id, Q, NoProposal, sq, A2, B)
  BY <1>1, <1>2 DEF ProposedOnce, Added, Quiet
<1>6. EndsLast(id, NoProposal, sq, A2, B) /\ SameTerms(id, NoProposal, sq, A2, B)
  BY DEF Deal, EndsLast, SameTerms, IsLive
<1>7. CommitsFit(id, P, sq, lq, A2)
  <2>1. Alone(A2, id, "commit")
    BY <1>2 DEF Added
  <2>2. ASSUME IsLive(sq) PROVE Vowed(sq) /\ CommitSays(A2, id, lq, sq.gives[P])
    <3>1. Vowed(sq) /\ lq = {m.givesToken}
      BY <1>3, <2>2 DEF Deal, PaidIn
    <3>2. Silent(B, id) /\ No(B, id, "counter") /\ No(A, id, "counter") /\ No(A, id, "commit")
      BY <1>1, <1>2, <1>3, <2>2, SilenceIsQuiet DEF Quiet
    <3>3. sq.gives[P] = sp.gives[P]
      BY <1>2, <2>2, <3>2 DEF Deal, SameTerms
    <3>4. Worth(m.getsToken) = sq.gives[P]
      BY <3>3 DEF Deal, ProposerBacked
    <3>5. CommitSays(A2, id, lq, sq.gives[P])
      BY <1>1, <3>1, <3>2, <3>4 DEF Added, Quiet
    <3>6. QED
      BY <3>1, <3>5
  <2>3. QED
    BY <2>1, <2>2 DEF CommitsFit
<1>8. QED
  BY <1>4, <1>5, <1>6, <1>7 DEF Deal

-----------------------------------------------------------------------------
(* What binds the two sides as long as nobody gives up what it promised *)

\* A proposal is not both aborted and committed; who is to get a commit has it open; and so has
\* whoever put a note in, as the proposer has heard or is about to hear.
Bound(id, Q, sp, sq, A, B) ==
    /\ No(A, id, "abort") \/ No(A, id, "commit")
    /\ ~No(A, id, "commit") => IsLive(sq)
    /\ IsLive(sp) /\ (Paid(sp, Q) \/ ~No(B, id, "accept") \/ ~No(B, id, "counter")) => IsLive(sq)

LEMMA BoundLess ==
    ASSUME NEW id, NEW Q, NEW sp, NEW sq, NEW A, NEW B, NEW A2, NEW B2,
           Bound(id, Q, sp, sq, A, B), Keeps(A, A2, id), Keeps(B, B2, id)
    PROVE  Bound(id, Q, sp, sq, A2, B2)
BY DEF Bound, Keeps

LEMMA BoundProposed ==
    ASSUME NEW id, NEW Q, NEW sp, NEW A, NEW B, NEW A2, NEW m,
           Silent(A, id), Silent(B, id), Added(A, A2, m, id), m.kind = "propose",
           sp.accepted[Q] = Nothing
    PROVE  Bound(id, Q, sp, NoProposal, A2, B)
<1>1. Quiet(A, id) /\ Quiet(B, id)
  BY SilenceIsQuiet
<1>2. No(A2, id, "abort") /\ No(A2, id, "commit") /\ No(B, id, "accept") /\ No(B, id, "counter")
  BY <1>1 DEF Quiet, Added
<1>3. ~Paid(sp, Q)
  BY DEF Paid
<1>4. QED
  BY <1>2, <1>3 DEF Bound

\* The proposer aborts, commits or makes a counter.
LEMMA BoundAborted ==
    ASSUME NEW id, NEW Q, NEW sp, NEW sq, NEW A, NEW B, NEW A2, NEW m,
           Bound(id, Q, sp, sq, A, B), No(A, id, "commit"), Added(A, A2, m, id), m.kind = "abort"
    PROVE  Bound(id, Q, NoProposal, sq, A2, B)
BY DEF Bound, Added, Paid, IsLive

LEMMA BoundCommitted ==
    ASSUME NEW id, NEW Q, NEW sq, NEW A, NEW B, NEW A2, NEW m,
           IsLive(sq), No(A, id, "abort"), Added(A, A2, m, id), m.kind = "commit"
    PROVE  Bound(id, Q, NoProposal, sq, A2, B)
BY DEF Bound, Added, Paid

LEMMA BoundCountered ==
    ASSUME NEW id, NEW Q, NEW sp, NEW sp2, NEW sq, NEW A, NEW B, NEW A2, NEW m,
           Bound(id, Q, sp, sq, A, B), Added(A, A2, m, id), m.kind = "counter",
           IsLive(sp), sp2.accepted[Q] = Nothing
    PROVE  Bound(id, Q, sp2, sq, A2, B)
BY DEF Bound, Added, Paid

\* Either entry goes, the participant's only while it promises nothing or when it is told to.
LEMMA BoundProposerGone ==
    ASSUME NEW id, NEW Q, NEW sp, NEW sq, NEW A, NEW B, Bound(id, Q, sp, sq, A, B)
    PROVE  Bound(id, Q, NoProposal, sq, A, B)
BY DEF Bound, Paid, IsLive

LEMMA BoundParticipantGone ==
    ASSUME NEW id, NEW P, NEW Q, NEW sp, NEW sq, NEW lp, NEW lq, NEW A, NEW B,
           Deal(id, P, Q, sp, sq, lp, lq, A, B), Bound(id, Q, sp, sq, A, B), ~Vowed(sq)
    PROVE  Bound(id, Q, sp, NoProposal, A, B)
<1>1. No(A, id, "commit")
  BY DEF Deal, CommitsFit, Bound
<1>2. ASSUME IsLive(sp), Paid(sp, Q) \/ ~No(B, id, "accept") \/ ~No(B, id, "counter") PROVE FALSE
  <2>1. IsLive(sq)
    BY <1>2 DEF Bound
  <2>2. Silent(B, id)
    BY <2>1 DEF Deal, AnswerStands
  <2>3. No(B, id, "accept") /\ No(B, id, "counter")
    BY <2>2, SilenceIsQuiet DEF Quiet
  <2>4. ~Paid(sp, Q)
    BY <2>1, <2>2 DEF Deal, PaidIn
  <2>5. QED
    BY <1>2, <2>3, <2>4
<1>3. QED
  BY <1>1, <1>2 DEF Bound

LEMMA BoundRejected ==
    ASSUME NEW id, NEW Q, NEW sp, NEW A, NEW B, NEW B2, NEW m,
           Bound(id, Q, sp, NoProposal, A, B), Added(B, B2, m, id), m.kind = "reject"
    PROVE  Bound(id, Q, sp, NoProposal, A, B2)
BY DEF Bound, Added

LEMMA BoundToldToGo ==
    ASSUME NEW id, NEW P, NEW Q, NEW sp, NEW sq, NEW lp, NEW lq, NEW A, NEW B, NEW A2, NEW m,
           Deal(id, P, Q, sp, sq, lp, lq, A, B), Bound(id, Q, sp, sq, A, B),
           Keeps(A, A2, id), Took(A, A2, m, id), m.kind \in {"abort", "commit"}
    PROVE  Bound(id, Q, sp, NoProposal, A2, B)
<1>1. ~IsLive(sp)
  BY DEF Deal, EndsLast, Took
<1>2. No(A2, id, "commit")
  <2>1. CASE m.kind = "abort"
    BY <2>1 DEF Bound, Took, Keeps
  <2>2. CASE m.kind = "commit"
    BY <2>2 DEF Deal, CommitsFit, Took
  <2>3. QED
    BY <2>1, <2>2
<1>3. QED
  BY <1>1, <1>2 DEF Bound

\* While the participant has its entry it may say what it likes.
LEMMA BoundLive ==
    ASSUME NEW id, NEW Q, NEW sp, NEW sq, NEW A, NEW B, NEW A2,
           Bound(id, Q, sp, sq, A, B), Keeps(A, A2, id), NEW sp2, NEW sq2, IsLive(sq2), NEW B2
    PROVE  Bound(id, Q, sp2, sq2, A2, B2)
BY DEF Bound, Keeps

-----------------------------------------------------------------------------
(* Wallets *)

Holds(w) == UNION (w.free \cup {l.note : l \in w.locked})

LEMMA NoteFacts ==
    ASSUME NEW n \in Notes
    PROVE  n \subseteq Coins /\ n # {} /\ Cardinality(n) \in Nat
<1>1. n \subseteq Coins /\ n # {} /\ IsFiniteSet(Coins)
  BY BearerNotesAssumption DEF Notes
<1>2. Cardinality(n) \in Nat
  BY <1>1, FS_Subset, FS_CardinalityType
<1>3. QED
  BY <1>1, <1>2

\* A part of a note is a note of its currency.
LEMMA PartOfNote ==
    ASSUME NEW n \in Notes, NEW t \in SUBSET n, t # {}
    PROVE  t \in Notes /\ Worth(t).currency = Worth(n).currency
<1>1. t \in Notes
  BY DEF Notes
<1>2. (CHOOSE c \in t : TRUE) \in t /\ (CHOOSE c \in n : TRUE) \in n
  BY NoteFacts
<1>3. Currency[CHOOSE c \in t : TRUE] = Currency[CHOOSE c \in n : TRUE]
  <2> DEFINE x == CHOOSE c \in t : TRUE
             y == CHOOSE c \in n : TRUE
  <2>1. x \in n /\ y \in n
    BY <1>2
  <2> HIDE DEF x, y
  <2>2. Currency[x] = Currency[y]
    BY <2>1 DEF Notes
  <2>3. QED
    BY <2>2 DEF x, y
<1>4. QED
  BY <1>1, <1>3 DEF Worth

SeparateMeans(w) ==
    /\ \A m, n \in w.free : m # n => m \cap n = {}
    /\ \A m \in w.free : \A l \in w.locked : m # l.note /\ m \cap l.note = {}
    /\ \A k, l \in w.locked : k.note # l.note => k.note \cap l.note = {}
    /\ \A k, l \in w.locked : k.note = l.note => k = l

LEMMA SeparateNotes ==
    ASSUME NEW w \in Wallet
    PROVE  Separate(w) <=> SeparateMeans(w)
<1> DEFINE locks == {l.note : l \in w.locked}
<1>1. /\ \A l \in w.locked : l.note \in locks
      /\ \A n \in locks : \E l \in w.locked : n = l.note
  OBVIOUS
<1>2. Separate(w) <=> /\ \A m, n \in w.free \cup locks : m # n => m \cap n = {}
                      /\ w.free \cap locks = {}
                      /\ \A k, l \in w.locked : k.note = l.note => k = l
  BY DEF Separate
<1> HIDE DEF locks
<1>3. ASSUME Separate(w) PROVE SeparateMeans(w)
  <2>1. \A m \in w.free : \A l \in w.locked : m # l.note /\ m \cap l.note = {}
    BY <1>1, <1>2, <1>3
  <2>2. QED
    BY <1>1, <1>2, <1>3, <2>1 DEF SeparateMeans
<1>4. ASSUME SeparateMeans(w) PROVE Separate(w)
  <2>1. \A m, n \in w.free \cup locks : m # n => m \cap n = {}
    <3>1. ASSUME NEW m \in w.free \cup locks, NEW n \in w.free \cup locks, m # n
          PROVE  m \cap n = {}
      <4>1. CASE m \in w.free /\ n \in w.free
        BY <1>4, <3>1, <4>1 DEF SeparateMeans
      <4>2. CASE m \in w.free /\ n \in locks
        BY <1>1, <1>4, <3>1, <4>2 DEF SeparateMeans
      <4>3. CASE m \in locks /\ n \in w.free
        BY <1>1, <1>4, <3>1, <4>3 DEF SeparateMeans
      <4>4. CASE m \in locks /\ n \in locks
        BY <1>1, <1>4, <3>1, <4>4 DEF SeparateMeans
      <4>5. QED
        BY <3>1, <4>1, <4>2, <4>3, <4>4
    <3>2. QED
      BY <3>1
  <2>2. w.free \cap locks = {}
    BY <1>1, <1>4 DEF SeparateMeans
  <2>3. QED
    BY <1>2, <1>4, <2>1, <2>2 DEF SeparateMeans
<1>5. QED
  BY <1>3, <1>4

LEMMA MineMeans ==
    \A w, id : /\ \A k \in w.locked : k.id = id => k.note \in Mine(w, id)
               /\ \A n \in Mine(w, id) : \E k \in w.locked : k.id = id /\ k.note = n
BY DEF Mine

\* Taking a note for a proposal.
LEMMA LockingMade ==
    ASSUME NEW w \in Wallet, NEW spec \in Specs, NEW id \in Ids, NEW l \in Lockings(w, spec, id)
    PROVE  \E note \in w.free :
               /\ note \in Notes /\ l.token \subseteq note /\ l.token \in Notes
               /\ Worth(l.token) = spec
               /\ l.wallet = [free |-> (w.free \ {note}) \cup ({note \ l.token} \ {Nothing}),
                              locked |-> {k \in w.locked : k.note # l.token}
                                         \cup {[note |-> l.token, id |-> id]}]
               /\ l.wallet \in Wallet
<1> PICK note \in PickFreeNote(w, spec) :
        \E token \in kSubset(spec.denomination, note) :
            l = [token |-> token,
                 wallet |-> [free |-> (w.free \ {note}) \cup ({note \ token} \ {Nothing}),
                             locked |-> {k \in w.locked : k.note # token}
                                        \cup {[note |-> token, id |-> id]}]]
  BY DEF Lockings
<1>1. PICK token \in kSubset(spec.denomination, note) :
          l = [token |-> token,
               wallet |-> [free |-> (w.free \ {note}) \cup ({note \ token} \ {Nothing}),
                           locked |-> {k \in w.locked : k.note # token}
                                      \cup {[note |-> token, id |-> id]}]]
  OBVIOUS
<1>2. note \in w.free /\ note \in Notes /\ Worth(note).currency = spec.currency
  BY DEF PickFreeNote, Wallet
<1>3. token \in SUBSET note /\ Cardinality(token) = spec.denomination
  BY DEF kSubset
<1>4. token # {}
  BY <1>3, BearerNotesAssumption, FS_EmptySet
<1>5. token \in Notes /\ Worth(token).currency = spec.currency
  BY <1>2, <1>3, <1>4, PartOfNote
<1>6. Worth(token) = spec
  <2>1. Worth(token) = [currency |-> Worth(token).currency, denomination |-> Cardinality(token)]
    BY DEF Worth
  <2>2. spec = [currency |-> spec.currency, denomination |-> spec.denomination]
    BY BearerNotesAssumption
  <2>3. QED
    BY <1>3, <1>5, <2>1, <2>2
<1>7. l.token = token /\ l.wallet = [free |-> (w.free \ {note}) \cup ({note \ token} \ {Nothing}),
                                      locked |-> {k \in w.locked : k.note # token}
                                                 \cup {[note |-> token, id |-> id]}]
  BY <1>1
<1>8. l.wallet \in Wallet
  <2>1. (w.free \ {note}) \cup ({note \ token} \ {Nothing}) \subseteq Notes
    <3>1. note \ token # {} => note \ token \in Notes
      BY <1>2, PartOfNote
    <3>2. QED
      BY <3>1 DEF Wallet, Nothing
  <2>2. {k \in w.locked : k.note # token} \cup {[note |-> token, id |-> id]}
            \subseteq [note : Notes, id : Ids]
    BY <1>5 DEF Wallet
  <2>3. QED
    BY <1>7, <2>1, <2>2 DEF Wallet
<1>9. QED
  BY <1>2, <1>3, <1>5, <1>6, <1>7, <1>8

\* w with a token locked for id is v.
LockedIn(w, v, id, token) ==
    /\ v \in Wallet /\ Holds(v) = Holds(w)
    /\ Separate(w) => /\ Separate(v)
                      /\ Mine(v, id) = Mine(w, id) \cup {token}
                      /\ \A j : j # id => Mine(v, j) = Mine(w, j)

LEMMA LockingFacts ==
    ASSUME NEW w \in Wallet, NEW spec \in Specs, NEW id \in Ids, NEW l \in Lockings(w, spec, id)
    PROVE  l.token \in Notes /\ Worth(l.token) = spec /\ LockedIn(w, l.wallet, id, l.token)
<1> DEFINE t == l.token
           v == l.wallet
<1>1. PICK note \in w.free :
          /\ note \in Notes /\ t \subseteq note /\ t \in Notes
          /\ Worth(t) = spec
          /\ v = [free |-> (w.free \ {note}) \cup ({note \ t} \ {Nothing}),
                  locked |-> {k \in w.locked : k.note # t} \cup {[note |-> t, id |-> id]}]
          /\ v \in Wallet
  BY LockingMade
<1>2. /\ v.free = (w.free \ {note}) \cup ({note \ t} \ {{}})
      /\ v.locked = {k \in w.locked : k.note # t} \cup {[note |-> t, id |-> id]}
  BY <1>1 DEF Nothing
<1> HIDE DEF t, v
<1>3. t # {}
  BY <1>1, NoteFacts
<1>4. Holds(v) = Holds(w)
  <2>1. \A c : c \in Holds(w) <=> (\E n \in w.free : c \in n) \/ (\E k \in w.locked : c \in k.note)
    BY DEF Holds
  <2>2. \A c : c \in Holds(v) <=> (\E n \in v.free : c \in n) \/ (\E k \in v.locked : c \in k.note)
    BY DEF Holds
  <2>3. ASSUME NEW c, \E n \in w.free : c \in n PROVE c \in Holds(v)
    <3>1. PICK n \in w.free : c \in n
      BY <2>3
    <3>2. CASE n # note
      BY <1>2, <2>2, <3>1, <3>2
    <3>3. CASE n = note /\ c \in t
      <4>1. [note |-> t, id |-> id] \in v.locked /\ c \in [note |-> t, id |-> id].note
        BY <1>2, <3>3
      <4>2. QED
        BY <2>2, <4>1
    <3>4. CASE n = note /\ c \notin t
      <4>1. c \in note \ t /\ note \ t \in v.free
        BY <1>2, <3>1, <3>4
      <4>2. QED
        BY <2>2, <4>1
    <3>5. QED
      BY <3>2, <3>3, <3>4
  <2>4. ASSUME NEW c, \E k \in w.locked : c \in k.note PROVE c \in Holds(v)
    <3>1. PICK k \in w.locked : c \in k.note
      BY <2>4
    <3>2. CASE k.note # t
      BY <1>2, <2>2, <3>1, <3>2
    <3>3. CASE k.note = t
      <4>1. [note |-> t, id |-> id] \in v.locked /\ c \in [note |-> t, id |-> id].note
        BY <1>2, <3>1, <3>3
      <4>2. QED
        BY <2>2, <4>1
    <3>4. QED
      BY <3>2, <3>3
  <2>5. ASSUME NEW c, c \in Holds(v) PROVE c \in Holds(w)
    <3>1. CASE \E n \in v.free : c \in n
      BY <1>2, <2>1, <3>1
    <3>2. CASE \E k \in v.locked : c \in k.note
      BY <1>1, <1>2, <2>1, <3>2
    <3>3. QED
      BY <2>2, <2>5, <3>1, <3>2
  <2>6. QED
    BY <2>1, <2>3, <2>4, <2>5
<1>5. ASSUME Separate(w)
      PROVE  /\ Separate(v)
             /\ Mine(v, id) = Mine(w, id) \cup {t}
             /\ \A j : j # id => Mine(v, j) = Mine(w, j)
  <2>1. SeparateMeans(w)
    BY <1>5, SeparateNotes
  <2>2. \A k \in w.locked : k.note # t /\ k.note \cap note = {}
    <3>1. \A k \in w.locked : k.note \cap note = {}
      BY <2>1 DEF SeparateMeans
    <3>2. QED
      BY <1>1, <1>3, <3>1
  <2>3. v.locked = w.locked \cup {[note |-> t, id |-> id]}
    BY <1>2, <2>2
  <2>4. \A n \in v.free : \/ n \in w.free /\ n # note /\ n \cap note = {}
                          \/ n = note \ t /\ n # {}
    BY <1>2, <2>1 DEF SeparateMeans
  <2>5. SeparateMeans(v)
    <3>1. \A m, n \in v.free : m # n => m \cap n = {}
      BY <2>1, <2>4 DEF SeparateMeans
    <3>2. \A m \in v.free : \A k \in v.locked : m # k.note /\ m \cap k.note = {}
      <4>1. ASSUME NEW m \in v.free, NEW k \in w.locked PROVE m # k.note /\ m \cap k.note = {}
        BY <2>1, <2>2, <2>4 DEF SeparateMeans
      <4>2. ASSUME NEW m \in v.free PROVE m # t /\ m \cap t = {}
        BY <1>1, <1>3, <2>4
      <4>3. QED
        BY <2>3, <4>1, <4>2
    <3>3. \A j, k \in v.locked : j.note # k.note => j.note \cap k.note = {}
      <4>1. \A j, k \in w.locked : j.note # k.note => j.note \cap k.note = {}
        BY <2>1 DEF SeparateMeans
      <4>2. \A k \in w.locked : k.note \cap t = {}
        BY <1>1, <2>2
      <4>3. QED
        BY <2>3, <4>1, <4>2
    <3>4. \A j, k \in v.locked : j.note = k.note => j = k
      BY <2>1, <2>2, <2>3 DEF SeparateMeans
    <3>5. QED
      BY <3>1, <3>2, <3>3, <3>4 DEF SeparateMeans
  <2>6. Separate(v)
    BY <1>1, <2>5, SeparateNotes
  <2>7. Mine(v, id) = Mine(w, id) \cup {t}
    <3>1. \A n : n \in Mine(v, id) <=> \E k \in v.locked : k.id = id /\ n = k.note
      BY DEF Mine
    <3>2. \A n : n \in Mine(w, id) <=> \E k \in w.locked : k.id = id /\ n = k.note
      BY DEF Mine
    <3>3. \A n : n \in Mine(v, id) <=> n \in Mine(w, id) \/ n = t
      <4> DEFINE new == [note |-> t, id |-> id]
      <4>1. new.note = t /\ new.id = id /\ v.locked = w.locked \cup {new}
        BY <2>3
      <4> HIDE DEF new
      <4>2. QED
        BY <3>1, <3>2, <4>1
    <3>4. QED
      BY <3>3
  <2>8. \A j : j # id => Mine(v, j) = Mine(w, j)
    BY <2>3 DEF Mine
  <2>9. QED
    BY <2>6, <2>7, <2>8
<1>6. LockedIn(w, v, id, t)
  BY <1>1, <1>4, <1>5 DEF LockedIn
<1>7. QED
  BY <1>1, <1>6 DEF t, v

\* w with the notes of id free again is v.
FreedIn(w, v, id) ==
    /\ v \in Wallet /\ Holds(v) = Holds(w) /\ w.free \subseteq v.free
    /\ Mine(v, id) = {}
    /\ \A j : j # id => Mine(v, j) = Mine(w, j)
    /\ Separate(w) => Separate(v)

LEMMA ReleaseFacts ==
    ASSUME NEW w \in Wallet, NEW id
    PROVE  FreedIn(w, ReleaseLockedFor(w, id), id)
<1> DEFINE v == ReleaseLockedFor(w, id)
           mine == {l \in w.locked : l.id = id}
<1>1. v.free = w.free \cup {l.note : l \in mine} /\ v.locked = w.locked \ mine
  BY DEF ReleaseLockedFor
<1>2. v = [free |-> v.free, locked |-> v.locked]
  BY DEF ReleaseLockedFor
<1>3. /\ \A k : k \in v.locked <=> k \in w.locked /\ k.id # id
      /\ \A n : n \in v.free <=> n \in w.free \/ \E k \in w.locked : k.id = id /\ n = k.note
  BY <1>1
<1> HIDE DEF v, mine
<1>4. v \in Wallet /\ w.free \subseteq v.free
  <2>1. v.free \subseteq Notes /\ v.locked \subseteq [note : Notes, id : Ids]
    BY <1>3 DEF Wallet
  <2>2. QED
    BY <1>2, <1>3, <2>1 DEF Wallet
<1>5. Holds(v) = Holds(w)
  <2>1. \A c : c \in Holds(w) <=> (\E n \in w.free : c \in n) \/ (\E k \in w.locked : c \in k.note)
    BY DEF Holds
  <2>2. \A c : c \in Holds(v) <=> (\E n \in v.free : c \in n) \/ (\E k \in v.locked : c \in k.note)
    BY DEF Holds
  <2>3. \A c : c \in Holds(w) <=> c \in Holds(v)
    BY <1>3, <2>1, <2>2
  <2>4. QED
    BY <2>3
<1>6. Mine(v, id) = {} /\ \A j : j # id => Mine(v, j) = Mine(w, j)
  BY <1>3 DEF Mine
<1>7. ASSUME Separate(w) PROVE Separate(v)
  <2>1. SeparateMeans(w)
    BY <1>7, SeparateNotes
  <2>2. \A n \in v.free : n \in w.free \/ \E k \in w.locked : k.id = id /\ n = k.note
    BY <1>3
  <2>3. \A m, n \in v.free : m # n => m \cap n = {}
    BY <2>1, <2>2 DEF SeparateMeans
  <2>4. \A m \in v.free : \A l \in v.locked : m # l.note /\ m \cap l.note = {}
    <3>1. ASSUME NEW m \in v.free, NEW l \in v.locked PROVE m # l.note /\ m \cap l.note = {}
      <4>1. l \in w.locked /\ l.id # id
        BY <1>3
      <4>2. CASE m \in w.free
        BY <2>1, <4>1, <4>2 DEF SeparateMeans
      <4>3. CASE \E k \in w.locked : k.id = id /\ m = k.note
        BY <2>1, <4>1, <4>3 DEF SeparateMeans
      <4>4. QED
        BY <2>2, <4>2, <4>3
    <3>2. QED
      BY <3>1
  <2>5. SeparateMeans(v)
    BY <1>3, <2>1, <2>3, <2>4 DEF SeparateMeans
  <2>6. QED
    BY <1>4, <2>5, SeparateNotes
<1>8. FreedIn(w, v, id)
  BY <1>4, <1>5, <1>6, <1>7 DEF FreedIn
<1>9. QED
  BY <1>8 DEF v

\* w with the note paid for id gone and the note got there is v.
PaidFrom(w, v, id, paid, got) ==
    Separate(w) /\ Mine(w, id) = {paid} =>
        /\ Mine(v, id) = {}
        /\ \A j : j # id => Mine(v, j) = Mine(w, j)
        /\ Holds(v) = (Holds(w) \ paid) \cup got

LEMMA CommitFacts ==
    ASSUME NEW w \in Wallet, NEW p, NEW st, NEW row, NEW id, row.getsToken \in Notes
    PROVE  /\ ApplyCommit(w, p, st, row) \in Wallet
           /\ Worth(row.getsToken) = st.gives[Partner(p, st)] =>
                  PaidFrom(w, ApplyCommit(w, p, st, row), id, row.givesToken, row.getsToken)
<1> DEFINE v == ApplyCommit(w, p, st, row)
           paid == row.givesToken
           got == row.getsToken
<1>1. v \in Wallet
  BY DEF ApplyCommit, Wallet
<1>2. ASSUME Worth(got) = st.gives[Partner(p, st)], Separate(w), Mine(w, id) = {paid}
      PROVE  /\ Mine(v, id) = {}
             /\ \A j : j # id => Mine(v, j) = Mine(w, j)
             /\ Holds(v) = (Holds(w) \ paid) \cup got
  <2>1. v.free = w.free \cup {got} /\ v.locked = {l \in w.locked : l.note # paid}
    BY <1>2 DEF ApplyCommit
  <2> HIDE DEF v, got, paid
  <2>2. SeparateMeans(w)
    BY <1>2, SeparateNotes
  <2>3. PICK k \in w.locked : k.id = id /\ k.note = paid
    BY <1>2, MineMeans
  <2>4. \A l \in w.locked : l.note = paid => l = k
    BY <2>2, <2>3 DEF SeparateMeans
  <2>5. \A l : l \in v.locked <=> l \in w.locked /\ l # k
    BY <2>1, <2>3, <2>4
  <2>6. Mine(v, id) = {}
    <3>1. \A l \in w.locked : l.id = id => l.note = paid
      BY <1>2, MineMeans
    <3>2. \A l \in v.locked : l.id # id
      BY <2>1, <3>1
    <3>3. QED
      BY <3>2 DEF Mine
  <2>7. \A j : j # id => Mine(v, j) = Mine(w, j)
    BY <2>3, <2>5 DEF Mine
  <2>8. Holds(v) = (Holds(w) \ paid) \cup got
    <3>1. \A c : c \in Holds(w) <=> (\E n \in w.free : c \in n) \/ (\E l \in w.locked : c \in l.note)
      BY DEF Holds
    <3>2. \A c : c \in Holds(v) <=> (\E n \in v.free : c \in n) \/ (\E l \in v.locked : c \in l.note)
      BY DEF Holds
    <3>3. \A n \in w.free : n \cap paid = {}
      BY <2>2, <2>3 DEF SeparateMeans
    <3>4. \A l \in v.locked : l \in w.locked /\ l.note \cap paid = {}
      BY <2>1, <2>2, <2>3 DEF SeparateMeans
    <3>5. \A c : (\E n \in v.free : c \in n) <=> (\E n \in w.free : c \in n) \/ c \in got
      BY <2>1
    <3>6. \A c : c \in paid => c \in Holds(w)
      BY <2>3, <3>1
    <3>7. \A c : (\E l \in w.locked : c \in l.note) <=> (\E l \in v.locked : c \in l.note) \/ c \in paid
      BY <2>3, <2>5
    <3>8. \A c : c \in Holds(v) <=> (c \in Holds(w) /\ c \notin paid) \/ c \in got
      BY <3>1, <3>2, <3>3, <3>4, <3>5, <3>7
    <3>9. QED
      BY <3>8
  <2>9. QED
    BY <2>6, <2>7, <2>8
<1>3. QED
  BY <1>1, <1>2 DEF PaidFrom

-----------------------------------------------------------------------------
(* The invariant *)

\* What r may have noted of a proposal of P to Q, and what each may say of it.
State(r, P, Q) ==
    [role: {IF r = P THEN "proposer" ELSE "participant"}, myStatus: {"pending", "accepted"},
     proposer: {P}, gives: [{P, Q} -> Specs], accepted: [{P, Q} -> Notes \cup {Nothing}]]
Counters(r, P, Q) ==
    {m \in [kind: {"counter"}, id: Ids, gives: [{P, Q} -> Specs], token: Notes] :
        Worth(m.token) = m.gives[r]}
FromProposer(P, Q) ==
    [kind: {"propose"}, id: Ids, gives: [{P, Q} -> Specs]] \cup Counters(P, P, Q)
    \cup [kind: {"commit"}, id: Ids, givesToken: Notes, getsToken: Notes]
    \cup [kind: {"abort"}, id: Ids]
FromParticipant(P, Q) ==
    [kind: {"accept"}, id: Ids, token: Notes] \cup Counters(Q, P, Q)
    \cup [kind: {"reject"}, id: Ids]
Said(r, s, P, Q) ==
    IF r = P /\ s = Q THEN FromProposer(P, Q)
    ELSE IF r = Q /\ s = P THEN FromParticipant(P, Q) ELSE {}

Roles(id, P, Q) ==
    \A r \in Peers : IsLive(prop[r][id]) => r \in {P, Q} /\ prop[r][id] \in State(r, P, Q)
Wires(id, P, Q) == \A r, s \in Peers : AllIn(net[r][s], id, Said(r, s, P, Q))
NoLocks(id, P, Q) == \A r \in Peers \ {P, Q} : Mine(wallet[r], id) = {}
DealOf(id, P, Q) ==
    Deal(id, P, Q, prop[P][id], prop[Q][id], Mine(wallet[P], id), Mine(wallet[Q], id),
         net[P][Q], net[Q][P])

BoundOf(id, P, Q) == Bound(id, Q, prop[P][id], prop[Q][id], net[P][Q], net[Q][P])

Calm == ~astray /\ ~twice
Sure == Calm /\ ~cut
Between(id, P, Q) ==
    /\ P # Q /\ Roles(id, P, Q) /\ Wires(id, P, Q)
    /\ Calm => NoLocks(id, P, Q) /\ DealOf(id, P, Q)
    /\ Sure => BoundOf(id, P, Q)
Untouched(id) ==
    \A p \in Peers :
        /\ prop[p][id] = NoProposal
        /\ Calm => Mine(wallet[p], id) = {}
        /\ \A q \in Peers : Silent(net[p][q], id)
DealsInv ==
    \A id \in Ids : IF id \in fresh THEN Untouched(id)
                    ELSE \E P, Q \in Peers : Between(id, P, Q)

NoCross == ~astray => ~Crossing(net)
SeparateInv == ~twice => \A p \in Peers : Separate(wallet[p])

\* What a reload freed is not saved before the next change.
Saved(w, s) == s = w \/ (w.locked = {} /\ s.locked = {} /\ s.free \subseteq w.free)
StoreInv == ~astray => \A p \in Peers : Saved(wallet[p], stored[p])

RdvInv == TypeOK /\ DealsInv /\ NoCross /\ SeparateInv /\ StoreInv

\* The last conjunct of Next.
Marked == twice' = (twice \/ \E p \in Peers : ~Separate(wallet'[p]))

-----------------------------------------------------------------------------
(* Proposals and frames *)

LEMMA PartyOfTwo ==
    ASSUME NEW P \in Peers, NEW Q \in Peers, P # Q
    PROVE  {P, Q} \in Parties
<1>1. Cardinality({P, Q}) = 2
  <2>1. IsFiniteSet({P}) /\ Cardinality({P}) = 1
    BY FS_Singleton
  <2>2. {P, Q} = {P} \cup {Q} /\ Q \notin {P}
    OBVIOUS
  <2>3. QED
    BY <2>1, <2>2, FS_AddElement
<1>2. QED
  BY <1>1 DEF Parties

LEMMA StateFacts ==
    ASSUME NEW P \in Peers, NEW Q \in Peers, P # Q, NEW r, NEW st \in State(r, P, Q)
    PROVE  /\ st \in Proposal /\ IsLive(st)
           /\ Partner(P, st) = Q /\ Partner(Q, st) = P
           /\ DOMAIN st.gives = {P, Q}
           /\ st.gives[P] \in Specs /\ st.gives[Q] \in Specs
           /\ st.proposer = P
           /\ st.role = IF r = P THEN "proposer" ELSE "participant"
           /\ st.accepted[P] \in Notes \cup {Nothing} /\ st.accepted[Q] \in Notes \cup {Nothing}
           /\ AllAccepted(st) <=> st.accepted[P] # Nothing /\ st.accepted[Q] # Nothing
<1>1. {P, Q} \in Parties
  BY PartyOfTwo
<1>2. st \in Proposal
  BY <1>1 DEF State, Proposal
<1>3. IsLive(st)
  BY DEF State, IsLive, NoProposal
<1>4. DOMAIN st.gives = {P, Q}
  BY DEF State
<1>5. Partner(P, st) = Q /\ Partner(Q, st) = P
  BY <1>4 DEF Partner
<1>6. AllAccepted(st) <=> st.accepted[P] # Nothing /\ st.accepted[Q] # Nothing
  BY <1>4 DEF AllAccepted
<1>7. QED
  BY <1>2, <1>3, <1>4, <1>5, <1>6 DEF State

LEMMA NoneIsNotLive == ~IsLive(NoProposal) /\ \A r : ~Paid(NoProposal, r)
BY DEF IsLive, Paid

LEMMA PairFacts ==
    ASSUME NEW p, NEW q, p # q, NEW x, NEW y
    PROVE  /\ Pair(p, x, q, y)[p] = x /\ Pair(p, x, q, y)[q] = y
           /\ \A S : x \in S /\ y \in S => /\ Pair(p, x, q, y) \in [{p, q} -> S]
                                           /\ Pair(p, x, q, y) \in [{q, p} -> S]
<1>1. {p, q} = {q, p}
  OBVIOUS
<1>2. \A S : x \in S /\ y \in S => Pair(p, x, q, y) \in [{p, q} -> S]
  BY DEF Pair
<1>3. QED
  BY <1>1, <1>2 DEF Pair

LEMMA SaidIsFrame ==
    ASSUME NEW P \in Peers, NEW Q \in Peers, P # Q, NEW r, NEW s, NEW m \in Said(r, s, P, Q)
    PROVE  m \in Frame
<1> DEFINE pair == {P, Q}
<1>1. pair \in Parties
  BY PartyOfTwo
<1>2. m \in FromProposer(P, Q) \/ m \in FromParticipant(P, Q)
  BY DEF Said
<1>3. /\ [kind: {"propose"}, id: Ids, gives: [pair -> Specs]] \subseteq Frame
      /\ [kind: {"counter"}, id: Ids, gives: [pair -> Specs], token: Notes] \subseteq Frame
  <2> DEFINE offers == [kind: {"propose"}, id: Ids, gives: [pair -> Specs]]
             terms == [kind: {"counter"}, id: Ids, gives: [pair -> Specs], token: Notes]
  <2>1. ASSUME NEW k \in offers \cup terms PROVE k \in Frame
    <3>1. k \in UNION {[kind: {"propose"}, id: Ids, gives: [x -> Specs]]
                       \cup [kind: {"counter"}, id: Ids, gives: [x -> Specs], token: Notes]
                           : x \in Parties}
      BY <1>1, <2>1
    <3>2. QED
      BY <3>1 DEF Frame
  <2>2. QED
    BY <2>1
<1>4. /\ [kind: {"accept"}, id: Ids, token: Notes] \subseteq Frame
      /\ [kind: {"commit"}, id: Ids, givesToken: Notes, getsToken: Notes] \subseteq Frame
      /\ [kind: {"reject", "abort"}, id: Ids] \subseteq Frame
  BY DEF Frame
<1>5. /\ [kind: {"reject"}, id: Ids] \subseteq [kind: {"reject", "abort"}, id: Ids]
      /\ [kind: {"abort"}, id: Ids] \subseteq [kind: {"reject", "abort"}, id: Ids]
  OBVIOUS
<1>6. CASE m \in FromProposer(P, Q)
  BY <1>3, <1>4, <1>5, <1>6 DEF FromProposer, Counters
<1>7. CASE m \in FromParticipant(P, Q)
  BY <1>3, <1>4, <1>5, <1>7 DEF FromParticipant, Counters
<1>8. QED
  BY <1>2, <1>6, <1>7

LEMMA SaidFacts ==
    ASSUME NEW P \in Peers, NEW Q \in Peers, P # Q
    PROVE  /\ Said(P, Q, P, Q) = FromProposer(P, Q)
           /\ Said(Q, P, P, Q) = FromParticipant(P, Q)
           /\ \A m \in FromProposer(P, Q) :
                  /\ m.kind \in {"propose", "counter", "commit", "abort"}
                  /\ m.kind \in {"propose", "counter"} => m.gives \in [{P, Q} -> Specs]
                  /\ m.kind = "counter" => m.token \in Notes /\ Worth(m.token) = m.gives[P]
                  /\ m.kind = "commit" => m.givesToken \in Notes /\ m.getsToken \in Notes
           /\ \A m \in FromParticipant(P, Q) :
                  /\ m.kind \in {"accept", "counter", "reject"}
                  /\ m.kind = "counter" => m.gives \in [{P, Q} -> Specs]
                  /\ m.kind \in {"accept", "counter"} => m.token \in Notes
                  /\ m.kind = "counter" => Worth(m.token) = m.gives[Q]
<1>1. Said(P, Q, P, Q) = FromProposer(P, Q) /\ Said(Q, P, P, Q) = FromParticipant(P, Q)
  BY DEF Said
<1>2. QED
  BY <1>1 DEF FromProposer, FromParticipant, Counters

LEMMA CrossingMeans ==
    ASSUME NEW wires \in [Peers -> [Peers -> Seq(Frame)]], ~Crossing(wires), NEW id,
           NEW P \in Peers, NEW Q \in Peers, P # Q
    PROVE  NoCrossing(id, wires[P][Q], wires[Q][P])
<1>1. ASSUME NEW p \in Peers, NEW q \in Peers, p # q
      PROVE  No(wires[p][q], id, "counter") \/ Silent(wires[q][p], id)
  <2> DEFINE out == wires[p][q]
             in == wires[q][p]
  <2>1. out \in Seq(Frame) /\ in \in Seq(Frame)
    OBVIOUS
  <2>2. DOMAIN out = 1..Len(out) /\ DOMAIN in = 1..Len(in)
    BY <2>1, LenProperties
  <2>3. \A m \in Range(out) : \A n \in Range(in) : ~(m.kind = "counter" /\ n.id = m.id)
    BY <1>1 DEF Crossing
  <2> HIDE DEF out, in
  <2>4. /\ \A i \in 1..Len(out) : out[i] \in Range(out)
        /\ \A i \in 1..Len(in) : in[i] \in Range(in)
    BY <2>2 DEF Range
  <2>5. \A i \in 1..Len(out), j \in 1..Len(in) : out[i].kind = "counter" => in[j].id # out[i].id
    BY <2>3, <2>4
  <2>6. No(out, id, "counter") \/ Silent(in, id)
    BY <2>5 DEF No, Silent
  <2>7. QED
    BY <2>6 DEF out, in
<1>2. QED
  BY <1>1 DEF NoCrossing

\* With fewer frames there is no more crossing.
LEMMA CrossingGrows ==
    ASSUME NEW wires, NEW less,
           \A p, q \in Peers : Range(less[p][q]) \subseteq Range(wires[p][q]),
           ~Crossing(wires)
    PROVE  ~Crossing(less)
BY DEF Crossing

LEMMA TailRange ==
    ASSUME NEW s \in Seq(Frame), s # <<>>
    PROVE  Range(Tail(s)) \subseteq Range(s)
<1>1. /\ \A i \in 1..Len(Tail(s)) : i + 1 \in 1..Len(s) /\ Tail(s)[i] = s[i + 1]
      /\ Tail(s) \in Seq(Frame)
  BY TailReads
<1>2. DOMAIN Tail(s) = 1..Len(Tail(s)) /\ DOMAIN s = 1..Len(s)
  BY <1>1, LenProperties
<1>3. QED
  BY <1>1, <1>2 DEF Range

-----------------------------------------------------------------------------
(* A turn: p changes its wallet to w and its entry for id to st, and the wires to and from *)
(* q become out and in; of other proposals they say what they said                         *)

Wired(p, q, id, out, in) ==
    /\ net' \in [Peers -> [Peers -> Seq(Frame)]]
    /\ net'[p][q] = out /\ net'[q][p] = in
    /\ \A r, s \in Peers : (r = p /\ s = q) \/ (r = q /\ s = p) \/ net'[r][s] = net[r][s]
    /\ \A j : j # id => Same(net[p][q], out, j) /\ Same(net[q][p], in, j)

\* What is cut stays cut.
Cuts == cut' \in BOOLEAN /\ (cut => cut')

Turn(p, q, id, w, st, out, in) ==
    /\ wallet' = [wallet EXCEPT ![p] = w] /\ w \in Wallet
    /\ \/ stored' = [stored EXCEPT ![p] = w]
       \/ stored' = stored /\ wallet[p].free \subseteq w.free /\ (w = wallet[p] \/ astray')
    /\ prop' = [prop EXCEPT ![p][id] = st]
    /\ Wired(p, q, id, out, in)
    /\ fresh' = fresh \/ fresh' = fresh \ {id}
    /\ Cuts /\ budget' \in [counters: 0..MaxCounters, faults: 0..MaxFaults]
    /\ astray' \in BOOLEAN /\ (astray \/ Crossing(net') => astray')
    /\ Marked

LEMMA WiresStill ==
    ASSUME TypeOK, NEW p \in Peers, NEW q \in Peers, NEW id, UNCHANGED net
    PROVE  Wired(p, q, id, net[p][q], net[q][p])
BY SameReflexive DEF Wired, TypeOK

LEMMA WiresSend ==
    ASSUME TypeOK, NEW p \in Peers, NEW q \in Peers, p # q, NEW m \in Frame, Send(p, q, m)
    PROVE  Wired(p, q, m.id, Append(net[p][q], m), net[q][p])
<1> DEFINE out == Append(net[p][q], m)
<1>1. net \in [Peers -> [Peers -> Seq(Frame)]] /\ net[p][q] \in Seq(Frame)
  BY DEF TypeOK
<1>2. out \in Seq(Frame)
  BY <1>1, AppendReads
<1>3. \A j : j # m.id => Same(net[p][q], out, j) /\ Same(net[q][p], net[q][p], j)
  BY <1>1, OtherAdded, SameReflexive
<1> HIDE DEF out
<1>4. net' = [net EXCEPT ![p][q] = out]
  BY <1>1 DEF Send, out
<1>5. QED
  BY <1>1, <1>2, <1>3, <1>4 DEF Wired, out

LEMMA WiresTake ==
    ASSUME TypeOK, NEW p \in Peers, NEW q \in Peers, p # q, net[q][p] # <<>>, Taken(p, q)
    PROVE  Wired(p, q, Head(net[q][p]).id, net[p][q], Tail(net[q][p]))
<1> DEFINE in == Tail(net[q][p])
           id == Head(net[q][p]).id
<1>1. net \in [Peers -> [Peers -> Seq(Frame)]] /\ net[q][p] \in Seq(Frame)
  BY DEF TypeOK
<1>2. in \in Seq(Frame)
  BY <1>1, TailReads
<1>3. \A j : j # id => Same(net[p][q], net[p][q], j) /\ Same(net[q][p], in, j)
  BY <1>1, OtherTaken, SameReflexive
<1> HIDE DEF in, id
<1>4. net' = [net EXCEPT ![q][p] = in]
  BY <1>1 DEF Taken, in
<1>5. Wired(p, q, id, net[p][q], in)
  BY <1>1, <1>2, <1>3, <1>4 DEF Wired
<1>6. QED
  BY <1>5 DEF in, id

LEMMA WiresAnswer ==
    ASSUME TypeOK, NEW p \in Peers, NEW q \in Peers, p # q, net[q][p] # <<>>,
           NEW m \in Frame, m.id = Head(net[q][p]).id, Answered(p, q, m)
    PROVE  Wired(p, q, m.id, Append(net[p][q], m), Tail(net[q][p]))
<1> DEFINE in == Tail(net[q][p])
           out == Append(net[p][q], m)
<1>1. /\ net \in [Peers -> [Peers -> Seq(Frame)]]
      /\ net[q][p] \in Seq(Frame) /\ net[p][q] \in Seq(Frame)
  BY DEF TypeOK
<1>2. in \in Seq(Frame) /\ out \in Seq(Frame)
  BY <1>1, TailReads, AppendReads
<1>3. \A j : j # m.id => Same(net[p][q], out, j) /\ Same(net[q][p], in, j)
  BY <1>1, OtherTaken, OtherAdded
<1> HIDE DEF in, out
<1>4. net' = [net EXCEPT ![q][p] = in, ![p][q] = out]
  BY <1>1 DEF Answered, in, out
<1>5. Wired(p, q, m.id, out, in)
  BY <1>1, <1>2, <1>3, <1>4 DEF Wired
<1>6. QED
  BY <1>5 DEF in, out

\* Between two steps a page stays calm, and so were they before.
LEMMA CalmBefore ==
    ASSUME RdvInv, Marked, astray => astray', twice \in BOOLEAN
    PROVE  Calm' => /\ Calm
                    /\ \A p \in Peers : Separate(wallet[p]) /\ Separate(wallet'[p])
BY DEF Calm, Marked, RdvInv, SeparateInv

LEMMA CalmTurn ==
    ASSUME RdvInv, NEW p \in Peers, NEW q \in Peers, NEW id, NEW w, NEW st, NEW out, NEW in,
           Turn(p, q, id, w, st, out, in), Calm'
    PROVE  /\ Calm /\ Separate(wallet[p])
           /\ \A P, Q \in Peers : P # Q => NoCrossing(id, net'[P][Q], net'[Q][P])
<1>1. net' \in [Peers -> [Peers -> Seq(Frame)]] /\ ~Crossing(net')
  BY DEF Turn, Wired, Calm
<1>2. Calm /\ Separate(wallet[p])
  BY CalmBefore DEF Turn, RdvInv, TypeOK
<1>3. ASSUME NEW P \in Peers, NEW Q \in Peers, P # Q
      PROVE  NoCrossing(id, net'[P][Q], net'[Q][P])
  BY <1>1, <1>3, CrossingMeans
<1>4. QED
  BY <1>2, <1>3

LEMMA SureTurn ==
    ASSUME RdvInv, NEW p \in Peers, NEW q \in Peers, NEW id, NEW w, NEW st, NEW out, NEW in,
           Turn(p, q, id, w, st, out, in), Sure'
    PROVE  Calm' /\ Sure
<1>1. Calm' /\ ~cut' /\ ~cut
  BY DEF Sure, Turn, Cuts
<1>2. QED
  BY <1>1, CalmTurn DEF Sure

\* The other proposals do not notice a turn.
LEMMA OthersStay ==
    ASSUME RdvInv, NEW p \in Peers, NEW q \in Peers, p # q, NEW id \in Ids, NEW w, NEW st,
           NEW out, NEW in, Turn(p, q, id, w, st, out, in),
           Calm' => \A j : j # id => Mine(w, j) = Mine(wallet[p], j),
           NEW j \in Ids, j # id
    PROVE  IF j \in fresh THEN Untouched(j)' ELSE \E P, Q \in Peers : Between(j, P, Q)'
<1>1. /\ wallet \in [Peers -> Wallet]
      /\ prop \in [Peers -> [Ids -> Proposal \cup {NoProposal}]]
  BY DEF RdvInv, TypeOK
<1>2. \A r \in Peers : prop'[r][j] = prop[r][j]
  BY <1>1 DEF Turn
<1>3. \A r, s \in Peers : Same(net[r][s], net'[r][s], j)
  BY SameReflexive DEF Turn, Wired
<1>4. Calm' => Calm /\ \A r \in Peers : Mine(wallet'[r], j) = Mine(wallet[r], j)
  <2>1. \A r \in Peers : r # p => wallet'[r] = wallet[r]
    BY <1>1 DEF Turn
  <2>2. wallet'[p] = w
    BY <1>1 DEF Turn
  <2>3. QED
    BY <2>1, <2>2, CalmTurn
<1>5. CASE j \in fresh
  <2>1. Untouched(j)
    BY <1>5 DEF RdvInv, DealsInv
  <2>2. \A r, s \in Peers : Silent(net'[r][s], j)
    BY <1>3, <2>1 DEF Untouched, Same, Keeps
  <2>3. Untouched(j)'
    BY <1>2, <1>4, <2>1, <2>2 DEF Untouched
  <2>4. QED
    BY <1>5, <2>3
<1>6. CASE j \notin fresh
  <2>1. PICK P \in Peers, Q \in Peers : Between(j, P, Q)
    BY <1>6 DEF RdvInv, DealsInv
  <2>2. P # Q /\ Roles(j, P, Q)'
    BY <1>2, <2>1 DEF Between, Roles
  <2>3. Wires(j, P, Q)'
    BY <1>3, <2>1 DEF Between, Wires, Same, Keeps
  <2>4. ASSUME Calm' PROVE NoLocks(j, P, Q)' /\ DealOf(j, P, Q)'
    <3>1. NoLocks(j, P, Q) /\ DealOf(j, P, Q)
      BY <1>4, <2>1, <2>4 DEF Between
    <3>2. NoLocks(j, P, Q)'
      BY <1>4, <2>4, <3>1 DEF NoLocks
    <3>3. /\ prop'[P][j] = prop[P][j] /\ prop'[Q][j] = prop[Q][j]
          /\ Mine(wallet'[P], j) = Mine(wallet[P], j) /\ Mine(wallet'[Q], j) = Mine(wallet[Q], j)
          /\ Same(net[P][Q], net'[P][Q], j) /\ Same(net[Q][P], net'[Q][P], j)
      BY <1>2, <1>3, <1>4, <2>4
    <3>4. Deal(j, P, Q, prop[P][j], prop[Q][j], Mine(wallet[P], j), Mine(wallet[Q], j),
               net'[P][Q], net'[Q][P])
      BY <3>1, <3>3, DealAside DEF DealOf
    <3>5. DealOf(j, P, Q)'
      BY <3>3, <3>4 DEF DealOf
    <3>6. QED
      BY <3>2, <3>5
  <2>5. ASSUME Sure' PROVE BoundOf(j, P, Q)'
    <3>1. Sure /\ BoundOf(j, P, Q)
      BY <2>1, <2>5, SureTurn DEF Between
    <3>2. /\ prop'[P][j] = prop[P][j] /\ prop'[Q][j] = prop[Q][j]
          /\ Keeps(net[P][Q], net'[P][Q], j) /\ Keeps(net[Q][P], net'[Q][P], j)
      BY <1>2, <1>3, SameKeeps
    <3>3. Bound(j, Q, prop[P][j], prop[Q][j], net'[P][Q], net'[Q][P])
      BY <3>1, <3>2, BoundLess DEF BoundOf
    <3>4. QED
      BY <3>2, <3>3 DEF BoundOf
  <2>6. Between(j, P, Q)'
    BY <2>2, <2>3, <2>4, <2>5 DEF Between
  <2>7. QED
    BY <1>6, <2>6
<1>7. QED
  BY <1>5, <1>6

\* What else a turn keeps.
LEMMA TurnTypes ==
    ASSUME RdvInv, NEW p \in Peers, NEW q \in Peers, NEW id \in Ids, NEW w, NEW out, NEW in,
           NEW st \in Proposal \cup {NoProposal}, Turn(p, q, id, w, st, out, in)
    PROVE  TypeOK' /\ NoCross' /\ SeparateInv' /\ StoreInv'
<1>1. /\ wallet \in [Peers -> Wallet] /\ stored \in [Peers -> Wallet]
      /\ \A r \in Peers : stored[r].free \subseteq wallet[r].free
      /\ prop \in [Peers -> [Ids -> Proposal \cup {NoProposal}]]
      /\ fresh \subseteq Ids /\ twice \in BOOLEAN
  BY DEF RdvInv, TypeOK
<1>2. wallet' \in [Peers -> Wallet] /\ stored' \in [Peers -> Wallet]
  BY <1>1 DEF Turn
<1>3. wallet'[p] = w /\ \A r \in Peers : r # p => wallet'[r] = wallet[r]
  BY <1>1 DEF Turn
<1>4. /\ \A r \in Peers : r # p => stored'[r] = stored[r]
      /\ \/ stored'[p] = w
         \/ stored'[p] = stored[p] /\ wallet[p].free \subseteq w.free /\ (w = wallet[p] \/ astray')
  BY <1>1 DEF Turn
<1>5. \A r \in Peers : stored'[r].free \subseteq wallet'[r].free
  BY <1>1, <1>3, <1>4
<1>6. prop' \in [Peers -> [Ids -> Proposal \cup {NoProposal}]]
  BY <1>1 DEF Turn
<1>7. twice' \in BOOLEAN
  BY <1>1 DEF Turn, Marked
<1>8. TypeOK'
  BY <1>1, <1>2, <1>5, <1>6, <1>7 DEF TypeOK, Turn, Wired, Cuts
<1>9. NoCross' /\ SeparateInv'
  BY DEF NoCross, SeparateInv, Turn, Marked
<1>10. StoreInv'
  <2>1. ASSUME ~astray', NEW r \in Peers PROVE Saved(wallet'[r], stored'[r])
    <3>1. Saved(wallet[r], stored[r])
      BY <2>1 DEF RdvInv, StoreInv, Turn
    <3>2. CASE r = p
      BY <1>3, <1>4, <2>1, <3>1, <3>2 DEF Saved
    <3>3. CASE r # p
      BY <1>3, <1>4, <3>1, <3>3
    <3>4. QED
      BY <3>2, <3>3
  <2>2. QED
    BY <2>1 DEF StoreInv
<1>11. QED
  BY <1>8, <1>9, <1>10

\* A turn of the proposer, and one of the participant.
LEMMA ProposerTurn ==
    ASSUME RdvInv, NEW P \in Peers, NEW Q \in Peers, NEW id \in Ids, id \notin fresh,
           Between(id, P, Q), NEW w, NEW st \in State(P, P, Q) \cup {NoProposal},
           NEW A, NEW B, Turn(P, Q, id, w, st, A, B),
           AllIn(A, id, FromProposer(P, Q)), AllIn(B, id, FromParticipant(P, Q)),
           Calm' => /\ \A j : j # id => Mine(w, j) = Mine(wallet[P], j)
                    /\ Deal(id, P, Q, st, prop[Q][id], Mine(w, id), Mine(wallet[Q], id), A, B),
           Sure' => Bound(id, Q, st, prop[Q][id], A, B)
    PROVE  RdvInv'
<1>1. P # Q /\ Roles(id, P, Q) /\ Wires(id, P, Q)
  BY DEF Between
<1>2. TypeOK' /\ NoCross' /\ SeparateInv' /\ StoreInv'
  BY <1>1, TurnTypes, StateFacts
<1>3. /\ wallet \in [Peers -> Wallet]
      /\ prop \in [Peers -> [Ids -> Proposal \cup {NoProposal}]]
  BY DEF RdvInv, TypeOK
<1>4. /\ prop'[P][id] = st /\ wallet'[P] = w
      /\ \A r \in Peers : r # P => prop'[r][id] = prop[r][id] /\ wallet'[r] = wallet[r]
  BY <1>3 DEF Turn
<1>5. Roles(id, P, Q)'
  BY <1>1, <1>4, NoneIsNotLive DEF Roles
<1>6. Wires(id, P, Q)'
  <2>1. ASSUME NEW r \in Peers, NEW s \in Peers
        PROVE  AllIn(net'[r][s], id, Said(r, s, P, Q))
    <3> net'[P][Q] = A /\ net'[Q][P] = B
      BY DEF Turn, Wired
    <3> Said(P, Q, P, Q) = FromProposer(P, Q) /\ Said(Q, P, P, Q) = FromParticipant(P, Q)
      BY <1>1, SaidFacts
    <3>1. CASE r = P /\ s = Q
      BY <3>1
    <3>2. CASE r = Q /\ s = P
      BY <3>2
    <3>3. CASE ~(r = P /\ s = Q) /\ ~(r = Q /\ s = P)
      BY <1>1, <3>3 DEF Wires, Turn, Wired
    <3>4. QED
      BY <3>1, <3>2, <3>3
  <2>2. QED
    BY <2>1 DEF Wires
<1>7. ASSUME Calm' PROVE NoLocks(id, P, Q)' /\ DealOf(id, P, Q)'
  <2>1. Calm
    BY <1>7, CalmTurn
  <2>2. NoLocks(id, P, Q)'
    BY <1>4, <2>1 DEF Between, NoLocks
  <2>3. DealOf(id, P, Q)'
    BY <1>1, <1>4, <1>7 DEF DealOf, Turn, Wired
  <2>4. QED
    BY <2>2, <2>3
<1>8. Between(id, P, Q)'
  <2>1. Sure' => BoundOf(id, P, Q)'
    BY <1>1, <1>4 DEF BoundOf, Turn, Wired
  <2>2. QED
    BY <1>1, <1>5, <1>6, <1>7, <2>1 DEF Between
<1>9. DealsInv'
  <2>1. \A j \in Ids : j # id => (j \in fresh' <=> j \in fresh)
    BY DEF Turn
  <2>2. \A j \in Ids : j # id =>
            IF j \in fresh THEN Untouched(j)' ELSE \E p, q \in Peers : Between(j, p, q)'
    BY <1>1, OthersStay
  <2>3. id \notin fresh'
    BY DEF Turn
  <2>4. QED
    BY <1>8, <2>1, <2>2, <2>3 DEF DealsInv
<1>10. QED
  BY <1>2, <1>9 DEF RdvInv

LEMMA ParticipantTurn ==
    ASSUME RdvInv, NEW P \in Peers, NEW Q \in Peers, NEW id \in Ids, id \notin fresh,
           Between(id, P, Q), NEW w, NEW st \in State(Q, P, Q) \cup {NoProposal},
           NEW A, NEW B, Turn(Q, P, id, w, st, B, A),
           AllIn(A, id, FromProposer(P, Q)), AllIn(B, id, FromParticipant(P, Q)),
           Calm' => /\ \A j : j # id => Mine(w, j) = Mine(wallet[Q], j)
                    /\ Deal(id, P, Q, prop[P][id], st, Mine(wallet[P], id), Mine(w, id), A, B),
           Sure' => Bound(id, Q, prop[P][id], st, A, B)
    PROVE  RdvInv'
<1>1. P # Q /\ Roles(id, P, Q) /\ Wires(id, P, Q)
  BY DEF Between
<1>2. TypeOK' /\ NoCross' /\ SeparateInv' /\ StoreInv'
  BY <1>1, TurnTypes, StateFacts
<1>3. /\ wallet \in [Peers -> Wallet]
      /\ prop \in [Peers -> [Ids -> Proposal \cup {NoProposal}]]
  BY DEF RdvInv, TypeOK
<1>4. /\ prop'[Q][id] = st /\ wallet'[Q] = w
      /\ \A r \in Peers : r # Q => prop'[r][id] = prop[r][id] /\ wallet'[r] = wallet[r]
  BY <1>3 DEF Turn
<1>5. Roles(id, P, Q)'
  BY <1>1, <1>4, NoneIsNotLive DEF Roles
<1>6. Wires(id, P, Q)'
  <2>1. ASSUME NEW r \in Peers, NEW s \in Peers
        PROVE  AllIn(net'[r][s], id, Said(r, s, P, Q))
    <3> net'[P][Q] = A /\ net'[Q][P] = B
      BY DEF Turn, Wired
    <3> Said(P, Q, P, Q) = FromProposer(P, Q) /\ Said(Q, P, P, Q) = FromParticipant(P, Q)
      BY <1>1, SaidFacts
    <3>1. CASE r = P /\ s = Q
      BY <3>1
    <3>2. CASE r = Q /\ s = P
      BY <3>2
    <3>3. CASE ~(r = P /\ s = Q) /\ ~(r = Q /\ s = P)
      BY <1>1, <3>3 DEF Wires, Turn, Wired
    <3>4. QED
      BY <3>1, <3>2, <3>3
  <2>2. QED
    BY <2>1 DEF Wires
<1>7. ASSUME Calm' PROVE NoLocks(id, P, Q)' /\ DealOf(id, P, Q)'
  <2>1. Calm
    BY <1>7, CalmTurn
  <2>2. NoLocks(id, P, Q)'
    BY <1>4, <2>1 DEF Between, NoLocks
  <2>3. DealOf(id, P, Q)'
    BY <1>1, <1>4, <1>7 DEF DealOf, Turn, Wired
  <2>4. QED
    BY <2>2, <2>3
<1>8. Between(id, P, Q)'
  <2>1. Sure' => BoundOf(id, P, Q)'
    BY <1>1, <1>4 DEF BoundOf, Turn, Wired
  <2>2. QED
    BY <1>1, <1>5, <1>6, <1>7, <2>1 DEF Between
<1>9. DealsInv'
  <2>1. \A j \in Ids : j # id => (j \in fresh' <=> j \in fresh)
    BY DEF Turn
  <2>2. \A j \in Ids : j # id =>
            IF j \in fresh THEN Untouched(j)' ELSE \E p, q \in Peers : Between(j, p, q)'
    BY <1>1, OthersStay
  <2>3. id \notin fresh'
    BY DEF Turn
  <2>4. QED
    BY <1>8, <2>1, <2>2, <2>3 DEF DealsInv
<1>10. QED
  BY <1>2, <1>9 DEF RdvInv

-----------------------------------------------------------------------------
(* Who is where *)

\* Of a proposal of P to Q, whose entries are sp and sq.
Ready(id, P, Q) ==
    /\ P # Q /\ id \in Ids /\ id \notin fresh /\ Between(id, P, Q)
    /\ net[P][Q] \in Seq(Frame) /\ net[Q][P] \in Seq(Frame)
    /\ AllIn(net[P][Q], id, FromProposer(P, Q)) /\ AllIn(net[Q][P], id, FromParticipant(P, Q))
    /\ wallet[P] \in Wallet /\ wallet[Q] \in Wallet
    /\ prop[P][id] \in State(P, P, Q) \cup {NoProposal}
    /\ prop[Q][id] \in State(Q, P, Q) \cup {NoProposal}
    /\ (Calm => DealOf(id, P, Q)) /\ (Sure => BoundOf(id, P, Q))

LEMMA BetweenIsReady ==
    ASSUME RdvInv, NEW P \in Peers, NEW Q \in Peers, NEW id \in Ids, id \notin fresh,
           Between(id, P, Q)
    PROVE  Ready(id, P, Q)
<1>1. /\ P # Q /\ Wires(id, P, Q) /\ Roles(id, P, Q)
      /\ (Calm => DealOf(id, P, Q)) /\ (Sure => BoundOf(id, P, Q))
  BY DEF Between
<1>2. /\ net[P][Q] \in Seq(Frame) /\ net[Q][P] \in Seq(Frame)
      /\ wallet[P] \in Wallet /\ wallet[Q] \in Wallet
  BY DEF RdvInv, TypeOK
<1>3. AllIn(net[P][Q], id, FromProposer(P, Q)) /\ AllIn(net[Q][P], id, FromParticipant(P, Q))
  <2>1. /\ AllIn(net[P][Q], id, Said(P, Q, P, Q))
        /\ AllIn(net[Q][P], id, Said(Q, P, P, Q))
    BY <1>1 DEF Wires
  <2>2. QED
    BY <1>1, <2>1, SaidFacts
<1>4. /\ prop[P][id] \in State(P, P, Q) \cup {NoProposal}
      /\ prop[Q][id] \in State(Q, P, Q) \cup {NoProposal}
  BY <1>1 DEF Roles, IsLive
<1>5. QED
  BY <1>1, <1>2, <1>3, <1>4 DEF Ready

LEMMA SureFacts ==
    ASSUME NEW P, NEW Q, NEW id, Ready(id, P, Q), Sure
    PROVE  /\ Deal(id, P, Q, prop[P][id], prop[Q][id], Mine(wallet[P], id), Mine(wallet[Q], id),
                   net[P][Q], net[Q][P])
           /\ Bound(id, Q, prop[P][id], prop[Q][id], net[P][Q], net[Q][P])
BY DEF Ready, DealOf, BoundOf, Sure

LEMMA LiveSituation ==
    ASSUME RdvInv, NEW p \in Peers, NEW id \in Ids, Live(p, id)
    PROVE  \E P, Q \in Peers :
               /\ Ready(id, P, Q)
               /\ \/ p = P /\ prop[p][id] \in State(P, P, Q) /\ prop[p][id].role = "proposer"
                  \/ p = Q /\ prop[p][id] \in State(Q, P, Q) /\ prop[p][id].role = "participant"
<1>1. id \notin fresh
  BY DEF RdvInv, DealsInv, Untouched, Live
<1>2. PICK P \in Peers, Q \in Peers : Between(id, P, Q)
  BY <1>1 DEF RdvInv, DealsInv
<1>3. Ready(id, P, Q) /\ P # Q
  BY <1>1, <1>2, BetweenIsReady DEF Between
<1>4. p \in {P, Q} /\ prop[p][id] \in State(p, P, Q)
  BY <1>2 DEF Between, Roles, Live, IsLive
<1>5. p = P => prop[p][id].role = "proposer"
  BY <1>3, <1>4, StateFacts
<1>6. p = Q => prop[p][id].role = "participant"
  BY <1>3, <1>4, StateFacts
<1>7. QED
  BY <1>3, <1>4, <1>5, <1>6

LEMMA FrameSituation ==
    ASSUME RdvInv, NEW p \in Peers, NEW q \in Peers, net[q][p] # <<>>
    PROVE  /\ p # q /\ net[q][p] \in Seq(Frame) /\ Head(net[q][p]).id \in Ids
           /\ \E P, Q \in Peers :
                  /\ Ready(Head(net[q][p]).id, P, Q)
                  /\ \/ q = P /\ p = Q /\ Head(net[q][p]) \in FromProposer(P, Q)
                     \/ q = Q /\ p = P /\ Head(net[q][p]) \in FromParticipant(P, Q)
<1> DEFINE m == Head(net[q][p])
           id == m.id
<1>1. net[q][p] \in Seq(Frame)
  BY DEF RdvInv, TypeOK
<1>2. m \in Frame /\ Took(net[q][p], Tail(net[q][p]), m, id)
  BY <1>1, TailReads, OwnTaken
<1>3. id \in Ids
  <2>1. \A k \in Frame : k.id \in Ids
    BY DEF Frame
  <2>2. QED
    BY <1>2, <2>1
<1> HIDE DEF m, id
<1>4. id \notin fresh
  BY <1>2, <1>3 DEF RdvInv, DealsInv, Untouched, Took
<1>5. PICK P \in Peers, Q \in Peers : Between(id, P, Q)
  BY <1>3, <1>4 DEF RdvInv, DealsInv
<1>6. P # Q /\ m \in Said(q, p, P, Q)
  BY <1>2, <1>5 DEF Between, Wires, Took
<1>7. \/ q = P /\ p = Q /\ m \in FromProposer(P, Q)
      \/ q = Q /\ p = P /\ m \in FromParticipant(P, Q)
  BY <1>6 DEF Said
<1>8. Ready(id, P, Q)
  BY <1>3, <1>4, <1>5, BetweenIsReady
<1>9. QED
  BY <1>1, <1>3, <1>6, <1>7, <1>8 DEF m, id

\* A frame the proposer may send, and one the participant may.
LEMMA ProposerSends ==
    ASSUME NEW P \in Peers, NEW Q \in Peers, NEW id, Ready(id, P, Q),
           NEW m \in FromProposer(P, Q), m.id = id
    PROVE  /\ m \in Frame
           /\ Added(net[P][Q], Append(net[P][Q], m), m, id)
           /\ AllIn(Append(net[P][Q], m), id, FromProposer(P, Q))
<1>1. m \in Frame
  <2>1. P # Q /\ m \in Said(P, Q, P, Q)
    BY SaidFacts DEF Ready
  <2>2. QED
    BY <2>1, SaidIsFrame
<1>2. Added(net[P][Q], Append(net[P][Q], m), m, id)
  BY <1>1, OwnAdded DEF Ready
<1>3. QED
  BY <1>1, <1>2 DEF Added, Ready

LEMMA ParticipantSends ==
    ASSUME NEW P \in Peers, NEW Q \in Peers, NEW id, Ready(id, P, Q),
           NEW m \in FromParticipant(P, Q), m.id = id
    PROVE  /\ m \in Frame
           /\ Added(net[Q][P], Append(net[Q][P], m), m, id)
           /\ AllIn(Append(net[Q][P], m), id, FromParticipant(P, Q))
<1>1. m \in Frame
  <2>1. P # Q /\ m \in Said(Q, P, P, Q)
    BY SaidFacts DEF Ready
  <2>2. QED
    BY <2>1, SaidIsFrame
<1>2. Added(net[Q][P], Append(net[Q][P], m), m, id)
  BY <1>1, OwnAdded DEF Ready
<1>3. QED
  BY <1>1, <1>2 DEF Added, Ready

\* A frame that is taken.
LEMMA TakenFrom ==
    ASSUME NEW s \in Seq(Frame), s # <<>>, NEW S, AllIn(s, Head(s).id, S)
    PROVE  /\ Keeps(s, Tail(s), Head(s).id) /\ Took(s, Tail(s), Head(s), Head(s).id)
           /\ AllIn(Tail(s), Head(s).id, S)
<1>1. Keeps(s, Tail(s), Head(s).id) /\ Took(s, Tail(s), Head(s), Head(s).id)
  BY TailKeeps, OwnTaken
<1>2. QED
  BY <1>1 DEF Keeps

\* The rest of a turn.
LEMMA WatchMeans == Watch => astray' \in BOOLEAN /\ (astray \/ Crossing(net') => astray')
BY DEF Watch, Crossing

LEMMA SpendType ==
    ASSUME TypeOK, NEW what \in {"counters", "faults"}, Spend(what)
    PROVE  budget' \in [counters: 0..MaxCounters, faults: 0..MaxFaults]
<1>1. budget \in [counters: 0..MaxCounters, faults: 0..MaxFaults]
  BY DEF TypeOK
<1>2. MaxCounters \in Nat /\ MaxFaults \in Nat
  BY BearerNotesAssumption
<1>3. QED
  BY <1>1, <1>2 DEF Spend

LEMMA NotedTurn ==
    ASSUME TypeOK, Marked, NEW p \in Peers, NEW q \in Peers, NEW id, NEW w \in Wallet, NEW st,
           NEW out, NEW in, Note(p, w), Set(p, id, st), Wired(p, q, id, out, in), Watch,
           UNCHANGED fresh, Cuts,
           budget' \in [counters: 0..MaxCounters, faults: 0..MaxFaults]
    PROVE  Turn(p, q, id, w, st, out, in)
BY WatchMeans DEF Turn, Note, Set

\* A turn that leaves the wallet alone, and one that leaves the entry alone too.
LEMMA UnnotedTurn ==
    ASSUME TypeOK, Marked, NEW p \in Peers, NEW q \in Peers, NEW id, NEW st,
           NEW out, NEW in, UNCHANGED notes, Set(p, id, st), Wired(p, q, id, out, in), Watch,
           UNCHANGED fresh, Cuts,
           budget' \in [counters: 0..MaxCounters, faults: 0..MaxFaults]
    PROVE  Turn(p, q, id, wallet[p], st, out, in)
<1>1. wallet \in [Peers -> Wallet]
  BY DEF TypeOK
<1>2. wallet' = [wallet EXCEPT ![p] = wallet[p]] /\ wallet[p] \in Wallet /\ stored' = stored
  BY <1>1 DEF notes
<1>3. QED
  BY <1>2, WatchMeans DEF Turn, Set

LEMMA EntryKept ==
    ASSUME TypeOK, NEW p \in Peers, NEW id \in Ids, UNCHANGED prop
    PROVE  Set(p, id, prop[p][id])
BY DEF Set, TypeOK

-----------------------------------------------------------------------------
(* Who pays *)

LEMMA HeldMeans == \A p : HeldBy(p) = Holds(wallet[p]) /\ HeldBy(p)' = Holds(wallet'[p])
BY DEF HeldBy, Holds

LEMMA HoldingTurn ==
    ASSUME TypeOK, NEW p \in Peers, NEW q, NEW id, NEW w, NEW st, NEW out, NEW in,
           Turn(p, q, id, w, st, out, in), Holds(w) = Holds(wallet[p])
    PROVE  PaysWhole
<1>1. wallet \in [Peers -> Wallet]
  BY DEF TypeOK
<1>2. \A r \in Peers : Holds(wallet'[r]) = Holds(wallet[r])
  BY <1>1 DEF Turn
<1>3. \A r \in Peers : HeldBy(r)' = HeldBy(r)
  BY <1>2, HeldMeans
<1>4. QED
  BY <1>3 DEF PaysWhole, SwapsWhole

LEMMA PayingTurn ==
    ASSUME TypeOK, NEW p \in Peers, NEW q, NEW id \in Ids, NEW w, NEW out, NEW in,
           Turn(p, q, id, w, NoProposal, out, in), Live(p, id),
           Calm' => \E paid, got \in Notes :
                        /\ Worth(paid) = prop[p][id].gives[p]
                        /\ Worth(got) = prop[p][id].gives[Partner(p, prop[p][id])]
                        /\ Holds(w) = (Holds(wallet[p]) \ paid) \cup got
    PROVE  PaysWhole
<1>1. /\ wallet \in [Peers -> Wallet]
      /\ prop \in [Peers -> [Ids -> Proposal \cup {NoProposal}]]
  BY DEF TypeOK
<1>2. /\ \A r \in Peers : r # p => Holds(wallet'[r]) = Holds(wallet[r])
      /\ wallet'[p] = w /\ prop'[p][id] = NoProposal
  BY <1>1 DEF Turn
<1>3. \A r \in Peers : r # p => HeldBy(r)' = HeldBy(r)
  BY <1>2, HeldMeans
<1>4. ASSUME Calm' PROVE SwapsWhole(p)
  <2>1. PICK paid \in Notes, got \in Notes :
            /\ Worth(paid) = prop[p][id].gives[p]
            /\ Worth(got) = prop[p][id].gives[Partner(p, prop[p][id])]
            /\ Holds(w) = (Holds(wallet[p]) \ paid) \cup got
    BY <1>4
  <2>2. HeldBy(p)' = (HeldBy(p) \ paid) \cup got
    BY <1>2, <2>1, HeldMeans
  <2>3. ~Live(p, id)'
    BY <1>2 DEF Live
  <2>4. QED
    BY <2>1, <2>2, <2>3 DEF SwapsWhole
<1>5. QED
  BY <1>3, <1>4 DEF PaysWhole, SwapsWhole, Calm

-----------------------------------------------------------------------------
(* The frames the handlers make *)

LEMMA FramesMade ==
    ASSUME NEW P \in Peers, NEW Q \in Peers, P # Q, NEW id \in Ids
    PROVE  /\ [kind |-> "abort", id |-> id] \in FromProposer(P, Q)
           /\ [kind |-> "reject", id |-> id] \in FromParticipant(P, Q)
           /\ \A t \in Notes : [kind |-> "accept", id |-> id, token |-> t] \in FromParticipant(P, Q)
           /\ \A g \in [{P, Q} -> Specs] :
                  /\ [kind |-> "propose", id |-> id, gives |-> g] \in FromProposer(P, Q)
                  /\ \A t \in Notes :
                         /\ Worth(t) = g[P] => [kind |-> "counter", id |-> id, gives |-> g,
                                                token |-> t] \in FromProposer(P, Q)
                         /\ Worth(t) = g[Q] => [kind |-> "counter", id |-> id, gives |-> g,
                                                token |-> t] \in FromParticipant(P, Q)
BY DEF FromProposer, FromParticipant, Counters

LEMMA CommitMade ==
    ASSUME NEW P \in Peers, NEW Q \in Peers, P # Q, NEW id \in Ids, NEW st \in State(P, P, Q),
           AllAccepted(st)
    PROVE  /\ Commit(st, id, Q) \in FromProposer(P, Q)
           /\ Commit(st, id, Q).kind = "commit" /\ Commit(st, id, Q).id = id
           /\ Commit(st, id, Q).givesToken = st.accepted[Q]
           /\ Commit(st, id, Q).getsToken = st.accepted[P]
           /\ CommitRow(st, P).givesToken = st.accepted[P]
           /\ CommitRow(st, P).getsToken = st.accepted[Q]
           /\ st.accepted[P] \in Notes /\ st.accepted[Q] \in Notes
<1>1. /\ Partner(P, st) = Q /\ Partner(Q, st) = P
      /\ st.accepted[P] \in Notes /\ st.accepted[Q] \in Notes
  BY StateFacts
<1>2. Commit(st, id, Q) =
          [kind |-> "commit", id |-> id, givesToken |-> st.accepted[Q], getsToken |-> st.accepted[P]]
  BY <1>1 DEF Commit, CommitRow
<1>3. Commit(st, id, Q) \in [kind: {"commit"}, id: Ids, givesToken: Notes, getsToken: Notes]
  BY <1>1, <1>2
<1>4. QED
  BY <1>1, <1>2, <1>3 DEF CommitRow, FromProposer

-----------------------------------------------------------------------------
(* The actions that end a proposal *)

\* Abort, and the timer of a proposer.
LEMMA ProposerEnds ==
    ASSUME RdvInv, NEW P \in Peers, NEW Q \in Peers, NEW id \in Ids, Ready(id, P, Q),
           prop[P][id] \in State(P, P, Q),
           Turn(P, Q, id, ReleaseLockedFor(wallet[P], id), NoProposal,
                Append(net[P][Q], [kind |-> "abort", id |-> id]), net[Q][P])
    PROVE  RdvInv' /\ PaysWhole
<1> DEFINE m == [kind |-> "abort", id |-> id]
           w == ReleaseLockedFor(wallet[P], id)
           A == Append(net[P][Q], m)
           B == net[Q][P]
           sp == prop[P][id]
           sq == prop[Q][id]
           lp == Mine(wallet[P], id)
           lq == Mine(wallet[Q], id)
<1>1. m \in FromProposer(P, Q) /\ m.id = id /\ m.kind = "abort"
  BY FramesMade DEF Ready
<1>2. Added(net[P][Q], A, m, id) /\ AllIn(A, id, FromProposer(P, Q))
  BY <1>1, ProposerSends
<1>3. FreedIn(wallet[P], w, id)
  BY ReleaseFacts DEF Ready
<1>4. ASSUME Calm' PROVE Deal(id, P, Q, NoProposal, sq, Mine(w, id), lq, A, B)
  <2> HIDE DEF m, w, A, sp, sq, lp, lq
  <2>1. Calm /\ NoCrossing(id, net'[P][Q], net'[Q][P])
    BY <1>4, CalmTurn DEF Ready, m, w, A
  <2>2. NoCrossing(id, A, B)
    BY <2>1 DEF Turn, Wired, A, m
  <2>3. Deal(id, P, Q, sp, sq, lp, lq, net[P][Q], B) /\ IsLive(sp)
    BY <2>1, StateFacts DEF Ready, DealOf, sp, sq, lp, lq
  <2>4. Deal(id, P, Q, NoProposal, sq, {}, lq, net[P][Q], B) /\ No(net[P][Q], id, "commit")
    <3>1. No(net[P][Q], id, "commit")
      BY <2>3 DEF Deal, EndsLast
    <3>2. QED
      BY <2>3, <3>1, ProposerGone
  <2>5. Deal(id, P, Q, NoProposal, sq, {}, lq, A, B)
    BY <1>1, <1>2, <2>2, <2>4, AbortIsSent
  <2>6. Mine(w, id) = {}
    BY <1>3 DEF FreedIn
  <2>7. QED
    BY <2>5, <2>6
<1>5. ASSUME Sure' PROVE Bound(id, Q, NoProposal, sq, A, B)
  <2> HIDE DEF m, w, A, sp, sq, lp, lq
  <2>1. Sure
    BY <1>5, SureTurn DEF Ready, m, w, A
  <2>2. /\ Deal(id, P, Q, sp, sq, lp, lq, net[P][Q], B) /\ IsLive(sp)
        /\ Bound(id, Q, sp, sq, net[P][Q], B)
    BY <2>1, StateFacts, SureFacts DEF Ready, sp, sq, lp, lq
  <2>3. No(net[P][Q], id, "commit")
    BY <2>2 DEF Deal, EndsLast
  <2>4. QED
    BY <1>1, <1>2, <2>2, <2>3, BoundAborted
<1>6. RdvInv'
  <2> HIDE DEF w
  <2>1. \A j : j # id => Mine(w, j) = Mine(wallet[P], j)
    BY <1>3 DEF FreedIn
  <2> HIDE DEF m, A
  <2>2. Turn(P, Q, id, w, NoProposal, A, B)
    BY DEF w, m, A
  <2>3. QED
    BY <1>2, <1>4, <1>5, <2>1, <2>2, ProposerTurn DEF Ready
<1>7. PaysWhole
  BY <1>3, HoldingTurn DEF FreedIn, RdvInv
<1>8. QED
  BY <1>6, <1>7

\* The participant's entry goes and nothing is said: its timer.
LEMMA ParticipantEnds ==
    ASSUME RdvInv, NEW P \in Peers, NEW Q \in Peers, NEW id \in Ids, Ready(id, P, Q),
           Turn(Q, P, id, ReleaseLockedFor(wallet[Q], id), NoProposal, net[Q][P], net[P][Q]),
           Sure' => ~Vowed(prop[Q][id])
    PROVE  RdvInv' /\ PaysWhole
<1> DEFINE w == ReleaseLockedFor(wallet[Q], id)
<1>1. FreedIn(wallet[Q], w, id)
  BY ReleaseFacts DEF Ready
<1> HIDE DEF w
<1>2. Turn(Q, P, id, w, NoProposal, net[Q][P], net[P][Q])
  BY DEF w
<1>3. ASSUME Calm'
      PROVE  /\ \A j : j # id => Mine(w, j) = Mine(wallet[Q], j)
             /\ Deal(id, P, Q, prop[P][id], NoProposal, Mine(wallet[P], id), Mine(w, id),
                     net[P][Q], net[Q][P])
  <2>1. Calm
    BY <1>2, <1>3, CalmTurn DEF Ready
  <2>2. Deal(id, P, Q, prop[P][id], NoProposal, Mine(wallet[P], id), {}, net[P][Q], net[Q][P])
    BY <2>1, ParticipantGone DEF Ready, DealOf
  <2>3. QED
    BY <1>1, <2>2 DEF FreedIn
<1>4. ASSUME Sure' PROVE Bound(id, Q, prop[P][id], NoProposal, net[P][Q], net[Q][P])
  <2>1. Sure
    BY <1>2, <1>4, SureTurn DEF Ready
  <2>2. QED
    BY <1>4, <2>1, SureFacts, BoundParticipantGone
<1>5. RdvInv'
  BY <1>2, <1>3, <1>4, ParticipantTurn DEF Ready
<1>6. PaysWhole
  BY <1>1, <1>2, HoldingTurn DEF FreedIn, RdvInv
<1>7. QED
  BY <1>5, <1>6

LEMMA AbortKeeps ==
    ASSUME RdvInv, Marked, NEW p \in Peers, NEW id \in Ids, Abort(p, id)
    PROVE  RdvInv' /\ PaysWhole
<1>1. Live(p, id) /\ prop[p][id].role = "proposer"
  BY DEF Abort
<1>2. PICK P \in Peers, Q \in Peers :
          Ready(id, P, Q) /\ p = P /\ prop[P][id] \in State(P, P, Q)
  BY <1>1, LiveSituation
<1>3. Partner(P, prop[P][id]) = Q /\ P # Q
  BY <1>2, StateFacts DEF Ready
<1> DEFINE m == [kind |-> "abort", id |-> id]
<1>4. m \in Frame /\ m.id = id
  <2>1. P # Q
    BY <1>3
  <2>2. m \in FromProposer(P, Q) /\ m.id = id
    BY <2>1, FramesMade
  <2> HIDE DEF m
  <2>3. QED
    BY <1>2, <2>2, ProposerSends
<1> HIDE DEF m
<1>5. Send(P, Q, m) /\ Note(P, ReleaseLockedFor(wallet[P], id)) /\ Set(P, id, NoProposal)
  BY <1>2, <1>3 DEF Abort, Drop, m
<1>6. Wired(P, Q, id, Append(net[P][Q], m), net[Q][P])
  BY <1>3, <1>4, <1>5, WiresSend DEF RdvInv
<1>7. ReleaseLockedFor(wallet[P], id) \in Wallet
  BY <1>2, ReleaseFacts DEF Ready, FreedIn
<1>8. Turn(P, Q, id, ReleaseLockedFor(wallet[P], id), NoProposal, Append(net[P][Q], m), net[Q][P])
  <2>1. /\ UNCHANGED fresh /\ Cuts /\ Watch
        /\ budget' \in [counters: 0..MaxCounters, faults: 0..MaxFaults]
    BY DEF Abort, RdvInv, TypeOK, Cuts
  <2>2. QED
    BY <1>5, <1>6, <1>7, <2>1, NotedTurn DEF RdvInv
<1>9. QED
  BY <1>2, <1>8, ProposerEnds DEF m

LEMMA TimeoutKeeps ==
    ASSUME RdvInv, Marked, NEW p \in Peers, NEW id \in Ids, ProposalTimedOut(p, id)
    PROVE  RdvInv' /\ PaysWhole
<1>1. Live(p, id)
  BY DEF ProposalTimedOut
<1>2. PICK P \in Peers, Q \in Peers :
          /\ Ready(id, P, Q)
          /\ \/ p = P /\ prop[p][id] \in State(P, P, Q) /\ prop[p][id].role = "proposer"
             \/ p = Q /\ prop[p][id] \in State(Q, P, Q) /\ prop[p][id].role = "participant"
  BY <1>1, LiveSituation
<1>3. Partner(P, prop[p][id]) = Q /\ P # Q
  BY <1>2, StateFacts DEF Ready
<1> DEFINE m == [kind |-> "abort", id |-> id]
           w == ReleaseLockedFor(wallet[p], id)
<1>4. m \in Frame /\ m.id = id
  <2>1. P # Q
    BY <1>3
  <2>2. m \in FromProposer(P, Q) /\ m.id = id
    BY <2>1, FramesMade
  <2> HIDE DEF m
  <2>3. QED
    BY <1>2, <2>2, ProposerSends
<1>5. /\ UNCHANGED fresh /\ Cuts /\ Watch
      /\ budget' \in [counters: 0..MaxCounters, faults: 0..MaxFaults]
  <2>1. Promised(p, id) \in BOOLEAN
    BY DEF Promised
  <2>2. QED
    BY <2>1 DEF ProposalTimedOut, RdvInv, TypeOK, Cuts
<1>6. Note(p, w) /\ Set(p, id, NoProposal)
  BY DEF ProposalTimedOut, Drop
<1>7. w \in Wallet
  BY <1>2, ReleaseFacts DEF Ready, FreedIn
<1> HIDE DEF m, w
<1>8. CASE p = P /\ prop[P][id] \in State(P, P, Q) /\ prop[P][id].role = "proposer"
  <2>1. Send(P, Q, m)
    BY <1>3, <1>8 DEF ProposalTimedOut, m
  <2>2. Wired(P, Q, id, Append(net[P][Q], m), net[Q][P])
    BY <1>3, <1>4, <2>1, WiresSend DEF RdvInv
  <2>3. Turn(P, Q, id, w, NoProposal, Append(net[P][Q], m), net[Q][P])
    BY <1>5, <1>6, <1>7, <1>8, <2>2, NotedTurn DEF RdvInv
  <2>4. QED
    BY <1>2, <1>8, <2>3, ProposerEnds DEF m, w
<1>9. CASE p = Q /\ prop[Q][id].role = "participant"
  <2>1. UNCHANGED net
    BY <1>9 DEF ProposalTimedOut
  <2>2. Wired(Q, P, id, net[Q][P], net[P][Q])
    BY <2>1, WiresStill DEF RdvInv
  <2>3. Turn(Q, P, id, w, NoProposal, net[Q][P], net[P][Q])
    BY <1>5, <1>6, <1>7, <1>9, <2>2, NotedTurn DEF RdvInv
  <2>4. Sure' => ~Vowed(prop[Q][id])
    BY <1>9 DEF ProposalTimedOut, Sure, Promised, Live, Vowed, IsLive
  <2>5. QED
    BY <1>2, <1>9, <2>3, <2>4, ParticipantEnds DEF w
<1>10. QED
  BY <1>2, <1>8, <1>9

LEMMA RejectKeeps ==
    ASSUME RdvInv, Marked, NEW p \in Peers, NEW id \in Ids, Reject(p, id)
    PROVE  RdvInv' /\ PaysWhole
<1>1. Live(p, id) /\ prop[p][id].role = "participant" /\ prop[p][id].myStatus = "pending"
  BY DEF Reject
<1>2. PICK P \in Peers, Q \in Peers :
          Ready(id, P, Q) /\ p = Q /\ prop[Q][id] \in State(Q, P, Q)
  BY <1>1, LiveSituation
<1>3. prop[Q][id].proposer = P /\ P # Q /\ IsLive(prop[Q][id])
  BY <1>2, StateFacts DEF Ready
<1> DEFINE m == [kind |-> "reject", id |-> id]
           w == wallet[Q]
           B == Append(net[Q][P], m)
<1>4. m \in FromParticipant(P, Q) /\ m.id = id /\ m.kind = "reject"
  BY <1>3, FramesMade
<1>5. Send(Q, P, m) /\ Note(Q, w) /\ Set(Q, id, NoProposal)
  BY <1>2, <1>3 DEF Reject, Drop
<1> HIDE DEF m
<1>6. /\ m \in Frame /\ Added(net[Q][P], B, m, id)
      /\ AllIn(B, id, FromParticipant(P, Q))
  BY <1>2, <1>4, ParticipantSends
<1>7. Wired(Q, P, id, B, net[P][Q])
  BY <1>3, <1>4, <1>5, <1>6, WiresSend DEF RdvInv
<1>8. Turn(Q, P, id, w, NoProposal, B, net[P][Q])
  <2>1. /\ UNCHANGED fresh /\ Cuts /\ Watch
        /\ budget' \in [counters: 0..MaxCounters, faults: 0..MaxFaults]
    BY DEF Reject, RdvInv, TypeOK, Cuts
  <2>2. w \in Wallet
    BY <1>2 DEF Ready
  <2> HIDE DEF w, B
  <2>3. QED
    BY <1>5, <1>7, <2>1, <2>2, NotedTurn DEF RdvInv
<1>9. ASSUME Calm'
      PROVE  Deal(id, P, Q, prop[P][id], NoProposal, Mine(wallet[P], id), Mine(w, id),
                  net[P][Q], B)
  <2> HIDE DEF w, B
  <2>1. Calm /\ NoCrossing(id, net'[P][Q], net'[Q][P])
    BY <1>3, <1>8, <1>9, CalmTurn
  <2>2. NoCrossing(id, net[P][Q], B)
    BY <2>1, <1>7 DEF Wired
  <2> DEFINE sp == prop[P][id]
             sq == prop[Q][id]
             lp == Mine(wallet[P], id)
             lq == Mine(wallet[Q], id)
  <2>3. Deal(id, P, Q, sp, sq, lp, lq, net[P][Q], net[Q][P]) /\ IsLive(sq) /\ ~Vowed(sq)
    BY <1>1, <1>2, <1>3, <2>1 DEF Ready, DealOf, Vowed
  <2> HIDE DEF sp, sq, lp, lq
  <2>4. lq = {} /\ No(net[P][Q], id, "propose")
    BY <2>3 DEF Deal, ParticipantBacked, ProposedOnce
  <2>5. Deal(id, P, Q, sp, NoProposal, lp, {}, net[P][Q], net[Q][P])
    BY <2>3, ParticipantGone
  <2>6. Deal(id, P, Q, sp, NoProposal, lp, {}, net[P][Q], B)
    BY <1>4, <1>6, <2>2, <2>4, <2>5, RejectIsSent
  <2>7. QED
    BY <2>4, <2>6 DEF sp, lp, lq, w
<1>10. ASSUME Sure' PROVE Bound(id, Q, prop[P][id], NoProposal, net[P][Q], B)
  <2> HIDE DEF w, B
  <2>1. Sure /\ ~Vowed(prop[Q][id])
    BY <1>1, <1>2, <1>3, <1>8, <1>10, SureTurn DEF Vowed
  <2>2. Bound(id, Q, prop[P][id], NoProposal, net[P][Q], net[Q][P])
    BY <1>2, <2>1, SureFacts, BoundParticipantGone
  <2>3. QED
    BY <1>4, <1>6, <2>2, BoundRejected
<1>11. RdvInv'
  BY <1>2, <1>6, <1>8, <1>9, <1>10, ParticipantTurn DEF Ready
<1>12. PaysWhole
  BY <1>8, HoldingTurn DEF RdvInv
<1>13. QED
  BY <1>11, <1>12

-----------------------------------------------------------------------------
(* The actions that lock a note *)

LEMMA AcceptKeeps ==
    ASSUME RdvInv, Marked, NEW p \in Peers, NEW id \in Ids, AcceptAsParticipant(p, id)
    PROVE  RdvInv' /\ PaysWhole
<1>1. Live(p, id) /\ prop[p][id].role = "participant" /\ prop[p][id].myStatus = "pending"
  BY DEF AcceptAsParticipant
<1>2. PICK P \in Peers, Q \in Peers :
          Ready(id, P, Q) /\ p = Q /\ prop[Q][id] \in State(Q, P, Q)
  BY <1>1, LiveSituation
<1> DEFINE sq == prop[Q][id]
           sq2 == [sq EXCEPT !.myStatus = "accepted"]
<1>3. sq.proposer = P /\ P # Q /\ IsLive(sq) /\ sq.gives[Q] \in Specs
  BY <1>2, StateFacts DEF Ready
<1>4. /\ sq2 \in State(Q, P, Q) /\ IsLive(sq2) /\ Vowed(sq2)
      /\ sq2.gives = sq.gives
  <2>1. sq2 \in State(Q, P, Q) /\ sq2.gives = sq.gives /\ sq2.myStatus = "accepted"
    BY <1>2 DEF State
  <2> HIDE DEF sq2
  <2>2. IsLive(sq2) /\ sq2.role = "participant"
    BY <1>2, <1>3, <2>1, StateFacts
  <2>3. QED
    BY <2>1, <2>2 DEF Vowed
<1>5. PICK l \in Lockings(wallet[Q], sq.gives[Q], id) :
          /\ Note(Q, l.wallet)
          /\ Send(Q, P, [kind |-> "accept", id |-> id, token |-> l.token])
  BY <1>2, <1>3 DEF AcceptAsParticipant
<1>6. Set(Q, id, sq2)
  BY <1>2 DEF AcceptAsParticipant
<1> HIDE DEF sq2
<1> DEFINE t == l.token
           w == l.wallet
           m == [kind |-> "accept", id |-> id, token |-> t]
           B == Append(net[Q][P], m)
<1>7. t \in Notes /\ Worth(t) = sq2.gives[Q] /\ LockedIn(wallet[Q], w, id, t)
  BY <1>2, <1>3, <1>4, LockingFacts DEF Ready
<1>8. m \in FromParticipant(P, Q) /\ m.id = id /\ m.kind = "accept" /\ m.token = t
  BY <1>3, <1>7, FramesMade
<1>9. Send(Q, P, m) /\ Note(Q, w)
  BY <1>5
<1> HIDE DEF m, t, w
<1>10. /\ m \in Frame /\ Added(net[Q][P], B, m, id)
       /\ AllIn(B, id, FromParticipant(P, Q))
  BY <1>2, <1>8, ParticipantSends
<1>11. Wired(Q, P, id, B, net[P][Q])
  BY <1>3, <1>8, <1>9, <1>10, WiresSend DEF RdvInv
<1> HIDE DEF B
<1>12. Turn(Q, P, id, w, sq2, B, net[P][Q])
  <2>1. /\ UNCHANGED fresh /\ Cuts /\ Watch
        /\ budget' \in [counters: 0..MaxCounters, faults: 0..MaxFaults]
    BY DEF AcceptAsParticipant, RdvInv, TypeOK, Cuts
  <2>2. w \in Wallet
    BY <1>7 DEF LockedIn
  <2>3. QED
    BY <1>6, <1>9, <1>11, <2>1, <2>2, NotedTurn DEF RdvInv
<1>13. ASSUME Calm'
       PROVE  /\ \A j : j # id => Mine(w, j) = Mine(wallet[Q], j)
              /\ Deal(id, P, Q, prop[P][id], sq2, Mine(wallet[P], id), Mine(w, id), net[P][Q], B)
  <2>1. Calm /\ NoCrossing(id, net'[P][Q], net'[Q][P]) /\ Separate(wallet[Q])
    BY <1>3, <1>12, <1>13, CalmTurn
  <2>2. NoCrossing(id, net[P][Q], B)
    BY <2>1, <1>11 DEF Wired
  <2> DEFINE sp == prop[P][id]
             lp == Mine(wallet[P], id)
             lq == Mine(wallet[Q], id)
  <2>3. Deal(id, P, Q, sp, sq, lp, lq, net[P][Q], net[Q][P]) /\ IsLive(sq) /\ ~Vowed(sq)
    BY <1>1, <1>2, <1>3, <2>1 DEF Ready, DealOf, Vowed
  <2> HIDE DEF sp, sq, lp, lq
  <2>4. lq = {}
    BY <2>3 DEF Deal, ParticipantBacked
  <2>5. Deal(id, P, Q, sp, sq2, lp, {m.token}, net[P][Q], B)
    BY <1>4, <1>7, <1>8, <1>10, <2>2, <2>3, DealAccepted
  <2>6. Mine(w, id) = {t} /\ \A j : j # id => Mine(w, j) = Mine(wallet[Q], j)
    BY <1>7, <2>1, <2>4 DEF LockedIn, lq
  <2>7. QED
    BY <1>8, <2>5, <2>6 DEF sp, lp
<1>14. ASSUME Sure' PROVE Bound(id, Q, prop[P][id], sq2, net[P][Q], B)
  <2>1. Sure
    BY <1>3, <1>12, <1>14, SureTurn
  <2>2. Bound(id, Q, prop[P][id], prop[Q][id], net[P][Q], net[Q][P])
    BY <1>2, <2>1, SureFacts
  <2>3. Keeps(net[P][Q], net[P][Q], id)
    BY SameReflexive, SameKeeps
  <2>4. QED
    BY <1>4, <2>2, <2>3, BoundLive
<1>15. RdvInv'
  BY <1>2, <1>4, <1>10, <1>12, <1>13, <1>14, ParticipantTurn DEF Ready
<1>16. PaysWhole
  BY <1>7, <1>12, HoldingTurn DEF LockedIn, RdvInv
<1>17. QED
  BY <1>15, <1>16

PairIs(P, Q, S, p, x, q, y) ==
    Pair(p, x, q, y) \in [{P, Q} -> S] /\ Pair(p, x, q, y)[p] = x /\ Pair(p, x, q, y)[q] = y

LEMMA PairOf ==
    ASSUME NEW P, NEW Q, NEW p \in {P, Q}, NEW q \in {P, Q}, p # q, NEW S, NEW x \in S, NEW y \in S
    PROVE  PairIs(P, Q, S, p, x, q, y)
<1>1. {p, q} = {P, Q}
  OBVIOUS
<1>2. Pair(p, x, q, y) \in [{p, q} -> S]
  BY DEF Pair
<1>3. Pair(p, x, q, y)[p] = x /\ Pair(p, x, q, y)[q] = y
  BY DEF Pair
<1> DEFINE f == Pair(p, x, q, y)
<1>4. f \in [{p, q} -> S] /\ f[p] = x /\ f[q] = y
  BY <1>2, <1>3
<1> HIDE DEF f
<1>5. f \in [{P, Q} -> S] /\ f[p] = x /\ f[q] = y
  BY <1>1, <1>4
<1>6. QED
  BY <1>5 DEF f, PairIs

\* A counter that is made or heard.
Renewed(P, Q, p, q, g, status, x, y, now) ==
    /\ now \in State(p, P, Q) /\ IsLive(now) /\ now.myStatus = status /\ now.gives = g
    /\ now.accepted[p] = x /\ now.accepted[q] = y
    /\ now.role = IF p = P THEN "proposer" ELSE "participant"

LEMMA NewTerms ==
    ASSUME NEW P \in Peers, NEW Q \in Peers, P # Q, NEW p \in {P, Q}, NEW q \in {P, Q}, p # q,
           NEW st \in State(p, P, Q), NEW g \in [{P, Q} -> Specs],
           NEW status \in {"pending", "accepted"},
           NEW x \in Notes \cup {Nothing}, NEW y \in Notes \cup {Nothing}, NEW now,
           now = [st EXCEPT !.gives = g, !.myStatus = status, !.accepted = Pair(p, x, q, y)]
    PROVE  Renewed(P, Q, p, q, g, status, x, y, now)
<1> DEFINE both == Pair(p, x, q, y)
<1>1. both \in [{P, Q} -> Notes \cup {Nothing}] /\ both[p] = x /\ both[q] = y
  <2> DEFINE S == Notes \cup {Nothing}
  <2> x \in S /\ y \in S
    OBVIOUS
  <2> HIDE DEF S
  <2>1. PairIs(P, Q, S, p, x, q, y)
    BY PairOf
  <2>2. QED
    BY <2>1 DEF S, PairIs
<1> HIDE DEF both
<1>2. now = [st EXCEPT !.gives = g, !.myStatus = status, !.accepted = both]
  BY DEF both
<1>3. now \in State(p, P, Q) /\ now.myStatus = status /\ now.gives = g /\ now.accepted = both
  BY <1>1, <1>2 DEF State
<1>4. IsLive(now) /\ now.role = IF p = P THEN "proposer" ELSE "participant"
  BY <1>3, StateFacts
<1>5. QED
  BY <1>1, <1>3, <1>4 DEF Renewed

LEMMA CounterKeeps ==
    ASSUME RdvInv, Marked, NEW p \in Peers, NEW id \in Ids, NEW give \in Specs, NEW get \in Specs,
           Counter(p, id, give, get)
    PROVE  RdvInv' /\ PaysWhole
<1> DEFINE st == prop[p][id]
           q == Partner(p, st)
           g == Pair(p, give, q, get)
           v == ReleaseLockedFor(wallet[p], id)
<1>1. Live(p, id)
  BY DEF Counter
<1>2. PICK P \in Peers, Q \in Peers :
          /\ Ready(id, P, Q)
          /\ \/ p = P /\ prop[p][id] \in State(P, P, Q) /\ prop[p][id].role = "proposer"
             \/ p = Q /\ prop[p][id] \in State(Q, P, Q) /\ prop[p][id].role = "participant"
  BY <1>1, LiveSituation
<1>3. P # Q
  BY <1>2 DEF Ready
<1>4. /\ p \in {P, Q} /\ q \in {P, Q} /\ p # q /\ st \in State(p, P, Q) /\ IsLive(st)
      /\ p = P => q = Q
      /\ p = Q => q = P
  BY <1>2, <1>3, StateFacts
<1>5. PICK l \in Lockings(v, give, id) :
          /\ Note(p, l.wallet)
          /\ Set(p, id, [st EXCEPT !.gives = g, !.myStatus = "accepted",
                                   !.accepted = Pair(p, l.token, q, Nothing)])
          /\ Send(p, q, [kind |-> "counter", id |-> id, gives |-> g, token |-> l.token])
  BY DEF Counter
<1>6. FreedIn(wallet[p], v, id)
  BY <1>2, ReleaseFacts DEF Ready
<1> HIDE DEF v
<1> DEFINE t == l.token
           w == l.wallet
           now == [st EXCEPT !.gives = g, !.myStatus = "accepted", !.accepted = Pair(p, t, q, Nothing)]
           m == [kind |-> "counter", id |-> id, gives |-> g, token |-> t]
           out == Append(net[p][q], m)
<1>7. t \in Notes /\ Worth(t) = give /\ LockedIn(v, w, id, t)
  BY <1>6, LockingFacts DEF FreedIn
<1>8. Note(p, w) /\ Set(p, id, now) /\ Send(p, q, m)
  BY <1>5
<1> HIDE DEF t, w
<1> HIDE DEF st, q
<1>9. g \in [{P, Q} -> Specs] /\ g[p] = give
  <2>1. PairIs(P, Q, Specs, p, give, q, get)
    BY <1>4, PairOf
  <2>2. QED
    BY <2>1 DEF PairIs
<1> HIDE DEF g
<1>10. /\ now \in State(p, P, Q) /\ IsLive(now) /\ now.myStatus = "accepted" /\ now.gives = g
       /\ now.accepted[p] = t /\ now.accepted[q] = Nothing
       /\ now.role = IF p = P THEN "proposer" ELSE "participant"
  <2>1. t \in Notes \cup {Nothing} /\ Nothing \in Notes \cup {Nothing}
    BY <1>7
  <2>2. now = [st EXCEPT !.gives = g, !.myStatus = "accepted", !.accepted = Pair(p, t, q, Nothing)]
    OBVIOUS
  <2> HIDE DEF now
  <2>3. Renewed(P, Q, p, q, g, "accepted", t, Nothing, now)
    BY <1>3, <1>4, <1>9, <2>1, <2>2, NewTerms
  <2>4. QED
    BY <2>3 DEF Renewed
<1>11. /\ m.kind = "counter" /\ m.id = id /\ m.gives = g /\ m.token = t
       /\ p = P => m \in FromProposer(P, Q)
       /\ p = Q => m \in FromParticipant(P, Q)
  BY <1>3, <1>7, <1>9, FramesMade
<1> HIDE DEF now, m
<1>12. /\ m \in Frame
       /\ p = P => Added(net[P][Q], Append(net[P][Q], m), m, id)
                   /\ AllIn(Append(net[P][Q], m), id, FromProposer(P, Q))
       /\ p = Q => Added(net[Q][P], Append(net[Q][P], m), m, id)
                   /\ AllIn(Append(net[Q][P], m), id, FromParticipant(P, Q))
  <2>1. CASE p = P
    BY <1>2, <1>3, <1>11, <2>1, ProposerSends
  <2>2. CASE p = Q
    BY <1>2, <1>3, <1>11, <2>2, ParticipantSends
  <2>3. QED
    BY <1>4, <2>1, <2>2
<1>13. Wired(p, q, id, out, net[q][p])
  BY <1>4, <1>8, <1>11, <1>12, WiresSend DEF RdvInv
<1> HIDE DEF out
<1>14. /\ w \in Wallet /\ Holds(w) = Holds(wallet[p])
       /\ Separate(wallet[p]) => Mine(w, id) = {t} /\ \A j : j # id => Mine(w, j) = Mine(wallet[p], j)
  BY <1>6, <1>7 DEF LockedIn, FreedIn
<1>15. Turn(p, q, id, w, now, out, net[q][p])
  <2>1. /\ UNCHANGED fresh /\ Cuts /\ Watch /\ Spend("counters")
    BY DEF Counter, RdvInv, TypeOK, Cuts
  <2>2. budget' \in [counters: 0..MaxCounters, faults: 0..MaxFaults]
    BY <2>1, SpendType DEF RdvInv
  <2>3. QED
    BY <1>4, <1>8, <1>13, <1>14, <2>1, <2>2, NotedTurn DEF RdvInv
<1>16. ASSUME Calm'
       PROVE  /\ Calm /\ NoCrossing(id, net'[P][Q], net'[Q][P])
              /\ DealOf(id, P, Q)
              /\ Mine(w, id) = {t} /\ \A j : j # id => Mine(w, j) = Mine(wallet[p], j)
  <2>1. Calm /\ NoCrossing(id, net'[P][Q], net'[Q][P]) /\ Separate(wallet[p])
    BY <1>3, <1>4, <1>15, <1>16, CalmTurn
  <2>2. QED
    BY <1>2, <1>14, <2>1 DEF Ready
<1> DEFINE sp == prop[P][id]
           sq == prop[Q][id]
           lp == Mine(wallet[P], id)
           lq == Mine(wallet[Q], id)
<1>17. CASE p = P
  <2>1. q = Q /\ now \in State(P, P, Q) /\ out = Append(net[P][Q], m)
    BY <1>4, <1>10, <1>17 DEF out
  <2>2. Added(net[P][Q], out, m, id) /\ AllIn(out, id, FromProposer(P, Q))
    BY <1>12, <1>17, <2>1
  <2>3. ASSUME Calm' PROVE Deal(id, P, Q, now, sq, {t}, lq, out, net[Q][P])
    <3>1. Deal(id, P, Q, sp, sq, lp, lq, net[P][Q], net[Q][P])
      BY <1>16, <2>3 DEF DealOf
    <3>2. NoCrossing(id, out, net[Q][P])
      BY <1>13, <1>16, <1>17, <2>1, <2>3 DEF Wired
    <3>3. IsLive(sp) /\ now.accepted[P] = t /\ now.accepted[Q] = Nothing /\ t # Nothing
      <4>1. t # Nothing
        BY <1>7, NoteFacts DEF Nothing
      <4>2. QED
        BY <1>4, <1>10, <1>17, <2>1, <4>1 DEF st
    <3>4. Worth(t) = now.gives[P] /\ now.gives = m.gives
      BY <1>7, <1>9, <1>10, <1>11, <1>17
    <3> HIDE DEF sp, sq, lp, lq
    <3>5. QED
      BY <1>10, <1>11, <2>2, <3>1, <3>2, <3>3, <3>4, ProposerCountered
  <2>4. ASSUME Calm'
        PROVE  /\ \A j : j # id => Mine(w, j) = Mine(wallet[P], j)
               /\ Deal(id, P, Q, now, prop[Q][id], Mine(w, id), Mine(wallet[Q], id), out, net[Q][P])
    BY <1>16, <1>17, <2>3, <2>4
  <2>5. ASSUME Sure' PROVE Bound(id, Q, now, prop[Q][id], out, net[Q][P])
    <3>1. Sure
      BY <1>4, <1>15, <2>5, SureTurn
    <3>2. Bound(id, Q, prop[P][id], prop[Q][id], net[P][Q], net[Q][P])
      BY <1>2, <3>1, SureFacts
    <3>3. IsLive(prop[P][id]) /\ now.accepted[Q] = Nothing
      BY <1>4, <1>10, <1>17, <2>1 DEF st
    <3>4. QED
      BY <1>11, <2>2, <3>2, <3>3, BoundCountered
  <2>6. RdvInv'
    <3>1. Turn(P, Q, id, w, now, out, net[Q][P])
      BY <1>15, <1>17, <2>1
    <3>2. QED
      BY <1>2, <2>1, <2>2, <2>4, <2>5, <3>1, ProposerTurn DEF Ready
  <2>7. QED
    BY <1>14, <1>15, <2>6, HoldingTurn DEF RdvInv
<1>18. CASE p = Q
  <2>1. q = P /\ now \in State(Q, P, Q) /\ out = Append(net[Q][P], m)
    BY <1>4, <1>10, <1>18 DEF out
  <2>2. Added(net[Q][P], out, m, id) /\ AllIn(out, id, FromParticipant(P, Q))
    BY <1>12, <1>18, <2>1
  <2>3. ASSUME Calm' PROVE Deal(id, P, Q, sp, now, lp, {t}, net[P][Q], out)
    <3>1. Deal(id, P, Q, sp, sq, lp, lq, net[P][Q], net[Q][P])
      BY <1>16, <2>3 DEF DealOf
    <3>2. NoCrossing(id, net[P][Q], out)
      BY <1>13, <1>16, <1>18, <2>1, <2>3 DEF Wired
    <3>3. IsLive(sq) /\ Vowed(now)
      BY <1>3, <1>4, <1>10, <1>18 DEF st, Vowed
    <3>4. Worth(m.token) = now.gives[Q] /\ now.gives = m.gives /\ m.token = t /\ t \in Notes
      BY <1>7, <1>9, <1>10, <1>11, <1>18
    <3> HIDE DEF sp, sq, lp, lq
    <3>5. Deal(id, P, Q, sp, now, lp, {m.token}, net[P][Q], out)
      BY <1>11, <2>2, <3>1, <3>2, <3>3, <3>4, DealCountered
    <3>6. QED
      BY <3>4, <3>5
  <2>4. ASSUME Calm'
        PROVE  /\ \A j : j # id => Mine(w, j) = Mine(wallet[Q], j)
               /\ Deal(id, P, Q, prop[P][id], now, Mine(wallet[P], id), Mine(w, id), net[P][Q], out)
    BY <1>16, <1>18, <2>3, <2>4
  <2>5. ASSUME Sure' PROVE Bound(id, Q, prop[P][id], now, net[P][Q], out)
    <3>1. Sure
      BY <1>4, <1>15, <2>5, SureTurn
    <3>2. Bound(id, Q, prop[P][id], prop[Q][id], net[P][Q], net[Q][P])
      BY <1>2, <3>1, SureFacts
    <3>3. Keeps(net[P][Q], net[P][Q], id)
      BY SameReflexive, SameKeeps
    <3>4. QED
      BY <1>10, <3>2, <3>3, BoundLive
  <2>6. RdvInv'
    <3>1. Turn(Q, P, id, w, now, out, net[P][Q])
      BY <1>15, <1>18, <2>1
    <3>2. QED
      BY <1>2, <2>1, <2>2, <2>4, <2>5, <3>1, ParticipantTurn DEF Ready
  <2>7. QED
    BY <1>14, <1>15, <2>6, HoldingTurn DEF RdvInv
<1>19. QED
  BY <1>4, <1>17, <1>18

\* There is no note to counter with: what is left is astray.
LEMMA CounterFailsKeeps ==
    ASSUME RdvInv, Marked, NEW p \in Peers, NEW id \in Ids, NEW give \in Specs, NEW get \in Specs,
           CounterFails(p, id, give, get)
    PROVE  RdvInv' /\ PaysWhole
<1> DEFINE st == prop[p][id]
           q == Partner(p, st)
           g == Pair(p, give, q, get)
           v == ReleaseLockedFor(wallet[p], id)
           now == [st EXCEPT !.gives = g, !.accepted = Pair(p, Nothing, q, Nothing)]
<1>1. Live(p, id)
  BY DEF CounterFails
<1>2. PICK P \in Peers, Q \in Peers :
          /\ Ready(id, P, Q)
          /\ \/ p = P /\ prop[p][id] \in State(P, P, Q) /\ prop[p][id].role = "proposer"
             \/ p = Q /\ prop[p][id] \in State(Q, P, Q) /\ prop[p][id].role = "participant"
  BY <1>1, LiveSituation
<1>3. P # Q
  BY <1>2 DEF Ready
<1>4. /\ p \in {P, Q} /\ q \in {P, Q} /\ p # q /\ st \in State(p, P, Q) /\ IsLive(st)
      /\ p = P => q = Q
      /\ p = Q => q = P
  BY <1>2, <1>3, StateFacts
<1>5. /\ wallet' = [wallet EXCEPT ![p] = v] /\ Set(p, id, now) /\ stored' = stored
      /\ UNCHANGED net /\ fresh' = fresh /\ cut' = cut /\ astray' = TRUE /\ Spend("counters")
  BY DEF CounterFails
<1>6. FreedIn(wallet[p], v, id)
  BY <1>2, ReleaseFacts DEF Ready
<1> HIDE DEF v, st, q
<1>7. g \in [{P, Q} -> Specs]
  <2>1. PairIs(P, Q, Specs, p, give, q, get)
    BY <1>4, PairOf
  <2>2. QED
    BY <2>1 DEF PairIs
<1>8. now \in State(p, P, Q)
  <2> DEFINE N == Notes \cup {Nothing}
             none == Pair(p, Nothing, q, Nothing)
  <2>1. Nothing \in N
    OBVIOUS
  <2> HIDE DEF N
  <2>2. PairIs(P, Q, N, p, Nothing, q, Nothing)
    BY <1>4, <2>1, PairOf
  <2>3. none \in [{P, Q} -> Notes \cup {Nothing}]
    BY <2>2 DEF PairIs, N
  <2> HIDE DEF none, g
  <2>4. [st EXCEPT !.gives = g, !.accepted = none] \in State(p, P, Q)
    BY <1>4, <1>7, <2>3 DEF State
  <2>5. QED
    BY <2>4 DEF none
<1> HIDE DEF g, now
<1>9. Wired(p, q, id, net[p][q], net[q][p])
  BY <1>4, <1>5, WiresStill DEF RdvInv
<1>10. Turn(p, q, id, v, now, net[p][q], net[q][p])
  <2>1. budget' \in [counters: 0..MaxCounters, faults: 0..MaxFaults] /\ Cuts
    BY <1>5, SpendType DEF RdvInv, TypeOK, Cuts
  <2>2. prop' = [prop EXCEPT ![p][id] = now]
    BY <1>5 DEF Set
  <2>3. QED
    BY <1>5, <1>6, <1>9, <2>1, <2>2 DEF Turn, FreedIn
<1>11. ~Calm' /\ ~Sure'
  BY <1>5 DEF Calm, Sure
<1>12. CASE p = P
  <2>1. Turn(P, Q, id, v, now, net[P][Q], net[Q][P]) /\ now \in State(P, P, Q)
    BY <1>4, <1>8, <1>10, <1>12
  <2>2. QED
    BY <1>2, <1>5, <1>11, <2>1, ProposerTurn DEF Ready, PaysWhole
<1>13. CASE p = Q
  <2>1. Turn(Q, P, id, v, now, net[Q][P], net[P][Q]) /\ now \in State(Q, P, Q)
    BY <1>4, <1>8, <1>10, <1>13
  <2>2. QED
    BY <1>2, <1>5, <1>11, <2>1, ParticipantTurn DEF Ready, PaysWhole
<1>14. QED
  BY <1>4, <1>12, <1>13

-----------------------------------------------------------------------------
(* The proposer's commit *)

LEMMA ProposerKinds ==
    ASSUME NEW P \in Peers, NEW Q \in Peers, P # Q, NEW s, NEW id,
           AllIn(s, id, FromProposer(P, Q))
    PROVE  AllIn(s, id, {k \in Frame : k.kind \in {"propose", "counter", "commit", "abort"}})
<1>1. ASSUME NEW m \in FromProposer(P, Q)
      PROVE  m \in {k \in Frame : k.kind \in {"propose", "counter", "commit", "abort"}}
  <2>1. m.kind \in {"propose", "counter", "commit", "abort"} /\ m \in Said(P, Q, P, Q)
    BY SaidFacts
  <2>2. m \in Frame
    BY <2>1, SaidIsFrame
  <2>3. QED
    BY <2>1, <2>2
<1>2. QED
  BY <1>1 DEF AllIn

LEMMA ParticipantKinds ==
    ASSUME NEW P \in Peers, NEW Q \in Peers, P # Q, NEW s, NEW id,
           AllIn(s, id, FromParticipant(P, Q))
    PROVE  AllIn(s, id, {k \in Frame : k.kind \in {"accept", "counter", "reject"}})
<1>1. ASSUME NEW m \in FromParticipant(P, Q)
      PROVE  m \in {k \in Frame : k.kind \in {"accept", "counter", "reject"}}
  <2>1. m.kind \in {"accept", "counter", "reject"} /\ m \in Said(Q, P, P, Q)
    BY SaidFacts
  <2>2. m \in Frame
    BY <2>1, SaidIsFrame
  <2>3. QED
    BY <2>1, <2>2
<1>2. QED
  BY <1>1 DEF AllIn

\* Both have accepted what now says, and w holds the proposer's note: finalize.
LEMMA FinalizeKeeps ==
    ASSUME RdvInv, NEW P \in Peers, NEW Q \in Peers, NEW id \in Ids, Ready(id, P, Q),
           NEW sp, sp = prop[P][id], sp \in State(P, P, Q),
           NEW now \in State(P, P, Q), AllAccepted(now), now.gives = sp.gives,
           NEW w \in Wallet, Holds(w) = Holds(wallet[P]), NEW B,
           NEW v, v = ApplyCommit(w, P, now, CommitRow(now, P)),
           NEW A, A = Append(net[P][Q], Commit(now, id, Q)),
           Turn(P, Q, id, v, NoProposal, A, B), AllIn(B, id, FromParticipant(P, Q)),
           Calm' => /\ Deal(id, P, Q, now, prop[Q][id], {now.accepted[P]}, Mine(wallet[Q], id),
                            net[P][Q], B)
                    /\ Separate(w) /\ Mine(w, id) = {now.accepted[P]}
                    /\ \A j : j # id => Mine(w, j) = Mine(wallet[P], j),
           Sure' => IsLive(prop[Q][id])
    PROVE  RdvInv' /\ PaysWhole
<1> DEFINE m == Commit(now, id, Q)
           row == CommitRow(now, P)
           paid == now.accepted[P]
           got == now.accepted[Q]
           sq == prop[Q][id]
           lq == Mine(wallet[Q], id)
<1>1. P # Q
  BY DEF Ready
<1>2. /\ m \in FromProposer(P, Q) /\ m.kind = "commit" /\ m.id = id
      /\ m.givesToken = got /\ m.getsToken = paid
      /\ row.givesToken = paid /\ row.getsToken = got
      /\ paid \in Notes /\ got \in Notes
  BY <1>1, CommitMade
<1> HIDE DEF m
<1>3. m \in Frame /\ Added(net[P][Q], A, m, id) /\ AllIn(A, id, FromProposer(P, Q))
  <2>1. A = Append(net[P][Q], m)
    BY DEF m
  <2>2. QED
    BY <1>2, <2>1, ProposerSends
<1> HIDE DEF row, sq, lq
<1>4. /\ Partner(P, now) = Q /\ Partner(P, sp) = Q /\ IsLive(now) /\ IsLive(sp)
      /\ paid # Nothing /\ got # Nothing
  BY <1>1, StateFacts
<1>5. /\ v \in Wallet
      /\ Worth(got) = now.gives[Q] => PaidFrom(w, v, id, paid, got)
  <2>1. row.getsToken \in Notes /\ v = ApplyCommit(w, P, now, row)
    BY <1>2 DEF row
  <2>2. /\ ApplyCommit(w, P, now, row) \in Wallet
        /\ Worth(row.getsToken) = now.gives[Partner(P, now)]
               => PaidFrom(w, ApplyCommit(w, P, now, row), id, row.givesToken, row.getsToken)
    BY <2>1, CommitFacts
  <2>3. QED
    BY <1>2, <1>4, <2>1, <2>2
<1>6. ASSUME Calm'
      PROVE  /\ \A j : j # id => Mine(v, j) = Mine(wallet[P], j)
             /\ Deal(id, P, Q, NoProposal, sq, Mine(v, id), lq, A, B)
             /\ Worth(paid) = sp.gives[P] /\ Worth(got) = sp.gives[Q]
             /\ Holds(v) = (Holds(wallet[P]) \ paid) \cup got
  <2>1. Deal(id, P, Q, now, sq, {paid}, lq, net[P][Q], B)
    BY <1>6 DEF sq, lq
  <2>2. NoCrossing(id, A, B)
    <3>1. NoCrossing(id, net'[P][Q], net'[Q][P])
      BY <1>1, <1>6, CalmTurn
    <3>2. QED
      BY <3>1 DEF Turn, Wired
  <2>3. Paid(now, P) /\ Paid(now, Q)
    BY <1>4 DEF Paid
  <2>4. Worth(paid) = now.gives[P] /\ Worth(got) = now.gives[Q]
    BY <2>1, <2>3 DEF Deal, ProposerBacked, PaidIn
  <2>5. PaidFrom(w, v, id, paid, got)
    BY <1>5, <2>4
  <2>6. /\ Mine(v, id) = {} /\ Holds(v) = (Holds(wallet[P]) \ paid) \cup got
        /\ \A j : j # id => Mine(v, j) = Mine(wallet[P], j)
    BY <1>6, <2>5 DEF PaidFrom
  <2>7. AllIn(B, id, {k \in Frame : k.kind \in {"accept", "counter", "reject"}})
    BY <1>1, ParticipantKinds
  <2>8. Deal(id, P, Q, NoProposal, sq, {}, lq, A, B)
    BY <1>2, <1>3, <2>1, <2>2, <2>3, <2>7, DealCommitted
  <2>9. QED
    BY <2>4, <2>6, <2>8
<1>7. ASSUME Sure' PROVE Bound(id, Q, NoProposal, sq, A, B)
  <2>1. Deal(id, P, Q, now, sq, {paid}, lq, net[P][Q], B) /\ IsLive(sq)
    BY <1>7 DEF Sure, sq, lq
  <2>2. No(net[P][Q], id, "abort")
    BY <1>4, <2>1 DEF Deal, EndsLast
  <2>3. QED
    BY <1>2, <1>3, <2>1, <2>2, BoundCommitted
<1>8. RdvInv'
  BY <1>3, <1>6, <1>7, ProposerTurn DEF Ready, sq, lq
<1>9. PaysWhole
  <2>1. Live(P, id)
    BY <1>4 DEF Live, IsLive
  <2>2. ASSUME Calm'
        PROVE  \E x, y \in Notes :
                   /\ Worth(x) = prop[P][id].gives[P]
                   /\ Worth(y) = prop[P][id].gives[Partner(P, prop[P][id])]
                   /\ Holds(v) = (Holds(wallet[P]) \ x) \cup y
    BY <1>2, <1>4, <1>6, <2>2
  <2>3. QED
    BY <2>1, <2>2, PayingTurn DEF RdvInv
<1>10. QED
  BY <1>8, <1>9

LEMMA AcceptAsProposerKeeps ==
    ASSUME RdvInv, Marked, NEW p \in Peers, NEW id \in Ids, AcceptAsProposer(p, id)
    PROVE  RdvInv' /\ PaysWhole
<1>1. Live(p, id) /\ prop[p][id].role = "proposer" /\ prop[p][id].accepted[p] = Nothing
  BY DEF AcceptAsProposer
<1>2. PICK P \in Peers, Q \in Peers :
          Ready(id, P, Q) /\ p = P /\ prop[P][id] \in State(P, P, Q)
  BY <1>1, LiveSituation
<1> DEFINE sp == prop[P][id]
           sq == prop[Q][id]
           lp == Mine(wallet[P], id)
           lq == Mine(wallet[Q], id)
<1>3. /\ Partner(P, sp) = Q /\ P # Q /\ IsLive(sp) /\ sp.gives[P] \in Specs
      /\ sp.accepted[P] = Nothing
  BY <1>1, <1>2, StateFacts DEF Ready
<1>4. PICK l \in Lockings(wallet[P], sp.gives[P], id) :
          LET now == [sp EXCEPT !.accepted[P] = l.token]
          IN  IF AllAccepted(now)
              THEN /\ Note(P, ApplyCommit(l.wallet, P, now, CommitRow(now, P)))
                   /\ Drop(P, id)
                   /\ Send(P, Q, Commit(now, id, Q))
              ELSE /\ Note(P, l.wallet)
                   /\ Set(P, id, now)
                   /\ UNCHANGED net
  BY <1>2, <1>3 DEF AcceptAsProposer
<1> DEFINE t == l.token
           w == l.wallet
           now == [sp EXCEPT !.accepted[P] = t]
<1>5. t \in Notes /\ Worth(t) = sp.gives[P] /\ LockedIn(wallet[P], w, id, t)
  BY <1>2, <1>3, LockingFacts DEF Ready
<1>6. IF AllAccepted(now)
      THEN /\ Note(P, ApplyCommit(w, P, now, CommitRow(now, P)))
           /\ Set(P, id, NoProposal)
           /\ Send(P, Q, Commit(now, id, Q))
      ELSE /\ Note(P, w)
           /\ Set(P, id, now)
           /\ UNCHANGED net
  BY <1>4 DEF Drop
<1> HIDE DEF t, w
<1>7. /\ now \in State(P, P, Q) /\ now.gives = sp.gives
      /\ now.accepted[P] = t /\ now.accepted[Q] = sp.accepted[Q]
  BY <1>2, <1>3, <1>5 DEF State
<1> HIDE DEF now
<1>8. IsLive(now) /\ t # Nothing /\ w \in Wallet /\ Holds(w) = Holds(wallet[P])
  <2>1. IsLive(now)
    BY <1>3, <1>7, StateFacts
  <2>2. t # Nothing
    BY <1>5, NoteFacts DEF Nothing
  <2>3. QED
    BY <1>5, <2>1, <2>2 DEF LockedIn
<1>9. /\ UNCHANGED fresh /\ Cuts /\ Watch
      /\ budget' \in [counters: 0..MaxCounters, faults: 0..MaxFaults]
  BY DEF AcceptAsProposer, RdvInv, TypeOK, Cuts
\* Once it is calm after the step:
<1>10. ASSUME Calm, Separate(wallet[P])
       PROVE  /\ Deal(id, P, Q, now, sq, {t}, lq, net[P][Q], net[Q][P])
              /\ Separate(w) /\ Mine(w, id) = {t}
              /\ \A j : j # id => Mine(w, j) = Mine(wallet[P], j)
  <2>1. Deal(id, P, Q, sp, sq, lp, lq, net[P][Q], net[Q][P])
    BY <1>2, <1>10 DEF Ready, DealOf
  <2> HIDE DEF sp, sq, lp, lq
  <2>2. lp = {}
    BY <1>3, <2>1 DEF Deal, ProposerBacked, Paid
  <2>3. Deal(id, P, Q, now, sq, {now.accepted[P]}, lq, net[P][Q], net[Q][P])
    BY <1>3, <1>5, <1>7, <1>8, <2>1, DealPaid
  <2>4. QED
    BY <1>5, <1>7, <1>10, <2>2, <2>3 DEF LockedIn, lp
<1>11. CASE AllAccepted(now)
  <2> DEFINE m == Commit(now, id, Q)
             v == ApplyCommit(w, P, now, CommitRow(now, P))
             A == Append(net[P][Q], m)
  <2>1. Note(P, v) /\ Set(P, id, NoProposal) /\ Send(P, Q, m)
    BY <1>6, <1>11
  <2>2. m \in FromProposer(P, Q) /\ m.id = id /\ CommitRow(now, P).getsToken \in Notes
    BY <1>3, <1>7, <1>11, CommitMade
  <2>3. v \in Wallet
    BY <1>8, <2>2, CommitFacts
  <2> HIDE DEF m
  <2>4. m \in Frame
    BY <1>2, <2>2, ProposerSends
  <2>5. Wired(P, Q, id, A, net[Q][P])
    BY <1>3, <2>1, <2>2, <2>4, WiresSend DEF RdvInv
  <2> HIDE DEF v, A
  <2>6. Turn(P, Q, id, v, NoProposal, A, net[Q][P])
    BY <1>9, <2>1, <2>3, <2>5, NotedTurn DEF RdvInv
  <2>7. ASSUME Calm'
        PROVE  /\ Deal(id, P, Q, now, sq, {now.accepted[P]}, lq, net[P][Q], net[Q][P])
               /\ Separate(w) /\ Mine(w, id) = {now.accepted[P]}
               /\ \A j : j # id => Mine(w, j) = Mine(wallet[P], j)
    <3>1. Calm /\ Separate(wallet[P])
      BY <1>3, <2>6, <2>7, CalmTurn
    <3>2. QED
      BY <1>7, <1>10, <3>1
  <2>8. /\ v = ApplyCommit(w, P, now, CommitRow(now, P))
        /\ A = Append(net[P][Q], Commit(now, id, Q))
        /\ AllIn(net[Q][P], id, FromParticipant(P, Q))
    BY <1>2 DEF v, A, m, Ready
  <2>9. Sure' => IsLive(prop[Q][id])
    <3>1. Paid(sp, Q)
      BY <1>3, <1>7, <1>11, StateFacts DEF Paid
    <3>2. ASSUME Sure' PROVE Bound(id, Q, sp, prop[Q][id], net[P][Q], net[Q][P])
      <4>1. Sure
        BY <1>3, <2>6, <3>2, SureTurn
      <4>2. QED
        BY <1>2, <4>1, SureFacts
    <3>3. QED
      BY <1>3, <3>1, <3>2 DEF Bound
  <2>10. QED
    BY <1>2, <1>7, <1>8, <1>11, <2>6, <2>7, <2>8, <2>9, FinalizeKeeps
<1>12. CASE ~AllAccepted(now)
  <2>1. Note(P, w) /\ Set(P, id, now) /\ UNCHANGED net
    BY <1>6, <1>12
  <2>2. Wired(P, Q, id, net[P][Q], net[Q][P])
    BY <2>1, WiresStill DEF RdvInv
  <2>3. Turn(P, Q, id, w, now, net[P][Q], net[Q][P])
    BY <1>8, <1>9, <2>1, <2>2, NotedTurn DEF RdvInv
  <2>4. ASSUME Calm'
        PROVE  /\ \A j : j # id => Mine(w, j) = Mine(wallet[P], j)
               /\ Deal(id, P, Q, now, prop[Q][id], Mine(w, id), Mine(wallet[Q], id),
                       net[P][Q], net[Q][P])
    <3>1. Calm /\ Separate(wallet[P])
      BY <1>3, <2>3, <2>4, CalmTurn
    <3>2. QED
      BY <1>10, <3>1
  <2>5. ASSUME Sure' PROVE Bound(id, Q, now, prop[Q][id], net[P][Q], net[Q][P])
    <3>1. Sure
      BY <1>3, <2>3, <2>5, SureTurn
    <3>2. Bound(id, Q, sp, prop[Q][id], net[P][Q], net[Q][P])
      BY <1>2, <3>1, SureFacts
    <3>3. QED
      BY <1>3, <1>7, <3>2 DEF Bound, Paid
  <2>6. RdvInv'
    BY <1>2, <1>7, <2>3, <2>4, <2>5, ProposerTurn DEF Ready
  <2>7. QED
    BY <1>8, <2>3, <2>6, HoldingTurn DEF RdvInv
<1>13. QED
  BY <1>11, <1>12

-----------------------------------------------------------------------------
(* A proposal begins *)

LEMMA SwapKeeps ==
    ASSUME RdvInv, Marked, NEW p \in Peers, NEW q \in Peers, NEW id \in Ids, NEW give \in Specs,
           NEW get \in Specs, Swap(p, q, id, give, get)
    PROVE  RdvInv' /\ PaysWhole
<1> DEFINE g == Pair(p, give, q, get)
<1>1. p # q /\ id \in fresh /\ fresh' = fresh \ {id} /\ cut' = cut /\ budget' = budget /\ Watch
  BY DEF Swap
<1>2. PICK l \in Lockings(wallet[p], give, id) :
          /\ Note(p, l.wallet)
          /\ Set(p, id, [role |-> "proposer", myStatus |-> "accepted", proposer |-> p,
                         gives |-> g, accepted |-> Pair(p, l.token, q, Nothing)])
          /\ Send(p, q, [kind |-> "propose", id |-> id, gives |-> g])
  BY DEF Swap
<1> DEFINE t == l.token
           w == l.wallet
           put == Pair(p, t, q, Nothing)
           st == [role |-> "proposer", myStatus |-> "accepted", proposer |-> p,
                  gives |-> g, accepted |-> put]
           m == [kind |-> "propose", id |-> id, gives |-> g]
           out == Append(net[p][q], m)
           in == net[q][p]
<1>3. /\ wallet \in [Peers -> Wallet] /\ net \in [Peers -> [Peers -> Seq(Frame)]]
      /\ prop \in [Peers -> [Ids -> Proposal \cup {NoProposal}]]
      /\ cut \in BOOLEAN /\ budget \in [counters: 0..MaxCounters, faults: 0..MaxFaults]
      /\ twice \in BOOLEAN /\ astray \in BOOLEAN
  BY DEF RdvInv, TypeOK
<1>4. t \in Notes /\ Worth(t) = give /\ LockedIn(wallet[p], w, id, t)
  BY <1>3, LockingFacts
<1>5. Note(p, w) /\ Set(p, id, st) /\ Send(p, q, m)
  BY <1>2
<1> HIDE DEF t, w
<1>6. g \in [{p, q} -> Specs] /\ g[p] = give
  <2>1. PairIs(p, q, Specs, p, give, q, get)
    BY <1>1, PairOf
  <2>2. QED
    BY <2>1 DEF PairIs
<1>7. put \in [{p, q} -> Notes \cup {Nothing}] /\ put[p] = t /\ put[q] = Nothing
  <2> DEFINE N == Notes \cup {Nothing}
  <2>1. t \in N /\ Nothing \in N
    BY <1>4
  <2> HIDE DEF N
  <2>2. PairIs(p, q, N, p, t, q, Nothing)
    BY <1>1, <2>1, PairOf
  <2>3. QED
    BY <2>2 DEF PairIs, N
<1> HIDE DEF g, put
<1>8. /\ st \in State(p, p, q) /\ st.gives = g /\ st.accepted[p] = t /\ st.accepted[q] = Nothing
      /\ m.kind = "propose" /\ m.id = id /\ m.gives = g
  BY <1>6, <1>7 DEF State
<1>9. m \in FromProposer(p, q)
  BY <1>1, <1>6, FramesMade
<1> HIDE DEF st, m
<1>10. m \in Frame
  <2>1. m \in Said(p, q, p, q)
    BY <1>1, <1>9, SaidFacts
  <2>2. QED
    BY <1>1, <2>1, SaidIsFrame
<1>11. st \in Proposal /\ IsLive(st) /\ t # Nothing
  BY <1>1, <1>4, <1>8, StateFacts, NoteFacts DEF Nothing
<1>12. Untouched(id)
  BY <1>1 DEF RdvInv, DealsInv
<1>13. Wired(p, q, id, out, in)
  BY <1>1, <1>5, <1>8, <1>10, WiresSend DEF RdvInv
<1>14. Added(net[p][q], out, m, id)
  BY <1>3, <1>8, <1>10, OwnAdded
<1>15. AllIn(out, id, FromProposer(p, q)) /\ AllIn(in, id, FromParticipant(p, q))
  <2>1. Quiet(net[p][q], id) /\ Quiet(in, id)
    BY SilenceIsQuiet
  <2>2. Silent(net[p][q], id) /\ Silent(in, id)
    BY <1>12 DEF Untouched
  <2> HIDE DEF out, in
  <2>3. QED
    BY <1>9, <1>14, <2>1, <2>2 DEF Quiet, Added
<1> HIDE DEF out, in
<1>16. Turn(p, q, id, w, st, out, in)
  <2>1. w \in Wallet
    BY <1>4 DEF LockedIn
  <2>2. QED
    BY <1>1, <1>3, <1>5, <1>13, <2>1, WatchMeans DEF Turn, Note, Set, Cuts
<1>17. ASSUME Calm'
       PROVE  /\ Calm /\ Mine(wallet[p], id) = {} /\ Mine(w, id) = {t}
              /\ \A j : j # id => Mine(w, j) = Mine(wallet[p], j)
  <2>1. Calm /\ Separate(wallet[p])
    BY <1>1, <1>16, <1>17, CalmTurn
  <2>2. Mine(wallet[p], id) = {}
    BY <1>12, <2>1 DEF Untouched
  <2>3. QED
    BY <1>4, <2>1, <2>2 DEF LockedIn
<1>18. TypeOK' /\ NoCross' /\ SeparateInv' /\ StoreInv'
  BY <1>11, <1>16, TurnTypes
<1>19. /\ prop'[p][id] = st /\ wallet'[p] = w
       /\ \A r \in Peers : r # p => prop'[r][id] = NoProposal /\ wallet'[r] = wallet[r]
  BY <1>3, <1>12, <1>16 DEF Turn, Untouched
<1>20. Roles(id, p, q)'
  BY <1>8, <1>19, NoneIsNotLive DEF Roles
<1>21. Wires(id, p, q)'
  <2>1. ASSUME NEW r \in Peers, NEW s \in Peers
        PROVE  AllIn(net'[r][s], id, Said(r, s, p, q))
    <3> net'[p][q] = out /\ net'[q][p] = in
      BY <1>13 DEF Wired
    <3> Said(p, q, p, q) = FromProposer(p, q) /\ Said(q, p, p, q) = FromParticipant(p, q)
      BY <1>1, SaidFacts
    <3>1. CASE r = p /\ s = q
      BY <1>15, <3>1
    <3>2. CASE r = q /\ s = p
      BY <1>15, <3>2
    <3>3. CASE ~(r = p /\ s = q) /\ ~(r = q /\ s = p)
      <4>1. net'[r][s] = net[r][s] /\ Silent(net[r][s], id)
        BY <1>12, <1>13, <3>3 DEF Wired, Untouched
      <4>2. Quiet(net[r][s], id)
        BY SilenceIsQuiet
      <4>3. QED
        BY <4>1, <4>2 DEF Quiet
    <3>4. QED
      BY <3>1, <3>2, <3>3
  <2>2. QED
    BY <2>1 DEF Wires
<1>22. ASSUME Calm' PROVE NoLocks(id, p, q)' /\ DealOf(id, p, q)'
  <2>1. NoLocks(id, p, q)'
    BY <1>12, <1>17, <1>19, <1>22 DEF NoLocks, Untouched
  <2>2. Silent(net[p][q], id) /\ Silent(in, id)
    BY <1>12 DEF Untouched, in
  <2>3. Deal(id, p, q, st, NoProposal, {st.accepted[p]}, {}, out, in)
    BY <1>4, <1>6, <1>8, <1>11, <1>14, <2>2, DealProposed
  <2>4. /\ Mine(w, id) = {st.accepted[p]} /\ Mine(wallet'[q], id) = {}
        /\ prop'[q][id] = NoProposal
        /\ net'[p][q] = out /\ net'[q][p] = in
    BY <1>1, <1>8, <1>12, <1>13, <1>17, <1>19, <1>22 DEF Untouched, Wired
  <2>5. DealOf(id, p, q)'
    BY <1>19, <2>3, <2>4 DEF DealOf
  <2>6. QED
    BY <2>1, <2>5
<1>23. BoundOf(id, p, q)'
  <2>1. Silent(net[p][q], id) /\ Silent(in, id)
    BY <1>12 DEF Untouched, in
  <2>2. Bound(id, q, st, NoProposal, out, in)
    BY <1>8, <1>14, <2>1, BoundProposed
  <2>3. /\ prop'[p][id] = st /\ prop'[q][id] = NoProposal
        /\ net'[p][q] = out /\ net'[q][p] = in
    BY <1>1, <1>13, <1>19 DEF Wired
  <2>4. QED
    BY <2>2, <2>3 DEF BoundOf
<1>24. Between(id, p, q)'
  BY <1>1, <1>20, <1>21, <1>22, <1>23 DEF Between
<1>25. RdvInv'
  <2>1. \A j \in Ids : j # id =>
            IF j \in fresh THEN Untouched(j)' ELSE \E P, Q \in Peers : Between(j, P, Q)'
    BY <1>1, <1>16, <1>17, OthersStay
  <2>2. \A j \in Ids : j # id => (j \in fresh' <=> j \in fresh)
    BY <1>1
  <2>3. id \notin fresh'
    BY <1>1
  <2>4. DealsInv'
    BY <1>24, <2>1, <2>2, <2>3 DEF DealsInv
  <2>5. QED
    BY <1>18, <2>4 DEF RdvInv
<1>26. PaysWhole
  BY <1>4, <1>16, HoldingTurn DEF LockedIn, RdvInv
<1>27. QED
  BY <1>25, <1>26

-----------------------------------------------------------------------------
(* The handlers *)

\* p takes m of proposal id from q.
Handling(p, q, m, id, P, Q) ==
    /\ Ready(id, P, Q) /\ P # Q
    /\ Keeps(net[q][p], Tail(net[q][p]), id) /\ Took(net[q][p], Tail(net[q][p]), m, id)
    /\ \/ /\ q = P /\ p = Q /\ m \in FromProposer(P, Q)
          /\ AllIn(Tail(net[P][Q]), id, FromProposer(P, Q))
       \/ /\ q = Q /\ p = P /\ m \in FromParticipant(P, Q)
          /\ AllIn(Tail(net[Q][P]), id, FromParticipant(P, Q))

LEMMA HandlerSituation ==
    ASSUME RdvInv, NEW p \in Peers, NEW q \in Peers, net[q][p] # <<>>,
           NEW m, m = Head(net[q][p]), NEW id, id = m.id
    PROVE  /\ p # q /\ id \in Ids
           /\ Taken(p, q) => Wired(p, q, id, net[p][q], Tail(net[q][p]))
           /\ \E P, Q \in Peers : Handling(p, q, m, id, P, Q)
<1>1. /\ p # q /\ net[q][p] \in Seq(Frame) /\ id \in Ids
      /\ \E P, Q \in Peers : /\ Ready(id, P, Q)
                             /\ \/ q = P /\ p = Q /\ m \in FromProposer(P, Q)
                                \/ q = Q /\ p = P /\ m \in FromParticipant(P, Q)
  BY FrameSituation
<1>2. PICK P \in Peers, Q \in Peers : /\ Ready(id, P, Q)
                                      /\ \/ q = P /\ p = Q /\ m \in FromProposer(P, Q)
                                         \/ q = Q /\ p = P /\ m \in FromParticipant(P, Q)
  BY <1>1
<1>3. P # Q /\ AllIn(net[P][Q], id, FromProposer(P, Q)) /\ AllIn(net[Q][P], id, FromParticipant(P, Q))
  BY <1>2 DEF Ready
<1>4. /\ Keeps(net[q][p], Tail(net[q][p]), id) /\ Took(net[q][p], Tail(net[q][p]), m, id)
      /\ q = P /\ p = Q => AllIn(Tail(net[P][Q]), id, FromProposer(P, Q))
      /\ q = Q /\ p = P => AllIn(Tail(net[Q][P]), id, FromParticipant(P, Q))
  <2>1. CASE q = P /\ p = Q
    BY <1>1, <1>3, <2>1, TakenFrom
  <2>2. CASE q = Q /\ p = P
    BY <1>1, <1>3, <2>2, TakenFrom
  <2>3. QED
    BY <1>2, <1>3, <2>1, <2>2
<1>5. Taken(p, q) => Wired(p, q, id, net[p][q], Tail(net[q][p]))
  BY <1>1, WiresTake DEF RdvInv
<1>6. Handling(p, q, m, id, P, Q)
  BY <1>2, <1>3, <1>4 DEF Handling
<1>7. QED
  BY <1>1, <1>5, <1>6

\* A frame is let go, or lost.
LEMMA LetGoKeeps ==
    ASSUME RdvInv, Marked, NEW p \in Peers, NEW q \in Peers, net[q][p] # <<>>,
           NEW m, m = Head(net[q][p]), UNCHANGED notes, UNCHANGED prop, Taken(p, q),
           UNCHANGED fresh, Cuts,
           budget' \in [counters: 0..MaxCounters, faults: 0..MaxFaults],
           astray' \in BOOLEAN, astray \/ Crossing(net') => astray',
           Calm' => m.kind # "counter" \/ ~Live(p, m.id)
    PROVE  RdvInv' /\ PaysWhole
<1> DEFINE id == m.id
           in == Tail(net[q][p])
<1>1. p # q /\ id \in Ids /\ Wired(p, q, id, net[p][q], in)
  BY HandlerSituation
<1>2. PICK P \in Peers, Q \in Peers : Handling(p, q, m, id, P, Q)
  BY HandlerSituation
<1> HIDE DEF id
<1>3. P # Q /\ Ready(id, P, Q)
  BY <1>2 DEF Handling
<1>4. Turn(p, q, id, wallet[p], prop[p][id], net[p][q], in)
  <2>1. wallet \in [Peers -> Wallet]
    BY DEF RdvInv, TypeOK
  <2>2. wallet' = [wallet EXCEPT ![p] = wallet[p]] /\ wallet[p] \in Wallet /\ stored' = stored
    BY <2>1 DEF notes
  <2>3. prop' = [prop EXCEPT ![p][id] = prop[p][id]]
    BY <1>1, EntryKept DEF Set, RdvInv
  <2> HIDE DEF in
  <2>4. QED
    BY <1>1, <2>2, <2>3 DEF Turn
<1> DEFINE sp == prop[P][id]
           sq == prop[Q][id]
           lp == Mine(wallet[P], id)
           lq == Mine(wallet[Q], id)
<1>5. ASSUME Calm'
      PROVE  /\ Deal(id, P, Q, sp, sq, lp, lq, net[P][Q], net[Q][P])
             /\ m.kind # "counter" \/ ~IsLive(prop[p][id])
  <2>1. Calm
    BY <1>1, <1>4, <1>5, CalmTurn
  <2>2. m.kind # "counter" \/ ~IsLive(prop[p][id])
    BY <1>5 DEF id, Live, IsLive
  <2>3. QED
    BY <1>3, <2>1, <2>2 DEF Ready, DealOf
<1> HIDE DEF in
<1>6. Keeps(net[q][p], in, id) /\ Took(net[q][p], in, m, id)
  BY <1>2 DEF Handling, in
<1>7. ASSUME Sure', NEW A, NEW B, Keeps(net[P][Q], A, id), Keeps(net[Q][P], B, id)
      PROVE  Bound(id, Q, sp, sq, A, B)
  <2>1. Sure
    BY <1>1, <1>4, <1>7, SureTurn
  <2>2. Bound(id, Q, sp, sq, net[P][Q], net[Q][P])
    BY <1>3, <2>1, SureFacts
  <2>3. QED
    BY <1>7, <2>2, BoundLess
<1>8. CASE q = P /\ p = Q /\ m \in FromProposer(P, Q) /\ AllIn(in, id, FromProposer(P, Q))
  <2>1. Turn(Q, P, id, wallet[Q], sq, net[Q][P], in)
    BY <1>4, <1>8
  <2>2. ASSUME Calm' PROVE Deal(id, P, Q, sp, sq, lp, lq, in, net[Q][P])
    <3>1. /\ Deal(id, P, Q, sp, sq, lp, lq, net[P][Q], net[Q][P])
          /\ Keeps(net[P][Q], in, id) /\ Took(net[P][Q], in, m, id)
          /\ m.kind # "counter" \/ ~IsLive(sq)
      BY <1>5, <1>6, <1>8, <2>2
    <3> HIDE DEF sp, sq, lp, lq
    <3>2. QED
      BY <3>1, FromProposerGone
  <2>3. Sure' => Bound(id, Q, sp, sq, in, net[Q][P])
    BY <1>6, <1>7, <1>8, SameReflexive, SameKeeps
  <2>4. sq \in State(Q, P, Q) \cup {NoProposal}
    BY <1>3 DEF Ready
  <2>5. RdvInv'
    BY <1>3, <1>8, <2>1, <2>2, <2>3, <2>4, ParticipantTurn DEF Ready
  <2>6. QED
    BY <1>4, <2>5, HoldingTurn DEF RdvInv
<1>9. CASE q = Q /\ p = P /\ m \in FromParticipant(P, Q) /\ AllIn(in, id, FromParticipant(P, Q))
  <2>1. Turn(P, Q, id, wallet[P], sp, net[P][Q], in)
    BY <1>4, <1>9
  <2>2. ASSUME Calm' PROVE Deal(id, P, Q, sp, sq, lp, lq, net[P][Q], in)
    <3>1. /\ Deal(id, P, Q, sp, sq, lp, lq, net[P][Q], net[Q][P])
          /\ Keeps(net[Q][P], in, id) /\ Took(net[Q][P], in, m, id)
          /\ m.kind # "counter" \/ ~IsLive(sp)
          /\ m.kind \in {"accept", "counter", "reject"}
      BY <1>3, <1>5, <1>6, <1>9, <2>2, SaidFacts
    <3> HIDE DEF sp, sq, lp, lq
    <3>2. QED
      BY <3>1, FromParticipantGone
  <2>3. Sure' => Bound(id, Q, sp, sq, net[P][Q], in)
    BY <1>6, <1>7, <1>9, SameReflexive, SameKeeps
  <2>4. sp \in State(P, P, Q) \cup {NoProposal}
    BY <1>3 DEF Ready
  <2>5. RdvInv'
    BY <1>3, <1>9, <2>1, <2>2, <2>3, <2>4, ProposerTurn DEF Ready
  <2>6. QED
    BY <1>4, <2>5, HoldingTurn DEF RdvInv
<1>10. QED
  BY <1>2, <1>8, <1>9 DEF Handling, in

LEMMA OnProposeKeeps ==
    ASSUME RdvInv, Marked, NEW p \in Peers, NEW q \in Peers, OnPropose(p, q)
    PROVE  RdvInv' /\ PaysWhole
<1> DEFINE m == Head(net[q][p])
           id == m.id
           st == [role |-> "participant", myStatus |-> "pending", proposer |-> q,
                  gives |-> m.gives, accepted |-> Pair(p, Nothing, q, Nothing)]
<1>1. /\ net[q][p] # <<>> /\ m.kind = "propose" /\ Taken(p, q) /\ Watch
      /\ UNCHANGED fresh /\ Cuts
      /\ budget' \in [counters: 0..MaxCounters, faults: 0..MaxFaults]
  BY DEF OnPropose, Gets, RdvInv, TypeOK, Cuts
<1>2. CASE UNCHANGED <<notes, prop>>
  BY <1>1, <1>2, WatchMeans, LetGoKeeps
<1>3. CASE ~Live(p, id) /\ Note(p, wallet[p]) /\ Set(p, id, st)
  <2> DEFINE in == Tail(net[q][p])
  <2>1. p # q /\ id \in Ids /\ Wired(p, q, id, net[p][q], in)
    BY <1>1, HandlerSituation
  <2>2. PICK P \in Peers, Q \in Peers : Handling(p, q, m, id, P, Q)
    BY <1>1, HandlerSituation
  <2> HIDE DEF m, id
  <2>3. Ready(id, P, Q) /\ P # Q /\ q = P /\ p = Q /\ m \in FromProposer(P, Q)
    BY <1>1, <2>2, SaidFacts DEF Handling
  <2>4. /\ Keeps(net[P][Q], in, id) /\ Took(net[P][Q], in, m, id)
        /\ AllIn(in, id, FromProposer(P, Q))
    BY <2>2, <2>3 DEF Handling
  <2> HIDE DEF in
  <2>5. m.gives \in [{P, Q} -> Specs]
    BY <1>1, <2>3, SaidFacts
  <2>6. st \in State(Q, P, Q) /\ st.myStatus = "pending" /\ st.gives = m.gives
    <3> DEFINE N == Notes \cup {Nothing}
               none == Pair(p, Nothing, q, Nothing)
    <3>1. Nothing \in N
      OBVIOUS
    <3> HIDE DEF N
    <3>2. PairIs(P, Q, N, p, Nothing, q, Nothing)
      BY <2>3, <3>1, PairOf
    <3>3. none \in [{P, Q} -> Notes \cup {Nothing}]
      BY <3>2 DEF PairIs, N
    <3> HIDE DEF none
    <3>4. [role |-> "participant", myStatus |-> "pending", proposer |-> q, gives |-> m.gives,
           accepted |-> none] \in State(Q, P, Q)
      BY <2>3, <2>5, <3>3 DEF State
    <3>5. QED
      BY <3>4 DEF none
  <2> HIDE DEF st
  <2>7. IsLive(st)
    BY <2>3, <2>6, StateFacts
  <2>8. Turn(Q, P, id, wallet[Q], st, net[Q][P], in)
    <3>1. wallet[p] \in Wallet
      BY <2>3 DEF Ready
    <3>2. Turn(p, q, id, wallet[p], st, net[p][q], in)
      BY <1>1, <1>3, <2>1, <3>1, NotedTurn DEF RdvInv
    <3>3. QED
      BY <2>3, <3>2
  <2> DEFINE sp == prop[P][id]
             sq == prop[Q][id]
             lp == Mine(wallet[P], id)
             lq == Mine(wallet[Q], id)
  <2>9. ASSUME Calm' PROVE Deal(id, P, Q, sp, st, lp, lq, in, net[Q][P])
    <3>1. Calm
      BY <2>3, <2>8, <2>9, CalmTurn
    <3>2. Deal(id, P, Q, sp, sq, lp, lq, net[P][Q], net[Q][P]) /\ ~IsLive(sq)
      BY <1>3, <2>3, <3>1 DEF Ready, DealOf, Live, IsLive
    <3> HIDE DEF sp, sq, lp, lq
    <3>3. QED
      BY <1>1, <2>4, <2>6, <2>7, <3>2, DealHeard
  <2>10. ASSUME Sure' PROVE Bound(id, Q, sp, st, in, net[Q][P])
    <3>1. Sure
      BY <2>3, <2>8, <2>10, SureTurn
    <3>2. Bound(id, Q, sp, sq, net[P][Q], net[Q][P])
      BY <2>3, <3>1, SureFacts
    <3>3. QED
      BY <2>4, <2>7, <3>2, BoundLive
  <2>11. RdvInv'
    BY <2>3, <2>4, <2>6, <2>8, <2>9, <2>10, ParticipantTurn DEF Ready
  <2>12. QED
    BY <2>8, <2>11, HoldingTurn DEF RdvInv
<1>4. QED
  BY <1>2, <1>3 DEF OnPropose

LEMMA OnRejectKeeps ==
    ASSUME RdvInv, Marked, NEW p \in Peers, NEW q \in Peers, OnReject(p, q)
    PROVE  RdvInv' /\ PaysWhole
<1> DEFINE m == Head(net[q][p])
           id == m.id
<1>1. /\ net[q][p] # <<>> /\ m.kind = "reject" /\ Taken(p, q) /\ Watch
      /\ UNCHANGED fresh /\ Cuts
      /\ budget' \in [counters: 0..MaxCounters, faults: 0..MaxFaults]
  BY DEF OnReject, Gets, RdvInv, TypeOK, Cuts
<1>2. CASE UNCHANGED <<notes, prop>>
  BY <1>1, <1>2, WatchMeans, LetGoKeeps
<1>3. CASE Live(p, id) /\ Note(p, ReleaseLockedFor(wallet[p], id)) /\ Set(p, id, NoProposal)
  <2> DEFINE in == Tail(net[q][p])
             w == ReleaseLockedFor(wallet[p], id)
  <2>1. p # q /\ id \in Ids /\ Wired(p, q, id, net[p][q], in)
    BY <1>1, HandlerSituation
  <2>2. PICK P \in Peers, Q \in Peers : Handling(p, q, m, id, P, Q)
    BY <1>1, HandlerSituation
  <2> HIDE DEF m, id
  <2>3. Ready(id, P, Q) /\ P # Q /\ q = Q /\ p = P
    BY <1>1, <2>2, SaidFacts DEF Handling
  <2>4. /\ Keeps(net[Q][P], in, id) /\ Took(net[Q][P], in, m, id)
        /\ AllIn(in, id, FromParticipant(P, Q))
    BY <2>2, <2>3 DEF Handling
  <2>5. FreedIn(wallet[P], w, id)
    BY <2>3, ReleaseFacts DEF Ready
  <2> HIDE DEF in, w
  <2>6. Turn(P, Q, id, w, NoProposal, net[P][Q], in)
    <3>1. w \in Wallet /\ Note(p, w)
      BY <1>3, <2>5 DEF FreedIn, w
    <3>2. Turn(p, q, id, w, NoProposal, net[p][q], in)
      BY <1>1, <1>3, <2>1, <3>1, NotedTurn DEF RdvInv
    <3>3. QED
      BY <2>3, <3>2
  <2> DEFINE sp == prop[P][id]
             sq == prop[Q][id]
             lp == Mine(wallet[P], id)
             lq == Mine(wallet[Q], id)
  <2>7. ASSUME Calm' PROVE Deal(id, P, Q, NoProposal, sq, Mine(w, id), lq, net[P][Q], in)
    <3>1. Calm
      BY <2>3, <2>6, <2>7, CalmTurn
    <3>2. Deal(id, P, Q, sp, sq, lp, lq, net[P][Q], net[Q][P])
      BY <2>3, <3>1 DEF Ready, DealOf
    <3> HIDE DEF sp, sq, lp, lq
    <3>3. Deal(id, P, Q, NoProposal, sq, {}, lq, net[P][Q], net[Q][P])
      BY <3>2, ProposerGone
    <3>4. Deal(id, P, Q, NoProposal, sq, {}, lq, net[P][Q], in)
      BY <1>1, <2>4, <3>3, FromParticipantGone
    <3>5. QED
      BY <2>5, <3>4 DEF FreedIn
  <2>8. ASSUME Sure' PROVE Bound(id, Q, NoProposal, sq, net[P][Q], in)
    <3>1. Sure
      BY <2>3, <2>6, <2>8, SureTurn
    <3>2. Bound(id, Q, NoProposal, sq, net[P][Q], net[Q][P])
      BY <2>3, <3>1, SureFacts, BoundProposerGone
    <3>3. Keeps(net[P][Q], net[P][Q], id)
      BY SameReflexive, SameKeeps
    <3>4. QED
      BY <2>4, <3>2, <3>3, BoundLess
  <2>9. RdvInv'
    BY <2>3, <2>4, <2>5, <2>6, <2>7, <2>8, ProposerTurn DEF Ready, FreedIn
  <2>10. QED
    BY <2>5, <2>6, <2>9, HoldingTurn DEF RdvInv, FreedIn
<1>4. QED
  BY <1>2, <1>3 DEF OnReject, Drop

LEMMA OnAbortKeeps ==
    ASSUME RdvInv, Marked, NEW p \in Peers, NEW q \in Peers, OnAbort(p, q)
    PROVE  RdvInv' /\ PaysWhole
<1> DEFINE m == Head(net[q][p])
           id == m.id
<1>1. /\ net[q][p] # <<>> /\ m.kind = "abort" /\ Taken(p, q) /\ Watch
      /\ UNCHANGED fresh /\ Cuts
      /\ budget' \in [counters: 0..MaxCounters, faults: 0..MaxFaults]
  BY DEF OnAbort, Gets, RdvInv, TypeOK, Cuts
<1>2. CASE UNCHANGED <<notes, prop>>
  BY <1>1, <1>2, WatchMeans, LetGoKeeps
<1>3. CASE Live(p, id) /\ Note(p, ReleaseLockedFor(wallet[p], id)) /\ Set(p, id, NoProposal)
  <2> DEFINE in == Tail(net[q][p])
             w == ReleaseLockedFor(wallet[p], id)
  <2>1. p # q /\ id \in Ids /\ Wired(p, q, id, net[p][q], in)
    BY <1>1, HandlerSituation
  <2>2. PICK P \in Peers, Q \in Peers : Handling(p, q, m, id, P, Q)
    BY <1>1, HandlerSituation
  <2> HIDE DEF m, id
  <2>3. Ready(id, P, Q) /\ P # Q /\ q = P /\ p = Q
    BY <1>1, <2>2, SaidFacts DEF Handling
  <2>4. /\ Keeps(net[P][Q], in, id) /\ Took(net[P][Q], in, m, id)
        /\ AllIn(in, id, FromProposer(P, Q))
    BY <2>2, <2>3 DEF Handling
  <2>5. FreedIn(wallet[Q], w, id)
    BY <2>3, ReleaseFacts DEF Ready
  <2> HIDE DEF in, w
  <2>6. Turn(Q, P, id, w, NoProposal, net[Q][P], in)
    <3>1. w \in Wallet /\ Note(p, w)
      BY <1>3, <2>5 DEF FreedIn, w
    <3>2. Turn(p, q, id, w, NoProposal, net[p][q], in)
      BY <1>1, <1>3, <2>1, <3>1, NotedTurn DEF RdvInv
    <3>3. QED
      BY <2>3, <3>2
  <2> DEFINE sp == prop[P][id]
             sq == prop[Q][id]
             lp == Mine(wallet[P], id)
             lq == Mine(wallet[Q], id)
  <2>7. ASSUME Calm' PROVE Deal(id, P, Q, sp, NoProposal, lp, Mine(w, id), in, net[Q][P])
    <3>1. Calm
      BY <2>3, <2>6, <2>7, CalmTurn
    <3>2. Deal(id, P, Q, sp, sq, lp, lq, net[P][Q], net[Q][P])
      BY <2>3, <3>1 DEF Ready, DealOf
    <3> HIDE DEF sp, sq, lp, lq
    <3>3. Deal(id, P, Q, sp, NoProposal, lp, {}, net[P][Q], net[Q][P])
      BY <3>2, ParticipantGone
    <3>4. Deal(id, P, Q, sp, NoProposal, lp, {}, in, net[Q][P])
      BY <1>1, <2>4, <3>3, FromProposerGone
    <3>5. QED
      BY <2>5, <3>4 DEF FreedIn
  <2>8. ASSUME Sure' PROVE Bound(id, Q, sp, NoProposal, in, net[Q][P])
    <3>1. Sure
      BY <2>3, <2>6, <2>8, SureTurn
    <3>2. /\ Deal(id, P, Q, sp, sq, lp, lq, net[P][Q], net[Q][P])
          /\ Bound(id, Q, sp, sq, net[P][Q], net[Q][P])
      BY <2>3, <3>1, SureFacts
    <3> HIDE DEF sp, sq, lp, lq
    <3>3. QED
      BY <1>1, <2>4, <3>2, BoundToldToGo
  <2>9. RdvInv'
    BY <2>3, <2>4, <2>5, <2>6, <2>7, <2>8, ParticipantTurn DEF Ready, FreedIn
  <2>10. QED
    BY <2>5, <2>6, <2>9, HoldingTurn DEF RdvInv, FreedIn
<1>4. QED
  BY <1>2, <1>3 DEF OnAbort, Drop

LEMMA OnCommitKeeps ==
    ASSUME RdvInv, Marked, NEW p \in Peers, NEW q \in Peers, OnCommit(p, q)
    PROVE  RdvInv' /\ PaysWhole
<1> DEFINE m == Head(net[q][p])
           id == m.id
           st == prop[p][id]
<1>1. /\ net[q][p] # <<>> /\ m.kind = "commit" /\ Taken(p, q) /\ Watch
      /\ UNCHANGED fresh /\ Cuts
      /\ budget' \in [counters: 0..MaxCounters, faults: 0..MaxFaults]
  BY DEF OnCommit, Gets, RdvInv, TypeOK, Cuts
<1>2. CASE UNCHANGED <<notes, prop>>
  BY <1>1, <1>2, WatchMeans, LetGoKeeps
<1>3. CASE /\ Live(p, id) /\ st.role = "participant" /\ st.myStatus = "accepted"
           /\ Note(p, ApplyCommit(wallet[p], p, st, m)) /\ Set(p, id, NoProposal)
  <2> DEFINE in == Tail(net[q][p])
             v == ApplyCommit(wallet[p], p, st, m)
             paid == m.givesToken
             got == m.getsToken
  <2>1. p # q /\ id \in Ids /\ Wired(p, q, id, net[p][q], in)
    BY <1>1, HandlerSituation
  <2>2. PICK P \in Peers, Q \in Peers : Handling(p, q, m, id, P, Q)
    BY <1>1, HandlerSituation
  <2> HIDE DEF m, id
  <2>3. Ready(id, P, Q) /\ P # Q /\ q = P /\ p = Q /\ m \in FromProposer(P, Q)
    BY <1>1, <2>2, SaidFacts DEF Handling
  <2>4. /\ Keeps(net[P][Q], in, id) /\ Took(net[P][Q], in, m, id)
        /\ AllIn(in, id, FromProposer(P, Q))
    BY <2>2, <2>3 DEF Handling
  <2>5. paid \in Notes /\ got \in Notes
    BY <1>1, <2>3, SaidFacts
  <2>6. st \in State(Q, P, Q) /\ Vowed(st) /\ IsLive(st) /\ Partner(Q, st) = P
    <3>1. st \in State(Q, P, Q)
      BY <1>3, <2>3 DEF Ready, Live
    <3>2. IsLive(st) /\ Partner(Q, st) = P
      BY <2>3, <3>1, StateFacts
    <3>3. QED
      BY <1>3, <3>1, <3>2 DEF Vowed
  <2>7. /\ v \in Wallet
        /\ Worth(got) = st.gives[P] => PaidFrom(wallet[Q], v, id, paid, got)
    <3>1. wallet[Q] \in Wallet /\ v = ApplyCommit(wallet[Q], Q, st, m)
      BY <2>3 DEF Ready
    <3> HIDE DEF st, v
    <3>2. /\ ApplyCommit(wallet[Q], Q, st, m) \in Wallet
          /\ Worth(m.getsToken) = st.gives[Partner(Q, st)]
                 => PaidFrom(wallet[Q], ApplyCommit(wallet[Q], Q, st, m), id, m.givesToken,
                             m.getsToken)
      BY <2>5, <3>1, CommitFacts
    <3>3. QED
      BY <2>6, <3>1, <3>2
  <2> HIDE DEF in
  <2>8. Note(p, v)
    BY <1>3
  <2> HIDE DEF v
  <2>9. Turn(Q, P, id, v, NoProposal, net[Q][P], in)
    <3>1. Turn(p, q, id, v, NoProposal, net[p][q], in)
      BY <1>1, <1>3, <2>1, <2>7, <2>8, NotedTurn DEF RdvInv
    <3>2. QED
      BY <2>3, <3>1
  <2> DEFINE sp == prop[P][id]
             lp == Mine(wallet[P], id)
             lq == Mine(wallet[Q], id)
  <2>10. ASSUME Calm'
         PROVE  /\ \A j : j # id => Mine(v, j) = Mine(wallet[Q], j)
                /\ Deal(id, P, Q, sp, NoProposal, lp, Mine(v, id), in, net[Q][P])
                /\ Worth(paid) = st.gives[Q] /\ Worth(got) = st.gives[P]
                /\ Holds(v) = (Holds(wallet[Q]) \ paid) \cup got
    <3>1. Calm /\ Separate(wallet[Q])
      BY <2>3, <2>9, <2>10, CalmTurn
    <3>2. Deal(id, P, Q, sp, st, lp, lq, net[P][Q], net[Q][P])
      BY <2>3, <3>1 DEF Ready, DealOf
    <3> HIDE DEF sp, lp, st
    <3>3. ~No(net[P][Q], id, "commit")
      BY <1>1, <2>4 DEF Took
    <3>4. CommitSays(net[P][Q], id, lq, st.gives[P])
      BY <2>6, <3>2, <3>3 DEF Deal, CommitsFit
    <3>5. lq = {paid} /\ Worth(got) = st.gives[P]
      BY <1>1, <2>4, <3>4 DEF Took
    <3>6. Worth(paid) = st.gives[Q]
      <4>1. PICK t \in Notes : lq = {t} /\ Worth(t) = st.gives[Q]
        BY <2>6, <3>2 DEF Deal, ParticipantBacked
      <4>2. QED
        BY <3>5, <4>1
    <3>7. /\ Mine(v, id) = {} /\ \A j : j # id => Mine(v, j) = Mine(wallet[Q], j)
          /\ Holds(v) = (Holds(wallet[Q]) \ paid) \cup got
      BY <2>7, <3>1, <3>5 DEF PaidFrom
    <3> HIDE DEF lq
    <3>8. Deal(id, P, Q, sp, NoProposal, lp, {}, net[P][Q], net[Q][P])
      BY <3>2, ParticipantGone
    <3>9. Deal(id, P, Q, sp, NoProposal, lp, {}, in, net[Q][P])
      BY <1>1, <2>4, <3>8, FromProposerGone
    <3>10. QED
      BY <3>5, <3>6, <3>7, <3>9
  <2>11. ASSUME Sure' PROVE Bound(id, Q, sp, NoProposal, in, net[Q][P])
    <3>1. Sure
      BY <2>3, <2>9, <2>11, SureTurn
    <3>2. /\ Deal(id, P, Q, sp, prop[Q][id], lp, lq, net[P][Q], net[Q][P])
          /\ Bound(id, Q, sp, prop[Q][id], net[P][Q], net[Q][P])
      BY <2>3, <3>1, SureFacts
    <3> HIDE DEF sp, lp, lq
    <3>3. QED
      BY <1>1, <2>4, <3>2, BoundToldToGo
  <2>12. RdvInv'
    BY <2>3, <2>4, <2>9, <2>10, <2>11, ParticipantTurn DEF Ready
  <2>13. PaysWhole
    <3>1. st = prop[Q][id] /\ Live(Q, id)
      BY <1>3, <2>3
    <3>2. ASSUME Calm'
          PROVE  \E x, y \in Notes :
                     /\ Worth(x) = prop[Q][id].gives[Q]
                     /\ Worth(y) = prop[Q][id].gives[Partner(Q, prop[Q][id])]
                     /\ Holds(v) = (Holds(wallet[Q]) \ x) \cup y
      BY <2>5, <2>6, <2>10, <3>1, <3>2
    <3>3. QED
      BY <2>1, <2>9, <3>1, <3>2, PayingTurn DEF RdvInv
  <2>14. QED
    BY <2>12, <2>13
<1>4. QED
  BY <1>2, <1>3 DEF OnCommit, Drop

LEMMA OnAcceptKeeps ==
    ASSUME RdvInv, Marked, NEW p \in Peers, NEW q \in Peers, OnAccept(p, q)
    PROVE  RdvInv' /\ PaysWhole
<1> DEFINE m == Head(net[q][p])
           id == m.id
           st == prop[p][id]
           now == [st EXCEPT !.accepted[q] = m.token]
           in == Tail(net[q][p])
<1>1. /\ net[q][p] # <<>> /\ m.kind = "accept" /\ Watch
      /\ UNCHANGED fresh /\ Cuts
      /\ budget' \in [counters: 0..MaxCounters, faults: 0..MaxFaults]
  BY DEF OnAccept, Gets, RdvInv, TypeOK, Cuts
<1>2. CASE Taken(p, q) /\ UNCHANGED <<notes, prop>>
  BY <1>1, <1>2, WatchMeans, LetGoKeeps
<1>3. ASSUME Live(p, id), Welcomes(st, q, m.token),
             IF AllAccepted(now)
             THEN /\ Note(p, ApplyCommit(wallet[p], p, now, CommitRow(now, p)))
                  /\ Set(p, id, NoProposal)
                  /\ Answered(p, q, Commit(now, id, q))
             ELSE Set(p, id, now) /\ Taken(p, q) /\ UNCHANGED notes
      PROVE  RdvInv' /\ PaysWhole
  <2>1. /\ p # q /\ id \in Ids
        /\ Taken(p, q) => Wired(p, q, id, net[p][q], in)
    BY <1>1, HandlerSituation
  <2>2. PICK P \in Peers, Q \in Peers : Handling(p, q, m, id, P, Q)
    BY <1>1, HandlerSituation
  <2>3. m.id = id /\ id = Head(net[q][p]).id
    OBVIOUS
  <2> HIDE DEF m, id
  <2>4. Ready(id, P, Q) /\ P # Q /\ q = Q /\ p = P /\ m \in FromParticipant(P, Q)
    BY <1>1, <2>2, SaidFacts DEF Handling
  <2>5. /\ Keeps(net[Q][P], in, id) /\ Took(net[Q][P], in, m, id)
        /\ AllIn(in, id, FromParticipant(P, Q))
    BY <2>2, <2>4 DEF Handling
  <2> DEFINE sq == prop[Q][id]
             lp == Mine(wallet[P], id)
             lq == Mine(wallet[Q], id)
  <2>6. m.token \in Notes
    BY <1>1, <2>4, SaidFacts
  <2>7. st = prop[P][id] /\ st \in State(P, P, Q) /\ IsLive(st) /\ Worth(m.token) = st.gives[Q]
    <3>1. st \in State(P, P, Q) /\ Worth(m.token) = st.gives[Q]
      BY <1>3, <2>4 DEF Ready, Live, Welcomes
    <3>2. IsLive(st)
      BY <2>4, <3>1, StateFacts
    <3>3. QED
      BY <2>4, <3>1, <3>2
  <2>8. /\ now \in State(P, P, Q) /\ now.gives = st.gives
        /\ now.accepted[Q] = m.token /\ now.accepted[P] = st.accepted[P]
    <3> HIDE DEF st
    <3>1. QED
      BY <2>4, <2>6, <2>7 DEF State
  <2> HIDE DEF now, in
  <2>9. IsLive(now)
    BY <2>4, <2>8, StateFacts
  <2>10. ASSUME Calm, Separate(wallet[P])
         PROVE  /\ Deal(id, P, Q, now, sq, lp, lq, net[P][Q], in)
                /\ Separate(wallet[P])
                /\ now.accepted[P] # Nothing => lp = {now.accepted[P]}
    <3>1. Deal(id, P, Q, st, sq, lp, lq, net[P][Q], net[Q][P])
      BY <2>4, <2>7, <2>10 DEF Ready, DealOf
    <3>2. AllIn(net[P][Q], id, {k \in Frame : k.kind \in {"propose", "counter", "commit", "abort"}})
      BY <2>4, ProposerKinds DEF Ready
    <3> HIDE DEF st, sq, lp, lq
    <3>3. Deal(id, P, Q, now, sq, lp, lq, net[P][Q], in)
      BY <1>1, <2>5, <2>7, <2>8, <2>9, <3>1, <3>2, AcceptHeard
    <3>4. now.accepted[P] # Nothing => lp = {now.accepted[P]}
      BY <2>9, <3>3 DEF Deal, ProposerBacked, Paid
    <3>5. QED
      BY <2>10, <3>3, <3>4
  <2>11. ASSUME Sure PROVE IsLive(sq) /\ Bound(id, Q, st, sq, net[P][Q], net[Q][P])
    <3>1. Bound(id, Q, st, sq, net[P][Q], net[Q][P])
      BY <2>4, <2>7, <2>11, SureFacts
    <3>2. ~No(net[Q][P], id, "accept")
      BY <1>1, <2>5 DEF Took
    <3>3. QED
      BY <2>7, <3>1, <3>2 DEF Bound
  <2>12. CASE AllAccepted(now)
    <3> DEFINE c == Commit(now, id, Q)
               v == ApplyCommit(wallet[P], P, now, CommitRow(now, P))
               A == Append(net[P][Q], c)
    <3>1. Note(P, v) /\ Set(P, id, NoProposal) /\ Answered(P, Q, c)
      BY <1>3, <2>4, <2>12
    <3>2. /\ c \in FromProposer(P, Q) /\ c.id = id /\ CommitRow(now, P).getsToken \in Notes
          /\ now.accepted[P] # Nothing
      <4>1. now.accepted[P] # Nothing
        BY <2>4, <2>8, <2>12, StateFacts
      <4>2. QED
        BY <2>1, <2>4, <2>8, <2>12, <4>1, CommitMade
    <3>3. v \in Wallet
      <4>1. wallet[P] \in Wallet
        BY <2>4 DEF Ready
      <4>2. QED
        BY <3>2, <4>1, CommitFacts
    <3> HIDE DEF c
    <3>4. c \in Frame
      BY <2>4, <3>2, ProposerSends
    <3>5. Wired(P, Q, id, A, in)
      <4>1. net[Q][P] # <<>> /\ c.id = Head(net[Q][P]).id
        BY <1>1, <2>3, <2>4, <3>2
      <4>2. Wired(P, Q, c.id, Append(net[P][Q], c), Tail(net[Q][P]))
        BY <2>4, <3>1, <3>4, <4>1, WiresAnswer DEF RdvInv
      <4>3. QED
        BY <2>4, <3>2, <4>2 DEF in
    <3> HIDE DEF v, A
    <3>6. Turn(P, Q, id, v, NoProposal, A, in)
      BY <1>1, <3>1, <3>3, <3>5, NotedTurn DEF RdvInv
    <3>7. ASSUME Calm'
          PROVE  /\ Deal(id, P, Q, now, sq, {now.accepted[P]}, lq, net[P][Q], in)
                 /\ Separate(wallet[P]) /\ Mine(wallet[P], id) = {now.accepted[P]}
                 /\ \A j : j # id => Mine(wallet[P], j) = Mine(wallet[P], j)
      <4>1. Calm /\ Separate(wallet[P])
        BY <2>4, <3>6, <3>7, CalmTurn
      <4>2. lp = {now.accepted[P]} /\ Deal(id, P, Q, now, sq, lp, lq, net[P][Q], in)
        BY <2>10, <3>2, <4>1
      <4>3. QED
        BY <4>1, <4>2
    <3>8. /\ v = ApplyCommit(wallet[P], P, now, CommitRow(now, P))
          /\ A = Append(net[P][Q], Commit(now, id, Q))
          /\ wallet[P] \in Wallet
      BY <2>4 DEF v, A, c, Ready
    <3>9. Sure' => IsLive(prop[Q][id])
      BY <2>4, <2>11, <3>6, SureTurn
    <3> HIDE DEF st
    <3>10. QED
      BY <2>1, <2>4, <2>5, <2>7, <2>8, <2>12, <3>6, <3>7, <3>8, <3>9, FinalizeKeeps
  <2>13. CASE ~AllAccepted(now)
    <3>1. Set(p, id, now) /\ Taken(p, q) /\ UNCHANGED notes
      BY <1>3, <2>13
    <3>2. Turn(P, Q, id, wallet[P], now, net[P][Q], in)
      <4>1. Turn(p, q, id, wallet[p], now, net[p][q], in)
        BY <1>1, <2>1, <3>1, UnnotedTurn DEF RdvInv
      <4>2. QED
        BY <2>4, <4>1
    <3>3. ASSUME Calm'
          PROVE  Deal(id, P, Q, now, prop[Q][id], Mine(wallet[P], id), Mine(wallet[Q], id),
                      net[P][Q], in)
      <4>1. Calm /\ Separate(wallet[P])
        BY <2>4, <3>2, <3>3, CalmTurn
      <4>2. QED
        BY <2>10, <4>1
    <3>4. ASSUME Sure' PROVE Bound(id, Q, now, prop[Q][id], net[P][Q], in)
      <4>1. Sure
        BY <2>4, <3>2, <3>4, SureTurn
      <4>2. Keeps(net[P][Q], net[P][Q], id)
        BY SameReflexive, SameKeeps
      <4>3. QED
        BY <2>11, <4>1, <4>2, BoundLive
    <3>5. RdvInv'
      BY <2>1, <2>4, <2>5, <2>8, <3>2, <3>3, <3>4, ProposerTurn DEF Ready
    <3>6. QED
      BY <3>2, <3>5, HoldingTurn DEF RdvInv
  <2>14. QED
    BY <2>12, <2>13
<1>4. QED
  BY <1>2, <1>3 DEF OnAccept, Drop

LEMMA OnCounterKeeps ==
    ASSUME RdvInv, Marked, NEW p \in Peers, NEW q \in Peers, OnCounter(p, q)
    PROVE  RdvInv' /\ PaysWhole
<1> DEFINE m == Head(net[q][p])
           id == m.id
           st == prop[p][id]
           now == [st EXCEPT !.gives = m.gives, !.myStatus = "pending",
                             !.accepted = Pair(p, Nothing, q, m.token)]
           in == Tail(net[q][p])
           w == ReleaseLockedFor(wallet[p], id)
<1>1. /\ net[q][p] # <<>> /\ m.kind = "counter" /\ Taken(p, q) /\ Watch
      /\ UNCHANGED fresh /\ Cuts
      /\ budget' \in [counters: 0..MaxCounters, faults: 0..MaxFaults]
  BY DEF OnCounter, Gets, RdvInv, TypeOK, Cuts
<1>2. CASE ~Live(p, id) /\ UNCHANGED <<notes, prop>>
  BY <1>1, <1>2, WatchMeans, LetGoKeeps
<1>3. CASE Live(p, id) /\ Note(p, w) /\ Set(p, id, now)
  <2>1. p # q /\ id \in Ids /\ Wired(p, q, id, net[p][q], in)
    BY <1>1, HandlerSituation
  <2>2. PICK P \in Peers, Q \in Peers : Handling(p, q, m, id, P, Q)
    BY <1>1, HandlerSituation
  <2> HIDE DEF m, id
  <2>3. Ready(id, P, Q) /\ P # Q /\ p \in {P, Q} /\ q \in {P, Q} /\ (p = P => q = Q) /\ (p = Q => q = P)
    BY <2>2 DEF Handling
  <2>4. /\ m.gives \in [{P, Q} -> Specs] /\ m.token \in Notes
        /\ p = P => Worth(m.token) = m.gives[Q]
    <3>1. CASE m \in FromProposer(P, Q) /\ p = Q
      BY <1>1, <2>3, <3>1, SaidFacts
    <3>2. CASE m \in FromParticipant(P, Q)
      BY <1>1, <2>3, <3>2, SaidFacts
    <3>3. QED
      BY <2>2, <3>1, <3>2 DEF Handling
  <2>5. st \in State(p, P, Q) /\ IsLive(st)
    <3>1. st \in State(p, P, Q)
      BY <1>3, <2>3 DEF Ready, Live
    <3>2. QED
      BY <2>3, <3>1, StateFacts
  <2>6. Renewed(P, Q, p, q, m.gives, "pending", Nothing, m.token, now)
    <3>1. m.token \in Notes \cup {Nothing} /\ Nothing \in Notes \cup {Nothing}
      BY <2>4
    <3>2. now = [st EXCEPT !.gives = m.gives, !.myStatus = "pending",
                           !.accepted = Pair(p, Nothing, q, m.token)]
      OBVIOUS
    <3> HIDE DEF now, st
    <3>3. QED
      BY <2>1, <2>3, <2>4, <2>5, <3>1, <3>2, NewTerms
  <2>7. FreedIn(wallet[p], w, id)
    BY <2>3, ReleaseFacts DEF Ready
  <2> HIDE DEF in, w, now
  <2>8. now \in State(p, P, Q) /\ IsLive(now) /\ now.myStatus = "pending" /\ now.gives = m.gives
        /\ now.accepted[p] = Nothing /\ now.accepted[q] = m.token
    BY <2>6 DEF Renewed
  <2>9. Turn(p, q, id, w, now, net[p][q], in)
    BY <1>1, <1>3, <2>1, <2>7, NotedTurn DEF RdvInv, FreedIn
  <2>10. ASSUME Calm' PROVE DealOf(id, P, Q)
    <3>1. Calm
      BY <2>1, <2>9, <2>10, CalmTurn
    <3>2. QED
      BY <2>3, <3>1 DEF Ready
  <2>11. Keeps(net[q][p], in, id) /\ Took(net[q][p], in, m, id)
    BY <2>2 DEF Handling, in
  <2> DEFINE sp == prop[P][id]
             sq == prop[Q][id]
             lp == Mine(wallet[P], id)
             lq == Mine(wallet[Q], id)
  <2>12. CASE p = Q /\ AllIn(in, id, FromProposer(P, Q))
    <3>1. q = P /\ now \in State(Q, P, Q) /\ Turn(Q, P, id, w, now, net[Q][P], in)
      BY <2>3, <2>8, <2>9, <2>12
    <3>2. ASSUME Calm' PROVE Deal(id, P, Q, sp, now, lp, {}, in, net[Q][P])
      <4>1. Deal(id, P, Q, sp, sq, lp, lq, net[P][Q], net[Q][P]) /\ IsLive(sq)
        BY <2>5, <2>10, <2>12, <3>2 DEF DealOf
      <4>2. Keeps(net[P][Q], in, id) /\ Took(net[P][Q], in, m, id)
        BY <2>11, <2>12, <3>1
      <4> HIDE DEF sp, sq, lp, lq, st
      <4>3. QED
        BY <1>1, <2>8, <4>1, <4>2, CounterHeard
    <3>3. ASSUME Calm'
          PROVE  /\ \A j : j # id => Mine(w, j) = Mine(wallet[Q], j)
                 /\ Deal(id, P, Q, prop[P][id], now, Mine(wallet[P], id), Mine(w, id), in, net[Q][P])
      BY <2>7, <2>12, <3>2, <3>3 DEF FreedIn
    <3>4. ASSUME Sure' PROVE Bound(id, Q, sp, now, in, net[Q][P])
      <4>1. Sure
        BY <2>3, <3>1, <3>4, SureTurn
      <4>2. Bound(id, Q, sp, sq, net[P][Q], net[Q][P]) /\ Keeps(net[P][Q], in, id)
        BY <2>3, <2>11, <2>12, <3>1, <4>1, SureFacts
      <4>3. QED
        BY <2>8, <4>2, BoundLive
    <3>5. RdvInv'
      BY <2>1, <2>3, <2>12, <3>1, <3>3, <3>4, ParticipantTurn DEF Ready
    <3>6. QED
      BY <2>7, <2>9, <3>5, HoldingTurn DEF RdvInv, FreedIn
  <2>13. CASE p = P /\ AllIn(in, id, FromParticipant(P, Q))
    <3>1. q = Q /\ now \in State(P, P, Q) /\ Turn(P, Q, id, w, now, net[P][Q], in)
      BY <2>3, <2>8, <2>9, <2>13
    <3>2. ASSUME Calm' PROVE Deal(id, P, Q, now, sq, {}, lq, net[P][Q], in)
      <4>1. Deal(id, P, Q, sp, sq, lp, lq, net[P][Q], net[Q][P]) /\ IsLive(sp)
        BY <2>5, <2>10, <2>13, <3>2 DEF DealOf
      <4>2. /\ Keeps(net[Q][P], in, id) /\ Took(net[Q][P], in, m, id)
            /\ now.accepted[P] = Nothing /\ now.accepted[Q] = m.token
            /\ Worth(m.token) = m.gives[Q]
        BY <2>4, <2>8, <2>11, <2>13, <3>1
      <4> HIDE DEF sp, sq, lp, lq, st
      <4>3. QED
        BY <1>1, <2>8, <4>1, <4>2, ProposerHeardCounter
    <3>3. ASSUME Calm'
          PROVE  /\ \A j : j # id => Mine(w, j) = Mine(wallet[P], j)
                 /\ Deal(id, P, Q, now, prop[Q][id], Mine(w, id), Mine(wallet[Q], id), net[P][Q], in)
      BY <2>7, <2>13, <3>2, <3>3 DEF FreedIn
    <3>4. ASSUME Sure' PROVE Bound(id, Q, now, sq, net[P][Q], in)
      <4>1. Sure
        BY <2>3, <3>1, <3>4, SureTurn
      <4>2. Bound(id, Q, sp, sq, net[P][Q], net[Q][P]) /\ IsLive(sp)
        BY <2>3, <2>5, <2>13, <4>1, SureFacts
      <4>3. IsLive(sq)
        BY <1>1, <2>11, <2>13, <3>1, <4>2 DEF Bound, Took
      <4>4. Keeps(net[P][Q], net[P][Q], id)
        BY SameReflexive, SameKeeps
      <4>5. QED
        BY <4>2, <4>3, <4>4, BoundLive
    <3>5. RdvInv'
      BY <2>1, <2>3, <2>13, <3>1, <3>3, <3>4, ProposerTurn DEF Ready
    <3>6. QED
      BY <2>7, <2>9, <3>5, HoldingTurn DEF RdvInv, FreedIn
  <2>14. QED
    BY <2>2, <2>12, <2>13 DEF Handling, in
<1>4. QED
  BY <1>2, <1>3 DEF OnCounter

LEMMA LoseKeeps ==
    ASSUME RdvInv, Marked, NEW p \in Peers, NEW q \in Peers, Lose(p, q)
    PROVE  RdvInv' /\ PaysWhole
<1> DEFINE m == Head(net[q][p])
<1>1. /\ net[q][p] # <<>> /\ Taken(p, q) /\ UNCHANGED notes /\ UNCHANGED prop /\ UNCHANGED fresh
      /\ cut' = (cut \/ m.kind = "commit") /\ astray' = (astray \/ m.kind = "counter")
      /\ Spend("faults")
  BY DEF Lose
<1>2. /\ net \in [Peers -> [Peers -> Seq(Frame)]]
      /\ cut \in BOOLEAN /\ astray \in BOOLEAN
  BY DEF RdvInv, TypeOK
<1> HIDE DEF m
<1>3. astray \/ Crossing(net') => astray'
  <2>1. ASSUME ~astray PROVE ~Crossing(net')
    <3>1. ~Crossing(net)
      BY <2>1 DEF RdvInv, NoCross
    <3>2. Range(Tail(net[q][p])) \subseteq Range(net[q][p])
      <4>1. net[q][p] \in Seq(Frame)
        BY <1>2
      <4>2. QED
        BY <1>1, <4>1, TailRange
    <3>3. \A r, s \in Peers : Range(net'[r][s]) \subseteq Range(net[r][s])
      <4> DEFINE in == Tail(net[q][p])
      <4>1. net' = [net EXCEPT ![q][p] = in]
        BY <1>1, <1>2 DEF Taken
      <4> HIDE DEF in
      <4>2. \A r, s \in Peers : net'[r][s] = net[r][s] \/ (r = q /\ s = p /\ net'[r][s] = in)
        BY <1>2, <4>1
      <4>3. QED
        BY <3>2, <4>2 DEF in
    <3>4. QED
      BY <3>1, <3>3, CrossingGrows
  <2>2. QED
    BY <1>1, <2>1
<1>4. budget' \in [counters: 0..MaxCounters, faults: 0..MaxFaults]
  BY <1>1, SpendType DEF RdvInv
<1>5. Calm' => m.kind # "counter"
  BY <1>1 DEF Calm
<1>6. Cuts /\ astray' \in BOOLEAN
  BY <1>1, <1>2 DEF Cuts
<1>7. m = Head(net[q][p])
  BY DEF m
<1>8. QED
  BY <1>1, <1>3, <1>4, <1>5, <1>6, <1>7, LetGoKeeps

-----------------------------------------------------------------------------
(* A page is reloaded: all its proposals end at once *)

LEMMA LoadFacts ==
    ASSUME NEW s \in Wallet
    PROVE  /\ LoadNotes(s) \in Wallet /\ LoadNotes(s).locked = {} /\ s.free \subseteq LoadNotes(s).free
           /\ \A id : Mine(LoadNotes(s), id) = {}
           /\ Holds(LoadNotes(s)) = Holds(s)
           /\ s.locked = {} => LoadNotes(s).free = s.free
<1> DEFINE w == LoadNotes(s)
           locks == {l.note : l \in s.locked}
<1>1. w = [free |-> s.free \cup locks, locked |-> {}]
  BY DEF LoadNotes
<1>2. locks \subseteq Notes /\ s.free \subseteq Notes
  BY DEF Wallet
<1>3. Holds(s) = UNION (s.free \cup locks) /\ (s.locked = {} => locks = {})
  BY DEF Holds
<1> HIDE DEF w, locks
<1>4. w \in Wallet /\ w.locked = {} /\ w.free = s.free \cup locks
  BY <1>1, <1>2 DEF Wallet
<1>5. \A id : Mine(w, id) = {}
  BY <1>4 DEF Mine
<1>6. Holds(w) = Holds(s)
  <2>1. {l.note : l \in w.locked} = {}
    BY <1>4
  <2>2. QED
    BY <1>3, <1>4, <2>1 DEF Holds
<1>7. QED
  BY <1>3, <1>4, <1>5, <1>6 DEF w

LEMMA ReloadKeeps ==
    ASSUME RdvInv, Marked, NEW p \in Peers, Reload(p)
    PROVE  RdvInv' /\ PaysWhole
<1> DEFINE loaded == LoadNotes(stored[p])
           none == [id \in Ids |-> NoProposal]
<1>1. /\ wallet \in [Peers -> Wallet] /\ stored \in [Peers -> Wallet]
      /\ \A r \in Peers : stored[r].free \subseteq wallet[r].free
      /\ prop \in [Peers -> [Ids -> Proposal \cup {NoProposal}]]
      /\ net \in [Peers -> [Peers -> Seq(Frame)]]
      /\ fresh \subseteq Ids /\ twice \in BOOLEAN /\ astray \in BOOLEAN /\ cut \in BOOLEAN
  BY DEF RdvInv, TypeOK
<1>2. /\ loaded \in Wallet /\ loaded.locked = {} /\ stored[p].free \subseteq loaded.free
      /\ \A id : Mine(loaded, id) = {}
      /\ Holds(loaded) = Holds(stored[p])
      /\ stored[p].locked = {} => loaded.free = stored[p].free
  BY <1>1, LoadFacts
<1> HIDE DEF loaded
<1>3. /\ wallet' = [wallet EXCEPT ![p] = loaded]
      /\ stored' = [stored EXCEPT ![p].locked = {}]
      /\ prop' = [prop EXCEPT ![p] = none]
      /\ cut' = (cut \/ \E id \in Ids : Promised(p, id))
      /\ astray' = (astray \/ ~(wallet[p].free \subseteq loaded.free))
      /\ Spend("faults") /\ net' = net /\ fresh' = fresh
  BY DEF Reload, loaded
<1>4. /\ wallet'[p] = loaded
      /\ \A r \in Peers : r # p => wallet'[r] = wallet[r]
  BY <1>1, <1>3
<1>5. /\ stored'[p] \in Wallet /\ stored'[p].locked = {} /\ stored'[p].free = stored[p].free
      /\ \A r \in Peers : r # p => stored'[r] = stored[r]
  <2>1. stored[p] \in Wallet
    BY <1>1
  <2>2. stored'[p] = [stored[p] EXCEPT !.locked = {}]
    BY <1>1, <1>3
  <2>3. stored'[p] \in Wallet /\ stored'[p].locked = {} /\ stored'[p].free = stored[p].free
    BY <2>1, <2>2 DEF Wallet
  <2>4. QED
    BY <1>1, <1>3, <2>3
<1>6. /\ \A id \in Ids : prop'[p][id] = NoProposal
      /\ \A r \in Peers, id \in Ids : r # p => prop'[r][id] = prop[r][id]
  BY <1>1, <1>3
<1>7. TypeOK'
  <2>1. wallet' \in [Peers -> Wallet] /\ prop' \in [Peers -> [Ids -> Proposal \cup {NoProposal}]]
    BY <1>1, <1>2, <1>3
  <2>2. stored' \in [Peers -> Wallet]
    <3>1. stored' = [stored EXCEPT ![p] = stored'[p]]
      BY <1>1, <1>3
    <3>2. QED
      BY <1>1, <1>5, <3>1
  <2>3. \A r \in Peers : stored'[r].free \subseteq wallet'[r].free
    BY <1>1, <1>2, <1>4, <1>5
  <2>4. budget' \in [counters: 0..MaxCounters, faults: 0..MaxFaults]
    BY <1>3, SpendType DEF RdvInv
  <2>5. twice' \in BOOLEAN /\ astray' \in BOOLEAN /\ cut' \in BOOLEAN
    BY <1>1, <1>3 DEF Marked
  <2>6. QED
    BY <1>1, <1>3, <2>1, <2>2, <2>3, <2>4, <2>5 DEF TypeOK
<1>8. Calm' => Calm
  BY <1>1, <1>3, CalmBefore
<1>9. ASSUME NEW id \in Ids
      PROVE  IF id \in fresh THEN Untouched(id)' ELSE \E P, Q \in Peers : Between(id, P, Q)'
  <2>1. CASE id \in fresh
    <3>1. Untouched(id)
      BY <2>1 DEF RdvInv, DealsInv
    <3>2. Untouched(id)'
      BY <1>2, <1>3, <1>4, <1>6, <1>8, <3>1 DEF Untouched
    <3>3. QED
      BY <2>1, <3>2
  <2>2. CASE id \notin fresh
    <3>1. PICK P \in Peers, Q \in Peers : Between(id, P, Q)
      BY <2>2 DEF RdvInv, DealsInv
    <3>2. P # Q /\ Roles(id, P, Q)' /\ Wires(id, P, Q)'
      BY <1>3, <1>6, <3>1, NoneIsNotLive DEF Between, Roles, Wires
    <3>3. ASSUME Calm' PROVE NoLocks(id, P, Q)' /\ DealOf(id, P, Q)'
      <4>1. NoLocks(id, P, Q) /\ DealOf(id, P, Q)
        BY <1>8, <3>1, <3>3 DEF Between
      <4>2. NoLocks(id, P, Q)'
        BY <1>2, <1>4, <4>1 DEF NoLocks
      <4> DEFINE sp == prop[P][id]
                 sq == prop[Q][id]
                 lp == Mine(wallet[P], id)
                 lq == Mine(wallet[Q], id)
      <4>3. Deal(id, P, Q, sp, sq, lp, lq, net[P][Q], net[Q][P])
        BY <4>1 DEF DealOf
      <4> HIDE DEF sp, sq, lp, lq
      <4>4. /\ Deal(id, P, Q, NoProposal, sq, {}, lq, net[P][Q], net[Q][P])
            /\ Deal(id, P, Q, sp, NoProposal, lp, {}, net[P][Q], net[Q][P])
        BY <4>3, ProposerGone, ParticipantGone
      <4>5. CASE p = P
        <5>1. /\ prop'[P][id] = NoProposal /\ prop'[Q][id] = sq
              /\ Mine(wallet'[P], id) = {} /\ Mine(wallet'[Q], id) = lq
          BY <1>2, <1>4, <1>6, <3>2, <4>5 DEF sq, lq
        <5>2. QED
          BY <1>3, <4>2, <4>4, <5>1 DEF DealOf
      <4>6. CASE p = Q
        <5>1. /\ prop'[P][id] = sp /\ prop'[Q][id] = NoProposal
              /\ Mine(wallet'[P], id) = lp /\ Mine(wallet'[Q], id) = {}
          BY <1>2, <1>4, <1>6, <3>2, <4>6 DEF sp, lp
        <5>2. QED
          BY <1>3, <4>2, <4>4, <5>1 DEF DealOf
      <4>7. CASE p # P /\ p # Q
        <5>1. /\ prop'[P][id] = sp /\ prop'[Q][id] = sq
              /\ Mine(wallet'[P], id) = lp /\ Mine(wallet'[Q], id) = lq
          BY <1>4, <1>6, <4>7 DEF sp, sq, lp, lq
        <5>2. QED
          BY <1>3, <4>2, <4>3, <5>1 DEF DealOf
      <4>8. QED
        BY <4>5, <4>6, <4>7
    <3>4. ASSUME Sure' PROVE BoundOf(id, P, Q)'
      <4> DEFINE sp == prop[P][id]
                 sq == prop[Q][id]
                 lp == Mine(wallet[P], id)
                 lq == Mine(wallet[Q], id)
                 A == net[P][Q]
                 B == net[Q][P]
      <4>1. Sure /\ ~\E j \in Ids : Promised(p, j)
        BY <1>3, <1>8, <3>4 DEF Sure
      <4>2. Deal(id, P, Q, sp, sq, lp, lq, A, B) /\ Bound(id, Q, sp, sq, A, B)
        BY <3>1, <4>1 DEF Between, DealOf, BoundOf, Sure
      <4>3. p = Q => ~Vowed(sq)
        BY <4>1 DEF Promised, Live, Vowed, IsLive
      <4> HIDE DEF sp, sq, lp, lq
      <4>4. p = Q => Bound(id, Q, sp, NoProposal, A, B)
        BY <4>2, <4>3, BoundParticipantGone
      <4>5. Bound(id, Q, NoProposal, sq, A, B)
        BY <4>2, BoundProposerGone
      <4>6. Bound(id, Q, prop'[P][id], prop'[Q][id], A, B)
        <5>1. CASE p = P
          BY <1>6, <3>2, <4>5, <5>1 DEF sq
        <5>2. CASE p = Q
          BY <1>6, <3>2, <4>4, <5>2 DEF sp
        <5>3. CASE p # P /\ p # Q
          BY <1>6, <4>2, <5>3 DEF sp, sq
        <5>4. QED
          BY <5>1, <5>2, <5>3
      <4>7. QED
        BY <1>3, <4>6 DEF BoundOf
    <3>5. Between(id, P, Q)'
      BY <3>2, <3>3, <3>4 DEF Between
    <3>6. QED
      BY <2>2, <3>5
  <2>3. QED
    BY <2>1, <2>2
<1>10. NoCross' /\ SeparateInv'
  BY <1>3 DEF RdvInv, NoCross, SeparateInv, Marked
<1>11. StoreInv'
  <2>1. ASSUME ~astray', NEW r \in Peers PROVE Saved(wallet'[r], stored'[r])
    <3>1. CASE r = p
      BY <1>2, <1>4, <1>5, <3>1 DEF Saved
    <3>2. CASE r # p
      BY <1>3, <1>4, <1>5, <2>1, <3>2 DEF RdvInv, StoreInv
    <3>3. QED
      BY <3>1, <3>2
  <2>2. QED
    BY <2>1 DEF StoreInv
<1>12. PaysWhole
  <2>1. ASSUME ~astray' PROVE Holds(loaded) = Holds(wallet[p])
    <3>1. Saved(wallet[p], stored[p]) /\ wallet[p].free \subseteq loaded.free
      BY <1>3, <2>1 DEF RdvInv, StoreInv
    <3>2. CASE stored[p] = wallet[p]
      BY <1>2, <3>2
    <3>3. CASE wallet[p].locked = {} /\ stored[p].locked = {} /\ stored[p].free \subseteq wallet[p].free
      BY <1>2, <3>1, <3>3 DEF Holds
    <3>4. QED
      BY <3>1, <3>2, <3>3 DEF Saved
  <2>2. \A r \in Peers : r # p => HeldBy(r)' = HeldBy(r)
    BY <1>4, HeldMeans
  <2>3. ~astray' => HeldBy(p)' = HeldBy(p)
    BY <1>4, <2>1, HeldMeans
  <2>4. QED
    BY <2>2, <2>3 DEF PaysWhole, SwapsWhole
<1>13. QED
  BY <1>3, <1>7, <1>9, <1>10, <1>11, <1>12 DEF RdvInv, DealsInv

-----------------------------------------------------------------------------
(* The theorems *)

LEMMA RdvInit == Init => RdvInv
<1> SUFFICES ASSUME Init PROVE RdvInv
  OBVIOUS
<1>1. /\ wallet = [p \in Peers |-> [free |-> Purses[p], locked |-> {}]] /\ stored = wallet
      /\ prop = [p \in Peers |-> [id \in Ids |-> NoProposal]]
      /\ net = [p \in Peers |-> [q \in Peers |-> <<>>]]
      /\ fresh = Ids
      /\ astray = FALSE /\ cut = FALSE /\ twice = FALSE
      /\ budget = [counters |-> MaxCounters, faults |-> MaxFaults]
  BY DEF Init
<1>2. Purses \in [Peers -> SUBSET Notes] /\ MaxCounters \in Nat /\ MaxFaults \in Nat
  BY BearerNotesAssumption
<1>3. wallet \in [Peers -> Wallet]
  BY <1>1, <1>2 DEF Wallet
<1>4. TypeOK
  <2>1. net \in [Peers -> [Peers -> Seq(Frame)]]
    BY <1>1
  <2>2. prop \in [Peers -> [Ids -> Proposal \cup {NoProposal}]]
    BY <1>1
  <2>3. budget \in [counters: 0..MaxCounters, faults: 0..MaxFaults]
    BY <1>1, <1>2
  <2>4. QED
    BY <1>1, <1>3, <2>1, <2>2, <2>3 DEF TypeOK
<1>5. DealsInv
  <2>1. ASSUME NEW id \in Ids PROVE Untouched(id)
    <3>1. \A p \in Peers : prop[p][id] = NoProposal /\ wallet[p].locked = {}
      BY <1>1
    <3>2. \A p, q \in Peers : Silent(net[p][q], id)
      <4>1. \A p, q \in Peers : net[p][q] = <<>>
        BY <1>1
      <4>2. Silent(<<>>, id)
        BY DEF Silent
      <4>3. QED
        BY <4>1, <4>2
    <3>3. QED
      BY <3>1, <3>2 DEF Untouched, Mine
  <2>2. QED
    BY <1>1, <2>1 DEF DealsInv
<1>6. NoCross
  <2>1. \A p, q \in Peers : Range(net[p][q]) = {}
    <3>1. \A p, q \in Peers : net[p][q] = <<>>
      BY <1>1
    <3>2. Range(<<>>) = {}
      BY DEF Range
    <3>3. QED
      BY <3>1, <3>2
  <2>2. QED
    BY <2>1 DEF NoCross, Crossing
<1>7. SeparateInv
  <2>1. ASSUME NEW p \in Peers PROVE Separate(wallet[p])
    <3>1. wallet[p].free = Purses[p] /\ wallet[p].locked = {} /\ wallet[p] \in Wallet
      BY <1>1, <1>3
    <3>2. \A m, n \in Purses[p] : m # n => m \cap n = {}
      <4>1. ASSUME NEW m \in Purses[p], NEW n \in Purses[p], NEW c, c \in m, c \in n PROVE m = n
        <5>1. c \in Coins
          <6>1. m \in Notes
            BY <1>2
          <6>2. QED
            BY <4>1, <6>1 DEF Notes
        <5>2. QED
          BY <4>1, <5>1, BearerNotesAssumption
      <4>2. QED
        BY <4>1
    <3>3. SeparateMeans(wallet[p])
      BY <3>1, <3>2 DEF SeparateMeans
    <3>4. QED
      BY <3>1, <3>3, SeparateNotes
  <2>2. QED
    BY <2>1 DEF SeparateInv
<1>8. StoreInv
  BY <1>1 DEF StoreInv, Saved
<1>9. QED
  BY <1>4, <1>5, <1>6, <1>7, <1>8 DEF RdvInv

LEMMA RdvStays == RdvInv /\ UNCHANGED vars => RdvInv' /\ PaysWhole
<1> SUFFICES ASSUME RdvInv, UNCHANGED vars PROVE RdvInv' /\ PaysWhole
  OBVIOUS
<1>1. /\ wallet' = wallet /\ stored' = stored /\ prop' = prop /\ net' = net /\ fresh' = fresh
      /\ astray' = astray /\ cut' = cut /\ twice' = twice /\ budget' = budget
  BY DEF vars, notes
<1>2. TypeOK'
  BY <1>1 DEF RdvInv, TypeOK
<1>3. DealsInv'
  <2>1. Calm' = Calm /\ Sure' = Sure
    BY <1>1 DEF Calm, Sure
  <2>2. /\ \A id : Untouched(id)' = Untouched(id)
        /\ \A id, P, Q : /\ Roles(id, P, Q)' = Roles(id, P, Q) /\ Wires(id, P, Q)' = Wires(id, P, Q)
                         /\ NoLocks(id, P, Q)' = NoLocks(id, P, Q)
                         /\ DealOf(id, P, Q)' = DealOf(id, P, Q)
                         /\ BoundOf(id, P, Q)' = BoundOf(id, P, Q)
    BY <1>1, <2>1 DEF Untouched, Roles, Wires, NoLocks, DealOf, BoundOf
  <2>3. \A id, P, Q : Between(id, P, Q) => Between(id, P, Q)'
    BY <2>1, <2>2 DEF Between
  <2>4. QED
    BY <1>1, <2>2, <2>3 DEF RdvInv, DealsInv
<1>4. NoCross' /\ SeparateInv' /\ StoreInv'
  BY <1>1 DEF RdvInv, NoCross, SeparateInv, StoreInv
<1>5. PaysWhole
  BY <1>1, HeldMeans DEF PaysWhole, SwapsWhole
<1>6. QED
  BY <1>2, <1>3, <1>4, <1>5 DEF RdvInv

LEMMA RdvStep == RdvInv /\ [Next]_vars => RdvInv' /\ PaysWhole
<1> SUFFICES ASSUME RdvInv, [Next]_vars PROVE RdvInv' /\ PaysWhole
  OBVIOUS
<1>1. CASE UNCHANGED vars
  BY <1>1, RdvStays
<1>2. CASE Next
  <2>1. Marked
    BY <1>2 DEF Next, Marked
  <2>2. ASSUME NEW p \in Peers, NEW id \in Ids, NEW give \in Specs, NEW get \in Specs,
               \/ \E q \in Peers : Swap(p, q, id, give, get)
               \/ Counter(p, id, give, get)
               \/ CounterFails(p, id, give, get)
        PROVE  RdvInv' /\ PaysWhole
    BY <2>1, <2>2, SwapKeeps, CounterKeeps, CounterFailsKeeps
  <2>3. ASSUME NEW p \in Peers, NEW id \in Ids,
               \/ AcceptAsParticipant(p, id) \/ AcceptAsProposer(p, id)
               \/ Reject(p, id) \/ Abort(p, id)
               \/ ProposalTimedOut(p, id)
        PROVE  RdvInv' /\ PaysWhole
    BY <2>1, <2>3, AcceptKeeps, AcceptAsProposerKeeps, RejectKeeps, AbortKeeps, TimeoutKeeps
  <2>4. ASSUME NEW p \in Peers, NEW q \in Peers,
               \/ OnPropose(p, q) \/ OnAccept(p, q) \/ OnReject(p, q)
               \/ OnCommit(p, q) \/ OnAbort(p, q) \/ OnCounter(p, q)
               \/ Lose(p, q)
        PROVE  RdvInv' /\ PaysWhole
    BY <2>1, <2>4, OnProposeKeeps, OnAcceptKeeps, OnRejectKeeps, OnCommitKeeps, OnAbortKeeps,
       OnCounterKeeps, LoseKeeps
  <2>5. ASSUME NEW p \in Peers, Reload(p) PROVE RdvInv' /\ PaysWhole
    BY <2>1, <2>5, ReloadKeeps
  <2>6. QED
    BY <1>2, <2>2, <2>3, <2>4, <2>5 DEF Next
<1>3. QED
  BY <1>1, <1>2

\* Every behaviour of rendezvous.ts and its handlers keeps the inductive invariant: the types,
\* what each proposal says of its two peers and the frames between them, that no coin is in
\* two notes of a wallet, and that storage is memory but for what the last reload freed.
THEOREM RdvInvariant == Spec => []RdvInv
<1>1. RdvInv /\ [Next]_vars => RdvInv'
  BY RdvStep
<1>2. QED
  BY <1>1, RdvInit, PTL DEF Spec

\* The types of rendezvous.ts's records and of the frames it exchanges.
THEOREM RdvTypes == Spec => []TypeOK
<1>1. RdvInv => TypeOK
  BY DEF RdvInv
<1>2. QED
  BY <1>1, RdvInvariant, PTL

LEMMA OneLock ==
    ASSUME NEW w \in Wallet, NEW id
    PROVE  LET mine == {l \in w.locked : l.id = id}
           IN  /\ Mine(w, id) = {} => mine = {}
               /\ \A t : Mine(w, id) = {t} => \E l \in mine : mine = {l} /\ l.note = t
<1> DEFINE mine == {l \in w.locked : l.id = id}
<1>1. Mine(w, id) = {l.note : l \in mine}
  BY DEF Mine
<1>2. \A l \in mine : l = [note |-> l.note, id |-> id]
  BY DEF Wallet
<1> HIDE DEF mine
<1>3. Mine(w, id) = {} => mine = {}
  BY <1>1
<1>4. ASSUME NEW t, Mine(w, id) = {t} PROVE \E l \in mine : mine = {l} /\ l.note = t
  <2>1. PICK l \in mine : l.note = t
    BY <1>1, <1>4
  <2>2. \A k \in mine : k.note = t
    BY <1>1, <1>4
  <2>3. \A k \in mine : k = l
    BY <1>2, <2>1, <2>2
  <2>4. QED
    BY <2>1, <2>3
<1>5. QED
  BY <1>3, <1>4 DEF mine

LEMMA InvLocksBack == RdvInv => LocksBackPromises
<1> SUFFICES ASSUME RdvInv, Calm, NEW p \in Peers
             PROVE  /\ \A l \in wallet[p].locked : Live(p, l.id)
                    /\ \A id \in Ids :
                           LET st == prop[p][id]
                               mine == {l \in wallet[p].locked : l.id = id}
                           IN  Live(p, id) =>
                                   IF Promised(p, id)
                                      \/ (st.role = "proposer" /\ st.accepted[p] # Nothing)
                                   THEN \E l \in mine : mine = {l} /\ Worth(l.note) = st.gives[p]
                                   ELSE mine = {}
  BY DEF LocksBackPromises, Calm
<1>1. wallet[p] \in Wallet
  BY DEF RdvInv, TypeOK
<1>2. ASSUME NEW l \in wallet[p].locked PROVE Live(p, l.id)
  <2> DEFINE id == l.id
  <2>1. id \in Ids /\ Mine(wallet[p], id) # {}
    BY <1>1 DEF Wallet, Mine
  <2> HIDE DEF id
  <2>2. id \notin fresh
    BY <2>1 DEF RdvInv, DealsInv, Untouched
  <2>3. PICK P \in Peers, Q \in Peers : Between(id, P, Q)
    BY <2>1, <2>2 DEF RdvInv, DealsInv
  <2>4. p = P \/ p = Q
    BY <2>1, <2>3 DEF Between, NoLocks
  <2>5. /\ ProposerBacked(P, prop[P][id], Mine(wallet[P], id))
        /\ ParticipantBacked(Q, prop[Q][id], Mine(wallet[Q], id))
    BY <2>3 DEF Between, DealOf, Deal
  <2>6. IsLive(prop[p][id])
    <3>1. CASE p = P
      BY <2>1, <2>5, <3>1 DEF ProposerBacked, Paid
    <3>2. CASE p = Q
      BY <2>1, <2>5, <3>2 DEF ParticipantBacked, Vowed
    <3>3. QED
      BY <2>4, <3>1, <3>2
  <2>7. QED
    BY <2>6 DEF Live, IsLive, id
<1>3. ASSUME NEW id \in Ids, Live(p, id)
      PROVE  LET st == prop[p][id]
                 mine == {l \in wallet[p].locked : l.id = id}
             IN  IF Promised(p, id) \/ (st.role = "proposer" /\ st.accepted[p] # Nothing)
                 THEN \E l \in mine : mine = {l} /\ Worth(l.note) = st.gives[p]
                 ELSE mine = {}
  <2> DEFINE st == prop[p][id]
             mine == {l \in wallet[p].locked : l.id = id}
  <2>1. PICK P \in Peers, Q \in Peers :
            /\ Ready(id, P, Q)
            /\ \/ p = P /\ st \in State(P, P, Q) /\ st.role = "proposer"
               \/ p = Q /\ st \in State(Q, P, Q) /\ st.role = "participant"
    BY <1>3, LiveSituation
  <2>2. /\ ProposerBacked(P, prop[P][id], Mine(wallet[P], id))
        /\ ParticipantBacked(Q, prop[Q][id], Mine(wallet[Q], id))
    BY <2>1 DEF Ready, DealOf, Deal
  <2>3. /\ Mine(wallet[p], id) = {} => mine = {}
        /\ \A t : Mine(wallet[p], id) = {t} => \E l \in mine : mine = {l} /\ l.note = t
    BY <1>1, OneLock
  <2>4. IsLive(st)
    BY <1>3 DEF Live, IsLive
  <2> HIDE DEF mine
  <2>5. CASE p = P /\ st.role = "proposer"
    <3>1. ~Promised(p, id)
      BY <2>5 DEF Promised
    <3>2. CASE st.accepted[p] # Nothing
      <4>1. /\ Mine(wallet[p], id) = {st.accepted[p]} /\ Worth(st.accepted[p]) = st.gives[p]
        BY <2>2, <2>4, <2>5, <3>2 DEF ProposerBacked, Paid
      <4>2. PICK l \in mine : mine = {l} /\ l.note = st.accepted[p]
        BY <2>3, <4>1
      <4>3. \E k \in mine : mine = {k} /\ Worth(k.note) = st.gives[p]
        BY <4>1, <4>2
      <4>4. QED
        BY <2>5, <3>2, <4>3 DEF mine
    <3>3. CASE st.accepted[p] = Nothing
      <4>1. Mine(wallet[p], id) = {}
        BY <2>2, <2>5, <3>3 DEF ProposerBacked, Paid
      <4>2. QED
        BY <2>3, <3>1, <3>3, <4>1 DEF mine
    <3>4. QED
      BY <3>2, <3>3
  <2>6. CASE p = Q /\ st.role = "participant"
    <3>1. Promised(p, id) <=> Vowed(st)
      BY <1>3, <2>4, <2>6 DEF Promised, Vowed
    <3>2. CASE Vowed(st)
      <4>1. PICK t \in Notes : Mine(wallet[p], id) = {t} /\ Worth(t) = st.gives[p]
        BY <2>2, <2>6, <3>2 DEF ParticipantBacked
      <4>2. \E l \in mine : mine = {l} /\ Worth(l.note) = st.gives[p]
        BY <2>3, <4>1
      <4>3. QED
        BY <3>1, <3>2, <4>2 DEF mine
    <3>3. CASE ~Vowed(st)
      <4>1. Mine(wallet[p], id) = {}
        BY <2>2, <2>6, <3>3 DEF ParticipantBacked
      <4>2. QED
        BY <2>3, <2>6, <3>1, <3>3, <4>1 DEF mine
    <3>4. QED
      BY <3>2, <3>3
  <2>7. QED
    BY <2>1, <2>5, <2>6
<1>4. QED
  BY <1>2, <1>3

\* app.ts:2119-2130: whatever is proposed, countered, accepted, lost, timed out or reloaded, a
\* live acceptance is backed by exactly the note it promised, and no note stays locked for a
\* proposal that is gone.
THEOREM LocksBack == Spec => []LocksBackPromises
BY RdvInvariant, InvLocksBack, PTL

\* AtomicSwapDemo.md:229: in every step of every run, a wallet that gives a note gets what its
\* proposal says it gets for it, in the same step, and nothing else.
THEOREM NobodyPaysAloneEver == Spec => NobodyPaysAlone
<1>1. RdvInv /\ [Next]_vars => PaysWhole
  BY RdvStep
<1>2. QED
  BY <1>1, RdvInvariant, PTL DEF Spec, NobodyPaysAlone

-----------------------------------------------------------------------------
(* Where every coin is: with a peer that owes it to nobody, or on its way in one commit *)

Commits(s) == {m \in Range(s) : m.kind = "commit"}
Given(p) == UNION {m.givesToken : m \in Due(p)}
Kept(p) == HeldBy(p) \ Given(p)

\* K is what each peer keeps, D are the commits each one is due.
Books(K, D) ==
    /\ \A c \in Coins : (\E p \in Peers : c \in K[p])
                        \/ \E p \in Peers : \E m \in D[p] : c \in m.getsToken
    /\ \A p, q \in Peers : p # q => K[p] \cap K[q] = {}
    /\ \A p, q \in Peers : \A m \in D[q] : K[p] \cap m.getsToken = {}
    /\ \A p, q \in Peers : \A m \in D[p], n \in D[q] :
           (p = q /\ m = n) \/ m.getsToken \cap n.getsToken = {}
Keeping == [p \in Peers |-> Kept(p)]
Coming == [p \in Peers |-> Due(p)]
Balanced == Books(Keeping, Coming)

\* A commit is the only one of its proposal, and takes what its participant has locked.
DuesBacked ==
    \A p \in Peers : \A m \in Due(p) :
        /\ m.id \in Ids /\ m.givesToken \in Notes /\ m.getsToken \in Notes
        /\ Mine(wallet[p], m.id) = {m.givesToken}
        /\ \A n \in Due(p) : n.id = m.id => n = m

LEMMA BalancedIsWhole == Balanced => HoldOnce(WillHold)
<1> SUFFICES ASSUME Balanced, NEW c \in Coins
             PROVE  \E p \in Peers : \A q \in Peers : c \in WillHold(q) <=> q = p
  BY DEF HoldOnce
<1> DEFINE K == Keeping
           D == Coming
<1>1. Books(K, D)
  BY DEF Balanced
<1>2. \A p \in Peers : c \in WillHold(p) <=> c \in K[p] \/ \E m \in D[p] : c \in m.getsToken
  BY DEF WillHold, Keeping, Kept, Given, Coming
<1> HIDE DEF K, D
<1>3. CASE \E p \in Peers : c \in K[p]
  <2>1. PICK p \in Peers : c \in K[p]
    BY <1>3
  <2>2. \A q \in Peers : q # p => c \notin K[q]
    BY <1>1, <2>1 DEF Books
  <2>3. \A q \in Peers : \A m \in D[q] : c \notin m.getsToken
    BY <1>1, <2>1 DEF Books
  <2>4. QED
    BY <1>2, <2>1, <2>2, <2>3
<1>4. CASE \E p \in Peers : \E m \in D[p] : c \in m.getsToken
  <2>1. PICK p \in Peers : \E m \in D[p] : c \in m.getsToken
    BY <1>4
  <2>2. PICK m \in D[p] : c \in m.getsToken
    BY <2>1
  <2>3. \A q \in Peers : c \notin K[q]
    BY <1>1, <2>2 DEF Books
  <2>4. \A q \in Peers : \A n \in D[q] : c \in n.getsToken => q = p
    BY <1>1, <2>2 DEF Books
  <2>5. QED
    BY <1>2, <2>2, <2>3, <2>4
<1>5. QED
  BY <1>1, <1>3, <1>4 DEF Books

\* Finalize: P gives m's note for what Q, to whom m says so, has locked; and m arrives.
LEMMA BooksFinalized ==
    ASSUME NEW K, NEW D, NEW K2, NEW D2, Books(K, D),
           NEW P \in Peers, NEW Q \in Peers, P # Q, NEW m,
           m.getsToken \subseteq K[P], m.givesToken \subseteq K[Q],
           K2[P] = (K[P] \ m.getsToken) \cup m.givesToken, K2[Q] = K[Q] \ m.givesToken,
           \A r \in Peers : r # P /\ r # Q => K2[r] = K[r],
           D2[Q] = D[Q] \cup {m}, \A r \in Peers : r # Q => D2[r] = D[r]
    PROVE  Books(K2, D2)
<1>1. /\ \A c \in Coins : (\E p \in Peers : c \in K[p])
                          \/ \E p \in Peers : \E n \in D[p] : c \in n.getsToken
      /\ \A p, q \in Peers : p # q => K[p] \cap K[q] = {}
      /\ \A p, q \in Peers : \A n \in D[q] : K[p] \cap n.getsToken = {}
      /\ \A p, q \in Peers : \A n \in D[p], l \in D[q] :
             (p = q /\ n = l) \/ n.getsToken \cap l.getsToken = {}
  BY DEF Books
<1>2. \A p \in Peers : \A n \in D2[p] : n \in D[p] \/ (p = Q /\ n = m)
  OBVIOUS
<1>3. \A p \in Peers : \A n \in D[p] : n \in D2[p]
  OBVIOUS
<1>4. \A p, c : p \in Peers /\ c \in K2[p] =>
          \/ p = P /\ c \in m.givesToken
          \/ c \in K[p] /\ (p = P => c \notin m.getsToken) /\ (p = Q => c \notin m.givesToken)
  OBVIOUS
<1>5. \A c \in Coins : (\E p \in Peers : c \in K2[p])
                       \/ \E p \in Peers : \E n \in D2[p] : c \in n.getsToken
  <2>1. ASSUME NEW c \in Coins, NEW p \in Peers, c \in K[p], NEW n, n = m
        PROVE  (\E q \in Peers : c \in K2[q]) \/ c \in n.getsToken
    <3>1. CASE c \in m.givesToken
      BY <3>1
    <3>2. CASE c \notin m.givesToken /\ c \notin m.getsToken
      <4>1. c \in K2[p]
        BY <2>1, <3>2
      <4>2. QED
        BY <4>1
    <3>3. QED
      BY <2>1, <3>1, <3>2
  <2>2. m \in D2[Q]
    OBVIOUS
  <2>3. QED
    BY <1>1, <1>3, <2>1, <2>2
<1>6. \A p, q \in Peers : p # q => K2[p] \cap K2[q] = {}
  <2>1. ASSUME NEW p \in Peers, NEW q \in Peers, p # q, NEW c, c \in K2[p], c \in K2[q]
        PROVE  FALSE
    <3>1. c \in K[p] => c \notin K[q]
      BY <1>1, <2>1
    <3>2. c \in m.givesToken => c \in K[Q] /\ \A r \in Peers : c \in K[r] => r = Q
      BY <1>1
    <3>3. QED
      BY <1>4, <2>1, <3>1, <3>2
  <2>2. QED
    BY <2>1
<1>7. \A p, q \in Peers : \A n \in D2[q] : K2[p] \cap n.getsToken = {}
  <2>1. ASSUME NEW p \in Peers, NEW q \in Peers, NEW n \in D2[q], NEW c, c \in K2[p],
               c \in n.getsToken
        PROVE  FALSE
    <3>1. c \in m.givesToken => c \in K[Q]
      OBVIOUS
    <3>2. PICK r \in Peers : c \in K[r] /\ (c \in m.getsToken => r # P)
      <4>1. c \in m.givesToken => c \notin m.getsToken
        BY <1>1
      <4>2. QED
        BY <1>4, <2>1, <3>1, <4>1
    <3>3. CASE n \in D[q]
      BY <1>1, <2>1, <3>2, <3>3
    <3>4. CASE n = m
      BY <1>1, <2>1, <3>2, <3>4
    <3>5. QED
      BY <1>2, <3>3, <3>4
  <2>2. QED
    BY <2>1
<1>8. \A p, q \in Peers : \A n \in D2[p], l \in D2[q] :
          (p = q /\ n = l) \/ n.getsToken \cap l.getsToken = {}
  <2>1. \A q \in Peers : \A n \in D[q] : m.getsToken \cap n.getsToken = {}
    BY <1>1
  <2>2. QED
    BY <1>1, <1>2, <2>1
<1>9. QED
  BY <1>5, <1>6, <1>7, <1>8 DEF Books

\* The commit m is applied by Q.
LEMMA BooksApplied ==
    ASSUME NEW K, NEW D, NEW K2, NEW D2, Books(K, D), NEW Q \in Peers, NEW m, m \in D[Q],
           K2[Q] = K[Q] \cup m.getsToken, \A r \in Peers : r # Q => K2[r] = K[r],
           D2[Q] = D[Q] \ {m}, \A r \in Peers : r # Q => D2[r] = D[r]
    PROVE  Books(K2, D2)
<1>1. /\ \A c \in Coins : (\E p \in Peers : c \in K[p])
                          \/ \E p \in Peers : \E n \in D[p] : c \in n.getsToken
      /\ \A p, q \in Peers : p # q => K[p] \cap K[q] = {}
      /\ \A p, q \in Peers : \A n \in D[q] : K[p] \cap n.getsToken = {}
      /\ \A p, q \in Peers : \A n \in D[p], l \in D[q] :
             (p = q /\ n = l) \/ n.getsToken \cap l.getsToken = {}
  BY DEF Books
<1>2. \A p \in Peers : \A n \in D2[p] : n \in D[p] /\ ~(p = Q /\ n = m)
  OBVIOUS
<1>3. \A p, c : p \in Peers => (c \in K2[p] <=> c \in K[p] \/ (p = Q /\ c \in m.getsToken))
  OBVIOUS
<1>4. \A c \in Coins : (\E p \in Peers : c \in K2[p])
                       \/ \E p \in Peers : \E n \in D2[p] : c \in n.getsToken
  <2>1. ASSUME NEW c \in Coins, NEW p \in Peers, NEW n \in D[p], c \in n.getsToken
        PROVE  c \in K2[Q] \/ n \in D2[p]
    BY <2>1
  <2>2. QED
    BY <1>1, <1>3, <2>1
<1>5. \A p, q \in Peers : p # q => K2[p] \cap K2[q] = {}
  BY <1>1, <1>3
<1>6. \A p, q \in Peers : \A n \in D2[q] : K2[p] \cap n.getsToken = {}
  BY <1>1, <1>2, <1>3
<1>7. \A p, q \in Peers : \A n \in D2[p], l \in D2[q] :
          (p = q /\ n = l) \/ n.getsToken \cap l.getsToken = {}
  BY <1>1, <1>2
<1>8. QED
  BY <1>4, <1>5, <1>6, <1>7 DEF Books

LEMMA CommitsMean ==
    ASSUME NEW s \in Seq(Frame)
    PROVE  \A m : m \in Commits(s) <=> \E i \in 1..Len(s) : m = s[i] /\ m.kind = "commit"
<1>1. DOMAIN s = 1..Len(s)
  BY LenProperties
<1>2. QED
  BY <1>1 DEF Commits, Range

LEMMA CommitsSent ==
    ASSUME NEW s \in Seq(Frame), NEW m
    PROVE  Commits(Append(s, m)) = Commits(s) \cup {n \in {m} : n.kind = "commit"}
<1> DEFINE t == Append(s, m)
           S == Frame \cup {m}
<1>1. s \in Seq(S) /\ m \in S
  OBVIOUS
<1> HIDE DEF S
<1>2. /\ t \in Seq(S) /\ Len(s) \in Nat /\ Len(t) = Len(s) + 1 /\ t[Len(s) + 1] = m
      /\ \A i \in 1..Len(s) : t[i] = s[i]
  BY <1>1, AppendProperties
<1> HIDE DEF t
<1>3. DOMAIN s = 1..Len(s) /\ DOMAIN t = 1..Len(t)
  BY <1>1, <1>2, LenProperties
<1>4. Range(t) = Range(s) \cup {m}
  <2>1. \A i \in DOMAIN t : i \in DOMAIN s \/ i = Len(s) + 1
    BY <1>2, <1>3
  <2>2. (\A i \in DOMAIN s : i \in DOMAIN t) /\ Len(s) + 1 \in DOMAIN t
    BY <1>2, <1>3
  <2>3. QED
    BY <1>2, <1>3, <2>1, <2>2 DEF Range
<1>5. QED
  BY <1>4 DEF Commits, t

LEMMA CommitsTaken ==
    ASSUME NEW s \in Seq(Frame), s # <<>>
    PROVE  Commits(s) = Commits(Tail(s)) \cup {n \in {Head(s)} : n.kind = "commit"}
<1> DEFINE t == Tail(s)
<1>1. /\ t \in Seq(Frame) /\ Head(s) = s[1] /\ 1 \in 1..Len(s)
      /\ \A i \in 1..Len(t) : i + 1 \in 1..Len(s) /\ t[i] = s[i + 1]
      /\ \A i \in 1..Len(s) : i = 1 \/ (i - 1 \in 1..Len(t) /\ (i - 1) + 1 = i)
  BY TailReads
<1> HIDE DEF t
<1>2. /\ \A n : n \in Commits(s) <=> \E i \in 1..Len(s) : n = s[i] /\ n.kind = "commit"
      /\ \A n : n \in Commits(t) <=> \E i \in 1..Len(t) : n = t[i] /\ n.kind = "commit"
  BY <1>1, CommitsMean
<1>3. \A n : n \in Commits(s) <=> n \in Commits(t) \/ (n = Head(s) /\ n.kind = "commit")
  <2>1. \A i \in 1..Len(s) : s[i] = Head(s) \/ \E j \in 1..Len(t) : s[i] = t[j]
    <3>1. ASSUME NEW i \in 1..Len(s), i # 1 PROVE \E j \in 1..Len(t) : s[i] = t[j]
      <4>1. i - 1 \in 1..Len(t) /\ t[i - 1] = s[(i - 1) + 1] /\ (i - 1) + 1 = i
        BY <1>1, <3>1
      <4>2. QED
        BY <4>1
    <3>2. QED
      BY <1>1, <3>1
  <2>2. ASSUME NEW n \in Commits(s) PROVE n \in Commits(t) \/ (n = Head(s) /\ n.kind = "commit")
    <3>1. PICK i \in 1..Len(s) : n = s[i] /\ n.kind = "commit"
      BY <1>2
    <3>2. QED
      BY <1>2, <2>1, <3>1
  <2>3. ASSUME NEW n \in Commits(t) PROVE n \in Commits(s)
    <3>1. PICK i \in 1..Len(t) : n = t[i] /\ n.kind = "commit"
      BY <1>2
    <3>2. i + 1 \in 1..Len(s) /\ n = s[i + 1]
      BY <1>1, <3>1
    <3>3. QED
      BY <1>2, <3>1, <3>2
  <2>4. Head(s).kind = "commit" => Head(s) \in Commits(s)
    BY <1>1, <1>2
  <2>5. QED
    BY <2>2, <2>3, <2>4
<1>4. QED
  BY <1>3 DEF t

LEMMA CommitSent ==
    ASSUME NEW m, m.kind = "commit", NEW s \in Seq(Frame)
    PROVE  Commits(Append(s, m)) = Commits(s) \cup {m}
<1>1. Commits(Append(s, m)) = Commits(s) \cup {n \in {m} : n.kind = "commit"}
  BY CommitsSent
<1>2. {n \in {m} : n.kind = "commit"} = {m}
  OBVIOUS
<1>3. QED
  BY <1>1, <1>2

LEMMA DueMeans ==
    /\ \A p, m : m \in Due(p) <=> \E q \in Peers : m \in Commits(net[q][p])
    /\ \A p, m : m \in Due(p)' <=> \E q \in Peers : m \in Commits(net'[q][p])
BY DEF Due, Commits

\* A commit of a proposal of P to Q is on its way to Q only.
LEMMA CommitsGoOneWay ==
    ASSUME RdvInv, NEW id, NEW P \in Peers, NEW Q \in Peers, Ready(id, P, Q),
           NEW r \in Peers, NEW q \in Peers, NEW m \in Commits(net[r][q]), m.id = id
    PROVE  r = P /\ q = Q /\ m \in FromProposer(P, Q)
<1>1. net[r][q] \in Seq(Frame)
  BY DEF RdvInv, TypeOK
<1>2. PICK i \in 1..Len(net[r][q]) : m = net[r][q][i] /\ m.kind = "commit"
  BY <1>1, CommitsMean
<1>3. P # Q /\ m \in Said(r, q, P, Q)
  BY <1>2 DEF Ready, Between, Wires, AllIn
<1>4. m \notin FromParticipant(P, Q)
  <2>1. \A k \in FromParticipant(P, Q) : k.kind \in {"accept", "counter", "reject"}
    BY <1>3, SaidFacts
  <2>2. QED
    BY <1>2, <2>1
<1>5. QED
  BY <1>3, <1>4 DEF Said

LEMMA DuesAreBacked == RdvInv /\ Sure => DuesBacked
<1> SUFFICES ASSUME RdvInv, Sure, NEW Q \in Peers, NEW m \in Due(Q)
             PROVE  /\ m.id \in Ids /\ m.givesToken \in Notes /\ m.getsToken \in Notes
                    /\ Mine(wallet[Q], m.id) = {m.givesToken}
                    /\ \A n \in Due(Q) : n.id = m.id => n = m
  BY DEF DuesBacked
<1>1. PICK r \in Peers : m \in Commits(net[r][Q])
  BY DueMeans
<1> DEFINE s == net[r][Q]
           id == m.id
<1>2. s \in Seq(Frame)
  BY DEF RdvInv, TypeOK
<1>3. PICK i \in 1..Len(s) : m = s[i] /\ m.kind = "commit"
  BY <1>1, <1>2, CommitsMean
<1>4. ~Silent(s, id) /\ ~No(s, id, "commit")
  BY <1>3 DEF Silent, No
<1>5. id \in Ids
  <2>1. m \in Frame
    BY <1>2, <1>3
  <2>2. \A k \in Frame : k.id \in Ids
    BY DEF Frame
  <2>3. QED
    BY <2>1, <2>2
<1> HIDE DEF s, id
<1>6. id \notin fresh
  BY <1>4, <1>5 DEF RdvInv, DealsInv, Untouched, s
<1>7. PICK P \in Peers, S \in Peers : Between(id, P, S)
  BY <1>5, <1>6 DEF RdvInv, DealsInv
<1>8. Ready(id, P, S)
  BY <1>5, <1>6, <1>7, BetweenIsReady
<1>9. r = P /\ Q = S /\ P # Q /\ m \in FromProposer(P, Q)
  BY <1>1, <1>8, CommitsGoOneWay DEF id, Ready
<1> DEFINE sp == prop[P][id]
           sq == prop[Q][id]
           lp == Mine(wallet[P], id)
           lq == Mine(wallet[Q], id)
           B == net[Q][P]
<1>10. Deal(id, P, Q, sp, sq, lp, lq, s, B) /\ Bound(id, Q, sp, sq, s, B)
  BY <1>8, <1>9, SureFacts DEF s
<1> HIDE DEF sp, sq, lp, lq, B
<1>11. IsLive(sq)
  BY <1>4, <1>10 DEF Bound
<1>12. Alone(s, id, "commit") /\ CommitSays(s, id, lq, sq.gives[P])
  BY <1>4, <1>10, <1>11 DEF Deal, CommitsFit
<1>13. lq = {m.givesToken}
  BY <1>3, <1>12 DEF CommitSays, id
<1>14. ASSUME NEW n \in Due(Q), n.id = id PROVE n = m
  <2>1. PICK t \in Peers : n \in Commits(net[t][Q])
    BY DueMeans
  <2>2. n \in Commits(s)
    <3>1. Ready(id, P, Q)
      BY <1>8, <1>9
    <3>2. t = P
      BY <1>14, <2>1, <3>1, CommitsGoOneWay
    <3>3. QED
      BY <1>9, <2>1, <3>2 DEF s
  <2>3. PICK j \in 1..Len(s) : n = s[j] /\ n.kind = "commit"
    BY <1>2, <2>2, CommitsMean
  <2>4. i = j
    BY <1>3, <1>12, <1>14, <2>3 DEF Alone, id
  <2>5. QED
    BY <1>3, <2>3, <2>4
<1>15. m.givesToken \in Notes /\ m.getsToken \in Notes
  BY <1>3, <1>9, SaidFacts
<1>16. QED
  BY <1>5, <1>13, <1>14, <1>15 DEF lq, id

LEMMA DuesStayBacked == RdvInv' /\ Sure' => DuesBacked'
BY DuesAreBacked, PTL

\* A coin that one note of a wallet has is in no other.
LEMMA NotesApart ==
    ASSUME NEW w \in Wallet, Separate(w), NEW i, NEW j, i # j,
           NEW m \in Mine(w, i), NEW n \in Mine(w, j)
    PROVE  m \cap n = {}
<1>1. SeparateMeans(w)
  BY SeparateNotes
<1>2. PICK k \in w.locked : k.id = i /\ k.note = m
  BY MineMeans
<1>3. PICK l \in w.locked : l.id = j /\ l.note = n
  BY MineMeans
<1>4. QED
  BY <1>1, <1>2, <1>3 DEF SeparateMeans

LEMMA FreeApart ==
    ASSUME NEW w \in Wallet, Separate(w), NEW m \in w.free, NEW j, NEW n \in Mine(w, j)
    PROVE  m \cap n = {}
<1>1. SeparateMeans(w)
  BY SeparateNotes
<1>2. PICK l \in w.locked : l.id = j /\ l.note = n
  BY MineMeans
<1>3. QED
  BY <1>1, <1>2 DEF SeparateMeans

LEMMA MineIsHeld == \A w, id : \A n \in Mine(w, id) : n \subseteq Holds(w)
BY MineMeans DEF Holds

\* A step in which no coin moves.
SameHolds == \A r \in Peers : HeldBy(r)' = HeldBy(r)
SameDues == \A r, q \in Peers : Commits(net'[r][q]) = Commits(net[r][q])

LEMMA StillBalanced == SameHolds /\ SameDues /\ Balanced => Balanced'
<1> SUFFICES ASSUME SameHolds, SameDues, Balanced PROVE Balanced'
  OBVIOUS
<1>1. \A p \in Peers : Due(p)' = Due(p)
  <2>1. ASSUME NEW p \in Peers PROVE \A m : m \in Due(p)' <=> m \in Due(p)
    BY DueMeans DEF SameDues
  <2>2. QED
    BY <2>1
<1>2. \A p \in Peers : Kept(p)' = Kept(p)
  BY <1>1 DEF Kept, Given, SameHolds
<1>3. Keeping' = Keeping /\ Coming' = Coming
  BY <1>1, <1>2 DEF Keeping, Coming
<1>4. QED
  BY <1>3 DEF Balanced

LEMMA NotedHolds ==
    ASSUME TypeOK, NEW p \in Peers, NEW w, Holds(w) = Holds(wallet[p]), Note(p, w)
    PROVE  SameHolds
<1>1. \A r \in Peers : wallet'[r] = IF r = p THEN w ELSE wallet[r]
  BY DEF TypeOK, Note
<1>2. QED
  BY <1>1, HeldMeans DEF SameHolds

LEMMA FreedHolds ==
    ASSUME TypeOK, NEW p \in Peers, NEW id, Note(p, ReleaseLockedFor(wallet[p], id))
    PROVE  SameHolds
<1>1. FreedIn(wallet[p], ReleaseLockedFor(wallet[p], id), id)
  BY ReleaseFacts DEF TypeOK
<1>2. QED
  BY <1>1, NotedHolds DEF FreedIn

LEMMA UnnotedHolds == UNCHANGED notes => SameHolds
BY HeldMeans DEF notes, SameHolds

LEMMA SentDues ==
    ASSUME TypeOK, NEW p \in Peers, NEW q, NEW m, m.kind # "commit", Send(p, q, m)
    PROVE  SameDues
<1>1. ASSUME NEW r \in Peers, NEW s \in Peers
      PROVE  net'[r][s] = IF r = p /\ s = q THEN Append(net[r][s], m) ELSE net[r][s]
  BY DEF TypeOK, Send
<1>2. ASSUME NEW s \in Seq(Frame) PROVE Commits(Append(s, m)) = Commits(s)
  <2>1. Commits(Append(s, m)) = Commits(s) \cup {n \in {m} : n.kind = "commit"}
    BY CommitsSent
  <2>2. {n \in {m} : n.kind = "commit"} = {}
    OBVIOUS
  <2>3. QED
    BY <2>1, <2>2
<1>3. QED
  BY <1>1, <1>2 DEF SameDues, TypeOK

LEMMA TakenDues ==
    ASSUME TypeOK, NEW p \in Peers, NEW q \in Peers, net[q][p] # <<>>,
           Head(net[q][p]).kind # "commit", Taken(p, q)
    PROVE  SameDues
<1>1. ASSUME NEW r \in Peers, NEW s \in Peers
      PROVE  net'[r][s] = IF r = q /\ s = p THEN Tail(net[r][s]) ELSE net[r][s]
  BY DEF TypeOK, Taken
<1>2. Commits(Tail(net[q][p])) = Commits(net[q][p])
  <2> DEFINE s == net[q][p]
  <2>1. s \in Seq(Frame)
    BY DEF TypeOK
  <2>2. Commits(s) = Commits(Tail(s)) \cup {n \in {Head(s)} : n.kind = "commit"}
    BY <2>1, CommitsTaken
  <2>3. {n \in {Head(s)} : n.kind = "commit"} = {}
    OBVIOUS
  <2>4. QED
    BY <2>2, <2>3
<1>3. QED
  BY <1>1, <1>2 DEF SameDues

LEMMA UnsentDues == UNCHANGED net => SameDues
BY DEF SameDues

\* The commands that move no coin.
LEMMA SwapStill ==
    ASSUME RdvInv, NEW p \in Peers, NEW q \in Peers, NEW id \in Ids, NEW give \in Specs, NEW get,
           Swap(p, q, id, give, get)
    PROVE  SameHolds /\ SameDues
<1>1. TypeOK /\ wallet[p] \in Wallet
  BY DEF RdvInv, TypeOK
<1>2. PICK l \in Lockings(wallet[p], give, id) :
          /\ Note(p, l.wallet)
          /\ \E m : m.kind = "propose" /\ Send(p, q, m)
  BY DEF Swap
<1>3. Holds(l.wallet) = Holds(wallet[p])
  BY <1>1, LockingFacts DEF LockedIn
<1>4. SameHolds
  BY <1>1, <1>2, <1>3, NotedHolds
<1>5. QED
  BY <1>1, <1>2, <1>4, SentDues

LEMMA AcceptStill ==
    ASSUME RdvInv, NEW p \in Peers, NEW id \in Ids, AcceptAsParticipant(p, id)
    PROVE  SameHolds /\ SameDues
<1>1. TypeOK /\ wallet[p] \in Wallet
  BY DEF RdvInv, TypeOK
<1>2. prop[p][id].gives[p] \in Specs
  <2>1. Live(p, id)
    BY DEF AcceptAsParticipant
  <2>2. QED
    BY <2>1, LiveSituation, StateFacts DEF Ready
<1>3. PICK l \in Lockings(wallet[p], prop[p][id].gives[p], id) :
          /\ Note(p, l.wallet)
          /\ \E m : m.kind = "accept" /\ Send(p, prop[p][id].proposer, m)
  BY DEF AcceptAsParticipant
<1>4. Holds(l.wallet) = Holds(wallet[p])
  BY <1>1, <1>2, LockingFacts DEF LockedIn
<1>5. SameHolds
  BY <1>1, <1>3, <1>4, NotedHolds
<1>6. QED
  BY <1>1, <1>3, <1>5, SentDues

LEMMA CounterStill ==
    ASSUME RdvInv, NEW p \in Peers, NEW id \in Ids, NEW give \in Specs, NEW get,
           Counter(p, id, give, get)
    PROVE  SameHolds /\ SameDues
<1> DEFINE v == ReleaseLockedFor(wallet[p], id)
<1>1. TypeOK /\ wallet[p] \in Wallet
  BY DEF RdvInv, TypeOK
<1>2. PICK l \in Lockings(v, give, id) :
          /\ Note(p, l.wallet)
          /\ \E q, m : m.kind = "counter" /\ Send(p, q, m)
  BY DEF Counter
<1>3. v \in Wallet /\ Holds(v) = Holds(wallet[p])
  BY <1>1, ReleaseFacts DEF FreedIn
<1> HIDE DEF v
<1>4. Holds(l.wallet) = Holds(v)
  BY <1>3, LockingFacts DEF LockedIn
<1>5. SameHolds
  BY <1>1, <1>2, <1>3, <1>4, NotedHolds
<1>6. QED
  BY <1>1, <1>2, <1>5, SentDues

LEMMA RejectStill ==
    ASSUME RdvInv, NEW p \in Peers, NEW id \in Ids, Reject(p, id)
    PROVE  SameHolds /\ SameDues
<1>1. TypeOK
  BY DEF RdvInv
<1>2. Note(p, wallet[p]) /\ \E q, m : m.kind = "reject" /\ Send(p, q, m)
  BY DEF Reject
<1>3. QED
  BY <1>1, <1>2, NotedHolds, SentDues

LEMMA AbortStill ==
    ASSUME RdvInv, NEW p \in Peers, NEW id \in Ids, Abort(p, id)
    PROVE  SameHolds /\ SameDues
<1>1. TypeOK
  BY DEF RdvInv
<1>2. /\ Note(p, ReleaseLockedFor(wallet[p], id))
      /\ \E q, m : m.kind = "abort" /\ Send(p, q, m)
  BY DEF Abort
<1>3. QED
  BY <1>1, <1>2, FreedHolds, SentDues

LEMMA TimeoutStill ==
    ASSUME RdvInv, NEW p \in Peers, NEW id \in Ids, ProposalTimedOut(p, id)
    PROVE  SameHolds /\ SameDues
<1>1. TypeOK
  BY DEF RdvInv
<1>2. /\ Note(p, ReleaseLockedFor(wallet[p], id))
      /\ (\E q, m : m.kind = "abort" /\ Send(p, q, m)) \/ UNCHANGED net
  BY DEF ProposalTimedOut
<1>3. QED
  BY <1>1, <1>2, FreedHolds, SentDues, UnsentDues

\* The frames that move no coin.
LEMMA FrameStill ==
    ASSUME RdvInv, NEW p \in Peers, NEW q \in Peers,
           OnPropose(p, q) \/ OnReject(p, q) \/ OnAbort(p, q) \/ OnCounter(p, q)
    PROVE  SameHolds /\ SameDues
<1>1. TypeOK
  BY DEF RdvInv
<1>2. net[q][p] # <<>> /\ Head(net[q][p]).kind # "commit" /\ Taken(p, q)
  BY DEF OnPropose, OnReject, OnAbort, OnCounter, Gets
<1>3. \/ Note(p, wallet[p]) \/ UNCHANGED notes
      \/ \E id : Note(p, ReleaseLockedFor(wallet[p], id))
  BY DEF OnPropose, OnReject, OnAbort, OnCounter
<1>4. SameHolds
  BY <1>1, <1>3, NotedHolds, FreedHolds, UnnotedHolds
<1>5. QED
  BY <1>1, <1>2, <1>4, TakenDues

LEMMA LoseStill ==
    ASSUME RdvInv, NEW p \in Peers, NEW q \in Peers, Lose(p, q), Sure'
    PROVE  SameHolds /\ SameDues
<1>1. TypeOK
  BY DEF RdvInv
<1>2. net[q][p] # <<>> /\ Head(net[q][p]).kind # "commit" /\ Taken(p, q) /\ UNCHANGED notes
  BY DEF Lose, Sure
<1>3. QED
  BY <1>1, <1>2, TakenDues, UnnotedHolds

LEMMA ReloadStill ==
    ASSUME RdvInv, NEW p \in Peers, Reload(p), Sure'
    PROVE  SameHolds /\ SameDues
<1> DEFINE loaded == LoadNotes(stored[p])
<1>1. /\ wallet \in [Peers -> Wallet] /\ stored[p] \in Wallet
      /\ astray' = (astray \/ ~(wallet[p].free \subseteq loaded.free))
      /\ wallet' = [wallet EXCEPT ![p] = loaded] /\ UNCHANGED net
  BY DEF RdvInv, TypeOK, Reload
<1>2. /\ Holds(loaded) = Holds(stored[p])
      /\ loaded.locked = {} /\ stored[p].locked = {} => loaded.free = stored[p].free
  BY <1>1, LoadFacts
<1> HIDE DEF loaded
<1>3. ~astray' /\ ~astray
  BY <1>1 DEF Sure, Calm
<1>4. Holds(loaded) = Holds(wallet[p])
  <2>1. Saved(wallet[p], stored[p]) /\ wallet[p].free \subseteq loaded.free
    BY <1>1, <1>3 DEF RdvInv, StoreInv
  <2>2. loaded.locked = {}
    BY <1>1, LoadFacts DEF loaded
  <2>3. CASE stored[p] = wallet[p]
    BY <1>2, <2>3
  <2>4. CASE wallet[p].locked = {} /\ stored[p].locked = {} /\ stored[p].free \subseteq wallet[p].free
    BY <1>2, <2>1, <2>2, <2>4 DEF Holds
  <2>5. QED
    BY <2>1, <2>3, <2>4 DEF Saved
<1>5. \A r \in Peers : wallet'[r] = IF r = p THEN loaded ELSE wallet[r]
  BY <1>1
<1>6. SameHolds
  BY <1>4, <1>5, HeldMeans DEF SameHolds
<1>7. QED
  BY <1>1, <1>6, UnsentDues

LEMMA GivenMeans ==
    /\ \A p, c : c \in Given(p) <=> \E m \in Due(p) : c \in m.givesToken
    /\ \A p, c : c \in Given(p)' <=> \E m \in Due(p)' : c \in m.givesToken
    /\ \A p : Kept(p) = HeldBy(p) \ Given(p) /\ Kept(p)' = HeldBy(p)' \ Given(p)'
BY DEF Given, Kept

\* Nothing is due of a proposal whose proposer still has it open.
LEMMA NothingDueYet ==
    ASSUME RdvInv, Sure, NEW P \in Peers, NEW Q \in Peers, NEW id, Ready(id, P, Q),
           IsLive(prop[P][id]), NEW s \in Peers, NEW n \in Due(s)
    PROVE  n.id # id
<1> SUFFICES ASSUME n.id = id PROVE FALSE
  OBVIOUS
<1>1. PICK r \in Peers : n \in Commits(net[r][s])
  BY DueMeans
<1>2. r = P /\ s = Q
  BY <1>1, CommitsGoOneWay
<1>3. Deal(id, P, Q, prop[P][id], prop[Q][id], Mine(wallet[P], id), Mine(wallet[Q], id),
           net[P][Q], net[Q][P])
  BY SureFacts
<1>4. No(net[P][Q], id, "commit") /\ net[P][Q] \in Seq(Frame)
  BY <1>3 DEF Deal, EndsLast, Ready
<1>5. QED
  BY <1>1, <1>2, <1>4, CommitsMean DEF No

\* w is P's wallet with the note paid locked for id; the commit m is put on the wire to Q.
Funded(w, id, P, paid) ==
    /\ w \in Wallet /\ Holds(w) = Holds(wallet[P]) /\ Separate(w) /\ Mine(w, id) = {paid}
    /\ \A j : j # id => Mine(w, j) = Mine(wallet[P], j)
Posted(P, Q, m) ==
    \A r, s \in Peers :
        Commits(net'[r][s]) = Commits(net[r][s]) \cup {n \in {m} : r = P /\ s = Q}

\* Who has accepted what the other put in, and holds its own note in w, finalizes.
LEMMA FinalizePays ==
    ASSUME RdvInv, RdvInv', Sure, Sure', Balanced,
           NEW P \in Peers, NEW Q \in Peers, NEW id \in Ids, Ready(id, P, Q), IsLive(prop[P][id]),
           NEW now \in State(P, P, Q), AllAccepted(now), Worth(now.accepted[Q]) = now.gives[Q],
           NEW w, Funded(w, id, P, now.accepted[P]),
           Note(P, ApplyCommit(w, P, now, CommitRow(now, P))), Posted(P, Q, Commit(now, id, Q))
    PROVE  Balanced'
<1> DEFINE m == Commit(now, id, Q)
           v == ApplyCommit(w, P, now, CommitRow(now, P))
           paid == now.accepted[P]
           got == now.accepted[Q]
<1>1. P # Q
  BY DEF Ready
<1>2. /\ m.id = id /\ m.givesToken = got /\ m.getsToken = paid
      /\ paid \in Notes /\ got \in Notes
      /\ CommitRow(now, P).givesToken = paid /\ CommitRow(now, P).getsToken = got
  BY <1>1, CommitMade
<1> HIDE DEF m
<1>3. Partner(P, now) = Q /\ Worth(got) = now.gives[Q]
  BY <1>1, StateFacts
<1>4. /\ Holds(v) = (Holds(wallet[P]) \ paid) \cup got /\ got \in v.free
      /\ wallet' = [wallet EXCEPT ![P] = v]
  <2>1. Worth(CommitRow(now, P).getsToken) = now.gives[Partner(P, now)]
    BY <1>2, <1>3
  <2>2. PaidFrom(w, v, id, paid, got)
    BY <1>2, <2>1, CommitFacts DEF Funded
  <2>3. got \in v.free
    BY <1>2, <2>1 DEF ApplyCommit
  <2>4. QED
    BY <2>2, <2>3 DEF PaidFrom, Note, Funded
<1> HIDE DEF v, paid, got
<1>5. /\ wallet'[P] = v /\ v \in Wallet
      /\ \A r \in Peers : r # P => wallet'[r] = wallet[r]
      /\ \A r \in Peers : Separate(wallet'[r]) /\ wallet'[r] \in Wallet
  <2>1. wallet \in [Peers -> Wallet] /\ wallet' \in [Peers -> Wallet]
    BY DEF RdvInv, TypeOK
  <2>2. \A r \in Peers : Separate(wallet'[r])
    BY DEF RdvInv, SeparateInv, Sure, Calm
  <2>3. QED
    BY <1>4, <2>1, <2>2
<1>6. /\ \A r \in Peers : r # Q => Due(r)' = Due(r)
      /\ Due(Q)' = Due(Q) \cup {m}
  <2>1. \A r, s \in Peers : \A n : n \in Commits(net'[r][s]) <=>
            n \in Commits(net[r][s]) \/ (n = m /\ r = P /\ s = Q)
    BY DEF Posted, m
  <2>2. \A s \in Peers : \A n : n \in Due(s)' <=> n \in Due(s) \/ (n = m /\ s = Q)
    BY <2>1, DueMeans
  <2>3. QED
    BY <2>2
<1>7. DuesBacked /\ DuesBacked'
  BY DuesAreBacked, DuesStayBacked
<1>8. \A s \in Peers : \A n \in Due(s) : n.id # id
  BY NothingDueYet
<1>9. ASSUME NEW n \in Due(P) PROVE paid \cap n.givesToken = {} /\ got \cap n.givesToken = {}
  <2>1. n.id # id /\ Mine(wallet[P], n.id) = {n.givesToken}
    BY <1>7, <1>8 DEF DuesBacked
  <2>2. /\ paid \in Mine(w, id) /\ n.givesToken \in Mine(w, n.id)
        /\ w \in Wallet /\ Separate(w)
    BY <2>1 DEF Funded, paid
  <2>3. paid \cap n.givesToken = {}
    BY <2>1, <2>2, NotesApart
  <2>4. n \in Due(P)'
    BY <1>1, <1>6
  <2>5. Mine(wallet'[P], n.id) = {n.givesToken}
    BY <1>7, <2>4 DEF DuesBacked
  <2>6. got \cap n.givesToken = {}
    BY <1>4, <1>5, <2>5, FreeApart
  <2>7. QED
    BY <2>3, <2>6
<1>10. Mine(wallet'[Q], id) = {got}
  BY <1>2, <1>6, <1>7 DEF DuesBacked
<1>11. ASSUME NEW n \in Due(Q) PROVE got \cap n.givesToken = {}
  <2>1. n.id # id /\ n \in Due(Q)'
    BY <1>6, <1>8
  <2>2. Mine(wallet'[Q], n.id) = {n.givesToken}
    BY <1>7, <2>1 DEF DuesBacked
  <2>3. QED
    BY <1>5, <1>10, <2>1, <2>2, NotesApart
<1>12. /\ HeldBy(P)' = (HeldBy(P) \ paid) \cup got
       /\ \A r \in Peers : r # P => HeldBy(r)' = HeldBy(r)
       /\ paid \subseteq HeldBy(P) /\ got \subseteq HeldBy(Q)
  <2>1. paid \subseteq Holds(wallet[P]) /\ got \subseteq Holds(wallet'[Q])
    BY <1>10, MineIsHeld DEF Funded, paid
  <2>2. QED
    BY <1>1, <1>4, <1>5, <2>1, HeldMeans
<1>13. /\ \A r \in Peers : r # Q => Given(r)' = Given(r)
       /\ Given(Q)' = Given(Q) \cup got
       /\ paid \cap Given(P) = {} /\ got \cap Given(P) = {} /\ got \cap Given(Q) = {}
  <2>1. \A r \in Peers : r # Q => Given(r)' = Given(r)
    BY <1>6 DEF Given
  <2>2. \A c : c \in Given(Q)' <=> c \in Given(Q) \/ c \in got
    BY <1>2, <1>6, GivenMeans
  <2>3. QED
    BY <1>9, <1>11, <2>1, <2>2, GivenMeans
<1>14. /\ paid \subseteq Kept(P) /\ got \subseteq Kept(Q)
       /\ Kept(P)' = (Kept(P) \ paid) \cup got /\ Kept(Q)' = Kept(Q) \ got
       /\ \A r \in Peers : r # P /\ r # Q => Kept(r)' = Kept(r)
  <2>1. \A r : Kept(r) = HeldBy(r) \ Given(r) /\ Kept(r)' = HeldBy(r)' \ Given(r)'
    BY GivenMeans
  <2>2. paid \subseteq Kept(P) /\ got \subseteq Kept(Q)
    BY <1>12, <1>13, <2>1
  <2>3. Kept(P)' = (Kept(P) \ paid) \cup got
    <3>1. HeldBy(P)' = (HeldBy(P) \ paid) \cup got /\ Given(P)' = Given(P)
      BY <1>1, <1>12, <1>13
    <3>2. got \cap Given(P) = {}
      BY <1>13
    <3>3. QED
      BY <2>1, <3>1, <3>2
  <2>4. Kept(Q)' = Kept(Q) \ got
    <3>1. HeldBy(Q)' = HeldBy(Q) /\ Given(Q)' = Given(Q) \cup got
      BY <1>1, <1>12, <1>13
    <3>2. QED
      BY <2>1, <3>1
  <2>5. \A r \in Peers : r # P /\ r # Q => Kept(r)' = Kept(r)
    BY <1>12, <1>13, <2>1
  <2>6. QED
    BY <2>2, <2>3, <2>4, <2>5
<1>15. Books(Keeping, Coming)
  BY DEF Balanced
<1>16. Books(Keeping', Coming')
  <2> DEFINE K == Keeping
             D == Coming
             K2 == Keeping'
             D2 == Coming'
  <2>1. /\ K[P] = Kept(P) /\ K[Q] = Kept(Q) /\ K2[P] = Kept(P)' /\ K2[Q] = Kept(Q)'
        /\ \A r \in Peers : r # P /\ r # Q => K2[r] = K[r]
        /\ D2[Q] = D[Q] \cup {m} /\ \A r \in Peers : r # Q => D2[r] = D[r]
    BY <1>6, <1>14 DEF Keeping, Coming
  <2>2. Books(K, D)
    BY <1>15
  <2> HIDE DEF K, D, K2, D2
  <2>3. Books(K2, D2)
    BY <1>1, <1>2, <1>14, <2>1, <2>2, BooksFinalized
  <2>4. QED
    BY <2>3 DEF K2, D2
<1>17. QED
  BY <1>16 DEF Balanced

LEMMA AcceptAsProposerPays ==
    ASSUME RdvInv, RdvInv', Sure, Sure', Balanced, NEW p \in Peers, NEW id \in Ids,
           AcceptAsProposer(p, id)
    PROVE  Balanced'
<1>1. Live(p, id) /\ prop[p][id].role = "proposer" /\ prop[p][id].accepted[p] = Nothing
  BY DEF AcceptAsProposer
<1>2. PICK P \in Peers, Q \in Peers :
          Ready(id, P, Q) /\ p = P /\ prop[P][id] \in State(P, P, Q)
  BY <1>1, LiveSituation
<1> DEFINE sp == prop[P][id]
<1>3. /\ Partner(P, sp) = Q /\ P # Q /\ IsLive(sp) /\ sp.gives[P] \in Specs
      /\ sp.accepted[P] = Nothing /\ TypeOK /\ wallet[P] \in Wallet
  BY <1>1, <1>2, StateFacts DEF Ready, RdvInv
<1>4. PICK l \in Lockings(wallet[P], sp.gives[P], id) :
          LET now == [sp EXCEPT !.accepted[P] = l.token]
          IN  IF AllAccepted(now)
              THEN /\ Note(P, ApplyCommit(l.wallet, P, now, CommitRow(now, P)))
                   /\ Send(P, Q, Commit(now, id, Q))
              ELSE /\ Note(P, l.wallet)
                   /\ UNCHANGED net
  BY <1>2, <1>3 DEF AcceptAsProposer
<1> DEFINE t == l.token
           w == l.wallet
           now == [sp EXCEPT !.accepted[P] = t]
<1>5. t \in Notes /\ Worth(t) = sp.gives[P] /\ LockedIn(wallet[P], w, id, t)
  BY <1>3, LockingFacts
<1>6. IF AllAccepted(now)
      THEN /\ Note(P, ApplyCommit(w, P, now, CommitRow(now, P)))
           /\ Send(P, Q, Commit(now, id, Q))
      ELSE Note(P, w) /\ UNCHANGED net
  BY <1>4
<1> HIDE DEF t, w
<1>7. /\ now \in State(P, P, Q) /\ now.gives = sp.gives
      /\ now.accepted[P] = t /\ now.accepted[Q] = sp.accepted[Q]
  BY <1>2, <1>3, <1>5 DEF State
<1> HIDE DEF now
<1>8. w \in Wallet /\ Holds(w) = Holds(wallet[P])
  BY <1>5 DEF LockedIn
<1>9. CASE AllAccepted(now)
  <2> DEFINE m == Commit(now, id, Q)
  <2>1. Note(P, ApplyCommit(w, P, now, CommitRow(now, P))) /\ Send(P, Q, m)
    BY <1>6, <1>9
  <2>2. Deal(id, P, Q, sp, prop[Q][id], Mine(wallet[P], id), Mine(wallet[Q], id),
             net[P][Q], net[Q][P])
    BY <1>2, SureFacts
  <2>3. Paid(sp, Q) /\ ~Paid(sp, P)
    BY <1>3, <1>7, <1>9, StateFacts DEF Paid
  <2>4. Worth(sp.accepted[Q]) = sp.gives[Q] /\ Mine(wallet[P], id) = {}
    BY <2>2, <2>3 DEF Deal, PaidIn, ProposerBacked
  <2>5. Separate(wallet[P])
    BY DEF RdvInv, SeparateInv, Sure, Calm
  <2>6. Funded(w, id, P, now.accepted[P])
    BY <1>5, <1>7, <1>8, <2>4, <2>5 DEF LockedIn, Funded
  <2>7. m.kind = "commit"
    BY <1>3, <1>7, <1>9, CommitMade
  <2> HIDE DEF m
  <2>8. Posted(P, Q, m)
    <3>1. \A r, s \in Peers :
              net'[r][s] = IF r = P /\ s = Q THEN Append(net[r][s], m) ELSE net[r][s]
      BY <1>3, <2>1 DEF TypeOK, Send
    <3>2. \A s \in Seq(Frame) : Commits(Append(s, m)) = Commits(s) \cup {m}
      BY <2>7, CommitSent
    <3>3. \A r, s \in Peers : net[r][s] \in Seq(Frame)
      BY <1>3 DEF TypeOK
    <3>4. QED
      BY <3>1, <3>2, <3>3 DEF Posted
  <2>9. Worth(now.accepted[Q]) = now.gives[Q]
    BY <1>7, <2>4
  <2>10. QED
    BY <1>2, <1>3, <1>7, <1>9, <2>1, <2>6, <2>8, <2>9, FinalizePays DEF m
<1>10. CASE ~AllAccepted(now)
  <2>1. Note(P, w) /\ UNCHANGED net
    BY <1>6, <1>10
  <2>2. QED
    BY <1>3, <1>8, <2>1, NotedHolds, UnsentDues, StillBalanced
<1>11. QED
  BY <1>9, <1>10

LEMMA OnAcceptPays ==
    ASSUME RdvInv, RdvInv', Sure, Sure', Balanced, NEW p \in Peers, NEW q \in Peers,
           OnAccept(p, q)
    PROVE  Balanced'
<1> DEFINE m == Head(net[q][p])
           id == m.id
           st == prop[p][id]
           now == [st EXCEPT !.accepted[q] = m.token]
<1>1. net[q][p] # <<>> /\ m.kind = "accept" /\ TypeOK
  BY DEF OnAccept, Gets, RdvInv
<1>2. CASE Taken(p, q) /\ UNCHANGED notes
  BY <1>1, <1>2, TakenDues, UnnotedHolds, StillBalanced
<1>3. ASSUME Live(p, id), Welcomes(st, q, m.token), AllAccepted(now),
             Note(p, ApplyCommit(wallet[p], p, now, CommitRow(now, p))),
             Answered(p, q, Commit(now, id, q))
      PROVE  Balanced'
  <2>1. p # q /\ net[q][p] \in Seq(Frame) /\ id \in Ids
    BY <1>1, FrameSituation
  <2>2. PICK P \in Peers, Q \in Peers :
            /\ Ready(id, P, Q)
            /\ \/ q = P /\ p = Q /\ m \in FromProposer(P, Q)
               \/ q = Q /\ p = P /\ m \in FromParticipant(P, Q)
    BY <1>1, FrameSituation
  <2>3. Commits(net[q][p]) = Commits(Tail(net[q][p]))
    <3>1. Commits(net[q][p]) = Commits(Tail(net[q][p])) \cup {n \in {m} : n.kind = "commit"}
      BY <1>1, <2>1, CommitsTaken
    <3>2. {n \in {m} : n.kind = "commit"} = {}
      BY <1>1
    <3>3. QED
      BY <3>1, <3>2
  <2> HIDE DEF m, id
  <2>4. q = Q /\ p = P /\ P # Q /\ m \in FromParticipant(P, Q) /\ m.token \in Notes
    <3>1. P # Q
      BY <2>2 DEF Ready
    <3>2. m \notin FromProposer(P, Q)
      BY <1>1, <3>1, SaidFacts
    <3>3. QED
      BY <1>1, <2>2, <3>1, <3>2, SaidFacts
  <2>5. st \in State(P, P, Q) /\ Worth(m.token) = st.gives[Q] /\ st = prop[P][id]
    BY <1>3, <2>2, <2>4 DEF Ready, Live, Welcomes
  <2>6. IsLive(st)
    BY <2>4, <2>5, StateFacts
  <2>7. /\ now \in State(P, P, Q) /\ now.gives = st.gives
        /\ now.accepted[Q] = m.token /\ now.accepted[P] = st.accepted[P]
    <3> HIDE DEF st
    <3>1. QED
      BY <2>4, <2>5 DEF State
  <2> HIDE DEF now
  <2>8. Mine(wallet[P], id) = {now.accepted[P]}
    <3>1. Deal(id, P, Q, st, prop[Q][id], Mine(wallet[P], id), Mine(wallet[Q], id),
               net[P][Q], net[Q][P])
      BY <2>2, <2>5, SureFacts
    <3>2. Paid(st, P)
      BY <1>3, <2>4, <2>6, <2>7, StateFacts DEF Paid
    <3>3. QED
      BY <2>7, <3>1, <3>2 DEF Deal, ProposerBacked
  <2>9. Funded(wallet[P], id, P, now.accepted[P])
    BY <2>2, <2>8 DEF RdvInv, SeparateInv, Sure, Calm, Ready, Funded
  <2> DEFINE c == Commit(now, id, Q)
  <2>10. c.kind = "commit"
    BY <1>3, <2>1, <2>4, <2>7, CommitMade
  <2>11. Answered(P, Q, c) /\ Note(P, ApplyCommit(wallet[P], P, now, CommitRow(now, P)))
    BY <1>3, <2>4
  <2> HIDE DEF c
  <2>12. Posted(P, Q, c)
    <3>1. \A r, s \in Peers :
              net'[r][s] = IF r = P /\ s = Q THEN Append(net[r][s], c)
                           ELSE IF r = Q /\ s = P THEN Tail(net[r][s]) ELSE net[r][s]
      BY <1>1, <2>4, <2>11 DEF TypeOK, Answered
    <3>2. \A s \in Seq(Frame) : Commits(Append(s, c)) = Commits(s) \cup {c}
      BY <2>10, CommitSent
    <3>3. \A r, s \in Peers : net[r][s] \in Seq(Frame)
      BY <1>1 DEF TypeOK
    <3>4. QED
      BY <2>3, <2>4, <3>1, <3>2, <3>3 DEF Posted
  <2>13. Ready(id, P, Q) /\ IsLive(prop[P][id])
    BY <2>2, <2>5, <2>6
  <2>14. Worth(now.accepted[Q]) = now.gives[Q]
    BY <2>5, <2>7
  <2> HIDE DEF st
  <2>15. QED
    BY <1>3, <2>1, <2>7, <2>9, <2>11, <2>12, <2>13, <2>14, FinalizePays DEF c
<1>4. QED
  BY <1>2, <1>3 DEF OnAccept

\* What is known of a commit when it arrives: its participant applies it.
Arriving(id, P, Q, m) ==
    /\ Vowed(prop[Q][id]) /\ Worth(m.getsToken) = prop[Q][id].gives[P]
    /\ m \in Commits(net[P][Q]) /\ Commits(Tail(net[P][Q])) = Commits(net[P][Q]) \ {m}

LEMMA CommitArrives ==
    ASSUME RdvInv, Sure, NEW P \in Peers, NEW Q \in Peers, NEW id, Ready(id, P, Q),
           net[P][Q] # <<>>, NEW m, m = Head(net[P][Q]), m.id = id, m.kind = "commit"
    PROVE  Arriving(id, P, Q, m)
<1> DEFINE s == net[P][Q]
           sq == prop[Q][id]
           lq == Mine(wallet[Q], id)
<1>1. s \in Seq(Frame) /\ Took(s, Tail(s), m, id) /\ Tail(s) \in Seq(Frame)
  BY OwnTaken, TailReads DEF RdvInv, TypeOK
<1>2. /\ Deal(id, P, Q, prop[P][id], sq, Mine(wallet[P], id), lq, s, net[Q][P])
      /\ Bound(id, Q, prop[P][id], sq, s, net[Q][P])
  BY SureFacts
<1>3. Commits(s) = Commits(Tail(s)) \cup {n \in {m} : n.kind = "commit"}
  BY <1>1, CommitsTaken
<1> HIDE DEF s, sq, lq
<1>4. ~No(s, id, "commit")
  BY <1>1 DEF Took
<1>5. IsLive(sq)
  BY <1>2, <1>4 DEF Bound
<1>6. Vowed(sq) /\ CommitSays(s, id, lq, sq.gives[P]) /\ Alone(s, id, "commit")
  BY <1>2, <1>4, <1>5 DEF Deal, CommitsFit
<1>7. Worth(m.getsToken) = sq.gives[P] /\ No(Tail(s), id, "commit")
  BY <1>1, <1>6 DEF Took
<1>8. m \notin Commits(Tail(s))
  <2> DEFINE t == Tail(s)
  <2>1. t \in Seq(Frame) /\ No(t, id, "commit")
    BY <1>1, <1>7
  <2> HIDE DEF t
  <2>2. m \notin Commits(t)
    BY <2>1, CommitsMean DEF No
  <2>3. QED
    BY <2>2 DEF t
<1>9. m \in Commits(s) /\ Commits(Tail(s)) = Commits(s) \ {m}
  BY <1>3, <1>8
<1>10. QED
  BY <1>6, <1>7, <1>9 DEF s, sq, Arriving

LEMMA OnCommitPays ==
    ASSUME RdvInv, RdvInv', Sure, Sure', Balanced, NEW p \in Peers, NEW q \in Peers,
           OnCommit(p, q)
    PROVE  Balanced'
<1> DEFINE m == Head(net[q][p])
           id == m.id
           st == prop[p][id]
<1>1. net[q][p] # <<>> /\ m.kind = "commit" /\ Taken(p, q) /\ TypeOK
  BY DEF OnCommit, Gets, RdvInv
<1>2. PICK P \in Peers, Q \in Peers :
          /\ Ready(id, P, Q)
          /\ \/ q = P /\ p = Q /\ m \in FromProposer(P, Q)
             \/ q = Q /\ p = P /\ m \in FromParticipant(P, Q)
  BY <1>1, FrameSituation
<1>3. q = P /\ p = Q /\ P # Q
  <2>1. P # Q
    BY <1>2 DEF Ready
  <2>2. \A k \in FromParticipant(P, Q) : k.kind \in {"accept", "counter", "reject"}
    BY <2>1, SaidFacts
  <2>3. QED
    BY <1>1, <1>2, <2>1, <2>2
<1>4. /\ Vowed(prop[Q][id]) /\ Worth(m.getsToken) = prop[Q][id].gives[P]
      /\ m \in Commits(net[P][Q]) /\ Commits(Tail(net[P][Q])) = Commits(net[P][Q]) \ {m}
  <2>1. m = Head(net[P][Q]) /\ m.id = id /\ net[P][Q] # <<>>
    BY <1>1, <1>3
  <2>2. Ready(id, P, Q) /\ m.kind = "commit"
    BY <1>1, <1>2
  <2> HIDE DEF m, id
  <2>3. Arriving(id, P, Q, m)
    BY <2>1, <2>2, CommitArrives
  <2>4. QED
    BY <2>3 DEF Arriving
<1> DEFINE v == ApplyCommit(wallet[Q], Q, st, m)
           paid == m.givesToken
           got == m.getsToken
<1>5. Note(Q, v)
  BY <1>3, <1>4 DEF OnCommit, Vowed, IsLive, Live
<1>6. Partner(Q, st) = P /\ st = prop[Q][id]
  <2>1. prop[Q][id] \in State(Q, P, Q)
    BY <1>2, <1>4 DEF Ready, Vowed, IsLive
  <2>2. QED
    BY <1>3, <2>1, StateFacts
<1> HIDE DEF m, id
<1>7. m \in Due(Q) /\ m.id = id
  BY <1>4, DueMeans DEF id
<1>8. DuesBacked /\ DuesBacked'
  BY DuesAreBacked, DuesStayBacked
<1>9. got \in Notes /\ Mine(wallet[Q], id) = {paid}
  BY <1>7, <1>8 DEF DuesBacked
<1>10. Separate(wallet[Q]) /\ wallet[Q] \in Wallet
  BY <1>1 DEF RdvInv, SeparateInv, Sure, Calm, TypeOK
<1>11. Holds(v) = (Holds(wallet[Q]) \ paid) \cup got /\ got \in v.free
  <2>1. Worth(m.getsToken) = st.gives[Partner(Q, st)]
    BY <1>4, <1>6
  <2> HIDE DEF st
  <2>2. PaidFrom(wallet[Q], v, id, paid, got)
    BY <1>9, <1>10, <2>1, CommitFacts
  <2>3. got \in v.free
    BY <2>1 DEF ApplyCommit
  <2>4. QED
    BY <1>9, <1>10, <2>2, <2>3 DEF PaidFrom
<1> HIDE DEF v, st, paid, got
<1>12. /\ wallet'[Q] = v /\ v \in Wallet /\ Separate(v)
       /\ \A r \in Peers : r # Q => wallet'[r] = wallet[r]
  <2>1. wallet' = [wallet EXCEPT ![Q] = v] /\ wallet \in [Peers -> Wallet]
        /\ wallet' \in [Peers -> Wallet]
    BY <1>1, <1>5 DEF Note, RdvInv, TypeOK
  <2>2. wallet'[Q] = v /\ \A r \in Peers : r # Q => wallet'[r] = wallet[r]
    BY <2>1
  <2>3. Separate(wallet'[Q])
    BY DEF RdvInv, SeparateInv, Sure, Calm
  <2>4. QED
    BY <2>1, <2>2, <2>3
<1>13. /\ \A r \in Peers : r # Q => Due(r)' = Due(r)
       /\ Due(Q)' = Due(Q) \ {m}
  <2>1. \A r, s \in Peers : net'[r][s] = IF r = P /\ s = Q THEN Tail(net[r][s]) ELSE net[r][s]
    BY <1>1, <1>3 DEF TypeOK, Taken
  <2>2. \A r \in Peers : m \in Commits(net[r][Q]) => r = P
    BY <1>2, <1>7, CommitsGoOneWay
  <2>3. \A r, s \in Peers : \A n : n \in Commits(net'[r][s]) <=>
            n \in Commits(net[r][s]) /\ ~(n = m /\ s = Q)
    BY <1>4, <2>1, <2>2
  <2>4. \A s \in Peers : \A n : n \in Due(s)' <=> n \in Due(s) /\ ~(n = m /\ s = Q)
    BY <2>3, DueMeans
  <2>5. QED
    BY <2>4
<1>14. ASSUME NEW n \in Due(Q)' PROVE got \cap n.givesToken = {}
  <2>1. Mine(wallet'[Q], n.id) = {n.givesToken}
    BY <1>8 DEF DuesBacked
  <2>2. QED
    BY <1>11, <1>12, <2>1, FreeApart
<1>15. Kept(Q)' = Kept(Q) \cup got
  <2>1. HeldBy(Q)' = (HeldBy(Q) \ paid) \cup got
    BY <1>11, <1>12, HeldMeans
  <2>2. \A c : c \in Given(Q) <=> c \in Given(Q)' \/ c \in paid
    BY <1>7, <1>13, GivenMeans DEF paid
  <2>3. got \cap Given(Q)' = {}
    BY <1>14, GivenMeans
  <2>4. \A c : (c \in Kept(Q) <=> c \in HeldBy(Q) /\ c \notin Given(Q))
               /\ (c \in Kept(Q)' <=> c \in HeldBy(Q)' /\ c \notin Given(Q)')
    BY GivenMeans
  <2>5. \A c : c \in Kept(Q)' <=> c \in Kept(Q) \/ c \in got
    BY <2>1, <2>2, <2>3, <2>4
  <2>6. QED
    BY <2>5
<1>16. \A r \in Peers : r # Q => Kept(r)' = Kept(r)
  BY <1>12, <1>13, HeldMeans DEF Kept, Given
<1>17. Books(Keeping', Coming')
  <2> DEFINE K == Keeping
             D == Coming
             K2 == Keeping'
             D2 == Coming'
  <2>1. /\ K2[Q] = K[Q] \cup got /\ \A r \in Peers : r # Q => K2[r] = K[r]
        /\ D2[Q] = D[Q] \ {m} /\ \A r \in Peers : r # Q => D2[r] = D[r]
        /\ m \in D[Q]
    BY <1>7, <1>13, <1>15, <1>16 DEF Keeping, Coming
  <2>2. Books(K, D)
    BY DEF Balanced
  <2> HIDE DEF K, D, K2, D2
  <2>3. Books(K2, D2)
    BY <2>1, <2>2, BooksApplied DEF got
  <2>4. QED
    BY <2>3 DEF K2, D2
<1>18. QED
  BY <1>17 DEF Balanced

LEMMA BalancedAtFirst == Init => Balanced
<1> SUFFICES ASSUME Init PROVE Balanced
  OBVIOUS
<1>1. /\ wallet = [p \in Peers |-> [free |-> Purses[p], locked |-> {}]]
      /\ net = [p \in Peers |-> [q \in Peers |-> <<>>]]
  BY DEF Init
<1>2. \A p \in Peers : Due(p) = {}
  <2>1. \A p, q \in Peers : net[q][p] = <<>>
    BY <1>1
  <2>2. Commits(<<>>) = {}
    BY DEF Commits, Range
  <2>3. \A p \in Peers : \A m : m \notin Due(p)
    BY <2>1, <2>2, DueMeans
  <2>4. QED
    BY <2>3
<1>3. \A p \in Peers : Kept(p) = UNION Purses[p]
  <2>1. \A p \in Peers : wallet[p].free = Purses[p] /\ wallet[p].locked = {}
    BY <1>1
  <2>2. \A p \in Peers : HeldBy(p) = UNION Purses[p]
    BY <2>1 DEF HeldBy
  <2>3. \A p \in Peers : \A c : c \notin Given(p)
    BY <1>2, GivenMeans
  <2>4. QED
    BY <2>2, <2>3, GivenMeans
<1>4. \A c \in Coins : \E p \in Peers : c \in UNION Purses[p]
  BY BearerNotesAssumption
<1>5. ASSUME NEW p \in Peers, NEW q \in Peers, p # q
      PROVE  (UNION Purses[p]) \cap (UNION Purses[q]) = {}
  <2>1. ASSUME NEW c, NEW n \in Purses[p], NEW k \in Purses[q], c \in n, c \in k PROVE FALSE
    <3>1. n \in Notes
      BY BearerNotesAssumption
    <3>2. c \in Coins
      BY <2>1, <3>1 DEF Notes
    <3>3. PICK r \in Peers : \E l \in Purses[r] :
              \A s \in Peers : \A h \in Purses[s] : c \in h <=> s = r /\ h = l
      BY <3>2, BearerNotesAssumption
    <3>4. p = r /\ q = r
      BY <2>1, <3>3
    <3>5. QED
      BY <1>5, <3>4
  <2>2. ASSUME NEW c, c \in UNION Purses[p] PROVE c \notin UNION Purses[q]
    <3>1. PICK n \in Purses[p] : c \in n
      BY <2>2
    <3>2. QED
      BY <2>1, <3>1
  <2>3. QED
    BY <2>2
<1>6. Books(Keeping, Coming)
  <2> DEFINE K == Keeping
             D == Coming
  <2>1. \A p \in Peers : K[p] = UNION Purses[p] /\ D[p] = {}
    BY <1>2, <1>3 DEF Keeping, Coming
  <2> HIDE DEF K, D
  <2>2. Books(K, D)
    BY <1>4, <1>5, <2>1 DEF Books
  <2>3. QED
    BY <2>2 DEF K, D
<1>7. QED
  BY <1>6 DEF Balanced

\* What went astray stays so.
LEMMA SureBefore == RdvInv /\ Next => (Sure' => Sure)
<1> SUFFICES ASSUME RdvInv, Next, Sure' PROVE Sure
  OBVIOUS
<1>1. twice' = (twice \/ \E p \in Peers : ~Separate(wallet'[p]))
  BY DEF Next
<1>2. ~twice
  BY <1>1 DEF Sure, Calm, RdvInv, TypeOK
<1>3. (astray => astray') /\ (cut => cut')
  <2>1. \A p, q, id, give, get : Swap(p, q, id, give, get) => Watch /\ UNCHANGED cut
    BY DEF Swap
  <2>2. \A p, id, give, get : Counter(p, id, give, get) => Watch /\ UNCHANGED cut
    BY DEF Counter
  <2>3. \A p, id, give, get : CounterFails(p, id, give, get) => astray' /\ UNCHANGED cut
    BY DEF CounterFails
  <2>4. \A p, id : AcceptAsParticipant(p, id) \/ AcceptAsProposer(p, id) \/ Reject(p, id)
                   \/ Abort(p, id) => Watch /\ UNCHANGED cut
    BY DEF AcceptAsParticipant, AcceptAsProposer, Reject, Abort
  <2>5. \A p, id : ProposalTimedOut(p, id) => Watch /\ (cut => cut')
    BY DEF ProposalTimedOut
  <2>6. \A p, q : OnPropose(p, q) \/ OnAccept(p, q) \/ OnReject(p, q) => Watch /\ UNCHANGED cut
    BY DEF OnPropose, OnAccept, OnReject
  <2>7. \A p, q : OnCommit(p, q) \/ OnAbort(p, q) \/ OnCounter(p, q) => Watch /\ UNCHANGED cut
    BY DEF OnCommit, OnAbort, OnCounter
  <2>8. \A p, q : Lose(p, q) => (astray => astray') /\ (cut => cut')
    BY DEF Lose
  <2>9. \A p : Reload(p) => (astray => astray') /\ (cut => cut')
    BY DEF Reload
  <2>10. QED
    BY <2>1, <2>2, <2>3, <2>4, <2>5, <2>6, <2>7, <2>8, <2>9, WatchMeans DEF Next
<1>4. QED
  BY <1>2, <1>3 DEF Sure, Calm, RdvInv, TypeOK

LEMMA BalancedStays == RdvInv /\ RdvInv' /\ [Next]_vars /\ (Sure => Balanced) => (Sure' => Balanced')
<1> SUFFICES ASSUME RdvInv, RdvInv', [Next]_vars, Sure => Balanced, Sure' PROVE Balanced'
  OBVIOUS
<1>1. CASE UNCHANGED vars
  <2>1. Sure
    BY <1>1 DEF Sure, Calm, vars
  <2>2. SameHolds /\ SameDues
    BY <1>1, UnnotedHolds, UnsentDues DEF vars
  <2>3. QED
    BY <2>1, <2>2, StillBalanced
<1>2. CASE Next
  <2>1. Sure /\ Balanced
    BY <1>2, SureBefore
  <2>2. ASSUME NEW p \in Peers, NEW id \in Ids, NEW give \in Specs, NEW get \in Specs,
               \/ \E q \in Peers : Swap(p, q, id, give, get)
               \/ Counter(p, id, give, get)
               \/ CounterFails(p, id, give, get)
        PROVE  Balanced'
    <3>1. ~CounterFails(p, id, give, get)
      BY DEF CounterFails, Sure, Calm
    <3>2. SameHolds /\ SameDues
      BY <2>2, <3>1, SwapStill, CounterStill
    <3>3. QED
      BY <2>1, <3>2, StillBalanced
  <2>3. ASSUME NEW p \in Peers, NEW id \in Ids,
               \/ AcceptAsParticipant(p, id)
               \/ Reject(p, id) \/ Abort(p, id)
               \/ ProposalTimedOut(p, id)
        PROVE  Balanced'
    <3>1. SameHolds /\ SameDues
      BY <2>3, AcceptStill, RejectStill, AbortStill, TimeoutStill
    <3>2. QED
      BY <2>1, <3>1, StillBalanced
  <2>4. ASSUME NEW p \in Peers, NEW q \in Peers,
               \/ OnPropose(p, q) \/ OnReject(p, q) \/ OnAbort(p, q) \/ OnCounter(p, q)
               \/ Lose(p, q)
        PROVE  Balanced'
    <3>1. SameHolds /\ SameDues
      BY <2>4, FrameStill, LoseStill
    <3>2. QED
      BY <2>1, <3>1, StillBalanced
  <2>5. ASSUME NEW p \in Peers, Reload(p) PROVE Balanced'
    <3>1. SameHolds /\ SameDues
      BY <2>5, ReloadStill
    <3>2. QED
      BY <2>1, <3>1, StillBalanced
  <2>6. ASSUME NEW p \in Peers, NEW id \in Ids, AcceptAsProposer(p, id) PROVE Balanced'
    BY <2>1, <2>6, AcceptAsProposerPays
  <2>7. ASSUME NEW p \in Peers, NEW q \in Peers, OnAccept(p, q) \/ OnCommit(p, q) PROVE Balanced'
    BY <2>1, <2>7, OnAcceptPays, OnCommitPays
  <2>8. QED
    BY <1>2, <2>2, <2>3, <2>4, <2>5, <2>6, <2>7 DEF Next
<1>3. QED
  BY <1>1, <1>2

\* AtomicSwapDemo.md:3 and 225-227: a swap happens on both sides or on neither.  Whatever is
\* rejected, aborted, countered, timed out or reloaded, in any order, every coin is with one peer
\* once the commits on their way have come; until a commit or a counter is lost, a participant
\* that accepted gives up, counters cross or fail, or a promised note comes back.
THEOREM SwapsAreWhole == Spec => []SwapIsWhole
<1> DEFINE Inv == RdvInv /\ (Sure => Balanced)
<1>1. Init => Inv
  BY RdvInit, BalancedAtFirst
<1>2. Inv /\ [Next]_vars => Inv'
  <2>1. RdvInv /\ [Next]_vars => RdvInv'
    BY RdvStep
  <2>2. QED
    BY <2>1, BalancedStays
<1>3. Inv => SwapIsWhole
  BY BalancedIsWhole DEF SwapIsWhole, Sure, Calm
<1>4. QED
  BY <1>1, <1>2, <1>3, PTL DEF Spec

=============================================================================
