----------------------------- MODULE Rendezvous -----------------------------
(***************************************************************************)
(* Swaps of promissory notes between two peers: /rdv (packages/browser/src *)
(* /rendezvous.ts, and the command, its helpers and the handlers in        *)
(* app.ts).                                                                *)
(*                                                                         *)
(* A note is the token itself (BearerNotes), so two wallets may come to    *)
(* hold the same coin, or none, and a note may come back to a wallet that  *)
(* still has it promised.  Frames take the control plane: in order from    *)
(* one peer to another, queued through a blip, and now and then lost.      *)
(***************************************************************************)
EXTENDS BearerNotes, Integers, SequencesExt, FiniteSetsExt

VARIABLES
    wallet,  \* noteStore and lockedNotes of every peer
    stored,  \* what its localStorage has of them
    prop,    \* proposals of every peer
    net,     \* net[p][q]: the frames on their way from p to q
    fresh,   \* ids no proposal has had yet
    astray,  \* history: a counter met another frame of its proposal, failed half-way or was lost,
             \* or a page was reloaded again before it saved what the last reload freed
    cut,     \* history: a commit was lost, or a participant that accepted gave up waiting
    twice,   \* history: a coin came back to a wallet that still had it in a note
    budget   \* what is left of the bounds

notes == <<wallet, stored>>
vars == <<notes, prop, net, fresh, astray, cut, twice, budget>>

\* proposer is the peer the answers go to; accepted[p] is the note p put in, if any
Parties == {pair \in SUBSET Peers : Cardinality(pair) = 2}
Proposal ==
    UNION {[role: {"proposer", "participant"}, myStatus: {"pending", "accepted"},
            proposer: pair, gives: [pair -> Specs],
            accepted: [pair -> Notes \cup {Nothing}]] : pair \in Parties}
NoProposal == [role |-> "none"]
Frame ==
    (UNION {[kind: {"propose"}, id: Ids, gives: [pair -> Specs]]
            \cup [kind: {"counter"}, id: Ids, gives: [pair -> Specs], token: Notes]
                : pair \in Parties})
    \cup [kind: {"accept"}, id: Ids, token: Notes]
    \cup [kind: {"commit"}, id: Ids, givesToken: Notes, getsToken: Notes]
    \cup [kind: {"reject", "abort"}, id: Ids]

Wallet == [free : SUBSET Notes, locked : SUBSET [note : Notes, id : Ids]]

TypeOK ==
    /\ wallet \in [Peers -> Wallet] /\ stored \in [Peers -> Wallet]
    /\ \A p \in Peers : stored[p].free \subseteq wallet[p].free
    /\ prop \in [Peers -> [Ids -> Proposal \cup {NoProposal}]]
    /\ net \in [Peers -> [Peers -> Seq(Frame)]]
    /\ fresh \subseteq Ids
    /\ astray \in BOOLEAN /\ cut \in BOOLEAN /\ twice \in BOOLEAN
    /\ budget \in [counters: 0..MaxCounters, faults: 0..MaxFaults]

\* What a peer p has, and what q has.
Pair(p, x, q, y) == [r \in {p, q} |-> IF r = p THEN x ELSE y]

-----------------------------------------------------------------------------
(* Wallets *)

\* The exact note, or the smallest one that is larger.
PickFreeNote(w, spec) ==
    LET enough == {note \in w.free : /\ Worth(note).currency = spec.currency
                                     /\ Cardinality(note) >= spec.denomination}
    IN  {note \in enough : \A n \in enough : Cardinality(note) <= Cardinality(n)}

\* The ways to take spec out of what is free and lock it for id: a larger note is split.
Lockings(w, spec, id) ==
    UNION {{[token |-> token,
             wallet |-> [free |-> (w.free \ {note}) \cup ({note \ token} \ {Nothing}),
                         locked |-> {l \in w.locked : l.note # token}
                                    \cup {[note |-> token, id |-> id]}]]
            : token \in kSubset(spec.denomination, note)} : note \in PickFreeNote(w, spec)}

\* Faulty: nothing is released.
StayLocked(w, id) == w

ReleaseLockedFor(w, id) ==
    LET mine == {l \in w.locked : l.id = id}
    IN  [free |-> w.free \cup {l.note : l \in mine}, locked |-> w.locked \ mine]

Partner(p, st) == CHOOSE q \in DOMAIN st.gives : q # p

\* Faulty: what was given stays in the wallet.
ApplyGain(w, p, st, row) == [free |-> w.free \cup {row.getsToken}, locked |-> w.locked]

\* Faulty: what is given goes, what is got does not come.
ApplyPayment(w, p, st, row) ==
    [free |-> w.free, locked |-> {l \in w.locked : l.note # row.givesToken}]

\* A row that is not what the proposal says p gets is not applied.
ApplyCommit(w, p, st, row) ==
    IF Worth(row.getsToken) = st.gives[Partner(p, st)]
    THEN [free |-> w.free \cup {row.getsToken},
          locked |-> {l \in w.locked : l.note # row.givesToken}]
    ELSE w

CommitRow(st, p) ==
    [givesToken |-> st.accepted[p], getsToken |-> st.accepted[Partner(p, st)]]
Commit(st, id, p) ==
    [kind |-> "commit", id |-> id,
     givesToken |-> CommitRow(st, p).givesToken, getsToken |-> CommitRow(st, p).getsToken]
AllAccepted(st) == \A p \in DOMAIN st.gives : st.accepted[p] # Nothing

-----------------------------------------------------------------------------
Live(p, id) == prop[p][id] # NoProposal
\* The wallet becomes w and is saved: saveNotes.
Note(p, w) == wallet' = [wallet EXCEPT ![p] = w] /\ stored' = [stored EXCEPT ![p] = w]
Set(p, id, st) == prop' = [prop EXCEPT ![p][id] = st]
Drop(p, id) == Set(p, id, NoProposal)
Send(p, q, frame) == net' = [net EXCEPT ![p][q] = Append(@, frame)]
Gets(p, q, kind) == net[q][p] # <<>> /\ Head(net[q][p]).kind = kind
Taken(p, q) == net' = [net EXCEPT ![q][p] = Tail(@)]
Answered(p, q, frame) ==
    net' = [net EXCEPT ![q][p] = Tail(@), ![p][q] = Append(@, frame)]
Spend(what) ==
    /\ budget[what] > 0
    /\ budget' = [budget EXCEPT ![what] = @ - 1]

\* A counter and a frame the other way are on the wire at once.
Crossing(wires) ==
    \E p, q \in Peers : \E m \in Range(wires[p][q]), n \in Range(wires[q][p]) :
        p # q /\ m.kind = "counter" /\ n.id = m.id
Watch == astray' = (astray \/ Crossing(net'))

Init ==
    /\ wallet = [p \in Peers |-> [free |-> Purses[p], locked |-> {}]] /\ stored = wallet
    /\ prop = [p \in Peers |-> [id \in Ids |-> NoProposal]]
    /\ net = [p \in Peers |-> [q \in Peers |-> <<>>]]
    /\ fresh = Ids
    /\ astray = FALSE /\ cut = FALSE /\ twice = FALSE
    /\ budget = [counters |-> MaxCounters, faults |-> MaxFaults]

-----------------------------------------------------------------------------
(* The /rdv commands *)

Swap(p, q, id, give, get) ==
    /\ p # q /\ id \in fresh
    /\ \E l \in Lockings(wallet[p], give, id) :
           LET gives == Pair(p, give, q, get)
           IN  /\ Note(p, l.wallet)
               /\ Set(p, id, [role |-> "proposer", myStatus |-> "accepted", proposer |-> p,
                              gives |-> gives,
                              accepted |-> Pair(p, l.token, q, Nothing)])
               /\ Send(p, q, [kind |-> "propose", id |-> id, gives |-> gives])
    /\ fresh' = fresh \ {id}
    /\ Watch /\ UNCHANGED <<cut, budget>>

AcceptAsParticipant(p, id) ==
    LET st == prop[p][id]
    IN  /\ Live(p, id) /\ st.role = "participant" /\ st.myStatus = "pending"
        /\ \E l \in Lockings(wallet[p], st.gives[p], id) :
               /\ Note(p, l.wallet)
               /\ Send(p, st.proposer, [kind |-> "accept", id |-> id, token |-> l.token])
        /\ Set(p, id, [st EXCEPT !.myStatus = "accepted"])
        /\ Watch /\ UNCHANGED <<fresh, cut, budget>>

\* After a counter: the proposer takes the new terms, and commits if the other one had.
AcceptAsProposer(p, id) ==
    LET st == prop[p][id]
        q == Partner(p, st)
    IN  /\ Live(p, id) /\ st.role = "proposer" /\ st.accepted[p] = Nothing
        /\ \E l \in Lockings(wallet[p], st.gives[p], id) :
               LET now == [st EXCEPT !.accepted[p] = l.token]
               IN  IF AllAccepted(now)
                   THEN /\ Note(p, ApplyCommit(l.wallet, p, now, CommitRow(now, p)))
                        /\ Drop(p, id)
                        /\ Send(p, q, Commit(now, id, q))
                   ELSE /\ Note(p, l.wallet)
                        /\ Set(p, id, now)
                        /\ UNCHANGED net
        /\ Watch /\ UNCHANGED <<fresh, cut, budget>>

Reject(p, id) ==
    LET st == prop[p][id]
    IN  /\ Live(p, id) /\ st.role = "participant" /\ st.myStatus = "pending"
        /\ Note(p, wallet[p]) /\ Drop(p, id)
        /\ Send(p, st.proposer, [kind |-> "reject", id |-> id])
        /\ Watch /\ UNCHANGED <<fresh, cut, budget>>

Abort(p, id) ==
    LET st == prop[p][id]
    IN  /\ Live(p, id) /\ st.role = "proposer"
        /\ Note(p, ReleaseLockedFor(wallet[p], id))
        /\ Drop(p, id)
        /\ Send(p, Partner(p, st), [kind |-> "abort", id |-> id])
        /\ Watch /\ UNCHANGED <<fresh, cut, budget>>

\* Either party, whatever it has accepted before.
Counter(p, id, give, get) ==
    LET st == prop[p][id]
        q == Partner(p, st)
        gives == Pair(p, give, q, get)
    IN  /\ Live(p, id)
        /\ \E l \in Lockings(ReleaseLockedFor(wallet[p], id), give, id) :
               /\ Note(p, l.wallet)
               /\ Set(p, id, [st EXCEPT !.gives = gives, !.myStatus = "accepted",
                                        !.accepted = Pair(p, l.token, q, Nothing)])
               /\ Send(p, q, [kind |-> "counter", id |-> id, gives |-> gives,
                              token |-> l.token])
        /\ Spend("counters")
        /\ Watch /\ UNCHANGED <<fresh, cut>>

\* There is no note to counter with: the old lock is gone, the new terms stay, nobody is
\* told and nothing is saved.
CounterFails(p, id, give, get) ==
    LET st == prop[p][id]
        q == Partner(p, st)
        w == ReleaseLockedFor(wallet[p], id)
    IN  /\ Live(p, id)
        /\ Lockings(w, give, id) = {}
        /\ wallet' = [wallet EXCEPT ![p] = w]
        /\ Set(p, id, [st EXCEPT !.gives = Pair(p, give, q, get),
                                 !.accepted = Pair(p, Nothing, q, Nothing)])
        /\ Spend("counters")
        /\ astray' = TRUE
        /\ UNCHANGED <<stored, net, fresh, cut>>

-----------------------------------------------------------------------------
(* The handlers: p takes a frame from q *)

\* A proposal that comes after its time is let go.
OnPropose(p, q) ==
    LET m == Head(net[q][p])
    IN  /\ Gets(p, q, "propose")
        /\ \/ /\ ~Live(p, m.id)
              /\ Note(p, wallet[p])
              /\ Set(p, m.id, [role |-> "participant", myStatus |-> "pending", proposer |-> q,
                               gives |-> m.gives, accepted |-> Pair(p, Nothing, q, Nothing)])
           \/ UNCHANGED <<notes, prop>>
        /\ Taken(p, q)
        /\ Watch /\ UNCHANGED <<fresh, cut, budget>>

\* A token for other terms is not taken.
Welcomes(st, q, token) == st.role = "proposer" /\ Worth(token) = st.gives[q]

OnAccept(p, q) ==
    LET m == Head(net[q][p])
        st == prop[p][m.id]
        now == [st EXCEPT !.accepted[q] = m.token]
    IN  /\ Gets(p, q, "accept")
        /\ IF Live(p, m.id) /\ Welcomes(st, q, m.token)
           THEN IF AllAccepted(now)
                THEN /\ Note(p, ApplyCommit(wallet[p], p, now, CommitRow(now, p)))
                     /\ Drop(p, m.id)
                     /\ Answered(p, q, Commit(now, m.id, q))
                ELSE /\ Set(p, m.id, now)
                     /\ Taken(p, q)
                     /\ UNCHANGED notes
           ELSE Taken(p, q) /\ UNCHANGED <<notes, prop>>
        /\ Watch /\ UNCHANGED <<fresh, cut, budget>>

OnReject(p, q) ==
    LET m == Head(net[q][p])
    IN  /\ Gets(p, q, "reject")
        /\ IF Live(p, m.id) /\ prop[p][m.id].role = "proposer"
           THEN Note(p, ReleaseLockedFor(wallet[p], m.id)) /\ Drop(p, m.id)
           ELSE UNCHANGED <<notes, prop>>
        /\ Taken(p, q)
        /\ Watch /\ UNCHANGED <<fresh, cut, budget>>

OnCommit(p, q) ==
    LET m == Head(net[q][p])
        st == prop[p][m.id]
    IN  /\ Gets(p, q, "commit")
        /\ IF Live(p, m.id) /\ st.role = "participant" /\ st.myStatus = "accepted"
           THEN Note(p, ApplyCommit(wallet[p], p, st, m)) /\ Drop(p, m.id)
           ELSE UNCHANGED <<notes, prop>>
        /\ Taken(p, q)
        /\ Watch /\ UNCHANGED <<fresh, cut, budget>>

OnAbort(p, q) ==
    LET m == Head(net[q][p])
    IN  /\ Gets(p, q, "abort")
        /\ IF Live(p, m.id)
           THEN Note(p, ReleaseLockedFor(wallet[p], m.id)) /\ Drop(p, m.id)
           ELSE UNCHANGED <<notes, prop>>
        /\ Taken(p, q)
        /\ Watch /\ UNCHANGED <<fresh, cut, budget>>

OnCounter(p, q) ==
    LET m == Head(net[q][p])
        st == prop[p][m.id]
    IN  /\ Gets(p, q, "counter")
        /\ IF Live(p, m.id)
           THEN /\ Note(p, ReleaseLockedFor(wallet[p], m.id))
                /\ Set(p, m.id, [st EXCEPT !.gives = m.gives, !.myStatus = "pending",
                                           !.accepted = Pair(p, Nothing, q, m.token)])
           ELSE UNCHANGED <<notes, prop>>
        /\ Taken(p, q)
        /\ Watch /\ UNCHANGED <<fresh, cut, budget>>

-----------------------------------------------------------------------------
(* Timers and faults *)

\* p has promised its note and waits for the commit.
Promised(p, id) ==
    Live(p, id) /\ prop[p][id].role = "participant" /\ prop[p][id].myStatus = "accepted"

ProposalTimedOut(p, id) ==
    LET st == prop[p][id]
    IN  /\ Live(p, id)
        /\ Note(p, ReleaseLockedFor(wallet[p], id))
        /\ Drop(p, id)
        /\ IF st.role = "proposer"
           THEN Send(p, Partner(p, st), [kind |-> "abort", id |-> id])
           ELSE UNCHANGED net
        /\ cut' = (cut \/ Promised(p, id))
        /\ Watch /\ UNCHANGED <<fresh, budget>>

\* The notes are in localStorage, locks too, the proposals are not.  loadNotes sets free what
\* was locked and takes the locks out of localStorage, where the freed notes are not yet.
LoadNotes(w) == [free |-> w.free \cup {l.note : l \in w.locked}, locked |-> {}]

Reload(p) ==
    LET loaded == LoadNotes(stored[p])
    IN  /\ (\E id \in Ids : Live(p, id)) \/ stored[p] # wallet[p]
        /\ wallet' = [wallet EXCEPT ![p] = loaded]
        /\ stored' = [stored EXCEPT ![p].locked = {}]
        /\ prop' = [prop EXCEPT ![p] = [id \in Ids |-> NoProposal]]
        /\ cut' = (cut \/ \E id \in Ids : Promised(p, id))
        /\ astray' = (astray \/ ~(wallet[p].free \subseteq loaded.free))
        /\ Spend("faults")
        /\ UNCHANGED <<net, fresh>>

Lose(p, q) ==
    /\ net[q][p] # <<>>
    /\ Taken(p, q)
    /\ cut' = (cut \/ Head(net[q][p]).kind = "commit")
    /\ astray' = (astray \/ Head(net[q][p]).kind = "counter")
    /\ Spend("faults")
    /\ UNCHANGED <<notes, prop, fresh>>

-----------------------------------------------------------------------------
\* No two notes of a wallet share a coin.  History: a peer that has not heard yet of the commit
\* that takes its promised note away may be handed the very note in another swap, and
\* lockedNotes, keyed by token (app.ts:2109), has room for one lock of it.
Separate(w) ==
    LET locks == {l.note : l \in w.locked}
    IN  /\ \A m, n \in w.free \cup locks : m # n => m \cap n = {}
        /\ w.free \cap locks = {}
        /\ \A k, l \in w.locked : k.note = l.note => k = l

Next ==
    /\ \E p \in Peers :
           \/ \E id \in Ids :
                  \/ \E give, get \in Specs :
                         \/ \E q \in Peers : Swap(p, q, id, give, get)
                         \/ Counter(p, id, give, get)
                         \/ CounterFails(p, id, give, get)
                  \/ AcceptAsParticipant(p, id) \/ AcceptAsProposer(p, id)
                  \/ Reject(p, id) \/ Abort(p, id)
                  \/ ProposalTimedOut(p, id)
           \/ \E q \in Peers :
                  \/ OnPropose(p, q) \/ OnAccept(p, q) \/ OnReject(p, q)
                  \/ OnCommit(p, q) \/ OnAbort(p, q) \/ OnCounter(p, q)
                  \/ Lose(p, q)
           \/ Reload(p)
    /\ twice' = (twice \/ \E p \in Peers : ~Separate(wallet'[p]))

Spec == Init /\ [][Next]_vars

-----------------------------------------------------------------------------
(* Properties *)

HeldBy(p) == UNION (wallet[p].free \cup {l.note : l \in wallet[p].locked})

\* What p will hold once the commits on their way to it are applied.
Due(p) == UNION {{m \in Range(net[q][p]) : m.kind = "commit"} : q \in Peers}
WillHold(p) ==
    (HeldBy(p) \ UNION {m.givesToken : m \in Due(p)}) \cup UNION {m.getsToken : m \in Due(p)}

HoldOnce(Holding(_)) == \A c \in Coins : \E p \in Peers :
                            \A q \in Peers : c \in Holding(q) <=> q = p

\* AtomicSwapDemo.md:3 and 225-227: a swap happens on both sides or on neither, and no note
\* is lost or held twice.  The code keeps this through rejects, aborts, counters, timeouts and
\* reloads in any order, but for a commit or a counter that is lost, a participant that gives
\* up (its timer, a reload) with its acceptance on the way, a counter that crosses another
\* frame or fails, and a promised note that comes back to the wallet that promised it.
SwapIsWhole == ~cut /\ ~astray /\ ~twice => HoldOnce(WillHold)

\* app.ts:2119-2130, AtomicSwapDemo.md "Failure modes": a lock never outlives its proposal,
\* and a live acceptance is backed by exactly the note it promised, whatever is lost or reloaded,
\* until a counter goes astray or a promised note comes back to the wallet that promised it.
LocksBackPromises ==
    ~astray /\ ~twice =>
        \A p \in Peers :
            /\ \A l \in wallet[p].locked : Live(p, l.id)
            /\ \A id \in Ids :
                   LET st == prop[p][id]
                       mine == {l \in wallet[p].locked : l.id = id}
                   IN  Live(p, id) =>
                           IF Promised(p, id) \/ (st.role = "proposer" /\ st.accepted[p] # Nothing)
                           THEN \E l \in mine : mine = {l} /\ Worth(l.note) = st.gives[p]
                           ELSE mine = {}

\* A wallet changes by giving what one of its proposals says and getting what it says.
SwapsWhole(p) ==
    HeldBy(p)' # HeldBy(p) =>
        \E id \in Ids, paid, got \in Notes :
            /\ Live(p, id) /\ ~Live(p, id)'
            /\ Worth(paid) = prop[p][id].gives[p]
            /\ Worth(got) = prop[p][id].gives[Partner(p, prop[p][id])]
            /\ HeldBy(p)' = (HeldBy(p) \ paid) \cup got
PaysWhole == ~astray' /\ ~twice' => \A p \in Peers : SwapsWhole(p)

\* AtomicSwapDemo.md:229: nobody is handed something else than it agreed to, and nobody
\* pays without being paid in the same step, even when the other side never does its part: up
\* to the step in which a counter goes astray or a coin comes to a wallet a second time.
NobodyPaysAlone == [][PaysWhole]_vars

\* AtomicSwapDemo.md:241, app.ts:1061-1063: "No value is lost across a crash": at any moment,
\* what a peer holds is what a reload would bring back.
ReloadKeepsValue == \A p \in Peers : HeldBy(p) \subseteq UNION LoadNotes(stored[p]).free

=============================================================================
