-------------------------------- MODULE Polls --------------------------------
(***************************************************************************)
(* One poll of a room: /poll in packages/browser/src/app.ts, tallied by    *)
(* polls.ts.  Every peer keeps a copy (in localStorage) and changes it by  *)
(* the frames it hears; who comes in is given everybody's copy.            *)
(*                                                                         *)
(* Frames take the control plane: in order to the server, which hands each *)
(* to everybody seated, in order.  A page that is closed loses its seat    *)
(* and what is under way.  A ballot is its voter's count of votes: what it *)
(* says tells the properties nothing.  The tally is a function of the      *)
(* ballots, so that a result stands for the ballots it counted.            *)
(***************************************************************************)
EXTENDS Integers, SequencesExt

CONSTANTS
    Peers,
    Creator,  \* who opens the poll
    Options,  \* what may be nominated
    MaxVotes, \* bound of the model: votes of one peer
    MaxMoves, \* bound of the model: votes, nominations, locks, closes, removals
    MaxLeaves \* bound of the model: pages closed

VARIABLES
    here,      \* peers seated in the room
    poll,      \* pollStore of every peer: its copy
    retracted, \* peers with a tombstone
    early,     \* pollBallotBuffer and pollOptionBuffer: what came before the poll
    down,      \* frames on their way from the server: what is sent is there at once
    missed,    \* history: a newcomer was left unserved, or a second vote went past somebody
    late,      \* history: a vote or a nomination came after the poll was closed or locked
    moves, leaves \* what is left of the bounds

vars == <<here, poll, retracted, early, down, missed, late, moves, leaves>>

Votes == [Peers -> 0..MaxVotes]
NoVotes == [p \in Peers |-> 0]
Poll == [status: {"open", "closed"}, nominationsLocked: BOOLEAN,
         options: SUBSET Options, ballots: Votes, result: Votes]
NewPoll == [status |-> "open", nominationsLocked |-> FALSE, options |-> {},
          ballots |-> NoVotes, result |-> NoVotes]
NoPoll == [status |-> "none"]
NothingEarly == [options |-> {}, ballots |-> NoVotes]

TypeOK ==
    /\ here \subseteq Peers /\ retracted \subseteq Peers
    /\ poll \in [Peers -> Poll \cup {NoPoll}]
    /\ early \in [Peers -> [options: SUBSET Options, ballots: Votes]]
    /\ \A p \in Peers \ here : down[p] = <<>>
    /\ missed \in BOOLEAN /\ late \in BOOLEAN
    /\ moves \in 0..MaxMoves /\ leaves \in 0..MaxLeaves

Holds(p) == poll[p] # NoPoll

\* Faulty: the tombstones are not loaded again.
NotLoaded(p) == FALSE

IsRetracted(p) == p \in retracted
Open(p) == poll[p].status = "open"
Keep(p, copy) == poll' = [poll EXCEPT ![p] = copy]

\* p is to give q its copy: q came in, or was there before p, and p has not heard yet.
Owes(p, q) ==
    \E m \in Range(down[p]) : \/ m.kind = "joined" /\ m.peer = q
                              \/ m.kind = "peers" /\ q \in m.peers
Unserved(p) == \E q \in Peers : Owes(p, q)

\* A vote of p again, past q: it is away, and has an older one or may yet be given one.
PastWhom(p) ==
    {q \in Peers \ here : \/ Holds(q) /\ poll[q].ballots[p] # 0
                          \/ \E r \in Peers : Owes(r, q)}

\* The server hands a frame to everybody else who is seated.
Broadcast(p, frame) ==
    down' = [q \in Peers |-> IF q \in here \ {p} THEN Append(down[q], frame) ELSE down[q]]
Gets(p, kind) == down[p] # <<>> /\ Head(down[p]).kind = kind
Taken(p) == down' = [down EXCEPT ![p] = Tail(@)]

\* p takes a frame and gives its copy to qs, those who came in or were there before it.
Syncs(p, qs) ==
    LET sync == [kind |-> "sync", from |-> p, copy |-> poll[p]]
    IN  down' = [q \in Peers |-> IF q = p THEN Tail(down[p])
                                 ELSE IF q \in qs \cap here /\ Holds(p) THEN Append(down[q], sync)
                                 ELSE down[q]]

Close(copy) == [copy EXCEPT !.status = "closed", !.result = copy.ballots]

Init ==
    /\ here = Peers
    /\ poll = [p \in Peers |-> NoPoll]
    /\ retracted = {}
    /\ early = [p \in Peers |-> NothingEarly]
    /\ down = [p \in Peers |-> <<>>]
    /\ missed = FALSE /\ late = FALSE
    /\ moves = MaxMoves /\ leaves = MaxLeaves

-----------------------------------------------------------------------------
(* The room: the server and the pages *)

Join(p) ==
    /\ p \notin here
    /\ here' = here \cup {p}
    /\ down' = [q \in Peers |->
                   IF q = p THEN <<[kind |-> "peers", peers |-> here]>>
                   ELSE IF q \in here THEN Append(down[q], [kind |-> "joined", peer |-> p])
                   ELSE down[q]]
    /\ UNCHANGED <<poll, retracted, early, missed, late, moves, leaves>>

Leave(p) ==
    /\ p \in here /\ leaves > 0
    /\ leaves' = leaves - 1
    /\ here' = here \ {p}
    /\ down' = [down EXCEPT ![p] = <<>>]
    /\ early' = [early EXCEPT ![p] = NothingEarly]
    /\ missed' = (missed \/ Unserved(p) \/ early[p].ballots # NoVotes
                         \/ \E m \in Range(down[p]) : m.kind = "ballot")
    /\ UNCHANGED <<poll, retracted, late, moves>>

\* onPeerReady
OnPeers(p) ==
    /\ Gets(p, "peers")
    /\ Syncs(p, Head(down[p]).peers)
    /\ UNCHANGED <<here, poll, retracted, early, missed, late, moves, leaves>>

OnJoined(p) ==
    /\ Gets(p, "joined")
    /\ Syncs(p, {Head(down[p]).peer})
    /\ UNCHANGED <<here, poll, retracted, early, missed, late, moves, leaves>>

-----------------------------------------------------------------------------
(* What people do *)

Move(p) ==
    /\ p \in here /\ moves > 0
    /\ moves' = moves - 1
    /\ UNCHANGED <<here, early, late, leaves>>

CreatePoll ==
    /\ ~Holds(Creator) /\ ~IsRetracted(Creator)
    /\ Keep(Creator, NewPoll)
    /\ Broadcast(Creator, [kind |-> "open", from |-> Creator])
    /\ Creator \in here
    /\ UNCHANGED <<here, retracted, early, missed, late, moves, leaves>>

AddOption(p, o) ==
    /\ Holds(p) /\ Open(p) /\ ~poll[p].nominationsLocked /\ o \notin poll[p].options
    /\ Keep(p, [poll[p] EXCEPT !.options = @ \cup {o}])
    /\ Broadcast(p, [kind |-> "option", from |-> p, option |-> o])
    /\ Move(p) /\ UNCHANGED <<retracted, missed>>

CastVote(p) ==
    /\ Holds(p) /\ Open(p) /\ poll[p].ballots[p] < MaxVotes
    /\ Keep(p, [poll[p] EXCEPT !.ballots[p] = @ + 1])
    /\ Broadcast(p, [kind |-> "ballot", from |-> p, vote |-> poll[p].ballots[p] + 1])
    /\ missed' = (missed \/ (poll[p].ballots[p] > 0 /\ PastWhom(p) # {}))
    /\ Move(p) /\ UNCHANGED retracted

LockNominations ==
    LET p == Creator
    IN  /\ Holds(p) /\ ~poll[p].nominationsLocked
        /\ Keep(p, [poll[p] EXCEPT !.nominationsLocked = TRUE])
        /\ Broadcast(p, [kind |-> "lock", from |-> p])
        /\ Move(p) /\ UNCHANGED <<retracted, missed>>

ClosePoll ==
    LET p == Creator
    IN  /\ Holds(p) /\ Open(p)
        /\ Keep(p, Close(poll[p]))
        /\ Broadcast(p, [kind |-> "close", from |-> p])
        /\ Move(p) /\ UNCHANGED <<retracted, missed>>

\* The creator removes the poll for everybody, others for themselves.
ForgetPoll(p) ==
    /\ Holds(p)
    /\ retracted' = retracted \cup {p}
    /\ Keep(p, NoPoll)
    /\ IF p = Creator THEN Broadcast(p, [kind |-> "retract", from |-> p]) ELSE UNCHANGED down
    /\ missed' = (missed \/ Unserved(p))
    /\ Move(p)

-----------------------------------------------------------------------------
(* What they hear *)

Heard(p) == Taken(p) /\ UNCHANGED <<here, missed, moves, leaves>>

\* Faulty: the ballots that came before the poll stay where they are.
FlushedOptions(p, copy) == [copy EXCEPT !.options = @ \cup early[p].options]

\* flushBufferedOptions, flushBufferedBallots
Flushed(p, copy) ==
    [copy EXCEPT !.options = @ \cup early[p].options,
                 !.ballots = [q \in Peers |-> IF early[p].ballots[q] # 0
                                              THEN early[p].ballots[q] ELSE @[q]]]

OnOpen(p) ==
    /\ Gets(p, "open")
    /\ IF Holds(p) \/ IsRetracted(p)
       THEN UNCHANGED <<poll, early>>
       ELSE Keep(p, Flushed(p, NewPoll)) /\ early' = [early EXCEPT ![p] = NothingEarly]
    /\ Heard(p) /\ UNCHANGED <<retracted, late>>

OnOption(p) ==
    LET o == Head(down[p]).option
        shut == Holds(p) /\ (poll[p].nominationsLocked \/ ~Open(p))
    IN  /\ Gets(p, "option")
        /\ early' = IF ~IsRetracted(p) /\ ~Holds(p)
                    THEN [early EXCEPT ![p].options = @ \cup {o}] ELSE early
        /\ poll' = IF Holds(p) /\ ~shut
                   THEN [poll EXCEPT ![p].options = @ \cup {o}] ELSE poll
        /\ late' = (late \/ (shut /\ o \notin poll[p].options))
        /\ Heard(p) /\ UNCHANGED retracted

OnBallot(p) ==
    LET m == Head(down[p])
        shut == Holds(p) /\ ~Open(p)
    IN  /\ Gets(p, "ballot")
        /\ early' = IF ~IsRetracted(p) /\ ~Holds(p)
                    THEN [early EXCEPT ![p].ballots[m.from] = m.vote] ELSE early
        /\ poll' = IF Holds(p) /\ ~shut
                   THEN [poll EXCEPT ![p].ballots[m.from] = m.vote] ELSE poll
        /\ late' = (late \/ shut)
        /\ Heard(p) /\ UNCHANGED retracted

OnLock(p) ==
    /\ Gets(p, "lock")
    /\ poll' = IF Holds(p) THEN [poll EXCEPT ![p].nominationsLocked = TRUE] ELSE poll
    /\ Heard(p) /\ UNCHANGED <<retracted, early, late>>

OnClose(p) ==
    /\ Gets(p, "close")
    /\ poll' = IF Holds(p) /\ Open(p) THEN [poll EXCEPT ![p] = Close(@)] ELSE poll
    /\ Heard(p) /\ UNCHANGED <<retracted, early, late>>

OnRetract(p) ==
    /\ Gets(p, "retract")
    /\ IF Holds(p)
       THEN /\ retracted' = retracted \cup {p}
            /\ Keep(p, NoPoll)
            /\ missed' = (missed \/ Unserved(p))
       ELSE UNCHANGED <<retracted, poll, missed>>
    /\ Taken(p) /\ UNCHANGED <<here, early, late, moves, leaves>>

\* Faulty: what somebody else has replaces what one has.
MergedOver(mine, theirs) ==
    LET both == [mine EXCEPT
                     !.options = @ \cup theirs.options,
                     !.ballots = [q \in Peers |-> IF theirs.ballots[q] # 0
                                                 THEN theirs.ballots[q] ELSE @[q]],
                     !.nominationsLocked = @ \/ theirs.nominationsLocked]
    IN  IF theirs.status = "closed" /\ mine.status = "open" THEN Close(both) ELSE both

\* mergePollFromSync, for a poll that is known: a ballot only where there is none.
Merged(mine, theirs) ==
    LET both == [mine EXCEPT
                     !.options = @ \cup theirs.options,
                     !.ballots = [q \in Peers |-> IF @[q] # 0 THEN @[q] ELSE theirs.ballots[q]],
                     !.nominationsLocked = @ \/ theirs.nominationsLocked]
    IN  IF theirs.status = "closed" /\ mine.status = "open" THEN Close(both) ELSE both

OnSync(p) ==
    LET theirs == Head(down[p]).copy
    IN  /\ Gets(p, "sync")
        /\ IF IsRetracted(p) THEN UNCHANGED <<poll, early>>
           ELSE IF Holds(p) THEN Keep(p, Merged(poll[p], theirs)) /\ UNCHANGED early
           ELSE LET copy == Flushed(p, theirs)
                IN  /\ Keep(p, IF theirs.status = "closed" THEN Close(copy) ELSE copy)
                    /\ early' = [early EXCEPT ![p] = NothingEarly]
        /\ late' = (late \/ (Holds(p) /\ ~Open(p) /\ poll'[p].ballots # poll[p].ballots))
        /\ Heard(p) /\ UNCHANGED retracted

Next ==
    \/ CreatePoll \/ LockNominations \/ ClosePoll
    \/ \E p \in Peers :
           \/ Join(p) \/ Leave(p) \/ OnPeers(p) \/ OnJoined(p)
           \/ \E o \in Options : AddOption(p, o)
           \/ CastVote(p) \/ ForgetPoll(p)
           \/ OnOpen(p) \/ OnOption(p) \/ OnBallot(p)
           \/ OnLock(p) \/ OnClose(p) \/ OnRetract(p) \/ OnSync(p)

Spec == Init /\ [][Next]_vars

-----------------------------------------------------------------------------
(* Properties *)

AtRest == \A p \in Peers : down[p] = <<>>

\* Group_Decisions.md:32-34: when nothing is under way, everybody in the room that has the
\* poll has the same poll, votes and result, whoever came in when and whatever was heard before
\* the poll itself.  Not so when a peer left, removed the poll or lost it with a newcomer
\* unserved, when a second vote went past somebody who has or may yet be given an older one,
\* or when a vote or a nomination crossed the close or the lock.
PollsAgree ==
    AtRest /\ ~missed /\ ~late =>
        \A p, q \in here : Holds(p) /\ Holds(q) => poll[p] = poll[q]

\* app.ts:8981, "tombstoned -- don't heal back": who removed the poll, or heard its creator
\* remove it, never has it again, whatever frames and copies of it are still under way.
RetractedStaysGone == \A p \in retracted : ~Holds(p)

\* app.ts:7829, "latest wins": a peer never goes back to an older vote of anybody, though old
\* copies of the poll arrive after newer votes.
MovesForward ==
    \A p, v \in Peers :
        Holds(p) /\ Holds(p)' => poll[p].ballots[v] <= poll'[p].ballots[v]
BallotsMoveForward == [][MovesForward]_vars

=============================================================================
