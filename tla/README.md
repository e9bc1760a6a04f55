# Quantum OS: its peer-to-peer core in TLA+

This directory models the parts of Quantum OS that are hard to test: how pages and
agents find each other in rooms and keep a seat through lost connections, how they link
up directly, and the protocols they run over that: swapping notes, trading across
shards, fetching files, voting, handing down trust. TLC checks small instances, TLAPS
proves the central invariants for every instance.

    tlc -workers 2 -config MCServer_server.cfg MCServer
    tlapm SignalingProofs.tla

Paths below are relative to `packages/`, or to `scripts/` where they say so.

## The system

| part | state it keeps | operations | what is hard |
|---|---|---|---|
| signaling server, `signaling/src/server.ts` | rooms, `peerIndex` (peerId -> room, socket), `wsIndex` (socket -> peerId), missed pongs, grace timers | join, leave, relay, relayData, close event, grace timer, heartbeat, stop | a close event long after the socket was superseded; grace timer against resume; three maps that must agree |
| room, `signaling/src/room.ts` | seats: socket, grace timer, queue | send, broadcast, deliver, replay | queue at its cap, replay order, sockets that look OPEN and are not |
| `QOSPeer` control plane, `browser/src/peer.ts` | current socket, suspicion, probe, liveness and reconnect timers, seal chain, outbox | connect, wake, probe, liveness tick, reconnect, send, disconnect, pagehide | events of sockets already given up; awaits; answers after the timeout |
| `QOSPeer` mesh, same file, and its Node twin `scripts/qos-cli/qospeer.mjs` | RTCPeerConnections, channels, roster, attempts, relay ids seen | sweep, offer, answer, rollback, renegotiate, reap, relay | glare; awaits; rebuilding what still works; two builds that differ |
| library fetch, `library-fetch.ts` | asked, incoming, part writers | want, cancel, head, part, deny, serve | every await; two ways of sending that do not keep order between them |
| cross-shard exchange, `rholang-exchange.js` and `exchange-2pc.ts` | pools, balances, the log of legs; a client's plan | open, provide, deposit, swap, withdraw, link, setRate, prepare, prepareReceive, commit, abort; recovery | a crash between legs, two devices at once, expiry |
| rendezvous, `rendezvous.ts` and `app.ts` | free and locked notes, in memory and stored; proposals | swap, accept, reject, abort, counter, timeout, reload | frames lost or crossing; a reload in the middle |
| polls, `polls.ts` and `app.ts` | polls with ballots, tombstones, frames that came early | create, add, vote, lock, close, forget, sync | order of gossip; peers that come, go and come back |
| groups, `gov.ts` and `app.ts` | members, delegations, ratings, censures | set and remove members, delegate, rate, censure, recover an identity | fixpoints in bounded rounds, cycles, re-keying |
| room tabs, `app.ts`, and identity chains, `dyncap.ts` | a context per room and the aliases into one of them; the sign queue; numbers per room, in memory and stored; a listener's ring of witnesses | switch, open, close, connect, sign, verify, reload | closures that run after the aliases were put back; numbers that may come twice |
| POSIX sockets `posix-net.ts`, media library, calls, record, locker | see Not modelled | | |
| ZFA kernel, macro language, Rholang tools, search, user interface | text, terms and DOM | parsing, printing, drawing | sequential |

The pieces meet as follows. A page (`app.ts`) makes one QOSPeer per room tab; QOSPeer
keeps one WebSocket to the signaling server, joins the room over it, and sends
everything small and durable as sealed `data` frames which the server relays or queues.
`offer`, `answer` and `ice` frames go the same way, unqueued, to set up data channels,
which carry bulk: file parts, calls, socket frames. Swaps, polls and groups sit on
`QOSPeer.send` and `broadcast`; each keeps a store per room that is saved to
`localStorage`. The exchange is a contract on each shard; a client drives a trade
through two of them.

## The modules

**Signaling** is the server and its rooms. A Node process runs one handler at a time,
so each handler, timer and event is one action; what handlers do to the maps is written
as functions of the record `srv` (`OnLeave`, `HoldSeat`, `Resume`, `Enter`, `Deliver`)
composed in the order of the code's calls. A socket is `idle`, `open`, `zombie` (gone,
but readyState still says OPEN) or `closing` (not OPEN, its close event still to come).
`told` is a history variable: the roster a client could compute from the `peers`,
`joined` and `left` frames written to a socket. A seat's `got`, `owed` and `lost` are
history too, and so is `cause`: the socket whose join or leave, or the seat whose grace
timer, the last step handled. A frame is a number, in the order of acceptance.

**RoomService** is what a room promises its members: out, here or away; data waits for
those away; whoever comes back gets all of it in order. **SignalingRefinement** states
that Signaling implements it (a seat is here while it has a socket, away while held).

**SignalClient** is one page's end of the control plane. The QOSPeer object is the
record `me`; methods are functions of it. Sockets the page has given up still exist:
their frames may arrive and their handlers may fire. The server is external here,
reduced to what it does with one seat. Time is abstracted to timers that fire. `Overlap`
says whether `wake()` may come in the two situations the code does not guard: before a
closing socket's close event, and before `connect()` has its key (finding 3).

**MeshPair** is two peers making a direct link, each a browser tab or a Node process
(the two build their connections differently, and meet in one room). A connection is its
ufrag, its signaling state and the session it took from the far side; making an offer or
an answer is awaited, so frames come in between. WebRTC is external: a link can form
when one connection answered the other's offer. Who dials makes channels, and only the
connection `handleOffer` makes listens for those of the far side (`channels`, `listens`):
two open channels that nobody hears are a state of the model. **Overlay** is a frame flooded over the
ring and skip links of a settled room, with its dedupe and its hop budget.

**LibraryFetch** is a fetch between an asker and its holders, with one step per await.
Relayed frames and direct-channel frames are separate queues.

**Exchange** is the contract's cells on every shard and the clients that trade across
two. Every call is a deploy, hence atomic; a refused call changes nothing. The driver of
the calls is external: the source has the order of the calls (the header of
`exchange-2pc.ts`) and `decideRecovery`, and people or scripts make the deploys. A
device makes the next call only after the last was answered with success; it may be lost
between two calls, another device with the same key may recover the trade while the
first is still at work, and a shard may be unreachable, which reads as `unknown`. The
histories `given` and `own` are what the calls on single pools alone would have left.

**Rendezvous** is the swap of two bearer notes between two peers: the commands of
`/rdv`, the handlers of its six frames, the timeout, and both copies of the wallet. A
note is a set of coins (**BearerNotes**, which also has the module's parameters), so that
splitting one and paying twice are visible. `twice` is a history variable: some wallet
was handed a coin it still had in a note. In the run, with its one proposal, that never
happens; with three peers it does (see "Seen while modelling").

**RoomTabs** is a page's room tabs and what it signs in them. The page's globals are
aliases into the context of one room (`setActiveRoom`); callbacks of the other rooms swap
theirs in and back within one task, so between tasks the aliases are those of the tab
that is shown (`tabs.shown`, `Peer`). `signedSend` and `signedBroadcast` queue a closure;
`Run` is what it does up to its await (it takes the number, of whatever room is shown),
`Finish` and `SigningFails` what it does after. `Signed(meant)` is called from a callback
of some room's connection (`PeerReady`), a command or a `/share`; `meant` is history.
`connect()` awaits too, and gives its connection to the tab shown by then. In each room
one listener verifies what comes, in any order and as often as it likes; it keeps what
it knows through reloads, so its own are no steps. Hashes are ids: a witness is shared by
no two envelopes. The browser has one table of stored numbers (`qos-dyncap-state`), and
every tab saves its own over it (app.ts:826-827, 883): `other` is what another tab has
loaded, either a duplicate with the page's peerId (`twin`), whose envelopes listeners take
for the page's, or a tab that claimed a peerId of its own (peer.ts:197-229). `saved` is what the
page itself saved last, `setBack` the rooms in which a reload read less than that; both
are history. Left out: connections of which another has taken the place in their tab,
timers of a closed tab, and a third tab at the same time.

**Polls** is one poll in a room whose peers join, leave and come back: every frame with
its handler, the buffers of what came early, the tombstones, and the sync a newcomer is
sent. A ballot is the number of times its voter has voted. A signed frame is verified
after an await in the code (`verifyDyncapIfPresent`); here frames are taken in the order
they came.

**Governance** is a group's record and the algorithms on it: positive trust in bounded
rounds (an array walked in order, in place), accountability by quorum, voting weights
along delegations, and the re-keying of a member that recovers its identity. They are
checked against definitions of another form (`AtLeast`, `Judged`) on every record a few
changes can reach.

`MCSignaling`, `MCSignalClient`, `MCLibraryFetch`, `MCExchange`, `MCRendezvous` and
`MCRoomTabs` instantiate single modules for TLC, and `MCServer` Signaling on three
instances. `MCControlPlane`, `MCFetchPolls` and `MCParts` put modules side by side that
never meet: a behaviour picks one and runs it, the others stay where they start. No
composition is claimed by that. Operators marked *faulty* in a comment are wrong versions
of a definition, each put in its place to see that the property it is meant to break does
break; no specification uses them.

## The runs

| run | bounds | shows |
|---|---|---|
| `server`: one room | 1 room, 2 peers, 3 sockets (two of them one peer's), queue of 1; 2 frames, or 1 restart | seats are never ghosts (`NoGhostSeat`), nothing overtakes or repeats (`InOrder`), the queue holds the newest frames (`BacklogKept`), a seat on a socket goes only by a frame of that socket, a held one only by its own timer (`GoneOnlyByLeaveOrGrace`) |
| `server`: moving socket | 2 rooms, 3 peers, a socket that moves rooms under another id while its first seat may be resumed elsewhere; no frames | the same but for the frames; rooms and indexes agree (`IndexesAgree`), clients are told the room's true membership (`RosterTold`), the server implements `RoomService` (`MovesAsPromised`, here without data, and in one room with data, up to its second frame) |
| `signaling_tab` | a tab in two rooms under one peerId | violation: the first room keeps a ghost |
| `signaling_blip` | 1 frame | violation: a frame to a dead or closing socket is lost |
| `control_plane` | the page: 3 sockets, outbox of 1, 2 envelopes, 1 broken connection, 1 wake, no overlap; the server: as `server`: one room, with the restart | the page is never wedged, has one socket alive, forgets nothing typed, keeps its order (`NeverWedged`, `OneSocket`, `NothingTypedIsForgotten`, `LeavesInOrder`), settles on one socket and gives its seat up when left (`Settles`, `SeatIsGivenUp`); on the server a peer that evaporated is seen to leave (`EvaporatedIsSeenToLeave`), restarts included |
| `client_overlap` | as the page above without envelopes, with overlap | violation: two sockets replace each other for ever |
| `fetch`: LibraryFetch | 2 holders, 2 chunks, 2 asks, 1 fault | only the whole, right file is kept, once (`KeptIsTheFile`, `KeptOnce`); an ask is forgotten in the end |
| `fetch`: Polls | a creator, a voter and a third, 2 votes a peer, 2 moves in all, 1 departure (of the creator or the third: voter and third are alike) | once all frames are in, everybody there holds the same poll (`PollsAgree`), a retracted poll does not come back (`RetractedStaysGone`), ballots never go back (`BallotsMoveForward`) |
| `fetch_overtaken` | no fault at all | violation: a chunk that precedes the open part file ends the fetch |
| `exchange` | 2 shards with a pool each, 2 identities, 1 trade, 2 devices, rates 2 and 3 (scale 2), 1 crash or unread shard, 1 other call, expiry one block away; from nothing, and from pools that are filled | nothing is made or lost but by the calls on single pools (`Accounted`), only an abort overdraws (`OnlyAbortOverdraws`), legs are split only by expiry (`LegsAgree`), a trade ends (`TradeEnds`) |
| `exchange_expired` | 1 device, no fault, no other call | violation: the calls made in order pay on one side only |
| `parts`: Rendezvous | alice with a note of two coins, bob with two of one, 1 proposal, 1 counter, 1 fault | a swap is whole (`SwapIsWhole`), locks back promises (`LocksBackPromises`), nobody pays without being paid (`NobodyPaysAlone`) |
| `parts`: MeshPair | browser and Node in all pairings, 6 sessions, 1 new roster, 1 call, 1 fault | two peers come to open channels and keep them, and hear each other unless an end answered an offer on a connection of its own dial (`Links`); a link that works is not torn down by the set-up (`KeepsWhatWorks`) |
| `parts`: Overlay | rooms of 5, 6 and 7, at most one link missing | every frame reaches everybody (`FloodReaches`) |
| `parts`: Governance | 3 members of which one founded it, 1 more identity, a chain of ratings or none, 3 changes | trust is what its definition says (`TrustIsEarned`), votes land once (`VotesLand`), recovery keeps standing (`RecoveryKeepsStanding`) |
| `parts`: RoomTabs, two tabs | 2 rooms, 2 envelopes, ring of 2, a duplicate, no reload | only a page with a duplicate, whose envelopes strayed between rooms, or which read stored numbers another tab had set back, is ever contested (`HonestIsTrusted`), a fork is seen (`ForkIsSeen`) |
| `parts`: RoomTabs, one tab | 4 envelopes, ring of 2, a duplicate, no reload; 3 envelopes, a reload and another tab, a duplicate or not | the same, with a ring that forgets, and with numbers read back |
| `room_crosstalk` | 2 rooms, 1 envelope; nobody switches tabs while one is connecting | violation: an envelope for one room is signed for and sent in the other |
| `rdv_reload` | 2 coins against 1, 1 reload | violation: what is taken back after a reload is not stored |

Why the bounds suffice. The interesting cases of the server need a socket that is
superseded while its close event is outstanding (two sockets of one peer), an observer
(a second peer), a queue that overflows (cap 1, two frames) and a socket whose two ids
meet (two rooms). For the page, three sockets are the current one, the one given up and
the one the reconnect opens; an outbox of one overflows at the second envelope. For the
fetch, two chunks are the least with a gap, two asks the least that overlap. For the
exchange, a second device is what makes a read stale; the other call is what may change
a rate or spend a balance between a prepare and its abort; rate 3 at scale 2 makes the
division round. Notes of two and of one coin give the exact note, the split and the one
too small. Six sessions are two more than two ends and their two pending offers use.
A ring of two forgets at
the third number, and with four envelopes, two of them under one number, one forgotten
may come again. Room sizes 5 (a full mesh), 6 and 7 are where skip links begin to matter, and each node
there has a way around a missing link; larger rooms are another matter (see "Seen while
modelling"). Three members are the least with a delegate of a
delegate, and with a quorum of two against a third; three changes lead to every one of
the censure, delegation and rating cases from the rated start.

`server` has a `VIEW`: states that differ in `cause` alone are explored once. No step
depends on `cause` and only steps are asked about it, each as it is made, so nothing is
missed. The other tab of RoomTabs is opened once in a behaviour, and without a reload it
is a duplicate: the page then never reads what the other tab saved.

`CHECK_DEADLOCK` is off where everything may really end: a page that was left, a fetch
with no ask to make, a swap that is over. `server`, `signaling_*` and `exchange*` keep deadlock
checking on.

Fairness. `Signaling!Fairness` asks for the heartbeat, each grace timer and each close
event: Node's timers and event loop. Nothing is asked of clients. `SignalClient!Fairness`
asks for the page's timers and socket events and for a network that delivers while it is
up; the user need do nothing. `LibraryFetch!FairSpec` asks for the ask's timer only.
`Exchange!Fairness` asks each device that is at work to make its next call, and some
device to look at a trade again: without that a trade stays as a crash left it, and
nothing in the code looks by itself. `MeshPair!Fairness` asks for deliveries, for
awaited work to end, and (strongly, as an attempt in between disables it) for the sweep
and the reaping: the waits between retries grow to 90 s with jitter while an attempt is
given up after 45 s, so a sweep does in the end find the far side doing nothing.
The rest of the mesh is weakly fair. Two Node peers never sweep, so `Links` is about
pairs with a browser.

## Findings

1. **A tab in two rooms** (`signaling_tab`). `peerIndex` is keyed by peerId and a tab
   uses one peerId for all its rooms, so the second join hides the first seat from its
   own close event; it stays listed for ever once that socket dies.
2. **A blip can lose data** (`signaling_blip`). Until the server has the close event,
   frames are written to the dead socket, and while it is CLOSING they are dropped.
3. **Overlapping sockets** (`client_overlap`). `onclose` does not check that its socket
   is still the page's; a wake while the old one is CLOSING makes two that evict each
   other. `control_plane` shows that without the overlap the page does settle.
4. **Parts overtake the part file** (`fetch_overtaken`). Heads are relayed and need an
   await before they count, parts go direct.
5. **Expiry splits a trade** (`exchange_expired`). Anyone may abort a leg that has
   expired; a client between its two commits then has paid on one shard and is refused
   on the other. `commit` does not read the block, so a slow client walks into it. The
   state is the one `exchange-2pc.ts` calls not reachable by the protocol in order.
6. **A reload, twice** (`rdv_reload`). After a reload the notes of orphaned locks are
   free in memory, their stored copy is removed, and the wallet is not saved.

7. **What is meant for another room** (`room_crosstalk`). A closure of the sign queue
   reads the aliases when it runs, after the callback or `/share` has put them back. The
   handshake of a background room goes to the room that is shown, signed for it, or is
   dropped if that one is not connected; a shared lemma too, though it is stored in the
   right room.

Seen while modelling and left out of the properties, each with the name of the exemption:

- Signaling, page: a `join` still in flight on a socket the page has given up takes the
  seat back when it arrives, and data behind it is accepted after newer data (it heals at
  the next close event).
- Fetch: `want()` with no channel leaves an ask nothing ever forgets; a denial from a
  holder no longer asked ends the current fetch; a fetch cancelled while its part file is
  being opened goes on.
- Exchange: `abort` may leave a reserve or balance negative when what a prepared leg
  moved was spent meanwhile (`OnlyAbortOverdraws` says only it can). Its poolId is not
  compared with the leg's (rholang-exchange.js:357-391): an abort that names another pool
  of the same shard gives the leg's amounts back there, and `Accounted` no longer holds
  (`MisnamedAbort`; the run has a pool to a shard). A shard that cannot be read looks like a leg that was never
  prepared, so (committed, unread) is called inconsistent.
- Rendezvous (`astray`): a counter that crosses another frame of its proposal, fails
  half-way (locks released and terms rewritten before it is known that a note for the new
  ones exists, app.ts:5518-5541) or is lost leaves the two sides with different terms.
  `cut`: a commit that is lost, or an acceptance that meets a participant that has given
  up, is paid by the proposer alone; AtomicSwapDemo.md describes this one.
  `twice`: with three peers nothing need be lost or countered. Alice accepts carol's
  proposal and locks a note; carol commits and passes the note on to bob, who passes it to
  alice before she has heard carol's commit. Alice now has the note locked for one proposal
  and free for another, and carol's commit takes the lock and leaves the note, so
  that she has what she paid with: `SwapIsWhole` without its `~twice` fails. If she promises
  it once more, the second lock overwrites the first, as `lockedNotes` is keyed by the token
  (app.ts:2109), and `LocksBackPromises` without it fails too: TLC finds both, with three
  proposals and with four.
- Mesh: a fresh answer is made on one's own dialled connection when glare is seen late
  (peer.ts:1168-1176), which nobody hears; an ignored offer refreshes the age of one's
  own attempt (1153); a rollback in `stable` throws and drops the offer (1185); a lost
  renegotiation offer leaves the connection in have-local-offer. `Links` shows that both ends come to open channels all the same.
  They may be deaf: when both dial and the polite one rolls back, it answers on the
  connection it made for its own offer, which has no `ondatachannel` (only one made by
  `handleOffer` has: peer.ts:1118-1148, 1168-1176). Each end then opens the channel it
  made and neither hears the other's, and as the sweep leaves an open channel alone it
  stays so: the state peer.ts:1158-1163 and docs/connection.md:161 call connected but
  silent. Bulk frames are lost in it; what goes sealed over the server is not. `Links`
  without its exemption (`AnswersOwnDial`) is violated, with no fault at all.
- Flood: `FloodReaches` is about small rooms, whatever copy comes first. A peer relays the
  first copy it hears and drops the rest (peer.ts:1391), even one with more hops left, so
  copies that went back and forth over skip links can run out of hops on both sides of a
  peer: with a link missing in a room of 14, without in one of 22. It takes links that
  are slower than many hops over others, which the comment at peer.ts:756 leaves aside.
- Polls (`missed`, `late`): who comes in is served by whoever is there, once: a peer that
  closes its page, removes the poll or hears its creator remove it before it has served
  a newcomer leaves that one without, though a third peer may have learnt more
  meanwhile. A second vote that goes past a peer that is away does not reach it later if
  it holds the first, or is given it by who was itself away, as the sync fills only
  ballots that are missing (app.ts:9023-9025, where Group_Decisions.md says late joiners
  heal); ballots that came before the poll are lost with the page; a ballot that crosses
  the close stays in its voter's copy only; retract, lock and close frames are ignored
  by a peer that does not hold the poll yet. `PollsAgree` is about what is left, and
  these conditions are what two departures or a fourth peer need: the run's one departure
  is content with fewer.
- Room tabs (`HonestIsTrusted` lets all three contest a page): a switch of tabs while a
  signature is awaited sends an envelope numbered for one room in another; duplicating a
  browser tab copies the peerId and the seed, so two honest tabs look like a clone to
  whoever hears both. And any second tab of the browser, though it has a peerId of its
  own, saves the numbers it knows over those of the first, when it signs and when it
  hears a signed envelope (app.ts:826-827, 853, 883). If the first page is then reloaded
  it signs numbers again that it had sent, and whoever heard both contests an honest
  page: the model reaches it with two envelopes, no duplicate and nothing astray
  (`setBack`). `connect()` puts its connection into the tab shown when
  `fetchAutoTurn` is back (app.ts:7062, 8422).
- The consensus probe: `openProbeWindow` (app.ts:905-909) assigns a new probe to the
  alias only, and the `finally setActiveRoom(prev)` of its caller restores the closed one
  of the context; the window docs/commands.md:559 describes never collects anything.
- Governance: ballots and a poll's creator are not re-keyed when an identity is
  recovered; a sync from somebody who missed the removal brings a member back, and
  what a removed member said of others revives when it is added again.

## The proofs

`SignalingProofs` proves, from `SignalingAssumption` alone, that every behaviour keeps
the types (`SignalingTypes`), handler by handler. `SeatsAlwaysHold`, and from it
`SeatsAlwaysIndexed` and `NoSeatIsAGhost`, hold for every set of peers, rooms and
sockets under `ClaimsAreSeparate`: a peerId joins one room only and a socket never two
ids in one room (finding 1 is what happens without it).

Neither invariant is inductive. `IndexesAgree` needs to know that a seat was claimed
(`SeatsClaimed`: so that a join under an id indexed elsewhere cannot exist), that no
socket stands in two index entries (`OneEntryPerSocket`: `onLeave` forgets the socket of
the entry, which must be nobody else's) and that an entry's socket is indexed until its
close event (`IndexedUntilClosed`: so that the close event finds the seat it has to
hold). `SeatsInv` adds these. `NoGhostSeat` comes
with it because whether a seat's socket is live and whether it is indexed are the same
question at `OnDisconnect`. The proof has a lemma per handler for what it does to the
maps, a step per action, and one per conjunct below.

From `SeatsInv` follows the action property too: `SeatsGoByLeaveOrGrace` says a seat
bound to a socket goes only in a step that handles a join or a leave on that very socket,
and a held one only in the step of its own grace timer. What `onLeave` finds under a
peerId is the seat of the socket that asked, and a seat with a socket has no timer
armed, so a stranger's leave or a timer that outlived a resume removes nobody.

It proves what else the server promises too, in three parts.
`RosterIsTold` holds under the same condition and rests on `SeatsInv`: a `left` or
`joined` frame edits the roster of every socket somebody in the room sits on, so the
argument needs that nobody else sits on the socket a joiner brings (`OnlySeatOn`), and
that what an explicit leave names is a seat the leaver has. `FramesStayInOrder` and
`BacklogIsTheNewest` hold from `SignalingAssumption` alone, whatever the clients claim.
Their invariant is about one seat: frames written before frames queued, each lot
increasing and no frame above the number accepted (`Ordered`), and the queue the tail of
what is owed (`Backlog`). `ServerImplementsRoomService` is the refinement: Init maps to
Init and every step to one step of a member's place or to a stutter. Besides `SeatsInv`
and the invariant of the frames it needs only that nothing is left of a peer that has no
place (`Vacant`), so that entering is always entering anew (`PlacesInv`). It assumes that
the name `None` for nobody's place is the name of no place (`RefinementAssumption`).

`SignalClientProofs` proves, from `ClientAssumption` alone, that the page keeps its types
and its outbox the cap (`SignalClientTypes`). `PageIsNeverWedged` and
`PageKeepsOneSocket` hold for every number of sockets, faults and wakes, under `~Overlap`
(finding 3 is what happens with it). The inductive invariant is `PageInv`. A page that
has not joined has touched no socket (`Untouched`: so nothing fires before connect() has
its key). A page that has joined and was not left is `Alive`: the two properties, and
that only an open or closing socket is suspect. The last is what the step of a reconnect
needs: a suspicion that outlived its socket would fall on the next one, which no probe
watches. The argument first shows what each method does to the control fields (`Same`:
signal, flush, heard and seal touch only queues and wires), then that a socket detached
by `declareSocketDead` can never again be opened, watched or run its handler (`DeadInv`,
`TakeOver`, `ClosingInv`), one lemma per group of actions.
`TypedIsNeverForgotten` needs no condition. Its invariant, `KeptInv`, is about numbers:
what waits and what is being sealed follow each other, what the outbox had no room for
is older than both, and together with what was written they are all that was sent; so
what a full outbox lets go is always the oldest. `EnvelopesLeaveInOrder` is under
`~Overlap`: `OrderInv` adds that what was written is older than what was not, and that
envelopes wait only while there is no trusted socket to take them (`WaitsForSocket`). The
condition is needed: with an overlap and two wakes, `onclose` of a socket that was
replaced (peer.ts:893-901 does not ask whose it is) clears the suspicion of the new one
without flushing, and the next envelope overtakes those that wait. TLC finds that
behaviour in `SignalClient` with `Overlap = TRUE` and `MaxWakes = 2`.

`ExchangeProofs` proves, from `ExchangeAssumption`, `ExchangeTypes` and `TradesAgree`
for every number of shards, pools, identities, trades and devices, and any number of
crashes, unread shards and other calls. `LegsAgree` is not inductive: what a device does
next depends on what it did or read before, while others move. `TradeInv` adds what a
device at each step may still rely on (`DeviceKnows`: one that is about to commit the
remote leg knows the local one committed, and committed is for ever; one that has read
`prepared` knows only that the leg is not unknown), that a log entry belongs to its
trade (`LogsOfTrades`: so that only its holder, before the expiry, may abort it), and
which pairs of statuses exist (`LegsInOrder`). Each kind of step is a lemma on a single
trade; devices other than the one that moves keep what they know because statuses only
move forward. `OnlyAbortsOverdraw` is the action property: a call that would leave a
reserve or a balance negative is refused, each by its own check, which reads the amount
the same call then takes.

`BooksAreKept` proves `Accounted` for any finite number of trades, provided an abort
names the pool its leg is on; `OnePoolBooksAreKept` needs no such condition where a shard
has one pool. TLC finds what happens without: with two pools on a shard, a leg prepared,
expired and aborted under the other pool's name. The invariant (`BooksInv`) writes each
reserve and balance as what the calls on that pool left plus a sum over the trades, and
adds that a leg is on one of its trade's two pools (`LegsInTheirPools`). Each action moves
the reserve or balance by exactly what one term of the sum changes, and no other term.
The sums are folds over the finite set of trades: the library's induction theorems take
an operator and cannot be used, but `FS_StrictSubsetOrderingWellFounded` and `WFMin` do
not, and give induction over the subsets of a finite set (`SubsetInduction`), from which
`SumMoves` follows: a sum changes by what its one changed term does.

`LibraryFetchProofs` proves, from the assumptions of `LibraryFetch` alone, `FetchTypes`,
`KeptFilesAreWhole` and `KeptFilesOnce` for every number of holders, chunks, asks and
faults. Its invariant needs to know of every transfer, the cancelled ones too, that no
more chunks wait to be written than arrived, and that a file is kept only when its writer
is closed, nothing waits and all of it arrived (`Sound`); of the transfer in the map, that
its writer is open and nothing of it is kept (`Current`: so that the chunk that finishes
it is the first to do so). `AsksSpent` bounds the timers, part files being opened and
frames on their way by the asks made, which the types need.

`RoomTabsProofs` proves, from `TabsAssumption` alone, `RoomTabsTypes`, `PageIsTrusted`
and `ForksAreSeen` for every set of rooms, size of the ring and number of envelopes,
reloads, failures and losses. `HonestIsTrusted` needs to know where the numbers of the page
are in a room where no reload has read one that was set back: none it sent is above the
one it saved last, none it saved above the one in memory, the one being signed is above
all it sent, and no two of its envelopes numbered for one room share one (`Numbered`,
which asks nothing of what is stored, since other tabs write there; a reload that
reads less than was saved puts the room in `setBack`, any other keeps all four);
what a listener holds was sent. `ForkIsSeen` needs that a listener holds the highest
numbers it has heard, all of them while the ring is not full: forgetting the lowest of
one too many keeps that (`PrunedKeepsHighest`).

`PollsProofs` proves `PollTypes`, `RemovedPollsStayGone`, `VotesMoveForward` and
`PollsAlwaysAgree` for every number of peers, options, votes, moves and departures. A tombstone is for ever and every way to a
copy asks for it, but a copy may also arrive in a frame sent before the removal, or be
among those held back; `RetractedStaysGone` is inductive once each handler is seen to ask
before it merges. `BallotsMoveForward` is not: a ballot overwrites whatever was there. It
needs that at every peer no vote on its way is behind one that is known, kept from early
or comes before it (`VotesInOrder`), and that nobody knows or will hear more of a voter
than that voter itself (`NobodyAhead`), so that its next vote is news everywhere.
`PollsAgree` speaks of states with nothing on its way, whatever order the frames came in,
so its invariant `AgreeInv` says where all that is known will get to. A `Fact` is that
there is a poll, an option, that it is locked or closed, that somebody voted at least so
often. What anybody in the room has heard, everybody there will know, or is to be served by
somebody who will have the poll and know it by then (`Reaches`). Lock and close mean nothing
to who has no poll yet, so before the creator's next word everybody will have it or be
served by the creator (`CreatorServes`). A copy fills missing ballots and replaces none, so
who has an older vote than somebody else hears the newer one as a ballot (`NoneBehind`), and
so does who is to be served an older one (`NonePassed`). These four are under `~missed` and
`~late`, the conditions of `PollsAgree`. Besides, nobody has heard of a poll its creator has
not opened (`Unborn`), who is away keeps nothing early (`AwayIdle`), and a closed copy
counts its ballots (`Results`). The proof says once what taking a frame does to what is
known (`Takes`), shows each kind of step to leave nobody without (`Carries`), and has one
lemma for each part of the invariant over the kinds of step there are (`StepCases`).

`MeshPairProofs` proves `MeshTypes` and `WorkingLinksAreKept` for two browsers, two nodes
or one of each, and any number of connections, rosters, media changes, restarts and
faults. `KeepsWhatWorks` says of one step that no handler closes a link both ends still
have; that a frame from before the link cannot reach its ends is the history behind it,
and `MeshInv` is that history. On a wire the frames of one connection are together and
last, and the only ones once the other end knows it (`OrderOK`: so nothing stale is
behind a link's own frames). Who knows a connection took its one offer (`DialOK`),
a node offers once before anything is known of it (`FirstOK`), an offer is answered once
(`OnceOK`), and nothing is offered behind an answer before the channel opens (`BehindOK`).
A node on a link is asked one thing at a time (`TurnOK`: so an offer finds it idle, and
it renegotiates where it would otherwise have rebuilt). The proof has one lemma per kind
of step (dial, dial anew, offer, answer, settle, open, close) on the values at two ends,
and the actions of `MeshPair` are shown to be such steps; only settling makes a link.

`RendezvousProofs` proves, from `BearerNotesAssumption`, `RdvTypes`, `LocksBack`,
`NobodyPaysAloneEver` and `SwapsAreWhole` for any number of peers, proposals under way at once, coins,
counters, lost frames and reloads; the assumption is that a spec names a currency and a
positive number of units, and that every coin starts in one purse, once. All but the types
is under `~astray` and `~twice`: up to the first counter that goes astray or coin that
comes to a wallet a second time, which are the two ways TLC finds for a lock to come loose;
`SwapsAreWhole` needs `~cut` besides, as a commit nobody applies loses its coins. They are
what `NobodyPaysAlone`, `LocksBackPromises` and `SwapIsWhole` of the run `parts` say.
`LocksBackPromises` says nothing of the frames under way, and is not inductive: whether a
commit takes what is locked depends on the accept that came before it. `RdvInv` says of
each proposal who its two parties are and what there can be of it (`Between`), and of the
pair's entries, locks and wires (`Deal`): a lock is what the entry says was put in
(`ProposerBacked`, `ParticipantBacked`); the last thing the participant said is what it
stands by (`AnswerStands`), so that what the proposer heard is what the participant has
locked (`PaidIn`); both have the same terms but for a counter on its way, of which there is
one, on a wire with nothing coming the other way (`SameTerms`, `NoCrossing`); a commit is
the only one and takes what is locked (`CommitsFit`); who sent the last word has no entry
any more (`EndsLast`). That gives the lock and the terms; that the wallet changes by just
that payment needs that no two of its notes share a coin (`SeparateInv`), and the step of a
reload needs what storage can have (`StoreInv`). The frames are read through a few
predicates of a wire (`No`, `First`, `Alone`, `LastToken`, `Terms`), with a lemma for what
sending and taking a frame does to each, so that the lemmas on `Deal` never index a
sequence.
That a swap is whole is two layers more. `Bound` is what binds the two sides while nobody
has given up: a proposal is not both aborted and committed, who is to get a commit still
has the proposal open, and so has whoever's note the proposer has heard or is about to
hear; without it a commit could find nobody to apply it. `Balanced` places every coin:
with one peer that owes it in no commit, or in exactly one commit on its way, from the peer
that gives it up to the one that gets it. Two steps move coins across that line, the
finalizing of a proposal (the proposer applies its half and puts the other half on the
wire) and the applying of a commit; each of the others is shown to move none, and
`SeparateInv` keeps the note given and the note got apart from those of every other commit.

Only model-checked, and why:

- liveness, in every module: out of the proof system's reach;
- `TrustIsEarned`, `VotesLand`, `RecoveryKeepsStanding`: they compare algorithms written as
  RECURSIVE operators, which the provers cannot unfold;
- `FloodReaches`: it holds of small rooms and not of every size (see above), so there is
  nothing to prove for all of them; the run goes through every order in each small room.

## Not modelled

- The server's token bucket and payload cap, the byte cap of a queue, TURN credentials
  (stateless), back-off lengths (any timer may fire when set), peerId leases between
  tabs, sealing (outside RoomTabs an envelope is its sender's).
- Page and server joined by a wire: each has the other as an external party. Together
  they outgrow TLC before the case the late join needs.
- Of the mesh: ICE candidates, `MAX_IN_FLIGHT`, pins, the prune timers, the emptying of
  `seenRelay` after 5000 frames, directed relays.
- The counting of a poll's three methods, proposals of three peers and more (no command
  makes one), issues and vaults of a group, the prober.
- Of the identity chain: anchors of another seed (`anchor-mismatch`), malformed fields and
  the migration of old storage; the consensus probe.
- POSIX sockets, the media library's index, calls,
  record, attachments: sequential but for the hazards PROJECT.json lists at their lines.
- Contracts other than the exchange run on chains outside this repository. Parsers,
  printers, editors, search, the ZFA kernel and the user interface are sequential text,
  term and DOM work.

## What comes next

The largest gaps, in the order they would be closed: PosixNet (a SYN sent twice);
a room of three for the mesh, with `MAX_IN_FLIGHT`; the page joined to the server; the consensus probe.
