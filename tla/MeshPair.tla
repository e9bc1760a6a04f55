------------------------------ MODULE MeshPair ------------------------------
(***************************************************************************)
(* Two peers make a direct link: dialling, glare and rebuilding in the     *)
(* browser's QOSPeer (packages/browser/src/peer.ts) and in the command     *)
(* line's twin (scripts/qos-cli/qospeer.mjs).  Frames go through the       *)
(* signaling server, in order each way.                                    *)
(*                                                                         *)
(* RTCPeerConnection is external: of a connection the model keeps its      *)
(* ufrag (a number of its own), its signalingState and the session of the  *)
(* far side.  createOffer, createAnswer and setLocalDescription are        *)
(* awaited, so frames come in between; what is asked of a connection that  *)
(* was closed meanwhile fails.  A link can form when one connection        *)
(* answered the other's offer.                                             *)
(*                                                                         *)
(* Who dials makes the data channels, who is dialled waits for them: only  *)
(* a connection handleOffer makes has ondatachannel set.                   *)
(***************************************************************************)
EXTENDS Integers, SequencesExt

CONSTANTS
    MaxPcs,     \* bound of the model: ufrags in use at once
    MaxRosters, \* bound of the model: "peers" frames
    MaxMedia,   \* bound of the model: calls begun, which renegotiate a link
    MaxFaults   \* bound of the model: links broken and frames lost

Pair == {"a", "b"}
Far(p) == IF p = "a" THEN "b" ELSE "a"
Smaller(p) == p = "a"

VARIABLES
    kind,        \* kind[p]: a browser tab or a node process
    pc,          \* connections: the one to the far peer
    open,        \* channels: ufrag of the connection whose "qos" channel is open, or 0
    makingOffer,
    young,       \* attemptAt is younger than the patience
    doing,       \* what is awaited: offers and answers being made
    wire,        \* wire[p]: frames from p on their way
    budget       \* what is left of the bounds

vars == <<kind, pc, open, makingOffer, young, doing, wire, budget>>

Ufrag == 1..MaxPcs
Pc == [ufrag: Ufrag, remote: Ufrag \cup {0},
       state: {"stable", "have-local-offer", "have-remote-offer"},
       role: {"none", "offered", "answered"},
       channels: BOOLEAN, \* createDataChannel was called: it has channels of its own
       listens: BOOLEAN]  \* ondatachannel is set: the far one's channels are taken
NoPc == [ufrag |-> 0]
Job == [job: {"dial", "answer", "media"}, ufrag: Ufrag]
Signal == [type: {"offer", "answer"}, ufrag: Ufrag]

IsOpen(p) == open[p] # 0

TypeOK ==
    /\ kind \in [Pair -> {"browser", "node"}]
    /\ pc \in [Pair -> Pc \cup {NoPc}]
    /\ open \in [Pair -> Ufrag \cup {0}]
    /\ makingOffer \in [Pair -> BOOLEAN] /\ young \in [Pair -> BOOLEAN]
    /\ doing \in [Pair -> SUBSET Job]
    /\ wire \in [Pair -> Seq(Signal)]
    /\ budget \in [rosters: 0..MaxRosters, media: 0..MaxMedia, faults: 0..MaxFaults]
    /\ \A p \in Pair : IsOpen(p) => open[p] = pc[p].ufrag

-----------------------------------------------------------------------------
Browser(p) == kind[p] = "browser"
\* Faulty: an attempt is waited for however long it takes.
ConnectingForEver(p) == pc[p] # NoPc /\ ~IsOpen(p)

\* A connection is still being made: new or connecting, and not for too long.
Connecting(p) == pc[p] # NoPc /\ ~IsOpen(p) /\ young[p]

Spend(what) ==
    /\ budget[what] > 0
    /\ budget' = [budget EXCEPT ![what] = @ - 1]
Send(p, type) == wire' = [wire EXCEPT ![p] = Append(@, [type |-> type, ufrag |-> pc[p].ufrag])]
Gets(p, type) == wire[Far(p)] # <<>> /\ Head(wire[Far(p)]).type = type
Take(p) == wire' = [wire EXCEPT ![Far(p)] = Tail(@)]
Starts(p, job, ufrag) == doing' = [doing EXCEPT ![p] = @ \cup {[job |-> job, ufrag |-> ufrag]}]
Done(p, job) == doing' = [doing EXCEPT ![p] = @ \ {job}]

\* A ufrag nothing that is left refers to stands for one that was never used.
Unused ==
    {u \in Ufrag : \A p \in Pair :
        /\ pc[p] # NoPc => u # pc[p].ufrag /\ u # pc[p].remote
        /\ \A j \in doing[p] : u # j.ufrag
        /\ \A m \in Range(wire[p]) : u # m.ufrag}
Fresh == CHOOSE u \in Unused : TRUE

\* createPeerConnection: the old connection is closed, whatever it was doing.
NewPc(p, state, remote, for) ==
    /\ Unused # {}
    /\ pc' = [pc EXCEPT ![p] =
                 [ufrag |-> Fresh, remote |-> remote, state |-> state, role |-> "none",
                  channels |-> for = "dial", listens |-> for = "offer"]]
    /\ open' = [open EXCEPT ![p] = 0]

\* Faulty: the channel stays in its map.
CleanupButChannel(p) ==
    /\ pc' = [pc EXCEPT ![p] = NoPc]
    /\ makingOffer' = [makingOffer EXCEPT ![p] = @ /\ Browser(p)]
    /\ young' = [young EXCEPT ![p] = @ /\ Browser(p)]
    /\ UNCHANGED open

\* cleanup; a node forgets its attempt with the connection.
Cleanup(p) ==
    /\ pc' = [pc EXCEPT ![p] = NoPc]
    /\ open' = [open EXCEPT ![p] = 0]
    /\ makingOffer' = [makingOffer EXCEPT ![p] = @ /\ Browser(p)]
    /\ young' = [young EXCEPT ![p] = @ /\ Browser(p)]

\* The two connections are the two ends of one session.
Linked ==
    /\ \A p \in Pair : pc[p] # NoPc /\ pc[p].remote = pc[Far(p)].ufrag
    /\ {pc[p].role : p \in Pair} = {"offered", "answered"}

Init ==
    /\ kind \in [Pair -> {"browser", "node"}]
    /\ pc = [p \in Pair |-> NoPc]
    /\ open = [p \in Pair |-> 0]
    /\ makingOffer = [p \in Pair |-> FALSE] /\ young = makingOffer
    /\ doing = [p \in Pair |-> {}]
    /\ wire = [p \in Pair |-> <<>>]
    /\ budget = [rosters |-> MaxRosters, media |-> MaxMedia, faults |-> MaxFaults]

-----------------------------------------------------------------------------
(* Dialling *)

Quiet == \A p \in Pair : wire[p] = <<>> /\ doing[p] = {}

\* initiateConnection
Initiate(p) ==
    /\ NewPc(p, "stable", 0, "dial")
    /\ young' = [young EXCEPT ![p] = TRUE]
    /\ makingOffer' = [makingOffer EXCEPT ![p] = @ \/ ~Browser(p)]
    /\ Starts(p, "dial", Fresh)
    /\ UNCHANGED <<kind, wire>>

\* A "peers" frame: the browser dials whom it has no open channel with, a node leaves an
\* attempt alone.
OnPeers(p) ==
    /\ ~IsOpen(p)
    /\ Browser(p) \/ ~Connecting(p)
    /\ Spend("rosters")
    /\ Initiate(p)

\* A browser dials again what did not come about.  The retries back off until they are
\* further apart than the patience, so that they meet no attempt but one just made.
Sweep(p) ==
    /\ Browser(p) /\ ~IsOpen(p) /\ ~Connecting(p)
    /\ Connecting(Far(p)) => ~Quiet
    /\ Initiate(p)
    /\ UNCHANGED budget

\* A node does not sweep; it gives up a connection that is stuck.
ReapOrphans(p) ==
    /\ ~Browser(p) /\ pc[p] # NoPc /\ ~IsOpen(p) /\ ~young[p]
    /\ Cleanup(p)
    /\ UNCHANGED <<kind, doing, wire, budget>>

\* A call begins or ends: a browser negotiates media on the open link.
Renegotiate(p) ==
    /\ Browser(p) /\ IsOpen(p)
    /\ Spend("media")
    /\ makingOffer' = [makingOffer EXCEPT ![p] = TRUE]
    /\ Starts(p, "media", pc[p].ufrag)
    /\ UNCHANGED <<kind, pc, open, young, wire>>

\* The offer is made, and sent unless its connection is gone or took an offer meanwhile.
OfferMade(p, job) ==
    /\ job \in doing[p] /\ job.job \in {"dial", "media"}
    /\ IF pc[p].ufrag = job.ufrag /\ pc[p].state = "stable"
          /\ (job.job = "dial" => pc[p].role = "none")
       THEN /\ pc' = [pc EXCEPT ![p].state = "have-local-offer"]
            /\ Send(p, "offer")
       ELSE UNCHANGED <<pc, wire>>
    /\ makingOffer' = [makingOffer EXCEPT ![p] = @ /\ Browser(p) /\ job.job = "dial"]
    /\ Done(p, job)
    /\ UNCHANGED <<kind, open, young, budget>>

-----------------------------------------------------------------------------
(* Answering *)

\* Another session of the far peer than the one this connection knows.
Elsewhere(p, m) == pc[p].remote # 0 /\ pc[p].remote # m.ufrag
Collision(p) == makingOffer[p] \/ (pc[p] # NoPc /\ pc[p].state # "stable")

Ignore == UNCHANGED <<pc, open, makingOffer, doing>>
AnswerAnew(p, m) ==
    /\ NewPc(p, "have-remote-offer", m.ufrag, "offer")
    /\ makingOffer' = [makingOffer EXCEPT ![p] = FALSE]
    /\ Starts(p, "answer", Fresh)

\* On a connection of its own dial too, after a rollback or before its offer is out: that one
\* has its own channels, and nobody who takes the far one's.
AnswerOnIt(p, m) ==
    /\ pc' = [pc EXCEPT ![p].state = "have-remote-offer", ![p].remote = m.ufrag]
    /\ Starts(p, "answer", pc[p].ufrag)
    /\ UNCHANGED <<open, makingOffer>>

\* Faulty: the old rule, every offer rebuilds.
BrowserRebuilds(p, m) == AnswerAnew(p, m)

\* peer.ts.  What knows another session is rebuilt; a connection of its own dial answers on that.
\* A rollback while no offer is out yet (only makingOffer) is refused, and the offer dropped.
BrowserOnOffer(p, m) ==
    \/ /\ pc[p] = NoPc /\ makingOffer[p]
       /\ NewPc(p, "stable", 0, "offer")
       /\ UNCHANGED <<makingOffer, doing>>
    \/ /\ (pc[p] = NoPc /\ ~makingOffer[p]) \/ (pc[p] # NoPc /\ Elsewhere(p, m))
       /\ AnswerAnew(p, m)
    \/ /\ pc[p] # NoPc /\ ~Elsewhere(p, m)
       /\ IF Collision(p) /\ (~Smaller(p) \/ pc[p].state = "stable")
          THEN Ignore
          ELSE AnswerOnIt(p, m)

\* qospeer.mjs: only an idle, open link renegotiates; the smaller id abandons its own dial.
NodeOnOffer(p, m) ==
    LET renegotiates == /\ pc[p] # NoPc /\ pc[p].state = "stable"
                        /\ pc[p].remote = m.ufrag /\ IsOpen(p)
    IN  \/ renegotiates /\ AnswerOnIt(p, m)
        \/ /\ ~renegotiates
           /\ IF Collision(p) /\ ~Smaller(p) THEN Ignore ELSE AnswerAnew(p, m)

\* Even an offer that is ignored makes the attempt young again.
OnOffer(p) ==
    LET m == Head(wire[Far(p)])
    IN  /\ Gets(p, "offer")
        /\ young' = [young EXCEPT ![p] = TRUE]
        /\ IF Browser(p) THEN BrowserOnOffer(p, m) ELSE NodeOnOffer(p, m)
        /\ Take(p)
        /\ UNCHANGED <<kind, budget>>

Settled(p, role, remote) ==
    pc' = [pc EXCEPT ![p].state = "stable", ![p].remote = remote,
                     ![p].role = IF @ = "none" THEN role ELSE @]

AnswerMade(p, job) ==
    /\ job \in doing[p] /\ job.job = "answer"
    /\ IF pc[p].ufrag = job.ufrag /\ pc[p].state = "have-remote-offer"
       THEN Settled(p, "answered", pc[p].remote) /\ Send(p, "answer")
       ELSE UNCHANGED <<pc, wire>>
    /\ Done(p, job)
    /\ UNCHANGED <<kind, open, makingOffer, young, budget>>

\* Nobody asks which offer is answered.
OnAnswer(p) ==
    LET m == Head(wire[Far(p)])
    IN  /\ Gets(p, "answer")
        /\ IF pc[p] # NoPc /\ pc[p].state = "have-local-offer"
           THEN /\ Settled(p, "offered", m.ufrag)
                /\ makingOffer' = [makingOffer EXCEPT ![p] = @ /\ Browser(p)]
           ELSE UNCHANGED <<pc, makingOffer>>
        /\ Take(p)
        /\ UNCHANGED <<kind, open, young, doing, budget>>

-----------------------------------------------------------------------------
(* The network *)

\* The channels of a session open on one side after the other: where there are own ones,
\* these; where there are none, those the far side made, if ondatachannel takes them.
ChannelOpens(p) ==
    /\ Linked /\ ~IsOpen(p)
    /\ pc[p].channels \/ (pc[p].listens /\ pc[Far(p)].channels)
    /\ open' = [open EXCEPT ![p] = pc[p].ufrag]
    /\ young' = [young EXCEPT ![p] = @ /\ ~Browser(p)]
    /\ UNCHANGED <<kind, pc, makingOffer, doing, wire, budget>>

\* A link breaks, or a "left" frame ends it.
Break(p) ==
    /\ pc[p] # NoPc
    /\ Spend("faults")
    /\ Cleanup(p)
    /\ UNCHANGED <<kind, doing, wire>>

\* A session whose other end is gone fails, or closes, in the end.
Fails(p) ==
    /\ pc[p] # NoPc /\ pc[p].remote # 0
    /\ pc[p].remote # pc[Far(p)].ufrag
    /\ Quiet
    /\ Cleanup(p)
    /\ UNCHANGED <<kind, doing, wire, budget>>

\* The patience is much longer than a negotiation that goes well.
Ages(p) ==
    /\ young[p] /\ Quiet /\ ~Linked
    /\ young' = [young EXCEPT ![p] = FALSE]
    /\ UNCHANGED <<kind, pc, open, makingOffer, doing, wire, budget>>

Lose(p) ==
    /\ wire[p] # <<>>
    /\ wire' = [wire EXCEPT ![p] = Tail(@)]
    /\ Spend("faults")
    /\ UNCHANGED <<kind, pc, open, makingOffer, young, doing>>

Next ==
    \E p \in Pair :
        \/ OnPeers(p) \/ Sweep(p) \/ ReapOrphans(p) \/ Renegotiate(p)
        \/ \E job \in doing[p] : OfferMade(p, job) \/ AnswerMade(p, job)
        \/ OnOffer(p) \/ OnAnswer(p)
        \/ ChannelOpens(p) \/ Break(p) \/ Fails(p) \/ Ages(p) \/ Lose(p)

Fairness ==
    \A p \in Pair :
        /\ SF_vars(Sweep(p)) /\ SF_vars(ReapOrphans(p))
        /\ WF_vars(\E job \in doing[p] : OfferMade(p, job) \/ AnswerMade(p, job))
        /\ WF_vars(OnOffer(p) \/ OnAnswer(p))
        /\ WF_vars(ChannelOpens(p)) /\ WF_vars(Fails(p)) /\ WF_vars(Ages(p))

Spec == Init /\ [][Next]_vars
FairSpec == Spec /\ Fairness

-----------------------------------------------------------------------------
(* Properties *)

BothOpen == Linked /\ \A p \in Pair : IsOpen(p)

\* One end takes the channel the other made, and both speak over it.  If both dialled, each
\* has a channel of its own open and nobody listens to the other's.
Heard == BothOpen /\ \E p \in Pair : pc[p].channels /\ pc[Far(p)].listens

\* An end answers its first offer on a connection of its own dial.
AnswersOwnDial ==
    \E p \in Pair : /\ pc[p] # NoPc /\ pc[p].channels
                    /\ pc[p].state = "have-remote-offer" /\ pc[p].role = "none"

\* peer.ts:1046-1057, 1158-1163 and docs/connection.md:161-164: whatever is lost or broken,
\* however often both dial at once, a browser and its peer come to open channels in the end,
\* and keep them; and they hear each other over them, unless an end once answered an offer on
\* a connection of its own dial.  (After that both may stay open and silent for good: the sweep
\* leaves an open channel alone.)
Links ==
    (\E p \in Pair : Browser(p)) =>
        /\ <>[]BothOpen
        /\ []~AnswersOwnDial => <>[]Heard

\* docs/connection.md:162-163: rosters, retries, renegotiations and late frames never tear
\* down a link that works.
KeepsWhatWorks == [][BothOpen => BothOpen' \/ budget'.faults < budget.faults]_vars

=============================================================================
