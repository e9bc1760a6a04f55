---------------------------- MODULE LibraryFetch ----------------------------
(***************************************************************************)
(* Fetching one file from whoever holds it:                                *)
(* packages/browser/src/library-fetch.ts, the asker and its holders.       *)
(*                                                                         *)
(* The asker's two maps (asked, incoming) are keyed by the file's hash and *)
(* their entries do not touch each other, so the module follows one hash.  *)
(* Frames travel two ways (QOSPeer.send): "lib-want", "lib-head" and       *)
(* "lib-deny" are sealed and relayed by the signaling server, the parts    *)
(* are bulk and go over the direct data channel.  Each way keeps its       *)
(* order, neither waits for the other.                                     *)
(*                                                                         *)
(* Every await is a place where other callbacks run: opening the part      *)
(* file, writing a chunk, closing it, and reading a slice on the holder's  *)
(* side are steps of their own.  A head the asker refuses for its size     *)
(* changes nothing and is left out; so are pacing and progress lines.      *)
(***************************************************************************)
EXTENDS Naturals, Sequences, SequencesExt

CONSTANTS
    Holders,    \* peers that may hold the file
    Total,      \* chunks of the file
    MaxAsks,    \* bound of the model: want() calls that ask
    MaxFaults,  \* bound of the model: channels that close, writes that fail, relayed frames lost
    None

ASSUME FetchAssumption ==
    /\ Total \in Nat \ {0}
    /\ MaxAsks \in Nat /\ MaxFaults \in Nat
    /\ None \notin Holders

VARIABLES
    me,        \* the asker's maps, timers and part files
    want,      \* "lib-want" frames on their way to each holder
    answers,   \* relayed frames of each holder to the asker
    parts,     \* chunks of each holder on its data channel to the asker
    channel,   \* which data channels are open
    serving,   \* the serve() calls of each holder that are in their loop
    gap,       \* history: a fetch was ended because another chunk was due
    budget     \* what is left of the bounds

transport == <<want, answers, parts, channel>>
vars == <<me, transport, serving, gap, budget>>

------------------------------------------------------------------------------
(* Data *)

\* ok tells the bytes that hash to what was asked for from those of a file that
\* changed on its holder's disk.
Chunk == [seq: 0..(Total - 1), ok: BOOLEAN]
WholeFile == [i \in 1..Total |-> [seq |-> i - 1, ok |-> TRUE]]

\* An Incoming object and its part writer: arrived was handed to the writer, which
\* has written all but the last pending of it.  kept counts host.received.
Incoming == [from: Holders, arrived: Seq(Chunk), pending: 0..Total,
             writer: {"open", "closing", "closed", "errored"}, kept: Nat]
Opened(h) == [from |-> h, arrived |-> <<>>, pending |-> 0, writer |-> "open", kept |-> 0]
Due(x) == Len(x.arrived)

\* asked.get(hash)?.from, the ASK_TIMEOUT_MS timers, the openPart calls awaited, the
\* Incoming objects made so far and the index of the one in the map, or 0.
Asker == [asked: Holders \cup {None}, timers: 0..MaxAsks, opening: [Holders -> 0..MaxAsks],
          xfers: Seq(Incoming), incoming: Nat]

Serving == [next: 0..(Total - 1), ok: BOOLEAN, reading: BOOLEAN]

------------------------------------------------------------------------------
(* The asker's functions *)

\* abandon: the entries go, the writer is closed and its file removed.
Abandon(m) ==
    IF m.incoming = 0
    THEN [m EXCEPT !.asked = None]
    ELSE [m EXCEPT !.asked = None, !.incoming = 0,
                   !.xfers[m.incoming].writer = IF @ = "open" THEN "closed" ELSE @]

\* Faulty: the bytes are not hashed; closing a writer that was closed before succeeds,
\* so that a fetch is finished as often as it is found complete.
VerifiedBlindly(x) == [x EXCEPT !.writer = "closed", !.kept = @ + 1]
FinishTwice(m, n) ==
    [m EXCEPT !.asked = None, !.incoming = 0,
              !.xfers[n] = IF @.writer = "open" THEN [@ EXCEPT !.writer = "closing"]
                           ELSE [@ EXCEPT !.kept = @ + 1]]

\* finish, up to its first await: the hash's entries go, whichever fetch they are
\* of; closing a writer that was closed before rejects, which ends the call.
Finish(m, n) ==
    [m EXCEPT !.asked = None, !.incoming = 0,
              !.xfers[n].writer = IF @ = "open" THEN "closing" ELSE @]

\* finish, once the file is closed: kept if it hashes to its name.
Verified(x) ==
    [x EXCEPT !.writer = "closed", !.kept = IF x.arrived = WholeFile THEN @ + 1 ELSE @]

\* A chunk for the transfer in the map; the caller has checked who sent it.
Arrive(m, c) ==
    LET x == m.xfers[m.incoming]
    IN  [m EXCEPT !.xfers[m.incoming] = [x EXCEPT !.arrived = Append(@, c), !.pending = @ + 1]]

------------------------------------------------------------------------------
(* Actions: the asker *)

Init ==
    /\ me = [asked |-> None, timers |-> 0, opening |-> [h \in Holders |-> 0],
             xfers |-> <<>>, incoming |-> 0]
    /\ want = [h \in Holders |-> 0]
    /\ answers = [h \in Holders |-> <<>>]
    /\ parts = [h \in Holders |-> <<>>]
    /\ channel = [h \in Holders |-> TRUE]
    /\ serving = [h \in Holders |-> <<>>]
    /\ gap = FALSE
    /\ budget = [asks |-> MaxAsks, faults |-> MaxFaults]

Faulted == budget.faults > 0 /\ budget' = [budget EXCEPT !.faults = @ - 1]

\* want(): refused while the hash has an entry.  With no channel to the holder the
\* entry is made all the same, nothing is sent and no timer is set.
Want(h) ==
    /\ budget.asks > 0
    /\ me.incoming = 0 /\ me.asked = None
    /\ IF channel[h]
       THEN /\ me' = [me EXCEPT !.asked = h, !.timers = @ + 1]
            /\ want' = [want EXCEPT ![h] = @ + 1]
       ELSE /\ me' = [me EXCEPT !.asked = h]
            /\ UNCHANGED want
    /\ budget' = [budget EXCEPT !.asks = @ - 1]
    /\ UNCHANGED <<answers, parts, channel, serving, gap>>

\* Faulty: the timer only says so.
AskTimesOutInWords ==
    /\ me.timers > 0
    /\ me' = [me EXCEPT !.timers = @ - 1]
    /\ UNCHANGED <<transport, serving, gap, budget>>

AskTimesOut ==
    /\ me.timers > 0
    /\ me' = [me EXCEPT !.timers = @ - 1,
                        !.asked = IF me.incoming = 0 THEN None ELSE @]
    /\ UNCHANGED <<transport, serving, gap, budget>>

Cancel ==
    /\ me.asked # None \/ me.incoming # 0
    /\ me' = Abandon(me)
    /\ UNCHANGED <<transport, serving, gap, budget>>

\* A "lib-deny", whoever it is from.
OnDeny(h) ==
    /\ answers[h] # <<>> /\ Head(answers[h]) = "deny"
    /\ answers' = [answers EXCEPT ![h] = Tail(@)]
    /\ me' = Abandon(me)
    /\ UNCHANGED <<want, parts, channel, serving, gap, budget>>

\* A "lib-head": the part file is opened if this is the answer to the ask.
OnHead(h) ==
    /\ answers[h] # <<>> /\ Head(answers[h]) = "head"
    /\ answers' = [answers EXCEPT ![h] = Tail(@)]
    /\ me' = IF me.asked = h /\ me.incoming = 0
             THEN [me EXCEPT !.opening[h] = @ + 1] ELSE me
    /\ UNCHANGED <<want, parts, channel, serving, gap, budget>>

\* openPart is back: the entry is set, whatever happened meanwhile.
PartOpened(h) ==
    /\ me.opening[h] > 0
    /\ me' = [me EXCEPT !.opening[h] = @ - 1, !.xfers = Append(@, Opened(h)),
                        !.incoming = Len(me.xfers) + 1]
    /\ UNCHANGED <<transport, serving, gap, budget>>

PartRefused(h) ==
    /\ me.opening[h] > 0
    /\ me' = [me EXCEPT !.opening[h] = @ - 1]
    /\ Faulted
    /\ UNCHANGED <<transport, serving, gap>>

\* Faulty: any chunk will do.
OnPartUnordered(h) ==
    /\ parts[h] # <<>>
    /\ parts' = [parts EXCEPT ![h] = Tail(@)]
    /\ IF me.incoming = 0 \/ me.xfers[me.incoming].from # h
       THEN UNCHANGED me ELSE me' = Arrive(me, Head(parts[h]))
    /\ UNCHANGED <<want, answers, channel, serving, gap, budget>>

\* A "lib-part": dropped unless a transfer from that peer is in the map; the fetch
\* is given up unless it is the chunk that is due.
OnPart(h) ==
    /\ parts[h] # <<>>
    /\ parts' = [parts EXCEPT ![h] = Tail(@)]
    /\ LET c == Head(parts[h])
           x == me.xfers[me.incoming]
       IN  IF me.incoming = 0 \/ x.from # h THEN UNCHANGED <<me, gap>>
           ELSE IF c.seq # Due(x)
           THEN me' = Abandon(me) /\ gap' = TRUE
           ELSE me' = Arrive(me, c) /\ UNCHANGED gap
    /\ UNCHANGED <<want, answers, channel, serving, budget>>

\* A write is done; whoever finds the transfer complete then finishes it.
Written(n) ==
    /\ me.xfers[n].pending > 0 /\ me.xfers[n].writer # "errored"
    /\ LET m == [me EXCEPT !.xfers[n].pending = @ - 1]
       IN  me' = IF Due(m.xfers[n]) >= Total THEN Finish(m, n) ELSE m
    /\ UNCHANGED <<transport, serving, gap, budget>>

\* A write fails, and with it those behind it: the hash is given up, whichever
\* transfer is in the map by then.
WriteFails(n) ==
    /\ me.xfers[n].pending > 0
    /\ IF me.xfers[n].writer = "errored" THEN UNCHANGED budget ELSE Faulted
    /\ me' = Abandon([me EXCEPT !.xfers[n].pending = @ - 1, !.xfers[n].writer = "errored"])
    /\ UNCHANGED <<transport, serving, gap>>

FileClosed(n) ==
    /\ me.xfers[n].writer = "closing" /\ me.xfers[n].pending = 0
    /\ me' = [me EXCEPT !.xfers[n] = Verified(@)]
    /\ UNCHANGED <<transport, serving, gap, budget>>

------------------------------------------------------------------------------
(* Actions: the holders and the transport *)

\* A "lib-want" is answered: denied, or a head, and the loop over the slices begins.
Serve(h) ==
    /\ want[h] > 0
    /\ want' = [want EXCEPT ![h] = @ - 1]
    /\ \/ /\ answers' = [answers EXCEPT ![h] = Append(@, "deny")]
          /\ UNCHANGED serving
       \/ /\ answers' = [answers EXCEPT ![h] = Append(@, "head")]
          /\ \E ok \in BOOLEAN : serving' = [serving EXCEPT ![h] =
                Append(@, [next |-> 0, ok |-> ok, reading |-> FALSE])]
    /\ UNCHANGED <<me, parts, channel, gap, budget>>

\* The top of the loop: stop if the asker's channel is gone, else read the slice.
ReadSlice(h, k) ==
    /\ ~serving[h][k].reading
    /\ serving' = [serving EXCEPT ![h] = IF channel[h] THEN [@ EXCEPT ![k].reading = TRUE]
                                                       ELSE RemoveAt(@, k)]
    /\ UNCHANGED <<me, transport, gap, budget>>

\* The slice is read and sent, into the void if the channel closed meanwhile.
SendPart(h, k) ==
    /\ serving[h][k].reading
    /\ LET v == serving[h][k]
       IN  /\ parts' = [parts EXCEPT ![h] =
                          IF channel[h] THEN Append(@, [seq |-> v.next, ok |-> v.ok]) ELSE @]
           /\ serving' = [serving EXCEPT ![h] =
                          IF v.next + 1 = Total THEN RemoveAt(@, k)
                          ELSE [@ EXCEPT ![k] = [v EXCEPT !.next = @ + 1, !.reading = FALSE]]]
    /\ UNCHANGED <<me, want, answers, channel, gap, budget>>

ChannelCloses(h) ==
    /\ channel[h]
    /\ channel' = [channel EXCEPT ![h] = FALSE]
    /\ parts' = [parts EXCEPT ![h] = <<>>]
    /\ Faulted
    /\ UNCHANGED <<me, want, answers, serving, gap>>

ChannelOpens(h) ==
    /\ ~channel[h]
    /\ channel' = [channel EXCEPT ![h] = TRUE]
    /\ UNCHANGED <<me, want, answers, parts, serving, gap, budget>>

\* The relay loses a frame (Signaling!BlipLosesNothing tells when).
RelayLoses(h) ==
    /\ \/ /\ want[h] > 0
          /\ want' = [want EXCEPT ![h] = @ - 1]
          /\ UNCHANGED answers
       \/ /\ answers[h] # <<>>
          /\ answers' = [answers EXCEPT ![h] = Tail(@)]
          /\ UNCHANGED want
    /\ Faulted
    /\ UNCHANGED <<me, parts, channel, serving, gap>>

Next ==
    \/ AskTimesOut \/ Cancel
    \/ \E h \in Holders :
          \/ Want(h) \/ OnDeny(h) \/ OnHead(h) \/ OnPart(h)
          \/ PartOpened(h) \/ PartRefused(h)
          \/ Serve(h) \/ ChannelCloses(h) \/ ChannelOpens(h) \/ RelayLoses(h)
          \/ \E k \in 1..Len(serving[h]) : ReadSlice(h, k) \/ SendPart(h, k)
    \/ \E n \in 1..Len(me.xfers) : Written(n) \/ WriteFails(n) \/ FileClosed(n)

Spec == Init /\ [][Next]_vars

\* Timers fire.  Nothing is asked of holders, channels or the user.
FairSpec == Spec /\ WF_vars(AskTimesOut)

------------------------------------------------------------------------------
(* Properties *)

TypeOK ==
    /\ me \in Asker
    /\ me.incoming <= Len(me.xfers)
    /\ \A n \in 1..Len(me.xfers) : Due(me.xfers[n]) <= Total
    /\ want \in [Holders -> 0..MaxAsks]
    /\ answers \in [Holders -> Seq({"head", "deny"})]
    /\ parts \in [Holders -> Seq(Chunk)]
    /\ channel \in [Holders -> BOOLEAN]
    /\ serving \in [Holders -> Seq(Serving)]
    /\ gap \in BOOLEAN
    /\ budget \in [asks: 0..MaxAsks, faults: 0..MaxFaults]

\* library-fetch.ts:12-15, 159-166: whatever overlaps (two holders, two servings of
\* one holder, a fetch cancelled and begun again), what is kept is the whole file,
\* in order, of the bytes that were asked for.
KeptIsTheFile ==
    \A n \in 1..Len(me.xfers) : me.xfers[n].kept > 0 => me.xfers[n].arrived = WholeFile

\* Every write that ends after the last chunk came finds the transfer complete and
\* finishes it; the file is still received once, and a transfer given up never.
KeptOnce ==
    \A n \in 1..Len(me.xfers) :
       /\ me.xfers[n].kept <= 1
       /\ n = me.incoming => me.xfers[n].kept = 0 /\ me.xfers[n].writer = "open"

\* library-fetch.ts:64, 185: an ask that went out does not block asking again for
\* ever: it is answered or forgotten.
UnansweredAskIsForgotten == me.timers > 0 ~> me.asked = None \/ me.incoming # 0

\* library-fetch.ts:235: "Data channels are ordered, so a gap is a bug or a liar, not
\* weather": while no channel closed and no frame was lost, no fetch ends for a gap.
GapIsNotWeather == gap => budget.faults < MaxFaults

==============================================================================
