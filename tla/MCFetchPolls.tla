----------------------------- MODULE MCFetchPolls -----------------------------
(* A library fetch or a poll, checked side by side: a behaviour runs one of    *)
(* them and leaves the other where it starts.                                  *)
EXTENDS MCLibraryFetch

VARIABLES
    part,                                                        \* the part that runs
    here, poll, retracted, early, down, missed, late, moves, leaves \* Polls

Vote == INSTANCE Polls WITH
    Peers <- {"c", "v", "n"}, Creator <- "c", Options <- {"o"},
    MaxVotes <- 2, MaxMoves <- 2, MaxLeaves <- 1

voteVars == <<here, poll, retracted, early, down, missed, late, moves, leaves>>

FetchPollsInit == part \in {"fetch", "poll"} /\ Init /\ Vote!Init

\* The voter and the third are alike: of the two, the third is the one that leaves.
FetchPollsNext ==
    \/ part = "fetch" /\ Next /\ UNCHANGED <<part, voteVars>>
    \/ part = "poll" /\ Vote!Next /\ "v" \in here' /\ UNCHANGED <<part, vars>>

FetchPollsSpec ==
    /\ FetchPollsInit /\ [][FetchPollsNext]_<<part, vars, voteVars>>
    /\ WF_vars(AskTimesOut)

-------------------------------------------------------------------------------
\* What Polls promises, stated there: copies that are well formed and agree when everything
\* is in, tombstones that last, ballots that never go back.
PollsAgree == Vote!TypeOK /\ Vote!PollsAgree
RetractedStaysGone == Vote!RetractedStaysGone
BallotsMoveForward == [][Vote!MovesForward]_voteVars

===============================================================================
