------------------------------- MODULE Overlay -------------------------------
(***************************************************************************)
(* The bounded-degree overlay and its flood (packages/browser/src/peer.ts, *)
(* mirrored in scripts/qos-cli/qospeer.mjs and ring-neighbors.mjs): every  *)
(* peer links to the peers one and two places away in the sorted roster,   *)
(* and bulk broadcasts are relayed, once by each peer, as far as their     *)
(* hop budget goes.                                                        *)
(*                                                                         *)
(* Peers are their places in the sorted roster, 0 the origin of the flood. *)
(* A copy that finds its id in seenRelay changes nothing, so a link is     *)
(* left with the first copy that may still tell somebody something.        *)
(***************************************************************************)
EXTENDS Integers, FiniteSetsExt

CONSTANTS
    Rooms,  \* sizes of rooms
    MaxCut  \* bound of the model: links that never came about

VARIABLES
    size, \* peers in the room
    cut,  \* links that are missing
    got   \* hops left on the copy each peer heard first, NotYet if none came

vars == <<size, cut, got>>

NotYet == -1
Members == 0..(size - 1)
Origin == 0

\* Faulty: no skip links.
RingNeighbors(n, i) == {(i + off + n) % n : off \in {1, -1}} \ {i}

RingSkipNeighbors(n, i) == {(i + off + n) % n : off \in {1, -1, 2, -2}} \ {i}

HopBudget == LET half == (size + 1) \div 2 IN IF half > 4 THEN half ELSE 4

Linked(p, q) == q \in RingSkipNeighbors(size, p) /\ {p, q} \notin cut

Links(n) == UNION {{{i, j} : j \in RingSkipNeighbors(n, i)} : i \in 0..(n - 1)}

TypeOK ==
    /\ size \in Rooms
    /\ cut \subseteq Links(size)
    /\ got \in [Members -> NotYet..(HopBudget + 1)]

\* The origin sends its copies with the whole budget.
Init ==
    /\ size \in Rooms
    /\ cut \in UNION {kSubset(k, Links(size)) : k \in 0..MaxCut}
    /\ got = [p \in Members |-> IF p = Origin THEN HopBudget + 1 ELSE NotYet]

Relay(p, q) ==
    /\ Linked(p, q)
    /\ got[p] > 0 /\ got[q] = NotYet
    /\ got' = [got EXCEPT ![q] = got[p] - 1]
    /\ UNCHANGED <<size, cut>>

Next == \E p, q \in Members : Relay(p, q)
Spec == Init /\ [][Next]_vars

-----------------------------------------------------------------------------
(* Properties *)

AtRest == \A p, q \in Members : Linked(p, q) /\ got[q] = NotYet => got[p] <= 0

\* peer.ts:747-757, hopBudget: whatever one link is missing and whichever copies come first,
\* the hops a bulk broadcast starts with are enough for it to reach every peer of a small room.
\* (Of a large one they are not: a first copy may come the long way round, and hides a later
\* one that has more hops left.)
FloodReaches == AtRest => \A p \in Members : got[p] # NotYet

=============================================================================
