---------------------------- MODULE BearerNotes ----------------------------
(***************************************************************************)
(* The promissory notes of packages/browser/src/rendezvous.ts, and who has *)
(* them when Rendezvous starts.  A note is a set of coins of one currency  *)
(* and is worth their number: to split a note is to part the set.          *)
(***************************************************************************)
EXTENDS Integers, FiniteSets

CONSTANTS
    Peers,       \* peerIds
    Coins,       \* units of value
    Currency,    \* Currency[c]: what coin c is a unit of
    Purses,      \* Purses[p]: the notes p starts with
    Specs,       \* TokenSpecs a swap or a counter may name
    Ids,         \* proposal ids
    MaxCounters, \* bound of the model: counters
    MaxFaults    \* bound of the model: frames lost and pages reloaded

Notes == {note \in SUBSET Coins : \A c, d \in note : Currency[c] = Currency[d]} \ {{}}
Nothing == {}
Worth(note) == [currency |-> Currency[CHOOSE c \in note : TRUE],
                denomination |-> Cardinality(note)]

\* A spec names a currency and a number of units; every coin is in one purse, once.
ASSUME BearerNotesAssumption ==
    /\ IsFiniteSet(Coins)
    /\ \A spec \in Specs :
           /\ spec = [currency |-> spec.currency, denomination |-> spec.denomination]
           /\ spec.denomination \in Nat \ {0}
    /\ Purses \in [Peers -> SUBSET Notes]
    /\ \A c \in Coins : \E p \in Peers : \E n \in Purses[p] :
           \A q \in Peers : \A m \in Purses[q] : c \in m <=> q = p /\ m = n
    /\ MaxCounters \in Nat /\ MaxFaults \in Nat

=============================================================================
