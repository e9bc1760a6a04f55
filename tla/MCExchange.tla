----------------------------- MODULE MCExchange -----------------------------
(* Instances of Exchange for TLC: two shards with a pool each, and a start *)
(* from which a trade is a few calls away.                                 *)
EXTENDS Exchange

CONSTANTS here, there, alice, bob, d1, d2

OnePoolEach == [p \in {"AliceBob", "BobParis"} |->
                    IF p = "AliceBob" THEN here ELSE there]

\* Alice opened both pools, provided them and linked the second to the first; Bob has deposited.
Opened(p, r) ==
    [owner |-> alice, rate |-> r, links |-> IF p = "BobParis" THEN {"AliceBob"} ELSE {},
     reserve |-> [s \in Sides |-> IF s = "B" THEN 2 ELSE 0]]
Deposited == [p \in Pools |-> [id \in Ids |-> [s \in Sides |->
                  IF p = "AliceBob" /\ id = bob /\ s = "A" THEN 2 ELSE 0]]]

Ready ==
    /\ pool = [p \in Pools |-> Opened(p, RateScale + 1)]
    /\ bal = Deposited
    /\ own = bal
    /\ given = Reserves
    /\ tx = [e \in Exchanges |-> [x \in Txs |-> NoTx]]
    /\ block = [e \in Exchanges |-> 0]
    /\ plan = [x \in Txs |-> NoTrade]
    /\ dev \in [Devices -> {[at |-> "idle", x |-> x, local |-> "unknown"] : x \in Txs}]
    /\ \A d, c \in Devices : dev[d] = dev[c]
    /\ budget = [moves |-> MaxMoves, faults |-> MaxFaults]

MCSpec == (Init \/ Ready) /\ [][Next]_vars /\ Fairness

=============================================================================
