------------------------------ MODULE Exchange ------------------------------
(***************************************************************************)
(* The pooled token exchange (packages/browser/src/rholang-exchange.js)    *)
(* and the client that trades across two of them (exchange-2pc.ts).        *)
(*                                                                         *)
(* An exchange is one contract on one shard.  Every call is one deploy,    *)
(* which takes the cells it needs and puts them back: a deploy is an       *)
(* action, and a deploy the contract refuses changes nothing.  A trade     *)
(* across shards is prepare here and prepareReceive there, then commit     *)
(* both; each leg has already moved the tokens when it is prepared, and    *)
(* abort moves them back.                                                  *)
(*                                                                         *)
(* The client is external: exchange-2pc.ts has the order of the calls in   *)
(* its header and the recovery table in decideRecovery, and the calls are  *)
(* deploys a person or a script makes.  A device makes the next call only  *)
(* when the last one was answered with success; it may be lost between     *)
(* any two calls, and another device with the same key may recover the     *)
(* trade while the first is still at work.                                 *)
(***************************************************************************)
EXTENDS Integers, FiniteSets, Functions

CONSTANTS
    Exchanges,  \* exchange contracts, one per shard
    Pools,      \* poolIds
    Home,       \* Home[p]: the exchange pool p is opened on
    Ids,        \* deployerIds
    Nobody,     \* the owner of a pool that is not open
    Txs,        \* txIds, one per trade
    Devices,    \* clients with the key of whoever trades
    RateScale,  \* RATE_SCALE
    Rates,      \* rates an owner may set
    Amounts,    \* amounts calls are made with
    Expiries,   \* expiryBlocks a trade may be given
    MaxBlock,   \* bound of the model: block numbers
    MaxMoves,   \* bound of the model: calls that are no part of a trade
    MaxFaults   \* bound of the model: devices lost and exchanges not reached

ASSUME ExchangeAssumption ==
    /\ Home \in [Pools -> Exchanges]
    /\ Nobody \notin Ids
    /\ RateScale \in Nat \ {0}
    /\ Rates \subseteq Int /\ Amounts \subseteq Int /\ Expiries \subseteq Nat
    /\ MaxBlock \in Nat /\ MaxMoves \in Nat /\ MaxFaults \in Nat

VARIABLES
    pool,   \* pools: owner, rate, reserves and links of every pool
    bal,    \* bals: what every holder has in every pool
    tx,     \* txs of every exchange, the log of the two-phase commit
    block,  \* the block number every exchange's shard has reached
    plan,   \* the trades begun, as their holder's devices remember them
    dev,    \* what every device is doing
    given,  \* history: the reserves as provide and swap alone would have left them
    own,    \* history: the balances as deposit, withdraw and swap alone would have left them
    budget  \* what is left of the bounds: moves and faults

ledger == <<pool, bal, tx>>
vars == <<pool, bal, tx, block, plan, dev, given, own, budget>>

Sides == {"A", "B"}
Other(side) == IF side = "A" THEN "B" ELSE "A"

Status == {"unknown", "prepared", "committed", "aborted"}
Pool == [owner: Ids \cup {Nobody}, rate: Int, reserve: [Sides -> Int], links: SUBSET Pools]
\* fromSide is the field "from"; toSide is the other one
Tx == [holder: Ids, pool: Pools, from: Sides, amount: Int, out: Int, expiry: Nat,
       receive: BOOLEAN, status: Status \ {"unknown"}]
NoTx == [status |-> "unknown"]
Trade == [holder: Ids, local: Pools, remote: Pools, from: Sides, into: Sides,
          amount: Int, expiry: Nat]
NoTrade == [holder |-> Nobody]

\* "commit" is the local leg's commit when the remote one's is to follow
Steps == {"idle", "prepare", "receive", "commit", "commitLocal", "commitRemote",
          "abortLocal", "abortRemote", "readLocal", "readRemote"}

TypeOK ==
    /\ pool \in [Pools -> Pool]
    /\ bal \in [Pools -> [Ids -> [Sides -> Int]]]
    /\ tx \in [Exchanges -> [Txs -> Tx \cup {NoTx}]]
    /\ block \in [Exchanges -> 0..MaxBlock]
    /\ plan \in [Txs -> Trade \cup {NoTrade}]
    /\ dev \in [Devices -> [at: Steps, x: Txs, local: Status]]
    /\ given \in [Pools -> [Sides -> Int]]
    /\ own \in [Pools -> [Ids -> [Sides -> Int]]]
    /\ budget \in [moves: 0..MaxMoves, faults: 0..MaxFaults]
    /\ \A p \in Pools : pool[p].owner # Nobody => pool[p].rate > 0
    /\ \A e \in Exchanges, x \in Txs :
           tx[e][x] # NoTx => tx[e][x].amount >= 0

-----------------------------------------------------------------------------
(* The ledger *)

IsOpen(p) == pool[p].owner # Nobody
Leg(e, x) == tx[e][x].status

\* What amount of side buys of the other one.
Out(p, side, amount) ==
    IF side = "A" THEN (amount * pool[p].rate) \div RateScale
                  ELSE (amount * RateScale) \div pool[p].rate

\* r, reserves of every pool, and b, balances, with by more of side in p.
Filled(r, p, side, by) == [r EXCEPT ![p][side] = @ + by]
Credited(b, p, id, side, by) == [b EXCEPT ![p][id][side] = @ + by]

\* amount of side goes from id's balance to p's reserve, out of the other side comes back.
Paid(r, p, side, amount, out) == Filled(Filled(r, p, side, amount), p, Other(side), -out)
Received(b, p, id, side, amount, out) ==
    Credited(Credited(b, p, id, side, -amount), p, id, Other(side), out)

SetReserve(p, r) == pool' = [pool EXCEPT ![p].reserve = r[p]]
Reserves == [p \in Pools |-> pool[p].reserve]
Shift(p, id, side, amount, out) ==
    /\ SetReserve(p, Paid(Reserves, p, side, amount, out))
    /\ bal' = Received(bal, p, id, side, amount, out)

Record(e, x, t) == tx' = [tx EXCEPT ![e][x] = t]

Spend(what) ==
    /\ budget[what] > 0
    /\ budget' = [budget EXCEPT ![what] = @ - 1]

Init ==
    /\ pool = [p \in Pools |-> [owner |-> Nobody, rate |-> 0,
                                reserve |-> [s \in Sides |-> 0], links |-> {}]]
    /\ bal = [p \in Pools |-> [id \in Ids |-> [s \in Sides |-> 0]]]
    /\ tx = [e \in Exchanges |-> [x \in Txs |-> NoTx]]
    /\ block = [e \in Exchanges |-> 0]
    /\ plan = [x \in Txs |-> NoTrade]
    /\ dev \in [Devices -> {[at |-> "idle", x |-> x, local |-> "unknown"] : x \in Txs}]
    /\ given = [p \in Pools |-> [s \in Sides |-> 0]]
    /\ own = bal
    /\ budget = [moves |-> MaxMoves, faults |-> MaxFaults]
    /\ \A d, c \in Devices : dev[d] = dev[c]

-----------------------------------------------------------------------------
(* The calls of a single pool.  Each is made by the identity id. *)

\* Faulty: a pool is opened at a rate nobody looked at.
OpenAtAnyRate(id, p, rate) ==
    /\ ~IsOpen(p)
    /\ Spend("moves")
    /\ pool' = [pool EXCEPT ![p].owner = id, ![p].rate = rate]
    /\ UNCHANGED <<bal, tx, block, plan, dev, given, own>>

Open(id, p, rate) ==
    /\ ~IsOpen(p)
    /\ rate > 0
    /\ Spend("moves")
    /\ pool' = [pool EXCEPT ![p].owner = id, ![p].rate = rate]
    /\ UNCHANGED <<bal, tx, block, plan, dev, given, own>>

Provide(id, p, side, amount) ==
    /\ IsOpen(p) /\ pool[p].owner = id /\ amount >= 0
    /\ Spend("moves")
    /\ SetReserve(p, Filled(Reserves, p, side, amount))
    /\ given' = Filled(given, p, side, amount)
    /\ UNCHANGED <<bal, tx, block, plan, dev, own>>

Deposit(id, p, side, amount) ==
    /\ IsOpen(p) /\ amount >= 0
    /\ Spend("moves")
    /\ bal' = Credited(bal, p, id, side, amount)
    /\ own' = Credited(own, p, id, side, amount)
    /\ UNCHANGED <<pool, tx, block, plan, dev, given>>

CanSwap(id, p, side, amount) ==
    /\ IsOpen(p) /\ amount >= 0
    /\ bal[p][id][side] >= amount
    /\ pool[p].reserve[Other(side)] >= Out(p, side, amount)

Swap(id, p, side, amount) ==
    /\ CanSwap(id, p, side, amount)
    /\ Spend("moves")
    /\ Shift(p, id, side, amount, Out(p, side, amount))
    /\ given' = Paid(given, p, side, amount, Out(p, side, amount))
    /\ own' = Received(own, p, id, side, amount, Out(p, side, amount))
    /\ UNCHANGED <<tx, block, plan, dev>>

\* withdraw does not ask whether the pool is open
Withdraw(id, p, side, amount) ==
    /\ amount >= 0 /\ bal[p][id][side] >= amount
    /\ Spend("moves")
    /\ bal' = Credited(bal, p, id, side, -amount)
    /\ own' = Credited(own, p, id, side, -amount)
    /\ UNCHANGED <<pool, tx, block, plan, dev, given>>

\* A link's name is the pool it names on the other exchange.
Link(id, p, name) ==
    /\ IsOpen(p) /\ pool[p].owner = id
    /\ Spend("moves")
    /\ pool' = [pool EXCEPT ![p].links = @ \cup {name}]
    /\ UNCHANGED <<bal, tx, block, plan, dev, given, own>>

SetRate(id, p, rate) ==
    /\ IsOpen(p) /\ pool[p].owner = id /\ rate > 0
    /\ Spend("moves")
    /\ pool' = [pool EXCEPT ![p].rate = rate]
    /\ UNCHANGED <<bal, tx, block, plan, dev, given, own>>

-----------------------------------------------------------------------------
(* The calls of a trade *)

CanPrepare(id, p, x, side, amount) ==
    /\ tx[Home[p]][x] = NoTx
    /\ CanSwap(id, p, side, amount)

Prepare(id, p, x, side, amount, expiry) ==
    /\ CanPrepare(id, p, x, side, amount)
    /\ Shift(p, id, side, amount, Out(p, side, amount))
    /\ Record(Home[p], x, [holder |-> id, pool |-> p, from |-> side, amount |-> amount,
                           out |-> Out(p, side, amount), expiry |-> expiry,
                           receive |-> FALSE, status |-> "prepared"])

\* Faulty: the reserve is not asked.
CanReceiveUnfunded(p, x, side, amount, link) ==
    /\ tx[Home[p]][x] = NoTx
    /\ IsOpen(p) /\ link \in pool[p].links
    /\ amount >= 0

CanReceive(p, x, side, amount, link) ==
    /\ tx[Home[p]][x] = NoTx
    /\ IsOpen(p) /\ link \in pool[p].links
    /\ amount >= 0
    /\ pool[p].reserve[Other(side)] >= Out(p, side, amount)

\* The amount comes from the other shard: only the reserve pays, and only out moves.
PrepareReceive(id, p, x, side, amount, expiry, link) ==
    /\ CanReceive(p, x, side, amount, link)
    /\ Shift(p, id, side, 0, Out(p, side, amount))
    /\ Record(Home[p], x, [holder |-> id, pool |-> p, from |-> side, amount |-> amount,
                           out |-> Out(p, side, amount), expiry |-> expiry,
                           receive |-> TRUE, status |-> "prepared"])

\* commit is answered with success: again, if the leg is committed already.
CanCommit(id, e, x) ==
    /\ tx[e][x] # NoTx
    /\ tx[e][x].holder = id
    /\ Leg(e, x) \in {"prepared", "committed"}

Commit(id, e, x) ==
    /\ CanCommit(id, e, x)
    /\ Record(e, x, [tx[e][x] EXCEPT !.status = "committed"])
    /\ UNCHANGED <<pool, bal>>

\* Faulty: the block number is not read.
MayAlwaysAbort(id, e, x) == Leg(e, x) = "prepared"

\* abort moves a prepared leg back and is answered with success, or finds it aborted.
MayAbort(id, e, x) ==
    /\ Leg(e, x) = "prepared"
    /\ tx[e][x].holder = id \/ block[e] >= tx[e][x].expiry

\* Faulty: what is moved back is computed from the rate of today.
ReverseAtRate(p, e, x) ==
    LET t == tx[e][x]
        out == Out(p, t.from, t.amount)
    IN  /\ Shift(p, t.holder, t.from, IF t.receive THEN 0 ELSE -t.amount, -out)
        /\ Record(e, x, [t EXCEPT !.status = "aborted"])

Reverse(p, e, x) ==
    LET t == tx[e][x]
    IN  /\ Shift(p, t.holder, t.from, IF t.receive THEN 0 ELSE -t.amount, -t.out)
        /\ Record(e, x, [t EXCEPT !.status = "aborted"])

\* The poolId is an argument; the leg's own is not compared with it.
Abort(id, p, x) ==
    /\ MayAbort(id, Home[p], x)
    /\ Reverse(p, Home[p], x)

\* Anyone may try, once the leg has expired.
AbortExpired(id, p, x) ==
    /\ tx[Home[p]][x] # NoTx /\ id # tx[Home[p]][x].holder
    /\ IsOpen(p)
    /\ Abort(id, p, x)
    /\ UNCHANGED <<block, plan, dev, given, own, budget>>

NextBlock(e) ==
    /\ block[e] < MaxBlock
    /\ block' = [block EXCEPT ![e] = @ + 1]
    /\ UNCHANGED <<pool, bal, tx, plan, dev, given, own, budget>>

-----------------------------------------------------------------------------
(* A device drives a trade *)

Holder(d) == plan[dev[d].x].holder
LocalPool(d) == plan[dev[d].x].local
RemotePool(d) == plan[dev[d].x].remote
Local(x) == IF plan[x] = NoTrade THEN "unknown" ELSE Leg(Home[plan[x].local], x)
Remote(x) == IF plan[x] = NoTrade THEN "unknown" ELSE Leg(Home[plan[x].remote], x)

GoTo(d, step) == dev' = [dev EXCEPT ![d].at = step]
Refused == UNCHANGED ledger

\* A fresh txId, an amount, the two pools: interface CrossShardTrade.
Begin(d, x, t) ==
    /\ dev[d].at = "idle"
    /\ plan[x] = NoTrade
    /\ Home[t.local] # Home[t.remote]
    /\ plan' = [plan EXCEPT ![x] = t]
    /\ dev' = [dev EXCEPT ![d].at = "prepare", ![d].x = x]
    /\ UNCHANGED <<pool, bal, tx, block, given, own, budget>>

CallPrepare(d) ==
    LET t == plan[dev[d].x]
    IN  /\ dev[d].at = "prepare"
        /\ IF CanPrepare(t.holder, t.local, dev[d].x, t.from, t.amount)
           THEN /\ Prepare(t.holder, t.local, dev[d].x, t.from, t.amount, t.expiry)
                /\ GoTo(d, "receive")
           ELSE Refused /\ GoTo(d, "idle")
        /\ UNCHANGED <<block, plan, given, own, budget>>

\* What the local leg paid goes in on the other side; refused, the local leg is undone.
CallReceive(d) ==
    LET x == dev[d].x
        t == plan[x]
        paid == tx[Home[t.local]][x].out
    IN  /\ dev[d].at = "receive"
        /\ IF CanReceive(t.remote, x, t.into, paid, t.local)
           THEN /\ PrepareReceive(t.holder, t.remote, x, t.into, paid, t.expiry, t.local)
                /\ GoTo(d, "commit")
           ELSE Refused /\ GoTo(d, "abortLocal")
        /\ UNCHANGED <<block, plan, given, own, budget>>

\* A commit that is refused sends the device to read what became of the legs.
CallCommitLocal(d) ==
    LET x == dev[d].x
        e == Home[LocalPool(d)]
    IN  /\ dev[d].at \in {"commit", "commitLocal"}
        /\ IF CanCommit(Holder(d), e, x)
           THEN /\ Commit(Holder(d), e, x)
                /\ GoTo(d, IF dev[d].at = "commit" THEN "commitRemote" ELSE "idle")
           ELSE Refused /\ GoTo(d, "readLocal")
        /\ UNCHANGED <<block, plan, given, own, budget>>

CallCommitRemote(d) ==
    LET x == dev[d].x
        e == Home[RemotePool(d)]
    IN  /\ dev[d].at = "commitRemote"
        /\ IF CanCommit(Holder(d), e, x)
           THEN Commit(Holder(d), e, x) /\ GoTo(d, "idle")
           ELSE Refused /\ GoTo(d, "readLocal")
        /\ UNCHANGED <<block, plan, given, own, budget>>

CallAbort(d, p) ==
    /\ IF MayAbort(Holder(d), Home[p], dev[d].x)
       THEN Abort(Holder(d), p, dev[d].x)
       ELSE Refused
    /\ GoTo(d, "idle")
    /\ UNCHANGED <<block, plan, given, own, budget>>

CallAbortLocal(d) == dev[d].at = "abortLocal" /\ CallAbort(d, LocalPool(d))
CallAbortRemote(d) == dev[d].at = "abortRemote" /\ CallAbort(d, RemotePool(d))

-----------------------------------------------------------------------------
(* Recovery *)

\* Faulty: an aborted local leg ends the matter.
DecideLocally(local, remote) ==
    CASE local = "prepared" /\ remote = "prepared" -> "commit-both"
      [] local = "prepared" /\ remote = "committed" -> "commit-local"
      [] local = "prepared" /\ remote \in {"unknown", "aborted"} -> "abort-local"
      [] local = "committed" /\ remote = "prepared" -> "commit-remote"
      [] local = "committed" /\ remote = "committed" -> "noop"
      [] local = "committed" /\ remote \in {"unknown", "aborted"} -> "inconsistent"
      [] local \in {"aborted", "unknown"} -> "noop"

\* The decision table, and the step it sends the device to.
DecideRecovery(local, remote) ==
    CASE local = "prepared" /\ remote = "prepared" -> "commit-both"
      [] local = "prepared" /\ remote = "committed" -> "commit-local"
      [] local = "prepared" /\ remote \in {"unknown", "aborted"} -> "abort-local"
      [] local = "committed" /\ remote = "prepared" -> "commit-remote"
      [] local = "committed" /\ remote = "committed" -> "noop"
      [] local = "committed" /\ remote \in {"unknown", "aborted"} -> "inconsistent"
      [] local = "aborted" /\ remote \in {"unknown", "aborted"} -> "noop"
      [] local = "aborted" /\ remote = "prepared" -> "abort-remote"
      [] local = "aborted" /\ remote = "committed" -> "inconsistent"
      [] local = "unknown" -> "noop"

Resume(action) ==
    CASE action = "commit-both" -> "commit"
      [] action = "commit-local" -> "commitLocal"
      [] action = "commit-remote" -> "commitRemote"
      [] action = "abort-local" -> "abortLocal"
      [] action = "abort-remote" -> "abortRemote"
      [] action \in {"noop", "inconsistent"} -> "idle"

Crash(d) ==
    /\ dev[d].at # "idle"
    /\ Spend("faults")
    /\ GoTo(d, "idle")
    /\ UNCHANGED <<pool, bal, tx, block, plan, given, own>>

Recover(d, x) ==
    /\ dev[d].at = "idle"
    /\ plan[x] # NoTrade
    /\ dev' = [dev EXCEPT ![d].at = "readLocal", ![d].x = x]
    /\ UNCHANGED <<pool, bal, tx, block, plan, given, own, budget>>

\* An exchange that is not reached reads as "unknown".
Reads(status, reading) ==
    \/ reading = status /\ UNCHANGED budget
    \/ reading = "unknown" /\ status # "unknown" /\ Spend("faults")

ReadLocal(d) ==
    /\ dev[d].at = "readLocal"
    /\ \E r \in Status :
           /\ Reads(Local(dev[d].x), r)
           /\ dev' = [dev EXCEPT ![d].at = "readRemote", ![d].local = r]
    /\ UNCHANGED <<pool, bal, tx, block, plan, given, own>>

ReadRemote(d) ==
    /\ dev[d].at = "readRemote"
    /\ \E r \in Status :
           /\ Reads(Remote(dev[d].x), r)
           /\ dev' = [dev EXCEPT ![d].at = Resume(DecideRecovery(dev[d].local, r)),
                                 ![d].local = "unknown"]
    /\ UNCHANGED <<pool, bal, tx, block, plan, given, own>>

-----------------------------------------------------------------------------
PoolCall ==
    \E id \in Ids, p \in Pools :
        \/ \E rate \in Rates : Open(id, p, rate) \/ SetRate(id, p, rate)
        \/ \E side \in Sides, amount \in Amounts :
               \/ Provide(id, p, side, amount)
               \/ Deposit(id, p, side, amount)
               \/ Swap(id, p, side, amount)
               \/ Withdraw(id, p, side, amount)
        \/ \E name \in Pools : Link(id, p, name)
        \/ \E x \in Txs : AbortExpired(id, p, x)

DeviceStep(d) ==
    \/ CallPrepare(d) \/ CallReceive(d)
    \/ CallCommitLocal(d) \/ CallCommitRemote(d)
    \/ CallAbortLocal(d) \/ CallAbortRemote(d)
    \/ ReadLocal(d) \/ ReadRemote(d)

DeviceCall(d) ==
    \/ \E x \in Txs, t \in [holder: Ids, local: Pools, remote: Pools, from: Sides,
                            into: Sides, amount: Amounts, expiry: Expiries] :
           Begin(d, x, t)
    \/ DeviceStep(d)
    \/ Crash(d)
    \/ \E x \in Txs : Recover(d, x)

Next ==
    \/ PoolCall
    \/ \E d \in Devices : DeviceCall(d)
    \/ \E e \in Exchanges : NextBlock(e)

\* Whoever holds the trade's key comes back to it, and what a device began it goes on with.
Fairness ==
    /\ \A d \in Devices : WF_vars(DeviceStep(d))
    /\ \A x \in Txs : WF_vars(\E d \in Devices : Recover(d, x))

Spec == Init /\ [][Next]_vars
FairSpec == Spec /\ Fairness

-----------------------------------------------------------------------------
(* Properties *)

\* What the legs on pool p that were not aborted moved into its reserve, on one side.
LegMoves(p, t, side) ==
    IF t = NoTx THEN 0
    ELSE IF t.pool # p \/ t.status = "aborted" THEN 0
    ELSE IF side = t.from THEN (IF t.receive THEN 0 ELSE t.amount)
    ELSE -t.out

HolderMoves(p, id, t, side) ==
    IF t = NoTx THEN 0 ELSE IF t.holder = id THEN LegMoves(p, t, side) ELSE 0

Sum(f) == FoldFunction(+, 0, f)

\* rholang-exchange.js:6-8 and 345: conservation is held per pool, and an abort reverses a
\* leg exactly.  Whatever was swapped, withdrawn or re-priced between a leg's prepare and its
\* abort, reserves and balances are what the calls on single pools alone would have left,
\* and the legs that were not aborted.
Accounted ==
    \A p \in Pools, side \in Sides :
        LET log == tx[Home[p]]
        IN  /\ pool[p].reserve[side]
                   = given[p][side] + Sum([x \in Txs |-> LegMoves(p, log[x], side)])
            /\ \A id \in Ids :
                   bal[p][id][side] = own[p][id][side]
                                      - Sum([x \in Txs |-> HolderMoves(p, id, log[x], side)])

\* rholang-exchange.js:6: no call but an abort ever takes from a reserve or a balance what
\* is not there, prepared legs included.  (An abort does: what a prepared leg moved may be
\* spent before it is moved back.)
OnlyAbortOverdraws ==
    [][\A p \in Pools, side \in Sides :
         \/ /\ pool'[p].reserve[side] >= 0 \/ pool'[p].reserve[side] >= pool[p].reserve[side]
            /\ \A id \in Ids : bal'[p][id][side] >= 0 \/ bal'[p][id][side] >= bal[p][id][side]
         \/ \E x \in Txs : Leg(Home[p], x) = "prepared" /\ Leg(Home[p], x)' = "aborted"]_vars

\* exchange-2pc.ts:9-20: however many devices drive and recover a trade, whatever they read
\* before and act on later, the remote leg is committed only after the local one, and a trade
\* is split, one leg committed and the other aborted or never prepared, only when its remote
\* leg was let expire.
LegsAgree ==
    \A x \in Txs :
        /\ Remote(x) = "committed" => Local(x) = "committed"
        /\ Local(x) = "committed" /\ Remote(x) \notin {"prepared", "committed"} =>
               Remote(x) = "aborted" /\ block[Home[plan[x].remote]] >= plan[x].expiry

\* exchange-2pc.ts:14-17: while some device with the key comes back, no leg stays prepared.
TradeEnds ==
    \A x \in Txs :
        Local(x) = "prepared" ~> (Local(x) # "prepared" /\ Remote(x) # "prepared")

\* exchange-2pc.ts:43-45 and ExchangeDemo.md: a split trade is "not reachable by following
\* the protocol in order".
TradeIsAtomic ==
    \A x \in Txs : ~(Local(x) = "committed" /\ Remote(x) = "aborted")

=============================================================================
