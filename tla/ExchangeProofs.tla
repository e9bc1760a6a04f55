--------------------------- MODULE ExchangeProofs ---------------------------
(* Proofs about Exchange: its types, that the two legs of a trade agree    *)
(* however many devices drive and recover it, that only aborts take more   *)
(* than there is, and that the books of every pool are kept.               *)
EXTENDS Exchange, FiniteSetTheorems, TLAPS

Expired(x) == block[Home[plan[x].remote]] >= plan[x].expiry

\* What is in the logs belongs to a trade, and was written with the trade's own terms.
LogsOfTrades ==
    \A x \in Txs :
        /\ \A e \in Exchanges : tx[e][x] # NoTx =>
               /\ plan[x] # NoTrade
               /\ e \in {Home[plan[x].local], Home[plan[x].remote]}
               /\ tx[e][x].holder = plan[x].holder
               /\ tx[e][x].expiry = plan[x].expiry
        /\ plan[x] # NoTrade => Home[plan[x].local] # Home[plan[x].remote]

\* What the two legs may be at the same time.
LegsInOrder ==
    \A x \in Txs :
        /\ Remote(x) = "committed" => Local(x) = "committed"
        /\ Local(x) = "committed" => Remote(x) # "unknown"
        /\ Local(x) = "unknown" => Remote(x) = "unknown"
        /\ Remote(x) = "aborted" => Local(x) = "aborted" \/ Expired(x)

\* What a device may still rely on when it makes its next call.
DeviceKnows(v) ==
    /\ v.at # "idle" => plan[v.x] # NoTrade
    /\ v.at \in {"receive", "commit", "commitLocal", "commitRemote"} => Local(v.x) # "unknown"
    /\ v.at \in {"commit", "commitLocal"} => Remote(v.x) # "unknown"
    /\ v.at = "commitRemote" => Local(v.x) = "committed"
    /\ v.at = "abortRemote" => Local(v.x) = "aborted"
    /\ v.at = "readRemote" =>
           /\ v.local \in {"committed", "aborted"} => Local(v.x) = v.local
           /\ v.local = "prepared" => Local(v.x) # "unknown"

DevicesKnow == \A d \in Devices : DeviceKnows(dev[d])

TradeInv == LogsOfTrades /\ LegsInOrder /\ DevicesKnow

-----------------------------------------------------------------------------
(* Types *)

LEMMA OutTypes ==
    ASSUME TypeOK, NEW p \in Pools, NEW side \in Sides, NEW amount \in Int, IsOpen(p)
    PROVE  Out(p, side, amount) \in Int
<1>1. RateScale \in Nat /\ RateScale > 0
  BY ExchangeAssumption
<1>2. pool[p].rate \in Int /\ pool[p].rate > 0
  BY DEF TypeOK, Pool, IsOpen
<1>3. (amount * pool[p].rate) \div RateScale \in Int
  BY <1>1, <1>2
<1>4. (amount * RateScale) \div pool[p].rate \in Int
  BY <1>1, <1>2
<1>5. QED
  BY <1>3, <1>4 DEF Out

LEMMA FilledTypes ==
    ASSUME NEW r \in [Pools -> [Sides -> Int]], NEW p \in Pools, NEW side \in Sides,
           NEW by \in Int
    PROVE  Filled(r, p, side, by) \in [Pools -> [Sides -> Int]]
BY DEF Filled

LEMMA CreditedTypes ==
    ASSUME NEW b \in [Pools -> [Ids -> [Sides -> Int]]], NEW p \in Pools, NEW id \in Ids,
           NEW side \in Sides, NEW by \in Int
    PROVE  Credited(b, p, id, side, by) \in [Pools -> [Ids -> [Sides -> Int]]]
BY DEF Credited

LEMMA OtherSide == \A side \in Sides : Other(side) \in Sides
BY DEF Sides, Other

LEMMA PaidTypes ==
    ASSUME NEW r \in [Pools -> [Sides -> Int]], NEW p \in Pools, NEW side \in Sides,
           NEW amount \in Int, NEW out \in Int
    PROVE  Paid(r, p, side, amount, out) \in [Pools -> [Sides -> Int]]
<1>1. Filled(r, p, side, amount) \in [Pools -> [Sides -> Int]]
  BY FilledTypes
<1>2. Other(side) \in Sides /\ -out \in Int
  BY OtherSide
<1>3. Filled(Filled(r, p, side, amount), p, Other(side), -out) \in [Pools -> [Sides -> Int]]
  BY <1>1, <1>2, FilledTypes
<1>4. QED
  BY <1>3 DEF Paid

LEMMA ReceivedTypes ==
    ASSUME NEW b \in [Pools -> [Ids -> [Sides -> Int]]], NEW p \in Pools, NEW id \in Ids,
           NEW side \in Sides, NEW amount \in Int, NEW out \in Int
    PROVE  Received(b, p, id, side, amount, out) \in [Pools -> [Ids -> [Sides -> Int]]]
<1>1. Credited(b, p, id, side, -amount) \in [Pools -> [Ids -> [Sides -> Int]]]
  <2>1. -amount \in Int
    OBVIOUS
  <2>2. QED
    BY <2>1, CreditedTypes
<1>2. Other(side) \in Sides
  BY OtherSide
<1>3. Credited(Credited(b, p, id, side, -amount), p, id, Other(side), out)
          \in [Pools -> [Ids -> [Sides -> Int]]]
  BY <1>1, <1>2, CreditedTypes
<1>4. QED
  BY <1>3 DEF Received

LEMMA PoolFields ==
    ASSUME NEW v \in Pool
    PROVE  /\ \A r \in [Sides -> Int] :
                  /\ [v EXCEPT !.reserve = r] \in Pool
                  /\ [v EXCEPT !.reserve = r].owner = v.owner
                  /\ [v EXCEPT !.reserve = r].rate = v.rate
           /\ \A l \in SUBSET Pools :
                  /\ [v EXCEPT !.links = l] \in Pool
                  /\ [v EXCEPT !.links = l].owner = v.owner
                  /\ [v EXCEPT !.links = l].rate = v.rate
           /\ \A rate \in Int :
                  /\ [v EXCEPT !.rate = rate] \in Pool
                  /\ [v EXCEPT !.rate = rate].rate = rate
           /\ \A id \in Ids, rate \in Int :
                  /\ [v EXCEPT !.owner = id, !.rate = rate] \in Pool
                  /\ [v EXCEPT !.owner = id, !.rate = rate].rate = rate
BY DEF Pool

LEMMA ReserveTypes ==
    ASSUME TypeOK, NEW p \in Pools, NEW r \in [Pools -> [Sides -> Int]], SetReserve(p, r)
    PROVE  /\ pool' \in [Pools -> Pool]
           /\ \A q \in Pools : pool'[q].owner = pool[q].owner /\ pool'[q].rate = pool[q].rate
<1> DEFINE q == [pool[p] EXCEPT !.reserve = r[p]]
<1>1. /\ q \in Pool
      /\ q.owner = pool[p].owner /\ q.rate = pool[p].rate
  BY PoolFields DEF TypeOK
<1>2. pool \in [Pools -> Pool] /\ pool' = [pool EXCEPT ![p] = q]
  BY DEF TypeOK, SetReserve
<1> HIDE DEF q
<1>3. QED
  BY <1>1, <1>2

LEMMA ReservesType == TypeOK => Reserves \in [Pools -> [Sides -> Int]]
BY DEF TypeOK, Reserves, Pool

\* What TypeOK says of the variables a call of a single pool, or a leg, may change.
LedgerTypes ==
    /\ pool \in [Pools -> Pool]
    /\ bal \in [Pools -> [Ids -> [Sides -> Int]]]
    /\ \A p \in Pools : pool[p].owner # Nobody => pool[p].rate > 0

LogTypes ==
    /\ tx \in [Exchanges -> [Txs -> Tx \cup {NoTx}]]
    /\ \A e \in Exchanges, x \in Txs : tx[e][x] # NoTx => tx[e][x].amount >= 0

LEMMA ShiftTypes ==
    ASSUME TypeOK, NEW p \in Pools, NEW id \in Ids, NEW side \in Sides,
           NEW amount \in Int, NEW out \in Int, Shift(p, id, side, amount, out)
    PROVE  LedgerTypes'
<1>1. /\ pool' \in [Pools -> Pool]
      /\ \A q \in Pools : pool'[q].owner = pool[q].owner /\ pool'[q].rate = pool[q].rate
  <2>1. Paid(Reserves, p, side, amount, out) \in [Pools -> [Sides -> Int]]
    BY ReservesType, PaidTypes
  <2>2. QED
    BY <2>1, ReserveTypes DEF Shift
<1>2. bal' \in [Pools -> [Ids -> [Sides -> Int]]]
  BY ReceivedTypes DEF Shift, TypeOK
<1>3. \A q \in Pools : pool'[q].owner # Nobody => pool'[q].rate > 0
  BY <1>1 DEF TypeOK
<1>4. QED
  BY <1>1, <1>2, <1>3 DEF LedgerTypes

LEMMA RecordTypes ==
    ASSUME TypeOK, NEW e \in Exchanges, NEW x \in Txs, NEW t \in Tx, t.amount >= 0,
           Record(e, x, t)
    PROVE  /\ LogTypes'
           /\ \A f \in Exchanges, y \in Txs :
                  tx'[f][y] = IF f = e /\ y = x THEN t ELSE tx[f][y]
BY DEF TypeOK, LogTypes, Record

Device == [at: Steps, x: Txs, local: Status]

\* A step of device d leaves the others alone; what it makes of dev[d].
Steps1(d, step, x, local) ==
    /\ dev' \in [Devices -> Device]
    /\ dev'[d].at = step /\ dev'[d].x = x /\ dev'[d].local = local
    /\ \A c \in Devices \ {d} : dev'[c] = dev[c]

LEMMA DevBegins ==
    ASSUME TypeOK, NEW d \in Devices, NEW step \in Steps, NEW x \in Txs,
           dev' = [dev EXCEPT ![d].at = step, ![d].x = x]
    PROVE  Steps1(d, step, x, dev[d].local)
<1>1. dev \in [Devices -> Device] /\ dev[d] \in Device
  BY DEF TypeOK, Device
<1> DEFINE v == [dev[d] EXCEPT !.at = step, !.x = x]
<1>2. dev' = [dev EXCEPT ![d] = v]
  OBVIOUS
<1>3. v \in Device /\ v.at = step /\ v.x = x /\ v.local = dev[d].local
  BY <1>1 DEF Device
<1> HIDE DEF v
<1>4. QED
  BY <1>1, <1>2, <1>3 DEF Steps1

LEMMA DevReads ==
    ASSUME TypeOK, NEW d \in Devices, NEW step \in Steps, NEW r \in Status,
           dev' = [dev EXCEPT ![d].at = step, ![d].local = r]
    PROVE  Steps1(d, step, dev[d].x, r)
<1>1. dev \in [Devices -> Device] /\ dev[d] \in Device
  BY DEF TypeOK, Device
<1> DEFINE v == [dev[d] EXCEPT !.at = step, !.local = r]
<1>2. dev' = [dev EXCEPT ![d] = v]
  OBVIOUS
<1>3. v \in Device /\ v.at = step /\ v.x = dev[d].x /\ v.local = r
  BY <1>1 DEF Device
<1> HIDE DEF v
<1>4. QED
  BY <1>1, <1>2, <1>3 DEF Steps1

LEMMA DevGoes ==
    ASSUME TypeOK, NEW d \in Devices, NEW step \in Steps, GoTo(d, step)
    PROVE  Steps1(d, step, dev[d].x, dev[d].local)
<1>1. dev \in [Devices -> Device] /\ dev[d] \in Device
  BY DEF TypeOK, Device
<1> DEFINE v == [dev[d] EXCEPT !.at = step]
<1>2. dev' = [dev EXCEPT ![d] = v]
  BY DEF GoTo
<1>3. v \in Device /\ v.at = step /\ v.x = dev[d].x /\ v.local = dev[d].local
  BY <1>1 DEF Device
<1> HIDE DEF v
<1>4. QED
  BY <1>1, <1>2, <1>3 DEF Steps1

LEMMA DevTypes ==
    ASSUME NEW d \in Devices, NEW step, NEW x, NEW local, Steps1(d, step, x, local)
    PROVE  dev' \in [Devices -> [at: Steps, x: Txs, local: Status]]
BY DEF Steps1, Device

LEMMA SpendTypes ==
    ASSUME TypeOK, NEW what \in {"moves", "faults"}, Spend(what)
    PROVE  budget' \in [moves: 0..MaxMoves, faults: 0..MaxFaults]
BY ExchangeAssumption DEF TypeOK, Spend

\* A leg moved back leaves the ledger typed, and changes nothing in the log but its status.
LEMMA AbortTypes ==
    ASSUME TypeOK, NEW id, NEW p \in Pools, NEW x \in Txs, Abort(id, p, x)
    PROVE  /\ LedgerTypes' /\ LogTypes'
           /\ tx[Home[p]][x] \in Tx
           /\ \E u \in Tx :
                  /\ u.holder = tx[Home[p]][x].holder /\ u.expiry = tx[Home[p]][x].expiry
                  /\ u.status = "aborted"
                  /\ \A f \in Exchanges, y \in Txs :
                         tx'[f][y] = IF f = Home[p] /\ y = x THEN u ELSE tx[f][y]
<1> DEFINE e == Home[p]
           t == tx[e][x]
           u == [t EXCEPT !.status = "aborted"]
<1>1. e \in Exchanges
  BY ExchangeAssumption
<1>2. t \in Tx /\ t.amount >= 0
  BY <1>1 DEF TypeOK, Abort, MayAbort, Leg, NoTx
<1>3. /\ Shift(p, t.holder, t.from, IF t.receive THEN 0 ELSE -t.amount, -t.out)
      /\ Record(e, x, u)
  BY DEF Abort, Reverse
<1>4. /\ u \in Tx /\ u.amount >= 0 /\ u.status = "aborted"
      /\ u.holder = t.holder /\ u.expiry = t.expiry
  BY <1>2 DEF Tx, Status
<1>5. t.holder \in Ids /\ t.from \in Sides /\ -t.out \in Int
      /\ (IF t.receive THEN 0 ELSE -t.amount) \in Int
  BY <1>2 DEF Tx
<1> HIDE DEF e, t, u
<1>6. LedgerTypes'
  BY <1>3, <1>5, ShiftTypes
<1>7. /\ LogTypes'
      /\ \A f \in Exchanges, y \in Txs : tx'[f][y] = IF f = e /\ y = x THEN u ELSE tx[f][y]
  BY <1>1, <1>3, <1>4, RecordTypes
<1>8. QED
  BY <1>2, <1>4, <1>6, <1>7 DEF e, t

LEMMA TypeInit == Init => TypeOK
<1> SUFFICES ASSUME Init PROVE TypeOK
  OBVIOUS
<1>1. dev \in [Devices -> [at: Steps, x: Txs, local: Status]]
  BY DEF Init, Steps, Status
<1>2. QED
  BY <1>1, ExchangeAssumption DEF Init, TypeOK, Pool, NoTx

LEMMA PoolCallTypes == TypeOK /\ PoolCall => TypeOK'
<1> SUFFICES ASSUME TypeOK, PoolCall PROVE TypeOK'
  OBVIOUS
<1>0. Home \in [Pools -> Exchanges] /\ Rates \subseteq Int /\ Amounts \subseteq Int
  BY ExchangeAssumption
<1>1. ASSUME NEW id \in Ids, NEW p \in Pools, NEW rate \in Rates, Open(id, p, rate)
      PROVE  TypeOK'
  <2>1. budget' \in [moves: 0..MaxMoves, faults: 0..MaxFaults]
    BY <1>1, SpendTypes DEF Open
  <2> DEFINE q == [pool[p] EXCEPT !.owner = id, !.rate = rate]
  <2>2. q \in Pool /\ q.rate > 0
    <3>1. pool[p] \in Pool /\ rate \in Int /\ rate > 0
      BY <1>0, <1>1 DEF Open, TypeOK
    <3>2. QED
      BY <3>1, PoolFields
  <2>3. pool \in [Pools -> Pool] /\ pool' = [pool EXCEPT ![p] = q]
    BY <1>1 DEF Open, TypeOK, Pool
  <2> HIDE DEF q
  <2>5. pool' \in [Pools -> Pool]
    BY <2>2, <2>3
  <2>6. \A o \in Pools : pool'[o].owner # Nobody => pool'[o].rate > 0
    BY <2>2, <2>3 DEF TypeOK
  <2>4. QED
    BY <1>1, <2>1, <2>5, <2>6 DEF Open, TypeOK
<1>2. ASSUME NEW id \in Ids, NEW p \in Pools, NEW rate \in Rates, SetRate(id, p, rate)
      PROVE  TypeOK'
  <2>1. budget' \in [moves: 0..MaxMoves, faults: 0..MaxFaults]
    BY <1>2, SpendTypes DEF SetRate
  <2> DEFINE q == [pool[p] EXCEPT !.rate = rate]
  <2>2. q \in Pool /\ q.rate > 0
    <3>1. pool[p] \in Pool /\ rate \in Int /\ rate > 0
      BY <1>0, <1>2 DEF SetRate, TypeOK
    <3>2. QED
      BY <3>1, PoolFields
  <2>3. pool \in [Pools -> Pool] /\ pool' = [pool EXCEPT ![p] = q]
    BY <1>2 DEF SetRate, TypeOK, Pool
  <2> HIDE DEF q
  <2>5. pool' \in [Pools -> Pool]
    BY <2>2, <2>3
  <2>6. \A o \in Pools : pool'[o].owner # Nobody => pool'[o].rate > 0
    BY <2>2, <2>3 DEF TypeOK
  <2>4. QED
    BY <1>2, <2>1, <2>5, <2>6 DEF SetRate, TypeOK
<1>3. ASSUME NEW id \in Ids, NEW p \in Pools, NEW side \in Sides, NEW amount \in Amounts,
             Provide(id, p, side, amount)
      PROVE  TypeOK'
  <2>1. budget' \in [moves: 0..MaxMoves, faults: 0..MaxFaults]
    BY <1>3, SpendTypes DEF Provide
  <2>2. Filled(Reserves, p, side, amount) \in [Pools -> [Sides -> Int]]
    BY <1>0, ReservesType, FilledTypes
  <2>3. /\ pool' \in [Pools -> Pool]
        /\ \A q \in Pools : pool'[q].owner = pool[q].owner /\ pool'[q].rate = pool[q].rate
    BY <1>3, <2>2, ReserveTypes DEF Provide
  <2>4. given' \in [Pools -> [Sides -> Int]]
    BY <1>0, <1>3, FilledTypes DEF Provide, TypeOK
  <2>5. QED
    BY <1>3, <2>1, <2>3, <2>4 DEF Provide, TypeOK
<1>4. ASSUME NEW id \in Ids, NEW p \in Pools, NEW side \in Sides, NEW amount \in Amounts,
             Deposit(id, p, side, amount) \/ Withdraw(id, p, side, amount)
      PROVE  TypeOK'
  <2>1. budget' \in [moves: 0..MaxMoves, faults: 0..MaxFaults]
    BY <1>4, SpendTypes DEF Deposit, Withdraw
  <2>2. PICK by \in Int : /\ bal' = Credited(bal, p, id, side, by)
                          /\ own' = Credited(own, p, id, side, by)
    BY <1>0, <1>4 DEF Deposit, Withdraw
  <2>3. /\ bal' \in [Pools -> [Ids -> [Sides -> Int]]]
        /\ own' \in [Pools -> [Ids -> [Sides -> Int]]]
    BY <2>2, CreditedTypes DEF TypeOK
  <2>4. UNCHANGED <<pool, tx, block, plan, dev, given>>
    BY <1>4 DEF Deposit, Withdraw
  <2>5. QED
    BY <2>1, <2>3, <2>4 DEF TypeOK
<1>5. ASSUME NEW id \in Ids, NEW p \in Pools, NEW side \in Sides, NEW amount \in Amounts,
             Swap(id, p, side, amount)
      PROVE  TypeOK'
  <2> DEFINE out == Out(p, side, amount)
  <2>1. budget' \in [moves: 0..MaxMoves, faults: 0..MaxFaults]
    BY <1>5, SpendTypes DEF Swap
  <2>2. amount \in Int /\ out \in Int
    BY <1>0, <1>5, OutTypes DEF Swap, CanSwap
  <2>3. /\ Shift(p, id, side, amount, out)
        /\ given' = Paid(given, p, side, amount, out)
        /\ own' = Received(own, p, id, side, amount, out)
        /\ UNCHANGED <<tx, block, plan, dev>>
    BY <1>5 DEF Swap
  <2> HIDE DEF out
  <2>4. LedgerTypes'
    BY <2>2, <2>3, ShiftTypes
  <2>5. /\ given' \in [Pools -> [Sides -> Int]]
        /\ own' \in [Pools -> [Ids -> [Sides -> Int]]]
    BY <2>2, <2>3, PaidTypes, ReceivedTypes DEF TypeOK
  <2>6. QED
    BY <2>1, <2>3, <2>4, <2>5 DEF TypeOK, LedgerTypes
<1>6. ASSUME NEW id \in Ids, NEW p \in Pools, NEW name \in Pools, Link(id, p, name)
      PROVE  TypeOK'
  <2>1. budget' \in [moves: 0..MaxMoves, faults: 0..MaxFaults]
    BY <1>6, SpendTypes DEF Link
  <2>2. /\ pool' \in [Pools -> Pool]
        /\ \A q \in Pools : pool'[q].owner = pool[q].owner /\ pool'[q].rate = pool[q].rate
    <3> DEFINE l == [pool[p] EXCEPT !.links = pool[p].links \cup {name}]
    <3>1. l \in Pool /\ l.owner = pool[p].owner /\ l.rate = pool[p].rate
      <4>1. pool[p] \in Pool /\ pool[p].links \cup {name} \in SUBSET Pools
        BY DEF TypeOK, Pool
      <4>2. QED
        BY <4>1, PoolFields
    <3>2. pool \in [Pools -> Pool] /\ pool' = [pool EXCEPT ![p] = l]
      BY <1>6 DEF Link, TypeOK, Pool
    <3> HIDE DEF l
    <3>3. QED
      BY <3>1, <3>2
  <2>3. QED
    BY <1>6, <2>1, <2>2 DEF Link, TypeOK
<1>7. ASSUME NEW id \in Ids, NEW p \in Pools, NEW x \in Txs, AbortExpired(id, p, x)
      PROVE  TypeOK'
  <2>1. LedgerTypes' /\ LogTypes'
    BY <1>7, AbortTypes DEF AbortExpired
  <2>2. QED
    BY <1>7, <2>1 DEF AbortExpired, TypeOK, LedgerTypes, LogTypes
<1>8. QED
  BY <1>1, <1>2, <1>3, <1>4, <1>5, <1>6, <1>7 DEF PoolCall

LEMMA PrepareTypes ==
    ASSUME TypeOK, NEW id \in Ids, NEW p \in Pools, NEW x \in Txs, NEW side \in Sides,
           NEW amount \in Int, NEW expiry \in Nat, Prepare(id, p, x, side, amount, expiry)
    PROVE  /\ LedgerTypes' /\ LogTypes'
           /\ tx[Home[p]][x] = NoTx
           /\ \E t \in Tx :
                  /\ t.holder = id /\ t.expiry = expiry /\ t.status = "prepared"
                  /\ \A f \in Exchanges, y \in Txs :
                         tx'[f][y] = IF f = Home[p] /\ y = x THEN t ELSE tx[f][y]
<1> DEFINE out == Out(p, side, amount)
           t == [holder |-> id, pool |-> p, from |-> side, amount |-> amount,
                 out |-> out, expiry |-> expiry, receive |-> FALSE, status |-> "prepared"]
<1>1. amount >= 0 /\ IsOpen(p) /\ tx[Home[p]][x] = NoTx
  BY DEF Prepare, CanPrepare, CanSwap
<1>2. out \in Int /\ Home[p] \in Exchanges
  BY <1>1, OutTypes, ExchangeAssumption
<1>3. Shift(p, id, side, amount, out) /\ Record(Home[p], x, t)
  BY DEF Prepare
<1> HIDE DEF out
<1>4. t \in Tx /\ t.amount >= 0 /\ t.holder = id /\ t.expiry = expiry /\ t.status = "prepared"
  BY <1>1, <1>2 DEF Tx, Status
<1> HIDE DEF t
<1>5. LedgerTypes'
  BY <1>2, <1>3, ShiftTypes
<1>6. /\ LogTypes'
      /\ \A f \in Exchanges, y \in Txs :
             tx'[f][y] = IF f = Home[p] /\ y = x THEN t ELSE tx[f][y]
  BY <1>2, <1>3, <1>4, RecordTypes
<1>7. QED
  BY <1>1, <1>4, <1>5, <1>6

LEMMA ReceiveTypes ==
    ASSUME TypeOK, NEW id \in Ids, NEW p \in Pools, NEW x \in Txs, NEW side \in Sides,
           NEW amount \in Int, NEW expiry \in Nat, NEW link,
           PrepareReceive(id, p, x, side, amount, expiry, link)
    PROVE  /\ LedgerTypes' /\ LogTypes'
           /\ tx[Home[p]][x] = NoTx
           /\ \E t \in Tx :
                  /\ t.holder = id /\ t.expiry = expiry /\ t.status = "prepared"
                  /\ \A f \in Exchanges, y \in Txs :
                         tx'[f][y] = IF f = Home[p] /\ y = x THEN t ELSE tx[f][y]
<1> DEFINE out == Out(p, side, amount)
           t == [holder |-> id, pool |-> p, from |-> side, amount |-> amount,
                 out |-> out, expiry |-> expiry, receive |-> TRUE, status |-> "prepared"]
<1>1. amount >= 0 /\ IsOpen(p) /\ tx[Home[p]][x] = NoTx
  BY DEF PrepareReceive, CanReceive
<1>2. out \in Int /\ Home[p] \in Exchanges
  BY <1>1, OutTypes, ExchangeAssumption
<1>3. Shift(p, id, side, 0, out) /\ Record(Home[p], x, t)
  BY DEF PrepareReceive
<1> HIDE DEF out
<1>4. t \in Tx /\ t.amount >= 0 /\ t.holder = id /\ t.expiry = expiry /\ t.status = "prepared"
  BY <1>1, <1>2 DEF Tx, Status
<1> HIDE DEF t
<1>5. LedgerTypes'
  BY <1>2, <1>3, ShiftTypes
<1>6. /\ LogTypes'
      /\ \A f \in Exchanges, y \in Txs :
             tx'[f][y] = IF f = Home[p] /\ y = x THEN t ELSE tx[f][y]
  BY <1>2, <1>3, <1>4, RecordTypes
<1>7. QED
  BY <1>1, <1>4, <1>5, <1>6

LEMMA CommitTypes ==
    ASSUME TypeOK, NEW id, NEW e \in Exchanges, NEW x \in Txs, Commit(id, e, x)
    PROVE  /\ LedgerTypes' /\ LogTypes'
           /\ Leg(e, x) \in {"prepared", "committed"}
           /\ tx[e][x] \in Tx
           /\ \E u \in Tx :
                  /\ u.holder = tx[e][x].holder /\ u.expiry = tx[e][x].expiry
                  /\ u.status = "committed"
                  /\ \A f \in Exchanges, y \in Txs :
                         tx'[f][y] = IF f = e /\ y = x THEN u ELSE tx[f][y]
<1> DEFINE t == tx[e][x]
           u == [t EXCEPT !.status = "committed"]
<1>1. t \in Tx /\ t.amount >= 0
  BY DEF TypeOK, Commit, CanCommit
<1>2. /\ u \in Tx /\ u.amount >= 0 /\ u.status = "committed"
      /\ u.holder = t.holder /\ u.expiry = t.expiry
  BY <1>1 DEF Tx, Status
<1>3. Record(e, x, u) /\ UNCHANGED <<pool, bal>>
  BY DEF Commit
<1> HIDE DEF u
<1>4. /\ LogTypes'
      /\ \A f \in Exchanges, y \in Txs : tx'[f][y] = IF f = e /\ y = x THEN u ELSE tx[f][y]
  BY <1>2, <1>3, RecordTypes
<1>5. LedgerTypes'
  BY <1>3 DEF TypeOK, LedgerTypes
<1>6. QED
  BY <1>1, <1>2, <1>4, <1>5 DEF Commit, CanCommit

\* The trade a device is at work on.
LEMMA AtWork ==
    ASSUME TypeOK, TradeInv, NEW d \in Devices, dev[d].at # "idle"
    PROVE  /\ dev[d].x \in Txs
           /\ plan[dev[d].x] # NoTrade /\ plan[dev[d].x] \in Trade
           /\ LocalPool(d) \in Pools /\ RemotePool(d) \in Pools /\ Holder(d) \in Ids
           /\ Home[LocalPool(d)] \in Exchanges /\ Home[RemotePool(d)] \in Exchanges
           /\ Home[LocalPool(d)] # Home[RemotePool(d)]
<1>1. dev[d].x \in Txs /\ plan[dev[d].x] # NoTrade
  BY DEF TypeOK, TradeInv, DevicesKnow, DeviceKnows
<1>2. plan[dev[d].x] \in Trade
  BY <1>1 DEF TypeOK
<1>3. LocalPool(d) \in Pools /\ RemotePool(d) \in Pools /\ Holder(d) \in Ids
  BY <1>2 DEF Trade, LocalPool, RemotePool, Holder
<1>4. Home[LocalPool(d)] # Home[RemotePool(d)]
  BY <1>1 DEF TradeInv, LogsOfTrades, LocalPool, RemotePool
<1>5. QED
  BY <1>1, <1>2, <1>3, <1>4, ExchangeAssumption

LEMMA CallTypes ==
    ASSUME TypeOK, TradeInv, NEW d \in Devices,
           \/ CallPrepare(d) \/ CallReceive(d) \/ CallCommitLocal(d) \/ CallCommitRemote(d)
           \/ CallAbortLocal(d) \/ CallAbortRemote(d)
    PROVE  TypeOK'
<1>1. /\ dev' \in [Devices -> [at: Steps, x: Txs, local: Status]]
      /\ UNCHANGED <<block, plan, given, own, budget>>
  <2>1. PICK step \in Steps : GoTo(d, step)
    BY DEF CallPrepare, CallReceive, CallCommitLocal, CallCommitRemote, CallAbortLocal,
           CallAbortRemote, CallAbort, Steps
  <2>2. QED
    BY <2>1, DevGoes, DevTypes
       DEF CallPrepare, CallReceive, CallCommitLocal, CallCommitRemote, CallAbortLocal,
           CallAbortRemote, CallAbort
<1>2. LedgerTypes' /\ LogTypes'
  <2>1. CASE UNCHANGED ledger
    BY <2>1 DEF TypeOK, LedgerTypes, LogTypes, ledger
  <2>2. CASE CallPrepare(d) /\ ~UNCHANGED ledger
    <3> DEFINE t == plan[dev[d].x]
    <3>1. t \in Trade /\ dev[d].x \in Txs
      BY <2>2, AtWork DEF CallPrepare
    <3>2. Prepare(t.holder, t.local, dev[d].x, t.from, t.amount, t.expiry)
      BY <2>2 DEF CallPrepare, Refused
    <3>3. /\ t.holder \in Ids /\ t.local \in Pools /\ t.from \in Sides /\ t.amount \in Int
          /\ t.expiry \in Nat
      BY <3>1 DEF Trade
    <3> HIDE DEF t
    <3>4. QED
      BY <3>1, <3>2, <3>3, PrepareTypes
  <2>3. CASE CallReceive(d) /\ ~UNCHANGED ledger
    <3> DEFINE t == plan[dev[d].x]
               paid == tx[Home[t.local]][dev[d].x].out
    <3>1. t \in Trade /\ dev[d].x \in Txs /\ t # NoTrade
      BY <2>3, AtWork DEF CallReceive
    <3>2. PrepareReceive(t.holder, t.remote, dev[d].x, t.into, paid, t.expiry, t.local)
      BY <2>3 DEF CallReceive, Refused
    <3>3. /\ t.holder \in Ids /\ t.local \in Pools /\ t.remote \in Pools /\ t.into \in Sides
          /\ t.expiry \in Nat
      BY <3>1 DEF Trade
    <3>4. Home[t.local] \in Exchanges
      BY <3>3, ExchangeAssumption
    <3>5. Local(dev[d].x) # "unknown"
      BY <2>3 DEF TradeInv, DevicesKnow, DeviceKnows, CallReceive
    <3>6. tx[Home[t.local]][dev[d].x] # NoTx
      BY <3>1, <3>5 DEF Local, Leg, NoTx
    <3>7. paid \in Int
      BY <3>1, <3>4, <3>6 DEF TypeOK, Tx
    <3> HIDE DEF t, paid
    <3>8. QED
      BY <3>1, <3>2, <3>3, <3>7, ReceiveTypes
  <2>4. CASE CallCommitLocal(d) /\ ~UNCHANGED ledger
    <3>1. Commit(Holder(d), Home[LocalPool(d)], dev[d].x)
      BY <2>4 DEF CallCommitLocal, Refused
    <3>2. dev[d].x \in Txs /\ Home[LocalPool(d)] \in Exchanges
      BY <2>4, AtWork DEF CallCommitLocal
    <3>3. QED
      BY <3>1, <3>2, CommitTypes
  <2>5. CASE CallCommitRemote(d) /\ ~UNCHANGED ledger
    <3>1. Commit(Holder(d), Home[RemotePool(d)], dev[d].x)
      BY <2>5 DEF CallCommitRemote, Refused
    <3>2. dev[d].x \in Txs /\ Home[RemotePool(d)] \in Exchanges
      BY <2>5, AtWork DEF CallCommitRemote
    <3>3. QED
      BY <3>1, <3>2, CommitTypes
  <2>6. CASE CallAbortLocal(d) /\ ~UNCHANGED ledger
    <3>1. Abort(Holder(d), LocalPool(d), dev[d].x)
      BY <2>6 DEF CallAbortLocal, CallAbort, Refused
    <3>2. dev[d].x \in Txs /\ LocalPool(d) \in Pools /\ Holder(d) \in Ids
      BY <2>6, AtWork DEF CallAbortLocal
    <3>3. QED
      BY <3>1, <3>2, AbortTypes
  <2>7. CASE CallAbortRemote(d) /\ ~UNCHANGED ledger
    <3>1. Abort(Holder(d), RemotePool(d), dev[d].x)
      BY <2>7 DEF CallAbortRemote, CallAbort, Refused
    <3>2. dev[d].x \in Txs /\ RemotePool(d) \in Pools /\ Holder(d) \in Ids
      BY <2>7, AtWork DEF CallAbortRemote
    <3>3. QED
      BY <3>1, <3>2, AbortTypes
  <2>8. QED
    BY <2>1, <2>2, <2>3, <2>4, <2>5, <2>6, <2>7
<1>3. QED
  BY <1>1, <1>2 DEF TypeOK, LedgerTypes, LogTypes

LEMMA ReadTypes ==
    ASSUME TypeOK, NEW d \in Devices,
           \/ ReadLocal(d) \/ ReadRemote(d) \/ Crash(d)
           \/ \E x \in Txs : Recover(d, x)
           \/ \E x \in Txs, t \in Trade : Begin(d, x, t)
    PROVE  TypeOK'
<1>1. CASE ReadLocal(d) \/ ReadRemote(d)
  <2>1. dev' \in [Devices -> [at: Steps, x: Txs, local: Status]]
    <3>1. CASE ReadLocal(d)
      <4>1. PICK r \in Status : dev' = [dev EXCEPT ![d].at = "readRemote", ![d].local = r]
        BY <3>1 DEF ReadLocal
      <4>2. "readRemote" \in Steps
        BY DEF Steps
      <4>3. QED
        BY <4>1, <4>2, DevReads, DevTypes
    <3>2. CASE ReadRemote(d)
      <4>1. PICK r \in Status :
                dev' = [dev EXCEPT ![d].at = Resume(DecideRecovery(dev[d].local, r)),
                                   ![d].local = "unknown"]
        BY <3>2 DEF ReadRemote
      <4>2. dev[d].local \in Status
        BY DEF TypeOK
      <4>3. Resume(DecideRecovery(dev[d].local, r)) \in Steps
        <5> DEFINE act == DecideRecovery(dev[d].local, r)
        <5>1. act \in {"commit-both", "commit-local", "commit-remote", "abort-local",
                       "abort-remote", "noop", "inconsistent"}
          BY <4>2 DEF DecideRecovery, Status
        <5> HIDE DEF act
        <5>2. Resume(act) \in Steps
          BY <5>1 DEF Resume, Steps
        <5>3. QED
          BY <5>2 DEF act
      <4>4. QED
        <5>1. "unknown" \in Status
          BY DEF Status
        <5>2. QED
          BY <4>1, <4>3, <5>1, DevReads, DevTypes
    <3>3. QED
      BY <1>1, <3>1, <3>2
  <2>2. budget' \in [moves: 0..MaxMoves, faults: 0..MaxFaults]
    BY <1>1, SpendTypes DEF ReadLocal, ReadRemote, Reads, TypeOK
  <2>3. UNCHANGED <<pool, bal, tx, block, plan, given, own>>
    BY <1>1 DEF ReadLocal, ReadRemote
  <2>4. QED
    BY <2>1, <2>2, <2>3 DEF TypeOK
<1>2. CASE Crash(d)
  <2>1. dev' \in [Devices -> [at: Steps, x: Txs, local: Status]]
    <3>1. "idle" \in Steps /\ GoTo(d, "idle")
      BY <1>2 DEF Crash, Steps
    <3>2. QED
      BY <3>1, DevGoes, DevTypes
  <2>2. budget' \in [moves: 0..MaxMoves, faults: 0..MaxFaults]
    BY <1>2, SpendTypes DEF Crash
  <2>3. QED
    BY <1>2, <2>1, <2>2 DEF Crash, TypeOK
<1>3. ASSUME NEW x \in Txs, Recover(d, x) PROVE TypeOK'
  <2>1. dev' \in [Devices -> [at: Steps, x: Txs, local: Status]]
    <3>1. "readLocal" \in Steps /\ dev' = [dev EXCEPT ![d].at = "readLocal", ![d].x = x]
      BY <1>3 DEF Recover, Steps
    <3>2. QED
      BY <3>1, DevBegins, DevTypes
  <2>2. QED
    BY <1>3, <2>1 DEF Recover, TypeOK
<1>4. ASSUME NEW x \in Txs, NEW t \in Trade, Begin(d, x, t) PROVE TypeOK'
  <2>1. dev' \in [Devices -> [at: Steps, x: Txs, local: Status]]
    <3>1. "prepare" \in Steps /\ dev' = [dev EXCEPT ![d].at = "prepare", ![d].x = x]
      BY <1>4 DEF Begin, Steps
    <3>2. QED
      BY <3>1, DevBegins, DevTypes
  <2>2. plan' \in [Txs -> Trade \cup {NoTrade}]
    <3>1. plan \in [Txs -> Trade \cup {NoTrade}] /\ plan' = [plan EXCEPT ![x] = t]
      BY <1>4 DEF Begin, TypeOK
    <3>2. QED
      BY <1>4, <3>1
  <2>3. UNCHANGED <<pool, bal, tx, block, given, own, budget>>
    BY <1>4 DEF Begin
  <2>4. QED
    BY <2>1, <2>2, <2>3 DEF TypeOK
<1>5. QED
  BY <1>1, <1>2, <1>3, <1>4

LEMMA TypeNext == TypeOK /\ TradeInv /\ [Next]_vars => TypeOK'
<1> SUFFICES ASSUME TypeOK, TradeInv, [Next]_vars PROVE TypeOK'
  OBVIOUS
<1>1. CASE UNCHANGED vars
  BY <1>1 DEF vars, TypeOK
<1>2. CASE PoolCall
  BY <1>2, PoolCallTypes
<1>3. ASSUME NEW d \in Devices, DeviceCall(d) PROVE TypeOK'
  <2>1. ASSUME NEW x \in Txs,
               NEW t \in [holder: Ids, local: Pools, remote: Pools, from: Sides,
                          into: Sides, amount: Amounts, expiry: Expiries],
               Begin(d, x, t)
        PROVE  TypeOK'
    <3>1. t \in Trade
      BY ExchangeAssumption DEF Trade
    <3>2. QED
      BY <2>1, <3>1, ReadTypes
  <2>2. QED
    BY <1>3, <2>1, CallTypes, ReadTypes DEF DeviceCall, DeviceStep
<1>4. ASSUME NEW e \in Exchanges, NextBlock(e) PROVE TypeOK'
  <2>1. block' \in [Exchanges -> 0..MaxBlock]
    BY <1>4, ExchangeAssumption DEF NextBlock, TypeOK
  <2>2. QED
    BY <1>4, <2>1 DEF NextBlock, TypeOK
<1>5. QED
  BY <1>1, <1>2, <1>3, <1>4 DEF Next

-----------------------------------------------------------------------------
(* The two legs of a trade *)

LEMMA LegStatus ==
    ASSUME TypeOK
    PROVE  /\ \A e \in Exchanges, x \in Txs :
                  Leg(e, x) \in Status /\ (Leg(e, x) = "unknown" <=> tx[e][x] = NoTx)
           /\ \A x \in Txs : Local(x) \in Status /\ Remote(x) \in Status
<1>1. \A e \in Exchanges, x \in Txs :
          Leg(e, x) \in Status /\ (Leg(e, x) = "unknown" <=> tx[e][x] = NoTx)
  BY DEF TypeOK, Leg, Tx, NoTx, Status
<1>2. ASSUME NEW x \in Txs, plan[x] # NoTrade
      PROVE  Home[plan[x].local] \in Exchanges /\ Home[plan[x].remote] \in Exchanges
  <2>1. plan[x] \in Trade
    BY <1>2 DEF TypeOK
  <2>2. QED
    BY <2>1, ExchangeAssumption DEF Trade
<1>3. "unknown" \in Status
  BY DEF Status
<1>4. ASSUME NEW x \in Txs PROVE Local(x) \in Status /\ Remote(x) \in Status
  <2>1. CASE plan[x] = NoTrade
    BY <1>3, <2>1 DEF Local, Remote
  <2>2. CASE plan[x] # NoTrade
    BY <1>1, <1>2, <2>2 DEF Local, Remote
  <2>3. QED
    BY <2>1, <2>2
<1>5. QED
  BY <1>1, <1>4

\* No leg is forgotten and none that is settled changes.
Grows ==
    \A x \in Txs :
        /\ Local(x) # "unknown" => Local(x)' # "unknown"
        /\ Remote(x) # "unknown" => Remote(x)' # "unknown"
        /\ Local(x) \in {"committed", "aborted"} => Local(x)' = Local(x)
        /\ plan[x] # NoTrade => plan'[x] # NoTrade

LEMMA OthersKnow ==
    ASSUME TypeOK, TradeInv, Grows, NEW d \in Devices, NEW step, NEW x, NEW local,
           Steps1(d, step, x, local), DeviceKnows(dev[d])'
    PROVE  DevicesKnow'
<1> SUFFICES ASSUME NEW c \in Devices PROVE DeviceKnows(dev[c])'
  BY DEF DevicesKnow
<1>1. CASE c = d
  BY <1>1
<1>2. CASE c # d
  <2>1. dev'[c] = dev[c] /\ dev[c].x \in Txs /\ DeviceKnows(dev[c])
    BY <1>2 DEF Steps1, TypeOK, TradeInv, DevicesKnow
  <2>2. QED
    BY <2>1 DEF DeviceKnows, Grows
<1>3. QED
  BY <1>1, <1>2

\* Calls that touch no leg, and blocks that pass.
LEMMA QuietInv ==
    ASSUME TypeOK, TradeInv, UNCHANGED <<tx, plan, dev>>,
           \A e \in Exchanges : block[e] \in Nat /\ block'[e] \in Nat /\ block'[e] >= block[e]
    PROVE  TradeInv'
<1>1. \A x \in Txs : Local(x)' = Local(x) /\ Remote(x)' = Remote(x)
  BY DEF Local, Remote, Leg
<1>2. ASSUME NEW x \in Txs, plan[x] # NoTrade, Expired(x) PROVE Expired(x)'
  <2>1. plan[x] \in Trade
    BY <1>2 DEF TypeOK
  <2>2. Home[plan[x].remote] \in Exchanges /\ plan[x].expiry \in Nat
    BY <2>1, ExchangeAssumption DEF Trade
  <2>3. QED
    BY <1>2, <2>2 DEF Expired
<1>3. \A x \in Txs : Remote(x) = "aborted" => plan[x] # NoTrade
  BY DEF Remote
<1>4. LogsOfTrades'
  BY DEF TradeInv, LogsOfTrades
<1>5. LegsInOrder'
  BY <1>1, <1>2, <1>3 DEF TradeInv, LegsInOrder
<1>6. DevicesKnow'
  <2> SUFFICES ASSUME NEW d \in Devices PROVE DeviceKnows(dev[d])'
    BY DEF DevicesKnow
  <2>1. dev'[d] = dev[d] /\ dev[d].x \in Txs /\ DeviceKnows(dev[d])
    BY DEF TradeInv, DevicesKnow, TypeOK
  <2>2. QED
    BY <1>1, <2>1 DEF DeviceKnows
<1>7. QED
  BY <1>4, <1>5, <1>6 DEF TradeInv

\* A device that changes its step and nothing else.
LEMMA ThinkInv ==
    ASSUME TypeOK, TradeInv, UNCHANGED <<tx, plan, block>>,
           NEW d \in Devices, NEW step, NEW x, NEW local, Steps1(d, step, x, local),
           DeviceKnows(dev'[d])
    PROVE  TradeInv'
<1>1. /\ \A y \in Txs : Local(y)' = Local(y) /\ Remote(y)' = Remote(y) /\ Expired(y)' = Expired(y)
      /\ LogsOfTrades'
  BY DEF Local, Remote, Leg, Expired, TradeInv, LogsOfTrades
<1>2. LegsInOrder'
  BY <1>1 DEF TradeInv, LegsInOrder
<1>3. dev'[d].x \in Txs
  BY DEF Steps1, Device
<1>4. DeviceKnows(dev[d])'
  BY <1>1, <1>3 DEF DeviceKnows
<1>5. Grows
  BY <1>1 DEF Grows
<1>6. QED
  BY <1>1, <1>2, <1>4, <1>5, OthersKnow DEF TradeInv

\* The moves of a leg that keep the other one in order.
Moves(e, x, t) ==
    \/ /\ e = Home[plan[x].local]
       /\ \/ Local(x) = "unknown" /\ t.status = "prepared"
          \/ Local(x) = "prepared" /\ t.status = "aborted"
          \/ /\ Local(x) \in {"prepared", "committed"} /\ t.status = "committed"
             /\ Remote(x) # "unknown"
    \/ /\ e = Home[plan[x].remote]
       /\ \/ Remote(x) = "unknown" /\ t.status = "prepared" /\ Local(x) # "unknown"
          \/ Remote(x) = "prepared" /\ t.status = "aborted" /\ (Local(x) = "aborted" \/ Expired(x))
          \/ /\ Remote(x) \in {"prepared", "committed"} /\ t.status = "committed"
             /\ Local(x) = "committed"

LEMMA LegInv ==
    ASSUME TypeOK, TradeInv, UNCHANGED <<plan, block>>,
           NEW e \in Exchanges, NEW x \in Txs, NEW t \in Tx, plan[x] # NoTrade,
           t.holder = plan[x].holder, t.expiry = plan[x].expiry, Moves(e, x, t),
           \A f \in Exchanges, y \in Txs :
               tx'[f][y] = IF f = e /\ y = x THEN t ELSE tx[f][y]
    PROVE  /\ LogsOfTrades' /\ LegsInOrder' /\ Grows
           /\ Local(x)' = IF e = Home[plan[x].local] THEN t.status ELSE Local(x)
           /\ Remote(x)' = IF e = Home[plan[x].remote] THEN t.status ELSE Remote(x)
<1>1. \A y \in Txs : plan[y] # NoTrade =>
          /\ plan[y] \in Trade
          /\ Home[plan[y].local] \in Exchanges /\ Home[plan[y].remote] \in Exchanges
          /\ Home[plan[y].local] # Home[plan[y].remote]
  BY ExchangeAssumption DEF TypeOK, Trade, TradeInv, LogsOfTrades
<1>2. \A y \in Txs \ {x} : Local(y)' = Local(y) /\ Remote(y)' = Remote(y)
  BY <1>1 DEF Local, Remote, Leg
<1>3. /\ Local(x)' = IF e = Home[plan[x].local] THEN t.status ELSE Local(x)
      /\ Remote(x)' = IF e = Home[plan[x].remote] THEN t.status ELSE Remote(x)
  BY <1>1 DEF Local, Remote, Leg
<1>4. \A y \in Txs : Expired(y)' = Expired(y)
  BY DEF Expired
<1>5. e \in {Home[plan[x].local], Home[plan[x].remote]}
  BY DEF Moves
<1>6. LogsOfTrades'
  BY <1>1, <1>5 DEF TradeInv, LogsOfTrades
<1>7. Local(x) \in Status /\ Remote(x) \in Status
  BY LegStatus
<1>8. LegsInOrder'
  BY <1>1, <1>2, <1>3, <1>4, <1>7 DEF TradeInv, LegsInOrder, Moves
<1>9. Grows
  BY <1>1, <1>2, <1>3, <1>7 DEF Grows, Moves
<1>10. QED
  BY <1>3, <1>6, <1>8, <1>9

LEMMA InitInv == Init => TradeInv
BY DEF Init, TradeInv, LogsOfTrades, LegsInOrder, DevicesKnow, DeviceKnows, Local, Remote

LEMMA BlockTypes == TypeOK => \A e \in Exchanges : block[e] \in Nat
BY ExchangeAssumption DEF TypeOK

LEMMA PoolCallInv == TypeOK /\ TradeInv /\ PoolCall => TradeInv'
<1> SUFFICES ASSUME TypeOK, TradeInv, PoolCall PROVE TradeInv'
  OBVIOUS
<1>1. CASE UNCHANGED <<tx, plan, dev, block>>
  BY <1>1, BlockTypes, QuietInv
<1>2. ASSUME NEW id \in Ids, NEW p \in Pools, NEW x \in Txs, AbortExpired(id, p, x)
      PROVE  TradeInv'
  <2> DEFINE e == Home[p]
  <2>0. Abort(id, p, x) /\ UNCHANGED <<block, plan, dev>>
    BY <1>2 DEF AbortExpired
  <2>1. Leg(e, x) = "prepared" /\ block[e] >= tx[e][x].expiry
    BY <1>2 DEF AbortExpired, Abort, MayAbort
  <2>2. e \in Exchanges
    BY ExchangeAssumption
  <2>3. tx[e][x] \in Tx /\ tx[e][x] # NoTx
    BY <2>1, <2>2 DEF TypeOK, Leg, NoTx
  <2>4. PICK t \in Tx :
            /\ t.status = "aborted"
            /\ t.holder = tx[e][x].holder /\ t.expiry = tx[e][x].expiry
            /\ \A f \in Exchanges, y \in Txs : tx'[f][y] = IF f = e /\ y = x THEN t ELSE tx[f][y]
    BY <2>0, AbortTypes
  <2>5. /\ plan[x] # NoTrade /\ e \in {Home[plan[x].local], Home[plan[x].remote]}
        /\ tx[e][x].holder = plan[x].holder /\ tx[e][x].expiry = plan[x].expiry
    BY <2>2, <2>3 DEF TradeInv, LogsOfTrades
  <2>6. Moves(e, x, t)
    BY <2>1, <2>4, <2>5 DEF Moves, Local, Remote, Expired
  <2> HIDE DEF e
  <2>7. LogsOfTrades' /\ LegsInOrder' /\ Grows
        /\ Local(x)' = (IF e = Home[plan[x].local] THEN t.status ELSE Local(x))
        /\ Remote(x)' = (IF e = Home[plan[x].remote] THEN t.status ELSE Remote(x))
    BY <2>0, <2>2, <2>4, <2>5, <2>6, LegInv
  <2>8. DevicesKnow'
    <3> SUFFICES ASSUME NEW d \in Devices PROVE DeviceKnows(dev[d])'
      BY DEF DevicesKnow
    <3>1. dev' = dev /\ dev[d].x \in Txs /\ DeviceKnows(dev[d])
      BY <2>0 DEF TypeOK, TradeInv, DevicesKnow
    <3>2. QED
      BY <2>7, <3>1 DEF DeviceKnows, Grows
  <2>9. QED
    BY <2>7, <2>8 DEF TradeInv
<1>3. QED
  BY <1>1, <1>2 DEF PoolCall, Open, SetRate, Provide, Deposit, Swap, Withdraw, Link

\* A device's call that was carried out: one leg moved, and the device knows what it did.
LEMMA CallInv ==
    ASSUME TypeOK, TradeInv, UNCHANGED <<plan, block>>,
           NEW d \in Devices, dev[d].at # "idle", NEW step \in Steps, GoTo(d, step),
           step \in {"idle", "receive", "commit", "commitRemote"},
           NEW e \in Exchanges, NEW t \in Tx,
           NEW x \in Txs, dev[d].x = x,
           t.holder = plan[x].holder, t.expiry = plan[x].expiry, Moves(e, x, t),
           \A f \in Exchanges, y \in Txs :
               tx'[f][y] = IF f = e /\ y = x THEN t ELSE tx[f][y],
           step = "receive" => e = Home[LocalPool(d)],
           step = "commit" => e = Home[RemotePool(d)],
           step = "commitRemote" => e = Home[LocalPool(d)] /\ t.status = "committed"
    PROVE  TradeInv'
<1>1. plan[x] # NoTrade /\ Home[plan[x].local] # Home[plan[x].remote]
  BY AtWork DEF LocalPool, RemotePool
<1>2. LogsOfTrades' /\ LegsInOrder' /\ Grows
      /\ Local(x)' = (IF e = Home[plan[x].local] THEN t.status ELSE Local(x))
      /\ Remote(x)' = (IF e = Home[plan[x].remote] THEN t.status ELSE Remote(x))
  BY <1>1, LegInv
<1>3. Steps1(d, step, x, dev[d].local)
  BY DevGoes
<1>4. t.status # "unknown"
  BY DEF Tx
<1>5. Local(x)' # "unknown"
  <2>1. Local(x) \in Status
    BY <1>1, LegStatus
  <2>2. QED
    BY <1>1, <1>2, <1>4, <2>1 DEF Moves, Grows, TradeInv, LegsInOrder
<1>6. DeviceKnows(dev[d])'
  <2>1. dev'[d].at = step /\ dev'[d].x = x /\ plan' = plan
    BY <1>3 DEF Steps1
  <2>2. step = "commit" => Remote(x)' # "unknown"
    BY <1>2, <1>4 DEF RemotePool
  <2>3. step = "commitRemote" => Local(x)' = "committed"
    BY <1>2 DEF LocalPool
  <2>4. QED
    BY <1>1, <1>5, <2>1, <2>2, <2>3 DEF DeviceKnows
<1>7. DevicesKnow'
  BY <1>2, <1>3, <1>6, OthersKnow
<1>8. QED
  BY <1>2, <1>7 DEF TradeInv

\* A device's call that was refused: it reads again, undoes its own leg, or stops.
LEMMA RefusedInv ==
    ASSUME TypeOK, TradeInv, UNCHANGED <<tx, plan, block>>,
           NEW d \in Devices, dev[d].at # "idle", NEW step \in Steps, GoTo(d, step),
           step \in {"idle", "readLocal", "abortLocal"}
    PROVE  TradeInv'
<1>1. Steps1(d, step, dev[d].x, dev[d].local)
  BY DevGoes
<1>2. DeviceKnows(dev'[d])
  BY <1>1, AtWork DEF DeviceKnows, Steps1
<1>3. QED
  BY <1>1, <1>2, ThinkInv

LEMMA PrepareInv ==
    ASSUME TypeOK, TradeInv, NEW d \in Devices, CallPrepare(d)
    PROVE  TradeInv'
<1>1. PICK x \in Txs : dev[d].x = x
  BY DEF TypeOK
<1> DEFINE t == plan[x]
           e == Home[t.local]
<1>2. /\ t \in Trade /\ t # NoTrade /\ e \in Exchanges /\ dev[d].at # "idle"
      /\ LocalPool(d) = t.local /\ Home[t.local] # Home[t.remote]
  BY <1>1, AtWork DEF CallPrepare, LocalPool, RemotePool
<1>3. UNCHANGED <<block, plan>>
  BY DEF CallPrepare
<1>4. CASE CanPrepare(t.holder, t.local, x, t.from, t.amount)
  <2>1. Prepare(t.holder, t.local, x, t.from, t.amount, t.expiry) /\ GoTo(d, "receive")
    BY <1>1, <1>4 DEF CallPrepare
  <2>2. /\ t.holder \in Ids /\ t.local \in Pools /\ t.from \in Sides /\ t.amount \in Int
        /\ t.expiry \in Nat
    BY <1>2 DEF Trade
  <2>3. /\ tx[e][x] = NoTx
        /\ \E u \in Tx :
               /\ u.holder = t.holder /\ u.expiry = t.expiry /\ u.status = "prepared"
               /\ \A f \in Exchanges, y \in Txs :
                      tx'[f][y] = IF f = e /\ y = x THEN u ELSE tx[f][y]
    <3> HIDE DEF t
    <3>1. QED
      BY <2>1, <2>2, PrepareTypes
  <2>4. PICK u \in Tx :
            /\ u.holder = t.holder /\ u.expiry = t.expiry /\ u.status = "prepared"
            /\ \A f \in Exchanges, y \in Txs :
                   tx'[f][y] = IF f = e /\ y = x THEN u ELSE tx[f][y]
    BY <2>3
  <2>5. Moves(e, x, u)
    BY <1>2, <2>3, <2>4 DEF Moves, Local, Leg, NoTx
  <2>6. "receive" \in Steps
    BY DEF Steps
  <2>7. QED
    BY <1>1, <1>2, <1>3, <2>1, <2>4, <2>5, <2>6, CallInv
<1>5. CASE ~CanPrepare(t.holder, t.local, x, t.from, t.amount)
  <2>1. UNCHANGED tx /\ GoTo(d, "idle") /\ "idle" \in Steps
    BY <1>1, <1>5 DEF CallPrepare, Refused, ledger, Steps
  <2>2. QED
    BY <1>2, <1>3, <2>1, RefusedInv
<1>6. QED
  BY <1>4, <1>5

LEMMA ReceiveInv ==
    ASSUME TypeOK, TradeInv, NEW d \in Devices, CallReceive(d)
    PROVE  TradeInv'
<1>1. PICK x \in Txs : dev[d].x = x
  BY DEF TypeOK
<1> DEFINE t == plan[x]
           e == Home[t.remote]
           paid == tx[Home[t.local]][x].out
<1>2. /\ t \in Trade /\ t # NoTrade /\ e \in Exchanges /\ dev[d].at # "idle"
      /\ LocalPool(d) = t.local /\ RemotePool(d) = t.remote
      /\ Home[t.local] \in Exchanges /\ Home[t.local] # Home[t.remote]
  BY <1>1, AtWork DEF CallReceive, LocalPool, RemotePool
<1>3. UNCHANGED <<block, plan>>
  BY DEF CallReceive
<1>4. Local(x) # "unknown"
  BY <1>1 DEF TradeInv, DevicesKnow, DeviceKnows, CallReceive
<1>5. CASE CanReceive(t.remote, x, t.into, paid, t.local)
  <2>1. /\ PrepareReceive(t.holder, t.remote, x, t.into, paid, t.expiry, t.local)
        /\ GoTo(d, "commit")
    BY <1>1, <1>5 DEF CallReceive
  <2>2. /\ t.holder \in Ids /\ t.local \in Pools /\ t.remote \in Pools /\ t.into \in Sides
        /\ t.expiry \in Nat
    BY <1>2 DEF Trade
  <2>3. tx[Home[t.local]][x] # NoTx
    BY <1>2, <1>4 DEF Local, Leg, NoTx
  <2>4. paid \in Int
    BY <1>2, <2>3 DEF TypeOK, Tx
  <2>5. /\ tx[e][x] = NoTx
        /\ \E u \in Tx :
               /\ u.holder = t.holder /\ u.expiry = t.expiry /\ u.status = "prepared"
               /\ \A f \in Exchanges, y \in Txs :
                      tx'[f][y] = IF f = e /\ y = x THEN u ELSE tx[f][y]
    <3> HIDE DEF t, paid
    <3>1. QED
      BY <2>1, <2>2, <2>4, ReceiveTypes
  <2>6. PICK u \in Tx :
            /\ u.holder = t.holder /\ u.expiry = t.expiry /\ u.status = "prepared"
            /\ \A f \in Exchanges, y \in Txs :
                   tx'[f][y] = IF f = e /\ y = x THEN u ELSE tx[f][y]
    BY <2>5
  <2>7. Moves(e, x, u)
    BY <1>2, <1>4, <2>5, <2>6 DEF Moves, Remote, Leg, NoTx
  <2>8. "commit" \in Steps
    BY DEF Steps
  <2>9. QED
    BY <1>1, <1>2, <1>3, <2>1, <2>6, <2>7, <2>8, CallInv
<1>6. CASE ~CanReceive(t.remote, x, t.into, paid, t.local)
  <2>1. UNCHANGED tx /\ GoTo(d, "abortLocal") /\ "abortLocal" \in Steps
    BY <1>1, <1>6 DEF CallReceive, Refused, ledger, Steps
  <2>2. QED
    BY <1>2, <1>3, <2>1, RefusedInv
<1>7. QED
  BY <1>5, <1>6

LEMMA CommitInv ==
    ASSUME TypeOK, TradeInv, NEW d \in Devices, CallCommitLocal(d) \/ CallCommitRemote(d)
    PROVE  TradeInv'
<1>1. PICK x \in Txs : dev[d].x = x
  BY DEF TypeOK
<1>2. PICK e \in Exchanges :
          \/ CallCommitLocal(d) /\ e = Home[LocalPool(d)]
          \/ CallCommitRemote(d) /\ e = Home[RemotePool(d)]
  BY AtWork DEF CallCommitLocal, CallCommitRemote
<1>3. PICK id \in Ids : id = Holder(d)
  BY AtWork DEF CallCommitLocal, CallCommitRemote
<1>4. /\ plan[x] # NoTrade /\ dev[d].at # "idle"
      /\ LocalPool(d) = plan[x].local /\ RemotePool(d) = plan[x].remote
      /\ Home[plan[x].local] # Home[plan[x].remote]
  BY <1>1, AtWork DEF CallCommitLocal, CallCommitRemote, LocalPool, RemotePool
<1>5. UNCHANGED <<block, plan>>
  BY DEF CallCommitLocal, CallCommitRemote
<1>6. CASE CanCommit(id, e, x)
  <2>1. PICK step \in {"idle", "commitRemote"} :
            /\ Commit(id, e, x) /\ GoTo(d, step)
            /\ step = "commitRemote" => e = Home[LocalPool(d)]
    BY <1>1, <1>2, <1>3, <1>6 DEF CallCommitLocal, CallCommitRemote
  <2>2. /\ Leg(e, x) \in {"prepared", "committed"} /\ tx[e][x] \in Tx
        /\ \E u \in Tx :
               /\ u.holder = tx[e][x].holder /\ u.expiry = tx[e][x].expiry
               /\ u.status = "committed"
               /\ \A f \in Exchanges, y \in Txs :
                      tx'[f][y] = IF f = e /\ y = x THEN u ELSE tx[f][y]
    BY <2>1, CommitTypes
  <2>3. PICK u \in Tx :
            /\ u.holder = tx[e][x].holder /\ u.expiry = tx[e][x].expiry
            /\ u.status = "committed"
            /\ \A f \in Exchanges, y \in Txs :
                   tx'[f][y] = IF f = e /\ y = x THEN u ELSE tx[f][y]
    BY <2>2
  <2>4. tx[e][x].holder = plan[x].holder /\ tx[e][x].expiry = plan[x].expiry
    BY <2>2 DEF TradeInv, LogsOfTrades, NoTx, Leg
  <2>5. Moves(e, x, u)
    <3>1. CASE CallCommitLocal(d) /\ e = Home[LocalPool(d)]
      <4>1. Local(x) = Leg(e, x)
        BY <1>4, <3>1 DEF Local
      <4>2. Remote(x) # "unknown"
        BY <1>1, <3>1 DEF TradeInv, DevicesKnow, DeviceKnows, CallCommitLocal
      <4>3. QED
        BY <1>4, <2>2, <2>3, <3>1, <4>1, <4>2 DEF Moves
    <3>2. CASE CallCommitRemote(d) /\ e = Home[RemotePool(d)]
      <4>1. Remote(x) = Leg(e, x)
        BY <1>4, <3>2 DEF Remote
      <4>2. Local(x) = "committed"
        BY <1>1, <3>2 DEF TradeInv, DevicesKnow, DeviceKnows, CallCommitRemote
      <4>3. QED
        BY <1>4, <2>2, <2>3, <3>2, <4>1, <4>2 DEF Moves
    <3>3. QED
      BY <1>2, <3>1, <3>2
  <2>6. step \in Steps
    BY DEF Steps
  <2>7. u.holder = plan[x].holder /\ u.expiry = plan[x].expiry
    BY <2>3, <2>4
  <2>8. QED
    BY <1>1, <1>4, <1>5, <2>1, <2>3, <2>5, <2>6, <2>7, CallInv
<1>7. CASE ~CanCommit(id, e, x)
  <2>1. UNCHANGED tx /\ GoTo(d, "readLocal") /\ "readLocal" \in Steps
    BY <1>1, <1>2, <1>3, <1>7 DEF CallCommitLocal, CallCommitRemote, Refused, ledger, Steps
  <2>2. QED
    BY <1>4, <1>5, <2>1, RefusedInv
<1>8. QED
  BY <1>6, <1>7

LEMMA AbortInv ==
    ASSUME TypeOK, TradeInv, NEW d \in Devices, CallAbortLocal(d) \/ CallAbortRemote(d)
    PROVE  TradeInv'
<1>1. PICK x \in Txs : dev[d].x = x
  BY DEF TypeOK
<1>2. PICK p \in Pools :
          \/ CallAbortLocal(d) /\ p = LocalPool(d)
          \/ CallAbortRemote(d) /\ p = RemotePool(d)
  BY AtWork DEF CallAbortLocal, CallAbortRemote
<1>3. PICK id \in Ids : id = Holder(d)
  BY AtWork DEF CallAbortLocal, CallAbortRemote
<1>4. /\ plan[x] # NoTrade /\ dev[d].at # "idle"
      /\ LocalPool(d) = plan[x].local /\ RemotePool(d) = plan[x].remote
  BY <1>1, AtWork DEF CallAbortLocal, CallAbortRemote, LocalPool, RemotePool
<1>5. UNCHANGED <<block, plan>> /\ GoTo(d, "idle") /\ "idle" \in Steps
  BY DEF CallAbortLocal, CallAbortRemote, CallAbort, Steps
<1>6. CASE MayAbort(id, Home[p], x)
  <2>1. Abort(id, p, x)
    BY <1>1, <1>2, <1>3, <1>6 DEF CallAbortLocal, CallAbortRemote, CallAbort
  <2>2. PICK e \in Exchanges : e = Home[p]
    BY ExchangeAssumption
  <2>3. /\ tx[e][x] \in Tx
        /\ \E u \in Tx :
               /\ u.holder = tx[e][x].holder /\ u.expiry = tx[e][x].expiry
               /\ u.status = "aborted"
               /\ \A f \in Exchanges, y \in Txs :
                      tx'[f][y] = IF f = e /\ y = x THEN u ELSE tx[f][y]
    <3>1. /\ tx[Home[p]][x] \in Tx
          /\ \E u \in Tx :
                 /\ u.holder = tx[Home[p]][x].holder /\ u.expiry = tx[Home[p]][x].expiry
                 /\ u.status = "aborted"
                 /\ \A f \in Exchanges, y \in Txs :
                        tx'[f][y] = IF f = Home[p] /\ y = x THEN u ELSE tx[f][y]
      BY <2>1, AbortTypes
    <3>2. QED
      BY <3>1, <2>2, Zenon
  <2>4. PICK u \in Tx :
            /\ u.holder = tx[e][x].holder /\ u.expiry = tx[e][x].expiry
            /\ u.status = "aborted"
            /\ \A f \in Exchanges, y \in Txs :
                   tx'[f][y] = IF f = e /\ y = x THEN u ELSE tx[f][y]
    BY <2>3
  <2>5. Leg(e, x) = "prepared"
    BY <1>6, <2>2 DEF MayAbort
  <2>6. tx[e][x].holder = plan[x].holder /\ tx[e][x].expiry = plan[x].expiry
    BY <2>5 DEF TradeInv, LogsOfTrades, NoTx, Leg
  <2>7. Moves(e, x, u)
    <3>1. CASE CallAbortLocal(d) /\ p = LocalPool(d)
      BY <1>4, <2>2, <2>4, <2>5, <3>1 DEF Moves, Local
    <3>2. CASE CallAbortRemote(d) /\ p = RemotePool(d)
      <4>1. Local(x) = "aborted"
        BY <1>1, <3>2 DEF TradeInv, DevicesKnow, DeviceKnows, CallAbortRemote
      <4>2. QED
        BY <1>4, <2>2, <2>4, <2>5, <3>2, <4>1 DEF Moves, Remote
    <3>3. QED
      BY <1>2, <3>1, <3>2
  <2>8. u.holder = plan[x].holder /\ u.expiry = plan[x].expiry
    BY <2>4, <2>6
  <2>9. QED
    BY <1>1, <1>4, <1>5, <2>4, <2>7, <2>8, CallInv
<1>7. CASE ~MayAbort(id, Home[p], x)
  <2>1. UNCHANGED tx
    BY <1>1, <1>2, <1>3, <1>7 DEF CallAbortLocal, CallAbortRemote, CallAbort, Refused, ledger
  <2>2. QED
    BY <1>4, <1>5, <2>1, RefusedInv
<1>8. QED
  BY <1>6, <1>7

\* What the device read of the local leg before may be old when it reads the remote one:
\* it is still true of a leg that had settled, and a leg it saw prepared is not unknown.
LEMMA ReadInv ==
    ASSUME TypeOK, TradeInv, NEW d \in Devices,
           ReadLocal(d) \/ ReadRemote(d) \/ Crash(d) \/ \E y \in Txs : Recover(d, y)
    PROVE  TradeInv'
<1>1. UNCHANGED <<tx, plan, block>>
  BY DEF ReadLocal, ReadRemote, Crash, Recover
<1>2. CASE Crash(d)
  <2>1. Steps1(d, "idle", dev[d].x, dev[d].local)
    <3>1. "idle" \in Steps /\ GoTo(d, "idle")
      BY <1>2 DEF Crash, Steps
    <3>2. QED
      BY <3>1, DevGoes
  <2>2. DeviceKnows(dev'[d])
    BY <2>1 DEF DeviceKnows, Steps1
  <2>3. QED
    BY <1>1, <2>1, <2>2, ThinkInv
<1>3. ASSUME NEW y \in Txs, Recover(d, y) PROVE TradeInv'
  <2>1. Steps1(d, "readLocal", y, dev[d].local) /\ plan[y] # NoTrade
    <3>1. "readLocal" \in Steps /\ dev' = [dev EXCEPT ![d].at = "readLocal", ![d].x = y]
      BY <1>3 DEF Recover, Steps
    <3>2. QED
      BY <1>3, <3>1, DevBegins DEF Recover
  <2>2. DeviceKnows(dev'[d])
    BY <2>1 DEF DeviceKnows, Steps1
  <2>3. QED
    BY <1>1, <2>1, <2>2, ThinkInv
<1>4. CASE ReadLocal(d)
  <2>1. PICK r \in Status :
            /\ r = Local(dev[d].x) \/ r = "unknown"
            /\ dev' = [dev EXCEPT ![d].at = "readRemote", ![d].local = r]
    BY <1>4 DEF ReadLocal, Reads
  <2>2. Steps1(d, "readRemote", dev[d].x, r)
    <3>1. "readRemote" \in Steps
      BY DEF Steps
    <3>2. QED
      BY <2>1, <3>1, DevReads
  <2>3. plan[dev[d].x] # NoTrade
    BY <1>4, AtWork DEF ReadLocal
  <2>4. DeviceKnows(dev'[d])
    BY <2>1, <2>2, <2>3 DEF DeviceKnows, Steps1
  <2>5. QED
    BY <1>1, <2>2, <2>4, ThinkInv
<1>5. CASE ReadRemote(d)
  <2>1. PICK r \in Status :
            /\ r = Remote(dev[d].x) \/ r = "unknown"
            /\ dev' = [dev EXCEPT ![d].at = Resume(DecideRecovery(dev[d].local, r)),
                                  ![d].local = "unknown"]
    BY <1>5 DEF ReadRemote, Reads
  <2> DEFINE step == Resume(DecideRecovery(dev[d].local, r))
  <2>2. dev[d].local \in Status
    BY DEF TypeOK
  <2>3. /\ step \in {"idle", "commit", "commitLocal", "commitRemote", "abortLocal", "abortRemote"}
        /\ step \in {"commit", "commitLocal"} => dev[d].local = "prepared" /\ r # "unknown"
        /\ step = "commitRemote" => dev[d].local = "committed"
        /\ step = "abortRemote" => dev[d].local = "aborted"
    <3> DEFINE act == DecideRecovery(dev[d].local, r)
    <3>1. /\ act \in {"commit-both", "commit-local", "commit-remote", "abort-local",
                      "abort-remote", "noop", "inconsistent"}
          /\ act \in {"commit-both", "commit-local"} => dev[d].local = "prepared" /\ r # "unknown"
          /\ act = "commit-remote" => dev[d].local = "committed"
          /\ act = "abort-remote" => dev[d].local = "aborted"
      BY <2>2 DEF DecideRecovery, Status
    <3> HIDE DEF act
    <3>2. /\ Resume(act) \in {"idle", "commit", "commitLocal", "commitRemote", "abortLocal",
                              "abortRemote"}
          /\ Resume(act) \in {"commit", "commitLocal"} => act \in {"commit-both", "commit-local"}
          /\ Resume(act) = "commitRemote" => act = "commit-remote"
          /\ Resume(act) = "abortRemote" => act = "abort-remote"
      BY <3>1 DEF Resume
    <3>3. QED
      BY <3>1, <3>2 DEF act
  <2> HIDE DEF step
  <2>4. PICK s \in Steps : s = step
    BY <2>3 DEF Steps
  <2>5. Steps1(d, s, dev[d].x, "unknown")
    <3>1. "unknown" \in Status /\ dev' = [dev EXCEPT ![d].at = s, ![d].local = "unknown"]
      BY <2>1, <2>4 DEF Status, step
    <3>2. QED
      BY <3>1, DevReads
  <2>6. /\ plan[dev[d].x] # NoTrade
        /\ dev[d].local \in {"committed", "aborted"} => Local(dev[d].x) = dev[d].local
        /\ dev[d].local = "prepared" => Local(dev[d].x) # "unknown"
    BY <1>5 DEF TradeInv, DevicesKnow, DeviceKnows, ReadRemote
  <2>7. DeviceKnows(dev'[d])
    BY <2>1, <2>3, <2>4, <2>5, <2>6 DEF DeviceKnows, Steps1
  <2>8. QED
    BY <1>1, <2>5, <2>7, ThinkInv
<1>6. QED
  BY <1>2, <1>3, <1>4, <1>5

LEMMA BeginInv ==
    ASSUME TypeOK, TradeInv, NEW d \in Devices, NEW x \in Txs, NEW t \in Trade, Begin(d, x, t)
    PROVE  TradeInv'
<1>1. /\ plan[x] = NoTrade /\ Home[t.local] # Home[t.remote]
      /\ UNCHANGED <<tx, block>>
      /\ plan' = [plan EXCEPT ![x] = t]
  BY DEF Begin
<1>2. \A e \in Exchanges : tx[e][x] = NoTx
  BY <1>1 DEF TradeInv, LogsOfTrades
<1>3. plan'[x] = t /\ t # NoTrade /\ \A y \in Txs \ {x} : plan'[y] = plan[y]
  BY <1>1, ExchangeAssumption DEF TypeOK, Trade, NoTrade
<1>4. Home[t.local] \in Exchanges /\ Home[t.remote] \in Exchanges
  BY ExchangeAssumption DEF Trade
<1>5. \A y \in Txs : Local(y)' = Local(y) /\ Remote(y)' = Remote(y)
  BY <1>1, <1>2, <1>3, <1>4 DEF Local, Remote, Leg, NoTx
<1>6. LogsOfTrades'
  BY <1>1, <1>2, <1>3 DEF TradeInv, LogsOfTrades
<1>7. \A y \in Txs : Remote(y) = "aborted" => Expired(y)' = Expired(y)
  BY <1>1, <1>3 DEF Expired, Remote
<1>8. LegsInOrder'
  BY <1>5, <1>7 DEF TradeInv, LegsInOrder
<1>9. Grows
  BY <1>3, <1>5 DEF Grows
<1>10. Steps1(d, "prepare", x, dev[d].local)
  <2>1. "prepare" \in Steps /\ dev' = [dev EXCEPT ![d].at = "prepare", ![d].x = x]
    BY DEF Begin, Steps
  <2>2. QED
    BY <2>1, DevBegins
<1>11. DeviceKnows(dev[d])'
  BY <1>3, <1>10 DEF DeviceKnows, Steps1
<1>12. DevicesKnow'
  BY <1>9, <1>10, <1>11, OthersKnow
<1>13. QED
  BY <1>6, <1>8, <1>12 DEF TradeInv

LEMMA TradeNext == TypeOK /\ TradeInv /\ [Next]_vars => TradeInv'
<1> SUFFICES ASSUME TypeOK, TradeInv, [Next]_vars PROVE TradeInv'
  OBVIOUS
<1>1. CASE UNCHANGED vars
  <2>1. UNCHANGED <<tx, plan, dev, block>>
    BY <1>1 DEF vars
  <2>2. QED
    BY <2>1, BlockTypes, QuietInv
<1>2. CASE PoolCall
  BY <1>2, PoolCallInv
<1>3. ASSUME NEW d \in Devices, DeviceCall(d) PROVE TradeInv'
  <2>1. ASSUME NEW x \in Txs,
               NEW t \in [holder: Ids, local: Pools, remote: Pools, from: Sides,
                          into: Sides, amount: Amounts, expiry: Expiries],
               Begin(d, x, t)
        PROVE  TradeInv'
    <3>1. t \in Trade
      BY ExchangeAssumption DEF Trade
    <3>2. QED
      BY <2>1, <3>1, BeginInv
  <2>2. QED
    BY <1>3, <2>1, PrepareInv, ReceiveInv, CommitInv, AbortInv, ReadInv
       DEF DeviceCall, DeviceStep
<1>4. ASSUME NEW e \in Exchanges, NextBlock(e) PROVE TradeInv'
  <2>1. /\ UNCHANGED <<tx, plan, dev>>
        /\ \A f \in Exchanges : block[f] \in Nat /\ block'[f] \in Nat /\ block'[f] >= block[f]
    BY <1>4, BlockTypes DEF NextBlock, TypeOK
  <2>2. QED
    BY <2>1, QuietInv
<1>5. QED
  BY <1>1, <1>2, <1>3, <1>4 DEF Next

-----------------------------------------------------------------------------
\* rholang-exchange.js:43-50: pools, balances, the log of the two-phase commit, the trades and
\* the devices keep their types, and no open pool has a rate that is not positive.
THEOREM ExchangeTypes == Spec => []TypeOK
<1>1. TypeOK /\ TradeInv /\ [Next]_vars => (TypeOK /\ TradeInv)'
  BY TypeNext, TradeNext
<1>2. QED
  BY <1>1, TypeInit, InitInv, PTL DEF Spec

\* exchange-2pc.ts:9-20: for any number of exchanges, pools, trades and devices that drive and
\* recover them at once, the remote leg is committed only after the local one, and a trade is
\* split only after its remote leg expired.
THEOREM TradesAgree == Spec => []LegsAgree
<1>1. TypeOK /\ TradeInv /\ [Next]_vars => (TypeOK /\ TradeInv)'
  BY TypeNext, TradeNext
<1>2. TypeOK /\ TradeInv => LegsAgree
  <2> SUFFICES ASSUME TypeOK, TradeInv, NEW x \in Txs
               PROVE  /\ Remote(x) = "committed" => Local(x) = "committed"
                      /\ Local(x) = "committed" /\ Remote(x) \notin {"prepared", "committed"} =>
                             Remote(x) = "aborted" /\ Expired(x)
    BY DEF LegsAgree, Expired
  <2>1. Remote(x) \in Status
    BY LegStatus
  <2>2. QED
    BY <2>1 DEF TradeInv, LegsInOrder, Status
<1>3. QED
  BY <1>1, <1>2, TypeInit, InitInv, PTL DEF Spec

-----------------------------------------------------------------------------
(* What a step takes from reserves and balances *)

\* No step makes an amount negative, or more negative, where Covered holds.
ReservesCovered ==
    \A q \in Pools, s \in Sides :
        pool'[q].reserve[s] >= 0 \/ pool'[q].reserve[s] >= pool[q].reserve[s]
BalancesCovered ==
    \A q \in Pools, i \in Ids, s \in Sides :
        bal'[q][i][s] >= 0 \/ bal'[q][i][s] >= bal[q][i][s]
Covered == ReservesCovered /\ BalancesCovered

LEMMA OutIsNotNegative ==
    ASSUME TypeOK, NEW p \in Pools, NEW side \in Sides, NEW amount \in Int, IsOpen(p),
           amount >= 0
    PROVE  Out(p, side, amount) >= 0
<1>1. RateScale \in Nat /\ RateScale > 0
  BY ExchangeAssumption
<1>2. pool[p].rate \in Int /\ pool[p].rate > 0
  BY DEF TypeOK, Pool, IsOpen
<1>3. \A a, b \in Int : a >= 0 /\ b > 0 => a * b >= 0 /\ a * b \in Int
  OBVIOUS
<1>4. \A a, b \in Int : a >= 0 /\ b > 0 => a \div b >= 0
  OBVIOUS
<1>5. /\ amount * pool[p].rate \in Int /\ amount * pool[p].rate >= 0
      /\ amount * RateScale \in Int /\ amount * RateScale >= 0
  BY <1>1, <1>2, <1>3
<1>6. (amount * pool[p].rate) \div RateScale >= 0
  BY <1>1, <1>4, <1>5
<1>7. (amount * RateScale) \div pool[p].rate >= 0
  BY <1>2, <1>4, <1>5
<1>8. QED
  BY <1>6, <1>7 DEF Out

\* f is r, and c is b, but for the one amount that by was added to.
IsFilled(f, r, p, side, by) ==
    \A q \in Pools, s \in Sides :
        f[q][s] = IF q = p /\ s = side THEN r[q][s] + by ELSE r[q][s]
IsCredited(c, b, p, id, side, by) ==
    \A q \in Pools, i \in Ids, s \in Sides :
        c[q][i][s] = IF q = p /\ i = id /\ s = side THEN b[q][i][s] + by ELSE b[q][i][s]

LEMMA FilledReads ==
    ASSUME NEW r \in [Pools -> [Sides -> Int]], NEW p \in Pools, NEW side \in Sides,
           NEW by \in Int
    PROVE  IsFilled(Filled(r, p, side, by), r, p, side, by)
BY DEF Filled, IsFilled

LEMMA CreditedReads ==
    ASSUME NEW b \in [Pools -> [Ids -> [Sides -> Int]]], NEW p \in Pools, NEW id \in Ids,
           NEW side \in Sides, NEW by \in Int
    PROVE  IsCredited(Credited(b, p, id, side, by), b, p, id, side, by)
BY DEF Credited, IsCredited

LEMMA OtherSideDiffers == \A side \in Sides : Other(side) \in Sides /\ Other(side) # side
BY DEF Sides, Other

\* A reserve that is set, and where the others stay.
LEMMA ReserveReads ==
    ASSUME TypeOK, NEW p \in Pools, NEW r \in [Pools -> [Sides -> Int]], SetReserve(p, r),
           \A q \in Pools \ {p}, s \in Sides : r[q][s] = pool[q].reserve[s]
    PROVE  \A q \in Pools, s \in Sides : pool'[q].reserve[s] = r[q][s]
<1> DEFINE v == [pool[p] EXCEPT !.reserve = r[p]]
<1>1. v.reserve = r[p]
  BY DEF TypeOK, Pool
<1>2. pool \in [Pools -> Pool] /\ pool' = [pool EXCEPT ![p] = v]
  BY DEF TypeOK, SetReserve
<1> HIDE DEF v
<1>3. QED
  BY <1>1, <1>2

LEMMA ReservesReads ==
    \A q \in Pools : Reserves[q] = pool[q].reserve
BY DEF Reserves

\* What a pool takes in overdraws nothing.
LEMMA FillCovers ==
    ASSUME TypeOK, NEW p \in Pools, NEW side \in Sides, NEW amount \in Int, amount >= 0,
           SetReserve(p, Filled(Reserves, p, side, amount))
    PROVE  ReservesCovered
<1> DEFINE r == Filled(Reserves, p, side, amount)
<1>1. Reserves \in [Pools -> [Sides -> Int]]
  BY ReservesType
<1>2. r \in [Pools -> [Sides -> Int]]
  BY <1>1, FilledTypes
<1>3. IsFilled(r, Reserves, p, side, amount)
  BY <1>1, FilledReads
<1>4. SetReserve(p, r)
  OBVIOUS
<1> HIDE DEF r
<1>5. \A q \in Pools \ {p}, s \in Sides : r[q][s] = pool[q].reserve[s]
  BY <1>3, ReservesReads DEF IsFilled
<1>6. \A q \in Pools, s \in Sides : pool'[q].reserve[s] = r[q][s]
  BY <1>2, <1>4, <1>5, ReserveReads
<1>7. \A q \in Pools, s \in Sides : pool[q].reserve[s] \in Int
  BY DEF TypeOK, Pool
<1>8. QED
  BY <1>3, <1>6, <1>7, ReservesReads DEF ReservesCovered, IsFilled

\* What is credited, or taken from a balance that holds it, overdraws nothing.
LEMMA CreditCovers ==
    ASSUME TypeOK, NEW p \in Pools, NEW id \in Ids, NEW side \in Sides, NEW by \in Int,
           by >= 0 \/ bal[p][id][side] + by >= 0,
           bal' = Credited(bal, p, id, side, by)
    PROVE  BalancesCovered
<1>1. bal \in [Pools -> [Ids -> [Sides -> Int]]]
  BY DEF TypeOK
<1>2. IsCredited(bal', bal, p, id, side, by)
  BY <1>1, CreditedReads
<1>3. \A q \in Pools, i \in Ids, s \in Sides : bal[q][i][s] \in Int
  BY <1>1
<1>4. QED
  BY <1>2, <1>3 DEF BalancesCovered, IsCredited

\* A swap or a leg, of an amount its payer holds for an amount the reserve holds.
LEMMA ShiftCovers ==
    ASSUME TypeOK, NEW p \in Pools, NEW id \in Ids, NEW side \in Sides,
           NEW amount \in Int, NEW out \in Int, Shift(p, id, side, amount, out),
           amount >= 0, out >= 0,
           amount = 0 \/ bal[p][id][side] >= amount,
           pool[p].reserve[Other(side)] >= out
    PROVE  Covered
<1> DEFINE other == Other(side)
           lose == -out
           pay == -amount
           r1 == Filled(Reserves, p, side, amount)
           r2 == Filled(r1, p, other, lose)
           b1 == Credited(bal, p, id, side, pay)
           b2 == Credited(b1, p, id, other, out)
<1>0. other \in Sides /\ other # side /\ lose \in Int /\ pay \in Int
      /\ lose = -out /\ pay = -amount
  BY OtherSideDiffers
<1>1. SetReserve(p, r2) /\ bal' = b2
  BY DEF Shift, Paid, Received
<1>2. pool[p].reserve[other] >= out
  OBVIOUS
<1> HIDE DEF other, lose, pay
<1>3. Reserves \in [Pools -> [Sides -> Int]] /\ bal \in [Pools -> [Ids -> [Sides -> Int]]]
  BY ReservesType DEF TypeOK
<1>4. r1 \in [Pools -> [Sides -> Int]] /\ IsFilled(r1, Reserves, p, side, amount)
  BY <1>3, FilledTypes, FilledReads
<1> HIDE DEF r1
<1>5. r2 \in [Pools -> [Sides -> Int]] /\ IsFilled(r2, r1, p, other, lose)
  BY <1>0, <1>4, FilledTypes, FilledReads
<1> HIDE DEF r2
<1>6. b1 \in [Pools -> [Ids -> [Sides -> Int]]] /\ IsCredited(b1, bal, p, id, side, pay)
  BY <1>0, <1>3, CreditedTypes, CreditedReads
<1> HIDE DEF b1
<1>7. IsCredited(b2, b1, p, id, other, out)
  BY <1>0, <1>6, CreditedReads
<1> HIDE DEF b2
<1>8. ReservesCovered
  <2>1. \A q \in Pools \ {p}, s \in Sides : r2[q][s] = pool[q].reserve[s]
    BY <1>4, <1>5, ReservesReads DEF IsFilled
  <2>2. \A q \in Pools, s \in Sides : pool'[q].reserve[s] = r2[q][s]
    BY <1>1, <1>5, <2>1, ReserveReads
  <2>3. \A q \in Pools, s \in Sides : pool[q].reserve[s] \in Int
    BY DEF TypeOK, Pool
  <2>4. QED
    BY <1>0, <1>2, <1>4, <1>5, <2>2, <2>3, ReservesReads DEF ReservesCovered, IsFilled
<1>9. BalancesCovered
  <2>1. \A q \in Pools, i \in Ids, s \in Sides : bal[q][i][s] \in Int
    BY <1>3
  <2>2. QED
    BY <1>0, <1>1, <1>6, <1>7, <2>1 DEF BalancesCovered, IsCredited
<1>10. QED
  BY <1>8, <1>9 DEF Covered

\* Steps that move no token.
LEMMA StillCovers ==
    ASSUME TypeOK, bal' = bal, \A q \in Pools : pool'[q].reserve = pool[q].reserve
    PROVE  Covered
<1>1. \A q \in Pools, s \in Sides : pool[q].reserve[s] \in Int
  BY DEF TypeOK, Pool
<1>2. \A q \in Pools, i \in Ids, s \in Sides : bal[q][i][s] \in Int
  BY DEF TypeOK
<1>3. QED
  BY <1>1, <1>2 DEF Covered, ReservesCovered, BalancesCovered

\* An abort moves a prepared leg back, in the pool it is called for and in no other.
CoveredAt(p) ==
    \A s \in Sides :
        /\ pool'[p].reserve[s] >= 0 \/ pool'[p].reserve[s] >= pool[p].reserve[s]
        /\ \A id \in Ids : bal'[p][id][s] >= 0 \/ bal'[p][id][s] >= bal[p][id][s]
UndoneAt(p) ==
    \E x \in Txs : Leg(Home[p], x) = "prepared" /\ Leg(Home[p], x)' = "aborted"
OverdrawnByAbort == \A p \in Pools : CoveredAt(p) \/ UndoneAt(p)

LEMMA CoveredIsEnough == Covered => OverdrawnByAbort
BY DEF Covered, ReservesCovered, BalancesCovered, OverdrawnByAbort, CoveredAt

LEMMA AbortOverdraws ==
    ASSUME TypeOK, NEW id, NEW p \in Pools, NEW x \in Txs, Abort(id, p, x)
    PROVE  OverdrawnByAbort
<1> DEFINE e == Home[p]
           t == tx[e][x]
           amount == IF t.receive THEN 0 ELSE -t.amount
           out == -t.out
<1>1. e \in Exchanges
  BY ExchangeAssumption
<1>2. Shift(p, t.holder, t.from, amount, out)
  BY DEF Abort, Reverse
<1>3. UndoneAt(p)
  <2>1. Leg(e, x) = "prepared"
    BY DEF Abort, MayAbort
  <2>2. tx' = [tx EXCEPT ![e][x] = [t EXCEPT !.status = "aborted"]]
    BY DEF Abort, Reverse, Record
  <2>3. tx \in [Exchanges -> [Txs -> Tx \cup {NoTx}]] /\ t \in Tx
    BY <1>1, <2>1 DEF TypeOK, Leg, NoTx
  <2>4. tx'[e][x] = [t EXCEPT !.status = "aborted"]
    BY <1>1, <2>2, <2>3
  <2>5. Leg(e, x)' = "aborted"
    BY <2>3, <2>4 DEF Leg, Tx
  <2>6. QED
    BY <2>1, <2>5 DEF UndoneAt
<1>4. ASSUME NEW q \in Pools \ {p} PROVE CoveredAt(q)
  <2>1. pool'[q] = pool[q]
    BY <1>2 DEF Shift, SetReserve, TypeOK
  <2>2. bal'[q] = bal[q]
    BY <1>2 DEF Shift, Received, Credited, TypeOK
  <2>3. \A s \in Sides : pool[q].reserve[s] \in Int
    BY DEF TypeOK, Pool
  <2>4. \A i \in Ids, s \in Sides : bal[q][i][s] \in Int
    BY DEF TypeOK
  <2>5. QED
    BY <2>1, <2>2, <2>3, <2>4 DEF CoveredAt
<1>5. QED
  BY <1>3, <1>4 DEF OverdrawnByAbort

LEMMA PoolCallOverdraws ==
    ASSUME TypeOK, PoolCall
    PROVE  OverdrawnByAbort
<1>0. Rates \subseteq Int /\ Amounts \subseteq Int
  BY ExchangeAssumption
<1>1. ASSUME NEW id \in Ids, NEW p \in Pools, NEW rate \in Rates,
             Open(id, p, rate) \/ SetRate(id, p, rate)
      PROVE  Covered
  <2>1. \A v \in Pool : /\ [v EXCEPT !.rate = rate].reserve = v.reserve
                        /\ [v EXCEPT !.owner = id, !.rate = rate].reserve = v.reserve
    BY DEF Pool
  <2>2. \/ pool' = [pool EXCEPT ![p] = [pool[p] EXCEPT !.rate = rate]]
        \/ pool' = [pool EXCEPT ![p] = [pool[p] EXCEPT !.owner = id, !.rate = rate]]
    BY <1>1 DEF Open, SetRate, TypeOK
  <2>3. \A q \in Pools : pool'[q].reserve = pool[q].reserve
    <3>1. pool \in [Pools -> Pool]
      BY DEF TypeOK
    <3>2. QED
      BY <2>1, <2>2, <3>1
  <2>4. bal' = bal
    BY <1>1 DEF Open, SetRate
  <2>5. QED
    BY <2>3, <2>4, StillCovers
<1>2. ASSUME NEW id \in Ids, NEW p \in Pools, NEW side \in Sides, NEW amount \in Amounts,
             Provide(id, p, side, amount)
      PROVE  Covered
  <2>1. ReservesCovered
    BY <1>0, <1>2, FillCovers DEF Provide
  <2>2. BalancesCovered
    BY <1>2 DEF Provide, TypeOK, BalancesCovered
  <2>3. QED
    BY <2>1, <2>2 DEF Covered
<1>3. ASSUME NEW id \in Ids, NEW p \in Pools, NEW side \in Sides, NEW amount \in Amounts,
             Deposit(id, p, side, amount) \/ Withdraw(id, p, side, amount)
      PROVE  Covered
  <2>1. BalancesCovered
    <3>1. amount \in Int /\ -amount \in Int /\ bal[p][id][side] \in Int
      BY <1>0 DEF TypeOK
    <3>2. CASE Deposit(id, p, side, amount)
      BY <3>1, <3>2, CreditCovers DEF Deposit
    <3>3. CASE Withdraw(id, p, side, amount)
      <4>1. bal[p][id][side] + (-amount) >= 0
        BY <3>1, <3>3 DEF Withdraw
      <4>2. bal' = Credited(bal, p, id, side, -amount)
        BY <3>3 DEF Withdraw
      <4>3. QED
        BY <3>1, <4>1, <4>2, CreditCovers
    <3>4. QED
      BY <1>3, <3>2, <3>3
  <2>2. ReservesCovered
    BY <1>3 DEF Deposit, Withdraw, TypeOK, Pool, ReservesCovered
  <2>3. QED
    BY <2>1, <2>2 DEF Covered
<1>4. ASSUME NEW id \in Ids, NEW p \in Pools, NEW side \in Sides, NEW amount \in Amounts,
             Swap(id, p, side, amount)
      PROVE  Covered
  <2>1. /\ IsOpen(p) /\ amount \in Int /\ amount >= 0
        /\ bal[p][id][side] >= amount
        /\ pool[p].reserve[Other(side)] >= Out(p, side, amount)
        /\ Shift(p, id, side, amount, Out(p, side, amount))
    BY <1>0, <1>4 DEF Swap, CanSwap
  <2>2. Out(p, side, amount) \in Int /\ Out(p, side, amount) >= 0
    BY <2>1, OutTypes, OutIsNotNegative
  <2>3. QED
    BY <2>1, <2>2, ShiftCovers
<1>5. ASSUME NEW id \in Ids, NEW p \in Pools, NEW name \in Pools, Link(id, p, name)
      PROVE  Covered
  <2>1. bal' = bal /\ \A q \in Pools : pool'[q].reserve = pool[q].reserve
    BY <1>5 DEF Link, TypeOK, Pool
  <2>2. QED
    BY <2>1, StillCovers
<1>6. ASSUME NEW id \in Ids, NEW p \in Pools, NEW x \in Txs, AbortExpired(id, p, x)
      PROVE  OverdrawnByAbort
  BY <1>6, AbortOverdraws DEF AbortExpired
<1>7. QED
  BY <1>1, <1>2, <1>3, <1>4, <1>5, <1>6, CoveredIsEnough DEF PoolCall

LEMMA CallOverdraws ==
    ASSUME TypeOK, TradeInv, NEW d \in Devices,
           \/ CallPrepare(d) \/ CallReceive(d) \/ CallCommitLocal(d) \/ CallCommitRemote(d)
           \/ CallAbortLocal(d) \/ CallAbortRemote(d)
    PROVE  OverdrawnByAbort
<1>1. CASE UNCHANGED <<pool, bal>>
  BY <1>1, StillCovers, CoveredIsEnough
<1>2. CASE CallPrepare(d) /\ ~UNCHANGED <<pool, bal>>
  <2> DEFINE t == plan[dev[d].x]
             out == Out(t.local, t.from, t.amount)
  <2>1. t \in Trade
    BY <1>2, AtWork DEF CallPrepare
  <2>2. Prepare(t.holder, t.local, dev[d].x, t.from, t.amount, t.expiry)
    BY <1>2 DEF CallPrepare, Refused, ledger
  <2>3. t.holder \in Ids /\ t.local \in Pools /\ t.from \in Sides /\ t.amount \in Int
    BY <2>1 DEF Trade
  <2> HIDE DEF t
  <2>4. /\ IsOpen(t.local) /\ t.amount >= 0
        /\ bal[t.local][t.holder][t.from] >= t.amount
        /\ pool[t.local].reserve[Other(t.from)] >= out
        /\ Shift(t.local, t.holder, t.from, t.amount, out)
    BY <2>2 DEF Prepare, CanPrepare, CanSwap
  <2>5. out \in Int /\ out >= 0
    BY <2>3, <2>4, OutTypes, OutIsNotNegative
  <2> HIDE DEF out
  <2>6. QED
    BY <2>3, <2>4, <2>5, ShiftCovers, CoveredIsEnough
<1>3. CASE CallReceive(d) /\ ~UNCHANGED <<pool, bal>>
  <2> DEFINE t == plan[dev[d].x]
             paid == tx[Home[t.local]][dev[d].x].out
             out == Out(t.remote, t.into, paid)
  <2>1. t \in Trade /\ dev[d].x \in Txs /\ t # NoTrade
    BY <1>3, AtWork DEF CallReceive
  <2>2. PrepareReceive(t.holder, t.remote, dev[d].x, t.into, paid, t.expiry, t.local)
    BY <1>3 DEF CallReceive, Refused, ledger
  <2>3. t.holder \in Ids /\ t.local \in Pools /\ t.remote \in Pools /\ t.into \in Sides
    BY <2>1 DEF Trade
  <2>4. Home[t.local] \in Exchanges
    BY <2>3, ExchangeAssumption
  <2>5. Local(dev[d].x) # "unknown"
    BY <1>3 DEF TradeInv, DevicesKnow, DeviceKnows, CallReceive
  <2>6. tx[Home[t.local]][dev[d].x] # NoTx
    BY <2>1, <2>5 DEF Local, Leg, NoTx
  <2>7. paid \in Int
    BY <2>1, <2>4, <2>6 DEF TypeOK, Tx
  <2> HIDE DEF t, paid
  <2>8. /\ IsOpen(t.remote) /\ paid >= 0
        /\ pool[t.remote].reserve[Other(t.into)] >= out
        /\ Shift(t.remote, t.holder, t.into, 0, out)
    BY <2>2 DEF PrepareReceive, CanReceive
  <2>9. out \in Int /\ out >= 0
    BY <2>3, <2>7, <2>8, OutTypes, OutIsNotNegative
  <2> HIDE DEF out
  <2>10. QED
    BY <2>3, <2>8, <2>9, ShiftCovers, CoveredIsEnough
<1>4. CASE (CallCommitLocal(d) \/ CallCommitRemote(d)) /\ ~UNCHANGED <<pool, bal>>
  BY <1>4 DEF CallCommitLocal, CallCommitRemote, Commit, Refused, ledger
<1>5. CASE CallAbortLocal(d) /\ ~UNCHANGED <<pool, bal>>
  <2>1. Abort(Holder(d), LocalPool(d), dev[d].x)
    BY <1>5 DEF CallAbortLocal, CallAbort, Refused, ledger
  <2>2. dev[d].x \in Txs /\ LocalPool(d) \in Pools
    BY <1>5, AtWork DEF CallAbortLocal
  <2>3. QED
    BY <2>1, <2>2, AbortOverdraws
<1>6. CASE CallAbortRemote(d) /\ ~UNCHANGED <<pool, bal>>
  <2>1. Abort(Holder(d), RemotePool(d), dev[d].x)
    BY <1>6 DEF CallAbortRemote, CallAbort, Refused, ledger
  <2>2. dev[d].x \in Txs /\ RemotePool(d) \in Pools
    BY <1>6, AtWork DEF CallAbortRemote
  <2>3. QED
    BY <2>1, <2>2, AbortOverdraws
<1>7. QED
  BY <1>1, <1>2, <1>3, <1>4, <1>5, <1>6

LEMMA StepOverdraws == TypeOK /\ TradeInv /\ [Next]_vars => OverdrawnByAbort
<1> SUFFICES ASSUME TypeOK, TradeInv, [Next]_vars PROVE OverdrawnByAbort
  OBVIOUS
<1>1. CASE UNCHANGED vars
  BY <1>1, StillCovers, CoveredIsEnough DEF vars
<1>2. CASE PoolCall
  BY <1>2, PoolCallOverdraws
<1>3. ASSUME NEW d \in Devices, DeviceCall(d) PROVE OverdrawnByAbort
  <2>1. CASE \/ ReadLocal(d) \/ ReadRemote(d) \/ Crash(d)
             \/ \E x \in Txs : Recover(d, x)
             \/ \E x \in Txs, t \in [holder: Ids, local: Pools, remote: Pools, from: Sides,
                                     into: Sides, amount: Amounts, expiry: Expiries] :
                    Begin(d, x, t)
    <3>1. UNCHANGED <<pool, bal>>
      BY <2>1 DEF ReadLocal, ReadRemote, Crash, Recover, Begin
    <3>2. QED
      BY <3>1, StillCovers, CoveredIsEnough
  <2>2. QED
    BY <1>3, <2>1, CallOverdraws DEF DeviceCall, DeviceStep
<1>4. ASSUME NEW e \in Exchanges, NextBlock(e) PROVE OverdrawnByAbort
  BY <1>4, StillCovers, CoveredIsEnough DEF NextBlock
<1>5. QED
  BY <1>1, <1>2, <1>3, <1>4 DEF Next

\* rholang-exchange.js:6: for any number of pools, holders, trades and devices, and whatever the
\* rates, no call but the abort of a prepared leg takes from a reserve or a balance what is
\* not there.
THEOREM OnlyAbortsOverdraw == Spec => OnlyAbortOverdraws
<1>1. TypeOK /\ TradeInv /\ [Next]_vars => (TypeOK /\ TradeInv)'
  BY TypeNext, TradeNext
<1> DEFINE Step ==
        \A p \in Pools, side \in Sides :
            \/ /\ pool'[p].reserve[side] >= 0 \/ pool'[p].reserve[side] >= pool[p].reserve[side]
               /\ \A id \in Ids :
                      bal'[p][id][side] >= 0 \/ bal'[p][id][side] >= bal[p][id][side]
            \/ \E x \in Txs : Leg(Home[p], x) = "prepared" /\ Leg(Home[p], x)' = "aborted"
<1>2. TypeOK /\ TradeInv /\ [Next]_vars => [Step]_vars
  BY StepOverdraws DEF OverdrawnByAbort, CoveredAt, UndoneAt
<1>3. QED
  BY <1>1, <1>2, TypeInit, InitInv, PTL DEF Spec, OnlyAbortOverdraws

-----------------------------------------------------------------------------
(* Sums over finite sets *)

\* Induction over the subsets of a finite set, with a set G for what is shown of them.
LEMMA SubsetInduction ==
    ASSUME NEW D, IsFiniteSet(D), NEW G,
           \A S \in SUBSET D : (\A T \in SUBSET S : T # S => T \in G) => S \in G
    PROVE  SUBSET D \subseteq G
<1> DEFINE R == StrictSubsetOrdering(D)
           Bad == (SUBSET D) \ G
<1>1. SUFFICES ASSUME Bad # {} PROVE FALSE
  OBVIOUS
<1>2. IsWellFoundedOn(R, SUBSET D)
  BY FS_StrictSubsetOrderingWellFounded, FS_FiniteSubsetsOfFinite
<1>3. PICK S \in Bad : \A T \in Bad : ~(<<T, S>> \in R)
  <2> Bad \subseteq SUBSET D
    OBVIOUS
  <2> HIDE DEF R, Bad
  <2>1. QED
    BY <1>1, <1>2, WFMin
<1>4. \A T \in SUBSET S : T # S => T \in G
  BY <1>3 DEF StrictSubsetOrdering
<1>5. QED
  BY <1>3, <1>4

\* g adds f up over every set of its arguments, as the fold in Sum does.
Added(f, g, S) ==
    IF S = {} THEN 0 ELSE LET x == CHOOSE x \in S : TRUE IN f[x] + g[S \ {x}]
Adds(g, f) == g = [S \in SUBSET DOMAIN f |-> Added(f, g, S)]

LEMMA SumIsChosen == \A f : Sum(f) = (CHOOSE g : Adds(g, f))[DOMAIN f]
BY DEF Sum, FoldFunction, FoldFunctionOnSet, MapThenFoldSet, Adds, Added

LEMMA AddedTypes ==
    ASSUME NEW D, NEW f \in [D -> Int], NEW g \in [SUBSET D -> Int], NEW S \in SUBSET D
    PROVE  Added(f, g, S) \in Int
<1>1. CASE S = {}
  BY <1>1 DEF Added
<1>2. CASE S # {}
  <2> DEFINE x == CHOOSE x \in S : TRUE
  <2>1. x \in S
    BY <1>2
  <2> HIDE DEF x
  <2>2. f[x] \in Int /\ g[S \ {x}] \in Int
    BY <2>1
  <2>3. QED
    BY <1>2, <2>2 DEF Added, x
<1>3. QED
  BY <1>1, <1>2


\* Right for every set that is no larger than S.
RightUpTo(g, f, D, S) ==
    \A T \in SUBSET D : Cardinality(T) <= Cardinality(S) => g[T] = Added(f, g, T)

\* Adding up once more makes right what is larger by one.
LEMMA AddOnceMore ==
    ASSUME NEW D, IsFiniteSet(D), NEW f \in [D -> Int], NEW g \in [SUBSET D -> Int],
           NEW S \in SUBSET D, NEW x \in S, RightUpTo(g, f, D, S \ {x}),
           NEW h, h = [T \in SUBSET D |-> Added(f, g, T)]
    PROVE  h \in [SUBSET D -> Int] /\ RightUpTo(h, f, D, S)
<1>1. h \in [SUBSET D -> Int]
  BY AddedTypes
<1>2. ASSUME NEW T \in SUBSET D, Cardinality(T) <= Cardinality(S)
      PROVE  h[T] = Added(f, h, T)
  <2>1. CASE T = {}
    BY <2>1 DEF Added
  <2>2. CASE T # {}
    <3> DEFINE y == CHOOSE y \in T : TRUE
    <3>1. y \in T
      BY <2>2
    <3> HIDE DEF y
    <3>2. IsFiniteSet(T) /\ IsFiniteSet(S)
      BY FS_Subset
    <3>3. /\ Cardinality(T \ {y}) = Cardinality(T) - 1
          /\ Cardinality(S \ {x}) = Cardinality(S) - 1
      BY <3>1, <3>2, FS_RemoveElement
    <3>4. Cardinality(T) \in Nat /\ Cardinality(S) \in Nat
      BY <3>2, FS_CardinalityType
    <3>5. Cardinality(T \ {y}) <= Cardinality(S \ {x})
      BY <1>2, <3>3, <3>4
    <3>6. g[T \ {y}] = Added(f, g, T \ {y})
      BY <3>5 DEF RightUpTo
    <3>7. h[T \ {y}] = g[T \ {y}]
      BY <3>6
    <3>8. h[T] = f[y] + g[T \ {y}]
      BY <2>2 DEF Added, y
    <3>9. QED
      BY <2>2, <3>7, <3>8 DEF Added, y
  <2>3. QED
    BY <2>1, <2>2
<1>3. QED
  BY <1>1, <1>2 DEF RightUpTo

LEMMA AddsExists ==
    ASSUME NEW D, IsFiniteSet(D), NEW f \in [D -> Int]
    PROVE  \E g \in [SUBSET D -> Int] : Adds(g, f)
<1> DEFINE G == {S \in SUBSET D : \E g \in [SUBSET D -> Int] : RightUpTo(g, f, D, S)}
<1>1. ASSUME NEW S \in SUBSET D, \A T \in SUBSET S : T # S => T \in G
      PROVE  S \in G
  <2>1. CASE S = {}
    <3> DEFINE g == [T \in SUBSET D |-> 0]
    <3>1. \A T \in SUBSET D : Cardinality(T) <= Cardinality(S) => T = {}
      <4>1. ASSUME NEW T \in SUBSET D, Cardinality(T) <= Cardinality(S) PROVE T = {}
        <5>1. IsFiniteSet(T) /\ Cardinality(T) \in Nat
          BY FS_Subset, FS_CardinalityType
        <5>2. QED
          BY <2>1, <4>1, <5>1, FS_EmptySet
      <4>2. QED
        BY <4>1
    <3>2. g \in [SUBSET D -> Int] /\ RightUpTo(g, f, D, S)
      BY <3>1 DEF RightUpTo, Added
    <3>3. QED
      BY <3>2
  <2>2. CASE S # {}
    <3>1. PICK x : x \in S
      BY <2>2
    <3>2. PICK g \in [SUBSET D -> Int] : RightUpTo(g, f, D, S \ {x})
      <4>1. S \ {x} \in G
        BY <1>1, <3>1
      <4>2. QED
        BY <4>1
    <3> DEFINE h == [T \in SUBSET D |-> Added(f, g, T)]
    <3> HIDE DEF G
    <3>3. \A k : k = h => k \in [SUBSET D -> Int] /\ RightUpTo(k, f, D, S)
      BY <3>1, <3>2, AddOnceMore
    <3>4. QED
      BY <3>3 DEF G
  <2>3. QED
    BY <2>1, <2>2
<1>2. D \in G
  <2> HIDE DEF G
  <2>1. SUBSET D \subseteq G
    BY <1>1, SubsetInduction
  <2>2. QED
    BY <2>1
<1>3. PICK g \in [SUBSET D -> Int] : RightUpTo(g, f, D, D)
  BY <1>2
<1>4. \A T \in SUBSET D : g[T] = Added(f, g, T)
  BY <1>3, FS_Subset DEF RightUpTo
<1>5. Adds(g, f)
  BY <1>4 DEF Adds
<1>6. QED
  BY <1>5

\* The element that is taken out first makes no difference.
AnyIsFirst(g, f, D) == \A S \in SUBSET D : \A x \in S : g[S] = f[x] + g[S \ {x}]

LEMMA AnyFirst ==
    ASSUME NEW D, IsFiniteSet(D), NEW f \in [D -> Int], NEW g \in [SUBSET D -> Int],
           Adds(g, f)
    PROVE  AnyIsFirst(g, f, D)
<1> DEFINE G == {S \in SUBSET D : \A x \in S : g[S] = f[x] + g[S \ {x}]}
<1>0. \A S \in SUBSET D : g[S] = Added(f, g, S)
  BY DEF Adds
<1>1. ASSUME NEW S \in SUBSET D, \A T \in SUBSET S : T # S => T \in G
      PROVE  S \in G
  <2>1. ASSUME NEW x \in S PROVE g[S] = f[x] + g[S \ {x}]
    <3> DEFINE y == CHOOSE y \in S : TRUE
    <3>1. y \in S
      BY <2>1
    <3>2. g[S] = f[y] + g[S \ {y}]
      BY <1>0, <2>1 DEF Added
    <3> HIDE DEF y
    <3>3. CASE x = y
      BY <3>2, <3>3
    <3>4. CASE x # y
      <4>1. S \ {y} \in G /\ S \ {x} \in G
        BY <1>1, <2>1, <3>1
      <4> DEFINE r == g[(S \ {x}) \ {y}]
      <4>2. (S \ {y}) \ {x} = (S \ {x}) \ {y}
        OBVIOUS
      <4>3. g[S \ {y}] = f[x] + r
        BY <2>1, <3>4, <4>1, <4>2
      <4>4. g[S \ {x}] = f[y] + r
        BY <3>1, <3>4, <4>1
      <4>5. f[x] \in Int /\ f[y] \in Int /\ r \in Int
        BY <2>1, <3>1
      <4> HIDE DEF r
      <4>6. g[S] = f[y] + (f[x] + r)
        BY <3>2, <4>3
      <4>7. QED
        BY <4>4, <4>5, <4>6
    <3>5. QED
      BY <3>3, <3>4
  <2>2. QED
    BY <2>1
<1>2. SUBSET D \subseteq G
  <2> HIDE DEF G
  <2>1. QED
    BY <1>1, SubsetInduction
<1>3. QED
  BY <1>2 DEF AnyIsFirst

\* What is the same on S adds up to the same over S.
SameSums(g, f, h, e, D) ==
    \A S \in SUBSET D : (\A x \in S : f[x] = e[x]) => g[S] = h[S]

LEMMA SameAdded ==
    ASSUME NEW D, IsFiniteSet(D), NEW f \in [D -> Int], NEW g \in [SUBSET D -> Int],
           Adds(g, f), NEW e \in [D -> Int], NEW h \in [SUBSET D -> Int], Adds(h, e)
    PROVE  SameSums(g, f, h, e, D)
<1> DEFINE G == {S \in SUBSET D : (\A x \in S : f[x] = e[x]) => g[S] = h[S]}
<1>0. \A S \in SUBSET D : g[S] = Added(f, g, S) /\ h[S] = Added(e, h, S)
  BY DEF Adds
<1>1. ASSUME NEW S \in SUBSET D, \A T \in SUBSET S : T # S => T \in G
      PROVE  S \in G
  <2>1. ASSUME \A x \in S : f[x] = e[x] PROVE g[S] = h[S]
    <3>1. CASE S = {}
      BY <1>0, <3>1 DEF Added
    <3>2. CASE S # {}
      <4> DEFINE y == CHOOSE y \in S : TRUE
      <4>1. y \in S
        BY <3>2
      <4>2. g[S] = f[y] + g[S \ {y}] /\ h[S] = e[y] + h[S \ {y}]
        BY <1>0, <3>2 DEF Added
      <4> HIDE DEF y
      <4>3. S \ {y} \in G
        BY <1>1, <4>1
      <4>4. g[S \ {y}] = h[S \ {y}]
        BY <2>1, <4>3
      <4>5. QED
        BY <2>1, <4>1, <4>2, <4>4
    <3>3. QED
      BY <3>1, <3>2
  <2>2. QED
    BY <2>1
<1>2. SUBSET D \subseteq G
  <2> HIDE DEF G
  <2>1. QED
    BY <1>1, SubsetInduction
<1>3. QED
  BY <1>2 DEF SameSums

LEMMA AddsTypes ==
    ASSUME NEW D, IsFiniteSet(D), NEW f \in [D -> Int], NEW g, Adds(g, f)
    PROVE  g \in [SUBSET D -> Int]
<1> DEFINE G == {S \in SUBSET D : g[S] \in Int}
<1>0. DOMAIN g = SUBSET D /\ \A S \in SUBSET D : g[S] = Added(f, g, S)
  BY DEF Adds
<1>1. ASSUME NEW S \in SUBSET D, \A T \in SUBSET S : T # S => T \in G
      PROVE  S \in G
  <2>1. CASE S = {}
    BY <1>0, <2>1 DEF Added
  <2>2. CASE S # {}
    <3> DEFINE y == CHOOSE y \in S : TRUE
    <3>1. y \in S
      BY <2>2
    <3>2. g[S] = f[y] + g[S \ {y}]
      BY <1>0, <2>2 DEF Added
    <3> HIDE DEF y
    <3>3. f[y] \in Int /\ g[S \ {y}] \in Int
      BY <1>1, <3>1
    <3>4. QED
      BY <3>2, <3>3
  <2>3. QED
    BY <2>1, <2>2
<1>2. SUBSET D \subseteq G
  <2> HIDE DEF G
  <2>1. QED
    BY <1>1, SubsetInduction
<1>3. g = [S \in SUBSET D |-> g[S]]
  BY <1>0 DEF Adds
<1>4. QED
  BY <1>2, <1>3

LEMMA SumAdds ==
    ASSUME NEW D, IsFiniteSet(D), NEW f \in [D -> Int]
    PROVE  \E g \in [SUBSET D -> Int] : Adds(g, f) /\ Sum(f) = g[D]
<1> DEFINE g == CHOOSE g : Adds(g, f)
<1>1. Adds(g, f)
  BY AddsExists
<1>2. Sum(f) = g[D]
  BY SumIsChosen
<1> HIDE DEF g
<1>3. g \in [SUBSET D -> Int]
  BY <1>1, AddsTypes
<1>4. QED
  BY <1>1, <1>2, <1>3

LEMMA SumIsInt ==
    ASSUME NEW D, IsFiniteSet(D), NEW f \in [D -> Int]
    PROVE  Sum(f) \in Int
<1>1. PICK g \in [SUBSET D -> Int] : Adds(g, f) /\ Sum(f) = g[D]
  BY SumAdds
<1>2. QED
  BY <1>1

\* A sum moves with the one term that changes, and the sum of nothing is nothing.
LEMMA SumMoves ==
    ASSUME NEW D, IsFiniteSet(D), NEW f \in [D -> Int], NEW e \in [D -> Int], NEW x \in D,
           \A y \in D \ {x} : e[y] = f[y]
    PROVE  Sum(e) = Sum(f) - f[x] + e[x]
<1>1. PICK g \in [SUBSET D -> Int] : Adds(g, f) /\ Sum(f) = g[D]
  BY SumAdds
<1>2. PICK h \in [SUBSET D -> Int] : Adds(h, e) /\ Sum(e) = h[D]
  BY SumAdds
<1>3. g[D] = f[x] + g[D \ {x}] /\ h[D] = e[x] + h[D \ {x}]
  <2>1. AnyIsFirst(g, f, D) /\ AnyIsFirst(h, e, D)
    BY <1>1, <1>2, AnyFirst
  <2>2. QED
    BY <2>1 DEF AnyIsFirst
<1>4. g[D \ {x}] = h[D \ {x}]
  <2>1. SameSums(g, f, h, e, D)
    BY <1>1, <1>2, SameAdded
  <2>2. \A y \in D \ {x} : f[y] = e[y]
    OBVIOUS
  <2>3. QED
    BY <2>1, <2>2 DEF SameSums
<1>5. f[x] \in Int /\ e[x] \in Int /\ g[D \ {x}] \in Int
  OBVIOUS
<1>6. QED
  BY <1>1, <1>2, <1>3, <1>4, <1>5

LEMMA SumOfNothing ==
    ASSUME NEW D, IsFiniteSet(D)
    PROVE  Sum([x \in D |-> 0]) = 0
<1> DEFINE f == [x \in D |-> 0]
<1>1. f \in [D -> Int] /\ \A x \in D : f[x] = 0
  OBVIOUS
<1> HIDE DEF f
<1>2. PICK g \in [SUBSET D -> Int] : Adds(g, f) /\ Sum(f) = g[D]
  BY <1>1, SumAdds
<1>3. \A S \in SUBSET D : g[S] = Added(f, g, S)
  BY <1>1, <1>2 DEF Adds
<1>4. AnyIsFirst(g, f, D)
  BY <1>1, <1>2, AnyFirst
<1> DEFINE G == {S \in SUBSET D : g[S] = 0}
<1>5. ASSUME NEW S \in SUBSET D, \A T \in SUBSET S : T # S => T \in G
      PROVE  S \in G
  <2>1. CASE S = {}
    BY <1>3, <2>1 DEF Added
  <2>2. CASE S # {}
    <3>1. PICK x : x \in S
      BY <2>2
    <3>2. g[S] = f[x] + g[S \ {x}]
      BY <1>4, <3>1 DEF AnyIsFirst
    <3>3. S \ {x} \in G
      BY <1>5, <3>1
    <3>4. QED
      BY <1>1, <3>1, <3>2, <3>3
  <2>3. QED
    BY <2>1, <2>2
<1>6. SUBSET D \subseteq G
  <2> HIDE DEF G
  <2>1. QED
    BY <1>5, SubsetInduction
<1>7. QED
  BY <1>2, <1>6 DEF f

-----------------------------------------------------------------------------
(* The books: what the calls of a single pool left, and the legs *)

\* abort is called for a pool on the leg's exchange that is not the leg's own.
MisnamedAbort ==
    \E id \in Ids, p \in Pools, x \in Txs :
        AbortExpired(id, p, x) /\ tx[Home[p]][x].pool # p

\* A leg is on one of its trade's two pools, and in the log of that pool's exchange.
LegsInTheirPools ==
    \A e \in Exchanges, x \in Txs :
        tx[e][x] # NoTx =>
            /\ tx[e][x].pool \in {plan[x].local, plan[x].remote}
            /\ Home[tx[e][x].pool] = e

\* f is r, and c is b, but that amount came in and out of the other side went, or back.
IsPaid(f, r, p, side, amount, out) ==
    \A q \in Pools, s \in Sides :
        f[q][s] = IF q # p THEN r[q][s]
                  ELSE IF s = side THEN r[q][s] + amount ELSE r[q][s] - out
IsReceived(c, b, p, id, side, amount, out) ==
    \A q \in Pools, i \in Ids, s \in Sides :
        c[q][i][s] = IF q # p \/ i # id THEN b[q][i][s]
                     ELSE IF s = side THEN b[q][i][s] - amount ELSE b[q][i][s] + out

LEMMA SidesAreTwo ==
    ASSUME NEW side \in Sides, NEW s \in Sides
    PROVE  s = side \/ s = Other(side)
BY DEF Sides, Other

LEMMA PaidReads ==
    ASSUME NEW r \in [Pools -> [Sides -> Int]], NEW p \in Pools, NEW side \in Sides,
           NEW amount \in Int, NEW out \in Int
    PROVE  IsPaid(Paid(r, p, side, amount, out), r, p, side, amount, out)
<1> DEFINE other == Other(side)
           lose == -out
           f == Filled(r, p, side, amount)
<1>1. other \in Sides /\ other # side /\ lose \in Int /\ lose = -out
  BY OtherSideDiffers
<1>2. \A s \in Sides : s = side \/ s = other
  BY SidesAreTwo
<1> HIDE DEF other, lose
<1>3. f \in [Pools -> [Sides -> Int]] /\ IsFilled(f, r, p, side, amount)
  BY FilledTypes, FilledReads
<1> HIDE DEF f
<1>4. IsFilled(Filled(f, p, other, lose), f, p, other, lose)
  BY <1>1, <1>3, FilledReads
<1>5. Paid(r, p, side, amount, out) = Filled(f, p, other, lose)
  BY DEF Paid, f, other, lose
<1>6. \A q \in Pools, s \in Sides : r[q][s] \in Int
  OBVIOUS
<1>7. QED
  BY <1>1, <1>2, <1>3, <1>4, <1>5, <1>6 DEF IsFilled, IsPaid

LEMMA ReceivedReads ==
    ASSUME NEW b \in [Pools -> [Ids -> [Sides -> Int]]], NEW p \in Pools, NEW id \in Ids,
           NEW side \in Sides, NEW amount \in Int, NEW out \in Int
    PROVE  IsReceived(Received(b, p, id, side, amount, out), b, p, id, side, amount, out)
<1> DEFINE other == Other(side)
           pay == -amount
           c == Credited(b, p, id, side, pay)
<1>1. other \in Sides /\ other # side /\ pay \in Int /\ pay = -amount
  BY OtherSideDiffers
<1>2. \A s \in Sides : s = side \/ s = other
  BY SidesAreTwo
<1> HIDE DEF other, pay
<1>3. c \in [Pools -> [Ids -> [Sides -> Int]]] /\ IsCredited(c, b, p, id, side, pay)
  BY <1>1, CreditedTypes, CreditedReads
<1> HIDE DEF c
<1>4. IsCredited(Credited(c, p, id, other, out), c, p, id, other, out)
  BY <1>1, <1>3, CreditedReads
<1>5. Received(b, p, id, side, amount, out) = Credited(c, p, id, other, out)
  BY DEF Received, c, other, pay
<1>6. \A q \in Pools, i \in Ids, s \in Sides : b[q][i][s] \in Int
  OBVIOUS
<1>7. QED
  BY <1>1, <1>2, <1>3, <1>4, <1>5, <1>6 DEF IsCredited, IsReceived

NewReserves == [q \in Pools |-> pool'[q].reserve]

LEMMA ShiftReads ==
    ASSUME TypeOK, NEW p \in Pools, NEW id \in Ids, NEW side \in Sides,
           NEW amount \in Int, NEW out \in Int, Shift(p, id, side, amount, out)
    PROVE  /\ IsPaid(NewReserves, Reserves, p, side, amount, out)
           /\ IsReceived(bal', bal, p, id, side, amount, out)
<1> DEFINE r == Paid(Reserves, p, side, amount, out)
<1>1. Reserves \in [Pools -> [Sides -> Int]] /\ bal \in [Pools -> [Ids -> [Sides -> Int]]]
  BY ReservesType DEF TypeOK
<1>2. r \in [Pools -> [Sides -> Int]] /\ IsPaid(r, Reserves, p, side, amount, out)
  BY <1>1, PaidTypes, PaidReads
<1>3. SetReserve(p, r) /\ bal' = Received(bal, p, id, side, amount, out)
  BY DEF Shift
<1> HIDE DEF r
<1>4. \A q \in Pools \ {p}, s \in Sides : r[q][s] = pool[q].reserve[s]
  BY <1>2, ReservesReads DEF IsPaid
<1>5. \A q \in Pools, s \in Sides : pool'[q].reserve[s] = r[q][s]
  BY <1>2, <1>3, <1>4, ReserveReads
<1>6. IsPaid(NewReserves, Reserves, p, side, amount, out)
  BY <1>2, <1>5 DEF IsPaid, NewReserves
<1>7. IsReceived(bal', bal, p, id, side, amount, out)
  BY <1>1, <1>3, ReceivedReads
<1>8. QED
  BY <1>6, <1>7

LEMMA MovesAreInt ==
    ASSUME NEW t \in Tx \cup {NoTx}, NEW p \in Pools, NEW side \in Sides
    PROVE  LegMoves(p, t, side) \in Int /\ \A id \in Ids : HolderMoves(p, id, t, side) \in Int
<1>1. LegMoves(p, t, side) \in Int
  <2>1. CASE t = NoTx
    BY <2>1 DEF LegMoves
  <2>2. CASE t # NoTx
    <3>1. t.amount \in Int /\ t.out \in Int
      BY <2>2 DEF Tx
    <3>2. -t.out \in Int
      BY <3>1
    <3>3. QED
      BY <2>2, <3>1, <3>2 DEF LegMoves
  <2>3. QED
    BY <2>1, <2>2
<1>2. QED
  BY <1>1 DEF HolderMoves

\* What the legs of a log moved into p's reserve, and out of what id has there.
LegSum(p, log, side) == Sum([x \in Txs |-> LegMoves(p, log[x], side)])
HeldSum(p, id, log, side) == Sum([x \in Txs |-> HolderMoves(p, id, log[x], side)])

Logs == [Txs -> Tx \cup {NoTx}]

LEMMA SumsAreInt ==
    ASSUME IsFiniteSet(Txs), NEW log \in Logs, NEW p \in Pools, NEW side \in Sides
    PROVE  LegSum(p, log, side) \in Int /\ \A id \in Ids : HeldSum(p, id, log, side) \in Int
<1>1. LegSum(p, log, side) \in Int
  <2> DEFINE f == [x \in Txs |-> LegMoves(p, log[x], side)]
  <2>1. f \in [Txs -> Int]
    <3>1. \A t \in Tx \cup {NoTx} : LegMoves(p, t, side) \in Int
      BY MovesAreInt
    <3>2. QED
      BY <3>1 DEF Logs
  <2> HIDE DEF f
  <2>2. Sum(f) \in Int
    BY <2>1, SumIsInt
  <2>3. QED
    BY <2>2 DEF f, LegSum
<1>2. ASSUME NEW id \in Ids PROVE HeldSum(p, id, log, side) \in Int
  <2> DEFINE f == [x \in Txs |-> HolderMoves(p, id, log[x], side)]
  <2>1. f \in [Txs -> Int]
    BY MovesAreInt DEF Logs
  <2> HIDE DEF f
  <2>2. Sum(f) \in Int
    BY <2>1, SumIsInt
  <2>3. QED
    BY <2>2 DEF f, HeldSum
<1>3. QED
  BY <1>1, <1>2

\* log becomes new with the leg x as t.
Relogged(new, log, x, t) ==
    new \in Logs /\ new[x] = t /\ \A y \in Txs \ {x} : new[y] = log[y]

LEMMA LegSumMoves ==
    ASSUME IsFiniteSet(Txs), NEW log \in Logs, NEW new, NEW x \in Txs, NEW t,
           Relogged(new, log, x, t), NEW p \in Pools, NEW side \in Sides
    PROVE  LegSum(p, new, side)
               = LegSum(p, log, side) - LegMoves(p, log[x], side) + LegMoves(p, t, side)
<1> DEFINE f == [y \in Txs |-> LegMoves(p, log[y], side)]
           e == [y \in Txs |-> LegMoves(p, new[y], side)]
<1>1. f \in [Txs -> Int] /\ e \in [Txs -> Int]
  <2>1. \A u \in Tx \cup {NoTx} : LegMoves(p, u, side) \in Int
    BY MovesAreInt
  <2>2. QED
    BY <2>1 DEF Logs, Relogged
<1>2. f[x] = LegMoves(p, log[x], side) /\ e[x] = LegMoves(p, t, side)
  BY DEF Relogged
<1>3. \A y \in Txs \ {x} : e[y] = f[y]
  BY DEF Relogged
<1>4. LegSum(p, log, side) = Sum(f) /\ LegSum(p, new, side) = Sum(e)
  BY DEF LegSum
<1> HIDE DEF f, e
<1>5. Sum(e) = Sum(f) - f[x] + e[x]
  BY <1>1, <1>3, SumMoves
<1>6. QED
  BY <1>2, <1>4, <1>5

LEMMA HeldSumMoves ==
    ASSUME IsFiniteSet(Txs), NEW log \in Logs, NEW new, NEW x \in Txs, NEW t,
           Relogged(new, log, x, t), NEW p \in Pools, NEW id \in Ids, NEW side \in Sides
    PROVE  HeldSum(p, id, new, side)
               = HeldSum(p, id, log, side) - HolderMoves(p, id, log[x], side)
                 + HolderMoves(p, id, t, side)
<1> DEFINE f == [y \in Txs |-> HolderMoves(p, id, log[y], side)]
           e == [y \in Txs |-> HolderMoves(p, id, new[y], side)]
<1>1. f \in [Txs -> Int] /\ e \in [Txs -> Int]
  BY MovesAreInt DEF Logs, Relogged
<1>2. f[x] = HolderMoves(p, id, log[x], side) /\ e[x] = HolderMoves(p, id, t, side)
  BY DEF Relogged
<1>3. \A y \in Txs \ {x} : e[y] = f[y]
  BY DEF Relogged
<1>4. HeldSum(p, id, log, side) = Sum(f) /\ HeldSum(p, id, new, side) = Sum(e)
  BY DEF HeldSum
<1> HIDE DEF f, e
<1>5. Sum(e) = Sum(f) - f[x] + e[x]
  BY <1>1, <1>3, SumMoves
<1>6. QED
  BY <1>2, <1>4, <1>5

\* What Accounted says of one amount in p: of a reserve, and of a balance.
ReserveBooked(p, side) ==
    pool[p].reserve[side] = given[p][side] + LegSum(p, tx[Home[p]], side)
BalanceBooked(p, id, side) ==
    bal[p][id][side] = own[p][id][side] - HeldSum(p, id, tx[Home[p]], side)
Booked ==
    \A p \in Pools, side \in Sides :
        ReserveBooked(p, side) /\ \A id \in Ids : BalanceBooked(p, id, side)

LEMMA BookedIsAccounted == Booked => Accounted
BY DEF Accounted, Booked, ReserveBooked, BalanceBooked, LegSum, HeldSum

\* Amounts on and off the books go together.
QuietAmounts ==
    \A p \in Pools, s \in Sides :
        /\ pool'[p].reserve[s] - given'[p][s] = pool[p].reserve[s] - given[p][s]
        /\ \A i \in Ids : bal'[p][i][s] - own'[p][i][s] = bal[p][i][s] - own[p][i][s]

\* The leg x on e becomes t, and reserves and balances move by what it moves more.
LegRecorded(e, x, t) ==
    /\ t \in Tx
    /\ \A f \in Exchanges, y \in Txs :
           tx'[f][y] = IF f = e /\ y = x THEN t ELSE tx[f][y]
AmountsFollow(e, x, t) ==
    \A p \in Pools, s \in Sides :
        IF Home[p] = e
        THEN /\ pool'[p].reserve[s]
                    = pool[p].reserve[s] - LegMoves(p, tx[e][x], s) + LegMoves(p, t, s)
             /\ \A i \in Ids :
                    bal'[p][i][s] = bal[p][i][s] + HolderMoves(p, i, tx[e][x], s)
                                    - HolderMoves(p, i, t, s)
        ELSE /\ pool'[p].reserve[s] = pool[p].reserve[s]
             /\ \A i \in Ids : bal'[p][i][s] = bal[p][i][s]

AmountTypes ==
    /\ \A p \in Pools, s \in Sides : pool[p].reserve[s] \in Int /\ given[p][s] \in Int
    /\ \A p \in Pools, i \in Ids, s \in Sides :
           bal[p][i][s] \in Int /\ own[p][i][s] \in Int

LEMMA AmountsAreInt ==
    /\ TypeOK => AmountTypes
    /\ TypeOK' => AmountTypes'
BY DEF TypeOK, AmountTypes, Pool

LEMMA LogsAreLogs ==
    /\ TypeOK => \A p \in Pools : tx[Home[p]] \in Logs
    /\ TypeOK' => \A p \in Pools : tx'[Home[p]] \in Logs
BY ExchangeAssumption DEF TypeOK, Logs

LEMMA QuietBooks ==
    ASSUME IsFiniteSet(Txs), TypeOK, TypeOK', Booked, tx' = tx, QuietAmounts
    PROVE  Booked'
<1>1. AmountTypes /\ AmountTypes'
  BY AmountsAreInt
<1>2. ASSUME NEW p \in Pools, NEW side \in Sides PROVE ReserveBooked(p, side)'
  <2> DEFINE m == LegSum(p, tx[Home[p]], side)
  <2>1. m' = m
    OBVIOUS
  <2>2. pool[p].reserve[side] = given[p][side] + m
    BY DEF Booked, ReserveBooked
  <2>3. m \in Int
    BY LogsAreLogs, SumsAreInt
  <2>4. pool'[p].reserve[side] = given'[p][side] + m'
    <3> HIDE DEF m
    <3>1. pool'[p].reserve[side] - given'[p][side] = pool[p].reserve[side] - given[p][side]
      BY DEF QuietAmounts
    <3>2. QED
      BY <1>1, <2>1, <2>2, <2>3, <3>1 DEF AmountTypes
  <2>5. QED
    BY <2>4 DEF ReserveBooked
<1>3. ASSUME NEW p \in Pools, NEW side \in Sides, NEW id \in Ids
      PROVE  BalanceBooked(p, id, side)'
  <2> DEFINE m == HeldSum(p, id, tx[Home[p]], side)
  <2>1. m' = m
    OBVIOUS
  <2>2. bal[p][id][side] = own[p][id][side] - m
    BY DEF Booked, BalanceBooked
  <2>3. m \in Int
    BY LogsAreLogs, SumsAreInt
  <2>4. bal'[p][id][side] = own'[p][id][side] - m'
    <3> HIDE DEF m
    <3>1. bal'[p][id][side] - own'[p][id][side] = bal[p][id][side] - own[p][id][side]
      BY DEF QuietAmounts
    <3>2. QED
      BY <1>1, <2>1, <2>2, <2>3, <3>1 DEF AmountTypes
  <2>5. QED
    BY <2>4 DEF BalanceBooked
<1>4. QED
  BY <1>2, <1>3 DEF Booked

LEMMA LegBooks ==
    ASSUME IsFiniteSet(Txs), TypeOK, TypeOK', Booked, UNCHANGED <<given, own>>,
           NEW e \in Exchanges, NEW x \in Txs, NEW t,
           LegRecorded(e, x, t), AmountsFollow(e, x, t)
    PROVE  Booked'
<1>1. AmountTypes /\ AmountTypes'
  BY AmountsAreInt
<1>2. \A p \in Pools : tx[Home[p]] \in Logs /\ tx'[Home[p]] \in Logs
  BY LogsAreLogs
<1>3. ASSUME NEW p \in Pools, Home[p] = e
      PROVE  Relogged(tx'[Home[p]], tx[Home[p]], x, t)
  BY <1>2, <1>3 DEF LegRecorded, Relogged
<1>4. ASSUME NEW p \in Pools, Home[p] # e
      PROVE  tx'[Home[p]] = tx[Home[p]]
  <2>1. \A y \in Txs : tx'[Home[p]][y] = tx[Home[p]][y]
    BY <1>4, ExchangeAssumption DEF LegRecorded
  <2>2. QED
    BY <1>2, <2>1 DEF Logs
<1>5. tx[e][x] \in Tx \cup {NoTx} /\ t \in Tx \cup {NoTx}
  BY DEF TypeOK, LegRecorded
<1>6. ASSUME NEW p \in Pools, NEW side \in Sides PROVE ReserveBooked(p, side)'
  <2> DEFINE m == LegSum(p, tx[Home[p]], side)
             n == LegSum(p, tx'[Home[p]], side)
             was == LegMoves(p, tx[e][x], side)
             is == LegMoves(p, t, side)
  <2>1. pool[p].reserve[side] = given[p][side] + m /\ given' = given
    BY DEF Booked, ReserveBooked
  <2>2. m \in Int
    BY <1>2, SumsAreInt
  <2>3. IF Home[p] = e
        THEN pool'[p].reserve[side] = pool[p].reserve[side] - was + is
        ELSE pool'[p].reserve[side] = pool[p].reserve[side]
    BY DEF AmountsFollow
  <2>4. IF Home[p] = e THEN was \in Int /\ is \in Int /\ n = m - was + is ELSE n = m
    <3>1. CASE Home[p] = e
      <4>1. n = m - was + is
        BY <1>2, <1>3, <3>1, LegSumMoves
      <4>2. was \in Int /\ is \in Int
        <5>1. \A u \in Tx \cup {NoTx} : LegMoves(p, u, side) \in Int
          BY <1>3, MovesAreInt
        <5>2. QED
          BY <1>5, <5>1
      <4>3. QED
        BY <3>1, <4>1, <4>2
    <3>2. CASE Home[p] # e
      BY <1>4, <3>2
    <3>3. QED
      BY <3>1, <3>2
  <2> HIDE DEF m, n, was, is
  <2>5. pool'[p].reserve[side] = given'[p][side] + n
    BY <1>1, <2>1, <2>2, <2>3, <2>4 DEF AmountTypes
  <2>6. QED
    BY <2>5 DEF ReserveBooked, n
<1>7. ASSUME NEW p \in Pools, NEW side \in Sides, NEW id \in Ids
      PROVE  BalanceBooked(p, id, side)'
  <2> DEFINE m == HeldSum(p, id, tx[Home[p]], side)
             n == HeldSum(p, id, tx'[Home[p]], side)
             was == HolderMoves(p, id, tx[e][x], side)
             is == HolderMoves(p, id, t, side)
  <2>1. bal[p][id][side] = own[p][id][side] - m /\ own' = own
    BY DEF Booked, BalanceBooked
  <2>2. m \in Int
    BY <1>2, SumsAreInt
  <2>3. IF Home[p] = e
        THEN bal'[p][id][side] = bal[p][id][side] + was - is
        ELSE bal'[p][id][side] = bal[p][id][side]
    BY DEF AmountsFollow
  <2>4. IF Home[p] = e THEN was \in Int /\ is \in Int /\ n = m - was + is ELSE n = m
    <3>1. CASE Home[p] = e
      <4>1. n = m - was + is
        BY <1>2, <1>3, <3>1, HeldSumMoves
      <4>2. was \in Int /\ is \in Int
        BY <1>5, MovesAreInt
      <4>3. QED
        BY <3>1, <4>1, <4>2
    <3>2. CASE Home[p] # e
      BY <1>4, <3>2
    <3>3. QED
      BY <3>1, <3>2
  <2> HIDE DEF m, n, was, is
  <2>5. bal'[p][id][side] = own'[p][id][side] - n
    BY <1>1, <2>1, <2>2, <2>3, <2>4 DEF AmountTypes
  <2>6. QED
    BY <2>5 DEF BalanceBooked, n
<1>8. QED
  BY <1>6, <1>7 DEF Booked

\* The leg that was old and is t moves amount in and out back, in pool p and no other.
MovesBy(p, old, t, side, amount, out) ==
    /\ \A s \in Sides :
           LegMoves(p, t, s) = LegMoves(p, old, s) + (IF s = side THEN amount ELSE -out)
    /\ \A q \in Pools \ {p}, s \in Sides : LegMoves(q, t, s) = 0 /\ LegMoves(q, old, s) = 0
HeldBy(t, id) == t = NoTx \/ t.holder = id

LEMMA HolderMovesIt ==
    ASSUME NEW t, NEW id, HeldBy(t, id), NEW p, NEW s
    PROVE  \A i : HolderMoves(p, i, t, s) = IF i = id THEN LegMoves(p, t, s) ELSE 0
BY DEF HeldBy, HolderMoves, LegMoves

LEMMA ShiftFollows ==
    ASSUME TypeOK, NEW p \in Pools, NEW id \in Ids, NEW side \in Sides,
           NEW amount \in Int, NEW out \in Int, Shift(p, id, side, amount, out),
           NEW x \in Txs, NEW t \in Tx, HeldBy(t, id), HeldBy(tx[Home[p]][x], id),
           MovesBy(p, tx[Home[p]][x], t, side, amount, out)
    PROVE  AmountsFollow(Home[p], x, t)
<1> DEFINE old == tx[Home[p]][x]
<1>1. /\ IsPaid(NewReserves, Reserves, p, side, amount, out)
      /\ IsReceived(bal', bal, p, id, side, amount, out)
  BY ShiftReads
<1>2. AmountTypes
  BY AmountsAreInt
<1>3. old \in Tx \cup {NoTx}
  BY ExchangeAssumption DEF TypeOK
<1>4. \A q \in Pools, s \in Sides : LegMoves(q, t, s) \in Int /\ LegMoves(q, old, s) \in Int
  <2> HIDE DEF old
  <2>1. QED
    BY <1>3, MovesAreInt
<1>5. \A q \in Pools, s \in Sides, i \in Ids :
          /\ HolderMoves(q, i, t, s) = IF i = id THEN LegMoves(q, t, s) ELSE 0
          /\ HolderMoves(q, i, old, s) = IF i = id THEN LegMoves(q, old, s) ELSE 0
  BY HolderMovesIt
<1>6. MovesBy(p, old, t, side, amount, out)
  OBVIOUS
<1> HIDE DEF old
<1>7. ASSUME NEW q \in Pools, NEW s \in Sides
      PROVE  /\ pool'[q].reserve[s]
                    = pool[q].reserve[s] - LegMoves(q, old, s) + LegMoves(q, t, s)
             /\ \A i \in Ids :
                    bal'[q][i][s] = bal[q][i][s] + HolderMoves(q, i, old, s)
                                    - HolderMoves(q, i, t, s)
  <2> DEFINE was == LegMoves(q, old, s)
             is == LegMoves(q, t, s)
             by == IF q # p THEN 0 ELSE IF s = side THEN amount ELSE -out
  <2>1. was \in Int /\ is \in Int /\ by \in Int
    BY <1>4
  <2>2. is = was + by
    BY <1>6 DEF MovesBy
  <2>3. pool'[q].reserve[s] = pool[q].reserve[s] + by
    <3>1. pool[q].reserve[s] \in Int
      BY <1>2 DEF AmountTypes
    <3>2. QED
      BY <1>1, <3>1 DEF IsPaid, NewReserves, Reserves
  <2>4. ASSUME NEW i \in Ids
        PROVE  bal'[q][i][s] = IF i = id THEN bal[q][i][s] - by ELSE bal[q][i][s]
    <3>1. bal[q][i][s] \in Int
      BY <1>2 DEF AmountTypes
    <3>2. QED
      BY <1>1, <3>1 DEF IsReceived
  <2> HIDE DEF was, is, by
  <2>5. ASSUME NEW i \in Ids
        PROVE  bal'[q][i][s] = bal[q][i][s] + HolderMoves(q, i, old, s)
                               - HolderMoves(q, i, t, s)
    <3>1. /\ HolderMoves(q, i, t, s) = IF i = id THEN is ELSE 0
          /\ HolderMoves(q, i, old, s) = IF i = id THEN was ELSE 0
      BY <1>5 DEF was, is
    <3>2. bal[q][i][s] \in Int
      BY <1>2 DEF AmountTypes
    <3>3. QED
      BY <2>1, <2>2, <2>4, <3>1, <3>2
  <2>6. pool'[q].reserve[s] = pool[q].reserve[s] - was + is
    <3>1. pool[q].reserve[s] \in Int
      BY <1>2 DEF AmountTypes
    <3>2. QED
      BY <2>1, <2>2, <2>3, <3>1
  <2>7. QED
    BY <2>5, <2>6 DEF was, is
<1>8. ASSUME NEW q \in Pools, NEW s \in Sides, Home[q] # Home[p]
      PROVE  /\ pool'[q].reserve[s] = pool[q].reserve[s]
             /\ \A i \in Ids : bal'[q][i][s] = bal[q][i][s]
  BY <1>1, <1>8 DEF IsPaid, IsReceived, NewReserves, Reserves
<1>9. QED
  BY <1>7, <1>8 DEF AmountsFollow, old

\* A call of a trade writes a leg, of pool p, and the books follow it.
Written(e, x, p) == \E t : LegRecorded(e, x, t) /\ t.pool = p

LEMMA PrepareBooks ==
    ASSUME IsFiniteSet(Txs), TypeOK, TypeOK', Booked, UNCHANGED <<given, own>>,
           NEW id \in Ids, NEW p \in Pools, NEW x \in Txs, NEW side \in Sides,
           NEW amount \in Int, NEW expiry \in Nat, Prepare(id, p, x, side, amount, expiry)
    PROVE  Booked' /\ Written(Home[p], x, p)
<1> DEFINE out == Out(p, side, amount)
           t == [holder |-> id, pool |-> p, from |-> side, amount |-> amount,
                 out |-> out, expiry |-> expiry, receive |-> FALSE, status |-> "prepared"]
<1>1. amount >= 0 /\ IsOpen(p) /\ tx[Home[p]][x] = NoTx
  BY DEF Prepare, CanPrepare, CanSwap
<1>2. out \in Int /\ Home[p] \in Exchanges
  BY <1>1, OutTypes, ExchangeAssumption
<1>3. Shift(p, id, side, amount, out) /\ Record(Home[p], x, t)
  BY DEF Prepare
<1> HIDE DEF out
<1>4. t \in Tx /\ t.amount >= 0
  BY <1>1, <1>2 DEF Tx, Status
<1>5. t # NoTx
  BY DEF NoTx
<1>6. HeldBy(t, id) /\ HeldBy(NoTx, id)
  BY DEF HeldBy
<1>7. MovesBy(p, NoTx, t, side, amount, out)
  BY <1>2, <1>5 DEF MovesBy, LegMoves
<1> HIDE DEF t
<1>8. LegRecorded(Home[p], x, t)
  BY <1>2, <1>3, <1>4, RecordTypes DEF LegRecorded
<1>9. AmountsFollow(Home[p], x, t)
  BY <1>1, <1>2, <1>3, <1>4, <1>6, <1>7, ShiftFollows
<1>10. t.pool = p
  BY DEF t
<1>11. QED
  BY <1>2, <1>8, <1>9, <1>10, LegBooks DEF Written

LEMMA ReceiveBooks ==
    ASSUME IsFiniteSet(Txs), TypeOK, TypeOK', Booked, UNCHANGED <<given, own>>,
           NEW id \in Ids, NEW p \in Pools, NEW x \in Txs, NEW side \in Sides,
           NEW amount \in Int, NEW expiry \in Nat, NEW link,
           PrepareReceive(id, p, x, side, amount, expiry, link)
    PROVE  Booked' /\ Written(Home[p], x, p)
<1> DEFINE out == Out(p, side, amount)
           t == [holder |-> id, pool |-> p, from |-> side, amount |-> amount,
                 out |-> out, expiry |-> expiry, receive |-> TRUE, status |-> "prepared"]
<1>1. amount >= 0 /\ IsOpen(p) /\ tx[Home[p]][x] = NoTx
  BY DEF PrepareReceive, CanReceive
<1>2. out \in Int /\ Home[p] \in Exchanges
  BY <1>1, OutTypes, ExchangeAssumption
<1>3. Shift(p, id, side, 0, out) /\ Record(Home[p], x, t)
  BY DEF PrepareReceive
<1> HIDE DEF out
<1>4. t \in Tx /\ t.amount >= 0
  BY <1>1, <1>2 DEF Tx, Status
<1>5. t # NoTx
  BY DEF NoTx
<1>6. HeldBy(t, id) /\ HeldBy(NoTx, id)
  BY DEF HeldBy
<1>7. MovesBy(p, NoTx, t, side, 0, out)
  BY <1>2, <1>5 DEF MovesBy, LegMoves
<1> HIDE DEF t
<1>8. LegRecorded(Home[p], x, t)
  BY <1>2, <1>3, <1>4, RecordTypes DEF LegRecorded
<1>9. AmountsFollow(Home[p], x, t)
  BY <1>1, <1>2, <1>3, <1>4, <1>6, <1>7, ShiftFollows
<1>10. t.pool = p
  BY DEF t
<1>11. QED
  BY <1>2, <1>8, <1>9, <1>10, LegBooks DEF Written

LEMMA CommitBooks ==
    ASSUME IsFiniteSet(Txs), TypeOK, TypeOK', Booked, UNCHANGED <<given, own>>,
           NEW id, NEW e \in Exchanges, NEW x \in Txs, Commit(id, e, x)
    PROVE  Booked' /\ Written(e, x, tx[e][x].pool) /\ tx[e][x] # NoTx
<1> DEFINE t == tx[e][x]
           u == [t EXCEPT !.status = "committed"]
<1>1. t \in Tx /\ t.amount >= 0 /\ t.status # "aborted"
  BY DEF TypeOK, Commit, CanCommit, Leg
<1>2. /\ u \in Tx /\ u.amount >= 0 /\ u # NoTx /\ u.status = "committed"
      /\ u.holder = t.holder /\ u.pool = t.pool /\ u.from = t.from
      /\ u.amount = t.amount /\ u.out = t.out /\ u.receive = t.receive
  BY <1>1 DEF Tx, Status, NoTx
<1>3. Record(e, x, u) /\ UNCHANGED <<pool, bal>>
  BY DEF Commit
<1>4. t # NoTx
  BY DEF Commit, CanCommit
<1> HIDE DEF u, t
<1>5. \A p \in Pools, s \in Sides : LegMoves(p, u, s) = LegMoves(p, t, s)
  BY <1>1, <1>2, <1>4 DEF LegMoves
<1>6. \A p \in Pools, s \in Sides, i \in Ids :
          /\ HolderMoves(p, i, u, s) = HolderMoves(p, i, t, s)
          /\ HolderMoves(p, i, t, s) \in Int
  BY <1>1, <1>2, <1>4, <1>5, MovesAreInt DEF HolderMoves
<1>7. \A p \in Pools, s \in Sides : LegMoves(p, t, s) \in Int
  BY <1>1, MovesAreInt
<1>8. AmountTypes
  BY AmountsAreInt
<1>9. AmountsFollow(e, x, u)
  BY <1>3, <1>5, <1>6, <1>7, <1>8 DEF AmountsFollow, AmountTypes, t
<1>10. LegRecorded(e, x, u)
  BY <1>2, <1>3, RecordTypes DEF LegRecorded
<1>11. QED
  BY <1>2, <1>4, <1>9, <1>10, LegBooks DEF Written, t

\* An abort is told its pool: the books follow only when it is the leg's own.
LEMMA AbortBooks ==
    ASSUME IsFiniteSet(Txs), TypeOK, TypeOK', Booked, UNCHANGED <<given, own>>,
           NEW id, NEW p \in Pools, NEW x \in Txs, Abort(id, p, x), tx[Home[p]][x].pool = p
    PROVE  Booked' /\ Written(Home[p], x, p) /\ tx[Home[p]][x] # NoTx
<1> DEFINE e == Home[p]
           t == tx[e][x]
           u == [t EXCEPT !.status = "aborted"]
           amount == IF t.receive THEN 0 ELSE -t.amount
           out == -t.out
<1>1. e \in Exchanges
  BY ExchangeAssumption
<1>2. t \in Tx /\ t.amount >= 0 /\ t # NoTx /\ t.status = "prepared" /\ t.pool = p
  BY <1>1 DEF TypeOK, Abort, MayAbort, Leg, NoTx
<1>3. Shift(p, t.holder, t.from, amount, out) /\ Record(e, x, u)
  BY DEF Abort, Reverse
<1>4. u \in Tx /\ u.amount >= 0 /\ u.status = "aborted" /\ u.holder = t.holder /\ u.pool = t.pool
  BY <1>2 DEF Tx, Status
<1>5. t.holder \in Ids /\ t.from \in Sides /\ t.amount \in Int /\ t.out \in Int
      /\ amount \in Int /\ out \in Int /\ -out = t.out
  BY <1>2 DEF Tx
<1>6. \A s \in Sides : LegMoves(p, t, s) =
          IF s = t.from THEN (IF t.receive THEN 0 ELSE t.amount) ELSE -t.out
  BY <1>2 DEF LegMoves
<1>7. \A q \in Pools \ {p}, s \in Sides : LegMoves(q, t, s) = 0
  BY <1>2 DEF LegMoves
<1>8. \A q \in Pools, s \in Sides : LegMoves(q, u, s) = 0
  BY <1>4 DEF LegMoves
<1>9. HeldBy(t, t.holder) /\ HeldBy(u, t.holder)
  BY <1>4 DEF HeldBy
<1>10. MovesBy(p, t, u, t.from, amount, out)
  BY <1>5, <1>6, <1>7, <1>8 DEF MovesBy
<1> HIDE DEF u, amount, out
<1>11. LegRecorded(e, x, u)
  BY <1>1, <1>3, <1>4, RecordTypes DEF LegRecorded
<1>12. AmountsFollow(e, x, u)
  BY <1>3, <1>4, <1>5, <1>9, <1>10, ShiftFollows
<1>13. Written(e, x, p)
  BY <1>2, <1>4, <1>11 DEF Written
<1>14. QED
  BY <1>1, <1>2, <1>11, <1>12, <1>13, LegBooks

\* The calls of a single pool, and an abort that names its pool.
LEMMA PoolCallBooks ==
    ASSUME IsFiniteSet(Txs), TypeOK, TypeOK', Booked, PoolCall, ~MisnamedAbort
    PROVE  Booked'
<1>0. Rates \subseteq Int /\ Amounts \subseteq Int
  BY ExchangeAssumption
<1>t. AmountTypes
  BY AmountsAreInt
<1>1. ASSUME NEW id \in Ids, NEW p \in Pools, NEW rate \in Rates,
             Open(id, p, rate) \/ SetRate(id, p, rate)
      PROVE  Booked'
  <2>1. \A v \in Pool : /\ [v EXCEPT !.rate = rate].reserve = v.reserve
                        /\ [v EXCEPT !.owner = id, !.rate = rate].reserve = v.reserve
    BY DEF Pool
  <2>2. \/ pool' = [pool EXCEPT ![p] = [pool[p] EXCEPT !.rate = rate]]
        \/ pool' = [pool EXCEPT ![p] = [pool[p] EXCEPT !.owner = id, !.rate = rate]]
    BY <1>1 DEF Open, SetRate, TypeOK
  <2>3. \A q \in Pools : pool'[q].reserve = pool[q].reserve
    <3>1. pool \in [Pools -> Pool]
      BY DEF TypeOK
    <3>2. QED
      BY <2>1, <2>2, <3>1
  <2>4. UNCHANGED <<bal, tx, given, own>>
    BY <1>1 DEF Open, SetRate
  <2>5. QuietAmounts
    BY <2>3, <2>4 DEF QuietAmounts
  <2>6. QED
    BY <2>4, <2>5, QuietBooks
<1>2. ASSUME NEW id \in Ids, NEW p \in Pools, NEW side \in Sides, NEW amount \in Amounts,
             Provide(id, p, side, amount)
      PROVE  Booked'
  <2>1. amount \in Int
    BY <1>0
  <2>2. /\ Reserves \in [Pools -> [Sides -> Int]] /\ given \in [Pools -> [Sides -> Int]]
    BY ReservesType DEF TypeOK
  <2> DEFINE r == Filled(Reserves, p, side, amount)
  <2>3. r \in [Pools -> [Sides -> Int]] /\ IsFilled(r, Reserves, p, side, amount)
    BY <2>1, <2>2, FilledTypes, FilledReads
  <2>4. IsFilled(given', given, p, side, amount)
    BY <1>2, <2>1, <2>2, FilledReads DEF Provide
  <2>5. SetReserve(p, r) /\ UNCHANGED <<bal, tx, own>>
    BY <1>2 DEF Provide
  <2> HIDE DEF r
  <2>6. \A q \in Pools \ {p}, s \in Sides : r[q][s] = pool[q].reserve[s]
    BY <2>3, ReservesReads DEF IsFilled
  <2>7. \A q \in Pools, s \in Sides : pool'[q].reserve[s] = r[q][s]
    BY <2>3, <2>5, <2>6, ReserveReads
  <2>8. ASSUME NEW q \in Pools, NEW s \in Sides
        PROVE  pool'[q].reserve[s] - given'[q][s] = pool[q].reserve[s] - given[q][s]
    <3>1. pool[q].reserve[s] \in Int /\ given[q][s] \in Int
      BY <1>t DEF AmountTypes
    <3>2. QED
      BY <2>1, <2>3, <2>4, <2>7, <3>1, ReservesReads DEF IsFilled
  <2>9. QuietAmounts
    BY <2>5, <2>8 DEF QuietAmounts
  <2>10. QED
    BY <2>5, <2>9, QuietBooks
<1>3. ASSUME NEW id \in Ids, NEW p \in Pools, NEW side \in Sides, NEW amount \in Amounts,
             Deposit(id, p, side, amount) \/ Withdraw(id, p, side, amount)
      PROVE  Booked'
  <2>1. PICK by \in Int : /\ bal' = Credited(bal, p, id, side, by)
                          /\ own' = Credited(own, p, id, side, by)
    <3>1. amount \in Int /\ -amount \in Int
      BY <1>0
    <3>2. QED
      BY <1>3, <3>1 DEF Deposit, Withdraw
  <2>2. /\ IsCredited(bal', bal, p, id, side, by)
        /\ IsCredited(own', own, p, id, side, by)
    <3>1. /\ bal \in [Pools -> [Ids -> [Sides -> Int]]]
          /\ own \in [Pools -> [Ids -> [Sides -> Int]]]
      BY DEF TypeOK
    <3>2. QED
      BY <2>1, <3>1, CreditedReads
  <2>3. UNCHANGED <<pool, tx, given>>
    BY <1>3 DEF Deposit, Withdraw
  <2>4. ASSUME NEW q \in Pools, NEW i \in Ids, NEW s \in Sides
        PROVE  bal'[q][i][s] - own'[q][i][s] = bal[q][i][s] - own[q][i][s]
    <3>1. bal[q][i][s] \in Int /\ own[q][i][s] \in Int
      BY <1>t DEF AmountTypes
    <3>2. QED
      BY <2>2, <3>1 DEF IsCredited
  <2>5. QuietAmounts
    BY <2>3, <2>4 DEF QuietAmounts
  <2>6. QED
    BY <2>3, <2>5, QuietBooks
<1>4. ASSUME NEW id \in Ids, NEW p \in Pools, NEW side \in Sides, NEW amount \in Amounts,
             Swap(id, p, side, amount)
      PROVE  Booked'
  <2> DEFINE out == Out(p, side, amount)
  <2>1. amount \in Int /\ out \in Int
    BY <1>0, <1>4, OutTypes DEF Swap, CanSwap
  <2>2. /\ Shift(p, id, side, amount, out) /\ tx' = tx
        /\ given' = Paid(given, p, side, amount, out)
        /\ own' = Received(own, p, id, side, amount, out)
    BY <1>4 DEF Swap
  <2> HIDE DEF out
  <2>3. /\ IsPaid(NewReserves, Reserves, p, side, amount, out)
        /\ IsReceived(bal', bal, p, id, side, amount, out)
    BY <2>1, <2>2, ShiftReads
  <2>4. given \in [Pools -> [Sides -> Int]] /\ own \in [Pools -> [Ids -> [Sides -> Int]]]
    BY DEF TypeOK
  <2>5. /\ IsPaid(given', given, p, side, amount, out)
        /\ IsReceived(own', own, p, id, side, amount, out)
    BY <2>1, <2>2, <2>4, PaidReads, ReceivedReads
  <2>6. ASSUME NEW q \in Pools, NEW s \in Sides
        PROVE  /\ pool'[q].reserve[s] - given'[q][s] = pool[q].reserve[s] - given[q][s]
               /\ \A i \in Ids : bal'[q][i][s] - own'[q][i][s] = bal[q][i][s] - own[q][i][s]
    <3>1. pool[q].reserve[s] \in Int /\ given[q][s] \in Int
      BY <1>t DEF AmountTypes
    <3>2. pool'[q].reserve[s] - given'[q][s] = pool[q].reserve[s] - given[q][s]
      BY <2>1, <2>3, <2>5, <3>1 DEF IsPaid, NewReserves, Reserves
    <3>3. ASSUME NEW i \in Ids
          PROVE  bal'[q][i][s] - own'[q][i][s] = bal[q][i][s] - own[q][i][s]
      <4>1. bal[q][i][s] \in Int /\ own[q][i][s] \in Int
        BY <1>t DEF AmountTypes
      <4>2. QED
        BY <2>1, <2>3, <2>5, <4>1 DEF IsReceived
    <3>4. QED
      BY <3>2, <3>3
  <2>7. QuietAmounts
    BY <2>6 DEF QuietAmounts
  <2>8. QED
    BY <2>2, <2>7, QuietBooks
<1>5. ASSUME NEW id \in Ids, NEW p \in Pools, NEW name \in Pools, Link(id, p, name)
      PROVE  Booked'
  <2>1. UNCHANGED <<bal, tx, given, own>>
        /\ \A q \in Pools : pool'[q].reserve = pool[q].reserve
    BY <1>5 DEF Link, TypeOK, Pool
  <2>2. QuietAmounts
    BY <2>1 DEF QuietAmounts
  <2>3. QED
    BY <2>1, <2>2, QuietBooks
<1>6. ASSUME NEW id \in Ids, NEW p \in Pools, NEW x \in Txs, AbortExpired(id, p, x)
      PROVE  Booked'
  <2>1. tx[Home[p]][x].pool = p
    BY <1>6 DEF MisnamedAbort
  <2>2. Abort(id, p, x) /\ UNCHANGED <<given, own>>
    BY <1>6 DEF AbortExpired
  <2>3. QED
    BY <2>1, <2>2, AbortBooks
<1>7. QED
  BY <1>1, <1>2, <1>3, <1>4, <1>5, <1>6 DEF PoolCall

LEMMA LegKeepsToItsPool ==
    ASSUME LegsInTheirPools, plan' = plan, NEW e \in Exchanges, NEW x \in Txs, NEW p,
           Written(e, x, p), p \in {plan[x].local, plan[x].remote}, Home[p] = e
    PROVE  LegsInTheirPools'
BY DEF LegsInTheirPools, Written, LegRecorded

LEMMA PoolCallPools ==
    ASSUME TypeOK, LegsInTheirPools, PoolCall
    PROVE  LegsInTheirPools'
<1>1. plan' = plan
  BY DEF PoolCall, Open, SetRate, Provide, Deposit, Swap, Withdraw, Link, AbortExpired
<1>2. CASE tx' = tx
  BY <1>1, <1>2 DEF LegsInTheirPools
<1>3. ASSUME NEW id \in Ids, NEW p \in Pools, NEW x \in Txs, AbortExpired(id, p, x)
      PROVE  LegsInTheirPools'
  <2> DEFINE e == Home[p]
             t == tx[e][x]
             u == [t EXCEPT !.status = "aborted"]
  <2>1. e \in Exchanges
    BY ExchangeAssumption
  <2>2. t \in Tx /\ t.amount >= 0 /\ t # NoTx
    BY <1>3, <2>1 DEF TypeOK, AbortExpired, Abort, MayAbort, Leg, NoTx
  <2>3. u \in Tx /\ u.amount >= 0 /\ u.pool = t.pool
    BY <2>2 DEF Tx, Status
  <2>4. Record(e, x, u)
    BY <1>3 DEF AbortExpired, Abort, Reverse
  <2>5. t.pool \in {plan[x].local, plan[x].remote} /\ Home[t.pool] = e
    BY <2>1, <2>2 DEF LegsInTheirPools
  <2> HIDE DEF u
  <2>6. LegRecorded(e, x, u)
    BY <2>1, <2>3, <2>4, RecordTypes DEF LegRecorded
  <2>7. Written(e, x, t.pool)
    BY <2>3, <2>6 DEF Written
  <2>8. QED
    BY <1>1, <2>1, <2>5, <2>7, LegKeepsToItsPool
<1>4. QED
  BY <1>2, <1>3 DEF PoolCall, Open, SetRate, Provide, Deposit, Swap, Withdraw, Link

BooksInv == Booked /\ LegsInTheirPools

LEMMA StillBooks ==
    ASSUME IsFiniteSet(Txs), TypeOK, TypeOK', Booked, UNCHANGED <<pool, bal, tx, given, own>>
    PROVE  Booked'
<1>1. QuietAmounts
  BY DEF QuietAmounts
<1>2. QED
  BY <1>1, QuietBooks

\* The pools a device calls are its trade's, and the legs there are theirs.
LEMMA CallBooks ==
    ASSUME IsFiniteSet(Txs), TypeOK, TypeOK', TradeInv, BooksInv, NEW d \in Devices,
           \/ CallPrepare(d) \/ CallReceive(d) \/ CallCommitLocal(d) \/ CallCommitRemote(d)
           \/ CallAbortLocal(d) \/ CallAbortRemote(d)
    PROVE  BooksInv'
<1>1. PICK x \in Txs : dev[d].x = x
  BY DEF TypeOK
<1> DEFINE t == plan[x]
<1>2. /\ t \in Trade /\ t # NoTrade
      /\ LocalPool(d) = t.local /\ RemotePool(d) = t.remote /\ Holder(d) = t.holder
  BY <1>1, AtWork DEF CallPrepare, CallReceive, CallCommitLocal, CallCommitRemote,
                      CallAbortLocal, CallAbortRemote, LocalPool, RemotePool, Holder
<1>3. /\ t.holder \in Ids /\ t.local \in Pools /\ t.remote \in Pools /\ t.from \in Sides
      /\ t.into \in Sides /\ t.amount \in Int /\ t.expiry \in Nat
  BY <1>2 DEF Trade
<1>4. /\ Home[t.local] \in Exchanges /\ Home[t.remote] \in Exchanges
      /\ Home[t.local] # Home[t.remote]
  BY <1>2, <1>3, ExchangeAssumption DEF TradeInv, LogsOfTrades
<1>5. UNCHANGED <<plan, given, own>>
  BY DEF CallPrepare, CallReceive, CallCommitLocal, CallCommitRemote, CallAbortLocal,
         CallAbortRemote, CallAbort
<1>6. Booked /\ LegsInTheirPools
  BY DEF BooksInv
<1>7. \A e \in Exchanges :
          tx[e][x] # NoTx =>
              tx[e][x].pool \in {t.local, t.remote} /\ Home[tx[e][x].pool] = e
  BY <1>6 DEF LegsInTheirPools
<1> HIDE DEF t
<1>8. CASE UNCHANGED ledger
  <2>1. UNCHANGED <<pool, bal, tx>>
    BY <1>8 DEF ledger
  <2>2. Booked'
    BY <1>5, <1>6, <2>1, StillBooks
  <2>3. LegsInTheirPools'
    BY <1>5, <1>6, <2>1 DEF LegsInTheirPools
  <2>4. QED
    BY <2>2, <2>3 DEF BooksInv
<1>9. ASSUME NEW e \in Exchanges, NEW p, Booked', Written(e, x, p), Home[p] = e,
             p \in {t.local, t.remote}
      PROVE  BooksInv'
  BY <1>5, <1>6, <1>9, LegKeepsToItsPool DEF BooksInv, t
<1>10. CASE CallPrepare(d) /\ ~UNCHANGED ledger
  <2>1. Prepare(t.holder, t.local, x, t.from, t.amount, t.expiry)
    BY <1>1, <1>10 DEF CallPrepare, Refused, t
  <2>2. Booked' /\ Written(Home[t.local], x, t.local)
    BY <1>3, <1>5, <1>6, <2>1, PrepareBooks
  <2>3. QED
    BY <1>4, <1>9, <2>2
<1>11. CASE CallReceive(d) /\ ~UNCHANGED ledger
  <2> DEFINE paid == tx[Home[t.local]][x].out
  <2>1. PrepareReceive(t.holder, t.remote, x, t.into, paid, t.expiry, t.local)
    BY <1>1, <1>11 DEF CallReceive, Refused, t
  <2>2. Local(x) # "unknown"
    BY <1>1, <1>11 DEF TradeInv, DevicesKnow, DeviceKnows, CallReceive
  <2>3. tx[Home[t.local]][x] # NoTx
    BY <1>2, <2>2 DEF Local, Leg, NoTx, t
  <2>4. paid \in Int
    BY <1>4, <2>3 DEF TypeOK, Tx
  <2> HIDE DEF paid
  <2>5. Booked' /\ Written(Home[t.remote], x, t.remote)
    BY <1>3, <1>5, <1>6, <2>1, <2>4, ReceiveBooks
  <2>6. QED
    BY <1>4, <1>9, <2>5
<1>12. CASE (CallCommitLocal(d) \/ CallCommitRemote(d)) /\ ~UNCHANGED ledger
  <2>1. PICK e \in Exchanges : Commit(t.holder, e, x)
    BY <1>1, <1>2, <1>4, <1>12 DEF CallCommitLocal, CallCommitRemote, Refused
  <2>2. Booked' /\ Written(e, x, tx[e][x].pool) /\ tx[e][x] # NoTx
    BY <1>5, <1>6, <2>1, CommitBooks
  <2>3. QED
    BY <1>7, <1>9, <2>2
<1>13. CASE (CallAbortLocal(d) \/ CallAbortRemote(d)) /\ ~UNCHANGED ledger
  <2>1. PICK p \in {t.local, t.remote} : Abort(t.holder, p, x)
    BY <1>1, <1>2, <1>13 DEF CallAbortLocal, CallAbortRemote, CallAbort, Refused
  <2>2. p \in Pools /\ Home[p] \in Exchanges
    BY <1>3, <1>4
  <2>3. tx[Home[p]][x] # NoTx
    BY <2>1 DEF Abort, MayAbort, Leg, NoTx
  <2>4. tx[Home[p]][x].pool = p
    BY <1>4, <1>7, <2>1, <2>2, <2>3
  <2>5. Booked' /\ Written(Home[p], x, p)
    BY <1>5, <1>6, <2>1, <2>2, <2>4, AbortBooks
  <2>6. QED
    BY <1>9, <2>2, <2>5
<1>14. QED
  BY <1>8, <1>10, <1>11, <1>12, <1>13

LEMMA StepBooks ==
    ASSUME IsFiniteSet(Txs), TypeOK, TradeInv, BooksInv, [Next]_vars, ~MisnamedAbort
    PROVE  BooksInv'
<1>1. TypeOK'
  BY TypeNext
<1>2. Booked /\ LegsInTheirPools
  BY DEF BooksInv
<1>3. CASE UNCHANGED <<pool, bal, tx, given, own, plan>>
  <2>1. Booked'
    BY <1>1, <1>2, <1>3, StillBooks
  <2>2. LegsInTheirPools'
    BY <1>2, <1>3 DEF LegsInTheirPools
  <2>3. QED
    BY <2>1, <2>2 DEF BooksInv
<1>4. CASE UNCHANGED vars
  BY <1>3, <1>4 DEF vars
<1>5. CASE PoolCall
  BY <1>1, <1>2, <1>5, PoolCallBooks, PoolCallPools DEF BooksInv
<1>6. ASSUME NEW d \in Devices, DeviceCall(d) PROVE BooksInv'
  <2>1. ASSUME NEW x \in Txs, NEW t, Begin(d, x, t) PROVE BooksInv'
    <3>1. UNCHANGED <<pool, bal, tx, given, own>> /\ plan[x] = NoTrade
          /\ plan' = [plan EXCEPT ![x] = t]
      BY <2>1 DEF Begin
    <3>2. Booked'
      BY <1>1, <1>2, <3>1, StillBooks
    <3>3. \A e \in Exchanges : tx[e][x] = NoTx
      BY <3>1 DEF TradeInv, LogsOfTrades
    <3>4. \A y \in Txs \ {x} : plan'[y] = plan[y]
      BY <3>1 DEF TypeOK
    <3>5. LegsInTheirPools'
      BY <1>2, <3>1, <3>3, <3>4 DEF LegsInTheirPools
    <3>6. QED
      BY <3>2, <3>5 DEF BooksInv
  <2>2. CASE \/ ReadLocal(d) \/ ReadRemote(d) \/ Crash(d)
             \/ \E x \in Txs : Recover(d, x)
    BY <1>3, <2>2 DEF ReadLocal, ReadRemote, Crash, Recover
  <2>3. QED
    BY <1>1, <1>6, <2>1, <2>2, CallBooks DEF DeviceCall, DeviceStep
<1>7. ASSUME NEW e \in Exchanges, NextBlock(e) PROVE BooksInv'
  BY <1>3, <1>7 DEF NextBlock
<1>8. QED
  BY <1>4, <1>5, <1>6, <1>7 DEF Next

LEMMA BooksInit ==
    ASSUME IsFiniteSet(Txs), Init
    PROVE  BooksInv
<1>1. ASSUME NEW p \in Pools, NEW side \in Sides
      PROVE  LegSum(p, tx[Home[p]], side) = 0
  <2>1. \A x \in Txs : LegMoves(p, tx[Home[p]][x], side) = 0
    BY ExchangeAssumption DEF Init, LegMoves
  <2>2. [x \in Txs |-> LegMoves(p, tx[Home[p]][x], side)] = [x \in Txs |-> 0]
    BY <2>1
  <2>3. QED
    BY <2>2, SumOfNothing DEF LegSum
<1>2. ASSUME NEW p \in Pools, NEW side \in Sides, NEW id \in Ids
      PROVE  HeldSum(p, id, tx[Home[p]], side) = 0
  <2>1. \A x \in Txs : HolderMoves(p, id, tx[Home[p]][x], side) = 0
    BY ExchangeAssumption DEF Init, HolderMoves
  <2>2. [x \in Txs |-> HolderMoves(p, id, tx[Home[p]][x], side)] = [x \in Txs |-> 0]
    BY <2>1
  <2>3. QED
    BY <2>2, SumOfNothing DEF HeldSum
<1>3. Booked
  <2>1. \A p \in Pools, side \in Sides : pool[p].reserve[side] = 0 /\ given[p][side] = 0
    BY DEF Init
  <2>2. \A p \in Pools, side \in Sides, id \in Ids :
            bal[p][id][side] = 0 /\ own[p][id][side] = 0
    BY DEF Init
  <2>3. \A p \in Pools, side \in Sides : ReserveBooked(p, side)
    BY <1>1, <2>1 DEF ReserveBooked
  <2>4. \A p \in Pools, side \in Sides, id \in Ids : BalanceBooked(p, id, side)
    BY <1>2, <2>2 DEF BalanceBooked
  <2>5. QED
    BY <2>3, <2>4 DEF Booked
<1>4. LegsInTheirPools
  BY DEF Init, LegsInTheirPools
<1>5. QED
  BY <1>3, <1>4 DEF BooksInv

\* rholang-exchange.js:6-8 and 345: for any finite number of trades, and any number of shards,
\* pools, identities and devices, conservation is held per pool, as long as every abort is
\* called with the pool its leg is on (MisnamedAbort: the contract does not compare them).
THEOREM BooksAreKept ==
    ASSUME IsFiniteSet(Txs)
    PROVE  Spec /\ [][~MisnamedAbort]_vars => []Accounted
<1>1. TypeOK /\ TradeInv /\ [Next]_vars => (TypeOK /\ TradeInv)'
  BY TypeNext, TradeNext
<1>2. TypeOK /\ TradeInv /\ BooksInv /\ [Next]_vars /\ [~MisnamedAbort]_vars => BooksInv'
  <2> SUFFICES ASSUME TypeOK, TradeInv, BooksInv, [Next]_vars, [~MisnamedAbort]_vars
               PROVE  BooksInv'
    OBVIOUS
  <2>1. CASE ~MisnamedAbort
    BY <2>1, StepBooks
  <2>2. CASE UNCHANGED vars
    <3>1. TypeOK' /\ UNCHANGED <<pool, bal, tx, given, own, plan>>
      BY <2>2, TypeNext DEF vars
    <3>2. Booked'
      BY <3>1, StillBooks DEF BooksInv
    <3>3. QED
      BY <3>1, <3>2 DEF BooksInv, LegsInTheirPools
  <2>3. QED
    BY <2>1, <2>2
<1>3. BooksInv => Accounted
  BY BookedIsAccounted DEF BooksInv
<1>4. Init => BooksInv
  BY BooksInit
<1>5. QED
  BY <1>1, <1>2, <1>3, <1>4, TypeInit, InitInv, PTL DEF Spec

\* With one pool to a shard no abort can name another one, and nothing is asked of the calls.
THEOREM OnePoolBooksAreKept ==
    ASSUME IsFiniteSet(Txs), \A p, q \in Pools : Home[p] = Home[q] => p = q
    PROVE  Spec => []Accounted
<1>1. TypeOK /\ BooksInv => ~MisnamedAbort
  <2> SUFFICES ASSUME TypeOK, BooksInv, MisnamedAbort PROVE FALSE
    OBVIOUS
  <2>1. PICK id \in Ids, p \in Pools, x \in Txs :
            AbortExpired(id, p, x) /\ tx[Home[p]][x].pool # p
    BY DEF MisnamedAbort
  <2>2. Home[p] \in Exchanges /\ tx[Home[p]][x] # NoTx
    BY <2>1, ExchangeAssumption DEF AbortExpired
  <2>3. tx[Home[p]][x].pool \in Pools /\ Home[tx[Home[p]][x].pool] = Home[p]
    BY <2>2 DEF TypeOK, Tx, BooksInv, LegsInTheirPools
  <2>4. QED
    BY <2>1, <2>3
<1>2. TypeOK /\ TradeInv /\ [Next]_vars => (TypeOK /\ TradeInv)'
  BY TypeNext, TradeNext
<1>3. TypeOK /\ TradeInv /\ BooksInv /\ [Next]_vars => BooksInv'
  BY <1>1, StepBooks
<1>4. BooksInv => Accounted
  BY BookedIsAccounted DEF BooksInv
<1>5. Init => BooksInv
  BY BooksInit
<1>6. QED
  BY <1>2, <1>3, <1>4, <1>5, TypeInit, InitInv, PTL DEF Spec

=============================================================================
