-------------------------- MODULE EnclaveStoreProofs --------------------------
(***************************************************************************)
(* Proofs about the enclave's order book, for any number of orders, any    *)
(* prices and policies, any ages.                                          *)
(***************************************************************************)
EXTENDS EnclaveStore, Lemmas

-----------------------------------------------------------------------------
(* The arithmetic of a trail.                                              *)

(* Lemma.  The truncated trigger compares with a sample as the exact one   *)
(* does.                                                                   *)
LEMMA TrailExact ==
  ASSUME NEW h \in Nat, NEW b \in Bps, sample \in Nat
  PROVE  sample <= Trail(h, b) <=> Fallen(h, b)
<1> DEFINE x == h * (10000 - b)
<1>1. 10000 - b \in Nat
  BY DEF Bps
<1>2. x \in Nat
  BY <1>1
<1>3. \A y \in Nat : sample <= y \div 10000 <=> sample * 10000 <= y
  OBVIOUS
<1> HIDE DEF x
<1>4. sample <= x \div 10000 <=> sample * 10000 <= x
  BY <1>2, <1>3
<1>5. Trail(h, b) = x \div 10000
  BY DEF Trail, x
<1>6. sample <= Trail(h, b) <=> sample * 10000 <= x
  BY <1>4, <1>5
<1> QED BY <1>6 DEF x, Fallen

-----------------------------------------------------------------------------
(* The inductive invariant.                                                *)

(* Between its two critical sections the watcher's sample is the latest    *)
(* price, and every trailing order, those activated in between included,   *)
(* counts it.                                                              *)
ScanPending == (phase = "scan" /\ sample > 0) =>
  latestPrice = sample /\ \A o \in Orders : Trails(o) => sample \in since[o]

IInv == TypeOK /\ OnePolicy /\ WatermarkHighest /\ ScanPending

(* Lemma.  A new store (NewStore) satisfies the invariant.                 *)
LEMMA InitInv == Init => IInv
BY StoreAssumption DEF Init, IInv, TypeOK, OnePolicy, WatermarkHighest, ScanPending,
  Trails, Entry, Absent, NoSample, Orders

-----------------------------------------------------------------------------
(* The invariant is kept: one lemma per action.                            *)

(* Lemma.  ObservePrice keeps the invariant: a sample above a watermark is *)
(* the one about to be scanned.                                            *)
LEMMA ObserveInv ==
  ASSUME IInv, NEW p \in Prices, NEW t \in 0 .. MaxTime, ObservePrice(p, t)
  PROVE  IInv'
<1> USE DEF IInv
<1>1. p \in Nat /\ t \in Nat /\ t <= now
  BY StoreAssumption DEF ObservePrice, TypeOK
<1>2. phase = "idle" /\ phase' = "scan" /\ sample' = p /\ book' = book
  BY DEF ObservePrice
<1>3. \A o \in Orders : Trails(o)' <=> Trails(o)
  BY <1>2 DEF Trails
<1>4. CASE p > 0
  <2>1. /\ latestPrice' = p
        /\ since' = [o \in Orders |-> IF Trails(o) THEN since[o] \cup {p} ELSE since[o]]
    BY <1>4 DEF ObservePrice, Trails
  <2>2. TypeOK'
    BY <1>1, <1>4, <2>1 DEF TypeOK, ObservePrice
  <2>3. WatermarkHighest'
    BY <1>2, <1>3, <2>1 DEF WatermarkHighest, TypeOK
  <2>4. ScanPending'
    BY <1>2, <1>3, <2>1 DEF ScanPending, TypeOK
  <2>5. OnePolicy'
    BY <1>2 DEF OnePolicy
  <2> QED BY <2>2, <2>3, <2>4, <2>5
<1>5. CASE ~(p > 0)
  <2>1. UNCHANGED <<latestPrice, latestAt, since>>
    BY <1>5 DEF ObservePrice
  <2>2. TypeOK'
    BY <1>1, <2>1 DEF TypeOK, ObservePrice
  <2>3. WatermarkHighest'
    BY <1>2, <1>3, <2>1 DEF WatermarkHighest
  <2>4. ScanPending'
    BY <1>2, <1>5 DEF ScanPending
  <2>5. OnePolicy'
    BY <1>2 DEF OnePolicy
  <2> QED BY <2>2, <2>3, <2>4, <2>5
<1> QED BY <1>4, <1>5

(* Lemma.  A scan touches the watermarks of trailing orders only.          *)
LEMMA ScanEntries ==
  ASSUME TypeOK, TriggeredOrders, sample > 0
  PROVE  /\ book' \in [Orders -> Entry]
         /\ \A o \in Orders : /\ book'[o].status = book[o].status
                              /\ book'[o].trigger = book[o].trigger
                              /\ book'[o].bps = book[o].bps
                              /\ book'[o].high = IF Trails(o) /\ sample > book[o].high
                                                 THEN sample ELSE book[o].high
<1>1. book' = Raise(book, sample)
  BY DEF TriggeredOrders
<1>2. book \in [Orders -> Entry] /\ sample \in Nat
  BY DEF TypeOK
<1> QED BY <1>1, <1>2, RaiseEntry DEF Trails

(* Lemma.  TriggeredOrders keeps the invariant: the scan brings every      *)
(* watermark up to the sample ObservePrice recorded.                       *)
LEMMA ScanInv ==
  ASSUME IInv, TriggeredOrders
  PROVE  IInv'
<1> USE DEF IInv
<1>1. /\ phase = "scan" /\ phase' = "idle"
      /\ UNCHANGED <<latestPrice, latestAt, now, sample, since>>
  BY DEF TriggeredOrders
<1>2. CASE sample > 0
  <2>1. book' = Raise(book, sample) /\ triggered' = Crossed(book', sample)
    BY <1>2 DEF TriggeredOrders
  <2>2. book' \in [Orders -> Entry]
    BY <1>2, ScanEntries
  <2>4. \A o \in Orders : /\ book'[o].status = book[o].status
                          /\ book'[o].trigger = book[o].trigger
                          /\ book'[o].bps = book[o].bps
                          /\ book'[o].high = IF Trails(o) /\ sample > book[o].high
                                             THEN sample ELSE book[o].high
    BY <1>2, ScanEntries
  <2>5. OnePolicy'
    BY <2>4, <1>2 DEF OnePolicy, TypeOK
  <2>6. \A o \in Orders : book'[o].status = "open" => Effective(book'[o]) \in Nat
    <3>1. \A o \in Orders : book'[o].status = "open" =>
             book'[o].bps = 0 \/ book'[o].bps \in MinTrailBps .. MaxTrailBps
      BY <2>5 DEF OnePolicy
    <3> QED BY <2>2, <3>1, EffectiveType DEF Sound
  <2>7. triggered' \subseteq [id : Orders, trigger : Nat]
    BY <2>1, <2>2, <2>6 DEF Crossed
  <2>8. fired' \subseteq Orders
    BY <2>7 DEF TriggeredOrders, TypeOK
  <2>9. TypeOK'
    BY <1>1, <2>2, <2>7, <2>8 DEF TypeOK
  <2>10. WatermarkHighest'
    <3> SUFFICES ASSUME NEW o \in Orders, Trails(o)'
                 PROVE  book'[o].high \in since[o] /\ \A p \in since[o] : p <= book'[o].high
      BY <1>1 DEF WatermarkHighest
    <3>1. Trails(o)
      BY <2>4 DEF Trails
    <3>2. sample \in since[o] /\ book[o].high \in since[o]
      BY <1>1, <1>2, <3>1 DEF ScanPending, WatermarkHighest
    <3>3. \A p \in since[o] : p <= book[o].high \/ p = sample
      BY <3>1 DEF WatermarkHighest
    <3>4. book[o].high \in Nat /\ sample \in Nat /\ since[o] \subseteq Nat
      BY DEF TypeOK, Entry
    <3> QED BY <2>4, <3>1, <3>2, <3>3, <3>4
  <2>11. ScanPending'
    BY <1>1 DEF ScanPending
  <2> QED BY <2>5, <2>9, <2>10, <2>11
<1>3. CASE ~(sample > 0)
  <2>1. book' = book /\ triggered' = {} /\ fired' = fired
    BY <1>3 DEF TriggeredOrders
  <2>2. TypeOK' /\ OnePolicy' /\ ScanPending'
    BY <1>1, <2>1 DEF TypeOK, OnePolicy, ScanPending
  <2>3. WatermarkHighest'
    <3> SUFFICES ASSUME NEW o \in Orders, Trails(o)
                 PROVE  book[o].high \in since[o] /\ \A p \in since[o] : p <= book[o].high
      BY <1>1, <2>1 DEF WatermarkHighest, Trails
    <3>1. book[o].high \in Nat /\ sample = 0
      BY <1>3 DEF TypeOK, Entry
    <3> QED BY <3>1 DEF WatermarkHighest
  <2> QED BY <2>2, <2>3
<1> QED BY <1>2, <1>3

(* Lemma.  MarkExecuted keeps the invariant: it changes a status only.     *)
LEMMA ExecutedInv ==
  ASSUME IInv, NEW id \in Orders, Executed(id)
  PROVE  IInv'
<1> USE DEF IInv
<1>1. UNCHANGED <<latestPrice, latestAt, now, phase, sample, triggered, since, fired>>
  BY DEF Executed
<1>2. /\ book' \in [Orders -> Entry]
      /\ \A o \in Orders : /\ book'[o].trigger = book[o].trigger
                           /\ book'[o].bps = book[o].bps
                           /\ book'[o].high = book[o].high
                           /\ book'[o].status = "absent" <=> book[o].status = "absent"
                           /\ Trails(o)' => Trails(o)
  BY DEF Executed, MarkExecuted, Trails, TypeOK, Entry
<1>3. TypeOK'
  BY <1>1, <1>2 DEF TypeOK
<1>4. OnePolicy'
  BY <1>2 DEF OnePolicy
<1>5. WatermarkHighest'
  BY <1>1, <1>2 DEF WatermarkHighest
<1>6. ScanPending'
  BY <1>1, <1>2 DEF ScanPending
<1> QED BY <1>3, <1>4, <1>5, <1>6

(* Lemma.  Put keeps the invariant, between ObservePrice and               *)
(* TriggeredOrders too: the seed is the sample recorded last.              *)
LEMMA PlaceInv ==
  ASSUME IInv, NEW id \in Orders, NEW policy \in Policies, processPlaceOrder(id, policy)
  PROVE  IInv'
<1> USE DEF IInv
<1>1. UNCHANGED <<latestPrice, latestAt, now, phase, sample, triggered, fired>>
  BY DEF processPlaceOrder
<1>2. CASE CanPut(book, id, policy, TrailingReady)
  <2>1. /\ book' = Put(book, id, policy, latestPrice)
        /\ since' = [since EXCEPT ![id] = IF policy.bps > 0 THEN {latestPrice} ELSE {}]
    BY <1>2 DEF processPlaceOrder
  <2>2. policy \in [trigger : Nat, bps : Nat]
    BY StoreAssumption
  <2>3. /\ id # 0
        /\ \/ policy.trigger > 0 /\ policy.bps = 0
           \/ policy.trigger = 0 /\ policy.bps \in MinTrailBps .. MaxTrailBps /\ TrailingReady
    BY <1>2, PutAccepts DEF Orders
  <2>4. /\ book' \in [Orders -> Entry]
        /\ book'[id] = [status |-> "open", trigger |-> policy.trigger, bps |-> policy.bps,
                        high |-> IF IsTrailing(policy) THEN latestPrice ELSE 0]
        /\ \A o \in Orders \ {id} : book'[o] = book[o]
    BY <2>1, <2>2, PutEntry DEF TypeOK
  <2>5. policy.bps > 0 =>
          /\ policy.trigger = 0 /\ policy.bps \in MinTrailBps .. MaxTrailBps
          /\ latestPrice > 0 /\ book'[id].high = latestPrice /\ since'[id] = {latestPrice}
    BY <2>1, <2>2, <2>3, <2>4
       DEF TrailingReady, NoSample, IsTrailing, MinTrailBps, TypeOK
  <2>6. TypeOK'
    BY <1>1, <2>1, <2>4 DEF TypeOK
  <2>7. OnePolicy'
    BY <2>3, <2>4, <2>5 DEF OnePolicy, MinTrailBps
  <2>8. \A o \in Orders \ {id} : since'[o] = since[o] /\ (Trails(o)' <=> Trails(o))
    BY <2>1, <2>4 DEF Trails, TypeOK
  <2>9. Trails(id)' => since'[id] = {latestPrice} /\ book'[id].high = latestPrice
    BY <2>4, <2>5 DEF Trails
  <2>10. WatermarkHighest'
    BY <1>1, <2>4, <2>8, <2>9 DEF WatermarkHighest, TypeOK
  <2>11. ScanPending'
    BY <1>1, <2>8, <2>9 DEF ScanPending
  <2> QED BY <2>6, <2>7, <2>10, <2>11
<1>3. CASE ~CanPut(book, id, policy, TrailingReady)
  <2>1. UNCHANGED vars
    BY <1>1, <1>3 DEF processPlaceOrder, vars
  <2> QED BY <2>1 DEF vars, TypeOK, OnePolicy, WatermarkHighest, ScanPending, Trails
<1> QED BY <1>2, <1>3

(* Lemma.  Delete keeps the invariant.                                     *)
LEMMA DropInv ==
  ASSUME IInv, NEW id \in Orders, DropOrder(id)
  PROVE  IInv'
<1> USE DEF IInv
<1>1. UNCHANGED <<latestPrice, latestAt, now, phase, sample, triggered, fired>>
  BY DEF DropOrder
<1>2. /\ book' = [book EXCEPT ![id] = Absent] /\ since' = [since EXCEPT ![id] = {}]
      /\ Absent \in Entry /\ Absent.status = "absent"
  BY DEF DropOrder, Delete, Absent, Entry
<1>3. TypeOK'
  BY <1>1, <1>2 DEF TypeOK
<1>4. \A o \in Orders : \/ book'[o] = book[o] /\ since'[o] = since[o]
                        \/ book'[o].status = "absent"
  BY <1>2 DEF TypeOK
<1>5. OnePolicy'
  BY <1>4 DEF OnePolicy
<1>6. WatermarkHighest'
  BY <1>1, <1>4 DEF WatermarkHighest, Trails
<1>7. ScanPending'
  BY <1>1, <1>4 DEF ScanPending, Trails
<1> QED BY <1>3, <1>5, <1>6, <1>7

(* Lemma.  Every step keeps the invariant.                                 *)
LEMMA StepInv == IInv /\ [Next]_vars => IInv'
<1> SUFFICES ASSUME IInv, [Next]_vars PROVE IInv'
  OBVIOUS
<1>1. ASSUME NEW p \in Prices, NEW t \in 0 .. MaxTime, ObservePrice(p, t) PROVE IInv'
  BY <1>1, ObserveInv
<1>2. CASE TriggeredOrders
  BY <1>2, ScanInv
<1>3. ASSUME NEW o \in Orders, Executed(o) PROVE IInv'
  BY <1>3, ExecutedInv
<1>4. ASSUME NEW o \in Orders, DropOrder(o) PROVE IInv'
  BY <1>4, DropInv
<1>5. ASSUME NEW o \in Orders, NEW policy \in Policies, processPlaceOrder(o, policy) PROVE IInv'
  BY <1>5, PlaceInv
<1>6. CASE Pass
  BY <1>6 DEF Pass, IInv, TypeOK, OnePolicy, WatermarkHighest, ScanPending, Trails
<1>7. CASE UNCHANGED vars
  BY <1>7 DEF vars, IInv, TypeOK, OnePolicy, WatermarkHighest, ScanPending, Trails
<1> QED BY <1>1, <1>2, <1>3, <1>4, <1>5, <1>6, <1>7 DEF Next

(* Theorem.  The book is well typed, holds one usable policy per order and *)
(* keeps every watermark at the highest sample since activation (store.go, *)
(* Put, ObservePrice, TriggeredOrders), however the watcher's two critical *)
(* sections and the handlers interleave.                                   *)
THEOREM StoreInvariant == Spec => []IInv
<1>1. Init => IInv
  BY InitInv
<1>2. IInv /\ [Next]_vars => IInv'
  BY StepInv
<1> QED BY <1>1, <1>2, PTL DEF Spec

(* Theorem.  Type correctness of the order book.                           *)
THEOREM StoreTypes == Spec => []TypeOK
BY StoreInvariant, PTL DEF IInv

(* Theorem.  Each stored order has one usable policy (Put).                *)
THEOREM StorePolicies == Spec => []OnePolicy
BY StoreInvariant, PTL DEF IInv

(* Theorem.  Watermarks are the highest sample since activation.           *)
THEOREM StoreWatermarks == Spec => []WatermarkHighest
BY StoreInvariant, PTL DEF IInv

-----------------------------------------------------------------------------
(* What a step may do.                                                     *)

(* Lemma.  A trail Put accepts is a distance in basis points, and leaves a *)
(* part of the price.                                                      *)
LEMMA TrailRange ==
  ASSUME NEW b, b \in MinTrailBps .. MaxTrailBps
  PROVE  b \in Bps /\ 10000 - b \in Nat
<1>1. b \in Int /\ 25 <= b /\ b <= 5000
  BY DEF MinTrailBps, MaxTrailBps
<1>2. b \in 0 .. 10000 /\ 10000 - b \in Nat
  BY <1>1
<1> QED BY <1>2 DEF Bps

(* Lemma.  What is known of an open trailing order.                        *)
LEMMA TrailsFacts ==
  ASSUME TypeOK, OnePolicy, NEW o \in Orders, Trails(o)
  PROVE  /\ book[o].status = "open" /\ book[o].bps # 0 /\ book[o].high \in Nat
         /\ book[o].bps \in Bps /\ 10000 - book[o].bps \in Nat
<1>1. book[o] \in Entry
  BY DEF TypeOK
<1>2. book[o].status = "open" /\ book[o].bps # 0 /\ book[o].high \in Nat
  BY <1>1 DEF Trails, Entry
<1>3. book[o].bps \in MinTrailBps .. MaxTrailBps
  BY <1>2 DEF OnePolicy
<1> QED BY <1>2, <1>3, TrailRange

(* Lemma.  One scan fires the trailing orders whose whole trail has been   *)
(* crossed, in exact arithmetic.                                           *)
LEMMA ScanExact ==
  ASSUME IInv, TriggeredOrders, sample > 0, NEW o \in Orders, Trails(o)
  PROVE  (\E q \in triggered' : q.id = o) <=> (\E h \in since[o] : Fallen(h, book[o].bps))
<1> DEFINE b == book[o].bps
           k == 10000 - b
           high == book'[o].high
<1>1. /\ triggered' = Crossed(book', sample) /\ since' = since
      /\ phase = "scan" /\ phase' = "idle"
  BY DEF TriggeredOrders
<1>2. b # 0 /\ b \in Bps /\ k \in Nat /\ sample \in Nat /\ since[o] \subseteq Nat
  BY TrailsFacts DEF IInv, TypeOK
<1>3. /\ DOMAIN book' = Orders /\ book'[o].status = "open"
      /\ book'[o].bps = b /\ high \in Nat
  BY ScanEntries, TrailsFacts DEF IInv, Entry
<1>4. high \in since[o] /\ \A h \in since[o] : h <= high
  <2>1. WatermarkHighest'
    BY ScanInv DEF IInv
  <2>2. Trails(o)'
    BY <1>3 DEF Trails
  <2> QED BY <1>1, <2>1, <2>2 DEF WatermarkHighest
<1>5. (\E q \in triggered' : q.id = o) <=> sample <= Effective(book'[o])
  <2> DEFINE fires == {i \in DOMAIN book' : book'[i].status = "open" /\ sample <= Effective(book'[i])}
  <2>1. triggered' = {[id |-> i, trigger |-> Effective(book'[i])] : i \in fires}
    BY <1>1 DEF Crossed
  <2>2. (\E q \in triggered' : q.id = o) <=> o \in fires
    <3> HIDE DEF fires
    <3>1. ASSUME NEW q \in triggered', q.id = o PROVE o \in fires
      <4>1. PICK i \in fires : q = [id |-> i, trigger |-> Effective(book'[i])]
        BY <2>1, <3>1
      <4> QED BY <3>1, <4>1
    <3>2. ASSUME o \in fires PROVE \E q \in triggered' : q.id = o
      <4>1. [id |-> o, trigger |-> Effective(book'[o])] \in triggered'
        BY <2>1, <3>2
      <4> QED BY <4>1
    <3> QED BY <3>1, <3>2
  <2> QED BY <1>3, <2>2
<1>6. Effective(book'[o]) = Trail(high, b)
  <2>1. b # 0
    BY <1>2
  <2>2. book'[o].bps = b
    BY <1>3
  <2> QED BY <2>1, <2>2, Zenon DEF Effective
<1>7. sample <= Trail(high, b) <=> Fallen(high, b)
  <2> HIDE DEF b, k, high
  <2>1. b \in Bps /\ sample \in Nat /\ high \in Nat
    BY <1>2, <1>3
  <2> QED BY <2>1, TrailExact, Zenon
<1>8. ASSUME NEW h \in since[o], Fallen(h, b)
      PROVE  Fallen(high, b)
  <2> HIDE DEF b, high
  <2>1. h * k <= high * k
    <3> HIDE DEF k
    <3> QED BY <1>2, <1>3, <1>4, ProductMonotone
  <2>2. h * k \in Nat /\ high * k \in Nat /\ sample * 10000 \in Nat
    <3> HIDE DEF k
    <3> QED BY <1>2, <1>3
  <2>3. sample * 10000 <= h * k
    BY <1>8 DEF Fallen
  <2>4. sample * 10000 <= high * k
    <3> HIDE DEF k
    <3> QED BY <2>1, <2>2, <2>3
  <2> QED BY <2>4 DEF Fallen
<1>9. (\E h \in since[o] : Fallen(h, b)) <=> Fallen(high, b)
  BY <1>4, <1>8, Zenon
<1> QED BY <1>5, <1>6, <1>7, <1>9, Zenon

(* Theorem.  Trailing orders fire neither early nor late (TriggeredOrders),*)
(* whatever the prices and the trails.                                     *)
THEOREM StoreFiresExactly == Spec => FiresExactly
<1> DEFINE A == (phase = "scan" /\ phase' = "idle" /\ sample > 0) =>
     \A o \in Orders : Trails(o) =>
       ((\E q \in triggered' : q.id = o) <=> (\E h \in since[o] : Fallen(h, book[o].bps)))
<1>1. IInv /\ [Next]_vars => A
  <2> SUFFICES ASSUME IInv, [Next]_vars, phase = "scan", phase' = "idle", sample > 0,
                      NEW o \in Orders, Trails(o)
               PROVE  (\E q \in triggered' : q.id = o)
                        <=> (\E h \in since[o] : Fallen(h, book[o].bps))
    OBVIOUS
  <2>1. TriggeredOrders
    BY DEF Next, vars, ObservePrice, Executed, DropOrder, processPlaceOrder, Pass
  <2> QED BY <2>1, ScanExact
<1>2. Spec => []IInv
  BY StoreInvariant
<1> HIDE DEF A
<1>3. Spec => [][A]_vars
  BY <1>1, <1>2, PTL DEF Spec
<1> QED BY <1>3 DEF A, FiresExactly

(* Lemma.  One scan loosens no trigger.                                    *)
LEMMA ScanTightens ==
  ASSUME IInv, TriggeredOrders, NEW o \in Orders,
         book[o].status = "open", book'[o].status = "open"
  PROVE  /\ Effective(book[o]) <= Effective(book'[o])
         /\ book[o].bps = 0 => Effective(book[o]) = Effective(book'[o])
<1>1. book[o] \in Entry /\ (book[o].bps = 0 \/ book[o].bps \in MinTrailBps .. MaxTrailBps)
  BY DEF IInv, TypeOK, OnePolicy
<1>2. Effective(book[o]) \in Nat
  BY <1>1, EffectiveType DEF Sound
<1>3. CASE book'[o] = book[o]
  BY <1>2, <1>3
<1>4. CASE book'[o] # book[o]
  <2>0. sample \in Nat /\ sample > 0
    BY <1>4 DEF TriggeredOrders, IInv, TypeOK
  <2>1. /\ book'[o] \in Entry
        /\ book'[o].status = book[o].status /\ book'[o].trigger = book[o].trigger
        /\ book'[o].bps = book[o].bps
        /\ book'[o].high = IF Trails(o) /\ sample > book[o].high THEN sample ELSE book[o].high
    BY <2>0, ScanEntries DEF IInv
  <2>2. Trails(o) /\ sample > book[o].high /\ book'[o].high = sample
    BY <1>1, <1>4, <2>1 DEF Entry
  <2>3. book[o].bps # 0 /\ book[o].bps \in Bps /\ book[o].high \in Nat
    BY <2>2, TrailsFacts DEF IInv
  <2>4. book[o].high <= sample
    BY <2>0, <2>2, <2>3
  <2>5. Trail(book[o].high, book[o].bps) <= Trail(sample, book[o].bps)
    BY <2>0, <2>3, <2>4, TrailMonotone, Zenon
  <2>6. Effective(book[o]) <= Effective(book'[o])
    BY <2>1, <2>2, <2>3, <2>5, Zenon DEF Effective
  <2> QED BY <2>3, <2>6
<1> QED BY <1>3, <1>4

(* Theorem.  An order's trigger never loosens while it stays open          *)
(* (TriggeredOrders, Put, Delete, MarkExecuted).                           *)
THEOREM StoreTriggerNeverLoosens == Spec => TriggerNeverLoosens
<1> DEFINE A == \A o \in Orders :
     (book[o].status = "open" /\ book'[o].status = "open") =>
       /\ Effective(book[o]) <= Effective(book'[o])
       /\ book[o].bps = 0 => Effective(book[o]) = Effective(book'[o])
<1>1. IInv /\ [Next]_vars => A
  <2> SUFFICES ASSUME IInv, [Next]_vars, NEW o \in Orders,
                      book[o].status = "open", book'[o].status = "open"
               PROVE  /\ Effective(book[o]) <= Effective(book'[o])
                      /\ book[o].bps = 0 => Effective(book[o]) = Effective(book'[o])
    OBVIOUS
  <2>1. CASE TriggeredOrders
    BY <2>1, ScanTightens
  <2>2. CASE ~TriggeredOrders
    <3>1. DOMAIN book = Orders
      BY DEF IInv, TypeOK
    <3>2. book'[o] = book[o]
      <4>1. ASSUME NEW id \in Orders, Executed(id) PROVE book'[o] = book[o]
        BY <3>1, <4>1 DEF Executed, MarkExecuted, IInv, TypeOK, Entry
      <4>2. ASSUME NEW id \in Orders, DropOrder(id) PROVE book'[o] = book[o]
        BY <3>1, <4>2 DEF DropOrder, Delete, Absent
      <4>3. ASSUME NEW id \in Orders, NEW policy \in Policies, processPlaceOrder(id, policy)
            PROVE  book'[o] = book[o]
        BY <3>1, <4>3 DEF processPlaceOrder, CanPut, Put
      <4> QED BY <2>2, <4>1, <4>2, <4>3 DEF Next, vars, ObservePrice, Pass
    <3>3. Effective(book[o]) \in Nat
      BY EffectiveType DEF Sound, IInv, TypeOK, OnePolicy
    <3> QED BY <3>2, <3>3
  <2> QED BY <2>1, <2>2
<1>2. Spec => []IInv
  BY StoreInvariant
<1> HIDE DEF A
<1>3. Spec => [][A]_vars
  BY <1>1, <1>2, PTL DEF Spec
<1> QED BY <1>3 DEF A, TriggerNeverLoosens
=============================================================================
