----------------------- MODULE SettlementWatcherProofs -----------------------
(***************************************************************************)
(* Proofs about the settlement watcher, for any number of orders, any      *)
(* prices and policies, any network: the steps of the chain, the owners    *)
(* and the instruction handlers come between any two of its own.           *)
(***************************************************************************)
EXTENDS SettlementWatcher, Lemmas

-----------------------------------------------------------------------------
(* The inductive invariant.                                                *)

(* What the goroutine is about: a broadcast, or an order it settles.       *)
Examining == {"lookup", "status", "decide", "reestimate", "resend"}
Settling  == {"estimate", "reserve", "send", "confirm", "giveUp"}
Revealing == {"reestimate", "resend", "estimate", "reserve", "send", "confirm"}

(* Where it stands: what its local variables mean at each place.           *)
AtWork ==
  /\ pc \in {"idle", "observe", "scan"} => queue = {}
  /\ pc \in {"observe", "scan"} => sample # NoSample
  /\ pc \in Examining => cur \in DOMAIN pending \ todo
  /\ pc \in Examining \cup {"reconcile"} => todo \subseteq DOMAIN pending
  /\ pc \in Settling => cur \in Orders /\ DOMAIN pending = {}

(* At most one broadcast is tracked.                                       *)
OneTracked == \A o, p \in DOMAIN pending : o = p

(* The reserved nonces are those of the tracked broadcast, or the one of   *)
(* the send under way.                                                     *)
NoncesHeld ==
  /\ \A o \in DOMAIN pending : /\ pending[o].nonce \in DOMAIN nonceOwners
                               /\ nonceOwners[pending[o].nonce] = o
  /\ pc \notin {"send", "confirm"} =>
       \A n \in DOMAIN nonceOwners : \E o \in DOMAIN pending : pending[o].nonce = n
  /\ pc \in {"send", "confirm"} =>
       \E n \in DOMAIN nonceOwners : DOMAIN nonceOwners = {n} /\ nonceOwners[n] = cur

(* A mined settlement has executed its order, and the hashes kept are      *)
(* those of the order they are kept for.                                   *)
TxsTrue ==
  /\ \A h \in DOMAIN txs : txs[h].state = "mined" => vault[txs[h].order] = "executed"
  /\ \A o \in DOMAIN pending : txs[pending[o].tx].order = o
  /\ pc = "confirm" => /\ Len(txs) \in DOMAIN txs /\ txs[Len(txs)].order = cur
                       /\ txs[Len(txs)].nonce \in DOMAIN nonceOwners

(* The book holds the sealed policies, which Put accepts.                  *)
PoliciesKept ==
  \A o \in Orders :
    /\ Sound(book[o])
    /\ book[o].status # "absent" =>
         book[o].bps = Policies[o].bps /\ book[o].trigger = Policies[o].trigger

(* From the first critical section of a tick on, new orders are seeded     *)
(* with its sample.                                                        *)
SampleLatest == pc \notin {"idle", "observe"} /\ sample # NoSample => latest = sample

(* What may still be mined is tracked, is being confirmed, or was let go.  *)
NothingLeft ==
  \A h \in DOMAIN txs : txs[h].state = "pool" =>
     \/ h \in letGo
     \/ txs[h].order \in DOMAIN pending /\ txs[h].nonce = pending[txs[h].order].nonce
     \/ pc = "confirm" /\ h = Len(txs) /\ DOMAIN pending = {}

(* The trigger t of order o may be revealed: the tick's sample crosses it, *)
(* it is the order's own if that is fixed, and it is no looser than what   *)
(* the book asks for, unless the order was put anew.                       *)
Revealable(o, t) ==
  /\ sample # NoSample /\ sample <= t
  /\ Policies[o].bps = 0 => t = Policies[o].trigger
  /\ book[o].status # "open" \/ PutAnew(o) \/ t <= Effective(book[o])
CrossedOnly ==
  /\ \A q \in queue : Revealable(q.id, q.trigger)
  /\ pc \in Revealing => Revealable(cur, offer)

IInv == /\ TypeOK /\ AtWork /\ OneTracked /\ NoncesHeld /\ TxsTrue
        /\ PoliciesKept /\ ExecutedBacked /\ SampleLatest /\ NothingLeft /\ CrossedOnly
-----------------------------------------------------------------------------
(* Maps and nonces.                                                        *)

(* Lemma.  A tracked order has the one tracked broadcast, and a settlement *)
(* under way the one reserved nonce.                                       *)
LEMMA OwnedNonce ==
  ASSUME IInv
  PROVE  /\ \A o \in DOMAIN pending : OwnedBy(o) = {pending[o].nonce}
         /\ pc \in {"send", "confirm"} =>
              \E n \in Nat : /\ DOMAIN nonceOwners = {n} /\ nonceOwners[n] = cur
                            /\ OwnedBy(cur) = {n} /\ Least(OwnedBy(cur)) = n
<1>1. ASSUME NEW o \in DOMAIN pending
      PROVE  OwnedBy(o) = {pending[o].nonce}
  <2>1. CASE pc \in {"send", "confirm"}
    BY <2>1 DEF IInv, AtWork, Settling
  <2>2. CASE pc \notin {"send", "confirm"}
    BY <2>2 DEF IInv, NoncesHeld, OneTracked, OwnedBy
  <2> QED BY <2>1, <2>2
<1>2. ASSUME pc \in {"send", "confirm"}
      PROVE  \E n \in Nat : /\ DOMAIN nonceOwners = {n} /\ nonceOwners[n] = cur
                            /\ OwnedBy(cur) = {n} /\ Least(OwnedBy(cur)) = n
  <2>1. PICK n \in DOMAIN nonceOwners : DOMAIN nonceOwners = {n} /\ nonceOwners[n] = cur
    BY <1>2 DEF IInv, NoncesHeld
  <2>2. n \in Nat
    BY <2>1 DEF IInv, TypeOK
  <2>3. OwnedBy(cur) = {n}
    BY <2>1 DEF OwnedBy
  <2>4. Least({n}) = n
    BY <2>2 DEF Least
  <2> QED BY <2>1, <2>2, <2>3, <2>4
<1> QED BY <1>1, <1>2

(* Lemma.  Between sends a nonce is reserved only for what is tracked.     *)
LEMMA NothingReserved ==
  ASSUME IInv, DOMAIN pending = {}, pc \notin {"send", "confirm"}
  PROVE  DOMAIN nonceOwners = {}
BY DEF IInv, NoncesHeld

-----------------------------------------------------------------------------
(* The invariant is kept: the chain.                                       *)

(* Lemma.  A watcher that has just started satisfies the invariant.        *)
LEMMA InitInv == Init => IInv
<1> SUFFICES ASSUME Init PROVE IInv
  OBVIOUS
<1>1. TypeOK
  <2>1. book \in [Orders -> Entry]
    BY DEF Init, Entry, Absent
  <2>2. txs \in Seq(Tx) /\ restarts \in 0 .. MaxRestarts /\ attempt \in 0 .. settleAttempts
    BY WatcherAssumption DEF Init
  <2> QED BY <2>1, <2>2 DEF Init, TypeOK, EmptyMap, NoSample, NoOrder
<1>2. AtWork /\ OneTracked /\ NoncesHeld /\ TxsTrue
  BY DEF Init, AtWork, Examining, Settling, OneTracked, NoncesHeld, TxsTrue, EmptyMap
<1>3. PoliciesKept /\ ExecutedBacked /\ SampleLatest /\ NothingLeft /\ CrossedOnly
  BY DEF Init, PoliciesKept, Sound, ExecutedBacked, SampleLatest, NothingLeft, CrossedOnly, Absent, Revealing
<1> QED BY <1>1, <1>2, <1>3 DEF IInv

(* Lemma.  A hash stands for a transaction of an order.                    *)
LEMMA TxsTyped ==
  ASSUME TypeOK
  PROVE  /\ DOMAIN txs = 1 .. Len(txs) /\ Len(txs) \in Nat
         /\ \A h \in DOMAIN txs : /\ txs[h] \in Tx
                                  /\ txs[h].order \in Orders
                                  /\ txs[h].nonce \in Nat /\ txs[h].trigger \in Nat
<1>1. txs \in Seq(Tx)
  BY DEF TypeOK
<1>2. DOMAIN txs = 1 .. Len(txs) /\ Len(txs) \in Nat /\ \A h \in DOMAIN txs : txs[h] \in Tx
  BY <1>1
<1> QED BY <1>2 DEF Tx

(* Lemma.  What is kept about a tracked broadcast.                         *)
LEMMA PendingTyped ==
  ASSUME TypeOK
  PROVE  \A o \in DOMAIN pending : /\ o \in Orders
                                   /\ pending[o] \in Pending
                                   /\ pending[o].tx \in DOMAIN txs
                                   /\ pending[o].nonce \in Nat
<1>1. \A o \in DOMAIN pending : o \in Orders /\ pending[o] \in Pending /\ pending[o].tx \in DOMAIN txs
  BY DEF TypeOK
<1> QED BY <1>1 DEF Pending

(* Lemma.  Mining a transaction keeps the invariant.                       *)
LEMMA MineInv ==
  ASSUME IInv, NEW h \in DOMAIN txs, Mine(h)
  PROVE  IInv'
<1> USE DEF IInv
<1>1. /\ Len(txs') = Len(txs) /\ DOMAIN txs' = DOMAIN txs /\ txs' \in Seq(Tx)
      /\ \A g \in DOMAIN txs : /\ txs'[g].order = txs[g].order
                               /\ txs'[g].nonce = txs[g].nonce
                               /\ txs'[g].state = "pool" => txs[g].state = "pool"
                               /\ txs'[g].state = "mined" =>
                                     \/ txs[g].state = "mined"
                                     \/ g = h /\ WouldSettle(txs[h].order, txs[h].trigger)
  <2> DEFINE ok == WouldSettle(txs[h].order, txs[h].trigger)
             new(g) == IF g = h THEN [txs[g] EXCEPT !.state = IF ok THEN "mined" ELSE "reverted"]
                       ELSE IF txs[g].nonce = chainNonce /\ txs[g].state = "pool"
                            THEN [txs[g] EXCEPT !.state = "void"] ELSE txs[g]
  <2>1. txs' = [g \in 1 .. Len(txs) |-> new(g)]
    BY TxsTyped DEF Mine
  <2>2. \A g \in DOMAIN txs : /\ new(g) \in Tx
                              /\ new(g).order = txs[g].order
                              /\ new(g).nonce = txs[g].nonce
                              /\ new(g).state = "pool" => txs[g].state = "pool"
                              /\ new(g).state = "mined" => txs[g].state = "mined" \/ (g = h /\ ok)
    <3> HIDE DEF ok
    <3> QED BY TxsTyped DEF Tx
  <2> HIDE DEF new, ok
  <2>3. txs' \in Seq(Tx) /\ Len(txs') = Len(txs) /\ DOMAIN txs' = DOMAIN txs
    BY <2>1, <2>2, TxsTyped
  <2> QED BY <2>1, <2>2, <2>3, TxsTyped DEF ok
<1>2. /\ vault' \in [Orders -> {"none", "open", "executed", "cancelled"}]
      /\ \A o \in Orders : vault[o] = "executed" => vault'[o] = "executed"
      /\ \A o \in Orders : vault'[o] = "none" => vault[o] = "none"
      /\ WouldSettle(txs[h].order, txs[h].trigger) => vault'[txs[h].order] = "executed"
  <2>1. txs[h].order \in Orders
    BY TxsTyped
  <2>2. WouldSettle(txs[h].order, txs[h].trigger) => vault[txs[h].order] = "open"
    BY DEF WouldSettle
  <2> QED BY <2>1, <2>2 DEF Mine, TypeOK
<1>3. UNCHANGED <<price, fresh, worldVars, storeVars, heldVars, nonceVars, loopVars>>
  BY DEF Mine
<1> USE DEF worldVars, storeVars, heldVars, nonceVars, loopVars
<1>4. TypeOK'
  BY <1>1, <1>2, <1>3 DEF TypeOK, Mine
<1>5. (AtWork /\ OneTracked /\ NoncesHeld /\ PoliciesKept)'
  BY <1>3 DEF AtWork, OneTracked, NoncesHeld, PoliciesKept
<1>6. TxsTrue'
  BY <1>1, <1>2, <1>3, TxsTyped, PendingTyped DEF TxsTrue
<1>7. ExecutedBacked'
  BY <1>2, <1>3 DEF ExecutedBacked
<1>8. (SampleLatest /\ CrossedOnly)'
  BY <1>3 DEF SampleLatest, CrossedOnly, Revealable, PutAnew
<1>9. NothingLeft'
  BY <1>1, <1>3 DEF NothingLeft
<1> QED BY <1>4, <1>5, <1>6, <1>7, <1>8, <1>9

(* Lemma.  The network forgets a transaction: none becomes mined.          *)
LEMMA DropInv ==
  ASSUME IInv, NEW h \in DOMAIN txs, Drop(h)
  PROVE  IInv'
<1> USE DEF IInv
<1>1. /\ Len(txs') = Len(txs) /\ DOMAIN txs' = DOMAIN txs /\ txs' \in Seq(Tx)
      /\ \A g \in DOMAIN txs : /\ txs'[g].order = txs[g].order
                               /\ txs'[g].nonce = txs[g].nonce
                               /\ txs'[g].state = "pool" => txs[g].state = "pool"
                               /\ txs'[g].state = "mined" => txs[g].state = "mined"
  <2>1. txs' = [txs EXCEPT ![h] = [txs[h] EXCEPT !.state = "void"]]
    BY DEF Drop
  <2>2. [txs[h] EXCEPT !.state = "void"] \in Tx
    BY TxsTyped DEF Tx
  <2>3. txs' \in Seq(Tx) /\ Len(txs') = Len(txs) /\ DOMAIN txs' = DOMAIN txs
    BY <2>1, <2>2, TxsTyped DEF TypeOK
  <2> QED BY <2>1, <2>2, <2>3, TxsTyped DEF Tx
<1>2. UNCHANGED <<vault, price, fresh, chainNonce, worldVars, storeVars, heldVars, nonceVars, loopVars>>
  BY DEF Drop
<1> USE DEF worldVars, storeVars, heldVars, nonceVars, loopVars
<1>3. TypeOK'
  BY <1>1, <1>2 DEF TypeOK
<1>4. (AtWork /\ OneTracked /\ NoncesHeld /\ PoliciesKept /\ ExecutedBacked)'
  BY <1>2 DEF AtWork, OneTracked, NoncesHeld, PoliciesKept, ExecutedBacked
<1>5. TxsTrue'
  BY <1>1, <1>2, TxsTyped, PendingTyped DEF TxsTrue
<1>6. (SampleLatest /\ CrossedOnly)'
  BY <1>2 DEF SampleLatest, CrossedOnly, Revealable, PutAnew
<1>7. NothingLeft'
  BY <1>1, <1>2 DEF NothingLeft
<1> QED BY <1>3, <1>4, <1>5, <1>6, <1>7

(* Lemma.  The feed moves or stalls, or the network becomes calm.          *)
LEMMA WeatherInv ==
  ASSUME IInv, (\E p \in Prices : MovePrice(p)) \/ ToggleFresh \/ BecomeCalm
  PROVE  IInv'
<1> USE DEF IInv, chainVars, worldVars, storeVars, heldVars, nonceVars, loopVars
<1>1. /\ UNCHANGED <<vault, txs, chainNonce, wire, restarts, storeVars, heldVars, nonceVars, loopVars>>
      /\ price' \in Prices /\ fresh' \in BOOLEAN /\ calm' \in BOOLEAN
  BY DEF MovePrice, ToggleFresh, BecomeCalm, TypeOK
<1>2. TypeOK'
  BY <1>1 DEF TypeOK
<1>3. (AtWork /\ OneTracked /\ NoncesHeld /\ TxsTrue /\ PoliciesKept /\ ExecutedBacked)'
  BY <1>1 DEF AtWork, OneTracked, NoncesHeld, TxsTrue, PoliciesKept, ExecutedBacked
<1>4. (SampleLatest /\ NothingLeft /\ CrossedOnly)'
  BY <1>1 DEF SampleLatest, NothingLeft, CrossedOnly, Revealable, PutAnew
<1> QED BY <1>2, <1>3, <1>4

(* Lemma.  Time passes over a tracked broadcast.                           *)
LEMMA AgeInv ==
  ASSUME IInv, NEW o \in DOMAIN pending, Age(o)
  PROVE  IInv'
<1> USE DEF IInv, chainVars, worldVars, storeVars, heldVars, nonceVars, loopVars
<1>1. /\ DOMAIN pending' = DOMAIN pending
      /\ \A p \in DOMAIN pending : /\ pending'[p] \in Pending
                                   /\ pending'[p].tx = pending[p].tx
                                   /\ pending'[p].nonce = pending[p].nonce
  BY PendingTyped DEF Age, Pending
<1>2. UNCHANGED <<chainVars, worldVars, storeVars, letGo, nonceVars, loopVars>>
  BY DEF Age
<1>3. TypeOK'
  BY <1>1, <1>2 DEF TypeOK
<1>4. (AtWork /\ OneTracked /\ PoliciesKept /\ ExecutedBacked)'
  BY <1>1, <1>2 DEF AtWork, OneTracked, PoliciesKept, ExecutedBacked
<1>5. NoncesHeld'
  BY <1>1, <1>2 DEF NoncesHeld
<1>6. TxsTrue'
  BY <1>1, <1>2 DEF TxsTrue
<1>7. (SampleLatest /\ NothingLeft /\ CrossedOnly)'
  BY <1>1, <1>2 DEF SampleLatest, NothingLeft, CrossedOnly, Revealable, PutAnew
<1> QED BY <1>3, <1>4, <1>5, <1>6, <1>7

-----------------------------------------------------------------------------
(* The owners, the handlers and a restart.                                 *)

(* Lemma.  placeOrder opens an order in the vault and nowhere else.        *)
LEMMA PlaceInv ==
  ASSUME IInv, NEW o \in Orders, PlaceOrder(o)
  PROVE  IInv'
<1> USE DEF IInv, worldVars, storeVars, heldVars, nonceVars, loopVars
<1>1. /\ UNCHANGED <<price, fresh, txs, chainNonce, calm, restarts, storeVars, heldVars, nonceVars, loopVars>>
      /\ wire' = wire \cup {[command |-> "PLACE_ORDER", id |-> o]}
      /\ vault[o] = "none" /\ vault' = [vault EXCEPT ![o] = "open"]
  BY DEF PlaceOrder
<1>2. TypeOK'
  BY <1>1 DEF TypeOK
<1>3. (AtWork /\ OneTracked /\ NoncesHeld /\ PoliciesKept)'
  BY <1>1 DEF AtWork, OneTracked, NoncesHeld, PoliciesKept
<1>4. \A p \in Orders : vault[p] = "executed" => vault'[p] = "executed"
  BY <1>1 DEF TypeOK
<1>5. TxsTrue'
  BY <1>1, <1>4, TxsTyped DEF TxsTrue
<1>6. ExecutedBacked'
  BY <1>1, <1>4 DEF ExecutedBacked
<1>7. (SampleLatest /\ NothingLeft /\ CrossedOnly)'
  BY <1>1 DEF SampleLatest, NothingLeft, CrossedOnly, Revealable, PutAnew
<1> QED BY <1>2, <1>3, <1>5, <1>6, <1>7

(* Lemma.  cancel ends an order in the vault only.                         *)
LEMMA CancelInv ==
  ASSUME IInv, NEW o \in Orders, CancelOrder(o)
  PROVE  IInv'
<1> USE DEF IInv, worldVars, storeVars, heldVars, nonceVars, loopVars
<1>1. /\ UNCHANGED <<price, fresh, txs, chainNonce, calm, restarts, storeVars, heldVars, nonceVars, loopVars>>
      /\ wire' = wire \cup {[command |-> "CANCEL_ORDER", id |-> o]}
      /\ vault[o] = "open" /\ vault' = [vault EXCEPT ![o] = "cancelled"]
  BY DEF CancelOrder
<1>2. TypeOK'
  BY <1>1 DEF TypeOK
<1>3. (AtWork /\ OneTracked /\ NoncesHeld /\ PoliciesKept)'
  BY <1>1 DEF AtWork, OneTracked, NoncesHeld, PoliciesKept
<1>4. \A p \in Orders : vault[p] = "executed" => vault'[p] = "executed"
  BY <1>1 DEF TypeOK
<1>5. TxsTrue'
  BY <1>1, <1>4, TxsTyped DEF TxsTrue
<1>6. ExecutedBacked'
  BY <1>1, <1>4 DEF ExecutedBacked
<1>7. (SampleLatest /\ NothingLeft /\ CrossedOnly)'
  BY <1>1 DEF SampleLatest, NothingLeft, CrossedOnly, Revealable, PutAnew
<1> QED BY <1>2, <1>3, <1>5, <1>6, <1>7

(* Lemma.  What the goroutine is about is an order it knows.               *)
LEMMA CurKnown ==
  ASSUME IInv, pc \in Examining \cup Settling
  PROVE  cur \in Orders
BY PendingTyped DEF IInv, AtWork

(* An order of the book stays as it is, goes, or is executed; or it is put *)
(* in with its own policy, a trail seeded by the latest sample.            *)
Keeps(o) == \/ book'[o] = book[o]
            \/ book'[o].status = "absent"
            \/ book'[o].status = "executed" /\ book[o].status = "open" /\ vault'[o] = "executed"
            \/ /\ book'[o].status = "open"
               /\ book'[o].bps = Policies[o].bps /\ book'[o].trigger = Policies[o].trigger
               /\ Policies[o].bps > 0 => book'[o].high = latest

(* Lemma.  What may be revealed remains so: under such changes of the      *)
(* book, and if nothing new is revealed.                                   *)
LEMMA CrossedKept ==
  ASSUME IInv, \A o \in Orders : Keeps(o), pc \notin {"idle", "observe"} \/ queue' = {},
         sample' = sample, queue' \subseteq queue,
         pc' \in Revealing => pc \in Revealing /\ cur' = cur /\ offer' = offer
  PROVE  CrossedOnly'
<1> USE DEF IInv
<1>1. ASSUME NEW o \in Orders, NEW t \in Nat, Revealable(o, t), pc \notin {"idle", "observe"}
      PROVE  Revealable(o, t)'
  <2>1. latest = sample
    BY <1>1 DEF SampleLatest, Revealable
  <2>2. Policies[o].bps \in Nat /\ Policies[o].trigger \in Nat
    BY WatcherAssumption
  <2>3. CASE book'[o].status # "open"
    BY <1>1, <2>3 DEF Revealable
  <2>4. CASE book'[o] = book[o]
    BY <1>1, <2>4 DEF Revealable, PutAnew
  <2>5. ASSUME book'[o].bps = Policies[o].bps, book'[o].trigger = Policies[o].trigger,
               Policies[o].bps > 0, book'[o].high = latest
        PROVE  Revealable(o, t)'
    BY <1>1, <2>1, <2>5 DEF Revealable, PutAnew
  <2>6. ASSUME book'[o].bps = Policies[o].bps, book'[o].trigger = Policies[o].trigger,
               Policies[o].bps = 0
        PROVE  Revealable(o, t)'
    <3>1. Effective(book'[o]) = t
      BY <1>1, <2>6 DEF Revealable, Effective
    <3> QED BY <1>1, <3>1 DEF Revealable
  <2> QED BY <2>2, <2>3, <2>4, <2>5, <2>6 DEF Keeps
<1>2. ASSUME NEW q \in queue'
      PROVE  Revealable(q.id, q.trigger)'
  <2>1. q \in queue /\ q.id \in Orders /\ q.trigger \in Nat /\ pc \notin {"idle", "observe"}
    BY DEF TypeOK
  <2> QED BY <1>1, <2>1 DEF CrossedOnly
<1>3. ASSUME pc' \in Revealing
      PROVE  Revealable(cur, offer)'
  <2>1. Revealable(cur, offer) /\ offer \in Nat /\ pc \notin {"idle", "observe"}
    BY <1>3 DEF CrossedOnly, Revealing, TypeOK
  <2>2. cur \in Orders
    BY <1>3, CurKnown DEF Revealing, Examining, Settling
  <2>3. cur' = cur /\ offer' = offer
    BY <1>3
  <2> QED BY <1>1, <2>1, <2>2, <2>3 DEF Revealable
<1> QED BY <1>2, <1>3 DEF CrossedOnly

(* Lemma.  PLACE_ORDER is handled, for the first time or again: an order   *)
(* the book does not have is put in with its own policy.                   *)
LEMMA ProcessPlaceInv ==
  ASSUME IInv, NEW m \in wire, ProcessPlaceOrder(m)
  PROVE  IInv'
<1> USE DEF IInv, chainVars, worldVars, heldVars, nonceVars, loopVars
<1>1. /\ m.id \in Orders
      /\ UNCHANGED <<chainVars, worldVars, latest, heldVars, nonceVars, loopVars>>
  BY DEF ProcessPlaceOrder, TypeOK
<1>2. /\ book' \in [Orders -> Entry]
      /\ \A o \in Orders \ {m.id} : book'[o] = book[o]
      /\ \/ book'[m.id] = book[m.id]
         \/ /\ Sound(book'[m.id]) /\ book'[m.id].status = "open"
            /\ book'[m.id].bps = Policies[m.id].bps /\ book'[m.id].trigger = Policies[m.id].trigger
            /\ Policies[m.id].bps > 0 => book'[m.id].high = latest
  <2>1. book \in [Orders -> Entry] /\ latest \in Nat
    BY <1>1, WatcherAssumption DEF TypeOK, NoSample
  <2>2. /\ Policies[m.id] \in [trigger : Nat, bps : Nat] /\ Sound(Policies[m.id])
        /\ Policies[m.id].bps > 0 => IsTrailing(Policies[m.id])
    BY <1>1, WatcherAssumption DEF IsFixed, IsTrailing, Sound
  <2>3. CASE book' = book
    BY <2>1, <2>3
  <2>4. CASE book' = Put(book, m.id, Policies[m.id], latest)
    <3>1. /\ book' \in [Orders -> Entry]
          /\ book'[m.id] = [status |-> "open", trigger |-> Policies[m.id].trigger,
                            bps |-> Policies[m.id].bps,
                            high |-> IF IsTrailing(Policies[m.id]) THEN latest ELSE 0]
          /\ \A o \in Orders \ {m.id} : book'[o] = book[o]
      BY <1>1, <2>1, <2>2, <2>4, PutEntry
    <3>2. /\ book'[m.id].status = "open" /\ book'[m.id].bps = Policies[m.id].bps
          /\ book'[m.id].trigger = Policies[m.id].trigger
          /\ Policies[m.id].bps > 0 => book'[m.id].high = latest
      BY <2>2, <3>1
    <3>3. Sound(book'[m.id])
      BY <2>2, <3>2 DEF Sound
    <3> QED BY <3>1, <3>2, <3>3
  <2> QED BY <2>3, <2>4 DEF ProcessPlaceOrder
<1>3. \A o \in Orders : Keeps(o)
  BY <1>2 DEF Keeps
<1>4. TypeOK'
  BY <1>1, <1>2 DEF TypeOK
<1>5. (AtWork /\ OneTracked /\ NoncesHeld /\ TxsTrue)'
  BY <1>1 DEF AtWork, OneTracked, NoncesHeld, TxsTrue
<1>6. (PoliciesKept /\ ExecutedBacked)'
  BY <1>1, <1>2 DEF PoliciesKept, ExecutedBacked
<1>7. (SampleLatest /\ NothingLeft)'
  BY <1>1 DEF SampleLatest, NothingLeft
<1>8. CrossedOnly'
  <2>1. pc \notin {"idle", "observe"} \/ queue' = {}
    BY <1>1 DEF AtWork
  <2> QED BY <1>1, <1>3, <2>1, CrossedKept
<1> QED BY <1>4, <1>5, <1>6, <1>7, <1>8

(* Lemma.  CANCEL_ORDER is handled: the order goes from the book, and a    *)
(* broadcast of it stays tracked.                                          *)
LEMMA ProcessCancelInv ==
  ASSUME IInv, NEW m \in wire, ProcessCancelOrder(m)
  PROVE  IInv'
<1> USE DEF IInv, chainVars, worldVars, heldVars, nonceVars, loopVars
<1>1. /\ m.id \in Orders /\ book' = Delete(book, m.id)
      /\ UNCHANGED <<chainVars, worldVars, latest, heldVars, nonceVars, loopVars>>
  BY DEF ProcessCancelOrder, TypeOK
<1>2. /\ book' \in [Orders -> Entry] /\ book'[m.id] = Absent
      /\ \A o \in Orders \ {m.id} : book'[o] = book[o]
  <2>1. book \in [Orders -> Entry]
    BY DEF TypeOK
  <2> QED BY <1>1, <2>1, DeleteEntry
<1>3. \A o \in Orders : book'[o] = book[o] \/ book'[o] = Absent
  BY <1>2
<1>4. \A o \in Orders : Keeps(o)
  BY <1>3 DEF Keeps, Absent
<1>5. TypeOK'
  BY <1>1, <1>2 DEF TypeOK
<1>6. (AtWork /\ OneTracked /\ NoncesHeld /\ TxsTrue)'
  BY <1>1 DEF AtWork, OneTracked, NoncesHeld, TxsTrue
<1>7. (PoliciesKept /\ ExecutedBacked)'
  BY <1>1, <1>3 DEF PoliciesKept, ExecutedBacked, Sound, Absent
<1>8. (SampleLatest /\ NothingLeft)'
  BY <1>1 DEF SampleLatest, NothingLeft
<1>9. CrossedOnly'
  <2>1. pc \notin {"idle", "observe"} \/ queue' = {}
    BY <1>1 DEF AtWork
  <2> QED BY <1>1, <1>4, <2>1, CrossedKept
<1> QED BY <1>5, <1>6, <1>7, <1>8, <1>9

(* Lemma.  A restart forgets all but the keys.                             *)
LEMMA RestartInv ==
  ASSUME IInv, Restart
  PROVE  IInv'
<1> USE DEF IInv, chainVars
<1>1. /\ UNCHANGED <<vault, price, fresh, txs, chainNonce, wire, calm>>
      /\ restarts' \in 0 .. MaxRestarts
      /\ book' = [o \in Orders |-> Absent] /\ latest' = NoSample
      /\ pending' = EmptyMap /\ letGo' = letGo \cup InPool
      /\ nonceOwners' = EmptyMap /\ nextNonce' = 0
      /\ pc' = "idle" /\ sample' = NoSample /\ queue' = {} /\ todo' = {}
      /\ cur' = NoOrder /\ attempt' = 0 /\ offer' = 0 /\ verdict' = "stuck"
  BY WatcherAssumption DEF Restart, TypeOK
<1>2. DOMAIN pending' = {} /\ DOMAIN nonceOwners' = {}
  BY <1>1 DEF EmptyMap
<1>3. TypeOK'
  <2>1. book' \in [Orders -> Entry]
    BY <1>1 DEF Entry, Absent
  <2>2. attempt' \in 0 .. settleAttempts
    BY <1>1, WatcherAssumption
  <2>3. letGo' \subseteq DOMAIN txs
    BY <1>1 DEF TypeOK, InPool
  <2> QED BY <1>1, <1>2, <2>1, <2>2, <2>3 DEF TypeOK, NoSample, NoOrder
<1>4. (AtWork /\ OneTracked /\ NoncesHeld /\ TxsTrue)'
  BY <1>1, <1>2 DEF AtWork, Examining, Settling, OneTracked, NoncesHeld, TxsTrue
<1>5. (PoliciesKept /\ ExecutedBacked)'
  BY <1>1 DEF PoliciesKept, Sound, ExecutedBacked, Absent
<1>6. (SampleLatest /\ NothingLeft /\ CrossedOnly)'
  BY <1>1, <1>2 DEF SampleLatest, NothingLeft, InPool, CrossedOnly, Revealing
<1> QED BY <1>3, <1>4, <1>5, <1>6

-----------------------------------------------------------------------------
(* The tick.                                                               *)

(* Lemma.  The price is read, or not: the tick has crossed nothing yet.    *)
LEMMA ReadInv ==
  ASSUME IInv, ReadFails \/ ReadPrice
  PROVE  IInv'
<1> USE DEF IInv, chainVars, worldVars, storeVars, heldVars, nonceVars, loopVars
<1>1. /\ pc = "idle" /\ pc' \in {"reconcile", "observe"}
      /\ pc' = "observe" => sample' # NoSample
      /\ pc' = "reconcile" => sample' = NoSample
      /\ sample' \in Prices \cup {NoSample}
      /\ queue' = {} /\ todo' \in {todo, DOMAIN pending}
      /\ pc' = "reconcile" => todo' = DOMAIN pending
      /\ UNCHANGED <<chainVars, worldVars, storeVars, heldVars, nonceVars, cur, attempt, offer, verdict>>
  <2>1. CASE ReadFails
    BY <2>1 DEF ReadFails
  <2>2. CASE ReadPrice
    BY <2>2, WatcherAssumption DEF ReadPrice, AtWork, TypeOK, NoSample
  <2> QED BY <2>1, <2>2
<1>2. TypeOK'
  BY <1>1 DEF TypeOK
<1>3. (AtWork /\ OneTracked /\ NoncesHeld /\ TxsTrue)'
  BY <1>1 DEF AtWork, Examining, Settling, OneTracked, NoncesHeld, TxsTrue
<1>4. (PoliciesKept /\ ExecutedBacked)'
  BY <1>1 DEF PoliciesKept, ExecutedBacked
<1>5. (SampleLatest /\ NothingLeft /\ CrossedOnly)'
  BY <1>1 DEF SampleLatest, NothingLeft, CrossedOnly, Revealing
<1> QED BY <1>2, <1>3, <1>4, <1>5

(* Lemma.  The store takes the sample for its latest price.                *)
LEMMA ObserveInv ==
  ASSUME IInv, Observe
  PROVE  IInv'
<1> USE DEF IInv, chainVars, worldVars, heldVars, nonceVars
<1>1. /\ pc = "observe" /\ pc' = "scan" /\ latest' = sample /\ queue = {} /\ sample # NoSample
      /\ UNCHANGED <<chainVars, worldVars, book, heldVars, nonceVars, sample, queue, todo, cur, attempt,
                     offer, verdict>>
  BY DEF Observe, AtWork
<1>2. TypeOK'
  BY <1>1 DEF TypeOK
<1>3. (AtWork /\ OneTracked /\ NoncesHeld /\ TxsTrue)'
  BY <1>1 DEF AtWork, Examining, Settling, OneTracked, NoncesHeld, TxsTrue
<1>4. (PoliciesKept /\ ExecutedBacked)'
  BY <1>1 DEF PoliciesKept, ExecutedBacked
<1>5. (SampleLatest /\ NothingLeft /\ CrossedOnly)'
  BY <1>1 DEF SampleLatest, NothingLeft, CrossedOnly, Revealing
<1> QED BY <1>2, <1>3, <1>4, <1>5

(* Lemma.  The watermarks rise, and the crossed orders are those of the    *)
(* book that results.                                                      *)
LEMMA ScanInv ==
  ASSUME IInv, Scan
  PROVE  IInv'
<1> USE DEF IInv, chainVars, worldVars, heldVars, nonceVars
<1>1. /\ pc = "scan" /\ pc' = "reconcile"
      /\ book' = Raise(book, sample) /\ queue' = Crossed(book', sample)
      /\ todo' = DOMAIN pending
      /\ UNCHANGED <<chainVars, worldVars, latest, heldVars, nonceVars, sample, cur, attempt, offer, verdict>>
  BY DEF Scan
<1>2. sample # NoSample /\ sample \in Nat /\ sample \in Prices
  BY <1>1, WatcherAssumption DEF AtWork, TypeOK
<1>3. /\ book' \in [Orders -> Entry]
      /\ \A o \in Orders : /\ book'[o].status = book[o].status
                           /\ book'[o].trigger = book[o].trigger
                           /\ book'[o].bps = book[o].bps
  BY <1>1, <1>2, RaiseEntry DEF TypeOK
<1>4. \A o \in Orders : Sound(book'[o])
  BY <1>3 DEF Sound, PoliciesKept
<1>5. \A o \in Orders : Effective(book'[o]) \in Nat
  BY <1>3, <1>4, EffectiveType
<1>6. \A q \in queue' : /\ q.id \in Orders /\ q.trigger = Effective(book'[q.id])
                        /\ q \in [id : Orders, trigger : Nat]
                        /\ book'[q.id].status = "open" /\ sample <= q.trigger
  BY <1>1, <1>3, <1>5 DEF Crossed
<1>7. TypeOK'
  BY <1>1, <1>2, <1>3, <1>6 DEF TypeOK
<1>8. (AtWork /\ OneTracked /\ NoncesHeld /\ TxsTrue)'
  BY <1>1 DEF AtWork, Examining, Settling, OneTracked, NoncesHeld, TxsTrue
<1>9. (PoliciesKept /\ ExecutedBacked)'
  BY <1>1, <1>3, <1>4 DEF PoliciesKept, ExecutedBacked
<1>10. (SampleLatest /\ NothingLeft)'
  BY <1>1 DEF SampleLatest, NothingLeft
<1>11. CrossedOnly'
  <2>1. ASSUME NEW q \in queue'
        PROVE  Revealable(q.id, q.trigger)'
    <3>1. Effective(book'[q.id]) \in Nat
      BY <1>5, <1>6
    <3>2. Policies[q.id].bps = 0 => q.trigger = Policies[q.id].trigger
      <4>1. book[q.id].status # "absent" /\ q.id \in Orders
        BY <1>3, <1>6
      <4>2. book'[q.id].bps = Policies[q.id].bps /\ book'[q.id].trigger = Policies[q.id].trigger
        BY <1>3, <4>1 DEF PoliciesKept
      <4> QED BY <1>6, <4>2 DEF Effective
    <3> QED BY <1>1, <1>2, <1>6, <3>1, <3>2 DEF Revealable
  <2> QED BY <1>1, <2>1 DEF CrossedOnly, Revealing
<1> QED BY <1>7, <1>8, <1>9, <1>10, <1>11

(* Lemma.  The tick ends.                                                  *)
LEMMA EndInv ==
  ASSUME IInv, EndTick
  PROVE  IInv'
<1> USE DEF IInv, chainVars, worldVars, storeVars, heldVars, nonceVars, loopVars
<1>1. /\ pc = "next" /\ queue' = {} /\ pc' = "idle"
      /\ sample' = NoSample /\ cur' = NoOrder /\ attempt' = 0 /\ offer' = 0 /\ verdict' = "stuck"
      /\ UNCHANGED <<chainVars, worldVars, storeVars, heldVars, nonceVars, todo>>
  BY DEF EndTick
<1>2. TypeOK'
  BY <1>1, WatcherAssumption DEF TypeOK, NoSample, NoOrder
<1>3. (AtWork /\ OneTracked /\ NoncesHeld /\ TxsTrue)'
  BY <1>1 DEF AtWork, Examining, Settling, OneTracked, NoncesHeld, TxsTrue
<1>4. (PoliciesKept /\ ExecutedBacked)'
  BY <1>1 DEF PoliciesKept, ExecutedBacked
<1>5. (SampleLatest /\ NothingLeft /\ CrossedOnly)'
  BY <1>1 DEF SampleLatest, NothingLeft, CrossedOnly, Revealing
<1> QED BY <1>2, <1>3, <1>4, <1>5

-----------------------------------------------------------------------------
(* Reconciliation.                                                         *)

(* The watcher itself takes orders from the book, or has seen them executed*)
(* by the vault.                                                           *)
Ends(p) == \/ book'[p] = book[p]
           \/ book'[p] = Absent
           \/ /\ book'[p].status = "executed" /\ book'[p].bps = book[p].bps
              /\ book'[p].trigger = book[p].trigger
              /\ book[p].status = "open" /\ vault[p] = "executed"

(* Lemma.  MarkExecuted ends one order, if the vault executed it.          *)
LEMMA MarkEnds ==
  ASSUME IInv, NEW o \in Orders, vault[o] = "executed", book' = MarkExecuted(book, o)
  PROVE  book' \in [Orders -> Entry] /\ \A p \in Orders : Ends(p)
<1>1. book \in [Orders -> Entry]
  BY DEF IInv, TypeOK
<1>2. book' \in [Orders -> Entry]
  BY <1>1, MarkEntry
<1>3. CASE book[o].status # "open"
  BY <1>1, <1>3 DEF MarkExecuted, Ends
<1>4. CASE book[o].status = "open"
  <2>1. book' = [book EXCEPT ![o] = [book[o] EXCEPT !.status = "executed"]]
    BY <1>4 DEF MarkExecuted
  <2>2. book[o] \in Entry
    BY <1>1
  <2>3. /\ book'[o].status = "executed" /\ book'[o].bps = book[o].bps
        /\ book'[o].trigger = book[o].trigger
    BY <1>1, <2>1, <2>2 DEF Entry
  <2> QED BY <1>1, <1>2, <1>4, <2>1, <2>3 DEF Ends
<1> QED BY <1>2, <1>3, <1>4

(* Lemma.  Delete ends one order.                                          *)
LEMMA DeleteEnds ==
  ASSUME IInv, NEW o \in Orders, book' = Delete(book, o)
  PROVE  book' \in [Orders -> Entry] /\ \A p \in Orders : Ends(p)
<1>1. book \in [Orders -> Entry]
  BY DEF IInv, TypeOK
<1>2. /\ book' \in [Orders -> Entry] /\ book'[o] = Absent
      /\ \A p \in Orders \ {o} : book'[p] = book[p]
  BY <1>1, DeleteEntry
<1> QED BY <1>2 DEF Ends

(* Lemma.  What the clauses about the book keep of it.                     *)
LEMMA EndsInv ==
  ASSUME IInv, \A p \in Orders : Ends(p), UNCHANGED <<vault, latest, sample, queue, offer>>,
         pc \notin {"idle", "observe"},
         pc' \in Revealing => pc \in Revealing /\ cur' = cur
  PROVE  (PoliciesKept /\ ExecutedBacked /\ SampleLatest /\ CrossedOnly)'
<1> USE DEF IInv
<1>1. \A p \in Orders : Keeps(p)
  BY DEF Keeps, Ends, Absent
<1>2. PoliciesKept'
  BY DEF PoliciesKept, Ends, Sound, Absent
<1>3. ExecutedBacked'
  BY DEF ExecutedBacked, Ends, Absent
<1>4. SampleLatest'
  BY DEF SampleLatest
<1>5. CrossedOnly'
  BY <1>1, CrossedKept
<1> QED BY <1>2, <1>3, <1>4, <1>5

(* Lemma.  Forgetting the tracked broadcast leaves no reservation behind.  *)
LEMMA ForgetAll ==
  ASSUME IInv, NEW o \in DOMAIN pending, NEW c, Forget(o, c)
  PROVE  /\ DOMAIN pending' = {} /\ DOMAIN nonceOwners' = {} /\ nextNonce' \in Nat
         /\ pc \notin Settling
<1> USE DEF IInv
<1>1. DOMAIN pending = {o} /\ pc \notin Settling
  BY DEF OneTracked, AtWork
<1>2. DOMAIN pending' = {}
  BY <1>1 DEF Forget, Without
<1>3. /\ pending[o].nonce \in DOMAIN nonceOwners /\ nonceOwners[pending[o].nonce] = o
      /\ DOMAIN nonceOwners = {pending[o].nonce}
  BY <1>1 DEF NoncesHeld, Settling
<1>4. DOMAIN nonceOwners' = {}
  BY <1>3 DEF Forget, ReleaseNonce, Without
<1>5. nextNonce' \in Nat
  BY <1>3, PendingTyped DEF Forget, ReleaseNonce, TypeOK
<1> QED BY <1>1, <1>2, <1>4, <1>5

(* Lemma.  The steps that forget a broadcast keep the invariant.           *)
LEMMA ForgetInv ==
  ASSUME IInv, NEW o \in DOMAIN pending, NEW c, Forget(o, c),
         book' \in [Orders -> Entry], \A p \in Orders : Ends(p),
         UNCHANGED <<chainVars, worldVars, latest, sample, queue, cur, attempt, offer, verdict>>,
         todo' \subseteq todo \ {o}, pc' = "reconcile", pc \in Examining \cup {"reconcile"}
  PROVE  IInv'
<1> USE DEF IInv, chainVars, worldVars
<1>1. DOMAIN pending' = {} /\ DOMAIN nonceOwners' = {} /\ nextNonce' \in Nat
  BY ForgetAll
<1>2. todo' = {} /\ todo' \subseteq Orders
  BY DEF AtWork, OneTracked
<1>3. letGo' = letGo \cup {h \in InPool : txs[h].nonce = pending[o].nonce} /\ txs' = txs
  BY DEF Forget
<1>4. TypeOK'
  BY <1>1, <1>2, <1>3 DEF TypeOK, InPool
<1>5. (AtWork /\ OneTracked /\ NoncesHeld /\ TxsTrue)'
  BY <1>1, <1>2 DEF AtWork, Examining, Settling, OneTracked, NoncesHeld, TxsTrue
<1>6. (PoliciesKept /\ ExecutedBacked /\ SampleLatest /\ CrossedOnly)'
  BY EndsInv DEF Revealing, Examining
<1>7. NothingLeft'
  <2>1. DOMAIN pending = {o} /\ pc # "confirm"
    BY DEF OneTracked, Examining
  <2> QED BY <1>3, <2>1 DEF NothingLeft, InPool
<1> QED BY <1>4, <1>5, <1>6, <1>7

(* Lemma.  The steps that examine a broadcast, or replace it, and keep it  *)
(* tracked: the transactions so far stay, and a new one is not mined yet.  *)
LEMMA ExamineInv ==
  ASSUME IInv, pc \in Examining \cup {"reconcile"}, pc' \in Examining \cup {"reconcile", "next"},
         UNCHANGED <<vault, price, fresh, chainNonce, worldVars, storeVars, nextNonce, sample, queue, attempt>>,
         DOMAIN nonceOwners' = DOMAIN nonceOwners,
         \A n \in DOMAIN nonceOwners : nonceOwners'[n] = nonceOwners[n],
         txs' \in Seq(Tx), DOMAIN txs \subseteq DOMAIN txs',
         \A h \in DOMAIN txs : txs'[h] = txs[h],
         \A h \in DOMAIN txs' \ DOMAIN txs :
           /\ txs'[h].state # "mined"
           /\ txs'[h].order \in DOMAIN pending /\ txs'[h].nonce = pending[txs'[h].order].nonce,
         letGo' = letGo, DOMAIN pending' = DOMAIN pending,
         \A o \in DOMAIN pending :
           /\ pending'[o] \in Pending /\ pending'[o].nonce = pending[o].nonce
           /\ pending'[o].tx \in DOMAIN txs' /\ txs'[pending'[o].tx].order = o,
         todo' \subseteq todo, pc' \in Examining => cur' \in DOMAIN pending \ todo',
         cur' \in {cur} \cup DOMAIN pending,
         offer' \in Nat, verdict' \in {"stuck", "dropped", "minedNoReceipt"},
         pc' \in Revealing => Revealable(cur', offer')
  PROVE  IInv'
<1> USE DEF IInv, worldVars, storeVars
<1>1. TypeOK'
  BY PendingTyped DEF TypeOK, Examining
<1>2. (AtWork /\ OneTracked)'
  BY DEF AtWork, Examining, Settling, OneTracked
<1>3. NoncesHeld'
  <2>1. pc \notin {"send", "confirm"} /\ pc' \notin {"send", "confirm"}
    BY DEF Examining
  <2>2. \A n \in DOMAIN nonceOwners : \E o \in DOMAIN pending : pending[o].nonce = n
    BY <2>1 DEF NoncesHeld
  <2>4. \A n \in DOMAIN nonceOwners' : \E o \in DOMAIN pending' : pending'[o].nonce = n
    BY <2>2
  <2>5. \A o \in DOMAIN pending' : /\ pending'[o].nonce \in DOMAIN nonceOwners'
                                  /\ nonceOwners'[pending'[o].nonce] = o
    <3> TAKE o \in DOMAIN pending'
    <3>1. /\ pending[o].nonce \in DOMAIN nonceOwners /\ nonceOwners[pending[o].nonce] = o
          /\ pending'[o].nonce = pending[o].nonce
      BY DEF NoncesHeld
    <3> QED BY <3>1
  <2> QED BY <2>1, <2>4, <2>5 DEF NoncesHeld
<1>4. TxsTrue'
  BY DEF TxsTrue, Examining
<1>5. (PoliciesKept /\ ExecutedBacked)'
  BY DEF PoliciesKept, ExecutedBacked
<1>6. SampleLatest'
  BY DEF SampleLatest, Examining
<1>7. NothingLeft'
  <2>1. pc # "confirm"
    BY DEF Examining
  <2>2. ASSUME NEW h \in DOMAIN txs', txs'[h].state = "pool", h \notin letGo
        PROVE  txs'[h].order \in DOMAIN pending /\ txs'[h].nonce = pending[txs'[h].order].nonce
    BY <2>1, <2>2 DEF NothingLeft
  <2> QED BY <2>2 DEF NothingLeft
<1>8. CrossedOnly'
  BY DEF CrossedOnly, Revealable, PutAnew
<1> QED BY <1>1, <1>2, <1>3, <1>4, <1>5, <1>6, <1>7, <1>8

(* Lemma.  A receipt lets go of the broadcast.                             *)
LEMMA ReceiptInv ==
  ASSUME IInv, NEW o \in todo, ReceiptFound(o)
  PROVE  IInv'
<1> USE DEF IInv
<1>1. /\ pc = "reconcile" /\ pc' = "reconcile" /\ Forget(o, TRUE) /\ todo' = todo \ {o}
      /\ UNCHANGED <<chainVars, worldVars, latest, sample, queue, cur, attempt, offer, verdict>>
  BY DEF ReceiptFound
<1>2. o \in DOMAIN pending /\ o \in Orders
  BY <1>1, PendingTyped DEF AtWork
<1>3. CASE txs[pending[o].tx].state = "mined"
  <2>1. vault[o] = "executed"
    BY <1>2, <1>3, PendingTyped DEF TxsTrue
  <2>2. book' = MarkExecuted(book, o)
    BY <1>3 DEF ReceiptFound
  <2>3. book' \in [Orders -> Entry] /\ \A p \in Orders : Ends(p)
    BY <1>2, <2>1, <2>2, MarkEnds
  <2> QED BY <1>1, <1>2, <2>3, ForgetInv DEF Examining
<1>4. CASE txs[pending[o].tx].state # "mined"
  <2>1. book' = book
    BY <1>4 DEF ReceiptFound
  <2>2. book' \in [Orders -> Entry] /\ \A p \in Orders : Ends(p)
    BY <2>1 DEF TypeOK, Ends
  <2> QED BY <1>1, <1>2, <2>2, ForgetInv DEF Examining
<1> QED BY <1>3, <1>4

(* Lemma.  The vault's word is taken on a broadcast without a receipt.     *)
LEMMA VaultInv ==
  ASSUME IInv, VaultExecuted \/ VaultClosed \/ VaultOpen
  PROVE  IInv'
<1> USE DEF IInv
<1>1. pc = "status" /\ cur \in DOMAIN pending \ todo /\ cur \in Orders
  BY PendingTyped DEF AtWork, Examining, VaultExecuted, VaultClosed, VaultOpen
<1>2. todo \subseteq todo \ {cur}
  BY <1>1
<1>3. CASE VaultExecuted
  <2>1. /\ pc' = "reconcile" /\ Forget(cur, verdict = "minedNoReceipt")
        /\ vault[cur] = "executed" /\ book' = MarkExecuted(book, cur)
        /\ UNCHANGED <<chainVars, worldVars, latest, sample, queue, todo, cur, attempt, offer, verdict>>
    BY <1>3 DEF VaultExecuted
  <2>2. book' \in [Orders -> Entry] /\ \A p \in Orders : Ends(p)
    BY <1>1, <2>1, MarkEnds
  <2> QED BY <1>1, <1>2, <2>1, <2>2, ForgetInv DEF Examining
<1>4. CASE VaultClosed
  <2>1. /\ pc' = "reconcile" /\ Forget(cur, verdict = "minedNoReceipt")
        /\ book' = Delete(book, cur)
        /\ UNCHANGED <<chainVars, worldVars, latest, sample, queue, todo, cur, attempt, offer, verdict>>
    BY <1>4 DEF VaultClosed
  <2>2. book' \in [Orders -> Entry] /\ \A p \in Orders : Ends(p)
    BY <1>1, <2>1, DeleteEnds
  <2> QED BY <1>1, <1>2, <2>1, <2>2, ForgetInv DEF Examining
<1>5. CASE VaultOpen /\ verdict = "minedNoReceipt"
  <2>1. /\ pc' = "reconcile" /\ Forget(cur, TRUE)
        /\ UNCHANGED <<chainVars, worldVars, storeVars, sample, queue, todo, cur, attempt, offer, verdict>>
    BY <1>5 DEF VaultOpen
  <2>2. latest' = latest /\ book' \in [Orders -> Entry] /\ \A p \in Orders : Ends(p)
    BY <2>1 DEF storeVars, TypeOK, Ends
  <2> QED BY <1>1, <1>2, <2>1, <2>2, ForgetInv DEF Examining
<1>6. CASE VaultOpen /\ verdict # "minedNoReceipt"
  <2>1. /\ pc' = "decide"
        /\ UNCHANGED <<chainVars, worldVars, storeVars, heldVars, nonceVars, sample, queue, todo, cur,
                       attempt, offer, verdict>>
    BY <1>6 DEF VaultOpen
  <2>2. \A o \in DOMAIN pending : txs[pending[o].tx].order = o
    BY DEF TxsTrue
  <2> QED BY <1>1, <2>1, <2>2, ExamineInv, PendingTyped DEF heldVars, Examining, Revealing, chainVars, nonceVars, TypeOK
<1> QED BY <1>3, <1>4, <1>5, <1>6

(* Lemma.  Lookups of a broadcast change what is remembered of it only.    *)
LEMMA LookupInv ==
  ASSUME IInv, Reconciled \/ (\E o \in todo : ReceiptMissing(o)) \/ KeepPending
               \/ LookupPending \/ LookupMined \/ LookupMissing
  PROVE  IInv'
<1> USE DEF IInv, chainVars, nonceVars
<1>1. \A o \in DOMAIN pending : txs[pending[o].tx].order = o
  BY DEF TxsTrue
<1>2. pc \in Examining => cur \in DOMAIN pending \ todo
  BY DEF AtWork
<1>3. pc = "reconcile" => todo \subseteq DOMAIN pending
  BY DEF AtWork
<1>4. CASE Reconciled
  BY <1>1, <1>4, ExamineInv, PendingTyped DEF heldVars, Reconciled, Examining, Revealing, TypeOK
<1>5. ASSUME NEW o \in todo, ReceiptMissing(o) PROVE IInv'
  BY <1>1, <1>3, <1>5, ExamineInv, PendingTyped DEF heldVars, ReceiptMissing, Examining, Revealing, TypeOK
<1>6. CASE KeepPending \/ LookupMined
  BY <1>1, <1>2, <1>6, ExamineInv, PendingTyped DEF heldVars, KeepPending, LookupMined, Examining, Revealing, TypeOK
<1>7. CASE LookupPending \/ LookupMissing
  <2>1. /\ pc = "lookup" /\ pc' \in {"reconcile", "status"}
        /\ verdict' \in {verdict, "stuck", "dropped"}
        /\ UNCHANGED <<chainVars, worldVars, storeVars, letGo, nonceVars, sample, queue, todo, cur, attempt, offer>>
        /\ \E k \in 0 .. pendingDropChecks : pending' = [pending EXCEPT ![cur].misses = k]
    <3>1. cur \in DOMAIN pending /\ pc = "lookup"
      BY <1>2, <1>7 DEF LookupPending, LookupMissing, Examining
    <3>2. pending[cur].misses \in 0 .. pendingDropChecks
      BY <3>1, PendingTyped DEF Pending
    <3>3. CASE LookupPending
      <4>1. pending' = [pending EXCEPT ![cur].misses = 0] /\ 0 \in 0 .. pendingDropChecks
        BY <3>3, WatcherAssumption DEF LookupPending
      <4>2. \E k \in 0 .. pendingDropChecks : pending' = [pending EXCEPT ![cur].misses = k]
        BY <4>1
      <4> QED BY <3>1, <3>3, <4>2 DEF LookupPending
    <3>4. CASE LookupMissing
      <4> DEFINE m == pending[cur].misses + 1
                 k == IF m > pendingDropChecks THEN pendingDropChecks ELSE m
      <4>1. pending' = [pending EXCEPT ![cur].misses = k] /\ k \in 0 .. pendingDropChecks
        BY <3>2, <3>4, WatcherAssumption DEF LookupMissing
      <4>2. \E j \in 0 .. pendingDropChecks : pending' = [pending EXCEPT ![cur].misses = j]
        BY <4>1
      <4> QED BY <3>1, <3>4, <4>2 DEF LookupMissing
    <3> QED BY <1>7, <3>3, <3>4
  <2>2. /\ DOMAIN pending' = DOMAIN pending
        /\ \A o \in DOMAIN pending : /\ pending'[o] \in Pending
                                     /\ pending'[o].nonce = pending[o].nonce
                                     /\ pending'[o].tx = pending[o].tx
    BY <2>1, PendingTyped DEF Pending
  <2> QED BY <1>1, <1>2, <2>1, <2>2, ExamineInv, PendingTyped DEF Examining, Revealing, TypeOK
<1> QED BY <1>4, <1>5, <1>6, <1>7

(* Lemma.  What is decided about an unmined broadcast: a replacement       *)
(* reveals the trigger the book has now.                                   *)
LEMMA DecideInv ==
  ASSUME IInv, DecideActive \/ DecideInactive
  PROVE  IInv'
<1> USE DEF IInv
<1>1. pc = "decide" /\ cur \in DOMAIN pending \ todo /\ cur \in Orders
  BY PendingTyped DEF AtWork, Examining, DecideActive, DecideInactive
<1>2. \A o \in DOMAIN pending : txs[pending[o].tx].order = o
  BY DEF TxsTrue
<1>3. CASE DecideActive
  <2>1. /\ pc' = "reestimate" /\ offer' = Effective(book[cur])
        /\ sample # NoSample /\ sample <= offer' /\ book[cur].status = "open"
        /\ UNCHANGED <<chainVars, worldVars, storeVars, heldVars, nonceVars, sample, queue, todo, cur,
                       attempt, verdict>>
    BY <1>3 DEF DecideActive, Active, HasTrigger
  <2>2. offer' \in Nat
    BY <1>1, <2>1, EffectiveType DEF PoliciesKept, TypeOK
  <2>3. Revealable(cur', offer')
    <3>1. book[cur].bps = Policies[cur].bps /\ book[cur].trigger = Policies[cur].trigger
      BY <1>1, <2>1 DEF PoliciesKept
    <3>2. Policies[cur].bps = 0 => offer' = Policies[cur].trigger
      BY <2>1, <3>1 DEF Effective
    <3> QED BY <2>1, <2>2, <3>2 DEF Revealable
  <2> QED BY <1>1, <1>2, <2>1, <2>2, <2>3, ExamineInv, PendingTyped DEF heldVars, Examining, chainVars, nonceVars, TypeOK
<1>4. CASE DecideInactive /\ verdict = "dropped" /\ sample # NoSample
  <2>1. /\ pc' = "reconcile" /\ Forget(cur, FALSE)
        /\ UNCHANGED <<chainVars, worldVars, storeVars, sample, queue, todo, cur, attempt, offer, verdict>>
    BY <1>4 DEF DecideInactive
  <2>2. latest' = latest /\ book' \in [Orders -> Entry] /\ \A p \in Orders : Ends(p)
    BY <2>1 DEF storeVars, TypeOK, Ends
  <2> QED BY <1>1, <2>1, <2>2, ForgetInv DEF Examining
<1>5. CASE DecideInactive /\ ~(verdict = "dropped" /\ sample # NoSample)
  <2>1. /\ pc' = "reconcile"
        /\ UNCHANGED <<chainVars, worldVars, storeVars, heldVars, nonceVars, sample, queue, todo, cur,
                       attempt, offer, verdict>>
    BY <1>5 DEF DecideInactive
  <2> QED BY <1>1, <1>2, <2>1, ExamineInv, PendingTyped
             DEF heldVars, Examining, Revealing, chainVars, nonceVars, TypeOK
<1> QED BY <1>3, <1>4, <1>5

(* Lemma.  The replacement claims the nonce its broadcast holds already.   *)
LEMMA ReplaceInv ==
  ASSUME IInv, ReplaceFails \/ ReplaceEstimated
  PROVE  IInv'
<1> USE DEF IInv, chainVars
<1>1. /\ pc = "reestimate" /\ pc' \in {"reconcile", "resend"}
      /\ Claim(pending[cur].nonce)
      /\ UNCHANGED <<chainVars, worldVars, storeVars, heldVars, nextNonce, sample, queue, todo, cur,
                     attempt, offer, verdict>>
  BY DEF ReplaceFails, ReplaceEstimated
<1>2. cur \in DOMAIN pending \ todo
  BY <1>1 DEF AtWork, Examining
<1>3. pending[cur].nonce \in DOMAIN nonceOwners /\ nonceOwners[pending[cur].nonce] = cur
  BY <1>2 DEF NoncesHeld
<1>4. /\ DOMAIN nonceOwners' = DOMAIN nonceOwners
      /\ \A n \in DOMAIN nonceOwners : nonceOwners'[n] = nonceOwners[n]
  BY <1>1, <1>3 DEF Claim, Claimable, With
<1>5. Revealable(cur, offer)
  BY <1>1 DEF CrossedOnly, Revealing
<1>6. \A o \in DOMAIN pending : txs[pending[o].tx].order = o
  BY DEF TxsTrue
<1> QED BY <1>1, <1>2, <1>4, <1>5, <1>6, ExamineInv, PendingTyped DEF heldVars, Examining, TypeOK

(* Lemma.  A broadcast appends one transaction that is not mined.          *)
LEMMA Appended ==
  ASSUME TypeOK, NEW n \in Nat, NEW o \in Orders, NEW t \in Nat, NEW s \in {"pool", "void"},
         txs' = Append(txs, Signed(n, o, t, s))
  PROVE  /\ txs' \in Seq(Tx) /\ Len(txs') = Len(txs) + 1 /\ Len(txs) \in Nat
         /\ DOMAIN txs' = DOMAIN txs \cup {Len(txs) + 1}
         /\ \A h \in DOMAIN txs : txs'[h] = txs[h]
         /\ Len(txs) + 1 \notin DOMAIN txs
         /\ txs'[Len(txs) + 1] = Signed(n, o, t, s)
         /\ txs'[Len(txs) + 1].order = o /\ txs'[Len(txs) + 1].state = s
         /\ txs'[Len(txs) + 1].nonce = n
<1>1. /\ Signed(n, o, t, s) \in Tx /\ Signed(n, o, t, s).order = o
      /\ Signed(n, o, t, s).state = s /\ Signed(n, o, t, s).nonce = n
  BY DEF Signed, Tx
<1>2. txs \in Seq(Tx)
  BY DEF TypeOK
<1> HIDE DEF Signed
<1> QED BY <1>1, <1>2

(* Lemma.  The replacement is broadcast, or may have been.                 *)
LEMMA ResendInv ==
  ASSUME IInv, ResendAccepted \/ ResendFails
  PROVE  IInv'
<1> USE DEF IInv, nonceVars
<1>1. /\ pc = "resend" /\ pc' = "reconcile"
      /\ UNCHANGED <<letGo, vault, price, fresh, chainNonce, worldVars, storeVars, nonceVars, sample, queue,
                     todo, cur, attempt, offer, verdict>>
  BY DEF ResendAccepted, ResendFails, heldVars
<1>2. cur \in DOMAIN pending \ todo /\ cur \in Orders /\ pending[cur].nonce \in Nat
  BY <1>1, PendingTyped DEF AtWork, Examining
<1>3. offer \in Nat
  BY DEF TypeOK
<1>4. \A o \in DOMAIN pending : txs[pending[o].tx].order = o
  BY DEF TxsTrue
<1>5. CASE ResendAccepted
  <2>1. /\ txs' = Append(txs, Signed(pending[cur].nonce, cur, offer, "pool"))
        /\ pending' = [pending EXCEPT ![cur] = Broadcast(Len(txs) + 1, pending[cur].nonce)]
    BY <1>5 DEF ResendAccepted
  <2>2. /\ txs' \in Seq(Tx) /\ Len(txs') = Len(txs) + 1 /\ Len(txs) \in Nat
        /\ DOMAIN txs' = DOMAIN txs \cup {Len(txs) + 1}
        /\ \A h \in DOMAIN txs : txs'[h] = txs[h]
        /\ Len(txs) + 1 \notin DOMAIN txs
        /\ txs'[Len(txs) + 1].order = cur /\ txs'[Len(txs) + 1].state = "pool"
        /\ txs'[Len(txs) + 1].nonce = pending[cur].nonce
    BY <1>2, <1>3, <2>1, Appended
  <2>3. /\ Broadcast(Len(txs) + 1, pending[cur].nonce) \in Pending
        /\ Broadcast(Len(txs) + 1, pending[cur].nonce).tx = Len(txs) + 1
        /\ Broadcast(Len(txs) + 1, pending[cur].nonce).nonce = pending[cur].nonce
    BY <1>2, <2>2, WatcherAssumption DEF Broadcast, Pending
  <2>4. /\ DOMAIN pending' = DOMAIN pending
        /\ \A o \in DOMAIN pending :
             /\ pending'[o] \in Pending /\ pending'[o].nonce = pending[o].nonce
             /\ pending'[o].tx \in DOMAIN txs' /\ txs'[pending'[o].tx].order = o
    BY <1>2, <1>4, <2>1, <2>2, <2>3, PendingTyped
  <2> QED BY <1>1, <1>2, <1>3, <2>2, <2>4, ExamineInv DEF Examining, Revealing, TypeOK
<1>6. CASE ResendFails
  <2>1. \/ txs' = txs
        \/ txs' = Append(txs, Signed(pending[cur].nonce, cur, offer, "pool"))
    BY <1>6 DEF ResendFails
  <2>2. /\ txs' \in Seq(Tx) /\ DOMAIN txs \subseteq DOMAIN txs'
        /\ \A h \in DOMAIN txs : txs'[h] = txs[h]
        /\ \A h \in DOMAIN txs' \ DOMAIN txs :
             /\ txs'[h].state # "mined"
             /\ txs'[h].order \in DOMAIN pending /\ txs'[h].nonce = pending[txs'[h].order].nonce
    <3>1. CASE txs' = txs
      BY <3>1 DEF TypeOK
    <3>2. CASE txs' = Append(txs, Signed(pending[cur].nonce, cur, offer, "pool"))
      BY <1>2, <1>3, <3>2, Appended
    <3> QED BY <2>1, <3>1, <3>2
  <2>3. pending' = pending
    BY <1>6 DEF ResendFails, heldVars
  <2> QED BY <1>1, <1>2, <1>3, <1>4, <2>2, <2>3, ExamineInv, PendingTyped DEF Examining, Revealing, TypeOK
<1> QED BY <1>5, <1>6

-----------------------------------------------------------------------------
(* The settle loop.                                                        *)

(* Lemma.  The steps of the loop between two sends: nothing is tracked and *)
(* no nonce reserved.                                                      *)
LEMMA LoopInv ==
  ASSUME IInv, DOMAIN pending = {}, pc \in {"next", "estimate", "reserve", "giveUp"},
         pc' \in {"next", "estimate", "reserve", "giveUp"},
         UNCHANGED <<chainVars, worldVars, storeVars, heldVars, nonceVars, sample, todo, verdict>>,
         queue' \subseteq queue, attempt' \in 0 .. settleAttempts, offer' \in Nat,
         cur' \in Orders \cup {NoOrder}, pc' \in Settling => cur' \in Orders,
         pc' \in Revealing => Revealable(cur', offer')
  PROVE  IInv'
<1> USE DEF IInv, chainVars, worldVars, storeVars, heldVars, nonceVars
<1>1. DOMAIN nonceOwners = {}
  BY NothingReserved
<1>2. TypeOK'
  BY DEF TypeOK
<1>3. (AtWork /\ OneTracked /\ NoncesHeld /\ TxsTrue)'
  BY <1>1 DEF AtWork, Examining, Settling, OneTracked, NoncesHeld, TxsTrue
<1>4. (PoliciesKept /\ ExecutedBacked)'
  BY DEF PoliciesKept, ExecutedBacked
<1>5. (SampleLatest /\ NothingLeft)'
  BY DEF SampleLatest, NothingLeft
<1>6. CrossedOnly'
  BY DEF CrossedOnly, Revealable, PutAnew
<1> QED BY <1>2, <1>3, <1>4, <1>5, <1>6

(* Lemma.  A queue that is not empty has a smallest id.                    *)
LEMMA NextQueued ==
  ASSUME TypeOK, queue # {}
  PROVE  NextCrossed \in queue
<1> DEFINE ids == {q.id : q \in queue}
<1>1. ids \in SUBSET Nat /\ ids # {}
  BY WatcherAssumption DEF TypeOK, Orders
<1>2. \E n \in ids : \A m \in ids : n <= m
  BY <1>1, LeastExists
<1>3. \E q \in queue : \A r \in queue : q.id <= r.id
  BY <1>2
<1> QED BY <1>3 DEF NextCrossed

(* Lemma.  Taking an order, trying it and giving it up.                    *)
LEMMA AttemptInv ==
  ASSUME IInv, TakeOrder \/ GiveUp \/ EstimateFails \/ Estimated \/ NonceFails
  PROVE  IInv'
<1> USE DEF IInv
<1>1. DOMAIN pending = {} /\ pc \in {"next", "estimate", "reserve", "giveUp"}
  BY DEF AtWork, Settling, TakeOrder, GiveUp, EstimateFails, Estimated, NonceFails
<1>2. /\ attempt \in 0 .. settleAttempts /\ offer \in Nat /\ cur \in Orders \cup {NoOrder}
  BY DEF TypeOK
<1>3. CASE TakeOrder
  <2>1. NextCrossed \in queue
    BY <1>3, NextQueued DEF TakeOrder
  <2>2. Revealable(NextCrossed.id, NextCrossed.trigger)
    BY <2>1 DEF CrossedOnly
  <2>3. NextCrossed.id \in Orders /\ NextCrossed.trigger \in Nat
    BY <2>1 DEF TypeOK
  <2> HIDE DEF NextCrossed
  <2>4. CASE book[NextCrossed.id].status = "open"
    <3>1. /\ pc' = "estimate" /\ cur' = NextCrossed.id /\ offer' = NextCrossed.trigger /\ attempt' = 1
          /\ queue' \subseteq queue
          /\ UNCHANGED <<chainVars, worldVars, storeVars, heldVars, nonceVars, sample, todo, verdict>>
      BY <1>3, <2>4 DEF TakeOrder
    <3>2. 1 \in 0 .. settleAttempts
      BY WatcherAssumption
    <3> QED BY <1>1, <2>1, <2>2, <2>3, <3>1, <3>2, LoopInv
  <2>5. CASE book[NextCrossed.id].status # "open"
    <3>1. /\ pc' = "next" /\ queue' \subseteq queue
          /\ UNCHANGED <<chainVars, worldVars, storeVars, heldVars, nonceVars, sample, todo, verdict,
                         cur, offer, attempt>>
      BY <1>3, <2>5 DEF TakeOrder
    <3> QED BY <1>1, <1>2, <3>1, LoopInv DEF Settling, Revealing
  <2> QED BY <2>4, <2>5
<1>4. CASE GiveUp
  <2>1. OwnedBy(cur) = {}
    BY <1>1, NothingReserved DEF OwnedBy
  <2>2. /\ pc' = "next" /\ queue' = queue
        /\ UNCHANGED <<chainVars, worldVars, storeVars, heldVars, nonceVars, sample, todo, verdict,
                       cur, offer, attempt>>
    BY <1>4, <2>1 DEF GiveUp, ReleaseOrderNonce, nonceVars
  <2> QED BY <1>1, <1>2, <2>2, LoopInv DEF Settling, Revealing
<1>5. CASE EstimateFails \/ Estimated \/ NonceFails
  <2>1. pc \in {"estimate", "reserve"} /\ cur \in Orders /\ Revealable(cur, offer)
    BY <1>5 DEF EstimateFails, Estimated, NonceFails, AtWork, Settling, CrossedOnly, Revealing
  <2>2. /\ pc' \in {"estimate", "giveUp", "reserve"} /\ attempt' \in 0 .. settleAttempts
        /\ UNCHANGED <<chainVars, worldVars, storeVars, heldVars, nonceVars, sample, queue, todo, verdict,
                       cur, offer>>
    BY <1>2, <1>5, WatcherAssumption DEF EstimateFails, Estimated, NonceFails, TryAgain
  <2> QED BY <1>1, <1>2, <2>1, <2>2, LoopInv
<1> QED BY <1>3, <1>4, <1>5

(* Lemma.  The least member of a set of naturals.                          *)
LEMMA LeastIn ==
  ASSUME NEW S \in SUBSET Nat, S # {}
  PROVE  Least(S) \in S
BY LeastExists DEF Least

(* Lemma.  Whatever PendingNonceAt answers is a nonce.                     *)
LEMMA RemoteType ==
  ASSUME TypeOK
  PROVE  PoolNonce \in Nat /\ RemoteNonce \subseteq Nat
<1> DEFINE S == {n \in chainNonce .. chainNonce + Len(txs) :
                   \A h \in DOMAIN txs : ~(txs[h].state = "pool" /\ txs[h].nonce = n)}
           f == [i \in DOMAIN txs |-> txs[i].nonce]
<1>1. chainNonce \in Nat /\ Len(txs) \in Nat /\ DOMAIN txs = 1 .. Len(txs)
  BY TxsTyped DEF TypeOK
<1> HIDE DEF f
<1>2. HasFree(chainNonce, Len(txs), f)
  BY <1>1, FreePlace
<1>3. \E n \in chainNonce .. chainNonce + Len(txs) : \A h \in DOMAIN txs : txs[h].nonce # n
  BY <1>1, <1>2 DEF f, HasFree
<1>4. S \in SUBSET Nat /\ S # {}
  BY <1>1, <1>3
<1>5. PoolNonce \in S
  BY <1>4, LeastIn DEF PoolNonce
<1>6. PoolNonce \in Nat
  BY <1>4, <1>5
<1> QED BY <1>6 DEF RemoteNonce

(* Lemma.  A nonce is reserved for the order under way, and for it alone.  *)
LEMMA ReserveInv ==
  ASSUME IInv, NonceReserved
  PROVE  IInv'
<1> USE DEF IInv, chainVars, worldVars, storeVars, heldVars, nonceVars
<1>1. /\ pc = "reserve" /\ pc' = "send"
      /\ UNCHANGED <<chainVars, worldVars, storeVars, heldVars, sample, queue, todo, cur, attempt, offer, verdict>>
  BY DEF NonceReserved
<1>2. cur \in Orders /\ DOMAIN pending = {} /\ Revealable(cur, offer)
  BY <1>1 DEF AtWork, Settling, CrossedOnly, Revealing
<1>3. DOMAIN nonceOwners = {} /\ OwnedBy(cur) = {}
  BY <1>1, <1>2, NothingReserved DEF OwnedBy
<1>4. \E n \in Nat : nonceOwners' = With(nonceOwners, n, cur) /\ nextNonce' = n + 1
  <2>1. PICK r \in RemoteNonce : ReserveNonce(cur, r)
    BY DEF NonceReserved
  <2> DEFINE floor == IF nextNonce > r THEN nextNonce ELSE r
             S == {k \in floor .. floor + Cardinality(DOMAIN nonceOwners) : k \notin DOMAIN nonceOwners}
  <2>2. floor \in Nat
    BY <2>1, RemoteType DEF TypeOK
  <2>3. Cardinality(DOMAIN nonceOwners) = 0
    BY <1>3, FS_EmptySet
  <2>4. nonceOwners' = With(nonceOwners, Least(S), cur) /\ nextNonce' = Least(S) + 1
    BY <1>3, <2>1 DEF ReserveNonce
  <2> HIDE DEF floor
  <2>5. S \in SUBSET Nat /\ floor \in S
    BY <1>3, <2>2, <2>3
  <2>6. Least(S) \in Nat
    BY <2>5, LeastIn
  <2> QED BY <2>4, <2>6
<1>5. DOMAIN nonceOwners' \subseteq Nat /\ nextNonce' \in Nat
      /\ \E n \in Nat : DOMAIN nonceOwners' = {n} /\ nonceOwners'[n] = cur
  <2>1. PICK n \in Nat : nonceOwners' = With(nonceOwners, n, cur) /\ nextNonce' = n + 1
    BY <1>4
  <2>2. DOMAIN nonceOwners' = {n} /\ nonceOwners'[n] = cur
    BY <1>3, <2>1 DEF With
  <2> QED BY <2>1, <2>2
<1>6. TypeOK'
  BY <1>1, <1>2, <1>5 DEF TypeOK
<1>7. (AtWork /\ OneTracked /\ TxsTrue)'
  BY <1>1, <1>2 DEF AtWork, Examining, Settling, OneTracked, TxsTrue
<1>8. NoncesHeld'
  BY <1>1, <1>2, <1>5 DEF NoncesHeld
<1>9. (PoliciesKept /\ ExecutedBacked)'
  BY <1>1 DEF PoliciesKept, ExecutedBacked
<1>10. (SampleLatest /\ NothingLeft /\ CrossedOnly)'
  BY <1>1, <1>2 DEF SampleLatest, NothingLeft, CrossedOnly, Revealable, PutAnew, Revealing
<1> QED BY <1>6, <1>7, <1>8, <1>9, <1>10

(* Lemma.  The settlement is sent and accepted.                            *)
LEMMA SendInv ==
  ASSUME IInv, SendAccepted
  PROVE  IInv'
<1> USE DEF IInv, worldVars, storeVars, heldVars, nonceVars
<1>1. /\ pc = "send" /\ pc' = "confirm"
      /\ txs' = Append(txs, Signed(Least(OwnedBy(cur)), cur, offer, "pool"))
      /\ UNCHANGED <<vault, price, fresh, chainNonce, worldVars, storeVars, heldVars, nonceVars, sample, queue,
                     todo, cur, attempt, offer, verdict>>
  BY DEF SendAccepted
<1>2. cur \in Orders /\ DOMAIN pending = {} /\ Revealable(cur, offer) /\ offer \in Nat
  BY <1>1 DEF AtWork, Settling, CrossedOnly, Revealing, TypeOK
<1>3. Least(OwnedBy(cur)) \in Nat /\ Least(OwnedBy(cur)) \in DOMAIN nonceOwners
  BY <1>1, OwnedNonce
<1>4. /\ txs' \in Seq(Tx) /\ Len(txs') = Len(txs) + 1
      /\ DOMAIN txs' = DOMAIN txs \cup {Len(txs) + 1}
      /\ \A h \in DOMAIN txs : txs'[h] = txs[h]
      /\ txs'[Len(txs) + 1].order = cur /\ txs'[Len(txs) + 1].state = "pool"
      /\ txs'[Len(txs) + 1].nonce \in DOMAIN nonceOwners
  BY <1>1, <1>2, <1>3, Appended
<1>5. TypeOK'
  BY <1>1, <1>2, <1>4 DEF TypeOK
<1>6. (AtWork /\ OneTracked)'
  BY <1>1, <1>2 DEF AtWork, Examining, Settling, OneTracked
<1>7. NoncesHeld'
  BY <1>1, <1>2 DEF NoncesHeld
<1>8. TxsTrue'
  BY <1>1, <1>2, <1>4 DEF TxsTrue
<1>9. (PoliciesKept /\ ExecutedBacked)'
  BY <1>1 DEF PoliciesKept, ExecutedBacked
<1>10. (SampleLatest /\ CrossedOnly)'
  BY <1>1, <1>2 DEF SampleLatest, CrossedOnly, Revealable, PutAnew, Revealing
<1>11. NothingLeft'
  BY <1>1, <1>2, <1>4 DEF NothingLeft
<1> QED BY <1>5, <1>6, <1>7, <1>8, <1>9, <1>10, <1>11

(* Lemma.  A settlement that is not confirmed is tracked, with the nonce   *)
(* reserved for it.                                                        *)
LEMMA TrackInv ==
  ASSUME IInv, pc \in {"send", "confirm"}, pc' = "next", NEW h \in DOMAIN txs', Track(h),
         txs' \in Seq(Tx), DOMAIN txs \subseteq DOMAIN txs', \A g \in DOMAIN txs : txs'[g] = txs[g],
         \A g \in DOMAIN txs' \ DOMAIN txs : txs'[g].state # "mined", txs'[h].order = cur,
         txs'[h].nonce \in DOMAIN nonceOwners,
         \A g \in DOMAIN txs' : txs'[g].state = "pool" => g \in letGo \/ g = h,
         UNCHANGED <<vault, price, fresh, chainNonce, worldVars, storeVars, nonceVars, sample, queue,
                     todo, cur, attempt, offer, verdict>>
  PROVE  IInv'
<1> USE DEF IInv, worldVars, storeVars, nonceVars
<1>1. cur \in Orders /\ DOMAIN pending = {}
  BY DEF AtWork, Settling
<1>2. PICK n \in Nat : /\ DOMAIN nonceOwners = {n} /\ nonceOwners[n] = cur
                       /\ Least(OwnedBy(cur)) = n
  BY OwnedNonce
<1>3. h \in Nat
  OBVIOUS
<1>4. /\ Broadcast(h, n) \in Pending
      /\ Broadcast(h, n).tx = h /\ Broadcast(h, n).nonce = n
  BY <1>3, WatcherAssumption DEF Broadcast, Pending
<1>5. DOMAIN pending' = {cur} /\ pending'[cur] = Broadcast(h, n) /\ letGo' = letGo
  BY <1>1, <1>2 DEF Track, With
<1>6. TypeOK'
  BY <1>1, <1>4, <1>5 DEF TypeOK
<1>7. (AtWork /\ OneTracked)'
  BY <1>5 DEF AtWork, Examining, Settling, OneTracked
<1>8. NoncesHeld'
  BY <1>2, <1>4, <1>5 DEF NoncesHeld
<1>9. TxsTrue'
  BY <1>4, <1>5 DEF TxsTrue
<1>10. (PoliciesKept /\ ExecutedBacked)'
  BY DEF PoliciesKept, ExecutedBacked
<1>11. (SampleLatest /\ CrossedOnly)'
  BY <1>5 DEF SampleLatest, CrossedOnly, Revealable, PutAnew, Revealing
<1>12. NothingLeft'
  BY <1>2, <1>4, <1>5 DEF NothingLeft
<1> QED BY <1>6, <1>7, <1>8, <1>9, <1>10, <1>11, <1>12

(* Lemma.  An uncertain send, or no receipt yet.                           *)
LEMMA UncertainInv ==
  ASSUME IInv, SendUncertain \/ Unconfirmed
  PROVE  IInv'
<1> USE DEF IInv
<1>1. CASE SendUncertain
  <2>1. /\ pc = "send" /\ pc' = "next" /\ Track(Len(txs) + 1)
        /\ UNCHANGED <<vault, price, fresh, chainNonce, worldVars, storeVars, nonceVars, sample, queue,
                       todo, cur, attempt, offer, verdict>>
        /\ \E s \in {"pool", "void"} : txs' = Append(txs, Signed(Least(OwnedBy(cur)), cur, offer, s))
    BY <1>1 DEF SendUncertain
  <2>2. /\ cur \in Orders /\ offer \in Nat /\ DOMAIN pending = {}
        /\ Least(OwnedBy(cur)) \in Nat /\ Least(OwnedBy(cur)) \in DOMAIN nonceOwners
    BY <2>1, OwnedNonce DEF AtWork, Settling, TypeOK
  <2>3. /\ txs' \in Seq(Tx) /\ DOMAIN txs' = DOMAIN txs \cup {Len(txs) + 1}
        /\ \A g \in DOMAIN txs : txs'[g] = txs[g]
        /\ txs'[Len(txs) + 1].order = cur /\ txs'[Len(txs) + 1].state \in {"pool", "void"}
        /\ txs'[Len(txs) + 1].nonce \in DOMAIN nonceOwners
    BY <2>1, <2>2, Appended
  <2>4. \A g \in DOMAIN txs' : txs'[g].state = "pool" => g \in letGo \/ g = Len(txs) + 1
    BY <2>1, <2>2, <2>3 DEF NothingLeft
  <2> QED BY <2>1, <2>3, <2>4, TrackInv
<1>2. CASE Unconfirmed
  <2>1. /\ pc = "confirm" /\ pc' = "next" /\ Track(Len(txs))
        /\ UNCHANGED <<chainVars, worldVars, storeVars, nonceVars, sample, queue,
                       todo, cur, attempt, offer, verdict>>
    BY <1>2 DEF Unconfirmed
  <2>2. /\ Len(txs) \in DOMAIN txs /\ txs[Len(txs)].order = cur /\ txs' = txs /\ txs \in Seq(Tx)
        /\ txs[Len(txs)].nonce \in DOMAIN nonceOwners /\ DOMAIN pending = {}
    BY <2>1 DEF TxsTrue, TypeOK, chainVars, AtWork, Settling
  <2>3. \A g \in DOMAIN txs : txs[g].state = "pool" => g \in letGo \/ g = Len(txs)
    BY <2>1, <2>2 DEF NothingLeft
  <2> QED BY <2>1, <2>2, <2>3, TrackInv DEF chainVars
<1> QED BY <1>1, <1>2

(* Lemma.  A receipt at once: the nonce is used, and given back as such.   *)
LEMMA ConfirmInv ==
  ASSUME IInv, Confirmed \/ ConfirmReverted
  PROVE  IInv'
<1> USE DEF IInv, chainVars, worldVars
<1>1. /\ pc = "confirm" /\ ReleaseNonce(cur, Least(OwnedBy(cur)), TRUE)
      /\ UNCHANGED <<chainVars, worldVars, latest, heldVars, sample, queue, todo, cur, offer, verdict>>
  BY DEF Confirmed, ConfirmReverted, storeVars
<1>2. cur \in Orders /\ DOMAIN pending = {} /\ Revealable(cur, offer)
  BY <1>1 DEF AtWork, Settling, CrossedOnly, Revealing
<1>3. DOMAIN nonceOwners' = {} /\ nextNonce' \in Nat
  <2>1. PICK n \in Nat : /\ DOMAIN nonceOwners = {n} /\ nonceOwners[n] = cur
                         /\ Least(OwnedBy(cur)) = n
    BY <1>1, OwnedNonce
  <2> QED BY <1>1, <2>1 DEF ReleaseNonce, Without, TypeOK
<1>4. /\ book' \in [Orders -> Entry] /\ \A p \in Orders : Ends(p)
      /\ pc' \in {"next", "estimate", "giveUp"} /\ attempt' \in 0 .. settleAttempts
  <2>1. CASE Confirmed
    <3>1. txs[Len(txs)].state = "mined" /\ book' = MarkExecuted(book, cur) /\ pc' = "next"
          /\ attempt' = attempt
      BY <2>1 DEF Confirmed
    <3>2. vault[cur] = "executed"
      BY <1>1, <3>1 DEF TxsTrue
    <3> QED BY <1>2, <3>1, <3>2, MarkEnds DEF TypeOK
  <2>2. CASE ConfirmReverted
    <3>1. book' = book /\ pc' \in {"estimate", "giveUp"} /\ attempt' \in 0 .. settleAttempts
      BY <2>2, WatcherAssumption DEF ConfirmReverted, TryAgain, storeVars, TypeOK
    <3> QED BY <3>1 DEF Ends, TypeOK
  <2> QED BY <2>1, <2>2
<1>5. TypeOK'
  BY <1>1, <1>2, <1>3, <1>4 DEF TypeOK, heldVars
<1>6. (AtWork /\ OneTracked /\ NoncesHeld /\ TxsTrue)'
  BY <1>1, <1>2, <1>3, <1>4 DEF heldVars, AtWork, Examining, Settling, OneTracked, NoncesHeld, TxsTrue
<1>7. (PoliciesKept /\ ExecutedBacked /\ SampleLatest /\ CrossedOnly)'
  BY <1>1, <1>4, EndsInv DEF Revealing
<1>8. NothingLeft'
  <2>1. txs[Len(txs)].state # "pool"
    BY DEF Confirmed, ConfirmReverted
  <2> QED BY <1>1, <1>2, <2>1 DEF NothingLeft, heldVars
<1> QED BY <1>5, <1>6, <1>7, <1>8

-----------------------------------------------------------------------------
(* The invariant.                                                          *)

(* Lemma.  Every step keeps it.                                            *)
LEMMA StepInv == IInv /\ [Next]_vars => IInv'
<1> SUFFICES ASSUME IInv, [Next]_vars PROVE IInv'
  OBVIOUS
<1>1. CASE Chain
  BY <1>1, MineInv, DropInv, WeatherInv, AgeInv DEF Chain
<1>2. CASE Owners
  BY <1>2, PlaceInv, CancelInv DEF Owners
<1>3. CASE Handlers
  BY <1>3, ProcessPlaceInv, ProcessCancelInv DEF Handlers
<1>4. CASE Restart
  BY <1>4, RestartInv
<1>5. CASE Tick
  BY <1>5, ReadInv, ObserveInv, ScanInv, EndInv DEF Tick
<1>6. CASE Reconcile
  BY <1>6, LookupInv, ReceiptInv, VaultInv, DecideInv, ReplaceInv, ResendInv DEF Reconcile
<1>7. CASE Settle
  BY <1>7, AttemptInv, ReserveInv, SendInv, UncertainInv, ConfirmInv DEF Settle
<1>8. CASE UNCHANGED vars
  <2> USE DEF IInv, vars, chainVars, worldVars, storeVars, heldVars, nonceVars, loopVars
  <2>1. TypeOK'
    BY <1>8 DEF TypeOK
  <2>2. (AtWork /\ OneTracked /\ NoncesHeld /\ TxsTrue)'
    BY <1>8 DEF AtWork, OneTracked, NoncesHeld, TxsTrue
  <2>3. (PoliciesKept /\ ExecutedBacked /\ SampleLatest /\ NothingLeft /\ CrossedOnly)'
    BY <1>8 DEF PoliciesKept, ExecutedBacked, SampleLatest, NothingLeft, CrossedOnly, Revealable, PutAnew
  <2> QED BY <2>1, <2>2, <2>3
<1> QED BY <1>1, <1>2, <1>3, <1>4, <1>5, <1>6, <1>7, <1>8 DEF Next, Watcher

(* The inductive invariant holds in every state the watcher, the chain,    *)
(* the owners and the handlers can reach together.                         *)
THEOREM WatcherInvariant == Spec => []IInv
BY InitInv, StepInv, PTL DEF Spec

-----------------------------------------------------------------------------
(* What it says.                                                           *)

(* Every variable keeps its type: what is tracked are transactions that    *)
(* were sent, and every nonce that is asked for and reserved is one.       *)
THEOREM WatcherTypes == Spec => []TypeOK
<1>1. IInv => TypeOK
  BY DEF IInv
<1> QED BY <1>1, WatcherInvariant, PTL

(* A settlement that may still be mined is the one being confirmed, or has *)
(* the nonce tracked for the one order that is unconfirmed; the others are *)
(* those the watcher let go of on purpose (watcher.go lines 183-188,       *)
(* 548-553, 617-622), for any number of orders, retries and restarts.      *)
THEOREM WatcherOneUnconfirmed == Spec => []OneUnconfirmed
<1>1. ASSUME IInv PROVE OneUnconfirmed
  <2>1. \A o, p \in DOMAIN pending : o = p
    BY <1>1 DEF IInv, OneTracked
  <2> QED BY <1>1, <2>1 DEF IInv, NothingLeft, OneUnconfirmed, InPool
<1> QED BY <1>1, WatcherInvariant, PTL

(* The enclave takes an order for executed only if the vault executed it   *)
(* (watcher.go lines 196, 235, 294).                                       *)
THEOREM WatcherExecutedBacked == Spec => []ExecutedBacked
<1>1. IInv => ExecutedBacked
  BY DEF IInv
<1> QED BY <1>1, WatcherInvariant, PTL

(* Every tracked broadcast owns the nonce it was sent with, and outside a  *)
(* send no other nonce is reserved (watcher.go lines 95-99, 479-535).      *)
THEOREM WatcherNoncesAccounted == Spec => []NoncesAccounted
<1>1. ASSUME IInv PROVE NoncesAccounted
  <2>1. \A o \in DOMAIN pending : OwnedBy(o) = {pending[o].nonce}
    BY <1>1, OwnedNonce
  <2>2. ASSUME pc \notin {"send", "confirm"}
        PROVE  DOMAIN nonceOwners = {pending[o].nonce : o \in DOMAIN pending}
    BY <1>1, <2>2 DEF IInv, NoncesHeld
  <2> QED BY <2>1, <2>2 DEF NoncesAccounted
<1> QED BY <1>1, WatcherInvariant, PTL

(* Lemma.  Mining and forgetting add no transaction.                       *)
LEMMA NoneAdded ==
  ASSUME TypeOK, NEW h \in DOMAIN txs, Mine(h) \/ Drop(h)
  PROVE  Len(txs') = Len(txs)
<1>1. DOMAIN txs = 1 .. Len(txs) /\ Len(txs) \in Nat
  BY TxsTyped
<1>2. CASE Mine(h)
  <2> DEFINE new(g) == txs'[g]
  <2>1. \E F : txs' = [g \in 1 .. Len(txs) |-> F[g]]
    <3>1. txs' = [g \in 1 .. Len(txs) |-> txs'[g]]
      BY <1>1, <1>2 DEF Mine
    <3> QED BY <3>1
  <2> QED BY <1>1, <2>1
<1>3. CASE Drop(h)
  BY <1>1, <1>3 DEF Drop, TypeOK
<1> QED BY <1>2, <1>3

(* A trigger is revealed on chain only by a tick whose own sample crossed  *)
(* it, and never one looser than the policy the order has in the book by   *)
(* then, unless it was put anew in between with that sample for watermark, *)
(* however often the instructions are delivered (watcher.go lines 176-194, *)
(* 305-315, 607).                                                          *)
THEOREM WatcherRevealsOnlyCrossed == Spec => RevealsOnlyCrossed
<1> DEFINE Reveal == Len(txs') > Len(txs) =>
             LET t == txs'[Len(txs')] IN
             /\ sample # NoSample /\ sample <= t.trigger
             /\ \/ book[t.order].status # "open" \/ PutAnew(t.order)
                \/ t.trigger <= Effective(book[t.order])
<1>1. ASSUME IInv, [Next]_vars PROVE [Reveal]_vars
  <2> USE <1>1 DEF IInv
  <2>1. ASSUME txs' = txs PROVE Reveal
    BY <2>1, TxsTyped
  <2>2. ASSUME NEW h \in DOMAIN txs, Mine(h) \/ Drop(h) PROVE Reveal
    BY <2>2, NoneAdded, TxsTyped
  <2>3. ASSUME NEW n \in Nat, NEW s \in {"pool", "void"}, pc \in Revealing, cur \in Orders,
               txs' = Append(txs, Signed(n, cur, offer, s))
        PROVE  Reveal
    <3>1. Revealable(cur, offer) /\ offer \in Nat
      BY <2>3 DEF CrossedOnly, TypeOK
    <3>2. Len(txs') = Len(txs) + 1 /\ txs'[Len(txs) + 1] = Signed(n, cur, offer, s)
      BY <2>3, <3>1, Appended
    <3>3. txs'[Len(txs')].order = cur /\ txs'[Len(txs')].trigger = offer
      BY <3>2 DEF Signed
    <3> QED BY <3>1, <3>3 DEF Revealable
  <2>4. CASE Chain
    BY <2>1, <2>2, <2>4 DEF Chain, MovePrice, ToggleFresh, BecomeCalm, Age, chainVars
  <2>5. CASE Owners \/ Handlers \/ Restart
    BY <2>1, <2>5 DEF Owners, PlaceOrder, CancelOrder, Handlers, ProcessPlaceOrder, ProcessCancelOrder,
                      Restart, chainVars
  <2>6. CASE Tick
    BY <2>1, <2>6 DEF Tick, ReadFails, ReadPrice, Observe, Scan, EndTick, chainVars
  <2>7. CASE Reconcile /\ ~(ResendAccepted \/ ResendFails)
    BY <2>1, <2>7 DEF Reconcile, Reconciled, ReceiptFound, ReceiptMissing, KeepPending, LookupPending,
                      LookupMined, LookupMissing, VaultExecuted, VaultClosed, VaultOpen, DecideActive,
                      DecideInactive, ReplaceFails, ReplaceEstimated, chainVars
  <2>8. CASE ResendAccepted \/ ResendFails
    <3>1. pc = "resend" /\ cur \in DOMAIN pending
      BY <2>8 DEF AtWork, Examining, ResendAccepted, ResendFails
    <3>2. cur \in Orders /\ pending[cur].nonce \in Nat /\ pc \in Revealing
      BY <3>1, PendingTyped DEF Revealing
    <3>3. \/ txs' = txs
          \/ txs' = Append(txs, Signed(pending[cur].nonce, cur, offer, "pool"))
      BY <2>8 DEF ResendAccepted, ResendFails
    <3> QED BY <2>1, <2>3, <3>2, <3>3
  <2>9. CASE SendAccepted \/ SendUncertain
    <3>1. pc = "send" /\ cur \in Orders /\ pc \in Revealing
      BY <2>9 DEF AtWork, Settling, Revealing, SendAccepted, SendUncertain
    <3>2. Least(OwnedBy(cur)) \in Nat
      BY <3>1, OwnedNonce
    <3>3. \E s \in {"pool", "void"} : txs' = Append(txs, Signed(Least(OwnedBy(cur)), cur, offer, s))
      BY <2>9 DEF SendAccepted, SendUncertain
    <3> QED BY <2>3, <3>1, <3>2, <3>3
  <2>10. CASE Settle /\ ~(SendAccepted \/ SendUncertain)
    BY <2>1, <2>10 DEF Settle, TakeOrder, GiveUp, EstimateFails, Estimated, NonceFails, NonceReserved,
                       Confirmed, ConfirmReverted, Unconfirmed, chainVars
  <2>11. CASE UNCHANGED vars
    BY <2>11
  <2> HIDE DEF Reveal
  <2> QED BY <2>4, <2>5, <2>6, <2>7, <2>8, <2>9, <2>10, <2>11 DEF Next, Watcher
<1>2. RevealsOnlyCrossed <=> [][Reveal]_vars
  BY DEF RevealsOnlyCrossed
<1> HIDE DEF Reveal
<1>3. Spec => [][Reveal]_vars
  BY <1>1, WatcherInvariant, PTL DEF Spec
<1> QED BY <1>2, <1>3, PTL

=============================================================================
