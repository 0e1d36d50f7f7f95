----------------------------- MODULE EnclaveStore -----------------------------
(***************************************************************************)
(* The enclave's order book over time (internal/extension/store.go): each  *)
(* method of Store holds its lock, so each is a step; the callers' order   *)
(* is the watcher goroutine's, which records a sample and scans the book   *)
(* with it in two critical sections, while instruction handlers add and    *)
(* drop orders from HTTP goroutines at any moment, between those two too.  *)
(***************************************************************************)
EXTENDS OrderBook

CONSTANTS MaxOrder,             \* order ids are 0 .. MaxOrder; 0 is invalid
          Prices,               \* normalized feed prices; 0 when truncated away
          Policies,             \* what decrypted payloads may ask for
          trailingSampleMaxAge, \* seconds a sample can seed a trailing order
          settleMaxAgeSec,      \* seconds the watcher takes a sample for fresh
          MaxTime               \* bound on the clock

Orders == 0 .. MaxOrder
NoSample == 0

ASSUME StoreAssumption ==
  /\ MaxOrder \in Nat /\ MaxTime \in Nat
  /\ trailingSampleMaxAge \in Nat /\ settleMaxAgeSec \in Nat
  /\ Prices \subseteq Nat
  /\ Policies \subseteq [trigger : Nat, bps : Nat]

VARIABLES book,         \* Store.orders
          latestPrice,  \* Store.latestPrice
          latestAt,     \* Store.latestAt
          now,          \* the enclave's clock
          phase,        \* "scan" between ObservePrice and TriggeredOrders
          sample,       \* the watcher's price between the two
          triggered,    \* what the last TriggeredOrders returned
          since,        \* history: samples recorded since o was activated,
                        \* the one that seeded it included
          fired         \* history: orders ever returned as triggered

vars == <<book, latestPrice, latestAt, now, phase, sample, triggered, since, fired>>

Init ==
  /\ book = [o \in Orders |-> Absent]
  /\ latestPrice = NoSample /\ latestAt = 0 /\ now = 0
  /\ phase = "idle" /\ sample = NoSample
  /\ triggered = {}
  /\ since = [o \in Orders |-> {}] /\ fired = {}

(* trailingReadyLocked.                                                    *)
TrailingReady == /\ latestPrice # NoSample
                 /\ now - latestAt \in 0 .. trailingSampleMaxAge

(* Mutant of ObservePrice: a sample dated in the future is taken.          *)
ObserveFuture(price, at) ==
  /\ phase = "idle" /\ now - at <= settleMaxAgeSec
  /\ latestPrice' = price /\ latestAt' = at
  /\ sample' = price /\ phase' = "scan"
  /\ UNCHANGED <<book, now, triggered, since, fired>>

(* A watcher tick checks a feed value dated "at", then records it.  A      *)
(* price of 0 is not recorded.                                             *)
ObservePrice(price, at) ==
  /\ phase = "idle"
  /\ now - at \in 0 .. settleMaxAgeSec
  /\ IF price > 0
     THEN /\ latestPrice' = price /\ latestAt' = at
          /\ since' = [o \in Orders |-> IF book[o].status = "open" /\ book[o].bps > 0
                                        THEN since[o] \cup {price} ELSE since[o]]
     ELSE UNCHANGED <<latestPrice, latestAt, since>>
  /\ sample' = price
  /\ phase' = "scan"
  /\ UNCHANGED <<book, now, triggered, fired>>

TriggeredOrders ==
  /\ phase = "scan"
  /\ IF sample > 0
     THEN book' = Raise(book, sample) /\ triggered' = Crossed(book', sample)
     ELSE UNCHANGED book /\ triggered' = {}
  /\ fired' = fired \cup {q.id : q \in triggered'}
  /\ phase' = "idle"
  /\ UNCHANGED <<latestPrice, latestAt, now, sample, since>>

(* A settlement the watcher sent for an order that triggered is confirmed, *)
(* on any later tick.                                                      *)
Executed(id) ==
  /\ phase = "idle" /\ id \in fired
  /\ book' = MarkExecuted(book, id)
  /\ UNCHANGED <<latestPrice, latestAt, now, phase, sample, triggered, since, fired>>

(* processPlaceOrder: the payload decrypted and parsed into a policy.  The *)
(* same instruction may come more than once.                               *)
processPlaceOrder(id, policy) ==
  /\ IF CanPut(book, id, policy, TrailingReady)
     THEN /\ book' = Put(book, id, policy, latestPrice)
          /\ since' = [since EXCEPT ![id] = IF policy.bps > 0 THEN {latestPrice} ELSE {}]
     ELSE UNCHANGED <<book, since>>
  /\ UNCHANGED <<latestPrice, latestAt, now, phase, sample, triggered, fired>>

(* processCancelOrder, or a reconciliation that found the order closed.    *)
DropOrder(id) ==
  /\ book' = Delete(book, id)
  /\ since' = [since EXCEPT ![id] = {}]
  /\ UNCHANGED <<latestPrice, latestAt, now, phase, sample, triggered, fired>>

Pass == /\ now < MaxTime
        /\ now' = now + 1
        /\ UNCHANGED <<book, latestPrice, latestAt, phase, sample, triggered, since, fired>>

Next == \/ \E p \in Prices, t \in 0 .. MaxTime : ObservePrice(p, t)
        \/ TriggeredOrders
        \/ \E o \in Orders : Executed(o) \/ DropOrder(o)
        \/ \E o \in Orders, policy \in Policies : processPlaceOrder(o, policy)
        \/ Pass

Spec == Init /\ [][Next]_vars

-----------------------------------------------------------------------------
(* Properties.                                                             *)

TypeOK ==
  /\ book \in [Orders -> Entry]
  /\ latestPrice \in Nat /\ now \in Nat /\ latestAt \in 0 .. now
  /\ phase \in {"idle", "scan"} /\ sample \in Nat
  /\ triggered \subseteq [id : Orders, trigger : Nat]
  /\ since \in [Orders -> SUBSET Nat] /\ fired \subseteq Orders

(* An entry of the book carries exactly one usable policy: a positive      *)
(* fixed trigger, or a permitted trail that a real sample has seeded       *)
(* (Put, lines 57-67).  An entry without either would never fire.          *)
OnePolicy == \A o \in Orders : book[o].status # "absent" =>
  /\ o # 0
  /\ \/ book[o].trigger > 0 /\ book[o].bps = 0
     \/ book[o].trigger = 0 /\ book[o].bps \in MinTrailBps .. MaxTrailBps /\ book[o].high > 0

Trails(o) == book[o].status = "open" /\ book[o].bps > 0

(* The high-watermark of a trailing order is the highest sample recorded   *)
(* since it was activated, its seed included; only the sample just being   *)
(* scanned may still be missing, though orders are added and dropped       *)
(* between ObservePrice and TriggeredOrders (lines 65-67, 119-128,         *)
(* 165-169).                                                               *)
WatermarkHighest == \A o \in Orders : Trails(o) =>
  /\ book[o].high \in since[o]
  /\ \A p \in since[o] : p <= book[o].high \/ (phase = "scan" /\ p = sample)

(* The sample lies bps below h or further, in exact arithmetic.            *)
Fallen(h, bps) == sample * 10000 <= h * (10000 - bps)

(* A scan returns a trailing order exactly when the sample has fallen by   *)
(* the order's whole trail from some sample recorded since its activation: *)
(* the integer division never fires it early nor holds it back, and the    *)
(* sample that seeds it never fires it (lines 164-177).                    *)
FiresExactly == [][(phase = "scan" /\ phase' = "idle" /\ sample > 0) =>
  \A o \in Orders : Trails(o) =>
    ((\E q \in triggered' : q.id = o) <=> (\E h \in since[o] : Fallen(h, book[o].bps)))]_vars

(* While an order stays open its trigger never loosens, and a fixed one    *)
(* never moves, whatever is sampled, placed or dropped meanwhile (lines    *)
(* 165-171).                                                               *)
TriggerNeverLoosens == [][\A o \in Orders :
  (book[o].status = "open" /\ book'[o].status = "open") =>
    /\ Effective(book[o]) <= Effective(book'[o])
    /\ book[o].bps = 0 => Effective(book[o]) = Effective(book'[o])]_vars
=============================================================================
