------------------------------ MODULE OrderBook ------------------------------
(***************************************************************************)
(* The enclave's order book (internal/extension/store.go) as operators on  *)
(* its value: what each method of Store does to the orders map under the   *)
(* store's lock.  A nil price is 0, which no valid policy or sample is.    *)
(***************************************************************************)
EXTENDS Integers

MinTrailBps == 25
MaxTrailBps == 5000

(* An entry of the map; "absent" stands for a missing key.                 *)
Entry == [status : {"absent", "open", "executed"}, trigger : Nat, bps : Nat, high : Nat]

Absent == [status |-> "absent", trigger |-> 0, bps |-> 0, high |-> 0]

(* A decrypted policy: a fixed trigger, or a trail in basis points.        *)
Fixed(p) == [trigger |-> p, bps |-> 0]
Trailing(b) == [trigger |-> 0, bps |-> b]

IsFixed(policy) == policy.trigger > 0 /\ policy.bps = 0
IsTrailing(policy) == policy.trigger = 0 /\ policy.bps \in MinTrailBps .. MaxTrailBps

(* Mutants of CanPut: no wait for a sample; an existing order replaced.    *)
CanPutUnseeded(book, id, policy, ready) ==
  book[id].status = "absent" /\ id > 0 /\ (IsFixed(policy) \/ IsTrailing(policy))

CanPutOver(book, id, policy, ready) ==
  id > 0 /\ (IsFixed(policy) \/ (IsTrailing(policy) /\ ready))

(* Another: every policy waits for a sample.                               *)
CanPutSampled(book, id, policy, ready) ==
  book[id].status = "absent" /\ id > 0 /\ ready /\ (IsFixed(policy) \/ IsTrailing(policy))

(* Put accepts the order; ready says that a fresh sample can seed a trail. *)
CanPut(book, id, policy, ready) ==
  /\ book[id].status = "absent"
  /\ id > 0
  /\ IsFixed(policy) \/ (IsTrailing(policy) /\ ready)

Put(book, id, policy, latest) ==
  [book EXCEPT ![id] = [status |-> "open", trigger |-> policy.trigger, bps |-> policy.bps,
                        high |-> IF IsTrailing(policy) THEN latest ELSE 0]]

Delete(book, id) == [book EXCEPT ![id] = Absent]

(* Nothing happens to an order that is absent or no longer open.           *)
MarkExecuted(book, id) ==
  IF book[id].status = "open" THEN [book EXCEPT ![id].status = "executed"] ELSE book

(* Mutant of Trail: rounded up.                                            *)
TrailUp(high, bps) == (high * (10000 - bps) + 9999) \div 10000

(* The trigger of a trailing order, truncated to a whole price.            *)
Trail(high, bps) == (high * (10000 - bps)) \div 10000

Effective(entry) == IF entry.bps = 0 THEN entry.trigger ELSE Trail(entry.high, entry.bps)

(* EffectiveTrigger's second result.                                       *)
HasTrigger(entry) ==
  /\ entry.status = "open"
  /\ IF entry.bps = 0 THEN entry.trigger > 0 ELSE entry.high > 0

(* Mutant of Raise: the watermark follows every sample.                    *)
RaiseAlways(book, price) ==
  [id \in DOMAIN book |->
     IF book[id].status = "open" /\ book[id].bps > 0
     THEN [book[id] EXCEPT !.high = price] ELSE book[id]]

(* TriggeredOrders, first half: a sample raises the high-watermarks.       *)
Raise(book, price) ==
  [id \in DOMAIN book |->
     IF book[id].status = "open" /\ book[id].bps > 0 /\ price > book[id].high
     THEN [book[id] EXCEPT !.high = price] ELSE book[id]]

(* TriggeredOrders, second half: the orders a sample crosses, each with    *)
(* the trigger copied for settlement.  The code sorts them by id; readers  *)
(* of this set take the smallest id first.                                 *)
Crossed(book, price) ==
  {[id |-> id, trigger |-> Effective(book[id])] :
     id \in {i \in DOMAIN book : book[i].status = "open" /\ price <= Effective(book[i])}}
=============================================================================
