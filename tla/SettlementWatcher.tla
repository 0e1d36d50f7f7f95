-------------------------- MODULE SettlementWatcher --------------------------
(***************************************************************************)
(* The settlement watcher of the enclave (internal/extension/watcher.go):  *)
(* one goroutine that, tick after tick, samples the FTSO price, reconciles *)
(* the settlement it already broadcast, and sends settle() for the orders  *)
(* the sample crosses.  Each RPC it makes is a step, so that the chain,    *)
(* the owners and the instruction handlers, which share only the order     *)
(* book with it, act between any two of them.                              *)
(*                                                                         *)
(* The chain is modelled from how the watcher and the vault use it: the    *)
(* executor's transactions and nonce, the mempool, the vault's order       *)
(* statuses and the feed.  RPC answers may fail or lag until the network   *)
(* is calm, and are exact from then on.                                    *)
(***************************************************************************)
EXTENDS OrderBook, Sequences, FiniteSets

CONSTANTS MaxOrder,           \* order ids are 1 .. MaxOrder
          Prices,             \* feed prices, positive
          Policies,           \* Policies[o]: the sealed policy of order o
          settleAttempts,     \* send tries per triggered order per tick
          pendingDropChecks,  \* lookup misses that classify a tx as dropped
          EarlyTx,            \* bound: broadcasts before the network calms
          MaxTx,              \* bound: a node refuses fee bumps beyond these
          MaxRestarts,        \* bound: enclave restarts
          MaxLag              \* how far PendingNonceAt may lag the chain

Orders == 1 .. MaxOrder
NoOrder == 0
NoSample == 0

ASSUME WatcherAssumption ==
  /\ MaxOrder \in Nat /\ settleAttempts \in Nat \ {0}
  /\ pendingDropChecks \in Nat \ {0} /\ EarlyTx \in Nat /\ MaxTx \in Nat
  /\ MaxRestarts \in Nat /\ MaxLag \in Nat
  /\ Prices \subseteq Nat \ {0}
  /\ \A o \in Orders : /\ Policies[o] \in [trigger : Nat, bps : Nat]
                       /\ IsFixed(Policies[o]) \/ IsTrailing(Policies[o])

VARIABLES
  (* the chain *)
  vault,        \* vault[o]: the status DarkStopVault holds for order o
  price,        \* the feed's price
  fresh,        \* the feed is no older than settleMaxAgeSec, nor in the future
  txs,          \* txs[h]: the executor's transaction with hash h
  chainNonce,   \* transactions of the executor mined so far
  (* the instruction path and the outside world *)
  wire,         \* instructions sent by the vault
  calm,         \* the network answers truthfully and the market stands still
  restarts,
  (* the enclave *)
  book,         \* Store.orders
  latest,       \* Store.latestPrice
  pending,      \* Watcher.pending: the tracked broadcast of an order
  letGo,        \* history: broadcasts the watcher has let go of, on purpose
  nonceOwners,  \* Watcher.nonceOwners: reserved nonce -> order
  nextNonce,    \* Watcher.nextNonce, 0 until a nonce was reserved
  (* the watcher goroutine *)
  pc,
  sample,       \* the tick's price, NoSample if it has none
  queue,        \* triggered orders the tick has still to look at
  todo,         \* pending orders the tick has still to reconcile
  cur,          \* the order being reconciled or settled
  attempt,      \* settle attempt of cur
  offer,        \* trigger the settlement of cur reveals
  verdict       \* txState of cur's broadcast

chainVars == <<vault, price, fresh, txs, chainNonce>>
worldVars == <<wire, calm, restarts>>
storeVars == <<book, latest>>
heldVars  == <<pending, letGo>>
nonceVars == <<nonceOwners, nextNonce>>
loopVars  == <<pc, sample, queue, todo, cur, attempt, offer, verdict>>
vars == <<chainVars, worldVars, storeVars, heldVars, nonceVars, loopVars>>

-----------------------------------------------------------------------------
(* State.                                                                  *)

Tx == [nonce : Nat, order : Orders, trigger : Nat,
       state : {"pool", "mined", "reverted", "void"}]

(* pendingSettlement: old says that firstSeen is pendingReplacementAge     *)
(* ago, and misses stops counting where the code stops comparing.          *)
Pending == [tx : Nat, nonce : Nat, misses : 0 .. pendingDropChecks, old : BOOLEAN]

Broadcast(h, n) == [tx |-> h, nonce |-> n, misses |-> 0, old |-> FALSE]

(* The executor's transactions that may still be mined.                   *)
InPool == {h \in DOMAIN txs : txs[h].state = "pool"}

(* Go maps: empty, without a key, with a key.                              *)
EmptyMap == [x \in {} |-> x]
Without(f, k) == [x \in DOMAIN f \ {k} |-> f[x]]
With(f, k, v) == [x \in DOMAIN f \cup {k} |-> IF x = k THEN v ELSE f[x]]

Init ==
  /\ vault = [o \in Orders |-> "none"]
  /\ price \in Prices /\ fresh = TRUE
  /\ txs = <<>> /\ chainNonce = 0
  /\ wire = {} /\ calm = FALSE /\ restarts = 0
  /\ book = [o \in Orders |-> Absent] /\ latest = NoSample
  /\ pending = EmptyMap /\ letGo = {}
  /\ nonceOwners = EmptyMap /\ nextNonce = 0
  /\ pc = "idle" /\ sample = NoSample /\ queue = {} /\ todo = {}
  /\ cur = NoOrder /\ attempt = 0 /\ offer = 0 /\ verdict = "stuck"

-----------------------------------------------------------------------------
(* The chain (external).                                                   *)

(* What settle(o, t, 300) does if executed now: line 183-193 of the vault. *)
(* The executor is the configured one and the payout pool is funded.       *)
WouldSettle(o, t) == vault[o] = "open" /\ fresh /\ price <= t

(* A transaction with the account's next nonce is mined; those that share  *)
(* its nonce no longer can be.                                             *)
Mine(h) ==
  /\ txs[h].state = "pool" /\ txs[h].nonce = chainNonce
  /\ LET ok == WouldSettle(txs[h].order, txs[h].trigger) IN
       /\ txs' = [g \in DOMAIN txs |->
            IF g = h THEN [txs[g] EXCEPT !.state = IF ok THEN "mined" ELSE "reverted"]
            ELSE IF txs[g].nonce = chainNonce /\ txs[g].state = "pool"
                 THEN [txs[g] EXCEPT !.state = "void"] ELSE txs[g]]
       /\ vault' = IF ok THEN [vault EXCEPT ![txs[h].order] = "executed"] ELSE vault
  /\ chainNonce' = chainNonce + 1
  /\ UNCHANGED <<price, fresh, worldVars, storeVars, heldVars, nonceVars, loopVars>>

(* The network forgets a transaction.                                      *)
Drop(h) ==
  /\ ~calm
  /\ txs[h].state = "pool"
  /\ txs' = [txs EXCEPT ![h].state = "void"]
  /\ UNCHANGED <<vault, price, fresh, chainNonce, worldVars, storeVars, heldVars, nonceVars, loopVars>>

MovePrice(p) ==
  /\ ~calm /\ price' = p
  /\ UNCHANGED <<vault, fresh, txs, chainNonce, worldVars, storeVars, heldVars, nonceVars, loopVars>>

ToggleFresh ==
  /\ ~calm /\ fresh' = ~fresh
  /\ UNCHANGED <<vault, price, txs, chainNonce, worldVars, storeVars, heldVars, nonceVars, loopVars>>

(* From here on RPC answers are exact and the price stands still.          *)
BecomeCalm ==
  /\ ~calm /\ fresh /\ calm' = TRUE
  /\ UNCHANGED <<chainVars, wire, restarts, storeVars, heldVars, nonceVars, loopVars>>

(* pendingReplacementAge passes over a tracked broadcast.  A calm network  *)
(* mines what it can sooner than that.                                     *)
Age(o) ==
  /\ ~pending[o].old
  /\ calm => txs[pending[o].tx].nonce # chainNonce \/ txs[pending[o].tx].state # "pool"
  /\ pending' = [pending EXCEPT ![o].old = TRUE]
  /\ UNCHANGED <<letGo, chainVars, worldVars, storeVars, nonceVars, loopVars>>

(* The owner's calls: placeOrder hands out ids in order; both calls send   *)
(* their instruction in the same transaction.                              *)
PlaceOrder(o) ==
  /\ vault[o] = "none" /\ (o > 1 => vault[o - 1] # "none")
  /\ vault' = [vault EXCEPT ![o] = "open"]
  /\ wire' = wire \cup {[command |-> "PLACE_ORDER", id |-> o]}
  /\ UNCHANGED <<price, fresh, txs, chainNonce, calm, restarts, storeVars, heldVars, nonceVars, loopVars>>

CancelOrder(o) ==
  /\ vault[o] = "open"
  /\ vault' = [vault EXCEPT ![o] = "cancelled"]
  /\ wire' = wire \cup {[command |-> "CANCEL_ORDER", id |-> o]}
  /\ UNCHANGED <<price, fresh, txs, chainNonce, calm, restarts, storeVars, heldVars, nonceVars, loopVars>>

-----------------------------------------------------------------------------
(* The instruction handlers (internal/extension/extension.go), which run   *)
(* on HTTP goroutines.  Instructions come in any order, and one that was   *)
(* handled may be delivered again, at any time.                            *)

(* A trailing order is refused while no recent sample can seed it.         *)
ProcessPlaceOrder(m) ==
  /\ m \in wire /\ m.command = "PLACE_ORDER"
  /\ \E ready \in {r \in BOOLEAN : (r => latest # NoSample) /\ (calm /\ latest # NoSample => r)} :
       book' = IF CanPut(book, m.id, Policies[m.id], ready)
               THEN Put(book, m.id, Policies[m.id], latest) ELSE book
  /\ UNCHANGED <<chainVars, worldVars, latest, heldVars, nonceVars, loopVars>>

ProcessCancelOrder(m) ==
  /\ m \in wire /\ m.command = "CANCEL_ORDER"
  /\ book' = Delete(book, m.id)
  /\ UNCHANGED <<chainVars, worldVars, latest, heldVars, nonceVars, loopVars>>

(* The enclave process restarts with nothing but its keys.                 *)
Restart ==
  /\ ~calm /\ restarts < MaxRestarts
  /\ restarts' = restarts + 1
  /\ book' = [o \in Orders |-> Absent] /\ latest' = NoSample
  /\ pending' = EmptyMap /\ letGo' = letGo \cup InPool
  /\ nonceOwners' = EmptyMap /\ nextNonce' = 0
  /\ pc' = "idle" /\ sample' = NoSample /\ queue' = {} /\ todo' = {}
  /\ cur' = NoOrder /\ attempt' = 0 /\ offer' = 0 /\ verdict' = "stuck"
  /\ UNCHANGED <<chainVars, wire, calm>>
-----------------------------------------------------------------------------
(* Nonces.                                                                 *)

Least(S) == CHOOSE n \in S : \A m \in S : n <= m

OwnedBy(o) == {n \in DOMAIN nonceOwners : nonceOwners[n] = o}

(* PendingNonceAt of a node that sees the whole mempool.                   *)
PoolNonce == Least({n \in chainNonce .. chainNonce + Len(txs) :
                 \A h \in DOMAIN txs : ~(txs[h].state = "pool" /\ txs[h].nonce = n)})

(* What PendingNonceAt may answer: a node may miss some of the mempool or  *)
(* be some transactions behind the chain.                                  *)
RemoteNonce == IF calm THEN {PoolNonce}
               ELSE {n \in 0 .. PoolNonce : n >= chainNonce - MaxLag}

(* reserveNonce: the order's own reservation, or the first free nonce at   *)
(* or above both the remote answer and the local floor.                    *)
ReserveNonce(o, remote) ==
  IF OwnedBy(o) # {} THEN UNCHANGED nonceVars
  ELSE LET floor == IF nextNonce > remote THEN nextNonce ELSE remote
           n == Least({k \in floor .. floor + Cardinality(DOMAIN nonceOwners) :
                          k \notin DOMAIN nonceOwners})
       IN /\ nonceOwners' = With(nonceOwners, n, o)
          /\ nextNonce' = n + 1

(* Mutant of ReleaseNonce: the floor falls below the released nonce.       *)
ReleaseBelow(o, n, consumed) ==
  IF n \in DOMAIN nonceOwners /\ nonceOwners[n] = o
  THEN nonceOwners' = Without(nonceOwners, n) /\ nextNonce' = n - 1
  ELSE UNCHANGED nonceVars

(* releaseNonce: only the owner's reservation, and an unconsumed nonce     *)
(* becomes the floor again.                                                *)
ReleaseNonce(o, n, consumed) ==
  IF n \in DOMAIN nonceOwners /\ nonceOwners[n] = o
  THEN /\ nonceOwners' = Without(nonceOwners, n)
       /\ nextNonce' = IF ~consumed /\ n < nextNonce THEN n ELSE nextNonce
  ELSE UNCHANGED nonceVars

(* releaseOrderNonce.                                                      *)
ReleaseOrderNonce(o, consumed) ==
  IF OwnedBy(o) # {} THEN ReleaseNonce(o, Least(OwnedBy(o)), consumed)
  ELSE UNCHANGED nonceVars

-----------------------------------------------------------------------------
(* The tick: sample the price, update watermarks, find crossed orders.     *)

(* No usable sample: the read failed, or the feed is stale or ahead.       *)
ReadFails ==
  /\ pc = "idle" /\ (~calm \/ ~fresh)
  /\ sample' = NoSample /\ queue' = {} /\ todo' = DOMAIN pending
  /\ pc' = "reconcile"
  /\ UNCHANGED <<chainVars, worldVars, storeVars, heldVars, nonceVars, cur, attempt, offer, verdict>>

ReadPrice ==
  /\ pc = "idle" /\ fresh
  /\ sample' = price
  /\ pc' = "observe"
  /\ UNCHANGED <<chainVars, worldVars, storeVars, heldVars, nonceVars, queue, todo, cur, attempt, offer, verdict>>

(* ObservePrice and TriggeredOrders: two critical sections of the store.   *)
Observe ==
  /\ pc = "observe"
  /\ latest' = sample
  /\ pc' = "scan"
  /\ UNCHANGED <<chainVars, worldVars, book, heldVars, nonceVars, sample, queue, todo, cur, attempt, offer, verdict>>

Scan ==
  /\ pc = "scan"
  /\ book' = Raise(book, sample)
  /\ queue' = Crossed(book', sample)
  /\ todo' = DOMAIN pending
  /\ pc' = "reconcile"
  /\ UNCHANGED <<chainVars, worldVars, latest, heldVars, nonceVars, sample, cur, attempt, offer, verdict>>

-----------------------------------------------------------------------------
(* reconcilePending: each pending broadcast in turn, in any order.         *)

Settled(h) == txs[h].state \in {"mined", "reverted"}

Forget(o, consumed) ==
  /\ pending' = Without(pending, o)
  /\ letGo' = letGo \cup {h \in InPool : txs[h].nonce = pending[o].nonce}
  /\ ReleaseNonce(o, pending[o].nonce, consumed)

Reconciled ==
  /\ pc = "reconcile" /\ todo = {}
  /\ pc' = "next"
  /\ UNCHANGED <<chainVars, worldVars, storeVars, heldVars, nonceVars, sample, queue, todo, cur, attempt, offer, verdict>>

(* Mutants of ReceiptFound: its status is not read; a reverted settlement  *)
(* stays tracked.                                                          *)
ReceiptUnread(o) ==
  /\ pc = "reconcile" /\ o \in todo /\ Settled(pending[o].tx)
  /\ Forget(o, TRUE)
  /\ book' = MarkExecuted(book, o)
  /\ todo' = todo \ {o}
  /\ UNCHANGED <<chainVars, worldVars, latest, pc, sample, queue, cur, attempt, offer, verdict>>

RevertKept(o) ==
  /\ pc = "reconcile" /\ o \in todo /\ Settled(pending[o].tx)
  /\ IF txs[pending[o].tx].state = "mined"
     THEN Forget(o, TRUE) /\ book' = MarkExecuted(book, o)
     ELSE UNCHANGED <<book, heldVars, nonceVars>>
  /\ todo' = todo \ {o}
  /\ UNCHANGED <<chainVars, worldVars, latest, pc, sample, queue, cur, attempt, offer, verdict>>

ReceiptFound(o) ==
  /\ pc = "reconcile" /\ o \in todo
  /\ Settled(pending[o].tx)
  /\ Forget(o, TRUE)
  /\ book' = IF txs[pending[o].tx].state = "mined" THEN MarkExecuted(book, o) ELSE book
  /\ todo' = todo \ {o}
  /\ UNCHANGED <<chainVars, worldVars, latest, pc, sample, queue, cur, attempt, offer, verdict>>

ReceiptMissing(o) ==
  /\ pc = "reconcile" /\ o \in todo
  /\ ~calm \/ ~Settled(pending[o].tx)
  /\ cur' = o /\ todo' = todo \ {o}
  /\ pc' = "lookup"
  /\ UNCHANGED <<chainVars, worldVars, storeVars, heldVars, nonceVars, sample, queue, attempt, offer, verdict>>

(* Any RPC error while a broadcast is examined: it is kept for a later     *)
(* tick.  (A receipt error at "reconcile" is the same as one at "lookup".) *)
KeepPending ==
  /\ pc \in {"lookup", "status"} /\ ~calm
  /\ pc' = "reconcile"
  /\ UNCHANGED <<chainVars, worldVars, storeVars, heldVars, nonceVars, sample, queue, todo, cur, attempt, offer, verdict>>

(* TransactionByHash finds it in the mempool; after 30s it counts as       *)
(* stuck.                                                                  *)
LookupPending ==
  /\ pc = "lookup"
  /\ txs[pending[cur].tx].state = "pool" \/ (~calm /\ Settled(pending[cur].tx))
  /\ pending' = [pending EXCEPT ![cur].misses = 0]
  /\ IF pending[cur].old THEN pc' = "status" /\ verdict' = "stuck"
     ELSE pc' = "reconcile" /\ UNCHANGED verdict
  /\ UNCHANGED <<letGo, chainVars, worldVars, storeVars, nonceVars, sample, queue, todo, cur, attempt, offer>>

LookupMined ==
  /\ pc = "lookup"
  /\ Settled(pending[cur].tx)
  /\ pc' = "status" /\ verdict' = "minedNoReceipt"
  /\ UNCHANGED <<chainVars, worldVars, storeVars, heldVars, nonceVars, sample, queue, todo, cur, attempt, offer>>

LookupMissing ==
  /\ pc = "lookup"
  /\ ~calm \/ txs[pending[cur].tx].state = "void"
  /\ LET m == pending[cur].misses + 1 IN
       /\ pending' = [pending EXCEPT ![cur].misses = IF m > pendingDropChecks THEN pendingDropChecks ELSE m]
       /\ IF m < pendingDropChecks THEN pc' = "reconcile" /\ UNCHANGED verdict
          ELSE pc' = "status" /\ verdict' = "dropped"
  /\ UNCHANGED <<letGo, chainVars, worldVars, storeVars, nonceVars, sample, queue, todo, cur, attempt, offer>>

(* reconcileAgainstVault, by the status onChainOrderStatus reads: a node   *)
(* behind the chain answers an earlier one.                                *)
VaultExecuted ==
  /\ pc = "status" /\ vault[cur] = "executed"
  /\ Forget(cur, verdict = "minedNoReceipt")
  /\ book' = MarkExecuted(book, cur)
  /\ pc' = "reconcile"
  /\ UNCHANGED <<chainVars, worldVars, latest, sample, queue, todo, cur, attempt, offer, verdict>>

(* Mutant of VaultClosed: the nonce stays reserved.                        *)
ClosedLeaksNonce ==
  /\ pc = "status" /\ vault[cur] \in {"none", "cancelled"}
  /\ pending' = Without(pending, cur) /\ book' = Delete(book, cur)
  /\ letGo' = letGo \cup InPool
  /\ pc' = "reconcile"
  /\ UNCHANGED <<chainVars, worldVars, latest, nonceVars, sample, queue, todo, cur, attempt, offer, verdict>>

VaultClosed ==
  /\ pc = "status" /\ (vault[cur] \in {"none", "cancelled"} \/ ~calm)
  /\ Forget(cur, verdict = "minedNoReceipt")
  /\ book' = Delete(book, cur)
  /\ pc' = "reconcile"
  /\ UNCHANGED <<chainVars, worldVars, latest, sample, queue, todo, cur, attempt, offer, verdict>>

VaultOpen ==
  /\ pc = "status" /\ (vault[cur] = "open" \/ (~calm /\ vault[cur] # "none"))
  /\ IF verdict = "minedNoReceipt"
     THEN Forget(cur, TRUE) /\ pc' = "reconcile"
     ELSE pc' = "decide" /\ UNCHANGED <<heldVars, nonceVars>>
  /\ UNCHANGED <<chainVars, worldVars, storeVars, sample, queue, todo, cur, attempt, offer, verdict>>

Active == /\ sample # NoSample
          /\ HasTrigger(book[cur])
          /\ sample <= Effective(book[cur])

(* Mutant of DecideActive: the replacement repeats the old trigger.        *)
DecideStale ==
  /\ pc = "decide" /\ Active
  /\ offer' = txs[pending[cur].tx].trigger
  /\ pc' = "reestimate"
  /\ UNCHANGED <<chainVars, worldVars, storeVars, heldVars, nonceVars, sample, queue, todo, cur, attempt, verdict>>

DecideActive ==
  /\ pc = "decide" /\ Active
  /\ offer' = Effective(book[cur])
  /\ pc' = "reestimate"
  /\ UNCHANGED <<chainVars, worldVars, storeVars, heldVars, nonceVars, sample, queue, todo, cur, attempt, verdict>>

(* Mutant of DecideInactive: a dropped broadcast waits for a crossing.     *)
DroppedWaits ==
  /\ pc = "decide" /\ ~Active
  /\ pc' = "reconcile"
  /\ UNCHANGED <<chainVars, worldVars, storeVars, heldVars, nonceVars, sample, queue, todo, cur, attempt, offer, verdict>>

DecideInactive ==
  /\ pc = "decide" /\ ~Active
  /\ IF verdict = "dropped" /\ sample # NoSample
     THEN Forget(cur, FALSE) ELSE UNCHANGED <<heldVars, nonceVars>>
  /\ pc' = "reconcile"
  /\ UNCHANGED <<chainVars, worldVars, storeVars, sample, queue, todo, cur, attempt, offer, verdict>>
-----------------------------------------------------------------------------
(* Broadcasting.  A transaction is sent with a nonce, an order and the     *)
(* trigger it reveals; its hash is its place in txs.                       *)

Signed(n, o, t, s) == [nonce |-> n, order |-> o, trigger |-> t, state |-> s]

(* Bound: only EarlyTx broadcasts before the network calms.                *)
MayBroadcast == calm \/ Len(txs) < EarlyTx

(* Another transaction of the mempool holds the nonce: the node may find   *)
(* the new one underpriced.                                                *)
NonceContended(n, h) == \E g \in DOMAIN txs : g # h /\ txs[g].state = "pool" /\ txs[g].nonce = n

(* The node may answer a broadcast with an error and not keep it: it must  *)
(* when the nonce is already used.                                         *)
MayReject(n, h) == ~calm \/ n < chainNonce \/ NonceContended(n, h)

(* replacePending: claim the nonce, price and estimate the new settlement. *)
Claimable(n) == n \in DOMAIN nonceOwners => nonceOwners[n] = cur

Claim(n) == nonceOwners' = IF Claimable(n) THEN With(nonceOwners, n, cur) ELSE nonceOwners

ReplaceFails ==
  /\ pc = "reestimate"
  /\ ~calm \/ ~Claimable(pending[cur].nonce) \/ ~WouldSettle(cur, offer)
  /\ Claim(pending[cur].nonce)
  /\ pc' = "reconcile"
  /\ UNCHANGED <<chainVars, worldVars, storeVars, heldVars, nextNonce, sample, queue, todo, cur, attempt, offer, verdict>>

ReplaceEstimated ==
  /\ pc = "reestimate"
  /\ Claimable(pending[cur].nonce) /\ WouldSettle(cur, offer)
  /\ Claim(pending[cur].nonce)
  /\ pc' = "resend"
  /\ UNCHANGED <<chainVars, worldVars, storeVars, heldVars, nextNonce, sample, queue, todo, cur, attempt, offer, verdict>>

(* Accepted: the new hash replaces the tracked one.                        *)
ResendAccepted ==
  /\ pc = "resend" /\ MayBroadcast /\ Len(txs) < MaxTx
  /\ LET n == pending[cur].nonce IN
       /\ n >= chainNonce
       /\ txs' = Append(txs, Signed(n, cur, offer, "pool"))
       /\ pending' = [pending EXCEPT ![cur] = Broadcast(Len(txs) + 1, n)]
  /\ pc' = "reconcile"
  /\ UNCHANGED <<letGo, vault, price, fresh, chainNonce, worldVars, storeVars, nonceVars, sample, queue, todo, cur, attempt, offer, verdict>>

(* An error: the old hash stays tracked, whether or not the new            *)
(* transaction reached the network.                                        *)
ResendFails ==
  /\ pc = "resend"
  /\ LET n == pending[cur].nonce IN
       \/ /\ MayReject(n, pending[cur].tx) \/ Len(txs) >= MaxTx
          /\ UNCHANGED txs
       \/ /\ ~calm /\ MayBroadcast /\ n >= chainNonce
          /\ txs' = Append(txs, Signed(n, cur, offer, "pool"))
  /\ pc' = "reconcile"
  /\ UNCHANGED <<vault, price, fresh, chainNonce, worldVars, storeVars, heldVars, nonceVars, sample, queue, todo, cur, attempt, offer, verdict>>

-----------------------------------------------------------------------------
(* The settle loop over the orders the sample crossed, smallest id first.  *)

NextCrossed == CHOOSE q \in queue : \A r \in queue : q.id <= r.id

(* Nothing left, or a broadcast is unconfirmed: one executor transaction   *)
(* at a time.                                                              *)
EndTick ==
  /\ pc = "next" /\ (queue = {} \/ DOMAIN pending # {})
  /\ queue' = {} /\ pc' = "idle"
  /\ sample' = NoSample /\ cur' = NoOrder /\ attempt' = 0 /\ offer' = 0 /\ verdict' = "stuck"
  /\ UNCHANGED <<chainVars, worldVars, storeVars, heldVars, nonceVars, todo>>

(* The next crossed order, if the book still holds it open.                *)
TakeOrder ==
  /\ pc = "next" /\ queue # {} /\ DOMAIN pending = {}
  /\ queue' = queue \ {NextCrossed}
  /\ IF book[NextCrossed.id].status = "open"
     THEN /\ cur' = NextCrossed.id /\ offer' = NextCrossed.trigger /\ attempt' = 1
          /\ pc' = "estimate"
     ELSE UNCHANGED <<cur, offer, attempt, pc>>
  /\ UNCHANGED <<chainVars, worldVars, storeVars, heldVars, nonceVars, sample, todo, verdict>>

(* A failed attempt: try again after a pause, or give up.                  *)
TryAgain ==
  IF attempt < settleAttempts
  THEN attempt' = attempt + 1 /\ pc' = "estimate"
  ELSE UNCHANGED attempt /\ pc' = "giveUp"

(* The attempts are exhausted: the order waits for the next tick.          *)
GiveUp ==
  /\ pc = "giveUp"
  /\ ReleaseOrderNonce(cur, FALSE)
  /\ pc' = "next"
  /\ UNCHANGED <<chainVars, worldVars, storeVars, heldVars, sample, queue, todo, cur, attempt, offer, verdict>>

(* Gas price or gas estimate fails: no nonce was reserved by this attempt. *)
EstimateFails ==
  /\ pc = "estimate"
  /\ ~calm \/ ~WouldSettle(cur, offer)
  /\ TryAgain
  /\ UNCHANGED <<chainVars, worldVars, storeVars, heldVars, nonceVars, sample, queue, todo, cur, offer, verdict>>

Estimated ==
  /\ pc = "estimate" /\ WouldSettle(cur, offer)
  /\ pc' = "reserve"
  /\ UNCHANGED <<chainVars, worldVars, storeVars, heldVars, nonceVars, sample, queue, todo, cur, attempt, offer, verdict>>

NonceFails ==
  /\ pc = "reserve" /\ ~calm /\ OwnedBy(cur) = {}
  /\ TryAgain
  /\ UNCHANGED <<chainVars, worldVars, storeVars, heldVars, nonceVars, sample, queue, todo, cur, offer, verdict>>

NonceReserved ==
  /\ pc = "reserve"
  /\ \E r \in RemoteNonce : ReserveNonce(cur, r)
  /\ pc' = "send"
  /\ UNCHANGED <<chainVars, worldVars, storeVars, heldVars, sample, queue, todo, cur, attempt, offer, verdict>>

SendAccepted ==
  /\ pc = "send" /\ MayBroadcast
  /\ LET n == Least(OwnedBy(cur)) IN
       /\ n >= chainNonce
       /\ txs' = Append(txs, Signed(n, cur, offer, "pool"))
  /\ pc' = "confirm"
  /\ UNCHANGED <<vault, price, fresh, chainNonce, worldVars, storeVars, heldVars, nonceVars, sample, queue, todo, cur, attempt, offer, verdict>>

Track(h) ==
  /\ pending' = With(pending, cur, Broadcast(h, Least(OwnedBy(cur))))
  /\ UNCHANGED letGo

(* Mutant of SendUncertain: a failed send is tried again like the others.  *)
SendRetried ==
  /\ pc = "send" /\ MayBroadcast
  /\ LET n == Least(OwnedBy(cur)) IN
       \E s \in {"pool", "void"} :
          /\ s = "pool" => ~calm /\ n >= chainNonce
          /\ s = "void" => MayReject(n, 0)
          /\ txs' = Append(txs, Signed(n, cur, offer, s))
  /\ TryAgain
  /\ UNCHANGED <<vault, price, fresh, chainNonce, worldVars, storeVars, heldVars, nonceVars, sample, queue, todo, cur, offer, verdict>>

(* SendTransaction returns an error: the hash is tracked all the same,     *)
(* whether the transaction reached the network or not.                     *)
SendUncertain ==
  /\ pc = "send" /\ MayBroadcast
  /\ LET n == Least(OwnedBy(cur)) IN
       \E s \in {"pool", "void"} :
          /\ s = "pool" => ~calm /\ n >= chainNonce
          /\ s = "void" => MayReject(n, 0)
          /\ txs' = Append(txs, Signed(n, cur, offer, s))
  /\ Track(Len(txs) + 1)
  /\ pc' = "next"
  /\ UNCHANGED <<vault, price, fresh, chainNonce, worldVars, storeVars, nonceVars, sample, queue, todo, cur, attempt, offer, verdict>>

(* The one immediate receipt lookup after a successful send.               *)
Confirmed ==
  /\ pc = "confirm" /\ txs[Len(txs)].state = "mined"
  /\ ReleaseNonce(cur, Least(OwnedBy(cur)), TRUE)
  /\ book' = MarkExecuted(book, cur)
  /\ pc' = "next"
  /\ UNCHANGED <<chainVars, worldVars, latest, heldVars, sample, queue, todo, cur, attempt, offer, verdict>>

(* Mutant of ConfirmReverted: the retry reuses the consumed nonce.         *)
RetryKeepsNonce ==
  /\ pc = "confirm" /\ txs[Len(txs)].state = "reverted"
  /\ TryAgain
  /\ UNCHANGED <<chainVars, worldVars, storeVars, heldVars, nonceVars, sample, queue, todo, cur, offer, verdict>>

(* A reverted settlement consumed its nonce; the retry takes a fresh one.  *)
ConfirmReverted ==
  /\ pc = "confirm" /\ txs[Len(txs)].state = "reverted"
  /\ ReleaseNonce(cur, Least(OwnedBy(cur)), TRUE)
  /\ TryAgain
  /\ UNCHANGED <<chainVars, worldVars, storeVars, heldVars, sample, queue, todo, cur, offer, verdict>>

Unconfirmed ==
  /\ pc = "confirm" /\ (~calm \/ ~Settled(Len(txs)))
  /\ Track(Len(txs))
  /\ pc' = "next"
  /\ UNCHANGED <<chainVars, worldVars, storeVars, nonceVars, sample, queue, todo, cur, attempt, offer, verdict>>

-----------------------------------------------------------------------------
Chain == \/ \E h \in DOMAIN txs : Mine(h) \/ Drop(h)
         \/ \E p \in Prices : MovePrice(p)
         \/ ToggleFresh \/ BecomeCalm
         \/ \E o \in DOMAIN pending : Age(o)

Owners == \E o \in Orders : PlaceOrder(o) \/ CancelOrder(o)

Handlers == \E m \in wire : ProcessPlaceOrder(m) \/ ProcessCancelOrder(m)

Tick == ReadFails \/ ReadPrice \/ Observe \/ Scan \/ EndTick

Reconcile == \/ Reconciled
             \/ \E o \in todo : ReceiptFound(o) \/ ReceiptMissing(o)
             \/ KeepPending \/ LookupPending \/ LookupMined \/ LookupMissing
             \/ VaultExecuted \/ VaultClosed \/ VaultOpen
             \/ DecideActive \/ DecideInactive
             \/ ReplaceFails \/ ReplaceEstimated \/ ResendAccepted \/ ResendFails

Settle == \/ TakeOrder \/ GiveUp \/ EstimateFails \/ Estimated \/ NonceFails \/ NonceReserved
          \/ SendAccepted \/ SendUncertain \/ Confirmed \/ ConfirmReverted \/ Unconfirmed

Watcher == Tick \/ Reconcile \/ Settle

Next == Chain \/ Owners \/ Handlers \/ Restart \/ Watcher

Spec == Init /\ [][Next]_vars

-----------------------------------------------------------------------------
(* Properties.                                                             *)

TypeOK ==
  /\ vault \in [Orders -> {"none", "open", "executed", "cancelled"}]
  /\ price \in Prices /\ fresh \in BOOLEAN
  /\ txs \in Seq(Tx) /\ chainNonce \in Nat
  /\ wire \subseteq [command : {"PLACE_ORDER", "CANCEL_ORDER"}, id : Orders]
  /\ calm \in BOOLEAN /\ restarts \in 0 .. MaxRestarts
  /\ book \in [Orders -> Entry] /\ latest \in Prices \cup {NoSample}
  /\ DOMAIN pending \subseteq Orders
  /\ \A o \in DOMAIN pending : pending[o] \in Pending /\ pending[o].tx \in DOMAIN txs
  /\ letGo \subseteq DOMAIN txs
  /\ DOMAIN nonceOwners \subseteq Nat
  /\ \A n \in DOMAIN nonceOwners : nonceOwners[n] \in Orders
  /\ nextNonce \in Nat
  /\ pc \in {"idle", "observe", "scan", "reconcile", "lookup", "status", "decide", "reestimate",
             "resend", "next", "estimate", "reserve", "send", "confirm", "giveUp"}
  /\ sample \in Prices \cup {NoSample}
  /\ queue \subseteq [id : Orders, trigger : Nat]
  /\ todo \subseteq Orders
  /\ cur \in Orders \cup {NoOrder} /\ attempt \in 0 .. settleAttempts /\ offer \in Nat
  /\ verdict \in {"stuck", "dropped", "minedNoReceipt"}

(* A settlement that may still be mined is the one being confirmed, or     *)
(* has the nonce that is tracked for its order, so that of all that are    *)
(* unconfirmed one can execute; the others are those the watcher let go    *)
(* of on purpose: a node had lost it and its trigger was not crossed, the  *)
(* vault had closed its order, or the enclave restarted.  Neither a failed *)
(* send, a retry, a fee bump nor a step of the loop leaves one behind      *)
(* (watcher.go lines 183-188, 548-553, 617-622).                           *)
OneUnconfirmed ==
  /\ \A o, p \in DOMAIN pending : o = p
  /\ \A h \in InPool \ letGo :
       \/ txs[h].order \in DOMAIN pending /\ txs[h].nonce = pending[txs[h].order].nonce
       \/ pc = "confirm" /\ h = Len(txs) /\ DOMAIN pending = {}

(* The enclave takes an order for executed only if the vault executed it,  *)
(* whatever lookups lagged or failed on the way (lines 196, 235, 294).     *)
ExecutedBacked == \A o \in Orders : book[o].status = "executed" => vault[o] = "executed"

(* Every tracked broadcast owns the nonce it was sent with, and outside a  *)
(* send no other reservation survives: a nonce is neither shared by two    *)
(* orders nor leaked by a failed, reverted, replaced or dropped settlement *)
(* (lines 95-99, 479-535).                                                 *)
NoncesAccounted ==
  /\ \A o \in DOMAIN pending : OwnedBy(o) = {pending[o].nonce}
  /\ pc \notin {"send", "confirm"} =>
       DOMAIN nonceOwners = {pending[o].nonce : o \in DOMAIN pending}

(* A trigger is revealed on chain only by a tick whose own sample crossed  *)
(* it, and never one looser than the policy the order has in the book by   *)
(* then; an order cancelled and put again in between is the exception, and *)
(* its new watermark is the tick's own sample (lines 176-194, 305-315,     *)
(* 607).                                                                   *)
PutAnew(o) == book[o].bps > 0 /\ book[o].high = sample

RevealsOnlyCrossed == [][
  Len(txs') > Len(txs) =>
    LET t == txs'[Len(txs')] IN
    /\ sample # NoSample /\ sample <= t.trigger
    /\ \/ book[t.order].status # "open" \/ PutAnew(t.order)
       \/ t.trigger <= Effective(book[t.order])]_vars

(* No transaction waits for a nonce nobody holds: "One executor            *)
(* transaction at a time prevents nonce gaps" (line 183).                  *)
NoNonceGap == \A h \in DOMAIN txs : txs[h].state = "pool" =>
  \A n \in chainNonce .. txs[h].nonce - 1 :
     \E g \in DOMAIN txs : txs[g].state = "pool" /\ txs[g].nonce = n

-----------------------------------------------------------------------------
(* Liveness.  The goroutine keeps running (each of its RPCs returns), the  *)
(* network mines what it can mine and time passes.  Nothing obliges the    *)
(* instruction queue to deliver, nor the network to become calm; the       *)
(* properties speak of orders the enclave holds, once it is.               *)

Fairness == /\ WF_vars(Watcher)
            /\ WF_vars(\E h \in DOMAIN txs : Mine(h))
            /\ WF_vars(\E o \in DOMAIN pending : Age(o))

FairSpec == Spec /\ Fairness

(* The feed stands at or below the trigger the enclave holds for o.        *)
NowCrossed(o) == HasTrigger(book[o]) /\ price <= Effective(book[o])

MustSettle(o) == calm /\ vault[o] = "open" /\ NowCrossed(o)

Done(o) == vault[o] # "open"

(* The tracked broadcast can never be mined: its nonce was used by another *)
(* transaction, or a lower one is missing.                                 *)
Burned == \E o \in DOMAIN pending :
            txs[pending[o].tx].state = "void" /\ pending[o].nonce < chainNonce
Gapped == \E o \in DOMAIN pending : pending[o].nonce > chainNonce

(* An order whose trigger stays crossed on a calm network is settled (or   *)
(* closed by its owner), whatever failed before: lost and uncertain sends, *)
(* lagging receipts, reverted, dropped, stuck and replaced settlements of  *)
(* any order.  Only a tracked broadcast whose nonce can never be mined     *)
(* stops it, and for good (tick, lines 182-204; reconcilePending, lines    *)
(* 221-326).                                                               *)
SettlesUnlessStranded ==
  \A o \in Orders : [](MustSettle(o) => <>(Done(o) \/ [](Burned \/ Gapped)))

(* Once no trigger is crossed, the watcher lets go of every broadcast,     *)
(* even one whose nonce was burned, unless one before it is missing for    *)
(* good: "a dropped inactive order" cannot "strand later settlements"      *)
(* (lines 184-185, 307-313).                                               *)
IdleClears ==
  []((calm /\ \A o \in Orders : ~NowCrossed(o))
       => <>(DOMAIN pending = {} \/ []Gapped \/ \E o \in Orders : NowCrossed(o)))

(* A broadcast "cannot block an order forever" (lines 46-48).              *)
NeverBlockedForever == \A o \in Orders : MustSettle(o) ~> Done(o)
=============================================================================
