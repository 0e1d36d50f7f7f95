---------------------------- MODULE DarkStopVault ----------------------------
(***************************************************************************)
(* The on-chain half of DarkStop: contracts/DarkStopVault.sol with the     *)
(* payout token it spends (contracts/MockUSDT0.sol), the FTSO feed it      *)
(* re-reads and the TEE registries it sends instructions through.          *)
(*                                                                         *)
(* The EVM runs one call at a time, so every external function is one      *)
(* action, except cancel, whose refund hands control to the owner's code   *)
(* (the low-level call of line 221): that code may call the vault again    *)
(* before cancel returns, and a failure there undoes the whole call.  The  *)
(* stack "frames" holds the calls in that position, each with the world    *)
(* its failure restores.  A call that reverts changes nothing and is no    *)
(* step.                                                                   *)
(***************************************************************************)
EXTENDS Integers, Sequences

CONSTANTS Accounts,     \* addresses that call the vault
          OWNER,        \* the deployer of the vault and of the token
          NoAccount,    \* the zero address
          MaxOrders,    \* bound: ids 1 .. MaxOrders can be placed
          INSTRUCTION_FEE,
          Values,       \* msg.value amounts callers attach
          Prices,       \* feed prices and triggers, at payout decimals
          MAX_PRICE_AGE_SEC,
          MaxTime,      \* bound on block.timestamp
          Unit,         \* one native token (1e18 wei in the contract)
          Mints,        \* amounts minted to the payout pool at a time
          MaxMinted,    \* bound on the minted supply
          MaxDepth,     \* bound on nested cancel calls
          MaxExtensions \* bound on the registry's extension counter

VARIABLES world,        \* contract storage and balances; a revert restores it
          frames,       \* cancel calls whose refund callback is running
          registry,     \* registry[i + 1]: is extension i's sender the vault
          machineUp,    \* getRandomTeeIds has a machine to return
          feed,         \* FTSO FLR/USD: price and timestamp
          now           \* block.timestamp

vars == <<world, frames, registry, machineUp, feed, now>>

Ids == 1 .. MaxOrders

ASSUME VaultAssumption ==
  /\ OWNER \in Accounts /\ NoAccount \notin Accounts
  /\ MaxOrders \in Nat /\ MaxDepth \in Nat /\ MaxExtensions \in Nat
  /\ INSTRUCTION_FEE \in Nat /\ MAX_PRICE_AGE_SEC \in Nat /\ MaxTime \in Nat
  /\ MaxMinted \in Nat /\ Unit \in Nat \ {0}
  /\ Values \subseteq Nat /\ Prices \subseteq Nat /\ Mints \subseteq Nat

-----------------------------------------------------------------------------
(* State.                                                                  *)

Statuses == {"none", "open", "executed", "cancelled"}

Order == [owner : Accounts \cup {NoAccount}, deposit : Nat, status : Statuses]

Unplaced == [owner |-> NoAccount, deposit |-> 0, status |-> "none"]

Instruction == [command : {"PLACE_ORDER", "CANCEL_ORDER"}, id : Ids]

(* Money that leaves the vault on behalf of one order.                     *)
Transfer == [kind : {"payout", "refund"}, amount : Nat]

(* "transfers" is history: what left the vault for each order.             *)
World == [orders : [Ids -> Order], nextOrderId : Nat,
          teeExecutor : Accounts \cup {NoAccount}, extensionId : Nat,
          native : Nat, pool : Nat, minted : Nat,
          instructions : SUBSET Instruction,
          transfers : [Ids -> Seq(Transfer)]]

Frame == [owner : Accounts, saved : World]

InitWorld == [orders |-> [i \in Ids |-> Unplaced], nextOrderId |-> 0,
              teeExecutor |-> NoAccount, extensionId |-> 0,
              native |-> 0, pool |-> 0, minted |-> 0,
              instructions |-> {}, transfers |-> [i \in Ids |-> <<>>]]

Init == /\ world = InitWorld
        /\ frames = <<>>
        /\ registry = <<>>
        /\ machineUp = FALSE
        /\ feed \in [price : Prices, at : {0}]
        /\ now = 0

-----------------------------------------------------------------------------
(* Calls.  Between transactions anyone may call.  While a refund is being  *)
(* delivered the refunded owner's code runs, and through it any contract,  *)
(* which may be an owner, the executor or OWNER itself.                    *)

(* _sendInstruction returns: extension id set, a machine to address.       *)
CanInstruct == world.extensionId # 0 /\ machineUp

(* setExtensionId: the first extension whose sender is the vault.  Id 0    *)
(* reads back as unset.                                                    *)
setExtensionId ==
  /\ world.extensionId = 0
  /\ \E i \in 0 .. Len(registry) - 1 :
       /\ registry[i + 1]
       /\ \A j \in 0 .. i - 1 : ~registry[j + 1]
       /\ world' = [world EXCEPT !.extensionId = i]
  /\ UNCHANGED <<frames, registry, machineUp, feed, now>>

setTeeExecutor(a, executor) ==
  /\ a = OWNER
  /\ world' = [world EXCEPT !.teeExecutor = executor]
  /\ UNCHANGED <<frames, registry, machineUp, feed, now>>

(* MockUSDT0.mint to the vault.                                            *)
mint(a, amount) ==
  /\ a = OWNER
  /\ world.minted + amount <= MaxMinted
  /\ world' = [world EXCEPT !.minted = @ + amount, !.pool = @ + amount]
  /\ UNCHANGED <<frames, registry, machineUp, feed, now>>

(* Mutant of placeOrder: the fee is recorded as part of the deposit.       *)
placeOrderWithFee(a, value) ==
  LET id == world.nextOrderId + 1 IN
  /\ id \in Ids /\ value > INSTRUCTION_FEE /\ CanInstruct
  /\ world' = [world EXCEPT
       !.nextOrderId = id,
       !.orders[id] = [owner |-> a, deposit |-> value, status |-> "open"],
       !.native = @ + (value - INSTRUCTION_FEE),
       !.instructions = @ \cup {[command |-> "PLACE_ORDER", id |-> id]}]
  /\ UNCHANGED <<frames, registry, machineUp, feed, now>>

placeOrder(a, value) ==
  LET id == world.nextOrderId + 1 IN
  /\ id \in Ids
  /\ value > INSTRUCTION_FEE
  /\ CanInstruct
  /\ world' = [world EXCEPT
       !.nextOrderId = id,
       !.orders[id] = [owner |-> a, deposit |-> value - INSTRUCTION_FEE, status |-> "open"],
       !.native = @ + (value - INSTRUCTION_FEE),
       !.instructions = @ \cup {[command |-> "PLACE_ORDER", id |-> id]}]
  /\ UNCHANGED <<frames, registry, machineUp, feed, now>>

(* The feed's age as line 190 computes it: checked arithmetic, so a feed   *)
(* dated after the block reverts.                                          *)
FreshFeed(maxAge) == feed.at <= now /\ now - feed.at <= maxAge

Payout(id) == (world.orders[id].deposit * feed.price) \div Unit

(* What settle does once its checks have passed.                           *)
Execute(id) == world' = [world EXCEPT
  !.orders[id].status = "executed",
  !.pool = @ - Payout(id),
  !.transfers[id] = Append(@, [kind |-> "payout", amount |-> Payout(id)])]

(* Mutants of settle: any placed order; any age; any pool.                 *)
settleAnyStatus(a, id, trigger, maxAge) ==
  /\ a = world.teeExecutor /\ maxAge <= MAX_PRICE_AGE_SEC
  /\ world.orders[id].status # "none" /\ FreshFeed(maxAge) /\ feed.price <= trigger
  /\ Payout(id) <= world.pool /\ Execute(id)
  /\ UNCHANGED <<frames, registry, machineUp, feed, now>>

settleUncapped(a, id, trigger, maxAge) ==
  /\ a = world.teeExecutor
  /\ world.orders[id].status = "open" /\ FreshFeed(maxAge) /\ feed.price <= trigger
  /\ Payout(id) <= world.pool /\ Execute(id)
  /\ UNCHANGED <<frames, registry, machineUp, feed, now>>

settleUnfunded(a, id, trigger, maxAge) ==
  /\ a = world.teeExecutor /\ maxAge <= MAX_PRICE_AGE_SEC
  /\ world.orders[id].status = "open" /\ FreshFeed(maxAge) /\ feed.price <= trigger
  /\ Execute(id)
  /\ UNCHANGED <<frames, registry, machineUp, feed, now>>

settle(a, id, trigger, maxAge) ==
  /\ a = world.teeExecutor
  /\ maxAge <= MAX_PRICE_AGE_SEC
  /\ world.orders[id].status = "open"
  /\ FreshFeed(maxAge)
  /\ feed.price <= trigger
  /\ Payout(id) <= world.pool
  /\ Execute(id)
  /\ UNCHANGED <<frames, registry, machineUp, feed, now>>

(* Mutants of cancel: the order stays open; the enclave is not told.       *)
cancelLeavingOpen(a, id) ==
  /\ a = world.orders[id].owner /\ world.orders[id].status = "open"
  /\ CanInstruct /\ world.orders[id].deposit <= world.native /\ Len(frames) < MaxDepth
  /\ world' = [world EXCEPT
       !.native = @ - world.orders[id].deposit,
       !.instructions = @ \cup {[command |-> "CANCEL_ORDER", id |-> id]},
       !.transfers[id] = Append(@, [kind |-> "refund", amount |-> world.orders[id].deposit])]
  /\ frames' = Append(frames, [owner |-> a, saved |-> world])
  /\ UNCHANGED <<registry, machineUp, feed, now>>

cancelSilently(a, id) ==
  /\ a = world.orders[id].owner /\ world.orders[id].status = "open"
  /\ CanInstruct /\ world.orders[id].deposit <= world.native /\ Len(frames) < MaxDepth
  /\ world' = [world EXCEPT
       !.orders[id].status = "cancelled",
       !.native = @ - world.orders[id].deposit,
       !.transfers[id] = Append(@, [kind |-> "refund", amount |-> world.orders[id].deposit])]
  /\ frames' = Append(frames, [owner |-> a, saved |-> world])
  /\ UNCHANGED <<registry, machineUp, feed, now>>

(* cancel up to the point where the owner receives the refund.  A fee the  *)
(* caller attaches goes on to the registry and is not the vault's.         *)
cancel(a, id) ==
  /\ a = world.orders[id].owner
  /\ world.orders[id].status = "open"
  /\ CanInstruct
  /\ world.orders[id].deposit <= world.native
  /\ Len(frames) < MaxDepth
  /\ world' = [world EXCEPT
       !.orders[id].status = "cancelled",
       !.native = @ - world.orders[id].deposit,
       !.instructions = @ \cup {[command |-> "CANCEL_ORDER", id |-> id]},
       !.transfers[id] = Append(@, [kind |-> "refund", amount |-> world.orders[id].deposit])]
  /\ frames' = Append(frames, [owner |-> a, saved |-> world])
  /\ UNCHANGED <<registry, machineUp, feed, now>>

PopFrame == frames' = SubSeq(frames, 1, Len(frames) - 1)

(* The owner accepted the refund: cancel returns.                          *)
cancelReturns ==
  /\ frames # <<>>
  /\ PopFrame
  /\ UNCHANGED <<world, registry, machineUp, feed, now>>

(* Mutant of cancelReverts: a refused refund leaves the order cancelled.   *)
cancelKeepsDeposit ==
  /\ frames # <<>>
  /\ world' = [world EXCEPT !.native = frames[Len(frames)].saved.native]
  /\ PopFrame
  /\ UNCHANGED <<registry, machineUp, feed, now>>

(* "refund failed": the call reverts with everything done since it began.  *)
cancelReverts ==
  /\ frames # <<>>
  /\ world' = frames[Len(frames)].saved
  /\ PopFrame
  /\ UNCHANGED <<registry, machineUp, feed, now>>

-----------------------------------------------------------------------------
(* What happens around the vault, between transactions.                    *)

registerExtension(isVault) ==
  /\ frames = <<>>
  /\ Len(registry) < MaxExtensions
  /\ registry' = Append(registry, isVault)
  /\ UNCHANGED <<world, frames, machineUp, feed, now>>

toggleMachine ==
  /\ frames = <<>>
  /\ machineUp' = ~machineUp
  /\ UNCHANGED <<world, frames, registry, feed, now>>

(* The feed may carry a timestamp one second ahead of the block.           *)
publishPrice(p, t) ==
  /\ frames = <<>>
  /\ t >= feed.at /\ t <= now + 1
  /\ feed' = [price |-> p, at |-> t]
  /\ UNCHANGED <<world, frames, registry, machineUp, now>>

tick ==
  /\ frames = <<>>
  /\ now < MaxTime
  /\ now' = now + 1
  /\ UNCHANGED <<world, frames, registry, machineUp, feed>>

-----------------------------------------------------------------------------
Next ==
  \/ setExtensionId
  \/ \E a \in Accounts, e \in Accounts : setTeeExecutor(a, e)
  \/ \E a \in Accounts, m \in Mints : mint(a, m)
  \/ \E a \in Accounts, v \in Values : placeOrder(a, v)
  \/ \E a \in Accounts, id \in Ids, p \in Prices, g \in 0 .. MaxTime : settle(a, id, p, g)
  \/ \E a \in Accounts, id \in Ids : cancel(a, id)
  \/ cancelReturns
  \/ cancelReverts
  \/ \E b \in BOOLEAN : registerExtension(b)
  \/ toggleMachine
  \/ \E p \in Prices, t \in 0 .. MaxTime : publishPrice(p, t)
  \/ tick

Spec == Init /\ [][Next]_vars

-----------------------------------------------------------------------------
(* Properties.                                                             *)

TypeOK ==
  /\ world \in World
  /\ frames \in Seq(Frame)
  /\ registry \in Seq(BOOLEAN)
  /\ machineUp \in BOOLEAN
  /\ feed \in [price : Prices, at : Nat]
  /\ now \in Nat

(* An order's status and the money that left the vault for it agree: the   *)
(* whole deposit back exactly once if it was cancelled, one payout if it   *)
(* was executed, nothing before; whatever the owner's code calls while a   *)
(* refund is being delivered, and whatever a failed refund undoes          *)
(* (settle, lines 187-201; cancel, lines 213-222).                         *)
OneTransfer == \A i \in Ids :
  LET o == world.orders[i]  t == world.transfers[i] IN
  CASE o.status = "executed"  -> Len(t) = 1 /\ t[1].kind = "payout"
    [] o.status = "cancelled" -> t = <<[kind |-> "refund", amount |-> o.deposit]>>
    [] OTHER                  -> t = <<>>

(* The sum of f over the ids.                                              *)
Total(f) ==
  LET upTo[n \in 0 .. MaxOrders] == IF n = 0 THEN 0 ELSE upTo[n - 1] + f[n]
  IN  upTo[MaxOrders]

(* What a world owes its orders, and what it has paid for them.            *)
Owed(w) ==
  [i \in Ids |-> IF w.orders[i].status \in {"open", "executed"} THEN w.orders[i].deposit ELSE 0]
PaidOut(w) ==
  [i \in Ids |-> IF w.orders[i].status = "executed" THEN w.transfers[i][1].amount ELSE 0]

(* The vault holds the deposit of every order it did not refund, so any    *)
(* open order can still be refunded in full; the payout pool has lost      *)
(* exactly what executed orders were paid (placeOrder line 159, settle     *)
(* line 201, cancel line 221, with rollbacks).                             *)
VaultSolvent ==
  /\ world.native = Total(Owed(world))
  /\ world.pool + Total(PaidOut(world)) = world.minted

(* The instructions the registry was sent are the orders' history: a       *)
(* PLACE_ORDER for each id handed out, ids being contiguous from 1, and a  *)
(* CANCEL_ORDER for exactly the cancelled ones, so that an enclave that    *)
(* has applied them all holds the open and executed orders (lines 156,     *)
(* 164, 219).                                                              *)
InstructionsMatch ==
  world.instructions =
       {[command |-> "PLACE_ORDER", id |-> i] : i \in 1 .. world.nextOrderId}
  \cup {[command |-> "CANCEL_ORDER", id |-> i] :
            i \in {j \in Ids : world.orders[j].status = "cancelled"}}

(* No order turns executed on a feed value older than the protocol ceiling *)
(* or dated in the future, whatever age the executor asks for (lines 185,  *)
(* 190).                                                                   *)
SettlesFresh == [][\A i \in Ids :
     (world.orders[i].status = "open" /\ world'.orders[i].status = "executed")
       => now - feed.at \in 0 .. MAX_PRICE_AGE_SEC]_vars

(* The state as the chain commits it: what the outermost running call      *)
(* would restore.                                                          *)
Committed == IF frames = <<>> THEN world ELSE frames[1].saved

Moved(t) == CASE t = <<>>    -> "nothing"
              [] Len(t) = 1  -> t[1].kind
              [] OTHER       -> "several"

Lifecycle == INSTANCE OrderLifecycle WITH
  stage <- [i \in Ids |-> Committed.orders[i].status],
  moved <- [i \in Ids |-> Moved(Committed.transfers[i])]

(* Seen one committed transaction at a time, the vault carries every order *)
(* along the promised lifecycle: placed once, ended at most once, with the *)
(* one transfer its stage calls for.                                       *)
ImplementsLifecycle == Lifecycle!Spec

-----------------------------------------------------------------------------
(* An owner who keeps asking to cancel and accepts the refund.  The calls  *)
(* of others come between, hence strong fairness; nothing makes the        *)
(* registries keep a machine up.                                           *)

Refunding(id) ==
  /\ cancelReturns
  /\ Len(frames) = 1
  /\ frames[1].saved.orders[id].status = "open"
  /\ world.orders[id].status = "cancelled"

OwnersInsist ==
  /\ WF_vars(cancelReturns \/ cancelReverts)
  /\ \A id \in Ids :
    /\ \A a \in Accounts : SF_vars(frames = <<>> /\ cancel(a, id))
    /\ SF_vars(Refunding(id))

InsistSpec == Spec /\ OwnersInsist

Open(i) == Committed.orders[i].status = "open"

(* The deposit of an order that is not executed can be had back, provided  *)
(* the registries eventually keep a TEE machine available: cancel sends    *)
(* its instruction before it refunds (lines 219-221).                      *)
ReclaimWhenServed == <>[]machineUp => \A i \in Ids : Open(i) ~> ~Open(i)
=============================================================================
