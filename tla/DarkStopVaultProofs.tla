------------------------- MODULE DarkStopVaultProofs -------------------------
(***************************************************************************)
(* Proofs about the vault, for any accounts, amounts, prices, ids and      *)
(* nesting of refund callbacks.                                            *)
(***************************************************************************)
EXTENDS DarkStopVault, SequenceTheorems, Lemmas

-----------------------------------------------------------------------------
(* Sums over the ids.                                                      *)

(* g has the sums of f up to n.                                            *)
Sums(f, n, g) == /\ g \in [0 .. n -> Nat]
                 /\ g[0] = 0
                 /\ \A k \in 1 .. n : g[k] = g[k - 1] + f[k]

Amounts == [Ids -> Nat]

(* Lemma.  There are sums up to any id.                                    *)
LEMMA SumsExist ==
  ASSUME NEW f \in Amounts
  PROVE  \E g : Sums(f, MaxOrders, g)
<1> DEFINE S == {n \in Nat : n <= MaxOrders => \E g : Sums(f, n, g)}
<1>1. 0 \in S
  <2>1. Sums(f, 0, [k \in 0 .. 0 |-> 0])
    BY DEF Sums
  <2> QED BY <2>1
<1>2. ASSUME NEW n \in Nat, n \in S
      PROVE  n + 1 \in S
  <2> SUFFICES ASSUME n + 1 <= MaxOrders PROVE \E g : Sums(f, n + 1, g)
    OBVIOUS
  <2>1. n <= MaxOrders /\ n + 1 \in Ids
    BY VaultAssumption DEF Ids
  <2>2. PICK g : Sums(f, n, g)
    BY <1>2, <2>1
  <2> DEFINE h == [k \in 0 .. n + 1 |-> IF k = n + 1 THEN g[n] + f[n + 1] ELSE g[k]]
  <2>3. f[n + 1] \in Nat
    BY <2>1 DEF Amounts
  <2>4. h \in [0 .. n + 1 -> Nat]
    BY <2>2, <2>3 DEF Sums
  <2>5. h[0] = 0 /\ \A k \in 1 .. n + 1 : h[k] = h[k - 1] + f[k]
    BY <2>2 DEF Sums
  <2>6. Sums(f, n + 1, h)
    BY <2>4, <2>5 DEF Sums
  <2> QED BY <2>6
<1> HIDE DEF S
<1>3. MaxOrders \in S
  BY <1>1, <1>2, InductionSet, VaultAssumption
<1> QED BY <1>3, VaultAssumption DEF S

(* That the total of f is the last of its sums.                            *)
TotalIsSum(f) == \E g : Sums(f, MaxOrders, g) /\ Total(f) = g[MaxOrders]

(* Lemma.  It is.                                                          *)
LEMMA TotalSum ==
  ASSUME NEW f \in Amounts
  PROVE  TotalIsSum(f)
<1> DEFINE upTo == CHOOSE u : u = [n \in 0 .. MaxOrders |-> IF n = 0 THEN 0 ELSE u[n - 1] + f[n]]
<1>1. PICK g : Sums(f, MaxOrders, g)
  BY SumsExist
<1>2. g = [n \in 0 .. MaxOrders |-> IF n = 0 THEN 0 ELSE g[n - 1] + f[n]]
  BY <1>1, VaultAssumption DEF Sums
<1>3. upTo = [n \in 0 .. MaxOrders |-> IF n = 0 THEN 0 ELSE upTo[n - 1] + f[n]]
  BY <1>2
<1>4. Total(f) = upTo[MaxOrders]
  BY DEF Total
<1> HIDE DEF upTo
<1> DEFINE S == {n \in Nat : n <= MaxOrders => upTo[n] = g[n]}
<1>5. 0 \in S
  BY <1>1, <1>3, VaultAssumption DEF Sums
<1>6. ASSUME NEW n \in Nat, n \in S
      PROVE  n + 1 \in S
  BY <1>1, <1>3, <1>6, VaultAssumption DEF Sums
<1> HIDE DEF S
<1>7. MaxOrders \in S
  BY <1>5, <1>6, InductionSet, VaultAssumption
<1>8. upTo[MaxOrders] = g[MaxOrders]
  BY <1>7, VaultAssumption DEF S
<1> QED BY <1>1, <1>4, <1>8 DEF TotalIsSum

(* Lemma.  The total of nothing is zero.                                   *)
LEMMA TotalZero ==
  ASSUME NEW f \in Amounts, \A i \in Ids : f[i] = 0
  PROVE  Total(f) = 0
<1>1. PICK g : Sums(f, MaxOrders, g) /\ Total(f) = g[MaxOrders]
  BY TotalSum DEF TotalIsSum
<1> DEFINE S == {n \in Nat : n <= MaxOrders => g[n] = 0}
<1>2. 0 \in S
  BY <1>1 DEF Sums
<1>3. ASSUME NEW n \in Nat, n \in S
      PROVE  n + 1 \in S
  BY <1>1, <1>3, VaultAssumption DEF Sums, Ids
<1> HIDE DEF S
<1>4. MaxOrders \in S
  BY <1>2, <1>3, InductionSet, VaultAssumption
<1> QED BY <1>1, <1>4, VaultAssumption DEF S

(* Lemma.  A total is an amount.                                           *)
LEMMA TotalType ==
  ASSUME NEW f \in Amounts
  PROVE  Total(f) \in Nat
<1>1. PICK g : Sums(f, MaxOrders, g) /\ Total(f) = g[MaxOrders]
  BY TotalSum DEF TotalIsSum
<1> QED BY <1>1, VaultAssumption DEF Sums

(* Lemma.  One amount more or less: so much more or less in total.         *)
LEMMA TotalChange ==
  ASSUME NEW f \in Amounts, NEW h \in Amounts, NEW id \in Ids,
         \A i \in Ids \ {id} : h[i] = f[i]
  PROVE  Total(f) \in Nat /\ Total(h) \in Nat /\ Total(h) = (Total(f) - f[id]) + h[id]
<1>1. PICK u : Sums(f, MaxOrders, u) /\ Total(f) = u[MaxOrders]
  BY TotalSum DEF TotalIsSum
<1>2. PICK v : Sums(h, MaxOrders, v) /\ Total(h) = v[MaxOrders]
  BY TotalSum DEF TotalIsSum
<1>3. MaxOrders \in Nat /\ id \in 1 .. MaxOrders /\ f[id] \in Nat /\ h[id] \in Nat
  BY VaultAssumption DEF Amounts, Ids
<1>4. /\ \A k \in 0 .. MaxOrders : u[k] \in Nat /\ v[k] \in Nat
      /\ \A k \in 1 .. MaxOrders : u[k] = u[k - 1] + f[k] /\ v[k] = v[k - 1] + h[k]
      /\ u[0] = 0 /\ v[0] = 0
  BY <1>1, <1>2 DEF Sums
<1> DEFINE S == {n \in Nat : n <= MaxOrders =>
                   v[n] = IF n < id THEN u[n] ELSE (u[n] - f[id]) + h[id]}
<1>5. 0 \in S
  BY <1>3, <1>4
<1>6. ASSUME NEW n \in Nat, n \in S
      PROVE  n + 1 \in S
  <2> SUFFICES ASSUME n + 1 <= MaxOrders
               PROVE  v[n + 1] = IF n + 1 < id THEN u[n + 1] ELSE (u[n + 1] - f[id]) + h[id]
    OBVIOUS
  <2>1. /\ v[n] = IF n < id THEN u[n] ELSE (u[n] - f[id]) + h[id]
        /\ u[n] \in Nat /\ v[n] \in Nat
    BY <1>3, <1>4, <1>6
  <2>2. n + 1 \in Ids /\ n + 1 \in 1 .. MaxOrders /\ (n + 1) - 1 = n
    BY <1>3 DEF Ids
  <2>3. u[n + 1] = u[n] + f[n + 1] /\ v[n + 1] = v[n] + h[n + 1]
        /\ f[n + 1] \in Nat /\ h[n + 1] \in Nat
    BY <1>4, <2>2 DEF Amounts
  <2>4. CASE n + 1 = id
    BY <1>3, <2>1, <2>3, <2>4
  <2>5. CASE n + 1 # id
    <3>1. h[n + 1] = f[n + 1]
      BY <2>2, <2>5
    <3> QED BY <1>3, <2>1, <2>3, <2>5, <3>1
  <2> QED BY <2>4, <2>5
<1> HIDE DEF S
<1>7. MaxOrders \in S
  BY <1>5, <1>6, InductionSet, <1>3
<1>8. v[MaxOrders] = (u[MaxOrders] - f[id]) + h[id]
  BY <1>3, <1>7 DEF S
<1> QED BY <1>1, <1>2, <1>3, <1>4, <1>8

-----------------------------------------------------------------------------
(* The inductive invariant.  A failed refund brings back an older world,   *)
(* so what is true of the world is asked of every saved one too.           *)

(* OneTransfer, of a world.                                                *)
TransferAgrees(o, t) ==
  CASE o.status = "executed"  -> Len(t) = 1 /\ t[1].kind = "payout"
    [] o.status = "cancelled" -> t = <<[kind |-> "refund", amount |-> o.deposit]>>
    [] OTHER                  -> t = <<>>

(* Ids are handed out in order.                                            *)
PlacedInOrder(w) == \A i \in Ids : w.orders[i].status = "none" <=> i > w.nextOrderId

(* InstructionsMatch, of a world.                                          *)
InstructionsAgree(w) ==
  w.instructions =
       {[command |-> "PLACE_ORDER", id |-> i] : i \in 1 .. w.nextOrderId}
  \cup {[command |-> "CANCEL_ORDER", id |-> i] :
            i \in {j \in Ids : w.orders[j].status = "cancelled"}}

(* VaultSolvent, of a world.                                               *)
Solvent(w) == /\ w.native = Total(Owed(w))
              /\ w.pool + Total(PaidOut(w)) = w.minted

GoodWorld(w) ==
  /\ w \in World
  /\ \A i \in Ids : TransferAgrees(w.orders[i], w.transfers[i])
  /\ PlacedInOrder(w)
  /\ InstructionsAgree(w)
  /\ Solvent(w)

(* Every order of v is where the order of w can be later.                  *)
Later(w, v) == \A i \in Ids : Lifecycle!Evolves(w.orders[i].status, v.orders[i].status)

(* What is known of the suspended calls: each saved world is good, and     *)
(* each later one, the present included, evolved from it.                  *)
FramesGood ==
  /\ frames \in Seq(Frame)
  /\ \A k \in 1 .. Len(frames) : GoodWorld(frames[k].saved)
  /\ \A k \in 1 .. Len(frames) : Later(frames[k].saved, world)
  /\ \A j, k \in 1 .. Len(frames) : j <= k => Later(frames[j].saved, frames[k].saved)

Surroundings == /\ registry \in Seq(BOOLEAN) /\ machineUp \in BOOLEAN
                /\ feed \in [price : Prices, at : Nat] /\ now \in Nat

IInv == GoodWorld(world) /\ FramesGood /\ Surroundings

-----------------------------------------------------------------------------
(* Lemma.  Lifecycle steps compose.                                        *)
LEMMA EvolvesTransitive ==
  ASSUME NEW r \in Statuses, NEW s \in Statuses, NEW t \in Statuses,
         Lifecycle!Evolves(r, s), Lifecycle!Evolves(s, t)
  PROVE  Lifecycle!Evolves(r, t)
BY DEF Lifecycle!Evolves, Statuses

(* Lemma.  What is later than a later world is later.                      *)
LEMMA LaterTransitive ==
  ASSUME NEW u \in World, NEW v \in World, NEW w \in World, Later(u, v), Later(v, w)
  PROVE  Later(u, w)
<1> SUFFICES ASSUME NEW i \in Ids
             PROVE  Lifecycle!Evolves(u.orders[i].status, w.orders[i].status)
  BY DEF Later
<1>1. /\ u.orders[i].status \in Statuses /\ v.orders[i].status \in Statuses
      /\ w.orders[i].status \in Statuses
  BY DEF World, Order
<1>2. /\ Lifecycle!Evolves(u.orders[i].status, v.orders[i].status)
      /\ Lifecycle!Evolves(v.orders[i].status, w.orders[i].status)
  BY DEF Later
<1> QED BY <1>1, <1>2, EvolvesTransitive

(* Lemma.  A world is where it can be later.                               *)
LEMMA LaterReflexive == ASSUME NEW w PROVE Later(w, w)
BY DEF Later, Lifecycle!Evolves

(* Lemma.  A payout is an amount.                                          *)
LEMMA PayoutType ==
  ASSUME IInv, NEW id \in Ids
  PROVE  Payout(id) \in Nat
<1> DEFINE d == world.orders[id].deposit
           x == d * feed.price
<1>1. d \in Nat /\ feed.price \in Nat /\ Unit \in Nat \ {0}
  BY VaultAssumption DEF IInv, GoodWorld, World, Order, Surroundings
<1>2. x \in Nat
  <2> HIDE DEF d
  <2> QED BY <1>1
<1>3. \A y \in Nat, u \in Nat \ {0} : y \div u \in Nat
  OBVIOUS
<1> HIDE DEF x
<1>4. x \div Unit \in Nat
  BY <1>1, <1>2, <1>3
<1>5. Payout(id) = x \div Unit
  BY DEF Payout, x
<1> QED BY <1>4, <1>5

(* Lemma.  What is owed and paid are amounts.                              *)
LEMMA AmountsOf ==
  ASSUME NEW w \in World, \A i \in Ids : TransferAgrees(w.orders[i], w.transfers[i])
  PROVE  /\ Owed(w) \in Amounts /\ PaidOut(w) \in Amounts
         /\ \A i \in Ids :
              /\ Owed(w)[i] = IF w.orders[i].status \in {"open", "executed"}
                              THEN w.orders[i].deposit ELSE 0
              /\ PaidOut(w)[i] = IF w.orders[i].status = "executed"
                                 THEN w.transfers[i][1].amount ELSE 0
<1>1. \A i \in Ids : w.orders[i].deposit \in Nat
  BY DEF World, Order
<1>2. ASSUME NEW i \in Ids, w.orders[i].status = "executed"
      PROVE  w.transfers[i][1].amount \in Nat
  <2>1. w.transfers[i] \in Seq(Transfer) /\ Len(w.transfers[i]) = 1
    BY <1>2 DEF World, TransferAgrees
  <2>2. w.transfers[i][1] \in Transfer
    BY <2>1
  <2> QED BY <2>2 DEF Transfer
<1> QED BY <1>1, <1>2 DEF Owed, PaidOut, Amounts

(* Lemma.  A world stays solvent when the balances follow what one order   *)
(* is owed and was paid.                                                   *)
LEMMA SolventStep ==
  ASSUME NEW w, GoodWorld(w), NEW v \in World,
         \A i \in Ids : TransferAgrees(v.orders[i], v.transfers[i]),
         NEW id \in Ids,
         \A i \in Ids \ {id} : v.orders[i] = w.orders[i] /\ v.transfers[i] = w.transfers[i],
         v.native = (w.native - Owed(w)[id]) + Owed(v)[id],
         v.pool = (w.pool + PaidOut(w)[id]) - PaidOut(v)[id],
         v.minted = w.minted
  PROVE  Solvent(v)
<1>1. /\ Owed(w) \in Amounts /\ Owed(v) \in Amounts
      /\ \A i \in Ids \ {id} : Owed(v)[i] = Owed(w)[i]
  BY AmountsOf DEF GoodWorld
<1>2. /\ PaidOut(w) \in Amounts /\ PaidOut(v) \in Amounts
      /\ \A i \in Ids \ {id} : PaidOut(v)[i] = PaidOut(w)[i]
  BY AmountsOf DEF GoodWorld
<1>3. Total(Owed(v)) = (Total(Owed(w)) - Owed(w)[id]) + Owed(v)[id]
  BY <1>1, TotalChange
<1>4. /\ Total(PaidOut(v)) = (Total(PaidOut(w)) - PaidOut(w)[id]) + PaidOut(v)[id]
      /\ Total(PaidOut(w)) \in Nat /\ Total(PaidOut(v)) \in Nat
  BY <1>2, TotalChange
<1>5. /\ w.pool \in Nat /\ w.minted \in Nat
      /\ PaidOut(w)[id] \in Nat /\ PaidOut(v)[id] \in Nat
  BY <1>2 DEF GoodWorld, World, Amounts
<1>6. w.native = Total(Owed(w)) /\ w.pool + Total(PaidOut(w)) = w.minted
  BY DEF GoodWorld, Solvent
<1>7. v.native = Total(Owed(v))
  BY <1>3, <1>6
<1>8. v.pool + Total(PaidOut(v)) = w.pool + Total(PaidOut(w))
  BY <1>4, <1>5
<1> QED BY <1>6, <1>7, <1>8 DEF Solvent

(* Lemma.  A deployed vault is good.                                       *)
LEMMA InitInv == Init => IInv
<1> SUFFICES ASSUME Init PROVE IInv
  OBVIOUS
<1>1. InitWorld \in World
  BY VaultAssumption DEF InitWorld, World, Order, Unplaced, Ids, Statuses
<1>2. \A i \in Ids : InitWorld.orders[i].status = "none" /\ InitWorld.transfers[i] = <<>>
  BY DEF InitWorld, Unplaced
<1>3. GoodWorld(InitWorld)
  <2>1. \A i \in Ids : TransferAgrees(InitWorld.orders[i], InitWorld.transfers[i])
    BY <1>2 DEF TransferAgrees
  <2>2. PlacedInOrder(InitWorld)
    BY <1>2, VaultAssumption DEF PlacedInOrder, InitWorld, Ids
  <2>3. InstructionsAgree(InitWorld)
    BY <1>2 DEF InstructionsAgree, InitWorld
  <2>4. Solvent(InitWorld)
    <3>1. /\ Owed(InitWorld) \in Amounts /\ PaidOut(InitWorld) \in Amounts
          /\ \A i \in Ids : Owed(InitWorld)[i] = 0 /\ PaidOut(InitWorld)[i] = 0
      BY <1>1, <1>2, <2>1, AmountsOf
    <3>2. Total(Owed(InitWorld)) = 0 /\ Total(PaidOut(InitWorld)) = 0
      BY <3>1, TotalZero
    <3>3. InitWorld.native = 0 /\ InitWorld.pool = 0 /\ InitWorld.minted = 0
      BY DEF InitWorld
    <3> QED BY <3>2, <3>3 DEF Solvent
  <2> QED BY <1>1, <2>1, <2>2, <2>3, <2>4 DEF GoodWorld
<1>4. FramesGood
  BY DEF Init, FramesGood
<1>5. Surroundings
  <2>1. <<>> \in Seq(BOOLEAN)
    OBVIOUS
  <2>2. feed \in [price : Prices, at : Nat]
    BY DEF Init
  <2>3. registry \in Seq(BOOLEAN) /\ machineUp \in BOOLEAN
    BY <2>1, Zenon DEF Init
  <2> QED BY <2>2, <2>3 DEF Init, Surroundings
<1> QED BY <1>3, <1>4, <1>5 DEF Init, IInv

-----------------------------------------------------------------------------
(* How the invariant follows from what an action does to the world.        *)

(* Lemma.  While no call begins or ends, a good later world keeps the      *)
(* frames good.                                                            *)
LEMMA SameFrames ==
  ASSUME IInv, GoodWorld(world'), Later(world, world'), frames' = frames
  PROVE  FramesGood'
<1>1. world \in World /\ world' \in World
  BY DEF IInv, GoodWorld
<1>2. \A k \in 1 .. Len(frames) : Later(frames[k].saved, world')
  <2> SUFFICES ASSUME NEW k \in 1 .. Len(frames) PROVE Later(frames[k].saved, world')
    OBVIOUS
  <2>1. frames[k].saved \in World /\ Later(frames[k].saved, world)
    BY DEF IInv, FramesGood, GoodWorld
  <2> QED BY <1>1, <2>1, LaterTransitive
<1> QED BY <1>2 DEF IInv, FramesGood

(* Lemma.  Changing neither orders nor what was done for them.             *)
LEMMA SameOrders ==
  ASSUME NEW w, GoodWorld(w), NEW v \in World,
         v.orders = w.orders, v.transfers = w.transfers,
         v.nextOrderId = w.nextOrderId, v.instructions = w.instructions,
         v.native = w.native, v.pool + w.minted = w.pool + v.minted
  PROVE  GoodWorld(v) /\ Later(w, v)
<1>1. PlacedInOrder(v) /\ InstructionsAgree(v)
  BY DEF GoodWorld, PlacedInOrder, InstructionsAgree
<1>2. \A i \in Ids : TransferAgrees(v.orders[i], v.transfers[i])
  BY Zenon DEF GoodWorld
<1>3. Later(w, v)
  BY DEF Later, Lifecycle!Evolves
<1>4. Solvent(v)
  <2>1. Owed(v) = Owed(w) /\ PaidOut(v) = PaidOut(w)
    BY DEF Owed, PaidOut
  <2>2. PaidOut(w) \in Amounts
    BY AmountsOf DEF GoodWorld
  <2>3. Total(PaidOut(w)) \in Nat
    BY <2>2, TotalType
  <2>4. w.native = Total(Owed(w)) /\ w.pool + Total(PaidOut(w)) = w.minted
    BY DEF GoodWorld, Solvent
  <2>5. w.pool \in Nat /\ w.minted \in Nat /\ v.pool \in Nat /\ v.minted \in Nat
    BY DEF GoodWorld, World
  <2>6. v.pool + Total(PaidOut(w)) = v.minted
    BY <2>3, <2>4, <2>5
  <2> QED BY <2>1, <2>4, <2>6 DEF Solvent
<1> QED BY <1>1, <1>2, <1>3, <1>4 DEF GoodWorld

(* Lemma.  placeOrder opens the next order.                                *)
LEMMA PlaceWorld ==
  ASSUME IInv, NEW a \in Accounts, NEW v \in Values, placeOrder(a, v)
  PROVE  GoodWorld(world') /\ Later(world, world')
<1> DEFINE id == world.nextOrderId + 1
           o == [owner |-> a, deposit |-> v - INSTRUCTION_FEE, status |-> "open"]
           sent == [command |-> "PLACE_ORDER", id |-> id]
<1>1. /\ world' = [world EXCEPT !.nextOrderId = id, !.orders[id] = o,
                     !.native = @ + (v - INSTRUCTION_FEE), !.instructions = @ \cup {sent}]
      /\ id \in Ids /\ v > INSTRUCTION_FEE
  BY DEF placeOrder
<1>2. /\ o \in Order /\ sent \in Instruction /\ v - INSTRUCTION_FEE \in Nat
      /\ id \in Nat /\ world \in World
  BY <1>1, VaultAssumption DEF Order, Statuses, Instruction, Ids, IInv, GoodWorld
<1> HIDE DEF o, sent
<1>3. /\ world'.orders = [world.orders EXCEPT ![id] = o]
      /\ world'.nextOrderId = id
      /\ world'.native = world.native + (v - INSTRUCTION_FEE)
      /\ world'.instructions = world.instructions \cup {sent}
      /\ world'.transfers = world.transfers
  BY <1>1, <1>2 DEF World
<1>4. world' \in World
  <2>1. world'.orders \in [Ids -> Order] /\ world'.instructions \subseteq Instruction
    BY <1>1, <1>2, <1>3 DEF World
  <2>2. world'.native \in Nat
    BY <1>2, <1>3 DEF World
  <2> HIDE DEF id
  <2> QED BY <1>1, <1>2, <1>3, <2>1, <2>2 DEF World
<1>5. \A i \in Ids : world'.orders[i] = IF i = id THEN o ELSE world.orders[i]
  BY <1>2, <1>3 DEF World
<1>6. o.status = "open" /\ world.orders[id].status = "none"
  <2>1. id > world.nextOrderId
    BY <1>2 DEF World
  <2> QED BY <1>1, <2>1 DEF o, IInv, GoodWorld, PlacedInOrder
<1>7. \A i \in Ids : TransferAgrees(world'.orders[i], world'.transfers[i])
  BY <1>3, <1>5, <1>6 DEF TransferAgrees, IInv, GoodWorld
<1>8. PlacedInOrder(world')
  BY <1>2, <1>3, <1>5, <1>6 DEF PlacedInOrder, IInv, GoodWorld, World, Ids
<1>9. InstructionsAgree(world')
  <2>1. 1 .. id = (1 .. world.nextOrderId) \cup {id}
    BY <1>2 DEF World
  <2>2. {j \in Ids : world'.orders[j].status = "cancelled"}
          = {j \in Ids : world.orders[j].status = "cancelled"}
    BY <1>5, <1>6
  <2> QED BY <1>3, <2>1, <2>2 DEF InstructionsAgree, IInv, GoodWorld, sent
<1>10. Later(world, world')
  BY <1>5, <1>6 DEF Later, Lifecycle!Evolves
<1>11. Solvent(world')
  <2>1. GoodWorld(world)
    BY DEF IInv
  <2>2. /\ Owed(world)[id] = 0 /\ PaidOut(world)[id] = 0
        /\ Owed(world')[id] = v - INSTRUCTION_FEE /\ PaidOut(world')[id] = 0
    <3>1. o.deposit = v - INSTRUCTION_FEE /\ world'.orders[id] = o
      BY <1>1, <1>5 DEF o
    <3> QED BY <1>1, <1>4, <1>6, <1>7, <2>1, <3>1, AmountsOf DEF GoodWorld
  <2>3. /\ world'.native = (world.native - Owed(world)[id]) + Owed(world')[id]
        /\ world'.pool = (world.pool + PaidOut(world)[id]) - PaidOut(world')[id]
        /\ world'.minted = world.minted
    <3>1. /\ world'.pool = world.pool /\ world'.minted = world.minted
          /\ world.pool \in Nat /\ world.native \in Nat
      BY <1>1, <1>2 DEF World
    <3> QED BY <1>2, <1>3, <2>2, <3>1
  <2>4. \A i \in Ids \ {id} : world'.orders[i] = world.orders[i] /\ world'.transfers[i] = world.transfers[i]
    BY <1>3, <1>5
  <2>5. id \in Ids
    BY <1>1
  <2> HIDE DEF id
  <2> QED BY <1>4, <1>7, <2>1, <2>3, <2>4, <2>5, SolventStep
<1> QED BY <1>4, <1>7, <1>8, <1>9, <1>10, <1>11 DEF GoodWorld

(* Lemma.  An order whose status changes is still an order.                *)
LEMMA StatusChange ==
  ASSUME NEW f \in [Ids -> Order], NEW id \in Ids, NEW s \in Statuses
  PROVE  [f EXCEPT ![id].status = s] \in [Ids -> Order]
<1>1. [f[id] EXCEPT !.status = s] \in Order
  BY DEF Order
<1> QED BY <1>1

(* Lemma.  settle executes an open order and pays it once.                 *)
LEMMA SettleWorld ==
  ASSUME IInv, NEW a \in Accounts, NEW id \in Ids, NEW p \in Prices, NEW g \in 0 .. MaxTime,
         settle(a, id, p, g)
  PROVE  GoodWorld(world') /\ Later(world, world')
<1> DEFINE paid == [kind |-> "payout", amount |-> Payout(id)]
<1>1. /\ world' = [world EXCEPT !.orders[id].status = "executed", !.pool = @ - Payout(id),
                     !.transfers[id] = Append(@, paid)]
      /\ world.orders[id].status = "open" /\ Payout(id) <= world.pool
  BY DEF settle, Execute
<1>2. /\ world \in World /\ Payout(id) \in Nat /\ paid \in Transfer
      /\ world.transfers[id] = <<>>
  BY <1>1, PayoutType DEF IInv, GoodWorld, TransferAgrees, Transfer
<1> HIDE DEF paid
<1>3. /\ world'.orders = [world.orders EXCEPT ![id].status = "executed"]
      /\ world'.pool = world.pool - Payout(id)
      /\ world'.transfers = [world.transfers EXCEPT ![id] = Append(@, paid)]
      /\ world'.nextOrderId = world.nextOrderId
      /\ world'.instructions = world.instructions
  BY <1>1, <1>2 DEF World
<1>4. \A i \in Ids :
        /\ world'.orders[i].status = IF i = id THEN "executed" ELSE world.orders[i].status
        /\ i # id => world'.orders[i] = world.orders[i]
        /\ world'.transfers[i] = IF i = id THEN <<paid>> ELSE world.transfers[i]
  BY <1>2, <1>3 DEF World, Order
<1>5. world' \in World
  <2>1. world'.orders \in [Ids -> Order]
    <3>1. world.orders \in [Ids -> Order] /\ "executed" \in Statuses
      BY <1>2 DEF World, Statuses
    <3>2. [world.orders EXCEPT ![id].status = "executed"] \in [Ids -> Order]
      BY <3>1, StatusChange
    <3> QED BY <1>3, <3>2
  <2>2. world'.transfers \in [Ids -> Seq(Transfer)]
    BY <1>2, <1>3 DEF World
  <2>3. world'.pool \in Nat
    BY <1>1, <1>2, <1>3 DEF World
  <2> QED BY <1>1, <1>2, <1>3, <2>1, <2>2, <2>3 DEF World
<1>6. \A i \in Ids : TransferAgrees(world'.orders[i], world'.transfers[i])
  <2>1. \A i \in Ids \ {id} : TransferAgrees(world'.orders[i], world'.transfers[i])
    BY <1>4, Zenon DEF IInv, GoodWorld
  <2>2. Len(<<paid>>) = 1 /\ <<paid>>[1].kind = "payout"
    BY DEF paid
  <2>3. TransferAgrees(world'.orders[id], world'.transfers[id])
    BY <1>4, <2>2 DEF TransferAgrees
  <2> QED BY <2>1, <2>3
<1>7. PlacedInOrder(world')
  BY <1>1, <1>3, <1>4 DEF PlacedInOrder, IInv, GoodWorld
<1>8. InstructionsAgree(world')
  <2>1. {j \in Ids : world'.orders[j].status = "cancelled"}
          = {j \in Ids : world.orders[j].status = "cancelled"}
    BY <1>1, <1>4
  <2> QED BY <1>3, <2>1 DEF InstructionsAgree, IInv, GoodWorld
<1>9. Later(world, world')
  BY <1>1, <1>4 DEF Later, Lifecycle!Evolves
<1>10. Solvent(world')
  <2>1. GoodWorld(world)
    BY DEF IInv
  <2>2. world'.orders[id].deposit = world.orders[id].deposit /\ world.orders[id].deposit \in Nat
    BY <1>2, <1>3 DEF World, Order
  <2>3. world'.transfers[id][1].amount = Payout(id)
    BY <1>4 DEF paid
  <2>7. /\ Owed(world)[id] = IF world.orders[id].status \in {"open", "executed"}
                             THEN world.orders[id].deposit ELSE 0
        /\ PaidOut(world)[id] = IF world.orders[id].status = "executed"
                                THEN world.transfers[id][1].amount ELSE 0
    BY <2>1, AmountsOf DEF GoodWorld
  <2>8. /\ Owed(world')[id] = IF world'.orders[id].status \in {"open", "executed"}
                              THEN world'.orders[id].deposit ELSE 0
        /\ PaidOut(world')[id] = IF world'.orders[id].status = "executed"
                                 THEN world'.transfers[id][1].amount ELSE 0
    BY <1>5, <1>6, AmountsOf
  <2>4. /\ Owed(world)[id] = world.orders[id].deposit /\ PaidOut(world)[id] = 0
        /\ Owed(world')[id] = world.orders[id].deposit /\ PaidOut(world')[id] = Payout(id)
    BY <1>1, <1>4, <2>2, <2>3, <2>7, <2>8
  <2>5. /\ world'.native = (world.native - Owed(world)[id]) + Owed(world')[id]
        /\ world'.pool = (world.pool + PaidOut(world)[id]) - PaidOut(world')[id]
        /\ world'.minted = world.minted
    <3>1. /\ world'.native = world.native /\ world'.minted = world.minted
          /\ world.pool \in Nat /\ world.native \in Nat
      BY <1>1, <1>2 DEF World
    <3> QED BY <1>2, <1>3, <2>2, <2>4, <3>1
  <2>6. \A i \in Ids \ {id} : world'.orders[i] = world.orders[i] /\ world'.transfers[i] = world.transfers[i]
    BY <1>4
  <2> QED BY <1>5, <1>6, <2>1, <2>5, <2>6, SolventStep
<1> QED BY <1>5, <1>6, <1>7, <1>8, <1>9, <1>10 DEF GoodWorld

(* Lemma.  cancel ends an open order and refunds its deposit once.         *)
LEMMA CancelWorld ==
  ASSUME IInv, NEW a \in Accounts, NEW id \in Ids, cancel(a, id)
  PROVE  GoodWorld(world') /\ Later(world, world')
<1> DEFINE deposit == world.orders[id].deposit
           back == [kind |-> "refund", amount |-> deposit]
           sent == [command |-> "CANCEL_ORDER", id |-> id]
<1>1. /\ world' = [world EXCEPT !.orders[id].status = "cancelled", !.native = @ - deposit,
                     !.instructions = @ \cup {sent}, !.transfers[id] = Append(@, back)]
      /\ world.orders[id].status = "open" /\ deposit <= world.native
  BY DEF cancel
<1>2. /\ world \in World /\ deposit \in Nat /\ back \in Transfer /\ sent \in Instruction
      /\ world.transfers[id] = <<>>
  BY <1>1 DEF IInv, GoodWorld, TransferAgrees, Transfer, Instruction, World, Order
<1> HIDE DEF back, sent
<1>3. /\ world'.orders = [world.orders EXCEPT ![id].status = "cancelled"]
      /\ world'.native = world.native - deposit
      /\ world'.instructions = world.instructions \cup {sent}
      /\ world'.transfers = [world.transfers EXCEPT ![id] = Append(@, back)]
      /\ world'.nextOrderId = world.nextOrderId
  BY <1>1, <1>2 DEF World
<1>4. \A i \in Ids :
        /\ world'.orders[i].status = IF i = id THEN "cancelled" ELSE world.orders[i].status
        /\ world'.orders[i].deposit = world.orders[i].deposit
        /\ i # id => world'.orders[i] = world.orders[i]
        /\ world'.transfers[i] = IF i = id THEN <<back>> ELSE world.transfers[i]
  BY <1>2, <1>3 DEF World, Order
<1>5. world' \in World
  <2>1. world'.orders \in [Ids -> Order]
    <3>1. world.orders \in [Ids -> Order] /\ "cancelled" \in Statuses
      BY <1>2 DEF World, Statuses
    <3>2. [world.orders EXCEPT ![id].status = "cancelled"] \in [Ids -> Order]
      BY <3>1, StatusChange
    <3> QED BY <1>3, <3>2
  <2>2. world'.transfers \in [Ids -> Seq(Transfer)]
    BY <1>2, <1>3 DEF World
  <2>3. world'.native \in Nat /\ world'.instructions \subseteq Instruction
    BY <1>1, <1>2, <1>3 DEF World
  <2> QED BY <1>1, <1>2, <1>3, <2>1, <2>2, <2>3 DEF World
<1>6. \A i \in Ids : TransferAgrees(world'.orders[i], world'.transfers[i])
  <2>1. \A i \in Ids \ {id} : TransferAgrees(world'.orders[i], world'.transfers[i])
    BY <1>4, Zenon DEF IInv, GoodWorld
  <2>2. TransferAgrees(world'.orders[id], world'.transfers[id])
    BY <1>4 DEF TransferAgrees, back
  <2> QED BY <2>1, <2>2
<1>7. PlacedInOrder(world')
  BY <1>1, <1>3, <1>4 DEF PlacedInOrder, IInv, GoodWorld
<1>8. InstructionsAgree(world')
  <2>1. {j \in Ids : world'.orders[j].status = "cancelled"}
          = {j \in Ids : world.orders[j].status = "cancelled"} \cup {id}
    BY <1>4
  <2> QED BY <1>3, <2>1 DEF InstructionsAgree, IInv, GoodWorld, sent
<1>9. Later(world, world')
  BY <1>1, <1>4 DEF Later, Lifecycle!Evolves
<1>10. Solvent(world')
  <2>1. GoodWorld(world)
    BY DEF IInv
  <2>5. /\ Owed(world)[id] = IF world.orders[id].status \in {"open", "executed"}
                             THEN world.orders[id].deposit ELSE 0
        /\ PaidOut(world)[id] = IF world.orders[id].status = "executed"
                                THEN world.transfers[id][1].amount ELSE 0
    BY <2>1, AmountsOf DEF GoodWorld
  <2>6. /\ Owed(world')[id] = IF world'.orders[id].status \in {"open", "executed"}
                              THEN world'.orders[id].deposit ELSE 0
        /\ PaidOut(world')[id] = IF world'.orders[id].status = "executed"
                                 THEN world'.transfers[id][1].amount ELSE 0
    BY <1>5, <1>6, AmountsOf
  <2>2. /\ Owed(world)[id] = deposit /\ PaidOut(world)[id] = 0
        /\ Owed(world')[id] = 0 /\ PaidOut(world')[id] = 0
    BY <1>1, <1>4, <2>5, <2>6
  <2>3. /\ world'.native = (world.native - Owed(world)[id]) + Owed(world')[id]
        /\ world'.pool = (world.pool + PaidOut(world)[id]) - PaidOut(world')[id]
        /\ world'.minted = world.minted
    <3>1. /\ world'.pool = world.pool /\ world'.minted = world.minted
          /\ world.pool \in Nat /\ world.native \in Nat
      BY <1>1, <1>2 DEF World
    <3> QED BY <1>2, <1>3, <2>2, <3>1
  <2>4. \A i \in Ids \ {id} : world'.orders[i] = world.orders[i] /\ world'.transfers[i] = world.transfers[i]
    BY <1>4
  <2> QED BY <1>5, <1>6, <2>1, <2>3, <2>4, SolventStep
<1> QED BY <1>5, <1>6, <1>7, <1>8, <1>9, <1>10 DEF GoodWorld

(* Lemma.  A call that suspends for its refund callback.                   *)
LEMMA CancelFrames ==
  ASSUME IInv, NEW a \in Accounts, NEW id \in Ids, cancel(a, id)
  PROVE  FramesGood'
<1>1. frames' = Append(frames, [owner |-> a, saved |-> world])
  BY DEF cancel
<1>2. GoodWorld(world') /\ Later(world, world') /\ GoodWorld(world)
      /\ frames \in Seq(Frame) /\ world \in World /\ world' \in World
  BY CancelWorld DEF IInv, FramesGood, GoodWorld
<1>3. frames' \in Seq(Frame)
  BY <1>1, <1>2 DEF Frame
<1> DEFINE n == Len(frames)
<1>4. /\ n \in Nat /\ Len(frames') = n + 1
      /\ frames'[n + 1].saved = world
      /\ \A k \in 1 .. n : frames'[k] = frames[k]
  BY <1>1, <1>2
<1>5. \A k \in 1 .. n : GoodWorld(frames[k].saved) /\ Later(frames[k].saved, world)
  BY DEF IInv, FramesGood
<1>6. \A k \in 1 .. n + 1 : GoodWorld(frames'[k].saved)
  BY <1>2, <1>4, <1>5
<1>7. \A k \in 1 .. n + 1 : Later(frames'[k].saved, world)
  BY <1>4, <1>5, LaterReflexive
<1>8. \A k \in 1 .. n + 1 : Later(frames'[k].saved, world')
  <2> SUFFICES ASSUME NEW k \in 1 .. n + 1 PROVE Later(frames'[k].saved, world')
    OBVIOUS
  <2>1. frames'[k].saved \in World /\ Later(frames'[k].saved, world)
    BY <1>6, <1>7 DEF GoodWorld
  <2> QED BY <1>2, <2>1, LaterTransitive
<1>9. \A j, k \in 1 .. n + 1 : j <= k => Later(frames'[j].saved, frames'[k].saved)
  <2> SUFFICES ASSUME NEW j \in 1 .. n + 1, NEW k \in 1 .. n + 1, j <= k
               PROVE  Later(frames'[j].saved, frames'[k].saved)
    OBVIOUS
  <2>1. CASE k = n + 1
    BY <1>4, <1>7, <2>1
  <2>2. CASE k # n + 1
    <3>1. j \in 1 .. n /\ k \in 1 .. n
      BY <1>4, <2>2
    <3> QED BY <1>4, <3>1 DEF IInv, FramesGood
  <2> QED BY <2>1, <2>2
<1> QED BY <1>3, <1>4, <1>6, <1>8, <1>9 DEF FramesGood

(* Lemma.  The innermost suspended call ends, in a world that is the       *)
(* present one or the one it saved.                                        *)
LEMMA PopFrames ==
  ASSUME IInv, frames # <<>>, PopFrame,
         world' = world \/ world' = frames[Len(frames)].saved
  PROVE  GoodWorld(world') /\ FramesGood'
<1> DEFINE n == Len(frames)
<1>1. n \in Nat \ {0} /\ frames \in Seq(Frame)
  BY EmptySeq DEF IInv, FramesGood
<1>2. /\ frames' \in Seq(Frame) /\ Len(frames') = n - 1
      /\ \A k \in 1 .. n - 1 : frames'[k] = frames[k]
  <2>1. \A k \in 1 .. n - 1 : frames[k] \in Frame
    BY <1>1, ElementOfSeq
  <2>2. /\ SubSeq(frames, 1, n - 1) \in Seq(Frame)
        /\ Len(SubSeq(frames, 1, n - 1)) = IF 1 <= n - 1 THEN n - 1 - 1 + 1 ELSE 0
        /\ \A k \in 1 .. n - 1 - 1 + 1 : SubSeq(frames, 1, n - 1)[k] = frames[1 + k - 1]
    BY <1>1, <2>1, SubSeqProperties
  <2>3. frames' = SubSeq(frames, 1, n - 1)
    BY DEF PopFrame
  <2> HIDE DEF n
  <2>4. Len(frames') = n - 1
    BY <1>1, <2>2, <2>3
  <2>5. ASSUME NEW k \in 1 .. n - 1 PROVE frames'[k] = frames[k]
    <3>1. k \in 1 .. n - 1 - 1 + 1 /\ 1 + k - 1 = k
      BY <1>1
    <3>2. frames'[k] = frames[1 + k - 1]
      BY <2>2, <2>3, <3>1
    <3> QED BY <3>1, <3>2
  <2> QED BY <2>2, <2>3, <2>4, <2>5
<1>3. GoodWorld(world')
  <2>1. n \in 1 .. n
    BY <1>1
  <2>2. GoodWorld(frames[n].saved) /\ GoodWorld(world)
    BY <2>1 DEF IInv, FramesGood
  <2> QED BY <2>2, Zenon
<1>4. \A k \in 1 .. n - 1 : Later(frames[k].saved, world')
  BY <1>1 DEF IInv, FramesGood
<1> QED BY <1>1, <1>2, <1>3, <1>4 DEF IInv, FramesGood

-----------------------------------------------------------------------------
(* The invariant is kept, one step per action.                             *)

(* What the action properties and the refinement need of a step that       *)
(* neither begins nor ends a suspended call.                               *)
PlainStep == GoodWorld(world') /\ Later(world, world') /\ frames' = frames

(* Lemma.  The administrative calls (setExtensionId, setTeeExecutor, mint) *)
(* touch no order.                                                         *)
LEMMA AdminStep ==
  ASSUME IInv,
         \/ setExtensionId
         \/ \E a \in Accounts, e \in Accounts : setTeeExecutor(a, e)
         \/ \E a \in Accounts, m \in Mints : mint(a, m)
  PROVE  PlainStep /\ world'.orders = world.orders
<1>1. world \in World /\ GoodWorld(world)
  BY DEF IInv, GoodWorld
<1>2. CASE setExtensionId
  <2>1. PICK i \in 0 .. Len(registry) - 1 : world' = [world EXCEPT !.extensionId = i]
    BY <1>2 DEF setExtensionId
  <2>2. i \in Nat
    BY DEF IInv, Surroundings
  <2>3. /\ world' \in World /\ world'.orders = world.orders
        /\ world'.transfers = world.transfers /\ world'.nextOrderId = world.nextOrderId
        /\ world'.instructions = world.instructions /\ world'.native = world.native
        /\ world'.pool = world.pool /\ world'.minted = world.minted
    BY <1>1, <2>1, <2>2 DEF World
  <2> QED BY <1>1, <1>2, <2>3, SameOrders DEF PlainStep, setExtensionId
<1>3. ASSUME NEW a \in Accounts, NEW e \in Accounts, setTeeExecutor(a, e)
      PROVE  PlainStep /\ world'.orders = world.orders
  <2>1. world' = [world EXCEPT !.teeExecutor = e] /\ frames' = frames
    BY <1>3 DEF setTeeExecutor
  <2>2. /\ world' \in World /\ world'.orders = world.orders
        /\ world'.transfers = world.transfers /\ world'.nextOrderId = world.nextOrderId
        /\ world'.instructions = world.instructions /\ world'.native = world.native
        /\ world'.pool = world.pool /\ world'.minted = world.minted
    BY <1>1, <2>1 DEF World
  <2> QED BY <1>1, <2>1, <2>2, SameOrders DEF PlainStep
<1>4. ASSUME NEW a \in Accounts, NEW m \in Mints, mint(a, m)
      PROVE  PlainStep /\ world'.orders = world.orders
  <2>1. world' = [world EXCEPT !.minted = @ + m, !.pool = @ + m] /\ frames' = frames /\ m \in Nat
    BY <1>4, VaultAssumption DEF mint
  <2>3. world.minted + m \in Nat /\ world.pool + m \in Nat
    BY <1>1, <2>1 DEF World
  <2>2. /\ world' \in World /\ world'.orders = world.orders
        /\ world'.transfers = world.transfers /\ world'.nextOrderId = world.nextOrderId
        /\ world'.instructions = world.instructions /\ world'.native = world.native
        /\ world'.pool = world.pool + m /\ world'.minted = world.minted + m
    BY <1>1, <2>1, <2>3 DEF World
  <2>4. world'.pool + world.minted = world.pool + world'.minted
    <3>1. world.pool \in Nat /\ world.minted \in Nat
      BY <1>1 DEF World
    <3> QED BY <2>1, <2>2, <3>1
  <2> QED BY <1>1, <2>1, <2>2, <2>4, SameOrders DEF PlainStep
<1> QED BY <1>2, <1>3, <1>4

(* Lemma.  A step of the surroundings.                                     *)
LEMMA OutsideStep ==
  ASSUME IInv,
         \/ \E b \in BOOLEAN : registerExtension(b)
         \/ toggleMachine
         \/ \E p \in Prices, t \in 0 .. MaxTime : publishPrice(p, t)
         \/ tick
  PROVE  UNCHANGED <<world, frames>> /\ Surroundings'
<1>1. UNCHANGED <<world, frames>>
  BY DEF registerExtension, toggleMachine, publishPrice, tick
<1>2. ASSUME NEW b \in BOOLEAN, registerExtension(b) PROVE Surroundings'
  <2>1. registry \in Seq(BOOLEAN)
    BY DEF IInv, Surroundings
  <2>2. Append(registry, b) \in Seq(BOOLEAN)
    BY <2>1
  <2> QED BY <1>2, <2>2, Zenon DEF registerExtension, IInv, Surroundings
<1>3. CASE toggleMachine
  BY <1>3, Zenon DEF toggleMachine, IInv, Surroundings
<1>4. ASSUME NEW p \in Prices, NEW t \in 0 .. MaxTime, publishPrice(p, t) PROVE Surroundings'
  <2>1. t \in Nat
    OBVIOUS
  <2>2. feed' \in [price : Prices, at : Nat]
    BY <1>4, <2>1 DEF publishPrice
  <2> QED BY <1>4, <2>2, Zenon DEF publishPrice, IInv, Surroundings
<1>5. CASE tick
  <2>1. now' \in Nat
    BY <1>5 DEF tick, IInv, Surroundings
  <2> QED BY <1>5, <2>1, Zenon DEF tick, IInv, Surroundings
<1> QED BY <1>1, <1>2, <1>3, <1>4, <1>5

(* Lemma.  Every step is of one of these kinds.                            *)
LEMMA StepKinds ==
  ASSUME IInv, [Next]_vars
  PROVE  \/ PlainStep /\ Surroundings'
         \/ \E a \in Accounts, id \in Ids : cancel(a, id)
         \/ cancelReturns
         \/ cancelReverts
         \/ UNCHANGED <<world, frames>> /\ Surroundings'
<1>1. CASE UNCHANGED vars
  BY <1>1, Zenon DEF vars, IInv, Surroundings
<1>2. CASE setExtensionId \/ (\E a \in Accounts, e \in Accounts : setTeeExecutor(a, e))
             \/ (\E a \in Accounts, m \in Mints : mint(a, m))
  <2>1. UNCHANGED <<registry, machineUp, feed, now>>
    BY <1>2 DEF setExtensionId, setTeeExecutor, mint
  <2> QED BY <1>2, <2>1, AdminStep, Zenon DEF IInv, Surroundings
<1>3. ASSUME NEW a \in Accounts, NEW v \in Values, placeOrder(a, v)
      PROVE  PlainStep /\ Surroundings'
  <2>1. PlainStep
    BY <1>3, PlaceWorld DEF PlainStep, placeOrder
  <2> QED BY <1>3, <2>1, Zenon DEF placeOrder, IInv, Surroundings
<1>4. ASSUME NEW a \in Accounts, NEW id \in Ids, NEW p \in Prices, NEW g \in 0 .. MaxTime,
             settle(a, id, p, g)
      PROVE  PlainStep /\ Surroundings'
  <2>1. PlainStep
    BY <1>4, SettleWorld DEF PlainStep, settle
  <2> QED BY <1>4, <2>1, Zenon DEF settle, IInv, Surroundings
<1>5. CASE \/ \E b \in BOOLEAN : registerExtension(b)
           \/ toggleMachine
           \/ \E p \in Prices, t \in 0 .. MaxTime : publishPrice(p, t)
           \/ tick
  BY <1>5, OutsideStep, Zenon
<1> QED BY <1>1, <1>2, <1>3, <1>4, <1>5, Zenon DEF Next

(* Lemma.  Every step keeps the invariant: a refund callback that fails    *)
(* brings back a world that was good, and what it did is forgotten.        *)
LEMMA StepInv == IInv /\ [Next]_vars => IInv'
<1> SUFFICES ASSUME IInv, [Next]_vars PROVE IInv'
  OBVIOUS
<1>1. CASE PlainStep /\ Surroundings'
  BY <1>1, SameFrames DEF PlainStep, IInv
<1>2. ASSUME NEW a \in Accounts, NEW id \in Ids, cancel(a, id) PROVE IInv'
  <2>1. GoodWorld(world') /\ FramesGood'
    BY <1>2, CancelWorld, CancelFrames
  <2> QED BY <1>2, <2>1, Zenon DEF cancel, IInv, Surroundings
<1>3. CASE cancelReturns \/ cancelReverts
  <2>1. GoodWorld(world') /\ FramesGood'
    BY <1>3, PopFrames DEF cancelReturns, cancelReverts
  <2> QED BY <1>3, <2>1, Zenon DEF cancelReturns, cancelReverts, IInv, Surroundings
<1>4. CASE UNCHANGED <<world, frames>> /\ Surroundings'
  <2>1. FramesGood'
    BY <1>4, Zenon DEF IInv, FramesGood
  <2> QED BY <1>4, <2>1, Zenon DEF IInv
<1> QED BY <1>1, <1>2, <1>3, <1>4, StepKinds, Zenon

(* Theorem.  Every world the vault is in, and every one a failed refund    *)
(* may bring back, pays each order once and sent the matching instructions *)
(* (DarkStopVault.sol, placeOrder, settle, cancel).                        *)
THEOREM VaultInvariant == Spec => []IInv
BY InitInv, StepInv, PTL DEF Spec

(* Theorem.  Type correctness of the vault.                                *)
THEOREM VaultTypes == Spec => []TypeOK
<1>1. IInv => TypeOK
  BY Zenon DEF IInv, GoodWorld, FramesGood, Surroundings, TypeOK
<1> QED BY <1>1, VaultInvariant, PTL

(* Theorem.  One transfer per order, that of its status, whatever is       *)
(* called while refunds are delivered (settle, cancel).                    *)
THEOREM VaultOneTransfer == Spec => []OneTransfer
<1>1. IInv => OneTransfer
  BY Zenon DEF IInv, GoodWorld, TransferAgrees, OneTransfer
<1> QED BY <1>1, VaultInvariant, PTL

(* Theorem.  The instructions sent are the orders' history (placeOrder,    *)
(* cancel, _sendInstruction).                                              *)
THEOREM VaultInstructions == Spec => []InstructionsMatch
<1>1. IInv => InstructionsMatch
  BY Zenon DEF IInv, GoodWorld, InstructionsAgree, InstructionsMatch
<1> QED BY <1>1, VaultInvariant, PTL

(* Theorem.  The vault holds the deposit of every order it did not refund, *)
(* and the pool has lost what executed orders were paid, with any number   *)
(* of orders and nested calls (placeOrder, settle, cancel).                *)
THEOREM VaultIsSolvent == Spec => []VaultSolvent
<1>1. IInv => VaultSolvent
  BY Zenon DEF IInv, GoodWorld, Solvent, VaultSolvent
<1> QED BY <1>1, VaultInvariant, PTL

-----------------------------------------------------------------------------
(* Action properties and refinement.                                       *)

(* Theorem.  No order is executed on a price older than the protocol's     *)
(* ceiling or dated ahead of the block (settle, lines 185 and 190).        *)
THEOREM VaultSettlesFresh == Spec => SettlesFresh
<1> DEFINE A == \A i \in Ids :
     (world.orders[i].status = "open" /\ world'.orders[i].status = "executed")
       => now - feed.at \in 0 .. MAX_PRICE_AGE_SEC
<1>1. IInv /\ [Next]_vars => A
  <2> SUFFICES ASSUME IInv, [Next]_vars, NEW i \in Ids,
                      world.orders[i].status = "open", world'.orders[i].status = "executed"
               PROVE  now - feed.at \in 0 .. MAX_PRICE_AGE_SEC
    OBVIOUS
  <2> DEFINE Fresh == now - feed.at \in 0 .. MAX_PRICE_AGE_SEC
  <2>1. ASSUME NEW a \in Accounts, NEW id \in Ids, NEW p \in Prices, NEW g \in 0 .. MaxTime,
               settle(a, id, p, g)
        PROVE  Fresh
    <3>1. feed.at \in Nat /\ now \in Nat /\ MAX_PRICE_AGE_SEC \in Nat /\ g \in Nat
      BY VaultAssumption DEF IInv, Surroundings
    <3> QED BY <2>1, <3>1 DEF settle, FreshFeed
  <2>2. ASSUME world'.orders[i].status = world.orders[i].status PROVE Fresh
    BY <2>2
  <2>3. CASE setExtensionId \/ (\E a \in Accounts, e \in Accounts : setTeeExecutor(a, e))
               \/ (\E a \in Accounts, m \in Mints : mint(a, m))
    BY <2>2, <2>3, AdminStep
  <2>4. ASSUME NEW a \in Accounts, NEW v \in Values, placeOrder(a, v) PROVE Fresh
    <3> DEFINE o == [owner |-> a, deposit |-> v - INSTRUCTION_FEE, status |-> "open"]
               id == world.nextOrderId + 1
    <3>1. world'.orders = [world.orders EXCEPT ![id] = o]
      BY <2>4 DEF placeOrder, IInv, GoodWorld, World
    <3>2. world'.orders[i].status = "open"
      BY <3>1 DEF IInv, GoodWorld, World
    <3> QED BY <2>2, <3>2
  <2>5. ASSUME NEW a \in Accounts, NEW id \in Ids, cancel(a, id) PROVE Fresh
    <3>1. world'.orders = [world.orders EXCEPT ![id].status = "cancelled"]
      BY <2>5 DEF cancel, IInv, GoodWorld, World
    <3>2. world'.orders[i].status \in {"open", "cancelled"}
      BY <3>1 DEF IInv, GoodWorld, World, Order
    <3> QED BY <3>2
  <2>6. CASE cancelReturns
    BY <2>2, <2>6 DEF cancelReturns
  <2>7. CASE cancelReverts
    <3>1. Len(frames) \in 1 .. Len(frames)
      BY <2>7, EmptySeq DEF cancelReverts, IInv, FramesGood
    <3>2. Later(world', world)
      BY <2>7, <3>1 DEF cancelReverts, IInv, FramesGood
    <3> QED BY <3>2 DEF Later, Lifecycle!Evolves
  <2>8. CASE \/ \E b \in BOOLEAN : registerExtension(b)
             \/ toggleMachine
             \/ \E p \in Prices, t \in 0 .. MaxTime : publishPrice(p, t)
             \/ tick
    BY <2>2, <2>8, OutsideStep, Zenon
  <2>9. CASE UNCHANGED vars
    BY <2>2, <2>9 DEF vars
  <2> QED BY <2>1, <2>3, <2>4, <2>5, <2>6, <2>7, <2>8, <2>9, Zenon DEF Next
<1> HIDE DEF A
<1>2. Spec => [][A]_vars
  BY <1>1, VaultInvariant, PTL DEF Spec
<1> QED BY <1>2 DEF A, SettlesFresh

(* Lemma.  The committed state is good, and only moves forward.            *)
LEMMA CommittedGood == IInv => GoodWorld(Committed)
<1> SUFFICES ASSUME IInv PROVE GoodWorld(Committed)
  OBVIOUS
<1>1. CASE frames = <<>>
  BY <1>1 DEF Committed, IInv
<1>2. CASE frames # <<>>
  <2>1. 1 \in 1 .. Len(frames)
    BY <1>2, EmptySeq DEF IInv, FramesGood
  <2> QED BY <1>2, <2>1 DEF Committed, IInv, FramesGood
<1> QED BY <1>1, <1>2

(* Lemma.  What a step commits is later than what was committed: a call    *)
(* that returns publishes its world, one that reverts publishes nothing.   *)
LEMMA CommittedLater ==
  ASSUME IInv, [Next]_vars
  PROVE  Later(Committed, Committed')
<1> DEFINE n == Len(frames)
<1>1. frames \in Seq(Frame) /\ n \in Nat /\ (frames # <<>> => n \in Nat \ {0})
  BY EmptySeq DEF IInv, FramesGood
<1>2. CASE frames' = frames /\ frames # <<>>
  BY <1>2, LaterReflexive DEF Committed
<1>3. CASE frames' = frames /\ frames = <<>> /\ Later(world, world')
  BY <1>3 DEF Committed
<1>4. ASSUME NEW a \in Accounts, NEW id \in Ids, cancel(a, id)
      PROVE  Later(Committed, Committed')
  <2> DEFINE top == [owner |-> a, saved |-> world]
  <2>1. frames' = Append(frames, top)
    BY <1>4 DEF cancel
  <2>2. top \in Frame
    BY DEF Frame, IInv, GoodWorld
  <2>3. frames' # <<>> /\ frames'[1] = IF frames = <<>> THEN top ELSE frames[1]
    <3> HIDE DEF top
    <3> QED BY <1>1, <2>1, <2>2
  <2>4. Committed' = Committed
    BY <2>3 DEF Committed
  <2> QED BY <2>4, LaterReflexive
<1>5. CASE cancelReturns \/ cancelReverts
  <2>1. frames # <<>> /\ frames' = SubSeq(frames, 1, n - 1)
        /\ (world' = world \/ world' = frames[n].saved)
    BY <1>5 DEF cancelReturns, cancelReverts, PopFrame
  <2>2. 1 \in 1 .. n /\ n \in 1 .. n
    BY <1>1, <2>1
  <2>3. Later(frames[1].saved, world')
    BY <2>1, <2>2 DEF IInv, FramesGood
  <2>4. CASE n = 1
    <3>1. frames' = <<>>
      BY <2>1, <2>4, SubSeqEmpty
    <3> QED BY <2>1, <2>3, <3>1 DEF Committed
  <2>5. CASE n # 1
    <3>1. \A k \in 1 .. n - 1 : frames[k] \in Frame
      BY <1>1, ElementOfSeq
    <3>2. /\ Len(SubSeq(frames, 1, n - 1)) = IF 1 <= n - 1 THEN n - 1 - 1 + 1 ELSE 0
          /\ \A k \in 1 .. n - 1 - 1 + 1 : SubSeq(frames, 1, n - 1)[k] = frames[1 + k - 1]
      BY <1>1, <3>1, SubSeqProperties
    <3> HIDE DEF n
    <3>3. Len(frames') # 0 /\ frames'[1] = frames[1]
      BY <1>1, <2>1, <2>2, <2>5, <3>2
    <3>4. frames' # <<>>
      BY <3>3
    <3> QED BY <2>1, <3>3, <3>4, LaterReflexive DEF Committed
  <2> QED BY <2>4, <2>5
<1>6. PlainStep => frames' = frames /\ Later(world, world')
  BY DEF PlainStep
<1>7. UNCHANGED <<world, frames>> => frames' = frames /\ Later(world, world')
  BY LaterReflexive
<1> QED BY <1>2, <1>3, <1>4, <1>5, <1>6, <1>7, StepKinds, Zenon

(* Lemma.  In a good world, what left the vault for an order is what its   *)
(* stage calls for.                                                        *)
LEMMA MovedAsPromised ==
  ASSUME NEW w, GoodWorld(w), NEW i \in Ids
  PROVE  /\ w.orders[i].status \in Lifecycle!Stages
         /\ Moved(w.transfers[i]) = Lifecycle!TransferOf(w.orders[i].status)
<1> DEFINE s == w.orders[i].status
           t == w.transfers[i]
<1>1. s \in {"none", "open", "executed", "cancelled"}
  BY DEF GoodWorld, World, Order, Statuses
<1>2. CASE s = "executed"
  <2>1. Len(t) = 1 /\ t[1].kind = "payout"
    BY <1>2 DEF GoodWorld, TransferAgrees
  <2>2. t # <<>>
    BY <2>1
  <2>3. Moved(t) = "payout"
    BY <2>1, <2>2 DEF Moved
  <2> QED BY <1>2, <2>3 DEF Lifecycle!TransferOf, Lifecycle!Stages
<1>3. CASE s = "cancelled"
  <2>1. t = <<[kind |-> "refund", amount |-> w.orders[i].deposit]>>
    BY <1>3 DEF GoodWorld, TransferAgrees
  <2>2. t # <<>> /\ Len(t) = 1 /\ t[1].kind = "refund"
    BY <2>1
  <2>3. Moved(t) = "refund"
    BY <2>2 DEF Moved
  <2> QED BY <1>3, <2>3 DEF Lifecycle!TransferOf, Lifecycle!Stages
<1>4. CASE s \in {"none", "open"}
  <2>1. t = <<>>
    BY <1>4 DEF GoodWorld, TransferAgrees
  <2>2. Moved(t) = "nothing"
    BY <2>1 DEF Moved
  <2> QED BY <1>4, <2>2 DEF Lifecycle!TransferOf, Lifecycle!Stages
<1> QED BY <1>1, <1>2, <1>3, <1>4

(* Theorem.  Seen one committed transaction at a time, the vault           *)
(* implements the order lifecycle: initial states map to initial states,   *)
(* and every step of calls, callbacks and rollbacks to a lifecycle step or *)
(* to none.                                                                *)
THEOREM VaultImplementsLifecycle == Spec => ImplementsLifecycle
<1> DEFINE stage == [i \in Ids |-> Committed.orders[i].status]
           moved == [i \in Ids |-> Moved(Committed.transfers[i])]
<1>1. Init => Lifecycle!Init
  <2> SUFFICES ASSUME Init PROVE Lifecycle!Init
    OBVIOUS
  <2>1. Committed = InitWorld
    BY DEF Init, Committed
  <2>2. \A i \in Ids : Committed.orders[i].status = "none" /\ Committed.transfers[i] = <<>>
    BY <2>1 DEF InitWorld, Unplaced
  <2>3. Moved(<<>>) = "nothing"
    BY DEF Moved
  <2> QED BY <2>2, <2>3 DEF Lifecycle!Init
<1>2. IInv /\ IInv' /\ [Next]_vars => [Lifecycle!Next]_<<stage, moved>>
  <2> SUFFICES ASSUME IInv, IInv', [Next]_vars PROVE Lifecycle!Next
    OBVIOUS
  <2>1. GoodWorld(Committed) /\ GoodWorld(Committed')
    <3>1. GoodWorld(Committed)'
      BY CommittedGood, PTL
    <3> QED BY <3>1, CommittedGood
  <2>2. Later(Committed, Committed')
    BY CommittedLater
  <2>3. \A i \in Ids :
          /\ Lifecycle!Evolves(Committed.orders[i].status, Committed'.orders[i].status)
          /\ Committed'.orders[i].status \in Lifecycle!Stages
          /\ Moved(Committed'.transfers[i]) = Lifecycle!TransferOf(Committed'.orders[i].status)
    BY <2>1, <2>2, MovedAsPromised DEF Later
  <2>4. stage' \in [Ids -> Lifecycle!Stages]
    BY <2>3
  <2>5. \A i \in Ids : Lifecycle!Evolves(stage[i], stage'[i])
    BY <2>3
  <2>6. moved' = [i \in Ids |-> Lifecycle!TransferOf(stage'[i])]
    BY <2>3
  <2> QED BY <2>4, <2>5, <2>6 DEF Lifecycle!Next, Lifecycle!Transact
<1> QED BY <1>1, <1>2, VaultInvariant, PTL DEF Spec, ImplementsLifecycle, Lifecycle!Spec
=============================================================================
