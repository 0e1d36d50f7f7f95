------------------------------ MODULE DarkStop ------------------------------
(***************************************************************************)
(* An order's whole way: a browser reads the enclave's key and seals a     *)
(* policy, the vault takes the deposit and sends the instruction, the      *)
(* enclave opens it and watches the feed, the executor reveals a crossed   *)
(* trigger, and the vault looks at the feed again.  The vault and the      *)
(* watcher are those of DarkStopVault and SettlementWatcher without their  *)
(* inner steps: payouts and refunds, nonces and the RPC.                   *)
(***************************************************************************)
EXTENDS InstructionHandlers

CONSTANTS MaxOrders,         \* bound on orders placed
          Payloads,          \* what clients other than the form seal
          Asks,              \* what the form is asked for
          Feeds,             \* values the feed takes, with their decimals
          MaxRuns            \* bound on the enclave's runs

VARIABLES orders,            \* the vault's orders
          feed,              \* the FTSO feed; top is history
          enclave,           \* its run, its key and its order book
          channel,           \* instructions not handled yet
          flight,            \* settlements broadcast and not confirmed
          form               \* what the browser has read of the TEE's state

vars == <<orders, feed, enclave, channel, flight, form>>

Ids == 1 .. MaxOrders

ASSUME FlowAssumption ==
  /\ MaxOrders \in Nat /\ MaxRuns \in Nat \ {0}
  /\ \A raw \in Feeds : raw.value \in 0 .. MaxUint /\ raw.decimals \in -128 .. 127
  /\ \A payload \in Payloads : DOMAIN payload.fields \subseteq Nat
  /\ \A ask \in Asks : /\ ask.kind \in {"fixed", "trailing"} /\ ask.n \in Nat
                       /\ ask.decimals \in Seq(0 .. 9) /\ Len(ask.decimals) <= 2

-----------------------------------------------------------------------------
(* What is sealed, for which key; asked is history: the policy that the    *)
(* user of the form typed.                                                 *)
Unplaced == [status |-> "none", key |-> 0, payload |-> Object(<<>>), asked |-> NoPolicy, price |-> 0]

Nothing == [seen |-> FALSE, key |-> 0, trailing |-> FALSE]

(* ENCLAVE_PRIVATE_KEY, if it is set, makes every run have the same key.   *)
Init ==
  /\ orders = [id \in Ids |-> Unplaced]
  /\ \E raw \in Feeds : feed = [raw |-> raw, fresh |-> TRUE, top |-> 0]
  /\ \E pinned \in BOOLEAN :
       enclave = [run |-> 1, key |-> IF pinned THEN 0 ELSE 1, book |-> [id \in Ids |-> Absent],
                  latest |-> 0, ready |-> FALSE]
  /\ channel = {}
  /\ flight = {}
  /\ form = Nothing

-----------------------------------------------------------------------------
(* Placing an order.                                                       *)

(* The form asks for the state before it encrypts.                         *)
ReadState ==
  /\ form' = [seen |-> TRUE, key |-> enclave.key, trailing |-> enclave.ready]
  /\ UNCHANGED <<orders, feed, enclave, channel, flight>>

(* placeOrder: whatever is sealed, the vault opens the order.              *)
Place(payload, asked) ==
  \E id \in Ids :
    /\ orders[id].status = "none" /\ \A i \in 1 .. id - 1 : orders[i].status # "none"
    /\ orders' = [orders EXCEPT ![id] = [status |-> "open", key |-> form.key, payload |-> payload,
                                         asked |-> asked, price |-> 0]]
    /\ channel' = channel \cup {[op |-> "place", id |-> id]}
    /\ form' = Nothing
    /\ UNCHANGED <<feed, enclave, flight>>

Asked(ask) ==
  LET d == ask.decimals \o <<0, 0>>
  IN  IF ask.kind = "fixed" THEN Fixed(ask.n) ELSE Trailing(100 * ask.n + 10 * d[1] + d[2])

(* A policy the TEE does not advertise is not sent.                        *)
Submit(ask) ==
  /\ form.seen /\ FormAccepts(ask)
  /\ ask.kind = "trailing" => form.trailing
  /\ Place(FormPayload(ask), Asked(ask))

(* Another client; its ciphertext is for a key it has read.                *)
PlaceRaw(payload) == form.seen /\ Place(payload, NoPolicy)

Cancel(id) ==
  /\ orders[id].status = "open"
  /\ orders' = [orders EXCEPT ![id].status = "cancelled"]
  /\ channel' = channel \cup {[op |-> "cancel", id |-> id]}
  /\ UNCHANGED <<feed, enclave, flight, form>>

-----------------------------------------------------------------------------
(* The enclave.                                                            *)

(* A ciphertext for another key does not decrypt.                          *)
Opened(id) ==
  IF orders[id].key = enclave.key THEN ParseOrderPlaintext(orders[id].payload) ELSE NoPolicy

(* An error leaves the store alone.                                        *)
processPlaceOrder(id) ==
  IF CanPut(enclave.book, id, Opened(id), enclave.ready)
  THEN Put(enclave.book, id, Opened(id), enclave.latest) ELSE enclave.book

processCancelOrder(id) == Delete(enclave.book, id)

(* The TEE node hands instructions over in any order, perhaps again.       *)
processDarkstop(instruction, again) ==
  /\ enclave' = [enclave EXCEPT !.book =
                   IF instruction.op = "place" THEN processPlaceOrder(instruction.id)
                   ELSE processCancelOrder(instruction.id)]
  /\ channel' = IF again THEN channel ELSE channel \ {instruction}
  /\ UNCHANGED <<orders, feed, flight, form>>

Handle(instruction) == instruction \in channel /\ processDarkstop(instruction, FALSE)
HandleTwice(instruction) == instruction \in channel /\ processDarkstop(instruction, TRUE)

Ours == {tx \in flight : tx.run = enclave.run}

(* Mutant of Trusted: a price of zero is a sample.                         *)
FreshOnly(sample) == feed.fresh

Trusted(sample) == feed.fresh /\ sample > 0

(* A tick: a fresh positive sample raises the watermarks and, with nothing *)
(* of its own in flight, the watcher may reveal the first order it crosses *)
(* (or fail to).                                                           *)
Tick ==
  LET sample == normalizePrice(feed.raw.value, feed.raw.decimals)
      book == Raise(enclave.book, sample) IN
  /\ Trusted(sample)
  /\ enclave' = [enclave EXCEPT !.book = book, !.latest = sample, !.ready = TRUE]
  /\ feed' = [feed EXCEPT !.top = IF sample > @ THEN sample ELSE @]
  /\ \/ flight' = flight
     \/ /\ Ours = {}
        /\ \E c \in Crossed(book, sample) :
             /\ \A d \in Crossed(book, sample) : c.id <= d.id
             /\ flight' = flight \cup {[id |-> c.id, trigger |-> c.trigger, run |-> enclave.run,
                                        outcome |-> "sent"]}
  /\ UNCHANGED <<orders, channel, form>>

(* The last sample grows older than trailingSampleMaxAge.                  *)
SampleAges ==
  /\ enclave.ready
  /\ enclave' = [enclave EXCEPT !.ready = FALSE]
  /\ UNCHANGED <<orders, feed, channel, flight, form>>

Restart ==
  /\ enclave.run < MaxRuns
  /\ enclave' = [run |-> enclave.run + 1, key |-> IF enclave.key = 0 THEN 0 ELSE enclave.run + 1,
                 book |-> [id \in Ids |-> Absent], latest |-> 0, ready |-> FALSE]
  /\ UNCHANGED <<orders, feed, channel, flight, form>>

-----------------------------------------------------------------------------
(* Settling.                                                               *)

Accepted(tx) ==
  LET price == toPayoutDecimals(feed.raw.value, feed.raw.decimals) IN
  /\ orders[tx.id].status = "open" /\ feed.fresh
  /\ price # Overflow /\ price <= tx.trigger

(* Once mined, a settlement of this run waits to be confirmed.             *)
Outcome(tx, outcome) ==
  flight' = (flight \ {tx}) \cup
              (IF tx.run = enclave.run THEN {[tx EXCEPT !.outcome = outcome]} ELSE {})

Executes(tx) ==
  /\ orders' = [orders EXCEPT ![tx.id].status = "executed",
                              ![tx.id].price = toPayoutDecimals(feed.raw.value, feed.raw.decimals)]
  /\ Outcome(tx, "executed")
  /\ UNCHANGED <<feed, enclave, channel, form>>

(* Mutant of Settle: the vault takes the watcher's word for the price.     *)
SettleUnasked(tx) ==
  /\ tx.outcome = "sent"
  /\ orders[tx.id].status = "open" /\ feed.fresh
  /\ Executes(tx)

Settle(tx) == tx.outcome = "sent" /\ Accepted(tx) /\ Executes(tx)

SettleReverts(tx) ==
  /\ tx.outcome = "sent" /\ ~Accepted(tx)
  /\ Outcome(tx, "reverted")
  /\ UNCHANGED <<orders, feed, enclave, channel, form>>

(* The receipt of a settlement.                                            *)
Confirm(tx) ==
  /\ tx.run = enclave.run /\ tx.outcome # "sent"
  /\ enclave' = [enclave EXCEPT !.book =
                   IF tx.outcome = "executed" THEN MarkExecuted(@, tx.id) ELSE @]
  /\ flight' = flight \ {tx}
  /\ UNCHANGED <<orders, feed, channel, form>>

(* No receipt: the vault's status decides.  A settlement that was sent and *)
(* is forgotten, as if by an earlier run, may still be mined.              *)
Forgotten(tx) == IF tx.outcome = "sent" THEN {[tx EXCEPT !.run = 0]} ELSE {}

LetGo(tx) ==
  /\ tx.run = enclave.run
  /\ enclave' = [enclave EXCEPT !.book =
                   IF orders[tx.id].status = "executed" THEN MarkExecuted(@, tx.id)
                   ELSE IF orders[tx.id].status = "cancelled" THEN Delete(@, tx.id) ELSE @]
  /\ flight' = (flight \ {tx}) \cup Forgotten(tx)
  /\ UNCHANGED <<orders, feed, channel, form>>

(* A stuck or lost settlement of an order still crossed is replaced by one *)
(* with today's trigger; a price of zero is as good as another here.       *)
Replace(tx) ==
  LET entry == enclave.book[tx.id] IN
  /\ tx.run = enclave.run /\ tx.outcome = "sent" /\ orders[tx.id].status = "open"
  /\ feed.fresh /\ HasTrigger(entry)
  /\ normalizePrice(feed.raw.value, feed.raw.decimals) <= Effective(entry)
  /\ flight' = (flight \ {tx}) \cup Forgotten(tx) \cup {[tx EXCEPT !.trigger = Effective(entry)]}
  /\ UNCHANGED <<orders, feed, enclave, channel, form>>

PublishPrice(raw) ==
  /\ feed' = [feed EXCEPT !.raw = raw, !.fresh = TRUE]
  /\ UNCHANGED <<orders, enclave, channel, flight, form>>

FeedStalls ==
  /\ feed.fresh
  /\ feed' = [feed EXCEPT !.fresh = FALSE]
  /\ UNCHANGED <<orders, enclave, channel, flight, form>>

-----------------------------------------------------------------------------
Settling == \E tx \in flight :
  Settle(tx) \/ SettleReverts(tx) \/ Confirm(tx) \/ LetGo(tx) \/ Replace(tx)

Next ==
  \/ ReadState
  \/ \E ask \in Asks : Submit(ask)
  \/ \E payload \in Payloads : PlaceRaw(payload)
  \/ \E id \in Ids : Cancel(id)
  \/ \E instruction \in channel : Handle(instruction) \/ HandleTwice(instruction)
  \/ Tick \/ SampleAges \/ Restart \/ Settling
  \/ \E raw \in Feeds : PublishPrice(raw)
  \/ FeedStalls

Spec == Init /\ [][Next]_vars

(* The TEE node hands over every instruction.                              *)
FairSpec == Spec /\ \A id \in Ids : WF_vars(Handle([op |-> "place", id |-> id]))

-----------------------------------------------------------------------------
(* Properties.                                                             *)

TypeOK ==
  /\ enclave.book \in [Ids -> Entry]
  /\ \A id \in Ids :
       /\ orders[id].status \in {"none", "open", "executed", "cancelled"}
       /\ orders[id].price # Overflow
  /\ enclave.ready => enclave.latest > 0

(* What a JSON reader that keeps the first of a repeated name, and one     *)
(* that does not ignore case, make of a payload.                           *)
First(p, name) ==
  IF Given(p, name) = {} THEN Null ELSE p.fields[Min(Given(p, name))].value
Exact(p, name) ==
  LET exact == {i \in Given(p, name) : p.fields[i].exact}
  IN  IF exact = {} THEN Null ELSE p.fields[Max(exact)].value
ReadFirst(p) == Policy(First(p, "strategy"), First(p, "triggerPrice"), First(p, "trailBps"))
ReadExact(p) == Policy(Exact(p, "strategy"), Exact(p, "triggerPrice"), Exact(p, "trailBps"))

Held(id) == enclave.book[id].status # "absent"
Armed(id) == [trigger |-> enclave.book[id].trigger, bps |-> enclave.book[id].bps]

(* The policy that the enclave arms is the one every JSON reader would     *)
(* find in the plaintext (validateOrderJSONKeys, "before the standard      *)
(* decoder can silently keep the last value").                             *)
OneReading ==
  \A id \in Ids : Held(id) => /\ Armed(id) = ReadFirst(orders[id].payload)
                              /\ Armed(id) = ReadExact(orders[id].payload)

(* An order of the form is armed with what the user typed: percentToBps,   *)
(* the payload and the parser agree, two decimals included.                *)
AsTyped ==
  \A id \in Ids : Held(id) /\ orders[id].asked # NoPolicy => Armed(id) = orders[id].asked

(* From the seal to the payout: an order is executed at a price its owner  *)
(* asked for, at or under the fixed trigger or the trail below the highest *)
(* price seen, though the feed moves between the reveal and the block.     *)
ExecutedAsAsked ==
  \A id \in Ids : orders[id].status = "executed" =>
    LET policy == ReadFirst(orders[id].payload) IN
    orders[id].price <= IF policy.bps = 0 THEN policy.trigger ELSE Trail(feed.top, policy.bps)

(* An order that was cancelled is not in the enclave once it has handled   *)
(* the instructions about it: "drop enclave state on on-chain cancel       *)
(* event".  A CANCEL_ORDER handled before its PLACE_ORDER leaves it armed  *)
(* (extension.go, line 187).                                               *)
CancelledForgotten ==
  \A id \in Ids :
    orders[id].status = "cancelled" /\ (\A instruction \in channel : instruction.id # id) => ~Held(id)

(* When the watcher reveals a trigger, the vault would take the very value *)
(* of the feed that it has read, if that is a price at all: normalizePrice *)
(* mirrors _toPayoutDecimals.                                              *)
PricesAgree ==
  [][\A tx \in flight' \ flight :
       /\ tx.outcome = "sent" /\ tx.run = enclave.run
       /\ normalizePrice(feed.raw.value, feed.raw.decimals) > 0
       => toPayoutDecimals(feed.raw.value, feed.raw.decimals) \in 0 .. tx.trigger]_vars

(* An order with a readable fixed policy, sealed for the enclave's key and *)
(* not handled yet, gets armed, unless it is closed or the enclave starts  *)
(* again: the vault does not hold deposits for fixed stops in vain.        *)
Waiting(id, run) ==
  /\ orders[id].status = "open" /\ [op |-> "place", id |-> id] \in channel
  /\ enclave.run = run /\ Opened(id).trigger > 0

FixedGetsArmed ==
  \A id \in Ids, run \in 1 .. MaxRuns :
    Waiting(id, run) ~> (Held(id) \/ orders[id].status # "open" \/ enclave.run # run)
=============================================================================
