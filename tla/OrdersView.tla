----------------------------- MODULE OrdersView -----------------------------
(***************************************************************************)
(* The browser's list of orders (frontend/components/useOrders.ts), a fold *)
(* of the vault's events: the history query and the live subscription run  *)
(* side by side, so that events arrive late, twice or not at all.          *)
(***************************************************************************)
EXTENDS Integers, Sequences

CONSTANTS MaxOrders,         \* bound on orders placed
          Prices             \* prices orders execute at

VARIABLES orders,            \* the vault's orders
          log,               \* its events, in block order
          rows,              \* the list: a row for each order
          history,           \* the history query and its answer
          live               \* the subscription: events first .. next - 1

vars == <<orders, log, rows, history, live>>
vault == <<orders, log>>

ASSUME ViewAssumption == MaxOrders \in Nat /\ Prices \subseteq Nat \ {0}

Ids == 1 .. MaxOrders

NoRow == [status |-> "none", price |-> 0]
Unasked == [state |-> "asked", from |-> 0, to |-> 0]
Unwatched == [first |-> 0, next |-> 0]

Init ==
  /\ orders = [id \in Ids |-> NoRow]
  /\ log = <<>>
  /\ rows = [id \in Ids |-> NoRow]
  /\ history = Unasked
  /\ live = Unwatched

-----------------------------------------------------------------------------
(* The vault: an order is placed, then executed or cancelled.              *)
Emit(kind, id, status, price) ==
  /\ orders' = [orders EXCEPT ![id] = [status |-> status, price |-> price]]
  /\ log' = Append(log, [kind |-> kind, id |-> id, price |-> price])
  /\ UNCHANGED <<rows, history, live>>

OrderPlaced(id) ==
  /\ orders[id] = NoRow /\ \A i \in 1 .. id - 1 : orders[i] # NoRow
  /\ Emit("OrderPlaced", id, "Pending", 0)

OrderExecuted(id, price) ==
  orders[id].status = "Pending" /\ Emit("OrderExecuted", id, "Executed", price)

OrderCancelled(id) ==
  orders[id].status = "Pending" /\ Emit("OrderCancelled", id, "Cancelled", 0)

-----------------------------------------------------------------------------
(* apply.                                                                  *)

(* Mutants of Row: an order seen placed is pending; a final event counts   *)
(* for an order seen placed only; a row made by its end has no price.      *)
RowReset(row, event) ==
  CASE event.kind = "OrderPlaced"    -> [row EXCEPT !.status = "Pending"]
    [] event.kind = "OrderExecuted"  -> [status |-> "Executed", price |-> event.price]
    [] event.kind = "OrderCancelled" -> [row EXCEPT !.status = "Cancelled"]

RowInOrder(row, event) ==
  CASE event.kind = "OrderPlaced"    -> IF row = NoRow THEN [row EXCEPT !.status = "Pending"] ELSE row
    [] event.kind # "OrderPlaced" /\ row = NoRow -> row
    [] event.kind = "OrderExecuted" /\ row # NoRow -> [status |-> "Executed", price |-> event.price]
    [] event.kind = "OrderCancelled" /\ row # NoRow -> [row EXCEPT !.status = "Cancelled"]

RowUnpriced(row, event) ==
  CASE event.kind = "OrderPlaced"    -> IF row = NoRow THEN [row EXCEPT !.status = "Pending"] ELSE row
    [] event.kind = "OrderExecuted"  ->
         [status |-> "Executed", price |-> IF row = NoRow THEN 0 ELSE event.price]
    [] event.kind = "OrderCancelled" -> [row EXCEPT !.status = "Cancelled"]

(* One event: a row that is missing starts as pending, and OrderPlaced     *)
(* leaves the status of one that is there.                                 *)
Row(row, event) ==
  CASE event.kind = "OrderPlaced"    -> IF row = NoRow THEN [row EXCEPT !.status = "Pending"] ELSE row
    [] event.kind = "OrderExecuted"  -> [status |-> "Executed", price |-> event.price]
    [] event.kind = "OrderCancelled" -> [row EXCEPT !.status = "Cancelled"]

(* The events a to b, in their order.                                      *)
apply(a, b) ==
  LET after[n \in a - 1 .. b] ==
        IF n < a THEN rows ELSE [after[n - 1] EXCEPT ![log[n].id] = Row(@, log[n])]
  IN  after[b]

-----------------------------------------------------------------------------
(* The effect: the query for the whole log, or for a recent part when that *)
(* fails; its answer is on its way.                                        *)
QueryHistory ==
  /\ history.state = "asked"
  /\ \E from \in 1 .. Len(log) + 1 :
       history' = [state |-> "answered", from |-> from, to |-> Len(log)]
  /\ UNCHANGED <<vault, rows, live>>

ApplyHistory ==
  /\ history.state = "answered"
  /\ history' = [history EXCEPT !.state = "applied"]
  /\ rows' = apply(history.from, history.to)
  /\ UNCHANGED <<vault, live>>

(* Every window failed: the list says so and shows live events only.       *)
HistoryFails ==
  /\ history.state = "asked"
  /\ history' = [history EXCEPT !.state = "failed"]
  /\ UNCHANGED <<vault, rows, live>>

(* watchContractEvent: a filter on the node, then what is new, polled.     *)
StartWatch ==
  /\ live = Unwatched
  /\ live' = [first |-> Len(log) + 1, next |-> Len(log) + 1]
  /\ UNCHANGED <<vault, rows, history>>

(* Mutant of PollLogs: the next poll starts one event too late.            *)
PollAhead ==
  /\ live # Unwatched /\ live.next <= Len(log)
  /\ live' = [live EXCEPT !.next = Len(log) + 2]
  /\ rows' = apply(live.next, Len(log))
  /\ UNCHANGED <<vault, history>>

PollLogs ==
  /\ live # Unwatched /\ live.next <= Len(log)
  /\ live' = [live EXCEPT !.next = Len(log) + 1]
  /\ rows' = apply(live.next, Len(log))
  /\ UNCHANGED <<vault, history>>

(* The node forgets the filter: the client makes a new one at its next     *)
(* poll, which starts from the log as it is then.                          *)
FilterLost ==
  /\ live # Unwatched
  /\ live' = Unwatched
  /\ UNCHANGED <<vault, rows, history>>

(* The effect runs again, for another client: the subscription ends, an    *)
(* answer still on its way is thrown away, the rows stay.                  *)
Remount ==
  /\ history' = Unasked
  /\ live' = Unwatched
  /\ UNCHANGED <<vault, rows>>

Next ==
  \/ \E id \in Ids : OrderPlaced(id) \/ OrderCancelled(id)
  \/ \E id \in Ids, price \in Prices : OrderExecuted(id, price)
  \/ QueryHistory \/ ApplyHistory \/ HistoryFails
  \/ StartWatch \/ PollLogs \/ FilterLost \/ Remount

Spec == Init /\ [][Next]_vars

(* The node answers, and the subscription is polled every two seconds.     *)
FairSpec ==
  /\ Spec
  /\ WF_vars(QueryHistory \/ HistoryFails) /\ WF_vars(ApplyHistory)
  /\ WF_vars(StartWatch) /\ WF_vars(PollLogs)

-----------------------------------------------------------------------------
(* Properties.                                                             *)

Final(row) == row.status \in {"Executed", "Cancelled"}

(* A row that shows an order executed or cancelled keeps showing it, with  *)
(* its price, in whatever order history, live events and remounts come     *)
(* (lines 44-60: OrderPlaced after a final event).                         *)
ViewNeverRegresses ==
  [][\A id \in Ids : Final(rows[id]) => rows'[id] = rows[id]]_vars

(* Of an order that is over, the list never shows a wrong end, whatever    *)
(* part of its events it has seen (lines 43-59).                           *)
EndsAreTrue == \A id \in Ids : Final(rows[id]) => rows[id] = orders[id]

(* The whole history is applied and the subscription is up.                *)
WholeAndLive == history.state = "applied" /\ history.from = 1 /\ live # Unwatched

(* The event that made the order what it is came after the history's last  *)
(* one and before the first one of the subscription: the query was         *)
(* answered before there was a filter, or the filter was lost.             *)
Missed(id) ==
  \E n \in history.to + 1 .. live.first - 1 :
    log[n].id = id /\ (Final(orders[id]) => log[n].kind # "OrderPlaced")

(* With all polled that there is, the list is the vault's, except for what *)
(* fell between history and subscription: answers that come late, overlap, *)
(* repeat or overtake each other lose nothing else (lines 71-106).         *)
ViewComplete ==
  WholeAndLive /\ live.next = Len(log) + 1 =>
    \A id \in Ids : rows[id] = orders[id] \/ Missed(id)

(* History, then a subscription that "keeps it current" (lines 28-29): the *)
(* list gets to every end of an order, except one between the two, unless  *)
(* the filter is lost or the effect runs again.                            *)
ViewCurrent ==
  \A id \in Ids, row \in [status : {"Executed", "Cancelled"}, price : Prices \cup {0}] :
    (WholeAndLive /\ orders[id] = row) ~> (rows[id] = row \/ Missed(id) \/ ~WholeAndLive)
=============================================================================
