-------------------------- MODULE OrdersViewProofs --------------------------
(***************************************************************************)
(* Proofs about the browser's list, for any number of orders, any prices   *)
(* and any interleaving of history, polls, lost filters and remounts.      *)
(***************************************************************************)
EXTENDS OrdersView, Lemmas

-----------------------------------------------------------------------------
(* The inductive invariant.                                                *)

Waiting == [status |-> "Pending", price |-> 0]

(* Where an order can be; a row is where its order is or was.              *)
Rows == {NoRow, Waiting, [status |-> "Cancelled", price |-> 0]}
          \cup [status : {"Executed"}, price : Prices]

Event == [kind : {"OrderPlaced", "OrderExecuted", "OrderCancelled"}, id : Ids, price : Prices \cup {0}]

Typed ==
  /\ orders \in [Ids -> Rows]
  /\ rows \in [Ids -> Rows]
  /\ log \in Seq(Event)
  /\ history \in [state : {"asked", "answered", "applied", "failed"}, from : Nat, to : Nat]
  /\ live \in [first : Nat, next : Nat]

(* The parts of the log that were asked for exist.                         *)
InLog ==
  /\ history.state \in {"answered", "applied"} =>
       history.from > 0 /\ history.from <= history.to + 1 /\ history.to <= Len(log)
  /\ live # Unwatched => live.first > 0 /\ live.first <= live.next /\ live.next <= Len(log) + 1

(* An event tells where its order is, and every order has its last event.  *)
Tells(event) ==
  CASE event.kind = "OrderPlaced"    -> orders[event.id] # NoRow
    [] event.kind = "OrderExecuted"  -> orders[event.id] = [status |-> "Executed", price |-> event.price]
    [] event.kind = "OrderCancelled" -> orders[event.id] = [status |-> "Cancelled", price |-> 0]

LogTrue == \A n \in 1 .. Len(log) : Tells(log[n])

LogComplete == \A id \in Ids : orders[id] # NoRow =>
  \E n \in 1 .. Len(log) : log[n].id = id /\ (Final(orders[id]) => log[n].kind # "OrderPlaced")

(* A list without a wrong row.                                             *)
ListTrue(list) == \A id \in Ids : list[id] \in {NoRow, Waiting, orders[id]}
                              /\ (list[id] # NoRow => orders[id] # NoRow)

(* A list that has an event: it shows the order, and its end if that is    *)
(* what the event is.                                                      *)
Shows(list, event) ==
  /\ list[event.id] # NoRow
  /\ event.kind # "OrderPlaced" => list[event.id] = orders[event.id]

SeenShown ==
  /\ history.state = "applied" => \A n \in history.from .. history.to : Shows(rows, log[n])
  /\ live # Unwatched => \A n \in live.first .. live.next - 1 : Shows(rows, log[n])

IInv == Typed /\ InLog /\ LogTrue /\ LogComplete /\ ListTrue(rows) /\ SeenShown

-----------------------------------------------------------------------------
(* One event.                                                              *)

(* Lemma.  The rows there can be are different.                            *)
LEMMA RowsDiffer ==
  /\ NoRow \in Rows /\ Waiting \in Rows /\ NoRow # Waiting
  /\ ~Final(NoRow) /\ ~Final(Waiting)
  /\ \A row \in Rows : \/ row = NoRow \/ row = Waiting \/ Final(row)
<1>1. NoRow.status = "none" /\ Waiting.status = "Pending"
  BY DEF NoRow, Waiting
<1> QED BY <1>1 DEF Rows, Final

(* Lemma.  What an event makes of a row that is not wrong: a row that is   *)
(* there, not wrong either, with the end if the event is one; a row that   *)
(* is up to date stays.                                                    *)
LEMMA RowShows ==
  ASSUME NEW e \in Event, Tells(e), NEW row \in {NoRow, Waiting, orders[e.id]}
  PROVE  /\ Row(row, e) \in {Waiting, orders[e.id]} /\ Row(row, e) # NoRow
         /\ e.kind # "OrderPlaced" => Row(row, e) = orders[e.id]
         /\ row = orders[e.id] => Row(row, e) = row
         /\ orders[e.id] # NoRow
<1> DEFINE o == orders[e.id]
<1>1. e.kind \in {"OrderPlaced", "OrderExecuted", "OrderCancelled"}
  BY DEF Event
<1>2. CASE e.kind = "OrderPlaced"
  <2>1. o # NoRow
    BY <1>2 DEF Tells
  <2>2. Row(row, e) = IF row = NoRow THEN [row EXCEPT !.status = "Pending"] ELSE row
    BY <1>2 DEF Row
  <2>3. [NoRow EXCEPT !.status = "Pending"] = Waiting
    BY DEF NoRow, Waiting
  <2> QED BY <1>2, <2>1, <2>2, <2>3, RowsDiffer
<1>3. CASE e.kind = "OrderExecuted"
  <2>1. o = [status |-> "Executed", price |-> e.price]
    BY <1>3 DEF Tells
  <2>2. Row(row, e) = [status |-> "Executed", price |-> e.price]
    BY <1>3 DEF Row
  <2>3. o.status = "Executed"
    BY <2>1
  <2>4. o # NoRow
    BY <2>3 DEF NoRow
  <2> QED BY <2>1, <2>2, <2>4
<1>4. CASE e.kind = "OrderCancelled"
  <2>1. o = [status |-> "Cancelled", price |-> 0]
    BY <1>4 DEF Tells
  <2>2. Row(row, e) = [row EXCEPT !.status = "Cancelled"]
    BY <1>4 DEF Row
  <2>3. [NoRow EXCEPT !.status = "Cancelled"] = o /\ [Waiting EXCEPT !.status = "Cancelled"] = o
        /\ [o EXCEPT !.status = "Cancelled"] = o
    BY <2>1 DEF NoRow, Waiting
  <2>4. o.status = "Cancelled"
    BY <2>1
  <2>5. o # NoRow
    BY <2>4 DEF NoRow
  <2> QED BY <2>2, <2>3, <2>5
<1> QED BY <1>1, <1>2, <1>3, <1>4

-----------------------------------------------------------------------------
(* A part of the log.                                                      *)

(* g has the lists after each event from a to b.                           *)
Lists(a, b, g) ==
  /\ g = [n \in a - 1 .. b |-> g[n]]
  /\ g[a - 1] = rows
  /\ \A n \in a .. b : g[n] = [g[n - 1] EXCEPT ![log[n].id] = Row(g[n - 1][log[n].id], log[n])]

(* There are such lists.                                                   *)
HasLists(a, b) == \E g : Lists(a, b, g)

(* Lemma.  They exist for every part.                                      *)
LEMMA ListsExist ==
  ASSUME NEW a \in Nat \ {0}
  PROVE  \A k \in Nat : HasLists(a, (a - 1) + k)
<1> DEFINE S == {k \in Nat : HasLists(a, (a - 1) + k)}
<1>1. 0 \in S
  <2> DEFINE g == [n \in a - 1 .. a - 1 |-> rows]
  <2>1. g = [n \in a - 1 .. a - 1 |-> g[n]] /\ g[a - 1] = rows
    OBVIOUS
  <2>2. (a - 1) + 0 = a - 1 /\ a .. a - 1 = {}
    OBVIOUS
  <2> HIDE DEF g
  <2>3. Lists(a, a - 1, g)
    BY <2>1, <2>2 DEF Lists
  <2> QED BY <2>2, <2>3 DEF HasLists
<1>2. ASSUME NEW k \in Nat, k \in S
      PROVE  k + 1 \in S
  <2> DEFINE b == (a - 1) + k
  <2>1. PICK g : Lists(a, b, g)
    BY <1>2 DEF HasLists
  <2>2. b \in Nat /\ (a - 1) + (k + 1) = b + 1 /\ a - 1 <= b
    OBVIOUS
  <2> HIDE DEF b
  <2> DEFINE new == [g[b] EXCEPT ![log[b + 1].id] = Row(g[b][log[b + 1].id], log[b + 1])]
             h == [n \in a - 1 .. b + 1 |-> IF n = b + 1 THEN new ELSE g[n]]
  <2>3. h[b + 1] = new /\ \A n \in a - 1 .. b : h[n] = g[n]
    BY <2>2
  <2>4. h = [n \in a - 1 .. b + 1 |-> h[n]]
    OBVIOUS
  <2> HIDE DEF h
  <2>5. h[a - 1] = rows
    BY <2>1, <2>2, <2>3 DEF Lists
  <2>6. ASSUME NEW n \in a .. b + 1
        PROVE  h[n] = [h[n - 1] EXCEPT ![log[n].id] = Row(h[n - 1][log[n].id], log[n])]
    <3>1. CASE n = b + 1
      <4>1. h[n] = new /\ h[n - 1] = g[b]
        BY <2>2, <2>3, <3>1
      <4> QED BY <3>1, <4>1
    <3>2. CASE n # b + 1
      <4>1. n \in a .. b /\ h[n] = g[n] /\ h[n - 1] = g[n - 1]
        BY <2>2, <2>3, <3>2
      <4> QED BY <2>1, <4>1 DEF Lists
    <3> QED BY <3>1, <3>2
  <2>7. Lists(a, b + 1, h)
    BY <2>4, <2>5, <2>6 DEF Lists
  <2> QED BY <2>2, <2>7 DEF HasLists
<1> HIDE DEF S
<1>3. \A k \in Nat : k \in S
  BY <1>1, <1>2, InductionSet
<1> QED BY <1>3 DEF S

(* The outcome of apply is the last of such lists.                         *)
ApplyIsLast(a, b) == \E g : Lists(a, b, g) /\ apply(a, b) = g[b]

(* Lemma.  It is.                                                          *)
LEMMA ApplyLists ==
  ASSUME NEW a \in Nat \ {0}, NEW b \in Nat, a - 1 <= b
  PROVE  ApplyIsLast(a, b)
<1> DEFINE after == CHOOSE u : u = [n \in a - 1 .. b |->
                      IF n < a THEN rows
                      ELSE [u[n - 1] EXCEPT ![log[n].id] = Row(u[n - 1][log[n].id], log[n])]]
<1>1. PICK g : Lists(a, b, g)
  <2>1. b - (a - 1) \in Nat /\ (a - 1) + (b - (a - 1)) = b
    OBVIOUS
  <2> QED BY <2>1, ListsExist DEF HasLists
<1>2. g = [n \in a - 1 .. b |->
             IF n < a THEN rows
             ELSE [g[n - 1] EXCEPT ![log[n].id] = Row(g[n - 1][log[n].id], log[n])]]
  <2>1. \A n \in a - 1 .. b : n < a => n = a - 1
    OBVIOUS
  <2>2. \A n \in a - 1 .. b : ~(n < a) => n \in a .. b
    OBVIOUS
  <2>3. \A n \in a - 1 .. b : g[n] = IF n < a THEN rows
          ELSE [g[n - 1] EXCEPT ![log[n].id] = Row(g[n - 1][log[n].id], log[n])]
    BY <1>1, <2>1, <2>2 DEF Lists
  <2>4. g = [n \in a - 1 .. b |-> g[n]]
    BY <1>1 DEF Lists
  <2> QED BY <2>3, <2>4
<1>3. after = [n \in a - 1 .. b |->
                 IF n < a THEN rows
                 ELSE [after[n - 1] EXCEPT ![log[n].id] = Row(after[n - 1][log[n].id], log[n])]]
  BY <1>2, Zenon
<1>4. apply(a, b) = after[b]
  BY DEF apply
<1> HIDE DEF after
<1>5. Lists(a, b, after)
  <2>1. after = [n \in a - 1 .. b |-> after[n]]
    BY <1>3
  <2>2. \A n \in a - 1 .. b : after[n] =
          IF n < a THEN rows
          ELSE [after[n - 1] EXCEPT ![log[n].id] = Row(after[n - 1][log[n].id], log[n])]
    BY <1>3
  <2>3. a - 1 \in a - 1 .. b /\ a - 1 < a
    OBVIOUS
  <2>4. after[a - 1] = rows
    BY <2>2, <2>3
  <2>5. \A n \in a .. b : n \in a - 1 .. b /\ ~(n < a)
    OBVIOUS
  <2> QED BY <2>1, <2>2, <2>4, <2>5 DEF Lists
<1> QED BY <1>4, <1>5 DEF ApplyIsLast

(* What apply may make of the rows: no row gets wrong or goes, and one     *)
(* that is up to date stays.                                               *)
Grows(list) ==
  /\ list \in [Ids -> Rows]
  /\ ListTrue(list)
  /\ \A id \in Ids : /\ rows[id] # NoRow => list[id] # NoRow
                     /\ rows[id] = orders[id] => list[id] = orders[id]

(* Lemma.  What a part of the log adds to a list without wrong rows.       *)
LEMMA ApplyShows ==
  ASSUME IInv, NEW a \in Nat \ {0}, NEW b \in Nat, a - 1 <= b, b <= Len(log)
  PROVE  Grows(apply(a, b)) /\ \A n \in a .. b : Shows(apply(a, b), log[n])
<1>1. PICK g : Lists(a, b, g) /\ apply(a, b) = g[b]
  BY ApplyLists DEF ApplyIsLast
<1> DEFINE Holds(n) == Grows(g[n]) /\ \A m \in a .. n : Shows(g[n], log[m])
           S == {k \in Nat : (a - 1) + k <= b => Holds((a - 1) + k)}
<1>2. log \in Seq(Event) /\ orders \in [Ids -> Rows] /\ rows \in [Ids -> Rows]
  BY DEF IInv, Typed
<1>3. \A m \in a .. b : log[m] \in Event /\ log[m].id \in Ids /\ Tells(log[m])
  <2>1. \A m \in a .. b : m \in 1 .. Len(log)
    BY <1>2
  <2>2. \A m \in a .. b : log[m] \in Event
    BY <1>2, <2>1
  <2> QED BY <2>1, <2>2 DEF IInv, LogTrue, Event
<1>4. 0 \in S
  <2>1. g[a - 1] = rows
    BY <1>1 DEF Lists
  <2>2. Grows(rows)
    BY <1>2 DEF Grows, IInv
  <2>3. (a - 1) + 0 = a - 1 /\ a .. a - 1 = {}
    OBVIOUS
  <2> QED BY <2>1, <2>2, <2>3
<1>5. ASSUME NEW k \in Nat, k \in S
      PROVE  k + 1 \in S
  <2> SUFFICES ASSUME (a - 1) + (k + 1) <= b PROVE Holds((a - 1) + (k + 1))
    OBVIOUS
  <2> DEFINE n == (a - 1) + (k + 1)
             e == log[n]
             list == g[n - 1]
             row == Row(list[e.id], e)
  <2>1. n \in a .. b /\ n - 1 = (a - 1) + k /\ n - 1 <= b /\ n - 1 \in Nat
    OBVIOUS
  <2> HIDE DEF n
  <2>2. Grows(list) /\ \A m \in a .. n - 1 : Shows(list, log[m])
    BY <1>5, <2>1
  <2>3. g[n] = [list EXCEPT ![e.id] = row]
    BY <1>1, <2>1 DEF Lists
  <2>4. e \in Event /\ e.id \in Ids /\ Tells(e)
    BY <1>3, <2>1
  <2>5. list \in [Ids -> Rows] /\ list[e.id] \in {NoRow, Waiting, orders[e.id]}
    BY <2>2, <2>4 DEF Grows, ListTrue
  <2> HIDE DEF list, e
  <2>6. /\ row \in {Waiting, orders[e.id]} /\ row # NoRow
        /\ e.kind # "OrderPlaced" => row = orders[e.id]
        /\ list[e.id] = orders[e.id] => row = orders[e.id]
        /\ orders[e.id] # NoRow
    <3> DEFINE old == list[e.id]
    <3>1. old \in {NoRow, Waiting, orders[e.id]}
      BY <2>5
    <3> HIDE DEF old
    <3>2. /\ Row(old, e) \in {Waiting, orders[e.id]} /\ Row(old, e) # NoRow
          /\ e.kind # "OrderPlaced" => Row(old, e) = orders[e.id]
          /\ old = orders[e.id] => Row(old, e) = old
          /\ orders[e.id] # NoRow
      BY <2>4, <3>1, RowShows
    <3> QED BY <3>2 DEF old
  <2>7. row \in Rows
    BY <1>2, <2>4, <2>6, RowsDiffer
  <2> HIDE DEF row
  <2>8. /\ g[n] \in [Ids -> Rows] /\ g[n][e.id] = row
        /\ \A id \in Ids \ {e.id} : g[n][id] = list[id]
    BY <2>3, <2>4, <2>5, <2>7
  <2>9. Grows(g[n])
    <3>1. ListTrue(g[n])
      BY <2>2, <2>6, <2>8 DEF Grows, ListTrue
    <3>2. \A id \in Ids : /\ rows[id] # NoRow => g[n][id] # NoRow
                          /\ rows[id] = orders[id] => g[n][id] = orders[id]
      BY <2>2, <2>6, <2>8 DEF Grows
    <3> QED BY <2>8, <3>1, <3>2 DEF Grows
  <2>10. ASSUME NEW m \in a .. n
         PROVE  Shows(g[n], log[m])
    <3>1. CASE m = n
      BY <2>6, <2>8, <3>1 DEF Shows, e
    <3>2. CASE m # n
      <4>1. m \in a .. n - 1 /\ m \in a .. b
        BY <2>1, <3>2
      <4>2. Shows(list, log[m]) /\ log[m].id \in Ids
        BY <1>3, <2>2, <4>1
      <4> QED BY <2>6, <2>8, <4>2 DEF Shows
    <3> QED BY <3>1, <3>2
  <2> QED BY <2>9, <2>10 DEF n
<1> HIDE DEF S
<1>6. \A k \in Nat : k \in S
  BY <1>4, <1>5, InductionSet
<1> DEFINE last == b - (a - 1)
<1>7. last \in Nat /\ (a - 1) + last = b
  OBVIOUS
<1> HIDE DEF last
<1>8. (a - 1) + last <= b => Holds((a - 1) + last)
  BY <1>6, <1>7 DEF S
<1>9. Holds(b)
  BY <1>7, <1>8
<1> QED BY <1>1, <1>9

-----------------------------------------------------------------------------
(* Each step.                                                              *)

(* Lemma.  The first state satisfies the invariant.                        *)
LEMMA InitInv == Init => IInv
<1> SUFFICES ASSUME Init PROVE IInv
  OBVIOUS
<1> USE DEF Init
<1>1. Typed
  <2>1. log \in Seq(Event)
    OBVIOUS
  <2>2. orders \in [Ids -> Rows] /\ rows \in [Ids -> Rows]
    BY RowsDiffer
  <2> QED BY <2>1, <2>2 DEF Typed, Unasked, Unwatched
<1>2. InLog /\ SeenShown
  BY DEF InLog, SeenShown, Unasked
<1>3. LogTrue
  BY DEF LogTrue
<1>4. LogComplete /\ ListTrue(rows)
  BY DEF LogComplete, ListTrue
<1> QED BY <1>1, <1>2, <1>3, <1>4 DEF IInv

(* An event of an order that is not over, with the row the order gets.     *)
Fitting(kind, id, status, price) ==
  \/ orders[id] = NoRow /\ kind = "OrderPlaced" /\ status = "Pending" /\ price = 0
  \/ orders[id] = Waiting /\ kind = "OrderExecuted" /\ status = "Executed" /\ price \in Prices
  \/ orders[id] = Waiting /\ kind = "OrderCancelled" /\ status = "Cancelled" /\ price = 0

(* Lemma.  A step of the vault: the log of an order that is not over has   *)
(* nothing of it but that it was placed, so what the list shows stays true.*)
LEMMA EmitKeeps ==
  ASSUME IInv, NEW id \in Ids, NEW kind, NEW status, NEW price,
         Fitting(kind, id, status, price), Emit(kind, id, status, price)
  PROVE  IInv'
<1> DEFINE new == [status |-> status, price |-> price]
           e == [kind |-> kind, id |-> id, price |-> price]
<1>1. /\ orders' = [orders EXCEPT ![id] = new] /\ log' = Append(log, e)
      /\ rows' = rows /\ history' = history /\ live' = live
  BY DEF Emit
<1>2. orders \in [Ids -> Rows] /\ rows \in [Ids -> Rows] /\ log \in Seq(Event)
  BY DEF IInv, Typed
<1>3. /\ new \in Rows /\ new # NoRow /\ e \in Event /\ orders[id] \in {NoRow, Waiting}
      /\ Final(new) => e.kind # "OrderPlaced"
  BY DEF Fitting, Rows, NoRow, Waiting, Event, Final
<1>4. orders' \in [Ids -> Rows] /\ orders'[id] = new /\ \A i \in Ids \ {id} : orders'[i] = orders[i]
  BY <1>1, <1>2, <1>3
<1>5. /\ log' \in Seq(Event) /\ Len(log') = Len(log) + 1 /\ Len(log) \in Nat
      /\ log'[Len(log) + 1] = e /\ \A n \in 1 .. Len(log) : log'[n] = log[n]
  BY <1>1, <1>2, <1>3
<1>6. \A n \in 1 .. Len(log) : log[n] \in Event /\ log[n].id \in Ids
  <2>1. \A n \in 1 .. Len(log) : log[n] \in Event
    BY <1>2
  <2> QED BY <2>1 DEF Event
<1>7. ASSUME NEW n \in 1 .. Len(log), log[n].id = id
      PROVE  log[n].kind = "OrderPlaced"
  <2>1. Tells(log[n]) /\ log[n] \in Event
    BY <1>6 DEF IInv, LogTrue
  <2>2. orders[id].status \notin {"Executed", "Cancelled"}
    BY <1>3, RowsDiffer DEF Final
  <2>3. CASE log[n].kind = "OrderExecuted"
    <3>1. orders[id] = [status |-> "Executed", price |-> log[n].price]
      BY <1>7, <2>1, <2>3 DEF Tells
    <3> QED BY <2>2, <3>1
  <2>4. CASE log[n].kind = "OrderCancelled"
    <3>1. orders[id] = [status |-> "Cancelled", price |-> 0]
      BY <1>7, <2>1, <2>4 DEF Tells
    <3> QED BY <2>2, <3>1
  <2> QED BY <2>1, <2>3, <2>4 DEF Event
<1>8. ASSUME NEW n, n = Len(log) + 1
      PROVE  Tells(log[n])'
  <2>1. /\ e.kind = "OrderPlaced" => new # NoRow
        /\ e.kind = "OrderExecuted" => new = [status |-> "Executed", price |-> e.price]
        /\ e.kind = "OrderCancelled" => new = [status |-> "Cancelled", price |-> 0]
        /\ e.id = id
    BY <1>3 DEF Fitting
  <2>2. e.kind \in {"OrderPlaced", "OrderExecuted", "OrderCancelled"}
    BY <1>3 DEF Event
  <2>3. log'[n] = e
    BY <1>5, <1>8
  <2> HIDE DEF new, e
  <2> QED BY <1>4, <2>1, <2>2, <2>3 DEF Tells
<1> HIDE DEF new, e
<1>9. Typed'
  BY <1>1, <1>2, <1>4, <1>5 DEF IInv, Typed
<1>10. InLog'
  BY <1>1, <1>5 DEF IInv, Typed, InLog
<1>11. LogTrue'
  <2> SUFFICES ASSUME NEW n \in 1 .. Len(log') PROVE Tells(log[n])'
    BY DEF LogTrue
  <2>1. CASE n = Len(log) + 1
    BY <1>8, <2>1
  <2>2. CASE n # Len(log) + 1
    <3>1. n \in 1 .. Len(log) /\ log'[n] = log[n]
      BY <1>5, <2>2
    <3> DEFINE old == log[n]
    <3>2. Tells(old) /\ old \in Event /\ old.id \in Ids
      BY <1>6, <3>1 DEF IInv, LogTrue
    <3>3. old.id = id => old.kind = "OrderPlaced"
      BY <1>7, <3>1
    <3> HIDE DEF old
    <3>4. Tells(log[n])'
      <4>1. CASE old.id = id
        BY <1>3, <1>4, <3>1, <3>3, <4>1 DEF Tells, old
      <4>2. CASE old.id # id
        BY <1>4, <3>1, <3>2, <4>2 DEF Tells, old
      <4> QED BY <4>1, <4>2
    <3> QED BY <3>4
  <2> QED BY <2>1, <2>2
<1>12. LogComplete'
  <2> SUFFICES ASSUME NEW i \in Ids, orders'[i] # NoRow
               PROVE  \E n \in 1 .. Len(log') : log'[n].id = i /\ (Final(orders'[i]) => log'[n].kind # "OrderPlaced")
    BY DEF LogComplete, Final
  <2>1. CASE i = id
    <3>1. Len(log) + 1 \in 1 .. Len(log') /\ log'[Len(log) + 1].id = i
      BY <1>5, <2>1 DEF e
    <3> QED BY <1>3, <1>4, <1>5, <2>1, <3>1
  <2>2. CASE i # id
    <3>1. orders'[i] = orders[i]
      BY <1>4, <2>2
    <3>2. PICK n \in 1 .. Len(log) : log[n].id = i /\ (Final(orders[i]) => log[n].kind # "OrderPlaced")
      BY <3>1 DEF IInv, LogComplete
    <3>3. n \in 1 .. Len(log') /\ log'[n] = log[n]
      BY <1>5
    <3> QED BY <3>1, <3>2, <3>3
  <2> QED BY <2>1, <2>2
<1>13. ListTrue(rows)'
  <2> SUFFICES ASSUME NEW i \in Ids
               PROVE  /\ rows[i] \in {NoRow, Waiting, orders'[i]}
                      /\ rows[i] # NoRow => orders'[i] # NoRow
    BY <1>1 DEF ListTrue
  <2>1. rows[i] \in {NoRow, Waiting, orders[i]} /\ (rows[i] # NoRow => orders[i] # NoRow)
    BY DEF IInv, ListTrue
  <2> QED BY <1>3, <1>4, <2>1
<1>14. ASSUME NEW n \in 1 .. Len(log), Shows(rows, log[n])
       PROVE  Shows(rows, log[n])'
  <2> DEFINE old == log[n]
  <2>1. old \in Event /\ old.id \in Ids /\ log'[n] = old /\ (old.id = id => old.kind = "OrderPlaced")
    BY <1>5, <1>6, <1>7
  <2>2. Shows(rows, old)
    BY <1>14
  <2> HIDE DEF old
  <2>3. /\ rows[old.id] # NoRow
        /\ old.kind # "OrderPlaced" => rows[old.id] = orders'[old.id]
    BY <1>4, <2>1, <2>2 DEF Shows
  <2> QED BY <1>1, <2>1, <2>3 DEF Shows
<1>15. SeenShown'
  <2>1. history.state = "applied" =>
          \A n \in history.from .. history.to : n \in 1 .. Len(log) /\ Shows(rows, log[n])
    BY <1>5 DEF IInv, Typed, InLog, SeenShown
  <2>2. live # Unwatched =>
          \A n \in live.first .. live.next - 1 : n \in 1 .. Len(log) /\ Shows(rows, log[n])
    BY <1>5 DEF IInv, Typed, InLog, SeenShown
  <2>3. history.state = "applied" => \A n \in history.from .. history.to : Shows(rows, log[n])'
    BY <1>14, <2>1
  <2>4. live # Unwatched => \A n \in live.first .. live.next - 1 : Shows(rows, log[n])'
    BY <1>14, <2>2
  <2> QED BY <1>1, <2>3, <2>4 DEF SeenShown, Unwatched, Shows
<1> QED BY <1>9, <1>10, <1>11, <1>12, <1>13, <1>15 DEF IInv

(* Lemma.  A step of the list: the vault stays, no row gets wrong, what    *)
(* was shown stays shown and what is newly counted as seen is shown.       *)
LEMMA GrowsKeeps ==
  ASSUME IInv, Grows(rows'), UNCHANGED vault,
         history' \in [state : {"asked", "answered", "applied", "failed"}, from : Nat, to : Nat],
         live' \in [first : Nat, next : Nat], InLog',
         history'.state = "applied" => \A n \in history'.from .. history'.to : Shows(rows', log[n]),
         live' # Unwatched => \A n \in live'.first .. live'.next - 1 : Shows(rows', log[n])
  PROVE  IInv'
<1>1. orders' = orders /\ log' = log
  BY DEF vault
<1>2. Typed'
  BY <1>1 DEF IInv, Typed, Grows
<1>3. LogTrue' /\ LogComplete'
  BY <1>1 DEF IInv, LogTrue, LogComplete, Tells, Final
<1>4. ListTrue(rows)'
  BY <1>1 DEF Grows, ListTrue
<1>5. SeenShown'
  BY <1>1 DEF SeenShown, Shows, Unwatched
<1> QED BY <1>2, <1>3, <1>4, <1>5 DEF IInv

(* Lemma.  What was shown stays shown.                                     *)
LEMMA StaysShown ==
  ASSUME IInv, NEW list, Grows(list), NEW n \in 1 .. Len(log), Shows(rows, log[n])
  PROVE  Shows(list, log[n])
<1>1. log[n] \in Event
  BY DEF IInv, Typed
<1>2. log[n].id \in Ids
  BY <1>1 DEF Event
<1> QED BY <1>2 DEF Shows, Grows

(* Lemma.  Rows that do not change do not get wrong.                       *)
LEMMA SameGrows == IInv => Grows(rows)
BY DEF IInv, Typed, Grows

(* Lemma.  Every step keeps the invariant.                                 *)
LEMMA StepInv == IInv /\ [Next]_vars => IInv'
<1> SUFFICES ASSUME IInv, [Next]_vars PROVE IInv'
  OBVIOUS
<1> USE DEF Unwatched
<1>1. orders \in [Ids -> Rows] /\ Len(log) \in Nat
  BY DEF IInv, Typed
<1>2. ASSUME NEW id \in Ids, orders[id].status = "Pending"
      PROVE  orders[id] = Waiting
  BY <1>1, <1>2 DEF Rows, NoRow
<1>3. ASSUME NEW id \in Ids, OrderPlaced(id)
      PROVE  IInv'
  BY <1>3, EmitKeeps DEF OrderPlaced, Fitting
<1>4. ASSUME NEW id \in Ids, OrderCancelled(id)
      PROVE  IInv'
  BY <1>2, <1>4, EmitKeeps DEF OrderCancelled, Fitting
<1>5. ASSUME NEW id \in Ids, NEW price \in Prices, OrderExecuted(id, price)
      PROVE  IInv'
  BY <1>2, <1>5, EmitKeeps DEF OrderExecuted, Fitting
<1>6. CASE QueryHistory
  <2>1. PICK from \in 1 .. Len(log) + 1 :
          history' = [state |-> "answered", from |-> from, to |-> Len(log)]
    BY <1>6 DEF QueryHistory
  <2>2. orders' = orders /\ log' = log /\ rows' = rows /\ live' = live
    BY <1>6 DEF QueryHistory, vault
  <2>3. InLog'
    BY <1>1, <2>1, <2>2 DEF IInv, InLog
  <2> QED BY <1>1, <2>1, <2>2, <2>3, SameGrows, GrowsKeeps DEF IInv, Typed, SeenShown, vault
<1>7. CASE ApplyHistory
  <2>1. /\ orders' = orders /\ log' = log /\ live' = live
        /\ rows' = apply(history.from, history.to)
        /\ history.state = "answered" /\ history' = [history EXCEPT !.state = "applied"]
    BY <1>7 DEF ApplyHistory, vault
  <2>2. /\ history.from \in Nat \ {0} /\ history.to \in Nat
        /\ history.from - 1 <= history.to /\ history.to <= Len(log)
    BY <1>1, <2>1 DEF IInv, Typed, InLog
  <2>3. Grows(rows') /\ \A n \in history.from .. history.to : Shows(rows', log[n])
    BY <2>1, <2>2, ApplyShows
  <2>4. /\ history' \in [state : {"asked", "answered", "applied", "failed"}, from : Nat, to : Nat]
        /\ history'.from = history.from /\ history'.to = history.to
    BY <2>1 DEF IInv, Typed
  <2>5. InLog'
    BY <2>1, <2>4 DEF IInv, InLog
  <2>6. live' # Unwatched => \A n \in live'.first .. live'.next - 1 : Shows(rows', log[n])
    <3>1. live # Unwatched => \A n \in live.first .. live.next - 1 : n \in 1 .. Len(log) /\ Shows(rows, log[n])
      BY <1>1 DEF IInv, Typed, InLog, SeenShown
    <3> QED BY <2>1, <2>3, <3>1, StaysShown
  <2> QED BY <2>1, <2>3, <2>4, <2>5, <2>6, GrowsKeeps DEF IInv, Typed, vault
<1>8. CASE HistoryFails
  <2>1. /\ orders' = orders /\ log' = log /\ live' = live /\ rows' = rows
        /\ history' = [history EXCEPT !.state = "failed"]
    BY <1>8 DEF HistoryFails, vault
  <2>2. history' \in [state : {"asked", "answered", "applied", "failed"}, from : Nat, to : Nat]
        /\ history'.state = "failed"
    BY <2>1 DEF IInv, Typed
  <2>3. InLog'
    BY <2>1, <2>2 DEF IInv, InLog
  <2> QED BY <2>1, <2>2, <2>3, SameGrows, GrowsKeeps DEF IInv, Typed, SeenShown, vault
<1>9. CASE StartWatch
  <2>1. /\ orders' = orders /\ log' = log /\ history' = history /\ rows' = rows
        /\ live' = [first |-> Len(log) + 1, next |-> Len(log) + 1]
    BY <1>9 DEF StartWatch, vault
  <2>2. InLog'
    BY <1>1, <2>1 DEF IInv, InLog
  <2>3. \A n \in live'.first .. live'.next - 1 : FALSE
    BY <1>1, <2>1
  <2> QED BY <1>1, <2>1, <2>2, <2>3, SameGrows, GrowsKeeps DEF IInv, Typed, SeenShown, vault
<1>10. CASE PollLogs
  <2>1. /\ orders' = orders /\ log' = log /\ history' = history
        /\ rows' = apply(live.next, Len(log))
        /\ live # Unwatched /\ live.next <= Len(log) /\ live' = [live EXCEPT !.next = Len(log) + 1]
    BY <1>10 DEF PollLogs, vault
  <2>2. live.first \in Nat \ {0} /\ live.next \in Nat \ {0} /\ live.first <= live.next
    BY <2>1 DEF IInv, Typed, InLog
  <2>3. Grows(rows') /\ \A n \in live.next .. Len(log) : Shows(rows', log[n])
    BY <1>1, <2>1, <2>2, ApplyShows
  <2>4. live' \in [first : Nat, next : Nat] /\ live'.first = live.first /\ live'.next = Len(log) + 1
    BY <1>1, <2>1 DEF IInv, Typed
  <2>5. InLog'
    BY <1>1, <2>1, <2>2, <2>4 DEF IInv, InLog
  <2>6. \A n \in live'.first .. live'.next - 1 : Shows(rows', log[n])
    <3> SUFFICES ASSUME NEW n \in live.first .. Len(log) PROVE Shows(rows', log[n])
      BY <1>1, <2>4
    <3>1. CASE n < live.next
      <4>1. n \in 1 .. Len(log) /\ n \in live.first .. live.next - 1
        BY <1>1, <2>1, <2>2, <3>1
      <4>2. Shows(rows, log[n])
        BY <2>1, <4>1 DEF IInv, SeenShown
      <4> QED BY <2>3, <4>1, <4>2, StaysShown
    <3>2. CASE ~(n < live.next)
      BY <2>2, <2>3, <3>2
    <3> QED BY <3>1, <3>2
  <2>7. history.state = "applied" => \A n \in history.from .. history.to : Shows(rows', log[n])
    <3>1. history.state = "applied" =>
            \A n \in history.from .. history.to : n \in 1 .. Len(log) /\ Shows(rows, log[n])
      BY <1>1 DEF IInv, Typed, InLog, SeenShown
    <3> QED BY <2>3, <3>1, StaysShown
  <2> QED BY <2>1, <2>3, <2>4, <2>5, <2>6, <2>7, GrowsKeeps DEF IInv, Typed, vault
<1>11. CASE Remount
  <2>1. /\ orders' = orders /\ log' = log /\ rows' = rows
        /\ history' = [state |-> "asked", from |-> 0, to |-> 0] /\ live' = Unwatched
    BY <1>11 DEF Remount, vault, Unasked
  <2>2. InLog'
    BY <2>1 DEF InLog
  <2> QED BY <2>1, <2>2, SameGrows, GrowsKeeps DEF vault
<1>12. CASE UNCHANGED vars
  <2>1. orders' = orders /\ log' = log /\ rows' = rows /\ history' = history /\ live' = live
    BY <1>12 DEF vars
  <2>2. InLog'
    BY <2>1 DEF IInv, InLog
  <2> QED BY <2>1, <2>2, SameGrows, GrowsKeeps DEF IInv, Typed, SeenShown, vault
<1>13. CASE FilterLost
  <2>1. /\ orders' = orders /\ log' = log /\ rows' = rows /\ history' = history
        /\ live' = Unwatched
    BY <1>13 DEF FilterLost, vault
  <2>2. InLog'
    BY <2>1 DEF IInv, InLog
  <2>3. live' \in [first : Nat, next : Nat]
    BY <2>1 DEF Unwatched
  <2> QED BY <2>1, <2>2, <2>3, SameGrows, GrowsKeeps DEF IInv, Typed, SeenShown, vault
<1> QED BY <1>3, <1>4, <1>5, <1>6, <1>7, <1>8, <1>9, <1>10, <1>11, <1>12, <1>13 DEF Next

-----------------------------------------------------------------------------
(* The theorems.                                                           *)

(* Theorem.  The list satisfies the inductive invariant at all times.      *)
THEOREM ViewInvariant == Spec => []IInv
<1>1. Init => IInv
  BY InitInv
<1>2. IInv /\ [Next]_vars => IInv'
  BY StepInv
<1> QED BY <1>1, <1>2, PTL DEF Spec

(* Lemma.  In one state: an end the list shows is the order's.             *)
LEMMA InvEndsAreTrue == IInv => EndsAreTrue
BY RowsDiffer DEF IInv, ListTrue, EndsAreTrue

(* Theorem.  Of an order that is over the list never shows a wrong end     *)
(* (useOrders.ts, apply), with any events missing, late or repeated.       *)
THEOREM ViewEndsAreTrue == Spec => []EndsAreTrue
BY ViewInvariant, InvEndsAreTrue, PTL

(* Theorem.  With the whole history applied and the subscription polled,   *)
(* every order is shown as it is in the vault, but for those whose last    *)
(* event fell between the two (Missed).                                    *)
THEOREM ViewIsComplete == Spec => []ViewComplete
<1>1. IInv => ViewComplete
  <2> SUFFICES ASSUME IInv, WholeAndLive, live.next = Len(log) + 1, NEW id \in Ids, ~Missed(id)
               PROVE  rows[id] = orders[id]
    BY DEF ViewComplete
  <2>1. /\ history.state = "applied" /\ history.from = 1 /\ live # Unwatched
        /\ history.to \in Nat /\ live.first \in Nat /\ Len(log) \in Nat
    BY DEF WholeAndLive, IInv, Typed
  <2>2. rows[id] \in Rows /\ orders[id] \in Rows
    BY DEF IInv, Typed
  <2>3. rows[id] \in {NoRow, Waiting, orders[id]} /\ (rows[id] # NoRow => orders[id] # NoRow)
    BY DEF IInv, ListTrue
  <2>4. CASE orders[id] = NoRow
    BY <2>3, <2>4
  <2>5. CASE orders[id] # NoRow
    <3>1. PICK n \in 1 .. Len(log) : log[n].id = id /\ (Final(orders[id]) => log[n].kind # "OrderPlaced")
      BY <2>5 DEF IInv, LogComplete
    <3>2. n \notin history.to + 1 .. live.first - 1
      BY <3>1 DEF Missed
    <3>3. n \in history.from .. history.to \/ n \in live.first .. live.next - 1
      BY <2>1, <3>2
    <3>4. Shows(rows, log[n])
      BY <2>1, <3>3 DEF IInv, SeenShown
    <3>5. rows[id] # NoRow /\ (Final(orders[id]) => rows[id] = orders[id])
      BY <3>1, <3>4 DEF Shows
    <3>6. orders[id] = Waiting \/ Final(orders[id])
      BY <2>2, <2>5, RowsDiffer
    <3> QED BY <2>3, <3>5, <3>6
  <2> QED BY <2>4, <2>5
<1> QED BY <1>1, ViewInvariant, PTL

(* Theorem.  A row that shows an order's end keeps it, whatever is applied *)
(* after it: OrderPlaced leaves it, and the end comes again as it was.     *)
THEOREM ViewKeepsEnds == Spec => ViewNeverRegresses
<1>1. ASSUME IInv, [Next]_vars, NEW id \in Ids, Final(rows[id])
      PROVE  rows'[id] = rows[id]
  <2>1. rows[id] = orders[id]
    BY <1>1, InvEndsAreTrue DEF EndsAreTrue
  <2>2. CASE ApplyHistory
    <3>1. /\ history.from \in Nat \ {0} /\ history.to \in Nat
          /\ history.from - 1 <= history.to /\ history.to <= Len(log)
      BY <1>1, <2>2 DEF ApplyHistory, IInv, Typed, InLog
    <3>2. Grows(rows')
      BY <1>1, <2>2, <3>1, ApplyShows DEF ApplyHistory
    <3> QED BY <2>1, <3>2 DEF Grows
  <2>3. CASE PollLogs
    <3>1. live.next \in Nat \ {0} /\ live.next - 1 <= Len(log) /\ Len(log) \in Nat
      BY <1>1, <2>3 DEF PollLogs, IInv, Typed, InLog
    <3>2. Grows(rows')
      BY <1>1, <2>3, <3>1, ApplyShows DEF PollLogs
    <3> QED BY <2>1, <3>2 DEF Grows
  <2>4. CASE rows' = rows
    BY <2>4
  <2>5. ApplyHistory \/ PollLogs \/ rows' = rows
    BY <1>1 DEF Next, vars, OrderPlaced, OrderExecuted, OrderCancelled, Emit,
                QueryHistory, HistoryFails, StartWatch, FilterLost, Remount
  <2> QED BY <2>2, <2>3, <2>4, <2>5
<1>2. IInv /\ [Next]_vars => [\A id \in Ids : Final(rows[id]) => rows'[id] = rows[id]]_vars
  BY <1>1
<1> QED BY <1>2, ViewInvariant, PTL DEF Spec, ViewNeverRegresses
=============================================================================
