--------------------------- MODULE DarkStopProofs ---------------------------
(***************************************************************************)
(* Proofs about an order's whole way, for any number of orders and runs,   *)
(* any payloads, any feed values a contract can hold.                      *)
(***************************************************************************)
EXTENDS DarkStop, Lemmas, SequenceTheorems

-----------------------------------------------------------------------------
(* Powers of ten.  A recursive function is a choice among those that       *)
(* satisfy its equation; that there is one is the first thing to show.     *)

(* g has the powers of ten up to n.                                        *)
Powers(n, g) == /\ g \in [0 .. n -> Nat \ {0}]
                /\ g[0] = 1
                /\ \A k \in 1 .. n : g[k] = 10 * g[k - 1]

(* Lemma.  There are powers of ten up to any n.                            *)
LEMMA PowersExist == \A n \in Nat : \E g : Powers(n, g)
<1> DEFINE S == {n \in Nat : \E g : Powers(n, g)}
<1>1. 0 \in S
  <2>1. Powers(0, [k \in 0 .. 0 |-> 1])
    BY DEF Powers
  <2> QED BY <2>1
<1>2. ASSUME NEW n \in Nat, n \in S
      PROVE  n + 1 \in S
  <2>1. PICK g : Powers(n, g)
    BY <1>2
  <2> DEFINE h == [k \in 0 .. n + 1 |-> IF k = n + 1 THEN 10 * g[n] ELSE g[k]]
  <2>2. h \in [0 .. n + 1 -> Nat \ {0}]
    BY <2>1 DEF Powers
  <2>3. h[0] = 1 /\ \A k \in 1 .. n + 1 : h[k] = 10 * h[k - 1]
    BY <2>1 DEF Powers
  <2>4. Powers(n + 1, h)
    BY <2>2, <2>3 DEF Powers
  <2> QED BY <2>4
<1> HIDE DEF S
<1>3. \A n \in Nat : n \in S
  BY <1>1, <1>2, InductionSet
<1> QED BY <1>3 DEF S

(* Lemma.  They are the same for any two.                                  *)
LEMMA PowersAgree ==
  ASSUME NEW m \in Nat, NEW n \in Nat, NEW g, NEW h, Powers(m, g), Powers(n, h)
  PROVE  \A k \in Nat : k <= m /\ k <= n => g[k] = h[k]
<1> DEFINE S == {k \in Nat : k <= m /\ k <= n => g[k] = h[k]}
<1>1. 0 \in S
  BY DEF Powers
<1>2. ASSUME NEW k \in Nat, k \in S
      PROVE  k + 1 \in S
  BY <1>2 DEF Powers
<1> HIDE DEF S
<1>3. \A k \in Nat : k \in S
  BY <1>1, <1>2, InductionSet
<1> QED BY <1>3 DEF S

(* Lemma.  A power of ten is a positive number.                            *)
LEMMA PowerType == \A k \in Nat : PowerOfTen[k] \in Nat \ {0}
<1> DEFINE P(n) == CHOOSE g : Powers(n, g)
           F == [n \in Nat |-> P(n)[n]]
<1>1. \A n \in Nat : Powers(n, P(n))
  BY PowersExist
<1> HIDE DEF P
<1>2. \A n \in Nat : F[n] \in Nat \ {0} /\ F[n] = P(n)[n]
  BY <1>1 DEF Powers
<1>3. F[0] = 1
  BY <1>1 DEF Powers
<1>4. ASSUME NEW n \in Nat \ {0}
      PROVE  F[n] = 10 * F[n - 1]
  <2>1. n - 1 \in Nat /\ n \in 1 .. n
    OBVIOUS
  <2>2. P(n)[n] = 10 * P(n)[n - 1]
    BY <1>1, <2>1 DEF Powers
  <2>3. P(n)[n - 1] = P(n - 1)[n - 1]
    BY <1>1, <2>1, PowersAgree
  <2> QED BY <1>2, <2>1, <2>2, <2>3
<1>5. F = [n \in Nat |-> IF n = 0 THEN 1 ELSE 10 * F[n - 1]]
  <2>1. \A n \in Nat : F[n] = IF n = 0 THEN 1 ELSE 10 * F[n - 1]
    BY <1>3, <1>4
  <2> QED BY <2>1
<1> HIDE DEF F
<1>6. PowerOfTen = [n \in Nat |-> IF n = 0 THEN 1 ELSE 10 * PowerOfTen[n - 1]]
  BY <1>5 DEF PowerOfTen
<1> DEFINE S == {k \in Nat : PowerOfTen[k] \in Nat \ {0}}
<1>7. 0 \in S
  BY <1>6
<1>8. ASSUME NEW k \in Nat, k \in S
      PROVE  k + 1 \in S
  <2>1. PowerOfTen[k + 1] = 10 * PowerOfTen[k]
    BY <1>6
  <2> QED BY <1>8, <2>1
<1> HIDE DEF S
<1>9. \A k \in Nat : k \in S
  BY <1>7, <1>8, InductionSet
<1> QED BY <1>9 DEF S

-----------------------------------------------------------------------------
(* Prices.                                                                 *)

(* Lemma.  Division by a power of ten: a price, and zero below the power.  *)
LEMMA Scaled ==
  ASSUME NEW v \in Nat, NEW s \in Nat \ {0}
  PROVE  v \div s \in Nat /\ (v < s => v \div s = 0) /\ v * s \in Nat /\ (v > 0 => v * s >= s)
<1>1. v \div s \in Nat
  OBVIOUS
<1>2. v < s => v \div s = 0
  OBVIOUS
<1>3. v * s \in Nat
  OBVIOUS
<1>4. ASSUME v > 0
      PROVE  v * s >= s
  <2>1. 1 * s <= v * s
    BY <1>4, ProductMonotone
  <2> QED BY <2>1
<1> QED BY <1>1, <1>2, <1>3, <1>4

(* Lemma.  What the watcher makes of a feed value.                         *)
LEMMA NormalizeType ==
  ASSUME NEW v \in Nat, NEW d \in Int
  PROVE  normalizePrice(v, d) \in Nat
<1>1. CASE d <= PayoutDecimals
  <2> DEFINE s == PowerOfTen[PayoutDecimals - d]
  <2>1. s \in Nat \ {0}
    BY <1>1, PowerType DEF PayoutDecimals
  <2> HIDE DEF s
  <2>2. v * s \in Nat
    BY <2>1, Scaled
  <2>3. normalizePrice(v, d) = v * s
    BY <1>1 DEF normalizePrice, s
  <2> QED BY <2>2, <2>3
<1>2. CASE ~(d <= PayoutDecimals)
  <2> DEFINE s == PowerOfTen[d - PayoutDecimals]
  <2>1. s \in Nat \ {0}
    BY <1>2, PowerType DEF PayoutDecimals
  <2> HIDE DEF s
  <2>2. v \div s \in Nat
    BY <2>1, Scaled
  <2>3. normalizePrice(v, d) = v \div s
    BY <1>2 DEF normalizePrice, s
  <2> QED BY <2>2, <2>3
<1> QED BY <1>1, <1>2

(* Lemma.  What the vault makes of it: the watcher's price, if that is a   *)
(* positive number that fits, and no other price in any case.              *)
LEMMA ConversionsAgree ==
  ASSUME NEW v \in 0 .. MaxUint, NEW d \in Int
  PROVE  /\ toPayoutDecimals(v, d) \in {normalizePrice(v, d), Overflow}
         /\ normalizePrice(v, d) \in 1 .. MaxUint => toPayoutDecimals(v, d) = normalizePrice(v, d)
<1>0. v \in Nat /\ v <= MaxUint /\ MaxUint \in Nat
  BY HandlersAssumption
<1>1. CASE d <= PayoutDecimals
  <2> DEFINE s == PowerOfTen[PayoutDecimals - d]
             x == v * s
  <2>1. s \in Nat \ {0}
    BY <1>1, PowerType DEF PayoutDecimals
  <2>2. normalizePrice(v, d) = x
    BY <1>1 DEF normalizePrice
  <2>3. toPayoutDecimals(v, d) = IF s > MaxUint THEN Overflow ELSE IF x > MaxUint THEN Overflow ELSE x
    <3> HIDE DEF s
    <3>1. toPayoutDecimals(v, d) =
            CASE s > MaxUint -> Overflow
              [] s <= MaxUint /\ d > PayoutDecimals -> v \div s
              [] s <= MaxUint /\ d <= PayoutDecimals -> IF x > MaxUint THEN Overflow ELSE x
      BY <1>1 DEF toPayoutDecimals, s
    <3> HIDE DEF x
    <3> QED BY <1>0, <1>1, <2>1, <3>1 DEF PayoutDecimals
  <2> HIDE DEF s
  <2>4. x \in Nat /\ (v > 0 => x >= s)
    BY <1>0, <2>1, Scaled
  <2>5. v = 0 => x = 0
    BY <2>1
  <2> HIDE DEF x
  <2> QED BY <1>0, <2>1, <2>2, <2>3, <2>4, <2>5
<1>2. CASE d > PayoutDecimals
  <2> DEFINE s == PowerOfTen[d - PayoutDecimals]
             x == v \div s
  <2>1. s \in Nat \ {0}
    BY <1>2, PowerType DEF PayoutDecimals
  <2>2. normalizePrice(v, d) = x
    BY <1>2 DEF normalizePrice, PayoutDecimals
  <2>3. toPayoutDecimals(v, d) = IF s > MaxUint THEN Overflow ELSE x
    <3> HIDE DEF s
    <3>1. toPayoutDecimals(v, d) =
            CASE s > MaxUint -> Overflow
              [] s <= MaxUint /\ d > PayoutDecimals -> x
              [] s <= MaxUint /\ d <= PayoutDecimals -> IF v * s > MaxUint THEN Overflow ELSE v * s
      <4>1. ~(d <= PayoutDecimals)
        BY <1>2 DEF PayoutDecimals
      <4> QED BY <4>1 DEF toPayoutDecimals, s
    <3> HIDE DEF x
    <3> QED BY <1>0, <1>2, <2>1, <3>1 DEF PayoutDecimals
  <2> HIDE DEF s
  <2>4. x \in Nat /\ (v < s => x = 0)
    BY <1>0, <2>1, Scaled
  <2> HIDE DEF x
  <2> QED BY <1>0, <2>1, <2>2, <2>3, <2>4
<1> QED BY <1>1, <1>2 DEF PayoutDecimals

-----------------------------------------------------------------------------
(* Payloads.                                                               *)

(* What may be sealed.                                                     *)
Sealed == Payloads \cup {FormPayload(ask) : ask \in Asks} \cup {Object(<<>>)}

(* Lemma.  The least and the greatest of one number.                       *)
LEMMA OneOnly ==
  ASSUME NEW i \in Nat
  PROVE  Max({i}) = i /\ Min({i}) = i
BY DEF Max, Min

(* Lemma.  If no name is repeated and all are written exactly, every       *)
(* reader finds the same value.                                            *)
LEMMA OneValue ==
  ASSUME NEW p, DOMAIN p.fields \subseteq Nat, validateOrderJSONKeys(p), NEW name
  PROVE  Decoded(p, name) = First(p, name) /\ Decoded(p, name) = Exact(p, name)
<1> DEFINE exact == {i \in Given(p, name) : p.fields[i].exact}
<1>1. Given(p, name) \subseteq DOMAIN p.fields
  BY DEF Given
<1>2. \A i \in Given(p, name) : p.fields[i].exact
  BY <1>1 DEF validateOrderJSONKeys
<1>3. exact = Given(p, name)
  BY <1>2
<1>4. CASE Given(p, name) = {}
  BY <1>3, <1>4 DEF Decoded, First, Exact
<1>5. ASSUME NEW i \in Given(p, name)
      PROVE  Decoded(p, name) = First(p, name) /\ Decoded(p, name) = Exact(p, name)
  <2>1. \A j \in Given(p, name) : j = i
    BY <1>5 DEF validateOrderJSONKeys, Given
  <2>2. Given(p, name) = {i} /\ i \in Nat
    BY <1>1, <2>1
  <2>3. Max({i}) = i /\ Min({i}) = i
    BY <2>2, OneOnly
  <2>4. exact = {i}
    BY <1>3, <2>2
  <2>5. Decoded(p, name) = p.fields[i].value
    BY <2>2, <2>3 DEF Decoded
  <2>6. First(p, name) = p.fields[i].value
    BY <2>2, <2>3 DEF First
  <2>7. Exact(p, name) = p.fields[i].value
    BY <2>3, <2>4 DEF Exact
  <2> QED BY <2>5, <2>6, <2>7
<1> QED BY <1>4, <1>5

(* Lemma.  A policy is one that Put takes, or none.                        *)
LEMMA PolicyType ==
  ASSUME NEW s, NEW t, NEW b
  PROVE  /\ Policy(s, t, b) \in [trigger : Nat, bps : Nat]
         /\ Sound(Policy(s, t, b))
         /\ Policy(s, t, b).trigger \in 0 .. MaxUint
         /\ Policy(s, t, b) # NoPolicy => Policy(s, t, b).bps = 0 \/ Policy(s, t, b).trigger = 0
<1> DEFINE kind == IF s.text = "" /\ t # Null /\ b = Null THEN "fixed" ELSE s.text
           trails == kind = "trailing" /\ t = Null /\ b.n \in MinTrailBps .. MaxTrailBps
           fixed == kind = "fixed" /\ b = Null /\ t.text = "decimal" /\ t.n \in 1 .. MaxUint
<1>1. ~(trails /\ fixed)
  OBVIOUS
<1>2. Policy(s, t, b) = CASE trails -> Trailing(b.n) [] fixed -> Fixed(t.n) [] OTHER -> NoPolicy
  BY DEF Policy
<1> HIDE DEF kind
<1>3. CASE trails
  <2>1. Policy(s, t, b) = Trailing(b.n) /\ b.n \in MinTrailBps .. MaxTrailBps
    BY <1>1, <1>2, <1>3
  <2>2. PICK n \in MinTrailBps .. MaxTrailBps : n = b.n
    BY <2>1
  <2>3. n \in Nat
    BY DEF MinTrailBps, MaxTrailBps
  <2>4. Policy(s, t, b) = [trigger |-> 0, bps |-> n]
    BY <2>1, <2>2 DEF Trailing
  <2>5. 0 \in 0 .. MaxUint
    BY HandlersAssumption
  <2> QED BY <2>3, <2>4, <2>5 DEF Sound
<1>4. CASE fixed
  <2>1. Policy(s, t, b) = Fixed(t.n) /\ t.n \in 1 .. MaxUint
    BY <1>1, <1>2, <1>4
  <2> QED BY <2>1, HandlersAssumption DEF Fixed, Sound
<1>5. CASE ~trails /\ ~fixed
  <2>1. Policy(s, t, b) = NoPolicy
    BY <1>2, <1>5
  <2> QED BY <2>1, HandlersAssumption DEF NoPolicy, Sound
<1> QED BY <1>3, <1>4, <1>5

(* Lemma.  What the enclave reads, if anything, every reader would read.   *)
LEMMA ParsedOnce ==
  ASSUME NEW p, DOMAIN p.fields \subseteq Nat
  PROVE  /\ ParseOrderPlaintext(p) \in [trigger : Nat, bps : Nat]
         /\ Sound(ParseOrderPlaintext(p))
         /\ ParseOrderPlaintext(p).trigger \in 0 .. MaxUint
         /\ ParseOrderPlaintext(p) # NoPolicy =>
              ParseOrderPlaintext(p) = ReadFirst(p) /\ ParseOrderPlaintext(p) = ReadExact(p)
<1>1. CASE p.fits /\ validateOrderJSONKeys(p) /\ Decodes(p)
  <2>1. ParseOrderPlaintext(p) =
          Policy(Decoded(p, "strategy"), Decoded(p, "triggerPrice"), Decoded(p, "trailBps"))
    BY <1>1 DEF ParseOrderPlaintext
  <2>2. \A name : Decoded(p, name) = First(p, name) /\ Decoded(p, name) = Exact(p, name)
    BY <1>1, OneValue
  <2>3. ParseOrderPlaintext(p) = ReadFirst(p)
    BY <2>1, <2>2 DEF ReadFirst
  <2>4. ParseOrderPlaintext(p) = ReadExact(p)
    BY <2>1, <2>2 DEF ReadExact
  <2> QED BY <2>1, <2>3, <2>4, PolicyType
<1>2. CASE ~(p.fits /\ validateOrderJSONKeys(p) /\ Decodes(p))
  <2>1. ParseOrderPlaintext(p) = NoPolicy
    BY <1>2 DEF ParseOrderPlaintext
  <2> QED BY <2>1, HandlersAssumption DEF NoPolicy, Sound
<1> QED BY <1>1, <1>2

-----------------------------------------------------------------------------
(* The form.                                                               *)

(* What FlowAssumption says of an ask.                                     *)
Askable(ask) == /\ ask.kind \in {"fixed", "trailing"} /\ ask.n \in Nat
                /\ ask.decimals \in Seq(0 .. 9) /\ Len(ask.decimals) <= 2

(* Lemma.  Padding the decimals with zeros is what percentToBps does.      *)
LEMMA PercentExact ==
  ASSUME NEW ask, Askable(ask), ask.kind = "trailing"
  PROVE  Asked(ask) = Trailing(percentToBps(ask.n, ask.decimals))
<1> DEFINE x == ask.decimals
           d == x \o <<0, 0>>
<1>1. x \in Seq(0 .. 9) /\ Len(x) \in {0, 1, 2} /\ ask.n \in Nat
  <2>1. x \in Seq(0 .. 9) /\ Len(x) <= 2 /\ ask.n \in Nat
    BY DEF Askable
  <2>2. Len(x) \in Nat
    BY <2>1
  <2>3. \A n \in Nat : n <= 2 => n \in {0, 1, 2}
    OBVIOUS
  <2> HIDE DEF x
  <2> QED BY <2>1, <2>2, <2>3
<1>2. Asked(ask) = Trailing(100 * ask.n + 10 * d[1] + d[2])
  BY DEF Asked
<1>3. \A i \in 1 .. Len(x) : x[i] \in Nat
  BY <1>1
<1> HIDE DEF x
<1>7. /\ \A i \in 1 .. Len(x) : d[i] = x[i]
      /\ Len(x) < 2 => d[2] = 0
  <2> DEFINE z == <<0, 0>>
  <2>1. z \in Seq(0 .. 9) /\ Len(z) = 2 /\ z[1] = 0 /\ z[2] = 0
    OBVIOUS
  <2> HIDE DEF z
  <2>2. \A i \in 1 .. Len(x) + Len(z) : (x \o z)[i] = IF i <= Len(x) THEN x[i] ELSE z[i - Len(x)]
    BY <1>1, <2>1, ConcatProperties, Zenon
  <2> QED BY <1>1, <2>1, <2>2 DEF z
<1>4. CASE Len(x) = 0
  <2>1. d[1] = 0 /\ d[2] = 0
    BY <1>1, <1>4
  <2>2. percentToBps(ask.n, x) = ask.n * 100
    BY <1>1, <1>4 DEF percentToBps
  <2> HIDE DEF d
  <2> QED BY <1>1, <1>2, <2>1, <2>2 DEF x
<1>5. CASE Len(x) = 1
  <2>1. d[1] = x[1] /\ d[2] = 0 /\ x[1] \in Nat
    BY <1>1, <1>3, <1>5, <1>7
  <2>2. percentToBps(ask.n, x) = ask.n * 100 + 10 * x[1]
    BY <1>1, <1>5 DEF percentToBps
  <2> HIDE DEF d
  <2> QED BY <1>1, <1>2, <2>1, <2>2 DEF x
<1>6. CASE Len(x) = 2
  <2>1. d[1] = x[1] /\ d[2] = x[2] /\ x[1] \in Nat /\ x[2] \in Nat
    BY <1>1, <1>3, <1>6, <1>7
  <2>2. percentToBps(ask.n, x) = ask.n * 100 + (10 * x[1] + x[2])
    BY <1>1, <1>6 DEF percentToBps
  <2> HIDE DEF d
  <2> QED BY <1>1, <1>2, <2>1, <2>2 DEF x
<1> QED BY <1>1, <1>4, <1>5, <1>6

(* Lemma.  The enclave reads from the form's payload what was typed, or    *)
(* nothing if a trigger does not fit.                                      *)
LEMMA FormRead ==
  ASSUME NEW ask, Askable(ask), FormAccepts(ask)
  PROVE  ParseOrderPlaintext(FormPayload(ask)) \in {Asked(ask), NoPolicy}
<1> DEFINE p == FormPayload(ask)
           Read == Policy(Decoded(p, "strategy"), Decoded(p, "triggerPrice"), Decoded(p, "trailBps"))
<1>1. ParseOrderPlaintext(p) \in {Read, NoPolicy}
  BY DEF ParseOrderPlaintext
<1>2. Max({1}) = 1 /\ Max({2}) = 2
  BY OneOnly
<1>3. CASE ask.kind = "fixed"
  <2>1. p.fields = <<Field("strategy", Text("fixed")), Field("triggerPrice", Decimal(ask.n))>>
    BY <1>3 DEF FormPayload, Object
  <2>2. /\ DOMAIN p.fields = {1, 2}
        /\ p.fields[1].name = "strategy" /\ p.fields[1].value = Text("fixed")
        /\ p.fields[2].name = "triggerPrice" /\ p.fields[2].value = Decimal(ask.n)
    BY <2>1 DEF Field
  <2> HIDE DEF p
  <2>3. Given(p, "strategy") = {1} /\ Given(p, "triggerPrice") = {2} /\ Given(p, "trailBps") = {}
    BY <2>2 DEF Given
  <2>4. /\ Decoded(p, "strategy") = Text("fixed") /\ Decoded(p, "triggerPrice") = Decimal(ask.n)
        /\ Decoded(p, "trailBps") = Null
    BY <1>2, <2>2, <2>3 DEF Decoded
  <2>5. Policy(Text("fixed"), Decimal(ask.n), Null) \in {Fixed(ask.n), NoPolicy}
    BY DEF Policy, Text, Decimal, Null, Value
  <2>6. Asked(ask) = Fixed(ask.n)
    BY <1>3 DEF Asked
  <2> QED BY <1>1, <2>4, <2>5, <2>6 DEF p
<1>4. CASE ask.kind = "trailing"
  <2> DEFINE b == percentToBps(ask.n, ask.decimals)
  <2>1. p.fields = <<Field("strategy", Text("trailing")), Field("trailBps", Number(b))>>
    BY <1>4 DEF FormPayload, Object
  <2>2. /\ DOMAIN p.fields = {1, 2}
        /\ p.fields[1].name = "strategy" /\ p.fields[1].value = Text("trailing")
        /\ p.fields[2].name = "trailBps" /\ p.fields[2].value = Number(b)
    BY <2>1 DEF Field
  <2> HIDE DEF p
  <2>3. Given(p, "strategy") = {1} /\ Given(p, "triggerPrice") = {} /\ Given(p, "trailBps") = {2}
    BY <2>2 DEF Given
  <2>4. /\ Decoded(p, "strategy") = Text("trailing") /\ Decoded(p, "triggerPrice") = Null
        /\ Decoded(p, "trailBps") = Number(b)
    BY <1>2, <2>2, <2>3 DEF Decoded
  <2>5. Policy(Text("trailing"), Null, Number(b)) \in {Trailing(b), NoPolicy}
    BY DEF Policy, Text, Number, Null, Value
  <2>6. Asked(ask) = Trailing(b)
    BY <1>4, PercentExact
  <2> QED BY <1>1, <2>4, <2>5, <2>6 DEF p
<1> QED BY <1>3, <1>4 DEF Askable

-----------------------------------------------------------------------------
(* The inductive invariant.                                                *)

Stages == {"none", "open", "executed", "cancelled"}

SealedOrder == [status : Stages, key : Nat, payload : Sealed,
                asked : {NoPolicy} \cup {Asked(ask) : ask \in Asks}, price : Nat]

Broadcast == [id : Ids, trigger : Nat, run : Nat, outcome : {"sent", "executed", "reverted"}]

Typed ==
  /\ orders \in [Ids -> SealedOrder]
  /\ feed \in [raw : Feeds, fresh : BOOLEAN, top : Nat]
  /\ enclave \in [run : Nat \ {0}, key : Nat, book : [Ids -> Entry], latest : Nat, ready : BOOLEAN]
  /\ channel \subseteq [op : {"place", "cancel"}, id : Ids]
  /\ flight \subseteq Broadcast
  /\ form \in [seen : BOOLEAN, key : Nat, trailing : BOOLEAN]
  /\ enclave.ready => enclave.latest > 0

(* Nobody speaks of an order before it is placed.                          *)
Placed(id) == orders[id].status # "none"
PlacedFirst == /\ \A instruction \in channel : Placed(instruction.id)
               /\ \A tx \in flight : Placed(tx.id)
               /\ \A id \in Ids : Held(id) => Placed(id)

(* The book holds what the enclave reads from the payloads, and it reads   *)
(* from the form's what was asked.                                         *)
ArmedAsSealed == \A id \in Ids : Held(id) =>
  /\ Armed(id) = ParseOrderPlaintext(orders[id].payload)
  /\ Armed(id) # NoPolicy
AskedRead == \A id \in Ids : orders[id].asked # NoPolicy =>
  ParseOrderPlaintext(orders[id].payload) \in {orders[id].asked, NoPolicy}

(* No watermark is above the highest price seen, so no trigger on its way  *)
(* to the vault is above the owner's limit.                                *)
UnderTop == /\ enclave.latest <= feed.top
            /\ \A id \in Ids : enclave.book[id].high <= feed.top

Limit(id) ==
  LET policy == ReadFirst(orders[id].payload) IN
  IF policy.bps = 0 THEN policy.trigger ELSE Trail(feed.top, policy.bps)

FlightAsAsked == \A tx \in flight : tx.trigger <= Limit(tx.id)

IInv == /\ Typed /\ PlacedFirst /\ ArmedAsSealed /\ AskedRead /\ UnderTop
        /\ FlightAsAsked /\ ExecutedAsAsked

-----------------------------------------------------------------------------
(* Lemma.  The fields of a payload come in an order.                       *)
LEMMA SealedFields == \A p \in Sealed : DOMAIN p.fields \subseteq Nat
<1>1. ASSUME NEW p \in Payloads PROVE DOMAIN p.fields \subseteq Nat
  BY FlowAssumption
<1>2. ASSUME NEW ask \in Asks PROVE DOMAIN FormPayload(ask).fields \subseteq Nat
  BY DEF FormPayload, Object
<1>3. DOMAIN Object(<<>>).fields \subseteq Nat
  BY DEF Object
<1> QED BY <1>1, <1>2, <1>3 DEF Sealed

(* Lemma.  The parts of the state and their types.                         *)
LEMMA Parts ==
  ASSUME Typed
  PROVE  /\ \A id \in Ids : /\ orders[id] \in SealedOrder
                            /\ orders[id].payload \in Sealed /\ orders[id].price \in Nat
                            /\ orders[id].status \in Stages
         /\ enclave.book \in [Ids -> Entry] /\ enclave.latest \in Nat /\ enclave.ready \in BOOLEAN
         /\ enclave.run \in Nat \ {0} /\ enclave.key \in Nat
         /\ \A id \in Ids : /\ enclave.book[id] \in Entry /\ enclave.book[id].high \in Nat
                            /\ enclave.book[id].trigger \in Nat /\ enclave.book[id].bps \in Nat
         /\ feed.top \in Nat /\ feed.raw \in Feeds
         /\ feed.raw.value \in 0 .. MaxUint /\ feed.raw.decimals \in Int
         /\ \A tx \in flight : /\ tx \in Broadcast /\ tx.id \in Ids /\ tx.trigger \in Nat
                               /\ tx.run \in Nat
<1>1. \A id \in Ids : orders[id] \in SealedOrder
  BY DEF Typed
<1>2. \A id \in Ids : /\ orders[id].payload \in Sealed /\ orders[id].price \in Nat
                      /\ orders[id].status \in Stages
  BY <1>1 DEF SealedOrder
<1>3. /\ enclave.book \in [Ids -> Entry] /\ enclave.latest \in Nat /\ enclave.ready \in BOOLEAN
      /\ enclave.run \in Nat \ {0} /\ enclave.key \in Nat
  BY DEF Typed
<1>4. \A id \in Ids : enclave.book[id] \in Entry
  BY <1>3
<1>5. \A id \in Ids : /\ enclave.book[id].high \in Nat
                      /\ enclave.book[id].trigger \in Nat /\ enclave.book[id].bps \in Nat
  BY <1>4 DEF Entry
<1>6. feed.top \in Nat /\ feed.raw \in Feeds
  BY DEF Typed
<1>7. feed.raw.value \in 0 .. MaxUint /\ feed.raw.decimals \in Int
  <2>1. \A raw \in Feeds : raw.value \in 0 .. MaxUint /\ raw.decimals \in -128 .. 127
    BY FlowAssumption, Zenon
  <2>2. \A d \in -128 .. 127 : d \in Int
    OBVIOUS
  <2> QED BY <1>6, <2>1, <2>2, Zenon
<1>8. \A tx \in flight : tx \in Broadcast
  BY DEF Typed
<1>9. \A tx \in flight : tx.id \in Ids /\ tx.trigger \in Nat /\ tx.run \in Nat
  BY <1>8 DEF Broadcast
<1> QED BY <1>1, <1>2, <1>3, <1>4, <1>5, <1>6, <1>7, <1>8, <1>9

(* Lemma.  The limit of a held order is what its entry says, under the     *)
(* highest price.                                                          *)
LEMMA HeldLimit ==
  ASSUME IInv, NEW id \in Ids, Held(id)
  PROVE  /\ Sound(enclave.book[id])
         /\ Effective(enclave.book[id]) \in Nat /\ Limit(id) \in Nat
         /\ Effective(enclave.book[id]) <= Limit(id)
<1> DEFINE e == enclave.book[id]
<1>1. /\ e \in Entry /\ e.high \in Nat /\ e.trigger \in Nat /\ e.bps \in Nat
      /\ e.high <= feed.top /\ feed.top \in Nat
  BY Parts DEF IInv, UnderTop
<1>2. /\ Armed(id) = ParseOrderPlaintext(orders[id].payload) /\ Armed(id) # NoPolicy
  BY DEF IInv, ArmedAsSealed
<1>3. DOMAIN orders[id].payload.fields \subseteq Nat
  BY Parts, SealedFields DEF IInv
<1>4. Sound(Armed(id)) /\ Armed(id) = ReadFirst(orders[id].payload)
  BY <1>2, <1>3, ParsedOnce
<1>5. Armed(id).bps = e.bps /\ Armed(id).trigger = e.trigger
  BY DEF Armed
<1>6. Sound(e)
  BY <1>4, <1>5 DEF Sound
<1>7. Limit(id) = IF e.bps = 0 THEN e.trigger ELSE Trail(feed.top, e.bps)
  BY <1>4, <1>5 DEF Limit
<1> HIDE DEF e
<1>8. CASE e.bps = 0
  BY <1>1, <1>6, <1>7, <1>8 DEF Effective, e
<1>9. CASE e.bps # 0
  <2>1. e.bps \in Bps
    BY <1>1, <1>6, <1>9 DEF Sound, Bps, MinTrailBps, MaxTrailBps
  <2>2. Effective(e) = Trail(e.high, e.bps) /\ Limit(id) = Trail(feed.top, e.bps)
    BY <1>7, <1>9 DEF Effective
  <2>3. Trail(e.high, e.bps) \in Nat /\ Trail(feed.top, e.bps) \in Nat
    BY <1>1, <2>1, TrailType
  <2>4. Trail(e.high, e.bps) <= Trail(feed.top, e.bps)
    BY <1>1, <2>1, TrailMonotone
  <2> QED BY <1>6, <2>2, <2>3, <2>4 DEF e
<1> QED BY <1>8, <1>9 DEF e

(* Lemma.  The limit of an order that has one is a price, and grows.       *)
LEMMA LimitType ==
  ASSUME NEW p, DOMAIN p.fields \subseteq Nat, NEW g \in Nat, NEW h \in Nat, g <= h
  PROVE  LET policy == ReadFirst(p)
             At(top) == IF policy.bps = 0 THEN policy.trigger ELSE Trail(top, policy.bps) IN
         At(g) \in Nat /\ At(h) \in Nat /\ At(g) <= At(h)
<1> DEFINE policy == ReadFirst(p)
<1>1. policy \in [trigger : Nat, bps : Nat] /\ Sound(policy)
  BY PolicyType DEF ReadFirst
<1> HIDE DEF policy
<1>2. CASE policy.bps = 0
  BY <1>1, <1>2 DEF policy
<1>3. CASE policy.bps # 0
  <2>1. policy.bps \in Bps
    BY <1>1, <1>3 DEF Sound, Bps, MinTrailBps, MaxTrailBps
  <2>2. Trail(g, policy.bps) \in Nat /\ Trail(h, policy.bps) \in Nat
    BY <2>1, TrailType
  <2>3. Trail(g, policy.bps) <= Trail(h, policy.bps)
    BY <2>1, TrailMonotone
  <2> QED BY <1>3, <2>2, <2>3 DEF policy
<1> QED BY <1>2, <1>3

-----------------------------------------------------------------------------
(* What the steps have in common.                                          *)

(* A placed order stays placed, with its payload.                          *)
OrdersStay == \A id \in Ids : Placed(id) => Placed(id)' /\ orders'[id].payload = orders[id].payload

(* An entry goes, keeps its policy, or comes as the enclave read it.       *)
Armoured(id) ==
  \/ ~Held(id)'
  \/ Held(id) /\ Armed(id)' = Armed(id)
  \/ /\ Placed(id) /\ Armed(id)' # NoPolicy
     /\ Armed(id)' = ParseOrderPlaintext(orders[id].payload)

(* A settlement in flight was so before, or reveals what the book asks.    *)
Launched(tx) ==
  \/ \E old \in flight : tx.id = old.id /\ tx.trigger = old.trigger
  \/ Held(tx.id)' /\ tx.trigger = Effective(enclave'.book[tx.id])

(* An order is executed within what a settlement in flight revealed.       *)
Executed(id) ==
  orders'[id].status = "executed" =>
    \/ orders[id].status = "executed" /\ orders'[id].price = orders[id].price
    \/ \E tx \in flight : tx.id = id /\ orders'[id].price <= tx.trigger

(* Lemma.  A step of which this can be said keeps the invariant.           *)
LEMMA Kept ==
  ASSUME IInv, Typed', OrdersStay, AskedRead', UnderTop', feed'.top >= feed.top,
         \A instruction \in channel' : Placed(instruction.id)',
         \A id \in Ids : Armoured(id), \A tx \in flight' : Launched(tx), \A id \in Ids : Executed(id)
  PROVE  IInv'
<1> USE DEF IInv
<1>1. ASSUME NEW id \in Ids, Held(id)'
      PROVE  Placed(id) /\ Armed(id)' = ParseOrderPlaintext(orders[id].payload) /\ Armed(id)' # NoPolicy
  BY <1>1 DEF Armoured, ArmedAsSealed, PlacedFirst
<1>2. ArmedAsSealed'
  <2> SUFFICES ASSUME NEW id \in Ids, Held(id)'
               PROVE  Armed(id)' = ParseOrderPlaintext(orders'[id].payload) /\ Armed(id)' # NoPolicy
    BY DEF ArmedAsSealed
  <2>1. orders'[id].payload = orders[id].payload
    BY <1>1 DEF OrdersStay
  <2> QED BY <1>1, <2>1
<1>3. \A tx \in flight' : tx.id \in Ids
  BY DEF Typed, Broadcast
<1>4. PlacedFirst'
  <2>1. ASSUME NEW tx \in flight' PROVE Placed(tx.id)'
    <3>1. CASE \E old \in flight : tx.id = old.id /\ tx.trigger = old.trigger
      BY <1>3, <3>1 DEF PlacedFirst, OrdersStay
    <3>2. CASE Held(tx.id)'
      BY <1>1, <1>3, <3>2 DEF OrdersStay
    <3> QED BY <3>1, <3>2 DEF Launched
  <2>2. ASSUME NEW id \in Ids, Held(id)' PROVE Placed(id)'
    BY <1>1, <2>2 DEF OrdersStay
  <2> QED BY <2>1, <2>2 DEF PlacedFirst
<1>5. ASSUME NEW id \in Ids, Placed(id)
      PROVE  Limit(id) \in Nat /\ Limit(id)' \in Nat /\ Limit(id) <= Limit(id)'
  <2>1. orders'[id].payload = orders[id].payload
    BY <1>5 DEF OrdersStay
  <2>2. DOMAIN orders[id].payload.fields \subseteq Nat
    BY Parts, SealedFields
  <2>3. feed.top \in Nat /\ feed'.top \in Nat /\ feed.top <= feed'.top
    BY DEF Typed
  <2> QED BY <2>1, <2>2, <2>3, LimitType DEF Limit
<1>6. FlightAsAsked'
  <2> SUFFICES ASSUME NEW tx \in flight' PROVE tx.trigger <= Limit(tx.id)'
    BY DEF FlightAsAsked
  <2>1. CASE \E old \in flight : tx.id = old.id /\ tx.trigger = old.trigger
    <3>1. PICK old \in flight : tx.id = old.id /\ tx.trigger = old.trigger
      BY <2>1
    <3>2. old.trigger \in Nat /\ old.id \in Ids /\ Placed(old.id) /\ old.trigger <= Limit(old.id)
      BY Parts DEF PlacedFirst, FlightAsAsked
    <3>3. tx.trigger \in Nat /\ tx.id \in Ids /\ Placed(tx.id) /\ tx.trigger <= Limit(tx.id)
      BY <3>1, <3>2
    <3> QED BY <1>5, <3>3
  <2>2. CASE Held(tx.id)' /\ tx.trigger = Effective(enclave'.book[tx.id])
    <3>1. tx.id \in Ids
      BY <1>3
    <3> DEFINE id == tx.id
    <3>2. Armed(id)' = ReadFirst(orders'[id].payload) /\ Sound(Armed(id)')
      <4>1. DOMAIN orders[id].payload.fields \subseteq Nat
        BY <3>1, Parts, SealedFields
      <4>2. Armed(id)' = ReadFirst(orders[id].payload) /\ Sound(Armed(id)')
        BY <1>1, <2>2, <3>1, <4>1, ParsedOnce
      <4>3. orders'[id].payload = orders[id].payload
        BY <1>1, <2>2, <3>1 DEF OrdersStay
      <4> QED BY <4>2, <4>3
    <3> DEFINE e == enclave'.book[id]
    <3>3. /\ e \in Entry /\ e.high \in Nat /\ e.bps \in Nat /\ e.trigger \in Nat
          /\ feed'.top \in Nat /\ e.high <= feed'.top
      BY <3>1 DEF Typed, Entry, UnderTop
    <3>4. Sound(e) /\ Limit(id)' = IF e.bps = 0 THEN e.trigger ELSE Trail(feed'.top, e.bps)
      BY <3>2 DEF Limit, Armed, Sound
    <3> HIDE DEF e
    <3>5. CASE e.bps = 0
      BY <2>2, <3>3, <3>4, <3>5 DEF Effective, e
    <3>6. CASE e.bps # 0
      <4>1. e.bps \in Bps
        BY <3>3, <3>4, <3>6 DEF Sound, Bps, MinTrailBps, MaxTrailBps
      <4>2. Trail(e.high, e.bps) <= Trail(feed'.top, e.bps)
        BY <3>3, <4>1, TrailMonotone
      <4>3. Effective(e) = Trail(e.high, e.bps) /\ Limit(id)' = Trail(feed'.top, e.bps)
        BY <3>4, <3>6 DEF Effective
      <4> QED BY <2>2, <4>2, <4>3 DEF e
    <3> QED BY <3>5, <3>6
  <2> QED BY <2>1, <2>2 DEF Launched
<1>7. ExecutedAsAsked'
  <2> SUFFICES ASSUME NEW id \in Ids, orders'[id].status = "executed"
               PROVE  orders'[id].price <= Limit(id)'
    BY DEF ExecutedAsAsked, Limit
  <2>1. orders'[id].price \in Nat
    BY DEF Typed, SealedOrder
  <2>2. CASE orders[id].status = "executed" /\ orders'[id].price = orders[id].price
    <3>1. orders[id].price <= Limit(id)
      BY <2>2 DEF ExecutedAsAsked, Limit
    <3>2. Placed(id)
      BY <2>2 DEF Placed
    <3> QED BY <1>5, <2>1, <2>2, <3>1, <3>2
  <2>3. ASSUME NEW tx \in flight, tx.id = id, orders'[id].price <= tx.trigger
        PROVE  orders'[id].price <= Limit(id)'
    <3>1. tx.trigger \in Nat /\ Placed(id) /\ tx.trigger <= Limit(id)
      BY <2>3, Parts DEF PlacedFirst, FlightAsAsked
    <3> QED BY <1>5, <2>1, <2>3, <3>1
  <2> QED BY <2>2, <2>3 DEF Executed
<1> QED BY <1>2, <1>4, <1>6, <1>7

(* Lemma.  The orders stay as they are.                                    *)
LEMMA SameOrders ==
  ASSUME IInv, orders' = orders
  PROVE  /\ OrdersStay /\ AskedRead' /\ \A id \in Ids : Executed(id)
         /\ \A id \in Ids : Placed(id)' <=> Placed(id)
         /\ channel' \subseteq channel => \A instruction \in channel' : Placed(instruction.id)'
BY DEF IInv, PlacedFirst, OrdersStay, AskedRead, Executed, Placed

(* Lemma.  So does the book, under a feed that has been as high.           *)
LEMMA SameBook ==
  ASSUME IInv, feed'.top >= feed.top, Typed',
         enclave'.book = enclave.book, enclave'.latest = enclave.latest
  PROVE  UnderTop' /\ \A id \in Ids : Armoured(id)
<1>1. /\ enclave.latest <= feed.top /\ feed.top \in Nat /\ feed'.top \in Nat /\ enclave.latest \in Nat
      /\ \A id \in Ids : enclave.book[id].high <= feed.top /\ enclave.book[id].high \in Nat
  BY Parts DEF IInv, UnderTop, Typed
<1>2. UnderTop'
  BY <1>1 DEF UnderTop
<1>3. \A id \in Ids : Armoured(id)
  BY DEF Armoured, Held, Armed
<1> QED BY <1>2, <1>3

(* Lemma.  Fewer settlements in flight.                                    *)
LEMMA FewerFlights ==
  ASSUME flight' \subseteq flight
  PROVE  \A tx \in flight' : Launched(tx)
BY DEF Launched

-----------------------------------------------------------------------------
(* The steps.                                                              *)

(* Lemma.  Nothing is placed, armed or revealed at first.                  *)
LEMMA InitInv == Init => IInv
<1> SUFFICES ASSUME Init PROVE IInv
  OBVIOUS
<1>1. orders = [id \in Ids |-> Unplaced] /\ Unplaced \in SealedOrder /\ Unplaced.status = "none"
      /\ Unplaced.asked = NoPolicy
  BY DEF Init, Unplaced, SealedOrder, Stages, Sealed
<1>2. /\ enclave.book = [id \in Ids |-> Absent] /\ Absent \in Entry /\ Absent.status = "absent"
      /\ Absent.high = 0 /\ enclave.latest = 0 /\ enclave.ready = FALSE
      /\ enclave \in [run : Nat \ {0}, key : Nat, book : [Ids -> Entry], latest : Nat, ready : BOOLEAN]
  <2>1. Absent \in Entry /\ Absent.status = "absent" /\ Absent.high = 0
    BY DEF Absent, Entry
  <2> QED BY <2>1 DEF Init
<1>3. feed.top = 0 /\ feed \in [raw : Feeds, fresh : BOOLEAN, top : Nat]
  BY DEF Init
<1>4. Typed
  BY <1>1, <1>2, <1>3 DEF Init, Typed, Nothing
<1>5. PlacedFirst /\ ArmedAsSealed /\ FlightAsAsked
  BY <1>2 DEF Init, PlacedFirst, ArmedAsSealed, FlightAsAsked, Held
<1>6. AskedRead /\ ExecutedAsAsked
  BY <1>1 DEF AskedRead, ExecutedAsAsked
<1>7. UnderTop
  BY <1>2, <1>3 DEF UnderTop
<1> QED BY <1>4, <1>5, <1>6, <1>7 DEF IInv

(* Lemma.  An order is placed: of its payload nothing was known before.    *)
LEMMA PlaceInv ==
  ASSUME IInv, NEW payload \in Sealed, NEW asked \in {NoPolicy} \cup {Asked(ask) : ask \in Asks},
         asked # NoPolicy => ParseOrderPlaintext(payload) \in {asked, NoPolicy},
         Place(payload, asked)
  PROVE  IInv'
<1> DEFINE new == [status |-> "open", key |-> form.key, payload |-> payload, asked |-> asked, price |-> 0]
<1>1. PICK id \in Ids : /\ orders[id].status = "none"
                        /\ orders' = [orders EXCEPT ![id] = new]
                        /\ channel' = channel \cup {[op |-> "place", id |-> id]}
                        /\ form' = Nothing
                        /\ UNCHANGED <<feed, enclave, flight>>
  BY DEF Place
<1>2. new \in SealedOrder /\ new.status = "open" /\ new.payload = payload /\ new.asked = asked
  BY DEF IInv, Typed, SealedOrder, Stages
<1> HIDE DEF new
<1>3. /\ orders' \in [Ids -> SealedOrder] /\ orders'[id] = new
      /\ \A o \in Ids \ {id} : orders'[o] = orders[o]
  BY <1>1, <1>2 DEF IInv, Typed
<1>4. Typed'
  BY <1>1, <1>3 DEF IInv, Typed, Nothing
<1>5. OrdersStay
  BY <1>1, <1>2, <1>3 DEF OrdersStay, Placed
<1>6. AskedRead'
  BY <1>2, <1>3 DEF IInv, AskedRead
<1>7. \A instruction \in channel' : Placed(instruction.id)'
  <2>1. \A o \in Ids : Placed(o) => Placed(o)'
    BY <1>5 DEF OrdersStay
  <2>2. Placed(id)'
    BY <1>2, <1>3 DEF Placed
  <2>3. \A instruction \in channel : instruction.id \in Ids /\ Placed(instruction.id)
    BY DEF IInv, Typed, PlacedFirst
  <2> QED BY <1>1, <2>1, <2>2, <2>3
<1>8. \A o \in Ids : Executed(o)
  BY <1>2, <1>3 DEF Executed
<1>9. feed'.top >= feed.top
  BY <1>1, Parts DEF IInv
<1>10. UnderTop' /\ (\A o \in Ids : Armoured(o)) /\ (\A tx \in flight' : Launched(tx))
  BY <1>1, <1>4, <1>9, SameBook, FewerFlights
<1> QED BY <1>4, <1>5, <1>6, <1>7, <1>8, <1>9, <1>10, Kept

(* Lemma.  An order of the form, and of another client.                    *)
LEMMA ClientInv ==
  ASSUME IInv, (\E ask \in Asks : Submit(ask)) \/ (\E payload \in Payloads : PlaceRaw(payload))
  PROVE  IInv'
<1>1. ASSUME NEW ask \in Asks, Submit(ask) PROVE IInv'
  <2>1. Askable(ask) /\ FormAccepts(ask) /\ Place(FormPayload(ask), Asked(ask))
    BY <1>1, FlowAssumption DEF Submit, Askable
  <2>2. FormPayload(ask) \in Sealed
    BY DEF Sealed
  <2> QED BY <2>1, <2>2, FormRead, PlaceInv
<1>2. ASSUME NEW payload \in Payloads, PlaceRaw(payload) PROVE IInv'
  <2>1. payload \in Sealed /\ Place(payload, NoPolicy)
    BY <1>2 DEF Sealed, PlaceRaw
  <2> QED BY <2>1, PlaceInv
<1> QED BY <1>1, <1>2

(* Lemma.  cancel closes an order in the vault.                            *)
LEMMA CancelInv ==
  ASSUME IInv, NEW id \in Ids, Cancel(id)
  PROVE  IInv'
<1>1. /\ orders[id].status = "open"
      /\ orders' = [orders EXCEPT ![id] = [orders[id] EXCEPT !.status = "cancelled"]]
      /\ channel' = channel \cup {[op |-> "cancel", id |-> id]}
      /\ UNCHANGED <<feed, enclave, flight, form>>
  BY DEF Cancel
<1> DEFINE new == [orders[id] EXCEPT !.status = "cancelled"]
<1>2. /\ new \in SealedOrder /\ new.status = "cancelled" /\ new.payload = orders[id].payload
      /\ new.asked = orders[id].asked
  BY Parts DEF IInv, SealedOrder, Stages
<1> HIDE DEF new
<1>3. /\ orders' \in [Ids -> SealedOrder] /\ orders'[id] = new
      /\ \A o \in Ids \ {id} : orders'[o] = orders[o]
  BY <1>1, <1>2 DEF IInv, Typed, new
<1>4. Typed'
  BY <1>1, <1>3 DEF IInv, Typed
<1>5. OrdersStay
  BY <1>2, <1>3 DEF OrdersStay, Placed
<1>6. AskedRead'
  BY <1>2, <1>3 DEF IInv, AskedRead
<1>7. \A instruction \in channel' : Placed(instruction.id)'
  <2>1. \A o \in Ids : Placed(o) => Placed(o)'
    BY <1>5 DEF OrdersStay
  <2>2. Placed(id)'
    BY <1>2, <1>3 DEF Placed
  <2>3. \A instruction \in channel : instruction.id \in Ids /\ Placed(instruction.id)
    BY DEF IInv, Typed, PlacedFirst
  <2> QED BY <1>1, <2>1, <2>2, <2>3
<1>8. \A o \in Ids : Executed(o)
  BY <1>2, <1>3 DEF Executed
<1>9. feed'.top >= feed.top
  BY <1>1, Parts DEF IInv
<1>10. UnderTop' /\ (\A o \in Ids : Armoured(o)) /\ (\A tx \in flight' : Launched(tx))
  BY <1>1, <1>4, <1>9, SameBook, FewerFlights
<1> QED BY <1>4, <1>5, <1>6, <1>7, <1>8, <1>9, <1>10, Kept

(* Lemma.  A step of the enclave's own: of orders and messages it only     *)
(* takes from the channel.                                                 *)
LEMMA EnclaveStep ==
  ASSUME IInv, orders' = orders, form' = form, channel' \subseteq channel,
         enclave' \in [run : Nat \ {0}, key : Nat, book : [Ids -> Entry], latest : Nat, ready : BOOLEAN],
         enclave'.ready => enclave'.latest > 0,
         feed' \in [raw : Feeds, fresh : BOOLEAN, top : Nat], feed'.top >= feed.top,
         flight' \subseteq Broadcast,
         enclave'.latest <= feed'.top, \A id \in Ids : enclave'.book[id].high <= feed'.top,
         \A id \in Ids : Armoured(id), \A tx \in flight' : Launched(tx)
  PROVE  IInv'
<1>1. Typed'
  BY DEF IInv, Typed
<1>2. UnderTop'
  BY DEF UnderTop
<1>3. /\ OrdersStay /\ AskedRead' /\ \A id \in Ids : Executed(id)
      /\ \A instruction \in channel' : Placed(instruction.id)'
  BY SameOrders
<1> QED BY <1>1, <1>2, <1>3, Kept

(* Lemma.  A handled instruction arms an order as it was sealed, or        *)
(* removes it; one that comes again does nothing new.                      *)
LEMMA HandleInv ==
  ASSUME IInv, NEW instruction \in channel, NEW again \in BOOLEAN, processDarkstop(instruction, again)
  PROVE  IInv'
<1> DEFINE id == instruction.id
           book == enclave'.book
<1>1. /\ id \in Ids /\ Placed(id) /\ enclave.book \in [Ids -> Entry] /\ enclave.latest \in Nat
      /\ feed.top \in Nat /\ \A o \in Ids : enclave.book[o].high \in Nat
  BY Parts DEF IInv, PlacedFirst, Typed
<1>2. /\ enclave' = [enclave EXCEPT !.book = book] /\ channel' \subseteq channel
      /\ UNCHANGED <<orders, feed, flight, form>>
      /\ book = IF instruction.op = "place" THEN processPlaceOrder(id) ELSE processCancelOrder(id)
  <2>1. enclave \in [run : Nat \ {0}, key : Nat, book : [Ids -> Entry], latest : Nat, ready : BOOLEAN]
    BY DEF IInv, Typed
  <2> QED BY <2>1 DEF processDarkstop
<1>3. \A o \in Ids : enclave.book[o].high <= feed.top
  BY DEF IInv, UnderTop
<1> DEFINE Fits(o) == book[o].high <= feed.top /\ Armoured(o)
<1>4. ASSUME NEW o \in Ids, book[o] = enclave.book[o]
      PROVE  Fits(o)
  BY <1>3, <1>4 DEF Armoured, Held, Armed
<1>5. ASSUME book = enclave.book
      PROVE  book \in [Ids -> Entry] /\ \A o \in Ids : Fits(o)
  BY <1>1, <1>4, <1>5
<1>6. ASSUME CanPut(enclave.book, id, Opened(id), enclave.ready),
             book = Put(enclave.book, id, Opened(id), enclave.latest)
      PROVE  book \in [Ids -> Entry] /\ \A o \in Ids : Fits(o)
  <2> DEFINE policy == Opened(id)
  <2>1. DOMAIN orders[id].payload.fields \subseteq Nat
    BY <1>1, Parts, SealedFields DEF IInv
  <2>2. policy \in [trigger : Nat, bps : Nat]
        /\ (policy = ParseOrderPlaintext(orders[id].payload) \/ policy = NoPolicy)
    <3>1. ParseOrderPlaintext(orders[id].payload) \in [trigger : Nat, bps : Nat]
      BY <2>1, ParsedOnce
    <3> QED BY <3>1 DEF Opened, NoPolicy
  <2>3. policy.trigger > 0 \/ policy.bps \in MinTrailBps .. MaxTrailBps
    BY <1>6, PutAccepts
  <2> HIDE DEF policy
  <2>4. policy # NoPolicy
    <3>1. NoPolicy.trigger = 0 /\ NoPolicy.bps = 0
      BY DEF NoPolicy
    <3>2. policy.trigger \in Nat /\ policy.bps \in Nat
      BY <2>2
    <3>3. \A t, b \in Nat : t > 0 \/ b \in MinTrailBps .. MaxTrailBps => t # 0 \/ b # 0
      BY DEF MinTrailBps, MaxTrailBps
    <3>4. policy.trigger # 0 \/ policy.bps # 0
      BY <2>3, <3>2, <3>3, Zenon
    <3> QED BY <3>1, <3>4, Zenon
  <2>5. /\ book \in [Ids -> Entry]
        /\ book[id] = [status |-> "open", trigger |-> policy.trigger, bps |-> policy.bps,
                       high |-> IF IsTrailing(policy) THEN enclave.latest ELSE 0]
        /\ \A o \in Ids \ {id} : book[o] = enclave.book[o]
    <3>1. book = Put(enclave.book, id, policy, enclave.latest)
      BY <1>6 DEF policy
    <3> HIDE DEF book
    <3> QED BY <1>1, <2>2, <3>1, PutEntry
  <2>6. book[id].high <= feed.top
    <3>1. enclave.latest <= feed.top
      BY DEF IInv, UnderTop
    <3> QED BY <1>1, <2>5, <3>1
  <2>7. Armed(id)' = policy
    BY <2>2, <2>5 DEF Armed
  <2>8. Armoured(id)
    BY <1>1, <2>2, <2>4, <2>7 DEF Armoured
  <2> QED BY <1>4, <2>5, <2>6, <2>8
<1>7. ASSUME book = processCancelOrder(id)
      PROVE  book \in [Ids -> Entry] /\ \A o \in Ids : Fits(o)
  <2>1. /\ book \in [Ids -> Entry] /\ book[id] = Absent
        /\ \A o \in Ids \ {id} : book[o] = enclave.book[o]
    <3> HIDE DEF book
    <3> QED BY <1>1, <1>7, DeleteEntry DEF processCancelOrder
  <2>2. Fits(id)
    BY <1>1, <2>1 DEF Armoured, Held, Absent
  <2> QED BY <1>4, <2>1, <2>2
<1>8. book \in [Ids -> Entry] /\ \A o \in Ids : Fits(o)
  <2>1. CASE instruction.op = "place"
    BY <1>1, <1>2, <1>5, <1>6, <2>1 DEF processPlaceOrder
  <2>2. CASE instruction.op # "place"
    BY <1>2, <1>7, <2>2
  <2> QED BY <2>1, <2>2
<1>9. /\ enclave' \in [run : Nat \ {0}, key : Nat, book : [Ids -> Entry], latest : Nat, ready : BOOLEAN]
      /\ enclave'.ready = enclave.ready /\ enclave'.latest = enclave.latest
  <2>1. enclave \in [run : Nat \ {0}, key : Nat, book : [Ids -> Entry], latest : Nat, ready : BOOLEAN]
    BY DEF IInv, Typed
  <2> HIDE DEF book
  <2> QED BY <1>2, <1>8, <2>1
<1>10. /\ enclave.ready => enclave.latest > 0
       /\ enclave.latest <= feed.top
       /\ feed \in [raw : Feeds, fresh : BOOLEAN, top : Nat]
       /\ flight \subseteq Broadcast
  BY DEF IInv, Typed, UnderTop
<1>11. \A tx \in flight' : Launched(tx)
  BY <1>2, FewerFlights
<1> QED BY <1>1, <1>2, <1>8, <1>9, <1>10, <1>11, EnclaveStep

(* Lemma.  What a tick reveals is the trigger of an order in the raised    *)
(* book.                                                                   *)
LEMMA TickInv ==
  ASSUME IInv, Tick
  PROVE  IInv'
<1> DEFINE s == normalizePrice(feed.raw.value, feed.raw.decimals)
           book == Raise(enclave.book, s)
<1>1. s \in Nat /\ s > 0
  <2>1. feed.raw.value \in Nat /\ feed.raw.decimals \in Int
    BY Parts, HandlersAssumption DEF IInv
  <2> QED BY <2>1, NormalizeType DEF Tick, Trusted
<1>2. /\ enclave' = [enclave EXCEPT !.book = book, !.latest = s, !.ready = TRUE]
      /\ feed' = [feed EXCEPT !.top = IF s > feed.top THEN s ELSE feed.top]
      /\ \/ flight' = flight
         \/ \E c \in Crossed(book, s) :
              flight' = flight \cup {[id |-> c.id, trigger |-> c.trigger, run |-> enclave.run,
                                      outcome |-> "sent"]}
      /\ UNCHANGED <<orders, channel, form>>
  BY DEF Tick
<1> HIDE DEF s
<1>3. /\ enclave \in [run : Nat \ {0}, key : Nat, book : [Ids -> Entry], latest : Nat, ready : BOOLEAN]
      /\ feed \in [raw : Feeds, fresh : BOOLEAN, top : Nat]
      /\ flight \subseteq Broadcast
  BY DEF IInv, Typed
<1>4. /\ book \in [Ids -> Entry]
      /\ \A o \in Ids : /\ book[o].status = enclave.book[o].status
                        /\ book[o].trigger = enclave.book[o].trigger
                        /\ book[o].bps = enclave.book[o].bps
                        /\ book[o].high \in {enclave.book[o].high, s}
  BY <1>1, <1>3, RaiseEntry
<1> HIDE DEF book
<1>5. /\ enclave' \in [run : Nat \ {0}, key : Nat, book : [Ids -> Entry], latest : Nat, ready : BOOLEAN]
      /\ enclave'.latest = s /\ enclave'.book = book
  BY <1>1, <1>2, <1>3, <1>4
<1>6. /\ feed' \in [raw : Feeds, fresh : BOOLEAN, top : Nat]
      /\ feed'.top >= feed.top /\ s <= feed'.top
  BY <1>1, <1>2, <1>3
<1>7. \A o \in Ids : book[o].high <= feed'.top
  <2>1. \A o \in Ids : enclave.book[o].high <= feed.top /\ enclave.book[o].high \in Nat /\ feed.top \in Nat
    BY Parts DEF IInv, UnderTop
  <2>2. feed'.top \in Nat
    BY <1>6
  <2> QED BY <1>1, <1>4, <1>6, <2>1, <2>2
<1>8. \A o \in Ids : Armoured(o)
  BY <1>4, <1>5 DEF Armoured, Held, Armed
<1>9. CASE flight' = flight
  BY <1>1, <1>2, <1>3, <1>5, <1>6, <1>7, <1>8, <1>9, FewerFlights, EnclaveStep
<1>10. ASSUME NEW c \in Crossed(book, s),
              flight' = flight \cup {[id |-> c.id, trigger |-> c.trigger, run |-> enclave.run,
                                      outcome |-> "sent"]}
       PROVE  IInv'
  <2>1. PICK o \in Ids : /\ book[o].status = "open"
                         /\ c = [id |-> o, trigger |-> Effective(book[o])]
    <3>1. DOMAIN book = Ids
      BY <1>4
    <3> QED BY <3>1 DEF Crossed
  <2> DEFINE new == [id |-> o, trigger |-> Effective(book[o]), run |-> enclave.run, outcome |-> "sent"]
  <2>2. flight' = flight \cup {new}
    BY <1>10, <2>1
  <2>3. Held(o) /\ Held(o)'
    BY <1>4, <1>5, <2>1 DEF Held
  <2>4. Effective(book[o]) \in Nat
    <3>1. Sound(enclave.book[o])
      BY <2>3, HeldLimit
    <3>2. book[o] \in Entry /\ Sound(book[o])
      BY <1>4, <3>1 DEF Sound
    <3> QED BY <3>2, EffectiveType
  <2>5. new \in Broadcast
    BY <1>3, <2>4 DEF Broadcast
  <2>6. Launched(new)
    BY <1>5, <2>3 DEF Launched
  <2>7. flight' \subseteq Broadcast /\ \A tx \in flight' : Launched(tx)
    <3> HIDE DEF new
    <3>1. \A tx \in flight : Launched(tx)
      BY DEF Launched
    <3> QED BY <1>3, <2>2, <2>5, <2>6, <3>1
  <2> QED BY <1>1, <1>2, <1>5, <1>6, <1>7, <1>8, <2>7, EnclaveStep
<1> QED BY <1>2, <1>9, <1>10

(* Lemma.  A sample grows old, or the enclave starts again and forgets.    *)
LEMMA RestartInv ==
  ASSUME IInv, SampleAges \/ Restart
  PROVE  IInv'
<1>1. /\ enclave \in [run : Nat \ {0}, key : Nat, book : [Ids -> Entry], latest : Nat, ready : BOOLEAN]
      /\ feed \in [raw : Feeds, fresh : BOOLEAN, top : Nat]
      /\ flight \subseteq Broadcast
      /\ enclave.latest <= feed.top /\ \A o \in Ids : enclave.book[o].high <= feed.top
  BY DEF IInv, Typed, UnderTop
<1>2. UNCHANGED <<orders, feed, channel, flight, form>> /\ feed.top >= feed.top /\ feed.top >= 0
  BY <1>1 DEF SampleAges, Restart
<1>3. \A tx \in flight' : Launched(tx)
  BY <1>2, FewerFlights
<1>4. CASE SampleAges
  <2>1. enclave' = [enclave EXCEPT !.ready = FALSE]
    BY <1>4 DEF SampleAges
  <2>2. /\ enclave' \in [run : Nat \ {0}, key : Nat, book : [Ids -> Entry], latest : Nat, ready : BOOLEAN]
        /\ enclave'.book = enclave.book /\ enclave'.latest = enclave.latest /\ enclave'.ready = FALSE
    BY <1>1, <2>1
  <2>3. \A o \in Ids : Armoured(o)
    BY <2>2 DEF Armoured, Held, Armed
  <2> QED BY <1>1, <1>2, <1>3, <2>2, <2>3, EnclaveStep
<1>5. CASE Restart
  <2>1. enclave' = [run |-> enclave.run + 1, key |-> IF enclave.key = 0 THEN 0 ELSE enclave.run + 1,
                    book |-> [id \in Ids |-> Absent], latest |-> 0, ready |-> FALSE]
    BY <1>5 DEF Restart
  <2>2. Absent \in Entry /\ Absent.status = "absent" /\ Absent.high = 0
    BY DEF Absent, Entry
  <2>3. /\ enclave' \in [run : Nat \ {0}, key : Nat, book : [Ids -> Entry], latest : Nat, ready : BOOLEAN]
        /\ enclave'.book = [id \in Ids |-> Absent] /\ enclave'.latest = 0 /\ enclave'.ready = FALSE
    <3>1. [id \in Ids |-> Absent] \in [Ids -> Entry]
      BY <2>2
    <3> QED BY <1>1, <2>1, <3>1
  <2>4. \A o \in Ids : Armoured(o) /\ enclave'.book[o].high <= feed'.top
    BY <1>2, <2>2, <2>3 DEF Armoured, Held
  <2> QED BY <1>1, <1>2, <1>3, <2>3, <2>4, EnclaveStep
<1> QED BY <1>4, <1>5

(* Lemma.  What a settlement leaves in flight was there before.            *)
LEMMA OutcomeFlight ==
  ASSUME IInv, NEW tx \in flight, NEW outcome \in {"executed", "reverted"}, Outcome(tx, outcome)
  PROVE  flight' \subseteq Broadcast /\ \A new \in flight' : Launched(new)
<1> DEFINE after == [tx EXCEPT !.outcome = outcome]
<1>1. tx \in Broadcast /\ flight \subseteq Broadcast
  BY DEF IInv, Typed
<1>2. after \in Broadcast /\ after.id = tx.id /\ after.trigger = tx.trigger
  BY <1>1 DEF Broadcast
<1>3. flight' \subseteq flight \cup {after}
  BY DEF Outcome
<1>4. Launched(after)
  BY <1>2 DEF Launched
<1>5. \A old \in flight : Launched(old)
  BY DEF Launched
<1> HIDE DEF after
<1> QED BY <1>1, <1>2, <1>3, <1>4, <1>5

(* Lemma.  An order is executed at a price the revealed trigger allows.    *)
LEMMA SettleInv ==
  ASSUME IInv, NEW tx \in flight, Settle(tx)
  PROVE  IInv'
<1> DEFINE price == toPayoutDecimals(feed.raw.value, feed.raw.decimals)
           id == tx.id
           new == [orders[id] EXCEPT !.status = "executed", !.price = price]
<1>1. id \in Ids /\ orders[id] \in SealedOrder /\ orders \in [Ids -> SealedOrder]
  BY Parts DEF IInv, Typed
<1>2. price \in Nat /\ price <= tx.trigger
  <2>1. feed.raw.value \in 0 .. MaxUint /\ feed.raw.decimals \in Int
    BY Parts DEF IInv
  <2>2. price \in {normalizePrice(feed.raw.value, feed.raw.decimals), Overflow}
    BY <2>1, ConversionsAgree
  <2>3. normalizePrice(feed.raw.value, feed.raw.decimals) \in Nat
    BY <2>1, HandlersAssumption, NormalizeType
  <2>4. price # Overflow /\ price <= tx.trigger
    BY DEF Settle, Accepted
  <2> QED BY <2>2, <2>3, <2>4
<1>3. /\ orders' = [orders EXCEPT ![id] = new]
      /\ UNCHANGED <<feed, enclave, channel, form>> /\ Outcome(tx, "executed")
  <2>1. orders' = [orders EXCEPT ![id].status = "executed", ![id].price = price]
    BY DEF Settle, Executes
  <2> HIDE DEF price
  <2> QED BY <1>1, <2>1 DEF Settle, Executes
<1> HIDE DEF price
<1>4. /\ new \in SealedOrder /\ new.status = "executed" /\ new.price = price
      /\ new.payload = orders[id].payload /\ new.asked = orders[id].asked
  BY <1>1, <1>2 DEF SealedOrder, Stages
<1> HIDE DEF new
<1>5. /\ orders' \in [Ids -> SealedOrder] /\ orders'[id] = new
      /\ \A o \in Ids \ {id} : orders'[o] = orders[o]
  BY <1>1, <1>3, <1>4
<1>6. flight' \subseteq Broadcast /\ \A t \in flight' : Launched(t)
  BY <1>3, OutcomeFlight
<1>7. Typed'
  BY <1>3, <1>5, <1>6 DEF IInv, Typed
<1>8. OrdersStay
  BY <1>4, <1>5 DEF OrdersStay, Placed
<1>9. AskedRead'
  BY <1>4, <1>5 DEF IInv, AskedRead
<1>10. \A instruction \in channel' : Placed(instruction.id)'
  <2>1. \A instruction \in channel : instruction.id \in Ids /\ Placed(instruction.id)
    BY DEF IInv, Typed, PlacedFirst
  <2> QED BY <1>3, <1>8, <2>1 DEF OrdersStay
<1>11. \A o \in Ids : Executed(o)
  BY <1>2, <1>4, <1>5 DEF Executed
<1>12. feed'.top >= feed.top
  BY <1>3, Parts DEF IInv
<1>13. UnderTop' /\ \A o \in Ids : Armoured(o)
  BY <1>3, <1>7, <1>12, SameBook
<1> QED BY <1>6, <1>7, <1>8, <1>9, <1>10, <1>11, <1>12, <1>13, Kept

(* Lemma.  Steps that change neither orders nor book.                      *)
LEMMA QuietStep ==
  ASSUME IInv, Typed', orders' = orders, channel' = channel, enclave' = enclave,
         feed'.top = feed.top, \A tx \in flight' : Launched(tx)
  PROVE  IInv'
<1>1. feed'.top >= feed.top
  BY Parts DEF IInv
<1>2. UnderTop' /\ \A o \in Ids : Armoured(o)
  BY <1>1, SameBook
<1>3. /\ OrdersStay /\ AskedRead' /\ \A id \in Ids : Executed(id)
      /\ \A instruction \in channel' : Placed(instruction.id)'
  BY SameOrders
<1> QED BY <1>1, <1>2, <1>3, Kept

(* Lemma.  The feed publishes a value.                                     *)
LEMMA PublishInv ==
  ASSUME IInv, NEW raw \in Feeds, PublishPrice(raw)
  PROVE  IInv'
<1>1. UNCHANGED <<orders, enclave, channel, flight, form>>
  BY DEF PublishPrice
<1>2. feed \in [raw : Feeds, fresh : BOOLEAN, top : Nat]
  BY DEF IInv, Typed
<1>3. feed' \in [raw : Feeds, fresh : BOOLEAN, top : Nat] /\ feed'.top = feed.top
  BY <1>2 DEF PublishPrice
<1>4. Typed'
  BY <1>1, <1>3 DEF IInv, Typed
<1> QED BY <1>1, <1>3, <1>4, FewerFlights, QuietStep

(* Lemma.  A revert, the feed's own steps, and a look at the TEE's state.  *)
LEMMA OutsideInv ==
  ASSUME IInv,
         \/ \E tx \in flight : SettleReverts(tx)
         \/ \E raw \in Feeds : PublishPrice(raw)
         \/ FeedStalls
         \/ ReadState
         \/ UNCHANGED vars
  PROVE  IInv'
<1>1. ASSUME NEW tx \in flight, SettleReverts(tx) PROVE IInv'
  <2>1. UNCHANGED <<orders, feed, enclave, channel, form>> /\ Outcome(tx, "reverted")
    BY <1>1 DEF SettleReverts
  <2>2. flight' \subseteq Broadcast /\ \A t \in flight' : Launched(t)
    BY <2>1, OutcomeFlight
  <2>3. Typed'
    BY <2>1, <2>2 DEF IInv, Typed
  <2> QED BY <2>1, <2>2, <2>3, QuietStep
<1>2. ASSUME NEW raw \in Feeds, PublishPrice(raw) PROVE IInv'
  BY <1>2, PublishInv
<1>3. CASE FeedStalls
  <2>1. UNCHANGED <<orders, enclave, channel, flight, form>> /\ feed' = [feed EXCEPT !.fresh = FALSE]
    BY <1>3 DEF FeedStalls
  <2>2. Typed' /\ feed'.top = feed.top
    BY <2>1 DEF IInv, Typed
  <2> QED BY <2>1, <2>2, FewerFlights, QuietStep
<1>4. CASE ReadState
  <2>1. /\ UNCHANGED <<orders, feed, enclave, channel, flight>>
        /\ form' = [seen |-> TRUE, key |-> enclave.key, trailing |-> enclave.ready]
    BY <1>4 DEF ReadState
  <2>2. Typed'
    BY <2>1 DEF IInv, Typed
  <2> QED BY <2>1, <2>2, FewerFlights, QuietStep
<1>5. CASE UNCHANGED vars
  <2>1. UNCHANGED <<orders, feed, enclave, channel, flight, form>>
    BY <1>5 DEF vars
  <2>2. Typed'
    BY <2>1 DEF IInv, Typed
  <2> QED BY <2>1, <2>2, FewerFlights, QuietStep
<1> QED BY <1>1, <1>2, <1>3, <1>4, <1>5

(* Lemma.  An entry goes, keeps its policy or is executed.                 *)
LEMMA BookStep ==
  ASSUME IInv, NEW id \in Ids, NEW book,
         book \in {enclave.book, MarkExecuted(enclave.book, id), Delete(enclave.book, id)},
         enclave' = [enclave EXCEPT !.book = book], UNCHANGED <<orders, feed, channel, form>>,
         flight' \subseteq Broadcast, \A tx \in flight' : Launched(tx)
  PROVE  IInv'
<1>1. /\ enclave \in [run : Nat \ {0}, key : Nat, book : [Ids -> Entry], latest : Nat, ready : BOOLEAN]
      /\ enclave.book \in [Ids -> Entry]
      /\ enclave.ready => enclave.latest > 0
      /\ feed \in [raw : Feeds, fresh : BOOLEAN, top : Nat] /\ feed.top >= feed.top /\ feed.top \in Nat
      /\ enclave.latest <= feed.top /\ \A o \in Ids : enclave.book[o].high <= feed.top
  BY Parts DEF IInv, Typed, UnderTop
<1> DEFINE Alike(o) == \/ book[o] = Absent
                       \/ /\ enclave.book[o].status = "absent" => book[o].status = "absent"
                          /\ book[o].trigger = enclave.book[o].trigger /\ book[o].bps = enclave.book[o].bps
                          /\ book[o].high = enclave.book[o].high
<1>2. book \in [Ids -> Entry] /\ \A o \in Ids : Alike(o)
  <2> DEFINE old == enclave.book
  <2>1. old \in [Ids -> Entry] /\ book \in {old, MarkExecuted(old, id), Delete(old, id)}
    BY <1>1
  <2> HIDE DEF old
  <2>2. CASE book = old
    BY <2>1, <2>2 DEF old
  <2>3. CASE book = MarkExecuted(old, id)
    <3>1. /\ MarkExecuted(old, id) \in [Ids -> Entry]
          /\ \A o \in Ids :
               /\ MarkExecuted(old, id)[o].status =
                    IF o = id /\ old[o].status = "open" THEN "executed" ELSE old[o].status
               /\ MarkExecuted(old, id)[o].trigger = old[o].trigger
               /\ MarkExecuted(old, id)[o].bps = old[o].bps
               /\ MarkExecuted(old, id)[o].high = old[o].high
      BY <2>1, MarkEntry
    <3> QED BY <2>3, <3>1 DEF old
  <2>4. CASE book = Delete(old, id)
    <3>1. /\ Delete(old, id) \in [Ids -> Entry] /\ Delete(old, id)[id] = Absent
          /\ \A o \in Ids \ {id} : Delete(old, id)[o] = old[o]
      BY <2>1, DeleteEntry
    <3> QED BY <2>4, <3>1 DEF old
  <2> QED BY <2>1, <2>2, <2>3, <2>4
<1>3. /\ enclave' \in [run : Nat \ {0}, key : Nat, book : [Ids -> Entry], latest : Nat, ready : BOOLEAN]
      /\ enclave'.book = book /\ enclave'.latest = enclave.latest /\ enclave'.ready = enclave.ready
  BY <1>1, <1>2
<1>4. \A o \in Ids : Armoured(o) /\ enclave'.book[o].high <= feed'.top
  <2> TAKE o \in Ids
  <2>1. CASE book[o] = Absent
    BY <1>1, <1>3, <2>1 DEF Armoured, Held, Absent
  <2>2. CASE book[o] # Absent
    BY <1>1, <1>2, <1>3, <2>2 DEF Armoured, Held, Armed
  <2> QED BY <2>1, <2>2
<1> QED BY <1>1, <1>3, <1>4, EnclaveStep

(* Lemma.  A settlement the watcher forgets is as it was.                  *)
LEMMA ForgottenFlight ==
  ASSUME IInv, NEW tx \in flight, NEW old \in Forgotten(tx)
  PROVE  old \in Broadcast /\ Launched(old)
<1> DEFINE t == [tx EXCEPT !.run = 0]
<1>1. tx \in Broadcast
  BY DEF IInv, Typed
<1>2. t \in Broadcast /\ t.id = tx.id /\ t.trigger = tx.trigger /\ old = t
  BY <1>1 DEF Broadcast, Forgotten
<1> QED BY <1>2 DEF Launched

(* Lemma.  A receipt, or the vault's word, ends an entry at most; what is  *)
(* let go of was in flight before.                                         *)
LEMMA ConfirmInv ==
  ASSUME IInv, NEW tx \in flight, Confirm(tx) \/ LetGo(tx)
  PROVE  IInv'
<1>1. tx.id \in Ids /\ flight \subseteq Broadcast
  BY Parts DEF IInv, Typed
<1>2. flight' \subseteq (flight \ {tx}) \cup Forgotten(tx) /\ UNCHANGED <<orders, feed, channel, form>>
  BY DEF Confirm, LetGo
<1>3. \E book \in {enclave.book, MarkExecuted(enclave.book, tx.id), Delete(enclave.book, tx.id)} :
        enclave' = [enclave EXCEPT !.book = book]
  BY DEF Confirm, LetGo
<1>4. \A old \in flight : Launched(old)
  BY DEF Launched
<1>5. \A new \in flight' : new \in flight \/ new \in Forgotten(tx)
  BY <1>2
<1>6. flight' \subseteq Broadcast /\ \A new \in flight' : Launched(new)
  BY <1>1, <1>4, <1>5, ForgottenFlight
<1> QED BY <1>1, <1>2, <1>3, <1>6, BookStep

(* Lemma.  A replacement reveals what the book asks.                       *)
LEMMA ReplaceInv ==
  ASSUME IInv, NEW tx \in flight, Replace(tx)
  PROVE  IInv'
<1> DEFINE new == [tx EXCEPT !.trigger = Effective(enclave.book[tx.id])]
<1>1. tx.id \in Ids /\ tx \in Broadcast /\ flight \subseteq Broadcast /\ enclave.book[tx.id] \in Entry
  BY Parts DEF IInv, Typed
<1>2. /\ flight' = (flight \ {tx}) \cup Forgotten(tx) \cup {new}
      /\ UNCHANGED <<orders, feed, enclave, channel, form>> /\ HasTrigger(enclave.book[tx.id])
  BY DEF Replace
<1>3. Held(tx.id)
  BY <1>2 DEF HasTrigger, Held
<1>4. Effective(enclave.book[tx.id]) \in Nat
  BY <1>1, <1>3, HeldLimit
<1>5. new \in Broadcast /\ new.id = tx.id /\ new.trigger = Effective(enclave.book[tx.id])
  BY <1>1, <1>4 DEF Broadcast
<1> HIDE DEF new
<1>6. ASSUME NEW t, t = new
      PROVE  Launched(t)
  <2>1. enclave' = enclave /\ t.id = tx.id /\ t.trigger = Effective(enclave.book[tx.id])
    BY <1>2, <1>5, <1>6
  <2>2. Held(t.id)'
    BY <1>3, <2>1 DEF Held
  <2> QED BY <2>1, <2>2 DEF Launched
<1>7. \A old \in flight : Launched(old)
  BY DEF Launched
<1>8. \A t \in flight' : t \in flight \/ t \in Forgotten(tx) \/ t = new
  BY <1>2
<1>9. flight' \subseteq Broadcast /\ \A t \in flight' : Launched(t)
  BY <1>1, <1>5, <1>6, <1>7, <1>8, ForgottenFlight
<1>10. Typed'
  BY <1>2, <1>9 DEF IInv, Typed
<1> QED BY <1>2, <1>9, <1>10, QuietStep

(* Lemma.  Every step keeps the invariant.                                 *)
LEMMA StepInv ==
  ASSUME IInv, [Next]_vars
  PROVE  IInv'
<1>1. CASE \E instruction \in channel : Handle(instruction) \/ HandleTwice(instruction)
  BY <1>1, HandleInv DEF Handle, HandleTwice
<1>2. CASE Settling
  BY <1>2, SettleInv, OutsideInv, ConfirmInv, ReplaceInv DEF Settling
<1>3. CASE (\E ask \in Asks : Submit(ask)) \/ (\E payload \in Payloads : PlaceRaw(payload))
  BY <1>3, ClientInv
<1>4. CASE \E id \in Ids : Cancel(id)
  BY <1>4, CancelInv
<1>5. CASE Tick \/ SampleAges \/ Restart
  BY <1>5, TickInv, RestartInv
<1>6. CASE (\E raw \in Feeds : PublishPrice(raw)) \/ FeedStalls \/ ReadState \/ UNCHANGED vars
  BY <1>6, OutsideInv
<1> QED BY <1>1, <1>2, <1>3, <1>4, <1>5, <1>6 DEF Next

(* The inductive invariant holds in every state that clients, vault,       *)
(* enclave and feed can reach together.                                    *)
THEOREM DarkStopInvariant == Spec => []IInv
BY InitInv, StepInv, PTL DEF Spec

-----------------------------------------------------------------------------
(* What it says.                                                           *)

(* Every variable keeps its type, and no order is ever settled at a price  *)
(* that the vault could not compute.                                       *)
THEOREM FlowTypes == Spec => []TypeOK
<1>1. ASSUME IInv PROVE TypeOK
  <2>1. enclave.book \in [Ids -> Entry] /\ (enclave.ready => enclave.latest > 0)
    BY <1>1 DEF IInv, Typed
  <2>2. ASSUME NEW id \in Ids
        PROVE  /\ orders[id].status \in {"none", "open", "executed", "cancelled"}
               /\ orders[id].price # Overflow
    <3>1. orders[id].status \in Stages /\ orders[id].price \in Nat
      BY <1>1, Parts DEF IInv
    <3>2. \A n \in Nat : n # Overflow
      BY DEF Overflow
    <3> QED BY <3>1, <3>2 DEF Stages
  <2> QED BY <2>1, <2>2 DEF TypeOK
<1> QED BY <1>1, DarkStopInvariant, PTL

(* The policy that the enclave arms is the one every JSON reader finds in  *)
(* the plaintext (crypto.go, validateOrderJSONKeys), for any payloads.     *)
THEOREM FlowOneReading == Spec => []OneReading
<1>1. ASSUME IInv, NEW id \in Ids, Held(id)
      PROVE  Armed(id) = ReadFirst(orders[id].payload) /\ Armed(id) = ReadExact(orders[id].payload)
  <2>1. Armed(id) = ParseOrderPlaintext(orders[id].payload) /\ Armed(id) # NoPolicy
    BY <1>1 DEF IInv, ArmedAsSealed
  <2>2. DOMAIN orders[id].payload.fields \subseteq Nat
    BY <1>1, Parts, SealedFields DEF IInv
  <2> QED BY <2>1, <2>2, ParsedOnce
<1>2. IInv => OneReading
  BY <1>1 DEF OneReading
<1> QED BY <1>2, DarkStopInvariant, PTL

(* An order of the form is armed with what its user typed, whatever number *)
(* of decimals that is (percentToBps, FormPayload, ParseOrderPlaintext).   *)
THEOREM FlowAsTyped == Spec => []AsTyped
<1>1. ASSUME IInv, NEW id \in Ids, Held(id), orders[id].asked # NoPolicy
      PROVE  Armed(id) = orders[id].asked
  <2>1. Armed(id) = ParseOrderPlaintext(orders[id].payload) /\ Armed(id) # NoPolicy
    BY <1>1 DEF IInv, ArmedAsSealed
  <2>2. ParseOrderPlaintext(orders[id].payload) \in {orders[id].asked, NoPolicy}
    BY <1>1 DEF IInv, AskedRead
  <2> QED BY <2>1, <2>2
<1>2. IInv => AsTyped
  BY <1>1 DEF AsTyped
<1> QED BY <1>2, DarkStopInvariant, PTL

(* From the seal to the payout: an order is executed at or under its fixed *)
(* trigger, or the trail below the highest price seen, for any feed and    *)
(* any order in which instructions, samples and blocks come.               *)
THEOREM FlowExecutedAsAsked == Spec => []ExecutedAsAsked
<1>1. IInv => ExecutedAsAsked
  BY DEF IInv
<1> QED BY <1>1, DarkStopInvariant, PTL

(* When the watcher reveals a trigger, the vault would take the very value *)
(* of the feed that it has read, if the feed's prices fit in a uint256:    *)
(* the watcher's numbers have any size, and a trail below a price that     *)
(* does not fit is revealed to a vault that cannot compute it.             *)
THEOREM FlowPricesAgree ==
  ASSUME \A raw \in Feeds : normalizePrice(raw.value, raw.decimals) <= MaxUint
  PROVE  Spec => PricesAgree
<1> DEFINE price == toPayoutDecimals(feed.raw.value, feed.raw.decimals)
           s == normalizePrice(feed.raw.value, feed.raw.decimals)
           Agrees == \A tx \in flight' \ flight :
                         /\ tx.outcome = "sent" /\ tx.run = enclave.run
                         /\ s > 0
                         => price \in 0 .. tx.trigger
<1>1. ASSUME IInv, [Next]_vars PROVE [Agrees]_vars
  <2>1. ASSUME flight' \subseteq flight PROVE Agrees
    BY <2>1
  <2>2. ASSUME NEW tx \in flight, NEW outcome \in {"executed", "reverted"}, Outcome(tx, outcome)
        PROVE  Agrees
    <3>1. [tx EXCEPT !.outcome = outcome].outcome = outcome
      BY <1>1 DEF IInv, Typed, Broadcast
    <3> QED BY <2>2, <3>1 DEF Outcome
  <2>3. /\ feed.raw.value \in 0 .. MaxUint /\ feed.raw.decimals \in Int /\ feed.raw \in Feeds
        /\ enclave.book \in [Ids -> Entry]
    BY <1>1, Parts DEF IInv
  <2>10. s \in Nat /\ s <= MaxUint
    <3>1. feed.raw.value \in Nat /\ s <= MaxUint
      BY <2>3, HandlersAssumption
    <3> QED BY <2>3, <3>1, NormalizeType
  <2>11. s > 0 => price = s
    <3>1. s > 0 => s \in 1 .. MaxUint
      BY <2>10, HandlersAssumption
    <3> HIDE DEF s
    <3> QED BY <2>3, <3>1, ConversionsAgree DEF s
  <2>12. \A t \in flight : \A old \in Forgotten(t) : old.run = 0
    BY <1>1 DEF IInv, Typed, Broadcast, Forgotten
  <2>13. enclave.run # 0
    BY <1>1, Parts DEF IInv
  <2>14. CASE \E tx \in flight : Settle(tx) \/ SettleReverts(tx) \/ Confirm(tx)
    BY <2>1, <2>2, <2>14 DEF Settle, Executes, SettleReverts, Confirm
  <2>15. ASSUME NEW tx \in flight, LetGo(tx) PROVE Agrees
    <3>1. flight' = (flight \ {tx}) \cup Forgotten(tx)
      BY <2>15 DEF LetGo
    <3> HIDE DEF price, s
    <3> QED BY <2>12, <2>13, <3>1
  <2>16. ASSUME NEW tx \in flight, Replace(tx) PROVE Agrees
    <3> DEFINE e == Effective(enclave.book[tx.id])
               new == [tx EXCEPT !.trigger = e]
    <3>1. flight' = (flight \ {tx}) \cup Forgotten(tx) \cup {new} /\ s <= e /\ Held(tx.id)
      BY <2>16 DEF Replace, HasTrigger, Held
    <3>2. e \in Nat /\ tx \in Broadcast
      BY <1>1, <3>1, HeldLimit, Parts DEF IInv
    <3>3. new.trigger = e
      BY <3>2 DEF Broadcast
    <3> HIDE DEF price, s, e, new
    <3>4. \A t \in flight' \ flight : t \in Forgotten(tx) \/ t = new
      BY <3>1
    <3> QED BY <2>10, <2>11, <2>12, <2>13, <3>1, <3>2, <3>3, <3>4
  <2>4. CASE Tick
    <3>1. s > 0
      BY <2>4 DEF Tick, Trusted
    <3>2. s \in Nat /\ s > 0 /\ s <= MaxUint /\ price = s
      BY <2>10, <2>11, <3>1
    <3>4. \/ flight' = flight
          \/ \E c \in Crossed(Raise(enclave.book, s), s) :
               flight' = flight \cup {[id |-> c.id, trigger |-> c.trigger, run |-> enclave.run,
                                       outcome |-> "sent"]}
      BY <2>4 DEF Tick
    <3> HIDE DEF price, s
    <3>5. ASSUME NEW c \in Crossed(Raise(enclave.book, s), s) PROVE s <= c.trigger
      BY <3>5 DEF Crossed
    <3>6. \A c \in Crossed(Raise(enclave.book, s), s) : c.trigger \in Nat
      <4> SUFFICES ASSUME NEW o \in Ids, Raise(enclave.book, s)[o].status = "open"
                   PROVE  Effective(Raise(enclave.book, s)[o]) \in Nat
        <5>1. DOMAIN Raise(enclave.book, s) = Ids
          BY <2>3 DEF Raise
        <5> QED BY <5>1 DEF Crossed
      <4> DEFINE e == Raise(enclave.book, s)[o]
      <4>1. e \in Entry /\ e.bps = enclave.book[o].bps /\ e.status = enclave.book[o].status
        BY <2>3, <3>2, RaiseEntry
      <4>2. Held(o)
        BY <4>1 DEF Held
      <4>3. Sound(enclave.book[o])
        BY <1>1, <4>2, HeldLimit
      <4>4. Sound(e)
        BY <4>1, <4>3 DEF Sound
      <4> QED BY <4>1, <4>4, EffectiveType
    <3> QED BY <3>2, <3>4, <3>5, <3>6
  <2>5. CASE (\E ask \in Asks : Submit(ask)) \/ (\E payload \in Payloads : PlaceRaw(payload))
    BY <2>1, <2>5 DEF Submit, PlaceRaw, Place
  <2>6. CASE \E id \in Ids : Cancel(id)
    BY <2>1, <2>6 DEF Cancel
  <2>7. CASE \E instruction \in channel : Handle(instruction) \/ HandleTwice(instruction)
    BY <2>1, <2>7 DEF Handle, HandleTwice, processDarkstop
  <2>8. CASE SampleAges \/ Restart \/ FeedStalls \/ ReadState
    BY <2>1, <2>8 DEF SampleAges, Restart, FeedStalls, ReadState
  <2>9. ASSUME NEW raw \in Feeds, PublishPrice(raw) PROVE Agrees
    BY <2>1, <2>9 DEF PublishPrice
  <2> HIDE DEF Agrees
  <2> QED BY <1>1, <2>4, <2>5, <2>6, <2>7, <2>8, <2>9, <2>14, <2>15, <2>16 DEF Next, Settling
<1>2. PricesAgree <=> [][Agrees]_vars
  BY DEF PricesAgree
<1> HIDE DEF Agrees
<1>3. Spec => [][Agrees]_vars
  BY <1>1, DarkStopInvariant, PTL DEF Spec
<1> QED BY <1>2, <1>3, PTL
=============================================================================
