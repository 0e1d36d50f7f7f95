------------------------ MODULE InstructionHandlers ------------------------
(***************************************************************************)
(* The pure functions between a user, the enclave and the vault: the       *)
(* order form's payload (frontend/lib), the enclave's strict reading of it *)
(* (internal/extension/crypto.go), and the two conversions of a feed value *)
(* to a price, the watcher's and the vault's.                              *)
(***************************************************************************)
EXTENDS OrderBook, Sequences, FiniteSetsExt

CONSTANT MaxUint             \* the largest uint256

ASSUME HandlersAssumption == MaxUint \in Nat

(* JSON: a field's name is the one it has when case is ignored, and exact  *)
(* says that it is written that way; a decimal string is "decimal" and its *)
(* number.                                                                 *)
Value(type, text, n) == [type |-> type, text |-> text, n |-> n]
Null == Value("null", "", 0)
Text(t) == Value("string", t, 0)
Decimal(n) == Value("string", "decimal", n)
Number(n) == Value("number", "", n)

Field(name, value) == [name |-> name, exact |-> TRUE, value |-> value]
Variant(name, value) == [name |-> name, exact |-> FALSE, value |-> value]

(* One object with nothing but spaces after it, or with more; 1024 bytes   *)
(* at most, or longer.                                                     *)
Object(fields) == [fields |-> fields, tail |-> FALSE, fits |-> TRUE]

Names == {"strategy", "triggerPrice", "trailBps"}
NoPolicy == [trigger |-> 0, bps |-> 0]

-----------------------------------------------------------------------------
(* Reading a payload.                                                      *)

(* Mutant of validateOrderJSONKeys: a repeated name is not noticed.        *)
KnownNamesOnly(p) ==
  /\ \A i \in DOMAIN p.fields : p.fields[i].exact /\ p.fields[i].name \in Names
  /\ ~p.tail

(* Each known name at most once and exactly as it is written.              *)
validateOrderJSONKeys(p) ==
  /\ \A i \in DOMAIN p.fields : p.fields[i].exact /\ p.fields[i].name \in Names
  /\ \A i, j \in DOMAIN p.fields : p.fields[i].name = p.fields[j].name => i = j
  /\ ~p.tail

(* The decoder ignores case and takes null for a missing field.            *)
Decodes(p) ==
  \A i \in DOMAIN p.fields :
    LET f == p.fields[i] IN
    \/ f.name \in Names /\ f.value = Null
    \/ f.name \in {"strategy", "triggerPrice"} /\ f.value.type = "string"
    \/ f.name = "trailBps" /\ f.value.type = "number" /\ f.value.n \in 0 .. 65535

(* The last field of a name wins.                                          *)
Given(p, name) == {i \in DOMAIN p.fields : p.fields[i].name = name}
Decoded(p, name) ==
  IF Given(p, name) = {} THEN Null ELSE p.fields[Max(Given(p, name))].value

(* A payload without a strategy and with a trigger only is a fixed one.    *)
Policy(strategy, trigger, bps) ==
  LET kind == IF strategy.text = "" /\ trigger # Null /\ bps = Null THEN "fixed"
              ELSE strategy.text IN
  CASE kind = "trailing" /\ trigger = Null /\ bps.n \in MinTrailBps .. MaxTrailBps
         -> Trailing(bps.n)
    [] kind = "fixed" /\ bps = Null /\ trigger.text = "decimal" /\ trigger.n \in 1 .. MaxUint
         -> Fixed(trigger.n)
    [] OTHER -> NoPolicy

ParseOrderPlaintext(p) ==
  IF p.fits /\ validateOrderJSONKeys(p) /\ Decodes(p)
  THEN Policy(Decoded(p, "strategy"), Decoded(p, "triggerPrice"), Decoded(p, "trailBps"))
  ELSE NoPolicy

-----------------------------------------------------------------------------
(* The form.  An ask is a fixed trigger, n millionths, the step of its     *)
(* input: of a decimal with six places at most, parseUnits(.., 6) is n.    *)
(* Or a trail in percent: the whole part and up to two decimals, as they   *)
(* are typed.                                                              *)
AskFixed(n) == [kind |-> "fixed", n |-> n, decimals |-> <<>>]
AskTrail(whole, decimals) == [kind |-> "trailing", n |-> whole, decimals |-> decimals]

(* Mutant of percentToBps: the decimals are not padded.                    *)
PercentUnpadded(whole, decimals) ==
  whole * 100 + (CASE Len(decimals) = 0 -> 0
                   [] Len(decimals) = 1 -> decimals[1]
                   [] Len(decimals) = 2 -> 10 * decimals[1] + decimals[2])

percentToBps(whole, decimals) ==
  whole * 100 + (CASE Len(decimals) = 0 -> 0
                   [] Len(decimals) = 1 -> 10 * decimals[1]
                   [] Len(decimals) = 2 -> 10 * decimals[1] + decimals[2])

(* percentToBps throws outside of what the enclave takes.                  *)
FormAccepts(ask) ==
  IF ask.kind = "fixed" THEN ask.n > 0
  ELSE percentToBps(ask.n, ask.decimals) \in MinTrailBps .. MaxTrailBps

FormPayload(ask) ==
  IF ask.kind = "fixed"
  THEN Object(<<Field("strategy", Text("fixed")), Field("triggerPrice", Decimal(ask.n))>>)
  ELSE Object(<<Field("strategy", Text("trailing")),
                Field("trailBps", Number(percentToBps(ask.n, ask.decimals)))>>)

-----------------------------------------------------------------------------
(* Prices.  A feed value stands for value / 10^decimals.                   *)
PayoutDecimals == 6

PowerOfTen[k \in Nat] == IF k = 0 THEN 1 ELSE 10 * PowerOfTen[k - 1]

(* Mutant of normalizePrice: a feed with fewer decimals is not scaled up.  *)
NormalizeDown(value, decimals) ==
  IF decimals <= PayoutDecimals THEN value ELSE value \div PowerOfTen[decimals - PayoutDecimals]

(* The watcher's: integers of any size.                                    *)
normalizePrice(value, decimals) ==
  IF decimals <= PayoutDecimals THEN value * PowerOfTen[PayoutDecimals - decimals]
  ELSE value \div PowerOfTen[decimals - PayoutDecimals]

(* The vault's: reverts when a number does not fit.                        *)
Overflow == -1
toPayoutDecimals(value, decimals) ==
  LET scale == IF decimals <= PayoutDecimals THEN PowerOfTen[PayoutDecimals - decimals]
               ELSE PowerOfTen[decimals - PayoutDecimals] IN
  CASE scale > MaxUint -> Overflow
    [] scale <= MaxUint /\ decimals > PayoutDecimals -> value \div scale
    [] scale <= MaxUint /\ decimals <= PayoutDecimals ->
         IF value * scale > MaxUint THEN Overflow ELSE value * scale
=============================================================================
