------------------------------- MODULE Lemmas -------------------------------
(***************************************************************************)
(* Lemmas that several proofs cite: least elements, induction and free     *)
(* places among the naturals, and the order book as a value (the           *)
(* arithmetic of a trail, and what each method of Store makes of an entry).*)
(***************************************************************************)
EXTENDS OrderBook, FiniteSets, FiniteSetTheorems, WellFoundedInduction, TLAPS

-----------------------------------------------------------------------------
(* Sets of naturals.                                                       *)

(* Lemma.  A set of naturals that is not empty has a least element.        *)
LEMMA LeastExists ==
  ASSUME NEW S \in SUBSET Nat, S # {}
  PROVE  \E n \in S : \A m \in S : n <= m
<1> DEFINE R == {ss \in Nat \X Nat : ss[1] < ss[2]}
<1>1. R = OpToRel(<, Nat)
  BY DEF OpToRel
<1>2. IsWellFoundedOn(R, Nat)
  BY <1>1, NatLessThanWellFounded
<1> HIDE DEF R
<1>3. PICK n \in S : \A m \in S : <<m, n>> \notin R
  BY <1>2, WFMin
<1>4. \A m \in S : ~(m < n)
  BY <1>3 DEF R
<1> QED BY <1>4

(* Lemma.  A set with zero that is closed under successor has all naturals.*)
LEMMA InductionSet ==
  ASSUME NEW S, 0 \in S, \A n \in Nat : n \in S => n + 1 \in S
  PROVE  \A n \in Nat : n \in S
<1> SUFFICES ASSUME Nat \ S # {} PROVE FALSE
  OBVIOUS
<1>1. PICK n \in Nat \ S : \A m \in Nat \ S : n <= m
  BY LeastExists
<1>2. n # 0 /\ n - 1 \in Nat
  OBVIOUS
<1>3. n - 1 \in S
  BY <1>1, <1>2
<1> QED BY <1>2, <1>3

(* Some place of a .. a + k is none of f[1], ..., f[k].                    *)
HasFree(a, k, f) == \E n \in a .. a + k : \A i \in 1 .. k : f[i] # n

(* Lemma.  Fewer things than places leave a place free.                    *)
LEMMA FreePlace ==
  ASSUME NEW a \in Nat, NEW k \in Nat, NEW f
  PROVE  HasFree(a, k, f)
<1> SUFFICES ASSUME \A n \in a .. a + k : \E i \in 1 .. k : f[i] = n PROVE FALSE
  BY DEF HasFree
<1> DEFINE S == a .. a + k
           T == 1 .. k
           g == [n \in S |-> CHOOSE i \in T : f[i] = n]
<1>1. \A n \in S : g[n] \in T /\ f[g[n]] = n
  OBVIOUS
<1>2. g \in [S -> T]
  BY <1>1
<1>3. IsFiniteSet(S) /\ Cardinality(S) = k + 1
  BY FS_Interval
<1>4. IsFiniteSet(T) /\ Cardinality(T) = k
  BY FS_Interval
<1>5. Cardinality(T) < Cardinality(S)
  BY <1>3, <1>4
<1> HIDE DEF g, S, T
<1>6. \E m, n \in S : m # n /\ g[m] = g[n]
  BY <1>2, <1>3, <1>4, <1>5, FS_PigeonHole
<1> QED BY <1>1, <1>6

-----------------------------------------------------------------------------
(* The arithmetic of a trail.                                              *)

(* What a trail may take off the watermark, in basis points.               *)
Bps == 0 .. 10000

(* Lemma.  The trigger of a trail is a price.                              *)
LEMMA TrailType ==
  ASSUME NEW h \in Nat, NEW b \in Bps
  PROVE  Trail(h, b) \in Nat
<1> DEFINE x == h * (10000 - b)
<1>1. 10000 - b \in Nat
  BY DEF Bps
<1>2. x \in Nat
  BY <1>1
<1>3. \A y \in Nat : y \div 10000 \in Nat
  OBVIOUS
<1> HIDE DEF x
<1>4. x \div 10000 \in Nat
  BY <1>2, <1>3
<1>5. Trail(h, b) = x \div 10000
  BY DEF Trail, x
<1> QED BY <1>4, <1>5

(* Lemma.  A product grows with its first factor.                          *)
LEMMA ProductMonotone ==
  ASSUME NEW g \in Nat, NEW h \in Nat, NEW k \in Nat, g <= h
  PROVE  g * k <= h * k
<1> DEFINE d == h - g
<1>1. d \in Nat /\ h = g + d
  OBVIOUS
<1>2. (g + d) * k = g * k + d * k
  BY <1>1
<1>3. d * k \in Nat /\ g * k \in Nat
  BY <1>1
<1>4. h * k = g * k + d * k
  BY <1>1, <1>2
<1> QED BY <1>3, <1>4

(* Lemma.  A higher watermark does not lower the trigger.                  *)
LEMMA TrailMonotone ==
  ASSUME NEW g \in Nat, NEW h \in Nat, NEW b \in Bps, g <= h
  PROVE  Trail(g, b) <= Trail(h, b)
<1> DEFINE k == 10000 - b
           x == g * k
           y == h * k
<1>1. k \in Nat
  BY DEF Bps
<1> HIDE DEF k
<1>2. x \in Nat /\ y \in Nat
  BY <1>1
<1>3. x <= y
  BY <1>1, ProductMonotone
<1> HIDE DEF x, y
<1>4. x \div 10000 <= y \div 10000
  BY <1>2, <1>3
<1>5. Trail(g, b) = x \div 10000 /\ Trail(h, b) = y \div 10000
  BY DEF Trail, x, y, k
<1> QED BY <1>4, <1>5

-----------------------------------------------------------------------------
(* The policy of an entry, and its trigger.                                *)

(* A fixed trigger, or a trail that Put accepts.                           *)
Sound(entry) == entry.bps = 0 \/ entry.bps \in MinTrailBps .. MaxTrailBps

(* Lemma.  The trigger of a stored order is a price.                       *)
LEMMA EffectiveType ==
  ASSUME NEW e \in Entry, Sound(e)
  PROVE  Effective(e) \in Nat
<1>1. CASE e.bps = 0
  BY <1>1 DEF Effective, Entry
<1>2. CASE e.bps # 0
  <2>1. e.bps \in Bps /\ e.high \in Nat
    BY <1>2 DEF MinTrailBps, MaxTrailBps, Entry, Bps, Sound
  <2>2. Trail(e.high, e.bps) \in Nat
    BY <2>1, TrailType, Zenon
  <2> QED BY <1>2, <2>2 DEF Effective
<1> QED BY <1>1, <1>2

-----------------------------------------------------------------------------
(* The methods.                                                            *)

(* Lemma.  A policy Put accepts is a fixed trigger or a permitted trail.   *)
LEMMA PutAccepts ==
  ASSUME NEW b, NEW id, NEW policy, NEW ready, CanPut(b, id, policy, ready)
  PROVE  /\ b[id].status = "absent" /\ id > 0
         /\ \/ policy.trigger > 0 /\ policy.bps = 0
            \/ policy.trigger = 0 /\ policy.bps \in MinTrailBps .. MaxTrailBps /\ ready
BY DEF CanPut, IsFixed, IsTrailing

(* Lemma.  What Put stores: one entry, made of the policy.                 *)
LEMMA PutEntry ==
  ASSUME NEW Ids, NEW b \in [Ids -> Entry], NEW id \in Ids,
         NEW policy \in [trigger : Nat, bps : Nat], NEW latest \in Nat
  PROVE  /\ Put(b, id, policy, latest) \in [Ids -> Entry]
         /\ Put(b, id, policy, latest)[id] =
              [status |-> "open", trigger |-> policy.trigger, bps |-> policy.bps,
               high |-> IF IsTrailing(policy) THEN latest ELSE 0]
         /\ \A o \in Ids \ {id} : Put(b, id, policy, latest)[o] = b[o]
<1>1. [status |-> "open", trigger |-> policy.trigger, bps |-> policy.bps,
       high |-> IF IsTrailing(policy) THEN latest ELSE 0] \in Entry
  BY DEF Entry
<1> QED BY <1>1 DEF Put

(* Lemma.  What Delete leaves.                                             *)
LEMMA DeleteEntry ==
  ASSUME NEW Ids, NEW b \in [Ids -> Entry], NEW id \in Ids
  PROVE  /\ Delete(b, id) \in [Ids -> Entry]
         /\ Delete(b, id)[id] = Absent
         /\ \A o \in Ids \ {id} : Delete(b, id)[o] = b[o]
BY DEF Delete, Entry, Absent

(* Lemma.  MarkExecuted touches the status of an open order only.          *)
LEMMA MarkEntry ==
  ASSUME NEW Ids, NEW b \in [Ids -> Entry], NEW id \in Ids
  PROVE  /\ MarkExecuted(b, id) \in [Ids -> Entry]
         /\ \A o \in Ids :
              /\ MarkExecuted(b, id)[o].status =
                   IF o = id /\ b[o].status = "open" THEN "executed" ELSE b[o].status
              /\ MarkExecuted(b, id)[o].trigger = b[o].trigger
              /\ MarkExecuted(b, id)[o].bps = b[o].bps
              /\ MarkExecuted(b, id)[o].high = b[o].high
<1>1. \A o \in Ids : b[o] \in Entry
  OBVIOUS
<1>2. CASE b[id].status = "open"
  <2>1. MarkExecuted(b, id) = [b EXCEPT ![id] = [b[id] EXCEPT !.status = "executed"]]
    BY <1>2 DEF MarkExecuted
  <2>2. [b[id] EXCEPT !.status = "executed"] \in Entry
    BY <1>1 DEF Entry
  <2> QED BY <1>1, <1>2, <2>1, <2>2 DEF Entry
<1>3. CASE b[id].status # "open"
  BY <1>1, <1>3 DEF MarkExecuted
<1> QED BY <1>2, <1>3

(* Lemma.  Raise touches the watermarks of open trailing orders only.      *)
LEMMA RaiseEntry ==
  ASSUME NEW Ids, NEW b \in [Ids -> Entry], NEW price \in Nat
  PROVE  /\ Raise(b, price) \in [Ids -> Entry]
         /\ \A o \in Ids :
              /\ Raise(b, price)[o].status = b[o].status
              /\ Raise(b, price)[o].trigger = b[o].trigger
              /\ Raise(b, price)[o].bps = b[o].bps
              /\ Raise(b, price)[o].high =
                   IF b[o].status = "open" /\ b[o].bps > 0 /\ price > b[o].high
                   THEN price ELSE b[o].high
<1>1. \A o \in Ids : b[o] \in Entry /\ [b[o] EXCEPT !.high = price] \in Entry
  BY DEF Entry
<1>2. /\ Raise(b, price) \in [Ids -> Entry]
      /\ \A o \in Ids : Raise(b, price)[o] =
           IF b[o].status = "open" /\ b[o].bps > 0 /\ price > b[o].high
           THEN [b[o] EXCEPT !.high = price] ELSE b[o]
  BY <1>1 DEF Raise
<1> QED BY <1>1, <1>2 DEF Entry
=============================================================================
