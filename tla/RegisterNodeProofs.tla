------------------------- MODULE RegisterNodeProofs -------------------------
(***************************************************************************)
(* Proofs about the registration of a TEE machine, for any TEEs, images,   *)
(* version names, commands and any number of faults.                       *)
(***************************************************************************)
EXTENDS RegisterNode, Lemmas

-----------------------------------------------------------------------------
(* The inductive invariant: what the chain, the state file and the tool    *)
(* are, as operators of their values.                                      *)

Letters == {"r", "R", "a", "p"}
Kinds == {"version", "register", "attest", "check", "promote"}
Ids == Instrs \cup {None}
Machine == Tees \cup {0}
State == [steps : SUBSET Letters, attest : Ids, check : Ids,
          by : Machine \cup {Several}, broken : BOOLEAN]
Places == {"idle", "allow", "version", "allowed", "r", "register", "R", "attest",
           "a", "check", "p", "promote"}
Instr == [kind : {"none", "attest", "check"}, tee : Machine, ready : BOOLEAN]
Transactions == {op \in [kind : Kinds, tee : Machine, instr : Ids, version : Versions \cup {None}] :
                   op.kind = "version" => op.tee \in Tees}
Chain == [machines : [Tees -> {"none", "registered", "production"}],
          versions : [Versions -> Images \cup {None}],
          instrs : [Instrs -> Instr]]
Tool == [pc : Places, tee : Machine, command : SUBSET Letters, resume : BOOLEAN,
         version : Versions \cup {None}, saved : State, attest : Ids, check : Ids,
         outcome : {"none", "failed", "registered"}, own : BOOLEAN]

(* A state whose check was requested names it, and it is about machine t   *)
(* if "own" is true.                                                       *)
ChecksOf(c, state, own, t) ==
  "a" \in state.steps => state.check \in Instrs /\ (own => c.instrs[state.check].tee = t)

(* The check the tool has asked for, waits for and takes to the chain is   *)
(* of its TEE.                                                             *)
WaitsForOwn(c, p) ==
  p.pc \in {"p", "promote"} =>
    p.check \in Instrs /\ (p.own /\ "a" \in p.command => c.instrs[p.check].tee = p.tee)

(* The tool goes on only with an image that is supported.                  *)
AllowedOn(c, p) == p.pc = "allowed" => \E v \in Versions : c.versions[v] = ImageOf[p.tee]

GoodFile(c, f) ==
  /\ f \in State
  /\ ChecksOf(c, f, f.by # Several, f.by)
  /\ f.by = 0 => f.steps = {}

GoodTool(c, p) ==
  /\ p \in Tool
  /\ p.pc # "idle" => p.tee \in Tees
  /\ p.pc \in {"allow", "version"} => p.version \in Versions
  /\ ChecksOf(c, p.saved, p.own, p.tee)
  /\ WaitsForOwn(c, p)
  /\ AllowedOn(c, p)

(* Each transaction that was left cost a fault.                            *)
FewLate ==
  /\ late \subseteq Transactions
  /\ faults \in 0 .. MaxFaults /\ IsFiniteSet(late) /\ Cardinality(late) <= faults

IInv == chain \in Chain /\ served \in Tees /\ FewLate /\ GoodFile(chain, file) /\ GoodTool(chain, proc)

-----------------------------------------------------------------------------
(* The chain.                                                              *)

(* Lemma.  There is always a free instruction id: the bound on ids that    *)
(* are referred to is never met.                                           *)
LEMMA FreeInstr == IInv => NewInstr \in Instrs \ Held
<1> SUFFICES ASSUME IInv PROVE NewInstr \in Instrs \ Held
  OBVIOUS
<1> DEFINE L == {op.instr : op \in late}
<1>1. IsFiniteSet(L) /\ Cardinality(L) <= Cardinality(late)
  <2> DEFINE f == [op \in late |-> op.instr]
  <2>1. IsFiniteSet(late) /\ f \in [late -> L] /\ \A x \in L : \E op \in late : f[op] = x
    BY DEF IInv, FewLate
  <2> HIDE DEF f, L
  <2>2. f \in Surjection(late, L)
    BY <2>1 DEF Surjection
  <2> QED BY <2>1, <2>2, FS_Surjection
<1> HIDE DEF L
<1>2. Cardinality(late) \in Nat /\ Cardinality(L) \in Nat /\ Cardinality(late) <= MaxFaults
  BY <1>1, FS_CardinalityType, RegisterAssumption DEF IInv, FewLate
<1> DEFINE H1 == L \cup {file.attest}
           H2 == H1 \cup {file.check}
           H3 == H2 \cup {proc.attest}
           H4 == H3 \cup {proc.check}
           H5 == H4 \cup {proc.saved.attest}
           H6 == H5 \cup {proc.saved.check}
<1>3. Held = H6
  BY DEF Held, L
<1>4. IsFiniteSet(H1) /\ Cardinality(H1) \in Nat /\ Cardinality(H1) <= Cardinality(L) + 1
  BY <1>1, <1>2, FS_AddElement
<1> HIDE DEF H1
<1>5. IsFiniteSet(H2) /\ Cardinality(H2) \in Nat /\ Cardinality(H2) <= Cardinality(H1) + 1
  BY <1>4, FS_AddElement
<1> HIDE DEF H2
<1>6. IsFiniteSet(H3) /\ Cardinality(H3) \in Nat /\ Cardinality(H3) <= Cardinality(H2) + 1
  BY <1>5, FS_AddElement
<1> HIDE DEF H3
<1>7. IsFiniteSet(H4) /\ Cardinality(H4) \in Nat /\ Cardinality(H4) <= Cardinality(H3) + 1
  BY <1>6, FS_AddElement
<1> HIDE DEF H4
<1>8. IsFiniteSet(H5) /\ Cardinality(H5) \in Nat /\ Cardinality(H5) <= Cardinality(H4) + 1
  BY <1>7, FS_AddElement
<1> HIDE DEF H5
<1>9. IsFiniteSet(H6) /\ Cardinality(H6) \in Nat /\ Cardinality(H6) <= Cardinality(H5) + 1
  BY <1>8, FS_AddElement
<1> HIDE DEF H6
<1>10. Cardinality(Held) \in Nat /\ Cardinality(Held) <= MaxFaults + 6 /\ IsFiniteSet(Held)
  BY <1>1, <1>2, <1>3, <1>4, <1>5, <1>6, <1>7, <1>8, <1>9, RegisterAssumption
<1>11. IsFiniteSet(Instrs) /\ Cardinality(Instrs) = MaxInstr /\ Instrs \subseteq Nat
  BY FS_Interval, RegisterAssumption DEF Instrs
<1>12. Instrs \ Held # {}
  <2> SUFFICES ASSUME Instrs \subseteq Held PROVE FALSE
    OBVIOUS
  <2>1. Cardinality(Instrs) <= Cardinality(Held)
    BY <1>10, FS_Subset
  <2> QED BY <1>10, <1>11, <2>1, RegisterAssumption
<1> DEFINE free == Instrs \ Held
<1>13. \E i \in free : \A j \in free : i <= j
  BY <1>11, <1>12, LeastExists
<1> QED BY <1>13 DEF NewInstr

(* A chain that came out of this one: checks that are still referred to    *)
(* are of the machines they were of, and supported images stay supported.  *)
Grown(c) ==
  /\ c \in Chain
  /\ \A i \in Held \cap Instrs : c.instrs[i].tee = chain.instrs[i].tee
  /\ \A v \in Versions, t \in Tees : chain.versions[v] = ImageOf[t] => c.versions[v] = ImageOf[t]

(* Lemma.  A new instruction leaves those that are referred to, but for    *)
(* their being ready.                                                      *)
LEMMA IssueKeeps ==
  ASSUME IInv, NEW kind \in {"attest", "check"}, NEW t \in Machine
  PROVE  /\ Issue(kind, t) \in [Instrs -> Instr]
         /\ \A i \in Held \cap Instrs : Issue(kind, t)[i].tee = chain.instrs[i].tee
         /\ Issue(kind, t)[NewInstr].tee = t
<1>1. NewInstr \in Instrs \ Held
  BY FreeInstr
<1>2. chain.instrs \in [Instrs -> Instr]
  BY DEF IInv, Chain
<1> DEFINE new == [kind |-> kind, tee |-> t, ready |-> kind = "attest"]
           entry(i) ==
       CASE i = NewInstr -> new
         [] i \notin Held \cup {NewInstr} -> Unused
         [] i \in Held /\ chain.instrs[i].kind = "attest" /\ chain.instrs[i].tee = t ->
              [chain.instrs[i] EXCEPT !.ready = FALSE]
         [] OTHER -> chain.instrs[i]
<1>3. Issue(kind, t) = [i \in Instrs |-> entry(i)]
  BY DEF Issue
<1>4. ASSUME NEW i \in Instrs
      PROVE  /\ entry(i) \in Instr
             /\ i \in Held => entry(i).tee = chain.instrs[i].tee
             /\ i = NewInstr => entry(i).tee = t
  <2>1. CASE i = NewInstr
    <3>1. new \in Instr /\ new.tee = t
      <4>1. (kind = "attest") \in BOOLEAN
        OBVIOUS
      <4> QED BY <4>1 DEF Instr
    <3> HIDE DEF new
    <3>2. entry(i) = new
      BY <1>1, <2>1
    <3> HIDE DEF entry
    <3> QED BY <1>1, <2>1, <3>1, <3>2
  <2>2. CASE i # NewInstr /\ i \notin Held
    <3> HIDE DEF new
    <3>1. entry(i) = Unused
      BY <2>2
    <3> HIDE DEF entry
    <3> QED BY <2>2, <3>1 DEF Instr, Unused, Machine
  <2>3. CASE i # NewInstr /\ i \in Held
    <3> DEFINE old == chain.instrs[i]
    <3>1. old \in Instr
      BY <1>2
    <3> HIDE DEF new
    <3>2. entry(i) = old \/ entry(i) = [old EXCEPT !.ready = FALSE]
      BY <2>3
    <3> HIDE DEF old, entry
    <3>3. entry(i) \in Instr /\ entry(i).tee = old.tee
      BY <3>1, <3>2 DEF Instr
    <3> QED BY <2>3, <3>3 DEF old
  <2> QED BY <2>1, <2>2, <2>3
<1> HIDE DEF entry
<1> QED BY <1>1, <1>3, <1>4

(* What a transaction that is mined does.                                  *)
Does(op, c) ==
  /\ Grown(c)
  /\ op.kind \in {"register", "attest", "check"} => c.instrs[NewInstr].tee = op.tee
  /\ op.kind = "version" /\ op.version \in Versions /\ op.tee \in Tees =>
       c.versions[op.version] = ImageOf[op.tee]
  /\ op.kind = "promote" /\ op.tee \in Tees => c.machines[op.tee] = "production"

(* Lemma.  Every transaction that is accepted does that.                   *)
LEMMA EffectDoes ==
  ASSUME IInv, NEW op \in Transactions, Accepts(op)
  PROVE  Does(op, Effect(op))
<1> DEFINE c == Effect(op)
<1>1. /\ chain \in Chain /\ chain.machines \in [Tees -> {"none", "registered", "production"}]
      /\ chain.versions \in [Versions -> Images \cup {None}] /\ chain.instrs \in [Instrs -> Instr]
  BY DEF IInv, Chain
<1>2. op.kind \in Kinds /\ op.tee \in Machine
  BY DEF Transactions
<1>3. CASE op.kind = "version"
  <2>1. chain.versions[op.version] = None
    BY <1>3 DEF Accepts
  <2>2. c = [chain EXCEPT !.versions = [chain.versions EXCEPT ![op.version] = ImageOf[op.tee]]]
    BY <1>3 DEF Effect
  <2> HIDE DEF c
  <2>3. /\ c.machines = chain.machines /\ c.instrs = chain.instrs
        /\ c.versions = [chain.versions EXCEPT ![op.version] = ImageOf[op.tee]]
    BY <1>1, <2>2 DEF Chain
  <2>4. op.tee \in Tees /\ ImageOf[op.tee] \in Images /\ ImageOf[op.tee] # None
    BY <1>3, RegisterAssumption DEF Transactions, Images, None
  <2>5. /\ c.versions \in [Versions -> Images \cup {None}]
        /\ op.version \in Versions => c.versions[op.version] = ImageOf[op.tee]
        /\ \A v \in Versions : chain.versions[v] # None => c.versions[v] = chain.versions[v]
    BY <1>1, <2>1, <2>3, <2>4
  <2>6. c \in Chain
    BY <1>1, <2>2, <2>5, <2>3 DEF Chain
  <2>7. \A t \in Tees : ImageOf[t] # None
    BY RegisterAssumption DEF None
  <2>8. Grown(c)
    BY <2>3, <2>5, <2>6, <2>7 DEF Grown
  <2> HIDE DEF c
  <2>9. Does(op, c)
    BY <1>3, <2>5, <2>8 DEF Does
  <2> QED BY <2>9 DEF c
<1>4. ASSUME NEW kind \in {"attest", "check"}, NEW machines \in [Tees -> {"none", "registered", "production"}],
             op.kind \in {"register", "attest", "check"},
             c = [chain EXCEPT !.machines = machines, !.instrs = Issue(kind, op.tee)]
      PROVE  Does(op, c)
  <2> DEFINE issued == Issue(kind, op.tee)
  <2>1. /\ issued \in [Instrs -> Instr]
        /\ \A i \in Held \cap Instrs : issued[i].tee = chain.instrs[i].tee
        /\ issued[NewInstr].tee = op.tee
    BY <1>2, IssueKeeps
  <2>2. c = [chain EXCEPT !.machines = machines, !.instrs = issued]
    BY <1>4
  <2> HIDE DEF c, issued
  <2>3. c.machines = machines /\ c.instrs = issued /\ c.versions = chain.versions /\ c \in Chain
    BY <1>1, <1>4, <2>1, <2>2 DEF Chain
  <2>4. Grown(c)
    BY <2>1, <2>3 DEF Grown
  <2> QED BY <1>4, <2>1, <2>3, <2>4 DEF Does
<1>5. CASE op.kind = "register"
  <2>1. c = [chain EXCEPT !.machines = [chain.machines EXCEPT ![op.tee] = "registered"],
                          !.instrs = Issue("attest", op.tee)]
    BY <1>5 DEF Effect
  <2>2. [chain.machines EXCEPT ![op.tee] = "registered"] \in [Tees -> {"none", "registered", "production"}]
    BY <1>1
  <2> HIDE DEF c
  <2>3. Does(op, c)
    BY <1>4, <1>5, <2>1, <2>2
  <2> QED BY <2>3 DEF c
<1>6. CASE op.kind \in {"attest", "check"}
  <2>1. c = [chain EXCEPT !.instrs = Issue(op.kind, op.tee)]
    BY <1>6 DEF Effect
  <2>2. c = [chain EXCEPT !.machines = chain.machines, !.instrs = Issue(op.kind, op.tee)]
    BY <1>1, <2>1 DEF Chain
  <2> HIDE DEF c
  <2>3. Does(op, c)
    BY <1>1, <1>4, <1>6, <2>2
  <2> QED BY <2>3 DEF c
<1>7. CASE op.kind = "promote"
  <2>1. c = [chain EXCEPT !.machines = [chain.machines EXCEPT ![op.tee] = "production"]]
    BY <1>7 DEF Effect
  <2> HIDE DEF c
  <2>2. /\ c.machines = [chain.machines EXCEPT ![op.tee] = "production"]
        /\ c.versions = chain.versions /\ c.instrs = chain.instrs
    BY <1>1, <2>1 DEF Chain
  <2>3. c \in Chain
    BY <1>1, <2>1 DEF Chain
  <2>4. Grown(c)
    BY <2>2, <2>3 DEF Grown
  <2>5. Does(op, c)
    BY <1>1, <1>7, <2>2, <2>4 DEF Does
  <2> QED BY <2>5 DEF c
<1> HIDE DEF c
<1> QED BY <1>2, <1>3, <1>5, <1>6, <1>7 DEF Kinds

-----------------------------------------------------------------------------
(* The file and the tool.                                                  *)

(* Lemma.  What the chain grows into leaves the file and the tool right.   *)
LEMMA StaysGood ==
  ASSUME IInv, NEW c, Grown(c)
  PROVE  GoodFile(c, file) /\ GoodTool(c, proc)
<1>1. file.check \in Held /\ proc.check \in Held /\ proc.saved.check \in Held
  BY DEF Held
<1>2. GoodFile(chain, file) /\ GoodTool(chain, proc)
  BY DEF IInv
<1>3. ChecksOf(c, file, file.by # Several, file.by)
  BY <1>1, <1>2 DEF GoodFile, ChecksOf, Grown
<1>4. ChecksOf(c, proc.saved, proc.own, proc.tee) /\ WaitsForOwn(c, proc)
  BY <1>1, <1>2 DEF GoodTool, ChecksOf, WaitsForOwn, Grown
<1>5. AllowedOn(c, proc)
  BY <1>2 DEF GoodTool, AllowedOn, Grown
<1> QED BY <1>2, <1>3, <1>4, <1>5 DEF GoodFile, GoodTool

(* Lemma.  A file without steps is right.                                  *)
LEMMA NoStateGood ==
  ASSUME NEW c
  PROVE  /\ GoodFile(c, NoState) /\ GoodFile(c, Broken)
         /\ NoState \in State /\ Broken \in State /\ NoState.steps = {}
<1>1. NoState.steps = {} /\ NoState.by = 0 /\ NoState \in State
  BY DEF NoState, State, Ids, Machine, None
<1>2. Broken.steps = {} /\ Broken.by = 0 /\ Broken \in State
  BY <1>1 DEF Broken, State
<1> QED BY <1>1, <1>2 DEF GoodFile, ChecksOf

(* Lemma.  A tool that is not running is right.                            *)
LEMMA IdleGood ==
  ASSUME NEW c, NEW outcome \in {"none", "failed", "registered"}
  PROVE  GoodTool(c, Idle(outcome)) /\ Idle(outcome).outcome = outcome
<1> DEFINE p == Idle(outcome)
<1>1. /\ p.pc = "idle" /\ p.saved = NoState /\ p.outcome = outcome
      /\ p.own = TRUE /\ p.tee = 0
  BY DEF Idle
<1>2. p \in Tool
  BY NoStateGood DEF Idle, Tool, Places, Machine, None, Ids
<1> HIDE DEF p
<1>3. GoodTool(c, p)
  BY <1>1, <1>2, NoStateGood DEF GoodTool, ChecksOf, WaitsForOwn, AllowedOn
<1> QED BY <1>1, <1>3 DEF p

(* What a step leaves of the bounds: the faults grow with a transaction    *)
(* that is left.                                                           *)
Bounded ==
  \/ late' = late /\ faults' = faults
  \/ late' = late /\ Fault
  \/ late' \subseteq late /\ NoFault
  \/ \E op \in Transactions : late' = late \cup {op} /\ Fault

(* Lemma.  It keeps them.                                                  *)
LEMMA BoundedKeeps == IInv /\ Bounded => FewLate'
<1> SUFFICES ASSUME IInv, Bounded PROVE FewLate'
  OBVIOUS
<1> USE RegisterAssumption DEF IInv, FewLate, Fault, NoFault
<1>1. Cardinality(late) \in Nat
  BY FS_CardinalityType
<1>2. CASE late' = late /\ faults' = faults
  BY <1>2
<1>3. CASE late' = late /\ Fault
  BY <1>1, <1>3
<1>4. CASE late' \subseteq late /\ NoFault
  <2>1. IsFiniteSet(late') /\ Cardinality(late') <= Cardinality(late) /\ Cardinality(late') \in Nat
    BY <1>4, FS_Subset, FS_CardinalityType
  <2> QED BY <1>1, <1>4, <2>1
<1>5. ASSUME NEW op \in Transactions, late' = late \cup {op}, Fault
      PROVE  FewLate'
  <2>1. IsFiniteSet(late \cup {op}) /\ Cardinality(late \cup {op}) <= Cardinality(late) + 1
        /\ Cardinality(late \cup {op}) \in Nat
    <3>1. IsFiniteSet(late)
      OBVIOUS
    <3> DEFINE more == late \cup {op}
    <3>2. /\ IsFiniteSet(more)
          /\ Cardinality(more) = IF op \in late THEN Cardinality(late) ELSE Cardinality(late) + 1
      BY <3>1, FS_AddElement
    <3> QED BY <1>1, <3>2
  <2> QED BY <1>1, <1>5, <2>1
<1> QED BY <1>2, <1>3, <1>4, <1>5 DEF Bounded

(* Lemma.  A step keeps the invariant if the chain grows and the file and  *)
(* the tool are right for it.                                              *)
LEMMA StepKeeps ==
  ASSUME IInv, Bounded, served' \in Tees, Grown(chain'),
         GoodFile(chain', file'), GoodTool(chain', proc')
  PROVE  IInv'
<1>1. FewLate'
  BY BoundedKeeps
<1> QED BY <1>1 DEF IInv, Grown, Chain, Instr, GoodFile, GoodTool, ChecksOf, WaitsForOwn,
                   AllowedOn, State, Ids, Instrs, Machine, Images, Tool

(* Lemma.  A chain that stays has grown.                                   *)
LEMMA SameGrown == IInv => Grown(chain)
BY DEF IInv, Grown

(* Lemma.  saveState leaves the file and the tool right if the state is,   *)
(* and the tool with it.                                                   *)
LEMMA SaveGood ==
  ASSUME IInv, NEW c, GoodFile(c, file), proc.pc # "idle",
         NEW state \in State, ChecksOf(c, state, proc.own, proc.tee),
         NEW next, GoodTool(c, [next EXCEPT !.saved = state]), Save(state, next), late' = late
  PROVE  /\ GoodFile(c, file') /\ GoodTool(c, proc') /\ Bounded
         /\ proc' = [next EXCEPT !.saved = state] \/ proc' = Idle("failed")
<1> DEFINE saved == [state EXCEPT !.by = IF proc.own THEN proc.tee ELSE Several]
<1>1. /\ file' \in {saved, file, Broken}
      /\ proc' = [next EXCEPT !.saved = state] \/ proc' = Idle("failed")
      /\ NoFault \/ Fault
  BY DEF Save, Dies
<1>2. proc.tee \in Tees /\ proc.own \in BOOLEAN /\ proc.tee # 0 /\ proc.tee # Several
  <2>1. proc.tee \in Tees /\ proc.own \in BOOLEAN
    BY DEF IInv, GoodTool, Tool
  <2>2. \A t \in Tees : t \in Nat \ {0}
    <3>1. IsFiniteSet(Tees) \/ TRUE
      OBVIOUS
    <3>2. \E n : Tees = 1 .. n
      BY RegisterAssumption
    <3> QED BY <3>2
  <2> QED BY <2>1, <2>2 DEF Several
<1>3. GoodFile(c, saved)
  <2>1. saved \in State
    BY <1>2 DEF State, Machine
  <2>2. /\ saved.steps = state.steps /\ saved.check = state.check
        /\ saved.by = IF proc.own THEN proc.tee ELSE Several
    BY DEF State
  <2>3. saved.by # 0 /\ (saved.by # Several => proc.own /\ saved.by = proc.tee)
    BY <1>2, <2>2 DEF Several
  <2> HIDE DEF saved
  <2> QED BY <2>1, <2>2, <2>3 DEF GoodFile, ChecksOf
<1>4. GoodFile(c, file')
  BY <1>1, <1>3, NoStateGood
<1>5. GoodTool(c, proc')
  BY <1>1, IdleGood
<1>6. Bounded
  BY <1>1 DEF Bounded, NoFault
<1> QED BY <1>1, <1>4, <1>5, <1>6

-----------------------------------------------------------------------------
(* The transactions the tool sends, and its steps.                         *)

(* Lemma.  A tool that is running is for a TEE.                            *)
LEMMA RunsForTee ==
  IInv /\ proc.pc # "idle" => proc.tee \in Tees
BY DEF IInv, GoodTool

(* Lemma.  The transaction about to be sent.                               *)
LEMMA PendingIs ==
  ASSUME IInv, Sending
  PROVE  /\ Pending \in Transactions /\ Pending.kind = proc.pc
         /\ Pending.tee = IF At("promote") THEN chain.instrs[proc.check].tee ELSE proc.tee
         /\ Pending.version = IF At("version") THEN proc.version ELSE None
         /\ At("version") => proc.version \in Versions
         /\ proc.tee \in Tees
<1>1. proc \in Tool /\ proc.pc \in Kinds
  BY DEF IInv, GoodTool, Sending, At, Kinds
<1>2. proc.tee \in Tees
  BY DEF IInv, GoodTool, Sending, At
<1>3. At("version") => proc.version \in Versions
  BY DEF IInv, GoodTool, At
<1>4. /\ Pending.kind = proc.pc
      /\ Pending.tee = IF At("promote") THEN chain.instrs[proc.check].tee ELSE proc.tee
      /\ Pending.instr = IF At("check") THEN proc.attest ELSE None
      /\ Pending.version = IF At("version") THEN proc.version ELSE None
  BY DEF Pending, Op
<1>5. At("promote") => chain.instrs[proc.check].tee \in Machine
  BY DEF IInv, GoodTool, WaitsForOwn, At, Chain, Instr
<1>6. Pending.tee \in Machine /\ Pending.instr \in Ids /\ Pending.version \in Versions \cup {None}
  BY <1>1, <1>2, <1>3, <1>4, <1>5 DEF Tool, Machine, Ids
<1>7. Pending.kind = "version" => Pending.tee \in Tees
  BY <1>2, <1>4 DEF At
<1>8. Pending = [kind |-> Pending.kind, tee |-> Pending.tee, instr |-> Pending.instr,
                 version |-> Pending.version]
  BY DEF Pending, Op
<1>9. Pending \in Transactions
  BY <1>1, <1>4, <1>6, <1>7, <1>8 DEF Transactions
<1> QED BY <1>2, <1>3, <1>4, <1>9

(* Lemma.  What it did when the tool saw it mined.                         *)
LEMMA MinedDoes ==
  ASSUME IInv, Mined
  PROVE  Does(Pending, chain') /\ Grown(chain')
<1>1. Pending \in Transactions
  BY PendingIs DEF Mined
<1>2. Does(Pending, Effect(Pending))
  BY <1>1, EffectDoes DEF Mined
<1> QED BY <1>2 DEF Mined, Does

(* Lemma.  The tool moves on with what it knows to a place without claims. *)
LEMMA MoveGood ==
  ASSUME NEW c, GoodTool(c, proc), proc.tee \in Tees, NEW state \in State,
         ChecksOf(c, state, proc.own, proc.tee),
         NEW pc \in {"r", "register", "R", "attest", "a", "check"}, NEW attest \in Ids
  PROVE  GoodTool(c, [proc EXCEPT !.pc = pc, !.attest = attest, !.saved = state])
<1> DEFINE p == [proc EXCEPT !.pc = pc, !.attest = attest, !.saved = state]
<1>1. proc \in Tool
  BY DEF GoodTool
<1>2. p \in Tool
  BY <1>1 DEF Tool, Places
<1>3. p.pc = pc /\ p.saved = state /\ p.own = proc.own /\ p.tee = proc.tee
  BY <1>1 DEF Tool
<1> HIDE DEF p
<1>4. GoodTool(c, p)
  BY <1>2, <1>3 DEF GoodTool, WaitsForOwn, AllowedOn
<1> QED BY <1>4 DEF p

(* Lemma.  With r or R done the state's check is as it was.                *)
LEMMA WithGood ==
  ASSUME NEW c, GoodTool(c, proc), NEW letter \in {"r", "R"}, NEW attest \in Ids
  PROVE  /\ With(letter, attest) \in State
         /\ ChecksOf(c, With(letter, attest), proc.own, proc.tee)
<1> DEFINE s == With(letter, attest)
<1>1. proc.saved \in State /\ ChecksOf(c, proc.saved, proc.own, proc.tee)
  BY DEF GoodTool, Tool
<1>2. s \in State /\ s.check = proc.saved.check /\ s.steps = proc.saved.steps \cup {letter}
  BY <1>1 DEF With, State, Letters
<1> HIDE DEF s
<1>3. s \in State /\ ChecksOf(c, s, proc.own, proc.tee)
  BY <1>1, <1>2 DEF ChecksOf
<1> QED BY <1>3 DEF s

(* Lemma.  A step r or R that is saved.                                    *)
LEMMA StepSaved ==
  ASSUME IInv, Grown(chain'), proc.pc # "idle", UNCHANGED <<served, late>>,
         NEW letter \in {"r", "R"}, NEW attest \in Ids, NEW pc \in {"R", "a"},
         Save(With(letter, attest), [proc EXCEPT !.pc = pc, !.attest = attest])
  PROVE  IInv'
<1> DEFINE state == With(letter, attest)
           next == [proc EXCEPT !.pc = pc, !.attest = attest]
<1>1. GoodFile(chain', file) /\ GoodTool(chain', proc) /\ proc.tee \in Tees
  BY StaysGood, RunsForTee
<1>2. state \in State /\ ChecksOf(chain', state, proc.own, proc.tee)
  BY <1>1, WithGood
<1>3. Save(state, next)
  OBVIOUS
<1> HIDE DEF state
<1>4. [next EXCEPT !.saved = state] = [proc EXCEPT !.pc = pc, !.attest = attest, !.saved = state]
  BY <1>1 DEF GoodTool, Tool
<1>5. GoodTool(chain', [next EXCEPT !.saved = state])
  BY <1>1, <1>2, <1>4, MoveGood
<1> HIDE DEF next
<1>6. GoodFile(chain', file') /\ GoodTool(chain', proc') /\ Bounded
  BY <1>1, <1>2, <1>3, <1>5, SaveGood
<1>7. served' \in Tees
  BY DEF IInv
<1> QED BY <1>6, <1>7, StepKeeps

(* Lemma.  A step of which only the chain and the tool know.               *)
LEMMA ToolKeeps ==
  ASSUME IInv, Grown(chain'), UNCHANGED <<served, late, file>>, NoFault \/ Fault,
         GoodTool(chain', proc')
  PROVE  IInv'
<1>1. Bounded /\ served' \in Tees
  BY DEF Bounded, NoFault, IInv
<1>2. GoodFile(chain', file')
  BY StaysGood
<1> QED BY <1>1, <1>2, StepKeeps

(* Lemma.  The same when the chain stays.                                  *)
LEMMA QuietKeeps ==
  ASSUME IInv, UNCHANGED <<chain, served, late, file>>, NoFault \/ Fault, GoodTool(chain, proc')
  PROVE  IInv'
BY SameGrown, ToolKeeps

(* Lemma.  The tool moves on and knows nothing new.                        *)
LEMMA GotoGood ==
  ASSUME NEW c, GoodTool(c, proc), proc.tee \in Tees,
         NEW pc \in {"r", "register", "R", "attest", "a", "check"}
  PROVE  GoodTool(c, [proc EXCEPT !.pc = pc])
<1> DEFINE p == [proc EXCEPT !.pc = pc]
<1>1. proc \in Tool
  BY DEF GoodTool
<1>2. p \in Tool
  BY <1>1 DEF Tool, Places
<1>3. p.pc = pc /\ p.saved = proc.saved /\ p.own = proc.own /\ p.tee = proc.tee
  BY <1>1 DEF Tool
<1> HIDE DEF p
<1>4. GoodTool(c, p)
  BY <1>2, <1>3 DEF GoodTool, WaitsForOwn, AllowedOn
<1> QED BY <1>4 DEF p

(* Lemma.  Steps that stop the tool or leave the file and the chain alone. *)
LEMMA TxRevertsKeeps == IInv /\ TxReverts => IInv'
BY IdleGood, QuietKeeps DEF TxReverts, Dies

(* Lemma.  A tool that dies is idle.                                       *)
LEMMA CrashKeeps == IInv /\ Crash => IInv'
BY IdleGood, QuietKeeps DEF Crash, Dies

(* Lemma.  So is one whose polls are used up.                              *)
LEMMA PollsExhaustedKeeps == IInv /\ PollsExhausted => IInv'
BY IdleGood, QuietKeeps DEF PollsExhausted, Dies

(* Lemma.  The transaction the tool gives up on is left with one fault.    *)
LEMMA TxGivenUpKeeps == IInv /\ TxGivenUp => IInv'
<1> SUFFICES ASSUME IInv, TxGivenUp PROVE IInv'
  OBVIOUS
<1>1. Pending \in Transactions
  BY PendingIs DEF TxGivenUp
<1>2. Bounded /\ served' \in Tees
  BY <1>1 DEF TxGivenUp, Bounded, IInv
<1>3. chain' = chain /\ file' = file /\ proc' = Idle("failed")
  BY DEF TxGivenUp, Dies
<1> QED BY <1>2, <1>3, SameGrown, StaysGood, IdleGood, StepKeeps

(* Lemma.  post-build.sh reads what TEE there is.                          *)
LEMMA PostBuildKeeps ==
  ASSUME IInv, NEW version \in Versions, NEW command \in {Committed, Edited},
         PostBuild(version, command)
  PROVE  IInv'
<1> DEFINE p == [Idle("none") EXCEPT !.pc = "allow", !.tee = served, !.version = version,
                                     !.command = command]
<1>1. served \in Tees /\ command \in SUBSET Letters
  BY DEF IInv, Letters, Committed, Edited
<1>2. Idle("none") \in Tool /\ Idle("none").saved = NoState
  BY IdleGood DEF GoodTool, Idle
<1>3. p \in Tool /\ p.pc = "allow" /\ p.tee \in Tees /\ p.version \in Versions /\ p.saved = NoState
  BY <1>1, <1>2 DEF Tool, Places, Machine
<1>4. proc' = p
  BY DEF PostBuild
<1> HIDE DEF p
<1>5. GoodTool(chain, p)
  BY <1>3, NoStateGood DEF GoodTool, ChecksOf, WaitsForOwn, AllowedOn
<1> QED BY <1>4, <1>5, QuietKeeps DEF PostBuild

(* Lemma.  The tool goes on with an image that is supported, or first with *)
(* the transaction that makes it so.                                       *)
LEMMA AllowGood ==
  ASSUME NEW c, GoodTool(c, proc), proc.tee \in Tees, NEW pc \in {"allowed", "version"},
         pc = "allowed" => \E v \in Versions : c.versions[v] = ImageOf[proc.tee],
         pc = "version" => proc.version \in Versions
  PROVE  GoodTool(c, [proc EXCEPT !.pc = pc])
<1> DEFINE p == [proc EXCEPT !.pc = pc]
<1>1. proc \in Tool
  BY DEF GoodTool
<1>2. p \in Tool
  BY <1>1 DEF Tool, Places
<1>3. /\ p.pc = pc /\ p.saved = proc.saved /\ p.own = proc.own /\ p.tee = proc.tee
      /\ p.version = proc.version
  BY <1>1 DEF Tool
<1> HIDE DEF p
<1>4. GoodTool(c, p)
  BY <1>2, <1>3 DEF GoodTool, WaitsForOwn, AllowedOn
<1> QED BY <1>4 DEF p

(* Lemma.  allow-tee-version looks the version up.                         *)
LEMMA AllowTeeVersionKeeps == IInv /\ AllowTeeVersion => IInv'
<1> SUFFICES ASSUME IInv, AllowTeeVersion PROVE IInv'
  OBVIOUS
<1>1. GoodTool(chain, proc) /\ proc.tee \in Tees /\ proc.version \in Versions
  BY RunsForTee DEF AllowTeeVersion, At, IInv, GoodTool
<1>2. proc' = [proc EXCEPT !.pc = IF Supported(proc.tee) THEN "allowed" ELSE "version"]
  BY DEF AllowTeeVersion, Goto
<1>3. CASE Supported(proc.tee)
  <2>1. GoodTool(chain, [proc EXCEPT !.pc = "allowed"])
    BY <1>1, <1>3, AllowGood DEF Supported
  <2> QED BY <1>2, <1>3, <2>1, QuietKeeps DEF AllowTeeVersion
<1>4. CASE ~Supported(proc.tee)
  <2>1. GoodTool(chain, [proc EXCEPT !.pc = "version"])
    BY <1>1, AllowGood
  <2> QED BY <1>2, <1>4, <2>1, QuietKeeps DEF AllowTeeVersion
<1> QED BY <1>3, <1>4

(* Lemma.  It adds the version.                                            *)
LEMMA AddTeeVersionKeeps == IInv /\ AddTeeVersion => IInv'
<1> SUFFICES ASSUME IInv, AddTeeVersion PROVE IInv'
  OBVIOUS
<1>1. Mined /\ Sending /\ At("version") /\ ~At("promote") /\ proc' = [proc EXCEPT !.pc = "allowed"]
  BY DEF AddTeeVersion, Mined, At, Goto
<1>2. Does(Pending, chain') /\ Grown(chain')
  BY <1>1, MinedDoes
<1>3. /\ Pending.kind = "version" /\ Pending.tee = proc.tee /\ Pending.version = proc.version
      /\ proc.tee \in Tees /\ proc.version \in Versions
  BY <1>1, PendingIs DEF At
<1>4. chain'.versions[proc.version] = ImageOf[proc.tee]
  BY <1>2, <1>3 DEF Does
<1>5. GoodTool(chain', proc)
  BY <1>2, StaysGood
<1>6. GoodTool(chain', [proc EXCEPT !.pc = "allowed"])
  BY <1>3, <1>4, <1>5, AllowGood
<1> QED BY <1>1, <1>2, <1>6, ToolKeeps DEF AddTeeVersion

(* Lemma.  Or finds it there.                                              *)
LEMMA VersionAlreadyExistsKeeps == IInv /\ VersionAlreadyExists => IInv'
<1> SUFFICES ASSUME IInv, VersionAlreadyExists PROVE IInv'
  OBVIOUS
<1>1. GoodTool(chain, proc) /\ proc.tee \in Tees
  BY RunsForTee DEF VersionAlreadyExists, At, IInv
<1>2. CASE Supported(proc.tee)
  <2>1. GoodTool(chain, [proc EXCEPT !.pc = "allowed"])
    BY <1>1, <1>2, AllowGood DEF Supported
  <2> QED BY <1>2, <2>1, QuietKeeps DEF VersionAlreadyExists, Goto
<1>3. CASE ~Supported(proc.tee)
  BY <1>3, IdleGood, QuietKeeps DEF VersionAlreadyExists, Dies
<1> QED BY <1>2, <1>3

(* Lemma.  register-tee starts: of a file that only runs for the TEE that  *)
(* is now served have saved, the check is of that TEE.                     *)
LEMMA BeginKeeps ==
  ASSUME IInv, NEW command \in SUBSET Letters, NEW resume \in BOOLEAN, Begin(command, resume)
  PROVE  IInv'
<1>1. PICK kept \in BOOLEAN :
        LET f == IF resume \/ kept THEN file ELSE NoState IN
        /\ IF kept THEN ~resume /\ Fault ELSE NoFault
        /\ file' = f
        /\ proc' = IF f.broken THEN Idle("failed")
                   ELSE [Idle("none") EXCEPT !.pc = "r", !.tee = served, !.command = command,
                                             !.resume = resume, !.saved = f,
                                             !.own = f.by \in {0, served}]
        /\ UNCHANGED <<chain, served, late>>
  BY DEF Begin
<1> DEFINE f == IF resume \/ kept THEN file ELSE NoState
           own == f.by \in {0, served}
           p == [Idle("none") EXCEPT !.pc = "r", !.tee = served, !.command = command,
                                     !.resume = resume, !.saved = f, !.own = own]
<1>2. file' = f /\ chain' = chain /\ served' = served /\ late' = late /\ (Fault \/ NoFault)
  BY <1>1
<1>3. proc' = Idle("failed") \/ proc' = p
  BY <1>1
<1>4. GoodFile(chain, f)
  BY NoStateGood DEF IInv
<1> HIDE DEF f
<1>5. own \in BOOLEAN
  OBVIOUS
<1>6. served \in Tees
  BY DEF IInv
<1>7. own => f.by = 0 \/ (f.by = served /\ f.by # Several)
  <2>1. served # Several
    <3>1. \E n : Tees = 1 .. n
      BY RegisterAssumption
    <3> QED BY <1>6, <3>1 DEF Several
  <2> QED BY <2>1
<1>8. own => ("a" \in f.steps => f.by = served /\ f.by # Several)
  BY <1>4, <1>7 DEF GoodFile
<1> HIDE DEF own
<1>9. Idle("none") \in Tool
  BY IdleGood DEF GoodTool
<1>10. /\ p \in Tool /\ p.pc = "r" /\ p.tee = served /\ p.saved = f /\ p.own = own
  BY <1>4, <1>5, <1>6, <1>9 DEF Tool, Places, Machine, GoodFile
<1> HIDE DEF p
<1>11. GoodTool(chain, p)
  BY <1>4, <1>6, <1>8, <1>10 DEF GoodTool, GoodFile, ChecksOf, WaitsForOwn, AllowedOn
<1>12. GoodTool(chain, proc')
  BY <1>3, <1>11, IdleGood
<1>13. Bounded
  BY <1>2 DEF Bounded, NoFault
<1> QED BY <1>2, <1>4, <1>6, <1>12, <1>13, SameGrown, StepKeeps

(* Lemma.  Steps r and R, skipped or done.                                 *)
LEMMA SkipPreRegistrationKeeps == IInv /\ SkipPreRegistration => IInv'
<1> SUFFICES ASSUME IInv, SkipPreRegistration PROVE IInv'
  OBVIOUS
<1>1. GoodTool(chain, proc) /\ proc.tee \in Tees /\ proc.pc # "idle" /\ proc \in Tool
  BY RunsForTee DEF SkipPreRegistration, At, IInv, GoodTool
<1>2. proc.saved \in State /\ ChecksOf(chain, proc.saved, proc.own, proc.tee)
  BY <1>1 DEF GoodTool, Tool
<1>3. ASSUME proc' = [proc EXCEPT !.pc = "R",
                                  !.attest = IF Asked("r") THEN proc.saved.attest ELSE None],
             NoFault, UNCHANGED file
      PROVE  IInv'
  <2> DEFINE attest == IF Asked("r") THEN proc.saved.attest ELSE None
  <2>1. attest \in Ids
    BY <1>2 DEF State, Ids
  <2>2. proc' = [proc EXCEPT !.pc = "R", !.attest = attest]
    BY <1>3
  <2> HIDE DEF attest
  <2>3. [proc EXCEPT !.pc = "R", !.attest = attest]
          = [proc EXCEPT !.pc = "R", !.attest = attest, !.saved = proc.saved]
    BY <1>1 DEF Tool
  <2>4. GoodTool(chain, proc')
    BY <1>1, <1>2, <2>1, <2>2, <2>3, MoveGood
  <2> QED BY <1>3, <2>4, QuietKeeps DEF SkipPreRegistration
<1>4. ASSUME Save(With("r", None), [proc EXCEPT !.pc = "R", !.attest = None])
      PROVE  IInv'
  <2>1. None \in Ids /\ chain' = chain /\ served' = served /\ late' = late
    BY DEF Ids, SkipPreRegistration
  <2>2. Grown(chain')
    BY <2>1, SameGrown
  <2> QED BY <1>1, <1>4, <2>1, <2>2, StepSaved
<1> QED BY <1>3, <1>4 DEF SkipPreRegistration

(* Lemma.  register-tee finds that it has to pre-register.                 *)
LEMMA NeedsPreRegistrationKeeps == IInv /\ NeedsPreRegistration => IInv'
<1> SUFFICES ASSUME IInv, NeedsPreRegistration PROVE IInv'
  OBVIOUS
<1>1. GoodTool(chain, proc) /\ proc.tee \in Tees
  BY RunsForTee DEF NeedsPreRegistration, At, IInv
<1>2. GoodTool(chain, [proc EXCEPT !.pc = "register"])
  BY <1>1, GotoGood
<1> QED BY <1>2, QuietKeeps DEF NeedsPreRegistration, Goto

(* Lemma.  Its pre-registration is mined.                                  *)
LEMMA PreRegistrationKeeps == IInv /\ PreRegistration => IInv'
<1> SUFFICES ASSUME IInv, PreRegistration PROVE IInv'
  OBVIOUS
<1>1. Grown(chain') /\ proc.pc # "idle" /\ NewInstr \in Ids
  BY MinedDoes, FreeInstr DEF PreRegistration, At, Ids
<1> QED BY <1>1, StepSaved DEF PreRegistration

(* Lemma.  Its attestation request is mined.                               *)
LEMMA RequestTeeAttestationKeeps == IInv /\ RequestTeeAttestation => IInv'
<1> SUFFICES ASSUME IInv, RequestTeeAttestation PROVE IInv'
  OBVIOUS
<1>1. Grown(chain') /\ proc.pc # "idle" /\ NewInstr \in Ids
  BY MinedDoes, FreeInstr DEF RequestTeeAttestation, At, Ids
<1> QED BY <1>1, StepSaved DEF RequestTeeAttestation

(* Lemma.  It takes up a saved attestation, or asks for one.               *)
LEMMA DecideAttestationKeeps == IInv /\ DecideAttestation => IInv'
<1> SUFFICES ASSUME IInv, DecideAttestation PROVE IInv'
  OBVIOUS
<1>1. GoodTool(chain, proc) /\ proc.tee \in Tees /\ proc \in Tool
  BY RunsForTee DEF DecideAttestation, At, IInv, GoodTool
<1>2. proc.saved \in State /\ ChecksOf(chain, proc.saved, proc.own, proc.tee)
  BY <1>1 DEF GoodTool, Tool
<1>3. CASE Asked("R") /\ ~Done("R")
  <2>1. GoodTool(chain, [proc EXCEPT !.pc = "attest"])
    BY <1>1, GotoGood
  <2> QED BY <1>3, <2>1, QuietKeeps DEF DecideAttestation
<1>4. CASE ~(Asked("R") /\ ~Done("R"))
  <2> DEFINE attest == IF Asked("R") THEN proc.saved.attest ELSE proc.attest
  <2>1. attest \in Ids
    BY <1>1, <1>2 DEF State, Tool
  <2>2. proc' = [proc EXCEPT !.pc = "a", !.attest = attest]
    BY <1>1, <1>4 DEF DecideAttestation, Tool
  <2> HIDE DEF attest
  <2>3. [proc EXCEPT !.pc = "a", !.attest = attest]
          = [proc EXCEPT !.pc = "a", !.attest = attest, !.saved = proc.saved]
    BY <1>1 DEF Tool
  <2>4. GoodTool(chain, proc')
    BY <1>1, <1>2, <2>1, <2>2, <2>3, MoveGood
  <2> QED BY <2>4, QuietKeeps DEF DecideAttestation
<1> QED BY <1>3, <1>4

(* Lemma.  A tool that waits for a check of its own TEE.                   *)
LEMMA WaitGood ==
  ASSUME NEW c, GoodTool(c, proc), proc.tee \in Tees, NEW state \in State,
         NEW check \in Instrs, proc.own /\ "a" \in proc.command => c.instrs[check].tee = proc.tee,
         ChecksOf(c, state, proc.own, proc.tee), NEW pc \in {"p", "promote"}
  PROVE  GoodTool(c, [proc EXCEPT !.pc = pc, !.check = check, !.saved = state])
<1> DEFINE p == [proc EXCEPT !.pc = pc, !.check = check, !.saved = state]
<1>1. proc \in Tool
  BY DEF GoodTool
<1>2. p \in Tool
  BY <1>1 DEF Tool, Places, Ids
<1>3. /\ p.pc = pc /\ p.saved = state /\ p.own = proc.own /\ p.tee = proc.tee /\ p.check = check
      /\ p.command = proc.command
  BY <1>1 DEF Tool
<1> HIDE DEF p
<1>4. GoodTool(c, p)
  BY <1>2, <1>3 DEF GoodTool, WaitsForOwn, AllowedOn
<1> QED BY <1>4 DEF p

(* Lemma.  Step a: the check of the file, or a new one.                    *)
LEMMA DecideAvailabilityCheckKeeps == IInv /\ DecideAvailabilityCheck => IInv'
<1> SUFFICES ASSUME IInv, DecideAvailabilityCheck PROVE IInv'
  OBVIOUS
<1>1. GoodTool(chain, proc) /\ proc.tee \in Tees /\ proc \in Tool
  BY RunsForTee DEF DecideAvailabilityCheck, At, IInv, GoodTool
<1>2. proc.saved \in State /\ ChecksOf(chain, proc.saved, proc.own, proc.tee)
  BY <1>1 DEF GoodTool, Tool
<1>3. CASE Done("a")
  <2>1. /\ proc.saved.check \in Instrs
        /\ proc.own => chain.instrs[proc.saved.check].tee = proc.tee
    BY <1>2, <1>3 DEF ChecksOf, Done
  <2>2. proc' = [proc EXCEPT !.pc = "p", !.check = proc.saved.check]
    BY <1>3 DEF DecideAvailabilityCheck
  <2>3. [proc EXCEPT !.pc = "p", !.check = proc.saved.check]
          = [proc EXCEPT !.pc = "p", !.check = proc.saved.check, !.saved = proc.saved]
    BY <1>1 DEF Tool
  <2>4. GoodTool(chain, proc')
    BY <1>1, <1>2, <2>1, <2>2, <2>3, WaitGood
  <2> QED BY <2>4, QuietKeeps DEF DecideAvailabilityCheck
<1>4. CASE ~Done("a")
  <2>1. GoodTool(chain, [proc EXCEPT !.pc = "check"])
    BY <1>1, GotoGood
  <2> QED BY <1>4, <2>1, QuietKeeps DEF DecideAvailabilityCheck
<1> QED BY <1>3, <1>4

(* Lemma.  Or the instruction it was given, whoever's that is.             *)
LEMMA GivenInstructionKeeps == IInv /\ GivenInstruction => IInv'
<1> SUFFICES ASSUME IInv, GivenInstruction PROVE IInv'
  OBVIOUS
<1>1. PICK i \in Instrs : proc' = [proc EXCEPT !.pc = "p", !.check = i]
  BY DEF GivenInstruction
<1>2. GoodTool(chain, proc) /\ proc.tee \in Tees /\ proc \in Tool /\ "a" \notin proc.command
  BY RunsForTee DEF GivenInstruction, Asked, At, IInv, GoodTool
<1>3. proc.saved \in State /\ ChecksOf(chain, proc.saved, proc.own, proc.tee)
  BY <1>2 DEF GoodTool, Tool
<1>4. proc' = [proc EXCEPT !.pc = "p", !.check = i, !.saved = proc.saved]
  BY <1>1, <1>2 DEF Tool
<1>5. GoodTool(chain, proc')
  BY <1>2, <1>3, <1>4, WaitGood
<1> QED BY <1>5, QuietKeeps DEF GivenInstruction

(* Lemma.  Its availability check is mined.                                *)
LEMMA RequestFTDCAvailabilityCheckKeeps == IInv /\ RequestFTDCAvailabilityCheck => IInv'
<1> SUFFICES ASSUME IInv, RequestFTDCAvailabilityCheck PROVE IInv'
  OBVIOUS
<1> DEFINE state == [proc.saved EXCEPT !.steps = @ \cup {"a"}, !.check = NewInstr]
           next == [proc EXCEPT !.pc = "p", !.check = NewInstr]
<1>1. /\ Mined /\ Sending /\ At("check") /\ ~At("promote") /\ proc.pc # "idle"
      /\ Save(state, next) /\ served' = served /\ late' = late
  BY DEF RequestFTDCAvailabilityCheck, Mined, At
<1>2. Does(Pending, chain') /\ Grown(chain') /\ NewInstr \in Instrs
  BY <1>1, MinedDoes, FreeInstr
<1>3. Pending.kind = "check" /\ Pending.tee = proc.tee /\ proc.tee \in Tees
  BY <1>1, PendingIs DEF At
<1>4. chain'.instrs[NewInstr].tee = proc.tee
  BY <1>2, <1>3 DEF Does
<1>5. GoodTool(chain', proc) /\ GoodFile(chain', file)
  BY <1>2, StaysGood
<1>6. proc \in Tool /\ proc.saved \in State
  BY <1>5 DEF GoodTool, Tool
<1>7. state \in State /\ state.check = NewInstr
  BY <1>2, <1>6 DEF State, Letters, Ids
<1> HIDE DEF state
<1>8. ChecksOf(chain', state, proc.own, proc.tee)
  BY <1>2, <1>4, <1>7 DEF ChecksOf
<1>9. [next EXCEPT !.saved = state] = [proc EXCEPT !.pc = "p", !.check = NewInstr, !.saved = state]
  BY <1>6 DEF Tool
<1>10. GoodTool(chain', [next EXCEPT !.saved = state])
  BY <1>2, <1>3, <1>4, <1>5, <1>7, <1>8, <1>9, WaitGood
<1> HIDE DEF next
<1>11. GoodFile(chain', file') /\ GoodTool(chain', proc') /\ Bounded
  BY <1>1, <1>5, <1>7, <1>8, <1>10, SaveGood
<1>12. served' \in Tees
  BY <1>1 DEF IInv
<1> QED BY <1>2, <1>11, <1>12, StepKeeps

(* Lemma.  Step p.                                                         *)
LEMMA GetResultKeeps == IInv /\ GetFTDCAvailabilityCheckResult => IInv'
<1> SUFFICES ASSUME IInv, GetFTDCAvailabilityCheckResult PROVE IInv'
  OBVIOUS
<1>1. GoodTool(chain, proc) /\ proc.tee \in Tees /\ proc \in Tool /\ proc.pc = "p"
  BY RunsForTee DEF GetFTDCAvailabilityCheckResult, At, IInv, GoodTool
<1>2. /\ proc.saved \in State /\ ChecksOf(chain, proc.saved, proc.own, proc.tee)
      /\ proc.check \in Instrs
      /\ proc.own /\ "a" \in proc.command => chain.instrs[proc.check].tee = proc.tee
  BY <1>1 DEF GoodTool, Tool, WaitsForOwn
<1>3. proc' = [proc EXCEPT !.pc = "promote", !.check = proc.check, !.saved = proc.saved]
  BY <1>1 DEF GetFTDCAvailabilityCheckResult, Goto, Tool
<1>4. GoodTool(chain, proc')
  BY <1>1, <1>2, <1>3, WaitGood
<1> QED BY <1>4, QuietKeeps DEF GetFTDCAvailabilityCheckResult

(* Lemma.  It ends well: its last transaction is mined, or it was asked    *)
(* for none.                                                               *)
LEMMA SucceedKeeps ==
  ASSUME IInv, Succeed, Grown(chain')
  PROVE  IInv'
<1> DEFINE p == [Idle("registered") EXCEPT !.tee = proc.tee, !.own = proc.own]
<1>1. /\ proc' = p /\ served' = served /\ late' = late
      /\ \/ file' = NoState /\ NoFault
         \/ file' = file /\ Fault
  BY DEF Succeed
<1>2. GoodFile(chain', file) /\ proc \in Tool
  BY StaysGood DEF GoodTool
<1>3. GoodFile(chain', file') /\ Bounded /\ served' \in Tees
  BY <1>1, <1>2, NoStateGood DEF Bounded, NoFault, IInv
<1>4. Idle("registered") \in Tool /\ Idle("registered").saved = NoState /\ Idle("registered").pc = "idle"
  BY IdleGood DEF GoodTool, Idle
<1>5. p \in Tool /\ p.saved = NoState /\ p.pc = "idle"
  BY <1>2, <1>4 DEF Tool
<1> HIDE DEF p
<1>6. GoodTool(chain', p)
  BY <1>5, NoStateGood DEF GoodTool, ChecksOf, WaitsForOwn, AllowedOn
<1> QED BY <1>1, <1>3, <1>6, StepKeeps

(* Lemma.  With p, and without.                                            *)
LEMMA ToProductionKeeps == IInv /\ (ToProduction \/ NoProduction) => IInv'
<1>1. IInv /\ ToProduction => IInv'
  BY MinedDoes, SucceedKeeps DEF ToProduction
<1>2. IInv /\ NoProduction => IInv'
  BY SameGrown, SucceedKeeps DEF NoProduction
<1> QED BY <1>1, <1>2

-----------------------------------------------------------------------------
(* What happens around the tools.                                          *)

(* Lemma.  Late transactions, the FTDC TEE's answers and time.             *)
LEMMA AroundKeeps ==
  ASSUME IInv, Grown(chain'), UNCHANGED <<file, proc>>, Bounded, served' \in Tees
  PROVE  IInv'
BY StaysGood, StepKeeps

(* Lemma.  What was given up on is mined late, or dropped.                 *)
LEMMA LateKeeps ==
  ASSUME IInv, NEW op \in late, MineLate(op) \/ DropLate(op)
  PROVE  IInv'
<1>1. op \in Transactions
  BY DEF IInv, FewLate
<1>2. Accepts(op) => Grown(Effect(op))
  BY <1>1, EffectDoes DEF Does
<1>3. chain' \in {chain, Effect(op)} /\ (chain' # chain => Accepts(op))
  BY DEF MineLate, DropLate
<1>4. Grown(chain')
  BY <1>2, <1>3, SameGrown
<1>5. UNCHANGED <<file, proc>> /\ Bounded /\ served' \in Tees
  BY DEF MineLate, DropLate, Bounded, NoFault, IInv
<1> QED BY <1>4, <1>5, AroundKeeps

(* Lemma.  The proxy has an answer, or has it no longer.                   *)
LEMMA ReadyKeeps ==
  ASSUME IInv, NEW i \in Instrs, Answer(i) \/ Expire(i)
  PROVE  IInv'
<1>1. chain \in Chain /\ chain.instrs \in [Instrs -> Instr]
  BY DEF IInv, Chain
<1>2. PICK ready \in BOOLEAN : chain' = [chain EXCEPT !.instrs[i].ready = ready]
  BY DEF Answer, Expire
<1> DEFINE entry == [chain.instrs[i] EXCEPT !.ready = ready]
           instrs == [chain.instrs EXCEPT ![i] = entry]
<1>3. entry \in Instr /\ entry.tee = chain.instrs[i].tee
  BY <1>1 DEF Instr
<1>4. chain' = [chain EXCEPT !.instrs = instrs]
  BY <1>2
<1> HIDE DEF entry
<1>5. instrs \in [Instrs -> Instr] /\ \A j \in Instrs : instrs[j].tee = chain.instrs[j].tee
  BY <1>1, <1>3
<1> HIDE DEF instrs
<1>6. chain' \in Chain /\ chain'.instrs = instrs /\ chain'.versions = chain.versions
  BY <1>1, <1>4, <1>5 DEF Chain
<1>7. Grown(chain')
  BY <1>5, <1>6 DEF Grown
<1>8. UNCHANGED <<file, proc>> /\ Bounded /\ served' \in Tees
  BY DEF Answer, Expire, Bounded, NoFault, IInv
<1> QED BY <1>7, <1>8, AroundKeeps

(* Lemma.  A TEE restarts.                                                 *)
LEMMA RestartTeeKeeps == IInv /\ RestartTee => IInv'
<1> SUFFICES ASSUME IInv, RestartTee PROVE IInv'
  OBVIOUS
<1>1. UNCHANGED <<chain, file, proc>> /\ Bounded /\ served' \in Tees
  BY DEF RestartTee, Bounded
<1> QED BY <1>1, SameGrown, AroundKeeps

-----------------------------------------------------------------------------
(* The theorems.                                                           *)

(* Lemma.  The first state satisfies the invariant.                        *)
LEMMA InitInv == Init => IInv
<1> SUFFICES ASSUME Init PROVE IInv
  OBVIOUS
<1>1. chain \in Chain
  <2>1. Unused \in Instr
    BY DEF Unused, Instr, Machine
  <2> QED BY <2>1 DEF Init, Chain
<1>2. served \in Tees
  BY RegisterAssumption DEF Init
<1>3. FewLate
  BY RegisterAssumption, FS_EmptySet DEF Init, FewLate
<1> QED BY <1>1, <1>2, <1>3, NoStateGood, IdleGood DEF Init, IInv

(* Lemma.  Every step keeps it.                                            *)
LEMMA StepInv == IInv /\ [Next]_vars => IInv'
<1> SUFFICES ASSUME IInv, [Next]_vars PROVE IInv'
  OBVIOUS
<1>1. CASE ToolStep
  <2>1. CASE RegisterTee
    <3>1. proc.command \in SUBSET Letters
      BY DEF IInv, GoodTool, Tool
    <3> QED BY <2>1, <3>1, BeginKeeps DEF RegisterTee
  <2> QED BY <1>1, <2>1, AllowTeeVersionKeeps, AddTeeVersionKeeps, VersionAlreadyExistsKeeps,
             SkipPreRegistrationKeeps, NeedsPreRegistrationKeeps, PreRegistrationKeeps,
             DecideAttestationKeeps, RequestTeeAttestationKeeps, DecideAvailabilityCheckKeeps,
             RequestFTDCAvailabilityCheckKeeps, GivenInstructionKeeps, GetResultKeeps,
             PollsExhaustedKeeps,
             ToProductionKeeps, TxRevertsKeeps DEF ToolStep
<1>2. CASE TxGivenUp \/ Crash \/ RestartTee
  BY <1>2, TxGivenUpKeeps, CrashKeeps, RestartTeeKeeps
<1>3. ASSUME NEW v \in Versions, NEW c \in {Committed, Edited}, PostBuild(v, c)
      PROVE  IInv'
  BY <1>3, PostBuildKeeps
<1>4. ASSUME NEW c \in Commands, NEW resume \in BOOLEAN, Manual(c, resume)
      PROVE  IInv'
  <2>1. c \in SUBSET Letters
    BY RegisterAssumption DEF Letters
  <2> QED BY <1>4, <2>1, BeginKeeps DEF Manual
<1>5. ASSUME NEW op \in late, MineLate(op) \/ DropLate(op)
      PROVE  IInv'
  BY <1>5, LateKeeps
<1>6. ASSUME NEW i \in Instrs, Answer(i) \/ Expire(i)
      PROVE  IInv'
  BY <1>6, ReadyKeeps
<1>7. CASE UNCHANGED vars
  <2>1. UNCHANGED <<chain, served, late, file, proc, faults>>
    BY <1>7 DEF vars
  <2>2. Bounded /\ served' \in Tees
    BY <2>1 DEF Bounded, IInv
  <2> QED BY <2>1, <2>2, SameGrown, AroundKeeps
<1> QED BY <1>1, <1>2, <1>3, <1>4, <1>5, <1>6, <1>7 DEF Next

(* Theorem.  Registration satisfies the inductive invariant at all times.  *)
THEOREM RegisterInvariant == Spec => []IInv
<1> QED BY InitInv, StepInv, PTL DEF Spec

(* Theorem.  The chain, the state file and the tool stay well-formed.      *)
THEOREM RegisterTypes == Spec => []TypeOK
<1>1. IInv => TypeOK
  <2> SUFFICES ASSUME IInv PROVE TypeOK
    OBVIOUS
  <2>1. /\ chain.machines \in [Tees -> {"none", "registered", "production"}]
        /\ chain.versions \in [Versions -> Images \cup {None}]
        /\ chain.instrs \in [Instrs -> Instr]
    BY DEF IInv, Chain
  <2>2. chain.instrs \in [Instrs -> [kind : {"none", "attest", "check"}, tee : Tees \cup {0},
                                     ready : BOOLEAN]]
    BY <2>1 DEF Instr, Machine
  <2>3. proc.check \in Instrs \/ proc.pc \notin {"p", "promote"}
    BY DEF IInv, GoodTool, WaitsForOwn
  <2>4. {file.attest, file.check, proc.attest} \subseteq Instrs \cup {None}
    BY DEF IInv, GoodFile, GoodTool, State, Tool, Ids
  <2> QED BY <2>1, <2>2, <2>3, <2>4 DEF TypeOK, IInv, FewLate
<1> QED BY <1>1, RegisterInvariant, PTL

(* Theorem.  When allow-tee-version reports success, the image it read is  *)
(* supported: a colliding version name is not mistaken for it, and nothing *)
(* that is mined late takes the support away.                              *)
THEOREM RegisterAllowedIsSupported == Spec => []AllowedIsSupported
<1>1. IInv => AllowedIsSupported
  BY DEF IInv, GoodTool, AllowedOn, AllowedIsSupported, At, Supported
<1> QED BY <1>1, RegisterInvariant, PTL

(* Lemma.  A registration reports success in its last step only.           *)
LEMMA OnlyToProduction ==
  ASSUME IInv, [Next]_vars, Registered
  PROVE  ToProduction
<1>1. proc \in Tool /\ proc.outcome # "registered" /\ proc'.outcome = "registered"
  BY DEF IInv, GoodTool, Registered
<1>2. /\ proc' # Idle("failed") /\ proc' # proc
      /\ \A pc : proc' # [proc EXCEPT !.pc = pc]
      /\ \A pc, attest : proc' # [proc EXCEPT !.pc = pc, !.attest = attest]
      /\ \A pc, check : proc' # [proc EXCEPT !.pc = pc, !.check = check]
      /\ \A pc, attest, saved : proc' # [[proc EXCEPT !.pc = pc, !.attest = attest] EXCEPT !.saved = saved]
      /\ \A pc, check, saved : proc' # [[proc EXCEPT !.pc = pc, !.check = check] EXCEPT !.saved = saved]
  <2>1. Idle("failed").outcome = "failed"
    BY DEF Idle
  <2>2. proc' # Idle("failed") /\ proc' # proc
    BY <1>1, <2>1
  <2>3. ASSUME NEW pc
        PROVE  proc' # [proc EXCEPT !.pc = pc]
    <3>1. [proc EXCEPT !.pc = pc].outcome = proc.outcome
      BY <1>1 DEF Tool
    <3> QED BY <1>1, <3>1
  <2>4. ASSUME NEW pc, NEW attest
        PROVE  proc' # [proc EXCEPT !.pc = pc, !.attest = attest]
    <3>1. [proc EXCEPT !.pc = pc, !.attest = attest].outcome = proc.outcome
      BY <1>1 DEF Tool
    <3> QED BY <1>1, <3>1
  <2>5. ASSUME NEW pc, NEW check
        PROVE  proc' # [proc EXCEPT !.pc = pc, !.check = check]
    <3>1. [proc EXCEPT !.pc = pc, !.check = check].outcome = proc.outcome
      BY <1>1 DEF Tool
    <3> QED BY <1>1, <3>1
  <2>6. ASSUME NEW pc, NEW attest, NEW saved
        PROVE  proc' # [[proc EXCEPT !.pc = pc, !.attest = attest] EXCEPT !.saved = saved]
    <3>1. [[proc EXCEPT !.pc = pc, !.attest = attest] EXCEPT !.saved = saved].outcome = proc.outcome
      BY <1>1 DEF Tool
    <3> QED BY <1>1, <3>1
  <2>7. ASSUME NEW pc, NEW check, NEW saved
        PROVE  proc' # [[proc EXCEPT !.pc = pc, !.check = check] EXCEPT !.saved = saved]
    <3>1. [[proc EXCEPT !.pc = pc, !.check = check] EXCEPT !.saved = saved].outcome = proc.outcome
      BY <1>1 DEF Tool
    <3> QED BY <1>1, <3>1
  <2> QED BY <2>2, <2>3, <2>4, <2>5, <2>6, <2>7
<1>3. ASSUME NEW command, NEW resume, Begin(command, resume)
      PROVE  FALSE
  <2>1. proc' = Idle("failed") \/ \E saved, own :
          proc' = [Idle("none") EXCEPT !.pc = "r", !.tee = served, !.command = command,
                                       !.resume = resume, !.saved = saved, !.own = own]
    BY <1>3 DEF Begin
  <2> QED BY <1>1, <1>2, <2>1 DEF Idle
<1>4. ASSUME NEW v, NEW c, PostBuild(v, c)
      PROVE  FALSE
  BY <1>1, <1>4 DEF PostBuild, Idle
<1>5. ASSUME NEW state, NEW pc, NEW attest, Save(state, [proc EXCEPT !.pc = pc, !.attest = attest])
      PROVE  FALSE
  BY <1>2, <1>5 DEF Save, Dies
<1>6. ASSUME NEW state, NEW pc, NEW check, Save(state, [proc EXCEPT !.pc = pc, !.check = check])
      PROVE  FALSE
  BY <1>2, <1>6 DEF Save, Dies
<1>7. ~(TxReverts \/ TxGivenUp \/ Crash \/ RestartTee \/ PollsExhausted \/ UNCHANGED vars)
  BY <1>2 DEF TxReverts, TxGivenUp, Crash, RestartTee, PollsExhausted, Dies, vars
<1>8. ~(AllowTeeVersion \/ AddTeeVersion \/ VersionAlreadyExists \/ NeedsPreRegistration
          \/ GetFTDCAvailabilityCheckResult)
  BY <1>2 DEF AllowTeeVersion, AddTeeVersion, VersionAlreadyExists, NeedsPreRegistration,
              GetFTDCAvailabilityCheckResult, Goto, Dies
<1>9. ~(SkipPreRegistration \/ PreRegistration \/ RequestTeeAttestation \/ RequestFTDCAvailabilityCheck)
  BY <1>2, <1>5, <1>6 DEF SkipPreRegistration, PreRegistration, RequestTeeAttestation,
                          RequestFTDCAvailabilityCheck
<1>10. ~DecideAttestation /\ ~DecideAvailabilityCheck /\ ~GivenInstruction
  <2>1. DecideAttestation =>
          \/ proc' = [proc EXCEPT !.pc = "attest"]
          \/ \E attest : proc' = [proc EXCEPT !.pc = "a", !.attest = attest]
    BY DEF DecideAttestation
  <2>2. DecideAvailabilityCheck =>
          \/ proc' = [proc EXCEPT !.pc = "check"]
          \/ \E check : proc' = [proc EXCEPT !.pc = "p", !.check = check]
    BY DEF DecideAvailabilityCheck
  <2> QED BY <1>2, <2>1, <2>2 DEF GivenInstruction
<1>11. ~RegisterTee /\ \A c, resume : ~Manual(c, resume)
  BY <1>3 DEF RegisterTee, Manual
<1>12. /\ \A op : ~MineLate(op) /\ ~DropLate(op)
       /\ \A i : ~Answer(i) /\ ~Expire(i)
  BY <1>2 DEF MineLate, DropLate, Answer, Expire
<1>13. ~NoProduction
  BY DEF NoProduction, Registered
<1> QED BY <1>4, <1>7, <1>8, <1>9, <1>10, <1>11, <1>12, <1>13 DEF Next, ToolStep

(* Theorem.  A registration that starts fresh, or resumes a file that only *)
(* runs for the same TEE saved, and that is to check and to promote (a and *)
(* p in its command), reports success only once that TEE's machine is in   *)
(* production (RegisterNode, ToProduction): the check it takes to the      *)
(* chain is of that TEE, whoever requested it.                             *)
THEOREM RegisterOwnStateServes == Spec => OwnStateServes
<1>1. ASSUME IInv, [Next]_vars, Registered, proc.own
      PROVE  chain'.machines[proc.tee] = "production"
  <2>1. Mined /\ Sending /\ At("promote") /\ "a" \in proc.command
    BY <1>1, OnlyToProduction DEF ToProduction, Mined, Registered, Asked
  <2>2. Does(Pending, chain')
    BY <1>1, <2>1, MinedDoes
  <2>3. /\ Pending.kind = "promote" /\ Pending.tee = chain.instrs[proc.check].tee
        /\ proc.tee \in Tees
    BY <1>1, <2>1, PendingIs DEF At
  <2>4. chain.instrs[proc.check].tee = proc.tee
    BY <1>1, <2>1 DEF IInv, GoodTool, WaitsForOwn, At
  <2> QED BY <2>2, <2>3, <2>4 DEF Does
<1>2. IInv /\ [Next]_vars => [Registered /\ proc.own => chain'.machines[proc.tee] = "production"]_vars
  BY <1>1
<1> QED BY <1>2, RegisterInvariant, PTL DEF Spec, OwnStateServes
=============================================================================
