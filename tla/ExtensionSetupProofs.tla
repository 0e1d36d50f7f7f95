------------------------ MODULE ExtensionSetupProofs ------------------------
(***************************************************************************)
(* Proofs about bringing the extension up, for any number of vaults and    *)
(* extensions, any sites and environment and any number of faults.         *)
(***************************************************************************)
EXTENDS ExtensionSetup, Lemmas, SequenceTheorems

-----------------------------------------------------------------------------
(* The inductive invariant: what the registry w and x, the file and the    *)
(* tool are, as operators of their values.                                 *)

Ext == [sender : Vaults \cup {0}, owner : BOOLEAN, project : BOOLEAN, evm : BOOLEAN]
Vault == [deployed : BOOLEAN, pool : BOOLEAN, executor : BOOLEAN, ext : Nat]
Value == {Unset, Malformed} \cup Nat
File == [exists : BOOLEAN, readable : BOOLEAN, ext : Value, sender : {Unset, Malformed} \cup Vaults,
         byHand : BOOLEAN]
Kinds == {"token", "deploy", "mint", "executor", "register", "owner", "project", "key"}
Places == Kinds \cup {"idle", "truncate", "write", "edit"}
Tool == [pc : Places, vault : Vaults \cup {0}, ext : Nat, byHand : BOOLEAN]

(* Extension e is the one of vault v.                                      *)
Registered(x, v, e) == e \in 0 .. Len(x) - 1 /\ x[e + 1].sender = v

(* A transaction is for a vault, or for an extension that is there.        *)
Transactions(x) ==
  {op \in [kind : Kinds, vault : Vaults, ext : Nat] :
     op.kind \in {"owner", "project", "key"} => op.ext \in 0 .. Len(x) - 1}

(* What setExtensionId chose is an extension of the vault.                 *)
GoodVaults(w, x) ==
  /\ w \in [Vaults -> Vault] /\ x \in Seq(Ext)
  /\ \A v \in Vaults : w[v].ext # 0 => Registered(x, v, w[v].ext)

Minted(w, v) == w[v].deployed /\ w[v].pool
Ready(w, v) == Minted(w, v) /\ w[v].executor
Complete(w, x, v, e) ==
  Ready(w, v) /\ Registered(x, v, e) /\ x[e + 1].owner /\ x[e + 1].project /\ x[e + 1].evm

(* A vault in the file is deployed; what pre-build.sh wrote is complete.   *)
GoodFile(w, x, f) ==
  /\ f \in File
  /\ f.sender \in Vaults => w[f.sender].deployed
  /\ f.sender \in Vaults /\ WellFormed(f.ext) /\ ~f.byHand => Complete(w, x, f.sender, f.ext)

(* Each place follows the transactions before it; register-extension run   *)
(* by hand knows its vault to be deployed and no more.                     *)
GoodTool(w, x, p) ==
  /\ p \in Tool
  /\ p.pc # "idle" => p.vault \in Vaults
  /\ p.pc \notin {"idle", "token", "deploy"} => w[p.vault].deployed
  /\ p.pc \in {"owner", "project", "key", "truncate", "write", "edit"} => Registered(x, p.vault, p.ext)
  /\ p.byHand => p.pc \in {"register", "owner", "project", "key", "edit"}
  /\ ~p.byHand =>
       /\ p.pc # "edit"
       /\ p.pc \notin {"idle", "token", "deploy", "mint"} => Minted(w, p.vault)
       /\ p.pc \notin {"idle", "token", "deploy", "mint", "executor"} => Ready(w, p.vault)
       /\ p.pc \in {"project", "key", "truncate", "write"} => x[p.ext + 1].owner
       /\ p.pc \in {"key", "truncate", "write"} => x[p.ext + 1].project
       /\ p.pc \in {"truncate", "write"} => x[p.ext + 1].evm

GoodLate(x) == late \subseteq Transactions(x)

IInv == GoodVaults(vaults, exts) /\ GoodFile(vaults, exts, file) /\ GoodTool(vaults, exts, proc)
          /\ GoodLate(exts)

-----------------------------------------------------------------------------
(* The chain.                                                              *)

(* What has been done stays done.                                          *)
Grown(w, x) ==
  /\ GoodVaults(w, x)
  /\ \A v \in Vaults : /\ vaults[v].deployed => w[v].deployed
                       /\ vaults[v].pool => w[v].pool
                       /\ vaults[v].executor => w[v].executor
  /\ Len(exts) <= Len(x)
  /\ \A i \in 1 .. Len(exts) : /\ x[i].sender = exts[i].sender
                               /\ exts[i].owner => x[i].owner
                               /\ exts[i].project => x[i].project
                               /\ exts[i].evm => x[i].evm

(* Lemma.  Then the file, the tool and the mempool stay right.             *)
LEMMA StaysGood ==
  ASSUME IInv, NEW w, NEW x, Grown(w, x)
  PROVE  GoodFile(w, x, file) /\ GoodTool(w, x, proc) /\ GoodLate(x)
<1>1. Len(exts) \in Nat /\ Len(x) \in Nat /\ Len(exts) <= Len(x)
  BY LenProperties DEF IInv, Grown, GoodVaults
<1>2. ASSUME NEW v \in Vaults, NEW e, Registered(exts, v, e)
      PROVE  /\ Registered(x, v, e)
             /\ exts[e + 1].owner => x[e + 1].owner
             /\ exts[e + 1].project => x[e + 1].project
             /\ exts[e + 1].evm => x[e + 1].evm
  <2>1. e + 1 \in 1 .. Len(exts) /\ e \in 0 .. Len(x) - 1
    BY <1>1, <1>2 DEF Registered
  <2> QED BY <1>2, <2>1 DEF Registered, Grown
<1>3. ASSUME NEW v \in Vaults
      PROVE  /\ vaults[v].deployed => w[v].deployed
             /\ Minted(vaults, v) => Minted(w, v)
             /\ Ready(vaults, v) => Ready(w, v)
  BY DEF Minted, Ready, Grown
<1>4. ASSUME NEW v \in Vaults, NEW e, Complete(vaults, exts, v, e)
      PROVE  Complete(w, x, v, e)
  BY <1>2, <1>3, <1>4 DEF Complete
<1>5. GoodFile(w, x, file)
  BY <1>3, <1>4 DEF IInv, GoodFile
<1>6. GoodTool(w, x, proc)
  BY <1>2, <1>3 DEF IInv, GoodTool
<1>7. GoodLate(x)
  BY <1>1 DEF IInv, GoodLate, Transactions
<1> QED BY <1>5, <1>6, <1>7

(* What a transaction that is mined does.                                  *)
Does(op, w, x) ==
  /\ Grown(w, x)
  /\ op.kind = "deploy" => w[op.vault].deployed
  /\ op.kind = "mint" => w[op.vault].pool
  /\ op.kind = "executor" => w[op.vault].executor
  /\ op.kind = "register" => Registered(x, op.vault, Len(exts))
  /\ op.kind = "owner" => x[op.ext + 1].owner
  /\ op.kind = "project" => x[op.ext + 1].project
  /\ op.kind = "key" => x[op.ext + 1].evm

(* Lemma.  A vault gets on, its extension as it was.                       *)
LEMMA VaultGets ==
  ASSUME IInv, NEW v \in Vaults, NEW new \in Vault, new.ext = vaults[v].ext,
         vaults[v].deployed => new.deployed, vaults[v].pool => new.pool,
         vaults[v].executor => new.executor
  PROVE  Grown([vaults EXCEPT ![v] = new], exts) /\ [vaults EXCEPT ![v] = new][v] = new
<1> DEFINE w == [vaults EXCEPT ![v] = new]
<1>1. vaults \in [Vaults -> Vault] /\ exts \in Seq(Ext)
  BY DEF IInv, GoodVaults
<1>2. w \in [Vaults -> Vault] /\ w[v] = new /\ \A u \in Vaults \ {v} : w[u] = vaults[u]
  BY <1>1
<1> HIDE DEF w
<1>3. GoodVaults(w, exts)
  BY <1>1, <1>2 DEF IInv, GoodVaults
<1>4. Len(exts) \in Nat
  BY <1>1, LenProperties
<1>5. Grown(w, exts)
  BY <1>2, <1>3, <1>4 DEF Grown
<1> QED BY <1>2, <1>5 DEF w

(* Lemma.  An extension gets on, its sender as it was.                     *)
LEMMA ExtGets ==
  ASSUME IInv, NEW i \in 1 .. Len(exts), NEW new \in Ext, new.sender = exts[i].sender,
         exts[i].owner => new.owner, exts[i].project => new.project, exts[i].evm => new.evm
  PROVE  Grown(vaults, [exts EXCEPT ![i] = new]) /\ [exts EXCEPT ![i] = new][i] = new
<1> DEFINE x == [exts EXCEPT ![i] = new]
<1>1. vaults \in [Vaults -> Vault] /\ exts \in Seq(Ext)
  BY DEF IInv, GoodVaults
<1>2. x \in Seq(Ext) /\ Len(x) = Len(exts) /\ \A j \in 1 .. Len(exts) : x[j] = IF j = i THEN new ELSE exts[j]
  BY <1>1, ExceptSeq
<1> HIDE DEF x
<1>3. Len(exts) \in Nat
  BY <1>1, LenProperties
<1>4. \A j \in 1 .. Len(exts) : x[j].sender = exts[j].sender
  BY <1>2
<1>5. ASSUME NEW v \in Vaults, vaults[v].ext # 0
      PROVE  Registered(x, v, vaults[v].ext)
  <2>1. Registered(exts, v, vaults[v].ext) /\ vaults[v].ext \in Nat
    BY <1>1, <1>5 DEF IInv, GoodVaults, Vault
  <2>2. vaults[v].ext + 1 \in 1 .. Len(exts)
    BY <1>3, <2>1 DEF Registered
  <2> QED BY <1>2, <1>4, <2>1, <2>2 DEF Registered
<1>6. GoodVaults(vaults, x)
  BY <1>1, <1>2, <1>5 DEF GoodVaults
<1>7. Grown(vaults, x)
  BY <1>2, <1>3, <1>4, <1>6 DEF Grown
<1> QED BY <1>2, <1>7 DEF x

(* Lemma.  Another extension is registered.                                *)
LEMMA ExtAppended ==
  ASSUME IInv, NEW sender \in Vaults \cup {0}
  PROVE  /\ Grown(vaults, Append(exts, Extension(sender)))
         /\ Registered(Append(exts, Extension(sender)), sender, Len(exts))
<1> DEFINE new == Extension(sender)
           x == Append(exts, new)
<1>1. vaults \in [Vaults -> Vault] /\ exts \in Seq(Ext)
  BY DEF IInv, GoodVaults
<1>2. new \in Ext /\ new.sender = sender
  BY DEF Extension, Ext
<1> HIDE DEF new
<1>3. /\ x \in Seq(Ext) /\ Len(x) = Len(exts) + 1 /\ x[Len(exts) + 1] = new
      /\ \A j \in 1 .. Len(exts) : x[j] = exts[j]
  BY <1>1, <1>2, AppendProperties
<1> HIDE DEF x
<1>4. Len(exts) \in Nat
  BY <1>1, LenProperties
<1>5. ASSUME NEW v \in Vaults, vaults[v].ext # 0
      PROVE  Registered(x, v, vaults[v].ext)
  <2>1. Registered(exts, v, vaults[v].ext) /\ vaults[v].ext \in Nat
    BY <1>1, <1>5 DEF IInv, GoodVaults, Vault
  <2>2. vaults[v].ext + 1 \in 1 .. Len(exts) /\ vaults[v].ext \in 0 .. Len(x) - 1
    BY <1>3, <1>4, <2>1 DEF Registered
  <2> QED BY <1>3, <2>1, <2>2 DEF Registered
<1>6. GoodVaults(vaults, x)
  BY <1>1, <1>3, <1>5 DEF GoodVaults
<1>7. Grown(vaults, x)
  BY <1>3, <1>4, <1>6 DEF Grown
<1>8. Registered(x, sender, Len(exts))
  BY <1>2, <1>3, <1>4 DEF Registered
<1> QED BY <1>7, <1>8 DEF x, new

(* Lemma.  Nothing happened.                                               *)
LEMMA SameGrown == IInv => Grown(vaults, exts)
BY LenProperties DEF IInv, Grown, GoodVaults

(* Lemma.  Every transaction does what it is for.                          *)
LEMMA ApplyDoes ==
  ASSUME IInv, NEW op \in Transactions(exts)
  PROVE  Does(op, ApplyVaults(op), ApplyExts(op))
<1> DEFINE w == ApplyVaults(op)
           x == ApplyExts(op)
           v == op.vault
           i == op.ext + 1
<1>1. vaults \in [Vaults -> Vault] /\ exts \in Seq(Ext) /\ Len(exts) \in Nat
  BY LenProperties DEF IInv, GoodVaults
<1>2. op.kind \in Kinds /\ v \in Vaults /\ op.ext \in Nat
  BY DEF Transactions
<1>3. op.kind \in {"owner", "project", "key"} => i \in 1 .. Len(exts)
  BY <1>1, <1>2 DEF Transactions
<1>11. CASE op.kind = "token"
  <2>1. w = vaults /\ x = exts
    BY <1>11 DEF ApplyVaults, ApplyExts
  <2> HIDE DEF w, x, v
  <2>2. Grown(w, x)
    BY <2>1, SameGrown
  <2> QED BY <1>11, <2>2 DEF Does, w, x, v
<1>4. CASE op.kind = "deploy"
  <2> DEFINE new == [vaults[v] EXCEPT !.deployed = TRUE]
  <2>1. w = [vaults EXCEPT ![v] = new] /\ x = exts
    BY <1>4 DEF ApplyVaults, ApplyExts
  <2>2. /\ new \in Vault /\ new.deployed = TRUE /\ new.ext = vaults[v].ext
        /\ new.pool = vaults[v].pool /\ new.executor = vaults[v].executor
    BY <1>1, <1>2 DEF Vault
  <2> HIDE DEF new, w, x, v
  <2>3. Grown(w, x) /\ w[v] = new
    BY <1>2, <2>1, <2>2, VaultGets
  <2> QED BY <1>4, <2>2, <2>3 DEF Does, w, x, v
<1>5. CASE op.kind = "mint"
  <2> DEFINE new == [vaults[v] EXCEPT !.pool = TRUE]
  <2>1. w = [vaults EXCEPT ![v] = new] /\ x = exts
    BY <1>5 DEF ApplyVaults, ApplyExts
  <2>2. /\ new \in Vault /\ new.pool = TRUE /\ new.ext = vaults[v].ext
        /\ new.deployed = vaults[v].deployed /\ new.executor = vaults[v].executor
    BY <1>1, <1>2 DEF Vault
  <2> HIDE DEF new, w, x, v
  <2>3. Grown(w, x) /\ w[v] = new
    BY <1>2, <2>1, <2>2, VaultGets
  <2> QED BY <1>5, <2>2, <2>3 DEF Does, w, x, v
<1>6. CASE op.kind = "executor"
  <2> DEFINE new == [vaults[v] EXCEPT !.executor = TRUE]
  <2>1. w = [vaults EXCEPT ![v] = new] /\ x = exts
    BY <1>6 DEF ApplyVaults, ApplyExts
  <2>2. /\ new \in Vault /\ new.executor = TRUE /\ new.ext = vaults[v].ext
        /\ new.deployed = vaults[v].deployed /\ new.pool = vaults[v].pool
    BY <1>1, <1>2 DEF Vault
  <2> HIDE DEF new, w, x, v
  <2>3. Grown(w, x) /\ w[v] = new
    BY <1>2, <2>1, <2>2, VaultGets
  <2> QED BY <1>6, <2>2, <2>3 DEF Does, w, x, v
<1>7. CASE op.kind = "register"
  <2>1. w = vaults /\ x = Append(exts, Extension(v))
    BY <1>7 DEF ApplyVaults, ApplyExts
  <2> HIDE DEF w, x, v
  <2>2. Grown(w, x) /\ Registered(x, v, Len(exts))
    BY <1>2, <2>1, ExtAppended
  <2> QED BY <1>7, <2>2 DEF Does, w, x, v
<1>8. CASE op.kind = "owner"
  <2> DEFINE new == [exts[i] EXCEPT !.owner = TRUE]
  <2>1. w = vaults /\ x = [exts EXCEPT ![i] = new]
    BY <1>8 DEF ApplyVaults, ApplyExts
  <2>2. exts[i] \in Ext
    BY <1>1, <1>3, <1>8, ElementOfSeq
  <2>3. /\ new \in Ext /\ new.owner = TRUE /\ new.sender = exts[i].sender
        /\ new.project = exts[i].project /\ new.evm = exts[i].evm
    BY <2>2 DEF Ext
  <2> HIDE DEF new, w, x, i
  <2>4. Grown(w, x) /\ x[i] = new
    BY <1>3, <1>8, <2>1, <2>3, ExtGets
  <2> QED BY <1>8, <2>3, <2>4 DEF Does, w, x, i
<1>9. CASE op.kind = "project"
  <2> DEFINE new == [exts[i] EXCEPT !.project = TRUE]
  <2>1. w = vaults /\ x = [exts EXCEPT ![i] = new]
    BY <1>9 DEF ApplyVaults, ApplyExts
  <2>2. exts[i] \in Ext
    BY <1>1, <1>3, <1>9, ElementOfSeq
  <2>3. /\ new \in Ext /\ new.project = TRUE /\ new.sender = exts[i].sender
        /\ new.owner = exts[i].owner /\ new.evm = exts[i].evm
    BY <2>2 DEF Ext
  <2> HIDE DEF new, w, x, i
  <2>4. Grown(w, x) /\ x[i] = new
    BY <1>3, <1>9, <2>1, <2>3, ExtGets
  <2> QED BY <1>9, <2>3, <2>4 DEF Does, w, x, i
<1>10. CASE op.kind = "key"
  <2> DEFINE new == [exts[i] EXCEPT !.evm = TRUE]
  <2>1. w = vaults /\ x = [exts EXCEPT ![i] = new]
    BY <1>10 DEF ApplyVaults, ApplyExts
  <2>2. exts[i] \in Ext
    BY <1>1, <1>3, <1>10, ElementOfSeq
  <2>3. /\ new \in Ext /\ new.evm = TRUE /\ new.sender = exts[i].sender
        /\ new.owner = exts[i].owner /\ new.project = exts[i].project
    BY <2>2 DEF Ext
  <2> HIDE DEF new, w, x, i
  <2>4. Grown(w, x) /\ x[i] = new
    BY <1>3, <1>10, <2>1, <2>3, ExtGets
  <2> QED BY <1>10, <2>3, <2>4 DEF Does, w, x, i
<1> QED BY <1>2, <1>4, <1>5, <1>6, <1>7, <1>8, <1>9, <1>10, <1>11 DEF Kinds

-----------------------------------------------------------------------------
(* Each step.                                                              *)

(* Lemma.  A step keeps the invariant if the chain grows and the file, the *)
(* tool and the mempool are right for it.                                  *)
LEMMA StepKeeps ==
  ASSUME IInv, Grown(vaults', exts'), GoodFile(vaults', exts', file'),
         GoodTool(vaults', exts', proc'), late' \subseteq Transactions(exts')
  PROVE  IInv'
<1>1. GoodVaults(vaults', exts')
  BY DEF Grown
<1> QED BY <1>1 DEF IInv, GoodLate, GoodVaults, GoodFile, GoodTool, Transactions, Vault, Vaults,
           Ext, File, Tool, Value, Registered, Minted, Ready, Complete, WellFormed

(* Lemma.  The same of a step that neither file nor tool is part of.       *)
LEMMA AroundKeeps ==
  ASSUME IInv, Grown(vaults', exts'), UNCHANGED <<file, proc>>, late' \subseteq late
  PROVE  IInv'
<1>1. GoodFile(vaults', exts', file) /\ GoodTool(vaults', exts', proc) /\ late \subseteq Transactions(exts')
  BY StaysGood DEF GoodLate
<1> QED BY <1>1, StepKeeps

(* Lemma.  The same of a step that leaves the chain alone.                 *)
LEMMA ToolKeeps ==
  ASSUME IInv, UNCHANGED <<vaults, exts>>, GoodFile(vaults, exts, file'),
         GoodTool(vaults, exts, proc'), late' \subseteq Transactions(exts)
  PROVE  IInv'
<1>1. Grown(vaults', exts')
  BY SameGrown
<1> QED BY <1>1, StepKeeps

(* Lemma.  A tool that is not running claims nothing.                      *)
LEMMA IdleGood == Idle \in Tool /\ Idle.byHand = FALSE /\ \A w, x : GoodTool(w, x, Idle)
BY DEF GoodTool, Idle, Tool, Places

(* Lemma.  The order of the transactions.                                  *)
LEMMA AfterIs ==
  /\ After("token") = "deploy" /\ After("deploy") = "mint" /\ After("mint") = "executor"
  /\ After("executor") = "register"
  /\ After("register") = "owner" /\ After("owner") = "project" /\ After("project") = "key"
  /\ After("key") = "truncate"
<1>1. /\ Order[1] = "token" /\ Order[2] = "deploy" /\ Order[3] = "mint" /\ Order[4] = "executor"
      /\ Order[5] = "register" /\ Order[6] = "owner" /\ Order[7] = "project" /\ Order[8] = "key"
      /\ Order[9] = "truncate"
  BY DEF Order
<1>2. ASSUME NEW k \in 1 .. 8
      PROVE  After(Order[k]) = Order[1 + k]
  <2> DEFINE pc == Order[k]
             i == CHOOSE j \in 1 .. 8 : Order[j] = pc
  <2>1. i \in 1 .. 8 /\ Order[i] = pc
    OBVIOUS
  <2>2. \A j \in 1 .. 8 : Order[j] = pc => j = k
    BY <1>1
  <2>3. i = k
    BY <2>1, <2>2
  <2> QED BY <2>3 DEF After
<1> QED BY <1>1, <1>2

(* Lemma.  The transaction about to be sent.                               *)
LEMMA PendingIs ==
  ASSUME IInv, Sending
  PROVE  /\ Pending \in Transactions(exts) /\ Pending.kind = proc.pc
         /\ Pending.vault = proc.vault /\ Pending.ext = proc.ext
         /\ proc.pc \in Kinds /\ proc.vault \in Vaults
<1>1. proc.pc \in Kinds
  BY DEF Sending, At, Order, Kinds
<1>2. proc \in Tool /\ proc.vault \in Vaults
  BY <1>1 DEF IInv, GoodTool, Kinds
<1>3. proc.pc \in {"owner", "project", "key"} => proc.ext \in 0 .. Len(exts) - 1
  BY DEF IInv, GoodTool, Registered
<1>4. Pending = [kind |-> proc.pc, vault |-> proc.vault, ext |-> proc.ext]
  BY DEF Pending, Op
<1>5. Pending \in Transactions(exts)
  BY <1>1, <1>2, <1>3, <1>4 DEF Transactions, Tool
<1> QED BY <1>1, <1>2, <1>4, <1>5

(* Lemma.  A transaction that the tool saw mined takes it to the next.     *)
LEMMA MinedKeeps == IInv /\ Mined => IInv'
<1> SUFFICES ASSUME IInv, Mined PROVE IInv'
  OBVIOUS
<1> DEFINE w == vaults'
           x == exts'
           next == IF At("key") /\ proc.byHand THEN "edit" ELSE After(proc.pc)
           ext == IF At("register") THEN Len(exts) ELSE proc.ext
           p == [proc EXCEPT !.pc = next, !.ext = ext]
<1>1. /\ Pending \in Transactions(exts) /\ Pending.kind = proc.pc
      /\ Pending.vault = proc.vault /\ Pending.ext = proc.ext
      /\ proc.pc \in Kinds /\ proc.vault \in Vaults
  BY PendingIs DEF Mined
<1>2. Does(Pending, w, x)
  BY <1>1, ApplyDoes DEF Mined
<1>3. Grown(w, x) /\ late' = {} /\ file' = file
  BY <1>2 DEF Mined, Does
<1>4. GoodFile(w, x, file) /\ GoodTool(w, x, proc)
  BY <1>3, StaysGood
<1>5. proc \in Tool /\ Len(exts) \in Nat
  BY <1>4, LenProperties DEF GoodTool, IInv, GoodVaults
<1>6. proc' = p
  <2>1. proc' = [proc EXCEPT !.pc = next, !.ext = IF At("register") THEN Len(exts) ELSE @]
    BY DEF Mined
  <2> QED BY <1>5, <2>1 DEF Tool
<1>7. next \in Places \ {"idle", "token"}
  BY <1>1, AfterIs DEF At, Kinds, Places
<1>8. p \in Tool /\ p.pc = next /\ p.ext = ext /\ p.vault = proc.vault /\ p.byHand = proc.byHand
  BY <1>5, <1>7 DEF Tool
<1> HIDE DEF w, x, p
<1>9. next # "deploy" => w[proc.vault].deployed
  BY <1>1, <1>2, <1>4, AfterIs DEF Does, GoodTool, Kinds
<1>10. next \in {"owner", "project", "key", "truncate", "write", "edit"} => Registered(x, proc.vault, ext)
  BY <1>1, <1>2, <1>4, AfterIs DEF Does, GoodTool, Kinds, At
<1>11. proc.byHand => next \in {"register", "owner", "project", "key", "edit"}
  BY <1>1, <1>4, AfterIs DEF GoodTool, Kinds, At
<1>12. ASSUME ~proc.byHand
       PROVE  /\ next # "edit"
              /\ next \notin {"idle", "token", "deploy", "mint"} => Minted(w, proc.vault)
              /\ next \notin {"idle", "token", "deploy", "mint", "executor"} => Ready(w, proc.vault)
              /\ next \in {"project", "key", "truncate", "write"} => x[ext + 1].owner
              /\ next \in {"key", "truncate", "write"} => x[ext + 1].project
              /\ next \in {"truncate", "write"} => x[ext + 1].evm
  <2>1. next = After(proc.pc)
    BY <1>12
  <2>2. next # "edit"
    BY <1>1, <2>1, AfterIs DEF Kinds
  <2>3. next \notin {"idle", "token", "deploy", "mint"} => Minted(w, proc.vault)
    BY <1>1, <1>2, <1>4, <1>12, <2>1, AfterIs DEF Kinds, Does, GoodTool, Minted
  <2>4. next \notin {"idle", "token", "deploy", "mint", "executor"} => Ready(w, proc.vault)
    BY <1>1, <1>2, <1>4, <1>12, <2>1, AfterIs DEF Kinds, Does, GoodTool, Ready
  <2>5. /\ next \in {"project", "key", "truncate", "write"} => x[ext + 1].owner
        /\ next \in {"key", "truncate", "write"} => x[ext + 1].project
        /\ next \in {"truncate", "write"} => x[ext + 1].evm
    BY <1>1, <1>2, <1>4, <1>12, <2>1, AfterIs DEF Kinds, Does, GoodTool, At
  <2> QED BY <2>2, <2>3, <2>4, <2>5
<1> HIDE DEF next, ext
<1>13. GoodTool(w, x, p)
  BY <1>1, <1>7, <1>8, <1>9, <1>10, <1>11, <1>12 DEF GoodTool
<1> QED BY <1>3, <1>4, <1>6, <1>13, StepKeeps DEF w, x

(* Lemma.  The tool gives up: its transaction is all that is left.         *)
LEMMA GivenUpKeeps == IInv /\ GivenUp => IInv'
<1> SUFFICES ASSUME IInv, GivenUp PROVE IInv'
  OBVIOUS
<1>1. Pending \in Transactions(exts)
  BY PendingIs DEF GivenUp
<1> QED BY <1>1, IdleGood, ToolKeeps DEF GivenUp, IInv

(* Lemma.  What was left is mined or dropped.                              *)
LEMMA MineLateKeeps == IInv /\ MineLate => IInv'
<1> SUFFICES ASSUME IInv, MineLate PROVE IInv'
  OBVIOUS
<1>1. PICK op \in late : vaults' = ApplyVaults(op) /\ exts' = ApplyExts(op)
  BY DEF MineLate
<1>2. op \in Transactions(exts)
  BY DEF IInv, GoodLate
<1>3. Grown(vaults', exts')
  BY <1>1, <1>2, ApplyDoes DEF Does
<1> QED BY <1>3, AroundKeeps DEF MineLate

(* Lemma.  Or the network drops it.                                        *)
LEMMA DropLateKeeps == IInv /\ DropLate => IInv'
BY SameGrown, AroundKeeps DEF DropLate

(* Lemma.  pre-build.sh starts with a vault that is not there yet.         *)
LEMMA BeginPreBuildKeeps == IInv /\ BeginPreBuild => IInv'
<1> SUFFICES ASSUME IInv, BeginPreBuild PROVE IInv'
  OBVIOUS
<1> DEFINE v == CHOOSE u \in Fresh : TRUE
           p == [Idle EXCEPT !.pc = "token", !.vault = v]
<1>1. v \in Vaults
  BY DEF BeginPreBuild, Fresh
<1> HIDE DEF v
<1>2. Idle \in Tool /\ Idle.byHand = FALSE
  BY IdleGood
<1>3. p \in Tool /\ p.pc = "token" /\ p.vault = v /\ p.byHand = Idle.byHand
  BY <1>1, <1>2 DEF Tool, Places, Kinds
<1>4. proc' = p
  BY DEF BeginPreBuild, v
<1> HIDE DEF p
<1>5. GoodTool(vaults, exts, p)
  BY <1>1, <1>2, <1>3 DEF GoodTool
<1> QED BY <1>4, <1>5, ToolKeeps DEF BeginPreBuild, IInv, GoodLate

(* Lemma.  register-extension by hand, for a vault that is there.          *)
LEMMA RegisterByHandKeeps ==
  ASSUME IInv, NEW v \in Vaults, RegisterByHand(v)
  PROVE  IInv'
<1> DEFINE p == [Idle EXCEPT !.pc = "register", !.vault = v, !.byHand = TRUE]
<1>1. Idle \in Tool
  BY IdleGood
<1>2. p \in Tool /\ p.pc = "register" /\ p.vault = v /\ p.byHand = TRUE
  BY <1>1 DEF Tool, Places, Kinds
<1>3. proc' = p
  BY DEF RegisterByHand
<1> HIDE DEF p
<1>4. GoodTool(vaults, exts, p)
  BY <1>2 DEF GoodTool, RegisterByHand
<1> QED BY <1>3, <1>4, ToolKeeps DEF RegisterByHand, IInv, GoodLate

(* Lemma.  Whether the file is missing, locked, empty or half written.     *)
LEMMA FileParts ==
  ASSUME NEW w, NEW x, NEW hand \in BOOLEAN, NEW e \in Value, NEW s \in {Unset, Malformed},
         NEW f \in {NoFile, Unreadable, EnvFile(e, s)}
  PROVE  GoodFile(w, x, ByHand(f, hand))
<1> DEFINE g == ByHand(f, hand)
<1>1. /\ f.exists \in BOOLEAN /\ f.readable \in BOOLEAN /\ f.ext \in Value
      /\ f.sender \in {Unset, Malformed}
  <2>1. CASE f = NoFile
    <3>1. f.exists = FALSE /\ f.readable = FALSE /\ f.ext = Unset /\ f.sender = Unset
      BY <2>1 DEF NoFile
    <3> QED BY <3>1 DEF Value
  <2>2. CASE f = Unreadable
    <3>1. f.exists = TRUE /\ f.readable = FALSE /\ f.ext = Unset /\ f.sender = Unset
      BY <2>2 DEF Unreadable
    <3> QED BY <3>1 DEF Value
  <2>3. CASE f = EnvFile(e, s)
    BY <2>3 DEF EnvFile
  <2> QED BY <2>1, <2>2, <2>3
<1>2. f.sender \notin Vaults
  BY <1>1, SetupAssumption DEF Vaults, Unset, Malformed
<1>3. g = [exists |-> f.exists, readable |-> f.readable, ext |-> f.ext, sender |-> f.sender,
           byHand |-> hand]
  BY DEF ByHand
<1>4. g \in File /\ g.sender = f.sender
  BY <1>1, <1>3 DEF File
<1> HIDE DEF g
<1>5. GoodFile(w, x, g)
  BY <1>2, <1>4 DEF GoodFile
<1> QED BY <1>5 DEF g

(* Lemma.  The file is emptied: it names nothing.                          *)
LEMMA TruncateKeeps == IInv /\ Truncate => IInv'
<1> SUFFICES ASSUME IInv, Truncate PROVE IInv'
  OBVIOUS
<1>1. CASE proc' = Idle /\ file' = file
  BY <1>1, IdleGood, ToolKeeps DEF Truncate, IInv, GoodLate
<1>2. CASE proc' = [proc EXCEPT !.pc = "write"] /\ file' = ByHand(EnvFile(Unset, Unset), FALSE)
  <2> DEFINE p == [proc EXCEPT !.pc = "write"]
  <2>1. GoodFile(vaults, exts, file')
    BY <1>2, FileParts DEF Value
  <2>2. GoodTool(vaults, exts, proc) /\ proc \in Tool /\ proc.pc = "truncate"
    BY DEF IInv, GoodTool, Truncate, At
  <2>3. /\ p \in Tool /\ p.pc = "write" /\ p.vault = proc.vault /\ p.ext = proc.ext
        /\ p.byHand = proc.byHand
    BY <2>2 DEF Tool, Places
  <2>4. proc' = p
    BY <1>2
  <2> HIDE DEF p
  <2>5. GoodTool(vaults, exts, p)
    BY <2>2, <2>3 DEF GoodTool
  <2> QED BY <2>1, <2>4, <2>5, ToolKeeps DEF Truncate, IInv, GoodLate
<1> QED BY <1>1, <1>2 DEF Truncate

(* Lemma.  What is written has every step behind it.                       *)
LEMMA WriteConfigKeeps == IInv /\ WriteConfig => IInv'
<1> SUFFICES ASSUME IInv, WriteConfig PROVE IInv'
  OBVIOUS
<1> DEFINE f == ByHand(EnvFile(proc.ext, proc.vault), FALSE)
<1>1. GoodTool(vaults, exts, proc) /\ proc \in Tool /\ proc.pc = "write" /\ proc.vault \in Vaults
  BY DEF IInv, GoodTool, WriteConfig, At
<1>2. f \in File /\ f.ext = proc.ext /\ f.sender = proc.vault
  <2>1. proc.ext \in Value
    BY <1>1 DEF Tool, Value
  <2>2. /\ f.exists = TRUE /\ f.readable = TRUE /\ f.ext = proc.ext /\ f.sender = proc.vault
        /\ f.byHand = FALSE
        /\ f = [exists |-> f.exists, readable |-> f.readable, ext |-> f.ext, sender |-> f.sender,
                byHand |-> f.byHand]
    BY DEF ByHand, EnvFile
  <2> HIDE DEF f
  <2> QED BY <1>1, <2>1, <2>2 DEF File
<1>3. ~proc.byHand
  BY <1>1 DEF GoodTool
<1>4. file' = f /\ proc' = Idle
  BY DEF WriteConfig
<1> HIDE DEF f
<1>5. Complete(vaults, exts, proc.vault, proc.ext) /\ vaults[proc.vault].deployed
  BY <1>1, <1>3 DEF GoodTool, Complete
<1>6. GoodFile(vaults, exts, f)
  BY <1>2, <1>5 DEF GoodFile
<1> QED BY <1>4, <1>6, IdleGood, ToolKeeps DEF WriteConfig, IInv, GoodLate

(* Lemma.  A file put together by hand names a vault that is there.        *)
LEMMA EditFileKeeps == IInv /\ EditFile => IInv'
<1> SUFFICES ASSUME IInv, EditFile PROVE IInv'
  OBVIOUS
<1> DEFINE f == ByHand(EnvFile(proc.ext, proc.vault), TRUE)
<1>1. GoodTool(vaults, exts, proc) /\ proc \in Tool /\ proc.pc = "edit" /\ proc.vault \in Vaults
  BY DEF IInv, GoodTool, EditFile, At
<1>2. f \in File /\ f.ext = proc.ext /\ f.sender = proc.vault /\ f.byHand = TRUE
  <2>1. proc.ext \in Value
    BY <1>1 DEF Tool, Value
  <2>2. /\ f.exists = TRUE /\ f.readable = TRUE /\ f.ext = proc.ext /\ f.sender = proc.vault
        /\ f.byHand = TRUE
        /\ f = [exists |-> f.exists, readable |-> f.readable, ext |-> f.ext, sender |-> f.sender,
                byHand |-> f.byHand]
    BY DEF ByHand, EnvFile
  <2> HIDE DEF f
  <2> QED BY <1>1, <2>1, <2>2 DEF File
<1>3. vaults[proc.vault].deployed
  BY <1>1 DEF GoodTool
<1>4. file' = f /\ proc' = Idle
  BY DEF EditFile
<1> HIDE DEF f
<1>5. GoodFile(vaults, exts, f)
  BY <1>2, <1>3 DEF GoodFile
<1> QED BY <1>4, <1>5, IdleGood, ToolKeeps DEF EditFile, IInv, GoodLate

(* Lemma.  A script that dies leaves the file as it was, or a part.        *)
LEMMA CrashKeeps == IInv /\ Crash => IInv'
<1> SUFFICES ASSUME IInv, Crash PROVE IInv'
  OBVIOUS
<1>1. GoodFile(vaults, exts, file')
  <2>1. CASE At("write")
    <3>1. PICK e \in {Unset, Malformed, proc.ext}, s \in {Unset, Malformed} :
            file' = ByHand(EnvFile(e, s), FALSE)
      BY <2>1 DEF Crash
    <3>2. e \in Value
      BY DEF IInv, GoodTool, Tool, Value
    <3> QED BY <3>1, <3>2, FileParts
  <2>2. CASE ~At("write")
    BY <2>2 DEF Crash, IInv
  <2> QED BY <2>1, <2>2
<1> QED BY <1>1, IdleGood, ToolKeeps DEF Crash, IInv, GoodLate

(* Lemma.  The file is taken away, or deleted.                             *)
LEMMA LockKeeps == IInv /\ (LockFile \/ DeleteFile) => IInv'
<1> SUFFICES ASSUME IInv, LockFile \/ DeleteFile PROVE IInv'
  OBVIOUS
<1>1. GoodFile(vaults, exts, file')
  BY FileParts DEF LockFile, DeleteFile, Value
<1> QED BY <1>1, ToolKeeps DEF LockFile, DeleteFile, IInv, GoodLate

(* Lemma.  Another user of the registry.                                   *)
LEMMA RegisterForeignKeeps == IInv /\ RegisterForeign => IInv'
BY ExtAppended, AroundKeeps DEF RegisterForeign

(* Lemma.  The extensions of a vault, and the one setExtensionId takes.    *)
LEMMA UsingIs ==
  ASSUME IInv, NEW v \in Vaults
  PROVE  /\ \A i \in Nat : i \in Using(v) <=> Registered(exts, v, i)
         /\ Using(v) \subseteq Nat
         /\ Using(v) # {} => FirstUsing(v) \in Using(v)
<1>1. Len(exts) \in Nat
  BY LenProperties DEF IInv, GoodVaults
<1>2. \A i : i \in Using(v) <=> i \in 0 .. Len(exts) - 1 /\ exts[i + 1].sender = v
  BY DEF Using, SenderOf, Known
<1>3. Using(v) \subseteq Nat
  BY <1>1, <1>2
<1>4. ASSUME Using(v) # {}
      PROVE  FirstUsing(v) \in Using(v)
  <2>1. \E i \in Using(v) : \A j \in Using(v) : i <= j
    BY <1>3, <1>4, LeastExists
  <2> QED BY <2>1 DEF FirstUsing
<1> QED BY <1>2, <1>3, <1>4 DEF Registered

(* Lemma.  run-test sets the vault's extension to one of the vault.        *)
LEMMA RunTestKeeps == IInv /\ RunTest => IInv'
<1> SUFFICES ASSUME IInv, RunTest PROVE IInv'
  OBVIOUS
<1> DEFINE v == file.sender
<1>1. UNCHANGED <<exts, file, late, proc>>
  BY DEF RunTest
<1>2. CASE vaults' = vaults
  BY <1>1, <1>2, SameGrown, AroundKeeps
<1>3. CASE v \in Vaults /\ (vaults[v].ext # 0 \/ Using(v) # {})
             /\ vaults' = [vaults EXCEPT ![v].ext = SetExtensionId(v)]
  <2> DEFINE e == SetExtensionId(v)
             new == [vaults[v] EXCEPT !.ext = e]
             w == [vaults EXCEPT ![v] = new]
  <2>1. vaults \in [Vaults -> Vault] /\ vaults[v] \in Vault /\ exts \in Seq(Ext)
    BY <1>3 DEF IInv, GoodVaults
  <2>2. e \in Nat /\ Registered(exts, v, e)
    <3>1. CASE vaults[v].ext # 0
      <4>1. e = vaults[v].ext
        BY <3>1 DEF SetExtensionId
      <4>2. Registered(exts, v, vaults[v].ext) /\ vaults[v].ext \in Nat
        BY <1>3, <2>1, <3>1 DEF IInv, GoodVaults, Vault
      <4> QED BY <4>1, <4>2
    <3>2. CASE vaults[v].ext = 0
      <4>1. e = FirstUsing(v) /\ Using(v) # {}
        BY <1>3, <3>2 DEF SetExtensionId
      <4> HIDE DEF e, v
      <4>2. e \in Using(v) /\ e \in Nat
        BY <1>3, <4>1, UsingIs
      <4> QED BY <1>3, <4>2, UsingIs
    <3> QED BY <3>1, <3>2
  <2> HIDE DEF e
  <2>3. /\ new \in Vault /\ new.ext = e /\ new.deployed = vaults[v].deployed
        /\ new.pool = vaults[v].pool /\ new.executor = vaults[v].executor
    BY <2>1, <2>2 DEF Vault
  <2>4. vaults' = w
    BY <1>3 DEF e
  <2> HIDE DEF new, v
  <2>5. w \in [Vaults -> Vault] /\ w[v] = new /\ \A u \in Vaults \ {v} : w[u] = vaults[u]
    BY <1>3, <2>1, <2>3
  <2> HIDE DEF w
  <2>6. GoodVaults(w, exts)
    BY <2>1, <2>2, <2>3, <2>5 DEF IInv, GoodVaults
  <2>7. Grown(w, exts)
    BY <1>3, <2>3, <2>5, <2>6, SameGrown DEF Grown
  <2> QED BY <1>1, <2>4, <2>7, AroundKeeps
<1> QED BY <1>2, <1>3 DEF RunTest

(* Lemma.  Services are started or stopped, a TEE is registered, the site  *)
(* is put right: nothing that the invariant is about.                      *)
LEMMA OthersKeep ==
  IInv /\ UNCHANGED <<exts, vaults, file, late, proc>> => IInv'
BY SameGrown, AroundKeeps

(* Lemma.  The first state.                                                *)
LEMMA InitInv == Init => IInv
<1> SUFFICES ASSUME Init PROVE IInv
  OBVIOUS
<1>1. Extension(0) \in Ext
  BY DEF Extension, Ext
<1>2. exts \in Seq(Ext)
  <2>1. <<>> \in Seq(Ext) /\ \A e \in Ext : <<e>> \in Seq(Ext)
    OBVIOUS
  <2> QED BY <1>1, <2>1 DEF Init
<1>3. NewVault \in Vault /\ NewVault.ext = 0
  BY DEF NewVault, Vault
<1>4. vaults = [v \in Vaults |-> NewVault]
  BY DEF Init
<1>5. GoodVaults(vaults, exts)
  BY <1>2, <1>3, <1>4 DEF GoodVaults
<1>6. GoodFile(vaults, exts, file)
  BY FileParts DEF Init, Value
<1>7. GoodTool(vaults, exts, proc)
  BY IdleGood DEF Init
<1> QED BY <1>5, <1>6, <1>7 DEF IInv, GoodLate, Init

(* Lemma.  Every step keeps the invariant.                                 *)
LEMMA StepInv == IInv /\ [Next]_vars => IInv'
<1> SUFFICES ASSUME IInv, [Next]_vars PROVE IInv'
  OBVIOUS
<1>1. CASE ToolStep
  BY <1>1, MinedKeeps, TruncateKeeps, WriteConfigKeeps, EditFileKeeps DEF ToolStep
<1>2. CASE GivenUp \/ MineLate \/ DropLate \/ Crash
  BY <1>2, GivenUpKeeps, MineLateKeeps, DropLateKeeps, CrashKeeps
<1>3. CASE PreBuild \/ PreBuildAgain
  BY <1>3, BeginPreBuildKeeps DEF PreBuild, PreBuildAgain
<1>4. CASE \E v \in Vaults : RegisterByHand(v)
  BY <1>4, RegisterByHandKeeps
<1>5. CASE StartServices \/ (\E local \in BOOLEAN : KeepServices(local)) \/ StopServices \/ PostBuild
             \/ RepairSite
  BY <1>5, OthersKeep DEF StartServices, KeepServices, StopServices, PostBuild, RepairSite
<1>6. CASE RunTest
  BY <1>6, RunTestKeeps
<1>7. CASE RegisterForeign
  BY <1>7, RegisterForeignKeeps
<1>8. CASE LockFile \/ DeleteFile
  BY <1>8, LockKeeps
<1>9. CASE UNCHANGED vars
  BY <1>9, OthersKeep DEF vars
<1> QED BY <1>1, <1>2, <1>3, <1>4, <1>5, <1>6, <1>7, <1>8, <1>9 DEF Next

(* Theorem.  The inductive invariant: transactions of killed runs, late    *)
(* ones, files half written and files put together by hand included.       *)
THEOREM SetupInvariant == Spec => []IInv
BY InitInv, StepInv, PTL DEF Spec

-----------------------------------------------------------------------------
(* The properties.                                                         *)

(* Theorem.  A file that pre-build.sh wrote names a vault and an extension *)
(* with every step done (deploy-contract, SetupExtension), whatever        *)
(* earlier runs left behind.                                               *)
THEOREM SetupPreBuiltIsComplete == Spec => []PreBuiltIsComplete
<1>1. IInv => PreBuiltIsComplete
  <2> SUFFICES ASSUME IInv, WellFormed(file.ext), WellFormed(file.sender), ~file.byHand
               PROVE  PreBuiltIsComplete
    BY DEF PreBuiltIsComplete
  <2>1. GoodFile(vaults, exts, file) /\ file.sender \in Vaults
    BY DEF IInv, GoodFile, File, WellFormed, Unset, Malformed
  <2>2. Complete(vaults, exts, file.sender, file.ext)
    BY <2>1 DEF GoodFile
  <2> QED BY <2>2 DEF PreBuiltIsComplete, Complete, Ready, Minted, Registered
<1> QED BY <1>1, SetupInvariant, PTL

-----------------------------------------------------------------------------
(* The checks.                                                             *)

(* The registration checks of the file as it is.                           *)
Registration == RegisterRegistrationChecks(file, exts, site)

(* Lemma.  The whole report holds their results.                           *)
LEMMA AllHolds == Registration \subseteq Report("all", file, exts, site, Env)
BY DEF Report, Registration

(* Lemma.  Verified: no result is a failure.                               *)
LEMMA VerifiedPasses ==
  ASSUME Verified, NEW r \in Report("all", file, exts, site, Env)
  PROVE  r.status # "FAIL"
BY DEF Verified, VerifyDeploy, HasFailures

(* Lemma.  What a file that passes all checks, the scan for other          *)
(* extensions of its vault included, says: its extension is the only one   *)
(* of its vault (R7 is only looked at for a file with both values).        *)
LEMMA VerifiedMeans ==
  ASSUME IInv, Verified, "scan" \in site.answers, Report7 = {"PASS"}
  PROVE  /\ file.sender \in Vaults /\ WellFormed(file.ext) /\ file.ext \in Nat
         /\ Registered(exts, file.sender, file.ext)
         /\ Using(file.sender) = {file.ext}
<1> DEFINE all == Report("all", file, exts, site, Env)
           using == {i \in 0 .. Len(exts) - 1 : "scan" \in site.answers /\ SenderOf(exts, i) = file.sender}
<1>1. Len(exts) \in Nat /\ file \in File
  BY LenProperties DEF IInv, GoodVaults, GoodFile
<1>2. \A r \in Registration : r.status # "FAIL"
  BY AllHolds, VerifiedPasses
<1>3. WellFormed(file.ext) /\ WellFormed(file.sender)
  <2>1. PICK r \in Registration : r.id = "R7"
    BY DEF Report7, StatusesOf, Registration
  <2>2. WellFormed(file.ext)
    BY <2>1 DEF Registration, RegisterRegistrationChecks, CheckCounter, Result
  <2>3. ASSUME ~WellFormed(file.sender)
        PROVE  FALSE
    BY <2>1, <2>2, <2>3 DEF Registration, RegisterRegistrationChecks, CheckCounter, CheckSender,
       CheckMachineOwner, CheckKeyType, CheckUniqueSender, Result
  <2> QED BY <2>2, <2>3
<1>5. file.sender \in Vaults /\ file.ext \in Nat
  BY <1>1, <1>3 DEF File, Value, WellFormed, Unset, Malformed
<1>6. Registration = CheckCounter(exts, site) \cup CheckSender(file, exts, site)
        \cup CheckMachineOwner(file, exts, site) \cup CheckKeyType(file, exts, site)
        \cup CheckUniqueSender(file, exts, site)
  BY <1>3 DEF Registration, RegisterRegistrationChecks, WellFormed, Unset
<1>7. SenderOf(exts, file.ext) = file.sender
  <2> DEFINE ok == "sender" \in site.answers /\ SenderOf(exts, file.ext) = file.sender
             r == [step |-> "register", id |-> "R2", status |-> Graded(ok, "FAIL")]
  <2>1. r \in CheckSender(file, exts, site)
    BY <1>3 DEF CheckSender, Result
  <2>2. r.status # "FAIL"
    BY <1>2, <1>6, <2>1
  <2> QED BY <2>2 DEF Graded
<1>8. Registered(exts, file.sender, file.ext)
  BY <1>5, <1>7, SetupAssumption DEF SenderOf, Known, Registered, Vaults
<1>9. "counter" \in site.answers /\ Len(exts) > 0
  <2> DEFINE r == [step |-> "register", id |-> "R1",
                   status |-> IF "counter" \notin site.answers THEN "FAIL"
                              ELSE Graded(Len(exts) > 0, "WARN")]
  <2>1. r \in CheckCounter(exts, site)
    BY DEF CheckCounter, Result
  <2>2. r.status # "FAIL"
    BY <1>2, <1>6, <2>1
  <2>3. Len(exts) > 0
    BY <1>1, <1>8 DEF Registered
  <2> QED BY <2>2, <2>3
<1>10. Cardinality(using) <= 1
  <2> DEFINE few == Cardinality(using) <= 1
             r == [step |-> "register", id |-> "R7", status |-> Graded(few, "WARN")]
  <2>1. r \in CheckUniqueSender(file, exts, site)
    BY <1>3, <1>9 DEF CheckUniqueSender, Result
  <2>2. r \in Registration
    BY <1>6, <2>1
  <2>3. r.status \in Report7
    BY <2>2 DEF Report7, StatusesOf, Registration
  <2>4. Graded(few, "WARN") = "PASS"
    BY <2>3
  <2> QED BY <2>4 DEF Graded
<1>11. using = Using(file.sender)
  BY DEF Using
<1> HIDE DEF using
<1>12. file.ext \in using
  BY <1>5, <1>8, <1>11, UsingIs
<1>13. IsFiniteSet(using)
  <2>1. IsFiniteSet(0 .. Len(exts) - 1)
    BY <1>1, FS_Interval
  <2>2. using \subseteq 0 .. Len(exts) - 1
    BY DEF using
  <2> QED BY <2>1, <2>2, FS_Subset
<1>14. using = {file.ext}
  <2>1. IsFiniteSet({file.ext}) /\ Cardinality({file.ext}) = 1
    BY FS_Singleton
  <2>2. {file.ext} \subseteq using
    BY <1>12
  <2>3. Cardinality(using) \in Nat
    BY <1>13, FS_CardinalityType
  <2>4. Cardinality({file.ext}) <= Cardinality(using)
    BY <1>13, <2>2, FS_Subset
  <2>5. Cardinality({file.ext}) = Cardinality(using)
    BY <1>10, <2>1, <2>3, <2>4
  <2> QED BY <1>13, <2>2, <2>5, FS_Subset
<1> QED BY <1>3, <1>5, <1>8, <1>11, <1>14

(* Lemma.  setExtensionId finds that extension, or has found it.           *)
LEMMA VerifiedFinds ==
  ASSUME IInv, Verified, "scan" \in site.answers, Report7 = {"PASS"}
  PROVE  /\ FirstUsing(file.sender) = file.ext
         /\ vaults[file.sender].ext \in {0, file.ext}
<1>1. file.sender \in Vaults /\ file.ext \in Nat /\ Using(file.sender) = {file.ext}
  BY VerifiedMeans
<1>2. FirstUsing(file.sender) = file.ext
  BY <1>1, UsingIs
<1>3. ASSUME vaults[file.sender].ext # 0
      PROVE  vaults[file.sender].ext = file.ext
  <2>1. Registered(exts, file.sender, vaults[file.sender].ext) /\ vaults[file.sender].ext \in Nat
    BY <1>1, <1>3 DEF IInv, GoodVaults, Vault
  <2>2. vaults[file.sender].ext \in Using(file.sender)
    BY <1>1, <2>1, UsingIs
  <2> QED BY <1>1, <2>2
<1> QED BY <1>2, <1>3

(* Theorem.  A report without a failure, whose scan was answered and found *)
(* no other extension of the vault, means that the file, the registry and  *)
(* the vault speak of one extension: the one setExtensionId finds or found.*)
THEOREM SetupUsable == Spec => []Usable
<1>1. IInv => Usable
  BY VerifiedFinds DEF Usable
<1> QED BY <1>1, SetupInvariant, PTL

-----------------------------------------------------------------------------
(* The phases.  The second invariant: an extension that pre-build.sh has   *)
(* registered is its vault's first, and no machine of it is in production  *)
(* but that of the TEE started for it.                                     *)

Tee == [up : BOOLEAN, ext : Value, registered : BOOLEAN]
Progress == [done : {"none", "pre-build", "start", "post-build"}, kept : BOOLEAN]

IdOf(x, e) == e \in 0 .. Len(x) - 1

(* Ids are those of extensions that are there.                             *)
Ids ==
  /\ tee \in Tee
  /\ WellFormed(tee.ext) => IdOf(exts, tee.ext)
  /\ tee.registered => WellFormed(tee.ext)
  /\ \A e \in old : IdOf(exts, e)
  /\ WellFormed(file.ext) => IdOf(exts, file.ext)

(* What an extension is for, or is being registered for, is deployed.      *)
SendersDeployed ==
  /\ \A i \in 1 .. Len(exts), v \in Vaults : exts[i].sender = v => vaults[v].deployed
  /\ \A op \in late : op.kind \notin {"token", "deploy"} => vaults[op.vault].deployed

(* Extension e, the first of vault v, has no machine.                      *)
FirstOf(v, e) ==
  /\ \A i \in 1 .. Len(exts) : exts[i].sender = v => e < i
  /\ e \notin old

(* pre-build.sh is running: the vault is its own alone.                    *)
Building ==
  ~proc.byHand /\ proc.pc # "idle" =>
    /\ phase.done = "none"
    /\ \A op \in late : op.vault # proc.vault
    /\ vaults[proc.vault].ext = 0
    /\ proc.pc \in {"token", "deploy", "mint", "executor", "register"} =>
         \A i \in 1 .. Len(exts) : exts[i].sender # proc.vault
    /\ proc.pc \notin {"token", "deploy", "mint", "executor", "register"} =>
         FirstOf(proc.vault, proc.ext) /\ tee.ext # proc.ext

(* pre-build.sh has ended: the file is still its own.                      *)
Built ==
  phase.done # "none" =>
    /\ file.readable /\ ~file.byHand /\ WellFormed(file.ext) /\ file.sender \in Vaults
    /\ FirstOf(file.sender, file.ext)
    /\ vaults[file.sender].ext \in {0, file.ext}
    /\ phase.done = "pre-build" => tee.ext # file.ext
    /\ phase.done # "pre-build" /\ ~phase.kept => tee.up /\ tee.ext = file.ext
    /\ phase.done = "post-build" /\ ~phase.kept => tee.registered

PInv == Ids /\ phase \in Progress /\ SendersDeployed /\ Building /\ Built

(* Lemma.  What the first invariant says of values used below.             *)
LEMMA Values ==
  ASSUME IInv
  PROVE  /\ Len(exts) \in Nat /\ vaults \in [Vaults -> Vault] /\ file \in File /\ proc \in Tool
         /\ proc.ext \in Nat /\ proc.byHand \in BOOLEAN
         /\ proc.pc # "idle" => proc.vault \in Vaults
         /\ \A v \in Vaults : vaults[v].ext \in Nat
         /\ Unset \notin Nat /\ Malformed \notin Nat /\ 0 \notin Vaults /\ Vaults \subseteq Nat
<1>1. Len(exts) \in Nat
  BY LenProperties DEF IInv, GoodVaults
<1> QED BY <1>1, SetupAssumption
        DEF IInv, GoodVaults, GoodFile, GoodTool, Tool, Vault, Vaults, Unset, Malformed

(* Lemma.  Among values a file may hold, the well-formed are the ids.      *)
LEMMA WellFormedIs == \A v \in Value : WellFormed(v) <=> v \in Nat
BY DEF Value, WellFormed, Unset, Malformed

(* Lemma.  A transaction adds at most an extension, for its vault, and     *)
(* leaves to run-test what extension a vault uses.                         *)
LEMMA ApplyAdds ==
  ASSUME IInv, NEW op \in Transactions(exts), NEW w, NEW x, w = ApplyVaults(op), x = ApplyExts(op)
  PROVE  /\ Len(x) \in Nat /\ Len(exts) <= Len(x)
         /\ \A i \in 1 .. Len(exts) : x[i].sender = exts[i].sender
         /\ \A i \in 1 .. Len(x) : i > Len(exts) =>
              i = Len(exts) + 1 /\ op.kind = "register" /\ x[i].sender = op.vault
         /\ op.kind = "register" => Len(x) = Len(exts) + 1
         /\ \A v \in Vaults : /\ w[v].ext = vaults[v].ext
                              /\ vaults[v].deployed => w[v].deployed
         /\ op.kind = "deploy" => w[op.vault].deployed
<1>1. Does(op, w, x)
  BY ApplyDoes
<1>2. Grown(w, x) /\ op.kind = "deploy" => w[op.vault].deployed
  BY <1>1 DEF Does
<1>3. Grown(w, x)
  BY <1>1 DEF Does
<1>4. /\ Len(x) \in Nat /\ Len(exts) \in Nat /\ Len(exts) <= Len(x)
      /\ \A i \in 1 .. Len(exts) : x[i].sender = exts[i].sender
      /\ \A v \in Vaults : vaults[v].deployed => w[v].deployed
      /\ vaults \in [Vaults -> Vault] /\ exts \in Seq(Ext) /\ op.vault \in Vaults /\ op.kind \in Kinds
  BY <1>3, LenProperties DEF Grown, IInv, GoodVaults, Transactions
<1>5. ASSUME NEW v \in Vaults PROVE w[v].ext = vaults[v].ext
  BY <1>4 DEF ApplyVaults, Vault
<1>6. CASE op.kind = "register"
  <2>1. x = Append(exts, Extension(op.vault))
    BY <1>6 DEF ApplyExts
  <2>2. Extension(op.vault) \in Ext /\ Extension(op.vault).sender = op.vault
    BY <1>4 DEF Extension, Ext
  <2>3. Len(x) = Len(exts) + 1 /\ x[Len(exts) + 1] = Extension(op.vault)
    BY <1>4, <2>1, <2>2, AppendProperties
  <2> QED BY <1>1, <1>4, <1>5, <1>6, <2>2, <2>3 DEF Does
<1>7. CASE op.kind # "register"
  <2>1. Len(x) = Len(exts)
    <3>1. \A i \in 1 .. Len(exts), e \in Ext : Len([exts EXCEPT ![i] = e]) = Len(exts)
      BY <1>4, ExceptSeq
    <3>2. ASSUME op.kind \in {"owner", "project", "key"}
          PROVE  op.ext + 1 \in 1 .. Len(exts) /\ exts[op.ext + 1] \in Ext
      <4>1. op.ext + 1 \in 1 .. Len(exts)
        BY <1>4, <3>2 DEF Transactions
      <4> QED BY <1>4, <4>1, ElementOfSeq
    <3> DEFINE i == op.ext + 1
    <3>3. CASE op.kind = "owner"
      <4>1. [exts[i] EXCEPT !.owner = TRUE] \in Ext
        BY <3>2, <3>3 DEF Ext
      <4> QED BY <3>1, <3>2, <3>3, <4>1 DEF ApplyExts
    <3>4. CASE op.kind = "project"
      <4>1. [exts[i] EXCEPT !.project = TRUE] \in Ext
        BY <3>2, <3>4 DEF Ext
      <4> QED BY <3>1, <3>2, <3>4, <4>1 DEF ApplyExts
    <3>5. CASE op.kind = "key"
      <4>1. [exts[i] EXCEPT !.evm = TRUE] \in Ext
        BY <3>2, <3>5 DEF Ext
      <4> QED BY <3>1, <3>2, <3>5, <4>1 DEF ApplyExts
    <3>6. CASE op.kind \notin {"owner", "project", "key"}
      BY <1>7, <3>6 DEF ApplyExts
    <3> QED BY <3>3, <3>4, <3>5, <3>6
  <2> QED BY <1>1, <1>4, <1>5, <1>7, <2>1 DEF Does
<1> QED BY <1>6, <1>7

(* Lemma.  What is mined keeps all but what the tool is about.             *)
LEMMA ChainKeeps ==
  ASSUME IInv, PInv, NEW op \in Transactions(exts),
         op.kind \notin {"token", "deploy"} => vaults[op.vault].deployed,
         vaults' = ApplyVaults(op), exts' = ApplyExts(op), late' = {},
         UNCHANGED <<old, file, tee, phase>>
  PROVE  Ids' /\ phase' \in Progress /\ SendersDeployed' /\ Built'
<1> DEFINE w == vaults'
           x == exts'
<1>1. /\ Len(x) \in Nat /\ Len(exts) <= Len(x)
      /\ \A i \in 1 .. Len(exts) : x[i].sender = exts[i].sender
      /\ \A i \in 1 .. Len(x) : i > Len(exts) =>
           i = Len(exts) + 1 /\ op.kind = "register" /\ x[i].sender = op.vault
      /\ \A v \in Vaults : /\ w[v].ext = vaults[v].ext
                           /\ vaults[v].deployed => w[v].deployed
      /\ op.kind = "deploy" => w[op.vault].deployed
  BY ApplyAdds
<1>2. Len(exts) \in Nat /\ op.vault \in Vaults
  BY Values DEF Transactions
<1> HIDE DEF w, x
<1>3. \A e : IdOf(exts, e) => IdOf(x, e)
  BY <1>1, <1>2 DEF IdOf
<1>4. Ids'
  BY <1>3 DEF PInv, Ids, x
<1>5. ASSUME NEW i \in 1 .. Len(x), NEW v \in Vaults, x[i].sender = v
      PROVE  w[v].deployed
  <2>1. CASE i <= Len(exts)
    <3>1. i \in 1 .. Len(exts)
      BY <1>1, <1>2, <2>1
    <3> QED BY <1>1, <1>5, <3>1 DEF PInv, SendersDeployed
  <2>2. CASE i > Len(exts)
    <3>1. op.kind = "register" /\ v = op.vault
      BY <1>1, <1>5, <2>2
    <3> QED BY <1>1, <3>1
  <2> QED BY <1>1, <1>2, <2>1, <2>2
<1>6. SendersDeployed'
  BY <1>5 DEF SendersDeployed, w, x
<1>7. Built'
  <2> SUFFICES ASSUME phase.done # "none" PROVE Built'
    BY DEF Built
  <2>1. /\ file.readable /\ ~file.byHand /\ WellFormed(file.ext) /\ file.sender \in Vaults
        /\ FirstOf(file.sender, file.ext)
        /\ vaults[file.sender].ext \in {0, file.ext}
        /\ phase.done = "pre-build" => tee.ext # file.ext
        /\ phase.done # "pre-build" /\ ~phase.kept => tee.up /\ tee.ext = file.ext
        /\ phase.done = "post-build" /\ ~phase.kept => tee.registered
    BY DEF PInv, Built
  <2>2. IdOf(exts, file.ext)
    BY <2>1 DEF PInv, Ids
  <2>3. ASSUME NEW i \in 1 .. Len(x), x[i].sender = file.sender PROVE file.ext < i
    <3>1. CASE i <= Len(exts)
      <4>1. i \in 1 .. Len(exts)
        BY <1>1, <1>2, <3>1
      <4> QED BY <1>1, <2>1, <2>3, <4>1 DEF FirstOf
    <3>2. CASE i > Len(exts)
      BY <1>2, <2>2, <3>2 DEF IdOf
    <3> QED BY <1>1, <1>2, <3>1, <3>2
  <2>4. w[file.sender].ext \in {0, file.ext}
    BY <1>1, <2>1
  <2> QED BY <2>1, <2>3, <2>4 DEF Built, FirstOf, w, x
<1> QED BY <1>4, <1>6, <1>7 DEF PInv

(* Lemma.  The tool's own transaction.                                     *)
LEMMA MinedP == IInv /\ PInv /\ Mined => PInv'
<1> SUFFICES ASSUME IInv, PInv, Mined PROVE PInv'
  OBVIOUS
<1> DEFINE w == vaults'
           x == exts'
           op == Pending
<1>1. /\ op \in Transactions(exts) /\ op.kind = proc.pc /\ op.vault = proc.vault
      /\ op.ext = proc.ext /\ proc.pc \in Kinds /\ proc.vault \in Vaults
  BY PendingIs DEF Mined
<1>2. op.kind \notin {"token", "deploy"} => vaults[op.vault].deployed
  BY <1>1 DEF IInv, GoodTool, Kinds
<1> HIDE DEF op
<1>3. Ids' /\ phase' \in Progress /\ SendersDeployed' /\ Built'
  BY <1>1, <1>2, ChainKeeps DEF Mined, op
<1>4. /\ Len(x) \in Nat /\ Len(exts) <= Len(x)
      /\ \A i \in 1 .. Len(exts) : x[i].sender = exts[i].sender
      /\ \A i \in 1 .. Len(x) : i > Len(exts) =>
           i = Len(exts) + 1 /\ op.kind = "register" /\ x[i].sender = op.vault
      /\ \A v \in Vaults : w[v].ext = vaults[v].ext
  BY <1>1, ApplyAdds DEF Mined, op
<1>5. /\ proc'.vault = proc.vault /\ proc'.byHand = proc.byHand /\ late' = {}
      /\ proc'.pc = (IF proc.pc = "key" /\ proc.byHand THEN "edit" ELSE After(proc.pc))
      /\ proc'.ext = (IF proc.pc = "register" THEN Len(exts) ELSE proc.ext)
      /\ UNCHANGED <<old, tee, phase>>
  BY Values DEF Mined, Tool, At
<1>6. Len(exts) \in Nat
  BY Values
<1> HIDE DEF w, x
<1>7. Building'
  <2> SUFFICES ASSUME ~proc.byHand PROVE Building'
    BY <1>5 DEF Building
  <2>1. /\ phase.done = "none" /\ vaults[proc.vault].ext = 0
        /\ proc.pc \in {"token", "deploy", "mint", "executor", "register"} =>
             \A i \in 1 .. Len(exts) : exts[i].sender # proc.vault
        /\ proc.pc \notin {"token", "deploy", "mint", "executor", "register"} =>
             FirstOf(proc.vault, proc.ext) /\ tee.ext # proc.ext
    BY <1>1 DEF PInv, Building, Kinds
  <2>2. w[proc.vault].ext = 0
    BY <1>1, <1>4, <2>1
  <2>3. CASE proc.pc \in {"token", "deploy", "mint", "executor"}
    <3>1. proc'.pc \in {"deploy", "mint", "executor", "register"}
      BY <1>5, <2>3, AfterIs
    <3>2. \A i \in 1 .. Len(x) : i \in 1 .. Len(exts)
      BY <1>1, <1>4, <1>6, <2>3
    <3>3. \A i \in 1 .. Len(x) : x[i].sender # proc.vault
      BY <1>4, <2>1, <2>3, <3>2
    <3> QED BY <1>5, <2>1, <2>2, <3>1, <3>3 DEF Building, w, x
  <2>4. CASE proc.pc = "register"
    <3>1. proc'.pc = "owner" /\ proc'.ext = Len(exts)
      BY <1>5, <2>4, AfterIs
    <3>2. \A i \in 1 .. Len(x) : x[i].sender = proc.vault => Len(exts) < i
      <4>1. ASSUME NEW i \in 1 .. Len(x), x[i].sender = proc.vault, i <= Len(exts)
            PROVE  FALSE
        <5>1. i \in 1 .. Len(exts)
          BY <1>4, <1>6, <4>1
        <5> QED BY <1>4, <2>1, <2>4, <4>1, <5>1
      <4> QED BY <1>4, <1>6, <4>1
    <3>3. Len(exts) \notin old /\ tee.ext # Len(exts)
      <4>1. ~IdOf(exts, Len(exts))
        BY <1>6 DEF IdOf
      <4>2. WellFormed(Len(exts))
        BY <1>6 DEF WellFormed
      <4>3. (\A e \in old : IdOf(exts, e)) /\ (WellFormed(tee.ext) => IdOf(exts, tee.ext))
        BY DEF PInv, Ids
      <4> QED BY <4>1, <4>2, <4>3
    <3> QED BY <1>5, <2>1, <2>2, <3>1, <3>2, <3>3 DEF Building, FirstOf, w, x
  <2>5. CASE proc.pc \in {"owner", "project", "key"}
    <3>1. proc'.pc \in {"project", "key", "truncate"} /\ proc'.ext = proc.ext
      BY <1>5, <2>5, AfterIs
    <3>2. \A i \in 1 .. Len(x) : i \in 1 .. Len(exts)
      BY <1>1, <1>4, <1>6, <2>5
    <3>3. \A i \in 1 .. Len(x) : x[i].sender = proc.vault => proc.ext < i
      BY <1>4, <2>1, <2>5, <3>2 DEF FirstOf
    <3> QED BY <1>5, <2>1, <2>2, <2>5, <3>1, <3>3 DEF Building, FirstOf, w, x
  <2> QED BY <1>1, <2>3, <2>4, <2>5 DEF Kinds
<1> QED BY <1>3, <1>7 DEF PInv

(* Lemma.  A transaction given up on: for another vault than that of a     *)
(* pre-build.sh now running.                                               *)
LEMMA MineLateP == IInv /\ PInv /\ MineLate => PInv'
<1> SUFFICES ASSUME IInv, PInv, MineLate PROVE PInv'
  OBVIOUS
<1>1. PICK op \in late : vaults' = ApplyVaults(op) /\ exts' = ApplyExts(op)
  BY DEF MineLate
<1> DEFINE w == vaults'
           x == exts'
<1>2. op \in Transactions(exts) /\ Len(exts) \in Nat
  BY Values DEF IInv, GoodLate
<1>3. op.kind \notin {"token", "deploy"} => vaults[op.vault].deployed
  BY DEF PInv, SendersDeployed
<1>4. Ids' /\ phase' \in Progress /\ SendersDeployed' /\ Built'
  BY <1>1, <1>2, <1>3, ChainKeeps DEF MineLate
<1>5. /\ Len(x) \in Nat /\ Len(exts) <= Len(x)
      /\ \A i \in 1 .. Len(exts) : x[i].sender = exts[i].sender
      /\ \A i \in 1 .. Len(x) : i > Len(exts) =>
           i = Len(exts) + 1 /\ op.kind = "register" /\ x[i].sender = op.vault
      /\ \A v \in Vaults : w[v].ext = vaults[v].ext
  BY <1>1, <1>2, ApplyAdds
<1> HIDE DEF w, x
<1>6. Building'
  <2> SUFFICES ASSUME ~proc.byHand, proc.pc # "idle" PROVE Building'
    BY DEF Building, MineLate
  <2>1. /\ phase.done = "none" /\ vaults[proc.vault].ext = 0 /\ op.vault # proc.vault
        /\ proc.pc \in {"token", "deploy", "mint", "executor", "register"} =>
             \A i \in 1 .. Len(exts) : exts[i].sender # proc.vault
        /\ proc.pc \notin {"token", "deploy", "mint", "executor", "register"} =>
             FirstOf(proc.vault, proc.ext) /\ tee.ext # proc.ext
    BY DEF PInv, Building
  <2>2. w[proc.vault].ext = 0
    BY <1>5, <2>1, Values
  <2>3. \A i \in 1 .. Len(x) : x[i].sender = proc.vault =>
          i \in 1 .. Len(exts) /\ exts[i].sender = proc.vault
    BY <1>2, <1>5, <2>1
  <2> QED BY <2>1, <2>2, <2>3 DEF MineLate, Building, FirstOf, w, x
<1> QED BY <1>4, <1>6 DEF PInv

(* Lemma.  A tool that is not running owns nothing.                        *)
LEMMA IdleBuilds == proc' = Idle => Building'
BY DEF Idle, Building

(* Lemma.  What is given up on is left behind.                             *)
LEMMA GivenUpP == IInv /\ PInv /\ GivenUp => PInv'
<1> SUFFICES ASSUME IInv, PInv, GivenUp PROVE PInv'
  OBVIOUS
<1>1. Pending.kind = proc.pc /\ Pending.vault = proc.vault /\ proc.pc \in Kinds
  BY PendingIs DEF GivenUp
<1>2. Pending.kind \notin {"token", "deploy"} => vaults[Pending.vault].deployed
  BY <1>1 DEF IInv, GoodTool, Kinds
<1>3. SendersDeployed'
  BY <1>2 DEF GivenUp, PInv, SendersDeployed
<1>4. Building'
  BY IdleBuilds DEF GivenUp
<1>5. Ids' /\ Built' /\ phase' \in Progress
  BY DEF GivenUp, PInv, Ids, Built, FirstOf
<1> QED BY <1>3, <1>4, <1>5 DEF PInv

(* Lemma.  A vault that is not deployed has no extension.                  *)
LEMMA BeginPreBuildP == IInv /\ PInv /\ BeginPreBuild => PInv'
<1> SUFFICES ASSUME IInv, PInv, BeginPreBuild PROVE PInv'
  OBVIOUS
<1> DEFINE v == CHOOSE u \in Fresh : TRUE
<1>1. v \in Fresh
  BY DEF BeginPreBuild
<1>2. proc' = [Idle EXCEPT !.pc = "token", !.vault = v]
  BY DEF BeginPreBuild
<1> HIDE DEF v
<1>3. v \in Vaults /\ ~vaults[v].deployed /\ \A op \in late : op.vault # v
  BY <1>1 DEF Fresh
<1>4. proc'.pc = "token" /\ proc'.vault = v
  BY <1>2 DEF Idle
<1>5. \A i \in 1 .. Len(exts) : exts[i].sender # v
  BY <1>3 DEF PInv, SendersDeployed
<1>6. vaults[v].ext = 0
  <2> SUFFICES ASSUME vaults[v].ext # 0 PROVE FALSE
    OBVIOUS
  <2>1. Registered(exts, v, vaults[v].ext) /\ vaults[v].ext \in Nat /\ Len(exts) \in Nat
    BY <1>3, Values DEF IInv, GoodVaults
  <2>2. vaults[v].ext + 1 \in 1 .. Len(exts)
    BY <2>1 DEF Registered
  <2> QED BY <1>5, <2>1, <2>2 DEF Registered
<1>7. Building'
  BY <1>3, <1>4, <1>5, <1>6 DEF BeginPreBuild, Building, NoPhase
<1>8. Ids' /\ Built' /\ phase' \in Progress /\ SendersDeployed'
  BY DEF BeginPreBuild, PInv, Ids, Built, SendersDeployed, NoPhase, Progress
<1> QED BY <1>7, <1>8 DEF PInv

(* Lemma.  The file is rewritten.                                          *)
LEMMA TruncateP == IInv /\ PInv /\ Truncate => PInv'
<1> SUFFICES ASSUME IInv, PInv, Truncate PROVE PInv'
  OBVIOUS
<1>1. proc.pc = "truncate" /\ ~proc.byHand
  BY DEF Truncate, At, IInv, GoodTool
<1>2. phase.done = "none" /\ phase' = phase
  BY <1>1 DEF PInv, Building, Truncate
<1>3. SendersDeployed' /\ phase' \in Progress /\ Built'
  BY <1>2 DEF PInv, SendersDeployed, Built, Truncate
<1>4. CASE proc' = Idle /\ file' = file
  BY <1>3, <1>4, IdleBuilds DEF PInv, Ids, Truncate
<1>5. CASE proc' = [proc EXCEPT !.pc = "write"] /\ file' = ByHand(EnvFile(Unset, Unset), FALSE)
  <2>1. file'.ext = Unset
    BY <1>5 DEF ByHand, EnvFile
  <2>2. Ids'
    BY <2>1 DEF PInv, Ids, Truncate, WellFormed, Unset
  <2>3. proc'.pc = "write" /\ proc'.vault = proc.vault /\ proc'.ext = proc.ext /\ ~proc'.byHand
    BY <1>1, <1>5, Values DEF Tool
  <2>4. Building'
    BY <1>1, <2>3 DEF PInv, Building, FirstOf, Truncate
  <2> QED BY <1>3, <2>2, <2>4 DEF PInv
<1> QED BY <1>4, <1>5 DEF Truncate

(* Lemma.  The file names what the script has registered.                  *)
LEMMA WriteConfigP == IInv /\ PInv /\ WriteConfig => PInv'
<1> SUFFICES ASSUME IInv, PInv, WriteConfig PROVE PInv'
  OBVIOUS
<1>1. proc.pc = "write" /\ ~proc.byHand /\ proc.vault \in Vaults /\ Registered(exts, proc.vault, proc.ext)
  BY DEF WriteConfig, At, IInv, GoodTool
<1>2. FirstOf(proc.vault, proc.ext) /\ tee.ext # proc.ext /\ vaults[proc.vault].ext = 0
  BY <1>1 DEF PInv, Building
<1>3. /\ file'.readable /\ file'.ext = proc.ext /\ file'.sender = proc.vault /\ ~file'.byHand
      /\ phase'.done = "pre-build" /\ phase'.kept = FALSE
  BY DEF WriteConfig, ByHand, EnvFile, Phase
<1>4. WellFormed(proc.ext) /\ IdOf(exts, proc.ext)
  BY <1>1, Values DEF Registered, IdOf, WellFormed
<1>5. Ids' /\ SendersDeployed' /\ phase' \in Progress
  <2>1. Phase("pre-build") \in Progress
    BY DEF Phase, Progress
  <2> QED BY <1>3, <1>4, <2>1 DEF PInv, Ids, SendersDeployed, WriteConfig
<1>6. Built'
  BY <1>1, <1>2, <1>3, <1>4 DEF Built, FirstOf, WriteConfig
<1>7. Building'
  BY IdleBuilds DEF WriteConfig
<1> QED BY <1>5, <1>6, <1>7 DEF PInv

(* Lemma.  A script that dies may leave an id in half a file.              *)
LEMMA CrashP == IInv /\ PInv /\ Crash => PInv'
<1> SUFFICES ASSUME IInv, PInv, Crash PROVE PInv'
  OBVIOUS
<1>1. Building' /\ SendersDeployed' /\ phase' \in Progress
  BY IdleBuilds DEF PInv, SendersDeployed, Crash
<1>2. CASE At("write")
  <2>1. PICK e \in {Unset, Malformed, proc.ext}, s \in {Unset, Malformed} :
          file' = ByHand(EnvFile(e, s), FALSE)
    BY <1>2 DEF Crash
  <2>2. file'.ext = e
    BY <2>1 DEF ByHand, EnvFile
  <2>3. ~proc.byHand /\ Registered(exts, proc.vault, proc.ext)
    BY <1>2 DEF At, IInv, GoodTool
  <2>4. WellFormed(file'.ext) => IdOf(exts, file'.ext)
    BY <2>2, <2>3 DEF WellFormed, Unset, Malformed, Registered, IdOf
  <2>5. phase.done = "none"
    BY <1>2, <2>3 DEF At, PInv, Building
  <2> QED BY <1>1, <2>4, <2>5 DEF PInv, Ids, Built, Crash
<1>3. CASE ~At("write")
  BY <1>1, <1>3 DEF PInv, Ids, Built, FirstOf, Crash
<1> QED BY <1>2, <1>3

(* Lemma.  What is done by hand.                                           *)
LEMMA ByHandP ==
  IInv /\ PInv /\ ((\E v \in Vaults : RegisterByHand(v)) \/ EditFile \/ LockFile \/ DeleteFile) => PInv'
<1>1. ASSUME IInv, PInv, NEW v \in Vaults, RegisterByHand(v) PROVE PInv'
  <2>1. proc'.byHand
    BY <1>1 DEF RegisterByHand, Idle
  <2> QED BY <1>1, <2>1 DEF PInv, Ids, SendersDeployed, Building, Built, FirstOf, RegisterByHand
<1>2. ASSUME IInv, PInv, EditFile PROVE PInv'
  <2>1. file'.ext = proc.ext /\ Registered(exts, proc.vault, proc.ext)
    BY <1>2 DEF EditFile, At, IInv, GoodTool, ByHand, EnvFile
  <2>2. IdOf(exts, file'.ext)
    BY <2>1 DEF Registered, IdOf
  <2>3. Building'
    BY <1>2, IdleBuilds DEF EditFile
  <2> QED BY <1>2, <2>2, <2>3 DEF PInv, Ids, SendersDeployed, Built, EditFile, NoPhase, Progress
<1>3. ASSUME IInv, PInv, LockFile PROVE PInv'
  <2>1. ~WellFormed(file'.ext) /\ phase' \in Progress /\ phase'.done = "none"
    BY <1>3 DEF LockFile, ByHand, Unreadable, WellFormed, Unset, NoPhase, Progress
  <2> QED BY <1>3, <2>1 DEF PInv, Ids, SendersDeployed, Building, Built, FirstOf, LockFile
<1>4. ASSUME IInv, PInv, DeleteFile PROVE PInv'
  <2>1. ~WellFormed(file'.ext)
    BY <1>4 DEF DeleteFile, ByHand, NoFile, WellFormed, Unset
  <2>2. phase.done = "none"
    BY <1>4 DEF DeleteFile, PInv, Built
  <2> QED BY <1>4, <2>1, <2>2 DEF PInv, Ids, SendersDeployed, Building, Built, FirstOf, DeleteFile
<1> QED BY <1>1, <1>2, <1>3, <1>4

(* Lemma.  A TEE that starts is for the file's extension, and it is new.   *)
LEMMA StartServicesP == IInv /\ PInv /\ StartServices => PInv'
<1> SUFFICES ASSUME IInv, PInv, StartServices PROVE PInv'
  OBVIOUS
<1>1. Len(exts) \in Nat /\ file \in File /\ proc.pc = "idle"
  BY Values DEF StartServices, At
<1>2. tee' \in Tee /\ ~tee'.registered /\ (WellFormed(tee'.ext) => IdOf(exts, tee'.ext))
  <2>1. \A e \in Value : Started(e) \in Tee
    BY DEF Started, Tee
  <2>2. NoTee \in Tee /\ ~NoTee.registered /\ ~WellFormed(NoTee.ext)
    BY DEF NoTee, Tee, Value, WellFormed, Unset
  <2>3. CASE WellFormed(file.ext)
    <3>1. tee' = Started(file.ext)
      BY <2>3 DEF StartServices, TeesFor
    <3>2. tee'.ext = file.ext /\ ~tee'.registered /\ tee' \in Tee
      BY <1>1, <2>1, <3>1 DEF Started, File
    <3> QED BY <3>2 DEF PInv, Ids
  <2>4. CASE ~WellFormed(file.ext)
    <3>1. tee' \in {NoTee} \cup {Started(e) : e \in {Malformed} \cup 0 .. Len(exts) - 1}
      BY <2>4 DEF StartServices, TeesFor
    <3>2. CASE tee' = NoTee
      BY <2>2, <3>2
    <3>3. ASSUME NEW e \in {Malformed} \cup 0 .. Len(exts) - 1, tee' = Started(e)
          PROVE  tee' \in Tee /\ ~tee'.registered /\ (WellFormed(tee'.ext) => IdOf(exts, tee'.ext))
      <4>1. e \in Value /\ (WellFormed(e) => IdOf(exts, e))
        BY <1>1 DEF Value, WellFormed, Malformed, IdOf
      <4>2. tee'.ext = e /\ ~tee'.registered
        BY <3>3 DEF Started
      <4> QED BY <2>1, <3>3, <4>1, <4>2
    <3> QED BY <3>1, <3>2, <3>3
  <2> QED BY <2>3, <2>4
<1>3. \A e \in old' : IdOf(exts, e)
  BY DEF StartServices, Left, PInv, Ids
<1>4. Ids' /\ SendersDeployed' /\ Building'
  BY <1>1, <1>2, <1>3 DEF StartServices, PInv, Ids, SendersDeployed, Building
<1>5. CASE phase.done = "pre-build"
  <2>1. /\ file.readable /\ ~file.byHand /\ WellFormed(file.ext) /\ file.sender \in Vaults
        /\ FirstOf(file.sender, file.ext) /\ tee.ext # file.ext
        /\ vaults[file.sender].ext \in {0, file.ext}
    BY <1>5 DEF PInv, Built
  <2>2. phase' = Phase("start") /\ tee' = Started(file.ext)
    BY <1>5, <2>1 DEF StartServices, TeesFor
  <2>3. phase'.done = "start" /\ phase' \in Progress /\ tee'.up /\ tee'.ext = file.ext
    BY <2>2 DEF Phase, Progress, Started
  <2>4. file.ext \notin old'
    BY <2>1 DEF StartServices, Left, FirstOf
  <2>5. Built'
    BY <2>1, <2>3, <2>4 DEF StartServices, Built, FirstOf
  <2> QED BY <1>4, <2>3, <2>5 DEF PInv
<1>6. CASE phase.done # "pre-build"
  <2>1. phase' = NoPhase
    BY <1>6 DEF StartServices
  <2>2. phase'.done = "none" /\ phase' \in Progress
    BY <2>1 DEF NoPhase, Progress
  <2> QED BY <1>4, <2>2 DEF PInv, Built
<1> QED BY <1>5, <1>6

(* Lemma.  A TEE that is kept, or not the one of the phases.               *)
LEMMA KeepServicesP == IInv /\ PInv /\ (\E local \in BOOLEAN : KeepServices(local)) => PInv'
<1> SUFFICES ASSUME IInv, PInv, NEW local \in BOOLEAN, KeepServices(local) PROVE PInv'
  OBVIOUS
<1>1. proc.pc = "idle"
  BY DEF KeepServices, At
<1>2. Ids' /\ SendersDeployed' /\ Building'
  BY <1>1 DEF KeepServices, PInv, Ids, SendersDeployed, Building
<1>3. CASE phase.done = "pre-build"
  <2>1. phase' = [done |-> "start", kept |-> TRUE]
    BY <1>3 DEF KeepServices
  <2>2. phase'.done = "start" /\ phase'.kept /\ phase' \in Progress
    BY <2>1 DEF Progress
  <2> QED BY <1>2, <1>3, <2>2 DEF KeepServices, PInv, Built, FirstOf
<1>4. CASE phase.done # "pre-build"
  BY <1>2, <1>4 DEF KeepServices, PInv, Built, FirstOf
<1> QED BY <1>3, <1>4

(* Lemma.  A machine that loses its TEE is not of the file's extension.    *)
LEMMA StopServicesP == IInv /\ PInv /\ StopServices => PInv'
<1> SUFFICES ASSUME IInv, PInv, StopServices PROVE PInv'
  OBVIOUS
<1>1. tee' \in Tee /\ ~tee'.registered /\ ~WellFormed(tee'.ext) /\ tee'.ext = Unset
  BY DEF StopServices, NoTee, Tee, Value, WellFormed, Unset
<1>2. Ids' /\ SendersDeployed'
  BY <1>1 DEF StopServices, Left, PInv, Ids, SendersDeployed
<1>3. Building'
  BY <1>1, Values DEF StopServices, Left, PInv, Building, FirstOf, NoPhase
<1>4. CASE phase.done = "pre-build"
  <2>1. WellFormed(file.ext) /\ tee'.ext # file.ext
    BY <1>1, <1>4 DEF PInv, Built
  <2> QED BY <1>2, <1>3, <1>4, <2>1 DEF StopServices, Left, PInv, Built, FirstOf
<1>5. CASE phase.done # "pre-build"
  <2>1. phase'.done = "none" /\ phase' \in Progress
    BY <1>5 DEF StopServices, NoPhase, Progress
  <2> QED BY <1>2, <1>3, <2>1 DEF PInv, Built
<1> QED BY <1>4, <1>5

(* Lemma.  The running TEE is registered.                                  *)
LEMMA PostBuildP == IInv /\ PInv /\ PostBuild => PInv'
<1> SUFFICES ASSUME IInv, PInv, PostBuild PROVE PInv'
  OBVIOUS
<1>1. proc.pc = "idle" /\ tee \in Tee /\ WellFormed(tee.ext) /\ phase \in Progress
  BY Values DEF PostBuild, At, Known, PInv, Ids, WellFormed
<1>2. tee' \in Tee /\ tee'.up = tee.up /\ tee'.ext = tee.ext /\ tee'.registered
  BY <1>1 DEF PostBuild, Tee
<1>3. Ids' /\ SendersDeployed' /\ Building'
  BY <1>1, <1>2 DEF PostBuild, PInv, Ids, SendersDeployed, Building
<1>4. CASE phase.done = "start"
  <2>1. phase' \in Progress /\ phase'.done = "post-build" /\ phase'.kept = phase.kept
    BY <1>1, <1>4 DEF PostBuild, Progress
  <2> QED BY <1>2, <1>3, <1>4, <2>1 DEF PostBuild, PInv, Built, FirstOf
<1>5. CASE phase.done # "start"
  BY <1>2, <1>3, <1>5 DEF PostBuild, PInv, Built, FirstOf
<1> QED BY <1>4, <1>5

(* Lemma.  With the phases behind it, run-test means the file's extension. *)
LEMMA ChosenIs ==
  ASSUME IInv, PInv, phase.done # "none"
  PROVE  /\ file.sender \in Vaults /\ vaults[file.sender].deployed
         /\ Using(file.sender) # {} /\ SetExtensionId(file.sender) = file.ext
<1>1. /\ ~file.byHand /\ WellFormed(file.ext) /\ file.sender \in Vaults
      /\ FirstOf(file.sender, file.ext) /\ vaults[file.sender].ext \in {0, file.ext}
  BY DEF PInv, Built
<1>2. Complete(vaults, exts, file.sender, file.ext) /\ vaults[file.sender].deployed
  BY <1>1 DEF IInv, GoodFile
<1>3. file.ext \in Nat /\ Len(exts) \in Nat
  BY <1>1, WellFormedIs, Values DEF File
<1> DEFINE v == file.sender
<1>4. file.ext \in Using(v)
  BY <1>1, <1>2, <1>3, UsingIs DEF Complete
<1>5. ASSUME NEW i \in Using(v) PROVE file.ext <= i
  <2>1. i \in Nat /\ Registered(exts, v, i)
    BY <1>1, UsingIs
  <2>2. i + 1 \in 1 .. Len(exts) /\ exts[i + 1].sender = v
    BY <1>3, <2>1 DEF Registered
  <2>3. file.ext < i + 1
    BY <1>1, <2>2 DEF FirstOf
  <2> QED BY <1>3, <2>1, <2>3
<1>6. FirstUsing(v) = file.ext
  <2>1. \E i \in Using(v) : \A j \in Using(v) : i <= j
    BY <1>4, <1>5
  <2>2. FirstUsing(v) \in Using(v) /\ \A j \in Using(v) : FirstUsing(v) <= j
    BY <2>1 DEF FirstUsing
  <2>3. FirstUsing(v) \in Nat /\ FirstUsing(v) <= file.ext /\ file.ext <= FirstUsing(v)
    BY <1>1, <1>4, <1>5, <2>2, UsingIs
  <2> QED BY <1>3, <2>3
<1> QED BY <1>1, <1>2, <1>4, <1>6 DEF SetExtensionId

(* Lemma.  run-test fixes the vault's extension to the file's.             *)
LEMMA RunTestP == IInv /\ PInv /\ RunTest => PInv'
<1> SUFFICES ASSUME IInv, PInv, RunTest PROVE PInv'
  OBVIOUS
<1> DEFINE v == file.sender
<1>1. proc.pc = "idle" /\ UNCHANGED <<exts, old, file, late, proc, tee, phase>>
  BY DEF RunTest, At
<1>2. \/ vaults' = vaults
      \/ v \in Vaults /\ vaults' = [vaults EXCEPT ![v].ext = SetExtensionId(v)]
  BY DEF RunTest
<1>3. \A u \in Vaults : vaults'[u].deployed = vaults[u].deployed
  <2>1. CASE vaults' = vaults
    BY <2>1
  <2>2. CASE v \in Vaults /\ vaults' = [vaults EXCEPT ![v].ext = SetExtensionId(v)]
    <3> DEFINE new == [vaults[v] EXCEPT !.ext = SetExtensionId(v)]
    <3>1. vaults[v] \in Vault
      BY <2>2, Values
    <3>2. new.deployed = vaults[v].deployed
      BY <3>1 DEF Vault
    <3>3. vaults' = [vaults EXCEPT ![v] = new]
      BY <2>2
    <3> HIDE DEF new
    <3> QED BY <2>2, <3>2, <3>3, Values
  <2> QED BY <1>2, <2>1, <2>2
<1>4. \A op \in late : op.vault \in Vaults
  BY DEF IInv, GoodLate, Transactions
<1>5. Ids' /\ SendersDeployed' /\ Building' /\ phase' \in Progress
  BY <1>1, <1>3, <1>4 DEF PInv, Ids, SendersDeployed, Building
<1>6. Built'
  <2> SUFFICES ASSUME phase.done # "none" PROVE Built'
    BY <1>1 DEF Built
  <2>1. v \in Vaults /\ vaults[v].ext \in {0, file.ext} /\ SetExtensionId(v) = file.ext
    BY ChosenIs DEF PInv, Built
  <2>2. vaults'[v].ext \in {0, file.ext}
    BY <1>2, <2>1, Values DEF Vault
  <2> QED BY <1>1, <2>2 DEF PInv, Built, FirstOf
<1> QED BY <1>5, <1>6 DEF PInv

(* Lemma.  Another's extension comes after those that are there.           *)
LEMMA RegisterForeignP == IInv /\ PInv /\ RegisterForeign => PInv'
<1> SUFFICES ASSUME IInv, PInv, RegisterForeign PROVE PInv'
  OBVIOUS
<1>1. exts \in Seq(Ext) /\ Len(exts) \in Nat /\ Extension(0) \in Ext /\ Extension(0).sender = 0
  BY Values DEF IInv, GoodVaults, Extension, Ext
<1>2. /\ Len(exts') = Len(exts) + 1 /\ exts'[Len(exts) + 1].sender = 0
      /\ \A i \in 1 .. Len(exts) : exts'[i] = exts[i]
  BY <1>1, AppendProperties DEF RegisterForeign
<1>3. \A i \in 1 .. Len(exts'), u \in Vaults : exts'[i].sender = u =>
        i \in 1 .. Len(exts) /\ exts[i].sender = u
  BY <1>1, <1>2, Values
<1>4. \A e : IdOf(exts, e) => IdOf(exts', e)
  BY <1>1, <1>2 DEF IdOf
<1>5. Ids' /\ SendersDeployed' /\ phase' \in Progress
  BY <1>3, <1>4 DEF RegisterForeign, PInv, Ids, SendersDeployed
<1>6. Building'
  BY <1>3, Values DEF RegisterForeign, PInv, Building, FirstOf
<1>7. Built'
  BY <1>3 DEF RegisterForeign, PInv, Built, FirstOf
<1> QED BY <1>5, <1>6, <1>7 DEF PInv

(* Lemma.  What the phases have nothing to do with.                        *)
LEMMA OthersP ==
  PInv /\ UNCHANGED <<exts, vaults, old, file, proc, tee, phase>> /\ late' \subseteq late => PInv'
BY DEF PInv, Ids, SendersDeployed, Building, Built, FirstOf

(* Lemma.  The first state.                                                *)
LEMMA InitP == Init => PInv
<1> SUFFICES ASSUME Init PROVE PInv
  OBVIOUS
<1>1. IInv
  BY InitInv
<1>2. tee \in Tee /\ ~tee.registered /\ ~WellFormed(tee.ext) /\ ~WellFormed(file.ext)
  BY DEF Init, NoTee, Tee, Value, WellFormed, Unset, ByHand, NoFile
<1>3. \A i \in 1 .. Len(exts) : exts[i].sender = 0
  <2>1. CASE exts = <<>>
    BY <2>1
  <2>2. CASE exts = <<Extension(0)>>
    BY <2>2 DEF Extension
  <2> QED BY <2>1, <2>2 DEF Init
<1>4. SendersDeployed
  BY <1>1, <1>3, Values DEF Init, SendersDeployed
<1>5. phase \in Progress /\ phase.done = "none" /\ proc.pc = "idle"
  BY DEF Init, NoPhase, Progress, Idle
<1> QED BY <1>2, <1>4, <1>5 DEF Init, PInv, Ids, Building, Built

(* Lemma.  Every step keeps it.                                            *)
LEMMA StepP == IInv /\ PInv /\ [Next]_vars => PInv'
<1> SUFFICES ASSUME IInv, PInv, [Next]_vars PROVE PInv'
  OBVIOUS
<1>1. CASE ToolStep
  BY <1>1, MinedP, TruncateP, WriteConfigP, ByHandP DEF ToolStep
<1>2. CASE GivenUp \/ MineLate \/ Crash
  BY <1>2, GivenUpP, MineLateP, CrashP
<1>3. CASE PreBuild \/ PreBuildAgain
  BY <1>3, BeginPreBuildP DEF PreBuild, PreBuildAgain
<1>4. CASE (\E v \in Vaults : RegisterByHand(v)) \/ LockFile \/ DeleteFile
  BY <1>4, ByHandP
<1>5. CASE StartServices \/ (\E local \in BOOLEAN : KeepServices(local)) \/ StopServices \/ PostBuild
  BY <1>5, StartServicesP, KeepServicesP, StopServicesP, PostBuildP
<1>6. CASE RunTest \/ RegisterForeign
  BY <1>6, RunTestP, RegisterForeignP
<1>7. CASE DropLate \/ RepairSite \/ UNCHANGED vars
  BY <1>7, OthersP DEF DropLate, RepairSite, vars
<1> QED BY <1>1, <1>2, <1>3, <1>4, <1>5, <1>6, <1>7 DEF Next

(* Theorem.  pre-build.sh, start-services.sh and post-build.sh having run  *)
(* in order and to their ends, and start-services.sh having started the    *)
(* TEE and not kept one, run-test passes for every extension but 0,        *)
(* whatever was left behind by runs that died, registered by hand or by    *)
(* others or mined late.                                                   *)
THEOREM SetupTestServes == Spec => TestServes
<1> DEFINE Asked == RunTest /\ phase.done = "post-build" /\ ~phase.kept /\ file.ext # 0
<1>1. ASSUME IInv, PInv, Asked
      PROVE  test' = "passed"
  <2> DEFINE v == file.sender
             e == SetExtensionId(v)
  <2>1. v \in Vaults /\ vaults[v].deployed /\ Using(v) # {} /\ e = file.ext
    BY <1>1, ChosenIs
  <2>2. tee.up /\ tee.ext = file.ext /\ tee.registered /\ file.ext \notin old
    BY <1>1 DEF PInv, Built, FirstOf
  <2>3. Chosen(e) = {"running"}
    BY <2>1, <2>2 DEF Chosen
  <2>4. ~(v \notin Vaults \/ ~tee.up \/ ~vaults[v].deployed \/ (vaults[v].ext = 0 /\ Using(v) = {}))
    BY <2>1, <2>2
  <2>5. \/ e # 0 /\ "running" \in Chosen(e) /\ test' = "passed"
        \/ (e = 0 \/ Chosen(e) # {"running"}) /\ test' = "failed"
    BY <1>1, <2>4 DEF RunTest
  <2> QED BY <1>1, <2>1, <2>3, <2>5
<1>2. IInv /\ PInv /\ [Next]_vars =>
        [RunTest /\ phase.done = "post-build" /\ ~phase.kept /\ file.ext # 0 => test' = "passed"]_vars
  BY <1>1
<1>3. Init => IInv /\ PInv
  BY InitInv, InitP
<1>4. IInv /\ PInv /\ [Next]_vars => (IInv /\ PInv)'
  BY StepInv, StepP
<1> QED BY <1>2, <1>3, <1>4, PTL DEF Spec, TestServes
=============================================================================
