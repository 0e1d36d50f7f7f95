--------------------------- MODULE ExtensionSetup ---------------------------
(***************************************************************************)
(* Bringing the extension up: pre-build.sh deploys the vault and registers *)
(* an extension for it (deploy-contract, register-extension), writing      *)
(* config/extension.env; start-services.sh starts the TEE for the file's   *)
(* extension; post-build.sh registers that TEE (RegisterNode, one step     *)
(* here); test.sh configures the vault and places an order (run-test).     *)
(* The tools may die at any point or give up on a transaction that is      *)
(* mined later; others register extensions of their own.                   *)
(***************************************************************************)
EXTENDS DeploymentChecks

CONSTANTS MaxVaults,    \* bound on deployed vaults
          MaxExts,      \* bound on registered extensions
          MaxFaults,    \* bound on failures and interventions
          Sites,        \* initial states of the rest of the site
          Env           \* the environment of the tools

VARIABLES exts,         \* the registry's extensions
          vaults,       \* the vaults deployed
          old,          \* extensions with a machine in production whose TEE is gone
          site,         \* manager contract, balance, node
          file,         \* config/extension.env; byHand is history
          late,         \* a transaction given up on, still in the mempool
          proc,         \* the running tool
          tee,          \* the running TEE
          test,         \* how the last run-test ended
          phase,        \* phases run in order since the last pre-build.sh: history
          faults

vars == <<exts, vaults, old, site, file, late, proc, tee, test, phase, faults>>

Vaults == 1 .. MaxVaults
Good == [manager |-> "code", funded |-> TRUE, ftso |-> TRUE, answers |-> Queries]

ASSUME SetupAssumption ==
  /\ MaxVaults \in Nat /\ MaxExts \in Nat /\ MaxFaults \in Nat
  /\ \A s \in Sites : s.answers \subseteq Queries

-----------------------------------------------------------------------------
(* Sender 0 stands for every contract that is not one of the vaults.       *)
Extension(sender) == [sender |-> sender, owner |-> FALSE, project |-> FALSE, evm |-> FALSE]

NewVault == [deployed |-> FALSE, pool |-> FALSE, executor |-> FALSE, ext |-> 0]

ByHand(f, hand) == [exists |-> f.exists, readable |-> f.readable, ext |-> f.ext,
                    sender |-> f.sender, byHand |-> hand]

(* A TEE makes a key when it starts: each start is another TEE, and none   *)
(* but the running one can have a new machine in production.               *)
NoTee == [up |-> FALSE, ext |-> Unset, registered |-> FALSE]
Started(ext) == [up |-> TRUE, ext |-> ext, registered |-> FALSE]

NoPhase == [done |-> "none", kept |-> FALSE]
Phase(done) == [done |-> done, kept |-> FALSE]

Idle == [pc |-> "idle", vault |-> 0, ext |-> 0, byHand |-> FALSE]

Init ==
  /\ exts \in {<<>>, <<Extension(0)>>}
  /\ vaults = [v \in Vaults |-> NewVault]
  /\ old = {}
  /\ site \in Sites
  /\ file = ByHand(NoFile, FALSE)
  /\ late = {}
  /\ proc = Idle
  /\ tee = NoTee
  /\ test = "none"
  /\ phase = NoPhase
  /\ faults = 0

Fault == faults < MaxFaults /\ faults' = faults + 1
NoFault == faults' = faults
At(pc) == proc.pc = pc

-----------------------------------------------------------------------------
(* Transactions of the deployer, one after the other.                      *)

Op(kind, v, e) == [kind |-> kind, vault |-> v, ext |-> e]

ApplyVaults(op) ==
  CASE op.kind = "deploy"   -> [vaults EXCEPT ![op.vault].deployed = TRUE]
    [] op.kind = "mint"     -> [vaults EXCEPT ![op.vault].pool = TRUE]
    [] op.kind = "executor" -> [vaults EXCEPT ![op.vault].executor = TRUE]
    [] OTHER                -> vaults

ApplyExts(op) ==
  CASE op.kind = "register" -> Append(exts, Extension(op.vault))
    [] op.kind = "owner"    -> [exts EXCEPT ![op.ext + 1].owner = TRUE]
    [] op.kind = "project"  -> [exts EXCEPT ![op.ext + 1].project = TRUE]
    [] op.kind = "key"      -> [exts EXCEPT ![op.ext + 1].evm = TRUE]
    [] OTHER                -> exts

(* The token of a vault comes first; until there is a vault nothing names  *)
(* it.                                                                     *)
Order == <<"token", "deploy", "mint", "executor",
           "register", "owner", "project", "key", "truncate">>
Sending == \E i \in 1 .. 8 : At(Order[i])
After(pc) == Order[1 + CHOOSE i \in 1 .. 8 : Order[i] = pc]

Pending == Op(proc.pc, proc.vault, proc.ext)

(* Mutant of Mined: the extension's id taken from the counter beforehand.  *)
MinedCounting ==
  /\ Sending /\ late = {} /\ NoFault
  /\ vaults' = ApplyVaults(Pending) /\ exts' = ApplyExts(Pending)
  /\ proc' = [proc EXCEPT !.pc = IF At("key") /\ proc.byHand THEN "edit" ELSE After(proc.pc),
                          !.ext = IF At("mint") THEN Len(exts) ELSE @]
  /\ UNCHANGED <<old, site, file, late, tee, test, phase>>

(* The tool saw its transaction mined.  register returns the id that the   *)
(* event names; what is there already is not sent again.                   *)
Mined ==
  /\ Sending /\ late = {} /\ NoFault
  /\ vaults' = ApplyVaults(Pending) /\ exts' = ApplyExts(Pending)
  /\ proc' = [proc EXCEPT !.pc = IF At("key") /\ proc.byHand THEN "edit" ELSE After(proc.pc),
                          !.ext = IF At("register") THEN Len(exts) ELSE @]
  /\ UNCHANGED <<old, site, file, late, tee, test, phase>>

(* Not mined within two minutes, or the tool died waiting.                 *)
GivenUp ==
  /\ Sending /\ late = {} /\ Fault
  /\ late' = {Pending}
  /\ proc' = Idle
  /\ UNCHANGED <<exts, vaults, old, site, file, tee, test, phase>>

MineLate ==
  /\ late # {} /\ NoFault
  /\ \E op \in late : vaults' = ApplyVaults(op) /\ exts' = ApplyExts(op)
  /\ late' = {}
  /\ UNCHANGED <<old, site, file, proc, tee, test, phase>>

DropLate ==
  /\ late # {} /\ NoFault
  /\ late' = {}
  /\ UNCHANGED <<exts, vaults, old, site, file, proc, tee, test, phase>>

-----------------------------------------------------------------------------
(* pre-build.sh.                                                           *)

(* deploy-contract --preflight-only.                                       *)
Preflight ==
  /\ "chain" \in site.answers
  /\ AddressNotZero(site) /\ AddressHasCode(site) /\ KeyHasFunds(site)
  /\ site.ftso

Verified == VerifyDeploy("all", {}, file, exts, site, Env)

Fresh == {v \in Vaults : ~vaults[v].deployed /\ \A op \in late : op.vault # v}

BeginPreBuild ==
  /\ At("idle")
  /\ Preflight /\ Fresh # {}
  /\ proc' = [Idle EXCEPT !.pc = "token", !.vault = CHOOSE v \in Fresh : TRUE]
  /\ phase' = NoPhase
  /\ UNCHANGED <<exts, vaults, old, site, file, late, tee, test>>

(* Run when there is no file or verify-deploy faults it, or without need.  *)
PreBuild == (~file.exists \/ (file.readable /\ ~Verified)) /\ NoFault /\ BeginPreBuild
PreBuildAgain == file.exists /\ (file.readable => Verified) /\ Fault /\ BeginPreBuild

(* Mutant of Truncate: a file of an earlier run is left as it is.          *)
KeepsOldFile ==
  /\ At("truncate") /\ NoFault
  /\ IF file.exists
     THEN proc' = Idle /\ file' = file
     ELSE proc' = [proc EXCEPT !.pc = "write"] /\ file' = ByHand(EnvFile(Unset, Unset), FALSE)
  /\ UNCHANGED <<exts, vaults, old, site, late, tee, test, phase>>

(* cat > config/extension.env: truncated, then written; or the script dies *)
(* because the file is not its own.                                        *)
Truncate ==
  /\ At("truncate") /\ NoFault
  /\ IF file.exists /\ ~file.readable
     THEN proc' = Idle /\ file' = file
     ELSE proc' = [proc EXCEPT !.pc = "write"] /\ file' = ByHand(EnvFile(Unset, Unset), FALSE)
  /\ UNCHANGED <<exts, vaults, old, site, late, tee, test, phase>>

WriteConfig ==
  /\ At("write") /\ NoFault
  /\ file' = ByHand(EnvFile(proc.ext, proc.vault), FALSE)
  /\ proc' = Idle
  /\ phase' = Phase("pre-build")
  /\ UNCHANGED <<exts, vaults, old, site, late, tee, test>>

(* The script dies; in the middle of the write it leaves part of the file. *)
Crash ==
  /\ ~At("idle") /\ Fault
  /\ proc' = Idle
  /\ IF At("write")
     THEN \E e \in {Unset, Malformed, proc.ext}, s \in {Unset, Malformed} :
            file' = ByHand(EnvFile(e, s), FALSE)
     ELSE file' = file
  /\ UNCHANGED <<exts, vaults, old, site, late, tee, test, phase>>

(* register-extension run by hand for a vault that is already deployed;    *)
(* its output goes into the file by hand.                                  *)
RegisterByHand(v) ==
  /\ At("idle") /\ Fault
  /\ "code" \in site.answers /\ vaults[v].deployed
  /\ proc' = [Idle EXCEPT !.pc = "register", !.vault = v, !.byHand = TRUE]
  /\ UNCHANGED <<exts, vaults, old, site, file, late, tee, test, phase>>

EditFile ==
  /\ At("edit") /\ NoFault
  /\ file' = ByHand(EnvFile(proc.ext, proc.vault), TRUE)
  /\ proc' = Idle
  /\ phase' = NoPhase
  /\ UNCHANGED <<exts, vaults, old, site, late, tee, test>>

(* The file is made another user's (a run with sudo, say), and deleted, as *)
(* S2 and V4 then ask.                                                     *)
LockFile ==
  /\ file.readable /\ ~At("write") /\ Fault
  /\ file' = ByHand(Unreadable, FALSE)
  /\ phase' = NoPhase
  /\ UNCHANGED <<exts, vaults, old, site, late, proc, tee, test>>

DeleteFile ==
  /\ At("idle") /\ file.exists /\ ~file.readable /\ NoFault
  /\ file' = ByHand(NoFile, FALSE)
  /\ UNCHANGED <<exts, vaults, old, site, late, proc, tee, test, phase>>

-----------------------------------------------------------------------------
(* start-services.sh, post-build.sh, test.sh.                              *)

(* What the TEE node makes of a value that is no extension id is its own   *)
(* affair: it may not run, or run for some extension or for none.          *)
TeesFor(value) ==
  IF WellFormed(value) THEN {Started(value)}
  ELSE {NoTee} \cup {Started(e) : e \in {Malformed} \cup 0 .. Len(exts) - 1}

(* The machine of a TEE that goes stays in production.                     *)
Left == IF tee.registered THEN old \cup {tee.ext} ELSE old

(* The file's value is only looked at for not being empty.                 *)
StartServices ==
  /\ At("idle") /\ NoFault
  /\ file.readable /\ file.ext # Unset
  /\ tee' \in TeesFor(file.ext)
  /\ old' = Left
  /\ phase' = IF phase.done = "pre-build" THEN Phase("start") ELSE NoPhase
  /\ UNCHANGED <<exts, vaults, site, file, late, proc, test>>

(* Docker Compose keeps the container of an image and value as before, and *)
(* with --local a TEE that is running is kept, whatever it runs for.       *)
KeepServices(local) ==
  /\ At("idle") /\ NoFault
  /\ file.readable /\ file.ext # Unset
  /\ tee.up /\ (local \/ tee.ext = file.ext)
  /\ phase' = IF phase.done = "pre-build" THEN [done |-> "start", kept |-> TRUE] ELSE phase
  /\ UNCHANGED <<exts, vaults, old, site, file, late, proc, tee, test>>

StopServices ==
  /\ tee.up /\ NoFault
  /\ tee' = NoTee
  /\ old' = Left
  /\ phase' = IF phase.done = "pre-build" THEN phase ELSE NoPhase
  /\ UNCHANGED <<exts, vaults, site, file, late, proc, test>>

(* The running TEE becomes a machine of the extension it reports, whatever *)
(* the file says.                                                          *)
PostBuild ==
  /\ At("idle") /\ NoFault
  /\ tee.up /\ Known(exts, tee.ext) /\ exts[tee.ext + 1].owner
  /\ tee' = [tee EXCEPT !.registered = TRUE]
  /\ phase' = IF phase.done = "start" THEN [phase EXCEPT !.done = "post-build"] ELSE phase
  /\ UNCHANGED <<exts, vaults, old, site, file, late, proc, test>>

(* The vault's setExtensionId: the first extension it is the sender of.    *)
Using(v) == {i \in 0 .. Len(exts) - 1 : SenderOf(exts, i) = v}
FirstUsing(v) == CHOOSE i \in Using(v) : \A j \in Using(v) : i <= j

(* Mutant of SetExtensionId: the newest extension, whoever it is for.      *)
NewestExtension(v) == IF vaults[v].ext # 0 THEN vaults[v].ext ELSE Len(exts) - 1

(* run-test calls it and carries on if it was set before.                  *)
SetExtensionId(v) == IF vaults[v].ext # 0 THEN vaults[v].ext ELSE FirstUsing(v)

(* Whether the TEE that runs, and is behind the proxy, is among the        *)
(* machines the registry chooses from for an extension, and others.        *)
Chosen(e) == (IF tee.registered /\ tee.ext = e THEN {"running"} ELSE {})
               \cup (IF e \in old THEN {"gone"} ELSE {})

(* run-test: the vault takes the order if its extension is set and has a   *)
(* machine, and the result comes to the proxy if that is the TEE behind    *)
(* it.  test.sh stops without a sender in the file or a proxy.             *)
RunTest ==
  /\ At("idle") /\ NoFault
  /\ LET v == file.sender IN
     IF v \notin Vaults \/ ~tee.up \/ ~vaults[v].deployed \/ (vaults[v].ext = 0 /\ Using(v) = {})
     THEN test' = "failed" /\ UNCHANGED vaults
     ELSE LET e == SetExtensionId(v) IN
          /\ vaults' = [vaults EXCEPT ![v].ext = e]
          /\ \/ e # 0 /\ "running" \in Chosen(e) /\ test' = "passed"
             \/ (e = 0 \/ Chosen(e) # {"running"}) /\ test' = "failed"
  /\ UNCHANGED <<exts, old, site, file, late, proc, tee, phase>>

-----------------------------------------------------------------------------
(* Around the tools.                                                       *)

RegisterForeign ==
  /\ Len(exts) < MaxExts /\ Fault
  /\ exts' = Append(exts, Extension(0))
  /\ UNCHANGED <<vaults, old, site, file, late, proc, tee, test, phase>>

(* The account is funded, the addresses file corrected, the node back.     *)
RepairSite ==
  /\ site # Good /\ NoFault
  /\ site' = Good
  /\ UNCHANGED <<exts, vaults, old, file, late, proc, tee, test, phase>>

ToolStep == Mined \/ Truncate \/ WriteConfig \/ EditFile

Next ==
  \/ ToolStep \/ GivenUp \/ MineLate \/ DropLate \/ PreBuild \/ PreBuildAgain \/ Crash
  \/ \E v \in Vaults : RegisterByHand(v)
  \/ LockFile \/ DeleteFile
  \/ StartServices \/ (\E local \in BOOLEAN : KeepServices(local))
  \/ StopServices \/ PostBuild \/ RunTest
  \/ RegisterForeign \/ RepairSite

Spec == Init /\ [][Next]_vars

(* The tools run on, the network decides about left-over transactions, the *)
(* site is put right, a file nobody can read deleted, and pre-build.sh run *)
(* again while it is needed.                                               *)
FairSpec ==
  /\ Spec
  /\ WF_vars(ToolStep) /\ WF_vars(MineLate \/ DropLate) /\ WF_vars(RepairSite)
  /\ WF_vars(DeleteFile)
  /\ SF_vars(PreBuild)

-----------------------------------------------------------------------------
(* Properties.                                                             *)

Report7 == StatusesOf(RegisterRegistrationChecks(file, exts, site), "register", "R7")

(* A report without a failure, whose scan for other extensions of the      *)
(* vault was answered and found none, means that the file, the registry    *)
(* and the vault speak of one extension: the one setExtensionId will find, *)
(* or has found, is the one in the file.                                   *)
Usable ==
  (file.exists /\ Verified /\ "scan" \in site.answers /\ Report7 = {"PASS"}) =>
    /\ FirstUsing(file.sender) = file.ext
    /\ vaults[file.sender].ext \in {0, file.ext}

(* Whatever was given up on, mined late or left half done by earlier runs, *)
(* a file that pre-build.sh has written names a vault and an extension     *)
(* with every step done (deploy-contract, SetupExtension).                 *)
PreBuiltIsComplete ==
  (WellFormed(file.ext) /\ WellFormed(file.sender) /\ ~file.byHand) =>
    LET v == vaults[file.sender]  e == exts[file.ext + 1] IN
    /\ v.deployed /\ v.pool /\ v.executor
    /\ e.sender = file.sender /\ e.owner /\ e.project /\ e.evm

(* pre-build.sh, start-services.sh and post-build.sh having run, in this   *)
(* order and to their ends, test.sh passes, and passes again, whatever     *)
(* earlier runs left behind or others do in between: the vault's extension *)
(* is the file's and its only machine the TEE that runs ("Verify each      *)
(* exits 0", "Verify second run also passes": smoketest-scenarios.md).     *)
(* Not so for extension 0, which the vault cannot tell from unset          *)
(* (DarkStopVault line 138), or for a TEE that start-services.sh has kept. *)
TestServes ==
  [][RunTest /\ phase.done = "post-build" /\ ~phase.kept /\ file.ext # 0 => test' = "passed"]_vars

(* After any failures, pre-build.sh, run again while verify-deploy calls   *)
(* for it, ends with a file that all checks accept.                        *)
Repaired == <>[](file.exists /\ Verified)
=============================================================================
