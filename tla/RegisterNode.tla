---------------------------- MODULE RegisterNode ----------------------------
(***************************************************************************)
(* Putting a TEE machine in production: scripts/post-build.sh runs         *)
(* allow-tee-version and then register-tee, whose RegisterNode             *)
(* (tools/pkg/fccutils/registration.go) sends up to four transactions and  *)
(* keeps its progress in a state file.  The tools may die at any point, a  *)
(* transaction a tool gave up on may be mined later, and the TEE may be    *)
(* restarted, which gives it another id and perhaps another image.         *)
(***************************************************************************)
EXTENDS Integers, FiniteSets

CONSTANTS Tees,          \* ids the extension's TEE takes, 1 .. n, in order
          ImageOf,       \* the code hash and platform each of them runs
          Versions,      \* version names operators use
          Commands,      \* values of -command used by hand, as sets of letters
          MaxInstr,      \* bound on instruction ids somebody still refers to
          MaxFaults      \* bound on crashes, restarts, failed writes, expiries

VARIABLES chain,         \* the registries and the verification contract
          served,        \* the TEE that answers at the proxy
          late,          \* transactions given up on, still in the mempool
          file,          \* config/register-tee.state
          proc,          \* the running tool
          faults

vars == <<chain, served, late, file, proc, faults>>

(* Images are numbered from 1; an id of an instruction is always free: six *)
(* are named in the file and by the tool, one by each transaction left.    *)
ASSUME RegisterAssumption ==
  /\ Tees = 1 .. Cardinality(Tees) /\ Cardinality(Tees) \in Nat \ {0}
  /\ DOMAIN ImageOf = Tees /\ \A t \in Tees : ImageOf[t] \in Nat \ {0}
  /\ Commands \subseteq SUBSET {"r", "R", "a", "p"}
  /\ MaxFaults \in Nat /\ MaxInstr \in Nat /\ MaxInstr > MaxFaults + 6

-----------------------------------------------------------------------------
(* The contracts, as the tools use them.                                   *)

Instrs == 1 .. MaxInstr

(* An instruction: a challenge that is still good, or an availability      *)
(* check that has been answered, is "ready".                               *)
Unused == [kind |-> "none", tee |-> 0, ready |-> FALSE]

Images == {ImageOf[t] : t \in Tees}
None == 0

Supported(t) == \E v \in Versions : chain.versions[v] = ImageOf[t]

(* A transaction: for the machine of a TEE, about an earlier instruction,  *)
(* under a version name.                                                   *)
Op(kind, t, instr, version) == [kind |-> kind, tee |-> t, instr |-> instr, version |-> version]

(* What the contracts accept: a name once, a machine once, a challenge for *)
(* a known machine, a check against a challenge that is still good.        *)
Accepts(op) ==
  CASE op.kind = "version"  -> chain.versions[op.version] = None
    [] op.kind = "register" -> chain.machines[op.tee] = "none"
    [] op.kind = "attest"   -> chain.machines[op.tee] # "none"
    [] op.kind = "check"    -> /\ op.instr # None
                               /\ chain.instrs[op.instr] =
                                    [kind |-> "attest", tee |-> op.tee, ready |-> TRUE]
    [] op.kind = "promote"  -> chain.machines[op.tee] # "none" /\ Supported(op.tee)

(* Instruction ids that the file, the tool or the mempool still name; the  *)
(* numbers of others are used again.                                       *)
Held == {file.attest, file.check, proc.attest, proc.check, proc.saved.attest, proc.saved.check}
          \cup {op.instr : op \in late}

NewInstr == CHOOSE i \in Instrs \ Held : \A j \in Instrs \ Held : i <= j

(* A new challenge replaces the machine's older ones; a check uses it up.  *)
Issue(kind, t) ==
  [i \in Instrs |->
     CASE i = NewInstr -> [kind |-> kind, tee |-> t, ready |-> kind = "attest"]
       [] i \notin Held \cup {NewInstr} -> Unused
       [] i \in Held /\ chain.instrs[i].kind = "attest" /\ chain.instrs[i].tee = t ->
            [chain.instrs[i] EXCEPT !.ready = FALSE]
       [] OTHER -> chain.instrs[i]]

Effect(op) ==
  CASE op.kind = "version"  -> [chain EXCEPT !.versions[op.version] = ImageOf[op.tee]]
    [] op.kind = "register" -> [chain EXCEPT !.machines[op.tee] = "registered",
                                             !.instrs = Issue("attest", op.tee)]
    [] op.kind = "attest"   -> [chain EXCEPT !.instrs = Issue("attest", op.tee)]
    [] op.kind = "check"    -> [chain EXCEPT !.instrs = Issue("check", op.tee)]
    [] op.kind = "promote"  -> [chain EXCEPT !.machines[op.tee] = "production"]

-----------------------------------------------------------------------------
(* The state file and the process.                                         *)

(* registrationState.  "by" is history: the TEE of all the runs that saved *)
(* to it, or that they were for several.                                   *)
Several == -1
NoState == [steps |-> {}, attest |-> None, check |-> None, by |-> 0, broken |-> FALSE]
Broken == [NoState EXCEPT !.broken = TRUE]

Idle(outcome) ==
  [pc |-> "idle", tee |-> 0, command |-> {}, resume |-> FALSE, version |-> None,
   saved |-> NoState, attest |-> None, check |-> None, outcome |-> outcome, own |-> TRUE]

Init ==
  /\ chain = [machines |-> [t \in Tees |-> "none"], versions |-> [v \in Versions |-> None],
              instrs |-> [i \in Instrs |-> Unused]]
  /\ served = 1
  /\ late = {}
  /\ file = NoState
  /\ proc = Idle("none")
  /\ faults = 0

Fault == faults < MaxFaults /\ faults' = faults + 1
NoFault == faults' = faults

(* A tool stops with FatalWithCause.                                       *)
Dies == proc' = Idle("failed")

At(pc) == proc.pc = pc
Goto(pc) == proc' = [proc EXCEPT !.pc = pc]

(* The transaction the tool is about to send.                              *)
Sending == At("version") \/ At("register") \/ At("attest") \/ At("check") \/ At("promote")

Pending ==
  Op(proc.pc, IF At("promote") THEN chain.instrs[proc.check].tee ELSE proc.tee,
     IF At("check") THEN proc.attest ELSE None,
     IF At("version") THEN proc.version ELSE None)

(* An account's transactions are mined in the order they were sent; the    *)
(* version manager may have an account of its own.                         *)
InTurn == \A op \in late : (op.kind = "version") # At("version")

(* support.CheckTx saw the transaction mined and successful.               *)
Mined == Sending /\ InTurn /\ Accepts(Pending) /\ chain' = Effect(Pending)

(* It reverts: the tool dies, except that a version name already taken is  *)
(* looked at again.                                                        *)
TxReverts ==
  /\ Sending /\ ~At("version") /\ ~Accepts(Pending)
  /\ Dies /\ NoFault
  /\ UNCHANGED <<chain, served, late, file>>

(* Mutant of TxGivenUp: a transaction not seen mined counts as done.       *)
TxTakenAsMined ==
  /\ Sending /\ Fault
  /\ late' = late \cup {Pending}
  /\ proc' = Idle(IF At("promote") THEN "registered" ELSE "failed")
  /\ UNCHANGED <<chain, served, file>>

(* CheckTx gives up after two minutes, or the tool dies while it waits:    *)
(* the transaction stays in the mempool.                                   *)
TxGivenUp ==
  /\ Sending /\ Fault
  /\ late' = late \cup {Pending}
  /\ Dies
  /\ UNCHANGED <<chain, served, file>>

-----------------------------------------------------------------------------
(* allow-tee-version.                                                      *)

(* The script as committed leaves register-tee its default command; the    *)
(* deployment guide asks that it be edited.                                *)
Committed == {"r", "a", "p"}
Edited == {"r", "R", "a", "p"}

(* post-build.sh starts: the tool reads the image from the proxy.          *)
PostBuild(version, command) ==
  /\ At("idle") /\ NoFault
  /\ proc' = [Idle("none") EXCEPT !.pc = "allow", !.tee = served, !.version = version,
                                  !.command = command]
  /\ UNCHANGED <<chain, served, late, file>>

(* The image is not sent again if it is already supported.                 *)
AllowTeeVersion ==
  /\ At("allow") /\ NoFault
  /\ Goto(IF Supported(proc.tee) THEN "allowed" ELSE "version")
  /\ UNCHANGED <<chain, served, late, file>>

AddTeeVersion ==
  /\ At("version") /\ Mined /\ NoFault
  /\ Goto("allowed")
  /\ UNCHANGED <<served, late, file>>

(* Mutant of VersionAlreadyExists: any collision is taken for success.     *)
CollisionSwallowed ==
  /\ At("version") /\ ~Accepts(Pending) /\ NoFault
  /\ Goto("allowed")
  /\ UNCHANGED <<chain, served, late, file>>

(* The name is taken: fine only if it was taken for this very image.       *)
VersionAlreadyExists ==
  /\ At("version") /\ ~Accepts(Pending) /\ NoFault
  /\ IF Supported(proc.tee) THEN Goto("allowed") ELSE Dies
  /\ UNCHANGED <<chain, served, late, file>>

-----------------------------------------------------------------------------
(* register-tee.                                                           *)

(* Start: a fresh run removes the state file, and goes on with it if that  *)
(* fails; the file is read once, and an unreadable one ends the run.       *)
Begin(command, resume) ==
  \E kept \in BOOLEAN :
    LET f == IF resume \/ kept THEN file ELSE NoState IN
    /\ IF kept THEN ~resume /\ Fault ELSE NoFault
    /\ file' = f
    /\ proc' = IF f.broken THEN Idle("failed")
               ELSE [Idle("none") EXCEPT !.pc = "r", !.tee = served, !.command = command,
                                         !.resume = resume, !.saved = f,
                                         !.own = f.by \in {0, served}]
    /\ UNCHANGED <<chain, served, late>>

RegisterTee == At("allowed") /\ Begin(proc.command, FALSE)

(* register-tee started by hand, perhaps with -resume.                     *)
Manual(command, resume) == At("idle") /\ Begin(command, resume)

Asked(letter) == letter \in proc.command
Done(letter) == letter \in proc.saved.steps

(* saveState after a step: a failed write is only warned about, and a tool *)
(* killed in the middle of it leaves a file that does not parse.           *)
Save(state, next) ==
  \/ /\ NoFault
     /\ file' = [state EXCEPT !.by = IF proc.own THEN proc.tee ELSE Several]
     /\ proc' = [next EXCEPT !.saved = state]
  \/ /\ Fault
     /\ file' = file
     /\ proc' = [next EXCEPT !.saved = state]
  \/ /\ Fault
     /\ file' = Broken
     /\ Dies

With(letter, attest) == [proc.saved EXCEPT !.steps = @ \cup {letter}, !.attest = attest]

(* Step r, when it is not asked for, done according to the file, or the    *)
(* machine is on chain: then no challenge is known, and that is saved.     *)
SkipPreRegistration ==
  /\ At("r") /\ UNCHANGED <<chain, served, late>>
  /\ \/ /\ ~Asked("r") \/ Done("r")
        /\ proc' = [proc EXCEPT !.pc = "R",
                                !.attest = IF Asked("r") THEN proc.saved.attest ELSE None]
        /\ NoFault /\ UNCHANGED file
     \/ /\ Asked("r") /\ ~Done("r") /\ chain.machines[proc.tee] # "none"
        /\ Save(With("r", None), [proc EXCEPT !.pc = "R", !.attest = None])

(* Mutant of NeedsPreRegistration: the chain is not asked.                 *)
AlwaysPreRegisters ==
  /\ At("r") /\ Asked("r") /\ ~Done("r")
  /\ Goto("register") /\ NoFault
  /\ UNCHANGED <<chain, served, late, file>>

NeedsPreRegistration ==
  /\ At("r") /\ Asked("r") /\ ~Done("r") /\ chain.machines[proc.tee] = "none"
  /\ Goto("register") /\ NoFault
  /\ UNCHANGED <<chain, served, late, file>>

PreRegistration ==
  /\ At("register") /\ Mined
  /\ Save(With("r", NewInstr), [proc EXCEPT !.pc = "R", !.attest = NewInstr])
  /\ UNCHANGED <<served, late>>

(* Step R: a fresh challenge unless the file says there is one.            *)
DecideAttestation ==
  /\ At("R") /\ NoFault
  /\ proc' = IF Asked("R") /\ ~Done("R") THEN [proc EXCEPT !.pc = "attest"]
             ELSE [proc EXCEPT !.pc = "a",
                               !.attest = IF Asked("R") THEN proc.saved.attest ELSE @]
  /\ UNCHANGED <<chain, served, late, file>>

RequestTeeAttestation ==
  /\ At("attest") /\ Mined
  /\ Save(With("R", NewInstr), [proc EXCEPT !.pc = "a", !.attest = NewInstr])
  /\ UNCHANGED <<served, late>>

(* Mutant of DecideAvailabilityCheck: skipped after any earlier step.      *)
CheckTakenAsDone ==
  /\ At("a") /\ NoFault
  /\ Asked("a")
  /\ proc' = IF proc.saved.steps # {} THEN [proc EXCEPT !.pc = "p", !.check = proc.saved.check]
             ELSE [proc EXCEPT !.pc = "check"]
  /\ UNCHANGED <<chain, served, late, file>>

(* Step a: ask the FTDC TEE to check the machine against the challenge.    *)
DecideAvailabilityCheck ==
  /\ At("a") /\ NoFault
  /\ Asked("a")
  /\ proc' = IF Done("a") THEN [proc EXCEPT !.pc = "p", !.check = proc.saved.check]
             ELSE [proc EXCEPT !.pc = "check"]
  /\ UNCHANGED <<chain, served, late, file>>

RequestFTDCAvailabilityCheck ==
  /\ At("check") /\ Mined
  /\ Save([proc.saved EXCEPT !.steps = @ \cup {"a"}, !.check = NewInstr],
          [proc EXCEPT !.pc = "p", !.check = NewInstr])
  /\ UNCHANGED <<served, late>>

(* Without a: the instruction that -i names, an id made up, like none at   *)
(* all, being one that no instruction has.                                 *)
GivenInstruction ==
  /\ At("a") /\ ~Asked("a") /\ NoFault
  /\ \E i \in Instrs : proc' = [proc EXCEPT !.pc = "p", !.check = i]
  /\ UNCHANGED <<chain, served, late, file>>

IsCheck(i) == chain.instrs[i].kind = "check"

(* Step p: up to fifteen polls for the answer.                             *)
GetFTDCAvailabilityCheckResult ==
  /\ At("p") /\ Asked("p") /\ NoFault
  /\ IsCheck(proc.check) /\ chain.instrs[proc.check].ready
  /\ Goto("promote")
  /\ UNCHANGED <<chain, served, late, file>>

(* No answer in time.  A machine that is gone never answers.               *)
PollsExhausted ==
  /\ At("p") /\ Asked("p") /\ ~(IsCheck(proc.check) /\ chain.instrs[proc.check].ready)
  /\ IF IsCheck(proc.check) /\ chain.instrs[proc.check].tee = served THEN Fault ELSE NoFault
  /\ Dies
  /\ UNCHANGED <<chain, served, late, file>>

(* The run reports success, and the state file goes, or cannot be removed. *)
Succeed ==
  /\ proc' = [Idle("registered") EXCEPT !.tee = proc.tee, !.own = proc.own]
  /\ \/ file' = NoState /\ NoFault
     \/ file' = file /\ Fault
  /\ UNCHANGED <<served, late>>

(* ToProduction with the proof, which names the machine of the check; the  *)
(* last look at the registry is at that machine.                           *)
ToProduction == At("promote") /\ Mined /\ Succeed

(* Without p there is nothing more to do.                                  *)
NoProduction == At("p") /\ ~Asked("p") /\ Succeed /\ UNCHANGED chain

-----------------------------------------------------------------------------
(* What happens around the tools.                                          *)

MineLate(op) ==
  /\ late' = late \ {op}
  /\ chain' = IF Accepts(op) THEN Effect(op) ELSE chain
  /\ NoFault
  /\ UNCHANGED <<served, file, proc>>

DropLate(op) ==
  /\ late' = late \ {op} /\ NoFault
  /\ UNCHANGED <<chain, served, file, proc>>

(* The FTDC TEE answers a check if the machine answers it.                 *)
Answer(i) ==
  /\ chain.instrs[i].kind = "check" /\ chain.instrs[i].tee = served
  /\ ~chain.instrs[i].ready
  /\ chain' = [chain EXCEPT !.instrs[i].ready = TRUE] /\ NoFault
  /\ UNCHANGED <<served, late, file, proc>>

Expire(i) ==
  /\ chain.instrs[i].kind = "attest" /\ chain.instrs[i].ready
  /\ chain' = [chain EXCEPT !.instrs[i].ready = FALSE] /\ Fault
  /\ UNCHANGED <<served, late, file, proc>>

(* The enclave starts again with another key, so with another id.          *)
RestartTee ==
  /\ served + 1 \in Tees /\ Fault
  /\ served' = served + 1
  /\ UNCHANGED <<chain, late, file, proc>>

Crash ==
  /\ ~At("idle") /\ Fault /\ Dies
  /\ UNCHANGED <<chain, served, late, file>>

-----------------------------------------------------------------------------
ToolStep ==
  \/ AllowTeeVersion \/ AddTeeVersion \/ VersionAlreadyExists \/ RegisterTee
  \/ SkipPreRegistration \/ NeedsPreRegistration \/ PreRegistration
  \/ DecideAttestation \/ RequestTeeAttestation
  \/ DecideAvailabilityCheck \/ RequestFTDCAvailabilityCheck \/ GivenInstruction
  \/ GetFTDCAvailabilityCheckResult \/ PollsExhausted \/ ToProduction \/ NoProduction \/ TxReverts

Next ==
  \/ ToolStep
  \/ TxGivenUp \/ Crash \/ RestartTee
  \/ \E v \in Versions, c \in {Committed, Edited} : PostBuild(v, c)
  \/ \E c \in Commands, resume \in BOOLEAN : Manual(c, resume)
  \/ \E op \in late : MineLate(op) \/ DropLate(op)
  \/ \E i \in Instrs : Answer(i) \/ Expire(i)

Spec == Init /\ [][Next]_vars

(* The tools run on, the FTDC TEE answers, and the operator runs           *)
(* post-build.sh, edited as the deployment guide asks, again and again,    *)
(* under each of the version names (TEE_VERSION).                          *)
FairSpec ==
  /\ Spec
  /\ WF_vars(ToolStep)
  /\ WF_vars(\E op \in late : MineLate(op) \/ DropLate(op))
  /\ \A i \in Instrs : WF_vars(Answer(i))
  /\ \A v \in Versions : SF_vars(PostBuild(v, Edited))

-----------------------------------------------------------------------------
(* Properties.                                                             *)

TypeOK ==
  /\ chain.machines \in [Tees -> {"none", "registered", "production"}]
  /\ chain.versions \in [Versions -> Images \cup {None}]
  /\ chain.instrs \in [Instrs -> [kind : {"none", "attest", "check"}, tee : Tees \cup {0},
                                  ready : BOOLEAN]]
  /\ served \in Tees
  /\ proc.check \in Instrs \/ proc.pc \notin {"p", "promote"}
  /\ {file.attest, file.check, proc.attest} \subseteq Instrs \cup {None}
  /\ faults \in 0 .. MaxFaults

(* When allow-tee-version reports success, the image it read is supported: *)
(* a version name that another image has taken is not mistaken for it      *)
(* (allow-tee-version, lines 83-98).                                       *)
AllowedIsSupported == At("allowed") => Supported(proc.tee)

(* A run that was asked for the availability check and for production      *)
(* reports success; with r or ra alone that says nothing of production.    *)
Registered ==
  /\ proc'.outcome = "registered" /\ proc.outcome # "registered"
  /\ Asked("a") /\ Asked("p")

(* A registration that starts fresh, or resumes a file that only runs for  *)
(* the same TEE saved, and makes its own availability check, reports       *)
(* success only once that TEE's machine is in production: whatever was     *)
(* skipped, repeated, given up on or mined late (RegisterNode and          *)
(* ToProduction).                                                          *)
OwnStateServes == [][Registered /\ proc.own => chain'.machines[proc.tee] = "production"]_vars

(* The same of every registration that reports success.                    *)
RegisteredServes == [][Registered => chain'.machines[proc.tee] = "production"]_vars

(* After any crashes, given-up transactions, lost or broken state files    *)
(* and restarts, the edited post-build.sh, run again under version names   *)
(* of which one is free, ends with the TEE that is now served in           *)
(* production: no left-over on the chain or on disk locks it out.          *)
Converges == <>[](chain.machines[served] = "production")
=============================================================================
