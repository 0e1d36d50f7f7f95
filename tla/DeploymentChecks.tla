-------------------------- MODULE DeploymentChecks --------------------------
(***************************************************************************)
(* verify-deploy: the checks of tools/pkg/validate/checks.go, each an      *)
(* operator from what it reads to the set of its results, and the report   *)
(* they make.                                                              *)
(*                                                                         *)
(* What they read: the contents f of config/extension.env; the registry's  *)
(* extensions exts, extension i at exts[i + 1]; the rest of the site (the  *)
(* manager contract, the deployer's balance, the queries the node          *)
(* answers); the process environment env.                                  *)
(***************************************************************************)
EXTENDS Integers, Sequences, FiniteSets

(* A value of extension.env: not there or empty, not in the format of its  *)
(* regular expression, or the number it stands for.                        *)
Unset == -1
Malformed == -2
WellFormed(v) == v >= 0

(* parseExtensionEnv has no error: a file that cannot be opened, whether   *)
(* or not it is there, is one without values.                              *)
NoFile == [exists |-> FALSE, readable |-> FALSE, ext |-> Unset, sender |-> Unset]
Unreadable == [exists |-> TRUE, readable |-> FALSE, ext |-> Unset, sender |-> Unset]
EnvFile(ext, sender) == [exists |-> TRUE, readable |-> TRUE, ext |-> ext, sender |-> sender]

Queries == {"code", "balance", "chain", "counter", "sender", "owner", "key", "scan"}

Result(step, id, status) == {[step |-> step, id |-> id, status |-> status]}

Graded(ok, otherwise) == IF ok THEN "PASS" ELSE otherwise

(* A query about an unknown id finds nothing.                              *)
Known(exts, id) == id \in 0 .. Len(exts) - 1
SenderOf(exts, id) == IF Known(exts, id) THEN exts[id + 1].sender ELSE 0

-----------------------------------------------------------------------------
(* Step deploy.                                                            *)

AddressNotZero(site) == site.manager # "zero"

AddressHasCode(site) == "code" \in site.answers /\ site.manager = "code"

KeyHasFunds(site) == "balance" \in site.answers /\ site.funded

CheckAddress(site) == Result("deploy", "D3", Graded(AddressNotZero(site), "FAIL"))

CheckCode(site) ==
  IF AddressNotZero(site) THEN Result("deploy", "D1", Graded(AddressHasCode(site), "FAIL")) ELSE {}

IsLocal(env) == env.local \in {"true", ""}

CheckDeployerKeySource(env) ==
  Result("deploy", "D5", Graded(env.key \/ IsLocal(env), "WARN"))

CheckDeployerFunds(site) == Result("deploy", "D5", Graded(KeyHasFunds(site), "FAIL"))

CheckChainID(site) == Result("deploy", "D6", Graded("chain" \in site.answers, "FAIL"))

(* A key without a value is as good as malformed here; a file that cannot  *)
(* be opened is called missing.                                            *)
CheckExtensionEnvFormat(f) ==
  IF ~f.readable THEN Result("deploy", "D7", "SKIP")
  ELSE Result("deploy", "D7", Graded(WellFormed(f.sender), "FAIL"))
         \cup Result("deploy", "D7", Graded(WellFormed(f.ext), "FAIL"))

RegisterDeployChecks(f, site, env) ==
  CheckAddress(site) \cup CheckCode(site) \cup CheckDeployerKeySource(env)
    \cup CheckDeployerFunds(site) \cup CheckChainID(site) \cup CheckExtensionEnvFormat(f)

-----------------------------------------------------------------------------
(* Step register.                                                          *)

CheckCounter(exts, site) ==
  Result("register", "R1", IF "counter" \notin site.answers THEN "FAIL"
                           ELSE Graded(Len(exts) > 0, "WARN"))

(* Only looked at if INSTRUCTION_SENDER is well formed.                    *)
CheckSender(f, exts, site) ==
  IF WellFormed(f.sender)
  THEN Result("register", "R2",
              Graded("sender" \in site.answers /\ SenderOf(exts, f.ext) = f.sender, "FAIL"))
  ELSE {}

CheckMachineOwner(f, exts, site) ==
  Result("register", "R3",
         Graded("owner" \in site.answers /\ Known(exts, f.ext) /\ exts[f.ext + 1].owner, "FAIL"))

CheckKeyType(f, exts, site) ==
  Result("register", "R4",
         Graded("key" \in site.answers /\ Known(exts, f.ext) /\ exts[f.ext + 1].evm, "FAIL"))

(* Mutant of CheckUniqueSender: the scan stops short of the last one.      *)
ScanShort(f, exts, site) ==
  IF "counter" \in site.answers /\ Len(exts) > 0 /\ WellFormed(f.sender)
  THEN LET using == {i \in 0 .. Len(exts) - 2 :
                       "scan" \in site.answers /\ SenderOf(exts, i) = f.sender}
       IN  Result("register", "R7", Graded(Cardinality(using) <= 1, "WARN"))
  ELSE {}

(* A query of the scan that fails is passed over.                          *)
CheckUniqueSender(f, exts, site) ==
  IF "counter" \in site.answers /\ Len(exts) > 0 /\ WellFormed(f.sender)
  THEN LET using == {i \in 0 .. Len(exts) - 1 :
                       "scan" \in site.answers /\ SenderOf(exts, i) = f.sender}
       IN  Result("register", "R7", Graded(Cardinality(using) <= 1, "WARN"))
  ELSE {}

(* Nothing to check without a value; nothing more without a usable id.     *)
RegisterRegistrationChecks(f, exts, site) ==
  IF f.ext = Unset /\ f.sender = Unset THEN Result("register", "R1-R7", "SKIP")
  ELSE CheckCounter(exts, site)
         \cup IF ~WellFormed(f.ext) THEN Result("register", "R2", "FAIL")
            ELSE CheckSender(f, exts, site) \cup CheckMachineOwner(f, exts, site)
                   \cup CheckKeyType(f, exts, site) \cup CheckUniqueSender(f, exts, site)

-----------------------------------------------------------------------------
(* Steps services, tee-version, tee-machine and test.                      *)

(* Here a file that is missing, or not readable, is a failure.             *)
CheckServicesExtensionID(f) == Result("services", "S2", Graded(WellFormed(f.ext), "FAIL"))

CheckPort(env) == Result("services", "S5", Graded(~env.portInUse, "WARN"))

CheckPortConfiguration == Result("services", "S7", "PASS")

Reachable(step, id, url) ==
  Result(step, id, CASE url = "unset" -> "SKIP" [] url = "up" -> "PASS" [] url = "down" -> "WARN")

CheckServicesProxy(env) == Reachable("services", "S9", env.proxy)

CheckProxyKey(env) ==
  Result("services", "S10", Graded(~(env.local = "false" /\ ~env.proxyKey), "WARN"))

RegisterServicesChecks(f, env) ==
  CheckServicesExtensionID(f) \cup CheckPort(env) \cup CheckPortConfiguration
    \cup CheckServicesProxy(env) \cup CheckProxyKey(env)

CheckOwnerKey(env) ==
  Result("tee-version", "V2", Graded(env.ownerKey \/ env.key \/ IsLocal(env), "WARN"))

(* Here a missing file is skipped, and one that is not readable a failure. *)
CheckVersionExtensionID(f) ==
  Result("tee-version", "V4", IF ~f.exists THEN "SKIP" ELSE Graded(WellFormed(f.ext), "FAIL"))

CheckVersionProxy(env) == Reachable("tee-version", "V6", env.proxy)

RegisterTeeVersionChecks(f, env) ==
  CheckOwnerKey(env) \cup CheckVersionExtensionID(f) \cup CheckVersionProxy(env)

CheckSimulatedTee(env) ==
  Result("tee-machine", "T1", Graded(~(env.simulated /\ env.local = "false"), "WARN"))

CheckNormalProxy(env) == Reachable("tee-machine", "T5", env.normal)

CheckHostURL(env) == Reachable("tee-machine", "T10", env.proxy)

RegisterTeeMachineChecks(env) ==
  CheckSimulatedTee(env) \cup CheckNormalProxy(env) \cup CheckHostURL(env)

CheckTestSender(f) ==
  Result("test", "E1", IF ~f.exists THEN "SKIP" ELSE Graded(WellFormed(f.sender), "FAIL"))

CheckTestProxy(env) == Reachable("test", "E3", env.proxy)

CheckAlignment == Result("test", "E6", "PASS")

RegisterTestChecks(f, env) == CheckTestSender(f) \cup CheckTestProxy(env) \cup CheckAlignment

-----------------------------------------------------------------------------
(* The report.                                                             *)

HasFailures(report) == \E r \in report : r.status = "FAIL"

(* The status lines printed for one check; none if it was not made.        *)
StatusesOf(report, step, id) ==
  {r.status : r \in {result \in report : result.step = step /\ result.id = id}}

(* -step, with -config given; the steps that ask the chain fail at once    *)
(* when it does not say what chain it is.                                  *)
Report(step, f, exts, site, env) ==
  CASE step = "deploy"      -> RegisterDeployChecks(f, site, env)
    [] step = "register"    -> RegisterRegistrationChecks(f, exts, site)
    [] step = "services"    -> RegisterServicesChecks(f, env)
    [] step = "tee-version" -> RegisterTeeVersionChecks(f, env)
    [] step = "tee-machine" -> RegisterTeeMachineChecks(env)
    [] step = "test"        -> RegisterTestChecks(f, env)
    [] step = "all"         ->
         RegisterDeployChecks(f, site, env) \cup RegisterRegistrationChecks(f, exts, site)
           \cup RegisterServicesChecks(f, env) \cup RegisterTeeVersionChecks(f, env)
           \cup RegisterTeeMachineChecks(env) \cup RegisterTestChecks(f, env)

(* The exit status: -checks hides results before failures are looked for.  *)
VerifyDeploy(step, only, f, exts, site, env) ==
  /\ step \in {"deploy", "register", "all"} => "chain" \in site.answers
  /\ ~HasFailures({r \in Report(step, f, exts, site, env) : only = {} \/ r.id \in only})
=============================================================================
