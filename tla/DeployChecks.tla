---------------------------- MODULE DeployChecks ----------------------------
(***************************************************************************)
(* verify-deploy: the checks of tools/pkg/validate, run while builds, the  *)
(* registry and the operator who edits extension.env go on.  A check reads *)
(* the file or the chain when its turn comes; a call can fail.             *)
(***************************************************************************)
EXTENDS Deployment

CONSTANT
    Unreliable      \* calls that can fail: "D1", "D5", "D6", "R1" ... "R7"

VARIABLE verify     \* the run of verify-deploy

(* environ.steps and environ.filters are the --step and --checks flags     *)
(* verify-deploy is run with (a set of check ids, {} is no filter), and    *)
(* environ.edits what an operator writes to extension.env by hand.         *)

ASSUME ChecksAssumption ==
    \A e \in Environs : \A file \in e.edits : file.exists = TRUE

vars == <<deployVars, verify>>

Malformed == -1
WellFormed(value) == value \notin {None, Malformed}

Checking == [pc |-> "idle"]

Init == DeployInit /\ verify = Checking

Is(condition, otherwise) == IF condition THEN "PASS" ELSE otherwise
When(condition, results) == IF condition THEN results ELSE {}
-----------------------------------------------------------------------------
(* Step deploy.                                                            *)
Local == environ.localMode \in {"true", ""}

CheckDeployerKeySource == <<"D5key", Is(environ.key # "unset" \/ Local, "WARN")>>

CheckExtensionEnvFormat ==
    IF ~envFile.exists THEN {<<"D7", "SKIP">>}
    ELSE {<<"D7sender", Is(WellFormed(envFile.sender), "FAIL")>>,
          <<"D7id", Is(WellFormed(envFile.id), "FAIL")>>}

checkChainID(down) == <<"D6", Is("D6" \notin down, "FAIL")>>

RegisterDeployChecks(config, down) ==
    {<<"D3", Is(AddressNotZero, "FAIL")>>,
     CheckDeployerKeySource,
     <<"D5", Is(KeyHasFunds /\ "D5" \notin down, "FAIL")>>,
     checkChainID(down)}
    \cup When(AddressNotZero, {<<"D1", Is(AddressHasCode /\ "D1" \notin down, "FAIL")>>})
    \cup When(config, CheckExtensionEnvFormat)

(* Step services.                                                          *)
Reachable(url) == IF url = "unset" THEN "SKIP" ELSE Is(url = "up", "WARN")

ExtensionIdSet(config) ==
    IF ~config THEN "SKIP" ELSE Is(envFile.exists /\ WellFormed(envFile.id), "FAIL")

ProxyKeySet ==
    IF Local THEN "PASS"
    ELSE IF environ.localMode = "false" /\ ~environ.proxyKey THEN "WARN" ELSE "PASS"

RegisterServicesChecks(config) ==
    {<<"S2", ExtensionIdSet(config)>>,
     <<"S5", Is(~environ.portBusy, "WARN")>>,
     <<"S7", "PASS">>,
     <<"S9", Reachable(environ.extProxy)>>,
     <<"S10", ProxyKeySet>>}

(* Step tee-version.                                                       *)
OwnerKeySource == Is(environ.ownerKey \/ environ.key # "unset" \/ Local, "WARN")

ExtensionIdValid(config) ==
    IF ~config \/ ~envFile.exists THEN "SKIP" ELSE Is(WellFormed(envFile.id), "FAIL")

RegisterTeeVersionChecks(config) ==
    {<<"V2", OwnerKeySource>>,
     <<"V4", ExtensionIdValid(config)>>,
     <<"V6", Reachable(environ.extProxy)>>}

(* Step tee-machine.                                                       *)
RegisterTeeMachineChecks ==
    {<<"T1", Is(~(environ.simulated /\ environ.localMode = "false"), "WARN")>>,
     <<"T5", Reachable(environ.normalProxy)>>,
     <<"T10", Reachable(environ.extProxy)>>}

(* Step test.                                                              *)
InstructionSenderValid(config) ==
    IF ~config \/ ~envFile.exists THEN "SKIP" ELSE Is(WellFormed(envFile.sender), "FAIL")

RegisterTestChecks(config) ==
    {<<"E1", InstructionSenderValid(config)>>,
     <<"E3", Reachable(environ.extProxy)>>,
     <<"E6", "PASS">>}
-----------------------------------------------------------------------------
(* Step register: what is read first.  NoCounter stands for the nil that   *)
(* a failed query of nextPublicExtensionId leaves.                         *)
NoCounter == -1

parseExtensionEnv == IF envFile.exists THEN envFile ELSE Absent

NextPublicExtensionId(down) == IF "R1" \in down THEN "FAIL" ELSE Is(Len(registry) > 0, "WARN")

\* Mutant: the newest extension is looked up, not the one in the file.
M_SenderMatches(file, down) ==
    Is(Registered(Len(registry), file.sender) /\ "R2" \notin down, "FAIL")

SenderMatches(file, down) ==
    Is(Registered(file.id, file.sender) /\ "R2" \notin down, "FAIL")

MachineOwner(file, down) ==
    Is(file.id \in 1..Len(registry) /\ registry[file.id].machineOwner /\ "R3" \notin down, "FAIL")

\* Mutant: an extension that exists will do.
M_EvmKeys(file, down) ==
    Is(file.id \in 1..Len(registry) /\ "R4" \notin down, "FAIL")

EvmKeys(file, down) ==
    Is(file.id \in 1..Len(registry) /\ registry[file.id].evmKeys /\ "R4" \notin down, "FAIL")

\* Mutant: the scan begins at the extension's own id.
M_UniqueSender(file, counter, missed) ==
    Is(Cardinality((Matches(file.sender) \cap file.id..counter) \ missed) <= 1, "WARN")

(* An id whose lookup fails is passed over.                                *)
UniqueSender(file, counter, missed) ==
    Is(Cardinality((Matches(file.sender) \cap 1..counter) \ missed) <= 1, "WARN")

RegisterRegistrationChecks(file, counter, down, missed) ==
    {<<"R3", MachineOwner(file, down)>>, <<"R4", EvmKeys(file, down)>>}
    \cup When(WellFormed(file.sender), {<<"R2", SenderMatches(file, down)>>})
    \cup When(WellFormed(file.sender) /\ counter > 0, {<<"R7", UniqueSender(file, counter, missed)>>})
-----------------------------------------------------------------------------
Sections(step) ==
    IF step = "all" THEN <<"deploy", "register", "services", "tee-version", "tee-machine", "test">>
    ELSE <<step>>

(* verify-deploy starts; the steps that ask the chain need the chain.      *)
VerifyStart ==
    /\ verify.pc \in {"idle", "exit0", "exit1"}
    /\ \E step \in environ.steps, config \in BOOLEAN, filter \in environ.filters :
          verify' = [pc |-> IF step \in {"deploy", "register", "all"} /\ ~DefaultSupport THEN "exit1" ELSE "check",
                     step |-> step, config |-> config, filter |-> filter, todo |-> Sections(step),
                     report |-> {}, file |-> Absent, counter |-> NoCounter,
                     failed |-> {}, quiet |-> TRUE, usable |-> Usable(envFile.id, envFile.sender)]
    /\ UNCHANGED deployVars

(* The calls of a section that fail.                                       *)
Calls(down) ==
    \/ down = {} /\ UNCHANGED faults
    \/ (\E call \in Unreliable : down = {call}) /\ Fault

(* A section is done: its results are added, the next one is due.          *)
Report(results, down) ==
    verify' = [verify EXCEPT !.report = @ \cup results, !.todo = Tail(@),
                             !.failed = @ \cup down, !.pc = "check"]

Due(section) == verify.pc = "check" /\ verify.todo # <<>> /\ Head(verify.todo) = section

ChainSection ==
    /\ Due("deploy")
    /\ \E down \in SUBSET Unreliable :
          /\ Calls(down)
          /\ Report(RegisterDeployChecks(verify.config, down), down)
    /\ UNCHANGED <<environ, escrows, registry, envFile, build>>

OfflineSection ==
    /\ \/ Due("services")    /\ Report(RegisterServicesChecks(verify.config), {})
       \/ Due("tee-version") /\ Report(RegisterTeeVersionChecks(verify.config), {})
       \/ Due("tee-machine") /\ Report(RegisterTeeMachineChecks, {})
       \/ Due("test")        /\ Report(RegisterTestChecks(verify.config), {})
    /\ UNCHANGED deployVars

(* Without a file, or with one that has neither entry, nothing is checked. *)
RegistrationBegin ==
    /\ Due("register")
    /\ \E down \in SUBSET Unreliable :
          /\ Calls(down)
          /\ LET file == parseExtensionEnv
                 r1   == {<<"R1", NextPublicExtensionId(down)>>}
             IN  IF ~verify.config \/ (file.id = None /\ file.sender = None)
                   THEN Report({<<"R", "SKIP">>}, down)
                 ELSE IF ~WellFormed(file.id)
                   THEN Report(r1 \cup {<<"R2", "FAIL">>}, down)
                 ELSE verify' = [verify EXCEPT !.report = @ \cup r1, !.file = file, !.failed = @ \cup down,
                                               !.counter = IF "R1" \in down THEN NoCounter ELSE Len(registry),
                                               !.pc = "lookups"]
    /\ UNCHANGED <<environ, escrows, registry, envFile, build>>

RegistrationLookups ==
    /\ verify.pc = "lookups"
    /\ \E down \in SUBSET Unreliable, missed \in SUBSET (1..Len(registry)) :
          /\ Calls(down)
          /\ missed # {} <=> "R7" \in down
          /\ Report(RegisterRegistrationChecks(verify.file, verify.counter, down, missed), down)
    /\ UNCHANGED <<environ, escrows, registry, envFile, build>>

Failures(report) == {r \in report : r[2] = "FAIL"}
Warnings(report) == {r \in report : r[2] = "WARN"}

(* --checks drops the other results, then HasFailures decides the exit.    *)
Filtered(report, filter) == {r \in report : filter = {} \/ r[1] \in filter}

VerifyFinish ==
    /\ verify.pc = "check" /\ verify.todo = <<>>
    /\ LET shown == Filtered(verify.report, verify.filter)
       IN  verify' = [verify EXCEPT !.report = shown, !.pc = IF Failures(shown) # {} THEN "exit1" ELSE "exit0"]
    /\ UNCHANGED deployVars

Disturb == verify' = IF envFile' # envFile /\ verify.pc # "idle" THEN [verify EXCEPT !.quiet = FALSE] ELSE verify

(* The rest of the world goes on while the checks run.                     *)
DeployStep == DeployNext /\ Disturb

EditEnv ==
    /\ envFile' \in environ.edits
    /\ Disturb
    /\ UNCHANGED <<environ, escrows, registry, build, faults>>

Next ==
    \/ VerifyStart \/ ChainSection \/ OfflineSection
    \/ RegistrationBegin \/ RegistrationLookups \/ VerifyFinish
    \/ DeployStep \/ EditEnv

(* Builds go on, and operators start over until a build is done. *)
Spec ==
    /\ Init
    /\ [][Next]_vars
    /\ \A b \in Builds : WF_vars(Step(b) /\ Disturb) /\ WF_vars(Start(b) /\ Disturb)
-----------------------------------------------------------------------------
Finished(step) ==
    /\ verify.pc \in {"exit0", "exit1"}
    /\ verify.step = step /\ verify.filter = {} /\ verify.config

(* verify-deploy: when all steps pass over a file that stayed as it was,   *)
(* even one written by hand, the escrow it names is registered under the   *)
(* id it names and the extension is completely set up; the wallet owners,  *)
(* for which there is no check, included.                                  *)
VerifiedDeploymentIsUsable ==
    Finished("all") /\ verify.pc = "exit0" /\ verify.quiet
        => WellFormed(envFile.id) /\ Usable(envFile.id, envFile.sender)

(* verify-deploy: a deployment that is good, on good settings, is not      *)
(* turned down unless a call fails.                                        *)
UsableDeploymentPasses ==
    Finished("all") /\ verify.usable /\ verify.quiet /\ verify.failed = {} /\ PreflightPasses
        => verify.pc = "exit0"

(* Checks R2 and R7 on a file pre-build.sh wrote: the escrow has adopted   *)
(* the id the file had when it was read, also where the registry lets a    *)
(* stranger register somebody's escrow first and setExtensionId takes the  *)
(* stranger's id.  (Unless a lookup failed: R7 passes over the id.)        *)
VerifiedEscrowAdoptedItsId ==
    /\ verify.pc = "exit0" /\ environ.edits = {}
    /\ <<"R7", "PASS">> \in verify.report /\ "R7" \notin verify.failed
    => escrows[verify.file.sender] = verify.file.id

=============================================================================
