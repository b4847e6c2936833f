----------------------------- MODULE Deployment -----------------------------
(***************************************************************************)
(* scripts/pre-build.sh and the tools it runs: deploy an escrow, register  *)
(* it as an extension, let it adopt its id, write config/extension.env.    *)
(* Several builds run at once, each dies anywhere and is started again,    *)
(* strangers register extensions of their own or for somebody's escrow.    *)
(*                                                                         *)
(* Escrows and extensions are numbered in the order of their creation.     *)
(* Everything that goes wrong, a stranger's interference included, uses up *)
(* one of maxFaults.  A transaction a tool lost sight of has been mined or *)
(* never will be.                                                          *)
(***************************************************************************)
EXTENDS Integers, Sequences, FiniteSets

CONSTANTS
    Environs,         \* what the tools can find: .env, the chain, the operators
    Builds            \* builds that can be under way at the same time

VARIABLES
    environ,          \* the settings and circumstances in force
    escrows,          \* extension id each deployed escrow has adopted
    registry,         \* external: the registered extensions
    envFile,          \* config/extension.env
    build,            \* the builds
    faults            \* failures so far

deployVars == <<environ, escrows, registry, envFile, build, faults>>

ASSUME DeploymentAssumption ==
    \A e \in Environs :
       /\ e.builds \subseteq Builds                        \* the builds that are run
       /\ e.restarts \subseteq {"prebuild", "register"}    \* how operators go on
       /\ e.rejectsDuplicates \in BOOLEAN  \* does the registry refuse a sender it has?
       /\ e.maxEscrows \in Nat             \* bound: escrows deployed
       /\ e.maxExtensions \in Nat          \* bound: extensions registered
       /\ e.maxFaults \in Nat              \* bound: failures during a behaviour

None == 0

Absent == [id |-> None, sender |-> None, exists |-> FALSE]
File(id, sender) == [id |-> id, sender |-> sender, exists |-> TRUE]

Idle == [pc |-> "idle", sender |-> None, id |-> None]

DeployInit ==
    /\ environ \in Environs
    /\ escrows = <<>>
    /\ registry = <<>>
    /\ envFile = Absent
    /\ build = [b \in Builds |-> Idle]
    /\ faults = 0

Fault ==
    /\ faults < environ.maxFaults
    /\ faults' = faults + 1

Goto(b, pc) == build' = [build EXCEPT ![b].pc = pc]

(* A build that ends badly remembers its escrow: it is in deploy.log.      *)
Die(b) == build' = [build EXCEPT ![b].pc = "failed", ![b].id = None]

Running(b) == build[b].pc \notin {"idle", "failed", "refused", "done"}

Matches(sender) == {id \in 1..Len(registry) : registry[id].sender = sender}

Entry(sender, owner) == [sender |-> sender, owner |-> owner, machineOwner |-> FALSE,
                         projectOwner |-> FALSE, evmKeys |-> FALSE]

(* What every tool needs to start: an addresses file, a chain, a key that  *)
(* parses.  Without a key the tools use the one of the development chains. *)
DefaultSupport == environ.addresses /\ environ.key # "invalid"

AddressNotZero == environ.manager # "zero"
AddressHasCode == environ.manager = "code"
KeyHasFunds    == environ.funds

resolveTreasury       == environ.treasury # "unset"
resolveProtocolFeeBps == environ.feeBps # "invalid"

PreflightPasses ==
    /\ DefaultSupport
    /\ resolveTreasury /\ resolveProtocolFeeBps
    /\ AddressNotZero /\ AddressHasCode
    /\ environ.treasury # "zero"
    /\ KeyHasFunds

(* An operator starts pre-build.sh from the beginning, or finishes by hand *)
(* what a build that failed has begun.                                     *)
Start(b) ==
    /\ ~Running(b) /\ b \in environ.builds
    /\ \/ /\ "prebuild" \in environ.restarts
          /\ Len(escrows) < environ.maxEscrows
          /\ build' = [build EXCEPT ![b] = [Idle EXCEPT !.pc = "preflight"]]
       \/ /\ "register" \in environ.restarts
          /\ build[b].pc = "failed" /\ build[b].sender # None
          /\ Goto(b, "register")
    /\ UNCHANGED <<environ, escrows, registry, envFile, faults>>
-----------------------------------------------------------------------------
\* Mutant: a treasury that is the deployer stops the build instead of warning.
M_Preflight(b) ==
    /\ build[b].pc = "preflight"
    /\ IF PreflightPasses /\ environ.treasury # "deployer" THEN Goto(b, "deploy") ELSE Die(b)
    /\ UNCHANGED <<environ, escrows, registry, envFile, faults>>

(* deploy-workproof-escrow runs its checks twice: on their own, and before *)
(* it deploys.                                                             *)
Preflight(b) ==
    /\ build[b].pc = "preflight"
    /\ IF PreflightPasses THEN Goto(b, "deploy") ELSE Die(b)
    /\ UNCHANGED <<environ, escrows, registry, envFile, faults>>

(* The constructor has its own opinion of the fee.                         *)
DeployRefused(b) ==
    /\ build[b].pc = "deploy"
    /\ ~PreflightPasses \/ environ.feeBps = "tooHigh"
    /\ Die(b)
    /\ UNCHANGED <<environ, escrows, registry, envFile, faults>>

DeployWorkProofEscrow(b) ==
    /\ build[b].pc = "deploy"
    /\ PreflightPasses /\ environ.feeBps # "tooHigh"
    /\ Len(escrows) < environ.maxEscrows
    /\ escrows' = Append(escrows, None)
    /\ build' = [build EXCEPT ![b].pc = "register", ![b].sender = Len(escrows) + 1]
    /\ UNCHANGED <<environ, registry, envFile, faults>>

Registrable(sender) ==
    /\ Len(registry) < environ.maxExtensions
    /\ environ.rejectsDuplicates => Matches(sender) = {}

registerExtension(b) ==
    /\ build[b].pc = "register"
    /\ Registrable(build[b].sender)
    /\ registry' = Append(registry, Entry(build[b].sender, "us"))
    /\ build' = [build EXCEPT ![b].pc = "machineOwner", ![b].id = Len(registry) + 1]
    /\ UNCHANGED <<environ, escrows, envFile, faults>>

(* The registry refuses a sender it already has, whoever registered it.    *)
RegisterRefused(b) ==
    /\ build[b].pc = "register"
    /\ environ.rejectsDuplicates /\ Matches(build[b].sender) # {}
    /\ Goto(b, "refused")
    /\ UNCHANGED <<environ, escrows, registry, envFile, faults>>

(* SetupExtension steps 2 to 4: a setting that is there is skipped.        *)
Sets(b, pc) ==
    /\ build[b].pc = pc
    /\ registry' = [registry EXCEPT ![build[b].id][pc] = TRUE]

Setting(b, pc, next) ==
    /\ Sets(b, pc)
    /\ Goto(b, next)
    /\ UNCHANGED <<environ, escrows, envFile, faults>>

\* Mutant: the machine owners are allowed and the wallet owners forgotten.
M_allowTeeMachineOwners(b) == Setting(b, "machineOwner", "evmKeys")

allowTeeMachineOwners(b)        == Setting(b, "machineOwner", "projectOwner")
allowTeeProjectManagerOwners(b) == Setting(b, "projectOwner", "evmKeys")
AddSupportedKeyTypes(b)         == Setting(b, "evmKeys", "adopt")

(* The contract takes the first extension whose sender it is, and refuses  *)
(* when it has one already or there is none.                               *)
setExtensionId(sender) ==
    /\ escrows[sender] = None /\ Matches(sender) # {}
    /\ escrows' = [escrows EXCEPT ![sender] = CHOOSE id \in Matches(sender) : \A j \in Matches(sender) : id <= j]

SetWorkProofEscrowExtensionId(b) ==
    /\ build[b].pc = "adopt"
    /\ setExtensionId(build[b].sender)
    /\ Goto(b, "truncate")
    /\ UNCHANGED <<environ, registry, envFile, faults>>

AdoptRefused(b) ==
    /\ build[b].pc = "adopt"
    /\ escrows[build[b].sender] # None \/ Matches(build[b].sender) = {}
    /\ Die(b)
    /\ UNCHANGED <<environ, escrows, registry, envFile, faults>>

(* cat > extension.env empties the file before it fills it.                *)
WriteEnv(b) ==
    /\ \/ /\ build[b].pc = "truncate"
          /\ envFile' = File(None, None)
          /\ Goto(b, "write")
       \/ /\ build[b].pc = "write"
          /\ envFile' = File(build[b].id, build[b].sender)
          /\ Goto(b, "done")
    /\ UNCHANGED <<environ, escrows, registry, faults>>

(* A tool dies, gives up on an error or loses sight of its transaction,    *)
(* and pre-build.sh dies with it.                                          *)
Stop(b) ==
    /\ Running(b)
    /\ Fault
    /\ \/ UNCHANGED <<escrows, registry>> /\ Die(b)
       \/ /\ build[b].pc = "deploy" /\ environ.feeBps # "tooHigh" /\ Len(escrows) < environ.maxEscrows
          /\ escrows' = Append(escrows, None)
          /\ Die(b) /\ UNCHANGED registry
       \/ /\ build[b].pc = "register" /\ Registrable(build[b].sender)
          /\ registry' = Append(registry, Entry(build[b].sender, "us"))
          /\ Die(b) /\ UNCHANGED escrows
       \/ /\ \E flag \in {"machineOwner", "projectOwner", "evmKeys"} : Sets(b, flag)
          /\ Die(b) /\ UNCHANGED escrows
       \/ /\ build[b].pc = "adopt" /\ setExtensionId(build[b].sender)
          /\ Die(b) /\ UNCHANGED registry
    /\ UNCHANGED <<environ, envFile>>

(* External: a stranger registers an extension, for an address of his own  *)
(* or for an escrow he has seen.                                           *)
StrangerRegisters ==
    /\ Fault
    /\ \E sender \in {None} \cup 1..Len(escrows) :
          /\ Len(registry) < environ.maxExtensions
          /\ environ.rejectsDuplicates /\ sender # None => Matches(sender) = {}
          /\ registry' = Append(registry, Entry(sender, "stranger"))
    /\ UNCHANGED <<environ, escrows, envFile, build>>

Step(b) ==
    \/ Preflight(b) \/ DeployRefused(b) \/ DeployWorkProofEscrow(b) \/ registerExtension(b) \/ RegisterRefused(b)
    \/ allowTeeMachineOwners(b) \/ allowTeeProjectManagerOwners(b) \/ AddSupportedKeyTypes(b)
    \/ SetWorkProofEscrowExtensionId(b) \/ AdoptRefused(b) \/ WriteEnv(b)

DeployNext ==
    \/ \E b \in Builds : Start(b) \/ Step(b) \/ Stop(b)
    \/ StrangerRegisters
-----------------------------------------------------------------------------
Registered(id, sender) ==
    /\ id \in 1..Len(registry)
    /\ registry[id].sender = sender

Usable(id, sender) ==
    /\ Registered(id, sender)
    /\ registry[id].machineOwner /\ registry[id].projectOwner /\ registry[id].evmKeys

(* pre-build.sh: whatever failed, ran at the same time or was registered   *)
(* by strangers, an extension.env with an id that nobody wrote by hand     *)
(* names an escrow that is registered under this id, fully set up, and has *)
(* adopted this very id, provided the registry refuses duplicates.         *)
EnvIsUsable ==
    environ.rejectsDuplicates /\ environ.edits = {} /\ envFile.id # None =>
        /\ Usable(envFile.id, envFile.sender)
        /\ escrows[envFile.sender] = envFile.id

GoodSettings == PreflightPasses /\ environ.feeBps # "tooHigh"

(* The bounds leave room for another attempt after every failure.          *)
RoomToRetry == environ.maxEscrows > environ.maxFaults /\ environ.maxExtensions > environ.maxFaults

(* pre-build.sh: an operator who keeps running it from the start gets a    *)
(* configuration, whatever earlier builds left behind on the chain, if the *)
(* settings are good.                                                      *)
EventuallyDeployed ==
    GoodSettings /\ environ.rejectsDuplicates /\ environ.restarts = {"prebuild"} /\ RoomToRetry
        => <>(envFile.id # None)
=============================================================================
