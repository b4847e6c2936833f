---------------------------- MODULE Registration ----------------------------
(***************************************************************************)
(* Bringing a TEE machine into production: the tools that                  *)
(* scripts/post-build.sh runs one after the other (allow-tee-version,      *)
(* set-governance, register-tee) as they were run by operators who start   *)
(* them, lose them half way and start them again.                          *)
(*                                                                         *)
(* register-tee keeps its progress in a state file that is neither keyed   *)
(* by machine nor written atomically.  All tools send from one account, so *)
(* their transactions are mined in the order in which they were sent, also *)
(* the ones a tool has given up waiting for.  Whatever goes wrong uses up  *)
(* one of plan.maxFaults.                                                  *)
(***************************************************************************)
EXTENDS Integers, Sequences, FiniteSets

CONSTANTS
    Tees,           \* machines the tools are pointed at
    CodeOf,         \* code hash each machine reports in /info
    NodeGovernance, \* governance hash each machine signed
    Versions,       \* the -version flag for each machine
    Runs,           \* tool runs that can be under way at the same time
    Plans,          \* how operators go about it
    MaxId           \* bound: instruction ids that somebody still refers to

VARIABLES
    plan,           \* what the operators do, and what goes wrong
    machine,        \* external: status of each machine in the registry
    versions,       \* external: (version, code hash) pairs of the extension
    governance,     \* external: latest governance hash of the extension
    instruction,    \* external: instructions of the verification contract
    lead,           \* external: policy id of the proxy minus reward epoch
    mempool,        \* external: transactions sent and not yet mined
    stateFile,      \* register-tee.state
    run,            \* the tool runs
    faults          \* failures so far

chainVars == <<plan, machine, versions, governance, instruction, lead, mempool>>
vars == <<chainVars, stateFile, run, faults>>

ASSUME RegistrationAssumption ==
    /\ CodeOf \in [Tees -> STRING] /\ Versions \in [Tees -> STRING]
    /\ NodeGovernance \in [Tees -> STRING]
    /\ \A p \in Plans :
          /\ p.tees \subseteq Tees /\ p.runs \subseteq Runs
          /\ p.entries \subseteq {"version", "begin"}  \* tools an operator starts with
          /\ p.commands \subseteq SUBSET {"r", "R", "a", "p"}  \* -command flags
          /\ p.resumes \subseteq BOOLEAN           \* -resume flags
          /\ p.governances \subseteq STRING        \* hashes the environment yields
          /\ p.leads \subseteq Int                 \* how far the FTDC proxy gets ahead
          /\ p.maxFaults \in Nat                   \* bound: failures in a behaviour
    /\ MaxId \in Nat
    /\ IsFiniteSet(Tees) /\ IsFiniteSet(Runs)
    /\ "nobody" \notin Runs       \* a transaction whose tool is gone

NoId == 0

registrationState == [done |-> {}, attest |-> NoId, avail |-> NoId]

Absent == [kind |-> "absent"]
Torn   == [kind |-> "torn"]
Saved(state) == [kind |-> "saved", state |-> state]

Idle == [pc |-> "idle"]
Active(r) == run[r].pc \notin {"idle", "registered"}

Init ==
    /\ plan \in Plans
    /\ machine = [t \in Tees |-> "none"]
    /\ versions = {}
    /\ governance = "none"
    /\ instruction = [id \in 1..MaxId |-> [kind |-> "none"]]
    /\ lead = 0
    /\ mempool = <<>>
    /\ stateFile = Absent
    /\ run = [r \in Runs |-> Idle]
    /\ faults = 0
-----------------------------------------------------------------------------
(* Instruction ids are unique.  An id nobody refers to any more is used    *)
(* again, which bounds the model without bounding the number of runs.      *)
Refs(c) == {c.state.attest, c.state.avail, c.attest, c.avail, c.flag}

FileRefs == IF stateFile.kind = "saved" THEN {stateFile.state.attest, stateFile.state.avail} ELSE {}

Referenced ==
    (UNION {Refs(run[r]) : r \in {q \in Runs : Active(q)}}) \cup FileRefs
    \cup {mempool[i].id : i \in DOMAIN mempool}

FreshId(id) == id \in 1..MaxId \ Referenced /\ \A k \in 1..id - 1 : k \in Referenced

Fault ==
    /\ faults < plan.maxFaults
    /\ faults' = faults + 1

Goto(r, pc) == run' = [run EXCEPT ![r].pc = pc]
GiveUp(r)   == run' = [run EXCEPT ![r] = Idle]

(* What a machine says of itself in /info.                                 *)
TeeInfo(t) == [codeHash |-> CodeOf[t], governanceHash |-> NodeGovernance[t]]

Supported(code) == \E v \in versions : v[2] = code

(* The version given for a machine already names other code.  The -version *)
(* flag and TEE_VERSION default to one constant for every build.           *)
NameTaken(t) == \E v \in versions : v[1] = Versions[t] /\ v[2] # TeeInfo(t).codeHash

(* An operator starts post-build.sh, or register-tee alone.                *)
Start(r) ==
    /\ ~Active(r) /\ r \in plan.runs
    /\ \E t \in plan.tees, pc \in plan.entries, c \in plan.commands, resume \in plan.resumes, g \in plan.governances :
       \E flag \in {NoId} \cup {id \in 1..MaxId : "a" \notin c /\ instruction[id].kind = "avail"
                                                   /\ instruction[id].tee = t} :
          run' = [run EXCEPT ![r] =
                    [pc |-> pc, tee |-> t, command |-> c, resume |-> resume, governance |-> g,
                     state |-> registrationState, attest |-> NoId, avail |-> NoId, flag |-> flag, step |-> pc]]
    /\ UNCHANGED <<chainVars, stateFile, faults>>

(* A transaction is signed and sent; the tool then waits in CheckTx.       *)
Send(r, op, id) ==
    /\ mempool' = Append(mempool, [by |-> r, op |-> op, tee |-> run[r].tee, id |-> id,
                                   governance |-> run[r].governance])
    /\ run' = [run EXCEPT ![r].pc = "wait", ![r].step = run[r].pc]
    /\ UNCHANGED <<plan, machine, versions, governance, instruction, lead, stateFile>>

\* Mutant: the extension counts as done as soon as it supports any version.
M_allowTeeVersion(r) ==
    /\ run[r].pc = "version"
    /\ IF versions # {}
         THEN Goto(r, "governance") /\ UNCHANGED <<chainVars, stateFile, faults>>
         ELSE Send(r, "addTeeVersion", NoId) /\ UNCHANGED faults

(* allow-tee-version skips the transaction for code that is supported.     *)
allowTeeVersion(r) ==
    /\ run[r].pc = "version"
    /\ IF Supported(TeeInfo(run[r].tee).codeHash)
         THEN Goto(r, "governance") /\ UNCHANGED <<chainVars, stateFile, faults>>
         ELSE Send(r, "addTeeVersion", NoId) /\ UNCHANGED faults

SetTeeGovernance(r) ==
    /\ run[r].pc = "governance"
    /\ IF governance = run[r].governance
         THEN Goto(r, "begin") /\ UNCHANGED <<chainVars, stateFile, faults>>
         ELSE Send(r, "setNewTeeGovernance", NoId) /\ UNCHANGED faults

\* Mutant: a fresh start keeps a state file that it cannot read.
M_Begin(r) ==
    /\ run[r].pc = "begin"
    /\ stateFile' = IF run[r].resume \/ stateFile = Torn THEN stateFile ELSE Absent
    /\ Goto(r, "load")
    /\ UNCHANGED <<chainVars, faults>>

(* register-tee removes the state file unless it was told to resume; a     *)
(* file that cannot be removed is only a warning.                          *)
Begin(r) ==
    /\ run[r].pc = "begin"
    /\ \/ run[r].resume /\ UNCHANGED <<stateFile, faults>>
       \/ ~run[r].resume /\ stateFile' = Absent /\ UNCHANGED faults
       \/ ~run[r].resume /\ Fault /\ UNCHANGED stateFile
    /\ Goto(r, "load")
    /\ UNCHANGED chainVars

loadState(r) ==
    /\ run[r].pc = "load"
    /\ CASE stateFile.kind = "absent" -> Goto(r, "r")
         [] stateFile.kind = "torn"   -> GiveUp(r)
         [] stateFile.kind = "saved"  -> run' = [run EXCEPT ![r].pc = "r", ![r].state = stateFile.state]
    /\ UNCHANGED <<chainVars, stateFile, faults>>
-----------------------------------------------------------------------------
After == [r |-> "R", R |-> "a", a |-> "p", p |-> "end"]

savedAvailabilityInstructionID(c) ==
    IF c.flag # NoId THEN c.flag
    ELSE IF "a" \in c.state.done THEN c.state.avail ELSE NoId

(* RegisterNode: a step the command does not name, or that the state file  *)
(* says is done.  A recorded step hands its instruction id on.             *)
SkipStep(r) ==
    LET c == run[r] IN
    /\ c.pc \in {"r", "R", "a", "p"}
    /\ c.pc \notin c.command \/ (c.pc \in c.state.done /\ c.pc # "p")
    /\ run' = [run EXCEPT ![r] =
                 [c EXCEPT !.pc = After[c.pc],
                           !.attest = IF c.pc \in {"r", "R"} \cap c.command THEN c.state.attest ELSE c.attest,
                           !.avail  = IF c.pc # "a" THEN c.avail
                                      ELSE IF "a" \in c.command THEN c.state.avail
                                      ELSE savedAvailabilityInstructionID(c)]]
    /\ UNCHANGED <<chainVars, stateFile, faults>>

Due(r, step) ==
    /\ run[r].pc = step
    /\ step \in run[r].command
    /\ step \notin run[r].state.done

(* Step r: GetTeeMachine decides between a registration, which asks for an *)
(* attestation on the way, and an attestation of a machine that exists.    *)
PreRegistration(r) ==
    /\ Due(r, "r")
    /\ machine[run[r].tee] = "none"
    /\ Send(r, "register", NoId)
    /\ UNCHANGED faults

RequestTeeAttestation(r) ==
    /\ \/ Due(r, "r") /\ machine[run[r].tee] # "none"
       \/ Due(r, "R")
    /\ Send(r, "requestTeeAttestation", NoId)
    /\ UNCHANGED faults

policyInSync(ahead) == ahead \in {0, 1}

(* Step a: refuse to start while the proxy's signing policy is known to be *)
(* out of step; a lookup that fails lets the request through.              *)
RequestFTDCAvailabilityCheck(r) ==
    /\ Due(r, "a")
    /\ (policyInSync(lead) /\ UNCHANGED faults) \/ Fault
    /\ Send(r, "requestAvailabilityCheckAttestation", run[r].attest)

CheckFTDCProxyPolicyConsistency(r) ==
    /\ Due(r, "a")
    /\ ~policyInSync(lead)
    /\ GiveUp(r)
    /\ UNCHANGED <<chainVars, stateFile, faults>>

GetFTDCAvailabilityCheckResult(id) == id # NoId /\ instruction[id].status = "proved"

(* Step p: poll for the proof of the availability check, then promote the  *)
(* machine the proof is about.                                             *)
ToProduction(r) ==
    /\ run[r].pc = "p" /\ "p" \in run[r].command
    /\ GetFTDCAvailabilityCheckResult(run[r].avail)
    /\ Send(r, "toProduction", run[r].avail)
    /\ UNCHANGED faults

\* Mutant: a proof that does not come is passed over.
M_ActionResultTimeout(r) ==
    /\ run[r].pc = "p" /\ "p" \in run[r].command
    /\ ~GetFTDCAvailabilityCheckResult(run[r].avail)
    /\ Goto(r, "end")
    /\ UNCHANGED <<chainVars, stateFile, faults>>

(* ActionResult gives up after its attempts, for good or bad reasons.      *)
ActionResultTimeout(r) ==
    /\ run[r].pc = "p" /\ "p" \in run[r].command
    /\ \/ run[r].avail = NoId /\ UNCHANGED faults
       \/ /\ run[r].avail # NoId
          /\ instruction[run[r].avail].status = "rejected"
          /\ UNCHANGED faults
       \/ /\ run[r].avail # NoId
          /\ instruction[run[r].avail].status = "asked"
          /\ Fault
    /\ GiveUp(r)
    /\ UNCHANGED <<chainVars, stateFile>>

(* All steps are done: the state file goes, whatever the command was.      *)
Finish(r) ==
    /\ run[r].pc = "end"
    /\ stateFile' = Absent
    /\ run' = [run EXCEPT ![r] = [pc |-> "registered", tee |-> run[r].tee, command |-> run[r].command]]
    /\ UNCHANGED <<chainVars, faults>>

\* Mutant: the file records the steps of the command, not the steps that are done.
M_saveState(r) ==
    /\ run[r].pc = "save"
    /\ stateFile' = Saved([run[r].state EXCEPT !.done = run[r].command \ {"p"}])
    /\ Goto(r, After[run[r].step])
    /\ UNCHANGED <<chainVars, faults>>

saveState(r) ==
    /\ run[r].pc = "save"
    /\ stateFile' = Saved(run[r].state)
    /\ Goto(r, After[run[r].step])
    /\ UNCHANGED <<chainVars, faults>>

(* A failed save is only a warning; a crash while the file is being        *)
(* rewritten leaves it truncated.                                          *)
SaveFails(r) ==
    /\ run[r].pc = "save"
    /\ Fault
    /\ \/ Goto(r, After[run[r].step]) /\ UNCHANGED stateFile
       \/ GiveUp(r) /\ stateFile' = Torn
    /\ UNCHANGED chainVars
-----------------------------------------------------------------------------
(* A tool dies, or gives up on an error: an RPC call fails, a transaction  *)
(* is refused, or is not mined within the two minutes CheckTx waits.  A    *)
(* transaction that was sent stays where it is.                            *)
Stop(r) ==
    /\ Active(r)
    /\ Fault
    /\ GiveUp(r)
    /\ mempool' = [i \in DOMAIN mempool |-> IF mempool[i].by = r THEN [mempool[i] EXCEPT !.by = "nobody"]
                                             ELSE mempool[i]]
    /\ UNCHANGED <<plan, machine, versions, governance, instruction, lead, stateFile>>

(* What a tool does with the receipt of the transaction it waits for.      *)
Receipt(tx, next) ==
    run' = IF tx.by = "nobody" THEN run ELSE [run EXCEPT ![tx.by] = next]

Proceed(tx, pc) == Receipt(tx, [run[tx.by] EXCEPT !.pc = pc])

Remember(c, id) ==
    LET attest(old) == IF c.step \in {"r", "R"} THEN id ELSE old
        avail(old)  == IF c.step = "a" THEN id ELSE old
    IN  [c EXCEPT !.pc = "save", !.attest = attest(c.attest), !.avail = avail(c.avail),
                  !.state = [done |-> c.state.done \cup {c.step},
                             attest |-> attest(c.state.attest), avail |-> avail(c.state.avail)]]

(* External: the contracts, as far as the tools rely on them.  A challenge *)
(* is used up by the availability check that cites it.                     *)
Accepts(tx) ==
    CASE tx.op = "addTeeVersion"         -> \A v \in versions : v[1] # Versions[tx.tee]
      [] tx.op = "setNewTeeGovernance"   -> TRUE
      [] tx.op = "register"              -> /\ machine[tx.tee] = "none"
                                            /\ Supported(TeeInfo(tx.tee).codeHash)
                                            /\ governance = TeeInfo(tx.tee).governanceHash
      [] tx.op = "requestTeeAttestation" -> machine[tx.tee] # "none"
      [] tx.op = "toProduction"          -> GetFTDCAvailabilityCheckResult(tx.id)
      [] OTHER -> tx.id # NoId /\ instruction[tx.id] = [kind |-> "attest", tee |-> tx.tee, status |-> "open"]

AddTeeVersion(tx) ==
    /\ tx.op = "addTeeVersion"
    /\ versions' = versions \cup {<<Versions[tx.tee], TeeInfo(tx.tee).codeHash>>}
    /\ Proceed(tx, "governance")
    /\ UNCHANGED <<machine, governance, instruction>>

SetNewTeeGovernance(tx) ==
    /\ tx.op = "setNewTeeGovernance"
    /\ governance' = tx.governance
    /\ Proceed(tx, "begin")
    /\ UNCHANGED <<machine, versions, instruction>>

Attest(tx) ==
    /\ tx.op \in {"register", "requestTeeAttestation"}
    /\ machine' = IF tx.op = "register" THEN [machine EXCEPT ![tx.tee] = "registered"] ELSE machine
    /\ \E id \in 1..MaxId :
          /\ FreshId(id)
          /\ instruction' = [instruction EXCEPT ![id] = [kind |-> "attest", tee |-> tx.tee, status |-> "open"]]
          /\ Receipt(tx, Remember(run[tx.by], id))
    /\ UNCHANGED <<versions, governance>>

RequestAvailability(tx) ==
    /\ tx.op = "requestAvailabilityCheckAttestation"
    /\ \E id \in 1..MaxId :
          /\ FreshId(id)
          /\ instruction' = [instruction EXCEPT
                ![tx.id].status = "used",
                ![id] = [kind |-> "avail", tee |-> tx.tee,
                         status |-> IF policyInSync(lead) THEN "asked" ELSE "rejected"]]
          /\ Receipt(tx, Remember(run[tx.by], id))
    /\ UNCHANGED <<machine, versions, governance>>

Promote(tx) ==
    /\ tx.op = "toProduction"
    /\ machine' = [machine EXCEPT ![instruction[tx.id].tee] = "production"]
    /\ Proceed(tx, "end")
    /\ UNCHANGED <<versions, governance, instruction>>

Mine ==
    /\ mempool # <<>>
    /\ LET tx == Head(mempool) IN
          /\ Accepts(tx)
          /\ \/ AddTeeVersion(tx) \/ SetNewTeeGovernance(tx) \/ Attest(tx)
             \/ RequestAvailability(tx) \/ Promote(tx)
    /\ mempool' = Tail(mempool)
    /\ UNCHANGED <<plan, lead, stateFile, faults>>

(* CheckTx reports the revert, and the tool ends.  allow-tee-version goes  *)
(* on when the error names VersionAlreadyExists, which is up to the node.  *)
Revert ==
    /\ mempool # <<>>
    /\ LET tx == Head(mempool) IN
          /\ ~Accepts(tx)
          /\ \/ Receipt(tx, Idle)
             \/ tx.op = "addTeeVersion" /\ Proceed(tx, "governance")
    /\ mempool' = Tail(mempool)
    /\ UNCHANGED <<plan, machine, versions, governance, instruction, lead, stateFile, faults>>

(* External: the data providers prove an availability check, lose it, or   *)
(* let a challenge expire; the proxy falls behind and catches up.          *)
Prove(id) ==
    /\ instruction[id].kind = "avail" /\ instruction[id].status = "asked"
    /\ instruction' = [instruction EXCEPT ![id].status = "proved"]
    /\ UNCHANGED <<plan, machine, versions, governance, lead, mempool, stateFile, run, faults>>

Lapse(id) ==
    /\ \/ instruction[id].kind = "attest" /\ instruction[id].status = "open"
       \/ instruction[id].kind = "avail" /\ instruction[id].status = "asked"
    /\ instruction' = [instruction EXCEPT ![id].status = IF instruction[id].status = "open" THEN "used" ELSE "rejected"]
    /\ Fault
    /\ UNCHANGED <<plan, machine, versions, governance, lead, mempool, stateFile, run>>

DriftAway ==
    /\ lead' \in plan.leads \ {lead}
    /\ Fault
    /\ UNCHANGED <<plan, machine, versions, governance, instruction, mempool, stateFile, run>>

CatchUp ==
    /\ ~policyInSync(lead)
    /\ lead' = 0
    /\ UNCHANGED <<plan, machine, versions, governance, instruction, mempool, stateFile, run, faults>>

ToolStep(r) ==
    \/ allowTeeVersion(r) \/ SetTeeGovernance(r) \/ Begin(r) \/ loadState(r)
    \/ SkipStep(r) \/ PreRegistration(r) \/ RequestTeeAttestation(r)
    \/ RequestFTDCAvailabilityCheck(r) \/ CheckFTDCProxyPolicyConsistency(r)
    \/ ToProduction(r) \/ ActionResultTimeout(r) \/ Finish(r) \/ saveState(r)

Next ==
    \/ \E r \in Runs : Start(r) \/ ToolStep(r) \/ SaveFails(r) \/ Stop(r)
    \/ Mine \/ Revert
    \/ \E id \in 1..MaxId : Prove(id) \/ Lapse(id)
    \/ DriftAway \/ CatchUp

(* Operators start over until they are done, running tools go on, mined    *)
(* blocks keep coming, the providers answer and the proxy catches up.      *)
Fairness ==
    /\ \A r \in Runs : WF_vars(Start(r)) /\ WF_vars(ToolStep(r))
    /\ WF_vars(Mine) /\ WF_vars(Revert) /\ WF_vars(CatchUp)
    /\ \A id \in 1..MaxId : WF_vars(Prove(id))

Spec == Init /\ [][Next]_vars /\ Fairness
-----------------------------------------------------------------------------
(* The state file does not say which machine it is about.  The operators   *)
(* have one machine, or take one after the other, each afresh, and no      *)
(* leftover file stays because it cannot be removed.                       *)
OneMachineAtATime ==
    \/ Cardinality(plan.tees) = 1
    \/ Cardinality(plan.runs) = 1 /\ plan.resumes = {FALSE} /\ plan.maxFaults <= 1

(* register-tee reports "Registered TEE node with id" for the machine it   *)
(* was pointed at.  If its command includes the promotion, that machine is *)
(* in production, whatever failed before and whoever else ran the tool.    *)
SuccessMeansProduction ==
    OneMachineAtATime =>
        \A r \in Runs : run[r].pc = "registered" /\ "p" \in run[r].command
                           => machine[run[r].tee] = "production"

(* saveState: through crashes, transactions that are mined late and other  *)
(* runs, the state file never claims a step that did not happen.           *)
StateFileTellsTheTruth ==
    stateFile.kind = "saved" =>
        LET s == stateFile.state
            is(id, kind) == id # NoId /\ instruction[id].kind = kind
        IN  /\ s.done \cap {"r", "R"} # {} => is(s.attest, "attest") /\ machine[instruction[s.attest].tee] # "none"
            /\ "a" \in s.done => is(s.avail, "avail")

(* allow-tee-version: whatever was refused, mined late or sent twice, when  *)
(* the tool has succeeded the extension supports the code of the machine.  *)
(* Only a version name that other code has taken misleads it: the refusal  *)
(* says VersionAlreadyExists then too.                                     *)
WhitelistedUnlessNameTaken ==
    \A r \in Runs : run[r].pc = "governance" =>
       Supported(TeeInfo(run[r].tee).codeHash) \/ NameTaken(run[r].tee)

(* Every run is a whole one and starts afresh.  (An operator who always    *)
(* resumes can be stuck for good with a torn file or a spent challenge.)   *)
StartsOver ==
    /\ Cardinality(plan.runs) = 1 /\ plan.resumes = {FALSE} /\ plan.entries = {"version"}
    /\ \A c \in plan.commands : {"r", "a", "p"} \subseteq c
    /\ \A t \in plan.tees : plan.governances = {NodeGovernance[t]}

(* RegisterNode: an operator who starts over gets the machine into         *)
(* production once failures stop, whatever they left behind: a half        *)
(* registered machine, spent challenges, late transactions, a torn file.   *)
EventuallyInProduction ==
    StartsOver /\ Cardinality(plan.tees) = 1 => <>(\A t \in plan.tees : machine[t] = "production")
=============================================================================
