------------------------------- MODULE Escrow -------------------------------
(***************************************************************************)
(* contracts/WorkProofEscrow.sol: the escrow contract's job life cycle.    *)
(*                                                                         *)
(* One action per external function; a reverting transaction is an action  *)
(* that is not enabled.  Actions that are not functions of the contract    *)
(* are its environment: the block clock, the voting-round random beacon,   *)
(* the TEE machine registry, and contracts being (re)deployed at the       *)
(* artifact addresses.                                                     *)
(*                                                                         *)
(* Data abstraction.  The hashes of the job terms (spec, private bundle,   *)
(* engine version, ciphertext) are one model value, terms.commitment; the  *)
(* value hash of a random round is determined by the round, so only the    *)
(* round is kept; schemaVersion, escrowAddress, chainId, opType and        *)
(* opCommand are constants of the deployment and left out.  Every block    *)
(* has a timestamp of its own, so a timestamp also names the block.        *)
(***************************************************************************)
EXTENDS EscrowAdmin, Integers, FiniteSets

CONSTANTS
    Treasury,       \* fee receiver fixed by the constructor
    Clients,        \* senders of createJob
    Contractors,    \* contractor arguments of createJob
    Tees,           \* identities of TEE machines, also what they sign with
    UnstableTees,   \* machines whose registry status changes
    Forgers,        \* other keys results get signed with
    Principals,     \* principal arguments of createJob
    Schedules,      \* the four time arguments of createJob
    Commitments,    \* the hash arguments of createJob
    Artifacts,      \* addresses submitAttempt is called with
    Redeployable,   \* artifact addresses whose code changes
    CodeHashes,     \* code that can live at an artifact address
    NoCode,         \* codehash of an address without code
    Counts,         \* passed/executed counters a result can carry
    Supply,         \* initial token balance of every account but Self
    MIN_VERIFICATION_TIMEOUT, MAX_VERIFICATION_TIMEOUT,
    RoundLength,    \* duration of a voting round
    MaxInsecure,    \* bound: insecure rounds of the beacon
    MaxTime,        \* bound: last block timestamp
    MaxJobs,        \* bound: jobs created
    MaxAttempts     \* bound: attempts of one job

VARIABLES
    nextJobId,      \* id of the next job
    terms,          \* jobs[id].terms
    current,        \* jobs[id].current
    state,          \* jobs[id].state
    settled,        \* jobs[id].settled
    balance,        \* external: the token's balances
    now,            \* external: block.timestamp
    beacon,         \* external: is round r secure?  beacon[r + 1], once finalized
    production,     \* external: TEE machines whose status is PRODUCTION
    code,           \* external: codehash at an artifact address
    sent,           \* external: instructions accepted by sendInstructions
    nonce,          \* external: instruction ids handed out so far
    settlements,    \* history: the verdicts accepted for a job, in order
    released        \* history: tokens a job has paid out, by receiver

storage   == <<nextJobId, terms, current, state, settled>>
chain     == <<now, beacon, production, code>>
registry  == <<sent, nonce>>
history   == <<settlements, released>>
vars      == <<adminVars, storage, balance, chain, registry, history>>

JobIds    == 0 .. MaxJobs - 1
Accounts  == Address \cup {Self}

State == {"Created", "Accepted", "RandomnessPending", "ReadyToVerify", "Verifying",
          "AwaitingResubmission", "Retryable", "Paid", "Cancelled", "Refunded",
          "RefundPending"}

Outcome == {"Pass", "Fail", "Inconclusive"}

JobTerms == [client : Address \cup {Zero}, contractor : Accounts \cup {Zero},
             expectedTee : Tees \cup {Zero}, principal : Nat, fee : Nat,
             acceptBy : Nat, submitBy : Nat, graceEnds : Nat,
             verificationTimeout : Nat, commitment : Commitments \cup {Zero}]

AttemptState == [attempt : Nat, artifactAddress : Artifacts \cup {Zero}, artifactBlock : Nat,
                 artifactCodeHash : CodeHashes \cup {NoCode}, targetRound : Nat,
                 randomRound : Nat, randomLocked : BOOLEAN,
                 instructionId : Nat, dispatchedAt : Nat, timeoutAt : Nat]

(* What a WorkProofInstruction tells the TEE, with the id the registry     *)
(* gives it and the machine it is addressed to.                            *)
Instruction == [jobId : JobIds, attempt : Nat, instructionId : Nat, tee : Tees,
                commitment : Commitments \cup {Zero}, artifactAddress : Artifacts \cup {Zero},
                artifactBlock : Nat, artifactCodeHash : CodeHashes \cup {NoCode},
                randomRound : Nat, expiresAt : Nat]

Schedule == [acceptBy : Nat, submitBy : Nat, graceEnds : Nat, verificationTimeout : Nat]

ASSUME TokenAssumption ==
    /\ Treasury \in Address          \* constructor: neither zero nor this contract
    /\ Supply \in Nat
    /\ Principals \subseteq Nat

ASSUME InputAssumption ==
    /\ Clients \subseteq Address
    /\ Contractors \subseteq Accounts \cup {Zero}
    /\ Zero \notin Tees /\ Zero \notin Artifacts /\ Zero \notin Commitments
    /\ Tees \cap Forgers = {}
    /\ UnstableTees \subseteq Tees /\ Redeployable \subseteq Artifacts
    /\ Schedules \subseteq Schedule
    /\ NoCode \notin CodeHashes
    /\ Counts \subseteq Nat

ASSUME BoundAssumption ==
    /\ MIN_VERIFICATION_TIMEOUT \in Nat \ {0}
    /\ MAX_VERIFICATION_TIMEOUT \in Nat
    /\ RoundLength \in Nat \ {0}
    /\ MaxInsecure \in Nat
    /\ MaxTime \in Nat /\ MaxJobs \in Nat /\ MaxAttempts \in Nat

(* The zero values Solidity storage starts from.  State.Created is the     *)
(* enum's zero value: an id that was never created looks Created.          *)
NoTerms ==
    [client |-> Zero, contractor |-> Zero, expectedTee |-> Zero, principal |-> 0, fee |-> 0,
     acceptBy |-> 0, submitBy |-> 0, graceEnds |-> 0, verificationTimeout |-> 0,
     commitment |-> Zero]

NoAttempt ==
    [attempt |-> 0, artifactAddress |-> Zero, artifactBlock |-> 0, artifactCodeHash |-> NoCode,
     targetRound |-> 0, randomRound |-> 0, randomLocked |-> FALSE,
     instructionId |-> 0, dispatchedAt |-> 0, timeoutAt |-> 0]

Init ==
    /\ AdminInit
    /\ nextJobId = 0
    /\ terms = [id \in JobIds |-> NoTerms]
    /\ current = [id \in JobIds |-> NoAttempt]
    /\ state = [id \in JobIds |-> "Created"]
    /\ settled = [id \in JobIds |-> FALSE]
    /\ balance = [a \in Accounts |-> IF a = Self THEN 0 ELSE Supply]
    /\ now = 0
    /\ beacon = <<>>
    /\ production = Tees
    /\ code \in [Artifacts -> CodeHashes \cup {NoCode}]
    /\ sent = {}
    /\ nonce = 0
    /\ settlements = [id \in JobIds |-> <<>>]
    /\ released = [id \in JobIds |-> [contractor |-> 0, client |-> 0, treasury |-> 0]]
-----------------------------------------------------------------------------
(* External: an ERC-20 transfer of amount from one account to another.     *)
(* The token reverts on the zero receiver and on insufficient balance.     *)
TokenAccepts(bal, from, to, amount) == to # Zero /\ bal[from] >= amount

\* Mutant: debit and credit are swapped.
M_Moved(bal, from, to, amount) ==
    [bal EXCEPT ![from] = @ + amount, ![to] = @ - amount]

Moved(bal, from, to, amount) ==
    [bal EXCEPT ![from] = @ - amount, ![to] = @ + amount]

(* External: RELAY.getVotingRoundId. *)
VotingRound(time) == time \div RoundLength

(* External: getRandomNumberHistorical answers for a finalized round only. *)
RoundFinalized(round) == round < Len(beacon)
RoundSecure(round) == beacon[round + 1]

_confirmProductionTee(tee) == tee # Zero /\ tee \in production
-----------------------------------------------------------------------------
ValidTerms(contractor, tee, principal, s) ==
    /\ contractor # Zero /\ tee # Zero
    /\ now < s.acceptBy /\ s.acceptBy < s.submitBy /\ s.submitBy < s.graceEnds
    /\ MIN_VERIFICATION_TIMEOUT <= s.verificationTimeout
    /\ s.verificationTimeout <= MAX_VERIFICATION_TIMEOUT
    /\ principal # 0

Fee(principal) == (principal * protocolFeeBps) \div 10000

(* The new job's terms and state are written; its `current` and `settled`  *)
(* are not, they keep whatever the storage slot held.                      *)
createJob(sender, contractor, tee, principal, s, commitment) ==
    LET id  == nextJobId
        fee == Fee(principal)
    IN  /\ id \in JobIds
        /\ ~paused
        /\ ValidTerms(contractor, tee, principal, s)
        /\ _getExtensionId
        /\ _confirmProductionTee(tee)
        /\ TokenAccepts(balance, sender, Self, principal + fee)
        /\ balance' = Moved(balance, sender, Self, principal + fee)
        /\ nextJobId' = id + 1
        /\ terms' = [terms EXCEPT ![id] =
              [client |-> sender, contractor |-> contractor, expectedTee |-> tee,
               principal |-> principal, fee |-> fee, acceptBy |-> s.acceptBy,
               submitBy |-> s.submitBy, graceEnds |-> s.graceEnds,
               verificationTimeout |-> s.verificationTimeout, commitment |-> commitment]]
        /\ state' = [state EXCEPT ![id] = "Created"]
        /\ UNCHANGED <<adminVars, current, settled, chain, registry, history>>

acceptJob(sender, id) ==
    /\ state[id] = "Created"
    /\ sender = terms[id].contractor
    /\ now <= terms[id].acceptBy
    /\ state' = [state EXCEPT ![id] = "Accepted"]
    /\ UNCHANGED <<adminVars, nextJobId, terms, current, settled, balance, chain, registry, history>>

(* The payouts of a job after a transaction that pays it out. *)
Credited(receipt, toContractor, toClient, toTreasury) ==
    [contractor |-> receipt.contractor + toContractor,
     client     |-> receipt.client + toClient,
     treasury   |-> receipt.treasury + toTreasury]

(* Refunds a job in full: the common end of cancelUnaccepted and           *)
(* refundExpired.                                                          *)
ReturnToClient(id, newState) ==
    LET client == terms[id].client
        amount == terms[id].principal + terms[id].fee
    IN  /\ TokenAccepts(balance, Self, client, amount)
        /\ state' = [state EXCEPT ![id] = newState]
        /\ settled' = [settled EXCEPT ![id] = TRUE]
        /\ balance' = Moved(balance, Self, client, amount)
        /\ released' = [released EXCEPT ![id] = Credited(released[id], 0, amount, 0)]
        /\ UNCHANGED <<adminVars, nextJobId, terms, current, chain, registry, settlements>>

cancelUnaccepted(sender, id) ==
    /\ state[id] = "Created"
    /\ sender = terms[id].client
    /\ ReturnToClient(id, "Cancelled")

\* Mutant: the seed comes from the round in which the artifact is submitted.
M_submitAttempt(sender, id, artifact) ==
    /\ ~paused
    /\ sender = terms[id].contractor
    /\ state[id] \in {"Accepted", "AwaitingResubmission", "Retryable"}
    /\ now <= terms[id].submitBy
    /\ code[artifact] # NoCode
    /\ current[id].attempt < MaxAttempts
    /\ current' = [current EXCEPT ![id] =
          [NoAttempt EXCEPT !.attempt = current[id].attempt + 1,
                            !.artifactAddress = artifact,
                            !.artifactBlock = now,
                            !.artifactCodeHash = code[artifact],
                            !.targetRound = VotingRound(now)]]
    /\ state' = [state EXCEPT ![id] = "RandomnessPending"]
    /\ UNCHANGED <<adminVars, nextJobId, terms, settled, balance, chain, registry, history>>

(* The attempt record is rebuilt from scratch: nothing of an earlier       *)
(* attempt's randomness or instruction survives.                           *)
submitAttempt(sender, id, artifact) ==
    /\ ~paused
    /\ sender = terms[id].contractor
    /\ state[id] \in {"Accepted", "AwaitingResubmission", "Retryable"}
    /\ now <= terms[id].submitBy
    /\ code[artifact] # NoCode
    /\ current[id].attempt < MaxAttempts
    /\ current' = [current EXCEPT ![id] =
          [NoAttempt EXCEPT !.attempt = current[id].attempt + 1,
                            !.artifactAddress = artifact,
                            !.artifactBlock = now,
                            !.artifactCodeHash = code[artifact],
                            !.targetRound = VotingRound(now) + 1]]
    /\ state' = [state EXCEPT ![id] = "RandomnessPending"]
    /\ UNCHANGED <<adminVars, nextJobId, terms, settled, balance, chain, registry, history>>

(* Reverts until the target round is final; an insecure round moves the    *)
(* target on by one round, and that transaction succeeds.                  *)
lockRandomness(id) ==
    LET target == current[id].targetRound
    IN  /\ state[id] = "RandomnessPending"
        /\ RoundFinalized(target)
        /\ IF RoundSecure(target)
             THEN /\ current' = [current EXCEPT ![id] =
                                   [@ EXCEPT !.randomRound = target, !.randomLocked = TRUE]]
                  /\ state' = [state EXCEPT ![id] = "ReadyToVerify"]
             ELSE /\ current' = [current EXCEPT ![id] = [@ EXCEPT !.targetRound = target + 1]]
                  /\ UNCHANGED state
        /\ UNCHANGED <<adminVars, nextJobId, terms, settled, balance, chain, registry, history>>

(* The message dispatchVerification sends, under the id it will get. *)
InstructionFor(id, instructionId) ==
    [jobId |-> id, attempt |-> current[id].attempt, instructionId |-> instructionId,
     tee |-> terms[id].expectedTee, commitment |-> terms[id].commitment,
     artifactAddress |-> current[id].artifactAddress,
     artifactBlock |-> current[id].artifactBlock,
     artifactCodeHash |-> current[id].artifactCodeHash,
     randomRound |-> current[id].randomRound, expiresAt |-> terms[id].graceEnds]

TimeoutAt(id) ==
    LET raw == now + terms[id].verificationTimeout
    IN  IF raw < terms[id].graceEnds THEN raw ELSE terms[id].graceEnds

dispatchVerification(id) ==
    LET instructionId == nonce + 1
    IN  /\ state[id] = "ReadyToVerify"
        /\ current[id].randomLocked
        /\ _confirmProductionTee(terms[id].expectedTee)
        /\ sent' = sent \cup {InstructionFor(id, instructionId)}
        /\ nonce' = instructionId
        /\ TimeoutAt(id) > now
        /\ current' = [current EXCEPT ![id] =
              [@ EXCEPT !.instructionId = instructionId, !.dispatchedAt = now,
                        !.timeoutAt = TimeoutAt(id)]]
        /\ state' = [state EXCEPT ![id] = "Verifying"]
        /\ UNCHANGED <<adminVars, nextJobId, terms, settled, balance, chain, history>>

expireVerification(id) ==
    /\ state[id] = "Verifying"
    /\ now > current[id].timeoutAt
    /\ current' = [current EXCEPT ![id] =
          [@ EXCEPT !.instructionId = 0, !.dispatchedAt = 0, !.timeoutAt = 0]]
    /\ state' = [state EXCEPT ![id] = "Retryable"]
    /\ UNCHANGED <<adminVars, nextJobId, terms, settled, balance, chain, registry, history>>
-----------------------------------------------------------------------------
(* A signed action result: the verdict (the instruction it claims to       *)
(* answer, the outcome with its counters, the time of issue) and the parts *)
(* of the envelope under the signature.                                    *)
SignedResult(claim, signer, status, tag, outcome, passed, executed, issuedAt) ==
    [claim |-> claim, signer |-> signer, status |-> status, tag |-> tag,
     outcome |-> outcome, passed |-> passed, executed |-> executed, issuedAt |-> issuedAt]

(* status, tag and signer: the result is final, complete, and signed by    *)
(* the machine pinned in the job.                                          *)
Authentic(id, r) ==
    /\ r.status = 1
    /\ r.tag = "threshold"
    /\ r.signer = terms[id].expectedTee

_checkIdentity(id, r) ==
    /\ r.claim.jobId = id
    /\ r.claim.attempt = current[id].attempt
    /\ r.claim.instructionId = current[id].instructionId
    /\ r.claim.commitment = terms[id].commitment
    /\ r.claim.artifactAddress = current[id].artifactAddress
    /\ r.claim.artifactBlock = current[id].artifactBlock

\* Mutant: the code deployed at settlement time is not looked at.
M_checkOutcomeBinding(id, r) ==
    /\ r.claim.artifactCodeHash = current[id].artifactCodeHash
    /\ r.claim.randomRound = current[id].randomRound
    /\ r.executed # 0 /\ r.passed <= r.executed
    /\ (r.outcome = "Pass") <=> (r.passed = r.executed)
    /\ r.claim.expiresAt = terms[id].graceEnds
    /\ current[id].dispatchedAt <= r.issuedAt /\ r.issuedAt <= now

_checkOutcomeBinding(id, r) ==
    /\ code[current[id].artifactAddress] = current[id].artifactCodeHash
    /\ r.claim.artifactCodeHash = current[id].artifactCodeHash
    /\ r.claim.randomRound = current[id].randomRound
    /\ r.executed # 0 /\ r.passed <= r.executed
    /\ (r.outcome = "Pass") <=> (r.passed = r.executed)
    /\ r.claim.expiresAt = terms[id].graceEnds
    /\ current[id].dispatchedAt <= r.issuedAt /\ r.issuedAt <= now

\* Mutant: a verdict that pays nothing is refused if it was accepted before,
\* and not if its instruction is an older one.
M_checkBinding(id, r) ==
    \/ r.claim.attempt = current[id].attempt /\ _checkIdentity(id, r) /\ _checkOutcomeBinding(id, r)
    \/ /\ r.claim.jobId = id /\ r.claim.attempt < current[id].attempt
       /\ r.outcome # "Pass" /\ r.passed < r.executed
       /\ \A k \in DOMAIN settlements[id] : settlements[id][k].claim # r.claim

_checkBinding(id, r) == _checkIdentity(id, r) /\ _checkOutcomeBinding(id, r)

\* Mutant: an inconclusive attempt stays open.
M_AfterNoPay(id, outcome) == IF outcome = "Fail" THEN "AwaitingResubmission" ELSE "Verifying"

(* The state a verdict that pays nothing leads to. *)
AfterNoPay(id, outcome) ==
    CASE now > terms[id].submitBy  -> "RefundPending"
      [] now <= terms[id].submitBy /\ outcome = "Fail" -> "AwaitingResubmission"
      [] OTHER -> "Retryable"

Settlement(id, r) ==
    [claim |-> r.claim, signer |-> r.signer, outcome |-> r.outcome, passed |-> r.passed,
     executed |-> r.executed, liveCode |-> code[current[id].artifactAddress], at |-> now]

\* Mutant: the job is not marked settled.
M_PayContractor(id) ==
    LET t == terms[id]
        afterPrincipal == Moved(balance, Self, t.contractor, t.principal)
    IN  /\ TokenAccepts(balance, Self, t.contractor, t.principal)
        /\ TokenAccepts(afterPrincipal, Self, Treasury, t.fee)
        /\ balance' = Moved(afterPrincipal, Self, Treasury, t.fee)
        /\ released' = [released EXCEPT ![id] = Credited(released[id], t.principal, 0, t.fee)]
        /\ UNCHANGED settled

\* Mutant: the fee is computed again, from the protocol fee of today.
M_PayContractorFeeToday(id) ==
    LET t == terms[id]
        afterPrincipal == Moved(balance, Self, t.contractor, t.principal)
    IN  /\ TokenAccepts(balance, Self, t.contractor, t.principal)
        /\ TokenAccepts(afterPrincipal, Self, Treasury, Fee(t.principal))
        /\ settled' = [settled EXCEPT ![id] = TRUE]
        /\ balance' = Moved(afterPrincipal, Self, Treasury, Fee(t.principal))
        /\ released' = [released EXCEPT ![id] = Credited(released[id], t.principal, 0, Fee(t.principal))]

PayContractor(id) ==
    LET t == terms[id]
        afterPrincipal == Moved(balance, Self, t.contractor, t.principal)
    IN  /\ TokenAccepts(balance, Self, t.contractor, t.principal)
        /\ TokenAccepts(afterPrincipal, Self, Treasury, t.fee)
        /\ settled' = [settled EXCEPT ![id] = TRUE]
        /\ balance' = Moved(afterPrincipal, Self, Treasury, t.fee)
        /\ released' = [released EXCEPT ![id] = Credited(released[id], t.principal, 0, t.fee)]

settleAttempt(id, r) ==
    /\ state[id] = "Verifying"
    /\ now <= current[id].timeoutAt
    /\ now <= terms[id].graceEnds
    /\ current[id].instructionId # 0
    /\ Authentic(id, r)
    /\ _checkBinding(id, r)
    /\ settlements' = [settlements EXCEPT ![id] = Append(@, Settlement(id, r))]
    /\ \/ /\ r.outcome = "Pass"
          /\ state' = [state EXCEPT ![id] = "Paid"]
          /\ PayContractor(id)
       \/ /\ r.outcome # "Pass"
          /\ state' = [state EXCEPT ![id] = AfterNoPay(id, r.outcome)]
          /\ UNCHANGED <<settled, balance, released>>
    /\ UNCHANGED <<adminVars, nextJobId, terms, current, chain, registry>>

(* When settleAttempt reverts: by a check of its own or, when it pays, by  *)
(* one of the token's.                                                     *)
settleReverts(id, r) ==
    \/ state[id] # "Verifying"
    \/ now > current[id].timeoutAt
    \/ now > terms[id].graceEnds
    \/ current[id].instructionId = 0
    \/ ~Authentic(id, r)
    \/ ~_checkBinding(id, r)
    \/ LET t == terms[id] IN
       /\ r.outcome = "Pass"
       /\ \/ ~TokenAccepts(balance, Self, t.contractor, t.principal)
          \/ ~TokenAccepts(Moved(balance, Self, t.contractor, t.principal), Self, Treasury, t.fee)

(* External: whatever a relayer can get hold of.  A TEE machine signs only *)
(* for instructions addressed to it; any other key signs what it likes.    *)
(* Delivery is free: any result, at any time, any number of times.         *)
Settle(id) ==
    \E claim \in sent, status \in {0, 1}, tag \in {"threshold", "end"},
       outcome \in Outcome, passed \in Counts, executed \in Counts, issuedAt \in 0..MaxTime :
       \E signer \in {claim.tee} \cup Forgers :
          settleAttempt(id, SignedResult(claim, signer, status, tag,
                                         outcome, passed, executed, issuedAt))

\* Mutant: the refund opens in the last second of the grace period.
M_refundAtGraceEnds(id) ==
    /\ ~settled[id]
    /\ now >= terms[id].graceEnds
    /\ ReturnToClient(id, "Refunded")

\* Mutant: only jobs whose last verdict came too late are refunded.
M_refundPendingOnly(id) ==
    /\ ~settled[id]
    /\ state[id] = "RefundPending"
    /\ now > terms[id].graceEnds
    /\ ReturnToClient(id, "Refunded")

(* No check that the job exists: for an id never created, `settled` is     *)
(* false and graceEnds 0, and only the token's refusal of the zero         *)
(* receiver makes the transaction revert.                                  *)
refundExpired(id) ==
    /\ ~settled[id]
    /\ now > terms[id].graceEnds
    /\ ReturnToClient(id, "Refunded")

(* When refundExpired reverts: by its own check or by the token's. *)
refundReverts(id) ==
    \/ settled[id]
    \/ now <= terms[id].graceEnds
    \/ ~TokenAccepts(balance, Self, terms[id].client, terms[id].principal + terms[id].fee)
-----------------------------------------------------------------------------
(* External: a new block. *)
Tick ==
    /\ now < MaxTime
    /\ now' = now + 1
    /\ UNCHANGED <<adminVars, storage, balance, beacon, production, code, registry, history>>

(* External: the beacon finalizes rounds in order, each after its end. *)
FinalizeRound ==
    /\ Len(beacon) < VotingRound(now)
    /\ \E secure \in BOOLEAN :
          /\ secure \/ Cardinality({i \in 1..Len(beacon) : ~beacon[i]}) < MaxInsecure
          /\ beacon' = Append(beacon, secure)
    /\ UNCHANGED <<adminVars, storage, balance, now, production, code, registry, history>>

(* External: a machine leaves or re-enters PRODUCTION status. *)
ChangeTeeStatus(tee) ==
    /\ production' = IF tee \in production THEN production \ {tee} ELSE production \cup {tee}
    /\ UNCHANGED <<adminVars, storage, balance, now, beacon, code, registry, history>>

(* External: code is deployed, destroyed or replaced at an address. *)
ChangeCode(artifact) ==
    /\ \E h \in (CodeHashes \cup {NoCode}) \ {code[artifact]} : code' = [code EXCEPT ![artifact] = h]
    /\ UNCHANGED <<adminVars, storage, balance, now, beacon, production, registry, history>>

Administer == AdminNext /\ UNCHANGED <<storage, balance, chain, registry, history>>

Environment ==
    \/ Tick
    \/ FinalizeRound
    \/ \E tee \in UnstableTees : ChangeTeeStatus(tee)
    \/ \E artifact \in Redeployable : ChangeCode(artifact)

Create ==
    \E sender \in Clients, contractor \in Contractors, tee \in Tees, principal \in Principals,
       s \in Schedules, commitment \in Commitments :
       createJob(sender, contractor, tee, principal, s, commitment)

PartyStep(id) ==
    \/ \E sender \in Address :
          \/ acceptJob(sender, id)
          \/ cancelUnaccepted(sender, id)
          \/ \E artifact \in Artifacts : submitAttempt(sender, id, artifact)
    \/ lockRandomness(id)
    \/ dispatchVerification(id)
    \/ expireVerification(id)
    \/ refundExpired(id)

JobStep(id) == PartyStep(id) \/ Settle(id)

Next ==
    \/ Administer
    \/ Create
    \/ \E id \in JobIds : JobStep(id)
    \/ Environment

Spec == Init /\ [][Next]_vars
-----------------------------------------------------------------------------
Receipt == [contractor : Nat, client : Nat, treasury : Nat]

Verdict == [claim : Instruction, signer : Tees \cup Forgers, outcome : Outcome,
            passed : Nat, executed : Nat, liveCode : CodeHashes \cup {NoCode}, at : Nat]

(* The state of the contract, of its environment and of the histories has  *)
(* its types.                                                              *)
TypeOK ==
    /\ AdminTypeOK
    /\ nextJobId \in 0..MaxJobs
    /\ terms \in [JobIds -> JobTerms]
    /\ current \in [JobIds -> AttemptState]
    /\ state \in [JobIds -> State]
    /\ settled \in [JobIds -> BOOLEAN]
    /\ balance \in [Accounts -> Nat]
    /\ now \in 0..MaxTime
    /\ beacon \in Seq(BOOLEAN)
    /\ production \subseteq Tees
    /\ code \in [Artifacts -> CodeHashes \cup {NoCode}]
    /\ sent \subseteq Instruction
    /\ nonce \in Nat
    /\ settlements \in [JobIds -> Seq(Verdict)]
    /\ released \in [JobIds -> Receipt]

Exists(id) == id < nextJobId

(* What the contract still has to pay out for a job, and all of it, token  *)
(* unit by token unit.                                                     *)
Owed(id) == IF Exists(id) /\ ~settled[id] THEN terms[id].principal + terms[id].fee ELSE 0

OwedUnits == UNION {{id} \X (1..Owed(id)) : id \in JobIds}

(* SPEC.md "Invariants": the contract holds exactly the principals and     *)
(* fees of the jobs that have not settled, whatever the interleaving of    *)
(* createJob, cancelUnaccepted, settleAttempt and refundExpired on several *)
(* jobs, and whatever happens to the protocol fee in between.              *)
Solvent == balance[Self] = Cardinality(OwedUnits)

(* settleAttempt, cancelUnaccepted, refundExpired: the flag `settled`,     *)
(* which only refundExpired reads, agrees with the state, and a job's      *)
(* tokens have left exactly once: all to the contractor and the treasury   *)
(* of a Paid job, all to the client of a Cancelled or Refunded one.        *)
PaysOutExactlyOnce ==
    \A id \in JobIds :
       LET t == terms[id] IN
       /\ settled[id] <=> state[id] \in {"Paid", "Cancelled", "Refunded"}
       /\ settled[id] => Exists(id)
       /\ released[id] =
            [contractor |-> IF state[id] = "Paid" THEN t.principal ELSE 0,
             treasury   |-> IF state[id] = "Paid" THEN t.fee ELSE 0,
             client     |-> IF state[id] \in {"Cancelled", "Refunded"}
                              THEN t.principal + t.fee ELSE 0]

(* submitAttempt, lockRandomness: the round that seeds the tests is the    *)
(* first secure round after the one in which the artifact was submitted.   *)
(* Nobody who calls lockRandomness, early, late or repeatedly, has a       *)
(* choice, and the contractor cannot have known it when submitting.        *)
SeedIsFirstSecureRoundAfterSubmission ==
    \A id \in JobIds :
       LET c == current[id] IN
       c.attempt > 0 =>
          /\ \A round \in VotingRound(c.artifactBlock) + 1 .. c.targetRound - 1 :
                RoundFinalized(round) /\ ~RoundSecure(round)
          /\ c.targetRound > VotingRound(c.artifactBlock)
          /\ c.randomLocked => /\ c.randomRound = c.targetRound
                               /\ RoundFinalized(c.randomRound) /\ RoundSecure(c.randomRound)

(* _decodeAndAuthenticate, _checkIdentity, _checkOutcomeBinding: a Paid    *)
(* job was paid on a complete Pass that the pinned TEE signed for the last *)
(* instruction of the last attempt, for exactly the code the contractor    *)
(* submitted and that was still deployed, before the client's deadline.    *)
PaidOnMatchingPass ==
    \A id \in JobIds :
       state[id] = "Paid" =>
          /\ settlements[id] # <<>>
          /\ LET v == settlements[id][Len(settlements[id])] IN
             /\ v.outcome = "Pass" /\ v.passed = v.executed /\ v.executed > 0
             /\ v.signer = terms[id].expectedTee
             /\ v.claim \in sent
             /\ v.claim = InstructionFor(id, current[id].instructionId)
             /\ v.liveCode = current[id].artifactCodeHash
             /\ v.at <= terms[id].graceEnds

(* SPEC.md "Invariants": an attempt's result is accepted at most once, so  *)
(* the accepted verdicts of a job are of strictly later attempts each      *)
(* time, and nothing is accepted after a Pass.                             *)
OneVerdictPerAttempt ==
    \A id \in JobIds : \A i, k \in 1..Len(settlements[id]) :
       i < k => /\ settlements[id][i].claim.attempt < settlements[id][k].claim.attempt
                /\ settlements[id][i].outcome # "Pass"

(* expireVerification, submitAttempt, settleAttempt: once a newer          *)
(* instruction went out for a job, a late or replayed verdict for an older *)
(* one changes nothing, not even a verdict that pays nothing.              *)
OnlyLatestInstructionSettles ==
    [][\A id \in JobIds : settlements'[id] # settlements[id] =>
         LET v == settlements'[id][Len(settlements'[id])] IN
         \A i \in sent : i.jobId = id => i.instructionId <= v.claim.instructionId]_vars

(* refundExpired: once the grace period is over, the transaction that      *)
(* returns the client's tokens cannot revert: no other job, no fee change, *)
(* no pause and no TEE can have used up what it needs.                     *)
RefundCannotRevert ==
    \A id \in JobIds :
       Exists(id) /\ ~settled[id] /\ now > terms[id].graceEnds =>
          TokenAccepts(balance, Self, terms[id].client, terms[id].principal + terms[id].fee)

(* AUDIT_RESPONSE.md M-03: a job whose submission deadline has passed is   *)
(* not put into a state that invites a resubmission.                       *)
NoResubmissionAfterSubmitBy ==
    [][\A id \in JobIds :
         state'[id] # state[id] /\ state'[id] \in {"AwaitingResubmission", "Retryable"}
           => now <= terms[id].submitBy]_vars
-----------------------------------------------------------------------------
(* The escrow implements IdealEscrow. *)
Deal(id) ==
    CASE ~Exists(id) -> "none"
      [] Exists(id) /\ state[id] = "Paid" -> "paid"
      [] Exists(id) /\ state[id] \in {"Cancelled", "Refunded"} -> "returned"
      [] Exists(id) /\ state[id] = "Created" -> "offered"
      [] OTHER -> "engaged"

Ideal == INSTANCE IdealEscrow WITH
    Deals    <- JobIds,
    Stakes   <- [principal : Nat, fee : Nat],
    clock    <- now,
    deal     <- [id \in JobIds |-> Deal(id)],
    stake    <- [id \in JobIds |-> [principal |-> terms[id].principal, fee |-> terms[id].fee]],
    deadline <- [id \in JobIds |-> terms[id].graceEnds],
    receipts <- released

(* Every step of the escrow is a step of the ideal deal or changes nothing *)
(* the parties of a job could see.                                         *)
ImplementsIdealEscrow == Ideal!IdealSpec

(* Blocks keep coming, and refundExpired is open to everybody and moves    *)
(* the client's own money, so some transaction calls it while it can       *)
(* succeed.  Nothing is assumed of the contractor, the TEE, the beacon,    *)
(* the relayer or the owner.                                               *)
FairSpec ==
    /\ Spec
    /\ WF_vars(Tick)
    /\ \A id \in JobIds : WF_vars(refundExpired(id))

(* No job is stuck: whatever state it is abandoned in, it settles.         *)
EveryJobSettles == \A id \in JobIds : Exists(id) ~> settled[id]
=============================================================================
