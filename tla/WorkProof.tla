------------------------------ MODULE WorkProof ------------------------------
(***************************************************************************)
(* The whole verification path: the escrow contract dispatches an          *)
(* instruction, the verifier in the TEE re-reads the chain and tests the   *)
(* artifact, and a relayer brings the signed result back to settleAttempt. *)
(*                                                                         *)
(* In Escrow the results that arrive are arbitrary; here they are the ones *)
(* the verifier produced, so properties can speak about what was tested.   *)
(***************************************************************************)
EXTENDS Escrow, Verifier

CONSTANTS
    Skews           \* by how much the TEE host's clock can be off the chain's

VARIABLES
    codeAt          \* external: code at the artifact addresses at the end of each past block

systemVars == <<vars, verifierVars, codeAt>>

ASSUME SkewAssumption == Skews \subseteq Int

SystemInit ==
    /\ Init
    /\ VerifierInit
    /\ codeAt = <<>>

(* External: what the provider says of a job, of the code at a block and   *)
(* of the TEE host's clock.  A provider that lags behind and still shows   *)
(* an earlier state of the job either makes Verify give up (ReadFails) or  *)
(* is the same as a run that read the job earlier.                         *)
JobOf(id) == [terms |-> terms[id], current |-> current[id], state |-> state[id], settled |-> settled[id]]

CodeAtBlock(artifact, block) ==
    IF block < now THEN codeAt[block + 1][artifact] ELSE code[artifact]

HostClock == {now + s : s \in Skews} \cap Nat

(* The tee-node hands an instruction to the extension: late, repeatedly or *)
(* not at all.                                                             *)
VerifierStep(r) ==
    \/ \E instr \in sent, tag \in Tags : Begin(r, instr, tag)
    \/ \E clock \in HostClock : ReadJob(r, JobOf(run[r].instr.jobId), clock)
    \/ recomputeArtifactCodeHash(r, CodeAtBlock(run[r].instr.artifactAddress, run[r].instr.artifactBlock))
    \/ FetchRandomNumber(r, RoundSecure(run[r].instr.randomRound))
    \/ ReadFails(r)
    \/ \E clock \in HostClock : fetchAndDecryptBundle(r, clock)
    \/ ExecuteNext(r)
    \/ Conclude(r)
    \/ Lost(r)

(* relayer/src/relay.js: only a complete status 1 result is sent on, to    *)
(* whatever job the operator named, at any time and any number of times.   *)
validateActionResponse(result) == result.status = 1 /\ result.tag = "threshold"

Relay(id) ==
    \E result \in results :
       /\ validateActionResponse(result)
       /\ settleAttempt(id, result)

ChainStep ==
    \/ Administer
    \/ Create
    \/ \E id \in JobIds : PartyStep(id)
    \/ Environment

SystemNext ==
    \/ /\ ChainStep
       /\ codeAt' = IF now' = now THEN codeAt ELSE Append(codeAt, code)
       /\ UNCHANGED verifierVars
    \/ /\ \E id \in JobIds : Relay(id)
       /\ UNCHANGED <<verifierVars, codeAt>>
    \/ /\ \E r \in Runs : VerifierStep(r)
       /\ UNCHANGED <<vars, codeAt>>

SystemSpec == SystemInit /\ [][SystemNext]_systemVars
-----------------------------------------------------------------------------
RunType ==
    [pc : {"job", "code", "random", "bundle", "vectors"}, instr : Instruction, tag : Tags,
     issuedAt : Nat, outcomes : Seq({"passed", "failed", "skipped"})]

ResultType ==
    [claim : Instruction, signer : Tees, status : {1}, tag : Tags, outcome : Outcome,
     passed : Nat, executed : Nat, issuedAt : Nat]

(* Runs, results and the code history have their types; a run works on,    *)
(* and a result speaks for, an instruction that was sent.                  *)
SystemTypeOK ==
    /\ DOMAIN run = Runs
    /\ \A r \in Runs : run[r].pc \notin {"idle", "ended"} => run[r] \in RunType /\ run[r].instr \in sent
    /\ results \subseteq ResultType
    /\ \A result \in results : result.claim \in sent
    /\ codeAt \in Seq([Artifacts -> CodeHashes \cup {NoCode}])
    /\ Len(codeAt) = now

Passes(hash, v) ==
    IF v.type = "ETH_CALL_REVERTS"
      THEN Truth(hash, v) = "revert" \/ (~v.constrained /\ Truth(hash, v) = "otherRevert")
      ELSE Truth(hash, v) = "expected"

(* From submitAttempt to settleAttempt: if a job is paid, the code its     *)
(* contractor submitted really satisfies every test that the random round  *)
(* selected, whatever went wrong on the way: lost, late, repeated runs and *)
(* results, provider outages, redeployed artifacts, clocks that are off.   *)
PaidWorkPassesItsTests ==
    \A id \in JobIds : state[id] = "Paid" =>
       LET instr   == InstructionFor(id, current[id].instructionId)
           vectors == Selected(TestSeed(instr))
       IN  /\ Len(vectors) > 0
           /\ \A k \in 1..Len(vectors) : Passes(current[id].artifactCodeHash, vectors[k])

(* Verify, inconclusiveVerdict against _checkIdentity and                  *)
(* _checkOutcomeBinding: every verdict the verifier signs for the          *)
(* instruction a job waits for is one that settleAttempt takes, as long as *)
(* the artifact is still deployed.  A verdict that only the contract       *)
(* refuses would leave the job waiting for its timeout.                    *)
SignedVerdictIsSettleable ==
    \A result \in results :
       LET id == result.claim.jobId IN
       /\ state[id] = "Verifying"
       /\ result.claim.instructionId = current[id].instructionId
       /\ code[current[id].artifactAddress] = current[id].artifactCodeHash
       => (result.tag = "threshold" => Authentic(id, result)) /\ _checkBinding(id, result)

(* Verify: however often an instruction is handed over, and whatever the   *)
(* provider does to each run, one run never signs a pass and another one a *)
(* fail.  Whoever relays results could otherwise choose the outcome.       *)
NoContradictoryVerdicts ==
    \A a, b \in results : a.claim = b.claim /\ a.outcome = "Pass" => b.outcome # "Fail"
=============================================================================
