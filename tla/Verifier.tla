------------------------------ MODULE Verifier ------------------------------
(***************************************************************************)
(* go/internal/verifier: the VERIFY handler that runs inside the TEE.      *)
(*                                                                         *)
(* A run is one call of Verify, made by processVerify for one action that  *)
(* the tee-node hands to the extension; runs proceed concurrently, and the *)
(* same instruction may be handed over more than once.  Verify reads the   *)
(* chain through an RPC provider one call at a time, so the chain moves on *)
(* between its steps: each read is an action, with what it reads as a      *)
(* parameter.                                                              *)
(*                                                                         *)
(* Data abstraction.  The hashes frozen in the job terms (public spec,     *)
(* private bundle, ciphertext, engine version) are instr.commitment; the   *)
(* value of a random round is determined by the round; the report hash is  *)
(* left out.  Fetching, decrypting and validating a bundle either gives    *)
(* the committed bundle or an error.                                       *)
(***************************************************************************)
EXTENDS Integers, Sequences, FiniteSets

CONSTANTS
    Runs,               \* calls of Verify
    NoInstruction,      \* stands for the instruction of a run that has none
    Tags,               \* submission tags of the actions handed over
    EngineMatches,      \* commitments whose engine version is the running one
    ValidBundles,       \* commitments whose bundle decrypts, validates and matches
    Selected(_),        \* the vectors SelectVectors picks for a seed, in order
    Truth(_, _),        \* how code answers a vector's call over a working provider
    Glitches            \* answers a provider may give instead

VARIABLES
    run,                \* the state of each call of Verify
    results             \* external: action results signed by the tee-node

verifierVars == <<run, results>>

(* How a call to the artifact can end: with what the vector expects, with  *)
(* a different well-formed value, with an oversized or non-canonical one;  *)
(* with the revert the vector expects or another one; with a JSON-RPC      *)
(* error object that is no revert; with a transport error or timeout.      *)
Answer == {"expected", "different", "odd", "revert", "otherRevert", "rpcError", "transport"}

ASSUME GlitchAssumption == Glitches \subseteq {"rpcError", "transport"}

NoRun == [pc |-> "idle", instr |-> NoInstruction, tag |-> "", issuedAt |-> 0, outcomes |-> <<>>]

Ended == [NoRun EXCEPT !.pc = "ended"]

VerifierInit ==
    /\ run = [r \in Runs |-> NoRun]
    /\ results = {}
-----------------------------------------------------------------------------
\* Mutant: any error of the call counts as the revert.
M_isEVMRevert(answer) == answer \in {"revert", "otherRevert", "rpcError", "transport"}

(* A JSON-RPC error object of any kind. *)
isEVMRevert(answer) == answer \in {"revert", "otherRevert", "rpcError"}

(* An unconstrained vector accepts every revert; a constrained one looks   *)
(* for the selector or pattern in the error's message.                     *)
executeEthCallReverts(v, answer) ==
    CASE answer \in {"expected", "different", "odd"} -> "failed"
      [] answer \notin {"expected", "different", "odd"} /\ ~isEVMRevert(answer) -> "skipped"
      [] isEVMRevert(answer) /\ (~v.constrained \/ answer = "revert") -> "passed"
      [] OTHER -> "failed"

(* An error or an oversized response is no evidence. *)
executeEthCallEquals(answer) ==
    CASE answer = "expected" -> "passed"
      [] answer = "different" -> "failed"
      [] OTHER -> "skipped"

(* Neither is anything but a canonical ABI bool. *)
executeErc165(answer) ==
    CASE answer = "expected" -> "passed"
      [] answer = "different" -> "failed"
      [] OTHER -> "skipped"

(* What eth_getCode and eth_getStorageAt return is never malformed. *)
executeCodeSizeRange(answer) ==
    CASE answer \in {"rpcError", "transport"} -> "skipped"
      [] answer = "expected" -> "passed"
      [] OTHER -> "failed"

executeStorageAtEquals(answer) ==
    CASE answer \in {"rpcError", "transport"} -> "skipped"
      [] answer = "expected" -> "passed"
      [] OTHER -> "failed"

ExecuteVector(v, answer) ==
    CASE v.type = "ETH_CALL_EQUALS"           -> executeEthCallEquals(answer)
      [] v.type = "ETH_CALL_REVERTS"          -> executeEthCallReverts(v, answer)
      [] v.type = "ERC165_SUPPORTS_INTERFACE" -> executeErc165(answer)
      [] v.type = "CODE_SIZE_RANGE"           -> executeCodeSizeRange(answer)
      [] v.type = "STORAGE_AT_EQUALS"         -> executeStorageAtEquals(answer)
      [] OTHER                                -> "skipped"

TestSeed(instr) ==
    [round |-> instr.randomRound, jobId |-> instr.jobId, attempt |-> instr.attempt,
     commitment |-> instr.commitment, artifactCodeHash |-> instr.artifactCodeHash]

countPassed(outcomes) == Cardinality({k \in 1..Len(outcomes) : outcomes[k] = "passed"})

\* Mutant: a skipped vector fails the attempt.
M_OutcomeOf(outcomes) ==
    IF \A k \in 1..Len(outcomes) : outcomes[k] = "passed" THEN "Pass" ELSE "Fail"

OutcomeOf(outcomes) ==
    CASE \E k \in 1..Len(outcomes) : outcomes[k] = "skipped" -> "Inconclusive"
      [] \A k \in 1..Len(outcomes) : outcomes[k] = "passed" -> "Pass"
      [] OTHER -> "Fail"

(* The verdict and the envelope around it: the identity is copied from the *)
(* instruction, the result carries the id and tag of the action.           *)
VerdictFor(instr, tag, outcome, passed, executed, issuedAt) ==
    [claim |-> instr, signer |-> instr.tee, status |-> 1, tag |-> tag, outcome |-> outcome,
     passed |-> passed, executed |-> executed, issuedAt |-> issuedAt]

\* Mutant: an infrastructure failure reports that nothing was executed.
M_inconclusiveVerdict(instr, tag, clock) ==
    VerdictFor(instr, tag, "Inconclusive", 0, 0, clock)

inconclusiveVerdict(instr, tag, clock) ==
    VerdictFor(instr, tag, "Inconclusive", 0, 1, clock)

crossCheckInstruction(instr, job) ==
    /\ ~job.settled /\ job.state = "Verifying"
    /\ job.terms.commitment = instr.commitment
    /\ job.terms.graceEnds = instr.expiresAt
    /\ job.current.attempt = instr.attempt
    /\ job.current.artifactAddress = instr.artifactAddress
    /\ job.current.artifactBlock = instr.artifactBlock
    /\ job.current.artifactCodeHash = instr.artifactCodeHash
    /\ job.current.randomRound = instr.randomRound
-----------------------------------------------------------------------------
(* A run ends with a signed verdict, or with a status 0 result that cannot *)
(* settle anything.                                                        *)
Return(r, verdict) ==
    /\ run' = [run EXCEPT ![r] = Ended]
    /\ results' = results \cup {verdict}

HandlerFailure(r) ==
    /\ run' = [run EXCEPT ![r] = Ended]
    /\ UNCHANGED results

Proceed(r, pc) ==
    /\ run' = [run EXCEPT ![r].pc = pc]
    /\ UNCHANGED results

Started(instr, tag) ==
    [pc |-> "job", instr |-> instr, tag |-> tag, issuedAt |-> 0, outcomes |-> <<>>]

(* The checks against the verifier's own configuration. *)
Begin(r, instr, tag) ==
    /\ run[r].pc = "idle"
    /\ IF instr.commitment \in EngineMatches
         THEN /\ run' = [run EXCEPT ![r] = Started(instr, tag)]
              /\ UNCHANGED results
         ELSE HandlerFailure(r)

(* GetJob at the latest block, then the host's clock, which also dates the *)
(* verdict.                                                                *)
ReadJob(r, job, clock) ==
    LET instr == run[r].instr
    IN  /\ run[r].pc = "job"
        /\ IF /\ crossCheckInstruction(instr, job)
              /\ clock <= job.current.timeoutAt /\ clock <= job.terms.graceEnds
              /\ instr.instructionId = job.current.instructionId
             THEN /\ run' = [run EXCEPT ![r].pc = "code", ![r].issuedAt = clock]
                  /\ UNCHANGED results
             ELSE HandlerFailure(r)

(* The code at the artifact block, not at the latest one. *)
recomputeArtifactCodeHash(r, hash) ==
    /\ run[r].pc = "code"
    /\ IF hash = run[r].instr.artifactCodeHash THEN Proceed(r, "random") ELSE HandlerFailure(r)

FetchRandomNumber(r, secure) ==
    /\ run[r].pc = "random"
    /\ IF secure THEN Proceed(r, "bundle") ELSE HandlerFailure(r)

(* An RPC error or the attempt's time budget while the run has no identity *)
(* to put its name to.                                                     *)
ReadFails(r) ==
    /\ run[r].pc \in {"job", "code", "random"}
    /\ HandlerFailure(r)

fetchAndDecryptBundle(r, clock) ==
    /\ run[r].pc = "bundle"
    /\ \/ run[r].instr.commitment \in ValidBundles /\ Proceed(r, "vectors")
       \/ Return(r, inconclusiveVerdict(run[r].instr, run[r].tag, clock))

(* The next selected vector, on the code at the artifact block. *)
ExecuteNext(r) ==
    LET instr == run[r].instr
        vectors == Selected(TestSeed(instr))
        next == Len(run[r].outcomes) + 1
    IN  /\ run[r].pc = "vectors" /\ next <= Len(vectors)
        /\ \E answer \in {Truth(instr.artifactCodeHash, vectors[next])} \cup Glitches :
              run' = [run EXCEPT ![r].outcomes = Append(@, ExecuteVector(vectors[next], answer))]
        /\ UNCHANGED results

Conclude(r) ==
    LET c == run[r]
    IN  /\ c.pc = "vectors" /\ Len(c.outcomes) = Len(Selected(TestSeed(c.instr)))
        /\ Return(r, VerdictFor(c.instr, c.tag, OutcomeOf(c.outcomes), countPassed(c.outcomes),
                                Len(c.outcomes), c.issuedAt))

(* The extension restarts or its response does not get through: nothing of *)
(* a run is persisted.                                                     *)
Lost(r) ==
    /\ run[r].pc \notin {"idle", "ended"}
    /\ HandlerFailure(r)
=============================================================================
