--------------------------- MODULE WorkProofProofs ---------------------------
(***************************************************************************)
(* The verification path as a whole, for any number of jobs, attempts,     *)
(* runs of the verifier and results in flight, any bundles and any clocks: *)
(* what is paid for was really tested and passed.                          *)
(***************************************************************************)
EXTENDS WorkProof, EscrowVerdictProofs

Tests(instr) == Selected(TestSeed(instr))

(* SelectVectors returns a slice. *)
TestsAreListed ==
    \A instr \in Instruction : Len(Tests(instr)) \in Nat

(* What is asked of the outside world: a call to the artifact itself does  *)
(* not end in a transport error or in an error object that is no revert,   *)
(* and the provider does not put such an object in place of its answer.    *)
(* The run provider_error shows that the last part is needed.              *)
ProviderReportsRevertsOnly ==
    /\ "rpcError" \notin Glitches
    /\ \A instr \in Instruction : \A k \in 1..Len(Tests(instr)) :
          Truth(instr.artifactCodeHash, Tests(instr)[k]) \notin {"rpcError", "transport"}

(* With such a provider a vector's outcome says the truth about the code,  *)
(* or nothing.                                                             *)
Judged(hash, v, outcome) ==
    ProviderReportsRevertsOnly =>
        /\ outcome = "passed" => Passes(hash, v)
        /\ outcome = "failed" => ~Passes(hash, v)

RunJudges(c) ==
    /\ c.pc \in {"job", "code", "random", "bundle"} => c.outcomes = <<>>
    /\ c.pc = "vectors" =>
         \A k \in 1..Len(c.outcomes) :
            Judged(c.instr.artifactCodeHash, Tests(c.instr)[k], c.outcomes[k])

ResultTells(result) ==
    LET hash == result.claim.artifactCodeHash
        vectors == Tests(result.claim)
    IN  /\ result.signer = result.claim.tee
        /\ result.outcome = "Pass" => result.executed = Len(vectors)
        /\ ProviderReportsRevertsOnly =>
             /\ result.outcome = "Pass" => \A k \in 1..Len(vectors) : Passes(hash, vectors[k])
             /\ result.outcome = "Fail" => \E k \in 1..Len(vectors) : ~Passes(hash, vectors[k])

(* A verdict the contract accepted is one that a run signed. *)
SettledByResults ==
    \A id \in JobIds : \A n \in 1..Len(settlements[id]) :
       \E result \in results : /\ result.claim = settlements[id][n].claim
                               /\ result.outcome = settlements[id][n].outcome
                               /\ result.executed = settlements[id][n].executed

SystemInv ==
    /\ VerdictInv
    /\ SystemTypeOK
    /\ \A r \in Runs : RunJudges(run[r])
    /\ \A result \in results : ResultTells(result)
    /\ SettledByResults

(* A vector passes or fails for what the code does; an outage skips it. *)
LEMMA VectorJudged ==
    ASSUME NEW hash, NEW v, NEW answer \in {Truth(hash, v)} \cup Glitches,
           ProviderReportsRevertsOnly => /\ "rpcError" \notin Glitches
                                         /\ Truth(hash, v) \notin {"rpcError", "transport"}
    PROVE  /\ ExecuteVector(v, answer) \in {"passed", "failed", "skipped"}
           /\ Judged(hash, v, ExecuteVector(v, answer))
<1>1. ProviderReportsRevertsOnly =>
         /\ answer = Truth(hash, v) \/ answer = "transport"
         /\ Truth(hash, v) \notin {"rpcError", "transport"}
  BY GlitchAssumption
<1>2. CASE v.type = "ETH_CALL_EQUALS"
  BY <1>1, <1>2 DEF ExecuteVector, executeEthCallEquals, Judged, Passes
<1>3. CASE v.type = "ETH_CALL_REVERTS"
  BY <1>1, <1>3 DEF ExecuteVector, executeEthCallReverts, isEVMRevert, Judged, Passes
<1>4. CASE v.type = "ERC165_SUPPORTS_INTERFACE"
  BY <1>1, <1>4 DEF ExecuteVector, executeErc165, Judged, Passes
<1>5. CASE v.type = "CODE_SIZE_RANGE"
  BY <1>1, <1>5 DEF ExecuteVector, executeCodeSizeRange, Judged, Passes
<1>6. CASE v.type = "STORAGE_AT_EQUALS"
  BY <1>1, <1>6 DEF ExecuteVector, executeStorageAtEquals, Judged, Passes
<1>7. CASE v.type \notin {"ETH_CALL_EQUALS", "ETH_CALL_REVERTS", "ERC165_SUPPORTS_INTERFACE",
                          "CODE_SIZE_RANGE", "STORAGE_AT_EQUALS"}
  BY <1>7 DEF ExecuteVector, Judged
<1> QED
  BY <1>2, <1>3, <1>4, <1>5, <1>6, <1>7

LEMMA PassedCount ==
    ASSUME NEW outcomes \in Seq({"passed", "failed", "skipped"})
    PROVE  countPassed(outcomes) \in Nat
<1> DEFINE P == {k \in 1..Len(outcomes) : outcomes[k] = "passed"}
<1>1. IsFiniteSet(1..Len(outcomes))
  BY FS_Interval
<1>2. IsFiniteSet(P)
  BY <1>1, FS_Subset
<1> QED
  BY <1>2, FS_CardinalityType DEF countPassed
-----------------------------------------------------------------------------
(* The chain only ever adds instructions, and time moves by single blocks. *)
LEMMA ChainGrows ==
    ASSUME TypeOK, ChainStep
    PROVE  /\ sent \subseteq sent'
           /\ settlements' = settlements
           /\ now' = now \/ now' = now + 1
<1>1. CASE Administer \/ Create \/ Environment
  BY <1>1 DEF Administer, Create, createJob, Environment, Tick, FinalizeRound, ChangeTeeStatus,
              ChangeCode, chain, registry, history
<1>2. ASSUME NEW id \in JobIds, PartyStep(id)
      PROVE  sent \subseteq sent' /\ settlements' = settlements /\ now' = now
  BY <1>2 DEF PartyStep, acceptJob, cancelUnaccepted, refundExpired, ReturnToClient, submitAttempt,
              lockRandomness, dispatchVerification, expireVerification, chain, registry, history
<1> QED
  BY <1>1, <1>2 DEF ChainStep

LEMMA ChainIsNext == ChainStep => Next
BY DEF ChainStep, Next, JobStep

(* The steps of the chain, for every part of the invariant. *)
LEMMA InvChain ==
    ASSUME SystemInv, ChainStep, UNCHANGED verifierVars,
           codeAt' = IF now' = now THEN codeAt ELSE Append(codeAt, code)
    PROVE  SystemInv'
<1>1. VerdictInv'
  BY ChainIsNext, VerdictStep DEF SystemInv
<1>2. TypeOK /\ TypeOK'
  BY <1>1 DEF SystemInv, VerdictInv, LedgerInv
<1>3. /\ sent \subseteq sent' /\ settlements' = settlements
      /\ now' = now \/ now' = now + 1
      /\ run' = run /\ results' = results
  BY <1>2, ChainGrows DEF verifierVars
<1>4. codeAt' \in Seq([Artifacts -> CodeHashes \cup {NoCode}]) /\ Len(codeAt') = now'
  <2>1. /\ code \in [Artifacts -> CodeHashes \cup {NoCode}] /\ now \in Nat
        /\ codeAt \in Seq([Artifacts -> CodeHashes \cup {NoCode}]) /\ Len(codeAt) = now
    BY <1>2, BoundAssumption DEF TypeOK, SystemInv, SystemTypeOK
  <2>2. CASE now' = now
    BY <2>1, <2>2
  <2>3. CASE now' = now + 1
    <3>1. codeAt' = Append(codeAt, code)
      BY <2>1, <2>3
    <3> QED
      BY <2>1, <2>3, <3>1
  <2> QED
    BY <1>3, <2>2, <2>3
<1>5. SystemTypeOK'
  BY <1>3, <1>4 DEF SystemInv, SystemTypeOK
<1>6. SettledByResults'
  BY <1>3 DEF SystemInv, SettledByResults
<1> QED
  BY <1>1, <1>3, <1>5, <1>6 DEF SystemInv

(* A result brought to the contract. *)
LEMMA InvRelay ==
    ASSUME SystemInv, NEW id \in JobIds, Relay(id), UNCHANGED <<verifierVars, codeAt>>
    PROVE  SystemInv'
<1>1. PICK result \in results : settleAttempt(id, result)
  BY DEF Relay
<1>2. result \in ResultType /\ result.claim \in sent
  BY DEF SystemInv, SystemTypeOK
<1>3. TypeOK
  BY DEF SystemInv, VerdictInv, LedgerInv
<1>4. Delivered(result)
  BY <1>1, <1>2 DEF Delivered, ResultType, SystemInv, ResultTells
<1>5. VerdictInv'
  BY <1>1, <1>4, LedgerSettle, VerdictSettle DEF SystemInv, VerdictInv
<1>6. /\ settlements' = [settlements EXCEPT ![id] = Append(settlements[id], Settlement(id, result))]
      /\ sent' = sent /\ now' = now /\ run' = run /\ results' = results /\ codeAt' = codeAt
  BY <1>1 DEF settleAttempt, chain, registry, verifierVars
<1>7. SystemTypeOK'
  BY <1>6 DEF SystemInv, SystemTypeOK
<1>8. SettledByResults'
  <2> SUFFICES ASSUME NEW k \in JobIds, NEW n \in 1..Len(settlements'[k])
               PROVE  \E w \in results : /\ w.claim = settlements'[k][n].claim
                                         /\ w.outcome = settlements'[k][n].outcome
                                         /\ w.executed = settlements'[k][n].executed
    BY <1>6 DEF SettledByResults
  <2>1. settlements \in [JobIds -> Seq(Verdict)] /\ settlements[k] \in Seq(Verdict)
    BY <1>3 DEF TypeOK
  <2>2. CASE k # id \/ n <= Len(settlements[k])
    <3>1. n \in 1..Len(settlements[k]) /\ settlements'[k][n] = settlements[k][n]
      BY <1>6, <2>1, <2>2
    <3> QED
      BY <3>1 DEF SystemInv, SettledByResults
  <2>3. CASE k = id /\ n > Len(settlements[k])
    <3>1. settlements'[k][n] = Settlement(id, result)
      BY <1>6, <2>1, <2>3
    <3> QED
      BY <3>1 DEF Settlement
  <2> QED
    BY <2>1, <2>2, <2>3
<1> QED
  BY <1>5, <1>6, <1>7, <1>8 DEF SystemInv
-----------------------------------------------------------------------------
(* A step of one run: the run goes on soundly or has ended, and the result *)
(* it may have signed is sound.                                            *)
SoundStep(r, c, new) ==
    /\ run' = [run EXCEPT ![r] = c]
    /\ c.pc \notin {"idle", "ended"} => c \in RunType /\ c.instr \in sent
    /\ RunJudges(c)
    /\ results' = results \cup new
    /\ \A w \in new : w \in ResultType /\ w.claim \in sent /\ ResultTells(w)

LEMMA InvRun ==
    ASSUME SystemInv, UNCHANGED <<vars, codeAt>>, NEW r \in Runs, NEW c, NEW new, SoundStep(r, c, new)
    PROVE  SystemInv'
<1>1. VerdictInv'
  BY VerdictStep DEF SystemInv
<1>2. /\ sent' = sent /\ settlements' = settlements /\ now' = now /\ codeAt' = codeAt
  BY DEF vars, chain, registry, history
<1>3. /\ DOMAIN run = Runs /\ DOMAIN run' = Runs
      /\ run'[r] = c /\ \A q \in Runs \ {r} : run'[q] = run[q]
  BY DEF SystemInv, SystemTypeOK, SoundStep
<1>4. SystemTypeOK'
  BY <1>2, <1>3 DEF SystemInv, SystemTypeOK, SoundStep
<1>5. \A q \in Runs : RunJudges(run'[q])
  BY <1>3 DEF SystemInv, SoundStep
<1>6. \A w \in results' : ResultTells(w)
  BY DEF SystemInv, SoundStep
<1>7. SettledByResults'
  BY <1>2 DEF SystemInv, SettledByResults, SoundStep
<1> QED
  BY <1>1, <1>4, <1>5, <1>6, <1>7 DEF SystemInv

LEMMA EndedJudges ==
    /\ Ended.pc \notin {"idle", "ended"} => Ended \in RunType /\ Ended.instr \in sent
    /\ RunJudges(Ended)
BY DEF Ended, NoRun, RunJudges

LEMMA InvHandlerFailure ==
    ASSUME SystemInv, UNCHANGED <<vars, codeAt>>, NEW r \in Runs, HandlerFailure(r)
    PROVE  SystemInv'
<1>1. run' = [run EXCEPT ![r] = Ended] /\ results' = results \cup {}
  BY DEF HandlerFailure
<1>2. SoundStep(r, Ended, {})
  BY <1>1, EndedJudges DEF SoundStep
<1> QED
  BY <1>2, InvRun

LEMMA InvReturn ==
    ASSUME SystemInv, UNCHANGED <<vars, codeAt>>, NEW r \in Runs, NEW w, Return(r, w),
           w \in ResultType, w.claim \in sent, ResultTells(w)
    PROVE  SystemInv'
<1>1. run' = [run EXCEPT ![r] = Ended] /\ results' = results \cup {w}
  BY DEF Return
<1>2. \A x \in {w} : x \in ResultType /\ x.claim \in sent /\ ResultTells(x)
  OBVIOUS
<1>3. SoundStep(r, Ended, {w})
  BY <1>1, <1>2, EndedJudges DEF SoundStep
<1> QED
  BY <1>3, InvRun

LEMMA InvProceed ==
    ASSUME SystemInv, UNCHANGED <<vars, codeAt>>, NEW r \in Runs,
           NEW pc \in {"random", "bundle", "vectors"},
           run[r].pc \in {"job", "code", "random", "bundle"}, Proceed(r, pc)
    PROVE  SystemInv'
<1> DEFINE c == [run[r] EXCEPT !.pc = pc]
<1>1. run[r] \in RunType /\ run[r].instr \in sent /\ run[r].outcomes = <<>>
  BY DEF SystemInv, SystemTypeOK, RunJudges
<1>2. run' = [run EXCEPT ![r] = c] /\ results' = results \cup {}
  BY DEF Proceed
<1>3. c \in RunType /\ c.instr \in sent /\ c.outcomes = <<>>
  BY <1>1 DEF RunType
<1>4. RunJudges(c)
  BY <1>3 DEF RunJudges
<1> HIDE DEF c
<1>5. SoundStep(r, c, {})
  BY <1>2, <1>3, <1>4 DEF SoundStep
<1> QED
  BY <1>5, InvRun

LEMMA InvBegin ==
    ASSUME SystemInv, UNCHANGED <<vars, codeAt>>, NEW r \in Runs, NEW instr \in sent, NEW tag \in Tags,
           Begin(r, instr, tag)
    PROVE  SystemInv'
<1> DEFINE c == Started(instr, tag)
<1>1. CASE HandlerFailure(r)
  BY <1>1, InvHandlerFailure
<1>2. CASE run' = [run EXCEPT ![r] = c] /\ UNCHANGED results
  <2>1. instr \in Instruction
    BY DEF SystemInv, VerdictInv, LedgerInv, TypeOK
  <2>2. c \in RunType /\ c.instr \in sent /\ c.pc = "job" /\ c.outcomes = <<>>
    <3>1. <<>> \in Seq({"passed", "failed", "skipped"})
      OBVIOUS
    <3> QED
      BY <2>1, <3>1 DEF Started, RunType
  <2>3. RunJudges(c)
    BY <2>2 DEF RunJudges
  <2> HIDE DEF c
  <2>4. SoundStep(r, c, {})
    BY <1>2, <2>2, <2>3 DEF SoundStep
  <2> QED
    BY <2>4, InvRun
<1> QED
  BY <1>1, <1>2 DEF Begin

LEMMA InvReadJob ==
    ASSUME SystemInv, UNCHANGED <<vars, codeAt>>, NEW r \in Runs, NEW job, NEW clock \in Nat,
           ReadJob(r, job, clock)
    PROVE  SystemInv'
<1> DEFINE c == [run[r] EXCEPT !.pc = "code", !.issuedAt = clock]
<1>1. CASE HandlerFailure(r)
  BY <1>1, InvHandlerFailure
<1>2. CASE run' = [run EXCEPT ![r].pc = "code", ![r].issuedAt = clock] /\ UNCHANGED results
  <2>1. run[r] \in RunType /\ run[r].instr \in sent /\ run[r].outcomes = <<>> /\ DOMAIN run = Runs
    BY DEF SystemInv, SystemTypeOK, RunJudges, ReadJob
  <2>2. run' = [run EXCEPT ![r] = c]
    BY <1>2, <2>1
  <2>3. c \in RunType /\ c.instr \in sent /\ c.pc = "code" /\ c.outcomes = <<>>
    BY <2>1 DEF RunType
  <2>4. RunJudges(c)
    BY <2>3 DEF RunJudges
  <2> HIDE DEF c
  <2>5. SoundStep(r, c, {})
    BY <1>2, <2>2, <2>3, <2>4 DEF SoundStep
  <2> QED
    BY <2>5, InvRun
<1> QED
  BY <1>1, <1>2 DEF ReadJob

(* A run that cannot get at the bundle signs that it found out nothing. *)
LEMMA InvBundle ==
    ASSUME SystemInv, UNCHANGED <<vars, codeAt>>, NEW r \in Runs, NEW clock \in Nat,
           fetchAndDecryptBundle(r, clock)
    PROVE  SystemInv'
<1>1. CASE Proceed(r, "vectors")
  BY <1>1, InvProceed DEF fetchAndDecryptBundle
<1> DEFINE w == inconclusiveVerdict(run[r].instr, run[r].tag, clock)
<1>2. CASE Return(r, w)
  <2>1. run[r] \in RunType /\ run[r].instr \in sent
    BY DEF SystemInv, SystemTypeOK, fetchAndDecryptBundle
  <2>2. \A i \in Instruction : i.tee \in Tees
    BY DEF Instruction
  <2>3. w \in ResultType /\ w.claim \in sent /\ ResultTells(w)
    BY <2>1, <2>2 DEF inconclusiveVerdict, VerdictFor, RunType, ResultType, ResultTells, Outcome
  <2> HIDE DEF w
  <2> QED
    BY <1>2, <2>3, InvReturn
<1> QED
  BY <1>1, <1>2 DEF fetchAndDecryptBundle

LEMMA InvExecute ==
    ASSUME TestsAreListed,
           SystemInv, UNCHANGED <<vars, codeAt>>, NEW r \in Runs, ExecuteNext(r)
    PROVE  SystemInv'
<1> DEFINE instr == run[r].instr
           next == Len(run[r].outcomes) + 1
           v == Tests(instr)[next]
<1>1. /\ run[r] \in RunType /\ instr \in sent /\ RunJudges(run[r]) /\ run[r].pc = "vectors"
      /\ DOMAIN run = Runs
  BY DEF SystemInv, SystemTypeOK, ExecuteNext
<1>2. /\ instr \in Instruction /\ run[r].outcomes \in Seq({"passed", "failed", "skipped"})
      /\ next \in 1..Len(Tests(instr))
  BY <1>1 DEF RunType, ExecuteNext, Tests, TestsAreListed
<1>3. PICK answer \in {Truth(instr.artifactCodeHash, v)} \cup Glitches :
         run' = [run EXCEPT ![r].outcomes = Append(@, ExecuteVector(v, answer))]
  BY DEF ExecuteNext, Tests
<1> DEFINE o == ExecuteVector(v, answer)
           c == [run[r] EXCEPT !.outcomes = Append(run[r].outcomes, o)]
<1>4. ProviderReportsRevertsOnly =>
         Truth(instr.artifactCodeHash, v) \notin {"rpcError", "transport"} /\ "rpcError" \notin Glitches
  BY <1>2 DEF ProviderReportsRevertsOnly
<1>5. o \in {"passed", "failed", "skipped"} /\ Judged(instr.artifactCodeHash, v, o)
  BY <1>3, <1>4, VectorJudged
<1>6. run' = [run EXCEPT ![r] = c]
  BY <1>1, <1>3
<1> HIDE DEF o
<1>7. c \in RunType /\ c.instr = instr /\ c.pc = "vectors" /\ c.outcomes = Append(run[r].outcomes, o)
  BY <1>1, <1>2, <1>5 DEF RunType
<1> HIDE DEF c
<1>8. ASSUME NEW k \in 1..Len(c.outcomes)
      PROVE  Judged(c.instr.artifactCodeHash, Tests(c.instr)[k], c.outcomes[k])
  <2>1. CASE k = next
    BY <1>2, <1>5, <1>7, <2>1
  <2>2. CASE k # next
    BY <1>1, <1>2, <1>7, <2>2 DEF RunJudges
  <2> QED
    BY <2>1, <2>2
<1>9. RunJudges(c)
  BY <1>7, <1>8 DEF RunJudges
<1>10. SoundStep(r, c, {})
  BY <1>1, <1>6, <1>7, <1>9 DEF SoundStep, ExecuteNext
<1> QED
  BY <1>10, InvRun

(* Conclude: a run that executed every selected vector speaks the truth.   *)
LEMMA InvConclude ==
    ASSUME TestsAreListed,
           SystemInv, UNCHANGED <<vars, codeAt>>, NEW r \in Runs, Conclude(r)
    PROVE  SystemInv'
<1> DEFINE c == run[r]
           w == VerdictFor(c.instr, c.tag, OutcomeOf(c.outcomes), countPassed(c.outcomes),
                           Len(c.outcomes), c.issuedAt)
<1>1. /\ c \in RunType /\ c.instr \in sent /\ RunJudges(c) /\ c.pc = "vectors"
      /\ Len(c.outcomes) = Len(Tests(c.instr))
  BY DEF SystemInv, SystemTypeOK, Conclude, Tests
<1>2. c.instr \in Instruction /\ c.outcomes \in Seq({"passed", "failed", "skipped"})
  BY <1>1 DEF RunType
<1>3. countPassed(c.outcomes) \in Nat
  BY <1>2, PassedCount
<1>4. OutcomeOf(c.outcomes) \in Outcome
  BY DEF OutcomeOf, Outcome
<1>5. /\ w.claim = c.instr /\ w.signer = c.instr.tee /\ w.outcome = OutcomeOf(c.outcomes)
      /\ w.executed = Len(c.outcomes)
  BY DEF VerdictFor
<1>6. w \in ResultType
  <2>1. c.instr.tee \in Tees /\ c.tag \in Tags /\ c.issuedAt \in Nat /\ Len(c.outcomes) \in Nat
    BY <1>1, <1>2 DEF RunType, Instruction
  <2> QED
    BY <1>2, <1>3, <1>4, <2>1 DEF VerdictFor, ResultType
<1>7. \A k \in 1..Len(c.outcomes) :
         /\ Judged(c.instr.artifactCodeHash, Tests(c.instr)[k], c.outcomes[k])
         /\ c.outcomes[k] \in {"passed", "failed", "skipped"}
  BY <1>1, <1>2 DEF RunJudges
<1>8. OutcomeOf(c.outcomes) = "Pass" => \A k \in 1..Len(c.outcomes) : c.outcomes[k] = "passed"
  BY DEF OutcomeOf
<1>9. OutcomeOf(c.outcomes) = "Fail" => \E k \in 1..Len(c.outcomes) : c.outcomes[k] = "failed"
  BY <1>7 DEF OutcomeOf
<1> HIDE DEF w
<1>10. ResultTells(w)
  BY <1>1, <1>5, <1>7, <1>8, <1>9 DEF ResultTells, Judged
<1>11. Return(r, w)
  BY DEF Conclude, w
<1> QED
  BY <1>1, <1>5, <1>6, <1>10, <1>11, InvReturn

LEMMA InvVerifier ==
    ASSUME TestsAreListed,
           SystemInv, UNCHANGED <<vars, codeAt>>, NEW r \in Runs, VerifierStep(r)
    PROVE  SystemInv'
<1>1. ASSUME NEW instr \in sent, NEW tag \in Tags, Begin(r, instr, tag) PROVE SystemInv'
  BY <1>1, InvBegin
<1>2. HostClock \subseteq Nat
  BY DEF HostClock
<1>3. ASSUME NEW clock \in HostClock, ReadJob(r, JobOf(run[r].instr.jobId), clock) PROVE SystemInv'
  BY <1>2, <1>3, InvReadJob
<1>4. ASSUME recomputeArtifactCodeHash(
                r, CodeAtBlock(run[r].instr.artifactAddress, run[r].instr.artifactBlock))
      PROVE SystemInv'
  BY <1>4, InvHandlerFailure, InvProceed DEF recomputeArtifactCodeHash
<1>5. ASSUME FetchRandomNumber(r, RoundSecure(run[r].instr.randomRound)) PROVE SystemInv'
  BY <1>5, InvHandlerFailure, InvProceed DEF FetchRandomNumber
<1>6. CASE ReadFails(r) \/ Lost(r)
  BY <1>6, InvHandlerFailure DEF ReadFails, Lost
<1>7. ASSUME NEW clock \in HostClock, fetchAndDecryptBundle(r, clock) PROVE SystemInv'
  BY <1>2, <1>7, InvBundle
<1>8. CASE ExecuteNext(r)
  BY <1>8, InvExecute
<1>9. CASE Conclude(r)
  BY <1>9, InvConclude
<1> QED
  BY <1>1, <1>3, <1>4, <1>5, <1>6, <1>7, <1>8, <1>9 DEF VerifierStep
-----------------------------------------------------------------------------
LEMMA InvInit == SystemInit => SystemInv
<1> SUFFICES ASSUME SystemInit PROVE SystemInv
  OBVIOUS
<1>1. VerdictInv
  BY VerdictInit DEF SystemInit
<1>2. /\ run = [r \in Runs |-> NoRun] /\ results = {} /\ codeAt = <<>> /\ now = 0
      /\ \A id \in JobIds : settlements[id] = <<>>
  BY DEF SystemInit, VerifierInit, Init
<1>3. NoRun.pc = "idle" /\ RunJudges(NoRun)
  BY DEF NoRun, RunJudges
<1>4. SystemTypeOK
  BY <1>2, <1>3 DEF SystemTypeOK
<1>5. SettledByResults
  BY <1>2 DEF SettledByResults
<1> QED
  BY <1>1, <1>2, <1>3, <1>4, <1>5 DEF SystemInv

LEMMA InvStep ==
    ASSUME TestsAreListed, SystemInv, [SystemNext]_systemVars
    PROVE  SystemInv'
<1>1. CASE /\ ChainStep
           /\ codeAt' = IF now' = now THEN codeAt ELSE Append(codeAt, code)
           /\ UNCHANGED verifierVars
  BY <1>1, InvChain
<1>2. ASSUME NEW id \in JobIds, Relay(id), UNCHANGED <<verifierVars, codeAt>> PROVE SystemInv'
  BY <1>2, InvRelay
<1>3. ASSUME NEW r \in Runs, VerifierStep(r), UNCHANGED <<vars, codeAt>> PROVE SystemInv'
  BY <1>3, InvVerifier
<1>4. CASE UNCHANGED systemVars
  <2>1. VerdictInv'
    BY <1>4, VerdictStep DEF SystemInv, systemVars
  <2>2. /\ run' = run /\ results' = results /\ codeAt' = codeAt
        /\ sent' = sent /\ settlements' = settlements /\ now' = now
    BY <1>4 DEF systemVars, verifierVars, vars, chain, registry, history
  <2> QED
    BY <2>1, <2>2 DEF SystemInv, SystemTypeOK, SettledByResults
<1> QED
  BY <1>1, <1>2, <1>3, <1>4 DEF SystemNext

LEMMA SystemInvariant == ASSUME TestsAreListed PROVE SystemSpec => []SystemInv
<1>1. SystemInv /\ [SystemNext]_systemVars => SystemInv'
  BY InvStep
<1> QED
  BY <1>1, InvInit, PTL DEF SystemSpec

(* From submitAttempt through Verify to settleAttempt: whenever a job is   *)
(* paid, the code its contractor submitted satisfies every test that the   *)
(* random round selected.  Runs and results may be lost, late, repeated or *)
(* concurrent, artifacts redeployed and clocks off.                        *)
THEOREM PaidWorkIsTested ==
    ASSUME TestsAreListed, ProviderReportsRevertsOnly
    PROVE  SystemSpec => []PaidWorkPassesItsTests
<1>1. SystemInv => PaidWorkPassesItsTests
  <2> SUFFICES ASSUME SystemInv, NEW id \in JobIds, state[id] = "Paid"
               PROVE  LET instr   == InstructionFor(id, current[id].instructionId)
                          vectors == Selected(TestSeed(instr))
                      IN  /\ Len(vectors) > 0
                          /\ \A k \in 1..Len(vectors) : Passes(current[id].artifactCodeHash, vectors[k])
    BY DEF PaidWorkPassesItsTests
  <2> DEFINE n == Len(settlements[id])
             v == settlements[id][n]
  <2>1. /\ settlements[id] # <<>> /\ v.outcome = "Pass" /\ v.executed > 0
        /\ v.claim = InstructionFor(id, current[id].instructionId)
    BY DEF SystemInv, VerdictInv, PaidOnMatchingPass
  <2>2. settlements[id] \in Seq(Verdict)
    BY DEF SystemInv, VerdictInv, LedgerInv, TypeOK
  <2>3. n \in 1..Len(settlements[id])
    BY <2>1, <2>2
  <2>4. PICK result \in results :
           result.claim = v.claim /\ result.outcome = v.outcome /\ result.executed = v.executed
    BY <2>3 DEF SystemInv, SettledByResults
  <2>5. /\ result.executed = Len(Tests(v.claim))
        /\ \A k \in 1..Len(Tests(v.claim)) : Passes(v.claim.artifactCodeHash, Tests(v.claim)[k])
    BY <2>1, <2>4 DEF SystemInv, ResultTells
  <2>6. v.claim.artifactCodeHash = current[id].artifactCodeHash
    BY <2>1 DEF InstructionFor
  <2> QED
    BY <2>1, <2>4, <2>5, <2>6 DEF Tests
<1> QED
  BY <1>1, SystemInvariant, PTL

(* Verify: two runs of one instruction never sign a pass and a fail,       *)
(* whatever outages each of them meets.                                    *)
THEOREM VerdictsAgree ==
    ASSUME TestsAreListed, ProviderReportsRevertsOnly
    PROVE  SystemSpec => []NoContradictoryVerdicts
<1>1. SystemInv => NoContradictoryVerdicts
  BY DEF SystemInv, ResultTells, NoContradictoryVerdicts
<1> QED
  BY <1>1, SystemInvariant, PTL

(* Every run works on, and every result speaks for, an instruction the     *)
(* escrow sent, and all state keeps its types.                             *)
THEOREM SystemTypeCorrect ==
    ASSUME TestsAreListed
    PROVE  SystemSpec => []SystemTypeOK
<1>1. SystemInv => SystemTypeOK
  BY DEF SystemInv
<1> QED
  BY <1>1, SystemInvariant, PTL
-----------------------------------------------------------------------------
(* Verdicts the contract can take.  A bundle whose selection is empty is   *)
(* not accepted (Bundle), and the TEE host's clock is that of the chain.   *)
TestsAreSelected ==
    \A instr \in Instruction : Len(Tests(instr)) \in Nat \ {0}

ClockIsExact == Skews = {0}

RunsTimely ==
    \A r \in Runs : run[r].pc \in {"code", "random", "bundle", "vectors"}
                       => Timely(run[r].instr, run[r].issuedAt)

ResultsTimely == \A w \in results : Timely(w.claim, w.issuedAt)

ResultsCountable == \A w \in results : Countable(w)

SettleInv == SystemInv /\ Awaited /\ RunsTimely /\ ResultsTimely /\ ResultsCountable

LEMMA SettleChain ==
    ASSUME SettleInv, SystemInv', ChainStep \/ \E k \in JobIds : Relay(k), UNCHANGED <<run, results>>
    PROVE  SettleInv'
<1>1. /\ TypeOK /\ TypeOK' /\ NewestInstruction /\ SystemTypeOK
      /\ nonce \in Nat /\ now \in Nat
  BY BoundAssumption DEF SettleInv, SystemInv, VerdictInv, LedgerInv, TypeOK
<1>2. /\ \A id \in JobIds : KeepsWaiting(id)
      /\ now' = now \/ now' = now + 1
      /\ \/ sent' = sent /\ nonce' = nonce
         \/ nonce' = nonce + 1 /\ \E i : i.instructionId = nonce + 1 /\ sent' = sent \cup {i}
  BY <1>1, MovesKeepWaiting DEF ChainStep, Create, Relay, EscrowMove
<1>3. Awaited'
  BY <1>1, AwaitedStays DEF SettleInv, ChainStep, Create, Relay, EscrowMove
<1>4. RunsTimely'
  <2>1. SUFFICES ASSUME NEW r \in Runs, run[r].pc \in {"code", "random", "bundle", "vectors"}
                 PROVE  Timely(run[r].instr, run[r].issuedAt)'
    BY DEF RunsTimely
  <2>2. PICK i, time : i = run[r].instr /\ time = run[r].issuedAt
    OBVIOUS
  <2>3. i \in sent /\ time \in Nat /\ Timely(i, time)
    BY <1>1, <2>1, <2>2 DEF SystemTypeOK, RunType, SettleInv, RunsTimely
  <2>4. Timely(i, time)'
    BY <1>1, <1>2, <2>3, TimelyStays
  <2> QED
    BY <2>2, <2>4 DEF Timely
<1>5. ResultsTimely'
  <2>1. ASSUME NEW w \in results PROVE Timely(w.claim, w.issuedAt)'
    <3>1. w.claim \in sent /\ w.issuedAt \in Nat /\ Timely(w.claim, w.issuedAt)
      BY <1>1, <2>1 DEF SystemTypeOK, ResultType, SettleInv, ResultsTimely
    <3> QED
      BY <1>1, <1>2, <3>1, TimelyStays
  <2> QED
    BY <2>1 DEF ResultsTimely
<1>6. ResultsCountable'
  BY DEF SettleInv, ResultsCountable
<1> QED
  BY <1>3, <1>4, <1>5, <1>6 DEF SettleInv

(* A step of one run: it goes on, and the result it may have signed is     *)
(* dated, so that the contract can take it.                                *)
TimelyStep(r, c, new) ==
    /\ run' = [run EXCEPT ![r] = c]
    /\ c.pc \in {"code", "random", "bundle", "vectors"} => Timely(c.instr, c.issuedAt)
    /\ results' = results \cup new
    /\ \A w \in new : Timely(w.claim, w.issuedAt) /\ Countable(w)

LEMMA SettleRun ==
    ASSUME SettleInv, SystemInv', UNCHANGED vars, NEW r \in Runs, NEW c, NEW new, TimelyStep(r, c, new)
    PROVE  SettleInv'
<1>1. UNCHANGED <<state, current, terms, sent, nonce, now>>
  BY DEF vars, storage, chain, registry
<1>2. \A i, time : Timely(i, time)' <=> Timely(i, time)
  BY <1>1 DEF Timely
<1>3. DOMAIN run = Runs
  BY DEF SettleInv, SystemInv, SystemTypeOK
<1>4. run'[r] = c /\ \A q \in Runs : q # r => run'[q] = run[q]
  BY <1>3 DEF TimelyStep
<1>5. Awaited'
  BY <1>1 DEF SettleInv, Awaited, InstructionFor
<1>6. RunsTimely'
  <2>1. SUFFICES ASSUME NEW q \in Runs, run'[q].pc \in {"code", "random", "bundle", "vectors"}
                 PROVE  Timely(run[q].instr, run[q].issuedAt)'
    BY DEF RunsTimely
  <2>2. PICK i, time : i = run'[q].instr /\ time = run'[q].issuedAt
    OBVIOUS
  <2>3. Timely(i, time)
    BY <1>4, <2>1, <2>2 DEF SettleInv, RunsTimely, TimelyStep
  <2> QED
    BY <1>2, <2>2, <2>3 DEF Timely
<1>7. ResultsTimely' /\ ResultsCountable'
  BY <1>2 DEF SettleInv, ResultsTimely, ResultsCountable, Countable, TimelyStep
<1> QED
  BY <1>5, <1>6, <1>7 DEF SettleInv

LEMMA SettleFailure ==
    ASSUME SettleInv, SystemInv', UNCHANGED vars, NEW r \in Runs, HandlerFailure(r)
    PROVE  SettleInv'
<1>1. run' = [run EXCEPT ![r] = Ended] /\ results' = results \cup {} /\ Ended.pc = "ended"
  BY DEF HandlerFailure, Ended, NoRun
<1>2. TimelyStep(r, Ended, {})
  BY <1>1 DEF TimelyStep
<1> QED
  BY <1>2, SettleRun

LEMMA SettleReturn ==
    ASSUME SettleInv, SystemInv', UNCHANGED vars, NEW r \in Runs, NEW w, Return(r, w),
           Timely(w.claim, w.issuedAt), Countable(w)
    PROVE  SettleInv'
<1>1. run' = [run EXCEPT ![r] = Ended] /\ results' = results \cup {w} /\ Ended.pc = "ended"
  BY DEF Return, Ended, NoRun
<1>2. \A x \in {w} : Timely(x.claim, x.issuedAt) /\ Countable(x)
  OBVIOUS
<1>3. TimelyStep(r, Ended, {w})
  BY <1>1, <1>2 DEF TimelyStep
<1> QED
  BY <1>3, SettleRun

(* The run goes on with the instruction and the date it had. *)
LEMMA SettleOn ==
    ASSUME SettleInv, SystemInv', UNCHANGED vars, NEW r \in Runs, NEW c,
           run' = [run EXCEPT ![r] = c], UNCHANGED results,
           run[r].pc \in {"code", "random", "bundle", "vectors"},
           c.instr = run[r].instr, c.issuedAt = run[r].issuedAt
    PROVE  SettleInv'
<1>1. Timely(c.instr, c.issuedAt)
  BY DEF SettleInv, RunsTimely
<1>2. TimelyStep(r, c, {})
  BY <1>1 DEF TimelyStep
<1> QED
  BY <1>2, SettleRun

LEMMA SettleProceed ==
    ASSUME SettleInv, SystemInv', UNCHANGED vars, NEW r \in Runs, NEW pc, Proceed(r, pc),
           run[r].pc \in {"code", "random", "bundle"}
    PROVE  SettleInv'
<1>1. PICK c : c = [run[r] EXCEPT !.pc = pc]
  OBVIOUS
<1>2. run[r] \in RunType /\ DOMAIN run = Runs
  BY DEF SettleInv, SystemInv, SystemTypeOK
<1>3. c.instr = run[r].instr /\ c.issuedAt = run[r].issuedAt
  BY <1>1, <1>2 DEF RunType
<1>4. run' = [run EXCEPT ![r] = c] /\ UNCHANGED results
  BY <1>1, <1>2 DEF Proceed
<1> QED
  BY <1>3, <1>4, SettleOn

LEMMA NowIsTimely ==
    ASSUME SettleInv, NEW i \in sent
    PROVE  Timely(i, now)
<1>1. i.jobId \in JobIds /\ now \in Nat
  BY BoundAssumption DEF SettleInv, SystemInv, VerdictInv, LedgerInv, TypeOK, Instruction
<1> QED
  BY <1>1 DEF SettleInv, Awaited, Timely

LEMMA ExactClock ==
    ASSUME SettleInv, ClockIsExact
    PROVE  HostClock \subseteq {now}
<1>1. now \in Nat
  BY BoundAssumption DEF SettleInv, SystemInv, VerdictInv, LedgerInv, TypeOK
<1> QED
  BY <1>1 DEF HostClock, ClockIsExact

LEMMA SettleReadJob ==
    ASSUME SettleInv, SystemInv', UNCHANGED vars, NEW r \in Runs, NEW job, ReadJob(r, job, now)
    PROVE  SettleInv'
<1>1. CASE HandlerFailure(r)
  BY <1>1, SettleFailure
<1>2. CASE run' = [run EXCEPT ![r].pc = "code", ![r].issuedAt = now] /\ UNCHANGED results
  <2>1. PICK c : c = [run[r] EXCEPT !.pc = "code", !.issuedAt = now]
    OBVIOUS
  <2>2. run[r] \in RunType /\ DOMAIN run = Runs /\ run[r].instr \in sent
    BY DEF SettleInv, SystemInv, SystemTypeOK, ReadJob
  <2>3. c.instr = run[r].instr /\ c.issuedAt = now
    BY <2>1, <2>2 DEF RunType
  <2>4. run' = [run EXCEPT ![r] = c] /\ results' = results \cup {}
    BY <1>2, <2>1, <2>2
  <2>5. Timely(c.instr, c.issuedAt)
    BY <2>2, <2>3, NowIsTimely
  <2>6. TimelyStep(r, c, {})
    BY <2>4, <2>5 DEF TimelyStep
  <2> QED
    BY <2>6, SettleRun
<1> QED
  BY <1>1, <1>2 DEF ReadJob

LEMMA SettleBundle ==
    ASSUME SettleInv, SystemInv', UNCHANGED vars, NEW r \in Runs, fetchAndDecryptBundle(r, now)
    PROVE  SettleInv'
<1>1. CASE Proceed(r, "vectors")
  BY <1>1, SettleProceed DEF fetchAndDecryptBundle
<1>2. CASE Return(r, inconclusiveVerdict(run[r].instr, run[r].tag, now))
  <2>1. PICK w : w = inconclusiveVerdict(run[r].instr, run[r].tag, now)
    OBVIOUS
  <2>2. w.claim = run[r].instr /\ w.issuedAt = now /\ Countable(w)
    BY <2>1 DEF inconclusiveVerdict, VerdictFor, Countable
  <2>3. run[r].instr \in sent
    BY DEF SettleInv, SystemInv, SystemTypeOK, fetchAndDecryptBundle
  <2>4. Timely(w.claim, w.issuedAt)
    BY <2>2, <2>3, NowIsTimely
  <2> QED
    BY <1>2, <2>1, <2>2, <2>4, SettleReturn
<1> QED
  BY <1>1, <1>2 DEF fetchAndDecryptBundle

LEMMA SettleExecute ==
    ASSUME SettleInv, SystemInv', UNCHANGED vars, NEW r \in Runs, ExecuteNext(r)
    PROVE  SettleInv'
<1>1. PICK o : run' = [run EXCEPT ![r].outcomes = Append(@, o)] /\ UNCHANGED results
  BY DEF ExecuteNext
<1>2. PICK c : c = [run[r] EXCEPT !.outcomes = Append(@, o)]
  OBVIOUS
<1>3. run[r].pc = "vectors" /\ run[r] \in RunType /\ DOMAIN run = Runs
  BY DEF SettleInv, SystemInv, SystemTypeOK, ExecuteNext
<1>4. c.instr = run[r].instr /\ c.issuedAt = run[r].issuedAt
  BY <1>2, <1>3 DEF RunType
<1>5. run' = [run EXCEPT ![r] = c]
  BY <1>1, <1>2, <1>3
<1> QED
  BY <1>1, <1>3, <1>4, <1>5, SettleOn

(* countPassed reaches the number executed exactly on a pass. *)
LEMMA CountIsPass ==
    ASSUME NEW outcomes \in Seq({"passed", "failed", "skipped"})
    PROVE  /\ countPassed(outcomes) <= Len(outcomes)
           /\ (OutcomeOf(outcomes) = "Pass") <=> (countPassed(outcomes) = Len(outcomes))
<1> DEFINE S == 1..Len(outcomes)
           P == {k \in S : outcomes[k] = "passed"}
<1>1. IsFiniteSet(S) /\ Cardinality(S) = Len(outcomes) /\ Len(outcomes) \in Nat
  <2>1. PICK n \in Nat : n = Len(outcomes)
    OBVIOUS
  <2>2. IsFiniteSet(1..n) /\ Cardinality(1..n) = n
    BY FS_Interval, SMT
  <2> QED
    BY <2>1, <2>2
<1>2. P \subseteq S
  OBVIOUS
<1>3. Cardinality(P) <= Cardinality(S) /\ (Cardinality(S) = Cardinality(P) => S = P)
  BY <1>1, <1>2, FS_Subset
<1>4. countPassed(outcomes) = Cardinality(P)
  BY DEF countPassed
<1>5. OutcomeOf(outcomes) = "Pass" <=> \A k \in S : outcomes[k] = "passed"
  BY DEF OutcomeOf
<1>6. (\A k \in S : outcomes[k] = "passed") <=> S = P
  OBVIOUS
<1> QED
  BY <1>1, <1>3, <1>4, <1>5, <1>6

LEMMA SettleConclude ==
    ASSUME TestsAreSelected, SettleInv, SystemInv', UNCHANGED vars, NEW r \in Runs, Conclude(r)
    PROVE  SettleInv'
<1>1. PICK c : c = run[r]
  OBVIOUS
<1>2. PICK w : w = VerdictFor(c.instr, c.tag, OutcomeOf(c.outcomes), countPassed(c.outcomes),
                              Len(c.outcomes), c.issuedAt)
  OBVIOUS
<1>3. /\ c.pc = "vectors" /\ Len(c.outcomes) = Len(Tests(c.instr)) /\ Return(r, w)
  BY <1>1, <1>2 DEF Conclude, Tests
<1>4. c.instr \in Instruction /\ c.outcomes \in Seq({"passed", "failed", "skipped"})
  BY <1>1, <1>3 DEF SettleInv, SystemInv, SystemTypeOK, RunType
<1>5. Timely(c.instr, c.issuedAt)
  BY <1>1, <1>3 DEF SettleInv, RunsTimely
<1>6. /\ w.claim = c.instr /\ w.issuedAt = c.issuedAt /\ w.outcome = OutcomeOf(c.outcomes)
      /\ w.passed = countPassed(c.outcomes) /\ w.executed = Len(c.outcomes)
  BY <1>2 DEF VerdictFor
<1>7. Len(c.outcomes) # 0
  BY <1>3, <1>4 DEF TestsAreSelected
<1>8. Countable(w)
  BY <1>4, <1>6, <1>7, CountIsPass DEF Countable
<1> QED
  BY <1>3, <1>5, <1>6, <1>8, SettleReturn

LEMMA SettleVerifier ==
    ASSUME TestsAreSelected, ClockIsExact,
           SettleInv, SystemInv', UNCHANGED vars, NEW r \in Runs, VerifierStep(r)
    PROVE  SettleInv'
<1>1. ASSUME NEW instr \in sent, NEW tag \in Tags, Begin(r, instr, tag) PROVE SettleInv'
  <2>1. CASE HandlerFailure(r)
    BY <2>1, SettleFailure
  <2>2. CASE run' = [run EXCEPT ![r] = Started(instr, tag)] /\ UNCHANGED results
    <3>1. Started(instr, tag).pc = "job" /\ results' = results \cup {}
      BY <2>2 DEF Started
    <3>2. TimelyStep(r, Started(instr, tag), {})
      BY <2>2, <3>1 DEF TimelyStep
    <3> QED
      BY <3>2, SettleRun
  <2> QED
    BY <1>1, <2>1, <2>2 DEF Begin
<1>2. HostClock \subseteq {now}
  BY ExactClock
<1>3. ASSUME NEW clock \in HostClock, ReadJob(r, JobOf(run[r].instr.jobId), clock) PROVE SettleInv'
  BY <1>2, <1>3, SettleReadJob
<1>4. ASSUME recomputeArtifactCodeHash(
                r, CodeAtBlock(run[r].instr.artifactAddress, run[r].instr.artifactBlock))
      PROVE SettleInv'
  BY <1>4, SettleFailure, SettleProceed DEF recomputeArtifactCodeHash
<1>5. ASSUME FetchRandomNumber(r, RoundSecure(run[r].instr.randomRound)) PROVE SettleInv'
  BY <1>5, SettleFailure, SettleProceed DEF FetchRandomNumber
<1>6. CASE ReadFails(r) \/ Lost(r)
  BY <1>6, SettleFailure DEF ReadFails, Lost
<1>7. ASSUME NEW clock \in HostClock, fetchAndDecryptBundle(r, clock) PROVE SettleInv'
  BY <1>2, <1>7, SettleBundle
<1>8. CASE ExecuteNext(r)
  BY <1>8, SettleExecute
<1>9. CASE Conclude(r)
  BY <1>9, SettleConclude
<1> QED
  BY <1>1, <1>3, <1>4, <1>5, <1>6, <1>7, <1>8, <1>9 DEF VerifierStep

LEMMA SettleStep ==
    ASSUME TestsAreSelected, ClockIsExact, SettleInv, [SystemNext]_systemVars
    PROVE  SettleInv'
<1>1. TestsAreListed
  BY DEF TestsAreSelected, TestsAreListed
<1>2. SystemInv'
  BY <1>1, InvStep DEF SettleInv
<1>3. CASE ChainStep /\ UNCHANGED verifierVars
  BY <1>2, <1>3, SettleChain DEF verifierVars
<1>4. ASSUME NEW id \in JobIds, Relay(id), UNCHANGED <<verifierVars, codeAt>> PROVE SettleInv'
  BY <1>2, <1>4, SettleChain DEF verifierVars
<1>5. ASSUME NEW r \in Runs, VerifierStep(r), UNCHANGED <<vars, codeAt>> PROVE SettleInv'
  BY <1>2, <1>5, SettleVerifier
<1>6. CASE UNCHANGED systemVars
  <2>1. UNCHANGED <<state, current, terms, sent, nonce, now, run, results>>
    BY <1>6 DEF systemVars, verifierVars, vars, storage, chain, registry
  <2> QED
    BY <1>2, <2>1 DEF SettleInv, Awaited, InstructionFor, RunsTimely, ResultsTimely, ResultsCountable,
                      Timely, Countable
<1> QED
  BY <1>3, <1>4, <1>5, <1>6 DEF SystemNext

LEMMA SettleInvariant ==
    ASSUME TestsAreSelected, ClockIsExact
    PROVE  SystemSpec => []SettleInv
<1>1. SystemInit => SettleInv
  <2> SUFFICES ASSUME SystemInit PROVE SettleInv
    OBVIOUS
  <2>1. results = {} /\ run = [r \in Runs |-> NoRun] /\ NoRun.pc = "idle"
    BY DEF SystemInit, VerifierInit, NoRun
  <2>2. \A id \in JobIds : state[id] # "Verifying"
    BY DEF SystemInit, Init
  <2> QED
    BY <2>1, <2>2, InvInit DEF SettleInv, Awaited, RunsTimely, ResultsTimely, ResultsCountable
<1>2. SettleInv /\ [SystemNext]_systemVars => SettleInv'
  BY SettleStep
<1> QED
  BY <1>1, <1>2, PTL DEF SystemSpec

(* Verify and inconclusiveVerdict against _checkIdentity and               *)
(* _checkOutcomeBinding: a verdict signed for the instruction a job waits  *)
(* for, on an artifact that is still deployed, is one settleAttempt takes. *)
(* The hypotheses are that at least one vector is selected, and that the   *)
(* host's clock is the chain's: a verdict dated by a clock that is off may *)
(* seem to come from the future or from before the dispatch.               *)
THEOREM SignedVerdictsSettle ==
    ASSUME TestsAreSelected, ClockIsExact
    PROVE  SystemSpec => []SignedVerdictIsSettleable
<1>1. SettleInv => SignedVerdictIsSettleable
  <2> SUFFICES ASSUME SettleInv, NEW w \in results, NEW id, id = w.claim.jobId,
                      state[id] = "Verifying", w.claim.instructionId = current[id].instructionId,
                      code[current[id].artifactAddress] = current[id].artifactCodeHash
               PROVE  (w.tag = "threshold" => Authentic(id, w)) /\ _checkBinding(id, w)
    BY DEF SignedVerdictIsSettleable
  <2>1. w.claim \in sent /\ w.claim \in Instruction /\ w.status = 1 /\ w.signer = w.claim.tee
    BY DEF SettleInv, SystemInv, SystemTypeOK, ResultType, ResultTells
  <2>2. id \in JobIds
    BY <2>1 DEF Instruction
  <2>3. w.claim = InstructionFor(id, current[id].instructionId)
    BY <2>1, <2>2 DEF SettleInv, Awaited
  <2>4. w.claim.tee = terms[id].expectedTee /\ _checkIdentity(id, w)
    BY <2>3 DEF InstructionFor, _checkIdentity
  <2>5. Timely(w.claim, w.issuedAt) /\ Countable(w)
    BY DEF SettleInv, ResultsTimely, ResultsCountable
  <2>6. _checkOutcomeBinding(id, w)
    BY <2>3, <2>5 DEF _checkOutcomeBinding, Timely, Countable, InstructionFor
  <2> QED
    BY <2>1, <2>4, <2>6 DEF Authentic, _checkBinding
<1> QED
  BY <1>1, SettleInvariant, PTL
=============================================================================
