------------------------- MODULE EscrowVerdictProofs -------------------------
(***************************************************************************)
(* Which verdicts settle a job, for every number of jobs, attempts and     *)
(* results in flight: the escrow pays on a complete pass that the pinned   *)
(* TEE signed for the current attempt, accepts one verdict per attempt,    *)
(* and never one for an instruction that a newer one has replaced.         *)
(***************************************************************************)
EXTENDS EscrowProofs

(* The states in which an attempt is open: no verdict on it yet. *)
Open == {"RandomnessPending", "ReadyToVerify", "Verifying"}

(* The registry numbers instructions upwards, and while a job is being     *)
(* verified the instruction it waits for is its newest.                    *)
NewestInstruction ==
    /\ \A i \in sent : i.instructionId <= nonce
    /\ \A id \in JobIds : state[id] = "Verifying" =>
          \A i \in sent : i.jobId = id => i.instructionId <= current[id].instructionId

(* No verdict accepted so far is for an attempt that is still open, and    *)
(* only a paid job has a pass.                                             *)
VerdictsArePast ==
    \A id \in JobIds : \A n \in 1..Len(settlements[id]) :
       LET v == settlements[id][n] IN
       /\ v.claim.attempt <= current[id].attempt
       /\ state[id] \in Open => v.claim.attempt < current[id].attempt
       /\ v.outcome = "Pass" => state[id] = "Paid"

VerdictInv ==
    /\ LedgerInv
    /\ NewestInstruction
    /\ VerdictsArePast
    /\ OneVerdictPerAttempt
    /\ PaidOnMatchingPass

LEMMA VerdictInit == Init => VerdictInv
<1> SUFFICES ASSUME Init PROVE VerdictInv
  OBVIOUS
<1>1. NewestInstruction
  BY DEF Init, NewestInstruction
<1>2. \A id \in JobIds : Len(settlements[id]) = 0 /\ state[id] = "Created"
  BY DEF Init
<1> QED
  BY <1>1, <1>2, LedgerInit DEF VerdictInv, VerdictsArePast, OneVerdictPerAttempt, PaidOnMatchingPass

LEMMA AttemptOfVerdict ==
    ASSUME TypeOK, NEW k \in JobIds, NEW n \in 1..Len(settlements[k])
    PROVE  settlements[k][n].claim.attempt \in Nat
<1>1. settlements[k] \in Seq(Verdict)
  BY DEF TypeOK
<1>2. settlements[k][n] \in Verdict
  BY <1>1
<1>3. settlements[k][n].claim \in Instruction
  BY <1>2 DEF Verdict
<1> QED
  BY <1>3 DEF Instruction

(* A step of one job that neither sends an instruction nor accepts a       *)
(* verdict, and opens an attempt only with a new number.                   *)
LEMMA VerdictQuietStep ==
    ASSUME VerdictInv, LedgerInv', NEW id \in JobIds,
           UNCHANGED <<sent, nonce, settlements>>,
           \A k \in JobIds \ {id} : /\ state'[k] = state[k] /\ current'[k] = current[k]
                                    /\ terms'[k] = terms[k],
           state[id] # "Paid", state'[id] \notin {"Paid", "Verifying"},
           \/ current'[id].attempt = current[id].attempt /\ (state'[id] \in Open => state[id] \in Open)
           \/ current'[id].attempt = current[id].attempt + 1
    PROVE  VerdictInv'
<1>1. TypeOK /\ TypeOK'
  BY DEF VerdictInv, LedgerInv
<1>2. NewestInstruction'
  BY DEF VerdictInv, NewestInstruction
<1>3. \A k \in JobIds : \A n \in 1..Len(settlements[k]) : settlements[k][n].claim.attempt \in Nat
  BY <1>1, AttemptOfVerdict
<1>4. VerdictsArePast'
  <2> SUFFICES ASSUME NEW k \in JobIds, NEW n \in 1..Len(settlements[k])
               PROVE  LET v == settlements[k][n] IN
                      /\ v.claim.attempt <= current'[k].attempt
                      /\ state'[k] \in Open => v.claim.attempt < current'[k].attempt
                      /\ v.outcome = "Pass" => state'[k] = "Paid"
    BY DEF VerdictsArePast
  <2>1. CASE k # id
    BY <2>1 DEF VerdictInv, VerdictsArePast
  <2>2. CASE k = id
    <3>1. current[id].attempt \in Nat
      BY <1>1 DEF TypeOK, AttemptState
    <3> QED
      BY <1>3, <2>2, <3>1 DEF VerdictInv, VerdictsArePast
  <2> QED
    BY <2>1, <2>2
<1>5. OneVerdictPerAttempt'
  BY DEF VerdictInv, OneVerdictPerAttempt
<1>6. PaidOnMatchingPass'
  BY DEF VerdictInv, PaidOnMatchingPass, InstructionFor
<1> QED
  BY <1>2, <1>4, <1>5, <1>6 DEF VerdictInv

(* Steps that leave jobs, instructions and verdicts alone. *)
LEMMA VerdictFrame ==
    ASSUME VerdictInv, LedgerInv',
           UNCHANGED <<sent, nonce, settlements, state, current, terms>>
    PROVE  VerdictInv'
BY DEF VerdictInv, NewestInstruction, VerdictsArePast, OneVerdictPerAttempt, PaidOnMatchingPass,
       InstructionFor

LEMMA VerdictDispatch ==
    ASSUME VerdictInv, LedgerInv', NEW id \in JobIds, dispatchVerification(id)
    PROVE  VerdictInv'
<1>1. TypeOK /\ TypeOK'
  BY DEF VerdictInv, LedgerInv
<1>2. /\ state[id] = "ReadyToVerify" /\ UNCHANGED <<terms, settlements>>
      /\ nonce' = nonce + 1 /\ sent' = sent \cup {InstructionFor(id, nonce + 1)}
  BY DEF dispatchVerification, history
<1>3. /\ \A k \in JobIds \ {id} : state'[k] = state[k] /\ current'[k] = current[k]
      /\ state'[id] = "Verifying"
  BY <1>1 DEF dispatchVerification, TypeOK
<1>4. current'[id].attempt = current[id].attempt /\ current'[id].instructionId = nonce + 1
  BY <1>1 DEF dispatchVerification, TypeOK, AttemptState
<1>5. /\ InstructionFor(id, nonce + 1).instructionId = nonce + 1
      /\ InstructionFor(id, nonce + 1).jobId = id
  BY DEF InstructionFor
<1>6. nonce \in Nat /\ \A i \in sent : i.instructionId \in Nat
  BY <1>1 DEF TypeOK, Instruction
<1>7. NewestInstruction'
  <2>1. \A i \in sent' : i.instructionId <= nonce'
    BY <1>2, <1>5, <1>6 DEF VerdictInv, NewestInstruction
  <2>2. ASSUME NEW k \in JobIds, state'[k] = "Verifying", NEW i \in sent', i.jobId = k
        PROVE  i.instructionId <= current'[k].instructionId
    <3>1. CASE k = id
      BY <1>2, <1>4, <2>1, <3>1
    <3>2. CASE k # id
      BY <1>2, <1>3, <1>5, <2>2, <3>2 DEF VerdictInv, NewestInstruction
    <3> QED
      BY <3>1, <3>2
  <2> QED
    BY <2>1, <2>2 DEF NewestInstruction
<1>8. VerdictsArePast'
  BY <1>2, <1>3, <1>4 DEF VerdictInv, VerdictsArePast, Open
<1>9. OneVerdictPerAttempt'
  BY <1>2 DEF VerdictInv, OneVerdictPerAttempt
<1>10. PaidOnMatchingPass'
  BY <1>2, <1>3 DEF VerdictInv, PaidOnMatchingPass, InstructionFor
<1> QED
  BY <1>7, <1>8, <1>9, <1>10 DEF VerdictInv

(* What an accepted result tells about the job it settles. *)
LEMMA AcceptedResult ==
    ASSUME VerdictInv, NEW id \in JobIds, NEW r, Delivered(r), settleAttempt(id, r)
    PROVE  /\ state[id] = "Verifying"
           /\ r.claim \in sent /\ r.claim = InstructionFor(id, current[id].instructionId)
           /\ r.signer = terms[id].expectedTee
           /\ now <= terms[id].graceEnds
           /\ r.outcome = "Pass" => r.passed = r.executed /\ r.executed > 0
           /\ code[current[id].artifactAddress] = current[id].artifactCodeHash
<1>1. TypeOK
  BY DEF VerdictInv, LedgerInv
<1>2. /\ state[id] = "Verifying" /\ now <= terms[id].graceEnds
      /\ Authentic(id, r) /\ _checkIdentity(id, r) /\ _checkOutcomeBinding(id, r)
  BY DEF settleAttempt, _checkBinding
<1>3. r.claim \in Instruction /\ r.claim \in sent
  BY <1>1 DEF Delivered, TypeOK
<1>4. terms[id].expectedTee \in Tees
  BY <1>2 DEF VerdictInv, LedgerInv, NeverCreated, PartiesKnown
<1>5. r.claim.tee = terms[id].expectedTee
  BY <1>2, <1>4, InputAssumption DEF Authentic, Delivered
<1>6. r.claim = InstructionFor(id, current[id].instructionId)
  BY <1>2, <1>3, <1>5 DEF _checkIdentity, _checkOutcomeBinding, Instruction, InstructionFor
<1>7. r.outcome = "Pass" => r.passed = r.executed /\ r.executed > 0
  BY <1>2 DEF _checkOutcomeBinding, Delivered
<1> QED
  BY <1>2, <1>3, <1>6, <1>7 DEF Authentic, _checkOutcomeBinding

LEMMA VerdictSettle ==
    ASSUME VerdictInv, LedgerInv', NEW id \in JobIds, NEW r, Delivered(r), settleAttempt(id, r)
    PROVE  VerdictInv'
<1> DEFINE S == settlements[id]
           v == Settlement(id, r)
<1>1. TypeOK /\ TypeOK'
  BY DEF VerdictInv, LedgerInv
<1>2. /\ state[id] = "Verifying"
      /\ r.claim \in sent /\ r.claim = InstructionFor(id, current[id].instructionId)
      /\ r.signer = terms[id].expectedTee
      /\ now <= terms[id].graceEnds
      /\ r.outcome = "Pass" => r.passed = r.executed /\ r.executed > 0
      /\ code[current[id].artifactAddress] = current[id].artifactCodeHash
  BY AcceptedResult
<1>3. UNCHANGED <<sent, nonce, current, terms>>
  BY DEF settleAttempt, registry
<1>4. /\ settlements' = [settlements EXCEPT ![id] = Append(S, v)]
      /\ \/ r.outcome = "Pass" /\ state' = [state EXCEPT ![id] = "Paid"]
         \/ r.outcome # "Pass" /\ state' = [state EXCEPT ![id] = AfterNoPay(id, r.outcome)]
  BY DEF settleAttempt
<1>5. /\ \A k \in JobIds \ {id} : state'[k] = state[k] /\ settlements'[k] = settlements[k]
      /\ state'[id] \notin Open
      /\ state'[id] = "Paid" <=> r.outcome = "Pass"
      /\ settlements'[id] = Append(S, v)
  BY <1>1, <1>4 DEF TypeOK, AfterNoPay, Open
<1>6. /\ v.claim = r.claim /\ v.claim.attempt = current[id].attempt /\ v.outcome = r.outcome
      /\ v.signer = r.signer /\ v.passed = r.passed /\ v.executed = r.executed
      /\ v.liveCode = code[current[id].artifactAddress] /\ v.at = now
  BY <1>2 DEF Settlement, InstructionFor
<1>7. /\ S \in Seq(Verdict) /\ current[id].attempt \in Nat
      /\ \A n \in 1..Len(S) : S[n].claim.attempt \in Nat
  BY <1>1, AttemptOfVerdict DEF TypeOK, AttemptState
<1> HIDE DEF v
<1>8. /\ Len(Append(S, v)) = Len(S) + 1 /\ Len(S) \in Nat
      /\ Append(S, v)[Len(S) + 1] = v
      /\ \A n \in 1..Len(S) : Append(S, v)[n] = S[n]
  BY <1>7
<1>9. \A n \in 1..Len(S) : S[n].claim.attempt < v.claim.attempt /\ S[n].outcome # "Pass"
  BY <1>2, <1>6 DEF VerdictInv, VerdictsArePast, Open
<1>10. NewestInstruction'
  BY <1>3, <1>5 DEF VerdictInv, NewestInstruction, Open
<1>11. VerdictsArePast'
  <2> SUFFICES ASSUME NEW k \in JobIds, NEW n \in 1..Len(settlements'[k])
               PROVE  LET w == settlements'[k][n] IN
                      /\ w.claim.attempt <= current[k].attempt
                      /\ state'[k] \in Open => w.claim.attempt < current[k].attempt
                      /\ w.outcome = "Pass" => state'[k] = "Paid"
    BY <1>3 DEF VerdictsArePast
  <2>1. CASE k # id
    BY <1>5, <2>1 DEF VerdictInv, VerdictsArePast
  <2>2. CASE k = id /\ n = Len(S) + 1
    BY <1>5, <1>6, <1>7, <1>8, <2>2
  <2>3. CASE k = id /\ n \in 1..Len(S)
    BY <1>5, <1>6, <1>7, <1>8, <1>9, <2>3
  <2> QED
    BY <1>5, <1>8, <2>1, <2>2, <2>3
<1>12. OneVerdictPerAttempt'
  <2> SUFFICES ASSUME NEW k \in JobIds, NEW i \in 1..Len(settlements'[k]),
                      NEW n \in 1..Len(settlements'[k]), i < n
               PROVE  /\ settlements'[k][i].claim.attempt < settlements'[k][n].claim.attempt
                      /\ settlements'[k][i].outcome # "Pass"
    BY DEF OneVerdictPerAttempt
  <2>1. CASE k # id
    BY <1>5, <2>1 DEF VerdictInv, OneVerdictPerAttempt
  <2>2. CASE k = id /\ n = Len(S) + 1
    BY <1>5, <1>8, <1>9, <2>2
  <2>3. CASE k = id /\ n \in 1..Len(S)
    <3>1. i \in 1..Len(S)
      BY <1>5, <1>8, <2>3
    <3>2. settlements'[k][i] = S[i] /\ settlements'[k][n] = S[n]
      BY <1>5, <1>8, <2>3, <3>1
    <3>3. S[i].claim.attempt < S[n].claim.attempt /\ S[i].outcome # "Pass"
      BY <2>3, <3>1 DEF VerdictInv, OneVerdictPerAttempt
    <3> QED
      BY <3>2, <3>3
  <2> QED
    BY <1>5, <1>8, <2>1, <2>2, <2>3
<1>13. PaidOnMatchingPass'
  <2>1. ASSUME NEW k \in JobIds, k # id, state'[k] = "Paid"
        PROVE  (settlements[k] # <<>> /\ LET w == settlements[k][Len(settlements[k])] IN
                 /\ w.outcome = "Pass" /\ w.passed = w.executed /\ w.executed > 0
                 /\ w.signer = terms[k].expectedTee
                 /\ w.claim \in sent
                 /\ w.claim = InstructionFor(k, current[k].instructionId)
                 /\ w.liveCode = current[k].artifactCodeHash
                 /\ w.at <= terms[k].graceEnds)
    BY <1>5, <2>1 DEF VerdictInv, PaidOnMatchingPass
  <2>2. Append(S, v) # <<>>
    BY <1>7
  <2> QED
    BY <1>2, <1>3, <1>5, <1>6, <1>8, <2>1, <2>2 DEF PaidOnMatchingPass, InstructionFor
<1> QED
  BY <1>10, <1>11, <1>12, <1>13 DEF VerdictInv

LEMMA VerdictCreate ==
    ASSUME VerdictInv, LedgerInv', NEW sender \in Address, NEW contractor \in Accounts \cup {Zero},
           NEW tee \in Tees, NEW principal \in Principals, NEW s \in Schedule,
           NEW commitment \in Commitments,
           createJob(sender, contractor, tee, principal, s, commitment)
    PROVE  VerdictInv'
<1>1. createJob(sender, contractor, tee, principal, s, commitment)
  OBVIOUS
<1>2. TypeOK
  BY DEF VerdictInv, LedgerInv
<1>3. PICK id \in JobIds : id = nextJobId
  BY <1>1 DEF createJob
<1>4. /\ UNCHANGED <<sent, nonce, settlements, current>>
      /\ terms' = [terms EXCEPT ![id] = terms'[id]]
      /\ state' = [state EXCEPT ![id] = "Created"]
  BY <1>1, <1>2, <1>3 DEF createJob, registry, history, TypeOK
<1>5. state[id] = "Created"
  BY <1>2, <1>3 DEF VerdictInv, LedgerInv, NeverCreated, Exists, TypeOK
<1>6. /\ \A k \in JobIds \ {id} : state'[k] = state[k] /\ terms'[k] = terms[k]
      /\ state'[id] = "Created"
  BY <1>2, <1>4 DEF TypeOK
<1> QED
  BY <1>4, <1>5, <1>6, VerdictQuietStep DEF Open

(* What lockRandomness leaves of an attempt, with a secure round and with  *)
(* an insecure one.                                                        *)
LEMMA LockedAttempt ==
    ASSUME TypeOK, NEW id \in JobIds, lockRandomness(id)
    PROVE  \/ current'[id] = [current[id] EXCEPT !.randomRound = current[id].targetRound,
                                                !.randomLocked = TRUE]
           \/ current'[id] = [current[id] EXCEPT !.targetRound = current[id].targetRound + 1]
BY DEF lockRandomness, TypeOK

LEMMA AttemptUntouched ==
    ASSUME NEW c \in AttemptState, NEW round, NEW locked
    PROVE  /\ [c EXCEPT !.randomRound = round, !.randomLocked = locked].attempt = c.attempt
           /\ [c EXCEPT !.targetRound = round].attempt = c.attempt
BY DEF AttemptState

LEMMA VerdictJobStep ==
    ASSUME VerdictInv, LedgerInv', NEW id \in JobIds, JobStep(id)
    PROVE  VerdictInv'
<1> DEFINE goesTo(new) ==
              /\ UNCHANGED <<sent, nonce, settlements, terms>>
              /\ \A k \in JobIds \ {id} : state'[k] = state[k] /\ current'[k] = current[k]
              /\ state'[id] = new
           sameAttempt == current'[id].attempt = current[id].attempt
<1>1. TypeOK /\ TypeOK' /\ current[id] \in AttemptState
  BY DEF VerdictInv, LedgerInv, TypeOK
<1>2. ASSUME NEW sender \in Address, acceptJob(sender, id) PROVE VerdictInv'
  <2>1. goesTo("Accepted") /\ sameAttempt /\ state[id] = "Created"
    BY <1>1, <1>2 DEF acceptJob, TypeOK, registry, history
  <2> QED
    BY <2>1, VerdictQuietStep DEF Open
<1>3. ASSUME NEW new \in {"Cancelled", "Refunded"}, ReturnToClient(id, new), ~settled[id]
      PROVE  VerdictInv'
  <2>1. goesTo(new) /\ sameAttempt
    BY <1>1, <1>3 DEF ReturnToClient, TypeOK, registry
  <2>2. state[id] # "Paid"
    BY <1>3 DEF VerdictInv, LedgerInv, PaysOutExactlyOnce
  <2> QED
    BY <2>1, <2>2, VerdictQuietStep DEF Open
<1>4. ASSUME NEW sender \in Address, cancelUnaccepted(sender, id) PROVE VerdictInv'
  <2>1. ~settled[id]
    BY <1>4 DEF cancelUnaccepted, VerdictInv, LedgerInv, PaysOutExactlyOnce
  <2> QED
    BY <1>3, <1>4, <2>1 DEF cancelUnaccepted
<1>5. ASSUME NEW sender \in Address, NEW artifact \in Artifacts, submitAttempt(sender, id, artifact)
      PROVE  VerdictInv'
  <2>1. goesTo("RandomnessPending") /\ state[id] # "Paid"
    BY <1>1, <1>5 DEF submitAttempt, TypeOK, registry, history
  <2>2. current'[id].attempt = current[id].attempt + 1
    BY <1>1, <1>5 DEF submitAttempt, TypeOK, NoAttempt
  <2> QED
    BY <2>1, <2>2, VerdictQuietStep DEF Open
<1>6. CASE lockRandomness(id)
  <2>1. /\ state[id] = "RandomnessPending"
        /\ goesTo("ReadyToVerify") \/ goesTo("RandomnessPending")
    BY <1>1, <1>6 DEF lockRandomness, TypeOK, registry, history
  <2>2. sameAttempt
    <3>1. \/ current'[id] = [current[id] EXCEPT !.randomRound = current[id].targetRound,
                                               !.randomLocked = TRUE]
          \/ current'[id] = [current[id] EXCEPT !.targetRound = current[id].targetRound + 1]
      BY <1>1, <1>6, LockedAttempt
    <3> DEFINE c == current[id]
               n == current[id].targetRound
    <3>2. /\ [c EXCEPT !.randomRound = n, !.randomLocked = TRUE].attempt = c.attempt
          /\ [c EXCEPT !.targetRound = n + 1].attempt = c.attempt
      <4>1. c \in AttemptState
        BY <1>1
      <4> HIDE DEF c, n
      <4> QED
        BY <4>1, AttemptUntouched, Zenon
    <3> QED
      BY <3>1, <3>2, Zenon
  <2> QED
    BY <2>1, <2>2, VerdictQuietStep DEF Open
<1>7. CASE dispatchVerification(id)
  BY <1>7, VerdictDispatch
<1>8. CASE expireVerification(id)
  <2>1. goesTo("Retryable") /\ state[id] = "Verifying"
    BY <1>1, <1>8 DEF expireVerification, TypeOK, registry, history
  <2>2. sameAttempt
    BY <1>1, <1>8 DEF expireVerification, TypeOK, AttemptState
  <2> QED
    BY <2>1, <2>2, VerdictQuietStep DEF Open
<1>9. CASE Settle(id)
  BY <1>9, SettleDelivers, VerdictSettle
<1>10. CASE refundExpired(id)
  BY <1>3, <1>10 DEF refundExpired
<1> QED
  BY <1>2, <1>4, <1>5, <1>6, <1>7, <1>8, <1>9, <1>10 DEF JobStep, PartyStep

LEMMA VerdictStep == VerdictInv /\ [Next]_vars => VerdictInv'
<1> SUFFICES ASSUME VerdictInv, [Next]_vars PROVE VerdictInv'
  OBVIOUS
<1>1. LedgerInv'
  BY LedgerStep DEF VerdictInv
<1>2. CASE Administer
  BY <1>1, <1>2, VerdictFrame DEF Administer, storage, registry, history
<1>3. CASE Create
  BY <1>1, <1>3, CreateInputs, VerdictCreate
<1>4. ASSUME NEW id \in JobIds, JobStep(id) PROVE VerdictInv'
  BY <1>1, <1>4, VerdictJobStep
<1>5. CASE Environment
  BY <1>1, <1>5, VerdictFrame
  DEF Environment, Tick, FinalizeRound, ChangeTeeStatus, ChangeCode, storage, registry, history
<1>6. CASE UNCHANGED vars
  BY <1>1, <1>6, VerdictFrame DEF vars, storage, registry, history
<1> QED
  BY <1>2, <1>3, <1>4, <1>5, <1>6 DEF Next

LEMMA VerdictInvariant == Spec => []VerdictInv
<1> QED
  BY VerdictInit, VerdictStep, PTL DEF Spec

(* settleAttempt pays only on a complete pass that the pinned TEE signed   *)
(* for the last instruction of the last attempt, whatever results are      *)
(* forged, replayed or delayed and however many jobs share the contract.   *)
THEOREM PaymentNeedsMatchingPass == Spec => []PaidOnMatchingPass
<1>1. VerdictInv => PaidOnMatchingPass
  BY DEF VerdictInv
<1> QED
  BY <1>1, VerdictInvariant, PTL

(* settleAttempt accepts at most one verdict for an attempt and none after *)
(* a pass, in any number of attempts.                                      *)
THEOREM VerdictAcceptedOnce == Spec => []OneVerdictPerAttempt
<1>1. VerdictInv => OneVerdictPerAttempt
  BY DEF VerdictInv
<1> QED
  BY <1>1, VerdictInvariant, PTL

(* The steps of the contract other than settleAttempt accept no verdict. *)
LEMMA OthersAcceptNothing ==
    ASSUME [Next]_vars, ~\E id \in JobIds : Settle(id)
    PROVE  settlements' = settlements
<1>1. CASE Administer \/ Create \/ Environment
  BY <1>1 DEF Administer, Create, createJob, Environment, Tick, FinalizeRound, ChangeTeeStatus,
              ChangeCode, history
<1>2. CASE UNCHANGED vars
  BY <1>2 DEF vars, history
<1>3. ASSUME NEW id \in JobIds, JobStep(id) PROVE settlements' = settlements
  BY <1>3 DEF JobStep, PartyStep, acceptJob, cancelUnaccepted, refundExpired, ReturnToClient, submitAttempt,
              lockRandomness, dispatchVerification, expireVerification, history
<1> QED
  BY <1>1, <1>2, <1>3 DEF Next

(* Once dispatchVerification has sent a newer instruction for a job, no    *)
(* verdict for an older one is accepted, late, replayed or not.            *)
THEOREM StaleVerdictsRejected == Spec => OnlyLatestInstructionSettles
<1> DEFINE A == \A id \in JobIds : settlements'[id] # settlements[id] =>
                   LET v == settlements'[id][Len(settlements'[id])] IN
                   \A i \in sent : i.jobId = id => i.instructionId <= v.claim.instructionId
<1>1. VerdictInv /\ [Next]_vars => A
  <2> SUFFICES ASSUME VerdictInv, [Next]_vars, NEW id \in JobIds,
                      settlements'[id] # settlements[id], NEW i \in sent, i.jobId = id
               PROVE  i.instructionId <=
                        settlements'[id][Len(settlements'[id])].claim.instructionId
    OBVIOUS
  <2>1. PICK k \in JobIds : Settle(k)
    BY OthersAcceptNothing
  <2>2. PICK r : Delivered(r) /\ settleAttempt(k, r)
    BY <2>1, SettleDelivers
  <2>3. settlements' = [settlements EXCEPT ![k] = Append(settlements[k], Settlement(k, r))]
    BY <2>2 DEF settleAttempt
  <2>4. TypeOK
    BY DEF VerdictInv, LedgerInv
  <2>5. k = id /\ settlements'[id] = Append(settlements[id], Settlement(id, r))
    BY <2>3, <2>4 DEF TypeOK
  <2>6. settlements[id] \in Seq(Verdict)
    BY <2>4 DEF TypeOK
  <2>7. settlements'[id][Len(settlements'[id])] = Settlement(id, r)
    BY <2>5, <2>6
  <2>8. /\ state[id] = "Verifying"
        /\ r.claim.instructionId = current[id].instructionId
    BY <2>2, <2>5 DEF settleAttempt, _checkBinding, _checkIdentity
  <2>9. i.instructionId <= current[id].instructionId
    BY <2>8 DEF VerdictInv, NewestInstruction
  <2> QED
    BY <2>7, <2>8, <2>9 DEF Settlement
<1>2. VerdictInv /\ [Next]_vars => [A]_vars
  BY <1>1
<1> QED
  BY <1>2, VerdictInvariant, PTL DEF Spec, OnlyLatestInstructionSettles
-----------------------------------------------------------------------------
(***************************************************************************)
(* Which random round seeds the tests of an attempt, for every beacon:     *)
(* the first secure one after the round of the submission.  The proof is   *)
(* inductive once it is known that an attempt that still waits for its     *)
(* randomness has not locked any, so that moving the target on cannot      *)
(* separate it from a locked round.                                        *)
(***************************************************************************)

(* The seed rule for one attempt record. *)
SeedRule(c) ==
    c.attempt > 0 =>
       /\ \A round \in VotingRound(c.artifactBlock) + 1 .. c.targetRound - 1 :
             RoundFinalized(round) /\ ~RoundSecure(round)
       /\ c.targetRound > VotingRound(c.artifactBlock)
       /\ c.randomLocked => /\ c.randomRound = c.targetRound
                            /\ RoundFinalized(c.randomRound) /\ RoundSecure(c.randomRound)

PendingIsUnlocked ==
    \A id \in JobIds : state[id] = "RandomnessPending" => ~current[id].randomLocked

SeedInv ==
    /\ TypeOK
    /\ PendingIsUnlocked
    /\ \A id \in JobIds : SeedRule(current[id])

LEMMA SeedInit == Init => SeedInv
<1> SUFFICES ASSUME Init PROVE SeedInv
  OBVIOUS
<1>1. \A id \in JobIds : current[id].attempt = 0 /\ state[id] = "Created"
  BY DEF Init, NoAttempt
<1> QED
  BY <1>1, TypeInit DEF SeedInv, PendingIsUnlocked, SeedRule

(* What a finalized round says is never revised. *)
LEMMA BeaconGrows ==
    ASSUME TypeOK, NEW secure \in BOOLEAN, beacon' = Append(beacon, secure),
           NEW round \in Nat, RoundFinalized(round)
    PROVE  RoundFinalized(round)' /\ (RoundSecure(round)' <=> RoundSecure(round))
<1>1. beacon \in Seq(BOOLEAN) /\ Len(beacon) \in Nat
  BY DEF TypeOK
<1>2. Len(beacon') = Len(beacon) + 1 /\ \A i \in 1..Len(beacon) : beacon'[i] = beacon[i]
  BY <1>1
<1>3. round + 1 \in 1..Len(beacon)
  BY <1>1 DEF RoundFinalized
<1> QED
  BY <1>1, <1>2, <1>3 DEF RoundFinalized, RoundSecure

LEMMA SeedFinalize ==
    ASSUME SeedInv, TypeOK', FinalizeRound
    PROVE  SeedInv'
<1>1. UNCHANGED <<state, current>>
  BY DEF FinalizeRound, storage
<1>2. PICK secure \in BOOLEAN : beacon' = Append(beacon, secure)
  BY DEF FinalizeRound
<1>3. ASSUME NEW id \in JobIds PROVE SeedRule(current[id])'
  <2> DEFINE c == current[id]
  <2>1. c \in AttemptState /\ SeedRule(c) /\ TypeOK
    BY DEF SeedInv, TypeOK
  <2>2. c.artifactBlock \in Nat /\ c.targetRound \in Nat /\ c.randomRound \in Nat
    BY <2>1 DEF AttemptState
  <2>3. VotingRound(c.artifactBlock) \in Nat /\ VotingRound(c.artifactBlock)' = VotingRound(c'.artifactBlock)
    BY <2>2, VotingRoundType DEF VotingRound
  <2>4. \A round \in VotingRound(c.artifactBlock) + 1 .. c.targetRound - 1 : round \in Nat
    BY <2>2, <2>3
  <2>5. c' = c
    BY <1>1
  <2> HIDE DEF c
  <2>6. SeedRule(c)'
    BY <1>2, <2>1, <2>2, <2>3, <2>4, <2>5, BeaconGrows DEF SeedRule
  <2> QED
    BY <2>6 DEF c
<1> QED
  BY <1>1, <1>3 DEF SeedInv, PendingIsUnlocked

(* A step that leaves the beacon alone keeps the rule for an attempt whose *)
(* number, artifact block and rounds it leaves alone.                      *)
LEMMA SeedQuietStep ==
    ASSUME SeedInv, TypeOK', NEW id \in JobIds, UNCHANGED beacon,
           \A k \in JobIds \ {id} : state'[k] = state[k] /\ current'[k] = current[k],
           SeedRule(current[id])',
           state'[id] = "RandomnessPending" => ~current'[id].randomLocked
    PROVE  SeedInv'
<1>1. ASSUME NEW k \in JobIds PROVE SeedRule(current[k])'
  <2>1. CASE k = id
    BY <2>1
  <2>2. CASE k # id
    BY <2>2 DEF SeedInv, SeedRule, VotingRound, RoundFinalized, RoundSecure
  <2> QED
    BY <2>1, <2>2
<1> QED
  BY <1>1 DEF SeedInv, PendingIsUnlocked

LEMMA SameSeed ==
    ASSUME SeedInv, NEW id \in JobIds, UNCHANGED beacon,
           current'[id].attempt = current[id].attempt,
           current'[id].artifactBlock = current[id].artifactBlock,
           current'[id].targetRound = current[id].targetRound,
           current'[id].randomRound = current[id].randomRound,
           current'[id].randomLocked = current[id].randomLocked
    PROVE  SeedRule(current[id])'
BY DEF SeedInv, SeedRule, VotingRound, RoundFinalized, RoundSecure

LEMMA SeedSubmit ==
    ASSUME SeedInv, TypeOK', NEW sender \in Address, NEW id \in JobIds, NEW artifact \in Artifacts,
           submitAttempt(sender, id, artifact)
    PROVE  SeedInv'
<1>1. TypeOK /\ now \in Nat /\ VotingRound(now) \in Nat
  <2>1. TypeOK /\ now \in Nat
    BY BoundAssumption DEF SeedInv, TypeOK
  <2> QED
    BY <2>1, VotingRoundType
<1>2. /\ UNCHANGED beacon
      /\ \A k \in JobIds \ {id} : state'[k] = state[k] /\ current'[k] = current[k]
  BY <1>1 DEF submitAttempt, TypeOK, chain
<1>3. /\ current'[id].artifactBlock = now
      /\ current'[id].targetRound = VotingRound(now) + 1
      /\ current'[id].randomLocked = FALSE
  BY <1>1 DEF submitAttempt, TypeOK, NoAttempt
<1>4. VotingRound(current[id].artifactBlock)' = VotingRound(now)
  BY <1>3 DEF VotingRound
<1>5. SeedRule(current[id])'
  BY <1>1, <1>3, <1>4 DEF SeedRule
<1> QED
  BY <1>2, <1>3, <1>5, SeedQuietStep

(* An attempt once lockRandomness has found its round secure. *)
Locked(c, round) == [c EXCEPT !.randomRound = round, !.randomLocked = TRUE]

LEMMA LockedFields ==
    ASSUME NEW c \in AttemptState, NEW round
    PROVE  /\ Locked(c, round).attempt = c.attempt
           /\ Locked(c, round).artifactBlock = c.artifactBlock
           /\ Locked(c, round).targetRound = c.targetRound
           /\ Locked(c, round).randomRound = round
<1> DEFINE lock(b) == [c EXCEPT !.randomRound = round, !.randomLocked = b]
<1>1. ASSUME NEW b
      PROVE  /\ lock(b).attempt = c.attempt /\ lock(b).artifactBlock = c.artifactBlock
             /\ lock(b).targetRound = c.targetRound /\ lock(b).randomRound = round
  BY DEF AttemptState
<1>2. Locked(c, round) = lock(TRUE)
  BY DEF Locked
<1> HIDE DEF lock
<1> QED
  BY <1>1, <1>2, Zenon

LEMMA SeedLock ==
    ASSUME SeedInv, TypeOK', NEW id \in JobIds, lockRandomness(id)
    PROVE  SeedInv'
<1> DEFINE c == current[id]
           d == current'[id]
           target == current[id].targetRound
<1>1. /\ TypeOK /\ c \in AttemptState /\ target \in Nat /\ SeedRule(c)
      /\ VotingRound(c.artifactBlock) \in Nat
  <2>1. TypeOK /\ c \in AttemptState
    BY DEF SeedInv, TypeOK
  <2>2. target \in Nat /\ c.artifactBlock \in Nat
    BY <2>1 DEF AttemptState
  <2> QED
    BY <2>1, <2>2, VotingRoundType DEF SeedInv
<1>2. /\ state[id] = "RandomnessPending" /\ RoundFinalized(target) /\ UNCHANGED beacon
      /\ \A k \in JobIds \ {id} : state'[k] = state[k] /\ current'[k] = current[k]
  BY <1>1 DEF lockRandomness, TypeOK, chain
<1>3. ~c.randomLocked
  BY <1>2 DEF SeedInv, PendingIsUnlocked
<1>4. CASE RoundSecure(target)
  <2>1. /\ state'[id] = "ReadyToVerify"
        /\ current' = [current EXCEPT ![id] = [c EXCEPT !.randomRound = target, !.randomLocked = TRUE]]
    BY <1>1, <1>4 DEF lockRandomness, TypeOK
  <2>2. d = Locked(c, target)
    BY <1>1, <2>1 DEF TypeOK, Locked
  <2>3. /\ d.attempt = c.attempt /\ d.artifactBlock = c.artifactBlock
        /\ d.targetRound = target /\ d.randomRound = target
    BY <1>1, <2>2, LockedFields
  <2>4. SeedRule(current[id])'
    <3>1. VotingRound(current[id].artifactBlock)' = VotingRound(c.artifactBlock)
      BY <2>3 DEF VotingRound
    <3> QED
      BY <1>1, <1>2, <1>4, <2>3, <3>1 DEF SeedRule, RoundFinalized, RoundSecure
  <2> QED
    BY <1>2, <2>1, <2>4, SeedQuietStep
<1>5. CASE ~RoundSecure(target)
  <2>1. current' = [current EXCEPT ![id] = [c EXCEPT !.targetRound = target + 1]]
    BY <1>1, <1>5 DEF lockRandomness, TypeOK
  <2>2. d = [c EXCEPT !.targetRound = target + 1]
    BY <1>1, <2>1 DEF TypeOK
  <2>3. /\ d.attempt = c.attempt /\ d.artifactBlock = c.artifactBlock
        /\ d.targetRound = target + 1
    BY <1>1, <2>2 DEF AttemptState
  <2>4. ~d.randomLocked
    BY <1>1, <1>3, <2>2 DEF AttemptState
  <2>5. SeedRule(current[id])'
    <3>1. VotingRound(current[id].artifactBlock)' = VotingRound(c.artifactBlock)
      BY <2>3 DEF VotingRound
    <3>2. \A round \in VotingRound(c.artifactBlock) + 1 .. target :
             round \in VotingRound(c.artifactBlock) + 1 .. target - 1 \/ round = target
      BY <1>1
    <3>3. c.attempt > 0 => \A round \in VotingRound(c.artifactBlock) + 1 .. target :
             RoundFinalized(round) /\ ~RoundSecure(round)
      BY <1>1, <1>2, <1>5, <3>2 DEF SeedRule
    <3>4. target + 1 - 1 = target /\ (c.attempt > 0 => target + 1 > VotingRound(c.artifactBlock))
      BY <1>1 DEF SeedRule
    <3>5. ASSUME c.attempt > 0,
                 NEW round \in VotingRound(c.artifactBlock) + 1 .. target
          PROVE  RoundFinalized(round)' /\ ~RoundSecure(round)'
      BY <1>2, <3>3, <3>5 DEF RoundFinalized, RoundSecure
    <3>6. d.targetRound - 1 = target
      BY <1>1, <2>3
    <3>7. d.attempt > 0 => \A round \in VotingRound(c.artifactBlock) + 1 .. d.targetRound - 1 :
             RoundFinalized(round)' /\ ~RoundSecure(round)'
      BY <2>3, <3>5, <3>6, Zenon
    <3>8. d.attempt > 0 => d.targetRound > VotingRound(c.artifactBlock)
      BY <2>3, <3>4
    <3> QED
      BY <2>4, <3>1, <3>7, <3>8, Zenon DEF SeedRule
  <2> QED
    BY <1>2, <2>4, <2>5, SeedQuietStep
<1> QED
  BY <1>4, <1>5

LEMMA SeedJobStep ==
    ASSUME SeedInv, TypeOK', NEW id \in JobIds, JobStep(id)
    PROVE  SeedInv'
<1> DEFINE others == /\ UNCHANGED beacon
                     /\ \A k \in JobIds \ {id} : state'[k] = state[k] /\ current'[k] = current[k]
                     /\ state'[id] # "RandomnessPending"
<1>1. TypeOK /\ current[id] \in AttemptState
  BY DEF SeedInv, TypeOK
<1>2. ASSUME others, UNCHANGED current PROVE SeedInv'
  BY <1>2, SameSeed, SeedQuietStep
<1>3. ASSUME NEW sender \in Address, acceptJob(sender, id) PROVE SeedInv'
  <2>1. others /\ UNCHANGED current
    BY <1>1, <1>3 DEF acceptJob, TypeOK, chain
  <2> QED
    BY <1>2, <2>1
<1>4. ASSUME NEW new \in {"Cancelled", "Refunded"}, ReturnToClient(id, new) PROVE SeedInv'
  <2>1. others /\ UNCHANGED current
    BY <1>1, <1>4 DEF ReturnToClient, TypeOK, chain
  <2> QED
    BY <1>2, <2>1
<1>5. CASE Settle(id)
  <2>1. PICK r : settleAttempt(id, r)
    BY <1>5, SettleDelivers
  <2>2. others /\ UNCHANGED current
    BY <1>1, <2>1 DEF settleAttempt, AfterNoPay, TypeOK, chain
  <2> QED
    BY <1>2, <2>2
<1>6. ASSUME NEW i, NEW t, NEW e, others,
             current' = [current EXCEPT ![id] = [current[id] EXCEPT !.instructionId = i,
                                                   !.dispatchedAt = t, !.timeoutAt = e]]
      PROVE  SeedInv'
  <2>1. current'[id] = [current[id] EXCEPT !.instructionId = i, !.dispatchedAt = t, !.timeoutAt = e]
    BY <1>1, <1>6 DEF TypeOK
  <2>2. /\ current'[id].attempt = current[id].attempt
        /\ current'[id].artifactBlock = current[id].artifactBlock
        /\ current'[id].targetRound = current[id].targetRound
        /\ current'[id].randomRound = current[id].randomRound
        /\ current'[id].randomLocked = current[id].randomLocked
    BY <1>1, <2>1 DEF AttemptState
  <2> QED
    BY <1>6, <2>2, SameSeed, SeedQuietStep
<1>7. CASE dispatchVerification(id)
  <2>1. others
    BY <1>1, <1>7 DEF dispatchVerification, TypeOK, chain
  <2> QED
    BY <1>6, <1>7, <2>1 DEF dispatchVerification
<1>8. CASE expireVerification(id)
  <2>1. others
    BY <1>1, <1>8 DEF expireVerification, TypeOK, chain
  <2> QED
    BY <1>6, <1>8, <2>1 DEF expireVerification
<1> QED
  BY <1>3, <1>4, <1>5, <1>7, <1>8, SeedSubmit, SeedLock
  DEF JobStep, PartyStep, cancelUnaccepted, refundExpired

LEMMA SeedStep == SeedInv /\ [Next]_vars => SeedInv'
<1> SUFFICES ASSUME SeedInv, [Next]_vars PROVE SeedInv'
  OBVIOUS
<1>1. TypeOK /\ TypeOK'
  BY TypeStep DEF SeedInv
<1>2. ASSUME UNCHANGED <<beacon, current, state>> PROVE SeedInv'
  BY <1>1, <1>2 DEF SeedInv, PendingIsUnlocked, SeedRule, VotingRound, RoundFinalized, RoundSecure
<1>3. CASE Create
  <2>0. PICK sender \in Clients, contractor \in Contractors, tee \in Tees, principal \in Principals,
             s \in Schedules, commitment \in Commitments :
             createJob(sender, contractor, tee, principal, s, commitment)
    BY <1>3 DEF Create
  <2>1. PICK id \in JobIds : /\ UNCHANGED <<beacon, current>>
                             /\ state' = [state EXCEPT ![id] = "Created"]
    BY <2>0 DEF createJob, chain
  <2>2. /\ \A k \in JobIds \ {id} : state'[k] = state[k] /\ current'[k] = current[k]
        /\ state'[id] = "Created"
    BY <1>1, <2>1 DEF TypeOK
  <2>3. SeedRule(current[id])'
    BY <2>1, SameSeed
  <2> QED
    BY <1>1, <2>1, <2>2, <2>3, SeedQuietStep
<1>4. ASSUME NEW id \in JobIds, JobStep(id) PROVE SeedInv'
  BY <1>1, <1>4, SeedJobStep
<1>5. CASE Environment
  BY <1>1, <1>2, <1>5, SeedFinalize DEF Environment, Tick, ChangeTeeStatus, ChangeCode, storage
<1>6. CASE Administer \/ UNCHANGED vars
  BY <1>2, <1>6 DEF Administer, vars, storage, chain
<1> QED
  BY <1>3, <1>4, <1>5, <1>6 DEF Next

(* submitAttempt and lockRandomness: whichever rounds the beacon marks     *)
(* insecure and whoever calls lockRandomness when, an attempt's seed round *)
(* is the first secure one after its submission.                           *)
THEOREM SeedCannotBeChosen == Spec => []SeedIsFirstSecureRoundAfterSubmission
<1>1. SeedInv => SeedIsFirstSecureRoundAfterSubmission
  BY DEF SeedInv, SeedRule, SeedIsFirstSecureRoundAfterSubmission
<1> QED
  BY <1>1, SeedInit, SeedStep, PTL DEF Spec
-----------------------------------------------------------------------------
(***************************************************************************)
(* The escrow implements IdealEscrow: every transaction is a step of the   *)
(* ideal deal or a stutter.  The invariant LedgerInv supplies what the     *)
(* mapping needs of the state before the step.                             *)
(***************************************************************************)

LEMMA DealType ==
    ASSUME NEW id
    PROVE  /\ ~Exists(id) => Deal(id) = "none"
           /\ Exists(id) /\ state[id] = "Paid" => Deal(id) = "paid"
           /\ Exists(id) /\ state[id] \in {"Cancelled", "Refunded"} => Deal(id) = "returned"
           /\ Exists(id) /\ state[id] = "Created" => Deal(id) = "offered"
           /\ Exists(id) /\ state[id] \notin {"Paid", "Cancelled", "Refunded", "Created"}
                => Deal(id) = "engaged"
BY DEF Deal

LEMMA RefinesInit == Init => Ideal!IdealInit
<1> SUFFICES ASSUME Init PROVE Ideal!IdealInit
  OBVIOUS
<1>1. \A id \in JobIds : ~Exists(id)
  BY DEF Init, Exists, JobIds
<1>2. \A id \in JobIds : Deal(id) = "none"
  BY <1>1, DealType
<1>3. \A id \in JobIds : terms[id].principal = 0 /\ terms[id].fee = 0 /\ terms[id].graceEnds = 0
  BY DEF Init, NoTerms
<1> QED
  BY <1>2, <1>3 DEF Init, Ideal!IdealInit, Ideal!Nothing

LEMMA RefinesCreate ==
    ASSUME LedgerInv, LedgerInv', NEW sender \in Clients, NEW contractor \in Contractors,
           NEW tee \in Tees, NEW principal \in Principals, NEW s \in Schedules,
           NEW commitment \in Commitments,
           createJob(sender, contractor, tee, principal, s, commitment)
    PROVE  Ideal!IdealNext
<1>1. TypeOK /\ TypeOK'
  BY DEF LedgerInv
<1>2. PICK id \in JobIds : id = nextJobId
  BY DEF createJob
<1>3. /\ nextJobId' = id + 1 /\ id \in Nat
      /\ UNCHANGED <<released, now>>
      /\ now < s.acceptBy /\ s.acceptBy < s.submitBy /\ s.submitBy < s.graceEnds
  BY <1>2 DEF createJob, ValidTerms, history, chain, JobIds
<1>4. /\ \A k \in JobIds \ {id} : terms'[k] = terms[k] /\ state'[k] = state[k]
      /\ state'[id] = "Created" /\ terms'[id].graceEnds = s.graceEnds
  BY <1>1, <1>2 DEF createJob, TypeOK
<1>5. ~Exists(id) /\ \A k \in JobIds : Exists(k)' <=> (Exists(k) \/ k = id)
  BY <1>2, <1>3 DEF Exists, JobIds
<1>6. Deal(id) = "none" /\ Deal(id)' = "offered"
  BY <1>4, <1>5, DealType DEF Deal
<1>7. \A k \in JobIds \ {id} : Deal(k)' = Deal(k)
  BY <1>4, <1>5 DEF Deal
<1>8. /\ terms'[id].principal \in Nat /\ terms'[id].fee \in Nat /\ terms'[id].graceEnds \in Nat
      /\ s.acceptBy \in Nat /\ s.submitBy \in Nat /\ s.graceEnds \in Nat /\ now \in Nat
  <2>1. terms'[id] \in JobTerms /\ now \in Nat
    BY <1>1, BoundAssumption DEF TypeOK
  <2>2. s \in Schedule
    BY InputAssumption
  <2> QED
    BY <2>1, <2>2 DEF JobTerms, Schedule
<1>9. now < terms'[id].graceEnds
  BY <1>3, <1>4, <1>8
<1>10. Ideal!Offer(id)
  BY <1>3, <1>4, <1>6, <1>7, <1>8, <1>9 DEF Ideal!Offer
<1> QED
  BY <1>10 DEF Ideal!IdealNext

(* A step after which every deal looks as before. *)
LEMMA RefinesStutter ==
    ASSUME UNCHANGED <<now, released, terms>>, \A k \in JobIds : Deal(k)' = Deal(k)
    PROVE  UNCHANGED Ideal!idealVars
BY DEF Ideal!idealVars

(* A transaction that moves one engaged job between unsettled states. *)
LEMMA RefinesQuietStep ==
    ASSUME NEW id \in JobIds, Exists(id),
           state[id] \notin {"Created", "Paid", "Cancelled", "Refunded"},
           state'[id] \notin {"Created", "Paid", "Cancelled", "Refunded"},
           \A k \in JobIds \ {id} : state'[k] = state[k],
           UNCHANGED <<nextJobId, terms, now, released>>
    PROVE  UNCHANGED Ideal!idealVars
<1>1. \A k \in JobIds : Exists(k)' <=> Exists(k)
  BY DEF Exists
<1>2. Deal(id) = "engaged" /\ Deal(id)' = "engaged"
  BY <1>1, DealType DEF Deal
<1>3. \A k \in JobIds \ {id} : Deal(k)' = Deal(k)
  BY <1>1 DEF Deal
<1> QED
  BY <1>2, <1>3, RefinesStutter

LEMMA RefinesReturn ==
    ASSUME LedgerInv, LedgerInv', NEW id \in JobIds, NEW new \in {"Cancelled", "Refunded"},
           ~settled[id], ReturnToClient(id, new), state[id] = "Created" \/ now > terms[id].graceEnds
    PROVE  Ideal!IdealNext
<1>1. TypeOK /\ TypeOK' /\ Exists(id)
  BY ReturnExists DEF LedgerInv, State
<1>2. UNCHANGED <<nextJobId, terms, now>>
  BY DEF ReturnToClient, chain
<1>3. /\ state'[id] = new
      /\ \A k \in JobIds \ {id} : state'[k] = state[k] /\ released'[k] = released[k]
  BY <1>1 DEF ReturnToClient, TypeOK
<1>4. released'[id] = [contractor |-> 0, client |-> terms[id].principal + terms[id].fee,
                       treasury |-> 0]
  BY <1>2, <1>3 DEF LedgerInv, PaysOutExactlyOnce
<1>5. \A k \in JobIds : Exists(k)' <=> Exists(k)
  BY <1>2 DEF Exists
<1>6. state[id] \notin {"Paid", "Cancelled", "Refunded"}
  BY DEF LedgerInv, PaysOutExactlyOnce
<1>7. Deal(id) = "offered" \/ (Deal(id) = "engaged" /\ now > terms[id].graceEnds)
  BY <1>1, <1>6, DealType
<1>8. Deal(id)' = "returned"
  BY <1>1, <1>3, <1>5 DEF Deal
<1>9. \A k \in JobIds \ {id} : Deal(k)' = Deal(k)
  BY <1>3, <1>5 DEF Deal
<1>10. released' = [released EXCEPT ![id] =
          [contractor |-> 0, client |-> terms[id].principal + terms[id].fee, treasury |-> 0]]
  BY <1>1, <1>3, <1>4 DEF TypeOK
<1>11. Ideal!GiveBack(id)
  BY <1>2, <1>7, <1>8, <1>9, <1>10 DEF Ideal!GiveBack
<1> QED
  BY <1>11 DEF Ideal!IdealNext

LEMMA RefinesSettle ==
    ASSUME LedgerInv, LedgerInv', NEW id \in JobIds, NEW r, settleAttempt(id, r)
    PROVE  Ideal!IdealNext \/ UNCHANGED Ideal!idealVars
<1>1. TypeOK /\ TypeOK'
  BY DEF LedgerInv
<1>2. /\ state[id] = "Verifying" /\ now <= terms[id].graceEnds
      /\ UNCHANGED <<nextJobId, terms, now>>
  BY DEF settleAttempt, chain
<1>3. Exists(id) /\ \A k \in JobIds : Exists(k)' <=> Exists(k)
  BY <1>2 DEF LedgerInv, NeverCreated, Exists
<1>4. \A k \in JobIds \ {id} : state'[k] = state[k]
  BY <1>1 DEF settleAttempt, TypeOK
<1>5. CASE r.outcome # "Pass"
  <2>1. state'[id] = AfterNoPay(id, r.outcome) /\ UNCHANGED released
    BY <1>1, <1>5 DEF settleAttempt, TypeOK
  <2>2. state'[id] \notin {"Created", "Paid", "Cancelled", "Refunded"}
    BY <2>1 DEF AfterNoPay
  <2> QED
    BY <1>2, <1>3, <1>4, <2>1, <2>2, RefinesQuietStep
<1>6. CASE r.outcome = "Pass"
  <2>1. /\ state'[id] = "Paid"
        /\ \A k \in JobIds \ {id} : released'[k] = released[k]
    BY <1>1, <1>6 DEF settleAttempt, PayContractor, TypeOK
  <2>2. released'[id] = [contractor |-> terms[id].principal, client |-> 0,
                         treasury |-> terms[id].fee]
    BY <1>2, <2>1 DEF LedgerInv, PaysOutExactlyOnce
  <2>3. released' = [released EXCEPT ![id] =
           [contractor |-> terms[id].principal, client |-> 0, treasury |-> terms[id].fee]]
    BY <1>1, <2>1, <2>2 DEF TypeOK
  <2>4. Deal(id) = "engaged"
    BY <1>2, <1>3, DealType
  <2>5. Deal(id)' = "paid"
    BY <1>3, <2>1 DEF Deal
  <2>6. \A k \in JobIds \ {id} : Deal(k)' = Deal(k)
    BY <1>3, <1>4 DEF Deal
  <2>7. Ideal!PayOut(id)
    BY <1>2, <2>3, <2>4, <2>5, <2>6 DEF Ideal!PayOut
  <2> QED
    BY <2>7 DEF Ideal!IdealNext
<1> QED
  BY <1>5, <1>6

LEMMA RefinesAccept ==
    ASSUME LedgerInv, NEW sender \in Address, NEW id \in JobIds, acceptJob(sender, id)
    PROVE  Ideal!IdealNext
<1>1. TypeOK
  BY DEF LedgerInv
<1>2. /\ state[id] = "Created" /\ terms[id].contractor \in Address
      /\ now <= terms[id].acceptBy
      /\ UNCHANGED <<nextJobId, terms, now, released>>
  BY DEF acceptJob, chain, history
<1>3. /\ state'[id] = "Accepted"
      /\ \A k \in JobIds \ {id} : state'[k] = state[k]
  BY <1>1 DEF acceptJob, TypeOK
<1>4. Exists(id) /\ \A k \in JobIds : Exists(k)' <=> Exists(k)
  BY <1>2, AddressAssumption DEF LedgerInv, NeverCreated, NoTerms, Exists
<1>5. now < terms[id].graceEnds
  <2>1. terms[id].acceptBy < terms[id].submitBy /\ terms[id].submitBy < terms[id].graceEnds
    BY <1>4 DEF LedgerInv, PartiesKnown
  <2>2. terms[id] \in JobTerms /\ now \in Nat
    BY <1>1, BoundAssumption DEF TypeOK
  <2> QED
    BY <1>2, <2>1, <2>2 DEF JobTerms
<1>6. Deal(id) = "offered"
  BY <1>2, <1>4, DealType
<1>7. Deal(id)' = "engaged"
  BY <1>3, <1>4 DEF Deal
<1>8. \A k \in JobIds \ {id} : Deal(k)' = Deal(k)
  BY <1>3, <1>4 DEF Deal
<1>9. Ideal!Engage(id)
  BY <1>2, <1>5, <1>6, <1>7, <1>8 DEF Ideal!Engage
<1> QED
  BY <1>9 DEF Ideal!IdealNext

LEMMA RefinesJobStep ==
    ASSUME LedgerInv, LedgerInv', NEW id \in JobIds, JobStep(id)
    PROVE  Ideal!IdealNext \/ UNCHANGED Ideal!idealVars
<1>1. TypeOK
  BY DEF LedgerInv
<1> DEFINE quiet == /\ state[id] \notin {"Created", "Paid", "Cancelled", "Refunded"}
                    /\ state'[id] \notin {"Created", "Paid", "Cancelled", "Refunded"}
                    /\ \A k \in JobIds \ {id} : state'[k] = state[k]
                    /\ UNCHANGED <<nextJobId, terms, now, released>>
<1>2. ASSUME quiet PROVE UNCHANGED Ideal!idealVars
  <2>1. Exists(id)
    BY <1>2 DEF LedgerInv, NeverCreated
  <2> QED
    BY <1>2, <2>1, RefinesQuietStep
<1>3. ASSUME NEW sender \in Address, cancelUnaccepted(sender, id) PROVE Ideal!IdealNext
  <2>1. ~settled[id] /\ ReturnToClient(id, "Cancelled") /\ state[id] = "Created"
    BY <1>3 DEF cancelUnaccepted, LedgerInv, PaysOutExactlyOnce
  <2> QED
    BY <2>1, RefinesReturn
<1>4. ASSUME NEW sender \in Address, NEW artifact \in Artifacts, submitAttempt(sender, id, artifact)
      PROVE quiet
  BY <1>1, <1>4 DEF submitAttempt, TypeOK, chain, history
<1>5. CASE lockRandomness(id)
  <2>1. quiet
    BY <1>1, <1>5 DEF lockRandomness, TypeOK, chain, history
  <2> QED
    BY <1>2, <2>1
<1>6. CASE dispatchVerification(id)
  <2>1. quiet
    BY <1>1, <1>6 DEF dispatchVerification, TypeOK, chain, history
  <2> QED
    BY <1>2, <2>1
<1>7. CASE expireVerification(id)
  <2>1. quiet
    BY <1>1, <1>7 DEF expireVerification, TypeOK, chain, history
  <2> QED
    BY <1>2, <2>1
<1>8. CASE Settle(id)
  BY <1>8, SettleDelivers, RefinesSettle
<1>9. CASE refundExpired(id)
  BY <1>9, RefinesReturn DEF refundExpired
<1> HIDE DEF quiet
<1> QED
  BY <1>2, <1>3, <1>4, <1>5, <1>6, <1>7, <1>8, <1>9, RefinesAccept DEF JobStep, PartyStep

LEMMA RefinesStep ==
    LedgerInv /\ LedgerInv' /\ [Next]_vars => [Ideal!IdealNext]_(Ideal!idealVars)
<1> SUFFICES ASSUME LedgerInv, LedgerInv', [Next]_vars
             PROVE  Ideal!IdealNext \/ UNCHANGED Ideal!idealVars
  OBVIOUS
<1>1. ASSUME UNCHANGED <<nextJobId, terms, state, released, now>>
      PROVE  UNCHANGED Ideal!idealVars
  <2>1. \A k \in JobIds : Deal(k)' = Deal(k)
    BY <1>1 DEF Deal, Exists
  <2> QED
    BY <1>1, <2>1, RefinesStutter
<1>2. CASE Administer
  BY <1>1, <1>2 DEF Administer, storage, history, chain
<1>3. CASE Create
  BY <1>3, RefinesCreate DEF Create
<1>4. ASSUME NEW id \in JobIds, JobStep(id) PROVE Ideal!IdealNext \/ UNCHANGED Ideal!idealVars
  BY <1>4, RefinesJobStep
<1>5. CASE Tick
  <2>1. now' = now + 1 /\ UNCHANGED <<nextJobId, terms, state, released>>
    BY <1>5 DEF Tick, storage, history
  <2>2. \A k \in JobIds : Deal(k)' = Deal(k)
    BY <2>1 DEF Deal, Exists
  <2>3. Ideal!Pass
    BY <2>1, <2>2 DEF Ideal!Pass
  <2> QED
    BY <2>3 DEF Ideal!IdealNext
<1>6. CASE Environment /\ ~Tick
  BY <1>1, <1>6 DEF Environment, FinalizeRound, ChangeTeeStatus, ChangeCode, storage, history
<1>7. CASE UNCHANGED vars
  BY <1>1, <1>7 DEF vars, storage, history, chain
<1> QED
  BY <1>2, <1>3, <1>4, <1>5, <1>6, <1>7 DEF Next

(* The contract keeps the promise of IdealEscrow to both parties of every  *)
(* job: one payout, in full, to the contractor only while engaged and in   *)
(* time, to the client only before engagement or after the deadline.       *)
THEOREM EscrowImplementsIdeal == Spec => ImplementsIdealEscrow
<1>1. Spec => Ideal!IdealInit /\ [][Ideal!IdealNext]_(Ideal!idealVars)
  BY RefinesInit, RefinesStep, LedgerInvariant, PTL DEF Spec
<1> QED
  BY <1>1, PTL DEF ImplementsIdealEscrow, Ideal!IdealSpec
-----------------------------------------------------------------------------
(* Verdicts the contract can take.                                         *)

(* A time at which a verdict on the instruction can have been issued.      *)
Timely(instr, time) ==
    /\ time <= now
    /\ state[instr.jobId] = "Verifying" /\ instr.instructionId = current[instr.jobId].instructionId
          => current[instr.jobId].dispatchedAt <= time

Countable(result) ==
    /\ result.executed # 0 /\ result.passed <= result.executed
    /\ (result.outcome = "Pass") <=> (result.passed = result.executed)

(* An id names one instruction: a job that is being verified waits for the *)
(* one that was made of its terms and its attempt.                         *)
Awaited ==
    \A id \in JobIds : state[id] = "Verifying" =>
       /\ current[id].instructionId # 0 /\ current[id].instructionId <= nonce
       /\ current[id].dispatchedAt <= now /\ current[id].timeoutAt <= terms[id].graceEnds
       /\ \A i \in sent : i.instructionId = current[id].instructionId
                             => i = InstructionFor(id, current[id].instructionId)

(* The code of an open attempt stays where nothing is redeployed. *)
DeployedAsSubmitted ==
    \A id \in JobIds :
       state[id] \in Open /\ current[id].artifactAddress \notin Redeployable
          => /\ current[id].artifactAddress \in Artifacts
             /\ code[current[id].artifactAddress] = current[id].artifactCodeHash

BindingInv == Awaited /\ DeployedAsSubmitted

LEMMA BindingInit == Init => BindingInv
BY DEF Init, BindingInv, Awaited, DeployedAsSubmitted, Open

(* Any step on the escrow, whoever takes it and whatever is delivered. *)
EscrowMove ==
    \/ Administer \/ Environment \/ UNCHANGED vars
    \/ \E sender, contractor, tee, principal, s, commitment :
          createJob(sender, contractor, tee, principal, s, commitment)
    \/ \E id \in JobIds : PartyStep(id) \/ \E r : settleAttempt(id, r)

(* What a step does to the verification of a job. *)
KeepsWaiting(id) ==
    \/ state'[id] # "Verifying"
    \/ /\ state[id] = "Verifying"
       /\ state'[id] = state[id] /\ current'[id] = current[id] /\ terms'[id] = terms[id]
    \/ \E n \in Nat :
          /\ n = nonce + 1 /\ nonce' = n
          /\ current'[id].instructionId = n /\ current'[id].dispatchedAt = now'
          /\ current'[id].timeoutAt <= terms'[id].graceEnds
          /\ InstructionFor(id, n)' = InstructionFor(id, n)
          /\ sent' = sent \cup {InstructionFor(id, n)}

(* A step of a job that sends no instruction. *)
QuietStep(k) ==
    \/ \E sender \in Address : \/ acceptJob(sender, k) \/ cancelUnaccepted(sender, k)
                               \/ \E artifact \in Artifacts : submitAttempt(sender, k, artifact)
    \/ lockRandomness(k) \/ expireVerification(k) \/ refundExpired(k)
    \/ \E r : settleAttempt(k, r)

LEMMA MovesKeepWaiting ==
    ASSUME TypeOK, EscrowMove
    PROVE  /\ \A id \in JobIds : KeepsWaiting(id)
           /\ now' = now \/ now' = now + 1
           /\ \/ sent' = sent /\ nonce' = nonce
              \/ nonce' = nonce + 1 /\ \E i : i.instructionId = nonce + 1 /\ sent' = sent \cup {i}
<1>1. /\ state \in [JobIds -> State] /\ current \in [JobIds -> AttemptState] /\ terms \in [JobIds -> JobTerms]
      /\ now \in Nat /\ nonce \in Nat
  BY BoundAssumption DEF TypeOK
<1>2. CASE Administer \/ Environment \/ UNCHANGED vars
  <2>1. UNCHANGED <<state, current, terms, sent, nonce>> /\ (now' = now \/ now' = now + 1)
    BY <1>2 DEF Administer, Environment, Tick, FinalizeRound, ChangeTeeStatus, ChangeCode, vars, storage, chain,
                registry
  <2> QED
    BY <2>1 DEF KeepsWaiting
<1>3. CASE \E sender, contractor, tee, principal, s, commitment :
              createJob(sender, contractor, tee, principal, s, commitment)
  <2>1. PICK sender, contractor, tee, principal, s, commitment :
               createJob(sender, contractor, tee, principal, s, commitment)
    BY <1>3
  <2>2. /\ UNCHANGED <<current, sent, nonce, now>> /\ nextJobId \in JobIds
        /\ state' = [state EXCEPT ![nextJobId] = "Created"]
    BY <2>1 DEF createJob, chain, registry
  <2>3. \A id \in JobIds : id # nextJobId => terms'[id] = terms[id]
    BY <1>1, <2>1 DEF createJob
  <2>4. \A id \in JobIds : KeepsWaiting(id)
    BY <1>1, <2>2, <2>3 DEF KeepsWaiting
  <2> QED
    BY <2>2, <2>4
<1>4. ASSUME NEW k \in JobIds, QuietStep(k)
      PROVE  /\ \A id \in JobIds : KeepsWaiting(id)
             /\ UNCHANGED <<sent, nonce, now>>
  <2>1. UNCHANGED <<sent, nonce, now, terms>>
    BY <1>4 DEF QuietStep, acceptJob, cancelUnaccepted, refundExpired, ReturnToClient, submitAttempt, lockRandomness,
                expireVerification, settleAttempt, chain, registry
  <2>2. /\ state'[k] # "Verifying" \/ (state'[k] = state[k] /\ current'[k] = current[k])
        /\ \A id \in JobIds : id # k => state'[id] = state[id] /\ current'[id] = current[id]
    <3>1. CASE lockRandomness(k)
      <4>1. state[k] = "RandomnessPending" /\ (state' = state \/ state' = [state EXCEPT ![k] = "ReadyToVerify"])
        BY <3>1 DEF lockRandomness
      <4>2. \A id \in JobIds : id # k => current'[id] = current[id]
        BY <1>1, <3>1 DEF lockRandomness
      <4> QED
        BY <1>1, <4>1, <4>2
    <3>2. CASE \E r : settleAttempt(k, r)
      <4>1. PICK s : s # "Verifying" /\ state' = [state EXCEPT ![k] = s] /\ current' = current
        BY <3>2 DEF settleAttempt, AfterNoPay
      <4> QED
        BY <1>1, <4>1
    <3>3. CASE expireVerification(k) \/ refundExpired(k)
      BY <1>1, <3>3 DEF expireVerification, refundExpired, ReturnToClient
    <3>4. ASSUME NEW sender \in Address, \/ acceptJob(sender, k) \/ cancelUnaccepted(sender, k)
                                         \/ \E artifact \in Artifacts : submitAttempt(sender, k, artifact)
          PROVE  /\ state'[k] # "Verifying"
                 /\ \A id \in JobIds : id # k => state'[id] = state[id] /\ current'[id] = current[id]
      BY <1>1, <3>4 DEF acceptJob, cancelUnaccepted, ReturnToClient, submitAttempt
    <3> QED
      BY <1>4, <3>1, <3>2, <3>3, <3>4 DEF QuietStep
  <2> QED
    BY <2>1, <2>2 DEF KeepsWaiting
<1>5. ASSUME NEW k \in JobIds, dispatchVerification(k)
      PROVE  /\ \A id \in JobIds : KeepsWaiting(id)
             /\ now' = now /\ nonce' = nonce + 1 /\ sent' = sent \cup {InstructionFor(k, nonce + 1)}
  <2>1. PICK n \in Nat : n = nonce + 1
    BY <1>1
  <2>2. PICK a, t : /\ t = TimeoutAt(k)
                    /\ a = [current[k] EXCEPT !.instructionId = n, !.dispatchedAt = now, !.timeoutAt = t]
    OBVIOUS
  <2>3. /\ now' = now /\ nonce' = n /\ sent' = sent \cup {InstructionFor(k, n)}
        /\ state' = [state EXCEPT ![k] = "Verifying"] /\ terms' = terms
        /\ current' = [current EXCEPT ![k] = a]
    BY <1>1, <1>5, <2>1, <2>2 DEF dispatchVerification, chain
  <2>4. /\ a.instructionId = n /\ a.dispatchedAt = now /\ a.timeoutAt = t /\ a.attempt = current[k].attempt
        /\ a.artifactAddress = current[k].artifactAddress /\ a.artifactBlock = current[k].artifactBlock
        /\ a.artifactCodeHash = current[k].artifactCodeHash /\ a.randomRound = current[k].randomRound
    BY <1>1, <2>2 DEF AttemptState
  <2>5. /\ current'[k] = a /\ \A id \in JobIds : id # k => state'[id] = state[id] /\ current'[id] = current[id]
    BY <1>1, <2>3
  <2>6. InstructionFor(k, n)' = InstructionFor(k, n)
    BY <2>3, <2>4, <2>5 DEF InstructionFor
  <2>7. t <= terms'[k].graceEnds
    <3>1. terms[k].graceEnds \in Nat /\ terms[k].verificationTimeout \in Nat
      BY <1>1 DEF JobTerms
    <3> QED
      BY <1>1, <2>2, <2>3, <3>1 DEF TimeoutAt
  <2>8. ASSUME NEW id \in JobIds PROVE KeepsWaiting(id)
    <3>1. CASE id = k
      BY <2>1, <2>3, <2>4, <2>5, <2>6, <2>7, <3>1 DEF KeepsWaiting
    <3>2. CASE id # k
      BY <2>3, <2>5, <3>2 DEF KeepsWaiting
    <3> QED
      BY <3>1, <3>2
  <2> QED
    BY <2>1, <2>3, <2>8
<1>6. CASE \E k \in JobIds : PartyStep(k) \/ \E r : settleAttempt(k, r)
  <2>1. PICK k \in JobIds : PartyStep(k) \/ \E r : settleAttempt(k, r)
    BY <1>6
  <2>2. InstructionFor(k, nonce + 1).instructionId = nonce + 1
    BY DEF InstructionFor
  <2>3. CASE dispatchVerification(k)
    BY <1>5, <2>2, <2>3
  <2>4. CASE ~dispatchVerification(k)
    <3>1. QuietStep(k)
      BY <2>1, <2>4, Zenon DEF PartyStep, QuietStep
    <3>2. (\A id \in JobIds : KeepsWaiting(id)) /\ UNCHANGED <<sent, nonce, now>>
      BY <1>4, <3>1
    <3> QED
      BY <3>2
  <2> QED
    BY <2>3, <2>4
<1> QED
  BY <1>2, <1>3, <1>6 DEF EscrowMove

LEMMA TimelyStays ==
    ASSUME TypeOK, NewestInstruction, \A id \in JobIds : KeepsWaiting(id), now' = now \/ now' = now + 1,
           NEW i \in sent, NEW time \in Nat, Timely(i, time)
    PROVE  Timely(i, time)'
<1>1. i.jobId \in JobIds /\ i.instructionId \in Nat /\ i.instructionId <= nonce /\ nonce \in Nat /\ now \in Nat
  BY BoundAssumption DEF TypeOK, Instruction, NewestInstruction
<1>2. time <= now'
  BY <1>1 DEF Timely
<1>3. PICK id \in JobIds : id = i.jobId
  BY <1>1
<1>4. ASSUME state'[id] = "Verifying", i.instructionId = current'[id].instructionId
      PROVE  current'[id].dispatchedAt <= time
  <2>1. ~(\E n \in Nat : n = nonce + 1 /\ i.instructionId = n)
    BY <1>1
  <2>2. state[id] = "Verifying" /\ current'[id] = current[id]
    BY <1>4, <2>1 DEF KeepsWaiting
  <2> QED
    BY <1>3, <1>4, <2>2 DEF Timely
<1> QED
  BY <1>2, <1>3, <1>4 DEF Timely


LEMMA AwaitedStays ==
    ASSUME TypeOK, NewestInstruction, Awaited, EscrowMove
    PROVE  Awaited'
<1>1. /\ nonce \in Nat /\ now \in Nat
      /\ current \in [JobIds -> AttemptState] /\ terms \in [JobIds -> JobTerms]
  BY BoundAssumption DEF TypeOK
<1>2. /\ \A id \in JobIds : KeepsWaiting(id)
      /\ now' = now \/ now' = now + 1
      /\ \/ sent' = sent /\ nonce' = nonce
         \/ nonce' = nonce + 1 /\ \E i : i.instructionId = nonce + 1 /\ sent' = sent \cup {i}
  BY MovesKeepWaiting
<1>3. SUFFICES ASSUME NEW id \in JobIds, state'[id] = "Verifying"
               PROVE  /\ current'[id].instructionId # 0 /\ current'[id].instructionId <= nonce'
                      /\ current'[id].dispatchedAt <= now' /\ current'[id].timeoutAt <= terms'[id].graceEnds
                      /\ \A i \in sent' : i.instructionId = current'[id].instructionId
                                            => i = InstructionFor(id, current[id].instructionId)'
  BY DEF Awaited
<1>4. CASE state[id] = "Verifying" /\ current'[id] = current[id] /\ terms'[id] = terms[id]
  <2>1. PICK n \in Nat : n = current[id].instructionId
    BY <1>1 DEF AttemptState
  <2>2. /\ n # 0 /\ n <= nonce /\ current[id].dispatchedAt <= now /\ current[id].dispatchedAt \in Nat
        /\ current[id].timeoutAt <= terms[id].graceEnds
        /\ \A i \in sent : i.instructionId = n => i = InstructionFor(id, n)
    BY <1>1, <1>4, <2>1 DEF Awaited, AttemptState
  <2>3. InstructionFor(id, n)' = InstructionFor(id, n)
    BY <1>4 DEF InstructionFor
  <2>4. n <= nonce' /\ n # nonce + 1 /\ current[id].dispatchedAt <= now'
    BY <1>1, <1>2, <2>2
  <2>5. \A i \in sent' : i.instructionId = n => i = InstructionFor(id, n)'
    BY <1>2, <2>2, <2>3, <2>4
  <2>6. InstructionFor(id, current[id].instructionId)' = InstructionFor(id, n)'
    BY <1>4, <2>1 DEF InstructionFor
  <2> QED
    BY <1>4, <2>1, <2>2, <2>4, <2>5, <2>6
<1>5. ASSUME NEW n \in Nat, n = nonce + 1, nonce' = n,
             current'[id].instructionId = n, current'[id].dispatchedAt = now',
             current'[id].timeoutAt <= terms'[id].graceEnds,
             InstructionFor(id, n)' = InstructionFor(id, n),
             sent' = sent \cup {InstructionFor(id, n)}
      PROVE  /\ current'[id].instructionId # 0 /\ current'[id].instructionId <= nonce'
             /\ current'[id].dispatchedAt <= now' /\ current'[id].timeoutAt <= terms'[id].graceEnds
             /\ \A i \in sent' : i.instructionId = current'[id].instructionId
                                   => i = InstructionFor(id, current[id].instructionId)'
  <2>1. \A i \in sent : i.instructionId # n
    BY <1>1, <1>5 DEF NewestInstruction, TypeOK, Instruction
  <2>2. InstructionFor(id, current[id].instructionId)' = InstructionFor(id, n)'
    BY <1>5 DEF InstructionFor
  <2>3. now' \in Nat
    BY <1>1, <1>2
  <2> QED
    BY <1>1, <1>5, <2>1, <2>2, <2>3
<1> QED
  BY <1>2, <1>3, <1>4, <1>5 DEF KeepsWaiting

(* What a step does to the artifact of an open attempt: it stays, or it is *)
(* a new one, with the code it has now.                                    *)
KeepsArtifact(id) ==
    \/ state'[id] \notin Open
    \/ /\ state[id] \in Open
       /\ current'[id].artifactAddress = current[id].artifactAddress
       /\ current'[id].artifactCodeHash = current[id].artifactCodeHash
    \/ /\ current'[id].artifactAddress \in Artifacts
       /\ current'[id].artifactCodeHash = code[current'[id].artifactAddress]

LEMMA MovesKeepArtifact ==
    ASSUME TypeOK, EscrowMove
    PROVE  /\ \A id \in JobIds : KeepsArtifact(id)
           /\ \A artifact \in Artifacts \ Redeployable : code'[artifact] = code[artifact]
<1>1. /\ state \in [JobIds -> State] /\ current \in [JobIds -> AttemptState]
      /\ code \in [Artifacts -> CodeHashes \cup {NoCode}]
  BY DEF TypeOK
<1>2. CASE Administer \/ Environment \/ UNCHANGED vars
  <2>1. UNCHANGED <<state, current>>
    BY <1>2 DEF Administer, Environment, Tick, FinalizeRound, ChangeTeeStatus, ChangeCode, vars, storage
  <2>2. \A artifact \in Artifacts \ Redeployable : code'[artifact] = code[artifact]
    BY <1>1, <1>2 DEF Administer, Environment, Tick, FinalizeRound, ChangeTeeStatus, ChangeCode, vars, chain
  <2> QED
    BY <2>1, <2>2 DEF KeepsArtifact
<1>3. ASSUME NEW sender, NEW contractor, NEW tee, NEW principal, NEW s, NEW commitment,
             createJob(sender, contractor, tee, principal, s, commitment)
      PROVE  (\A id \in JobIds : KeepsArtifact(id)) /\ code' = code
  <2>1. /\ UNCHANGED <<current, code>> /\ state' = [state EXCEPT ![nextJobId] = "Created"]
    BY <1>3 DEF createJob, chain
  <2> QED
    BY <1>1, <2>1 DEF KeepsArtifact, Open
<1>4. ASSUME NEW k \in JobIds, PartyStep(k) \/ \E r : settleAttempt(k, r)
      PROVE  (\A id \in JobIds : KeepsArtifact(id)) /\ code' = code
  <2>1. ASSUME NEW a, current' = [current EXCEPT ![k] = a], NEW new, state' = [state EXCEPT ![k] = new], code' = code,
               \/ new \notin Open
               \/ /\ state[k] \in Open /\ a.artifactAddress = current[k].artifactAddress
                  /\ a.artifactCodeHash = current[k].artifactCodeHash
               \/ a.artifactAddress \in Artifacts /\ a.artifactCodeHash = code[a.artifactAddress]
        PROVE  (\A id \in JobIds : KeepsArtifact(id)) /\ code' = code
    <3>1. /\ current'[k] = a /\ state'[k] = new
          /\ \A id \in JobIds : id # k => current'[id] = current[id] /\ state'[id] = state[id]
      BY <1>1, <2>1
    <3> QED
      BY <2>1, <3>1 DEF KeepsArtifact
  <2>2. PICK c \in AttemptState : c = current[k]
    BY <1>1
  <2>3. current = [current EXCEPT ![k] = c] /\ state = [state EXCEPT ![k] = state[k]]
    BY <1>1, <2>2
  <2>4. ASSUME NEW new, state' = [state EXCEPT ![k] = new], new \notin Open, UNCHANGED <<current, code>>
        PROVE  (\A id \in JobIds : KeepsArtifact(id)) /\ code' = code
    BY <2>1, <2>3, <2>4
  <2>5. CASE \E sender \in Address : acceptJob(sender, k) \/ cancelUnaccepted(sender, k)
    BY <2>4, <2>5 DEF acceptJob, cancelUnaccepted, ReturnToClient, chain, Open
  <2>6. CASE refundExpired(k)
    BY <2>4, <2>6 DEF refundExpired, ReturnToClient, chain, Open
  <2>7. CASE \E r : settleAttempt(k, r)
    BY <2>4, <2>7 DEF settleAttempt, AfterNoPay, chain, Open
  <2>8. ASSUME NEW sender \in Address, NEW artifact \in Artifacts, submitAttempt(sender, k, artifact)
        PROVE  (\A id \in JobIds : KeepsArtifact(id)) /\ code' = code
    <3>1. PICK n, h, round : n = c.attempt + 1 /\ h = code[artifact] /\ round = VotingRound(now) + 1
      OBVIOUS
    <3>2. PICK a : a = [NoAttempt EXCEPT !.attempt = n, !.artifactAddress = artifact, !.artifactBlock = now,
                                         !.artifactCodeHash = h, !.targetRound = round]
      OBVIOUS
    <3>3. a.artifactAddress = artifact /\ a.artifactCodeHash = h
      BY <3>2 DEF NoAttempt
    <3>4. current' = [current EXCEPT ![k] = a] /\ state' = [state EXCEPT ![k] = "RandomnessPending"] /\ code' = code
      BY <2>2, <2>8, <3>1, <3>2 DEF submitAttempt, chain
    <3> QED
      BY <2>1, <3>1, <3>3, <3>4
  <2>9. CASE lockRandomness(k)
    <3>1. PICK a : a = current'[k]
      OBVIOUS
    <3>2. \/ a = [c EXCEPT !.randomRound = c.targetRound, !.randomLocked = TRUE]
          \/ a = [c EXCEPT !.targetRound = c.targetRound + 1]
      BY <2>2, <2>9, <3>1, LockedAttempt
    <3>3. a.artifactAddress = c.artifactAddress /\ a.artifactCodeHash = c.artifactCodeHash
      <4>1. PICK n : n = c.targetRound + 1
        OBVIOUS
      <4> QED
        BY <3>2, <4>1 DEF AttemptState
    <3>4. /\ current' = [current EXCEPT ![k] = a] /\ code' = code
          /\ state[k] = "RandomnessPending"
          /\ state' = state \/ state' = [state EXCEPT ![k] = "ReadyToVerify"]
      BY <1>1, <2>9, <3>1 DEF lockRandomness, chain
    <3> QED
      BY <2>1, <2>2, <2>3, <3>3, <3>4 DEF Open
  <2>10. ASSUME NEW n, NEW d, NEW t, NEW new, state' = [state EXCEPT ![k] = new], code' = code,
                current' = [current EXCEPT ![k] = [c EXCEPT !.instructionId = n, !.dispatchedAt = d, !.timeoutAt = t]],
                new \notin Open \/ state[k] \in Open
         PROVE  (\A id \in JobIds : KeepsArtifact(id)) /\ code' = code
    <3>1. PICK a : a = [c EXCEPT !.instructionId = n, !.dispatchedAt = d, !.timeoutAt = t]
      OBVIOUS
    <3>2. a.artifactAddress = c.artifactAddress /\ a.artifactCodeHash = c.artifactCodeHash
      BY <3>1 DEF AttemptState
    <3> QED
      BY <2>1, <2>2, <2>10, <3>1, <3>2
  <2>11. CASE dispatchVerification(k)
    <3>1. PICK n, t : n = nonce + 1 /\ t = TimeoutAt(k)
      OBVIOUS
    <3>2. /\ current' = [current EXCEPT ![k] = [c EXCEPT !.instructionId = n, !.dispatchedAt = now, !.timeoutAt = t]]
          /\ state' = [state EXCEPT ![k] = "Verifying"] /\ code' = code /\ state[k] \in Open
      BY <1>1, <2>2, <2>11, <3>1 DEF dispatchVerification, chain, Open
    <3> QED
      BY <2>10, <3>2
  <2>12. CASE expireVerification(k)
    <3>1. /\ current' = [current EXCEPT ![k] = [c EXCEPT !.instructionId = 0, !.dispatchedAt = 0, !.timeoutAt = 0]]
          /\ state' = [state EXCEPT ![k] = "Retryable"] /\ code' = code /\ "Retryable" \notin Open
      BY <1>1, <2>2, <2>12 DEF expireVerification, chain, Open
    <3> QED
      BY <2>10, <3>1
  <2> QED
    BY <1>4, <2>5, <2>6, <2>7, <2>8, <2>9, <2>11, <2>12 DEF PartyStep
<1> QED
  BY <1>2, <1>3, <1>4 DEF EscrowMove

LEMMA BindingStep ==
    ASSUME TypeOK, NewestInstruction, BindingInv, EscrowMove
    PROVE  BindingInv'
<1>1. Awaited'
  BY AwaitedStays DEF BindingInv
<1>2. /\ \A id \in JobIds : KeepsArtifact(id)
      /\ \A artifact \in Artifacts \ Redeployable : code'[artifact] = code[artifact]
  BY MovesKeepArtifact
<1>3. ASSUME NEW id \in JobIds, state'[id] \in Open, NEW a, a = current'[id].artifactAddress, a \notin Redeployable
      PROVE  a \in Artifacts /\ code'[a] = current'[id].artifactCodeHash
  <2>1. CASE /\ state[id] \in Open /\ a = current[id].artifactAddress
             /\ current'[id].artifactCodeHash = current[id].artifactCodeHash
    BY <1>2, <1>3, <2>1 DEF BindingInv, DeployedAsSubmitted
  <2>2. CASE a \in Artifacts /\ current'[id].artifactCodeHash = code[a]
    BY <1>2, <1>3, <2>2
  <2> QED
    BY <1>2, <1>3, <2>1, <2>2 DEF KeepsArtifact
<1>4. DeployedAsSubmitted'
  BY <1>3 DEF DeployedAsSubmitted
<1> QED
  BY <1>1, <1>4 DEF BindingInv
=============================================================================
