---------------------------- MODULE EscrowProofs ----------------------------
(***************************************************************************)
(* Theorems about Escrow, for every value of its constants.                *)
(***************************************************************************)
EXTENDS Escrow, TLAPS, FiniteSetTheorems

USE DEF MAX_PROTOCOL_FEE_BPS, FIRST_PUBLIC_EXTENSION_ID

(* The fee of a job is a natural number. *)
LEMMA FeeType ==
    ASSUME TypeOK, NEW principal \in Nat
    PROVE  Fee(principal) \in Nat
<1>1. protocolFeeBps \in Nat
  BY DEF TypeOK, AdminTypeOK
<1>2. principal * protocolFeeBps \in Nat
  BY <1>1
<1> QED
  BY <1>2 DEF Fee

(* A time lies in a voting round. *)
LEMMA VotingRoundType ==
    ASSUME NEW t \in Nat
    PROVE  VotingRound(t) \in Nat
BY BoundAssumption DEF VotingRound

(* A transfer the token accepts keeps all balances natural numbers. *)
LEMMA MovedType ==
    ASSUME NEW bal \in [Accounts -> Nat], NEW from \in Accounts, NEW to \in Accounts,
           NEW amount \in Nat, bal[from] >= amount
    PROVE  Moved(bal, from, to, amount) \in [Accounts -> Nat]
BY DEF Moved

(* The constructor and the owner's functions keep the admin state typed. *)
LEMMA AdminTypeInit == AdminInit => AdminTypeOK
<1> SUFFICES ASSUME AdminInit PROVE AdminTypeOK
  OBVIOUS
<1>1. paused \in BOOLEAN
  BY Zenon DEF AdminInit
<1>2. extensions \in Seq(Address \cup {Self}) /\ Len(extensions) = 0
  BY DEF AdminInit
<1> QED
  BY <1>1, <1>2, AddressAssumption, AdminInputAssumption DEF AdminInit, AdminTypeOK

LEMMA AdminTypeStep == AdminTypeOK /\ AdminNext => AdminTypeOK'
<1> SUFFICES ASSUME AdminTypeOK, AdminNext PROVE AdminTypeOK'
  OBVIOUS
<1>0. ASSUME NEW sender \in Address, unpauseNewWork(sender) PROVE paused' \in BOOLEAN
  BY <1>0, Zenon DEF unpauseNewWork
<1> USE AddressAssumption, AdminInputAssumption DEF AdminTypeOK
<1>1. ASSUME NEW sender \in Address, pauseNewWork(sender) PROVE AdminTypeOK'
  BY <1>1 DEF pauseNewWork
<1>2. ASSUME NEW sender \in Address, unpauseNewWork(sender) PROVE AdminTypeOK'
  <2>1. paused' \in BOOLEAN
    BY <1>0, <1>2
  <2>2. UNCHANGED <<owner, pendingOwner, protocolFeeBps, extensionId, extensions>>
    BY <1>2 DEF unpauseNewWork
  <2> QED
    BY <2>1, <2>2
<1>3. ASSUME NEW sender \in Address, acceptOwnership(sender) PROVE AdminTypeOK'
  BY <1>3 DEF acceptOwnership
<1>4. ASSUME NEW sender \in Address, NEW bps \in FeeBps, setProtocolFee(sender, bps)
      PROVE AdminTypeOK'
  BY <1>4 DEF setProtocolFee
<1>5. ASSUME NEW sender \in Address, NEW a \in Nominees, transferOwnership(sender, a)
      PROVE AdminTypeOK'
  BY <1>5 DEF transferOwnership
<1>6. ASSUME NEW c \in Registrants, RegisterExtension(c) PROVE AdminTypeOK'
  BY <1>6 DEF RegisterExtension
<1>7. CASE setExtensionId
  <2>1. PICK i \in 1..Len(extensions) : extensionId' = FIRST_PUBLIC_EXTENSION_ID + i - 1
    BY <1>7 DEF setExtensionId
  <2>2. Len(extensions) \in Nat /\ i <= MaxExtensions
    OBVIOUS
  <2>3. extensionId' \in FIRST_PUBLIC_EXTENSION_ID .. FIRST_PUBLIC_EXTENSION_ID + MaxExtensions
    BY <2>1, <2>2
  <2> QED
    BY <1>7, <2>3 DEF setExtensionId
<1> HIDE DEF AdminTypeOK
<1> QED
  BY <1>1, <1>2, <1>3, <1>4, <1>5, <1>6, <1>7, Zenon DEF AdminNext
-----------------------------------------------------------------------------
(* Type correctness. *)
LEMMA NoAttemptType == NoAttempt \in AttemptState
BY DEF NoAttempt, AttemptState

LEMMA LockedType ==
    ASSUME NEW c \in AttemptState, NEW round \in Nat
    PROVE  [c EXCEPT !.randomRound = round, !.randomLocked = TRUE] \in AttemptState
<1>1. ASSUME NEW b \in BOOLEAN
      PROVE  [c EXCEPT !.randomRound = round, !.randomLocked = b] \in AttemptState
  BY DEF AttemptState
<1> QED
  BY <1>1, Zenon
LEMMA TypeInit == Init => TypeOK
<1> SUFFICES ASSUME Init PROVE TypeOK
  OBVIOUS
<1>1. AdminTypeOK
  BY AdminTypeInit DEF Init
<1>2. settled \in [JobIds -> BOOLEAN]
  BY Zenon DEF Init
<1>3. NoTerms \in JobTerms
  BY DEF NoTerms, JobTerms
<1>5. /\ beacon \in Seq(BOOLEAN)
      /\ settlements \in [JobIds -> Seq(Verdict)]
  BY DEF Init
<1> QED
  BY <1>1, <1>2, <1>3, <1>5, NoAttemptType, TokenAssumption, BoundAssumption
  DEF Init, TypeOK, State, Receipt, Accounts

(* The inputs of other clients are as createJob's types have them. *)
LEMMA CreateInputs ==
    ASSUME Create
    PROVE  \E sender \in Address, contractor \in Accounts \cup {Zero}, tee \in Tees, principal \in Principals,
              s \in Schedule, commitment \in Commitments :
              createJob(sender, contractor, tee, principal, s, commitment)
BY InputAssumption DEF Create

LEMMA TypeCreate ==
    ASSUME TypeOK, NEW sender \in Address, NEW contractor \in Accounts \cup {Zero}, NEW tee \in Tees,
           NEW principal \in Principals, NEW s \in Schedule, NEW commitment \in Commitments,
           createJob(sender, contractor, tee, principal, s, commitment)
    PROVE  TypeOK'
<1>1. principal \in Nat /\ Fee(principal) \in Nat
  BY FeeType, TokenAssumption
<1>0. contractor # Zero
  BY DEF createJob, ValidTerms
<1>2. /\ sender \in Address /\ contractor \in Accounts
      /\ s \in Schedule
  BY <1>0, InputAssumption
<1>3. balance' \in [Accounts -> Nat]
  <2>1. /\ balance' = Moved(balance, sender, Self, principal + Fee(principal))
        /\ balance[sender] >= principal + Fee(principal)
    BY DEF createJob, TokenAccepts
  <2>2. sender \in Accounts /\ Self \in Accounts /\ principal + Fee(principal) \in Nat
    BY <1>1, <1>2 DEF Accounts
  <2> QED
    BY <2>1, <2>2, MovedType DEF TypeOK
<1>4. terms' \in [JobIds -> JobTerms]
  BY <1>1, <1>2 DEF createJob, TypeOK, JobTerms, Schedule
<1>5. nextJobId' \in 0..MaxJobs
  BY BoundAssumption DEF createJob, TypeOK, JobIds
<1>6. state' \in [JobIds -> State]
  BY DEF createJob, TypeOK, State
<1> QED
  BY <1>3, <1>4, <1>5, <1>6 DEF createJob, TypeOK, adminVars, AdminTypeOK, chain, registry, history

LEMMA TypeAccept ==
    ASSUME TypeOK, NEW sender \in Address, NEW id \in JobIds, acceptJob(sender, id)
    PROVE  TypeOK'
BY DEF acceptJob, TypeOK, State, adminVars, AdminTypeOK, chain, registry, history

LEMMA TypeReturn ==
    ASSUME TypeOK, NEW id \in JobIds, NEW new \in State, ReturnToClient(id, new)
    PROVE  TypeOK'
<1>1. /\ terms[id] \in JobTerms /\ terms[id].client \in Address
      /\ terms[id].principal + terms[id].fee \in Nat
  BY DEF ReturnToClient, TokenAccepts, TypeOK, JobTerms
<1>2. balance' \in [Accounts -> Nat]
  BY <1>1, MovedType DEF ReturnToClient, TokenAccepts, TypeOK, Accounts
<1>3. settled' \in [JobIds -> BOOLEAN]
  BY DEF ReturnToClient, TypeOK
<1>4. released' \in [JobIds -> Receipt]
  <2> DEFINE r == Credited(released[id], 0, terms[id].principal + terms[id].fee, 0)
  <2>1. released' = [released EXCEPT ![id] = r]
    BY DEF ReturnToClient
  <2>2. released[id] \in Receipt
    BY DEF TypeOK
  <2>3. r \in Receipt
    BY <1>1, <2>2 DEF Receipt, Credited
  <2> QED
    BY <2>1, <2>3 DEF TypeOK
<1>5. state' \in [JobIds -> State]
  BY DEF ReturnToClient, TypeOK
<1> QED
  BY <1>2, <1>3, <1>4, <1>5 DEF ReturnToClient, TypeOK, adminVars, AdminTypeOK, chain, registry

LEMMA TypeSubmit ==
    ASSUME TypeOK, NEW sender \in Address, NEW id \in JobIds, NEW artifact \in Artifacts,
           submitAttempt(sender, id, artifact)
    PROVE  TypeOK'
<1>1. VotingRound(now) \in Nat /\ now \in Nat
  BY VotingRoundType, BoundAssumption DEF TypeOK
<1>2. current' \in [JobIds -> AttemptState]
  <2> DEFINE c == [NoAttempt EXCEPT !.attempt = current[id].attempt + 1,
                                    !.artifactAddress = artifact,
                                    !.artifactBlock = now,
                                    !.artifactCodeHash = code[artifact],
                                    !.targetRound = VotingRound(now) + 1]
  <2>1. current[id].attempt \in Nat /\ code[artifact] \in CodeHashes \cup {NoCode}
    BY DEF TypeOK, AttemptState
  <2>2. c \in AttemptState
    <3>1. ASSUME NEW x \in AttemptState, NEW n \in Nat, NEW h \in CodeHashes \cup {NoCode},
                 NEW v \in Nat
          PROVE  [x EXCEPT !.attempt = n, !.artifactAddress = artifact, !.artifactBlock = now,
                           !.artifactCodeHash = h, !.targetRound = v] \in AttemptState
      BY <1>1 DEF AttemptState
    <3>2. current[id].attempt + 1 \in Nat /\ VotingRound(now) + 1 \in Nat
      BY <1>1, <2>1
    <3> QED
      BY <2>1, <3>1, <3>2, NoAttemptType
  <2>3. current' = [current EXCEPT ![id] = c]
    BY DEF submitAttempt
  <2> QED
    BY <2>2, <2>3 DEF TypeOK
<1>3. state' \in [JobIds -> State]
  BY DEF submitAttempt, TypeOK, State
<1> QED
  BY <1>2, <1>3 DEF submitAttempt, TypeOK, adminVars, AdminTypeOK, chain, registry, history

LEMMA TypeLock ==
    ASSUME TypeOK, NEW id \in JobIds, lockRandomness(id)
    PROVE  TypeOK'
<1>1. current' \in [JobIds -> AttemptState]
  <2> DEFINE target == current[id].targetRound
             c == [current[id] EXCEPT !.randomRound = target, !.randomLocked = TRUE]
             d == [current[id] EXCEPT !.targetRound = target + 1]
  <2>1. current[id] \in AttemptState
    BY DEF TypeOK
  <2>2. c \in AttemptState /\ d \in AttemptState
    <3>1. target \in Nat
      BY <2>1 DEF AttemptState
    <3>2. c \in AttemptState
      BY <2>1, <3>1, LockedType
    <3>3. d \in AttemptState
      BY <2>1, <3>1 DEF AttemptState
    <3> QED
      BY <3>2, <3>3
  <2>3. current' = [current EXCEPT ![id] = c] \/ current' = [current EXCEPT ![id] = d]
    BY DEF lockRandomness
  <2> QED
    BY <2>2, <2>3 DEF TypeOK
<1>2. state' \in [JobIds -> State]
  BY DEF lockRandomness, TypeOK, State
<1> QED
  BY <1>1, <1>2 DEF lockRandomness, TypeOK, adminVars, AdminTypeOK, chain, registry, history

LEMMA TypeDispatch ==
    ASSUME TypeOK, NEW id \in JobIds, dispatchVerification(id)
    PROVE  TypeOK'
<1>1. TimeoutAt(id) \in Nat /\ now \in Nat /\ nonce + 1 \in Nat
  BY BoundAssumption DEF TimeoutAt, TypeOK, JobTerms
<1>2. terms[id].expectedTee \in Tees
  BY DEF dispatchVerification, _confirmProductionTee, TypeOK
<1>3. InstructionFor(id, nonce + 1) \in Instruction
  BY <1>1, <1>2 DEF InstructionFor, Instruction, TypeOK, JobTerms, AttemptState
<1>4. current' \in [JobIds -> AttemptState]
  <2> DEFINE c == [current[id] EXCEPT !.instructionId = nonce + 1, !.dispatchedAt = now,
                                      !.timeoutAt = TimeoutAt(id)]
  <2>1. current[id] \in AttemptState
    BY DEF TypeOK
  <2>2. c \in AttemptState
    BY <1>1, <2>1 DEF AttemptState
  <2>3. current' = [current EXCEPT ![id] = c]
    BY DEF dispatchVerification
  <2> QED
    BY <2>2, <2>3 DEF TypeOK
<1>5. state' \in [JobIds -> State]
  BY DEF dispatchVerification, TypeOK, State
<1>6. sent' \subseteq Instruction /\ nonce' \in Nat
  BY <1>1, <1>3 DEF dispatchVerification, TypeOK
<1> QED
  BY <1>4, <1>5, <1>6 DEF dispatchVerification, TypeOK, adminVars, AdminTypeOK, chain, history

LEMMA TypeExpire ==
    ASSUME TypeOK, NEW id \in JobIds, expireVerification(id)
    PROVE  TypeOK'
<1>1. current' \in [JobIds -> AttemptState]
  <2> DEFINE c == [current[id] EXCEPT !.instructionId = 0, !.dispatchedAt = 0, !.timeoutAt = 0]
  <2>1. current[id] \in AttemptState
    BY DEF TypeOK
  <2>2. c \in AttemptState
    BY <2>1 DEF AttemptState
  <2>3. current' = [current EXCEPT ![id] = c]
    BY DEF expireVerification
  <2> QED
    BY <2>2, <2>3 DEF TypeOK
<1>2. state' \in [JobIds -> State]
  BY DEF expireVerification, TypeOK, State
<1> QED
  BY <1>1, <1>2 DEF expireVerification, TypeOK, adminVars, AdminTypeOK, chain, registry, history

(* What a relayer delivers: a result for an instruction that went out,     *)
(* under the key of the machine it was sent to or a key that is no TEE's.  *)
Delivered(r) ==
    /\ r.claim \in sent
    /\ r.signer \in {r.claim.tee} \cup Forgers
    /\ r.outcome \in Outcome
    /\ r.passed \in Nat /\ r.executed \in Nat

LEMMA SettleDelivers ==
    ASSUME NEW id \in JobIds, Settle(id)
    PROVE  \E r : Delivered(r) /\ settleAttempt(id, r)
<1>1. PICK claim \in sent, status \in {0, 1}, tag \in {"threshold", "end"}, outcome \in Outcome,
           passed \in Counts, executed \in Counts, issuedAt \in 0..MaxTime :
           \E signer \in {claim.tee} \cup Forgers :
              settleAttempt(id, SignedResult(claim, signer, status, tag,
                                             outcome, passed, executed, issuedAt))
  BY Zenon DEF Settle
<1>2. PICK signer \in {claim.tee} \cup Forgers :
              settleAttempt(id, SignedResult(claim, signer, status, tag,
                                             outcome, passed, executed, issuedAt))
  BY <1>1, Zenon
<1> DEFINE r == SignedResult(claim, signer, status, tag, outcome, passed, executed, issuedAt)
<1>3. /\ r.claim = claim /\ r.signer = signer /\ r.outcome = outcome
      /\ r.passed = passed /\ r.executed = executed
  BY DEF SignedResult
<1>4. passed \in Nat /\ executed \in Nat
  BY InputAssumption
<1>5. Delivered(r)
  BY <1>3, <1>4 DEF Delivered
<1> QED
  BY <1>2, <1>5

LEMMA TypePay ==
    ASSUME TypeOK, NEW id \in JobIds, PayContractor(id)
    PROVE  /\ settled' \in [JobIds -> BOOLEAN]
           /\ balance' \in [Accounts -> Nat]
           /\ released' \in [JobIds -> Receipt]
<1> DEFINE t == terms[id]
           b == Moved(balance, Self, t.contractor, t.principal)
           r == Credited(released[id], t.principal, 0, t.fee)
<1>1. /\ t.contractor \in Accounts /\ t.principal \in Nat /\ t.fee \in Nat
      /\ balance[Self] >= t.principal
  BY DEF PayContractor, TokenAccepts, TypeOK, JobTerms
<1>2. Self \in Accounts /\ Treasury \in Accounts
  BY TokenAssumption DEF Accounts
<1>3. b \in [Accounts -> Nat]
  BY <1>1, <1>2, MovedType DEF TypeOK
<1>4. b[Self] >= t.fee /\ balance' = Moved(b, Self, Treasury, t.fee)
  BY DEF PayContractor, TokenAccepts
<1>5. balance' \in [Accounts -> Nat]
  <2> HIDE DEF b, t
  <2> QED
    BY <1>1, <1>2, <1>3, <1>4, MovedType
<1>6. released[id] \in Receipt
  BY DEF TypeOK
<1>7. r \in Receipt
  BY <1>1, <1>6 DEF Receipt, Credited
<1>8. released' = [released EXCEPT ![id] = r]
  BY DEF PayContractor
<1>9. released' \in [JobIds -> Receipt]
  BY <1>7, <1>8 DEF TypeOK
<1>10. settled' \in [JobIds -> BOOLEAN]
  BY DEF PayContractor, TypeOK
<1> QED
  BY <1>5, <1>9, <1>10

LEMMA TypeSettle ==
    ASSUME TypeOK, NEW id \in JobIds, NEW r, Delivered(r), settleAttempt(id, r)
    PROVE  TypeOK'
<1>1. Settlement(id, r) \in Verdict
  <2>1. r.claim \in Instruction /\ r.signer \in Tees \cup Forgers
    BY DEF Delivered, TypeOK, Instruction
  <2>2. code[current[id].artifactAddress] = current[id].artifactCodeHash
    BY DEF settleAttempt, _checkBinding, _checkOutcomeBinding
  <2>3. code[current[id].artifactAddress] \in CodeHashes \cup {NoCode} /\ now \in Nat
    BY <2>2, BoundAssumption DEF TypeOK, AttemptState
  <2> QED
    BY <2>1, <2>3 DEF Settlement, Verdict, Delivered
<1>2. settlements' \in [JobIds -> Seq(Verdict)]
  <2>1. settlements' = [settlements EXCEPT ![id] = Append(settlements[id], Settlement(id, r))]
    BY DEF settleAttempt
  <2>2. Append(settlements[id], Settlement(id, r)) \in Seq(Verdict)
    BY <1>1 DEF TypeOK
  <2> QED
    BY <2>1, <2>2 DEF TypeOK
<1>3. state' \in [JobIds -> State]
  <2>1. AfterNoPay(id, r.outcome) \in State
    BY DEF AfterNoPay, State
  <2>2. \/ state' = [state EXCEPT ![id] = "Paid"]
        \/ state' = [state EXCEPT ![id] = AfterNoPay(id, r.outcome)]
    BY DEF settleAttempt
  <2> QED
    BY <2>1, <2>2 DEF TypeOK, State
<1>4. /\ settled' \in [JobIds -> BOOLEAN]
      /\ balance' \in [Accounts -> Nat]
      /\ released' \in [JobIds -> Receipt]
  <2>1. CASE PayContractor(id)
    BY <2>1, TypePay
  <2>2. CASE UNCHANGED <<settled, balance, released>>
    BY <2>2 DEF TypeOK
  <2> QED
    BY <2>1, <2>2 DEF settleAttempt
<1>5. UNCHANGED <<adminVars, nextJobId, terms, current, chain, registry>>
  BY DEF settleAttempt
<1> QED
  BY <1>2, <1>3, <1>4, <1>5 DEF TypeOK, adminVars, AdminTypeOK, chain, registry

LEMMA TypeEnvironment == TypeOK /\ Environment => TypeOK'
<1> SUFFICES ASSUME TypeOK, Environment PROVE TypeOK'
  OBVIOUS
<1> USE BoundAssumption DEF TypeOK, adminVars, AdminTypeOK, storage, registry, history
<1>1. CASE Tick
  BY <1>1 DEF Tick
<1>2. CASE FinalizeRound
  BY <1>2 DEF FinalizeRound
<1>3. ASSUME NEW tee \in UnstableTees, ChangeTeeStatus(tee) PROVE TypeOK'
  BY <1>3, InputAssumption DEF ChangeTeeStatus
<1>4. ASSUME NEW artifact \in Redeployable, ChangeCode(artifact) PROVE TypeOK'
  BY <1>4, InputAssumption DEF ChangeCode
<1> HIDE DEF TypeOK
<1> QED
  BY <1>1, <1>2, <1>3, <1>4, Zenon DEF Environment

LEMMA TypeJobStep ==
    ASSUME TypeOK, NEW id \in JobIds, JobStep(id)
    PROVE  TypeOK'
<1>1. ASSUME NEW sender \in Address, acceptJob(sender, id) PROVE TypeOK'
  BY <1>1, TypeAccept
<1>2. ASSUME NEW sender \in Address, cancelUnaccepted(sender, id) PROVE TypeOK'
  BY <1>2, TypeReturn DEF cancelUnaccepted, State
<1>3. ASSUME NEW sender \in Address, NEW artifact \in Artifacts, submitAttempt(sender, id, artifact)
      PROVE TypeOK'
  BY <1>3, TypeSubmit
<1>4. CASE Settle(id)
  BY <1>4, SettleDelivers, TypeSettle
<1>5. CASE refundExpired(id)
  BY <1>5, TypeReturn DEF refundExpired, State
<1> QED
  BY <1>1, <1>2, <1>3, <1>4, <1>5, TypeLock, TypeDispatch, TypeExpire DEF JobStep, PartyStep

LEMMA TypeStep == TypeOK /\ [Next]_vars => TypeOK'
<1> SUFFICES ASSUME TypeOK, [Next]_vars PROVE TypeOK'
  OBVIOUS
<1>1. CASE Administer
  BY <1>1, AdminTypeStep DEF Administer, TypeOK, storage, chain, registry, history
<1>2. CASE Create
  BY <1>2, CreateInputs, TypeCreate
<1>3. ASSUME NEW id \in JobIds, JobStep(id) PROVE TypeOK'
  BY <1>3, TypeJobStep
<1>4. CASE Environment
  BY <1>4, TypeEnvironment
<1>5. CASE UNCHANGED vars
  BY <1>5 DEF vars, TypeOK, adminVars, AdminTypeOK, storage, chain, registry, history
<1> QED
  BY <1>1, <1>2, <1>3, <1>4, <1>5 DEF Next

(* The contract's storage, the tokens and the histories keep their types;  *)
(* in particular no balance goes below zero and the fee stays capped.      *)
THEOREM TypeCorrect == Spec => []TypeOK
<1> QED
  BY TypeInit, TypeStep, PTL DEF Spec
-----------------------------------------------------------------------------
(* The slot an id was found in is one of the registry's. *)
IdInv ==
    /\ TypeOK
    /\ extensionId # 0 => extensionId - FIRST_PUBLIC_EXTENSION_ID + 1 \in 1..Len(extensions)
    /\ ExtensionIdIsFirstMatch

LEMMA IdAdminStep ==
    ASSUME IdInv, TypeOK', AdminNext
    PROVE  IdInv'
<1>1. /\ extensions \in Seq(Address \cup {Self}) /\ Len(extensions) \in Nat
      /\ extensionId \in Nat
  BY AdminInputAssumption DEF IdInv, TypeOK, AdminTypeOK
<1>2. ASSUME NEW c \in Registrants, RegisterExtension(c) PROVE IdInv'
  <2>1. c \in Address \cup {Self}
    BY AdminInputAssumption
  <2>2. /\ extensionId' = extensionId /\ Len(extensions') = Len(extensions) + 1
        /\ \A k \in 1..Len(extensions) : extensions'[k] = extensions[k]
    BY <1>1, <1>2, <2>1 DEF RegisterExtension
  <2> QED
    BY <1>1, <2>2 DEF IdInv, ExtensionIdIsFirstMatch
<1>3. CASE setExtensionId
  <2>1. PICK i \in 1..Len(extensions) :
           /\ extensions[i] = Self
           /\ \A k \in 1..i-1 : extensions[k] # Self
           /\ extensionId' = FIRST_PUBLIC_EXTENSION_ID + i - 1
    BY <1>3 DEF setExtensionId
  <2>2. extensions' = extensions /\ extensionId' - FIRST_PUBLIC_EXTENSION_ID + 1 = i
    BY <1>1, <1>3, <2>1 DEF setExtensionId
  <2> QED
    BY <2>1, <2>2 DEF IdInv, ExtensionIdIsFirstMatch
<1>4. CASE UNCHANGED <<extensionId, extensions>>
  BY <1>4 DEF IdInv, ExtensionIdIsFirstMatch
<1> QED
  BY <1>2, <1>3, <1>4
  DEF AdminNext, pauseNewWork, unpauseNewWork, acceptOwnership, setProtocolFee, transferOwnership

LEMMA IdStep == IdInv /\ [Next]_vars => IdInv'
<1> SUFFICES ASSUME IdInv, [Next]_vars PROVE IdInv'
  OBVIOUS
<1>1. TypeOK'
  BY TypeStep DEF IdInv
<1>2. CASE Administer
  BY <1>1, <1>2, IdAdminStep DEF Administer
<1>3. CASE ~Administer
  <2>1. UNCHANGED adminVars
    <3>1. CASE Create
      BY <3>1 DEF Create, createJob
    <3>2. CASE Environment
      BY <3>2 DEF Environment, Tick, FinalizeRound, ChangeTeeStatus, ChangeCode
    <3>3. ASSUME NEW id \in JobIds, JobStep(id) PROVE UNCHANGED adminVars
      <4>1. CASE Settle(id)
        BY <4>1 DEF Settle, settleAttempt
      <4>2. CASE \E sender \in Address : \/ acceptJob(sender, id) \/ cancelUnaccepted(sender, id)
                                        \/ \E artifact \in Artifacts : submitAttempt(sender, id, artifact)
        BY <4>2 DEF acceptJob, cancelUnaccepted, ReturnToClient, submitAttempt
      <4>3. CASE lockRandomness(id) \/ dispatchVerification(id)
        BY <4>3 DEF lockRandomness, dispatchVerification
      <4>4. CASE expireVerification(id) \/ refundExpired(id)
        BY <4>4 DEF expireVerification, refundExpired, ReturnToClient
      <4> QED
        BY <3>3, <4>1, <4>2, <4>3, <4>4, Zenon DEF JobStep, PartyStep
    <3>4. CASE UNCHANGED vars
      BY <3>4 DEF vars
    <3> QED
      BY <1>3, <3>1, <3>2, <3>3, <3>4 DEF Next
  <2> QED
    BY <1>1, <2>1 DEF IdInv, ExtensionIdIsFirstMatch, adminVars
<1> QED
  BY <1>2, <1>3

(* setExtensionId: whoever registers what before and after, the id the     *)
(* escrow sends its instructions under is the lowest registry slot whose   *)
(* sender is the escrow, and it stays so.                                  *)
THEOREM ExtensionIdStays == Spec => []ExtensionIdIsFirstMatch
<1>1. Init => IdInv
  BY TypeInit DEF Init, AdminInit, IdInv, ExtensionIdIsFirstMatch
<1>2. IdInv => ExtensionIdIsFirstMatch
  BY DEF IdInv
<1> QED
  BY <1>1, <1>2, IdStep, PTL DEF Spec
-----------------------------------------------------------------------------
(* The inductive invariant of the money flow.  An id that was never        *)
(* created still has its zero storage, although State.Created is the zero  *)
(* state and refundExpired does not look whether the job exists.           *)
NeverCreated ==
    \A id \in JobIds : ~Exists(id) =>
       terms[id] = NoTerms /\ current[id] = NoAttempt /\ state[id] = "Created"

(* A created job has a real client, a pinned TEE machine and deadlines in  *)
(* order; past acceptance its contractor is an account that can send       *)
(* transactions, hence not the escrow itself.                              *)
PartiesKnown ==
    \A id \in JobIds : Exists(id) =>
       /\ terms[id].client \in Address
       /\ terms[id].expectedTee \in Tees
       /\ terms[id].acceptBy < terms[id].submitBy
       /\ terms[id].submitBy < terms[id].graceEnds
       /\ state[id] \notin {"Created", "Cancelled", "Refunded"} => terms[id].contractor \in Address

LedgerInv == TypeOK /\ NeverCreated /\ PartiesKnown /\ PaysOutExactlyOnce

LEMMA LedgerInit == Init => LedgerInv
<1> SUFFICES ASSUME Init PROVE LedgerInv
  OBVIOUS
<1>1. TypeOK
  BY TypeInit
<1>2. \A id \in JobIds : ~Exists(id)
  BY DEF Init, Exists, JobIds
<1>3. NeverCreated
  BY DEF Init, NeverCreated
<1>4. PartiesKnown
  BY <1>2 DEF PartiesKnown
<1>5. PaysOutExactlyOnce
  <2> SUFFICES ASSUME NEW id \in JobIds
               PROVE  /\ ~settled[id] /\ state[id] = "Created"
                      /\ released[id] = [contractor |-> 0, client |-> 0, treasury |-> 0]
    BY DEF PaysOutExactlyOnce
  <2> QED
    BY DEF Init
<1> QED
  BY <1>1, <1>3, <1>4, <1>5 DEF LedgerInv

(* A job that moves between unsettled states leaves the ledger alone. *)
LEMMA LedgerQuietStep ==
    ASSUME LedgerInv, TypeOK', NEW id \in JobIds, Exists(id),
           state[id] \notin {"Paid", "Cancelled", "Refunded"},
           state[id] # "Created" \/ terms[id].contractor \in Address,
           UNCHANGED <<nextJobId, terms, settled, released>>,
           \A k \in JobIds \ {id} : current'[k] = current[k] /\ state'[k] = state[k],
           state'[id] \in State \ {"Paid", "Cancelled", "Refunded"}
    PROVE  LedgerInv'
<1>1. NeverCreated'
  BY DEF LedgerInv, NeverCreated, Exists
<1>2. PartiesKnown'
  BY DEF LedgerInv, PartiesKnown, Exists
<1>3. PaysOutExactlyOnce'
  <2> SUFFICES ASSUME NEW k \in JobIds
               PROVE  LET t == terms[k] IN
                      /\ settled[k] <=> state'[k] \in {"Paid", "Cancelled", "Refunded"}
                      /\ settled[k] => Exists(k)
                      /\ released[k] =
                           [contractor |-> IF state'[k] = "Paid" THEN t.principal ELSE 0,
                            treasury   |-> IF state'[k] = "Paid" THEN t.fee ELSE 0,
                            client     |-> IF state'[k] \in {"Cancelled", "Refunded"}
                                             THEN t.principal + t.fee ELSE 0]
    BY DEF PaysOutExactlyOnce, Exists
  <2>1. CASE k = id
    BY <2>1 DEF LedgerInv, PaysOutExactlyOnce
  <2>2. CASE k # id
    BY <2>2 DEF LedgerInv, PaysOutExactlyOnce
  <2> QED
    BY <2>1, <2>2
<1> QED
  BY <1>1, <1>2, <1>3 DEF LedgerInv

(* Payouts of a job that has paid nothing yet. *)
LEMMA FirstPayout ==
    ASSUME NEW a \in Nat, NEW b \in Nat, NEW c \in Nat
    PROVE  Credited([contractor |-> 0, client |-> 0, treasury |-> 0], a, b, c)
             = [contractor |-> a, client |-> b, treasury |-> c]
BY DEF Credited

LEMMA LedgerCreate ==
    ASSUME LedgerInv, NEW sender \in Address, NEW contractor \in Accounts \cup {Zero}, NEW tee \in Tees,
           NEW principal \in Principals, NEW s \in Schedule, NEW commitment \in Commitments,
           createJob(sender, contractor, tee, principal, s, commitment)
    PROVE  LedgerInv'
<1> DEFINE id == nextJobId
<1>1. TypeOK' /\ TypeOK
  BY TypeCreate DEF LedgerInv
<1>2. /\ id \in JobIds /\ id \in Nat /\ nextJobId' = id + 1
      /\ UNCHANGED <<current, settled, released>>
      /\ s.acceptBy < s.submitBy /\ s.submitBy < s.graceEnds
  BY <1>1 DEF createJob, ValidTerms, history, JobIds, TypeOK
<1>3. /\ terms'[id].client = sender /\ terms'[id].expectedTee = tee
      /\ terms'[id].acceptBy = s.acceptBy /\ terms'[id].submitBy = s.submitBy
      /\ terms'[id].graceEnds = s.graceEnds
      /\ state'[id] = "Created"
  BY <1>1, <1>2 DEF createJob, TypeOK
<1>4. \A k \in JobIds \ {id} : terms'[k] = terms[k] /\ state'[k] = state[k]
  BY <1>1, <1>2 DEF createJob, TypeOK
<1>5. \A k \in JobIds : Exists(k)' <=> (Exists(k) \/ k = id)
  BY <1>2 DEF Exists, JobIds
<1>6. NeverCreated'
  BY <1>2, <1>4, <1>5 DEF LedgerInv, NeverCreated
<1>7. PartiesKnown'
  BY <1>2, <1>3, <1>4, <1>5, InputAssumption DEF LedgerInv, PartiesKnown
<1>8. ~Exists(id)
  BY <1>2 DEF Exists
<1>9. PaysOutExactlyOnce'
  <2> SUFFICES ASSUME NEW k \in JobIds
               PROVE  LET t == terms'[k] IN
                      /\ settled[k] <=> state'[k] \in {"Paid", "Cancelled", "Refunded"}
                      /\ settled[k] => Exists(k)'
                      /\ released[k] =
                           [contractor |-> IF state'[k] = "Paid" THEN t.principal ELSE 0,
                            treasury   |-> IF state'[k] = "Paid" THEN t.fee ELSE 0,
                            client     |-> IF state'[k] \in {"Cancelled", "Refunded"}
                                             THEN t.principal + t.fee ELSE 0]
    BY <1>2 DEF PaysOutExactlyOnce
  <2>1. CASE k = id
    <3>1. state[id] = "Created"
      BY <1>2, <1>8 DEF LedgerInv, NeverCreated
    <3> QED
      BY <1>2, <1>3, <2>1, <3>1 DEF LedgerInv, PaysOutExactlyOnce
  <2>2. CASE k # id
    BY <1>4, <1>5, <2>2 DEF LedgerInv, PaysOutExactlyOnce
  <2> QED
    BY <2>1, <2>2
<1> QED
  BY <1>1, <1>6, <1>7, <1>9 DEF LedgerInv

(* Only a created job can be returned: the token refuses the zero client   *)
(* of a job that does not exist.                                           *)
LEMMA ReturnExists ==
    ASSUME LedgerInv, NEW id \in JobIds, NEW new \in State, ReturnToClient(id, new)
    PROVE  Exists(id)
BY DEF ReturnToClient, TokenAccepts, LedgerInv, NeverCreated, NoTerms

LEMMA LedgerReturn ==
    ASSUME LedgerInv, NEW id \in JobIds, NEW new \in {"Cancelled", "Refunded"},
           ~settled[id], ReturnToClient(id, new)
    PROVE  LedgerInv'
<1>0. new \in State
  BY DEF State
<1>1. TypeOK /\ TypeOK' /\ Exists(id)
  BY <1>0, TypeReturn, ReturnExists DEF LedgerInv
<1> DEFINE amount == terms[id].principal + terms[id].fee
<1>2. /\ UNCHANGED <<nextJobId, terms, current>>
      /\ state' = [state EXCEPT ![id] = new]
      /\ settled' = [settled EXCEPT ![id] = TRUE]
      /\ released' = [released EXCEPT ![id] = Credited(released[id], 0, amount, 0)]
  BY DEF ReturnToClient
<1>3. NeverCreated'
  BY <1>1, <1>2 DEF LedgerInv, NeverCreated, Exists, TypeOK
<1>4. PartiesKnown'
  BY <1>1, <1>2 DEF LedgerInv, PartiesKnown, Exists, TypeOK
<1>5. PaysOutExactlyOnce'
  <2> SUFFICES ASSUME NEW k \in JobIds
               PROVE  LET t == terms[k] IN
                      /\ settled'[k] <=> state'[k] \in {"Paid", "Cancelled", "Refunded"}
                      /\ settled'[k] => Exists(k)
                      /\ released'[k] =
                           [contractor |-> IF state'[k] = "Paid" THEN t.principal ELSE 0,
                            treasury   |-> IF state'[k] = "Paid" THEN t.fee ELSE 0,
                            client     |-> IF state'[k] \in {"Cancelled", "Refunded"}
                                             THEN t.principal + t.fee ELSE 0]
    BY <1>2 DEF PaysOutExactlyOnce, Exists
  <2>1. CASE k = id
    <3>1. released[id] = [contractor |-> 0, client |-> 0, treasury |-> 0]
      BY DEF LedgerInv, PaysOutExactlyOnce
    <3>2. released'[id] = [contractor |-> 0, client |-> amount, treasury |-> 0]
      <4>1. amount \in Nat
        <5>1. terms[id] \in JobTerms
          BY <1>1 DEF TypeOK
        <5> QED
          BY <5>1 DEF JobTerms
      <4>2. released'[id] = Credited(released[id], 0, amount, 0)
        BY <1>1, <1>2 DEF TypeOK
      <4> QED
        BY <3>1, <4>1, <4>2, FirstPayout
    <3>3. settled'[id] /\ state'[id] = new
      BY <1>1, <1>2 DEF TypeOK
    <3> QED
      BY <1>1, <2>1, <3>2, <3>3
  <2>2. CASE k # id
    <3>1. settled'[k] = settled[k] /\ state'[k] = state[k] /\ released'[k] = released[k]
      BY <1>1, <1>2, <2>2 DEF TypeOK
    <3> QED
      BY <3>1 DEF LedgerInv, PaysOutExactlyOnce
  <2> QED
    BY <2>1, <2>2
<1> QED
  BY <1>1, <1>3, <1>4, <1>5 DEF LedgerInv

LEMMA LedgerSettle ==
    ASSUME LedgerInv, NEW id \in JobIds, NEW r, Delivered(r), settleAttempt(id, r)
    PROVE  LedgerInv'
<1>1. TypeOK /\ TypeOK'
  BY TypeSettle DEF LedgerInv
<1>2. /\ state[id] = "Verifying"
      /\ UNCHANGED <<nextJobId, terms, current>>
  BY DEF settleAttempt
<1>3. Exists(id) /\ ~settled[id]
  BY <1>2 DEF LedgerInv, NeverCreated, PaysOutExactlyOnce
<1>4. CASE r.outcome # "Pass"
  <2>1. /\ state' = [state EXCEPT ![id] = AfterNoPay(id, r.outcome)]
        /\ UNCHANGED <<settled, released>>
    BY <1>4 DEF settleAttempt
  <2>2. AfterNoPay(id, r.outcome) \in State \ {"Paid", "Cancelled", "Refunded"}
    BY DEF AfterNoPay, State
  <2>3. \A k \in JobIds \ {id} : current'[k] = current[k] /\ state'[k] = state[k]
    BY <1>1, <1>2, <2>1 DEF TypeOK
  <2>4. state'[id] = AfterNoPay(id, r.outcome)
    BY <1>1, <2>1 DEF TypeOK
  <2> QED
    BY <1>1, <1>2, <1>3, <2>1, <2>2, <2>3, <2>4, LedgerQuietStep
<1>5. CASE r.outcome = "Pass"
  <2> DEFINE t == terms[id]
  <2>1. /\ state' = [state EXCEPT ![id] = "Paid"]
        /\ settled' = [settled EXCEPT ![id] = TRUE]
        /\ released' = [released EXCEPT ![id] = Credited(released[id], t.principal, 0, t.fee)]
    BY <1>5 DEF settleAttempt, PayContractor
  <2>2. NeverCreated'
    BY <1>1, <1>2, <1>3, <2>1 DEF LedgerInv, NeverCreated, Exists, TypeOK
  <2>3. PartiesKnown'
    BY <1>1, <1>2, <1>3, <2>1 DEF LedgerInv, PartiesKnown, Exists, TypeOK
  <2>4. PaysOutExactlyOnce'
    <3> SUFFICES ASSUME NEW k \in JobIds
                 PROVE  LET u == terms[k] IN
                        /\ settled'[k] <=> state'[k] \in {"Paid", "Cancelled", "Refunded"}
                        /\ settled'[k] => Exists(k)
                        /\ released'[k] =
                             [contractor |-> IF state'[k] = "Paid" THEN u.principal ELSE 0,
                              treasury   |-> IF state'[k] = "Paid" THEN u.fee ELSE 0,
                              client     |-> IF state'[k] \in {"Cancelled", "Refunded"}
                                               THEN u.principal + u.fee ELSE 0]
      BY <1>2 DEF PaysOutExactlyOnce, Exists
    <3>1. CASE k = id
      <4>1. released[id] = [contractor |-> 0, client |-> 0, treasury |-> 0]
        BY <1>2 DEF LedgerInv, PaysOutExactlyOnce
      <4>2. released'[id] = [contractor |-> t.principal, client |-> 0, treasury |-> t.fee]
        <5>1. t.principal \in Nat /\ t.fee \in Nat
          BY <1>1 DEF TypeOK, JobTerms
        <5>2. released'[id] = Credited(released[id], t.principal, 0, t.fee)
          BY <1>1, <2>1 DEF TypeOK
        <5> QED
          BY <4>1, <5>1, <5>2, FirstPayout
      <4>3. settled'[id] /\ state'[id] = "Paid"
        BY <1>1, <2>1 DEF TypeOK
      <4> QED
        BY <1>3, <3>1, <4>2, <4>3
    <3>2. CASE k # id
      <4>1. settled'[k] = settled[k] /\ state'[k] = state[k] /\ released'[k] = released[k]
        BY <1>1, <2>1, <3>2 DEF TypeOK
      <4> QED
        BY <4>1 DEF LedgerInv, PaysOutExactlyOnce
    <3> QED
      BY <3>1, <3>2
  <2> QED
    BY <1>1, <2>2, <2>3, <2>4 DEF LedgerInv
<1> QED
  BY <1>4, <1>5

LEMMA LedgerJobStep ==
    ASSUME LedgerInv, NEW id \in JobIds, JobStep(id)
    PROVE  LedgerInv'
<1>1. TypeOK /\ TypeOK'
  BY TypeJobStep DEF LedgerInv
<1> DEFINE others(new) ==
       /\ \A k \in JobIds \ {id} : current'[k] = current[k] /\ state'[k] = state[k]
       /\ state'[id] = new
       /\ UNCHANGED <<nextJobId, terms, settled, released>>
<1>2. ASSUME NEW sender \in Address, acceptJob(sender, id) PROVE LedgerInv'
  <2>1. others("Accepted") /\ state[id] = "Created" /\ terms[id].contractor \in Address
    BY <1>1, <1>2 DEF acceptJob, TypeOK, history
  <2>2. Exists(id)
    BY <2>1, AddressAssumption DEF LedgerInv, NeverCreated, NoTerms
  <2> QED
    BY <1>1, <2>1, <2>2, LedgerQuietStep DEF State
<1>3. ASSUME NEW sender \in Address, cancelUnaccepted(sender, id) PROVE LedgerInv'
  <2>1. ~settled[id] /\ ReturnToClient(id, "Cancelled")
    BY <1>3 DEF cancelUnaccepted, LedgerInv, PaysOutExactlyOnce
  <2> QED
    BY <2>1, LedgerReturn
<1>4. ASSUME NEW sender \in Address, NEW artifact \in Artifacts, submitAttempt(sender, id, artifact)
      PROVE LedgerInv'
  <2>1. others("RandomnessPending") /\ state[id] \in {"Accepted", "AwaitingResubmission", "Retryable"}
    BY <1>1, <1>4 DEF submitAttempt, TypeOK, history
  <2>2. Exists(id)
    BY <2>1 DEF LedgerInv, NeverCreated
  <2> QED
    BY <1>1, <2>1, <2>2, LedgerQuietStep DEF State
<1>5. CASE lockRandomness(id)
  <2>1. /\ state[id] = "RandomnessPending"
        /\ others("ReadyToVerify") \/ others("RandomnessPending")
    BY <1>1, <1>5 DEF lockRandomness, TypeOK, history
  <2>2. Exists(id)
    BY <2>1 DEF LedgerInv, NeverCreated
  <2> QED
    BY <1>1, <2>1, <2>2, LedgerQuietStep DEF State
<1>6. CASE dispatchVerification(id)
  <2>1. others("Verifying") /\ state[id] = "ReadyToVerify"
    BY <1>1, <1>6 DEF dispatchVerification, TypeOK, history
  <2>2. Exists(id)
    BY <2>1 DEF LedgerInv, NeverCreated
  <2> QED
    BY <1>1, <2>1, <2>2, LedgerQuietStep DEF State
<1>7. CASE expireVerification(id)
  <2>1. others("Retryable") /\ state[id] = "Verifying"
    BY <1>1, <1>7 DEF expireVerification, TypeOK, history
  <2>2. Exists(id)
    BY <2>1 DEF LedgerInv, NeverCreated
  <2> QED
    BY <1>1, <2>1, <2>2, LedgerQuietStep DEF State
<1>8. CASE Settle(id)
  BY <1>8, SettleDelivers, LedgerSettle
<1>9. CASE refundExpired(id)
  BY <1>9, LedgerReturn DEF refundExpired
<1> QED
  BY <1>2, <1>3, <1>4, <1>5, <1>6, <1>7, <1>8, <1>9 DEF JobStep, PartyStep

(* Steps that touch neither jobs nor the ledger. *)
LEMMA LedgerFrame ==
    ASSUME LedgerInv, TypeOK', UNCHANGED <<nextJobId, terms, current, state, settled, released>>
    PROVE  LedgerInv'
BY DEF LedgerInv, NeverCreated, PartiesKnown, PaysOutExactlyOnce, Exists

LEMMA LedgerStep == LedgerInv /\ [Next]_vars => LedgerInv'
<1> SUFFICES ASSUME LedgerInv, [Next]_vars PROVE LedgerInv'
  OBVIOUS
<1>1. TypeOK'
  BY TypeStep DEF LedgerInv
<1>2. CASE Administer
  BY <1>1, <1>2, LedgerFrame DEF Administer, storage, history
<1>3. CASE Create
  BY <1>3, CreateInputs, LedgerCreate
<1>4. ASSUME NEW id \in JobIds, JobStep(id) PROVE LedgerInv'
  BY <1>4, LedgerJobStep
<1>5. CASE Environment
  BY <1>1, <1>5, LedgerFrame
  DEF Environment, Tick, FinalizeRound, ChangeTeeStatus, ChangeCode, storage, history
<1>6. CASE UNCHANGED vars
  BY <1>1, <1>6, LedgerFrame DEF vars, storage, history
<1> QED
  BY <1>2, <1>3, <1>4, <1>5, <1>6 DEF Next

LEMMA LedgerInvariant == Spec => []LedgerInv
<1> QED
  BY LedgerInit, LedgerStep, PTL DEF Spec

(* Every job's tokens leave the contract at most once and in full, to the  *)
(* contractor and the treasury or to the client, as its state says.        *)
THEOREM PayoutCorrect == Spec => []PaysOutExactlyOnce
<1>1. LedgerInv => PaysOutExactlyOnce
  BY DEF LedgerInv
<1> QED
  BY <1>1, LedgerInvariant, PTL
-----------------------------------------------------------------------------
(***************************************************************************)
(* The escrow is solvent for every number of jobs and every sequence of    *)
(* calls: it holds exactly the token units it owes.  The units owed are a  *)
(* finite set, so the sum over all jobs is a cardinality, and the steps    *)
(* that create or settle a job add or remove that job's units.             *)
(***************************************************************************)

UnitsOf(id, n) == {id} \X (1..n)

(* A job that owes n tokens contributes n units. *)
LEMMA UnitsOfCardinality ==
    ASSUME NEW id, NEW n \in Nat
    PROVE  IsFiniteSet(UnitsOf(id, n)) /\ Cardinality(UnitsOf(id, n)) = n
<1>1. IsFiniteSet({id}) /\ Cardinality({id}) = 1
  BY FS_Singleton
<1>2. IsFiniteSet(1..n) /\ Cardinality(1..n) = n
  BY FS_Interval
<1>3. /\ IsFiniteSet({id} \X (1..n))
      /\ Cardinality({id} \X (1..n)) = Cardinality({id}) * Cardinality(1..n)
  BY <1>1, <1>2, FS_Product
<1> QED
  BY <1>1, <1>2, <1>3 DEF UnitsOf

LEMMA OwedUnitsMember ==
    \A p : p \in OwedUnits <=> \E k \in JobIds : \E n \in 1..Owed(k) : p = <<k, n>>
BY DEF OwedUnits

LEMMA UnitsOfMember ==
    ASSUME NEW id, NEW n
    PROVE  \A p : p \in UnitsOf(id, n) <=> \E m \in 1..n : p = <<id, m>>
BY DEF UnitsOf

(* A job that owed nothing owes n tokens after the step. *)
LEMMA UnitsAdded ==
    ASSUME IsFiniteSet(OwedUnits), NEW id \in JobIds, NEW n \in Nat,
           Owed(id) = 0, Owed(id)' = n, \A k \in JobIds \ {id} : Owed(k)' = Owed(k)
    PROVE  IsFiniteSet(OwedUnits)' /\ Cardinality(OwedUnits)' = Cardinality(OwedUnits) + n
<1>0. \A p : p \in OwedUnits' <=> \E k \in JobIds : \E m \in 1..(Owed(k)') : p = <<k, m>>
  BY DEF OwedUnits, JobIds
<1>1. OwedUnits' = OwedUnits \cup UnitsOf(id, n)
  <2>1. ASSUME NEW p \in OwedUnits' PROVE p \in OwedUnits \cup UnitsOf(id, n)
    BY <1>0, OwedUnitsMember, UnitsOfMember
  <2>2. ASSUME NEW p \in OwedUnits PROVE p \in OwedUnits'
    <3>1. PICK k \in JobIds : \E m \in 1..Owed(k) : p = <<k, m>>
      BY OwedUnitsMember
    <3>2. k # id
      BY <3>1
    <3> QED
      BY <1>0, <3>1, <3>2
  <2>3. ASSUME NEW p \in UnitsOf(id, n) PROVE p \in OwedUnits'
    BY <1>0, UnitsOfMember
  <2> QED
    BY <2>1, <2>2, <2>3
<1>2. OwedUnits \cap UnitsOf(id, n) = {}
  BY OwedUnitsMember, UnitsOfMember
<1>3. IsFiniteSet(UnitsOf(id, n)) /\ Cardinality(UnitsOf(id, n)) = n
  BY UnitsOfCardinality
<1>4. /\ IsFiniteSet(OwedUnits \cup UnitsOf(id, n))
      /\ Cardinality(OwedUnits \cup UnitsOf(id, n))
           = Cardinality(OwedUnits) + Cardinality(UnitsOf(id, n))
             - Cardinality(OwedUnits \cap UnitsOf(id, n))
  BY <1>3, FS_Union
<1>5. Cardinality(OwedUnits \cap UnitsOf(id, n)) = 0
  BY <1>2, FS_EmptySet
<1>6. Cardinality(OwedUnits) \in Nat
  BY FS_CardinalityType
<1> QED
  BY <1>1, <1>3, <1>4, <1>5, <1>6

(* A job that owed n tokens owes nothing after the step. *)
LEMMA UnitsRemoved ==
    ASSUME IsFiniteSet(OwedUnits), NEW id \in JobIds, NEW n \in Nat,
           Owed(id) = n, Owed(id)' = 0, \A k \in JobIds \ {id} : Owed(k)' = Owed(k)
    PROVE  IsFiniteSet(OwedUnits)' /\ Cardinality(OwedUnits)' = Cardinality(OwedUnits) - n
<1>0. \A p : p \in OwedUnits' <=> \E k \in JobIds : \E m \in 1..(Owed(k)') : p = <<k, m>>
  BY DEF OwedUnits, JobIds
<1>1. OwedUnits' = OwedUnits \ UnitsOf(id, n)
  <2>1. ASSUME NEW p \in OwedUnits' PROVE p \in OwedUnits /\ p \notin UnitsOf(id, n)
    <3>1. PICK k \in JobIds : \E m \in 1..(Owed(k)') : p = <<k, m>>
      BY <1>0
    <3>2. k # id
      BY <3>1
    <3> QED
      BY <3>1, <3>2, OwedUnitsMember, UnitsOfMember
  <2>2. ASSUME NEW p \in OwedUnits, p \notin UnitsOf(id, n) PROVE p \in OwedUnits'
    <3>1. PICK k \in JobIds : \E m \in 1..Owed(k) : p = <<k, m>>
      BY OwedUnitsMember
    <3>2. k # id
      BY <2>2, <3>1, UnitsOfMember
    <3> QED
      BY <1>0, <3>1, <3>2
  <2> QED
    BY <2>1, <2>2
<1>2. OwedUnits \cap UnitsOf(id, n) = UnitsOf(id, n)
  BY OwedUnitsMember, UnitsOfMember
<1>3. Cardinality(UnitsOf(id, n)) = n
  BY UnitsOfCardinality
<1>4. /\ IsFiniteSet(OwedUnits \ UnitsOf(id, n))
      /\ Cardinality(OwedUnits \ UnitsOf(id, n))
           = Cardinality(OwedUnits) - Cardinality(OwedUnits \cap UnitsOf(id, n))
  BY FS_Difference
<1> QED
  BY <1>1, <1>2, <1>3, <1>4

LEMMA UnitsKept ==
    ASSUME \A k \in JobIds : Owed(k)' = Owed(k)
    PROVE  OwedUnits' = OwedUnits
<1>0. \A p : p \in OwedUnits' <=> \E k \in JobIds : \E m \in 1..(Owed(k)') : p = <<k, m>>
  BY DEF OwedUnits, JobIds
<1> QED
  BY <1>0, OwedUnitsMember
-----------------------------------------------------------------------------
SolventInv == LedgerInv /\ IsFiniteSet(OwedUnits) /\ Solvent

LEMMA SolventInit == Init => SolventInv
<1> SUFFICES ASSUME Init PROVE SolventInv
  OBVIOUS
<1>1. \A k \in JobIds : Owed(k) = 0
  BY DEF Init, Owed, Exists, JobIds
<1>2. OwedUnits = {}
  BY <1>1, OwedUnitsMember
<1>3. balance[Self] = 0
  BY DEF Init, Accounts
<1> QED
  BY <1>2, <1>3, LedgerInit, FS_EmptySet DEF SolventInv, Solvent

(* What a job owes is a natural number. *)
LEMMA OwedType ==
    ASSUME TypeOK, NEW id \in JobIds
    PROVE  Owed(id) \in Nat
<1>1. terms[id] \in JobTerms
  BY DEF TypeOK
<1> QED
  BY <1>1 DEF JobTerms, Owed

(* Steps that neither create nor settle a job nor move tokens. *)
LEMMA SolventFrame ==
    ASSUME SolventInv, LedgerInv', UNCHANGED <<nextJobId, terms, settled, balance>>
    PROVE  SolventInv'
<1>1. \A k \in JobIds : Owed(k)' = Owed(k)
  BY DEF Owed, Exists
<1> QED
  BY <1>1, UnitsKept DEF SolventInv, Solvent

LEMMA SolventCreate ==
    ASSUME SolventInv, LedgerInv', NEW sender \in Address, NEW contractor \in Accounts \cup {Zero},
           NEW tee \in Tees, NEW principal \in Principals, NEW s \in Schedule,
           NEW commitment \in Commitments,
           createJob(sender, contractor, tee, principal, s, commitment)
    PROVE  SolventInv'
<1>1. TypeOK /\ LedgerInv
  BY DEF SolventInv, LedgerInv
<1>0. PICK id \in JobIds : id = nextJobId
  BY DEF createJob
<1>a. PICK amount : amount = principal + Fee(principal)
  OBVIOUS
<1>2. principal \in Nat /\ Fee(principal) \in Nat /\ amount \in Nat
  BY <1>1, <1>a, FeeType, TokenAssumption
<1>3. /\ id \in Nat /\ nextJobId' = id + 1
      /\ UNCHANGED settled
      /\ balance' = Moved(balance, sender, Self, amount)
  BY <1>0, <1>1, <1>a DEF createJob, JobIds
<1>4. /\ terms'[id].principal = principal /\ terms'[id].fee = Fee(principal)
      /\ \A k \in JobIds \ {id} : terms'[k] = terms[k]
  BY <1>0, <1>1, <1>3 DEF createJob, TypeOK
<1>5. ~Exists(id) /\ \A k \in JobIds : Exists(k)' <=> (Exists(k) \/ k = id)
  BY <1>0, <1>3 DEF Exists, JobIds
<1>b. ~settled[id]
  BY <1>1, <1>5 DEF LedgerInv, PaysOutExactlyOnce
<1>6. Owed(id) = 0 /\ Owed(id)' = amount
  BY <1>3, <1>4, <1>5, <1>a, <1>b DEF Owed
<1>7. \A k \in JobIds \ {id} : Owed(k)' = Owed(k)
  BY <1>3, <1>4, <1>5 DEF Owed
<1>8. IsFiniteSet(OwedUnits)' /\ Cardinality(OwedUnits)' = Cardinality(OwedUnits) + amount
  BY <1>2, <1>3, <1>6, <1>7, UnitsAdded DEF SolventInv
<1>9. balance'[Self] = balance[Self] + amount
  <2>1. sender # Self /\ Self \in Accounts /\ sender \in Accounts
    BY InputAssumption, AddressAssumption DEF Accounts
  <2> QED
    BY <1>1, <1>2, <1>3, <2>1 DEF Moved, TypeOK
<1> QED
  BY <1>8, <1>9 DEF SolventInv, Solvent

LEMMA SolventReturn ==
    ASSUME SolventInv, LedgerInv', NEW id \in JobIds, NEW new \in {"Cancelled", "Refunded"},
           ~settled[id], ReturnToClient(id, new)
    PROVE  SolventInv'
<1> DEFINE amount == terms[id].principal + terms[id].fee
<1>1. TypeOK /\ LedgerInv
  BY DEF SolventInv, LedgerInv
<1>2. Exists(id)
  BY <1>1, ReturnExists DEF State
<1>3. /\ UNCHANGED <<nextJobId, terms>>
      /\ settled' = [settled EXCEPT ![id] = TRUE]
      /\ balance' = Moved(balance, Self, terms[id].client, amount)
  BY DEF ReturnToClient
<1>4. Owed(id) = amount /\ Owed(id)' = 0
  BY <1>1, <1>2, <1>3 DEF Owed, TypeOK
<1>5. \A k \in JobIds \ {id} : Owed(k)' = Owed(k)
  BY <1>1, <1>3 DEF Owed, Exists, TypeOK
<1>6. amount \in Nat
  BY <1>1, <1>4, OwedType
<1>7. IsFiniteSet(OwedUnits)' /\ Cardinality(OwedUnits)' = Cardinality(OwedUnits) - amount
  BY <1>4, <1>5, <1>6, UnitsRemoved DEF SolventInv
<1>8. balance'[Self] = balance[Self] - amount
  <2>1. terms[id].client \in Address
    BY <1>1, <1>2 DEF LedgerInv, PartiesKnown
  <2>2. terms[id].client # Self /\ Self \in Accounts /\ terms[id].client \in Accounts
    BY <2>1, AddressAssumption DEF Accounts
  <2> HIDE DEF amount
  <2> QED
    BY <1>1, <1>3, <1>6, <2>2 DEF Moved, TypeOK
<1> QED
  BY <1>7, <1>8 DEF SolventInv, Solvent

LEMMA SolventSettle ==
    ASSUME SolventInv, LedgerInv', NEW id \in JobIds, NEW r, settleAttempt(id, r)
    PROVE  SolventInv'
<1> DEFINE t == terms[id]
           b == Moved(balance, Self, t.contractor, t.principal)
<1>1. TypeOK /\ LedgerInv
  BY DEF SolventInv, LedgerInv
<1>2. state[id] = "Verifying" /\ UNCHANGED <<nextJobId, terms>>
  BY DEF settleAttempt
<1>3. Exists(id) /\ ~settled[id]
  BY <1>1, <1>2 DEF LedgerInv, NeverCreated, PaysOutExactlyOnce
<1>4. CASE r.outcome # "Pass"
  BY <1>2, <1>4, SolventFrame DEF settleAttempt
<1>5. CASE r.outcome = "Pass"
  <2>1. /\ settled' = [settled EXCEPT ![id] = TRUE]
        /\ balance' = Moved(b, Self, Treasury, t.fee)
    BY <1>5 DEF settleAttempt, PayContractor
  <2>2. Owed(id) = t.principal + t.fee /\ Owed(id)' = 0
    BY <1>1, <1>2, <1>3, <2>1 DEF Owed, TypeOK
  <2>3. \A k \in JobIds \ {id} : Owed(k)' = Owed(k)
    BY <1>1, <1>2, <2>1 DEF Owed, Exists, TypeOK
  <2>4. t.principal \in Nat /\ t.fee \in Nat /\ t.principal + t.fee \in Nat
    <3>1. t \in JobTerms
      BY <1>1 DEF TypeOK
    <3> QED
      BY <3>1 DEF JobTerms
  <2>5. /\ IsFiniteSet(OwedUnits)'
        /\ Cardinality(OwedUnits)' = Cardinality(OwedUnits) - (t.principal + t.fee)
    BY <2>2, <2>3, <2>4, UnitsRemoved DEF SolventInv
  <2>6. t.contractor \in Address /\ Treasury \in Address /\ Self \notin Address
    BY <1>1, <1>2, <1>3, TokenAssumption, AddressAssumption DEF LedgerInv, PartiesKnown
  <2>7. b[Self] = balance[Self] - t.principal
    BY <1>1, <2>4, <2>6 DEF Moved, TypeOK, Accounts
  <2>8. DOMAIN b = Accounts
    BY <1>1 DEF Moved, TypeOK
  <2>9. balance'[Self] = b[Self] - t.fee
    <3> HIDE DEF b, t
    <3> QED
      BY <2>1, <2>6, <2>8 DEF Moved, Accounts
  <2>10. balance[Self] \in Nat
    BY <1>1 DEF TypeOK, Accounts
  <2>11. balance'[Self] = balance[Self] - (t.principal + t.fee)
    BY <2>4, <2>7, <2>9, <2>10
  <2> QED
    BY <2>5, <2>11 DEF SolventInv, Solvent
<1> QED
  BY <1>4, <1>5

LEMMA SolventJobStep ==
    ASSUME SolventInv, NEW id \in JobIds, JobStep(id)
    PROVE  SolventInv'
<1>1. LedgerInv'
  BY LedgerJobStep DEF SolventInv
<1>2. ASSUME NEW sender \in Address, acceptJob(sender, id) PROVE SolventInv'
  BY <1>1, <1>2, SolventFrame DEF acceptJob
<1>3. ASSUME NEW sender \in Address, cancelUnaccepted(sender, id) PROVE SolventInv'
  <2>1. ~settled[id] /\ ReturnToClient(id, "Cancelled")
    BY <1>3 DEF cancelUnaccepted, SolventInv, LedgerInv, PaysOutExactlyOnce
  <2> QED
    BY <1>1, <2>1, SolventReturn
<1>4. ASSUME NEW sender \in Address, NEW artifact \in Artifacts, submitAttempt(sender, id, artifact)
      PROVE SolventInv'
  BY <1>1, <1>4, SolventFrame DEF submitAttempt
<1>5. CASE lockRandomness(id)
  BY <1>1, <1>5, SolventFrame DEF lockRandomness
<1>6. CASE dispatchVerification(id)
  BY <1>1, <1>6, SolventFrame DEF dispatchVerification
<1>7. CASE expireVerification(id)
  BY <1>1, <1>7, SolventFrame DEF expireVerification
<1>8. CASE Settle(id)
  BY <1>1, <1>8, SettleDelivers, SolventSettle
<1>9. CASE refundExpired(id)
  BY <1>1, <1>9, SolventReturn DEF refundExpired
<1> QED
  BY <1>2, <1>3, <1>4, <1>5, <1>6, <1>7, <1>8, <1>9 DEF JobStep, PartyStep

LEMMA SolventStep == SolventInv /\ [Next]_vars => SolventInv'
<1> SUFFICES ASSUME SolventInv, [Next]_vars PROVE SolventInv'
  OBVIOUS
<1>1. LedgerInv'
  BY LedgerStep DEF SolventInv
<1>2. CASE Administer
  BY <1>1, <1>2, SolventFrame DEF Administer, storage
<1>3. CASE Create
  BY <1>1, <1>3, CreateInputs, SolventCreate
<1>4. ASSUME NEW id \in JobIds, JobStep(id) PROVE SolventInv'
  BY <1>4, SolventJobStep
<1>5. CASE Environment
  BY <1>1, <1>5, SolventFrame
  DEF Environment, Tick, FinalizeRound, ChangeTeeStatus, ChangeCode, storage
<1>6. CASE UNCHANGED vars
  BY <1>1, <1>6, SolventFrame DEF vars, storage
<1> QED
  BY <1>2, <1>3, <1>4, <1>5, <1>6 DEF Next

LEMMA SolventInvariant == Spec => []SolventInv
<1> QED
  BY SolventInit, SolventStep, PTL DEF Spec

(* The escrow's token balance is the sum of the principals and fees of all *)
(* unsettled jobs, for any number of jobs and any sequence of calls.       *)
THEOREM EscrowIsSolvent == Spec => []Solvent
<1>1. SolventInv => Solvent
  BY DEF SolventInv
<1> QED
  BY <1>1, SolventInvariant, PTL

(* One job's debt is part of what the contract owes. *)
LEMMA OwedIsCovered ==
    ASSUME SolventInv, NEW id \in JobIds
    PROVE  balance[Self] >= Owed(id)
<1>1. Owed(id) \in Nat
  BY OwedType DEF SolventInv, LedgerInv
<1>2. UnitsOf(id, Owed(id)) \in SUBSET OwedUnits
  BY OwedUnitsMember, UnitsOfMember
<1>3. Cardinality(UnitsOf(id, Owed(id))) <= Cardinality(OwedUnits)
  BY <1>2, FS_Subset DEF SolventInv
<1>4. Cardinality(UnitsOf(id, Owed(id))) = Owed(id)
  BY <1>1, UnitsOfCardinality
<1>5. Cardinality(OwedUnits) \in Nat
  BY FS_CardinalityType DEF SolventInv
<1> QED
  BY <1>1, <1>3, <1>4, <1>5 DEF SolventInv, Solvent

(* Once a job's grace period is over, its refund cannot revert, whatever   *)
(* the other jobs did.                                                     *)
THEOREM RefundAlwaysFunded == Spec => []RefundCannotRevert
<1>1. SolventInv => RefundCannotRevert
  <2> SUFFICES ASSUME SolventInv, NEW id \in JobIds, Exists(id), ~settled[id]
               PROVE  TokenAccepts(balance, Self, terms[id].client,
                                   terms[id].principal + terms[id].fee)
    BY DEF RefundCannotRevert
  <2>1. balance[Self] >= terms[id].principal + terms[id].fee
    BY OwedIsCovered DEF Owed
  <2>2. terms[id].client # Zero
    BY AddressAssumption DEF SolventInv, LedgerInv, PartiesKnown
  <2> QED
    BY <2>1, <2>2 DEF TokenAccepts
<1> QED
  BY <1>1, SolventInvariant, PTL
=============================================================================
