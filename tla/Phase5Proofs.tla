---------------------------- MODULE Phase5Proofs ----------------------------
(***************************************************************************)
(* Theorems about the programs that use the escrow, relayers and runners,  *)
(* for any number of both beside other clients, strangers and the owner,   *)
(* any schedules, timeouts and answers, crashes and proxy errors.          *)
(*                                                                         *)
(* Whether a transaction reverts is stated in Phase5 with ENABLED, but for *)
(* refundExpired and settleAttempt.  No proof here looks into ENABLED:     *)
(* what holds does so whichever of the other transactions are the ones     *)
(* that revert.                                                            *)
(***************************************************************************)
EXTENDS Phase5, EscrowVerdictProofs

(* What a relayer or a runner can have got from the proxy. *)
ProxyResults ==
    [claim : Instruction, signer : Tees, status : {0, 1}, tag : Tags, outcome : Outcome,
     passed : Nat, executed : Nat, issuedAt : Nat]

RelayRecords ==
    [pc : {"idle", "poll", "reply", "send", "mining", "done", "failed"},
     command : {"none", "relay", "expire", "refund"}, job : Nat, instructionId : Nat, deadline : Nat,
     wake : Nat, interval : Nat, asked : Nat, replied : Nat, result : Seq(ProxyResults),
     why : {"none", "timeout", "invalid", "proxy", "reverted"}]

(* The steps of a run that goes on with a job. *)
WithJob == {"waitForGrace", "acceptJob", "submitAttempt", "waitForRandomness", "dispatch", "getJob",
            "poll", "hung", "settle", "done"}

(* Those after acceptJob. *)
Hired == {"submitAttempt", "waitForRandomness", "dispatch", "getJob", "poll", "hung", "settle", "done"}

Reasons == {"none", "balance", "createJob", "refundExpired", "acceptJob", "submitAttempt", "randomness",
            "dispatchVerification", "poll", "status", "settleAttempt", "resume"}

RunnerRecords ==
    [pc : {"start", "nextJobId", "createJob", "failed", "killed"} \cup WithJob, refundOnly : BOOLEAN,
     principal : Nat, nextJobID : Nat, schedule : Schedule \cup {<<>>}, deadline : Nat,
     instructionId : Nat, result : Seq(ProxyResults), resumed : BOOLEAN, why : Reasons]

(* The result is on chain, among the settlements S, as it was signed. *)
HasVerdict(w, S) ==
    LET id == w.claim.jobId IN
    /\ id \in JobIds
    /\ \E k \in 1..Len(S[id]) : S[id][k].claim = w.claim /\ S[id][k].outcome = w.outcome

(* The result is for the instruction the relayer polls. *)
Names(a, c) == a.result.claim.instructionId = c.instructionId

(* A relayer at time t, with the instructions I and the answers A.  What   *)
(* it has not found came after it asked.                                   *)
RelayOK(c, t, I, A) ==
    /\ c \in RelayRecords
    /\ c.pc # "idle" => c.job \in JobIds
    /\ c.command = "relay" => \E i \in I : i.jobId = c.job /\ i.instructionId = c.instructionId
    /\ c.pc \in {"poll", "reply"} => c.command = "relay"
    /\ c.result # <<>> => c.command = "relay" /\ \E a \in A : c.result = <<a.result>> /\ Names(a, c)
    /\ c.pc \in {"send", "mining", "done"} /\ c.result # <<>> => validateActionResponse(c.result[1])
    /\ c.pc = "reply" => /\ c.asked <= t
                         /\ c.result = <<>> => \A a \in A : Names(a, c) => c.asked <= a.at
    /\ c.why = "timeout" => /\ c.pc = "failed" /\ c.asked <= t /\ c.deadline <= c.replied
                            /\ \A a \in A : Names(a, c) => c.asked <= a.at

(* The jobs a runner has created, or was hired for by another client. *)
MyJobs(r) == created[r] \cup {id \in JobIds : terms[id].contractor = r /\ terms[id].client \in Clients}

(* A runner with the jobs K, when next is the next job id. *)
RunnerOK(c, next, A, S, K) ==
    /\ c \in RunnerRecords
    /\ c.pc \in WithJob => c.nextJobID \in JobIds
    /\ c.pc \in {"nextJobId", "createJob"} => c.principal \in Principals
    /\ c.pc = "createJob" => c.nextJobID <= next /\ c.schedule \in Schedule
    /\ c.result # <<>> => c.pc \in {"settle", "done", "failed", "killed"} /\ \E a \in A : c.result = <<a.result>>
    /\ c.pc = "settle" => c.result # <<>>
    /\ c.pc = "done" /\ c.result # <<>> =>
         HasVerdict(c.result[1], S) /\ c.result[1].claim.jobId = c.nextJobID
    /\ c.pc = "waitForGrace" => c.refundOnly
    /\ c.pc = "done" => c.refundOnly \/ c.result # <<>>
    /\ c.pc \in Hired => c.refundOnly \/ c.resumed \/ c.nextJobID \in K

AnswersOK ==
    \A a \in answers : /\ a.at \in Nat /\ a.result \in ProxyResults
                       /\ a.result.claim \in sent /\ a.result.signer = a.result.claim.tee

(* A runner that has brought the result it holds on chain. *)
Delivers(c) == c.pc = "done" /\ c.result # <<>>

OneEach ==
    \A r, q \in Runners :
       Delivers(runner[r]) /\ Delivers(runner[q]) /\ runner[r].result[1].claim = runner[q].result[1].claim => r = q

JobsOfRunners ==
    \A r \in Runners, id \in JobIds : terms[id].contractor = r => id \in MyJobs(r)

RunInv ==
    /\ VerdictInv
    /\ AnswersOK
    /\ DOMAIN relay = Relayers /\ DOMAIN runner = Runners /\ DOMAIN created = Runners
    /\ \A p \in Relayers : RelayOK(relay[p], now, sent, answers)
    /\ \A r \in Runners : RunnerOK(runner[r], nextJobId, answers, settlements, MyJobs(r))
    /\ OneEach
    /\ JobsOfRunners
-----------------------------------------------------------------------------
(* What every step of the system leaves in place. *)
Grows ==
    /\ sent \subseteq sent' /\ nextJobId <= nextJobId'
    /\ now' \in Nat /\ now <= now'
    /\ answers \subseteq answers' /\ \A a \in answers' \ answers : a.at = now
    /\ \A id \in JobIds : \A k \in 1..Len(settlements[id]) :
          k \in 1..Len(settlements'[id]) /\ settlements'[id][k] = settlements[id][k]
    /\ \A r \in Runners : MyJobs(r) \subseteq MyJobs(r)'

LEMMA VerdictStays ==
    ASSUME Grows, NEW w, HasVerdict(w, settlements)
    PROVE  HasVerdict(w, settlements')
BY DEF Grows, HasVerdict

LEMMA RelayStays ==
    ASSUME Grows, now \in Nat, NEW c, RelayOK(c, now, sent, answers)
    PROVE  RelayOK(c, now', sent', answers')
<1>1. c \in RelayRecords /\ (c.pc # "idle" => c.job \in JobIds) /\ c.asked \in Nat
  BY DEF RelayOK, RelayRecords
<1>2. /\ c.command = "relay" => \E i \in sent' : i.jobId = c.job /\ i.instructionId = c.instructionId
      /\ c.result # <<>> => c.command = "relay" /\ \E a \in answers' : c.result = <<a.result>> /\ Names(a, c)
      /\ c.pc \in {"send", "mining", "done"} /\ c.result # <<>> => validateActionResponse(c.result[1])
      /\ c.pc \in {"poll", "reply"} => c.command = "relay"
  BY DEF RelayOK, Grows
<1>3. /\ now' \in Nat /\ now <= now' /\ \A a \in answers' \ answers : a.at = now
  BY DEF Grows
<1>4. ASSUME c.asked <= now, \A a \in answers : Names(a, c) => c.asked <= a.at
      PROVE  \A a \in answers' : Names(a, c) => c.asked <= a.at
  BY <1>3, <1>4
<1>5. c.asked <= now => c.asked <= now'
  BY <1>1, <1>3
<1> QED
  BY <1>1, <1>2, <1>4, <1>5 DEF RelayOK

LEMMA RunnerStays ==
    ASSUME Grows, nextJobId \in Nat, nextJobId' \in Nat, NEW r \in Runners, NEW c,
           RunnerOK(c, nextJobId, answers, settlements, MyJobs(r))
    PROVE  RunnerOK(c, nextJobId', answers', settlements', MyJobs(r)')
<1>1. c \in RunnerRecords /\ c.nextJobID \in Nat
  BY DEF RunnerOK, RunnerRecords
<1>2. c.pc = "createJob" => c.nextJobID <= nextJobId' /\ c.schedule \in Schedule
  BY <1>1 DEF RunnerOK, Grows
<1>3. c.result # <<>> =>
         c.pc \in {"settle", "done", "failed", "killed"} /\ \E a \in answers' : c.result = <<a.result>>
  BY DEF RunnerOK, Grows
<1>4. c.pc = "done" /\ c.result # <<>> =>
         HasVerdict(c.result[1], settlements') /\ c.result[1].claim.jobId = c.nextJobID
  BY VerdictStays DEF RunnerOK
<1>5. c.pc \in Hired => c.refundOnly \/ c.resumed \/ c.nextJobID \in MyJobs(r)'
  BY DEF RunnerOK, Grows
<1> QED
  BY <1>1, <1>2, <1>3, <1>4, <1>5 DEF RunnerOK

(* Everything a step does beside moving one relayer or one runner. *)
Around ==
    /\ VerdictInv' /\ Grows /\ AnswersOK' /\ JobsOfRunners'
    /\ DOMAIN created' = Runners

LEMMA CountersTyped ==
    ASSUME VerdictInv, VerdictInv'
    PROVE  now \in Nat /\ now' \in Nat /\ nextJobId \in Nat /\ nextJobId' \in Nat
BY BoundAssumption DEF VerdictInv, LedgerInv, TypeOK

LEMMA NobodyMoves ==
    ASSUME RunInv, Around, relay' = relay, runner' = runner
    PROVE  RunInv'
<1>1. now \in Nat /\ nextJobId \in Nat /\ nextJobId' \in Nat
  BY CountersTyped DEF RunInv, Around
<1>2. \A p \in Relayers : RelayOK(relay'[p], now', sent', answers')
  BY <1>1, RelayStays DEF RunInv, Around
<1>3. \A r \in Runners : RunnerOK(runner'[r], nextJobId', answers', settlements', MyJobs(r)')
  BY <1>1, RunnerStays DEF RunInv, Around
<1>4. OneEach'
  BY DEF RunInv, OneEach
<1> QED
  BY <1>2, <1>3, <1>4 DEF RunInv, Around

(* No runner has delivered the claim yet. *)
Undelivered(claim) ==
    \A r \in Runners : Delivers(runner[r]) => runner[r].result[1].claim # claim

LEMMA RelayerMoves ==
    ASSUME RunInv, Around, NEW p \in Relayers, NEW c,
           relay' = [relay EXCEPT ![p] = c], runner' = runner,
           RelayOK(c, now', sent', answers')
    PROVE  RunInv'
<1>1. now \in Nat /\ nextJobId \in Nat /\ nextJobId' \in Nat
  BY CountersTyped DEF RunInv, Around
<1>2. DOMAIN relay' = Relayers /\ relay'[p] = c /\ \A q \in Relayers : q # p => relay'[q] = relay[q]
  BY DEF RunInv
<1>3. ASSUME NEW q \in Relayers PROVE RelayOK(relay'[q], now', sent', answers')
  <2>1. CASE q = p
    BY <1>2, <2>1
  <2>2. CASE q # p
    BY <1>1, <1>2, <2>2, RelayStays DEF RunInv, Around
  <2> QED
    BY <2>1, <2>2
<1>4. \A r \in Runners : RunnerOK(runner'[r], nextJobId', answers', settlements', MyJobs(r)')
  BY <1>1, RunnerStays DEF RunInv, Around
<1>5. OneEach'
  BY <1>2 DEF RunInv, OneEach, Undelivered
<1> QED
  BY <1>2, <1>3, <1>4, <1>5 DEF RunInv, Around

LEMMA RunnerMoves ==
    ASSUME RunInv, Around, NEW r \in Runners, NEW c,
           runner' = [runner EXCEPT ![r] = c], relay' = relay,
           RunnerOK(c, nextJobId', answers', settlements', MyJobs(r)'),
           Delivers(c) => Undelivered(c.result[1].claim)
    PROVE  RunInv'
<1>1. now \in Nat /\ nextJobId \in Nat /\ nextJobId' \in Nat
  BY CountersTyped DEF RunInv, Around
<1>2. DOMAIN runner' = Runners /\ runner'[r] = c /\ \A q \in Runners : q # r => runner'[q] = runner[q]
  BY DEF RunInv
<1>3. ASSUME NEW q \in Runners
      PROVE  RunnerOK(runner'[q], nextJobId', answers', settlements', MyJobs(q)')
  <2>1. CASE q = r
    BY <1>2, <2>1
  <2>2. CASE q # r
    BY <1>1, <1>2, <2>2, RunnerStays DEF RunInv, Around
  <2> QED
    BY <2>1, <2>2
<1>4. \A p \in Relayers : RelayOK(relay'[p], now', sent', answers')
  BY <1>1, RelayStays DEF RunInv, Around
<1>5. OneEach'
  BY <1>2 DEF RunInv, OneEach, Undelivered
<1> QED
  BY <1>2, <1>3, <1>4, <1>5 DEF RunInv, Around
-----------------------------------------------------------------------------
(* The escrow under these steps. *)
EscrowGrows ==
    /\ VerdictInv'
    /\ sent \subseteq sent' /\ nextJobId <= nextJobId'
    /\ now' \in Nat /\ now <= now'
    /\ \A id \in JobIds : \A k \in 1..Len(settlements[id]) :
          k \in 1..Len(settlements'[id]) /\ settlements'[id][k] = settlements[id][k]

(* Nobody but a client hires a runner, and for the job's whole life. *)
ClientsHire ==
    \A r \in Runners, id \in JobIds :
       /\ terms[id].contractor = r => terms'[id] = terms[id]
       /\ terms'[id].contractor = r => terms[id].contractor = r \/ terms'[id].client \in Clients

(* A step on the escrow that settles nothing, of anybody, or none. *)
OtherStep ==
    \/ Administer \/ Create \/ Environment
    \/ \E id \in JobIds : PartyStep(id)
    \/ UNCHANGED vars

LEMMA NewIdIsFree ==
    ASSUME VerdictInv, nextJobId \in JobIds
    PROVE  terms[nextJobId].contractor \notin Runners
<1>1. nextJobId \in Nat
  BY BoundAssumption DEF VerdictInv, LedgerInv, TypeOK
<1>2. terms[nextJobId] = NoTerms
  BY <1>1 DEF VerdictInv, LedgerInv, NeverCreated, Exists
<1> QED
  BY <1>2, RunnerAssumption, AddressAssumption DEF NoTerms

LEMMA OtherHires ==
    ASSUME VerdictInv, Create
    PROVE  /\ ClientsHire /\ sent' = sent /\ now' = now /\ settlements' = settlements
           /\ nextJobId' = nextJobId + 1
<1>1. PICK sender \in Clients, contractor \in Contractors, tee \in Tees, principal \in Principals,
           s \in Schedules, commitment \in Commitments :
             createJob(sender, contractor, tee, principal, s, commitment)
  BY DEF Create
<1>2. /\ nextJobId \in JobIds /\ sent' = sent /\ now' = now /\ settlements' = settlements
      /\ nextJobId' = nextJobId + 1
  BY <1>1 DEF createJob, chain, registry, history
<1>3. TypeOK
  BY DEF VerdictInv, LedgerInv
<1>4. /\ terms'[nextJobId].client = sender
      /\ \A id \in JobIds : id # nextJobId => terms'[id] = terms[id]
  BY <1>1, <1>2, <1>3 DEF createJob, TypeOK
<1>5. terms[nextJobId].contractor \notin Runners
  BY <1>2, NewIdIsFree
<1> QED
  BY <1>2, <1>4, <1>5 DEF ClientsHire

LEMMA OthersGrow ==
    ASSUME VerdictInv, OtherStep
    PROVE  EscrowGrows /\ ClientsHire /\ settlements' = settlements
<1>1. [Next]_vars
  BY DEF OtherStep, Next, JobStep
<1>2. VerdictInv'
  BY <1>1, VerdictStep
<1>3. now \in Nat /\ nextJobId \in Nat /\ TypeOK
  BY <1>2, CountersTyped DEF VerdictInv, LedgerInv
<1>4. CASE Administer \/ Environment \/ UNCHANGED vars
  <2>1. /\ UNCHANGED <<terms, nextJobId, sent, settlements>> /\ (now' = now \/ now' = now + 1)
    BY <1>4 DEF Administer, Environment, Tick, FinalizeRound, ChangeTeeStatus, ChangeCode, vars, storage, chain,
                registry, history
  <2> QED
    BY <1>2, <1>3, <2>1 DEF EscrowGrows, ClientsHire
<1>5. CASE Create
  BY <1>2, <1>3, <1>5, OtherHires DEF EscrowGrows
<1>6. ASSUME NEW id \in JobIds, PartyStep(id)
      PROVE  EscrowGrows /\ ClientsHire /\ settlements' = settlements
  <2>1. CASE \E sender \in Address : \/ acceptJob(sender, id) \/ cancelUnaccepted(sender, id)
                                     \/ \E artifact \in Artifacts : submitAttempt(sender, id, artifact)
    <3>1. UNCHANGED <<terms, nextJobId, sent, settlements, now>>
      BY <2>1 DEF acceptJob, cancelUnaccepted, ReturnToClient, submitAttempt, chain, registry, history
    <3> QED
      BY <1>2, <1>3, <3>1 DEF EscrowGrows, ClientsHire
  <2>2. CASE lockRandomness(id) \/ expireVerification(id) \/ refundExpired(id)
    <3>1. UNCHANGED <<terms, nextJobId, sent, settlements, now>>
      BY <2>2 DEF lockRandomness, expireVerification, refundExpired, ReturnToClient, chain, registry, history
    <3> QED
      BY <1>2, <1>3, <3>1 DEF EscrowGrows, ClientsHire
  <2>3. CASE dispatchVerification(id)
    <3>1. UNCHANGED <<terms, nextJobId, settlements, now>> /\ sent \subseteq sent'
      BY <2>3 DEF dispatchVerification, chain, history
    <3> QED
      BY <1>2, <1>3, <3>1 DEF EscrowGrows, ClientsHire
  <2> QED
    BY <1>6, <2>1, <2>2, <2>3, Zenon DEF PartyStep
<1> QED
  BY <1>4, <1>5, <1>6 DEF OtherStep

(* A settlement: the verdict is new. *)
LEMMA SettleGrows ==
    ASSUME VerdictInv, NEW id \in JobIds, NEW w, Delivered(w), settleAttempt(id, w)
    PROVE  /\ EscrowGrows /\ ClientsHire
           /\ w.claim.jobId = id /\ HasVerdict(w, settlements')
           /\ \A u : HasVerdict(u, settlements) => u.claim # w.claim
<1>1. VerdictInv'
  BY LedgerSettle, VerdictSettle DEF VerdictInv
<1>2. /\ now \in Nat /\ nextJobId \in Nat /\ TypeOK
      /\ settlements \in [JobIds -> Seq(Verdict)]
  BY <1>1, CountersTyped DEF VerdictInv, LedgerInv, TypeOK
<1>3. /\ UNCHANGED <<terms, nextJobId, sent, now>>
      /\ settlements' = [settlements EXCEPT ![id] = Append(settlements[id], Settlement(id, w))]
      /\ state[id] = "Verifying" /\ w.claim.jobId = id /\ w.claim.attempt = current[id].attempt
  BY DEF settleAttempt, _checkBinding, _checkIdentity, chain, registry
<1>4. /\ \A k \in JobIds : k # id => settlements'[k] = settlements[k]
      /\ settlements'[id] = Append(settlements[id], Settlement(id, w))
  BY <1>2, <1>3
<1>5. PICK n \in Nat : n = Len(settlements[id])
  BY <1>2
<1>6. /\ Len(settlements'[id]) = n + 1 /\ settlements'[id][n + 1] = Settlement(id, w)
      /\ \A k \in 1..n : settlements'[id][k] = settlements[id][k]
  BY <1>2, <1>4, <1>5
<1>7. HasVerdict(w, settlements')
  <2>1. Settlement(id, w).claim = w.claim /\ Settlement(id, w).outcome = w.outcome
    BY DEF Settlement
  <2> QED
    BY <1>3, <1>5, <1>6, <2>1 DEF HasVerdict
<1>8. ASSUME NEW u, HasVerdict(u, settlements), u.claim = w.claim PROVE FALSE
  <2>1. PICK k \in 1..Len(settlements[id]) : settlements[id][k].claim = w.claim
    BY <1>3, <1>8 DEF HasVerdict
  <2>2. settlements[id][k].claim.attempt < current[id].attempt
    BY <1>3, <2>1 DEF VerdictInv, VerdictsArePast, Open
  <2>3. settlements[id][k].claim.attempt \in Nat
    BY <1>2, <2>1, AttemptOfVerdict
  <2> QED
    BY <1>3, <2>1, <2>2, <2>3
<1>9. EscrowGrows
  BY <1>1, <1>2, <1>3, <1>4, <1>5, <1>6 DEF EscrowGrows
<1> QED
  BY <1>3, <1>7, <1>8, <1>9 DEF ClientsHire

(* A step that leaves the answers and the created jobs as they are. *)
LEMMA QuietAround ==
    ASSUME RunInv, EscrowGrows, ClientsHire, UNCHANGED <<answers, created>>
    PROVE  Around
<1>1. \A r \in Runners : MyJobs(r) \subseteq MyJobs(r)'
  BY DEF ClientsHire, MyJobs
<1>2. Grows
  BY <1>1 DEF EscrowGrows, Grows
<1>3. AnswersOK'
  BY DEF EscrowGrows, RunInv, AnswersOK
<1>4. JobsOfRunners'
  BY <1>1 DEF ClientsHire, RunInv, JobsOfRunners, MyJobs
<1> QED
  BY <1>2, <1>3, <1>4 DEF Around, EscrowGrows, RunInv
-----------------------------------------------------------------------------
(* The relayers. *)
LEMMA RelayQuiet ==
    ASSUME RunInv, UNCHANGED <<vars, answers, created, runner>>, NEW p \in Relayers, NEW c,
           relay' = [relay EXCEPT ![p] = c], RelayOK(c, now, sent, answers)
    PROVE  RunInv'
<1>1. Around
  BY OthersGrow, QuietAround DEF OtherStep, RunInv
<1>2. now' = now /\ sent' = sent
  BY DEF vars, chain, registry
<1> QED
  BY <1>1, <1>2, RelayerMoves

(* The polling loop is left, or the process, for any reason but the        *)
(* timeout.                                                                *)
Left(c, pc, why) ==
    [c EXCEPT !.pc = pc, !.why = why, !.deadline = 0, !.wake = 0, !.interval = 0, !.asked = 0, !.replied = 0]

LEMMA EndsOK ==
    ASSUME NEW t, NEW I, NEW A, NEW c, RelayOK(c, t, I, A), c.pc # "idle",
           NEW pc \in {"send", "mining", "done", "failed"}, NEW why \in {"none", "invalid", "proxy", "reverted"},
           pc # "failed" /\ c.result # <<>> => validateActionResponse(c.result[1]),
           NEW d, d = Left(c, pc, why)
    PROVE  /\ RelayOK(d, t, I, A) /\ d.pc = pc /\ d.result = c.result /\ d.job = c.job
           /\ d.command = c.command /\ d.instructionId = c.instructionId
<1>1. c \in RelayRecords
  BY DEF RelayOK
<1>2. /\ d \in RelayRecords /\ d.pc = pc /\ d.why = why /\ d.result = c.result /\ d.job = c.job
      /\ d.command = c.command /\ d.instructionId = c.instructionId
  BY <1>1 DEF RelayRecords, Left
<1> QED
  BY <1>2 DEF RelayOK, Names

LEMMA RelayEnds ==
    ASSUME RunInv, NEW p \in Relayers, NEW pc, NEW why, Ends(p, pc, why)
    PROVE  relay' = [relay EXCEPT ![p] = Left(relay[p], pc, why)]
BY DEF Ends, RunInv, Left

LEMMA RelayLeaves ==
    ASSUME RunInv, UNCHANGED <<vars, answers, created, runner>>, NEW p \in Relayers, relay[p].pc # "idle",
           NEW pc \in {"send", "mining", "done", "failed"}, NEW why \in {"none", "invalid", "proxy", "reverted"},
           pc # "failed" /\ relay[p].result # <<>> => validateActionResponse(relay[p].result[1]),
           Ends(p, pc, why)
    PROVE  RunInv'
<1>1. RelayOK(relay[p], now, sent, answers)
  BY DEF RunInv
<1>2. PICK c : c = Left(relay[p], pc, why)
  OBVIOUS
<1>4. relay' = [relay EXCEPT ![p] = c]
  BY <1>2, RelayEnds
<1>3. RelayOK(c, now, sent, answers)
  BY <1>1, <1>2, EndsOK
<1> QED
  BY <1>3, <1>4, RelayQuiet

LEMMA RelayStarts ==
    ASSUME RunInv, UNCHANGED runnerVars, NEW p \in Relayers, runCli(p)
    PROVE  RunInv'
<1>1. UNCHANGED <<vars, answers, created, runner>>
  BY DEF runCli, runnerVars
<1>2. TypeOK /\ now \in Nat /\ <<>> \in Seq(ProxyResults)
  BY BoundAssumption DEF RunInv, VerdictInv, LedgerInv, TypeOK
<1>3. JobIds \subseteq Nat
  BY DEF JobIds
<1>4. ASSUME NEW i \in sent, NEW c,
             c = [pc |-> "poll", command |-> "relay", job |-> i.jobId, instructionId |-> i.instructionId,
                  deadline |-> now + RelayTimeout, wake |-> now, interval |-> InitialInterval, asked |-> 0,
                  replied |-> 0, result |-> <<>>, why |-> "none"]
      PROVE  RelayOK(c, now, sent, answers)
  <2>1. i.jobId \in JobIds /\ i.instructionId \in Nat
    BY <1>2 DEF TypeOK, Instruction
  <2>2. c \in RelayRecords
    <3>1. i.jobId \in Nat
      BY <1>3, <2>1
    <3>2. RelayTimeout \in Nat /\ InitialInterval \in Nat
      BY RelayerAssumption
    <3>3. now + RelayTimeout \in Nat
      BY <1>2, <3>2
    <3> QED
      BY <1>2, <1>4, <2>1, <3>1, <3>2, <3>3 DEF RelayRecords
  <2> QED
    BY <1>4, <2>1, <2>2 DEF RelayOK
<1>5. ASSUME NEW id \in JobIds, NEW command \in {"expire", "refund"}, NEW c,
             c = [pc |-> "send", command |-> command, job |-> id, instructionId |-> 0, deadline |-> 0, wake |-> 0,
                  interval |-> 0, asked |-> 0, replied |-> 0, result |-> <<>>, why |-> "none"]
      PROVE  RelayOK(c, now, sent, answers)
  <2>1. c \in RelayRecords
    BY <1>2, <1>3, <1>5 DEF RelayRecords
  <2> QED
    BY <1>5, <2>1 DEF RelayOK
<1>6. \E c : relay' = [relay EXCEPT ![p] = c] /\ RelayOK(c, now, sent, answers)
  <2>1. CASE \E i \in sent :
               relay' = [relay EXCEPT ![p] = [IdleRelay EXCEPT
                  !.pc = "poll", !.command = "relay", !.job = i.jobId, !.instructionId = i.instructionId,
                  !.deadline = now + RelayTimeout, !.wake = now, !.interval = InitialInterval]]
    <3>1. PICK i \in sent :
               relay' = [relay EXCEPT ![p] = [IdleRelay EXCEPT
                  !.pc = "poll", !.command = "relay", !.job = i.jobId, !.instructionId = i.instructionId,
                  !.deadline = now + RelayTimeout, !.wake = now, !.interval = InitialInterval]]
      BY <2>1
    <3>2. PICK d, j, n : d = now + RelayTimeout /\ j = i.jobId /\ n = i.instructionId
      OBVIOUS
    <3>3. PICK c : c = [IdleRelay EXCEPT
                  !.pc = "poll", !.command = "relay", !.job = j, !.instructionId = n,
                  !.deadline = d, !.wake = now, !.interval = InitialInterval]
      OBVIOUS
    <3>4. c = [pc |-> "poll", command |-> "relay", job |-> i.jobId, instructionId |-> i.instructionId,
               deadline |-> now + RelayTimeout, wake |-> now, interval |-> InitialInterval, asked |-> 0,
               replied |-> 0, result |-> <<>>, why |-> "none"]
      BY <3>2, <3>3 DEF IdleRelay
    <3>5. relay' = [relay EXCEPT ![p] = c]
      BY <3>1, <3>2, <3>3
    <3> QED
      BY <1>4, <3>4, <3>5
  <2>2. CASE \E id \in JobIds, command \in {"expire", "refund"} :
               relay' = [relay EXCEPT ![p] = [IdleRelay EXCEPT !.pc = "send", !.command = command, !.job = id]]
    <3>1. PICK id \in JobIds, command \in {"expire", "refund"} :
               relay' = [relay EXCEPT ![p] = [IdleRelay EXCEPT !.pc = "send", !.command = command, !.job = id]]
      BY <2>2
    <3>2. PICK c : c = [IdleRelay EXCEPT !.pc = "send", !.command = command, !.job = id]
      OBVIOUS
    <3>3. c = [pc |-> "send", command |-> command, job |-> id, instructionId |-> 0, deadline |-> 0, wake |-> 0,
               interval |-> 0, asked |-> 0, replied |-> 0, result |-> <<>>, why |-> "none"]
      BY <3>2 DEF IdleRelay
    <3> QED
      BY <1>5, <3>1, <3>2, <3>3
  <2> QED
    BY <2>1, <2>2 DEF runCli
<1> QED
  BY <1>1, <1>6, RelayQuiet

(* The proxy is asked.  If it has nothing, what comes later comes at or    *)
(* after this moment.                                                      *)
LEMMA RelayAsks ==
    ASSUME RunInv, UNCHANGED runnerVars, NEW p \in Relayers, fetchActionResponse(p)
    PROVE  RunInv'
<1>1. UNCHANGED <<vars, answers, created, runner>> /\ relay[p].pc = "poll"
  BY DEF fetchActionResponse, runnerVars
<1>2. /\ RelayOK(relay[p], now, sent, answers) /\ relay[p] \in RelayRecords /\ AnswersOK
      /\ DOMAIN relay = Relayers
  BY DEF RunInv, RelayOK
<1>3. now \in Nat /\ relay[p].job \in JobIds /\ relay[p].command = "relay"
  BY <1>1, <1>2, BoundAssumption DEF RunInv, VerdictInv, LedgerInv, TypeOK, RelayOK
<1>4. PICK found \in Found(relay[p].instructionId) :
         relay' = [relay EXCEPT ![p] = [@ EXCEPT !.pc = "reply", !.asked = now, !.result = found]]
  BY DEF fetchActionResponse, Asks
<1>5. PICK c : c = [relay[p] EXCEPT !.pc = "reply", !.asked = now, !.result = found]
  OBVIOUS
<1>6. \/ found = <<>> /\ \A a \in answers : ~Names(a, relay[p])
      \/ \E a \in answers : found = <<a.result>> /\ Names(a, relay[p])
  BY <1>4 DEF Found, Available, Names
<1>7. found \in Seq(ProxyResults)
  <2>1. CASE found = <<>>
    BY <2>1
  <2>2. ASSUME NEW a \in answers, found = <<a.result>> PROVE found \in Seq(ProxyResults)
    <3>1. a.result \in ProxyResults
      BY <1>2 DEF AnswersOK
    <3> QED
      BY <2>2, <3>1
  <2> QED
    BY <1>6, <2>1, <2>2
<1>8. /\ c \in RelayRecords /\ c.pc = "reply" /\ c.asked = now /\ c.result = found /\ c.job = relay[p].job
      /\ c.command = "relay" /\ c.instructionId = relay[p].instructionId /\ c.why = relay[p].why
  BY <1>2, <1>3, <1>5, <1>7 DEF RelayRecords
<1>9. RelayOK(c, now, sent, answers)
  <2>1. /\ \E i \in sent : i.jobId = c.job /\ i.instructionId = c.instructionId
        /\ c.why # "timeout"
    BY <1>1, <1>2, <1>3, <1>8 DEF RelayOK
  <2>2. \A a \in answers : Names(a, c) <=> Names(a, relay[p])
    BY <1>8 DEF Names
  <2>3. /\ c.result # <<>> => \E a \in answers : c.result = <<a.result>> /\ Names(a, c)
        /\ c.result = <<>> => \A a \in answers : ~Names(a, c)
    <3>1. CASE found = <<>> /\ \A a \in answers : ~Names(a, relay[p])
      BY <1>8, <2>2, <3>1
    <3>2. ASSUME NEW a \in answers, found = <<a.result>>, Names(a, relay[p])
          PROVE  found # <<>> /\ Names(a, c)
      BY <2>2, <3>2
    <3> QED
      BY <1>6, <1>8, <3>1, <3>2, Zenon
  <2> QED
    BY <1>3, <1>8, <2>1, <2>3 DEF RelayOK
<1>10. relay' = [relay EXCEPT ![p] = c]
  BY <1>2, <1>4, <1>5
<1> QED
  BY <1>1, <1>9, <1>10, RelayQuiet

(* The response.  A relayer that times out has found nothing when it asked *)
(* last, and its deadline is not after the response.                       *)
LEMMA RelayPolls ==
    ASSUME RunInv, UNCHANGED runnerVars, NEW p \in Relayers, pollActionResponse(p)
    PROVE  RunInv'
<1>1. UNCHANGED <<vars, answers, created, runner>> /\ relay[p].pc = "reply"
  BY DEF pollActionResponse, runnerVars
<1>2. /\ RelayOK(relay[p], now, sent, answers) /\ relay[p] \in RelayRecords /\ DOMAIN relay = Relayers
  BY DEF RunInv, RelayOK
<1>3. now \in Nat /\ relay[p].job \in JobIds /\ relay[p].asked <= now /\ relay[p].why # "timeout"
  BY <1>1, <1>2, BoundAssumption DEF RunInv, VerdictInv, LedgerInv, TypeOK, RelayOK
<1>4. CASE validateActionResponse(relay[p].result[1]) /\ Ends(p, "send", "none")
  BY <1>1, <1>4, RelayLeaves
<1>5. CASE Ends(p, "failed", "invalid")
  BY <1>1, <1>5, RelayLeaves
<1>6. CASE /\ relay[p].result = <<>> /\ now >= relay[p].deadline
           /\ relay' = [relay EXCEPT ![p] = [@ EXCEPT !.pc = "failed", !.why = "timeout", !.replied = now]]
  <2>1. PICK c : c = [relay[p] EXCEPT !.pc = "failed", !.why = "timeout", !.replied = now]
    OBVIOUS
  <2>2. /\ c \in RelayRecords /\ c.pc = "failed" /\ c.why = "timeout" /\ c.job = relay[p].job
        /\ c.result = <<>> /\ c.deadline = relay[p].deadline /\ c.instructionId = relay[p].instructionId
        /\ c.asked = relay[p].asked /\ c.replied = now /\ c.command = relay[p].command
    BY <1>2, <1>3, <1>6, <2>1 DEF RelayRecords
  <2>3. c.deadline <= c.replied
    BY <1>3, <1>6, <2>2 DEF RelayRecords
  <2>4. RelayOK(c, now, sent, answers)
    BY <1>1, <1>2, <1>3, <1>6, <2>2, <2>3 DEF RelayOK, Names
  <2>5. relay' = [relay EXCEPT ![p] = c]
    BY <1>2, <1>6, <2>1
  <2> QED
    BY <1>1, <2>4, <2>5, RelayQuiet
<1>7. CASE /\ relay[p].result = <<>>
           /\ relay' = [relay EXCEPT ![p] =
                 [@ EXCEPT !.pc = "poll", !.replied = now, !.wake = now + relay[p].interval,
                           !.interval = NextInterval(relay[p].interval)]]
  <2>1. PICK n, time : time = now + relay[p].interval /\ n = NextInterval(relay[p].interval)
    OBVIOUS
  <2>2. relay[p].interval \in Nat
    BY <1>2 DEF RelayRecords
  <2>3. n \in Nat /\ time \in Nat
    BY <1>3, <2>1, <2>2, RelayerAssumption DEF NextInterval
  <2>4. PICK c : c = [relay[p] EXCEPT !.pc = "poll", !.replied = now, !.wake = time, !.interval = n]
    OBVIOUS
  <2>5. /\ c \in RelayRecords /\ c.pc = "poll" /\ c.why = relay[p].why /\ c.job = relay[p].job
        /\ c.result = <<>> /\ c.command = relay[p].command /\ c.instructionId = relay[p].instructionId
    BY <1>1, <1>2, <1>3, <1>7, <2>3, <2>4 DEF RelayRecords
  <2>6. RelayOK(c, now, sent, answers)
    BY <1>1, <1>2, <1>3, <2>5 DEF RelayOK
  <2>7. relay' = [relay EXCEPT ![p] = c]
    BY <1>2, <1>7, <2>1, <2>4
  <2> QED
    BY <1>1, <2>6, <2>7, RelayQuiet
<1> QED
  BY <1>4, <1>5, <1>6, <1>7 DEF pollActionResponse

LEMMA RelayErrs ==
    ASSUME RunInv, UNCHANGED runnerVars, NEW p \in Relayers, ProxyError(p)
    PROVE  RunInv'
<1>1. UNCHANGED <<vars, answers, created, runner>> /\ relay[p].pc = "reply" /\ Ends(p, "failed", "proxy")
  BY DEF ProxyError, runnerVars
<1> QED
  BY <1>1, RelayLeaves

(* A result of the proxy can be brought to the escrow. *)
LEMMA ProxyResultDelivered ==
    ASSUME AnswersOK, NEW a \in answers
    PROVE  Delivered(a.result)
BY DEF AnswersOK, Delivered, ProxyResults

(* Who has delivered a result has it on chain. *)
LEMMA NewVerdictUndelivered ==
    ASSUME RunInv, NEW claim, \A u : HasVerdict(u, settlements) => u.claim # claim
    PROVE  Undelivered(claim)
BY DEF RunInv, RelayOK, RunnerOK, Undelivered, Delivers

(* A transaction, which is estimated and mined. *)
LEMMA RelayCalls ==
    ASSUME RunInv, UNCHANGED runnerVars, NEW p \in Relayers, Settles(p) \/ Expires(p) \/ Refunds(p)
    PROVE  RunInv'
<1>1. /\ UNCHANGED <<answers, created, runner>> /\ relay[p].pc \in {"send", "mining"}
  BY DEF Settles, Expires, Refunds, sendContractCall, runnerVars
<1>2. /\ RelayOK(relay[p], now, sent, answers) /\ AnswersOK /\ VerdictInv
  BY DEF RunInv
<1>3. relay[p].job \in JobIds /\ (relay[p].result # <<>> => validateActionResponse(relay[p].result[1]))
  BY <1>1, <1>2 DEF RelayOK
<1>4. \/ UNCHANGED vars /\ \E pc \in {"mining", "done", "failed"}, why \in {"none", "reverted"} : Ends(p, pc, why)
      \/ /\ Ends(p, "done", "none")
         /\ \/ expireVerification(relay[p].job) \/ refundExpired(relay[p].job)
            \/ relay[p].result # <<>> /\ settleAttempt(relay[p].job, relay[p].result[1])
  BY DEF Settles, Expires, Refunds, sendContractCall
<1>5. CASE UNCHANGED vars /\ \E pc \in {"mining", "done", "failed"}, why \in {"none", "reverted"} : Ends(p, pc, why)
  BY <1>1, <1>3, <1>5, RelayLeaves
<1>6. ASSUME EscrowGrows, ClientsHire, Ends(p, "done", "none") PROVE RunInv'
  <2>1. PICK c : c = Left(relay[p], "done", "none")
    OBVIOUS
  <2>5. relay' = [relay EXCEPT ![p] = c]
    BY <1>6, <2>1, RelayEnds
  <2>2. RelayOK(c, now, sent, answers)
    BY <1>1, <1>2, <1>3, <2>1, EndsOK
  <2>3. Around /\ now \in Nat
    BY <1>1, <1>2, <1>6, QuietAround, CountersTyped DEF Around
  <2>4. RelayOK(c, now', sent', answers')
    BY <2>2, <2>3, RelayStays DEF Around
  <2> QED
    BY <1>1, <2>3, <2>4, <2>5, RelayerMoves
<1>7. CASE Ends(p, "done", "none") /\ (expireVerification(relay[p].job) \/ refundExpired(relay[p].job))
  <2>1. OtherStep
    BY <1>3, <1>7 DEF OtherStep, PartyStep
  <2> QED
    BY <1>2, <1>6, <1>7, <2>1, OthersGrow
<1>8. CASE /\ Ends(p, "done", "none")
           /\ relay[p].result # <<>> /\ settleAttempt(relay[p].job, relay[p].result[1])
  <2>1. PICK a \in answers : relay[p].result = <<a.result>>
    BY <1>2, <1>8 DEF RelayOK
  <2>2. relay[p].result[1] = a.result /\ Delivered(a.result)
    BY <1>2, <2>1, ProxyResultDelivered
  <2> QED
    BY <1>2, <1>3, <1>6, <1>8, <2>2, SettleGrows
<1> QED
  BY <1>4, <1>5, <1>7, <1>8

LEMMA RelayerSteps ==
    ASSUME RunInv, UNCHANGED runnerVars, NEW p \in Relayers, RelayerStep(p)
    PROVE  RunInv'
BY RelayStarts, RelayAsks, RelayPolls, RelayErrs, RelayCalls DEF RelayerStep
-----------------------------------------------------------------------------
(* The TEE answers. *)
LEMMA AnswerArrives ==
    ASSUME RunInv, UNCHANGED runnerVars, Answer
    PROVE  RunInv'
<1>1. UNCHANGED <<vars, relay, created, runner>>
  BY DEF Answer, runnerVars
<1>2. PICK claim \in sent, kind \in AnswerKinds, tag \in Tags :
         answers' = answers \cup {[result |-> ResultOf(claim, kind, tag), at |-> now]}
  BY DEF Answer
<1>3. EscrowGrows /\ ClientsHire /\ sent' = sent /\ now' = now /\ now \in Nat
  BY <1>1, OthersGrow, BoundAssumption
  DEF OtherStep, RunInv, VerdictInv, LedgerInv, TypeOK, vars, registry, chain
<1>4. PICK w : w = ResultOf(claim, kind, tag)
  OBVIOUS
<1>5. claim \in Instruction /\ claim.tee \in Tees
  BY DEF RunInv, VerdictInv, LedgerInv, TypeOK, Instruction
<1>6. w.claim = claim /\ w.signer = claim.tee /\ w \in ProxyResults
  BY <1>3, <1>4, <1>5, RelayerAssumption DEF ResultOf, SignedResult, ProxyResults, Outcome
<1>7. PICK b : b = [result |-> w, at |-> now]
  OBVIOUS
<1>8. b.result = w /\ b.at = now /\ answers' = answers \cup {b}
  BY <1>2, <1>4, <1>7
<1>9. AnswersOK'
  BY <1>3, <1>6, <1>8 DEF RunInv, AnswersOK
<1>10. Grows
  BY <1>1, <1>3, <1>8 DEF EscrowGrows, Grows, MyJobs, ClientsHire
<1>11. JobsOfRunners'
  BY <1>1, <1>3 DEF RunInv, JobsOfRunners, MyJobs, vars, storage
<1>12. Around
  BY <1>1, <1>3, <1>9, <1>10, <1>11 DEF Around, EscrowGrows, RunInv
<1> QED
  BY <1>1, <1>12, NobodyMoves
-----------------------------------------------------------------------------
(* The runners. *)
LEMMA RunnerCalls ==
    ASSUME RunInv, OtherStep, UNCHANGED <<answers, created, relay>>, NEW r \in Runners, NEW c,
           runner' = [runner EXCEPT ![r] = c], ~Delivers(c),
           RunnerOK(c, nextJobId, answers, settlements, MyJobs(r))
    PROVE  RunInv'
<1>1. Around
  BY OthersGrow, QuietAround DEF RunInv
<1>2. Grows /\ nextJobId \in Nat /\ nextJobId' \in Nat
  BY <1>1, CountersTyped DEF Around, RunInv
<1>3. RunnerOK(c, nextJobId', answers', settlements', MyJobs(r)')
  BY <1>2, RunnerStays
<1> QED
  BY <1>1, <1>3, RunnerMoves

(* A runner that stops, or hangs. *)
LEMMA RunnerStops ==
    ASSUME RunInv, OtherStep, UNCHANGED <<answers, created, relay>>, NEW r \in Runners,
           (\E why \in Reasons : fatalf(r, why)) \/ Goes(r, "killed")
    PROVE  RunInv'
<1>1. RunnerOK(runner[r], nextJobId, answers, settlements, MyJobs(r)) /\ runner[r] \in RunnerRecords
  BY DEF RunInv, RunnerOK
<1>2. PICK pc \in {"failed", "killed"}, why \in Reasons :
         runner' = [runner EXCEPT ![r] = [runner[r] EXCEPT !.pc = pc, !.why = why]]
  <2>1. runner[r].why \in Reasons
    BY <1>1 DEF RunnerRecords
  <2>2. CASE Goes(r, "killed")
    <3>1. [runner[r] EXCEPT !.pc = "killed"] = [runner[r] EXCEPT !.pc = "killed", !.why = runner[r].why]
      BY <1>1 DEF RunnerRecords
    <3> QED
      BY <2>1, <2>2, <3>1 DEF Goes, RunInv
  <2>3. ASSUME NEW why \in Reasons, fatalf(r, why)
        PROVE  runner' = [runner EXCEPT ![r] = [runner[r] EXCEPT !.pc = "failed", !.why = why]]
    BY <2>3 DEF fatalf, RunInv
  <2> QED
    BY <2>2, <2>3
<1>3. PICK c : c = [runner[r] EXCEPT !.pc = pc, !.why = why]
  OBVIOUS
<1>4. c \in RunnerRecords /\ c.pc = pc /\ c.result = runner[r].result
  BY <1>1, <1>3 DEF RunnerRecords
<1>5. RunnerOK(c, nextJobId, answers, settlements, MyJobs(r)) /\ ~Delivers(c)
  BY <1>1, <1>4 DEF RunnerOK, Delivers, WithJob, Hired
<1> QED
  BY <1>2, <1>3, <1>5, RunnerCalls

LEMMA RunnerFails ==
    ASSUME RunInv, UNCHANGED <<vars, answers, created, relay>>, NEW r \in Runners, NEW why \in Reasons, fatalf(r, why)
    PROVE  RunInv'
<1>1. \E x \in Reasons : fatalf(r, x)
  OBVIOUS
<1> QED
  BY <1>1, RunnerStops DEF OtherStep

(* A runner that has a job, and no result yet, goes on with it. *)
LEMMA RunnerGoes ==
    ASSUME RunInv, OtherStep, UNCHANGED <<answers, created, relay>>, NEW r \in Runners,
           NEW pc \in {"submitAttempt", "dispatch", "getJob", "hung", "done"}, Goes(r, pc),
           runner[r].pc \in WithJob \ {"settle", "done"}, pc = "done" => runner[r].refundOnly,
           runner[r].refundOnly \/ runner[r].resumed \/ runner[r].nextJobID \in MyJobs(r)
    PROVE  RunInv'
<1>1. RunnerOK(runner[r], nextJobId, answers, settlements, MyJobs(r)) /\ runner[r] \in RunnerRecords
  BY DEF RunInv, RunnerOK
<1>2. runner[r].result = <<>> /\ runner[r].nextJobID \in JobIds
  BY <1>1 DEF RunnerOK, WithJob
<1>3. PICK c : c = [runner[r] EXCEPT !.pc = pc]
  OBVIOUS
<1>4. /\ c \in RunnerRecords /\ c.pc = pc /\ c.result = runner[r].result
      /\ c.nextJobID = runner[r].nextJobID /\ c.refundOnly = runner[r].refundOnly /\ c.resumed = runner[r].resumed
  BY <1>1, <1>3 DEF RunnerRecords, WithJob
<1>5. RunnerOK(c, nextJobId, answers, settlements, MyJobs(r)) /\ ~Delivers(c)
  BY <1>1, <1>2, <1>4 DEF RunnerOK, Delivers, WithJob, Hired
<1>6. runner' = [runner EXCEPT ![r] = c]
  BY <1>3 DEF Goes, RunInv
<1> QED
  BY <1>5, <1>6, RunnerCalls

LEMMA RunnerApproves ==
    ASSUME RunInv, NEW r \in Runners, Approve(r)
    PROVE  RunInv'
<1>1. UNCHANGED <<answers, created, relay>> /\ OtherStep /\ runner[r].pc = "start"
  BY DEF Approve, At, relayerVars, OtherStep
<1>2. RunnerOK(runner[r], nextJobId, answers, settlements, MyJobs(r)) /\ runner[r] \in RunnerRecords
  BY DEF RunInv, RunnerOK
<1>3. CASE fatalf(r, "balance")
  <2>1. "balance" \in Reasons /\ UNCHANGED vars
    BY DEF Approve, Reasons
  <2> QED
    BY <1>1, <1>3, <2>1, RunnerFails
<1>4. ASSUME NEW principal \in Principals, NEW refundOnly \in Modes,
             runner' = [runner EXCEPT ![r] =
                [@ EXCEPT !.pc = "nextJobId", !.principal = principal, !.refundOnly = refundOnly]]
      PROVE  RunInv'
  <2>1. principal \in Nat /\ refundOnly \in BOOLEAN
    BY TokenAssumption, RunnerAssumption
  <2>2. PICK c : c = [runner[r] EXCEPT !.pc = "nextJobId", !.principal = principal, !.refundOnly = refundOnly]
    OBVIOUS
  <2>3. c \in RunnerRecords /\ c.pc = "nextJobId" /\ c.principal = principal /\ c.result = runner[r].result
    BY <1>2, <2>1, <2>2 DEF RunnerRecords
  <2>4. RunnerOK(c, nextJobId, answers, settlements, MyJobs(r)) /\ ~Delivers(c)
    BY <1>1, <1>2, <2>3 DEF RunnerOK, Delivers, WithJob, Hired
  <2>5. runner' = [runner EXCEPT ![r] = c]
    BY <1>4, <2>2 DEF RunInv
  <2> QED
    BY <1>1, <2>4, <2>5, RunnerCalls
<1> QED
  BY <1>3, <1>4 DEF Approve

LEMMA RunnerReads ==
    ASSUME RunInv, NEW r \in Runners, ReadNextJobId(r)
    PROVE  RunInv'
<1>1. UNCHANGED <<answers, created, relay>> /\ OtherStep /\ runner[r].pc = "nextJobId"
  BY DEF ReadNextJobId, At, relayerVars, OtherStep
<1>2. RunnerOK(runner[r], nextJobId, answers, settlements, MyJobs(r)) /\ runner[r] \in RunnerRecords
  BY DEF RunInv, RunnerOK
<1>3. now \in Nat /\ nextJobId \in Nat
  BY BoundAssumption DEF RunInv, VerdictInv, LedgerInv, TypeOK
<1>4. deadlines(Clock) \in Schedule
  <2>1. Clock \in Nat
    BY <1>3, RunnerAssumption DEF Clock
  <2>2. AcceptDelay \in Nat /\ SubmitDelay \in Nat /\ GraceDelay \in Nat /\ VerifyTimeout \in Nat
    BY FlagsAssumption DEF parseFlags
  <2> QED
    BY <2>1, <2>2 DEF deadlines, Schedule
<1>5. PICK s \in Schedule : s = deadlines(Clock)
  BY <1>4
<1>6. PICK c : c = [runner[r] EXCEPT !.pc = "createJob", !.nextJobID = nextJobId, !.schedule = s]
  OBVIOUS
<1>7. /\ c \in RunnerRecords /\ c.pc = "createJob" /\ c.nextJobID = nextJobId /\ c.schedule = s
      /\ c.result = runner[r].result /\ c.principal = runner[r].principal
  BY <1>2, <1>3, <1>6 DEF RunnerRecords
<1>8. RunnerOK(c, nextJobId, answers, settlements, MyJobs(r)) /\ ~Delivers(c)
  BY <1>1, <1>2, <1>3, <1>7 DEF RunnerOK, Delivers, WithJob, Hired
<1>9. runner' = [runner EXCEPT ![r] = c]
  BY <1>5, <1>6 DEF RunInv, ReadNextJobId
<1> QED
  BY <1>1, <1>8, <1>9, RunnerCalls

(* The job id read before createJob is not above the one the job gets. *)
LEMMA RunnerCreates ==
    ASSUME RunInv, NEW r \in Runners, CreateJob(r)
    PROVE  RunInv'
<1>1. UNCHANGED <<answers, relay>> /\ runner[r].pc = "createJob" /\ nextJobId \in JobIds
  BY DEF CreateJob, At, relayerVars
<1>2. RunnerOK(runner[r], nextJobId, answers, settlements, MyJobs(r)) /\ runner[r] \in RunnerRecords
  BY DEF RunInv, RunnerOK
<1>3. CASE fatalf(r, "createJob") /\ UNCHANGED <<vars, created>>
  <2>1. "createJob" \in Reasons
    BY DEF Reasons
  <2> QED
    BY <1>1, <1>3, <2>1, RunnerFails
<1>4. CASE /\ \E tee \in Tees, commitment \in Commitments :
                 createJob(r, r, tee, runner[r].principal, runner[r].schedule, commitment)
           /\ Goes(r, IF runner[r].refundOnly THEN "waitForGrace" ELSE "acceptJob")
           /\ created' = [created EXCEPT ![r] = @ \cup {nextJobId}]
  <2>1. PICK tee \in Tees, commitment \in Commitments :
           createJob(r, r, tee, runner[r].principal, runner[r].schedule, commitment)
    BY <1>4
  <2>2. /\ runner[r].principal \in Principals /\ runner[r].schedule \in Schedule
        /\ runner[r].nextJobID <= nextJobId /\ runner[r].result = <<>>
        /\ r \in Address /\ r \in Accounts \cup {Zero}
    BY <1>1, <1>2, RunnerAssumption DEF RunnerOK, Accounts
  <2>3. VerdictInv /\ TypeOK /\ VerdictInv'
    BY <2>1, <2>2, LedgerCreate, VerdictCreate DEF RunInv, VerdictInv, LedgerInv
  <2>4. /\ sent' = sent /\ now' = now /\ settlements' = settlements /\ nextJobId' = nextJobId + 1
    BY <2>1 DEF createJob, chain, registry, history
  <2>5. /\ terms'[nextJobId].contractor = r
        /\ \A id \in JobIds : id # nextJobId => terms'[id] = terms[id]
    BY <1>1, <2>1, <2>3 DEF createJob, TypeOK
  <2>6. now \in Nat /\ nextJobId \in Nat
    BY <2>3, CountersTyped
  <2>7. /\ DOMAIN created' = Runners /\ nextJobId \in created'[r]
        /\ \A q \in Runners : created[q] \subseteq created'[q] /\ MyJobs(q) \subseteq MyJobs(q)'
    <3>1. DOMAIN created' = Runners /\ nextJobId \in created'[r] /\ \A q \in Runners : created[q] \subseteq created'[q]
      BY <1>4 DEF RunInv
    <3>2. terms[nextJobId].contractor \notin Runners
      BY <1>1, <2>3, NewIdIsFree
    <3> QED
      BY <2>5, <3>1, <3>2 DEF MyJobs
  <2>8. Grows
    BY <1>1, <2>4, <2>6, <2>7 DEF Grows
  <2>9. AnswersOK'
    BY <1>1, <2>4 DEF RunInv, AnswersOK
  <2>10. JobsOfRunners'
    <3>1. ASSUME NEW q \in Runners, NEW id \in JobIds, terms'[id].contractor = q PROVE id \in MyJobs(q)'
      <4>1. CASE id = nextJobId
        BY <2>5, <2>7, <3>1, <4>1 DEF MyJobs
      <4>2. CASE id # nextJobId
        BY <2>5, <2>7, <3>1, <4>2 DEF RunInv, JobsOfRunners
      <4> QED
        BY <4>1, <4>2
    <3> QED
      BY <3>1 DEF JobsOfRunners
  <2>11. Around
    BY <2>3, <2>7, <2>8, <2>9, <2>10 DEF Around
  <2>12. PICK pc : pc = IF runner[r].refundOnly THEN "waitForGrace" ELSE "acceptJob"
    OBVIOUS
  <2>13. pc \in {"waitForGrace", "acceptJob"} /\ (pc = "waitForGrace" => runner[r].refundOnly)
    BY <2>12
  <2>14. PICK c : c = [runner[r] EXCEPT !.pc = pc]
    OBVIOUS
  <2>15. /\ c \in RunnerRecords /\ c.pc = pc /\ c.result = <<>> /\ c.refundOnly = runner[r].refundOnly
         /\ c.nextJobID = runner[r].nextJobID
    BY <1>2, <2>2, <2>13, <2>14 DEF RunnerRecords, WithJob
  <2>16. c.nextJobID \in JobIds
    BY <1>1, <1>2, <2>2, <2>6, <2>15, BoundAssumption DEF JobIds, RunnerRecords
  <2>17. RunnerOK(c, nextJobId', answers', settlements', MyJobs(r)') /\ ~Delivers(c)
    BY <2>13, <2>15, <2>16 DEF RunnerOK, Delivers, Hired
  <2>18. runner' = [runner EXCEPT ![r] = c]
    BY <1>4, <2>12, <2>14 DEF Goes, RunInv
  <2> QED
    BY <1>1, <2>11, <2>17, <2>18, RunnerMoves
<1> QED
  BY <1>3, <1>4 DEF CreateJob

(* A runner that has a job calls the escrow for it, and the transaction    *)
(* takes effect or reverts.                                                *)
LEMMA RunnerTransacts ==
    ASSUME RunInv, NEW r \in Runners, RefundExpired(r) \/ Dispatch(r) \/ AcceptJob(r)
    PROVE  RunInv'
<1>1. RunnerOK(runner[r], nextJobId, answers, settlements, MyJobs(r))
  BY DEF RunInv
<1>2. UNCHANGED <<answers, created, relay>> /\ runner[r].pc \in {"waitForGrace", "dispatch", "acceptJob"}
  BY DEF RefundExpired, Dispatch, AcceptJob, transact, At, relayerVars
<1>3. runner[r].nextJobID \in JobIds /\ runner[r].pc \in WithJob \ {"settle", "done"}
  BY <1>1, <1>2 DEF RunnerOK, WithJob
<1>4. ASSUME NEW why \in {"refundExpired", "dispatchVerification", "acceptJob"}, fatalf(r, why), UNCHANGED vars
      PROVE  RunInv'
  BY <1>2, <1>4, RunnerFails DEF Reasons
<1>5. CASE runner[r].pc = "waitForGrace" /\ refundExpired(runner[r].nextJobID) /\ Goes(r, "done")
  <2>1. runner[r].refundOnly
    BY <1>1, <1>5 DEF RunnerOK
  <2>2. OtherStep
    BY <1>3, <1>5 DEF OtherStep, PartyStep
  <2> QED
    BY <1>2, <1>3, <1>5, <2>1, <2>2, RunnerGoes
<1>6. CASE runner[r].pc = "dispatch" /\ dispatchVerification(runner[r].nextJobID) /\ Goes(r, "getJob")
  <2>1. runner[r].refundOnly \/ runner[r].resumed \/ runner[r].nextJobID \in MyJobs(r)
    BY <1>1, <1>6 DEF RunnerOK, Hired
  <2>2. OtherStep
    BY <1>3, <1>6 DEF OtherStep, PartyStep
  <2> QED
    BY <1>2, <1>3, <1>6, <2>1, <2>2, RunnerGoes
<1>7. CASE runner[r].pc = "acceptJob" /\ acceptJob(r, runner[r].nextJobID) /\ Goes(r, "submitAttempt")
  <2>1. runner[r].nextJobID \in MyJobs(r)
    BY <1>3, <1>7 DEF acceptJob, RunInv, JobsOfRunners
  <2>2. r \in Address
    BY RunnerAssumption
  <2>3. OtherStep
    BY <1>3, <1>7, <2>2 DEF OtherStep, PartyStep
  <2> QED
    BY <1>2, <1>3, <1>7, <2>1, <2>3, RunnerGoes
<1>8. CASE RefundExpired(r)
  BY <1>4, <1>5, <1>8 DEF RefundExpired, transact, At
<1>9. CASE Dispatch(r)
  BY <1>4, <1>6, <1>9 DEF Dispatch, transact, At
<1>10. CASE AcceptJob(r)
  BY <1>4, <1>7, <1>10 DEF AcceptJob, transact, At
<1> QED
  BY <1>8, <1>9, <1>10

LEMMA RunnerSubmits ==
    ASSUME RunInv, NEW r \in Runners, SubmitAttempt(r)
    PROVE  RunInv'
<1>1. UNCHANGED <<answers, created, relay>> /\ runner[r].pc = "submitAttempt"
  BY DEF SubmitAttempt, At, relayerVars
<1>2. RunnerOK(runner[r], nextJobId, answers, settlements, MyJobs(r)) /\ runner[r] \in RunnerRecords
  BY DEF RunInv, RunnerOK
<1>3. CASE fatalf(r, "submitAttempt") /\ UNCHANGED vars
  <2>1. "submitAttempt" \in Reasons
    BY DEF Reasons
  <2> QED
    BY <1>1, <1>3, <2>1, RunnerFails
<1>4. CASE /\ \E artifact \in Artifacts : submitAttempt(r, runner[r].nextJobID, artifact)
           /\ runner' = [runner EXCEPT ![r] =
                 [@ EXCEPT !.pc = "waitForRandomness", !.deadline = Clock + RandomnessTimeout]]
  <2>1. runner[r].nextJobID \in JobIds /\ r \in Address /\ runner[r].result = <<>>
    BY <1>1, <1>2, RunnerAssumption DEF RunnerOK, WithJob
  <2>2. OtherStep
    BY <1>4, <2>1 DEF OtherStep, PartyStep
  <2>3. now \in Nat
    BY BoundAssumption DEF RunInv, VerdictInv, LedgerInv, TypeOK
  <2>4. PICK d \in Nat : d = Clock + RandomnessTimeout
    BY <2>3, RunnerAssumption DEF Clock
  <2>5. PICK c : c = [runner[r] EXCEPT !.pc = "waitForRandomness", !.deadline = d]
    OBVIOUS
  <2>6. /\ c \in RunnerRecords /\ c.pc = "waitForRandomness" /\ c.result = <<>>
        /\ c.nextJobID = runner[r].nextJobID /\ c.refundOnly = runner[r].refundOnly
        /\ c.resumed = runner[r].resumed
    BY <1>2, <2>1, <2>5 DEF RunnerRecords, WithJob
  <2>7. RunnerOK(c, nextJobId, answers, settlements, MyJobs(r)) /\ ~Delivers(c)
    BY <1>1, <1>2, <2>1, <2>6 DEF RunnerOK, Delivers, Hired
  <2>8. runner' = [runner EXCEPT ![r] = c]
    BY <1>4, <2>4, <2>5 DEF RunInv
  <2> QED
    BY <1>1, <2>2, <2>7, <2>8, RunnerCalls
<1> QED
  BY <1>3, <1>4 DEF SubmitAttempt

LEMMA RunnerWaits ==
    ASSUME RunInv, NEW r \in Runners, waitForRandomness(r) \/ Hang(r)
    PROVE  RunInv'
<1>1. UNCHANGED <<answers, created, relay>> /\ runner[r].pc \in {"waitForRandomness", "poll"}
  BY DEF waitForRandomness, Hang, At, relayerVars
<1>2. RunnerOK(runner[r], nextJobId, answers, settlements, MyJobs(r))
  BY DEF RunInv
<1>3. /\ runner[r].nextJobID \in JobIds /\ runner[r].pc \in WithJob \ {"settle", "done"}
      /\ runner[r].refundOnly \/ runner[r].resumed \/ runner[r].nextJobID \in MyJobs(r)
  BY <1>1, <1>2 DEF RunnerOK, WithJob, Hired
<1>4. CASE fatalf(r, "randomness") /\ UNCHANGED vars
  <2>1. "randomness" \in Reasons
    BY DEF Reasons
  <2> QED
    BY <1>1, <1>4, <2>1, RunnerFails
<1>5. CASE lockRandomness(runner[r].nextJobID) /\ Goes(r, "dispatch")
  <2>1. OtherStep
    BY <1>3, <1>5 DEF OtherStep, PartyStep
  <2> QED
    BY <1>1, <1>3, <1>5, <2>1, RunnerGoes
<1>6. CASE Goes(r, "hung") /\ UNCHANGED vars
  <2>1. OtherStep
    BY <1>6 DEF OtherStep
  <2> QED
    BY <1>1, <1>3, <1>6, <2>1, RunnerGoes
<1> QED
  BY <1>4, <1>5, <1>6 DEF waitForRandomness, Hang

LEMMA RunnerLooks ==
    ASSUME RunInv, NEW r \in Runners, getJob(r)
    PROVE  RunInv'
<1>1. UNCHANGED <<answers, created, relay>> /\ OtherStep /\ runner[r].pc = "getJob"
  BY DEF getJob, At, relayerVars, OtherStep
<1>2. RunnerOK(runner[r], nextJobId, answers, settlements, MyJobs(r)) /\ runner[r] \in RunnerRecords
  BY DEF RunInv, RunnerOK
<1>3. runner[r].nextJobID \in JobIds /\ runner[r].result = <<>>
  BY <1>1, <1>2 DEF RunnerOK, WithJob
<1>4. now \in Nat /\ current[runner[r].nextJobID].instructionId \in Nat
  BY <1>3, BoundAssumption DEF RunInv, VerdictInv, LedgerInv, TypeOK, AttemptState
<1>5. PICK d \in Nat, n \in Nat : d = Clock + PollTimeout /\ n = current[runner[r].nextJobID].instructionId
  BY <1>4, RunnerAssumption DEF Clock
<1>6. PICK c : c = [runner[r] EXCEPT !.pc = "poll", !.deadline = d, !.instructionId = n]
  OBVIOUS
<1>7. /\ c \in RunnerRecords /\ c.pc = "poll" /\ c.result = <<>>
      /\ c.nextJobID = runner[r].nextJobID /\ c.refundOnly = runner[r].refundOnly
      /\ c.resumed = runner[r].resumed
  BY <1>2, <1>3, <1>6 DEF RunnerRecords, WithJob
<1>8. RunnerOK(c, nextJobId, answers, settlements, MyJobs(r)) /\ ~Delivers(c)
  BY <1>1, <1>2, <1>3, <1>7 DEF RunnerOK, Delivers, Hired
<1>9. runner' = [runner EXCEPT ![r] = c]
  BY <1>5, <1>6 DEF RunInv, getJob
<1> QED
  BY <1>1, <1>8, <1>9, RunnerCalls

LEMMA RunnerPolls ==
    ASSUME RunInv, NEW r \in Runners, pollActionResult(r)
    PROVE  RunInv'
<1>1. UNCHANGED <<vars, answers, created, relay>> /\ OtherStep /\ runner[r].pc = "poll"
  BY DEF pollActionResult, At, relayerVars, OtherStep
<1>2. /\ RunnerOK(runner[r], nextJobId, answers, settlements, MyJobs(r)) /\ runner[r] \in RunnerRecords
      /\ AnswersOK
  BY DEF RunInv, RunnerOK
<1>3. ASSUME NEW why \in {"status", "poll"}, fatalf(r, why) PROVE RunInv'
  BY <1>1, <1>3, RunnerFails DEF Reasons
<1>4. ASSUME NEW result \in Polled(r),
             runner' = [runner EXCEPT ![r] = [@ EXCEPT !.pc = "settle", !.result = <<result>>]]
      PROVE  RunInv'
  <2>1. PICK a \in answers : result = a.result
    BY <1>4 DEF Polled, Available
  <2>2. PICK w : w = <<result>> /\ w = <<a.result>> /\ w # <<>> /\ w \in Seq(ProxyResults)
    <3>1. a.result \in ProxyResults
      BY <1>2 DEF AnswersOK
    <3>2. <<result>> = <<a.result>> /\ <<result>> # <<>> /\ <<result>> \in Seq(ProxyResults)
      BY <2>1, <3>1
    <3> QED
      BY <3>2
  <2>3. PICK c : c = [runner[r] EXCEPT !.pc = "settle", !.result = w]
    OBVIOUS
  <2>4. /\ c \in RunnerRecords /\ c.pc = "settle" /\ c.result = w
        /\ c.nextJobID = runner[r].nextJobID /\ c.refundOnly = runner[r].refundOnly
        /\ c.resumed = runner[r].resumed
    BY <1>2, <2>2, <2>3 DEF RunnerRecords, WithJob
  <2>5. RunnerOK(c, nextJobId, answers, settlements, MyJobs(r)) /\ ~Delivers(c)
    BY <1>1, <1>2, <2>2, <2>4 DEF RunnerOK, Delivers, WithJob, Hired
  <2>6. runner' = [runner EXCEPT ![r] = c]
    BY <1>4, <2>2, <2>3 DEF RunInv
  <2> QED
    BY <1>1, <2>5, <2>6, RunnerCalls
<1> QED
  BY <1>3, <1>4 DEF pollActionResult

LEMMA RunnerSettles ==
    ASSUME RunInv, NEW r \in Runners, Settled(r)
    PROVE  RunInv'
<1>1. UNCHANGED <<answers, created, relay>> /\ runner[r].pc = "settle"
  BY DEF Settled, transact, At, relayerVars
<1>2. /\ RunnerOK(runner[r], nextJobId, answers, settlements, MyJobs(r)) /\ runner[r] \in RunnerRecords
      /\ AnswersOK /\ VerdictInv
  BY DEF RunInv, RunnerOK
<1>3. PICK a \in answers : runner[r].result = <<a.result>>
  BY <1>1, <1>2 DEF RunnerOK
<1>4. runner[r].result[1] = a.result /\ runner[r].nextJobID \in JobIds /\ runner[r].result # <<>>
  BY <1>1, <1>2, <1>3 DEF RunnerOK, WithJob
<1>5. CASE fatalf(r, "settleAttempt") /\ UNCHANGED vars
  <2>1. "settleAttempt" \in Reasons
    BY DEF Reasons
  <2> QED
    BY <1>1, <1>5, <2>1, RunnerFails
<1>6. CASE settleAttempt(runner[r].nextJobID, a.result) /\ Goes(r, "done")
  <2>1. Delivered(a.result)
    BY <1>2, ProxyResultDelivered
  <2>2. /\ EscrowGrows /\ ClientsHire /\ HasVerdict(a.result, settlements')
        /\ a.result.claim.jobId = runner[r].nextJobID
        /\ \A u : HasVerdict(u, settlements) => u.claim # a.result.claim
    BY <1>2, <1>4, <1>6, <2>1, SettleGrows
  <2>3. PICK c : c = [runner[r] EXCEPT !.pc = "done"]
    OBVIOUS
  <2>4. /\ c \in RunnerRecords /\ c.pc = "done" /\ c.result = runner[r].result
        /\ c.nextJobID = runner[r].nextJobID /\ c.refundOnly = runner[r].refundOnly
        /\ c.resumed = runner[r].resumed
    BY <1>2, <2>3 DEF RunnerRecords, WithJob
  <2>8. Around /\ MyJobs(r) \subseteq MyJobs(r)'
    BY <1>1, <2>2, QuietAround DEF Around, Grows
  <2>9. /\ c.result = <<a.result>> /\ c.result # <<>> /\ c.result[1] = a.result /\ a \in answers'
        /\ c.nextJobID \in JobIds
    BY <1>1, <1>3, <1>4, <2>4
  <2>10. c.refundOnly \/ c.resumed \/ c.nextJobID \in MyJobs(r)'
    BY <1>1, <1>2, <2>4, <2>8 DEF RunnerOK, Hired
  <2>5. RunnerOK(c, nextJobId', answers', settlements', MyJobs(r)')
    BY <2>2, <2>4, <2>9, <2>10 DEF RunnerOK
  <2>6. Undelivered(c.result[1].claim)
    BY <1>4, <2>2, <2>4, NewVerdictUndelivered
  <2>7. runner' = [runner EXCEPT ![r] = c]
    BY <1>6, <2>3 DEF Goes, RunInv
  <2> QED
    BY <1>1, <2>5, <2>6, <2>7, <2>8, RunnerMoves
<1> QED
  BY <1>4, <1>5, <1>6 DEF Settled, transact

LEMMA RunnerResumes ==
    ASSUME RunInv, NEW r \in Runners, resumeFromReady(r) \/ Crash(r)
    PROVE  RunInv'
<1>1. UNCHANGED <<vars, answers, created, relay>> /\ OtherStep
  BY DEF resumeFromReady, Crash, relayerVars, OtherStep
<1>2. CASE fatalf(r, "resume")
  <2>1. "resume" \in Reasons
    BY DEF Reasons
  <2> QED
    BY <1>1, <1>2, <2>1, RunnerFails
<1>3. CASE Goes(r, "killed")
  BY <1>1, <1>3, RunnerStops
<1>4. ASSUME NEW id \in JobIds,
             runner' = [runner EXCEPT ![r] =
                [NewRunner EXCEPT !.pc = "dispatch", !.nextJobID = id, !.resumed = TRUE]]
      PROVE  RunInv'
  <2>1. PICK c : c = [NewRunner EXCEPT !.pc = "dispatch", !.nextJobID = id, !.resumed = TRUE]
    OBVIOUS
  <2>2. c = [pc |-> "dispatch", refundOnly |-> FALSE, principal |-> 0, nextJobID |-> id,
             schedule |-> <<>>, deadline |-> 0, instructionId |-> 0, result |-> <<>>,
             resumed |-> TRUE, why |-> "none"]
    BY <2>1 DEF NewRunner
  <2>3. id \in Nat /\ <<>> \in Seq(ProxyResults)
    BY DEF JobIds
  <2>4. c \in RunnerRecords
    BY <2>2, <2>3 DEF RunnerRecords, WithJob, Reasons
  <2>5. RunnerOK(c, nextJobId, answers, settlements, MyJobs(r)) /\ ~Delivers(c)
    BY <2>2, <2>4 DEF RunnerOK, Delivers
  <2> QED
    BY <1>1, <1>4, <2>1, <2>5, RunnerCalls
<1> QED
  BY <1>2, <1>3, <1>4 DEF resumeFromReady, Crash

LEMMA RunnerSteps ==
    ASSUME RunInv, NEW r \in Runners, RunnerStep(r)
    PROVE  RunInv'
BY RunnerApproves, RunnerReads, RunnerCreates, RunnerTransacts, RunnerSubmits, RunnerWaits, RunnerLooks,
   RunnerPolls, RunnerSettles, RunnerResumes
DEF RunnerStep, RunnerProceeds
-----------------------------------------------------------------------------
LEMMA RunInvInit == RunInit => RunInv
<1> SUFFICES ASSUME RunInit PROVE RunInv
  OBVIOUS
<1>1. VerdictInv /\ <<>> \in Seq(ProxyResults)
  BY VerdictInit DEF RunInit
<1>2. /\ answers = {} /\ relay = [p \in Relayers |-> IdleRelay] /\ runner = [r \in Runners |-> NewRunner]
      /\ created = [r \in Runners |-> {}]
  BY DEF RunInit, RelayerInit, RunnerInit
<1>3. RelayOK(IdleRelay, now, sent, answers)
  <2>1. IdleRelay \in RelayRecords
    BY <1>1 DEF IdleRelay, RelayRecords
  <2> QED
    BY <2>1 DEF IdleRelay, RelayOK
<1>4. ASSUME NEW K PROVE RunnerOK(NewRunner, nextJobId, answers, settlements, K) /\ ~Delivers(NewRunner)
  <2>1. NewRunner \in RunnerRecords
    BY <1>1 DEF NewRunner, RunnerRecords, Reasons
  <2> QED
    BY <2>1 DEF NewRunner, RunnerOK, WithJob, Hired, Delivers
<1>5. OneEach
  BY <1>2, <1>4 DEF OneEach
<1>6. JobsOfRunners
  <2>1. \A id \in JobIds : terms[id].contractor = Zero
    BY DEF RunInit, Init, NoTerms
  <2> QED
    BY <2>1, RunnerAssumption, AddressAssumption DEF JobsOfRunners
<1> QED
  BY <1>1, <1>2, <1>3, <1>4, <1>5, <1>6 DEF RunInv, AnswersOK

LEMMA RunInvStep == RunInv /\ [RunNext]_allVars => RunInv'
<1> SUFFICES ASSUME RunInv, [RunNext]_allVars PROVE RunInv'
  OBVIOUS
<1>1. ASSUME OtherStep, UNCHANGED <<relayerVars, runnerVars>> PROVE RunInv'
  <2>1. UNCHANGED <<answers, relay, runner, created>>
    BY <1>1 DEF relayerVars, runnerVars
  <2>2. Around
    BY <1>1, <2>1, OthersGrow, QuietAround DEF RunInv
  <2> QED
    BY <2>1, <2>2, NobodyMoves
<1>2. CASE ElseStep /\ UNCHANGED <<relayerVars, runnerVars>>
  <2>1. OtherStep
    BY <1>2 DEF ElseStep, StrangerStep, AdoptExtensionId, OtherStep, PartyStep, Administer, AdminNext
  <2> QED
    BY <1>1, <1>2, <2>1
<1>3. CASE Answer /\ UNCHANGED runnerVars
  BY <1>3, AnswerArrives
<1>4. ASSUME NEW p \in Relayers, RelayerStep(p), UNCHANGED runnerVars PROVE RunInv'
  BY <1>4, RelayerSteps
<1>5. ASSUME NEW r \in Runners, RunnerStep(r) PROVE RunInv'
  BY <1>5, RunnerSteps
<1>6. CASE UNCHANGED allVars
  BY <1>1, <1>6 DEF allVars, OtherStep
<1> QED
  BY <1>2, <1>3, <1>4, <1>5, <1>6 DEF RunNext

LEMMA RunInvariant == RunSpec => []RunInv
<1> QED
  BY RunInvInit, RunInvStep, PTL DEF RunSpec

-----------------------------------------------------------------------------
(* Refunds.  The clock of a runner is ahead by less than it waits beyond   *)
(* the grace period.                                                       *)
MarginCoversClock == ClockAhead < GraceMargin

(* A runner that has created the jobs K, in an escrow with the next job id *)
(* next, the terms T and the settled flags P.                              *)
RefundOK(c, K, next, T, P) ==
    /\ K \subseteq JobIds /\ \A id \in K : id < next
    /\ c.pc \in {"start", "nextJobId", "createJob"} => K = {}
    /\ c.pc = "waitForGrace" /\ c.nextJobID \in K => T[c.nextJobID].graceEnds = c.schedule.graceEnds
    /\ c.pc = "failed" /\ c.why = "refundExpired" /\ c.nextJobID \in K /\ MarginCoversClock => P[c.nextJobID]

RefundInv ==
    /\ RunInv
    /\ SolventInv
    /\ \A r \in Runners : RefundOK(runner[r], created[r], nextJobId, terms, settled)

(* The terms of a job stay, and it is settled for good. *)
JobsStay ==
    /\ nextJobId \in Nat /\ nextJobId' \in Nat /\ nextJobId <= nextJobId'
    /\ \A id \in JobIds : id < nextJobId => terms'[id] = terms[id]
    /\ \A id \in JobIds : settled[id] => settled'[id]

LEMMA RefundStays ==
    ASSUME JobsStay, NEW c, NEW K, RefundOK(c, K, nextJobId, terms, settled)
    PROVE  RefundOK(c, K, nextJobId', terms', settled')
<1>1. K \subseteq JobIds /\ JobIds \subseteq Nat
  BY BoundAssumption DEF RefundOK, JobIds
<1>2. \A id \in K : id < nextJobId /\ id < nextJobId' /\ terms'[id] = terms[id]
  BY <1>1 DEF RefundOK, JobsStay
<1>3. \A id \in K : settled[id] => settled'[id]
  BY <1>1 DEF JobsStay
<1> QED
  BY <1>1, <1>2, <1>3 DEF RefundOK

LEMMA CreateStays ==
    ASSUME SolventInv, NEW sender \in Address, NEW contractor \in Accounts \cup {Zero}, NEW tee \in Tees,
           NEW principal \in Principals, NEW s \in Schedule, NEW commitment \in Commitments,
           createJob(sender, contractor, tee, principal, s, commitment)
    PROVE  SolventInv' /\ JobsStay /\ terms'[nextJobId].graceEnds = s.graceEnds
<1>1. LedgerInv'
  BY LedgerCreate DEF SolventInv
<1>2. TypeOK /\ nextJobId \in Nat
  BY BoundAssumption DEF SolventInv, LedgerInv, TypeOK
<1>3. /\ nextJobId \in JobIds /\ nextJobId' = nextJobId + 1 /\ settled' = settled
      /\ terms'[nextJobId].graceEnds = s.graceEnds
      /\ \A id \in JobIds : id # nextJobId => terms'[id] = terms[id]
  BY <1>2 DEF createJob, TypeOK
<1>4. SolventInv'
  BY <1>1, SolventCreate
<1>5. JobsStay
  BY <1>2, <1>3 DEF JobsStay
<1> QED
  BY <1>3, <1>4, <1>5

LEMMA OthersStay ==
    ASSUME SolventInv, OtherStep
    PROVE  SolventInv' /\ JobsStay
<1>1. SolventInv'
  <2>1. [Next]_vars
    BY DEF OtherStep, Next, JobStep
  <2> QED
    BY <2>1, SolventStep
<1>2. /\ TypeOK /\ nextJobId \in Nat /\ nextJobId' \in Nat
      /\ DOMAIN settled = JobIds
  BY <1>1, BoundAssumption DEF SolventInv, LedgerInv, TypeOK
<1>3. CASE Administer \/ Environment \/ UNCHANGED vars
  <2>1. UNCHANGED <<terms, nextJobId, settled>>
    BY <1>3 DEF Administer, Environment, Tick, FinalizeRound, ChangeTeeStatus, ChangeCode, vars, storage
  <2> QED
    BY <1>1, <1>2, <2>1 DEF JobsStay
<1>4. CASE Create
  BY <1>4, CreateInputs, CreateStays
<1>5. ASSUME NEW id \in JobIds, PartyStep(id) PROVE SolventInv' /\ JobsStay
  <2>1. ASSUME NEW new, ReturnToClient(id, new) PROVE SolventInv' /\ JobsStay
    <3>1. UNCHANGED <<terms, nextJobId>> /\ settled' = [settled EXCEPT ![id] = TRUE]
      BY <2>1 DEF ReturnToClient
    <3> QED
      BY <1>1, <1>2, <3>1 DEF JobsStay
  <2>2. CASE \E sender \in Address : cancelUnaccepted(sender, id)
    BY <2>1, <2>2 DEF cancelUnaccepted
  <2>3. CASE refundExpired(id)
    BY <2>1, <2>3 DEF refundExpired
  <2>4. CASE \E sender \in Address : \/ acceptJob(sender, id)
                                     \/ \E artifact \in Artifacts : submitAttempt(sender, id, artifact)
    <3>1. UNCHANGED <<terms, nextJobId, settled>>
      BY <2>4 DEF acceptJob, submitAttempt
    <3> QED
      BY <1>1, <1>2, <3>1 DEF JobsStay
  <2>5. CASE lockRandomness(id) \/ expireVerification(id) \/ dispatchVerification(id)
    <3>1. UNCHANGED <<terms, nextJobId, settled>>
      BY <2>5 DEF lockRandomness, expireVerification, dispatchVerification
    <3> QED
      BY <1>1, <1>2, <3>1 DEF JobsStay
  <2> QED
    BY <1>5, <2>2, <2>3, <2>4, <2>5, Zenon DEF PartyStep
<1> QED
  BY <1>3, <1>4, <1>5 DEF OtherStep

LEMMA SettleStays ==
    ASSUME SolventInv, NEW id \in JobIds, NEW w, Delivered(w), settleAttempt(id, w)
    PROVE  SolventInv' /\ JobsStay
<1>1. LedgerInv'
  BY LedgerSettle DEF SolventInv
<1>2. SolventInv'
  BY <1>1, SolventSettle
<1>3. /\ TypeOK /\ nextJobId \in Nat /\ DOMAIN settled = JobIds
  BY BoundAssumption DEF SolventInv, LedgerInv, TypeOK
<1>4. /\ UNCHANGED <<terms, nextJobId>>
      /\ settled' = settled \/ settled' = [settled EXCEPT ![id] = TRUE]
  BY DEF settleAttempt, PayContractor
<1> QED
  BY <1>2, <1>3, <1>4 DEF JobsStay

(* A step of a relayer or of anybody but the runners. *)
LEMMA RunnersRest ==
    ASSUME RefundInv, RunInv', SolventInv', JobsStay, UNCHANGED <<runner, created>>
    PROVE  RefundInv'
BY RefundStays DEF RefundInv

LEMMA RelayerKeepsRefunds ==
    ASSUME RefundInv, UNCHANGED runnerVars, NEW p \in Relayers, RelayerStep(p)
    PROVE  RefundInv'
<1>1. RunInv' /\ UNCHANGED <<runner, created>>
  BY RelayerSteps DEF RefundInv, runnerVars
<1>2. CASE OtherStep
  BY <1>1, <1>2, OthersStay, RunnersRest DEF RefundInv
<1>3. RelayOK(relay[p], now, sent, answers) /\ AnswersOK
  BY DEF RefundInv, RunInv
<1>4. CASE runCli(p) \/ fetchActionResponse(p) \/ pollActionResponse(p) \/ ProxyError(p)
  BY <1>2, <1>4 DEF OtherStep, runCli, fetchActionResponse, pollActionResponse, ProxyError
<1>5. CASE Settles(p) \/ Expires(p) \/ Refunds(p)
  <2>1. relay[p].job \in JobIds
    BY <1>3, <1>5 DEF RelayOK, Settles, Expires, Refunds, sendContractCall
  <2>2. CASE expireVerification(relay[p].job) \/ refundExpired(relay[p].job) \/ UNCHANGED vars
    BY <1>2, <2>1, <2>2 DEF OtherStep, PartyStep
  <2>3. CASE relay[p].result # <<>> /\ settleAttempt(relay[p].job, relay[p].result[1])
    <3>1. PICK a \in answers : relay[p].result = <<a.result>>
      BY <1>3, <2>3 DEF RelayOK
    <3>2. relay[p].result[1] = a.result /\ Delivered(a.result)
      BY <1>3, <3>1, ProxyResultDelivered
    <3>3. SolventInv' /\ JobsStay
      BY <2>1, <2>3, <3>2, SettleStays DEF RefundInv
    <3> QED
      BY <1>1, <3>3, RunnersRest
  <2> QED
    BY <1>5, <2>2, <2>3 DEF Settles, Expires, Refunds, sendContractCall
<1> QED
  BY <1>4, <1>5 DEF RelayerStep
-----------------------------------------------------------------------------
(* A runner moves to c and creates no job. *)
LEMMA RunnerMovesOn ==
    ASSUME RefundInv, RunInv', SolventInv', JobsStay, created' = created, NEW r \in Runners, NEW c,
           runner' = [runner EXCEPT ![r] = c],
           RefundOK(c, created[r], nextJobId', terms', settled')
    PROVE  RefundInv'
<1>1. runner'[r] = c /\ \A q \in Runners : q # r => runner'[q] = runner[q]
  BY DEF RefundInv, RunInv
<1>2. ASSUME NEW q \in Runners
      PROVE  RefundOK(runner'[q], created'[q], nextJobId', terms', settled')
  <2>1. CASE q = r
    BY <1>1, <2>1
  <2>2. CASE q # r
    BY <1>1, <2>2, RefundStays DEF RefundInv
  <2> QED
    BY <2>1, <2>2
<1> QED
  BY <1>2 DEF RefundInv

(* Past the steps that RefundOK is about. *)
PastRefund(c) ==
    /\ c.pc \notin {"start", "nextJobId", "createJob", "waitForGrace"}
    /\ c.pc = "failed" => c.why # "refundExpired"

LEMMA RunnerMovesPast ==
    ASSUME RefundInv, RunInv', SolventInv', JobsStay, created' = created, NEW r \in Runners, NEW c,
           runner' = [runner EXCEPT ![r] = c], PastRefund(c)
    PROVE  RefundInv'
<1>1. RefundOK(runner[r], created[r], nextJobId', terms', settled')
  BY RefundStays DEF RefundInv
<1>2. RefundOK(c, created[r], nextJobId', terms', settled')
  BY <1>1 DEF RefundOK, PastRefund
<1> QED
  BY <1>2, RunnerMovesOn

LEMMA GoesPast ==
    ASSUME RunInv, NEW r \in Runners,
           \/ \E pc \in {"submitAttempt", "dispatch", "getJob", "hung", "done", "killed"} : Goes(r, pc)
           \/ \E why \in Reasons \ {"refundExpired"} : fatalf(r, why)
    PROVE  \E c : runner' = [runner EXCEPT ![r] = c] /\ PastRefund(c)
<1>1. runner[r] \in RunnerRecords
  BY DEF RunInv, RunnerOK
<1>2. ASSUME NEW pc \in {"submitAttempt", "dispatch", "getJob", "hung", "done", "killed"}, Goes(r, pc)
      PROVE  \E c : runner' = [runner EXCEPT ![r] = c] /\ PastRefund(c)
  <2>1. PICK c : c = [runner[r] EXCEPT !.pc = pc]
    OBVIOUS
  <2>2. c.pc = pc
    BY <1>1, <2>1 DEF RunnerRecords
  <2>3. runner' = [runner EXCEPT ![r] = c] /\ PastRefund(c)
    BY <1>2, <2>1, <2>2 DEF Goes, PastRefund
  <2> QED
    BY <2>3
<1>3. ASSUME NEW why \in Reasons \ {"refundExpired"}, fatalf(r, why)
      PROVE  \E c : runner' = [runner EXCEPT ![r] = c] /\ PastRefund(c)
  <2>1. PICK c : c = [runner[r] EXCEPT !.pc = "failed", !.why = why]
    OBVIOUS
  <2>2. c.pc = "failed" /\ c.why = why
    BY <1>1, <2>1 DEF RunnerRecords
  <2>3. runner' = [runner EXCEPT ![r] = c] /\ PastRefund(c)
    BY <1>3, <2>1, <2>2 DEF fatalf, PastRefund
  <2> QED
    BY <2>3
<1> QED
  BY <1>2, <1>3

LEMMA ApprovalKeepsRefunds ==
    ASSUME RefundInv, NEW r \in Runners, Approve(r) \/ ReadNextJobId(r)
    PROVE  RefundInv'
<1>1. /\ UNCHANGED vars /\ created' = created /\ OtherStep
      /\ runner[r].pc \in {"start", "nextJobId"} /\ RunInv /\ runner[r] \in RunnerRecords
  BY DEF Approve, ReadNextJobId, At, OtherStep, RefundInv, RunInv, RunnerOK
<1>2. RunInv' /\ SolventInv' /\ JobsStay
  BY <1>1, RunnerApproves, RunnerReads, OthersStay DEF RefundInv
<1>3. CASE fatalf(r, "balance")
  <2>1. "balance" \in Reasons \ {"refundExpired"}
    BY DEF Reasons
  <2>2. \E c : runner' = [runner EXCEPT ![r] = c] /\ PastRefund(c)
    BY <1>1, <1>3, <2>1, GoesPast
  <2> QED
    BY <1>1, <1>2, <2>2, RunnerMovesPast
<1>4. ASSUME NEW c, runner' = [runner EXCEPT ![r] = c], c.pc \in {"nextJobId", "createJob"} PROVE RefundInv'
  <2>1. RefundOK(runner[r], created[r], nextJobId', terms', settled')
    BY <1>2, RefundStays DEF RefundInv
  <2>2. RefundOK(c, created[r], nextJobId', terms', settled')
    BY <1>1, <1>4, <2>1 DEF RefundOK
  <2> QED
    BY <1>1, <1>2, <1>4, <2>2, RunnerMovesOn
<1>5. CASE ReadNextJobId(r)
  <2>1. PICK c : c = [runner[r] EXCEPT !.pc = "createJob", !.nextJobID = nextJobId, !.schedule = deadlines(Clock)]
    OBVIOUS
  <2>2. c.pc = "createJob" /\ runner' = [runner EXCEPT ![r] = c]
    BY <1>1, <1>5, <2>1 DEF ReadNextJobId, RunnerRecords
  <2> QED
    BY <1>4, <2>2
<1>6. ASSUME NEW principal \in Principals, NEW refundOnly \in Modes,
             runner' = [runner EXCEPT ![r] =
                [@ EXCEPT !.pc = "nextJobId", !.principal = principal, !.refundOnly = refundOnly]]
      PROVE  RefundInv'
  <2>1. PICK c : c = [runner[r] EXCEPT !.pc = "nextJobId", !.principal = principal, !.refundOnly = refundOnly]
    OBVIOUS
  <2>2. c.pc = "nextJobId" /\ runner' = [runner EXCEPT ![r] = c]
    BY <1>1, <1>6, <2>1 DEF RunnerRecords
  <2> QED
    BY <1>4, <2>2
<1>7. CASE Approve(r)
  BY <1>3, <1>6, <1>7 DEF Approve
<1> QED
  BY <1>5, <1>7

(* createJob freezes the schedule the runner waits by, unless somebody     *)
(* took the id first.                                                      *)
LEMMA CreationKeepsRefunds ==
    ASSUME RefundInv, NEW r \in Runners, CreateJob(r)
    PROVE  RefundInv'
<1>1. runner[r].pc = "createJob" /\ nextJobId \in JobIds /\ RunInv /\ RunInv'
  BY RunnerCreates DEF CreateJob, At, RefundInv
<1>2. /\ RunnerOK(runner[r], nextJobId, answers, settlements, MyJobs(r)) /\ runner[r] \in RunnerRecords
      /\ created[r] = {} /\ DOMAIN runner = Runners /\ DOMAIN created = Runners
  BY <1>1 DEF RefundInv, RefundOK, RunInv, RunnerOK
<1>3. CASE fatalf(r, "createJob") /\ UNCHANGED <<vars, created>>
  <2>1. "createJob" \in Reasons \ {"refundExpired"}
    BY DEF Reasons
  <2>2. \E c : runner' = [runner EXCEPT ![r] = c] /\ PastRefund(c)
    BY <1>1, <1>3, <2>1, GoesPast
  <2>3. SolventInv' /\ JobsStay
    BY <1>3, OthersStay DEF OtherStep, RefundInv
  <2> QED
    BY <1>1, <1>3, <2>2, <2>3, RunnerMovesPast
<1>4. CASE /\ \E tee \in Tees, commitment \in Commitments :
                 createJob(r, r, tee, runner[r].principal, runner[r].schedule, commitment)
           /\ Goes(r, IF runner[r].refundOnly THEN "waitForGrace" ELSE "acceptJob")
           /\ created' = [created EXCEPT ![r] = @ \cup {nextJobId}]
  <2>1. PICK tee \in Tees, commitment \in Commitments :
           createJob(r, r, tee, runner[r].principal, runner[r].schedule, commitment)
    BY <1>4
  <2>2. /\ runner[r].principal \in Principals /\ runner[r].schedule \in Schedule
        /\ r \in Address /\ r \in Accounts \cup {Zero}
    BY <1>1, <1>2, RunnerAssumption DEF RunnerOK, Accounts
  <2>3. SolventInv' /\ JobsStay /\ terms'[nextJobId].graceEnds = runner[r].schedule.graceEnds
    BY <2>1, <2>2, CreateStays DEF RefundInv
  <2>4. nextJobId' = nextJobId + 1 /\ nextJobId \in Nat
    BY <2>1, <2>3 DEF createJob, JobsStay
  <2>5. created'[r] = {nextJobId} /\ \A q \in Runners : q # r => created'[q] = created[q]
    BY <1>2, <1>4
  <2>6. PICK pc : pc = IF runner[r].refundOnly THEN "waitForGrace" ELSE "acceptJob"
    OBVIOUS
  <2>7. PICK c : c = [runner[r] EXCEPT !.pc = pc]
    OBVIOUS
  <2>8. /\ c.pc \in {"waitForGrace", "acceptJob"} /\ c.nextJobID = runner[r].nextJobID
        /\ c.schedule = runner[r].schedule
    BY <1>2, <2>6, <2>7 DEF RunnerRecords
  <2>9. RefundOK(c, created'[r], nextJobId', terms', settled')
    BY <1>1, <2>3, <2>4, <2>5, <2>8 DEF RefundOK
  <2>10. runner'[r] = c /\ \A q \in Runners : q # r => runner'[q] = runner[q]
    BY <1>2, <1>4, <2>6, <2>7 DEF Goes
  <2>11. ASSUME NEW q \in Runners PROVE RefundOK(runner'[q], created'[q], nextJobId', terms', settled')
    <3>1. CASE q = r
      BY <2>9, <2>10, <3>1
    <3>2. CASE q # r
      BY <2>3, <2>5, <2>10, <3>2, RefundStays DEF RefundInv
    <3> QED
      BY <3>1, <3>2
  <2> QED
    BY <1>1, <2>3, <2>11 DEF RefundInv
<1> QED
  BY <1>3, <1>4 DEF CreateJob

(* The refund: with the margin, the grace period is over by the chain's    *)
(* clock, and the escrow holds the tokens.                                 *)
LEMMA RefundFailsWhenSettled ==
    ASSUME RefundInv, NEW r \in Runners, At(r, "waitForGrace"), GracePassed(r),
           refundReverts(runner[r].nextJobID), runner[r].nextJobID \in created[r], MarginCoversClock
    PROVE  settled[runner[r].nextJobID]
<1>1. PICK id : id = runner[r].nextJobID
  OBVIOUS
<1>2. id \in JobIds /\ Exists(id) /\ terms[id].graceEnds = runner[r].schedule.graceEnds
  BY <1>1 DEF RefundInv, RefundOK, At, Exists
<1>3. now \in Nat /\ terms[id].graceEnds \in Nat
  BY <1>2, BoundAssumption DEF RefundInv, SolventInv, LedgerInv, TypeOK, JobTerms
<1>4. now > terms[id].graceEnds
  BY <1>2, <1>3, RunnerAssumption DEF GracePassed, Clock, MarginCoversClock
<1>5. ~settled[id] => TokenAccepts(balance, Self, terms[id].client, terms[id].principal + terms[id].fee)
  <2> SUFFICES ASSUME ~settled[id]
               PROVE  TokenAccepts(balance, Self, terms[id].client, terms[id].principal + terms[id].fee)
    OBVIOUS
  <2>1. balance[Self] >= terms[id].principal + terms[id].fee
    BY <1>2, OwedIsCovered DEF Owed, RefundInv
  <2>2. terms[id].client # Zero
    BY <1>2, AddressAssumption DEF RefundInv, SolventInv, LedgerInv, PartiesKnown
  <2> QED
    BY <2>1, <2>2 DEF TokenAccepts
<1> QED
  BY <1>1, <1>3, <1>4, <1>5 DEF refundReverts

LEMMA RefundKeepsRefunds ==
    ASSUME RefundInv, NEW r \in Runners, RefundExpired(r)
    PROVE  RefundInv'
<1>1. RunInv /\ RunInv' /\ created' = created /\ At(r, "waitForGrace") /\ GracePassed(r)
  BY RunnerTransacts DEF RefundInv, RefundExpired, transact
<1>2. runner[r] \in RunnerRecords /\ runner[r].nextJobID \in JobIds
  BY <1>1 DEF RunInv, RunnerOK, At, WithJob
<1>3. CASE refundExpired(runner[r].nextJobID) /\ Goes(r, "done")
  <2>1. SolventInv' /\ JobsStay
    BY <1>2, <1>3, OthersStay DEF OtherStep, PartyStep, RefundInv
  <2>2. \E c : runner' = [runner EXCEPT ![r] = c] /\ PastRefund(c)
    BY <1>1, <1>3, GoesPast
  <2> QED
    BY <1>1, <2>1, <2>2, RunnerMovesPast
<1>4. CASE refundReverts(runner[r].nextJobID) /\ fatalf(r, "refundExpired") /\ UNCHANGED vars
  <2>1. SolventInv' /\ JobsStay /\ settled' = settled
    BY <1>4, OthersStay DEF OtherStep, RefundInv, vars, storage
  <2>2. PICK c : c = [runner[r] EXCEPT !.pc = "failed", !.why = "refundExpired"]
    OBVIOUS
  <2>3. c.pc = "failed" /\ c.nextJobID = runner[r].nextJobID /\ runner' = [runner EXCEPT ![r] = c]
    BY <1>2, <1>4, <2>2 DEF fatalf, RunnerRecords
  <2>4. MarginCoversClock /\ runner[r].nextJobID \in created[r] => settled'[runner[r].nextJobID]
    BY <1>1, <1>4, <2>1, RefundFailsWhenSettled
  <2>5. RefundOK(runner[r], created[r], nextJobId', terms', settled')
    BY <2>1, RefundStays DEF RefundInv
  <2>6. RefundOK(c, created[r], nextJobId', terms', settled')
    BY <2>3, <2>4, <2>5 DEF RefundOK
  <2> QED
    BY <1>1, <2>1, <2>3, <2>6, RunnerMovesOn
<1> QED
  BY <1>3, <1>4 DEF RefundExpired, transact

(* All the other steps of a runner lead past the refund. *)
LEMMA LaterSteps ==
    ASSUME RunInv, NEW r \in Runners,
           \/ AcceptJob(r) \/ SubmitAttempt(r) \/ waitForRandomness(r) \/ Dispatch(r) \/ getJob(r)
           \/ pollActionResult(r) \/ Settled(r) \/ Hang(r) \/ resumeFromReady(r) \/ Crash(r)
    PROVE  /\ created' = created
           /\ \E c : runner' = [runner EXCEPT ![r] = c] /\ PastRefund(c)
<1> DEFINE Past == \E c : runner' = [runner EXCEPT ![r] = c] /\ PastRefund(c)
<1>1. runner[r] \in RunnerRecords
  BY DEF RunInv, RunnerOK
<1>2. ASSUME NEW pc \in {"submitAttempt", "dispatch", "getJob", "hung", "done", "killed"}, Goes(r, pc) PROVE Past
  BY <1>2, GoesPast
<1>3. ASSUME NEW why \in {"acceptJob", "submitAttempt", "randomness", "dispatchVerification", "poll", "status",
                          "settleAttempt", "resume"}, fatalf(r, why)
      PROVE  Past
  <2>1. why \in Reasons \ {"refundExpired"}
    BY DEF Reasons
  <2> QED
    BY <1>3, <2>1, GoesPast
<1>4. ASSUME NEW c, runner' = [runner EXCEPT ![r] = c],
             c.pc \in {"waitForRandomness", "poll", "settle", "dispatch"}
      PROVE  Past
  BY <1>4 DEF PastRefund
<1>5. CASE AcceptJob(r) \/ Dispatch(r) \/ Settled(r)
  <2>1. \/ \E pc \in {"submitAttempt", "getJob", "done"} : Goes(r, pc)
        \/ \E why \in {"acceptJob", "dispatchVerification", "settleAttempt"} : fatalf(r, why)
    BY <1>5 DEF AcceptJob, Dispatch, Settled, transact
  <2>2. created' = created
    BY <1>5 DEF AcceptJob, Dispatch, Settled, transact
  <2> HIDE DEF Past
  <2> QED
    BY <1>2, <1>3, <2>1, <2>2 DEF Past
<1>6. CASE SubmitAttempt(r)
  <2>1. created' = created
    BY <1>6 DEF SubmitAttempt
  <2>2. CASE fatalf(r, "submitAttempt")
    BY <1>3, <2>1, <2>2
  <2>3. CASE runner' = [runner EXCEPT ![r] =
                [@ EXCEPT !.pc = "waitForRandomness", !.deadline = Clock + RandomnessTimeout]]
    <3>1. PICK c : c = [runner[r] EXCEPT !.pc = "waitForRandomness", !.deadline = Clock + RandomnessTimeout]
      OBVIOUS
    <3>2. c.pc = "waitForRandomness" /\ runner' = [runner EXCEPT ![r] = c]
      BY <1>1, <2>3, <3>1 DEF RunnerRecords
    <3> QED
      BY <1>4, <2>1, <3>2
  <2> QED
    BY <1>6, <2>2, <2>3 DEF SubmitAttempt
<1>7. CASE waitForRandomness(r) \/ Hang(r) \/ Crash(r)
  <2>1. \/ \E pc \in {"dispatch", "hung", "killed"} : Goes(r, pc)
        \/ fatalf(r, "randomness")
    BY <1>7 DEF waitForRandomness, Hang, Crash
  <2>2. created' = created
    BY <1>7 DEF waitForRandomness, Hang, Crash
  <2> HIDE DEF Past
  <2> QED
    BY <1>2, <1>3, <2>1, <2>2 DEF Past
<1>8. CASE getJob(r)
  <2>1. PICK n, k : /\ n = Clock + PollTimeout /\ k = current[runner[r].nextJobID].instructionId
    OBVIOUS
  <2>2. PICK c : c = [runner[r] EXCEPT !.pc = "poll", !.deadline = n, !.instructionId = k]
    OBVIOUS
  <2>3. c.pc = "poll" /\ runner' = [runner EXCEPT ![r] = c] /\ created' = created
    BY <1>1, <1>8, <2>1, <2>2 DEF getJob, RunnerRecords
  <2> QED
    BY <1>4, <2>3
<1>9. CASE pollActionResult(r)
  <2>1. created' = created
    BY <1>9 DEF pollActionResult
  <2>2. CASE \E why \in {"status", "poll"} : fatalf(r, why)
    BY <1>3, <2>1, <2>2
  <2>3. ASSUME NEW result,
               runner' = [runner EXCEPT ![r] = [@ EXCEPT !.pc = "settle", !.result = <<result>>]]
        PROVE  Past
    <3>1. PICK c : c = [runner[r] EXCEPT !.pc = "settle", !.result = <<result>>]
      OBVIOUS
    <3>2. c.pc = "settle" /\ runner' = [runner EXCEPT ![r] = c]
      BY <1>1, <2>3, <3>1 DEF RunnerRecords
    <3> QED
      BY <1>4, <3>2
  <2> HIDE DEF Past
  <2>4. Past
    BY <1>9, <1>3, <2>3 DEF pollActionResult
  <2> QED
    BY <2>1, <2>4 DEF Past
<1>10. CASE resumeFromReady(r)
  <2>1. created' = created
    BY <1>10 DEF resumeFromReady
  <2>2. ASSUME NEW id \in JobIds,
               runner' = [runner EXCEPT ![r] = [NewRunner EXCEPT !.pc = "dispatch", !.nextJobID = id, !.resumed = TRUE]]
        PROVE  Past
    <3>1. PICK c : c = [NewRunner EXCEPT !.pc = "dispatch", !.nextJobID = id, !.resumed = TRUE]
      OBVIOUS
    <3>2. c.pc = "dispatch" /\ runner' = [runner EXCEPT ![r] = c]
      BY <2>2, <3>1 DEF NewRunner
    <3> QED
      BY <1>4, <3>2
  <2> HIDE DEF Past
  <2>3. Past
    BY <1>10, <1>3, <2>2 DEF resumeFromReady
  <2> QED
    BY <2>1, <2>3 DEF Past
<1> QED
  BY <1>5, <1>6, <1>7, <1>8, <1>9, <1>10

LEMMA LaterKeepsRefunds ==
    ASSUME RefundInv, NEW r \in Runners,
           \/ AcceptJob(r) \/ SubmitAttempt(r) \/ waitForRandomness(r) \/ Dispatch(r) \/ getJob(r)
           \/ pollActionResult(r) \/ Settled(r) \/ Hang(r) \/ resumeFromReady(r) \/ Crash(r)
    PROVE  RefundInv'
<1>1. RunInv /\ RunInv'
  BY RunnerSteps DEF RefundInv, RunnerStep, RunnerProceeds
<1>2. created' = created /\ \E c : runner' = [runner EXCEPT ![r] = c] /\ PastRefund(c)
  BY <1>1, LaterSteps
<1>3. RunnerOK(runner[r], nextJobId, answers, settlements, MyJobs(r)) /\ AnswersOK
  BY <1>1 DEF RunInv
<1>4. CASE OtherStep
  BY <1>1, <1>2, <1>4, OthersStay, RunnerMovesPast DEF RefundInv
<1>5. CASE At(r, "settle") /\ settleAttempt(runner[r].nextJobID, runner[r].result[1])
  <2>1. PICK a \in answers : runner[r].result = <<a.result>>
    BY <1>3, <1>5 DEF RunnerOK, At
  <2>2. runner[r].result[1] = a.result /\ runner[r].nextJobID \in JobIds
    BY <1>3, <1>5, <2>1 DEF RunnerOK, At, WithJob
  <2>3. Delivered(a.result)
    BY <1>3, ProxyResultDelivered
  <2>4. SolventInv' /\ JobsStay
    BY <1>5, <2>2, <2>3, SettleStays DEF RefundInv
  <2> QED
    BY <1>1, <1>2, <2>4, RunnerMovesPast
<1>6. ASSUME runner[r].pc \in WithJob,
             \/ acceptJob(r, runner[r].nextJobID)
             \/ \E artifact \in Artifacts : submitAttempt(r, runner[r].nextJobID, artifact)
             \/ lockRandomness(runner[r].nextJobID)
             \/ dispatchVerification(runner[r].nextJobID)
      PROVE  OtherStep
  <2>1. runner[r].nextJobID \in JobIds /\ r \in Address
    BY <1>3, <1>6, RunnerAssumption DEF RunnerOK
  <2>2. PartyStep(runner[r].nextJobID)
    BY <1>6, <2>1 DEF PartyStep
  <2> QED
    BY <2>1, <2>2 DEF OtherStep
<1>7. CASE AcceptJob(r) \/ SubmitAttempt(r) \/ waitForRandomness(r) \/ Dispatch(r)
  <2>1. runner[r].pc \in WithJob
    BY <1>7 DEF AcceptJob, SubmitAttempt, waitForRandomness, Dispatch, At, WithJob
  <2>2. \/ acceptJob(r, runner[r].nextJobID)
        \/ \E artifact \in Artifacts : submitAttempt(r, runner[r].nextJobID, artifact)
        \/ lockRandomness(runner[r].nextJobID)
        \/ dispatchVerification(runner[r].nextJobID)
        \/ UNCHANGED vars
    BY <1>7 DEF AcceptJob, SubmitAttempt, waitForRandomness, Dispatch, transact
  <2> QED
    BY <1>4, <1>6, <2>1, <2>2 DEF OtherStep
<1>8. CASE getJob(r) \/ pollActionResult(r) \/ Hang(r) \/ resumeFromReady(r) \/ Crash(r)
  <2>1. UNCHANGED vars
    BY <1>8 DEF getJob, pollActionResult, Hang, resumeFromReady, Crash
  <2> QED
    BY <1>4, <2>1 DEF OtherStep
<1>9. CASE Settled(r)
  <2>1. At(r, "settle") /\ (settleAttempt(runner[r].nextJobID, runner[r].result[1]) \/ UNCHANGED vars)
    BY <1>9 DEF Settled, transact
  <2> QED
    BY <1>4, <1>5, <2>1 DEF OtherStep
<1> QED
  BY <1>7, <1>8, <1>9

LEMMA RefundInvStep == RefundInv /\ [RunNext]_allVars => RefundInv'
<1> SUFFICES ASSUME RefundInv, [RunNext]_allVars PROVE RefundInv'
  OBVIOUS
<1>1. RunInv'
  BY RunInvStep DEF RefundInv
<1>2. ASSUME OtherStep, UNCHANGED runnerVars PROVE RefundInv'
  BY <1>1, <1>2, OthersStay, RunnersRest DEF RefundInv, runnerVars
<1>3. CASE ElseStep /\ UNCHANGED <<relayerVars, runnerVars>>
  <2>1. OtherStep
    BY <1>3 DEF ElseStep, StrangerStep, AdoptExtensionId, OtherStep, PartyStep, Administer, AdminNext
  <2> QED
    BY <1>2, <1>3, <2>1
<1>4. CASE Answer /\ UNCHANGED runnerVars
  BY <1>2, <1>4 DEF Answer, OtherStep
<1>5. ASSUME NEW p \in Relayers, RelayerStep(p), UNCHANGED runnerVars PROVE RefundInv'
  BY <1>5, RelayerKeepsRefunds
<1>6. ASSUME NEW r \in Runners, RunnerStep(r) PROVE RefundInv'
  BY <1>6, ApprovalKeepsRefunds, CreationKeepsRefunds, RefundKeepsRefunds, LaterKeepsRefunds
     DEF RunnerStep, RunnerProceeds
<1>7. CASE UNCHANGED allVars
  BY <1>2, <1>7 DEF allVars, OtherStep
<1> QED
  BY <1>3, <1>4, <1>5, <1>6, <1>7 DEF RunNext

LEMMA RefundInvInit == RunInit => RefundInv
<1> SUFFICES ASSUME RunInit PROVE RefundInv
  OBVIOUS
<1>1. RunInv /\ SolventInv
  BY RunInvInit, SolventInit DEF RunInit
<1>2. \A r \in Runners : runner[r] = NewRunner /\ created[r] = {}
  BY DEF RunInit, RunnerInit
<1>3. \A r \in Runners : RefundOK(runner[r], created[r], nextJobId, terms, settled)
  BY <1>2 DEF RefundOK, NewRunner
<1> QED
  BY <1>1, <1>3 DEF RefundInv
-----------------------------------------------------------------------------
(* Delivery.  A relayer that ends well although its transaction reverted   *)
(* is excused: somebody else has brought the verdict on chain, the attempt *)
(* is over, or the artifact's code has changed.                            *)
Excused(w) ==
    \/ HasVerdict(w, settlements)
    \/ Over(w.claim)
    \/ w.claim.artifactAddress \in Redeployable

(* What the proxy has is dated and counted so that the contract takes it. *)
AnswersFit ==
    \A a \in answers : /\ Timely(a.result.claim, a.result.issuedAt)
                       /\ a.result.status = 1 => Countable(a.result)

DeliveryInv ==
    /\ RefundInv
    /\ BindingInv
    /\ AnswersFit
    /\ \A p \in Relayers : Delivers(relay[p]) => Excused(relay[p].result[1])

LEMMA OthersMove ==
    ASSUME OtherStep
    PROVE  EscrowMove
BY Zenon DEF OtherStep, Create, EscrowMove

LEMMA RelayersMove ==
    ASSUME RunInv, NEW p \in Relayers, RelayerStep(p)
    PROVE  EscrowMove
<1>1. CASE runCli(p) \/ fetchActionResponse(p) \/ pollActionResponse(p) \/ ProxyError(p)
  BY <1>1 DEF EscrowMove, runCli, fetchActionResponse, pollActionResponse, ProxyError
<1>2. CASE Settles(p) \/ Expires(p) \/ Refunds(p)
  <2>1. relay[p].job \in JobIds
    BY <1>2 DEF RunInv, RelayOK, Settles, Expires, Refunds, sendContractCall
  <2>2. \/ expireVerification(relay[p].job) \/ refundExpired(relay[p].job)
        \/ settleAttempt(relay[p].job, relay[p].result[1]) \/ UNCHANGED vars
    BY <1>2 DEF Settles, Expires, Refunds, sendContractCall
  <2> QED
    BY <2>1, <2>2 DEF EscrowMove, PartyStep
<1> QED
  BY <1>1, <1>2 DEF RelayerStep

LEMMA RunnersMove ==
    ASSUME RunInv, NEW r \in Runners, RunnerStep(r)
    PROVE  EscrowMove
<1>1. RunnerOK(runner[r], nextJobId, answers, settlements, MyJobs(r)) /\ r \in Address
  BY RunnerAssumption DEF RunInv
<1>2. CASE CreateJob(r)
  BY <1>2, Zenon DEF CreateJob, EscrowMove
<1>3. CASE RefundExpired(r) \/ AcceptJob(r) \/ SubmitAttempt(r) \/ waitForRandomness(r) \/ Dispatch(r) \/ Settled(r)
  <2>1. runner[r].nextJobID \in JobIds
    BY <1>1, <1>3 DEF RunnerOK, WithJob, RefundExpired, AcceptJob, SubmitAttempt, waitForRandomness, Dispatch,
                      Settled, At
  <2>2. \/ PartyStep(runner[r].nextJobID)
        \/ settleAttempt(runner[r].nextJobID, runner[r].result[1]) \/ UNCHANGED vars
    BY <1>1, <1>3 DEF RefundExpired, AcceptJob, SubmitAttempt, waitForRandomness, Dispatch, Settled, transact, PartyStep
  <2> QED
    BY <2>1, <2>2 DEF EscrowMove
<1>4. CASE \/ Approve(r) \/ ReadNextJobId(r) \/ getJob(r) \/ pollActionResult(r) \/ Hang(r) \/ resumeFromReady(r)
           \/ Crash(r)
  BY <1>4 DEF EscrowMove, Approve, ReadNextJobId, getJob, pollActionResult, Hang, resumeFromReady, Crash
<1> QED
  BY <1>2, <1>3, <1>4 DEF RunnerStep, RunnerProceeds

LEMMA RunMoves ==
    ASSUME RunInv, [RunNext]_allVars
    PROVE  EscrowMove
<1>1. CASE ElseStep
  <2>1. OtherStep
    BY <1>1 DEF ElseStep, StrangerStep, AdoptExtensionId, OtherStep, PartyStep, Administer, AdminNext
  <2> QED
    BY <2>1, OthersMove
<1>2. CASE Answer \/ UNCHANGED allVars
  BY <1>2 DEF Answer, allVars, EscrowMove
<1> QED
  BY <1>1, <1>2, RelayersMove, RunnersMove DEF RunNext

(* Verdicts stay on chain, and what is over stays so. *)
LEMMA VerdictsStay ==
    ASSUME TypeOK, EscrowMove, NEW w, HasVerdict(w, settlements)
    PROVE  HasVerdict(w, settlements')
<1>1. settlements \in [JobIds -> Seq(Verdict)]
  BY DEF TypeOK
<1>2. CASE settlements' = settlements
  BY <1>2
<1>3. ASSUME NEW id \in JobIds, NEW u, settlements' = [settlements EXCEPT ![id] = Append(settlements[id], u)]
      PROVE  HasVerdict(w, settlements')
  <2>1. ASSUME NEW k \in JobIds, NEW n \in 1..Len(settlements[k])
        PROVE  n \in 1..Len(settlements'[k]) /\ settlements'[k][n] = settlements[k][n]
    <3>1. CASE k # id
      BY <1>1, <1>3, <3>1
    <3>2. CASE k = id
      <4>1. PICK s \in Seq(Verdict) : s = settlements[id]
        BY <1>1
      <4>2. settlements'[k] = Append(s, u) /\ n \in 1..Len(s) /\ Len(s) \in Nat
        BY <1>1, <1>3, <3>2, <4>1
      <4>3. Len(Append(s, u)) = Len(s) + 1 /\ Append(s, u)[n] = s[n]
        BY <4>2
      <4> QED
        BY <3>2, <4>1, <4>2, <4>3
    <3> QED
      BY <3>1, <3>2
  <2> QED
    BY <2>1 DEF HasVerdict
<1>4. ASSUME NEW id \in JobIds, NEW r, settleAttempt(id, r)
      PROVE  settlements' = [settlements EXCEPT ![id] = Append(settlements[id], Settlement(id, r))]
  BY <1>4 DEF settleAttempt
<1>5. ASSUME NEW id \in JobIds, PartyStep(id) PROVE settlements' = settlements
  BY <1>5 DEF PartyStep, acceptJob, cancelUnaccepted, refundExpired, ReturnToClient, submitAttempt,
              lockRandomness, dispatchVerification, expireVerification, history
<1>6. CASE \/ Administer \/ Environment \/ UNCHANGED vars
           \/ \E sender, contractor, tee, principal, s, commitment :
                 createJob(sender, contractor, tee, principal, s, commitment)
  BY <1>2, <1>6 DEF Administer, Environment, Tick, FinalizeRound, ChangeTeeStatus, ChangeCode, createJob, vars, history
<1> QED
  BY <1>2, <1>3, <1>4, <1>5, <1>6 DEF EscrowMove

LEMMA OverStays ==
    ASSUME TypeOK, TypeOK', NewestInstruction, EscrowMove, NEW i \in sent, Over(i)
    PROVE  Over(i)'
<1>1. i.jobId \in JobIds /\ i.instructionId \in Nat /\ i.instructionId <= nonce /\ nonce \in Nat /\ now \in Nat
  BY BoundAssumption DEF TypeOK, Instruction, NewestInstruction
<1>2. PICK id \in JobIds : id = i.jobId
  BY <1>1
<1>3. KeepsWaiting(id) /\ (now' = now \/ now' = now + 1)
  BY MovesKeepWaiting
<1>4. CASE state'[id] # "Verifying"
  BY <1>2, <1>4 DEF Over
<1>5. CASE state[id] = "Verifying" /\ current'[id] = current[id]
  <2>1. current[id].timeoutAt \in Nat
    BY DEF TypeOK, AttemptState
  <2>2. CASE now > current[id].timeoutAt
    <3>1. now' > current'[id].timeoutAt
      BY <1>1, <1>3, <1>5, <2>1, <2>2
    <3> QED
      BY <1>2, <3>1 DEF Over
  <2> QED
    BY <1>2, <1>5, <2>2 DEF Over
<1>6. CASE current'[id].instructionId = nonce + 1
  <2>1. current'[id].instructionId # i.instructionId
    BY <1>1, <1>6
  <2> QED
    BY <1>2, <2>1 DEF Over
<1> QED
  BY <1>3, <1>4, <1>5, <1>6 DEF KeepsWaiting

LEMMA ExcusedStays ==
    ASSUME TypeOK, TypeOK', NewestInstruction, EscrowMove, NEW w, w.claim \in sent, Excused(w)
    PROVE  Excused(w)'
<1>1. PICK i \in sent : i = w.claim
  OBVIOUS
<1>2. Over(i) => Over(i)'
  BY OverStays
<1>3. Over(w.claim)' <=> Over(i)'
  BY <1>1 DEF Over
<1> QED
  BY <1>1, <1>2, <1>3, VerdictsStay DEF Excused

(* A transaction with a result of the proxy for an attempt that is open    *)
(* does not revert: the result is bound to the attempt, and the escrow     *)
(* holds the tokens.                                                       *)
LEMMA RevertIsExcused ==
    ASSUME DeliveryInv, NEW p \in Relayers, relay[p].pc = "mining", relay[p].result # <<>>,
           NEW w, w = relay[p].result[1], settleReverts(relay[p].job, w)
    PROVE  Excused(w)
<1> SUFFICES ASSUME ~Over(w.claim), w.claim.artifactAddress \notin Redeployable PROVE FALSE
  BY DEF Excused
<1>1. /\ RelayOK(relay[p], now, sent, answers) /\ AnswersOK /\ SolventInv /\ TypeOK
      /\ BindingInv /\ AnswersFit /\ LedgerInv
  BY DEF DeliveryInv, RefundInv, RunInv, SolventInv, LedgerInv
<1>2. PICK a \in answers : relay[p].result = <<a.result>> /\ Names(a, relay[p])
  BY <1>1 DEF RelayOK
<1>3. w = a.result /\ w.claim.instructionId = relay[p].instructionId /\ validateActionResponse(w)
  BY <1>1, <1>2 DEF RelayOK, Names
<1>4. /\ w.claim \in sent /\ w.signer = w.claim.tee /\ Timely(w.claim, w.issuedAt) /\ Countable(w)
      /\ w \in ProxyResults
  BY <1>1, <1>3 DEF AnswersOK, AnswersFit, validateActionResponse
<1>5. PICK id \in JobIds : id = w.claim.jobId
  BY <1>1, <1>4 DEF TypeOK, Instruction
<1>6. /\ state[id] = "Verifying" /\ current[id].instructionId = w.claim.instructionId
      /\ ~(now > current[id].timeoutAt)
  BY <1>5 DEF Over
<1>7. /\ current[id].instructionId # 0 /\ current[id].timeoutAt <= terms[id].graceEnds
      /\ \A i \in sent : i.instructionId = current[id].instructionId => i = InstructionFor(id, current[id].instructionId)
  BY <1>1, <1>6 DEF BindingInv, Awaited
<1>8. w.claim = InstructionFor(id, current[id].instructionId)
  BY <1>4, <1>6, <1>7
<1>9. relay[p].job = id
  <2>1. PICK i \in sent : i.jobId = relay[p].job /\ i.instructionId = relay[p].instructionId
    BY <1>1 DEF RelayOK
  <2>2. i = InstructionFor(id, current[id].instructionId)
    BY <1>3, <1>6, <1>7, <2>1
  <2> QED
    BY <2>1, <2>2 DEF InstructionFor
<1>10. ~(now > terms[id].graceEnds)
  <2>1. now \in Nat /\ current[id].timeoutAt \in Nat /\ terms[id].graceEnds \in Nat
    BY <1>1, BoundAssumption DEF TypeOK, AttemptState, JobTerms
  <2> QED
    BY <1>6, <1>7, <2>1
<1>11. Authentic(id, w)
  BY <1>3, <1>4, <1>8 DEF Authentic, validateActionResponse, InstructionFor
<1>12. _checkIdentity(id, w)
  BY <1>8 DEF _checkIdentity, InstructionFor
<1>13. _checkOutcomeBinding(id, w)
  <2>1. w.claim.artifactAddress = current[id].artifactAddress
    BY <1>8 DEF InstructionFor
  <2>2. code[current[id].artifactAddress] = current[id].artifactCodeHash
    BY <1>1, <1>6, <2>1 DEF BindingInv, DeployedAsSubmitted, Open
  <2>3. current[id].dispatchedAt <= w.issuedAt /\ w.issuedAt <= now
    BY <1>4, <1>5, <1>6 DEF Timely
  <2> QED
    BY <1>4, <1>8, <2>2, <2>3 DEF _checkOutcomeBinding, Countable, InstructionFor
<1>14. PICK t \in JobTerms : t = terms[id]
  BY <1>1 DEF TypeOK
<1>15. t.contractor \in Address /\ ~settled[id] /\ Exists(id)
  <2>1. Exists(id)
    BY <1>1, <1>6 DEF LedgerInv, NeverCreated
  <2> QED
    BY <1>1, <1>6, <1>14, <2>1 DEF LedgerInv, PartiesKnown, PaysOutExactlyOnce
<1>16. balance[Self] >= t.principal + t.fee /\ t.principal \in Nat /\ t.fee \in Nat
  BY <1>1, <1>14, <1>15, OwedIsCovered DEF Owed, JobTerms
<1>17. balance \in [Accounts -> Nat] /\ Self \in Accounts /\ t.contractor \in Accounts /\ t.contractor # Self
  BY <1>1, <1>15, AddressAssumption DEF TypeOK, Accounts
<1>18. TokenAccepts(balance, Self, t.contractor, t.principal)
  BY <1>15, <1>16, <1>17, AddressAssumption DEF TokenAccepts
<1>19. TokenAccepts(Moved(balance, Self, t.contractor, t.principal), Self, Treasury, t.fee)
  <2>1. Moved(balance, Self, t.contractor, t.principal)[Self] = balance[Self] - t.principal
    BY <1>17 DEF Moved
  <2>2. balance[Self] - t.principal >= t.fee
    BY <1>16, <1>17
  <2> QED
    BY <2>1, <2>2, TokenAssumption, AddressAssumption DEF TokenAccepts
<1> QED
  BY <1>6, <1>7, <1>9, <1>10, <1>11, <1>12, <1>13, <1>14, <1>18, <1>19 DEF settleReverts, _checkBinding

(* The step of a relayer that ends it well. *)
LEMMA RelayerEndsExcused ==
    ASSUME DeliveryInv, NEW p \in Relayers, RelayerStep(p), Delivers(relay'[p])
    PROVE  Excused(relay[p].result[1])'
<1>1. /\ RelayOK(relay[p], now, sent, answers) /\ relay[p] \in RelayRecords /\ AnswersOK /\ VerdictInv
      /\ DOMAIN relay = Relayers
  BY DEF DeliveryInv, RefundInv, RunInv, RelayOK
<1>2. ASSUME NEW pc, NEW why, Ends(p, pc, why)
      PROVE  relay'[p].pc = pc /\ relay'[p].result = relay[p].result
  BY <1>1, <1>2 DEF Ends, RelayRecords
<1>3. CASE runCli(p)
  <2>1. relay'[p].pc \in {"poll", "send"}
    BY <1>1, <1>3 DEF runCli, IdleRelay
  <2> QED
    BY <2>1 DEF Delivers
<1>4. CASE fetchActionResponse(p)
  <2>1. relay'[p].pc = "reply"
    BY <1>1, <1>4 DEF fetchActionResponse, Asks, RelayRecords
  <2> QED
    BY <2>1 DEF Delivers
<1>5. CASE pollActionResponse(p)
  <2>1. CASE relay[p].result # <<>>
    <3>1. relay'[p].pc \in {"send", "failed"}
      BY <1>2, <1>5, <2>1 DEF pollActionResponse
    <3> QED
      BY <3>1 DEF Delivers
  <2>2. CASE relay[p].result = <<>>
    <3>1. relay'[p].pc \in {"poll", "failed"}
      BY <1>1, <1>5, <2>2 DEF pollActionResponse, RelayRecords
    <3> QED
      BY <3>1 DEF Delivers
  <2> QED
    BY <2>1, <2>2
<1>6. CASE ProxyError(p)
  BY <1>2, <1>6 DEF ProxyError, Delivers
<1>7. CASE Expires(p) \/ Refunds(p)
  <2>1. relay[p].command # "relay"
    BY <1>7 DEF Expires, Refunds, sendContractCall
  <2>2. relay[p].result = <<>>
    BY <1>1, <2>1 DEF RelayOK
  <2>3. \E pc, why : Ends(p, pc, why)
    BY <1>7 DEF Expires, Refunds, sendContractCall
  <2> QED
    BY <1>2, <2>2, <2>3 DEF Delivers
<1>8. CASE Settles(p)
  <2>1. PICK w : w = relay[p].result[1]
    OBVIOUS
  <2>2. relay[p].result # <<>> /\ relay[p].job \in JobIds
    BY <1>1, <1>8 DEF Settles, RelayOK
  <2>3. PICK a \in answers : relay[p].result = <<a.result>>
    BY <1>1, <2>2 DEF RelayOK
  <2>4. w = a.result /\ Delivered(w)
    BY <1>1, <2>1, <2>3, ProxyResultDelivered
  <2>5. relay'[p].pc = "done" /\ relay'[p].result = relay[p].result
    BY <1>2, <1>8 DEF Settles, sendContractCall, Delivers
  <2>6. relay[p].pc = "mining" /\ (settleAttempt(relay[p].job, w) \/ (settleReverts(relay[p].job, w) /\ UNCHANGED vars))
    BY <1>2, <1>8, <2>1, <2>5 DEF Settles, sendContractCall
  <2>7. CASE settleAttempt(relay[p].job, w)
    <3>1. HasVerdict(w, settlements')
      BY <1>1, <2>2, <2>4, <2>7, SettleGrows
    <3> QED
      BY <2>1, <2>5, <3>1 DEF Excused
  <2>8. CASE settleReverts(relay[p].job, w) /\ UNCHANGED vars
    <3>1. Excused(w)
      BY <2>1, <2>2, <2>6, <2>8, RevertIsExcused
    <3>2. UNCHANGED <<settlements, state, current, now>>
      BY <2>8 DEF vars, storage, chain, history
    <3> QED
      BY <2>1, <2>5, <3>1, <3>2 DEF Excused, Over
  <2> QED
    BY <2>6, <2>7, <2>8
<1> QED
  BY <1>3, <1>4, <1>5, <1>6, <1>7, <1>8 DEF RelayerStep

LEMMA AnswersStayFit ==
    ASSUME DeliveryInv, RunInv', [RunNext]_allVars, EscrowMove
    PROVE  AnswersFit'
<1>1. /\ TypeOK /\ NewestInstruction /\ AnswersOK /\ AnswersFit /\ BindingInv /\ now \in Nat
  BY BoundAssumption DEF DeliveryInv, RefundInv, RunInv, VerdictInv, LedgerInv, TypeOK
<1>2. (\A id \in JobIds : KeepsWaiting(id)) /\ (now' = now \/ now' = now + 1)
  BY <1>1, MovesKeepWaiting
<1>3. ASSUME NEW a \in answers
      PROVE  Timely(a.result.claim, a.result.issuedAt)' /\ (a.result.status = 1 => Countable(a.result))
  <2>1. PICK i \in sent, time \in Nat : i = a.result.claim /\ time = a.result.issuedAt
    BY <1>1 DEF AnswersOK, ProxyResults
  <2>2. Timely(i, time)'
    BY <1>1, <1>2, <2>1, TimelyStays DEF AnswersFit
  <2> QED
    BY <1>1, <2>1, <2>2 DEF AnswersFit, Timely
<1>4. CASE answers' = answers
  BY <1>3, <1>4 DEF AnswersFit
<1>5. CASE Answer
  <2>1. PICK claim \in sent, kind \in AnswerKinds, tag \in Tags :
           answers' = answers \cup {[result |-> ResultOf(claim, kind, tag), at |-> now]}
    BY <1>5 DEF Answer
  <2>2. PICK w : w = ResultOf(claim, kind, tag)
    OBVIOUS
  <2>3. /\ w.claim = claim /\ w.issuedAt = now /\ w.executed = 1
        /\ w.status = (IF kind = "error" THEN 0 ELSE 1)
        /\ w.outcome = (IF kind = "error" THEN "Inconclusive" ELSE kind)
        /\ w.passed = (IF kind = "Pass" THEN 1 ELSE 0)
    BY <2>2 DEF ResultOf, SignedResult
  <2>4. w.status = 1 => Countable(w)
    BY <2>3 DEF Countable
  <2>5. UNCHANGED <<state, current, now>>
    BY <1>5 DEF Answer, vars, storage, chain
  <2>6. Timely(w.claim, w.issuedAt)'
    <3>1. claim.jobId \in JobIds
      BY <1>1 DEF TypeOK, Instruction
    <3> QED
      BY <1>1, <2>3, <2>5, <3>1 DEF Timely, BindingInv, Awaited
  <2>7. \A b \in answers' : b \in answers \/ b.result = w
    BY <2>1, <2>2
  <2> QED
    BY <1>3, <2>4, <2>6, <2>7 DEF AnswersFit
<1>6. answers' = answers \/ Answer
  <2>1. ASSUME NEW p \in Relayers, RelayerStep(p) PROVE answers' = answers
    BY <2>1 DEF RelayerStep, runCli, fetchActionResponse, pollActionResponse, ProxyError, Settles, Expires, Refunds,
                sendContractCall
  <2>2. ASSUME NEW r \in Runners, RunnerStep(r) PROVE answers' = answers
    <3>1. UNCHANGED relayerVars
      BY <2>2 DEF RunnerStep, RunnerProceeds, Approve, ReadNextJobId, CreateJob, RefundExpired, AcceptJob,
                  SubmitAttempt, waitForRandomness, Dispatch, getJob, pollActionResult, Settled, Hang,
                  resumeFromReady, Crash, transact
    <3> QED
      BY <3>1 DEF relayerVars
  <2> QED
    BY <2>1, <2>2 DEF RunNext, allVars, relayerVars
<1> QED
  BY <1>4, <1>5, <1>6

LEMMA DeliveryStep == DeliveryInv /\ [RunNext]_allVars => DeliveryInv'
<1> SUFFICES ASSUME DeliveryInv, [RunNext]_allVars PROVE DeliveryInv'
  OBVIOUS
<1>1. RefundInv /\ RefundInv' /\ RunInv /\ RunInv'
  BY RefundInvStep DEF DeliveryInv, RefundInv
<1>2. EscrowMove
  BY <1>1, RunMoves
<1>3. TypeOK /\ TypeOK' /\ NewestInstruction /\ AnswersOK
  BY <1>1 DEF RunInv, VerdictInv, LedgerInv
<1>4. BindingInv'
  BY <1>2, <1>3, BindingStep DEF DeliveryInv
<1>5. AnswersFit'
  BY <1>1, <1>2, AnswersStayFit
<1>6. ASSUME NEW q \in Relayers, relay'[q] = relay[q], Delivers(relay[q])
      PROVE  Excused(relay[q].result[1])'
  <2>1. PICK w : w = relay[q].result[1]
    OBVIOUS
  <2>2. w.claim \in sent
    BY <1>1, <1>3, <1>6, <2>1 DEF RunInv, RelayOK, Delivers, AnswersOK
  <2>3. Excused(w)'
    BY <1>2, <1>3, <1>6, <2>1, <2>2, ExcusedStays DEF DeliveryInv
  <2> QED
    BY <1>6, <2>1, <2>3 DEF Excused, Over
<1>7. ASSUME NEW q \in Relayers, Delivers(relay'[q]) PROVE Excused(relay[q].result[1])'
  <2>1. CASE relay' = relay
    BY <1>6, <1>7, <2>1
  <2>2. ASSUME NEW p \in Relayers, RelayerStep(p) PROVE Excused(relay[q].result[1])'
    <3>1. CASE p = q
      BY <1>7, <2>2, <3>1, RelayerEndsExcused
    <3>2. CASE p # q
      <4>1. \E c : relay' = [relay EXCEPT ![p] = c]
        BY <2>2 DEF RelayerStep, runCli, fetchActionResponse, Asks, pollActionResponse, ProxyError, Settles, Expires,
                    Refunds, sendContractCall, Ends
      <4>2. relay'[q] = relay[q]
        BY <1>1, <3>2, <4>1 DEF RunInv
      <4> QED
        BY <1>6, <1>7, <4>2
    <3> QED
      BY <3>1, <3>2
  <2>3. ASSUME NEW r \in Runners, RunnerStep(r) PROVE relay' = relay
    <3>1. UNCHANGED relayerVars
      BY <2>3 DEF RunnerStep, RunnerProceeds, Approve, ReadNextJobId, CreateJob, RefundExpired, AcceptJob,
                  SubmitAttempt, waitForRandomness, Dispatch, getJob, pollActionResult, Settled, Hang,
                  resumeFromReady, Crash, transact
    <3> QED
      BY <3>1 DEF relayerVars
  <2>4. CASE Answer \/ UNCHANGED relayerVars
    BY <2>1, <2>4 DEF Answer, relayerVars
  <2> QED
    BY <2>1, <2>2, <2>3, <2>4 DEF RunNext, allVars
<1> QED
  BY <1>1, <1>4, <1>5, <1>7 DEF DeliveryInv

LEMMA DeliveryInit == RunInit => DeliveryInv
<1> SUFFICES ASSUME RunInit PROVE DeliveryInv
  OBVIOUS
<1>1. RefundInv /\ BindingInv
  BY RefundInvInit, BindingInit DEF RunInit
<1>2. answers = {} /\ \A p \in Relayers : relay[p].pc = "idle"
  BY DEF RunInit, RelayerInit, IdleRelay
<1> QED
  BY <1>1, <1>2 DEF DeliveryInv, AnswersFit, Delivers
-----------------------------------------------------------------------------
(* pollActionResponse: a relayer gives up with a result at the proxy by    *)
(* its deadline only if that came after it asked the last time, while the  *)
(* response was under way; for all intervals, timeouts and delays.         *)
THEOREM GivingUpMissesNothing == RunSpec => []NoAnswerMissed
<1>1. RunInv => NoAnswerMissed
  <2> SUFFICES ASSUME RunInv, NEW p \in Relayers, relay[p].why = "timeout", NEW a \in answers,
                      a.result.claim.instructionId = relay[p].instructionId, a.at < relay[p].deadline
               PROVE  relay[p].asked <= a.at /\ a.at <= relay[p].replied
    BY DEF NoAnswerMissed
  <2>1. /\ relay[p].asked <= a.at /\ relay[p].deadline <= relay[p].replied
        /\ relay[p].deadline \in Nat /\ relay[p].replied \in Nat /\ a.at \in Nat
    BY DEF RunInv, RelayOK, RelayRecords, AnswersOK, Names
  <2> QED
    BY <2>1
<1> QED
  BY <1>1, RunInvariant, PTL

(* One verdict of a job answers a claim. *)
LEMMA VerdictIsOnChain ==
    ASSUME VerdictInv, NEW w, HasVerdict(w, settlements)
    PROVE  OnChain(w)
<1>1. PICK id \in JobIds : id = w.claim.jobId
  BY DEF HasVerdict
<1>2. PICK k \in 1..Len(settlements[id]) : settlements[id][k].claim = w.claim /\ settlements[id][k].outcome = w.outcome
  BY <1>1 DEF HasVerdict
<1>3. DOMAIN settlements[id] = 1..Len(settlements[id]) /\ Len(settlements[id]) \in Nat
  BY DEF VerdictInv, LedgerInv, TypeOK
<1>4. ASSUME NEW j \in 1..Len(settlements[id]), settlements[id][j].claim = w.claim PROVE j = k
  <2>1. settlements[id][j].claim.attempt \in Nat
    BY AttemptOfVerdict DEF VerdictInv, LedgerInv
  <2>2. ~(j < k) /\ ~(k < j)
    BY <1>2, <1>4, <2>1 DEF VerdictInv, OneVerdictPerAttempt
  <2> QED
    BY <1>3, <2>2
<1> QED
  BY <1>1, <1>2, <1>3, <1>4 DEF OnChain

(* sendContractCall, transact, settleAttempt: a runner that ends well has  *)
(* its verdict on chain, once, and no other runner has delivered it; a     *)
(* relayer, which does not look at the receipt, ends well without it only  *)
(* where the attempt is over or the artifact's code can change, for any    *)
(* number of relayers and runners that carry results of one instruction.   *)
THEOREM DeliveredOnce == RunSpec => []OneDeliveryCounts
<1>1. DeliveryInv => OneDeliveryCounts
  <2> SUFFICES ASSUME DeliveryInv PROVE OneDeliveryCounts
    OBVIOUS
  <2>1. RunInv /\ VerdictInv
    BY DEF DeliveryInv, RefundInv, RunInv
  <2>2. ASSUME NEW r \in Runners, runner[r].pc = "done", runner[r].result # <<>> PROVE OnChain(runner[r].result[1])
    BY <2>1, <2>2, VerdictIsOnChain DEF RunInv, RunnerOK
  <2>3. ASSUME NEW r \in Runners, NEW q \in Runners, runner[r].pc = "done", runner[r].result # <<>>,
               runner[q].pc = "done", runner[q].result # <<>>,
               runner[q].result[1].claim = runner[r].result[1].claim
        PROVE  q = r
    BY <2>1, <2>3 DEF RunInv, OneEach, Delivers
  <2>4. ASSUME NEW p \in Relayers, relay[p].pc = "done", relay[p].result # <<>>
        PROVE  \/ OnChain(relay[p].result[1]) \/ Over(relay[p].result[1].claim)
               \/ relay[p].result[1].claim.artifactAddress \in Redeployable
    BY <2>1, <2>4, VerdictIsOnChain DEF DeliveryInv, Delivers, Excused
  <2> QED
    BY <2>2, <2>3, <2>4, Zenon DEF OneDeliveryCounts
<1> QED
  BY <1>1, DeliveryInit, DeliveryStep, PTL DEF RunSpec

(* main, resumeFromReady: a verifying run that ends well has brought the   *)
(* result it polled on chain, for the job it names, which it has created   *)
(* or was told to resume, or which another client has hired it for.        *)
THEOREM FinishedRunsVerified == RunSpec => []FinishedRunVerifiedItsOwnJob
<1>1. RunInv => FinishedRunVerifiedItsOwnJob
  <2> SUFFICES ASSUME RunInv, NEW r \in Runners, At(r, "done"), ~runner[r].refundOnly, NEW id, id = runner[r].nextJobID
               PROVE  /\ \/ id \in created[r] \/ runner[r].resumed
                         \/ terms[id].contractor = r /\ terms[id].client \in Clients
                      /\ \E k \in 1..Len(settlements[id]) : settlements[id][k].claim = runner[r].result[1].claim
    BY DEF FinishedRunVerifiedItsOwnJob
  <2>1. RunnerOK(runner[r], nextJobId, answers, settlements, MyJobs(r)) /\ runner[r].pc = "done"
    BY DEF RunInv, At
  <2>2. /\ id \in MyJobs(r) \/ runner[r].resumed
        /\ HasVerdict(runner[r].result[1], settlements)
        /\ runner[r].result[1].claim.jobId = id
    BY <2>1 DEF RunnerOK, Hired
  <2> QED
    BY <2>2 DEF HasVerdict, MyJobs
<1> QED
  BY <1>1, RunInvariant, PTL

(* main, waitForGrace: the refund transaction of a run for the job it has  *)
(* created reverts only where the job is settled already, if the margin    *)
(* the runner waits is more than its clock can be ahead of the chain's.    *)
(* Neither the deadline nor the token balance can be the reason.           *)
THEOREM RefundsComeDue ==
    ASSUME MarginCoversClock
    PROVE  RunSpec => []RefundIsNotTooEarly
<1>1. RefundInv => RefundIsNotTooEarly
  <2> SUFFICES ASSUME RefundInv, NEW r \in Runners, At(r, "failed"), runner[r].why = "refundExpired",
                      runner[r].nextJobID \in created[r]
               PROVE  settled[runner[r].nextJobID]
    BY DEF RefundIsNotTooEarly
  <2> QED
    BY DEF RefundInv, RefundOK, At
<1> QED
  BY <1>1, RefundInvInit, RefundInvStep, PTL DEF RunSpec
=============================================================================
