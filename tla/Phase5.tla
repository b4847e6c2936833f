------------------------------- MODULE Phase5 -------------------------------
(***************************************************************************)
(* go/cmd/workproof-phase5/main.go: the runner that plays client and       *)
(* contractor of one job, from approve and createJob to settleAttempt, or  *)
(* to refundExpired with -refund-only, and that can resume a job which is  *)
(* ready to be verified.                                                   *)
(*                                                                         *)
(* Every runner has an account of its own; by default it is its own        *)
(* contractor.  Between two transactions of a runner everybody else who    *)
(* uses the escrow may step: other runners, strangers calling the          *)
(* functions open to all, the relayers of module Relayer, the owner.       *)
(* A transaction that reverts ends the runner (transact, fatalf).          *)
(***************************************************************************)
EXTENDS Relayer

CONSTANTS
    Runners,        \* accounts that run the program
    Modes,          \* values of -refund-only
    AcceptDelay, SubmitDelay, GraceDelay, VerifyTimeout,
    RandomnessTimeout,  \* waitForRandomness gives up after this long
    PollTimeout,    \* -poll-timeout
    GraceMargin,    \* waitForGrace waits this much longer
    ClockAhead,     \* by how much a runner's clock is ahead of the chain's
    MaxCrashes,     \* bound: runners killed
    ProxyHangs      \* can the proxy take a request and never answer it?

VARIABLES
    runner,         \* the runner processes
    allowance,      \* external: what a runner lets the escrow take
    created,        \* history: the jobs a runner has created
    crashes         \* external: runners killed so far

runnerVars == <<runner, allowance, created, crashes>>
allVars == <<vars, relayerVars, runnerVars>>

ASSUME RunnerAssumption ==
    /\ Runners \subseteq Address /\ Modes \subseteq BOOLEAN
    /\ RandomnessTimeout \in Nat /\ PollTimeout \in Nat
    /\ GraceMargin \in Nat /\ ClockAhead \in Nat /\ MaxCrashes \in Nat
    /\ ProxyHangs \in BOOLEAN

(* What parseFlags demands of the durations. *)
parseFlags ==
    /\ {AcceptDelay, SubmitDelay, GraceDelay, VerifyTimeout} \subseteq Nat
    /\ 0 < AcceptDelay /\ AcceptDelay < SubmitDelay /\ SubmitDelay < GraceDelay
    /\ 0 < VerifyTimeout

ASSUME FlagsAssumption == parseFlags

NewRunner == [pc |-> "start", refundOnly |-> FALSE, principal |-> 0, nextJobID |-> 0,
              schedule |-> <<>>, deadline |-> 0, instructionId |-> 0, result |-> <<>>,
              resumed |-> FALSE, why |-> "none"]

RunnerInit ==
    /\ runner = [r \in Runners |-> NewRunner]
    /\ allowance = [r \in Runners |-> 0]
    /\ created = [r \in Runners |-> {}]
    /\ crashes = 0

Clock == now + ClockAhead

At(r, pc) == runner[r].pc = pc
Goes(r, pc) == runner' = [runner EXCEPT ![r] = [@ EXCEPT !.pc = pc]]
fatalf(r, why) == runner' = [runner EXCEPT ![r] = [@ EXCEPT !.pc = "failed", !.why = why]]

\* Mutant: the status in the receipt is not looked at.
M_transact(r, method, Call, Reverts, pc) ==
    /\ \/ Call /\ Goes(r, pc)
       \/ Reverts /\ Goes(r, pc) /\ UNCHANGED vars
    /\ UNCHANGED <<relayerVars, allowance, created, crashes>>

(* A transaction of runner r, after which it is at pc, or which reverts.   *)
transact(r, method, Call, Reverts, pc) ==
    /\ \/ Call /\ Goes(r, pc)
       \/ Reverts /\ fatalf(r, method) /\ UNCHANGED vars
    /\ UNCHANGED <<relayerVars, allowance, created, crashes>>
-----------------------------------------------------------------------------
(* The fee is read, the balance checked and the sum of principal and fee   *)
(* approved; the fee is not looked at again.                               *)
Approve(r) ==
    /\ At(r, "start")
    /\ \E principal \in Principals, refundOnly \in Modes :
          LET total == principal + Fee(principal) IN
          IF balance[r] < total
            THEN fatalf(r, "balance") /\ UNCHANGED allowance
            ELSE /\ allowance' = [allowance EXCEPT ![r] = total]
                 /\ runner' = [runner EXCEPT ![r] =
                       [@ EXCEPT !.pc = "nextJobId", !.principal = principal,
                                 !.refundOnly = refundOnly]]
    /\ UNCHANGED <<vars, relayerVars, created, crashes>>

deadlines(clock) ==
    [acceptBy |-> clock + AcceptDelay, submitBy |-> clock + SubmitDelay,
     graceEnds |-> clock + GraceDelay, verificationTimeout |-> VerifyTimeout]

(* The id the new job is expected to get, and its schedule. *)
ReadNextJobId(r) ==
    /\ At(r, "nextJobId")
    /\ runner' = [runner EXCEPT ![r] =
          [@ EXCEPT !.pc = "createJob", !.nextJobID = nextJobId, !.schedule = deadlines(Clock)]]
    /\ UNCHANGED <<vars, relayerVars, allowance, created, crashes>>

CreateJob(r) ==
    LET principal == runner[r].principal
        Call == /\ principal + Fee(principal) <= allowance[r]
                /\ \E tee \in Tees, commitment \in Commitments :
                      createJob(r, r, tee, principal, runner[r].schedule, commitment)
    IN  /\ At(r, "createJob")
        /\ nextJobId \in JobIds
        /\ \/ /\ Call
              /\ Goes(r, IF runner[r].refundOnly THEN "waitForGrace" ELSE "acceptJob")
              /\ allowance' = [allowance EXCEPT ![r] = @ - (principal + Fee(principal))]
              /\ created' = [created EXCEPT ![r] = @ \cup {nextJobId}]
           \/ ~ENABLED Call /\ fatalf(r, "createJob") /\ UNCHANGED <<vars, allowance, created>>
        /\ UNCHANGED <<relayerVars, crashes>>

\* Mutant: the runner does not wait longer than the grace period.
M_GracePassed(r) == Clock >= runner[r].schedule.graceEnds

(* waitForGrace sleeps until its own clock is well past graceEnds. *)
GracePassed(r) == Clock >= runner[r].schedule.graceEnds + GraceMargin

RefundExpired(r) ==
    /\ At(r, "waitForGrace") /\ GracePassed(r)
    /\ LET id == runner[r].nextJobID IN
       transact(r, "refundExpired", refundExpired(id), refundReverts(id), "done")

AcceptJob(r) ==
    /\ At(r, "acceptJob")
    /\ LET Call == acceptJob(r, runner[r].nextJobID) IN
       transact(r, "acceptJob", Call, ~ENABLED Call, "submitAttempt")

SubmitAttempt(r) ==
    LET Call == \E artifact \in Artifacts : submitAttempt(r, runner[r].nextJobID, artifact)
    IN  /\ At(r, "submitAttempt")
        /\ \/ /\ Call
              /\ runner' = [runner EXCEPT ![r] =
                    [@ EXCEPT !.pc = "waitForRandomness", !.deadline = Clock + RandomnessTimeout]]
           \/ ~ENABLED Call /\ fatalf(r, "submitAttempt") /\ UNCHANGED vars
        /\ UNCHANGED <<relayerVars, allowance, created, crashes>>

\* Mutant: the loop has no deadline.
M_waitForRandomness(r) ==
    /\ At(r, "waitForRandomness")
    /\ lockRandomness(runner[r].nextJobID) /\ Goes(r, "dispatch")
    /\ UNCHANGED <<relayerVars, allowance, created, crashes>>

(* Any lockRandomness that succeeds ends the wait; one that reverts is     *)
(* tried again until the deadline has passed.                              *)
waitForRandomness(r) ==
    /\ At(r, "waitForRandomness")
    /\ \/ lockRandomness(runner[r].nextJobID) /\ Goes(r, "dispatch")
       \/ /\ ~ENABLED lockRandomness(runner[r].nextJobID)
          /\ Clock > runner[r].deadline
          /\ fatalf(r, "randomness")
          /\ UNCHANGED vars
    /\ UNCHANGED <<relayerVars, allowance, created, crashes>>

Dispatch(r) ==
    /\ At(r, "dispatch")
    /\ LET Call == dispatchVerification(runner[r].nextJobID) IN
       transact(r, "dispatchVerification", Call, ~ENABLED Call, "getJob")

(* The instruction id is read back from the job. *)
getJob(r) ==
    /\ At(r, "getJob")
    /\ runner' = [runner EXCEPT ![r] =
          [@ EXCEPT !.pc = "poll", !.deadline = Clock + PollTimeout,
                    !.instructionId = current[runner[r].nextJobID].instructionId]]
    /\ UNCHANGED <<vars, relayerVars, allowance, created, crashes>>

(* The runner asks for one submission tag, takes the answer as it is, and  *)
(* tries again on every error and status but 200 until its deadline; a     *)
(* response that is an error, or old by the time it arrives, can hide a    *)
(* result that is there.                                                   *)
Polled(r) == {a \in Available(runner[r].instructionId) : a.tag = "threshold"}

pollActionResult(r) ==
    /\ At(r, "poll")
    /\ \/ \E result \in Polled(r) :
             IF result.status = 1
               THEN runner' = [runner EXCEPT ![r] = [@ EXCEPT !.pc = "settle", !.result = <<result>>]]
               ELSE fatalf(r, "status")
       \/ Clock > runner[r].deadline /\ fatalf(r, "poll")
    /\ UNCHANGED <<vars, relayerVars, allowance, created, crashes>>

(* http.Get has no timeout of its own. *)
Hang(r) ==
    /\ ProxyHangs
    /\ At(r, "poll")
    /\ Goes(r, "hung")
    /\ UNCHANGED <<vars, relayerVars, allowance, created, crashes>>

Settled(r) ==
    /\ At(r, "settle")
    /\ LET id == runner[r].nextJobID
           result == runner[r].result[1]
       IN  transact(r, "settleAttempt", settleAttempt(id, result), settleReverts(id, result), "done")

(* The operator starts the program again with -resume-job. *)
resumeFromReady(r) ==
    /\ runner[r].pc \in {"failed", "killed"}
    /\ \E id \in JobIds :
          IF state[id] = "ReadyToVerify"
            THEN runner' = [runner EXCEPT ![r] =
                    [NewRunner EXCEPT !.pc = "dispatch", !.nextJobID = id, !.resumed = TRUE]]
            ELSE fatalf(r, "resume")
    /\ UNCHANGED <<vars, relayerVars, allowance, created, crashes>>

Crash(r) ==
    /\ crashes < MaxCrashes
    /\ runner[r].pc \notin {"start", "done", "failed", "killed"}
    /\ Goes(r, "killed")
    /\ crashes' = crashes + 1
    /\ UNCHANGED <<vars, relayerVars, allowance, created>>
-----------------------------------------------------------------------------
RunnerProceeds(r) ==
    \/ Approve(r) \/ ReadNextJobId(r) \/ CreateJob(r) \/ RefundExpired(r) \/ AcceptJob(r)
    \/ SubmitAttempt(r) \/ waitForRandomness(r) \/ Dispatch(r) \/ getJob(r)
    \/ pollActionResult(r) \/ Settled(r)

RunnerStep(r) == RunnerProceeds(r) \/ Hang(r) \/ resumeFromReady(r) \/ Crash(r)

(* Others call what is open to all.  (The two calls for jobs that come to   *)
(* nothing are those of relayers.)                                          *)
StrangerStep(id) == lockRandomness(id) \/ dispatchVerification(id)

(* Of the owner's steps only the adoption of the extension id is kept.      *)
ElseStep ==
    \/ AdoptExtensionId
    \/ Create
    \/ \E id \in JobIds : StrangerStep(id)
    \/ Environment

(* Runners are started on a deployment that is set up. *)
RunNext ==
    \/ ElseStep /\ UNCHANGED <<relayerVars, runnerVars>>
    \/ Answer /\ UNCHANGED runnerVars
    \/ \E p \in Relayers : RelayerStep(p) /\ UNCHANGED runnerVars
    \/ _getExtensionId /\ \E r \in Runners : RunnerStep(r)

RunInit == Init /\ RelayerInit /\ RunnerInit

RunSpec == RunInit /\ [][RunNext]_allVars

(* Blocks keep coming, and a runner that is not killed goes on.            *)
RunFairSpec ==
    /\ RunSpec
    /\ WF_allVars(Tick /\ UNCHANGED <<relayerVars, runnerVars>>)
    /\ \A r \in Runners : WF_allVars(_getExtensionId /\ RunnerProceeds(r))
-----------------------------------------------------------------------------
(* main, resumeFromReady: whatever strangers, crashes and resumptions come  *)
(* in between, a verifying run that ends well has brought the result it     *)
(* polled on chain, for the job it names.  That job is the one it created,  *)
(* or one that it was told to resume, or one that it is the contractor of:  *)
(* acceptJob stops a runner that took another client's job for its own, but *)
(* not where that client has hired the runner's account.                    *)
FinishedRunVerifiedItsOwnJob ==
    \A r \in Runners : At(r, "done") /\ ~runner[r].refundOnly =>
       LET id == runner[r].nextJobID IN
       /\ \/ id \in created[r] \/ runner[r].resumed
          \/ terms[id].contractor = r /\ terms[id].client \in Clients
       /\ \E k \in 1..Len(settlements[id]) :
             settlements[id][k].claim = runner[r].result[1].claim

(* main, waitForGrace: the refund of a refund-only run is never too early,  *)
(* with a clock that is ahead of the chain's.  Its transaction reverts only *)
(* where somebody else has called refundExpired before, or where the job it *)
(* goes on with is not the one it has created.                              *)
RefundIsNotTooEarly ==
    \A r \in Runners :
       At(r, "failed") /\ runner[r].why = "refundExpired" /\ runner[r].nextJobID \in created[r]
          => settled[runner[r].nextJobID]

(* The verdict is on chain, once, as it was signed. *)
OnChain(result) ==
    LET verdicts == settlements[result.claim.jobId] IN
    \E k \in DOMAIN verdicts :
       /\ {j \in DOMAIN verdicts : verdicts[j].claim = result.claim} = {k}
       /\ verdicts[k].outcome = result.outcome

(* No verdict on the claim can be accepted any more. *)
Over(claim) ==
    LET id == claim.jobId IN
    \/ state[id] # "Verifying"
    \/ current[id].instructionId # claim.instructionId
    \/ now > current[id].timeoutAt

(* sendContractCall, transact, settleAttempt: relayers and runners race     *)
(* with the results of the same instruction.  A runner that ends well has   *)
(* its verdict on chain, once, and no other runner has delivered it.  A     *)
(* relayer, which does not look at the receipt, may end well although its   *)
(* transaction reverted; but only where the attempt was over by then or the *)
(* artifact's code has changed, never with an attempt that is still open.   *)
OneDeliveryCounts ==
    LET Carries(c) == c.pc = "done" /\ c.result # <<>> IN
    /\ \A r \in Runners : Carries(runner[r]) =>
          /\ OnChain(runner[r].result[1])
          /\ \A q \in Runners :
                Carries(runner[q]) /\ runner[q].result[1].claim = runner[r].result[1].claim => q = r
    /\ \A p \in Relayers : Carries(relay[p]) =>
          LET result == relay[p].result[1] IN
          \/ OnChain(result)
          \/ Over(result.claim)
          \/ result.claim.artifactAddress \in Redeployable

(* The last moment at which a runner still waits, by its own clock. *)
WaitsUntil(r) ==
    IF At(r, "waitForGrace") THEN runner[r].schedule.graceEnds + GraceMargin - 1 ELSE runner[r].deadline

(* waitForRandomness, pollActionResult, waitForGrace: no wait outlives its  *)
(* limit, as far as the modelled time goes, unless the proxy takes a        *)
(* request and never answers it.                                            *)
EveryWaitEnds ==
    \A r \in Runners :
       runner[r].pc \in {"waitForRandomness", "waitForGrace", "poll"} /\ WaitsUntil(r) < MaxTime + ClockAhead
          ~> runner[r].pc \in {"dispatch", "settle", "done", "failed", "killed", "hung"}
=============================================================================
