------------------------------- MODULE Relayer -------------------------------
(***************************************************************************)
(* relayer/src/relay.js: processes that poll the extension proxy for the   *)
(* result of one instruction and bring it to settleAttempt, or that call   *)
(* expireVerification or refundExpired for a job.                          *)
(*                                                                         *)
(* Several relayers run at once, beside everybody else who uses the        *)
(* escrow.  The proxy and the TEE behind it are external: an instruction   *)
(* that was sent may be answered, once per submission tag, at any time.    *)
(* Time is the escrow's block time.  It passes while a relayer sleeps,     *)
(* while a response of the proxy is under way and while a transaction      *)
(* waits to be mined.                                                      *)
(***************************************************************************)
EXTENDS Escrow

CONSTANTS
    Relayers,       \* relayer processes
    RelayTimeout,   \* timeoutMs
    InitialInterval, MaxInterval,
    Tags,           \* submission tags under which results appear
    AnswerKinds,    \* what the TEE answers: outcomes, or "error" for status 0
    ProxyFaults     \* bound: HTTP errors other than 404

VARIABLES
    relay,          \* the relayer processes
    answers,        \* external: results the proxy has, with their time of arrival
    faults          \* external: HTTP errors so far

relayerVars == <<relay, answers, faults>>

ASSUME RelayerAssumption ==
    /\ RelayTimeout \in Nat /\ InitialInterval \in Nat \ {0} /\ MaxInterval \in Nat \ {0}
    /\ AnswerKinds \subseteq Outcome \cup {"error"}
    /\ ProxyFaults \in Nat

IdleRelay == [pc |-> "idle", command |-> "none", job |-> 0, instructionId |-> 0, deadline |-> 0,
              wake |-> 0, interval |-> 0, asked |-> 0, replied |-> 0, result |-> <<>>, why |-> "none"]

RelayerInit ==
    /\ relay = [p \in Relayers |-> IdleRelay]
    /\ answers = {}
    /\ faults = 0

(* External: the TEE's signed result for an instruction reaches the proxy. *)
ResultOf(claim, kind, tag) ==
    SignedResult(claim, claim.tee, IF kind = "error" THEN 0 ELSE 1, tag,
                 IF kind = "error" THEN "Inconclusive" ELSE kind,
                 IF kind = "Pass" THEN 1 ELSE 0, 1, now)

Answer ==
    /\ \E claim \in sent, kind \in AnswerKinds, tag \in Tags :
          /\ \A a \in answers : a.result.claim # claim \/ a.result.tag # tag
          /\ answers' = answers \cup {[result |-> ResultOf(claim, kind, tag), at |-> now]}
    /\ UNCHANGED <<vars, relay, faults>>

(* What a GET /action/result/<instruction> can find: the request names no  *)
(* tag.                                                                    *)
Available(instructionId) == {a.result : a \in {b \in answers : b.result.claim.instructionId = instructionId}}
-----------------------------------------------------------------------------
(* The polling loop, whose variables are gone, or the process is left. *)
Ends(p, pc, why) ==
    relay' = [relay EXCEPT ![p] =
       [@ EXCEPT !.pc = pc, !.why = why, !.deadline = 0, !.wake = 0, !.interval = 0,
                 !.asked = 0, !.replied = 0]]

(* The operator names the job and the instruction of a dispatch, or a job  *)
(* to expire or to refund.                                                 *)
runCli(p) ==
    /\ relay[p].pc = "idle"
    /\ \/ \E i \in sent :
             relay' = [relay EXCEPT ![p] = [IdleRelay EXCEPT
                !.pc = "poll", !.command = "relay", !.job = i.jobId, !.instructionId = i.instructionId,
                !.deadline = now + RelayTimeout, !.wake = now, !.interval = InitialInterval]]
       \/ \E id \in {j \in JobIds : Exists(j)}, command \in {"expire", "refund"} :
             relay' = [relay EXCEPT ![p] = [IdleRelay EXCEPT
                !.pc = "send", !.command = command, !.job = id]]
    /\ UNCHANGED <<vars, answers, faults>>

validateActionResponse(result) == result.status = 1 /\ result.tag = "threshold"

(* 404, isPendingResultStatus: there is nothing yet. *)
Found(instructionId) ==
    IF Available(instructionId) = {} THEN {<<>>} ELSE {<<result>> : result \in Available(instructionId)}

Asks(p) ==
    \E found \in Found(relay[p].instructionId) :
       relay' = [relay EXCEPT ![p] = [@ EXCEPT !.pc = "reply", !.asked = now, !.result = found]]

\* Mutant: the deadline is looked at before the proxy is asked once more.
M_fetchActionResponse(p) ==
    /\ relay[p].pc = "poll" /\ now >= relay[p].wake
    /\ IF now >= relay[p].deadline
         THEN relay' = [relay EXCEPT ![p] = [@ EXCEPT !.pc = "failed", !.why = "timeout"]]
         ELSE Asks(p)
    /\ UNCHANGED <<vars, answers, faults>>

(* The proxy is asked.  Its response says what it has at that moment, and  *)
(* fetch waits for it without a limit.                                     *)
fetchActionResponse(p) ==
    /\ relay[p].pc = "poll" /\ now >= relay[p].wake
    /\ Asks(p)
    /\ UNCHANGED <<vars, answers, faults>>

NextInterval(interval) == IF 2 * interval < MaxInterval THEN 2 * interval ELSE MaxInterval

(* The response arrives.  Only a pending result makes the relayer look at  *)
(* its deadline and sleep, twice as long each time.                        *)
pollActionResponse(p) ==
    /\ relay[p].pc = "reply"
    /\ \/ /\ relay[p].result # <<>>
          /\ IF validateActionResponse(relay[p].result[1])
               THEN Ends(p, "send", "none")
               ELSE Ends(p, "failed", "invalid")
       \/ /\ relay[p].result = <<>>
          /\ relay' = [relay EXCEPT ![p] =
                IF now >= relay[p].deadline
                  THEN [@ EXCEPT !.pc = "failed", !.why = "timeout", !.replied = now]
                  ELSE [@ EXCEPT !.pc = "poll", !.replied = now, !.wake = now + relay[p].interval,
                                 !.interval = NextInterval(relay[p].interval)]]
    /\ UNCHANGED <<vars, answers, faults>>

(* Any HTTP status but 404 and success ends the relayer. *)
ProxyError(p) ==
    /\ relay[p].pc = "reply"
    /\ faults < ProxyFaults
    /\ faults' = faults + 1
    /\ Ends(p, "failed", "proxy")
    /\ UNCHANGED <<vars, answers>>

\* Mutant: cast does not wait for the transaction to be mined.
M_sendContractCall(p, command, Call, Reverts) ==
    /\ relay[p].command = command
    /\ \/ /\ relay[p].pc = "send"
          /\ IF Reverts THEN Ends(p, "failed", "reverted") ELSE Ends(p, "done", "none")
          /\ UNCHANGED vars
       \/ relay[p].pc = "mining" /\ Call /\ UNCHANGED relay
    /\ UNCHANGED <<answers, faults>>

(* cast send.  A call that reverts when its gas is estimated is not sent.  *)
(* One that reverts when it is mined has a receipt with status 0, which    *)
(* the relayer does not look at: it goes by the exit code of cast, and     *)
(* whether that tells the two apart is cast's affair.                      *)
sendContractCall(p, command, Call, Reverts) ==
    /\ relay[p].command = command
    /\ \/ /\ relay[p].pc = "send"
          /\ IF Reverts THEN Ends(p, "failed", "reverted") ELSE Ends(p, "mining", "none")
          /\ UNCHANGED vars
       \/ /\ relay[p].pc = "mining"
          /\ \/ Call /\ Ends(p, "done", "none")
             \/ /\ Reverts
                /\ Ends(p, "done", "none") \/ Ends(p, "failed", "reverted")
                /\ UNCHANGED vars
    /\ UNCHANGED <<answers, faults>>

Settles(p) ==
    /\ relay[p].pc \in {"send", "mining"} /\ relay[p].result # <<>>
    /\ LET result == relay[p].result[1] IN
       sendContractCall(p, "relay", settleAttempt(relay[p].job, result), settleReverts(relay[p].job, result))

Expires(p) ==
    sendContractCall(p, "expire", expireVerification(relay[p].job), ~ENABLED expireVerification(relay[p].job))

Refunds(p) ==
    sendContractCall(p, "refund", refundExpired(relay[p].job), refundReverts(relay[p].job))

RelayerStep(p) ==
    \/ runCli(p) \/ fetchActionResponse(p) \/ pollActionResponse(p) \/ ProxyError(p)
    \/ Settles(p) \/ Expires(p) \/ Refunds(p)

(* External: everybody else who uses the escrow.  Of the owner's steps     *)
(* only the adoption of the extension id is kept: a pause or a new fee     *)
(* means nothing to a relayer.                                             *)
AdoptExtensionId ==
    /\ (\E c \in Registrants : RegisterExtension(c)) \/ setExtensionId
    /\ UNCHANGED <<storage, balance, chain, registry, history>>

-----------------------------------------------------------------------------
(* pollActionResponse: a relayer that gives up has looked once more after  *)
(* its last sleep, however long that was.  A result that reached the proxy *)
(* before the deadline and is missed all the same came while the response  *)
(* to its last request was under way.                                      *)
NoAnswerMissed ==
    \A p \in Relayers : relay[p].why = "timeout" =>
       \A a \in answers :
          a.result.claim.instructionId = relay[p].instructionId /\ a.at < relay[p].deadline
             => relay[p].asked <= a.at /\ a.at <= relay[p].replied
=============================================================================
