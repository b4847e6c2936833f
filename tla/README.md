# WorkProof: a TLA+ model of the escrow and its confidential verifier

WorkProof holds a client's payment for a piece of on-chain work in an escrow
contract and releases it when a verifier inside a trusted execution environment
(TEE) has run hidden tests against the contractor's deployed code. This
directory models the parts of the repository that decide *who gets the money*,
checks them with TLC on small instances and proves the main results with TLAPS
for every instance.

## 1. The system

| Part | State it keeps | Operations | Hard because |
| --- | --- | --- | --- |
| Escrow contract (`contracts/WorkProofEscrow.sol`) | jobs (terms, current attempt, state, settled flag), next id, token balance | `createJob`, `acceptJob`, `cancelUnaccepted`, `submitAttempt`, `lockRandomness`, `dispatchVerification`, `expireVerification`, `settleAttempt`, `refundExpired` | anybody may call most of them at any time; deadlines meet; results are public and replayable; several jobs share one balance |
| Owner controls (same file) | owner, nominee, fee, pause, extension id | pause/unpause, `setProtocolFee`, two-step ownership, `setExtensionId` | they interleave with open jobs |
| Verifier (`go/internal/verifier/verifier.go`, `vectors.go`) | nothing durable; the state of each `Verify` call | re-read the job, code and random number; fetch and decrypt the bundle; select and execute vectors; issue a verdict | reads one call at a time from a provider that lags and fails; runs concurrently and repeatedly; host clock |
| Bundle validation (`validate.go`, `bundle.go`) | none | `Unmarshal`, `Validate`, second canonicalisation | what it admits must be executable, and be what the client committed to |
| Ciphertext fetcher, decrypter (`ciphertext.go`, `decrypt.go`) | map of validated addresses, kept-alive connections | `Fetch`, redirects, pinned dialling | the map is shared by concurrent fetches; gateways stall and redirect |
| Extension server (`go/internal/extension`, `go/cmd/main.go`) | greeting counters behind a mutex, timeouts, the verifier or nil | routes actions to handlers, `/state`, shutdown | concurrent requests; response timeout against the verification budget; process end against requests in flight |
| Relayer (`relayer/src/relay.js`) | interval and deadline of its poll | poll the proxy, validate the response, `settleAttempt`, expire, refund | late, missing and malformed answers; several relayers at once |
| Phase 5 runner (`go/cmd/workproof-phase5`) | the job id it works on | drives a job end to end, or to its refund; resumes from the chain | every wait races with the chain and with everybody who uses the escrow |
| Deployment tools (`scripts/pre-build.sh`, `tools/cmd/deploy-workproof-escrow`, `register-extension`, `set-workproof-extension-id`) | `config/extension.env` | deploy, register the extension, adopt its id, write the file | dies half way; two builds; strangers register too |
| Deployment checks (`tools/pkg/validate`, `tools/cmd/verify-deploy`) | a report | checks per step | the state checked changes and calls fail meanwhile |
| Registration tools (`scripts/post-build.sh`, `tools/pkg/fccutils/registration.go`) | a state file | allow version, set governance, pre-register, attest, availability check, production | crash and resume between steps, lapsing challenges, late transactions |
| Diagnostic and example tools, launchers, scaffolds, web | — | — | read and print; not modelled |

How they interact: `dispatchVerification` sends an instruction through the TEE
extension registry; the tee-node hands it to the extension, which calls
`Verify`; the tee-node signs the action result; the relayer fetches it from the
proxy and calls `settleAttempt`. Token, registries, random beacon, JSON-RPC
provider, tee-node and proxy are outside the repository: they are modelled from
how the code uses them and marked `external` in `PROJECT.json`.

What makes each part correct:

* Escrow: a job's tokens leave once and in full; to the contractor only on a
  complete pass that the pinned TEE signed for the current attempt, for the code
  submitted and still deployed, before the deadline; otherwise back to the
  client; always eventually; and nobody can choose the seed of the tests.
* Verifier: a pass means every selected test was really passed; an outage never
  counts for or against the artifact; what it signs the contract can accept.
* Selection: tests are distinct, as many as agreed, and no subset is favoured.
* Bundle: what is accepted is what the client wrote, within the schema and the
  caps, and can be executed.
* Fetcher: requests go only to validated addresses, a body is whole or refused,
  and every fetch ends.
* Extension server: numbers are handed out once, `/state` shows one moment, every
  request ends, a verdict formed within its budget gets out if the request came
  promptly.
* Relayer and runner: no result is settled twice or missed for want of a last
  look, success is reported only where the verdict is on chain or can no longer
  get there, a run that ends well has brought a job of its own to its verdict,
  every wait ends.
* Deployment and registration: success means that the thing named is usable;
  whatever was left half done, starting again gets there; the checks accept
  exactly the complete deployments.

## 2. Modules

| Module | Models | Uses |
| --- | --- | --- |
| `EscrowAdmin` | owner controls and extension id | |
| `Escrow` | job life cycle, one action per external function, plus the contract's environment | extends `EscrowAdmin` |
| `IdealEscrow` | what the escrow promises: offer, engage, pay out or give back | refined by `Escrow` |
| `VectorSelection` | the Fisher-Yates loop of `SelectVectors` | |
| `Verifier` | one `Verify` call per run, one action per read, vector and way to return | |
| `WorkProof` | escrow, verifier and relayer together | extends `Escrow`, `Verifier` |
| `Relayer` | relayer processes, the proxy and its answers | extends `Escrow` |
| `Phase5` | runner processes, their crashes and resumption, other clients | extends `Relayer` |
| `Extension` | the HTTP server around the verifier, with clock and shutdown | |
| `Bundle` | a bundle's way from the client's document to the executors, and the JSON schema | |
| `Fetcher` | concurrent calls of `Fetch` | |
| `Deployment` | builds that deploy and register an escrow | |
| `DeployChecks` | a run of `verify-deploy` beside the builds | extends `Deployment` |
| `Registration` | operators who bring a TEE machine into production | |
| `MC*` | instances for TLC | |
| `*Proofs` | theorems, see section 5 | |

Conventions. A transaction that reverts changes nothing, so a revert is an
action that is not enabled. Definitions keep the names of the code. `\* Mutant`
definitions are plausible mistakes in the code that the properties have to
catch. Histories (`settlements`, `released`, `draws`) exist only to state
properties.

**State and actions of `Escrow`.** `terms`, `current`, `state`, `settled` are
the fields of the contract's `Job`, by id, starting from Solidity's zero values:
an id that was never created looks `Created`, because that is the enum's zero
value. The hashes frozen in the terms are one value, `commitment`; the value of a
random round is determined by the round; constants of the deployment (schema
version, chain id, operation codes) are left out. Every block has its own
timestamp, so a timestamp also names a block. `settleAttempt(id, r)` is the whole
function with `Authentic` (`_decodeAndAuthenticate`), `_checkIdentity` and
`_checkOutcomeBinding` as its guards; hashing and `ecrecover` are abstracted to
"the signer signed exactly these fields". In `Escrow` any result can arrive
(`Settle`): every combination of outcome, counters, time, tag and status for any
instruction, signed by the machine it went to or by a key that is no TEE's, at
any time and repeatedly. The environment is the clock (`Tick`), the beacon
(`FinalizeRound`, with insecure rounds), the machine registry
(`ChangeTeeStatus`) and code at artifact addresses (`ChangeCode`). The token is a
plain ERC-20 that refuses the zero receiver and overdrafts.

**State and actions of `Verifier`.** `run[r]` is a call of `Verify`: where it is
(`pc`), its instruction, the time it took for the verdict, the outcomes so far.
`Begin` holds the checks against the configuration; `ReadJob` is `GetJob` with
`crossCheckInstruction`, the deadline and the instruction id;
`recomputeArtifactCodeHash` and `FetchRandomNumber` the next two reads;
`ReadFails` an RPC error before the identity is established (status 0);
`fetchAndDecryptBundle` goes on or signs an Inconclusive verdict; `ExecuteNext`
runs one vector on what the provider answers, which is the truth about the code
at the artifact block or a glitch; `Conclude` forms the verdict; `Lost` is a
restart or an undelivered response. How a call to the artifact ends is one of
seven classes of answer (`Answer`), the classes the executors tell apart.

**`WorkProof`** replaces the arbitrary results of `Escrow` by those the runs
signed. A run may start for any instruction that was sent, at any time and more
than once. Code history (`codeAt`) answers reads at the artifact block; the host
clock is off the chain's by any of `Skews`.

**`Relayer`** adds processes to `Escrow`: `relay[p]` holds the poll's deadline,
interval and next wake-up. A turn of its loop is two steps: `fetchActionResponse`
asks the proxy, which answers with what it has at that moment, and
`pollActionResponse` takes the answer when it arrives, checks it, and after a 404
looks at the deadline and sets the next sleep. Time passes in between, as
the fetch has no timeout. A transaction is two steps too: it is estimated, and
not sent if it reverts then, and later it is mined. The relayer takes the exit
code of `cast` for the result and does not read the status of the receipt; whether
`cast` exits with 0 after a revert is cast's affair, so the model has both. The
proxy gets the TEE's result at any time after the instruction; a fault is an HTTP
error. Relayers, the parties of the job and strangers interleave.

**`Phase5`** adds runners. `runner[r].pc` names the next transaction or wait of
`main.go`, in its order; a revert ends the process (`fatalf`), a kill can come
between any two steps, and a killed or failed runner can be resumed on a job that
is ready to be verified, as `-resume-job` demands. (A run that is started afresh
is another runner.) `created` remembers whose jobs are whose. Other clients may
name a runner's account as their contractor.

**`Extension`** has one record per request and the mutex as a variable; the
handlers' critical sections are several steps, so that what the mutex protects is
visible. `New` is run with every kind of configuration. The body of a request
takes time, up to the read timeout, and so does a verification; the write
deadline starts with the header and the budget in `Verify`, when the body has
been read. `Shutdown` and the end of `main` are separate steps.

**`Bundle`** abstracts the text of a field to a class: good, bad, empty, null,
absent, of a wrong type, under a key in other letters, with a leading zero, too
large for the engine, or with so many multi-byte characters that it is within a
limit in characters and beyond it in bytes (`SchemaAdmits` counts the former,
`Matches` the latter). `Edit` is the client, who changes a right document in up to
`MaxEdits` places. `SchemaValid` is the JSON schema, `Valid` is `Validate`,
`Decoded` what `json.Unmarshal` makes of a field; a hash stands for the canonical
document it was taken of.

**`Fetcher`** splits `validateURL` into the lookup and the pinning, because only
the latter holds the lock. The resolver gives any answer each time, gateways
redirect anywhere, connections are kept and used again under the host's spelling
as net/http does. Bodies declare their length: a connection that breaks is an
error and never an early end.

**`Deployment`** has one step per transaction or file of `pre-build.sh`; a build
dies anywhere, also after it has sent the transaction it was about to send, and
its operator goes on with the script or with `register-extension` by hand. **`DeployChecks`** runs the checks while all this
goes on, each reading when its turn comes, with calls that fail. What the tools
find (settings, flags, how operators go on, what strangers may do) is the
variable `environ`, chosen at the start from `Environs`.

**`Registration`** has the registries, the proxy's lead over the chain and the
account's pending transactions as environment, and each tool as its sequence of
reads, transactions and writes of the state file, which can be torn. How the
operators go about it is the variable `plan`, chosen at the start from `Plans`;
every kind of failure uses up one of its `maxFaults`.

## 3. Runs

| Run | Instance | Shows |
| --- | --- | --- |
| `escrow_one_job` | 1 job, 2 attempts, 1 insecure round, a forger, redeployed code, all deadlines, a timeout beyond the grace period, a principal of 0 and a zero contractor offered | pay-out, seed and verdict properties; refinement of `IdealEscrow` |
| `escrow_owner` | 1 job, owner changes, fee changes, pauses, two registrants of extensions, a TEE that leaves production; fair clock and refunds | first-match extension id, solvency, every job settles |
| `vector_selection` | up to 5 vectors, 4 selected | distinct, unbiased selection |
| `system` | 2 attempts, good and bad code, a valid and a stale bundle, 2 verifier runs, for two instructions or both for one, outages, both tags | signed verdicts are settleable and never contradictory; paid work passes its tests |
| `bundle` | one right document of each kind with up to 2 edits | accepted means within schema and caps, and executable; what is refused breaks the schema, one of four relations between fields or a limit in bytes; the hash is the client's |
| `fetcher` | 2 fetches, 1 gateway in 2 spellings, redirects, a private address | validated connections, whole bodies; every fetch ends |
| `extension` | 2 requests of every kind, all configurations, bodies that come late or never, a provider that hangs, a signal | counters and `/state`; every request ends; a verdict within its budget is delivered if the body came promptly |
| `clients` | a runner of either mode that can crash and resume, a relayer, another client who may hire the runner's account, strangers, a proxy that fails, hangs or is slow | a run that ends well verified a job it created, was given or was hired for; one delivery counts; refunds are not early; what is missed came while a response was under way; all waits end |
| `deployment` | 2 builds at once; every bad setting with 3 failures; files written by hand; a registry that takes a sender twice; all keys, modes and services | what is written is usable, what is accepted is usable and conversely; repeating `pre-build.sh` gets there |
| `registration` | one operator starting over after up to 4 failures; resuming after up to 3; two operators at once; two machines with partial commands and two governance settings; two builds under one version name | success means production; the state file tells the truth; only a taken name lets unsupported code pass; starting over gets there |
| `late_retry` (violation) | timeout after `submitBy` | finding 1 |
| `provider_error` (violation) | a JSON-RPC error object that is no revert | finding 2 |

Bounds. `MaxTime`, `MaxJobs`, `MaxAttempts`, `MaxInsecure`, `MaxExtensions` cut
the behaviours off; schedules are chosen so that within `MaxTime` every deadline
passes, at least one block of each phase lies between two deadlines, and a
refund is possible at the end. Two attempts are enough for the confusion of one
attempt with the next, two runs for a disagreement between runs, two jobs (in
`clients`) for work on somebody else's job; that no job eats another's balance,
for any number of them, is left to the theorem `EscrowIsSolvent`. The theorems of
section 5 lift most of the other results to any number too. One run takes two vectors of six, of every type, with a
good code and a bad one that passes only some of them.

`deployment` and `registration` put several small instances into one run: the
bounds and circumstances of each are fields of `environ` and `plan`. Where a
property does not hold under all of them, its formula says under which it does
(`RoomToRetry`, `OneMachineAtATime`, `StartsOver`), and section 4 what happens
otherwise. The registration of two machines allows one failure: a crash together
with a state file that cannot be removed would mix the two. One machine has a
version name of its own, the other two the default. That the registry takes a
name once is concluded from the error that the tool is prepared for. `MaxId` only limits ids that somebody still refers to; with ten,
one is always free in these instances.

In the modules with a clock a tick is the unit of all timeouts, and their ratios
are those of the code (poll timeout below the verification timeout, write timeout
equal to the budget, the runner's clock ahead by less than its margin). The
response to a relayer and the body of a request to the extension take any time;
the runner's requests and the handlers take none unless they hang. Runners start on an escrow that has adopted its extension id, with the
default flags: the runner is its own contractor and asks for the tag
`threshold`. `bundle` edits two places because one rule can only be hidden by one
other.

The symmetries are sound: code hashes are only compared in `escrow_one_job`, and
verifier runs are interchangeable in `system`.

Deadlock checking is off where the program ends: the selection, the bundle, the
fetches, the server after its shutdown, relayers and runners that are done, builds
and checks once the bounds on escrows and extensions are used up. In the other
models the owner can always pause or an operator start again, and the clock's
bound only stops time.

Fairness. `EveryJobSettles` assumes only that blocks keep coming and that while
`refundExpired` can succeed, somebody calls it: the function is open to
everybody and returns the client's own money. Nothing is assumed of the
contractor, the TEE, the beacon, the relayer or the owner.

The other liveness properties assume that processes take their own steps, that
clocks run and that lookups return; in particular:

* `EveryWaitEnds`: blocks come and a process that is awake goes on. Nothing is
  assumed of the proxy's answers, except that a request it never answers counts
  as the end of the wait.
* `EveryRequestEnds`: the server's goroutines are scheduled. Strong fairness of a
  request's next step stands for Go's mutex, which does not starve a waiter.
  A provider may take a `GetJob` and never answer: that request is excepted.
* `EveryFetchEnds`: lookups return and deadlines pass. Nothing of the gateways.
* `EventuallyDeployed`, `EventuallyInProduction`: the operator keeps starting the
  tools, their steps are taken, transactions are mined, and failures stop.

`SignedVerdictIsSettleable` is checked with an exact host clock. A clock that is
off can make a verdict unacceptable (`issuedAt` outside
`[dispatchedAt, block.timestamp]`), which the code documents as a residual risk;
the theorem `PaidWorkIsTested`, for every set of `Skews` and with code that is
redeployed at any time, shows that it costs time and never money.

## 4. Findings

1. *Late retry* (`late_retry`). `expireVerification` puts a job into `Retryable`
   even after `submitBy`, when no further attempt can be submitted; only the
   path through `settleAttempt` looks at `submitBy`. The client still gets the
   refund after the grace period.
2. *Provider errors count as reverts* (`provider_error`). `isEVMRevert` accepts
   every JSON-RPC error object. An `ETH_CALL_REVERTS` vector without selector or
   pattern passes on a rate limit or an internal error of the node, and
   `PaidWorkPassesItsTests` fails. Without such errors it holds, and is proved.

### Observations

The following behaviours came up while the properties were being stated. Each is
part of the model; where a property would fail because of it, the
property's formula says so, and the last column names the place.

| Where | What the code does | In the model |
| --- | --- | --- |
| `bundle.go:42` | `omitempty` drops an empty `expectedRevertPattern` in the second canonicalisation; schema and `Validate` admit it, but the hash is never the committed one | exception of `CommitmentIsReproduced` |
| `vectors.go:188` | a call value such as `0x01` passes schema and `Validate`; the executor cannot parse it and skips the vector | exception of `AcceptedVectorsRun` |
| `validate.go:44` | `Validate` demands four relations between fields that the schema it is said to enforce exactly does not have | `FieldsAgree` in `ValidateIsTheSchema` |
| `validate.go:26`, `:83`, `:104` | `Validate`, said to enforce the schema "exactly" (`validate.go:19`), bounds three texts with `len`, in bytes; `maxLength` of the schema counts characters. Text that is not ASCII may be within the schema and be refused | `BytesWithinLimits` in `ValidateIsTheSchema` |
| `ciphertext.go:90` | with two fetches at once, one can dial an address older than its own lookup; it was validated all the same | `ConnectionsAreValidated` asks for a validated address, not for the fetch's own |
| `config.go:53` | the write timeout (30 s) starts with the header, the budget of `Verify` (30 s) only after the body, for which the read timeout allows 30 s. A verification completed within its budget, for which the comment at `extension.go:239` promises a result, is cut off when its body was slow or its budget is used up | `PromptRequestGetsItsVerdict` says how promptly the body has to come |
| `extension.go:48` | a missing or malformed address makes `New` return without the server that `main` then uses | server `"nil"`, then `"panicked"` |
| `go/cmd/main.go:34` | `main` returns, and the process ends, while `Shutdown` waits for requests in flight | server `"exited"`, requests lost |
| `verifier.go:132` | `GetJob` is outside the attempt's budget: a provider that keeps silent holds the request for good | `"hung"`, exception of `EveryRequestEnds` |
| `relay.js:126` | the deadline is looked at after a fetch without a timeout: a 404 that was given before the deadline and arrives after it ends the relayer, although the result has reached the proxy meanwhile | `NoAnswerMissed` excepts what comes while the last response is under way |
| `relay.js:158` | the status of the receipt is not read: of two transactions whose estimates passed both relayers may report success, where `WORKPROOF_EXECUTION_PLAN.md:1202` expects "one settlement and one harmless revert/no-op" | `sendContractCall`; `OneDeliveryCounts` says what a relayer's success means |
| `relay.js:61` | an HTTP error other than 404 ends the relayer | `ProxyFaults`; `NoAnswerMissed` is about those that time out |
| `workproof-phase5/main.go:160` | `nextJobId` is read before `createJob`; with another client in between the runner goes on with the wrong job. `acceptJob` stops it, unless that client has hired the runner's account: then it verifies and settles the other job, ends well, and its own job stays open. Two runs with one key do the same to each other | `FinishedRunVerifiedItsOwnJob` has the hired runner as a case of its own; runs with one key are not modelled |
| `workproof-phase5/main.go:381` | skipping an insecure round is reported as locked randomness, and the dispatch reverts | needs `MaxInsecure` above 0 |
| `workproof-phase5/main.go:410` | the poll's timeout does not cover a request that is never answered | `ProxyHangs`, `"hung"`, exception of `EveryWaitEnds` |
| `fccutils/extension.go:35` | registering an escrow again is refused, so an extension left incomplete stays so, where `docs/testing.md:82` describes a second run as idempotent | `RegisterRefused`; `EventuallyDeployed` is about builds from the start |
| `checks.go:682`, `:846` | with a `LOCAL_MODE` other than `true`, `false` and empty the checks of the proxy key and of the attestation mode report success | `ProxyKeySet`, `RegisterTeeMachineChecks` |
| `checks.go:478` | "unique" is reported although lookups of the scan failed | `verify.failed` in `VerifiedEscrowAdoptedItsId` |
| `allow-tee-version/main.go:83` | `VersionAlreadyExists` is taken for success, and the version name defaults to `v0.1.0` for every build (`main.go:19`, `post-build.sh:49`): for a second build the tool succeeds without having whitelisted the code, where `docs/deployment-steps.md:202` says that it "whitelists the codeHash". `register-tee` then fails. (That a name can be used once is concluded from the error the tool expects; the registry is external.) | `NameTaken` in `WhitelistedUnlessNameTaken` |
| `registration.go:59` | recorded steps are never taken again: whoever only resumes keeps a lapsed challenge, a rejected check or a torn file | `StartsOver` in `EventuallyInProduction` |
| `registration.go:77` | the state file does not name its machine: a run resumed for another one promotes that of the file and reports its own | `OneMachineAtATime` in `SuccessMeansProduction` |

## 5. Theorems

All constants are arbitrary, up to the named `ASSUME`s of the modules that
declare them: neither zero nor the contract is an account, deadlines, amounts and
timeouts are natural numbers, TEE keys are not forgers' keys, the initial fee is
within its cap, the verifier's caps are within the bounds of the JSON schema,
files written by hand name escrows, sets of processes are finite where they have to be.

Every result is of the form `Spec => []Property` (or an action property, or the
refinement) and rests on an inductive invariant. The properties themselves
are also model-checked, by the runs of section 3; an inductive invariant with an unbounded quantifier (`UnbiasedInv`) is beyond TLC
and rests on its proof alone.

* `EscrowProofs`: `TypeCorrect`, `ExtensionIdStays`, `PayoutCorrect`,
  `EscrowIsSolvent`, `RefundAlwaysFunded`. `IdInv` says that the adopted id is
  the first match of a registry that only grows. `LedgerInv` adds to the pay-out
  property that storage of an id never created is still zero (`refundExpired`
  does not ask whether the job exists, `createJob` does not reset `settled`) and
  that the parties of a created job are real accounts. `SolventInv`: the balance
  equals the number of owed token units, and every action changes both sides
  alike; the refund theorem follows, as one job's claim is part of the sum.
* `EscrowVerdictProofs`: `PaymentNeedsMatchingPass`, `VerdictAcceptedOnce`,
  `StaleVerdictsRejected`, from `VerdictInv`: instruction ids grow, a job being
  verified waits for its newest instruction, and no verdict accepted so far is
  for an attempt that is still open. `SeedCannotBeChosen`, with the beacon
  arbitrary, from `SeedInv`. `EscrowImplementsIdeal`, the initial states and
  every step mapped by `Deal`.
* `WorkProofProofs`: `SystemTypeCorrect`; `PaidWorkIsTested` and `VerdictsAgree`
  under `ProviderReportsRevertsOnly`, the assumption finding 2 shows to be
  needed; `SignedVerdictsSettle` for an exact clock (`ClockIsExact`) and at least
  one selected vector (`TestsAreSelected`). `SystemInv` carries `VerdictInv`
  over, since the results of runs are among those the escrow lemmas allow for
  (`Delivered`), and adds that every outcome recorded by a run, hence every
  result, tells the truth about the code, and that every accepted verdict is some
  run's result. Payment then leads from the job to its last verdict, from there
  to a result, and to the tests. `SettleInv` adds when things happened: a job
  being verified has sent the instruction it waits for, and runs and results date
  from between the dispatch and now, with counters that add up.
* `BundleIntakeProofs`: `FetcherConnectionsValidated`, `FetcherNeverTruncates`,
  from `FetcherInv` (pinned addresses, kept connections and those in use are
  public and were looked up for the host; the pin map is shared, so the
  invariant is about the map and not about the fetch that filled it).
  `AcceptedBundlesFitSchema`, `AcceptedBundlesRun`, `ValidateEnforcesTheSchema`,
  `CommitmentReproduced`: the lemmas compare `Validate`, the decoder and the
  schema field by field, for any document and any number of vectors.
* `ExtensionProofs`: `GreetingsAreNumberedOnce`, `StateShowsOneMoment`,
  `PromptRequestsGetVerdicts`. `ExtensionInv` is mutual exclusion together with
  what the holder of the mutex has done so far: between the two assignments of a
  handler the counter is one ahead of the text. `SelectionTypeCorrect`,
  `SelectionDistinct`, `SelectionIsUnbiased` are about `VectorSelection`: the
  slice stays a permutation (`SelectionInv`), and draws that lead to the same
  selection are the same, by induction over the draws (`UnbiasedInv`). What the
  recursive function of `Replay` computes is shown with least counterexamples
  (`LeastNumber`), since the library's induction rules cannot be instantiated.
* `DeploymentProofs`: `WrittenEnvIsUsable` from `DeployInv` (every build knows
  only what happened on chain, an entry of the registry is complete once its
  steps are done) and `Grows` (escrows, extensions and adopted ids are only
  added). `PassedDeploymentIsUsable`, `UsableDeploymentsPass`,
  `PassedEscrowAdoptedItsId` from `VerifyInv`: what a section of the report has
  shown stays true while builds go on, because of `Grows`.
* `RegistrationProofs`: `RegisteredMeansProduction`, `StateFileIsTruthful`, and
  `AllowedMeansSupported`, whatever version names the operators use.
  `RegistrationInv` follows an instruction id from the
  transaction to the file and back into a resumed run: ids somebody refers to
  are not given out again, and each stands for the step it is recorded for.
* `Phase5Proofs`: `GivingUpMissesNothing`, `DeliveredOnce`,
  `FinishedRunsVerified`, and `RefundsComeDue` under `MarginCoversClock` (a runner waits longer than its clock is ahead). `RunInv`
  consists of `VerdictInv` and what each relayer and runner knows of the chain at
  each of its steps: what a relayer has not found came after it asked, and a
  runner past `acceptJob` works on a job that it created, was told to resume, or
  was hired for by a client. `DeliveryInv` adds why a relayer may end well without
  its verdict: results at the proxy are dated and counted so that the contract
  takes them (`AnswersFit`), the contract's own requirements for the attempt it
  waits for hold as long as it waits (`BindingInv`, shared with
  `WorkProofProofs`), so a revert leaves only an attempt that is over or code
  that has changed. `RefundInv` adds `SolventInv` and that a runner which waits for the end of
  the grace period waits by the schedule frozen in its job; the deadline and the
  transfer are then no reason for `refundExpired` to revert.

  When `settleAttempt` and `refundExpired` revert is written out
  (`settleReverts`, `refundReverts`, the negations of their guards). For the
  other transactions it is stated with `ENABLED`, which the provers take as an
  unknown Boolean: these theorems hold whichever of them revert.

Only model-checked: liveness, that is `EveryJobSettles`, `EveryWaitEnds`,
`EveryRequestEnds`, `EveryFetchEnds`, `EventuallyDeployed` and
`EventuallyInProduction`, because fairness is beyond the prover. Every safety
property that a passing run checks is also proved.

## 6. Not modelled, and the plan

* Cryptography and encodings: hashes, signatures, ABI and JCS are injective or
  "signed exactly these fields". The signature chain of `FccVerdict.sol` is
  modelled to that extent.
* Gas, re-entrancy through the registry (it is modelled as calling nothing back;
  a callback needs another registry than the deployed one), tokens that are no
  plain ERC-20, registries that return instruction id 0.
* The decrypter: one stateless request inside the container. Its failure is the
  failing branch of `fetchAndDecryptBundle`.
* Sending of greetings by `InstructionSender`: it keeps no state. Its
  `setExtensionId` is the one of `EscrowAdmin`.
* Diagnostic and example tools, launchers, the static gateway, the scaffolds in
  Python and TypeScript, the web site: they read and print, or start processes.
* The simulation lab: a toy state machine beside the system that nothing calls.
* TLS, the ranges of private addresses, argument parsing, wording of reports.

Left to prove: the safety half of the liveness properties, as bounds that hold in
every state (no wait is longer than its limit, nobody waits for a lock that is
not held).
