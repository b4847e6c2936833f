------------------------------ MODULE Extension ------------------------------
(***************************************************************************)
(* go/internal/extension: the HTTP server the tee-node hands its actions   *)
(* to, from New through concurrent requests to the shutdown in             *)
(* go/cmd/main.go.  What happens inside Verify is module Verifier; here it *)
(* takes time, and its first read of the chain may take forever.           *)
(*                                                                         *)
(* Names and reasons are model values, the texts built from them are left  *)
(* out.  Clock ticks are shared by the server's timeouts and by Verify's   *)
(* budget; time passes while a body is read and in Verify.                 *)
(***************************************************************************)
EXTENDS Integers, FiniteSets

CONSTANTS
    Requests,       \* requests the server gets
    Names,          \* non-empty names in greetings
    Kinds,          \* the kinds of request that arrive
    ServerReadTimeout, ServerWriteTimeout, AttemptTotalTimeout,
    Settings,       \* what the WORKPROOF_* variables can be
    ProviderHangs,  \* can the chain provider take a request and never answer?
    Signalled,      \* does the process get SIGTERM?
    MaxClock,       \* bound: clock ticks
    Nobody

VARIABLES
    server,         \* e.Server and the process around it
    workProofVerifier,  \* is e.workProofVerifier non-nil?
    mu,             \* holder of e.mu
    count, last,    \* greetingCount, farewellCount, lastGreeting, lastFarewell
    req,            \* the requests
    clock

extVars == <<server, workProofVerifier, mu, count, last, req, clock>>

Topics == {"greeting", "farewell"}

ASSUME ExtensionAssumption ==
    /\ Nobody \notin Requests
    /\ Kinds \subseteq Topics \cup {"verify", "state", "malformed", "unsupported"}
    /\ ServerReadTimeout \in Nat /\ ServerWriteTimeout \in Nat /\ AttemptTotalTimeout \in Nat
    /\ MaxClock \in Nat
    /\ Settings \subseteq [rpc : BOOLEAN, escrow : {"unset", "bad", "good"},
                           random : {"unset", "bad", "good"}, dials : BOOLEAN]
    /\ ProviderHangs \in BOOLEAN /\ Signalled \in BOOLEAN

NoRequest == [pc |-> "idle", kind |-> "none", name |-> Nobody, number |-> 0, status |-> 0,
              verdict |-> FALSE, snapshot |-> {}, accepted |-> 0, writeBy |-> 0, budget |-> 0]

(* parseRequiredAddress *)
Parses(setting) == setting = "good"

(* The server is only built at the end of New: a bad address returns       *)
(* before that.                                                            *)
New(s) ==
    IF s.rpc /\ s.escrow # "unset" /\ ~(Parses(s.escrow) /\ Parses(s.random))
      THEN server = "nil" /\ workProofVerifier = FALSE
      ELSE server = "built" /\ workProofVerifier = (s.rpc /\ s.escrow # "unset" /\ s.dials)

ExtensionInit ==
    /\ \E s \in Settings : New(s)
    /\ mu = Nobody
    /\ count = [t \in Topics |-> 0]
    /\ last = [t \in Topics |-> [name |-> Nobody, number |-> 0]]
    /\ req = [r \in Requests |-> NoRequest]
    /\ clock = 0

state == <<mu, count, last>>

At(r, pc) == req[r].pc = pc
Goes(r, pc) == req' = [req EXCEPT ![r] = [@ EXCEPT !.pc = pc]]
-----------------------------------------------------------------------------
(* ListenAndServe is called on whatever New has left in e.Server. *)
ListenAndServe ==
    /\ \/ server = "built" /\ server' = "serving"
       \/ server = "nil" /\ server' = "panicked"
    /\ UNCHANGED <<workProofVerifier, state, req, clock>>

\* Mutant: the deadline runs from the start of the server.
M_Accept(r) ==
    /\ server = "serving" /\ At(r, "idle")
    /\ \E kind \in Kinds, name \in Names \cup {Nobody} :
          req' = [req EXCEPT ![r] = [NoRequest EXCEPT
                    !.pc = IF kind = "state" THEN "handling" ELSE "reading",
                    !.kind = kind, !.name = name,
                    !.accepted = clock, !.writeBy = ServerWriteTimeout]]
    /\ UNCHANGED <<server, workProofVerifier, state, clock>>

(* A request's header is read; from here on its body has to come, and its  *)
(* response to be written, in time.  /state has no body.                   *)
Accept(r) ==
    /\ server = "serving" /\ At(r, "idle")
    /\ \E kind \in Kinds, name \in Names \cup {Nobody} :
          req' = [req EXCEPT ![r] = [NoRequest EXCEPT
                    !.pc = IF kind = "state" THEN "handling" ELSE "reading",
                    !.kind = kind, !.name = name,
                    !.accepted = clock, !.writeBy = clock + ServerWriteTimeout]]
    /\ UNCHANGED <<server, workProofVerifier, state, clock>>

InReadTime(r) == clock < req[r].accepted + ServerReadTimeout

(* actionHandler decodes the body as it comes from the client. *)
ReadBody(r) ==
    /\ At(r, "reading") /\ InReadTime(r)
    /\ Goes(r, "handling")
    /\ UNCHANGED <<server, workProofVerifier, state, clock>>

(* The result of a handler, to be written as the response. *)
buildResult(r, status) ==
    req' = [req EXCEPT ![r] = [@ EXCEPT !.pc = "respond", !.status = status]]

(* A body that is not there in time is an error of the decoder. *)
ReadTimesOut(r) ==
    /\ At(r, "reading") /\ ~InReadTime(r)
    /\ buildResult(r, 0)
    /\ UNCHANGED <<server, workProofVerifier, state, clock>>

(* actionHandler and processAction: what cannot be decoded or routed, and  *)
(* greetings without a name, are answered at once.                         *)
actionHandler(r) ==
    /\ At(r, "handling")
    /\ \/ req[r].kind \in {"malformed", "unsupported"} /\ buildResult(r, 0)
       \/ /\ req[r].kind \in Topics
          /\ IF req[r].name = Nobody THEN buildResult(r, 0) ELSE Goes(r, "lock")
       \/ /\ req[r].kind = "verify"
          /\ IF workProofVerifier
               THEN req' = [req EXCEPT ![r] = [@ EXCEPT !.pc = "getJob",
                                                        !.budget = clock + AttemptTotalTimeout]]
               ELSE buildResult(r, 0)
    /\ UNCHANGED <<server, workProofVerifier, state, clock>>

\* Mutant: the handler does not wait for the lock.
M_Lock(r) ==
    /\ At(r, "lock")
    /\ mu' = r
    /\ req' = [req EXCEPT ![r] = [@ EXCEPT !.pc = "counting", !.number = count[req[r].kind] + 1]]
    /\ UNCHANGED <<server, workProofVerifier, count, last, clock>>

(* processSayHello, processSayGoodbye, from e.mu.Lock() to e.mu.Unlock():  *)
(* the counter is read, written back, and the text written.                *)
Lock(r) ==
    /\ At(r, "lock")
    /\ mu = Nobody
    /\ mu' = r
    /\ req' = [req EXCEPT ![r] = [@ EXCEPT !.pc = "counting", !.number = count[req[r].kind] + 1]]
    /\ UNCHANGED <<server, workProofVerifier, count, last, clock>>

Count(r) ==
    /\ At(r, "counting")
    /\ count' = [count EXCEPT ![req[r].kind] = req[r].number]
    /\ Goes(r, "recording")
    /\ UNCHANGED <<server, workProofVerifier, mu, last, clock>>

\* Mutant: the lock is not released.
M_Record(r) ==
    /\ At(r, "recording")
    /\ last' = [last EXCEPT ![req[r].kind] = [name |-> req[r].name, number |-> req[r].number]]
    /\ buildResult(r, 1)
    /\ UNCHANGED <<server, workProofVerifier, mu, count, clock>>

Record(r) ==
    /\ At(r, "recording")
    /\ last' = [last EXCEPT ![req[r].kind] = [name |-> req[r].name, number |-> req[r].number]]
    /\ mu' = Nobody
    /\ buildResult(r, 1)
    /\ UNCHANGED <<server, workProofVerifier, count, clock>>

Snapshot == {[topic |-> t, count |-> count[t], last |-> last[t]] : t \in Topics}

\* Mutant: the state is read without the lock.
M_stateHandler(r) ==
    /\ At(r, "handling") /\ req[r].kind = "state"
    /\ req' = [req EXCEPT ![r] = [@ EXCEPT !.pc = "respond", !.snapshot = Snapshot, !.status = 1]]
    /\ UNCHANGED <<server, workProofVerifier, state, clock>>

(* stateHandler reads everything under the read lock. *)
stateHandler(r) ==
    /\ At(r, "handling") /\ req[r].kind = "state"
    /\ mu = Nobody
    /\ req' = [req EXCEPT ![r] = [@ EXCEPT !.pc = "respond", !.snapshot = Snapshot, !.status = 1]]
    /\ UNCHANGED <<server, workProofVerifier, state, clock>>
-----------------------------------------------------------------------------
(* processVerify.  GetJob is called without the context that bounds the    *)
(* rest of Verify; a failed read of job, code or randomness ends in status *)
(* 0, everything later in a verdict, at the latest when the budget is used *)
(* up.                                                                     *)
GetJob(r) ==
    /\ At(r, "getJob")
    /\ Goes(r, "verifying") \/ buildResult(r, 0)
    /\ UNCHANGED <<server, workProofVerifier, state, clock>>

GetJobHangs(r) ==
    /\ ProviderHangs
    /\ At(r, "getJob")
    /\ Goes(r, "hung")
    /\ UNCHANGED <<server, workProofVerifier, state, clock>>

Conclude(r) ==
    /\ At(r, "verifying")
    /\ req' = [req EXCEPT ![r] = [@ EXCEPT !.pc = "respond", !.status = 1, !.verdict = TRUE]]
    /\ UNCHANGED <<server, workProofVerifier, state, clock>>

(* The response is written unless the connection's write deadline is over. *)
Write(r) ==
    /\ At(r, "respond")
    /\ Goes(r, IF clock < req[r].writeBy THEN "answered" ELSE "lost")
    /\ UNCHANGED <<server, workProofVerifier, state, clock>>
-----------------------------------------------------------------------------
InFlight(r) == req[r].pc \notin {"idle", "answered", "lost"}

(* main: SIGTERM makes Shutdown close the listener and wait for the        *)
(* requests in flight; ListenAndServe returns at once, and main with it.   *)
Shutdown ==
    /\ Signalled /\ server = "serving"
    /\ server' = "draining"
    /\ UNCHANGED <<workProofVerifier, state, req, clock>>

(* The process ends, by os.Exit after the requests in flight have ended or *)
(* by main returning; what is in flight then is lost, with the counters.   *)
Exit ==
    /\ server = "draining"
    /\ server' = "exited"
    /\ req' = [r \in Requests |-> IF InFlight(r) THEN [req[r] EXCEPT !.pc = "lost"] ELSE req[r]]
    /\ mu' = Nobody
    /\ count' = [t \in Topics |-> 0]
    /\ last' = [t \in Topics |-> [name |-> Nobody, number |-> 0]]
    /\ UNCHANGED <<workProofVerifier, clock>>

(* Time passes while every request in flight waits for its client or for   *)
(* the chain; the read timeout ends the former, and the context a          *)
(* verification whose budget is used up.                                   *)
Tick ==
    /\ clock < MaxClock
    /\ \A r \in Requests : InFlight(r) =>
          \/ At(r, "reading") /\ InReadTime(r)
          \/ req[r].pc \in {"getJob", "hung"}
          \/ At(r, "verifying") /\ clock < req[r].budget
    /\ clock' = clock + 1
    /\ UNCHANGED <<server, workProofVerifier, state, req>>

(* What the process does by itself: nobody makes a client send its body.   *)
Handle(r) ==
    \/ ReadTimesOut(r) \/ actionHandler(r) \/ Lock(r) \/ Count(r) \/ Record(r) \/ stateHandler(r)
    \/ GetJob(r) \/ Conclude(r) \/ Write(r)

Alive == server \in {"serving", "draining"}

ExtensionNext ==
    \/ ListenAndServe
    \/ \E r \in Requests : Accept(r)
    \/ Alive /\ \E r \in Requests : ReadBody(r) \/ Handle(r) \/ GetJobHangs(r)
    \/ Shutdown
    \/ Exit
    \/ Tick

ExtensionSpec == ExtensionInit /\ [][ExtensionNext]_extVars

(* Go's scheduler runs every handler, a mutex that keeps becoming free is  *)
(* got by each of its waiters, the provider answers unless it hangs, and   *)
(* the clock runs.                                                         *)
ExtensionFairSpec ==
    /\ ExtensionSpec
    /\ WF_extVars(ListenAndServe) /\ WF_extVars(Tick)
    /\ \A r \in Requests : SF_extVars(Alive /\ Handle(r))
-----------------------------------------------------------------------------
(* processSayHello, processSayGoodbye: of concurrent greetings no two get  *)
(* the same number, and no number is left out.                             *)
NumbersAreHandedOutOnce ==
    server # "exited" => \A t \in Topics :
       LET counted == {r \in Requests : req[r].kind = t /\ req[r].number # 0 /\ ~At(r, "counting")}
       IN  /\ {req[r].number : r \in counted} = 1..count[t]
           /\ Cardinality(counted) = count[t]

(* stateHandler: /state never shows a count together with the text of      *)
(* another greeting than the one with that number.                         *)
StateIsConsistent ==
    server # "exited" => \A r \in Requests : \A s \in req[r].snapshot :
       /\ s.last.number = s.count
       /\ s.count > 0 => \E q \in Requests : /\ req[q].kind = s.topic /\ req[q].number = s.count
                                             /\ req[q].name = s.last.name

(* Every request that was accepted ends, as far as the modelled time goes, *)
(* unless the provider takes its GetJob and never answers: the read        *)
(* timeout ends a body that does not come, no path leaves e.mu locked,     *)
(* and a request that hangs holds up no other.                             *)
EveryRequestEnds ==
    \A r \in Requests :
       InFlight(r) /\ (At(r, "reading") => req[r].accepted + ServerReadTimeout <= MaxClock)
          ~> ~InFlight(r) \/ At(r, "hung")

(* A response with a verdict that was reached before the attempt's budget  *)
(* was used up.                                                            *)
HasVerdictInTime(r) == At(r, "respond") /\ req[r].verdict /\ clock < req[r].budget

(* actionHandler, Verify: the write timeout starts with the header, the    *)
(* budget when the body has been read.  As long as the process lives, a    *)
(* verdict reached within its budget gets out if the body took no longer   *)
(* than the write timeout exceeds the budget.  (In config.go both are      *)
(* 30 s: the body has to come with the header.)                            *)
PromptRequestGetsItsVerdict ==
    [][\A r \in Requests :
          LET bodyTook == req[r].budget - AttemptTotalTimeout - req[r].accepted IN
          /\ HasVerdictInTime(r) /\ server' # "exited"
          /\ bodyTook <= ServerWriteTimeout - AttemptTotalTimeout
          => req'[r].pc # "lost"]_extVars
=============================================================================
