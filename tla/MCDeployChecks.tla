--------------------------- MODULE MCDeployChecks ---------------------------
(* An instance of DeployChecks for TLC: what can be found by the tools, in *)
(* five groups.                                                            *)
EXTENDS DeployChecks

(* The settings, with one build that is started over. *)
Good == [addresses |-> TRUE, key |-> "set", manager |-> "code", funds |-> TRUE,
         treasury |-> "other", feeBps |-> "ok", localMode |-> "false",
         ownerKey |-> FALSE, proxyKey |-> TRUE, extProxy |-> "up",
         normalProxy |-> "up", simulated |-> FALSE, portBusy |-> FALSE,
         builds |-> {"b1"}, restarts |-> {"prebuild"}, rejectsDuplicates |-> TRUE,
         maxEscrows |-> 1, maxExtensions |-> 1, maxFaults |-> 0,
         steps |-> {}, filters |-> {{}}, edits |-> {}]

(* Two builds at once, also finished by hand. *)
Concurrent == [Good EXCEPT !.builds = {"b1", "b2"}, !.restarts = {"prebuild", "register"},
                           !.maxEscrows = 3, !.maxExtensions = 4, !.maxFaults = 2]

(* Every way in which one setting is bad, and failures. *)
BadSettings ==
    {Good, [Good EXCEPT !.addresses = FALSE], [Good EXCEPT !.funds = FALSE]}
    \cup {[Good EXCEPT !.key = k] : k \in {"unset", "invalid"}}
    \cup {[Good EXCEPT !.manager = m] : m \in {"zero", "nocode"}}
    \cup {[Good EXCEPT !.treasury = t] : t \in {"unset", "zero", "deployer"}}
    \cup {[Good EXCEPT !.feeBps = f] : f \in {"invalid", "tooHigh"}}

Persistent ==
    {[e EXCEPT !.maxEscrows = 4, !.maxExtensions = 5, !.maxFaults = 3] : e \in BadSettings}

(* verify-deploy over files that were written by hand. *)
ByHand == [Good EXCEPT !.steps = {"all"}, !.maxExtensions = 2, !.maxFaults = 1,
              !.edits = {File(1, 1), File(2, 1), File(Malformed, 1)}]

(* A registry that takes a sender twice. *)
Duplicates == [Good EXCEPT !.steps = {"all"}, !.maxExtensions = 2, !.maxFaults = 2,
                           !.rejectsDuplicates = FALSE]

(* Every way to set the keys and services. *)
AllSteps == {"all", "deploy", "register", "services", "tee-version", "tee-machine", "test"}

Services ==
    {[Good EXCEPT !.localMode = l, !.key = k, !.ownerKey = o, !.proxyKey = p, !.simulated = s, !.extProxy = e] :
        l \in {"", "true", "false", "no"}, k \in {"set", "unset"}, o \in BOOLEAN, p \in BOOLEAN,
        s \in BOOLEAN, e \in {"up", "down", "unset"}}
    \cup BadSettings
    \cup {[Good EXCEPT !.portBusy = TRUE, !.normalProxy = n] : n \in {"up", "down", "unset"}}

AllEnvirons ==
    {Concurrent, ByHand, Duplicates} \cup Persistent
    \cup {[e EXCEPT !.steps = {"all"}] : e \in Services}
    \cup {[Good EXCEPT !.steps = AllSteps, !.filters = {{}, {"D5"}}]}
=============================================================================
