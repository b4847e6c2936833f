--------------------------- MODULE MCRegistration ---------------------------
(* An instance of Registration for TLC: machines of one extension with     *)
(* code of their own, one of them with a version name of its own, and five *)
(* ways in which operators go about it.                                    *)
EXTENDS Registration

CodeOfTee == [t \in Tees |-> CASE t = "t1" -> "code1" [] t = "t2" -> "code2" [] t = "t3" -> "code3"]
VersionOfTee == [t \in Tees |-> IF t = "t2" THEN "v0.2.0" ELSE "v0.1.0"]
OneGovernance == [t \in Tees |-> "gov"]

WholeCommand == {"r", "R", "a", "p"}

(* Whole runs, started over after up to four failures of any kind. *)
StartOver == [tees |-> {"t1"}, runs |-> {"r1"}, entries |-> {"version"}, commands |-> {WholeCommand},
              resumes |-> {FALSE}, governances |-> {"gov"}, leads |-> {-1, 0, 2}, maxFaults |-> 4]

(* The operator resumes when he likes. *)
Resume == [StartOver EXCEPT !.resumes = {TRUE, FALSE}, !.leads = {0}, !.maxFaults = 3]

(* Two operators at once for one machine, without the second attestation. *)
Concurrent == [StartOver EXCEPT !.runs = {"r1", "r2"}, !.commands = {{"r", "a", "p"}},
                                !.leads = {0}, !.maxFaults = 1]

(* Two machines, partial commands, a governance the machines did not sign. *)
TwoMachines == [StartOver EXCEPT !.tees = {"t1", "t2"}, !.entries = {"version", "begin"},
                    !.commands = {WholeCommand, {"r", "a", "p"}, {"a", "p"}, {"p"}},
                    !.governances = {"gov", "old"}, !.leads = {0}, !.maxFaults = 1]

(* A new build under the default version name. *)
SameVersion == [StartOver EXCEPT !.tees = {"t1", "t3"}, !.leads = {0}, !.maxFaults = 1]

AllPlans == {StartOver, Resume, Concurrent, TwoMachines, SameVersion}
=============================================================================
