------------------------------ MODULE MCEscrow ------------------------------
(* Instances of Escrow for TLC.  Times are small numbers; in all of them a *)
(* voting round lasts one time unit.                                       *)
EXTENDS Escrow, TLC

Sched(accept, submit, grace, timeout) ==
    [acceptBy |-> accept, submitBy |-> submit, graceEnds |-> grace, verificationTimeout |-> timeout]

(* One job's worth of schedules: a timeout that ends before submitBy, so   *)
(* that a second attempt is possible, and one that outlasts graceEnds; the *)
(* last two are rejected by createJob.                                     *)
OneJobSchedules == {Sched(1, 4, 7, 1), Sched(1, 2, 4, 9), Sched(1, 4, 3, 1), Sched(1, 4, 7, 0)}

(* Codes are only compared. *)
CodeSymmetry == Permutations(CodeHashes)

(* Everything happens within five time units. *)
LivenessSchedules == {Sched(1, 2, 4, 2)}
=============================================================================
