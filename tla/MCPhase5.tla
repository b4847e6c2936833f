------------------------------ MODULE MCPhase5 ------------------------------
(* Instances of Phase5 for TLC.  Runners make their own schedules, so the  *)
(* schedules of other clients are given separately.                        *)
EXTENDS Phase5

OtherSchedules ==
    {[acceptBy |-> 2, submitBy |-> 3, graceEnds |-> 5, verificationTimeout |-> 2]}
=============================================================================
