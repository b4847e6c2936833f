----------------------------- MODULE MCWorkProof -----------------------------
(* Instances of WorkProof for TLC: a bundle of six vectors of which the    *)
(* seed selects two, and code that passes all of them or only some.        *)
EXTENDS WorkProof, TLC

CONSTANTS good, bad

Sched(accept, submit, grace, timeout) ==
    [acceptBy |-> accept, submitBy |-> submit, graceEnds |-> grace, verificationTimeout |-> timeout]

Vector(type, constrained) == [type |-> type, constrained |-> constrained]

Equals    == Vector("ETH_CALL_EQUALS", FALSE)
Reverts   == Vector("ETH_CALL_REVERTS", FALSE)
Selector  == Vector("ETH_CALL_REVERTS", TRUE)
Storage   == Vector("STORAGE_AT_EQUALS", FALSE)
Interface == Vector("ERC165_SUPPORTS_INTERFACE", FALSE)
Size      == Vector("CODE_SIZE_RANGE", FALSE)

MCSelected(seed) ==
    LET k == (seed.round + seed.attempt) % 3
    IN  CASE k = 0 -> <<Equals, Reverts>>
          [] k = 1 -> <<Interface, Size>>
          [] k = 2 -> <<Selector, Storage>>

(* The bad code computes the right value, but does not revert where it     *)
(* should, reverts with the wrong error, stores the wrong value and        *)
(* answers supportsInterface with something that is no bool.               *)
MCTruth(hash, v) ==
    CASE v \in {Equals, Size}                         -> "expected"
      [] hash = good /\ v \in {Storage, Interface}    -> "expected"
      [] hash = good /\ v = Reverts                   -> "otherRevert"
      [] hash = good /\ v = Selector                  -> "revert"
      [] hash # good /\ v = Selector                  -> "otherRevert"
      [] hash # good /\ v = Interface                 -> "odd"
      [] hash # good /\ v \in {Storage, Reverts}      -> "different"

(* The second leaves time for a resubmission after a fail. *)
OneAttempt  == {Sched(1, 2, 4, 2)}
TwoAttempts == {Sched(1, 3, 5, 1)}
NoSkew      == {0}

RunSymmetry == Permutations(Runs)
=============================================================================
