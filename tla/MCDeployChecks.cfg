SPECIFICATION Spec
CONSTANTS
    Environs <- AllEnvirons
    Builds = {"b1", "b2"}
    Unreliable = {"D1", "R1", "R7"}
INVARIANTS
    EnvIsUsable
    VerifiedDeploymentIsUsable
    UsableDeploymentPasses
    VerifiedEscrowAdoptedItsId
PROPERTIES
    EventuallyDeployed
CHECK_DEADLOCK FALSE
