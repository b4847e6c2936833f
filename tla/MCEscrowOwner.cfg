SPECIFICATION FairSpec
CONSTANTS
    Address = {alice, bob, treasury}
    Self = self
    Zero = zero
    Deployer = alice
    Nominees = {bob, zero}
    InitialFeeBps = 1000
    FeeBps = {0, 1001}
    Registrants = {self, bob}
    MaxExtensions = 2
    Treasury = treasury
    Clients = {alice}
    Contractors = {bob, self}
    Tees = {tee}
    UnstableTees = {tee}
    Forgers = {forger}
    Principals = {10}
    Schedules <- LivenessSchedules
    Commitments = {bundle}
    Artifacts = {artifact}
    Redeployable = {}
    CodeHashes = {h1}
    NoCode = nocode
    Counts = {0, 1}
    Supply = 11
    MIN_VERIFICATION_TIMEOUT = 2
    MAX_VERIFICATION_TIMEOUT = 9
    RoundLength = 1
    MaxInsecure = 0
    MaxTime = 5
    MaxJobs = 1
    MaxAttempts = 1
INVARIANTS
    ExtensionIdIsFirstMatch
    Solvent
PROPERTIES
    EveryJobSettles
