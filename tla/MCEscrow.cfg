SPECIFICATION Spec
CONSTANTS
    Address = {alice, bob, treasury}
    Self = self
    Zero = zero
    Deployer = alice
    Nominees = {}
    InitialFeeBps = 1000
    FeeBps = {}
    Registrants = {self}
    MaxExtensions = 1
    Treasury = treasury
    Clients = {alice}
    Contractors = {bob, zero}
    Tees = {tee}
    UnstableTees = {}
    Forgers = {forger}
    Principals = {0, 10}
    Schedules <- OneJobSchedules
    Commitments = {bundle}
    Artifacts = {artifact}
    Redeployable = {artifact}
    CodeHashes = {h1, h2}
    NoCode = nocode
    Counts = {0, 1}
    Supply = 11
    MIN_VERIFICATION_TIMEOUT = 1
    MAX_VERIFICATION_TIMEOUT = 9
    RoundLength = 1
    MaxInsecure = 1
    MaxTime = 8
    MaxJobs = 1
    MaxAttempts = 2
SYMMETRY CodeSymmetry
INVARIANTS
    TypeOK
    PaysOutExactlyOnce
    SeedIsFirstSecureRoundAfterSubmission
    PaidOnMatchingPass
    OneVerdictPerAttempt
PROPERTIES
    OnlyLatestInstructionSettles
    ImplementsIdealEscrow
