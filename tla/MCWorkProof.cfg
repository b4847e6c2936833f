SPECIFICATION SystemSpec
CONSTANTS
    good = good
    bad = bad
    Address = {alice, bob, treasury}
    Self = self
    Zero = zero
    Deployer = alice
    Nominees = {}
    InitialFeeBps = 1000
    FeeBps = {}
    Registrants = {self}
    MaxExtensions = 1
    Treasury = treasury
    Clients = {alice}
    Contractors = {bob}
    Tees = {tee}
    UnstableTees = {}
    Forgers = {}
    Principals = {10}
    Schedules <- TwoAttempts
    Commitments = {bundle, old}
    Artifacts = {artifact}
    Redeployable = {}
    CodeHashes = {good, bad}
    NoCode = nocode
    Counts = {0, 1, 2}
    Supply = 11
    MIN_VERIFICATION_TIMEOUT = 1
    MAX_VERIFICATION_TIMEOUT = 9
    RoundLength = 1
    MaxInsecure = 0
    MaxTime = 6
    MaxJobs = 1
    MaxAttempts = 2
    Runs = {run1, run2}
    NoInstruction = none
    Tags = {"threshold", "end"}
    EngineMatches = {bundle}
    ValidBundles = {bundle}
    Selected <- MCSelected
    Truth <- MCTruth
    Glitches = {"transport"}
    Skews <- NoSkew
SYMMETRY RunSymmetry
INVARIANTS
    SignedVerdictIsSettleable
    NoContradictoryVerdicts
    PaidWorkPassesItsTests
