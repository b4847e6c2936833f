SPECIFICATION RunFairSpec
CONSTANTS
    Address = {alice, bob, carol, treasury}
    Self = self
    Zero = zero
    Deployer = treasury
    Nominees = {}
    InitialFeeBps = 0
    FeeBps = {}
    Registrants = {self}
    MaxExtensions = 1
    Treasury = treasury
    Clients = {carol}
    Contractors = {carol, alice}
    Tees = {tee}
    UnstableTees = {}
    Forgers = {}
    Principals = {10}
    Schedules <- OtherSchedules
    Commitments = {bundle}
    Artifacts = {artifact}
    Redeployable = {}
    CodeHashes = {h1}
    NoCode = nocode
    Counts = {0, 1}
    Supply = 11
    MIN_VERIFICATION_TIMEOUT = 2
    MAX_VERIFICATION_TIMEOUT = 9
    RoundLength = 2
    MaxInsecure = 0
    MaxTime = 6
    MaxJobs = 2
    MaxAttempts = 1
    Relayers = {r1}
    RelayTimeout = 2
    InitialInterval = 2
    MaxInterval = 2
    Tags = {"threshold"}
    AnswerKinds = {"Pass", "Inconclusive", "error"}
    ProxyFaults = 1
    Runners = {alice}
    Modes = {TRUE, FALSE}
    AcceptDelay = 1
    SubmitDelay = 3
    GraceDelay = 4
    VerifyTimeout = 2
    RandomnessTimeout = 2
    PollTimeout = 1
    GraceMargin = 2
    ClockAhead = 1
    MaxCrashes = 1
    ProxyHangs = TRUE
CHECK_DEADLOCK FALSE
INVARIANTS
    FinishedRunVerifiedItsOwnJob
    OneDeliveryCounts
    RefundIsNotTooEarly
    NoAnswerMissed
PROPERTIES
    EveryWaitEnds
