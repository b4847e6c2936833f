SPECIFICATION ExtensionFairSpec
CONSTANTS
    Requests = {r1, r2}
    Names = {ann}
    Kinds = {"greeting", "farewell", "state", "verify", "malformed", "unsupported"}
    ServerReadTimeout = 2
    ServerWriteTimeout = 2
    AttemptTotalTimeout = 2
    Settings <- AnySetting
    ProviderHangs = TRUE
    Signalled = TRUE
    MaxClock = 3
    Nobody = nobody
CHECK_DEADLOCK FALSE
INVARIANTS
    NumbersAreHandedOutOnce
    StateIsConsistent
PROPERTIES
    EveryRequestEnds
    PromptRequestGetsItsVerdict
