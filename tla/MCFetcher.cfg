SPECIFICATION FetcherFairSpec
CONSTANTS
    Fetches = {f1, f2}
    Spellings <- Spelled
    ToLower <- Lowered
    CiphertextHosts = {"Gateway"}
    Addresses = {public1, public2, private}
    Private = {private}
    MaxCiphertextBytes = 1
    MaxBody = 2
    Nothing = nothing
CHECK_DEADLOCK FALSE
INVARIANTS
    ConnectionsAreValidated
    NeverTruncated
PROPERTIES
    EveryFetchEnds
