SPECIFICATION Spec
CONSTANTS
    Tees = {"t1", "t2", "t3"}
    CodeOf <- CodeOfTee
    NodeGovernance <- OneGovernance
    Versions <- VersionOfTee
    Runs = {"r1", "r2"}
    Plans <- AllPlans
    MaxId = 10
INVARIANTS
    SuccessMeansProduction
    StateFileTellsTheTruth
    WhitelistedUnlessNameTaken
PROPERTIES
    EventuallyInProduction
