SPECIFICATION BundleSpec
CONSTANTS
    VectorIds = {"empty", "multibyte", "v1", "v2"}
    RightDocuments <- OneOfEach
    Written <- Anything
    MaxEdits = 2
    SchemaMaxCount = 3
    MaxVectorCount = 3
    MaxSelectionCount = 2
CHECK_DEADLOCK FALSE
INVARIANTS
    AcceptedMeansSchemaValid
    AcceptedVectorsRun
    ValidateIsTheSchema
    CommitmentIsReproduced
