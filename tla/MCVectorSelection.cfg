\* Up to five vectors: every validated pair of counts, every sequence of draws.
CONSTANTS
    MaxVectorCount = 5
    MaxSelectionCount = 4
SPECIFICATION Spec
INVARIANTS
    SelectedDistinct
    NoSelectionFavoured
CHECK_DEADLOCK FALSE
