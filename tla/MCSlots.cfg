SPECIFICATION Spec
CONSTANTS
    SLOT_COUNT = 2
    Hosts = {"alpha", "beta"}
    MaxConnects = 1
PROPERTIES
    RestartFindsWhatWasSaved
    EmptiesTheSlotAskedAbout
