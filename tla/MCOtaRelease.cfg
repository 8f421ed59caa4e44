SPECIFICATION Spec
CONSTANTS
    Runs = {"r1", "r2"}
    Settings = {"steering"}
    State = {"position"}
INVARIANTS PairIsComplete SeededWhole OldMachineFirst
PROPERTIES OthersAreKept RunsEnd
CHECK_DEADLOCK FALSE
