SPECIFICATION Spec
CONSTANTS
    MaxFaults = 1  MaxCalls = 2  MaxTime = 2
INVARIANTS LeavesNothingOn GoalAfterHold
PROPERTIES CancelWins WithdrawnIsDisabled
