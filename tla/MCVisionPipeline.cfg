SPECIFICATION Spec
CONSTANTS
    Modes = {"look", "pixel", "pixel-depth", "depth", "approach"}
    Views <- MCViews
    Wanted <- MCWanted
    MinFrames = 3  MaxAge = 1  MaxJump = 1
    Settle = 1  Standoff = 2  MaxReach = 1
    MaxLate = 2  MaxTime = 6
CONSTRAINT Horizon
INVARIANTS TargetIsConfirmed CameraReleased
PROPERTIES TargetIsRecent GoalSeenAtRest
CHECK_DEADLOCK FALSE
