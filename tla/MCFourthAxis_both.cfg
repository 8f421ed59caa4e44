SPECIFICATION Spec
CONSTANTS
    b1 = b1
    b2 = b2
    Bindings = {b1, b2}
    Period = 4
    Upper = 4
    Step = 1
    ToolStep = 1
    Slack = 1
    InitShaft = {4}
    Programs = {"controller", "tool"}
    NoTarget = NoTarget
CONSTRAINT Followed
INVARIANTS
    FileTellsTheTruth
    TrustedIsTrue
PROPERTIES
    KeepsReference
    TriggerIsReserved
    MovesAsHeld
    RefusesOnlyWideMoves
