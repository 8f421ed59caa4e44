SPECIFICATION FairSpec
CONSTANTS
    b1 = b1
    b2 = b2
    Bindings = {b1}
    Period = 7
    Upper = 5
    Step = 2
    ToolStep = 3
    Slack = 0
    InitShaft = {6}
    Programs = {"controller"}
    NoTarget = NoTarget
PROPERTIES
    HeldJogEnds
    ExitEnds
