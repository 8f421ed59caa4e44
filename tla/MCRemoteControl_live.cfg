SPECIFICATION FairSpec
CONSTANTS
    Axes = {"linear"}
    Hands <- MCLiveHands
    Stages = {"running"}
    HasTimeout = FALSE
    MaxQueue = 1
    MaxGeneration = 1
PROPERTIES
    LossStops
    EmergencyHeard
    Rearms
