SPECIFICATION Spec
CONSTANTS
    Axes = {"linear"}
    Hands <- MCHands
    Stages = {"waiting", "running"}
    HasTimeout = TRUE
    MaxQueue = 1
    MaxGeneration = 1
INVARIANTS FreshInput OneOwner
PROPERTIES ActsAsHeld
