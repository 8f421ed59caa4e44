SPECIFICATION FairSpec
CONSTANTS
    s1 = s1  s2 = s2  c1 = c1  c2 = c2
    Slaves = {s1, s2}
    Callers = {c1, c2}
    PdoLimit = 2
    AlLimit = 1
    MaxWrites = 1
INVARIANTS AcknowledgedIsDelivered
PROPERTIES FaultStopsDrives WaitsEnd
