SPECIFICATION ReportsSpec
CONSTANTS
    p1 = p1  p2 = p2
    Sessions = {1, 2}
    Reporters = {p1, p2}
    Keep = 1
INVARIANTS LiveIsLeftAlone NothingLost KeptReportIsWhole
SYMMETRY Symmetry
