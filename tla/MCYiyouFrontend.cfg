SPECIFICATION Spec
CONSTANTS
    s1 = s1  s4 = s4  d1 = d1  d2 = d2
    Slaves = {s1, s4}
    Fourth = s4
    Drives = {d1, d2}
    NoDrive = NoDrive
INVARIANTS RecordTruthful HomeIsTrusted
PROPERTIES MotorsStop
