CONSTANTS
    r1 = r1  r2 = r2  r3 = r3  r4 = r4  r5 = r5  r6 = r6  n1 = n1  n2 = n2  o1 = o1  o2 = o2
    Requests = {r1, r2}
    Together = {{r1, r2}}
    Nodes = {n1}
    NodeOf <- MCNodeOf
    ObjectOf <- MCObjectOf
    Invalid = {}
    Observed = FALSE
    QueueLimit <- MCQueueLimit
    ReceiveLimit = 1
    EventLimit = 1
SYMMETRY Symmetry
SPECIFICATION Spec
INVARIANTS LateReplyIsUnmatched
