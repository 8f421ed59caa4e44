CONSTANTS
    r1 = r1  r2 = r2  r3 = r3  r4 = r4  r5 = r5  r6 = r6  n1 = n1  n2 = n2  o1 = o1  o2 = o2
    Requests = {r1, r2, r3, r4, r5, r6}
    Together = {{r1, r2}, {r1, r3}, {r1, r4}, {r1, r5}, {r5, r6}}
    Nodes = {n1, n2}
    NodeOf <- MCNodeOf
    ObjectOf <- MCObjectOf
    Invalid = {r3}
    Observed = TRUE
    QueueLimit <- MCQueueLimit
    ReceiveLimit = 1
    EventLimit = 1
SPECIFICATION FairSpec
INVARIANTS AnsweredOnce NobodyForgotten ConfusedOnlyByLateAnswers
PROPERTIES EveryRequestEnds
