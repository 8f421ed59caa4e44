----------------------------- MODULE MCCanopenSdo -----------------------------
(* r1, r2 and r3 are for one object of node n1, r4 for another object of   *)
(* that node, r5 and r6 for node n2, whose queue holds one request only.   *)
EXTENDS CanopenSdo, TLC

CONSTANTS r1, r2, r3, r4, r5, r6, n1, n2, o1, o2

MCNodeOf == [r \in Requests |-> IF r \in {r5, r6} THEN n2 ELSE n1]
MCObjectOf == [r \in Requests |-> IF r = r4 THEN o2 ELSE o1]
MCQueueLimit == [n \in Nodes |-> IF n = n1 THEN 2 ELSE 1]

Symmetry == Permutations({r1, r2} \cap Requests)
===============================================================================
