\* Four nodes beside the dummy: lists of up to four nodes, and addresses that
\* calloc hands out again after they have been freed.
CONSTANTS
    Producers = {p1, p2}
    Node = {n0, n1, n2, n3, n4}
    Dummy = n0
    Msg = {m1, m2}
    NULL = NULL
SPECIFICATION Spec
SYMMETRY Symmetry
INVARIANTS TypeOK ChainIntact NoDangling NoLeak
PROPERTY ImplementsMsgQueue
\* A destroyed list is used no more.
CHECK_DEADLOCK FALSE
