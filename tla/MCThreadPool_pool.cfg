\* One adder, as in uart_start.c, and four jobs that do not fit the list; j1 is
\* a callback that never returns.
CONSTANTS
    Workers = {w1, w2}
    Adders = {a1}
    Destroyers = {d1, d2}
    Jobs = {j1, j2, j3, j4}
    Immortal = {j1}
    NoJob = NoJob
    queue_max_num = 2
SPECIFICATION FairSpec
INVARIANTS TypeOK NoMissedWakeup JobsInOrder ReleasedAfterDrain
PROPERTIES ImplementsJobQueue JobsStart AddReturns DestroyReturns
\* With every job accepted and run, everybody sleeps.
CHECK_DEADLOCK FALSE
