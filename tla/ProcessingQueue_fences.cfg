\* Two workers that lose and overtake each other's leases over two tasks of two
\* types, under fairness.  No symmetry: it is unsound for liveness.
SPECIFICATION FairSpec
CONSTANTS
    g1 = g1
    g2 = g2
    Target = {g1, g2}
    TypeOf <- TwoTypes
    Task = {t1, t2}
    Batch = {b1, b2}
    Worker = {w1, w2}
    None = None
    MaxAttempts = 2
    LeaseTicks = 2
    RetryTicks = 1
    RetryCapTicks = 1
    GraceTicks = 1
INVARIANTS
    TypeOK
    OneWriterPerTask
    DiscoveryMatchesClaim
PROPERTIES
    SealedBatchesFinish
    OnlyCurrentHolderSettles
    TerminalTasksAreFinal
CHECK_DEADLOCK FALSE
