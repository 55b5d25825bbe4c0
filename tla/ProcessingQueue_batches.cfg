\* Two targets that share batches and tasks, and the successor of a settled
\* task.
SPECIFICATION Spec
CONSTANTS
    g1 = g1
    g2 = g2
    Target = {g1, g2}
    TypeOf <- SameType
    Task = {t1, t2, t3}
    Batch = {b1, b2}
    Worker = {w1}
    None = None
    MaxAttempts = 2
    LeaseTicks = 1
    RetryTicks = 1
    RetryCapTicks = 1
    GraceTicks = 1
SYMMETRY Identities
INVARIANTS
    MembershipIntegrity
    OneActiveTaskPerTarget
    BatchSummariesAgree
PROPERTIES
    FinishedBatchesAreFrozen
    KeepsLedger
CHECK_DEADLOCK FALSE
