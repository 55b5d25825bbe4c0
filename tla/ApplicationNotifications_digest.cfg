\* Two applications in the digest of one recipient, which names one of
\* them and counts the other, two handlers at once.  No
\* symmetry: it is unsound for liveness.
SPECIFICATION Spec
CONSTANTS
    a1 = a1
    a2 = a2
    daily = daily
    None = None
    Application = {a1, a2}
    Digest = {daily}
    PlanOf <- OneDigest
    MaxAttempts = 2
    DetailLimit = 1
    Earliest <- FirstOne
    MaxWork = 2
    KeyIsCompared = TRUE
INVARIANTS
    CompletedWasMailed
    PendingHasMessage
    ReadingsAreComplete
PROPERTY NothingWaitsForEver
CHECK_DEADLOCK FALSE
