\* One document from its upload to its erasure, two processes that erase, a
\* request whose verification link is visited.  No symmetry: it is unsound for
\* liveness.
SPECIFICATION FairSpec
CONSTANTS
    c1 = c1
    c2 = c2
    k1 = k1
    k2 = k2
    Candidate = {c1}
    Key = {k1}
    Owner <- OneOwner
    Stored = {}
    Request = {r1}
    Requester <- EveryCandidate
    Worker = {w1, w2}
    Visitor = {v1}
    Decision = {"in_review", "denied", "cancelled"}
    MaxAttempts = 2
    None = None
INVARIANTS
    ErasedObjectsAreGone
    ObjectsAreAccountedFor
PROPERTIES
    TombstonesSettle
CHECK_DEADLOCK FALSE
