\* Completions of two tombstones against fulfilments of two requests, reviews
\* and visits of the verification links.
SPECIFICATION Spec
CONSTANTS
    c1 = c1
    c2 = c2
    k1 = k1
    k2 = k2
    Candidate = {c1, c2}
    Key = {k1, k2}
    Owner <- TwoOwners
    Stored = {k1, k2}
    Request = {r1, r2}
    Requester <- EveryCandidate
    Worker = {w1}
    Visitor = {v1}
    Decision = {"denied"}
    MaxAttempts = 2
    None = None
SYMMETRY Identities
INVARIANTS
    CompletedRequestsAreErased
PROPERTIES
    LastTombstoneCloses
CHECK_DEADLOCK FALSE
