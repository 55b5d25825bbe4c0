\* A verification link that is visited while a reviewer decides.
SPECIFICATION Spec
CONSTANTS
    c1 = c1
    c2 = c2
    k1 = k1
    k2 = k2
    Candidate = {c1}
    Key = {k1}
    Owner <- OneOwner
    Stored = {k1}
    Request = {r1}
    Requester <- EveryCandidate
    Worker = {w1}
    Visitor = {v1}
    Decision = {"denied"}
    MaxAttempts = 2
    None = None
PROPERTIES
    TerminalDispositionsAreFinal
CHECK_DEADLOCK FALSE
