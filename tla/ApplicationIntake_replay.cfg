\* An applicant who tries twice, with a document and without any, and two
\* operators who replay the first receipt, the second perhaps because the first
\* replay was lost, while what that one posted still runs.  No symmetry: liveness.
SPECIFICATION Spec
CONSTANTS
    Submission = {s1, s2}
    Operator = {o1, o2}
    s1 = s1
    s2 = s2
    o1 = o1
    o2 = o2
    d1 = d1
    Form <- OneAndNone
    Asked <- AskFirst
    None = None
    MaxAttempts = 1
    Hasty = {}
    GraceHolds = TRUE
INVARIANTS
    AcceptedIsHeld
PROPERTIES
    ReceiptsAreSpent
    NothingStaysPartial
CHECK_DEADLOCK FALSE
