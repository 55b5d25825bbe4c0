\* An application of two documents under fairness.
SPECIFICATION Spec
CONSTANTS
    cv = cv
    letter = letter
    extra = extra
    apply = apply
    upload = upload
    None = None
    Doc = {cv, letter}
    Request = {apply}
    Planned <- CvAndLetter
    Apply = apply
    Resume = {cv}
    Capacity = 2
    MaxAttempts = 2
    MaxTasks <- OneForTheLetter
    MaxWork = 2
    Outcome = {"parsed", "failed", "pending"}
    GraceHolds = TRUE
INVARIANTS
    CompletedHasObject
    PendingParseHasWork
PROPERTY UploadsSettle
CHECK_DEADLOCK FALSE
