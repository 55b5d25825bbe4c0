\* Two requests for the last place of a candidate; two parse tasks of the resume.
SPECIFICATION Spec
CONSTANTS
    cv = cv
    letter = letter
    extra = extra
    apply = apply
    upload = upload
    None = None
    Doc = {cv, extra}
    Request = {apply, upload}
    Planned <- OneEach
    Apply = apply
    Resume = {cv}
    Capacity = 1
    MaxAttempts = 2
    MaxTasks <- TwoForTheCv
    MaxWork = 2
    Outcome = {"parsed", "failed", "pending"}
    GraceHolds = TRUE
INVARIANTS
    WithinCapacity
    ReadingsAreCurrent
CHECK_DEADLOCK FALSE
