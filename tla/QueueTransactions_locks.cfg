\* Two sessions over two batches, two targets and two task rows.
SPECIFICATION Spec
CONSTANTS
    Txn = {x1, x2}
    Task = {1, 2}
    Batch = {1, 2}
    Target = {1, 2}
    Upload = {2}
    None = None
SYMMETRY Sessions
INVARIANTS
    CommittedSummariesAgree
    InsertsNeverConflict
    DeadlocksMeetAtBatches
    FinishedPollsAreSettled
PROPERTIES
    KeepsLedger
    SettledTasksAreFinal
