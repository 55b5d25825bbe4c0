\* Two connections in turn, two handlers at once, one interview.
SPECIFICATION Spec
CONSTANTS
    Event = {i1}
    None = None
    MaxGen = 2
    MaxChannels = 2
    MaxChanges = 2
    MaxRefreshes = 1
    MaxWork = 2
INVARIANTS
    RowIsOneConnection
    NothingIsSkipped
PROPERTY NewerAnswersStand
CHECK_DEADLOCK FALSE
