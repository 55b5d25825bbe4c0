\* Two recruiters that change the status at once, and two handlers of mails.
SPECIFICATION Spec
CONSTANTS
    Doc = {d1}
    MaxAttempts = 2
    MaxPatches = 3
    MaxWork = 2
INVARIANTS
    OneMailPerRejection
    AcknowledgedIsUploaded
PROPERTY MailsSettle
CHECK_DEADLOCK FALSE
