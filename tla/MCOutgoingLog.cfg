SPECIFICATION Spec
CONSTANTS
    FileSlots = 2
    MaxMessages = 3
    MaxFiles = 3
    MaxEvents = 3
    max_resend_range = 2
INVARIANTS
    TypeOK
    IndexLeadsToRecords
    ReplayFaithful
    NumbersNotReused
PROPERTIES
    LogAppendOnly
CHECK_DEADLOCK FALSE
