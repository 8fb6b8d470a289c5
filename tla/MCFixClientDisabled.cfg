SPECIFICATION Spec
CONSTANTS
    MaxSeqNo = 2
    SeqNoModulus = 2
    send_try_count = 1
    HasSecondary = FALSE
    LogonResets = FALSE
    ConformingPeer = TRUE
PROPERTY DisabledStaysDisabled
CHECK_DEADLOCK FALSE
