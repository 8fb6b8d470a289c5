SPECIFICATION Spec
CONSTANTS
    MaxSeqNo = 2
    SeqNoModulus = 2
    send_try_count = 1
    HasSecondary = FALSE
    LogonResets = FALSE
    ConformingPeer = TRUE
INVARIANT LiveOnlyWhenConnected
CHECK_DEADLOCK FALSE
