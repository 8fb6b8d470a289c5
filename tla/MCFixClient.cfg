SPECIFICATION FairSpec
CONSTANTS
    MaxSeqNo = 2
    SeqNoModulus = 1
    send_try_count = 1
    HasSecondary = TRUE
    LogonResets = FALSE
    ConformingPeer = TRUE
INVARIANTS
    TypeOK
    InOrder
    ConnectedMeansOpen
    LogoutIsAwaited
PROPERTIES
    RetransmissionEnds
    ObligationsMet
    SilenceDetected
    LogonResolved
    LogoutResolved
CHECK_DEADLOCK FALSE
