SPECIFICATION Spec
CONSTANTS
    MaxSent = 6
    MaxConnects = 2
    Idle = {"server"}
    replay_messages = TRUE
    max_resend_range = 10
INVARIANTS
    TypeOK
    ExactlyOnceInOrder
    NoSilentLoss
    LoggedOnTogether
PROPERTY
    ImplementsChannels
CHECK_DEADLOCK FALSE
