SPECIFICATION Spec
CONSTANTS
    MaxSent = 4
    MaxConnects = 2
    Idle = {}
    replay_messages = FALSE
    max_resend_range = 10
INVARIANTS
    NeverAhead
CHECK_DEADLOCK FALSE
