SPECIFICATION Spec
CONSTANTS
    s1 = s1
    s2 = s2
    Sessions = {s1, s2}
    MaxPeers = 2
    None = None
    throttle_action <- MCThrottleAction
    starts_as_primary = TRUE
INVARIANTS TypeOK TablesAgree SpeaksToItsClient
PROPERTIES LiveSessionNotTaken ClosureIsLocal DisabledIsRefused
CHECK_DEADLOCK FALSE
