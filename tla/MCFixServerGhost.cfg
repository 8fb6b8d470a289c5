SPECIFICATION Spec
CONSTANTS
    s1 = s1
    s2 = s2
    Sessions = {s1, s2}
    MaxPeers = 2
    None = None
    throttle_action <- MCThrottleAction
    starts_as_primary = TRUE
INVARIANT LiveHasConnection
CHECK_DEADLOCK FALSE
