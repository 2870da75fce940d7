SPECIFICATION Spec
CONSTANTS
    Slots = {r1}
    MaxTokens = 2
    MaxRequests = 2
    MaxShocks = 0
PROPERTIES
    RevokeAllReachesRedis
CHECK_DEADLOCK FALSE
