SPECIFICATION ServicesSpec
CONSTANTS
    Slots = {s1, s2}
    MaxAttempts = 2
    AuthMax = 2
    MaxRequests = 3
    MaxShocks = 1
    MaxWrites = 2
    AccessSlots = {s1}
    Users = {"ann", "bo"}
    Bundles = {{}, {"user:update"}, {"user:read", "user:manage"}, {"user:delete", "system:manage"}}
    MaxChanges = 3
    MongoRetries = 2
    RedisRetries = 1
    MaxOutages = 2
    MaxEvents = 2
    MaxJobs = 3
    Attempts = 2
    Memory = 1
INVARIANTS
    ServicesTypeOK
    Lockout
    
    ProcessSafe
    JobsDelivered
PROPERTIES
    GrantsDecide
    LimitLifted
    CachesBecomeFresh
    ProcessSettles
    JobsSettle
CHECK_DEADLOCK FALSE
