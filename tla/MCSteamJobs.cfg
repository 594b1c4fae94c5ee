SPECIFICATION MCSpec
CONSTANTS
    s1 = s1
    s2 = s2
    s3 = s3
    v1 = v1
    v2 = v2
    v3 = v3
    m1 = m1
    m2 = m2
    Server = {v1, v2, v3}
    MapName = {m1, m2}
    MapOf <- MCMapOf
    None = None
    MaxSteps = 3
    MaxChanges = 1
    Sid = {s1, s2, s3}
    Known = {s1, s2}
    BatchSize = 2
    MaxAttempts = 2
    MaxQueue = 2
    MaxExpiries = 1
    MaxFaults = 2
INVARIANTS
    JobsTypeOK
    FollowUpsLostToFaultsOnly
    FreshMeansSummarised
PROPERTIES
    EventuallyFresh
    FollowUpsRun
    ServersCounted
