SPECIFICATION FairSpec
CONSTANTS
    s1 = s1
    s2 = s2
    s3 = s3
    bad = bad
    Sid = {s1, s2, s3}
    Csv <- MCCsv
    Worker = {w1, w2}
    PoolSize = 3
    MaxChanges = 2
    MaxFaults = 2
INVARIANTS
    TypeOK
    ForeignKeyHolds
    OverlapKeepsAll
    ConnectionsReturned
PROPERTIES
    AgainAndAgainCurrent
\* Nothing to import: the site may publish a list without a valid player.
CHECK_DEADLOCK FALSE
