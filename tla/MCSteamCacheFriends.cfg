SPECIFICATION Spec
CONSTANTS
    Kind = {"summary", "friends"}
    Sid = {s1, s2}
    Hidden = {s2}
    Reader = {r1, r2}
    Size = {1, 2}
    MaxAge = 1
    MaxTime = 1
    MaxNow = 4
    MaxFaults = 1
INVARIANTS
    FriendsListed
