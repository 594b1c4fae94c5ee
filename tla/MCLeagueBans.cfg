SPECIFICATION Spec
CONSTANTS
    s1 = s1
    s2 = s2
    bad = bad
    League = {rgl, etf2l}
    Keyed = {etf2l}
    Sid = {s1, s2}
    Ban <- MCBan
    PageSize = 2
    MaxBans = 3
    MaxChanges = 2
    MaxFaults = 1
INVARIANTS
    TypeOK
    TableIsSnapshot
    AdditionsHideNothing
PROPERTIES
    AgainAndAgainCurrent
