SPECIFICATION MCSpec
CONSTANTS
    t1 = t1
    t2 = t2
    t3 = t3
    m1 = m1
    m2 = m2
    m3 = m3
    m4 = m4
    p1 = p1
    p2 = p2
    Season = {1, 3, 4}
    Team = {t1, t2, t3}
    Match = {m1, m2, m3, m4}
    Player = {p1, p2}
    TeamsOf <- MCTeamsOf
    MatchesOf <- MCMatchesOf
    Roster <- MCRoster
    PlayedBy <- MCPlayedBy
    Winner <- MCWinner
    NoTeam = NoTeam
    MaxErr = 2
    MaxAttempts = 3
    MaxFaults = 3
INVARIANTS
    TypeOK
    MatchesFindTeams
    RosterLostToFaultsOnly
PROPERTIES
    AllImported
