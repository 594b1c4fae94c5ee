SPECIFICATION MCSpec
CONSTANTS
    t1 = t1
    t2 = t2
    p1 = p1
    p2 = p2
    Thread = {t1, t2}
    MaxLog = 5
    Parsable = {1, 2, 3, 4}
    Player = {p1, p2}
    Players <- MCPlayers
    MaxFaults = 3
INVARIANTS
    TypeOK
    NoLogPassedOver
    RacesHaveWinners
PROPERTIES
    RunsEnd
    AllScraped
