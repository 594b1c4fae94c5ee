SPECIFICATION MCSpec
CONSTANTS
    Site = {"A", "B"}
    Theme = {"default", "skial", "material", "star", "fluent"}
    MaxFaults = 1
    PerPage = 2
    Bans <- MCBans
    SteamId = {"p1", "p2", "p3"}
    Time = {"d1", "d2", "d3", "d4", "d5"}
    Zero = "zero"
INVARIANTS
    TypeOK
    RowsAreListed
    NoBanPassedOver
PROPERTIES
    EveryBanStored
