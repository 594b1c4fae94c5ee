SPECIFICATION MCSpec
CONSTANTS
    l1 = l1
    l2 = l2
    s1 = s1
    s2 = s2
    bad = bad
    List = {l1, l2}
    ValidSid = {s1, s2}
    Doc <- MCDoc
    Canon <- MCCanon
    Blank = ""
    Job = {j1, j2}
    Id = {1, 2, 3, 4, 5, 6, 7, 8}
    NoList = NoList
    MaxChanges = 2
    MaxFaults = 1
PROPERTIES
    KnownEntriesStay
