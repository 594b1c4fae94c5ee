SPECIFICATION StoreFairSpec
CONSTANTS
    Sid = {s1, s2}
    Caller = {c1, c2, c3}
    NoSid = NoSid
INVARIANTS
    StoreTypeOK
    AnswerMeansStored
    HistoryComplete
PROPERTIES
    EveryCallAnswered
    ImplementsRegistry
