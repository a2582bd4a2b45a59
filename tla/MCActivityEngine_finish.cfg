\* Every kind of request comes to an end, also among restarts.
SPECIFICATION HSpec
CONSTANTS
    u1 = u1
    u2 = u2
    u3 = u3
    u4 = u4
    w1 = w1
    w2 = w2
    t1 = t1
    t2 = t2
    i1 = i1
    Users <- TwoUsers
    Workers <- OneWorker
    TelegramIDs <- OneSender
    Items <- OneItem
    Events = {"star", "remove"}
    Favourites <- OnlyEverything
    OnFirstPage <- OneUser
    Kinds = {"login", "recommend", "random", "keyboard", "purge"}
    AskedTypes = {"song"}
    MaxClock = 1
    MaxPassword = 0
    StarredCacheTTL = 1
    MaxRecentMemorized = 3
    MaxInactive = 1
INVARIANTS
    TypeOK
PROPERTIES
    RequestsFinish
