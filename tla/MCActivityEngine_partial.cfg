\* A sync cut short after the first of its three transactions.
SPECIFICATION HSpec
CONSTANTS
    u1 = u1
    u2 = u2
    u3 = u3
    u4 = u4
    w1 = w1
    w2 = w2
    t1 = t1
    t2 = t2
    i1 = i1
    Users <- OneUser
    Workers <- OneWorker
    TelegramIDs <- OneSender
    Items <- OneItem
    Events = {"star"}
    Favourites <- SomeFavourites
    OnFirstPage <- OneUser
    Kinds = {"recommend"}
    AskedTypes = {"album"}
    MaxClock = 3
    MaxPassword = 1
    StarredCacheTTL = 1
    MaxRecentMemorized = 3
    MaxInactive = 0
PROPERTIES
    FreshMeansRecent
SYMMETRY WorkerSymmetry
