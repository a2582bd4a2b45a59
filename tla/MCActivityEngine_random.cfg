\* Random recommendations among three users, by two workers.
SPECIFICATION HSpec
CONSTANTS
    u1 = u1
    u2 = u2
    u3 = u3
    u4 = u4
    w1 = w1
    w2 = w2
    t1 = t1
    t2 = t2
    i1 = i1
    Users <- ThreeUsers
    Workers <- TwoWorkers
    TelegramIDs <- OneSender
    Items = {}
    Events = {}
    Favourites <- NoFavourites
    OnFirstPage <- ThreeUsers
    Kinds = {"random"}
    AskedTypes = {"song"}
    MaxClock = 1
    MaxPassword = 0
    StarredCacheTTL = 1
    MaxRecentMemorized = 2
    MaxInactive = 0
INVARIANTS
    NeverTheCaller
    RecentsDistinct
PROPERTIES
    PickAvoidsRecent
SYMMETRY WorkerAndUserSymmetry
