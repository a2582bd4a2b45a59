\* A login with the new password while validation holds the old one.
SPECIFICATION HSpec
CONSTANTS
    u1 = u1
    u2 = u2
    u3 = u3
    u4 = u4
    w1 = w1
    w2 = w2
    t1 = t1
    t2 = t2
    i1 = i1
    Users <- OneUser
    Workers <- TwoWorkers
    TelegramIDs <- OneSender
    Items = {}
    Events = {"password", "signin", "remove"}
    Favourites <- NoFavourites
    OnFirstPage <- OneUser
    Kinds = {"login", "keyboard"}
    AskedTypes = {"song"}
    MaxClock = 2
    MaxPassword = 1
    StarredCacheTTL = 1
    MaxRecentMemorized = 3
    MaxInactive = 0
PROPERTIES
    EvictsRejectedOnly
SYMMETRY WorkerSymmetry
