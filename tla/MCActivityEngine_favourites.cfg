\* Logins, syncs, recommendations, validation and purge of one user, by two
\* workers.
SPECIFICATION HSpec
CONSTANTS
    u1 = u1
    u2 = u2
    u3 = u3
    u4 = u4
    w1 = w1
    w2 = w2
    t1 = t1
    t2 = t2
    i1 = i1
    Users <- OneUser
    Workers <- TwoWorkers
    TelegramIDs <- OneSender
    Items <- OneItem
    Events = {"password", "signin", "star", "remove"}
    Favourites <- SomeFavourites
    OnFirstPage <- OneUser
    Kinds = {"login", "recommend", "keyboard", "purge"}
    AskedTypes = {"song"}
    MaxClock = 3
    MaxPassword = 1
    StarredCacheTTL = 1
    MaxRecentMemorized = 3
    MaxInactive = 1
INVARIANTS
    CacheOwned
    SavedPasswordsWereAccepted
PROPERTIES
    RemovedForCause
    SyncCachesSnapshot
    ImplementsRegistry
SYMMETRY WorkerSymmetry
