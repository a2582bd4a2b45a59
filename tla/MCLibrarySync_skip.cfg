\* Two syncs at a time, in one page, with the expiry of no entry.
SPECIFICATION SuspectSpec
CONSTANTS
    g1 = g1
    g2 = g2
    Albums = {1, 2}
    Elsewhere = {2}
    Goroutines <- TwoGoroutines
    Forces = {FALSE}
    PageSize = 2
    CheckCount = 1
    ExpiryAge = 1
    MaxClock = 0
    MaxScans = 1
INVARIANTS
    TypeOK
PROPERTIES
    SkipIsTransparent
    SyncUpdatesCache
SYMMETRY GoroutineSymmetry
