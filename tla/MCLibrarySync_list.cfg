\* One sync after the other, in pages of one album, among expired entries.
SPECIFICATION ViewSpec
CONSTANTS
    g1 = g1
    g2 = g2
    Albums = {1, 2}
    Elsewhere = {}
    Goroutines <- OneGoroutine
    Forces = {TRUE, FALSE}
    PageSize = 1
    CheckCount = 1
    ExpiryAge = 2
    MaxClock = 2
    MaxScans = 1
INVARIANTS
    SyncSeesLibrary
    WritesCurrentEntries
