\* Two daily checks among restarts and failures.
SPECIFICATION Spec
CONSTANTS
    a1 = a1
    c1 = c1
    c2 = c2
    command = "command"
    Albums <- OneAlbum
    Chats <- TwoChats
    Commands <- OneCommand
    Daily = {1, 4}
    Purge = {3}
    Window = 3
    JobTime = 1
    RunOnStartup = FALSE
    MaxClock = 5
INVARIANTS
    TypeOK
    
    PostedTwiceOnlyOverlapping
    AnniversariesOfTheDay
    DatabaseOutlivesJobs
PROPERTIES
    ShutdownEnds
