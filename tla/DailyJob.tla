------------------------------- MODULE DailyJob -------------------------------
(***************************************************************************)
(* The process of cmd/bot/main.go: its start, the jobs that cron runs, the *)
(* daily post of new albums and anniversaries, and the shutdown.           *)
(*                                                                         *)
(* The clock counts in parts of a day.  A job takes one step for each look *)
(* at the wall clock, for each message, and for each part of LibrarySync   *)
(* that meets the other syncs of the process: the list, or the cache that  *)
(* a skipped sync returns, and the two files that it saves.  The rest of   *)
(* it is in LibrarySync.                                                   *)
(***************************************************************************)
EXTENDS Integers, FiniteSets

CONSTANTS
    Albums,
    Chats,          \* TelegramChatIDs
    Commands,       \* the goroutines of other syncs, those of the commands
    Daily, Purge,   \* the instants of the two entries of cron
    Window,         \* 24 hours, and a day
    JobTime,        \* bound: how long a job takes at most
    RunOnStartup,
    MaxClock        \* bound: the last instant

Day(t) == t \div Window

\* A schedule of the daily job that is not just before midnight.
ASSUME DailyAssumption ==
    /\ Window \in Nat \ {0} /\ JobTime \in Nat /\ JobTime < Window
    /\ MaxClock \in Nat
    /\ Daily \subseteq Nat /\ Purge \subseteq Nat
    /\ \A s \in Daily : Day(s + JobTime) = Day(s)
    /\ \A s, t \in Daily : s < t => t - s >= Window
    /\ \A s, t \in Purge : s < t => t - s >= Window
    /\ RunOnStartup \in BOOLEAN
    /\ Chats # {}
    /\ Commands \cap {"daily", "purge", "startup"} = {}

VARIABLES
    clock,
    created,    \* server: album -> when it was added; it may have older ones
    readable,   \* the cache file can be read
    cache,      \* the albums of the cache file
    saved,      \* the status file may hold the scan status of the server
    overtaken,  \* history: albums added between the list of a sync and its save
    main,       \* where the function main is
    database,   \* "open" or "closed"
    timedOut,   \* sched.Stop has not waited for all the jobs
    jobs,       \* job -> its locals
    posts,      \* what the checks of cron have shown to the chats
    complete    \* when those checks fired that ended and in which nothing failed

filevars == <<readable, cache, saved>>
vars == <<clock, created, filevars, overtaken, main, database, timedOut, jobs, posts, complete>>

\* The first daily check runs in a goroutine that the scheduler knows nothing of.
Scheduled == {"daily", "purge"}
Jobs == Scheduled \cup {"startup"} \cup Commands
Checks == {"daily", "startup"}
Syncs == Checks \cup Commands

Album(a) == <<"album", a>>
Anniversaries(day) == <<"day", day>>
Items == {Album(a) : a \in Albums} \cup {Anniversaries(d) : d \in 0 .. Day(MaxClock)}

JobPCs == {"idle", "list", "save", "status", "select", "post", "anniversaries",
           "congratulate", "purge"}

Job == [pc : JobPCs, fired : Nat, albums : SUBSET Albums, text : SUBSET Items,
        chats : SUBSET Chats, failed : BOOLEAN]

NoJob == [pc |-> "idle", fired |-> 0, albums |-> {}, text |-> {}, chats |-> {},
          failed |-> FALSE]

TypeOK ==
    /\ clock \in Nat
    /\ DOMAIN created \subseteq Albums /\ \A a \in DOMAIN created : created[a] <= clock
    /\ main \in {"down", "up", "signalled", "stopping", "stopped", "closed"}
    /\ readable \in BOOLEAN /\ cache \subseteq Albums /\ (cache # {} => readable)
    /\ saved \in BOOLEAN /\ overtaken \subseteq Albums
    /\ database \in {"open", "closed"} /\ timedOut \in BOOLEAN
    /\ jobs \in [Jobs -> Job]
    /\ \A j \in Jobs :
          /\ jobs[j].albums # {} => jobs[j].pc \in {"save", "status", "select"}
          /\ jobs[j].text # {} <=> jobs[j].pc \in {"post", "congratulate"}
          /\ jobs[j].chats # {} <=> jobs[j].pc \in {"post", "congratulate"}
    /\ posts \subseteq [fired : Daily, chat : Chats, item : Items]
    /\ complete \subseteq Daily

Init ==
    /\ clock = 0
    /\ created = [a \in {} |-> 0]
    /\ readable = FALSE
    /\ cache = {}
    /\ saved = FALSE
    /\ overtaken = {}
    /\ main = "down"
    /\ database = "closed"
    /\ timedOut = FALSE
    /\ jobs = [j \in Jobs |-> NoJob]
    /\ posts = {}
    /\ complete = {}

----------------------------------------------------------------------------
(* Time, the server, and cron.                                             *)

Running(j) == jobs[j].pc # "idle"

\* Mutant: it is stopped when the jobs have ended.
CronIsOnTooLong == main \in {"up", "signalled", "stopping", "stopped"}

CronIsOn == main \in {"up", "signalled"}

\* Mutant: in the time zone of the process instead of the configured one.
EntryElsewhere(j) == {t + 1 : t \in IF j = "daily" THEN Daily ELSE Purge}

Entry(j) == IF j = "daily" THEN Daily ELSE Purge

Begin(j, now) ==
    [NoJob EXCEPT !.pc = IF j = "purge" THEN "purge" ELSE "list", !.fired = now]

\* An entry that is due starts a goroutine; what was due while cron was off is
\* not made up for.
Tick ==
    /\ clock < MaxClock
    /\ \A j \in Jobs \ Commands : Running(j) => clock < jobs[j].fired + JobTime
    /\ clock' = clock + 1
    /\ jobs' = [j \in Jobs |->
                  IF CronIsOn /\ j \in Scheduled /\ clock' \in Entry(j)
                  THEN Begin(j, clock') ELSE jobs[j]]
    /\ UNCHANGED <<created, filevars, overtaken, main, database, timedOut,
                   posts, complete>>

\* A sync has its list and has not yet saved the status.
Saving == \E j \in Syncs : jobs[j].pc \in {"save", "status"}

\* A scan of the server, which may find nothing, and after which its status is
\* another one.
Scan ==
    /\ \E found \in SUBSET (Albums \ DOMAIN created) :
          /\ created' = [b \in DOMAIN created \cup found |->
                           IF b \in found THEN clock ELSE created[b]]
          /\ overtaken' = IF Saving THEN overtaken \cup found ELSE overtaken
    /\ saved' = FALSE
    /\ UNCHANGED <<clock, readable, cache, main, database, timedOut, jobs, posts,
                   complete>>

----------------------------------------------------------------------------
(* runDailyJob and runPurgeJob.                                            *)

jobvars == <<clock, created, overtaken, main, database, timedOut>>

At(j, pc) == jobs[j].pc = pc
Become(j, r) == jobs' = [jobs EXCEPT ![j] = r]

Post(fired, chat, item) == [fired |-> fired, chat |-> chat, item |-> item]

\* What the check at the start posts is not kept.
Record(j, chat) ==
    posts' = posts \cup
        {Post(jobs[j].fired, chat, i) : i \in IF j = "daily" THEN jobs[j].text ELSE {}}

End(j, failed) ==
    /\ Become(j, NoJob)
    /\ complete' = complete \cup
                      (IF j = "daily" /\ ~failed THEN {jobs[j].fired} ELSE {})

\* LibrarySync returns: a check goes on with the albums, a command is left out.
SyncReturns(j, albums) ==
    Become(j, IF j \in Commands THEN NoJob
              ELSE [jobs[j] EXCEPT !.pc = "select", !.albums = albums])

SyncFails(j) ==
    Become(j, IF j \in Commands THEN NoJob
              ELSE [jobs[j] EXCEPT !.pc = "anniversaries", !.albums = {},
                                   !.failed = TRUE])

\* Mutant: whatever the status of the server is.
CacheExists == readable

Unchanged == saved /\ readable

\* The sync is skipped; or it lists the albums of the server at one instant, as
\* it also does when the request for the status fails or a scan is in progress;
\* or it fails.
ListNew(j) ==
    /\ At(j, "list")
    /\ \/ Unchanged /\ SyncReturns(j, cache)
       \/ Become(j, [jobs[j] EXCEPT !.pc = "save", !.albums = DOMAIN created])
       \/ SyncFails(j)
    /\ UNCHANGED <<jobvars, filevars, posts, complete>>

\* Two writes at once, or one cut short, leave what cannot be read.
WriteCache(albums) ==
    /\ readable' \in BOOLEAN
    /\ cache' = IF readable' THEN albums ELSE {}

\* A library without any album is not written; an error ends the sync.
SaveCache(j) ==
    /\ At(j, "save")
    /\ \/ /\ WriteCache(jobs[j].albums)
          /\ Become(j, [jobs[j] EXCEPT !.pc = "status"])
       \/ /\ jobs[j].albums = {}
          /\ UNCHANGED <<readable, cache>>
          /\ Become(j, [jobs[j] EXCEPT !.pc = "status"])
       \/ /\ \/ UNCHANGED <<readable, cache>>
             \/ readable' = FALSE /\ cache' = {}
          /\ SyncFails(j)
    /\ UNCHANGED <<jobvars, saved, posts, complete>>

\* The status of the server now, whatever happened since the list; unless the
\* request or the write fails.
SaveStatus(j) ==
    /\ At(j, "status")
    /\ saved' \in {TRUE, saved, FALSE}
    /\ SyncReturns(j, jobs[j].albums)
    /\ UNCHANGED <<jobvars, readable, cache, posts, complete>>

\* A command, or the check of the anniversaries, starts a sync.
BeginSync(j) ==
    /\ main # "down"
    /\ At(j, "idle")
    /\ Become(j, [NoJob EXCEPT !.pc = "list"])
    /\ UNCHANGED <<jobvars, filevars, posts, complete>>

\* Mutant: "not before" for "after".
CutoffIncluded == clock - Window - 1

Cutoff == clock - Window

\* Mutant: the day of another time zone.
TodayElsewhere == Day(clock + 1)

Today == Day(clock)

Compose(r, pc, text) ==
    [r EXCEPT !.pc = pc, !.albums = {}, !.text = text, !.chats = Chats]

\* GetNewAlbums looks at the clock once it has the list.
SelectNew(j) ==
    LET new == {a \in jobs[j].albums : created[a] > Cutoff}
    IN  /\ At(j, "select")
        /\ Become(j,
              IF new = {} THEN [jobs[j] EXCEPT !.pc = "anniversaries", !.albums = {}]
              ELSE Compose(jobs[j], "post", {Album(a) : a \in new}))
        /\ UNCHANGED <<jobvars, filevars, posts, complete>>

\* The day is taken before LibrarySync, whose steps on the files are those of a
\* command; that no album has its anniversary is left out.
CheckAnniversaries(j) ==
    /\ At(j, "anniversaries")
    /\ \/ /\ Become(j, Compose(jobs[j], "congratulate", {Anniversaries(Today)}))
          /\ UNCHANGED complete
       \/ End(j, TRUE)
    /\ UNCHANGED <<jobvars, filevars, posts>>

NextPost(j, r) ==
    CASE r.chats # {} -> Become(j, r) /\ UNCHANGED complete
      [] r.chats = {} /\ r.pc = "post" ->
            /\ Become(j, [r EXCEPT !.pc = "anniversaries", !.text = {}])
            /\ UNCHANGED complete
      [] OTHER -> End(j, r.failed)

\* SendNotification: a chat that cannot be reached does not stop the others.
SendNotification(j) ==
    /\ jobs[j].pc \in {"post", "congratulate"}
    /\ \E chat \in jobs[j].chats :
          LET rest == [jobs[j] EXCEPT !.chats = @ \ {chat}]
          IN  \/ Record(j, chat) /\ NextPost(j, rest)
              \/ /\ NextPost(j, [rest EXCEPT !.failed = TRUE])
                 /\ UNCHANGED posts
    /\ UNCHANGED <<jobvars, filevars>>

\* Its steps are in ActivityEngine.
EndPurge(j) ==
    /\ At(j, "purge")
    /\ Become(j, NoJob)
    /\ UNCHANGED <<jobvars, filevars, posts, complete>>

----------------------------------------------------------------------------
(* main.                                                                   *)

envvars == <<clock, created, filevars, overtaken, posts, complete>>

Start ==
    /\ main = "down"
    /\ main' = "up"
    /\ database' = "open"
    /\ timedOut' = FALSE
    /\ jobs' = [j \in Jobs |-> IF RunOnStartup /\ j = "startup"
                               THEN Begin(j, clock) ELSE NoJob]
    /\ UNCHANGED envvars

\* cancel() ends the polling only; a second of sleep follows.
Signal ==
    /\ main = "up"
    /\ main' = "signalled"
    /\ UNCHANGED <<envvars, database, timedOut, jobs>>

\* The deferred sched.Stop: cron starts nothing more.
StopCron ==
    /\ main = "signalled"
    /\ main' = "stopping"
    /\ UNCHANGED <<envvars, database, timedOut, jobs>>

Idle == \A j \in Scheduled : ~Running(j)

\* Mutant: it waits for as long as it takes.
StopWithoutLimit ==
    /\ main = "stopping"
    /\ Idle
    /\ main' = "stopped"
    /\ UNCHANGED <<envvars, database, timedOut, jobs>>

\* The jobs end, or ten seconds pass.
Stop ==
    /\ main = "stopping"
    /\ main' = "stopped"
    /\ timedOut' = ~Idle
    /\ UNCHANGED <<envvars, database, jobs>>

\* The other deferred call.
CloseDatabase ==
    /\ main = "stopped"
    /\ main' = "closed"
    /\ database' = "closed"
    /\ UNCHANGED <<envvars, timedOut, jobs>>

\* The process ends, and its goroutines with it.
Down ==
    /\ main' = "down"
    /\ database' = "closed"
    /\ jobs' = [j \in Jobs |-> NoJob]
    /\ UNCHANGED <<envvars, timedOut>>

Exit == main = "closed" /\ Down
Crash == main # "down" /\ Down

Shutdown == StopCron \/ Stop \/ CloseDatabase \/ Exit

Next ==
    \/ Tick
    \/ Scan
    \/ \E j \in Commands : BeginSync(j)
    \/ \E j \in Syncs :
          \/ ListNew(j)
          \/ SaveCache(j)
          \/ SaveStatus(j)
    \/ \E j \in Checks :
          \/ SelectNew(j)
          \/ CheckAnniversaries(j)
          \/ SendNotification(j)
    \/ EndPurge("purge")
    \/ Start
    \/ Signal
    \/ Shutdown
    \/ Crash

\* Neither the jobs nor the time that passes are fair.
Spec == Init /\ [][Next]_vars /\ WF_vars(Shutdown)

----------------------------------------------------------------------------
(* Properties.                                                             *)

\* A check of cron in which nothing fails shows every chat all the albums added
\* in the day before it, whenever the list and the clock are read, and whether
\* its sync lists the server or is skipped.  Those added in the first JobTime of
\* that day may be missing: the window counts from when the list is complete, and
\* the check before this one had its list by then.  So may those that a scan
\* added between the list of some sync and its save: the status that is saved
\* then (sync.go:292) vouches for a cache that lacks them.
NewAlbumsAreAnnounced ==
    \A fired \in complete, chat \in Chats, a \in DOMAIN created \ overtaken :
        created[a] \in fired - Window + JobTime + 1 .. fired - 1 =>
            Post(fired, chat, Album(a)) \in posts

\* What cron posts twice is an album that was added while the first of two
\* checks of consecutive days was running, and no anniversary.
PostedTwiceOnlyOverlapping ==
    \A p, q \in posts :
        p.item = q.item /\ p.fired < q.fired =>
            \E a \in DOMAIN created :
                /\ p.item = Album(a)
                /\ created[a] \in p.fired .. p.fired + JobTime
                /\ created[a] > q.fired - Window

\* The anniversaries that cron posts are those of the day on which it fired,
\* however long the list of new albums took, and every chat gets them when
\* nothing fails.
AnniversariesOfTheDay ==
    /\ \A p \in posts : \A d \in 0 .. Day(MaxClock) :
          p.item = Anniversaries(d) => d = Day(p.fired)
    /\ \A fired \in complete, chat \in Chats :
          Post(fired, chat, Anniversaries(Day(fired))) \in posts

\* Neither of the two scheduled jobs ever finds the database closed, unless it
\* took longer than sched.Stop waits: cron starts nothing between the wait and
\* the end, although it goes on for a second after the signal.
DatabaseOutlivesJobs ==
    database = "closed" /\ ~timedOut => \A j \in Scheduled : ~Running(j)

\* A signal ends the process, also when a job hangs.
ShutdownEnds == main = "signalled" ~> main = "down"
=============================================================================
