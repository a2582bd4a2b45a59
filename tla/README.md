# Verification of alpargotobot

alpargotobot is a Telegram bot for the users of a Navidrome music server. It
saves the Navidrome credentials of its users, caches their favourites,
recommends from them, keeps a local copy of the server's album list, and runs
a few dialogs (login, opt-out of `/nowplaying`, tickets) over Telegram. It is
one Go process with an SQLite file and two JSON files. Every update of
Telegram and every scheduled job runs in a goroutine of its own, so the state
is shared by any number of requests in progress.

This directory holds TLA+ models of the parts that keep state, the TLC
configurations that check them, and TLAPS proofs about all of them.
Source paths below are relative to the repository; line numbers of every
definition are in `PROJECT.json` under `map`.

- [Inventory](#inventory)
- [Modules and their correspondence to the code](#modules)
- [Runs](#runs), [bounds](#bounds) and [fairness](#fairness)
- [Where the code and its comments differ](#findings)
- [Proofs](#proofs)
- [Not modelled](#not-modelled)
- [Plan](#plan)

To repeat a run or the proofs, in this directory:

    tlc -workers 2 -config MCLibrarySync_skip.cfg MCLibrarySync
    tlapm LibrarySync_proofs.tla

The cfg of a run names its module (`MC<module>_<run>.cfg`); the modules with
theorems are `Recursion` and those that end in `_proofs`.

<a name="inventory"></a>
## Inventory

| Component | State | Operations | Talks to |
|---|---|---|---|
| `internal/activity` | `recentPickedUsers` with its mutex | sync a user, ensure freshness, recommend, validate all, random recommendation, purge | database, Navidrome |
| `internal/database` credentials, starred | tables `credentials`, `starred_cache` (foreign key, cascade) | upsert, list, delete, cached items, age of the cache | - |
| `internal/database` tickets, filters | tables `tickets` (AUTOINCREMENT), `nowplaying_filters` | add, list, close; set, remove, test | - |
| `internal/navidrome/client.go` | `musicFolderID` with its mutex | ping, favourites, scan status, album lists, details, last login | the Navidrome server |
| `internal/navidrome/sync.go` | cache file, status file | `LibrarySync` | client, file system |
| `internal/telegram/bot.go` | `authCache`, the maps of the dialogs | authorize a sender, send and split messages | Telegram |
| `internal/telegram/handlers.go` | `loginStates`, `npFilterStates` | route a message, `/login`, `/disable_np`, `/enable_np`, `/nowplaying`, `/search`, `/recent`, `/random` and other answers | all of the above |
| `internal/telegram/callbacks.go` | - | inline keyboards: recommendations, genres, years, tickets | engine, client, `LibrarySync` |
| `internal/telegram/tickets.go` | `ticketStates` | `/ticket`, `/tickets`, `/done` | tickets table |
| `internal/telegram/formatter.go` | - | layout of texts, `SplitMessage` | - |
| `internal/scheduler`, `cmd/bot` | the cron table, the deferred calls of `main` | start and stop jobs; daily sync, daily post, purge | engine, `LibrarySync`, bot, database |
| `internal/config`, `internal/crypto` | read once; none | environment variables; AES-GCM | - |

How they interact. A handler calls the engine, the client and the database
directly and waits for each; nothing holds a lock across such calls, except
the `mu` of the client (client.go:33), which guards the ID of the music folder.
The engine deletes and writes rows that other goroutines are using. `LibrarySync` is called by several commands and the
daily jobs, without a lock, on the same two files. A login leaves a background sync
behind. A shutdown waits ten seconds for the jobs, not at all for the handlers,
and then lets the process go with whatever is in progress.

What is hard, and what makes each part correct:

- **Activity engine.** Validation, purge, login and sync of one user interleave
  at every statement and request. Correct: only passwords that the server
  accepted are stored; a user is removed only for a reason; nothing is cached
  for a removed user; a sync leaves what the server returned; a random
  recommendation is neither the sender's own nor a recent pick when there is
  another; every request ends.
- **Library synchronization.** A sync may die between any two writes; two syncs
  may write at once; the server may scan meanwhile. Correct: a sync that is
  skipped returns what a full one would; what is written is the folder as
  listed, and current.
- **Authorization and dialogs.** Two messages of one sender are handled at
  once, each working on the copy of the dialog that it read. Correct: who is
  admitted was a member within the hour; a command ends the dialogs of the
  login and the opt-out; an answer takes the dialog further on every path; who
  has opted out is not shown by `/nowplaying`.
- **Answers.** Many handlers ask for the music folder at once, and one holds a
  write lock over its HTTP request; an answer is sorted and cut in one of four
  ways, formatted, cut into messages, and sent in pieces of which some fail.
  Correct: the ID is never read while it is written, and an error is returned to
  nobody who could have had the ID; unless a message is lost the chat shows just
  the albums asked for, in order; every handler ends.
- **The process and the daily job.** The job takes minutes, looks at the clock
  twice, and is cut short by restarts and shutdowns; its first run is unknown to
  the scheduler. Correct: a check in which nothing fails shows every chat the
  albums and anniversaries of its day; next to nothing is posted twice; no
  scheduled job meets a closed database; a signal ends the process.
- **Tickets.** Keyboards stay in the chat and their buttons can be pressed much
  later, by two senders at once. Correct: a button closes the ticket that it
  shows or none; a ticket is made of one dialog; it is reported closed once.

`PROJECT.json` lists each hazard at its line, with the properties that catch it
or the reason why none does.

<a name="modules"></a>
## Modules and their correspondence to the code

All the concurrent modules use one grain of atomicity: **one step is one
statement or transaction of the database (the pool has one connection), one
HTTP request at the instant when the server answers it, one access to a file,
or one critical section of a mutex.** The pure code between two such points
belongs to the step before or after. A goroutine is a member of `Workers`,
`Goroutines`, `Handlers` or `Callers`, or one of `Jobs`, with the step to come in `pc` and its local
variables in the same record; it serves one request after the other. An error
that the code handles is a disjunct of the step in which it can occur.
Locals are reset as soon as the code can no longer read them, which keeps the
state space small and changes nothing.

### The activity engine

| Module | What it is |
|---|---|
| `Vocabulary` | names shared by bot and server |
| `Database` | the tables `credentials` and `starred_cache`: one operator per statement |
| `NavidromeServer` | the accounts of the server, external: what its answers hold, and what its users do |
| `ActivityEngine` | the requests over both: `Init`, one action per step, `Next`, `Fairness`, `Spec`, the properties |
| `FavouritesRegistry` | the abstract specification of what the tables promise |
| `ActivityHistory` | adds which workers were overtaken by others, and the properties that need it |
| `ActivityEngine_proofs` | theorems |
| `Recursion` | induction over the numbers and over finite sets, for the proofs about this and the other components |
| `MCActivityEngine` | model values and symmetry |

| Actions | Code |
|---|---|
| `StartLogin`, `Ping`, `Store` | `handleLogin`, `processLogin` |
| `Fetch`, `UpsertType` (once per type) | `SyncUserStarred`, also in the background of a login |
| `StartRecommend`, `CheckSyncTime`, `ReadCredential`, `Serve` | `handleRecUserCallback`, `EnsureUserSynced`, `GetRecommendations` |
| `StartKeyboard`, `List`, `Validate`, `Verify`, `Evict` | `handleRecTypeCallback`, `ValidateAndGetUsers` |
| `StartRandom`, `ComputePool`, `Pick`, and a second draw in `Serve` | `GetRandomUserRecommendations` |
| `StartPurge`, `List`, `Inspect`, `Purge` | `runPurgeJob`, `PurgeInactiveUsers` |
| `Restart` | the end of the process; only the tables survive |

Data. A password is a version number, so a changed password never comes back; a
number above the current one is a wrong guess. Favourites are sets of items per
type. Encryption is lossless, so the row holds the password itself. The cutoff
of the purge (`time.Now()` before the loop) is taken at the instant of the
`ListUsers` right before it. Which of the cached items are shown is left out.
The answers of the server are taken as well-formed (`request` takes a 200
without `subsonic-response` for a success, client.go:104). The foreign key
holds because db.go:42 turns it on for the one connection of the pool.
`DeleteStarredItems` has no caller and is left out.

### The library

| Module | What it is |
|---|---|
| `LibrarySync` | `LibrarySync` with its two files, the folder lookup, and the server's scans (external) |
| `LibraryHistory` | adds what each sync could see while it listed, whether some sync ran into a scan, and which syncs met another one |
| `LibrarySync_proofs` | theorems |
| `MCLibrarySync` | model values and symmetry |

The actions follow the function from top to bottom: `CheckScanStatus`,
`ReadMeta`, `Skip` or `NeedsMigration`, `SaveStatus`, `Load`, `ListPage` (with
the folder lookup that precedes every page, and `Diff` after the last),
`FetchAlbumDetails` (the ten workers, in any order), `Reconstruct`, `Truncate`
and `WriteCache` (the two halves of `os.WriteFile`), `SaveScanStatus`.
`Restart` stops everything between any two of them.

Data. A list of albums is a set of entries with the ID, the date and whether
the size is known; the order of the file is that of a Go map, so the 20 entries
that the migration check looks at are any 20. `SaveStatus` saves the status
that was *read from the file*, as the code does: its comment, "Save current status
for next time" (sync.go:71), says something else, and a code that did what it
says would break `SkipIsTransparent` (mutant `ReadMetaForCurrent`). The status file
is written in one step: its content is a few bytes, and a failure leaves the
old, the new or no readable status. An album has songs; one without would be
fetched at each sync. Production never passes `force`; the tests do, and the
`list` run has both values.

### Messages

| Module | What it is |
|---|---|
| `BotTables` | the tables `tickets` and `nowplaying_filters`: one operator per statement |
| `MessageHandlers` | routing, authorization, the dialogs of `/login`, `/disable_np`, `/enable_np` and `/ticket`, `/done`, `/nowplaying` |
| `MessageHandlers_proofs` | theorems |
| `MessageHistory` | adds which updates met another one of their sender, the last membership, who has been opted out since a request arrived, the titles asked for, the reports of closing |
| `MessageHistory_proofs` | theorems |
| `MCMessageHandlers` | model values and symmetry |

| Actions | Code |
|---|---|
| `ReceiveMessage`, `PressTicketType`, `PressTicketDone` | the library calls `handleUpdate` in a new goroutine |
| `CancelLogin`, `CancelNP`, `ReadLogin`, `ReadNP`, `ReadTicket` | `handleMessage`, one per critical section |
| `Authorize`, `Ask`, `Remember` | `isAuthorized`: read the cache, `GetChatMember`, write the cache |
| `Dispatch` | the end of `handleMessage` |
| `BeginLogin`, `AskPassword`, `TakePassword` | `handleLogin`, `handleInteractiveLogin` (`processLogin` is in `ActivityEngine`) |
| `BeginNP`, `TakeNPPassword`, `Check`, `Prompt`, `Cleanup`, `Ping`, `Write` | `startNPFilterFlow`, `handleInteractiveNPFilter`, `checkAndPromptNPPassword` with its deferred function, `processNPFilter` |
| `NowPlaying`, `ReadFilters`, `Show` | `handleNowPlaying` |
| `Begin`, `SetTitle`, `TakeDescription`, `SaveTicket` | `handleTicketTypeCallback`, `handleTicketInput` |
| `Keyboard`, `Close`, `Confirm` | `handleCloseTicket`, `handleTicketDoneCallback` |
| `Tick`, `JoinOrLeave`, `Restart` | time, the group, the process |

Data. A text is one word or blank; a command carries the words that it looks
at. A username stands for its spellings in upper and lower case (`COLLATE
NOCASE`). There is one authorized group, and a command in it is sent in a topic
that allows it. `GetChatMember` answers sooner than the unit of the clock.
`/help` stands for all the commands that change nothing. The keyboard of
`/ticket` may be pressed at any time, as it stays until somebody does. A text
that starts with a space and a slash (cancelled like a command, routed like a
text, so that it can answer the dialog of a ticket, handlers.go:81) and the
replies to `/search` are left out.

**Impatient senders.** The code reads a dialog under the mutex, calls Telegram,
and writes the dialog back under the mutex. With two messages of one sender in
progress the second read sees the old step, so a password can be taken for a
username, and a command's cancellation can be overtaken by the write of the
message before it: the sender stays in the dialog just cancelled, or in two at once, until the
next command. `CommandsCancelLoginAndOptOut` and `AnswersMoveOn` are therefore stated
for updates that meet no other one of their sender (`crowded` has those that
do), whatever the sender did before: the next command that is waited for does end
every trap. An answer of a sender in two dialogs is taken for the first of
them only, so `AnswersMoveOn` excepts it. `TypeOK`, `AdmittedWereMembers` and the
properties of tickets are about crowded updates too.

**Tickets and commands.** Of the three dialogs a command ends two: `ticketStates`
is not touched (handlers.go:34), in a private chat as little as in the group, and the
next text that is no command goes to the ticket. `CommandsCancelLoginAndOptOut`
says what its name says and nothing of tickets; the `private` run has none.

**Opt-outs.** `/nowplaying` reads the opt-outs between the answer of Navidrome
and a `LibrarySync` that may take minutes. Who opts out meanwhile is still
shown; who had opted out before it was asked for is not, unless the opt-outs
cannot be read, in which case everybody is shown (handlers.go:453).
`OptOutsAreHonoured` excepts that case, with the local `err` of the handler,
which the model keeps for it until the answer is sent.

**Refusals.** An error of `GetChatMember` is cached as "not a member" for the
hour. The advice in the refusal, to send a message in the group first
(bot.go:291), has no effect on that: in a group `isAuthorized` returns before
it reaches the cache. The model has both; only the positive side
(`AdmittedWereMembers`) is a property.

### Answers

| Module | What it is |
|---|---|
| `MusicFolder` | `GetMusicFolderID` with its `sync.RWMutex`, step by step |
| `FolderAnswers` | the abstract specification of it: an answer at one instant of the call |
| `MessageText` | the texts of `formatter.go` as sequences of blocks, and `SplitMessage` |
| `Answers` | the handlers that answer with albums, over the three above |
| `MusicFolder_proofs`, `Answers_proofs` | theorems |
| `MCAnswers` | values for TLC |

| Actions, operators | Code |
|---|---|
| `CallFolder`, `RLock`, `Check`, `ReadUnlocked`, `Lock`, `Recheck`, `Request`, `ReturnFolder` | `GetMusicFolderID` (client.go:121) |
| `Receive`, `Query` | `/search`, `/year`, `/recent`, the recommendations: the query over the library or the favourites |
| `List` | `GetRandomAlbum`, `GetAlbumsByGenre` |
| `SearchAlbums`, `GetAlbumsByYear`, `Recent`, `Random` | the functions of these names, `handleRecent`, `handleGenreCallback` |
| `FormatAlbumList`, `FormatResults`, `FormatRecommendations`, `FormatSuggestion` | the texts |
| `SplitMessage`, `AddBlock`, `ForceSplit` | `SplitMessage` (formatter.go:173) |
| `SendPhoto`, `SendMedia`, `SendChunk` | `handleRandom`, `sendMediaOrText`, `SendMessage` |
| `Restart` | the process |

Data. A text is the sequence of its blocks, which are what `SplitMessage` gets
from `strings.Split(text, "\n\n")`; a block is a length and the albums that it
shows, and the block after a separator at the end is empty. Which albums match a
query is any set; `math/rand` and `sort.Slice` on equal keys are any choice.
Items of all kinds are albums: a song is a line like an album. A caption loses
the newline at its end. The heading of an answer is assumed to fit a message
(`IntroSize <= MaxLength - Separator`), as all headings of the code do, so the
branch of `SplitMessage` that cuts a block in two, which only a block in front of
all others reaches, is modelled but not reached. On a block that is too long only
with its separator that branch would panic (`album[:maxLength]`, formatter.go:201):
the model has an empty chunk there (`OutOfRange`), and no property depends on it.

A block that is over the limit by itself and follows another (formatter.go:198)
goes out as a message of its own, which Telegram refuses: the model lets it be
lost, and `OnlyBlocksOverflow` says that this is the only message that is too
long. The results of `/search` are one block of up to fifty lines, so a long list
reaches the limit: see [`overflow`](#findings).

### The process and the daily job

| Module | What it is |
|---|---|
| `DailyJob` | `main`, cron, the daily check with its posts, and the shutdown |
| `DailyJob_proofs` | theorems |
| `MCDailyJob` | model values |

| Actions | Code |
|---|---|
| `Start`, `Signal`, `StopCron`, `Stop`, `CloseDatabase`, `Exit` | `main` with its deferred calls in their order, `Scheduler.Stop` |
| `Tick` | time, and the entries of cron that are due |
| `ListNew`, `SaveCache`, `SaveStatus` | `LibrarySync`: skipped, or with its list and the two files |
| `BeginSync` | the syncs of the commands (sync.go:388, handlers.go:471), and of the anniversaries |
| `SelectNew` | `runDailyJob`: `GetNewAlbums` with its look at the clock |
| `CheckAnniversaries` | `runDailyJob`: `GetAnniversaryAlbums` |
| `SendNotification` | `SendNotification`: one chat after the other |
| `EndPurge` | `runPurgeJob`, whose steps are in `ActivityEngine` |
| `Scan`, `Crash` | the server, the process |

Data. The clock counts in parts of a day, of which a day has `Window`; a job
takes up to `JobTime`. `created` of an album is the moment at which the server
has it, as Navidrome sets it. The anniversaries of a day are one item, and that
there may be none is left out.

A `LibrarySync` has here the steps at which it meets the other syncs of the
process: the list of the server at one instant, the write of the cache, and the
write of the status. It is skipped when the status in the file is the server's
(`saved`) and the cache can be read, and then its list is the cache, which may be
older. `saved` says that the file *may* hold that status: a failed write, or
that of the older status at the beginning of a sync (sync.go:71), leads to a full
list, which is allowed at any time. A scan makes another status. What goes on inside
the list is in `LibrarySync`. The sync of the anniversaries is one step of the check, as
nothing of its result is looked at; what it does to the files is done by `Commands`.

What the properties of the daily post leave open, because the code does:

- An album added *while a check runs* may be announced by this check and by the
  next, or by neither: the 24 hours count from the instant after the sync
  (sync.go:316), not from the last check. `NewAlbumsAreAnnounced` and
  `PostedTwiceOnlyOverlapping` bound which albums these are.
- An album that a scan adds *between the list of some sync and the save of its
  status* may never be announced: the status says that the cache is current
  (sync.go:292), the syncs are skipped until the next scan, and by then the 24 hours
  may be over. `NewAlbumsAreAnnounced` excepts just these albums (`overtaken`).
- What was due while the process was down, and what failed, is not made up for.
- The check at the start repeats what an earlier check has posted
  (main.go:163); what it posts is therefore not part of `posts`. `sched.Stop`
  does not wait for it, so it may find the database closed, like a job that
  takes longer than the ten seconds (`timedOut`).
- On a schedule less than `JobTime` before midnight the anniversaries would be
  those of the next day (main.go:115). `DailyAssumption` excludes it, and days
  with a change to or from daylight saving time. That the local zone of the
  process, by which the job reads the day, is the zone of the schedule
  (`TIMEZONE`, config.go:122) is not in `DailyAssumption` but in the model, which has
  one clock: both compose files set `TZ`; a process with only `TIMEZONE` set
  is not covered.

<a name="runs"></a>
## Runs

| Run | Question | Properties |
|---|---|---|
| `favourites` | may concurrent logins, validations and purges store or remove the wrong credentials, and does the cache stay consistent with them and with the server? | `CacheOwned`, `SavedPasswordsWereAccepted`, `RemovedForCause`, `SyncCachesSnapshot`, `ImplementsRegistry` |
| `random` | who is recommended at random? | `NeverTheCaller`, `RecentsDistinct`, `PickAvoidsRecent` |
| `finish` | does every request end, and has every step the locals that it needs? | `TypeOK`, `RequestsFinish` |
| `skip` | is it safe to skip a sync, and does a sync leave its result to the next one? | `TypeOK`, `SkipIsTransparent`, `SyncUpdatesCache` |
| `list` | is what a sync writes right? | `SyncSeesLibrary`, `WritesCurrentEntries` |
| `private` | who is admitted in private, where do the dialogs of login and opt-out stand, and are opt-outs honoured? | `TypeOK`, `AdmittedWereMembers`, `CommandsCancelLoginAndOptOut`, `AnswersMoveOn`, `OptOutsAreHonoured` |
| `tickets` | do dialogs and old buttons mix up tickets? | `TicketsOfOneDialog`, `ButtonsShowTheirTicket`, `ClosedOnce` |
| `answers` | does the chat show what was asked for, and does everybody get an answer? | `TypeOK`, `NobodyWritesUnderRead`, `OnlyBlocksOverflow`, `AnswersAreComplete`, `ImplementsFolderAnswers`, `AnswersEnd` |
| `daily` | what do the chats get day by day, and what do the jobs find while the process stops? | `TypeOK`, `NewAlbumsAreAnnounced`, `PostedTwiceOnlyOverlapping`, `AnniversariesOfTheDay`, `DatabaseOutlivesJobs`, `ShutdownEnds` |
| `relogin`, `partial`, `overflow` | see [below](#findings) | `EvictsRejectedOnly`, `FreshMeansRecent`, `MessagesFit` |

Every property of a passing run has a mutant in `PROJECT.json`: a definition
of the model, changed as a plausible bug would change the code (a missing
cascade, an unlooked-at answer, a title written to the wrong dialog), under
which the same run finds the property violated. The mutated forms stand next to
the originals, marked `Mutant`.

Some properties claim less than one might expect, because the code does less:

- `RemovedForCause` accepts that the credentials changed between the rejected
  ping and the deletion, or that the user signed in between the inspection and
  the purge. The stronger form fails (`relogin`).
- `SyncCachesSnapshot` is about syncs whose rows nobody else changed meanwhile.
  Two syncs of one user may leave the songs of one and the albums of the other.
- `PickAvoidsRecent` is about picks that nobody overtook between the choice of
  the pool and the update of the memory, where the lock is released.
- `SkipIsTransparent` is about histories in which no sync ran into a scan,
  listed a page without the folder filter, or found the folder empty.
  `SaveScanStatus` records the status of the server even in the middle of a
  scan, so a cache that missed an album can be taken for current until the next
  scan ends. What that costs the daily post is in `NewAlbumsAreAnnounced`.
- `SyncUpdatesCache` excepts the list that is empty: it is returned but not
  written (sync.go:274), and its status is saved. It is about syncs that met no
  other one: two at once write the file by turns, and a reader may find
  the list of the other, or nothing that can be read.
- `OptOutsAreHonoured` is about answers for which the opt-outs could be read.
- `AnswersAreComplete` is about answers of which no message was lost. A group of
  photos whose caption is too long, or that is refused, is not sent as a text
  instead (callbacks.go:321).
- The properties of `DailyJob` are bounded as said [above](#modules).

<a name="bounds"></a>
### Bounds

| Runs | Instance | Why it is enough |
|---|---|---|
| `favourites` | 1 user, 2 workers, 2 passwords, 4 instants, inactive after more than 1, 1 item, all or some types | a race needs two workers on one user; two snapshots that differ in two types; a sign-in that is too long ago, one that is not, and one between the inspection and the purge. That no other user is touched is in the theorems |
| `random` | 3 users, 2 workers, memory of 2 | the smallest in which caller, recent picks and the fallback all differ |
| `finish` | 2 users (1 on the first page of the server's list), 1 worker, all kinds of requests | steps do not wait for other workers, so one suffices; two users allow the second draw |
| `relogin`, `partial`, `overflow` | the smallest instances with a counterexample | |
| `skip` | 2 albums (1 in another folder), 2 goroutines, 1 more scan | two writers of the two files and a server that has moved on |
| `list` | 2 albums, pages of 1, 1 goroutine, expiry at 2 of 3 instants | a page boundary within the list; an entry just before and just after its expiry. No album is in another folder, which would leave one page, or need a third album; `skip` has one, and `ListsAreComplete` any |
| `private` | 1 sender, private and group, 2 handlers, 1 word, 3 instants, an hour of 2 | the state of a dialog is per sender; username and password that differ only matter to `Accepts`; the refused `/nowplaying` stands for `/help` |
| `tickets` | 1 sender, 2 handlers, 1 word, both types, 2 tickets | a ticket closed and another opened under an old keyboard; two dialogs of different types |
| `answers` | 3 albums (1 in another folder) of lengths 2, 3 and 9 in different orders by name and by date, messages of 8, captions of 9, 2 handlers, one for all kinds of requests and one for `/random` | one album that fits no message, two that do not fit one together with the heading; two callers are what the lock and its double check need; what one sends does not depend on the other |
| `daily` | 1 album, 2 chats, 1 command, days of 3, checks at 1 and 4, a purge at 3, jobs of up to 1, no check at the start | two checks of consecutive days, an album before, during or after either of them, a sync of a command that leaves the cache of an earlier day, a chat that fails and one that does not. Both compose files set `RUN_ON_STARTUP=false`; the theorems have both values |

`MaxClock`, `MaxPassword`, `MaxScans` and `MaxTickets` cap counters in guards.
`JobTime` bounds what a job takes. `Kinds`, `Events`, `Chats`, `Forces`, `AskedTypes`, `Favourites` and `Joiners` choose
which inputs arrive in a run. Workers, goroutines and handlers are symmetric in
the runs that use more than one and check no liveness.

Deadlock is checked in all runs. There is none: an idle goroutine can always
take a request, and the process can always be started or die.

<a name="fairness"></a>
### Fairness

Three properties need it. Nothing is assumed of users, server and time: arrivals
and the environment have no fairness.

- `RequestsFinish`: weak fairness of `Proceed(w)` for each worker. The Go
  scheduler runs a goroutine that can run; no step waits for another worker (the
  mutex of the recent picks and the one connection are released without waiting
  for anything else), and an HTTP request ends after the 30 seconds of the
  client's timeout.
- `AnswersEnd`: weak fairness of `Proceed(w)` likewise, and strong fairness of
  `RLock(w)` and `Lock(w)`, which other handlers disable again and again:
  `sync.RWMutex` blocks new readers while a writer waits and lets the waiting
  readers in when it is done, so it starves neither.
- `ShutdownEnds`: weak fairness of `Shutdown`, the rest of `main` after the
  signal. The jobs are not fair: one may hang for ever, and the process ends all
  the same.

<a name="findings"></a>
## Where the code and its comments differ

- **`relogin`** (activity.go:135). Validation pings with the password it read
  and deletes by username. A login with the new password in between is lost,
  and with it the favourites.
- **`partial`** (starred.go:108). A sync stores three types in three
  transactions and its age is the youngest of them. A sync that stops after the
  first makes the other two count as fresh.

- **`overflow`** (formatter.go:198). `SplitMessage` looks at the length of a
  block only when it opens the first message. A block that follows another and
  is over the limit goes out whole, and the results of `/search` are one block of
  up to fifty lines after their heading. Telegram's own limit counts the
  characters after the tags are parsed, so it is a list of long titles that is
  refused, and the sender gets the heading alone.

Four more places do less than one may expect; no comment of the code says
otherwise, so the properties accept them:

- `/nowplaying` shows everybody when the opt-outs cannot be read
  (handlers.go:453).
- A command leaves the dialog of a ticket as it is (handlers.go:34): the sender
  is in it until a text answers it.
- The last login is looked up in the first 100 entries of the native user list
  (client.go:442). The model has the page (`OnFirstPage`), and on a larger
  server an active user beyond it is purged like one that does not exist.
- A list that has become empty is not written, its status is, and later syncs
  are skipped (sync.go:274): the deleted albums stay in the cache.

<a name="proofs"></a>
## Proofs

`ActivityEngine_proofs` proves, for any sets of users, items, workers and
Telegram accounts and for any values of the bounds:

| Theorem | Statement |
|---|---|
| `TypeCorrect` | `Spec => []TypeOK` |
| `CacheIsOwned` | `Spec => []CacheOwned` |
| `PasswordsWereAccepted` | `Spec => []SavedPasswordsWereAccepted` |
| `RemovalsHaveACause` | `Spec => RemovedForCause` |
| `RegistryIsImplemented` | `Spec => ImplementsRegistry` |
| `CallerIsExcluded` | `Spec => []NeverTheCaller` |
| `RecentsAreDistinct` | `Spec => []RecentsDistinct` |
| `SyncsCacheTheirSnapshot` | `HSpec => SyncCachesSnapshot` |
| `PicksAvoidRecent` | `HSpec => PickAvoidsRecent` |

They rest on `NoUserAssumption`, `ServerAssumption` and `EngineAssumption`,
which TLC evaluates in each run of the engine.

The argument. None of the three safety invariants is inductive.
`SavedPasswordsWereAccepted` needs that a worker at `Store` holds a password
that was accepted; `RemovedForCause` needs that a worker at `Evict` or `Purge`
holds a reason; and a reason must survive the steps of everybody else. `Inv`
is the type invariant, `CacheOwned`, `SavedPasswordsWereAccepted` and
`Justified(job[w])` for each worker. Passwords of the server only grow, so an
accepted password remains one that was accepted and a rejected one remains
rejected: `ServerStepKeepsJustified`. A worker changes its own job only
(`WorkerChangesOnlyItsJob`), and becomes justified by the step that takes it
to `Store`, `Evict` or `Purge` (`WorkerStaysJustified`). The tables are
touched by four actions only (`WorkerWrites`), and `CacheOwned` rests on the
foreign key at the insert and the cascade at the deletion. `NextInv` combines
them.

The refinement maps the domain of `credentials` to `registered` and the users
in `starred_cache` to `held`. A step of a worker changes one user
(`OneUserAtATime`): a store registers, a deletion forgets, an upsert holds or
lets go, and everything else stutters (`NextRefinement`).

`NeverTheCaller` needs that the pool excludes the caller from the moment it is
computed (`WorkerDrawsFromThePool`). `RecentsDistinct` is inductive; what takes
work is the memory itself, from which a user who is picked again is removed
before it is added (`Memorize`). `SyncCachesSnapshot` is about the end of
a sync, and `SyncInv` about its whole course: the types behind a worker that
nobody has overtaken hold what the server returned (`Stored`), as the upsert of
one type replaces the rows of that type and touches no other (`UpsertReplaces`).
`PickAvoidsRecent` needs that the pool of a worker that is about to pick is the
one that the memory would give now (`PickInv`), and that a memory of at most as many
users as the code keeps has only users that were picked lately
(`RecentIsLately`).

`MessageHandlers_proofs` and `MessageHistory_proofs` prove, for any senders,
handlers and words, any number of tickets and any age of the entries of the
cache, from `TablesAssumption`, `MessagesAssumption` and `NoWordAssumption`:

| Theorem | Statement |
|---|---|
| `TypeCorrect` | `Spec => []TypeOK` |
| `ButtonsNeverLie` | `Spec => []ButtonsShowTheirTicket` |
| `OnlyMembersAreAdmitted` | `PrivateSpec => AdmittedWereMembers` |
| `OptedOutAreNotShown` | `PrivateSpec => OptOutsAreHonoured` |
| `ReportedClosedOnce` | `TicketSpec => []ClosedOnce` |
| `TitlesWereAskedFor` | `TicketSpec => []TicketsOfOneDialog` |
| `CommandsEndLoginAndOptOut` | `PrivateSpec => CommandsCancelLoginAndOptOut` |
| `AnswersTakeDialogsOn` | `PrivateSpec => AnswersMoveOn` |

The argument. *Types.* `TypeOK` alone is not inductive: `TypeInv` adds what a
handler holds where it is (`TypedAt`), so that a handler at `title` has the state
of that step and a word, and one at `add` has a title. *Buttons.* A ticket
could be saved under the id of an old button. `ButtonInv` adds that all the ids
in the table and on the buttons have been given (`IdsWereGiven`), and
AUTOINCREMENT gives the next one (`AddTicketKeepsButtons`). *Where steps lead.*
A step is of one handler and changes its own update only (`OneHandler`), and
there is one way each to the places that the other properties look at
(`OneWay`). *Admission.* An entry of the cache that says "member" is no younger
than the last instant in the group (`EntriesAreOld`), as an answer of Telegram
is cached within the instant (`AnswersAreNew`); the hour is that of the entry,
which a use does not renew. *Opt-outs.* What a handler is about to show is
apart from who remained opted out since the request (`ShownAreVisible`).
*Reports.* A ticket that is reported, or about to be, is gone for good: its id
was given and is not in the table (`Gone`), and one handler at most holds the
report (`ReportedOnce`). *Titles.* On its way to the table a title is held by
the handler that read it, by the dialog, and by the handler that reads the
description (`Carries`, `DialogsCarry`); a handler keeps what it read until it
ends (`Keeps`). *Dialogs.* The last two speak of the step that ends an update,
and of whatever the handler has done before it. `DialogInv` says where an update
of its kind may be (`Placed`), and of an update that met no other one that its
handler is the only one of this sender and what it has read of the two
dialogs, or cleared, by now (`Alone`, `Cleared`). `ProceedLeaves` has what each
step of the handler does to that, and `StaysCleared` that nobody else touches the
dialogs of its sender.

`LibrarySync_proofs` proves, for any library, page size, expiry and number of
syncs at once, from `LibraryAssumption`:

| Theorem | Statement |
|---|---|
| `TypeCorrect` | `Spec => []TypeOK` |
| `ListsAreComplete` | `ViewSpec => []SyncSeesLibrary` |
| `EntriesAreFresh` | `ViewSpec => []WritesCurrentEntries` |
| `SkipsMissNothing` | `SuspectSpec => SkipIsTransparent` |
| `CacheHoldsTheResult` | `SuspectSpec => SyncUpdatesCache` |

The argument. *Pages.* An album has a rank in what the server lists, and the
pages up to an offset are the albums up to that rank: the next page adds those
up to the next offset (`OnePageFurther`), and an empty page means that there
are no more (`LastPage`). `Lists(r, albums)` says what the locals of a sync owe
to these albums at each step: the pages so far, then the kept entries with
those to be fetched, then the result; `ListingGoesOn` is one step of it.
*What is written.* `ViewInv` says of each sync that it lists what it could see,
and that its entries are current since the end of the list (`Seen`). *What is
skipped.* `SkipIsTransparent` is about the two files and speaks of one instant;
its invariant, `SuspectInv`, is about all the statuses that may still get into
the file. None of them is ahead of the server (`StatusInv`), and one that is
the server's own vouches for the cache (`Vouched`): whoever holds it has it from
the file, or from the end of a sync that wrote this cache. It needs that a sync
saves the status that it read from the file, and that a truncated cache cannot
be read. *What is left behind.* While a sync runs alone nobody else touches the
cache, and from the write of the file to the end of the sync what can be read from it
is the result (`AloneInv`, `WrittenBy`).

`MusicFolder_proofs` proves `FolderIsReadSafely` and `FolderIsAtomic`, for any
number of callers: `NobodyWritesUnderRead` and the refinement of
`FolderAnswers`. Both rest on `LocksAreHeld` (who is where holds what, and the
lock excludes) and `AnswersAreTrue`: who asks the server holds the lock since it
saw that the ID is unknown, which is the double check. `Answers_proofs` carries
them over to the handlers, `HandlersReadFolderSafely` and
`HandlersAskAtomically`: each step of theirs is one of `MusicFolder` or leaves
it alone (`AnswersFollowFolder`). It also proves, from `AnswersAssumption`, for any
library, handlers, limits and lengths:

| Theorem | Statement |
|---|---|
| `TypeCorrect` | `Spec => []TypeOK` |
| `BlocksOverflowAlone` | `Spec => []OnlyBlocksOverflow` |
| `ChatsShowTheAnswer` | `Spec => []AnswersAreComplete` |

The argument. `AnswerInv` says of each handler that what it shows on photos is
an answer to the request, and that so is what it has told together with what
the chunks show that are still to be sent (`Truthful`); each of them fits a
message or is a single block (`Fits`). That the chunks show what the text shows,
and that the text shows the albums of the answer, is about `SplitMessage` and the
formatters, which are folds: `SplitSteps` states what is true of `SplitMessage`
after each block, and `SplitShows` and `SplitFits` draw the two
conclusions from it. Sorting and cutting is about sequences without repetition
(`ShuffledLists`, `FirstOfLists`).

*Folds and recursive functions.* The library proves induction with theorems
about an operator `P(_)`, which no prover here can instantiate, and a recursive
function of TLA+ satisfies its equation only if some function does.
`Recursion` has both in first-order form: the numbers of which a statement holds
are a set, and if it is not all of `0..N` its complement has a least element
(`SmallestOf`, `InductionUpTo`); and a recursion of finitely many steps has a
solution, built number by number. A proof about a fold unrolls it to the
sequence of its intermediate values (`SumSteps`, `SplitSteps`) and goes on by
induction along that.

`DailyJob_proofs` proves, from `DailyAssumption`, for any schedule, window and
duration of the jobs, any number of chats and albums:

| Theorem | Statement |
|---|---|
| `TypeCorrect` | `Spec => []TypeOK` |
| `NewAlbumsReachEveryChat` | `Spec => []NewAlbumsAreAnnounced` |
| `PostsAreRarelyRepeated` | `Spec => []PostedTwiceOnlyOverlapping` |
| `AnniversariesAreOfTheDay` | `Spec => []AnniversariesOfTheDay` |
| `JobsFindTheDatabaseOpen` | `Spec => []DatabaseOutlivesJobs` |

The properties speak of posts and of checks that are over. `FilesOK` says of
the files that while the saved status may be the server's, or some sync is about to
save it, a cache that can be read lacks no album but those `overtaken`, and that
a list on its way to the cache lacks no others. `DailyOK` says for
each point of a check in progress what its list, its text and the chats that it
has reached owe to the instant at which it fired; `PostsOK` and `CompleteOK` say
the same of what is left behind, and `ShutdownOK` relates `main`, the jobs and
the database. That two checks announce one album only when it was added during
the first follows from the instants alone, by what a day is (`Division`).

Only model-checked:

- liveness (`RequestsFinish`, `AnswersEnd`, `ShutdownEnds`), out of the prover's
  reach, and with it the fairness on which it rests;
- the disagreements of the last three runs, which are counterexamples.

Every invariant and every action property of the passing runs has a theorem.

<a name="not-modelled"></a>
## Not modelled

- `/stats`, `/help`, `/genres`, `/tickets` and the greeting of new members: they
  read and format, and keep nothing.
- Topic routing, message threads and the rows of the keyboards.
- `FormatSize`, tags, dates and languages in the texts: a text is blocks with a
  length and the albums that they show.
- The upper and lower case of a username: the column compares in the case of
  ASCII (`NOCASE`), `/nowplaying` in that of Unicode (`strings.ToLower`), and
  they agree on names in ASCII.
- HTTP, JSON, token hashing, AES-GCM, configuration, schema migration.
- The inside of the cron library, of SQLite and of the Telegram library: what the
  code relies on is stated where it is used.
- The composition of the modules into one: they share only what one of them
  owns, and each has the steps of the others on it as actions of its own (the
  purge of the daily jobs, the folder lookup and the restart).

<a name="plan"></a>
## Plan

Done, in this order: `ActivityEngine` with `FavouritesRegistry` and its proofs;
`LibrarySync`; `MessageHandlers`; the folder lookup and the answers with albums;
the daily job, the scheduler and the shutdown; `SplitMessage`; the proofs about
the library, the lookup and the daily job; the opt-outs as `/nowplaying` applies
them; the proofs about messages; the snapshots, the memory of the picks, the cache
of a sync that runs alone, the dialogs of senders who wait, and the answers with
their folds.

Next:

1. The rows of the keyboards, and the routing of topics.
2. What a list with a page of another folder still has of the folder
   (sync.go:110), and how long a status saved during a scan misleads
   (sync.go:292).
