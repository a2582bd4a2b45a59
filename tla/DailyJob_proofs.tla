---------------------------- MODULE DailyJob_proofs ----------------------------
(***************************************************************************)
(* Theorems about DailyJob, for any schedule, any window and any duration  *)
(* of the jobs that DailyAssumption allows.                                *)
(*                                                                         *)
(* The properties speak of posts and of checks that are over; the          *)
(* invariant says, for each point of a check in progress, what its list,   *)
(* its text and the chats it has reached owe to the instant at which it    *)
(* fired.  For the lists of the syncs, of which one may be the cache of an *)
(* earlier one, it says that they lack no album but those that a scan      *)
(* added behind the back of some sync.                                     *)
(***************************************************************************)
EXTENDS DailyJob, TLAPS

\* The albums that every sync lists.
Known == DOMAIN created \ overtaken

Due(fired, a) ==
    a \in Known /\ created[a] \in fired - Window + JobTime + 1 .. fired - 1

Announced(fired) ==
    \A chat \in Chats, a \in DOMAIN created :
        Due(fired, a) => Post(fired, chat, Album(a)) \in posts

\* What a check that fired then may post.
Newly(fired, i) ==
    \E a \in DOMAIN created :
        /\ i = Album(a)
        /\ created[a] > fired - Window
        /\ created[a] <= fired + JobTime

DailyOK(r) ==
    /\ r.pc # "idle" => r.fired \in Daily
    /\ r.pc = "select" =>
          \A a \in Known : created[a] < r.fired => a \in r.albums
    /\ r.pc = "post" =>
          /\ \A i \in r.text : Newly(r.fired, i)
          /\ \A a \in DOMAIN created : Due(r.fired, a) => Album(a) \in r.text
    /\ r.pc = "congratulate" => r.text = {Anniversaries(Day(r.fired))}
    /\ r.pc \in {"post", "congratulate"} /\ ~r.failed =>
          \A chat \in Chats \ r.chats, i \in r.text :
             Post(r.fired, chat, i) \in posts
    /\ r.pc \in {"anniversaries", "congratulate"} /\ ~r.failed =>
          Announced(r.fired)

JobOK(j) ==
    /\ Running(j) /\ j \notin Commands =>
          jobs[j].fired <= clock /\ clock <= jobs[j].fired + JobTime
    /\ jobs[j].albums \subseteq DOMAIN created
    /\ j = "daily" => DailyOK(jobs[j])

InStatus == \E j \in Syncs : jobs[j].pc = "status"

FilesOK ==
    /\ cache \subseteq DOMAIN created
    /\ \A j \in Syncs :
          jobs[j].pc \in {"save", "status"} => Known \subseteq jobs[j].albums
    /\ readable /\ (saved \/ InStatus) => Known \subseteq cache

TimesOK == clock <= MaxClock /\ \A a \in DOMAIN created : created[a] \in Nat

PostsOK ==
    \A p \in posts :
        /\ p.fired <= clock
        /\ Newly(p.fired, p.item) \/ p.item = Anniversaries(Day(p.fired))

CompleteOK ==
    \A fired \in complete :
        /\ fired <= clock
        /\ Announced(fired)
        /\ \A chat \in Chats :
              Post(fired, chat, Anniversaries(Day(fired))) \in posts

ShutdownOK ==
    /\ (database = "closed") <=> main \in {"down", "closed"}
    /\ main = "down" => Idle
    /\ main \in {"stopped", "closed"} /\ ~timedOut => Idle

Inv ==
    /\ TypeOK
    /\ TimesOK
    /\ \A j \in Jobs : JobOK(j)
    /\ FilesOK
    /\ PostsOK
    /\ CompleteOK
    /\ ShutdownOK

----------------------------------------------------------------------------
(* Days.                                                                   *)

LEMMA Division ==
    ASSUME NEW x \in Nat, NEW w \in Nat \ {0}
    PROVE  x \div w \in Nat /\ w * (x \div w) <= x /\ x < w * (x \div w) + w
  OBVIOUS

LEMMA DayOfLater ==
    ASSUME NEW x \in Nat, NEW y \in Nat, x <= y
    PROVE  Day(x) \in Nat /\ Day(y) \in Nat /\ Day(x) <= Day(y)
  BY DailyAssumption DEF Day

LEMMA NextDayIsAnother ==
    ASSUME NEW x \in Nat, NEW y \in Nat, x + Window <= y
    PROVE  Day(x) # Day(y)
<1> DEFINE d == Day(x)
<1>1. /\ d \in Nat /\ Window \in Nat \ {0} /\ Window * d \in Nat
      /\ Window * d <= x
  BY Division, DailyAssumption DEF Day
<1>2. SUFFICES ASSUME Day(y) = d PROVE FALSE
  OBVIOUS
<1>3. y < Window * d + Window
  BY <1>2, Division, DailyAssumption DEF Day
<1> HIDE DEF d
<1> QED
  BY <1>1, <1>3

LEMMA ChecksAreDaysApart ==
    ASSUME NEW s \in Daily, NEW t \in Daily, s < t
    PROVE  s \in Nat /\ t \in Nat /\ s + Window <= t
<1>1. s \in Nat /\ t \in Nat /\ Window \in Nat /\ t - s >= Window
  BY DailyAssumption
<1> QED
  BY <1>1

LEMMA ItemsDiffer ==
    /\ \A a, b : Album(a) = Album(b) => a = b
    /\ \A a, d : Album(a) # Anniversaries(d)
    /\ \A d, e : Anniversaries(d) = Anniversaries(e) => d = e
  BY DEF Album, Anniversaries

----------------------------------------------------------------------------
(* Steps of a job.                                                         *)

WellFormed(r) ==
    /\ r.albums # {} => r.pc \in {"save", "status", "select"}
    /\ r.text # {} <=> r.pc \in {"post", "congratulate"}
    /\ r.chats # {} <=> r.pc \in {"post", "congratulate"}

LEMMA KindsOfJobs ==
    /\ Syncs \subseteq Jobs /\ Checks \subseteq Syncs /\ Commands \subseteq Syncs
    /\ "daily" \in Checks /\ "daily" \notin Commands
    /\ \A j \in Checks : j \in Jobs /\ j \notin Commands
    /\ \A j \in Commands : j \in Jobs /\ j \notin Scheduled
  BY DailyAssumption DEF Jobs, Syncs, Checks, Scheduled

LEMMA OthersStayOK ==
    ASSUME NEW k \in Jobs, JobOK(k), jobs'[k] = jobs[k], clock' = clock,
           created' = created, overtaken' = overtaken, posts \subseteq posts'
    PROVE  JobOK(k)'
<1>1. \A fired : Announced(fired) => Announced(fired)'
  BY DEF Announced, Due, Known
<1>2. \A fired, i : Newly(fired, i) => Newly(fired, i)'
  BY DEF Newly
<1>3. DailyOK(jobs[k]) => DailyOK(jobs[k])'
  BY <1>1, <1>2 DEF DailyOK, Due, Known
<1> QED
  BY <1>3 DEF JobOK, Running

\* What is left to show of a step that takes the job j to r.
LEMMA JobStep ==
    ASSUME Inv, NEW j \in Jobs, NEW r \in Job, WellFormed(r),
           Running(j) \/ j \in Commands,
           Become(j, r), UNCHANGED jobvars, JobOK(j)',
           readable' \in BOOLEAN, cache' \subseteq Albums, saved' \in BOOLEAN,
           cache' # {} => readable', FilesOK',
           posts \subseteq posts',
           posts' \subseteq [fired : Daily, chat : Chats, item : Items],
           PostsOK', complete' \subseteq Daily, CompleteOK'
    PROVE  Inv'
<1>1. jobs' = [jobs EXCEPT ![j] = r] /\ jobs \in [Jobs -> Job]
  BY DEF Inv, TypeOK, Become
<1>2. \A k \in Jobs : jobs'[k] = IF k = j THEN r ELSE jobs[k]
  BY <1>1
<1>3. TypeOK'
  <2>1. jobs' \in [Jobs -> Job]
    BY <1>1
  <2>2. \A k \in Jobs : WellFormed(jobs'[k])
    BY <1>2 DEF Inv, TypeOK, WellFormed
  <2> QED
    BY <2>1, <2>2 DEF Inv, TypeOK, jobvars, WellFormed
<1>4. \A k \in Jobs : JobOK(k)'
  <2> TAKE k \in Jobs
  <2>1. CASE k = j
    BY <2>1
  <2>2. CASE k # j
    BY <1>2, <2>2, OthersStayOK DEF Inv, jobvars
  <2> QED
    BY <2>1, <2>2
<1>5. Idle => Idle'
  BY <1>2, KindsOfJobs DEF Idle, Running, Scheduled, Jobs
<1>6. TimesOK' /\ ShutdownOK'
  BY <1>5 DEF Inv, TimesOK, ShutdownOK, jobvars
<1> QED
  BY <1>3, <1>4, <1>6 DEF Inv

\* What a step that posts nothing and ends no check leaves as it is.
LEMMA QuietJobStep ==
    ASSUME Inv, NEW j \in Jobs, NEW r \in Job, WellFormed(r),
           Running(j) \/ j \in Commands,
           Become(j, r), UNCHANGED <<jobvars, posts, complete>>, JobOK(j)',
           readable' \in BOOLEAN, cache' \subseteq Albums, saved' \in BOOLEAN,
           cache' # {} => readable', FilesOK'
    PROVE  Inv'
<1>1. PostsOK'
  BY DEF Inv, PostsOK, Newly, jobvars
<1>2. CompleteOK'
  BY DEF Inv, CompleteOK, Announced, Due, Known, jobvars
<1>3. posts' = posts /\ complete' = complete /\ UNCHANGED jobvars
  BY DEF jobvars
<1> QED
  BY <1>1, <1>2, <1>3, JobStep DEF Inv, TypeOK

\* A step of a job that saves nothing, and has nothing to save.
LEMMA FilesStayOK ==
    ASSUME Inv, NEW j \in Jobs, NEW r \in Job, Become(j, r),
           r.pc \notin {"save", "status"}, UNCHANGED <<jobvars, filevars>>
    PROVE  /\ FilesOK' /\ readable' \in BOOLEAN /\ cache' \subseteq Albums
           /\ saved' \in BOOLEAN /\ (cache' # {} => readable')
<1>1. /\ created' = created /\ overtaken' = overtaken /\ readable' = readable
      /\ cache' = cache /\ saved' = saved /\ jobs \in [Jobs -> Job]
      /\ readable \in BOOLEAN /\ cache \subseteq Albums /\ saved \in BOOLEAN
      /\ (cache # {} => readable)
  BY DEF jobvars, filevars, Inv, TypeOK
<1>2. \A k \in Syncs : jobs'[k] = IF k = j THEN r ELSE jobs[k]
  BY <1>1, KindsOfJobs DEF Become
<1>3. InStatus' => InStatus
  BY <1>2 DEF InStatus
<1>4. FilesOK'
  BY <1>1, <1>2, <1>3 DEF Inv, FilesOK, Known
<1> QED
  BY <1>1, <1>4

\* The same, for a whole step.
LEMMA SavelessJobStep ==
    ASSUME Inv, NEW j \in Jobs, NEW r \in Job, WellFormed(r),
           Running(j) \/ j \in Commands, r.pc \notin {"save", "status"},
           Become(j, r), UNCHANGED <<jobvars, filevars, posts, complete>>, JobOK(j)'
    PROVE  Inv'
<1>1. UNCHANGED <<jobvars, filevars>> /\ UNCHANGED <<jobvars, posts, complete>>
  BY DEF jobvars, filevars
<1> QED
  BY <1>1, FilesStayOK, QuietJobStep

\* The same, for a step that may post.
LEMMA SendingJobStep ==
    ASSUME Inv, NEW j \in Jobs, NEW r \in Job, WellFormed(r),
           Running(j) \/ j \in Commands, r.pc \notin {"save", "status"},
           Become(j, r), UNCHANGED <<jobvars, filevars>>, JobOK(j)',
           posts \subseteq posts',
           posts' \subseteq [fired : Daily, chat : Chats, item : Items],
           PostsOK', complete' \subseteq Daily, CompleteOK'
    PROVE  Inv'
<1>1. UNCHANGED jobvars
  OBVIOUS
<1> QED
  BY <1>1, FilesStayOK, JobStep

LEMMA NoJobIsOK == NoJob \in Job /\ WellFormed(NoJob)
  BY DEF NoJob, Job, JobPCs, WellFormed

LEMMA EndedJobIsOK ==
    ASSUME TypeOK, NEW j \in Jobs, Become(j, NoJob)
    PROVE  JobOK(j)'
<1>1. jobs'[j] = NoJob
  BY DEF Become, TypeOK
<1> QED
  BY <1>1 DEF JobOK, DailyOK, Running, NoJob

\* What a sync returns has at most the albums of the server, and at least those
\* that every sync lists.
LEMMA SyncReturnsOK ==
    ASSUME Inv, NEW j \in Syncs, jobs[j].pc \in {"list", "save", "status"},
           UNCHANGED jobvars, posts' = posts,
           NEW albums, albums \subseteq DOMAIN created, Known \subseteq albums,
           SyncReturns(j, albums)
    PROVE  \E r \in Job : /\ WellFormed(r) /\ Become(j, r) /\ JobOK(j)'
                          /\ r.pc \notin {"save", "status"}
<1>j. j \in Jobs /\ jobs[j] \in Job /\ WellFormed(jobs[j]) /\ JobOK(j)
  BY KindsOfJobs DEF Inv, TypeOK, WellFormed
<1>1. CASE j \in Commands
  <2>1. Become(j, NoJob)
    BY <1>1 DEF SyncReturns
  <2>2. NoJob.pc \notin {"save", "status"}
    BY DEF NoJob
  <2> QED
    BY <1>j, <2>1, <2>2, NoJobIsOK, EndedJobIsOK DEF Inv
<1>2. CASE j \notin Commands
  <2> DEFINE s == [jobs[j] EXCEPT !.pc = "select", !.albums = albums]
  <2>1. Become(j, s)
    BY <1>2 DEF SyncReturns
  <2>2. s \in Job /\ WellFormed(s) /\ s.pc \notin {"save", "status"}
    BY <1>j DEF Job, JobPCs, WellFormed, Inv, TypeOK
  <2>3. jobs'[j] = s
    BY <1>j, <2>1 DEF Become, Inv, TypeOK
  <2>4. JobOK(j)'
    BY <1>j, <2>3 DEF jobvars, JobOK, DailyOK, Running, Job, Known
  <2> QED
    BY <2>1, <2>2, <2>4
<1> QED
  BY <1>1, <1>2

LEMMA SyncFailsOK ==
    ASSUME Inv, NEW j \in Syncs, jobs[j].pc \in {"list", "save", "status"},
           UNCHANGED jobvars, posts' = posts, SyncFails(j)
    PROVE  \E r \in Job : /\ WellFormed(r) /\ Become(j, r) /\ JobOK(j)'
                          /\ r.pc \notin {"save", "status"}
<1>j. j \in Jobs /\ jobs[j] \in Job /\ WellFormed(jobs[j]) /\ JobOK(j)
  BY KindsOfJobs DEF Inv, TypeOK, WellFormed
<1>1. CASE j \in Commands
  <2>1. Become(j, NoJob)
    BY <1>1 DEF SyncFails
  <2>2. NoJob.pc \notin {"save", "status"}
    BY DEF NoJob
  <2> QED
    BY <1>j, <2>1, <2>2, NoJobIsOK, EndedJobIsOK DEF Inv
<1>2. CASE j \notin Commands
  <2> DEFINE s == [jobs[j] EXCEPT !.pc = "anniversaries", !.albums = {},
                                  !.failed = TRUE]
  <2>1. Become(j, s)
    BY <1>2 DEF SyncFails
  <2>2. s \in Job /\ WellFormed(s) /\ s.pc \notin {"save", "status"}
    BY <1>j DEF Job, JobPCs, WellFormed
  <2>3. jobs'[j] = s
    BY <1>j, <2>1 DEF Become, Inv, TypeOK
  <2>4. JobOK(j)'
    BY <1>j, <2>3 DEF jobvars, JobOK, DailyOK, Running, Job
  <2> QED
    BY <2>1, <2>2, <2>4
<1> QED
  BY <1>1, <1>2

LEMMA ListNewKeepsInv ==
    ASSUME Inv, NEW j \in Syncs, ListNew(j)
    PROVE  Inv'
<1>j. j \in Jobs /\ jobs[j] \in Job /\ WellFormed(jobs[j]) /\ JobOK(j)
  BY KindsOfJobs DEF Inv, TypeOK, WellFormed
<1>a. jobs[j].pc = "list" /\ Running(j)
  BY DEF ListNew, At, Running
<1>b. UNCHANGED <<jobvars, filevars, posts, complete>> /\ posts' = posts
  BY DEF ListNew
<1>1. CASE Unchanged /\ SyncReturns(j, cache)
  <2>1. cache \subseteq DOMAIN created /\ Known \subseteq cache
    BY <1>1 DEF Unchanged, Inv, FilesOK
  <2>2. \E r \in Job : /\ WellFormed(r) /\ Become(j, r) /\ JobOK(j)'
                       /\ r.pc \notin {"save", "status"}
    BY <1>1, <1>a, <1>b, <2>1, SyncReturnsOK
  <2> QED
    BY <1>a, <1>b, <1>j, <2>2, SavelessJobStep
<1>2. CASE Become(j, [jobs[j] EXCEPT !.pc = "save", !.albums = DOMAIN created])
  <2> DEFINE s == [jobs[j] EXCEPT !.pc = "save", !.albums = DOMAIN created]
  <2>1. s \in Job /\ WellFormed(s)
    BY <1>a, <1>j DEF Job, JobPCs, WellFormed, Inv, TypeOK
  <2>2. \A k \in Jobs : jobs'[k] = IF k = j THEN s ELSE jobs[k]
    BY <1>2, <1>j DEF Become, Inv, TypeOK
  <2>3. s.pc = "save" /\ s.albums = DOMAIN created /\ s.fired = jobs[j].fired
    BY <1>j DEF Job
  <2> HIDE DEF s
  <2>4. JobOK(j)'
    BY <1>a, <1>b, <1>j, <2>2, <2>3 DEF jobvars, JobOK, DailyOK, Running
  <2>5. FilesOK'
    <3>1. InStatus' => InStatus
      BY <2>2, <2>3, KindsOfJobs DEF InStatus
    <3>2. \A k \in Syncs : jobs'[k].pc \in {"save", "status"} =>
                               Known \subseteq jobs'[k].albums
      BY <2>2, <2>3, KindsOfJobs DEF Inv, FilesOK, Known
    <3> QED
      BY <1>b, <3>1, <3>2 DEF jobvars, filevars, Inv, FilesOK, Known
  <2>6. /\ readable' \in BOOLEAN /\ cache' \subseteq Albums /\ saved' \in BOOLEAN
        /\ (cache' # {} => readable')
    BY <1>b DEF filevars, Inv, TypeOK
  <2> QED
    BY <1>2, <1>a, <1>b, <1>j, <2>1, <2>4, <2>5, <2>6, QuietJobStep DEF s
<1>3. CASE SyncFails(j)
  <2>1. \E r \in Job : /\ WellFormed(r) /\ Become(j, r) /\ JobOK(j)'
                       /\ r.pc \notin {"save", "status"}
    BY <1>3, <1>a, <1>b, SyncFailsOK
  <2> QED
    BY <1>a, <1>b, <1>j, <2>1, SavelessJobStep
<1> QED
  BY <1>1, <1>2, <1>3 DEF ListNew

LEMMA SaveCacheKeepsInv ==
    ASSUME Inv, NEW j \in Syncs, SaveCache(j)
    PROVE  Inv'
<1>j. j \in Jobs /\ jobs[j] \in Job /\ WellFormed(jobs[j]) /\ JobOK(j)
  BY KindsOfJobs DEF Inv, TypeOK, WellFormed
<1>a. /\ jobs[j].pc = "save" /\ Running(j)
      /\ Known \subseteq jobs[j].albums /\ jobs[j].albums \subseteq DOMAIN created
      /\ jobs[j].albums \subseteq Albums
  BY <1>j DEF SaveCache, At, Running, Inv, FilesOK, JobOK, Job
<1>b. /\ UNCHANGED <<jobvars, posts, complete>> /\ UNCHANGED jobvars
      /\ posts' = posts /\ saved' = saved
      /\ created' = created /\ overtaken' = overtaken
  BY DEF SaveCache, jobvars
<1>t. /\ readable \in BOOLEAN /\ cache \subseteq Albums /\ saved \in BOOLEAN
      /\ (cache # {} => readable) /\ FilesOK
  BY DEF Inv, TypeOK
<1>1. CASE /\ Become(j, [jobs[j] EXCEPT !.pc = "status"])
           /\ \/ WriteCache(jobs[j].albums)
              \/ jobs[j].albums = {} /\ UNCHANGED <<readable, cache>>
  <2> DEFINE s == [jobs[j] EXCEPT !.pc = "status"]
  <2>1. s \in Job /\ WellFormed(s)
    BY <1>a, <1>j DEF Job, JobPCs, WellFormed
  <2>2. \A k \in Jobs : jobs'[k] = IF k = j THEN s ELSE jobs[k]
    BY <1>1, <1>j DEF Become, Inv, TypeOK
  <2>3. s.pc = "status" /\ s.albums = jobs[j].albums /\ s.fired = jobs[j].fired
    BY <1>j DEF Job
  <2> HIDE DEF s
  <2>4. JobOK(j)'
    BY <1>a, <1>b, <1>j, <2>2, <2>3 DEF jobvars, JobOK, DailyOK, Running
  <2>5. /\ readable' \in BOOLEAN /\ cache' \subseteq Albums
        /\ cache' \subseteq DOMAIN created
        /\ (cache' # {} => readable') /\ (readable' => Known \subseteq cache')
    BY <1>1, <1>a, <1>t DEF WriteCache, FilesOK
  <2>6. FilesOK'
    <3>1. \A k \in Syncs : jobs'[k].pc \in {"save", "status"} =>
                               Known \subseteq jobs'[k].albums
      BY <1>a, <1>t, <2>2, <2>3, KindsOfJobs DEF FilesOK
    <3> QED
      BY <1>b, <2>5, <3>1 DEF FilesOK, Known
  <2> QED
    BY <1>1, <1>a, <1>b, <1>j, <1>t, <2>1, <2>4, <2>5, <2>6, QuietJobStep DEF s
<1>2. CASE /\ SyncFails(j)
           /\ \/ UNCHANGED <<readable, cache>>
              \/ readable' = FALSE /\ cache' = {}
  <2>1. PICK r \in Job : /\ WellFormed(r) /\ Become(j, r) /\ JobOK(j)'
                         /\ r.pc \notin {"save", "status"}
    BY <1>2, <1>a, <1>b, SyncFailsOK
  <2>2. \A k \in Syncs : jobs'[k] = IF k = j THEN r ELSE jobs[k]
    BY <2>1, KindsOfJobs DEF Become, Inv, TypeOK
  <2>3. InStatus' => InStatus
    BY <2>1, <2>2 DEF InStatus
  <2>4. FilesOK'
    BY <1>2, <1>b, <1>t, <2>1, <2>2, <2>3 DEF FilesOK, Known
  <2>5. /\ readable' \in BOOLEAN /\ cache' \subseteq Albums
        /\ saved' \in BOOLEAN /\ (cache' # {} => readable')
    BY <1>2, <1>b, <1>t
  <2> QED
    BY <1>a, <1>b, <1>j, <2>1, <2>4, <2>5, QuietJobStep
<1> QED
  BY <1>1, <1>2 DEF SaveCache

\* The cache that the status will vouch for is one that a sync has listed.
LEMMA SaveStatusKeepsInv ==
    ASSUME Inv, NEW j \in Syncs, SaveStatus(j)
    PROVE  Inv'
<1>j. j \in Jobs /\ jobs[j] \in Job /\ WellFormed(jobs[j]) /\ JobOK(j)
  BY KindsOfJobs DEF Inv, TypeOK, WellFormed
<1>a. /\ jobs[j].pc = "status" /\ Running(j) /\ InStatus
      /\ Known \subseteq jobs[j].albums /\ jobs[j].albums \subseteq DOMAIN created
  BY <1>j DEF SaveStatus, At, Running, InStatus, Inv, FilesOK, JobOK
<1>b. /\ UNCHANGED <<jobvars, posts, complete>> /\ UNCHANGED jobvars
      /\ posts' = posts /\ readable' = readable /\ cache' = cache
      /\ created' = created /\ overtaken' = overtaken
  BY DEF SaveStatus, jobvars
<1>1. PICK r \in Job : /\ WellFormed(r) /\ Become(j, r) /\ JobOK(j)'
                       /\ r.pc \notin {"save", "status"}
  BY <1>a, <1>b, SyncReturnsOK DEF SaveStatus
<1>2. \A k \in Syncs : jobs'[k] = IF k = j THEN r ELSE jobs[k]
  BY <1>1, KindsOfJobs DEF Become, Inv, TypeOK
<1>3. FilesOK'
  BY <1>1, <1>2, <1>a, <1>b DEF Inv, FilesOK, Known
<1>4. /\ readable' \in BOOLEAN /\ cache' \subseteq Albums
      /\ saved' \in BOOLEAN /\ (cache' # {} => readable')
  <2>1. saved' \in BOOLEAN
    BY DEF SaveStatus, Inv, TypeOK
  <2>2. readable \in BOOLEAN /\ cache \subseteq Albums /\ (cache # {} => readable)
    BY DEF Inv, TypeOK
  <2> QED
    BY <1>b, <2>1, <2>2
<1> QED
  BY <1>1, <1>3, <1>4, <1>a, <1>b, <1>j, QuietJobStep

LEMMA BeginSyncKeepsInv ==
    ASSUME Inv, NEW j \in Commands, BeginSync(j)
    PROVE  Inv'
<1> DEFINE r == [NoJob EXCEPT !.pc = "list"]
<1>1. /\ Become(j, r) /\ UNCHANGED <<jobvars, filevars, posts, complete>>
      /\ j \in Jobs /\ j # "daily"
  BY KindsOfJobs DEF BeginSync
<1>2. /\ r \in Job /\ WellFormed(r) /\ r.pc \notin {"save", "status"}
      /\ r.albums = {}
  BY DEF NoJob, Job, JobPCs, WellFormed
<1>3. jobs'[j] = r
  BY <1>1 DEF Become, Inv, TypeOK
<1>4. JobOK(j)'
  BY <1>1, <1>2, <1>3 DEF JobOK
<1> HIDE DEF r
<1> QED
  BY <1>1, <1>2, <1>4, SavelessJobStep

LEMMA EndPurgeKeepsInv ==
    ASSUME Inv, EndPurge("purge")
    PROVE  Inv'
<1>1. "purge" \in Jobs /\ Running("purge")
  BY DEF EndPurge, At, Running, Jobs, Scheduled
<1> QED
  BY <1>1, NoJobIsOK, EndedJobIsOK, SavelessJobStep DEF EndPurge, Inv, NoJob

LEMMA SelectNewKeepsInv ==
    ASSUME Inv, NEW j \in Checks, SelectNew(j)
    PROVE  Inv'
<1> DEFINE r == jobs[j]
           new == {a \in r.albums : created[a] > Cutoff}
           s == IF new = {} THEN [r EXCEPT !.pc = "anniversaries", !.albums = {}]
                ELSE Compose(r, "post", {Album(a) : a \in new})
<1>j. j \in Jobs /\ j \notin Commands /\ r \in Job /\ r.pc = "select" /\ Running(j) /\ WellFormed(r)
  BY KindsOfJobs DEF SelectNew, At, Inv, TypeOK, WellFormed, Running
<1>k. JobOK(j) /\ jobs \in [Jobs -> Job]
  BY <1>j DEF Inv, TypeOK
<1>b. Become(j, s) /\ UNCHANGED <<jobvars, filevars, posts, complete>>
  BY DEF SelectNew
<1>s. jobs'[j] = s
  BY <1>b, <1>j, <1>k DEF Become
<1>t. /\ clock \in Nat /\ r.fired \in Nat /\ Window \in Nat /\ JobTime \in Nat
      /\ r.fired <= clock /\ clock <= r.fired + JobTime
      /\ \A a \in DOMAIN created : created[a] \in Nat /\ created[a] <= clock
  BY <1>j, <1>k, DailyAssumption DEF JobOK, Job, Inv, TypeOK, TimesOK
<1>f. PICK fired \in Nat : fired = r.fired
  BY <1>t
<1>u. /\ created' = created /\ clock' = clock /\ posts' = posts
      /\ \A a : Due(fired, a) <=> Due(fired, a)'
      /\ \A i : Newly(fired, i) => Newly(fired, i)'
      /\ Announced(fired) => Announced(fired)'
  BY <1>b DEF jobvars, Newly, Announced, Due, Known
<1>n. \A a \in new : /\ a \in DOMAIN created
                    /\ created[a] > fired - Window
                    /\ created[a] <= fired + JobTime
  BY <1>f, <1>k, <1>t DEF JobOK, Cutoff
<1>d. ASSUME j = "daily", NEW a \in DOMAIN created, Due(fired, a)
      PROVE  a \in new
  <2>1. created[a] > Cutoff /\ created[a] < fired
    BY <1>d, <1>f, <1>t DEF Due, Cutoff
  <2> QED
    BY <1>d, <1>f, <1>j, <1>k, <2>1 DEF JobOK, DailyOK, Due
<1>1. CASE new = {}
  <2>1. s = [r EXCEPT !.pc = "anniversaries", !.albums = {}]
    BY <1>1
  <2>2. s \in Job /\ WellFormed(s) /\ s.pc \notin {"save", "status"}
    BY <1>j, <2>1 DEF Job, JobPCs, WellFormed
  <2>3. j = "daily" => Announced(fired)
    BY <1>1, <1>d DEF Announced
  <2>4. JobOK(j)'
    <3> HIDE DEF new, s
    <3>1. /\ jobs'[j].pc = "anniversaries" /\ jobs'[j].albums = {}
          /\ jobs'[j].fired = fired
      BY <1>f, <1>j, <1>s, <2>1 DEF Job
    <3>2. j = "daily" => Announced(fired)'
      BY <1>u, <2>3
    <3>3. j = "daily" => fired \in Daily
      BY <1>f, <1>j, <1>k DEF JobOK, DailyOK
    <3>4. j = "daily" => DailyOK(jobs[j])'
      BY <3>1, <3>2, <3>3 DEF DailyOK
    <3> QED
      BY <1>f, <1>t, <1>u, <3>1, <3>4 DEF JobOK
  <2> HIDE DEF s
  <2> QED
    BY <1>b, <1>j, <2>2, <2>4, SavelessJobStep
<1>2. CASE new # {}
  <2> DEFINE text == {Album(a) : a \in new}
  <2>1. s = [r EXCEPT !.pc = "post", !.albums = {}, !.text = text, !.chats = Chats]
    BY <1>2 DEF Compose
  <2>2. text \subseteq Items /\ text # {}
    BY <1>2, <1>n DEF Items, Inv, TypeOK
  <2>3. \A i \in text : Newly(fired, i)
    BY <1>n DEF Newly
  <2>4. j = "daily" => \A a \in DOMAIN created : Due(fired, a) => Album(a) \in text
    BY <1>d
  <2> HIDE DEF text, s, new
  <2>5. s \in Job /\ WellFormed(s) /\ s.pc \notin {"save", "status"}
    BY <1>j, <2>1, <2>2, DailyAssumption DEF Job, JobPCs, WellFormed
  <2>6. /\ jobs'[j].pc = "post" /\ jobs'[j].albums = {}
        /\ jobs'[j].fired = fired
        /\ jobs'[j].text = text /\ jobs'[j].chats = Chats
    BY <1>f, <1>j, <1>s, <2>1 DEF Job
  <2>7. j = "daily" => fired \in Daily
    BY <1>f, <1>j, <1>k DEF JobOK, DailyOK
  <2>8. JobOK(j)'
    <3>1. \A i \in text : Newly(fired, i)'
      BY <1>u, <2>3
    <3>2. j = "daily" =>
             \A a \in DOMAIN created' : Due(fired, a)' => Album(a) \in text
      BY <1>u, <2>4 DEF Due
    <3>3. j = "daily" => DailyOK(jobs[j])'
      BY <2>6, <2>7, <3>1, <3>2 DEF DailyOK, Due
    <3> QED
      BY <1>f, <1>t, <1>u, <2>6, <3>3 DEF JobOK
  <2> QED
    BY <1>b, <1>j, <2>5, <2>8, SavelessJobStep
<1> QED
  BY <1>1, <1>2

LEMMA CheckAnniversariesKeepsInv ==
    ASSUME Inv, NEW j \in Checks, CheckAnniversaries(j)
    PROVE  Inv'
<1> DEFINE r == jobs[j]
           s == Compose(r, "congratulate", {Anniversaries(Today)})
<1>j. /\ j \in Jobs /\ j \notin Commands /\ r \in Job /\ r.pc = "anniversaries" /\ Running(j)
      /\ WellFormed(r)
  BY KindsOfJobs DEF CheckAnniversaries, At, Inv, TypeOK, WellFormed, Running
<1>k. JobOK(j) /\ jobs \in [Jobs -> Job]
  BY <1>j DEF Inv, TypeOK
<1>t. /\ clock \in Nat /\ r.fired \in Nat /\ JobTime \in Nat /\ MaxClock \in Nat
      /\ r.fired <= clock /\ clock <= r.fired + JobTime /\ clock <= MaxClock
  BY <1>j, <1>k, DailyAssumption DEF JobOK, Job, Inv, TypeOK, TimesOK
<1>1. CASE Become(j, s) /\ UNCHANGED complete
  <2>f. PICK fired \in Nat : fired = r.fired
    BY <1>t
  <2>d. PICK day \in 0 .. Day(MaxClock) : day = Day(clock)
    BY <1>t, DayOfLater
  <2>1. j = "daily" => fired \in Daily /\ day = Day(fired)
    <3>1. Day(fired) <= Day(clock) /\ Day(clock) <= Day(fired + JobTime)
      BY <1>t, <2>f, DayOfLater
    <3>2. /\ Day(fired) \in Nat /\ Day(clock) \in Nat
          /\ Day(fired + JobTime) \in Nat
      BY <1>t, <2>f, DayOfLater
    <3>3. j = "daily" => fired \in Daily
      BY <1>j, <1>k, <2>f DEF JobOK, DailyOK
    <3> QED
      BY <2>d, <3>1, <3>2, <3>3, DailyAssumption
  <2>2. s = [r EXCEPT !.pc = "congratulate", !.albums = {},
                      !.text = {Anniversaries(day)}, !.chats = Chats]
    BY <2>d DEF Compose, Today
  <2>3. {Anniversaries(day)} \subseteq Items
    BY DEF Items
  <2> HIDE DEF s
  <2>4. s \in Job /\ WellFormed(s) /\ s.pc \notin {"save", "status"}
    BY <1>j, <2>2, <2>3, DailyAssumption DEF Job, JobPCs, WellFormed
  <2>5. /\ jobs'[j].pc = "congratulate" /\ jobs'[j].albums = {}
        /\ jobs'[j].fired = fired /\ jobs'[j].failed = r.failed
        /\ jobs'[j].text = {Anniversaries(day)} /\ jobs'[j].chats = Chats
    BY <1>1, <1>j, <1>k, <2>2, <2>f DEF Become, Job
  <2>6. j = "daily" /\ ~r.failed => Announced(fired)'
    <3>1. j = "daily" /\ ~r.failed => Announced(fired)
      BY <1>j, <1>k, <2>f DEF JobOK, DailyOK
    <3> QED
      BY <3>1 DEF CheckAnniversaries, jobvars, Announced, Due, Known
  <2>7. j = "daily" => DailyOK(jobs[j])'
    BY <2>1, <2>5, <2>6 DEF DailyOK
  <2>8. JobOK(j)'
    BY <1>t, <2>5, <2>7, <2>f DEF CheckAnniversaries, jobvars, JobOK
  <2> QED
    BY <1>1, <1>j, <2>4, <2>8, SavelessJobStep DEF CheckAnniversaries
<1>2. CASE End(j, TRUE)
  <2>1. Become(j, NoJob) /\ complete' = complete
    BY <1>2 DEF End
  <2> QED
    BY <1>j, <2>1, NoJobIsOK, EndedJobIsOK, SavelessJobStep
    DEF CheckAnniversaries, Inv, NoJob
<1> QED
  BY <1>1, <1>2 DEF CheckAnniversaries

\* A message to one chat, sent or not, and what follows it; q is the job
\* without that chat.
LEMMA NextPostKeepsInv ==
    ASSUME Inv, NEW j \in Checks, jobs[j].pc \in {"post", "congratulate"},
           NEW chat \in jobs[j].chats, NEW q \in Job,
           q.pc = jobs[j].pc, q.fired = jobs[j].fired, q.albums = {},
           q.text = jobs[j].text, q.chats = jobs[j].chats \ {chat},
           jobs[j].failed => q.failed, posts \subseteq posts',
           \A p \in posts' \ posts :
              j = "daily" /\ \E i \in q.text : p = Post(q.fired, chat, i),
           j = "daily" /\ ~q.failed =>
              \A i \in q.text : Post(q.fired, chat, i) \in posts',
           NextPost(j, q), UNCHANGED <<jobvars, filevars>>
    PROVE  Inv'
<1>j. /\ j \in Jobs /\ j \notin Commands /\ jobs[j] \in Job /\ Running(j)
      /\ JobOK(j) /\ UNCHANGED jobvars
  BY KindsOfJobs DEF Inv, TypeOK, Running
<1>t. /\ clock' = clock /\ created' = created /\ overtaken' = overtaken /\ clock \in Nat
      /\ q.fired \in Nat /\ JobTime \in Nat
      /\ q.fired <= clock /\ clock <= q.fired + JobTime
  BY <1>j, DailyAssumption DEF JobOK, Job, Inv, TypeOK, jobvars
<1>u. /\ \A fired, a : Due(fired, a) <=> Due(fired, a)'
      /\ \A fired, i : Newly(fired, i) => Newly(fired, i)'
      /\ \A fired : Announced(fired) => Announced(fired)'
  BY <1>t DEF Newly, Announced, Due, Known
<1>d. j = "daily" =>
         /\ q.fired \in Daily
         /\ q.pc = "post" =>
               /\ \A i \in q.text : Newly(q.fired, i)
               /\ \A a \in DOMAIN created : Due(q.fired, a) => Album(a) \in q.text
         /\ q.pc = "congratulate" => q.text = {Anniversaries(Day(q.fired))}
         /\ q.pc = "congratulate" /\ ~q.failed => Announced(q.fired)
  BY <1>j DEF JobOK, DailyOK
<1>r. j = "daily" /\ ~q.failed =>
         \A c \in Chats \ q.chats, i \in q.text : Post(q.fired, c, i) \in posts'
  BY <1>j DEF JobOK, DailyOK
<1>p. posts' \subseteq [fired : Daily, chat : Chats, item : Items]
  <2> SUFFICES ASSUME NEW p \in posts', p \notin posts
               PROVE  p \in [fired : Daily, chat : Chats, item : Items]
    BY DEF Inv, TypeOK
  <2>1. PICK i \in q.text : j = "daily" /\ p = Post(q.fired, chat, i)
    OBVIOUS
  <2> QED
    BY <1>d, <1>j, <2>1 DEF Post, Job
<1>o. PostsOK'
  <2> SUFFICES ASSUME NEW p \in posts'
               PROVE  /\ p.fired <= clock'
                      /\ \/ Newly(p.fired, p.item)'
                         \/ p.item = Anniversaries(Day(p.fired))
    BY DEF PostsOK
  <2>1. CASE p \in posts
    BY <1>t, <1>u, <2>1 DEF Inv, PostsOK
  <2>2. CASE p \notin posts
    <3>1. PICK i \in q.text : j = "daily" /\ p = Post(q.fired, chat, i)
      BY <2>2
    <3>2. p.fired = q.fired /\ p.item = i
      BY <3>1 DEF Post
    <3> QED
      BY <1>d, <1>t, <1>u, <3>1, <3>2
  <2> QED
    BY <2>1, <2>2
<1>c. \A fired \in complete :
         /\ fired <= clock'
         /\ Announced(fired)'
         /\ \A c \in Chats : Post(fired, c, Anniversaries(Day(fired))) \in posts'
  BY <1>t, <1>u DEF Inv, CompleteOK
<1>1. CASE q.chats # {}
  <2>1. Become(j, q) /\ complete' = complete
    BY <1>1 DEF NextPost
  <2>2. jobs'[j] = q
    BY <1>j, <2>1 DEF Become, Inv, TypeOK
  <2>3. j = "daily" => DailyOK(jobs[j])'
    BY <1>d, <1>r, <1>t, <1>u, <2>2 DEF DailyOK
  <2>4. JobOK(j)'
    BY <1>t, <2>2, <2>3 DEF JobOK
  <2>5. WellFormed(q)
    BY <1>1, <1>j DEF WellFormed, Inv, TypeOK
  <2>6. CompleteOK' /\ complete' \subseteq Daily
    BY <1>c, <2>1 DEF CompleteOK, Inv, TypeOK
  <2> QED
    BY <1>j, <1>o, <1>p, <2>1, <2>4, <2>5, <2>6, SendingJobStep
<1>2. CASE q.chats = {} /\ q.pc = "post"
  <2> DEFINE s == [q EXCEPT !.pc = "anniversaries", !.text = {}]
  <2>1. Become(j, s) /\ complete' = complete
    BY <1>2 DEF NextPost
  <2>2. /\ jobs'[j].pc = "anniversaries" /\ jobs'[j].fired = q.fired
        /\ jobs'[j].failed = q.failed /\ jobs'[j].albums = {}
    BY <1>j, <2>1 DEF Become, Inv, TypeOK, Job
  <2>3. j = "daily" /\ ~q.failed => Announced(q.fired)'
    BY <1>2, <1>d, <1>r, <1>t, <1>u DEF Announced
  <2>4. j = "daily" => DailyOK(jobs[j])'
    BY <1>d, <2>2, <2>3 DEF DailyOK
  <2>5. JobOK(j)'
    BY <1>t, <2>2, <2>4 DEF JobOK
  <2>6. s \in Job /\ WellFormed(s) /\ s.pc \notin {"save", "status"}
    BY <1>2 DEF Job, JobPCs, WellFormed
  <2>7. CompleteOK' /\ complete' \subseteq Daily
    BY <1>c, <2>1 DEF CompleteOK, Inv, TypeOK
  <2> QED
    BY <1>j, <1>o, <1>p, <2>1, <2>5, <2>6, <2>7, SendingJobStep
<1>3. CASE q.chats = {} /\ q.pc = "congratulate"
  <2>1. /\ Become(j, NoJob)
        /\ complete' = complete \cup
              (IF j = "daily" /\ ~q.failed THEN {jobs[j].fired} ELSE {})
    BY <1>3 DEF NextPost, End
  <2>2. ASSUME j = "daily", ~q.failed
        PROVE  /\ Announced(q.fired)'
               /\ \A c \in Chats :
                     Post(q.fired, c, Anniversaries(Day(q.fired))) \in posts'
    <3>1. Announced(q.fired)'
      BY <1>3, <1>d, <1>u, <2>2
    <3>2. Anniversaries(Day(q.fired)) \in q.text
      BY <1>3, <1>d, <2>2
    <3> QED
      BY <1>3, <1>r, <2>2, <3>1, <3>2
  <2>3. CompleteOK' /\ complete' \subseteq Daily
    <3>1. ASSUME NEW fired \in complete', fired \notin complete
          PROVE  j = "daily" /\ ~q.failed /\ fired = q.fired
      <4>1. fired \in IF j = "daily" /\ ~q.failed THEN {q.fired} ELSE {}
        BY <2>1, <3>1
      <4> QED
        BY <4>1
    <3> QED
      BY <1>c, <1>d, <1>t, <2>2, <3>1 DEF CompleteOK, Inv, TypeOK
  <2> QED
    BY <1>j, <1>o, <1>p, <2>1, <2>3, NoJobIsOK, EndedJobIsOK, SendingJobStep DEF Inv, NoJob
<1> QED
  BY <1>1, <1>2, <1>3

LEMMA SendNotificationKeepsInv ==
    ASSUME Inv, NEW j \in Checks, SendNotification(j)
    PROVE  Inv'
<1>j. /\ j \in Jobs /\ jobs[j] \in Job /\ jobs[j].albums = {}
      /\ jobs[j].pc \in {"post", "congratulate"}
      /\ UNCHANGED <<jobvars, filevars>>
  BY KindsOfJobs DEF SendNotification, Inv, TypeOK
<1>1. PICK chat \in jobs[j].chats :
         \/ /\ Record(j, chat)
            /\ NextPost(j, [jobs[j] EXCEPT !.chats = @ \ {chat}])
         \/ /\ NextPost(j, [[jobs[j] EXCEPT !.chats = @ \ {chat}]
                              EXCEPT !.failed = TRUE])
            /\ UNCHANGED posts
  BY DEF SendNotification
<1>2. CASE /\ Record(j, chat)
           /\ NextPost(j, [jobs[j] EXCEPT !.chats = @ \ {chat}])
  <2>1. PICK q : q = [jobs[j] EXCEPT !.chats = @ \ {chat}]
    OBVIOUS
  <2>2. /\ q \in Job /\ q.pc = jobs[j].pc /\ q.fired = jobs[j].fired
        /\ q.albums = {} /\ q.text = jobs[j].text
        /\ q.chats = jobs[j].chats \ {chat} /\ q.failed = jobs[j].failed
    BY <1>j, <2>1 DEF Job
  <2>3. /\ posts \subseteq posts'
        /\ \A p \in posts' \ posts :
              j = "daily" /\ \E i \in q.text : p = Post(q.fired, chat, i)
        /\ j = "daily" => \A i \in q.text : Post(q.fired, chat, i) \in posts'
    BY <1>2, <2>2 DEF Record
  <2>4. NextPost(j, q)
    BY <1>2, <2>1
  <2> QED
    BY <1>j, <2>2, <2>3, <2>4, NextPostKeepsInv
<1>3. CASE /\ NextPost(j, [[jobs[j] EXCEPT !.chats = @ \ {chat}]
                              EXCEPT !.failed = TRUE])
           /\ UNCHANGED posts
  <2>1. PICK q : q = [[jobs[j] EXCEPT !.chats = @ \ {chat}]
                         EXCEPT !.failed = TRUE]
    OBVIOUS
  <2>2. /\ q \in Job /\ q.pc = jobs[j].pc /\ q.fired = jobs[j].fired
        /\ q.albums = {} /\ q.text = jobs[j].text
        /\ q.chats = jobs[j].chats \ {chat} /\ q.failed
    BY <1>j, <2>1 DEF Job
  <2>3. NextPost(j, q) /\ posts' = posts
    BY <1>3, <2>1
  <2> QED
    BY <1>j, <2>2, <2>3, NextPostKeepsInv
<1> QED
  BY <1>1, <1>2, <1>3

----------------------------------------------------------------------------
(* The other steps.                                                        *)

LEMMA InitInv == Init => Inv
<1> SUFFICES ASSUME Init PROVE Inv
  OBVIOUS
<1>1. \A j \in Jobs : jobs[j] = NoJob
  BY DEF Init
<1>2. TypeOK
  BY <1>1, NoJobIsOK DEF Init, TypeOK, WellFormed
<1>3. \A j \in Jobs : JobOK(j)
  BY <1>1 DEF JobOK, DailyOK, Running, NoJob
<1>4. TimesOK /\ PostsOK /\ CompleteOK
  BY DailyAssumption DEF Init, TimesOK, PostsOK, CompleteOK
<1>6. FilesOK
  BY <1>1, KindsOfJobs DEF Init, FilesOK, NoJob
<1>5. ShutdownOK
  BY <1>1 DEF Init, ShutdownOK, Idle, Running, NoJob, Scheduled, Jobs
<1> QED
  BY <1>2, <1>3, <1>4, <1>5, <1>6 DEF Inv

LEMMA BegunJob ==
    ASSUME NEW j \in Jobs, NEW now \in Nat
    PROVE  /\ Begin(j, now) \in Job /\ WellFormed(Begin(j, now))
           /\ Begin(j, now).pc \in {"list", "purge"}
           /\ Begin(j, now).fired = now /\ Begin(j, now).albums = {}
  BY DEF Begin, NoJob, Job, JobPCs, WellFormed

LEMMA TickKeepsInv ==
    ASSUME Inv, Tick
    PROVE  Inv'
<1>t. /\ clock \in Nat /\ clock' = clock + 1 /\ clock' <= MaxClock
      /\ created' = created /\ overtaken' = overtaken /\ posts' = posts
      /\ complete' = complete
      /\ readable' = readable /\ cache' = cache /\ saved' = saved
      /\ main' = main /\ database' = database /\ timedOut' = timedOut
      /\ JobTime \in Nat /\ MaxClock \in Nat /\ clock' \in Nat
  BY DailyAssumption DEF Tick, filevars, Inv, TypeOK
<1>1. \A j \in Jobs :
         \/ jobs'[j] = jobs[j]
         \/ /\ CronIsOn /\ j \in Scheduled /\ clock' \in Entry(j)
            /\ jobs'[j] = Begin(j, clock')
  BY DEF Tick
<1>2. TypeOK'
  <2>1. \A j \in Jobs : jobs[j] \in Job /\ WellFormed(jobs[j])
    BY DEF Inv, TypeOK, WellFormed
  <2>2. \A j \in Jobs : jobs'[j] \in Job /\ WellFormed(jobs'[j])
    BY <1>1, <1>t, <2>1, BegunJob
  <2>3. jobs' \in [Jobs -> Job]
    BY <2>2 DEF Tick
  <2>4. \A a \in DOMAIN created : created[a] <= clock'
    BY <1>t DEF Inv, TypeOK, TimesOK
  <2> QED
    BY <1>t, <2>2, <2>3, <2>4 DEF Inv, TypeOK, WellFormed
<1>3. ASSUME NEW j \in Jobs PROVE JobOK(j)'
  <2>1. CASE jobs'[j] = jobs[j]
    <3>1. Running(j) /\ j \notin Commands =>
             jobs[j].fired <= clock' /\ clock' <= jobs[j].fired + JobTime
      BY <1>t DEF Tick, Inv, TypeOK, Job, JobOK
    <3>2. j = "daily" => DailyOK(jobs[j])'
      BY <1>t, <2>1 DEF Inv, JobOK, DailyOK, Newly, Due, Known, Announced
    <3> QED
      BY <1>t, <2>1, <3>1, <3>2 DEF Inv, JobOK, Running
  <2>2. CASE /\ j \in Scheduled /\ clock' \in Entry(j)
             /\ jobs'[j] = Begin(j, clock')
    <3>1. /\ jobs'[j].pc \in {"list", "purge"} /\ jobs'[j].fired = clock'
          /\ jobs'[j].albums = {}
      BY <1>t, <2>2, BegunJob
    <3>2. j = "daily" => clock' \in Daily
      BY <2>2 DEF Entry
    <3> QED
      BY <1>t, <3>1, <3>2 DEF JobOK, DailyOK, Running
  <2> QED
    BY <1>1, <2>1, <2>2
<1>4. TimesOK' /\ PostsOK' /\ CompleteOK'
  <2>1. \A p \in posts : p.fired \in Nat
    BY DailyAssumption DEF Inv, TypeOK
  <2>2. \A fired \in complete : fired \in Nat
    BY DailyAssumption DEF Inv, TypeOK
  <2> QED
    BY <1>t, <2>1, <2>2
    DEF Inv, TimesOK, PostsOK, CompleteOK, Newly, Announced, Due, Known
<1>5. ShutdownOK'
  <2>1. ~CronIsOn => \A j \in Jobs : jobs'[j] = jobs[j]
    BY <1>1
  <2>2. ~CronIsOn /\ Idle => Idle'
    BY <2>1 DEF Idle, Running, Scheduled, Jobs
  <2> QED
    BY <1>t, <2>2 DEF Inv, TypeOK, ShutdownOK, CronIsOn
<1>6. FilesOK'
  <2>1. \A k \in Syncs : \/ jobs'[k] = jobs[k]
                        \/ jobs'[k].pc \notin {"save", "status"}
    BY <1>1, <1>t, KindsOfJobs, BegunJob
  <2>2. InStatus' => InStatus
    BY <2>1 DEF InStatus
  <2> QED
    BY <1>t, <2>1, <2>2 DEF Inv, FilesOK, Known
<1> QED
  BY <1>2, <1>3, <1>4, <1>5, <1>6 DEF Inv

\* An album that is added now was not due to a check that has fired, and is
\* unknown if some sync has its list.
LEMMA ScanKeepsInv ==
    ASSUME Inv, Scan
    PROVE  Inv'
<1>1. PICK found \in SUBSET (Albums \ DOMAIN created) :
         /\ created' = [b \in DOMAIN created \cup found |->
                          IF b \in found THEN clock ELSE created[b]]
         /\ overtaken' = IF Saving THEN overtaken \cup found ELSE overtaken
  BY DEF Scan
<1>2. /\ DOMAIN created' = DOMAIN created \cup found
      /\ \A b \in found : created'[b] = clock
      /\ \A b \in DOMAIN created : created'[b] = created[b]
      /\ overtaken \subseteq overtaken' /\ overtaken' \subseteq Albums
      /\ Known \subseteq DOMAIN created /\ Known' \subseteq Known \cup found
      /\ Saving => Known' \subseteq Known
  BY <1>1 DEF Known, Inv, TypeOK
<1>t. /\ clock \in Nat /\ clock' = clock /\ jobs' = jobs /\ posts' = posts
      /\ complete' = complete /\ main' = main /\ database' = database
      /\ timedOut' = timedOut
      /\ readable' = readable /\ cache' = cache /\ saved' = FALSE
  BY DEF Scan, Inv, TypeOK
<1>3. \A fired \in Nat, b \in DOMAIN created' :
         fired <= clock /\ Due(fired, b)' => b \in DOMAIN created /\ Due(fired, b)
  BY <1>2, <1>t, DailyAssumption DEF Due, Known
<1>4. \A fired \in Nat : fired <= clock /\ Announced(fired) => Announced(fired)'
  BY <1>3, <1>t DEF Announced
<1>5. \A fired, i : Newly(fired, i) => Newly(fired, i)'
  BY <1>2 DEF Newly
<1>6. TypeOK' /\ TimesOK'
  <2>1. /\ DOMAIN created' \subseteq Albums
        /\ \A b \in DOMAIN created' : created'[b] \in Nat /\ created'[b] <= clock
    BY <1>2, <1>t DEF Inv, TypeOK, TimesOK
  <2>2. /\ readable' \in BOOLEAN /\ cache' \subseteq Albums
        /\ (cache' # {} => readable') /\ saved' \in BOOLEAN
    BY <1>t DEF Inv, TypeOK
  <2> QED
    BY <1>2, <1>t, <2>1, <2>2 DEF Inv, TypeOK, TimesOK
<1>7. ASSUME NEW j \in Jobs PROVE JobOK(j)'
  <2>1. PICK r \in Job : r = jobs[j] /\ r = jobs'[j]
    BY <1>t DEF Inv, TypeOK
  <2>2. /\ r.fired \in Nat
        /\ j = "daily" => (r.pc # "idle" => r.fired <= clock)
    BY <2>1, KindsOfJobs DEF Job, Inv, JobOK, Running
  <2>3. j = "daily" => DailyOK(r)
    BY <2>1 DEF Inv, JobOK
  <2>4. ASSUME j = "daily" PROVE DailyOK(r)'
    <3>1. r.pc = "select" =>
             \A a \in Known' : created'[a] < r.fired => a \in r.albums
      BY <1>2, <1>t, <2>2, <2>3, <2>4 DEF DailyOK
    <3>2. r.pc = "post" =>
             /\ \A i \in r.text : Newly(r.fired, i)'
             /\ \A a \in DOMAIN created' : Due(r.fired, a)' => Album(a) \in r.text
      BY <1>3, <1>5, <2>2, <2>3, <2>4 DEF DailyOK
    <3>3. r.pc \in {"anniversaries", "congratulate"} /\ ~r.failed =>
             Announced(r.fired)'
      BY <1>4, <2>2, <2>3, <2>4 DEF DailyOK
    <3> QED
      BY <1>t, <2>3, <2>4, <3>1, <3>2, <3>3 DEF DailyOK
  <2> QED
    BY <1>2, <1>t, <2>1, <2>4 DEF Inv, JobOK, Running
<1>8. PostsOK'
  BY <1>5, <1>t DEF Inv, PostsOK
<1>9. CompleteOK'
  <2>1. \A fired \in complete : fired \in Nat
    BY DailyAssumption DEF Inv, TypeOK
  <2> QED
    BY <1>4, <1>t, <2>1 DEF Inv, CompleteOK
<1>10. ShutdownOK'
  BY <1>t DEF Inv, ShutdownOK, Idle, Running
<1>11. FilesOK'
  <2>1. InStatus => Saving
    BY DEF InStatus, Saving
  <2>2. \A j \in Syncs : jobs[j].pc \in {"save", "status"} => Saving
    BY DEF Saving
  <2>3. InStatus' <=> InStatus
    BY <1>t DEF InStatus
  <2> QED
    BY <1>2, <1>t, <2>1, <2>2, <2>3 DEF Inv, FilesOK
<1> QED
  BY <1>6, <1>7, <1>8, <1>9, <1>10, <1>11 DEF Inv

\* Steps of main leave the clock, the albums and what was posted alone.
LEMMA MainKeepsPosts ==
    ASSUME Inv, UNCHANGED envvars
    PROVE  TimesOK' /\ PostsOK' /\ CompleteOK'
  BY DEF envvars, Inv, TimesOK, PostsOK, CompleteOK, Newly, Announced, Due, Known

LEMMA MainKeepsFiles ==
    ASSUME Inv, UNCHANGED envvars,
           \A j \in Syncs : \/ jobs'[j] = jobs[j]
                          \/ jobs'[j].pc \notin {"save", "status"}
    PROVE  /\ FilesOK' /\ readable' \in BOOLEAN /\ cache' \subseteq Albums
           /\ saved' \in BOOLEAN /\ (cache' # {} => readable')
<1>1. /\ created' = created /\ overtaken' = overtaken /\ readable' = readable
      /\ cache' = cache /\ saved' = saved
  BY DEF envvars, filevars
<1>2. InStatus' => InStatus
  BY DEF InStatus
<1> QED
  BY <1>1, <1>2 DEF Inv, TypeOK, FilesOK, Known

LEMMA MainKeepsJobs ==
    ASSUME Inv, UNCHANGED <<envvars, jobs>>, ShutdownOK',
           main' \in {"up", "signalled", "stopping", "stopped", "closed"},
           database' \in {"open", "closed"}, timedOut' \in BOOLEAN
    PROVE  Inv'
<1>0. UNCHANGED envvars /\ jobs' = jobs
  OBVIOUS
<1>1. TypeOK'
  BY <1>0, MainKeepsFiles DEF envvars, Inv, TypeOK
<1>2. \A j \in Jobs : JobOK(j)'
  BY OthersStayOK DEF envvars, Inv
<1> QED
  BY <1>0, <1>1, <1>2, MainKeepsPosts, MainKeepsFiles DEF Inv

LEMMA StartKeepsInv ==
    ASSUME Inv, Start
    PROVE  Inv'
<1>1. \A j \in Jobs :
         \/ jobs'[j] = NoJob
         \/ j = "startup" /\ jobs'[j] = Begin(j, clock)
  BY DEF Start
<1>t. /\ UNCHANGED envvars /\ clock' = clock /\ clock \in Nat /\ JobTime \in Nat
      /\ created' = created /\ overtaken' = overtaken /\ posts' = posts
      /\ complete' = complete
      /\ main' = "up" /\ database' = "open" /\ timedOut' = FALSE
  BY DailyAssumption DEF Start, envvars, Inv, TypeOK
<1>2. \A j \in Jobs : jobs'[j] \in Job /\ WellFormed(jobs'[j])
  BY <1>1, <1>t, NoJobIsOK, BegunJob
<1>f. /\ FilesOK' /\ readable' \in BOOLEAN /\ cache' \subseteq Albums
      /\ saved' \in BOOLEAN /\ (cache' # {} => readable')
  <2>1. \A j \in Jobs : jobs'[j].pc \notin {"save", "status"}
    BY <1>1, <1>t, BegunJob DEF NoJob
  <2> QED
    BY <1>t, <2>1, KindsOfJobs, MainKeepsFiles
<1>3. TypeOK'
  <2>1. jobs' \in [Jobs -> Job]
    BY <1>2 DEF Start
  <2> QED
    BY <1>2, <1>f, <1>t, <2>1 DEF Inv, TypeOK, WellFormed
<1>4. ASSUME NEW j \in Jobs PROVE JobOK(j)'
  <2>1. CASE jobs'[j] = NoJob
    BY <2>1 DEF JobOK, DailyOK, Running, NoJob
  <2>2. CASE j = "startup" /\ jobs'[j] = Begin(j, clock)
    <3>1. jobs'[j].fired = clock /\ jobs'[j].albums = {}
      BY <1>t, <2>2, BegunJob
    <3> QED
      BY <1>t, <2>2, <3>1 DEF JobOK
  <2> QED
    BY <1>1, <2>1, <2>2
<1>5. ShutdownOK'
  BY <1>t DEF ShutdownOK
<1> QED
  BY <1>3, <1>4, <1>5, <1>f, <1>t, MainKeepsPosts DEF Inv

LEMMA DownKeepsInv ==
    ASSUME Inv, Down
    PROVE  Inv'
<1>1. \A j \in Jobs : jobs'[j] = NoJob
  BY DEF Down
<1>f. /\ FilesOK' /\ readable' \in BOOLEAN /\ cache' \subseteq Albums
      /\ saved' \in BOOLEAN /\ (cache' # {} => readable')
  <2>1. \A j \in Jobs : jobs'[j].pc \notin {"save", "status"}
    BY <1>1 DEF NoJob
  <2>2. UNCHANGED envvars
    BY DEF Down
  <2> QED
    BY <2>1, <2>2, KindsOfJobs, MainKeepsFiles
<1>2. TypeOK'
  <2>1. jobs' \in [Jobs -> Job]
    BY NoJobIsOK DEF Down
  <2> QED
    BY <1>1, <1>f, <2>1, NoJobIsOK DEF Down, envvars, Inv, TypeOK, WellFormed
<1>3. \A j \in Jobs : JobOK(j)'
  BY <1>1 DEF JobOK, DailyOK, Running, NoJob
<1>4. ShutdownOK'
  BY <1>1 DEF Down, ShutdownOK, Idle, Running, NoJob, Scheduled, Jobs
<1> QED
  BY <1>2, <1>3, <1>4, <1>f, MainKeepsPosts DEF Down, Inv

LEMMA MainKeepsInv ==
    ASSUME Inv, Start \/ Signal \/ Shutdown \/ Crash
    PROVE  Inv'
<1>t. timedOut \in BOOLEAN /\ database \in {"open", "closed"} /\ ShutdownOK
  BY DEF Inv, TypeOK
<1>1. CASE Start
  BY <1>1, StartKeepsInv
<1>2. CASE Signal
  <2>1. ShutdownOK'
    BY <1>2, <1>t DEF Signal, ShutdownOK
  <2> QED
    BY <1>2, <1>t, <2>1, MainKeepsJobs DEF Signal
<1>3. CASE StopCron
  <2>1. ShutdownOK'
    BY <1>3, <1>t DEF StopCron, ShutdownOK
  <2> QED
    BY <1>3, <1>t, <2>1, MainKeepsJobs DEF StopCron
<1>4. CASE Stop
  <2>1. ShutdownOK' /\ timedOut' \in BOOLEAN
    BY <1>4, <1>t DEF Stop, ShutdownOK, Idle, Running
  <2> QED
    BY <1>4, <1>t, <2>1, MainKeepsJobs DEF Stop
<1>5. CASE CloseDatabase
  <2>1. ShutdownOK'
    BY <1>5, <1>t DEF CloseDatabase, ShutdownOK, Idle, Running
  <2> QED
    BY <1>5, <1>t, <2>1, MainKeepsJobs DEF CloseDatabase
<1>6. CASE Exit \/ Crash
  BY <1>6, DownKeepsInv DEF Exit, Crash
<1> QED
  BY <1>1, <1>2, <1>3, <1>4, <1>5, <1>6 DEF Shutdown

LEMMA NextInv == Inv /\ [Next]_vars => Inv'
<1> SUFFICES ASSUME Inv, [Next]_vars PROVE Inv'
  OBVIOUS
<1>1. CASE Tick
  BY <1>1, TickKeepsInv
<1>2. CASE Scan
  BY <1>2, ScanKeepsInv
<1>3. ASSUME NEW j \in Checks,
             SelectNew(j) \/ CheckAnniversaries(j) \/ SendNotification(j)
      PROVE  Inv'
  BY <1>3, SelectNewKeepsInv, CheckAnniversariesKeepsInv,
     SendNotificationKeepsInv
<1>7. ASSUME NEW j \in Syncs, ListNew(j) \/ SaveCache(j) \/ SaveStatus(j)
      PROVE  Inv'
  BY <1>7, ListNewKeepsInv, SaveCacheKeepsInv, SaveStatusKeepsInv
<1>8. ASSUME NEW j \in Commands, BeginSync(j)
      PROVE  Inv'
  BY <1>8, BeginSyncKeepsInv
<1>4. CASE EndPurge("purge")
  BY <1>4, EndPurgeKeepsInv
<1>5. CASE Start \/ Signal \/ Shutdown \/ Crash
  BY <1>5, MainKeepsInv
<1>6. CASE UNCHANGED vars
  <2>1. /\ UNCHANGED <<envvars, jobs>> /\ UNCHANGED <<main, database, timedOut>>
        /\ UNCHANGED envvars /\ jobs' = jobs
    BY <1>6 DEF vars, filevars, envvars
  <2>2. \A j \in Jobs : JobOK(j)'
    BY <2>1, OthersStayOK DEF envvars, Inv
  <2>3. TypeOK' /\ ShutdownOK'
    BY <2>1 DEF envvars, filevars, Inv, TypeOK, ShutdownOK, Idle, Running
  <2> QED
    BY <2>1, <2>2, <2>3, MainKeepsPosts, MainKeepsFiles DEF Inv
<1> QED
  BY <1>1, <1>2, <1>3, <1>4, <1>5, <1>6, <1>7, <1>8 DEF Next

LEMMA Invariance == Spec => []Inv
  BY InitInv, NextInv, PTL DEF Spec

----------------------------------------------------------------------------
(* Theorems.                                                               *)

\* The variables keep their types.
THEOREM TypeCorrect == Spec => []TypeOK
<1>1. Inv => TypeOK
  BY DEF Inv
<1> QED
  BY <1>1, Invariance, PTL

\* A daily check in which nothing fails announces the albums of the day before
\* it to every chat (runDailyJob, GetNewAlbums), but for those added in the
\* first JobTime of that day, and for those that a scan added between the list
\* of a sync and its save; also when its sync was skipped for a cache that other
\* syncs have left (sync.go:44-66), however many run at once, fail or crash.
THEOREM NewAlbumsReachEveryChat == Spec => []NewAlbumsAreAnnounced
<1>1. Inv => NewAlbumsAreAnnounced
  BY DEF Inv, CompleteOK, Announced, Due, Known, NewAlbumsAreAnnounced
<1> QED
  BY <1>1, Invariance, PTL

\* The daily checks of cron repeat no album but those added while the earlier
\* of two was running, and no anniversary.
THEOREM PostsAreRarelyRepeated == Spec => []PostedTwiceOnlyOverlapping
<1>1. ASSUME Inv, NEW p \in posts, NEW q \in posts,
             p.item = q.item, p.fired < q.fired
      PROVE  \E a \in DOMAIN created :
                /\ p.item = Album(a)
                /\ created[a] \in p.fired .. p.fired + JobTime
                /\ created[a] > q.fired - Window
  <2>1. p.fired \in Daily /\ q.fired \in Daily
    BY <1>1 DEF Inv, TypeOK
  <2>2. /\ p.fired \in Nat /\ q.fired \in Nat /\ Window \in Nat
        /\ JobTime \in Nat /\ p.fired + Window <= q.fired
    BY <1>1, <2>1, ChecksAreDaysApart, DailyAssumption
  <2>3. Day(p.fired) # Day(q.fired)
    BY <2>2, NextDayIsAnother
  <2>4. /\ Newly(p.fired, p.item) \/ p.item = Anniversaries(Day(p.fired))
        /\ Newly(q.fired, p.item) \/ p.item = Anniversaries(Day(q.fired))
    BY <1>1 DEF Inv, PostsOK
  <2>5. Newly(p.fired, p.item) /\ Newly(q.fired, p.item)
    BY <2>3, <2>4, ItemsDiffer DEF Newly
  <2>6. PICK a \in DOMAIN created :
           p.item = Album(a) /\ created[a] <= p.fired + JobTime
    BY <2>5 DEF Newly
  <2>7. created[a] > q.fired - Window
    BY <2>5, <2>6, ItemsDiffer DEF Newly
  <2>8. created[a] \in Nat
    BY <1>1 DEF Inv, TimesOK
  <2> QED
    BY <2>2, <2>6, <2>7, <2>8
<1>2. Inv => PostedTwiceOnlyOverlapping
  BY <1>1 DEF PostedTwiceOnlyOverlapping
<1> QED
  BY <1>2, Invariance, PTL

\* The anniversaries posted by cron are those of the day on which it fired, on
\* a schedule that leaves the job time to end before midnight (main.go:115).
THEOREM AnniversariesAreOfTheDay == Spec => []AnniversariesOfTheDay
<1>1. Inv => AnniversariesOfTheDay
  BY ItemsDiffer
  DEF Inv, PostsOK, CompleteOK, Newly, AnniversariesOfTheDay
<1> QED
  BY <1>1, Invariance, PTL

\* The deferred calls of main close the database after the scheduled jobs,
\* unless sched.Stop gave up waiting for them.
THEOREM JobsFindTheDatabaseOpen == Spec => []DatabaseOutlivesJobs
<1>1. Inv => DatabaseOutlivesJobs
  BY DEF Inv, TypeOK, ShutdownOK, Idle, DatabaseOutlivesJobs
<1> QED
  BY <1>1, Invariance, PTL
=============================================================================
