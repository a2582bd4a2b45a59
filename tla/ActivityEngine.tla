--------------------------- MODULE ActivityEngine ---------------------------
(***************************************************************************)
(* internal/activity and its callers: logins, recommendations, validation  *)
(* of the saved credentials and the purge of inactive users, over the      *)
(* tables of Database and the accounts of NavidromeServer.                 *)
(*                                                                         *)
(* The Telegram library runs every update in a goroutine of its own, the   *)
(* scheduler does so for every job, and a login leaves a background sync   *)
(* behind, so any number of requests are in progress at a time.  A worker  *)
(* is a goroutine that serves one request after the other.  It takes one   *)
(* step per statement of the database, per HTTP request (at the instant    *)
(* the server answers it) and per critical section of recentPickedUsersMu; *)
(* the steps of different workers interleave freely.                       *)
(***************************************************************************)
EXTENDS Database, NavidromeServer, SequencesExt

CONSTANTS
    Workers,        \* goroutines that run at a time
    Kinds,          \* bound: the kinds of requests that arrive
    AskedTypes,     \* bound: the types of items that they ask for
    StarredCacheTTL,
    MaxRecentMemorized,
    MaxInactive     \* maxDays of the purge, in the unit of the clock

ASSUME EngineAssumption ==
    /\ Kinds \subseteq {"login", "recommend", "random", "keyboard", "purge"}
    /\ AskedTypes \subseteq ItemTypes
    /\ StarredCacheTTL \in Nat
    /\ MaxRecentMemorized \in Nat \ {0}
    /\ MaxInactive \in Nat

VARIABLES
    recentPickedUsers,  \* in memory, the last pick first
    job                 \* worker -> the request it serves, with its locals

vars == <<credentials, starred_cache, clock, account, recentPickedUsers, job>>

\* pc is the step to come.  While a sync stores its snapshot, pc is the type
\* whose transaction comes next.
PCs == {"idle", "ping", "store", "fetch", "check", "credential", "serve",
        "list", "validate", "verify", "evict", "pool", "pick",
        "inspect", "purge"} \cup ItemTypes

\* The steps at which a request has no user in hand.
BetweenUsers == {"idle", "list", "validate", "pool", "pick", "inspect"}

\* "retry" is a random request that draws from a second user.
JobRecord == [pc : PCs,
              kind : Kinds \cup {"none", "retry"},
              user : Users \cup {NoUser},
              password : Nat,
              telegramID : TelegramIDs \cup {NULL},
              itemType : ItemTypes,
              starred : Snapshot,
              caller : Users \cup {NoUser},
              usernames : SUBSET Users,   \* of the loops: those still to come
              validUsers : SUBSET Users,
              pool : SUBSET Users,
              started : Nat]              \* when the loop began

\* A user is never drawn from an empty pool.
Job == {j \in JobRecord : /\ j.user = NoUser <=> j.pc \in BetweenUsers
                          /\ j.pc = "pick" => j.pool # {}}

NoJob == [pc |-> "idle", kind |-> "none", user |-> NoUser, password |-> 0,
          telegramID |-> NULL, itemType |-> "song", starred |-> NothingStarred,
          caller |-> NoUser, usernames |-> {}, validUsers |-> {}, pool |-> {},
          started |-> 0]

TypeOK ==
    /\ DatabaseTypeOK
    /\ ServerTypeOK
    /\ job \in [Workers -> Job]

\* A start on the database that earlier runs left behind: some users have
\* logged in and nothing of theirs is cached.
Init ==
    /\ ServerInit
    /\ \E registered \in SUBSET Users :
          credentials \in [registered ->
                             [password : {0},
                              telegram_id : TelegramIDs \cup {NULL}]]
    /\ starred_cache = {}
    /\ recentPickedUsers = <<>>
    /\ job = [w \in Workers |-> NoJob]

----------------------------------------------------------------------------
(* Steps of a worker.                                                      *)

At(w, pc) == job[w].pc = pc
Become(w, j) == job' = [job EXCEPT ![w] = j]
Goto(w, pc) == Become(w, [job[w] EXCEPT !.pc = pc])
End(w) == Become(w, NoJob)

Start(w, kind, j) ==
    /\ At(w, "idle")
    /\ kind \in Kinds
    /\ Become(w, [j EXCEPT !.kind = kind])
    /\ UNCHANGED <<dbvars, servervars, recentPickedUsers>>

----------------------------------------------------------------------------
(* /login: verify with a ping, store, then sync in the background.         *)

StartLogin(w) ==
    \E u \in Users, password \in 0..MaxPassword, id \in TelegramIDs :
        Start(w, "login", [NoJob EXCEPT !.pc = "ping", !.user = u,
                                        !.password = password,
                                        !.telegramID = id])

\* Mutant: the answer of the ping is not looked at.
PingIgnored(w) ==
    /\ At(w, "ping")
    /\ Goto(w, "store") \/ End(w)
    /\ UNCHANGED <<dbvars, servervars, recentPickedUsers>>

\* The request may fail on the way, too.
Ping(w) ==
    /\ At(w, "ping")
    /\ \/ /\ Accepts(job[w].user, job[w].password)
          /\ Goto(w, "store")
       \/ End(w)
    /\ UNCHANGED <<dbvars, servervars, recentPickedUsers>>

Store(w) ==
    /\ At(w, "store")
    /\ \/ /\ UpsertCredential(job[w].user, job[w].password, job[w].telegramID)
          /\ Goto(w, "fetch")
       \/ End(w) /\ UNCHANGED dbvars        \* database error
    /\ UNCHANGED <<servervars, recentPickedUsers>>

----------------------------------------------------------------------------
(* SyncUserStarred: fetch, then one transaction per item type.             *)

Fetch(w) ==
    /\ At(w, "fetch")
    /\ \/ /\ Accepts(job[w].user, job[w].password)
          /\ Become(w, [job[w] EXCEPT
                           !.pc = "song",
                           !.starred = account[job[w].user].starred])
       \/ End(w)
    /\ UNCHANGED <<dbvars, servervars, recentPickedUsers>>

\* The background sync of a login ends here, EnsureUserSynced goes on.
AfterUpsert(j) ==
    CASE j.pc = "song" -> "album"
      [] j.pc = "album" -> "artist"
      [] j.pc = "artist" -> IF j.kind = "login" THEN "idle" ELSE "serve"

UpsertType(w) ==
    LET j == job[w]
    IN  /\ j.pc \in ItemTypes
        /\ \/ /\ UpsertStarredItems(j.user, j.pc, j.starred[j.pc], clock)
              /\ IF AfterUpsert(j) = "idle" THEN End(w)
                 ELSE Goto(w, AfterUpsert(j))
           \/ End(w) /\ UNCHANGED dbvars    \* no parent row, database error
        /\ UNCHANGED <<servervars, recentPickedUsers>>

----------------------------------------------------------------------------
(* GetRecommendations: EnsureUserSynced, then the cached items.            *)

\* The user is a button of a keyboard, which may be an old one.
StartRecommend(w) ==
    \E u \in Users, t \in AskedTypes :
        Start(w, "recommend", [NoJob EXCEPT !.pc = "check", !.user = u,
                                            !.itemType = t])

Fresh(u) ==
    /\ GetStarredSyncTime(u) # NeverSynced
    /\ clock - GetStarredSyncTime(u) < StarredCacheTTL

\* After a database error it proceeds to the sync.
CheckSyncTime(w) ==
    /\ At(w, "check")
    /\ \/ Fresh(job[w].user) /\ Goto(w, "serve")
       \/ Goto(w, "credential")
    /\ UNCHANGED <<dbvars, servervars, recentPickedUsers>>

ReadCredential(w) ==
    /\ At(w, "credential")
    /\ \/ /\ job[w].user \in ListUsers
          /\ Become(w, [job[w] EXCEPT
                           !.pc = "fetch",
                           !.password = credentials[job[w].user].password])
       \/ End(w)
    /\ UNCHANGED <<dbvars, servervars, recentPickedUsers>>

Others(w) == job[w].pool \ {job[w].user}

MustRetry(w) ==
    /\ job[w].kind = "random"
    /\ GetStarredItems(job[w].user, job[w].itemType) = {}
    /\ Others(w) # {}

\* Mutant: the second draw is not the last one.
ServeUntilFound(w) ==
    /\ At(w, "serve")
    /\ \/ /\ MustRetry(w)
          /\ \E u \in Others(w) : Become(w, [job[w] EXCEPT !.pc = "check", !.user = u])
       \/ ~MustRetry(w) /\ End(w)
    /\ UNCHANGED <<dbvars, servervars, recentPickedUsers>>

\* A random request that finds nothing draws once more, from another user.
Serve(w) ==
    /\ At(w, "serve")
    /\ \/ /\ MustRetry(w)
          /\ \E u \in Others(w) :
                Become(w, [job[w] EXCEPT !.pc = "check", !.kind = "retry",
                                         !.user = u])
       \/ End(w)                            \* nobody else, database error
    /\ UNCHANGED <<dbvars, servervars, recentPickedUsers>>

----------------------------------------------------------------------------
(* ValidateAndGetUsers: ping with every saved credential.                  *)

StartKeyboard(w) == Start(w, "keyboard", [NoJob EXCEPT !.pc = "list"])

\* The username linked to the sender is excluded; a database error leaves
\* the exclusion empty.
StartRandom(w) ==
    \E id \in TelegramIDs, t \in AskedTypes :
        \E caller \in GetNavidromeUserByTelegramID(id) \cup {NoUser} :
            Start(w, "random", [NoJob EXCEPT !.pc = "list", !.itemType = t,
                                             !.caller = caller])

List(w) ==
    /\ At(w, "list")
    /\ \/ LET head == IF job[w].kind = "purge" THEN "inspect" ELSE "validate"
          IN  Become(w, [job[w] EXCEPT !.pc = head, !.usernames = ListUsers,
                                       !.started = clock])
       \/ End(w)                            \* database error
    /\ UNCHANGED <<dbvars, servervars, recentPickedUsers>>

\* Between two iterations a loop holds no user and no password.
BackTo(j, pc) == [j EXCEPT !.pc = pc, !.user = NoUser, !.password = 0]

\* The head of the loop.  A credential that cannot be read is skipped.
Validate(w) ==
    LET j == job[w]
    IN  /\ At(w, "validate")
        /\ \/ \E u \in j.usernames \cap ListUsers :
                 Become(w, [j EXCEPT !.pc = "verify", !.user = u,
                                     !.password = credentials[u].password,
                                     !.usernames = @ \ {u}])
           \/ \E u \in j.usernames : Become(w, [j EXCEPT !.usernames = @ \ {u}])
           \/ /\ j.usernames = {}
              /\ IF j.kind = "random" /\ j.validUsers # {} THEN Goto(w, "pool")
                 ELSE End(w)
        /\ UNCHANGED <<dbvars, servervars, recentPickedUsers>>

\* A user stays valid when the server does not answer.
Verify(w) ==
    LET j == job[w]
    IN  /\ At(w, "verify")
        /\ \/ ~Accepts(j.user, j.password) /\ Goto(w, "evict")
           \/ Become(w, BackTo([j EXCEPT !.validUsers = @ \cup {j.user}],
                              "validate"))
        /\ UNCHANGED <<dbvars, servervars, recentPickedUsers>>

Evict(w) ==
    /\ At(w, "evict")
    /\ DeleteUser(job[w].user) \/ UNCHANGED dbvars
    /\ Become(w, BackTo(job[w], "validate"))
    /\ UNCHANGED <<servervars, recentPickedUsers>>

----------------------------------------------------------------------------
(* GetRandomUserRecommendations: two critical sections, the choice of the  *)
(* user in the second one.                                                 *)

\* Mutant: the last one of the memory is left out.
RecentButOne(users) ==
    LET memoLimit == Min({Cardinality(users) - 1, MaxRecentMemorized})
    IN  {recentPickedUsers[i] :
            i \in 1..Min({memoLimit - 1, Len(recentPickedUsers)})}

\* The first of the recently picked users, fewer than there are valid users.
Recent(users) ==
    LET memoLimit == Min({Cardinality(users) - 1, MaxRecentMemorized})
    IN  {recentPickedUsers[i] :
            i \in 1..Min({memoLimit, Len(recentPickedUsers)})}

\* Mutant: the fallback forgets the caller.
PoolOfEverybody(users, caller) ==
    LET fresh == (users \ Recent(users)) \ {caller}
    IN  IF fresh # {} THEN fresh ELSE users

\* The users to draw from: all but the caller when nobody else is left.
Pool(users, caller) ==
    LET fresh == (users \ Recent(users)) \ {caller}
    IN  IF fresh # {} THEN fresh ELSE users \ {caller}

\* Mutant: that nobody is left is not looked at.
ComputePoolUnchecked(w) ==
    LET pool == Pool(job[w].validUsers, job[w].caller)
    IN  /\ At(w, "pool")
        /\ Become(w, [job[w] EXCEPT !.pc = "pick", !.pool = pool])
        /\ UNCHANGED <<dbvars, servervars, recentPickedUsers>>

ComputePool(w) ==
    LET pool == Pool(job[w].validUsers, job[w].caller)
    IN  /\ At(w, "pool")
        /\ IF pool = {} THEN End(w)
           ELSE Become(w, [job[w] EXCEPT !.pc = "pick", !.pool = pool])
        /\ UNCHANGED <<dbvars, servervars, recentPickedUsers>>

\* Mutant: a user that was picked before is not moved, but added.
MemorizeAgain(u, recent) ==
    <<u>> \o SubSeq(recent, 1, Min({Len(recent), MaxRecentMemorized - 1}))

\* The loop that puts u in front of the others, after the first n of them.
UpdatedRecent(u, recent) ==
    LET updated[n \in 0..Len(recent)] ==
            IF n = 0 THEN <<u>>
            ELSE IF recent[n] = u THEN updated[n - 1]
            ELSE Append(updated[n - 1], recent[n])
    IN  updated[Len(recent)]

Memorize(u, recent) ==
    LET updated == UpdatedRecent(u, recent)
    IN  SubSeq(updated, 1, Min({Len(updated), MaxRecentMemorized}))

Pick(w) ==
    /\ At(w, "pick")
    /\ \E u \in job[w].pool :
          /\ recentPickedUsers' = Memorize(u, recentPickedUsers)
          /\ Become(w, [job[w] EXCEPT !.pc = "check", !.user = u,
                                      !.validUsers = {}])
    /\ UNCHANGED <<dbvars, servervars>>

----------------------------------------------------------------------------
(* PurgeInactiveUsers, the job of 04:00.                                   *)

StartPurge(w) == Start(w, "purge", [NoJob EXCEPT !.pc = "list"])

\* nil, or before the cutoff that was computed when the loop began.
Inactive(lastLogin, started) ==
    lastLogin = Never \/ lastLogin < started - MaxInactive

\* Mutant: a user whose last login cannot be read counts as inactive.
InspectStrictly(w) ==
    LET j == job[w]
    IN  /\ At(w, "inspect")
        /\ \/ \E u \in j.usernames :
                 Become(w, [j EXCEPT !.pc = "purge", !.user = u,
                                     !.usernames = @ \ {u}])
           \/ \E u \in j.usernames :
                 /\ ~Inactive(GetUserLastLogin(u), j.started)
                 /\ Become(w, [j EXCEPT !.usernames = @ \ {u}])
           \/ j.usernames = {} /\ End(w)
        /\ UNCHANGED <<dbvars, servervars, recentPickedUsers>>

\* The head of the loop.  A user whose last login cannot be read is kept.
Inspect(w) ==
    LET j == job[w]
    IN  /\ At(w, "inspect")
        /\ \/ \E u \in j.usernames :
                 /\ Inactive(GetUserLastLogin(u), j.started)
                 /\ Become(w, [j EXCEPT !.pc = "purge", !.user = u,
                                        !.usernames = @ \ {u}])
           \/ \E u \in j.usernames : Become(w, [j EXCEPT !.usernames = @ \ {u}])
           \/ j.usernames = {} /\ End(w)
        /\ UNCHANGED <<dbvars, servervars, recentPickedUsers>>

Purge(w) ==
    /\ At(w, "purge")
    /\ DeleteUser(job[w].user) \/ UNCHANGED dbvars
    /\ Become(w, BackTo(job[w], "inspect"))
    /\ UNCHANGED <<servervars, recentPickedUsers>>

----------------------------------------------------------------------------
\* The process dies, or is told to stop, and starts again: nothing waits for
\* the goroutines, and only the tables survive.
Restart ==
    /\ job' = [w \in Workers |-> NoJob]
    /\ recentPickedUsers' = <<>>
    /\ UNCHANGED <<dbvars, servervars>>

Arrive(w) ==
    \/ StartLogin(w)
    \/ StartRecommend(w)
    \/ StartKeyboard(w)
    \/ StartRandom(w)
    \/ StartPurge(w)

Proceed(w) ==
    \/ Ping(w)
    \/ Store(w)
    \/ Fetch(w)
    \/ UpsertType(w)
    \/ CheckSyncTime(w)
    \/ ReadCredential(w)
    \/ Serve(w)
    \/ List(w)
    \/ Validate(w)
    \/ Verify(w)
    \/ Evict(w)
    \/ ComputePool(w)
    \/ Pick(w)
    \/ Inspect(w)
    \/ Purge(w)

Environment ==
    /\ ServerNext
    /\ UNCHANGED <<dbvars, recentPickedUsers, job>>

Next ==
    \/ \E w \in Workers : Arrive(w) \/ Proceed(w)
    \/ Environment
    \/ Restart

\* A goroutine in progress goes on: no step waits for another worker, and an
\* HTTP request ends after 30 seconds at the latest.
Fairness == \A w \in Workers : WF_vars(Proceed(w))

Spec == Init /\ [][Next]_vars /\ Fairness

----------------------------------------------------------------------------
(* Properties.                                                             *)

\* The server accepted this password at some time, or has forgotten the user.
WasAccepted(u, password) ==
    u \in DOMAIN account => password <= account[u].password

\* Nothing is cached for a user without credentials, however the syncs in
\* progress interleave with the deletions of validation and purge.
CacheOwned == \A r \in starred_cache : r.username \in ListUsers

\* The tables implement the registry: credentials and favourites come and go
\* together, one user at a time, whatever the goroutines do at once.
Registry == INSTANCE FavouritesRegistry WITH
                registered <- ListUsers,
                held <- {r.username : r \in starred_cache}

ImplementsRegistry == Registry!RSpec

\* Whatever /login was typed, only passwords that Navidrome accepted for that
\* very user are saved, and used by the syncs and the validations.
SavedPasswordsWereAccepted ==
    \A u \in ListUsers : WasAccepted(u, credentials[u].password)

\* The reasons for which a worker may remove the credentials of its user: the
\* server rejects the password that the worker had read (it still does), or it
\* was told that the user is inactive, who can only have signed in since.
Rejected(j) == j.pc = "evict" /\ ~Accepts(j.user, j.password)

TooLongAgo(j) ==
    /\ j.pc = "purge"
    /\ \/ j.user \notin DOMAIN account \cap OnFirstPage
       \/ Inactive(account[j.user].lastLogin, j.started)
       \/ account[j.user].lastLogin >= j.started

RemovalHasCause ==
    \A u \in ListUsers :
        u \notin ListUsers' =>
            \E w \in Workers : /\ job[w].user = u
                               /\ Rejected(job[w]) \/ TooLongAgo(job[w])

\* Validation and purge remove a user for these reasons only, never because
\* the network failed, and one user at a time.
RemovedForCause == [][RemovalHasCause]_vars

\* A random recommendation comes from another user than the one linked to the
\* sender (handleRecUserCallback), through the pick, the fallback and the
\* second draw.
Drawn(j) ==
    /\ j.kind \in {"random", "retry"}
    /\ j.user # NoUser
    /\ j.pc \notin {"verify", "evict"}

NeverTheCaller ==
    \A w \in Workers :
        Drawn(job[w]) => job[w].user \in job[w].pool \ {job[w].caller}

\* The memory of recent picks holds users, MaxRecentMemorized of them at most
\* and no user twice, so that it spans as many users as it can.
RecentsDistinct ==
    /\ recentPickedUsers \in Seq(Users)
    /\ Len(recentPickedUsers) <= MaxRecentMemorized
    /\ \A i, k \in 1..Len(recentPickedUsers) :
          recentPickedUsers[i] = recentPickedUsers[k] => i = k

\* Every request comes to an end: the loops over the users terminate, and a
\* random recommendation draws a second time at most.
RequestsFinish == \A w \in Workers : ~At(w, "idle") ~> At(w, "idle")

----------------------------------------------------------------------------
(* What the comments of the code say, and the code does not do.            *)

\* "If a user gets ErrAuth, they are removed from the database" (activity.go):
\* the credentials that are removed are those that the server rejected.
EvictsRejectedOnly ==
    [][\A w \in Workers :
          At(w, "evict") /\ DeleteUser(job[w].user) /\ job[w].user \in ListUsers =>
             ~Accepts(job[w].user, credentials[job[w].user].password)]_vars

\* "EnsureUserSynced verifies if a user's favorites cache is fresh" for as long
\* as "starred cache is considered fresh (24 hours)": what a request is told is
\* fresh is what it is about to serve.
FreshMeansRecent ==
    [][\A w \in Workers :
          At(w, "check") /\ job'[w].pc = "serve" =>
             \A r \in RowsOf(job[w].user, job[w].itemType) :
                clock - r.synced_at < StarredCacheTTL]_vars
=============================================================================
