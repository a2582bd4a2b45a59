----------------------- MODULE ActivityEngine_proofs -----------------------
(***************************************************************************)
(* Theorems about ActivityEngine, for any users, workers and bounds.       *)
(***************************************************************************)
EXTENDS ActivityHistory, Recursion, FiniteSetTheorems, SequenceTheorems, TLAPS

LEMMA UpsertCredentialEffect ==
    ASSUME DatabaseTypeOK, NEW u \in Users, NEW password \in Nat,
           NEW id \in TelegramIDs \cup {NULL}, UpsertCredential(u, password, id)
    PROVE  /\ DatabaseTypeOK'
           /\ ListUsers' = ListUsers \cup {u}
           /\ credentials'[u].password = password
           /\ \A v \in ListUsers \ {u} : credentials'[v] = credentials[v]
           /\ starred_cache' = starred_cache
<1> DEFINE kept == IF id = NULL /\ u \in ListUsers
                   THEN credentials[u].telegram_id
                   ELSE id
           row == [password |-> password, telegram_id |-> kept]
<1>1. kept \in TelegramIDs \cup {NULL}
  BY DEF DatabaseTypeOK, ListUsers, CredentialRow
<1>2. row \in CredentialRow
  BY <1>1 DEF CredentialRow
<1>3. credentials' = [v \in ListUsers \cup {u} |->
                         IF v = u THEN row ELSE credentials[v]]
  BY DEF UpsertCredential
<1> HIDE DEF row
<1>4. ListUsers' = ListUsers \cup {u}
  BY <1>3 DEF ListUsers
<1>5. \A v \in ListUsers' : credentials'[v] = IF v = u THEN row ELSE credentials[v]
  BY <1>3 DEF ListUsers
<1>6. starred_cache' = starred_cache
  BY DEF UpsertCredential
<1>7. \A v \in ListUsers' : credentials'[v] \in CredentialRow
  BY <1>2, <1>4, <1>5 DEF DatabaseTypeOK, ListUsers
<1>8. DatabaseTypeOK'
  BY <1>3, <1>4, <1>6, <1>7 DEF DatabaseTypeOK, ListUsers
<1> QED
  BY <1>4, <1>5, <1>6, <1>8 DEF row, ListUsers

LEMMA DeleteUserEffect ==
    ASSUME DatabaseTypeOK, NEW u, DeleteUser(u)
    PROVE  /\ DatabaseTypeOK'
           /\ ListUsers' = ListUsers \ {u}
           /\ \A v \in ListUsers \ {u} : credentials'[v] = credentials[v]
           /\ starred_cache' = {r \in starred_cache : r.username # u}
<1>1. credentials' = [v \in ListUsers \ {u} |-> credentials[v]]
  BY DEF DeleteUser, Restrict
<1>2. starred_cache' = {r \in starred_cache : r.username # u}
  BY DEF DeleteUser
<1>3. DatabaseTypeOK'
  BY <1>1, <1>2 DEF DatabaseTypeOK, ListUsers
<1> QED
  BY <1>1, <1>2, <1>3 DEF ListUsers

LEMMA UpsertStarredItemsEffect ==
    ASSUME DatabaseTypeOK, NEW u \in Users, NEW t \in ItemTypes,
           NEW items \in SUBSET Items, NEW now \in Nat,
           UpsertStarredItems(u, t, items, now)
    PROVE  /\ DatabaseTypeOK'
           /\ credentials' = credentials
           /\ items = {} \/ u \in ListUsers
           /\ \A r \in starred_cache' :
                 r \in starred_cache \/ (r.username = u /\ items # {})
           /\ \A r \in starred_cache : r.username # u => r \in starred_cache'
<1> DEFINE new == {[username |-> u, item_type |-> t, item_id |-> i,
                    synced_at |-> now] : i \in items}
<1>1. credentials' = credentials /\ (items = {} \/ u \in ListUsers)
  BY DEF UpsertStarredItems, ForeignKeyHolds
<1>2. starred_cache' = (starred_cache \ RowsOf(u, t)) \cup new
  BY DEF UpsertStarredItems
<1>3. new \subseteq StarredRow
  BY DEF StarredRow
<1>4. \A r \in new : r.username = u /\ items # {}
  OBVIOUS
<1> HIDE DEF new
<1>5. starred_cache' \subseteq StarredRow
  BY <1>2, <1>3 DEF DatabaseTypeOK
<1>6. DatabaseTypeOK'
  BY <1>1, <1>5 DEF DatabaseTypeOK
<1>7. \A r \in RowsOf(u, t) : r.username = u
  BY DEF RowsOf
<1> QED
  BY <1>1, <1>2, <1>4, <1>6, <1>7

LEMMA BecomeEffect ==
    ASSUME job \in [Workers -> Job], NEW w \in Workers, NEW j \in Job,
           Become(w, j)
    PROVE  /\ job' \in [Workers -> Job]
           /\ job'[w] = j
           /\ \A v \in Workers \ {w} : job'[v] = job[v]
  BY DEF Become

LEMMA NoJobType == NoJob \in Job
  BY DEF NoJob, Job, JobRecord, BetweenUsers, PCs, ItemTypes,
            NothingStarred, Snapshot

-----------------------------------------------------------------------------
(* Type correctness.                                                       *)

LEMMA InitTypeOK == Init => TypeOK
<1> SUFFICES ASSUME Init PROVE TypeOK
  OBVIOUS
<1>1. DatabaseTypeOK
  BY DEF Init, DatabaseTypeOK, CredentialRow
<1>2. NothingStarred \in Snapshot
  BY DEF NothingStarred, Snapshot
<1>3. ServerTypeOK
  BY <1>2, ServerAssumption
     DEF Init, ServerInit, ServerTypeOK, Account, Never, FirstInstant
<1>4. job \in [Workers -> Job]
  BY NoJobType DEF Init
<1> QED
  BY <1>1, <1>3, <1>4 DEF TypeOK

LEMMA ServerNextTypeOK == ServerTypeOK /\ ServerNext => ServerTypeOK'
<1> SUFFICES ASSUME ServerTypeOK, ServerNext PROVE ServerTypeOK'
  OBVIOUS
<1>1. CASE Tick
  BY <1>1 DEF Tick, ServerTypeOK
<1>2. ASSUME NEW u \in DOMAIN account, ChangePassword(u)
      PROVE  ServerTypeOK'
  <2>1. account[u].password + 1 \in 0..MaxPassword
    BY <1>2, ServerAssumption DEF ChangePassword, ServerTypeOK, Account
  <2> QED
    BY <1>2, <2>1 DEF ChangePassword, ServerTypeOK, Account
<1>3. ASSUME NEW u \in DOMAIN account, SignIn(u)
      PROVE  ServerTypeOK'
  BY <1>3 DEF SignIn, ServerTypeOK, Account
<1>4. ASSUME NEW u \in DOMAIN account, RemoveAccount(u)
      PROVE  ServerTypeOK'
  BY <1>4 DEF RemoveAccount, Restrict, ServerTypeOK
<1>5. ASSUME NEW u \in DOMAIN account, NEW starred \in Favourites,
             Star(u, starred)
      PROVE  ServerTypeOK'
  BY <1>5, ServerAssumption DEF Star, ServerTypeOK, Account
<1> QED
  BY <1>1, <1>2, <1>3, <1>4, <1>5 DEF ServerNext

\* A step of a worker that leaves the tables and the server alone.
LEMMA QuietStepTypeOK ==
    ASSUME TypeOK, NEW w \in Workers, NEW j \in Job, Become(w, j),
           UNCHANGED <<dbvars, servervars>>
    PROVE  TypeOK'
  BY BecomeEffect DEF TypeOK, dbvars, servervars, DatabaseTypeOK, ServerTypeOK

LEMMA EndTypeOK ==
    ASSUME TypeOK, NEW w \in Workers, End(w), UNCHANGED <<dbvars, servervars>>
    PROVE  TypeOK'
  BY QuietStepTypeOK, NoJobType DEF End

LEMMA PCsAre ==
    PCs = {"idle", "ping", "store", "fetch", "check", "credential", "serve",
           "list", "validate", "verify", "evict", "pool", "pick",
           "inspect", "purge", "song", "album", "artist"}
  BY DEF PCs, ItemTypes

LEMMA UserInHand ==
    ASSUME NEW j \in Job, j.pc \notin BetweenUsers
    PROVE  j.user \in Users
  BY DEF Job, JobRecord

\* A job that moves on with the user that it has.
LEMMA MovesOnType ==
    ASSUME NEW j \in Job, NEW pc \in PCs \ {"pick"},
           j.pc \in BetweenUsers <=> pc \in BetweenUsers
    PROVE  [j EXCEPT !.pc = pc] \in Job
  BY DEF Job, JobRecord

LEMMA BackToType ==
    ASSUME NEW j \in Job, NEW pc \in (PCs \cap BetweenUsers) \ {"pick"}
    PROVE  BackTo(j, pc) \in Job
  BY DEF BackTo, Job, JobRecord

LEMMA GotoTypeOK ==
    ASSUME TypeOK, NEW w \in Workers, NEW pc \in PCs \ {"pick"}, Goto(w, pc),
           job[w].pc \in BetweenUsers <=> pc \in BetweenUsers,
           UNCHANGED <<dbvars, servervars>>
    PROVE  TypeOK'
<1>1. [job[w] EXCEPT !.pc = pc] \in Job
  BY MovesOnType DEF TypeOK
<1> QED
  BY <1>1, QuietStepTypeOK DEF Goto

LEMMA ArriveTypeOK ==
    ASSUME TypeOK, NEW w \in Workers, Arrive(w)
    PROVE  TypeOK'
<1> USE NoJobType, NoUserAssumption
<1>1. ASSUME NEW kind \in Kinds, NEW j \in Job, Start(w, kind, j)
      PROVE  TypeOK'
  <2>1. [j EXCEPT !.kind = kind] \in Job
    BY DEF Job, JobRecord
  <2> QED
    BY <1>1, <2>1, QuietStepTypeOK DEF Start
<1>2. CASE StartLogin(w)
  <2>1. PICK u \in Users, password \in 0..MaxPassword, id \in TelegramIDs :
            Start(w, "login", [NoJob EXCEPT !.pc = "ping", !.user = u,
                                            !.password = password,
                                            !.telegramID = id])
    BY <1>2 DEF StartLogin
  <2>2. password \in Nat
    BY ServerAssumption
  <2>3. [NoJob EXCEPT !.pc = "ping", !.user = u, !.password = password,
                      !.telegramID = id] \in Job
    BY <2>2, PCsAre DEF Job, JobRecord, BetweenUsers
  <2> QED
    BY <1>1, <2>1, <2>3 DEF Start
<1>3. CASE StartRecommend(w)
  <2>1. PICK u \in Users, t \in AskedTypes :
            Start(w, "recommend", [NoJob EXCEPT !.pc = "check", !.user = u,
                                                !.itemType = t])
    BY <1>3 DEF StartRecommend
  <2>2. [NoJob EXCEPT !.pc = "check", !.user = u, !.itemType = t] \in Job
    BY EngineAssumption, PCsAre DEF Job, JobRecord, BetweenUsers
  <2> QED
    BY <1>1, <2>1, <2>2 DEF Start
<1>4. CASE StartRandom(w)
  <2>1. PICK id \in TelegramIDs, t \in AskedTypes :
            \E caller \in GetNavidromeUserByTelegramID(id) \cup {NoUser} :
               Start(w, "random", [NoJob EXCEPT !.pc = "list", !.itemType = t,
                                                !.caller = caller])
    BY <1>4 DEF StartRandom
  <2>2. PICK caller \in GetNavidromeUserByTelegramID(id) \cup {NoUser} :
            Start(w, "random", [NoJob EXCEPT !.pc = "list", !.itemType = t,
                                             !.caller = caller])
    BY <2>1
  <2>3. caller \in Users \cup {NoUser}
    BY DEF GetNavidromeUserByTelegramID, ListUsers, TypeOK, DatabaseTypeOK
  <2>4. NoJob.user = NoUser
    BY DEF NoJob
  <2>5. [NoJob EXCEPT !.pc = "list", !.itemType = t, !.caller = caller] \in Job
    BY <2>3, <2>4, EngineAssumption, PCsAre DEF Job, JobRecord, BetweenUsers
  <2> QED
    BY <1>1, <2>2, <2>5 DEF Start
<1>5. CASE StartKeyboard(w) \/ StartPurge(w)
  <2>1. NoJob.pc \in BetweenUsers
    BY DEF NoJob, BetweenUsers
  <2>2. [NoJob EXCEPT !.pc = "list"] \in Job
    BY <2>1, MovesOnType, PCsAre DEF BetweenUsers
  <2> QED
    BY <1>1, <1>5, <2>2 DEF StartKeyboard, StartPurge, Start
<1> QED
  BY <1>2, <1>3, <1>4, <1>5 DEF Arrive

\* A write of the tables that keeps their types, with a step of the job.
LEMMA WriteStepTypeOK ==
    ASSUME TypeOK, DatabaseTypeOK', NEW w \in Workers, NEW j \in Job,
           Become(w, j), UNCHANGED servervars
    PROVE  TypeOK'
  BY BecomeEffect DEF TypeOK, servervars, ServerTypeOK

LEMMA ProceedTypeOK ==
    ASSUME TypeOK, NEW w \in Workers, Proceed(w)
    PROVE  TypeOK'
<1> DEFINE j == job[w]
<1> USE PCsAre, NoUserAssumption DEF BetweenUsers
<1>j. j \in Job
  BY DEF TypeOK
<1>u. ListUsers \subseteq Users /\ credentials \in [ListUsers -> CredentialRow]
  BY DEF TypeOK, DatabaseTypeOK, ListUsers
<1>1. CASE Ping(w)
  BY <1>1, EndTypeOK, GotoTypeOK DEF Ping, At
<1>2. CASE Store(w)
  <2>1. CASE End(w) /\ UNCHANGED dbvars
    BY <1>2, <2>1, EndTypeOK DEF Store
  <2>2. CASE /\ UpsertCredential(j.user, j.password, j.telegramID)
             /\ Goto(w, "fetch")
    <3>1. j.user \in Users /\ j.password \in Nat
          /\ j.telegramID \in TelegramIDs \cup {NULL}
      BY <1>2, <1>j, UserInHand DEF Store, At, Job, JobRecord
    <3>2. DatabaseTypeOK'
      BY <2>2, <3>1, UpsertCredentialEffect DEF TypeOK
    <3>3. [j EXCEPT !.pc = "fetch"] \in Job
      BY <1>2, <1>j, MovesOnType DEF Store, At
    <3> QED
      BY <1>2, <2>2, <3>2, <3>3, WriteStepTypeOK DEF Store, Goto
  <2> QED
    BY <1>2, <2>1, <2>2 DEF Store
<1>3. CASE Fetch(w)
  <2>1. ASSUME Accepts(j.user, j.password)
        PROVE  [j EXCEPT !.pc = "song", !.starred = account[j.user].starred]
                  \in Job
    <3>1. account[j.user].starred \in Snapshot
      BY <2>1 DEF Accepts, TypeOK, ServerTypeOK, Account
    <3> QED
      BY <1>3, <1>j, <3>1 DEF Fetch, At, Job, JobRecord
  <2> QED
    BY <1>3, <2>1, EndTypeOK, QuietStepTypeOK DEF Fetch
<1>4. CASE UpsertType(w)
  <2>1. CASE End(w) /\ UNCHANGED dbvars
    BY <1>4, <2>1, EndTypeOK DEF UpsertType
  <2>2. CASE UpsertStarredItems(j.user, j.pc, j.starred[j.pc], clock)
    <3>1. j.user \in Users /\ j.pc \in ItemTypes
      BY <1>4, <1>j, UserInHand DEF UpsertType, ItemTypes
    <3>2. j.starred[j.pc] \in SUBSET Items
      BY <1>j, <3>1 DEF Job, JobRecord, Snapshot
    <3>3. DatabaseTypeOK'
      BY <2>2, <3>1, <3>2, UpsertStarredItemsEffect DEF TypeOK, ServerTypeOK
    <3>4. AfterUpsert(j) \in {"idle", "album", "artist", "serve"}
      BY <3>1 DEF AfterUpsert, ItemTypes
    <3>5. AfterUpsert(j) # "idle" => [j EXCEPT !.pc = AfterUpsert(j)] \in Job
      BY <1>j, <3>1, <3>4, MovesOnType DEF ItemTypes
    <3>6. \E k \in Job : Become(w, k)
      <4>1. CASE AfterUpsert(j) = "idle"
        BY <1>4, <2>2, <4>1, NoJobType DEF UpsertType, End, dbvars
      <4>2. CASE AfterUpsert(j) # "idle"
        BY <1>4, <2>2, <4>2, <3>5, NoJobType DEF UpsertType, End, Goto
      <4> QED
        BY <4>1, <4>2
    <3> QED
      BY <1>4, <3>3, <3>6, WriteStepTypeOK DEF UpsertType
  <2> QED
    BY <1>4, <2>1, <2>2 DEF UpsertType
<1>5. CASE CheckSyncTime(w)
  BY <1>5, GotoTypeOK DEF CheckSyncTime, At
<1>6. CASE ReadCredential(w)
  <2>1. ASSUME j.user \in ListUsers
        PROVE  [j EXCEPT !.pc = "fetch",
                         !.password = credentials[j.user].password] \in Job
    <3>1. credentials[j.user].password \in Nat
      BY <1>u, <2>1 DEF CredentialRow
    <3> QED
      BY <1>6, <1>j, <3>1 DEF ReadCredential, At, Job, JobRecord
  <2> QED
    BY <1>6, <2>1, EndTypeOK, QuietStepTypeOK DEF ReadCredential
<1>7. CASE Serve(w)
  <2>1. ASSUME NEW u \in Others(w)
        PROVE  [j EXCEPT !.pc = "check", !.kind = "retry", !.user = u] \in Job
    <3>1. u \in Users
      BY <1>j, <2>1 DEF Others, Job, JobRecord
    <3> QED
      BY <1>j, <3>1 DEF Job, JobRecord
  <2> QED
    BY <1>7, <2>1, EndTypeOK, QuietStepTypeOK DEF Serve
<1>8. CASE List(w)
  <2>1. ASSUME NEW head \in {"inspect", "validate"}
        PROVE  [j EXCEPT !.pc = head, !.usernames = ListUsers,
                         !.started = clock] \in Job
    BY <1>8, <1>j, <1>u DEF List, At, Job, JobRecord, TypeOK, ServerTypeOK
  <2> QED
    BY <1>8, <2>1, EndTypeOK, QuietStepTypeOK DEF List
<1>9. CASE Validate(w)
  <2>1. ASSUME NEW u \in j.usernames \cap ListUsers
        PROVE  [j EXCEPT !.pc = "verify", !.user = u,
                         !.password = credentials[u].password,
                         !.usernames = j.usernames \ {u}] \in Job
    <3>1. credentials[u].password \in Nat
      BY <1>u, <2>1 DEF CredentialRow
    <3> QED
      BY <1>j, <1>u, <3>1 DEF Job, JobRecord
  <2>2. ASSUME NEW u
        PROVE  [j EXCEPT !.usernames = j.usernames \ {u}] \in Job
    BY <1>j DEF Job, JobRecord
  <2>3. CASE End(w)
    BY <1>9, <2>3, EndTypeOK DEF Validate
  <2>4. CASE Goto(w, "pool")
    BY <1>9, <2>4, GotoTypeOK DEF Validate, At
  <2> QED
    BY <1>9, <2>1, <2>2, <2>3, <2>4, QuietStepTypeOK DEF Validate
<1>10. CASE Verify(w)
  <2>1. CASE Goto(w, "evict")
    BY <1>10, <2>1, GotoTypeOK DEF Verify, At
  <2>2. BackTo([j EXCEPT !.validUsers = j.validUsers \cup {j.user}], "validate")
           \in Job
    <3>1. j.user \in Users
      BY <1>10, <1>j, UserInHand DEF Verify, At
    <3>2. [j EXCEPT !.validUsers = j.validUsers \cup {j.user}] \in Job
      BY <1>j, <3>1 DEF Job, JobRecord
    <3> QED
      BY <3>2, BackToType
  <2> QED
    BY <1>10, <2>1, <2>2, QuietStepTypeOK DEF Verify
<1>11. CASE Evict(w) \/ Purge(w)
  <2>1. DatabaseTypeOK'
    BY <1>11, DeleteUserEffect DEF Evict, Purge, TypeOK, dbvars, DatabaseTypeOK
  <2>2. BackTo(j, "validate") \in Job /\ BackTo(j, "inspect") \in Job
    BY <1>j, BackToType
  <2> QED
    BY <1>11, <2>1, <2>2, WriteStepTypeOK DEF Evict, Purge
<1>12. CASE ComputePool(w)
  <2> DEFINE pool == Pool(j.validUsers, j.caller)
  <2>1. pool \subseteq Users
    BY <1>j DEF Pool, Job, JobRecord
  <2>2. ASSUME pool # {}
        PROVE  [j EXCEPT !.pc = "pick", !.pool = pool] \in Job
    BY <1>12, <1>j, <2>1, <2>2 DEF ComputePool, At, Job, JobRecord
  <2> QED
    BY <1>12, <2>2, EndTypeOK, QuietStepTypeOK DEF ComputePool
<1>13. CASE Pick(w)
  <2>1. ASSUME NEW u \in j.pool
        PROVE  [j EXCEPT !.pc = "check", !.user = u, !.validUsers = {}] \in Job
    BY <1>j DEF Job, JobRecord
  <2> QED
    BY <1>13, <2>1, QuietStepTypeOK DEF Pick
<1>14. CASE Inspect(w)
  <2>1. ASSUME NEW u \in j.usernames
        PROVE  [j EXCEPT !.pc = "purge", !.user = u,
                         !.usernames = j.usernames \ {u}] \in Job
    BY <1>j DEF Job, JobRecord
  <2>2. ASSUME NEW u
        PROVE  [j EXCEPT !.usernames = j.usernames \ {u}] \in Job
    BY <1>j DEF Job, JobRecord
  <2> QED
    BY <1>14, <2>1, <2>2, EndTypeOK, QuietStepTypeOK DEF Inspect
<1> QED
  BY <1>1, <1>2, <1>3, <1>4, <1>5, <1>6, <1>7, <1>8, <1>9, <1>10, <1>11,
     <1>12, <1>13, <1>14 DEF Proceed

LEMMA NextTypeOK == TypeOK /\ [Next]_vars => TypeOK'
<1> SUFFICES ASSUME TypeOK, [Next]_vars PROVE TypeOK'
  OBVIOUS
<1>1. CASE \E w \in Workers : Arrive(w) \/ Proceed(w)
  BY <1>1, ArriveTypeOK, ProceedTypeOK
<1>2. CASE Environment
  BY <1>2, ServerNextTypeOK DEF Environment, TypeOK, dbvars, DatabaseTypeOK
<1>3. CASE Restart
  BY <1>3, NoJobType DEF Restart, TypeOK, dbvars, servervars, DatabaseTypeOK,
                         ServerTypeOK
<1>4. CASE UNCHANGED vars
  BY <1>4 DEF vars, TypeOK, DatabaseTypeOK, ServerTypeOK
<1> QED
  BY <1>1, <1>2, <1>3, <1>4 DEF Next

\* Every value stays within its type: the rows, the accounts, and the locals
\* of the requests, which have a user in hand exactly between the two ends of
\* an iteration.
THEOREM TypeCorrect == Spec => []TypeOK
  BY InitTypeOK, NextTypeOK, PTL DEF Spec

-----------------------------------------------------------------------------
(* Why credentials disappear.                                              *)
(*                                                                         *)
(* A validation acts on a password and on an answer that may be old when   *)
(* it deletes the row.  That the answer still holds then rests on what the *)
(* passwords in the table and in the hands of the workers are: once the    *)
(* server has accepted them, it can only come to reject them.              *)

\* What justifies the step that a request is about to take.
Justified(j) ==
    /\ j.pc \in {"store", "verify", "evict"} => WasAccepted(j.user, j.password)
    /\ j.pc = "evict" => Rejected(j)
    /\ j.pc = "purge" => TooLongAgo(j)
    /\ j.started <= clock

Inv ==
    /\ TypeOK
    /\ CacheOwned
    /\ SavedPasswordsWereAccepted
    /\ \A w \in Workers : Justified(job[w])

LEMMA NoJobJustified == ServerTypeOK => Justified(NoJob)
  BY DEF Justified, NoJob, ServerTypeOK

LEMMA InitInv == Init => Inv
<1> SUFFICES ASSUME Init PROVE Inv
  OBVIOUS
<1>1. TypeOK
  BY InitTypeOK
<1>2. CacheOwned
  BY DEF Init, CacheOwned
<1>3. SavedPasswordsWereAccepted
  BY DEF Init, ServerInit, SavedPasswordsWereAccepted, WasAccepted, ListUsers
<1>4. ASSUME NEW w \in Workers PROVE Justified(job[w])
  BY <1>1, NoJobJustified DEF Init, TypeOK
<1> QED
  BY <1>1, <1>2, <1>3, <1>4 DEF Inv

\* Accounts only go away, passwords only advance, and a sign-in is dated now.
LEMMA ServerNextEffect ==
    ASSUME ServerTypeOK, ServerNext
    PROVE  /\ clock <= clock'
           /\ DOMAIN account' \subseteq DOMAIN account
           /\ \A u \in DOMAIN account' :
                 /\ account[u].password <= account'[u].password
                 /\ \/ account'[u].lastLogin = account[u].lastLogin
                    \/ account'[u].lastLogin = clock
<1> DEFINE Ages(u) ==
              /\ account[u].password <= account'[u].password
              /\ \/ account'[u].lastLogin = account[u].lastLogin
                 \/ account'[u].lastLogin = clock
           Ageing == /\ clock <= clock'
                     /\ DOMAIN account' \subseteq DOMAIN account
                     /\ \A u \in DOMAIN account' : Ages(u)
<1>t. clock \in Nat /\ \A v \in DOMAIN account : account[v].password \in Int
  BY ServerAssumption DEF ServerTypeOK, Account
<1>1. ASSUME Tick
      PROVE  Ageing
  BY <1>t, <1>1 DEF Tick
<1>2. ASSUME NEW u \in DOMAIN account, ChangePassword(u) \/ SignIn(u)
      PROVE  Ageing
  BY <1>t, <1>2 DEF ChangePassword, SignIn, ServerTypeOK, Account
<1>3. ASSUME NEW u \in DOMAIN account, RemoveAccount(u)
      PROVE  Ageing
  BY <1>t, <1>3 DEF RemoveAccount, Restrict
<1>4. ASSUME NEW u \in DOMAIN account, NEW starred, Star(u, starred)
      PROVE  Ageing
  BY <1>t, <1>4 DEF Star, ServerTypeOK, Account
<1>5. Ageing
  <2> HIDE DEF Ageing
  <2> QED BY <1>1, <1>2, <1>3, <1>4 DEF ServerNext
<1> QED
  BY <1>5

LEMMA ServerStepKeepsJustified ==
    ASSUME ServerTypeOK, ServerNext, NEW j \in Job, Justified(j)
    PROVE  Justified(j)'
<1> USE ServerNextEffect DEF ServerTypeOK, Account
<1>t. /\ clock \in Nat /\ clock' \in Nat /\ j.started \in Nat /\ j.password \in Nat
      /\ \A u \in DOMAIN account :
            account[u].password \in Nat /\ account[u].lastLogin \in Nat
      /\ \A u \in DOMAIN account' :
            account'[u].password \in Nat /\ account'[u].lastLogin \in Nat
  BY ServerNextTypeOK, ServerAssumption DEF Job, JobRecord
<1>1. WasAccepted(j.user, j.password) => WasAccepted(j.user, j.password)'
  BY <1>t DEF WasAccepted
<1>2. ASSUME j.pc = "evict" PROVE Rejected(j)'
  BY <1>2, <1>t DEF Justified, WasAccepted, Rejected, Accepts
<1>3. ASSUME j.pc = "purge" PROVE TooLongAgo(j)'
  BY <1>3, <1>t DEF Justified, TooLongAgo, Inactive
<1>4. j.started <= clock'
  BY <1>t DEF Justified
<1> QED
  BY <1>1, <1>2, <1>3, <1>4 DEF Justified

\* A worker leaves the server and the other workers alone.
LEMMA WorkerFrame ==
    ASSUME TypeOK, NEW w \in Workers, Arrive(w) \/ Proceed(w)
    PROVE  /\ UNCHANGED servervars
           /\ \E j : Become(w, j)
<1>1. CASE Arrive(w)
  BY <1>1 DEF Arrive, StartLogin, StartRecommend, StartKeyboard, StartRandom,
              StartPurge, Start
<1>2. CASE Ping(w) \/ Store(w) \/ Fetch(w) \/ UpsertType(w)
  BY <1>2 DEF Ping, Store, Fetch, UpsertType, Goto, End
<1>3. CASE CheckSyncTime(w) \/ ReadCredential(w) \/ Serve(w) \/ List(w)
  BY <1>3 DEF CheckSyncTime, ReadCredential, Serve, List, Goto, End
<1>4. CASE Validate(w) \/ Verify(w) \/ Evict(w)
  BY <1>4 DEF Validate, Verify, Evict, Goto, End
<1>5. CASE ComputePool(w) \/ Pick(w) \/ Inspect(w) \/ Purge(w)
  BY <1>5 DEF ComputePool, Pick, Inspect, Purge, End
<1> QED
  BY <1>1, <1>2, <1>3, <1>4, <1>5 DEF Proceed

LEMMA WorkerChangesOnlyItsJob ==
    ASSUME TypeOK, NEW w \in Workers, Arrive(w) \/ Proceed(w)
    PROVE  \A v \in Workers \ {w} : job'[v] = job[v]
  BY WorkerFrame DEF TypeOK, Become

\* Steps after which nothing has to be justified.
Harmless == PCs \ {"store", "verify", "evict", "purge"}

LEMMA HarmlessIsJustified ==
    ASSUME NEW j, NEW k, Justified(j), k.pc \in Harmless, k.started = j.started
    PROVE  Justified(k)
  BY DEF Justified, Harmless

LEMMA WorkerStaysJustified ==
    ASSUME Inv, NEW w \in Workers, Arrive(w) \/ Proceed(w)
    PROVE  Justified(job'[w])
<1> DEFINE j == job[w]
           k == job'[w]
<1> USE PCsAre DEF Harmless
<1>j. j \in Job /\ Justified(j) /\ k \in Job
  BY ArriveTypeOK, ProceedTypeOK DEF Inv, TypeOK
<1>c. clock \in Nat /\ \A u \in DOMAIN account : account[u].password \in Nat
  BY ServerAssumption DEF Inv, TypeOK, ServerTypeOK, Account
<1>f. ASSUME NEW r, Become(w, r) PROVE k = r
  BY <1>f DEF Inv, TypeOK, Become
<1>n. Justified(NoJob)
  BY NoJobJustified DEF Inv, TypeOK
<1>e. ASSUME End(w) PROVE Justified(k)
  BY <1>e, <1>f, <1>n DEF End
<1>g. ASSUME NEW pc \in Harmless, Goto(w, pc) PROVE Justified(k)
  <2>1. k = [j EXCEPT !.pc = pc]
    BY <1>g, <1>f DEF Goto
  <2>2. k.pc = pc /\ k.started = j.started
    BY <2>1, <1>j DEF Job, JobRecord
  <2> QED
    BY <1>g, <1>j, <2>2, HarmlessIsJustified
<1>0. CASE Arrive(w)
  <2>1. k.pc \in {"ping", "check", "list"} /\ k.started = 0
    BY <1>0, <1>f DEF Arrive, StartLogin, StartRecommend, StartKeyboard,
                      StartRandom, StartPurge, Start, NoJob
  <2> QED
    BY <2>1, <1>n, HarmlessIsJustified DEF NoJob
<1>1. CASE Ping(w)
  <2>1. ASSUME Accepts(j.user, j.password), Goto(w, "store")
        PROVE  Justified(k)
    <3>1. k = [j EXCEPT !.pc = "store"]
      BY <2>1, <1>f DEF Goto
    <3>2. k.pc = "store" /\ k.user = j.user /\ k.password = j.password
          /\ k.started = j.started
      BY <3>1, <1>j DEF Job, JobRecord
    <3>3. WasAccepted(j.user, j.password)
      BY <2>1, <1>c DEF Accepts, WasAccepted
    <3> QED
      BY <3>2, <3>3, <1>j DEF Justified
  <2> QED
    BY <1>1, <1>e, <2>1 DEF Ping
<1>2. CASE Store(w)
  BY <1>2, <1>e, <1>g DEF Store
<1>3. CASE Fetch(w) \/ ReadCredential(w)
  <2>1. ASSUME ~End(w)
        PROVE  k.pc \in Harmless /\ k.started = j.started
    BY <1>3, <1>f, <1>j, <2>1 DEF Fetch, ReadCredential, Job, JobRecord
  <2> QED
    BY <1>e, <1>j, <2>1, HarmlessIsJustified
<1>4. CASE UpsertType(w)
  <2>1. AfterUpsert(j) \in {"idle", "album", "artist", "serve"}
    BY <1>4 DEF UpsertType, AfterUpsert, ItemTypes
  <2> QED
    BY <1>4, <1>e, <1>g, <2>1 DEF UpsertType
<1>5. CASE CheckSyncTime(w)
  BY <1>5, <1>g DEF CheckSyncTime
<1>6. CASE Serve(w) \/ ComputePool(w) \/ Pick(w)
  <2>1. ASSUME NEW u, Become(w, [j EXCEPT !.pc = "check", !.kind = "retry",
                                          !.user = u])
        PROVE  k.pc = "check" /\ k.started = j.started
    BY <1>f, <1>j, <2>1 DEF Job, JobRecord
  <2>2. ASSUME NEW pool, Become(w, [j EXCEPT !.pc = "pick", !.pool = pool])
        PROVE  k.pc = "pick" /\ k.started = j.started
    BY <1>f, <1>j, <2>2 DEF Job, JobRecord
  <2>3. ASSUME NEW u, Become(w, [j EXCEPT !.pc = "check", !.user = u,
                                          !.validUsers = {}])
        PROVE  k.pc = "check" /\ k.started = j.started
    BY <1>f, <1>j, <2>3 DEF Job, JobRecord
  <2>4. \/ End(w)
        \/ k.pc \in Harmless /\ k.started = j.started
    BY <1>6, <2>1, <2>2, <2>3 DEF Serve, ComputePool, Pick
  <2> QED
    BY <1>e, <1>j, <2>4, HarmlessIsJustified
<1>7. CASE List(w)
  <2>1. ASSUME ~End(w)
        PROVE  k.pc \in Harmless /\ k.started = clock
    BY <1>7, <1>f, <1>j, <2>1 DEF List, Job, JobRecord
  <2> QED
    BY <1>e, <1>c, <2>1 DEF Justified
<1>8. CASE Validate(w)
  <2>1. ASSUME NEW u \in ListUsers,
               Become(w, [j EXCEPT !.pc = "verify", !.user = u,
                                   !.password = credentials[u].password,
                                   !.usernames = j.usernames \ {u}])
        PROVE  Justified(k)
    <3>1. k.pc = "verify" /\ k.user = u /\ k.password = credentials[u].password
          /\ k.started = j.started
      BY <2>1, <1>f, <1>j DEF Job, JobRecord
    <3>2. WasAccepted(u, credentials[u].password)
      BY DEF Inv, SavedPasswordsWereAccepted
    <3> QED
      BY <3>1, <3>2, <1>j DEF Justified
  <2>2. ASSUME NEW u, Become(w, [j EXCEPT !.usernames = j.usernames \ {u}])
        PROVE  Justified(k)
    <3>1. k.pc = "validate" /\ k.started = j.started
      BY <1>8, <2>2, <1>f, <1>j DEF Validate, At, Job, JobRecord
    <3> QED
      BY <3>1, <1>j, HarmlessIsJustified
  <2> QED
    BY <1>8, <1>e, <1>g, <2>1, <2>2 DEF Validate
<1>9. CASE Verify(w)
  <2>1. ASSUME ~Accepts(j.user, j.password), Goto(w, "evict")
        PROVE  Justified(k)
    <3>1. k = [j EXCEPT !.pc = "evict"]
      BY <2>1, <1>f DEF Goto
    <3>2. k.pc = "evict" /\ k.user = j.user /\ k.password = j.password
          /\ k.started = j.started
      BY <3>1, <1>j DEF Job, JobRecord
    <3>3. WasAccepted(j.user, j.password)
      BY <1>9, <1>j DEF Verify, At, Justified
    <3> QED
      BY <3>2, <3>3, <2>1, <1>j DEF Justified, Rejected
  <2>2. ASSUME Become(w, BackTo([j EXCEPT !.validUsers =
                                              j.validUsers \cup {j.user}],
                                "validate"))
        PROVE  Justified(k)
    <3>1. k.pc = "validate" /\ k.started = j.started
      BY <1>f, <1>j, <2>2 DEF BackTo, Job, JobRecord
    <3> QED
      BY <3>1, <1>j, HarmlessIsJustified
  <2> QED
    BY <1>9, <2>1, <2>2 DEF Verify
<1>10. CASE Evict(w) \/ Purge(w)
  <2>1. k.pc \in Harmless /\ k.started = j.started
    BY <1>10, <1>f, <1>j DEF Evict, Purge, BackTo, Job, JobRecord
  <2> QED
    BY <1>j, <2>1, HarmlessIsJustified
<1>11. CASE Inspect(w)
  <2>1. ASSUME NEW u, Inactive(GetUserLastLogin(u), j.started),
               Become(w, [j EXCEPT !.pc = "purge", !.user = u,
                                   !.usernames = j.usernames \ {u}])
        PROVE  Justified(k)
    <3>1. k.pc = "purge" /\ k.user = u /\ k.started = j.started
      BY <2>1, <1>f, <1>j DEF Job, JobRecord
    <3>2. TooLongAgo(k)
      BY <3>1, <2>1 DEF TooLongAgo, GetUserLastLogin
    <3> QED
      BY <3>1, <3>2, <1>j DEF Justified
  <2>2. ASSUME NEW u, Become(w, [j EXCEPT !.usernames = j.usernames \ {u}])
        PROVE  Justified(k)
    <3>1. k.pc = "inspect" /\ k.started = j.started
      BY <1>11, <2>2, <1>f, <1>j DEF Inspect, At, Job, JobRecord
    <3> QED
      BY <3>1, <1>j, HarmlessIsJustified
  <2> QED
    BY <1>11, <1>e, <2>1, <2>2 DEF Inspect
<1> QED
  BY <1>0, <1>1, <1>2, <1>3, <1>4, <1>5, <1>6, <1>7, <1>8, <1>9, <1>10, <1>11
     DEF Proceed

\* The four ways in which a worker leaves the tables, with what its request
\* holds when it writes.
LEMMA WorkerWrites ==
    ASSUME TypeOK, NEW w \in Workers, Arrive(w) \/ Proceed(w)
    PROVE  LET j == job[w]
           IN  \/ UNCHANGED dbvars
               \/ /\ j.pc = "store" /\ j.user \in Users /\ j.password \in Nat
                  /\ j.telegramID \in TelegramIDs \cup {NULL}
                  /\ UpsertCredential(j.user, j.password, j.telegramID)
               \/ /\ j.user \in Users /\ j.pc \in ItemTypes
                  /\ j.starred[j.pc] \in SUBSET Items
                  /\ UpsertStarredItems(j.user, j.pc, j.starred[j.pc], clock)
               \/ /\ j.pc \in {"evict", "purge"} /\ j.user \in Users
                  /\ DeleteUser(j.user)
<1> DEFINE j == job[w]
<1>j. j \in Job
  BY DEF TypeOK
<1>u. j.pc \notin BetweenUsers => j.user \in Users
  BY <1>j, UserInHand
<1>1. CASE Arrive(w)
  BY <1>1 DEF Arrive, StartLogin, StartRecommend, StartKeyboard, StartRandom,
              StartPurge, Start
<1>2. CASE Store(w)
  BY <1>2, <1>j, <1>u DEF Store, At, BetweenUsers, Job, JobRecord
<1>3. CASE UpsertType(w)
  <2>1. j.user \in Users /\ j.pc \in ItemTypes
    BY <1>3, <1>u DEF UpsertType, ItemTypes, BetweenUsers
  <2>2. j.starred[j.pc] \in SUBSET Items
    BY <1>j, <2>1 DEF Job, JobRecord, Snapshot
  <2> QED
    BY <1>3, <2>1, <2>2 DEF UpsertType
<1>4. CASE Evict(w) \/ Purge(w)
  BY <1>4, <1>u DEF Evict, Purge, At, BetweenUsers
<1>5. CASE \/ Ping(w) \/ Fetch(w) \/ CheckSyncTime(w) \/ ReadCredential(w)
           \/ Serve(w) \/ List(w)
  BY <1>5 DEF Ping, Fetch, CheckSyncTime, ReadCredential, Serve, List
<1>6. CASE \/ Validate(w) \/ Verify(w) \/ ComputePool(w) \/ Pick(w)
           \/ Inspect(w)
  BY <1>6 DEF Validate, Verify, ComputePool, Pick, Inspect
<1> QED
  BY <1>1, <1>2, <1>3, <1>4, <1>5, <1>6 DEF Proceed

LEMMA WorkerKeepsTables ==
    ASSUME Inv, NEW w \in Workers, Arrive(w) \/ Proceed(w)
    PROVE  CacheOwned' /\ SavedPasswordsWereAccepted'
<1> DEFINE j == job[w]
<1>t. TypeOK /\ DatabaseTypeOK /\ CacheOwned /\ SavedPasswordsWereAccepted
      /\ Justified(j) /\ clock \in Nat
  BY DEF Inv, TypeOK, ServerTypeOK
<1>s. UNCHANGED account
  BY <1>t, WorkerFrame DEF servervars
<1>1. CASE UNCHANGED dbvars
  BY <1>1, <1>t, <1>s DEF dbvars, CacheOwned, SavedPasswordsWereAccepted,
                          WasAccepted, ListUsers
<1>2. CASE /\ j.pc = "store" /\ j.user \in Users /\ j.password \in Nat
           /\ j.telegramID \in TelegramIDs \cup {NULL}
           /\ UpsertCredential(j.user, j.password, j.telegramID)
  <2>1. /\ ListUsers' = ListUsers \cup {j.user}
        /\ credentials'[j.user].password = j.password
        /\ \A v \in ListUsers \ {j.user} : credentials'[v] = credentials[v]
        /\ starred_cache' = starred_cache
    BY <1>2, <1>t, UpsertCredentialEffect
  <2>2. WasAccepted(j.user, j.password)
    BY <1>2, <1>t DEF Justified
  <2>3. CacheOwned'
    BY <1>t, <2>1 DEF CacheOwned
  <2>4. SavedPasswordsWereAccepted'
    BY <1>t, <1>s, <2>1, <2>2 DEF SavedPasswordsWereAccepted, WasAccepted
  <2> QED
    BY <2>3, <2>4
<1>3. CASE /\ j.user \in Users /\ j.pc \in ItemTypes
           /\ j.starred[j.pc] \in SUBSET Items
           /\ UpsertStarredItems(j.user, j.pc, j.starred[j.pc], clock)
  <2>1. /\ credentials' = credentials
        /\ j.starred[j.pc] = {} \/ j.user \in ListUsers
        /\ \A r \in starred_cache' :
              r \in starred_cache \/ (r.username = j.user /\ j.starred[j.pc] # {})
    BY <1>3, <1>t, UpsertStarredItemsEffect
  <2> QED
    BY <1>t, <1>s, <2>1 DEF CacheOwned, SavedPasswordsWereAccepted, WasAccepted,
                            ListUsers
<1>4. CASE DeleteUser(j.user)
  <2>1. /\ ListUsers' = ListUsers \ {j.user}
        /\ \A v \in ListUsers \ {j.user} : credentials'[v] = credentials[v]
        /\ starred_cache' = {r \in starred_cache : r.username # j.user}
    BY <1>4, <1>t, DeleteUserEffect
  <2> QED
    BY <1>t, <1>s, <2>1 DEF CacheOwned, SavedPasswordsWereAccepted, WasAccepted
<1> QED
  BY <1>t, <1>1, <1>2, <1>3, <1>4, WorkerWrites

LEMMA NextInv == Inv /\ [Next]_vars => Inv'
<1> SUFFICES ASSUME Inv, [Next]_vars PROVE Inv'
  OBVIOUS
<1>t. TypeOK'
  BY NextTypeOK DEF Inv
<1>1. ASSUME NEW w \in Workers, Arrive(w) \/ Proceed(w)
      PROVE  Inv'
  <2>1. CacheOwned' /\ SavedPasswordsWereAccepted'
    BY <1>1, WorkerKeepsTables
  <2>2. UNCHANGED servervars /\ \A v \in Workers \ {w} : job'[v] = job[v]
    BY <1>1, WorkerFrame, WorkerChangesOnlyItsJob DEF Inv
  <2>3. ASSUME NEW v \in Workers PROVE Justified(job[v])'
    <3>1. Justified(job'[v])
      BY <1>1, <2>2, WorkerStaysJustified DEF Inv
    <3> QED
      BY <2>2, <3>1 DEF Justified, WasAccepted, Rejected, TooLongAgo, Accepts,
                        servervars
  <2> QED
    BY <1>t, <2>1, <2>3 DEF Inv
<1>2. CASE Environment
  <2>1. ServerTypeOK /\ ServerNext /\ UNCHANGED <<credentials, starred_cache, job>>
    BY <1>2 DEF Environment, dbvars, Inv, TypeOK
  <2>2. ASSUME NEW w \in Workers PROVE Justified(job[w])'
    <3>1. job[w] \in Job /\ Justified(job[w])
      BY DEF Inv, TypeOK
    <3>2. \A j \in Job : Justified(j) => Justified(j)'
      BY <2>1, ServerStepKeepsJustified
    <3>3. job'[w] = job[w]
      BY <2>1
    <3> QED
      BY <3>1, <3>2, <3>3
  <2>3. SavedPasswordsWereAccepted'
    <3>1. ASSUME NEW u \in ListUsers, u \in DOMAIN account'
          PROVE  credentials[u].password <= account'[u].password
      <4>1. u \in DOMAIN account /\ account[u].password <= account'[u].password
        BY <3>1, <2>1, ServerNextEffect
      <4>2. credentials[u].password <= account[u].password
        BY <4>1 DEF Inv, SavedPasswordsWereAccepted, WasAccepted
      <4>3. /\ credentials[u].password \in Nat /\ account[u].password \in Nat
            /\ account'[u].password \in Nat
        BY <1>t, <3>1, <4>1, ServerAssumption
           DEF Inv, TypeOK, DatabaseTypeOK, ServerTypeOK, Account,
               CredentialRow, ListUsers
      <4> QED
        BY <4>1, <4>2, <4>3
    <3> QED
      BY <2>1, <3>1 DEF SavedPasswordsWereAccepted, WasAccepted, ListUsers
  <2>4. CacheOwned'
    BY <2>1 DEF Inv, CacheOwned, ListUsers
  <2> QED
    BY <1>t, <2>2, <2>3, <2>4 DEF Inv
<1>3. CASE Restart
  <2>1. UNCHANGED <<credentials, starred_cache, clock, account>>
    BY <1>3 DEF Restart, dbvars, servervars
  <2>2. ASSUME NEW w \in Workers PROVE Justified(job[w])'
    <3>1. Justified(NoJob)' /\ job'[w] = NoJob
      BY <1>3, <2>1, NoJobJustified
         DEF Restart, Inv, TypeOK, Justified, NoJob, ServerTypeOK
    <3> QED
      BY <3>1
  <2> QED
    BY <1>t, <2>1, <2>2 DEF Inv, CacheOwned, SavedPasswordsWereAccepted,
                            WasAccepted, ListUsers
<1>4. CASE UNCHANGED vars
  BY <1>4, <1>t DEF vars, Inv, CacheOwned, SavedPasswordsWereAccepted,
                    WasAccepted, ListUsers, Justified, Rejected, TooLongAgo,
                    Accepts
<1> QED
  BY <1>1, <1>2, <1>3, <1>4 DEF Next

LEMMA Invariance == Spec => []Inv
  BY InitInv, NextInv, PTL DEF Spec

\* The cache never outlives the credentials: no interleaving of syncs with
\* evictions and purges leaves favourites of a user who is not registered.
THEOREM CacheIsOwned == Spec => []CacheOwned
  BY Invariance, PTL DEF Inv

\* Only passwords that Navidrome accepted for that user are ever saved.
THEOREM PasswordsWereAccepted == Spec => []SavedPasswordsWereAccepted
  BY Invariance, PTL DEF Inv

\* Credentials disappear only for a user whom the server rejects or whom it
\* reported as inactive, however old the answer is by then.
THEOREM RemovalsHaveACause == Spec => RemovedForCause
<1>1. ASSUME Inv, [Next]_vars, NEW u \in ListUsers, u \notin ListUsers'
      PROVE  \E w \in Workers : /\ job[w].user = u
                                /\ Rejected(job[w]) \/ TooLongAgo(job[w])
  <2>t. TypeOK /\ DatabaseTypeOK /\ clock \in Nat
    BY <1>1 DEF Inv, TypeOK, ServerTypeOK
  <2>1. credentials' # credentials
    BY <1>1 DEF ListUsers
  <2>2. PICK w \in Workers : Arrive(w) \/ Proceed(w)
    BY <1>1, <2>1 DEF Next, Environment, Restart, dbvars, vars
  <2> DEFINE j == job[w]
  <2>3. j.pc \in {"evict", "purge"} /\ DeleteUser(j.user)
    BY <1>1, <2>t, <2>1, <2>2, WorkerWrites, UpsertCredentialEffect,
       UpsertStarredItemsEffect DEF dbvars
  <2>4. j.user = u
    BY <1>1, <2>t, <2>3, DeleteUserEffect
  <2> QED
    BY <1>1, <2>3, <2>4 DEF Inv, Justified
<1>2. Inv /\ [Next]_vars => RemovalHasCause
  BY <1>1 DEF RemovalHasCause
<1> QED
  BY <1>2, Invariance, PTL DEF Spec, RemovedForCause

-----------------------------------------------------------------------------
(* The tables implement the registry.                                      *)

Held == {r.username : r \in starred_cache}

LEMMA InitRefinement == Init => Registry!RInit
  BY DEF Init, Registry!RInit, ListUsers

LEMMA OneUserAtATime ==
    ASSUME NEW u \in Users,
           Registry!Register(u) \/ Registry!Forget(u)
              \/ Registry!Hold(u) \/ Registry!LetGo(u)
    PROVE  Registry!RNext
  BY DEF Registry!RNext

LEMMA UpsertStarredItemsRefinement ==
    ASSUME DatabaseTypeOK, NEW u \in Users, NEW t \in ItemTypes,
           NEW items \in SUBSET Items, NEW now \in Nat,
           UpsertStarredItems(u, t, items, now)
    PROVE  \/ Registry!Hold(u) \/ Registry!LetGo(u)
           \/ UNCHANGED Registry!rvars
<1>1. /\ credentials' = credentials
      /\ items = {} \/ u \in ListUsers
      /\ \A r \in starred_cache' :
            r \in starred_cache \/ (r.username = u /\ items # {})
      /\ \A r \in starred_cache :
            r.username # u => r \in starred_cache'
  BY UpsertStarredItemsEffect
<1>2. ListUsers' = ListUsers
  BY <1>1 DEF ListUsers
<1>3. Held' \ {u} = Held \ {u}
  BY <1>1 DEF Held
<1>4. u \in Held' /\ u \notin Held => u \in ListUsers
  BY <1>1 DEF Held
<1>5. CASE u \in Held' /\ u \in ListUsers
  BY <1>2, <1>3, <1>5 DEF Held, Registry!Hold
<1>6. CASE u \notin Held'
  BY <1>2, <1>3, <1>6 DEF Held, Registry!LetGo
<1>7. CASE u \in Held' /\ u \notin ListUsers
  BY <1>2, <1>3, <1>4, <1>7 DEF Held, Registry!rvars
<1> QED
  BY <1>5, <1>6, <1>7

LEMMA NextRefinement ==
    ASSUME TypeOK, [Next]_vars
    PROVE  [Registry!RNext]_(Registry!rvars)
<1>t. DatabaseTypeOK /\ clock \in Nat
  BY DEF TypeOK, ServerTypeOK
<1>q. UNCHANGED dbvars => UNCHANGED Registry!rvars
  BY DEF dbvars, ListUsers, Registry!rvars
<1>1. ASSUME NEW w \in Workers, Arrive(w) \/ Proceed(w), ~UNCHANGED dbvars
      PROVE  Registry!RNext \/ UNCHANGED Registry!rvars
  <2> DEFINE j == job[w]
  <2>1. CASE /\ j.user \in Users /\ j.password \in Nat
             /\ j.telegramID \in TelegramIDs \cup {NULL}
             /\ UpsertCredential(j.user, j.password, j.telegramID)
    <3>1. PICK u \in Users, p \in Nat, id \in TelegramIDs \cup {NULL} :
                 UpsertCredential(u, p, id)
      BY <2>1
    <3>2. ListUsers' = ListUsers \cup {u} /\ starred_cache' = starred_cache
      BY <1>t, <3>1, UpsertCredentialEffect
    <3>3. Registry!Register(u)
      BY <3>2 DEF Registry!Register
    <3> QED
      BY <3>3, OneUserAtATime
  <2>2. CASE /\ j.user \in Users /\ j.pc \in ItemTypes
             /\ j.starred[j.pc] \in SUBSET Items
             /\ UpsertStarredItems(j.user, j.pc, j.starred[j.pc], clock)
    <3>1. PICK u \in Users, t \in ItemTypes, items \in SUBSET Items, now \in Nat :
                 UpsertStarredItems(u, t, items, now)
      BY <1>t, <2>2
    <3>2. \/ Registry!Hold(u) \/ Registry!LetGo(u)
          \/ UNCHANGED Registry!rvars
      BY <1>t, <3>1, UpsertStarredItemsRefinement
    <3> QED
      BY <3>2, OneUserAtATime
  <2>3. CASE j.user \in Users /\ DeleteUser(j.user)
    <3>1. PICK u \in Users : DeleteUser(u)
      BY <2>3
    <3>2. /\ ListUsers' = ListUsers \ {u}
          /\ starred_cache' = {r \in starred_cache : r.username # u}
      BY <1>t, <3>1, DeleteUserEffect
    <3>3. Registry!Forget(u)
      BY <3>2 DEF Registry!Forget
    <3> QED
      BY <3>3, OneUserAtATime
  <2> QED
    BY <1>1, <2>1, <2>2, <2>3, WorkerWrites
<1> QED
  BY <1>q, <1>1 DEF Next, Environment, Restart, vars, dbvars

\* The engine implements FavouritesRegistry: whatever its goroutines do at
\* once, users come and go one at a time, with their favourites.
THEOREM RegistryIsImplemented == Spec => ImplementsRegistry
<1>1. Init => Registry!RInit
  BY InitRefinement
<1>2. TypeOK /\ [Next]_vars => [Registry!RNext]_(Registry!rvars)
  BY NextRefinement
<1> QED
  BY <1>1, <1>2, TypeCorrect, PTL DEF Spec, ImplementsRegistry, Registry!RSpec

-----------------------------------------------------------------------------
(* Nobody is recommended their own favourites at random.                   *)

DrawsFromThePool(j) ==
    /\ j.caller \notin j.pool
    /\ j.pc \in {"inspect", "purge"} => j.kind = "purge"
    /\ Drawn(j) => j.user \in j.pool

\* A step that keeps the user in hand, or lets it go.
LEMMA KeepsDrawing ==
    ASSUME NEW j \in Job, NEW k \in Job, DrawsFromThePool(j),
           k.kind = j.kind, k.caller = j.caller, k.pool = j.pool,
           k.user = j.user \/ k.user = NoUser,
           j.pc \notin {"verify", "evict"} \/ k.user = NoUser
              \/ k.pc \in {"verify", "evict"},
           k.pc \in {"inspect", "purge"} => k.kind = "purge"
    PROVE  DrawsFromThePool(k)
  BY DEF DrawsFromThePool, Drawn

LEMMA WorkerDrawsFromThePool ==
    ASSUME TypeOK, NEW w \in Workers, Arrive(w) \/ Proceed(w),
           DrawsFromThePool(job[w])
    PROVE  DrawsFromThePool(job'[w])
<1> DEFINE j == job[w]
           k == job'[w]
<1> USE NoUserAssumption
<1>j. j \in Job /\ k \in Job
  BY ArriveTypeOK, ProceedTypeOK DEF TypeOK
<1>f. ASSUME NEW r, Become(w, r) PROVE k = r
  BY <1>f DEF TypeOK, Become
<1>e. ASSUME End(w) PROVE DrawsFromThePool(k)
  BY <1>e, <1>f DEF End, NoJob, DrawsFromThePool, Drawn
<1>g. ASSUME NEW pc \in PCs \ {"inspect", "purge"}, Goto(w, pc),
             j.pc \in {"verify", "evict"} => pc \in {"verify", "evict"}
      PROVE  DrawsFromThePool(k)
  <2>1. k = [j EXCEPT !.pc = pc]
    BY <1>g, <1>f DEF Goto
  <2>2. /\ k.pc = pc /\ k.kind = j.kind /\ k.caller = j.caller
        /\ k.pool = j.pool /\ k.user = j.user
    BY <2>1, <1>j DEF Job, JobRecord
  <2> QED
    BY <1>g, <1>j, <2>2, KeepsDrawing
<1>0. CASE Arrive(w)
  <2>1. k.pc \in {"ping", "check", "list"} /\ k.pool = {}
    BY <1>0, <1>f DEF Arrive, StartLogin, StartRecommend, StartKeyboard,
                      StartRandom, StartPurge, Start, NoJob
  <2>2. k.kind \in {"random", "retry"} => k.user = NoUser
    BY <1>0, <1>f DEF Arrive, StartLogin, StartRecommend, StartKeyboard,
                      StartRandom, StartPurge, Start, NoJob
  <2> QED
    BY <2>1, <2>2 DEF DrawsFromThePool, Drawn
<1>1. CASE Ping(w) \/ Store(w) \/ CheckSyncTime(w)
  <2>1. j.pc \notin {"verify", "evict"}
    BY <1>1 DEF Ping, Store, CheckSyncTime, At
  <2>2. \/ End(w) \/ Goto(w, "store") \/ Goto(w, "fetch") \/ Goto(w, "serve")
        \/ Goto(w, "credential")
    BY <1>1 DEF Ping, Store, CheckSyncTime
  <2> QED
    BY <1>e, <1>g, <2>1, <2>2, PCsAre
<1>2. CASE Fetch(w) \/ ReadCredential(w)
  <2>1. \/ End(w)
        \/ /\ k.pc \in {"song", "fetch"} /\ k.kind = j.kind
           /\ k.caller = j.caller /\ k.pool = j.pool /\ k.user = j.user
    BY <1>2, <1>f, <1>j DEF Fetch, ReadCredential, Job, JobRecord
  <2> QED
    BY <1>2, <1>e, <1>j, <2>1, KeepsDrawing DEF Fetch, ReadCredential, At
<1>3. CASE UpsertType(w)
  <2>1. /\ j.pc \notin {"verify", "evict"}
        /\ AfterUpsert(j) \in {"idle", "album", "artist", "serve"}
    BY <1>3 DEF UpsertType, AfterUpsert, ItemTypes
  <2>2. End(w) \/ Goto(w, AfterUpsert(j))
    BY <1>3 DEF UpsertType
  <2> QED
    BY <1>e, <1>g, <2>1, <2>2, PCsAre
<1>4. CASE Serve(w)
  <2>1. ASSUME NEW u \in Others(w),
               Become(w, [j EXCEPT !.pc = "check", !.kind = "retry", !.user = u])
        PROVE  DrawsFromThePool(k)
    <3>1. /\ k.pc = "check" /\ k.caller = j.caller /\ k.pool = j.pool
          /\ k.user = u
      BY <2>1, <1>f, <1>j DEF Job, JobRecord
    <3> QED
      BY <3>1 DEF Others, DrawsFromThePool
  <2> QED
    BY <1>4, <1>e, <2>1 DEF Serve
<1>5. CASE List(w)
  <2>1. \/ End(w)
        \/ /\ k.kind = j.kind /\ k.caller = j.caller /\ k.pool = j.pool
           /\ k.user = j.user
           /\ k.pc = IF j.kind = "purge" THEN "inspect" ELSE "validate"
    BY <1>5, <1>f, <1>j DEF List, Job, JobRecord
  <2> QED
    BY <1>5, <1>e, <1>j, <2>1, KeepsDrawing DEF List, At
<1>6. CASE Validate(w)
  <2>1. ASSUME NEW u, Become(w, [j EXCEPT !.pc = "verify", !.user = u,
                                          !.password = credentials[u].password,
                                          !.usernames = j.usernames \ {u}])
        PROVE  k.pc = "verify" /\ k.caller = j.caller /\ k.pool = j.pool
    BY <2>1, <1>f, <1>j DEF Job, JobRecord
  <2>2. ASSUME NEW u, Become(w, [j EXCEPT !.usernames = j.usernames \ {u}])
        PROVE  /\ k.kind = j.kind /\ k.caller = j.caller /\ k.pool = j.pool
               /\ k.user = j.user /\ k.pc = j.pc
    BY <2>2, <1>f, <1>j DEF Job, JobRecord
  <2>3. \/ End(w) \/ Goto(w, "pool")
        \/ k.pc = "verify" /\ k.caller = j.caller /\ k.pool = j.pool
        \/ /\ k.kind = j.kind /\ k.caller = j.caller /\ k.pool = j.pool
           /\ k.user = j.user /\ k.pc = j.pc
    BY <1>6, <2>1, <2>2 DEF Validate
  <2>4. j.pc = "validate" /\ "pool" \in PCs \ {"inspect", "purge"}
    BY <1>6, PCsAre DEF Validate, At
  <2>5. k.pc = "verify" /\ k.caller = j.caller /\ k.pool = j.pool
          => DrawsFromThePool(k)
    BY DEF DrawsFromThePool, Drawn
  <2> QED
    BY <1>e, <1>g, <1>j, <2>3, <2>4, <2>5, KeepsDrawing
<1>7. CASE Verify(w) \/ Evict(w) \/ Purge(w)
  <2>1. ASSUME NEW r, NEW pc, Become(w, BackTo(r, pc)), r \in JobRecord,
               r.kind = j.kind, r.caller = j.caller, r.pool = j.pool
        PROVE  /\ k.kind = j.kind /\ k.caller = j.caller /\ k.pool = j.pool
               /\ k.user = NoUser /\ k.pc = pc
    BY <2>1, <1>f DEF BackTo, JobRecord
  <2>2. LET r == [j EXCEPT !.validUsers = j.validUsers \cup {j.user}]
        IN  /\ j.user \in Users => r \in JobRecord
            /\ r.kind = j.kind /\ r.caller = j.caller /\ r.pool = j.pool
    BY <1>j DEF Job, JobRecord
  <2>3. j.user \in Users
    BY <1>7, <1>j, UserInHand DEF Verify, Evict, Purge, At, BetweenUsers
  <2>4. \/ Goto(w, "evict")
        \/ /\ k.kind = j.kind /\ k.caller = j.caller /\ k.pool = j.pool
           /\ k.user = NoUser
           /\ k.pc = IF j.pc = "purge" THEN "inspect" ELSE "validate"
    BY <1>7, <1>j, <2>1, <2>2, <2>3 DEF Verify, Evict, Purge, At, Job
  <2>5. Goto(w, "evict") => DrawsFromThePool(k)
    BY <1>g, PCsAre
  <2>6. j.pc = "purge" => j.kind = "purge"
    BY DEF DrawsFromThePool
  <2> QED
    BY <2>4, <2>5, <2>6 DEF DrawsFromThePool, Drawn
<1>8. CASE ComputePool(w)
  <2> DEFINE pool == Pool(j.validUsers, j.caller)
  <2>1. j.caller \notin pool
    BY DEF Pool
  <2>2. j.user = NoUser
    BY <1>8, <1>j DEF ComputePool, At, Job, BetweenUsers
  <2> HIDE DEF pool
  <2>3. \/ End(w)
        \/ /\ k.pc = "pick" /\ k.caller = j.caller /\ k.pool = pool
           /\ k.user = j.user
    BY <1>8, <1>f, <1>j DEF ComputePool, pool, Job, JobRecord
  <2> QED
    BY <1>e, <2>1, <2>2, <2>3 DEF DrawsFromThePool, Drawn
<1>9. CASE Pick(w)
  <2>1. PICK u \in j.pool : Become(w, [j EXCEPT !.pc = "check", !.user = u,
                                                !.validUsers = {}])
    BY <1>9 DEF Pick
  <2>2. j \in JobRecord
    BY <1>j DEF Job
  <2>3. k = [j EXCEPT !.pc = "check", !.user = u, !.validUsers = {}]
    BY <2>1, <1>f
  <2>4. k.pc = "check" /\ k.caller = j.caller /\ k.pool = j.pool /\ k.user = u
    BY <2>2, <2>3 DEF JobRecord
  <2> QED
    BY <2>4 DEF DrawsFromThePool
<1>10. CASE Inspect(w)
  <2>1. \/ End(w)
        \/ /\ k.pc \in {"inspect", "purge"} /\ k.kind = j.kind
           /\ k.caller = j.caller /\ k.pool = j.pool
    BY <1>10, <1>f, <1>j DEF Inspect, At, Job, JobRecord
  <2> QED
    BY <1>10, <1>e, <2>1 DEF Inspect, At, DrawsFromThePool, Drawn
<1> QED
  BY <1>0, <1>1, <1>2, <1>3, <1>4, <1>5, <1>6, <1>7, <1>8, <1>9, <1>10
     DEF Proceed

\* A random recommendation never draws from the user linked to the sender, and
\* only from the pool, in the first draw and in the second.
THEOREM CallerIsExcluded == Spec => []NeverTheCaller
<1> DEFINE DInv == \A w \in Workers : DrawsFromThePool(job[w])
<1>1. Init => DInv
  BY DEF Init, NoJob, DrawsFromThePool, Drawn
<1>2. TypeOK /\ DInv /\ [Next]_vars => DInv'
  <2> SUFFICES ASSUME TypeOK, DInv, [Next]_vars PROVE DInv'
    OBVIOUS
  <2>1. ASSUME NEW w \in Workers, Arrive(w) \/ Proceed(w) PROVE DInv'
    BY <2>1, WorkerDrawsFromThePool, WorkerChangesOnlyItsJob
  <2>2. CASE Environment
    BY <2>2 DEF Environment
  <2>3. CASE Restart
    BY <2>3 DEF Restart, NoJob, DrawsFromThePool, Drawn
  <2>4. CASE UNCHANGED vars
    BY <2>4 DEF vars
  <2> QED
    BY <2>1, <2>2, <2>3, <2>4 DEF Next
<1>3. DInv => NeverTheCaller
  BY DEF NeverTheCaller, DrawsFromThePool
<1> QED
  BY <1>1, <1>2, <1>3, TypeCorrect, PTL DEF Spec

-----------------------------------------------------------------------------
(* The memory of recent picks.                                             *)

\* The loop over the memory: u, and then the others in their order.
LEMMA LoopExists ==
    ASSUME NEW u \in Users, NEW N \in Nat, NEW recent \in [1..N -> Users]
    PROVE  \E f : f = [n \in 0..N |->
                         IF n = 0 THEN <<u>>
                         ELSE IF recent[n] = u THEN f[n - 1]
                         ELSE Append(f[n - 1], recent[n])]
<1> DEFINE step == [n \in 1..N |-> [s \in Seq(Users) |->
                       IF recent[n] = u THEN s ELSE Append(s, recent[n])]]
<1>1. <<u>> \in Seq(Users)
  OBVIOUS
<1>2. step \in [1..N -> [Seq(Users) -> Seq(Users)]]
  OBVIOUS
<1>3. \A n \in 1..N, s \in Seq(Users) :
         step[n][s] = IF recent[n] = u THEN s ELSE Append(s, recent[n])
  OBVIOUS
<1> HIDE DEF step
<1>4. PICK f \in [0..N -> Seq(Users)] : Follows(f, <<u>>, step, N)
  BY <1>1, <1>2, RecursionExists
<1>5. ASSUME NEW n \in 1..N
      PROVE  f[n] = IF recent[n] = u THEN f[n - 1] ELSE Append(f[n - 1], recent[n])
  <2>1. n - 1 \in 0..N
    OBVIOUS
  <2>2. f[n - 1] \in Seq(Users)
    BY <2>1
  <2>3. f[n] = step[n][f[n - 1]]
    BY <1>4 DEF Follows
  <2> QED
    BY <1>3, <2>2, <2>3
<1>6. f[0] = <<u>>
  BY <1>4 DEF Follows
<1>7. ASSUME NEW n \in 0..N
      PROVE  f[n] = IF n = 0 THEN <<u>>
                    ELSE IF recent[n] = u THEN f[n - 1]
                    ELSE Append(f[n - 1], recent[n])
  <2>1. CASE n = 0
    BY <1>6, <2>1
  <2>2. CASE n \in 1..N
    <3>1. n # 0
      BY <2>2
    <3> QED
      BY <1>5, <2>2, <3>1, Zenon
  <2> QED
    BY <2>1, <2>2
<1>8. f = [n \in 0..N |-> IF n = 0 THEN <<u>>
                          ELSE IF recent[n] = u THEN f[n - 1]
                          ELSE Append(f[n - 1], recent[n])]
  <2>1. f = [n \in 0..N |-> f[n]]
    OBVIOUS
  <2> QED
    BY <1>7, <2>1, Zenon
<1> QED
  BY <1>8

LEMMA UpdatedRecentEquation ==
    ASSUME NEW u \in Users, NEW recent \in Seq(Users)
    PROVE  \E f : /\ UpdatedRecent(u, recent) = f[Len(recent)]
                  /\ f[0] = <<u>>
                  /\ \A n \in 1..Len(recent) :
                        f[n] = IF recent[n] = u THEN f[n - 1]
                               ELSE Append(f[n - 1], recent[n])
<1>1. Len(recent) \in Nat /\ recent \in [1..Len(recent) -> Users]
  OBVIOUS
<1>2. \E f : f = [n \in 0..Len(recent) |->
                    IF n = 0 THEN <<u>>
                    ELSE IF recent[n] = u THEN f[n - 1]
                    ELSE Append(f[n - 1], recent[n])]
  BY <1>1, LoopExists
<1>3. PICK f : /\ UpdatedRecent(u, recent) = f[Len(recent)]
               /\ f = [n \in 0..Len(recent) |->
                         IF n = 0 THEN <<u>>
                         ELSE IF recent[n] = u THEN f[n - 1]
                         ELSE Append(f[n - 1], recent[n])]
  BY <1>2 DEF UpdatedRecent
<1>4. f[0] = <<u>>
  BY <1>1, <1>3
<1>5. ASSUME NEW n \in 1..Len(recent)
      PROVE  f[n] = IF recent[n] = u THEN f[n - 1] ELSE Append(f[n - 1], recent[n])
  <2>1. n \in 0..Len(recent) /\ n # 0
    BY <1>1
  <2> QED
    BY <1>3, <2>1, Zenon
<1> QED
  BY <1>3, <1>4, <1>5

Distinct(s) == \A i, k \in 1..Len(s) : s[i] = s[k] => i = k

LEMMA AppendDistinct ==
    ASSUME NEW s \in Seq(Users), Distinct(s), NEW u \in Users,
           \A i \in 1..Len(s) : s[i] # u
    PROVE  Append(s, u) \in Seq(Users) /\ Distinct(Append(s, u))
<1>1. /\ Append(s, u) \in Seq(Users)
      /\ Len(Append(s, u)) = Len(s) + 1
      /\ \A i \in 1..Len(s) : Append(s, u)[i] = s[i]
      /\ Append(s, u)[Len(s) + 1] = u
  BY AppendProperties
<1>2. Len(s) \in Nat
  OBVIOUS
<1> DEFINE t == Append(s, u)
<1> HIDE DEF t
<1>3. ASSUME NEW i \in 1..Len(t), NEW k \in 1..Len(t), t[i] = t[k]
      PROVE  i = k
  <2>1. (i \in 1..Len(s) \/ i = Len(s) + 1) /\ (k \in 1..Len(s) \/ k = Len(s) + 1)
    BY <1>1, <1>2 DEF t
  <2> QED
    BY <1>1, <1>3, <2>1 DEF t, Distinct
<1> QED
  BY <1>1, <1>3 DEF t, Distinct

\* Moving a user to the front neither loses the type nor repeats a user.
LEMMA UpdatedRecentEffect ==
    ASSUME NEW u \in Users, NEW recent \in Seq(Users), Distinct(recent)
    PROVE  /\ UpdatedRecent(u, recent) \in Seq(Users)
           /\ Distinct(UpdatedRecent(u, recent))
<1> DEFINE N == Len(recent)
<1>1. N \in Nat /\ \A n \in 1..N : recent[n] \in Users
  OBVIOUS
<1>2. PICK f : /\ UpdatedRecent(u, recent) = f[N]
               /\ f[0] = <<u>>
               /\ \A n \in 1..N : f[n] = IF recent[n] = u THEN f[n - 1]
                                         ELSE Append(f[n - 1], recent[n])
  BY UpdatedRecentEquation
<1> HIDE DEF N
<1> DEFINE From(n) == {u} \cup {recent[k] : k \in 1..n}
           Good == {n \in 0..N : /\ f[n] \in Seq(Users)
                                 /\ \A i \in 1..Len(f[n]) : f[n][i] \in From(n)
                                 /\ Distinct(f[n])}
<1>3. 0 \in Good
  <2>1. /\ <<u>> \in Seq(Users)
        /\ \A i \in 1..Len(<<u>>) : <<u>>[i] \in From(0)
        /\ Distinct(<<u>>)
    BY DEF Distinct
  <2>2. 0 \in 0..N /\ f[0] = <<u>>
    BY <1>1, <1>2
  <2> HIDE DEF From
  <2> QED
    BY <2>1, <2>2, Zenon
<1>4. ASSUME NEW n \in 1..N, n - 1 \in Good PROVE n \in Good
  <2>1. /\ f[n - 1] \in Seq(Users)
        /\ \A i \in 1..Len(f[n - 1]) : f[n - 1][i] \in From(n - 1)
        /\ Distinct(f[n - 1])
    BY <1>4
  <2>2. From(n - 1) \subseteq From(n) /\ recent[n] \in From(n)
    OBVIOUS
  <2>3. CASE recent[n] = u
    <3>1. f[n] = f[n - 1]
      BY <1>2, <2>3
    <3> QED
      BY <2>1, <2>2, <3>1
  <2>4. CASE recent[n] # u
    <3>1. f[n] = Append(f[n - 1], recent[n])
      BY <1>2, <2>4
    <3>2. \A k \in 1..n-1 : recent[k] # recent[n]
      BY <1>1 DEF Distinct, N
    <3>3. \A i \in 1..Len(f[n - 1]) : f[n - 1][i] # recent[n]
      BY <2>1, <2>4, <3>2
    <3>4. recent[n] \in Users
      BY <1>1
    <3>5. f[n] \in Seq(Users) /\ Distinct(f[n])
      BY <2>1, <3>1, <3>3, <3>4, AppendDistinct
    <3>6. \A i \in 1..Len(f[n]) : f[n][i] \in From(n)
      <4>1. \A i \in 1..Len(f[n]) : \/ i \in 1..Len(f[n - 1]) /\ f[n][i] = f[n - 1][i]
                                    \/ f[n][i] = recent[n]
        BY <2>1, <3>1, <3>4, AppendProperties
      <4> HIDE DEF From
      <4> QED
        BY <2>1, <2>2, <4>1
    <3> QED
      BY <3>5, <3>6
  <2> QED
    BY <2>3, <2>4
<1>5. \A n \in 0..N : n \in Good
  <2> HIDE DEF Good
  <2> QED
    BY <1>1, <1>3, <1>4, InductionUpTo
<1>6. N \in Good
  <2>1. N \in 0..N
    BY <1>1
  <2> QED
    BY <1>5, <2>1
<1>7. f[N] \in Seq(Users) /\ Distinct(f[N])
  BY <1>6
<1> QED
  BY <1>2, <1>7

LEMMA MemorizeEffect ==
    ASSUME NEW u \in Users, NEW recent \in Seq(Users), Distinct(recent)
    PROVE  /\ Memorize(u, recent) \in Seq(Users)
           /\ Len(Memorize(u, recent)) <= MaxRecentMemorized
           /\ Distinct(Memorize(u, recent))
<1> DEFINE s == UpdatedRecent(u, recent)
           m == Min({Len(s), MaxRecentMemorized})
<1>1. s \in Seq(Users) /\ Distinct(s)
  BY UpdatedRecentEffect
<1> HIDE DEF s
<1>2. Len(s) \in Nat /\ MaxRecentMemorized \in Nat
  BY <1>1, EngineAssumption
<1>3. m \in Nat /\ m <= Len(s) /\ m <= MaxRecentMemorized
  BY <1>2, MinOfTwo
<1> HIDE DEF m
<1>4. \A i \in 1..m : s[i] \in Users
  BY <1>1, <1>2, <1>3
<1>5. /\ SubSeq(s, 1, m) \in Seq(Users)
      /\ Len(SubSeq(s, 1, m)) = m
      /\ \A i \in 1..m : SubSeq(s, 1, m)[i] = s[i]
  BY <1>3, <1>4
<1>6. Distinct(SubSeq(s, 1, m))
  BY <1>1, <1>2, <1>3, <1>5 DEF Distinct
<1>7. Memorize(u, recent) = SubSeq(s, 1, m)
  BY DEF Memorize, s, m
<1> QED
  BY <1>3, <1>5, <1>6, <1>7

LEMMA WorkerMemorizes ==
    ASSUME NEW w \in Workers, Arrive(w) \/ Proceed(w)
    PROVE  \/ UNCHANGED recentPickedUsers
           \/ /\ Pick(w)
              /\ \E u \in job[w].pool :
                    recentPickedUsers' = Memorize(u, recentPickedUsers)
<1>1. CASE Arrive(w)
  BY <1>1 DEF Arrive, StartLogin, StartRecommend, StartKeyboard, StartRandom,
              StartPurge, Start
<1>2. CASE Ping(w) \/ Store(w) \/ Fetch(w) \/ UpsertType(w)
  BY <1>2 DEF Ping, Store, Fetch, UpsertType
<1>3. CASE CheckSyncTime(w) \/ ReadCredential(w) \/ Serve(w) \/ List(w)
  BY <1>3 DEF CheckSyncTime, ReadCredential, Serve, List
<1>4. CASE Validate(w) \/ Verify(w) \/ Evict(w)
  BY <1>4 DEF Validate, Verify, Evict
<1>5. CASE ComputePool(w) \/ Inspect(w) \/ Purge(w)
  BY <1>5 DEF ComputePool, Inspect, Purge
<1>6. CASE Pick(w)
  BY <1>6 DEF Pick
<1> QED
  BY <1>1, <1>2, <1>3, <1>4, <1>5, <1>6 DEF Proceed

LEMMA NextRecentsDistinct ==
    ASSUME TypeOK, RecentsDistinct, [Next]_vars
    PROVE  RecentsDistinct'
<1>1. CASE UNCHANGED recentPickedUsers
  BY <1>1 DEF RecentsDistinct
<1>2. ASSUME NEW w \in Workers, NEW u \in job[w].pool,
             recentPickedUsers' = Memorize(u, recentPickedUsers)
      PROVE  RecentsDistinct'
  <2>1. u \in Users
    BY DEF TypeOK, Job, JobRecord
  <2>2. recentPickedUsers \in Seq(Users) /\ Distinct(recentPickedUsers)
    BY DEF RecentsDistinct, Distinct
  <2>3. /\ recentPickedUsers' \in Seq(Users)
        /\ Len(recentPickedUsers') <= MaxRecentMemorized
        /\ Distinct(recentPickedUsers')
    BY <1>2, <2>1, <2>2, MemorizeEffect
  <2> QED
    BY <2>3 DEF RecentsDistinct, Distinct
<1>3. CASE Restart
  <2>1. recentPickedUsers' = <<>>
    BY <1>3 DEF Restart
  <2> QED
    BY <2>1, EngineAssumption DEF RecentsDistinct
<1> QED
  BY <1>1, <1>2, <1>3, WorkerMemorizes DEF Next, Environment, vars

\* However many requests pick at a time, the memory holds each user once, and
\* no more of them than it may.
THEOREM RecentsAreDistinct == Spec => []RecentsDistinct
<1>1. Init => RecentsDistinct
  BY EngineAssumption DEF Init, RecentsDistinct
<1>2. TypeOK /\ RecentsDistinct /\ [Next]_vars => RecentsDistinct'
  BY NextRecentsDistinct
<1> QED
  BY <1>1, <1>2, TypeCorrect, PTL DEF Spec

-----------------------------------------------------------------------------
(* What a request that nobody overtakes is owed: its snapshot in the cache, *)
(* and a pick among the users that were not picked lately.                 *)

LEMMA UpsertReplaces ==
    ASSUME NEW u \in Users, NEW t \in ItemTypes, NEW items \in SUBSET Items,
           NEW now, UpsertStarredItems(u, t, items, now)
    PROVE  /\ GetStarredItems(u, t)' = items
           /\ \A s \in ItemTypes \ {t} :
                 GetStarredItems(u, s)' = GetStarredItems(u, s)
<1> DEFINE Row(i) == [username |-> u, item_type |-> t, item_id |-> i,
                      synced_at |-> now]
           new == {Row(i) : i \in items}
<1>1. starred_cache' = (starred_cache \ RowsOf(u, t)) \cup new
  BY DEF UpsertStarredItems
<1>2. \A r \in new : /\ r.username = u /\ r.item_type = t
                     /\ r.item_id \in items
  OBVIOUS
<1>3. ASSUME NEW i \in items PROVE \E r \in new : r.item_id = i
  <2>1. Row(i) \in new /\ Row(i).item_id = i
    OBVIOUS
  <2> QED
    BY <2>1
<1> HIDE DEF new
<1>4. RowsOf(u, t)' = new
  BY <1>1, <1>2 DEF RowsOf
<1>5. ASSUME NEW s \in ItemTypes \ {t} PROVE RowsOf(u, s)' = RowsOf(u, s)
  BY <1>1, <1>2 DEF RowsOf
<1>6. GetStarredItems(u, t)' = items
  BY <1>2, <1>3, <1>4 DEF GetStarredItems
<1> QED
  BY <1>5, <1>6 DEF GetStarredItems

\* The types that a sync has stored hold what the server returned to it.
StoredTypes(pc) ==
    CASE pc = "album" -> {"song"}
      [] pc = "artist" -> {"song", "album"}
      [] OTHER -> {}

Stored(w) ==
    \A t \in StoredTypes(job[w].pc) :
        GetStarredItems(job[w].user, t) = job[w].starred[t]

SyncInv == \A w \in Workers : w \notin overtaken => Stored(w)

LEMMA EntersNextType ==
    ASSUME TypeOK, NEW w \in Workers, Arrive(w) \/ Proceed(w),
           job'[w].pc \in {"album", "artist"}
    PROVE  /\ job[w].pc \in {"song", "album"}
           /\ UpsertStarredItems(job[w].user, job[w].pc,
                                 job[w].starred[job[w].pc], clock)
           /\ job'[w].user = job[w].user /\ job'[w].starred = job[w].starred
           /\ job'[w].pc = AfterUpsert(job[w])
<1> DEFINE j == job[w]
           k == job'[w]
<1>j. j \in Job
  BY DEF TypeOK
<1>f. ASSUME NEW r, Become(w, r) PROVE k = r
  BY <1>f DEF TypeOK, Become
<1>e. ~End(w)
  BY <1>f DEF End, NoJob
<1>g. ASSUME NEW pc, Goto(w, pc)
      PROVE  k.pc = pc /\ k.user = j.user /\ k.starred = j.starred
  <2>1. k = [j EXCEPT !.pc = pc]
    BY <1>f, <1>g DEF Goto
  <2> QED
    BY <2>1, <1>j DEF Job, JobRecord
<1>0. CASE Arrive(w)
  <2>1. k.pc \in {"ping", "check", "list"}
    BY <1>0, <1>f DEF Arrive, StartLogin, StartRecommend, StartKeyboard,
                      StartRandom, StartPurge, Start, NoJob
  <2> QED
    BY <2>1
<1>1. CASE Ping(w) \/ Store(w) \/ CheckSyncTime(w) 
  BY <1>1, <1>e, <1>g DEF Ping, Store, CheckSyncTime
<1>2. CASE Fetch(w) \/ ReadCredential(w) \/ Serve(w) \/ List(w)
  <2>1. End(w) \/ k.pc \in {"song", "fetch", "check", "inspect", "validate"}
    BY <1>2, <1>f, <1>j DEF Fetch, ReadCredential, Serve, List, Job, JobRecord
  <2> QED
    BY <1>e, <2>1
<1>3. CASE UpsertType(w)
  <2>1. /\ j.pc \in ItemTypes
        /\ UpsertStarredItems(j.user, j.pc, j.starred[j.pc], clock)
        /\ Goto(w, AfterUpsert(j))
    BY <1>3, <1>e DEF UpsertType
  <2>2. k.pc = AfterUpsert(j) /\ k.user = j.user /\ k.starred = j.starred
    BY <1>g, <2>1
  <2>3. j.pc # "artist"
    BY <2>2 DEF AfterUpsert
  <2> QED
    BY <2>1, <2>2, <2>3 DEF ItemTypes
<1>4. CASE Validate(w) \/ Inspect(w)
  <2>1. \/ End(w) \/ Goto(w, "pool")
        \/ k.pc \in {"verify", "purge"} \/ k.pc = j.pc
    BY <1>4, <1>f, <1>j DEF Validate, Inspect, Job, JobRecord
  <2>2. j.pc \in {"validate", "inspect"}
    BY <1>4 DEF Validate, Inspect, At
  <2>3. Goto(w, "pool") => k.pc = "pool"
    BY <1>g
  <2> QED
    BY <1>e, <2>1, <2>2, <2>3
<1>5. CASE Verify(w) \/ Evict(w) \/ Purge(w)
  <2>1. Goto(w, "evict") \/ k.pc \in {"validate", "inspect"}
    BY <1>5, <1>f, <1>j DEF Verify, Evict, Purge, BackTo, Job, JobRecord
  <2> QED
    BY <1>g, <2>1
<1>6. CASE ComputePool(w) \/ Pick(w)
  <2>1. End(w) \/ k.pc \in {"pick", "check"}
    BY <1>6, <1>f, <1>j DEF ComputePool, Pick, Job, JobRecord
  <2> QED
    BY <1>e, <2>1
<1> QED
  BY <1>0, <1>1, <1>2, <1>3, <1>4, <1>5, <1>6 DEF Proceed

LEMMA RowsDetermineItems ==
    ASSUME NEW u, RowsOfUser(u)' = RowsOfUser(u), NEW t
    PROVE  GetStarredItems(u, t)' = GetStarredItems(u, t)
<1>1. RowsOf(u, t)' = RowsOf(u, t)
  BY DEF RowsOfUser, RowsOf
<1> QED
  BY <1>1 DEF GetStarredItems

LEMMA NextSyncInv ==
    ASSUME TypeOK, SyncInv, [HNext]_hvars
    PROVE  SyncInv'
<1> SUFFICES ASSUME NEW v \in Workers, v \notin overtaken' PROVE Stored(v)'
  BY DEF SyncInv
<1> DEFINE j == job[v]
           k == job'[v]
<1>1. CASE k.pc \notin {"album", "artist"}
  BY <1>1 DEF Stored, StoredTypes
<1>2. CASE UNCHANGED hvars
  BY <1>2 DEF hvars, vars, SyncInv, Stored, GetStarredItems, RowsOf
<1>3. CASE k.pc \in {"album", "artist"} /\ k = j /\ HNext
  <2>1. v \notin overtaken /\ RowsOfUser(job[v].user)' = RowsOfUser(job[v].user)
    BY <1>3 DEF HNext, Bystander
  <2>2. Stored(v)
    BY <2>1 DEF SyncInv
  <2>3. PICK u : u = j.user /\ u = k.user
    BY <1>3
  <2>4. RowsOfUser(u)' = RowsOfUser(u)
    BY <2>1, <2>3 DEF RowsOfUser
  <2>5. \A t : GetStarredItems(u, t)' = GetStarredItems(u, t)
    BY <2>4, RowsDetermineItems
  <2>6. \A t \in StoredTypes(k.pc) : GetStarredItems(u, t)' = k.starred[t]
    BY <1>3, <2>2, <2>3, <2>5 DEF Stored
  <2> QED
    BY <2>3, <2>6 DEF Stored, GetStarredItems, RowsOf
<1>4. CASE k.pc \in {"album", "artist"} /\ k # j /\ HNext
  <2>1. Arrive(v) \/ Proceed(v)
    <3>1. ASSUME NEW w \in Workers \ {v}, Arrive(w) \/ Proceed(w) PROVE FALSE
      BY <1>4, <3>1, WorkerChangesOnlyItsJob
    <3>2. ~Environment
      BY <1>4 DEF Environment
    <3>3. ~Restart
      BY <1>4 DEF Restart, NoJob
    <3> QED
      BY <1>4, <3>1, <3>2, <3>3 DEF HNext, Next
  <2>2. /\ j.pc \in {"song", "album"}
        /\ UpsertStarredItems(j.user, j.pc, j.starred[j.pc], clock)
        /\ k.user = j.user /\ k.starred = j.starred
        /\ k.pc = AfterUpsert(j)
    BY <1>4, <2>1, EntersNextType
  <2>3. k.pc = IF j.pc = "song" THEN "album" ELSE "artist"
    BY <2>2 DEF AfterUpsert
  <2>4. j.user \in Users /\ j.starred \in [ItemTypes -> SUBSET Items]
    BY <2>2, UserInHand DEF TypeOK, Job, JobRecord, Snapshot, BetweenUsers
  <2>5. PICK u \in Users, t \in {"song", "album"} : u = j.user /\ t = j.pc
    BY <2>2, <2>4
  <2>6. /\ GetStarredItems(u, t)' = j.starred[t]
        /\ \A s \in ItemTypes \ {t} :
              GetStarredItems(u, s)' = GetStarredItems(u, s)
    <3>1. PICK items \in SUBSET Items, now \in Nat :
                 items = j.starred[t] /\ UpsertStarredItems(u, t, items, now)
      BY <2>2, <2>4, <2>5 DEF ItemTypes, TypeOK, ServerTypeOK
    <3> QED
      BY <3>1, UpsertReplaces DEF ItemTypes
  <2>7. t = "album" => GetStarredItems(u, "song") = j.starred["song"]
    <3>1. t = "album" => v \notin overtaken
      BY <1>4, <2>2, <2>3, <2>5 DEF HNext, Bystander
    <3> QED
      BY <2>5, <3>1 DEF SyncInv, Stored, StoredTypes
  <2>8. \A s \in StoredTypes(k.pc) : GetStarredItems(u, s)' = k.starred[s]
    BY <2>2, <2>3, <2>5, <2>6, <2>7 DEF StoredTypes, ItemTypes
  <2>9. u = k.user
    BY <2>2, <2>5
  <2> QED
    BY <2>8, <2>9 DEF Stored, GetStarredItems, RowsOf
<1> QED
  BY <1>1, <1>2, <1>3, <1>4

LEMMA HistoryFollowsSpec == HSpec => Spec
<1>1. HInit => Init
  BY DEF HInit
<1>2. [HNext]_hvars => [Next]_vars
  BY DEF HNext, hvars
<1> QED
  BY <1>1, <1>2, PTL DEF HSpec, Spec

\* A sync that nobody overtakes, and that completes, leaves what the server
\* returned to it in the cache, whatever the syncs, logins and deletions of
\* other users do between its three transactions.
THEOREM SyncsCacheTheirSnapshot == HSpec => SyncCachesSnapshot
<1>1. ASSUME TypeOK, SyncInv, NEW w \in Workers, NEW u \in Users,
             CompletesSync(w), w \notin overtaken, job[w].user = u
      PROVE  [t \in ItemTypes |-> GetStarredItems(u, t)]' = job[w].starred
  <2> DEFINE j == job[w]
  <2>1. /\ j.pc = "artist" /\ j.starred \in [ItemTypes -> SUBSET Items]
        /\ UpsertStarredItems(u, "artist", j.starred["artist"], clock)
    BY <1>1 DEF CompletesSync, At, TypeOK, Job, JobRecord, Snapshot
  <2>2. /\ GetStarredItems(u, "artist")' = j.starred["artist"]
        /\ \A s \in ItemTypes \ {"artist"} :
              GetStarredItems(u, s)' = GetStarredItems(u, s)
    BY <2>1, UpsertReplaces DEF ItemTypes
  <2>3. \A t \in {"song", "album"} : GetStarredItems(u, t) = j.starred[t]
    BY <1>1, <2>1 DEF SyncInv, Stored, StoredTypes
  <2>4. \A t \in ItemTypes : GetStarredItems(u, t)' = j.starred[t]
    BY <2>2, <2>3 DEF ItemTypes
  <2> QED
    BY <2>1, <2>4
<1>2. TypeOK /\ SyncInv =>
         \A w \in Workers, u \in Users :
            CompletesSync(w) /\ w \notin overtaken /\ job[w].user = u =>
               [t \in ItemTypes |-> GetStarredItems(u, t)]' = job[w].starred
  BY <1>1
<1>3. HInit => SyncInv
  BY DEF HInit, Init, NoJob, SyncInv, Stored, StoredTypes
<1>4. TypeOK /\ SyncInv /\ [HNext]_hvars => SyncInv'
  BY NextSyncInv
<1> QED
  BY <1>2, <1>3, <1>4, HistoryFollowsSpec, TypeCorrect, PTL
     DEF HSpec, SyncCachesSnapshot

\* A request that is about to pick has the pool that the memory gives now.
PoolIsCurrent(w) ==
    job[w].pc = "pick" => job[w].pool = Pool(job[w].validUsers, job[w].caller)

PickInv ==
    /\ RecentsDistinct
    /\ \A w \in Workers : /\ IsFiniteSet(job[w].validUsers)
                          /\ w \notin overtaken => PoolIsCurrent(w)

\* The users that a request has found valid are those that it had, one more,
\* or none.
LEMMA ValidUsersGrow ==
    ASSUME TypeOK, NEW w \in Workers, Arrive(w) \/ Proceed(w)
    PROVE  \/ job'[w].validUsers = job[w].validUsers
           \/ job'[w].validUsers = {}
           \/ job'[w].validUsers = job[w].validUsers \cup {job[w].user}
<1> DEFINE j == job[w]
           k == job'[w]
<1>j. j \in Job
  BY DEF TypeOK
<1>f. ASSUME NEW r, Become(w, r) PROVE k = r
  BY <1>f DEF TypeOK, Become
<1>e. End(w) => k.validUsers = {}
  BY <1>f DEF End, NoJob
<1>g. ASSUME NEW pc, Goto(w, pc)
      PROVE  k.validUsers = j.validUsers
  <2>1. k = [j EXCEPT !.pc = pc]
    BY <1>f, <1>g DEF Goto
  <2> QED
    BY <2>1, <1>j DEF Job, JobRecord
<1>0. CASE Arrive(w)
  BY <1>0, <1>f DEF Arrive, StartLogin, StartRecommend, StartKeyboard,
                    StartRandom, StartPurge, Start, NoJob
<1>1. CASE Ping(w) \/ Store(w) \/ UpsertType(w) \/ CheckSyncTime(w)
  BY <1>1, <1>e, <1>g DEF Ping, Store, UpsertType, CheckSyncTime
<1>2. CASE Fetch(w) \/ ReadCredential(w) \/ Serve(w) \/ List(w)
  <2>1. End(w) \/ k.validUsers = j.validUsers
    BY <1>2, <1>f, <1>j DEF Fetch, ReadCredential, Serve, List, Job, JobRecord
  <2> QED
    BY <1>e, <2>1
<1>3. CASE Validate(w) \/ Inspect(w)
  <2>1. End(w) \/ Goto(w, "pool") \/ k.validUsers = j.validUsers
    BY <1>3, <1>f, <1>j DEF Validate, Inspect, Job, JobRecord
  <2> QED
    BY <1>e, <1>g, <2>1
<1>4. CASE Verify(w)
  <2>1. ASSUME Become(w, BackTo([j EXCEPT !.validUsers =
                                              j.validUsers \cup {j.user}],
                                "validate"))
        PROVE  k.validUsers = j.validUsers \cup {j.user}
    BY <2>1, <1>f, <1>j DEF BackTo, Job, JobRecord
  <2> QED
    BY <1>4, <1>g, <2>1 DEF Verify
<1>5. CASE Evict(w) \/ Purge(w)
  BY <1>5, <1>f, <1>j DEF Evict, Purge, BackTo, Job, JobRecord
<1>6. CASE ComputePool(w) \/ Pick(w)
  <2>1. End(w) \/ k.validUsers \in {j.validUsers, {}}
    BY <1>6, <1>f, <1>j DEF ComputePool, Pick, Job, JobRecord
  <2> QED
    BY <1>e, <2>1
<1> QED
  BY <1>0, <1>1, <1>2, <1>3, <1>4, <1>5, <1>6 DEF Proceed

LEMMA EntersPick ==
    ASSUME TypeOK, NEW w \in Workers, Arrive(w) \/ Proceed(w),
           job'[w].pc = "pick"
    PROVE  /\ UNCHANGED recentPickedUsers
           /\ job'[w].pool = Pool(job[w].validUsers, job[w].caller)
           /\ job'[w].validUsers = job[w].validUsers
           /\ job'[w].caller = job[w].caller
<1> DEFINE j == job[w]
           k == job'[w]
<1>j. j \in Job
  BY DEF TypeOK
<1>f. ASSUME NEW r, Become(w, r) PROVE k = r
  BY <1>f DEF TypeOK, Become
<1>e. ~End(w)
  BY <1>f DEF End, NoJob
<1>g. ASSUME NEW pc \in PCs \ {"pick"}, Goto(w, pc) PROVE FALSE
  <2>1. k = [j EXCEPT !.pc = pc]
    BY <1>f, <1>g DEF Goto
  <2> QED
    BY <2>1, <1>g, <1>j DEF Job, JobRecord
<1>0. CASE Arrive(w)
  <2>1. k.pc \in {"ping", "check", "list"}
    BY <1>0, <1>f DEF Arrive, StartLogin, StartRecommend, StartKeyboard,
                      StartRandom, StartPurge, Start, NoJob
  <2> QED
    BY <2>1
<1>1. CASE Ping(w) \/ Store(w) \/ CheckSyncTime(w)
  BY <1>1, <1>e, <1>g, PCsAre DEF Ping, Store, CheckSyncTime
<1>2. CASE Fetch(w) \/ ReadCredential(w) \/ Serve(w) \/ List(w)
  <2>1. End(w) \/ k.pc \in {"song", "fetch", "check", "inspect", "validate"}
    BY <1>2, <1>f, <1>j DEF Fetch, ReadCredential, Serve, List, Job, JobRecord
  <2> QED
    BY <1>e, <2>1
<1>3. CASE UpsertType(w)
  <2>1. End(w) \/ Goto(w, AfterUpsert(j))
    BY <1>3 DEF UpsertType
  <2>2. AfterUpsert(j) \in PCs \ {"pick"}
    BY <1>3, PCsAre DEF UpsertType, AfterUpsert, ItemTypes
  <2> QED
    BY <1>e, <1>g, <2>1, <2>2
<1>4. CASE Validate(w) \/ Inspect(w)
  <2>1. \/ End(w) \/ Goto(w, "pool")
        \/ k.pc \in {"verify", "purge"} \/ k.pc = j.pc
    BY <1>4, <1>f, <1>j DEF Validate, Inspect, Job, JobRecord
  <2>2. j.pc \in {"validate", "inspect"}
    BY <1>4 DEF Validate, Inspect, At
  <2>3. ~Goto(w, "pool")
    BY <1>g, PCsAre
  <2> QED
    BY <1>e, <2>1, <2>2, <2>3
<1>5. CASE Verify(w) \/ Evict(w) \/ Purge(w)
  <2>1. Goto(w, "evict") \/ k.pc \in {"validate", "inspect"}
    BY <1>5, <1>f, <1>j DEF Verify, Evict, Purge, BackTo, Job, JobRecord
  <2>2. ~Goto(w, "evict")
    BY <1>g, PCsAre
  <2> QED
    BY <2>1, <2>2
<1>6. CASE Pick(w)
  <2>1. k.pc = "check"
    BY <1>6, <1>f, <1>j DEF Pick, Job, JobRecord
  <2> QED
    BY <2>1
<1>7. CASE ComputePool(w)
  <2> DEFINE pool == Pool(j.validUsers, j.caller)
  <2> HIDE DEF pool
  <2>1. /\ k = [j EXCEPT !.pc = "pick", !.pool = pool]
        /\ UNCHANGED recentPickedUsers
    BY <1>7, <1>e, <1>f DEF ComputePool, pool
  <2>2. k.pool = pool /\ k.validUsers = j.validUsers /\ k.caller = j.caller
    BY <2>1, <1>j DEF Job, JobRecord
  <2> QED
    BY <2>1, <2>2 DEF pool
<1> QED
  BY <1>0, <1>1, <1>2, <1>3, <1>4, <1>5, <1>6, <1>7 DEF Proceed

LEMMA NextPickInv ==
    ASSUME TypeOK, PickInv, [HNext]_hvars
    PROVE  PickInv'
<1>0. RecentsDistinct'
  <2>1. [Next]_vars
    BY DEF HNext, hvars
  <2> QED
    BY <2>1, NextRecentsDistinct DEF PickInv
<1>1. ASSUME NEW w \in Workers PROVE IsFiniteSet(job'[w].validUsers)
  <2>1. IsFiniteSet(job[w].validUsers)
    BY DEF PickInv
  <2>2. CASE Arrive(w) \/ Proceed(w)
    <3>1. /\ IsFiniteSet({})
          /\ IsFiniteSet(job[w].validUsers \cup {job[w].user})
      BY <2>1, FS_EmptySet, FS_AddElement
    <3> QED
      BY <2>1, <2>2, <3>1, ValidUsersGrow
  <2>3. CASE job'[w] = job[w]
    BY <2>1, <2>3
  <2>4. CASE Restart
    BY <2>4, FS_EmptySet DEF Restart, NoJob
  <2> QED
    BY <2>2, <2>3, <2>4, WorkerChangesOnlyItsJob
       DEF HNext, hvars, vars, Next, Environment
<1>2. ASSUME NEW v \in Workers, v \notin overtaken', job'[v].pc = "pick"
      PROVE  PoolIsCurrent(v)'
  <2> DEFINE j == job[v]
             k == job'[v]
  <2>1. CASE UNCHANGED hvars
    <3>1. UNCHANGED <<job, overtaken, recentPickedUsers>>
      BY <2>1 DEF hvars, vars
    <3>2. PoolIsCurrent(v)
      BY <1>2, <3>1 DEF PickInv
    <3>3. job'[v].pool = Pool(job'[v].validUsers, job'[v].caller)
      BY <1>2, <3>1, <3>2 DEF PoolIsCurrent
    <3> QED
      BY <3>1, <3>3 DEF PoolIsCurrent, Pool, Recent
  <2>2. CASE HNext /\ k = j
    <3>1. v \notin overtaken /\ UNCHANGED recentPickedUsers
      BY <1>2, <2>2 DEF HNext, Bystander
    <3>2. j.pool = Pool(j.validUsers, j.caller)
      BY <1>2, <2>2, <3>1 DEF PickInv, PoolIsCurrent
    <3> QED
      BY <2>2, <3>1, <3>2 DEF PoolIsCurrent, Pool, Recent
  <2>3. CASE HNext /\ k # j
    <3>1. Arrive(v) \/ Proceed(v)
      <4>1. ASSUME NEW w \in Workers \ {v}, Arrive(w) \/ Proceed(w) PROVE FALSE
        BY <2>3, <4>1, WorkerChangesOnlyItsJob
      <4>2. ~Environment
        BY <2>3 DEF Environment
      <4>3. ~Restart
        BY <1>2 DEF Restart, NoJob
      <4> QED
        BY <2>3, <4>1, <4>2, <4>3 DEF HNext, Next
    <3>2. /\ UNCHANGED recentPickedUsers
          /\ k.pool = Pool(j.validUsers, j.caller)
          /\ k.validUsers = j.validUsers /\ k.caller = j.caller
      BY <1>2, <3>1, EntersPick
    <3> QED
      BY <3>2 DEF PoolIsCurrent, Pool, Recent
  <2> QED
    BY <2>1, <2>2, <2>3
<1> QED
  BY <1>0, <1>1, <1>2 DEF PickInv, PoolIsCurrent

\* With the memory as short as it is kept, the recent users are those picked
\* lately.
LEMMA RecentIsLately ==
    ASSUME RecentsDistinct, NEW users, IsFiniteSet(users), NEW u
    PROVE  u \in Recent(users) <=> PickedLately(u, Cardinality(users) - 1)
<1> DEFINE n == Cardinality(users) - 1
           m == Min({n, MaxRecentMemorized})
           l == Min({m, Len(recentPickedUsers)})
<1>1. n \in Int /\ MaxRecentMemorized \in Nat /\ Len(recentPickedUsers) \in Nat
      /\ Len(recentPickedUsers) <= MaxRecentMemorized
  BY FS_CardinalityType, EngineAssumption DEF RecentsDistinct
<1>2. Recent(users) = {recentPickedUsers[i] : i \in 1..l}
  BY DEF Recent
<1> HIDE DEF n
<1>3. m = IF n <= MaxRecentMemorized THEN n ELSE MaxRecentMemorized
  BY <1>1, MinOfTwo
<1> HIDE DEF m
<1>4. l = IF m <= Len(recentPickedUsers) THEN m ELSE Len(recentPickedUsers)
  BY <1>1, <1>3, MinOfTwo
<1> HIDE DEF l
<1>5. \A i \in Int : i \in 1..l <=> i \in 1..Len(recentPickedUsers) /\ i <= n
  BY <1>1, <1>3, <1>4
<1>6. u \in Recent(users) <=> PickedLately(u, n)
  BY <1>1, <1>2, <1>5 DEF PickedLately
<1> QED
  BY <1>6 DEF n

\* A pick that nobody overtakes repeats one of the last picks only when every
\* user that it may pick is one of them.
THEOREM PicksAvoidRecent == HSpec => PickAvoidsRecent
<1>1. ASSUME TypeOK, PickInv, NEW w \in Workers, Pick(w), w \notin overtaken,
             PickedLately(job'[w].user, Cardinality(job[w].validUsers) - 1),
             NEW u \in job[w].validUsers \ {job[w].caller}
      PROVE  PickedLately(u, Cardinality(job[w].validUsers) - 1)
  <2> DEFINE j == job[w]
             fresh == (j.validUsers \ Recent(j.validUsers)) \ {j.caller}
  <2>1. /\ RecentsDistinct /\ IsFiniteSet(j.validUsers)
        /\ j.pool = Pool(j.validUsers, j.caller)
    BY <1>1 DEF PickInv, PoolIsCurrent, Pick, At
  <2>2. job'[w].user \in j.pool
    <3>1. PICK v \in j.pool : Become(w, [j EXCEPT !.pc = "check", !.user = v,
                                                  !.validUsers = {}])
      BY <1>1 DEF Pick
    <3> QED
      BY <1>1, <3>1 DEF Become, TypeOK, Job, JobRecord
  <2>3. job'[w].user \in Recent(j.validUsers)
    BY <1>1, <2>1, RecentIsLately
  <2>4. fresh = {}
    BY <2>1, <2>2, <2>3 DEF Pool
  <2>5. u \in Recent(j.validUsers)
    BY <1>1, <2>4
  <2> QED
    BY <2>1, <2>5, RecentIsLately
<1>2. TypeOK /\ PickInv =>
         \A w \in Workers :
            Pick(w) /\ w \notin overtaken =>
               LET j == job[w]
                   n == Cardinality(j.validUsers) - 1
               IN  PickedLately(job'[w].user, n) =>
                      \A u \in j.validUsers \ {j.caller} : PickedLately(u, n)
  BY <1>1
<1>3. HInit => PickInv
  <2> SUFFICES ASSUME HInit PROVE PickInv
    OBVIOUS
  <2>1. RecentsDistinct
    BY EngineAssumption DEF HInit, Init, RecentsDistinct
  <2>2. IsFiniteSet({})
    BY FS_EmptySet
  <2>3. \A w \in Workers : job[w].validUsers = {} /\ job[w].pc = "idle"
    BY DEF HInit, Init, NoJob
  <2> QED
    BY <2>1, <2>2, <2>3 DEF PickInv, PoolIsCurrent
<1>4. TypeOK /\ PickInv /\ [HNext]_hvars => PickInv'
  BY NextPickInv
<1> QED
  BY <1>2, <1>3, <1>4, HistoryFollowsSpec, TypeCorrect, PTL
     DEF HSpec, PickAvoidsRecent
=============================================================================
