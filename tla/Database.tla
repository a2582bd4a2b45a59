------------------------------ MODULE Database ------------------------------
(***************************************************************************)
(* The two tables of internal/database that hold what the bot knows of a   *)
(* Navidrome user: the credentials saved by /login and the cached          *)
(* favourites.  The connection pool holds one connection, so a statement   *)
(* or a transaction is one atomic step of the goroutine that issues it;    *)
(* every operator below is one such statement, without the identity of     *)
(* the goroutine.  Encryption is left out: a stored password is the one    *)
(* that GetCredential returns.                                             *)
(***************************************************************************)
EXTENDS Vocabulary, Integers, FiniteSetsExt, Functions

CONSTANT
    TelegramIDs     \* Telegram accounts

VARIABLES
    credentials,    \* the table: username -> row, for the users that have one
    starred_cache   \* the table, as the set of its rows

dbvars == <<credentials, starred_cache>>

NULL == "NULL"      \* an absent telegram_id

CredentialRow == [password : Nat, telegram_id : TelegramIDs \cup {NULL}]
StarredRow == [username : Users, item_type : ItemTypes,
               item_id : Items, synced_at : Nat]

----------------------------------------------------------------------------
(* credentials *)

ListUsers == DOMAIN credentials

\* A telegram_id of NULL keeps the one that is stored (COALESCE).
UpsertCredential(u, password, telegramID) ==
    LET kept == IF telegramID = NULL /\ u \in ListUsers
                THEN credentials[u].telegram_id
                ELSE telegramID
        row == [password |-> password, telegram_id |-> kept]
    IN  /\ credentials' = [v \in ListUsers \cup {u} |->
                              IF v = u THEN row ELSE credentials[v]]
        /\ UNCHANGED starred_cache

\* QueryRow takes the first of the matching rows, in no stated order: these
\* are the usernames it can return.
GetNavidromeUserByTelegramID(telegramID) ==
    LET linked == {u \in ListUsers : credentials[u].telegram_id = telegramID}
    IN  IF linked = {} THEN {NoUser} ELSE linked

\* Mutant: no cascade.
DeleteUserAlone(u) ==
    /\ credentials' = Restrict(credentials, ListUsers \ {u})
    /\ UNCHANGED starred_cache

\* The foreign key of starred_cache is ON DELETE CASCADE.
DeleteUser(u) ==
    /\ credentials' = Restrict(credentials, ListUsers \ {u})
    /\ starred_cache' = {r \in starred_cache : r.username # u}

----------------------------------------------------------------------------
(* starred_cache *)

RowsOf(u, t) == {r \in starred_cache : r.username = u /\ r.item_type = t}

GetStarredItems(u, t) == {r.item_id : r \in RowsOf(u, t)}

\* MAX(synced_at) over all the types; -1 stands for "no rows".
NeverSynced == -1
GetStarredSyncTime(u) ==
    LET times == {r.synced_at : r \in {s \in starred_cache : s.username = u}}
    IN  IF times = {} THEN NeverSynced ELSE Max(times)

\* Mutant: foreign keys are off, the default of SQLite.
ForeignKeyOff(u, items) == TRUE

\* An insert without the parent row fails, and the transaction with it; a
\* transaction that inserts nothing has no foreign key to check.
ForeignKeyHolds(u, items) == items = {} \/ u \in ListUsers

\* Mutant: the old rows stay.
InsertStarredItems(u, t, items, now) ==
    /\ ForeignKeyHolds(u, items)
    /\ starred_cache' =
          starred_cache \cup
          {[username |-> u, item_type |-> t, item_id |-> i, synced_at |-> now] :
              i \in items}
    /\ UNCHANGED credentials

\* Replaces the rows of one type, in one transaction.
UpsertStarredItems(u, t, items, now) ==
    /\ ForeignKeyHolds(u, items)
    /\ starred_cache' =
          (starred_cache \ RowsOf(u, t)) \cup
          {[username |-> u, item_type |-> t, item_id |-> i, synced_at |-> now] :
              i \in items}
    /\ UNCHANGED credentials

----------------------------------------------------------------------------
DatabaseTypeOK ==
    /\ DOMAIN credentials \subseteq Users
    /\ credentials \in [DOMAIN credentials -> CredentialRow]
    /\ starred_cache \subseteq StarredRow
=============================================================================
