--------------------------- MODULE NavidromeServer ---------------------------
(***************************************************************************)
(* The accounts of the Navidrome server, as internal/navidrome/client.go   *)
(* sees them.  The server is not part of the repository: its users change  *)
(* their password, star things, sign in and leave whenever they like, and  *)
(* what the bot learns is what an answer of the API held at one instant.   *)
(*                                                                         *)
(* A password is a version number: changing it takes the next one, so no   *)
(* password comes back.  Passwords above the current one stand for wrong   *)
(* guesses that the user may make.                                         *)
(***************************************************************************)
EXTENDS Vocabulary, Integers, Functions

CONSTANTS
    OnFirstPage,    \* the users among the first 100 usernames of the server
    Events,         \* bound: what the users of the server do
    Favourites,     \* bound: what a user may have starred
    MaxClock,       \* bound: the last instant
    MaxPassword     \* bound: the last password of a user

ASSUME ServerAssumption ==
    /\ OnFirstPage \subseteq Users
    /\ Events \subseteq {"password", "signin", "star", "remove"}
    /\ Favourites \subseteq Snapshot
    /\ MaxClock \in Nat
    /\ MaxPassword \in Nat

VARIABLES
    clock,      \* wall-clock time, in the unit of the durations below
    account     \* username -> account, for the accounts that exist

servervars == <<clock, account>>

Never == 0      \* lastLoginAt of an account that has not signed in
FirstInstant == 1

Account == [password : 0..MaxPassword,
            starred : Snapshot,
            lastLogin : Nat]

ServerTypeOK ==
    /\ clock \in Nat
    /\ DOMAIN account \subseteq Users
    /\ account \in [DOMAIN account -> Account]

ServerInit ==
    /\ clock = FirstInstant
    /\ account \in [Users -> [password : {0},
                              starred : {NothingStarred},
                              lastLogin : {Never}]]

----------------------------------------------------------------------------
(* What the API answers.                                                   *)

\* ping, and any request of the Subsonic API: ErrAuth (code 40) otherwise.
Accepts(u, password) ==
    /\ u \in DOMAIN account
    /\ account[u].password = password

\* The native API is asked for the first page of its users (_end=100): a user
\* beyond it is not found, like one that has no account.  Never stands for
\* the nil that the client returns for both and for an empty lastLoginAt.
GetUserLastLogin(u) ==
    IF u \in DOMAIN account \cap OnFirstPage THEN account[u].lastLogin
    ELSE Never

----------------------------------------------------------------------------
(* What the users of the server do.                                        *)

Tick ==
    /\ clock < MaxClock
    /\ clock' = clock + 1
    /\ UNCHANGED account

ChangePassword(u) ==
    /\ "password" \in Events
    /\ account[u].password < MaxPassword
    /\ account' = [account EXCEPT ![u].password = @ + 1]
    /\ UNCHANGED clock

\* Signs in to Navidrome itself.
SignIn(u) ==
    /\ "signin" \in Events
    /\ account' = [account EXCEPT ![u].lastLogin = clock]
    /\ UNCHANGED clock

\* Stars and unstars things.
Star(u, starred) ==
    /\ "star" \in Events
    /\ account' = [account EXCEPT ![u].starred = starred]
    /\ UNCHANGED clock

RemoveAccount(u) ==
    /\ "remove" \in Events
    /\ account' = Restrict(account, DOMAIN account \ {u})
    /\ UNCHANGED clock

ServerNext ==
    \/ Tick
    \/ \E u \in DOMAIN account :
          \/ ChangePassword(u)
          \/ SignIn(u)
          \/ RemoveAccount(u)
          \/ \E starred \in Favourites : Star(u, starred)
=============================================================================
