------------------------- MODULE FavouritesRegistry -------------------------
(***************************************************************************)
(* What the bot promises about the favourites it keeps, without the steps, *)
(* the timestamps and the goroutines: users register and are forgotten one *)
(* at a time, only the favourites of registered users are held, and to     *)
(* forget a user is to forget the favourites with the credentials.         *)
(***************************************************************************)
CONSTANT Users

VARIABLES
    registered,     \* the users that the bot can log in as
    held            \* the users of whom it holds favourites

rvars == <<registered, held>>

RInit == registered \in SUBSET Users /\ held = {}

Register(u) == registered' = registered \cup {u} /\ UNCHANGED held

Forget(u) == registered' = registered \ {u} /\ held' = held \ {u}

Hold(u) ==
    /\ u \in registered
    /\ held' = held \cup {u}
    /\ UNCHANGED registered

\* The last favourites of the user were unstarred.
LetGo(u) == held' = held \ {u} /\ UNCHANGED registered

RNext ==
    \E u \in Users : Register(u) \/ Forget(u) \/ Hold(u) \/ LetGo(u)

RSpec == RInit /\ [][RNext]_rvars
=============================================================================
