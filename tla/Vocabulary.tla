----------------------------- MODULE Vocabulary -----------------------------
(***************************************************************************)
(* The names that the bot and the Navidrome server share.                  *)
(***************************************************************************)

CONSTANTS
    Users,          \* Navidrome usernames
    Items           \* identifiers of the things a user may star

NoUser == ""        \* the empty username

ASSUME NoUserAssumption == NoUser \notin Users

ItemTypes == {"song", "album", "artist"}

\* What getStarred2 returns: the items of each type.
Snapshot == [ItemTypes -> SUBSET Items]
NothingStarred == [t \in ItemTypes |-> {}]
=============================================================================
