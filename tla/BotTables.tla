------------------------------ MODULE BotTables ------------------------------
(***************************************************************************)
(* The tables of internal/database that the dialogs write: the tickets and *)
(* the users that opted out of /nowplaying.  As in Database, an operator   *)
(* is one statement, which is atomic.                                      *)
(*                                                                         *)
(* A ticket is what tells it from others: its description and its date are *)
(* left out.  A username stands for its spellings in upper and lower case, *)
(* which the column does not tell apart (COLLATE NOCASE).                  *)
(***************************************************************************)
EXTENDS Integers, FiniteSetsExt, Functions

CONSTANTS
    Senders,        \* Telegram accounts
    Words,          \* what they type, a word at a time
    MaxTickets      \* bound: the number of tickets that are saved

ASSUME TablesAssumption == MaxTickets \in Nat

VARIABLES
    tickets,            \* the table: id -> ticket, for the open tickets
    lastID,             \* the last id that was given (sqlite_sequence)
    nowplaying_filters  \* the table: the usernames that are filtered

tablevars == <<tickets, lastID, nowplaying_filters>>

TicketTypes == {"issue", "improvement"}
Ticket == [type : TicketTypes, title : Words, author : Senders]

TablesTypeOK ==
    /\ DOMAIN tickets \subseteq 1..lastID
    /\ tickets \in [DOMAIN tickets -> Ticket]
    /\ lastID \in 0..MaxTickets
    /\ nowplaying_filters \subseteq Words

TablesInit ==
    /\ tickets = [id \in {} |-> {}]
    /\ lastID = 0
    /\ nowplaying_filters \in SUBSET Words

----------------------------------------------------------------------------
\* A map with one more, or one less, of its keys.
Put(map, key, value) ==
    [k \in DOMAIN map \cup {key} |-> IF k = key THEN value ELSE map[k]]
Drop(map, key) == Restrict(map, DOMAIN map \ {key})

\* Mutant: the table is not AUTOINCREMENT, and the id of the last row is given
\* again when that row is gone.
AddTicketReusing(ticket) ==
    LET id == Max(DOMAIN tickets \cup {0}) + 1
    IN  /\ id <= MaxTickets
        /\ lastID' = id
        /\ tickets' = Put(tickets, id, ticket)
        /\ UNCHANGED nowplaying_filters

\* AUTOINCREMENT: an id is never given again.
AddTicket(ticket) ==
    /\ lastID < MaxTickets
    /\ lastID' = lastID + 1
    /\ tickets' = Put(tickets, lastID + 1, ticket)
    /\ UNCHANGED nowplaying_filters

ListTickets == {[id |-> id, ticket |-> tickets[id]] : id \in DOMAIN tickets}

CloseTicket(id) ==
    /\ tickets' = Drop(tickets, id)
    /\ UNCHANGED <<lastID, nowplaying_filters>>

\* What CloseTicket returns: a row was deleted.
Removed(id) == id \in DOMAIN tickets

----------------------------------------------------------------------------
IsNowPlayingFiltered(name) == name \in nowplaying_filters

GetNowPlayingFilteredUsers == nowplaying_filters

SetNowPlayingFilter(name) ==
    /\ nowplaying_filters' = nowplaying_filters \cup {name}
    /\ UNCHANGED <<tickets, lastID>>

RemoveNowPlayingFilter(name) ==
    /\ nowplaying_filters' = nowplaying_filters \ {name}
    /\ UNCHANGED <<tickets, lastID>>
=============================================================================
