--------------------------- MODULE MessageHandlers ---------------------------
(***************************************************************************)
(* internal/telegram: authorization of the senders, the dialogs of /login, *)
(* /disable_np, /enable_np and /ticket, and the closing of tickets.        *)
(*                                                                         *)
(* The Telegram library runs every update in a goroutine of its own, a     *)
(* handler; the messages of one sender may well be handled at once.  A     *)
(* handler takes one step per critical section of the mutex of a map, per  *)
(* statement of the database and per HTTP request; between two steps it    *)
(* waits for the mutex, the database, Navidrome or Telegram.               *)
(***************************************************************************)
EXTENDS BotTables, Sequences

CONSTANTS
    Names,          \* the usernames on Navidrome
    Password,       \* username -> password
    Handlers,       \* handlers that run at a time
    Chats,          \* bound: where updates come from
    Kinds,          \* bound: the kinds of updates that arrive
    Joiners,        \* bound: the senders that join and leave the group
    AuthTTL,        \* 1 hour in the code
    MaxClock        \* bound: the last instant

ASSUME MessagesAssumption ==
    /\ Names \subseteq Words
    /\ Password \in [Names -> Words]
    /\ Chats \subseteq {"private", "group"}
    /\ Kinds \subseteq {"text", "login", "disable_np", "enable_np", "done",
                        "nowplaying", "help", "ticket_type", "ticket_done"}
    /\ Joiners \subseteq Senders
    /\ AuthTTL \in Nat \ {0}
    /\ MaxClock \in Nat

VARIABLES
    clock,          \* wall-clock time
    members,        \* Telegram: the senders that are in the authorized group
    buttons,        \* Telegram: the buttons of the /done keyboards, with the
                    \* tickets they are labelled with
    authCache,      \* sender -> isAuth and lastCheck, for the senders in it
    loginStates,    \* sender -> where the dialog is, for those in one
    npFilterStates,
    ticketStates,
    update          \* handler -> the update it handles, with its locals

telegramvars == <<clock, members, buttons>>
statevars == <<authCache, loginStates, npFilterStates, ticketStates>>
vars == <<tablevars, telegramvars, statevars, update>>

NoWord == ""
ASSUME NoWordAssumption == NoWord \notin Words

Command == {"login", "disable_np", "enable_np", "done", "nowplaying", "help"}
NPCommand == {"disable_np", "enable_np"}

AuthEntry == [isAuth : BOOLEAN, lastCheck : Nat]

\* step 1 waits for the username, step 2 for the password.
LoginState == [step : {1}, name : {NoWord}] \cup [step : {2}, name : Words]
NPFilterState == [action : NPCommand, step : {1}, name : {NoWord}] \cup
                 [action : NPCommand, step : {2}, name : Words]
TicketState == [step : {"title"}, type : TicketTypes, title : {NoWord}] \cup
               [step : {"description"}, type : TicketTypes, title : Words]
NoTicket == [step |-> "none", type |-> "none", title |-> NoWord]

PCs == {"idle", "cancelLogin", "cancelNP", "readLogin", "askPassword",
        "takePassword", "readNP", "takeNPPassword", "readTicket", "authorize",
        "ask", "remember", "dispatch", "beginLogin", "beginNP", "check",
        "prompt", "cleanup", "ping", "write", "keyboard", "close", "confirm",
        "begin", "title", "description", "add", "nowPlaying", "filters", "show"}

Arguments == UNION {[1..n -> Words] : n \in 0..2}

\* The words are those that follow the command, or those of the text; a text
\* is trimmed, and its spaces are left out.
Update == [pc : PCs,
           user : Senders \cup {NoWord},
           chat : {"private", "group"},
           kind : Kinds \cup {"none"},
           words : Arguments,
           isMember : BOOLEAN,
           action : NPCommand \cup {"none"},    \* of the opt-out, and below
           name : Words \cup {NoWord},
           password : Words \cup {NoWord},
           deferred : BOOLEAN,      \* checkAndPromptNPPassword has to clean up
           state : TicketState \cup {NoTicket}, \* that was read, or is begun
           id : Nat,
           entries : SUBSET Names,  \* who is playing, or of those to be shown
           err : BOOLEAN]           \* the opt-outs could not be read

NoUpdate == [pc |-> "idle", user |-> NoWord, chat |-> "private",
             kind |-> "none", words |-> <<>>, isMember |-> FALSE,
             action |-> "none", name |-> NoWord, password |-> NoWord,
             deferred |-> FALSE, state |-> NoTicket, id |-> 0,
             entries |-> {}, err |-> FALSE]

\* A map of the Bot: some of the senders have an entry.
MapTo(map, S) == DOMAIN map \subseteq Senders /\ map \in [DOMAIN map -> S]

TypeOK ==
    /\ TablesTypeOK
    /\ clock \in Nat
    /\ members \subseteq Senders
    /\ buttons \subseteq [id : 1..lastID, ticket : Ticket]
    /\ MapTo(authCache, AuthEntry)
    /\ MapTo(loginStates, LoginState)
    /\ MapTo(npFilterStates, NPFilterState)
    /\ MapTo(ticketStates, TicketState)
    /\ update \in [Handlers -> Update]

Empty == [u \in {} |-> NoWord]

Init ==
    /\ TablesInit
    /\ clock = 0
    /\ members \in SUBSET Joiners
    /\ buttons = {}
    /\ authCache = Empty
    /\ loginStates = Empty
    /\ npFilterStates = Empty
    /\ ticketStates = Empty
    /\ update = [w \in Handlers |-> NoUpdate]

----------------------------------------------------------------------------
(* Steps of a handler.                                                     *)

At(w, pc) == update[w].pc = pc
Become(w, j) == update' = [update EXCEPT ![w] = j]
Goto(w, pc) == Become(w, [update[w] EXCEPT !.pc = pc])
End(w) == Become(w, NoUpdate)

Text(w) == Head(update[w].words)
Blank(w) == update[w].words = <<>>
Sender(w) == update[w].user

\* Steps that leave all but some of the state alone.
OnlyHandler == UNCHANGED <<tablevars, telegramvars, statevars>>
OnlyStates == UNCHANGED <<tablevars, telegramvars>>

----------------------------------------------------------------------------
(* handleUpdate: a message or a button.                                    *)

Receive(w, j) ==
    /\ At(w, "idle")
    /\ j.kind \in Kinds
    /\ Become(w, j)
    /\ OnlyHandler

\* In a private chat a command cancels the dialogs, and a text may be an
\* answer.
FirstStep(chat, kind) ==
    CASE chat = "private" /\ kind # "text" -> "cancelLogin"
      [] chat = "private" /\ kind = "text" -> "readLogin"
      [] chat = "group" /\ kind # "text" -> "authorize"
      [] chat = "group" /\ kind = "text" -> "readTicket"

\* The words that matter to the command, and an id after /done.
ReceiveMessage(w) ==
    \E u \in Senders, chat \in Chats, kind \in Command \cup {"text"} :
        \E words \in CASE kind = "text" -> [1..1 -> Words] \cup {<<>>}
                       [] kind \in {"login"} \cup NPCommand -> Arguments
                       [] OTHER -> {<<>>},
           id \in IF kind = "done" THEN 0..MaxTickets ELSE {0} :
            Receive(w, [NoUpdate EXCEPT !.pc = FirstStep(chat, kind),
                                        !.user = u, !.chat = chat,
                                        !.kind = kind, !.words = words,
                                        !.id = id])

\* A button of the keyboard of /ticket.
PressTicketType(w) ==
    \E u \in Senders, type \in TicketTypes :
        Receive(w, [NoUpdate EXCEPT
            !.pc = "begin", !.user = u, !.chat = "group",
            !.kind = "ticket_type",
            !.state = [step |-> "title", type |-> type, title |-> NoWord]])

\* A button of a keyboard of /done, however old.
PressTicketDone(w) ==
    \E u \in Senders, b \in buttons :
        Receive(w, [NoUpdate EXCEPT !.pc = "close", !.user = u,
                                    !.chat = "group", !.kind = "ticket_done",
                                    !.id = b.id])

----------------------------------------------------------------------------
(* handleMessage: the interactive states.                                  *)

CancelLogin(w) ==
    /\ At(w, "cancelLogin")
    /\ loginStates' = Drop(loginStates, Sender(w))
    /\ Goto(w, "cancelNP")
    /\ OnlyStates /\ UNCHANGED <<authCache, npFilterStates, ticketStates>>

\* Mutant: a command cancels the dialog of /login only.
CancelNothing(w) ==
    /\ At(w, "cancelNP")
    /\ Goto(w, "authorize")
    /\ OnlyHandler

CancelNP(w) ==
    /\ At(w, "cancelNP")
    /\ npFilterStates' = Drop(npFilterStates, Sender(w))
    /\ Goto(w, "authorize")
    /\ OnlyStates /\ UNCHANGED <<authCache, loginStates, ticketStates>>

\* The message is deleted before the answer is taken.
ReadLogin(w) ==
    /\ At(w, "readLogin")
    /\ IF Sender(w) \notin DOMAIN loginStates THEN Goto(w, "readNP")
       ELSE LET state == loginStates[Sender(w)]
            IN  Become(w, [update[w] EXCEPT
                    !.pc = IF state.step = 1 THEN "askPassword"
                           ELSE "takePassword",
                    !.name = state.name])
    /\ OnlyHandler

AskPassword(w) ==
    /\ At(w, "askPassword")
    /\ loginStates' = IF Blank(w) THEN loginStates
                      ELSE Put(loginStates, Sender(w),
                               [step |-> 2, name |-> Text(w)])
    /\ End(w)
    /\ OnlyStates /\ UNCHANGED <<authCache, npFilterStates, ticketStates>>

\* What processLogin does with the answers is the login of ActivityEngine.
TakePassword(w) ==
    /\ At(w, "takePassword")
    /\ loginStates' = Drop(loginStates, Sender(w))
    /\ End(w)
    /\ OnlyStates /\ UNCHANGED <<authCache, npFilterStates, ticketStates>>

\* A blank username is asked for again.
ReadNP(w) ==
    /\ At(w, "readNP")
    /\ IF Sender(w) \notin DOMAIN npFilterStates THEN Goto(w, "readTicket")
       ELSE LET state == npFilterStates[Sender(w)]
                read == [update[w] EXCEPT !.action = state.action]
            IN  IF state.step = 2
                THEN Become(w, [read EXCEPT !.pc = "takeNPPassword",
                                            !.name = state.name])
                ELSE IF Blank(w) THEN End(w)
                ELSE Become(w, [read EXCEPT !.pc = "check", !.name = Text(w),
                                            !.deferred = TRUE])
    /\ OnlyHandler

TakeNPPassword(w) ==
    /\ At(w, "takeNPPassword")
    /\ npFilterStates' = Drop(npFilterStates, Sender(w))
    /\ IF Blank(w) THEN End(w)
       ELSE Become(w, [update[w] EXCEPT !.pc = "ping", !.password = Text(w)])
    /\ OnlyStates /\ UNCHANGED <<authCache, loginStates, ticketStates>>

ReadTicket(w) ==
    /\ At(w, "readTicket")
    /\ IF Sender(w) \notin DOMAIN ticketStates THEN End(w)
       ELSE Become(w, [update[w] EXCEPT !.pc = "authorize",
                                        !.state = ticketStates[Sender(w)]])
    /\ OnlyHandler

----------------------------------------------------------------------------
(* isAuthorized                                                            *)

Fresh(entry) == clock - entry.lastCheck < AuthTTL

\* Mutant: an entry that is used is kept for longer.
AuthorizeAndRenew(w) ==
    /\ At(w, "authorize")
    /\ IF update[w].chat = "group" THEN Goto(w, "dispatch") /\ UNCHANGED authCache
       ELSE IF Sender(w) \in DOMAIN authCache /\ Fresh(authCache[Sender(w)])
       THEN IF authCache[Sender(w)].isAuth
            THEN /\ Goto(w, "dispatch")
                 /\ authCache' = [authCache EXCEPT ![Sender(w)].lastCheck = clock]
            ELSE End(w) /\ UNCHANGED authCache
       ELSE Goto(w, "ask") /\ UNCHANGED authCache
    /\ OnlyStates /\ UNCHANGED <<loginStates, npFilterStates, ticketStates>>

\* The group is authorized itself; a sender in private is a member of it, or
\* was lately.
Authorize(w) ==
    /\ At(w, "authorize")
    /\ IF update[w].chat = "group" THEN Goto(w, "dispatch")
       ELSE IF Sender(w) \in DOMAIN authCache /\ Fresh(authCache[Sender(w)])
       THEN IF authCache[Sender(w)].isAuth THEN Goto(w, "dispatch") ELSE End(w)
       ELSE Goto(w, "ask")
    /\ OnlyHandler

\* GetChatMember; an error counts as "not a member".
Ask(w) ==
    /\ At(w, "ask")
    /\ \E isMember \in {Sender(w) \in members, FALSE} :
          Become(w, [update[w] EXCEPT !.pc = "remember", !.isMember = isMember])
    /\ OnlyHandler

Remember(w) ==
    /\ At(w, "remember")
    /\ authCache' = Put(authCache, Sender(w),
                        [isAuth |-> update[w].isMember, lastCheck |-> clock])
    /\ IF update[w].isMember
       THEN Become(w, [update[w] EXCEPT !.pc = "dispatch", !.isMember = FALSE])
       ELSE End(w)
    /\ OnlyStates /\ UNCHANGED <<loginStates, npFilterStates, ticketStates>>

----------------------------------------------------------------------------
(* What an admitted sender gets.                                           *)

\* In the chat where the command is allowed; /login with both words is the
\* login of ActivityEngine, and the other commands change nothing.
Dispatch(w) ==
    LET j == update[w]
        private == j.chat = "private"
        givenNP == [j EXCEPT !.action = j.kind, !.name = Head(j.words),
                             !.password = IF Len(j.words) = 2 THEN j.words[2]
                                          ELSE NoWord,
                             !.deferred = TRUE, !.pc = "check"]
    IN  /\ At(w, "dispatch")
        /\ CASE j.kind = "text" /\ ~Blank(w) -> Goto(w, j.state.step)
             [] j.kind = "login" /\ private /\ Len(j.words) < 2 ->
                    Goto(w, "beginLogin")
             [] j.kind \in NPCommand /\ private /\ Blank(w) -> Goto(w, "beginNP")
             [] j.kind \in NPCommand /\ private /\ ~Blank(w) -> Become(w, givenNP)
             [] j.kind = "done" /\ ~private ->
                    Goto(w, IF j.id = 0 THEN "keyboard" ELSE "close")
             [] j.kind = "nowplaying" /\ ~private -> Goto(w, "nowPlaying")
             [] OTHER -> End(w)
        /\ OnlyHandler

BeginLogin(w) ==
    /\ At(w, "beginLogin")
    /\ loginStates' = Put(loginStates, Sender(w), [step |-> 1, name |-> NoWord])
    /\ End(w)
    /\ OnlyStates /\ UNCHANGED <<authCache, npFilterStates, ticketStates>>

\* Mutant: the dialog begins at the step of the password.
BeginNPAtPassword(w) ==
    /\ At(w, "beginNP")
    /\ npFilterStates' = Put(npFilterStates, Sender(w),
                             [action |-> update[w].kind, step |-> 2,
                              name |-> NoWord])
    /\ End(w)
    /\ OnlyStates /\ UNCHANGED <<authCache, loginStates, ticketStates>>

BeginNP(w) ==
    /\ At(w, "beginNP")
    /\ npFilterStates' = Put(npFilterStates, Sender(w),
                             [action |-> update[w].kind, step |-> 1,
                              name |-> NoWord])
    /\ End(w)
    /\ OnlyStates /\ UNCHANGED <<authCache, loginStates, ticketStates>>

----------------------------------------------------------------------------
(* checkAndPromptNPPassword and processNPFilter.                           *)

\* A database error ends the dialog, and so does a user who is already what
\* the command asks for.
Check(w) ==
    LET j == update[w]
        already == IsNowPlayingFiltered(j.name) <=> j.action = "disable_np"
    IN  /\ At(w, "check")
        /\ \/ Goto(w, "cleanup")
           \/ /\ ~already
              /\ Goto(w, IF j.password = NoWord THEN "prompt" ELSE "ping")
        /\ OnlyHandler

Prompt(w) ==
    /\ At(w, "prompt")
    /\ npFilterStates' = Put(npFilterStates, Sender(w),
                             [action |-> update[w].action, step |-> 2,
                              name |-> update[w].name])
    /\ Goto(w, "cleanup")
    /\ OnlyStates /\ UNCHANGED <<authCache, loginStates, ticketStates>>

\* Mutant: the state is left as it is.
CleanupForgotten(w) ==
    /\ At(w, "cleanup")
    /\ End(w)
    /\ OnlyHandler

\* The deferred function: clears the state of step 1, whoever set it.
Cleanup(w) ==
    /\ At(w, "cleanup")
    /\ npFilterStates' =
          IF Sender(w) \in DOMAIN npFilterStates
             /\ npFilterStates[Sender(w)].step # 2
          THEN Drop(npFilterStates, Sender(w))
          ELSE npFilterStates
    /\ End(w)
    /\ OnlyStates /\ UNCHANGED <<authCache, loginStates, ticketStates>>

\* processNPFilter returns to its caller, which may have to clean up.
Finish(w) == IF update[w].deferred THEN Goto(w, "cleanup") ELSE End(w)

Accepts(name, password) == name \in Names /\ Password[name] = password

Ping(w) ==
    /\ At(w, "ping")
    /\ \/ Accepts(update[w].name, update[w].password) /\ Goto(w, "write")
       \/ Finish(w)
    /\ OnlyHandler

Write(w) ==
    /\ At(w, "write")
    /\ \/ /\ update[w].action = "disable_np"
          /\ SetNowPlayingFilter(update[w].name)
       \/ /\ update[w].action = "enable_np"
          /\ RemoveNowPlayingFilter(update[w].name)
       \/ UNCHANGED tablevars               \* database error
    /\ Finish(w)
    /\ UNCHANGED <<telegramvars, statevars>>

----------------------------------------------------------------------------
(* handleNowPlaying.                                                       *)

\* GetNowPlaying: whoever plays at the instant, or an error.
NowPlaying(w) ==
    /\ At(w, "nowPlaying")
    /\ \/ \E entries \in SUBSET Names \ {{}} :
              Become(w, [update[w] EXCEPT !.pc = "filters", !.entries = entries])
       \/ End(w)
    /\ OnlyHandler

\* Mutant: when nobody would be left, everybody is.
VisibleOrAll(w, filters, err) ==
    LET entries == update[w].entries \ filters
    IN  Become(w, [update[w] EXCEPT
                      !.pc = "show", !.err = err,
                      !.entries = IF entries = {} THEN @ ELSE entries])

\* Who is left is shown; an error of the database leaves everybody.
Visible(w, filters, err) ==
    LET entries == update[w].entries \ filters
    IN  IF entries = {} THEN End(w)
        ELSE Become(w, [update[w] EXCEPT !.pc = "show", !.entries = entries,
                                         !.err = err])

ReadFilters(w) ==
    /\ At(w, "filters")
    /\ \/ Visible(w, GetNowPlayingFilteredUsers, FALSE)
       \/ Visible(w, {}, TRUE)
    /\ OnlyHandler

\* The message, after a LibrarySync for the tags of the albums, whose error
\* is not looked at.
Show(w) ==
    /\ At(w, "show")
    /\ End(w)
    /\ OnlyHandler

----------------------------------------------------------------------------
(* Tickets.                                                                *)

Begin(w) ==
    /\ At(w, "begin")
    /\ ticketStates' = Put(ticketStates, Sender(w), update[w].state)
    /\ End(w)
    /\ OnlyStates /\ UNCHANGED <<authCache, loginStates, npFilterStates>>

\* Mutant: the title goes to whatever dialog the sender is in by now.
SetTitleInPlace(w) ==
    /\ At(w, "title")
    /\ ticketStates' =
          Put(ticketStates, Sender(w),
              [step |-> "description",
               type |-> IF Sender(w) \in DOMAIN ticketStates
                        THEN ticketStates[Sender(w)].type
                        ELSE update[w].state.type,
               title |-> Text(w)])
    /\ End(w)
    /\ OnlyStates /\ UNCHANGED <<authCache, loginStates, npFilterStates>>

SetTitle(w) ==
    /\ At(w, "title")
    /\ ticketStates' =
          Put(ticketStates, Sender(w),
              [update[w].state EXCEPT !.step = "description",
                                      !.title = Text(w)])
    /\ End(w)
    /\ OnlyStates /\ UNCHANGED <<authCache, loginStates, npFilterStates>>

TakeDescription(w) ==
    /\ At(w, "description")
    /\ ticketStates' = Drop(ticketStates, Sender(w))
    /\ Goto(w, "add")
    /\ OnlyStates /\ UNCHANGED <<authCache, loginStates, npFilterStates>>

SaveTicket(w) ==
    /\ At(w, "add")
    /\ \/ AddTicket([type |-> update[w].state.type,
                     title |-> update[w].state.title,
                     author |-> Sender(w)])
       \/ UNCHANGED tablevars               \* database error
    /\ End(w)
    /\ UNCHANGED <<telegramvars, statevars>>

\* /done without an id shows a button for each open ticket.
Keyboard(w) ==
    /\ At(w, "keyboard")
    /\ buttons' \in {buttons \cup ListTickets, buttons}
    /\ End(w)
    /\ UNCHANGED <<tablevars, clock, members, statevars>>

\* Mutant: the number of deleted rows is not looked at.
CloseBlindly(w) ==
    /\ At(w, "close")
    /\ \/ CloseTicket(update[w].id) /\ Goto(w, "confirm")
       \/ End(w) /\ UNCHANGED tablevars
    /\ UNCHANGED <<telegramvars, statevars>>

Close(w) ==
    /\ At(w, "close")
    /\ \/ /\ CloseTicket(update[w].id)
          /\ IF Removed(update[w].id) THEN Goto(w, "confirm") ELSE End(w)
       \/ End(w) /\ UNCHANGED tablevars     \* database error
    /\ UNCHANGED <<telegramvars, statevars>>

\* "Ticket marked as done and removed."
Confirm(w) ==
    /\ At(w, "confirm")
    /\ End(w)
    /\ OnlyHandler

----------------------------------------------------------------------------
\* The process starts again: the tables remain, and the keyboards.
Restart ==
    /\ update' = [w \in Handlers |-> NoUpdate]
    /\ authCache' = Empty
    /\ loginStates' = Empty
    /\ npFilterStates' = Empty
    /\ ticketStates' = Empty
    /\ UNCHANGED <<tablevars, telegramvars>>

\* An answer of GetChatMember takes less than the unit of the clock.
Tick ==
    /\ clock < MaxClock
    /\ \A w \in Handlers : ~At(w, "remember")
    /\ clock' = clock + 1
    /\ UNCHANGED <<tablevars, members, buttons, statevars, update>>

JoinOrLeave ==
    /\ members' \in SUBSET Joiners
    /\ UNCHANGED <<tablevars, clock, buttons, statevars, update>>

Arrive(w) ==
    \/ ReceiveMessage(w)
    \/ PressTicketType(w)
    \/ PressTicketDone(w)

Proceed(w) ==
    \/ CancelLogin(w)
    \/ CancelNP(w)
    \/ ReadLogin(w)
    \/ AskPassword(w)
    \/ TakePassword(w)
    \/ ReadNP(w)
    \/ TakeNPPassword(w)
    \/ ReadTicket(w)
    \/ Authorize(w)
    \/ Ask(w)
    \/ Remember(w)
    \/ Dispatch(w)
    \/ BeginLogin(w)
    \/ BeginNP(w)
    \/ Check(w)
    \/ Prompt(w)
    \/ Cleanup(w)
    \/ Ping(w)
    \/ Write(w)
    \/ NowPlaying(w)
    \/ ReadFilters(w)
    \/ Show(w)
    \/ Begin(w)
    \/ SetTitle(w)
    \/ TakeDescription(w)
    \/ SaveTicket(w)
    \/ Keyboard(w)
    \/ Close(w)
    \/ Confirm(w)

Environment == Tick \/ JoinOrLeave

Next ==
    \/ \E w \in Handlers : Arrive(w) \/ Proceed(w)
    \/ Environment
    \/ Restart

Spec == Init /\ [][Next]_vars

----------------------------------------------------------------------------
(* Properties.                                                             *)

\* An id on a button of a keyboard, however old, is the one of the ticket that
\* the button shows, or of none: /done never closes another ticket.
ButtonsShowTheirTicket ==
    \A b \in buttons : b.id \in DOMAIN tickets => tickets[b.id] = b.ticket
=============================================================================
