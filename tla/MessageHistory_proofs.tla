------------------------ MODULE MessageHistory_proofs ------------------------
(***************************************************************************)
(* Theorems about MessageHistory, for any senders, handlers and words, and *)
(* any age of the entries of the cache.  Every invariant comes with that   *)
(* of the types, which says what a handler holds where it is.              *)
(***************************************************************************)
EXTENDS MessageHistory, MessageHandlers_proofs, FiniteSetTheorems

----------------------------------------------------------------------------
(* Where a step leads.                                                     *)

LEMMA GotoLeads ==
    ASSUME UpdatesTyped, NEW w \in Handlers, NEW pc, Goto(w, pc)
    PROVE  /\ Moves(w)
           /\ update'[w] = [update[w] EXCEPT !.pc = pc]
           /\ update'[w].pc = pc
<1>1. DOMAIN update = Handlers /\ update[w] \in Update
  BY DEF UpdatesTyped, Typed
<1>2. Moves(w) /\ update'[w] = [update[w] EXCEPT !.pc = pc]
  BY <1>1, GotoMoves
<1>3. [update[w] EXCEPT !.pc = pc].pc = pc
  BY <1>1 DEF Update
<1> QED
  BY <1>2, <1>3

LEMMA BecomeLeads ==
    ASSUME UpdatesTyped, NEW w \in Handlers, NEW j, Become(w, j)
    PROVE  Moves(w) /\ update'[w] = j
  BY BecomeMoves DEF UpdatesTyped

LEMMA EndLeads ==
    ASSUME UpdatesTyped, NEW w \in Handlers, End(w)
    PROVE  Moves(w) /\ update'[w] = NoUpdate /\ update'[w].pc = "idle"
<1>1. DOMAIN update = Handlers
  BY DEF UpdatesTyped
<1>2. Moves(w) /\ update'[w] = NoUpdate
  BY <1>1, EndMoves
<1>3. NoUpdate.pc = "idle"
  BY DEF NoUpdate
<1> QED
  BY <1>2, <1>3

\* Where the properties look.
Watched == {"remember", "dispatch", "show", "confirm"}

LEMMA GotoElsewhere ==
    ASSUME UpdatesTyped, NEW w \in Handlers, NEW pc, pc \notin Watched,
           Goto(w, pc)
    PROVE  update'[w].pc \notin Watched
  BY GotoLeads

LEMMA BecomeElsewhere ==
    ASSUME UpdatesTyped, NEW w \in Handlers, NEW j, j.pc \notin Watched,
           Become(w, j)
    PROVE  update'[w].pc \notin Watched
  BY BecomeLeads

LEMMA EndElsewhere ==
    ASSUME UpdatesTyped, NEW w \in Handlers, End(w)
    PROVE  update'[w].pc \notin Watched
  BY EndLeads DEF Watched

LEMMA ArriveLeads ==
    ASSUME TypeInv, NEW w \in Handlers, Arrive(w)
    PROVE  update'[w].pc \notin Watched
<1>1. DOMAIN update = Handlers
  BY DEF TypeInv, UpdatesTyped
<1>2. \A j : Receive(w, j) => update'[w] = j
  BY <1>1, ReceiveMoves
<1>3. CASE ReceiveMessage(w)
  <2>1. PICK u \in Senders, chat \in Chats, kind \in Command \cup {"text"} :
           \E words, id :
              Receive(w, [NoUpdate EXCEPT !.pc = FirstStep(chat, kind),
                                          !.user = u, !.chat = chat,
                                          !.kind = kind, !.words = words,
                                          !.id = id])
    BY <1>3 DEF ReceiveMessage
  <2>2. FirstStep(chat, kind) \in {"cancelLogin", "readLogin", "authorize", "readTicket"}
    BY MessagesAssumption DEF FirstStep
  <2>3. \A words, id :
           [NoUpdate EXCEPT !.pc = FirstStep(chat, kind), !.user = u,
                            !.chat = chat, !.kind = kind, !.words = words,
                            !.id = id].pc = FirstStep(chat, kind)
    BY DEF NoUpdate
  <2>4. update'[w].pc = FirstStep(chat, kind)
    BY <1>2, <2>1, <2>3
  <2> QED
    BY <2>2, <2>4 DEF Watched
<1>4. CASE PressTicketType(w)
  <2>1. \E u \in Senders, type \in TicketTypes : update'[w] =
           [NoUpdate EXCEPT
               !.pc = "begin", !.user = u, !.chat = "group",
               !.kind = "ticket_type",
               !.state = [step |-> "title", type |-> type, title |-> NoWord]]
    BY <1>2, <1>4 DEF PressTicketType
  <2>2. update'[w].pc = "begin"
    BY <2>1 DEF NoUpdate
  <2> QED
    BY <2>2 DEF Watched
<1>5. CASE PressTicketDone(w)
  <2>1. \E u \in Senders, b \in buttons : update'[w] =
           [NoUpdate EXCEPT !.pc = "close", !.user = u, !.chat = "group",
                            !.kind = "ticket_done", !.id = b.id]
    BY <1>2, <1>5 DEF PressTicketDone
  <2>2. update'[w].pc = "close"
    BY <2>1 DEF NoUpdate
  <2> QED
    BY <2>2 DEF Watched
<1> QED
  BY <1>3, <1>4, <1>5 DEF Arrive

LEMMA OtherLeads ==
    ASSUME TypeInv, NEW w \in Handlers, OtherStep(w)
    PROVE  update'[w].pc \notin Watched
<1>1. UpdatesTyped /\ update[w] \in Update
  BY DEF TypeInv, UpdatesTyped, Typed
<1>2. CASE NowPlaying(w)
  <2>1. \/ \E entries : Become(w, [update[w] EXCEPT !.pc = "filters",
                                                    !.entries = entries])
        \/ End(w)
    BY <1>2 DEF NowPlaying
  <2>2. \A entries : [update[w] EXCEPT !.pc = "filters", !.entries = entries].pc
                        = "filters"
    BY <1>1 DEF Update
  <2> QED
    BY <1>1, <2>1, <2>2, BecomeElsewhere, EndElsewhere DEF Watched
<1>3. CASE TakeDescription(w)
  BY <1>1, <1>3, GotoElsewhere DEF TakeDescription, Watched
<1>4. CASE ~NowPlaying(w) /\ ~TakeDescription(w)
  <2>1. End(w)
    BY <1>4 DEF OtherStep, Show, Begin, SetTitle, SaveTicket, Keyboard, Confirm
  <2> QED
    BY <1>1, <2>1, EndElsewhere DEF Watched
<1> QED
  BY <1>2, <1>3, <1>4

LEMMA DispatchLeads ==
    ASSUME TypeInv, NEW w \in Handlers, Dispatch(w)
    PROVE  update'[w].pc \notin Watched
<1> DEFINE j == update[w]
           private == j.chat = "private"
           givenNP == [j EXCEPT !.action = j.kind, !.name = Head(j.words),
                             !.password = IF Len(j.words) = 2 THEN j.words[2]
                                          ELSE NoWord,
                             !.deferred = TRUE, !.pc = "check"]
<1>1. UpdatesTyped /\ j \in Update /\ TypedAt(j)
  BY DEF TypeInv, UpdatesTyped, Typed
<1>2. CASE j.kind = "text" /\ ~Blank(w)
  <2>1. j.state \in TicketState
    BY <1>1, <1>2 DEF TypedAt, Dispatch, At
  <2>2. j.state.step \in {"title", "description"}
    BY <2>1, TicketTypesOf
  <2>3. Goto(w, j.state.step)
    BY <1>2 DEF Dispatch, NPCommand
  <2> QED
    BY <1>1, <2>2, <2>3, GotoElsewhere DEF Watched
<1>3. CASE ~(j.kind = "text" /\ ~Blank(w))
  <2>1. givenNP.pc = "check"
    BY <1>1 DEF Update
  <2> HIDE DEF givenNP
  <2>2. \/ Goto(w, "beginLogin") \/ Goto(w, "keyboard") \/ Goto(w, "close")
        \/ Goto(w, "nowPlaying") \/ Goto(w, "beginNP") \/ End(w)
        \/ Become(w, givenNP)
    BY <1>3 DEF Dispatch, givenNP, NPCommand
  <2> QED
    BY <1>1, <2>1, <2>2, GotoElsewhere, BecomeElsewhere, EndElsewhere DEF Watched
<1> QED
  BY <1>2, <1>3

LEMMA ReadNPLeads ==
    ASSUME TypeInv, NEW w \in Handlers, ReadNP(w) \/ TakeNPPassword(w)
                                        \/ ReadLogin(w)
    PROVE  update'[w].pc \notin Watched
<1> DEFINE j == update[w]
           np == npFilterStates[Sender(w)]
           login == loginStates[Sender(w)]
           pc == IF login.step = 1 THEN "askPassword" ELSE "takePassword"
           asked1 == [[j EXCEPT !.action = np.action] EXCEPT
                          !.pc = "takeNPPassword", !.name = np.name]
           named == [[j EXCEPT !.action = np.action] EXCEPT
                          !.pc = "check", !.name = Text(w), !.deferred = TRUE]
           given == [j EXCEPT !.pc = "ping", !.password = Text(w)]
           answering == [j EXCEPT !.pc = pc, !.name = login.name]
<1>1. UpdatesTyped /\ j \in Update
  BY DEF TypeInv, UpdatesTyped, Typed
<1>2. /\ asked1.pc = "takeNPPassword" /\ named.pc = "check" /\ given.pc = "ping"
      /\ answering.pc = pc
  BY <1>1 DEF Update
<1>3. pc \notin Watched
  BY DEF Watched
<1>4. CASE ReadNP(w)
  <2>1. Goto(w, "readTicket") \/ Become(w, asked1) \/ End(w) \/ Become(w, named)
    BY <1>4 DEF ReadNP
  <2> HIDE DEF asked1, named
  <2> QED
    BY <1>1, <1>2, <2>1, GotoElsewhere, BecomeElsewhere, EndElsewhere DEF Watched
<1>5. CASE TakeNPPassword(w)
  <2>1. End(w) \/ Become(w, given)
    BY <1>5 DEF TakeNPPassword
  <2> HIDE DEF given
  <2> QED
    BY <1>1, <1>2, <2>1, BecomeElsewhere, EndElsewhere DEF Watched
<1>6. CASE ReadLogin(w)
  <2>1. Goto(w, "readNP") \/ Become(w, answering)
    BY <1>6 DEF ReadLogin
  <2> HIDE DEF answering, pc
  <2> QED
    BY <1>1, <1>2, <1>3, <2>1, GotoElsewhere, BecomeElsewhere DEF Watched
<1> QED
  BY <1>4, <1>5, <1>6

LEMMA DialogLeads ==
    ASSUME TypeInv, NEW w \in Handlers, DialogStep(w)
    PROVE  update'[w].pc \notin Watched \/ Ask(w)
<1>1. UpdatesTyped /\ update[w] \in Update
  BY DEF TypeInv, UpdatesTyped, Typed
<1>2. CASE CancelLogin(w) \/ CancelNP(w) \/ AskPassword(w) \/ TakePassword(w)
  BY <1>1, <1>2, GotoElsewhere, EndElsewhere
  DEF CancelLogin, CancelNP, AskPassword, TakePassword, Watched
<1>3. CASE ReadTicket(w)
  <2> DEFINE k == [update[w] EXCEPT !.pc = "authorize",
                                    !.state = ticketStates[Sender(w)]]
  <2>1. k.pc = "authorize"
    BY <1>1 DEF Update
  <2>2. End(w) \/ Become(w, k)
    BY <1>3 DEF ReadTicket
  <2> HIDE DEF k
  <2> QED
    BY <1>1, <2>1, <2>2, BecomeElsewhere, EndElsewhere DEF Watched
<1>4. CASE BeginLogin(w) \/ BeginNP(w) \/ Check(w) \/ Prompt(w) \/ Cleanup(w)
  BY <1>1, <1>4, GotoElsewhere, EndElsewhere
  DEF BeginLogin, BeginNP, Check, Prompt, Cleanup, Watched
<1>5. CASE Ping(w) \/ Write(w)
  BY <1>1, <1>5, GotoElsewhere, EndElsewhere DEF Ping, Write, Finish, Watched
<1> QED
  BY <1>2, <1>3, <1>4, <1>5, ReadNPLeads, DispatchLeads DEF DialogStep

\* The only ways to where the properties look.
LEMMA Ways ==
    ASSUME TypeInv, NEW w \in Handlers, Arrive(w) \/ Proceed(w),
           update'[w].pc \in Watched
    PROVE  \/ Ask(w)
           \/ Authorize(w) \/ Remember(w)
           \/ ReadFilters(w)
           \/ Close(w)
  BY Steps, ArriveLeads, DialogLeads, OtherLeads

LEMMA AskLeads ==
    ASSUME TypeInv, NEW w \in Handlers, Ask(w)
    PROVE  /\ update'[w].pc = "remember"
           /\ update'[w].user = Sender(w)
           /\ update'[w].isMember => Sender(w) \in members
<1>1. UpdatesTyped /\ update[w] \in Update
  BY DEF TypeInv, UpdatesTyped, Typed
<1>2. PICK isMember \in {Sender(w) \in members, FALSE} :
         Become(w, [update[w] EXCEPT !.pc = "remember", !.isMember = isMember])
  BY DEF Ask
<1>3. update'[w] = [update[w] EXCEPT !.pc = "remember", !.isMember = isMember]
  BY <1>1, <1>2, BecomeLeads
<1>4. isMember => Sender(w) \in members
  BY <1>2
<1>5. /\ update'[w].pc = "remember" /\ update'[w].user = update[w].user
      /\ update'[w].isMember = isMember
  BY <1>1, <1>3 DEF Update
<1> QED
  BY <1>4, <1>5 DEF Sender

LEMMA AuthorizeLeads ==
    ASSUME TypeInv, NEW w \in Handlers, Authorize(w)
    PROVE  /\ update'[w].pc \in {"dispatch", "ask", "idle"}
           /\ update[w].chat = "private" /\ update'[w].pc = "dispatch" =>
                 /\ Sender(w) \in DOMAIN authCache
                 /\ Fresh(authCache[Sender(w)])
                 /\ authCache[Sender(w)].isAuth
<1>1. UpdatesTyped
  BY DEF TypeInv
<1>2. Goto(w, "ask") => update'[w].pc = "ask"
  BY <1>1, GotoLeads
<1>3. Goto(w, "dispatch") => update'[w].pc = "dispatch"
  BY <1>1, GotoLeads
<1>4. End(w) => update'[w].pc = "idle"
  BY <1>1, EndLeads
<1> QED
  BY <1>2, <1>3, <1>4 DEF Authorize

LEMMA RememberLeads ==
    ASSUME TypeInv, NEW w \in Handlers, Remember(w)
    PROVE  /\ update'[w].pc \in {"dispatch", "idle"}
           /\ update'[w].pc = "dispatch" => update[w].isMember
<1>1. UpdatesTyped /\ update[w] \in Update
  BY DEF TypeInv, UpdatesTyped, Typed
<1> DEFINE j == [update[w] EXCEPT !.pc = "dispatch", !.isMember = FALSE]
<1>2. j.pc = "dispatch"
  BY <1>1 DEF Update
<1>3. IF update[w].isMember THEN Become(w, j) ELSE End(w)
  BY DEF Remember
<1> HIDE DEF j
<1>4. Become(w, j) => update'[w].pc = "dispatch"
  BY <1>1, <1>2, BecomeLeads
<1>5. End(w) => update'[w].pc = "idle"
  BY <1>1, EndLeads
<1> QED
  BY <1>3, <1>4, <1>5

LEMMA ReadFiltersLeads ==
    ASSUME TypeInv, NEW w \in Handlers, ReadFilters(w)
    PROVE  /\ update'[w].pc \in {"show", "idle"}
           /\ update'[w].pc = "show" /\ ~update'[w].err =>
                 update'[w].entries \cap nowplaying_filters = {}
<1>1. UpdatesTyped /\ update[w] \in Update
  BY DEF TypeInv, UpdatesTyped, Typed
<1> DEFINE shown == [update[w] EXCEPT
                        !.pc = "show",
                        !.entries = update[w].entries \ nowplaying_filters,
                        !.err = FALSE]
           unread == [update[w] EXCEPT !.pc = "show",
                                       !.entries = update[w].entries \ {},
                                       !.err = TRUE]
<1>2. /\ shown.pc = "show" /\ unread.pc = "show" /\ unread.err
      /\ shown.entries = update[w].entries \ nowplaying_filters
  BY <1>1 DEF Update
<1>3. End(w) \/ Become(w, shown) \/ Become(w, unread)
  BY DEF ReadFilters, Visible, GetNowPlayingFilteredUsers
<1> HIDE DEF shown, unread
<1>4. update'[w].pc = "idle" \/ update'[w] = shown \/ update'[w] = unread
  BY <1>1, <1>3, EndLeads, BecomeLeads
<1>5. shown.entries \cap nowplaying_filters = {}
  BY <1>2
<1> QED
  BY <1>2, <1>4, <1>5

LEMMA CloseLeads ==
    ASSUME TypeInv, NEW w \in Handlers, Close(w)
    PROVE  \/ /\ update'[w].pc = "confirm"
              /\ update'[w].id = update[w].id
              /\ Removed(update[w].id) /\ CloseTicket(update[w].id)
           \/ /\ update'[w].pc = "idle"
              /\ CloseTicket(update[w].id) \/ UNCHANGED tablevars
<1>1. UpdatesTyped /\ update[w] \in Update
  BY DEF TypeInv, UpdatesTyped, Typed
<1>2. Goto(w, "confirm") =>
         update'[w] = [update[w] EXCEPT !.pc = "confirm"]
  BY <1>1, GotoLeads
<1>3. LET k == [update[w] EXCEPT !.pc = "confirm"]
      IN  k.pc = "confirm" /\ k.id = update[w].id
  BY <1>1 DEF Update
<1>4. End(w) => update'[w].pc = "idle"
  BY <1>1, EndLeads
<1> QED
  BY <1>2, <1>3, <1>4 DEF Close

\* The only ways to each of the places.
LEMMA OneWay ==
    ASSUME TypeInv, NEW w \in Handlers, Arrive(w) \/ Proceed(w)
    PROVE  /\ update'[w].pc = "remember" => Ask(w)
           /\ update'[w].pc = "dispatch" => Authorize(w) \/ Remember(w)
           /\ update'[w].pc = "show" => ReadFilters(w)
           /\ update'[w].pc = "confirm" => Close(w)
<1>1. update'[w].pc \in Watched =>
         Ask(w) \/ Authorize(w) \/ Remember(w) \/ ReadFilters(w) \/ Close(w)
  BY Ways
<1>2. Ask(w) => update'[w].pc = "remember"
  BY AskLeads
<1>3. Authorize(w) => update'[w].pc \in {"dispatch", "ask", "idle"}
  BY AuthorizeLeads
<1>4. Remember(w) => update'[w].pc \in {"dispatch", "idle"}
  BY RememberLeads
<1>5. ReadFilters(w) => update'[w].pc \in {"show", "idle"}
  BY ReadFiltersLeads
<1>6. Close(w) => update'[w].pc \in {"confirm", "idle"}
  BY CloseLeads
<1> QED
  BY <1>1, <1>2, <1>3, <1>4, <1>5, <1>6 DEF Watched

LEMMA ArriveQuiet ==
    ASSUME NEW w, Arrive(w)
    PROVE  At(w, "idle") /\ OnlyHandler
<1>1. \A j : Receive(w, j) => At(w, "idle") /\ OnlyHandler
  BY DEF Receive
<1> QED
  BY <1>1 DEF Arrive, ReceiveMessage, PressTicketType, PressTicketDone

\* What a step of a handler leaves alone.
LEMMA Frame ==
    ASSUME NEW w \in Handlers, Arrive(w) \/ Proceed(w)
    PROVE  /\ UNCHANGED <<clock, members>>
           /\ ~Remember(w) => UNCHANGED authCache
           /\ ~SaveTicket(w) /\ ~Close(w) => UNCHANGED <<tickets, lastID>>
<1> USE DEF tablevars, telegramvars, statevars
<1>1. CASE Arrive(w)
  BY <1>1, ArriveQuiet DEF OnlyHandler
<1>2. CASE \/ CancelLogin(w) \/ CancelNP(w) \/ ReadLogin(w) \/ AskPassword(w)
           \/ TakePassword(w) \/ ReadNP(w) \/ TakeNPPassword(w) \/ ReadTicket(w)
  BY <1>2 DEF CancelLogin, CancelNP, ReadLogin, AskPassword, TakePassword,
              ReadNP, TakeNPPassword, ReadTicket, OnlyHandler, OnlyStates
<1>3. CASE \/ Authorize(w) \/ Ask(w) \/ Dispatch(w) \/ BeginLogin(w) \/ BeginNP(w)
           \/ Check(w) \/ Prompt(w) \/ Cleanup(w) \/ Ping(w) \/ NowPlaying(w)
  BY <1>3 DEF Authorize, Ask, Dispatch, BeginLogin, BeginNP, Check, Prompt,
              Cleanup, Ping, NowPlaying, OnlyHandler, OnlyStates
<1>4. CASE \/ ReadFilters(w) \/ Show(w) \/ Begin(w) \/ SetTitle(w)
           \/ TakeDescription(w) \/ Confirm(w) \/ Remember(w)
  BY <1>4 DEF ReadFilters, Show, Begin, SetTitle, TakeDescription, Confirm,
              Remember, OnlyHandler, OnlyStates
<1>5. CASE Write(w) \/ Keyboard(w)
  BY <1>5 DEF Write, Keyboard, SetNowPlayingFilter, RemoveNowPlayingFilter
<1>6. CASE SaveTicket(w) \/ Close(w)
  <2>1. UNCHANGED <<telegramvars, statevars>>
    BY <1>6 DEF SaveTicket, Close
  <2> QED
    BY <1>6, <2>1
<1> QED
  BY <1>1, <1>2, <1>3, <1>4, <1>5, <1>6 DEF Proceed

\* A step of the system: of one handler, or of none.
LEMMA OneHandler ==
    ASSUME TypeInv, [Next]_vars
    PROVE  \/ \E w \in Handlers : Moves(w) /\ (Arrive(w) \/ Proceed(w))
           \/ update' = update
           \/ update' = [w \in Handlers |-> NoUpdate]
<1>1. DOMAIN update = Handlers
  BY DEF TypeInv, UpdatesTyped
<1>2. \A w \in Handlers : Arrive(w) \/ Proceed(w) => Moves(w)
  BY <1>1, ArriveMoves, ProceedMoves
<1>3. Environment \/ UNCHANGED vars => update' = update
  BY DEF Environment, Tick, JoinOrLeave, vars
<1>4. Restart => update' = [w \in Handlers |-> NoUpdate]
  BY DEF Restart
<1> QED
  BY <1>2, <1>3, <1>4 DEF Next

LEMMA HistoryTypes ==
    /\ HInit => TypeInv
    /\ TypeInv /\ [PrivateNext]_hvars => TypeInv'
    /\ TypeInv /\ [TicketNext]_hvars => TypeInv'
<1>1. [PrivateNext]_hvars \/ [TicketNext]_hvars => [Next]_vars
  BY DEF PrivateNext, TicketNext, hvars
<1> QED
  BY <1>1, InitTypeInv, NextTypeInv DEF HInit

(***************************************************************************)
(* Authorization.  An entry of the cache that says "member" is not newer   *)
(* than the last instant the sender was in the group, nor is an answer of  *)
(* Telegram that is still to be cached.                                    *)
(***************************************************************************)

MembersAreSeen ==
    /\ lastMember \in [Senders -> Int]
    /\ \A u \in Senders : lastMember[u] <= clock
    /\ \A u \in members : lastMember[u] = clock

EntriesAreOld ==
    \A u \in DOMAIN authCache :
        authCache[u].isAuth => authCache[u].lastCheck <= lastMember[u]

AnswersAreNew ==
    \A w \in Handlers :
        At(w, "remember") /\ update[w].isMember =>
            lastMember[Sender(w)] = clock

AuthInv == TypeInv /\ MembersAreSeen /\ EntriesAreOld /\ AnswersAreNew

\* What the rest needs to know of a step.
LEMMA MembersGoOn ==
    ASSUME AuthInv, [PrivateNext]_hvars
    PROVE  /\ MembersAreSeen'
           /\ clock <= clock'
           /\ \A u \in Senders : /\ lastMember[u] <= lastMember'[u]
                                 /\ lastMember[u] = clock /\ clock' = clock
                                       => lastMember'[u] = clock
<1>1. clock \in Nat /\ members \subseteq Senders
  BY DEF AuthInv, TypeInv, TypeOK
<1>2. CASE UNCHANGED hvars
  <2>1. UNCHANGED <<clock, members, lastMember>>
    BY <1>2 DEF hvars, vars, telegramvars, privatevars
  <2> QED
    BY <1>1, <2>1 DEF AuthInv, MembersAreSeen
<1>3. CASE PrivateNext
  <2>1. lastMember' = [u \in Senders |->
                         IF u \in members' THEN clock'
                         ELSE IF u \in members THEN clock
                         ELSE lastMember[u]]
    BY <1>3 DEF PrivateNext
  <2>2. \/ clock' = clock + 1 /\ members' = members
        \/ clock' = clock /\ members' \subseteq Senders
    <3>1. CASE \E w \in Handlers : Arrive(w) \/ Proceed(w)
      BY <1>1, <3>1, Frame
    <3>2. CASE Environment \/ Restart
      BY <1>1, <3>2, MessagesAssumption
      DEF Environment, Tick, JoinOrLeave, Restart, telegramvars
    <3> QED
      BY <1>3, <3>1, <3>2 DEF PrivateNext, Next
  <2> QED
    BY <1>1, <2>1, <2>2 DEF AuthInv, MembersAreSeen
<1> QED
  BY <1>2, <1>3

LEMMA InitAuthInv == HInit => AuthInv
<1> SUFFICES ASSUME HInit PROVE AuthInv
  OBVIOUS
<1>1. /\ clock = 0 /\ members \subseteq Senders /\ authCache = Empty
      /\ \A w \in Handlers : update[w].pc = "idle"
  BY MessagesAssumption DEF HInit, Init, NoUpdate
<1>2. MembersAreSeen
  BY <1>1, MessagesAssumption DEF HInit, MembersAreSeen, LongAgo
<1> QED
  BY <1>1, <1>2, HistoryTypes DEF AuthInv, EntriesAreOld, AnswersAreNew, Empty, At

LEMMA AnswersStayNew ==
    ASSUME AuthInv, [PrivateNext]_hvars
    PROVE  AnswersAreNew'
<1>1. /\ TypeInv /\ [Next]_vars /\ clock \in Nat
      /\ \A w \in Handlers : ~At(w, "idle") => Sender(w) \in Senders
  <2>1. \A w \in Handlers : TypedAt(update[w])
    BY DEF AuthInv, TypeInv, UpdatesTyped, Typed
  <2> QED
    BY <2>1 DEF AuthInv, PrivateNext, hvars, TypeInv, TypeOK, TypedAt, At, Sender
<1> SUFFICES ASSUME NEW v \in Handlers, update'[v].pc = "remember",
                    update'[v].isMember
             PROVE  lastMember'[update'[v].user] = clock'
  BY DEF AnswersAreNew, At, Sender
<1>2. \A u \in Senders : lastMember[u] = clock /\ clock' = clock
                            => lastMember'[u] = clock
  BY MembersGoOn
<1>3. CASE update'[v] = update[v]
  <2>1. lastMember[Sender(v)] = clock /\ Sender(v) \in Senders
    BY <1>1, <1>3 DEF AuthInv, AnswersAreNew, At
  <2>2. clock' = clock
    <3>1. ~Tick
      BY <1>3 DEF Tick, At
    <3>2. \A w \in Handlers : Arrive(w) \/ Proceed(w) => clock' = clock
      BY Frame
    <3> QED
      BY <1>1, <3>1, <3>2
      DEF Next, Environment, JoinOrLeave, Restart, telegramvars, vars
  <2> QED
    BY <1>2, <1>3, <2>1, <2>2 DEF Sender
<1>4. ASSUME NEW w \in Handlers, Moves(w), Arrive(w) \/ Proceed(w), v = w
      PROVE  lastMember'[update'[v].user] = clock'
  <2>1. Ask(w)
    BY <1>1, <1>4, OneWay
  <2>2. update'[w].user = Sender(w) /\ Sender(w) \in members
    BY <1>1, <1>4, <2>1, AskLeads
  <2>3. clock' = clock /\ lastMember[Sender(w)] = clock /\ Sender(w) \in Senders
    BY <1>1, <1>4, <2>2, Frame DEF AuthInv, MembersAreSeen, TypeInv, TypeOK
  <2> QED
    BY <1>2, <1>4, <2>2, <2>3
<1>5. CASE update' = [w \in Handlers |-> NoUpdate]
  BY <1>5 DEF NoUpdate
<1> QED
  BY <1>1, <1>3, <1>4, <1>5, OneHandler DEF Moves

LEMMA EntriesStayOld ==
    ASSUME AuthInv, [PrivateNext]_hvars
    PROVE  EntriesAreOld'
<1>1. /\ TypeInv /\ [Next]_vars /\ clock \in Nat
      /\ DOMAIN authCache \subseteq Senders
      /\ authCache \in [DOMAIN authCache -> AuthEntry]
      /\ lastMember \in [Senders -> Int] /\ lastMember' \in [Senders -> Int]
  BY MembersGoOn DEF AuthInv, PrivateNext, hvars, TypeInv, TypeOK, MapTo,
                     MembersAreSeen
<1>2. \A u \in Senders : lastMember[u] <= lastMember'[u]
  BY MembersGoOn
<1>3. CASE UNCHANGED authCache
  <2>1. \A u \in DOMAIN authCache : authCache[u].lastCheck \in Nat
    BY <1>1 DEF AuthEntry
  <2> QED
    BY <1>1, <1>2, <1>3, <2>1 DEF AuthInv, EntriesAreOld
<1>4. ASSUME NEW w \in Handlers, Remember(w), Proceed(w)
      PROVE  EntriesAreOld'
  <2> DEFINE entry == [isAuth |-> update[w].isMember, lastCheck |-> clock]
  <2>1. authCache' = Put(authCache, Sender(w), entry) /\ At(w, "remember")
    BY <1>4 DEF Remember
  <2>2. entry.isAuth = update[w].isMember /\ entry.lastCheck = clock
    OBVIOUS
  <2>3. update[w].isMember => lastMember[Sender(w)] = clock
    BY <2>1 DEF AuthInv, AnswersAreNew
  <2>4. Sender(w) \in Senders
    BY <1>1, <2>1 DEF TypeInv, UpdatesTyped, Typed, TypedAt, At, Sender
  <2> HIDE DEF entry
  <2>5. \A u \in DOMAIN authCache' :
           \/ u = Sender(w) /\ authCache'[u] = entry
           \/ u \in DOMAIN authCache /\ authCache'[u] = authCache[u]
    BY <2>1 DEF Put
  <2>6. \A u \in DOMAIN authCache : authCache[u].lastCheck \in Nat
    BY <1>1 DEF AuthEntry
  <2> QED
    BY <1>1, <1>2, <2>2, <2>3, <2>4, <2>5, <2>6 DEF AuthInv, EntriesAreOld
<1>5. CASE Restart
  BY <1>5 DEF Restart, EntriesAreOld, Empty
<1>6. \A w \in Handlers : Arrive(w) \/ (Proceed(w) /\ ~Remember(w)) => UNCHANGED authCache
  <2>1. \A w \in Handlers : Arrive(w) => UNCHANGED authCache
    BY ArriveQuiet DEF OnlyHandler, statevars
  <2> QED
    BY <2>1, Frame
<1>7. Environment \/ UNCHANGED vars => UNCHANGED authCache
  BY DEF Environment, Tick, JoinOrLeave, vars, statevars
<1> QED
  BY <1>1, <1>3, <1>4, <1>5, <1>6, <1>7 DEF Next

LEMMA NextAuthInv == AuthInv /\ [PrivateNext]_hvars => AuthInv'
  BY HistoryTypes, MembersGoOn, AnswersStayNew, EntriesStayOld DEF AuthInv

LEMMA AdmittedInStep ==
    ASSUME AuthInv, [PrivateNext]_hvars, NEW w \in Handlers,
           update[w].chat = "private",
           update[w].pc \in {"authorize", "remember"},
           update'[w].pc = "dispatch"
    PROVE  clock - lastMember[Sender(w)] < AuthTTL
<1>1. /\ TypeInv /\ [Next]_vars /\ clock \in Nat
      /\ Sender(w) \in Senders /\ lastMember[Sender(w)] \in Int
  BY DEF AuthInv, PrivateNext, hvars, TypeInv, TypeOK, UpdatesTyped, Typed,
         TypedAt, Sender, MembersAreSeen
<1>2. Arrive(w) \/ Proceed(w)
  BY <1>1, OneHandler DEF Moves, NoUpdate
<1>3. CASE Authorize(w)
  <2>1. /\ Sender(w) \in DOMAIN authCache
        /\ clock - authCache[Sender(w)].lastCheck < AuthTTL
        /\ authCache[Sender(w)].isAuth
    BY <1>1, <1>3, AuthorizeLeads DEF Fresh
  <2>2. /\ authCache[Sender(w)].lastCheck <= lastMember[Sender(w)]
        /\ authCache[Sender(w)].lastCheck \in Nat
    BY <2>1 DEF AuthInv, EntriesAreOld, TypeInv, TypeOK, MapTo, AuthEntry
  <2> QED
    BY <1>1, <2>1, <2>2, MessagesAssumption
<1>4. CASE Remember(w)
  <2>1. update[w].isMember /\ At(w, "remember")
    BY <1>1, <1>4, RememberLeads DEF Remember
  <2>2. lastMember[Sender(w)] = clock
    BY <2>1 DEF AuthInv, AnswersAreNew
  <2> QED
    BY <1>1, <2>2, MessagesAssumption
<1> QED
  BY <1>1, <1>2, <1>3, <1>4, OneWay

\* A sender admitted in private was in the group within the last hour
\* (isAuthorized), for any number of handlers, also of one sender, and across
\* restarts.
THEOREM OnlyMembersAreAdmitted == PrivateSpec => AdmittedWereMembers
<1>1. AuthInv /\ [PrivateNext]_hvars =>
         [\A w \in Handlers :
             /\ update[w].chat = "private"
             /\ update[w].pc \in {"authorize", "remember"}
             /\ update'[w].pc = "dispatch"
             => clock - lastMember[Sender(w)] < AuthTTL]_hvars
  BY AdmittedInStep
<1> QED
  BY <1>1, InitAuthInv, NextAuthInv, PTL DEF PrivateSpec, AdmittedWereMembers

(***************************************************************************)
(* Opt-outs.  The names that a handler is about to show are those it read  *)
(* without the opt-outs of the time; whoever remained opted out since the  *)
(* request arrived was among these.                                        *)
(***************************************************************************)

ShownAreVisible ==
    \A w \in Handlers :
        At(w, "show") /\ ~update[w].err =>
            update[w].entries \cap optedOut[w] = {}

OptInv == TypeInv /\ ShownAreVisible

LEMMA InitOptInv == HInit => OptInv
<1>1. HInit => \A w \in Handlers : update[w].pc = "idle"
  BY DEF HInit, Init, NoUpdate
<1> QED
  BY <1>1, HistoryTypes DEF OptInv, ShownAreVisible, At

LEMMA ShownStayVisible ==
    ASSUME OptInv, PrivateNext, NEW v \in Handlers,
           update'[v].pc = "show", ~update'[v].err
    PROVE  update'[v].entries \cap optedOut'[v] = {}
<1>1. TypeInv /\ [Next]_vars
  BY DEF OptInv, PrivateNext
<1>2. optedOut'[v] = IF update'[v].kind # "nowplaying" THEN {}
                     ELSE IF At(v, "idle") THEN nowplaying_filters
                     ELSE optedOut[v] \cap nowplaying_filters'
  BY DEF PrivateNext
<1>3. CASE update'[v] = update[v]
  <2>1. ~At(v, "idle") /\ update[v].entries \cap optedOut[v] = {}
    BY <1>3 DEF OptInv, ShownAreVisible, At
  <2>2. optedOut'[v] \subseteq optedOut[v]
    BY <1>2, <2>1
  <2> QED
    BY <1>3, <2>1, <2>2
<1>4. CASE Arrive(v) \/ Proceed(v)
  <2>1. ReadFilters(v)
    BY <1>1, <1>4, OneWay
  <2>2. update'[v].entries \cap nowplaying_filters = {}
    BY <1>1, <2>1, ReadFiltersLeads
  <2>3. nowplaying_filters' = nowplaying_filters
    BY <2>1 DEF ReadFilters, OnlyHandler, tablevars
  <2>4. optedOut'[v] \subseteq nowplaying_filters
    BY <1>2, <2>3
  <2> QED
    BY <2>2, <2>4
<1>5. CASE update' = [w \in Handlers |-> NoUpdate]
  BY <1>5 DEF NoUpdate
<1> QED
  BY <1>1, <1>3, <1>4, <1>5, OneHandler DEF Moves

LEMMA NextOptInv == OptInv /\ [PrivateNext]_hvars => OptInv'
<1> SUFFICES ASSUME OptInv, [PrivateNext]_hvars PROVE OptInv'
  OBVIOUS
<1>1. CASE PrivateNext
  <2>1. ShownAreVisible'
    BY <1>1, ShownStayVisible DEF ShownAreVisible, At
  <2> QED
    BY <2>1, HistoryTypes DEF OptInv
<1>2. CASE UNCHANGED hvars
  <2>1. update' = update /\ optedOut' = optedOut
    BY <1>2 DEF hvars, vars, privatevars
  <2>2. ShownAreVisible'
    BY <2>1 DEF OptInv, ShownAreVisible, At
  <2> QED
    BY <2>2, HistoryTypes DEF OptInv
<1> QED
  BY <1>1, <1>2

\* /nowplaying shows nobody who was opted out since before it was asked for
\* (handleNowPlaying), but for an error of the database, however requests,
\* opt-outs and restarts interleave, and for any number of them.
THEOREM OptedOutAreNotShown == PrivateSpec => OptOutsAreHonoured
<1>1. OptInv /\ [PrivateNext]_hvars =>
         [\A w \in Handlers :
             Show(w) /\ ~update[w].err =>
                update[w].entries \cap optedOut[w] = {}]_hvars
  BY DEF OptInv, ShownAreVisible, Show
<1> QED
  BY <1>1, InitOptInv, NextOptInv, PTL DEF PrivateSpec, OptOutsAreHonoured

(***************************************************************************)
(* Reports of closed tickets.  Of the handlers that hold one report and    *)
(* those that gave it there is one at most, and the ticket is gone for     *)
(* good: its id was given, and is not given again.                         *)
(***************************************************************************)

Reports(w, id) == At(w, "confirm") /\ update[w].id = id

Gone(id) == id \in 1..lastID /\ id \notin DOMAIN tickets

ReportedOnce(id) ==
    /\ confirmed[id] \in {0, 1}
    /\ confirmed[id] = 1 => Gone(id)
    /\ \A w \in Handlers : Reports(w, id) => Gone(id) /\ confirmed[id] = 0
    /\ \A v, w \in Handlers : Reports(v, id) /\ Reports(w, id) => v = w

ClosedInv ==
    /\ TypeInv
    /\ confirmed = [id \in 1..MaxTickets |-> confirmed[id]]
    /\ \A id \in 1..MaxTickets : ReportedOnce(id)

LEMMA InitClosedInv == HInit => ClosedInv
<1> SUFFICES ASSUME HInit PROVE ClosedInv
  OBVIOUS
<1>1. \A w \in Handlers : update[w].pc = "idle"
  BY DEF HInit, Init, NoUpdate
<1>2. confirmed = [id \in 1..MaxTickets |-> 0]
  BY DEF HInit
<1> QED
  BY <1>1, <1>2, HistoryTypes DEF ClosedInv, ReportedOnce, Reports, At

\* A report that is given.
LEMMA ConfirmOnce ==
    ASSUME ClosedInv, TicketNext, NEW w \in Handlers, Confirm(w),
           NEW id \in 1..MaxTickets
    PROVE  ReportedOnce(id)'
<1>1. /\ Moves(w) /\ update'[w].pc = "idle" /\ At(w, "confirm")
      /\ UNCHANGED <<tickets, lastID>>
  BY EndLeads DEF ClosedInv, TypeInv, Confirm, OnlyHandler, tablevars
<1>2. \A v \in Handlers : Confirm(v) => v = w
  <2>1. \A v \in Handlers :
           Confirm(v) => update'[v].pc = "idle" /\ update[v].pc = "confirm"
    BY EndLeads DEF ClosedInv, TypeInv, Confirm, At
  <2> QED
    BY <1>1, <2>1 DEF Moves
<1> DEFINE given == {v \in Handlers : Confirm(v) /\ update[v].id = id}
<1>3. confirmed'[id] = confirmed[id] + Cardinality(given)
  BY DEF TicketNext
<1>4. \A v \in Handlers : Reports(v, id)' => v # w /\ Reports(v, id)
  BY <1>1 DEF Moves, Reports, At
<1>5. Gone(id)' <=> Gone(id)
  BY <1>1 DEF Gone
<1>6. CASE update[w].id = id
  <2>1. given = {w}
    BY <1>2, <1>6
  <2>2. Reports(w, id)
    BY <1>1, <1>6 DEF Reports
  <2>3. confirmed[id] = 0 /\ Gone(id) /\ \A v \in Handlers : Reports(v, id) => v = w
    BY <2>2 DEF ClosedInv, ReportedOnce
  <2> HIDE DEF given
  <2>4. confirmed'[id] = 1
    <3>1. Cardinality({w}) = 1
      BY FS_Singleton
    <3> QED
      BY <1>3, <2>1, <2>3, <3>1
  <2>5. \A v \in Handlers : ~Reports(v, id)'
    BY <1>4, <2>3
  <2> QED
    BY <1>5, <2>3, <2>4, <2>5 DEF ReportedOnce
<1>7. CASE update[w].id # id
  <2>1. given = {}
    BY <1>2, <1>7
  <2> HIDE DEF given
  <2>2. confirmed'[id] = confirmed[id]
    BY <1>3, <2>1, FS_EmptySet DEF ClosedInv, ReportedOnce
  <2> QED
    BY <1>4, <1>5, <2>2 DEF ClosedInv, ReportedOnce
<1> QED
  BY <1>6, <1>7

\* Any other step: a ticket that is gone stays so, and who is to report it has
\* just deleted it.
LEMMA ReportNew ==
    ASSUME ClosedInv, TicketNext, \A w \in Handlers : ~Confirm(w),
           NEW id \in 1..MaxTickets
    PROVE  ReportedOnce(id)'
<1>1. /\ TypeInv /\ [Next]_vars /\ lastID \in Nat
      /\ ReportedOnce(id)
  BY TablesAssumption DEF ClosedInv, TicketNext, TypeInv, TypeOK, TablesTypeOK
<1>2. confirmed'[id] = confirmed[id]
  <2> DEFINE given == {v \in Handlers : Confirm(v) /\ update[v].id = id}
  <2>1. confirmed'[id] = confirmed[id] + Cardinality(given)
    BY DEF TicketNext
  <2>2. given = {}
    OBVIOUS
  <2> HIDE DEF given
  <2> QED
    BY <1>1, <2>1, <2>2, FS_EmptySet DEF ReportedOnce
\* Once gone, a ticket stays so.
<1>3. Gone(id) => Gone(id)'
  <2>1. ASSUME NEW w \in Handlers, Arrive(w) \/ Proceed(w)
        PROVE  Gone(id) => Gone(id)'
    <3>1. CASE SaveTicket(w)
      <4>1. \/ /\ lastID' = lastID + 1
               /\ DOMAIN tickets' = DOMAIN tickets \cup {lastID + 1}
            \/ UNCHANGED <<tickets, lastID>>
        BY <3>1 DEF SaveTicket, AddTicket, Put, tablevars
      <4> QED
        BY <1>1, <4>1 DEF Gone
    <3>2. CASE Close(w)
      <4>1. lastID' = lastID /\ DOMAIN tickets' \subseteq DOMAIN tickets
        BY <3>2 DEF Close, CloseTicket, Drop, Restrict, tablevars
      <4> QED
        BY <4>1 DEF Gone
    <3>3. CASE ~SaveTicket(w) /\ ~Close(w)
      BY <2>1, <3>3, Frame DEF Gone
    <3> QED
      BY <3>1, <3>2, <3>3
  <2>2. Environment \/ Restart \/ UNCHANGED vars => UNCHANGED <<tickets, lastID>>
    BY DEF Environment, Tick, JoinOrLeave, Restart, vars, tablevars
  <2> QED
    BY <1>1, <2>1, <2>2 DEF Next, Gone
<1>4. CASE \E w \in Handlers : Moves(w) /\ (Arrive(w) \/ Proceed(w))
  <2>1. PICK w \in Handlers : Moves(w) /\ (Arrive(w) \/ Proceed(w))
    BY <1>4
  <2>2. \A v \in Handlers : v # w => (Reports(v, id)' <=> Reports(v, id))
    BY <2>1 DEF Moves, Reports, At
  <2>3. CASE ~Reports(w, id)'
    BY <1>1, <1>2, <1>3, <2>2, <2>3 DEF ReportedOnce
  <2>4. CASE Reports(w, id)'
    <3>1. /\ Close(w) /\ update'[w].pc = "confirm" /\ update'[w].id = id
      BY <1>1, <2>1, <2>4, OneWay DEF Reports, At
    <3>2. Removed(id) /\ CloseTicket(id)
      BY <1>1, <3>1, CloseLeads
    <3>3. id \in DOMAIN tickets /\ Gone(id)'
      BY <1>1, <3>2
      DEF Removed, CloseTicket, Drop, Restrict, Gone, TypeInv, TypeOK, TablesTypeOK
    <3>4. confirmed[id] = 0 /\ \A v \in Handlers : ~Reports(v, id)
      BY <1>1, <3>3 DEF ReportedOnce, Gone
    <3> QED
      BY <1>2, <2>2, <3>3, <3>4 DEF ReportedOnce
  <2> QED
    BY <2>3, <2>4
<1>5. CASE update' = update
  <2>1. \A v \in Handlers : Reports(v, id)' <=> Reports(v, id)
    BY <1>5 DEF Reports, At
  <2> QED
    BY <1>1, <1>2, <1>3, <2>1 DEF ReportedOnce
<1>6. CASE update' = [w \in Handlers |-> NoUpdate]
  <2>1. \A v \in Handlers : ~Reports(v, id)'
    BY <1>6 DEF Reports, At, NoUpdate
  <2> QED
    BY <1>1, <1>2, <1>3, <2>1 DEF ReportedOnce
<1> QED
  BY <1>1, <1>4, <1>5, <1>6, OneHandler

LEMMA NextClosedInv == ClosedInv /\ [TicketNext]_hvars => ClosedInv'
<1> SUFFICES ASSUME ClosedInv, [TicketNext]_hvars PROVE ClosedInv'
  OBVIOUS
<1>1. CASE TicketNext
  <2>1. confirmed' = [id \in 1..MaxTickets |-> confirmed'[id]]
    BY <1>1 DEF TicketNext
  <2>2. \A id \in 1..MaxTickets : ReportedOnce(id)'
    BY <1>1, ConfirmOnce, ReportNew
  <2> QED
    BY <2>1, <2>2, HistoryTypes DEF ClosedInv
<1>2. CASE UNCHANGED hvars
  <2>1. UNCHANGED <<update, confirmed, tickets, lastID>>
    BY <1>2 DEF hvars, vars, tablevars, ticketvars
  <2>2. \A id \in 1..MaxTickets : ReportedOnce(id)'
    BY <2>1 DEF ClosedInv, ReportedOnce, Reports, At, Gone
  <2> QED
    BY <2>1, <2>2, HistoryTypes DEF ClosedInv
<1> QED
  BY <1>1, <1>2

\* Of all the handlers that close a ticket (handleCloseTicket,
\* handleTicketDoneCallback), one at most reports it closed, and it is closed
\* then: for any number of handlers, and however long the ids go on.
THEOREM ReportedClosedOnce == TicketSpec => []ClosedOnce
<1>1. ClosedInv => ClosedOnce
  BY DEF ClosedInv, ReportedOnce, Gone, ClosedOnce
<1> QED
  BY <1>1, InitClosedInv, NextClosedInv, PTL DEF TicketSpec

(***************************************************************************)
(* The titles of tickets.  That a ticket has the title that was asked for  *)
(* is not inductive: on its way to the table a title is held by the        *)
(* handler that read it, by the dialog, and by the handler that reads the  *)
(* description, which may be of another dialog by then.                    *)
(***************************************************************************)

Asked(type, title, author) ==
    [type |-> type, title |-> title, author |-> author] \in asked

\* What a handler that holds j has on its way.
Carries(j) ==
    /\ j.state.step = "description" =>
          Asked(j.state.type, j.state.title, j.user)
    /\ j.state.step = "title" /\ j.words # <<>> =>
          Asked(j.state.type, Head(j.words), j.user)

DialogsCarry ==
    \A u \in DOMAIN ticketStates :
        ticketStates[u].step = "description" =>
            Asked(ticketStates[u].type, ticketStates[u].title, u)

TitleInv ==
    /\ TypeInv
    /\ TicketsOfOneDialog
    /\ DialogsCarry
    /\ \A w \in Handlers : Carries(update[w])

\* Every handler keeps what it was sent and what it read, or ends.
Keeps(w) ==
    \/ update'[w].state.step = "none"
    \/ /\ update'[w].state = update[w].state
       /\ update'[w].words = update[w].words
       /\ update'[w].user = update[w].user

LEMMA GotoKeeps ==
    ASSUME UpdatesTyped, NEW w \in Handlers, NEW pc, Goto(w, pc)
    PROVE  Keeps(w)
<1>1. update[w] \in Update /\ update'[w] = [update[w] EXCEPT !.pc = pc]
  BY GotoLeads DEF UpdatesTyped, Typed
<1> QED
  BY <1>1 DEF Update, Keeps

LEMMA EndKeeps ==
    ASSUME UpdatesTyped, NEW w \in Handlers, End(w)
    PROVE  Keeps(w)
<1>1. update'[w] = NoUpdate
  BY EndLeads
<1>2. NoUpdate.state.step = "none"
  BY DEF NoUpdate, NoTicket
<1> QED
  BY <1>1, <1>2 DEF Keeps

LEMMA BecomeKeeps ==
    ASSUME UpdatesTyped, NEW w \in Handlers, NEW j, Become(w, j),
           j.state = update[w].state, j.words = update[w].words,
           j.user = update[w].user
    PROVE  Keeps(w)
  BY BecomeLeads DEF Keeps

LEMMA DialogKeeps ==
    ASSUME TypeInv, NEW w \in Handlers, DialogStep(w), ~ReadTicket(w)
    PROVE  Keeps(w)
<1> DEFINE j == update[w]
<1>1. UpdatesTyped /\ j \in Update
  BY DEF TypeInv, UpdatesTyped, Typed
<1>2. CASE CancelLogin(w) \/ CancelNP(w) \/ AskPassword(w) \/ TakePassword(w)
  BY <1>1, <1>2, GotoKeeps, EndKeeps
  DEF CancelLogin, CancelNP, AskPassword, TakePassword
<1>3. CASE BeginLogin(w) \/ BeginNP(w) \/ Check(w) \/ Prompt(w) \/ Cleanup(w)
  BY <1>1, <1>3, GotoKeeps, EndKeeps
  DEF BeginLogin, BeginNP, Check, Prompt, Cleanup
<1>4. CASE Ping(w) \/ Write(w)
  BY <1>1, <1>4, GotoKeeps, EndKeeps DEF Ping, Write, Finish
<1>5. CASE ReadLogin(w)
  <2> DEFINE login == loginStates[Sender(w)]
             k == [j EXCEPT !.pc = IF login.step = 1 THEN "askPassword"
                                   ELSE "takePassword",
                            !.name = login.name]
  <2>1. k.state = j.state /\ k.words = j.words /\ k.user = j.user
    BY <1>1 DEF Update
  <2>2. Goto(w, "readNP") \/ Become(w, k)
    BY <1>5 DEF ReadLogin
  <2> HIDE DEF k
  <2> QED
    BY <1>1, <2>1, <2>2, GotoKeeps, BecomeKeeps
<1>6. CASE ReadNP(w)
  <2> DEFINE np == npFilterStates[Sender(w)]
             k == [[j EXCEPT !.action = np.action] EXCEPT
                      !.pc = "takeNPPassword", !.name = np.name]
             l == [[j EXCEPT !.action = np.action] EXCEPT
                      !.pc = "check", !.name = Text(w), !.deferred = TRUE]
  <2>1. /\ k.state = j.state /\ k.words = j.words /\ k.user = j.user
        /\ l.state = j.state /\ l.words = j.words /\ l.user = j.user
    BY <1>1 DEF Update
  <2>2. Goto(w, "readTicket") \/ Become(w, k) \/ End(w) \/ Become(w, l)
    BY <1>6 DEF ReadNP
  <2> HIDE DEF k, l
  <2> QED
    BY <1>1, <2>1, <2>2, GotoKeeps, BecomeKeeps, EndKeeps
<1>7. CASE TakeNPPassword(w)
  <2> DEFINE k == [j EXCEPT !.pc = "ping", !.password = Text(w)]
  <2>1. k.state = j.state /\ k.words = j.words /\ k.user = j.user
    BY <1>1 DEF Update
  <2>2. End(w) \/ Become(w, k)
    BY <1>7 DEF TakeNPPassword
  <2> HIDE DEF k
  <2> QED
    BY <1>1, <2>1, <2>2, BecomeKeeps, EndKeeps
<1>8. CASE Ask(w)
  <2>1. \E m \in {Sender(w) \in members, FALSE} :
           update'[w] = [j EXCEPT !.pc = "remember", !.isMember = m]
    BY <1>1, <1>8, BecomeLeads DEF Ask
  <2> QED
    BY <1>1, <2>1 DEF Update, Keeps
<1>9. CASE Dispatch(w)
  <2> DEFINE k == [j EXCEPT !.action = j.kind, !.name = Head(j.words),
                            !.password = IF Len(j.words) = 2 THEN j.words[2]
                                         ELSE NoWord,
                            !.deferred = TRUE, !.pc = "check"]
  <2>1. k.state = j.state /\ k.words = j.words /\ k.user = j.user
    BY <1>1 DEF Update
  <2>2. (\E pc : Goto(w, pc)) \/ Become(w, k) \/ End(w)
    BY <1>9 DEF Dispatch
  <2> HIDE DEF k
  <2> QED
    BY <1>1, <2>1, <2>2, GotoKeeps, BecomeKeeps, EndKeeps
<1> QED
  BY <1>2, <1>3, <1>4, <1>5, <1>6, <1>7, <1>8, <1>9 DEF DialogStep

LEMMA ProceedKeeps ==
    ASSUME TypeInv, NEW w \in Handlers, Proceed(w), ~ReadTicket(w)
    PROVE  Keeps(w)
<1> DEFINE j == update[w]
<1>1. UpdatesTyped /\ j \in Update
  BY DEF TypeInv, UpdatesTyped, Typed
<1>2. CASE NowPlaying(w)
  <2>1. \/ End(w)
        \/ \E entries \in SUBSET Names :
              update'[w] = [j EXCEPT !.pc = "filters", !.entries = entries]
    BY <1>1, <1>2, BecomeLeads DEF NowPlaying
  <2>2. ASSUME NEW entries, update'[w] = [j EXCEPT !.pc = "filters", !.entries = entries]
        PROVE  Keeps(w)
    BY <1>1, <2>2 DEF Update, Keeps
  <2> QED
    BY <1>1, <2>1, <2>2, EndKeeps
<1>3. CASE OtherStep(w) /\ ~NowPlaying(w)
  BY <1>1, <1>3, GotoKeeps, EndKeeps
  DEF OtherStep, Show, Begin, SetTitle, TakeDescription, SaveTicket, Keyboard,
      Confirm
<1>4. CASE Authorize(w) \/ Close(w)
  BY <1>1, <1>4, GotoKeeps, EndKeeps DEF Authorize, Close
<1>5. CASE Remember(w)
  <2> DEFINE k == [j EXCEPT !.pc = "dispatch", !.isMember = FALSE]
  <2>1. k.state = j.state /\ k.words = j.words /\ k.user = j.user
    BY <1>1 DEF Update
  <2>2. Become(w, k) \/ End(w)
    BY <1>5 DEF Remember
  <2> HIDE DEF k
  <2> QED
    BY <1>1, <2>1, <2>2, BecomeKeeps, EndKeeps
<1>6. CASE ReadFilters(w)
  <2> DEFINE k == [j EXCEPT !.pc = "show",
                            !.entries = j.entries \ nowplaying_filters,
                            !.err = FALSE]
             l == [j EXCEPT !.pc = "show", !.entries = j.entries \ {},
                            !.err = TRUE]
  <2>1. /\ k.state = j.state /\ k.words = j.words /\ k.user = j.user
        /\ l.state = j.state /\ l.words = j.words /\ l.user = j.user
    BY <1>1 DEF Update
  <2>2. End(w) \/ Become(w, k) \/ Become(w, l)
    BY <1>6 DEF ReadFilters, Visible, GetNowPlayingFilteredUsers
  <2> HIDE DEF k, l
  <2> QED
    BY <1>1, <2>1, <2>2, BecomeKeeps, EndKeeps
<1> QED
  BY <1>2, <1>3, <1>4, <1>5, <1>6, Steps, DialogKeeps

\* A message carries nothing yet, and a button asks for the title.
LEMMA ArriveCarries ==
    ASSUME TypeInv, NEW w \in Handlers, Arrive(w)
    PROVE  \/ update'[w].state.step = "none"
           \/ update'[w].state.step = "title" /\ update'[w].words = <<>>
<1>1. DOMAIN update = Handlers
  BY DEF TypeInv, UpdatesTyped
<1>2. \A j : Receive(w, j) => update'[w] = j
  BY <1>1, ReceiveMoves
<1>3. CASE ReceiveMessage(w)
  <2>1. PICK u \in Senders, chat \in Chats, kind \in Command \cup {"text"} :
           \E words, id :
              Receive(w, [NoUpdate EXCEPT !.pc = FirstStep(chat, kind),
                                          !.user = u, !.chat = chat,
                                          !.kind = kind, !.words = words,
                                          !.id = id])
    BY <1>3 DEF ReceiveMessage
  <2>2. \A words, id :
           [NoUpdate EXCEPT !.pc = FirstStep(chat, kind), !.user = u,
                            !.chat = chat, !.kind = kind, !.words = words,
                            !.id = id].state = NoTicket
    BY DEF NoUpdate
  <2>3. update'[w].state = NoTicket
    BY <1>2, <2>1, <2>2
  <2> QED
    BY <2>3 DEF NoTicket
<1>4. CASE PressTicketType(w)
  <2>1. PICK u \in Senders, type \in TicketTypes : update'[w] =
           [NoUpdate EXCEPT
               !.pc = "begin", !.user = u, !.chat = "group",
               !.kind = "ticket_type",
               !.state = [step |-> "title", type |-> type, title |-> NoWord]]
    BY <1>2, <1>4 DEF PressTicketType
  <2> QED
    BY <2>1 DEF NoUpdate
<1>5. CASE PressTicketDone(w)
  <2>1. PICK u \in Senders, b \in buttons : update'[w] =
           [NoUpdate EXCEPT !.pc = "close", !.user = u, !.chat = "group",
                            !.kind = "ticket_done", !.id = b.id]
    BY <1>2, <1>5 DEF PressTicketDone
  <2>2. update'[w].state = NoTicket
    BY <2>1 DEF NoUpdate
  <2> QED
    BY <2>2 DEF NoTicket
<1> QED
  BY <1>3, <1>4, <1>5 DEF Arrive

LEMMA ReadTicketCarries ==
    ASSUME TitleInv, TicketNext, NEW w \in Handlers, ReadTicket(w)
    PROVE  Carries(update[w])'
<1> DEFINE j == update[w]
           k == [j EXCEPT !.pc = "authorize", !.state = ticketStates[Sender(w)]]
<1>1. UpdatesTyped /\ j \in Update /\ asked \subseteq asked'
  BY DEF TitleInv, TypeInv, UpdatesTyped, Typed, TicketNext
<1>2. CASE End(w)
  <2>1. update'[w].state.step = "none"
    BY <1>1, <1>2, EndLeads DEF NoUpdate, NoTicket
  <2> QED
    BY <2>1 DEF Carries
<1>3. CASE Become(w, k) /\ Sender(w) \in DOMAIN ticketStates
  <2>1. update'[w] = k
    BY <1>1, <1>3, BecomeLeads
  <2>2. /\ k.state = ticketStates[Sender(w)] /\ k.words = j.words
        /\ k.user = Sender(w)
    BY <1>1 DEF Update, Sender
  <2> HIDE DEF k
  <2>3. CASE k.state.step = "description"
    <3>1. Asked(k.state.type, k.state.title, k.user)
      BY <1>3, <2>2, <2>3 DEF TitleInv, DialogsCarry
    <3>2. [type |-> k.state.type, title |-> k.state.title,
           author |-> k.user] \in asked'
      BY <1>1, <3>1 DEF Asked
    <3> QED
      BY <2>1, <2>3, <3>2 DEF Carries, Asked
  <2>4. CASE k.state.step = "title" /\ k.words # <<>>
    <3>1. ReadsTitle(w)
      BY <2>1, <2>2, <2>4 DEF ReadsTitle, Blank
    <3>2. Answer(w) \in asked'
      BY <3>1 DEF TicketNext
    <3>3. Answer(w) = [type |-> k.state.type, title |-> Head(k.words),
                       author |-> k.user]
      BY <2>1, <2>2 DEF Answer, Text
    <3> QED
      BY <2>1, <2>4, <3>2, <3>3 DEF Carries, Asked
  <2> QED
    BY <2>1, <2>3, <2>4 DEF Carries
<1> QED
  BY <1>2, <1>3 DEF ReadTicket

LEMMA HandlersCarry ==
    ASSUME TitleInv, [TicketNext]_hvars, NEW v \in Handlers
    PROVE  Carries(update[v])'
<1>1. TypeInv /\ [Next]_vars /\ Carries(update[v]) /\ asked \subseteq asked'
  BY DEF TitleInv, TicketNext, hvars, ticketvars
<1>2. ASSUME \/ update'[v].state.step = "none"
             \/ /\ update'[v].state = update[v].state
                /\ update'[v].words = update[v].words
                /\ update'[v].user = update[v].user
      PROVE  Carries(update[v])'
  BY <1>1, <1>2 DEF Carries, Asked
<1>3. CASE update'[v] = update[v]
  BY <1>2, <1>3
<1>4. CASE Arrive(v)
  BY <1>1, <1>4, ArriveCarries DEF Carries
<1>5. CASE Proceed(v) /\ ~ReadTicket(v)
  BY <1>1, <1>2, <1>5, ProceedKeeps DEF Keeps
<1>6. CASE ReadTicket(v)
  <2>1. CASE UNCHANGED hvars
    <3>1. update' = update
      BY <2>1 DEF hvars, vars
    <3> QED
      BY <1>3, <3>1
  <2> QED
    BY <1>6, <2>1, ReadTicketCarries
<1>7. CASE update' = [w \in Handlers |-> NoUpdate]
  BY <1>2, <1>7 DEF NoUpdate, NoTicket
<1> QED
  BY <1>1, <1>3, <1>4, <1>5, <1>6, <1>7, OneHandler DEF Moves

LEMMA DialogFrame ==
    ASSUME NEW w \in Handlers, Arrive(w) \/ Proceed(w),
           ~Begin(w), ~SetTitle(w), ~TakeDescription(w)
    PROVE  UNCHANGED ticketStates
<1> USE DEF statevars
<1>1. CASE Arrive(w)
  BY <1>1, ArriveQuiet DEF OnlyHandler
<1>2. CASE \/ CancelLogin(w) \/ CancelNP(w) \/ ReadLogin(w) \/ AskPassword(w)
           \/ TakePassword(w) \/ ReadNP(w) \/ TakeNPPassword(w) \/ ReadTicket(w)
  BY <1>2 DEF CancelLogin, CancelNP, ReadLogin, AskPassword, TakePassword,
              ReadNP, TakeNPPassword, ReadTicket, OnlyHandler
<1>3. CASE \/ Authorize(w) \/ Ask(w) \/ Dispatch(w) \/ BeginLogin(w) \/ BeginNP(w)
           \/ Check(w) \/ Prompt(w) \/ Cleanup(w) \/ Ping(w) \/ NowPlaying(w)
  BY <1>3 DEF Authorize, Ask, Dispatch, BeginLogin, BeginNP, Check, Prompt,
              Cleanup, Ping, NowPlaying, OnlyHandler
<1>4. CASE \/ ReadFilters(w) \/ Show(w) \/ Confirm(w) \/ Remember(w) \/ Write(w)
           \/ Keyboard(w) \/ SaveTicket(w) \/ Close(w)
  BY <1>4 DEF ReadFilters, Show, Confirm, Remember, Write, Keyboard, SaveTicket,
              Close, OnlyHandler
<1> QED
  BY <1>1, <1>2, <1>3, <1>4 DEF Proceed

LEMMA DialogsGoOn ==
    ASSUME TitleInv, [TicketNext]_hvars
    PROVE  DialogsCarry'
<1>1. /\ TypeInv /\ [Next]_vars /\ asked \subseteq asked'
      /\ \A w \in Handlers : Carries(update[w]) /\ TypedAt(update[w])
  BY DEF TitleInv, TicketNext, hvars, ticketvars, TypeInv, UpdatesTyped, Typed
<1>2. CASE DOMAIN ticketStates' \subseteq DOMAIN ticketStates
           /\ \A u \in DOMAIN ticketStates' : ticketStates'[u] = ticketStates[u]
  BY <1>1, <1>2 DEF TitleInv, DialogsCarry, Asked
<1>3. ASSUME NEW w \in Handlers, NEW state,
             ticketStates' = Put(ticketStates, Sender(w), state),
             state.step = "description" =>
                Asked(state.type, state.title, Sender(w))
      PROVE  DialogsCarry'
  <2>1. \A u \in DOMAIN ticketStates' :
           \/ u = Sender(w) /\ ticketStates'[u] = state
           \/ u \in DOMAIN ticketStates /\ ticketStates'[u] = ticketStates[u]
    BY <1>3 DEF Put
  <2> QED
    BY <1>1, <1>3, <2>1 DEF TitleInv, DialogsCarry, Asked
<1>4. ASSUME NEW w \in Handlers, Begin(w)
      PROVE  DialogsCarry'
  <2>1. /\ ticketStates' = Put(ticketStates, Sender(w), update[w].state)
        /\ Carries(update[w])
    BY <1>1, <1>4 DEF Begin
  <2> QED
    BY <1>3, <2>1 DEF Carries, Sender
<1>5. ASSUME NEW w \in Handlers, SetTitle(w)
      PROVE  DialogsCarry'
  <2> DEFINE state == [update[w].state EXCEPT !.step = "description",
                                              !.title = Text(w)]
  <2>1. /\ update[w].state \in TicketState
        /\ update[w].state.step = "title" /\ update[w].words # <<>>
    BY <1>1, <1>5 DEF SetTitle, At, TypedAt
  <2>2. state.type = update[w].state.type /\ state.title = Text(w)
    BY <2>1 DEF TicketState
  <2>3. Asked(update[w].state.type, Text(w), Sender(w))
    BY <1>1, <2>1 DEF Carries, Text, Sender
  <2>4. ticketStates' = Put(ticketStates, Sender(w), state)
    BY <1>5 DEF SetTitle
  <2> HIDE DEF state
  <2>5. Asked(state.type, state.title, Sender(w))
    BY <2>2, <2>3
  <2> QED
    BY <1>3, <2>4, <2>5
<1>6. ASSUME NEW w \in Handlers, TakeDescription(w)
      PROVE  DialogsCarry'
  <2>1. ticketStates' = Drop(ticketStates, Sender(w))
    BY <1>6 DEF TakeDescription
  <2> QED
    BY <1>2, <2>1 DEF Drop, Restrict
<1>7. CASE Restart
  BY <1>7 DEF Restart, Empty, DialogsCarry
<1>8. CASE Environment \/ UNCHANGED vars
  <2>1. ticketStates' = ticketStates
    BY <1>8 DEF Environment, Tick, JoinOrLeave, vars, statevars
  <2> QED
    BY <1>2, <2>1
<1>9. ASSUME NEW w \in Handlers, Arrive(w) \/ Proceed(w), ~Begin(w),
             ~SetTitle(w), ~TakeDescription(w)
      PROVE  DialogsCarry'
  BY <1>2, <1>9, DialogFrame
<1> QED
  BY <1>1, <1>4, <1>5, <1>6, <1>7, <1>8, <1>9 DEF Next

LEMMA TicketsGoOn ==
    ASSUME TitleInv, [TicketNext]_hvars
    PROVE  TicketsOfOneDialog'
<1>1. /\ TypeInv /\ [Next]_vars /\ asked \subseteq asked' /\ TicketsOfOneDialog
      /\ \A w \in Handlers : Carries(update[w]) /\ TypedAt(update[w])
  BY DEF TitleInv, TicketNext, hvars, ticketvars, TypeInv, UpdatesTyped, Typed
<1>2. CASE DOMAIN tickets' \subseteq DOMAIN tickets
           /\ \A id \in DOMAIN tickets' : tickets'[id] = tickets[id]
  BY <1>1, <1>2 DEF TicketsOfOneDialog
<1>3. ASSUME NEW w \in Handlers, SaveTicket(w)
      PROVE  TicketsOfOneDialog'
  <2> DEFINE ticket == [type |-> update[w].state.type,
                        title |-> update[w].state.title, author |-> Sender(w)]
  <2>1. update[w].state.step = "description"
    BY <1>1, <1>3 DEF SaveTicket, At, TypedAt
  <2>2. ticket \in asked
    BY <1>1, <2>1 DEF Carries, Asked, Sender
  <2>3. AddTicket(ticket) \/ UNCHANGED tablevars
    BY <1>3 DEF SaveTicket
  <2> HIDE DEF ticket
  <2>4. CASE AddTicket(ticket)
    BY <1>1, <2>2, <2>4 DEF AddTicket, Put, TicketsOfOneDialog
  <2>5. CASE UNCHANGED tablevars
    BY <1>2, <2>5 DEF tablevars
  <2> QED
    BY <2>3, <2>4, <2>5
<1>4. ASSUME NEW w \in Handlers, Close(w)
      PROVE  TicketsOfOneDialog'
  BY <1>2, <1>4 DEF Close, CloseTicket, Drop, Restrict, tablevars
<1>5. ASSUME NEW w \in Handlers, Arrive(w) \/ Proceed(w), ~SaveTicket(w), ~Close(w)
      PROVE  TicketsOfOneDialog'
  BY <1>2, <1>5, Frame
<1>6. CASE Environment \/ Restart \/ UNCHANGED vars
  <2>1. tickets' = tickets
    BY <1>6 DEF Environment, Tick, JoinOrLeave, Restart, vars, tablevars
  <2> QED
    BY <1>2, <2>1
<1> QED
  BY <1>1, <1>3, <1>4, <1>5, <1>6 DEF Next

LEMMA InitTitleInv == HInit => TitleInv
<1> SUFFICES ASSUME HInit PROVE TitleInv
  OBVIOUS
<1>1. \A w \in Handlers : update[w].state.step = "none"
  BY DEF HInit, Init, NoUpdate, NoTicket
<1>2. tickets = [id \in {} |-> {}] /\ ticketStates = Empty
  BY DEF HInit, Init, TablesInit
<1> QED
  BY <1>1, <1>2, HistoryTypes
  DEF TitleInv, Carries, DialogsCarry, TicketsOfOneDialog, Empty

LEMMA NextTitleInv == TitleInv /\ [TicketNext]_hvars => TitleInv'
<1> SUFFICES ASSUME TitleInv, [TicketNext]_hvars PROVE TitleInv'
  OBVIOUS
<1>1. TypeInv' /\ TicketsOfOneDialog' /\ DialogsCarry'
  BY HistoryTypes, DialogsGoOn, TicketsGoOn DEF TitleInv
<1>2. \A w \in Handlers : Carries(update[w])'
  BY HandlersCarry
<1> QED
  BY <1>1, <1>2 DEF TitleInv

\* The title of a ticket was the answer to the question for this very type
\* (handleTicketInput), also when the sender begins another
\* ticket meanwhile, in any number of handlers.
THEOREM TitlesWereAskedFor == TicketSpec => []TicketsOfOneDialog
<1>1. TitleInv => TicketsOfOneDialog
  BY DEF TitleInv
<1> QED
  BY <1>1, InitTitleInv, NextTitleInv, PTL DEF TicketSpec
(***************************************************************************)
(* The dialogs of a sender who has one update handled at a time.  What the *)
(* properties say of the end of an update is owed to what the handler has  *)
(* read and cleared on its way.                                            *)
(***************************************************************************)

CommandPlaces == {"cancelLogin", "cancelNP", "authorize", "ask", "remember",
                  "dispatch", "beginLogin", "beginNP", "check", "prompt", "cleanup",
                  "ping", "write"}
TextPlaces == {"readLogin", "askPassword", "takePassword", "readNP",
               "takeNPPassword", "readTicket", "authorize", "ask", "remember",
               "dispatch", "check", "prompt", "cleanup", "ping", "write", "title",
               "description", "add"}
GroupPlaces == {"authorize", "dispatch", "readTicket", "title", "description",
                "add", "keyboard", "close", "confirm", "nowPlaying", "filters",
                "show", "begin"}

\* Where an update may be, and what its handler then holds.
Placed(j) ==
    /\ j.chat = "group" => j.pc \in GroupPlaces
    /\ j.chat = "private" =>
          \/ j.kind \in Command /\ j.pc \in CommandPlaces
          \/ j.kind = "text" /\ j.pc \in TextPlaces
    /\ j.pc = "beginLogin" => j.kind = "login"
    /\ j.pc \in {"check", "prompt"} => j.deferred
    /\ j.kind \in Command /\ j.pc \in {"check", "prompt", "ping", "write"} =>
          j.deferred /\ j.action = j.kind

\* The opt-out of this very update may be in progress.
Opting(j) ==
    \/ j.pc \in {"check", "prompt", "cleanup"}
    \/ j.pc \in {"ping", "write"} /\ j.deferred

InLogin(u) == u \in DOMAIN loginStates
InNP(u) == u \in DOMAIN npFilterStates

\* What has been read of the dialogs of the sender, or cleared, by now.
Cleared(j) ==
    /\ j.pc \in {"askPassword", "takePassword"} => InLogin(j.user)
    /\ InLogin(j.user) =>
          j.pc \in {"cancelLogin", "readLogin", "askPassword", "takePassword"}
    /\ InNP(j.user) =>
          \/ j.pc \in {"cancelLogin", "cancelNP", "readLogin", "askPassword",
                       "takePassword", "readNP", "takeNPPassword"}
          \/ /\ Opting(j)
             /\ j.kind \in Command => npFilterStates[j.user].action = j.kind

\* What is known of a handler whose update met no other one of its sender.
Alone(w) ==
    /\ \A v \in Handlers \ {w} : Busy(v) => Sender(v) # Sender(w)
    /\ update[w].chat = "private" => Cleared(update[w])

DialogInv ==
    /\ TypeInv
    /\ \A w \in Handlers : Busy(w) => Placed(update[w])
    /\ \A w \in Handlers \ crowded : Busy(w) => Alone(w)

\* A step keeps what was sent.
Like(w) ==
    /\ update'[w].chat = update[w].chat
    /\ update'[w].kind = update[w].kind
    /\ update'[w].user = update[w].user

OnTo(w, pc) ==
    /\ Like(w)
    /\ update'[w].pc = pc
    /\ update'[w].deferred = update[w].deferred
    /\ update'[w].action = update[w].action

LEMMA GotoOnTo ==
    ASSUME UpdatesTyped, NEW w \in Handlers, NEW pc, Goto(w, pc)
    PROVE  OnTo(w, pc)
<1>1. update[w] \in Update /\ update'[w] = [update[w] EXCEPT !.pc = pc]
  BY GotoLeads DEF UpdatesTyped, Typed
<1> QED
  BY <1>1 DEF Update, OnTo, Like

LEMMA BecomeOnTo ==
    ASSUME UpdatesTyped, NEW w \in Handlers, NEW k, Become(w, k),
           k.chat = update[w].chat, k.kind = update[w].kind,
           k.user = update[w].user, k.deferred = update[w].deferred,
           k.action = update[w].action
    PROVE  OnTo(w, k.pc)
<1>1. update'[w] = k
  BY BecomeLeads
<1> QED
  BY <1>1 DEF OnTo, Like

\* Two maps by what they have of one sender.
LEMMA PutIs ==
    ASSUME NEW map, NEW u, NEW v
    PROVE  /\ u \in DOMAIN Put(map, u, v) /\ Put(map, u, v)[u] = v
           /\ \A t : t # u =>
                 /\ t \in DOMAIN Put(map, u, v) <=> t \in DOMAIN map
                 /\ t \in DOMAIN map => Put(map, u, v)[t] = map[t]
  BY DEF Put

LEMMA DropIs ==
    ASSUME NEW map, NEW u
    PROVE  /\ u \notin DOMAIN Drop(map, u)
           /\ \A t : t # u =>
                 /\ t \in DOMAIN Drop(map, u) <=> t \in DOMAIN map
                 /\ t \in DOMAIN map => Drop(map, u)[t] = map[t]
  BY DEF Drop, Restrict

MapsStay == loginStates' = loginStates /\ npFilterStates' = npFilterStates

\* What the end of an update in private owes to its sender.
EndsWell(w) ==
    LET j == update[w]
    IN  /\ j.kind \in Command =>
              /\ j.user \in DOMAIN loginStates' => j.kind = "login"
              /\ j.user \in DOMAIN npFilterStates' =>
                    npFilterStates'[j.user].action = j.kind
        /\ j.kind = "text" /\ ~Blank(w) /\ ~(InLogin(j.user) /\ InNP(j.user)) =>
              /\ j.user \in DOMAIN loginStates' => loginStates'[j.user].step = 2
              /\ j.user \in DOMAIN npFilterStates' =>
                    npFilterStates'[j.user].step = 2

\* What a step of w does to its update.
Advances(w) == update'[w].pc # "idle" => Like(w) /\ Placed(update[w])'

\* What it does to the dialogs of its sender, when that one waits.
Ready(w) == update[w].chat = "private" => Cleared(update[w])

Leaves(w) ==
    update[w].chat = "private" =>
        IF update'[w].pc = "idle" THEN EndsWell(w) ELSE Cleared(update[w])'

\* A step that leaves the maps alone and goes on.
LEMMA Onward ==
    ASSUME NEW w \in Handlers, Ready(w), MapsStay, Like(w), update'[w].pc # "idle",
           update[w].chat = "private" =>
              /\ update'[w].pc \in {"askPassword", "takePassword"} =>
                    InLogin(Sender(w))
              /\ InLogin(Sender(w)) =>
                    update'[w].pc \in {"cancelLogin", "readLogin", "askPassword",
                                       "takePassword"}
              /\ InNP(Sender(w)) =>
                    \/ update'[w].pc \in {"cancelLogin", "cancelNP", "readLogin",
                                          "askPassword", "takePassword",
                                          "readNP", "takeNPPassword"}
                    \/ /\ Opting(update'[w])
                       /\ update[w].kind \in Command =>
                             npFilterStates[Sender(w)].action = update[w].kind
    PROVE  Leaves(w)
  BY DEF Ready, MapsStay, Like, Leaves, Cleared, Opting, InLogin, InNP, Sender

\* One that ends where nothing is left of the dialogs.
LEMMA EndsClear ==
    ASSUME NEW w \in Handlers, Ready(w), MapsStay, update'[w].pc = "idle",
           update[w].chat = "private" =>
              \/ ~InLogin(Sender(w)) /\ ~InNP(Sender(w))
              \/ update[w].kind = "text" /\ Blank(w)
    PROVE  Leaves(w)
  BY DEF Ready, MapsStay, Leaves, EndsWell, InLogin, InNP, Sender, Command

----------------------------------------------------------------------------
(* The steps that change a dialog.                                         *)

LEMMA CancelsLeave ==
    ASSUME TypeInv, NEW w \in Handlers, CancelLogin(w) \/ CancelNP(w),
           Placed(update[w])
    PROVE  Advances(w) /\ (Ready(w) => Leaves(w))
<1> DEFINE u == Sender(w)
<1>1. UpdatesTyped
  BY DEF TypeInv
<1>2. CASE CancelLogin(w)
  <2>1. OnTo(w, "cancelNP") /\ At(w, "cancelLogin")
    BY <1>1, <1>2, GotoOnTo DEF CancelLogin
  <2>2. u \notin DOMAIN loginStates' /\ npFilterStates' = npFilterStates
    BY <1>2, DropIs DEF CancelLogin
  <2>3. Advances(w)
    BY <2>1 DEF Advances, OnTo, Like, Placed, At, GroupPlaces, CommandPlaces,
                TextPlaces
  <2>4. Ready(w) => Leaves(w)
    BY <2>1, <2>2 DEF OnTo, Like, Leaves, Cleared, InLogin, InNP, Sender
  <2> QED
    BY <2>3, <2>4
<1>3. CASE CancelNP(w)
  <2>1. OnTo(w, "authorize") /\ At(w, "cancelNP")
    BY <1>1, <1>3, GotoOnTo DEF CancelNP
  <2>2. u \notin DOMAIN npFilterStates' /\ loginStates' = loginStates
    BY <1>3, DropIs DEF CancelNP
  <2>3. Advances(w)
    BY <2>1 DEF Advances, OnTo, Like, Placed, At, GroupPlaces, CommandPlaces,
                TextPlaces
  <2>4. update[w].chat = "private"
    BY <1>1, <2>1 DEF Placed, At, GroupPlaces, UpdatesTyped, Typed, Update
  <2>5. Ready(w) => Leaves(w)
    BY <2>1, <2>2, <2>4
    DEF OnTo, Like, Ready, Leaves, Cleared, InLogin, InNP, Sender, At
  <2> QED
    BY <2>3, <2>5
<1> QED
  BY <1>2, <1>3

LEMMA AnswersLeave ==
    ASSUME TypeInv, NEW w \in Handlers, AskPassword(w) \/ TakePassword(w),
           Placed(update[w])
    PROVE  Advances(w) /\ (Ready(w) => Leaves(w))
<1> DEFINE u == Sender(w)
<1>1. UpdatesTyped /\ update[w] \in Update
  BY DEF TypeInv, UpdatesTyped, Typed
<1>2. update'[w].pc = "idle"
  BY <1>1, EndLeads DEF AskPassword, TakePassword
<1>3. update[w].chat = "private" /\ update[w].kind = "text" /\ update[w].kind \notin Command
  BY <1>1 DEF Placed, At, GroupPlaces, CommandPlaces, Command, Update, AskPassword,
              TakePassword
<1>4. ASSUME Ready(w) PROVE InLogin(u)
  BY <1>3, <1>4 DEF Ready, Cleared, AskPassword, TakePassword, At, Sender
<1>5. npFilterStates' = npFilterStates
  BY DEF AskPassword, TakePassword
<1>6. ASSUME Ready(w), ~Blank(w)
      PROVE  u \in DOMAIN loginStates' => loginStates'[u].step = 2
  <2>1. \/ loginStates' = Put(loginStates, u, [step |-> 2, name |-> Text(w)])
        \/ loginStates' = Drop(loginStates, u)
    BY <1>6 DEF AskPassword, TakePassword
  <2>2. [step |-> 2, name |-> Text(w)].step = 2
    OBVIOUS
  <2> QED
    BY <2>1, <2>2, PutIs, DropIs
<1>7. Ready(w) => Leaves(w)
  BY <1>2, <1>3, <1>4, <1>5, <1>6 DEF Leaves, EndsWell, InNP, Sender, Ready
<1> QED
  BY <1>2, <1>7 DEF Advances

LEMMA BeginsLeave ==
    ASSUME TypeInv, NEW w \in Handlers, BeginLogin(w) \/ BeginNP(w),
           Placed(update[w])
    PROVE  Advances(w) /\ (Ready(w) => Leaves(w))
<1> DEFINE u == Sender(w)
<1>1. UpdatesTyped /\ update[w] \in Update /\ TypedAt(update[w])
  BY DEF TypeInv, UpdatesTyped, Typed
<1>2. update'[w].pc = "idle"
  BY <1>1, EndLeads DEF BeginLogin, BeginNP
<1>3. update[w].chat = "private" /\ update[w].kind \in Command
  BY <1>1 DEF Placed, At, GroupPlaces, TextPlaces, Update, BeginLogin, BeginNP
<1>4. ASSUME Ready(w) PROVE ~InLogin(u) /\ ~InNP(u)
  BY <1>3, <1>4 DEF Ready, Cleared, Opting, BeginLogin, BeginNP, At, Sender
<1>5. CASE BeginLogin(w)
  <2>1. update[w].kind = "login" /\ npFilterStates' = npFilterStates
    BY <1>5 DEF BeginLogin, Placed, At
  <2>2. Ready(w) => Leaves(w)
    BY <1>2, <1>3, <1>4, <2>1 DEF Leaves, EndsWell, InNP, Sender
  <2> QED
    BY <1>2, <2>2 DEF Advances
<1>6. CASE BeginNP(w)
  <2>1. loginStates' = loginStates
    BY <1>6 DEF BeginNP
  <2>2. npFilterStates'[u].action = update[w].kind
    BY <1>6, PutIs DEF BeginNP
  <2>3. Ready(w) => Leaves(w)
    BY <1>2, <1>3, <1>4, <2>1, <2>2 DEF Leaves, EndsWell, InLogin, Sender, Command
  <2> QED
    BY <1>2, <2>3 DEF Advances
<1> QED
  BY <1>5, <1>6

LEMMA TakeNPPasswordLeaves ==
    ASSUME TypeInv, NEW w \in Handlers, TakeNPPassword(w), Placed(update[w])
    PROVE  Advances(w) /\ (Ready(w) => Leaves(w))
<1> DEFINE j == update[w]
           u == Sender(w)
           k == [j EXCEPT !.pc = "ping", !.password = Text(w)]
<1>1. UpdatesTyped /\ j \in Update
  BY DEF TypeInv, UpdatesTyped, Typed
<1>2. j.chat = "private" /\ j.kind = "text" /\ j.kind \notin Command
  BY <1>1 DEF Placed, At, GroupPlaces, CommandPlaces, Command, Update, TakeNPPassword
<1>3. u \notin DOMAIN npFilterStates' /\ loginStates' = loginStates
  BY DropIs DEF TakeNPPassword
<1>4. Ready(w) => ~InLogin(u)
  BY <1>2 DEF Ready, Cleared, TakeNPPassword, At, Sender
<1>5. /\ k.pc = "ping" /\ k.chat = j.chat /\ k.kind = j.kind /\ k.user = j.user
      /\ k.deferred = j.deferred /\ k.action = j.action
  BY <1>1 DEF Update
<1>6. CASE End(w)
  <2>1. update'[w].pc = "idle"
    BY <1>1, <1>6, EndLeads
  <2>2. Ready(w) => Leaves(w)
    BY <1>2, <1>3, <1>4, <2>1 DEF Leaves, EndsWell, InLogin, Sender
  <2> QED
    BY <2>1, <2>2 DEF Advances
<1>7. CASE Become(w, k)
  <2> HIDE DEF k
  <2>1. OnTo(w, "ping")
    BY <1>1, <1>5, <1>7, BecomeOnTo
  <2>2. Advances(w)
    BY <1>2, <2>1 DEF Advances, OnTo, Like, Placed, TextPlaces
  <2>3. Ready(w) => Leaves(w)
    BY <1>3, <1>4, <2>1 DEF OnTo, Like, Leaves, Cleared, InLogin, InNP, Sender
  <2> QED
    BY <2>2, <2>3
<1> QED
  BY <1>6, <1>7 DEF TakeNPPassword

LEMMA PromptLeaves ==
    ASSUME TypeInv, NEW w \in Handlers, Prompt(w), Placed(update[w])
    PROVE  Advances(w) /\ (Ready(w) => Leaves(w))
<1> DEFINE j == update[w]
           u == Sender(w)
           state == [action |-> j.action, step |-> 2, name |-> j.name]
<1>1. UpdatesTyped /\ j \in Update
  BY DEF TypeInv, UpdatesTyped, Typed
<1>2. OnTo(w, "cleanup") /\ j.pc = "prompt"
  BY <1>1, GotoOnTo DEF Prompt, At
<1>3. j.chat = "private" /\ (j.kind \in Command => j.action = j.kind)
  BY <1>1, <1>2 DEF Placed, GroupPlaces, Update
<1>4. /\ loginStates' = loginStates /\ npFilterStates'[u].action = j.action
  BY PutIs DEF Prompt
<1>5. Advances(w)
  BY <1>2, <1>3 DEF Advances, OnTo, Like, Placed, CommandPlaces, TextPlaces
<1>6. Ready(w) => Leaves(w)
  BY <1>2, <1>3, <1>4
  DEF Ready, OnTo, Like, Leaves, Cleared, Opting, InLogin, InNP, Sender
<1> QED
  BY <1>5, <1>6

\* The deferred function leaves a dialog that waits for the password, or none.
LEMMA CleanupLeaves ==
    ASSUME TypeInv, NEW w \in Handlers, Cleanup(w), Placed(update[w])
    PROVE  Advances(w) /\ (Ready(w) => Leaves(w))
<1> DEFINE j == update[w]
           u == Sender(w)
<1>1. UpdatesTyped /\ j \in Update /\ MapTo(npFilterStates, NPFilterState)
  BY DEF TypeInv, TypeOK, UpdatesTyped, Typed
<1>2. update'[w].pc = "idle" /\ j.pc = "cleanup" /\ loginStates' = loginStates
  BY <1>1, EndLeads DEF Cleanup, At
<1>3. j.chat = "private"
  BY <1>1, <1>2 DEF Placed, GroupPlaces, Update
<1>4. u \in DOMAIN npFilterStates' =>
         /\ u \in DOMAIN npFilterStates
         /\ npFilterStates'[u] = npFilterStates[u]
         /\ npFilterStates[u].step = 2
  BY DropIs DEF Cleanup
<1>5. Ready(w) => Leaves(w)
  BY <1>2, <1>3, <1>4
  DEF Ready, Leaves, EndsWell, Cleared, InLogin, InNP, Sender
<1> QED
  BY <1>2, <1>5 DEF Advances

----------------------------------------------------------------------------
(* The steps that only read.                                               *)

LEMMA ReadLoginLeaves ==
    ASSUME TypeInv, NEW w \in Handlers, ReadLogin(w), Placed(update[w])
    PROVE  Advances(w) /\ (Ready(w) => Leaves(w))
<1> DEFINE j == update[w]
           login == loginStates[Sender(w)]
           pc == IF login.step = 1 THEN "askPassword" ELSE "takePassword"
           k == [j EXCEPT !.pc = pc, !.name = login.name]
<1>1. UpdatesTyped /\ j \in Update
  BY DEF TypeInv, UpdatesTyped, Typed
<1>2. /\ k.pc = pc /\ k.chat = j.chat /\ k.kind = j.kind /\ k.user = j.user
      /\ k.deferred = j.deferred /\ k.action = j.action
  BY <1>1 DEF Update
<1>3. pc \in {"askPassword", "takePassword"}
  OBVIOUS
<1>4. /\ j.pc = "readLogin" /\ MapsStay
      /\ IF InLogin(Sender(w)) THEN Become(w, k) ELSE Goto(w, "readNP")
  BY DEF ReadLogin, At, MapsStay, OnlyHandler, statevars, InLogin
<1>5. j.chat = "private" /\ j.kind = "text"
  BY <1>1, <1>4 DEF Placed, GroupPlaces, CommandPlaces, Update
<1> HIDE DEF k, pc
<1>6. CASE InLogin(Sender(w))
  <2>1. OnTo(w, pc)
    BY <1>1, <1>2, <1>4, <1>6, BecomeOnTo
  <2>2. Advances(w)
    BY <1>3, <1>5, <2>1 DEF Advances, OnTo, Like, Placed, TextPlaces, Command
  <2>3. Ready(w) => Leaves(w)
    BY <1>3, <1>4, <1>6, <2>1, Onward DEF OnTo
  <2> QED
    BY <2>2, <2>3
<1>7. CASE ~InLogin(Sender(w))
  <2>1. OnTo(w, "readNP")
    BY <1>1, <1>4, <1>7, GotoOnTo
  <2>2. Advances(w)
    BY <1>5, <2>1 DEF Advances, OnTo, Like, Placed, TextPlaces, Command
  <2>3. Ready(w) => Leaves(w)
    BY <1>4, <1>7, <2>1, Onward DEF OnTo
  <2> QED
    BY <2>2, <2>3
<1> QED
  BY <1>6, <1>7

LEMMA ReadNPLeaves ==
    ASSUME TypeInv, NEW w \in Handlers, ReadNP(w), Placed(update[w])
    PROVE  Advances(w) /\ (Ready(w) => Leaves(w))
<1> DEFINE j == update[w]
           np == npFilterStates[Sender(w)]
           second == [[j EXCEPT !.action = np.action] EXCEPT
                          !.pc = "takeNPPassword", !.name = np.name]
           first == [[j EXCEPT !.action = np.action] EXCEPT
                          !.pc = "check", !.name = Text(w), !.deferred = TRUE]
<1>1. UpdatesTyped /\ j \in Update
  BY DEF TypeInv, UpdatesTyped, Typed
<1>2. /\ second.pc = "takeNPPassword" /\ second.chat = j.chat
      /\ second.kind = j.kind /\ second.user = j.user
      /\ first.pc = "check" /\ first.chat = j.chat /\ first.kind = j.kind
      /\ first.user = j.user /\ first.deferred
  BY <1>1 DEF Update
<1>3. /\ j.pc = "readNP" /\ MapsStay
      /\ \/ ~InNP(Sender(w)) /\ Goto(w, "readTicket")
         \/ InNP(Sender(w)) /\ Become(w, second)
         \/ InNP(Sender(w)) /\ Become(w, first)
         \/ Blank(w) /\ End(w)
  BY DEF ReadNP, At, MapsStay, OnlyHandler, statevars, InNP
<1>4. j.chat = "private" /\ j.kind = "text" /\ j.kind \notin Command
  BY <1>1, <1>3 DEF Placed, GroupPlaces, CommandPlaces, Update, Command
<1> HIDE DEF first, second
<1>5. Ready(w) => ~InLogin(Sender(w))
  BY <1>3, <1>4 DEF Ready, Cleared, Sender
<1>6. CASE ~InNP(Sender(w)) /\ Goto(w, "readTicket")
  <2>1. OnTo(w, "readTicket")
    BY <1>1, <1>6, GotoOnTo
  <2>2. Advances(w)
    BY <1>4, <2>1 DEF Advances, OnTo, Like, Placed, TextPlaces
  <2>3. Ready(w) => Leaves(w)
    BY <1>3, <1>5, <1>6, <2>1, Onward DEF OnTo
  <2> QED
    BY <2>2, <2>3
<1>7. CASE InNP(Sender(w)) /\ Become(w, second)
  <2>1. update'[w] = second
    BY <1>1, <1>7, BecomeLeads
  <2>2. Like(w) /\ update'[w].pc = "takeNPPassword"
    BY <1>2, <2>1 DEF Like
  <2>3. Advances(w)
    BY <1>4, <2>2 DEF Advances, Like, Placed, TextPlaces
  <2>4. Ready(w) => Leaves(w)
    BY <1>3, <1>5, <2>2, Onward
  <2> QED
    BY <2>3, <2>4
<1>8. CASE InNP(Sender(w)) /\ Become(w, first)
  <2>1. update'[w] = first
    BY <1>1, <1>8, BecomeLeads
  <2>2. Like(w) /\ update'[w].pc = "check" /\ update'[w].deferred
    BY <1>2, <2>1 DEF Like
  <2>3. Advances(w)
    BY <1>4, <2>2 DEF Advances, Like, Placed, TextPlaces
  <2>4. Ready(w) => Leaves(w)
    BY <1>3, <1>4, <1>5, <2>2, Onward DEF Opting
  <2> QED
    BY <2>3, <2>4
<1>9. CASE Blank(w) /\ End(w)
  <2>1. update'[w].pc = "idle"
    BY <1>1, <1>9, EndLeads
  <2>2. Ready(w) => Leaves(w)
    BY <1>3, <1>4, <1>9, <2>1, EndsClear
  <2> QED
    BY <2>1, <2>2 DEF Advances
<1> QED
  BY <1>3, <1>6, <1>7, <1>8, <1>9

\* Where a private update has left both dialogs behind.
Behind == {"readTicket", "authorize", "ask", "remember", "dispatch", "title",
           "description", "add"}

LEMMA StaysBehind ==
    ASSUME NEW w \in Handlers, MapsStay,
           update[w].chat = "private" => update[w].pc \in Behind,
           update'[w].pc # "idle" =>
              Like(w) /\ update'[w].pc \notin {"askPassword", "takePassword"}
    PROVE  Ready(w) => Leaves(w)
<1> SUFFICES ASSUME Ready(w) PROVE Leaves(w)
  OBVIOUS
<1>1. update[w].chat = "private" => ~InLogin(Sender(w)) /\ ~InNP(Sender(w))
  BY DEF Ready, Cleared, Opting, Behind, Sender
<1>2. CASE update'[w].pc = "idle"
  BY <1>1, <1>2, EndsClear
<1>3. CASE update'[w].pc # "idle"
  BY <1>1, <1>3, Onward
<1> QED
  BY <1>2, <1>3

LEMMA AdmissionsLeave ==
    ASSUME TypeInv, NEW w \in Handlers, Placed(update[w]),
           ReadTicket(w) \/ Authorize(w) \/ Ask(w) \/ Remember(w)
    PROVE  Advances(w) /\ (Ready(w) => Leaves(w))
<1> DEFINE j == update[w]
<1>1. UpdatesTyped /\ j \in Update
  BY DEF TypeInv, UpdatesTyped, Typed
<1>2. MapsStay /\ j.pc \in {"readTicket", "authorize", "ask", "remember"}
  BY DEF ReadTicket, Authorize, Ask, Remember, At, MapsStay, OnlyHandler, statevars
<1>3. \/ update'[w].pc = "idle"
      \/ Like(w) /\ update'[w].pc \in {"authorize", "dispatch"}
      \/ Like(w) /\ update'[w].pc \in {"ask", "remember"} /\ j.chat # "group"
  <2>1. CASE ReadTicket(w)
    <3> DEFINE k == [j EXCEPT !.pc = "authorize",
                              !.state = ticketStates[Sender(w)]]
    <3>1. /\ k.pc = "authorize" /\ k.chat = j.chat /\ k.kind = j.kind
          /\ k.user = j.user
      BY <1>1 DEF Update
    <3>2. End(w) \/ Become(w, k)
      BY <2>1 DEF ReadTicket
    <3> HIDE DEF k
    <3> QED
      BY <1>1, <3>1, <3>2, EndLeads, BecomeLeads DEF Like
  <2>2. CASE Authorize(w)
    <3>1. End(w) \/ Goto(w, "dispatch") \/ (Goto(w, "ask") /\ j.chat # "group")
      BY <2>2 DEF Authorize
    <3> QED
      BY <1>1, <3>1, EndLeads, GotoOnTo DEF OnTo
  <2>3. CASE Ask(w)
    <3>1. PICK m \in {Sender(w) \in members, FALSE} :
             update'[w] = [j EXCEPT !.pc = "remember", !.isMember = m]
      BY <1>1, <2>3, BecomeLeads DEF Ask
    <3>2. Like(w) /\ update'[w].pc = "remember"
      BY <1>1, <3>1 DEF Like, Update
    <3>3. j.chat # "group"
      BY <2>3 DEF Ask, At, Placed, GroupPlaces
    <3> QED
      BY <3>2, <3>3
  <2>4. CASE Remember(w)
    <3> DEFINE k == [j EXCEPT !.pc = "dispatch", !.isMember = FALSE]
    <3>1. /\ k.pc = "dispatch" /\ k.chat = j.chat /\ k.kind = j.kind
          /\ k.user = j.user
      BY <1>1 DEF Update
    <3>2. End(w) \/ Become(w, k)
      BY <2>4 DEF Remember
    <3> HIDE DEF k
    <3> QED
      BY <1>1, <3>1, <3>2, EndLeads, BecomeLeads DEF Like
  <2> QED
    BY <2>1, <2>2, <2>3, <2>4
<1>4. Advances(w)
  <2>1. CASE j.chat = "group"
    BY <1>3, <2>1 DEF Advances, Like, Placed, GroupPlaces
  <2>2. CASE j.chat = "private"
    BY <1>3, <2>2 DEF Advances, Like, Placed, CommandPlaces, TextPlaces
  <2> QED
    BY <1>1, <2>1, <2>2 DEF Update
<1>5. Ready(w) => Leaves(w)
  BY <1>2, <1>3, StaysBehind DEF Behind
<1> QED
  BY <1>4, <1>5

LEMMA DispatchLeaves ==
    ASSUME TypeInv, NEW w \in Handlers, Dispatch(w), Placed(update[w])
    PROVE  Advances(w) /\ (Ready(w) => Leaves(w))
<1> DEFINE j == update[w]
           k == [j EXCEPT !.action = j.kind, !.name = Head(j.words),
                          !.password = IF Len(j.words) = 2 THEN j.words[2]
                                       ELSE NoWord,
                          !.deferred = TRUE, !.pc = "check"]
<1>1. UpdatesTyped /\ j \in Update /\ TypedAt(j)
  BY DEF TypeInv, UpdatesTyped, Typed
<1>2. MapsStay /\ j.pc = "dispatch"
  BY DEF Dispatch, At, MapsStay, OnlyHandler, statevars
<1>3. /\ k.pc = "check" /\ k.chat = j.chat /\ k.kind = j.kind /\ k.user = j.user
      /\ k.deferred /\ k.action = j.kind
  BY <1>1 DEF Update
<1>4. j.kind = "text" => j.state.step \in {"title", "description"}
  BY <1>1, <1>2, TicketTypesOf DEF TypedAt
<1> HIDE DEF k
<1>5. \/ End(w)
      \/ j.kind = "text" /\ Goto(w, j.state.step)
      \/ j.kind = "login" /\ j.chat = "private" /\ Goto(w, "beginLogin")
      \/ j.kind \in NPCommand /\ j.chat = "private" /\ Goto(w, "beginNP")
      \/ j.kind \in NPCommand /\ j.chat = "private" /\ Become(w, k)
      \/ /\ j.kind \in Command /\ j.chat # "private"
         /\ \E pc \in {"keyboard", "close", "nowPlaying"} : Goto(w, pc)
  BY DEF Dispatch, k, Command
<1>6. CASE End(w)
  BY <1>1, <1>2, <1>6, EndLeads, StaysBehind DEF Advances, Behind
<1>7. CASE j.kind = "text" /\ Goto(w, j.state.step)
  <2>1. Like(w) /\ update'[w].pc \in {"title", "description"}
    BY <1>1, <1>4, <1>7, GotoOnTo DEF OnTo
  <2>2. Advances(w)
    BY <1>7, <2>1 DEF Advances, Like, Placed, GroupPlaces, TextPlaces, Command
  <2> QED
    BY <1>2, <2>1, <2>2, StaysBehind DEF Behind
<1>8. CASE /\ j.kind = "login" /\ j.chat = "private" /\ Goto(w, "beginLogin")
  <2>1. Like(w) /\ update'[w].pc = "beginLogin"
    BY <1>1, <1>8, GotoOnTo DEF OnTo
  <2>2. Advances(w)
    BY <1>8, <2>1 DEF Advances, Like, Placed, CommandPlaces, Command
  <2> QED
    BY <1>2, <2>1, <2>2, StaysBehind DEF Behind
<1>9. CASE /\ j.kind \in NPCommand /\ j.chat = "private" /\ Goto(w, "beginNP")
  <2>1. Like(w) /\ update'[w].pc = "beginNP"
    BY <1>1, <1>9, GotoOnTo DEF OnTo
  <2>2. Advances(w)
    BY <1>9, <2>1 DEF Advances, Like, Placed, CommandPlaces, Command, NPCommand
  <2> QED
    BY <1>2, <2>1, <2>2, StaysBehind DEF Behind
<1>10. CASE /\ j.kind \in NPCommand /\ j.chat = "private" /\ Become(w, k)
  <2>1. update'[w] = k
    BY <1>1, <1>10, BecomeLeads
  <2>2. /\ Like(w) /\ update'[w].pc = "check" /\ update'[w].deferred
        /\ update'[w].action = j.kind
    BY <1>3, <2>1 DEF Like
  <2>3. Advances(w)
    BY <1>10, <2>2 DEF Advances, Like, Placed, CommandPlaces, Command, NPCommand
  <2> QED
    BY <1>2, <2>2, <2>3, StaysBehind DEF Behind
<1>11. CASE /\ j.kind \in Command /\ j.chat # "private"
            /\ \E pc \in {"keyboard", "close", "nowPlaying"} : Goto(w, pc)
  <2>1. Like(w) /\ update'[w].pc \in {"keyboard", "close", "nowPlaying"}
    BY <1>1, <1>11, GotoOnTo DEF OnTo
  <2>2. Advances(w)
    BY <1>11, <2>1 DEF Advances, Like, Placed, GroupPlaces
  <2> QED
    BY <1>2, <1>11, <2>1, <2>2, StaysBehind
<1> QED
  BY <1>5, <1>6, <1>7, <1>8, <1>9, <1>10, <1>11

\* The rest of an opt-out: only the last step may end it.
LEMMA OptOutsLeave ==
    ASSUME TypeInv, NEW w \in Handlers, Check(w) \/ Ping(w) \/ Write(w),
           Placed(update[w])
    PROVE  Advances(w) /\ (Ready(w) => Leaves(w))
<1> DEFINE j == update[w]
<1>1. UpdatesTyped /\ j \in Update
  BY DEF TypeInv, UpdatesTyped, Typed
<1>2. MapsStay /\ j.pc \in {"check", "ping", "write"}
  BY DEF Check, Ping, Write, At, MapsStay, OnlyHandler, statevars
<1>3. j.chat = "private" /\ (j.pc = "check" => j.deferred)
  BY <1>1, <1>2 DEF Placed, GroupPlaces, Update
<1>4. \/ j.deferred /\ OnTo(w, "cleanup")
      \/ j.deferred /\ OnTo(w, "prompt")
      \/ OnTo(w, "ping") \/ OnTo(w, "write")
      \/ ~j.deferred /\ update'[w].pc = "idle"
  <2>1. CASE Check(w)
    BY <1>1, <1>3, <2>1, GotoOnTo DEF Check, At
  <2>2. CASE Ping(w) \/ Write(w)
    <3>1. Finish(w) \/ Goto(w, "write")
      BY <2>2 DEF Ping, Write
    <3> QED
      BY <1>1, <3>1, GotoOnTo, EndLeads DEF Finish
  <2> QED
    BY <2>1, <2>2
<1>5. Advances(w)
  <2>1. j.kind \in Command => j.deferred /\ j.action = j.kind
    BY <1>2 DEF Placed
  <2> QED
    BY <1>3, <1>4, <2>1 DEF Advances, OnTo, Like, Placed, CommandPlaces, TextPlaces
<1>6. ASSUME Ready(w) PROVE Leaves(w)
  <2>1. /\ ~InLogin(Sender(w))
        /\ InNP(Sender(w)) =>
              /\ j.deferred
              /\ j.kind \in Command =>
                    npFilterStates[Sender(w)].action = j.kind
    BY <1>2, <1>3, <1>6 DEF Ready, Cleared, Opting, Sender
  <2>2. CASE update'[w].pc = "idle"
    <3>1. ~InNP(Sender(w))
      BY <1>4, <2>1, <2>2 DEF OnTo
    <3> QED
      BY <1>2, <1>6, <2>1, <2>2, <3>1, EndsClear
  <2>3. CASE update'[w].pc # "idle"
    <3>1. /\ Like(w) /\ update'[w].pc \in {"cleanup", "prompt", "ping", "write"}
          /\ j.deferred => update'[w].deferred
      BY <1>4, <2>3 DEF OnTo
    <3> QED
      BY <1>2, <1>6, <2>1, <2>3, <3>1, Onward DEF Opting
  <2> QED
    BY <2>2, <2>3
<1> QED
  BY <1>5, <1>6

----------------------------------------------------------------------------
(* The steps that only the group takes, and those of tickets.              *)

LEMMA MoreMapsStay ==
    ASSUME NEW w, OtherStep(w) \/ ReadFilters(w) \/ Close(w)
    PROVE  MapsStay
  BY DEF OtherStep, NowPlaying, Show, Begin, SetTitle, TakeDescription, SaveTicket,
         Keyboard, Confirm, ReadFilters, Close, MapsStay, OnlyHandler, statevars

LEMMA OthersLeave ==
    ASSUME TypeInv, NEW w \in Handlers, OtherStep(w) \/ ReadFilters(w) \/ Close(w),
           Placed(update[w])
    PROVE  Advances(w) /\ (Ready(w) => Leaves(w))
<1> DEFINE j == update[w]
<1>1. UpdatesTyped /\ j \in Update
  BY DEF TypeInv, UpdatesTyped, Typed
<1>2. j.pc \in GroupPlaces
  BY DEF OtherStep, NowPlaying, Show, Begin, SetTitle, TakeDescription, SaveTicket,
         Keyboard, Confirm, ReadFilters, Close, At, GroupPlaces
<1>3. j.chat = "private" => j.pc \in Behind /\ ~NowPlaying(w) /\ ~ReadFilters(w)
                            /\ ~Close(w)
  BY <1>2 DEF Placed, GroupPlaces, CommandPlaces, TextPlaces, Behind, NowPlaying,
              ReadFilters, Close, At
<1>4. \/ update'[w].pc = "idle"
      \/ Like(w) /\ j.pc = "description" /\ update'[w].pc = "add"
      \/ Like(w) /\ j.chat = "group" /\ update'[w].pc \in {"filters", "show", "confirm"}
  <2>1. CASE NowPlaying(w)
    <3>1. \/ End(w)
          \/ \E entries \in SUBSET Names :
                update'[w] = [j EXCEPT !.pc = "filters", !.entries = entries]
      BY <1>1, <2>1, BecomeLeads DEF NowPlaying
    <3>2. ASSUME NEW entries \in SUBSET Names,
                 update'[w] = [j EXCEPT !.pc = "filters", !.entries = entries]
          PROVE  Like(w) /\ update'[w].pc = "filters"
      BY <1>1, <3>2 DEF Update, Like
    <3> QED
      BY <1>1, <1>3, <2>1, <3>1, <3>2, EndLeads DEF Update
  <2>2. CASE ReadFilters(w)
    <3> DEFINE k == [j EXCEPT !.pc = "show",
                              !.entries = j.entries \ nowplaying_filters,
                              !.err = FALSE]
               l == [j EXCEPT !.pc = "show", !.entries = j.entries \ {},
                              !.err = TRUE]
    <3>1. /\ k.pc = "show" /\ k.chat = j.chat /\ k.kind = j.kind /\ k.user = j.user
          /\ l.pc = "show" /\ l.chat = j.chat /\ l.kind = j.kind /\ l.user = j.user
      BY <1>1 DEF Update
    <3>2. End(w) \/ Become(w, k) \/ Become(w, l)
      BY <2>2 DEF ReadFilters, Visible, GetNowPlayingFilteredUsers
    <3> HIDE DEF k, l
    <3>3. update'[w].pc = "idle" \/ (Like(w) /\ update'[w].pc = "show")
      BY <1>1, <3>1, <3>2, EndLeads, BecomeLeads DEF Like
    <3> QED
      BY <1>1, <1>3, <2>2, <3>3 DEF Update
  <2>3. CASE Close(w)
    BY <1>1, <1>3, <2>3, GotoOnTo, EndLeads DEF Close, OnTo, Update
  <2>4. CASE TakeDescription(w)
    BY <1>1, <2>4, GotoOnTo DEF TakeDescription, OnTo, At
  <2>5. CASE Show(w) \/ Begin(w) \/ SetTitle(w) \/ SaveTicket(w) \/ Keyboard(w)
             \/ Confirm(w)
    BY <1>1, <2>5, EndLeads DEF Show, Begin, SetTitle, SaveTicket, Keyboard, Confirm
  <2> QED
    BY <2>1, <2>2, <2>3, <2>4, <2>5 DEF OtherStep
<1>5. Advances(w)
  <2>1. CASE j.chat = "group"
    BY <1>4, <2>1 DEF Advances, Like, Placed, GroupPlaces
  <2>2. CASE j.chat = "private"
    <3>1. j.pc = "description" => j.kind = "text"
      BY <2>2 DEF Placed, CommandPlaces
    <3> QED
      BY <1>4, <2>2, <3>1 DEF Advances, Like, Placed, TextPlaces, Command
  <2> QED
    BY <1>1, <2>1, <2>2 DEF Update
<1>6. Ready(w) => Leaves(w)
  BY <1>3, <1>4, MoreMapsStay, StaysBehind
<1> QED
  BY <1>5, <1>6

\* Every step of a handler.
LEMMA ProceedLeaves ==
    ASSUME TypeInv, NEW w \in Handlers, Proceed(w), Placed(update[w])
    PROVE  Advances(w) /\ (Ready(w) => Leaves(w))
  BY Steps, CancelsLeave, AnswersLeave, BeginsLeave, TakeNPPasswordLeaves,
     PromptLeaves, CleanupLeaves, ReadLoginLeaves, ReadNPLeaves, AdmissionsLeave,
     DispatchLeaves, OptOutsLeave, OthersLeave
  DEF DialogStep

----------------------------------------------------------------------------
(* The other steps.                                                        *)

LEMMA ArrivePlaced ==
    ASSUME TypeInv, NEW w \in Handlers, Arrive(w)
    PROVE  /\ MapsStay
           /\ Placed(update[w])'
           /\ Cleared(update[w])' \/ update'[w].chat = "group"
<1>1. DOMAIN update = Handlers
  BY DEF TypeInv, UpdatesTyped
<1>2. \A j : Receive(w, j) => update'[w] = j
  BY <1>1, ReceiveMoves
<1>3. MapsStay
  BY ArriveQuiet DEF MapsStay, OnlyHandler, statevars
<1>4. CASE ReceiveMessage(w)
  <2>1. PICK u \in Senders, chat \in Chats, kind \in Command \cup {"text"} :
           \E words, id :
              Receive(w, [NoUpdate EXCEPT !.pc = FirstStep(chat, kind),
                                          !.user = u, !.chat = chat,
                                          !.kind = kind, !.words = words,
                                          !.id = id])
    BY <1>4 DEF ReceiveMessage
  <2>2. PICK words, id :
           Receive(w, [NoUpdate EXCEPT !.pc = FirstStep(chat, kind), !.user = u,
                                       !.chat = chat, !.kind = kind,
                                       !.words = words, !.id = id])
    BY <2>1
  <2>3. /\ update'[w].pc = FirstStep(chat, kind) /\ update'[w].chat = chat
        /\ update'[w].kind = kind
    BY <1>2, <2>2 DEF NoUpdate
  <2>4. chat \in {"private", "group"}
    BY MessagesAssumption
  <2>5. \/ chat = "private" /\ kind \in Command /\ update'[w].pc = "cancelLogin"
        \/ chat = "private" /\ kind = "text" /\ update'[w].pc = "readLogin"
        \/ chat = "group" /\ update'[w].pc \in {"authorize", "readTicket"}
    BY <2>3, <2>4 DEF FirstStep, Command
  <2>6. Placed(update[w])'
    BY <2>3, <2>5 DEF Placed, GroupPlaces, CommandPlaces, TextPlaces
  <2>7. Cleared(update[w])' \/ update'[w].chat = "group"
    BY <2>3, <2>5 DEF Cleared
  <2> QED
    BY <1>3, <2>6, <2>7
<1>5. CASE PressTicketType(w) \/ PressTicketDone(w)
  <2>1. CASE PressTicketType(w)
    <3>1. \E u \in Senders, type \in TicketTypes : update'[w] =
             [NoUpdate EXCEPT
                 !.pc = "begin", !.user = u, !.chat = "group",
                 !.kind = "ticket_type",
                 !.state = [step |-> "title", type |-> type, title |-> NoWord]]
      BY <1>2, <2>1 DEF PressTicketType
    <3> QED
      BY <1>3, <3>1 DEF NoUpdate, Placed, GroupPlaces
  <2>2. CASE PressTicketDone(w)
    <3>1. \E u \in Senders, b \in buttons : update'[w] =
             [NoUpdate EXCEPT !.pc = "close", !.user = u, !.chat = "group",
                              !.kind = "ticket_done", !.id = b.id]
      BY <1>2, <2>2 DEF PressTicketDone
    <3> QED
      BY <1>3, <3>1 DEF NoUpdate, Placed, GroupPlaces
  <2> QED
    BY <1>5, <2>1, <2>2
<1> QED
  BY <1>4, <1>5 DEF Arrive

\* A step changes the dialogs of its sender only.
Untouched(u) ==
    /\ u \in DOMAIN loginStates' <=> u \in DOMAIN loginStates
    /\ u \in DOMAIN npFilterStates' <=> u \in DOMAIN npFilterStates
    /\ u \in DOMAIN npFilterStates => npFilterStates'[u] = npFilterStates[u]

LEMMA OnlyItsSender ==
    ASSUME NEW w \in Handlers, Proceed(w), NEW u, u # Sender(w)
    PROVE  Untouched(u)
<1>1. CASE CancelLogin(w) \/ AskPassword(w) \/ TakePassword(w) \/ BeginLogin(w)
  <2>1. /\ npFilterStates' = npFilterStates
        /\ \/ loginStates' \in {loginStates, Drop(loginStates, Sender(w))}
           \/ \E state : loginStates' = Put(loginStates, Sender(w), state)
    BY <1>1 DEF CancelLogin, AskPassword, TakePassword, BeginLogin
  <2> QED
    BY <2>1, PutIs, DropIs DEF Untouched
<1>2. CASE \/ CancelNP(w) \/ TakeNPPassword(w) \/ BeginNP(w) \/ Prompt(w) \/ Cleanup(w)
  <2>1. /\ loginStates' = loginStates
        /\ \/ npFilterStates' \in {npFilterStates, Drop(npFilterStates, Sender(w))}
           \/ \E state : npFilterStates' = Put(npFilterStates, Sender(w), state)
    BY <1>2 DEF CancelNP, TakeNPPassword, BeginNP, Prompt, Cleanup
  <2> QED
    BY <2>1, PutIs, DropIs DEF Untouched
<1>3. CASE OtherStep(w) \/ ReadFilters(w) \/ Close(w)
  BY <1>3, MoreMapsStay DEF MapsStay, Untouched
<1>4. CASE ReadLogin(w) \/ ReadNP(w) \/ ReadTicket(w) \/ Authorize(w) \/ Ask(w)
           \/ Remember(w) \/ Dispatch(w) \/ Check(w) \/ Ping(w) \/ Write(w)
  BY <1>4 DEF ReadLogin, ReadNP, ReadTicket, Authorize, Ask, Remember, Dispatch,
              Check, Ping, Write, OnlyHandler, statevars, Untouched
<1> QED
  BY <1>1, <1>2, <1>3, <1>4, Steps DEF DialogStep

LEMMA ProceedBusy ==
    ASSUME NEW w, Proceed(w)
    PROVE  Busy(w)
  BY DEF Busy, At, Proceed, CancelLogin, CancelNP, ReadLogin, AskPassword, TakePassword,
         ReadNP, TakeNPPassword, ReadTicket, Authorize, Ask, Remember, Dispatch,
         BeginLogin, BeginNP, Check, Prompt, Cleanup, Ping, Write, NowPlaying,
         ReadFilters, Show, Begin, SetTitle, TakeDescription, SaveTicket, Keyboard,
         Close, Confirm

LEMMA PlacesGoOn ==
    ASSUME DialogInv, [Next]_vars, NEW v \in Handlers, Busy(v)'
    PROVE  Placed(update[v])'
<1>1. TypeInv /\ \A w \in Handlers : Busy(w) => Placed(update[w])
  BY DEF DialogInv
<1>2. CASE update'[v] = update[v]
  BY <1>1, <1>2 DEF Busy, At, Placed
<1>3. CASE Arrive(v)
  BY <1>1, <1>3, ArrivePlaced
<1>4. CASE Proceed(v)
  BY <1>1, <1>4, ProceedBusy, ProceedLeaves DEF Advances, Busy, At
<1>5. CASE update' = [w \in Handlers |-> NoUpdate]
  BY <1>5 DEF Busy, At, NoUpdate
<1> QED
  BY <1>1, <1>2, <1>3, <1>4, <1>5, OneHandler DEF Moves

\* What a handler owes to the dialogs of its sender, as the others go on.
LEMMA StaysCleared ==
    ASSUME DialogInv, [Next]_vars, NEW v \in Handlers \ crowded, Busy(v)',
           update'[v].chat = "private"
    PROVE  Cleared(update[v])'
<1>1. TypeInv /\ \A w \in Handlers : Busy(w) => Placed(update[w])
  BY DEF DialogInv
<1>2. ASSUME update'[v] = update[v], Untouched(Sender(v)) \/ MapsStay
      PROVE  Cleared(update[v])'
  <2>1. Cleared(update[v])
    BY <1>2 DEF DialogInv, Alone, Busy, At
  <2> QED
    BY <1>2, <2>1 DEF Cleared, Opting, Untouched, MapsStay, InLogin, InNP, Sender
<1>3. ASSUME NEW w \in Handlers, Proceed(w), Moves(w) PROVE Cleared(update[v])'
  <2>1. CASE w = v
    <3>1. Placed(update[v]) /\ Busy(v)
      BY <1>1, <1>3, <2>1, ProceedBusy
    <3>2. Ready(v)
      BY <3>1 DEF DialogInv, Alone, Ready
    <3>3. Like(v)
      BY <1>1, <1>3, <2>1, <3>1, ProceedLeaves DEF Advances, Busy, At
    <3> QED
      BY <1>1, <1>3, <2>1, <3>1, <3>2, <3>3, ProceedLeaves DEF Leaves, Like, Busy, At
  <2>2. CASE w # v
    <3>1. update'[v] = update[v]
      BY <1>3, <2>2 DEF Moves
    <3>2. Sender(v) # Sender(w)
      BY <1>3, <2>2, <3>1, ProceedBusy DEF DialogInv, Alone, Busy, At
    <3> QED
      BY <1>2, <1>3, <3>1, <3>2, OnlyItsSender
  <2> QED
    BY <2>1, <2>2
<1>4. ASSUME NEW w \in Handlers, Arrive(w), Moves(w) PROVE Cleared(update[v])'
  <2>1. CASE w = v
    BY <1>1, <1>4, <2>1, ArrivePlaced
  <2>2. CASE w # v
    BY <1>1, <1>2, <1>4, <2>2, ArrivePlaced DEF Moves
  <2> QED
    BY <2>1, <2>2
<1>5. CASE Environment \/ UNCHANGED vars
  BY <1>2, <1>5 DEF Environment, Tick, JoinOrLeave, vars, statevars, MapsStay
<1>6. CASE Restart
  BY <1>6 DEF Restart, Busy, At, NoUpdate
<1>7. \A w \in Handlers : Arrive(w) \/ Proceed(w) => Moves(w)
  BY <1>1, ArriveMoves, ProceedMoves DEF TypeInv, UpdatesTyped
<1> QED
  BY <1>3, <1>4, <1>5, <1>6, <1>7 DEF Next

LEMMA InitDialogInv == HInit => DialogInv
<1> SUFFICES ASSUME HInit PROVE DialogInv
  OBVIOUS
<1>1. \A w \in Handlers : ~Busy(w)
  BY DEF HInit, Init, Busy, At, NoUpdate
<1> QED
  BY <1>1, HistoryTypes DEF DialogInv

LEMMA NextDialogInv == DialogInv /\ [PrivateNext]_hvars => DialogInv'
<1> SUFFICES ASSUME DialogInv, [PrivateNext]_hvars PROVE DialogInv'
  OBVIOUS
<1>1. TypeInv' /\ [Next]_vars
  BY HistoryTypes DEF DialogInv, PrivateNext, hvars
<1>2. \A w \in Handlers : Busy(w)' => Placed(update[w])'
  BY <1>1, PlacesGoOn
<1>3. ASSUME NEW w \in Handlers \ crowded', Busy(w)'
      PROVE  Alone(w)'
  <2>1. CASE PrivateNext
    <3>1. w \notin crowded /\ ~Meets(w)'
      BY <1>3, <2>1 DEF PrivateNext
    <3>2. update'[w].chat = "private" => Cleared(update[w])'
      BY <1>1, <1>3, <3>1, StaysCleared
    <3> QED
      BY <3>1, <3>2 DEF Alone, Meets
  <2>2. CASE UNCHANGED hvars
    <3>1. crowded' = crowded /\ update' = update
      BY <2>2 DEF hvars, vars, privatevars
    <3>2. Busy(w) /\ Alone(w)
      BY <1>3, <3>1 DEF DialogInv, Busy, At
    <3>3. update'[w].chat = "private" => Cleared(update[w])'
      BY <1>1, <1>3, <3>1, StaysCleared
    <3> QED
      BY <3>1, <3>2, <3>3 DEF Alone, Busy, At, Sender
  <2> QED
    BY <2>1, <2>2
<1> QED
  BY <1>1, <1>2, <1>3 DEF DialogInv

\* The step that ends an update.
LEMMA EndIsWell ==
    ASSUME DialogInv, [Next]_vars, NEW w \in Handlers, Ends(w),
           w \notin crowded, update[w].chat = "private"
    PROVE  EndsWell(w)
<1>1. /\ TypeInv /\ Busy(w) /\ Placed(update[w]) /\ Ready(w)
      /\ update'[w].pc = "idle"
  BY DEF DialogInv, Ends, Alone, Ready
<1>2. CASE Proceed(w)
  BY <1>1, <1>2, ProceedLeaves DEF Leaves
<1>3. CASE Restart
  BY <1>3 DEF Restart, Empty, EndsWell
<1>4. CASE \E v \in Handlers \ {w} : Arrive(v) \/ Proceed(v)
  <2>1. update'[w] = update[w]
    BY <1>1, <1>4, ArriveMoves, ProceedMoves DEF TypeInv, UpdatesTyped, Moves
  <2> QED
    BY <1>1, <2>1 DEF Busy, At
<1>5. CASE Environment \/ UNCHANGED vars
  <2>1. update' = update
    BY <1>5 DEF Environment, Tick, JoinOrLeave, vars
  <2> QED
    BY <1>1, <2>1 DEF Busy, At
<1>6. ~Arrive(w)
  BY <1>1, ArriveQuiet DEF Busy
<1> QED
  BY <1>2, <1>3, <1>4, <1>5, <1>6 DEF Next

\* A command (handleMessage) that meets no other update of its sender leaves that
\* one neither in a login nor in an opt-out but the one that it begins: for any
\* number of senders and handlers, whatever fails on the way, and whatever went
\* before. A dialog about a ticket is left as it is.
THEOREM CommandsEndLoginAndOptOut == PrivateSpec => CommandsCancelLoginAndOptOut
<1>1. ASSUME DialogInv, [PrivateNext]_hvars, NEW w \in Handlers \ crowded, Ends(w),
             update[w].chat = "private", update[w].kind \in Command
      PROVE  /\ update[w].user \in DOMAIN loginStates' => update[w].kind = "login"
             /\ update[w].user \in DOMAIN npFilterStates' =>
                   npFilterStates'[update[w].user].action = update[w].kind
  <2>1. [Next]_vars
    BY <1>1 DEF PrivateNext, hvars
  <2> QED
    BY <1>1, <2>1, EndIsWell DEF EndsWell
<1>2. DialogInv /\ [PrivateNext]_hvars =>
         [\A w \in Handlers \ crowded :
             LET j == update[w]
             IN  Ends(w) /\ j.chat = "private" /\ j.kind \in Command
                 => /\ j.user \in DOMAIN loginStates' => j.kind = "login"
                    /\ j.user \in DOMAIN npFilterStates' =>
                          npFilterStates'[j.user].action = j.kind]_hvars
  BY <1>1
<1> QED
  BY <1>2, InitDialogInv, NextDialogInv, PTL DEF PrivateSpec, CommandsCancelLoginAndOptOut

\* An answer that meets no other update of its sender takes the dialog to the
\* password, or out of it, on every path (handleInteractiveLogin,
\* handleInteractiveNPFilter), for any number of senders and handlers.
THEOREM AnswersTakeDialogsOn == PrivateSpec => AnswersMoveOn
<1>1. ASSUME DialogInv, [PrivateNext]_hvars, NEW w \in Handlers \ crowded, Ends(w),
             update[w].chat = "private", update[w].kind = "text", ~Blank(w),
             update[w].user \notin DOMAIN loginStates \cap DOMAIN npFilterStates
      PROVE  /\ update[w].user \in DOMAIN loginStates' =>
                   loginStates'[update[w].user].step = 2
             /\ update[w].user \in DOMAIN npFilterStates' =>
                   npFilterStates'[update[w].user].step = 2
  <2>1. [Next]_vars
    BY <1>1 DEF PrivateNext, hvars
  <2> QED
    BY <1>1, <2>1, EndIsWell DEF EndsWell, InLogin, InNP
<1>2. DialogInv /\ [PrivateNext]_hvars =>
         [\A w \in Handlers \ crowded :
             LET j == update[w]
             IN  /\ Ends(w) /\ j.chat = "private" /\ j.kind = "text" /\ ~Blank(w)
                 /\ j.user \notin DOMAIN loginStates \cap DOMAIN npFilterStates
                 => /\ j.user \in DOMAIN loginStates' =>
                          loginStates'[j.user].step = 2
                    /\ j.user \in DOMAIN npFilterStates' =>
                          npFilterStates'[j.user].step = 2]_hvars
  BY <1>1
<1> QED
  BY <1>2, InitDialogInv, NextDialogInv, PTL DEF PrivateSpec, AnswersMoveOn

=============================================================================
