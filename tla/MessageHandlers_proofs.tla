----------------------- MODULE MessageHandlers_proofs -----------------------
(***************************************************************************)
(* Theorems about MessageHandlers, for any senders, handlers and words.    *)
(***************************************************************************)
EXTENDS MessageHandlers, SequenceTheorems, TLAPS

(***************************************************************************)
(* Old keyboards.  That a button shows its ticket is not inductive: a      *)
(* ticket could be saved under the id of a button whose ticket is gone.    *)
(* It is not, as all the ids on buttons and in the table have been given,  *)
(* and AUTOINCREMENT gives the next one.                                   *)
(***************************************************************************)

IdsWereGiven ==
    /\ lastID \in Nat
    /\ DOMAIN tickets \subseteq 1..lastID
    /\ \A b \in buttons : b.id \in 1..lastID

ButtonInv == IdsWereGiven /\ ButtonsShowTheirTicket

LEMMA InitButtonInv == Init => ButtonInv
  BY DEF Init, TablesInit, ButtonInv, IdsWereGiven, ButtonsShowTheirTicket

LEMMA AddTicketKeepsButtons ==
    ASSUME ButtonInv, NEW ticket, AddTicket(ticket), buttons' = buttons
    PROVE  ButtonInv'
<1>1. lastID' = lastID + 1 /\ tickets' = Put(tickets, lastID + 1, ticket)
  BY DEF AddTicket
<1>2. DOMAIN tickets' = DOMAIN tickets \cup {lastID + 1}
  BY <1>1 DEF Put
<1>3. \A id \in DOMAIN tickets : id # lastID + 1 /\ tickets'[id] = tickets[id]
  BY <1>1 DEF Put, ButtonInv, IdsWereGiven
<1>4. IdsWereGiven'
  BY <1>1, <1>2 DEF ButtonInv, IdsWereGiven
<1>5. ASSUME NEW b \in buttons, b.id \in DOMAIN tickets'
      PROVE  tickets'[b.id] = b.ticket
  <2>1. b.id \in DOMAIN tickets
    BY <1>2, <1>5 DEF ButtonInv, IdsWereGiven
  <2> QED
    BY <1>3, <2>1 DEF ButtonInv, ButtonsShowTheirTicket
<1> QED
  BY <1>4, <1>5 DEF ButtonInv, ButtonsShowTheirTicket

LEMMA CloseTicketKeepsButtons ==
    ASSUME ButtonInv, NEW id, CloseTicket(id), buttons' = buttons
    PROVE  ButtonInv'
<1>1. tickets' = [k \in DOMAIN tickets \ {id} |-> tickets[k]] /\ lastID' = lastID
  BY DEF CloseTicket, Drop, Restrict
<1>2. DOMAIN tickets' \subseteq DOMAIN tickets
  BY <1>1
<1>3. \A k \in DOMAIN tickets' : tickets'[k] = tickets[k]
  BY <1>1
<1> QED
  BY <1>1, <1>2, <1>3 DEF ButtonInv, IdsWereGiven, ButtonsShowTheirTicket

LEMMA NewButtonsShowTheirTicket ==
    ASSUME ButtonInv, buttons' = buttons \cup ListTickets,
           UNCHANGED <<tickets, lastID>>
    PROVE  ButtonInv'
<1>1. \A b \in ListTickets : b.id \in DOMAIN tickets /\ b.ticket = tickets[b.id]
  BY DEF ListTickets
<1> QED
  BY <1>1 DEF ButtonInv, IdsWereGiven, ButtonsShowTheirTicket

\* All the other steps leave tickets and buttons alone.
LEMMA QuietStepKeepsButtons ==
    ASSUME ButtonInv, UNCHANGED <<tickets, lastID, buttons>>
    PROVE  ButtonInv'
  BY DEF ButtonInv, IdsWereGiven, ButtonsShowTheirTicket

LEMMA ProceedKeepsButtons ==
    ASSUME ButtonInv, NEW w \in Handlers, Proceed(w)
    PROVE  ButtonInv'
<1> USE DEF tablevars, telegramvars
<1>1. CASE SaveTicket(w)
  BY <1>1, AddTicketKeepsButtons, QuietStepKeepsButtons DEF SaveTicket
<1>2. CASE Keyboard(w)
  BY <1>2, NewButtonsShowTheirTicket, QuietStepKeepsButtons DEF Keyboard
<1>3. CASE Close(w)
  BY <1>3, CloseTicketKeepsButtons, QuietStepKeepsButtons DEF Close
<1>4. CASE Write(w)
  BY <1>4, QuietStepKeepsButtons
  DEF Write, SetNowPlayingFilter, RemoveNowPlayingFilter
<1>5. CASE CancelLogin(w) \/ CancelNP(w) \/ ReadLogin(w) \/ AskPassword(w) \/
           TakePassword(w) \/ ReadNP(w) \/ TakeNPPassword(w) \/ ReadTicket(w)
  BY <1>5, QuietStepKeepsButtons
  DEF CancelLogin, CancelNP, ReadLogin, AskPassword, TakePassword, ReadNP,
      TakeNPPassword, ReadTicket, OnlyStates, OnlyHandler
<1>6. CASE Authorize(w) \/ Ask(w) \/ Remember(w) \/ Dispatch(w) \/
           BeginLogin(w) \/ BeginNP(w) \/ Check(w) \/ Prompt(w) \/ Cleanup(w)
  BY <1>6, QuietStepKeepsButtons
  DEF Authorize, Ask, Remember, Dispatch, BeginLogin, BeginNP, Check, Prompt,
      Cleanup, OnlyStates, OnlyHandler
<1>7. CASE Ping(w) \/ NowPlaying(w) \/ ReadFilters(w) \/ Show(w) \/ Begin(w) \/
           SetTitle(w) \/ TakeDescription(w) \/ Confirm(w)
  BY <1>7, QuietStepKeepsButtons
  DEF Ping, NowPlaying, ReadFilters, Show, Begin, SetTitle, TakeDescription, Confirm, OnlyStates, OnlyHandler
<1> QED
  BY <1>1, <1>2, <1>3, <1>4, <1>5, <1>6, <1>7 DEF Proceed

LEMMA NextButtonInv == ButtonInv /\ [Next]_vars => ButtonInv'
<1> SUFFICES ASSUME ButtonInv, [Next]_vars PROVE ButtonInv'
  OBVIOUS
<1> USE DEF tablevars, telegramvars
<1>1. ASSUME NEW w \in Handlers, Arrive(w) PROVE ButtonInv'
  BY <1>1, QuietStepKeepsButtons
  DEF Arrive, ReceiveMessage, PressTicketType, PressTicketDone, Receive,
      OnlyHandler
<1>2. ASSUME NEW w \in Handlers, Proceed(w) PROVE ButtonInv'
  BY <1>2, ProceedKeepsButtons
<1>3. CASE Environment
  BY <1>3, QuietStepKeepsButtons DEF Environment, Tick, JoinOrLeave
<1>4. CASE Restart
  BY <1>4, QuietStepKeepsButtons DEF Restart
<1>5. CASE UNCHANGED vars
  BY <1>5, QuietStepKeepsButtons DEF vars
<1> QED
  BY <1>1, <1>2, <1>3, <1>4, <1>5 DEF Next

\* /done never closes another ticket than the one that the button shows
\* (handleTicketDoneCallback), however many tickets are saved and closed while
\* the keyboard stays in the chat, and across restarts.
THEOREM ButtonsNeverLie == Spec => []ButtonsShowTheirTicket
<1>1. ButtonInv => ButtonsShowTheirTicket
  BY DEF ButtonInv
<1> QED
  BY <1>1, InitButtonInv, NextButtonInv, PTL DEF Spec

(***************************************************************************)
(* Types.  What a handler holds depends on where it is.                    *)
(***************************************************************************)

TypedAt(j) ==
    /\ j.pc # "idle" => j.user \in Senders
    /\ j.pc \in {"cancelLogin", "cancelNP"} => j.kind # "text"
    /\ j.pc = "beginNP" => j.kind \in NPCommand
    /\ j.pc \in {"takeNPPassword", "check", "prompt", "ping", "write"} =>
          j.action \in NPCommand /\ j.name \in Words
    /\ \/ j.kind = "text" /\ j.pc \in {"authorize", "ask", "remember", "dispatch"}
       \/ j.pc \in {"begin", "title", "description", "add"}
       => j.state \in TicketState
    /\ j.pc = "title" => j.state.step = "title" /\ j.words # <<>>
    /\ j.pc \in {"description", "add"} => j.state.step = "description"

Typed == {j \in Update : TypedAt(j)}

UpdatesTyped == update \in [Handlers -> Typed]

TypeInv == TypeOK /\ UpdatesTyped

LEMMA ArgumentTypes ==
    ASSUME NEW words \in Arguments, words # <<>>
    PROVE  /\ Head(words) \in Words
           /\ Len(words) \in Nat
           /\ Len(words) = 2 => words[2] \in Words
<1>1. PICK n \in 0..2 : words \in [1..n -> Words]
  BY DEF Arguments
<1>2. words \in Seq(Words) /\ Len(words) = n
  BY <1>1
<1>3. n # 0
  BY <1>2, EmptySeq
<1> QED
  BY <1>1, <1>2, <1>3

LEMMA NoUpdateType == NoUpdate \in Typed
<1>1. <<>> \in [1..0 -> Words]
  OBVIOUS
<1>2. <<>> \in Arguments
  BY <1>1 DEF Arguments
<1> QED
  BY <1>2 DEF NoUpdate, Typed, TypedAt, Update, PCs, NoTicket, NPCommand

LEMMA FieldTypes ==
    ASSUME NEW j \in Update
    PROVE  /\ j.pc \in PCs /\ j.user \in Senders \cup {NoWord}
           /\ j.kind \in Kinds \cup {"none"} /\ j.words \in Arguments
           /\ j.action \in NPCommand \cup {"none"}
           /\ j.name \in Words \cup {NoWord} /\ j.password \in Words \cup {NoWord}
           /\ j.state \in TicketState \cup {NoTicket} /\ j.id \in Nat
           /\ j.entries \in SUBSET Names
  BY DEF Update

LEMMA GotoType ==
    ASSUME NEW j \in Update, NEW pc \in PCs
    PROVE  /\ [j EXCEPT !.pc = pc] \in Update
           /\ [j EXCEPT !.pc = pc].pc = pc
           /\ [j EXCEPT !.pc = pc].user = j.user
           /\ [j EXCEPT !.pc = pc].kind = j.kind
           /\ [j EXCEPT !.pc = pc].words = j.words
           /\ [j EXCEPT !.pc = pc].action = j.action
           /\ [j EXCEPT !.pc = pc].name = j.name
           /\ [j EXCEPT !.pc = pc].state = j.state
  BY DEF Update

LEMMA NPTypes ==
    ASSUME NEW s \in NPFilterState
    PROVE  /\ s.action \in NPCommand /\ s.step \in {1, 2}
           /\ s.step = 2 => s.name \in Words
  BY DEF NPFilterState

LEMMA TicketTypesOf ==
    ASSUME NEW s \in TicketState
    PROVE  /\ s.step \in {"title", "description"} /\ s.type \in TicketTypes
           /\ s.step = "description" => s.title \in Words
           /\ s.step = "title" => \A t \in Words :
                 [s EXCEPT !.step = "description", !.title = t] \in TicketState
  BY DEF TicketState

LEMMA PutType ==
    ASSUME NEW map, NEW S, MapTo(map, S), NEW u \in Senders, NEW v \in S
    PROVE  MapTo(Put(map, u, v), S)
  BY DEF MapTo, Put

LEMMA DropType ==
    ASSUME NEW map, NEW S, MapTo(map, S), NEW u
    PROVE  MapTo(Drop(map, u), S)
  BY DEF MapTo, Drop, Restrict

LEMMA EmptyType == ASSUME NEW S PROVE MapTo(Empty, S)
  BY DEF MapTo, Empty

LEMMA BecomeTyped ==
    ASSUME UpdatesTyped, NEW w \in Handlers, NEW j \in Typed, Become(w, j)
    PROVE  UpdatesTyped'
  BY DEF UpdatesTyped, Become

LEMMA EndTyped ==
    ASSUME UpdatesTyped, NEW w \in Handlers, End(w)
    PROVE  UpdatesTyped'
  BY NoUpdateType, BecomeTyped DEF End

LEMMA GotoTyped ==
    ASSUME UpdatesTyped, NEW w \in Handlers, NEW pc \in PCs,
           TypedAt([update[w] EXCEPT !.pc = pc]), Goto(w, pc)
    PROVE  UpdatesTyped'
<1>1. update[w] \in Update
  BY DEF UpdatesTyped, Typed
<1> QED
  BY <1>1, GotoType, BecomeTyped DEF Goto, Typed

\* Where a handler needs no more than its sender.
Plain == {"readLogin", "askPassword", "takePassword",
          "readNP", "readTicket", "beginLogin", "cleanup", "keyboard", "close",
          "confirm", "nowPlaying", "filters", "show"}

LEMMA GotoPlain ==
    ASSUME UpdatesTyped, NEW w \in Handlers, ~At(w, "idle"), NEW pc \in Plain,
           Goto(w, pc)
    PROVE  UpdatesTyped'
<1>1. update[w] \in Typed /\ update[w] \in Update
  BY DEF UpdatesTyped, Typed
<1>2. pc \in PCs
  BY DEF Plain, PCs
<1>3. TypedAt([update[w] EXCEPT !.pc = pc])
  BY <1>1, <1>2, GotoType DEF TypedAt, Typed, At, Plain
<1> QED
  BY <1>2, <1>3, GotoTyped

\* Further on with the words of the sender, through the authorization.
Admission == {"authorize", "ask", "remember", "dispatch"}

LEMMA GotoAdmission ==
    ASSUME UpdatesTyped, NEW w \in Handlers, update[w].pc \in Admission,
           NEW pc \in Admission, Goto(w, pc)
    PROVE  UpdatesTyped'
<1>1. update[w] \in Typed /\ update[w] \in Update
  BY DEF UpdatesTyped, Typed
<1>2. pc \in PCs
  BY DEF Admission, PCs
<1>3. TypedAt([update[w] EXCEPT !.pc = pc])
  BY <1>1, <1>2, GotoType DEF TypedAt, Typed, Admission
<1> QED
  BY <1>2, <1>3, GotoTyped

----------------------------------------------------------------------------
(* The steps.                                                              *)

LEMMA ReceiveTyped ==
    ASSUME UpdatesTyped, NEW w \in Handlers, Arrive(w), TypeOK
    PROVE  UpdatesTyped'
<1>1. CASE ReceiveMessage(w)
  <2> DEFINE Given(kind) == CASE kind = "text" -> [1..1 -> Words] \cup {<<>>}
                               [] kind \in {"login"} \cup NPCommand -> Arguments
                               [] OTHER -> {<<>>}
             Number(kind) == IF kind = "done" THEN 0..MaxTickets ELSE {0}
  <2>1. PICK u \in Senders, chat \in Chats, kind \in Command \cup {"text"} :
           \E words \in Given(kind), id \in Number(kind) :
               Receive(w, [NoUpdate EXCEPT !.pc = FirstStep(chat, kind),
                                           !.user = u, !.chat = chat,
                                           !.kind = kind, !.words = words,
                                           !.id = id])
    BY <1>1 DEF ReceiveMessage
  <2>2. Given(kind) \subseteq Arguments
    <3>1. {<<>>} \subseteq Arguments
      BY NoUpdateType DEF NoUpdate, Typed, Update
    <3>2. [1..1 -> Words] \subseteq Arguments
      BY DEF Arguments
    <3>3. CASE kind = "text"
      BY <3>1, <3>2, <3>3
    <3>4. CASE kind # "text" /\ kind \in {"login"} \cup NPCommand
      BY <3>4
    <3>5. CASE kind # "text" /\ kind \notin {"login"} \cup NPCommand
      BY <3>1, <3>5
    <3> QED
      BY <3>3, <3>4, <3>5
  <2>3. Number(kind) \subseteq Nat
    BY TablesAssumption
  <2> HIDE DEF Given, Number
  <2>4. PICK words \in Arguments, id \in Nat :
           Receive(w, [NoUpdate EXCEPT !.pc = FirstStep(chat, kind),
                                       !.user = u, !.chat = chat,
                                       !.kind = kind, !.words = words,
                                       !.id = id])
    BY <2>1, <2>2, <2>3
  <2>5. kind \in Kinds
    BY <2>4 DEF Receive, NoUpdate
  <2>6. FirstStep(chat, kind) \in {"cancelLogin", "readLogin", "authorize", "readTicket"}
        /\ (FirstStep(chat, kind) \in {"cancelLogin", "authorize"} => kind # "text")
    BY MessagesAssumption DEF FirstStep
  <2> DEFINE j == [NoUpdate EXCEPT !.pc = FirstStep(chat, kind),
                                   !.user = u, !.chat = chat,
                                   !.kind = kind, !.words = words,
                                   !.id = id]
  <2>7. j \in Update
    BY <2>5, <2>6, NoUpdateType, MessagesAssumption DEF Update, Typed, NoUpdate, PCs
  <2>8. j.pc = FirstStep(chat, kind) /\ j.user = u /\ j.kind = kind
    BY DEF NoUpdate
  <2>9. TypedAt(j)
    BY <2>6, <2>8 DEF TypedAt
  <2> QED
    BY <2>4, <2>7, <2>9, BecomeTyped DEF Receive, Typed
<1>2. CASE PressTicketType(w)
  <2>1. PICK u \in Senders, type \in TicketTypes :
           Receive(w, [NoUpdate EXCEPT
               !.pc = "begin", !.user = u, !.chat = "group",
               !.kind = "ticket_type",
               !.state = [step |-> "title", type |-> type, title |-> NoWord]])
    BY <1>2 DEF PressTicketType
  <2> DEFINE j == [NoUpdate EXCEPT
               !.pc = "begin", !.user = u, !.chat = "group",
               !.kind = "ticket_type",
               !.state = [step |-> "title", type |-> type, title |-> NoWord]]
  <2>2. j.pc = "begin" /\ j.user = u /\ j.kind = "ticket_type"
        /\ j.state = [step |-> "title", type |-> type, title |-> NoWord]
    BY DEF NoUpdate
  <2>3. "ticket_type" \in Kinds
    BY <2>1, <2>2 DEF Receive
  <2>4. j.state \in TicketState
    BY <2>2 DEF TicketState
  <2>5. j \in Update
    BY <2>2, <2>3, <2>4, NoUpdateType DEF Update, Typed, NoUpdate, PCs
  <2>6. TypedAt(j)
    BY <2>2, <2>4 DEF TypedAt
  <2> QED
    BY <2>1, <2>5, <2>6, BecomeTyped DEF Receive, Typed
<1>3. CASE PressTicketDone(w)
  <2>1. PICK u \in Senders, b \in buttons :
           Receive(w, [NoUpdate EXCEPT !.pc = "close", !.user = u,
                                       !.chat = "group", !.kind = "ticket_done",
                                       !.id = b.id])
    BY <1>3 DEF PressTicketDone
  <2> DEFINE j == [NoUpdate EXCEPT !.pc = "close", !.user = u,
                                   !.chat = "group", !.kind = "ticket_done",
                                   !.id = b.id]
  <2>2. j.pc = "close" /\ j.user = u /\ j.kind = "ticket_done"
    BY DEF NoUpdate
  <2>3. "ticket_done" \in Kinds
    BY <2>1, <2>2 DEF Receive
  <2>4. b.id \in Nat
    BY DEF TypeOK
  <2>5. j \in Update
    BY <2>3, <2>4, NoUpdateType DEF Update, Typed, NoUpdate, PCs
  <2>6. TypedAt(j)
    BY <2>2 DEF TypedAt
  <2> QED
    BY <2>1, <2>5, <2>6, BecomeTyped DEF Receive, Typed
<1> QED
  BY <1>1, <1>2, <1>3 DEF Arrive

\* What a handler that has work to do knows of itself.
LEMMA Own ==
    ASSUME UpdatesTyped, NEW w \in Handlers
    PROVE  /\ update[w] \in Update /\ TypedAt(update[w])
           /\ ~At(w, "idle") => Sender(w) \in Senders
           /\ ~Blank(w) => Text(w) \in Words
  BY ArgumentTypes, FieldTypes DEF UpdatesTyped, Typed, TypedAt, At, Sender, Blank, Text

LEMMA ReadingTyped ==
    ASSUME TypeInv, NEW w \in Handlers, ReadLogin(w) \/ ReadNP(w) \/ ReadTicket(w)
    PROVE  UpdatesTyped'
<1> DEFINE j == update[w]
<1>1. UpdatesTyped /\ TypeOK
  BY DEF TypeInv
<1>2. j \in Update /\ (~At(w, "idle") => j.user \in Senders)
  BY <1>1, Own DEF Sender
<1>3. CASE ReadLogin(w)
  <2>1. CASE Sender(w) \notin DOMAIN loginStates
    BY <1>1, <1>3, <2>1, GotoPlain DEF ReadLogin, Plain, At
  <2>2. CASE Sender(w) \in DOMAIN loginStates
    <3> DEFINE state == loginStates[Sender(w)]
               pc == IF state.step = 1 THEN "askPassword" ELSE "takePassword"
               k == [j EXCEPT !.pc = pc, !.name = state.name]
    <3>1. state \in LoginState
      BY <1>1, <2>2 DEF TypeOK, MapTo
    <3>2. state.name \in Words \cup {NoWord}
      BY <3>1 DEF LoginState
    <3>3. pc \in {"askPassword", "takePassword"}
      OBVIOUS
    <3>4. Become(w, k)
      BY <1>3, <2>2 DEF ReadLogin
    <3> HIDE DEF pc
    <3>5. k \in Update
      BY <1>2, <3>2, <3>3 DEF Update, PCs
    <3>6. k.pc = pc /\ k.user = j.user
      BY <1>2 DEF Update
    <3>7. TypedAt(k)
      BY <1>2, <1>3, <3>3, <3>6 DEF TypedAt, ReadLogin, At
    <3> HIDE DEF k
    <3> QED
      BY <1>1, <3>4, <3>5, <3>7, BecomeTyped DEF Typed
  <2> QED
    BY <2>1, <2>2
<1>4. CASE ReadNP(w)
  <2>1. CASE Sender(w) \notin DOMAIN npFilterStates
    BY <1>1, <1>4, <2>1, GotoPlain DEF ReadNP, Plain, At
  <2>2. CASE Sender(w) \in DOMAIN npFilterStates
    <3> DEFINE state == npFilterStates[Sender(w)]
               read == [j EXCEPT !.action = state.action]
    <3>1. state \in NPFilterState
      BY <1>1, <2>2 DEF TypeOK, MapTo
    <3>2. state.action \in NPCommand /\ (state.step = 2 => state.name \in Words)
      BY <3>1, NPTypes
    <3>3. j.user \in Senders
      BY <1>2, <1>4 DEF ReadNP, At
    <3>4. CASE state.step = 2
      <4> DEFINE k == [read EXCEPT !.pc = "takeNPPassword", !.name = state.name]
      <4>1. Become(w, k)
        BY <1>4, <2>2, <3>4 DEF ReadNP
      <4>2. k \in Typed
        BY <1>2, <3>2, <3>3, <3>4 DEF Typed, TypedAt, Update, PCs
      <4> HIDE DEF k
      <4> QED
        BY <1>1, <4>1, <4>2, BecomeTyped
    <3>5. CASE state.step # 2 /\ Blank(w)
      BY <1>1, <1>4, <2>2, <3>5, EndTyped DEF ReadNP
    <3>6. CASE state.step # 2 /\ ~Blank(w)
      <4> DEFINE k == [read EXCEPT !.pc = "check", !.name = Text(w),
                                   !.deferred = TRUE]
      <4>1. Become(w, k)
        BY <1>4, <2>2, <3>6 DEF ReadNP
      <4>2. Text(w) \in Words
        BY <1>1, <3>6, Own
      <4>3. k \in Typed
        BY <1>2, <3>2, <3>3, <4>2 DEF Typed, TypedAt, Update, PCs
      <4> HIDE DEF k
      <4> QED
        BY <1>1, <4>1, <4>3, BecomeTyped
    <3> QED
      BY <3>4, <3>5, <3>6
  <2> QED
    BY <2>1, <2>2
<1>5. CASE ReadTicket(w)
  <2>1. CASE Sender(w) \notin DOMAIN ticketStates
    BY <1>1, <1>5, <2>1, EndTyped DEF ReadTicket
  <2>2. CASE Sender(w) \in DOMAIN ticketStates
    <3> DEFINE k == [j EXCEPT !.pc = "authorize",
                              !.state = ticketStates[Sender(w)]]
    <3>1. ticketStates[Sender(w)] \in TicketState
      BY <1>1, <2>2 DEF TypeOK, MapTo
    <3>2. k \in Typed
      BY <1>2, <1>5, <3>1 DEF Typed, TypedAt, Update, PCs, ReadTicket, At
    <3>3. Become(w, k)
      BY <1>5, <2>2 DEF ReadTicket
    <3> HIDE DEF k
    <3> QED
      BY <1>1, <3>2, <3>3, BecomeTyped
  <2> QED
    BY <2>1, <2>2
<1> QED
  BY <1>3, <1>4, <1>5

LEMMA AdmissionTyped ==
    ASSUME UpdatesTyped, NEW w \in Handlers, Authorize(w) \/ Ask(w) \/ Remember(w)
    PROVE  UpdatesTyped'
<1>1. CASE Authorize(w)
  BY <1>1, GotoAdmission, EndTyped DEF Authorize, Admission, At
<1>2. CASE Ask(w) \/ Remember(w)
  <2> DEFINE j == update[w]
  <2>1. j \in Typed /\ j \in Update
    BY DEF UpdatesTyped, Typed
  <2>2. CASE Ask(w)
    <3>1. PICK b \in {Sender(w) \in members, FALSE} :
             Become(w, [j EXCEPT !.pc = "remember", !.isMember = b])
      BY <2>2 DEF Ask
    <3>2. b \in BOOLEAN
      <4>1. b = (Sender(w) \in members) \/ b = FALSE
        OBVIOUS
      <4>2. (Sender(w) \in members) \in BOOLEAN
        OBVIOUS
      <4> QED
        BY <4>1, <4>2
    <3> DEFINE k == [j EXCEPT !.pc = "remember", !.isMember = b]
    <3>3. k \in Update
      BY <2>1, <3>2 DEF Update, PCs
    <3>4. /\ k.pc = "remember" /\ k.user = j.user /\ k.kind = j.kind
          /\ k.state = j.state
      BY <2>1 DEF Update
    <3>5. TypedAt(k)
      BY <2>1, <2>2, <3>4 DEF Typed, TypedAt, Ask, At
    <3> HIDE DEF k
    <3> QED
      BY <3>1, <3>3, <3>5, BecomeTyped DEF Typed, k
  <2>3. CASE Remember(w)
    <3> DEFINE k == [j EXCEPT !.pc = "dispatch", !.isMember = FALSE]
    <3>1. k \in Update
      BY <2>1 DEF Update, PCs
    <3>2. /\ k.pc = "dispatch" /\ k.user = j.user /\ k.kind = j.kind
          /\ k.state = j.state
      BY <2>1 DEF Update
    <3>3. TypedAt(k)
      BY <2>1, <2>3, <3>2 DEF Typed, TypedAt, Remember, At
    <3>4. Become(w, k) \/ End(w)
      BY <2>3 DEF Remember
    <3> HIDE DEF k
    <3> QED
      BY <3>1, <3>3, <3>4, BecomeTyped, EndTyped DEF Typed
  <2> QED
    BY <1>2, <2>2, <2>3
<1> QED
  BY <1>1, <1>2

LEMMA DispatchTyped ==
    ASSUME UpdatesTyped, NEW w \in Handlers, Dispatch(w)
    PROVE  UpdatesTyped'
<1> DEFINE j == update[w]
           private == j.chat = "private"
           givenNP == [j EXCEPT !.action = j.kind, !.name = Head(j.words),
                             !.password = IF Len(j.words) = 2 THEN j.words[2]
                                          ELSE NoWord,
                             !.deferred = TRUE, !.pc = "check"]
<1>1. j \in Typed /\ j \in Update /\ j.user \in Senders /\ ~At(w, "idle")
  BY DEF UpdatesTyped, Typed, TypedAt, Dispatch, At
<1>2. CASE j.kind = "text" /\ ~Blank(w)
  <2>1. j.state \in TicketState
    BY <1>1, <1>2 DEF Typed, TypedAt, Dispatch, At
  <2>2. j.state.step \in {"title", "description"}
    BY <2>1, TicketTypesOf
  <2>3. j.state.step \in PCs
    BY <2>2 DEF PCs
  <2>4. TypedAt([j EXCEPT !.pc = j.state.step])
    BY <1>1, <1>2, <2>1, <2>2, <2>3, GotoType DEF TypedAt, Blank
  <2>5. Goto(w, j.state.step)
    BY <1>2 DEF Dispatch, NPCommand
  <2> QED
    BY <2>3, <2>4, <2>5, GotoTyped
<1>3. CASE Goto(w, "beginLogin") \/ Goto(w, "keyboard") \/ Goto(w, "close")
           \/ Goto(w, "nowPlaying") \/ End(w)
  BY <1>1, <1>3, GotoPlain, EndTyped DEF Plain
<1>4. CASE j.kind \in NPCommand /\ Goto(w, "beginNP")
  <2>1. TypedAt([j EXCEPT !.pc = "beginNP"])
    BY <1>1, <1>4, GotoType DEF TypedAt, PCs
  <2> QED
    BY <1>4, <2>1, GotoTyped DEF PCs
<1>5. CASE j.kind \in NPCommand /\ ~Blank(w) /\ Become(w, givenNP)
  <2>1. Head(j.words) \in Words
    BY <1>5, Own DEF Text
  <2>2. (IF Len(j.words) = 2 THEN j.words[2] ELSE NoWord) \in Words \cup {NoWord}
    BY <1>1, <1>5, ArgumentTypes DEF Update, Blank
  <2> DEFINE password == IF Len(j.words) = 2 THEN j.words[2] ELSE NoWord
  <2>3. password \in Words \cup {NoWord}
    BY <2>2
  <2> HIDE DEF password
  <2> DEFINE k == [j EXCEPT !.action = j.kind, !.name = Head(j.words),
                            !.password = password, !.deferred = TRUE,
                            !.pc = "check"]
  <2>4. Become(w, k)
    BY <1>5 DEF password
  <2>5. k \in Update
    BY <1>1, <1>5, <2>1, <2>3 DEF Update, PCs
  <2>6. /\ k.pc = "check" /\ k.user = j.user /\ k.action = j.kind
        /\ k.name = Head(j.words)
    BY <1>1 DEF Update
  <2>7. TypedAt(k)
    BY <1>1, <1>5, <2>1, <2>6 DEF TypedAt
  <2> HIDE DEF k
  <2> QED
    BY <2>4, <2>5, <2>7, BecomeTyped DEF Typed
<1>6. CASE ~(j.kind = "text" /\ ~Blank(w))
  <2> HIDE DEF givenNP
  <2> QED
    BY <1>1, <1>3, <1>4, <1>5, <1>6 DEF Dispatch, givenNP, NPCommand
<1> QED
  BY <1>2, <1>6

\* The other steps, by where they lead.
LEMMA WorkTyped ==
    ASSUME TypeInv, NEW w \in Handlers
    PROVE  /\ CancelLogin(w) \/ CancelNP(w) \/ AskPassword(w) \/ TakePassword(w)
              \/ BeginLogin(w) \/ BeginNP(w) \/ Prompt(w) \/ Cleanup(w)
              \/ Write(w) \/ Show(w) \/ Begin(w) \/ SetTitle(w) \/ SaveTicket(w)
              \/ Keyboard(w) \/ Close(w) \/ Confirm(w)
                 => UpdatesTyped'
           /\ Check(w) \/ Ping(w) => UpdatesTyped'
           /\ TakeNPPassword(w) => UpdatesTyped'
           /\ NowPlaying(w) \/ ReadFilters(w) => UpdatesTyped'
           /\ TakeDescription(w) => UpdatesTyped'
<1> DEFINE j == update[w]
<1>1. UpdatesTyped
  BY DEF TypeInv
<1>2. j \in Update /\ TypedAt(j)
  BY <1>1, Own
<1>3. ASSUME CancelLogin(w) \/ CancelNP(w) \/ AskPassword(w) \/ TakePassword(w)
             \/ BeginLogin(w) \/ BeginNP(w) \/ Prompt(w) \/ Cleanup(w)
             \/ Write(w) \/ Show(w) \/ Begin(w) \/ SetTitle(w) \/ SaveTicket(w)
             \/ Keyboard(w) \/ Close(w) \/ Confirm(w)
      PROVE  UpdatesTyped'
  <2>1. CASE CancelLogin(w)
    <3>1. TypedAt([j EXCEPT !.pc = "cancelNP"])
      BY <1>2, <2>1, GotoType DEF TypedAt, CancelLogin, At, PCs
    <3> QED
      BY <1>1, <2>1, <3>1, GotoTyped DEF CancelLogin, PCs
  <2>2. CASE CancelNP(w)
    <3>1. TypedAt([j EXCEPT !.pc = "authorize"])
      BY <1>2, <2>2, GotoType DEF TypedAt, CancelNP, At, PCs
    <3> QED
      BY <1>1, <2>2, <3>1, GotoTyped DEF CancelNP, PCs
  <2>3. CASE Prompt(w) \/ Write(w) \/ Close(w)
    BY <1>1, <2>3, GotoPlain, EndTyped DEF Prompt, Write, Finish, Close, Plain, At
  <2>4. CASE AskPassword(w) \/ TakePassword(w) \/ BeginLogin(w) \/ BeginNP(w)
             \/ Cleanup(w) \/ Show(w)
    BY <1>1, <2>4, EndTyped
    DEF AskPassword, TakePassword, BeginLogin, BeginNP, Cleanup, Show
  <2>5. CASE Begin(w) \/ SetTitle(w) \/ SaveTicket(w) \/ Keyboard(w) \/ Confirm(w)
    BY <1>1, <2>5, EndTyped DEF Begin, SetTitle, SaveTicket, Keyboard, Confirm
  <2> QED
    BY <1>3, <2>1, <2>2, <2>3, <2>4, <2>5
<1>4. ASSUME Check(w) \/ Ping(w) PROVE UpdatesTyped'
  <2>1. ASSUME NEW pc \in {"prompt", "ping", "write"}, Goto(w, pc),
               At(w, "check") \/ At(w, "ping")
        PROVE  UpdatesTyped'
    <3>1. pc \in PCs
      BY DEF PCs
    <3>2. TypedAt([j EXCEPT !.pc = pc])
      BY <1>2, <2>1, <3>1, GotoType DEF TypedAt, At
    <3> QED
      BY <1>1, <2>1, <3>1, <3>2, GotoTyped
  <2>2. CASE Check(w)
    BY <1>1, <2>1, <2>2, GotoPlain DEF Check, Plain, At
  <2>3. CASE Ping(w)
    BY <1>1, <2>1, <2>3, GotoPlain, EndTyped DEF Ping, Finish, Plain, At
  <2> QED
    BY <1>4, <2>2, <2>3
<1>5. ASSUME TakeNPPassword(w) PROVE UpdatesTyped'
  <2> DEFINE k == [j EXCEPT !.pc = "ping", !.password = Text(w)]
  <2>1. CASE Blank(w)
    BY <1>1, <1>5, <2>1, EndTyped DEF TakeNPPassword
  <2>2. CASE ~Blank(w)
    <3>1. Text(w) \in Words
      BY <1>1, <2>2, Own
    <3>2. k \in Update
      BY <1>2, <3>1 DEF Update, PCs
    <3>3. /\ k.pc = "ping" /\ k.user = j.user /\ k.action = j.action
          /\ k.name = j.name
      BY <1>2 DEF Update
    <3>4. TypedAt(k)
      BY <1>2, <1>5, <3>3 DEF TypedAt, TakeNPPassword, At
    <3>5. Become(w, k)
      BY <1>5, <2>2 DEF TakeNPPassword
    <3> HIDE DEF k
    <3> QED
      BY <1>1, <3>2, <3>4, <3>5, BecomeTyped DEF Typed
  <2> QED
    BY <2>1, <2>2
<1>6. ASSUME NowPlaying(w) \/ ReadFilters(w) PROVE UpdatesTyped'
  <2>1. CASE NowPlaying(w)
    <3>1. CASE End(w)
      BY <1>1, <3>1, EndTyped
    <3>2. ASSUME NEW entries \in SUBSET Names,
                 Become(w, [j EXCEPT !.pc = "filters", !.entries = entries])
          PROVE  UpdatesTyped'
      <4> DEFINE k == [j EXCEPT !.pc = "filters", !.entries = entries]
      <4>1. k \in Update
        BY <1>2 DEF Update, PCs
      <4>2. k.pc = "filters" /\ k.user = j.user
        BY <1>2 DEF Update
      <4>3. TypedAt(k)
        BY <1>2, <2>1, <4>2 DEF TypedAt, NowPlaying, At
      <4> QED
        BY <1>1, <3>2, <4>1, <4>3, BecomeTyped DEF Typed
    <3> QED
      BY <2>1, <3>1, <3>2 DEF NowPlaying
  <2>2. CASE ReadFilters(w)
    <3>1. ASSUME NEW filters, NEW err \in BOOLEAN, Visible(w, filters, err)
          PROVE  UpdatesTyped'
      <4> DEFINE entries == j.entries \ filters
                 k == [j EXCEPT !.pc = "show", !.entries = entries, !.err = err]
      <4>1. k \in Update
        BY <1>2 DEF Update, PCs
      <4>2. k.pc = "show" /\ k.user = j.user
        BY <1>2 DEF Update
      <4>3. TypedAt(k)
        BY <1>2, <2>2, <4>2 DEF TypedAt, ReadFilters, At
      <4>4. Become(w, k) \/ End(w)
        BY <3>1 DEF Visible
      <4> HIDE DEF k
      <4> QED
        BY <1>1, <4>1, <4>3, <4>4, BecomeTyped, EndTyped DEF Typed
    <3> QED
      BY <2>2, <3>1 DEF ReadFilters
  <2> QED
    BY <1>6, <2>1, <2>2
<1>7. ASSUME TakeDescription(w) PROVE UpdatesTyped'
  <2>1. TypedAt([j EXCEPT !.pc = "add"])
    BY <1>2, <1>7, GotoType DEF TypedAt, TakeDescription, At, PCs
  <2> QED
    BY <1>1, <1>7, <2>1, GotoTyped DEF TakeDescription, PCs
<1> QED
  BY <1>3, <1>4, <1>5, <1>6, <1>7

LEMMA ProceedTyped ==
    ASSUME TypeInv, NEW w \in Handlers, Proceed(w)
    PROVE  UpdatesTyped'
  BY ReadingTyped, AdmissionTyped, DispatchTyped, WorkTyped DEF Proceed, TypeInv

----------------------------------------------------------------------------
(* The tables and the maps.                                                *)

MapsTyped ==
    /\ MapTo(authCache, AuthEntry)
    /\ MapTo(loginStates, LoginState)
    /\ MapTo(npFilterStates, NPFilterState)
    /\ MapTo(ticketStates, TicketState)

OutsideTyped ==
    /\ TablesTypeOK
    /\ clock \in Nat
    /\ members \subseteq Senders
    /\ buttons \subseteq [id : 1..lastID, ticket : Ticket]

LEMMA Parts == TypeInv <=> OutsideTyped /\ MapsTyped /\ UpdatesTyped
  BY DEF TypeInv, TypeOK, OutsideTyped, MapsTyped, UpdatesTyped, Typed

LEMMA QuietOutside ==
    ASSUME OutsideTyped, OnlyStates
    PROVE  OutsideTyped'
  BY DEF OnlyStates, OutsideTyped, TablesTypeOK, tablevars, telegramvars

LEMMA QuietMaps ==
    ASSUME MapsTyped, UNCHANGED statevars
    PROVE  MapsTyped'
  BY DEF MapsTyped, statevars

LEMMA QuietSteps ==
    ASSUME OnlyHandler
    PROVE  OnlyStates /\ UNCHANGED statevars
  BY DEF OnlyHandler, OnlyStates

LEMMA AddTicketTyped ==
    ASSUME OutsideTyped, NEW ticket \in Ticket, AddTicket(ticket),
           UNCHANGED telegramvars
    PROVE  OutsideTyped'
<1>1. lastID' \in 0..MaxTickets /\ lastID' = lastID + 1
  BY TablesAssumption DEF OutsideTyped, TablesTypeOK, AddTicket
<1>2. /\ DOMAIN tickets' \subseteq 1..lastID'
      /\ tickets' \in [DOMAIN tickets' -> Ticket]
  BY <1>1, TablesAssumption DEF OutsideTyped, TablesTypeOK, AddTicket, Put
<1>3. buttons' \subseteq [id : 1..lastID', ticket : Ticket]
  <2>1. 1..lastID \subseteq 1..lastID'
    BY <1>1, TablesAssumption DEF OutsideTyped, TablesTypeOK
  <2> QED
    BY <2>1 DEF OutsideTyped, telegramvars
<1> QED
  BY <1>1, <1>2, <1>3 DEF OutsideTyped, TablesTypeOK, AddTicket, telegramvars

LEMMA CloseTicketTyped ==
    ASSUME OutsideTyped, NEW id, CloseTicket(id), UNCHANGED telegramvars
    PROVE  OutsideTyped'
  BY DEF OutsideTyped, TablesTypeOK, CloseTicket, Drop, Restrict, telegramvars

LEMMA OutsideSteps ==
    ASSUME TypeInv, NEW w \in Handlers,
           Write(w) \/ SaveTicket(w) \/ Keyboard(w) \/ Close(w)
    PROVE  OutsideTyped' /\ MapsTyped'
<1>1. OutsideTyped /\ MapsTyped /\ UpdatesTyped
  BY Parts
<1>2. MapsTyped'
  <2>1. UNCHANGED statevars
    BY DEF Write, SaveTicket, Keyboard, Close
  <2> QED
    BY <1>1, <2>1, QuietMaps
<1>3. TypedAt(update[w]) /\ update[w] \in Update
  BY <1>1, Own
<1>4. CASE Write(w)
  <2>1. At(w, "write")
    BY <1>4 DEF Write
  <2>2. update[w].name \in Words
    BY <1>3, <2>1 DEF TypedAt, At
  <2>3. /\ UNCHANGED <<tickets, lastID, clock, members, buttons>>
        /\ nowplaying_filters' \subseteq nowplaying_filters \cup {update[w].name}
    BY <1>4 DEF Write, SetNowPlayingFilter, RemoveNowPlayingFilter, tablevars,
                telegramvars
  <2>4. nowplaying_filters' \subseteq Words
    BY <1>1, <2>2, <2>3 DEF OutsideTyped, TablesTypeOK
  <2> QED
    BY <1>1, <1>2, <2>3, <2>4 DEF OutsideTyped, TablesTypeOK
<1>5. CASE SaveTicket(w)
  <2> DEFINE t == [type |-> update[w].state.type, title |-> update[w].state.title,
                   author |-> Sender(w)]
  <2>1. At(w, "add")
    BY <1>5 DEF SaveTicket
  <2>2. /\ update[w].state \in TicketState
        /\ update[w].state.step = "description" /\ Sender(w) \in Senders
    BY <1>3, <2>1 DEF TypedAt, At, Sender
  <2>3. t \in Ticket
    BY <2>2, TicketTypesOf DEF Ticket
  <2>4. AddTicket(t) \/ UNCHANGED tablevars
    BY <1>5 DEF SaveTicket
  <2>5. UNCHANGED telegramvars
    BY <1>5 DEF SaveTicket
  <2> HIDE DEF t
  <2> QED
    BY <1>1, <1>2, <2>3, <2>4, <2>5, AddTicketTyped, QuietOutside DEF OnlyStates
<1>6. CASE Keyboard(w)
  <2>1. lastID \in Nat
    BY <1>1, TablesAssumption DEF OutsideTyped, TablesTypeOK
  <2>2. ListTickets \subseteq [id : 1..lastID, ticket : Ticket]
    BY <1>1, <2>1 DEF ListTickets, OutsideTyped, TablesTypeOK
  <2> QED
    BY <1>1, <1>2, <1>6, <2>2 DEF Keyboard, OutsideTyped, TablesTypeOK, tablevars
<1>7. CASE Close(w)
  BY <1>1, <1>2, <1>7, CloseTicketTyped, QuietOutside DEF Close, OnlyStates
<1> QED
  BY <1>2, <1>4, <1>5, <1>6, <1>7

LEMMA MapSteps ==
    ASSUME TypeInv, NEW w \in Handlers,
           \/ CancelLogin(w) \/ CancelNP(w) \/ AskPassword(w) \/ TakePassword(w)
           \/ TakeNPPassword(w) \/ Remember(w) \/ BeginLogin(w) \/ BeginNP(w)
           \/ Prompt(w) \/ Cleanup(w) \/ Begin(w) \/ SetTitle(w)
           \/ TakeDescription(w)
    PROVE  OutsideTyped' /\ MapsTyped'
<1> DEFINE j == update[w]
<1>1. OutsideTyped /\ MapsTyped /\ UpdatesTyped
  BY Parts
<1>2. j \in Update /\ TypedAt(j) /\ (~At(w, "idle") => Sender(w) \in Senders)
  BY <1>1, Own
<1>3. OutsideTyped'
  <2>1. OnlyStates
    BY DEF CancelLogin, CancelNP, AskPassword, TakePassword, TakeNPPassword,
           Remember, BeginLogin, BeginNP, Prompt, Cleanup, Begin, SetTitle,
           TakeDescription
  <2> QED
    BY <1>1, <2>1, QuietOutside
<1>4. CASE CancelLogin(w) \/ TakePassword(w)
  BY <1>1, <1>3, <1>4, DropType DEF CancelLogin, TakePassword, MapsTyped
<1>5. CASE CancelNP(w) \/ TakeNPPassword(w) \/ Cleanup(w)
  BY <1>1, <1>3, <1>5, DropType DEF CancelNP, TakeNPPassword, Cleanup, MapsTyped
<1>6. CASE TakeDescription(w)
  BY <1>1, <1>3, <1>6, DropType DEF TakeDescription, MapsTyped
<1>7. CASE AskPassword(w)
  <2>1. CASE Blank(w)
    BY <1>1, <1>3, <1>7, <2>1 DEF AskPassword, MapsTyped
  <2>2. CASE ~Blank(w)
    <3>1. [step |-> 2, name |-> Text(w)] \in LoginState
      BY <1>1, <2>2, Own DEF LoginState
    <3>2. Sender(w) \in Senders
      BY <1>2, <1>7 DEF AskPassword, At
    <3> QED
      BY <1>1, <1>3, <1>7, <2>2, <3>1, <3>2, PutType DEF AskPassword, MapsTyped
  <2> QED
    BY <2>1, <2>2
<1>8. CASE Remember(w)
  <2>1. [isAuth |-> j.isMember, lastCheck |-> clock] \in AuthEntry
    BY <1>1, <1>2 DEF AuthEntry, Update, OutsideTyped
  <2>2. Sender(w) \in Senders
    BY <1>2, <1>8 DEF Remember, At
  <2> QED
    BY <1>1, <1>3, <1>8, <2>1, <2>2, PutType DEF Remember, MapsTyped
<1>9. CASE BeginLogin(w)
  <2>1. [step |-> 1, name |-> NoWord] \in LoginState
    BY DEF LoginState
  <2>2. Sender(w) \in Senders
    BY <1>2, <1>9 DEF BeginLogin, At
  <2> QED
    BY <1>1, <1>3, <1>9, <2>1, <2>2, PutType DEF BeginLogin, MapsTyped
<1>10. CASE BeginNP(w)
  <2>1. j.kind \in NPCommand
    BY <1>2, <1>10 DEF BeginNP, At, TypedAt
  <2>2. [action |-> j.kind, step |-> 1, name |-> NoWord] \in NPFilterState
    BY <2>1 DEF NPFilterState
  <2>3. Sender(w) \in Senders
    BY <1>2, <1>10 DEF BeginNP, At
  <2> QED
    BY <1>1, <1>3, <1>10, <2>2, <2>3, PutType DEF BeginNP, MapsTyped
<1>11. CASE Prompt(w)
  <2>1. j.action \in NPCommand /\ j.name \in Words
    BY <1>2, <1>11 DEF Prompt, At, TypedAt
  <2>2. [action |-> j.action, step |-> 2, name |-> j.name] \in NPFilterState
    BY <2>1 DEF NPFilterState
  <2>3. Sender(w) \in Senders
    BY <1>2, <1>11 DEF Prompt, At
  <2> QED
    BY <1>1, <1>3, <1>11, <2>2, <2>3, PutType DEF Prompt, MapsTyped
<1>12. CASE Begin(w)
  <2>1. j.state \in TicketState /\ Sender(w) \in Senders
    BY <1>2, <1>12 DEF Begin, At, TypedAt
  <2> QED
    BY <1>1, <1>3, <1>12, <2>1, PutType DEF Begin, MapsTyped
<1>13. CASE SetTitle(w)
  <2>1. /\ j.state \in TicketState /\ j.state.step = "title" /\ ~Blank(w)
        /\ Sender(w) \in Senders
    BY <1>2, <1>13 DEF SetTitle, At, TypedAt, Blank
  <2>2. [j.state EXCEPT !.step = "description", !.title = Text(w)] \in TicketState
    BY <1>1, <2>1, Own, TicketTypesOf
  <2> QED
    BY <1>1, <1>3, <1>13, <2>1, <2>2, PutType DEF SetTitle, MapsTyped
<1> QED
  BY <1>4, <1>5, <1>6, <1>7, <1>8, <1>9, <1>10, <1>11, <1>12, <1>13

LEMMA ReadingSteps ==
    ASSUME TypeInv, NEW w \in Handlers,
           \/ ReadLogin(w) \/ ReadNP(w) \/ ReadTicket(w) \/ Authorize(w) \/ Ask(w)
           \/ Dispatch(w) \/ Check(w) \/ Ping(w) \/ NowPlaying(w)
           \/ ReadFilters(w) \/ Show(w) \/ Confirm(w) \/ Arrive(w)
    PROVE  OutsideTyped' /\ MapsTyped'
<1>1. OnlyHandler
  BY DEF ReadLogin, ReadNP, ReadTicket, Authorize, Ask, Dispatch, Check, Ping,
         NowPlaying, ReadFilters, Show, Confirm, Arrive, ReceiveMessage,
         PressTicketType, PressTicketDone, Receive
<1> QED
  BY <1>1, Parts, QuietSteps, QuietOutside, QuietMaps

LEMMA NextTypeInv == TypeInv /\ [Next]_vars => TypeInv'
<1> SUFFICES ASSUME TypeInv, [Next]_vars PROVE TypeInv'
  OBVIOUS
<1> USE Parts
<1>1. TypeInv' <=> OutsideTyped' /\ MapsTyped' /\ UpdatesTyped'
  BY DEF TypeInv, TypeOK, OutsideTyped, MapsTyped, UpdatesTyped, Typed
<1>2. ASSUME NEW w \in Handlers, Arrive(w) PROVE TypeInv'
  BY <1>1, <1>2, ReceiveTyped, ReadingSteps DEF TypeInv
<1>3. ASSUME NEW w \in Handlers, Proceed(w) PROVE TypeInv'
  BY <1>1, <1>3, ProceedTyped, OutsideSteps, MapSteps, ReadingSteps DEF Proceed
<1>4. CASE Environment
  <2>1. UNCHANGED update /\ UNCHANGED statevars
    BY <1>4 DEF Environment, Tick, JoinOrLeave
  <2>2. OutsideTyped'
    BY <1>4, MessagesAssumption
    DEF Environment, Tick, JoinOrLeave, OutsideTyped, TablesTypeOK, tablevars
  <2> QED
    BY <1>1, <2>1, <2>2, QuietMaps DEF UpdatesTyped
<1>5. CASE Restart
  <2>1. OnlyStates
    BY <1>5 DEF Restart, OnlyStates
  <2>2. MapsTyped'
    BY <1>5, EmptyType DEF Restart, MapsTyped
  <2>3. UpdatesTyped'
    BY <1>5, NoUpdateType DEF Restart, UpdatesTyped
  <2> QED
    BY <1>1, <2>1, <2>2, <2>3, QuietOutside
<1>6. CASE UNCHANGED vars
  <2>1. OnlyHandler /\ UNCHANGED update
    BY <1>6 DEF vars, OnlyHandler
  <2> QED
    BY <1>1, <2>1, QuietSteps, QuietOutside, QuietMaps DEF UpdatesTyped
<1> QED
  BY <1>2, <1>3, <1>4, <1>5, <1>6 DEF Next

LEMMA InitTypeInv == Init => TypeInv
<1> SUFFICES ASSUME Init PROVE TypeInv
  OBVIOUS
<1>1. OutsideTyped
  BY TablesAssumption, MessagesAssumption DEF Init, TablesInit, OutsideTyped, TablesTypeOK
<1>2. MapsTyped
  BY EmptyType DEF Init, MapsTyped
<1>3. UpdatesTyped
  BY NoUpdateType DEF Init, UpdatesTyped
<1> QED
  BY <1>1, <1>2, <1>3, Parts

\* The tables, the maps of the Bot and the locals of every handler keep their
\* types: a dialog at a step has what that step needs, and a ticket is only
\* saved with the type, title and author of one.
THEOREM TypeCorrect == Spec => []TypeOK
<1>1. TypeInv => TypeOK
  BY DEF TypeInv
<1> QED
  BY <1>1, InitTypeInv, NextTypeInv, PTL DEF Spec

----------------------------------------------------------------------------
(* A handler changes its own update only.                                  *)

\* The steps of dialogs and authorization, and those of the rest.
DialogStep(w) ==
    \/ CancelLogin(w) \/ CancelNP(w) \/ ReadLogin(w) \/ AskPassword(w)
    \/ TakePassword(w) \/ ReadNP(w) \/ TakeNPPassword(w) \/ ReadTicket(w)
    \/ Ask(w) \/ Dispatch(w) \/ BeginLogin(w) \/ BeginNP(w) \/ Check(w)
    \/ Prompt(w) \/ Cleanup(w) \/ Ping(w) \/ Write(w)

OtherStep(w) ==
    \/ NowPlaying(w) \/ Show(w) \/ Begin(w) \/ SetTitle(w)
    \/ TakeDescription(w) \/ SaveTicket(w) \/ Keyboard(w) \/ Confirm(w)

LEMMA Steps ==
    ASSUME NEW w \in Handlers, Proceed(w)
    PROVE  \/ DialogStep(w) \/ OtherStep(w)
           \/ Authorize(w) \/ Remember(w) \/ ReadFilters(w) \/ Close(w)
  BY DEF Proceed, DialogStep, OtherStep

Moves(w) ==
    /\ DOMAIN update' = Handlers
    /\ \A v \in Handlers \ {w} : update'[v] = update[v]

LEMMA BecomeMoves ==
    ASSUME DOMAIN update = Handlers, NEW w \in Handlers, NEW j, Become(w, j)
    PROVE  Moves(w) /\ update'[w] = j
  BY DEF Become, Moves

LEMMA GotoMoves ==
    ASSUME DOMAIN update = Handlers, NEW w \in Handlers, NEW pc, Goto(w, pc)
    PROVE  Moves(w) /\ update'[w] = [update[w] EXCEPT !.pc = pc]
  BY BecomeMoves DEF Goto

LEMMA EndMoves ==
    ASSUME DOMAIN update = Handlers, NEW w \in Handlers, End(w)
    PROVE  Moves(w) /\ update'[w] = NoUpdate
  BY BecomeMoves DEF End

LEMMA ReceiveMoves ==
    ASSUME DOMAIN update = Handlers, NEW w \in Handlers, NEW j, Receive(w, j)
    PROVE  Moves(w) /\ update'[w] = j
  BY BecomeMoves DEF Receive

LEMMA ArriveMoves ==
    ASSUME DOMAIN update = Handlers, NEW w \in Handlers, Arrive(w)
    PROVE  Moves(w)
  BY ReceiveMoves DEF Arrive, ReceiveMessage, PressTicketType, PressTicketDone

LEMMA DialogMoves ==
    ASSUME DOMAIN update = Handlers, NEW w \in Handlers, DialogStep(w)
    PROVE  Moves(w)
<1>1. CASE CancelLogin(w) \/ CancelNP(w) \/ AskPassword(w) \/ TakePassword(w)
  BY <1>1, GotoMoves, EndMoves DEF CancelLogin, CancelNP, AskPassword, TakePassword
<1>2. CASE ReadLogin(w)
  BY <1>2, GotoMoves, BecomeMoves DEF ReadLogin
<1>3. CASE ReadNP(w)
  BY <1>3, GotoMoves, BecomeMoves, EndMoves DEF ReadNP
<1>4. CASE TakeNPPassword(w) \/ ReadTicket(w) \/ Ask(w)
  BY <1>4, BecomeMoves, EndMoves DEF TakeNPPassword, ReadTicket, Ask
<1>5. CASE Dispatch(w)
  BY <1>5, GotoMoves, BecomeMoves, EndMoves DEF Dispatch
<1>6. CASE BeginLogin(w) \/ BeginNP(w) \/ Check(w) \/ Prompt(w) \/ Cleanup(w)
  BY <1>6, GotoMoves, EndMoves DEF BeginLogin, BeginNP, Check, Prompt, Cleanup
<1>7. CASE Ping(w) \/ Write(w)
  BY <1>7, GotoMoves, EndMoves DEF Ping, Write, Finish
<1> QED
  BY <1>1, <1>2, <1>3, <1>4, <1>5, <1>6, <1>7 DEF DialogStep

LEMMA ProceedMoves ==
    ASSUME DOMAIN update = Handlers, NEW w \in Handlers, Proceed(w)
    PROVE  Moves(w)
<1>1. CASE OtherStep(w)
  BY <1>1, GotoMoves, BecomeMoves, EndMoves
  DEF OtherStep, NowPlaying, Show, Begin, SetTitle, TakeDescription, SaveTicket,
      Keyboard, Confirm
<1>2. CASE Authorize(w) \/ Remember(w)
  BY <1>2, GotoMoves, BecomeMoves, EndMoves DEF Authorize, Remember
<1>3. CASE ReadFilters(w) \/ Close(w)
  BY <1>3, GotoMoves, BecomeMoves, EndMoves DEF ReadFilters, Visible, Close
<1> QED
  BY <1>1, <1>2, <1>3, Steps, DialogMoves
=============================================================================
