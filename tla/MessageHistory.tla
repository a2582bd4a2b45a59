---------------------------- MODULE MessageHistory ----------------------------
(***************************************************************************)
(* MessageHandlers with history variables: which updates met another one,  *)
(* when a sender was in the group, who has been opted out since a request  *)
(* arrived, which titles were asked for, and how often a ticket was        *)
(* reported as closed.                                                     *)
(***************************************************************************)
EXTENDS MessageHandlers

VARIABLES
    crowded,    \* the handlers whose update met another one of its sender
    lastMember, \* sender -> the last instant in the group
    optedOut,   \* handler -> who was opted out of /nowplaying ever since that
                \* request arrived
    asked,      \* the titles that were read as an answer, as tickets
    confirmed   \* id -> the number of reports that it was closed

privatevars == <<crowded, lastMember, optedOut>>
ticketvars == <<asked, confirmed>>
hvars == <<vars, privatevars, ticketvars>>

LongAgo == -AuthTTL

HInit ==
    /\ Init
    /\ crowded = {}
    /\ lastMember = [u \in Senders |-> IF u \in members THEN clock ELSE LongAgo]
    /\ optedOut = [w \in Handlers |-> {}]
    /\ asked = {}
    /\ confirmed = [id \in 1..MaxTickets |-> 0]

Busy(w) == ~At(w, "idle")

Meets(w) == \E v \in Handlers \ {w} : Busy(v) /\ Sender(v) = Sender(w)

\* Each of the two specifications keeps some of the variables.
PrivateNext ==
    /\ Next
    /\ crowded' = {w \in Handlers : Busy(w)' /\ (w \in crowded \/ Meets(w)')}
    /\ lastMember' = [u \in Senders |->
                         IF u \in members' THEN clock'
                         ELSE IF u \in members THEN clock
                         ELSE lastMember[u]]
    /\ optedOut' = [w \in Handlers |->
                       IF update'[w].kind # "nowplaying" THEN {}
                       ELSE IF At(w, "idle") THEN nowplaying_filters
                       ELSE optedOut[w] \cap nowplaying_filters']
    /\ UNCHANGED ticketvars

ReadsTitle(w) == ReadTicket(w) /\ update'[w].state.step = "title" /\ ~Blank(w)

Answer(w) == [type |-> update'[w].state.type, title |-> Text(w),
              author |-> Sender(w)]

TicketNext ==
    /\ Next
    /\ asked' = asked \cup {Answer(w) : w \in {v \in Handlers : ReadsTitle(v)}}
    /\ confirmed' = [id \in 1..MaxTickets |->
                        confirmed[id] +
                        Cardinality({w \in Handlers :
                                        Confirm(w) /\ update[w].id = id})]
    /\ UNCHANGED privatevars

PrivateSpec == HInit /\ [][PrivateNext]_hvars
TicketSpec == HInit /\ [][TicketNext]_hvars

----------------------------------------------------------------------------
Ends(w) == Busy(w) /\ update'[w].pc = "idle"

\* A sender admitted in private was in the group within the last hour, however
\* the membership, its cache and the requests of one sender interleave.
AdmittedWereMembers ==
    [][\A w \in Handlers :
          /\ update[w].chat = "private"
          /\ update[w].pc \in {"authorize", "remember"}
          /\ update'[w].pc = "dispatch"
          => clock - lastMember[Sender(w)] < AuthTTL]_hvars

\* A command that meets no other update of its sender leaves that one neither in a
\* login nor in an opt-out, but the one that it begins ("clear interactive states
\* so they never get trapped"), whatever the sender was trapped in by earlier
\* updates. It says nothing of a ticket: a command leaves ticketStates alone
\* (handlers.go:34), and the next text is taken for what the ticket asks for.
CommandsCancelLoginAndOptOut ==
    [][\A w \in Handlers \ crowded :
          LET j == update[w]
          IN  Ends(w) /\ j.chat = "private" /\ j.kind \in Command
              => /\ j.user \in DOMAIN loginStates' => j.kind = "login"
                 /\ j.user \in DOMAIN npFilterStates' =>
                       npFilterStates'[j.user].action = j.kind]_hvars

\* An answer that meets no other update of its sender is never asked for again: it
\* takes the dialog to the password, or out of it, on every path of errors and
\* refusals. A sender in two dialogs at once, which takes two updates that met,
\* answers the first of them.
AnswersMoveOn ==
    [][\A w \in Handlers \ crowded :
          LET j == update[w]
          IN  /\ Ends(w) /\ j.chat = "private" /\ j.kind = "text" /\ ~Blank(w)
              /\ j.user \notin DOMAIN loginStates \cap DOMAIN npFilterStates
              => /\ j.user \in DOMAIN loginStates' =>
                       loginStates'[j.user].step = 2
                 /\ j.user \in DOMAIN npFilterStates' =>
                       npFilterStates'[j.user].step = 2]_hvars

\* /nowplaying shows nobody who was opted out since before it was asked for, and
\* has remained so until the answer: but for an error of the database, an opt-out
\* holds from the moment that it is confirmed, however requests, opt-outs and
\* restarts interleave.
OptOutsAreHonoured ==
    [][\A w \in Handlers :
          Show(w) /\ ~update[w].err =>
             update[w].entries \cap optedOut[w] = {}]_hvars

\* The title of a ticket was the answer to the question for this very type,
\* also when the sender begins another ticket meanwhile.
TicketsOfOneDialog ==
    \A id \in DOMAIN tickets : tickets[id] \in asked

\* Of all the handlers that close a ticket, one at most reports it closed, and
\* it is closed then.
ClosedOnce ==
    \A id \in 1..MaxTickets :
        /\ confirmed[id] <= 1
        /\ confirmed[id] = 1 => id \notin DOMAIN tickets
=============================================================================
