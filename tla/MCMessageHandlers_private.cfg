\* The private chat of one sender, who may send a message before the last one
\* is answered, and ask in the group who is playing.
SPECIFICATION PrivateSpec
CONSTANTS
    h1 = h1
    h2 = h2
    t1 = t1
    alice = alice
    Senders <- OneSender
    Words <- OneWord
    Names <- OneName
    Password <- NamePassword
    Handlers <- TwoHandlers
    Chats = {"private", "group"}
    Kinds = {"text", "login", "disable_np", "enable_np", "nowplaying"}
    Joiners <- OneSender
    AuthTTL = 2
    MaxClock = 2
    MaxTickets = 0
INVARIANTS
    TypeOK
PROPERTIES
    AdmittedWereMembers
    CommandsCancelLoginAndOptOut
    AnswersMoveOn
    OptOutsAreHonoured
SYMMETRY HandlerSymmetry
