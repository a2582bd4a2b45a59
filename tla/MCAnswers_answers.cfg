\* The answers of two handlers, from the query to the chat.
SPECIFICATION LiveSpec
CONSTANTS
    w1 = w1
    w2 = w2
    Callers <- TwoHandlers
    Albums = {1, 2, 3}
    Elsewhere = {3}
    Released <- ByDate
    Created <- ByAge
    Size <- ShortAndLong
    IntroSize = 1
    MaxLength = 8
    MaxCaption = 9
    Kinds <- AllAndRandom
    Limit <- UpToTwo
INVARIANTS
    TypeOK
    NobodyWritesUnderRead
    OnlyBlocksOverflow
    AnswersAreComplete
PROPERTIES
    ImplementsFolderAnswers
    AnswersEnd
