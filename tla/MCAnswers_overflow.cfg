\* The results of one /search, which are one block.
SPECIFICATION Spec
CONSTANTS
    w1 = w1
    w2 = w2
    Callers <- OneHandler
    Albums = {1, 2, 3}
    Elsewhere = {3}
    Released <- ByDate
    Created <- ByAge
    Size <- AllShort
    IntroSize = 1
    MaxLength = 8
    MaxCaption = 8
    Kinds <- OnlySearch
    Limit <- UpToTwo
INVARIANTS
    MessagesFit
