------------------------------ MODULE MessageText ------------------------------
(***************************************************************************)
(* The texts of internal/telegram/formatter.go, and how they are cut into  *)
(* the messages that Telegram takes.                                       *)
(*                                                                         *)
(* A text is the sequence of its blocks, which are what an empty line      *)
(* separates: strings.Split(text, "\n\n").  Of a block only its length and *)
(* the albums that it shows are kept.  The empty block is what follows a   *)
(* separator at the end.                                                   *)
(***************************************************************************)
EXTENDS Integers, SequencesExt

CONSTANTS
    Size,           \* album -> the length of its lines
    IntroSize,      \* the length of a heading
    MaxLength       \* 4096 in the code

Block(shows, length) == [shows |-> shows, length |-> length]
EmptyBlock == Block(<<>>, 0)
Intro == Block(<<>>, IntroSize)
Separator == 2

SumOf(lengths) == FoldLeft(LAMBDA sum, n : sum + n, 0, lengths)
Lengths(text) == [i \in DOMAIN text |-> text[i].length]
Length(text) == SumOf(Lengths(text)) + Separator * (Len(text) - 1)
Shows(text) == FlattenSeq([i \in DOMAIN text |-> text[i].shows])

----------------------------------------------------------------------------
\* A block for each album, under a heading.
FormatAlbumList(albums) ==
    IF albums = <<>> THEN <<>>
    ELSE <<Intro>> \o [i \in DOMAIN albums |-> Block(<<albums[i]>>, Size[albums[i]])]
                   \o <<EmptyBlock>>

\* performSearch: a line for each album, which makes one block of all.
FormatResults(albums) ==
    LET sizes == [i \in DOMAIN albums |-> Size[albums[i]]]
    IN  <<Intro, Block(albums, SumOf(sizes) + Len(albums))>>

\* formatAndSendRecommendations, and the caption of handleRandom: lines as well,
\* but for the newline at the end.
FormatRecommendations(items) == FormatResults(items)
FormatSuggestion(albums) == FormatResults(albums)

\* album[:maxLength] panics when the block is shorter than that, which a block too
\* long for an empty chunk is when only its separator does not fit.
OutOfRange == EmptyBlock

\* What is left of a block that is too long for an empty chunk.  No text begins
\* with such a block: all of them have a heading.
ForceSplit(block) ==
    IF block.length >= MaxLength THEN Block(<<>>, MaxLength) ELSE OutOfRange

\* Mutant: the block that opens a new chunk is dropped.
AddBlockForgetting(split, block) ==
    LET testChunk == Append(split.current, block)
    IN  CASE block.length = 0 -> split
          [] block.length > 0 /\ Length(testChunk) + Separator <= MaxLength ->
                [split EXCEPT !.current = testChunk]
          [] OTHER -> [chunks |-> Append(split.chunks, split.current),
                       current |-> <<>>]

\* Mutant: what the chunk holds already is not counted.
AddBlockUncounted(split, block) ==
    LET fits == block.length + Separator <= MaxLength
    IN  CASE block.length = 0 -> split
          [] block.length > 0 /\ fits ->
                [split EXCEPT !.current = Append(@, block)]
          [] OTHER -> [chunks |-> Append(split.chunks, split.current),
                       current |-> <<block>>]

\* The loop of SplitMessage.  A block that does not fit opens a new chunk, as
\* it is; only in front of all the chunks it is cut.
AddBlock(split, block) ==
    LET testChunk == Append(split.current, block)
        fits == Length(testChunk) + Separator <= MaxLength
    IN  CASE block.length = 0 -> split
          [] block.length > 0 /\ fits -> [split EXCEPT !.current = testChunk]
          [] block.length > 0 /\ ~fits /\ split.current # <<>> ->
                [chunks |-> Append(split.chunks, split.current),
                 current |-> <<block>>]
          [] OTHER -> [split EXCEPT !.chunks = Append(@, <<ForceSplit(block)>>)]

SplitMessage(text) ==
    LET split == FoldLeft(AddBlock, [chunks |-> <<>>, current |-> <<>>], text)
    IN  IF Length(text) <= MaxLength THEN <<text>>
        ELSE IF split.current = <<>> THEN split.chunks
        ELSE Append(split.chunks, split.current)
=============================================================================
