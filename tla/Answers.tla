-------------------------------- MODULE Answers --------------------------------
(***************************************************************************)
(* The commands and buttons of internal/telegram that answer with albums:  *)
(* /search, /year, /recent, /random, the genre buttons and the             *)
(* recommendations.  A handler asks Navidrome, orders and cuts the albums, *)
(* formats them and sends one message after the other; a step is one       *)
(* request, or a step of GetMusicFolderID.                                 *)
(*                                                                         *)
(* Which albums match a request is any set of them.  The messages that     *)
(* announce an answer are left out, and those that say that there is none  *)
(* are an Intro.                                                           *)
(***************************************************************************)
EXTENDS MusicFolder, MessageText, FiniteSetsExt

CONSTANTS
    Albums,         \* as SearchAlbums orders them, by artist and name
    Elsewhere,      \* the albums of other music folders
    Released,       \* album -> getSortableDate
    Created,        \* album -> when it was added
    Kinds,          \* bound: handler -> what it is asked for
    Limit,          \* kind -> how many albums are shown at most
    MaxCaption      \* 1024 in the code

AnswerKinds == {"search", "year", "recent", "random", "genre", "rec"}

ASSUME AnswersAssumption ==
    /\ Albums \subseteq Nat /\ IsFiniteSet(Albums)
    /\ Elsewhere \subseteq Albums
    /\ Released \in [Albums -> Nat] /\ Created \in [Albums -> Nat]
    /\ Size \in [Albums -> Nat \ {0}]
    /\ Kinds \in [Callers -> SUBSET AnswerKinds]
    /\ Limit \in [AnswerKinds -> Nat \ {0}]
    /\ MaxLength \in Nat /\ MaxCaption \in Nat
    /\ IntroSize \in 1 .. MaxLength - Separator

VARIABLE
    answer          \* handler -> the request that it answers, with its locals

vars == <<foldervars, answer>>

AnswerPCs == {"idle", "query", "folder", "photo", "media", "send", "done"}

\* matches: the albums that Navidrome found.  albums: those to show, on a photo
\* or below photos.  told: those that the chat shows, unless a message is lost.
NoAnswer == [pc |-> "idle", kind |-> "none", matches |-> {}, albums |-> <<>>,
             chunks |-> <<>>, told |-> <<>>, lost |-> FALSE]

TypeOK ==
    /\ FolderTypeOK
    /\ \A w \in Callers :
          /\ answer[w].pc \in AnswerPCs
          /\ answer[w].kind \in Kinds[w] \cup {"none"}
          /\ answer[w].matches \subseteq Albums
          /\ answer[w].albums \in Seq(Albums)
          /\ \A i \in DOMAIN answer[w].chunks :
                answer[w].chunks[i] \in Seq([shows : Seq(Albums), length : Nat])
          /\ answer[w].told \in Seq(Albums)
          /\ answer[w].lost \in BOOLEAN
          /\ answer[w].pc = "folder" <=> call[w] # "none"
          /\ answer[w].pc = "send" <=> answer[w].chunks # <<>>
          /\ answer[w].pc \in {"photo", "media"} <=> answer[w].albums # <<>>

Init ==
    /\ FolderInit
    /\ answer = [w \in Callers |-> NoAnswer]

At(w, pc) == answer[w].pc = pc
Become(w, r) == answer' = [answer EXCEPT ![w] = r]
Goto(w, pc) == Become(w, [answer[w] EXCEPT !.pc = pc])
End(w) == Become(w, NoAnswer)

----------------------------------------------------------------------------
(* The orders in which albums are shown.                                   *)

Ordered(albums, before(_, _)) ==
    \A i, j \in DOMAIN albums : i < j => ~before(albums[j], albums[i])

Shuffled(S) == SetToSeqs(S)
AnyOf(S, limit) == kSubset(Min({limit, Cardinality(S)}), S)
FirstOf(albums, limit) == SubSeq(albums, 1, Min({limit, Len(albums)}))

\* sort.Slice leaves what is equal in any order.
Sorted(S, before(_, _)) == {s \in Shuffled(S) : Ordered(s, before)}

Earlier(a, b) == Released[a] < Released[b]
Newer(a, b) == Created[a] > Created[b]

\* SearchAlbums: sorted by name, and then cut.
SearchAlbums(matches, limit) == {FirstOf(s, limit) : s \in Sorted(matches, <)}

\* GetAlbumsByYear: any of them, sorted by date.
GetAlbumsByYear(matches, limit) ==
    UNION {Sorted(S, Earlier) : S \in AnyOf(matches, limit)}

\* handleRecent: the newest of those that GetNewAlbums finds.
Recent(matches, limit) == {FirstOf(s, limit) : s \in Sorted(matches, Newer)}

\* A genre button: any of them.
Random(matches, limit) == UNION {Shuffled(S) : S \in AnyOf(matches, limit)}

Answering(kind, matches) ==
    CASE kind = "search" -> SearchAlbums(matches, Limit[kind])
      [] kind = "year" -> GetAlbumsByYear(matches, Limit[kind])
      [] kind = "recent" -> Recent(matches, Limit[kind])
      [] OTHER -> Random(matches, Limit[kind])

----------------------------------------------------------------------------
(* Steps of a handler.                                                     *)

FromServer == {"random", "genre"}

\* /random and the genre buttons ask the server for albums of the folder; the
\* others look at the library, or at the favourites of a user.
Receive(w) ==
    /\ At(w, "idle")
    /\ \E kind \in Kinds[w] :
          IF kind \in FromServer
          THEN /\ CallFolder(w)
               /\ Become(w, [NoAnswer EXCEPT !.pc = "folder", !.kind = kind])
          ELSE /\ Become(w, [NoAnswer EXCEPT !.pc = "query", !.kind = kind])
               /\ UNCHANGED foldervars

Send(w, r, text) ==
    Become(w, [r EXCEPT !.pc = "send", !.chunks = SplitMessage(text)])

\* An error, or no albums.
SendNone(w) == Send(w, answer[w], <<Intro>>)

\* Mutant: nobody looks whether there is any album.
ShowUnchecked(w, matches, albums) ==
    LET r == [answer[w] EXCEPT !.matches = matches]
        withPhotos == [r EXCEPT !.albums = albums]
    IN  CASE r.kind = "search" -> Send(w, r, FormatResults(albums))
          [] r.kind \in {"year", "recent", "genre"} ->
                Send(w, r, FormatAlbumList(albums))
          [] r.kind = "random" -> Become(w, [withPhotos EXCEPT !.pc = "photo"])
          [] r.kind = "rec" -> Become(w, [withPhotos EXCEPT !.pc = "media"])

\* Covers and photos come before the text that they may replace.
Show(w, matches, albums) ==
    LET r == [answer[w] EXCEPT !.matches = matches]
        withPhotos == [r EXCEPT !.albums = albums]
    IN  CASE albums = <<>> -> SendNone(w)
          [] albums # <<>> /\ r.kind = "search" ->
                Send(w, r, FormatResults(albums))
          [] albums # <<>> /\ r.kind \in {"year", "recent", "genre"} ->
                Send(w, r, FormatAlbumList(albums))
          [] albums # <<>> /\ r.kind = "random" ->
                Become(w, [withPhotos EXCEPT !.pc = "photo"])
          [] albums # <<>> /\ r.kind = "rec" ->
                Become(w, [withPhotos EXCEPT !.pc = "media"])

Query(w) ==
    /\ At(w, "query")
    /\ \/ SendNone(w)
       \/ \E matches \in SUBSET Albums :
             \E albums \in Answering(answer[w].kind, matches) :
                Show(w, matches, albums)
    /\ UNCHANGED foldervars

\* GetRandomAlbum and GetAlbumsByGenre: with the ID of the folder, the server
\* lists the albums of that folder.
List(w) ==
    /\ At(w, "folder")
    /\ ReturnFolder(w)
    /\ \/ SendNone(w)
       \/ \E matches \in SUBSET (IF Calls(w, "known") THEN Albums \ Elsewhere
                                                      ELSE Albums) :
             \E albums \in Answering(answer[w].kind, matches) :
                Show(w, matches, albums)

\* A message that shows these albums was sent.
Tell(r, albums) ==
    [r EXCEPT !.told = IF r.lost THEN @ ELSE @ \o albums, !.albums = <<>>]

\* It was not sent, or refused.
Lose(r) == [r EXCEPT !.lost = TRUE, !.told = <<>>, !.albums = <<>>]

Finish(w, r) == Become(w, [r EXCEPT !.pc = "done"])

\* handleRandom: the photo with its caption, or else the text.
SendPhoto(w) ==
    LET r == answer[w]
    IN  /\ At(w, "photo")
        /\ \/ Finish(w, Tell(r, r.albums))
           \/ Send(w, [r EXCEPT !.albums = <<>>], FormatSuggestion(r.albums))
        /\ UNCHANGED foldervars

\* sendMediaOrText: one group with a caption when there is any cover.  A caption
\* that is too long is cut, and a group that fails is not sent as a text.
SendMedia(w) ==
    LET r == answer[w]
        caption == FormatRecommendations(r.albums)
    IN  /\ At(w, "media")
        /\ \/ Length(caption) <= MaxCaption /\ Finish(w, Tell(r, r.albums))
           \/ Finish(w, Lose(r))
           \/ Send(w, [r EXCEPT !.albums = <<>>], caption)
        /\ UNCHANGED foldervars

\* SendMessage: a chunk that cannot be sent does not stop the next one, and
\* Telegram refuses one that is too long.
SendChunk(w) ==
    LET chunk == Head(answer[w].chunks)
        r == [answer[w] EXCEPT !.chunks = Tail(@)]
        next(told) == IF r.chunks = <<>> THEN Finish(w, told)
                      ELSE Become(w, told)
    IN  /\ At(w, "send")
        /\ \/ Length(chunk) <= MaxLength /\ next(Tell(r, Shows(chunk)))
           \/ next(Lose(r))
        /\ UNCHANGED foldervars

Done(w) ==
    /\ At(w, "done")
    /\ End(w)
    /\ UNCHANGED foldervars

----------------------------------------------------------------------------
Restart ==
    /\ FolderRestart
    /\ answer' = [w \in Callers |-> NoAnswer]

InFolder(w) == AskFolder(w) /\ UNCHANGED answer

Proceed(w) ==
    \/ InFolder(w)
    \/ Query(w)
    \/ List(w)
    \/ SendPhoto(w)
    \/ SendMedia(w)
    \/ SendChunk(w)
    \/ Done(w)

Next ==
    \/ \E w \in Callers : Receive(w) \/ Proceed(w)
    \/ Restart

Spec == Init /\ [][Next]_vars

\* Every request has a timeout, and sync.RWMutex starves nobody who waits.
LiveSpec ==
    /\ Spec
    /\ \A w \in Callers :
          /\ WF_vars(Proceed(w))
          /\ SF_vars(RLock(w) /\ UNCHANGED answer)
          /\ SF_vars(Lock(w) /\ UNCHANGED answer)

----------------------------------------------------------------------------
(* Properties.                                                             *)

\* What was asked for, told from the albums that match.
IsAnswer(kind, matches, shown) ==
    LET rest == matches \ Range(shown)
    IN  /\ Range(shown) \subseteq matches /\ IsInjective(shown)
        /\ Len(shown) = Min({Limit[kind], Cardinality(matches)})
        /\ kind = "search" =>
              /\ \A i, j \in DOMAIN shown : i < j => shown[i] < shown[j]
              /\ \A a \in Range(shown), b \in rest : a < b
        /\ kind = "year" => Ordered(shown, Earlier)
        /\ kind = "recent" =>
              /\ Ordered(shown, Newer)
              /\ \A a \in Range(shown), b \in rest : Created[a] >= Created[b]

\* When none of its messages is lost, the chat shows just what was asked for,
\* in order and up to the limit: neither the order in which a query sorts and
\* cuts, nor the cut into chunks, nor the detour over photos loses or repeats an
\* album.
AnswersAreComplete ==
    \A w \in Callers :
        LET r == answer[w]
        IN  At(w, "done") /\ ~r.lost => IsAnswer(r.kind, r.matches, r.told)

\* A message over the limit is one block that is over it alone.
OnlyBlocksOverflow ==
    \A w \in Callers : \A chunk \in Range(answer[w].chunks) :
        Length(chunk) > MaxLength => Len(chunk) = 1

\* Everybody gets an answer, or an error, however the handlers wait for each
\* other to learn the ID of the folder.
AnswersEnd == \A w \in Callers : ~At(w, "idle") ~> At(w, "idle")

----------------------------------------------------------------------------
\* What a comment of the code says, and the code does not do.  "SplitMessage
\* splits a message into chunks that fit within Telegram's character limit"
\* (formatter.go): no chunk that is to be sent is over the limit.
MessagesFit ==
    \A w \in Callers : \A chunk \in Range(answer[w].chunks) :
        Length(chunk) <= MaxLength
=============================================================================
