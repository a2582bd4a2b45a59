--------------------------- MODULE LibraryHistory ---------------------------
(***************************************************************************)
(* LibrarySync with history variables: what each sync could see while it   *)
(* listed the albums, whether the cache may have missed a scan, and which  *)
(* syncs did not run alone.                                                *)
(***************************************************************************)
EXTENDS LibrarySync

VARIABLES
    view,       \* goroutine -> what it could see of the server, for its list
    suspect,    \* the library changed during some sync, a page of it was not
                \* filtered, or it was found empty
    overlapped  \* the goroutines whose sync has met another one in progress

hvars == <<vars, view, suspect, overlapped>>

\* steady: neither the library changed during the list nor a page of it was
\* unfiltered.  since: when the list was complete.
NoView == [steady |-> FALSE, albums |-> {}, since |-> 0]

Syncing == {"list", "enrich", "write", "writing", "scan"}

\* A page of the list of s came from all the music folders.
Unfiltered(s) == At(s, "list") /\ sync'[s] # sync[s] /\ ~folderKnown'

Look(s) ==
    IF sync'[s].pc \notin Syncing THEN NoView
    ELSE IF sync[s].pc \notin Syncing
    THEN [steady |-> TRUE, albums |-> library \ Elsewhere, since |-> 0]
    ELSE IF At(s, "list")
    THEN [view[s] EXCEPT
             !.steady = @ /\ library' = library /\ ~Unfiltered(s),
             !.since = IF sync'[s].pc = "list" THEN 0 ELSE clock]
    ELSE view[s]

HInit ==
    /\ Init
    /\ view = [s \in Goroutines |-> NoView]
    /\ suspect = FALSE
    /\ overlapped = {}

Running == {s \in Goroutines : ~At(s, "idle")}

\* Each of the two specifications keeps the variables of its properties.
ViewNext ==
    /\ Next
    /\ view' = [s \in Goroutines |-> Look(s)]
    /\ UNCHANGED <<suspect, overlapped>>

SuspectNext ==
    /\ Next
    /\ suspect' =
          (\/ suspect
           \/ \E s \in Goroutines :
                 \/ ~At(s, "idle") /\ library' # library
                 \/ Unfiltered(s)
                 \/ At(s, "enrich") /\ sync'[s].pc = "scan")
    /\ overlapped' = {s \in Running' : s \in overlapped \/ Running' # {s}}
    /\ UNCHANGED view

ViewSpec == HInit /\ [][ViewNext]_hvars
SuspectSpec == HInit /\ [][SuspectNext]_hvars

----------------------------------------------------------------------------
\* What a sync is about to write is the folder as the server listed it, through
\* the pages, the difference with an older cache and the fetch of the details,
\* unless the server changed its mind in the middle of the list.
SyncSeesLibrary ==
    \A s \in Goroutines :
        At(s, "write") /\ view[s].steady => IDs(sync[s].albums) = view[s].albums

\* No album that is about to be written is older than the expiry, or lacks its
\* size, unless this very sync has fetched it.
WritesCurrentEntries ==
    \A s \in Goroutines : \A e \in sync[s].albums :
        At(s, "write") =>
            \/ e.fetchedAt >= view[s].since
            \/ e.sized /\ view[s].since - e.fetchedAt < ExpiryAge

\* To skip a sync changes nothing: with the status in the file equal to that of
\* the server, the cache has the albums of the folder, whatever syncs failed,
\* crashed or ran at once before, as long as none of them ran into a scan.
SkipIsTransparent ==
    [][\A s \in Goroutines :
          Skip(s) /\ ~suspect =>
             IDs(cacheFile.albums) = library \ Elsewhere]_hvars

\* When a sync that never met another one succeeds, the cache file has just
\* what it returns, or nothing that can be read, whichever writes and requests
\* failed: an older list stays in the file only when the folder was found empty.
SyncUpdatesCache ==
    [][\A s \in Goroutines \ overlapped :
          SaveScanStatus(s) /\ Readable =>
             sync[s].albums \in {cacheFile.albums, {}}]_hvars
=============================================================================
