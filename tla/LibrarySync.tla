----------------------------- MODULE LibrarySync -----------------------------
(***************************************************************************)
(* LibrarySync of internal/navidrome/sync.go: the album list kept in a     *)
(* cache file, and the scan status of the server in another, by which a    *)
(* sync that would find nothing new is skipped.                            *)
(*                                                                         *)
(* The daily job and the handlers of /search, /recent, /stats, /year and   *)
(* /nowplaying all call it, each in a goroutine of its own and without a   *)
(* lock.  A goroutine takes one step per HTTP request (a page of the list  *)
(* comes with the folder ID that filters it) and per access to a file;     *)
(* os.WriteFile is two steps, as it truncates the file before it writes.   *)
(*                                                                         *)
(* An album stands for one that has songs: it lacks its size exactly when  *)
(* its details could not be fetched.                                       *)
(***************************************************************************)
EXTENDS Integers, FiniteSetsExt

CONSTANTS
    Albums,         \* album IDs, ordered as alphabeticalByArtist
    Elsewhere,      \* the albums of other music folders
    Goroutines,     \* that run LibrarySync at a time
    Forces,         \* bound: the values of force
    PageSize,       \* 500 in the code
    CheckCount,     \* 20 in the code
    ExpiryAge,      \* 7 days in the code
    MaxClock,       \* bound: the last instant
    MaxScans        \* bound: the number of scans

ASSUME LibraryAssumption ==
    /\ Albums \subseteq Nat /\ IsFiniteSet(Albums)
    /\ Elsewhere \subseteq Albums
    /\ Forces \subseteq BOOLEAN
    /\ PageSize \in Nat \ {0}
    /\ CheckCount \in Nat
    /\ ExpiryAge \in Nat
    /\ MaxClock \in Nat
    /\ MaxScans \in Nat

VARIABLES
    clock,          \* wall-clock time
    library,        \* server: the albums it has
    scanning,       \* server: a scan is in progress
    lastScan,       \* server: the number of the last completed scan
    folderKnown,    \* client: musicFolderID is cached
    cacheFile,
    metaFile,       \* the status in the file; ZeroStatus without a readable file
    sync            \* goroutine -> its call of LibrarySync, with its locals

servervars == <<clock, library, scanning, lastScan>>
filevars == <<cacheFile, metaFile>>
vars == <<servervars, folderKnown, filevars, sync>>

ScanStatus == [count : Nat, lastScan : Nat]
ZeroStatus == [count |-> 0, lastScan |-> 0]

\* A list of albums, in the file or in memory, is the set of its entries.
Entry == [id : Albums, fetchedAt : Nat, sized : BOOLEAN]
IDs(albums) == {e.id : e \in albums}

\* "empty": truncated, not written yet.  "garbled": not JSON.
CacheFile == [content : {"missing", "empty", "garbled", "whole"},
              albums : SUBSET Entry]
Unreadable(content) == [content |-> content, albums |-> {}]
Whole(albums) == [content |-> "whole", albums |-> albums]

PCs == {"idle", "status", "meta", "cache", "save", "load", "list", "enrich",
        "write", "writing", "scan"}

SyncRecord == [pc : PCs,
               status : ScanStatus,
               saved : ScanStatus,
               albums : SUBSET Entry,   \* cachedAlbums, then finalLibrary
               offset : Nat,
               currentIDs : SUBSET Albums,
               idsToFetch : SUBSET Albums]

Sync == {r \in SyncRecord : /\ r.offset # 0 => r.pc = "list"
                            /\ r.currentIDs # {} => r.pc = "list"
                            /\ r.idsToFetch # {} => r.pc = "enrich"}

NoSync == [pc |-> "idle", status |-> ZeroStatus, saved |-> ZeroStatus,
           albums |-> {}, offset |-> 0, currentIDs |-> {},
           idsToFetch |-> {}]

TypeOK ==
    /\ clock \in Nat /\ lastScan \in Nat
    /\ library \subseteq Albums
    /\ scanning \in BOOLEAN /\ folderKnown \in BOOLEAN
    /\ cacheFile \in CacheFile
    /\ metaFile \in ScanStatus
    /\ sync \in [Goroutines -> Sync]

\* A first start: the server has been scanned, and there are no files.
Init ==
    /\ clock = 0
    /\ library \in SUBSET Albums
    /\ scanning = FALSE
    /\ lastScan = 1
    /\ folderKnown = FALSE
    /\ cacheFile = Unreadable("missing")
    /\ metaFile = ZeroStatus
    /\ sync = [s \in Goroutines |-> NoSync]

----------------------------------------------------------------------------
(* The server: a scan finds albums, and misses others, while it runs.      *)

Status == [count |-> Cardinality(library), lastScan |-> lastScan]

\* With the ID of the folder, the server lists the albums of that folder.
Listed(filtered) == IF filtered THEN library \ Elsewhere ELSE library

Page(albums, offset) ==
    LET rank(a) == Cardinality({b \in albums : b <= a})
    IN  {a \in albums : rank(a) \in offset + 1 .. offset + PageSize}

Tick ==
    /\ clock < MaxClock
    /\ clock' = clock + 1
    /\ UNCHANGED <<library, scanning, lastScan>>

BeginScan ==
    /\ ~scanning /\ lastScan <= MaxScans
    /\ scanning' = TRUE
    /\ UNCHANGED <<clock, library, lastScan>>

Discover ==
    /\ scanning
    /\ library' \in SUBSET Albums
    /\ UNCHANGED <<clock, scanning, lastScan>>

EndScan ==
    /\ scanning
    /\ scanning' = FALSE
    /\ lastScan' = lastScan + 1
    /\ UNCHANGED <<clock, library>>

----------------------------------------------------------------------------
(* Steps of a goroutine.                                                   *)

At(s, pc) == sync[s].pc = pc
Become(s, r) == sync' = [sync EXCEPT ![s] = r]
Goto(s, pc) == Become(s, [sync[s] EXCEPT !.pc = pc])
Return(s) == Become(s, NoSync)

\* A forced sync looks neither at the status nor at the cache.
Start(s) ==
    /\ At(s, "idle")
    /\ \E force \in Forces : Goto(s, IF force THEN "list" ELSE "status")
    /\ UNCHANGED <<servervars, folderKnown, filevars>>

\* An error, or a scan in progress, leaves the optimization out.
CheckScanStatus(s) ==
    /\ At(s, "status")
    /\ \/ /\ ~scanning
          /\ Become(s, [sync[s] EXCEPT !.pc = "meta", !.status = Status])
       \/ Goto(s, "load")
    /\ UNCHANGED <<servervars, folderKnown, filevars>>

\* Mutant: the status to save is the one of the server.
ReadMetaForCurrent(s) ==
    /\ At(s, "meta")
    /\ LET r == sync[s]
           next == IF metaFile = r.status THEN "cache" ELSE "save"
       IN  Become(s, [r EXCEPT !.pc = next, !.saved = r.status,
                               !.status = ZeroStatus])
    /\ UNCHANGED <<servervars, folderKnown, filevars>>

ReadMeta(s) ==
    /\ At(s, "meta")
    /\ LET next == IF metaFile = sync[s].status THEN "cache" ELSE "save"
       IN  Become(s, [sync[s] EXCEPT !.pc = next, !.saved = metaFile,
                                     !.status = ZeroStatus])
    /\ UNCHANGED <<servervars, folderKnown, filevars>>

\* The order of the file is that of a map: any entries may be the first ones.
FirstOnes(albums) == kSubset(Min({CheckCount, Cardinality(albums)}), albums)

Readable == cacheFile.content = "whole"

\* The sync is skipped, and the cache is the result.
Skip(s) ==
    /\ At(s, "cache")
    /\ Readable
    /\ \E first \in FirstOnes(cacheFile.albums) :
          \A e \in first : e.sized
    /\ Return(s)
    /\ UNCHANGED <<servervars, folderKnown, filevars>>

\* The cache cannot be read, or lacks sizes.
NeedsMigration(s) ==
    /\ At(s, "cache")
    /\ Readable =>
          \E first \in FirstOnes(cacheFile.albums) :
             \E e \in first : ~e.sized
    /\ Goto(s, "save")
    /\ UNCHANGED <<servervars, folderKnown, filevars>>

\* A write that fails, before or after it truncated the file, goes unnoticed.
WriteMeta(status) == metaFile' \in {status, metaFile, ZeroStatus}

\* What is saved is the status that was read from the file.
SaveStatus(s) ==
    /\ At(s, "save")
    /\ WriteMeta(sync[s].saved)
    /\ Become(s, [sync[s] EXCEPT !.pc = "load", !.saved = ZeroStatus])
    /\ UNCHANGED <<servervars, folderKnown, cacheFile>>

Load(s) ==
    /\ At(s, "load")
    /\ LET cached == IF Readable THEN cacheFile.albums ELSE {}
       IN  Become(s, [sync[s] EXCEPT !.pc = "list", !.albums = cached])
    /\ UNCHANGED <<servervars, folderKnown, filevars>>

\* Mutant: an entry without its size may stay.
ExpiredByAge(entry) == clock - entry.fetchedAt >= ExpiryAge

Expired(entry) == clock - entry.fetchedAt >= ExpiryAge \/ ~entry.sized

\* newIDs, deletedIDs and expiredIDs, once the list is complete.
Diff(r) ==
    LET newIDs == r.currentIDs \ IDs(r.albums)
        deletedIDs == IDs(r.albums) \ r.currentIDs
        expiredIDs == IDs({e \in r.albums : Expired(e)}) \ deletedIDs
    IN  [r EXCEPT !.pc = "enrich",
                  !.albums = {e \in @ : e.id \notin deletedIDs \cup expiredIDs},
                  !.currentIDs = {},
                  !.offset = 0,
                  !.idsToFetch = newIDs \cup expiredIDs]

\* Mutant: an album falls between two pages.
AddPageSkipping(r, page) ==
    [r EXCEPT !.currentIDs = @ \cup page, !.offset = @ + PageSize + 1]

\* The next offset, whatever the page held.
AddPage(r, page) == [r EXCEPT !.currentIDs = @ \cup page, !.offset = @ + PageSize]

\* One page.  Without the folder ID the page is not filtered; an error of the
\* request ends the sync.
ListPage(s) ==
    /\ At(s, "list")
    /\ \E filtered \in {TRUE, folderKnown} :
          LET page == Page(Listed(filtered), sync[s].offset)
          IN  /\ folderKnown' = filtered
              /\ \/ page # {} /\ Become(s, AddPage(sync[s], page))
                 \/ page = {} /\ Become(s, Diff(sync[s]))
                 \/ Return(s)
    /\ UNCHANGED <<servervars, filevars>>

\* The details of one album, in any order; without them, the album as listed.
FetchAlbumDetails(s) ==
    LET r == sync[s]
    IN  /\ At(s, "enrich")
        /\ \E a \in r.idsToFetch, sized \in BOOLEAN :
              /\ sized => a \in library
              /\ Become(s, [r EXCEPT
                    !.albums = @ \cup {[id |-> a, fetchedAt |-> clock,
                                        sized |-> sized]},
                    !.idsToFetch = @ \ {a}])
        /\ UNCHANGED <<servervars, folderKnown, filevars>>

\* Mutant: it does not wait for the workers that fetch the details.
ReconstructEarly(s) ==
    /\ At(s, "enrich")
    /\ Goto(s, IF sync[s].albums = {} THEN "scan" ELSE "write")
    /\ UNCHANGED <<servervars, folderKnown, filevars>>

\* An empty library is not written.
Reconstruct(s) ==
    /\ At(s, "enrich")
    /\ sync[s].idsToFetch = {}
    /\ Goto(s, IF sync[s].albums = {} THEN "scan" ELSE "write")
    /\ UNCHANGED <<servervars, folderKnown, filevars>>

\* Mutant: a file that cannot be opened does not end the sync.
TruncateIgnored(s) ==
    /\ At(s, "write")
    /\ \/ cacheFile' = Unreadable("empty") /\ Goto(s, "writing")
       \/ Goto(s, "scan") /\ UNCHANGED cacheFile
    /\ UNCHANGED <<servervars, folderKnown, metaFile>>

\* os.WriteFile opens the file, or fails.
Truncate(s) ==
    /\ At(s, "write")
    /\ \/ cacheFile' = Unreadable("empty") /\ Goto(s, "writing")
       \/ Return(s) /\ UNCHANGED cacheFile
    /\ UNCHANGED <<servervars, folderKnown, metaFile>>

\* A file that another goroutine has written in between keeps its tail if it
\* is the longer one.  A write cut short ends the sync.
WriteCache(s) ==
    /\ At(s, "writing")
    /\ \/ cacheFile' = Whole(sync[s].albums) /\ Goto(s, "scan")
       \/ /\ cacheFile.content # "empty"
          /\ cacheFile' = Unreadable("garbled") /\ Goto(s, "scan")
       \/ cacheFile' = Unreadable("garbled") /\ Return(s)
    /\ UNCHANGED <<servervars, folderKnown, metaFile>>

\* Whether a scan is in progress or not; unless the request fails.
SaveScanStatus(s) ==
    /\ At(s, "scan")
    /\ WriteMeta(Status)
    /\ Return(s)
    /\ UNCHANGED <<servervars, folderKnown, cacheFile>>

----------------------------------------------------------------------------
\* The process dies at any point, and starts again with the files it left.
Restart ==
    /\ sync' = [s \in Goroutines |-> NoSync]
    /\ folderKnown' = FALSE
    /\ UNCHANGED <<servervars, filevars>>

Proceed(s) ==
    \/ CheckScanStatus(s)
    \/ ReadMeta(s)
    \/ Skip(s)
    \/ NeedsMigration(s)
    \/ SaveStatus(s)
    \/ Load(s)
    \/ ListPage(s)
    \/ FetchAlbumDetails(s)
    \/ Reconstruct(s)
    \/ Truncate(s)
    \/ WriteCache(s)
    \/ SaveScanStatus(s)

ServerNext ==
    /\ Tick \/ BeginScan \/ Discover \/ EndScan
    /\ UNCHANGED <<folderKnown, filevars, sync>>

Next ==
    \/ \E s \in Goroutines : Start(s) \/ Proceed(s)
    \/ ServerNext
    \/ Restart

Spec == Init /\ [][Next]_vars
=============================================================================
