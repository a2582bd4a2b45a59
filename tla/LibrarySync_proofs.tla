-------------------------- MODULE LibrarySync_proofs --------------------------
(***************************************************************************)
(* Theorems about LibrarySync and its history: its types, that a list is   *)
(* complete although it comes in pages, that what is written is current,   *)
(* and that a skipped sync misses nothing.                                 *)
(***************************************************************************)
EXTENDS LibraryHistory, Recursion, FiniteSetTheorems, TLAPS

----------------------------------------------------------------------------
(* The pages of a list: an album is on the page that its rank says, so the  *)
(* pages up to an offset are the albums up to a rank, and an empty page is   *)
(* past the last of them.                                                  *)

LEMMA LargestBelow ==
    ASSUME NEW a \in Nat, NEW B \in SUBSET Nat, B # {}, \A b \in B : b < a
    PROVE  \E m \in B : \A b \in B : b <= m
<1> DEFINE T == {a - b : b \in B}
<1>1. T \in SUBSET Nat /\ T # {}
  <2>1. \A b \in B : b \in Nat /\ b < a /\ a - b \in Nat
    OBVIOUS
  <2> QED
    BY <2>1
<1>2. PICK x \in T : \A y \in T : x <= y
  BY <1>1, SmallestOf
<1>3. PICK m \in B : x = a - m
  OBVIOUS
<1>4. ASSUME NEW b \in B PROVE b <= m
  <2>1. a - m <= a - b
    BY <1>2, <1>3
  <2> QED
    BY <2>1
<1> QED
  BY <1>4

Rank(albums, a) == Cardinality({b \in albums : b <= a})
UpTo(albums, offset) == {a \in albums : Rank(albums, a) <= offset}

LEMMA PageByRank ==
    ASSUME NEW albums, NEW offset
    PROVE  Page(albums, offset) =
              {a \in albums : Rank(albums, a) \in offset + 1 .. offset + PageSize}
  BY DEF Page, Rank

LEMMA Ranks ==
    ASSUME NEW albums \in SUBSET Albums, NEW a \in albums
    PROVE  Rank(albums, a) \in Nat \ {0}
<1> DEFINE S == {b \in albums : b <= a}
<1>1. IsFiniteSet(S)
  BY LibraryAssumption, FS_Subset, S \in SUBSET Albums
<1>2. a \in S
  BY LibraryAssumption
<1> QED
  BY <1>1, <1>2, FS_CardinalityType, FS_EmptySet DEF Rank

LEMMA NothingUpToZero ==
    ASSUME NEW albums \in SUBSET Albums
    PROVE  UpTo(albums, 0) = {}
  BY Ranks DEF UpTo

LEMMA OnePageFurther ==
    ASSUME NEW albums \in SUBSET Albums, NEW offset \in Nat
    PROVE  UpTo(albums, offset) \cup Page(albums, offset)
              = UpTo(albums, offset + PageSize)
<1>1. \A a \in albums : Rank(albums, a) \in Nat \ {0}
  BY Ranks
<1>2. PageSize \in Nat
  BY LibraryAssumption
<1>3. \A a \in albums : Rank(albums, a) <= offset + PageSize <=>
                           \/ Rank(albums, a) <= offset
                           \/ Rank(albums, a) \in offset + 1 .. offset + PageSize
  BY <1>1, <1>2
<1> QED
  BY <1>3, PageByRank DEF UpTo

LEMMA LastPage ==
    ASSUME NEW albums \in SUBSET Albums, NEW offset \in Nat,
           Page(albums, offset) = {}
    PROVE  UpTo(albums, offset) = albums
<1> DEFINE T == {a \in albums : Rank(albums, a) > offset}
<1>1. SUFFICES ASSUME T # {} PROVE FALSE
  BY Ranks DEF UpTo
<1>2. T \in SUBSET Nat
  BY LibraryAssumption
<1>3. PICK a \in T : \A y \in T : a <= y
  BY <1>1, <1>2, SmallestOf
<1> DEFINE B == {b \in albums : b < a}
<1>4. B \in SUBSET Nat /\ a \in Nat /\ a \in albums
  BY <1>2, <1>3, LibraryAssumption
<1>n. \A b \in albums : b \in Nat
  BY LibraryAssumption
<1>5. IsFiniteSet(B)
  BY LibraryAssumption, FS_Subset, B \in SUBSET Albums
<1>6. Rank(albums, a) = Cardinality(B) + 1
  <2>1. \A b \in albums : b <= a <=> b < a \/ b = a
    BY <1>4, <1>n
  <2>2. {b \in albums : b <= a} = B \cup {a}
    BY <1>4, <2>1
  <2>3. a \notin B
    BY <1>4
  <2> QED
    BY <1>5, <2>2, <2>3, FS_AddElement DEF Rank
<1>7. Cardinality(B) <= offset
  <2>1. CASE B = {}
    BY <2>1, FS_EmptySet
  <2>2. CASE B # {}
    <3>1. PICK m \in B : \A b \in B : b <= m
      BY <1>4, <2>2, LargestBelow
    <3>2. {b \in albums : b <= m} = B
      <4>1. m \in Nat /\ m < a /\ a \in Nat
        BY <1>4, <3>1
      <4>2. \A b \in albums : b <= m <=> b < a
        BY <1>n, <3>1, <4>1
      <4> QED
        BY <4>2
    <3>3. Rank(albums, m) = Cardinality(B)
      BY <3>2 DEF Rank
    <3>4. m \notin T /\ m \in albums
      BY <1>2, <1>3, <1>4, <3>1
    <3>5. Rank(albums, m) \in Nat
      BY <3>4, Ranks
    <3> QED
      BY <3>3, <3>4, <3>5
  <2> QED
    BY <2>1, <2>2
<1>8. Rank(albums, a) \in offset + 1 .. offset + PageSize
  BY <1>3, <1>4, <1>5, <1>6, <1>7, FS_CardinalityType, LibraryAssumption
<1> QED
  BY <1>4, <1>8, PageByRank

----------------------------------------------------------------------------
(* Types.                                                                  *)

LEMMA StatusType ==
    ASSUME TypeOK
    PROVE  Status \in ScanStatus
<1>1. IsFiniteSet(library)
  BY LibraryAssumption, FS_Subset DEF TypeOK
<1> QED
  BY <1>1, FS_CardinalityType DEF TypeOK, Status, ScanStatus

LEMMA NoSyncType == NoSync \in Sync
  BY DEF NoSync, Sync, SyncRecord, PCs, ScanStatus, ZeroStatus, Entry

LEMMA BecomeType ==
    ASSUME TypeOK, NEW s \in Goroutines, NEW r \in Sync, Become(s, r)
    PROVE  sync' \in [Goroutines -> Sync] /\ sync'[s] = r
  BY DEF TypeOK, Become

LEMMA GotoType ==
    ASSUME TypeOK, NEW s \in Goroutines, NEW pc \in PCs, Goto(s, pc),
           sync[s].offset = 0, sync[s].currentIDs = {}, sync[s].idsToFetch = {}
    PROVE  /\ sync' \in [Goroutines -> Sync]
           /\ sync'[s] = [sync[s] EXCEPT !.pc = pc]
<1> DEFINE r == [sync[s] EXCEPT !.pc = pc]
<1>1. r \in Sync
  BY DEF TypeOK, Sync, SyncRecord
<1> QED
  BY <1>1, BecomeType DEF Goto

LEMMA ReturnType ==
    ASSUME TypeOK, NEW s \in Goroutines, Return(s)
    PROVE  sync' \in [Goroutines -> Sync] /\ sync'[s] = NoSync
  BY NoSyncType, BecomeType DEF Return

LEMMA Others ==
    ASSUME TypeOK, NEW s \in Goroutines, NEW r, Become(s, r)
    PROVE  \A t \in Goroutines \ {s} : sync'[t] = sync[t]
  BY DEF TypeOK, Become

\* The fields that are empty outside the loops that fill them.
LEMMA Unfilled ==
    ASSUME TypeOK, NEW s \in Goroutines
    PROVE  /\ sync[s] \in Sync /\ sync[s] \in SyncRecord
           /\ ~At(s, "list") => sync[s].offset = 0 /\ sync[s].currentIDs = {}
           /\ ~At(s, "enrich") => sync[s].idsToFetch = {}
  BY DEF TypeOK, Sync, At

LEMMA IDsType ==
    ASSUME NEW A \in SUBSET Entry
    PROVE  IDs(A) \in SUBSET Albums
  BY DEF IDs, Entry

\* What the difference keeps, and what it has fetched.
Deleted(r) == IDs(r.albums) \ r.currentIDs
Outdated(r) == IDs({e \in r.albums : Expired(e)}) \ Deleted(r)
Kept(r) == {e \in r.albums : e.id \notin Deleted(r) \cup Outdated(r)}
ToFetch(r) == (r.currentIDs \ IDs(r.albums)) \cup Outdated(r)

LEMMA DiffIs ==
    ASSUME NEW r
    PROVE  Diff(r) = [r EXCEPT !.pc = "enrich", !.albums = Kept(r), !.currentIDs = {},
                               !.offset = 0, !.idsToFetch = ToFetch(r)]
  BY DEF Diff, Kept, ToFetch, Outdated, Deleted

LEMMA DiffType ==
    ASSUME NEW r \in SyncRecord
    PROVE  /\ Diff(r) \in Sync
           /\ Diff(r).pc = "enrich"
           /\ Diff(r).albums = Kept(r)
           /\ Diff(r).idsToFetch = ToFetch(r)
           /\ Diff(r).saved = r.saved
<1>1. Kept(r) \in SUBSET Entry
  BY DEF SyncRecord, Kept
<1>2. ToFetch(r) \in SUBSET Albums
  <2>1. {e \in r.albums : Expired(e)} \in SUBSET Entry
    BY DEF SyncRecord
  <2>2. IDs({e \in r.albums : Expired(e)}) \in SUBSET Albums
    BY <2>1, IDsType
  <2> QED
    BY <2>2 DEF SyncRecord, ToFetch, Outdated
<1>3. Diff(r) \in SyncRecord
  BY <1>1, <1>2, DiffIs DEF SyncRecord, PCs
<1>4. /\ Diff(r).pc = "enrich" /\ Diff(r).albums = Kept(r)
      /\ Diff(r).idsToFetch = ToFetch(r)
      /\ Diff(r).offset = 0 /\ Diff(r).currentIDs = {}
      /\ Diff(r).saved = r.saved
  BY DiffIs DEF SyncRecord
<1> QED
  BY <1>3, <1>4 DEF Sync

LEMMA FieldTypes ==
    ASSUME NEW r \in SyncRecord
    PROVE  /\ r.pc \in PCs /\ r.status \in ScanStatus /\ r.saved \in ScanStatus
           /\ r.albums \in SUBSET Entry /\ r.offset \in Nat
           /\ r.currentIDs \in SUBSET Albums /\ r.idsToFetch \in SUBSET Albums
  BY DEF SyncRecord

LEMMA PageType ==
    ASSUME TypeOK, NEW filtered \in BOOLEAN, NEW offset
    PROVE  /\ Listed(filtered) \in SUBSET Albums
           /\ Page(Listed(filtered), offset) \in SUBSET Albums
  BY DEF TypeOK, Listed, Page

LEMMA AddPageType ==
    ASSUME NEW r \in Sync, r.pc = "list", NEW page \in SUBSET Albums
    PROVE  /\ AddPage(r, page) \in Sync
           /\ AddPage(r, page).pc = "list"
           /\ AddPage(r, page).currentIDs = r.currentIDs \cup page
           /\ AddPage(r, page).offset = r.offset + PageSize
           /\ AddPage(r, page).saved = r.saved
<1> DEFINE ids == r.currentIDs \cup page
           next == r.offset + PageSize
           q == [r EXCEPT !.currentIDs = ids, !.offset = next]
<1>1. r \in SyncRecord /\ r.idsToFetch = {}
  BY DEF Sync
<1>2. ids \in SUBSET Albums /\ next \in Nat
  <2>1. r.currentIDs \in SUBSET Albums /\ r.offset \in Nat
    BY <1>1, FieldTypes
  <2>2. PageSize \in Nat
    BY LibraryAssumption
  <2> QED
    BY <2>1, <2>2
<1>3. /\ q \in SyncRecord /\ q.pc = "list" /\ q.currentIDs = ids
      /\ q.offset = next /\ q.idsToFetch = {} /\ q.saved = r.saved
  <2> HIDE DEF ids, next
  <2> QED
    BY <1>1, <1>2 DEF SyncRecord
<1>4. AddPage(r, page) = q
  BY <1>1 DEF AddPage, SyncRecord
<1>5. q \in Sync
  BY <1>3 DEF Sync
<1> HIDE DEF q
<1> QED
  BY <1>3, <1>4, <1>5

\* What a step of a goroutine makes of its record: one step, one lemma.
LEMMA StartSteps ==
    ASSUME TypeOK, NEW s \in Goroutines, Start(s)
    PROVE  /\ sync' \in [Goroutines -> Sync]
           /\ sync'[s].pc \in {"list", "status"}
           /\ sync'[s] = [sync[s] EXCEPT !.pc = sync'[s].pc]
<1>1. PICK pc \in {"list", "status"} : Goto(s, pc)
  BY DEF Start
<1>2. sync' \in [Goroutines -> Sync] /\ sync'[s] = [sync[s] EXCEPT !.pc = pc]
  BY <1>1, GotoType, Unfilled DEF Start, At, PCs
<1>3. sync'[s].pc = pc
  BY <1>2, Unfilled DEF SyncRecord
<1> QED
  BY <1>2, <1>3

LEMMA CheckScanStatusSteps ==
    ASSUME TypeOK, NEW s \in Goroutines, CheckScanStatus(s)
    PROVE  /\ sync' \in [Goroutines -> Sync]
           /\ \/ /\ ~scanning
                 /\ sync'[s] = [sync[s] EXCEPT !.pc = "meta", !.status = Status]
              \/ sync'[s] = [sync[s] EXCEPT !.pc = "load"]
<1>1. [sync[s] EXCEPT !.pc = "meta", !.status = Status] \in Sync
  BY Unfilled, StatusType DEF CheckScanStatus, At, PCs, Sync, SyncRecord
<1>2. CASE /\ ~scanning
           /\ Become(s, [sync[s] EXCEPT !.pc = "meta", !.status = Status])
  BY <1>1, <1>2, BecomeType
<1>3. CASE Goto(s, "load")
  BY <1>3, GotoType, Unfilled DEF CheckScanStatus, At, PCs
<1> QED
  BY <1>2, <1>3 DEF CheckScanStatus

LEMMA ReadMetaSteps ==
    ASSUME TypeOK, NEW s \in Goroutines, ReadMeta(s)
    PROVE  /\ sync' \in [Goroutines -> Sync]
           /\ sync'[s].pc = IF metaFile = sync[s].status THEN "cache" ELSE "save"
           /\ sync'[s] = [sync[s] EXCEPT !.pc = sync'[s].pc, !.saved = metaFile,
                                         !.status = ZeroStatus]
<1> DEFINE next == IF metaFile = sync[s].status THEN "cache" ELSE "save"
           r == [sync[s] EXCEPT !.pc = next, !.saved = metaFile,
                                !.status = ZeroStatus]
<1>1. next \in {"cache", "save"}
  OBVIOUS
<1>2. r \in Sync /\ r.pc = next
  <2>1. metaFile \in ScanStatus /\ ZeroStatus \in ScanStatus /\ next \in PCs
    BY <1>1 DEF TypeOK, ScanStatus, ZeroStatus, PCs
  <2>2. /\ sync[s] \in SyncRecord
        /\ sync[s].offset = 0 /\ sync[s].currentIDs = {} /\ sync[s].idsToFetch = {}
    BY Unfilled DEF ReadMeta, At
  <2> HIDE DEF next
  <2>3. /\ r \in SyncRecord /\ r.pc = next
        /\ r.offset = 0 /\ r.currentIDs = {} /\ r.idsToFetch = {}
    BY <2>1, <2>2 DEF SyncRecord
  <2> QED
    BY <2>3 DEF Sync
<1>3. Become(s, r)
  BY DEF ReadMeta
<1>4. sync' \in [Goroutines -> Sync] /\ sync'[s] = r
  BY <1>2, <1>3, BecomeType
<1>5. sync'[s].pc = next
  BY <1>2, <1>4
<1> QED
  BY <1>4, <1>5

LEMMA SaveStatusSteps ==
    ASSUME TypeOK, NEW s \in Goroutines, SaveStatus(s)
    PROVE  /\ sync' \in [Goroutines -> Sync]
           /\ sync'[s] = [sync[s] EXCEPT !.pc = "load", !.saved = ZeroStatus]
<1>1. [sync[s] EXCEPT !.pc = "load", !.saved = ZeroStatus] \in Sync
  BY Unfilled DEF SaveStatus, At, PCs, Sync, SyncRecord, ScanStatus, ZeroStatus
<1> QED
  BY <1>1, BecomeType DEF SaveStatus

LEMMA LoadSteps ==
    ASSUME TypeOK, NEW s \in Goroutines, Load(s)
    PROVE  /\ sync' \in [Goroutines -> Sync]
           /\ sync'[s].pc = "list"
           /\ sync'[s].offset = 0 /\ sync'[s].currentIDs = {}
           /\ sync'[s].saved = sync[s].saved
<1> DEFINE cached == IF Readable THEN cacheFile.albums ELSE {}
           r == [sync[s] EXCEPT !.pc = "list", !.albums = cached]
<1>1. cached \in SUBSET Entry
  BY DEF TypeOK, CacheFile
<1>2. /\ r \in Sync /\ r.pc = "list" /\ r.offset = 0 /\ r.currentIDs = {}
      /\ r.saved = sync[s].saved
  <2> HIDE DEF cached
  <2> QED
    BY <1>1, Unfilled DEF Load, At, PCs, Sync, SyncRecord
<1> QED
  BY <1>2, BecomeType DEF Load

LEMMA ListPageSteps ==
    ASSUME TypeOK, NEW s \in Goroutines, ListPage(s)
    PROVE  /\ sync' \in [Goroutines -> Sync]
           /\ folderKnown' \in BOOLEAN
           /\ LET page == Page(Listed(folderKnown'), sync[s].offset)
              IN  \/ page # {} /\ sync'[s] = AddPage(sync[s], page)
                  \/ page = {} /\ sync'[s] = Diff(sync[s])
                  \/ sync'[s] = NoSync
<1> DEFINE page == Page(Listed(folderKnown'), sync[s].offset)
<1>1. folderKnown' \in BOOLEAN
  BY DEF ListPage, TypeOK
<1>2. /\ AddPage(sync[s], page) \in Sync
      /\ Diff(sync[s]) \in Sync
  BY <1>1, PageType, AddPageType, DiffType, Unfilled DEF ListPage, At
<1>3. \/ page # {} /\ Become(s, AddPage(sync[s], page))
      \/ page = {} /\ Become(s, Diff(sync[s]))
      \/ Return(s)
  BY DEF ListPage
<1> HIDE DEF page
<1>4. \/ page # {} /\ sync'[s] = AddPage(sync[s], page)
      \/ page = {} /\ sync'[s] = Diff(sync[s])
      \/ sync'[s] = NoSync
  BY <1>2, <1>3, BecomeType, ReturnType
<1>5. sync' \in [Goroutines -> Sync]
  BY <1>2, <1>3, BecomeType, ReturnType
<1> QED
  BY <1>1, <1>4, <1>5 DEF page

LEMMA FetchSteps ==
    ASSUME TypeOK, NEW s \in Goroutines, FetchAlbumDetails(s)
    PROVE  /\ sync' \in [Goroutines -> Sync]
           /\ sync'[s].pc = "enrich"
           /\ sync'[s].saved = sync[s].saved
           /\ \E a \in sync[s].idsToFetch, sized \in BOOLEAN :
                 /\ sync'[s].albums = sync[s].albums
                       \cup {[id |-> a, fetchedAt |-> clock, sized |-> sized]}
                 /\ sync'[s].idsToFetch = sync[s].idsToFetch \ {a}
<1>1. PICK a \in sync[s].idsToFetch, sized \in BOOLEAN :
         Become(s, [sync[s] EXCEPT
                       !.albums = @ \cup {[id |-> a, fetchedAt |-> clock,
                                           sized |-> sized]},
                       !.idsToFetch = @ \ {a}])
  BY DEF FetchAlbumDetails
<1> DEFINE e == [id |-> a, fetchedAt |-> clock, sized |-> sized]
           r == [sync[s] EXCEPT !.albums = @ \cup {e}, !.idsToFetch = @ \ {a}]
<1>2. e \in Entry
  BY Unfilled, FieldTypes DEF TypeOK, Entry
<1>3. /\ r \in Sync /\ r.pc = "enrich" /\ r.saved = sync[s].saved
      /\ r.albums = sync[s].albums \cup {e}
      /\ r.idsToFetch = sync[s].idsToFetch \ {a}
  <2> HIDE DEF e
  <2> QED
    BY <1>2, Unfilled DEF FetchAlbumDetails, At, Sync, SyncRecord
<1> QED
  BY <1>1, <1>3, BecomeType

LEMMA ReconstructSteps ==
    ASSUME TypeOK, NEW s \in Goroutines, Reconstruct(s)
    PROVE  /\ sync' \in [Goroutines -> Sync]
           /\ sync'[s].pc = IF sync[s].albums = {} THEN "scan" ELSE "write"
           /\ sync'[s] = [sync[s] EXCEPT !.pc = sync'[s].pc]
<1> DEFINE pc == IF sync[s].albums = {} THEN "scan" ELSE "write"
<1>1. pc \in PCs
  BY DEF PCs
<1>2. Goto(s, pc)
  BY DEF Reconstruct
<1>3. sync[s].offset = 0 /\ sync[s].currentIDs = {} /\ sync[s].idsToFetch = {}
  BY Unfilled DEF Reconstruct, At
<1> HIDE DEF pc
<1>4. sync' \in [Goroutines -> Sync] /\ sync'[s] = [sync[s] EXCEPT !.pc = pc]
  BY <1>1, <1>2, <1>3, GotoType
<1>5. sync'[s].pc = pc
  BY <1>4, Unfilled DEF SyncRecord
<1> QED
  BY <1>4, <1>5 DEF pc

LEMMA TruncateSteps ==
    ASSUME TypeOK, NEW s \in Goroutines, Truncate(s)
    PROVE  /\ sync' \in [Goroutines -> Sync]
           /\ \/ /\ cacheFile' = Unreadable("empty")
                 /\ sync'[s] = [sync[s] EXCEPT !.pc = "writing"]
              \/ cacheFile' = cacheFile /\ sync'[s] = NoSync
  BY GotoType, ReturnType, Unfilled DEF Truncate, At, PCs

LEMMA WriteCacheSteps ==
    ASSUME TypeOK, NEW s \in Goroutines, WriteCache(s)
    PROVE  /\ sync' \in [Goroutines -> Sync]
           /\ cacheFile' \in {Whole(sync[s].albums), Unreadable("garbled")}
           /\ sync'[s] \in {[sync[s] EXCEPT !.pc = "scan"], NoSync}
  BY GotoType, ReturnType, Unfilled DEF WriteCache, At, PCs

LEMMA NeedsMigrationSteps ==
    ASSUME TypeOK, NEW s \in Goroutines, NeedsMigration(s)
    PROVE  /\ sync' \in [Goroutines -> Sync]
           /\ sync'[s] = [sync[s] EXCEPT !.pc = "save"]
  BY GotoType, Unfilled DEF NeedsMigration, At, PCs

LEMMA RestartSteps ==
    ASSUME TypeOK, Restart
    PROVE  /\ sync' \in [Goroutines -> Sync]
           /\ \A s \in Goroutines : sync'[s] = NoSync
  BY NoSyncType DEF Restart

LEMMA FileTypes ==
    ASSUME TypeOK, NEW A \in SUBSET Entry
    PROVE  /\ Whole(A) \in CacheFile
           /\ Unreadable("empty") \in CacheFile
           /\ Unreadable("garbled") \in CacheFile
           /\ ZeroStatus \in ScanStatus
  BY DEF Whole, Unreadable, CacheFile, ScanStatus, ZeroStatus

\* The initial states have the types.
LEMMA InitType == Init => TypeOK
<1> SUFFICES ASSUME Init PROVE TypeOK
  OBVIOUS
<1>1. Unreadable("missing") \in CacheFile /\ ZeroStatus \in ScanStatus
  BY DEF CacheFile, Unreadable, ScanStatus, ZeroStatus
<1> QED
  BY <1>1, NoSyncType DEF Init, TypeOK

\* Each step of a goroutine keeps them.
LEMMA GoroutineType ==
    ASSUME TypeOK, NEW s \in Goroutines, Start(s) \/ Proceed(s)
    PROVE  TypeOK'
<1>1. sync[s].albums \in SUBSET Entry /\ sync[s].saved \in ScanStatus
  BY Unfilled, FieldTypes
<1> USE FileTypes, <1>1
<1>2. CASE Start(s)
  BY <1>2, StartSteps DEF Start, TypeOK, servervars, filevars
<1>3. CASE CheckScanStatus(s)
  BY <1>3, CheckScanStatusSteps DEF CheckScanStatus, TypeOK, servervars, filevars
<1>4. CASE ReadMeta(s)
  BY <1>4, ReadMetaSteps DEF ReadMeta, TypeOK, servervars, filevars
<1>5. CASE Skip(s)
  BY <1>5, ReturnType DEF Skip, TypeOK, servervars, filevars
<1>6. CASE NeedsMigration(s)
  BY <1>6, NeedsMigrationSteps DEF NeedsMigration, TypeOK, servervars, filevars
<1>7. CASE SaveStatus(s)
  BY <1>7, SaveStatusSteps DEF SaveStatus, WriteMeta, TypeOK, servervars
<1>8. CASE Load(s)
  BY <1>8, LoadSteps DEF Load, TypeOK, servervars, filevars
<1>9. CASE ListPage(s)
  BY <1>9, ListPageSteps DEF ListPage, TypeOK, servervars, filevars
<1>10. CASE FetchAlbumDetails(s)
  BY <1>10, FetchSteps DEF FetchAlbumDetails, TypeOK, servervars, filevars
<1>11. CASE Reconstruct(s)
  BY <1>11, ReconstructSteps DEF Reconstruct, TypeOK, servervars, filevars
<1>12. CASE Truncate(s)
  BY <1>12, TruncateSteps DEF Truncate, TypeOK, servervars
<1>13. CASE WriteCache(s)
  BY <1>13, WriteCacheSteps DEF WriteCache, TypeOK, servervars
<1>14. CASE SaveScanStatus(s)
  BY <1>14, ReturnType, StatusType DEF SaveScanStatus, WriteMeta, TypeOK, servervars
<1> QED
  BY <1>2, <1>3, <1>4, <1>5, <1>6, <1>7, <1>8, <1>9, <1>10, <1>11, <1>12, <1>13,
     <1>14 DEF Proceed

LEMMA ServerType ==
    ASSUME TypeOK, ServerNext
    PROVE  TypeOK'
<1>1. clock' \in Nat
  BY DEF TypeOK, ServerNext, Tick, BeginScan, Discover, EndScan
<1>2. lastScan' \in Nat
  BY DEF TypeOK, ServerNext, Tick, BeginScan, Discover, EndScan
<1>3. library' \subseteq Albums /\ scanning' \in BOOLEAN
  <2>1. library' \subseteq Albums
    BY DEF TypeOK, ServerNext, Tick, BeginScan, Discover, EndScan
  <2>2. scanning' \in BOOLEAN
    BY DEF TypeOK, ServerNext, Tick, BeginScan, Discover, EndScan
  <2> QED
    BY <2>1, <2>2
<1> QED
  BY <1>1, <1>2, <1>3 DEF TypeOK, ServerNext, filevars

LEMMA NextType ==
    ASSUME TypeOK, [Next]_vars
    PROVE  TypeOK'
<1>1. CASE Restart
  BY <1>1, RestartSteps DEF Restart, TypeOK, servervars, filevars
<1>2. CASE UNCHANGED vars
  BY <1>2 DEF vars, servervars, filevars, TypeOK
<1> QED
  BY <1>1, <1>2, GoroutineType, ServerType DEF Next

\* The variables of LibrarySync keep their types, and the fields that a
\* goroutine only uses in a loop are empty outside of it.
THEOREM TypeCorrect == Spec => []TypeOK
<1>1. TypeOK /\ [Next]_vars => TypeOK'
  BY NextType
<1> QED
  BY InitType, <1>1, PTL DEF Spec

----------------------------------------------------------------------------
(* What a listing has seen.                                                *)

\* The pages listed so far, the difference under way, or the result, are those
\* of these albums.
Lists(r, albums) ==
    /\ r.pc = "list" => r.currentIDs = UpTo(albums, r.offset)
    /\ r.pc = "enrich" => IDs(r.albums) \cup r.idsToFetch = albums
    /\ r.pc \in {"write", "writing"} => IDs(r.albums) = albums

LEMMA DifferenceIsComplete ==
    ASSUME NEW r
    PROVE  IDs(Kept(r)) \cup ToFetch(r) = r.currentIDs
<1>1. ASSUME NEW a \in r.currentIDs PROVE a \in IDs(Kept(r)) \cup ToFetch(r)
  <2>1. CASE a \notin IDs(r.albums) \/ a \in Outdated(r)
    BY <1>1, <2>1 DEF ToFetch
  <2>2. CASE a \in IDs(r.albums) /\ a \notin Outdated(r)
    <3>1. PICK e \in r.albums : e.id = a
      BY <2>2 DEF IDs
    <3>2. a \notin Deleted(r)
      BY <1>1 DEF Deleted
    <3>3. e \in Kept(r)
      BY <2>2, <3>1, <3>2 DEF Kept
    <3> QED
      BY <3>1, <3>3 DEF IDs
  <2> QED
    BY <2>1, <2>2
<1>2. ASSUME NEW a \in IDs(r.albums), a \notin Deleted(r) PROVE a \in r.currentIDs
  BY <1>2 DEF Deleted
<1>3. IDs(Kept(r)) \subseteq IDs(r.albums) \ Deleted(r)
  BY DEF IDs, Kept
<1>4. Outdated(r) \subseteq IDs(r.albums) \ Deleted(r)
  BY DEF IDs, Outdated
<1>5. ToFetch(r) \subseteq r.currentIDs
  BY <1>2, <1>4 DEF ToFetch
<1> QED
  BY <1>1, <1>2, <1>3, <1>5

LEMMA KeptAreCurrent ==
    ASSUME NEW r, NEW e \in Kept(r)
    PROVE  e \in r.albums /\ ~Expired(e)
<1>1. e \in r.albums /\ e.id \notin Deleted(r) /\ e.id \notin Outdated(r)
  BY DEF Kept
<1>2. Expired(e) => e.id \in IDs({x \in r.albums : Expired(x)})
  BY <1>1 DEF IDs
<1> QED
  BY <1>1, <1>2 DEF Outdated

LEMMA ListingGoesOn ==
    ASSUME TypeOK, NEW s \in Goroutines, Start(s) \/ Proceed(s),
           NEW albums \in SUBSET Albums, Lists(sync[s], albums),
           At(s, "list") => folderKnown' /\ albums = library \ Elsewhere
    PROVE  Lists(sync'[s], albums)
<1>1. CASE Start(s)
  <2>1. /\ sync'[s] = [sync[s] EXCEPT !.pc = sync'[s].pc]
        /\ sync'[s].pc \in {"list", "status"}
    BY <1>1, StartSteps
  <2>2. sync'[s].offset = 0 /\ sync'[s].currentIDs = {}
    BY <1>1, <2>1, Unfilled DEF Start, At, SyncRecord
  <2> QED
    BY <2>1, <2>2, NothingUpToZero DEF Lists
<1>2. CASE CheckScanStatus(s)
  <2>1. sync'[s].pc \in {"meta", "load"}
    <3>1. sync[s] \in SyncRecord
      BY Unfilled
    <3>2. CASE sync'[s] = [sync[s] EXCEPT !.pc = "meta", !.status = Status]
      BY <3>1, <3>2 DEF SyncRecord
    <3>3. CASE sync'[s] = [sync[s] EXCEPT !.pc = "load"]
      BY <3>1, <3>3 DEF SyncRecord
    <3> QED
      BY <1>2, <3>2, <3>3, CheckScanStatusSteps
  <2> QED
    BY <2>1 DEF Lists
<1>3. CASE ReadMeta(s)
  <2>1. sync'[s].pc \in {"cache", "save"}
    BY <1>3, ReadMetaSteps
  <2> QED
    BY <2>1 DEF Lists
<1>4. CASE Skip(s)
  BY <1>4, ReturnType DEF Skip, Lists, NoSync
<1>5. CASE NeedsMigration(s)
  <2>1. sync'[s].pc = "save"
    BY <1>5, NeedsMigrationSteps, Unfilled DEF SyncRecord
  <2> QED
    BY <2>1 DEF Lists
<1>6. CASE SaveStatus(s)
  <2>1. sync'[s].pc = "load"
    BY <1>6, SaveStatusSteps, Unfilled DEF SyncRecord
  <2> QED
    BY <2>1 DEF Lists
<1>7. CASE Load(s)
  BY <1>7, LoadSteps, NothingUpToZero DEF Lists
<1>8. CASE ListPage(s)
  <2> DEFINE page == Page(albums, sync[s].offset)
  <2>1. Listed(folderKnown') = albums
    BY <1>8 DEF ListPage, Listed
  <2>2. /\ sync[s].currentIDs = UpTo(albums, sync[s].offset)
        /\ sync[s].offset \in Nat /\ sync[s] \in Sync /\ sync[s] \in SyncRecord
        /\ sync[s].pc = "list" /\ page \in SUBSET Albums
    BY <1>8, Unfilled, FieldTypes DEF ListPage, Lists, At, Page
  <2>3. CASE page # {} /\ sync'[s] = AddPage(sync[s], page)
    <3>1. /\ sync'[s].pc = "list"
          /\ sync'[s].currentIDs = sync[s].currentIDs \cup page
          /\ sync'[s].offset = sync[s].offset + PageSize
      BY <2>2, <2>3, AddPageType
    <3>2. sync'[s].currentIDs = UpTo(albums, sync'[s].offset)
      BY <2>2, <3>1, OnePageFurther
    <3> QED
      BY <3>1, <3>2 DEF Lists
  <2>4. CASE page = {} /\ sync'[s] = Diff(sync[s])
    BY <2>2, <2>4, DiffType, LastPage, DifferenceIsComplete DEF Lists
  <2>5. CASE sync'[s] = NoSync
    BY <2>5 DEF Lists, NoSync
  <2> QED
    BY <1>8, <2>1, <2>3, <2>4, <2>5, ListPageSteps
<1>9. CASE FetchAlbumDetails(s)
  <2>1. PICK a \in sync[s].idsToFetch, sized \in BOOLEAN :
           /\ sync'[s].albums = sync[s].albums
                 \cup {[id |-> a, fetchedAt |-> clock, sized |-> sized]}
           /\ sync'[s].idsToFetch = sync[s].idsToFetch \ {a}
    BY <1>9, FetchSteps
  <2>2. IDs(sync'[s].albums) = IDs(sync[s].albums) \cup {a}
    <3> DEFINE e == [id |-> a, fetchedAt |-> clock, sized |-> sized]
    <3>1. \A A : IDs(A \cup {e}) = IDs(A) \cup {e.id}
      BY DEF IDs
    <3>2. e.id = a
      OBVIOUS
    <3> HIDE DEF e
    <3> QED
      BY <2>1, <3>1, <3>2 DEF e
  <2>3. sync'[s].pc = "enrich"
    BY <1>9, FetchSteps
  <2>4. IDs(sync[s].albums) \cup sync[s].idsToFetch = albums
    BY <1>9 DEF FetchAlbumDetails, At, Lists
  <2> QED
    BY <2>1, <2>2, <2>3, <2>4 DEF Lists
<1>10. CASE Reconstruct(s)
  BY <1>10, ReconstructSteps, Unfilled DEF Reconstruct, Lists, At, SyncRecord
<1>11. CASE Truncate(s)
  <2>1. CASE sync'[s] = [sync[s] EXCEPT !.pc = "writing"]
    <3>1. sync'[s].pc = "writing" /\ sync'[s].albums = sync[s].albums
      BY <2>1, Unfilled DEF SyncRecord
    <3>2. IDs(sync[s].albums) = albums
      BY <1>11 DEF Truncate, At, Lists
    <3> QED
      BY <3>1, <3>2 DEF Lists
  <2>2. CASE sync'[s] = NoSync
    BY <2>2 DEF Lists, NoSync
  <2> QED
    BY <1>11, <2>1, <2>2, TruncateSteps
<1>12. CASE WriteCache(s)
  BY <1>12, WriteCacheSteps, Unfilled DEF Lists, SyncRecord, NoSync
<1>13. CASE SaveScanStatus(s)
  BY <1>13, ReturnType DEF SaveScanStatus, Lists, NoSync
<1> QED
  BY <1>1, <1>2, <1>3, <1>4, <1>5, <1>6, <1>7, <1>8, <1>9, <1>10, <1>11, <1>12,
     <1>13 DEF Proceed

\* A step of a goroutine leaves the records of the others alone.
LEMMA OneGoroutine ==
    ASSUME TypeOK, NEW s \in Goroutines, Start(s) \/ Proceed(s)
    PROVE  \A t \in Goroutines \ {s} : sync'[t] = sync[t]
<1>1. \E r : Become(s, r)
  <2>1. CASE ListPage(s)
    BY <2>1 DEF ListPage, Return
  <2>2. CASE FetchAlbumDetails(s)
    BY <2>2 DEF FetchAlbumDetails
  <2>3. CASE Skip(s) \/ SaveScanStatus(s) \/ WriteCache(s) \/ Truncate(s)
    BY <2>3 DEF Skip, SaveScanStatus, WriteCache, Truncate, Return, Goto
  <2>4. CASE Start(s) \/ CheckScanStatus(s) \/ ReadMeta(s) \/ NeedsMigration(s)
    BY <2>4 DEF Start, CheckScanStatus, ReadMeta, NeedsMigration, Goto
  <2>5. CASE SaveStatus(s) \/ Load(s) \/ Reconstruct(s)
    BY <2>5 DEF SaveStatus, Load, Reconstruct, Goto
  <2> QED
    BY <2>1, <2>2, <2>3, <2>4, <2>5 DEF Proceed
<1>2. PICK r : Become(s, r)
  BY <1>1
<1> QED
  BY <1>2, Others

\* A step of a goroutine leaves the server alone.
LEMMA ServerUntouched ==
    ASSUME NEW s, Start(s) \/ Proceed(s)
    PROVE  clock' = clock /\ library' = library /\ scanning' = scanning
           /\ lastScan' = lastScan
  BY DEF Start, Proceed, CheckScanStatus, ReadMeta, Skip, NeedsMigration, SaveStatus,
         Load, ListPage, FetchAlbumDetails, Reconstruct, Truncate, WriteCache,
         SaveScanStatus, servervars

----------------------------------------------------------------------------
(* What a sync writes.                                                     *)

View == [steady : BOOLEAN, albums : SUBSET Albums, since : Nat]

EntriesAreCurrent(r, since) ==
    r.pc \in {"enrich", "write"} =>
        \A e \in r.albums :
            \/ e.fetchedAt >= since
            \/ e.sized /\ since - e.fetchedAt < ExpiryAge

Seen(s) ==
    /\ EntriesAreCurrent(sync[s], view[s].since)
    /\ view[s].since <= clock
    /\ view[s].steady =>
          /\ Lists(sync[s], view[s].albums)
          /\ At(s, "list") => view[s].albums = library \ Elsewhere

ViewInv ==
    /\ TypeOK
    /\ view \in [Goroutines -> View]
    /\ \A s \in Goroutines : Seen(s)

LEMMA NoViewType == NoView \in View
  BY DEF NoView, View

LEMMA ViewTypes ==
    ASSUME ViewInv, NEW s \in Goroutines
    PROVE  /\ view[s] \in View /\ view[s].steady \in BOOLEAN
           /\ view[s].albums \in SUBSET Albums /\ view[s].since \in Nat
           /\ clock \in Nat /\ library \in SUBSET Albums
  BY DEF ViewInv, View, TypeOK

LEMMA ViewUpdated ==
    ASSUME NEW v \in View, NEW b \in BOOLEAN, NEW n \in Nat
    PROVE  /\ [v EXCEPT !.steady = b, !.since = n] \in View
           /\ [v EXCEPT !.steady = b, !.since = n].steady = b
           /\ [v EXCEPT !.steady = b, !.since = n].since = n
           /\ [v EXCEPT !.steady = b, !.since = n].albums = v.albums
  BY DEF View

LEMMA InitView == HInit => ViewInv
<1> SUFFICES ASSUME HInit PROVE ViewInv
  OBVIOUS
<1>1. TypeOK
  BY InitType DEF HInit
<1>2. view \in [Goroutines -> View]
  BY NoViewType DEF HInit
<1>3. ASSUME NEW s \in Goroutines PROVE Seen(s)
  <2>1. sync[s].pc = "idle" /\ view[s].since = 0 /\ ~view[s].steady /\ clock = 0
    BY DEF HInit, Init, NoSync, NoView
  <2> QED
    BY <2>1 DEF Seen, EntriesAreCurrent
<1> QED
  BY <1>1, <1>2, <1>3 DEF ViewInv

\* Who is not listing, or has just stopped, has nothing to see.
LEMMA NothingSeen ==
    ASSUME NEW s \in Goroutines, sync'[s].pc \notin Syncing, clock' \in Nat,
           view'[s] = Look(s)
    PROVE  view'[s] \in View /\ Seen(s)'
<1>1. view'[s] = NoView
  BY DEF Look
<1>2. view'[s].since = 0 /\ ~view'[s].steady
  BY <1>1 DEF NoView
<1>3. EntriesAreCurrent(sync'[s], view'[s].since)
  BY DEF EntriesAreCurrent, Syncing
<1> QED
  BY <1>1, <1>2, <1>3, NoViewType DEF Seen

\* The steps of the others and of the server are seen by who is listing.
LEMMA StillSeen ==
    ASSUME ViewInv, NEW s \in Goroutines, sync'[s] = sync[s], clock' \in Nat,
           clock <= clock', view'[s] = Look(s)
    PROVE  view'[s] \in View /\ Seen(s)'
<1>1. CASE sync[s].pc \notin Syncing
  BY <1>1, NothingSeen
<1>2. CASE At(s, "list")
  <2>1. PICK steady \in BOOLEAN :
           steady = (view[s].steady /\ library' = library /\ ~Unfiltered(s))
    BY ViewTypes
  <2>2. view'[s] = [view[s] EXCEPT !.steady = steady, !.since = 0]
    BY <1>2, <2>1 DEF Look, Syncing, At
  <2>3. /\ view'[s] \in View /\ view'[s].steady = steady
        /\ view'[s].since = 0 /\ view'[s].albums = view[s].albums
    <3> DEFINE v == [view[s] EXCEPT !.steady = steady, !.since = 0]
    <3>1. view[s] \in View /\ 0 \in Nat
      BY ViewTypes
    <3>2. v \in View /\ v.steady = steady /\ v.since = 0 /\ v.albums = view[s].albums
      <4>1. v \in View
        BY <3>1, ViewUpdated
      <4>2. v.steady = steady
        BY <3>1 DEF View
      <4>3. v.since = 0 /\ v.albums = view[s].albums
        BY <3>1 DEF View
      <4> QED
        BY <4>1, <4>2, <4>3
    <3> HIDE DEF v
    <3> QED
      BY <2>2, <3>2 DEF v
  <2>4. steady => view[s].steady /\ library' = library
    BY <2>1
  <2>5. EntriesAreCurrent(sync'[s], view'[s].since)
    BY <1>2 DEF EntriesAreCurrent, At
  <2>6. view'[s].steady =>
           /\ Lists(sync'[s], view'[s].albums)
           /\ At(s, "list")' => view'[s].albums = library' \ Elsewhere
    <3> SUFFICES ASSUME view'[s].steady
                 PROVE  /\ Lists(sync'[s], view'[s].albums)
                        /\ view'[s].albums = library' \ Elsewhere
      OBVIOUS
    <3>1. view[s].steady /\ library' = library
      BY <2>3, <2>4
    <3> QED
      BY <1>2, <2>3, <3>1 DEF ViewInv, Seen, At
  <2>7. view'[s].since <= clock'
    BY <2>3
  <2> QED
    BY <2>3, <2>5, <2>6, <2>7 DEF Seen
<1>3. CASE sync[s].pc \in Syncing /\ ~At(s, "list")
  <2>1. view'[s] = view[s]
    BY <1>3 DEF Look, At
  <2> QED
    BY <1>3, <2>1, ViewTypes DEF ViewInv, Seen, At
<1> QED
  BY <1>1, <1>2, <1>3

\* A list that begins sees all that the server has.
LEMMA SeesFromTheStart ==
    ASSUME ViewInv, NEW s \in Goroutines, sync[s].pc \notin Syncing,
           sync'[s].pc = "list", sync'[s].offset = 0, sync'[s].currentIDs = {},
           library' = library, clock' = clock, view'[s] = Look(s)
    PROVE  view'[s] \in View /\ Seen(s)'
<1>1. view'[s] = [steady |-> TRUE, albums |-> library \ Elsewhere, since |-> 0]
  <2>1. sync'[s].pc \in Syncing
    BY DEF Syncing
  <2> QED
    BY <2>1 DEF Look
<1>2. view'[s] \in View
  BY <1>1, ViewTypes DEF View
<1>3. Lists(sync'[s], view'[s].albums)
  BY <1>1, ViewTypes, NothingUpToZero, library \ Elsewhere \in SUBSET Albums DEF Lists
<1>4. EntriesAreCurrent(sync'[s], view'[s].since)
  BY DEF EntriesAreCurrent
<1> QED
  BY <1>1, <1>2, <1>3, <1>4, ViewTypes DEF Seen, At

LEMMA SeesEachPage ==
    ASSUME ViewInv, NEW s \in Goroutines, ListPage(s), view'[s] = Look(s)
    PROVE  view'[s] \in View /\ Seen(s)'
<1> DEFINE page == Page(Listed(folderKnown'), sync[s].offset)
           steady == view[s].steady /\ library' = library /\ ~Unfiltered(s)
           since == IF sync'[s].pc = "list" THEN 0 ELSE clock
<1>1. /\ sync[s].pc = "list" /\ sync[s] \in Sync /\ sync[s] \in SyncRecord
      /\ sync[s].offset \in Nat /\ TypeOK
      /\ clock' = clock /\ clock \in Nat
  BY Unfilled, FieldTypes, ViewTypes DEF ListPage, At, ViewInv, servervars
<1>2. \/ sync'[s] = AddPage(sync[s], page)
      \/ sync'[s] = Diff(sync[s])
      \/ sync'[s] = NoSync
  BY <1>1, ListPageSteps
<1>3. page \in SUBSET Albums
  BY <1>1, PageType, ListPageSteps
<1>4. CASE sync'[s] = NoSync
  BY <1>1, <1>4, NothingSeen DEF NoSync, Syncing
<1>5. CASE sync'[s] \in {AddPage(sync[s], page), Diff(sync[s])}
  <2>1. sync'[s].pc \in {"list", "enrich"}
    BY <1>1, <1>3, <1>5, AddPageType, DiffType
  <2>2. view'[s] = [view[s] EXCEPT !.steady = steady, !.since = since]
    BY <1>1, <2>1 DEF Look, Syncing, At
  <2>3. steady \in BOOLEAN /\ since \in Nat /\ since <= clock
    BY <1>1, ViewTypes
  <2>4. sync'[s] # sync[s]
    <3>1. CASE sync'[s] = AddPage(sync[s], page)
      <4>1. sync'[s].offset = sync[s].offset + PageSize
        BY <1>1, <1>3, <3>1, AddPageType
      <4>2. PageSize \in Nat \ {0}
        BY LibraryAssumption
      <4> QED
        BY <1>1, <4>1, <4>2
    <3>2. CASE sync'[s] = Diff(sync[s])
      BY <1>1, <3>2, DiffType
    <3> QED
      BY <1>5, <3>1, <3>2
  <2>5. steady => view[s].steady /\ folderKnown' /\ library' = library
    BY <1>1, <2>4 DEF Unfiltered, At
  <2>6. EntriesAreCurrent(sync'[s], since)
    <3>1. CASE sync'[s] = AddPage(sync[s], page)
      BY <1>1, <1>3, <3>1, AddPageType DEF EntriesAreCurrent
    <3>2. CASE sync'[s] = Diff(sync[s])
      <4>1. sync'[s].albums = Kept(sync[s]) /\ sync'[s].pc = "enrich"
        BY <1>1, <3>2, DiffType
      <4>2. ASSUME NEW e \in Kept(sync[s])
            PROVE  e.sized /\ clock - e.fetchedAt < ExpiryAge
        <5>1. ~Expired(e) /\ e \in Entry
          BY <1>1, FieldTypes, KeptAreCurrent
        <5>2. e.fetchedAt \in Nat /\ ExpiryAge \in Nat
          BY <5>1, LibraryAssumption DEF Entry
        <5> QED
          BY <1>1, <5>1, <5>2 DEF Expired
      <4> QED
        BY <4>1, <4>2 DEF EntriesAreCurrent
    <3> QED
      BY <1>5, <3>1, <3>2
  <2> HIDE DEF steady, since
  <2>7. /\ view'[s] \in View /\ view'[s].steady = steady
        /\ view'[s].since = since /\ view'[s].albums = view[s].albums
    BY <2>2, <2>3, ViewTypes DEF View
  <2>8. steady => Lists(sync'[s], view[s].albums)
    <3> SUFFICES ASSUME steady PROVE Lists(sync'[s], view[s].albums)
      OBVIOUS
    <3>1. Lists(sync[s], view[s].albums) /\ view[s].albums = library \ Elsewhere
      BY <1>1, <2>5 DEF ViewInv, Seen, At
    <3> QED
      BY <1>1, <2>5, <3>1, ViewTypes, ListingGoesOn DEF Proceed
  <2>9. steady => view[s].albums = library' \ Elsewhere
    BY <1>1, <2>5 DEF ViewInv, Seen, At
  <2> QED
    BY <1>1, <2>3, <2>6, <2>7, <2>8, <2>9 DEF Seen, At
<1> QED
  BY <1>2, <1>4, <1>5

\* After the list: nothing more is to be seen, and what is fetched is current.
LEMMA SeesAfterTheList ==
    ASSUME ViewInv, NEW s \in Goroutines,
           \/ FetchAlbumDetails(s) \/ Reconstruct(s) \/ Truncate(s) \/ WriteCache(s),
           sync'[s].pc \in Syncing, view'[s] = Look(s)
    PROVE  view'[s] \in View /\ Seen(s)'
<1>1. /\ sync[s].pc \in {"enrich", "write", "writing"} /\ clock' = clock
      /\ sync[s] \in SyncRecord /\ TypeOK
  BY Unfilled DEF FetchAlbumDetails, Reconstruct, Truncate, WriteCache, At, servervars,
                  ViewInv
<1>2. view'[s] = view[s]
  BY <1>1 DEF Look, Syncing, At
<1>3. EntriesAreCurrent(sync[s], view[s].since) /\ view[s].since <= clock
  BY DEF ViewInv, Seen
<1>4. sync'[s].pc # "list" /\ EntriesAreCurrent(sync'[s], view[s].since)
  <2>1. CASE FetchAlbumDetails(s)
    <3>1. PICK a \in sync[s].idsToFetch, sized \in BOOLEAN :
             sync'[s].albums = sync[s].albums
                \cup {[id |-> a, fetchedAt |-> clock, sized |-> sized]}
      BY <1>1, <2>1, FetchSteps
    <3> DEFINE new == [id |-> a, fetchedAt |-> clock, sized |-> sized]
    <3>2. new.fetchedAt >= view[s].since
      BY <1>3, ViewTypes
    <3>3. sync[s].pc = "enrich" /\ sync'[s].pc = "enrich"
      BY <1>1, <2>1, FetchSteps DEF FetchAlbumDetails, At
    <3> HIDE DEF new
    <3>4. \A e \in sync'[s].albums : e \in sync[s].albums \/ e = new
      BY <3>1 DEF new
    <3> QED
      BY <1>3, <3>2, <3>3, <3>4 DEF EntriesAreCurrent
  <2>2. CASE Reconstruct(s)
    <3>1. sync[s].pc = "enrich" /\ sync'[s].pc \in {"scan", "write"}
      BY <1>1, <2>2, ReconstructSteps DEF Reconstruct, At
    <3>2. sync'[s].albums = sync[s].albums
      BY <1>1, <2>2, ReconstructSteps DEF SyncRecord
    <3> QED
      BY <1>3, <3>1, <3>2 DEF EntriesAreCurrent
  <2>3. CASE Truncate(s)
    <3>1. sync'[s].pc \in {"writing", "idle"}
      <4>1. CASE sync'[s] = [sync[s] EXCEPT !.pc = "writing"]
        BY <1>1, <4>1 DEF SyncRecord
      <4>2. CASE sync'[s] = NoSync
        BY <4>2 DEF NoSync
      <4> QED
        BY <1>1, <2>3, <4>1, <4>2, TruncateSteps
    <3> QED
      BY <3>1 DEF EntriesAreCurrent
  <2>4. CASE WriteCache(s)
    <3>1. sync'[s].pc \in {"scan", "idle"}
      BY <1>1, <2>4, WriteCacheSteps DEF SyncRecord, NoSync
    <3> QED
      BY <3>1 DEF EntriesAreCurrent
  <2> QED
    BY <2>1, <2>2, <2>3, <2>4
<1>5. view[s].steady => Lists(sync'[s], view[s].albums)
  <2> SUFFICES ASSUME view[s].steady PROVE Lists(sync'[s], view[s].albums)
    OBVIOUS
  <2>1. Lists(sync[s], view[s].albums) /\ ~At(s, "list")
    BY <1>1 DEF ViewInv, Seen, At
  <2> QED
    BY <1>1, <2>1, ViewTypes, ListingGoesOn DEF Proceed
<1> QED
  BY <1>1, <1>2, <1>3, <1>4, <1>5, ViewTypes DEF Seen, At

\* The step of a goroutine itself.
LEMMA GoroutineSees ==
    ASSUME ViewInv, NEW s \in Goroutines, Start(s) \/ Proceed(s), view'[s] = Look(s)
    PROVE  view'[s] \in View /\ Seen(s)'
<1>1. /\ TypeOK /\ clock' = clock /\ library' = library /\ clock' \in Nat
      /\ sync[s] \in SyncRecord
  BY ServerUntouched, Unfilled DEF ViewInv, TypeOK
<1>2. CASE sync'[s].pc \notin Syncing
  BY <1>1, <1>2, NothingSeen
<1>3. ASSUME sync'[s].pc \in Syncing
      PROVE  view'[s] \in View /\ Seen(s)'
  <2>1. CASE Start(s)
    <3>1. sync[s].pc = "idle" /\ sync'[s].pc = "list"
          /\ sync'[s] = [sync[s] EXCEPT !.pc = sync'[s].pc]
      BY <1>1, <1>3, <2>1, StartSteps DEF Start, At, Syncing
    <3>2. sync'[s].offset = 0 /\ sync'[s].currentIDs = {}
      BY <1>1, <3>1, Unfilled DEF At, SyncRecord
    <3> QED
      BY <1>1, <3>1, <3>2, SeesFromTheStart DEF Syncing
  <2>2. CASE Load(s)
    BY <1>1, <2>2, LoadSteps, SeesFromTheStart DEF Load, At, Syncing
  <2>3. CASE ListPage(s)
    BY <2>3, SeesEachPage
  <2>4. CASE \/ FetchAlbumDetails(s) \/ Reconstruct(s) \/ Truncate(s)
             \/ WriteCache(s)
    BY <1>3, <2>4, SeesAfterTheList
  <2>5. CASE CheckScanStatus(s)
    <3>1. \/ sync'[s] = [sync[s] EXCEPT !.pc = "meta", !.status = Status]
          \/ sync'[s] = [sync[s] EXCEPT !.pc = "load"]
      BY <1>1, <2>5, CheckScanStatusSteps
    <3>2. sync'[s].pc \in {"meta", "load"}
      BY <1>1, <3>1 DEF SyncRecord
    <3> QED
      BY <1>3, <3>2 DEF Syncing
  <2>6. CASE ReadMeta(s) \/ NeedsMigration(s) \/ SaveStatus(s)
    <3>1. sync'[s].pc \in {"cache", "save", "load"}
      BY <1>1, <2>6, ReadMetaSteps, NeedsMigrationSteps, SaveStatusSteps DEF SyncRecord
    <3> QED
      BY <1>3, <3>1 DEF Syncing
  <2>7. CASE Skip(s) \/ SaveScanStatus(s)
    <3>1. sync'[s].pc = "idle"
      BY <1>1, <2>7, ReturnType DEF Skip, SaveScanStatus, NoSync
    <3> QED
      BY <1>3, <3>1 DEF Syncing
  <2> QED
    BY <2>1, <2>2, <2>3, <2>4, <2>5, <2>6, <2>7 DEF Proceed
<1> QED
  BY <1>2, <1>3

LEMMA NextView ==
    ASSUME ViewInv, [ViewNext]_hvars
    PROVE  ViewInv'
<1>1. CASE UNCHANGED hvars
  BY <1>1 DEF hvars, vars, servervars, filevars, ViewInv, Seen, TypeOK, At, Lists
<1>2. CASE ViewNext
  <2>1. TypeOK' /\ clock' \in Nat
    BY <1>2, NextType DEF ViewNext, ViewInv, TypeOK
  <2>2. /\ view' = [s \in Goroutines |-> view'[s]]
        /\ \A s \in Goroutines : view'[s] = Look(s)
    BY <1>2 DEF ViewNext
  <2>3. ASSUME NEW s \in Goroutines
        PROVE  view'[s] \in View /\ Seen(s)'
    <3>1. CASE Start(s) \/ Proceed(s)
      BY <2>2, <3>1, GoroutineSees
    <3>2. CASE \E t \in Goroutines \ {s} : Start(t) \/ Proceed(t)
      <4>1. PICK t \in Goroutines \ {s} : Start(t) \/ Proceed(t)
        BY <3>2
      <4>2. sync'[s] = sync[s] /\ clock' = clock
        BY <4>1, OneGoroutine, ServerUntouched DEF ViewInv
      <4> QED
        BY <2>1, <2>2, <4>2, StillSeen
    <3>3. CASE ServerNext
      <4>1. sync' = sync /\ clock <= clock'
        BY <3>3 DEF ServerNext, Tick, BeginScan, Discover, EndScan, ViewInv, TypeOK
      <4> QED
        BY <2>1, <2>2, <4>1, StillSeen
    <3>4. CASE Restart
      <4>1. sync'[s].pc \notin Syncing
        BY <3>4, RestartSteps DEF ViewInv, NoSync, Syncing
      <4> QED
        BY <2>1, <2>2, <4>1, NothingSeen
    <3> QED
      BY <1>2, <3>1, <3>2, <3>3, <3>4 DEF ViewNext, Next
  <2>4. view' \in [Goroutines -> View]
    BY <2>2, <2>3
  <2> QED
    BY <2>1, <2>3, <2>4 DEF ViewInv
<1> QED
  BY <1>1, <1>2

\* sync.go:98-276.  Whatever other syncs, scans and restarts do meanwhile, a
\* sync writes the albums that the server listed, all of them and no others, as
\* long as neither the library changed nor the folder was unknown meanwhile.
THEOREM ListsAreComplete == ViewSpec => []SyncSeesLibrary
<1>1. ViewInv => SyncSeesLibrary
  BY DEF ViewInv, Seen, SyncSeesLibrary, Lists, At
<1>2. ViewInv /\ [ViewNext]_hvars => ViewInv'
  BY NextView
<1> QED
  BY InitView, <1>1, <1>2, PTL DEF ViewSpec

\* sync.go:165-191.  No sync writes an entry that was due to be fetched again
\* when its list was complete.
THEOREM EntriesAreFresh == ViewSpec => []WritesCurrentEntries
<1>1. ViewInv => WritesCurrentEntries
  BY DEF ViewInv, Seen, WritesCurrentEntries, EntriesAreCurrent, At
<1>2. ViewInv /\ [ViewNext]_hvars => ViewInv'
  BY NextView
<1> QED
  BY InitView, <1>1, <1>2, PTL DEF ViewSpec

----------------------------------------------------------------------------
(* What a skipped sync misses.                                             *)

\* The statuses that are in the file, or may get there before the next scan.
Statuses == {metaFile} \cup {sync[s].saved : s \in Goroutines}
Among(statuses, scan) == \E st \in statuses : st.lastScan = scan

\* A cache that can be read has the albums of the folder.
CacheGood == Readable => IDs(cacheFile.albums) = library \ Elsewhere

\* No status is ahead of the server.
StatusInv ==
    /\ lastScan >= 1
    /\ \A st \in Statuses : st.lastScan <= lastScan
    /\ \A s \in Goroutines :
          At(s, "meta") => /\ sync[s].status.lastScan >= 1
                           /\ sync[s].status.lastScan <= lastScan

\* A status of the last scan vouches for the cache.
Vouched ==
    /\ ~scanning /\ Among(Statuses, lastScan) => CacheGood
    /\ \A s \in Goroutines :
          At(s, "meta") /\ Among(Statuses, sync[s].status.lastScan) => CacheGood
    /\ \A s \in Goroutines : At(s, "cache") \/ At(s, "scan") => CacheGood

Listing == \A s \in Goroutines : Lists(sync[s], library \ Elsewhere)

SuspectInv ==
    /\ TypeOK
    /\ StatusInv
    /\ ~suspect => Vouched /\ Listing

LEMMA StatusTypes ==
    ASSUME TypeOK
    PROVE  /\ Statuses \in SUBSET ScanStatus
           /\ \A st \in ScanStatus : st.lastScan \in Nat
           /\ ZeroStatus.lastScan = 0 /\ Status.lastScan = lastScan
           /\ lastScan \in Nat
<1>1. \A s \in Goroutines : sync[s].saved \in ScanStatus
  BY Unfilled, FieldTypes
<1> QED
  BY <1>1 DEF TypeOK, Statuses, ScanStatus, ZeroStatus, Status

LEMMA InitSuspect == HInit => SuspectInv
<1> SUFFICES ASSUME HInit PROVE SuspectInv
  OBVIOUS
<1>1. TypeOK /\ lastScan = 1
  BY InitType DEF HInit, Init
<1>2. \A s \in Goroutines : sync[s].pc = "idle" /\ sync[s].saved = ZeroStatus
  BY DEF HInit, Init, NoSync
<1>3. metaFile = ZeroStatus /\ Statuses \subseteq {ZeroStatus}
  BY <1>2 DEF Statuses, HInit, Init
<1>4. StatusInv
  BY <1>1, <1>2, <1>3, StatusTypes DEF StatusInv, At
<1>5. ~Among(Statuses, lastScan)
  BY <1>1, <1>3, StatusTypes DEF Among
<1>6. Vouched
  BY <1>2, <1>5 DEF Vouched, At
<1>7. Listing
  BY <1>2 DEF Listing, Lists
<1> QED
  BY <1>1, <1>4, <1>6, <1>7 DEF SuspectInv

\* Only the last step of a sync brings a new status into the file.
LEMMA StatusesOfAStep ==
    ASSUME TypeOK, NEW s \in Goroutines, Start(s) \/ Proceed(s), ~SaveScanStatus(s)
    PROVE  Statuses' \subseteq Statuses \cup {ZeroStatus}
<1>0. sync[s] \in SyncRecord /\ sync[s] \in Sync
  BY Unfilled
<1>1. CASE Start(s)
  <2>1. metaFile' = metaFile
    BY <1>1 DEF Start, filevars
  <2>2. sync'[s].saved = sync[s].saved
    BY <1>0, <1>1, StartSteps DEF SyncRecord
  <2> QED
    BY <1>1, <2>1, <2>2, OneGoroutine DEF Statuses
<1>2. CASE CheckScanStatus(s) \/ NeedsMigration(s) \/ Reconstruct(s) \/ Load(s)
           \/ FetchAlbumDetails(s)
  <2>1. metaFile' = metaFile
    BY <1>2 DEF CheckScanStatus, NeedsMigration, Reconstruct, Load, FetchAlbumDetails,
                filevars
  <2>2. sync'[s].saved = sync[s].saved
    <3>1. CASE CheckScanStatus(s)
      <4>1. CASE sync'[s] = [sync[s] EXCEPT !.pc = "meta", !.status = Status]
        BY <1>0, <4>1 DEF SyncRecord
      <4>2. CASE sync'[s] = [sync[s] EXCEPT !.pc = "load"]
        BY <1>0, <4>2 DEF SyncRecord
      <4> QED
        BY <3>1, <4>1, <4>2, CheckScanStatusSteps
    <3>2. CASE NeedsMigration(s)
      BY <1>0, <3>2, NeedsMigrationSteps DEF SyncRecord
    <3>3. CASE Reconstruct(s)
      BY <1>0, <3>3, ReconstructSteps DEF SyncRecord
    <3> QED
      BY <1>2, <3>1, <3>2, <3>3, LoadSteps, FetchSteps
  <2> QED
    BY <1>2, <2>1, <2>2, OneGoroutine DEF Statuses
<1>3. CASE ReadMeta(s)
  <2>1. metaFile' = metaFile
    BY <1>3 DEF ReadMeta, filevars
  <2>2. sync'[s].saved = metaFile
    BY <1>0, <1>3, ReadMetaSteps DEF SyncRecord
  <2> QED
    BY <1>3, <2>1, <2>2, OneGoroutine DEF Statuses
<1>4. CASE Skip(s)
  <2>1. metaFile' = metaFile
    BY <1>4 DEF Skip, filevars
  <2>2. sync'[s].saved = ZeroStatus
    BY <1>4, ReturnType DEF Skip, NoSync
  <2> QED
    BY <1>4, <2>1, <2>2, OneGoroutine DEF Statuses
<1>5. CASE SaveStatus(s)
  <2>1. metaFile' \in {sync[s].saved, metaFile, ZeroStatus}
    BY <1>5 DEF SaveStatus, WriteMeta
  <2>2. sync'[s].saved = ZeroStatus
    BY <1>0, <1>5, SaveStatusSteps DEF SyncRecord
  <2> QED
    BY <1>5, <2>1, <2>2, OneGoroutine DEF Statuses
<1>6. CASE ListPage(s)
  <2>1. metaFile' = metaFile
    BY <1>6 DEF ListPage, filevars
  <2>2. sync'[s].saved \in {sync[s].saved, ZeroStatus}
    <3> DEFINE page == Page(Listed(folderKnown'), sync[s].offset)
    <3>1. page \in SUBSET Albums /\ sync[s].pc = "list"
      BY <1>6, PageType, ListPageSteps DEF ListPage, At
    <3>2. \/ sync'[s] = AddPage(sync[s], page)
          \/ sync'[s] = Diff(sync[s])
          \/ sync'[s] = NoSync
      BY <1>6, ListPageSteps
    <3> HIDE DEF page
    <3>3. AddPage(sync[s], page).saved = sync[s].saved
      BY <1>0, <3>1, AddPageType
    <3>4. Diff(sync[s]).saved = sync[s].saved
      BY <1>0, DiffType
    <3> QED
      BY <3>2, <3>3, <3>4 DEF NoSync
  <2> QED
    BY <1>6, <2>1, <2>2, OneGoroutine DEF Statuses
<1>7. CASE Truncate(s) \/ WriteCache(s)
  <2>1. metaFile' = metaFile
    BY <1>7 DEF Truncate, WriteCache
  <2>2. sync'[s].saved \in {sync[s].saved, ZeroStatus}
    <3>1. \/ sync'[s] = [sync[s] EXCEPT !.pc = "writing"]
          \/ sync'[s] = [sync[s] EXCEPT !.pc = "scan"]
          \/ sync'[s] = NoSync
      BY <1>7, TruncateSteps, WriteCacheSteps
    <3>2. CASE sync'[s] = [sync[s] EXCEPT !.pc = "writing"]
      BY <1>0, <3>2 DEF SyncRecord
    <3>3. CASE sync'[s] = [sync[s] EXCEPT !.pc = "scan"]
      BY <1>0, <3>3 DEF SyncRecord
    <3> QED
      BY <3>1, <3>2, <3>3 DEF NoSync
  <2> QED
    BY <1>7, <2>1, <2>2, OneGoroutine DEF Statuses
<1> QED
  BY <1>1, <1>2, <1>3, <1>4, <1>5, <1>6, <1>7 DEF Proceed

LEMMA StatusesOfTheLastStep ==
    ASSUME TypeOK, NEW s \in Goroutines, SaveScanStatus(s)
    PROVE  Statuses' \subseteq Statuses \cup {ZeroStatus, Status}
<1>1. metaFile' \in {Status, metaFile, ZeroStatus}
  BY DEF SaveScanStatus, WriteMeta
<1>2. sync'[s].saved = ZeroStatus
  BY ReturnType DEF SaveScanStatus, NoSync
<1> QED
  BY <1>1, <1>2, OneGoroutine DEF Statuses, Proceed

LEMMA StatusesOfOthers ==
    ASSUME TypeOK, ServerNext \/ Restart
    PROVE  Statuses' \subseteq Statuses \cup {ZeroStatus}
  BY RestartSteps DEF ServerNext, Restart, filevars, Statuses, NoSync

\* A goroutine has the status only by its own request.
LEMMA OnlyOneReadsTheStatus ==
    ASSUME TypeOK, NEW s \in Goroutines, Start(s) \/ Proceed(s), ~CheckScanStatus(s)
    PROVE  sync'[s].pc # "meta"
<1>0. sync[s] \in SyncRecord /\ sync[s] \in Sync
  BY Unfilled
<1>1. CASE Start(s) \/ ReadMeta(s) \/ Load(s) \/ Reconstruct(s) \/ FetchAlbumDetails(s)
  <2>1. CASE Start(s) \/ Load(s) \/ FetchAlbumDetails(s)
    BY <2>1, StartSteps, LoadSteps, FetchSteps
  <2>2. CASE ReadMeta(s)
    BY <2>2, ReadMetaSteps
  <2>3. CASE Reconstruct(s)
    BY <2>3, ReconstructSteps
  <2> QED
    BY <1>1, <2>1, <2>2, <2>3
<1>2. CASE NeedsMigration(s) \/ SaveStatus(s)
  <2>1. CASE NeedsMigration(s)
    BY <1>0, <2>1, NeedsMigrationSteps DEF SyncRecord
  <2>2. CASE SaveStatus(s)
    BY <1>0, <2>2, SaveStatusSteps DEF SyncRecord
  <2> QED
    BY <1>2, <2>1, <2>2
<1>3. CASE Skip(s) \/ SaveScanStatus(s)
  BY <1>3, ReturnType DEF Skip, SaveScanStatus, NoSync
<1>4. CASE ListPage(s)
  <2> DEFINE page == Page(Listed(folderKnown'), sync[s].offset)
  <2>1. page \in SUBSET Albums /\ sync[s].pc = "list"
    BY <1>4, PageType, ListPageSteps DEF ListPage, At
  <2>2. \/ sync'[s] = AddPage(sync[s], page)
        \/ sync'[s] = Diff(sync[s])
        \/ sync'[s] = NoSync
    BY <1>4, ListPageSteps
  <2> HIDE DEF page
  <2>3. AddPage(sync[s], page).pc = "list" /\ Diff(sync[s]).pc = "enrich"
    BY <1>0, <2>1, AddPageType, DiffType
  <2> QED
    BY <2>2, <2>3 DEF NoSync
<1>5. CASE Truncate(s) \/ WriteCache(s)
  <2>1. \/ sync'[s] = [sync[s] EXCEPT !.pc = "writing"]
        \/ sync'[s] = [sync[s] EXCEPT !.pc = "scan"]
        \/ sync'[s] = NoSync
    BY <1>5, TruncateSteps, WriteCacheSteps
  <2>2. CASE sync'[s] = [sync[s] EXCEPT !.pc = "writing"]
    BY <1>0, <2>2 DEF SyncRecord
  <2>3. CASE sync'[s] = [sync[s] EXCEPT !.pc = "scan"]
    BY <1>0, <2>3 DEF SyncRecord
  <2> QED
    BY <2>1, <2>2, <2>3 DEF NoSync
<1> QED
  BY <1>1, <1>2, <1>3, <1>4, <1>5 DEF Proceed

LEMMA StatusKept ==
    ASSUME TypeOK, StatusInv, Next
    PROVE  StatusInv'
<1>1. lastScan <= lastScan' /\ lastScan' \in Nat
  <2>1. CASE \E s \in Goroutines : Start(s) \/ Proceed(s)
    BY <2>1, ServerUntouched DEF TypeOK
  <2>2. CASE ServerNext
    BY <2>2 DEF ServerNext, Tick, BeginScan, Discover, EndScan, TypeOK
  <2>3. CASE Restart
    BY <2>3 DEF Restart, servervars, TypeOK
  <2> QED
    BY <2>1, <2>2, <2>3 DEF Next
<1>2. Statuses' \subseteq Statuses \cup {ZeroStatus, Status}
  <2>1. ASSUME NEW s \in Goroutines, Start(s) \/ Proceed(s)
        PROVE  Statuses' \subseteq Statuses \cup {ZeroStatus, Status}
    <3>1. CASE SaveScanStatus(s)
      BY <3>1, StatusesOfTheLastStep
    <3>2. CASE ~SaveScanStatus(s)
      BY <2>1, <3>2, StatusesOfAStep
    <3> QED
      BY <3>1, <3>2
  <2>2. CASE ServerNext \/ Restart
    BY <2>2, StatusesOfOthers
  <2> QED
    BY <2>1, <2>2 DEF Next
<1>3. \A st \in Statuses' : st.lastScan <= lastScan'
  <2> SUFFICES ASSUME NEW st \in Statuses' PROVE st.lastScan <= lastScan'
    OBVIOUS
  <2>1. st.lastScan \in Nat /\ lastScan \in Nat /\ st.lastScan <= lastScan
    BY <1>2, StatusTypes DEF StatusInv
  <2> QED
    BY <1>1, <2>1
<1>4. ASSUME NEW s \in Goroutines, At(s, "meta")'
      PROVE  sync'[s].status.lastScan >= 1 /\ sync'[s].status.lastScan <= lastScan'
  <2>1. CASE sync'[s] = sync[s]
    <3>1. At(s, "meta") /\ sync[s].status.lastScan \in Nat
      BY <1>4, <2>1, Unfilled, FieldTypes, StatusTypes DEF At
    <3>2. lastScan \in Nat
      BY StatusTypes
    <3> QED
      BY <1>1, <2>1, <3>1, <3>2 DEF StatusInv
  <2>2. CASE CheckScanStatus(s)
    <3>1. sync'[s] = [sync[s] EXCEPT !.pc = "meta", !.status = Status]
      <4>1. sync'[s] # [sync[s] EXCEPT !.pc = "load"]
        BY <1>4, Unfilled DEF At, SyncRecord
      <4> QED
        BY <2>2, <4>1, CheckScanStatusSteps
    <3>2. sync'[s].status = Status
      BY <3>1, Unfilled DEF SyncRecord
    <3> QED
      BY <1>1, <3>2, StatusTypes DEF StatusInv
  <2>3. CASE (Start(s) \/ Proceed(s)) /\ ~CheckScanStatus(s)
    <3>1. sync'[s].pc # "meta"
      BY <2>3, OnlyOneReadsTheStatus
    <3> QED
      BY <1>4, <3>1 DEF At
  <2>4. CASE Restart
    BY <1>4, <2>4, RestartSteps DEF At, NoSync
  <2>5. CASE ServerNext
    BY <2>1, <2>5 DEF ServerNext
  <2>6. CASE \E t \in Goroutines \ {s} : Start(t) \/ Proceed(t)
    BY <2>1, <2>6, OneGoroutine
  <2> QED
    BY <2>2, <2>3, <2>4, <2>5, <2>6 DEF Next
<1>5. lastScan' >= 1
  BY <1>1, StatusTypes DEF StatusInv
<1> QED
  BY <1>3, <1>4, <1>5 DEF StatusInv

\* A new scan is not in the file, nor is the status of no scan.
LEMMA NoneAmong ==
    ASSUME NEW statuses, statuses \subseteq Statuses \cup {ZeroStatus},
           NEW scan \in Nat, scan >= 1, TypeOK, Among(statuses, scan)
    PROVE  Among(Statuses, scan)
<1>1. PICK st \in statuses : st.lastScan = scan
  BY DEF Among
<1>2. st # ZeroStatus
  BY <1>1, StatusTypes
<1> QED
  BY <1>1, <1>2 DEF Among

\* A sync that runs into nothing lists the folder, and writes it.
LEMMA ListingKept ==
    ASSUME TypeOK, Listing, NEW s \in Goroutines, Start(s) \/ Proceed(s),
           ~Unfiltered(s)
    PROVE  Listing'
<1> DEFINE folder == library \ Elsewhere
<1>1. folder \in SUBSET Albums /\ folder' = folder
  BY ServerUntouched DEF TypeOK
<1>2. Lists(sync'[s], folder)
  <2>1. CASE sync'[s] = sync[s]
    BY <2>1 DEF Listing
  <2>2. CASE sync'[s] # sync[s]
    <3>1. At(s, "list") => folderKnown'
      BY <2>2 DEF Unfiltered
    <3>2. Lists(sync[s], folder)
      BY DEF Listing
    <3> HIDE DEF folder
    <3>3. At(s, "list") => folder = library \ Elsewhere
      BY DEF folder
    <3> QED
      BY <1>1, <3>1, <3>2, <3>3, ListingGoesOn
  <2> QED
    BY <2>1, <2>2
<1>3. \A t \in Goroutines \ {s} : Lists(sync'[t], folder)
  BY OneGoroutine DEF Listing
<1> QED
  BY <1>1, <1>2, <1>3 DEF Listing

LEMMA GoodIsVouched ==
    ASSUME CacheGood'
    PROVE  Vouched'
  BY DEF Vouched

\* The steps of a goroutine that leave the cache file alone, and bring no status
\* into the other.
LEMMA VouchedByOthers ==
    ASSUME SuspectInv, Vouched, NEW s \in Goroutines, Start(s) \/ Proceed(s),
           cacheFile' = cacheFile, ~SaveScanStatus(s),
           At(s, "cache")' \/ At(s, "scan")' => CacheGood,
           At(s, "meta")' =>
              /\ ~scanning
              /\ sync'[s].status = Status
    PROVE  Vouched'
<1>1. /\ TypeOK /\ lastScan \in Nat /\ lastScan >= 1
      /\ Statuses' \subseteq Statuses \cup {ZeroStatus}
  BY StatusesOfAStep, StatusTypes DEF SuspectInv, StatusInv
<1>2. CacheGood' <=> CacheGood
  BY ServerUntouched DEF CacheGood, Readable
<1>3. ~scanning /\ Among(Statuses', lastScan) => CacheGood
  BY <1>1, NoneAmong DEF Vouched
<1>4. \A t \in Goroutines \ {s} : sync'[t] = sync[t]
  BY <1>1, OneGoroutine
<1>5. ASSUME NEW t \in Goroutines, At(t, "meta")',
             Among(Statuses', sync'[t].status.lastScan)
      PROVE  CacheGood
  <2>1. CASE t = s
    BY <1>3, <1>5, <2>1, StatusTypes, <1>1
  <2>2. CASE t # s
    <3>1. At(t, "meta") /\ sync'[t].status = sync[t].status
      BY <1>4, <1>5, <2>2 DEF At
    <3>2. sync[t].status.lastScan \in Nat /\ sync[t].status.lastScan >= 1
      BY <1>1, <3>1, Unfilled, FieldTypes, StatusTypes DEF SuspectInv, StatusInv
    <3>3. Among(Statuses, sync[t].status.lastScan)
      BY <1>1, <1>5, <3>1, <3>2, NoneAmong
    <3> QED
      BY <3>1, <3>3 DEF Vouched
  <2> QED
    BY <2>1, <2>2
<1>6. ASSUME NEW t \in Goroutines, At(t, "cache")' \/ At(t, "scan")'
      PROVE  CacheGood
  BY <1>4, <1>6 DEF Vouched, At
<1>7. ~scanning' /\ Among(Statuses', lastScan') => CacheGood'
  BY <1>2, <1>3, ServerUntouched
<1> QED
  BY <1>2, <1>5, <1>6, <1>7 DEF Vouched

\* The steps that lead neither to the cache nor to the last status.
LEMMA NotYetThere ==
    ASSUME TypeOK, NEW s \in Goroutines,
           Skip(s) \/ NeedsMigration(s) \/ SaveStatus(s) \/ Load(s) \/ Start(s)
              \/ FetchAlbumDetails(s) \/ ListPage(s)
    PROVE  sync'[s].pc \notin {"cache", "scan"}
<1>0. sync[s] \in SyncRecord /\ sync[s] \in Sync
  BY Unfilled
<1>1. CASE Start(s) \/ Load(s) \/ FetchAlbumDetails(s)
  BY <1>1, StartSteps, LoadSteps, FetchSteps
<1>2. CASE NeedsMigration(s) \/ SaveStatus(s)
  <2>1. CASE NeedsMigration(s)
    BY <1>0, <2>1, NeedsMigrationSteps DEF SyncRecord
  <2>2. CASE SaveStatus(s)
    BY <1>0, <2>2, SaveStatusSteps DEF SyncRecord
  <2> QED
    BY <1>2, <2>1, <2>2
<1>3. CASE Skip(s)
  BY <1>3, ReturnType DEF Skip, NoSync
<1>4. CASE ListPage(s)
  <2> DEFINE page == Page(Listed(folderKnown'), sync[s].offset)
  <2>1. page \in SUBSET Albums /\ sync[s].pc = "list"
    BY <1>4, PageType, ListPageSteps DEF ListPage, At
  <2>2. \/ sync'[s] = AddPage(sync[s], page)
        \/ sync'[s] = Diff(sync[s])
        \/ sync'[s] = NoSync
    BY <1>4, ListPageSteps
  <2> HIDE DEF page
  <2>3. AddPage(sync[s], page).pc = "list" /\ Diff(sync[s]).pc = "enrich"
    BY <1>0, <2>1, AddPageType, DiffType
  <2> QED
    BY <2>2, <2>3 DEF NoSync
<1> QED
  BY <1>1, <1>2, <1>3, <1>4

LEMMA GoroutineVouched ==
    ASSUME SuspectInv, Vouched, Listing, NEW s \in Goroutines, Start(s) \/ Proceed(s),
           ~(At(s, "enrich") /\ sync'[s].pc = "scan")
    PROVE  Vouched'
<1>0. /\ TypeOK /\ sync[s] \in SyncRecord /\ library' = library
      /\ lastScan' = lastScan /\ scanning' = scanning
  BY Unfilled, ServerUntouched DEF SuspectInv
<1>1. CASE CheckScanStatus(s)
  <2>1. cacheFile' = cacheFile /\ ~SaveScanStatus(s)
    BY <1>1 DEF CheckScanStatus, SaveScanStatus, filevars, At
  <2>2. CASE sync'[s] = [sync[s] EXCEPT !.pc = "load"]
    <3>1. sync'[s].pc = "load"
      BY <1>0, <2>2 DEF SyncRecord
    <3> QED
      BY <1>1, <2>1, <3>1, VouchedByOthers DEF At
  <2>3. CASE ~scanning /\ sync'[s] = [sync[s] EXCEPT !.pc = "meta", !.status = Status]
    <3>1. sync'[s].pc = "meta" /\ sync'[s].status = Status
      BY <1>0, <2>3 DEF SyncRecord
    <3> QED
      BY <1>1, <2>1, <2>3, <3>1, VouchedByOthers DEF At
  <2> QED
    BY <1>0, <1>1, <2>2, <2>3, CheckScanStatusSteps
<1>2. CASE ReadMeta(s)
  <2>1. cacheFile' = cacheFile /\ ~SaveScanStatus(s)
    BY <1>2 DEF ReadMeta, SaveScanStatus, filevars, At
  <2>2. sync'[s].pc = IF metaFile = sync[s].status THEN "cache" ELSE "save"
    BY <1>0, <1>2, ReadMetaSteps
  <2>3. ASSUME metaFile = sync[s].status PROVE CacheGood
    <3>1. Among(Statuses, sync[s].status.lastScan)
      BY <2>3 DEF Among, Statuses
    <3> QED
      BY <1>2, <3>1 DEF ReadMeta, Vouched
  <2> QED
    BY <1>2, <2>1, <2>2, <2>3, VouchedByOthers DEF At
<1>3. CASE Skip(s) \/ NeedsMigration(s) \/ SaveStatus(s) \/ Load(s) \/ Start(s)
           \/ FetchAlbumDetails(s) \/ ListPage(s)
  <2>1. cacheFile' = cacheFile /\ ~SaveScanStatus(s)
    BY <1>3 DEF Skip, NeedsMigration, SaveStatus, Load, Start, FetchAlbumDetails,
                ListPage, SaveScanStatus, filevars, At
  <2>2. sync'[s].pc \notin {"cache", "scan"}
    BY <1>0, <1>3, NotYetThere
  <2>3. sync'[s].pc # "meta"
    BY <1>0, <1>3, OnlyOneReadsTheStatus
       DEF Skip, NeedsMigration, SaveStatus, Load, Start, FetchAlbumDetails, ListPage,
           CheckScanStatus, At
  <2> QED
    BY <1>3, <2>1, <2>2, <2>3, VouchedByOthers DEF At, Proceed
<1>4. CASE Reconstruct(s)
  <2>1. cacheFile' = cacheFile /\ ~SaveScanStatus(s)
    BY <1>4 DEF Reconstruct, SaveScanStatus, filevars, At
  <2>2. sync'[s].pc = "write"
    BY <1>0, <1>4, ReconstructSteps DEF Reconstruct
  <2> QED
    BY <1>4, <2>1, <2>2, VouchedByOthers DEF At
<1>5. CASE Truncate(s)
  <2>1. CASE cacheFile' = Unreadable("empty")
    <3>1. CacheGood'
      BY <2>1 DEF CacheGood, Readable, Unreadable
    <3> QED
      BY <3>1, GoodIsVouched
  <2>2. CASE cacheFile' = cacheFile /\ sync'[s] = NoSync
    BY <1>5, <2>2, VouchedByOthers DEF Truncate, SaveScanStatus, At, NoSync
  <2> QED
    BY <1>0, <1>5, <2>1, <2>2, TruncateSteps
<1>6. CASE WriteCache(s)
  <2>1. IDs(sync[s].albums) = library \ Elsewhere
    BY <1>6 DEF WriteCache, Listing, Lists, At
  <2>2. cacheFile' \in {Whole(sync[s].albums), Unreadable("garbled")}
    BY <1>0, <1>6, WriteCacheSteps
  <2>3. CacheGood'
    BY <1>0, <2>1, <2>2 DEF CacheGood, Readable, Whole, Unreadable
  <2> QED
    BY <2>3, GoodIsVouched
<1>7. CASE SaveScanStatus(s)
  <2>1. CacheGood /\ cacheFile' = cacheFile
    BY <1>7 DEF SaveScanStatus, Vouched
  <2>2. CacheGood'
    BY <1>0, <2>1 DEF CacheGood, Readable
  <2> QED
    BY <2>2, GoodIsVouched
<1> QED
  BY <1>1, <1>2, <1>3, <1>4, <1>5, <1>6, <1>7 DEF Proceed

\* The server: a library that changes while nobody syncs is one that is scanned,
\* and the end of the scan is a status that no file has.
LEMMA ServerVouched ==
    ASSUME SuspectInv, Vouched, Listing, ServerNext,
           \A s \in Goroutines : ~At(s, "idle") => library' = library
    PROVE  Vouched' /\ Listing'
<1>1. /\ sync' = sync /\ cacheFile' = cacheFile /\ metaFile' = metaFile
      /\ Statuses' = Statuses
  BY DEF ServerNext, filevars, Statuses
<1>2. ASSUME library' = library
      PROVE  Vouched' /\ Listing'
  <2>1. (CacheGood' <=> CacheGood) /\ Listing'
    BY <1>1, <1>2 DEF CacheGood, Readable, Listing
  <2>2. ~scanning' /\ Among(Statuses', lastScan') => CacheGood
    <3>1. CASE EndScan
      <4>1. lastScan' = lastScan + 1
        BY <3>1 DEF EndScan
      <4>2. ~Among(Statuses, lastScan')
        BY <4>1, StatusTypes DEF SuspectInv, StatusInv, Among
      <4> QED
        BY <1>1, <4>2
    <3>2. CASE Tick \/ BeginScan \/ Discover
      BY <1>1, <3>2 DEF Tick, BeginScan, Discover, Vouched
    <3> QED
      BY <3>1, <3>2 DEF ServerNext
  <2> QED
    BY <1>1, <2>1, <2>2 DEF Vouched, At
<1>3. ASSUME \A s \in Goroutines : At(s, "idle"), Discover
      PROVE  Vouched' /\ Listing'
  BY <1>1, <1>3 DEF Discover, Vouched, Listing, Lists, At
<1>4. ~Discover => library' = library
  BY DEF ServerNext, Tick, BeginScan, EndScan
<1> QED
  BY <1>2, <1>3, <1>4

LEMMA RestartVouched ==
    ASSUME SuspectInv, Vouched, Restart
    PROVE  Vouched' /\ Listing'
<1>1. /\ TypeOK /\ library' = library /\ cacheFile' = cacheFile
      /\ lastScan' = lastScan /\ scanning' = scanning
      /\ lastScan \in Nat /\ lastScan >= 1
  BY StatusTypes DEF SuspectInv, StatusInv, Restart, servervars, filevars
<1>2. \A s \in Goroutines : sync'[s].pc = "idle"
  BY <1>1, RestartSteps DEF NoSync
<1>3. Among(Statuses', lastScan) => Among(Statuses, lastScan)
  BY <1>1, StatusesOfOthers, NoneAmong
<1>4. CacheGood' <=> CacheGood
  BY <1>1 DEF CacheGood, Readable
<1> QED
  BY <1>1, <1>2, <1>3, <1>4 DEF Vouched, Listing, Lists, At

LEMMA NextSuspect ==
    ASSUME SuspectInv, [SuspectNext]_hvars
    PROVE  SuspectInv'
<1>1. CASE UNCHANGED hvars
  BY <1>1 DEF hvars, vars, servervars, filevars, SuspectInv, TypeOK, StatusInv, Vouched,
              Listing, Statuses, CacheGood, Readable, At
<1>2. CASE SuspectNext
  <2>1. TypeOK' /\ StatusInv'
    BY <1>2, NextType, StatusKept DEF SuspectNext, SuspectInv
  <2>2. ASSUME ~suspect' PROVE Vouched' /\ Listing'
    <3>1. /\ ~suspect
          /\ \A s \in Goroutines :
                /\ ~At(s, "idle") => library' = library
                /\ ~Unfiltered(s)
                /\ ~(At(s, "enrich") /\ sync'[s].pc = "scan")
      BY <1>2, <2>2 DEF SuspectNext
    <3>2. TypeOK /\ Vouched /\ Listing
      BY <3>1 DEF SuspectInv
    <3>3. CASE \E s \in Goroutines : Start(s) \/ Proceed(s)
      BY <3>1, <3>2, <3>3, GoroutineVouched, ListingKept
    <3>4. CASE ServerNext
      BY <3>1, <3>2, <3>4, ServerVouched
    <3>5. CASE Restart
      BY <3>2, <3>5, RestartVouched
    <3> QED
      BY <1>2, <3>3, <3>4, <3>5 DEF SuspectNext, Next
  <2> QED
    BY <2>1, <2>2 DEF SuspectInv
<1> QED
  BY <1>1, <1>2

\* sync.go:31-67.  As long as no sync ran into a scan, a sync that is skipped
\* returns the albums that the server has, whatever was lost on the way there.
THEOREM SkipsMissNothing == SuspectSpec => SkipIsTransparent
<1>1. SuspectInv /\ [SuspectNext]_hvars =>
         [\A s \in Goroutines :
             Skip(s) /\ ~suspect =>
                IDs(cacheFile.albums) = library \ Elsewhere]_hvars
  BY DEF SuspectInv, Vouched, CacheGood, Skip
<1>2. SuspectInv /\ [SuspectNext]_hvars => SuspectInv'
  BY NextSuspect
<1> QED
  BY InitSuspect, <1>1, <1>2, PTL DEF SuspectSpec, SkipIsTransparent

----------------------------------------------------------------------------
(* What a sync leaves in the cache file.                                   *)

\* A sync that runs alone and is done but for the status has written its list, or
\* has found the folder empty.
WrittenBy(s) ==
    At(s, "scan") /\ Readable => sync[s].albums \in {cacheFile.albums, {}}

AloneInv ==
    /\ TypeOK
    /\ \A s \in Running \ overlapped : Running = {s} /\ WrittenBy(s)

LEMMA InitAlone == HInit => AloneInv
  BY InitType DEF HInit, Init, AloneInv, Running, At, NoSync

\* What the goroutine itself does.
LEMMA WritesItsList ==
    ASSUME TypeOK, NEW s \in Goroutines, Start(s) \/ Proceed(s)
    PROVE  WrittenBy(s)'
<1>0. sync[s] \in SyncRecord
  BY Unfilled
<1>1. CASE Reconstruct(s)
  <2>1. /\ sync'[s].pc = IF sync[s].albums = {} THEN "scan" ELSE "write"
        /\ sync'[s] = [sync[s] EXCEPT !.pc = sync'[s].pc]
    BY <1>1, ReconstructSteps
  <2>2. sync'[s].albums = sync[s].albums
    BY <1>0, <2>1 DEF SyncRecord
  <2> QED
    BY <2>1, <2>2 DEF WrittenBy, At
<1>2. CASE WriteCache(s)
  <2>1. /\ cacheFile' \in {Whole(sync[s].albums), Unreadable("garbled")}
        /\ sync'[s] \in {[sync[s] EXCEPT !.pc = "scan"], NoSync}
    BY <1>2, WriteCacheSteps
  <2>2. CASE sync'[s] = NoSync
    BY <2>2 DEF WrittenBy, At, NoSync
  <2>3. CASE cacheFile' = Unreadable("garbled")
    BY <2>3 DEF WrittenBy, Readable, Unreadable
  <2>4. CASE /\ sync'[s] = [sync[s] EXCEPT !.pc = "scan"]
             /\ cacheFile' = Whole(sync[s].albums)
    <3>1. sync'[s].albums = sync[s].albums
      BY <1>0, <2>4 DEF SyncRecord
    <3> QED
      BY <2>4, <3>1 DEF WrittenBy, Whole
  <2> QED
    BY <2>1, <2>2, <2>3, <2>4
<1>3. CASE ~Reconstruct(s) /\ ~WriteCache(s)
  <2>1. CASE Skip(s) \/ NeedsMigration(s) \/ SaveStatus(s) \/ Load(s) \/ Start(s)
             \/ FetchAlbumDetails(s) \/ ListPage(s)
    BY <2>1, NotYetThere DEF WrittenBy, At
  <2>2. CASE CheckScanStatus(s)
    BY <1>0, <2>2, CheckScanStatusSteps DEF SyncRecord, WrittenBy, At
  <2>3. CASE ReadMeta(s)
    BY <2>3, ReadMetaSteps DEF WrittenBy, At
  <2>4. CASE Truncate(s)
    <3>1. sync'[s] \in {[sync[s] EXCEPT !.pc = "writing"], NoSync}
      BY <2>4, TruncateSteps
    <3>2. sync'[s].pc # "scan"
      BY <1>0, <3>1 DEF SyncRecord, NoSync
    <3> QED
      BY <3>2 DEF WrittenBy, At
  <2>5. CASE SaveScanStatus(s)
    BY <2>5, ReturnType DEF SaveScanStatus, WrittenBy, At, NoSync
  <2> QED
    BY <1>3, <2>1, <2>2, <2>3, <2>4, <2>5 DEF Proceed
<1> QED
  BY <1>1, <1>2, <1>3

\* While a sync runs alone, nobody else touches the cache file.
LEMMA NextAlone ==
    ASSUME AloneInv, [SuspectNext]_hvars
    PROVE  AloneInv'
<1>0. TypeOK
  BY DEF AloneInv
<1>1. CASE UNCHANGED hvars
  BY <1>1 DEF hvars, vars, servervars, filevars, AloneInv, TypeOK, Running, WrittenBy,
              Readable, At
<1>2. CASE SuspectNext
  <2>1. TypeOK'
    BY <1>0, <1>2, NextType DEF SuspectNext
  <2> SUFFICES ASSUME NEW s \in Running' \ overlapped'
               PROVE  Running' = {s} /\ WrittenBy(s)'
    BY <2>1 DEF AloneInv
  <2>2. s \in Goroutines /\ sync'[s].pc # "idle" /\ Running' = {s} /\ s \notin overlapped
    BY <1>2 DEF SuspectNext, Running, At
  <2>3. CASE \E t \in Goroutines : Start(t) \/ Proceed(t)
    <3>1. PICK t \in Goroutines : Start(t) \/ Proceed(t)
      BY <2>3
    <3>2. CASE t = s
      BY <1>0, <2>2, <3>1, <3>2, WritesItsList
    <3>3. CASE t # s
      <4>1. sync'[s] = sync[s]
        BY <1>0, <2>2, <3>1, <3>3, OneGoroutine
      <4>2. Running = {s} /\ WrittenBy(s)
        BY <2>2, <4>1 DEF AloneInv, Running, At
      <4>3. At(t, "idle")
        BY <3>3, <4>2 DEF Running
      <4>4. Start(t)
        BY <3>1, <4>3
           DEF At, Proceed, CheckScanStatus, ReadMeta, Skip, NeedsMigration, SaveStatus,
               Load, ListPage, FetchAlbumDetails, Reconstruct, Truncate, WriteCache,
               SaveScanStatus
      <4>5. cacheFile' = cacheFile
        BY <4>4 DEF Start, filevars
      <4> QED
        BY <2>2, <4>1, <4>2, <4>5 DEF WrittenBy, Readable, At
    <3> QED
      BY <2>2, <3>2, <3>3
  <2>4. CASE ServerNext
    BY <2>2, <2>4 DEF ServerNext, filevars, AloneInv, Running, WrittenBy, Readable, At
  <2>5. CASE Restart
    BY <1>0, <2>2, <2>5, RestartSteps DEF NoSync
  <2> QED
    BY <1>2, <2>3, <2>4, <2>5 DEF SuspectNext, Next
<1> QED
  BY <1>1, <1>2

\* sync.go:274-299.  A status is only saved next to the list that goes with it:
\* when a sync that met no other one succeeds, the cache file has what it returns,
\* unless nothing can be read from it or the folder was found empty.
THEOREM CacheHoldsTheResult == SuspectSpec => SyncUpdatesCache
<1>1. AloneInv /\ [SuspectNext]_hvars =>
         [\A s \in Goroutines \ overlapped :
             SaveScanStatus(s) /\ Readable =>
                sync[s].albums \in {cacheFile.albums, {}}]_hvars
  BY DEF AloneInv, Running, WrittenBy, SaveScanStatus, At
<1>2. AloneInv /\ [SuspectNext]_hvars => AloneInv'
  BY NextAlone
<1> QED
  BY InitAlone, <1>1, <1>2, PTL DEF SuspectSpec, SyncUpdatesCache
=============================================================================
