------------------------------ MODULE MusicFolder ------------------------------
(***************************************************************************)
(* GetMusicFolderID of internal/navidrome/client.go: the ID of the music   *)
(* folder is asked for once and cached, under a sync.RWMutex that is held  *)
(* over the request.  The callers are the goroutines of the handlers and   *)
(* of the jobs; a step is what one does between two waits, for the lock or *)
(* for the server.                                                         *)
(***************************************************************************)
CONSTANT Callers

VARIABLES
    musicFolderID,  \* "" until it is known
    readers,        \* the callers that hold the lock for reading
    writer,         \* the caller that holds it for writing, in a set
    call            \* caller -> where its call is

foldervars == <<musicFolderID, readers, writer, call>>

NoID == ""
FolderID == "id"

\* "read" reads the ID after it has released the lock.
FolderPCs == {"none", "rlock", "check", "read", "lock", "recheck", "request",
              "known", "unknown"}
Asking == FolderPCs \ {"none", "known", "unknown"}

FolderTypeOK ==
    /\ musicFolderID \in {NoID, FolderID}
    /\ readers \subseteq Callers
    /\ writer \subseteq Callers
    /\ call \in [Callers -> FolderPCs]

FolderInit ==
    /\ musicFolderID = NoID
    /\ readers = {}
    /\ writer = {}
    /\ call = [c \in Callers |-> "none"]

Calls(c, pc) == call[c] = pc
Move(c, pc) == call' = [call EXCEPT ![c] = pc]

CallFolder(c) ==
    /\ Calls(c, "none")
    /\ Move(c, "rlock")
    /\ UNCHANGED <<musicFolderID, readers, writer>>

\* That sync.RWMutex also lets a waiting writer go first is a matter of fairness.
RLock(c) ==
    /\ Calls(c, "rlock")
    /\ writer = {}
    /\ readers' = readers \cup {c}
    /\ Move(c, "check")
    /\ UNCHANGED <<musicFolderID, writer>>

Check(c) ==
    /\ Calls(c, "check")
    /\ readers' = readers \ {c}
    /\ Move(c, IF musicFolderID # NoID THEN "read" ELSE "lock")
    /\ UNCHANGED <<musicFolderID, writer>>

\* Without the lock.
ReadUnlocked(c) ==
    /\ Calls(c, "read")
    /\ Move(c, IF musicFolderID # NoID THEN "known" ELSE "unknown")
    /\ UNCHANGED <<musicFolderID, readers, writer>>

Lock(c) ==
    /\ Calls(c, "lock")
    /\ writer = {} /\ readers = {}
    /\ writer' = {c}
    /\ Move(c, "recheck")
    /\ UNCHANGED <<musicFolderID, readers>>

\* Mutant: no double check.
RecheckNothing(c) ==
    /\ Calls(c, "recheck")
    /\ Move(c, "request")
    /\ UNCHANGED <<musicFolderID, readers, writer>>

\* The double check: another caller may have been faster.
Recheck(c) ==
    /\ Calls(c, "recheck")
    /\ IF musicFolderID # NoID THEN Move(c, "known") /\ writer' = {}
       ELSE Move(c, "request") /\ UNCHANGED writer
    /\ UNCHANGED <<musicFolderID, readers>>

\* Mutant: an error leaves the lock taken.
RequestForgetting(c) ==
    /\ Calls(c, "request")
    /\ \/ musicFolderID' = FolderID /\ Move(c, "known") /\ writer' = {}
       \/ Move(c, "unknown") /\ UNCHANGED <<musicFolderID, writer>>
    /\ UNCHANGED readers

\* The folder of that name, or an error: the request, or no such folder.
Request(c) ==
    /\ Calls(c, "request")
    /\ \/ musicFolderID' = FolderID /\ Move(c, "known")
       \/ Move(c, "unknown") /\ UNCHANGED musicFolderID
    /\ writer' = {}
    /\ UNCHANGED readers

ReturnFolder(c) ==
    /\ call[c] \in {"known", "unknown"}
    /\ Move(c, "none")
    /\ UNCHANGED <<musicFolderID, readers, writer>>

FolderRestart ==
    /\ musicFolderID' = NoID
    /\ readers' = {}
    /\ writer' = {}
    /\ call' = [c \in Callers |-> "none"]

AskFolder(c) ==
    \/ RLock(c)
    \/ Check(c)
    \/ ReadUnlocked(c)
    \/ Lock(c)
    \/ Recheck(c)
    \/ Request(c)

FolderNext ==
    \/ \E c \in Callers : CallFolder(c) \/ AskFolder(c) \/ ReturnFolder(c)
    \/ FolderRestart

FolderSpec == FolderInit /\ [][FolderNext]_foldervars

----------------------------------------------------------------------------
\* The read of musicFolderID after RUnlock is no data race: whenever somebody
\* is about to read it so, nobody is about to write it.
NobodyWritesUnderRead ==
    \A c, d \in Callers : Calls(c, "read") => ~Calls(d, "request")

\* For its callers the function is one atomic step, whatever they and the
\* requests that fail interleave: an error is only returned to a caller that asked
\* while the ID was unknown.
Abstract == INSTANCE FolderAnswers WITH
    known <- musicFolderID # NoID,
    answer <- [c \in Callers |-> IF call[c] \in Asking THEN "asked" ELSE call[c]]

ImplementsFolderAnswers == Abstract!Spec
=============================================================================
