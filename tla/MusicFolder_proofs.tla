-------------------------- MODULE MusicFolder_proofs --------------------------
(***************************************************************************)
(* Theorems about MusicFolder, for any callers.                            *)
(*                                                                         *)
(* Neither property is inductive.  That nobody writes while the ID is read *)
(* without the lock rests on the double check: who asks the server holds   *)
(* the lock for writing since it saw that the ID is unknown, and nobody    *)
(* else can have learnt it since.                                          *)
(***************************************************************************)
EXTENDS MusicFolder, TLAPS

LocksAreHeld ==
    /\ \A c \in Callers : c \in readers <=> Calls(c, "check")
    /\ \A c \in Callers : c \in writer <=> call[c] \in {"recheck", "request"}
    /\ \A c, d \in writer : c = d
    /\ writer # {} => readers = {}

AnswersAreTrue ==
    \A c \in Callers :
        /\ Calls(c, "request") => musicFolderID = NoID
        /\ call[c] \in {"read", "known"} => musicFolderID # NoID

FolderInv == FolderTypeOK /\ LocksAreHeld /\ AnswersAreTrue

LEMMA InitFolderInv == FolderInit => FolderInv
  BY DEF FolderInit, FolderInv, FolderTypeOK, FolderPCs, LocksAreHeld,
         AnswersAreTrue, Calls

LEMMA MoveMoves ==
    ASSUME FolderTypeOK, NEW c \in Callers, NEW pc \in FolderPCs, Move(c, pc)
    PROVE  /\ call' \in [Callers -> FolderPCs]
           /\ call'[c] = pc
           /\ \A d \in Callers \ {c} : call'[d] = call[d]
  BY DEF FolderTypeOK, Move

LEMMA AskingKeepsInv ==
    ASSUME FolderInv, NEW c \in Callers, AskFolder(c)
    PROVE  FolderInv'
<1> USE DEF FolderInv, FolderTypeOK, LocksAreHeld, AnswersAreTrue, Calls,
            FolderPCs, NoID, FolderID
<1>1. CASE RLock(c)
  BY <1>1, MoveMoves DEF RLock
<1>2. CASE Check(c)
  BY <1>2, MoveMoves DEF Check
<1>3. CASE ReadUnlocked(c)
  BY <1>3, MoveMoves DEF ReadUnlocked
<1>4. CASE Lock(c)
  BY <1>4, MoveMoves DEF Lock
<1>5. CASE Recheck(c)
  <2>1. CASE musicFolderID # NoID
    <3>1. Move(c, "known") /\ writer' = {} /\ writer = {c}
      BY <1>5, <2>1 DEF Recheck
    <3>2. \A d \in Callers : call'[d] = IF d = c THEN "known" ELSE call[d]
      BY <3>1, MoveMoves
    <3>3. FolderTypeOK'
      BY <1>5, <3>1, MoveMoves DEF Recheck
    <3>4. LocksAreHeld'
      BY <1>5, <3>1, <3>2 DEF Recheck
    <3>5. AnswersAreTrue'
      BY <1>5, <2>1, <3>2 DEF Recheck
    <3> QED
      BY <3>3, <3>4, <3>5
  <2>2. CASE musicFolderID = NoID
    BY <1>5, <2>2, MoveMoves DEF Recheck
  <2> QED
    BY <2>1, <2>2
<1>6. CASE Request(c)
  <2>1. \A d \in Callers : d # c => call[d] \notin {"check", "recheck", "request"}
    BY <1>6 DEF Request
  <2>2. CASE musicFolderID' = FolderID /\ Move(c, "known")
    BY <1>6, <2>1, <2>2, MoveMoves DEF Request
  <2>3. CASE Move(c, "unknown") /\ UNCHANGED musicFolderID
    <3> HIDE DEF FolderInv, FolderTypeOK, FolderPCs
    <3>0. FolderTypeOK /\ "unknown" \in FolderPCs
      BY DEF FolderInv, FolderPCs
    <3>1. /\ call' \in [Callers -> FolderPCs]
          /\ \A d \in Callers : call'[d] = IF d = c THEN "unknown" ELSE call[d]
      BY <3>0, <2>3, MoveMoves
    <3>2. FolderTypeOK'
      BY <1>6, <3>0, <3>1, <2>3 DEF Request, FolderTypeOK
    <3>3. LocksAreHeld'
      BY <1>6, <3>1 DEF Request, FolderInv
    <3>4. AnswersAreTrue'
      BY <1>6, <2>1, <2>3, <3>1 DEF Request, FolderInv
    <3> QED
      BY <3>2, <3>3, <3>4 DEF FolderInv
  <2> QED
    BY <1>6, <2>2, <2>3 DEF Request
<1> QED
  BY <1>1, <1>2, <1>3, <1>4, <1>5, <1>6, AskFolder(c) DEF AskFolder

LEMMA NextFolderInv == FolderInv /\ [FolderNext]_foldervars => FolderInv'
<1> SUFFICES ASSUME FolderInv, [FolderNext]_foldervars PROVE FolderInv'
  OBVIOUS
<1> USE DEF FolderInv, FolderTypeOK, LocksAreHeld, AnswersAreTrue, Calls,
            FolderPCs, NoID, FolderID
<1>1. ASSUME NEW c \in Callers, CallFolder(c) PROVE FolderInv'
  BY <1>1, MoveMoves DEF CallFolder
<1>2. ASSUME NEW c \in Callers, AskFolder(c) PROVE FolderInv'
  BY <1>2, AskingKeepsInv
<1>3. ASSUME NEW c \in Callers, ReturnFolder(c) PROVE FolderInv'
  BY <1>3, MoveMoves DEF ReturnFolder
<1>4. CASE FolderRestart
  BY <1>4 DEF FolderRestart
<1>5. CASE UNCHANGED foldervars
  BY <1>5 DEF foldervars
<1> QED
  BY <1>1, <1>2, <1>3, <1>4, <1>5 DEF FolderNext

LEMMA FolderInvariance == FolderSpec => []FolderInv
  BY InitFolderInv, NextFolderInv, PTL DEF FolderSpec

\* The read of musicFolderID after RUnlock (client.go:125) never races with the
\* assignment under the lock, for any number of goroutines.
THEOREM FolderIsReadSafely == FolderSpec => []NobodyWritesUnderRead
<1>1. FolderInv => NobodyWritesUnderRead
  BY DEF FolderInv, AnswersAreTrue, NobodyWritesUnderRead, Calls
<1> QED
  BY <1>1, FolderInvariance, PTL

(***************************************************************************)
(* The refinement.  A caller is asked until it has its answer, so that the *)
(* steps of the lock stutter; the answer is given by the read without the  *)
(* lock, by the double check, or by the request.                           *)
(***************************************************************************)
AnswerOf == [c \in Callers |-> IF call[c] \in Asking THEN "asked" ELSE call[c]]

LEMMA MoveAnswers ==
    ASSUME FolderTypeOK, NEW c \in Callers, NEW pc \in FolderPCs, Move(c, pc)
    PROVE  AnswerOf' = [AnswerOf EXCEPT ![c] =
                          IF pc \in Asking THEN "asked" ELSE pc]
<1>1. \A d \in Callers :
         call'[d] = IF d = c THEN pc ELSE call[d]
  BY MoveMoves
<1> QED
  BY <1>1 DEF AnswerOf

LEMMA WaitingStutters ==
    ASSUME FolderTypeOK, NEW c \in Callers, NEW pc \in Asking, Move(c, pc),
           call[c] \in Asking, musicFolderID' = musicFolderID
    PROVE  UNCHANGED Abstract!vars
<1>1. AnswerOf' = [AnswerOf EXCEPT ![c] = "asked"]
  BY MoveAnswers DEF Asking
<1>2. AnswerOf[c] = "asked" /\ AnswerOf \in [Callers -> FolderPCs \cup {"asked"}]
  BY DEF AnswerOf, FolderTypeOK, FolderPCs
<1>3. AnswerOf' = AnswerOf
  BY <1>1, <1>2
<1> QED
  BY <1>3 DEF AnswerOf, Abstract!vars

LEMMA AskingRefines ==
    ASSUME FolderInv, NEW c \in Callers, AskFolder(c)
    PROVE  [Abstract!Next]_(Abstract!vars)
<1>t. FolderTypeOK
  BY DEF FolderInv
<1>1. CASE RLock(c)
  BY <1>1, <1>t, WaitingStutters DEF RLock, Calls, Asking, FolderPCs
<1>2. CASE Check(c)
  <2>1. CASE Move(c, "read")
    BY <1>2, <1>t, <2>1, WaitingStutters DEF Check, Calls, Asking, FolderPCs
  <2>2. CASE Move(c, "lock")
    BY <1>2, <1>t, <2>2, WaitingStutters DEF Check, Calls, Asking, FolderPCs
  <2> QED
    BY <1>2, <2>1, <2>2 DEF Check
<1>3. CASE Lock(c)
  <2>1. /\ Move(c, "recheck") /\ "recheck" \in Asking /\ call[c] \in Asking
        /\ musicFolderID' = musicFolderID
    BY <1>3 DEF Lock, Calls, Asking, FolderPCs
  <2> QED
    BY <1>t, <2>1, WaitingStutters
<1>4. ASSUME call[c] \in Asking, Move(c, "known"), musicFolderID' # NoID
      PROVE  Abstract!Succeed(c)
  <2>1. AnswerOf' = [AnswerOf EXCEPT ![c] = "known"]
    BY <1>4, <1>t, MoveAnswers DEF Asking, FolderPCs
  <2>2. AnswerOf[c] = "asked"
    BY <1>4 DEF AnswerOf
  <2> QED
    BY <1>4, <2>1, <2>2 DEF AnswerOf, Abstract!Succeed, Abstract!Become
<1>5. CASE ReadUnlocked(c)
  <2>1. musicFolderID # NoID
    BY <1>5 DEF ReadUnlocked, FolderInv, AnswersAreTrue, Calls
  <2>2. Abstract!Succeed(c)
    BY <1>4, <1>5, <2>1 DEF ReadUnlocked, Calls, Asking, FolderPCs
  <2> QED
    BY <2>2 DEF Abstract!Next
<1>6. CASE Recheck(c)
  <2>1. CASE musicFolderID # NoID
    <3>1. Abstract!Succeed(c)
      BY <1>4, <1>6, <2>1 DEF Recheck, Calls, Asking, FolderPCs
    <3> QED
      BY <3>1 DEF Abstract!Next
  <2>2. CASE musicFolderID = NoID
    BY <1>6, <1>t, <2>2, WaitingStutters DEF Recheck, Calls, Asking, FolderPCs
  <2> QED
    BY <2>1, <2>2
<1>7. CASE Request(c)
  <2>1. CASE musicFolderID' = FolderID /\ Move(c, "known")
    <3>1. Abstract!Succeed(c)
      BY <1>4, <1>7, <2>1 DEF Request, Calls, Asking, FolderPCs, NoID, FolderID
    <3> QED
      BY <3>1 DEF Abstract!Next
  <2>2. CASE Move(c, "unknown") /\ UNCHANGED musicFolderID
    <3>1. musicFolderID = NoID
      BY <1>7 DEF Request, FolderInv, AnswersAreTrue
    <3>2. AnswerOf' = [AnswerOf EXCEPT ![c] = "unknown"]
      BY <1>t, <2>2, MoveAnswers DEF Asking, FolderPCs
    <3>3. AnswerOf[c] = "asked"
      BY <1>7 DEF AnswerOf, Request, Calls, Asking, FolderPCs
    <3>4. Abstract!Fail(c)
      BY <2>2, <3>1, <3>2, <3>3 DEF AnswerOf, Abstract!Fail, Abstract!Become
    <3> QED
      BY <3>4 DEF Abstract!Next
  <2> QED
    BY <1>7, <2>1, <2>2 DEF Request
<1> QED
  BY <1>1, <1>2, <1>3, <1>5, <1>6, <1>7, AskFolder(c) DEF AskFolder

LEMMA NextFolderRefinement ==
    FolderInv /\ [FolderNext]_foldervars => [Abstract!Next]_(Abstract!vars)
<1> SUFFICES ASSUME FolderInv, [FolderNext]_foldervars
             PROVE  [Abstract!Next]_(Abstract!vars)
  OBVIOUS
<1>t. FolderTypeOK
  BY DEF FolderInv
<1>1. ASSUME NEW c \in Callers, CallFolder(c) PROVE Abstract!Call(c)
  <2>1. AnswerOf' = [AnswerOf EXCEPT ![c] = "asked"]
    BY <1>1, <1>t, MoveAnswers DEF CallFolder, Asking, FolderPCs
  <2>2. AnswerOf[c] = "none"
    BY <1>1 DEF AnswerOf, CallFolder, Calls, Asking, FolderPCs
  <2> QED
    BY <1>1, <2>1, <2>2 DEF AnswerOf, CallFolder, Abstract!Call, Abstract!Become
<1>2. ASSUME NEW c \in Callers, ReturnFolder(c) PROVE Abstract!Return(c)
  <2>1. AnswerOf' = [AnswerOf EXCEPT ![c] = "none"]
    BY <1>2, <1>t, MoveAnswers DEF ReturnFolder, Asking, FolderPCs
  <2>2. AnswerOf[c] \in {"known", "unknown"}
    BY <1>2 DEF AnswerOf, ReturnFolder, Asking, FolderPCs
  <2> QED
    BY <1>2, <2>1, <2>2
    DEF AnswerOf, ReturnFolder, Abstract!Return, Abstract!Become
<1>3. CASE FolderRestart
  <2>1. AnswerOf' = [c \in Callers |-> "none"]
    BY <1>3 DEF AnswerOf, FolderRestart, Asking, FolderPCs
  <2>2. Abstract!Restart
    BY <1>3, <2>1 DEF AnswerOf, FolderRestart, Abstract!Restart, NoID
  <2> QED
    BY <2>2 DEF Abstract!Next
<1>4. CASE UNCHANGED foldervars
  BY <1>4 DEF foldervars, Abstract!vars
<1>5. ASSUME NEW c \in Callers, AskFolder(c)
      PROVE  [Abstract!Next]_(Abstract!vars)
  BY <1>5, AskingRefines
<1> QED
  BY <1>1, <1>2, <1>3, <1>4, <1>5 DEF FolderNext, Abstract!Next

\* GetMusicFolderID implements FolderAnswers: with its lock, the read without
\* the lock and the requests that fail, it is one atomic step for its callers,
\* as LibrarySync takes it.
THEOREM FolderIsAtomic == FolderSpec => ImplementsFolderAnswers
<1>1. FolderInit => Abstract!Init
  BY DEF FolderInit, Abstract!Init, NoID, Asking, FolderPCs
<1> QED
  BY <1>1, NextFolderRefinement, FolderInvariance, PTL
  DEF FolderSpec, ImplementsFolderAnswers, Abstract!Spec
=============================================================================
