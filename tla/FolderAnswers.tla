----------------------------- MODULE FolderAnswers -----------------------------
(***************************************************************************)
(* What GetMusicFolderID promises to its callers: an answer at one instant *)
(* between the call and the return, which is the ID whenever it is known.  *)
(* LibrarySync takes it so for each page of the album list.                *)
(***************************************************************************)
CONSTANT Callers

VARIABLES
    known,      \* the ID has been learnt
    answer      \* caller -> where its call is

vars == <<known, answer>>

Init ==
    /\ known = FALSE
    /\ answer = [c \in Callers |-> "none"]

Become(c, a) == answer' = [answer EXCEPT ![c] = a]

Call(c) ==
    /\ answer[c] = "none"
    /\ Become(c, "asked")
    /\ UNCHANGED known

\* The ID that is known, or that is learnt now.
Succeed(c) ==
    /\ answer[c] = "asked"
    /\ known' = TRUE
    /\ Become(c, "known")

\* An error is never the answer to a question whose answer is known.
Fail(c) ==
    /\ answer[c] = "asked"
    /\ ~known
    /\ Become(c, "unknown")
    /\ UNCHANGED known

Return(c) ==
    /\ answer[c] \in {"known", "unknown"}
    /\ Become(c, "none")
    /\ UNCHANGED known

Restart ==
    /\ known' = FALSE
    /\ answer' = [c \in Callers |-> "none"]

Next ==
    \/ \E c \in Callers : Call(c) \/ Succeed(c) \/ Fail(c) \/ Return(c)
    \/ Restart

Spec == Init /\ [][Next]_vars
=============================================================================
