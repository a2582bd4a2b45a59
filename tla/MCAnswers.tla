------------------------------- MODULE MCAnswers -------------------------------
(***************************************************************************)
(* Values for TLC: three albums, in another order by date than by name;    *)
(* or each of which fits a message, but not all together.                  *)
(***************************************************************************)
EXTENDS Answers

CONSTANTS w1, w2

TwoHandlers == {w1, w2}
AllAndRandom == [w \in Callers |-> IF w = w1 THEN AnswerKinds ELSE {"random"}]
ByDate == <<2, 1, 2>>
ByAge == <<1, 3, 2>>
ShortAndLong == <<2, 3, 9>>
OneHandler == {w1}
OnlySearch == [w \in Callers |-> {"search"}]
AllShort == <<4, 3, 2>>
UpToTwo == [kind \in AnswerKinds |-> IF kind = "random" THEN 1 ELSE 2]
=============================================================================
