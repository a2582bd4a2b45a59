-------------------------- MODULE MCActivityEngine --------------------------
(***************************************************************************)
(* Model values and symmetry for TLC.                                      *)
(***************************************************************************)
EXTENDS ActivityHistory

CONSTANTS u1, u2, u3, u4, w1, w2, t1, t2, i1

OneUser == {u1}
TwoUsers == {u1, u2}
ThreeUsers == {u1, u2, u3}
FourUsers == {u1, u2, u3, u4}
OneWorker == {w1}
TwoWorkers == {w1, w2}
OneSender == {t1}
TwoSenders == {t1, t2}
OneItem == {i1}
Everything == [t \in ItemTypes |-> Items]
OnlyEverything == {Everything}
NoFavourites == {NothingStarred}
SomeFavourites == {Everything, [NothingStarred EXCEPT !["album"] = Items]}

WorkerSymmetry == Permutations(Workers)
WorkerAndUserSymmetry == Permutations(Workers) \cup Permutations(Users)
=============================================================================
