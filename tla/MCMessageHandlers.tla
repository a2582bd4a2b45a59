-------------------------- MODULE MCMessageHandlers --------------------------
(***************************************************************************)
(* Model values and symmetry for TLC.                                      *)
(***************************************************************************)
EXTENDS MessageHistory, TLC

CONSTANTS h1, h2, t1, alice

Nobody == {}
OneSender == {t1}
TwoHandlers == {h1, h2}
OneWord == {alice}
OneName == {alice}
NamePassword == [name \in OneName |-> alice]
HandlerSymmetry == Permutations(Handlers)
=============================================================================
