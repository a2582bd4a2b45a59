------------------------------ MODULE MCDailyJob ------------------------------
(***************************************************************************)
(* Model values for TLC: one album, two chats and one command.             *)
(***************************************************************************)
EXTENDS DailyJob, TLC

CONSTANTS a1, c1, c2, command

OneAlbum == {a1}
OneCommand == {command}
TwoChats == {c1, c2}
=============================================================================
