--------------------------- MODULE MCClientServer ---------------------------
(* ClientServer with constants for TLC. *)
EXTENDS ClientServer

TwoIds == 1..2
OneId == {1}
First == {1}
Second == {2}
Nobody == {}
AlwaysSent == {"sent"}
=============================================================================
