------------------------------- MODULE MCRoom -------------------------------
(* Small instances of Room for TLC: the room is not destroyed, and the      *)
(* server sends no data frames, of which heartbeats take no notice.         *)
EXTENDS Room

Silent == io'.pc # "on_message"
LivingSpec == RoomInit /\ [][RoomLives /\ Silent]_allRoomVars /\ RoomFairness
=============================================================================
