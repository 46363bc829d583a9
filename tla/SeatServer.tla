----------------------------- MODULE SeatServer -----------------------------
(* services/seat-service: the holds on seats and the waiting room run in one *)
(* process but share no state, so a behaviour is about one of them, chosen   *)
(* at the start, with the other at rest.                                     *)
EXTENDS SeatHolds, WaitingRoom

VARIABLE part

serverVars == <<part, holdVars, roomVars>>

ServerInit == part \in {"seats", "room"} /\ HoldsInit /\ RoomInit

ServerNext ==
    \/ part = "seats" /\ HoldsNext /\ UNCHANGED <<part, roomVars>>
    \/ part = "room" /\ RoomNext /\ UNCHANGED <<part, holdVars>>

ServerSpec == ServerInit /\ [][ServerNext]_serverVars
=============================================================================
