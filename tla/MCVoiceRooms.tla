---------------------------- MODULE MCVoiceRooms ----------------------------
(* A small instance of VoiceRooms: one account on two devices, one of which *)
(* may reconnect.                                                           *)
EXTENDS VoiceRooms, TLC

CONSTANTS a, b, pc, phone, alice

\* The PC has a second socket to reconnect on, the phone one.
TwoDevices == <<pc, phone, pc>>
OneAccount == pc :> alice @@ phone :> alice

\* No action reads what the last step sent.
StateView == <<conn, task, rooms, joined, tomb, drops, recalls, evicting, raced, events>>
RoomSymmetry == Permutations(Rooms)
=============================================================================
