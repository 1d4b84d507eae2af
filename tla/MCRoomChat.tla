------------------------------ MODULE MCRoomChat ------------------------------
(* Instances of RoomChat for TLC. *)
EXTENDS RoomChat

CONSTANTS u1, u2, top, jungle

\* The creator, and another user who applies for the other position.
MCApplications ==
    { [user |-> u1, position |-> top,    nth |-> 1],
      [user |-> u2, position |-> jungle, nth |-> 1] }
=============================================================================
