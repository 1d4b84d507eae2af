--------------------------- MODULE MCRoomLifecycle ---------------------------
(* Instances of RoomLifecycle for TLC. *)
EXTENDS RoomLifecycle

CONSTANTS u1, u2, u3, top, jungle

\* The creator at one position, two applicants to the other, one of them with
\* a second application to it and one to the creator's position.
MCApplications ==
    { [user |-> u1, position |-> top,    nth |-> 1],
      [user |-> u2, position |-> jungle, nth |-> 1],
      [user |-> u2, position |-> jungle, nth |-> 2],
      [user |-> u2, position |-> top,    nth |-> 1],
      [user |-> u3, position |-> jungle, nth |-> 1] }
=============================================================================
