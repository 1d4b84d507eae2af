--------------------------- MODULE MCRoomRequests ---------------------------
(* Instances of RoomRequests for TLC. *)
EXTENDS RoomRequests, TLC

CONSTANTS u1, u2, u3, top, jungle, middle, s1, s2

\* Two users, one of them with two applications.
TwoUsers ==
    { [user |-> u1, position |-> top,    nth |-> 1],
      [user |-> u2, position |-> jungle, nth |-> 1],
      [user |-> u2, position |-> jungle, nth |-> 2] }

\* Three users with one application each, for different positions.
ThreeUsers ==
    { [user |-> u1, position |-> top,    nth |-> 1],
      [user |-> u2, position |-> jungle, nth |-> 1],
      [user |-> u3, position |-> middle, nth |-> 1] }

SlotSymmetry == Permutations(Slots)
=============================================================================
