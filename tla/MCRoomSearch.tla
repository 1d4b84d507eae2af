----------------------------- MODULE MCRoomSearch -----------------------------
(* Instances of RoomSearch for TLC. *)
EXTENDS RoomSearch

CONSTANTS top, jungle, euw, kr

\* Two dates, so that two rooms are sorted by their ids; updates move rooms to
\* the same date or to others.  The first demanded positions differ.
MCListings ==
    [r \in Rooms |->
        CASE r = 1 -> [date |-> 2, demanded |-> <<top>>, region |-> euw]
          [] r = 2 -> [date |-> 1, demanded |-> <<jungle, top>>, region |-> euw]
          [] r = 3 -> [date |-> 2, demanded |-> <<top, jungle>>, region |-> euw]]

MCSearch(kind, P, status, take) ==
    [kind |-> kind, positions |-> P, from |-> 0, to |-> MaxTime,
     status |-> status, take |-> take]

MCSearches ==
    { MCSearch("open", {top}, "NONE", 1), MCSearch("own", {}, "APPROVED", 2),
      MCSearch("own", {}, "PENDING", 1) }
=============================================================================
