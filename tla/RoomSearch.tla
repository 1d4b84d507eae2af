------------------------------ MODULE RoomSearch ------------------------------
(***************************************************************************)
(* A client that pages through the rooms it may join, or through its own   *)
(* rooms (league-rooms.repository.ts, boilerplate.polyfill.ts, the page    *)
(* DTOs), while other requests and the clock change what is listed.        *)
(*                                                                         *)
(* A request loads the account, counts the rooms, picks the ids of a page  *)
(* and reads these rooms: four awaits, and nothing keeps the table still   *)
(* between them or between two pages.  Rooms are sorted by ascending date, *)
(* equal dates by their id, which TypeORM appends; the descending order is *)
(* the same with the dates reversed.                                       *)
(*                                                                         *)
(* A position is demanded once here, and not while the client holds it:    *)
(* the DTOs drop what is named twice, and RoomLifecycle shows that it      *)
(* stays so as long as nobody applies twice to a room (NoDoubleBooking).   *)
(***************************************************************************)
EXTENDS Integers, Sequences, FiniteSets, FiniteSetsExt

CONSTANTS
    Rooms,          \* league_room.id: numbers, of which the order matters
    Positions,      \* RIOT_API_POSITIONS
    Regions,        \* RIOT_API_REGIONS
    Listings,       \* bound: the rooms as their creators describe them
    Searches,       \* bound: the searches the client tries (a page has 10 to
                    \* 50 rows in the code, take may be smaller here)
    MaxTime,        \* bound: last date and last value of the clock, in hours
    MaxChanges      \* bound: changes to the rooms during one walk

Orders == {D \in UNION {[1..n -> Positions] : n \in 0..Cardinality(Positions)} :
                \A i, j \in DOMAIN D : D[i] = D[j] => i = j}
Rows == {"NONE", "PENDING", "APPROVED", "REJECTED", "LEFT"}
Times == 0..MaxTime

\* The filters of a search, and the page size.
Queries == [kind : {"open", "own"}, positions : SUBSET Positions,
            from : Times, to : Times, status : Rows, take : Nat \ {0}]

ASSUME FiniteAssumption == IsFiniteSet(Rooms) /\ IsFiniteSet(Positions)
ASSUME IdsAssumption == Rooms \subseteq Int
ASSUME ListingsAssumption ==
    Listings \in [Rooms -> [date : Times, demanded : Orders \ {<<>>}, region : Regions]]
ASSUME SearchesAssumption == Searches \subseteq Queries
ASSUME BoundsAssumption == {MaxTime, MaxChanges} \subseteq Nat \ {0}

VARIABLES
    rooms,      \* what the queries see of league_room and its applications
    region,     \* league_user.region of the client's account
    now,        \* the clock of the database
    walk,       \* the client's walk from page to page, and its request
    shown,      \* how often each room was shown since the walk began
    steady,     \* history: rooms listed all along, at one date
    drift,      \* history: how often a room, or the region, came, went or moved
    fresh,      \* history: rooms shown last that nothing has happened to since
    changes     \* bound: changes during this walk

searchVars == <<rooms, region, now, walk, shown, steady, drift, fresh, changes>>

\* A row of the table: the room, whether somebody else's application to it is
\* APPROVED, and the client's own application.
Absent == [state |-> "ABSENT", date |-> 0, demanded |-> <<>>,
           region |-> CHOOSE x \in Regions : TRUE, others |-> FALSE,
           row |-> "NONE", position |-> CHOOSE p \in Positions : TRUE]

Created(r) ==
    [Absent EXCEPT !.state = "LIVE", !.others = TRUE, !.date = Listings[r].date,
                   !.demanded = Listings[r].demanded, !.region = Listings[r].region]

\* The room once the client has been let in to the position it demands first.
Joined(r) ==
    [Created(r) EXCEPT !.row = "APPROVED", !.position = Listings[r].demanded[1],
                       !.demanded = Tail(@)]

SearchTypeOK ==
    /\ rooms \in [Rooms -> [state : {"ABSENT", "LIVE", "REMOVED"}, date : Times,
                            demanded : Orders, region : Regions, others : BOOLEAN,
                            row : Rows, position : Positions]]
    /\ region \in Regions
    /\ now \in Times
    /\ walk.at \in {"idle", "asked", "loaded", "counted", "picked", "answered"}
    /\ walk.page \in 1..Cardinality(Rooms)
    /\ shown \in [Rooms -> 0..Cardinality(Rooms)]
    /\ steady \subseteq Rooms /\ fresh \subseteq Rooms
    /\ changes \in 0..MaxChanges

-----------------------------------------------------------------------------
(* The queries. *)

\* The first join of searchRooms.
HasMember(r) == rooms[r].others \/ rooms[r].row = "APPROVED"

\* Mutant (FoundRoomsAreThere): rooms the client has applied to are listed.
IsOpenToAnybody(r, s, x) ==
    /\ rooms[r].state = "LIVE" /\ HasMember(r)
    /\ rooms[r].date > now /\ rooms[r].region = x
    /\ rooms[r].demanded # <<>>
    /\ s.from <= rooms[r].date /\ rooms[r].date <= s.to
    /\ s.positions # {} => rooms[r].demanded[1] \in s.positions

\* searchRooms for an account of region x: of the demanded positions only the
\* first is compared.
IsOpen(r, s, x) ==
    /\ rooms[r].state = "LIVE" /\ HasMember(r)
    /\ rooms[r].row = "NONE"
    /\ rooms[r].date > now /\ rooms[r].region = x
    /\ rooms[r].demanded # <<>>
    /\ s.from <= rooms[r].date /\ rooms[r].date <= s.to
    /\ s.positions # {} => rooms[r].demanded[1] \in s.positions

\* searchUserRooms binds the parameter status twice, and the status that is
\* asked for, bound last, counts in both joins: nobody need be APPROVED.
IsOwn(r, s, x) ==
    /\ rooms[r].state = "LIVE"
    /\ rooms[r].row = s.status
    /\ rooms[r].date > now - 1 /\ rooms[r].region = x

Matches(r, s, x) == IF s.kind = "open" THEN IsOpen(r, s, x) ELSE IsOwn(r, s, x)
Result(s, x) == {r \in Rooms : Matches(r, s, x)}

\* getRoomDetails
SeesDetails(r) == rooms[r].state = "LIVE" /\ rooms[r].row = "APPROVED"

\* findOneByIdAndRegion, and the position must be demanded.
AcceptsApplication(r, p) ==
    /\ rooms[r].state = "LIVE" /\ rooms[r].region = region /\ rooms[r].date > now
    /\ \E i \in DOMAIN rooms[r].demanded : rooms[r].demanded[i] = p

\* Mutant (QuietWalkShowsEveryRoom): pages are counted from 0.
SkipWholePage(page, take) == page * take

Skip(page, take) == (page - 1) * take

\* ORDER BY date, and by the primary key.
Precedes(q, r) ==
    \/ rooms[q].date < rooms[r].date
    \/ rooms[q].date = rooms[r].date /\ q < r

\* How many rooms of R stand before r.
Rank(r, R) == Cardinality({q \in R : Precedes(q, r)})

\* OFFSET and LIMIT
Page(R, page, take) ==
    {r \in R : Skip(page, take) <= Rank(r, R) /\ Rank(r, R) < Skip(page, take) + take}

\* Mutant (DriftIsBounded): the last, incomplete page is forgotten.
PageCountOfWholePages(count, take) == count \div take

PageCount(count, take) == (count + take - 1) \div take

HasNextPage(page, count, take) == page < PageCount(count, take)

-----------------------------------------------------------------------------
(* The list as it stands, and what becomes of it during a walk. *)

Listed(r, s) == IF Matches(r, s, region) THEN rooms[r].date ELSE -1

Idle == [at |-> "idle", search |-> CHOOSE s \in Searches : TRUE, kept |-> TRUE,
         page |-> 1, region |-> region, count |-> 0, ids |-> {}, next |-> FALSE]

SInit ==
    /\ \E E \in SUBSET Rooms : \E M \in SUBSET E :
        rooms = [r \in Rooms |-> IF r \in M THEN Joined(r) ELSE
                                 IF r \in E THEN Created(r) ELSE Absent]
    /\ region \in {Listings[r].region : r \in Rooms}
    /\ now = 0
    /\ walk = Idle
    /\ shown = [r \in Rooms |-> 0]
    /\ steady = {}
    /\ drift = 0
    /\ fresh = {}
    /\ changes = 0

-----------------------------------------------------------------------------
(* The client and its requests. *)

\* The client asks for the first page.
StartWalk(s) ==
    /\ walk.at = "idle"
    /\ walk' = [Idle EXCEPT !.at = "asked", !.search = s]
    /\ shown' = [r \in Rooms |-> 0]
    /\ steady' = Result(s, region)
    /\ drift' = 0
    /\ UNCHANGED <<rooms, region, now, fresh, changes>>

\* GET /league/rooms
SearchLeagueRooms ==
    \E s \in Searches : s.kind = "open" /\ StartWalk(s)

\* GET /league/rooms/me
SearchUserRooms ==
    \E s \in Searches : s.kind = "own" /\ StartWalk(s)

\* LeagueRoomsService loads the user with his account.
LoadUser ==
    /\ walk.at = "asked"
    /\ walk' = [walk EXCEPT !.at = "loaded", !.region = region]
    /\ UNCHANGED <<rooms, region, now, shown, steady, drift, fresh, changes>>

\* paginate(): getCount()
Count ==
    /\ walk.at = "loaded"
    /\ walk' = [walk EXCEPT !.at = "counted",
                            !.count = Cardinality(Result(walk.search, walk.region))]
    /\ UNCHANGED <<rooms, region, now, shown, steady, drift, fresh, changes>>

\* paginate(): the first query of getRawAndEntities()
PickIds ==
    /\ walk.at = "counted"
    /\ walk' = [walk EXCEPT !.at = "picked",
            !.ids = Page(Result(walk.search, walk.region), walk.page, walk.search.take)]
    /\ UNCHANGED <<rooms, region, now, shown, steady, drift, fresh, changes>>

\* paginate(): the second query, with the same conditions, and the answer.
AnswerPage ==
    /\ walk.at = "picked"
    /\ LET found == {r \in walk.ids : Matches(r, walk.search, walk.region)} IN
        /\ shown' = [r \in Rooms |-> shown[r] + IF r \in found THEN 1 ELSE 0]
        /\ walk' = [walk EXCEPT !.at = "answered", !.ids = found,
                                !.next = HasNextPage(walk.page, walk.count, walk.search.take)]
        /\ fresh' = found
    /\ UNCHANGED <<rooms, region, now, steady, drift, changes>>

\* PageLinksDto: the links name the page, take and order, and no filter.
Unfiltered(s) == [s EXCEPT !.positions = {}, !.from = 0, !.to = MaxTime]

\* Who follows the link to the next page leaves his filters behind.  The link
\* is refused (422) for his own rooms, whose status cannot be left out.
FollowNextLink ==
    /\ walk.at = "answered" /\ walk.next
    /\ walk.search.kind = "open"
    /\ walk' = [walk EXCEPT !.at = "asked", !.page = @ + 1,
                            !.search = Unfiltered(@),
                            !.kept = @ /\ walk.search = Unfiltered(walk.search)]
    /\ UNCHANGED <<rooms, region, now, shown, steady, drift, fresh, changes>>

\* A client may also repeat its search for the next page.
AskNextPage ==
    /\ walk.at = "answered" /\ walk.next
    /\ walk' = [walk EXCEPT !.at = "asked", !.page = @ + 1]
    /\ UNCHANGED <<rooms, region, now, shown, steady, drift, fresh, changes>>

-----------------------------------------------------------------------------
(* What changes the list: the handlers of RoomLifecycle, as far as the     *)
(* queries can tell, the account and the clock.                            *)

\* Every change is held against the walk that is under way.
Changing ==
    /\ walk.at # "idle" /\ changes < MaxChanges
    /\ UNCHANGED <<walk, shown>>
    /\ changes' = changes + 1
    /\ drift' = drift + Cardinality({r \in Rooms :
                    Listed(r, walk.search)' # Listed(r, walk.search)})
                + (IF region' = region THEN 0 ELSE 1)
    /\ steady' = {r \in steady : Listed(r, walk.search)' = Listed(r, walk.search)}

\* Mutant (SearchTypeOK): the last position is moved to the place of p, and is
\* not dropped where it was.
WithoutDropping(D, p) ==
    [i \in DOMAIN D |-> IF D[i] = p THEN D[Len(D)] ELSE D[i]]

\* Positions are distinct here, so filtering p out of those demanded drops one.
Without(D, p) ==
    LET k == CHOOSE i \in DOMAIN D : D[i] = p IN
    [i \in 1..(Len(D) - 1) |-> IF i < k THEN D[i] ELSE D[i + 1]]

RoomChanges(r, room) ==
    /\ rooms' = [rooms EXCEPT ![r] = room]
    /\ fresh' = fresh \ {r}
    /\ UNCHANGED <<region, now>>
    /\ Changing

\* Another user creates a room.
CreateRoom(r) ==
    /\ rooms[r].state = "ABSENT"
    /\ RoomChanges(r, Created(r))

\* The position of the client's APPROVED application.
HeldByClient(r) == IF rooms[r].row = "APPROVED" THEN {rooms[r].position} ELSE {}

\* Its owner changes the date, the demanded positions or both; a pending
\* application to a position off the new list is rejected.
UpdateRoom(r) ==
    /\ rooms[r].state = "LIVE"
    /\ \E d \in Times :
        \/ RoomChanges(r, [rooms[r] EXCEPT !.date = d])
        \/ \E D \in Orders :
            /\ HeldByClient(r) \cap Range(D) = {}
            /\ RoomChanges(r, [rooms[r] EXCEPT !.date = d, !.demanded = D,
                    !.row = IF @ = "PENDING" /\ rooms[r].position \notin Range(D)
                            THEN "REJECTED" ELSE @])

\* Another user's application is approved; another member leaves, or is
\* rejected, in which case his position is not demanded again.  He may have
\* been the last one.
MembersChange(r) ==
    /\ rooms[r].state = "LIVE"
    /\ \/ \E p \in Range(rooms[r].demanded) :
            RoomChanges(r, [rooms[r] EXCEPT !.demanded = Without(@, p), !.others = TRUE])
       \/ /\ rooms[r].others
          /\ \E some \in BOOLEAN :
                \/ \E p \in Positions \ (Range(rooms[r].demanded) \cup HeldByClient(r)) :
                    RoomChanges(r, [rooms[r] EXCEPT !.demanded = Append(@, p), !.others = some])
                \/ RoomChanges(r, [rooms[r] EXCEPT !.others = some])

\* The room is removed, or its owner leaves it.
RemoveRoom(r) ==
    /\ rooms[r].state = "LIVE"
    /\ RoomChanges(r, [rooms[r] EXCEPT !.state = "REMOVED", !.others = FALSE,
            !.row = IF @ = "PENDING"  THEN "REJECTED" ELSE
                    IF @ = "APPROVED" THEN "LEFT"     ELSE @])

\* The client applies to a room; one application per room will do here.
Apply(r) ==
    /\ rooms[r].row = "NONE"
    /\ \E p \in Positions :
        /\ AcceptsApplication(r, p)
        /\ RoomChanges(r, [rooms[r] EXCEPT !.row = "PENDING", !.position = p])

\* The client's application is approved or rejected, whatever its status.
HandleApplication(r) ==
    /\ rooms[r].state = "LIVE" /\ rooms[r].row # "NONE"
    /\ \/ /\ rooms[r].position \in Range(rooms[r].demanded)
          /\ RoomChanges(r, [rooms[r] EXCEPT !.row = "APPROVED",
                                !.demanded = Without(@, rooms[r].position)])
       \/ RoomChanges(r, [rooms[r] EXCEPT !.row = "REJECTED"])

\* The client leaves a room it sees.
LeaveRoom(r) ==
    /\ SeesDetails(r)
    /\ RoomChanges(r, [rooms[r] EXCEPT !.row = "LEFT",
                            !.demanded = Append(@, rooms[r].position)])

\* PATCH of the league account moves it to another region.
UpdateAccount ==
    /\ region' \in Regions \ {region}
    /\ UNCHANGED <<rooms, now, fresh>>
    /\ Changing

TimePasses ==
    /\ now' \in (now + 1)..MaxTime
    /\ fresh' = {}
    /\ UNCHANGED <<rooms, region>>
    /\ Changing

SNext ==
    \/ SearchLeagueRooms \/ SearchUserRooms
    \/ LoadUser \/ Count \/ PickIds \/ AnswerPage
    \/ FollowNextLink \/ AskNextPage
    \/ \E r \in Rooms :
        \/ CreateRoom(r) \/ UpdateRoom(r) \/ MembersChange(r) \/ RemoveRoom(r)
        \/ Apply(r) \/ HandleApplication(r) \/ LeaveRoom(r)
    \/ UpdateAccount \/ TimePasses

SSpec == SInit /\ [][SNext]_searchVars

-----------------------------------------------------------------------------
(* Safety. *)

\* The client has asked for every page, always for the same search.
Complete == walk.at = "answered" /\ ~walk.next /\ walk.kept

\* Every time a room of S was shown.
Showings(S) == {x \in S \X (1..Cardinality(Rooms)) : x[2] <= shown[x[1]]}

\* While nothing changes, every room of the list is shown once and no other
\* room is, from the first page to the last, and then there is an end: also
\* when a page ends between two rooms of the same date.
QuietWalkShowsEveryRoom ==
    Complete /\ drift = 0 =>
        \A r \in Rooms :
            shown[r] = IF r \in Result(walk.search, region) THEN 1 ELSE 0

\* When the list changes below a client, every room that comes, goes or moves
\* costs at most one other room that is missed and one that is shown twice,
\* whenever it happens: between two pages, between the count and the rows, or
\* between their two queries.  (One room that comes after the last page was
\* counted does both.)
DriftIsBounded ==
    Complete =>
        /\ Cardinality({r \in steady : shown[r] = 0}) <= drift
        /\ Cardinality(Showings(steady))
            <= Cardinality({r \in steady : shown[r] > 0}) + drift

\* What is shown can be used, whatever has happened to other rooms in between.
\* A room that is open accepts an application of the client to a position he
\* searched for, unless his account has moved since it was loaded: then all
\* refuse him.  A room he is a member of opens even so.  Three handlers have to
\* agree on what is live, near and early enough.
FoundRoomsAreThere ==
    walk.at = "answered" =>
        \A r \in walk.ids \cap fresh :
            IF walk.search.kind = "own"
            THEN walk.search.status = "APPROVED" => SeesDetails(r)
            ELSE /\ rooms[r].row = "NONE"
                 /\ walk.region = region <=>
                        \E p \in Positions :
                            /\ AcceptsApplication(r, p)
                            /\ walk.search.positions # {} => p \in walk.search.positions

(* What a comment of the repository says, and the code does not do. *)

\* The link to the next page leads to a page of the same search.
NextLinkStaysInSearch ==
    [][FollowNextLink => walk'.search = walk.search]_searchVars
=============================================================================
