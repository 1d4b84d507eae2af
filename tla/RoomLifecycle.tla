---------------------------- MODULE RoomLifecycle ----------------------------
(***************************************************************************)
(* The life of one league room, as league-rooms.service.ts and             *)
(* league-room-applications.service.ts drive it when requests are handled  *)
(* one at a time: every handler is one atomic step.  RoomRequests splits   *)
(* the same handlers at their awaits and is shown to implement this module *)
(* when a single request is in flight.                                     *)
(*                                                                         *)
(* Rooms share no rows, so the module follows one room and the             *)
(* applications to it.  An application row is identified by who applied,   *)
(* for which position, and a number: these columns never change.  A        *)
(* refused request (403, 404, 400, 422) changes nothing and is no step.    *)
(***************************************************************************)
EXTENDS Integers, FiniteSets

CONSTANTS
    Users,          \* league_user rows; a deleted one never comes back
    LocalUsers,     \* those whose region is the room's
    Positions,      \* RIOT_API_POSITIONS
    Applications,   \* the application rows that may be inserted
    MaxDemand,      \* bound: copies of one position in demandedPositions
    MaxTime         \* bound: last value of the clock

ASSUME LocalUsersAssumption == LocalUsers \subseteq Users
ASSUME ApplicationsAssumption ==
    Applications \subseteq [user : Users, position : Positions, nth : Nat]
ASSUME PositionsAssumption == IsFiniteSet(Positions)
ASSUME BoundsAssumption == MaxDemand \in Nat \ {0} /\ MaxTime \in Nat

VARIABLES
    room,       \* "ABSENT", "LIVE", or "REMOVED" once deletedAt is set
    date,       \* league_room.date
    demanded,   \* league_room.demanded_positions, as a bag
    status,     \* league_room_application.status, "NONE" where there is no row
    owners,     \* the application rows with isOwner = true
    accounts,   \* the league_user rows that exist
    now         \* the database's and the process's clock

vars == <<room, date, demanded, status, owners, accounts, now>>

Statuses == {"NONE", "PENDING", "APPROVED", "REJECTED", "LEFT"}

\* The process starts at time 0.  A request may name an earlier date.
Times == 0..MaxTime
RequestedDates == -1..MaxTime

TypeOK ==
    /\ room \in {"ABSENT", "LIVE", "REMOVED"}
    /\ date \in Times
    /\ demanded \in [Positions -> 0..MaxDemand]
    /\ status \in [Applications -> Statuses]
    /\ owners \subseteq Applications
    /\ accounts \subseteq Users
    /\ now \in Times

Init ==
    /\ room = "ABSENT"
    /\ date = 0
    /\ demanded = [p \in Positions |-> 0]
    /\ status = [a \in Applications |-> "NONE"]
    /\ owners = {}
    /\ accounts = Users
    /\ now = 0

-----------------------------------------------------------------------------
(* What the queries and guards see.  An operator whose comment begins with *)
(* "Mutant" is a plausible wrong form of the definition that follows it,   *)
(* under which the property it names fails.                                *)

Rows(u) == {a \in Applications : a.user = u /\ status[a] # "NONE"}

IsMember(u) == \E a \in Rows(u) : status[a] = "APPROVED"

\* LeagueRoomGuard takes the row getOne() happens to return among the
\* caller's rows in the room, whatever its status.
PassesGuard(u) == Rows(u) # {}

\* Mutant (OwnerlessRoomIsStuck): @RoomOwnerOnly forgotten.
PassesOwnerGuardAnyone(u) == Rows(u) # {}

PassesOwnerGuard(u) == \E a \in Rows(u) : a \in owners

\* getRoomDetails joins an APPROVED row of the caller and skips deleted rooms.
SeesDetails(u) == room = "LIVE" /\ IsMember(u)

\* Mutant (RemovedRoomFrozen): the room is not joined.
CanBeHandledWithoutJoin(a) == status[a] # "NONE"

\* findOneByIdAndRegion, for the region of user u.
FindsRoomToApply(u) == room = "LIVE" /\ u \in LocalUsers /\ date > now

\* findByRoomIdAndApplicationId joins the room, so not when it is deleted.
CanBeHandled(a) == room = "LIVE" /\ status[a] # "NONE"

\* Mutant (PendingReachesOwner): the owner has to be a member as well.
IsRoomOwnerAndMember(u) == \E a \in Rows(u) : a \in owners /\ status[a] = "APPROVED"

\* checkIfIsRoomOwner and findByApplicationStatus; neither joins the room.
IsRoomOwner(u) == \E a \in Rows(u) : a \in owners
ApplicationsWith(s) == {a \in Applications : status[a] = s}

\* GET /league/rooms/:roomId/applications
ListsApplications(u, s) == IF IsRoomOwner(u) THEN ApplicationsWith(s) ELSE {}

\* What the serializers show of a room.
CurrentPlayers == Cardinality(ApplicationsWith("APPROVED"))
RequiredPlayers ==
    CurrentPlayers
        + Cardinality({x \in Positions \X (1..MaxDemand) : x[2] <= demanded[x[1]]})

\* @MinDate(new Date()) is evaluated once, when the class is loaded: a date
\* is refused only if it lies before the start of the process.
AcceptsDate(d) == d >= 0

BagOf(D) == [p \in Positions |-> IF p \in D THEN 1 ELSE 0]

\* Mutant (RemovedRoomFallsSilent): the members keep their rows.
DissolvedPendingOnly(s) ==
    [a \in Applications |-> IF s[a] = "PENDING" THEN "REJECTED" ELSE s[a]]

\* Mutant (RemovedRoomQuiescent): pending applications are forgotten.
DissolvedMembersOnly(s) ==
    [a \in Applications |-> IF s[a] = "APPROVED" THEN "LEFT" ELSE s[a]]

\* LeagueRoom.remove()
Dissolved(s) ==
    [a \in Applications |-> IF s[a] = "PENDING"  THEN "REJECTED" ELSE
                            IF s[a] = "APPROVED" THEN "LEFT"     ELSE s[a]]

-----------------------------------------------------------------------------
(* The handlers. *)

\* POST /league/rooms by the user of row a, who takes a.position himself.
CreateNewRoom(a) ==
    /\ room = "ABSENT"
    /\ a.user \in accounts
    /\ \E D \in SUBSET Positions :
        /\ D # {}
        /\ a.position \notin D
        /\ demanded' = BagOf(D)
    /\ \E d \in RequestedDates : AcceptsDate(d) /\ date' = d
    /\ room' = "LIVE"
    /\ status' = [status EXCEPT ![a] = "APPROVED"]
    /\ owners' = {a}
    /\ UNCHANGED <<accounts, now>>

\* POST /league/rooms/:roomId/applications.  Nothing looks for another
\* application of the same user.
Apply(a) ==
    /\ a.user \in accounts
    /\ FindsRoomToApply(a.user)
    /\ demanded[a.position] > 0
    /\ status[a] = "NONE"
    /\ status' = [status EXCEPT ![a] = "PENDING"]
    /\ UNCHANGED <<room, date, demanded, owners, accounts, now>>

\* LeagueRoom.removeDemandedPosition drops every copy, or throws.
\* Mutant (TypeOK): it takes one copy off, found or not.
RemoveOneDemandedPosition(p) == demanded' = [demanded EXCEPT ![p] = @ - 1]

RemoveDemandedPosition(p) ==
    /\ demanded[p] > 0
    /\ demanded' = [demanded EXCEPT ![p] = 0]

\* Mutant (PlacesAreKept): the position is not taken off the room.
ApproveRowOnly(a) ==
    /\ demanded[a.position] > 0
    /\ status' = [status EXCEPT ![a] = "APPROVED"]
    /\ UNCHANGED demanded

\* The two strategies.  Neither looks at the status the row has.
Approve(a) ==
    /\ RemoveDemandedPosition(a.position)
    /\ status' = [status EXCEPT ![a] = "APPROVED"]

Reject(a) ==
    /\ status' = [status EXCEPT ![a] = "REJECTED"]
    /\ UNCHANGED demanded

\* PATCH /league/rooms/:roomId/applications/:applicationId by user u.
HandleApplication(u, a) ==
    /\ PassesOwnerGuard(u)
    /\ CanBeHandled(a)
    /\ Approve(a) \/ Reject(a)
    /\ UNCHANGED <<room, date, owners, accounts, now>>

\* The optional fields of UpdateLeagueRoomDto, applied by updateDetails.
UpdateDate ==
    \/ UNCHANGED date
    \/ \E d \in RequestedDates : AcceptsDate(d) /\ date' = d

\* Pending applications to a position off the new list D are rejected.
RejectedOutside(D, s) ==
    [a \in Applications |->
        IF s[a] = "PENDING" /\ a.position \notin D THEN "REJECTED" ELSE s[a]]

\* Mutant (NoDoubleBooking): the positions already filled are not looked at.
AcceptsAnyPositions(D) == Cardinality(D) <= 4

AcceptsPositions(D) ==
    /\ Cardinality(D) <= 4
    /\ \A a \in Applications : status[a] = "APPROVED" => a.position \notin D

UpdateDemandedPositions ==
    \/ UNCHANGED <<demanded, status>>
    \/ \E D \in SUBSET Positions :
        /\ AcceptsPositions(D)
        /\ demanded' = BagOf(D)
        /\ status' = RejectedOutside(D, status)

\* Mutant (OneOwner): the isOwner flags of the other rows are not reset.
SetOwnerWithoutReset ==
    \/ UNCHANGED owners
    \/ \E v \in Users : Rows(v) # {} /\ owners' = owners \cup Rows(v)

\* Mutant (OwnerLostOnlyWithAccount): the new owner is not looked up.
SetOwnerUnchecked ==
    \/ UNCHANGED owners
    \/ \E v \in Users : owners' = Rows(v)

SetOwner ==
    \/ UNCHANGED owners
    \/ \E v \in Users : Rows(v) # {} /\ owners' = Rows(v)

\* PATCH /league/rooms/:roomId
UpdateRoom(u) ==
    /\ PassesOwnerGuard(u)
    /\ SeesDetails(u)
    /\ UpdateDate
    /\ UpdateDemandedPositions
    /\ SetOwner
    /\ UNCHANGED <<room, accounts, now>>

\* DELETE /league/rooms/:roomId/me.  The row that is left is the one
\* findByLeagueUserAndRoomId happens to return.
LeaveRoom(u) ==
    /\ PassesGuard(u)
    /\ SeesDetails(u)
    /\ \E a \in Rows(u) :
        LET left == [status EXCEPT ![a] = "LEFT"] IN
        /\ demanded[a.position] < MaxDemand
        /\ demanded' = [demanded EXCEPT ![a.position] = @ + 1]
        /\ \/ a \notin owners /\ status' = left /\ UNCHANGED room
           \/ a \in owners /\ status' = Dissolved(left) /\ room' = "REMOVED"
    /\ UNCHANGED <<date, owners, accounts, now>>

\* DELETE /league/rooms/:roomId
RemoveRoom(u) ==
    /\ PassesOwnerGuard(u)
    /\ SeesDetails(u)
    /\ status' = Dissolved(status)
    /\ room' = "REMOVED"
    /\ UNCHANGED <<date, demanded, owners, accounts, now>>

\* DELETE of the league account: the rows of the account go with it
\* (ON DELETE CASCADE), and nothing else of the room changes.
DeleteLeagueUser(u) ==
    /\ u \in accounts
    /\ accounts' = accounts \ {u}
    /\ status' = [a \in Applications |->
                    IF a.user = u THEN "NONE" ELSE status[a]]
    /\ owners' = {a \in owners : a.user # u}
    /\ UNCHANGED <<room, date, demanded, now>>

TimePasses ==
    /\ now' \in (now + 1)..MaxTime
    /\ UNCHANGED <<room, date, demanded, status, owners, accounts>>

Next ==
    \/ \E a \in Applications :
        \/ CreateNewRoom(a)
        \/ Apply(a)
        \/ \E u \in Users : HandleApplication(u, a)
    \/ \E u \in Users :
        UpdateRoom(u) \/ LeaveRoom(u) \/ RemoveRoom(u) \/ DeleteLeagueUser(u)
    \/ TimePasses

Spec == Init /\ [][Next]_vars

-----------------------------------------------------------------------------
(* Safety. *)

\* Nobody waits for an answer from a removed room and nobody is a member of
\* it: LeagueRoom.remove() settles every row, and no handler unsettles one.
RemovedRoomQuiescent ==
    room = "REMOVED" =>
        \A a \in Applications : status[a] \notin {"PENDING", "APPROVED"}

\* Only one user owns a room, through rows that exist: setOwner clears every
\* other isOwner flag, and the guards of the handlers rely on it.
OneOwner ==
    /\ \A a \in owners : status[a] # "NONE"
    /\ \A a, b \in owners : a.user = b.user

\* Nobody has applied twice, the creation of the room included, and no
\* account has been deleted (which would erase the traces).
SingleApplications ==
    /\ accounts = Users
    /\ \A a, b \in Applications :
        status[a] # "NONE" /\ status[b] # "NONE" /\ a.user = b.user => a = b

\* As long as nobody has applied twice, a position is filled by one member at
\* most, is not demanded while it is filled, and is demanded once at most:
\* applying, approving, re-approving, leaving and updating keep the demanded
\* positions and the approved rows in step.  A user with two rows breaks it,
\* because leaveRoom may pick the row that is not his membership.
NoDoubleBooking ==
    SingleApplications =>
        /\ \A p \in Positions : demanded[p] <= 1
        /\ \A a \in Applications : status[a] = "APPROVED" =>
            /\ demanded[a.position] = 0
            /\ \A b \in Applications :
                status[b] = "APPROVED" /\ b.position = a.position => a = b

\* Nobody waits for an answer that nobody can give: a pending application is
\* listed for a user whose account exists, and who passes the guard and finds
\* the row when he decides about it, whichever of his own rows the guard takes.
\* (Unless the owner's account is gone, or somebody has applied twice: an
\* owner who applies to his own room may be turned away.)
PendingReachesOwner ==
    owners # {} /\ SingleApplications =>
        \A a \in ApplicationsWith("PENDING") :
            /\ CanBeHandled(a)
            /\ \E u \in accounts :
                /\ a \in ListsApplications(u, "PENDING")
                /\ \A b \in Rows(u) : b \in owners

(* What a step may never do. *)

\* Soft deletion is final: no handler brings a removed room back, touches its
\* demanded positions or decides about a row of it; rows only disappear with
\* the account they belong to.
RemovedRoomFrozen ==
    [][room = "REMOVED" =>
        /\ room' = "REMOVED"
        /\ demanded' = demanded
        /\ \A a \in Applications : status'[a] \in {status[a], "NONE"}]_vars

\* A live room keeps its places, the filled and the demanded ones together:
\* who applies, is approved or leaves moves a place, and only the rejection of
\* a member loses one.  (While nobody has applied twice; an update of the
\* demanded positions sets the number anew.)
PlacesAreKept ==
    [][ /\ room = "LIVE" /\ room' = "LIVE"
        /\ SingleApplications /\ SingleApplications'
        /\ RequiredPlayers' # RequiredPlayers
        =>
        \/ \E u \in Users : UpdateRoom(u)
        \/ /\ \E a \in Applications : status[a] = "APPROVED" /\ status'[a] = "REJECTED"
           /\ RequiredPlayers' = RequiredPlayers - 1 ]_vars

\* A room that has an owner loses him only when his account is deleted: a
\* transfer never ends with no owner at all.
OwnerLostOnlyWithAccount ==
    [][owners # {} /\ owners' = {} =>
        \E a \in owners : a.user \in accounts \ accounts']_vars

\* A live room whose owner's account is gone stays that way for good: it is
\* never removed, gets no new owner, and no application to it is ever decided.
OwnerlessRoomIsStuck ==
    [][room = "LIVE" /\ owners = {} =>
        /\ room' = "LIVE"
        /\ owners' = {}
        /\ \A a \in Applications :
            status'[a] # status[a] => status'[a] \in {"NONE", "PENDING", "LEFT"}]_vars

(* What a test of the repository says, and the code does not do. *)

\* A member who leaves the room is not a member of it any more.
LeavingEndsMembership ==
    [][\A u \in Users : LeaveRoom(u) => ~IsMember(u)']_vars
=============================================================================
