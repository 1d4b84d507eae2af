------------------------- MODULE RoomLifecycleProofs -------------------------
(***************************************************************************)
(* Proofs about RoomLifecycle, for any users, positions, applications and  *)
(* bounds.  Every invariant is shown to survive each handler in turn; the  *)
(* action properties follow from the invariants.                           *)
(***************************************************************************)
EXTENDS RoomLifecycle, FiniteSetTheorems, TLAPS

USE LocalUsersAssumption, ApplicationsAssumption, BoundsAssumption

-----------------------------------------------------------------------------
(* What a transition does, whichever handler makes it. *)

\* A row keeps the user and the position it was inserted with.
LEMMA RowColumns ==
    ASSUME NEW a \in Applications
    PROVE  a.user \in Users /\ a.position \in Positions
  OBVIOUS

\* LeagueRoom.remove() leaves no pending and no approved row, keeps absent
\* rows absent and existing rows existing.
LEMMA DissolvedType ==
    ASSUME NEW s \in [Applications -> Statuses]
    PROVE  Dissolved(s) \in [Applications -> Statuses]
  BY DEF Dissolved, Statuses

LEMMA DissolvedRows ==
    ASSUME NEW s \in [Applications -> Statuses], NEW a \in Applications
    PROVE  /\ Dissolved(s)[a] \notin {"PENDING", "APPROVED"}
           /\ Dissolved(s)[a] = "NONE" <=> s[a] = "NONE"
  BY DEF Dissolved, Statuses

\* A list of distinct positions demands each of them once.
LEMMA BagOfOnce ==
    ASSUME NEW D \in SUBSET Positions
    PROVE  /\ BagOf(D) \in [Positions -> 0..MaxDemand]
           /\ \A p \in Positions : BagOf(D)[p] <= 1
           /\ \A p \in Positions : BagOf(D)[p] = 0 <=> p \notin D
  BY DEF BagOf

\* The queries and guards of the handlers only find rows that exist.
LEMMA RowsExist ==
    ASSUME NEW u
    PROVE  \A a \in Rows(u) : a \in Applications /\ a.user = u /\ status[a] # "NONE"
  BY DEF Rows

-----------------------------------------------------------------------------
(* Type correctness. *)

LEMMA TypeOKInit == Init => TypeOK
  BY DEF Init, TypeOK, Statuses, Times

LEMMA TypeOKStep == TypeOK /\ [Next]_vars => TypeOK'
  <1> SUFFICES ASSUME TypeOK, [Next]_vars PROVE TypeOK'
    OBVIOUS
  <1>1. ASSUME NEW a \in Applications, CreateNewRoom(a) PROVE TypeOK'
    BY <1>1, BagOfOnce DEF CreateNewRoom, TypeOK, Statuses, Times,
                           RequestedDates, AcceptsDate
  <1>2. ASSUME NEW a \in Applications, Apply(a) PROVE TypeOK'
    BY <1>2 DEF Apply, TypeOK, Statuses
  <1>3. ASSUME NEW u \in Users, NEW a \in Applications, HandleApplication(u, a), Approve(a)
        PROVE  TypeOK'
    BY <1>3, RowColumns DEF HandleApplication, Approve, RemoveDemandedPosition,
                            TypeOK, Statuses
  <1>4. ASSUME NEW u \in Users, NEW a \in Applications, HandleApplication(u, a), Reject(a)
        PROVE  TypeOK'
    BY <1>4 DEF HandleApplication, Reject, TypeOK, Statuses
  <1>5. ASSUME NEW u \in Users, UpdateRoom(u) PROVE TypeOK'
    <2>1. date' \in Times
      BY <1>5 DEF UpdateRoom, UpdateDate, TypeOK, Times, RequestedDates, AcceptsDate
    <2>2. /\ demanded' \in [Positions -> 0..MaxDemand]
          /\ status' \in [Applications -> Statuses]
      BY <1>5, BagOfOnce DEF UpdateRoom, UpdateDemandedPositions, RejectedOutside,
                             TypeOK, Statuses
    <2>3. owners' \subseteq Applications
      BY <1>5 DEF UpdateRoom, SetOwner, Rows, TypeOK
    <2>4. QED
      BY <1>5, <2>1, <2>2, <2>3 DEF UpdateRoom, TypeOK
  <1>6. ASSUME NEW u \in Users, LeaveRoom(u) PROVE TypeOK'
    <2>1. PICK a \in Rows(u) :
            /\ demanded[a.position] < MaxDemand
            /\ demanded' = [demanded EXCEPT ![a.position] = @ + 1]
            /\ \/ /\ status' = [status EXCEPT ![a] = "LEFT"]
                  /\ UNCHANGED room
               \/ /\ status' = Dissolved([status EXCEPT ![a] = "LEFT"])
                  /\ room' = "REMOVED"
      BY <1>6 DEF LeaveRoom
    <2>2. [status EXCEPT ![a] = "LEFT"] \in [Applications -> Statuses]
      BY DEF TypeOK, Statuses
    <2>3. status' \in [Applications -> Statuses]
      <3>1. a \in Applications
        BY RowsExist
      <3>2. Dissolved([status EXCEPT ![a] = "LEFT"]) \in [Applications -> Statuses]
        BY <2>2, <3>1, DissolvedType
      <3>3. QED
        BY <2>1, <2>2, <3>2
    <2>4. demanded' \in [Positions -> 0..MaxDemand]
      BY <2>1, RowsExist, RowColumns DEF TypeOK
    <2>5. QED
      BY <1>6, <2>1, <2>3, <2>4 DEF LeaveRoom, TypeOK
  <1>7. ASSUME NEW u \in Users, RemoveRoom(u) PROVE TypeOK'
    <2>1. status' \in [Applications -> Statuses]
      BY <1>7, DissolvedType DEF RemoveRoom, TypeOK
    <2>2. QED
      BY <1>7, <2>1 DEF RemoveRoom, TypeOK
  <1>8. ASSUME NEW u \in Users, DeleteLeagueUser(u) PROVE TypeOK'
    BY <1>8 DEF DeleteLeagueUser, TypeOK, Statuses
  <1>9. CASE TimePasses
    BY <1>9 DEF TimePasses, TypeOK, Times
  <1>10. CASE UNCHANGED vars
    BY <1>10 DEF vars, TypeOK
  <1>11. QED
    BY <1>1, <1>2, <1>3, <1>4, <1>5, <1>6, <1>7, <1>8, <1>9, <1>10
       DEF Next, HandleApplication

\* Every reachable state is well typed, whatever the parameters: in particular
\* demanded never leaves 0..MaxDemand, although approving and leaving shrink
\* and grow it independently of each other.
THEOREM TypeCorrect == Spec => []TypeOK
  BY TypeOKInit, TypeOKStep, PTL DEF Spec

-----------------------------------------------------------------------------
(* Soft deletion. *)

LEMMA QuiescentStep ==
    TypeOK /\ RemovedRoomQuiescent /\ [Next]_vars => RemovedRoomQuiescent'
  <1> SUFFICES ASSUME TypeOK, RemovedRoomQuiescent, [Next]_vars, room' = "REMOVED",
                      NEW b \in Applications
               PROVE  status'[b] \notin {"PENDING", "APPROVED"}
    BY DEF RemovedRoomQuiescent
  <1>1. ASSUME NEW a \in Applications, CreateNewRoom(a) PROVE FALSE
    BY <1>1 DEF CreateNewRoom
  <1>2. ASSUME NEW a \in Applications, Apply(a) PROVE FALSE
    BY <1>2 DEF Apply, FindsRoomToApply
  <1>3. ASSUME NEW u \in Users, NEW a \in Applications,
               HandleApplication(u, a)
        PROVE  FALSE
    BY <1>3 DEF HandleApplication, CanBeHandled
  <1>4. ASSUME NEW u \in Users, UpdateRoom(u) PROVE FALSE
    BY <1>4 DEF UpdateRoom, SeesDetails
  <1>5. ASSUME NEW u \in Users, LeaveRoom(u)
        PROVE  status'[b] \notin {"PENDING", "APPROVED"}
    <2>1. PICK a \in Rows(u) :
            status' = Dissolved([status EXCEPT ![a] = "LEFT"])
      BY <1>5 DEF LeaveRoom, SeesDetails
    <2>2. [status EXCEPT ![a] = "LEFT"] \in [Applications -> Statuses]
      BY DEF TypeOK, Statuses
    <2>3. QED
      BY <2>1, <2>2, DissolvedRows
  <1>6. ASSUME NEW u \in Users, RemoveRoom(u)
        PROVE  status'[b] \notin {"PENDING", "APPROVED"}
    BY <1>6, DissolvedRows DEF RemoveRoom, TypeOK
  <1>7. ASSUME NEW u \in Users, DeleteLeagueUser(u)
        PROVE  status'[b] \notin {"PENDING", "APPROVED"}
    BY <1>7 DEF DeleteLeagueUser, RemovedRoomQuiescent
  <1>8. CASE TimePasses
    BY <1>8 DEF TimePasses, RemovedRoomQuiescent
  <1>9. CASE UNCHANGED vars
    BY <1>9 DEF vars, RemovedRoomQuiescent
  <1>10. QED
    BY <1>1, <1>2, <1>3, <1>4, <1>5, <1>6, <1>7, <1>8, <1>9 DEF Next

\* A removed room has no pending application and no member, at any time.
THEOREM RemovedRoomIsQuiescent == Spec => []RemovedRoomQuiescent
  <1>1. Init => RemovedRoomQuiescent
    BY DEF Init, RemovedRoomQuiescent
  <1>2. QED
    BY <1>1, QuiescentStep, TypeCorrect, PTL DEF Spec

\* Soft deletion is final: only the deletion of an account still touches the
\* rows of a removed room, and only to delete them.
THEOREM RemovedRoomIsFrozen == Spec => RemovedRoomFrozen
  <1> DEFINE Frozen == /\ room' = "REMOVED"
                       /\ demanded' = demanded
                       /\ \A a \in Applications : status'[a] \in {status[a], "NONE"}
  <1>1. TypeOK /\ [Next]_vars => [room = "REMOVED" => Frozen]_vars
    <2> SUFFICES ASSUME TypeOK, Next, room = "REMOVED" PROVE Frozen
      OBVIOUS
    <2>1. ASSUME NEW a \in Applications,
                 \/ CreateNewRoom(a)
                 \/ Apply(a)
                 \/ \E u \in Users : HandleApplication(u, a)
          PROVE  FALSE
      BY <2>1 DEF CreateNewRoom, Apply, FindsRoomToApply,
                  HandleApplication,
                  CanBeHandled
    <2>2. ASSUME NEW u \in Users, UpdateRoom(u) \/ LeaveRoom(u) \/ RemoveRoom(u)
          PROVE  FALSE
      BY <2>2 DEF UpdateRoom, LeaveRoom, RemoveRoom, SeesDetails
    <2>3. ASSUME NEW u \in Users, DeleteLeagueUser(u) PROVE Frozen
      BY <2>3 DEF DeleteLeagueUser
    <2>4. CASE TimePasses
      BY <2>4 DEF TimePasses
    <2>5. QED
      BY <2>1, <2>2, <2>3, <2>4 DEF Next
  <1>2. QED
    BY <1>1, TypeCorrect, PTL DEF Spec, RemovedRoomFrozen

-----------------------------------------------------------------------------
(* Ownership. *)

LEMMA OneOwnerStep == TypeOK /\ OneOwner /\ [Next]_vars => OneOwner'
  <1> SUFFICES ASSUME TypeOK, OneOwner, [Next]_vars PROVE OneOwner'
    OBVIOUS
  <1>1. ASSUME NEW a \in Applications, CreateNewRoom(a) PROVE OneOwner'
    BY <1>1 DEF CreateNewRoom, OneOwner, TypeOK
  <1>2. ASSUME NEW a \in Applications, Apply(a) PROVE OneOwner'
    BY <1>2 DEF Apply, OneOwner, TypeOK
  <1>3. ASSUME NEW u \in Users, NEW a \in Applications,
               HandleApplication(u, a)
        PROVE  OneOwner'
    BY <1>3 DEF HandleApplication, Approve, Reject, OneOwner, TypeOK
  <1>4. ASSUME NEW u \in Users, UpdateRoom(u) PROVE OneOwner'
    <2>1. \A a \in Applications : status[a] # "NONE" => status'[a] # "NONE"
      BY <1>4 DEF UpdateRoom, UpdateDemandedPositions, RejectedOutside
    <2>2. CASE UNCHANGED owners
      BY <2>1, <2>2 DEF OneOwner, TypeOK
    <2>3. ASSUME NEW v \in Users, owners' = Rows(v) PROVE OneOwner'
      BY <2>1, <2>3 DEF OneOwner, Rows
    <2>4. QED
      BY <1>4, <2>2, <2>3 DEF UpdateRoom, SetOwner
  <1>5. ASSUME NEW u \in Users, LeaveRoom(u) PROVE OneOwner'
    <2>1. PICK a \in Rows(u) :
            \/ status' = [status EXCEPT ![a] = "LEFT"]
            \/ status' = Dissolved([status EXCEPT ![a] = "LEFT"])
      BY <1>5 DEF LeaveRoom
    <2>2. [status EXCEPT ![a] = "LEFT"] \in [Applications -> Statuses]
      BY DEF TypeOK, Statuses
    <2>3. \A b \in Applications :
            status[b] # "NONE" => [status EXCEPT ![a] = "LEFT"][b] # "NONE"
      BY DEF TypeOK
    <2>4. \A b \in Applications : status[b] # "NONE" => status'[b] # "NONE"
      BY <2>1, <2>2, <2>3, DissolvedRows
    <2>5. QED
      BY <1>5, <2>4 DEF LeaveRoom, OneOwner, TypeOK
  <1>6. ASSUME NEW u \in Users, RemoveRoom(u) PROVE OneOwner'
    <2>1. \A b \in Applications : status[b] # "NONE" => status'[b] # "NONE"
      BY <1>6, DissolvedRows DEF RemoveRoom, TypeOK
    <2>2. QED
      BY <1>6, <2>1 DEF RemoveRoom, OneOwner, TypeOK
  <1>7. ASSUME NEW u \in Users, DeleteLeagueUser(u) PROVE OneOwner'
    BY <1>7 DEF DeleteLeagueUser, OneOwner, TypeOK
  <1>8. CASE TimePasses
    BY <1>8 DEF TimePasses, OneOwner
  <1>9. CASE UNCHANGED vars
    BY <1>9 DEF vars, OneOwner
  <1>10. QED
    BY <1>1, <1>2, <1>3, <1>4, <1>5, <1>6, <1>7, <1>8, <1>9 DEF Next

\* A room never has two owners, and its owner always has a row in it.
THEOREM RoomHasOneOwner == Spec => []OneOwner
  <1>1. Init => OneOwner
    BY DEF Init, OneOwner
  <1>2. QED
    BY <1>1, OneOwnerStep, TypeCorrect, PTL DEF Spec

\* A room becomes ownerless only through the deletion of the owner's account.
THEOREM OwnerIsLostOnlyWithAccount == Spec => OwnerLostOnlyWithAccount
  <1> DEFINE Lost == \E a \in owners : a.user \in accounts \ accounts'
  <1>1. TypeOK /\ [Next]_vars => [owners # {} /\ owners' = {} => Lost]_vars
    <2> SUFFICES ASSUME TypeOK, Next, owners # {}, owners' = {} PROVE Lost
      OBVIOUS
    <2>1. ASSUME NEW a \in Applications,
                 \/ CreateNewRoom(a)
                 \/ Apply(a)
                 \/ \E u \in Users : HandleApplication(u, a)
          PROVE  FALSE
      BY <2>1 DEF CreateNewRoom, Apply, HandleApplication
    <2>2. ASSUME NEW u \in Users, UpdateRoom(u) \/ LeaveRoom(u) \/ RemoveRoom(u)
          PROVE  FALSE
      BY <2>2 DEF UpdateRoom, SetOwner, LeaveRoom, RemoveRoom
    <2>3. ASSUME NEW u \in Users, DeleteLeagueUser(u) PROVE Lost
      BY <2>3 DEF DeleteLeagueUser, TypeOK
    <2>4. CASE TimePasses
      BY <2>4 DEF TimePasses
    <2>5. QED
      BY <2>1, <2>2, <2>3, <2>4 DEF Next
  <1>2. QED
    BY <1>1, TypeCorrect, PTL DEF Spec, OwnerLostOnlyWithAccount

\* Once the owner's account is gone, a live room is beyond control: it cannot
\* be removed or transferred, and no application to it is decided any more.
THEOREM OwnerlessRoomStaysStuck == Spec => OwnerlessRoomIsStuck
  <1> DEFINE Stuck ==
        /\ room' = "LIVE"
        /\ owners' = {}
        /\ \A a \in Applications :
             status'[a] # status[a] => status'[a] \in {"NONE", "PENDING", "LEFT"}
  <1>1. TypeOK /\ [Next]_vars => [room = "LIVE" /\ owners = {} => Stuck]_vars
    <2> SUFFICES ASSUME TypeOK, Next, room = "LIVE", owners = {} PROVE Stuck
      OBVIOUS
    <2>1. ASSUME NEW u, PassesOwnerGuard(u) PROVE FALSE
      BY <2>1 DEF PassesOwnerGuard
    <2>2. ASSUME NEW a \in Applications,
                 \/ CreateNewRoom(a)
                 \/ \E u \in Users : HandleApplication(u, a)
          PROVE  FALSE
      BY <2>1, <2>2 DEF CreateNewRoom, HandleApplication
    <2>3. ASSUME NEW u \in Users, UpdateRoom(u) \/ RemoveRoom(u) PROVE FALSE
      BY <2>1, <2>3 DEF UpdateRoom, RemoveRoom
    <2>4. ASSUME NEW a \in Applications, Apply(a) PROVE Stuck
      BY <2>4 DEF Apply, TypeOK
    <2>5. ASSUME NEW u \in Users, LeaveRoom(u) PROVE Stuck
      BY <2>5 DEF LeaveRoom, TypeOK
    <2>6. ASSUME NEW u \in Users, DeleteLeagueUser(u) PROVE Stuck
      BY <2>6 DEF DeleteLeagueUser, TypeOK
    <2>7. CASE TimePasses
      BY <2>7 DEF TimePasses
    <2>8. QED
      BY <2>2, <2>3, <2>4, <2>5, <2>6, <2>7 DEF Next
  <1>2. QED
    BY <1>1, TypeCorrect, PTL DEF Spec, OwnerlessRoomIsStuck

-----------------------------------------------------------------------------
(* Positions. *)

\* Rows only disappear with an account, so a room to which nobody has applied
\* twice after a step was already such a room before it.
LEMMA SingleApplicationsBefore ==
    TypeOK /\ [Next]_vars /\ SingleApplications' => SingleApplications
  <1> SUFFICES ASSUME TypeOK, [Next]_vars, SingleApplications'
               PROVE  SingleApplications
    OBVIOUS
  <1>1. CASE /\ accounts' = accounts
             /\ \A b \in Applications : status[b] # "NONE" => status'[b] # "NONE"
    BY <1>1 DEF SingleApplications
  <1>2. ASSUME NEW a \in Applications, NEW s,
               status' = [status EXCEPT ![a] = s], s # "NONE"
        PROVE  \A b \in Applications : status[b] # "NONE" => status'[b] # "NONE"
    BY <1>2 DEF TypeOK
  <1>3. ASSUME NEW s \in [Applications -> Statuses], status' = Dissolved(s),
               \A b \in Applications : status[b] # "NONE" => s[b] # "NONE"
        PROVE  \A b \in Applications : status[b] # "NONE" => status'[b] # "NONE"
    BY <1>3, DissolvedRows
  <1>4. ASSUME NEW a \in Applications,
               \/ CreateNewRoom(a)
               \/ Apply(a)
               \/ \E u \in Users : HandleApplication(u, a)
        PROVE  SingleApplications
    BY <1>1, <1>2, <1>4 DEF CreateNewRoom, Apply, HandleApplication, Approve, Reject
  <1>5. ASSUME NEW u \in Users, UpdateRoom(u) PROVE SingleApplications
    <2>1. \A b \in Applications : status[b] # "NONE" => status'[b] # "NONE"
      BY <1>5 DEF UpdateRoom, UpdateDemandedPositions, RejectedOutside
    <2>2. QED
      BY <1>1, <1>5, <2>1 DEF UpdateRoom
  <1>6. ASSUME NEW u \in Users, LeaveRoom(u) PROVE SingleApplications
    <2>1. PICK a \in Rows(u) :
            \/ status' = [status EXCEPT ![a] = "LEFT"]
            \/ status' = Dissolved([status EXCEPT ![a] = "LEFT"])
      BY <1>6 DEF LeaveRoom
    <2>2. /\ [status EXCEPT ![a] = "LEFT"] \in [Applications -> Statuses]
          /\ \A b \in Applications :
               status[b] # "NONE" => [status EXCEPT ![a] = "LEFT"][b] # "NONE"
      BY DEF TypeOK, Statuses
    <2>3. \A b \in Applications : status[b] # "NONE" => status'[b] # "NONE"
      BY <1>3, <2>1, <2>2
    <2>4. QED
      BY <1>1, <1>6, <2>3 DEF LeaveRoom
  <1>7. ASSUME NEW u \in Users, RemoveRoom(u) PROVE SingleApplications
    BY <1>1, <1>3, <1>7 DEF RemoveRoom, TypeOK
  <1>8. ASSUME NEW u \in Users, DeleteLeagueUser(u) PROVE SingleApplications
    BY <1>8 DEF DeleteLeagueUser, SingleApplications, TypeOK
  <1>9. CASE TimePasses \/ UNCHANGED vars
    BY <1>1, <1>9 DEF TimePasses, vars
  <1>10. QED
    BY <1>4, <1>5, <1>6, <1>7, <1>8, <1>9 DEF Next

\* The foreign key of a row: without the room there are no rows.
NoRowsBeforeCreation ==
    room = "ABSENT" => \A a \in Applications : status[a] = "NONE"

LEMMA NoRowsBeforeCreationStep ==
    TypeOK /\ NoRowsBeforeCreation /\ [Next]_vars => NoRowsBeforeCreation'
  <1> SUFFICES ASSUME TypeOK, NoRowsBeforeCreation, [Next]_vars, room' = "ABSENT",
                      NEW b \in Applications
               PROVE  status'[b] = "NONE"
    BY DEF NoRowsBeforeCreation
  <1>1. ASSUME NEW a \in Applications,
               \/ CreateNewRoom(a)
               \/ Apply(a)
               \/ \E u \in Users : HandleApplication(u, a)
        PROVE  FALSE
    BY <1>1 DEF CreateNewRoom, Apply, FindsRoomToApply,
                  HandleApplication,
                CanBeHandled
  <1>2. ASSUME NEW u \in Users, UpdateRoom(u) \/ LeaveRoom(u) \/ RemoveRoom(u)
        PROVE  FALSE
    BY <1>2 DEF UpdateRoom, LeaveRoom, RemoveRoom, SeesDetails
  <1>3. ASSUME NEW u \in Users, DeleteLeagueUser(u) PROVE status'[b] = "NONE"
    BY <1>3 DEF DeleteLeagueUser, NoRowsBeforeCreation
  <1>4. CASE TimePasses \/ UNCHANGED vars
    BY <1>4 DEF TimePasses, vars, NoRowsBeforeCreation
  <1>5. QED
    BY <1>1, <1>2, <1>3, <1>4 DEF Next

\* The inductive step of NoDoubleBooking.  CreateNewRoom needs the room to be
\* empty, and LeaveRoom needs the member's row to be his only one.
LEMMA NoDoubleBookingStep ==
    TypeOK /\ NoRowsBeforeCreation /\ NoDoubleBooking /\ [Next]_vars
        => NoDoubleBooking'
  <1> DEFINE Booked(s, d) ==
        /\ \A p \in Positions : d[p] <= 1
        /\ \A a \in Applications : s[a] = "APPROVED" =>
             /\ d[a.position] = 0
             /\ \A b \in Applications :
                  s[b] = "APPROVED" /\ b.position = a.position => a = b
  <1> SUFFICES ASSUME TypeOK, NoRowsBeforeCreation, Booked(status, demanded),
                      SingleApplications, [Next]_vars
               PROVE  Booked(status', demanded')
    BY SingleApplicationsBefore DEF NoDoubleBooking
  <1> USE RowColumns
  <1>1. ASSUME NEW a \in Applications, CreateNewRoom(a)
        PROVE  Booked(status', demanded')
    <2>1. PICK D \in SUBSET Positions : a.position \notin D /\ demanded' = BagOf(D)
      BY <1>1 DEF CreateNewRoom
    <2>2. \A b \in Applications : status'[b] = "APPROVED" <=> b = a
      BY <1>1 DEF CreateNewRoom, NoRowsBeforeCreation, TypeOK
    <2>3. QED
      BY <2>1, <2>2, BagOfOnce
  <1>2. ASSUME NEW a \in Applications, Apply(a)
        PROVE  Booked(status', demanded')
    BY <1>2 DEF Apply, TypeOK
  <1>3. ASSUME NEW a \in Applications, Approve(a)
        PROVE  Booked(status', demanded')
    BY <1>3 DEF Approve, RemoveDemandedPosition, TypeOK
  <1>4. ASSUME NEW a \in Applications, Reject(a)
        PROVE  Booked(status', demanded')
    BY <1>4 DEF Reject, TypeOK
  <1>5. ASSUME NEW u \in Users, UpdateRoom(u)
        PROVE  Booked(status', demanded')
    <2>1. CASE UNCHANGED <<demanded, status>>
      BY <2>1
    <2>2. ASSUME NEW D \in SUBSET Positions,
                 \A a \in Applications :
                    status[a] = "APPROVED" => a.position \notin D,
                 demanded' = BagOf(D), status' = RejectedOutside(D, status)
          PROVE  Booked(status', demanded')
      BY <2>2, BagOfOnce DEF RejectedOutside
    <2>3. QED
      BY <1>5, <2>1, <2>2 DEF UpdateRoom, UpdateDemandedPositions, AcceptsPositions
  <1>6. ASSUME NEW u \in Users, LeaveRoom(u)
        PROVE  Booked(status', demanded')
    <2>1. PICK a \in Rows(u) :
            /\ demanded' = [demanded EXCEPT ![a.position] = @ + 1]
            /\ \/ status' = [status EXCEPT ![a] = "LEFT"]
               \/ status' = Dissolved([status EXCEPT ![a] = "LEFT"])
      BY <1>6 DEF LeaveRoom
    <2>2. a \in Applications
      BY RowsExist
    \* The only row of a member is his membership.
    <2>3. status[a] = "APPROVED"
      BY <1>6 DEF LeaveRoom, SeesDetails, IsMember, Rows, SingleApplications
    <2>4. \A p \in Positions : demanded'[p] = IF p = a.position THEN 1 ELSE demanded[p]
      BY <2>1, <2>2, <2>3 DEF TypeOK
    <2>5. CASE status' = [status EXCEPT ![a] = "LEFT"]
      <3>1. \A b \in Applications :
              status'[b] = "APPROVED" => status[b] = "APPROVED" /\ b # a
        BY <2>5 DEF TypeOK
      <3>2. \A b \in Applications : status'[b] = "APPROVED" => b.position # a.position
        BY <2>2, <2>3, <3>1
      <3>3. QED
        BY <2>4, <3>1, <3>2
    <2>6. CASE status' = Dissolved([status EXCEPT ![a] = "LEFT"])
      <3>1. [status EXCEPT ![a] = "LEFT"] \in [Applications -> Statuses]
        BY DEF TypeOK, Statuses
      <3>2. \A b \in Applications : status'[b] # "APPROVED"
        BY <2>6, <3>1, DissolvedRows
      <3>3. QED
        BY <2>4, <3>2
    <2>7. QED
      BY <2>1, <2>5, <2>6
  <1>7. ASSUME NEW u \in Users, RemoveRoom(u)
        PROVE  Booked(status', demanded')
    BY <1>7, DissolvedRows DEF RemoveRoom, TypeOK
  <1>8. ASSUME NEW u \in Users, DeleteLeagueUser(u)
        PROVE  Booked(status', demanded')
    BY <1>8 DEF DeleteLeagueUser, TypeOK
  <1>9. CASE TimePasses \/ UNCHANGED vars
    BY <1>9 DEF TimePasses, vars
  <1>10. QED
    BY <1>1, <1>2, <1>3, <1>4, <1>5, <1>6, <1>7, <1>8, <1>9
       DEF Next, HandleApplication

\* While nobody has applied twice, a position is held by one member at most and
\* is not demanded while it is held, through any sequence of requests.
THEOREM PositionsAreNotDoubleBooked == Spec => []NoDoubleBooking
  <1>1. Init => NoRowsBeforeCreation /\ NoDoubleBooking
    BY DEF Init, NoRowsBeforeCreation, NoDoubleBooking
  <1>2. QED
    BY <1>1, TypeCorrect, NoRowsBeforeCreationStep, NoDoubleBookingStep, PTL DEF Spec

LEMMA NoRowsBeforeCreationInvariant == Spec => []NoRowsBeforeCreation
  <1>1. Init => NoRowsBeforeCreation
    BY DEF Init, NoRowsBeforeCreation
  <1>2. QED
    BY <1>1, TypeCorrect, NoRowsBeforeCreationStep, PTL DEF Spec

-----------------------------------------------------------------------------
(* Answers. *)

\* Nobody waits for an answer that nobody can give: who owns the room finds,
\* sees and may decide every pending application, unless somebody has applied
\* twice or an account is gone.
THEOREM PendingApplicationsReachOwner == Spec => []PendingReachesOwner
  <1>1. /\ TypeOK /\ RemovedRoomQuiescent /\ OneOwner /\ NoRowsBeforeCreation
        => PendingReachesOwner
    <2> SUFFICES ASSUME TypeOK, RemovedRoomQuiescent, OneOwner, NoRowsBeforeCreation,
                        SingleApplications,
                        NEW a \in ApplicationsWith("PENDING"), NEW o \in owners
                 PROVE  /\ CanBeHandled(a)
                        /\ \E u \in accounts :
                             /\ a \in ListsApplications(u, "PENDING")
                             /\ \A b \in Rows(u) : b \in owners
      BY DEF PendingReachesOwner
    <2>1. a \in Applications /\ status[a] = "PENDING"
      BY DEF ApplicationsWith
    <2>2. CanBeHandled(a)
      BY <2>1 DEF CanBeHandled, TypeOK, RemovedRoomQuiescent, NoRowsBeforeCreation
    <2>3. o \in Applications /\ status[o] # "NONE" /\ o.user \in accounts
      BY RowColumns DEF TypeOK, OneOwner, SingleApplications
    <2>4. IsRoomOwner(o.user) /\ \A b \in Rows(o.user) : b = o
      BY <2>3 DEF IsRoomOwner, Rows, SingleApplications
    <2>5. QED
      BY <2>2, <2>3, <2>4 DEF ListsApplications
  <1>2. QED
    BY <1>1, TypeCorrect, RemovedRoomIsQuiescent, RoomHasOneOwner,
       NoRowsBeforeCreationInvariant, PTL

-----------------------------------------------------------------------------
(* Places. *)

\* The two summands of RequiredPlayers.
Members(s) == {a \in Applications : s[a] = "APPROVED"}
Demands(d) == {x \in Positions \X (1..MaxDemand) : x[2] <= d[x[1]]}

LEMMA PlacesAre ==
    /\ RequiredPlayers = Cardinality(Members(status)) + Cardinality(Demands(demanded))
    /\ RequiredPlayers' = Cardinality(Members(status')) + Cardinality(Demands(demanded'))
  BY DEF RequiredPlayers, CurrentPlayers, ApplicationsWith, Members, Demands

LEMMA DemandsFinite == ASSUME NEW d PROVE IsFiniteSet(Demands(d))
  <1>1. IsFiniteSet(1..MaxDemand)
    BY FS_Interval
  <1>2. IsFiniteSet(Positions \X (1..MaxDemand))
    BY <1>1, PositionsAssumption, FS_Product
  <1>3. QED
    BY <1>2, FS_Subset DEF Demands

\* One more copy of a position is one more demand.
LEMMA OneMoreDemand ==
    ASSUME NEW d \in [Positions -> 0..MaxDemand], NEW e \in [Positions -> 0..MaxDemand],
           NEW p \in Positions, e[p] = d[p] + 1,
           \A q \in Positions \ {p} : e[q] = d[q]
    PROVE  Cardinality(Demands(e)) = Cardinality(Demands(d)) + 1
  <1> DEFINE x == <<p, e[p]>>
  <1>1. x \notin Demands(d)
    BY DEF Demands
  <1>2. Demands(e) = Demands(d) \cup {x}
    <2>1. ASSUME NEW q \in Positions, NEW k \in 1..MaxDemand
          PROVE  <<q, k>> \in Demands(e) <=> <<q, k>> \in Demands(d) \/ <<q, k>> = x
      BY DEF Demands
    <2>2. x \in Demands(e)
      BY DEF Demands
    <2>3. QED
      BY <2>1, <2>2 DEF Demands
  <1>3. QED
    BY <1>1, <1>2, DemandsFinite, FS_AddElement

\* A row that becomes a member, or ceases to be one, is one member.
LEMMA OneMoreMember ==
    ASSUME NEW s, NEW t, NEW a \in Applications,
           IsFiniteSet(Members(s)) \/ IsFiniteSet(Members(t)),
           s[a] # "APPROVED", t[a] = "APPROVED",
           \A b \in Applications \ {a} : t[b] = "APPROVED" <=> s[b] = "APPROVED"
    PROVE  /\ Cardinality(Members(t)) = Cardinality(Members(s)) + 1
           /\ Cardinality(Members(s)) \in Nat
  <1>1. Members(t) = Members(s) \cup {a} /\ a \notin Members(s)
    BY DEF Members
  <1>2. IsFiniteSet(Members(s))
    <2>1. Members(s) \in SUBSET Members(t)
      BY <1>1
    <2>2. QED
      BY <2>1, FS_Subset
  <1>3. QED
    BY <1>1, <1>2, FS_AddElement, FS_CardinalityType

\* A handler inserts one row at most.
RowsAreFinite == IsFiniteSet({a \in Applications : status[a] # "NONE"})

LEMMA RowsAreFiniteInvariant == Spec => []RowsAreFinite
  <1> DEFINE R == {a \in Applications : status[a] # "NONE"}
  <1>1. Init => RowsAreFinite
    <2> SUFFICES ASSUME Init PROVE RowsAreFinite
      OBVIOUS
    <2>1. R = {}
      BY DEF Init
    <2>2. QED
      BY <2>1, FS_EmptySet DEF RowsAreFinite
  <1>2. TypeOK /\ RowsAreFinite /\ [Next]_vars => RowsAreFinite'
    <2> SUFFICES ASSUME TypeOK, RowsAreFinite, [Next]_vars PROVE RowsAreFinite'
      OBVIOUS
    <2>1. ASSUME NEW S, IsFiniteSet(S),
                 \A b \in Applications : status'[b] # "NONE" => status[b] # "NONE" \/ b \in S
          PROVE  RowsAreFinite'
      <3>1. IsFiniteSet(R \cup S)
        BY <2>1, FS_Union DEF RowsAreFinite
      <3>2. {a \in Applications : status'[a] # "NONE"} \in SUBSET (R \cup S)
        BY <2>1
      <3>3. IsFiniteSet({a \in Applications : status'[a] # "NONE"})
        BY <3>1, <3>2, FS_Subset
      <3>4. QED
        BY <3>3 DEF RowsAreFinite
    <2>2. ASSUME \A b \in Applications : status'[b] # "NONE" => status[b] # "NONE"
          PROVE  RowsAreFinite'
      BY <2>1, <2>2, FS_EmptySet
    <2>3. ASSUME NEW a \in Applications,
                 \/ CreateNewRoom(a)
                 \/ Apply(a)
                 \/ \E u \in Users : HandleApplication(u, a)
          PROVE  RowsAreFinite'
      <3>1. IsFiniteSet({a})
        BY FS_Singleton
      <3>2. \A b \in Applications : status'[b] # "NONE" => status[b] # "NONE" \/ b \in {a}
        BY <2>3 DEF CreateNewRoom, Apply, HandleApplication, Approve, Reject, TypeOK
      <3>3. QED
        BY <2>1, <3>1, <3>2
    <2>4. ASSUME NEW u \in Users, UpdateRoom(u) PROVE RowsAreFinite'
      BY <2>2, <2>4 DEF UpdateRoom, UpdateDemandedPositions, RejectedOutside
    <2>5. ASSUME NEW u \in Users, LeaveRoom(u) PROVE RowsAreFinite'
      <3>1. PICK a \in Rows(u) :
              \/ status' = [status EXCEPT ![a] = "LEFT"]
              \/ status' = Dissolved([status EXCEPT ![a] = "LEFT"])
        BY <2>5 DEF LeaveRoom
      <3>2. /\ [status EXCEPT ![a] = "LEFT"] \in [Applications -> Statuses]
            /\ \A b \in Applications :
                 [status EXCEPT ![a] = "LEFT"][b] # "NONE" => status[b] # "NONE"
        BY RowsExist DEF TypeOK, Statuses
      <3>3. QED
        BY <2>2, <3>1, <3>2, DissolvedRows
    <2>6. ASSUME NEW u \in Users, RemoveRoom(u) \/ DeleteLeagueUser(u) PROVE RowsAreFinite'
      BY <2>2, <2>6, DissolvedRows DEF RemoveRoom, DeleteLeagueUser, TypeOK
    <2>7. CASE TimePasses \/ UNCHANGED vars
      BY <2>2, <2>7 DEF TimePasses, vars
    <2>8. QED
      BY <2>3, <2>4, <2>5, <2>6, <2>7 DEF Next
  <1>3. QED
    BY <1>1, <1>2, TypeCorrect, PTL DEF Spec

\* A live room keeps its places through every handler but updateRoom: whoever
\* applies, is approved or leaves moves one, and only the rejection of a member
\* loses one.
THEOREM LiveRoomKeepsPlaces == Spec => PlacesAreKept
  <1> DEFINE Kept ==
        \/ \E u \in Users : UpdateRoom(u)
        \/ /\ \E a \in Applications : status[a] = "APPROVED" /\ status'[a] = "REJECTED"
           /\ RequiredPlayers' = RequiredPlayers - 1
        \/ RequiredPlayers' = RequiredPlayers
  <1>1. TypeOK /\ TypeOK' /\ NoDoubleBooking /\ RowsAreFinite /\ Next
          /\ room = "LIVE" /\ room' = "LIVE"
          /\ SingleApplications /\ SingleApplications' => Kept
    <2> SUFFICES ASSUME TypeOK, TypeOK', NoDoubleBooking, RowsAreFinite, Next,
                        room = "LIVE", room' = "LIVE",
                        SingleApplications, SingleApplications'
                 PROVE  Kept
      OBVIOUS
    <2>0. /\ IsFiniteSet(Members(status))
          /\ Cardinality(Members(status)) \in Nat /\ Cardinality(Demands(demanded)) \in Nat
      <3>1. Members(status) \in SUBSET {a \in Applications : status[a] # "NONE"}
        BY DEF Members
      <3>2. IsFiniteSet(Members(status))
        BY <3>1, FS_Subset DEF RowsAreFinite
      <3>3. QED
        BY <3>2, DemandsFinite, FS_CardinalityType
    <2>1. /\ demanded \in [Positions -> 0..MaxDemand]
          /\ demanded' \in [Positions -> 0..MaxDemand]
          /\ status \in [Applications -> Statuses]
          /\ status' \in [Applications -> Statuses]
      BY DEF TypeOK
    <2>2. ASSUME Members(status') = Members(status), demanded' = demanded PROVE Kept
      BY <2>2, PlacesAre
    <2>3. ASSUME NEW a \in Applications, Apply(a) PROVE Kept
      BY <2>1, <2>2, <2>3 DEF Apply, Members
    <2>4. ASSUME NEW a \in Applications, Approve(a) PROVE Kept
      <3>1. /\ demanded[a.position] = 1 /\ demanded'[a.position] = 0
            /\ \A p \in Positions \ {a.position} : demanded'[p] = demanded[p]
            /\ status[a] # "APPROVED" /\ status'[a] = "APPROVED"
            /\ \A b \in Applications \ {a} : status'[b] = status[b]
        BY <2>1, <2>4, RowColumns DEF Approve, RemoveDemandedPosition, NoDoubleBooking
      <3>2. Cardinality(Demands(demanded)) = Cardinality(Demands(demanded')) + 1
        BY <2>1, <3>1, RowColumns, OneMoreDemand
      <3>3. Cardinality(Members(status')) = Cardinality(Members(status)) + 1
        BY <2>0, <3>1, OneMoreMember
      <3>4. Cardinality(Demands(demanded')) \in Nat
        BY DemandsFinite, FS_CardinalityType
      <3>5. QED
        BY <2>0, <3>2, <3>3, <3>4, PlacesAre
    <2>5. ASSUME NEW a \in Applications, Reject(a) PROVE Kept
      <3>1. demanded' = demanded /\ status'[a] = "REJECTED"
            /\ \A b \in Applications \ {a} : status'[b] = status[b]
        BY <2>1, <2>5 DEF Reject
      <3>2. CASE status[a] = "APPROVED"
        <4>1. status'[a] # "APPROVED"
          BY <3>1
        <4>2. /\ Cardinality(Members(status)) = Cardinality(Members(status')) + 1
              /\ Cardinality(Members(status')) \in Nat
          BY <2>0, <3>1, <3>2, <4>1, OneMoreMember
        <4>3. QED
          BY <2>0, <3>1, <3>2, <4>2, PlacesAre
      <3>3. CASE status[a] # "APPROVED"
        <4>1. Members(status') = Members(status)
          BY <3>1, <3>3 DEF Members
        <4>2. QED
          BY <2>2, <3>1, <4>1
      <3>4. QED
        BY <3>2, <3>3
    \* The only row of a member is his membership.
    <2>6. ASSUME NEW u \in Users, LeaveRoom(u) PROVE Kept
      <3>1. PICK a \in Rows(u) :
              /\ demanded' = [demanded EXCEPT ![a.position] = @ + 1]
              /\ status' = [status EXCEPT ![a] = "LEFT"]
        BY <2>6 DEF LeaveRoom
      <3>2. a \in Applications /\ a.position \in Positions
        BY RowsExist, RowColumns
      <3>3. status[a] = "APPROVED"
        BY <2>6 DEF LeaveRoom, SeesDetails, IsMember, Rows, SingleApplications
      <3>4. /\ status'[a] # "APPROVED"
            /\ \A b \in Applications \ {a} : status'[b] = status[b]
        BY <2>1, <3>1, <3>2
      <3>5. /\ Cardinality(Members(status)) = Cardinality(Members(status')) + 1
            /\ Cardinality(Members(status')) \in Nat
        BY <2>0, <3>2, <3>3, <3>4, OneMoreMember
      <3>6. /\ demanded'[a.position] = demanded[a.position] + 1
            /\ \A p \in Positions \ {a.position} : demanded'[p] = demanded[p]
        BY <2>1, <3>1, <3>2
      <3>7. Cardinality(Demands(demanded')) = Cardinality(Demands(demanded)) + 1
        BY <2>1, <3>2, <3>6, OneMoreDemand
      <3>8. QED
        BY <2>0, <3>5, <3>7, PlacesAre
    <2>7. ASSUME NEW a \in Applications, CreateNewRoom(a) PROVE FALSE
      BY <2>7 DEF CreateNewRoom
    <2>8. ASSUME NEW u \in Users, RemoveRoom(u) \/ DeleteLeagueUser(u) PROVE FALSE
      BY <2>8 DEF RemoveRoom, DeleteLeagueUser, SingleApplications
    <2>9. CASE TimePasses
      BY <2>2, <2>9 DEF TimePasses
    <2>10. QED
      BY <2>3, <2>4, <2>5, <2>6, <2>7, <2>8, <2>9 DEF Next, HandleApplication
  <1>2. TypeOK /\ TypeOK' /\ NoDoubleBooking /\ RowsAreFinite /\ [Next]_vars =>
          [ /\ room = "LIVE" /\ room' = "LIVE"
            /\ SingleApplications /\ SingleApplications'
            /\ RequiredPlayers' # RequiredPlayers
            =>
            \/ \E u \in Users : UpdateRoom(u)
            \/ /\ \E a \in Applications : status[a] = "APPROVED" /\ status'[a] = "REJECTED"
               /\ RequiredPlayers' = RequiredPlayers - 1 ]_vars
    BY <1>1
  <1>3. QED
    BY <1>2, TypeCorrect, PositionsAreNotDoubleBooked, RowsAreFiniteInvariant, PTL
       DEF Spec, PlacesAreKept
=============================================================================
