-------------------------- MODULE RoomRequestsProofs --------------------------
(***************************************************************************)
(* Proofs about RoomRequests: what holds for any number of requests in     *)
(* flight, whatever overlaps, and that a single request at a time does     *)
(* what the atomic handlers of RoomLifecycle do.                           *)
(***************************************************************************)
EXTENDS RoomRequests, RoomLifecycleProofs

USE LocalUsersAssumption, ApplicationsAssumption, BoundsAssumption

-----------------------------------------------------------------------------
(* What a request holds in memory, step by step. *)

RequestKinds == {"apply", "approve", "reject", "update", "leave", "remove"}

\* The values of some rows' columns: what a save() has loaded, or still writes.
StatusColumns == UNION {[S -> Statuses] : S \in SUBSET Applications}
OwnerColumns == UNION {[S -> BOOLEAN] : S \in SUBSET Applications}

ColumnSets ==
    [room : SUBSET {"LIVE", "REMOVED"}, date : SUBSET Times,
     demanded : SUBSET [Positions -> 0..MaxDemand],
     status : StatusColumns, isOwner : OwnerColumns]

Snapshots == [date : Times, demanded : [Positions -> 0..MaxDemand],
              status : [Applications -> Statuses], owners : SUBSET Applications]

OwnRows == [id : Applications, isOwner : BOOLEAN]

AdmittedRequests ==
    [step : {"admitted"}, kind : RequestKinds, user : Users,
     row : SUBSET OwnRows, details : SUBSET Snapshots]

SavingRequests ==
    [step : {"saving"}, kind : RequestKinds, columns : ColumnSets,
     inserts : SUBSET Applications, todo : SUBSET {"rows", "room"}, since : Times]

AnsweredRequests == [step : {"answer"}, kind : RequestKinds, since : Times]

RequestStates == {Idle} \cup AdmittedRequests \cup SavingRequests \cup AnsweredRequests

\* The inductive form of RequestTypeOK: what it says of the columns in flight
\* only survives a commit if the other columns are typed as well.
RequestsInv == TypeOK /\ requests \in [Slots -> RequestStates]

LEMMA StatusColumnsType ==
    /\ \A S \in SUBSET Applications : \A f : f \in [S -> Statuses] => f \in StatusColumns
    /\ \A f \in StatusColumns :
        DOMAIN f \subseteq Applications /\ f \in [DOMAIN f -> Statuses]
  BY DEF StatusColumns

LEMMA OwnerColumnsType ==
    /\ \A S \in SUBSET Applications : \A f : f \in [S -> BOOLEAN] => f \in OwnerColumns
    /\ \A f \in OwnerColumns :
        DOMAIN f \subseteq Applications /\ f \in [DOMAIN f -> BOOLEAN]
  BY DEF OwnerColumns

LEMMA RequestsInvTyped == RequestsInv => RequestTypeOK
  BY StatusColumnsType
     DEF RequestsInv, RequestStates, RequestTypeOK, AdmittedRequests, SavingRequests,
         AnsweredRequests, ColumnSets, Idle, StepOf

LEMMA RequestsInvInit == RInit => RequestsInv
  BY TypeOKInit DEF RInit, RequestsInv, RequestStates

\* Each step of a handler starts from the memory the step before has left.
LEMMA StepShapes ==
    ASSUME RequestsInv, NEW r \in Slots
    PROVE  /\ StepOf(r) = "admitted" => requests[r] \in AdmittedRequests
           /\ StepOf(r) = "saving" => requests[r] \in SavingRequests
           /\ StepOf(r) = "answer" => requests[r] \in AnsweredRequests
  BY DEF StepOf, RequestsInv, RequestStates, AdmittedRequests, SavingRequests,
         AnsweredRequests, Idle

\* What a handler loads and changes is well typed: a whole room, or one row.
LEMMA WholeRoomOK ==
    ASSUME NEW rm \in {"LIVE", "REMOVED"}, NEW dt \in Times,
           NEW dm \in [Positions -> 0..MaxDemand],
           NEW st \in [Applications -> Statuses], NEW own \in SUBSET Applications
    PROVE  WholeRoom(rm, dt, dm, st, own) \in ColumnSets
  <1>1. st \in StatusColumns
    BY StatusColumnsType
  <1>2. [a \in Applications |-> a \in own] \in OwnerColumns
    <2>1. [a \in Applications |-> a \in own] \in [Applications -> BOOLEAN]
      OBVIOUS
    <2>2. QED
      BY <2>1, OwnerColumnsType
  <1>3. QED
    BY <1>1, <1>2 DEF WholeRoom, Columns, ColumnSets

LEMMA OneRowOK ==
    ASSUME NEW a \in Applications, NEW s \in Statuses,
           NEW dm \in SUBSET [Positions -> 0..MaxDemand]
    PROVE  OneRow(a, s, dm) \in ColumnSets
  <1>1. [b \in {a} |-> s] \in StatusColumns
    BY StatusColumnsType
  <1>2. [b \in {a} |-> b \in owners] \in OwnerColumns
    <2>1. [b \in {a} |-> b \in owners] \in [{a} -> BOOLEAN]
      OBVIOUS
    <2>2. QED
      BY <2>1, OwnerColumnsType
  <1>3. QED
    BY <1>1, <1>2 DEF OneRow, Columns, ColumnSets

LEMMA LoadedStep ==
    ASSUME RequestsInv, NEW r \in Slots, NEW kind \in RequestKinds, NEW c \in ColumnSets,
           Loaded(r, kind, c)
    PROVE  RequestsInv'
  <1>1. TypeOK'
    BY DEF RequestsInv, Loaded, TypeOK, vars
  <1>2. requests' \in [Slots -> RequestStates]
    BY DEF RequestsInv, Loaded, TypeOK, RequestStates, SavingRequests
  <1>3. QED
    BY <1>1, <1>2 DEF RequestsInv

LEMMA AdmitStep ==
    ASSUME RequestsInv, NEW r \in Slots, AdmitRequest(r)
    PROVE  RequestsInv'
  <1>1. TypeOK'
    BY DEF RequestsInv, AdmitRequest, TypeOK, vars
  <1>2. requests' \in [Slots -> RequestStates]
    BY DEF RequestsInv, AdmitRequest, Admit, TypeOK, RequestStates, AdmittedRequests,
           RequestKinds
  <1>3. QED
    BY <1>1, <1>2 DEF RequestsInv

LEMMA LoadStep ==
    ASSUME RequestsInv, NEW r \in Slots,
           \/ LoadToApply(r) \/ LoadToApprove(r) \/ LoadToReject(r)
           \/ LoadToUpdate(r) \/ LoadToRemove(r)
    PROVE  RequestsInv'
  <1> USE RowColumns
  <1>0. TypeOK
    BY DEF RequestsInv
  <1>1. CASE LoadToApply(r)
    <2>1. PICK a \in Applications :
            /\ room = "LIVE"
            /\ Loaded(r, "apply", WholeRoom(room, date, demanded,
                                     [status EXCEPT ![a] = "PENDING"], owners))
      BY <1>1 DEF LoadToApply, FindsRoomToApply
    <2>2. [status EXCEPT ![a] = "PENDING"] \in [Applications -> Statuses]
      BY <1>0 DEF TypeOK, Statuses
    <2>3. WholeRoom(room, date, demanded, [status EXCEPT ![a] = "PENDING"], owners)
            \in ColumnSets
      BY <1>0, <2>1, <2>2, WholeRoomOK DEF TypeOK
    <2>4. QED
      BY <2>1, <2>3, LoadedStep DEF RequestKinds
  <1>2. CASE LoadToApprove(r)
    <2>1. PICK a \in Applications :
            Loaded(r, "approve",
                   OneRow(a, "APPROVED", {[demanded EXCEPT ![a.position] = 0]}))
      BY <1>2 DEF LoadToApprove
    <2>2. [demanded EXCEPT ![a.position] = 0] \in [Positions -> 0..MaxDemand]
      BY <1>0 DEF TypeOK
    <2>3. OneRow(a, "APPROVED", {[demanded EXCEPT ![a.position] = 0]}) \in ColumnSets
      BY <2>2, OneRowOK DEF Statuses
    <2>4. QED
      BY <2>1, <2>3, LoadedStep DEF RequestKinds
  <1>3. CASE LoadToReject(r)
    <2>1. PICK a \in Applications : Loaded(r, "reject", OneRow(a, "REJECTED", {}))
      BY <1>3 DEF LoadToReject
    <2>2. OneRow(a, "REJECTED", {}) \in ColumnSets
      BY OneRowOK DEF Statuses
    <2>3. QED
      BY <2>1, <2>2, LoadedStep DEF RequestKinds
  <1>4. CASE LoadToUpdate(r)
    <2>1. room = "LIVE"
      BY <1>4 DEF LoadToUpdate, SeesDetails
    <2>2. PICK dt \in {date} \cup {d \in RequestedDates : AcceptsDate(d)},
               own \in {owners} \cup ({Rows(v) : v \in Users} \ {{}}) :
            \/ Loaded(r, "update", WholeRoom(room, dt, demanded, status, own))
            \/ \E D \in SUBSET Positions :
                Loaded(r, "update",
                       WholeRoom(room, dt, BagOf(D), RejectedOutside(D, status), own))
      BY <1>4 DEF LoadToUpdate
    <2>3. dt \in Times /\ own \subseteq Applications
      BY <1>0 DEF TypeOK, Times, RequestedDates, AcceptsDate, Rows
    <2>4. CASE Loaded(r, "update", WholeRoom(room, dt, demanded, status, own))
      <3>1. WholeRoom(room, dt, demanded, status, own) \in ColumnSets
        BY <1>0, <2>1, <2>3, WholeRoomOK DEF TypeOK
      <3>2. QED
        BY <2>4, <3>1, LoadedStep DEF RequestKinds
    <2>5. ASSUME NEW D \in SUBSET Positions,
                 Loaded(r, "update",
                        WholeRoom(room, dt, BagOf(D), RejectedOutside(D, status), own))
          PROVE  RequestsInv'
      <3>1. RejectedOutside(D, status) \in [Applications -> Statuses]
        BY <1>0 DEF TypeOK, RejectedOutside, Statuses
      <3>2. WholeRoom(room, dt, BagOf(D), RejectedOutside(D, status), own) \in ColumnSets
        BY <2>1, <2>3, <3>1, BagOfOnce, WholeRoomOK
      <3>3. QED
        BY <2>5, <3>2, LoadedStep DEF RequestKinds
    <2>6. QED
      BY <2>2, <2>4, <2>5
  <1>5. CASE LoadToRemove(r)
    <2>1. WholeRoom("REMOVED", date, demanded, Dissolved(status), owners) \in ColumnSets
      BY <1>0, DissolvedType, WholeRoomOK DEF TypeOK
    <2>2. QED
      BY <1>5, <2>1, LoadedStep DEF LoadToRemove, RequestKinds
  <1>6. QED
    BY <1>1, <1>2, <1>3, <1>4, <1>5

LEMMA LeaveStep ==
    ASSUME RequestsInv, NEW r \in Slots,
           ReadDetails(r) \/ ReadOwnRow(r) \/ DecideToLeave(r)
    PROVE  RequestsInv'
  <1> USE RowColumns
  <1>0. TypeOK
    BY DEF RequestsInv
  <1>1. requests[r] \in AdmittedRequests
    BY StepShapes DEF ReadDetails, ReadOwnRow, DecideToLeave, Admitted
  <1>2. CASE ReadDetails(r)
    <2> DEFINE d == [date |-> date, demanded |-> demanded, status |-> status, owners |-> owners]
    <2>1. d \in Snapshots
      BY <1>0 DEF TypeOK, Snapshots
    <2> HIDE DEF d
    <2>2. [requests[r] EXCEPT !.details = {d}] \in AdmittedRequests
      BY <1>1, <2>1 DEF AdmittedRequests
    <2>3. requests' = [requests EXCEPT ![r] = [requests[r] EXCEPT !.details = {d}]]
      BY <1>2 DEF ReadDetails, RequestsInv, d
    <2>4. TypeOK'
      BY <1>0, <1>2 DEF ReadDetails, TypeOK, vars
    <2>5. QED
      BY <2>2, <2>3, <2>4 DEF RequestsInv, RequestStates
  <1>3. CASE ReadOwnRow(r)
    <2>1. PICK a \in Rows(requests[r].user) :
            requests' = [requests EXCEPT ![r].row = {[id |-> a, isOwner |-> a \in owners]}]
      BY <1>3 DEF ReadOwnRow
    <2> DEFINE o == [id |-> a, isOwner |-> a \in owners]
    <2>2. o \in OwnRows
      BY RowsExist DEF OwnRows
    <2> HIDE DEF o
    <2>3. [requests[r] EXCEPT !.row = {o}] \in AdmittedRequests
      BY <1>1, <2>2 DEF AdmittedRequests
    <2>4. requests' = [requests EXCEPT ![r] = [requests[r] EXCEPT !.row = {o}]]
      BY <2>1 DEF RequestsInv, o
    <2>5. TypeOK'
      BY <1>0, <1>3 DEF ReadOwnRow, TypeOK, vars
    <2>6. QED
      BY <2>3, <2>4, <2>5 DEF RequestsInv, RequestStates
  <1>4. CASE DecideToLeave(r)
    <2>1. PICK d \in requests[r].details, row \in requests[r].row :
            LET left == [d.status EXCEPT ![row.id] = "LEFT"]
                more == [d.demanded EXCEPT ![row.id.position] = @ + 1]
            IN
            /\ d.demanded[row.id.position] < MaxDemand
            /\ Loaded(r, "leave",
                      IF row.isOwner
                      THEN WholeRoom("REMOVED", d.date, more, Dissolved(left), d.owners)
                      ELSE WholeRoom("LIVE", d.date, more, left, d.owners))
      BY <1>4 DEF DecideToLeave
    <2> DEFINE left == [d.status EXCEPT ![row.id] = "LEFT"]
               more == [d.demanded EXCEPT ![row.id.position] = @ + 1]
               c == IF row.isOwner
                    THEN WholeRoom("REMOVED", d.date, more, Dissolved(left), d.owners)
                    ELSE WholeRoom("LIVE", d.date, more, left, d.owners)
    <2>2. d \in Snapshots /\ row.id \in Applications
      BY <1>1 DEF AdmittedRequests, OwnRows
    <2>3. left \in [Applications -> Statuses]
      BY <2>2 DEF Snapshots, Statuses
    <2>4. more \in [Positions -> 0..MaxDemand]
      BY <2>1, <2>2 DEF Snapshots
    <2>5. Dissolved(left) \in [Applications -> Statuses]
      BY <2>3, DissolvedType
    <2>6. d.date \in Times /\ d.owners \subseteq Applications
      BY <2>2 DEF Snapshots
    <2>7. /\ WholeRoom("REMOVED", d.date, more, Dissolved(left), d.owners) \in ColumnSets
          /\ WholeRoom("LIVE", d.date, more, left, d.owners) \in ColumnSets
      <3> HIDE DEF left, more
      <3> QED
        BY <2>3, <2>4, <2>5, <2>6, WholeRoomOK
    <2>8. c \in ColumnSets /\ Loaded(r, "leave", c)
      BY <2>1, <2>7
    <2>9. QED
      BY <2>8, LoadedStep DEF RequestKinds
  <1>5. QED
    BY <1>2, <1>3, <1>4

\* What the comparisons leave of the request.
LEMMA CompareStep ==
    ASSUME RequestsInv, NEW r \in Slots, CompareRows(r) \/ CompareRoom(r)
    PROVE  RequestsInv'
  <1> DEFINE c == requests[r].columns
  <1>1. requests[r] \in SavingRequests
    BY StepShapes DEF CompareRows, CompareRoom
  <1>2. TypeOK'
    BY DEF CompareRows, CompareRoom, RequestsInv, TypeOK, vars
  <1>3. CASE CompareRows(r)
    <2> DEFINE changed == {a \in DOMAIN c.status : c.status[a] # status[a]}
               flagged == {a \in DOMAIN c.isOwner : c.isOwner[a] # (a \in owners)}
               ins == {a \in changed : status[a] = "NONE"}
    <2>1. c.status \in StatusColumns /\ c.isOwner \in OwnerColumns
      BY <1>1 DEF SavingRequests, ColumnSets
    <2>2. /\ Restrict(c.status, changed) \in StatusColumns
          /\ ins \subseteq Applications
      BY <2>1, StatusColumnsType DEF Restrict
    <2>3. Restrict(c.isOwner, flagged) \in OwnerColumns
      BY <2>1, OwnerColumnsType DEF Restrict
    <2>4. ASSUME NEW st \in StatusColumns, NEW own \in OwnerColumns,
                 NEW i \in SUBSET Applications
          PROVE  [requests EXCEPT
                    ![r].columns.status = st, ![r].columns.isOwner = own,
                    ![r].inserts = i, ![r].todo = @ \ {"rows"}] \in [Slots -> RequestStates]
      BY <1>1 DEF RequestsInv, RequestStates, SavingRequests, ColumnSets
    <2>5. QED
      BY <1>2, <1>3, <2>2, <2>3, <2>4 DEF CompareRows, RequestsInv
  <1>4. CASE CompareRoom(r)
    <2>1. requests' \in [Slots -> RequestStates]
      BY <1>1, <1>4 DEF CompareRoom, RequestsInv, RequestStates, SavingRequests, ColumnSets
    <2>2. QED
      BY <1>2, <2>1 DEF RequestsInv
  <1>5. QED
    BY <1>3, <1>4

LEMMA CommitStep ==
    ASSUME RequestsInv, NEW r \in Slots, Commit(r)
    PROVE  RequestsInv'
  <1> DEFINE c == requests[r].columns
             stored == {a \in Applications : status[a] # "NONE" \/ a \in requests[r].inserts}
  <1>0. TypeOK /\ requests[r] \in SavingRequests
    BY StepShapes DEF RequestsInv, Commit
  <1>1. /\ room' \in {"ABSENT", "LIVE", "REMOVED"}
        /\ date' \in Times
        /\ demanded' \in [Positions -> 0..MaxDemand]
    BY <1>0 DEF Commit, OrElse, SavingRequests, ColumnSets, TypeOK
  <1>2. status' = [a \in Applications |->
                    IF a \in stored \cap DOMAIN c.status THEN c.status[a] ELSE status[a]]
    BY DEF Commit
  <1>3. c.status \in [DOMAIN c.status -> Statuses]
    BY <1>0, StatusColumnsType DEF SavingRequests, ColumnSets
  <1>4. status' \in [Applications -> Statuses]
    BY <1>0, <1>2, <1>3 DEF TypeOK
  <1>5. TypeOK'
    BY <1>0, <1>1, <1>4 DEF Commit, TypeOK
  <1>6. requests' \in [Slots -> RequestStates]
    BY <1>0 DEF Commit, RequestsInv, RequestStates, AnsweredRequests, SavingRequests
  <1>7. QED
    BY <1>5, <1>6 DEF RequestsInv

LEMMA RequestsInvStep == RequestsInv /\ [RNext]_allVars => RequestsInv'
  <1> SUFFICES ASSUME RequestsInv, [RNext]_allVars PROVE RequestsInv'
    OBVIOUS
  \* The atomic operations leave the requests alone.
  <1>1. ASSUME [Next]_vars, UNCHANGED requests PROVE RequestsInv'
    BY <1>1, TypeOKStep DEF RequestsInv
  <1>2. ASSUME NEW r \in Slots, End(r) PROVE RequestsInv'
    BY <1>1, <1>2 DEF End, RequestsInv, RequestStates, TypeOK, vars
  <1>3. ASSUME NEW r \in Slots, Create(r) \/ DeleteAccount(r) PROVE RequestsInv'
    BY <1>1, <1>3 DEF Create, DeleteAccount, Next
  <1>4. CASE Tick
    BY <1>1, <1>4 DEF Tick, Next
  <1>5. CASE UNCHANGED allVars
    BY <1>1, <1>5 DEF allVars, vars
  <1>6. QED
    BY <1>2, <1>3, <1>4, <1>5, AdmitStep, LoadStep, LeaveStep, CompareStep, CommitStep
       DEF RNext

\* What the rows, and the columns that requests hold in memory, can be at
\* every await, whatever overlaps: the inductive invariant of what follows.
THEOREM RequestsInvariant == RSpec => []RequestsInv
  BY RequestsInvInit, RequestsInvStep, PTL DEF RSpec

\* However many requests overlap, the tables and the columns in flight stay
\* well typed: no mixture of two commits demands a position a negative number
\* of times or gives a row a status that is none.
THEOREM RequestsAreTyped == RSpec => []RequestTypeOK
  BY RequestsInvariant, RequestsInvTyped, PTL

-----------------------------------------------------------------------------
(* What holds whatever overlaps. *)

\* The atomic operations that run beside the requests, and the steps that only
\* change the memory of a handler.
LEMMA TablesStep ==
    ASSUME [RNext]_allVars
    PROVE  \/ \E r \in Slots : Commit(r)
           \/ \E a \in Applications : CreateNewRoom(a)
           \/ \E u \in Users : DeleteLeagueUser(u)
           \/ UNCHANGED <<room, date, demanded, status, owners, accounts>>
  <1>1. ASSUME NEW r \in Slots,
               \/ AdmitRequest(r)
               \/ LoadToApply(r) \/ LoadToApprove(r) \/ LoadToReject(r)
               \/ LoadToUpdate(r) \/ LoadToRemove(r)
               \/ ReadDetails(r) \/ ReadOwnRow(r) \/ DecideToLeave(r)
               \/ CompareRows(r) \/ CompareRoom(r) \/ End(r)
        PROVE  UNCHANGED vars
    BY <1>1 DEF AdmitRequest, LoadToApply, LoadToApprove, LoadToReject, LoadToUpdate,
                LoadToRemove, Loaded, ReadDetails, ReadOwnRow, DecideToLeave,
                CompareRows, CompareRoom, End
  <1>2. QED
    BY <1>1 DEF RNext, allVars, vars, Create, DeleteAccount, Tick, TimePasses

\* What a commit does to one row: a stored row stays one, and a new row belongs
\* to an account that exists.
LEMMA CommittedRow ==
    ASSUME NEW r \in Slots, Commit(r), NEW a \in Applications
    PROVE  /\ status[a] # "NONE" => status'[a] # "NONE"
           /\ status[a] = "NONE" /\ status'[a] # "NONE" => a.user \in accounts
           /\ accounts' = accounts
  BY DEF Commit, SatisfiesConstraints

LEMMA NoRowWithoutAccountStep ==
    TypeOK /\ NoRowWithoutAccount /\ [RNext]_allVars => NoRowWithoutAccount'
  <1> SUFFICES ASSUME TypeOK, NoRowWithoutAccount, [RNext]_allVars
               PROVE  NoRowWithoutAccount'
    OBVIOUS
  <1>1. ASSUME NEW r \in Slots, Commit(r) PROVE NoRowWithoutAccount'
    BY <1>1, CommittedRow DEF NoRowWithoutAccount
  <1>2. ASSUME NEW a \in Applications, CreateNewRoom(a) PROVE NoRowWithoutAccount'
    BY <1>2 DEF CreateNewRoom, NoRowWithoutAccount, TypeOK
  <1>3. ASSUME NEW u \in Users, DeleteLeagueUser(u) PROVE NoRowWithoutAccount'
    BY <1>3 DEF DeleteLeagueUser, NoRowWithoutAccount, TypeOK
  <1>4. CASE UNCHANGED <<room, date, demanded, status, owners, accounts>>
    BY <1>4 DEF NoRowWithoutAccount
  <1>5. QED
    BY <1>1, <1>2, <1>3, <1>4, TablesStep

\* A save() that overlaps the deletion of an account never brings its rows
\* back, although the handler that calls it still has them in memory.
THEOREM RowsHaveAccounts == RSpec => []NoRowWithoutAccount
  <1>1. RInit => NoRowWithoutAccount
    BY DEF RInit, Init, NoRowWithoutAccount
  <1>2. RequestsInv => TypeOK
    BY DEF RequestsInv
  <1>3. QED
    BY <1>1, <1>2, NoRowWithoutAccountStep, RequestsInvariant, PTL DEF RSpec

\* A save() that overlaps an application never takes its row out of the room,
\* although the handler that calls it has not seen the row.
THEOREM ApplicationsAreNeverLost == RSpec => ApplicationsNeverLost
  <1> DEFINE Kept == \A a \in Applications :
                status[a] # "NONE" /\ status'[a] = "NONE" => a.user \notin accounts'
  <1>1. TypeOK /\ [RNext]_allVars => [Kept]_allVars
    <2> SUFFICES ASSUME TypeOK, [RNext]_allVars,
                        NEW a \in Applications, status[a] # "NONE", status'[a] = "NONE"
                 PROVE  a.user \notin accounts'
      OBVIOUS
    <2>1. ASSUME NEW r \in Slots, Commit(r) PROVE FALSE
      BY <2>1, CommittedRow
    <2>2. ASSUME NEW b \in Applications, CreateNewRoom(b) PROVE FALSE
      BY <2>2 DEF CreateNewRoom, TypeOK
    <2>3. ASSUME NEW u \in Users, DeleteLeagueUser(u) PROVE a.user \notin accounts'
      BY <2>3 DEF DeleteLeagueUser
    <2>4. CASE UNCHANGED <<room, date, demanded, status, owners, accounts>>
      BY <2>4
    <2>5. QED
      BY <2>1, <2>2, <2>3, <2>4, TablesStep
  <1>2. RequestsInv => TypeOK
    BY DEF RequestsInv
  <1>3. QED
    BY <1>1, <1>2, RequestsInvariant, PTL DEF RSpec, ApplicationsNeverLost

-----------------------------------------------------------------------------
(* One request at a time: the requests implement RoomLifecycle. *)

\* The tables as the columns c of a save() are going to leave them.
WrittenStatus(c) ==
    [a \in Applications |-> IF a \in DOMAIN c.status THEN c.status[a] ELSE status[a]]

WrittenOwners(c) ==
    {a \in Applications : IF a \in DOMAIN c.isOwner THEN c.isOwner[a] ELSE a \in owners}

\* An atomic handler makes these tables of the present ones, at time n.
Applied(rm, dt, dm, st, own, n) ==
    \E a \in Applications :
        /\ a.user \in accounts /\ a.user \in LocalUsers
        /\ room = "LIVE" /\ date > n /\ demanded[a.position] > 0 /\ status[a] = "NONE"
        /\ <<rm, dt, dm, own>> = <<room, date, demanded, owners>>
        /\ st = [status EXCEPT ![a] = "PENDING"]

Decided(rm, dt, dm, st, own) ==
    \E u \in Users, a \in Applications :
        /\ PassesOwnerGuard(u) /\ CanBeHandled(a)
        /\ <<rm, dt, own>> = <<room, date, owners>>
        /\ \/ /\ demanded[a.position] > 0
              /\ dm = [demanded EXCEPT ![a.position] = 0]
              /\ st = [status EXCEPT ![a] = "APPROVED"]
           \/ dm = demanded /\ st = [status EXCEPT ![a] = "REJECTED"]

Updated(rm, dt, dm, st, own) ==
    \E u \in Users :
        /\ PassesOwnerGuard(u) /\ SeesDetails(u)
        /\ rm = room
        /\ dt = date \/ (dt \in RequestedDates /\ AcceptsDate(dt))
        /\ \/ dm = demanded /\ st = status
           \/ \E D \in SUBSET Positions :
                AcceptsPositions(D) /\ dm = BagOf(D) /\ st = RejectedOutside(D, status)
        /\ own = owners \/ (\E v \in Users : Rows(v) # {} /\ own = Rows(v))

HasLeft(rm, dt, dm, st, own) ==
    \E u \in Users : \E a \in Rows(u) :
        /\ PassesGuard(u) /\ SeesDetails(u)
        /\ demanded[a.position] < MaxDemand
        /\ <<dt, own>> = <<date, owners>>
        /\ dm = [demanded EXCEPT ![a.position] = @ + 1]
        /\ \/ a \notin owners /\ rm = room /\ st = [status EXCEPT ![a] = "LEFT"]
           \/ /\ a \in owners /\ rm = "REMOVED"
              /\ st = Dissolved([status EXCEPT ![a] = "LEFT"])

HasRemoved(rm, dt, dm, st, own) ==
    \E u \in Users :
        /\ PassesOwnerGuard(u) /\ SeesDetails(u)
        /\ <<dt, dm, own>> = <<date, demanded, owners>>
        /\ rm = "REMOVED" /\ st = Dissolved(status)

HandlerMakes(rm, dt, dm, st, own, n) ==
    \/ Applied(rm, dt, dm, st, own, n)
    \/ Decided(rm, dt, dm, st, own)
    \/ Updated(rm, dt, dm, st, own)
    \/ HasLeft(rm, dt, dm, st, own)
    \/ HasRemoved(rm, dt, dm, st, own)

\* While a single request is in flight, what it holds in memory is what the
\* atomic handler would compute now: the guard still passes, what it has read
\* is what the tables hold, and what it is going to write is what the handler
\* makes of them.  Rows that are inserted are known as such when they have been
\* compared, and an owner's row exists before and after.
AdmittedSerially(q) ==
    /\ IF q.kind = "leave" THEN PassesGuard(q.user) ELSE PassesOwnerGuard(q.user)
    /\ q.details \subseteq
        {[date |-> date, demanded |-> demanded, status |-> status, owners |-> owners]}
    /\ q.details # {} => SeesDetails(q.user)
    /\ \A row \in q.row : row.id \in Rows(q.user) /\ row.isOwner = (row.id \in owners)

SavingSerially(q) ==
    LET c == q.columns IN
    /\ \A rm \in OrElse(c.room, room), dt \in OrElse(c.date, date),
          dm \in OrElse(c.demanded, demanded) :
            HandlerMakes(rm, dt, dm, WrittenStatus(c), WrittenOwners(c), q.since)
    /\ "rows" \notin q.todo =>
        \A a \in DOMAIN c.status : status[a] = "NONE" => a \in q.inserts
    /\ \A a \in WrittenOwners(c) : WrittenStatus(c)[a] # "NONE"
    /\ q.since <= now

SerialInv ==
    /\ \A a \in owners : status[a] # "NONE"
    /\ \A r \in Slots :
        /\ StepOf(r) = "admitted" => AdmittedSerially(requests[r])
        /\ StepOf(r) = "saving" => SavingSerially(requests[r])
        /\ StepOf(r) = "answer" => requests[r].since <= now

LEMMA OneRowWrites ==
    ASSUME TypeOK, NEW a \in Applications, NEW s, NEW dm,
           NEW c, c = OneRow(a, s, dm)
    PROVE  /\ OrElse(c.room, room) = {room}
           /\ OrElse(c.date, date) = {date}
           /\ OrElse(c.demanded, demanded) = OrElse(dm, demanded)
           /\ WrittenStatus(c) = [status EXCEPT ![a] = s]
           /\ WrittenOwners(c) = owners
  BY DEF OneRow, Columns, OrElse, WrittenStatus, WrittenOwners, TypeOK

\* The handlers read the tables, and nothing else.
LEMMA HandlerReads ==
    ASSUME NEW rm, NEW dt, NEW dm, NEW st, NEW own, NEW n,
           UNCHANGED <<room, date, demanded, status, owners, accounts>>,
           HandlerMakes(rm, dt, dm, st, own, n)
    PROVE  HandlerMakes(rm, dt, dm, st, own, n)'
  <1>1. CASE Applied(rm, dt, dm, st, own, n)
    BY <1>1 DEF HandlerMakes, Applied
  <1>2. CASE Decided(rm, dt, dm, st, own)
    BY <1>2 DEF HandlerMakes, Decided, PassesOwnerGuard, CanBeHandled, Rows
  <1>3. CASE Updated(rm, dt, dm, st, own)
    BY <1>3 DEF HandlerMakes, Updated, PassesOwnerGuard, SeesDetails, IsMember, Rows,
                AcceptsPositions
  <1>4. CASE HasLeft(rm, dt, dm, st, own)
    BY <1>4 DEF HandlerMakes, HasLeft, PassesGuard, SeesDetails, IsMember, Rows
  <1>5. CASE HasRemoved(rm, dt, dm, st, own)
    BY <1>5 DEF HandlerMakes, HasRemoved, PassesOwnerGuard, SeesDetails, IsMember, Rows
  <1>6. QED
    BY <1>1, <1>2, <1>3, <1>4, <1>5 DEF HandlerMakes

\* Steps that leave tables and requests alone, but for the clock.
LEMMA AdmittedReads ==
    ASSUME NEW q, UNCHANGED <<room, date, demanded, status, owners, accounts>>,
           AdmittedSerially(q)
    PROVE  AdmittedSerially(q)'
  BY DEF AdmittedSerially, PassesGuard, PassesOwnerGuard, SeesDetails, IsMember, Rows

LEMMA SavingReads ==
    ASSUME NEW q, UNCHANGED <<room, date, demanded, status, owners, accounts>>,
           now \in Nat, now' \in Nat, q.since \in Nat, now <= now',
           SavingSerially(q)
    PROVE  SavingSerially(q)'
  <1> DEFINE c == q.columns
  <1>1. /\ WrittenStatus(c)' = WrittenStatus(c)
        /\ WrittenOwners(c)' = WrittenOwners(c)
    BY DEF WrittenStatus, WrittenOwners
  <1>2. ASSUME NEW rm \in OrElse(c.room, room), NEW dt \in OrElse(c.date, date),
               NEW dm \in OrElse(c.demanded, demanded)
        PROVE  HandlerMakes(rm, dt, dm, WrittenStatus(c), WrittenOwners(c), q.since)'
    <2>1. HandlerMakes(rm, dt, dm, WrittenStatus(c), WrittenOwners(c), q.since)
      BY DEF SavingSerially
    <2>2. PICK st, own : st = WrittenStatus(c) /\ own = WrittenOwners(c)
      OBVIOUS
    <2>3. HandlerMakes(rm, dt, dm, st, own, q.since)'
      BY <2>1, <2>2, HandlerReads
    <2>4. QED
      BY <1>1, <2>2, <2>3
  <1>3. QED
    BY <1>1, <1>2 DEF SavingSerially

\* Nothing happens to the tables, and the requests stay as they are.
LEMMA IdleSerially ==
    ASSUME RequestsInv, RequestsInv', SerialInv, now <= now', UNCHANGED requests,
           UNCHANGED <<room, date, demanded, status, owners, accounts>>
    PROVE  SerialInv'
  <1>1. now \in Nat /\ now' \in Nat
    BY DEF RequestsInv, TypeOK, Times
  <1>2. ASSUME NEW r \in Slots, StepOf(r) = "admitted"
        PROVE  AdmittedSerially(requests[r])'
    <2>1. PICK q : q = requests[r]
      OBVIOUS
    <2>2. AdmittedSerially(q)'
      BY <1>2, <2>1, AdmittedReads DEF SerialInv
    <2>3. q = requests'[r]
      BY <2>1
    <2>4. QED
      BY <2>2, <2>3
  <1>3. ASSUME NEW r \in Slots, StepOf(r) = "saving"
        PROVE  SavingSerially(requests[r])'
    <2>1. PICK q : q = requests[r]
      OBVIOUS
    <2>2. q.since \in Nat
      BY <1>3, <2>1, StepShapes DEF SavingRequests, Times
    <2>3. SavingSerially(q)'
      BY <1>1, <1>3, <2>1, <2>2, SavingReads DEF SerialInv
    <2>4. q = requests'[r]
      BY <2>1
    <2>5. QED
      BY <2>3, <2>4
  <1>4. ASSUME NEW r \in Slots, StepOf(r) = "answer"
        PROVE  requests'[r].since <= now'
    <2>1. requests[r].since <= now /\ requests[r].since \in Nat
      BY <1>4, StepShapes DEF SerialInv, AnsweredRequests, Times
    <2>2. QED
      BY <1>1, <2>1
  <1>5. \A a \in owners' : status'[a] # "NONE"
    BY DEF SerialInv
  <1>6. QED
    BY <1>2, <1>3, <1>4, <1>5 DEF SerialInv, StepOf

\* A handler has loaded what it is going to save.
LEMMA LoadedSerially ==
    ASSUME NEW r, Slots = {r}, RequestsInv, SerialInv,
           NEW kind \in RequestKinds, NEW c, Loaded(r, kind, c),
           \A rm \in OrElse(c.room, room), dt \in OrElse(c.date, date),
              dm \in OrElse(c.demanded, demanded) :
                HandlerMakes(rm, dt, dm, WrittenStatus(c), WrittenOwners(c), now),
           \A a \in WrittenOwners(c) : WrittenStatus(c)[a] # "NONE"
    PROVE  SerialInv'
  <1>1. PICK q : q = [step |-> "saving", kind |-> kind, columns |-> c, inserts |-> {},
                      todo |-> IF kind = "reject" THEN {"rows"} ELSE {"rows", "room"},
                      since |-> now]
    OBVIOUS
  <1>2. requests'[r] = q /\ UNCHANGED vars
    BY <1>1 DEF Loaded, RequestsInv
  <1>3. q.columns = c /\ "rows" \in q.todo /\ q.since = now
    BY <1>1
  <1>4. now \in Nat /\ q.since \in Nat /\ now <= now'
    BY <1>2, <1>3 DEF RequestsInv, TypeOK, Times, vars
  <1>5. SavingSerially(q)
    BY <1>3, <1>4 DEF SavingSerially
  <1>6. SavingSerially(q)'
    BY <1>2, <1>4, <1>5, SavingReads DEF vars
  <1>7. SavingSerially(requests[r])'
    BY <1>2, <1>6
  <1>8. StepOf(r)' = "saving"
    BY <1>1, <1>2 DEF StepOf
  <1>9. \A a \in owners' : status'[a] # "NONE"
    BY <1>2 DEF SerialInv, vars
  <1>10. QED
    BY <1>7, <1>8, <1>9 DEF SerialInv

LEMMA RoomLoadedSerially ==
    ASSUME NEW r, Slots = {r}, RequestsInv, SerialInv, NEW kind \in RequestKinds,
           NEW rm, NEW dt, NEW dm, NEW st \in [Applications -> Statuses],
           NEW own \in SUBSET Applications,
           Loaded(r, kind, WholeRoom(rm, dt, dm, st, own)),
           HandlerMakes(rm, dt, dm, st, own, now),
           \A a \in own : st[a] # "NONE"
    PROVE  SerialInv'
  <1>1. PICK c : c = WholeRoom(rm, dt, dm, st, own)
    OBVIOUS
  <1>2. /\ OrElse(c.room, room) = {rm}
        /\ OrElse(c.date, date) = {dt}
        /\ OrElse(c.demanded, demanded) = {dm}
        /\ WrittenStatus(c) = st
        /\ WrittenOwners(c) = own
    BY <1>1 DEF WholeRoom, Columns, OrElse, WrittenStatus, WrittenOwners
  <1>3. Loaded(r, kind, c)
    BY <1>1
  <1>4. QED
    BY <1>2, <1>3, LoadedSerially

\* The guard has let a request in.
LEMMA AdmitSerially ==
    ASSUME NEW r, Slots = {r}, RequestsInv, SerialInv, AdmitRequest(r)
    PROVE  SerialInv'
  <1>1. PICK u \in accounts, kind \in {"approve", "reject", "update", "remove", "leave"} :
          /\ IF kind = "leave" THEN PassesGuard(u) ELSE PassesOwnerGuard(u)
          /\ Admit(r, kind, u)
    BY DEF AdmitRequest
  <1>2. PICK q : q = [step |-> "admitted", kind |-> kind, user |-> u, row |-> {}, details |-> {}]
    OBVIOUS
  <1>3. requests'[r] = q /\ UNCHANGED vars
    BY <1>1, <1>2 DEF Admit, AdmitRequest, RequestsInv
  <1>4. AdmittedSerially(q)
    BY <1>1, <1>2 DEF AdmittedSerially
  <1>5. AdmittedSerially(q)'
    BY <1>3, <1>4, AdmittedReads DEF vars
  <1>6. AdmittedSerially(requests[r])' /\ StepOf(r)' = "admitted"
    BY <1>2, <1>3, <1>5 DEF StepOf
  <1>7. \A a \in owners' : status'[a] # "NONE"
    BY <1>3 DEF SerialInv, vars
  <1>8. QED
    BY <1>6, <1>7 DEF SerialInv

\* What each handler loads is what the atomic handler makes of the tables.
LEMMA LoadSerially ==
    ASSUME NEW r, Slots = {r}, RequestsInv, SerialInv,
           \/ LoadToApply(r) \/ LoadToApprove(r) \/ LoadToReject(r)
           \/ LoadToUpdate(r) \/ LoadToRemove(r)
    PROVE  SerialInv'
  <1> USE RowColumns
  <1>0. TypeOK /\ r \in Slots /\ \A a \in owners : status[a] # "NONE"
    BY DEF RequestsInv, SerialInv
  <1>1. CASE LoadToApply(r)
    <2>1. PICK a \in Applications :
            /\ a.user \in accounts
            /\ FindsRoomToApply(a.user)
            /\ demanded[a.position] > 0
            /\ status[a] = "NONE"
            /\ Loaded(r, "apply", WholeRoom(room, date, demanded,
                                     [status EXCEPT ![a] = "PENDING"], owners))
      BY <1>1 DEF LoadToApply, IsFresh
    <2> DEFINE st == [status EXCEPT ![a] = "PENDING"]
               c == WholeRoom(room, date, demanded, st, owners)
    <2>2. st \in [Applications -> Statuses] /\ owners \in SUBSET Applications
      BY <1>0 DEF TypeOK, Statuses
    <2>3. \A b \in owners : st[b] # "NONE"
      BY <1>0 DEF TypeOK
    <2>4. HandlerMakes(room, date, demanded, st, owners, now)
      BY <2>1 DEF HandlerMakes, Applied, FindsRoomToApply
    <2> HIDE DEF st
    <2>5. Loaded(r, "apply", c)
      BY <2>1 DEF st
    <2>6. QED
      BY <2>2, <2>3, <2>4, <2>5, RoomLoadedSerially DEF RequestKinds
  <1>2. CASE LoadToApprove(r)
    <2>1. PICK a \in Applications :
            /\ CanBeHandled(a)
            /\ demanded[a.position] > 0
            /\ Loaded(r, "approve",
                      OneRow(a, "APPROVED", {[demanded EXCEPT ![a.position] = 0]}))
      BY <1>2 DEF LoadToApprove
    <2> DEFINE st == [status EXCEPT ![a] = "APPROVED"]
               dm == [demanded EXCEPT ![a.position] = 0]
               c == OneRow(a, "APPROVED", {dm})
    <2>2. PassesOwnerGuard(requests[r].user) /\ requests[r].user \in Users
      BY <1>0, <1>2, StepShapes DEF LoadToApprove, Admitted, SerialInv, AdmittedSerially,
                                    AdmittedRequests
    <2>3. HandlerMakes(room, date, dm, st, owners, now)
      BY <2>1, <2>2 DEF HandlerMakes, Decided
    <2>4. \A b \in owners : st[b] # "NONE"
      BY <1>0 DEF TypeOK
    <2>5. Loaded(r, "approve", c)
      BY <2>1
    <2> HIDE DEF dm
    <2>6. /\ OrElse(c.room, room) = {room}
          /\ OrElse(c.date, date) = {date}
          /\ OrElse(c.demanded, demanded) = OrElse({dm}, demanded)
          /\ WrittenStatus(c) = st
          /\ WrittenOwners(c) = owners
      BY <1>0, OneRowWrites
    <2>7. OrElse({dm}, demanded) = {dm}
      BY DEF OrElse
    <2> HIDE DEF st, c
    <2>8. OrElse(c.demanded, demanded) = {dm}
      BY <2>6, <2>7
    <2>9. \A x \in OrElse(c.room, room), y \in OrElse(c.date, date),
             z \in OrElse(c.demanded, demanded) :
                HandlerMakes(x, y, z, WrittenStatus(c), WrittenOwners(c), now)
      BY <2>3, <2>6, <2>8
    <2>10. QED
      BY <2>4, <2>5, <2>6, <2>9, LoadedSerially DEF RequestKinds
  <1>3. CASE LoadToReject(r)
    <2>1. PICK a \in Applications :
            CanBeHandled(a) /\ Loaded(r, "reject", OneRow(a, "REJECTED", {}))
      BY <1>3 DEF LoadToReject
    <2> DEFINE st == [status EXCEPT ![a] = "REJECTED"]
               c == OneRow(a, "REJECTED", {})
    <2>2. PassesOwnerGuard(requests[r].user) /\ requests[r].user \in Users
      BY <1>0, <1>3, StepShapes DEF LoadToReject, Admitted, SerialInv, AdmittedSerially,
                                    AdmittedRequests
    <2>3. HandlerMakes(room, date, demanded, st, owners, now)
      BY <2>1, <2>2 DEF HandlerMakes, Decided
    <2>4. \A b \in owners : st[b] # "NONE"
      BY <1>0 DEF TypeOK
    <2>5. /\ OrElse(c.room, room) = {room}
          /\ OrElse(c.date, date) = {date}
          /\ OrElse(c.demanded, demanded) = {demanded}
          /\ WrittenStatus(c) = st
          /\ WrittenOwners(c) = owners
      BY <1>0, OneRowWrites DEF OrElse
    <2> HIDE DEF st, c
    <2>6. Loaded(r, "reject", c)
      BY <2>1 DEF c
    <2>7. QED
      BY <2>3, <2>4, <2>5, <2>6, LoadedSerially DEF RequestKinds
  <1>4. CASE LoadToUpdate(r)
    <2> DEFINE u == requests[r].user
    <2>1. PassesOwnerGuard(u) /\ SeesDetails(u) /\ u \in Users
      BY <1>0, <1>4, StepShapes DEF LoadToUpdate, Admitted, SerialInv, AdmittedSerially,
                                    AdmittedRequests
    <2> HIDE DEF u
    <2>2. PICK dt \in {date} \cup {d \in RequestedDates : AcceptsDate(d)},
               own \in {owners} \cup ({Rows(v) : v \in Users} \ {{}}) :
            \/ Loaded(r, "update", WholeRoom(room, dt, demanded, status, own))
            \/ \E D \in SUBSET Positions :
                /\ AcceptsPositions(D)
                /\ Loaded(r, "update",
                          WholeRoom(room, dt, BagOf(D), RejectedOutside(D, status), own))
      BY <1>4 DEF LoadToUpdate
    <2>3. /\ dt = date \/ (dt \in RequestedDates /\ AcceptsDate(dt))
          /\ own = owners \/ (\E v \in Users : Rows(v) # {} /\ own = Rows(v))
      OBVIOUS
    <2>4. own \in SUBSET Applications /\ \A b \in own : status[b] # "NONE"
      BY <1>0, <2>3, RowsExist DEF TypeOK
    <2>5. CASE Loaded(r, "update", WholeRoom(room, dt, demanded, status, own))
      <3>1. HandlerMakes(room, dt, demanded, status, own, now)
        BY <2>1, <2>3 DEF HandlerMakes, Updated
      <3>2. status \in [Applications -> Statuses]
        BY <1>0 DEF TypeOK
      <3>3. QED
        BY <2>4, <2>5, <3>1, <3>2, RoomLoadedSerially DEF RequestKinds
    <2>6. ASSUME NEW D \in SUBSET Positions, AcceptsPositions(D),
                 Loaded(r, "update",
                        WholeRoom(room, dt, BagOf(D), RejectedOutside(D, status), own))
          PROVE  SerialInv'
      <3>1. HandlerMakes(room, dt, BagOf(D), RejectedOutside(D, status), own, now)
        BY <2>1, <2>3, <2>6 DEF HandlerMakes, Updated
      <3>2. RejectedOutside(D, status) \in [Applications -> Statuses]
        BY <1>0 DEF TypeOK, RejectedOutside, Statuses
      <3>3. \A b \in own : RejectedOutside(D, status)[b] # "NONE"
        BY <2>4 DEF RejectedOutside
      <3>4. QED
        BY <2>4, <2>6, <3>1, <3>2, <3>3, RoomLoadedSerially DEF RequestKinds
    <2>7. QED
      BY <2>2, <2>5, <2>6
  <1>5. CASE LoadToRemove(r)
    <2>1. /\ PassesOwnerGuard(requests[r].user) /\ SeesDetails(requests[r].user)
          /\ requests[r].user \in Users
      BY <1>0, <1>5, StepShapes DEF LoadToRemove, Admitted, SerialInv, AdmittedSerially,
                                    AdmittedRequests
    <2>2. HandlerMakes("REMOVED", date, demanded, Dissolved(status), owners, now)
      BY <2>1 DEF HandlerMakes, HasRemoved
    <2>3. Dissolved(status) \in [Applications -> Statuses] /\ owners \in SUBSET Applications
      BY <1>0, DissolvedType DEF TypeOK
    <2>4. \A b \in owners : Dissolved(status)[b] # "NONE"
      BY <1>0, DissolvedRows DEF TypeOK
    <2>5. Loaded(r, "remove", WholeRoom("REMOVED", date, demanded, Dissolved(status), owners))
      BY <1>5 DEF LoadToRemove
    <2>6. QED
      BY <2>2, <2>3, <2>4, <2>5, RoomLoadedSerially DEF RequestKinds
  <1>6. QED
    BY <1>1, <1>2, <1>3, <1>4, <1>5

\* leaveRoom's two queries, and what it makes of them.
LEMMA LeaveSerially ==
    ASSUME NEW r, Slots = {r}, RequestsInv, SerialInv,
           ReadDetails(r) \/ ReadOwnRow(r) \/ DecideToLeave(r)
    PROVE  SerialInv'
  <1> USE RowColumns
  <1>0. TypeOK /\ r \in Slots /\ \A a \in owners : status[a] # "NONE"
    BY DEF RequestsInv, SerialInv
  <1>1. /\ requests[r] \in AdmittedRequests
        /\ AdmittedSerially(requests[r])
        /\ StepOf(r) = "admitted" /\ requests[r].kind = "leave"
    BY <1>0, StepShapes DEF ReadDetails, ReadOwnRow, DecideToLeave, Admitted, SerialInv
  <1>2. ASSUME NEW q, AdmittedSerially(q), q.step = "admitted",
               requests'[r] = q, UNCHANGED vars
        PROVE  SerialInv'
    <2>1. AdmittedSerially(q)'
      BY <1>2, AdmittedReads DEF vars
    <2>2. AdmittedSerially(requests[r])' /\ StepOf(r)' = "admitted"
      BY <1>2, <2>1 DEF StepOf
    <2>3. \A a \in owners' : status'[a] # "NONE"
      BY <1>0, <1>2 DEF vars
    <2>4. QED
      BY <2>2, <2>3 DEF SerialInv
  <1>3. CASE ReadDetails(r)
    <2> DEFINE d == [date |-> date, demanded |-> demanded, status |-> status, owners |-> owners]
    <2>1. PICK q : q = [requests[r] EXCEPT !.details = {d}]
      OBVIOUS
    <2>2. /\ q.details = {d}
          /\ q.step = requests[r].step /\ q.kind = requests[r].kind
          /\ q.user = requests[r].user /\ q.row = requests[r].row
      BY <1>1, <2>1 DEF AdmittedRequests
    <2>3. AdmittedSerially(q)
      BY <1>1, <1>3, <2>2 DEF ReadDetails, AdmittedSerially
    <2>4. requests'[r] = q
      BY <1>0, <1>3, <2>1 DEF ReadDetails, RequestsInv
    <2>5. QED
      BY <1>1, <1>2, <1>3, <2>2, <2>3, <2>4 DEF ReadDetails, StepOf
  <1>4. CASE ReadOwnRow(r)
    <2>1. PICK a \in Rows(requests[r].user) :
            requests' = [requests EXCEPT ![r].row = {[id |-> a, isOwner |-> a \in owners]}]
      BY <1>4 DEF ReadOwnRow
    <2> DEFINE o == [id |-> a, isOwner |-> a \in owners]
    <2>2. PICK q : q = [requests[r] EXCEPT !.row = {o}]
      OBVIOUS
    <2>3. /\ q.row = {o}
          /\ q.step = requests[r].step /\ q.kind = requests[r].kind
          /\ q.user = requests[r].user /\ q.details = requests[r].details
      BY <1>1, <2>2 DEF AdmittedRequests
    <2>4. o.id = a /\ o.isOwner = (a \in owners)
      OBVIOUS
    <2> HIDE DEF o
    <2>5. \A row \in q.row : row.id \in Rows(q.user) /\ row.isOwner = (row.id \in owners)
      BY <2>3, <2>4
    <2>6. AdmittedSerially(q)
      BY <1>1, <2>3, <2>5 DEF AdmittedSerially
    <2>7. requests'[r] = q
      BY <1>0, <2>1, <2>2 DEF RequestsInv, o
    <2>8. QED
      BY <1>1, <1>2, <1>4, <2>3, <2>6, <2>7 DEF ReadOwnRow, StepOf
  <1>5. CASE DecideToLeave(r)
    <2>1. PICK d \in requests[r].details, row \in requests[r].row :
            LET left == [d.status EXCEPT ![row.id] = "LEFT"]
                more == [d.demanded EXCEPT ![row.id.position] = @ + 1]
            IN
            /\ d.demanded[row.id.position] < MaxDemand
            /\ Loaded(r, "leave",
                      IF row.isOwner
                      THEN WholeRoom("REMOVED", d.date, more, Dissolved(left), d.owners)
                      ELSE WholeRoom("LIVE", d.date, more, left, d.owners))
      BY <1>5 DEF DecideToLeave
    <2>2. PICK u, a : u = requests[r].user /\ a = row.id
      OBVIOUS
    <2>3. /\ u \in Users /\ a \in Rows(u) /\ a \in Applications
          /\ row.isOwner <=> a \in owners
          /\ PassesGuard(u) /\ SeesDetails(u)
      BY <1>1, <2>1, <2>2, RowsExist DEF AdmittedRequests, AdmittedSerially
    <2>4. /\ d.date = date /\ d.demanded = demanded
          /\ d.status = status /\ d.owners = owners
      BY <1>1 DEF AdmittedSerially
    <2> DEFINE left == [status EXCEPT ![a] = "LEFT"]
               more == [demanded EXCEPT ![a.position] = @ + 1]
    <2>5. /\ left \in [Applications -> Statuses] /\ Dissolved(left) \in [Applications -> Statuses]
          /\ owners \in SUBSET Applications
      <3>1. left \in [Applications -> Statuses]
        BY <1>0 DEF TypeOK, Statuses
      <3>2. QED
        BY <1>0, <3>1, DissolvedType DEF TypeOK
    <2>6. \A b \in owners : left[b] # "NONE"
      BY <1>0, <2>5 DEF TypeOK
    <2>7. demanded[a.position] < MaxDemand
      BY <2>1, <2>2, <2>4
    <2>8. CASE a \in owners
      <3>1. Loaded(r, "leave", WholeRoom("REMOVED", date, more, Dissolved(left), owners))
        BY <2>1, <2>2, <2>3, <2>4, <2>8
      <3>2. HandlerMakes("REMOVED", date, more, Dissolved(left), owners, now)
        BY <2>3, <2>7, <2>8 DEF HandlerMakes, HasLeft
      <3>3. \A b \in owners : Dissolved(left)[b] # "NONE"
        <4> HIDE DEF left
        <4> QED
          BY <2>5, <2>6, DissolvedRows
      <3> HIDE DEF left, more
      <3>4. QED
        BY <2>5, <3>1, <3>2, <3>3, RoomLoadedSerially DEF RequestKinds
    <2>9. CASE a \notin owners
      <3>1. Loaded(r, "leave", WholeRoom("LIVE", date, more, left, owners))
        BY <2>1, <2>2, <2>3, <2>4, <2>9
      <3>2. HandlerMakes("LIVE", date, more, left, owners, now)
        BY <2>3, <2>7, <2>9 DEF HandlerMakes, HasLeft, SeesDetails
      <3> HIDE DEF left, more
      <3>3. QED
        BY <2>5, <2>6, <3>1, <3>2, RoomLoadedSerially DEF RequestKinds
    <2>10. QED
      BY <2>8, <2>9
  <1>6. QED
    BY <1>3, <1>4, <1>5

\* A comparison drops columns that the tables hold already, so what the save()
\* makes of the tables stays the same.
LEMMA CompareSerially ==
    ASSUME NEW r, Slots = {r}, RequestsInv, SerialInv, CompareRows(r) \/ CompareRoom(r)
    PROVE  SerialInv'
  <1> DEFINE c == requests[r].columns
  <1>0. TypeOK /\ r \in Slots /\ \A a \in owners : status[a] # "NONE"
    BY DEF RequestsInv, SerialInv
  <1>1. /\ requests[r] \in SavingRequests
        /\ SavingSerially(requests[r])
        /\ UNCHANGED vars
    BY <1>0, StepShapes DEF CompareRows, CompareRoom, SerialInv
  <1>2. ASSUME NEW q, SavingSerially(q), q.since \in Nat, q.step = "saving",
               requests'[r] = q
        PROVE  SerialInv'
    <2>1. now \in Nat /\ now' = now
      BY <1>0, <1>1 DEF TypeOK, Times, vars
    <2>2. SavingSerially(q)'
      BY <1>1, <1>2, <2>1, SavingReads DEF vars
    <2>3. SavingSerially(requests[r])' /\ StepOf(r)' = "saving"
      BY <1>2, <2>2 DEF StepOf
    <2>4. \A a \in owners' : status'[a] # "NONE"
      BY <1>0, <1>1 DEF vars
    <2>5. QED
      BY <2>3, <2>4 DEF SerialInv
  <1>3. PICK q : q = requests'[r]
    OBVIOUS
  <1>4. CASE CompareRows(r)
    <2> DEFINE changed == {a \in DOMAIN c.status : c.status[a] # status[a]}
               flagged == {a \in DOMAIN c.isOwner : c.isOwner[a] # (a \in owners)}
    <2>1. /\ q.columns.room = c.room /\ q.columns.date = c.date
          /\ q.columns.demanded = c.demanded
          /\ q.columns.status = Restrict(c.status, changed)
          /\ q.columns.isOwner = Restrict(c.isOwner, flagged)
          /\ q.inserts = {a \in changed : status[a] = "NONE"}
          /\ q.step = "saving" /\ q.since = requests[r].since
      BY <1>0, <1>1, <1>3, <1>4 DEF CompareRows, RequestsInv, SavingRequests, ColumnSets
    <2>2. c.status \in StatusColumns /\ c.isOwner \in OwnerColumns
      BY <1>1 DEF SavingRequests, ColumnSets
    <2>3. WrittenStatus(q.columns) = WrittenStatus(c)
      BY <2>1, <2>2, StatusColumnsType DEF WrittenStatus, Restrict
    <2>4. WrittenOwners(q.columns) = WrittenOwners(c)
      BY <2>1, <2>2, OwnerColumnsType DEF WrittenOwners, Restrict
    <2>5. \A a \in DOMAIN q.columns.status : status[a] = "NONE" => a \in q.inserts
      BY <2>1, <2>2, StatusColumnsType DEF Restrict
    <2>6. SavingSerially(q)
      BY <1>1, <2>1, <2>3, <2>4, <2>5 DEF SavingSerially
    <2>7. QED
      BY <1>1, <1>2, <1>3, <2>1, <2>6 DEF SavingRequests, Times
  <1>5. CASE CompareRoom(r)
    <2>1. /\ q.columns.room = c.room \ {room}
          /\ q.columns.date = c.date \ {date}
          /\ q.columns.demanded = c.demanded \ {demanded}
          /\ q.columns.status = c.status
          /\ q.columns.isOwner = c.isOwner
          /\ q.inserts = requests[r].inserts
          /\ q.todo = requests[r].todo \ {"room"}
          /\ q.step = "saving" /\ q.since = requests[r].since
      BY <1>0, <1>1, <1>3, <1>5 DEF CompareRoom, RequestsInv, SavingRequests, ColumnSets
    <2>2. /\ WrittenStatus(q.columns) = WrittenStatus(c)
          /\ WrittenOwners(q.columns) = WrittenOwners(c)
      BY <2>1 DEF WrittenStatus, WrittenOwners
    <2>3. \A values, v : OrElse(values \ {v}, v) \subseteq OrElse(values, v)
      BY DEF OrElse
    <2>4. SavingSerially(q)
      BY <1>1, <2>1, <2>2, <2>3 DEF SavingSerially
    <2>5. QED
      BY <1>1, <1>2, <1>3, <2>1, <2>4 DEF SavingRequests, Times
  <1>6. QED
    BY <1>4, <1>5

\* The commit leaves the tables as the columns say.
LEMMA CommitWrites ==
    ASSUME NEW r \in Slots, RequestsInv, SerialInv, Commit(r)
    PROVE  LET q == requests[r] IN
           /\ status' = WrittenStatus(q.columns)
           /\ owners' = WrittenOwners(q.columns)
           /\ accounts' = accounts
           /\ HandlerMakes(room', date', demanded', status', owners', q.since)
  <1> DEFINE q == requests[r]
             c == q.columns
  <1>1. TypeOK /\ q \in SavingRequests /\ SavingSerially(q) /\ q.todo = {}
    BY StepShapes DEF Commit, RequestsInv, SerialInv
  <1>2. c.status \in StatusColumns /\ c.isOwner \in OwnerColumns
    BY <1>1 DEF SavingRequests, ColumnSets
  <1>3. \A a \in DOMAIN c.status : status[a] = "NONE" => a \in q.inserts
    BY <1>1 DEF SavingSerially
  <1>4. status' = WrittenStatus(c)
    BY <1>2, <1>3, StatusColumnsType DEF Commit, WrittenStatus
  <1>5. owners' = WrittenOwners(c)
    <2> DEFINE stored == {a \in Applications : status[a] # "NONE" \/ a \in q.inserts}
    <2>1. ASSUME NEW a \in Applications, a \notin stored
          PROVE  a \notin owners /\ a \notin WrittenOwners(c)
      <3>1. a \notin owners
        BY <2>1 DEF SerialInv
      <3>2. WrittenStatus(c)[a] = "NONE"
        BY <1>3, <2>1 DEF WrittenStatus
      <3>3. QED
        BY <1>1, <3>1, <3>2 DEF SavingSerially
    <2>2. ASSUME NEW a \in Applications PROVE a \in owners' <=> a \in WrittenOwners(c)
      <3>1. CASE a \in stored
        BY <3>1 DEF Commit, WrittenOwners
      <3>2. CASE a \notin stored
        BY <2>1, <3>2 DEF Commit
      <3>3. QED
        BY <3>1, <3>2
    <2>3. owners' \subseteq Applications /\ WrittenOwners(c) \subseteq Applications
      BY DEF Commit, WrittenOwners
    <2>4. QED
      BY <2>2, <2>3
  <1>6. HandlerMakes(room', date', demanded', WrittenStatus(c), WrittenOwners(c), q.since)
    BY <1>1 DEF Commit, SavingSerially
  <1>7. QED
    BY <1>4, <1>5, <1>6 DEF Commit

LEMMA CommitSerially ==
    ASSUME NEW r, Slots = {r}, RequestsInv, SerialInv, Commit(r)
    PROVE  SerialInv'
  <1>1. /\ status' = WrittenStatus(requests[r].columns)
        /\ owners' = WrittenOwners(requests[r].columns)
    BY CommitWrites
  <1>2. requests[r] \in SavingRequests /\ SavingSerially(requests[r])
    BY StepShapes DEF Commit, SerialInv
  <1>3. \A a \in owners' : status'[a] # "NONE"
    BY <1>1, <1>2 DEF SavingSerially
  <1>4. requests'[r].step = "answer" /\ requests'[r].since <= now'
    BY <1>2 DEF Commit, RequestsInv, SavingSerially
  <1>5. QED
    BY <1>3, <1>4 DEF SerialInv, StepOf

\* Nothing is in flight after these steps: they need no slot, or free it.
LEMMA UnrequestedSerially ==
    ASSUME NEW r, Slots = {r}, RequestsInv, SerialInv,
           End(r) \/ Create(r) \/ DeleteAccount(r)
    PROVE  SerialInv'
  <1>1. TypeOK /\ \A a \in owners : status[a] # "NONE"
    BY DEF RequestsInv, SerialInv
  <1>2. StepOf(r)' = "idle"
    BY DEF End, Create, DeleteAccount, MayStart, StepOf, RequestsInv, Idle
  <1>3. \A a \in owners' : status'[a] # "NONE"
    <2>1. CASE End(r)
      BY <1>1, <2>1 DEF End, vars
    <2>2. CASE Create(r)
      BY <1>1, <2>2 DEF Create, CreateNewRoom, TypeOK
    <2>3. CASE DeleteAccount(r)
      BY <1>1, <2>3 DEF DeleteAccount, DeleteLeagueUser, TypeOK
    <2>4. QED
      BY <2>1, <2>2, <2>3
  <1>4. QED
    BY <1>2, <1>3 DEF SerialInv

LEMMA SerialInvStep ==
    ASSUME NEW r, Slots = {r}
    PROVE  RequestsInv /\ SerialInv /\ [RNext]_allVars => SerialInv'
  <1> SUFFICES ASSUME RequestsInv, SerialInv, [RNext]_allVars PROVE SerialInv'
    OBVIOUS
  <1>1. CASE Tick
    <2>1. now <= now'
      BY <1>1 DEF Tick, TimePasses, RequestsInv, TypeOK, Times
    <2>2. QED
      BY <1>1, <2>1, RequestsInvStep, IdleSerially DEF Tick, TimePasses
  <1>2. CASE UNCHANGED allVars
    <2>1. now <= now'
      BY <1>2 DEF allVars, RequestsInv, TypeOK, Times
    <2>2. QED
      BY <1>2, <2>1, RequestsInvStep, IdleSerially DEF allVars
  <1>3. QED
    BY <1>1, <1>2, AdmitSerially, LoadSerially, LeaveSerially, CompareSerially,
       CommitSerially, UnrequestedSerially
       DEF RNext

\* The clock of the atomic handlers.
LEMMA SerialNowIs ==
    ASSUME NEW r, Slots = {r}
    PROVE  /\ StepOf(r) \in {"saving", "answer"} => SerialNow = requests[r].since
           /\ StepOf(r) \notin {"saving", "answer"} => SerialNow = now
           /\ StepOf(r)' \in {"saving", "answer"} => SerialNow' = requests'[r].since
           /\ StepOf(r)' \notin {"saving", "answer"} => SerialNow' = now'
  BY DEF SerialNow, StepOf

\* What the atomic handlers make of the tables is a step of theirs.
LEMMA HandlerStep ==
    ASSUME NEW n, HandlerMakes(room', date', demanded', status', owners', n),
           SerialNow = n, SerialNow' = n, accounts' = accounts, accounts \subseteq Users
    PROVE  Serial!Next
  <1>1. CASE Applied(room', date', demanded', status', owners', n)
    <2>1. PICK a \in Applications : Serial!Apply(a)
      BY <1>1 DEF Applied, Serial!Apply, Serial!FindsRoomToApply
    <2>2. QED
      BY <2>1 DEF Serial!Next
  <1>2. CASE Decided(room', date', demanded', status', owners')
    <2>1. PICK u \in Users, a \in Applications : Serial!HandleApplication(u, a)
      BY <1>2 DEF Decided, PassesOwnerGuard, Rows, CanBeHandled,
                  Serial!HandleApplication, Serial!PassesOwnerGuard, Serial!Rows,
                  Serial!CanBeHandled, Serial!Approve, Serial!RemoveDemandedPosition,
                  Serial!Reject
    <2>2. QED
      BY <2>1 DEF Serial!Next
  <1>3. CASE Updated(room', date', demanded', status', owners')
    <2>1. PICK u \in Users :
            /\ PassesOwnerGuard(u) /\ SeesDetails(u)
            /\ room' = room
            /\ date' = date \/ (date' \in RequestedDates /\ AcceptsDate(date'))
            /\ \/ demanded' = demanded /\ status' = status
               \/ \E D \in SUBSET Positions :
                    /\ AcceptsPositions(D) /\ demanded' = BagOf(D)
                    /\ status' = RejectedOutside(D, status)
            /\ owners' = owners \/ (\E v \in Users : Rows(v) # {} /\ owners' = Rows(v))
      BY <1>3 DEF Updated
    <2>2. Serial!PassesOwnerGuard(u) /\ Serial!SeesDetails(u)
      BY <2>1 DEF PassesOwnerGuard, Rows, SeesDetails, IsMember, Serial!PassesOwnerGuard,
                  Serial!Rows, Serial!SeesDetails, Serial!IsMember
    <2>3. Serial!UpdateDate
      BY <2>1 DEF RequestedDates, AcceptsDate, Serial!UpdateDate, Serial!RequestedDates,
                  Serial!AcceptsDate
    <2>4. Serial!UpdateDemandedPositions
      <3>1. \A D : Serial!BagOf(D) = BagOf(D)
        BY DEF BagOf, Serial!BagOf
      <3>2. \A D : Serial!RejectedOutside(D, status) = RejectedOutside(D, status)
        BY DEF RejectedOutside, Serial!RejectedOutside
      <3>3. \A D : AcceptsPositions(D) => Serial!AcceptsPositions(D)
        BY DEF AcceptsPositions, Serial!AcceptsPositions, Cardinality, Serial!Cardinality
      <3>4. QED
        BY <2>1, <3>1, <3>2, <3>3 DEF Serial!UpdateDemandedPositions
    <2>5. Serial!SetOwner
      BY <2>1 DEF Rows, Serial!SetOwner, Serial!Rows
    <2>6. Serial!UpdateRoom(u)
      BY <2>1, <2>2, <2>3, <2>4, <2>5 DEF Serial!UpdateRoom
    <2>7. QED
      BY <2>6 DEF Serial!Next
  <1>4. CASE HasLeft(room', date', demanded', status', owners')
    <2>1. PICK u \in Users : Serial!LeaveRoom(u)
      BY <1>4 DEF HasLeft, PassesGuard, Rows, SeesDetails, IsMember, Dissolved,
                  Serial!LeaveRoom, Serial!PassesGuard, Serial!Rows, Serial!SeesDetails,
                  Serial!IsMember, Serial!Dissolved
    <2>2. QED
      BY <2>1 DEF Serial!Next
  <1>5. CASE HasRemoved(room', date', demanded', status', owners')
    <2>1. PICK u \in Users : Serial!RemoveRoom(u)
      BY <1>5 DEF HasRemoved, PassesOwnerGuard, Rows, SeesDetails, IsMember, Dissolved,
                  Serial!RemoveRoom, Serial!PassesOwnerGuard, Serial!Rows,
                  Serial!SeesDetails, Serial!IsMember, Serial!Dissolved
    <2>2. QED
      BY <2>1 DEF Serial!Next
  <1>6. QED
    BY <1>1, <1>2, <1>3, <1>4, <1>5 DEF HandlerMakes

LEMMA SerialStep ==
    ASSUME NEW r, Slots = {r}
    PROVE  RequestsInv /\ SerialInv /\ [RNext]_allVars => [Serial!Next]_(Serial!vars)
  <1> SUFFICES ASSUME RequestsInv, SerialInv, [RNext]_allVars
               PROVE  [Serial!Next]_(Serial!vars)
    OBVIOUS
  <1> DEFINE tables == <<room, date, demanded, status, owners, accounts>>
  <1>0. TypeOK /\ accounts \subseteq Users /\ r \in Slots
    BY DEF RequestsInv, TypeOK
  \* While a request is prepared, nothing happens; it has its time when it loads.
  <1>1. ASSUME \/ AdmitRequest(r)
               \/ LoadToApply(r) \/ LoadToApprove(r) \/ LoadToReject(r)
               \/ LoadToUpdate(r) \/ LoadToRemove(r)
               \/ ReadDetails(r) \/ ReadOwnRow(r) \/ DecideToLeave(r)
               \/ CompareRows(r) \/ CompareRoom(r)
        PROVE  UNCHANGED Serial!vars
    <2>1. UNCHANGED vars
      BY <1>1 DEF AdmitRequest, LoadToApply, LoadToApprove, LoadToReject, LoadToUpdate,
                  LoadToRemove, Loaded, ReadDetails, ReadOwnRow, DecideToLeave,
                  CompareRows, CompareRoom
    <2>2. SerialNow' = SerialNow
      <3>1. CASE \/ AdmitRequest(r) \/ ReadDetails(r) \/ ReadOwnRow(r)
        <4>1. requests'[r].step = "admitted" /\ StepOf(r) \in {"idle", "admitted"}
          BY <3>1, StepShapes DEF AdmitRequest, Admit, MayStart, ReadDetails, ReadOwnRow, Admitted,
                      StepOf, RequestsInv, AdmittedRequests
        <4>2. QED
          BY <2>1, <4>1, SerialNowIs DEF StepOf, vars
      <3>2. CASE \/ LoadToApply(r) \/ LoadToApprove(r) \/ LoadToReject(r)
                 \/ LoadToUpdate(r) \/ LoadToRemove(r) \/ DecideToLeave(r)
        <4>1. /\ StepOf(r) \in {"idle", "admitted"}
              /\ \E kind, c : Loaded(r, kind, c)
          BY <3>2 DEF LoadToApply, LoadToApprove, LoadToReject, LoadToUpdate, LoadToRemove,
                      DecideToLeave, MayStart, Admitted
        <4>2. requests'[r].step = "saving" /\ requests'[r].since = now
          BY <4>1 DEF Loaded, RequestsInv
        <4>3. QED
          BY <2>1, <4>1, <4>2, SerialNowIs DEF StepOf
      <3>3. CASE CompareRows(r) \/ CompareRoom(r)
        <4>1. /\ StepOf(r) = "saving" /\ requests'[r].step = "saving"
              /\ requests'[r].since = requests[r].since
          <5>1. StepOf(r) = "saving" /\ requests[r] \in SavingRequests
            BY <3>3, StepShapes DEF CompareRows, CompareRoom
          <5>2. CASE CompareRows(r)
            BY <5>1, <5>2 DEF CompareRows, RequestsInv, SavingRequests, ColumnSets
          <5>3. CASE CompareRoom(r)
            BY <5>1, <5>3 DEF CompareRoom, RequestsInv, SavingRequests, ColumnSets
          <5>4. QED
            BY <3>3, <5>1, <5>2, <5>3
        <4>2. QED
          BY <4>1, SerialNowIs DEF StepOf
      <3>4. QED
        BY <1>1, <3>1, <3>2, <3>3
    <2>3. QED
      BY <2>1, <2>2 DEF vars, Serial!vars
  \* The commit is the atomic handler, at the time its request has loaded.
  <1>2. CASE Commit(r)
    <2>1. SerialNow = requests[r].since /\ SerialNow' = requests[r].since
      <3>1. StepOf(r) = "saving" /\ requests'[r].step = "answer"
            /\ requests'[r].since = requests[r].since
        BY <1>2 DEF Commit, RequestsInv
      <3>2. QED
        BY <3>1, SerialNowIs DEF StepOf
    <2>2. QED
      BY <1>0, <1>2, <2>1, CommitWrites, HandlerStep
  \* When a request ends, the atomic clock catches up.
  <1>3. ASSUME SerialNow \in Times, SerialNow' \in Times, SerialNow <= SerialNow',
               UNCHANGED tables
        PROVE  [Serial!Next]_(Serial!vars)
    <2>1. CASE SerialNow' = SerialNow
      BY <1>3, <2>1 DEF Serial!vars
    <2>2. CASE SerialNow' # SerialNow
      <3>1. SerialNow' \in (SerialNow + 1)..MaxTime
        BY <1>3, <2>2 DEF Times
      <3>2. Serial!TimePasses
        BY <1>3, <3>1 DEF Serial!TimePasses
      <3>3. QED
        BY <3>2 DEF Serial!Next
    <2>3. QED
      BY <2>1, <2>2
  <1>4. CASE End(r)
    <2>1. SerialNow' = now' /\ now' = now
      BY <1>4, SerialNowIs DEF End, StepOf, RequestsInv, Idle, vars
    <2>2. SerialNow \in Times /\ now \in Times /\ SerialNow <= now
      BY <1>0, StepShapes, SerialNowIs
         DEF TypeOK, Times, SerialInv, SavingSerially, SavingRequests, AnsweredRequests
    <2>3. QED
      BY <1>3, <1>4, <2>1, <2>2 DEF End, vars
  <1>5. CASE Tick
    <2>1. now \in Times /\ now' \in Times /\ now <= now'
      BY <1>0, <1>5 DEF Tick, TimePasses, TypeOK, Times
    <2>2. StepOf(r)' = StepOf(r) /\ requests' = requests
      BY <1>5 DEF Tick, StepOf
    <2>3. CASE StepOf(r) \in {"saving", "answer"}
      BY <1>5, <2>2, <2>3, SerialNowIs DEF Tick, TimePasses, Serial!vars
    <2>4. CASE StepOf(r) \notin {"saving", "answer"}
      BY <1>3, <1>5, <2>1, <2>2, <2>4, SerialNowIs DEF Tick, TimePasses
    <2>5. QED
      BY <2>3, <2>4
  \* The operations that are atomic anyway, while no request is in flight.
  <1>6. CASE Create(r) \/ DeleteAccount(r)
    <2>1. StepOf(r) = "idle" /\ UNCHANGED <<requests, now>>
      BY <1>6 DEF Create, DeleteAccount, MayStart, CreateNewRoom, DeleteLeagueUser
    <2>2. SerialNow = now /\ SerialNow' = now
      BY <2>1, SerialNowIs DEF StepOf
    <2>3. CASE Create(r)
      <3>1. PICK a \in Applications : CreateNewRoom(a)
        BY <2>3 DEF Create
      <3>2. Serial!CreateNewRoom(a)
        BY <2>2, <3>1 DEF CreateNewRoom, BagOf, RequestedDates, AcceptsDate,
                          Serial!CreateNewRoom, Serial!BagOf, Serial!RequestedDates,
                          Serial!AcceptsDate
      <3>3. QED
        BY <3>2 DEF Serial!Next
    <2>4. CASE DeleteAccount(r)
      <3>1. PICK u \in Users : DeleteLeagueUser(u)
        BY <2>4 DEF DeleteAccount
      <3>2. Serial!DeleteLeagueUser(u)
        BY <2>2, <3>1 DEF DeleteLeagueUser, Serial!DeleteLeagueUser
      <3>3. QED
        BY <3>2 DEF Serial!Next
    <2>5. QED
      BY <1>6, <2>3, <2>4
  <1>7. CASE UNCHANGED allVars
    BY <1>7 DEF allVars, SerialNow, StepOf, Serial!vars
  <1>8. QED
    BY <1>1, <1>2, <1>4, <1>5, <1>6, <1>7 DEF RNext

\* With a single slot, every behaviour of the requests is one of the atomic
\* handlers: splitting a handler at its awaits, saving only what differs and
\* losing a request half-way make no difference until two requests overlap.
THEOREM SingleRequestsAreAtomic ==
    ASSUME NEW r, Slots = {r}
    PROVE  RSpec => ImplementsRoomLifecycle
  <1>1. RInit => SerialInv
    BY DEF RInit, Init, SerialInv, StepOf, Idle
  <1>2. RInit => Serial!Init
    BY DEF RInit, Init, Serial!Init, SerialNow, StepOf, Idle
  <1>3. RequestsInv /\ SerialInv /\ [RNext]_allVars => SerialInv'
    BY SerialInvStep
  <1>4. RequestsInv /\ SerialInv /\ [RNext]_allVars => [Serial!Next]_(Serial!vars)
    BY SerialStep
  <1>5. QED
    BY <1>1, <1>2, <1>3, <1>4, RequestsInvariant, PTL
       DEF RSpec, ImplementsRoomLifecycle, Serial!Spec

-----------------------------------------------------------------------------
(* What is proved of the atomic handlers holds of the requests as long as   *)
(* they come one after the other.                                           *)

LOCAL Atomic == INSTANCE RoomLifecycleProofs WITH now <- SerialNow

LEMMA SameHandlers == Serial!Next <=> Atomic!Next
  <1>1. \A a : Serial!CreateNewRoom(a) <=> Atomic!CreateNewRoom(a)
    BY DEF Atomic!CreateNewRoom, Serial!CreateNewRoom, Atomic!AcceptsDate,
           Serial!AcceptsDate, Atomic!BagOf, Serial!BagOf, Atomic!RequestedDates,
           Serial!RequestedDates
  <1>2. \A a : Serial!Apply(a) <=> Atomic!Apply(a)
    BY DEF Atomic!Apply, Serial!Apply, Atomic!FindsRoomToApply, Serial!FindsRoomToApply
  <1>3. \A u, a : Serial!HandleApplication(u, a) <=> Atomic!HandleApplication(u, a)
    BY DEF Atomic!HandleApplication, Serial!HandleApplication, Atomic!CanBeHandled,
           Serial!CanBeHandled, Atomic!PassesOwnerGuard, Serial!PassesOwnerGuard,
           Atomic!Rows, Serial!Rows, Atomic!SeesDetails, Serial!SeesDetails,
           Atomic!IsMember, Serial!IsMember, Atomic!Approve, Serial!Approve,
           Atomic!Reject, Serial!Reject, Atomic!RemoveDemandedPosition,
           Serial!RemoveDemandedPosition
  <1>4. \A u : Serial!UpdateRoom(u) <=> Atomic!UpdateRoom(u)
    BY DEF Atomic!UpdateRoom, Serial!UpdateRoom, Atomic!PassesOwnerGuard,
           Serial!PassesOwnerGuard, Atomic!Rows, Serial!Rows, Atomic!SeesDetails,
           Serial!SeesDetails, Atomic!IsMember, Serial!IsMember, Atomic!UpdateDate,
           Serial!UpdateDate, Atomic!RequestedDates, Serial!RequestedDates,
           Atomic!AcceptsDate, Serial!AcceptsDate, Atomic!UpdateDemandedPositions,
           Serial!UpdateDemandedPositions, Atomic!AcceptsPositions,
           Serial!AcceptsPositions, Atomic!RejectedOutside, Serial!RejectedOutside,
           Atomic!BagOf, Serial!BagOf, Atomic!SetOwner, Serial!SetOwner,
           Atomic!Cardinality, Serial!Cardinality, Cardinality
  <1>5. \A u : Serial!LeaveRoom(u) <=> Atomic!LeaveRoom(u)
    BY DEF Atomic!LeaveRoom, Serial!LeaveRoom, Atomic!PassesGuard, Serial!PassesGuard,
           Atomic!IsMember, Serial!IsMember, Atomic!Rows, Serial!Rows,
           Atomic!SeesDetails, Serial!SeesDetails, Atomic!Dissolved, Serial!Dissolved
  <1>6. \A u : Serial!RemoveRoom(u) <=> Atomic!RemoveRoom(u)
    BY DEF Atomic!RemoveRoom, Serial!RemoveRoom, Atomic!PassesOwnerGuard,
           Serial!PassesOwnerGuard, Atomic!Rows, Serial!Rows, Atomic!SeesDetails,
           Serial!SeesDetails, Atomic!IsMember, Serial!IsMember, Atomic!Dissolved,
           Serial!Dissolved
  <1>7. \A u : Serial!DeleteLeagueUser(u) <=> Atomic!DeleteLeagueUser(u)
    BY DEF Atomic!DeleteLeagueUser, Serial!DeleteLeagueUser
  <1>8. Serial!TimePasses <=> Atomic!TimePasses
    BY DEF Atomic!TimePasses, Serial!TimePasses
  <1>9. QED
    BY <1>1, <1>2, <1>3, <1>4, <1>5, <1>6, <1>7, <1>8 DEF Serial!Next, Atomic!Next

\* The invariants of a room need no request to be atomic, only that the next
\* one waits for it: one owner, nobody waiting in or belonging to a removed
\* room, no position filled twice, and whoever waits can be answered hold at
\* every await of every handler, whatever fails.
THEOREM SerialRequestsKeepRoomsInOrder ==
    ASSUME NEW r, Slots = {r}
    PROVE  RSpec => [](/\ OneOwner /\ RemovedRoomQuiescent
                       /\ NoDoubleBooking /\ PendingReachesOwner)
  <1>1. Serial!Spec => Atomic!Spec
    <2>1. Serial!Init => Atomic!Init
      BY DEF Serial!Init, Atomic!Init
    <2>2. [Serial!Next]_(Serial!vars) => [Atomic!Next]_(Atomic!vars)
      BY SameHandlers DEF Serial!vars, Atomic!vars
    <2>3. QED
      BY <2>1, <2>2, PTL DEF Serial!Spec, Atomic!Spec
  <1>2. Atomic!IsFiniteSet(Positions)
    BY PositionsAssumption DEF Atomic!IsFiniteSet, IsFiniteSet
  <1>3. Atomic!Spec => []Atomic!OneOwner
    BY <1>2, Atomic!RoomHasOneOwner,
       LocalUsersAssumption, ApplicationsAssumption, BoundsAssumption
  <1>4. Atomic!Spec => []Atomic!RemovedRoomQuiescent
    BY <1>2, Atomic!RemovedRoomIsQuiescent,
       LocalUsersAssumption, ApplicationsAssumption, BoundsAssumption
  <1>5. Atomic!Spec => []Atomic!NoDoubleBooking
    BY <1>2, Atomic!PositionsAreNotDoubleBooked,
       LocalUsersAssumption, ApplicationsAssumption, BoundsAssumption
  <1>6. Atomic!Spec => []Atomic!PendingReachesOwner
    BY <1>2, Atomic!PendingApplicationsReachOwner,
       LocalUsersAssumption, ApplicationsAssumption, BoundsAssumption
  <1>7. Atomic!OneOwner => OneOwner
    BY DEF Atomic!OneOwner, OneOwner
  <1>8. Atomic!RemovedRoomQuiescent => RemovedRoomQuiescent
    BY DEF Atomic!RemovedRoomQuiescent, RemovedRoomQuiescent
  <1>9. Atomic!NoDoubleBooking => NoDoubleBooking
    BY DEF Atomic!NoDoubleBooking, NoDoubleBooking,
           Atomic!SingleApplications, SingleApplications
  <1>10. Atomic!PendingReachesOwner => PendingReachesOwner
    BY DEF Atomic!PendingReachesOwner, PendingReachesOwner, Atomic!SingleApplications,
           SingleApplications, Atomic!ApplicationsWith, ApplicationsWith,
           Atomic!CanBeHandled, CanBeHandled, Atomic!ListsApplications,
           ListsApplications, Atomic!IsRoomOwner, IsRoomOwner, Atomic!Rows, Rows
  <1>11. RSpec => ImplementsRoomLifecycle
    BY SingleRequestsAreAtomic
  <1>12. QED
    BY <1>1, <1>3, <1>4, <1>5, <1>6, <1>7, <1>8, <1>9, <1>10, <1>11, PTL
       DEF ImplementsRoomLifecycle
=============================================================================
