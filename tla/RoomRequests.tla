---------------------------- MODULE RoomRequests ----------------------------
(***************************************************************************)
(* The handlers of RoomLifecycle as they run: several requests in flight,  *)
(* each of which awaits the database between                               *)
(*   - the query of LeagueRoomGuard,                                       *)
(*   - the query that loads the rows into entities (the entities are then  *)
(*     changed in memory, without awaiting),                               *)
(*   - the SELECTs with which TypeORM's save() finds the columns that      *)
(*     differ from the tables,                                             *)
(*   - the COMMIT of what save() has written.                              *)
(* A request writes back every loaded column that differs from the table   *)
(* when it compares, also columns it never meant to change.                *)
(*                                                                         *)
(* The variables of RoomLifecycle are the committed database.              *)
(***************************************************************************)
EXTENDS RoomLifecycle, Functions

CONSTANTS
    Slots,          \* bound: the requests that may be in flight together
    Kinds,          \* the handlers that are called
    Overlapping     \* the handlers called while another one is in flight

ASSUME KindsAssumption ==
    /\ Kinds \subseteq {"apply", "approve", "reject", "update", "leave", "remove", "delete"}
    /\ Overlapping \subseteq Kinds

VARIABLE requests   \* what each slot's handler holds in memory

allVars == <<room, date, demanded, status, owners, accounts, now, requests>>

Idle == [step |-> "idle"]

\* The columns a save() is going to write: at most one value for each column
\* of the room, and the rows whose status and isOwner are written.  A row
\* with status "NONE" is one taken out of the room (roomId set to NULL).
Columns(rm, dt, dm, st, own) ==
    [room |-> rm, date |-> dt, demanded |-> dm, status |-> st, isOwner |-> own]

\* A room entity with its applications: all of their columns are loaded.
WholeRoom(rm, dt, dm, st, own) ==
    Columns({rm}, {dt}, {dm}, st, [a \in Applications |-> a \in own])

\* A single application entity, and the demandedPositions saved with it.
OneRow(a, s, dm) ==
    Columns({}, {}, dm, [b \in {a} |-> s], [b \in {a} |-> b \in owners])

StepOf(r) == requests[r].step

\* A client sends a request of this kind, the server has a slot for it.
MayStart(r, kind) ==
    /\ StepOf(r) = "idle"
    /\ kind \in Kinds
    /\ \A s \in Slots \ {r} :
        StepOf(s) # "idle" => {kind, requests[s].kind} \subseteq Overlapping

RequestTypeOK ==
    /\ TypeOK
    /\ \A r \in Slots : StepOf(r) \in {"idle", "admitted", "saving", "answer"}
    /\ \A r \in Slots : StepOf(r) = "saving" =>
        /\ requests[r].columns.status \in [DOMAIN requests[r].columns.status -> Statuses]
        /\ requests[r].columns.demanded \subseteq [Positions -> 0..MaxDemand]
        /\ requests[r].since \in Times

RInit == Init /\ requests = [r \in Slots |-> Idle]

-----------------------------------------------------------------------------
(* The first query: the guard. *)

Admit(r, kind, u) ==
    requests' = [requests EXCEPT ![r] =
        [step |-> "admitted", kind |-> kind, user |-> u, row |-> {}, details |-> {}]]

AdmitRequest(r) ==
    /\ \E u \in accounts, kind \in {"approve", "reject", "update", "remove", "leave"} :
        /\ MayStart(r, kind)
        /\ IF kind = "leave" THEN PassesGuard(u) ELSE PassesOwnerGuard(u)
        /\ Admit(r, kind, u)
    /\ UNCHANGED vars

-----------------------------------------------------------------------------
(* The queries of the handlers, and what happens in memory. *)

\* The handler calls save() with these columns, loaded and changed at once.
Loaded(r, kind, columns) ==
    /\ requests' = [requests EXCEPT ![r] =
            [step |-> "saving", kind |-> kind, columns |-> columns, inserts |-> {},
             todo |-> IF kind = "reject" THEN {"rows"} ELSE {"rows", "room"},
             since |-> now]]
    /\ UNCHANGED vars

Admitted(r, kind) == StepOf(r) = "admitted" /\ requests[r].kind = kind

\* v4(): the row is not in the table and nobody else is about to insert it.
IsFresh(a) ==
    /\ status[a] = "NONE"
    /\ \A r \in Slots : StepOf(r) = "saving" =>
        a \notin {b \in DOMAIN requests[r].columns.status :
                    requests[r].columns.status[b] # "NONE"}

LoadToApply(r) ==
    /\ MayStart(r, "apply")
    /\ \E a \in Applications :
        /\ a.user \in accounts
        /\ FindsRoomToApply(a.user)
        /\ demanded[a.position] > 0
        /\ IsFresh(a)
        /\ Loaded(r, "apply", WholeRoom(room, date, demanded,
                               [status EXCEPT ![a] = "PENDING"], owners))

\* Mutant (ImplementsRoomLifecycle): only the row is saved.
LoadToApproveRowOnly(r) ==
    /\ Admitted(r, "approve")
    /\ \E a \in Applications :
        /\ CanBeHandled(a)
        /\ demanded[a.position] > 0
        /\ Loaded(r, "approve", OneRow(a, "APPROVED", {demanded}))

\* Mutant (RequestTypeOK): one copy of the position is taken off, found or not.
LoadToApproveUnchecked(r) ==
    /\ Admitted(r, "approve")
    /\ \E a \in Applications :
        /\ CanBeHandled(a)
        /\ Loaded(r, "approve", OneRow(a, "APPROVED", {[demanded EXCEPT ![a.position] = @ - 1]}))

LoadToApprove(r) ==
    /\ Admitted(r, "approve")
    /\ \E a \in Applications :
        /\ CanBeHandled(a)
        /\ demanded[a.position] > 0
        /\ Loaded(r, "approve", OneRow(a, "APPROVED", {[demanded EXCEPT ![a.position] = 0]}))

LoadToReject(r) ==
    /\ Admitted(r, "reject")
    /\ \E a \in Applications :
        CanBeHandled(a) /\ Loaded(r, "reject", OneRow(a, "REJECTED", {}))

LoadToUpdate(r) ==
    /\ Admitted(r, "update")
    /\ SeesDetails(requests[r].user)
    /\ \E dt \in {date} \cup {d \in RequestedDates : AcceptsDate(d)},
          own \in {owners} \cup ({Rows(v) : v \in Users} \ {{}}) :
        \/ Loaded(r, "update", WholeRoom(room, dt, demanded, status, own))
        \/ \E D \in SUBSET Positions :
            /\ AcceptsPositions(D)
            /\ Loaded(r, "update",
                      WholeRoom(room, dt, BagOf(D), RejectedOutside(D, status), own))

LoadToRemove(r) ==
    /\ Admitted(r, "remove")
    /\ SeesDetails(requests[r].user)
    /\ Loaded(r, "remove", WholeRoom("REMOVED", date, demanded, Dissolved(status), owners))

\* leaveRoom runs its two queries in parallel (Promise.all): they see the
\* database at two moments, in either order.
ReadDetails(r) ==
    /\ Admitted(r, "leave")
    /\ requests[r].details = {}
    /\ SeesDetails(requests[r].user)
    /\ requests' = [requests EXCEPT ![r].details =
            {[date |-> date, demanded |-> demanded, status |-> status, owners |-> owners]}]
    /\ UNCHANGED vars

ReadOwnRow(r) ==
    /\ Admitted(r, "leave")
    /\ requests[r].row = {}
    /\ \E a \in Rows(requests[r].user) :
        requests' = [requests EXCEPT ![r].row = {[id |-> a, isOwner |-> a \in owners]}]
    /\ UNCHANGED vars

DecideToLeave(r) ==
    /\ Admitted(r, "leave")
    /\ \E d \in requests[r].details, row \in requests[r].row :
        LET left == [d.status EXCEPT ![row.id] = "LEFT"]
            more == [d.demanded EXCEPT ![row.id.position] = @ + 1]
        IN
        /\ d.status[row.id] # "NONE"
        /\ d.demanded[row.id.position] < MaxDemand
        /\ Loaded(r, "leave",
                  IF row.isOwner
                  THEN WholeRoom("REMOVED", d.date, more, Dissolved(left), d.owners)
                  ELSE WholeRoom("LIVE", d.date, more, left, d.owners))

-----------------------------------------------------------------------------
(* save(): compare with the tables, then write what differs.  The order of   *)
(* demandedPositions does not count.                                         *)

CompareRows(r) ==
    /\ StepOf(r) = "saving"
    /\ "rows" \in requests[r].todo
    /\ LET c == requests[r].columns
           changed == {a \in DOMAIN c.status : c.status[a] # status[a]}
           flagged == {a \in DOMAIN c.isOwner : c.isOwner[a] # (a \in owners)}
       IN
        requests' = [requests EXCEPT
            ![r].columns.status = Restrict(c.status, changed),
            ![r].columns.isOwner = Restrict(c.isOwner, flagged),
            ![r].inserts = {a \in changed : status[a] = "NONE"},
            ![r].todo = @ \ {"rows"}]
    /\ UNCHANGED vars

\* The strategy that approves saves the row first, then the room.
CompareRoom(r) ==
    /\ StepOf(r) = "saving"
    /\ "room" \in requests[r].todo
    /\ requests[r].kind = "approve" => "rows" \notin requests[r].todo
    /\ requests' = [requests EXCEPT
            ![r].columns.room = @ \ {room},
            ![r].columns.date = @ \ {date},
            ![r].columns.demanded = @ \ {demanded},
            ![r].todo = @ \ {"room"}]
    /\ UNCHANGED vars

\* Mutant (ApplicationsNeverLost): the column roomId is nullable.
AllowsOrphans(c, inserts) == \A a \in inserts : a.user \in accounts

\* Mutant (NoRowWithoutAccount): leagueUserId has no foreign key.
AllowsUnknownUsers(c, inserts) ==
    \A a \in DOMAIN c.status : status[a] # "NONE" => c.status[a] # "NONE"

\* The constraints of the table: roomId is NOT NULL, and leagueUserId of an
\* inserted row refers to an existing account.
SatisfiesConstraints(c, inserts) ==
    /\ \A a \in DOMAIN c.status : status[a] # "NONE" => c.status[a] # "NONE"
    /\ \A a \in inserts : a.user \in accounts

OrElse(values, v) == IF values = {} THEN {v} ELSE values

\* An UPDATE of a row that is gone by now changes nothing.
Commit(r) ==
    LET c == requests[r].columns
        stored == {a \in Applications : status[a] # "NONE" \/ a \in requests[r].inserts}
    IN
    /\ StepOf(r) = "saving"
    /\ requests[r].todo = {}
    /\ SatisfiesConstraints(c, requests[r].inserts)
    /\ room' \in OrElse(c.room, room)
    /\ date' \in OrElse(c.date, date)
    /\ demanded' \in OrElse(c.demanded, demanded)
    /\ status' = [a \in Applications |->
                    IF a \in stored \cap DOMAIN c.status THEN c.status[a] ELSE status[a]]
    /\ owners' = {a \in Applications :
                    IF a \in stored \cap DOMAIN c.isOwner THEN c.isOwner[a] ELSE a \in owners}
    /\ requests' = [requests EXCEPT ![r] =
        [step |-> "answer", kind |-> @.kind, since |-> @.since]]
    /\ UNCHANGED <<accounts, now>>

\* The answer is sent; or the request was refused, an await was rejected, or
\* the process died, and what was not committed is lost.
End(r) ==
    /\ StepOf(r) # "idle"
    /\ requests' = [requests EXCEPT ![r] = Idle]
    /\ UNCHANGED vars

-----------------------------------------------------------------------------
(* The requests that need no splitting: the id of a room being created is    *)
(* not known to anyone, and removing an account is a single statement.       *)

Create(r) ==
    /\ StepOf(r) = "idle"
    /\ \E a \in Applications : CreateNewRoom(a)
    /\ UNCHANGED requests

DeleteAccount(r) ==
    /\ MayStart(r, "delete")
    /\ \E u \in Users : DeleteLeagueUser(u)
    /\ UNCHANGED requests

Tick == TimePasses /\ UNCHANGED requests

RNext ==
    \/ \E r \in Slots :
        \/ AdmitRequest(r)
        \/ LoadToApply(r) \/ LoadToApprove(r) \/ LoadToReject(r)
        \/ LoadToUpdate(r) \/ LoadToRemove(r)
        \/ ReadDetails(r) \/ ReadOwnRow(r) \/ DecideToLeave(r)
        \/ CompareRows(r) \/ CompareRoom(r) \/ Commit(r) \/ End(r)
        \/ Create(r) \/ DeleteAccount(r)
    \/ Tick

RSpec == RInit /\ [][RNext]_allVars

-----------------------------------------------------------------------------
(* Whatever overlaps. *)

\* A save() of a room that was loaded before somebody else's application came
\* in would take that application out of the room; it is refused as a whole.
\* A row goes only with the account of its applicant.
ApplicationsNeverLost ==
    [][\A a \in Applications :
        status[a] # "NONE" /\ status'[a] = "NONE" => a.user \notin accounts']_allVars

\* A save() of a room that was loaded before an account was deleted would
\* insert the rows of that account again; it is refused as a whole.
NoRowWithoutAccount ==
    \A a \in Applications : status[a] # "NONE" => a.user \in accounts

(* What the tests expect, and overlapping requests do not keep. *)

\* A room that has been removed stays removed.
RemovedRoomStaysRemoved ==
    [][room = "REMOVED" => room' = "REMOVED"]_allVars

-----------------------------------------------------------------------------
(* One request at a time. *)

\* The clock of the atomic handlers stands still from the moment a request
\* has loaded its rows until it ends.
SerialNow ==
    IF \E r \in Slots : StepOf(r) \in {"saving", "answer"}
    THEN LET r == CHOOSE r \in Slots : StepOf(r) \in {"saving", "answer"}
         IN requests[r].since
    ELSE now

Serial == INSTANCE RoomLifecycle WITH now <- SerialNow

\* With one slot, the requests of the code do exactly what the atomic handlers
\* of RoomLifecycle do, as of the moment they loaded their rows: what save()
\* writes is what the handler changed, and a request that fails changes nothing.
ImplementsRoomLifecycle == Serial!Spec
=============================================================================
