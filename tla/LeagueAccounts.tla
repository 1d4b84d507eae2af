---------------------------- MODULE LeagueAccounts ----------------------------
(***************************************************************************)
(* The league_user rows of one user and the column of his user_games row   *)
(* that refers to one of them (league-users.service.ts), with several      *)
(* requests in flight.  Every request works on its own user's rows, so one *)
(* user is enough.                                                         *)
(*                                                                         *)
(* Riot is asked between the query and save(), which leaves any time for   *)
(* other requests; its answer depends on nothing here, so it is part of    *)
(* the step that loads.  save() SELECTs the row and the reference, one     *)
(* after the other, and writes in one transaction what differs.  Saving    *)
(* the User (a new password, a verification code) cascades to his games    *)
(* and from there to his account, all of them loaded eagerly.              *)
(***************************************************************************)
EXTENDS Naturals, Functions

CONSTANTS
    Regions, Positions, Summoners, Riot,    \* as in LeagueAccount
    Slots,          \* bound: the requests that may be in flight together
    MaxAccounts     \* bound: the league_user rows ever inserted

ASSUME RiotAssumption == Riot \subseteq Regions \X Summoners
ASSUME MaxAccountsAssumption == MaxAccounts \in Nat

VARIABLES
    rows,       \* the league_user rows, by their id
    link,       \* user_games.league_of_legends, None for NULL
    inserted,   \* the ids generated so far are 1..inserted
    requests,   \* what each slot's handler holds in memory
    met         \* history: the hazards of which two requests have overlapped

vars == <<rows, link, inserted, requests, met>>

None == 0
Accounts == 1..MaxAccounts

\* What the rest of the program sees of it all.
Account == INSTANCE LeagueAccount WITH
    account <- IF link = None THEN {} ELSE {rows[link]}

Details == Account!Details
ColumnValues == [summoner |-> Summoners, region |-> Regions,
                 main |-> Positions, secondary |-> Positions]
Columns == DOMAIN ColumnValues

Kinds == {"create", "update", "delete", "user"}

\* The kinds of two requests whose overlap leaves something behind.
Hazard == [doubled |-> { {"create"}, {"create", "user"} },
           mixed   |-> { {"update"}, {"update", "user"} },
           revived |-> { {"delete", "update"}, {"delete", "user"} }]

Idle == [step |-> "idle"]

\* A save() of account id with these columns (none where none was loaded).
Saving(kind, id, columns) ==
    [step |-> "saving", kind |-> kind, id |-> id, columns |-> columns,
     todo |-> IF kind = "create" THEN {} ELSE {"row", "link"},
     inserts |-> kind = "create", relinks |-> kind = "create"]

Removing(id) == [step |-> "removing", kind |-> "delete", id |-> id]

\* A request saves some of the columns of an account.
AccountsTypeOK ==
    /\ DOMAIN rows \subseteq 1..inserted
    /\ \A a \in DOMAIN rows : rows[a] \in Details
    /\ link \in Accounts \cup {None}
    /\ inserted \in 0..MaxAccounts
    /\ \A r \in Slots :
        \/ requests[r] = Idle
        \/ requests[r].step = "removing" /\ requests[r].id \in Accounts
        \/ /\ requests[r].step = "saving"
           /\ requests[r].id \in Accounts \cup {None}
           /\ \A c \in DOMAIN requests[r].columns :
                c \in Columns /\ requests[r].columns[c] \in ColumnValues[c]

\* A registration inserts the user with his games row, and no account.
AInit ==
    /\ rows = <<>>
    /\ link = None
    /\ inserted = 0
    /\ requests = [r \in Slots |-> Idle]
    /\ met = {}

-----------------------------------------------------------------------------
(* The handlers up to their save() or remove().                            *)

\* Request r has loaded its rows and passed its checks.
Loaded(r, request) ==
    /\ requests[r] = Idle
    /\ requests' = [requests EXCEPT ![r] = request]
    /\ met' = met \cup {h \in DOMAIN Hazard : \E s \in Slots :
                            requests[s] # Idle /\ {request.kind, requests[s].kind} \in Hazard[h]}
    /\ UNCHANGED <<rows, link, inserted>>

\* Mutant (NoOrphans): LeagueUserAlreadyCreatedException is not thrown.
MayCreateAlways == TRUE

MayCreate == link = None

\* POST /league/users
LoadToCreate(r) ==
    /\ MayCreate
    /\ \E d \in Details :
        Account!Acceptable(d) /\ Loaded(r, Saving("create", None, d))

\* Mutant (KnownToRiot): Riot is asked for the region the account had.
AcceptsUpdateInOldRegion(d, e) ==
    e.summoner = d.summoner /\ e.main # e.secondary

\* Mutant (PositionsDiffer): the two fields of the request are compared, not
\* the entity they are merged into.
AcceptsUpdateOfOnePosition(d, e) ==
    /\ e.summoner = d.summoner
    /\ <<e.region, e.summoner>> \in Riot
    /\ e.main # d.main /\ e.secondary # d.secondary => e.main # e.secondary

\* The optional fields of UpdateLeagueUserDto, merged into the loaded entity.
\* The body holds no summoner id: Riot is asked by the id the account has, and
\* the id that setSummonerId() stores is the one in its answer, the same.
AcceptsUpdate(d, e) == e.summoner = d.summoner /\ Account!Acceptable(e)

\* PATCH /league/users/me
LoadToUpdate(r) ==
    /\ link # None
    /\ \E e \in Details :
        AcceptsUpdate(rows[link], e) /\ Loaded(r, Saving("update", link, e))

\* DELETE /league/users/me
LoadToDelete(r) ==
    /\ link # None
    /\ Loaded(r, Removing(link))

\* Mutant (ImplementsAccount): the games are loaded without the account in
\* them, and "no account" is saved.
LoadUserWithoutAccount(r) == Loaded(r, Saving("user", None, <<>>))

\* PATCH /users/me and /users/forgot-password, as far as the account goes.
LoadUser(r) ==
    Loaded(r, Saving("user", link, IF link = None THEN <<>> ELSE rows[link]))

-----------------------------------------------------------------------------
(* save() and remove().                                                    *)

IsSaving(r) == requests[r].step = "saving"

\* Mutant (AccountsTypeOK): an account that is not there is saved without columns.
ToWriteNothingNew(id, loaded) ==
    IF id \notin DOMAIN rows THEN <<>>
    ELSE Restrict(loaded, {c \in Columns : loaded[c] # rows[id][c]})

\* All columns of a new row, else those that differ.
ToWrite(id, loaded) ==
    IF id \notin DOMAIN rows THEN loaded
    ELSE Restrict(loaded, {c \in Columns : loaded[c] # rows[id][c]})

\* SELECT of the league_user row: it is inserted if it is not there (cascade
\* insert, with the id it had).
CompareRow(r) ==
    /\ IsSaving(r)
    /\ "row" \in requests[r].todo
    /\ LET id == requests[r].id IN
        requests' = [requests EXCEPT
            ![r].todo = @ \ {"row"},
            ![r].inserts = id # None /\ id \notin DOMAIN rows,
            ![r].columns = ToWrite(id, @)]
    /\ UNCHANGED <<rows, link, inserted, met>>

\* SELECT of the reference: written if it differs, or, for an account that is
\* saved by itself, if its row was not found.
CompareLink(r) ==
    /\ IsSaving(r)
    /\ "link" \in requests[r].todo
    /\ requests[r].kind = "update" => "row" \notin requests[r].todo
    /\ requests' = [requests EXCEPT
            ![r].todo = @ \ {"link"},
            ![r].relinks = \/ link # requests[r].id
                           \/ requests[r].kind = "update" /\ requests[r].inserts]
    /\ UNCHANGED <<rows, link, inserted, met>>

\* Mutant (DeletionIsFinal): the account takes an id of the user's, not one
\* of its own.
GeneratedIdOfUser == 1

\* uuid_generate_v4()
GeneratedId == inserted + 1

IdOf(r) == IF requests[r].kind = "create" THEN GeneratedId ELSE requests[r].id

\* user_games.league_of_legends is a foreign key.
SatisfiesForeignKey(newLink, newRows) == newLink # None => newLink \in DOMAIN newRows

\* A row after these columns of it have been written.
Written(columns, row) ==
    [c \in DOMAIN columns \cup DOMAIN row |->
        IF c \in DOMAIN columns THEN columns[c] ELSE row[c]]

\* INSERT and UPDATE, in one transaction.  An UPDATE of a row that is gone
\* changes nothing; an INSERT of one that is there violates the primary key.
Commit(r) ==
    LET request == requests[r]
        id == IdOf(r) IN
    /\ IsSaving(r)
    /\ request.todo = {}
    /\ request.inserts => id \in Accounts \ DOMAIN rows
    /\ rows' = [a \in DOMAIN rows \cup (IF request.inserts THEN {id} ELSE {}) |->
                    IF a # id THEN rows[a] ELSE
                    IF request.inserts THEN request.columns
                    ELSE Written(request.columns, rows[a])]
    /\ link' = IF request.relinks THEN id ELSE link
    /\ SatisfiesForeignKey(link', rows')
    /\ inserted' = IF request.kind = "create" THEN inserted + 1 ELSE inserted
    /\ requests' = [requests EXCEPT ![r] = Idle]
    /\ UNCHANGED met

\* DELETE of the row; ON DELETE SET NULL.
Remove(r) ==
    /\ requests[r].step = "removing"
    /\ rows' = Restrict(rows, DOMAIN rows \ {requests[r].id})
    /\ link' = IF link = requests[r].id THEN None ELSE link
    /\ requests' = [requests EXCEPT ![r] = Idle]
    /\ UNCHANGED <<inserted, met>>

\* Riot or the database is out of reach, the save is refused, or the process
\* died: what was not committed is lost.
Fail(r) ==
    /\ requests[r] # Idle
    /\ requests' = [requests EXCEPT ![r] = Idle]
    /\ UNCHANGED <<rows, link, inserted, met>>

ANext ==
    \E r \in Slots :
        \/ LoadToCreate(r) \/ LoadToUpdate(r) \/ LoadToDelete(r) \/ LoadUser(r)
        \/ CompareRow(r) \/ CompareLink(r) \/ Commit(r) \/ Remove(r) \/ Fail(r)

ASpec == AInit /\ [][ANext]_vars

-----------------------------------------------------------------------------
(* Whatever overlaps. *)

\* Riot knows every stored account in the region that is stored with it,
\* although updates write single columns: no two requests may leave a region
\* and a summoner together that nobody asked Riot about.
KnownToRiot ==
    \A a \in DOMAIN rows : <<rows[a].region, rows[a].summoner>> \in Riot

(* As long as certain requests have not overlapped. *)

\* Two updates, each of which changes one position, may together leave both
\* equal, and so may an update and a save of the user with the old positions.
\* Nothing else can: creations and deletions never mix the columns of a row.
PositionsDiffer ==
    "mixed" \notin met =>
        \A a \in DOMAIN rows : rows[a].main # rows[a].secondary

\* A user has no account besides the one his games refer to, unless a creation
\* overlapped with another one or with a save of the user, or an account came
\* back after its deletion.
NoOrphans ==
    met \cap {"doubled", "revived"} = {} =>
        DOMAIN rows \subseteq {link}

\* A deleted account stays deleted, unless an update of it or a save of its
\* user was in flight when it was deleted.
DeletionIsFinal ==
    []["revived" \notin met =>
        \A a \in 1..inserted : a \in DOMAIN rows' => a \in DOMAIN rows]_vars

\* Until such an overlap the account is created, updated and deleted as
\* LeagueAccount says, and it goes only with a request to delete it: a save of
\* the user, with everything that hangs on it, changes nothing of his account.
ImplementsAccount ==
    Account!Init /\ [][met' = {} =>
        [ \/ Account!Create
          \/ Account!Update
          \/ Account!Delete /\ \E r \in Slots : Remove(r) ]_<<link, rows>>]_vars
=============================================================================
