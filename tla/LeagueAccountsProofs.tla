------------------------- MODULE LeagueAccountsProofs -------------------------
(***************************************************************************)
(* Proofs about LeagueAccounts, for any number of requests in flight and   *)
(* any regions, positions, summoners and answers of Riot.                  *)
(***************************************************************************)
EXTENDS LeagueAccounts, TLAPS

USE RiotAssumption, MaxAccountsAssumption

-----------------------------------------------------------------------------
(* Rows, and the columns of them that are saved. *)

PartialRows ==
    UNION { {f \in [S -> Regions \cup Summoners \cup Positions] :
                \A c \in S : f[c] \in ColumnValues[c]} : S \in SUBSET Columns }

Agree(f, g) == \A c \in DOMAIN f \cap DOMAIN g : f[c] = g[c]

LEMMA ColumnsAre ==
    /\ Columns = {"summoner", "region", "main", "secondary"}
    /\ ColumnValues["summoner"] = Summoners /\ ColumnValues["region"] = Regions
    /\ ColumnValues["main"] = Positions /\ ColumnValues["secondary"] = Positions
  BY DEF Columns, ColumnValues

LEMMA PartialRowsAre ==
    ASSUME NEW f
    PROVE  f \in PartialRows <=>
             /\ f = [c \in DOMAIN f |-> f[c]]
             /\ DOMAIN f \subseteq Columns
             /\ \A c \in DOMAIN f : f[c] \in ColumnValues[c]
  <1>1. \A c \in Columns : ColumnValues[c] \subseteq Regions \cup Summoners \cup Positions
    BY ColumnsAre
  <1>2. QED
    BY <1>1 DEF PartialRows

\* An account is a row with all of its columns.
LEMMA DetailsAre ==
    ASSUME NEW d
    PROVE  d \in Details <=> d \in PartialRows /\ DOMAIN d = Columns
  <1>1. ASSUME d \in Details PROVE d \in PartialRows /\ DOMAIN d = Columns
    <2>1. d \in [summoner : Summoners, region : Regions, main : Positions, secondary : Positions]
      BY <1>1 DEF Details, Account!Details
    <2>2. /\ d = [c \in DOMAIN d |-> d[c]]
          /\ DOMAIN d = {"summoner", "region", "main", "secondary"}
          /\ d["summoner"] \in Summoners /\ d["region"] \in Regions
          /\ d["main"] \in Positions /\ d["secondary"] \in Positions
      BY <2>1
    <2>3. QED
      BY <2>2, ColumnsAre, PartialRowsAre
  <1>2. ASSUME d \in PartialRows, DOMAIN d = Columns PROVE d \in Details
    <2>1. /\ d = [c \in {"summoner", "region", "main", "secondary"} |-> d[c]]
          /\ d["summoner"] \in Summoners /\ d["region"] \in Regions
          /\ d["main"] \in Positions /\ d["secondary"] \in Positions
      BY <1>2, ColumnsAre, PartialRowsAre
    <2>2. QED
      BY <2>1 DEF Details, Account!Details
  <1>3. QED
    BY <1>1, <1>2

\* Writing some columns of an account makes an account of it.
LEMMA WrittenIs ==
    ASSUME NEW f \in PartialRows, NEW d \in Details
    PROVE  /\ Written(f, d) \in Details
           /\ \A c \in Columns :
                Written(f, d)[c] = IF c \in DOMAIN f THEN f[c] ELSE d[c]
  <1>1. /\ DOMAIN Written(f, d) = Columns
        /\ Written(f, d) = [c \in DOMAIN Written(f, d) |-> Written(f, d)[c]]
        /\ \A c \in Columns : Written(f, d)[c] = IF c \in DOMAIN f THEN f[c] ELSE d[c]
    BY DetailsAre, PartialRowsAre DEF Written
  <1>2. \A c \in Columns : Written(f, d)[c] \in ColumnValues[c]
    BY <1>1, DetailsAre, PartialRowsAre
  <1>3. QED
    BY <1>1, <1>2, DetailsAre, PartialRowsAre

\* What a SELECT leaves of the columns to write.
LEMMA ToWriteIs ==
    ASSUME NEW f \in PartialRows, NEW id,
           id \in DOMAIN rows => rows[id] \in Details /\ f \in Details
    PROVE  /\ ToWrite(id, f) \in PartialRows
           /\ DOMAIN ToWrite(id, f) \subseteq DOMAIN f
           /\ \A c \in DOMAIN ToWrite(id, f) : ToWrite(id, f)[c] = f[c]
           /\ id \notin DOMAIN rows => ToWrite(id, f) = f
           /\ id \in DOMAIN rows =>
                \A c \in Columns \ DOMAIN ToWrite(id, f) : rows[id][c] = f[c]
  BY DetailsAre, PartialRowsAre DEF ToWrite, Restrict

-----------------------------------------------------------------------------
(* What the requests in flight hold. *)

SaveRequests ==
    [step : {"saving"}, kind : {"create", "update", "user"}, id : Accounts \cup {None},
     columns : PartialRows, todo : SUBSET {"row", "link"},
     inserts : BOOLEAN, relinks : BOOLEAN]

RemoveRequests == [step : {"removing"}, kind : {"delete"}, id : Accounts]

RequestStates == {Idle} \cup SaveRequests \cup RemoveRequests

\* A creation inserts a whole, checked account under an id of its own.  Another
\* save has loaded the row under the id it names, if any, and holds all of it
\* until it has compared; it inserts it only if it was gone by then.
SaveShape(q) ==
    IF q.kind = "create"
    THEN /\ q.id = None /\ q.inserts /\ q.relinks /\ q.todo = {}
         /\ q.columns \in Details /\ Account!Acceptable(q.columns)
    ELSE /\ q.id <= inserted
         /\ q.kind = "update" => q.id # None
         /\ q.inserts => q.id # None /\ "row" \notin q.todo
         /\ "row" \in q.todo \/ q.inserts => (q.id # None => q.columns \in Details)
         /\ q.id = None => DOMAIN q.columns = {}

\* The inductive form of AccountsTypeOK, with the foreign key.
AccountsInv ==
    /\ rows \in [DOMAIN rows -> Details]
    /\ DOMAIN rows \subseteq 1..inserted
    /\ link # None => link \in DOMAIN rows
    /\ link \in Accounts \cup {None}
    /\ inserted \in 0..MaxAccounts
    /\ met \subseteq DOMAIN Hazard
    /\ requests \in [Slots -> RequestStates]
    /\ \A r \in Slots : IsSaving(r) => SaveShape(requests[r])

LEMMA AccountsInvTyped == AccountsInv => AccountsTypeOK
  BY PartialRowsAre
     DEF AccountsInv, AccountsTypeOK, RequestStates, SaveRequests, RemoveRequests

LEMMA AccountsInvInit == AInit => AccountsInv
  BY DEF AInit, AccountsInv, RequestStates, IsSaving, Idle, Accounts, None, Details

\* The kinds of request, told apart by their step.
LEMMA RequestShapes ==
    ASSUME AccountsInv, NEW r \in Slots
    PROVE  /\ IsSaving(r) => requests[r] \in SaveRequests /\ SaveShape(requests[r])
           /\ requests[r].step = "removing" => requests[r] \in RemoveRequests
           /\ requests[r] = Idle => ~IsSaving(r)
           /\ \/ requests[r] = Idle \/ requests[r] \in SaveRequests
              \/ requests[r] \in RemoveRequests
  BY DEF AccountsInv, IsSaving, RequestStates, SaveRequests, RemoveRequests, Idle

\* A request has loaded, or ended, and no row has changed.
LEMMA RequestStep ==
    ASSUME AccountsInv, NEW r \in Slots, NEW q \in RequestStates,
           q.step = "saving" => SaveShape(q),
           requests' = [requests EXCEPT ![r] = q],
           UNCHANGED <<rows, link, inserted>>, met' \subseteq DOMAIN Hazard
    PROVE  AccountsInv'
  <1>1. requests' \in [Slots -> RequestStates]
    BY DEF AccountsInv
  <1>2. ASSUME NEW s \in Slots, requests'[s].step = "saving"
        PROVE  SaveShape(requests'[s])
    BY <1>2 DEF AccountsInv, IsSaving
  <1>3. ASSUME NEW s \in Slots, IsSaving(s)'
        PROVE  SaveShape(requests[s])'
    BY <1>2, <1>3 DEF IsSaving, SaveShape
  <1>4. QED
    BY <1>1, <1>3 DEF AccountsInv, RequestStates, SaveRequests, RemoveRequests,
                      PartialRows, Details, Account!Details

LEMMA LoadedShape ==
    ASSUME AccountsInv, NEW r \in Slots,
           LoadToCreate(r) \/ LoadToUpdate(r) \/ LoadToDelete(r) \/ LoadUser(r)
    PROVE  \E q \in RequestStates :
             /\ Loaded(r, q)
             /\ q.step \in {"saving", "removing"}
             /\ q.step = "saving" => SaveShape(q)
  <1>1. CASE LoadToCreate(r)
    <2>1. PICK d \in Details :
            Account!Acceptable(d) /\ Loaded(r, Saving("create", None, d))
      BY <1>1 DEF LoadToCreate
    <2>2. Saving("create", None, d) \in SaveRequests
      BY DetailsAre DEF Saving, SaveRequests
    <2>3. SaveShape(Saving("create", None, d))
      BY <2>1 DEF SaveShape, Saving
    <2>4. QED
      BY <2>1, <2>2, <2>3 DEF RequestStates, SaveRequests
  <1>2. CASE LoadToUpdate(r)
    <2>1. PICK e \in Details : Loaded(r, Saving("update", link, e))
      BY <1>2 DEF LoadToUpdate
    <2>2. link # None /\ link \in Accounts /\ link <= inserted
      BY <1>2 DEF LoadToUpdate, AccountsInv
    <2>3. Saving("update", link, e) \in SaveRequests
      BY <2>2, DetailsAre DEF Saving, SaveRequests
    <2>4. SaveShape(Saving("update", link, e))
      BY <2>2 DEF SaveShape, Saving
    <2>5. QED
      BY <2>1, <2>3, <2>4 DEF RequestStates, SaveRequests
  <1>3. CASE LoadToDelete(r)
    <2>1. Removing(link) \in RemoveRequests /\ Loaded(r, Removing(link))
      BY <1>3 DEF LoadToDelete, Removing, RemoveRequests, AccountsInv
    <2>2. QED
      BY <2>1 DEF RequestStates, RemoveRequests
  <1>4. CASE LoadUser(r)
    <2> DEFINE d == IF link = None THEN <<>> ELSE rows[link]
               q == Saving("user", link, d)
    <2>1. d \in PartialRows
      <3>1. <<>> \in PartialRows
        <4>1. DOMAIN <<>> = {} /\ <<>> = [c \in DOMAIN <<>> |-> <<>>[c]]
          OBVIOUS
        <4>2. QED
          BY <4>1, PartialRowsAre
      <3>2. QED
        BY <3>1, DetailsAre DEF AccountsInv
    <2>2. /\ link # None => d \in Details
          /\ link = None => DOMAIN d = {}
          /\ link \in Accounts \cup {None} /\ link <= inserted
      BY DEF AccountsInv, Accounts, None
    <2> HIDE DEF d
    <2>3. q \in SaveRequests
      BY <2>1, <2>2 DEF Saving, SaveRequests
    <2>4. SaveShape(q)
      BY <2>2 DEF SaveShape, Saving
    <2>5. Loaded(r, q)
      BY <1>4 DEF LoadUser, d
    <2>6. QED
      BY <2>3, <2>4, <2>5 DEF RequestStates, SaveRequests
  <1>5. QED
    BY <1>1, <1>2, <1>3, <1>4

\* A comparison keeps the kind and the id of the request.  Once the row has been
\* compared, the columns left are some of those loaded, and all of them if the
\* row was not there.
LEMMA ComparedShape ==
    ASSUME AccountsInv, NEW r \in Slots, CompareRow(r) \/ CompareLink(r)
    PROVE  LET q == requests'[r] IN
           /\ q \in SaveRequests /\ SaveShape(q) /\ requests[r] \in SaveRequests
           /\ requests' = [requests EXCEPT ![r] = q]
           /\ q.kind = requests[r].kind /\ q.id = requests[r].id
           /\ CompareRow(r) =>
                /\ q.inserts <=> q.id # None /\ q.id \notin DOMAIN rows
                /\ q.columns = ToWrite(q.id, requests[r].columns)
                /\ "row" \in requests[r].todo
           /\ CompareLink(r) =>
                /\ q.columns = requests[r].columns /\ q.inserts = requests[r].inserts
                /\ "row" \in q.todo <=> "row" \in requests[r].todo
           /\ UNCHANGED <<rows, link, inserted, met>>
  <1> DEFINE p == requests[r]
  <1>0. p \in SaveRequests /\ SaveShape(p) /\ IsSaving(r) /\ p.kind # "create"
    BY RequestShapes DEF CompareRow, CompareLink, SaveShape
  <1>1. requests \in [Slots -> RequestStates]
    BY DEF AccountsInv
  <1>2. PICK q : q = requests'[r]
    OBVIOUS
  <1>3. CASE CompareRow(r)
    <2> DEFINE w == ToWrite(p.id, p.columns)
    <2>1. /\ p.id # None => p.columns \in Details
          /\ p.id = None => p.id \notin DOMAIN rows
          /\ p.id \in DOMAIN rows => rows[p.id] \in Details
      BY <1>0, <1>3 DEF CompareRow, SaveShape, AccountsInv, None
    <2>2. w \in PartialRows
      BY <1>0, <2>1, ToWriteIs DEF SaveRequests
    <2>3. p.id \notin DOMAIN rows => w = p.columns
      BY <1>0, <2>1, ToWriteIs DEF SaveRequests
    <2> HIDE DEF w
    <2>4. requests' = [requests EXCEPT ![r].todo = @ \ {"row"},
                        ![r].inserts = p.id # None /\ p.id \notin DOMAIN rows,
                        ![r].columns = w]
      BY <1>1, <1>3 DEF CompareRow, w
    <2>5. /\ q \in SaveRequests
          /\ q.kind = p.kind /\ q.id = p.id /\ q.columns = w /\ q.todo = p.todo \ {"row"}
          /\ q.inserts <=> p.id # None /\ p.id \notin DOMAIN rows
          /\ requests' = [requests EXCEPT ![r] = q]
      <3>1. \A b \in BOOLEAN :
              LET n == [requests EXCEPT ![r].todo = @ \ {"row"}, ![r].inserts = b,
                                        ![r].columns = w]
              IN  /\ n[r] \in SaveRequests
                  /\ n[r].kind = p.kind /\ n[r].id = p.id /\ n[r].columns = w
                  /\ n[r].todo = p.todo \ {"row"} /\ n[r].inserts = b
                  /\ n = [requests EXCEPT ![r] = n[r]]
        BY <1>0, <1>1, <2>2 DEF SaveRequests
      <3>2. (p.id # None /\ p.id \notin DOMAIN rows) \in BOOLEAN
        OBVIOUS
      <3>3. QED
        BY <1>2, <2>4, <3>1, <3>2
    <2>6. SaveShape(q)
      BY <1>0, <2>1, <2>3, <2>5 DEF SaveShape
    <2>7. ~CompareLink(r)
      BY <1>0, <1>1, <1>3 DEF CompareRow, CompareLink, SaveRequests
    <2>8. QED
      BY <1>0, <1>2, <1>3, <2>5, <2>6, <2>7 DEF CompareRow, w
  <1>4. CASE CompareLink(r)
    <2>1. /\ q \in SaveRequests
          /\ q.kind = p.kind /\ q.id = p.id /\ q.columns = p.columns
          /\ q.inserts = p.inserts /\ q.todo = p.todo \ {"link"}
          /\ requests' = [requests EXCEPT ![r] = q]
      BY <1>0, <1>1, <1>2, <1>4 DEF CompareLink, SaveRequests
    <2>2. SaveShape(q)
      BY <1>0, <2>1 DEF SaveShape
    <2>3. ~CompareRow(r)
      BY <1>0, <1>1, <1>4 DEF CompareRow, CompareLink, SaveRequests
    <2>4. QED
      BY <1>0, <1>2, <1>4, <2>1, <2>2, <2>3 DEF CompareLink
  <1>5. QED
    BY <1>3, <1>4

\* What a commit does to the rows: a creation adds one, another save adds the
\* row it found missing or changes the row it found, and every row is whole.
LEMMA CommitShape ==
    ASSUME AccountsInv, NEW r \in Slots, Commit(r)
    PROVE  LET p == requests[r] IN
           /\ p \in SaveRequests /\ SaveShape(p) /\ IsSaving(r) /\ p.todo = {}
           /\ p.kind = "create" => IdOf(r) = inserted + 1 /\ inserted' = inserted + 1
           /\ p.kind # "create" => IdOf(r) = p.id /\ inserted' = inserted
           /\ p.inserts => /\ IdOf(r) \in Accounts /\ IdOf(r) \notin DOMAIN rows
                           /\ DOMAIN rows' = DOMAIN rows \cup {IdOf(r)}
                           /\ rows'[IdOf(r)] = p.columns
                           /\ p.columns \in Details
           /\ ~p.inserts => /\ DOMAIN rows' = DOMAIN rows
                            /\ IdOf(r) \in DOMAIN rows =>
                                 rows'[IdOf(r)] = Written(p.columns, rows[IdOf(r)])
           /\ \A a \in DOMAIN rows : a # IdOf(r) => rows'[a] = rows[a]
           /\ rows' \in [DOMAIN rows' -> Details]
           /\ requests' = [requests EXCEPT ![r] = Idle]
           /\ link' = IF p.relinks THEN IdOf(r) ELSE link
           /\ met' = met
  <1> DEFINE p == requests[r]
             id == IdOf(r)
  <1>1. p \in SaveRequests /\ SaveShape(p) /\ IsSaving(r) /\ p.todo = {}
    BY RequestShapes DEF Commit
  <1>2. /\ p.kind = "create" => id = inserted + 1 /\ inserted' = inserted + 1
        /\ p.kind # "create" => id = p.id /\ inserted' = inserted
    BY DEF Commit, IdOf, GeneratedId
  <1>3. p.inserts => p.columns \in Details
    BY <1>1 DEF SaveShape
  <1> HIDE DEF id
  <1>4. /\ p.inserts => id \in Accounts \ DOMAIN rows
        /\ rows' = [a \in DOMAIN rows \cup (IF p.inserts THEN {id} ELSE {}) |->
                      IF a # id THEN rows[a] ELSE
                      IF p.inserts THEN p.columns ELSE Written(p.columns, rows[a])]
        /\ requests' = [requests EXCEPT ![r] = Idle]
        /\ link' = IF p.relinks THEN id ELSE link
        /\ met' = met
    BY DEF Commit, id
  <1>5. rows \in [DOMAIN rows -> Details]
    BY DEF AccountsInv
  <1>6. id \in DOMAIN rows => Written(p.columns, rows[id]) \in Details
    BY <1>1, <1>5, WrittenIs DEF SaveRequests
  <1>7. CASE p.inserts
    BY <1>1, <1>2, <1>3, <1>4, <1>5, <1>7 DEF id
  <1>8. CASE ~p.inserts
    <2>1. /\ DOMAIN rows' = DOMAIN rows
          /\ id \in DOMAIN rows => rows'[id] = Written(p.columns, rows[id])
          /\ \A a \in DOMAIN rows : a # id => rows'[a] = rows[a]
          /\ rows' \in [DOMAIN rows' -> Details]
      <3>1. rows' = [a \in DOMAIN rows |->
                      IF a # id THEN rows[a] ELSE Written(p.columns, rows[a])]
        BY <1>4, <1>8
      <3>2. QED
        BY <1>5, <1>6, <3>1
    <2>2. QED
      BY <1>1, <1>2, <1>4, <1>8, <2>1 DEF id
  <1>9. QED
    BY <1>7, <1>8

LEMMA RemoveShape ==
    ASSUME AccountsInv, NEW r \in Slots, Remove(r)
    PROVE  LET id == requests[r].id IN
           /\ requests[r] \in RemoveRequests
           /\ rows' = [a \in DOMAIN rows \ {id} |-> rows[a]]
           /\ rows' \in [DOMAIN rows' -> Details]
           /\ DOMAIN rows' = DOMAIN rows \ {id}
           /\ \A a \in DOMAIN rows' : rows'[a] = rows[a]
           /\ link' = IF link = id THEN None ELSE link
           /\ requests' = [requests EXCEPT ![r] = Idle]
           /\ inserted' = inserted /\ met' = met
  <1>1. requests[r] \in RemoveRequests
    BY RequestShapes DEF Remove
  <1>2. rows \in [DOMAIN rows -> Details]
    BY DEF AccountsInv
  <1>3. QED
    BY <1>1, <1>2 DEF Remove, Restrict

\* A step of one request leaves the others as they are.
LEMMA AccountsInvStep == AccountsInv /\ [ANext]_vars => AccountsInv'
  <1> SUFFICES ASSUME AccountsInv, [ANext]_vars PROVE AccountsInv'
    OBVIOUS
  <1>0. Idle \in RequestStates /\ Idle.step # "saving"
    BY DEF RequestStates, Idle
  <1>1. ASSUME NEW r \in Slots,
               LoadToCreate(r) \/ LoadToUpdate(r) \/ LoadToDelete(r) \/ LoadUser(r)
        PROVE  AccountsInv'
    <2>1. PICK q \in RequestStates : Loaded(r, q) /\ (q.step = "saving" => SaveShape(q))
      BY <1>1, LoadedShape
    <2>2. met' \subseteq DOMAIN Hazard
      BY <2>1 DEF Loaded, AccountsInv
    <2>3. QED
      BY <2>1, <2>2, RequestStep DEF Loaded
  <1>2. ASSUME NEW r \in Slots, CompareRow(r) \/ CompareLink(r) PROVE AccountsInv'
    <2>1. PICK q : q = requests'[r]
      OBVIOUS
    <2>2. /\ q \in RequestStates /\ SaveShape(q)
          /\ requests' = [requests EXCEPT ![r] = q]
          /\ UNCHANGED <<rows, link, inserted, met>>
      BY <1>2, <2>1, ComparedShape DEF RequestStates
    <2>3. QED
      BY <2>2, RequestStep DEF AccountsInv
  <1>3. ASSUME NEW r \in Slots, Fail(r) PROVE AccountsInv'
    BY <1>0, <1>3, RequestStep DEF Fail, AccountsInv
  <1>4. ASSUME requests' \in [Slots -> RequestStates],
               \A s \in Slots : requests'[s] \in {requests[s], Idle},
               inserted <= inserted', inserted' \in Nat
        PROVE  \A s \in Slots : (IsSaving(s) => SaveShape(requests[s]))'
    <2>1. ASSUME NEW s \in Slots, IsSaving(s)'
          PROVE  /\ requests'[s] = requests[s] /\ requests[s] \in SaveRequests
                 /\ SaveShape(requests[s])
      BY <1>0, <1>4, <2>1, RequestShapes DEF IsSaving
    <2>2. ASSUME NEW s \in Slots, IsSaving(s)' PROVE SaveShape(requests[s])'
      <3>1. requests[s].id <= inserted => requests[s].id <= inserted'
        BY <1>4, <2>1, <2>2 DEF SaveRequests, Accounts, None, AccountsInv
      <3>2. QED
        BY <2>1, <2>2, <3>1 DEF SaveShape
    <2>3. QED
      BY <2>2
  <1>5. ASSUME NEW r \in Slots, Commit(r) PROVE AccountsInv'
    <2>1. /\ requests' \in [Slots -> RequestStates]
          /\ \A s \in Slots : requests'[s] \in {requests[s], Idle}
      BY <1>0, <1>5, CommitShape DEF AccountsInv
    <2>2. /\ rows' \in [DOMAIN rows' -> Details]
          /\ link' # None => link' \in DOMAIN rows'
          /\ met' \subseteq DOMAIN Hazard
      BY <1>5, CommitShape DEF Commit, SatisfiesForeignKey, AccountsInv
    <2>3. CASE requests[r].kind = "create"
      <3>1. /\ DOMAIN rows' = DOMAIN rows \cup {inserted + 1}
            /\ inserted' = inserted + 1 /\ inserted + 1 \in Accounts
        BY <1>5, <2>3, CommitShape DEF SaveShape
      <3>2. DOMAIN rows' \subseteq 1..inserted' /\ inserted' \in 0..MaxAccounts
        BY <3>1 DEF AccountsInv, Accounts
      <3>3. link' \in Accounts \cup {None}
        BY <2>2, <3>2 DEF Accounts
      <3>4. inserted <= inserted' /\ inserted' \in Nat
        BY <3>1 DEF AccountsInv
      <3>5. QED
        BY <1>4, <2>1, <2>2, <3>2, <3>3, <3>4 DEF AccountsInv
    <2>4. CASE requests[r].kind # "create"
      <3>1. /\ inserted' = inserted
            /\ DOMAIN rows' \subseteq DOMAIN rows \cup {requests[r].id}
            /\ requests[r].inserts => requests[r].id \in Accounts
            /\ ~requests[r].inserts => DOMAIN rows' = DOMAIN rows
        BY <1>5, <2>4, CommitShape
      <3>2. requests[r].inserts => requests[r].id \in 1..inserted
        <4>1. requests[r] \in SaveRequests /\ SaveShape(requests[r])
          BY <1>5, CommitShape
        <4>2. requests[r].id <= inserted /\ inserted \in Nat
          BY <2>4, <4>1 DEF SaveShape, AccountsInv
        <4>3. QED
          BY <3>1, <4>2 DEF Accounts
      <3>3. DOMAIN rows' \subseteq 1..inserted' /\ inserted' \in 0..MaxAccounts
        BY <3>1, <3>2 DEF AccountsInv
      <3>4. link' \in Accounts \cup {None}
        BY <2>2, <3>3 DEF Accounts
      <3>5. inserted <= inserted' /\ inserted' \in Nat
        BY <3>1 DEF AccountsInv
      <3>6. QED
        BY <1>4, <2>1, <2>2, <3>3, <3>4, <3>5 DEF AccountsInv
    <2>5. QED
      BY <2>3, <2>4
  <1>6. ASSUME NEW r \in Slots, Remove(r) PROVE AccountsInv'
    <2>1. /\ requests' \in [Slots -> RequestStates]
          /\ \A s \in Slots : requests'[s] \in {requests[s], Idle}
      BY <1>0, <1>6, RemoveShape DEF AccountsInv
    <2>2. inserted <= inserted' /\ inserted' \in Nat
      <3>1. inserted' = inserted
        BY <1>6 DEF Remove
      <3>2. QED
        BY <3>1 DEF AccountsInv
    <2>3. /\ link' # None => link' \in DOMAIN rows'
          /\ link' \in Accounts \cup {None}
          /\ DOMAIN rows' \subseteq 1..inserted'
          /\ rows' \in [DOMAIN rows' -> Details]
          /\ inserted' \in 0..MaxAccounts /\ met' \subseteq DOMAIN Hazard
      <3>1. /\ link # None => link \in DOMAIN rows
            /\ DOMAIN rows \subseteq 1..inserted
            /\ link \in Accounts \cup {None}
            /\ inserted \in 0..MaxAccounts /\ met \subseteq DOMAIN Hazard
        BY DEF AccountsInv
      <3>2. /\ DOMAIN rows' = DOMAIN rows \ {requests[r].id}
            /\ rows' \in [DOMAIN rows' -> Details]
            /\ link' = IF link = requests[r].id THEN None ELSE link
            /\ inserted' = inserted /\ met' = met
        BY <1>6, RemoveShape
      <3>3. QED
        BY <3>1, <3>2
    <2>4. QED
      BY <1>4, <2>1, <2>2, <2>3 DEF AccountsInv
  <1>7. CASE UNCHANGED vars
    <2>1. /\ requests' \in [Slots -> RequestStates]
          /\ \A s \in Slots : requests'[s] \in {requests[s], Idle}
          /\ inserted <= inserted' /\ inserted' \in Nat
      BY <1>7 DEF vars, AccountsInv
    <2>2. QED
      BY <1>4, <1>7, <2>1 DEF vars, AccountsInv
  <1>8. QED
    BY <1>1, <1>2, <1>3, <1>5, <1>6, <1>7 DEF ANext

\* What holds of rows, ids and columns in flight, whatever overlaps: the
\* inductive invariant that the other theorems strengthen.
THEOREM AccountsInvariant == ASpec => []AccountsInv
  BY AccountsInvInit, AccountsInvStep, PTL DEF ASpec

\* However requests overlap, what is stored of an account is a whole account,
\* although updates write single columns and a row may be gone, or come back,
\* between any two steps of a save().
THEOREM AccountsAreTyped == ASpec => []AccountsTypeOK
  BY AccountsInvariant, AccountsInvTyped, PTL

-----------------------------------------------------------------------------
(* What Riot knows. *)

\* Some columns may be stored for summoner s.
Fits(f, s) ==
    /\ "summoner" \in DOMAIN f => f.summoner = s
    /\ "region" \in DOMAIN f => <<f.region, s>> \in Riot

\* An id stands for one summoner, in its row and in every request that is going
\* to write to it, which makes any mixture of their columns known to Riot.
OfSummoner(id, s) ==
    /\ id \in DOMAIN rows => Fits(rows[id], s)
    /\ \A r \in Slots : IsSaving(r) /\ requests[r].id = id => Fits(requests[r].columns, s)

OneSummoner == \A id \in 1..inserted : \E s \in Summoners : OfSummoner(id, s)

LEMMA FitsKept ==
    ASSUME NEW s, NEW f \in PartialRows, Fits(f, s)
    PROVE  /\ \A d \in Details : Fits(d, s) => Fits(Written(f, d), s)
           /\ \A id : (id \in DOMAIN rows => rows[id] \in Details /\ f \in Details)
                        => Fits(ToWrite(id, f), s)
  <1>1. \A d \in Details : Fits(d, s) => Fits(Written(f, d), s)
    BY WrittenIs, DetailsAre, ColumnsAre DEF Fits
  <1>2. ASSUME NEW id, id \in DOMAIN rows => rows[id] \in Details /\ f \in Details
        PROVE  Fits(ToWrite(id, f), s)
    BY <1>2, ToWriteIs DEF Fits
  <1>3. QED
    BY <1>1, <1>2

\* What a request has loaded fits the row it has loaded.
LEMMA LoadedFits ==
    ASSUME AccountsInv, NEW r \in Slots, NEW id \in 1..inserted, NEW s, OfSummoner(id, s),
           LoadToCreate(r) \/ LoadToUpdate(r) \/ LoadToDelete(r) \/ LoadUser(r)
    PROVE  OfSummoner(id, s)'
  <1>1. PICK q : Loaded(r, q) /\ (q.step = "saving" /\ q.id = id => Fits(q.columns, s))
    <2>1. CASE LoadToCreate(r)
      BY <2>1 DEF LoadToCreate, Saving, None
    <2>2. CASE LoadToUpdate(r)
      <3>1. PICK e \in Details :
              AcceptsUpdate(rows[link], e) /\ Loaded(r, Saving("update", link, e))
        BY <2>2 DEF LoadToUpdate
      <3>2. link = id => Fits(e, s)
        <4>1. link \in DOMAIN rows /\ rows[link] \in Details
          BY <2>2 DEF LoadToUpdate, AccountsInv
        <4>2. "summoner" \in DOMAIN rows[link]
          BY <4>1, DetailsAre, ColumnsAre
        <4>3. QED
          BY <3>1, <4>1, <4>2 DEF AcceptsUpdate, Account!Acceptable, OfSummoner, Fits
      <3>3. QED
        BY <3>1, <3>2 DEF Saving
    <2>3. CASE LoadToDelete(r)
      BY <2>3 DEF LoadToDelete, Removing
    <2>4. CASE LoadUser(r)
      <3>1. link = id => link # None /\ Fits(rows[link], s)
        BY DEF AccountsInv, OfSummoner, None
      <3>2. QED
        BY <2>4, <3>1 DEF LoadUser, Saving
    <2>5. QED
      BY <2>1, <2>2, <2>3, <2>4
  <1>2. /\ requests' = [requests EXCEPT ![r] = q] /\ rows' = rows
        /\ requests \in [Slots -> RequestStates]
    BY <1>1 DEF Loaded, AccountsInv
  <1>3. ASSUME NEW t \in Slots, requests'[t].step = "saving", requests'[t].id = id
        PROVE  Fits(requests'[t].columns, s)
    BY <1>1, <1>2, <1>3 DEF OfSummoner, IsSaving
  <1>4. QED
    BY <1>2, <1>3 DEF OfSummoner, IsSaving, Fits

LEMMA OneSummonerStep ==
    AccountsInv /\ OneSummoner /\ [ANext]_vars => OneSummoner'
  <1> SUFFICES ASSUME AccountsInv, OneSummoner, [ANext]_vars PROVE OneSummoner'
    OBVIOUS
  <1> USE DEF IsSaving
  <1>0. requests \in [Slots -> RequestStates] /\ rows \in [DOMAIN rows -> Details]
    BY DEF AccountsInv
  <1>1. ASSUME NEW r \in Slots,
               LoadToCreate(r) \/ LoadToUpdate(r) \/ LoadToDelete(r) \/ LoadUser(r)
        PROVE  OneSummoner'
    <2>1. inserted' = inserted
      BY <1>1, LoadedShape DEF Loaded
    <2>2. QED
      BY <1>1, <2>1, LoadedFits DEF OneSummoner
  <1>2. ASSUME NEW r \in Slots, CompareRow(r) \/ CompareLink(r)
        PROVE  OneSummoner'
    <2>1. PICK q : q = requests'[r]
      OBVIOUS
    <2>2. /\ requests' = [requests EXCEPT ![r] = q] /\ UNCHANGED <<rows, inserted>>
          /\ q.id = requests[r].id /\ IsSaving(r)
      BY <1>2, <2>1, ComparedShape DEF CompareRow, CompareLink
    <2>3. ASSUME NEW s, Fits(requests[r].columns, s) PROVE Fits(q.columns, s)
      <3>1. CASE CompareRow(r)
        <4>1. /\ requests[r] \in SaveRequests /\ SaveShape(requests[r])
              /\ q.columns = ToWrite(q.id, requests[r].columns)
              /\ "row" \in requests[r].todo
          BY <1>2, <2>1, <3>1, ComparedShape, RequestShapes DEF CompareRow
        <4>2. q.id \in DOMAIN rows =>
                rows[q.id] \in Details /\ requests[r].columns \in Details
          BY <1>0, <2>2, <4>1 DEF SaveShape, AccountsInv, None
        <4>3. QED
          BY <2>3, <4>1, <4>2, FitsKept DEF SaveRequests
      <3>2. CASE CompareLink(r)
        BY <1>2, <2>1, <2>3, <3>2, ComparedShape
      <3>3. QED
        BY <1>2, <3>1, <3>2
    <2>4. ASSUME NEW id \in 1..inserted, NEW s \in Summoners, OfSummoner(id, s)
          PROVE  OfSummoner(id, s)'
      <3>1. ASSUME NEW t \in Slots, requests'[t].step = "saving", requests'[t].id = id
            PROVE  Fits(requests'[t].columns, s)
        BY <1>0, <2>2, <2>3, <2>4, <3>1 DEF OfSummoner
      <3>2. QED
        BY <2>2, <2>4, <3>1 DEF OfSummoner, Fits
    <2>5. QED
      BY <2>2, <2>4 DEF OneSummoner
  <1>3. ASSUME NEW r \in Slots, requests' = [requests EXCEPT ![r] = Idle],
               NEW id, NEW s, OfSummoner(id, s),
               id \in DOMAIN rows' => Fits(rows'[id], s)
        PROVE  OfSummoner(id, s)'
    <2>1. ASSUME NEW t \in Slots, requests'[t].step = "saving", requests'[t].id = id
          PROVE  Fits(requests'[t].columns, s)
      BY <1>0, <1>3, <2>1 DEF OfSummoner, Idle
    <2>2. QED
      BY <1>3, <2>1 DEF OfSummoner, Fits
  <1>4. ASSUME NEW r \in Slots, Commit(r) PROVE OneSummoner'
    <2> DEFINE p == requests[r]
    <2>1. /\ p \in SaveRequests /\ SaveShape(p) /\ IsSaving(r)
          /\ requests' = [requests EXCEPT ![r] = Idle]
      BY <1>4, CommitShape
    \* The row of the request fits the summoner of its id.
    <2>2. ASSUME NEW id \in 1..inserted, NEW s \in Summoners, OfSummoner(id, s)
          PROVE  OfSummoner(id, s)'
      <3>1. CASE id = IdOf(r)
        <4>1. p.kind # "create" /\ p.id = id
          <5>1. inserted \in Nat /\ id # inserted + 1
            BY <2>2 DEF AccountsInv
          <5>2. /\ p.kind = "create" => IdOf(r) = inserted + 1
                /\ p.kind # "create" => IdOf(r) = p.id
            BY <1>4, CommitShape
          <5>3. QED
            BY <3>1, <5>1, <5>2
        <4>2. Fits(p.columns, s)
          BY <2>1, <2>2, <4>1 DEF OfSummoner
        <4>3. id \in DOMAIN rows => Fits(Written(p.columns, rows[id]), s)
          BY <1>0, <2>1, <2>2, <4>2, FitsKept DEF OfSummoner, SaveRequests
        <4>4. id \in DOMAIN rows' => Fits(rows'[id], s)
          BY <1>4, <3>1, <4>2, <4>3, CommitShape
        <4>5. QED
          BY <1>3, <2>1, <2>2, <4>4
      <3>2. CASE id # IdOf(r)
        <4>1. id \in DOMAIN rows' => id \in DOMAIN rows /\ rows'[id] = rows[id]
          BY <1>4, <3>2, CommitShape
        <4>2. id \in DOMAIN rows' => Fits(rows'[id], s)
          BY <2>2, <4>1 DEF OfSummoner
        <4>3. QED
          BY <1>3, <2>1, <2>2, <4>2
      <3>3. QED
        BY <3>1, <3>2
    <2>3. CASE p.kind # "create"
      <3>1. inserted' = inserted
        BY <1>4, <2>3, CommitShape
      <3>2. QED
        BY <2>2, <3>1 DEF OneSummoner
    \* A new id has the summoner it is created with, and nobody else writes to it.
    <2>4. CASE p.kind = "create"
      <3>1. /\ inserted' = inserted + 1
            /\ rows'[inserted + 1] = p.columns
            /\ p.columns \in Details /\ Account!Acceptable(p.columns)
        BY <1>4, <2>4, CommitShape DEF SaveShape
      <3>2. PICK s \in Summoners : Fits(p.columns, s)
        BY <3>1 DEF Fits, Account!Acceptable, Details, Account!Details
      <3>3. ASSUME NEW t \in Slots, IsSaving(t) PROVE requests[t].id # inserted + 1
        <4>1. requests[t] \in SaveRequests /\ SaveShape(requests[t]) /\ inserted \in Nat
          BY <3>3, RequestShapes DEF AccountsInv
        <4>2. QED
          BY <4>1 DEF SaveShape, SaveRequests, Accounts, None
      <3>4. OfSummoner(inserted, s)'
        <4>1. ASSUME NEW t \in Slots, requests'[t].step = "saving"
              PROVE  requests'[t].id # inserted'
          BY <1>0, <2>1, <3>1, <3>3, <4>1 DEF Idle
        <4>2. Fits(rows'[inserted'], s)
          BY <3>1, <3>2
        <4>3. QED
          BY <4>1, <4>2 DEF OfSummoner, Fits
      <3>5. \A id \in 1..inserted' : id \in 1..inserted \/ id = inserted'
        BY <3>1 DEF AccountsInv
      <3>6. QED
        BY <2>2, <3>4, <3>5 DEF OneSummoner
    <2>5. QED
      BY <2>3, <2>4
  <1>5. ASSUME NEW r \in Slots, Remove(r) PROVE OneSummoner'
    <2>1. /\ requests' = [requests EXCEPT ![r] = Idle]
          /\ \A a \in DOMAIN rows' : a \in DOMAIN rows /\ rows'[a] = rows[a]
          /\ inserted' = inserted
      BY <1>5, RemoveShape
    <2>2. ASSUME NEW id, NEW s, OfSummoner(id, s)
          PROVE  id \in DOMAIN rows' => Fits(rows'[id], s)
      BY <2>1, <2>2 DEF OfSummoner
    <2>3. ASSUME NEW id, NEW s, OfSummoner(id, s) PROVE OfSummoner(id, s)'
      BY <1>3, <2>1, <2>2, <2>3
    <2>4. QED
      BY <2>1, <2>3 DEF OneSummoner
  <1>6. ASSUME NEW r \in Slots, Fail(r) PROVE OneSummoner'
    <2>1. ASSUME NEW id, NEW s, OfSummoner(id, s)
          PROVE  id \in DOMAIN rows' => Fits(rows'[id], s)
      BY <1>6, <2>1 DEF OfSummoner, Fail
    <2>2. ASSUME NEW id, NEW s, OfSummoner(id, s) PROVE OfSummoner(id, s)'
      BY <1>3, <1>6, <2>1, <2>2 DEF Fail
    <2>3. QED
      BY <1>6, <2>2 DEF OneSummoner, Fail
  <1>7. CASE UNCHANGED vars
    <2>1. ASSUME NEW id, NEW s, OfSummoner(id, s) PROVE OfSummoner(id, s)'
      BY <1>7, <2>1 DEF vars, OfSummoner, Fits
    <2>2. QED
      BY <1>7, <2>1 DEF vars, OneSummoner
  <1>8. QED
    BY <1>1, <1>2, <1>4, <1>5, <1>6, <1>7 DEF ANext

\* Riot knows what is stored, however updates, deletions and saves of the user
\* overlap: no two of them leave a region and a summoner together that nobody
\* has asked Riot about.
THEOREM RiotKnowsAccounts == ASpec => []KnownToRiot
  <1>1. AInit => OneSummoner
    BY DEF AInit, OneSummoner
  <1>2. AccountsInv /\ OneSummoner => KnownToRiot
    <2> SUFFICES ASSUME AccountsInv, OneSummoner, NEW a \in DOMAIN rows
                 PROVE  <<rows[a].region, rows[a].summoner>> \in Riot
      BY DEF KnownToRiot
    <2>1. /\ a \in 1..inserted
          /\ "region" \in DOMAIN rows[a] /\ "summoner" \in DOMAIN rows[a]
      BY DetailsAre, ColumnsAre DEF AccountsInv
    <2>2. QED
      BY <2>1 DEF OneSummoner, OfSummoner, Fits
  <1>3. QED
    BY <1>1, <1>2, AccountsInvariant, OneSummonerStep, PTL DEF ASpec

-----------------------------------------------------------------------------
(* Which requests have overlapped. *)

Load(r) == LoadToCreate(r) \/ LoadToUpdate(r) \/ LoadToDelete(r) \/ LoadUser(r)

\* met has the hazards of all requests that are in flight together.
Overlaps ==
    \A r, s \in Slots : r # s /\ requests[r] # Idle /\ requests[s] # Idle =>
        \A h \in DOMAIN Hazard :
            {requests[r].kind, requests[s].kind} \in Hazard[h] => h \in met

LEMMA LoadedRequest ==
    ASSUME AccountsInv, NEW r \in Slots, Load(r)
    PROVE  \E q \in RequestStates :
             /\ Loaded(r, q) /\ requests' = [requests EXCEPT ![r] = q]
             /\ requests[r] = Idle /\ UNCHANGED <<rows, link, inserted>>
             /\ \/ q.step = "saving" /\ q.kind \in {"create", "update", "user"}
                \/ q.step = "removing" /\ q.kind = "delete"
             /\ q.kind = "create" => link = None /\ q.columns \in Details
                                     /\ Account!Acceptable(q.columns)
             /\ q.kind = "update" => link # None /\ q.columns \in Details
                                     /\ AcceptsUpdate(rows[link], q.columns)
             /\ q.kind = "user" => IF link = None THEN DOMAIN q.columns = {}
                                   ELSE q.columns = rows[link]
             /\ q.kind \in {"update", "user"} =>
                    q.id = link /\ ~q.inserts /\ ~q.relinks
  <1>1. PICK q \in RequestStates : Loaded(r, q) /\ (q.step = "saving" => SaveShape(q))
    BY LoadedShape DEF Load
  <1>2. /\ requests' = [requests EXCEPT ![r] = q] /\ requests[r] = Idle
        /\ UNCHANGED <<rows, link, inserted>>
        /\ requests'[r] = q
    BY <1>1 DEF Loaded, AccountsInv
  <1>3. CASE LoadToCreate(r)
    <2>1. PICK d \in Details :
            Account!Acceptable(d) /\ Loaded(r, Saving("create", None, d))
      BY <1>3 DEF LoadToCreate
    <2>2. q = Saving("create", None, d)
      BY <1>2, <2>1 DEF Loaded, AccountsInv
    <2>3. QED
      BY <1>1, <1>2, <1>3, <2>1, <2>2 DEF LoadToCreate, MayCreate, Saving
  <1>4. CASE LoadToUpdate(r)
    <2>1. PICK e \in Details :
            AcceptsUpdate(rows[link], e) /\ Loaded(r, Saving("update", link, e))
      BY <1>4 DEF LoadToUpdate
    <2>2. q = Saving("update", link, e)
      BY <1>2, <2>1 DEF Loaded, AccountsInv
    <2>3. QED
      BY <1>1, <1>2, <1>4, <2>1, <2>2 DEF LoadToUpdate, Saving
  <1>5. CASE LoadToDelete(r)
    <2>1. q = Removing(link)
      BY <1>2, <1>5 DEF LoadToDelete, Loaded, AccountsInv
    <2>2. QED
      BY <1>1, <1>2, <2>1 DEF Removing
  <1>6. CASE LoadUser(r)
    <2>1. q = Saving("user", link, IF link = None THEN <<>> ELSE rows[link])
      BY <1>2, <1>6 DEF LoadUser, Loaded, AccountsInv
    <2>2. /\ q.step = "saving" /\ q.kind = "user" /\ q.id = link /\ ~q.inserts /\ ~q.relinks
          /\ link # None => q.columns = rows[link]
      BY <2>1 DEF Saving
    <2>3. link = None => DOMAIN q.columns = {}
      BY <1>1, <2>2 DEF SaveShape
    <2>4. QED
      BY <1>1, <1>2, <2>2, <2>3
  <1>7. QED
    BY <1>3, <1>4, <1>5, <1>6 DEF Load

\* The steps of a request, as the invariants below need to know them.
LEMMA AccountSteps ==
    ASSUME AccountsInv, [ANext]_vars
    PROVE  \/ \E r \in Slots : Load(r)
           \/ \E r \in Slots : CompareRow(r) \/ CompareLink(r)
           \/ \E r \in Slots : Commit(r)
           \/ \E r \in Slots : Remove(r)
           \/ /\ UNCHANGED <<rows, link, inserted, met>>
              /\ \A s \in Slots : requests'[s] \in {requests[s], Idle}
  <1>1. ASSUME NEW r \in Slots, Fail(r)
        PROVE  \A s \in Slots : requests'[s] \in {requests[s], Idle}
    BY <1>1 DEF Fail, AccountsInv
  <1>2. QED
    BY <1>1 DEF ANext, vars, Load, Fail

LEMMA OverlapsStep == AccountsInv /\ Overlaps /\ [ANext]_vars => Overlaps'
  <1> SUFFICES ASSUME AccountsInv, Overlaps, [ANext]_vars PROVE Overlaps'
    OBVIOUS
  <1>0. requests \in [Slots -> RequestStates]
    BY DEF AccountsInv
  <1>1. ASSUME NEW r \in Slots, Load(r) PROVE Overlaps'
    <2>1. PICK q : Loaded(r, q) /\ requests' = [requests EXCEPT ![r] = q]
      BY <1>1, LoadedRequest
    <2>2. ASSUME NEW a \in Slots, NEW b \in Slots, a # b,
                 requests'[a] # Idle, requests'[b] # Idle, NEW h \in DOMAIN Hazard,
                 {requests'[a].kind, requests'[b].kind} \in Hazard[h]
          PROVE  h \in met'
      <3>1. CASE a = r
        <4>1. requests'[a] = q /\ requests'[b] = requests[b]
          BY <1>0, <2>1, <2>2, <3>1
        <4>2. QED
          BY <2>1, <2>2, <4>1 DEF Loaded
      <3>2. CASE b = r
        <4>1. requests'[b] = q /\ requests'[a] = requests[a]
          BY <1>0, <2>1, <2>2, <3>2
        <4>2. {q.kind, requests[a].kind} \in Hazard[h]
          <5>1. {q.kind, requests[a].kind} = {requests[a].kind, q.kind}
            OBVIOUS
          <5>2. QED
            BY <2>2, <4>1, <5>1
        <4>3. QED
          BY <2>1, <2>2, <4>1, <4>2 DEF Loaded
      <3>3. CASE a # r /\ b # r
        <4>1. requests'[a] = requests[a] /\ requests'[b] = requests[b]
          BY <1>0, <2>1, <3>3
        <4>2. QED
          BY <2>1, <2>2, <4>1 DEF Overlaps, Loaded
      <3>4. QED
        BY <3>1, <3>2, <3>3
    <2>3. QED
      BY <2>2 DEF Overlaps, Hazard
  <1>2. ASSUME met' = met,
               \A s \in Slots : requests'[s] # Idle =>
                   requests[s] # Idle /\ requests'[s].kind = requests[s].kind
        PROVE  Overlaps'
    <2>1. ASSUME NEW a \in Slots, NEW b \in Slots, a # b,
                 requests'[a] # Idle, requests'[b] # Idle, NEW h \in DOMAIN Hazard,
                 {requests'[a].kind, requests'[b].kind} \in Hazard[h]
          PROVE  h \in met'
      BY <1>2, <2>1 DEF Overlaps
    <2>2. QED
      BY <2>1 DEF Overlaps, Hazard
  <1>3. ASSUME NEW r \in Slots, CompareRow(r) \/ CompareLink(r) PROVE Overlaps'
    <2>1. PICK q : q = requests'[r]
      OBVIOUS
    <2>2. /\ requests[r] \in SaveRequests /\ q.kind = requests[r].kind
          /\ requests' = [requests EXCEPT ![r] = q] /\ met' = met
      BY <1>3, <2>1, ComparedShape
    <2>3. requests[r] # Idle
      BY <2>2 DEF SaveRequests, Idle
    <2>4. QED
      BY <1>0, <1>2, <2>2, <2>3
  <1>4. ASSUME NEW r \in Slots, Commit(r) \/ Remove(r) PROVE Overlaps'
    <2>1. requests' = [requests EXCEPT ![r] = Idle] /\ met' = met
      BY <1>4 DEF Commit, Remove
    <2>2. QED
      BY <1>0, <1>2, <2>1
  <1>5. ASSUME met' = met, \A s \in Slots : requests'[s] \in {requests[s], Idle}
        PROVE  Overlaps'
    BY <1>2, <1>5
  <1>6. QED
    BY <1>1, <1>3, <1>4, <1>5, AccountSteps

\* Two requests in flight leave their hazard in met.
LEMMA Overlapping ==
    ASSUME AccountsInv, Overlaps, NEW r \in Slots, NEW s \in Slots, r # s,
           requests[r].step # "idle", IsSaving(s)
    PROVE  /\ requests[r].kind = "create" /\ requests[s].kind \in {"create", "user"}
                => "doubled" \in met
           /\ requests[r].kind = "update" /\ requests[s].kind \in {"update", "user"}
                => "mixed" \in met
           /\ requests[r].kind = "delete" /\ requests[s].kind # "create"
                => "revived" \in met
  <1> DEFINE a == requests[r].kind
             b == requests[s].kind
  <1>1. requests[r] # Idle /\ requests[s] # Idle
    BY DEF IsSaving, Idle
  <1>2. \A h \in {"doubled", "mixed", "revived"} : {a, b} \in Hazard[h] => h \in met
    BY <1>1 DEF Overlaps, Hazard
  <1>3. /\ Hazard["doubled"] = { {"create"}, {"create", "user"} }
        /\ Hazard["mixed"] = { {"update"}, {"update", "user"} }
        /\ Hazard["revived"] = { {"delete", "update"}, {"delete", "user"} }
    BY DEF Hazard
  <1>4. b \in {"create", "update", "user"}
    BY RequestShapes DEF SaveRequests
  <1> HIDE DEF a, b
  <1>5. a = "create" /\ b \in {"create", "user"} => {a, b} \in Hazard["doubled"]
    BY <1>3
  <1>6. a = "update" /\ b \in {"update", "user"} => {a, b} \in Hazard["mixed"]
    BY <1>3
  <1>7. a = "delete" /\ b # "create" => {a, b} \in Hazard["revived"]
    BY <1>3, <1>4
  <1>8. QED
    BY <1>2, <1>5, <1>6, <1>7 DEF a, b

-----------------------------------------------------------------------------
(* Deletion is final. *)

\* As long as no deletion has overlapped with one of them, updates and saves of
\* the user find the row of their account.
RowsAreThere ==
    "revived" \notin met =>
        \A r \in Slots :
            IsSaving(r) /\ requests[r].kind # "create" /\ requests[r].id # None =>
                requests[r].id \in DOMAIN rows /\ ~requests[r].inserts

LEMMA RowsAreThereStep ==
    AccountsInv /\ Overlaps /\ RowsAreThere /\ [ANext]_vars => RowsAreThere'
  <1> SUFFICES ASSUME AccountsInv, Overlaps, RowsAreThere, [ANext]_vars,
                      "revived" \notin met',
                      NEW s \in Slots, requests'[s].step = "saving",
                      requests'[s].kind # "create", requests'[s].id # None
               PROVE  requests'[s].id \in DOMAIN rows' /\ ~requests'[s].inserts
    BY DEF RowsAreThere, IsSaving
  <1> USE DEF IsSaving
  <1>0. requests \in [Slots -> RequestStates]
    BY DEF AccountsInv
  <1>1. ASSUME NEW r \in Slots, Load(r)
        PROVE  requests'[s].id \in DOMAIN rows' /\ ~requests'[s].inserts
    <2>1. PICK q \in RequestStates :
            /\ requests' = [requests EXCEPT ![r] = q]
            /\ rows' = rows /\ met \subseteq met'
            /\ \/ q.step = "saving" /\ q.kind \in {"create", "update", "user"}
               \/ q.step = "removing"
            /\ q.kind \in {"update", "user"} => q.id = link /\ ~q.inserts
      BY <1>1, LoadedRequest DEF Loaded
    <2>2. CASE s = r
      BY <1>0, <2>1, <2>2 DEF AccountsInv
    <2>3. CASE s # r
      BY <1>0, <2>1, <2>3 DEF RowsAreThere
    <2>4. QED
      BY <2>2, <2>3
  <1>2. ASSUME NEW r \in Slots, CompareRow(r) \/ CompareLink(r)
        PROVE  requests'[s].id \in DOMAIN rows' /\ ~requests'[s].inserts
    <2>1. PICK q : q = requests'[r]
      OBVIOUS
    <2>2. /\ requests' = [requests EXCEPT ![r] = q]
          /\ rows' = rows /\ met' = met
          /\ IsSaving(r) /\ q.kind = requests[r].kind /\ q.id = requests[r].id
          /\ (q.inserts <=> q.id # None /\ q.id \notin DOMAIN rows)
               \/ q.inserts = requests[r].inserts
      BY <1>2, <2>1, ComparedShape DEF CompareRow, CompareLink
    <2>3. CASE s = r
      BY <1>0, <2>1, <2>2, <2>3 DEF RowsAreThere
    <2>4. CASE s # r
      BY <1>0, <2>2, <2>4 DEF RowsAreThere
    <2>5. QED
      BY <2>3, <2>4
  <1>3. ASSUME met' = met, requests'[s] \in {requests[s], Idle},
               requests[s].id \in DOMAIN rows => requests[s].id \in DOMAIN rows'
        PROVE  requests'[s].id \in DOMAIN rows' /\ ~requests'[s].inserts
    BY <1>3 DEF RowsAreThere, Idle
  <1>4. ASSUME NEW r \in Slots, Commit(r)
        PROVE  requests'[s].id \in DOMAIN rows' /\ ~requests'[s].inserts
    <2>1. /\ requests' = [requests EXCEPT ![r] = Idle] /\ met' = met
          /\ DOMAIN rows \subseteq DOMAIN rows'
      BY <1>4, CommitShape
    <2>2. QED
      BY <1>0, <1>3, <2>1
  \* The other request and the deletion have overlapped.
  <1>5. ASSUME NEW r \in Slots, Remove(r) PROVE FALSE
    <2>1. requests' = [requests EXCEPT ![r] = Idle] /\ met' = met
          /\ requests[r] \in RemoveRequests
      BY <1>5, RemoveShape
    <2>2. s # r /\ requests'[s] = requests[s]
      BY <1>0, <2>1 DEF Idle
    <2>3. requests[r].kind = "delete" /\ requests[r].step # "idle"
      BY <2>1 DEF RemoveRequests
    <2>4. QED
      BY <2>1, <2>2, <2>3, Overlapping
  <1>6. CASE UNCHANGED <<rows, met>> /\ requests'[s] \in {requests[s], Idle}
    BY <1>3, <1>6
  <1>7. QED
    BY <1>1, <1>2, <1>4, <1>5, <1>6, AccountSteps

\* A deleted account stays deleted, unless an update of it or a save of its user
\* overlapped with the deletion: nobody else writes to its row, and every new
\* account has an id of its own.
THEOREM DeletionsAreFinal == ASpec => DeletionIsFinal
  <1>1. AInit => Overlaps /\ RowsAreThere
    BY DEF AInit, Overlaps, RowsAreThere, IsSaving, Idle
  <1>2. AccountsInv /\ RowsAreThere /\ [ANext]_vars =>
          ["revived" \notin met =>
              \A a \in 1..inserted : a \in DOMAIN rows' => a \in DOMAIN rows]_vars
    <2> SUFFICES ASSUME AccountsInv, RowsAreThere, [ANext]_vars, "revived" \notin met,
                        NEW a \in 1..inserted, a \in DOMAIN rows'
                 PROVE  a \in DOMAIN rows
      OBVIOUS
    <2>1. ASSUME NEW r \in Slots, Commit(r) PROVE a \in DOMAIN rows
      <3>1. /\ IsSaving(r) /\ SaveShape(requests[r])
            /\ requests[r].kind = "create" => IdOf(r) = inserted + 1
            /\ requests[r].kind # "create" => IdOf(r) = requests[r].id
            /\ requests[r].inserts => DOMAIN rows' = DOMAIN rows \cup {IdOf(r)}
            /\ ~requests[r].inserts => DOMAIN rows' = DOMAIN rows
        BY <2>1, CommitShape
      <3>2. requests[r].kind # "create" => ~requests[r].inserts
        BY <3>1 DEF SaveShape, RowsAreThere
      <3>3. a # inserted + 1
        BY DEF AccountsInv
      <3>4. QED
        BY <3>1, <3>2, <3>3
    <2>2. ASSUME NEW r \in Slots, Remove(r) PROVE a \in DOMAIN rows
      BY <2>2, RemoveShape
    <2>3. ASSUME NEW r \in Slots, Load(r) \/ CompareRow(r) \/ CompareLink(r)
          PROVE  a \in DOMAIN rows
      BY <2>3, LoadedRequest DEF CompareRow, CompareLink
    <2>4. QED
      BY <2>1, <2>2, <2>3, AccountSteps
  <1>3. QED
    BY <1>1, <1>2, AccountsInvariant, OverlapsStep, RowsAreThereStep, PTL
       DEF ASpec, DeletionIsFinal

-----------------------------------------------------------------------------
(* The account that the games refer to is the only one. *)

\* Until a creation or a deletion overlaps with what it must not, all requests
\* in flight agree on the account that is there, or that there is none.
OneAccount ==
    met \cap {"doubled", "revived"} = {} =>
        /\ DOMAIN rows \subseteq {link}
        /\ \A r \in Slots : IsSaving(r) =>
            IF requests[r].kind = "create" THEN link = None
            ELSE requests[r].id = link /\ ~requests[r].inserts /\ ~requests[r].relinks

LEMMA OneAccountStep ==
    AccountsInv /\ Overlaps /\ OneAccount /\ [ANext]_vars => OneAccount'
  <1> DEFINE Of(q) == IF q.kind = "create" THEN link = None
                      ELSE q.id = link /\ ~q.inserts /\ ~q.relinks
  <1> SUFFICES ASSUME AccountsInv, Overlaps, OneAccount, [ANext]_vars,
                      met' \cap {"doubled", "revived"} = {}
               PROVE  /\ DOMAIN rows' \subseteq {link'}
                      /\ \A s \in Slots : requests'[s].step = "saving" => Of(requests[s])'
    BY DEF OneAccount, IsSaving
  <1> USE DEF IsSaving
  <1>0. requests \in [Slots -> RequestStates]
    BY DEF AccountsInv
  <1>a. met \subseteq met'
    BY AccountSteps, LoadedRequest DEF Loaded, CompareRow, CompareLink, Commit, Remove
  <1>b. /\ DOMAIN rows \subseteq {link}
        /\ \A s \in Slots : IsSaving(s) => Of(requests[s])
        /\ "doubled" \notin met /\ "revived" \notin met
    BY <1>a DEF OneAccount
  <1>1. ASSUME NEW r \in Slots, NEW q, requests' = [requests EXCEPT ![r] = q],
               q.step = "saving" => Of(q), UNCHANGED <<rows, link>>
        PROVE  /\ DOMAIN rows' \subseteq {link'}
               /\ \A s \in Slots : requests'[s].step = "saving" => Of(requests[s])'
    BY <1>0, <1>1, <1>b
  <1>2. ASSUME NEW r \in Slots, Load(r)
        PROVE  /\ DOMAIN rows' \subseteq {link'}
               /\ \A s \in Slots : requests'[s].step = "saving" => Of(requests[s])'
    <2>1. PICK q \in RequestStates :
            /\ requests' = [requests EXCEPT ![r] = q] /\ UNCHANGED <<rows, link>>
            /\ \/ q.step = "saving" /\ q.kind \in {"create", "update", "user"}
               \/ q.step = "removing"
            /\ q.kind = "create" => link = None
            /\ q.kind \in {"update", "user"} => q.id = link /\ ~q.inserts /\ ~q.relinks
      BY <1>2, LoadedRequest
    <2>2. q.step = "saving" => Of(q)
      BY <2>1
    <2>3. QED
      BY <1>1, <2>1, <2>2
  <1>3. ASSUME NEW r \in Slots, CompareRow(r) \/ CompareLink(r)
        PROVE  /\ DOMAIN rows' \subseteq {link'}
               /\ \A s \in Slots : requests'[s].step = "saving" => Of(requests[s])'
    <2>1. PICK q : q = requests'[r]
      OBVIOUS
    <2>2. /\ requests' = [requests EXCEPT ![r] = q] /\ UNCHANGED <<rows, link>>
          /\ IsSaving(r) /\ q.kind = requests[r].kind /\ q.id = requests[r].id
          /\ SaveShape(requests[r])
          /\ q.kind # "create"
          /\ CompareRow(r) => (q.inserts <=> q.id # None /\ q.id \notin DOMAIN rows)
          /\ CompareLink(r) => q.inserts = requests[r].inserts
      BY <1>3, <2>1, ComparedShape, RequestShapes DEF CompareRow, CompareLink, SaveShape
    <2>3. q.id = link
      BY <1>b, <2>2
    <2>4. ~q.inserts
      BY <1>3, <1>b, <2>2, <2>3 DEF AccountsInv
    <2>5. ~q.relinks
      <3>1. CASE CompareRow(r)
        <4>1. q.relinks = requests[r].relinks
          BY <1>0, <2>1, <2>2, <3>1, RequestShapes DEF CompareRow, SaveRequests
        <4>2. QED
          BY <1>b, <2>2, <4>1
      <3>2. CASE CompareLink(r)
        <4>1. (\/ link # requests[r].id
               \/ requests[r].kind = "update" /\ requests[r].inserts) = FALSE
          BY <1>b, <2>2
        <4>2. requests' = [requests EXCEPT ![r].todo = @ \ {"link"}, ![r].relinks = FALSE]
          BY <3>2, <4>1, Zenon DEF CompareLink
        <4>3. QED
          BY <1>0, <2>1, <2>2, <4>2, RequestShapes DEF SaveRequests
      <3>3. QED
        BY <1>3, <3>1, <3>2
    <2>6. QED
      BY <1>1, <2>2, <2>3, <2>4, <2>5
  <1>4. ASSUME NEW r \in Slots, Commit(r)
        PROVE  /\ DOMAIN rows' \subseteq {link'}
               /\ \A s \in Slots : requests'[s].step = "saving" => Of(requests[s])'
    <2>1. /\ IsSaving(r) /\ SaveShape(requests[r]) /\ requests[r] \in SaveRequests
          /\ requests[r].kind = "create" => IdOf(r) = inserted + 1
          /\ requests[r].inserts => DOMAIN rows' = DOMAIN rows \cup {IdOf(r)}
          /\ ~requests[r].inserts => DOMAIN rows' = DOMAIN rows
          /\ requests' = [requests EXCEPT ![r] = Idle]
          /\ link' = IF requests[r].relinks THEN IdOf(r) ELSE link
      BY <1>4, CommitShape
    <2>2. CASE requests[r].kind = "create"
      <3>1. /\ link = None /\ DOMAIN rows = {}
            /\ DOMAIN rows' = {link'}
        <4>1. link = None /\ requests[r].inserts /\ requests[r].relinks
          BY <1>b, <2>1, <2>2 DEF SaveShape
        <4>2. None \notin DOMAIN rows
          BY DEF AccountsInv, None
        <4>3. QED
          BY <1>b, <2>1, <2>2, <4>1, <4>2
      \* Nobody else saves anything: updates need an account.
      <3>2. ASSUME NEW s \in Slots, requests'[s].step = "saving" PROVE FALSE
        <4>1. s # r /\ IsSaving(s) /\ SaveShape(requests[s]) /\ requests[s] \in SaveRequests
          BY <1>0, <2>1, <3>2, RequestShapes DEF Idle
        <4>2. requests[s].kind \notin {"create", "user"}
          BY <1>b, <2>1, <2>2, <4>1, Overlapping
        <4>3. requests[s].kind = "update"
          BY <4>1, <4>2 DEF SaveRequests
        <4>4. QED
          BY <1>b, <3>1, <4>1, <4>3 DEF SaveShape
      <3>3. QED
        BY <3>1, <3>2
    <2>3. CASE requests[r].kind # "create"
      <3>1. link' = link /\ DOMAIN rows' = DOMAIN rows
        BY <1>b, <2>1, <2>3
      <3>2. QED
        BY <1>0, <1>b, <2>1, <3>1 DEF Idle
    <2>4. QED
      BY <2>2, <2>3
  <1>5. ASSUME NEW r \in Slots, Remove(r)
        PROVE  /\ DOMAIN rows' \subseteq {link'}
               /\ \A s \in Slots : requests'[s].step = "saving" => Of(requests[s])'
    <2>1. /\ requests[r] \in RemoveRequests
          /\ DOMAIN rows' = DOMAIN rows \ {requests[r].id}
          /\ link' = IF link = requests[r].id THEN None ELSE link
          /\ requests' = [requests EXCEPT ![r] = Idle]
      BY <1>5, RemoveShape
    <2>2. DOMAIN rows' \subseteq {link'}
      BY <1>b, <2>1
    <2>3. ASSUME NEW s \in Slots, requests'[s].step = "saving" PROVE Of(requests[s])'
      <3>1. s # r /\ IsSaving(s) /\ requests'[s] = requests[s]
        BY <1>0, <2>1, <2>3 DEF Idle
      <3>2. requests[r].kind = "delete" /\ requests[r].step # "idle"
        BY <2>1 DEF RemoveRequests
      <3>3. requests[s].kind = "create"
        BY <1>b, <3>1, <3>2, Overlapping
      <3>4. link = None
        BY <1>b, <3>1, <3>3
      <3>5. QED
        BY <2>1, <3>1, <3>3, <3>4
    <2>4. QED
      BY <2>2, <2>3
  <1>6. CASE UNCHANGED <<rows, link>> /\ \A s \in Slots : requests'[s] \in {requests[s], Idle}
    BY <1>6, <1>b DEF Idle
  <1>7. QED
    BY <1>2, <1>3, <1>4, <1>5, <1>6, AccountSteps

\* Overlaps and OneAccount, which the two theorems below rest on.
LEMMA OneAccountInvariant == ASpec => [](Overlaps /\ OneAccount)
  <1>1. AInit => Overlaps /\ OneAccount
    BY DEF AInit, Overlaps, OneAccount, IsSaving, Idle
  <1>2. QED
    BY <1>1, AccountsInvariant, OverlapsStep, OneAccountStep, PTL DEF ASpec

\* However many requests are in flight, the games refer to every account that
\* is stored, until one of the overlaps that NoOrphans names.
THEOREM AccountsAreReferredTo == ASpec => []NoOrphans
  <1>1. OneAccount => NoOrphans
    BY DEF OneAccount, NoOrphans
  <1>2. QED
    BY <1>1, OneAccountInvariant, PTL

-----------------------------------------------------------------------------
(* Two positions. *)

Apart(d) == d.main # d.secondary

\* A save of the user writes what is stored already, and an update leaves two
\* positions, if it writes to the row that is there now.
SavesApart(q) ==
    /\ q.columns \in Details => Apart(q.columns)
    /\ q.id \in DOMAIN rows =>
        /\ q.kind = "user" => Agree(q.columns, rows[q.id])
        /\ q.kind = "update" => Apart(Written(q.columns, rows[q.id]))

\* Saves of the user never contradict each other.
SavesAgree(p, q) ==
    p.kind = "user" /\ q.kind = "user" /\ p.id = q.id => Agree(p.columns, q.columns)

TwoPositions ==
    "mixed" \notin met =>
        /\ \A a \in DOMAIN rows : Apart(rows[a])
        /\ \A r \in Slots : IsSaving(r) => SavesApart(requests[r])
        /\ \A r, s \in Slots :
            IsSaving(r) /\ IsSaving(s) => SavesAgree(requests[r], requests[s])

\* A save that is going to write all it has loaded, or has just compared it.
LEMMA ComparedApart ==
    ASSUME NEW f \in Details, NEW d \in Details, NEW w \in PartialRows,
           Apart(f), DOMAIN w \subseteq DOMAIN f,
           \A c \in DOMAIN w : w[c] = f[c],
           \A c \in Columns \ DOMAIN w : d[c] = f[c]
    PROVE  /\ w \in Details => Apart(w)
           /\ Apart(Written(w, d))
  <1>1. \A c \in Columns : Written(w, d)[c] = f[c]
    BY WrittenIs
  <1>2. "main" \in Columns /\ "secondary" \in Columns
    BY ColumnsAre
  <1>3. QED
    BY <1>1, <1>2, DetailsAre DEF Apart

\* Requests come, compare and go, and the rows stay.
LEMMA TwoPositionsKept ==
    ASSUME AccountsInv, TwoPositions, met \subseteq met', rows' = rows, NEW r \in Slots, NEW q,
           requests' = [requests EXCEPT ![r] = q],
           q.step = "saving" /\ "mixed" \notin met' =>
               /\ SavesApart(q)
               /\ \A s \in Slots \ {r} : IsSaving(s) => SavesAgree(q, requests[s])
    PROVE  TwoPositions'
  <1> SUFFICES ASSUME "mixed" \notin met' PROVE TwoPositions'
    BY DEF TwoPositions
  <1>0. requests \in [Slots -> RequestStates]
    BY DEF AccountsInv
  <1>1. \A s \in Slots : requests'[s].step = "saving" => SavesApart(requests'[s])
    BY <1>0 DEF TwoPositions, IsSaving
  <1>2. ASSUME NEW s \in Slots, NEW t \in Slots,
               requests'[s].step = "saving", requests'[t].step = "saving"
        PROVE  SavesAgree(requests'[s], requests'[t])
    <2>1. CASE s # r /\ t # r
      BY <1>0, <1>2, <2>1 DEF TwoPositions, IsSaving
    <2>2. CASE s = r /\ t # r
      BY <1>0, <1>2, <2>2 DEF IsSaving
    <2>3. CASE s # r /\ t = r
      <3>1. SavesAgree(requests'[t], requests'[s])
        BY <1>0, <1>2, <2>3 DEF IsSaving
      <3>2. QED
        BY <3>1 DEF SavesAgree, Agree
    <2>4. CASE s = t
      BY <2>4 DEF SavesAgree, Agree
    <2>5. QED
      BY <2>1, <2>2, <2>3, <2>4
  <1>3. \A s \in Slots : (IsSaving(s) => SavesApart(requests[s]))'
    BY <1>1 DEF IsSaving, SavesApart, Agree, Apart, Written, Details, Account!Details
  <1>4. \A s, t \in Slots :
          (IsSaving(s) /\ IsSaving(t) => SavesAgree(requests[s], requests[t]))'
    BY <1>2 DEF IsSaving, SavesAgree, Agree
  <1>5. \A a \in DOMAIN rows' : Apart(rows[a])'
    BY DEF TwoPositions, Apart
  <1>6. QED
    BY <1>3, <1>4, <1>5 DEF TwoPositions

LEMMA TwoPositionsLoaded ==
    ASSUME AccountsInv, TwoPositions, NEW r \in Slots, Load(r)
    PROVE  TwoPositions'
  <1>1. PICK q \in RequestStates :
          /\ Loaded(r, q) /\ requests' = [requests EXCEPT ![r] = q]
          /\ UNCHANGED <<rows, link, inserted>>
          /\ \/ q.step = "saving" /\ q.kind \in {"create", "update", "user"}
             \/ q.step = "removing" /\ q.kind = "delete"
          /\ q.kind = "create" => q.columns \in Details /\ Account!Acceptable(q.columns)
          /\ q.kind = "update" => link # None /\ q.columns \in Details
                                  /\ AcceptsUpdate(rows[link], q.columns)
          /\ q.kind = "user" => IF link = None THEN DOMAIN q.columns = {}
                                ELSE q.columns = rows[link]
          /\ q.kind \in {"update", "user"} => q.id = link
    BY LoadedRequest
  <1>2. met \subseteq met'
    BY <1>1 DEF Loaded
  <1>3. rows \in [DOMAIN rows -> Details] /\ (link # None => link \in DOMAIN rows)
        /\ None \notin DOMAIN rows
    BY DEF AccountsInv, None
  <1>4. ASSUME q.step = "saving", "mixed" \notin met' PROVE SavesApart(q)
    <2>0. \A a \in DOMAIN rows : Apart(rows[a])
      BY <1>2, <1>4 DEF TwoPositions
    <2>1. CASE q.kind = "create"
      BY <1>1, <2>1 DEF SavesApart, Apart, Account!Acceptable
    <2>2. CASE q.kind = "update"
      <3>1. Apart(q.columns) /\ q.columns \in Details
        BY <1>1, <2>2 DEF AcceptsUpdate, Account!Acceptable, Apart
      <3>2. q.columns \in PartialRows /\ DOMAIN q.columns = Columns
        BY <3>1, DetailsAre
      <3>3. \A a \in DOMAIN rows : Apart(Written(q.columns, rows[a]))
        BY <1>3, <3>1, <3>2, ComparedApart
      <3>4. QED
        BY <2>2, <3>1, <3>3 DEF SavesApart
    <2>3. CASE q.kind = "user"
      <3>1. CASE link = None
        <4>1. q.columns \notin Details
          BY <1>1, <2>3, <3>1, DetailsAre, ColumnsAre
        <4>2. QED
          BY <1>1, <1>3, <2>3, <3>1, <4>1 DEF SavesApart
      <3>2. CASE link # None
        BY <1>1, <1>3, <2>0, <2>3, <3>2 DEF SavesApart, Agree
      <3>3. QED
        BY <3>1, <3>2
    <2>4. QED
      BY <1>1, <1>4, <2>1, <2>2, <2>3
  <1>5. ASSUME q.step = "saving", "mixed" \notin met', NEW s \in Slots \ {r}, IsSaving(s)
        PROVE  SavesAgree(q, requests[s])
    <2> SUFFICES ASSUME q.kind = "user", requests[s].kind = "user", requests[s].id = link
                 PROVE  Agree(q.columns, requests[s].columns)
      BY <1>1 DEF SavesAgree
    <2>1. CASE link = None
      BY <1>1, <2>1 DEF Agree
    <2>2. CASE link # None
      <3>1. Agree(requests[s].columns, rows[link])
        BY <1>2, <1>3, <1>5, <2>2 DEF TwoPositions, SavesApart
      <3>2. QED
        BY <1>1, <2>2, <3>1 DEF Agree
    <2>3. QED
      BY <2>1, <2>2
  <1>6. QED
    BY <1>1, <1>2, <1>4, <1>5, TwoPositionsKept

LEMMA TwoPositionsCompared ==
    ASSUME AccountsInv, TwoPositions, NEW r \in Slots, CompareRow(r) \/ CompareLink(r)
    PROVE  TwoPositions'
  <1>1. PICK q : q = requests'[r]
    OBVIOUS
  <1> DEFINE p == requests[r]
  <1>2. /\ requests' = [requests EXCEPT ![r] = q]
        /\ UNCHANGED <<rows, met>> /\ IsSaving(r)
        /\ p \in SaveRequests /\ SaveShape(p)
        /\ q.kind = p.kind /\ q.id = p.id
        /\ CompareRow(r) => q.columns = ToWrite(p.id, p.columns) /\ "row" \in p.todo
        /\ CompareLink(r) => q.columns = p.columns
    BY <1>1, ComparedShape, RequestShapes DEF CompareRow, CompareLink
  <1>3. rows \in [DOMAIN rows -> Details] /\ None \notin DOMAIN rows
    BY DEF AccountsInv, None
  <1>4. /\ q.columns \in PartialRows
        /\ DOMAIN q.columns \subseteq DOMAIN p.columns
        /\ \A c \in DOMAIN q.columns : q.columns[c] = p.columns[c]
        /\ q.columns # p.columns => p.id \in DOMAIN rows /\ p.columns \in Details
        /\ p.id \in DOMAIN rows /\ p.columns \in Details =>
             q.columns = p.columns
               \/ \A c \in Columns \ DOMAIN q.columns : rows[p.id][c] = p.columns[c]
    <2>1. CASE CompareRow(r)
      <3>1. p.id \in DOMAIN rows => rows[p.id] \in Details /\ p.columns \in Details
        BY <1>2, <1>3, <2>1 DEF SaveShape
      <3>2. QED
        BY <1>2, <2>1, <3>1, ToWriteIs DEF SaveRequests
    <2>2. CASE CompareLink(r)
      BY <1>2, <2>2 DEF SaveRequests
    <2>3. QED
      BY <2>1, <2>2
  <1>5. ASSUME "mixed" \notin met PROVE SavesApart(q)
    <2>1. SavesApart(p)
      BY <1>2, <1>5 DEF TwoPositions
    <2>2. CASE q.columns = p.columns
      BY <1>2, <2>1, <2>2 DEF SavesApart
    <2>3. CASE q.columns # p.columns
      <3>1. /\ p.id \in DOMAIN rows /\ p.columns \in Details /\ rows[p.id] \in Details
            /\ Apart(p.columns)
            /\ \A c \in Columns \ DOMAIN q.columns : rows[p.id][c] = p.columns[c]
        BY <1>3, <1>4, <2>1, <2>3 DEF SavesApart
      <3>2. /\ q.columns \in Details => Apart(q.columns)
            /\ Apart(Written(q.columns, rows[p.id]))
        BY <1>4, <3>1, ComparedApart
      <3>3. q.kind = "user" => Agree(q.columns, rows[p.id])
        BY <1>2, <1>4, <2>1, <3>1 DEF SavesApart, Agree
      <3>4. QED
        BY <1>2, <3>2, <3>3 DEF SavesApart
    <2>4. QED
      BY <2>2, <2>3
  <1>6. ASSUME "mixed" \notin met, NEW s \in Slots, IsSaving(s)
        PROVE  SavesAgree(q, requests[s])
    <2>1. SavesAgree(p, requests[s])
      BY <1>2, <1>6 DEF TwoPositions
    <2>2. QED
      BY <1>2, <1>4, <2>1 DEF SavesAgree, Agree
  <1>7. QED
    BY <1>2, <1>5, <1>6, TwoPositionsKept

\* A request has ended and every row it touched is as its others expect.
LEMMA TwoPositionsEnded ==
    ASSUME AccountsInv, TwoPositions, met' = met,
           \A s \in Slots : requests'[s] \in {requests[s], Idle},
           "mixed" \notin met =>
               /\ \A a \in DOMAIN rows' : Apart(rows'[a])
               /\ \A s \in Slots : IsSaving(s) /\ requests'[s] # Idle =>
                    LET q == requests[s] IN
                    q.id \in DOMAIN rows' =>
                        /\ q.kind = "user" => Agree(q.columns, rows'[q.id])
                        /\ q.kind = "update" => Apart(Written(q.columns, rows'[q.id]))
    PROVE  TwoPositions'
  <1> SUFFICES ASSUME "mixed" \notin met PROVE TwoPositions'
    BY DEF TwoPositions
  <1>1. ASSUME NEW s \in Slots, requests'[s].step = "saving"
        PROVE  requests'[s] = requests[s] /\ IsSaving(s) /\ requests'[s] # Idle
    BY <1>1 DEF Idle, IsSaving
  <1>2. ASSUME NEW s \in Slots, IsSaving(s)' PROVE SavesApart(requests[s])'
    <2>1. /\ SavesApart(requests[s])
          /\ requests'[s] = requests[s] /\ IsSaving(s) /\ requests'[s] # Idle
      BY <1>1, <1>2 DEF IsSaving, TwoPositions
    <2>2. QED
      BY <2>1 DEF SavesApart, Agree, Apart, Written, Details, Account!Details
  <1>3. \A s, t \in Slots :
          (IsSaving(s) /\ IsSaving(t) => SavesAgree(requests[s], requests[t]))'
    BY <1>1 DEF IsSaving, TwoPositions, SavesAgree, Agree
  <1>4. \A a \in DOMAIN rows' : Apart(rows[a])'
    BY DEF Apart
  <1>5. QED
    BY <1>2, <1>3, <1>4 DEF TwoPositions

LEMMA TwoPositionsCommitted ==
    ASSUME AccountsInv, Overlaps, TwoPositions, NEW r \in Slots, Commit(r)
    PROVE  TwoPositions'
  <1> DEFINE p == requests[r]
  <1>1. PICK id : id = IdOf(r)
    OBVIOUS
  <1>2. /\ p \in SaveRequests /\ SaveShape(p) /\ IsSaving(r)
        /\ p.kind = "create" => id = inserted + 1
        /\ p.kind # "create" => id = p.id
        /\ p.inserts => /\ DOMAIN rows' = DOMAIN rows \cup {id}
                        /\ rows'[id] = p.columns /\ p.columns \in Details
        /\ ~p.inserts => /\ DOMAIN rows' = DOMAIN rows
                         /\ id \in DOMAIN rows => rows'[id] = Written(p.columns, rows[id])
        /\ \A a \in DOMAIN rows : a # id => rows'[a] = rows[a]
        /\ requests' = [requests EXCEPT ![r] = Idle]
        /\ met' = met
    BY <1>1, CommitShape
  <1>3. requests \in [Slots -> RequestStates] /\ rows \in [DOMAIN rows -> Details]
    BY DEF AccountsInv
  <1> SUFFICES ASSUME "mixed" \notin met PROVE TwoPositions'
    BY <1>2 DEF TwoPositions
  <1>4. /\ \A a \in DOMAIN rows : Apart(rows[a])
        /\ SavesApart(p)
        /\ \A s \in Slots : IsSaving(s) => SavesApart(requests[s])
        /\ \A s \in Slots : IsSaving(s) => SavesAgree(p, requests[s])
    BY <1>2 DEF TwoPositions
  <1>5. p.kind = "create" => p.inserts
    BY <1>2 DEF SaveShape
  <1>6. ASSUME NEW a \in DOMAIN rows' PROVE Apart(rows'[a])
    <2>1. CASE a # id
      BY <1>2, <1>4, <1>6, <2>1
    <2>2. CASE a = id /\ p.inserts
      BY <1>2, <1>4, <2>2 DEF SavesApart
    <2>3. CASE a = id /\ ~p.inserts
      <3>1. id \in DOMAIN rows /\ id = p.id /\ rows'[id] = Written(p.columns, rows[id])
        BY <1>2, <1>5, <1>6, <2>3
      <3>2. CASE p.kind = "update"
        BY <1>4, <2>3, <3>1, <3>2 DEF SavesApart
      <3>3. CASE p.kind = "user"
        <4>1. Agree(p.columns, rows[id]) /\ rows[id] \in Details
          BY <1>3, <1>4, <3>1, <3>3 DEF SavesApart
        <4>2. \A c \in Columns : Written(p.columns, rows[id])[c] = rows[id][c]
          BY <1>2, <4>1, WrittenIs, DetailsAre DEF SaveRequests, Agree
        <4>3. QED
          BY <1>4, <2>3, <3>1, <4>2, ColumnsAre DEF Apart
      <3>4. QED
        BY <1>2, <1>5, <2>3, <3>2, <3>3 DEF SaveRequests
    <2>4. QED
      BY <2>1, <2>2, <2>3
  <1>7. ASSUME NEW s \in Slots, IsSaving(s), requests'[s] # Idle,
               requests[s].id \in DOMAIN rows'
        PROVE  LET q == requests[s] IN
               /\ q.kind = "user" => Agree(q.columns, rows'[q.id])
               /\ q.kind = "update" => Apart(Written(q.columns, rows'[q.id]))
    <2>1. s # r /\ requests[s] \in SaveRequests /\ SaveShape(requests[s])
      BY <1>2, <1>3, <1>7, RequestShapes
    <2>2. CASE requests[s].id # id
      BY <1>2, <1>4, <1>7, <2>2 DEF SavesApart
    \* It writes to the row that has been written: both are saves of the user.
    <2>3. CASE requests[s].id = id /\ requests[s].kind # "create"
      <3>1. p.kind # "create" /\ id = p.id
        <4>1. requests[s].id <= inserted /\ inserted \in Nat
          BY <2>1, <2>3 DEF SaveShape, AccountsInv
        <4>2. id # inserted + 1
          BY <2>3, <4>1
        <4>3. QED
          BY <1>2, <4>2
      <3>2. p.kind = "user" /\ requests[s].kind = "user"
        <4>1. p.step # "idle" /\ requests[s].step # "idle"
          BY <1>2, <1>7 DEF IsSaving
        <4>2. p.kind # "update"
          BY <1>2, <1>7, <2>1, <2>3, <4>1, Overlapping DEF SaveRequests
        <4>3. p.kind = "user"
          BY <1>2, <3>1, <4>2 DEF SaveRequests
        <4>4. requests[s].kind # "update"
          BY <1>2, <1>7, <2>1, <4>1, <4>3, Overlapping
        <4>5. QED
          BY <2>1, <2>3, <4>3, <4>4 DEF SaveRequests
      <3>3. Agree(p.columns, requests[s].columns)
        BY <1>4, <1>7, <2>3, <3>1, <3>2 DEF SavesAgree
      <3>4. CASE p.inserts
        BY <1>2, <2>3, <3>2, <3>3, <3>4 DEF Agree
      <3>5. CASE ~p.inserts
        <4>1. id \in DOMAIN rows /\ rows[id] \in Details
          BY <1>2, <1>3, <1>7, <2>3, <3>5
        <4>2. Agree(requests[s].columns, rows[id])
          BY <1>4, <1>7, <2>3, <3>2, <4>1 DEF SavesApart
        <4>3. /\ DOMAIN rows'[id] = Columns /\ DOMAIN rows[id] = Columns
              /\ \A c \in Columns :
                   rows'[id][c] = IF c \in DOMAIN p.columns THEN p.columns[c] ELSE rows[id][c]
          BY <1>2, <3>5, <4>1, WrittenIs, DetailsAre DEF SaveRequests
        <4>4. Agree(requests[s].columns, rows'[id])
          BY <3>3, <4>2, <4>3 DEF Agree
        <4>5. QED
          BY <2>3, <3>2, <4>4
      <3>6. QED
        BY <3>4, <3>5
    <2>4. QED
      BY <2>2, <2>3
  <1>8. QED
    BY <1>2, <1>3, <1>6, <1>7, TwoPositionsEnded

LEMMA TwoPositionsStep ==
    AccountsInv /\ Overlaps /\ TwoPositions /\ [ANext]_vars => TwoPositions'
  <1> SUFFICES ASSUME AccountsInv, Overlaps, TwoPositions, [ANext]_vars PROVE TwoPositions'
    OBVIOUS
  <1>1. ASSUME NEW r \in Slots, Remove(r) PROVE TwoPositions'
    <2>1. /\ \A a \in DOMAIN rows' : a \in DOMAIN rows /\ rows'[a] = rows[a]
          /\ met' = met
          /\ \A s \in Slots : requests'[s] \in {requests[s], Idle}
      BY <1>1, RemoveShape DEF AccountsInv
    <2>2. QED
      BY <2>1, TwoPositionsEnded DEF TwoPositions, SavesApart
  <1>2. CASE /\ UNCHANGED <<rows, link, inserted, met>>
             /\ \A s \in Slots : requests'[s] \in {requests[s], Idle}
    BY <1>2, TwoPositionsEnded DEF TwoPositions, SavesApart
  <1>3. QED
    BY <1>1, <1>2, TwoPositionsLoaded, TwoPositionsCompared, TwoPositionsCommitted,
       AccountSteps

LEMMA TwoPositionsInvariant == ASpec => []TwoPositions
  <1>1. AInit => Overlaps /\ TwoPositions
    BY DEF AInit, Overlaps, TwoPositions, IsSaving, Idle
  <1>2. QED
    BY <1>1, AccountsInvariant, OverlapsStep, TwoPositionsStep, PTL DEF ASpec

\* The two positions of an account differ, unless an update overlapped with
\* another one or with a save of the user: creations, deletions and saves of
\* the user, in any number and order, never mix the columns of a row.
THEOREM PositionsAreTwo == ASpec => []PositionsDiffer
  <1>1. TwoPositions => PositionsDiffer
    BY DEF TwoPositions, PositionsDiffer, Apart
  <1>2. QED
    BY <1>1, TwoPositionsInvariant, PTL

-----------------------------------------------------------------------------
(* The refinement of LeagueAccount. *)

\* What LeagueAccounts keeps while met is empty.
AccountFacts == AccountsInv /\ Overlaps /\ OneSummoner /\ OneAccount /\ TwoPositions

LEMMA CreateCommits ==
    ASSUME AccountFacts, met = {}, NEW r \in Slots, Commit(r), requests[r].kind = "create"
    PROVE  Account!Create
  <1> USE DEF AccountFacts
  <1> DEFINE p == requests[r]
  <1>1. PICK id : id = IdOf(r)
    OBVIOUS
  <1>2. /\ IsSaving(r) /\ SaveShape(p) /\ id = inserted + 1
        /\ p.inserts => rows'[id] = p.columns
        /\ link' = IF p.relinks THEN id ELSE link
    BY <1>1, CommitShape
  <1>3. link = None /\ p.inserts /\ p.relinks /\ p.columns \in Details
        /\ Account!Acceptable(p.columns)
    BY <1>2 DEF OneAccount, SaveShape
  <1>4. link' # None
    BY <1>2, <1>3 DEF AccountsInv, None
  <1>5. QED
    BY <1>2, <1>3, <1>4 DEF Account!Create, Details

LEMMA UpdateCommits ==
    ASSUME AccountFacts, met = {}, NEW r \in Slots, Commit(r), requests[r].kind = "update"
    PROVE  Account!Update
  <1> USE DEF AccountFacts
  <1> DEFINE p == requests[r]
             d == rows[link]
             e == Written(p.columns, d)
  <1>1. /\ IsSaving(r) /\ SaveShape(p) /\ p \in SaveRequests /\ IdOf(r) = p.id
        /\ ~p.inserts /\ IdOf(r) \in DOMAIN rows =>
                rows'[IdOf(r)] = Written(p.columns, rows[IdOf(r)])
        /\ link' = IF p.relinks THEN IdOf(r) ELSE link
    BY CommitShape
  <1>2. /\ p.id = link /\ ~p.inserts /\ ~p.relinks /\ link # None
        /\ link \in DOMAIN rows /\ d \in Details /\ link \in 1..inserted
    BY <1>1 DEF OneAccount, SaveShape, AccountsInv
  <1>3. link' = link /\ rows'[link'] = e
    BY <1>1, <1>2
  <1>4. PICK s \in Summoners : Fits(p.columns, s) /\ Fits(d, s)
    BY <1>1, <1>2 DEF OneSummoner, OfSummoner
  <1>5. e \in Details /\ Fits(e, s)
    BY <1>1, <1>2, <1>4, FitsKept, WrittenIs DEF SaveRequests
  <1>6. Apart(e)
    BY <1>1, <1>2 DEF TwoPositions, SavesApart
  <1> HIDE DEF e
  <1>7. e.summoner = d.summoner /\ Account!Acceptable(e)
    BY <1>2, <1>4, <1>5, <1>6, DetailsAre, ColumnsAre
       DEF Fits, Apart, Account!Acceptable
  <1>8. QED
    BY <1>2, <1>3, <1>5, <1>7 DEF Account!Update, Details

LEMMA UserCommits ==
    ASSUME AccountFacts, met = {}, NEW r \in Slots, Commit(r), requests[r].kind = "user"
    PROVE  UNCHANGED <<link, rows>>
  <1> USE DEF AccountFacts
  <1> DEFINE p == requests[r]
  <1>1. /\ IsSaving(r) /\ p \in SaveRequests /\ IdOf(r) = p.id
        /\ ~p.inserts => /\ DOMAIN rows' = DOMAIN rows
                         /\ IdOf(r) \in DOMAIN rows =>
                              rows'[IdOf(r)] = Written(p.columns, rows[IdOf(r)])
        /\ \A a \in DOMAIN rows : a # IdOf(r) => rows'[a] = rows[a]
        /\ rows' \in [DOMAIN rows' -> Details]
        /\ link' = IF p.relinks THEN IdOf(r) ELSE link
    BY CommitShape
  <1>2. p.id = link /\ ~p.inserts /\ ~p.relinks /\ rows \in [DOMAIN rows -> Details]
    BY <1>1 DEF OneAccount, AccountsInv
  <1>3. ASSUME p.id \in DOMAIN rows PROVE Written(p.columns, rows[p.id]) = rows[p.id]
    <2>1. Agree(p.columns, rows[p.id]) /\ rows[p.id] \in Details
      BY <1>1, <1>2, <1>3 DEF TwoPositions, SavesApart
    <2>2. /\ Written(p.columns, rows[p.id]) \in Details
          /\ \A c \in Columns : Written(p.columns, rows[p.id])[c] = rows[p.id][c]
      BY <1>1, <2>1, WrittenIs, DetailsAre DEF SaveRequests, Agree
    <2>3. \A f, g \in Details : (\A c \in Columns : f[c] = g[c]) => f = g
      BY DetailsAre, PartialRowsAre
    <2>4. QED
      BY <2>1, <2>2, <2>3
  <1>4. \A a \in DOMAIN rows : rows'[a] = rows[a]
    BY <1>1, <1>2, <1>3
  <1>5. rows' = rows
    BY <1>1, <1>2, <1>4
  <1>6. QED
    BY <1>1, <1>2, <1>5

\* Until requests overlap that must not, the rows, the reference and the columns
\* that single requests write are one account, which is created, updated and
\* deleted as a whole, and deleted only on request: LeagueAccounts implements
\* LeagueAccount.
THEOREM AccountIsImplemented == ASpec => ImplementsAccount
  <1>1. AInit => Account!Init
    BY DEF AInit, Account!Init
  <1>2. AccountFacts /\ [ANext]_vars =>
          [met' = {} => [ \/ Account!Create
                          \/ Account!Update
                          \/ Account!Delete /\ \E r \in Slots : Remove(r) ]_<<link, rows>>]_vars
    <2> SUFFICES ASSUME AccountFacts, [ANext]_vars, met' = {}
                 PROVE  [ \/ Account!Create
                          \/ Account!Update
                          \/ Account!Delete /\ \E r \in Slots : Remove(r) ]_<<link, rows>>
      OBVIOUS
    <2>0. AccountsInv
      BY DEF AccountFacts
    <2>1. ASSUME NEW r \in Slots, Commit(r)
          PROVE  Account!Create \/ Account!Update \/ UNCHANGED <<link, rows>>
      <3>1. met = {} /\ requests[r].kind \in {"create", "update", "user"}
        BY <2>0, <2>1, CommitShape DEF SaveRequests
      <3>2. QED
        BY <2>1, <3>1, CreateCommits, UpdateCommits, UserCommits
    <2>2. ASSUME NEW r \in Slots, Remove(r)
          PROVE  Account!Delete \/ UNCHANGED <<link, rows>>
      <3>1. /\ rows' = [a \in DOMAIN rows \ {requests[r].id} |-> rows[a]]
            /\ requests[r] \in RemoveRequests
            /\ link' = IF link = requests[r].id THEN None ELSE link
            /\ met' = met
        BY <2>0, <2>2, RemoveShape
      <3>2. CASE link = requests[r].id
        <4>1. link # None
          BY <3>1, <3>2 DEF RemoveRequests, Accounts, None
        <4>2. QED
          BY <3>1, <3>2, <4>1 DEF Account!Delete
      <3>3. CASE link # requests[r].id
        <4>1. DOMAIN rows \subseteq {link} /\ rows \in [DOMAIN rows -> Details]
          BY <3>1 DEF AccountFacts, OneAccount, AccountsInv
        <4>2. DOMAIN rows \ {requests[r].id} = DOMAIN rows
          BY <3>3, <4>1
        <4>3. rows' = rows
          BY <3>1, <4>1, <4>2
        <4>4. QED
          BY <3>1, <3>3, <4>3
      <3>4. QED
        BY <3>2, <3>3
    <2>3. ASSUME NEW r \in Slots, Load(r) \/ CompareRow(r) \/ CompareLink(r)
          PROVE  UNCHANGED <<link, rows>>
      BY <2>0, <2>3, LoadedRequest DEF CompareRow, CompareLink
    <2>4. QED
      BY <2>0, <2>1, <2>2, <2>3, AccountSteps
  <1>3. AInit => OneSummoner
    BY DEF AInit, OneSummoner
  <1>4. AccountFacts <=> AccountsInv /\ (Overlaps /\ OneAccount) /\ OneSummoner /\ TwoPositions
    BY DEF AccountFacts
  <1>5. QED
    BY <1>1, <1>2, <1>3, <1>4, AccountsInvariant, OneSummonerStep, OneAccountInvariant,
       TwoPositionsInvariant, PTL DEF ASpec, ImplementsAccount
=============================================================================
