---------------------------- MODULE RoomSearchProofs ----------------------------
(***************************************************************************)
(* Proofs about RoomSearch, for any rooms, searches, page sizes and        *)
(* changes: the types, with the bounds on pages and demanded positions     *)
(* that they state; that what is found is there; that a walk over a list   *)
(* that stays shows every room once; and how far off it is when the list   *)
(* does not stay.                                                          *)
(***************************************************************************)
EXTENDS RoomSearch, FiniteSetTheorems, SequenceTheorems, TLAPS

USE FiniteAssumption, ListingsAssumption, SearchesAssumption, BoundsAssumption

-----------------------------------------------------------------------------
(* Demanded positions: a position is demanded once, and so no more of them *)
(* than there are.                                                         *)

Distinct(D) == \A i, j \in DOMAIN D : D[i] = D[j] => i = j

LEMMA OrderElim ==
    ASSUME NEW D \in Orders
    PROVE  D \in Seq(Positions) /\ Distinct(D)
  <1>1. PICK n \in 0..Cardinality(Positions) : D \in [1..n -> Positions]
    BY DEF Orders
  <1>2. n \in Nat
    BY <1>1, FS_CardinalityType
  <1>3. D \in Seq(Positions)
    BY <1>1, <1>2
  <1>4. QED
    BY <1>3 DEF Orders, Distinct

LEMMA OrderIntro ==
    ASSUME NEW D \in Seq(Positions), Distinct(D)
    PROVE  D \in Orders
  <1>1. D \in [1..Len(D) -> Positions] /\ Len(D) \in Nat
    OBVIOUS
  <1>2. D \in Injection(1..Len(D), Positions)
    BY <1>1 DEF Distinct, Injection, IsInjective
  <1>3. Cardinality(1..Len(D)) = Len(D)
    <2> DEFINE n == Len(D)
    <2>1. n \in Nat
      BY <1>1
    <2> HIDE DEF n
    <2>2. Cardinality(1..n) = IF 1 > n THEN 0 ELSE n - 1 + 1
      BY <2>1, FS_Interval
    <2>3. Cardinality(1..n) = n
      BY <2>1, <2>2
    <2>4. QED
      BY <2>3 DEF n
  <1>4. Len(D) <= Cardinality(Positions) /\ Cardinality(Positions) \in Nat
    BY <1>2, <1>3, FS_Injection, FS_CardinalityType
  <1>5. Len(D) \in 0..Cardinality(Positions)
    BY <1>1, <1>4
  <1>6. QED
    BY <1>1, <1>5 DEF Orders, Distinct

LEMMA EmptyOrder == <<>> \in Orders
  <1>1. <<>> \in Seq(Positions) /\ DOMAIN <<>> = {}
    OBVIOUS
  <1>2. QED
    BY <1>1, OrderIntro DEF Distinct

LEMMA TailIsOrder ==
    ASSUME NEW D \in Orders, D # <<>>
    PROVE  Tail(D) \in Orders
  <1>1. D \in Seq(Positions) /\ Distinct(D)
    BY OrderElim
  <1>2. Tail(D) \in Seq(Positions) /\ Distinct(Tail(D))
    BY <1>1, HeadTailProperties DEF Distinct
  <1>3. QED
    BY <1>2, OrderIntro

LEMMA AppendIsOrder ==
    ASSUME NEW D \in Orders, NEW p \in Positions, p \notin Range(D)
    PROVE  Append(D, p) \in Orders
  <1>1. D \in Seq(Positions) /\ Distinct(D) /\ \A i \in DOMAIN D : D[i] # p
    BY OrderElim DEF Range
  <1>2. Append(D, p) \in Seq(Positions) /\ Distinct(Append(D, p))
    BY <1>1, AppendProperties DEF Distinct
  <1>3. QED
    BY <1>2, OrderIntro

LEMMA WithoutIsOrder ==
    ASSUME NEW D \in Orders, NEW p, p \in Range(D)
    PROVE  Without(D, p) \in Orders
  <1>1. D \in Seq(Positions) /\ Distinct(D) /\ \E i \in DOMAIN D : D[i] = p
    BY OrderElim DEF Range
  <1> DEFINE k == CHOOSE i \in DOMAIN D : D[i] = p
             E == [i \in 1..(Len(D) - 1) |-> IF i < k THEN D[i] ELSE D[i + 1]]
  <1>2. k \in 1..Len(D)
    BY <1>1
  <1> HIDE DEF k
  <1>3. Len(D) - 1 \in Nat
    BY <1>1, <1>2
  <1>4. \A i \in 1..(Len(D) - 1) : E[i] = IF i < k THEN D[i] ELSE D[i + 1]
    OBVIOUS
  <1>5. E \in [1..(Len(D) - 1) -> Positions]
    BY <1>1, <1>2
  <1>6. E \in Seq(Positions)
    BY <1>3, <1>5
  <1>7. \A i, j \in 1..(Len(D) - 1) : E[i] = E[j] => i = j
    BY <1>1, <1>2, <1>4 DEF Distinct
  <1>8. Distinct(E)
    BY <1>7 DEF Distinct
  <1>9. Without(D, p) = E
    BY DEF Without, k
  <1>10. QED
    BY <1>6, <1>8, <1>9, OrderIntro

\* Which positions are demanded afterwards.
LEMMA RangesOfOrders ==
    ASSUME NEW D \in Orders
    PROVE  /\ \A p \in Positions : Range(Append(D, p)) = Range(D) \cup {p}
           /\ \A p \in Range(D) : Range(Without(D, p)) \subseteq Range(D) \ {p}
           /\ D # <<>> => D[1] \notin Range(Tail(D))
  <1>1. D \in Seq(Positions) /\ Distinct(D) /\ DOMAIN D = 1..Len(D) /\ Len(D) \in Nat
    BY OrderElim
  <1>2. ASSUME NEW p \in Positions PROVE Range(Append(D, p)) = Range(D) \cup {p}
    <2>1. /\ Append(D, p) \in Seq(Positions) /\ Len(Append(D, p)) = Len(D) + 1
          /\ \A i \in 1..Len(D) : Append(D, p)[i] = D[i]
          /\ Append(D, p)[Len(D) + 1] = p
      BY <1>1, AppendProperties
    <2>2. DOMAIN Append(D, p) = 1..(Len(D) + 1)
      BY <2>1
    <2>3. QED
      BY <1>1, <2>1, <2>2 DEF Range
  <1>3. ASSUME NEW p \in Range(D) PROVE Range(Without(D, p)) \subseteq Range(D) \ {p}
    <2> DEFINE k == CHOOSE i \in DOMAIN D : D[i] = p
    <2>1. k \in 1..Len(D) /\ D[k] = p
      BY <1>1 DEF Range
    <2>2. Without(D, p) = [i \in 1..(Len(D) - 1) |-> IF i < k THEN D[i] ELSE D[i + 1]]
      BY DEF Without
    <2> HIDE DEF k
    <2>3. ASSUME NEW i \in 1..(Len(D) - 1)
          PROVE  Without(D, p)[i] \in Range(D) \ {p}
      <3>1. PICK j \in 1..Len(D) : Without(D, p)[i] = D[j] /\ j # k
        BY <1>1, <2>1, <2>2
      <3>2. D[j] # p
        BY <1>1, <2>1, <3>1 DEF Distinct
      <3>3. QED
        BY <1>1, <3>1, <3>2 DEF Range
    <2>4. DOMAIN Without(D, p) = 1..(Len(D) - 1)
      BY <2>2
    <2>5. QED
      BY <2>3, <2>4 DEF Range
  <1>4. ASSUME D # <<>> PROVE D[1] \notin Range(Tail(D))
    <2>1. /\ Tail(D) \in Seq(Positions) /\ Len(Tail(D)) = Len(D) - 1
          /\ \A i \in 1..Len(Tail(D)) : Tail(D)[i] = D[i + 1]
      BY <1>1, <1>4, HeadTailProperties
    <2>2. DOMAIN Tail(D) = 1..(Len(D) - 1)
      BY <2>1
    <2>3. \A i \in 1..(Len(D) - 1) : D[1] # D[i + 1]
      BY <1>1 DEF Distinct
    <2>4. QED
      BY <2>1, <2>2, <2>3 DEF Range
  <1>5. QED
    BY <1>2, <1>3, <1>4

-----------------------------------------------------------------------------
(* The rooms.                                                              *)

RoomRecords == [state : {"ABSENT", "LIVE", "REMOVED"}, date : Times, demanded : Orders,
                region : Regions, others : BOOLEAN, row : Rows, position : Positions]

\* The client does not hold what the room demands.
HoldsNothingDemanded(q) == q.row = "APPROVED" => q.position \notin Range(q.demanded)

RoomStates == {q \in RoomRecords : HoldsNothingDemanded(q)}

LEMMA ListedRoom ==
    ASSUME NEW r \in Rooms
    PROVE  /\ Listings[r].date \in Times /\ Listings[r].region \in Regions
           /\ Listings[r].demanded \in Orders /\ Listings[r].demanded # <<>>
           /\ Listings[r].demanded[1] \in Positions
           /\ Tail(Listings[r].demanded) \in Orders
  <1>1. /\ Listings[r].date \in Times /\ Listings[r].region \in Regions
        /\ Listings[r].demanded \in Orders /\ Listings[r].demanded # <<>>
    OBVIOUS
  <1>2. Listings[r].demanded \in Seq(Positions)
    BY <1>1, OrderElim
  <1>3. QED
    BY <1>1, <1>2, TailIsOrder

\* What a room is when the client comes.
LEMMA RoomsAtFirst ==
    ASSUME NEW r \in Rooms
    PROVE  Absent \in RoomStates /\ Created(r) \in RoomStates /\ Joined(r) \in RoomStates
  <1>1. (CHOOSE x \in Regions : TRUE) \in Regions /\ (CHOOSE p \in Positions : TRUE) \in Positions
    BY ListedRoom
  <1>2. Absent \in RoomRecords /\ Absent.row = "NONE"
    BY <1>1, EmptyOrder DEF Absent, RoomRecords, Times, Rows
  <1>3. /\ Created(r) \in RoomRecords /\ Created(r).row = "NONE"
        /\ Created(r).demanded = Listings[r].demanded
    BY <1>2, ListedRoom DEF Created, RoomRecords
  <1>4. /\ Joined(r) \in RoomRecords
        /\ Joined(r).position = Listings[r].demanded[1]
        /\ Joined(r).demanded = Tail(Listings[r].demanded)
    BY <1>3, ListedRoom DEF Joined, RoomRecords, Rows
  <1>5. HoldsNothingDemanded(Joined(r))
    BY <1>4, ListedRoom, RangesOfOrders DEF HoldsNothingDemanded
  <1>6. QED
    BY <1>2, <1>3, <1>4, <1>5 DEF RoomStates, HoldsNothingDemanded

\* What the handlers do to one room, the client's own row included.
RoomStep(r) ==
    \/ CreateRoom(r) \/ UpdateRoom(r) \/ MembersChange(r) \/ RemoveRoom(r)
    \/ Apply(r) \/ HandleApplication(r) \/ LeaveRoom(r)

LEMMA RoomStepIsTyped ==
    ASSUME NEW r \in Rooms, rooms \in [Rooms -> RoomStates], RoomStep(r)
    PROVE  \E room \in RoomStates : RoomChanges(r, room)
  <1> DEFINE Goal == \E room \in RoomStates : RoomChanges(r, room)
  <1>0. PICK q \in RoomRecords : q = rooms[r] /\ HoldsNothingDemanded(q)
    BY DEF RoomStates
  <1>1. /\ q.demanded \in Orders /\ q.position \in Positions /\ q.row \in Rows
        /\ q.others \in BOOLEAN
    BY DEF RoomRecords
  <1>2. ASSUME CreateRoom(r) PROVE Goal
    BY <1>2, RoomsAtFirst DEF CreateRoom
  <1>3. ASSUME UpdateRoom(r) PROVE Goal
    <2>1. ASSUME NEW d \in Times PROVE [q EXCEPT !.date = d] \in RoomStates
      <3>1. [q EXCEPT !.date = d] \in RoomRecords
        BY DEF RoomRecords
      <3>2. QED
        BY <1>0, <3>1 DEF RoomStates, RoomRecords, HoldsNothingDemanded
    <2>2. ASSUME NEW d \in Times, NEW D \in Orders, HeldByClient(r) \cap Range(D) = {}
          PROVE  [q EXCEPT !.date = d, !.demanded = D,
                           !.row = IF @ = "PENDING" /\ q.position \notin Range(D)
                                   THEN "REJECTED" ELSE @] \in RoomStates
      <3> DEFINE room == [q EXCEPT !.date = d, !.demanded = D,
                                   !.row = IF @ = "PENDING" /\ q.position \notin Range(D)
                                           THEN "REJECTED" ELSE @]
      <3>1. /\ room \in RoomRecords /\ room.position = q.position /\ room.demanded = D
            /\ room.row = "APPROVED" => q.row = "APPROVED"
        BY <1>1 DEF RoomRecords, Rows
      <3>2. q.row = "APPROVED" => q.position \notin Range(D)
        BY <1>0, <2>2 DEF HeldByClient
      <3> HIDE DEF room
      <3>3. room \in RoomStates
        BY <3>1, <3>2 DEF RoomStates, HoldsNothingDemanded
      <3>4. QED
        BY <3>3 DEF room
    <2>3. PICK d \in Times :
            \/ RoomChanges(r, [q EXCEPT !.date = d])
            \/ \E D \in Orders :
                /\ HeldByClient(r) \cap Range(D) = {}
                /\ RoomChanges(r, [q EXCEPT !.date = d, !.demanded = D,
                        !.row = IF @ = "PENDING" /\ q.position \notin Range(D)
                                THEN "REJECTED" ELSE @])
      BY <1>0, <1>3 DEF UpdateRoom
    <2>4. QED
      BY <2>1, <2>2, <2>3
  <1>4. ASSUME MembersChange(r) PROVE Goal
    <2>1. ASSUME NEW p \in Range(q.demanded)
          PROVE  [q EXCEPT !.demanded = Without(@, p), !.others = TRUE] \in RoomStates
      <3> DEFINE room == [q EXCEPT !.demanded = Without(@, p), !.others = TRUE]
      <3>1. /\ room \in RoomRecords /\ room.position = q.position
            /\ room.row = q.row /\ room.demanded = Without(q.demanded, p)
        BY <1>1, WithoutIsOrder DEF RoomRecords
      <3>2. Range(Without(q.demanded, p)) \subseteq Range(q.demanded)
        BY <1>1, RangesOfOrders
      <3> HIDE DEF room
      <3>3. room \in RoomStates
        BY <1>0, <3>1, <3>2 DEF RoomStates, HoldsNothingDemanded
      <3>4. QED
        BY <3>3 DEF room
    <2>2. ASSUME NEW some \in BOOLEAN,
                 NEW p \in Positions \ (Range(q.demanded) \cup HeldByClient(r))
          PROVE  [q EXCEPT !.demanded = Append(@, p), !.others = some] \in RoomStates
      <3> DEFINE room == [q EXCEPT !.demanded = Append(@, p), !.others = some]
      <3>1. /\ room \in RoomRecords /\ room.position = q.position
            /\ room.row = q.row /\ room.demanded = Append(q.demanded, p)
        BY <1>1, AppendIsOrder DEF RoomRecords
      <3>2. Range(Append(q.demanded, p)) = Range(q.demanded) \cup {p}
        BY <1>1, RangesOfOrders
      <3>3. q.row = "APPROVED" => q.position # p
        BY <1>0 DEF HeldByClient
      <3> HIDE DEF room
      <3>4. room \in RoomStates
        BY <1>0, <3>1, <3>2, <3>3 DEF RoomStates, HoldsNothingDemanded
      <3>5. QED
        BY <3>4 DEF room
    <2>3. ASSUME NEW some \in BOOLEAN PROVE [q EXCEPT !.others = some] \in RoomStates
      <3>1. [q EXCEPT !.others = some] \in RoomRecords
        BY DEF RoomRecords
      <3>2. QED
        BY <1>0, <3>1 DEF RoomStates, RoomRecords, HoldsNothingDemanded
    <2>4. QED
      BY <1>0, <1>4, <2>1, <2>2, <2>3 DEF MembersChange
  <1>5. ASSUME RemoveRoom(r) PROVE Goal
    <2> DEFINE room == [q EXCEPT !.state = "REMOVED", !.others = FALSE,
                                 !.row = IF @ = "PENDING"  THEN "REJECTED" ELSE
                                         IF @ = "APPROVED" THEN "LEFT"     ELSE @]
    <2>1. room \in RoomRecords /\ room.row # "APPROVED"
      BY <1>1 DEF RoomRecords, Rows
    <2>2. RoomChanges(r, room)
      BY <1>0, <1>5 DEF RemoveRoom
    <2> HIDE DEF room
    <2>3. QED
      BY <2>1, <2>2 DEF RoomStates, HoldsNothingDemanded
  <1>6. ASSUME Apply(r) PROVE Goal
    <2>1. ASSUME NEW p \in Positions
          PROVE  [q EXCEPT !.row = "PENDING", !.position = p] \in RoomStates
      <3>1. [q EXCEPT !.row = "PENDING", !.position = p] \in RoomRecords
        BY DEF RoomRecords, Rows
      <3>2. QED
        BY <3>1 DEF RoomStates, RoomRecords, HoldsNothingDemanded
    <2>2. QED
      BY <1>0, <1>6, <2>1 DEF Apply
  <1>7. ASSUME HandleApplication(r) PROVE Goal
    <2>1. ASSUME q.position \in Range(q.demanded)
          PROVE  [q EXCEPT !.row = "APPROVED",
                           !.demanded = Without(@, q.position)] \in RoomStates
      <3> DEFINE room == [q EXCEPT !.row = "APPROVED", !.demanded = Without(@, q.position)]
      <3>1. /\ room \in RoomRecords /\ room.position = q.position
            /\ room.demanded = Without(q.demanded, q.position)
        BY <1>1, <2>1, WithoutIsOrder DEF RoomRecords, Rows
      <3>2. q.position \notin Range(Without(q.demanded, q.position))
        BY <1>1, <2>1, RangesOfOrders
      <3> HIDE DEF room
      <3>3. room \in RoomStates
        BY <3>1, <3>2 DEF RoomStates, HoldsNothingDemanded
      <3>4. QED
        BY <3>3 DEF room
    <2>2. [q EXCEPT !.row = "REJECTED"] \in RoomStates
      <3>1. [q EXCEPT !.row = "REJECTED"] \in RoomRecords
        BY DEF RoomRecords, Rows
      <3>2. QED
        BY <3>1 DEF RoomStates, RoomRecords, HoldsNothingDemanded
    <2>3. QED
      BY <1>0, <1>7, <2>1, <2>2 DEF HandleApplication
  <1>8. ASSUME LeaveRoom(r) PROVE Goal
    <2> DEFINE room == [q EXCEPT !.row = "LEFT", !.demanded = Append(@, q.position)]
    <2>1. q.position \notin Range(q.demanded)
      BY <1>0, <1>8 DEF LeaveRoom, SeesDetails, HoldsNothingDemanded
    <2>2. room \in RoomRecords /\ room.row = "LEFT"
      BY <1>1, <2>1, AppendIsOrder DEF RoomRecords, Rows
    <2>3. RoomChanges(r, room)
      BY <1>0, <1>8 DEF LeaveRoom
    <2> HIDE DEF room
    <2>4. QED
      BY <2>2, <2>3 DEF RoomStates, HoldsNothingDemanded
  <1>9. QED
    BY <1>2, <1>3, <1>4, <1>5, <1>6, <1>7, <1>8 DEF RoomStep

-----------------------------------------------------------------------------
(* The inductive invariant.                                                *)

Steps == {"idle", "asked", "loaded", "counted", "picked", "answered"}

\* Nobody searches if Searches is empty, and the search of Idle is no query.
Walks == [at : Steps, search : Queries \cup {CHOOSE s \in Searches : TRUE},
          kept : BOOLEAN, page : 1..Cardinality(Rooms), region : Regions,
          count : 0..Cardinality(Rooms), ids : SUBSET Rooms, next : BOOLEAN]

\* A page further on is asked for only if there are as many rooms, and every
\* page shows a room once at most.
PagesAreRooms ==
    /\ walk.at = "answered" /\ walk.next => walk.page < Cardinality(Rooms)
    /\ shown \in [Rooms -> Nat]
    /\ \A r \in Rooms : shown[r] <= IF walk.at = "answered" THEN walk.page ELSE walk.page - 1

\* What nothing has happened to since it was found still matches.
FoundStillMatches ==
    walk.at = "answered" => \A r \in walk.ids \cap fresh : Matches(r, walk.search, walk.region)

SearchTyped ==
    /\ Rooms # {}
    /\ rooms \in [Rooms -> RoomStates]
    /\ region \in Regions
    /\ now \in Times
    /\ walk \in Walks
    /\ walk.at # "idle" => walk.search \in Queries
    /\ steady \subseteq Rooms /\ fresh \subseteq Rooms
    /\ changes \in 0..MaxChanges

SearchInv == SearchTyped /\ PagesAreRooms /\ FoundStillMatches

\* There are no more pages than rows, whatever their size.
LEMMA PagesAreFew ==
    ASSUME NEW count \in Nat, NEW take \in Nat \ {0}
    PROVE  PageCount(count, take) \in Nat /\ PageCount(count, take) <= count
  <1> DEFINE pages == (count + take - 1) \div take
  <1>1. pages \in Nat /\ take * pages <= count + take - 1
    OBVIOUS
  <1> HIDE DEF pages
  <1>2. ASSUME count < pages PROVE FALSE
    <2>1. take * (count + 1) <= take * pages
      BY <1>1, <1>2
    <2>2. take * (count + 1) = take * count + take /\ count <= take * count
      OBVIOUS
    <2>3. take * count \in Nat /\ take * pages \in Nat
      BY <1>1
    <2>4. QED
      BY <1>1, <2>1, <2>2, <2>3
  <1>3. QED
    BY <1>1, <1>2 DEF PageCount, pages

\* There is a room, and so there is a page.
LEMMA CountsOfRooms ==
    /\ Cardinality(Rooms) \in Nat
    /\ Rooms # {} => 1 \in 1..Cardinality(Rooms)
    /\ \A s, x : Result(s, x) \in SUBSET Rooms
    /\ \A s, x : Cardinality(Result(s, x)) \in 0..Cardinality(Rooms)
  <1>1. Cardinality(Rooms) \in Nat /\ (Rooms # {} => Cardinality(Rooms) # 0)
    BY FS_CardinalityType, FS_EmptySet
  <1>2. ASSUME NEW s, NEW x
        PROVE  /\ Result(s, x) \in SUBSET Rooms
               /\ Cardinality(Result(s, x)) \in 0..Cardinality(Rooms)
    <2>1. Result(s, x) \in SUBSET Rooms
      BY DEF Result
    <2>2. IsFiniteSet(Result(s, x)) /\ Cardinality(Result(s, x)) <= Cardinality(Rooms)
      BY <2>1, FS_Subset
    <2>3. Cardinality(Result(s, x)) \in Nat
      BY <2>2, FS_CardinalityType
    <2>4. QED
      BY <1>1, <2>1, <2>2, <2>3
  <1>3. QED
    BY <1>1, <1>2

LEMMA IdleIsAWalk ==
    ASSUME Rooms # {}, region \in Regions
    PROVE  Idle \in Walks
  BY CountsOfRooms DEF Idle, Walks, Steps

RoomChange == \E r \in Rooms : RoomStep(r)

LEMMA MatchesStay ==
    ASSUME UNCHANGED <<rooms, now>>
    PROVE  \A r, s, x : Matches(r, s, x)' <=> Matches(r, s, x)
  BY DEF Matches, IsOpen, IsOwn, HasMember

\* The change of a room, of the account or of the clock leaves the walk alone,
\* and a room that stays fresh still matches what it matched.
LEMMA ChangeIsTyped ==
    ASSUME SearchTyped, RoomChange \/ UpdateAccount \/ TimePasses
    PROVE  /\ SearchTyped' /\ UNCHANGED <<walk, shown>> /\ fresh' \subseteq fresh
           /\ \A q \in fresh' : \A s, x : Matches(q, s, x)' <=> Matches(q, s, x)
  <1>1. ASSUME Changing PROVE /\ UNCHANGED <<walk, shown>>
                              /\ steady' \subseteq steady /\ changes' \in 0..MaxChanges
    BY <1>1 DEF Changing, SearchTyped
  <1>2. CASE RoomChange
    <2>1. PICK r \in Rooms : RoomStep(r)
      BY <1>2 DEF RoomChange
    <2>2. PICK room \in RoomStates : RoomChanges(r, room)
      BY <2>1, RoomStepIsTyped DEF SearchTyped
    <2>3. /\ rooms' = [rooms EXCEPT ![r] = room] /\ fresh' = fresh \ {r}
          /\ UNCHANGED <<region, now>> /\ Changing
      BY <2>2 DEF RoomChanges
    <2>4. rooms' \in [Rooms -> RoomStates]
      BY <2>3 DEF SearchTyped
    <2>5. ASSUME NEW q \in fresh', NEW s, NEW x PROVE Matches(q, s, x)' <=> Matches(q, s, x)
      <3>1. rooms'[q] = rooms[q] /\ now' = now
        BY <2>3, <2>5 DEF SearchTyped
      <3>2. QED
        BY <3>1 DEF Matches, IsOpen, IsOwn, HasMember
    <2>6. QED
      BY <1>1, <2>3, <2>4, <2>5 DEF SearchTyped
  <1>3. CASE UpdateAccount
    <2>1. region' \in Regions /\ UNCHANGED <<rooms, now, fresh>> /\ Changing
      BY <1>3 DEF UpdateAccount
    <2>2. \A q, s, x : Matches(q, s, x)' <=> Matches(q, s, x)
      BY <2>1, MatchesStay
    <2>3. QED
      BY <1>1, <2>1, <2>2 DEF SearchTyped
  <1>4. CASE TimePasses
    <2>1. now' \in Times /\ UNCHANGED <<rooms, region>> /\ fresh' = {} /\ Changing
      BY <1>4 DEF TimePasses, SearchTyped, Times
    <2>2. QED
      BY <1>1, <2>1 DEF SearchTyped
  <1>5. QED
    BY <1>2, <1>3, <1>4

LEMMA SearchInvInit == SInit => SearchInv
  <1> SUFFICES ASSUME SInit PROVE SearchInv
    OBVIOUS
  <1>1. PICK E \in SUBSET Rooms, M \in SUBSET Rooms :
            rooms = [r \in Rooms |-> IF r \in M THEN Joined(r) ELSE
                                     IF r \in E THEN Created(r) ELSE Absent]
    BY DEF SInit
  <1>2. rooms \in [Rooms -> RoomStates]
    BY <1>1, RoomsAtFirst
  <1>3. Rooms # {} /\ region \in Regions
    BY DEF SInit
  <1>4. walk \in Walks /\ walk.at = "idle" /\ walk.page = 1 /\ walk.next = FALSE
    BY <1>3, IdleIsAWalk DEF SInit, Idle
  <1>5. SearchTyped
    BY <1>2, <1>3, <1>4 DEF SInit, SearchTyped, Times
  <1>6. PagesAreRooms /\ FoundStillMatches
    BY <1>4 DEF SInit, PagesAreRooms, FoundStillMatches
  <1>7. QED
    BY <1>5, <1>6 DEF SearchInv

LEMMA StartStep ==
    ASSUME SearchInv, NEW s \in Searches, StartWalk(s)
    PROVE  SearchInv'
  <1>0. SearchTyped /\ Rooms # {} /\ region \in Regions
    BY DEF SearchInv, SearchTyped
  <1>1. s \in Queries
    OBVIOUS
  <1>2. PICK w \in Walks : w = Idle
    BY <1>0, IdleIsAWalk
  <1>3. w.page = 1
    BY <1>2 DEF Idle
  <1>4. walk' = [w EXCEPT !.at = "asked", !.search = s]
    BY <1>2 DEF StartWalk
  <1>5. /\ walk' \in Walks /\ walk'.at = "asked"
        /\ walk'.search = s /\ walk'.page = 1
    BY <1>1, <1>3, <1>4 DEF Walks, Steps
  <1>6. SearchTyped'
    BY <1>0, <1>1, <1>5, CountsOfRooms DEF StartWalk, SearchTyped
  <1>7. PagesAreRooms' /\ FoundStillMatches'
    BY <1>5 DEF StartWalk, PagesAreRooms, FoundStillMatches
  <1>8. QED
    BY <1>6, <1>7 DEF SearchInv

LEMMA LoadUserStep == SearchInv /\ LoadUser => SearchInv'
  <1> SUFFICES ASSUME SearchInv, LoadUser PROVE SearchInv'
    OBVIOUS
  <1>1. /\ walk' \in Walks /\ walk'.at = "loaded" /\ walk'.region = region
        /\ walk'.search = walk.search /\ walk'.page = walk.page
    BY DEF LoadUser, SearchInv, SearchTyped, Walks, Steps
  <1>2. SearchTyped'
    BY <1>1 DEF LoadUser, SearchInv, SearchTyped
  <1>3. PagesAreRooms' /\ FoundStillMatches'
    BY <1>1 DEF LoadUser, SearchInv, PagesAreRooms, FoundStillMatches
  <1>4. QED
    BY <1>2, <1>3 DEF SearchInv

LEMMA CountStep == SearchInv /\ Count => SearchInv'
  <1> SUFFICES ASSUME SearchInv, Count PROVE SearchInv'
    OBVIOUS
  <1>0. PICK n \in 0..Cardinality(Rooms) : n = Cardinality(Result(walk.search, walk.region))
    BY CountsOfRooms
  <1>1. /\ walk' \in Walks /\ walk'.at = "counted" /\ walk'.region = walk.region
        /\ walk'.search = walk.search /\ walk'.page = walk.page
    BY <1>0 DEF Count, SearchInv, SearchTyped, Walks, Steps
  <1>2. SearchTyped'
    BY <1>1 DEF Count, SearchInv, SearchTyped
  <1>3. PagesAreRooms' /\ FoundStillMatches'
    BY <1>1 DEF Count, SearchInv, PagesAreRooms, FoundStillMatches
  <1>4. QED
    BY <1>2, <1>3 DEF SearchInv

LEMMA PagesAreOfRooms ==
    ASSUME NEW R \in SUBSET Rooms
    PROVE  \A n, t : Page(R, n, t) \in SUBSET R
  BY DEF Page

LEMMA PickIdsStep == SearchInv /\ PickIds => SearchInv'
  <1> SUFFICES ASSUME SearchInv, PickIds PROVE SearchInv'
    OBVIOUS
  <1>0. PICK S \in SUBSET Rooms : walk' = [walk EXCEPT !.at = "picked", !.ids = S]
    <2>1. Result(walk.search, walk.region) \in SUBSET Rooms
      BY CountsOfRooms
    <2>2. QED
      BY <2>1, PagesAreOfRooms DEF PickIds
  <1>1. /\ walk' \in Walks /\ walk'.at = "picked"
        /\ walk'.search = walk.search /\ walk'.page = walk.page
    BY <1>0 DEF SearchInv, SearchTyped, Walks, Steps
  <1>2. walk.at = "counted" /\ UNCHANGED <<rooms, region, now, shown, steady, fresh, changes>>
    BY DEF PickIds
  <1>3. SearchTyped'
    BY <1>1, <1>2 DEF SearchInv, SearchTyped
  <1>4. PagesAreRooms' /\ FoundStillMatches'
    BY <1>1, <1>2 DEF SearchInv, PagesAreRooms, FoundStillMatches
  <1>5. QED
    BY <1>3, <1>4 DEF SearchInv

LEMMA AnswerPageStep == SearchInv /\ AnswerPage => SearchInv'
  <1> SUFFICES ASSUME SearchInv, AnswerPage PROVE SearchInv'
    OBVIOUS
  <1> DEFINE found == {r \in walk.ids : Matches(r, walk.search, walk.region)}
             more == HasNextPage(walk.page, walk.count, walk.search.take)
  <1>0. /\ walk.at = "picked"
        /\ shown' = [r \in Rooms |-> shown[r] + IF r \in found THEN 1 ELSE 0]
        /\ walk' = [walk EXCEPT !.at = "answered", !.ids = found, !.next = more]
        /\ fresh' = found
        /\ UNCHANGED <<rooms, region, now, steady, changes>>
    BY DEF AnswerPage
  <1>1. /\ walk \in Walks /\ walk.search \in Queries /\ walk.ids \in SUBSET Rooms
        /\ walk.count \in 0..Cardinality(Rooms) /\ walk.page \in 1..Cardinality(Rooms)
        /\ walk.search.take \in Nat \ {0}
    BY <1>0 DEF SearchInv, SearchTyped, Walks, Queries
  <1>2. /\ found \in SUBSET Rooms /\ more \in BOOLEAN
        /\ \A r \in found : Matches(r, walk.search, walk.region)
    BY <1>1 DEF HasNextPage
  <1>3. more => walk.page < Cardinality(Rooms)
    <2>1. walk.count \in Nat /\ walk.count <= Cardinality(Rooms) /\ Cardinality(Rooms) \in Nat
      BY <1>1, CountsOfRooms
    <2>2. /\ PageCount(walk.count, walk.search.take) \in Nat
          /\ PageCount(walk.count, walk.search.take) <= walk.count
      BY <1>1, <2>1, PagesAreFew
    <2>3. QED
      BY <1>1, <2>1, <2>2 DEF HasNextPage
  <1> HIDE DEF found, more
  <1>4. /\ walk' \in Walks /\ walk'.at = "answered" /\ walk'.region = walk.region
        /\ walk'.search = walk.search /\ walk'.page = walk.page
        /\ walk'.ids = found /\ walk'.next = more
    BY <1>0, <1>1, <1>2 DEF Walks, Steps
  <1>5. SearchTyped'
    BY <1>0, <1>1, <1>2, <1>4 DEF SearchInv, SearchTyped
  <1>6. PagesAreRooms'
    <2>1. shown \in [Rooms -> Nat] /\ \A r \in Rooms : shown[r] <= walk.page - 1
      BY <1>0 DEF SearchInv, PagesAreRooms
    <2>2. shown' \in [Rooms -> Nat] /\ \A r \in Rooms : shown'[r] <= shown[r] + 1
      BY <1>0, <2>1
    <2>3. \A r \in Rooms : shown'[r] <= walk.page
      BY <1>1, <2>1, <2>2
    <2>4. QED
      BY <1>3, <1>4, <2>2, <2>3 DEF PagesAreRooms
  <1>7. FoundStillMatches'
    <2>1. ASSUME NEW r \in found PROVE Matches(r, walk.search, walk.region)'
      <3>1. Matches(r, walk.search, walk.region)
        BY <1>2
      <3>2. UNCHANGED <<rooms, now>> /\ walk'.search = walk.search /\ walk'.region = walk.region
        BY <1>0, <1>4
      <3>3. QED
        BY <3>1, <3>2 DEF Matches, IsOpen, IsOwn, HasMember
    <2>2. QED
      BY <1>4, <2>1 DEF FoundStillMatches
  <1>8. QED
    BY <1>5, <1>6, <1>7 DEF SearchInv

\* The next page, by the link or by the same search.
LEMMA NextPageStep == SearchInv /\ (FollowNextLink \/ AskNextPage) => SearchInv'
  <1> SUFFICES ASSUME SearchInv, FollowNextLink \/ AskNextPage PROVE SearchInv'
    OBVIOUS
  <1>0. /\ walk.at = "answered" /\ walk.next
        /\ UNCHANGED <<rooms, region, now, shown, steady, fresh, changes>>
    BY DEF FollowNextLink, AskNextPage
  <1>1. /\ walk \in Walks /\ walk.search \in Queries /\ walk.page \in 1..Cardinality(Rooms)
        /\ walk.page < Cardinality(Rooms) /\ Cardinality(Rooms) \in Nat
    BY <1>0, CountsOfRooms DEF SearchInv, SearchTyped, PagesAreRooms, Walks
  <1>2. walk.page + 1 \in 1..Cardinality(Rooms)
    BY <1>1
  <1>3. Unfiltered(walk.search) \in Queries
    <2>1. 0 \in Times /\ MaxTime \in Times
      BY DEF Times
    <2>2. QED
      BY <1>1, <2>1 DEF Unfiltered, Queries
  <1>4. /\ walk' \in Walks /\ walk'.at = "asked" /\ walk'.page = walk.page + 1
        /\ walk'.search \in Queries
    <2>1. CASE AskNextPage
      BY <1>1, <1>2, <2>1 DEF AskNextPage, Walks, Steps
    <2>2. CASE FollowNextLink
      <3>1. PICK s \in Queries : s = Unfiltered(walk.search)
        BY <1>3
      <3>2. PICK kept \in BOOLEAN : kept = (walk.kept /\ walk.search = s)
        OBVIOUS
      <3>3. walk' = [walk EXCEPT !.at = "asked", !.page = walk.page + 1, !.search = s,
                                 !.kept = kept]
        BY <2>2, <3>1, <3>2, Zenon DEF FollowNextLink
      <3>4. QED
        BY <1>1, <1>2, <3>3 DEF Walks, Steps
    <2>3. QED
      BY <2>1, <2>2
  <1>5. SearchTyped'
    BY <1>0, <1>4 DEF SearchInv, SearchTyped
  <1>6. PagesAreRooms'
    BY <1>0, <1>1, <1>4 DEF SearchInv, PagesAreRooms
  <1>7. FoundStillMatches'
    BY <1>4 DEF FoundStillMatches
  <1>8. QED
    BY <1>5, <1>6, <1>7 DEF SearchInv

LEMMA SearchInvStep == SearchInv /\ [SNext]_searchVars => SearchInv'
  <1> SUFFICES ASSUME SearchInv, [SNext]_searchVars PROVE SearchInv'
    OBVIOUS
  <1>1. CASE SearchLeagueRooms \/ SearchUserRooms
    BY <1>1, StartStep DEF SearchLeagueRooms, SearchUserRooms
  <1>2. CASE LoadUser \/ Count \/ PickIds \/ AnswerPage
    BY <1>2, LoadUserStep, CountStep, PickIdsStep, AnswerPageStep
  <1>3. CASE FollowNextLink \/ AskNextPage
    BY <1>3, NextPageStep
  <1>4. CASE RoomChange \/ UpdateAccount \/ TimePasses
    <2>1. /\ SearchTyped' /\ UNCHANGED <<walk, shown>> /\ fresh' \subseteq fresh
          /\ \A q \in fresh' : \A s, x : Matches(q, s, x)' <=> Matches(q, s, x)
      BY <1>4, ChangeIsTyped DEF SearchInv
    <2>2. PagesAreRooms'
      BY <2>1 DEF SearchInv, PagesAreRooms
    <2>3. ASSUME walk.at = "answered", NEW q \in walk.ids \cap fresh'
          PROVE  Matches(q, walk.search, walk.region)'
      <3>1. Matches(q, walk.search, walk.region)
        BY <2>1, <2>3 DEF SearchInv, FoundStillMatches
      <3>2. \A s, x : Matches(q, s, x)' <=> Matches(q, s, x)
        BY <2>1, <2>3
      <3>3. QED
        BY <2>1, <3>1, <3>2 DEF Matches, IsOpen, IsOwn, HasMember
    <2>4. FoundStillMatches'
      BY <2>1, <2>3 DEF FoundStillMatches
    <2>5. QED
      BY <2>1, <2>2, <2>4 DEF SearchInv
  <1>5. CASE UNCHANGED searchVars
    <2>1. SearchTyped' /\ PagesAreRooms'
      BY <1>5 DEF searchVars, SearchInv, SearchTyped, PagesAreRooms
    <2>2. FoundStillMatches'
      BY <1>5, MatchesStay DEF searchVars, SearchInv, FoundStillMatches
    <2>3. QED
      BY <2>1, <2>2 DEF SearchInv
  <1>6. QED
    BY <1>1, <1>2, <1>3, <1>4, <1>5 DEF SNext, RoomChange, RoomStep

-----------------------------------------------------------------------------
(* The theorems.                                                           *)

\* Pages, accounts and demanded positions stay within their bounds, a client
\* never holds what its room still demands, and what was found still matches
\* unless something has happened to it.
THEOREM SearchInvariant == SSpec => []SearchInv
  BY SearchInvInit, SearchInvStep, PTL DEF SSpec

\* No page is asked for beyond the number of rooms, no room is shown more often
\* than that, and whatever the handlers do to a room (append, drop or replace
\* demanded positions, move it, dissolve it) it stays a row the queries can read.
THEOREM SearchIsTyped == SSpec => []SearchTypeOK
  <1>1. SearchInv => SearchTypeOK
    <2> SUFFICES ASSUME SearchInv PROVE SearchTypeOK
      OBVIOUS
    <2>1. walk.at \in Steps /\ walk.page \in 1..Cardinality(Rooms)
      BY DEF SearchInv, SearchTyped, Walks
    <2>2. shown \in [Rooms -> 0..Cardinality(Rooms)]
      <3>1. Cardinality(Rooms) \in Nat
        BY CountsOfRooms
      <3>2. shown \in [Rooms -> Nat] /\ \A r \in Rooms : shown[r] <= walk.page
        BY <2>1, <3>1 DEF SearchInv, PagesAreRooms
      <3>3. \A r \in Rooms : shown[r] \in 0..Cardinality(Rooms)
        BY <2>1, <3>1, <3>2
      <3>4. QED
        BY <3>2, <3>3
    <2>3. QED
      BY <2>1, <2>2 DEF SearchInv, SearchTyped, RoomStates, RoomRecords, SearchTypeOK, Steps
  <1>2. QED
    BY <1>1, SearchInvariant, PTL

\* What a search shows can be used, whatever happens to other rooms and to the
\* account: findOneByIdAndRegion and the check of the demanded position let the
\* client apply to a room found open, for a position he searched, exactly as
\* long as his account is in the region it was loaded with, and getRoomDetails
\* lets him see the rooms he is a member of.
THEOREM FoundRoomsCanBeUsed == SSpec => []FoundRoomsAreThere
  <1>1. SearchInv => FoundRoomsAreThere
    <2> SUFFICES ASSUME SearchInv, walk.at = "answered", NEW r \in walk.ids \cap fresh
                 PROVE  IF walk.search.kind = "own"
                        THEN walk.search.status = "APPROVED" => SeesDetails(r)
                        ELSE /\ rooms[r].row = "NONE"
                             /\ walk.region = region <=>
                                    \E p \in Positions :
                                        /\ AcceptsApplication(r, p)
                                        /\ walk.search.positions # {} =>
                                               p \in walk.search.positions
      BY DEF FoundRoomsAreThere
    <2>1. /\ Matches(r, walk.search, walk.region)
          /\ r \in Rooms /\ walk.search.kind \in {"open", "own"}
          /\ rooms[r].demanded \in Orders
      BY DEF SearchInv, SearchTyped, FoundStillMatches, Walks, Queries, RoomStates, RoomRecords
    <2>2. CASE walk.search.kind = "own"
      BY <2>1, <2>2 DEF Matches, IsOwn, SeesDetails
    <2>3. CASE walk.search.kind = "open"
      <3>1. IsOpen(r, walk.search, walk.region)
        BY <2>1, <2>3 DEF Matches
      <3>2. rooms[r].demanded \in Seq(Positions) /\ rooms[r].demanded # <<>>
        BY <2>1, <3>1, OrderElim DEF IsOpen
      <3>3. 1 \in DOMAIN rooms[r].demanded /\ rooms[r].demanded[1] \in Positions
        BY <3>2
      <3>4. walk.region = region => AcceptsApplication(r, rooms[r].demanded[1])
        BY <3>1, <3>3 DEF IsOpen, AcceptsApplication
      <3>5. \A p : AcceptsApplication(r, p) => walk.region = region
        BY <3>1 DEF IsOpen, AcceptsApplication
      <3>6. QED
        BY <2>3, <3>1, <3>3, <3>4, <3>5 DEF IsOpen
    <2>4. QED
      BY <2>1, <2>2, <2>3
  <1>2. QED
    BY <1>1, SearchInvariant, PTL

-----------------------------------------------------------------------------
(* A quiet walk.  The list is sorted, no two rooms have the same place on  *)
(* it, and a page shows the places that follow those of the page before.   *)

List == Result(walk.search, region)
Place(r) == Rank(r, List)
PagesShown == IF walk.at = "answered" THEN walk.page ELSE walk.page - 1

ShownSoFar ==
    \A r \in Rooms :
        shown[r] = IF r \in List /\ Place(r) < PagesShown * walk.search.take THEN 1 ELSE 0

\* Unless something has changed, every query of the walk sees the same list,
\* and every room on the pages so far has been shown once.
QuietInv ==
    /\ drift \in Nat
    /\ walk.at # "idle" /\ walk.kept /\ drift = 0 =>
        /\ walk.at \in {"loaded", "counted", "picked", "answered"} => walk.region = region
        /\ walk.at \in {"counted", "picked", "answered"} => walk.count = Cardinality(List)
        /\ walk.at = "picked" => walk.ids = Page(List, walk.page, walk.search.take)
        /\ walk.at = "answered" =>
               (walk.next <=> HasNextPage(walk.page, walk.count, walk.search.take))
        /\ ShownSoFar

LEMMA CountIsNat ==
    ASSUME NEW S \in SUBSET Rooms
    PROVE  IsFiniteSet(S) /\ Cardinality(S) \in Nat
  BY FS_Subset, FS_CardinalityType

LEMMA CountOfUnion ==
    ASSUME NEW S \in SUBSET Rooms, NEW T \in SUBSET Rooms, S \cap T = {}
    PROVE  Cardinality(S \cup T) = Cardinality(S) + Cardinality(T)
  <1>1. /\ IsFiniteSet(S) /\ IsFiniteSet(T)
        /\ Cardinality(S) \in Nat /\ Cardinality(T) \in Nat
    BY CountIsNat
  <1>2. Cardinality(S \cap T) = 0
    BY FS_EmptySet
  <1>3. Cardinality(S \cup T) = Cardinality(S) + Cardinality(T) - Cardinality(S \cap T)
    BY <1>1, FS_Union
  <1>4. QED
    BY <1>1, <1>2, <1>3

LEMMA CountOfPart ==
    ASSUME NEW T \in SUBSET Rooms, NEW S \in SUBSET T
    PROVE  Cardinality(S) <= Cardinality(T)
  BY CountIsNat, FS_Subset

LEMMA CountInUnion ==
    ASSUME NEW S \in SUBSET Rooms, NEW T \in SUBSET Rooms, NEW U \in SUBSET (S \cup T)
    PROVE  Cardinality(U) <= Cardinality(S) + Cardinality(T)
  <1>1. PICK V \in SUBSET Rooms : V = T \ S
    OBVIOUS
  <1>2. S \cup V = S \cup T /\ S \cap V = {}
    BY <1>1
  <1>3. Cardinality(S \cup V) = Cardinality(S) + Cardinality(V)
    BY <1>2, CountOfUnion
  <1>4. Cardinality(V) <= Cardinality(T) /\ Cardinality(U) <= Cardinality(S \cup V)
    BY <1>1, <1>2, CountOfPart
  <1>5. /\ Cardinality(S) \in Nat /\ Cardinality(T) \in Nat /\ Cardinality(U) \in Nat
        /\ Cardinality(V) \in Nat
    BY CountIsNat
  <1>6. QED
    BY <1>3, <1>4, <1>5

LEMMA SkipsWholePages ==
    ASSUME NEW page \in Nat \ {0}, NEW take \in Nat \ {0}
    PROVE  /\ Skip(page, take) = (page - 1) * take
           /\ (page - 1) * take \in Nat
           /\ page * take \in Nat
           /\ page * take = (page - 1) * take + take
  <1>1. page - 1 \in Nat
    OBVIOUS
  <1>2. (page - 1) * take \in Nat /\ page * take \in Nat
    BY <1>1
  <1>3. page * take = (page - 1) * take + take
    OBVIOUS
  <1>4. QED
    BY <1>2, <1>3 DEF Skip

\* Fewer rooms stand before a room of the list than there are on it.
LEMMA RanksOfRooms ==
    ASSUME NEW R \in SUBSET Rooms, NEW r \in Rooms, rooms \in [Rooms -> RoomStates]
    PROVE  Rank(r, R) \in Nat /\ (r \in R => Rank(r, R) < Cardinality(R))
  <1> DEFINE before == {q \in R : Precedes(q, r)}
  <1>1. ~Precedes(r, r)
    BY IdsAssumption DEF Precedes, RoomStates, RoomRecords, Times
  <1>2. before \in SUBSET Rooms /\ r \notin before
    BY <1>1
  <1>3. Rank(r, R) = Cardinality(before)
    BY DEF Rank
  <1> HIDE DEF before
  <1>4. Cardinality(before) \in Nat /\ IsFiniteSet(before)
    BY <1>2, CountIsNat
  <1>5. ASSUME r \in R PROVE Cardinality(before) < Cardinality(R)
    <2>1. Cardinality(before \cup {r}) = Cardinality(before) + 1
      BY <1>2, <1>4, FS_AddElement
    <2>2. before \cup {r} \in SUBSET R
      BY <1>5 DEF before
    <2>3. Cardinality(before \cup {r}) <= Cardinality(R) /\ Cardinality(R) \in Nat
      BY <2>2, CountOfPart, CountIsNat
    <2>4. QED
      BY <1>4, <2>1, <2>3
  <1>6. QED
    BY <1>3, <1>4, <1>5

LEMMA ListIsOfRooms == List \in SUBSET Rooms
  BY DEF List, Result

\* Places depend on what is listed, and on its dates.
LEMMA PlacesStay ==
    ASSUME List' = List, \A r \in List : rooms'[r].date = rooms[r].date
    PROVE  \A r \in List : Place(r)' = Place(r)
  <1> SUFFICES ASSUME NEW r \in List PROVE Place(r)' = Place(r)
    OBVIOUS
  <1>1. \A q \in List : Precedes(q, r)' <=> Precedes(q, r)
    BY DEF Precedes
  <1>2. {q \in List : Precedes(q, r)}' = {q \in List : Precedes(q, r)}
    BY <1>1 DEF Precedes
  <1>3. QED
    BY <1>2 DEF Place, Rank

\* A step of the client that keeps the search leaves the list as it is.
LEMMA ListStays ==
    ASSUME UNCHANGED <<rooms, region, now>>, walk'.search = walk.search
    PROVE  List' = List /\ \A r \in List : Place(r)' = Place(r)
  <1>1. List' = List
    BY MatchesStay DEF List, Result
  <1>2. QED
    BY <1>1, PlacesStay

\* The list and its dates are what drift watches.
LEMMA QuietChange ==
    ASSUME SearchInv, SearchInv', drift \in Nat,
           RoomChange \/ UpdateAccount \/ TimePasses
    PROVE  /\ drift' \in Nat
           /\ drift' = 0 =>
                /\ drift = 0 /\ region' = region /\ List' = List
                /\ \A r \in List : rooms'[r].date = rooms[r].date
  <1> DEFINE moved == {r \in Rooms : Listed(r, walk.search)' # Listed(r, walk.search)}
             away == IF region' = region THEN 0 ELSE 1
  <1>1. Changing
    BY DEF RoomChange, RoomStep, UpdateAccount, TimePasses, CreateRoom, UpdateRoom, MembersChange,
           RemoveRoom, Apply, HandleApplication, LeaveRoom, RoomChanges
  <1>2. drift' = drift + Cardinality(moved) + away /\ walk' = walk
    BY <1>1 DEF Changing
  <1>3. Cardinality(moved) \in Nat /\ away \in 0..1
    BY CountIsNat
  <1> HIDE DEF away
  <1>4. drift' \in Nat
    BY <1>2, <1>3
  <1>5. ASSUME drift' = 0 PROVE /\ drift = 0 /\ region' = region /\ List' = List
                                /\ \A r \in List : rooms'[r].date = rooms[r].date
    <2>1. drift = 0 /\ Cardinality(moved) = 0 /\ away = 0
      BY <1>2, <1>3, <1>5
    <2>2. moved = {}
      BY <2>1, CountIsNat, FS_EmptySet
    <2>3. \A r \in Rooms : Listed(r, walk.search)' = Listed(r, walk.search)
      BY <2>2
    <2>4. \A r \in Rooms : rooms[r].date \in Nat /\ rooms'[r].date \in Nat
      BY DEF SearchInv, SearchTyped, RoomStates, RoomRecords, Times
    <2>5. \A r \in Rooms : /\ Matches(r, walk.search, region)' <=> Matches(r, walk.search, region)
                           /\ Matches(r, walk.search, region) => rooms'[r].date = rooms[r].date
      BY <2>3, <2>4 DEF Listed
    <2>6. List' = List /\ \A r \in List : rooms'[r].date = rooms[r].date
      BY <2>5 DEF List, Result
    <2>7. region' = region
      BY <2>1 DEF away
    <2>8. QED
      BY <2>1, <2>6, <2>7
  <1>6. QED
    BY <1>4, <1>5

LEMMA QuietInit == SInit => QuietInv
  <1> SUFFICES ASSUME SInit PROVE QuietInv
    OBVIOUS
  <1>1. walk.at = "idle" /\ drift = 0
    BY DEF SInit, Idle
  <1>2. QED
    BY <1>1 DEF QuietInv

LEMMA QuietStart ==
    ASSUME SearchInv, SearchInv', NEW s \in Searches, StartWalk(s)
    PROVE  QuietInv'
  <1>1. walk'.at = "asked" /\ walk'.page = 1 /\ walk'.search \in Queries
    <2>1. walk' = [Idle EXCEPT !.at = "asked", !.search = s]
      BY DEF StartWalk
    <2>2. QED
      BY <2>1 DEF Idle
  <1>2. shown' = [r \in Rooms |-> 0] /\ drift' = 0
    BY DEF StartWalk
  <1>3. PagesShown' * walk'.search.take = 0
    BY <1>1 DEF PagesShown, Queries
  <1>4. ASSUME NEW r \in Rooms PROVE ~(Place(r)' < 0)
    <2>1. Place(r)' = Cardinality({q \in List : Precedes(q, r)}')
      BY DEF Place, Rank
    <2>2. {q \in List : Precedes(q, r)}' \in SUBSET Rooms
      BY DEF List, Result
    <2>3. QED
      BY <2>1, <2>2, CountIsNat
  <1>5. ShownSoFar'
    BY <1>2, <1>3, <1>4 DEF ShownSoFar
  <1>6. QED
    BY <1>1, <1>2, <1>5 DEF QuietInv

\* What has been shown stays as it is when neither list nor pages change.
LEMMA ShownSoFarStays ==
    ASSUME ShownSoFar, List' = List, shown' = shown, PagesShown' = PagesShown,
           walk'.search = walk.search, \A r \in List : rooms'[r].date = rooms[r].date
    PROVE  ShownSoFar'
  <1>1. \A r \in List : Place(r)' = Place(r)
    BY PlacesStay
  <1>2. QED
    BY <1>1 DEF ShownSoFar

LEMMA QuietQueries ==
    ASSUME SearchInv, QuietInv, LoadUser \/ Count \/ PickIds
    PROVE  QuietInv'
  <1>1. /\ UNCHANGED <<rooms, region, now, shown, drift>>
        /\ walk'.search = walk.search /\ walk'.kept = walk.kept /\ walk'.page = walk.page
        /\ walk.at \in {"asked", "loaded", "counted"}
        /\ walk'.at \in {"loaded", "counted", "picked"}
    BY DEF LoadUser, Count, PickIds, SearchInv, SearchTyped, Walks
  <1>2. List' = List /\ PagesShown' = PagesShown
    BY <1>1, ListStays DEF PagesShown
  <1> SUFFICES ASSUME walk'.kept, drift' = 0
               PROVE  /\ walk'.region = region'
                      /\ walk'.at \in {"counted", "picked"} => walk'.count = Cardinality(List)'
                      /\ walk'.at = "picked" =>
                            walk'.ids = Page(List, walk.page, walk.search.take)'
                      /\ ShownSoFar'
    BY <1>1 DEF QuietInv
  <1>3. walk.at # "idle" /\ walk.kept /\ drift = 0
    BY <1>1
  <1>4. ShownSoFar
    BY <1>3 DEF QuietInv
  <1>5. ShownSoFar'
    BY <1>1, <1>2, <1>4, ShownSoFarStays
  <1>6. CASE LoadUser
    BY <1>5, <1>6 DEF LoadUser, SearchInv, SearchTyped, Walks
  <1>7. CASE Count
    <2>1. walk'.at = "counted" /\ walk'.region = walk.region
          /\ walk'.count = Cardinality(Result(walk.search, walk.region))
      BY <1>7 DEF Count, SearchInv, SearchTyped, Walks
    <2>2. walk.region = region
      BY <1>3, <1>7 DEF QuietInv, Count
    <2>3. QED
      BY <1>1, <1>2, <1>5, <2>1, <2>2 DEF List
  <1>8. CASE PickIds
    <2>1. walk.region = region /\ walk.count = Cardinality(List)
      BY <1>3, <1>8 DEF QuietInv, PickIds
    <2>2. walk' = [walk EXCEPT !.at = "picked",
                               !.ids = Page(List, walk.page, walk.search.take)]
      BY <1>8, <2>1 DEF PickIds, List
    <2>3. /\ walk'.at = "picked" /\ walk'.region = walk.region
          /\ walk'.ids = Page(List, walk.page, walk.search.take)
          /\ walk'.count = walk.count
      BY <2>2 DEF SearchInv, SearchTyped, Walks
    <2>4. Page(List, walk.page, walk.search.take)' = Page(List, walk.page, walk.search.take)
      BY <1>1, <1>2 DEF Page, Rank, Precedes, Skip
    <2>5. QED
      BY <1>1, <1>2, <1>5, <2>1, <2>3, <2>4
  <1>9. QED
    BY <1>6, <1>7, <1>8

LEMMA QuietAnswer ==
    ASSUME SearchInv, QuietInv, AnswerPage
    PROVE  QuietInv'
  <1> DEFINE found == {r \in walk.ids : Matches(r, walk.search, walk.region)}
             more == HasNextPage(walk.page, walk.count, walk.search.take)
  <1>1. /\ walk.at = "picked"
        /\ UNCHANGED <<rooms, region, now, drift>>
        /\ shown' = [r \in Rooms |-> shown[r] + IF r \in found THEN 1 ELSE 0]
        /\ walk' = [walk EXCEPT !.at = "answered", !.ids = found, !.next = more]
    BY DEF AnswerPage
  <1>2. /\ walk.search \in Queries /\ walk.page \in Nat \ {0}
        /\ walk.search.take \in Nat \ {0} /\ rooms \in [Rooms -> RoomStates]
    BY <1>1, CountsOfRooms DEF SearchInv, SearchTyped, Walks, Queries
  <1>3. /\ walk'.at = "answered" /\ walk'.region = walk.region
        /\ walk'.search = walk.search /\ walk'.page = walk.page /\ walk'.kept = walk.kept
        /\ walk'.count = walk.count /\ walk'.next = more
    BY <1>1 DEF SearchInv, SearchTyped, Walks
  <1>4. List' = List /\ \A r \in List : Place(r)' = Place(r)
    BY <1>1, <1>3, ListStays
  <1>5. PagesShown = walk.page - 1 /\ PagesShown' = walk.page
    BY <1>1, <1>3 DEF PagesShown
  <1> SUFFICES ASSUME walk.kept, drift = 0
               PROVE  /\ walk.region = region /\ walk.count = Cardinality(List)
                      /\ ShownSoFar'
    BY <1>1, <1>3, <1>4 DEF QuietInv, HasNextPage
  <1>6. /\ walk.region = region /\ walk.count = Cardinality(List)
        /\ walk.ids = Page(List, walk.page, walk.search.take)
        /\ ShownSoFar
    BY <1>1 DEF QuietInv
  <1>7. found = {r \in List : /\ Skip(walk.page, walk.search.take) <= Place(r)
                              /\ Place(r) < Skip(walk.page, walk.search.take) + walk.search.take}
    BY <1>6 DEF List, Result, Page, Place
  <1> HIDE DEF found, more
  <1>8. ASSUME NEW r \in Rooms
        PROVE  shown'[r] =
                 IF r \in List /\ Place(r) < walk.page * walk.search.take THEN 1 ELSE 0
    <2>1. PICK skip \in Nat, take \in Nat, place \in Nat :
            /\ skip = (walk.page - 1) * walk.search.take /\ take = walk.search.take
            /\ skip = Skip(walk.page, walk.search.take)
            /\ skip + take = walk.page * walk.search.take
            /\ place = Place(r)
      <3>1. PICK n \in Nat \ {0}, take \in Nat \ {0} :
                n = walk.page /\ take = walk.search.take
        BY <1>2
      <3>2. /\ Skip(n, take) = (n - 1) * take /\ (n - 1) * take \in Nat
            /\ (n - 1) * take + take = n * take
        BY SkipsWholePages
      <3>3. Place(r) \in Nat
        BY <1>2, RanksOfRooms, ListIsOfRooms DEF Place
      <3>4. QED
        BY <3>1, <3>2, <3>3
    <2>2. shown[r] = IF r \in List /\ place < skip THEN 1 ELSE 0
      BY <1>5, <1>6, <2>1 DEF ShownSoFar
    <2>3. r \in found <=> r \in List /\ skip <= place /\ place < skip + take
      BY <1>7, <2>1
    <2>4. shown'[r] = shown[r] + IF r \in found THEN 1 ELSE 0
      BY <1>1
    <2>5. shown'[r] = IF r \in List /\ place < skip + take THEN 1 ELSE 0
      BY <2>2, <2>3, <2>4
    <2>6. QED
      BY <2>1, <2>5
  <1>9. ShownSoFar'
    BY <1>3, <1>4, <1>5, <1>8 DEF ShownSoFar
  <1>10. QED
    BY <1>6, <1>9

\* The link changes the search unless there was no filter to drop.
LEMMA QuietNextPage ==
    ASSUME SearchInv, QuietInv, FollowNextLink \/ AskNextPage
    PROVE  QuietInv'
  <1>1. /\ walk.at = "answered" /\ walk'.at = "asked"
        /\ walk'.page = walk.page + 1
        /\ UNCHANGED <<rooms, region, now, shown, drift>>
    BY DEF FollowNextLink, AskNextPage, SearchInv, SearchTyped, Walks
  <1>2. walk'.kept => walk.kept /\ walk'.search = walk.search
    BY DEF FollowNextLink, AskNextPage, SearchInv, SearchTyped, Walks
  <1>3. PagesShown' = PagesShown
    BY <1>1, CountsOfRooms DEF PagesShown, SearchInv, SearchTyped, Walks
  <1> SUFFICES ASSUME walk'.kept, drift' = 0 PROVE ShownSoFar'
    BY <1>1 DEF QuietInv
  <1>4. ShownSoFar
    BY <1>1, <1>2 DEF QuietInv
  <1>5. List' = List
    BY <1>1, <1>2, ListStays
  <1>6. QED
    BY <1>1, <1>2, <1>3, <1>4, <1>5, ShownSoFarStays

LEMMA QuietChanges ==
    ASSUME SearchInv, SearchInv', QuietInv, RoomChange \/ UpdateAccount \/ TimePasses
    PROVE  QuietInv'
  <1>1. walk' = walk /\ shown' = shown
    BY ChangeIsTyped DEF SearchInv
  <1>2. drift' \in Nat
    BY QuietChange DEF QuietInv
  <1> SUFFICES ASSUME walk.at # "idle", walk.kept, drift' = 0
               PROVE  /\ walk.at \in {"loaded", "counted", "picked", "answered"} =>
                             walk.region = region'
                      /\ walk.at \in {"counted", "picked", "answered"} =>
                             walk.count = Cardinality(List)'
                      /\ walk.at = "picked" =>
                             walk.ids = Page(List, walk.page, walk.search.take)'
                      /\ walk.at = "answered" =>
                             (walk.next <=> HasNextPage(walk.page, walk.count, walk.search.take))
                      /\ ShownSoFar'
    BY <1>1, <1>2 DEF QuietInv, HasNextPage
  <1>3. /\ drift = 0 /\ region' = region /\ List' = List
        /\ \A r \in List : rooms'[r].date = rooms[r].date
    BY QuietChange DEF QuietInv
  <1>4. /\ walk.at \in {"loaded", "counted", "picked", "answered"} => walk.region = region
        /\ walk.at \in {"counted", "picked", "answered"} => walk.count = Cardinality(List)
        /\ walk.at = "picked" => walk.ids = Page(List, walk.page, walk.search.take)
        /\ walk.at = "answered" =>
               (walk.next <=> HasNextPage(walk.page, walk.count, walk.search.take))
        /\ ShownSoFar
    BY <1>3 DEF QuietInv
  <1>5. PagesShown' = PagesShown
    BY <1>1 DEF PagesShown
  <1>6. ShownSoFar'
    BY <1>1, <1>3, <1>4, <1>5, ShownSoFarStays
  <1>7. Page(List, walk.page, walk.search.take)' = Page(List, walk.page, walk.search.take)
    <2>1. \A r \in List : Place(r)' = Place(r)
      BY <1>3, PlacesStay
    <2>2. /\ Page(List, walk.page, walk.search.take)' =
                {r \in List' : /\ Skip(walk.page, walk.search.take)' <= Place(r)'
                               /\ Place(r)' < Skip(walk.page, walk.search.take)'
                                                + walk'.search.take}
          /\ Page(List, walk.page, walk.search.take) =
                {r \in List : /\ Skip(walk.page, walk.search.take) <= Place(r)
                              /\ Place(r) < Skip(walk.page, walk.search.take)
                                                + walk.search.take}
      BY DEF Page, Place
    <2>3. Skip(walk.page, walk.search.take)' = Skip(walk.page, walk.search.take)
      BY <1>1 DEF Skip
    <2>4. QED
      BY <1>1, <1>3, <2>1, <2>2, <2>3
  <1>8. QED
    BY <1>3, <1>4, <1>6, <1>7

LEMMA QuietStep == SearchInv /\ SearchInv' /\ QuietInv /\ [SNext]_searchVars => QuietInv'
  <1> SUFFICES ASSUME SearchInv, SearchInv', QuietInv, [SNext]_searchVars PROVE QuietInv'
    OBVIOUS
  <1>1. CASE SearchLeagueRooms \/ SearchUserRooms
    BY <1>1, QuietStart DEF SearchLeagueRooms, SearchUserRooms
  <1>2. CASE LoadUser \/ Count \/ PickIds
    BY <1>2, QuietQueries
  <1>3. CASE AnswerPage
    BY <1>3, QuietAnswer
  <1>4. CASE FollowNextLink \/ AskNextPage
    BY <1>4, QuietNextPage
  <1>5. CASE RoomChange \/ UpdateAccount \/ TimePasses
    BY <1>5, QuietChanges
  <1>6. CASE UNCHANGED searchVars
    <2>1. /\ UNCHANGED <<rooms, region, now, walk, shown, drift>>
          /\ walk'.search = walk.search
      BY <1>6 DEF searchVars
    <2>2. List' = List /\ PagesShown' = PagesShown
      BY <2>1, ListStays DEF PagesShown
    <2>3. ShownSoFar => ShownSoFar'
      BY <2>1, <2>2, ShownSoFarStays
    <2>4. Page(List, walk.page, walk.search.take)' = Page(List, walk.page, walk.search.take)
      BY <2>1, <2>2 DEF Page, Rank, Precedes, Skip
    <2>5. QED
      BY <2>1, <2>2, <2>3, <2>4 DEF QuietInv, HasNextPage
  <1>7. QED
    BY <1>1, <1>2, <1>3, <1>4, <1>5, <1>6 DEF SNext, RoomChange, RoomStep

\* The last page holds the last row.
LEMMA PagesAreEnough ==
    ASSUME NEW count \in Nat, NEW take \in Nat \ {0}, NEW page \in Nat,
           ~HasNextPage(page, count, take)
    PROVE  count <= page * take
  <1> DEFINE pages == (count + take - 1) \div take
  <1>1. pages \in Nat /\ count + take - 1 < take * pages + take
    OBVIOUS
  <1>2. pages <= page
    BY <1>1 DEF HasNextPage, PageCount
  <1> HIDE DEF pages
  <1>3. take * pages <= take * page /\ take * pages \in Nat /\ take * page \in Nat
    BY <1>1, <1>2
  <1>4. take * page = page * take
    OBVIOUS
  <1>5. QED
    BY <1>1, <1>3, <1>4

LEMMA QuietInvariant == SSpec => []QuietInv
  BY QuietInit, QuietStep, SearchInvariant, PTL DEF SSpec

\* paginate() and the links of the page DTOs, taken together: whoever asks for
\* page after page until there is no next one is shown every room that the
\* search finds once, and no other room, whatever the page size, also among
\* rooms of the same date, and whatever happens to rooms off the list.
THEOREM QuietWalksShowEveryRoom == SSpec => []QuietWalkShowsEveryRoom
  <1>1. SearchInv /\ QuietInv => QuietWalkShowsEveryRoom
    <2> SUFFICES ASSUME SearchInv, QuietInv, Complete, drift = 0, NEW r \in Rooms
                 PROVE  shown[r] = IF r \in List THEN 1 ELSE 0
      BY DEF QuietWalkShowsEveryRoom, List
    <2>1. walk.at = "answered" /\ ~walk.next /\ walk.kept
      BY DEF Complete
    <2>2. /\ walk.search.take \in Nat \ {0} /\ walk.page \in Nat
          /\ rooms \in [Rooms -> RoomStates]
      BY <2>1, CountsOfRooms DEF SearchInv, SearchTyped, Walks, Queries
    <2>3. /\ ~HasNextPage(walk.page, walk.count, walk.search.take)
          /\ walk.count = Cardinality(List)
          /\ shown[r] = IF r \in List /\ Place(r) < walk.page * walk.search.take
                        THEN 1 ELSE 0
      BY <2>1 DEF QuietInv, ShownSoFar, PagesShown
    <2>4. PICK end \in Nat : end = walk.page * walk.search.take
      BY <2>2
    <2>5. Cardinality(List) \in Nat /\ Cardinality(List) <= end
      <3>1. Cardinality(List) \in Nat
        BY ListIsOfRooms, CountIsNat
      <3>2. QED
        BY <2>2, <2>3, <2>4, <3>1, PagesAreEnough
    <2>6. Place(r) \in Nat /\ (r \in List => Place(r) < Cardinality(List))
      BY <2>2, ListIsOfRooms, RanksOfRooms DEF Place
    <2>7. QED
      BY <2>3, <2>4, <2>5, <2>6
  <1>2. QED
    BY <1>1, SearchInvariant, QuietInvariant, PTL

-----------------------------------------------------------------------------
(* A walk while the list changes.  A room is shown by the page its place   *)
(* falls on.  Every change moves the place of any room by one at most, and *)
(* no two rooms have the same place: so it moves one room at most over the *)
(* edge of the pages that have been picked.                                *)

\* A picked page counts as shown: no change can keep a steady room off it.
Seen(r) == shown[r] + IF walk.at = "picked" /\ r \in walk.ids THEN 1 ELSE 0
Edge == (IF walk.at \in {"picked", "answered"} THEN walk.page ELSE walk.page - 1)
            * walk.search.take

\* Steady rooms on the wrong side of the edge, and what was shown again.
Missed == {r \in steady : Seen(r) = 0 /\ Place(r) < Edge}
Again == {r \in steady : Seen(r) > 0 /\ Edge <= Place(r)}
Repeats == {x \in steady \X (2..Cardinality(Rooms)) : x[2] <= Seen(x[1])}

\* By how much the list is longer than the count that ends the walk.
Uncounted ==
    IF walk.at \in {"counted", "picked", "answered"} /\ walk.count < Cardinality(List)
    THEN Cardinality(List) - walk.count ELSE 0

\* There is no steady room left once the account has moved.
DriftInv ==
    /\ drift \in Nat
    /\ walk.at # "idle" /\ walk.kept /\ steady # {} =>
        /\ steady \subseteq List
        /\ walk.at \in {"loaded", "counted", "picked", "answered"} => walk.region = region
        /\ walk.at = "answered" =>
               (walk.next <=> HasNextPage(walk.page, walk.count, walk.search.take))
        /\ Cardinality(Missed) + Uncounted <= drift
        /\ Cardinality(Repeats) + Cardinality(Again) <= drift

LEMMA EarliestExists ==
    ASSUME NEW N \in SUBSET Nat, N # {}
    PROVE  \E m \in N : \A n \in N : m <= n
  <1> DEFINE R == {x \in Nat \X Nat : x[1] < x[2]}
  <1>1. IsWellFoundedOn(R, Nat)
    BY NatLessThanWellFounded DEF OpToRel
  <1>2. \A m, n \in Nat : <<n, m>> \in R <=> n < m
    OBVIOUS
  <1> HIDE DEF R
  <1>3. PICK m \in N : \A n \in N : ~(<<n, m>> \in R)
    BY <1>1, WFMin
  <1>4. ASSUME NEW n \in N PROVE m <= n
    <2>1. m \in Nat /\ n \in Nat /\ ~(n < m)
      BY <1>2, <1>3
    <2>2. QED
      BY <2>1
  <1>5. QED
    BY <1>4

\* An order of pairs has a least room.
Ordering(O, C) ==
    /\ \A q \in C : <<q, q>> \notin O
    /\ \A p, q, r \in C : <<p, q>> \in O /\ <<q, r>> \in O => <<p, r>> \in O
    /\ \A q, r \in C : q = r \/ <<q, r>> \in O \/ <<r, q>> \in O

LEMMA LeastExists ==
    ASSUME NEW C \in SUBSET Rooms, C # {}, NEW O, Ordering(O, C)
    PROVE  \E r \in C : \A q \in C \ {r} : <<r, q>> \in O
  <1> DEFINE Below(r) == {q \in C : <<q, r>> \in O}
             N == {Cardinality(Below(r)) : r \in C}
  <1>1. \A r \in C : \A q : q \in Below(r) <=> q \in C /\ <<q, r>> \in O
    OBVIOUS
  <1>2. ASSUME NEW r \in C
        PROVE  /\ Below(r) \in SUBSET Rooms /\ IsFiniteSet(Below(r))
               /\ Cardinality(Below(r)) \in Nat
    <2>1. Below(r) \in SUBSET Rooms
      OBVIOUS
    <2>2. QED
      BY <2>1, CountIsNat
  <1> HIDE DEF Below
  <1>3. N \in SUBSET Nat /\ N # {}
    BY <1>2
  <1>4. PICK m \in N : \A n \in N : m <= n
    BY <1>3, EarliestExists
  <1>5. PICK r \in C : m = Cardinality(Below(r))
    OBVIOUS
  <1>6. ASSUME NEW q \in C \ {r} PROVE <<r, q>> \in O
    <2> SUFFICES ASSUME <<q, r>> \in O PROVE FALSE
      BY <1>6 DEF Ordering
    <2>1. Below(q) \cup {q} \in SUBSET Below(r) /\ q \notin Below(q)
      <3>1. /\ <<q, q>> \notin O
            /\ \A p \in C : <<p, q>> \in O => <<p, r>> \in O
        BY DEF Ordering
      <3>2. \A p \in Below(q) : p \in Below(r)
        BY <1>1, <3>1
      <3>3. q \in Below(r) /\ q \notin Below(q)
        BY <1>1, <3>1
      <3>4. QED
        BY <3>2, <3>3
    <2>2. m <= Cardinality(Below(q))
      BY <1>4
    <2>3. Cardinality(Below(q) \cup {q}) = Cardinality(Below(q)) + 1
      BY <1>2, <2>1, FS_AddElement
    <2>4. Cardinality(Below(q) \cup {q}) <= Cardinality(Below(r))
      BY <1>2, <2>1, CountOfPart
    <2>5. QED
      BY <1>2, <1>5, <2>2, <2>3, <2>4
  <1>7. QED
    BY <1>6

\* The order of the list, for any dates, and the rooms before one.
Sooner(f, q, r) ==
    \/ f[q] < f[r]
    \/ f[q] = f[r] /\ q < r
Lower(R, f, r) == {q \in R : Sooner(f, q, r)}

LEMMA SoonerOrders ==
    ASSUME NEW f \in [Rooms -> Times]
    PROVE  /\ \A q \in Rooms : ~Sooner(f, q, q)
           /\ \A p, q, r \in Rooms : Sooner(f, p, q) /\ Sooner(f, q, r) => Sooner(f, p, r)
           /\ \A q, r \in Rooms : q = r \/ Sooner(f, q, r) \/ Sooner(f, r, q)
  <1>1. \A r \in Rooms : f[r] \in Int /\ r \in Int
    BY IdsAssumption DEF Times
  <1>2. QED
    BY <1>1 DEF Sooner

\* Any rooms have a first and a last one.
LEMMA ExtremesExist ==
    ASSUME NEW C \in SUBSET Rooms, C # {}, NEW f \in [Rooms -> Times]
    PROVE  /\ \E r \in C : \A q \in C \ {r} : Sooner(f, r, q)
           /\ \E r \in C : \A q \in C \ {r} : Sooner(f, q, r)
  <1>1. /\ \A q \in C : ~Sooner(f, q, q)
        /\ \A p, q, r \in C : Sooner(f, p, q) /\ Sooner(f, q, r) => Sooner(f, p, r)
        /\ \A q, r \in C : q = r \/ Sooner(f, q, r) \/ Sooner(f, r, q)
    BY SoonerOrders
  <1>2. \E r \in C : \A q \in C \ {r} : Sooner(f, r, q)
    <2> DEFINE O == {x \in C \X C : Sooner(f, x[1], x[2])}
    <2>1. \A q, r \in C : <<q, r>> \in O <=> Sooner(f, q, r)
      OBVIOUS
    <2> HIDE DEF O
    <2>2. Ordering(O, C)
      BY <1>1, <2>1 DEF Ordering
    <2>3. PICK r \in C : \A q \in C \ {r} : <<r, q>> \in O
      BY <2>2, LeastExists
    <2>4. QED
      BY <2>1, <2>3
  <1>3. \E r \in C : \A q \in C \ {r} : Sooner(f, q, r)
    <2> DEFINE O == {x \in C \X C : Sooner(f, x[2], x[1])}
    <2>1. \A q, r \in C : <<q, r>> \in O <=> Sooner(f, r, q)
      OBVIOUS
    <2> HIDE DEF O
    <2>2. Ordering(O, C)
      BY <1>1, <2>1 DEF Ordering
    <2>3. PICK r \in C : \A q \in C \ {r} : <<r, q>> \in O
      BY <2>2, LeastExists
    <2>4. QED
      BY <2>1, <2>3
  <1>4. QED
    BY <1>2, <1>3

\* There are no more rooms from rank x on than rows from x on.
LEMMA RoomsFromRank ==
    ASSUME NEW R \in SUBSET Rooms, NEW C \in SUBSET R, NEW f \in [Rooms -> Times], NEW x \in Nat,
           \A r \in C : x <= Cardinality(Lower(R, f, r)), C # {}
    PROVE  x + Cardinality(C) <= Cardinality(R)
  <1>1. PICK low \in C : \A q \in C \ {low} : Sooner(f, low, q)
    BY ExtremesExist
  <1>2. PICK L \in SUBSET Rooms : L = Lower(R, f, low)
    BY DEF Lower
  <1>3. L \cap C = {} /\ L \cup C \in SUBSET R
    <2>1. ASSUME NEW q \in C PROVE ~Sooner(f, q, low)
      BY <1>1, SoonerOrders
    <2>2. QED
      BY <1>2, <2>1 DEF Lower
  <1>4. Cardinality(L \cup C) = Cardinality(L) + Cardinality(C)
    BY <1>3, CountOfUnion
  <1>5. /\ Cardinality(L) \in Nat /\ Cardinality(C) \in Nat /\ Cardinality(R) \in Nat
        /\ Cardinality(L \cup C) <= Cardinality(R)
    BY <1>3, CountIsNat, CountOfPart
  <1>6. x <= Cardinality(L)
    BY <1>2
  <1>7. QED
    BY <1>4, <1>5, <1>6

\* Rooms of C fall from rank x or beyond to below x, and only rooms of G went
\* or moved.
Crosses(C, A, B, f, g, x) ==
    \A r \in C : /\ g[r] = f[r]
                 /\ x <= Cardinality(Lower(A, f, r))
                 /\ Cardinality(Lower(B, g, r)) < x
KeepsAllBut(G, A, B, f, g) == \A q \in A \ G : q \in B /\ g[q] = f[q]

\* When a list A becomes a list B, no more rooms fall from rank x or beyond to
\* below x than rooms of A went or moved.
LEMMA RoomsCrossing ==
    ASSUME NEW A \in SUBSET Rooms, NEW B \in SUBSET Rooms,
           NEW f \in [Rooms -> Times], NEW g \in [Rooms -> Times], NEW x \in Nat,
           NEW C \in SUBSET A, Crosses(C, A, B, f, g, x),
           NEW G \in SUBSET Rooms, KeepsAllBut(G, A, B, f, g)
    PROVE  Cardinality(C) <= Cardinality(G)
  <1> USE DEF Crosses, KeepsAllBut
  <1>0. Cardinality(C) \in Nat /\ Cardinality(G) \in Nat
    BY CountIsNat
  <1>1. CASE C = {}
    BY <1>0, <1>1, FS_EmptySet
  <1>2. CASE C # {}
    <2>1. PICK top \in C : \A q \in C \ {top} : Sooner(f, q, top)
      BY <1>2, ExtremesExist
    <2>2. PICK R \in SUBSET Rooms : R = Lower(A, f, top) \cup {top}
      BY DEF Lower
    <2>3. C \in SUBSET R
      BY <2>1, <2>2 DEF Lower
    <2>4. ASSUME NEW r \in C PROVE x <= Cardinality(Lower(R, f, r))
      <3>1. r = top \/ Sooner(f, r, top)
        BY <2>1
      <3>2. \A q \in A : Sooner(f, q, r) => q \in R
        BY <2>2, <3>1, SoonerOrders DEF Lower
      <3>3. Lower(R, f, r) = Lower(A, f, r)
        BY <2>2, <3>2 DEF Lower
      <3>4. QED
        BY <3>3
    <2>5. x + Cardinality(C) <= Cardinality(R)
      BY <1>2, <2>3, <2>4, RoomsFromRank
    <2>6. R \in SUBSET ((Lower(B, g, top) \cup G) \cup {top})
      BY <2>2 DEF Lower, Sooner
    <2>7. PICK L \in SUBSET Rooms : L = Lower(B, g, top)
      BY DEF Lower
    <2>8. Cardinality(R) <= Cardinality(L) + Cardinality(G) + 1
      <3>1. PICK GL \in SUBSET Rooms : GL = G \ L
        OBVIOUS
      <3>2. Cardinality(L \cup GL) = Cardinality(L) + Cardinality(GL)
        BY <3>1, CountOfUnion
      <3>3. Cardinality(GL) <= Cardinality(G)
        BY <3>1, CountOfPart
      <3>4. PICK LG \in SUBSET Rooms : LG = L \cup GL
        OBVIOUS
      <3>5. Cardinality(LG \cup {top}) <= Cardinality(LG) + 1
        <4>1. IsFiniteSet(LG) /\ Cardinality(LG) \in Nat
          BY CountIsNat
        <4>2. Cardinality(LG \cup {top}) =
                IF top \in LG THEN Cardinality(LG) ELSE Cardinality(LG) + 1
          BY <4>1, FS_AddElement
        <4>3. QED
          BY <4>1, <4>2
      <3>6. R \in SUBSET (LG \cup {top}) /\ LG \cup {top} \in SUBSET Rooms
        BY <2>6, <2>7, <3>1, <3>4
      <3>7. Cardinality(R) <= Cardinality(LG \cup {top})
        BY <3>6, CountOfPart
      <3>8. /\ Cardinality(R) \in Nat /\ Cardinality(L) \in Nat /\ Cardinality(LG) \in Nat
            /\ Cardinality(GL) \in Nat /\ Cardinality(LG \cup {top}) \in Nat
        BY <3>6, CountIsNat
      <3>9. QED
        BY <1>0, <3>2, <3>3, <3>4, <3>5, <3>7, <3>8
    <2>9. Cardinality(L) < x /\ Cardinality(L) \in Nat /\ Cardinality(R) \in Nat
      BY <2>7, CountIsNat
    <2>10. QED
      BY <1>0, <2>5, <2>8, <2>9
  <1>3. QED
    BY <1>1, <1>2

PageEnd(page, take) == page * take

\* What the bounds are made of.
LEMMA DriftTypes ==
    ASSUME SearchInv
    PROVE  /\ \A r \in Rooms : shown[r] \in Nat /\ Place(r) \in Nat /\ Seen(r) \in Nat
           /\ Uncounted \in Nat
           /\ Missed \in SUBSET Rooms /\ Again \in SUBSET Rooms
           /\ Cardinality(Missed) \in Nat /\ Cardinality(Again) \in Nat
           /\ IsFiniteSet(Repeats) /\ Cardinality(Repeats) \in Nat
           /\ walk.at # "idle" => Edge \in Nat
  <1>1. steady \in SUBSET Rooms /\ shown \in [Rooms -> Nat]
    BY DEF SearchInv, SearchTyped, PagesAreRooms
  <1>2. \A r \in Rooms : shown[r] \in Nat /\ Place(r) \in Nat /\ Seen(r) \in Nat
    <2>1. \A r \in Rooms : Place(r) \in Nat
      BY ListIsOfRooms, RanksOfRooms DEF Place, SearchInv, SearchTyped
    <2>2. QED
      BY <1>1, <2>1 DEF Seen
  <1>3. Uncounted \in Nat
    <2>1. Cardinality(List) \in Nat
      BY ListIsOfRooms, CountIsNat
    <2>2. walk.count \in Nat
      BY CountsOfRooms DEF SearchInv, SearchTyped, Walks
    <2>3. QED
      BY <2>1, <2>2 DEF Uncounted
  <1>4. /\ Missed \in SUBSET Rooms /\ Again \in SUBSET Rooms
        /\ Cardinality(Missed) \in Nat /\ Cardinality(Again) \in Nat
    <2>1. Missed \in SUBSET Rooms /\ Again \in SUBSET Rooms
      BY <1>1 DEF Missed, Again
    <2>2. QED
      BY <2>1, CountIsNat
  <1>5. IsFiniteSet(Repeats)
    <2>1. IsFiniteSet(2..Cardinality(Rooms))
      BY CountsOfRooms, FS_Interval
    <2>2. IsFiniteSet(steady \X (2..Cardinality(Rooms)))
      BY <1>1, <2>1, CountIsNat, FS_Product
    <2>3. Repeats \in SUBSET (steady \X (2..Cardinality(Rooms)))
      BY DEF Repeats
    <2>4. QED
      BY <2>2, <2>3, FS_Subset
  <1>6. walk.at # "idle" => Edge \in Nat
    <2>1. ASSUME walk.at # "idle" PROVE Edge \in Nat
      <3>1. walk.search.take \in Nat \ {0} /\ walk.page \in Nat \ {0}
        BY <2>1, CountsOfRooms DEF SearchInv, SearchTyped, Walks, Queries
      <3>2. QED
        BY <3>1, SkipsWholePages DEF Edge
    <2>2. QED
      BY <2>1
  <1>7. QED
    BY <1>2, <1>3, <1>4, <1>5, <1>6, FS_CardinalityType

DriftBounds ==
    /\ Cardinality(Missed) + Uncounted <= drift
    /\ Cardinality(Repeats) + Cardinality(Again) <= drift

\* A step that moves neither rooms nor the edge.
LEMMA DriftBoundsStay ==
    ASSUME SearchInv, SearchInv', drift \in Nat, DriftBounds,
           UNCHANGED <<rooms, steady, drift>>, steady \subseteq List, List' = List, Edge' = Edge,
           \A r \in steady : Seen(r)' = Seen(r),
           Uncounted' <= Uncounted
    PROVE  DriftBounds'
  <1>1. \A r \in steady : Place(r)' = Place(r)
    BY PlacesStay
  <1>2. steady \in SUBSET Rooms
    BY DEF SearchInv, SearchTyped
  <1>3. Missed' = Missed /\ Again' = Again
    BY <1>1, <1>2 DEF Missed, Again
  <1>4. Repeats' = Repeats
    <2>1. \A x \in steady \X (2..Cardinality(Rooms)) : Seen(x[1])' = Seen(x[1])
      OBVIOUS
    <2>2. QED
      BY <2>1 DEF Repeats
  <1>5. /\ Cardinality(Missed) \in Nat /\ Uncounted \in Nat /\ Uncounted' \in Nat
    <2>1. Uncounted' \in Nat
      <3>1. Cardinality(List') \in Nat /\ walk'.count \in Nat
        BY ListIsOfRooms, CountIsNat, CountsOfRooms DEF SearchInv, SearchTyped, Walks
      <3>2. QED
        BY <3>1 DEF Uncounted
    <2>2. QED
      BY <2>1, DriftTypes
  <1>6. QED
    BY <1>3, <1>4, <1>5 DEF DriftBounds

LEMMA DriftStart ==
    ASSUME SearchInv, SearchInv', NEW s \in Searches, StartWalk(s)
    PROVE  DriftInv'
  <1>1. walk'.at = "asked" /\ walk'.page = 1 /\ walk'.search = s /\ s \in Queries
    <2>1. walk' = [Idle EXCEPT !.at = "asked", !.search = s]
      BY DEF StartWalk
    <2>2. QED
      BY <2>1 DEF Idle
  <1>2. /\ shown' = [r \in Rooms |-> 0] /\ drift' = 0
        /\ steady' = Result(s, region)
        /\ UNCHANGED <<rooms, region, now>>
    BY DEF StartWalk
  <1>3. steady' = List'
    BY <1>1, <1>2, MatchesStay DEF List, Result
  <1>4. Edge' = 0 /\ Uncounted' = 0 /\ \A r \in Rooms : Seen(r)' = 0
    BY <1>1, <1>2 DEF Edge, Uncounted, Seen, Queries
  <1>5. Missed' = {} /\ Again' = {} /\ Repeats' = {}
    <2>1. steady' \in SUBSET Rooms
      BY <1>2, CountsOfRooms
    <2>2. \A r \in Rooms : Place(r)' \in Nat
      <3>1. \A r \in Rooms : Place(r)' = Cardinality({q \in List : Precedes(q, r)}')
        BY DEF Place, Rank
      <3>2. \A r \in Rooms : {q \in List : Precedes(q, r)}' \in SUBSET Rooms
        BY DEF List, Result
      <3>3. QED
        BY <3>1, <3>2, CountIsNat
    <2>3. Missed' = {} /\ Again' = {}
      BY <1>4, <2>1, <2>2 DEF Missed, Again
    <2>4. Repeats' = {}
      BY <1>4, <2>1 DEF Repeats
    <2>5. QED
      BY <2>3, <2>4
  <1>6. Cardinality({}) = 0
    BY FS_EmptySet
  <1>7. QED
    BY <1>1, <1>2, <1>3, <1>4, <1>5, <1>6 DEF DriftInv

\* Any step of the client but the first and the choice of the rows.
LEMMA DriftClient ==
    ASSUME SearchInv, SearchInv', DriftInv,
           LoadUser \/ Count \/ AnswerPage \/ FollowNextLink \/ AskNextPage
    PROVE  DriftInv'
  <1>1. UNCHANGED <<rooms, region, now, steady, drift>>
    BY DEF LoadUser, Count, AnswerPage, FollowNextLink, AskNextPage
  <1>2. /\ walk.at # "idle"
        /\ walk'.kept => walk.kept /\ walk'.search = walk.search
    BY DEF LoadUser, Count, AnswerPage, FollowNextLink, AskNextPage, SearchInv, SearchTyped, Walks
  <1> SUFFICES ASSUME walk'.kept, steady # {}
               PROVE  /\ steady \subseteq List'
                      /\ walk'.at \in {"loaded", "counted", "picked", "answered"} =>
                             walk'.region = region
                      /\ walk'.at = "answered" =>
                             (walk'.next <=>
                                  HasNextPage(walk'.page, walk'.count, walk'.search.take))
                      /\ DriftBounds'
    BY <1>1 DEF DriftInv, DriftBounds, HasNextPage
  <1>3. /\ drift \in Nat /\ DriftBounds
        /\ steady \subseteq List
        /\ walk.at \in {"loaded", "counted", "picked", "answered"} => walk.region = region
    BY <1>2 DEF DriftInv, DriftBounds
  <1>4. List' = List
    BY <1>1, <1>2, ListStays
  <1>5. steady \subseteq List'
    BY <1>3, <1>4
  <1>6. steady \in SUBSET Rooms /\ walk \in Walks
    BY DEF SearchInv, SearchTyped
  <1>7. CASE LoadUser
    <2>1. /\ walk.at = "asked" /\ walk'.at = "loaded" /\ walk'.region = region
          /\ walk'.page = walk.page /\ shown' = shown
      BY <1>6, <1>7 DEF LoadUser, Walks
    <2>2. /\ Edge' = Edge /\ Uncounted' <= Uncounted
          /\ \A r \in steady : Seen(r)' = Seen(r)
      BY <1>2, <2>1 DEF Edge, Uncounted, Seen
    <2>3. QED
      BY <1>1, <1>3, <1>4, <1>5, <2>1, <2>2, DriftBoundsStay
  <1>8. CASE Count
    <2>1. /\ walk.at = "loaded" /\ walk'.at = "counted" /\ walk'.region = walk.region
          /\ walk'.page = walk.page /\ shown' = shown
          /\ walk'.count = Cardinality(Result(walk.search, walk.region))
      BY <1>6, <1>8 DEF Count, Walks
    <2>2. walk'.count = Cardinality(List) /\ Cardinality(List) \in Nat
      BY <1>3, <2>1, ListIsOfRooms, CountIsNat DEF List
    <2>3. /\ Edge' = Edge /\ Uncounted' <= Uncounted
          /\ \A r \in steady : Seen(r)' = Seen(r)
      BY <1>2, <1>4, <2>1, <2>2 DEF Edge, Uncounted, Seen
    <2>4. QED
      BY <1>1, <1>3, <1>4, <1>5, <2>1, <2>3, DriftBoundsStay
  <1>9. CASE AnswerPage
    <2> DEFINE found == {r \in walk.ids : Matches(r, walk.search, walk.region)}
               more == HasNextPage(walk.page, walk.count, walk.search.take)
    <2>1. /\ walk.at = "picked"
          /\ shown' = [r \in Rooms |-> shown[r] + IF r \in found THEN 1 ELSE 0]
          /\ walk' = [walk EXCEPT !.at = "answered", !.ids = found, !.next = more]
      BY <1>9 DEF AnswerPage
    <2>2. /\ walk'.at = "answered" /\ walk'.region = walk.region /\ walk'.next = more
          /\ walk'.page = walk.page /\ walk'.count = walk.count
      BY <1>6, <2>1 DEF Walks
    <2>3. walk.region = region
      BY <1>3, <2>1
    <2>4. \A r \in steady : r \in found <=> r \in walk.ids
      BY <1>3, <2>3 DEF List, Result
    <2> HIDE DEF found, more
    <2>5. shown \in [Rooms -> Nat]
      BY DEF SearchInv, PagesAreRooms
    <2>6. \A r \in steady : Seen(r)' = Seen(r)
      BY <1>6, <2>1, <2>2, <2>4, <2>5 DEF Seen
    <2>7. Edge' = Edge /\ Uncounted' = Uncounted
      BY <1>2, <1>4, <2>1, <2>2 DEF Edge, Uncounted
    <2>8. Uncounted' <= Uncounted
      BY <2>7, DriftTypes
    <2>9. DriftBounds'
      BY <1>1, <1>3, <1>4, <2>6, <2>7, <2>8, DriftBoundsStay
    <2>10. walk'.next <=> HasNextPage(walk'.page, walk'.count, walk'.search.take)
      BY <1>2, <2>2 DEF more
    <2>11. QED
      BY <1>5, <2>2, <2>3, <2>9, <2>10
  <1>10. CASE FollowNextLink \/ AskNextPage
    <2>1. /\ walk.at = "answered" /\ walk'.at = "asked" /\ walk'.page = walk.page + 1
          /\ shown' = shown
      BY <1>6, <1>10 DEF FollowNextLink, AskNextPage, Walks
    <2>2. walk.page \in Nat
      BY <1>6, CountsOfRooms DEF Walks
    <2>3. /\ Edge' = Edge /\ Uncounted' <= Uncounted
          /\ \A r \in steady : Seen(r)' = Seen(r)
      <3>1. walk'.page - 1 = walk.page
        BY <2>1, <2>2
      <3>2. Edge' = Edge
        BY <1>2, <2>1, <3>1 DEF Edge
      <3>3. Uncounted' = 0 /\ Uncounted \in Nat
        BY <2>1, DriftTypes DEF Uncounted
      <3>4. QED
        BY <2>1, <3>2, <3>3 DEF Seen
    <2>4. QED
      BY <1>1, <1>3, <1>4, <1>5, <2>1, <2>3, DriftBoundsStay
  <1>11. QED
    BY <1>7, <1>8, <1>9, <1>10

\* A page shows the steady rooms whose rank falls on it: it misses none, and
\* shows again only those that have come over the edge.
LEMMA DriftPick ==
    ASSUME SearchInv, SearchInv', DriftInv, PickIds
    PROVE  DriftInv'
  <1>1. UNCHANGED <<rooms, region, now, shown, steady, drift>> /\ walk.at = "counted"
    BY DEF PickIds
  <1>2. PICK S : /\ S = Page(Result(walk.search, walk.region), walk.page, walk.search.take)
                 /\ walk' = [walk EXCEPT !.at = "picked", !.ids = S]
    BY DEF PickIds
  <1>3. /\ walk'.at = "picked" /\ walk'.region = walk.region /\ walk'.ids = S
        /\ walk'.count = walk.count /\ walk'.search = walk.search /\ walk'.page = walk.page
        /\ walk'.kept = walk.kept
    BY <1>2 DEF SearchInv, SearchTyped, Walks
  <1> SUFFICES ASSUME walk.kept, steady # {}
               PROVE  /\ steady \subseteq List'
                      /\ walk.region = region
                      /\ DriftBounds'
    BY <1>1, <1>3 DEF DriftInv, DriftBounds
  <1>4. /\ drift \in Nat /\ DriftBounds /\ walk.region = region
        /\ steady \subseteq List
    BY <1>1 DEF DriftInv, DriftBounds
  <1>5. List' = List /\ \A r \in List : Place(r)' = Place(r)
    BY <1>1, <1>3, ListStays
  <1>6. steady \subseteq List' /\ \A r \in steady : Place(r)' = Place(r)
    BY <1>4, <1>5
  <1>7. /\ steady \in SUBSET Rooms /\ rooms \in [Rooms -> RoomStates]
        /\ walk.page \in Nat \ {0} /\ walk.search.take \in Nat \ {0}
    BY <1>1, CountsOfRooms DEF SearchInv, SearchTyped, Walks, Queries
  <1>8. /\ Edge = Skip(walk.page, walk.search.take)
        /\ Edge' = PageEnd(walk.page, walk.search.take)
        /\ Edge \in Nat /\ Edge' \in Nat /\ Edge <= Edge'
    <2>1. Edge = Skip(walk.page, walk.search.take) /\ Edge' = PageEnd(walk.page, walk.search.take)
      BY <1>1, <1>3 DEF Edge, Skip, PageEnd
    <2> DEFINE page == walk.page
               take == walk.search.take
    <2>2. page \in Nat \ {0} /\ take \in Nat \ {0}
      BY <1>7
    <2> HIDE DEF page, take
    <2>3. /\ Skip(page, take) \in Nat /\ PageEnd(page, take) \in Nat
          /\ PageEnd(page, take) = Skip(page, take) + take
      BY <2>2, SkipsWholePages DEF PageEnd
    <2>4. Skip(page, take) <= PageEnd(page, take)
      BY <2>2, <2>3
    <2>5. QED
      BY <2>1, <2>3, <2>4 DEF page, take
  <1>9. \A r \in steady : r \in S <=> Edge <= Place(r) /\ Place(r) < Edge'
    <2>1. PICK n \in Nat \ {0}, take \in Nat \ {0} : n = walk.page /\ take = walk.search.take
      BY <1>7
    <2>2. S = {r \in List : Skip(n, take) <= Place(r) /\ Place(r) < Skip(n, take) + take}
      BY <1>2, <1>4, <2>1 DEF Page, List, Place
    <2>3. Edge = Skip(n, take) /\ Edge' = Skip(n, take) + take
      BY <1>8, <2>1, SkipsWholePages DEF PageEnd
    <2>4. QED
      BY <1>4, <2>2, <2>3
  <1>10. \A r \in steady : /\ Seen(r) = shown[r] /\ shown[r] \in Nat /\ Place(r) \in Nat
                           /\ Seen(r)' = shown[r] + IF r \in S THEN 1 ELSE 0
    BY <1>1, <1>3, <1>7, DriftTypes DEF Seen
  <1>11. Cardinality(Missed') <= Cardinality(Missed)
    <2>1. Missed' \in SUBSET Missed
      <3>1. ASSUME NEW r \in Missed' PROVE r \in Missed
        <4>1. r \in steady /\ Seen(r)' = 0 /\ Place(r) < Edge'
          BY <1>1, <1>6, <3>1 DEF Missed
        <4>2. r \notin S /\ Seen(r) = 0
          BY <1>10, <4>1
        <4>3. Place(r) < Edge
          BY <1>8, <1>9, <1>10, <4>1, <4>2
        <4>4. QED
          BY <4>1, <4>2, <4>3 DEF Missed
      <3>2. QED
        BY <3>1
    <2>2. QED
      BY <2>1, DriftTypes, CountOfPart
  <1>12. Uncounted' = Uncounted
    BY <1>1, <1>3, <1>5 DEF Uncounted
  <1> DEFINE A == Again \cap S
             N == {<<r, shown[r] + 1>> : r \in A}
  <1>13. /\ A \in SUBSET Rooms /\ Again \in SUBSET Rooms /\ Again \subseteq steady
         /\ \A r \in A : r \in steady /\ r \in S /\ shown[r] > 0
    <2>1. Again \subseteq steady /\ \A r \in Again : Seen(r) > 0
      BY DEF Again
    <2>2. QED
      BY <1>7, <1>10, <2>1
  <1>14. Again' \in SUBSET (Again \ A)
    <2>1. ASSUME NEW r \in Again' PROVE r \in Again \ A
      <3>1. r \in steady /\ Seen(r)' > 0 /\ Edge' <= Place(r)
        BY <1>1, <1>6, <2>1 DEF Again
      <3>2. r \notin S
        BY <1>8, <1>9, <1>10, <3>1
      <3>3. Seen(r) > 0 /\ Edge <= Place(r)
        BY <1>8, <1>10, <3>1, <3>2
      <3>4. QED
        BY <3>1, <3>2, <3>3 DEF Again
    <2>2. QED
      BY <2>1
  <1>15. Repeats' \subseteq Repeats \cup N
    <2>1. ASSUME NEW r \in steady, NEW n \in 2..Cardinality(Rooms), n <= Seen(r)'
          PROVE  <<r, n>> \in Repeats \cup N
      <3>1. CASE n <= Seen(r)
        BY <2>1, <3>1 DEF Repeats
      <3>2. CASE ~(n <= Seen(r))
        <4>1. r \in S /\ n = shown[r] + 1 /\ Seen(r) > 0
          <5>1. n \in Nat /\ n >= 2
            BY CountsOfRooms
          <5>2. CASE r \in S
            BY <1>10, <2>1, <3>2, <5>1, <5>2
          <5>3. CASE r \notin S
            BY <1>10, <2>1, <3>2, <5>1, <5>3
          <5>4. QED
            BY <5>2, <5>3
        <4>2. r \in A
          BY <1>9, <4>1 DEF Again
        <4>3. QED
          BY <4>1, <4>2
      <3>3. QED
        BY <3>1, <3>2
    <2>2. ASSUME NEW x \in Repeats' PROVE x \in Repeats \cup N
      <3>1. x \in steady \X (2..Cardinality(Rooms)) /\ x[2] <= Seen(x[1])'
        BY <1>1, <2>2 DEF Repeats
      <3>2. PICK r \in steady, n \in 2..Cardinality(Rooms) : x = <<r, n>>
        BY <3>1
      <3>3. n <= Seen(r)'
        BY <3>1, <3>2
      <3>4. QED
        BY <2>1, <3>2, <3>3
    <2>3. QED
      BY <2>2
  <1>16. /\ IsFiniteSet(N) /\ Cardinality(N) = Cardinality(A) /\ Cardinality(A) \in Nat
    <2> DEFINE f == [r \in A |-> <<r, shown[r] + 1>>]
    <2>1. f \in Bijection(A, N)
      BY DEF Bijection, Injection, Surjection, IsInjective
    <2>2. ExistsBijection(A, N)
      BY <2>1 DEF ExistsBijection
    <2>3. IsFiniteSet(A) /\ Cardinality(A) \in Nat
      BY <1>13, CountIsNat
    <2> HIDE DEF N, A
    <2>4. QED
      BY <2>2, <2>3, FS_Bijection
  <1> HIDE DEF N
  <1>17. Cardinality(Repeats') <= Cardinality(Repeats) + Cardinality(A)
    <2>1. IsFiniteSet(Repeats) /\ Cardinality(Repeats) \in Nat
      BY DriftTypes
    <2>2. /\ IsFiniteSet(Repeats \cup N)
          /\ Cardinality(Repeats \cup N) =
                Cardinality(Repeats) + Cardinality(N) - Cardinality(Repeats \cap N)
      BY <1>16, <2>1, FS_Union
    <2>3. Cardinality(Repeats \cap N) \in Nat
      BY <2>1, FS_Intersection, FS_CardinalityType
    <2>4. Cardinality(Repeats') <= Cardinality(Repeats \cup N)
      BY <1>15, <2>2, FS_Subset
    <2>5. Cardinality(Repeats') \in Nat /\ Cardinality(Repeats \cup N) \in Nat
      BY <1>15, <2>2, FS_Subset, FS_CardinalityType
    <2>6. QED
      BY <1>16, <2>1, <2>2, <2>3, <2>4, <2>5
  <1>18. Cardinality(Again') + Cardinality(A) <= Cardinality(Again)
    <2>1. PICK B \in SUBSET Rooms : B = Again \ A
      BY <1>13
    <2>2. A \cap B = {} /\ Again = A \cup B
      BY <2>1
    <2>3. Cardinality(Again) = Cardinality(A) + Cardinality(B)
      BY <1>13, <2>2, CountOfUnion
    <2>4. Cardinality(Again') <= Cardinality(B)
      BY <1>14, <2>1, CountOfPart
    <2>5. Cardinality(Again') \in Nat /\ Cardinality(B) \in Nat
      <3>1. Again' \in SUBSET Rooms
        BY <1>14, <2>1
      <3>2. QED
        BY <3>1, CountIsNat
    <2>6. QED
      BY <1>16, <2>3, <2>4, <2>5
  <1>19. DriftBounds'
    <2>1. /\ Cardinality(Missed) \in Nat /\ Cardinality(Again) \in Nat
          /\ Cardinality(Repeats) \in Nat /\ Uncounted \in Nat
      BY DriftTypes
    <2>2. /\ Cardinality(Missed') \in Nat /\ Cardinality(Again') \in Nat
          /\ Cardinality(Repeats') \in Nat
      <3>1. Missed' \in SUBSET Rooms /\ Again' \in SUBSET Rooms
        BY <1>1, <1>7 DEF Missed, Again
      <3>2. IsFiniteSet(Repeats')
        BY <1>15, <1>16, DriftTypes, FS_Union, FS_Subset
      <3>3. QED
        BY <3>1, <3>2, CountIsNat, FS_CardinalityType
    <2>3. QED
      BY <1>1, <1>4, <1>11, <1>12, <1>16, <1>17, <1>18, <2>1, <2>2 DEF DriftBounds
  <1>20. QED
    BY <1>4, <1>6, <1>19

\* What a change does to the list, to the steady rooms and to drift.
LEMMA SteadyChange ==
    ASSUME SearchInv, SearchInv', DriftInv, walk.at # "idle", walk.kept, steady' # {},
           RoomChange \/ UpdateAccount \/ TimePasses
    PROVE  /\ steady' \in SUBSET steady /\ steady # {}
           /\ steady' \subseteq List'
           /\ region' = region
           /\ \A r \in steady' : rooms'[r].date = rooms[r].date
           /\ \E M \in SUBSET Rooms :
                /\ drift' = drift + Cardinality(M)
                /\ \A r \in Rooms \ M : /\ r \in List' <=> r \in List
                                        /\ r \in List => rooms'[r].date = rooms[r].date
  <1> DEFINE moved == {r \in Rooms : Listed(r, walk.search)' # Listed(r, walk.search)}
             away == IF region' = region THEN 0 ELSE 1
  <1>1. Changing
    BY DEF RoomChange, RoomStep, UpdateAccount, TimePasses, CreateRoom, UpdateRoom, MembersChange,
           RemoveRoom, Apply, HandleApplication, LeaveRoom, RoomChanges
  <1>2. /\ drift' = drift + Cardinality(moved) + away /\ walk' = walk
        /\ steady' = {r \in steady : Listed(r, walk.search)' = Listed(r, walk.search)}
    BY <1>1 DEF Changing
  <1>3. steady' \in SUBSET steady /\ steady # {} /\ steady \in SUBSET Rooms
    BY <1>2 DEF SearchInv, SearchTyped
  <1>4. \A r \in steady : Matches(r, walk.search, region)
    BY <1>3 DEF DriftInv, List, Result
  <1>5. \A r \in Rooms : rooms[r].date \in Nat /\ rooms'[r].date \in Nat
    BY DEF SearchInv, SearchTyped, RoomStates, RoomRecords, Times
  <1>6. \A r \in Rooms \ moved :
          /\ Matches(r, walk.search, region)' <=> Matches(r, walk.search, region)
          /\ Matches(r, walk.search, region) => rooms'[r].date = rooms[r].date
    BY <1>5 DEF Listed
  <1>7. \A r \in Rooms \ moved :
          /\ r \in List' <=> r \in List
          /\ r \in List => rooms'[r].date = rooms[r].date
    BY <1>6 DEF List, Result
  <1>8. \A r \in steady' : r \in Rooms \ moved /\ Matches(r, walk.search, region)
    BY <1>2, <1>3, <1>4
  <1>9. \A r \in steady' : rooms'[r].date = rooms[r].date
    BY <1>6, <1>8
  <1>10. region' = region
    <2>1. CASE UpdateAccount
      <3>1. PICK r \in steady' : r \in Rooms \ moved /\ Matches(r, walk.search, region)
        BY <1>8
      <3>2. rooms' = rooms /\ Matches(r, walk.search, region)'
        BY <1>6, <2>1, <3>1 DEF UpdateAccount
      <3>3. rooms[r].region = region /\ rooms'[r].region = region'
        BY <1>2, <3>1, <3>2 DEF Matches, IsOpen, IsOwn
      <3>4. QED
        BY <3>2, <3>3
    <2>2. CASE RoomChange \/ TimePasses
      BY <2>2 DEF RoomChange, RoomStep, TimePasses, CreateRoom, UpdateRoom, MembersChange,
             RemoveRoom, Apply, HandleApplication, LeaveRoom, RoomChanges
    <2>3. QED
      BY <2>1, <2>2
  <1>11. drift' = drift + Cardinality(moved)
    <2>1. away = 0 /\ Cardinality(moved) \in Nat /\ drift \in Nat
      BY <1>10, CountIsNat DEF DriftInv
    <2> HIDE DEF away, moved
    <2>2. QED
      BY <1>2, <2>1
  <1>12. steady' \subseteq List'
    <2>1. \A r \in steady' : r \in Rooms \ moved /\ r \in List
      BY <1>8 DEF List, Result
    <2>2. QED
      BY <1>2, <1>7, <2>1
  <1>13. QED
    BY <1>3, <1>7, <1>9, <1>10, <1>11, <1>12

LEMMA DriftChanges ==
    ASSUME SearchInv, SearchInv', DriftInv, RoomChange \/ UpdateAccount \/ TimePasses
    PROVE  DriftInv'
  <1>1. walk' = walk /\ shown' = shown
    BY ChangeIsTyped DEF SearchInv
  <1>2. drift' \in Nat
    BY QuietChange DEF DriftInv
  <1> SUFFICES ASSUME walk.at # "idle", walk.kept, steady' # {}
               PROVE  /\ steady' \subseteq List'
                      /\ walk.at \in {"loaded", "counted", "picked", "answered"} =>
                             walk.region = region'
                      /\ walk.at = "answered" =>
                             (walk.next <=> HasNextPage(walk.page, walk.count, walk.search.take))
                      /\ DriftBounds'
    BY <1>1, <1>2 DEF DriftInv, DriftBounds, HasNextPage
  <1>3. /\ steady' \in SUBSET steady /\ steady # {}
        /\ steady' \subseteq List'
        /\ region' = region
        /\ \A r \in steady' : rooms'[r].date = rooms[r].date
    BY SteadyChange
  <1>4. PICK M \in SUBSET Rooms :
          /\ drift' = drift + Cardinality(M)
          /\ \A r \in Rooms \ M : /\ r \in List' <=> r \in List
                                  /\ r \in List => rooms'[r].date = rooms[r].date
    BY SteadyChange
  <1>5. /\ drift \in Nat /\ DriftBounds /\ steady \in SUBSET Rooms
        /\ steady \subseteq List
        /\ walk.at \in {"loaded", "counted", "picked", "answered"} => walk.region = region
        /\ walk.at = "answered" =>
               (walk.next <=> HasNextPage(walk.page, walk.count, walk.search.take))
    BY <1>3 DEF DriftInv, DriftBounds, SearchInv, SearchTyped
  <1>6. Edge' = Edge /\ Edge \in Nat /\ \A r \in Rooms : Seen(r)' = Seen(r)
    <2>1. Edge \in Nat
      BY DriftTypes
    <2>2. QED
      BY <1>1, <2>1 DEF Edge, Seen
  <1>7. PICK A \in SUBSET Rooms : A = List
    BY ListIsOfRooms
  <1>8. PICK B \in SUBSET Rooms : B = List'
    BY DEF List, Result
  <1>9. PICK f \in [Rooms -> Times] : \A r \in Rooms : f[r] = rooms[r].date
    <2> DEFINE h == [r \in Rooms |-> rooms[r].date]
    <2>1. h \in [Rooms -> Times] /\ \A r \in Rooms : h[r] = rooms[r].date
      BY DEF SearchInv, SearchTyped, RoomStates, RoomRecords
    <2> HIDE DEF h
    <2>2. QED
      BY <2>1
  <1>10. PICK g \in [Rooms -> Times] : \A r \in Rooms : g[r] = rooms'[r].date
    <2> DEFINE h == [r \in Rooms |-> rooms'[r].date]
    <2>1. h \in [Rooms -> Times] /\ \A r \in Rooms : h[r] = rooms'[r].date
      BY DEF SearchInv, SearchTyped, RoomStates, RoomRecords
    <2> HIDE DEF h
    <2>2. QED
      BY <2>1
  <1>11. /\ \A r \in Rooms : Place(r) = Cardinality(Lower(A, f, r))
         /\ \A r \in Rooms : Place(r)' = Cardinality(Lower(B, g, r))
    <2>1. \A r \in Rooms : {q \in List : Precedes(q, r)} = Lower(A, f, r)
      BY <1>7, <1>9 DEF Precedes, Lower, Sooner
    <2>2. \A r \in Rooms : {q \in List : Precedes(q, r)}' = Lower(B, g, r)
      BY <1>8, <1>10 DEF Precedes, Lower, Sooner
    <2>3. QED
      BY <2>1, <2>2 DEF Place, Rank
  <1>12. \A r \in Rooms \ M : /\ r \in B <=> r \in A
                              /\ r \in A => g[r] = f[r]
    BY <1>4, <1>7, <1>8, <1>9, <1>10
  <1>13. \A r \in steady' : r \in A /\ r \in B /\ g[r] = f[r]
    <2>1. \A r \in steady' : r \in A /\ r \in B
      BY <1>3, <1>5, <1>7, <1>8
    <2>2. \A r \in steady' : r \in Rooms /\ g[r] = f[r]
      BY <1>3, <1>5, <1>9, <1>10
    <2>3. QED
      BY <2>1, <2>2
  <1> DEFINE G == {q \in M : q \in A}
             N == {q \in M : q \notin A}
             Down == {r \in steady' : Edge <= Place(r) /\ Place(r)' < Edge}
             Up == {r \in steady' : Place(r) < Edge /\ Edge <= Place(r)'}
  <1>14. /\ G \in SUBSET Rooms /\ N \in SUBSET Rooms
         /\ Cardinality(G) + Cardinality(N) = Cardinality(M)
         /\ Cardinality(G) \in Nat /\ Cardinality(N) \in Nat /\ Cardinality(M) \in Nat
    <2>1. G \in SUBSET Rooms /\ N \in SUBSET Rooms /\ G \cap N = {} /\ M = G \cup N
      OBVIOUS
    <2>2. Cardinality(G \cup N) = Cardinality(G) + Cardinality(N)
      BY <2>1, CountOfUnion
    <2>3. QED
      BY <2>1, <2>2, CountIsNat
  <1>15. Down \in SUBSET Rooms /\ Cardinality(Down) <= Cardinality(G)
    <2>1. PICK C \in SUBSET A : C = Down
      BY <1>13
    <2>2. PICK x \in Nat : x = Edge
      BY <1>6
    <2>3. \A r \in C : /\ g[r] = f[r]
                       /\ x <= Cardinality(Lower(A, f, r))
                       /\ Cardinality(Lower(B, g, r)) < x
      BY <1>11, <1>13, <2>1, <2>2
    <2>4. PICK H \in SUBSET Rooms : H = G
      OBVIOUS
    <2>5. \A q \in A \ H : q \in B /\ g[q] = f[q]
      BY <1>12, <2>4
    <2> HIDE DEF G, Down
    <2>6. Crosses(C, A, B, f, g, x) /\ KeepsAllBut(H, A, B, f, g)
      BY <2>3, <2>5 DEF Crosses, KeepsAllBut
    <2>7. Cardinality(C) <= Cardinality(H)
      BY <2>6, RoomsCrossing
    <2>8. QED
      BY <2>1, <2>4, <2>7
  <1>16. Up \in SUBSET Rooms /\ Cardinality(Up) <= Cardinality(M)
    <2>1. PICK C \in SUBSET B : C = Up
      BY <1>13
    <2>2. PICK x \in Nat : x = Edge
      BY <1>6
    <2>3. \A r \in C : /\ f[r] = g[r]
                       /\ x <= Cardinality(Lower(B, g, r))
                       /\ Cardinality(Lower(A, f, r)) < x
      BY <1>11, <1>13, <2>1, <2>2
    <2>4. \A q \in B \ M : q \in A /\ f[q] = g[q]
      BY <1>12
    <2> HIDE DEF Up
    <2>5. Crosses(C, B, A, g, f, x) /\ KeepsAllBut(M, B, A, g, f)
      BY <2>3, <2>4 DEF Crosses, KeepsAllBut
    <2>6. Cardinality(C) <= Cardinality(M)
      BY <2>5, RoomsCrossing
    <2>7. QED
      BY <2>1, <2>6
  <1>17. /\ Cardinality(Missed) \in Nat /\ Missed \in SUBSET Rooms
         /\ Cardinality(Again) \in Nat /\ Again \in SUBSET Rooms
         /\ IsFiniteSet(Repeats) /\ Cardinality(Repeats) \in Nat
         /\ Uncounted \in Nat /\ \A r \in Rooms : Place(r) \in Nat
    BY DriftTypes
  <1>18. \A r \in steady' : r \in Rooms /\ Place(r)' \in Nat
    <2>1. \A r \in Rooms : Lower(B, g, r) \in SUBSET Rooms
      BY DEF Lower
    <2>2. QED
      BY <1>3, <1>5, <1>11, <2>1, CountIsNat
  <1>19. Cardinality(Missed') <= Cardinality(Missed) + Cardinality(G) /\ Cardinality(Missed') \in Nat
    <2>1. Missed' \in SUBSET (Missed \cup Down)
      BY <1>3, <1>6, <1>17, <1>18 DEF Missed
    <2> HIDE DEF Down, G
    <2>2. Cardinality(Missed') <= Cardinality(Missed) + Cardinality(Down)
      BY <1>15, <1>17, <2>1, CountInUnion
    <2>3. Missed' \in SUBSET Rooms
      BY <1>15, <1>17, <2>1
    <2>4. Cardinality(Missed') \in Nat /\ Cardinality(Down) \in Nat
      BY <1>15, <2>3, CountIsNat
    <2>5. QED
      BY <1>14, <1>15, <1>17, <2>2, <2>4
  <1>20. Cardinality(Again') <= Cardinality(Again) + Cardinality(M) /\ Cardinality(Again') \in Nat
    <2>1. Again' \in SUBSET (Again \cup Up)
      BY <1>3, <1>6, <1>17, <1>18 DEF Again
    <2> HIDE DEF Up
    <2>2. Cardinality(Again') <= Cardinality(Again) + Cardinality(Up)
      BY <1>16, <1>17, <2>1, CountInUnion
    <2>3. Again' \in SUBSET Rooms
      BY <1>16, <1>17, <2>1
    <2>4. Cardinality(Again') \in Nat /\ Cardinality(Up) \in Nat
      BY <1>16, <2>3, CountIsNat
    <2>5. QED
      BY <1>14, <1>16, <1>17, <2>2, <2>4
  <1>21. Cardinality(Repeats') <= Cardinality(Repeats) /\ Cardinality(Repeats') \in Nat
    <2>1. ASSUME NEW z \in Repeats' PROVE z \in Repeats
      <3>1. z \in steady' \X (2..Cardinality(Rooms)) /\ z[2] <= Seen(z[1])'
        BY <2>1 DEF Repeats
      <3>2. z[1] \in steady' /\ z[1] \in Rooms /\ z \in steady \X (2..Cardinality(Rooms))
        BY <1>3, <1>5, <3>1
      <3>3. QED
        BY <1>6, <3>1, <3>2 DEF Repeats
    <2>2. Repeats' \in SUBSET Repeats
      BY <2>1
    <2>3. QED
      BY <1>17, <2>2, FS_Subset, FS_CardinalityType
  <1>22. Uncounted' <= Uncounted + Cardinality(N) /\ Uncounted' \in Nat
    <2>1. B \in SUBSET (A \cup N)
      BY <1>12
    <2> HIDE DEF N
    <2>2. Cardinality(B) <= Cardinality(A) + Cardinality(N)
      BY <1>14, <2>1, CountInUnion
    <2>3. Cardinality(A) \in Nat /\ Cardinality(B) \in Nat
      BY CountIsNat
    <2>4. walk.count \in Nat
      BY CountsOfRooms DEF SearchInv, SearchTyped, Walks
    <2>5. /\ Uncounted = IF walk.at \in {"counted", "picked", "answered"}
                            /\ walk.count < Cardinality(A)
                         THEN Cardinality(A) - walk.count ELSE 0
          /\ Uncounted' = IF walk.at \in {"counted", "picked", "answered"}
                             /\ walk.count < Cardinality(B)
                          THEN Cardinality(B) - walk.count ELSE 0
      BY <1>1, <1>7, <1>8 DEF Uncounted
    <2>6. PICK a \in Nat, b \in Nat, n \in Nat, c \in Nat :
              /\ a = Cardinality(A) /\ b = Cardinality(B)
              /\ n = Cardinality(N) /\ c = walk.count /\ b <= a + n
      BY <1>14, <2>2, <2>3, <2>4
    <2>7. CASE walk.at \in {"counted", "picked", "answered"}
      <3>1. /\ Uncounted = IF c < a THEN a - c ELSE 0
            /\ Uncounted' = IF c < b THEN b - c ELSE 0
        BY <2>5, <2>6, <2>7
      <3>2. /\ (IF c < b THEN b - c ELSE 0) <= (IF c < a THEN a - c ELSE 0) + n
            /\ (IF c < b THEN b - c ELSE 0) \in Nat
        BY <2>6
      <3>3. QED
        BY <2>6, <3>1, <3>2, Zenon
    <2>8. CASE ~(walk.at \in {"counted", "picked", "answered"})
      <3>1. Uncounted = 0 /\ Uncounted' = 0
        BY <2>5, <2>8
      <3>2. 0 <= 0 + Cardinality(N)
        BY <1>14
      <3>3. QED
        BY <3>1, <3>2
    <2>9. QED
      BY <2>7, <2>8
  <1> HIDE DEF G, N
  <1>23. DriftBounds'
    <2>1. /\ Cardinality(Missed) + Uncounted <= drift
          /\ Cardinality(Repeats) + Cardinality(Again) <= drift
      BY <1>5 DEF DriftBounds
    <2>2. Cardinality(Missed') + Uncounted' <= drift'
      <3>1. PICK u \in Nat, d \in Nat, a \in Nat, b \in Nat, c \in Nat :
              /\ u = Uncounted /\ d = drift /\ a = Cardinality(Missed)
              /\ b = Cardinality(G) /\ c = Cardinality(N)
        BY <1>5, <1>14, <1>17
      <3>2. /\ drift' = d + (b + c) /\ a + u <= d
            /\ Cardinality(Missed') <= a + b /\ Cardinality(Missed') \in Nat
            /\ Uncounted' <= u + c /\ Uncounted' \in Nat
        BY <1>4, <1>14, <1>19, <1>22, <2>1, <3>1
      <3>3. QED
        BY <3>2
    <2>3. Cardinality(Repeats') + Cardinality(Again') <= drift'
      <3>1. PICK d \in Nat, a \in Nat, b \in Nat, c \in Nat :
              /\ d = drift /\ a = Cardinality(Repeats)
              /\ b = Cardinality(Again) /\ c = Cardinality(M)
        BY <1>5, <1>14, <1>17
      <3>2. /\ drift' = d + c /\ a + b <= d
            /\ Cardinality(Repeats') <= a /\ Cardinality(Repeats') \in Nat
            /\ Cardinality(Again') <= b + c /\ Cardinality(Again') \in Nat
        BY <1>4, <1>20, <1>21, <2>1, <3>1
      <3>3. QED
        BY <3>2
    <2>4. QED
      BY <2>2, <2>3 DEF DriftBounds
  <1>24. QED
    BY <1>3, <1>5, <1>23

LEMMA DriftStep == SearchInv /\ SearchInv' /\ DriftInv /\ [SNext]_searchVars => DriftInv'
  <1> SUFFICES ASSUME SearchInv, SearchInv', DriftInv, [SNext]_searchVars PROVE DriftInv'
    OBVIOUS
  <1>1. CASE SearchLeagueRooms \/ SearchUserRooms
    BY <1>1, DriftStart DEF SearchLeagueRooms, SearchUserRooms
  <1>2. CASE LoadUser \/ Count \/ AnswerPage \/ FollowNextLink \/ AskNextPage
    BY <1>2, DriftClient
  <1>3. CASE PickIds
    BY <1>3, DriftPick
  <1>4. CASE RoomChange \/ UpdateAccount \/ TimePasses
    BY <1>4, DriftChanges
  <1>5. CASE UNCHANGED searchVars
    <2>1. UNCHANGED <<rooms, region, now, walk, shown, steady, drift>>
      BY <1>5 DEF searchVars
    <2>2. drift \in Nat
      BY DEF DriftInv
    <2> SUFFICES ASSUME walk.at # "idle", walk.kept, steady # {}
                 PROVE  steady \subseteq List' /\ DriftBounds'
      BY <2>1, <2>2 DEF DriftInv, DriftBounds, HasNextPage
    <2>3. DriftBounds /\ steady \subseteq List
      BY DEF DriftInv, DriftBounds
    <2>4. List' = List
      BY <2>1, ListStays
    <2>5. /\ Edge' = Edge /\ Uncounted' <= Uncounted
          /\ \A r \in steady : Seen(r)' = Seen(r)
      <3>1. Edge' = Edge /\ Uncounted' = Uncounted /\ Uncounted \in Nat
        BY <2>1, <2>4, DriftTypes DEF Edge, Uncounted
      <3>2. QED
        BY <2>1, <3>1 DEF Seen
    <2>6. QED
      BY <2>1, <2>2, <2>3, <2>4, <2>5, DriftBoundsStay
  <1>6. QED
    BY <1>1, <1>2, <1>3, <1>4, <1>5 DEF SNext, RoomChange, RoomStep

LEMMA DriftInvariant == SSpec => []DriftInv
  <1>1. SInit => DriftInv
    BY DEF SInit, DriftInv, Idle
  <1>2. QED
    BY <1>1, DriftStep, SearchInvariant, PTL DEF SSpec

\* The rooms that stand where no page has been are rooms that were not counted.
LEMMA BeyondIsUncounted ==
    ASSUME SearchInv, walk.at = "answered", NEW C \in SUBSET List,
           ~HasNextPage(walk.page, walk.count, walk.search.take),
           \A r \in C : Edge <= Place(r)
    PROVE  Cardinality(C) <= Uncounted
  <1>1. PICK A \in SUBSET Rooms : A = List
    BY ListIsOfRooms
  <1>2. PICK f \in [Rooms -> Times] : \A r \in Rooms : f[r] = rooms[r].date
    <2> DEFINE h == [r \in Rooms |-> rooms[r].date]
    <2>1. h \in [Rooms -> Times] /\ \A r \in Rooms : h[r] = rooms[r].date
      BY DEF SearchInv, SearchTyped, RoomStates, RoomRecords
    <2> HIDE DEF h
    <2>2. QED
      BY <2>1
  <1>3. \A r \in Rooms : Place(r) = Cardinality(Lower(A, f, r))
    <2>1. \A r \in Rooms : {q \in List : Precedes(q, r)} = Lower(A, f, r)
      BY <1>1, <1>2 DEF Precedes, Lower, Sooner
    <2>2. QED
      BY <2>1 DEF Place, Rank
  <1>4. /\ walk.page \in Nat /\ walk.search.take \in Nat \ {0} /\ walk.count \in Nat
        /\ Edge \in Nat /\ Uncounted \in Nat
    BY CountsOfRooms, DriftTypes DEF SearchInv, SearchTyped, Walks, Queries
  <1>5. walk.count <= Edge
    <2>1. Edge = walk.page * walk.search.take
      BY DEF Edge
    <2>2. QED
      BY <1>4, <2>1, PagesAreEnough
  <1>6. PICK x \in Nat, c \in Nat, a \in Nat, n \in Nat :
          /\ x = Edge /\ c = walk.count /\ a = Cardinality(A) /\ n = Cardinality(C)
    <2>1. Cardinality(A) \in Nat /\ Cardinality(C) \in Nat
      BY <1>1, CountIsNat
    <2>2. QED
      BY <1>4, <2>1
  <1>7. Uncounted = IF c < a THEN a - c ELSE 0
    BY <1>1, <1>6 DEF Uncounted
  <1>8. CASE C = {}
    <2>1. n = 0
      BY <1>6, <1>8, FS_EmptySet
    <2>2. QED
      BY <1>4, <1>6, <2>1
  <1>9. CASE C # {}
    <2>1. \A r \in C : x <= Cardinality(Lower(A, f, r))
      BY <1>1, <1>3, <1>6
    <2>2. x + n <= a
      BY <1>1, <1>6, <1>9, <2>1, RoomsFromRank
    <2>3. n <= IF c < a THEN a - c ELSE 0
      BY <1>5, <1>6, <2>2
    <2>4. QED
      BY <1>6, <1>7, <2>3
  <1>10. QED
    BY <1>8, <1>9

\* Paging over a list that other users change: one room misses its page at
\* most, and one is shown again, for every room that came, went or moved (or
\* for the account's move to another region), wherever between two pages or
\* two queries of paginate() that happened, for any page size and any number
\* of rooms and changes.
THEOREM DriftsAreBounded == SSpec => []DriftIsBounded
  <1>1. SearchInv /\ DriftInv => DriftIsBounded
    <2> SUFFICES ASSUME SearchInv, DriftInv, Complete
                 PROVE  /\ Cardinality({r \in steady : shown[r] = 0}) <= drift
                        /\ Cardinality(Showings(steady))
                              <= Cardinality({r \in steady : shown[r] > 0}) + drift
      BY DEF DriftIsBounded
    <2> DEFINE unseen == {r \in steady : shown[r] = 0}
               once == {r \in steady : shown[r] > 0}
    <2>1. /\ walk.at = "answered" /\ ~walk.next /\ walk.kept
          /\ drift \in Nat /\ steady \in SUBSET Rooms /\ shown \in [Rooms -> Nat]
      BY DEF Complete, DriftInv, SearchInv, SearchTyped, PagesAreRooms
    <2>2. CASE steady = {}
      <3>1. unseen = {} /\ once = {} /\ Showings(steady) = {}
        BY <2>2 DEF Showings
      <3>2. Cardinality({}) = 0
        BY FS_EmptySet
      <3> HIDE DEF unseen, once
      <3>3. Cardinality(unseen) = 0 /\ Cardinality(once) = 0 /\ Cardinality(Showings(steady)) = 0
        BY <3>1, <3>2
      <3>4. QED
        BY <2>1, <3>3 DEF unseen, once
    <2>3. CASE steady # {}
      <3>1. /\ steady \subseteq List
            /\ ~HasNextPage(walk.page, walk.count, walk.search.take)
            /\ Cardinality(Missed) + Uncounted <= drift
            /\ Cardinality(Repeats) + Cardinality(Again) <= drift
        BY <2>1, <2>3 DEF DriftInv
      <3>2. /\ \A r \in Rooms : Place(r) \in Nat
            /\ Missed \in SUBSET Rooms /\ Edge \in Nat /\ Uncounted \in Nat
            /\ Cardinality(Missed) \in Nat /\ Cardinality(Again) \in Nat
            /\ IsFiniteSet(Repeats) /\ Cardinality(Repeats) \in Nat
        BY <2>1, DriftTypes
      <3>3. \A r \in steady : r \in Rooms /\ Seen(r) = shown[r]
        BY <2>1 DEF Seen
      <3>4. Cardinality(unseen) <= drift
        <4>1. PICK C \in SUBSET List : C = {r \in steady : shown[r] = 0 /\ Edge <= Place(r)}
          BY <3>1
        <4>2. Cardinality(C) <= Uncounted
          <5>1. \A r \in C : Edge <= Place(r)
            BY <4>1
          <5>2. QED
            BY <2>1, <3>1, <5>1, BeyondIsUncounted
        <4>3. unseen \in SUBSET (Missed \cup C)
          BY <3>2, <3>3, <4>1 DEF Missed
        <4>4. C \in SUBSET Rooms /\ unseen \in SUBSET Rooms
          BY <2>1, <4>1
        <4> HIDE DEF unseen
        <4>5. Cardinality(unseen) <= Cardinality(Missed) + Cardinality(C)
          BY <3>2, <4>3, <4>4, CountInUnion
        <4>6. Cardinality(C) \in Nat /\ Cardinality(unseen) \in Nat
          BY <4>4, CountIsNat
        <4>7. QED
          BY <2>1, <3>1, <3>2, <4>2, <4>5, <4>6
      <3>5. Cardinality(Showings(steady)) <= Cardinality(once) + drift
        <4>1. once \in SUBSET Rooms
          BY <2>1
        <4>2. PICK F : F = once \X {1}
          OBVIOUS
        <4>3. Showings(steady) \in SUBSET (F \cup Repeats)
          <5>1. ASSUME NEW z \in Showings(steady) PROVE z \in F \cup Repeats
            <6>1. /\ z \in steady \X (1..Cardinality(Rooms)) /\ z[2] <= shown[z[1]]
              BY <5>1 DEF Showings
            <6>2. /\ z = <<z[1], z[2]>> /\ z[1] \in steady /\ z[2] \in Nat \ {0}
                  /\ z[2] <= Cardinality(Rooms)
              BY <6>1, CountsOfRooms
            <6>3. CASE z[2] = 1
              <7>1. z[1] \in once
                BY <2>1, <6>1, <6>2, <6>3
              <7>2. QED
                BY <4>2, <6>2, <6>3, <7>1
            <6>4. CASE z[2] # 1
              <7>1. z[2] \in 2..Cardinality(Rooms)
                BY <6>2, <6>4, CountsOfRooms
              <7>2. z \in steady \X (2..Cardinality(Rooms))
                BY <6>2, <7>1
              <7>3. QED
                BY <3>3, <6>1, <6>2, <7>2 DEF Repeats
            <6>5. QED
              BY <6>3, <6>4
          <5>2. QED
            BY <5>1
        <4> HIDE DEF once
        <4>4. /\ IsFiniteSet(F) /\ Cardinality(F) = Cardinality(once)
              /\ Cardinality(once) \in Nat
          <5>1. IsFiniteSet(once) /\ Cardinality(once) \in Nat
            BY <4>1, CountIsNat
          <5>2. IsFiniteSet({1}) /\ Cardinality({1}) = 1
            BY FS_Singleton
          <5>3. IsFiniteSet(F) /\ Cardinality(F) = Cardinality(once) * Cardinality({1})
            BY <4>2, <5>1, <5>2, FS_Product
          <5>4. QED
            BY <5>1, <5>2, <5>3
        <4>5. /\ IsFiniteSet(F \cup Repeats)
              /\ Cardinality(F \cup Repeats) <= Cardinality(F) + Cardinality(Repeats)
          <5>1. PICK B : B = F \cap Repeats
            OBVIOUS
          <5>2. /\ IsFiniteSet(F \cup Repeats)
                /\ Cardinality(F \cup Repeats) =
                      Cardinality(F) + Cardinality(Repeats) - Cardinality(B)
            BY <3>2, <4>4, <5>1, FS_Union
          <5>3. Cardinality(B) \in Nat
            <6>1. B \in SUBSET F
              BY <5>1
            <6>2. QED
              BY <4>4, <6>1, FS_Subset, FS_CardinalityType
          <5>4. QED
            BY <3>2, <4>4, <5>2, <5>3
        <4>6. /\ Cardinality(Showings(steady)) <= Cardinality(F \cup Repeats)
              /\ Cardinality(Showings(steady)) \in Nat /\ Cardinality(F \cup Repeats) \in Nat
          BY <4>3, <4>5, FS_Subset, FS_CardinalityType
        <4>7. QED
          BY <2>1, <3>1, <3>2, <4>4, <4>5, <4>6
      <3>6. QED
        BY <3>4, <3>5
    <2>4. QED
      BY <2>2, <2>3
  <1>2. QED
    BY <1>1, SearchInvariant, DriftInvariant, PTL
=============================================================================
