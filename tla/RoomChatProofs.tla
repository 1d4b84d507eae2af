----------------------------- MODULE RoomChatProofs -----------------------------
(***************************************************************************)
(* Proofs about RoomChat, for any users, applications, events and          *)
(* messages.  The rooms take their own steps, of which RoomLifecycleProofs *)
(* speaks; the chat relies on them in two places only: a removed room has  *)
(* no members, and the clock does not go back.                             *)
(***************************************************************************)
EXTENDS RoomChat, RoomLifecycleProofs

USE LocalUsersAssumption, ApplicationsAssumption, BoundsAssumption, ChatBoundsAssumption

\* Whose sockets and events the gateway holds.
LetIn ==
    /\ \A u \in Users : IsMember(u) => u \in wereMembers
    /\ \A e \in admitted : e.user \in wereMembers
    /\ joined \subseteq wereMembers

\* Messages are created one after the other, and the clock does not go back.
CreatedInOrder ==
    /\ \A m \in 1..sent : createdAt[m] <= now
    /\ \A m, n \in 1..sent : m < n => createdAt[m] <= createdAt[n]

\* The inductive invariant.
ChatInv ==
    /\ ChatTypeOK
    /\ RemovedRoomQuiescent
    /\ LetIn
    /\ CreatedInOrder

LEMMA ChatInvInit == CInit => ChatInv
  <1> SUFFICES ASSUME CInit PROVE ChatInv
    OBVIOUS
  <1>1. Init /\ TypeOK
    BY TypeOKInit DEF CInit
  <1>2. ChatTypeOK
    BY <1>1 DEF CInit, ChatTypeOK, Messages, Times
  <1>3. \A u \in Users : ~IsMember(u)
    BY <1>1 DEF Init, IsMember, Rows
  <1>4. QED
    BY <1>1, <1>2, <1>3 DEF CInit, Init, ChatInv, LetIn, CreatedInOrder, RemovedRoomQuiescent

\* What the gateway's handlers leave alone is all of the room.
LEMMA RoomVariables == UNCHANGED roomVars <=> UNCHANGED vars
  BY DEF roomVars, vars

\* The clock of the room never goes back.
LEMMA ClockAdvances == TypeOK /\ Next => now <= now'
  BY DEF TypeOK, Times, Next, CreateNewRoom, Apply, HandleApplication, UpdateRoom,
         LeaveRoom, RemoveRoom, DeleteLeagueUser, TimePasses

\* Only members pass the guard of the gateway.
LEMMA GuardAdmitsMembers ==
    ASSUME NEW u \in Users, AdmitEvent(u)
    PROVE  IsMember(u)
  BY DEF AdmitEvent, NeedsGuard, PassesChatGuard, IsMember

\* A removed room has no members.
LEMMA RemovedRoomHasNoMembers ==
    RemovedRoomQuiescent /\ room = "REMOVED" => \A u \in Users : ~IsMember(u)
  BY DEF RemovedRoomQuiescent, IsMember, Rows

\* A step of the gateway leaves the members as they are.
LEMMA MembersStay ==
    ASSUME UNCHANGED roomVars
    PROVE  \A u \in Users : IsMember(u)' <=> IsMember(u)
  BY DEF roomVars, IsMember, Rows

LEMMA ChatTypeOKStep ==
    ChatTypeOK /\ [CNext]_allVars => ChatTypeOK'
  <1> SUFFICES ASSUME ChatTypeOK, [CNext]_allVars PROVE ChatTypeOK'
    OBVIOUS
  <1>0. /\ TypeOK
        /\ joined \subseteq Users /\ admitted \subseteq Events
        /\ sent \in 0..MaxMessages /\ createdAt \in [Messages -> Times]
        /\ saving \cup stored \cup lost = 1..sent
        /\ saving \cap stored = {} /\ saving \cap lost = {} /\ stored \cap lost = {}
        /\ wereMembers \subseteq Users
    BY DEF ChatTypeOK
  <1>1. CASE RoomStep
    <2>1. TypeOK'
      BY <1>0, <1>1, TypeOKStep DEF RoomStep
    <2>2. QED
      BY <1>0, <1>1, <2>1 DEF RoomStep, ChatTypeOK
  <1>2. UNCHANGED roomVars => TypeOK'
    BY <1>0, TypeOKStep, RoomVariables
  <1>3. ASSUME NEW u \in Users, AdmitEvent(u) PROVE ChatTypeOK'
    BY <1>0, <1>2, <1>3 DEF AdmitEvent, ChatTypeOK, Events
  <1>4. ASSUME NEW u \in Users, Disconnect(u) PROVE ChatTypeOK'
    BY <1>0, <1>2, <1>4 DEF Disconnect, ChatTypeOK
  <1>5. ASSUME NEW u \in Users, SubscribeToRoom(u) PROVE ChatTypeOK'
    BY <1>0, <1>2, <1>5 DEF SubscribeToRoom, Handled, ChatTypeOK
  <1>6. ASSUME NEW u \in Users, UnsubscribeFromRoom(u) PROVE ChatTypeOK'
    BY <1>0, <1>2, <1>6 DEF UnsubscribeFromRoom, Handled, ChatTypeOK
  <1>7. ASSUME NEW u \in Users, ListenForMessages(u) PROVE ChatTypeOK'
    <2>1. /\ sent < MaxMessages /\ sent' = sent + 1
          /\ createdAt' = [createdAt EXCEPT ![sent + 1] = now]
          /\ saving' = saving \cup {sent + 1}
          /\ admitted' \subseteq admitted
          /\ UNCHANGED <<joined, stored, lost, wereMembers, roomVars>>
      BY <1>7 DEF ListenForMessages, Handled, ToSave
    <2>2. sent' \in 0..MaxMessages /\ 1..sent' = (1..sent) \cup {sent + 1} /\ sent + 1 \notin 1..sent
      BY <1>0, <2>1
    <2>3. createdAt' \in [Messages -> Times]
      BY <1>0, <2>1 DEF TypeOK
    <2>4. /\ saving' \cup stored' \cup lost' = 1..sent'
          /\ saving' \cap stored' = {} /\ saving' \cap lost' = {} /\ stored' \cap lost' = {}
      BY <1>0, <2>1, <2>2
    <2>5. QED
      BY <1>0, <1>2, <2>1, <2>2, <2>3, <2>4 DEF ChatTypeOK
  <1>8. ASSUME NEW m \in Messages, SaveMessage(m) PROVE ChatTypeOK'
    BY <1>0, <1>2, <1>8 DEF SaveMessage, CreatedAtAfterSave, ChatTypeOK
  <1>9. ASSUME NEW m \in Messages, SaveIsRejected(m) PROVE ChatTypeOK'
    BY <1>0, <1>2, <1>9 DEF SaveIsRejected, ChatTypeOK
  <1>10. CASE ChatCrash
    BY <1>0, <1>2, <1>10 DEF ChatCrash, ChatTypeOK
  <1>11. CASE UNCHANGED allVars
    BY <1>0, <1>2, <1>11 DEF allVars, roomVars, ChatTypeOK
  <1>12. QED
    BY <1>1, <1>3, <1>4, <1>5, <1>6, <1>7, <1>8, <1>9, <1>10, <1>11 DEF CNext

LEMMA LetInStep == ChatTypeOK /\ LetIn /\ [CNext]_allVars => LetIn'
  <1> SUFFICES ASSUME ChatTypeOK, LetIn, [CNext]_allVars PROVE LetIn'
    OBVIOUS
  <1>1. CASE RoomStep
    <2>1. \A u \in Users : IsMember(u)' => u \in wereMembers'
      BY <1>1 DEF RoomStep
    <2>2. wereMembers \subseteq wereMembers' /\ UNCHANGED <<joined, admitted>>
      BY <1>1 DEF RoomStep
    <2>3. QED
      BY <2>1, <2>2 DEF LetIn
  <1>2. ASSUME UNCHANGED <<wereMembers, roomVars>>,
               \A e \in admitted' : e.user \in wereMembers, joined' \subseteq wereMembers
        PROVE  LetIn'
    BY <1>2, MembersStay DEF LetIn
  <1>3. ASSUME NEW u \in Users, AdmitEvent(u) PROVE LetIn'
    <2>1. u \in wereMembers
      BY <1>3, GuardAdmitsMembers DEF LetIn
    <2>2. QED
      BY <1>2, <1>3, <2>1 DEF AdmitEvent, LetIn
  <1>4. ASSUME NEW u \in Users, Disconnect(u) PROVE LetIn'
    BY <1>2, <1>4 DEF Disconnect, LetIn
  \* The handler joins the user whom the guard has let in.
  <1>5. ASSUME NEW u \in Users, SubscribeToRoom(u) PROVE LetIn'
    <2>1. [kind |-> "subscribe", user |-> u].user = u
      OBVIOUS
    <2>2. QED
      BY <1>2, <1>5, <2>1 DEF SubscribeToRoom, Handled, LetIn
  <1>6. ASSUME NEW u \in Users, UnsubscribeFromRoom(u) \/ ListenForMessages(u) PROVE LetIn'
    BY <1>2, <1>6 DEF UnsubscribeFromRoom, ListenForMessages, Handled, LetIn
  <1>7. ASSUME NEW m \in Messages, SaveMessage(m) \/ SaveIsRejected(m) PROVE LetIn'
    BY <1>2, <1>7 DEF SaveMessage, SaveIsRejected, LetIn
  <1>8. CASE ChatCrash
    BY <1>2, <1>8 DEF ChatCrash, LetIn
  <1>9. CASE UNCHANGED allVars
    BY <1>2, <1>9 DEF allVars, roomVars, LetIn
  <1>10. QED
    BY <1>1, <1>3, <1>4, <1>5, <1>6, <1>7, <1>8, <1>9 DEF CNext

LEMMA CreatedInOrderStep ==
    ChatTypeOK /\ CreatedInOrder /\ [CNext]_allVars => CreatedInOrder'
  <1> SUFFICES ASSUME ChatTypeOK, CreatedInOrder, [CNext]_allVars PROVE CreatedInOrder'
    OBVIOUS
  <1>0. /\ sent \in 0..MaxMessages /\ createdAt \in [Messages -> Times] /\ now \in Times
        /\ TypeOK
    BY DEF ChatTypeOK, TypeOK
  <1>1. ASSUME UNCHANGED <<sent, createdAt>>, now <= now', now' \in Times
        PROVE  CreatedInOrder'
    <2>1. \A m \in 1..sent : createdAt[m] \in Nat
      BY <1>0 DEF Messages, Times
    <2>2. now \in Nat /\ now' \in Nat
      BY <1>0, <1>1 DEF Times
    <2>3. QED
      BY <1>1, <2>1, <2>2 DEF CreatedInOrder
  <1>2. ASSUME UNCHANGED <<sent, createdAt, roomVars>> PROVE CreatedInOrder'
    <2>1. now' = now
      BY <1>2 DEF roomVars
    <2>2. QED
      BY <1>0, <1>1, <1>2, <2>1 DEF Times
  <1>3. CASE RoomStep
    <2>1. now <= now' /\ now' \in Times
      BY <1>0, <1>3, ClockAdvances, TypeOKStep DEF RoomStep, TypeOK
    <2>2. QED
      BY <1>1, <1>3, <2>1 DEF RoomStep
  <1>4. ASSUME NEW u \in Users, ListenForMessages(u) PROVE CreatedInOrder'
    <2>1. /\ sent < MaxMessages /\ sent' = sent + 1
          /\ createdAt' = [createdAt EXCEPT ![sent + 1] = now]
          /\ now' = now
      BY <1>4 DEF ListenForMessages, roomVars
    <2>2. \A m \in 1..sent' : (m \in 1..sent /\ m # sent + 1) \/ m = sent + 1
      BY <1>0, <2>1
    <2>3. /\ createdAt'[sent + 1] = now
          /\ \A m \in 1..sent : createdAt'[m] = createdAt[m]
      BY <1>0, <2>1 DEF Messages
    <2>4. \A m \in 1..sent' : createdAt'[m] <= now'
      BY <1>0, <2>1, <2>2, <2>3 DEF CreatedInOrder, Times
    <2>5. ASSUME NEW m \in 1..sent', NEW n \in 1..sent', m < n
          PROVE  createdAt'[m] <= createdAt'[n]
      <3>1. m \in 1..sent
        BY <1>0, <2>1, <2>5
      <3>2. CASE n = sent + 1
        BY <2>1, <2>3, <2>4, <3>1, <3>2
      <3>3. CASE n \in 1..sent
        BY <2>3, <2>5, <3>1, <3>3 DEF CreatedInOrder
      <3>4. QED
        BY <2>2, <3>2, <3>3
    <2>6. QED
      BY <2>4, <2>5 DEF CreatedInOrder
  <1>5. ASSUME NEW u \in Users,
               \/ AdmitEvent(u) \/ Disconnect(u)
               \/ SubscribeToRoom(u) \/ UnsubscribeFromRoom(u)
        PROVE  CreatedInOrder'
    BY <1>2, <1>5 DEF AdmitEvent, Disconnect, SubscribeToRoom, UnsubscribeFromRoom
  <1>6. ASSUME NEW m \in Messages, SaveMessage(m) \/ SaveIsRejected(m)
        PROVE  CreatedInOrder'
    BY <1>2, <1>6 DEF SaveMessage, SaveIsRejected, CreatedAtAfterSave
  <1>7. CASE ChatCrash
    BY <1>2, <1>7 DEF ChatCrash
  <1>8. CASE UNCHANGED allVars
    BY <1>2, <1>8 DEF allVars, roomVars
  <1>9. QED
    BY <1>3, <1>4, <1>5, <1>6, <1>7, <1>8 DEF CNext

\* A step of the system is a step of the room, or leaves it alone.
LEMMA RoomTakesItsSteps == [CNext]_allVars => [Next]_vars
  BY RoomVariables
     DEF CNext, allVars, vars, RoomStep, AdmitEvent, Disconnect, SubscribeToRoom,
         UnsubscribeFromRoom, ListenForMessages, SaveMessage, SaveIsRejected, ChatCrash

\* The chat only looks at the rooms: a behaviour of the two together is one of
\* the rooms, and every theorem of RoomLifecycleProofs holds of it.
THEOREM RoomsAreUnawareOfChat == CSpec => Spec
  <1>1. CInit => Init
    BY DEF CInit
  <1>2. QED
    BY <1>1, RoomTakesItsSteps, PTL DEF CSpec, Spec

\* Who is let in and when messages were created, at every step of the gateway:
\* the inductive invariant of the theorems below.
THEOREM ChatInvariant == CSpec => []ChatInv
  <1>1. ChatInv /\ [CNext]_allVars => ChatInv'
    BY ChatTypeOKStep, LetInStep, CreatedInOrderStep, RoomTakesItsSteps, QuiescentStep
       DEF ChatInv, ChatTypeOK
  <1>2. QED
    BY <1>1, ChatInvInit, PTL DEF CSpec

-----------------------------------------------------------------------------

\* Every message that was sent is being saved, stored or lost, and only one of
\* these, whoever leaves and whenever the process dies.
THEOREM ChatIsTyped == CSpec => []ChatTypeOK
  <1>1. ChatInv => ChatTypeOK
    BY DEF ChatInv
  <1>2. QED
    BY <1>1, ChatInvariant, PTL

\* A room's messages reach members and former members only, although nothing
\* tells the gateway when a membership ends between its guard and its handler.
THEOREM OnlyMembersSubscribe == CSpec => []SubscribersWereMembers
  <1>1. ChatInv => SubscribersWereMembers
    BY DEF ChatInv, LetIn, SubscribersWereMembers
  <1>2. QED
    BY <1>1, ChatInvariant, PTL

\* The history has the order in which the messages were received, in whatever
\* order the database stores them.
THEOREM HistoryIsInOrder == CSpec => []HistoryInOrder
  <1>1. ChatInv => HistoryInOrder
    <2> SUFFICES ASSUME ChatInv, NEW m \in stored, NEW n \in stored, m < n
                 PROVE  ~(createdAt[n] < createdAt[m])
      BY DEF HistoryInOrder, Before
    <2>1. /\ m \in 1..sent /\ n \in 1..sent /\ sent \in 0..MaxMessages
          /\ createdAt \in [Messages -> Times]
          /\ createdAt[m] <= createdAt[n]
      BY DEF ChatInv, ChatTypeOK, CreatedInOrder
    <2>2. createdAt[m] \in Nat /\ createdAt[n] \in Nat
      BY <2>1 DEF Messages, Times
    <2>3. QED
      BY <2>1, <2>2
  <1>2. QED
    BY <1>1, ChatInvariant, PTL

\* A removed room falls silent, although the chat never looks at the room.
THEOREM RemovedRoomsFallSilent == CSpec => RemovedRoomFallsSilent
  <1>1. ChatInv /\ [CNext]_allVars =>
          [room = "REMOVED" =>
              /\ admitted' \subseteq admitted
              /\ \A u \in Users : ~ReadsHistory(u)]_allVars
    <2> SUFFICES ASSUME ChatInv, [CNext]_allVars, room = "REMOVED"
                 PROVE  admitted' \subseteq admitted /\ \A u \in Users : ~ReadsHistory(u)
      OBVIOUS
    <2>1. \A u \in Users : ~IsMember(u)
      BY RemovedRoomHasNoMembers DEF ChatInv
    <2>2. \A u \in Users : ~AdmitEvent(u)
      BY <2>1, GuardAdmitsMembers
    <2>3. admitted' \subseteq admitted
      BY <2>2 DEF CNext, allVars, RoomStep, Disconnect, SubscribeToRoom,
                  UnsubscribeFromRoom, ListenForMessages, Handled, SaveMessage,
                  SaveIsRejected, ChatCrash
    <2>4. QED
      BY <2>1, <2>3 DEF ReadsHistory
  <1>2. QED
    BY <1>1, ChatInvariant, PTL DEF CSpec, RemovedRoomFallsSilent

\* Who has left the room cannot unsubscribe: only closing the socket, or
\* becoming a member again, ends what he receives.
THEOREM LeaversCannotUnsubscribe == CSpec => LeaverCannotUnsubscribe
  <1>1. [CNext]_allVars =>
          [\A u \in Users : Lingers(u) =>
              Lingers(u)' \/ IsMember(u)' \/ Disconnect(u) \/ ChatCrash]_allVars
    <2> SUFFICES ASSUME [CNext]_allVars, NEW u \in Users, Lingers(u), ~IsMember(u)',
                        ~Disconnect(u), ~ChatCrash
                 PROVE  Lingers(u)'
      OBVIOUS
    <2> DEFINE leaving == [kind |-> "unsubscribe", user |-> u]
    <2>1. u \in joined /\ ~IsMember(u) /\ leaving \notin admitted
      BY DEF Lingers
    <2> SUFFICES u \in joined' /\ leaving \notin admitted'
      BY DEF Lingers
    <2>2. CASE RoomStep
      BY <2>1, <2>2 DEF RoomStep
    <2>3. ASSUME NEW v \in Users, AdmitEvent(v) PROVE u \in joined' /\ leaving \notin admitted'
      <3>1. v # u
        BY <2>1, <2>3, GuardAdmitsMembers
      <3>2. \A kind \in {"subscribe", "unsubscribe", "send"} :
              [kind |-> kind, user |-> v] # leaving
        BY <3>1
      <3>3. QED
        BY <2>1, <2>3, <3>2 DEF AdmitEvent
    <2>4. ASSUME NEW v \in Users, Disconnect(v) PROVE u \in joined' /\ leaving \notin admitted'
      BY <2>1, <2>4 DEF Disconnect
    <2>5. ASSUME NEW v \in Users, UnsubscribeFromRoom(v)
          PROVE  u \in joined' /\ leaving \notin admitted'
      BY <2>1, <2>5 DEF UnsubscribeFromRoom, Handled
    <2>6. ASSUME NEW v \in Users, SubscribeToRoom(v) \/ ListenForMessages(v)
          PROVE  u \in joined' /\ leaving \notin admitted'
      BY <2>1, <2>6 DEF SubscribeToRoom, ListenForMessages, Handled
    <2>7. ASSUME NEW m \in Messages, SaveMessage(m) \/ SaveIsRejected(m)
          PROVE  u \in joined' /\ leaving \notin admitted'
      BY <2>1, <2>7 DEF SaveMessage, SaveIsRejected
    <2>8. CASE UNCHANGED allVars
      BY <2>1, <2>8 DEF allVars
    <2>9. QED
      BY <2>2, <2>3, <2>4, <2>5, <2>6, <2>7, <2>8 DEF CNext
  <1>2. QED
    BY <1>1, PTL DEF CSpec, LeaverCannotUnsubscribe
=============================================================================
