-------------------------------- MODULE RoomChat --------------------------------
(***************************************************************************)
(* The chat of the room that RoomLifecycle follows (roomChat.gateway.ts,   *)
(* wsLeagueRoomDetails.guard.ts, roomChatMessage.service.ts).  Membership  *)
(* is the rooms' business and changes beside the chat: nothing tells the   *)
(* gateway.  Every user has one socket, which may disconnect and come      *)
(* back.                                                                   *)
(*                                                                         *)
(* The guards of an event await the database; then its handler runs        *)
(* without awaiting anything until it saves the message.  So an event is   *)
(* admitted, then handled, and a message is broadcast, then stored.        *)
(***************************************************************************)
EXTENDS RoomLifecycle

CONSTANTS
    MaxEvents,      \* bound: the events between their guards and handlers
    MaxMessages     \* bound: messages ever sent

ASSUME ChatBoundsAssumption == MaxEvents \in Nat /\ MaxMessages \in Nat

VARIABLES
    joined,         \* the users whose sockets are in the socket.io room
    admitted,       \* the events that have passed their guards
    sent,           \* the messages broadcast so far are 1..sent, in this order
    createdAt,      \* room_chat_message.createdAt, in the entity and the row
    saving,         \* the messages whose save() is awaited
    stored,         \* the room_chat_message rows
    lost,           \* the messages whose save() was rejected or has died
    wereMembers     \* history: the users who have been members at some time

chatVars == <<joined, admitted, sent, createdAt, saving, stored, lost, wereMembers>>
roomVars == <<room, date, demanded, status, owners, accounts, now>>
allVars == <<room, date, demanded, status, owners, accounts, now,
             joined, admitted, sent, createdAt, saving, stored, lost, wereMembers>>

Messages == 1..MaxMessages
Events == [kind : {"subscribe", "unsubscribe", "send"}, user : Users]

ChatTypeOK ==
    /\ TypeOK
    /\ joined \subseteq Users
    /\ admitted \subseteq Events
    /\ sent \in 0..MaxMessages
    /\ createdAt \in [Messages -> Times]
    /\ saving \cup stored \cup lost = 1..sent
    /\ saving \cap stored = {} /\ saving \cap lost = {} /\ stored \cap lost = {}
    /\ wereMembers \subseteq Users

CInit ==
    /\ Init
    /\ joined = {}
    /\ admitted = {}
    /\ sent = 0
    /\ createdAt = [m \in Messages |-> 0]
    /\ saving = {}
    /\ stored = {}
    /\ lost = {}
    /\ wereMembers = {}

-----------------------------------------------------------------------------
(* Events. *)

\* Mutant (SubscribersWereMembers): any application of the user will do.
PassesChatGuardWithAnyRow(u) == Rows(u) # {}

\* WsLeagueRoomDetailsGuard wants the row that findByLeagueUserAndRoomId
\* returns to be APPROVED; it may return any row of the user.
PassesChatGuard(u) == \E a \in Rows(u) : status[a] = "APPROVED"

\* Mutant (LeaverCannotUnsubscribe): unsubscribe_from_room is not guarded.
NeedsGuardUnlessLeaving(kind) == kind # "unsubscribe"

\* The guards are those of the whole gateway.
NeedsGuard(kind) == TRUE

AdmitEvent(u) ==
    /\ Cardinality(admitted) < MaxEvents
    /\ \E kind \in {"subscribe", "unsubscribe", "send"} :
        /\ NeedsGuard(kind) => PassesChatGuard(u)
        /\ admitted' = admitted \cup {[kind |-> kind, user |-> u]}
    /\ UNCHANGED <<joined, sent, createdAt, saving, stored, lost, wereMembers, roomVars>>

Handled(e) == e \in admitted /\ admitted' = admitted \ {e}

\* subscribe_to_room
SubscribeToRoom(u) ==
    /\ Handled([kind |-> "subscribe", user |-> u])
    /\ joined' = joined \cup {u}
    /\ UNCHANGED <<sent, createdAt, saving, stored, lost, wereMembers, roomVars>>

\* unsubscribe_from_room
UnsubscribeFromRoom(u) ==
    /\ Handled([kind |-> "unsubscribe", user |-> u])
    /\ joined' = joined \ {u}
    /\ UNCHANGED <<sent, createdAt, saving, stored, lost, wereMembers, roomVars>>

\* Mutant (BroadcastIsStored): a message nobody heard is not saved.
ToSaveIfHeard(u, m) == IF joined \subseteq {u} THEN {} ELSE {m}

ToSave(u, m) == {m}

\* send_message: the message is created, broadcast, and its save() begins.
ListenForMessages(u) ==
    /\ sent < MaxMessages
    /\ Handled([kind |-> "send", user |-> u])
    /\ sent' = sent + 1
    /\ createdAt' = [createdAt EXCEPT ![sent + 1] = now]
    /\ saving' = saving \cup ToSave(u, sent + 1)
    /\ UNCHANGED <<joined, stored, lost, wereMembers, roomVars>>

\* Mutant (HistoryInOrder): the column default now() sets createdAt.
CreatedAtAfterInsert(m) == [createdAt EXCEPT ![m] = now]

\* save() keeps the createdAt of the entity.
CreatedAtAfterSave(m) == createdAt

SaveMessage(m) ==
    /\ m \in saving
    /\ saving' = saving \ {m}
    /\ stored' = stored \cup {m}
    /\ createdAt' = CreatedAtAfterSave(m)
    /\ UNCHANGED <<joined, admitted, sent, lost, wereMembers, roomVars>>

\* Mutant (ChatTypeOK): a save() that was rejected is tried again.
SaveIsRejectedAndRetried(m) ==
    /\ m \in saving
    /\ lost' = lost \cup {m}
    /\ UNCHANGED <<joined, admitted, sent, createdAt, saving, stored, wereMembers, roomVars>>

\* The database rejects the save(): the message has been received, and stays
\* out of the history.
SaveIsRejected(m) ==
    /\ m \in saving
    /\ saving' = saving \ {m}
    /\ lost' = lost \cup {m}
    /\ UNCHANGED <<joined, admitted, sent, createdAt, stored, wereMembers, roomVars>>

\* GET /rooms/chat/messages/:roomId is for members; the rows are sorted by
\* createdAt.
ReadsHistory(u) == IsMember(u)
Before(m, n) == createdAt[m] < createdAt[n]

\* A socket leaves all rooms when it is closed.  Joining and leaving have no
\* effect on a closed socket; a message it has sent is still handled.
Disconnect(u) ==
    /\ u \in joined
    /\ joined' = joined \ {u}
    /\ admitted' = {e \in admitted : e.user = u => e.kind = "send"}
    /\ UNCHANGED <<sent, createdAt, saving, stored, lost, wereMembers, roomVars>>

\* The process dies, with its sockets, its events and what it was saving.
ChatCrash ==
    /\ joined # {} \/ admitted # {} \/ saving # {}
    /\ joined' = {}
    /\ admitted' = {}
    /\ saving' = {}
    /\ lost' = lost \cup saving
    /\ UNCHANGED <<sent, createdAt, stored, wereMembers, roomVars>>

\* A handler of the rooms, applications or accounts.
RoomStep ==
    /\ Next
    /\ wereMembers' = wereMembers \cup {u \in Users : IsMember(u)'}
    /\ UNCHANGED <<joined, admitted, sent, createdAt, saving, stored, lost>>

CNext ==
    \/ RoomStep
    \/ \E u \in Users :
        \/ AdmitEvent(u) \/ Disconnect(u)
        \/ SubscribeToRoom(u) \/ UnsubscribeFromRoom(u) \/ ListenForMessages(u)
    \/ \E m \in Messages : SaveMessage(m) \/ SaveIsRejected(m)
    \/ ChatCrash

\* An awaited save() is resolved or rejected at last.
CSpec ==
    /\ CInit /\ [][CNext]_allVars
    /\ \A m \in Messages : WF_allVars(SaveMessage(m) \/ SaveIsRejected(m))

-----------------------------------------------------------------------------
(* Safety. *)

\* Whoever receives the messages of a room has been a member of it once: no
\* interleaving of guards, handlers and the ends of memberships subscribes a
\* socket whose user was never let in.
SubscribersWereMembers == joined \subseteq wereMembers

\* The history, which is sorted by createdAt, does not contradict the order in
\* which the messages were received, in whatever order they are stored.
HistoryInOrder == \A m, n \in stored : m < n => ~Before(n, m)

(* What a step may never do. *)

\* A removed room falls silent: once it is removed no event for it is admitted
\* any more, only those that were admitted before can still be handled, and
\* nobody reads its history.  Neither the gateway nor the service looks at the
\* room; they rely on remove() having settled every row.
RemovedRoomFallsSilent ==
    [][room = "REMOVED" =>
        /\ admitted' \subseteq admitted
        /\ \A u \in Users : ~ReadsHistory(u)]_allVars

\* A subscription that has outlived the membership.
Lingers(u) ==
    u \in joined /\ ~IsMember(u) /\ [kind |-> "unsubscribe", user |-> u] \notin admitted

\* Who has left the room keeps receiving: the guard that keeps him from
\* subscribing keeps him from unsubscribing as well, so that only closing the
\* socket, or being a member again, ends it.
LeaverCannotUnsubscribe ==
    [][\A u \in Users : Lingers(u) =>
        Lingers(u)' \/ IsMember(u)' \/ Disconnect(u) \/ ChatCrash]_allVars

(* Liveness. *)

\* A message that was broadcast is in the history at last, also when its author
\* or the room is gone by then, unless its save() is rejected or dies with the
\* process.
BroadcastIsStored ==
    \A m \in Messages : sent >= m ~> m \in stored \cup lost
=============================================================================
