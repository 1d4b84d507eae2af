CONSTANTS
    u1 = u1
    u2 = u2
    top = top
    jungle = jungle
    Users = {u1, u2}
    LocalUsers = {u1, u2}
    Positions = {top, jungle}
    Applications <- MCApplications
    MaxDemand = 1
    MaxTime = 1
    MaxEvents = 1
    MaxMessages = 2

SPECIFICATION CSpec
CHECK_DEADLOCK FALSE
INVARIANTS ChatTypeOK SubscribersWereMembers HistoryInOrder
PROPERTIES RemovedRoomFallsSilent LeaverCannotUnsubscribe BroadcastIsStored
