CONSTANTS
    u1 = u1
    u2 = u2
    u3 = u3
    top = top
    jungle = jungle
    Users = {u1, u2, u3}
    LocalUsers = {u2, u3}
    Positions = {top, jungle}
    Applications <- MCApplications
    MaxDemand = 2
    MaxTime = 1

SPECIFICATION Spec
CHECK_DEADLOCK FALSE
INVARIANTS TypeOK RemovedRoomQuiescent OneOwner NoDoubleBooking PendingReachesOwner
PROPERTIES RemovedRoomFrozen OwnerLostOnlyWithAccount OwnerlessRoomIsStuck PlacesAreKept
