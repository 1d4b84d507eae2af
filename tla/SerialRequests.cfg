CONSTANTS
    u1 = u1
    u2 = u2
    u3 = u3
    top = top
    jungle = jungle
    middle = middle
    s1 = s1
    s2 = s2
    Users = {u1, u2}
    LocalUsers = {u2}
    Positions = {top, jungle}
    Applications <- TwoUsers
    MaxDemand = 2
    MaxTime = 1
    Slots = {s1}
    Kinds = {"apply", "approve", "reject", "update", "leave", "remove", "delete"}
    Overlapping = {}

SPECIFICATION RSpec
CHECK_DEADLOCK FALSE
PROPERTY ImplementsRoomLifecycle
