CONSTANTS
    u1 = u1
    u2 = u2
    u3 = u3
    top = top
    jungle = jungle
    middle = middle
    s1 = s1
    s2 = s2
    Users = {u1, u2, u3}
    LocalUsers = {u2, u3}
    Positions = {top, jungle, middle}
    Applications <- ThreeUsers
    MaxDemand = 2
    MaxTime = 1
    Slots = {s1, s2}
    Kinds = {"apply", "remove"}
    Overlapping = {"apply", "remove"}

SPECIFICATION RSpec
CHECK_DEADLOCK FALSE
SYMMETRY SlotSymmetry
PROPERTY RemovedRoomStaysRemoved
