CONSTANTS
    u1 = u1
    u2 = u2
    u3 = u3
    top = top
    jungle = jungle
    middle = middle
    s1 = s1
    s2 = s2
    Users = {u1, u2}
    LocalUsers = {u2}
    Positions = {top, jungle}
    Applications <- TwoUsers
    MaxDemand = 1
    MaxTime = 1
    Slots = {s1, s2}
    Kinds = {"apply", "approve", "leave", "remove", "delete"}
    Overlapping = {"apply", "approve", "leave", "remove", "delete"}

SPECIFICATION RSpec
CHECK_DEADLOCK FALSE
SYMMETRY SlotSymmetry
INVARIANTS RequestTypeOK NoRowWithoutAccount
PROPERTY ApplicationsNeverLost
