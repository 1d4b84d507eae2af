CONSTANTS
    p1 = p1
    p2 = p2
    s1 = s1
    s2 = s2
    Slots = {s1, s2}
    Passwords = {p1, p2}
    CodeCooldown = 2
    GuessCooldown = 1
    MaxCodes = 1
    MaxHashes = 2
    MaxTime = 2

SPECIFICATION Spec
CHECK_DEADLOCK FALSE
SYMMETRY SlotSymmetry
PROPERTY GuessKeepsPassword
