CONSTANTS
    p1 = p1
    p2 = p2
    s1 = s1
    s2 = s2
    Slots = {s1}
    Passwords = {p1, p2}
    CodeCooldown = 3
    GuessCooldown = 2
    MaxCodes = 2
    MaxHashes = 2
    MaxTime = 6

SPECIFICATION Spec
CHECK_DEADLOCK FALSE
INVARIANTS PasswordTypeOK NeverPlainText PasswordIsUsable GuessesLimited
PROPERTY OnlyEntitledChanges
