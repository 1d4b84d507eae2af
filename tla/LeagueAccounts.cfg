CONSTANTS
    euw = euw
    na = na
    anna = anna
    kr = kr
    top = top
    jungle = jungle
    middle = middle
    s1 = s1
    s2 = s2
    Regions = {euw, na, kr}
    Summoners = {anna}
    Positions = {top, jungle, middle}
    Riot <- MCRiot
    Slots = {s1, s2}
    MaxAccounts = 2

SPECIFICATION ASpec
CHECK_DEADLOCK FALSE
SYMMETRY Interchangeable
INVARIANTS AccountsTypeOK KnownToRiot PositionsDiffer NoOrphans
PROPERTIES DeletionIsFinal ImplementsAccount
