CONSTANTS
    top = top
    jungle = jungle
    euw = euw
    kr = kr
    Rooms = {1, 2, 3}
    Positions = {top, jungle}
    Regions = {euw, kr}
    Listings <- MCListings
    Searches <- MCSearches
    MaxTime = 2
    MaxChanges = 2

SPECIFICATION SSpec
CHECK_DEADLOCK FALSE
INVARIANTS SearchTypeOK QuietWalkShowsEveryRoom DriftIsBounded FoundRoomsAreThere
