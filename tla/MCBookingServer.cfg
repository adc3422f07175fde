\* One day of one facility: three confirmation ids, two users, four times in
\* every order, malformed slots among them.
CONSTANTS
    alice = alice
    bob = bob
    Users <- MCUsers
    Facilities = {"Weekday1"}
    Names = {"Weekday1"}
    Days = {"MONDAY"}
    Opening <- MCOpening
    NoFacility = NoFacility
    Times <- Morning
    Ratings = {}
    MaxIDs = 3
    MaxRated = 0
SPECIFICATION Spec
SYMMETRY Symmetry
VIEW View
CHECK_DEADLOCK FALSE
INVARIANTS
    TypeOK
    NoDoubleBooking
    FreeListAgrees
PROPERTIES
    OnlyOwnerRemoves
    ErrorChangesNothing
