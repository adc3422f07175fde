\* An update or delete of a booking that is not there or not the user's.
CONSTANTS
    alice = alice
    bob = bob
    Users <- MCUsers
    Facilities = {"Weekday1"}
    Names = {"Weekday1"}
    Days = {"MONDAY"}
    Opening <- MCOpening
    NoFacility = NoFacility
    Times <- Morning
    Ratings = {}
    MaxIDs = 3
    MaxRated = 0
SPECIFICATION Spec
SYMMETRY Symmetry
CHECK_DEADLOCK FALSE
INVARIANTS
    SuccessNamesABooking
