\* Two facilities, an unknown name, open and closed days, ratings, and every
\* query.
CONSTANTS
    alice = alice
    bob = bob
    Users <- MCUsers
    Facilities = {"Weekday1", "Weekends"}
    Names = {"Weekday1", "Weekends", "Unknown"}
    Days = {"MONDAY", "SATURDAY"}
    Opening <- MCOpening
    NoFacility = NoFacility
    Times <- TwoTimes
    Ratings = {1, 5}
    MaxIDs = 2
    MaxRated = 1
SPECIFICATION Spec
SYMMETRY Symmetry
VIEW View
CHECK_DEADLOCK FALSE
INVARIANTS
    ConfirmedIDsUnique
PROPERTIES
    ChangeIsAnnounced
