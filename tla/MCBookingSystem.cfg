\* Two users: one has a booking and updates or deletes, the other does one thing.
CONSTANTS
    Users = {"alice", "bob"}
    Facilities = {"Weekday1"}
    Days = {"MONDAY", "TUESDAY"}
    Opening <- MCOpening
    NoFacility = NoFacility
    Handlers <- MCHandlers
    StartApp <- MCStartApp
    Answers <- MCAnswers
    NoRequest = NoRequest
    MaxCalls <- MCMaxCalls
SPECIFICATION Spec
CHECK_DEADLOCK FALSE
INVARIANTS
    TypeOK
    ScreensHold
    BookingsAreAskedFor
    OnlyAvailabilityStopsServer
PROPERTIES
    UpdatesMove
