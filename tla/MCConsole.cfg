\* Every handler, every prompt, tidy users and others, and the end of the input.
CONSTANTS
    Lines <- MCLines
    IntOf <- MCIntOf
    TooBig = {"99999999999"}
    ServerIPs = {"localhost"}
    Times = {"0900"}
    BookingIDs = {"<uuid>"}
    Yes = {"yes"}
    No = {"no"}
    Comma = ","
    Blank = "_"
    Newline = "NL"
    MaxAhead = 1
SPECIFICATION FairSpec
CHECK_DEADLOCK FALSE
INVARIANTS
    TypeOK
    OwnAnswers
    EofChangesNothing
    CleanEnd
PROPERTIES
    BackToMenu
