\* One client and a server that drops every other datagram.
CONSTANTS
    c1 = c1
    c2 = c2
    Clients = {c1}
    DropRequest = TRUE
    Lossy = FALSE
    Prompt = TRUE
    MaxRetries = 2
    MaxCalls = 30
SPECIFICATION FairSpec
CHECK_DEADLOCK FALSE
INVARIANTS
    DropsTolerated
PROPERTIES
    CallAnswered
