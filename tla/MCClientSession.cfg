\* A slow server, late replies and lost requests.
CONSTANTS
    c1 = c1
    c2 = c2
    Clients = {c1}
    DropRequest = FALSE
    Lossy = TRUE
    Prompt = FALSE
    MaxRetries = 3
    MaxCalls = 3
SPECIFICATION Spec
CHECK_DEADLOCK FALSE
INVARIANTS
    TypeOK
    BacklogIsTimeouts
    FailedNeedsBacklog
