\* The refinement of RemoteCall and the end of every call: whole datagrams,
\* an echo without data among the requests.
CONSTANTS
    c1 = c1
    c2 = c2
    rate = rate
    book = book
    ping = ping
    Clients <- MCClients
    Requests = {rate, Empty}
    Echoes = {Empty}
    Empty = Empty
    BadRequest = BadRequest
    NoRequest = NoRequest
    Execute <- MCExecute
    InitialApp = 0
    CheckHistory = TRUE
    DropRequest = FALSE
    Damage = FALSE
    PortReuse = FALSE
    MaxRetries = 2
    MaxCalls = 2
    MaxExecutions = 2
SPECIFICATION FairSpec
CHECK_DEADLOCK FALSE
INVARIANT
    AnsweredWasExecuted
PROPERTIES
    ImplementsRemoteCall
    CallReturns
