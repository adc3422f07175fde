\* At-most-once, with request dropping, damaged datagrams, and relaunched clients
\* that get their old ports again.
CONSTANTS
    c1 = c1
    c2 = c2
    rate = rate
    book = book
    ping = ping
    Clients <- MCClients
    Requests = {rate, book, ping}
    Echoes = {ping}
    Empty = Empty
    BadRequest = BadRequest
    NoRequest = NoRequest
    Execute <- MCExecute
    InitialApp = 0
    CheckHistory = TRUE
    DropRequest = TRUE
    Damage = TRUE
    PortReuse = TRUE
    MaxRetries = 2
    MaxCalls = 1
    MaxExecutions = 2
SPECIFICATION Spec
SYMMETRY Symmetry
CHECK_DEADLOCK FALSE
INVARIANTS
    TypeOK
    ExecutedAtMostOnce
