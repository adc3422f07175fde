\* At-least-once: the history is not consulted.  Request dropping, damage.
CONSTANTS
    c1 = c1
    c2 = c2
    rate = rate
    book = book
    ping = ping
    Clients <- MCClients
    Requests = {rate, ping}
    Echoes = {ping}
    Empty = Empty
    BadRequest = BadRequest
    NoRequest = NoRequest
    Execute <- MCExecute
    InitialApp = 0
    CheckHistory = FALSE
    DropRequest = TRUE
    Damage = TRUE
    PortReuse = FALSE
    MaxRetries = 2
    MaxCalls = 2
    MaxExecutions = 2
SPECIFICATION Spec
SYMMETRY Symmetry
CHECK_DEADLOCK FALSE
INVARIANT
    AnswerIsOwn
