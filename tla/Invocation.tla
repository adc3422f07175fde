------------------------------ MODULE Invocation ------------------------------
(***************************************************************************)
(* Remote invocation over UDP: the retrying client (Client::sendWithRetry, *)
(* sendRequest, receiveResponse) and the server loop (Server.main and the  *)
(* part of handleRequest that comes before and after the handler: echo,    *)
(* request history, reply).  What a handler does is the constant Execute.  *)
(*                                                                         *)
(* The network loses, duplicates, delays and reorders datagrams: it is the *)
(* set of all datagrams ever sent, and any of them may arrive at any time, *)
(* any number of times, or never.                                          *)
(***************************************************************************)
EXTENDS Integers

CONSTANTS
    Clients,           \* clients, by the address and port of their sockets
    Requests,          \* what a client may ask for
    Echoes,            \* the requests with operation ECHO
    Empty,             \* the response with no data
    BadRequest,        \* the response to a datagram that does not deserialize
    NoRequest,         \* not a request
    Execute(_, _, _),  \* Execute(app, client, request): [app, reply, ...]
    InitialApp,        \* the application's state when the server starts
    CheckHistory,      \* checkHistory of Server.java: at-most-once semantics
    DropRequest,       \* DROP_REQUEST of Server.java
    Damage,            \* whether datagrams may arrive damaged
    PortReuse,         \* whether a relaunched client may get an old port again
    MaxRetries,        \* MAX_RETRIES of Constants.hpp
    MaxCalls,          \* bound: calls of one client process
    MaxExecutions      \* bound: executions of one call (at-least-once)

ASSUME InvocationAssumption ==
    /\ Echoes \subseteq Requests
    /\ NoRequest \notin Requests
    /\ {CheckHistory, DropRequest, Damage, PortReuse} \subseteq BOOLEAN
    /\ MaxRetries \in Nat \ {0}
    /\ MaxCalls \in Nat
    /\ MaxExecutions \in Nat \ {0}

VARIABLES
    requestID,   \* requestID[c]: the id of c's next request
    call,        \* call[c]: the request message sendWithRetry was given last
    waiting,     \* waiting[c]: c is in sendWithRetry's loop
    attempt,     \* attempt[c]: how often the message has been sent
    result,      \* result[c]: what sendWithRetry returned last
    requests,    \* request datagrams sent
    replies,     \* reply datagrams sent
    DROP,        \* the toggle of Server.java
    history,     \* requestHistory: requests with their responses
    app,         \* what the handlers read and write
    executions   \* executions[c][i]: how often c's request i was executed

clientVars == <<requestID, call, waiting, attempt, result>>
serverVars == <<DROP, history, app, executions>>
vars == <<requestID, call, waiting, attempt, result, requests, replies,
          DROP, history, app, executions>>

IDs == 0 .. MaxCalls - 1

Message(c, i, r) == [client |-> c, id |-> i, request |-> r]

ReplyTo(m, i, x) == [client |-> m.client, id |-> i, response |-> x]

Entry(m, x) == [client |-> m.client, id |-> m.id, request |-> m.request, response |-> x]

NoResult    == [kind |-> "none"]
Failed      == [kind |-> "failed"]
Answered(x) == [kind |-> "answered", response |-> x]

Init ==
    /\ requestID = [c \in Clients |-> 0]
    /\ call = [c \in Clients |-> Message(c, -1, NoRequest)]
    /\ waiting = [c \in Clients |-> FALSE]
    /\ attempt = [c \in Clients |-> 0]
    /\ result = [c \in Clients |-> NoResult]
    /\ requests = {}
    /\ replies = {}
    /\ DROP = FALSE
    /\ history = {}
    /\ app = InitialApp
    /\ executions = [c \in Clients |-> [i \in IDs |-> 0]]

-----------------------------------------------------------------------------
(* The client *)

\* The message carries requestID as it is; sending it for the first time
\* increments it.
Call(c, r) ==
    /\ ~ waiting[c]
    /\ requestID[c] < MaxCalls
    /\ call' = [call EXCEPT ![c] = Message(c, requestID[c], r)]
    /\ requestID' = [requestID EXCEPT ![c] = @ + 1]
    /\ waiting' = [waiting EXCEPT ![c] = TRUE]
    /\ attempt' = [attempt EXCEPT ![c] = 1]
    /\ result' = [result EXCEPT ![c] = NoResult]
    /\ requests' = requests \cup {call'[c]}
    /\ UNCHANGED <<replies, serverVars>>

Return(c, x) ==
    /\ waiting' = [waiting EXCEPT ![c] = FALSE]
    /\ result' = [result EXCEPT ![c] = x]
    /\ UNCHANGED <<requestID, call, attempt, requests, replies, serverVars>>

\* Faulty variants of Retry: one attempt too many, no count of the attempts,
\* and a fresh id for every attempt.
RetryTooOften(c) ==
    IF attempt[c] <= MaxRetries
    THEN /\ attempt' = [attempt EXCEPT ![c] = @ + 1]
         /\ requests' = requests \cup {call[c]}
         /\ UNCHANGED <<requestID, call, waiting, result, replies, serverVars>>
    ELSE Return(c, Failed)

RetryForever(c) ==
    /\ requests' = requests \cup {call[c]}
    /\ UNCHANGED <<clientVars, replies, serverVars>>

RetryFreshID(c) ==
    IF attempt[c] < MaxRetries /\ requestID[c] < MaxCalls
    THEN /\ attempt' = [attempt EXCEPT ![c] = @ + 1]
         /\ call' = [call EXCEPT ![c].id = requestID[c]]
         /\ requestID' = [requestID EXCEPT ![c] = @ + 1]
         /\ requests' = requests \cup {call'[c]}
         /\ UNCHANGED <<waiting, result, replies, serverVars>>
    ELSE Return(c, Failed)

\* An attempt brought no response: send the same message again, or give up.
Retry(c) ==
    IF attempt[c] < MaxRetries
    THEN /\ attempt' = [attempt EXCEPT ![c] = @ + 1]
         /\ requests' = requests \cup {call[c]}
         /\ UNCHANGED <<requestID, call, waiting, result, replies, serverVars>>
    ELSE Return(c, Failed)

\* Faulty variant of IsResponse: the id of the reply is not compared.
AnyResponse(c, m) == m.response # Empty

IsResponse(c, m) == m.id = call[c].id /\ m.response # Empty

ReceiveResponse(c) ==
    /\ waiting[c]
    /\ \E m \in replies : m.client = c /\ IsResponse(c, m) /\ Return(c, Answered(m.response))

\* Any other datagram, late or without data, uses up the attempt.
ReceiveOther(c) ==
    /\ waiting[c]
    /\ \E m \in replies : m.client = c /\ ~ IsResponse(c, m)
    /\ Retry(c)

\* Nothing arrived in TIMEOUT_SEC, or a reply that does not deserialize.
Timeout(c) == waiting[c] /\ Retry(c)

\* The user quits the client and starts it again, and the system hands out the
\* same port: requestID starts at 0, all else of the old process is gone.
Relaunch(c) ==
    /\ PortReuse
    /\ ~ waiting[c]
    /\ requestID[c] > 0
    /\ requestID' = [requestID EXCEPT ![c] = 0]
    /\ call' = [call EXCEPT ![c] = Message(c, -1, NoRequest)]
    /\ result' = [result EXCEPT ![c] = NoResult]
    /\ UNCHANGED <<waiting, attempt, requests, replies, serverVars>>

-----------------------------------------------------------------------------
(* The server: one datagram from its receipt to its reply *)

\* With DROP_REQUEST every other datagram is thrown away, the first one first.
ServerDrop(m) ==
    /\ DropRequest /\ ~ DROP
    /\ DROP' = TRUE
    /\ UNCHANGED <<clientVars, requests, replies, history, app, executions>>

Admitted == IF DropRequest THEN DROP /\ DROP' = FALSE ELSE UNCHANGED DROP

Send(m, i, x) == replies' = replies \cup {ReplyTo(m, i, x)}

\* The datagram does not deserialize: the reply has id 0 and is not recorded.
ServerBadRequest(m) ==
    /\ Damage
    /\ Admitted
    /\ Send(m, 0, BadRequest)
    /\ UNCHANGED <<clientVars, requests, history, app, executions>>

ServerEcho(m) ==
    /\ Admitted
    /\ m.request \in Echoes
    /\ Send(m, m.id, m.request)
    /\ UNCHANGED <<clientVars, requests, history, app, executions>>

\* The test of containsRequest.
SameRequest(h, m) == h.client = m.client /\ h.id = m.id

\* containsRequest finds the request: its response is sent again.
ServerDuplicate(m) ==
    /\ Admitted
    /\ m.request \notin Echoes
    /\ CheckHistory
    /\ \E h \in history : SameRequest(h, m) /\ Send(m, h.id, h.response)
    /\ UNCHANGED <<clientVars, requests, history, app, executions>>

\* Faulty variant of Record: only the newest request is kept.
RecordNewest(m, x) == {Entry(m, x)}

\* addRequest
Record(m, x) == history \cup {Entry(m, x)}

\* The request is executed and recorded; without CheckHistory it is recorded
\* too, but never looked up.
ServerExecute(m) ==
    /\ Admitted
    /\ m.request \notin Echoes
    /\ ~ (CheckHistory /\ \E h \in history : SameRequest(h, m))
    /\ executions[m.client][m.id] < MaxExecutions
    /\ LET o == Execute(app, m.client, m.request)
       IN  /\ app' = o.app
           /\ history' = Record(m, o.reply)
           /\ Send(m, m.id, o.reply)
    /\ executions' = [executions EXCEPT ![m.client][m.id] = @ + 1]
    /\ UNCHANGED <<clientVars, requests>>

ClientStep(c) ==
    \/ \E r \in Requests : Call(c, r)
    \/ ReceiveResponse(c)
    \/ ReceiveOther(c)
    \/ Timeout(c)
    \/ Relaunch(c)

ServerStep(m) ==
    \/ ServerDrop(m)
    \/ ServerBadRequest(m)
    \/ ServerEcho(m)
    \/ ServerDuplicate(m)
    \/ ServerExecute(m)

Next == (\E c \in Clients : ClientStep(c)) \/ (\E m \in requests : ServerStep(m))

Spec == Init /\ [][Next]_vars

\* A blocked receive ends by itself: SO_RCVTIMEO is set on the socket.
FairSpec == Spec /\ \A c \in Clients : WF_vars(Timeout(c))

-----------------------------------------------------------------------------
(* Properties *)

\* Every variable has its type; responses and the application's state are
\* whatever Execute makes of them.
TypeOK ==
    /\ requestID \in [Clients -> 0 .. MaxCalls]
    /\ call \in [Clients -> [client : Clients, id : IDs \cup {-1}, request : Requests \cup {NoRequest}]]
    /\ result = [c \in Clients |-> result[c]]
    /\ \A c \in Clients : call[c].client = c /\ result[c].kind \in {"none", "failed", "answered"}
    /\ waiting \in [Clients -> BOOLEAN]
    /\ attempt \in [Clients -> 0 .. MaxRetries]
    /\ requests \subseteq [client : Clients, id : IDs, request : Requests]
    /\ \A m \in replies : m.client \in Clients /\ m.id \in IDs
    /\ \A h \in history : h.client \in Clients /\ h.id \in IDs /\ h.request \in Requests
    /\ DROP \in BOOLEAN
    /\ executions \in [Clients -> [IDs -> 0 .. MaxExecutions]]

\* At-most-once: however often a datagram is retried, duplicated or delayed,
\* no request id of a client is executed twice (containsRequest, addRequest).
ExecutedAtMostOnce ==
    CheckHistory => \A c \in Clients, i \in IDs : executions[c][i] <= 1

\* A client that was answered was answered about the call it made: the
\* response is the one recorded for this id and this very request, never that
\* of an older call (the id test of receiveResponse).
AnswerIsOwn ==
    \A c \in Clients : result[c].kind = "answered" =>
        \/ Damage /\ result[c].response = BadRequest
        \/ call[c].request \in Echoes /\ result[c].response = call[c].request
        \/ \E h \in history : /\ SameRequest(h, call[c])
                            /\ h.request = call[c].request
                            /\ h.response = result[c].response

\* A call that was answered has been executed, exactly once with a history
\* and at least once without.
AnsweredWasExecuted ==
    \A c \in Clients :
        result[c].kind = "answered" /\ call[c].request \notin Echoes /\ result[c].response # BadRequest =>
            LET n == executions[c][call[c].id]
            IN  IF CheckHistory THEN n = 1 ELSE n >= 1

\* Every call comes to an end, answered or not (MAX_RETRIES).
CallReturns == \A c \in Clients : waiting[c] ~> ~ waiting[c]

-----------------------------------------------------------------------------
(* What a caller sees of this is RemoteCall *)

RC == INSTANCE RemoteCall WITH
          NoID <- -1, issued <- requests, performed <- history

\* With a history, and as long as ids stay unique and datagrams whole, network,
\* retries, toggle and history are invisible: they implement RemoteCall.
ImplementsRemoteCall == RC!Spec
=============================================================================
