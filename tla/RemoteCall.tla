------------------------------ MODULE RemoteCall ------------------------------
(***************************************************************************)
(* What at-most-once invocation promises, without network, retries or      *)
(* history: a client issues a call and waits; the server may perform an    *)
(* issued call, once, even after the client has given up on it; the client *)
(* gets the response of its own call, or gives up.                         *)
(***************************************************************************)
CONSTANTS Clients, Requests, Echoes, NoRequest, Execute(_, _, _), InitialApp, IDs, NoID

VARIABLES
    call,        \* call[c]: the call c made last
    waiting,     \* waiting[c]: c waits for its outcome
    result,      \* result[c]: the outcome of that call
    issued,      \* all calls made
    performed,   \* the calls the server has performed, with their responses
    app

vars == <<call, waiting, result, issued, performed, app>>

Init ==
    /\ call = [c \in Clients |-> [client |-> c, id |-> NoID, request |-> NoRequest]]
    /\ waiting = [c \in Clients |-> FALSE]
    /\ result = [c \in Clients |-> [kind |-> "none"]]
    /\ issued = {}
    /\ performed = {}
    /\ app = InitialApp

SameCall(p, m) == p.client = m.client /\ p.id = m.id

Issue(c, r, i) ==
    LET m == [client |-> c, id |-> i, request |-> r]
    IN  /\ ~ waiting[c]
        /\ ~ \E n \in issued : SameCall(n, m)
        /\ call' = [call EXCEPT ![c] = m]
        /\ waiting' = [waiting EXCEPT ![c] = TRUE]
        /\ result' = [result EXCEPT ![c] = [kind |-> "none"]]
        /\ issued' = issued \cup {m}
        /\ UNCHANGED <<performed, app>>

\* Faulty variant of Perform: a call may be performed again.
PerformAgain(m) ==
    /\ m.request \notin Echoes
    /\ LET o == Execute(app, m.client, m.request)
       IN  /\ app' = o.app
           /\ performed' = performed \cup {[client |-> m.client, id |-> m.id,
                                            request |-> m.request, response |-> o.reply]}
    /\ UNCHANGED <<call, waiting, result, issued>>

Perform(m) ==
    /\ m.request \notin Echoes
    /\ ~ \E p \in performed : SameCall(p, m)
    /\ LET o == Execute(app, m.client, m.request)
       IN  /\ app' = o.app
           /\ performed' = performed \cup {[client |-> m.client, id |-> m.id,
                                            request |-> m.request, response |-> o.reply]}
    /\ UNCHANGED <<call, waiting, result, issued>>

Return(c, x) ==
    /\ waiting[c]
    /\ waiting' = [waiting EXCEPT ![c] = FALSE]
    /\ result' = [result EXCEPT ![c] = x]
    /\ UNCHANGED <<call, issued, performed, app>>

Answer(c) ==
    \/ /\ call[c].request \in Echoes
       /\ Return(c, [kind |-> "answered", response |-> call[c].request])
    \/ \E p \in performed :
           /\ SameCall(p, call[c])
           /\ p.request = call[c].request
           /\ Return(c, [kind |-> "answered", response |-> p.response])

GiveUp(c) == Return(c, [kind |-> "failed"])

Next ==
    \/ \E c \in Clients, r \in Requests, i \in IDs : Issue(c, r, i)
    \/ \E m \in issued : Perform(m)
    \/ \E c \in Clients : Answer(c) \/ GiveUp(c)

Spec == Init /\ [][Next]_vars
=============================================================================
