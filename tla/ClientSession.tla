----------------------------- MODULE ClientSession -----------------------------
(***************************************************************************)
(* One client's calls over first-in first-out channels, as on a single     *)
(* link: the datagrams the server has yet to read, and the replies the     *)
(* client's socket holds until the client reads them.  receiveResponse     *)
(* returns at once when the socket holds a reply, whichever call that is   *)
(* for, and every attempt of sendWithRetry reads at most one: what one     *)
(* call leaves behind, the next one has to read.                           *)
(*                                                                         *)
(* Replies are as in module Invocation, reduced to their ids; what the     *)
(* server executes does not matter here, for it answers every datagram     *)
(* that it does not drop, duplicates included.                             *)
(***************************************************************************)
EXTENDS Integers, Sequences

CONSTANTS
    Clients,
    DropRequest,   \* DROP_REQUEST of Server.java
    Lossy,         \* whether requests may be lost on the way
    Prompt,        \* whether every reply comes within TIMEOUT_SEC
    MaxRetries,    \* MAX_RETRIES of Constants.hpp
    MaxCalls       \* bound: calls of a client

ASSUME SessionAssumption ==
    /\ {DropRequest, Lossy, Prompt} \subseteq BOOLEAN
    /\ MaxRetries \in Nat \ {0}
    /\ MaxCalls \in Nat

VARIABLES
    requestID,   \* requestID[c]: the id of c's next request
    waiting,     \* waiting[c]: c is in sendWithRetry's loop
    attempt,     \* attempt[c]: how often the current message has been sent
    outcome,     \* outcome[c]: how c's last call ended
    sent,        \* sent[c]: ids of c's requests the server has not read yet
    socket,      \* socket[c]: ids of the replies in c's socket
    DROP,        \* the toggle of Server.java
    timeouts,    \* timeouts[c]: receives of c that timed out, in all its calls
    callStart    \* callStart[c]: backlog and timeouts when c's last call began

vars == <<requestID, waiting, attempt, outcome, sent, socket, DROP, timeouts, callStart>>

IDs == 0 .. MaxCalls - 1

\* Attempts of c that have not been accounted for by a reply c has read.
Outstanding(c) == Len(sent[c]) + Len(socket[c])

Init ==
    /\ requestID = [c \in Clients |-> 0]
    /\ waiting = [c \in Clients |-> FALSE]
    /\ attempt = [c \in Clients |-> 0]
    /\ outcome = [c \in Clients |-> "none"]
    /\ sent = [c \in Clients |-> <<>>]
    /\ socket = [c \in Clients |-> <<>>]
    /\ DROP = FALSE
    /\ timeouts = [c \in Clients |-> 0]
    /\ callStart = [c \in Clients |-> [backlog |-> 0, timeouts |-> 0]]

-----------------------------------------------------------------------------
(* The client *)

Call(c) ==
    /\ ~ waiting[c]
    /\ requestID[c] < MaxCalls
    /\ sent' = [sent EXCEPT ![c] = Append(@, requestID[c])]
    /\ requestID' = [requestID EXCEPT ![c] = @ + 1]
    /\ waiting' = [waiting EXCEPT ![c] = TRUE]
    /\ attempt' = [attempt EXCEPT ![c] = 1]
    /\ outcome' = [outcome EXCEPT ![c] = "none"]
    /\ callStart' = [callStart EXCEPT ![c] = [backlog |-> Outstanding(c), timeouts |-> timeouts[c]]]
    /\ UNCHANGED <<socket, DROP, timeouts>>

Return(c, x) ==
    /\ waiting' = [waiting EXCEPT ![c] = FALSE]
    /\ outcome' = [outcome EXCEPT ![c] = x]
    /\ UNCHANGED <<requestID, attempt, sent>>

\* Faulty variant of Retry: one attempt too many.
RetryTooOften(c) ==
    IF attempt[c] <= MaxRetries
    THEN /\ attempt' = [attempt EXCEPT ![c] = @ + 1]
         /\ sent' = [sent EXCEPT ![c] = Append(@, requestID[c] - 1)]
         /\ UNCHANGED <<requestID, waiting, outcome>>
    ELSE Return(c, "failed")

Retry(c) ==
    IF attempt[c] < MaxRetries
    THEN /\ attempt' = [attempt EXCEPT ![c] = @ + 1]
         /\ sent' = [sent EXCEPT ![c] = Append(@, requestID[c] - 1)]
         /\ UNCHANGED <<requestID, waiting, outcome>>
    ELSE Return(c, "failed")

\* Faulty variant of Receive: the reply is looked at but stays in the socket.
ReceivePeek(c) ==
    /\ waiting[c]
    /\ socket[c] # <<>>
    /\ IF Head(socket[c]) = requestID[c] - 1 THEN Return(c, "answered") ELSE Retry(c)
    /\ UNCHANGED <<socket, DROP, timeouts, callStart>>

\* Faulty variant of Receive: a reply with another id ends the call.
ReceiveOnce(c) ==
    /\ waiting[c]
    /\ socket[c] # <<>>
    /\ socket' = [socket EXCEPT ![c] = Tail(@)]
    /\ Return(c, IF Head(socket[c]) = requestID[c] - 1 THEN "answered" ELSE "failed")
    /\ UNCHANGED <<DROP, timeouts, callStart>>

\* The oldest reply in the socket is read; only its id can make it an answer.
Receive(c) ==
    /\ waiting[c]
    /\ socket[c] # <<>>
    /\ socket' = [socket EXCEPT ![c] = Tail(@)]
    /\ IF Head(socket[c]) = requestID[c] - 1 THEN Return(c, "answered") ELSE Retry(c)
    /\ UNCHANGED <<DROP, timeouts, callStart>>

\* Faulty variant of Timeout: the socket has no receive timeout.
TimeoutNever(c) ==
    /\ FALSE
    /\ UNCHANGED vars

\* The socket stayed empty for TIMEOUT_SEC.
Timeout(c) ==
    /\ waiting[c]
    /\ socket[c] = <<>>
    /\ Prompt => sent[c] = <<>>
    /\ timeouts' = [timeouts EXCEPT ![c] = @ + 1]
    /\ Retry(c)
    /\ UNCHANGED <<socket, DROP, callStart>>

-----------------------------------------------------------------------------
(* The network and the server *)

Lose(c) ==
    /\ Lossy
    /\ sent[c] # <<>>
    /\ sent' = [sent EXCEPT ![c] = Tail(@)]
    /\ UNCHANGED <<requestID, waiting, attempt, outcome, socket, DROP, timeouts, callStart>>

\* Faulty variant of Serve: DROP stays set once it is.
ServeStuck(c) ==
    /\ sent[c] # <<>>
    /\ sent' = [sent EXCEPT ![c] = Tail(@)]
    /\ DROP' = DropRequest
    /\ IF DROP' THEN UNCHANGED socket
       ELSE socket' = [socket EXCEPT ![c] = Append(@, Head(sent[c]))]
    /\ UNCHANGED <<requestID, waiting, attempt, outcome, timeouts, callStart>>

\* Every datagram is either dropped or answered with its id.
Serve(c) ==
    /\ sent[c] # <<>>
    /\ sent' = [sent EXCEPT ![c] = Tail(@)]
    /\ DROP' = IF DropRequest THEN ~ DROP ELSE DROP
    /\ IF DROP' THEN UNCHANGED socket
       ELSE socket' = [socket EXCEPT ![c] = Append(@, Head(sent[c]))]
    /\ UNCHANGED <<requestID, waiting, attempt, outcome, timeouts, callStart>>

Next == \E c \in Clients : Call(c) \/ Receive(c) \/ Timeout(c) \/ Lose(c) \/ Serve(c)

Spec == Init /\ [][Next]_vars

\* The server reads on, a receive returns when the socket holds a reply, and
\* times out when it stays empty.
FairSpec ==
    /\ Spec
    /\ \A c \in Clients : WF_vars(Serve(c)) /\ WF_vars(Receive(c)) /\ WF_vars(Timeout(c))

-----------------------------------------------------------------------------
(* Properties *)

\* Every component of the state has its type.
TypeOK ==
    /\ requestID \in [Clients -> 0 .. MaxCalls]
    /\ waiting \in [Clients -> BOOLEAN]
    /\ attempt \in [Clients -> 0 .. MaxRetries]
    /\ outcome \in [Clients -> {"none", "answered", "failed"}]
    /\ sent \in [Clients -> Seq(IDs)]
    /\ socket \in [Clients -> Seq(IDs)]
    /\ DROP \in BOOLEAN
    /\ timeouts \in [Clients -> Nat]
    /\ callStart \in [Clients -> [backlog : Nat, timeouts : Nat]]

\* Replies that nobody waits for only come from timeouts: as long as no
\* receive times out, a client reads as many replies as it sends requests.
BacklogIsTimeouts ==
    \A c \in Clients : Outstanding(c) <= timeouts[c] + (IF waiting[c] THEN 1 ELSE 0)

NoTimeout(c) == timeouts[c] = callStart[c].timeouts

\* A call none of whose receives timed out only fails if it began with as many
\* outstanding replies as it has attempts.
FailedNeedsBacklog ==
    \A c \in Clients :
        outcome[c] = "failed" /\ NoTimeout(c) => callStart[c].backlog >= MaxRetries

\* A single client is answered although every other datagram is dropped, the
\* first one first: its second attempt gets through.
DropsTolerated == \A c \in Clients : outcome[c] # "failed"

\* And it is answered in the end.
CallAnswered == \A c \in Clients : waiting[c] ~> outcome[c] = "answered"
=============================================================================
