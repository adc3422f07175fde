--------------------------- MODULE InvocationProofs ---------------------------
(***************************************************************************)
(* Invocation for every set of clients and requests, every application and *)
(* every bound: types, at-most-once execution, and that an answer is the   *)
(* answer to the call that was made.                                       *)
(***************************************************************************)
EXTENDS Invocation, TLAPS

-----------------------------------------------------------------------------
(* Types *)

\* A client only waits for the outcome of a message it has sent.
WaitingWasSent == \A c \in Clients : waiting[c] => call[c] \in requests

TypeInv == TypeOK /\ WaitingWasSent

LEMMA TypeInit == Init => TypeInv
<1> SUFFICES ASSUME Init PROVE TypeInv
  OBVIOUS
<1> USE InvocationAssumption
<1>1. \A c \in Clients : Message(c, -1, NoRequest) \in
        [client : Clients, id : IDs \cup {-1}, request : Requests \cup {NoRequest}]
  BY DEF Message
<1>2. \A c \in Clients : call[c].client = c /\ result[c].kind \in {"none", "failed", "answered"}
  BY DEF Init, Message, NoResult
<1>3. requestID \in [Clients -> 0 .. MaxCalls]
  BY DEF Init
<1>4. attempt \in [Clients -> 0 .. MaxRetries] /\ executions \in [Clients -> [IDs -> 0 .. MaxExecutions]]
  BY DEF Init
<1>5. QED  BY <1>1, <1>2, <1>3, <1>4 DEF Init, TypeInv, TypeOK, WaitingWasSent

LEMMA TypeStep == TypeInv /\ [Next]_vars => TypeInv'
<1> SUFFICES ASSUME TypeInv, [Next]_vars PROVE TypeInv'
  OBVIOUS
<1> USE InvocationAssumption
<1>1. ASSUME NEW c \in Clients, NEW r \in Requests, Call(c, r) PROVE TypeInv'
  <2>1. requestID[c] \in IDs /\ requestID[c] + 1 \in 0 .. MaxCalls
    BY <1>1 DEF Call, TypeInv, TypeOK, IDs
  <2> DEFINE m == Message(c, requestID[c], r)
  <2>2. m \in [client : Clients, id : IDs, request : Requests] /\ m.client = c
    BY <1>1, <2>1 DEF Message
  <2>3. call' = [call EXCEPT ![c] = m] /\ requests' = requests \cup {m}
    BY <1>1 DEF Call, TypeInv, TypeOK
  <2> HIDE DEF m
  <2>4. QED
    BY <1>1, <2>1, <2>2, <2>3 DEF Call, TypeInv, TypeOK, NoResult, serverVars, WaitingWasSent
<1>2. ASSUME NEW c \in Clients, waiting[c], NEW x, x.kind \in {"none", "failed", "answered"}, Return(c, x)
      PROVE  TypeInv'
  BY <1>2 DEF Return, TypeInv, TypeOK, serverVars, WaitingWasSent
<1>3. ASSUME NEW c \in Clients, Retry(c), waiting[c] PROVE TypeInv'
  <2>1. CASE attempt[c] < MaxRetries
    <3>1. attempt[c] + 1 \in 0 .. MaxRetries
      BY <2>1 DEF TypeInv, TypeOK
    <3>2. requests' = requests \cup {call[c]} /\ call[c] \in requests
      BY <1>3, <2>1 DEF Retry, TypeInv, WaitingWasSent
    <3>3. requests' = requests
      BY <3>2
    <3>4. attempt' = [attempt EXCEPT ![c] = attempt[c] + 1]
          /\ UNCHANGED <<requestID, call, waiting, result, replies, serverVars>>
      BY <1>3, <2>1 DEF Retry
    <3>5. QED  BY <3>1, <3>3, <3>4 DEF TypeInv, TypeOK, serverVars, WaitingWasSent
  <2>2. CASE ~ (attempt[c] < MaxRetries)
    BY <1>2, <1>3, <2>2 DEF Retry, Failed
  <2>3. QED  BY <2>1, <2>2
<1>4. ASSUME NEW c \in Clients, ReceiveResponse(c) PROVE TypeInv'
  BY <1>2, <1>4 DEF ReceiveResponse, Answered
<1>5. ASSUME NEW c \in Clients, Relaunch(c) PROVE TypeInv'
  <2>1. Message(c, -1, NoRequest) \in
          [client : Clients, id : IDs \cup {-1}, request : Requests \cup {NoRequest}]
        /\ Message(c, -1, NoRequest).client = c
    BY <1>5 DEF Message
  <2>2. 0 \in 0 .. MaxCalls  OBVIOUS
  <2>3. QED
    BY <1>5, <2>1, <2>2 DEF Relaunch, TypeInv, TypeOK, NoResult, serverVars, WaitingWasSent
<1>6. ASSUME NEW m \in requests, ServerStep(m) PROVE TypeInv'
  <2>1. m.client \in Clients /\ m.id \in IDs /\ 0 \in IDs /\ m.request \in Requests
    BY DEF TypeInv, TypeOK, IDs
  <2>2. ASSUME NEW i \in IDs, NEW x, Send(m, i, x)
        PROVE  \A n \in replies' : n.client \in Clients /\ n.id \in IDs
    BY <2>1, <2>2 DEF Send, ReplyTo, TypeInv, TypeOK
  <2>3. Admitted => DROP' \in BOOLEAN
    BY DEF Admitted, TypeInv, TypeOK
  <2>4. CASE ServerDrop(m)
    BY <2>4 DEF ServerDrop, clientVars, TypeInv, TypeOK, WaitingWasSent
  <2>5. CASE ServerBadRequest(m)
    BY <2>1, <2>2, <2>3, <2>5 DEF ServerBadRequest, clientVars, TypeInv, TypeOK, WaitingWasSent
  <2>6. CASE ServerEcho(m)
    BY <2>1, <2>2, <2>3, <2>6 DEF ServerEcho, clientVars, TypeInv, TypeOK, WaitingWasSent
  <2>7. CASE ServerDuplicate(m)
    <3>1. PICK h \in history : Send(m, h.id, h.response)
      BY <2>7 DEF ServerDuplicate
    <3>2. h.id \in IDs
      BY DEF TypeInv, TypeOK
    <3>3. QED
      BY <2>2, <2>3, <2>7, <3>1, <3>2 DEF ServerDuplicate, clientVars, TypeInv, TypeOK, WaitingWasSent
  <2>8. CASE ServerExecute(m)
    <3> DEFINE o == Execute(app, m.client, m.request)
               e == Entry(m, o.reply)
    <3>1. e.client \in Clients /\ e.id \in IDs /\ e.request \in Requests
      BY <2>1 DEF Entry
    <3>2. history' = history \cup {e} /\ Send(m, m.id, o.reply)
      BY <2>8 DEF ServerExecute, Record
    <3> HIDE DEF e, o
    <3>3. executions' \in [Clients -> [IDs -> 0 .. MaxExecutions]]
      BY <2>1, <2>8 DEF ServerExecute, TypeInv, TypeOK
    <3>4. \A h \in history' : h.client \in Clients /\ h.id \in IDs /\ h.request \in Requests
      BY <3>1, <3>2 DEF TypeInv, TypeOK
    <3>5. UNCHANGED <<clientVars, requests>> /\ Admitted
      BY <2>8 DEF ServerExecute
    <3>6. QED
      BY <2>1, <2>2, <2>3, <3>2, <3>3, <3>4, <3>5 DEF clientVars, TypeInv, TypeOK, WaitingWasSent
  <2>9. QED  BY <1>6, <2>4, <2>5, <2>6, <2>7, <2>8 DEF ServerStep
<1>7. CASE UNCHANGED vars
  BY <1>7 DEF vars, TypeInv, TypeOK, WaitingWasSent
<1>8. QED
  BY <1>1, <1>3, <1>4, <1>5, <1>6, <1>7 DEF Next, ClientStep, ReceiveOther, Timeout

\* Type correctness, in every mode of the server.
THEOREM TypeCorrect == Spec => []TypeOK
<1>1. Spec => []TypeInv
  BY TypeInit, TypeStep, PTL DEF Spec
<1>2. TypeInv => TypeOK
  BY DEF TypeInv
<1>3. QED  BY <1>1, <1>2, PTL

-----------------------------------------------------------------------------
(* At-most-once execution *)

Recorded(c, i) == \E h \in history : h.client = c /\ h.id = i

\* The history knows which requests have been executed: ExecutedAtMostOnce is
\* not inductive without it.
HistoryInv ==
    /\ \A c \in Clients, i \in IDs : executions[c][i] >= 1 <=> Recorded(c, i)
    /\ ExecutedAtMostOnce

\* The record of an execution.
LEMMA ExecuteRecords ==
    ASSUME TypeOK, NEW m \in requests, ServerExecute(m)
    PROVE  /\ m.client \in Clients /\ m.id \in IDs
           /\ \E x : /\ history' = history \cup {Entry(m, x)}
                    /\ replies' = replies \cup {ReplyTo(m, m.id, x)}
           /\ \A c, i : Recorded(c, i)' <=> Recorded(c, i) \/ (c = m.client /\ i = m.id)
<1>1. m.client \in Clients /\ m.id \in IDs
  BY DEF TypeOK
<1>2. PICK x : /\ history' = history \cup {Entry(m, x)}
              /\ replies' = replies \cup {ReplyTo(m, m.id, x)}
  BY DEF ServerExecute, Record, Send
<1>3. Entry(m, x).client = m.client /\ Entry(m, x).id = m.id
  BY DEF Entry
<1>4. QED  BY <1>1, <1>2, <1>3 DEF Recorded

LEMMA HistoryStep == TypeInv /\ TypeInv' /\ HistoryInv /\ [Next]_vars => HistoryInv'
<1> SUFFICES ASSUME TypeInv, TypeInv', HistoryInv, [Next]_vars PROVE HistoryInv'
  OBVIOUS
<1> USE DEF TypeInv
<1>1. ASSUME NEW m \in requests, ServerExecute(m) PROVE HistoryInv'
  <2> DEFINE n == executions[m.client][m.id]
  <2>1. m.client \in Clients /\ m.id \in IDs
        /\ \A c, i : Recorded(c, i)' <=> Recorded(c, i) \/ (c = m.client /\ i = m.id)
    BY <1>1, ExecuteRecords
  <2>2. n \in Nat /\ (CheckHistory => ~ Recorded(m.client, m.id))
    BY <1>1, <2>1, InvocationAssumption DEF ServerExecute, SameRequest, Recorded, TypeOK
  <2>3. CheckHistory => n = 0
    BY <2>1, <2>2 DEF HistoryInv
  <2>4. \A c \in Clients, i \in IDs :
          executions'[c][i] = IF c = m.client /\ i = m.id THEN n + 1 ELSE executions[c][i]
    BY <1>1, <2>1 DEF ServerExecute, TypeOK
  <2>5. \A c \in Clients, i \in IDs : executions'[c][i] >= 1 <=> Recorded(c, i)'
    BY <2>1, <2>2, <2>4 DEF HistoryInv
  <2>6. ExecutedAtMostOnce'
    BY <2>2, <2>3, <2>4 DEF HistoryInv, ExecutedAtMostOnce
  <2>7. QED  BY <2>5, <2>6 DEF HistoryInv
<1>2. CASE UNCHANGED <<history, executions>>
  BY <1>2 DEF HistoryInv, Recorded, ExecutedAtMostOnce
<1>3. (\E m \in requests : ServerExecute(m)) \/ UNCHANGED <<history, executions>>
  BY DEF Next, ClientStep, Call, ReceiveResponse, ReceiveOther, Timeout, Retry, Return, Relaunch,
         ServerStep, ServerDrop, ServerBadRequest, ServerEcho, ServerDuplicate, serverVars, vars
<1>4. QED  BY <1>1, <1>2, <1>3

LEMMA HistoryAlways == Spec => [](TypeInv /\ HistoryInv)
<1>1. Init => HistoryInv
  BY InvocationAssumption DEF Init, HistoryInv, Recorded, ExecutedAtMostOnce
<1>2. TypeInv /\ HistoryInv /\ [Next]_vars => (TypeInv /\ HistoryInv)'
  BY TypeStep, HistoryStep
<1>3. QED  BY <1>1, <1>2, TypeInit, PTL DEF Spec

\* At-most-once execution, for every application, with dropped, damaged,
\* duplicated and reordered datagrams and reused ports alike.
THEOREM AtMostOnce == Spec => []ExecutedAtMostOnce
<1>1. TypeInv /\ HistoryInv => ExecutedAtMostOnce
  BY DEF HistoryInv
<1>2. QED  BY <1>1, HistoryAlways, PTL

-----------------------------------------------------------------------------
(* Answers *)

\* Ids are not used twice, and what is on record was asked for.
IssuedInv ==
    /\ \A m \in requests : m.id < requestID[m.client]
    /\ \A m, n \in requests : m.client = n.client /\ m.id = n.id => m = n
    /\ \A h \in history : [client |-> h.client, id |-> h.id, request |-> h.request] \in requests
    /\ \A c \in Clients : result[c].kind = "answered" => call[c] \in requests

\* Where a reply on the network comes from.
FromDamage(p)  == Damage /\ p.response = BadRequest
FromEcho(p)    == \E m \in requests : /\ m.request \in Echoes /\ p.response = m.request
                                     /\ p.client = m.client /\ p.id = m.id
FromHistory(p) == \E h \in history : SameRequest(h, p) /\ p.response = h.response

RepliesInv == \A p \in replies : FromDamage(p) \/ FromEcho(p) \/ FromHistory(p)

AnswerInv == IssuedInv /\ RepliesInv /\ AnswerIsOwn

\* Datagrams and records never disappear, so a reply stays justified.
LEMMA JustifiedReplies ==
    ASSUME RepliesInv, requests \subseteq requests', history \subseteq history'
    PROVE  \A p \in replies : (FromDamage(p) \/ FromEcho(p) \/ FromHistory(p))'
BY DEF RepliesInv, FromDamage, FromEcho, FromHistory, SameRequest

\* So does the answer of a client that makes no step.
LEMMA JustifiedAnswers ==
    ASSUME AnswerIsOwn, history \subseteq history', NEW c \in Clients,
           call'[c] = call[c], result'[c] = result[c], result'[c].kind = "answered"
    PROVE  \/ Damage /\ result'[c].response = BadRequest
           \/ call'[c].request \in Echoes /\ result'[c].response = call'[c].request
           \/ \E h \in history' : /\ SameRequest(h, call'[c])
                                /\ h.request = call'[c].request
                                /\ h.response = result'[c].response
BY DEF AnswerIsOwn, SameRequest

\* A response that passes the id test of receiveResponse belongs to the call.
LEMMA ResponseIsOwn ==
    ASSUME TypeInv, IssuedInv, RepliesInv, NEW c \in Clients, waiting[c],
           NEW p \in replies, p.client = c, p.id = call[c].id
    PROVE  \/ Damage /\ p.response = BadRequest
           \/ call[c].request \in Echoes /\ p.response = call[c].request
           \/ \E h \in history : /\ SameRequest(h, call[c])
                               /\ h.request = call[c].request
                               /\ h.response = p.response
<1>1. call[c] \in requests /\ call[c].client = c
  BY DEF TypeInv, TypeOK, WaitingWasSent
<1>2. CASE FromEcho(p)
  <2>1. PICK m \in requests : m.request \in Echoes /\ p.response = m.request /\ p.client = m.client /\ p.id = m.id
    BY <1>2 DEF FromEcho
  <2>2. m = call[c]
    BY <1>1, <2>1 DEF IssuedInv
  <2>3. QED  BY <2>1, <2>2
<1>3. CASE FromHistory(p)
  <2>1. PICK h \in history : SameRequest(h, p) /\ p.response = h.response
    BY <1>3 DEF FromHistory
  <2>2. [client |-> h.client, id |-> h.id, request |-> h.request] = call[c]
    BY <1>1, <2>1 DEF IssuedInv, SameRequest
  <2>3. QED  BY <2>1, <2>2 DEF SameRequest
<1>4. QED  BY <1>2, <1>3 DEF RepliesInv, FromDamage

LEMMA AnswerStep ==
    ASSUME ~ PortReuse, TypeInv, TypeInv', AnswerInv, [Next]_vars
    PROVE  AnswerInv'
<1> USE DEF AnswerInv
<1>1. ASSUME NEW c \in Clients, NEW r \in Requests, Call(c, r) PROVE AnswerInv'
  <2> DEFINE m == Message(c, requestID[c], r)
  <2>1. m.client = c /\ m.id = requestID[c] /\ m.request = r
    BY DEF Message
  <2>2. /\ call' = [call EXCEPT ![c] = m]
        /\ requests' = requests \cup {m}
        /\ requestID' = [requestID EXCEPT ![c] = requestID[c] + 1]
        /\ result' = [result EXCEPT ![c] = NoResult]
        /\ UNCHANGED <<replies, history>>
    BY <1>1 DEF Call, serverVars, TypeInv, TypeOK
  <2> HIDE DEF m
  <2>3. requestID[c] \in IDs /\ \A d \in Clients : requestID[d] \in Int
    BY <1>1, InvocationAssumption DEF Call, TypeInv, TypeOK, IDs
  <2>4. \A n \in requests : n.client \in Clients /\ n.id \in Int
    BY InvocationAssumption DEF TypeInv, TypeOK, IDs
  <2>5. \A d \in Clients : result'[d].kind = "answered" =>
            d # c /\ result'[d] = result[d] /\ call'[d] = call[d]
    BY <2>2 DEF TypeInv, TypeOK, NoResult
  <2>6. IssuedInv'
    <3>1. \A n \in requests' : n.id < requestID'[n.client]
      BY <2>1, <2>2, <2>3, <2>4 DEF IssuedInv, TypeInv, TypeOK
    <3>2. \A n \in requests : ~ (n.client = m.client /\ n.id = m.id)
      BY <2>1, <2>3, <2>4 DEF IssuedInv
    <3>3. \A n, o \in requests' : n.client = o.client /\ n.id = o.id => n = o
      BY <2>2, <3>2 DEF IssuedInv
    <3>4. QED  BY <2>2, <2>5, <3>1, <3>3 DEF IssuedInv
  <2>7. RepliesInv'
    BY <2>2, JustifiedReplies DEF RepliesInv
  <2>8. AnswerIsOwn'
    BY <2>2, <2>5, JustifiedAnswers DEF AnswerIsOwn
  <2>9. QED  BY <2>6, <2>7, <2>8
<1>2. ASSUME NEW c \in Clients, NEW x, Return(c, x), waiting[c],
             \/ x.kind # "answered"
             \/ Damage /\ x.response = BadRequest
             \/ call[c].request \in Echoes /\ x.response = call[c].request
             \/ \E h \in history : /\ SameRequest(h, call[c])
                                 /\ h.request = call[c].request
                                 /\ h.response = x.response
      PROVE  AnswerInv'
  <2>1. result' = [result EXCEPT ![c] = x]
        /\ UNCHANGED <<requestID, call, requests, replies, history>>
    BY <1>2 DEF Return, serverVars
  <2>2. result'[c] = x /\ \A d \in Clients \ {c} : result'[d] = result[d]
    BY <2>1 DEF TypeInv, TypeOK
  <2>3. IssuedInv'
    BY <1>2, <2>1, <2>2 DEF IssuedInv, TypeInv, WaitingWasSent
  <2>4. RepliesInv'
    BY <2>1 DEF RepliesInv, FromDamage, FromEcho, FromHistory
  <2>5. AnswerIsOwn'
    BY <1>2, <2>1, <2>2 DEF AnswerIsOwn
  <2>6. QED  BY <2>3, <2>4, <2>5
<1>3. ASSUME NEW c \in Clients, ReceiveResponse(c) PROVE AnswerInv'
  <2>1. PICK p \in replies : p.client = c /\ IsResponse(c, p) /\ Return(c, Answered(p.response))
    BY <1>3 DEF ReceiveResponse
  <2>2. p.id = call[c].id /\ waiting[c] /\ Answered(p.response).response = p.response
    BY <1>3, <2>1 DEF ReceiveResponse, IsResponse, Answered
  <2>3. QED  BY <1>2, <2>1, <2>2, ResponseIsOwn
<1>4. ASSUME NEW c \in Clients, waiting[c], Retry(c) PROVE AnswerInv'
  <2>1. CASE attempt[c] < MaxRetries
    <3>1. requests' = requests \cup {call[c]} /\ call[c] \in requests
          /\ UNCHANGED <<requestID, call, result, replies, history>>
      BY <1>4, <2>1 DEF Retry, serverVars, TypeInv, WaitingWasSent
    <3>2. UNCHANGED <<requestID, call, result, requests, replies, history>>
      BY <3>1
    <3>3. QED  BY <3>2 DEF IssuedInv, RepliesInv, FromDamage, FromEcho, FromHistory, AnswerIsOwn
  <2>2. CASE ~ (attempt[c] < MaxRetries)
    <3>1. Return(c, Failed) /\ Failed.kind # "answered"
      BY <1>4, <2>2 DEF Retry, Failed
    <3>2. QED  BY <1>2, <1>4, <3>1
  <2>3. QED  BY <2>1, <2>2
<1>5. ASSUME NEW m \in requests, NEW i, NEW x, UNCHANGED <<clientVars, requests, history>>, Send(m, i, x),
             (FromDamage(ReplyTo(m, i, x)) \/ FromEcho(ReplyTo(m, i, x)) \/ FromHistory(ReplyTo(m, i, x)))
      PROVE  AnswerInv'
  <2>1. UNCHANGED <<requestID, call, result, requests, history>> /\ replies' = replies \cup {ReplyTo(m, i, x)}
    BY <1>5 DEF clientVars, Send
  <2>2. IssuedInv' /\ AnswerIsOwn'
    BY <2>1 DEF IssuedInv, AnswerIsOwn
  <2>3. RepliesInv'
    BY <1>5, <2>1 DEF RepliesInv, FromDamage, FromEcho, FromHistory
  <2>4. QED  BY <2>2, <2>3
<1>6. ASSUME NEW m \in requests, ServerExecute(m) PROVE AnswerInv'
  <2>1. PICK x : /\ history' = history \cup {Entry(m, x)}
                /\ replies' = replies \cup {ReplyTo(m, m.id, x)}
    BY <1>6, ExecuteRecords DEF TypeInv
  <2>2. UNCHANGED <<requestID, call, result, requests>>
    BY <1>6 DEF ServerExecute, clientVars
  <2>3. [client |-> m.client, id |-> m.id, request |-> m.request] = m
    BY DEF TypeInv, TypeOK
  <2>4. IssuedInv'
    BY <2>1, <2>2, <2>3 DEF IssuedInv, Entry
  <2>5. \A p \in replies : (FromDamage(p) \/ FromEcho(p) \/ FromHistory(p))'
    BY <2>1, <2>2, JustifiedReplies
  <2>6. FromHistory(ReplyTo(m, m.id, x))'
    <3>1. SameRequest(Entry(m, x), ReplyTo(m, m.id, x)) /\ ReplyTo(m, m.id, x).response = Entry(m, x).response
      BY DEF SameRequest, ReplyTo, Entry
    <3>2. Entry(m, x) \in history'
      BY <2>1
    <3>3. \E h \in history' : SameRequest(h, ReplyTo(m, m.id, x)) /\ ReplyTo(m, m.id, x).response = h.response
      BY <3>1, <3>2
    <3>4. QED  BY <3>3 DEF FromHistory, SameRequest, ReplyTo
  <2>7. AnswerIsOwn'
    BY <2>1, <2>2, JustifiedAnswers DEF AnswerIsOwn
  <2>8. QED  BY <2>1, <2>4, <2>5, <2>6, <2>7 DEF RepliesInv
<1>7. ASSUME NEW m \in requests, ServerStep(m) PROVE AnswerInv'
  <2>1. CASE ServerDrop(m)
    BY <2>1 DEF ServerDrop, clientVars, IssuedInv, RepliesInv, FromDamage, FromEcho, FromHistory, AnswerIsOwn
  <2>2. CASE ServerBadRequest(m)
    BY <1>5, <2>2 DEF ServerBadRequest, FromDamage, ReplyTo
  <2>3. CASE ServerEcho(m)
    BY <1>5, <2>3 DEF ServerEcho, FromEcho, ReplyTo
  <2>4. CASE ServerDuplicate(m)
    <3>1. PICK h \in history : SameRequest(h, m) /\ Send(m, h.id, h.response)
      BY <2>4 DEF ServerDuplicate
    <3>2. FromHistory(ReplyTo(m, h.id, h.response))
      BY <3>1 DEF FromHistory, ReplyTo, SameRequest
    <3>3. QED  BY <1>5, <2>4, <3>1, <3>2 DEF ServerDuplicate
  <2>5. QED  BY <1>6, <1>7, <2>1, <2>2, <2>3, <2>4 DEF ServerStep
<1>8. CASE UNCHANGED vars
  BY <1>8 DEF vars, IssuedInv, RepliesInv, FromDamage, FromEcho, FromHistory, AnswerIsOwn
<1>9. QED
  BY <1>1, <1>3, <1>4, <1>7, <1>8 DEF Next, ClientStep, ReceiveOther, Timeout, Relaunch

\* Without reused ports a client is answered about its own call.
THEOREM AnswersAreOwn == ~ PortReuse => (Spec => []AnswerIsOwn)
<1> SUFFICES ASSUME ~ PortReuse PROVE Spec => []AnswerIsOwn
  OBVIOUS
<1>1. Init => AnswerInv
  BY DEF Init, NoResult, AnswerInv, IssuedInv, RepliesInv, AnswerIsOwn
<1>2. TypeInv /\ AnswerInv /\ [Next]_vars => (TypeInv /\ AnswerInv)'
  BY TypeStep, AnswerStep
<1>3. AnswerInv => AnswerIsOwn
  BY DEF AnswerInv
<1>4. QED  BY <1>1, <1>2, <1>3, TypeInit, PTL DEF Spec

\* Without reused ports an answer that is no error report means execution:
\* once with a history, at least once without.
THEOREM AnswersMeanExecution == ~ PortReuse => (Spec => []AnsweredWasExecuted)
<1> SUFFICES ASSUME ~ PortReuse PROVE Spec => []AnsweredWasExecuted
  OBVIOUS
<1>1. TypeInv /\ HistoryInv /\ AnswerIsOwn => AnsweredWasExecuted
  <2> SUFFICES ASSUME TypeInv, HistoryInv, AnswerIsOwn,
                      NEW c \in Clients, result[c].kind = "answered",
                      call[c].request \notin Echoes, result[c].response # BadRequest
               PROVE  LET n == executions[c][call[c].id] IN IF CheckHistory THEN n = 1 ELSE n >= 1
    BY DEF AnsweredWasExecuted
  <2>1. PICK h \in history : SameRequest(h, call[c])
    BY DEF AnswerIsOwn
  <2>2. call[c].client = c /\ call[c].id \in IDs /\ Recorded(c, call[c].id)
    BY <2>1 DEF SameRequest, Recorded, TypeInv, TypeOK
  <2>3. executions[c][call[c].id] >= 1 /\ executions[c][call[c].id] \in Nat
    BY <2>2, InvocationAssumption DEF HistoryInv, TypeInv, TypeOK
  <2>4. QED  BY <2>2, <2>3 DEF HistoryInv, ExecutedAtMostOnce
<1>2. QED  BY <1>1, HistoryAlways, AnswersAreOwn, PTL

-----------------------------------------------------------------------------
(* Refinement *)

LEMMA RemoteCallInit == Init => RC!Init
BY DEF Init, Message, NoResult, RC!Init

LEMMA RemoteCallStep ==
    ASSUME CheckHistory, ~ PortReuse, ~ Damage, TypeInv, AnswerInv, [Next]_vars
    PROVE  [RC!Next]_RC!vars
<1>1. ASSUME NEW c \in Clients, NEW r \in Requests, Call(c, r) PROVE RC!Next
  <2> DEFINE m == [client |-> c, id |-> requestID[c], request |-> r]
  <2>1. requestID[c] \in IDs
    BY <1>1, InvocationAssumption DEF Call, TypeInv, TypeOK, IDs
  <2>2. \A n \in requests : ~ (n.client = c /\ n.id = requestID[c])
    BY <2>1, InvocationAssumption DEF AnswerInv, IssuedInv, TypeInv, TypeOK, IDs
  <2>3. call' = [call EXCEPT ![c] = m] /\ requests' = requests \cup {m}
    BY <1>1 DEF Call, Message, TypeInv, TypeOK
  <2>4. RC!Issue(c, r, requestID[c])
    BY <1>1, <2>2, <2>3 DEF Call, NoResult, serverVars, RC!Issue, RC!SameCall
  <2>5. QED  BY <2>1, <2>4 DEF RC!Next
<1>2. ASSUME NEW c \in Clients, NEW x, Return(c, x), waiting[c] PROVE RC!Return(c, x)
  BY <1>2 DEF Return, serverVars, RC!Return
<1>3. ASSUME NEW c \in Clients, ReceiveResponse(c) PROVE RC!Next
  <2>1. PICK p \in replies : p.client = c /\ IsResponse(c, p) /\ Return(c, Answered(p.response))
    BY <1>3 DEF ReceiveResponse
  <2> DEFINE x == [kind |-> "answered", response |-> p.response]
  <2>2. p.id = call[c].id /\ waiting[c]
    BY <1>3, <2>1 DEF ReceiveResponse, IsResponse
  <2>3. RC!Return(c, x)
    BY <1>2, <2>1, <2>2 DEF Answered
  <2>4. RC!Answer(c)
    BY <2>1, <2>2, <2>3, ResponseIsOwn DEF AnswerInv, SameRequest, RC!Answer, RC!SameCall
  <2>5. QED  BY <2>4 DEF RC!Next
<1>4. ASSUME NEW c \in Clients, waiting[c], Retry(c) PROVE RC!Next \/ UNCHANGED RC!vars
  <2>1. CASE attempt[c] < MaxRetries
    <3>1. requests' = requests \cup {call[c]} /\ call[c] \in requests
      BY <1>4, <2>1 DEF Retry, TypeInv, WaitingWasSent
    <3>2. requests' = requests
      BY <3>1
    <3>3. QED  BY <1>4, <2>1, <3>2 DEF Retry, serverVars, RC!vars
  <2>2. CASE ~ (attempt[c] < MaxRetries)
    <3>1. RC!GiveUp(c)
      BY <1>2, <1>4, <2>2 DEF Retry, Failed, RC!GiveUp
    <3>2. QED  BY <3>1 DEF RC!Next
  <2>3. QED  BY <2>1, <2>2
<1>5. ASSUME NEW m \in requests, ServerExecute(m) PROVE RC!Next
  <2>1. ~ \E h \in history : h.client = m.client /\ h.id = m.id
    BY <1>5 DEF ServerExecute, SameRequest
  <2>2. RC!Perform(m)
    BY <1>5, <2>1 DEF ServerExecute, clientVars, Record, Entry, RC!Perform, RC!SameCall
  <2>3. QED  BY <2>2 DEF RC!Next
<1>6. ASSUME NEW m \in requests, ServerDrop(m) \/ ServerEcho(m) \/ ServerDuplicate(m)
      PROVE  UNCHANGED RC!vars
  BY <1>6 DEF ServerDrop, ServerEcho, ServerDuplicate, clientVars, RC!vars
<1>7. CASE UNCHANGED vars
  BY <1>7 DEF vars, RC!vars
<1>8. QED
  BY <1>1, <1>3, <1>4, <1>5, <1>6, <1>7
  DEF Next, ClientStep, ReceiveOther, Timeout, Relaunch, ServerStep, ServerBadRequest

\* With a history, unique ids and whole datagrams, what callers see is
\* RemoteCall: at most one execution, and its response or none.
THEOREM RefinesRemoteCall ==
    CheckHistory /\ ~ PortReuse /\ ~ Damage => (Spec => ImplementsRemoteCall)
<1> SUFFICES ASSUME CheckHistory, ~ PortReuse, ~ Damage PROVE Spec => ImplementsRemoteCall
  OBVIOUS
<1>1. Init => TypeInv /\ AnswerInv
  BY TypeInit DEF Init, NoResult, AnswerInv, IssuedInv, RepliesInv, AnswerIsOwn
<1>2. TypeInv /\ AnswerInv /\ [Next]_vars => (TypeInv /\ AnswerInv)'
  BY TypeStep, AnswerStep
<1>3. TypeInv /\ AnswerInv /\ [Next]_vars => [RC!Next]_RC!vars
  BY RemoteCallStep
<1>4. QED  BY <1>1, <1>2, <1>3, RemoteCallInit, PTL DEF Spec, ImplementsRemoteCall, RC!Spec
=============================================================================
