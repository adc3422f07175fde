-------------------------- MODULE ClientSessionProofs --------------------------
(***************************************************************************)
(* ClientSession for any clients and bounds, lossy or not: what a client   *)
(* has not read never exceeds its timeouts, and a call that failed without *)
(* a timeout began behind.                                                 *)
(***************************************************************************)
EXTENDS ClientSession, TLAPS

\* What the steps of clients other than c leave alone.
Of(c) == <<requestID[c], waiting[c], attempt[c], outcome[c], sent[c], socket[c],
           timeouts[c], callStart[c]>>

\* A waiting client has taken an id.
WaitingHasID == \A c \in Clients : waiting[c] => requestID[c] \in 1 .. MaxCalls

TypeInv == TypeOK /\ WaitingHasID

\* Lemma: what Append, Head and Tail do to the entries of a sequence.
LEMMA QueueFacts ==
    ASSUME NEW S, NEW s \in Seq(S), NEW x \in S
    PROVE  /\ Len(s) \in Nat
           /\ Append(s, x) \in Seq(S)
           /\ Len(Append(s, x)) = Len(s) + 1
           /\ \A i \in 1 .. Len(s) : Append(s, x)[i] = s[i] /\ s[i] \in S
           /\ Append(s, x)[Len(s) + 1] = x
           /\ s # <<>> =>
                /\ Head(s) \in S /\ Head(s) = s[1]
                /\ Tail(s) \in Seq(S)
                /\ Len(s) >= 1 /\ Len(Tail(s)) = Len(s) - 1
                /\ \A i \in 1 .. Len(s) - 1 : Tail(s)[i] = s[i + 1]
<1>1. Len(s) \in Nat /\ Append(s, x) \in Seq(S) /\ Len(Append(s, x)) = Len(s) + 1
  OBVIOUS
<1>2. \A i \in 1 .. Len(s) : Append(s, x)[i] = s[i] /\ s[i] \in S
  OBVIOUS
<1>3. Append(s, x)[Len(s) + 1] = x
  OBVIOUS
<1>4. ASSUME s # <<>> PROVE Head(s) \in S /\ Head(s) = s[1] /\ Tail(s) \in Seq(S)
  BY <1>4
<1>5. ASSUME s # <<>> PROVE Len(s) >= 1 /\ Len(Tail(s)) = Len(s) - 1
  BY <1>5
<1>6. ASSUME s # <<>> PROVE \A i \in 1 .. Len(s) - 1 : Tail(s)[i] = s[i + 1]
  BY <1>6
<1>7. QED  BY <1>1, <1>2, <1>3, <1>4, <1>5, <1>6

-----------------------------------------------------------------------------
(* Types *)

LEMMA TypeInit == Init => TypeInv
<1> SUFFICES ASSUME Init PROVE TypeInv
  OBVIOUS
<1> USE SessionAssumption
<1>1. 0 \in 0 .. MaxCalls /\ 0 \in 0 .. MaxRetries /\ <<>> \in Seq(IDs)
  OBVIOUS
<1>2. QED  BY <1>1 DEF Init, TypeInv, TypeOK, WaitingHasID

LEMMA TypeStep == TypeInv /\ [Next]_vars => TypeInv'
<1> SUFFICES ASSUME TypeInv, [Next]_vars PROVE TypeInv'
  OBVIOUS
<1> USE SessionAssumption
<1>1. ASSUME NEW c \in Clients
      PROVE  /\ requestID[c] \in 0 .. MaxCalls /\ attempt[c] \in 0 .. MaxRetries
             /\ sent[c] \in Seq(IDs) /\ socket[c] \in Seq(IDs)
             /\ Len(sent[c]) \in Nat /\ Len(socket[c]) \in Nat /\ timeouts[c] \in Nat
             /\ sent[c] # <<>> => Head(sent[c]) \in IDs /\ Tail(sent[c]) \in Seq(IDs)
             /\ socket[c] # <<>> => Tail(socket[c]) \in Seq(IDs)
  BY DEF TypeInv, TypeOK
<1>2. ASSUME NEW c \in Clients, Call(c) PROVE TypeInv'
  <2>1. requestID[c] \in IDs /\ requestID[c] + 1 \in 1 .. MaxCalls
    BY <1>1, <1>2 DEF Call, IDs
  <2>2. Append(sent[c], requestID[c]) \in Seq(IDs)
    BY <1>1, <2>1, QueueFacts
  <2>3. [backlog |-> Outstanding(c), timeouts |-> timeouts[c]] \in [backlog : Nat, timeouts : Nat]
    <3>1. Outstanding(c) \in Nat
      <4>1. PICK n \in Nat, k \in Nat : Len(sent[c]) = n /\ Len(socket[c]) = k
        BY <1>1
      <4>2. QED  BY <4>1 DEF Outstanding
    <3>2. QED  BY <1>1, <3>1
  <2>4. 1 \in 0 .. MaxRetries
    OBVIOUS
  <2>5. callStart' \in [Clients -> [backlog : Nat, timeouts : Nat]]
    BY <1>2, <2>3 DEF Call, TypeInv, TypeOK
  <2>6. QED  BY <1>2, <2>1, <2>2, <2>4, <2>5 DEF Call, TypeInv, TypeOK, WaitingHasID
<1>3. ASSUME NEW c \in Clients, waiting[c], Retry(c) \/ Return(c, "answered")
      PROVE  /\ requestID' \in [Clients -> 0 .. MaxCalls]
             /\ waiting' \in [Clients -> BOOLEAN]
             /\ attempt' \in [Clients -> 0 .. MaxRetries]
             /\ outcome' \in [Clients -> {"none", "answered", "failed"}]
             /\ sent' \in [Clients -> Seq(IDs)]
             /\ WaitingHasID'
  <2>1. CASE Return(c, "answered") \/ Return(c, "failed")
    BY <2>1 DEF Return, TypeInv, TypeOK, WaitingHasID
  <2>2. CASE Retry(c) /\ attempt[c] < MaxRetries
    <3>1. requestID[c] - 1 \in IDs
      BY <1>3 DEF TypeInv, WaitingHasID, IDs
    <3>2. Append(sent[c], requestID[c] - 1) \in Seq(IDs) /\ attempt[c] + 1 \in 0 .. MaxRetries
      BY <1>1, <2>2, <3>1, QueueFacts
    <3>3. QED  BY <2>2, <3>2 DEF Retry, TypeInv, TypeOK, WaitingHasID
  <2>3. QED  BY <1>3, <2>1, <2>2 DEF Retry
<1>4. ASSUME NEW c \in Clients, Receive(c) PROVE TypeInv'
  <2>1. Retry(c) \/ Return(c, "answered")
    BY <1>4 DEF Receive
  <2>2. socket' \in [Clients -> Seq(IDs)]
    BY <1>1, <1>4 DEF Receive, TypeInv, TypeOK
  <2>3. QED  BY <1>3, <1>4, <2>1, <2>2 DEF Receive, TypeInv, TypeOK
<1>5. ASSUME NEW c \in Clients, Timeout(c) PROVE TypeInv'
  <2>1. timeouts' \in [Clients -> Nat]
    BY <1>5 DEF Timeout, TypeInv, TypeOK
  <2>2. QED  BY <1>3, <1>5, <2>1 DEF Timeout, TypeInv, TypeOK
<1>6. ASSUME NEW c \in Clients, Lose(c) PROVE TypeInv'
  BY <1>1, <1>6 DEF Lose, TypeInv, TypeOK, WaitingHasID
<1>7. ASSUME NEW c \in Clients, Serve(c) PROVE TypeInv'
  <2>1. Append(socket[c], Head(sent[c])) \in Seq(IDs)
    BY <1>1, <1>7, QueueFacts DEF Serve
  <2>2. sent' \in [Clients -> Seq(IDs)] /\ socket' \in [Clients -> Seq(IDs)]
    BY <1>1, <1>7, <2>1 DEF Serve, TypeInv, TypeOK
  <2>3. DROP' \in BOOLEAN
    BY <1>7 DEF Serve, TypeInv, TypeOK
  <2>4. QED  BY <1>7, <2>2, <2>3 DEF Serve, TypeInv, TypeOK, WaitingHasID
<1>8. CASE UNCHANGED vars
  BY <1>8 DEF vars, TypeInv, TypeOK, WaitingHasID
<1>9. QED  BY <1>2, <1>4, <1>5, <1>6, <1>7, <1>8 DEF Next

LEMMA TypeInvariant == Spec => []TypeInv
<1>1. QED  BY TypeInit, TypeStep, PTL DEF Spec

\* Theorem: every reachable state is well typed (sendWithRetry's counters and
\* the two queues), for any clients and bounds.
THEOREM TypeCorrect == Spec => []TypeOK
<1>1. TypeInv => TypeOK
  BY DEF TypeInv
<1>2. QED  BY <1>1, TypeInvariant, PTL

-----------------------------------------------------------------------------
(* What a step does to the client that takes it, and to the others *)

LEMMA StepIsLocal ==
    ASSUME TypeInv, NEW d \in Clients, Call(d) \/ Receive(d) \/ Timeout(d) \/ Lose(d) \/ Serve(d),
           NEW c \in Clients, c # d
    PROVE  Of(c)' = Of(c)
<1>1. ASSUME Retry(d) \/ Return(d, "answered") \/ Return(d, "failed")
      PROVE  /\ requestID'[c] = requestID[c] /\ waiting'[c] = waiting[c] /\ attempt'[c] = attempt[c]
             /\ outcome'[c] = outcome[c] /\ sent'[c] = sent[c]
  BY <1>1 DEF Retry, Return, TypeInv, TypeOK
<1>2. CASE Call(d)
  BY <1>2 DEF Call, Of, TypeInv, TypeOK
<1>3. CASE Receive(d)
  BY <1>1, <1>3 DEF Receive, Of, TypeInv, TypeOK
<1>4. CASE Timeout(d)
  BY <1>1, <1>4 DEF Timeout, Of, TypeInv, TypeOK
<1>5. CASE Lose(d)
  BY <1>5 DEF Lose, Of, TypeInv, TypeOK
<1>6. CASE Serve(d)
  BY <1>6 DEF Serve, Of, TypeInv, TypeOK
<1>7. QED  BY <1>2, <1>3, <1>4, <1>5, <1>6

-----------------------------------------------------------------------------
(* Backlog and failures *)

\* How many of the replies that its call began with c has not read, if none of
\* the receives of the call timed out.
Left(c) == callStart[c].backlog + 1 - attempt[c]

\* They are the first that c will read; all others are for the current call.
OldOnesFirst(c) ==
    waiting[c] /\ NoTimeout(c) =>
        /\ \A i \in 1 .. Len(socket[c]) : socket[c][i] # requestID[c] - 1 => i <= Left(c)
        /\ \A i \in 1 .. Len(sent[c]) :
               sent[c][i] # requestID[c] - 1 => i + Len(socket[c]) <= Left(c)

\* The inductive invariant, for one client.
ClientInv(c) ==
    /\ callStart[c].timeouts <= timeouts[c]
    /\ Outstanding(c) <= timeouts[c] + (IF waiting[c] THEN 1 ELSE 0)
    /\ OldOnesFirst(c)
    /\ outcome[c] = "failed" => ~ waiting[c]
    /\ outcome[c] = "failed" /\ NoTimeout(c) => callStart[c].backlog >= MaxRetries

IInv == TypeInv /\ \A c \in Clients : ClientInv(c)

LEMMA IInvInit == Init => IInv
<1> SUFFICES ASSUME Init PROVE IInv
  OBVIOUS
<1>1. ASSUME NEW c \in Clients PROVE ClientInv(c)
  BY DEF Init, ClientInv, Outstanding, OldOnesFirst, NoTimeout
<1>2. QED  BY <1>1, TypeInit DEF IInv

\* What Call, Receive and Timeout do to the attempts of the client.
LEMMA RetryKeeps ==
    ASSUME TypeInv, NEW d \in Clients, ClientInv(d), waiting[d], Retry(d),
           callStart'[d] = callStart[d],
           \/ /\ socket[d] # <<>> /\ socket'[d] = Tail(socket[d]) /\ timeouts'[d] = timeouts[d]
              /\ Head(socket[d]) # requestID[d] - 1
           \/ socket'[d] = socket[d] /\ socket[d] = <<>> /\ timeouts'[d] = timeouts[d] + 1
    PROVE  ClientInv(d)'
<1> USE SessionAssumption
<1> DEFINE x == requestID[d] - 1
<1>1. /\ requestID[d] \in 1 .. MaxCalls /\ x \in IDs /\ attempt[d] \in 0 .. MaxRetries
      /\ sent[d] \in Seq(IDs) /\ socket[d] \in Seq(IDs) /\ timeouts[d] \in Nat
      /\ callStart[d].backlog \in Nat /\ callStart[d].timeouts \in Nat
  BY DEF TypeInv, TypeOK, WaitingHasID, IDs
<1>2. PICK n \in Nat, k \in Nat : Len(sent[d]) = n /\ Len(socket[d]) = k
  BY <1>1
<1>3. CASE ~ (attempt[d] < MaxRetries)
  <2>1. /\ waiting'[d] = FALSE /\ outcome'[d] = "failed" /\ sent'[d] = sent[d]
        /\ attempt'[d] = attempt[d] /\ requestID'[d] = requestID[d]
    BY <1>3 DEF Retry, Return, TypeInv, TypeOK
  <2>2. CASE timeouts'[d] = timeouts[d] + 1 /\ socket'[d] = socket[d] /\ socket[d] = <<>>
    BY <1>2, <1>1, <2>1, <2>2 DEF ClientInv, Outstanding, OldOnesFirst, NoTimeout
  <2>3. CASE /\ socket[d] # <<>> /\ socket'[d] = Tail(socket[d]) /\ timeouts'[d] = timeouts[d]
             /\ Head(socket[d]) # x
    <3>1. Len(socket'[d]) = k - 1 /\ k >= 1 /\ socket[d][1] # x
      BY <1>2, <1>1, <2>3, QueueFacts
    <3>2. NoTimeout(d) => 1 <= callStart[d].backlog + 1 - attempt[d]
      <4>1. 1 \in 1 .. Len(socket[d])
        BY <1>2, <3>1
      <4>2. QED  BY <3>1, <4>1 DEF ClientInv, OldOnesFirst, Left
    <3>3. NoTimeout(d)' = NoTimeout(d)
      BY <2>3 DEF NoTimeout
    <3>4. Outstanding(d)' = n + k - 1 /\ Outstanding(d) = n + k
      BY <1>2, <2>1, <3>1 DEF Outstanding
    <3>5. NoTimeout(d)' => callStart'[d].backlog >= MaxRetries
      BY <1>1, <1>3, <3>2, <3>3
    <3>6. Outstanding(d)' <= timeouts'[d]
      BY <1>1, <2>3, <3>4 DEF ClientInv
    <3>7. QED
      BY <1>1, <2>1, <2>3, <3>5, <3>6 DEF ClientInv, OldOnesFirst
  <2>4. QED  BY <2>2, <2>3
<1>4. CASE attempt[d] < MaxRetries
  <2>1. /\ waiting'[d] = waiting[d] /\ outcome'[d] = outcome[d] /\ sent'[d] = Append(sent[d], x)
        /\ attempt'[d] = attempt[d] + 1 /\ requestID'[d] = requestID[d]
    BY <1>4 DEF Retry, TypeInv, TypeOK
  <2>2. /\ Len(sent'[d]) = n + 1 /\ sent'[d][n + 1] = x
        /\ \A i \in 1 .. n : sent'[d][i] = sent[d][i]
    <3>1. /\ Len(Append(sent[d], x)) = Len(sent[d]) + 1
          /\ Append(sent[d], x)[Len(sent[d]) + 1] = x
          /\ \A i \in 1 .. Len(sent[d]) : Append(sent[d], x)[i] = sent[d][i]
      BY <1>1, QueueFacts
    <3>2. QED  BY <1>2, <2>1, <3>1
  <2>3. CASE timeouts'[d] = timeouts[d] + 1 /\ socket'[d] = socket[d] /\ socket[d] = <<>>
    <3>1. ~ NoTimeout(d)'
      BY <1>2, <1>1, <2>3 DEF ClientInv, NoTimeout
    <3>2. Outstanding(d)' = Outstanding(d) + 1 /\ Outstanding(d) \in Nat
      BY <1>2, <1>1, <2>2, <2>3 DEF Outstanding
    <3>3. QED
      BY <1>2, <1>1, <2>1, <2>3, <3>1, <3>2 DEF ClientInv, OldOnesFirst
  <2>4. CASE /\ socket[d] # <<>> /\ socket'[d] = Tail(socket[d]) /\ timeouts'[d] = timeouts[d]
             /\ Head(socket[d]) # x
    <3>1. /\ Len(socket'[d]) = k - 1 /\ k >= 1
          /\ \A i \in 1 .. k - 1 : socket'[d][i] = socket[d][i + 1]
      BY <1>2, <1>1, <2>4, QueueFacts
    <3>2. NoTimeout(d)' = NoTimeout(d)
      BY <2>4 DEF NoTimeout
    <3>3. Outstanding(d)' = Outstanding(d)
      BY <1>2, <1>1, <2>2, <3>1 DEF Outstanding
    <3>4. Left(d) \in Int /\ Left(d)' = Left(d) - 1
      <4>1. attempt[d] \in Nat /\ callStart[d].backlog \in Nat
        BY <1>1
      <4>2. Left(d)' = callStart[d].backlog + 1 - (attempt[d] + 1)
        BY <2>1 DEF Left
      <4>3. QED  BY <4>1, <4>2 DEF Left
    <3>5. ASSUME NoTimeout(d), NEW i \in 1 .. k - 1, socket'[d][i] # x
          PROVE  i <= Left(d)'
      <4>1. i + 1 \in 1 .. k /\ socket[d][i + 1] # x
        BY <3>1, <3>5
      <4>2. i + 1 <= Left(d)
        BY <1>2, <3>5, <4>1 DEF ClientInv, OldOnesFirst
      <4>3. QED  BY <3>4, <4>2
    <3>6. ASSUME NoTimeout(d), NEW i \in 1 .. n + 1, sent'[d][i] # x
          PROVE  i + (k - 1) <= Left(d)'
      <4>1. i \in 1 .. n /\ sent[d][i] # x
        BY <2>2, <3>6
      <4>2. i + k <= Left(d)
        BY <1>2, <3>6, <4>1 DEF ClientInv, OldOnesFirst
      <4>3. QED  BY <3>4, <4>2
    <3>7. OldOnesFirst(d)'
      BY <2>1, <2>2, <3>1, <3>2, <3>5, <3>6 DEF OldOnesFirst
    <3>8. QED
      BY <1>2, <1>1, <2>1, <2>4, <3>2, <3>3, <3>7 DEF ClientInv
  <2>5. QED  BY <2>3, <2>4
<1>5. QED  BY <1>3, <1>4

\* The answer has been read.
LEMMA AnswerKeeps ==
    ASSUME TypeInv, NEW d \in Clients, ClientInv(d), waiting[d], Return(d, "answered"),
           socket[d] # <<>>, socket'[d] = Tail(socket[d]),
           timeouts'[d] = timeouts[d], callStart'[d] = callStart[d]
    PROVE  ClientInv(d)'
<1>1. /\ sent[d] \in Seq(IDs) /\ socket[d] \in Seq(IDs) /\ timeouts[d] \in Nat
  BY DEF TypeInv, TypeOK
<1>2. PICK n \in Nat, k \in Nat : Len(sent[d]) = n /\ Len(socket[d]) = k
  BY <1>1
<1>3. waiting'[d] = FALSE /\ outcome'[d] = "answered" /\ sent'[d] = sent[d]
  BY DEF Return, TypeInv, TypeOK
<1>4. Len(socket'[d]) = k - 1
  BY <1>1, <1>2, QueueFacts
<1>5. Outstanding(d) = n + k /\ Outstanding(d)' = n + k - 1
  BY <1>2, <1>3, <1>4 DEF Outstanding
<1>6. QED  BY <1>1, <1>3, <1>5 DEF ClientInv, OldOnesFirst

LEMMA CallKeeps ==
    ASSUME TypeInv, NEW d \in Clients, ClientInv(d), Call(d)
    PROVE  ClientInv(d)'
<1> USE SessionAssumption
<1> DEFINE x == requestID[d]
<1>1. /\ x \in IDs /\ sent[d] \in Seq(IDs) /\ socket[d] \in Seq(IDs) /\ timeouts[d] \in Nat
  BY DEF Call, TypeInv, TypeOK, IDs
<1>2. PICK n \in Nat, k \in Nat : Len(sent[d]) = n /\ Len(socket[d]) = k
  BY <1>1
<1>3. /\ waiting'[d] = TRUE /\ outcome'[d] = "none" /\ sent'[d] = Append(sent[d], x)
      /\ attempt'[d] = 1 /\ requestID'[d] = x + 1 /\ ~ waiting[d]
      /\ socket'[d] = socket[d] /\ timeouts'[d] = timeouts[d]
      /\ callStart'[d].backlog = Outstanding(d) /\ callStart'[d].timeouts = timeouts[d]
  BY DEF Call, TypeInv, TypeOK
<1>4. /\ Len(Append(sent[d], x)) = Len(sent[d]) + 1
      /\ Append(sent[d], x)[Len(sent[d]) + 1] = x
      /\ \A i \in 1 .. Len(sent[d]) : Append(sent[d], x)[i] = sent[d][i]
  BY <1>1, QueueFacts
<1>5. Len(sent'[d]) = n + 1 /\ sent'[d][n + 1] = x
  BY <1>2, <1>3, <1>4
<1>6. Outstanding(d) = n + k /\ Outstanding(d)' = n + 1 + k
  BY <1>2, <1>3, <1>5 DEF Outstanding
<1>7. \A i \in 1 .. k : i <= n + k
  OBVIOUS
<1>8. \A i \in 1 .. n + 1 : sent'[d][i] # x => i + k <= n + k
  BY <1>5
<1>9. OldOnesFirst(d)'
  <2>1. requestID'[d] - 1 = x
    BY <1>1, <1>3 DEF IDs
  <2>2. Len(sent'[d]) = n + 1 /\ Len(socket'[d]) = k /\ Left(d)' = n + k
    BY <1>2, <1>3, <1>5, <1>6 DEF Left
  <2>3. QED  BY <1>3, <1>7, <1>8, <2>1, <2>2 DEF OldOnesFirst
<1>10. Outstanding(d)' <= timeouts'[d] + 1
  BY <1>1, <1>3, <1>6 DEF ClientInv
<1>11. QED  BY <1>1, <1>3, <1>9, <1>10 DEF ClientInv

\* A request that is lost, dropped or answered leaves the rest in order.
LEMMA RequestLeaves ==
    ASSUME TypeInv, NEW d \in Clients, ClientInv(d),
           sent[d] # <<>>, sent'[d] = Tail(sent[d]),
           socket'[d] = socket[d] \/ socket'[d] = Append(socket[d], Head(sent[d])),
           UNCHANGED <<requestID[d], waiting[d], attempt[d], outcome[d], timeouts[d], callStart[d]>>
    PROVE  ClientInv(d)'
<1> USE SessionAssumption
<1> DEFINE x == requestID[d] - 1
           q == Left(d)
<1>1. /\ sent[d] \in Seq(IDs) /\ socket[d] \in Seq(IDs) /\ timeouts[d] \in Nat
      /\ attempt[d] \in Nat /\ callStart[d].backlog \in Nat
  BY DEF TypeInv, TypeOK
<1>2. PICK n \in Nat, k \in Nat : Len(sent[d]) = n /\ Len(socket[d]) = k
  BY <1>1
<1>3. /\ n >= 1 /\ Len(sent'[d]) = n - 1 /\ Head(sent[d]) = sent[d][1] /\ Head(sent[d]) \in IDs
      /\ \A i \in 1 .. n - 1 : sent'[d][i] = sent[d][i + 1]
  <2>1. /\ Len(sent[d]) >= 1 /\ Len(Tail(sent[d])) = Len(sent[d]) - 1
        /\ Head(sent[d]) = sent[d][1] /\ Head(sent[d]) \in IDs
        /\ \A i \in 1 .. Len(sent[d]) - 1 : Tail(sent[d])[i] = sent[d][i + 1]
    BY <1>1, QueueFacts
  <2>2. QED  BY <1>2, <2>1
<1>4. waiting[d] /\ NoTimeout(d) =>
        /\ \A i \in 1 .. k : socket[d][i] # x => i <= q
        /\ \A i \in 1 .. n : sent[d][i] # x => i + k <= q
  BY <1>2 DEF ClientInv, OldOnesFirst
<1>5. Outstanding(d) = n + k
  BY <1>2 DEF Outstanding
<1>6. NoTimeout(d)' = NoTimeout(d)
  BY DEF NoTimeout
<1>7. ASSUME NEW m \in Nat, Len(socket'[d]) = m, n - 1 + m <= n + k,
             waiting[d] /\ NoTimeout(d) =>
               /\ \A i \in 1 .. m : socket'[d][i] # x => i <= q
               /\ \A i \in 1 .. n - 1 : sent'[d][i] # x => i + m <= q
      PROVE  ClientInv(d)'
  <2>1. Outstanding(d)' = n - 1 + m
    BY <1>3, <1>7 DEF Outstanding
  <2>2. Outstanding(d)' <= timeouts'[d] + (IF waiting'[d] THEN 1 ELSE 0)
    BY <1>1, <1>5, <1>7, <2>1 DEF ClientInv
  <2>3. Left(d)' = q
    BY DEF Left
  <2>4. OldOnesFirst(d)'
    BY <1>3, <1>6, <1>7, <2>3 DEF OldOnesFirst
  <2>5. QED  BY <1>6, <2>2, <2>4 DEF ClientInv
<1>8. CASE socket'[d] = socket[d]
  <2>1. q \in Int
    BY <1>1 DEF Left
  <2>2. ASSUME waiting[d] /\ NoTimeout(d), NEW i \in 1 .. n - 1, sent'[d][i] # x
        PROVE  i + k <= q
    <3>1. i + 1 \in 1 .. n /\ sent[d][i + 1] # x
      BY <1>3, <2>2
    <3>2. i + 1 + k <= q
      BY <1>4, <2>2, <3>1
    <3>3. QED  BY <2>1, <3>2
  <2>3. n - 1 + k <= n + k
    OBVIOUS
  <2>4. QED  BY <1>2, <1>4, <1>7, <1>8, <2>2, <2>3
<1>9. CASE socket'[d] = Append(socket[d], Head(sent[d]))
  <2>1. /\ Len(socket'[d]) = k + 1 /\ socket'[d][k + 1] = sent[d][1]
        /\ \A i \in 1 .. k : socket'[d][i] = socket[d][i]
    <3>1. /\ Len(Append(socket[d], Head(sent[d]))) = Len(socket[d]) + 1
          /\ Append(socket[d], Head(sent[d]))[Len(socket[d]) + 1] = Head(sent[d])
          /\ \A i \in 1 .. Len(socket[d]) : Append(socket[d], Head(sent[d]))[i] = socket[d][i]
      BY <1>1, <1>3, QueueFacts
    <3>2. QED  BY <1>2, <1>3, <1>9, <3>1
  <2>2. waiting[d] /\ NoTimeout(d) => \A i \in 1 .. k + 1 : socket'[d][i] # x => i <= q
    <3>1. 1 \in 1 .. n
      BY <1>3
    <3>2. waiting[d] /\ NoTimeout(d) => (sent[d][1] # x => k + 1 <= q)
      BY <1>4, <3>1
    <3>3. QED  BY <1>4, <2>1, <3>2
  <2>3. waiting[d] /\ NoTimeout(d) => \A i \in 1 .. n - 1 : sent'[d][i] # x => i + (k + 1) <= q
    <3>1. \A i \in 1 .. n - 1 : i + 1 \in 1 .. n /\ i + (k + 1) = (i + 1) + k
      OBVIOUS
    <3>2. QED  BY <1>3, <1>4, <3>1
  <2>4. k + 1 \in Nat /\ n - 1 + (k + 1) <= n + k
    OBVIOUS
  <2>5. QED  BY <1>7, <2>1, <2>2, <2>3, <2>4
<1>10. QED  BY <1>8, <1>9

LEMMA IInvStep == IInv /\ [Next]_vars => IInv'
<1> SUFFICES ASSUME IInv, [Next]_vars PROVE IInv'
  OBVIOUS
<1>1. TypeInv /\ TypeInv'
  BY TypeStep DEF IInv
<1>2. ASSUME NEW d \in Clients, Call(d) \/ Receive(d) \/ Timeout(d) \/ Lose(d) \/ Serve(d)
      PROVE  \A c \in Clients : ClientInv(c)'
  <2>1. ClientInv(d)
    BY DEF IInv
  <2>2. ASSUME NEW c \in Clients, c # d PROVE ClientInv(c)'
    <3>1. ClientInv(c) /\ Of(c)' = Of(c)
      BY <1>1, <1>2, <2>2, StepIsLocal DEF IInv
    <3>2. QED  BY <3>1 DEF Of, ClientInv, OldOnesFirst, Left, Outstanding, NoTimeout
  <2>3. ClientInv(d)'
    <3>1. CASE Call(d)
      BY <1>1, <2>1, <3>1, CallKeeps
    <3>2. CASE Receive(d)
      <4>1. /\ waiting[d] /\ socket[d] # <<>> /\ socket'[d] = Tail(socket[d])
            /\ timeouts'[d] = timeouts[d] /\ callStart'[d] = callStart[d]
        BY <1>1, <3>2 DEF Receive, TypeInv, TypeOK
      <4>2. CASE Head(socket[d]) = requestID[d] - 1
        BY <1>1, <2>1, <3>2, <4>1, <4>2, AnswerKeeps DEF Receive
      <4>3. CASE Head(socket[d]) # requestID[d] - 1
        BY <1>1, <2>1, <3>2, <4>1, <4>3, RetryKeeps DEF Receive
      <4>4. QED  BY <4>2, <4>3
    <3>3. CASE Timeout(d)
      <4>1. /\ waiting[d] /\ socket[d] = <<>> /\ socket'[d] = socket[d] /\ Retry(d)
            /\ timeouts'[d] = timeouts[d] + 1 /\ callStart'[d] = callStart[d]
        BY <1>1, <3>3 DEF Timeout, TypeInv, TypeOK
      <4>2. QED  BY <1>1, <2>1, <4>1, RetryKeeps
    <3>4. CASE Lose(d)
      BY <1>1, <2>1, <3>4, RequestLeaves DEF Lose, TypeInv, TypeOK
    <3>5. CASE Serve(d)
      <4>1. /\ sent[d] # <<>> /\ sent'[d] = Tail(sent[d])
            /\ socket'[d] = socket[d] \/ socket'[d] = Append(socket[d], Head(sent[d]))
            /\ UNCHANGED <<requestID[d], waiting[d], attempt[d], outcome[d], timeouts[d], callStart[d]>>
        BY <1>1, <3>5 DEF Serve, TypeInv, TypeOK
      <4>2. QED  BY <1>1, <2>1, <4>1, RequestLeaves
    <3>6. QED  BY <1>2, <3>1, <3>2, <3>3, <3>4, <3>5
  <2>4. QED  BY <2>2, <2>3
<1>3. CASE UNCHANGED vars
  BY <1>3 DEF vars, IInv, TypeInv, TypeOK, WaitingHasID, ClientInv, OldOnesFirst, Left, Outstanding, NoTimeout
<1>4. QED  BY <1>1, <1>2, <1>3 DEF Next, IInv

LEMMA IInvariant == Spec => []IInv
<1>1. QED  BY IInvInit, IInvStep, PTL DEF Spec

\* Theorem: what sendWithRetry leaves unread never exceeds the receives that
\* timed out, whatever the network loses and the server drops.
THEOREM BacklogOnlyFromTimeouts == Spec => []BacklogIsTimeouts
<1>1. IInv => BacklogIsTimeouts
  BY DEF IInv, ClientInv, BacklogIsTimeouts
<1>2. QED  BY <1>1, IInvariant, PTL

\* Theorem: a call of sendWithRetry that failed without a timeout began with at
\* least MAX_RETRIES replies outstanding.
THEOREM FailureNeedsBacklog == Spec => []FailedNeedsBacklog
<1>1. IInv => FailedNeedsBacklog
  BY DEF IInv, ClientInv, FailedNeedsBacklog
<1>2. QED  BY <1>1, IInvariant, PTL

-----------------------------------------------------------------------------
(* Every other datagram dropped, and a single client *)

\* No request is lost but by the toggle, the replies come in time, and there
\* are at least two attempts: what the toggle alone can do.
OnlyToggleDrops == ~ Lossy /\ Prompt /\ MaxRetries >= 2

\* Where a call of c stands: its first request is on the way; it was dropped,
\* and the toggle is set; so it was, and the second one is on the way; or the
\* answer is there.  Between two calls nothing is left, and the toggle is as
\* it was at the start: the inductive invariant.
AtFirst(c)    == attempt[c] = 1 /\ sent[c] = <<requestID[c] - 1>> /\ socket[c] = <<>> /\ ~ DROP
AtDropped(c)  == attempt[c] = 1 /\ sent[c] = <<>> /\ socket[c] = <<>> /\ DropRequest /\ DROP
AtSecond(c)   == sent[c] = <<requestID[c] - 1>> /\ socket[c] = <<>> /\ DropRequest /\ DROP
AtAnswered(c) == sent[c] = <<>> /\ socket[c] = <<requestID[c] - 1>> /\ ~ DROP
AtRest(c)     == sent[c] = <<>> /\ socket[c] = <<>> /\ ~ DROP

ToggleInv(c) ==
    /\ IF waiting[c] THEN AtFirst(c) \/ AtDropped(c) \/ AtSecond(c) \/ AtAnswered(c) ELSE AtRest(c)
    /\ outcome[c] # "failed"

LEMMA ToggleInit == ASSUME NEW c, Clients = {c} PROVE Init => ToggleInv(c)
BY DEF Init, ToggleInv, AtRest

\* Lemma: queues of one entry.
LEMMA OneEntry ==
    ASSUME NEW x
    PROVE  /\ Append(<<>>, x) = <<x>> /\ Tail(<<x>>) = <<>> /\ Head(<<x>>) = x
           /\ <<x>> # <<>>
OBVIOUS

LEMMA ToggleStep ==
    ASSUME OnlyToggleDrops, NEW c, Clients = {c}
    PROVE  TypeInv /\ ToggleInv(c) /\ [Next]_vars => ToggleInv(c)'
<1> SUFFICES ASSUME TypeInv, ToggleInv(c), [Next]_vars PROVE ToggleInv(c)'
  OBVIOUS
<1> USE DEF AtFirst, AtDropped, AtSecond, AtAnswered, AtRest
<1>1. /\ requestID[c] \in Int /\ attempt[c] \in Int /\ DROP \in BOOLEAN
      /\ requestID \in [Clients -> 0 .. MaxCalls] /\ waiting \in [Clients -> BOOLEAN]
      /\ attempt \in [Clients -> 0 .. MaxRetries]
      /\ outcome \in [Clients -> {"none", "answered", "failed"}]
      /\ sent \in [Clients -> Seq(IDs)] /\ socket \in [Clients -> Seq(IDs)]
  BY DEF TypeInv, TypeOK
<1>2. CASE Call(c)
  <2>1. AtRest(c)
    BY <1>2 DEF Call, ToggleInv
  <2>2. /\ sent'[c] = Append(<<>>, requestID[c]) /\ socket'[c] = <<>> /\ waiting'[c] /\ attempt'[c] = 1
        /\ requestID'[c] = requestID[c] + 1 /\ DROP' = DROP /\ outcome'[c] = "none"
    BY <1>1, <1>2, <2>1 DEF Call
  <2>3. QED  BY <1>1, <2>1, <2>2, OneEntry DEF ToggleInv
<1>3. CASE Receive(c)
  <2>1. AtAnswered(c)
    BY <1>3 DEF Receive, ToggleInv
  <2>2. Return(c, "answered") /\ socket'[c] = Tail(socket[c]) /\ DROP' = DROP
    BY <1>1, <1>3, <2>1, OneEntry DEF Receive
  <2>3. ~ waiting'[c] /\ outcome'[c] = "answered" /\ sent'[c] = sent[c]
    BY <1>1, <2>2 DEF Return
  <2>4. QED  BY <2>1, <2>2, <2>3, OneEntry DEF ToggleInv
<1>4. CASE Timeout(c)
  <2>1. AtDropped(c)
    BY <1>4, OneEntry DEF Timeout, ToggleInv, OnlyToggleDrops
  <2>2. attempt[c] < MaxRetries
    BY <2>1, SessionAssumption DEF OnlyToggleDrops
  <2>3. /\ sent'[c] = Append(<<>>, requestID[c] - 1) /\ socket'[c] = <<>> /\ DROP' = DROP
        /\ waiting'[c] = waiting[c] /\ outcome'[c] = outcome[c] /\ requestID'[c] = requestID[c]
    BY <1>1, <1>4, <2>1, <2>2 DEF Timeout, Retry
  <2>4. QED  BY <1>4, <2>1, <2>3, OneEntry DEF ToggleInv, Timeout
<1>5. CASE Lose(c)
  BY <1>5 DEF Lose, OnlyToggleDrops
<1>6. CASE Serve(c)
  <2>1. /\ sent[c] = <<requestID[c] - 1>> /\ socket[c] = <<>> /\ waiting[c]
        /\ ~ DROP \/ DropRequest
    BY <1>6, OneEntry DEF Serve, ToggleInv
  <2>2. /\ sent'[c] = <<>> /\ DROP' = (IF DropRequest THEN ~ DROP ELSE DROP)
        /\ socket'[c] = IF DROP' THEN <<>> ELSE <<requestID[c] - 1>>
        /\ UNCHANGED <<requestID, waiting, attempt, outcome>>
    BY <1>1, <1>6, <2>1, OneEntry DEF Serve
  <2>3. CASE DROP'
    <3>1. AtFirst(c) /\ DropRequest
      BY <2>1, <2>2, <2>3, OneEntry DEF ToggleInv
    <3>2. QED  BY <2>1, <2>2, <2>3, <3>1 DEF ToggleInv
  <2>4. CASE ~ DROP'
    BY <2>1, <2>2, <2>4 DEF ToggleInv
  <2>5. QED  BY <2>3, <2>4
<1>7. CASE UNCHANGED vars
  BY <1>7 DEF vars, ToggleInv
<1>8. QED  BY <1>2, <1>3, <1>4, <1>5, <1>6, <1>7 DEF Next

\* Theorem: with DROP_REQUEST set, no call of a single client fails, however
\* many calls it makes: each begins with the toggle as the first one found it,
\* so that its first request is dropped and its second one answered (the DROP
\* toggle of Server.main and the loop of sendWithRetry).
THEOREM DropsAreTolerated ==
    ASSUME NEW c, Clients = {c}, OnlyToggleDrops
    PROVE  Spec => []DropsTolerated
<1>1. Init => ToggleInv(c)
  BY ToggleInit
<1>2. TypeInv /\ ToggleInv(c) /\ [Next]_vars => ToggleInv(c)'
  BY ToggleStep
<1>3. ToggleInv(c) => DropsTolerated
  BY DEF ToggleInv, DropsTolerated
<1>4. QED  BY <1>1, <1>2, <1>3, TypeInvariant, PTL DEF Spec
=============================================================================
