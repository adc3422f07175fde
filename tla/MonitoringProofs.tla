--------------------------- MODULE MonitoringProofs ---------------------------
(***************************************************************************)
(* Monitoring for any clients, facilities, intervals and bounds, lossy or  *)
(* not, with and without a history: types, the bound on listening, one     *)
(* monitor for a registration, no update for a client that does not listen *)
(* any more, and none that a listening client misses.                      *)
(***************************************************************************)
EXTENDS Monitoring, FiniteSetTheorems, SequenceTheorems, TLAPS

\* A client that is not idle has a registration, and one that listens a start.
ActiveHasWant ==
    \A c \in Clients :
        /\ phase[c] # "idle" => want[c] \in Registration
        /\ phase[c] = "listening" => started[c] \in 0 .. MaxTime

TypeInv == TypeOK /\ ActiveHasWant

\* Lemma: removal keeps some places and what is there (removeExpiredMonitors).
LEMMA Removal ==
    RemoveExpiredMonitors =
        [i \in {j \in DOMAIN monitors : ~ IfExpired(monitors[j])} |-> monitors[i]]
BY DEF RemoveExpiredMonitors, RestrictValues, Restrict

\* Lemma: Added adds one place, its monitor, and nothing else (registerMonitor).
LEMMA Addition ==
    ASSUME NEW m
    PROVE  \E place : /\ DOMAIN Added(m) = DOMAIN monitors \cup {place}
                      /\ Added(m)[place] = m
                      /\ \A i \in DOMAIN monitors : i # place => Added(m)[i] = monitors[i]
<1> DEFINE place == Max(DOMAIN monitors \cup {0}) + 1
<1>1. Added(m) = [i \in DOMAIN monitors \cup {place} |-> IF i = place THEN m ELSE monitors[i]]
  BY DEF Added
<1> HIDE DEF place
<1>2. QED  BY <1>1

\* Lemma: what Append, Head, Tail and \o do to a sequence.
LEMMA QueueTypes ==
    ASSUME NEW S, NEW s \in Seq(S)
    PROVE  /\ \A x \in S : Append(s, x) \in Seq(S)
           /\ \A t \in Seq(S) : s \o t \in Seq(S)
           /\ s # <<>> => Head(s) \in S /\ Tail(s) \in Seq(S)
OBVIOUS

-----------------------------------------------------------------------------
(* Types *)

LEMMA TypeInit == Init => TypeInv
<1> SUFFICES ASSUME Init PROVE TypeInv
  OBVIOUS
<1> USE MonitoringAssumption
<1>1. DOMAIN monitors = {} /\ IsFiniteSet(DOMAIN monitors) /\ monitors \in [DOMAIN monitors -> Monitor]
  BY FS_EmptySet DEF Init
<1>2. 0 \in 0 .. MaxTime /\ 0 \in 0 .. MaxCalls /\ 0 \in 0 .. MaxRetries /\ 0 \in 0 .. MaxVersion
  OBVIOUS
<1>3. registered \in [Clients -> [id : IDs \cup {-1}, version : 0 .. MaxVersion, at : 0 .. MaxTime]]
  BY <1>2 DEF Init
<1>4. /\ toServer \in [Clients -> Seq(Registration)] /\ toClient \in [Clients -> Seq(Messages)]
      /\ shown \in [Clients -> Seq(Messages)]
  BY DEF Init
<1>5. QED  BY <1>1, <1>2, <1>3, <1>4 DEF Init, TypeInv, TypeOK, ActiveHasWant

\* Lemma: the parts of the type invariant that are about one client.
LEMMA ClientTypes ==
    ASSUME TypeInv, NEW c \in Clients
    PROVE  /\ now \in 0 .. MaxTime /\ now \in Nat
           /\ requestID[c] \in 0 .. MaxCalls /\ attempt[c] \in 0 .. MaxRetries
           /\ since[c] \in 0 .. MaxTime
           /\ toServer[c] \in Seq(Registration) /\ toClient[c] \in Seq(Messages)
           /\ shown[c] \in Seq(Messages)
           /\ phase[c] # "idle" => want[c] \in Registration
BY MonitoringAssumption DEF TypeInv, TypeOK, ActiveHasWant

\* Lemma: Retry keeps the types of what it changes.
LEMMA RetryTypes ==
    ASSUME TypeInv, NEW c \in Clients, phase[c] = "registering", Retry(c)
    PROVE  /\ phase' \in [Clients -> {"idle", "registering", "listening"}]
           /\ attempt' \in [Clients -> 0 .. MaxRetries]
           /\ since' \in [Clients -> 0 .. MaxTime]
           /\ started' = started
           /\ toServer' \in [Clients -> Seq(Registration)]
           /\ \A d \in Clients : phase'[d] = phase[d] \/ phase'[d] = "idle"
<1> USE MonitoringAssumption
<1>1. Append(toServer[c], want[c]) \in Seq(Registration)
  BY ClientTypes, QueueTypes
<1>2. CASE attempt[c] < MaxRetries
  <2>1. attempt[c] + 1 \in 0 .. MaxRetries
    BY <1>2, ClientTypes
  <2>2. /\ phase' = phase /\ started' = started
        /\ attempt' = [attempt EXCEPT ![c] = @ + 1]
        /\ toServer' = [toServer EXCEPT ![c] = Append(@, want[c])]
        /\ since' = [since EXCEPT ![c] = now]
    BY <1>2 DEF Retry
  <2>3. since' \in [Clients -> 0 .. MaxTime]
    BY <2>2, ClientTypes DEF TypeInv, TypeOK
  <2>4. attempt' \in [Clients -> 0 .. MaxRetries]
    BY <2>1, <2>2 DEF TypeInv, TypeOK
  <2>5. toServer' \in [Clients -> Seq(Registration)]
    BY <1>1, <2>2 DEF TypeInv, TypeOK
  <2>6. QED  BY <2>2, <2>3, <2>4, <2>5 DEF TypeInv, TypeOK
<1>3. CASE ~ (attempt[c] < MaxRetries)
  BY <1>3 DEF Retry, TypeInv, TypeOK
<1>4. QED  BY <1>2, <1>3

\* Lemma: ServeRegister keeps the types of the server's state.
LEMMA ServeTypes ==
    ASSUME TypeInv, NEW c \in Clients, ServeRegister(c)
    PROVE  /\ toServer' \in [Clients -> Seq(Registration)]
           /\ toClient' \in [Clients -> Seq(Messages)]
           /\ IsFiniteSet(DOMAIN monitors') /\ monitors' \in [DOMAIN monitors' -> Monitor]
           /\ history' \subseteq Clients \X IDs
           /\ version' = version
           /\ registered' \in [Clients -> [id : IDs \cup {-1}, version : 0 .. MaxVersion, at : 0 .. MaxTime]]
<1> USE MonitoringAssumption
<1> DEFINE r == Head(toServer[c])
           ok == r.name \in Facilities
           m == [client |-> c, id |-> r.id, facility |-> r.name, created |-> now, interval |-> r.interval]
<1>1. r \in Registration /\ Tail(toServer[c]) \in Seq(Registration)
  BY ClientTypes, QueueTypes DEF ServeRegister
<1>2. r.id \in IDs /\ r.interval \in Intervals
  BY <1>1 DEF Registration
<1>3. toServer' \in [Clients -> Seq(Registration)]
  BY <1>1 DEF ServeRegister, TypeInv, TypeOK
<1>4. toClient' \in [Clients -> Seq(Messages)]
  <2>1. Reply(r.id, ok) \in Messages
    <3>1. ok \in BOOLEAN
      OBVIOUS
    <3>2. \A i \in IDs, b \in BOOLEAN : Reply(i, b) \in Messages
      BY DEF Messages
    <3> HIDE DEF ok, r
    <3>3. QED  BY <1>2, <3>1, <3>2, Zenon
  <2>2. Append(toClient[c], Reply(r.id, ok)) \in Seq(Messages)
    BY <2>1, ClientTypes, QueueTypes
  <2>3. QED  BY <2>2 DEF ServeRegister, TypeInv, TypeOK
<1>5. CASE Recorded(c, r)
  BY <1>3, <1>4, <1>5 DEF ServeRegister, serverVars, TypeInv, TypeOK
<1>6. CASE ~ Recorded(c, r)
  <2>1. history' = history \cup {<<c, r.id>>} /\ version' = version
    BY <1>6 DEF ServeRegister
  <2>2. history' \subseteq Clients \X IDs
    <3>1. history \subseteq Clients \X IDs
      BY DEF TypeInv, TypeOK
    <3>2. <<c, r.id>> \in Clients \X IDs
      BY <1>2
    <3> HIDE DEF r
    <3>3. QED  BY <2>1, <3>1, <3>2
  <2>3. CASE ~ ok
    BY <1>3, <1>4, <1>6, <2>1, <2>2, <2>3 DEF ServeRegister, TypeInv, TypeOK
  <2>4. CASE ok
    <3>1. /\ monitors' = Added(m)
          /\ registered' = [registered EXCEPT ![c] = [id |-> r.id, version |-> version[r.name], at |-> now]]
      BY <1>6, <2>4 DEF ServeRegister
    <3>2. m \in Monitor
      BY <1>2, <2>4, ClientTypes DEF Monitor
    <3>3. PICK place : /\ DOMAIN monitors' = DOMAIN monitors \cup {place}
                       /\ monitors'[place] = m
                       /\ \A i \in DOMAIN monitors : i # place => monitors'[i] = monitors[i]
      <4>1. PICK x : x = m
        OBVIOUS
      <4> HIDE DEF m
      <4>2. monitors' = Added(x)
        BY <3>1, <4>1
      <4>3. PICK place : /\ DOMAIN Added(x) = DOMAIN monitors \cup {place}
                         /\ Added(x)[place] = x
                         /\ \A i \in DOMAIN monitors : i # place => Added(x)[i] = monitors[i]
        BY Addition
      <4>4. QED  BY <4>1, <4>2, <4>3
    <3>4. IsFiniteSet(DOMAIN monitors')
      <4>1. IsFiniteSet(DOMAIN monitors)
        BY DEF TypeInv, TypeOK
      <4>2. QED  BY <3>3, <4>1, FS_AddElement, Zenon
    <3>5. \A i \in DOMAIN monitors' : monitors'[i] \in Monitor
      BY <3>2, <3>3 DEF TypeInv, TypeOK
    <3>6. monitors' \in [DOMAIN monitors' -> Monitor]
      BY <3>1, <3>5 DEF Added
    <3>7. version[r.name] \in 0 .. MaxVersion /\ now \in 0 .. MaxTime
      BY <2>4 DEF TypeInv, TypeOK
    <3>8. registered' \in [Clients -> [id : IDs \cup {-1}, version : 0 .. MaxVersion, at : 0 .. MaxTime]]
      BY <1>2, <3>1, <3>7 DEF TypeInv, TypeOK
    <3>9. QED  BY <1>3, <1>4, <2>1, <2>2, <3>4, <3>6, <3>8
  <2>5. QED  BY <2>3, <2>4
<1>7. QED  BY <1>5, <1>6

\* Lemma: Operate keeps the types of what it changes.
LEMMA OperateTypes ==
    ASSUME TypeInv, NEW f \in Facilities, Operate(f)
    PROVE  /\ toClient' \in [Clients -> Seq(Messages)]
           /\ IsFiniteSet(DOMAIN monitors') /\ monitors' \in [DOMAIN monitors' -> Monitor]
           /\ version' \in [Facilities -> 0 .. MaxVersion]
<1> USE MonitoringAssumption
<1>1. version[f] + 1 \in 0 .. MaxVersion
  BY DEF Operate, TypeInv, TypeOK
<1>2. version' \in [Facilities -> 0 .. MaxVersion]
  BY <1>1 DEF Operate, TypeInv, TypeOK
<1>3. monitors' = [i \in {j \in DOMAIN monitors : ~ IfExpired(monitors[j])} |-> monitors[i]]
  BY Removal DEF Operate
<1>4. IsFiniteSet(DOMAIN monitors')
  <2>1. DOMAIN monitors' \subseteq DOMAIN monitors
    BY <1>3
  <2>2. QED  BY <2>1, FS_Subset DEF TypeInv, TypeOK
<1>5. monitors' \in [DOMAIN monitors' -> Monitor]
  BY <1>3 DEF TypeInv, TypeOK
<1>6. ASSUME NEW c \in Clients
      PROVE  toClient[c] \o Notifications(c, f, version[f] + 1) \in Seq(Messages)
  <2> DEFINE mine == {i \in DOMAIN RemoveExpiredMonitors :
                        RemoveExpiredMonitors[i].client = c /\ RemoveExpiredMonitors[i].facility = f}
             u == Update(f, version[f] + 1)
  <2>1. u \in Messages
    BY <1>1 DEF Messages
  <2>2. IsFiniteSet(mine)
    <3>1. mine \subseteq DOMAIN monitors
      BY Removal
    <3>2. QED  BY <3>1, FS_Subset DEF TypeInv, TypeOK
  <2>3. Cardinality(mine) \in Nat
    BY <2>2, FS_CardinalityType
  <2>4. Notifications(c, f, version[f] + 1) = [i \in 1 .. Cardinality(mine) |-> u]
    BY DEF Notifications
  <2> HIDE DEF mine, u
  <2>5. [i \in 1 .. Cardinality(mine) |-> u] \in Seq(Messages)
    BY <2>1, <2>3
  <2>6. QED  BY <2>4, <2>5, ClientTypes, QueueTypes
<1>7. toClient' \in [Clients -> Seq(Messages)]
  BY <1>6 DEF Operate
<1>8. QED  BY <1>2, <1>4, <1>5, <1>7

LEMMA TypeStep == TypeInv /\ [Next]_vars => TypeInv'
<1> SUFFICES ASSUME TypeInv, [Next]_vars PROVE TypeInv'
  OBVIOUS
<1> USE MonitoringAssumption
<1>1. CASE Tick
  <2>1. now' \in 0 .. MaxTime
    BY <1>1 DEF Tick, TypeInv, TypeOK
  <2>2. QED  BY <1>1, <2>1 DEF Tick, clientVars, serverVars, TypeInv, TypeOK, ActiveHasWant
<1>2. ASSUME NEW c \in Clients, NEW name \in Names, NEW interval \in Intervals, Register(c, name, interval)
      PROVE  TypeInv'
  <2> DEFINE r == [id |-> requestID[c], name |-> name, interval |-> interval]
  <2>1. r \in Registration /\ requestID[c] + 1 \in 0 .. MaxCalls
    BY <1>2, ClientTypes DEF Register, Registration, IDs
  <2>2. Append(toServer[c], r) \in Seq(Registration)
    BY <2>1, ClientTypes, QueueTypes
  <2> HIDE DEF r
  <2>3. /\ requestID' = [requestID EXCEPT ![c] = @ + 1] /\ want' = [want EXCEPT ![c] = r]
        /\ toServer' = [toServer EXCEPT ![c] = Append(@, r)]
        /\ phase' = [phase EXCEPT ![c] = "registering"] /\ attempt' = [attempt EXCEPT ![c] = 1]
        /\ since' = [since EXCEPT ![c] = now] /\ started' = [started EXCEPT ![c] = Never]
        /\ shown' = [shown EXCEPT ![c] = <<>>]
        /\ UNCHANGED <<now, toClient, monitors, history, version, registered, lost>>
    BY <1>2 DEF Register, r, serverVars
  <2>4. /\ requestID' \in [Clients -> 0 .. MaxCalls]
        /\ want' \in [Clients -> Registration \cup {NoRegistration}]
    BY <2>1, <2>3 DEF TypeInv, TypeOK
  <2>5. toServer' \in [Clients -> Seq(Registration)] /\ shown' \in [Clients -> Seq(Messages)]
    BY <2>2, <2>3 DEF TypeInv, TypeOK
  <2>6. /\ phase' \in [Clients -> {"idle", "registering", "listening"}]
        /\ attempt' \in [Clients -> 0 .. MaxRetries] /\ since' \in [Clients -> 0 .. MaxTime]
        /\ started' \in [Clients -> 0 .. MaxTime \cup {Never}]
    <3>1. 1 \in 0 .. MaxRetries /\ now \in 0 .. MaxTime
      BY ClientTypes
    <3>2. phase' \in [Clients -> {"idle", "registering", "listening"}]
      BY <2>3 DEF TypeInv, TypeOK
    <3>3. attempt' \in [Clients -> 0 .. MaxRetries] /\ since' \in [Clients -> 0 .. MaxTime]
      BY <2>3, <3>1 DEF TypeInv, TypeOK
    <3>4. started' \in [Clients -> 0 .. MaxTime \cup {Never}]
      BY <2>3 DEF TypeInv, TypeOK
    <3>5. QED  BY <3>2, <3>3, <3>4
  <2>7. ActiveHasWant'
    BY <2>1, <2>3 DEF TypeInv, TypeOK, ActiveHasWant
  <2>8. QED  BY <2>3, <2>4, <2>5, <2>6, <2>7 DEF TypeInv, TypeOK
<1>3. ASSUME NEW c \in Clients, RegistrationTimeout(c) PROVE TypeInv'
  <2>1. phase[c] = "registering" /\ Retry(c)
        /\ UNCHANGED <<now, requestID, want, shown, toClient, monitors, history, version, registered, lost>>
    BY <1>3 DEF RegistrationTimeout, serverVars
  <2>2. QED  BY <2>1, RetryTypes DEF TypeInv, TypeOK, ActiveHasWant
<1>4. ASSUME NEW c \in Clients, ReceiveReply(c) PROVE TypeInv'
  <2>1. /\ phase[c] = "registering" /\ toClient' = [toClient EXCEPT ![c] = Tail(@)] /\ toClient[c] # <<>>
        /\ UNCHANGED <<now, requestID, want, shown, monitors, history, version, registered, lost>>
    BY <1>4 DEF ReceiveReply, serverVars
  <2>2. toClient' \in [Clients -> Seq(Messages)]
    BY <2>1, ClientTypes, QueueTypes DEF TypeInv, TypeOK
  <2>3. CASE Retry(c)
    BY <2>1, <2>2, <2>3, RetryTypes DEF TypeInv, TypeOK, ActiveHasWant
  <2>4. CASE ~ Retry(c)
    <3>1. PICK next \in {"idle", "listening"} :
              /\ phase' = [phase EXCEPT ![c] = next]
              /\ started' = IF next = "listening" THEN [started EXCEPT ![c] = now] ELSE started
              /\ since' = [since EXCEPT ![c] = now]
              /\ UNCHANGED <<attempt, toServer>>
      BY <1>4, <2>4 DEF ReceiveReply
    <3>2. /\ phase' \in [Clients -> {"idle", "registering", "listening"}]
          /\ started' \in [Clients -> 0 .. MaxTime \cup {Never}]
          /\ since' \in [Clients -> 0 .. MaxTime]
      BY <3>1, ClientTypes DEF TypeInv, TypeOK
    <3>3. ActiveHasWant'
      BY <2>1, <3>1, ClientTypes DEF TypeInv, TypeOK, ActiveHasWant
    <3>4. QED  BY <2>1, <2>2, <3>1, <3>2, <3>3 DEF TypeInv, TypeOK
  <2>5. QED  BY <2>3, <2>4
<1>5. ASSUME NEW c \in Clients, ReceiveUpdate(c) PROVE TypeInv'
  <2>1. /\ phase[c] = "listening" /\ toClient' = [toClient EXCEPT ![c] = Tail(@)] /\ toClient[c] # <<>>
        /\ shown' = [shown EXCEPT ![c] = Append(@, Head(toClient[c]))]
        /\ ListenOn(c)
        /\ UNCHANGED <<now, requestID, want, attempt, started, toServer, monitors, history, version,
                       registered, lost>>
    BY <1>5 DEF ReceiveUpdate, serverVars
  <2>2. toClient' \in [Clients -> Seq(Messages)] /\ shown' \in [Clients -> Seq(Messages)]
    BY <2>1, ClientTypes, QueueTypes DEF TypeInv, TypeOK
  <2>3. /\ phase' \in [Clients -> {"idle", "registering", "listening"}]
        /\ since' \in [Clients -> 0 .. MaxTime]
        /\ \A d \in Clients : phase'[d] = phase[d] \/ phase'[d] = "idle"
    <3>1. CASE now < EndTime(c)
      <4>1. phase' = phase /\ since' = [since EXCEPT ![c] = now] /\ now \in 0 .. MaxTime
        BY <2>1, <3>1, ClientTypes DEF ListenOn
      <4>2. QED  BY <4>1 DEF TypeInv, TypeOK
    <3>2. CASE ~ (now < EndTime(c))
      BY <2>1, <3>2 DEF ListenOn, TypeInv, TypeOK
    <3>3. QED  BY <3>1, <3>2
  <2>4. QED  BY <2>1, <2>2, <2>3 DEF TypeInv, TypeOK, ActiveHasWant
<1>6. ASSUME NEW c \in Clients, ListenTimeout(c) PROVE TypeInv'
  BY <1>6 DEF ListenTimeout, serverVars, TypeInv, TypeOK, ActiveHasWant
<1>7. ASSUME NEW c \in Clients, ServeRegister(c) PROVE TypeInv'
  <2>1. UNCHANGED <<now, phase, requestID, want, attempt, since, started, shown, lost>>
    BY <1>7 DEF ServeRegister, clientVars
  <2>2. QED  BY <1>7, <2>1, ServeTypes DEF TypeInv, TypeOK, ActiveHasWant
<1>8. ASSUME NEW c \in Clients, Lose(c) PROVE TypeInv'
  <2>1. UNCHANGED <<now, phase, requestID, want, attempt, since, started, shown, monitors, history, version, registered>>
    BY <1>8 DEF Lose, clientVars, serverVars
  <2>2. toServer' \in [Clients -> Seq(Registration)] /\ toClient' \in [Clients -> Seq(Messages)]
    <3>1. toServer[c] # <<>> => Tail(toServer[c]) \in Seq(Registration)
      BY ClientTypes, QueueTypes
    <3>2. toClient[c] # <<>> => Tail(toClient[c]) \in Seq(Messages)
      BY ClientTypes, QueueTypes
    <3>3. toServer' \in [Clients -> Seq(Registration)]
      BY <1>8, <3>1 DEF Lose, TypeInv, TypeOK
    <3>4. toClient' \in [Clients -> Seq(Messages)]
      BY <1>8, <3>2 DEF Lose, TypeInv, TypeOK
    <3>5. QED  BY <3>3, <3>4
  <2>3. lost' \subseteq Clients
    BY <1>8 DEF Lose, TypeInv, TypeOK
  <2>4. QED  BY <2>1, <2>2, <2>3 DEF TypeInv, TypeOK, ActiveHasWant
<1>9. ASSUME NEW f \in Facilities, Operate(f) PROVE TypeInv'
  <2>1. UNCHANGED <<now, phase, requestID, want, attempt, since, started, shown, toServer, history, registered, lost>>
    BY <1>9 DEF Operate, clientVars
  <2>2. QED  BY <1>9, <2>1, OperateTypes DEF TypeInv, TypeOK, ActiveHasWant
<1>10. CASE UNCHANGED vars
  BY <1>10 DEF vars, clientVars, serverVars, TypeInv, TypeOK, ActiveHasWant
<1>11. QED
  BY <1>1, <1>2, <1>3, <1>4, <1>5, <1>6, <1>7, <1>8, <1>9, <1>10 DEF Next, ClientStep

\* Every reachable state of clients, network and server is well typed.
THEOREM TypeCorrect == Spec => []TypeOK
<1>1. Spec => []TypeInv
  BY TypeInit, TypeStep, PTL DEF Spec
<1>2. TypeInv => TypeOK
  BY DEF TypeInv
<1>3. QED  BY <1>1, <1>2, PTL

-----------------------------------------------------------------------------
(* Listening *)

\* A receive of the listening loop began before the loop's end, and does not
\* last longer than its timeout, which is the whole interval.
ListenInv ==
    \A c \in Clients :
        phase[c] = "listening" =>
            since[c] <= EndTime(c) /\ now <= since[c] + want[c].interval

LEMMA ListenStep == TypeInv /\ TypeInv' /\ ListenInv /\ [Next]_vars => ListenInv'
<1> SUFFICES ASSUME TypeInv, TypeInv', ListenInv, [Next]_vars, NEW d \in Clients, phase'[d] = "listening"
             PROVE  since'[d] <= EndTime(d)' /\ now' <= since'[d] + want'[d].interval
  BY DEF ListenInv
<1> USE MonitoringAssumption
<1>1. /\ now \in Nat /\ now' \in Nat /\ since[d] \in Nat /\ since'[d] \in Nat
      /\ want'[d].interval \in Nat /\ started'[d] \in Nat
      /\ phase[d] = "listening" => want[d].interval \in Nat /\ started[d] \in Nat
  <2>1. now \in Nat /\ now' \in Nat /\ since[d] \in Nat /\ since'[d] \in Nat
    BY DEF TypeInv, TypeOK
  <2>2. want'[d] \in Registration /\ started'[d] \in Nat
    BY DEF TypeInv, ActiveHasWant
  <2>3. phase[d] = "listening" => want[d] \in Registration /\ started[d] \in Nat
    BY DEF TypeInv, ActiveHasWant
  <2>4. \A w \in Registration : w.interval \in Nat
    BY DEF Registration
  <2>5. QED  BY <2>1, <2>2, <2>3, <2>4
<1>2. CASE phase[d] = "listening" /\ UNCHANGED <<since, started, want, now>>
  BY <1>2 DEF ListenInv, EndTime
<1>3. CASE Tick
  <2>1. UNCHANGED <<phase, since, started, want>> /\ now' = now + 1 /\ ~ TimedOut(d)
    BY <1>3 DEF Tick, clientVars
  <2>2. now < since[d] + want[d].interval
    BY <1>1, <2>1 DEF TimedOut, ReceiveTimeout
  <2>3. QED  BY <1>1, <2>1, <2>2 DEF ListenInv, EndTime
<1>4. ASSUME NEW c \in Clients, ClientStep(c), c # d
      PROVE  /\ phase'[d] = phase[d] /\ since'[d] = since[d] /\ started'[d] = started[d]
             /\ want'[d] = want[d] /\ now' = now
  <2>1. CASE \E name \in Names, interval \in Intervals : Register(c, name, interval)
    BY <1>4, <2>1 DEF Register, TypeInv, TypeOK
  <2>2. CASE RegistrationTimeout(c)
    BY <1>4, <2>2 DEF RegistrationTimeout, Retry, TypeInv, TypeOK
  <2>3. CASE ReceiveReply(c)
    BY <1>4, <2>3 DEF ReceiveReply, Retry, TypeInv, TypeOK
  <2>4. CASE ReceiveUpdate(c)
    BY <1>4, <2>4 DEF ReceiveUpdate, ListenOn, TypeInv, TypeOK
  <2>5. CASE ListenTimeout(c)
    BY <1>4, <2>5 DEF ListenTimeout, TypeInv, TypeOK
  <2>6. QED  BY <1>4, <2>1, <2>2, <2>3, <2>4, <2>5 DEF ClientStep
<1>5. ASSUME NEW name \in Names, NEW interval \in Intervals, Register(d, name, interval) PROVE FALSE
  BY <1>5 DEF Register, TypeInv, TypeOK
<1>6. ASSUME RegistrationTimeout(d) PROVE FALSE
  BY <1>6 DEF RegistrationTimeout, Retry, TypeInv, TypeOK
<1>7. CASE ReceiveReply(d)
  <2>1. /\ now' = now /\ want' = want /\ since'[d] = now /\ started'[d] = now
    BY <1>7 DEF ReceiveReply, Retry, TypeInv, TypeOK
  <2>2. QED  BY <1>1, <2>1 DEF EndTime
<1>8. CASE ReceiveUpdate(d)
  <2>1. /\ now' = now /\ want' = want /\ started' = started /\ since'[d] = now /\ now < EndTime(d)
    BY <1>8 DEF ReceiveUpdate, ListenOn, TypeInv, TypeOK
  <2>2. QED  BY <1>1, <2>1 DEF EndTime
<1>9. ASSUME ListenTimeout(d) PROVE FALSE
  BY <1>9 DEF ListenTimeout, TypeInv, TypeOK
<1>10. ASSUME UNCHANGED <<now, clientVars>>
       PROVE  phase[d] = "listening" /\ UNCHANGED <<since, started, want, now>>
  BY <1>10 DEF clientVars
<1>11. CASE \E c \in Clients : ServeRegister(c) \/ Lose(c)
  BY <1>2, <1>10, <1>11 DEF ServeRegister, Lose
<1>12. CASE \E f \in Facilities : Operate(f)
  BY <1>2, <1>10, <1>12 DEF Operate
<1>13. CASE UNCHANGED vars
  BY <1>2, <1>10, <1>13 DEF vars
<1>14. CASE \E c \in Clients : ClientStep(c)
  <2>1. PICK c \in Clients : ClientStep(c)
    BY <1>14
  <2>2. CASE c = d
    BY <1>5, <1>6, <1>7, <1>8, <1>9, <2>1, <2>2 DEF ClientStep
  <2>3. CASE c # d
    BY <1>4, <2>1, <2>3 DEF ListenInv, EndTime
  <2>4. QED  BY <2>2, <2>3
<1>15. QED  BY <1>3, <1>11, <1>12, <1>13, <1>14 DEF Next

\* Listening never lasts for more than twice the duration that was asked for,
\* however many updates arrive (listenForMonitoringUpdates).
THEOREM ListeningBounded == Spec => []ListenBound
<1>1. Init => ListenInv
  BY DEF Init, ListenInv
<1>2. TypeInv /\ ListenInv => ListenBound
  <2> SUFFICES ASSUME TypeInv, ListenInv, NEW c \in Clients, phase[c] = "listening"
               PROVE  now <= started[c] + 2 * want[c].interval
    BY DEF ListenBound
  <2>1. now \in Nat /\ since[c] \in Nat /\ started[c] \in Nat /\ want[c].interval \in Nat
    BY MonitoringAssumption DEF TypeInv, TypeOK, ActiveHasWant, Registration
  <2>2. since[c] <= started[c] + want[c].interval /\ now <= since[c] + want[c].interval
    BY DEF ListenInv, EndTime
  <2>3. QED  BY <2>1, <2>2
<1>3. Spec => [](TypeInv /\ ListenInv)
  BY <1>1, TypeInit, TypeStep, ListenStep, PTL DEF Spec
<1>4. QED  BY <1>2, <1>3, PTL

-----------------------------------------------------------------------------
(* One monitor for a registration *)

\* With a history, the registration of every monitor is in it.
MonitorsRecorded ==
    CheckHistory => \A i \in DOMAIN monitors : <<monitors[i].client, monitors[i].id>> \in history

OnceInv == MonitorsRecorded /\ RegisteredOnce

LEMMA OnceStep == OnceInv /\ [Next]_vars => OnceInv'
<1> SUFFICES ASSUME OnceInv, [Next]_vars, CheckHistory PROVE OnceInv'
  BY DEF OnceInv, MonitorsRecorded, RegisteredOnce
<1>1. CASE UNCHANGED <<monitors, history>>
  BY <1>1 DEF OnceInv, MonitorsRecorded, RegisteredOnce
<1>2. ASSUME NEW c \in Clients, ServeRegister(c) PROVE OnceInv'
  <2> DEFINE r == Head(toServer[c])
             m == [client |-> c, id |-> r.id, facility |-> r.name, created |-> now, interval |-> r.interval]
  <2>1. CASE UNCHANGED monitors /\ history \subseteq history'
    BY <2>1 DEF OnceInv, MonitorsRecorded, RegisteredOnce
  <2>2. CASE /\ <<c, r.id>> \notin history
             /\ history' = history \cup {<<c, r.id>>}
             /\ monitors' = Added(m)
    <3>1. PICK x : x = m
      OBVIOUS
    <3>2. x.client = c /\ x.id = r.id
      BY <3>1
    <3>3. PICK place : /\ DOMAIN Added(x) = DOMAIN monitors \cup {place}
                       /\ Added(x)[place] = x
                       /\ \A i \in DOMAIN monitors : i # place => Added(x)[i] = monitors[i]
      BY Addition
    <3> HIDE DEF m, r
    <3>4. monitors' = Added(x)
      BY <2>2, <3>1
    <3>5. ASSUME NEW i \in DOMAIN monitors'
          PROVE  \/ i = place /\ monitors'[i].client = c /\ monitors'[i].id = r.id
                 \/ i # place /\ i \in DOMAIN monitors /\ monitors'[i] = monitors[i]
      BY <3>2, <3>3, <3>4
    <3>6. MonitorsRecorded'
      BY <2>2, <3>5 DEF OnceInv, MonitorsRecorded
    <3>7. ASSUME NEW i \in DOMAIN monitors, monitors[i].client = c, monitors[i].id = r.id PROVE FALSE
      BY <2>2, <3>7 DEF OnceInv, MonitorsRecorded
    <3>8. RegisteredOnce'
      <4> SUFFICES ASSUME NEW i \in DOMAIN monitors', NEW j \in DOMAIN monitors',
                          monitors'[i].client = monitors'[j].client, monitors'[i].id = monitors'[j].id
                   PROVE  i = j
        BY DEF RegisteredOnce
      <4>1. CASE i # place /\ j # place
        BY <3>5, <4>1 DEF OnceInv, RegisteredOnce
      <4>2. CASE i = place \/ j = place
        BY <3>5, <3>7, <4>2
      <4>3. QED  BY <4>1, <4>2
    <3>9. QED  BY <3>6, <3>8 DEF OnceInv
  <2>3. QED  BY <1>2, <2>1, <2>2 DEF ServeRegister, Recorded, serverVars
<1>3. ASSUME NEW f \in Facilities, Operate(f) PROVE OnceInv'
  <2>1. history' = history /\ monitors' = [i \in {j \in DOMAIN monitors : ~ IfExpired(monitors[j])} |-> monitors[i]]
    BY <1>3, Removal DEF Operate
  <2>2. \A i \in DOMAIN monitors' : i \in DOMAIN monitors /\ monitors'[i] = monitors[i]
    BY <2>1
  <2>3. QED  BY <2>1, <2>2 DEF OnceInv, MonitorsRecorded, RegisteredOnce
<1>4. CASE Tick
  BY <1>1, <1>4 DEF Tick, serverVars
<1>5. ASSUME NEW c \in Clients, ClientStep(c) \/ Lose(c) PROVE UNCHANGED <<monitors, history>>
  BY <1>5 DEF ClientStep, Register, RegistrationTimeout, ReceiveReply, ReceiveUpdate, ListenTimeout, Lose,
              serverVars
<1>6. CASE UNCHANGED vars
  BY <1>1, <1>6 DEF vars, serverVars
<1>7. QED  BY <1>1, <1>2, <1>3, <1>4, <1>5, <1>6 DEF Next

\* With a history, a registration leaves one monitor, however often it is sent
\* or duplicated (the test of handleRequest before registerMonitor).
THEOREM OneMonitor == Spec => []RegisteredOnce
<1>1. Init => OnceInv
  BY DEF Init, OnceInv, MonitorsRecorded, RegisteredOnce
<1>2. OnceInv => RegisteredOnce
  BY DEF OnceInv
<1>3. QED  BY <1>1, <1>2, OnceStep, PTL DEF Spec

-----------------------------------------------------------------------------
(* Places and ages of monitors *)

\* Lemma: a set of natural numbers has a least element.
LEMMA LeastNatural ==
    ASSUME NEW T, T \subseteq Nat, T # {}
    PROVE  \E n \in T : \A m \in T : n <= m
<1> DEFINE Starts == {0 .. n : n \in T}
           R      == StrictSubsetOrdering(Nat)
           S      == FiniteSubsetsOf(Nat)
<1>1. Starts \subseteq S
  <2>1. \A n \in T : 0 .. n \subseteq Nat /\ IsFiniteSet(0 .. n)
    BY FS_Interval
  <2>2. QED  BY <2>1 DEF FiniteSubsetsOf
<1>2. Starts # {}
  OBVIOUS
<1>3. IsWellFoundedOn(R, S)
  BY FS_StrictSubsetOrderingWellFounded
<1> HIDE DEF Starts, R, S
<1>4. \E X \in Starts : \A Y \in Starts : ~ (<<Y, X>> \in R)
  BY <1>1, <1>2, <1>3, WFMin
<1>5. PICK n \in T : \A m \in T : ~ (<<0 .. m, 0 .. n>> \in R)
  BY <1>4 DEF Starts
<1>6. ASSUME NEW m \in T, m < n PROVE FALSE
  <2>1. 0 .. m \subseteq 0 .. n /\ n \in 0 .. n /\ n \notin 0 .. m
    BY <1>6
  <2>2. <<0 .. m, 0 .. n>> \in R
    BY <2>1 DEF R, StrictSubsetOrdering
  <2>3. QED  BY <1>5, <2>2
<1>7. QED  BY <1>5, <1>6

LEMMA GreatestIndex ==
    ASSUME NEW n \in Nat, NEW I, I \subseteq 0 .. n, I # {}
    PROVE  Max(I) \in I /\ \A j \in I : Max(I) >= j
<1> DEFINE T == {n - i : i \in I}
<1>1. T \subseteq Nat /\ T # {}
  OBVIOUS
<1> HIDE DEF T
<1>2. PICK t \in T : \A m \in T : t <= m
  BY <1>1, LeastNatural
<1>3. PICK i \in I : t = n - i
  BY DEF T
<1>4. ASSUME NEW j \in I PROVE i >= j
  <2>1. n - i <= n - j
    BY <1>2, <1>3 DEF T
  <2>2. i \in Int /\ j \in Int
    OBVIOUS
  <2>3. QED  BY <2>1, <2>2
<1>5. \E x \in I : \A j \in I : x >= j
  BY <1>4
<1>6. QED  BY <1>5 DEF Max

\* Places are numbers, finitely many.
Placed == \E n \in Nat : DOMAIN monitors \subseteq 1 .. n

\* Lemma: the place of a new monitor was empty (registerMonitor).
LEMMA NewPlace ==
    ASSUME Placed, NEW m
    PROVE  \E place : /\ place \notin DOMAIN monitors
                      /\ DOMAIN Added(m) = DOMAIN monitors \cup {place}
                      /\ Added(m)[place] = m
                      /\ \A i \in DOMAIN monitors : Added(m)[i] = monitors[i]
                      /\ \E n \in Nat : DOMAIN Added(m) \subseteq 1 .. n
<1> DEFINE places == DOMAIN monitors \cup {0}
           place  == Max(places) + 1
<1>1. Added(m) = [i \in DOMAIN monitors \cup {place} |-> IF i = place THEN m ELSE monitors[i]]
  BY DEF Added
<1>2. PICK n \in Nat : DOMAIN monitors \subseteq 1 .. n
  BY DEF Placed
<1>3. places \subseteq 0 .. n /\ places # {}
  BY <1>2
<1> HIDE DEF places
<1>4. Max(places) \in places /\ \A j \in places : Max(places) >= j
  BY <1>3, GreatestIndex
<1>5. Max(places) \in 0 .. n
  BY <1>3, <1>4
<1>6. place \in 1 .. n + 1
  BY <1>5
<1>7. place \notin DOMAIN monitors
  <2>1. ASSUME place \in DOMAIN monitors PROVE FALSE
    <3>1. Max(places) >= place
      BY <1>4, <2>1 DEF places
    <3>2. QED  BY <1>5, <3>1
  <2>2. QED  BY <2>1
<1> HIDE DEF place
<1>8. DOMAIN monitors \cup {place} \subseteq 1 .. n + 1 /\ n + 1 \in Nat
  BY <1>2, <1>6
<1>9. QED  BY <1>1, <1>7, <1>8

\* Lemma: no monitor outlives its interval, and none goes before if the interval
\* in milliseconds is an int (Monitor.ifExpired).
LEMMA Ages ==
    ASSUME NEW m, m.created \in Nat, m.interval \in Nat, now \in Nat, IntRange \in Nat \ {0}
    PROVE  /\ ~ IfExpired(m) => now <= m.created + m.interval
           /\ 2 * (m.interval * 1000) < IntRange /\ now <= m.created + m.interval => ~ IfExpired(m)
<1> DEFINE x == m.interval * 1000
           r == x % IntRange
<1>1. x \in Nat
  OBVIOUS
<1>2. ToInt(x) = IF 2 * r < IntRange THEN r ELSE r - IntRange
  BY DEF ToInt
<1>3. IfExpired(m) <=> (now - m.created) * 1000 > ToInt(x)
  BY DEF IfExpired
<1>4. r \in Nat /\ r <= x /\ r < IntRange /\ (2 * x < IntRange => r = x)
  <2> HIDE DEF x
  <2>1. QED  BY <1>1
<1> HIDE DEF r
<1>5. ToInt(x) \in Int /\ ToInt(x) <= x /\ (2 * x < IntRange => ToInt(x) = x)
  <2> HIDE DEF x
  <2>1. QED  BY <1>1, <1>2, <1>4
<1>6. PICK limit \in Int : limit = ToInt(x)
  BY <1>5
<1>7. IfExpired(m) <=> (now - m.created) * 1000 > limit
  BY <1>3, <1>6
<1>8. limit <= m.interval * 1000 /\ (2 * (m.interval * 1000) < IntRange => limit = m.interval * 1000)
  BY <1>5, <1>6
<1>9. QED  BY <1>7, <1>8

-----------------------------------------------------------------------------
(* The last update *)

\* Behind place k of s the last message about f is that of version v.
Told(s, k, f, v) ==
    \E j \in 1 .. Len(s) :
        /\ j > k /\ s[j] = Update(f, v)
        /\ \A l \in 1 .. Len(s) : l > j => ~ IsAbout(s[l], f)

\* Lemma: other messages do not change what the last one about f is.
LEMMA ToldStill ==
    ASSUME NEW S, NEW s \in Seq(S), NEW t \in Seq(S), NEW k, NEW f, NEW v, Told(s, k, f, v),
           \A l \in 1 .. Len(t) : ~ IsAbout(t[l], f)
    PROVE  Told(s \o t, k, f, v)
<1>1. PICK j \in 1 .. Len(s) : /\ j > k /\ s[j] = Update(f, v)
                               /\ \A l \in 1 .. Len(s) : l > j => ~ IsAbout(s[l], f)
  BY DEF Told
<1>2. /\ Len(s) \in Nat /\ Len(t) \in Nat /\ Len(s \o t) = Len(s) + Len(t)
      /\ \A i \in 1 .. Len(s) + Len(t) : (s \o t)[i] = IF i <= Len(s) THEN s[i] ELSE t[i - Len(s)]
  BY ConcatProperties, LenProperties
<1>3. j \in 1 .. Len(s \o t) /\ (s \o t)[j] = Update(f, v)
  BY <1>1, <1>2
<1>4. ASSUME NEW l \in 1 .. Len(s \o t), l > j PROVE ~ IsAbout((s \o t)[l], f)
  <2>1. CASE l <= Len(s)
    <3>1. l \in 1 .. Len(s) /\ (s \o t)[l] = s[l]
      BY <1>2, <2>1
    <3>2. QED  BY <1>1, <1>4, <3>1
  <2>2. CASE ~ (l <= Len(s))
    <3>1. l - Len(s) \in 1 .. Len(t) /\ (s \o t)[l] = t[l - Len(s)]
      BY <1>2, <2>2
    <3>2. QED  BY <3>1
  <2>3. QED  BY <2>1, <2>2
<1>5. QED  BY <1>1, <1>3, <1>4 DEF Told

\* Lemma: copies of an update tell its version.
LEMMA ToldNow ==
    ASSUME NEW S, NEW s \in Seq(S), NEW t \in Seq(S), NEW k \in 0 .. Len(s), NEW f, NEW v,
           Len(t) >= 1, \A l \in 1 .. Len(t) : t[l] = Update(f, v)
    PROVE  Told(s \o t, k, f, v)
<1>1. /\ Len(s) \in Nat /\ Len(t) \in Nat /\ Len(s \o t) = Len(s) + Len(t)
      /\ \A i \in 1 .. Len(s) + Len(t) : (s \o t)[i] = IF i <= Len(s) THEN s[i] ELSE t[i - Len(s)]
  BY ConcatProperties, LenProperties
<1> DEFINE j == Len(s) + Len(t)
<1>2. j \in 1 .. Len(s \o t) /\ j > k /\ ~ (j <= Len(s)) /\ j - Len(s) \in 1 .. Len(t)
  BY <1>1
<1>3. (s \o t)[j] = Update(f, v)
  <2>1. (s \o t)[j] = t[j - Len(s)]
    BY <1>1, <1>2
  <2>2. QED  BY <1>2, <2>1
<1>4. \A l \in 1 .. Len(s \o t) : ~ (l > j)
  BY <1>1
<1> HIDE DEF j
<1>5. QED  BY <1>2, <1>3, <1>4 DEF Told

\* Lemma: what is taken from the front was not the last one.
LEMMA ToldTail ==
    ASSUME NEW S, NEW s \in Seq(S), NEW k \in Nat \ {0}, NEW f, NEW v, Told(s, k, f, v)
    PROVE  Told(Tail(s), k - 1, f, v)
<1>1. PICK j \in 1 .. Len(s) : /\ j > k /\ s[j] = Update(f, v)
                               /\ \A l \in 1 .. Len(s) : l > j => ~ IsAbout(s[l], f)
  BY DEF Told
<1>2. Len(s) \in Nat /\ s # <<>>
  BY <1>1, LenProperties
<1>3. Len(Tail(s)) = Len(s) - 1 /\ \A i \in 1 .. Len(s) - 1 : Tail(s)[i] = s[i + 1]
  BY <1>2, HeadTailProperties
<1>4. /\ j - 1 \in 1 .. Len(Tail(s)) /\ j - 1 > k - 1 /\ Tail(s)[j - 1] = s[j]
  <2>1. j - 1 \in 1 .. Len(s) - 1 /\ (j - 1) + 1 = j
    BY <1>1, <1>2
  <2>2. Tail(s)[j - 1] = s[(j - 1) + 1]
    BY <1>3, <2>1
  <2>3. QED  BY <1>1, <1>3, <2>1, <2>2
<1>5. ASSUME NEW l \in 1 .. Len(Tail(s)), l > j - 1 PROVE ~ IsAbout(Tail(s)[l], f)
  <2>1. l + 1 \in 1 .. Len(s) /\ l + 1 > j /\ Tail(s)[l] = s[l + 1]
    BY <1>2, <1>3, <1>5
  <2>2. QED  BY <1>1, <2>1
<1>6. QED  BY <1>1, <1>4, <1>5 DEF Told

\* Lemma: messages before do not matter.
LEMMA ToldBefore ==
    ASSUME NEW S, NEW s \in Seq(S), NEW t \in Seq(S), NEW k \in Nat, NEW f, NEW v, Told(t, k, f, v)
    PROVE  Told(s \o t, 0, f, v)
<1>1. PICK j \in 1 .. Len(t) : /\ j > k /\ t[j] = Update(f, v)
                               /\ \A l \in 1 .. Len(t) : l > j => ~ IsAbout(t[l], f)
  BY DEF Told
<1>2. /\ Len(s) \in Nat /\ Len(t) \in Nat /\ Len(s \o t) = Len(s) + Len(t)
      /\ \A i \in 1 .. Len(s) + Len(t) : (s \o t)[i] = IF i <= Len(s) THEN s[i] ELSE t[i - Len(s)]
  BY ConcatProperties, LenProperties
<1>3. /\ Len(s) + j \in 1 .. Len(s \o t) /\ Len(s) + j > 0
      /\ ~ (Len(s) + j <= Len(s)) /\ (Len(s) + j) - Len(s) = j
  BY <1>2
<1>4. (s \o t)[Len(s) + j] = Update(f, v)
  BY <1>1, <1>2, <1>3
<1>5. ASSUME NEW l \in 1 .. Len(s \o t), l > Len(s) + j PROVE ~ IsAbout((s \o t)[l], f)
  <2>1. l - Len(s) \in 1 .. Len(t) /\ l - Len(s) > j /\ ~ (l <= Len(s))
    BY <1>2, <1>5
  <2>2. (s \o t)[l] = t[l - Len(s)]
    BY <1>2, <2>1
  <2>3. QED  BY <1>1, <2>1, <2>2
<1>6. QED  BY <1>3, <1>4, <1>5 DEF Told

\* Lemma: LatestUpdate finds it.
LEMMA ToldLatest ==
    ASSUME TypeInv, NEW c \in Clients, NEW v, Told(shown[c] \o toClient[c], 0, want[c].name, v)
    PROVE  LatestUpdate(c) = Update(want[c].name, v)
<1> DEFINE all     == shown[c] \o toClient[c]
           updates == {i \in 1 .. Len(all) : IsAbout(all[i], want[c].name)}
<1>1. PICK j \in 1 .. Len(all) : /\ all[j] = Update(want[c].name, v)
                                 /\ \A l \in 1 .. Len(all) : l > j => ~ IsAbout(all[l], want[c].name)
  BY DEF Told
<1>2. all \in Seq(Messages) /\ Len(all) \in Nat
  BY ClientTypes, QueueTypes, LenProperties
<1>3. j \in updates
  <2>1. \A f : IsAbout(Update(f, v), f)
    BY DEF IsAbout, Update
  <2> HIDE DEF all
  <2>2. QED  BY <1>1, <2>1
<1>4. \A l \in updates : ~ (l > j)
  BY <1>1
<1>5. LatestUpdate(c) = all[Max(updates)]
  BY <1>3 DEF LatestUpdate
<1>6. updates \subseteq 0 .. Len(all) /\ updates \subseteq 1 .. Len(all)
  <2> HIDE DEF all
  <2>1. QED  BY <1>2
<1> HIDE DEF all, updates
<1>7. Max(updates) \in updates /\ Max(updates) >= j
  BY <1>2, <1>3, <1>6, GreatestIndex
<1>8. Max(updates) = j
  <2>1. Max(updates) \in 1 .. Len(all)
    BY <1>6, <1>7
  <2>2. ~ (Max(updates) > j)
    BY <1>4, <1>7
  <2>3. QED  BY <1>2, <1>7, <2>1, <2>2
<1>9. QED  BY <1>1, <1>5, <1>8

-----------------------------------------------------------------------------
(* What a step is to one client *)

In(s) == {s[l] : l \in 1 .. Len(s)}

\* Lemma: what Append, Head, Tail and \o do to the elements of a queue.
LEMMA InQueue ==
    ASSUME NEW S, NEW s \in Seq(S)
    PROVE  /\ \A x \in S : In(Append(s, x)) = In(s) \cup {x}
           /\ \A t \in Seq(S) : In(s \o t) = In(s) \cup In(t)
           /\ s # <<>> => Head(s) \in In(s) /\ In(Tail(s)) \subseteq In(s)
<1>0. Len(s) \in Nat
  BY LenProperties
<1>1. ASSUME NEW x \in S PROVE In(Append(s, x)) = In(s) \cup {x}
  <2>1. /\ Len(Append(s, x)) = Len(s) + 1
        /\ \A i \in 1 .. Len(s) : Append(s, x)[i] = s[i]
        /\ Append(s, x)[Len(s) + 1] = x
    BY AppendProperties
  <2>2. 1 .. Len(s) + 1 = (1 .. Len(s)) \cup {Len(s) + 1}
    BY <1>0
  <2>3. QED  BY <2>1, <2>2 DEF In
<1>2. ASSUME NEW t \in Seq(S) PROVE In(s \o t) = In(s) \cup In(t)
  <2>1. /\ Len(t) \in Nat /\ Len(s \o t) = Len(s) + Len(t)
        /\ \A i \in 1 .. Len(s) + Len(t) : (s \o t)[i] = IF i <= Len(s) THEN s[i] ELSE t[i - Len(s)]
    BY ConcatProperties, LenProperties
  <2>2. \A i \in 1 .. Len(s) : i \in 1 .. Len(s \o t) /\ (s \o t)[i] = s[i]
    BY <1>0, <2>1
  <2>3. \A i \in 1 .. Len(t) : Len(s) + i \in 1 .. Len(s \o t) /\ (s \o t)[Len(s) + i] = t[i]
    <3>1. ASSUME NEW i \in 1 .. Len(t)
          PROVE  Len(s) + i \in 1 .. Len(s) + Len(t) /\ ~ (Len(s) + i <= Len(s)) /\ (Len(s) + i) - Len(s) = i
      BY <1>0, <2>1
    <3>2. QED  BY <2>1, <3>1
  <2>4. ASSUME NEW i \in 1 .. Len(s \o t) PROVE (s \o t)[i] \in In(s) \cup In(t)
    <3>1. CASE i <= Len(s)
      <4>1. i \in 1 .. Len(s) /\ (s \o t)[i] = s[i]
        BY <1>0, <2>1, <3>1
      <4>2. QED  BY <4>1 DEF In
    <3>2. CASE ~ (i <= Len(s))
      <4>1. i - Len(s) \in 1 .. Len(t) /\ (s \o t)[i] = t[i - Len(s)]
        BY <1>0, <2>1, <3>2
      <4>2. QED  BY <4>1 DEF In
    <3>3. QED  BY <3>1, <3>2
  <2>5. In(s \o t) \subseteq In(s) \cup In(t)
    BY <2>4 DEF In
  <2>6. In(s) \subseteq In(s \o t) /\ In(t) \subseteq In(s \o t)
    BY <2>2, <2>3 DEF In
  <2>7. QED  BY <2>5, <2>6
<1>3. ASSUME s # <<>> PROVE Head(s) \in In(s) /\ In(Tail(s)) \subseteq In(s)
  <2>1. /\ Len(s) >= 1 /\ Head(s) = s[1] /\ Len(Tail(s)) = Len(s) - 1
        /\ \A i \in 1 .. Len(s) - 1 : Tail(s)[i] = s[i + 1]
    BY <1>0, <1>3, HeadTailProperties, EmptySeq
  <2>2. 1 \in 1 .. Len(s) /\ \A i \in 1 .. Len(s) - 1 : i + 1 \in 1 .. Len(s)
    BY <1>0, <2>1
  <2>3. QED  BY <2>1, <2>2 DEF In
<1>4. QED  BY <1>1, <1>2, <1>3

\* A client's own state, and what the server and the network hold of it.
Own(c) == <<phase[c], requestID[c], want[c], since[c], started[c], shown[c], toServer[c], toClient[c], registered[c]>>

\* Monitors of c are those there were, at their places.
SameMonitors(c) ==
    /\ \A i \in DOMAIN monitors : i \in DOMAIN monitors' /\ monitors'[i] = monitors[i]
    /\ \A i \in DOMAIN monitors' :
           monitors'[i].client = c => i \in DOMAIN monitors /\ monitors'[i] = monitors[i]

\* A step that is none of c's business.
Elsewhere(c) ==
    /\ Own(c)' = Own(c)
    /\ SameMonitors(c)
    /\ now' = now /\ version' = version /\ history \subseteq history'
    /\ c \notin lost' => c \notin lost

\* Lemma: steps of one client, and those of the server and the network for it,
\* are no business of another (handleRequest replies to the port it was asked from).
LEMMA OtherClient ==
    ASSUME TypeInv, Placed, NEW c \in Clients, NEW d \in Clients, c # d,
           ClientStep(c) \/ ServeRegister(c) \/ Lose(c)
    PROVE  Elsewhere(d)
<1> USE DEF Elsewhere, Own
<1>0. UNCHANGED monitors => SameMonitors(d)
  BY DEF SameMonitors
<1>1. CASE \E name \in Names, interval \in Intervals : Register(c, name, interval)
  BY <1>0, <1>1 DEF Register, serverVars, TypeInv, TypeOK
<1>2. CASE RegistrationTimeout(c)
  BY <1>0, <1>2 DEF RegistrationTimeout, Retry, serverVars, TypeInv, TypeOK
<1>3. CASE ReceiveReply(c)
  BY <1>0, <1>3 DEF ReceiveReply, Retry, serverVars, TypeInv, TypeOK
<1>4. CASE ReceiveUpdate(c)
  BY <1>0, <1>4 DEF ReceiveUpdate, ListenOn, serverVars, TypeInv, TypeOK
<1>5. CASE ListenTimeout(c)
  BY <1>0, <1>5 DEF ListenTimeout, serverVars, TypeInv, TypeOK
<1>6. CASE Lose(c)
  BY <1>0, <1>6 DEF Lose, clientVars, serverVars, TypeInv, TypeOK
<1>7. CASE ServeRegister(c)
  <2>1. /\ toServer'[d] = toServer[d] /\ toClient'[d] = toClient[d]
        /\ UNCHANGED <<now, phase, requestID, want, since, started, shown, lost>>
    BY <1>7 DEF ServeRegister, clientVars, TypeInv, TypeOK
  <2>2. version' = version /\ history \subseteq history'
    BY <1>7 DEF ServeRegister, serverVars
  <2>3. registered'[d] = registered[d]
    BY <1>7 DEF ServeRegister, serverVars, TypeInv, TypeOK
  <2>4. SameMonitors(d)
    <3>1. PICK m : /\ m.client = c
                   /\ monitors' = monitors \/ monitors' = Added(m)
      BY <1>7 DEF ServeRegister, serverVars
    <3>2. CASE monitors' = Added(m)
      <4>1. PICK place : /\ place \notin DOMAIN monitors
                         /\ DOMAIN Added(m) = DOMAIN monitors \cup {place}
                         /\ Added(m)[place] = m
                         /\ \A i \in DOMAIN monitors : Added(m)[i] = monitors[i]
        BY NewPlace
      <4>2. QED  BY <3>1, <3>2, <4>1 DEF SameMonitors
    <3>3. QED  BY <1>0, <3>1, <3>2
  <2>5. QED  BY <2>1, <2>2, <2>3, <2>4
<1>8. QED  BY <1>1, <1>2, <1>3, <1>4, <1>5, <1>6, <1>7 DEF ClientStep

\* A step of the client c itself.
OwnStep(c) ==
    \/ \E name \in Names, interval \in Intervals : Register(c, name, interval)
    \/ RegistrationTimeout(c)
    \/ ReceiveReply(c)
    \/ ReceiveUpdate(c)
    \/ ListenTimeout(c)

\* Lemma: what a step can be to a client.
LEMMA StepsOf ==
    ASSUME TypeInv, Placed, [Next]_vars, NEW d \in Clients
    PROVE  \/ Tick
           \/ OwnStep(d) \/ ServeRegister(d) \/ Lose(d)
           \/ \E f \in Facilities : Operate(f)
           \/ Elsewhere(d)
<1>1. CASE UNCHANGED vars
  BY <1>1 DEF vars, clientVars, serverVars, Elsewhere, Own, SameMonitors
<1>2. ASSUME NEW c \in Clients, c # d, ClientStep(c) \/ ServeRegister(c) \/ Lose(c)
      PROVE  Elsewhere(d)
  BY <1>2, OtherClient
<1>3. QED  BY <1>1, <1>2 DEF Next, ClientStep, OwnStep

LEMMA PlacedStep == Placed /\ [Next]_vars => Placed'
<1> SUFFICES ASSUME Placed, [Next]_vars PROVE Placed'
  OBVIOUS
<1>1. CASE UNCHANGED monitors
  BY <1>1 DEF Placed
<1>2. ASSUME NEW c \in Clients, ServeRegister(c) PROVE Placed'
  <2>1. PICK m : monitors' = monitors \/ monitors' = Added(m)
    BY <1>2 DEF ServeRegister, serverVars
  <2>2. \E n \in Nat : DOMAIN Added(m) \subseteq 1 .. n
    BY NewPlace
  <2>3. QED  BY <1>1, <2>1, <2>2 DEF Placed
<1>3. ASSUME NEW f \in Facilities, Operate(f) PROVE Placed'
  <2>1. DOMAIN monitors' \subseteq DOMAIN monitors
    BY <1>3, Removal DEF Operate
  <2>2. QED  BY <2>1 DEF Placed
<1>4. CASE Tick \/ UNCHANGED vars
  BY <1>1, <1>4 DEF Tick, vars, serverVars
<1>5. ASSUME NEW c \in Clients, ClientStep(c) \/ Lose(c) PROVE UNCHANGED monitors
  BY <1>5 DEF ClientStep, Register, RegistrationTimeout, ReceiveReply, ReceiveUpdate, ListenTimeout, Lose,
              serverVars
<1>6. QED  BY <1>1, <1>2, <1>3, <1>4, <1>5 DEF Next

\* Lemma: Operate keeps some of the monitors.
LEMMA OperateKeeps ==
    ASSUME NEW f \in Facilities, Operate(f)
    PROVE  /\ DOMAIN monitors' = {j \in DOMAIN monitors : ~ IfExpired(monitors[j])}
           /\ \A i \in DOMAIN monitors' : i \in DOMAIN monitors /\ monitors'[i] = monitors[i]
BY Removal DEF Operate

\* What serving the registration r of c does.
Serves(c, r) ==
    /\ r \in Registration
    /\ r \in In(toServer[c]) /\ In(toServer'[c]) \subseteq In(toServer[c])
    /\ toClient'[c] = Append(toClient[c], Reply(r.id, r.name \in Facilities))
    /\ UNCHANGED <<now, phase, requestID, want, started, shown, version, lost>>
    /\ history' = history \cup {<<c, r.id>>}
    /\ \A i \in DOMAIN monitors : i \in DOMAIN monitors' /\ monitors'[i] = monitors[i]
    /\ \/ registered' = registered /\ monitors' = monitors
       \/ /\ r.name \in Facilities /\ (CheckHistory => <<c, r.id>> \notin history)
          /\ registered'[c] = [id |-> r.id, version |-> version[r.name], at |-> now]
          /\ \E place \in DOMAIN monitors' :
                /\ monitors'[place].client = c /\ monitors'[place].id = r.id
                /\ monitors'[place].facility = r.name
                /\ monitors'[place].created = now /\ monitors'[place].interval = r.interval
                /\ \A i \in DOMAIN monitors' : i # place => i \in DOMAIN monitors /\ monitors'[i] = monitors[i]

LEMMA ServesOne ==
    ASSUME TypeInv, Placed, NEW c \in Clients, ServeRegister(c)
    PROVE  \E r : Serves(c, r)
<1> DEFINE h == Head(toServer[c])
<1>1. toServer[c] # <<>> /\ toServer[c] \in Seq(Registration)
  BY ClientTypes DEF ServeRegister
<1>2. h \in Registration /\ h \in In(toServer[c]) /\ In(Tail(toServer[c])) \subseteq In(toServer[c])
  BY <1>1, InQueue, QueueTypes
<1>3. PICK r : r = h
  OBVIOUS
<1>4. /\ toServer'[c] = Tail(toServer[c])
      /\ toClient'[c] = Append(toClient[c], Reply(r.id, r.name \in Facilities))
      /\ UNCHANGED <<now, phase, requestID, want, started, shown, version, lost>>
  BY <1>3 DEF ServeRegister, clientVars, serverVars, TypeInv, TypeOK
<1>5. r \in Registration /\ r \in In(toServer[c]) /\ In(toServer'[c]) \subseteq In(toServer[c])
  BY <1>2, <1>3, <1>4
<1>6. CASE Recorded(c, r)
  <2>1. UNCHANGED <<monitors, history, version, registered>> /\ <<c, r.id>> \in history
    BY <1>3, <1>6 DEF ServeRegister, serverVars, Recorded
  <2>2. history' = history \cup {<<c, r.id>>}
    BY <2>1
  <2>3. Serves(c, r)
    BY <1>4, <1>5, <2>1, <2>2 DEF Serves
  <2>4. QED  BY <2>3
<1>7. CASE ~ Recorded(c, r) /\ r.name \notin Facilities
  <2>1. UNCHANGED <<monitors, registered>> /\ history' = history \cup {<<c, r.id>>}
    BY <1>3, <1>7 DEF ServeRegister
  <2>2. Serves(c, r)
    BY <1>4, <1>5, <2>1 DEF Serves
  <2>3. QED  BY <2>2
<1>8. CASE ~ Recorded(c, r) /\ r.name \in Facilities
  <2>1. PICK m : m = [client |-> c, id |-> r.id, facility |-> r.name, created |-> now, interval |-> r.interval]
    OBVIOUS
  <2>2. /\ m.client = c /\ m.id = r.id /\ m.facility = r.name /\ m.created = now /\ m.interval = r.interval
    BY <2>1
  <2>3. /\ history' = history \cup {<<c, r.id>>} /\ monitors' = Added(m)
        /\ registered' = [registered EXCEPT ![c] = [id |-> r.id, version |-> version[r.name], at |-> now]]
    BY <1>3, <1>8, <2>1 DEF ServeRegister
  <2>4. registered'[c] = [id |-> r.id, version |-> version[r.name], at |-> now]
    BY <2>3 DEF TypeInv, TypeOK
  <2>5. PICK place : /\ place \notin DOMAIN monitors
                     /\ DOMAIN Added(m) = DOMAIN monitors \cup {place}
                     /\ Added(m)[place] = m
                     /\ \A i \in DOMAIN monitors : Added(m)[i] = monitors[i]
    BY NewPlace
  <2>6. /\ place \in DOMAIN monitors' /\ monitors'[place] = m
        /\ \A i \in DOMAIN monitors : i \in DOMAIN monitors' /\ monitors'[i] = monitors[i]
        /\ \A i \in DOMAIN monitors' : i # place => i \in DOMAIN monitors /\ monitors'[i] = monitors[i]
    BY <2>3, <2>5
  <2>7. CheckHistory => <<c, r.id>> \notin history
    BY <1>8 DEF Recorded
  <2>8. Serves(c, r)
    BY <1>4, <1>5, <1>8, <2>2, <2>3, <2>4, <2>6, <2>7 DEF Serves
  <2>9. QED  BY <2>8
<1>9. QED  BY <1>6, <1>7, <1>8

\* Lemma: what a client's own step leaves alone, but for a new registration.
LEMMA OwnStepKeeps ==
    ASSUME TypeInv, NEW c \in Clients,
           RegistrationTimeout(c) \/ ReceiveReply(c) \/ ReceiveUpdate(c) \/ ListenTimeout(c)
    PROVE  /\ want'[c] = want[c] /\ requestID'[c] = requestID[c]
           /\ toServer'[c] = toServer[c] \/ toServer'[c] = Append(toServer[c], want[c])
           /\ UNCHANGED <<now, version, history, monitors, registered, lost>>
           /\ phase[c] # "idle" /\ want[c] \in Registration
<1>1. phase[c] # "idle"
  BY DEF RegistrationTimeout, ReceiveReply, ReceiveUpdate, ListenTimeout
<1>2. toServer'[c] = toServer[c] \/ toServer'[c] = Append(toServer[c], want[c])
  BY DEF RegistrationTimeout, ReceiveReply, ReceiveUpdate, ListenTimeout, Retry, TypeInv, TypeOK
<1>3. UNCHANGED <<want, requestID, now, version, history, monitors, registered, lost>>
  BY DEF RegistrationTimeout, ReceiveReply, ReceiveUpdate, ListenTimeout, serverVars
<1>4. QED  BY <1>1, <1>2, <1>3, ClientTypes

\* Lemma: what a new registration is, and what it leaves alone.
LEMMA Registers ==
    ASSUME TypeInv, NEW c \in Clients, NEW name \in Names, NEW interval \in Intervals,
           Register(c, name, interval)
    PROVE  /\ want'[c].id = requestID[c] /\ want'[c] \in Registration
           /\ requestID'[c] = requestID[c] + 1
           /\ toServer'[c] = Append(toServer[c], want'[c])
           /\ phase'[c] = "registering" /\ started'[c] = Never
           /\ UNCHANGED <<now, version, history, monitors, registered, lost, toClient>>
<1>1. PICK r : r = [id |-> requestID[c], name |-> name, interval |-> interval]
  OBVIOUS
<1>2. r.id = requestID[c] /\ r \in Registration
  <2>1. requestID[c] \in IDs
    BY MonitoringAssumption, ClientTypes DEF Register, IDs
  <2>2. QED  BY <1>1, <2>1 DEF Registration
<1>3. want'[c] = r /\ toServer'[c] = Append(toServer[c], r)
  BY <1>1 DEF Register, TypeInv, TypeOK
<1>4. /\ requestID'[c] = requestID[c] + 1
      /\ phase'[c] = "registering" /\ started'[c] = Never
      /\ UNCHANGED <<now, version, history, monitors, registered, lost, toClient>>
  BY DEF Register, serverVars, TypeInv, TypeOK
<1>5. QED  BY <1>2, <1>3, <1>4

-----------------------------------------------------------------------------
(* Whose registration it is *)

\* What the server holds of c's is of c's earlier calls or a copy of the last.
AskedBy(c) ==
    /\ requestID[c] = want[c].id + 1
    /\ registered[c].id < requestID[c]
    /\ \A r \in In(toServer[c]) : r.id < requestID[c] /\ (r.id = want[c].id => r = want[c])
    /\ \A i \in DOMAIN monitors :
           monitors[i].client = c =>
               /\ monitors[i].id < requestID[c]
               /\ monitors[i].id = want[c].id => monitors[i].interval = want[c].interval

\* Lemma: the numbers that these are about.
LEMMA Numbers ==
    ASSUME TypeInv, NEW c \in Clients
    PROVE  /\ requestID[c] \in Nat /\ registered[c].id \in Int /\ registered[c].at \in Nat
           /\ now \in Nat
           /\ \A r \in Registration : r.id \in Int /\ r.interval \in Nat /\ r # NoRegistration
           /\ want[c].id \in Int
           /\ \A r \in In(toServer[c]) : r \in Registration
           /\ \A i \in DOMAIN monitors : /\ monitors[i].id \in Int /\ monitors[i].created \in Nat
                                         /\ monitors[i].interval \in Nat
<1> USE MonitoringAssumption
<1>0. IDs \subseteq Int /\ Intervals \subseteq Nat
  BY DEF IDs
<1>1. \A r \in Registration : r.id \in Int /\ r.interval \in Nat
  BY <1>0 DEF Registration
<1>2. NoRegistration.id = -1 /\ \A r \in Registration : r # NoRegistration
  BY DEF NoRegistration, Registration, IDs
<1>3. want[c] \in Registration \/ want[c] = NoRegistration
  BY DEF TypeInv, TypeOK
<1>4. requestID[c] \in Nat /\ now \in Nat
  BY ClientTypes
<1>5. registered[c].id \in Int /\ registered[c].at \in Nat
  BY DEF TypeInv, TypeOK, IDs
<1>6. \A r \in In(toServer[c]) : r \in Registration
  <2>1. toServer[c] \in Seq(Registration)
    BY ClientTypes
  <2>2. QED  BY <2>1, ElementOfSeq DEF In
<1>7. \A m \in Monitor : m.id \in Int /\ m.created \in Nat /\ m.interval \in Nat
  BY <1>0 DEF Monitor
<1>8. \A i \in DOMAIN monitors : monitors[i] \in Monitor
  BY DEF TypeInv, TypeOK
<1>9. want[c].id \in Int
  BY <1>1, <1>2, <1>3
<1>10. QED  BY <1>1, <1>2, <1>4, <1>5, <1>6, <1>7, <1>8, <1>9

LEMMA AskedByStep ==
    ASSUME TypeInv, Placed, [Next]_vars, NEW c \in Clients, AskedBy(c)
    PROVE  AskedBy(c)'
<1> USE DEF AskedBy
<1>0. toServer[c] \in Seq(Registration)
  BY ClientTypes
<1>1. CASE Tick
  BY <1>1 DEF Tick, clientVars, serverVars
<1>2. ASSUME NEW name \in Names, NEW interval \in Intervals, Register(c, name, interval) PROVE AskedBy(c)'
  <2>1. /\ want'[c].id = requestID[c] /\ want'[c] \in Registration
        /\ requestID'[c] = requestID[c] + 1
        /\ toServer'[c] = Append(toServer[c], want'[c])
        /\ UNCHANGED <<monitors, registered>>
    BY <1>2, Registers
  <2>2. In(toServer'[c]) = In(toServer[c]) \cup {want'[c]}
    BY <1>0, <2>1, InQueue
  <2>3. \A n \in Int : n < requestID[c] => n < requestID'[c] /\ n # want'[c].id
    BY <2>1, Numbers
  <2>4. requestID'[c] = want'[c].id + 1 /\ registered'[c].id < requestID'[c] /\ want'[c].id < requestID'[c]
    BY <2>1, <2>3, Numbers
  <2>5. \A r \in In(toServer'[c]) : r.id < requestID'[c] /\ (r.id = want'[c].id => r = want'[c])
    BY <2>2, <2>3, <2>4, Numbers
  <2>6. \A i \in DOMAIN monitors' :
            monitors'[i].client = c => monitors'[i].id < requestID'[c] /\ monitors'[i].id # want'[c].id
    BY <2>1, <2>3, Numbers
  <2>7. QED  BY <2>4, <2>5, <2>6
<1>3. CASE RegistrationTimeout(c) \/ ReceiveReply(c) \/ ReceiveUpdate(c) \/ ListenTimeout(c)
  <2>1. /\ want'[c] = want[c] /\ requestID'[c] = requestID[c]
        /\ toServer'[c] = toServer[c] \/ toServer'[c] = Append(toServer[c], want[c])
        /\ UNCHANGED <<monitors, registered>> /\ want[c] \in Registration
    BY <1>3, OwnStepKeeps
  <2>2. In(toServer'[c]) \subseteq In(toServer[c]) \cup {want[c]}
    <3>1. In(Append(toServer[c], want[c])) = In(toServer[c]) \cup {want[c]}
      BY <1>0, <2>1, InQueue
    <3>2. QED  BY <2>1, <3>1
  <2>3. want[c].id < requestID[c]
    BY Numbers
  <2>4. QED  BY <2>1, <2>2, <2>3
<1>4. CASE ServeRegister(c)
  <2>1. PICK r : Serves(c, r)
    BY <1>4, ServesOne
  <2>2. UNCHANGED <<requestID, want>> /\ In(toServer'[c]) \subseteq In(toServer[c]) /\ r \in In(toServer[c])
    BY <2>1 DEF Serves
  <2>3. CASE registered' = registered /\ monitors' = monitors
    BY <2>2, <2>3
  <2>4. CASE ~ (registered' = registered /\ monitors' = monitors)
    <3>1. registered'[c].id = r.id
      BY <2>1, <2>4 DEF Serves
    <3>2. PICK place \in DOMAIN monitors' :
              /\ monitors'[place].id = r.id /\ monitors'[place].interval = r.interval
              /\ \A i \in DOMAIN monitors' : i # place => i \in DOMAIN monitors /\ monitors'[i] = monitors[i]
      BY <2>1, <2>4 DEF Serves
    <3>3. QED  BY <2>2, <3>1, <3>2
  <2>5. QED  BY <2>3, <2>4
<1>5. CASE Lose(c)
  <2>1. UNCHANGED <<requestID, want, monitors, registered>>
    BY <1>5 DEF Lose, clientVars, serverVars
  <2>2. toServer'[c] = toServer[c] \/ (toServer[c] # <<>> /\ toServer'[c] = Tail(toServer[c]))
    BY <1>5 DEF Lose, TypeInv, TypeOK
  <2>3. In(toServer'[c]) \subseteq In(toServer[c])
    BY <1>0, <2>2, InQueue
  <2>4. QED  BY <2>1, <2>3
<1>6. ASSUME NEW f \in Facilities, Operate(f) PROVE AskedBy(c)'
  <2>1. UNCHANGED <<requestID, want, registered, toServer>>
    BY <1>6 DEF Operate, clientVars
  <2>2. QED  BY <1>6, <2>1, OperateKeeps
<1>7. CASE Elsewhere(c)
  BY <1>7 DEF Elsewhere, Own, SameMonitors
<1>8. QED  BY <1>1, <1>2, <1>3, <1>4, <1>5, <1>6, <1>7, StepsOf DEF OwnStep

-----------------------------------------------------------------------------
(* When the server hears of a client, and the client of it *)

\* A booking operation on f sends x to c: updates, if c has a monitor of f left.
Sent(c, f, x) ==
    /\ x \in Seq(Messages)
    /\ toClient'[c] = toClient[c] \o x
    /\ \A l \in 1 .. Len(x) : x[l] = Update(f, version[f] + 1)
    /\ Len(x) >= 1 <=> \E i \in DOMAIN monitors : /\ ~ IfExpired(monitors[i])
                                                  /\ monitors[i].client = c
                                                  /\ monitors[i].facility = f

\* Lemma: what a booking operation on f sends to c (notifyAll).
LEMMA Sends ==
    ASSUME TypeInv, NEW c \in Clients, NEW f \in Facilities, Operate(f)
    PROVE  \E x : Sent(c, f, x)
<1> DEFINE left == RemoveExpiredMonitors
           mine == {i \in DOMAIN left : left[i].client = c /\ left[i].facility = f}
           x    == [i \in 1 .. Cardinality(mine) |-> Update(f, version[f] + 1)]
<1>1. \A i : i \in mine <=> /\ i \in DOMAIN monitors /\ ~ IfExpired(monitors[i])
                            /\ monitors[i].client = c /\ monitors[i].facility = f
  BY Removal
<1>2. x = Notifications(c, f, version[f] + 1)
  BY DEF Notifications
<1> HIDE DEF left, mine
<1>3. IsFiniteSet(mine) /\ Cardinality(mine) \in Nat /\ (Cardinality(mine) = 0 <=> mine = {})
  <2>1. mine \subseteq DOMAIN monitors
    BY <1>1
  <2>2. IsFiniteSet(mine)
    BY <2>1, FS_Subset DEF TypeInv, TypeOK
  <2>3. QED  BY <2>2, FS_CardinalityType, FS_EmptySet
<1>4. Update(f, version[f] + 1) \in Messages
  <2>1. version[f] + 1 \in 0 .. MaxVersion
    BY MonitoringAssumption DEF Operate, TypeInv, TypeOK
  <2>2. QED  BY <2>1 DEF Messages
<1>5. /\ x \in Seq(Messages) /\ Len(x) = Cardinality(mine)
      /\ \A l \in 1 .. Len(x) : x[l] = Update(f, version[f] + 1)
  <2>1. PICK n \in Nat : n = Cardinality(mine)
    BY <1>3
  <2>2. PICK u : u = Update(f, version[f] + 1) /\ u \in Messages
    BY <1>4
  <2>3. x = [i \in 1 .. n |-> u]
    BY <2>1, <2>2
  <2> HIDE DEF x
  <2>4. x \in Seq(Messages) /\ Len(x) = n /\ \A l \in 1 .. n : x[l] = u
    BY <2>2, <2>3
  <2>5. QED  BY <2>1, <2>2, <2>4
<1>6. toClient'[c] = toClient[c] \o x
  BY <1>2 DEF Operate
<1> HIDE DEF x
<1>7. Len(x) >= 1 <=> \E i : i \in mine
  BY <1>3, <1>5
<1>8. Sent(c, f, x)
  BY <1>1, <1>5, <1>6, <1>7 DEF Sent
<1>9. QED  BY <1>8

\* A client that does not listen any more has done so for its interval.
ClockOf(c) ==
    /\ phase[c] = "registering" => started[c] = Never
    /\ phase[c] = "idle" /\ started[c] # Never => now >= EndTime(c)
    /\ phase[c] = "listening" => started[c] <= since[c]
    /\ started[c] # Never => started[c] <= now /\ want[c] \in Registration

LEMMA ClockOfStep ==
    ASSUME TypeInv, Placed, [Next]_vars, NEW c \in Clients, ClockOf(c)
    PROVE  ClockOf(c)'
<1> USE DEF ClockOf, EndTime
<1>0. /\ now \in Nat /\ since[c] \in Nat /\ (started[c] \in Nat \/ started[c] = Never)
      /\ phase[c] = "listening" => started[c] \in Nat /\ started[c] # Never /\ want[c].interval \in Nat
      /\ phase[c] = "registering" => want[c] \in Registration
      /\ started[c] \in Int
  <2>1. now \in Nat /\ since[c] \in Nat /\ (started[c] \in Nat \/ started[c] = Never)
    BY MonitoringAssumption DEF TypeInv, TypeOK
  <2>2. /\ phase[c] = "listening" => started[c] \in Nat /\ want[c] \in Registration
        /\ phase[c] = "registering" => want[c] \in Registration
    BY MonitoringAssumption DEF TypeInv, ActiveHasWant
  <2>3. \A n \in Nat : n # Never
    BY DEF Never
  <2>4. Never \in Int
    BY DEF Never
  <2>5. QED  BY <2>1, <2>2, <2>3, <2>4, Numbers
<1>1. CASE Tick
  <2>1. /\ now' = now + 1 /\ UNCHANGED <<phase, started, since, want>>
    BY <1>1 DEF Tick, clientVars
  <2>2. CASE started[c] = Never
    BY <1>0, <2>1, <2>2
  <2>3. CASE started[c] # Never
    <3>1. started[c] <= now + 1
      BY <1>0, <2>3
    <3>2. phase[c] = "idle" => now' >= started[c] + want[c].interval
      <4>1. ASSUME phase[c] = "idle" PROVE now + 1 >= started[c] + want[c].interval
        <5>1. now >= started[c] + want[c].interval
          BY <2>3, <4>1
        <5>2. started[c] + want[c].interval \in Int
          BY <1>0, <2>3, Numbers
        <5>3. QED  BY <1>0, <5>1, <5>2
      <4>2. QED  BY <2>1, <4>1
    <3>3. QED  BY <2>1, <3>1, <3>2
  <2>4. QED  BY <2>2, <2>3
<1>2. ASSUME NEW name \in Names, NEW interval \in Intervals, Register(c, name, interval) PROVE ClockOf(c)'
  BY <1>2, Registers
<1>3. CASE RegistrationTimeout(c)
  <2>1. /\ phase[c] = "registering" /\ phase'[c] \in {"registering", "idle"}
        /\ started' = started
    BY <1>3 DEF RegistrationTimeout, Retry, TypeInv, TypeOK
  <2>2. QED  BY <2>1
<1>4. CASE ReceiveReply(c)
  <2>1. phase[c] = "registering" /\ now' = now /\ want' = want
    BY <1>4 DEF ReceiveReply
  <2>2. \/ phase'[c] \in {"registering", "idle"} /\ started'[c] = started[c]
        \/ phase'[c] = "listening" /\ started'[c] = now /\ since'[c] = now
    BY <1>4 DEF ReceiveReply, Retry, TypeInv, TypeOK
  <2>3. QED  BY <1>0, <2>1, <2>2
<1>5. CASE ReceiveUpdate(c)
  <2>1. /\ phase[c] = "listening" /\ started' = started /\ want' = want /\ now' = now
    BY <1>5 DEF ReceiveUpdate
  <2>2. CASE now < EndTime(c)
    <3>1. phase' = phase /\ since'[c] = now
      BY <1>5, <2>2 DEF ReceiveUpdate, ListenOn, TypeInv, TypeOK
    <3>2. QED  BY <1>0, <2>1, <3>1
  <2>3. CASE ~ (now < EndTime(c))
    <3>1. phase'[c] = "idle"
      BY <1>5, <2>3 DEF ReceiveUpdate, ListenOn, TypeInv, TypeOK
    <3>2. now >= started[c] + want[c].interval
      BY <1>0, <2>1, <2>3
    <3>3. QED  BY <2>1, <3>1, <3>2
  <2>4. QED  BY <2>2, <2>3
<1>6. CASE ListenTimeout(c)
  <2>1. /\ phase[c] = "listening" /\ phase'[c] = "idle" /\ now >= since[c] + want[c].interval
        /\ UNCHANGED <<started, want, now>>
    BY <1>6 DEF ListenTimeout, TimedOut, ReceiveTimeout, TypeInv, TypeOK
  <2>2. now >= started[c] + want[c].interval
    BY <1>0, <2>1
  <2>3. QED  BY <2>1, <2>2
<1>7. CASE ServeRegister(c) \/ Lose(c)
  BY <1>7 DEF ServeRegister, Lose, clientVars
<1>8. ASSUME NEW f \in Facilities, Operate(f) PROVE ClockOf(c)'
  BY <1>8 DEF Operate, clientVars
<1>9. CASE Elsewhere(c)
  BY <1>9 DEF Elsewhere, Own
<1>10. QED  BY <1>1, <1>2, <1>3, <1>4, <1>5, <1>6, <1>7, <1>8, <1>9, StepsOf DEF OwnStep

\* The replies on their way to c answer what has been served, and so does a
\* monitor of a client that listens or has listened.
AnsweredTo(c) ==
    /\ \A m \in In(toClient[c]) : m.kind = "reply" => <<c, m.id>> \in history
    /\ \A i \in DOMAIN monitors : monitors[i].client = c => monitors[i].created <= now
    /\ started[c] # Never =>
          /\ <<c, want[c].id>> \in history
          /\ CheckHistory => \A i \in DOMAIN monitors :
                                 OfLastCall(c, monitors[i]) => monitors[i].created <= started[c]

LEMMA AnsweredToStep ==
    ASSUME TypeInv, Placed, [Next]_vars, NEW c \in Clients, AnsweredTo(c)
    PROVE  AnsweredTo(c)'
<1> USE DEF AnsweredTo
<1>0. toClient[c] \in Seq(Messages) /\ now \in Nat
  BY ClientTypes
<1>1. CASE Tick
  <2>1. now' = now + 1 /\ UNCHANGED <<toClient, history, monitors, started, want>>
    BY <1>1 DEF Tick, clientVars, serverVars
  <2>2. \A n \in Nat : n <= now => n <= now'
    BY <1>0, <2>1
  <2>3. QED  BY <2>1, <2>2, Numbers DEF OfLastCall
<1>2. ASSUME NEW name \in Names, NEW interval \in Intervals, Register(c, name, interval) PROVE AnsweredTo(c)'
  BY <1>2, Registers
<1>3. CASE RegistrationTimeout(c) \/ ReceiveUpdate(c) \/ ListenTimeout(c)
  <2>1. want'[c] = want[c] /\ UNCHANGED <<now, history, monitors>>
    BY <1>3, OwnStepKeeps
  <2>2. started' = started
    BY <1>3 DEF RegistrationTimeout, Retry, ReceiveUpdate, ListenTimeout
  <2>3. toClient'[c] = toClient[c] \/ (toClient[c] # <<>> /\ toClient'[c] = Tail(toClient[c]))
    BY <1>3 DEF RegistrationTimeout, ReceiveUpdate, ListenTimeout, TypeInv, TypeOK
  <2>4. In(toClient'[c]) \subseteq In(toClient[c])
    BY <1>0, <2>3, InQueue
  <2>5. QED  BY <2>1, <2>2, <2>4 DEF OfLastCall
<1>4. CASE ReceiveReply(c)
  <2>1. want'[c] = want[c] /\ UNCHANGED <<now, history, monitors>>
    BY <1>4, OwnStepKeeps
  <2>2. toClient[c] # <<>> /\ toClient'[c] = Tail(toClient[c])
    BY <1>4 DEF ReceiveReply, TypeInv, TypeOK
  <2>3. In(toClient'[c]) \subseteq In(toClient[c]) /\ Head(toClient[c]) \in In(toClient[c])
    BY <1>0, <2>2, InQueue
  <2>4. CASE started'[c] = started[c]
    BY <2>1, <2>3, <2>4 DEF OfLastCall
  <2>5. CASE started'[c] # started[c]
    <3>1. started'[c] = now /\ Head(toClient[c]).kind = "reply" /\ Head(toClient[c]).id = want[c].id
      BY <1>4, <2>5 DEF ReceiveReply, Retry, TypeInv, TypeOK
    <3>2. <<c, want[c].id>> \in history
      BY <2>3, <3>1
    <3>3. QED  BY <2>1, <2>3, <3>1, <3>2 DEF OfLastCall
  <2>6. QED  BY <2>4, <2>5
<1>5. CASE ServeRegister(c)
  <2>1. PICK r : Serves(c, r)
    BY <1>5, ServesOne
  <2>2. UNCHANGED <<now, want, started>> /\ history' = history \cup {<<c, r.id>>}
    BY <2>1 DEF Serves
  <2>3. \A m \in In(toClient'[c]) : m.kind = "reply" => <<c, m.id>> \in history'
    <3>1. PICK p : p = Reply(r.id, r.name \in Facilities)
      OBVIOUS
    <3>2. p.id = r.id /\ p \in Messages
      <4>1. r.id \in IDs /\ (r.name \in Facilities) \in BOOLEAN
        BY <2>1 DEF Serves, Registration
      <4>2. \A n \in IDs, b \in BOOLEAN : Reply(n, b) \in Messages /\ Reply(n, b).id = n
        BY DEF Messages, Reply
      <4>3. QED  BY <3>1, <4>1, <4>2, Zenon
    <3>3. toClient'[c] = Append(toClient[c], p)
      BY <2>1, <3>1 DEF Serves
    <3>4. In(Append(toClient[c], p)) = In(toClient[c]) \cup {p}
      BY <1>0, <3>2, InQueue
    <3>5. QED  BY <2>2, <3>2, <3>3, <3>4
  <2>4. CASE registered' = registered /\ monitors' = monitors
    BY <2>2, <2>3, <2>4 DEF OfLastCall
  <2>5. CASE ~ (registered' = registered /\ monitors' = monitors)
    <3>1. CheckHistory => <<c, r.id>> \notin history
      BY <2>1, <2>5 DEF Serves
    <3>2. PICK place \in DOMAIN monitors' :
              /\ monitors'[place].client = c /\ monitors'[place].id = r.id /\ monitors'[place].created = now
              /\ \A i \in DOMAIN monitors' : i # place => i \in DOMAIN monitors /\ monitors'[i] = monitors[i]
      BY <2>1, <2>5 DEF Serves
    <3>3. now <= now
      BY <1>0
    <3>4. started[c] # Never /\ CheckHistory => r.id # want[c].id
      BY <3>1
    <3>5. QED  BY <2>2, <2>3, <3>2, <3>3, <3>4 DEF OfLastCall
  <2>6. QED  BY <2>4, <2>5
<1>6. CASE Lose(c)
  <2>1. UNCHANGED <<want, now, started, history, monitors>>
    BY <1>6 DEF Lose, clientVars, serverVars
  <2>2. toClient'[c] = toClient[c] \/ (toClient[c] # <<>> /\ toClient'[c] = Tail(toClient[c]))
    BY <1>6 DEF Lose, TypeInv, TypeOK
  <2>3. In(toClient'[c]) \subseteq In(toClient[c])
    BY <1>0, <2>2, InQueue
  <2>4. QED  BY <2>1, <2>3 DEF OfLastCall
<1>7. ASSUME NEW f \in Facilities, Operate(f) PROVE AnsweredTo(c)'
  <2>1. UNCHANGED <<want, now, started, history>>
    BY <1>7 DEF Operate, clientVars
  <2>0. PICK x : Sent(c, f, x)
    BY <1>7, Sends
  <2>2. /\ x \in Seq(Messages) /\ toClient'[c] = toClient[c] \o x
        /\ \A l \in 1 .. Len(x) : x[l] = Update(f, version[f] + 1)
    BY <2>0 DEF Sent
  <2>3. In(toClient'[c]) = In(toClient[c]) \cup In(x)
    BY <1>0, <2>2, InQueue
  <2>4. \A m \in In(x) : m.kind # "reply"
    BY <2>2 DEF In, Update
  <2>5. QED  BY <1>7, <2>1, <2>3, <2>4, OperateKeeps DEF OfLastCall
<1>8. CASE Elsewhere(c)
  BY <1>8 DEF Elsewhere, Own, SameMonitors, OfLastCall
<1>9. QED  BY <1>1, <1>2, <1>3, <1>4, <1>5, <1>6, <1>7, <1>8, StepsOf DEF OwnStep

\* What is known of every client.
KnownInv ==
    /\ TypeInv
    /\ Placed
    /\ \A c \in Clients : AskedBy(c) /\ ClockOf(c) /\ AnsweredTo(c)

LEMMA KnownInit == Init => KnownInv
<1> SUFFICES ASSUME Init PROVE KnownInv
  OBVIOUS
<1>1. TypeInv
  BY TypeInit
<1>2. DOMAIN monitors = {}
  BY DEF Init
<1>3. Placed
  BY <1>2 DEF Placed
<1>4. \A c \in Clients : In(toServer[c]) = {} /\ In(toClient[c]) = {}
  BY DEF Init, In
<1>5. \A c \in Clients : AskedBy(c)
  BY <1>2, <1>4 DEF Init, AskedBy, NoRegistration
<1>6. \A c \in Clients : ClockOf(c) /\ AnsweredTo(c)
  BY <1>2, <1>4 DEF Init, ClockOf, AnsweredTo
<1>7. QED  BY <1>1, <1>3, <1>5, <1>6 DEF KnownInv

LEMMA KnownStep == KnownInv /\ [Next]_vars => KnownInv'
<1>1. ASSUME KnownInv, [Next]_vars PROVE KnownInv'
  <2>1. TypeInv' /\ Placed'
    BY <1>1, TypeStep, PlacedStep DEF KnownInv
  <2>2. ASSUME NEW c \in Clients PROVE (AskedBy(c) /\ ClockOf(c) /\ AnsweredTo(c))'
    BY <1>1, AskedByStep, ClockOfStep, AnsweredToStep DEF KnownInv
  <2>3. QED  BY <2>1, <2>2 DEF KnownInv
<1>2. QED  BY <1>1

LEMMA UpdateIsHeard == CheckHistory /\ KnownInv /\ [Next]_vars =>
    \A c \in Clients :
        /\ version' # version
        /\ toClient'[c] # toClient[c]
        /\ \A i \in DOMAIN monitors : monitors[i].client = c => OfLastCall(c, monitors[i])
        /\ started[c] # Never
        => phase[c] = "listening" \/ now = EndTime(c)
<1> SUFFICES ASSUME CheckHistory, KnownInv, [Next]_vars, NEW c \in Clients,
                    version' # version, toClient'[c] # toClient[c],
                    \A i \in DOMAIN monitors : monitors[i].client = c => OfLastCall(c, monitors[i]),
                    started[c] # Never, phase[c] # "listening"
             PROVE  now = EndTime(c)
  OBVIOUS
<1>1. TypeInv /\ Placed /\ AskedBy(c) /\ ClockOf(c) /\ AnsweredTo(c)
  BY DEF KnownInv
<1>2. PICK f \in Facilities : Operate(f)
  <2>1. Tick => version' = version
    BY DEF Tick, serverVars
  <2>2. OwnStep(c) => version' = version
    BY <1>1, OwnStepKeeps, Registers DEF OwnStep
  <2>3. ServeRegister(c) => version' = version
    BY <1>1, ServesOne DEF Serves
  <2>4. Lose(c) \/ Elsewhere(c) => version' = version
    BY DEF Lose, Elsewhere, serverVars
  <2>5. QED  BY <1>1, <2>1, <2>2, <2>3, <2>4, StepsOf
<1>3. PICK i \in DOMAIN monitors : ~ IfExpired(monitors[i]) /\ monitors[i].client = c
  <2>0. PICK x : Sent(c, f, x)
    BY <1>1, <1>2, Sends
  <2>1. /\ x \in Seq(Messages) /\ toClient'[c] = toClient[c] \o x
        /\ Len(x) >= 1 <=> \E i \in DOMAIN monitors : /\ ~ IfExpired(monitors[i])
                                                      /\ monitors[i].client = c
                                                      /\ monitors[i].facility = f
    BY <2>0 DEF Sent
  <2>2. x # <<>>
    <3>1. toClient[c] \o <<>> = toClient[c]
      BY <1>1, ClientTypes, ConcatEmptySeq
    <3>2. QED  BY <2>1, <3>1
  <2>3. Len(x) >= 1
    BY <2>2, LenProperties, EmptySeq
  <2>4. QED  BY <2>1, <2>3
<1>4. OfLastCall(c, monitors[i])
  BY <1>3
<1>5. monitors[i].interval = want[c].interval /\ monitors[i].created <= started[c]
  BY <1>1, <1>4 DEF AskedBy, AnsweredTo, OfLastCall
<1>6. /\ now \in Nat /\ monitors[i].created \in Nat /\ monitors[i].interval \in Nat
      /\ IntRange \in Nat \ {0}
  BY <1>1, Numbers, MonitoringAssumption
<1>7. now <= monitors[i].created + monitors[i].interval
  BY <1>3, <1>6, Ages
<1>8. phase[c] = "idle" /\ now >= EndTime(c)
  BY <1>1 DEF ClockOf, TypeInv, TypeOK
<1>9. started[c] \in Int
  BY <1>1 DEF TypeInv, TypeOK, Never
<1>10. QED  BY <1>5, <1>6, <1>7, <1>8, <1>9 DEF EndTime

\* With a history no update is sent to a client that has stopped listening to
\* what it last registered for, but in the second in which it stopped: the
\* server's monitor is never younger than the client's listening, and both go
\* by the same interval (registerMonitor and removeExpiredMonitors at the
\* server, listenForMonitoringUpdates at the client).
THEOREM UpdatesAreHeard == CheckHistory /\ Spec => UpdatesFindListener
<1>1. Spec => []KnownInv
  BY KnownInit, KnownStep, PTL DEF Spec
<1> SUFFICES ASSUME CheckHistory PROVE Spec => UpdatesFindListener
  OBVIOUS
<1>2. KnownInv /\ [Next]_vars =>
          [\A c \in Clients :
              /\ version' # version
              /\ toClient'[c] # toClient[c]
              /\ \A i \in DOMAIN monitors : monitors[i].client = c => OfLastCall(c, monitors[i])
              /\ started[c] # Never
              => phase[c] = "listening" \/ now = EndTime(c)]_vars
  BY UpdateIsHeard
<1>3. QED  BY <1>1, <1>2, PTL DEF Spec, UpdatesFindListener

-----------------------------------------------------------------------------
(* What a listening client has heard *)

\* The last registration of c that the server executed is c's last call.
Registered(c) == registered[c].id = want[c].id /\ want[c] \in Registration

\* Durations in milliseconds are ints.
IntervalsFit == \A interval \in Intervals : 2 * (interval * 1000) < IntRange

\* The server monitors for c until the interval has passed since it registered.
WatchedBy(c) ==
    Registered(c) =>
        /\ want[c].name \in Facilities
        /\ now <= registered[c].at + want[c].interval =>
               \E i \in DOMAIN monitors :
                   /\ monitors[i].client = c
                   /\ monitors[i].facility = want[c].name
                   /\ monitors[i].created = registered[c].at
                   /\ monitors[i].interval = want[c].interval

\* Lemma: a monitor is kept until its interval has passed.
LEMMA StillRuns ==
    ASSUME IntervalsFit, TypeInv, NEW i \in DOMAIN monitors,
           now <= monitors[i].created + monitors[i].interval
    PROVE  ~ IfExpired(monitors[i])
<1>1. monitors[i] \in Monitor
  BY DEF TypeInv, TypeOK
<1>2. /\ monitors[i].created \in Nat /\ monitors[i].interval \in Nat /\ now \in Nat /\ IntRange \in Nat \ {0}
      /\ monitors[i].interval \in Intervals
  BY <1>1, MonitoringAssumption DEF Monitor, TypeInv, TypeOK
<1>3. 2 * (monitors[i].interval * 1000) < IntRange
  BY <1>2 DEF IntervalsFit
<1>4. QED  BY <1>2, <1>3, Ages

LEMMA WatchedByStep ==
    ASSUME IntervalsFit, KnownInv, [Next]_vars, NEW c \in Clients, WatchedBy(c)
    PROVE  WatchedBy(c)'
<1>0. TypeInv /\ Placed /\ AskedBy(c)
  BY DEF KnownInv
<1>1. ASSUME UNCHANGED <<want, registered, monitors, now>> PROVE WatchedBy(c)'
  BY <1>1 DEF WatchedBy, Registered
<1>2. CASE Tick
  <2>1. now' = now + 1 /\ UNCHANGED <<want, registered, monitors>>
    BY <1>2 DEF Tick, clientVars, serverVars
  <2>2. ASSUME Registered(c) PROVE registered[c].at \in Nat /\ want[c].interval \in Nat
    BY <1>0, <2>2, Numbers DEF Registered
  <2>3. Registered(c) /\ now' <= registered[c].at + want[c].interval => now <= registered[c].at + want[c].interval
    BY <1>0, <2>1, <2>2, Numbers
  <2>4. QED  BY <2>1, <2>3 DEF WatchedBy, Registered
<1>3. ASSUME NEW name \in Names, NEW interval \in Intervals, Register(c, name, interval) PROVE WatchedBy(c)'
  <2>1. want'[c].id = requestID[c] /\ registered' = registered
    BY <1>0, <1>3, Registers
  <2>2. registered[c].id # requestID[c]
    BY <1>0, Numbers DEF AskedBy
  <2>3. QED  BY <2>1, <2>2 DEF WatchedBy, Registered
<1>4. CASE RegistrationTimeout(c) \/ ReceiveReply(c) \/ ReceiveUpdate(c) \/ ListenTimeout(c)
  <2>1. want'[c] = want[c] /\ UNCHANGED <<now, monitors, registered>>
    BY <1>0, <1>4, OwnStepKeeps
  <2>2. QED  BY <2>1 DEF WatchedBy, Registered
<1>5. CASE ServeRegister(c)
  <2>1. PICK r : Serves(c, r)
    BY <1>0, <1>5, ServesOne
  <2>2. UNCHANGED <<want, now>> /\ r \in In(toServer[c])
    BY <2>1 DEF Serves
  <2>3. CASE registered' = registered /\ monitors' = monitors
    BY <1>1, <2>2, <2>3
  <2>4. CASE ~ (registered' = registered /\ monitors' = monitors) /\ r.id = want[c].id
    <3>1. r = want[c]
      BY <1>0, <2>2, <2>4 DEF AskedBy
    <3>2. r.name \in Facilities /\ registered'[c].at = now
      BY <2>1, <2>4 DEF Serves
    <3>3. PICK place \in DOMAIN monitors' :
              /\ monitors'[place].client = c /\ monitors'[place].facility = r.name
              /\ monitors'[place].created = now /\ monitors'[place].interval = r.interval
      BY <2>1, <2>4 DEF Serves
    <3>4. QED  BY <2>2, <3>1, <3>2, <3>3 DEF WatchedBy
  <2>5. CASE ~ (registered' = registered /\ monitors' = monitors) /\ r.id # want[c].id
    <3>1. registered'[c].id = r.id
      BY <2>1, <2>5 DEF Serves
    <3>2. QED  BY <2>2, <2>5, <3>1 DEF WatchedBy, Registered
  <2>6. QED  BY <2>3, <2>4, <2>5
<1>6. CASE Lose(c)
  BY <1>1, <1>6 DEF Lose, clientVars, serverVars
<1>7. ASSUME NEW f \in Facilities, Operate(f) PROVE WatchedBy(c)'
  <2>1. UNCHANGED <<want, registered, now>>
    BY <1>7 DEF Operate, clientVars
  <2>2. ASSUME Registered(c), now <= registered[c].at + want[c].interval
        PROVE  \E i \in DOMAIN monitors' :
                   /\ monitors'[i].client = c
                   /\ monitors'[i].facility = want[c].name
                   /\ monitors'[i].created = registered[c].at
                   /\ monitors'[i].interval = want[c].interval
    <3>1. PICK i \in DOMAIN monitors :
              /\ monitors[i].client = c
              /\ monitors[i].facility = want[c].name
              /\ monitors[i].created = registered[c].at
              /\ monitors[i].interval = want[c].interval
      BY <2>2 DEF WatchedBy
    <3>2. ~ IfExpired(monitors[i])
      BY <1>0, <2>2, <3>1, StillRuns
    <3>3. i \in DOMAIN monitors' /\ monitors'[i] = monitors[i]
      BY <1>7, <3>2, OperateKeeps
    <3>4. QED  BY <3>1, <3>3
  <2>3. QED  BY <2>1, <2>2 DEF WatchedBy, Registered
<1>8. CASE Elsewhere(c)
  <2>1. /\ want'[c] = want[c] /\ registered'[c] = registered[c] /\ now' = now
        /\ \A i \in DOMAIN monitors : i \in DOMAIN monitors' /\ monitors'[i] = monitors[i]
    BY <1>8 DEF Elsewhere, Own, SameMonitors
  <2>2. QED  BY <2>1 DEF WatchedBy, Registered
<1>9. QED  BY <1>0, <1>2, <1>3, <1>4, <1>5, <1>6, <1>7, <1>8, StepsOf DEF OwnStep

\* There was a booking operation on the facility since, and c is to be told.
Changed(c) ==
    /\ version[want[c].name] # registered[c].version
    /\ now <= registered[c].at + want[c].interval

\* The reply comes before the updates, so that nothing is dropped that c waits
\* for; and then c keeps what it has been shown.
HeardBy(c) ==
    c \notin lost /\ Registered(c) =>
        /\ phase[c] = "registering" =>
               \E k \in 1 .. Len(toClient[c]) :
                   /\ toClient[c][k] = Reply(want[c].id, TRUE)
                   /\ Changed(c) => Told(toClient[c], k, want[c].name, version[want[c].name])
        /\ phase[c] = "listening" /\ Changed(c) =>
               Told(shown[c] \o toClient[c], 0, want[c].name, version[want[c].name])

\* Lemma: HeardBy where a queue gets longer.
LEMMA HeardMore ==
    ASSUME TypeInv, NEW c \in Clients, HeardBy(c), NEW x \in Seq(Messages),
           toClient'[c] = toClient[c] \o x,
           UNCHANGED <<phase, want, shown, lost>>,
           registered'[c].id = want[c].id /\ want[c] \in Registration => registered'[c] = registered[c],
           Registered(c) /\ c \notin lost /\ Changed(c)' =>
               \/ /\ Changed(c) /\ version'[want[c].name] = version[want[c].name]
                  /\ \A l \in 1 .. Len(x) : ~ IsAbout(x[l], want[c].name)
               \/ /\ Len(x) >= 1
                  /\ \A l \in 1 .. Len(x) : x[l] = Update(want[c].name, version'[want[c].name])
    PROVE  HeardBy(c)'
<1> DEFINE f == want[c].name
           v == version[f]
           w == version'[f]
           s == toClient[c]
           p == shown[c]
<1>1. s \in Seq(Messages) /\ p \in Seq(Messages) /\ p \o s \in Seq(Messages) /\ Len(s) \in Nat
  BY ClientTypes, QueueTypes, LenProperties
<1>2. /\ Len(x) \in Nat /\ Len(s \o x) = Len(s) + Len(x)
      /\ \A i \in 1 .. Len(s) + Len(x) : (s \o x)[i] = IF i <= Len(s) THEN s[i] ELSE x[i - Len(s)]
  BY <1>1, ConcatProperties, LenProperties
<1>3. p \o (s \o x) = (p \o s) \o x /\ Len(p \o s) \in Nat
  <2> HIDE DEF p, s
  <2>1. p \o (s \o x) = (p \o s) \o x
    BY ONLY <1>1, x \in Seq(Messages), ConcatAssociative
  <2>2. Len(p \o s) \in Nat
    BY ONLY <1>1, LenProperties
  <2>3. QED  BY <2>1, <2>2
<1> SUFFICES ASSUME c \notin lost, Registered(c), registered'[c] = registered[c] PROVE HeardBy(c)'
  BY DEF HeardBy, Registered
<1>4. \A t \in Seq(Messages) : \A k \in 0 .. Len(t) :
          Changed(c)' /\ (Changed(c) => Told(t, k, f, v)) => Told(t \o x, k, f, w)
  BY ToldStill, ToldNow
<1>5. CASE phase[c] = "registering"
  <2>1. PICK k \in 1 .. Len(s) : s[k] = Reply(want[c].id, TRUE) /\ (Changed(c) => Told(s, k, f, v))
    BY <1>5 DEF HeardBy
  <2>2. k \in 0 .. Len(s) /\ k \in 1 .. Len(s \o x) /\ (s \o x)[k] = s[k]
    BY <1>1, <1>2
  <2>3. Changed(c)' => Told(s \o x, k, f, w)
    BY <1>1, <1>4, <2>1, <2>2
  <2> HIDE DEF s, f, w
  <2>4. toClient'[c] = s \o x /\ want'[c].name = f /\ version'[want'[c].name] = w
    BY DEF s, f, w
  <2>5. phase'[c] = "registering" /\ want'[c].id = want[c].id
    BY <1>5
  <2>6. QED  BY <2>1, <2>2, <2>3, <2>4, <2>5 DEF HeardBy
<1>6. CASE phase[c] = "listening"
  <2>1. Changed(c) => Told(p \o s, 0, f, v)
    BY <1>6 DEF HeardBy
  <2>2. 0 \in 0 .. Len(p \o s)
    <3> HIDE DEF p, s
    <3>1. QED  BY ONLY <1>3
  <2>3. Changed(c)' => Told(p \o (s \o x), 0, f, w)
    BY <1>1, <1>3, <1>4, <2>1, <2>2
  <2>4. shown'[c] \o toClient'[c] = p \o (s \o x) /\ phase'[c] = "listening"
    BY <1>6
  <2> HIDE DEF s, p
  <2>5. QED  BY <2>3, <2>4 DEF HeardBy
<1>7. CASE phase[c] \notin {"registering", "listening"}
  BY <1>7 DEF HeardBy
<1>8. QED  BY <1>5, <1>6, <1>7

\* Lemma: reading a message moves it, and what was and will be shown stays.
LEMMA ReadOne ==
    ASSUME NEW S, NEW p \in Seq(S), NEW s \in Seq(S), s # <<>>
    PROVE  Append(p, Head(s)) \o Tail(s) = p \o s
<1>1. Head(s) \in S /\ Tail(s) \in Seq(S) /\ s = <<Head(s)>> \o Tail(s)
  OBVIOUS
<1>2. PICK h, t : h = Head(s) /\ t = Tail(s)
  OBVIOUS
<1>3. <<h>> \in Seq(S) /\ t \in Seq(S) /\ Append(p, h) = p \o <<h>> /\ s = <<h>> \o t
  BY <1>1, <1>2, AppendIsConcat
<1>4. (p \o <<h>>) \o t = p \o (<<h>> \o t)
  BY ONLY p \in Seq(S), <1>3, ConcatAssociative
<1>5. QED  BY <1>2, <1>3, <1>4

\* Lemma: HeardBy where a client that registers reads a message.
LEMMA HeardReply ==
    ASSUME TypeInv, NEW c \in Clients, HeardBy(c), Registered(c), c \notin lost, ReceiveReply(c)
    PROVE  HeardBy(c)'
<1> DEFINE f == want[c].name
           v == version[f]
           s == toClient[c]
           p == shown[c]
<1>1. /\ phase[c] = "registering" /\ s # <<>> /\ toClient'[c] = Tail(s)
      /\ UNCHANGED <<now, want, shown, version, registered, lost>>
  BY DEF ReceiveReply, TypeInv, TypeOK, serverVars
<1>2. s \in Seq(Messages) /\ p \in Seq(Messages) /\ Tail(s) \in Seq(Messages)
  BY <1>1, ClientTypes, QueueTypes
<1>3. PICK k \in 1 .. Len(s) : s[k] = Reply(want[c].id, TRUE) /\ (Changed(c) => Told(s, k, f, v))
  BY <1>1 DEF HeardBy
<1>4. Changed(c)' = Changed(c)
  BY <1>1 DEF Changed
<1>5. k \in Nat \ {0} /\ k - 1 \in Nat
  BY <1>3
<1>6. /\ Len(s) \in Nat /\ Head(s) = s[1] /\ Len(Tail(s)) = Len(s) - 1
      /\ \A i \in 1 .. Len(s) - 1 : Tail(s)[i] = s[i + 1]
  BY ONLY <1>1, <1>2, LenProperties, HeadTailProperties
<1>7. Changed(c) => Told(Tail(s), k - 1, f, v)
  <2> HIDE DEF s, f, v
  <2>1. QED  BY <1>2, <1>3, <1>5, ToldTail
<1>8. CASE phase'[c] = "listening"
  <2>1. Changed(c) => Told(p \o Tail(s), 0, f, v)
    <3> HIDE DEF p, s, f, v
    <3>1. QED  BY <1>2, <1>5, <1>7, ToldBefore
  <2>2. shown'[c] \o toClient'[c] = p \o Tail(s) /\ want'[c].name = f /\ version'[want'[c].name] = v
    BY <1>1
  <2> HIDE DEF p, s, f, v
  <2>3. QED  BY <1>4, <1>8, <2>1, <2>2 DEF HeardBy
<1>9. CASE phase'[c] = "registering"
  <2>1. k # 1
    <3>1. Head(s).kind # "reply" \/ Head(s).id # want[c].id
      BY <1>9 DEF ReceiveReply, TypeInv, TypeOK
    <3>2. Reply(want[c].id, TRUE).kind = "reply" /\ Reply(want[c].id, TRUE).id = want[c].id
      BY DEF Reply
    <3>3. QED  BY <1>3, <1>6, <3>1, <3>2
  <2>2. k - 1 \in 1 .. Len(Tail(s)) /\ k - 1 \in 1 .. Len(s) - 1 /\ (k - 1) + 1 = k
    BY <1>3, <1>6, <2>1
  <2>3. Tail(s)[k - 1] = Reply(want[c].id, TRUE)
    BY <1>3, <1>6, <2>2
  <2>4. toClient'[c] = Tail(s) /\ want' = want /\ want'[c].name = f /\ version'[want'[c].name] = v
    BY <1>1
  <2> HIDE DEF s, f, v
  <2>5. QED  BY <1>4, <1>7, <1>9, <2>2, <2>3, <2>4 DEF HeardBy
<1>10. CASE phase'[c] \notin {"registering", "listening"}
  BY <1>10 DEF HeardBy
<1>11. QED  BY <1>8, <1>9, <1>10

LEMMA HeardByStep ==
    ASSUME IntervalsFit, KnownInv, [Next]_vars, NEW c \in Clients, WatchedBy(c), HeardBy(c)
    PROVE  HeardBy(c)'
<1>0. TypeInv /\ Placed /\ AskedBy(c)
  BY DEF KnownInv
<1>1. ASSUME phase'[c] = phase[c] \/ phase'[c] = "idle",
             want'[c] = want[c], registered'[c] = registered[c], shown'[c] = shown[c],
             toClient'[c] = toClient[c], version' = version, c \in lost => c \in lost',
             Registered(c) /\ Changed(c)' => Changed(c)
      PROVE  HeardBy(c)'
  BY <1>1 DEF HeardBy, Registered
<1>2. CASE Tick
  <2>1. now' = now + 1 /\ UNCHANGED <<phase, want, registered, shown, toClient, version, lost>>
    BY <1>2 DEF Tick, clientVars, serverVars
  <2>2. ASSUME Registered(c) PROVE registered[c].at \in Nat /\ want[c].interval \in Nat
    BY <1>0, <2>2, Numbers DEF Registered
  <2>3. Registered(c) /\ now' <= registered[c].at + want[c].interval => now <= registered[c].at + want[c].interval
    BY <1>0, <2>1, <2>2, Numbers
  <2>4. Registered(c) /\ Changed(c)' => Changed(c)
    BY <2>1, <2>3 DEF Changed
  <2>5. QED  BY <1>1, <2>1, <2>4
<1>3. ASSUME NEW name \in Names, NEW interval \in Intervals, Register(c, name, interval) PROVE HeardBy(c)'
  <2>1. want'[c].id = requestID[c] /\ registered' = registered
    BY <1>0, <1>3, Registers
  <2>2. registered[c].id # requestID[c]
    BY <1>0, Numbers DEF AskedBy
  <2>3. QED  BY <2>1, <2>2 DEF HeardBy, Registered
<1>4. CASE RegistrationTimeout(c) \/ ListenTimeout(c)
  <2>1. want'[c] = want[c] /\ UNCHANGED <<now, version, registered, lost>>
    BY <1>0, <1>4, OwnStepKeeps
  <2>2. (phase'[c] = phase[c] \/ phase'[c] = "idle") /\ shown' = shown /\ toClient' = toClient
    <3>1. CASE RegistrationTimeout(c)
      BY <1>0, <3>1 DEF RegistrationTimeout, Retry, TypeInv, TypeOK
    <3>2. CASE ListenTimeout(c)
      BY <1>0, <3>2 DEF ListenTimeout, TypeInv, TypeOK
    <3>3. QED  BY <1>4, <3>1, <3>2
  <2>3. QED  BY <1>1, <2>1, <2>2 DEF Changed
<1>5. CASE ReceiveReply(c)
  <2>1. want'[c] = want[c] /\ UNCHANGED <<registered, lost>>
    BY <1>0, <1>5, OwnStepKeeps
  <2>2. CASE c \notin lost /\ Registered(c)
    BY <1>0, <1>5, <2>2, HeardReply
  <2>3. CASE ~ (c \notin lost /\ Registered(c))
    BY <2>1, <2>3 DEF HeardBy, Registered
  <2>4. QED  BY <2>2, <2>3
<1>6. CASE ReceiveUpdate(c)
  <2>1. want'[c] = want[c] /\ UNCHANGED <<now, version, registered, lost>>
    BY <1>0, <1>6, OwnStepKeeps
  <2>2. /\ phase[c] = "listening" /\ phase'[c] \in {"listening", "idle"} /\ toClient[c] # <<>>
        /\ shown'[c] = Append(shown[c], Head(toClient[c])) /\ toClient'[c] = Tail(toClient[c])
    BY <1>0, <1>6 DEF ReceiveUpdate, ListenOn, TypeInv, TypeOK
  <2>3. shown'[c] \o toClient'[c] = shown[c] \o toClient[c]
    BY <1>0, <2>2, ClientTypes, ReadOne
  <2>4. Changed(c)' = Changed(c)
    BY <2>1 DEF Changed
  <2>5. QED  BY <2>1, <2>2, <2>3, <2>4 DEF HeardBy, Registered
<1>7. CASE ServeRegister(c)
  <2>1. PICK r : Serves(c, r)
    BY <1>0, <1>7, ServesOne
  <2>2. UNCHANGED <<want, now, phase, shown, version, lost>> /\ r \in In(toServer[c]) /\ r \in Registration
    BY <2>1 DEF Serves
  <2>3. PICK m : m = Reply(r.id, r.name \in Facilities) /\ m \in Messages /\ m.kind = "reply"
    <3>1. r.id \in IDs /\ (r.name \in Facilities) \in BOOLEAN
      BY <2>2 DEF Registration
    <3>2. \A n \in IDs, b \in BOOLEAN : Reply(n, b) \in Messages /\ Reply(n, b).kind = "reply"
      BY DEF Messages, Reply
    <3>3. QED  BY <3>1, <3>2, Zenon
  <2>4. toClient'[c] = Append(toClient[c], m) /\ toClient[c] \in Seq(Messages)
    BY <1>0, <2>1, <2>3, ClientTypes DEF Serves
  <2>5. CASE registered' = registered
    <3>1. <<m>> \in Seq(Messages) /\ Len(<<m>>) = 1 /\ <<m>>[1] = m
      BY <2>3
    <3>2. toClient'[c] = toClient[c] \o <<m>>
      BY <2>3, <2>4, AppendIsConcat
    <3>3. \A l \in 1 .. Len(<<m>>) : ~ IsAbout(<<m>>[l], want[c].name)
      BY <2>3, <3>1 DEF IsAbout
    <3>4. Changed(c)' = Changed(c) /\ version'[want[c].name] = version[want[c].name]
      BY <2>2, <2>5 DEF Changed
    <3>5. PICK x \in Seq(Messages) :
              /\ toClient'[c] = toClient[c] \o x
              /\ \A l \in 1 .. Len(x) : ~ IsAbout(x[l], want[c].name)
      BY <3>1, <3>2, <3>3
    <3>6. QED  BY <1>0, <2>2, <2>5, <3>4, <3>5, HeardMore
  <2>6. CASE registered' # registered /\ r.id = want[c].id
    <3>1. r = want[c]
      BY <1>0, <2>2, <2>6 DEF AskedBy
    <3>2. r.name \in Facilities /\ registered'[c].version = version[r.name]
      BY <2>1, <2>6 DEF Serves
    <3>3. ~ Changed(c)'
      BY <2>2, <3>1, <3>2 DEF Changed
    <3>4. /\ Len(toClient[c]) + 1 \in 1 .. Len(Append(toClient[c], m))
          /\ Append(toClient[c], m)[Len(toClient[c]) + 1] = m
      BY <2>3, <2>4, AppendProperties, LenProperties
    <3>5. m = Reply(want'[c].id, TRUE)
      BY <2>2, <2>3, <3>1, <3>2
    <3>6. QED  BY <2>4, <3>3, <3>4, <3>5 DEF HeardBy
  <2>7. CASE registered' # registered /\ r.id # want[c].id
    <3>1. registered'[c].id = r.id
      BY <2>1, <2>7 DEF Serves
    <3>2. QED  BY <2>2, <2>7, <3>1 DEF HeardBy, Registered
  <2>8. QED  BY <2>5, <2>6, <2>7
<1>8. CASE Lose(c)
  BY <1>8 DEF Lose, HeardBy
<1>9. ASSUME NEW g \in Facilities, Operate(g) PROVE HeardBy(c)'
  <2>1. UNCHANGED <<phase, want, shown, registered, now, lost>> /\ version' = [version EXCEPT ![g] = @ + 1]
    BY <1>9 DEF Operate, clientVars
  <2>0. PICK x : Sent(c, g, x)
    BY <1>0, <1>9, Sends
  <2>2. /\ x \in Seq(Messages) /\ toClient'[c] = toClient[c] \o x
        /\ \A l \in 1 .. Len(x) : x[l] = Update(g, version[g] + 1)
        /\ Len(x) >= 1 <=> \E i \in DOMAIN monitors : /\ ~ IfExpired(monitors[i])
                                                      /\ monitors[i].client = c
                                                      /\ monitors[i].facility = g
    BY <2>0 DEF Sent
  <2>3. version \in [Facilities -> 0 .. MaxVersion]
    BY <1>0 DEF TypeInv, TypeOK
  <2>4. ASSUME Registered(c), Changed(c)', g = want[c].name
        PROVE  Len(x) >= 1 /\ \A l \in 1 .. Len(x) : x[l] = Update(want[c].name, version'[want[c].name])
    <3>1. now <= registered[c].at + want[c].interval
      BY <2>1, <2>4 DEF Changed
    <3>2. PICK i \in DOMAIN monitors :
              /\ monitors[i].client = c
              /\ monitors[i].facility = want[c].name
              /\ monitors[i].created = registered[c].at
              /\ monitors[i].interval = want[c].interval
      BY <2>4, <3>1 DEF WatchedBy
    <3>3. ~ IfExpired(monitors[i])
      BY <1>0, <3>1, <3>2, StillRuns
    <3>4. Len(x) >= 1
      BY <2>2, <2>4, <3>2, <3>3
    <3>5. version'[want[c].name] = version[g] + 1
      BY <2>1, <2>3, <2>4
    <3>6. QED  BY <2>2, <2>4, <3>4, <3>5
  <2>5. ASSUME Registered(c), Changed(c)', g # want[c].name
        PROVE  /\ Changed(c) /\ version'[want[c].name] = version[want[c].name]
               /\ \A l \in 1 .. Len(x) : ~ IsAbout(x[l], want[c].name)
    <3>1. want[c].name \in Facilities
      BY <2>5 DEF WatchedBy
    <3>2. version'[want[c].name] = version[want[c].name]
      BY <2>1, <2>3, <2>5, <3>1
    <3>3. ~ IsAbout(Update(g, version[g] + 1), want[c].name)
      BY <2>5 DEF IsAbout, Update
    <3>4. Changed(c)
      BY <2>1, <2>5, <3>2 DEF Changed
    <3>5. QED  BY <2>2, <3>2, <3>3, <3>4
  <2>6. QED  BY <1>0, <2>1, <2>2, <2>4, <2>5, HeardMore
<1>10. CASE Elsewhere(c)
  <2>1. /\ phase'[c] = phase[c] /\ want'[c] = want[c] /\ registered'[c] = registered[c]
        /\ shown'[c] = shown[c] /\ toClient'[c] = toClient[c] /\ version' = version /\ now' = now
        /\ c \notin lost' => c \notin lost
    BY <1>10 DEF Elsewhere, Own
  <2>2. QED  BY <1>1, <2>1 DEF Changed
<1>11. QED  BY <1>0, <1>2, <1>3, <1>4, <1>5, <1>6, <1>7, <1>8, <1>9, <1>10, StepsOf DEF OwnStep

\* What is known of every client if no duration overflows.
HeardInv == KnownInv /\ \A c \in Clients : WatchedBy(c) /\ HeardBy(c)

\* A client that has lost no datagram and listens has been shown, or has yet to
\* read, the current state of its facility: the server sends an update for every
\* booking operation as long as its monitor lives, the reply to the registration
\* is ahead of all of them in the client's socket, and what comes before it only
\* costs attempts.  It holds for durations that fit an int in milliseconds: a
\* longer one overflows in Monitor.ifExpired, its monitor may be removed before
\* its time, and the client then hears of nothing.
THEOREM NothingMissed == IntervalsFit /\ Spec => []NoChangeMissed
<1> SUFFICES ASSUME IntervalsFit PROVE Spec => []NoChangeMissed
  OBVIOUS
<1>1. Init => HeardInv
  <2> SUFFICES ASSUME Init PROVE HeardInv
    OBVIOUS
  <2>1. \A c \in Clients : want[c] = NoRegistration
    BY DEF Init
  <2>2. KnownInv
    BY KnownInit
  <2>3. NoRegistration \notin Registration
    BY MonitoringAssumption DEF NoRegistration, Registration, IDs
  <2>4. QED  BY <2>1, <2>2, <2>3 DEF HeardInv, WatchedBy, HeardBy, Registered
<1>2. HeardInv /\ [Next]_vars => HeardInv'
  <2>1. ASSUME HeardInv, [Next]_vars PROVE HeardInv'
    <3>1. KnownInv'
      BY <2>1, KnownStep DEF HeardInv
    <3>2. ASSUME NEW c \in Clients PROVE (WatchedBy(c) /\ HeardBy(c))'
      BY <2>1, WatchedByStep, HeardByStep DEF HeardInv
    <3>3. QED  BY <3>1, <3>2 DEF HeardInv
  <2>2. QED  BY <2>1
<1>3. HeardInv => NoChangeMissed
  <2> SUFFICES ASSUME HeardInv, NEW c \in Clients, c \notin lost, phase[c] = "listening",
                      registered[c].id = want[c].id, version[want[c].name] # registered[c].version,
                      now <= registered[c].at + want[c].interval
               PROVE  LatestUpdate(c) = Update(want[c].name, version[want[c].name])
    BY DEF NoChangeMissed
  <2>1. TypeInv /\ HeardBy(c)
    BY DEF HeardInv, KnownInv
  <2>2. Registered(c) /\ Changed(c)
    BY <2>1, ClientTypes DEF Registered, Changed
  <2>3. Told(shown[c] \o toClient[c], 0, want[c].name, version[want[c].name])
    BY <2>1, <2>2 DEF HeardBy
  <2>4. QED  BY <2>1, <2>3, ToldLatest
<1>4. QED  BY <1>1, <1>2, <1>3, PTL DEF Spec
=============================================================================
