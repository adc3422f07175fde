------------------------------ MODULE Monitoring ------------------------------
(***************************************************************************)
(* Clients that monitor a facility for a while, and the server that tells  *)
(* them of the booking operations on it.  A client registers with          *)
(* sendWithRetry and then blocks in a loop of receives; the server keeps   *)
(* one Monitor for every registration it executes, and looks at their ages *)
(* only when it has something to tell.  Time passes in seconds, at one     *)
(* rate for all.                                                           *)
(*                                                                         *)
(* toClient[c] is what the server has sent to c's port and c has not read: *)
(* on its way, or in c's socket.  Updates are not serialized messages, so  *)
(* a client that waits for a reply cannot read one.                        *)
(***************************************************************************)
EXTENDS Integers, Sequences, FiniteSetsExt, Functions

CONSTANTS
    Clients,
    Facilities,
    Names,         \* names a client may ask for, those of the facilities included
    Intervals,     \* monitoring durations a user may ask for, in seconds
    CheckHistory,  \* checkHistory of Server.java
    Lossy,         \* whether datagrams may be lost
    TimeoutSec,    \* TIMEOUT_SEC of Constants.hpp
    MaxRetries,    \* MAX_RETRIES of Constants.hpp
    IntRange,      \* the number of values of a Java int, 2^32
    MaxCalls,      \* bound: registrations of a client
    MaxVersion,    \* bound: booking operations on a facility
    MaxTime        \* bound: the clock

ASSUME MonitoringAssumption ==
    /\ Facilities \subseteq Names
    /\ Intervals \subseteq Nat \ {0}
    /\ {CheckHistory, Lossy} \subseteq BOOLEAN
    /\ {TimeoutSec, MaxRetries, IntRange} \subseteq Nat \ {0}
    /\ {MaxCalls, MaxVersion, MaxTime} \subseteq Nat

VARIABLES
    now,         \* the clock
    phase,       \* phase[c]: what c is doing
    requestID,   \* requestID[c]: the id of c's next request
    want,        \* want[c]: c's current or last registration, NoRegistration before
    attempt,     \* attempt[c]: how often it has been sent
    since,       \* since[c]: when c's current receive began
    started,     \* started[c]: when c began to listen, Never before it did
    shown,       \* shown[c]: what c's user has been shown while listening
    toServer,    \* toServer[c]: registrations of c the server has not read
    toClient,    \* toClient[c]: messages to c's port that c has not read
    monitors,    \* monitors[i]: the monitor at place i of MonitorService.java; places
                 \* increase with time, and those of removed monitors stay empty
    history,     \* registrations in the request history
    version,     \* version[f]: booking operations on f so far
    registered,  \* registered[c]: id, version and time of the last registration of c
                 \* that the server executed (auxiliary)
    lost         \* the clients that a datagram from or to was lost (auxiliary)

clientVars == <<phase, requestID, want, attempt, since, started, shown>>
serverVars == <<monitors, history, version, registered>>
vars == <<now, clientVars, toServer, toClient, serverVars, lost>>

Never == -1
IDs == 0 .. MaxCalls - 1
NoRegistration == [id |-> -1]
Registration == [id : IDs, name : Names, interval : Intervals]
Monitor == [client : Clients, id : IDs, facility : Facilities, created : Nat, interval : Intervals]

NoMessage == [kind |-> "none"]
Reply(id, ok) == [kind |-> "reply", id |-> id, ok |-> ok]
Update(f, v) == [kind |-> "update", facility |-> f, version |-> v]
Messages ==
    {Reply(id, ok) : id \in IDs, ok \in BOOLEAN}
    \cup {Update(f, v) : f \in Facilities, v \in 0 .. MaxVersion}

\* A client that has registered nothing yet.
Init ==
    /\ now = 0
    /\ phase = [c \in Clients |-> "idle"]
    /\ requestID = [c \in Clients |-> 0]
    /\ want = [c \in Clients |-> NoRegistration]
    /\ attempt = [c \in Clients |-> 0]
    /\ since = [c \in Clients |-> 0]
    /\ started = [c \in Clients |-> Never]
    /\ shown = [c \in Clients |-> <<>>]
    /\ toServer = [c \in Clients |-> <<>>]
    /\ toClient = [c \in Clients |-> <<>>]
    /\ monitors = [i \in {} |-> NoMessage]
    /\ history = {}
    /\ version = [f \in Facilities |-> 0]
    /\ registered = [c \in Clients |-> [id |-> -1, version |-> 0, at |-> 0]]
    /\ lost = {}

-----------------------------------------------------------------------------
(* The clock *)

ReceiveTimeout(c) == IF phase[c] = "listening" THEN want[c].interval ELSE TimeoutSec

TimedOut(c) == phase[c] # "idle" /\ now >= since[c] + ReceiveTimeout(c)

\* No receive lasts longer than its timeout.
Tick ==
    /\ now < MaxTime
    /\ \A c \in Clients : ~ TimedOut(c)
    /\ now' = now + 1
    /\ UNCHANGED <<clientVars, toServer, toClient, serverVars, lost>>

-----------------------------------------------------------------------------
(* The client: registration *)

\* monitorAvailability sends its first datagram.
Register(c, name, interval) ==
    LET r == [id |-> requestID[c], name |-> name, interval |-> interval] IN
    /\ phase[c] = "idle"
    /\ requestID[c] < MaxCalls
    /\ requestID' = [requestID EXCEPT ![c] = @ + 1]
    /\ want' = [want EXCEPT ![c] = r]
    /\ toServer' = [toServer EXCEPT ![c] = Append(@, r)]
    /\ phase' = [phase EXCEPT ![c] = "registering"]
    /\ attempt' = [attempt EXCEPT ![c] = 1]
    /\ since' = [since EXCEPT ![c] = now]
    /\ started' = [started EXCEPT ![c] = Never]
    /\ shown' = [shown EXCEPT ![c] = <<>>]
    /\ UNCHANGED <<now, toClient, serverVars, lost>>

\* Faulty variant of Retry: one attempt too many.
RetryTooOften(c) ==
    IF attempt[c] <= MaxRetries
    THEN /\ attempt' = [attempt EXCEPT ![c] = @ + 1]
         /\ toServer' = [toServer EXCEPT ![c] = Append(@, want[c])]
         /\ since' = [since EXCEPT ![c] = now]
         /\ UNCHANGED <<phase, started>>
    ELSE /\ phase' = [phase EXCEPT ![c] = "idle"]
         /\ UNCHANGED <<attempt, since, started, toServer>>

\* An attempt without a usable reply: send again, or give up.
Retry(c) ==
    IF attempt[c] < MaxRetries
    THEN /\ attempt' = [attempt EXCEPT ![c] = @ + 1]
         /\ toServer' = [toServer EXCEPT ![c] = Append(@, want[c])]
         /\ since' = [since EXCEPT ![c] = now]
         /\ UNCHANGED <<phase, started>>
    ELSE /\ phase' = [phase EXCEPT ![c] = "idle"]
         /\ UNCHANGED <<attempt, since, started, toServer>>

RegistrationTimeout(c) ==
    /\ phase[c] = "registering"
    /\ TimedOut(c)
    /\ Retry(c)
    /\ UNCHANGED <<now, requestID, want, shown, toClient, serverVars, lost>>

\* Anything but the reply with the id of the registration uses up the attempt.
ReceiveReply(c) ==
    LET m == Head(toClient[c]) IN
    /\ phase[c] = "registering"
    /\ toClient[c] # <<>>
    /\ toClient' = [toClient EXCEPT ![c] = Tail(@)]
    /\ IF m.kind # "reply" \/ m.id # want[c].id THEN Retry(c)
       ELSE /\ phase' = [phase EXCEPT ![c] = IF m.ok THEN "listening" ELSE "idle"]
            /\ started' = IF m.ok THEN [started EXCEPT ![c] = now] ELSE started
            /\ since' = [since EXCEPT ![c] = now]
            /\ UNCHANGED <<attempt, toServer>>
    /\ UNCHANGED <<now, requestID, want, shown, serverVars, lost>>

-----------------------------------------------------------------------------
(* The client: listenForMonitoringUpdates *)

EndTime(c) == started[c] + want[c].interval

\* Faulty variant of ListenOn: only a timeout ends the loop.
ListenForever(c) ==
    /\ since' = [since EXCEPT ![c] = now]
    /\ UNCHANGED phase

\* The loop's condition, evaluated after every receive.
ListenOn(c) ==
    IF now < EndTime(c)
    THEN /\ since' = [since EXCEPT ![c] = now]
         /\ UNCHANGED phase
    ELSE /\ phase' = [phase EXCEPT ![c] = "idle"]
         /\ UNCHANGED since

\* Whatever arrives is shown as an update.
ReceiveUpdate(c) ==
    /\ phase[c] = "listening"
    /\ toClient[c] # <<>>
    /\ toClient' = [toClient EXCEPT ![c] = Tail(@)]
    /\ shown' = [shown EXCEPT ![c] = Append(@, Head(toClient[c]))]
    /\ ListenOn(c)
    /\ UNCHANGED <<now, requestID, want, attempt, started, toServer, serverVars, lost>>

ListenTimeout(c) ==
    /\ phase[c] = "listening"
    /\ TimedOut(c)
    /\ phase' = [phase EXCEPT ![c] = "idle"]
    /\ UNCHANGED <<now, requestID, want, attempt, since, started, shown, toServer, toClient, serverVars, lost>>

-----------------------------------------------------------------------------
(* The server *)

\* Arithmetic of a Java int.
ToInt(x) == LET r == x % IntRange IN IF 2 * r < IntRange THEN r ELSE r - IntRange

\* Milliseconds: a long on the left, an int on the right.
IfExpired(m) == (now - m.created) * 1000 > ToInt(m.interval * 1000)

\* Faulty variant of Recorded: the history is not searched.
RecordedNever(c, r) == FALSE

Recorded(c, r) == CheckHistory /\ <<c, r.id>> \in history

\* monitors with m after the last one.
Added(m) ==
    LET place == Max(DOMAIN monitors \cup {0}) + 1
    IN  [i \in DOMAIN monitors \cup {place} |-> IF i = place THEN m ELSE monitors[i]]

\* A registration, or another copy of one.
ServeRegister(c) ==
    LET r == Head(toServer[c])
        ok == r.name \in Facilities
    IN
    /\ toServer[c] # <<>>
    /\ toServer' = [toServer EXCEPT ![c] = Tail(@)]
    /\ toClient' = [toClient EXCEPT ![c] = Append(@, Reply(r.id, ok))]
    /\ IF Recorded(c, r) THEN UNCHANGED serverVars
       ELSE /\ history' = history \cup {<<c, r.id>>}
            /\ IF ok
               THEN /\ monitors' = Added([client |-> c, id |-> r.id, facility |-> r.name,
                                         created |-> now, interval |-> r.interval])
                    /\ registered' = [registered EXCEPT ![c] =
                         [id |-> r.id, version |-> version[r.name], at |-> now]]
               ELSE UNCHANGED <<monitors, registered>>
            /\ UNCHANGED version
    /\ UNCHANGED <<now, clientVars, lost>>

\* Faulty variant of RemoveExpiredMonitors: monitors of half their age go.
RemoveOldMonitors == RestrictValues(monitors, LAMBDA m : 2 * (now - m.created) < m.interval)

\* Faulty variant of RemoveExpiredMonitors: none is removed.
RemoveNoMonitors == monitors

RemoveExpiredMonitors == RestrictValues(monitors, LAMBDA m : ~ IfExpired(m))

\* What notifyAll sends to c, one copy for every monitor of f that c has left.
Notifications(c, f, v) ==
    LET left == RemoveExpiredMonitors
        mine == {i \in DOMAIN left : left[i].client = c /\ left[i].facility = f}
    IN  [i \in 1 .. Cardinality(mine) |-> Update(f, v)]

\* A booking operation on f, by a client that is not modelled here.
Operate(f) ==
    /\ version[f] < MaxVersion
    /\ version' = [version EXCEPT ![f] = @ + 1]
    /\ monitors' = RemoveExpiredMonitors
    /\ toClient' = [c \in Clients |-> toClient[c] \o Notifications(c, f, version[f] + 1)]
    /\ UNCHANGED <<now, clientVars, toServer, history, registered, lost>>

Lose(c) ==
    /\ Lossy
    /\ \/ toServer[c] # <<>> /\ toServer' = [toServer EXCEPT ![c] = Tail(@)] /\ UNCHANGED toClient
       \/ toClient[c] # <<>> /\ toClient' = [toClient EXCEPT ![c] = Tail(@)] /\ UNCHANGED toServer
    /\ lost' = lost \cup {c}
    /\ UNCHANGED <<now, clientVars, serverVars>>

ClientStep(c) ==
    \/ \E name \in Names, interval \in Intervals : Register(c, name, interval)
    \/ RegistrationTimeout(c)
    \/ ReceiveReply(c)
    \/ ReceiveUpdate(c)
    \/ ListenTimeout(c)

Next ==
    \/ Tick
    \/ \E c \in Clients : ClientStep(c) \/ ServeRegister(c) \/ Lose(c)
    \/ \E f \in Facilities : Operate(f)

Spec == Init /\ [][Next]_vars

-----------------------------------------------------------------------------
(* Properties *)

\* Every component of the state has its type.
TypeOK ==
    /\ now \in 0 .. MaxTime
    /\ phase \in [Clients -> {"idle", "registering", "listening"}]
    /\ requestID \in [Clients -> 0 .. MaxCalls]
    /\ want \in [Clients -> Registration \cup {NoRegistration}]
    /\ attempt \in [Clients -> 0 .. MaxRetries]
    /\ since \in [Clients -> 0 .. MaxTime]
    /\ started \in [Clients -> 0 .. MaxTime \cup {Never}]
    /\ shown \in [Clients -> Seq(Messages)]
    /\ toServer \in [Clients -> Seq(Registration)]
    /\ toClient \in [Clients -> Seq(Messages)]
    /\ IsFiniteSet(DOMAIN monitors) /\ monitors \in [DOMAIN monitors -> Monitor]
    /\ history \subseteq Clients \X IDs
    /\ version \in [Facilities -> 0 .. MaxVersion]
    /\ registered \in [Clients -> [id : IDs \cup {-1}, version : 0 .. MaxVersion, at : 0 .. MaxTime]]
    /\ lost \subseteq Clients

\* The loop waits for the whole duration again after every update, but no
\* update makes it listen for twice the duration.
ListenBound ==
    \A c \in Clients : phase[c] = "listening" => now <= started[c] + 2 * want[c].interval

OfLastCall(c, m) == m.client = c /\ m.id = want[c].id

\* With a history, a registration leaves one monitor, however often it is sent.
RegisteredOnce ==
    CheckHistory =>
        \A i, j \in DOMAIN monitors :
            monitors[i].client = monitors[j].client /\ monitors[i].id = monitors[j].id => i = j

IsAbout(m, f) == m.kind = "update" /\ m.facility = f

\* The last one that c has been shown or has yet to read.
LatestUpdate(c) ==
    LET all     == shown[c] \o toClient[c]
        updates == {i \in 1 .. Len(all) : IsAbout(all[i], want[c].name)}
    IN  IF updates = {} THEN NoMessage ELSE all[Max(updates)]

\* If none of its datagrams is lost, the last update that a listening client has
\* been shown or has yet to read is about the current state of its facility, from
\* its registration until its interval has passed.
NoChangeMissed ==
    \A c \in Clients :
        /\ c \notin lost
        /\ phase[c] = "listening"
        /\ registered[c].id = want[c].id
        /\ version[want[c].name] # registered[c].version
        /\ now <= registered[c].at + want[c].interval
        => LatestUpdate(c) = Update(want[c].name, version[want[c].name])

\* With a history, an update is only sent to a client that still waits for the
\* reply to its registration, has given up on it, or still listens (or stopped
\* this second): the monitor goes before the client does.
UpdatesFindListener ==
    [][\A c \in Clients :
         /\ version' # version
         /\ toClient'[c] # toClient[c]
         /\ \A i \in DOMAIN monitors : monitors[i].client = c => OfLastCall(c, monitors[i])
         /\ started[c] # Never
         => phase[c] = "listening" \/ now = EndTime(c)]_vars
=============================================================================
