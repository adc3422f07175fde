# Facility booking over UDP: TLA+ models and proofs

The repository is a client (C++, `src/Client`) and a server (Java, `src/Server`) for booking
facilities over UDP datagrams. The server keeps everything in memory in one thread; the client
retries calls; the server filters duplicates by a request history, or does not, by its mode; clients
may monitor a facility for a while. This directory holds models of these parts, the TLC
configurations that check them on small instances, and TLAPS proofs of their main properties for all
instances.

Running it, in this directory: `tlc -config <name>.cfg <module>` for a run (the configurations are
named after their MC module), `tlapm <module>.tla` for the proofs in a `...Proofs` module.

## 1. The system

### Parts, their state, and how they interact

| Part | Source | State | Operations | Modules |
|---|---|---|---|---|
| Client invocation | `Client.cpp` (`sendRequest`, `receiveResponse`, `sendWithRetry`) | `requestID`, the datagrams in its socket | send, receive with timeout, retry, give up, relaunch | Invocation, ClientSession |
| Server loop | `Server.java` (`main`, frame of `handleRequest`) | `DROP`, `checkHistory` | receive, drop, reject, echo, look up, execute, reply | Invocation, ClientSession |
| Request history | `RequestHistory`, `RequestInfo` | list of requests with responses | `addRequest`, `containsRequest` | Invocation |
| Booking handlers | `Server.java` (the switch of `handleRequest`) | `lastUpdatedFacility` | book, update, delete, rate, four queries | FacilityOps, BookingServer |
| Availability | `Availability`, `TimeSlot`, `Booking` | seven lists of bookings, opening hours | `isAvailable`, `bookTimeSlot`, `removeTimeSlot`, `getAvailableTimeSlots` | TimeSlots, FacilityOps |
| Facilities, ratings | `FacilityFactory`, `Facility`, `Rating` | map of facilities, sum and count | made by `init`; `addRating` | FacilityOps |
| Monitoring | `MonitorService`, `Monitor`, `Client.cpp` (`monitorAvailability`, `listenForMonitoringUpdates`) | monitors with their age | register, notify, expire, listen | Monitoring |
| Client requests | `Client.cpp`, `Parser.java` | none | formats requests, splits and parses them, reads replies, shifts a booking by an offset | Texts, TimeSlots, BookingSystem |
| Response parser | `ResponseParser.cpp` | none | takes the lines of a reply that a box shows | Texts, BookingSystem |
| User interface | `UserInterface.cpp`, `main.cpp` | `std::cin`, what a handler was told | prompts; query, confirm, then update or delete | UserFlows, Console, BookingSystem |
| Marshalling | `Serializer`, `ByteBuffer`, `ByteReader`, `Parity`, `RequestMessage`, on both sides | buffers | one message to bytes and back | Marshalling |

A call goes: user interface, client request, `sendWithRetry`, datagram, server loop, history, handler,
reply datagram, `receiveResponse`. The handlers leave a facility in `lastUpdatedFacility`; `handleRequest`
then has `MonitorService` send its availability to every monitor that has not expired. These updates
go to the same port of the client as its replies do. Nothing is persisted: a server that stops has
lost everything, so there is no recovery to model.

### What is hard about it, and what makes each part correct

- **Unreliable delivery.** A datagram may be lost, duplicated, delayed or reordered; the client
  retries after 5 s up to 5 times while the server needs 2 s for every request. Correct means: no id executed
  twice with a history (`ExecutedAtMostOnce`), an answer is that of one's own call (`AnswerIsOwn`),
  an answered call was executed (`AnsweredWasExecuted`), every call returns (`CallReturns`).
- **Late replies.** Nothing empties the client's socket, so a late reply costs a later call one
  attempt. Correct means: what is left unread, and the calls that fail for it, can be accounted for
  by timeouts (`BacklogIsTimeouts`, `FailedNeedsBacklog`).
- **Identity of calls.** Ids start at 0 whenever a client is launched; the history keys on address,
  port and id.
- **Long sequences of bookings.** Bookings, updates and deletes, by several users, of slots in any
  order and even reversed, keep the bookings of a day apart (`NoDoubleBooking`), agree with the free
  list that queries show (`FreeListAgrees`), touch nobody else's bookings (`OnlyOwnerRemoves`), and
  are all or nothing (`ErrorChangesNothing`).
- **Decisions on old answers.** A user is shown a booking, confirms, and updates or deletes it by a
  second call; in between other users act, and calls that were given up long ago are performed. The update is
  made from the text of the first reply. Correct means: what the screen says of one's own bookings is true until one
  revokes it (`ScreensHold`), a move keeps place and length and goes by the offset (`UpdatesMove`), nobody gains a
  booking he did not ask for (`BookingsAreAskedFor`).
- **Texts with separators.** Names are typed freely and may hold the comma that separates fields; only some
  branches of the server catch what a damaged list of fields throws (`OnlyAvailabilityStopsServer`).
- **A terminal read in three ways.** Prompts take input by `>>`, by `ignore` and by `getline`; some discard
  the rest of a line, some leave it, and a prompt that reads by `getline` gets what was left. Correct means: a user who
  types one word a line answers the question on the screen (`OwnAnswers`), no prompt gets stuck (`BackToMenu`), and
  malformed or ended input ends nothing and changes nothing (`CleanEnd`, `EofChangesNothing`).
- **Two implementations of one format.** The C++ and the Java serializer agree only by hand; datagrams
  arrive damaged or cut off. Correct means: whole datagrams arrive as meant (`WholeArrives`), one flipped
  bit never passes for another message (`OneFlipIsHarmless`).
- **Time in monitoring.** The server's monitor and the client's listening loop measure the same
  interval from two different moments; monitors expire only when something is sent. Correct means:
  no change is missed, nothing is sent to a client that has stopped, listening ends
  (`NoChangeMissed`, `UpdatesFindListener`, `ListenBound`).

`PROJECT.json` lists the hazards line by line with the properties that cover them, and says of the
others why none does.

## 2. The modules and the code

Each definition's source lines are in the `map` of `PROJECT.json`. Operators commented *Faulty
variant of ...* belong to no specification: each is a plausible bug of the code, put in place of the
operator it is a variant of to see that a property is broken by it.

**TimeSlots** – clock times as the pairs of ints the server stores, `conflictsWith`, the lexicographic
comparisons, and the client's offset arithmetic with C++ division.

**FacilityOps** – one request to a handler, as a function `Execute(app, user, request)` to the new
state, the reply, and the value left in `lastUpdatedFacility`. A function is enough because the server has one
thread and a handler runs to its end. The seven lists of bookings of a facility are one set of
bookings that carry their day; ids are numbered as they are drawn, which gives the order of a list
and the tie-break of its (stable) sort. `UpdateBooking` is the code's order: test the new slot
against all bookings, the old one included; remove; book, whether or not something was removed.
Opening hours are those of `init`; as in the code, only the free list looks at the hours, while
`isAvailable` looks at whether the day has any. Replies carry the operation code the handler really
uses (`WRITE` for an update whose slot is taken).

**Texts** – what the two programs make of each other's text. A request is a sequence of fields (words, numbers, ids),
a facility name a sequence of fields too, as it may hold commas; `Split` leaves out empty fields at the end as
`String.split` does. `ParseRequest` takes the fields by position and gives a request for `FacilityOps`, an error
reply, or `Fatal`: an exception in the READ branch, which no `try` surrounds. A reply is a record of labelled
lines. Times in it are sequences of characters, written by `%02d%02d` (`TimeText`) and read by `substr` and `stoi`
(`ReadTime`), which is no identity: hours of three digits shift the minutes. `Box` and the `Parse...Response` operators
say which lines a response is shown with; the layout is left out. `HandleMessage` is `handleRequest` on a text.

**BookingServer** – the handlers applied to any sequence of requests, an action for each operation.
`served` is the last request and its reply; the action properties read it.

**Invocation** – clients, network, and the server loop. A client is `requestID`, the message it sends,
its attempts and its result; `Call`, `ReceiveResponse`, `ReceiveOther`, `Timeout` and `Relaunch` are its
steps. The network is the set of all datagrams sent: any may arrive, any number of times, at any
time, or never, which is loss, duplication, delay and reordering at once. The server's steps are the
exits of the loop: dropped, bad request (answered with id 0, not recorded), echo, duplicate (answered with
the recorded response), executed (recorded in both modes, looked up with `CheckHistory` only). The
handlers are the constant `Execute`, so that all holds for every application; `executions` is
auxiliary. `Relaunch` is a client that is started again and gets the same port.

**RemoteCall** – what at-most-once invocation promises: a call is issued, performed at most once,
possibly after the client gave up, and answered with the response of its performance. `Invocation`
states that it implements it (`RC`, with the datagrams sent for the calls issued and the history for
the calls performed).

**UserFlows** – each handler of the menu as a script: its prompts and calls in order.

**Console** – the client's terminal. `input` is what `std::cin` has not given out yet: words, commas, blanks and
newlines. Each prompt function is an action that reads in its own way and accepts, asks again, or ends the
program. The user types a line when a prompt finds nothing (`Type`), types ahead while a call is under way, or ends the
input. The outcome of a call is any. `typed`, `tidy` and `answers` are auxiliary: whether a line was typed since the
prompt was shown, whether the user so far typed at most one word a line and only when asked, and, of the values the handler
has, whether they were typed for their question and whether they were read at all.

**BookingSystem** – the composition: users at their menus, their clients' texts, and the server, with
an INSTANCE of `RemoteCall` in between whose `Execute` is `HandleMessage`. `Choose` and `Continue` answer
all prompts up to the handler's next call (`CallAfter`) in every way its user's `Answers` allow (`Replies`) and issue it; `Answered` and `GaveUp` show a box and go on, or back to the
menu; `Perform` may come long after `GaveUp`. `ServerDies` is the exception that leaves the server's loop. Since
`Invocation` implements `RemoteCall` (checked and proved), the composition stands for the clients and the loop of
`Invocation` with a history; prompts are those of `Console`, answered. `AnswersAssumption` says what answers are, which
is what the prompts accept.

**Marshalling** – one exchange after the other, byte by byte: the header with class name, field names and types, the
three values, the parity byte. A byte is the set of its bits that are 1. Bytes and ints are narrower than the program's,
names shorter, by CONSTANTS. A reader is a chain of reads, each after the last (`Then`, `IntAfter`, `StringAfter`). The
readers make the checks of each side, and they differ. C++ compares everything with its own class, and reads on into
the parity byte; Java drops that byte, and takes as many fields as the datagram says. A null marker gives C++ a
null pointer that is used (`Undefined`), a length the heap has no room for gives Java an `OutOfMemoryError` that
`catch (Exception e)` lets through, and a READ without data a `NullPointerException` outside of every `try`
(`Fatal`). A request longer than the server's buffer is cut; a reply beyond the capacity of `ByteBuffer` is
never sent. Each exchange has at most one damaged datagram, with at most `MaxFlips` flipped bits.

**ClientSession** – the same client over first-in first-out channels, as on one link: what the
server has yet to read, and what the client's socket holds. `Receive` takes the oldest reply and only
its id makes it an answer; `Timeout` needs an empty socket. `callStart` and `timeouts` are auxiliary.
The module shows what the set-shaped network of `Invocation` cannot: how replies pile up, and that
the drop toggle is survived.

**Monitoring** – registration with retries, the listening loop, the monitors, and booking operations
on facilities (`Operate`, reduced to a version number). There is one clock in seconds. `Tick` is
blocked while a receive is overdue, so that no receive lasts longer than its timeout. The
receive timeout of the loop is the whole interval, and is set anew after every update. The list of
monitors is a function of places, which increase with time (`Added`). Expiry is
computed in milliseconds with a `long` on the left and an `int` on the right (`IfExpired`, `ToInt`).
`registered` and `lost` are auxiliary. Updates are not serialized messages: a client that waits for a
reply takes one for no response, a client that listens shows anything that arrives.

**FacilityOpsProofs, BookingServerProofs, BookingSystemProofs, InvocationProofs, ClientSessionProofs,
MonitoringProofs, ConsoleProofs, MarshallingProofs** hold the theorems and their proofs (section 4). The facts about
texts stand in BookingSystemProofs, before those about the system.

The **MC** modules give model values, the opening hours, a counter as application (its reply tells
executions apart), symmetry, and, for BookingServer, the view that leaves out `served` and
`lastUpdatedFacility`, which no guard or effect reads. TLC checks action properties on every transition
it generates, so the view hides none of them; of the invariants only two conjuncts of `TypeOK` read what
it leaves out, and those hold in every state by theorem `TypeCorrect`.

## 3. What is checked

State counts are distinct states. Deadlock is not checked: the bounds end every behaviour, and a
client without calls left, or a server without datagrams, really waits for ever.

| Run | Instance | States | Checked |
|---|---|---|---|
| `server_one_day` (MCBookingServer) | 1 facility, 1 day, 3 ids, 2 users, 4 times | 26 thousand | `TypeOK`, `NoDoubleBooking`, `FreeListAgrees`, `OnlyOwnerRemoves`, `ErrorChangesNothing` |
| `server_facilities` (MCBookingServer_facilities) | 2 facilities and an unknown name, closed days, ratings, all queries, 2 ids | 2.7 thousand | `ConfirmedIDsUnique`, `ChangeIsAnnounced` |
| `call_at_most_once` (MCInvocation) | history, drop toggle, damage, relaunch; 2 clients, 1 call per process, 2 attempts | 557 thousand | `TypeOK`, `ExecutedAtMostOnce` |
| `call_at_least_once` (MCInvocation_atleastonce) | no history, drop toggle, damage; 2 clients, 2 calls, 2 attempts, 2 executions of a call | 1.7 million | `AnswerIsOwn` |
| `call_refines` (MCInvocation_refines) | history, fair; 2 clients, 2 calls, 2 attempts | 8 thousand | `AnsweredWasExecuted`, `ImplementsRemoteCall`, `CallReturns` |
| `session_lossy` (MCClientSession) | losses, slow answers; 3 calls, 3 attempts | 9 thousand | `TypeOK`, `BacklogIsTimeouts`, `FailedNeedsBacklog` |
| `session_drop` (MCClientSession_drop) | drop toggle, prompt answers, fair; 30 calls, 2 attempts | 151 | `DropsTolerated`, `CallAnswered` |
| `monitor` (MCMonitoring) | history, losses; 1 client, 2 registrations, intervals 1 and 2 s, 2 operations, 6 s | 495 thousand | `TypeOK`, `ListenBound`, `RegisteredOnce`, `NoChangeMissed`, `UpdatesFindListener` |
| `console` (MCConsole) | every handler and prompt, 27 lines a user may type, typing ahead, end of input, fair | 7.5 thousand | `TypeOK`, `OwnAnswers`, `EofChangesNothing`, `CleanEnd`, `BackToMenu` |
| `booking_system` (MCBookingSystem) | alice updates and deletes, in 4 calls; bob queries, books, rates, and tries to update what is hers, in 2 calls | 681 thousand | `TypeOK`, `ScreensHold`, `BookingsAreAskedFor`, `OnlyAvailabilityStopsServer`, `UpdatesMove` |
| `wire` (MCMarshalling) | bytes of 2 bits, ints of 2 bytes, 4 requests, 3 replies, up to 2 flipped bits an exchange | 104 thousand | `TypeOK`, `WholeArrives`, `OneFlipIsHarmless` |

One more run, `server_missing_booking`, looks for a violation of what the documentation says, and finds it; section 6
says what it is.

### Why these bounds

- *Booking server.* A conflict is between two bookings; the third id lets an update move a booking
  while another two are there, and the free list have a booking before, between and after. Four times
  in every order give slots that touch, nest, overlap, are empty, or end before they start, and slots
  at both ends of the hours. One user owns, the other tries. `FreeListAgrees` is stated for days
  whose bookings are proper and within hours: with others the two algorithms do differ (section 6).
  The ids that requests name include one nobody was given.
- *Invocation.* The network's sets make one attempt enough to lose and duplicate; the second is what
  distinguishes giving up from going on, and makes the toggle of the server let one through. Two calls
  of a process have a stale reply in flight; with a relaunch, one call of each process is enough to
  repeat an id. Two clients have the same ids. `MaxExecutions` is 2 in order that the second execution,
  which `ExecutedAtMostOnce` forbids, can happen in the model, and so that it does happen without history.
  `AnsweredWasExecuted` is run with the history, where it says exactly once; at least once, without it, is proved only.
- *Client session.* Three attempts fail for three old replies, which need earlier calls that gave up:
  three calls. `session_drop` is nearly deterministic, so that 30 calls cost nothing; the toggle is
  back where it was after every call.
- *Monitoring.* Two registrations have two monitors of one client at a time, with different
  intervals; six seconds contain two whole intervals with their overrun. The client's receive timeout equals the
  longer interval. A client never reads another's messages and the server tests each monitor on its
  own, so one client with two registrations stands for several. `IntRange` is larger than all
  milliseconds in the run, in place of 2^32, whose half TLC's own integers cannot hold.

- *Console.* A prompt reads one line or the rest of one, so what matters is what one line leaves to the next
  prompt: the lines are one word each, and lines with a second word, blanks, commas, and nothing. `MaxAhead` is 1: a
  line may be typed ahead when at most a newline is unread, which is enough for a prompt to take the answer of
  another. A `Type` replaces what a blocked `>>` has skipped, so that unread input does not grow.
- *Booking system.* An update takes two calls, an update with its delete four, so alice has four; bob's
  two calls are one handler that asks before it acts. Alice's offset takes 9:30 to 0:00 and a second move below it, into hours
  that print a minus sign. Bob knows only alice's booking: his update of it moves nothing and books a slot of his
  own, which may take what she moves to. The name with a comma is what only a user can make up.
- *Wire.* The smallest bytes that hold markers 0 and 1 and two letters. Every flip of a bit and every
  pair of them in a datagram occurs. `RequestBuffer` cuts one of the requests, and `Capacity` stops one
  of the replies.

### Fairness

- `Invocation!FairSpec`: weak fairness of `Timeout(c)`, nothing else. `SO_RCVTIMEO` is set on the
  socket, so that a receive that is blocked ends. Neither network nor server need do anything for
  `CallReturns`.
- `ClientSession!FairSpec`: also of `Serve(c)`, because the server's loop blocks in nothing but its
  receive, and of `Receive(c)`, because a receive returns when the socket holds a datagram.
  `CallAnswered` is only checked where no datagram is lost and every answer comes in time (`Prompt`); otherwise
  it does not hold, nor should it.

- `Console!FairSpec`: weak fairness of the program, which has one thread and stops only to read or in a
  call, whose return is `Invocation`'s `CallReturns`; and strong fairness of `TypeWanted`: a user who is asked again and again
  will at some point type what is wanted. `BackToMenu` excepts the end of the input, which a user need never send.

## 4. What is proved

With TLAPS, for any number of clients, users, facilities, times, calls and retries. The assumptions are
the named `ASSUME`s on the constants, which TLC also evaluates.

| Module | Theorems |
|---|---|
| FacilityOpsProofs | `SharedInstantConflicts`, `ConflictSharesInstant`, `ShiftKeepsSlot`, `FreeListExact`; what one handler does to one state |
| BookingServerProofs | `TypeCorrect`, `NeverDoubleBooked`, `IDsNameOneBooking`, `FreeListsAgree`, `ErrorsChangeNothing`, `OwnersRemove`, `ChangesAreAnnounced` |
| BookingSystemProofs | `TimeTextExact`, `UpdateAsksForShift`, `ParsedIsValid`, `AvailabilityParsed`, `AnswersAreTrue`; `SystemTyped`, `SystemNeverClashes`, `ScreensAreTrue`, `NoneUnasked`, `StoppedByAvailability`, `UpdatesAreMoves` |
| InvocationProofs | `TypeCorrect`, `AtMostOnce`, `AnswersAreOwn`, `AnswersMeanExecution`, `RefinesRemoteCall` |
| ClientSessionProofs | `TypeCorrect`, `BacklogOnlyFromTimeouts`, `FailureNeedsBacklog`, `DropsAreTolerated` |
| MonitoringProofs | `TypeCorrect`, `ListeningBounded`, `OneMonitor`, `UpdatesAreHeard`, `NothingMissed` |
| ConsoleProofs | `ConsoleTyped`, `EofIsHarmless`, `ConsoleEndsCleanly`, `OwnAnswersOnly` |
| MarshallingProofs | `IntArrives`, `OneFlipDetected`, `WireTyped`, `FormatsAgree`, `FlipsAreHarmless` |

**FacilityOpsProofs, BookingServerProofs.** `NoDoubleBooking` speaks of instants and is not inductive: what the handler
tests is `conflictsWith`. The invariant `WellKept` says that ids are between 1 and `lastID`, that
they are unique over all facilities, and that any two bookings of a day do not conflict.
`RemoveKeeps` and `BookKeeps` show that the two operations on a list keep it, `ExecuteKeeps` that
every handler does, and `RemoveKeepsAvailable` is the step `updateBooking` relies on: a slot that was
available is so after a removal. `SharedInstantConflicts` (for all slots, reversed ones too) then
takes `WellKept` to instants. `FreeListExact` follows the cursor of the free list: `CursorAfter` says that behind the
bookings that begin before some time the cursor stands at the end of the last of them, and as none conflict, that is the
latest end of all; so what lies between two bookings is listed, and nothing else. The one assumption that is not on a
constant is in the model: UUIDs are fresh.

**BookingSystemProofs, texts.** `TimeTextExact`: a time whose hours and minutes take two characters each, those with a minus
sign included, is read as it was written. `UpdateAsksForShift` goes from the text of a booking through the
client's request to what the server parses of it, and finds the booking's id, place and `Shift` of its ends.
`ParsedIsValid` goes through every branch of the parsers: for any fields, what is let through is a
request that `ExecuteKeeps` is about; `AvailabilityParsed` says which query of a client can throw. `AnswersAreTrue` goes
through the successful replies: the labels the client looks for hold what is true of the state the handler leaves.

**BookingSystemProofs, the system.** `SystemNeverClashes` has the invariant `WellKept(app)`, for any users, answers and
late calls; `MessageKeeps` combines `ParsedIsValid` with `ExecuteKeeps`. The hypothesis of the theorems is that the
state the system starts from is well kept, which the initial one is (`InitialWellKept`). The other theorems share the
invariant `SysInv`. What a screen shows is true only because what it is made of was: the answer of every call that was performed is
true of its sender's bookings, until he gives them up (`AnswerTrue`), and an id is never given out again (`Gone`). That a
handler sends what was asked of it needs where it stands: in the menu, in a call, or between two calls, having been told as
much as its script has asked by then (`InMenu`, `InCall`, `BetweenCalls`); and of every call in flight, late or not, what it
is, and that the text an update was made from was such an answer (`CallsTrue`). `NoneUnasked` counts the performed calls that ask for a booking
(`AllAskedFor`). `UpdatesAreMoves` takes the text from the state it was true of to the state in which the update is performed: a
booking of this id that still stands is the one described, and `UpdateAsksForShift` says where it goes.

**InvocationProofs.** `HistoryInv`: an id that was executed is in the history, hence found when it
comes again. It needs nothing of the network. That answers are one's own needs three facts together (`AnswerInv`):
ids in the network are below the client's counter, so that a new call's id is new (this is what a
relaunch breaks, hence the hypothesis `~ PortReuse`); every reply in the network is an echo, a bad
request, or recorded for a request that was sent; and the answer a client holds is one of these.
`RefinesRemoteCall` takes `CheckHistory /\ ~ PortReuse /\ ~ Damage` and maps `Call` to `Issue`,
`ServerExecute` to `Perform`, `ReceiveResponse` to `Answer`, the last `Timeout` or `ReceiveOther` to `GiveUp`, and the
rest to stuttering.

**ClientSessionProofs.** `BacklogIsTimeouts` is a count that every step keeps. `FailedNeedsBacklog` needs to
know where the old replies are: the channels are first-in first-out, so in the socket followed by what was
sent, all datagrams of old calls come before those of the current one (`OldOnesFirst`); an attempt without
timeout that reads no answer has used up one of them, and there were `callStart[c].backlog`. `DropsAreTolerated` is about a
single client of which the toggle alone takes datagrams, and at least two attempts (`OnlyToggleDrops`): a call is at one of
four places (`AtFirst`, `AtDropped`, `AtSecond`, `AtAnswered`), and between two calls the toggle is off.

**MonitoringProofs.** `ListeningBounded`: a receive of the loop begins before the loop's end, and
time does not pass beyond its timeout (`ListenInv`); the sum of both is twice the duration. `OneMonitor`: with a history every monitor's
registration is recorded (`MonitorsRecorded`), hence one that comes again makes none.

`UpdatesAreHeard` and `NothingMissed` compare the two clocks. `KnownInv` has what the server holds of a client (`AskedBy`:
registrations and monitors of earlier calls, or copies of the last), where the client's loop is (`ClockOf`), and what its replies
answer (`AnsweredTo`: with a history, the monitor of the last call was made before the client began to listen). The monitor
is therefore the older of the two, both measure the same duration, and an update that is sent is heard. Without
the history this fails: a late copy of the registration makes a younger monitor. `NothingMissed` adds that the
server monitors for a client until the duration has passed (`WatchedBy`), and that in what the client was shown and
will read, the last update about its facility is of the current version (`Told`, `HeardBy`). While the client still waits for the reply, this is
claimed of what comes *behind* the reply in its queue: what comes before it is thrown away with an attempt. Its
hypothesis `IntervalsFit` is that durations in milliseconds are below 2^31, which the prompt does not ensure; section 6
says what happens otherwise.

**ConsoleProofs.** `EofIsHarmless` is a matter of order. A made-up value needs an input that has ended and
nothing left there to read, and then no prompt but those by `ignore` and `getline` ever returns; each of those is
followed in its script by another prompt, or by the query of a rating, which is the last step (`GoodScripts`). So
`MadeUpIsHarmless` is inductive. `ConsoleEndsCleanly` needs what can be in the input (`DataTyped`): there is a token for the
list of days unless the input has ended. `OwnAnswersOnly` has the invariant `TidyInput`: a prompt leaves the next one a newline at
most, so that with the line that is typed there are three forms of input (`TidyLine`), and of the prompt for a
duration, which alone would take the newline for a line, it says that nothing is left when it is shown. Lines are sequences of words
that do not contain the newline (`LexicalAssumption`).

**MarshallingProofs.** Widths, names, messages, replies and buffer sizes are any that `SizesAssumption` and
`MessagesAssumption` allow: lengths are ints, arrays fit the heap, the server's buffer holds all of a request but its text.
`IntArrives` is arithmetic: the value that the reader adds up from the bits that the writer cut off is the number modulo two
to the width, and `Signed` gives the sign back. Powers and the reader's sum are recursive functions, of which the prover
knows nothing before it is proved that a function with the recursion exists (`Recursion`, from initial pieces that agree).
`OneFlipDetected`: a flip adds or removes one element of `Ones`, and the parity byte is one of the two that
a flip does not take to the other. What the readers make of a message is found one read after the
other: `Holds(buffer, at, bytes)` says what stands where, `JavaReads` and `CppReads` that who reads from there gets the
message. The last byte of a request that was cut is one of its text, which is not 0 or 1 and fails as a parity byte, unless it is
itself the one that was damaged; then the length of the text is not, and points beyond the end (`CutRequest`). The reader of the client looks at the parity byte as
well, and never needs it. The inductive invariant `Inv` says that the wire carries what was written with `flips` flips
(`Carried`: equal for none, `Toggled` in one place for one) and that `got` is what is read of it.

Where a proof needs the first or the last place of something in a list (of a newline, of an update, of a free place), it is
the least or greatest number of a set of numbers (`LeastNatural`, `GreatestIndex`), which the library has as a consequence of well-founded
orders on finite sets.

Only model-checked: the liveness properties `CallReturns`, `CallAnswered` and `BackToMenu`, which are out of the
prover's reach. Every other property of the passing runs has a theorem that states it.

## 5. What is left out

- *Layout*: the boxes' frames, padding and wording, and the boxes of monitoring and echo, which are shown after the last
  call of their handlers and decide nothing.
- *Socket errors* other than the timeout, the missing socket and the unknown host: they end the client (`Socket.cpp`) and
  leave nothing to model.
- *Parts of the serializers* that no message of the program uses: `writeLong`, `writeDouble`, arrays, nested objects.
- *A restart of the server*: nothing is persisted, it begins with `Init`.
- *Bookings in Monitoring*, which are reduced to a version, and *monitoring in BookingSystem*: updates neither read
  nor change bookings.
- *Charsets*: the Java server turns text into bytes and back by its default charset (`ByteBuffer.java:87`,
  `ByteReader.java:91`). In Marshalling text is its bytes, which is right for ASCII, and for text that is valid in a charset
  both programs share.
- *Ids as texts*: a UUID is a number drawn in order. UUIDs are taken to be fresh.
- Build files and container.

## 6. Where program and documentation differ

Found violated by a run and listed in `PROJECT.json` with the lines on both sides:

1. `server_missing_booking`, `SuccessNamesABooking`: `removeTimeSlot` returns null instead of throwing, so
   an update or delete of a booking that does not exist, or is another user's, is answered with SUCCESS and the
   id `null`, and the update has booked a new slot. The replies "Booking not found" are unreachable.

Seen while modelling, modelled as the code has it, not given a run:

- Request ids are documented as unique (`API_Specification.md:37`), and restart at 0 with the client (`Client.cpp:16`). A client
  that gets its predecessor's port is answered from the history with the response to another request, and its own is not
  executed. This is why `AnswersAreOwn` has the hypothesis `~ PortReuse`.
- A call may fail without a timeout, because its attempts read late replies of earlier calls (`Client.cpp:418`). `FailedNeedsBacklog`
  is what does hold. A client that is MAX_RETRIES replies behind never catches up as long as every request is
  answered: each call reads as many replies as it causes.
- Listening may last for up to twice the duration, because each receive waits for all of it (`Client.cpp:584`).
  `ListenBound` is what does hold.
- A slot outside the opening hours is granted (`Availability.java:102` tests the day only), while the
  free list keeps to the hours.
- After a reversed slot (one that ends before it starts, which `isAvailable` grants), the cursor of the free list
  moves backwards (`Availability.java:205`), and advertises time that is taken.
- An update that is refused is answered with the operation WRITE (`Server.java:552`), though
  `API_Specification.md:59` says that the field matches the request's.
- "Bad request" is sent with id 0 (`Server.java:205`), the id of every client's first request: that client takes
  it for its answer, although another copy of the request may have been executed.
- Refused updates and bookings, and deletes of nothing, are announced to monitors all the same
  (`Server.java:479`, `:546`, `:609`).
- A client that listens shows a second registration reply as if it were an update (`Client.cpp:595`).
  Without history, a registration that is sent twice also makes two monitors.
- `monitorInterval * 1000` is an `int` product (`Monitor.java:63`): intervals above 2147483 s wrap, and
  such a monitor may expire at once.
- A query of the availability of a facility whose name holds a comma ends the server: what follows the comma is taken for
  a day, and `DayOfWeek.valueOf` throws outside of every `try` (`Server.java:264`).
- A fully booked day is shown as closed, and so is every day asked for of a facility called `ALL`, because that query is the one for names
  (`ResponseParser.cpp:80`, `Server.java:247`).
- In a list of days, a number that fits no int throws `out_of_range`, which only `main` catches: the client ends
  (`UserInterface.cpp:664`). At the end of the input the same prompt copies the first of no days (`:683`).
- At the end of the input, prompts by `>>` ask for ever, and those for a name and a message return an empty text.
- An echo of an empty message is sent as null, and comes back as an empty text, which counts as no response: the call is
  repeated to the end and fails (`Client.cpp:454`).

## 7. Plan

Done, in this order: FacilityOps and BookingServer; Invocation and RemoteCall; ClientSession; Monitoring; Texts, UserFlows and
BookingSystem; Console; Marshalling; and the proofs of section 4.

What could be added:

1. Monitoring within BookingSystem: the availability that updates carry, in place of a version.
2. A run of BookingSystem without a history, over `Invocation` itself: what a retried update does when it is
   executed twice.
