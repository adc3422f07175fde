---------------------------- MODULE BookingSystem ----------------------------
(***************************************************************************)
(* The whole system at work: users at their menus (UserFlows), what their  *)
(* clients send and show (Texts), and the server (FacilityOps), with       *)
(* remote invocation between them as module RemoteCall promises it: a call *)
(* may be performed long after its client gave up.                         *)
(*                                                                         *)
(* A step of a user answers all prompts up to the handler's next call and  *)
(* makes that call.  A client has one thread, so nothing else of it can    *)
(* come between; the steps of the server and of other users do.  What a    *)
(* prompt goes through until it is answered is module Console's.           *)
(***************************************************************************)
EXTENDS UserFlows, Texts, FiniteSets

CONSTANTS
    Handlers,    \* Handlers[u]: the menu's choices that u takes
    Answers,     \* Answers[u][p]: what u answers to prompt p, "yes" and "no" apart
    NoRequest,   \* not a request
    StartApp,    \* what earlier clients left at the server
    MaxCalls     \* MaxCalls[u]: bound on the calls of u's client

ASSUME SystemAssumption ==
    /\ Handlers \in [Users -> SUBSET (Items \ {7, 10, 11})]
    /\ StartApp \in AppState
    /\ MaxCalls \in [Users -> Nat]

\* What the prompts accept: a line with or without commas, days, HHMM, an id,
\* an offset other than 0, a rating.
ASSUME AnswersAssumption ==
    \A u \in Users :
        /\ Answers[u].facilityName \subseteq Seq(Field) \ {<<>>}
        /\ Answers[u].daysOfWeek \subseteq Seq(Days)
        /\ Answers[u].dayOfWeek \subseteq Days
        /\ Answers[u].time \subseteq [1 .. 4 -> 0 .. 9]
        /\ Answers[u].bookingID \subseteq Nat \ {NoBooking}
        /\ Answers[u].offset \subseteq Int \ {0}
        /\ Answers[u].rating \subseteq 1 .. 5

VARIABLES
    call, waiting, result, issued, performed, app,   \* of RemoteCall
    handler,   \* handler[u]: Menu, or the choice whose handler runs
    step,      \* step[u]: the step of its script, a call when handler[u] # Menu
    told,      \* told[u]: what the handler knows: answers, and the old booking's text
    screen,    \* screen[u]: the last box that was shown
    up         \* the server runs

callVars == <<call, waiting, result, issued, performed, app>>
userVars == <<handler, step, told, screen>>
vars == <<callVars, userVars, up>>

RC == INSTANCE RemoteCall WITH
          Clients <- Users, Requests <- {}, Echoes <- {}, Execute <- HandleMessage,
          InitialApp <- StartApp, IDs <- {}, NoID <- -1

NoBox == [title |-> "none", rows |-> <<>>]

Init ==
    /\ RC!Init
    /\ handler = [u \in Users |-> Menu]
    /\ step = [u \in Users |-> 1]
    /\ told = [u \in Users |-> <<>>]
    /\ screen = [u \in Users |-> NoBox]
    /\ up = TRUE

-----------------------------------------------------------------------------
(* The user and the client *)

\* The n-th step of a script is followed by prompts only, up to a call at i.
CallAfter(h, n, i) ==
    /\ Script(h)[i].do = "call"
    /\ \A j \in n .. i - 1 : Script(h)[j].do = "ask"

\* Of two parts of a script between calls, the second begins with a
\* confirmation, which is no answer that the handler remembers.
FirstAnswer(h, n) == IF Script(h)[n] = Ask("confirmation") THEN n + 1 ELSE n

AnswersTo(u, h, j, i) == IF j < i THEN Answers[u][Script(h)[j].what] ELSE {""}

\* All ways to answer the prompts from step n to before step i; there are four at most.
Replies(u, h, n, i) ==
    {SubSeq(<<a, b, c, d>>, 1, i - n) :
        a \in AnswersTo(u, h, n, i), b \in AnswersTo(u, h, n + 1, i),
        c \in AnswersTo(u, h, n + 2, i), d \in AnswersTo(u, h, n + 3, i)}

\* The request that a call of a handler sends, from what the handler was told.
RequestOf(kind, k) ==
    CASE kind = "facilities"   -> QueryFacilityNames
      [] kind = "availability" -> QueryAvailability(k[1], k[2])
      [] kind = "book"         -> BookFacilityRequest(k[1], k[2], k[3], k[4])
      [] kind = "booking"      -> QueryBooking(k[1])
      [] kind = "update"       -> UpdateBookingRequest(k[1], k[3], k[2])
      [] kind = "delete"       -> DeleteBookingRequest(k[1], k[2])
      [] kind = "rate"         -> RateFacility(k[1], k[2])
      [] kind = "rating"       -> QueryRating(k[1])

CallsOf(u) == Cardinality({m \in issued : m.client = u})

Proceed(u, h, n, known) ==
    \E i \in n .. Len(Script(h)) :
        /\ CallAfter(h, n, i)
        /\ \E more \in Replies(u, h, FirstAnswer(h, n), i) :
            /\ CallsOf(u) < MaxCalls[u]
            /\ RC!Issue(u, RequestOf(Script(h)[i].what, known \o more), CallsOf(u))
            /\ handler' = [handler EXCEPT ![u] = h]
            /\ step' = [step EXCEPT ![u] = i]
            /\ told' = [told EXCEPT ![u] = known \o more]
            /\ UNCHANGED <<screen, up>>

\* A choice of the menu, up to the first call of its handler.
Choose(u) ==
    /\ handler[u] = Menu
    /\ \E h \in Handlers[u] : Proceed(u, h, 1, <<>>)

\* The prompts after a call that is not the last, up to the next one.
Continue(u) ==
    /\ handler[u] # Menu
    /\ ~ waiting[u]
    /\ Proceed(u, handler[u], step[u] + 1, told[u])

\* Faulty variant of ToMenu: what the handler was told is kept.
ToMenuRemembering(u) ==
    /\ handler' = [handler EXCEPT ![u] = Menu]
    /\ step' = [step EXCEPT ![u] = 1]
    /\ UNCHANGED told

ToMenu(u) ==
    /\ handler' = [handler EXCEPT ![u] = Menu]
    /\ step' = [step EXCEPT ![u] = 1]
    /\ told' = [told EXCEPT ![u] = <<>>]

\* The confirmation is refused.
Decline(u) ==
    /\ handler[u] # Menu
    /\ ~ waiting[u]
    /\ Script(handler[u])[step[u] + 1] = Ask("confirmation")
    /\ ToMenu(u)
    /\ UNCHANGED <<callVars, screen, up>>

\* What is shown of the response to a call.
BoxOf(u, kind, response) ==
    CASE kind = "facilities"   -> ParseQueryFacilityNamesResponse(response)
      [] kind = "availability" -> ParseQueryAvailabilityResponse(response, told[u][2])
      [] kind = "book"         -> ParseBookFacilityResponse(response)
      [] kind = "booking"      -> ParseQueryBookingResponse(response)
      [] kind = "update"       -> ParseUpdateBookingResponse(response)
      [] kind = "delete"       -> ParseDeleteBookingResponse(response)
      [] kind = "rate"         -> ParseRateFacilityResponse(response)
      [] kind = "rating"       -> ParseQueryRatingResponse(response)

\* After its last call, and after an error, the handler returns to the menu.
Show(u, response) ==
    LET h    == handler[u]
        kind == Script(h)[step[u]].what
    IN  /\ screen' = [screen EXCEPT ![u] = BoxOf(u, kind, response)]
        /\ IF step[u] = Len(Script(h)) \/ IsErrorResponse(response) THEN ToMenu(u)
           ELSE /\ told' = [told EXCEPT ![u] = IF kind = "booking" THEN Append(@, response) ELSE @]
                /\ UNCHANGED <<handler, step>>
        /\ UNCHANGED up

Answered(u) == RC!Answer(u) /\ Show(u, result'[u].response)

\* sendWithRetry's own response after the last attempt.
GaveUp(u) == RC!GiveUp(u) /\ Show(u, ErrorText("Request failed after 5 attempts."))

-----------------------------------------------------------------------------
(* The server *)

Perform(m) ==
    /\ up
    /\ ParseRequest(m.request) # Fatal
    /\ RC!Perform(m)
    /\ UNCHANGED <<userVars, up>>

\* An exception that nothing catches leaves the loop of main.
ServerDies(m) ==
    /\ up
    /\ ParseRequest(m.request) = Fatal
    /\ up' = FALSE
    /\ UNCHANGED <<callVars, userVars>>

Next ==
    \/ \E u \in Users : Choose(u) \/ Continue(u) \/ Decline(u) \/ Answered(u) \/ GaveUp(u)
    \/ \E m \in issued : Perform(m) \/ ServerDies(m)

Spec == Init /\ [][Next]_vars

-----------------------------------------------------------------------------
(* Properties *)

\* Every component of the state has its type: a handler under way stands at a
\* call of its script.
TypeOK ==
    /\ app \in AppState
    /\ up \in BOOLEAN
    /\ \A u \in Users :
           /\ handler[u] \in Handlers[u] \cup {Menu}
           /\ handler[u] # Menu => Script(handler[u])[step[u]].do = "call"
           /\ handler[u] = Menu => ~ waiting[u] /\ told[u] = <<>>
           /\ screen[u].title = "Error" <=> "message" \in DOMAIN screen[u].rows
    /\ \A m \in issued : m.request.op \in {"READ", "WRITE", "UPDATE", "DELETE"}

\* The booking that a box about one shows stands at the server.
Stands(u, id, rows) ==
    \E f \in Facilities : \E b \in app.bookings[f] :
        /\ b.id = id
        /\ f = rows.facility
        /\ u = rows.user
        /\ SlotLines(b.user, f, b) = [l \in BookingLabels |-> rows[l]]

\* Calls that give up booking id.
Revoked(u, id) ==
    \E m \in issued :
        /\ m.client = u
        /\ \/ m.request.op = "UPDATE" /\ m.request.fields[1] = Word("booking") /\ m.request.fields[2] = ID(id)
           \/ m.request.op = "DELETE" /\ m.request.fields[1] = ID(id)

\* What is on a user's screen about his bookings is true as long as he does
\* not revoke it himself: a booking shown to its owner stands at the server
\* with the facility, the day and the times shown, whatever others do and
\* whatever late calls are performed, and a deleted one never comes back.
ScreensHold ==
    \A u \in Users :
        LET box == screen[u]
        IN  /\ box.title = "Booking Details" /\ box.rows.user = u /\ ~ Revoked(u, box.rows.bookingID) =>
                   Stands(u, box.rows.bookingID, box.rows)
            /\ box.title = "New Booking Details" /\ ~ Revoked(u, box.rows.newBookingID) =>
                   Stands(u, box.rows.newBookingID, box.rows)
            /\ box.title = "Booking Deleted" =>
                   \A f \in Facilities : \A b \in app.bookings[f] : b.id # box.rows.bookingID

\* Times whose hours and minutes take two characters.
OnClock(t) == t.hour \in 0 .. 99 /\ t.minute \in 0 .. 59

Length(b) == Minutes(b.end) - Minutes(b.start)

\* Moving a booking keeps its facility, its day and its length, and puts both
\* ends off by the offset the user typed, though the times go through a text
\* of four characters, hours and minutes, and back, and may leave the day: for
\* bookings whose times the text can hold.
UpdatesMove ==
    [][ \A f \in Facilities : \A b \in app.bookings[f] \ app'.bookings[f] :
            \A c \in UNION {app'.bookings[g] \ app.bookings[g] : g \in Facilities} :
                OnClock(b.start) /\ OnClock(b.end) =>
                    /\ c \in app'.bookings[f]
                    /\ c.user = b.user
                    /\ c.day = b.day
                    /\ Length(c) = Length(b)
                    /\ Minutes(c.start) - Minutes(b.start) \in Answers[b.user]["offset"] ]_vars

BookingsOf(a, u) == UNION {{b \in a.bookings[f] : b.user = u} : f \in Facilities}

\* A user gains no more bookings than he made calls to book or to update,
\* answered or not: none is made twice, none for another call.
BookingsAreAskedFor ==
    \A u \in Users :
        Cardinality(BookingsOf(app, u))
            <= Cardinality(BookingsOf(StartApp, u)) + Cardinality({m \in issued :
                   /\ m.client = u
                   /\ \/ m.request.op = "WRITE"
                      \/ m.request.op = "UPDATE" /\ m.request.fields[1] = Word("booking")})

\* The only request of the client program that can end the server is a query
\* of the availability of a facility whose name holds a comma, by which a part
\* of the name comes to stand where a day should (the READ branch of
\* handleRequest is outside of its try blocks).
OnlyAvailabilityStopsServer ==
    ~ up => \E m \in issued :
                \E name \in Answers[m.client].facilityName, days \in Answers[m.client].daysOfWeek :
                    m.request = QueryAvailability(name, days) /\ Len(name) > 1
=============================================================================
