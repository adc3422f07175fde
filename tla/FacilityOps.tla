----------------------------- MODULE FacilityOps -----------------------------
(***************************************************************************)
(* What the server does with one request, as a function of the facilities' *)
(* state: the handlers of Server.java with the models they call            *)
(* (Availability, Booking, Rating, FacilityFactory).                       *)
(*                                                                         *)
(* The server is single-threaded and a handler runs to its end before the  *)
(* next datagram is read, so a handler is a function from the state, the   *)
(* user (address and port of the datagram) and the request to an outcome:  *)
(* the new state, the reply, and the value left in lastUpdatedFacility.    *)
(*                                                                         *)
(* A facility's seven lists of bookings are one set of bookings that carry *)
(* their day.  Confirmation ids are random UUIDs, taken to be fresh: they  *)
(* are numbered in the order they are drawn, so a list's order is the      *)
(* order of its ids.                                                       *)
(***************************************************************************)
EXTENDS TimeSlots

CONSTANTS
    Facilities,   \* names of the facilities created by init
    Opening,      \* Opening[f][d]: opening hours of f on the days d it is open
    Days,         \* days of the week
    Users,        \* address:port of the clients
    NoFacility    \* null, as the value of lastUpdatedFacility

ASSUME OpeningAssumption ==
    /\ NoFacility \notin Facilities
    /\ \A f \in Facilities : /\ DOMAIN Opening[f] \subseteq Days
                            /\ \A d \in DOMAIN Opening[f] : /\ Opening[f][d].start \in ClockTime
                                                           /\ Opening[f][d].end \in ClockTime

NoBooking == 0    \* null, as a confirmation id

Booking == [id : Nat \ {NoBooking}, user : Users, day : Days, start : ClockTime, end : ClockTime]

\* The state behind facilityFactory: bookings and ratings of every facility,
\* and the last confirmation id that was drawn.
AppState == [bookings : [Facilities -> SUBSET Booking],
             ratings  : [Facilities -> [sum : Int, count : Nat]],
             lastID   : Nat]

\* The requests the client program sends, by the switch branch they take, and
\* what its prompts and conversions guarantee of their parameters.
Kinds == {"book", "update", "delete", "rate", "facilities", "availability", "booking", "rating"}

ValidRequest(r) ==
    /\ r.kind \in Kinds
    /\ r.kind \in {"book", "update"} => /\ r.day \in Days
                                       /\ r.start \in ClockTime
                                       /\ r.end \in ClockTime
    /\ r.kind = "rate" => r.rating \in Int

InitialApp == [bookings |-> [f \in Facilities |-> {}],
               ratings  |-> [f \in Facilities |-> [sum |-> 0, count |-> 0]],
               lastID   |-> 0]

-----------------------------------------------------------------------------
\* Availability

\* Faulty variant of IsAvailable: only the start of the new slot is tested.
IsAvailableAtStart(app, f, slot) ==
    /\ slot.day \in DOMAIN Opening[f]
    /\ \A b \in app.bookings[f] : b.day = slot.day => ~ Covers(b, slot.start)

IsAvailable(app, f, slot) ==
    /\ slot.day \in DOMAIN Opening[f]
    /\ \A b \in app.bookings[f] : b.day = slot.day => ~ ConflictsWith(b, slot)

\* Faulty variants of BookTimeSlot: an id that was drawn before, and the id
\* that stands for none.
BookTimeSlotSameID(app, f, user, slot) ==
    LET b == [id |-> app.lastID + 1, user |-> user, day |-> slot.day,
              start |-> slot.start, end |-> slot.end]
    IN  [app EXCEPT !.bookings[f] = @ \cup {b}]

BookTimeSlotNoID(app, f, user, slot) ==
    LET b == [id |-> app.lastID, user |-> user, day |-> slot.day,
              start |-> slot.start, end |-> slot.end]
    IN  [app EXCEPT !.lastID = app.lastID + 1, !.bookings[f] = @ \cup {b}]

BookTimeSlot(app, f, user, slot) ==
    LET b == [id |-> app.lastID + 1, user |-> user, day |-> slot.day,
              start |-> slot.start, end |-> slot.end]
    IN  [app EXCEPT !.lastID = app.lastID + 1, !.bookings[f] = @ \cup {b}]

\* Faulty variant of Named: the user is not compared.
NamedByAnyone(app, f, id, user) == {b \in app.bookings[f] : b.id = id}

\* The bookings removeTimeSlot's loop stops at: the id and the user match.
Named(app, f, id, user) == {b \in app.bookings[f] : b.id = id /\ b.user = user}

RemoveTimeSlot(app, f, id, user) ==
    [app EXCEPT !.bookings[f] = @ \ Named(app, f, id, user)]

\* What removeTimeSlot returns.
RemovedID(app, f, id, user) == IF Named(app, f, id, user) = {} THEN NoBooking ELSE id

\* Faulty variant of VisitedBefore: the list is not sorted.
VisitedUnsorted(a, b) == a.id < b.id

\* The order in which getAvailableTimeSlots visits a day's bookings: a stable
\* sort by start of a list in the order of the ids.
VisitedBefore(a, b) ==
    \/ Precedes(a.start, b.start)
    \/ a.start = b.start /\ a.id < b.id

LastVisited(S) == CHOOSE b \in S : \A a \in S \ {b} : VisitedBefore(a, b)

\* currentStart after the loop has visited the bookings in S.
Cursor(hours, S) == IF S = {} THEN hours.start ELSE LastVisited(S).end

GetAvailableTimeSlots(app, f, d) ==
    IF d \notin DOMAIN Opening[f] THEN {}
    ELSE LET booked == {b \in app.bookings[f] : b.day = d}
             hours  == Opening[f][d]
             ends   == [b \in booked |-> Cursor(hours, {a \in booked : VisitedBefore(a, b)})]
             gaps   == {[day |-> d, start |-> ends[b], end |-> b.start] : b \in booked}
             tail   == [day |-> d, start |-> Cursor(hours, booked), end |-> hours.end]
         IN  {slot \in gaps \cup {tail} : Proper(slot)}

-----------------------------------------------------------------------------
\* Replies and outcomes

Reply(op, status, body) == [op |-> op, status |-> status, body |-> body]

Error(op, message) == Reply(op, "ERROR", [message |-> message])

Outcome(app, reply, updated) == [app |-> app, reply |-> reply, updated |-> updated]

FacilityNotFound(app, op) == Outcome(app, Error(op, "Facility not found"), NoFacility)

SlotNotAvailable(app, f) ==
    Outcome(app, Error("WRITE", "Facility not available at the requested time"), f)

-----------------------------------------------------------------------------
\* Handlers: WRITE, UPDATE and DELETE

BookFacility(app, user, r) ==
    IF r.facility \notin Facilities THEN FacilityNotFound(app, "WRITE")
    ELSE IF ~ IsAvailable(app, r.facility, r) THEN SlotNotAvailable(app, r.facility)
    ELSE LET new == BookTimeSlot(app, r.facility, user, r)
         IN  Outcome(new, Reply("WRITE", "SUCCESS", [bookingID |-> new.lastID]), r.facility)

\* Faulty variant of UpdateBooking: the old slot is given up before the new
\* one is known to be available.
UpdateReleasingFirst(app, user, r) ==
    IF r.facility \notin Facilities THEN FacilityNotFound(app, "UPDATE")
    ELSE LET removed == RemoveTimeSlot(app, r.facility, r.id, user)
             new     == BookTimeSlot(removed, r.facility, user, r)
             old     == RemovedID(app, r.facility, r.id, user)
         IN  IF ~ IsAvailable(removed, r.facility, r) THEN SlotNotAvailable(removed, r.facility)
             ELSE Outcome(new, Reply("UPDATE", "SUCCESS",
                                     [oldBookingID |-> old, newBookingID |-> new.lastID]), r.facility)

UpdateBooking(app, user, r) ==
    IF r.facility \notin Facilities THEN FacilityNotFound(app, "UPDATE")
    ELSE IF ~ IsAvailable(app, r.facility, r) THEN SlotNotAvailable(app, r.facility)
    ELSE LET removed == RemoveTimeSlot(app, r.facility, r.id, user)
             new     == BookTimeSlot(removed, r.facility, user, r)
             old     == RemovedID(app, r.facility, r.id, user)
         IN  Outcome(new, Reply("UPDATE", "SUCCESS",
                                [oldBookingID |-> old, newBookingID |-> new.lastID]), r.facility)

\* Faulty variant of DeleteBooking: lastUpdatedFacility is not set.
DeleteUnannounced(app, user, r) ==
    IF r.facility \notin Facilities THEN FacilityNotFound(app, "DELETE")
    ELSE Outcome(RemoveTimeSlot(app, r.facility, r.id, user),
                 Reply("DELETE", "SUCCESS",
                       [bookingID |-> RemovedID(app, r.facility, r.id, user)]), NoFacility)

DeleteBooking(app, user, r) ==
    IF r.facility \notin Facilities THEN FacilityNotFound(app, "DELETE")
    ELSE Outcome(RemoveTimeSlot(app, r.facility, r.id, user),
                 Reply("DELETE", "SUCCESS",
                       [bookingID |-> RemovedID(app, r.facility, r.id, user)]), r.facility)

\* An unknown facility is a null pointer whose exception handleRequest catches.
AddRating(app, user, r) ==
    IF r.facility \notin Facilities THEN Outcome(app, Error("UPDATE", "null"), NoFacility)
    ELSE Outcome([app EXCEPT !.ratings[r.facility] = [sum |-> @.sum + r.rating, count |-> @.count + 1]],
                 Reply("UPDATE", "SUCCESS", [rating |-> r.rating]), NoFacility)

-----------------------------------------------------------------------------
\* Handlers: READ

Read(app, reply) == Outcome(app, reply, NoFacility)

ReadFacilityNames(app) ==
    Read(app, Reply("READ", "SUCCESS", [facilityNames |-> Facilities]))

\* No day named means every day.
ReadAvailability(app, r) ==
    IF r.facility \notin Facilities THEN FacilityNotFound(app, "READ")
    ELSE LET asked == IF r.days = {} THEN Days ELSE r.days
         IN  Read(app, Reply("READ", "SUCCESS",
                    [timeslots |-> UNION {GetAvailableTimeSlots(app, r.facility, d) : d \in asked}]))

ReadBooking(app, r) ==
    LET holders == {f \in Facilities : \E b \in app.bookings[f] : b.id = r.id}
    IN  IF holders = {} THEN Read(app, Error("READ", "Booking not found"))
        ELSE LET f == CHOOSE f \in holders : TRUE
                 b == CHOOSE b \in app.bookings[f] : b.id = r.id
             IN  Read(app, Reply("READ", "SUCCESS", [facility |-> f, booking |-> b]))

\* The average, as the pair it is computed from.
ReadRating(app, r) ==
    IF r.facility \notin Facilities THEN FacilityNotFound(app, "READ")
    ELSE Read(app, Reply("READ", "SUCCESS", [rating |-> app.ratings[r.facility]]))

\* The switch of handleRequest; each kind is one branch of it.
Execute(app, user, r) ==
    CASE r.kind = "book"         -> BookFacility(app, user, r)
      [] r.kind = "update"       -> UpdateBooking(app, user, r)
      [] r.kind = "delete"       -> DeleteBooking(app, user, r)
      [] r.kind = "rate"         -> AddRating(app, user, r)
      [] r.kind = "facilities"   -> ReadFacilityNames(app)
      [] r.kind = "availability" -> ReadAvailability(app, r)
      [] r.kind = "booking"      -> ReadBooking(app, r)
      [] r.kind = "rating"       -> ReadRating(app, r)
=============================================================================
