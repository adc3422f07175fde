---------------------------- MODULE BookingServer ----------------------------
(***************************************************************************)
(* The booking server on its own: handleRequest applied to any sequence of *)
(* requests of any users, with the network and the request history left    *)
(* out (they are module Invocation's).  One action per operation.          *)
(***************************************************************************)
EXTENDS FacilityOps

CONSTANTS
    Names,     \* facility names that occur in requests, unknown ones among them
    Times,     \* clock times that occur in requests
    Ratings,   \* ratings that occur in requests
    MaxIDs,    \* bound: confirmation ids drawn
    MaxRated   \* bound: ratings a facility receives

ASSUME RequestAssumption ==
    /\ Times \subseteq ClockTime
    /\ Ratings \subseteq Int
    /\ MaxIDs \in Nat
    /\ MaxRated \in Nat

VARIABLES
    app,                  \* facilities, bookings and ratings
    served,               \* the last request and the reply handleRequest returned
    lastUpdatedFacility   \* the field of Server.java that triggers notifications

vars == <<app, served, lastUpdatedFacility>>

\* An id a user may hold: any that was drawn, and one nobody was given.
IDs == 1 .. MaxIDs + 1

\* Of a request the properties only need its sender, its kind and its id.
Nothing == [kind |-> "none", reply |-> Reply("NONE", "NONE", [message |-> "none"])]

ServedRecord(user, r, reply) ==
    [user |-> user, kind |-> r.kind, id |-> IF r.kind \in {"update", "delete"} THEN r.id ELSE NoBooking,
     reply |-> reply]

Init ==
    /\ app = InitialApp
    /\ served = Nothing
    /\ lastUpdatedFacility = NoFacility

Within(a) == a.lastID <= MaxIDs /\ \A f \in Facilities : a.ratings[f].count <= MaxRated

HandleRequest(user, r) ==
    LET o == Execute(app, user, r)
    IN  /\ Within(o.app)
        /\ app' = o.app
        /\ served' = ServedRecord(user, r, o.reply)
        /\ lastUpdatedFacility' = o.updated

-----------------------------------------------------------------------------
Book(user) ==
    \E f \in Names, d \in Days, s \in Times, e \in Times :
        HandleRequest(user, [kind |-> "book", facility |-> f, day |-> d, start |-> s, end |-> e])

Update(user) ==
    \E i \in IDs, f \in Names, d \in Days, s \in Times, e \in Times :
        HandleRequest(user, [kind |-> "update", id |-> i, facility |-> f, day |-> d, start |-> s, end |-> e])

Delete(user) ==
    \E i \in IDs, f \in Names : HandleRequest(user, [kind |-> "delete", id |-> i, facility |-> f])

Rate(user) ==
    \E f \in Names, n \in Ratings : HandleRequest(user, [kind |-> "rate", facility |-> f, rating |-> n])

QueryFacilityNames(user) == HandleRequest(user, [kind |-> "facilities"])

QueryAvailability(user) ==
    \E f \in Names, D \in SUBSET Days :
        HandleRequest(user, [kind |-> "availability", facility |-> f, days |-> D])

QueryBooking(user) == \E i \in IDs : HandleRequest(user, [kind |-> "booking", id |-> i])

QueryRating(user) == \E f \in Names : HandleRequest(user, [kind |-> "rating", facility |-> f])

Next ==
    \E user \in Users :
        \/ Book(user)
        \/ Update(user)
        \/ Delete(user)
        \/ Rate(user)
        \/ QueryFacilityNames(user)
        \/ QueryAvailability(user)
        \/ QueryBooking(user)
        \/ QueryRating(user)

Spec == Init /\ [][Next]_vars

-----------------------------------------------------------------------------
(* Properties *)

\* Every component of the state has its type.
TypeOK ==
    /\ app \in AppState
    /\ served.kind \in Kinds \cup {"none"}
    /\ lastUpdatedFacility \in Facilities \cup {NoFacility}

SameDay(b, c) == b.day = c.day

\* No instant of a day is booked twice at one facility, whatever slots the
\* clients ask for: the test of isAvailable and the order of the removal and
\* the booking in updateBooking keep the bookings of a day apart.
NoDoubleBooking ==
    \A f \in Facilities : \A b, c \in app.bookings[f] :
        b # c /\ SameDay(b, c) => ~ \E t \in Times : Covers(b, t) /\ Covers(c, t)

\* A confirmation id names one booking of the server, whichever facility it is
\* looked up at (getBookingInfo is asked facility by facility).
ConfirmedIDsUnique ==
    \A f, g \in Facilities : \A b \in app.bookings[f], c \in app.bookings[g] :
        b.id = c.id => f = g /\ b = c

InHours(hours, slot) ==
    /\ AtOrBefore(hours.start, slot.start)
    /\ AtOrBefore(slot.end, hours.end)

\* The bookings a careful user makes: they end after they start, within hours.
WellFormedDay(f, d) ==
    \A b \in app.bookings[f] : b.day = d => Proper(b) /\ InHours(Opening[f][d], b)

\* What a query advertises and what a booking request is granted agree: a
\* slot within hours can be booked if and only if one advertised slot
\* contains it (getAvailableTimeSlots and isAvailable are two algorithms over
\* the same lists).
FreeListAgrees ==
    \A f \in Facilities : \A d \in DOMAIN Opening[f] :
        WellFormedDay(f, d) =>
            \A s, e \in Times :
                LET slot == [day |-> d, start |-> s, end |-> e]
                IN  Proper(slot) /\ InHours(Opening[f][d], slot) =>
                        (IsAvailable(app, f, slot) <=>
                            \E g \in GetAvailableTimeSlots(app, f, d) : InHours(g, slot))

\* A booking goes away only in a step that serves an update or a delete by
\* its owner that names it, and the reply of that step reports its id
\* (removeTimeSlot, updateBooking, deleteBooking).
OnlyOwnerRemoves ==
    [][ \A f \in Facilities : \A b \in app.bookings[f] \ app'.bookings[f] :
            /\ served'.kind \in {"update", "delete"}
            /\ served'.user = b.user
            /\ served'.id = b.id
            /\ \/ served'.kind = "update" /\ served'.reply.body.oldBookingID = b.id
               \/ served'.kind = "delete" /\ served'.reply.body.bookingID = b.id ]_vars

\* A request that is answered with an error leaves the facilities as they
\* were: an update that finds its new slot taken has not given up the old one.
ErrorChangesNothing == [][ served'.reply.status = "ERROR" => app' = app ]_vars

\* Whenever the bookings of a facility change, handleRequest is left with
\* that facility in lastUpdatedFacility: its monitors will be notified.
ChangeIsAnnounced ==
    [][ \A f \in Facilities :
            app'.bookings[f] # app.bookings[f] => lastUpdatedFacility' = f ]_vars

-----------------------------------------------------------------------------
(* What the documentation says and the server does not do *)

\* A successful update or delete is one of an existing booking of the user.
\* removeTimeSlot returns null instead of failing when there is none.
SuccessNamesABooking ==
    served.reply.status = "SUCCESS" =>
        /\ served.kind = "update" => served.reply.body.oldBookingID # NoBooking
        /\ served.kind = "delete" => served.reply.body.bookingID # NoBooking
=============================================================================
