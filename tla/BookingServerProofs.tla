------------------------- MODULE BookingServerProofs -------------------------
(***************************************************************************)
(* Invariants of every behaviour of the booking server, for every set of   *)
(* facilities, users, days and times.                                      *)
(***************************************************************************)
EXTENDS BookingServer, FacilityOpsProofs

IInv ==
    /\ WellKept(app)
    /\ served.kind \in Kinds \cup {"none"}
    /\ lastUpdatedFacility \in Facilities \cup {NoFacility}

LEMMA NextHandlesOneRequest ==
    ASSUME Next
    PROVE  \E user \in Users : \E r : ValidRequest(r) /\ HandleRequest(user, r)
<1> PICK user \in Users : \/ Book(user) \/ Update(user) \/ Delete(user) \/ Rate(user)
                          \/ QueryFacilityNames(user) \/ QueryAvailability(user)
                          \/ QueryBooking(user) \/ QueryRating(user)
  BY DEF Next
<1>1. CASE Book(user)
  BY <1>1, RequestAssumption DEF Book, ValidRequest, Kinds
<1>2. CASE Update(user)
  BY <1>2, RequestAssumption DEF Update, ValidRequest, Kinds
<1>3. CASE Delete(user)
  BY <1>3 DEF Delete, ValidRequest, Kinds
<1>4. CASE Rate(user)
  BY <1>4, RequestAssumption DEF Rate, ValidRequest, Kinds
<1>5. CASE QueryFacilityNames(user)
  BY <1>5 DEF QueryFacilityNames, ValidRequest, Kinds
<1>6. CASE QueryAvailability(user)
  BY <1>6 DEF QueryAvailability, ValidRequest, Kinds
<1>7. CASE QueryBooking(user)
  BY <1>7 DEF QueryBooking, ValidRequest, Kinds
<1>8. CASE QueryRating(user)
  BY <1>8 DEF QueryRating, ValidRequest, Kinds
<1>9. QED  BY <1>1, <1>2, <1>3, <1>4, <1>5, <1>6, <1>7, <1>8

LEMMA IInvInductive == Spec => []IInv
<1>1. Init => IInv
  BY InitialWellKept DEF Init, IInv, Nothing
<1>2. IInv /\ [Next]_vars => IInv'
  <2> SUFFICES ASSUME IInv, [Next]_vars PROVE IInv'
    OBVIOUS
  <2>1. CASE Next
    <3> PICK user \in Users : \E r : ValidRequest(r) /\ HandleRequest(user, r)
      BY <2>1, NextHandlesOneRequest
    <3> PICK r : ValidRequest(r) /\ HandleRequest(user, r)
      OBVIOUS
    <3> DEFINE o == Execute(app, user, r)
    <3>1. WellKept(o.app) /\ o.updated \in Facilities \cup {NoFacility}
      BY ExecuteKeeps, ExecuteUpdated DEF IInv
    <3>2. app' = o.app /\ lastUpdatedFacility' = o.updated /\ served'.kind = r.kind
      BY DEF HandleRequest, ServedRecord
    <3>3. r.kind \in Kinds
      BY DEF ValidRequest
    <3> HIDE DEF o
    <3>4. QED  BY <3>1, <3>2, <3>3 DEF IInv
  <2>2. CASE UNCHANGED vars
    BY <2>2 DEF vars, IInv
  <2>3. QED  BY <2>1, <2>2
<1>3. QED  BY <1>1, <1>2, PTL DEF Spec

\* Type correctness.
THEOREM TypeCorrect == Spec => []TypeOK
<1>1. IInv => TypeOK
  BY DEF IInv, WellKept, TypeOK
<1>2. QED  BY IInvInductive, <1>1, PTL

\* No instant is booked twice: isAvailable keeps the bookings apart, and slots
\* that are apart share no instant.
THEOREM NeverDoubleBooked == Spec => []NoDoubleBooking
<1>1. IInv => NoDoubleBooking
  <2> SUFFICES ASSUME IInv, NEW f \in Facilities,
                      NEW b \in app.bookings[f], NEW c \in app.bookings[f],
                      b # c, SameDay(b, c),
                      NEW t \in Times, Covers(b, t), Covers(c, t)
               PROVE  FALSE
    BY DEF NoDoubleBooking
  <2>1. b \in Booking /\ c \in Booking
    BY DEF IInv, WellKept, AppState
  <2>2. t \in ClockTime
    BY RequestAssumption
  <2>3. ConflictsWith(b, c)
    BY <2>1, <2>2, SharedInstantConflicts DEF Booking
  <2>4. QED  BY <2>3 DEF IInv, WellKept, KeptApart, SameDay
<1>2. QED  BY IInvInductive, <1>1, PTL

\* A confirmation id names one booking of the whole server.
THEOREM IDsNameOneBooking == Spec => []ConfirmedIDsUnique
<1>1. IInv => ConfirmedIDsUnique
  BY DEF IInv, WellKept, IDsUnique, ConfirmedIDsUnique
<1>2. QED  BY IInvInductive, <1>1, PTL

\* An error reply means that nothing was changed, for every request.
THEOREM ErrorsChangeNothing == Spec => ErrorChangesNothing
<1>1. ASSUME Next PROVE served'.reply.status = "ERROR" => app' = app
  <2> PICK user \in Users : \E r : ValidRequest(r) /\ HandleRequest(user, r)
    BY <1>1, NextHandlesOneRequest
  <2> PICK r : ValidRequest(r) /\ HandleRequest(user, r)
    OBVIOUS
  <2> DEFINE o == Execute(app, user, r)
  <2>1. app' = o.app /\ served'.reply = o.reply
    BY DEF HandleRequest, ServedRecord
  <2>2. o.reply.status = "ERROR" => o.app = app
    BY DEF ValidRequest, Kinds, Execute, BookFacility, UpdateBooking, DeleteBooking, AddRating,
           ReadFacilityNames, ReadAvailability, ReadBooking, ReadRating, Read,
           FacilityNotFound, SlotNotAvailable, Outcome, Error, Reply
  <2>3. QED  BY <2>1, <2>2
<1>2. [Next]_vars => [served'.reply.status = "ERROR" => app' = app]_vars
  BY <1>1
<1>3. QED  BY <1>2, PTL DEF Spec, ErrorChangesNothing

\* Only its owner makes a booking go away, by naming it, and is told so.
THEOREM OwnersRemove == Spec => OnlyOwnerRemoves
<1> DEFINE Step == \A f \in Facilities : \A b \in app.bookings[f] \ app'.bookings[f] :
            /\ served'.kind \in {"update", "delete"}
            /\ served'.user = b.user
            /\ served'.id = b.id
            /\ \/ served'.kind = "update" /\ served'.reply.body.oldBookingID = b.id
               \/ served'.kind = "delete" /\ served'.reply.body.bookingID = b.id
<1>1. ASSUME IInv, Next PROVE Step
  <2> PICK user \in Users : \E r : ValidRequest(r) /\ HandleRequest(user, r)
    BY <1>1, NextHandlesOneRequest
  <2> PICK r : ValidRequest(r) /\ HandleRequest(user, r)
    OBVIOUS
  <2>1. app \in AppState  BY <1>1 DEF IInv, WellKept
  <2>2. app' = Execute(app, user, r).app /\ served' = ServedRecord(user, r, Execute(app, user, r).reply)
    BY DEF HandleRequest
  <2>3. QED  BY <2>1, <2>2, ExecuteRemoves DEF ServedRecord
<1>2. IInv /\ [Next]_vars => [Step]_vars
  BY <1>1
<1>3. QED  BY <1>2, IInvInductive, PTL DEF Spec, OnlyOwnerRemoves

\* The list of free slots that a query is answered with and the test that a
\* booking has to pass agree in every state, whatever was booked, moved and
\* given up before.
THEOREM FreeListsAgree == Spec => []FreeListAgrees
<1>1. IInv => FreeListAgrees
  <2> SUFFICES ASSUME IInv, NEW f \in Facilities, NEW d \in DOMAIN Opening[f], WellFormedDay(f, d),
                      NEW s \in Times, NEW e \in Times,
                      Proper([day |-> d, start |-> s, end |-> e]),
                      InHours(Opening[f][d], [day |-> d, start |-> s, end |-> e])
               PROVE  IsAvailable(app, f, [day |-> d, start |-> s, end |-> e]) <=>
                          \E g \in GetAvailableTimeSlots(app, f, d) :
                              InHours(g, [day |-> d, start |-> s, end |-> e])
    BY DEF FreeListAgrees
  <2>1. WellKept(app) /\ s \in ClockTime /\ e \in ClockTime
    BY RequestAssumption DEF IInv
  <2>2. /\ Precedes(s, e)
        /\ AtOrBefore(Opening[f][d].start, s)
        /\ AtOrBefore(e, Opening[f][d].end)
    BY DEF Proper, InHours
  <2>3. \A b \in app.bookings[f] :
            b.day = d => /\ Proper(b)
                         /\ AtOrBefore(Opening[f][d].start, b.start)
                         /\ AtOrBefore(b.end, Opening[f][d].end)
    BY DEF WellFormedDay, InHours
  <2>4. IsAvailable(app, f, [day |-> d, start |-> s, end |-> e]) <=>
            \E g \in GetAvailableTimeSlots(app, f, d) : AtOrBefore(g.start, s) /\ AtOrBefore(e, g.end)
    BY <2>1, <2>2, <2>3, FreeListExact
  <2>5. QED  BY <2>4 DEF InHours
<1>2. QED  BY IInvInductive, <1>1, PTL

\* No handler changes the bookings of a facility without leaving it in
\* lastUpdatedFacility, on any of its paths.
THEOREM ChangesAreAnnounced == Spec => ChangeIsAnnounced
<1> DEFINE Step == \A f \in Facilities :
                       app'.bookings[f] # app.bookings[f] => lastUpdatedFacility' = f
<1>1. ASSUME IInv, Next PROVE Step
  <2> PICK user \in Users : \E r : ValidRequest(r) /\ HandleRequest(user, r)
    BY <1>1, NextHandlesOneRequest
  <2> PICK r : ValidRequest(r) /\ HandleRequest(user, r)
    OBVIOUS
  <2>1. app \in AppState  BY <1>1 DEF IInv, WellKept
  <2>2. app' = Execute(app, user, r).app /\ lastUpdatedFacility' = Execute(app, user, r).updated
    BY DEF HandleRequest
  <2>3. QED  BY <2>1, <2>2, ExecuteAnnounces
<1>2. IInv /\ [Next]_vars => [Step]_vars
  BY <1>1
<1>3. QED  BY <1>2, IInvInductive, PTL DEF Spec, ChangeIsAnnounced
=============================================================================
