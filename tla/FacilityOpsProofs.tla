--------------------------- MODULE FacilityOpsProofs --------------------------
(***************************************************************************)
(* Facts about clock times and slots, for all times and all offsets, and   *)
(* about one handler of the server, for all states and all requests.       *)
(***************************************************************************)
EXTENDS FacilityOps, FiniteSetTheorems, TLAPS

\* The pair comparisons of TimeSlot.java order all pairs of ints.
LEMMA OrderTotal ==
    ASSUME NEW t \in ClockTime, NEW u \in ClockTime, NEW v \in ClockTime
    PROVE  /\ AtOrBefore(t, u) <=> ~ Precedes(u, t)
           /\ AtOrBefore(t, u) /\ AtOrBefore(u, v) => AtOrBefore(t, v)
           /\ Precedes(t, u) /\ AtOrBefore(u, v) => Precedes(t, v)
           /\ AtOrBefore(t, u) /\ Precedes(u, v) => Precedes(t, v)
           /\ Precedes(t, u) => AtOrBefore(t, u)
    BY DEF ClockTime, AtOrBefore, Precedes

\* TimeSlot.conflictsWith is symmetric: it does not matter which of the two
\* slots is already booked.
LEMMA ConflictSymmetric ==
    ASSUME NEW x, NEW y
    PROVE  ConflictsWith(x, y) <=> ConflictsWith(y, x)
    BY DEF ConflictsWith

\* Slots that share an instant are in conflict, malformed slots included:
\* conflictsWith misses no double booking.
THEOREM SharedInstantConflicts ==
    ASSUME NEW x, NEW y, NEW t \in ClockTime,
           x.start \in ClockTime, x.end \in ClockTime,
           y.start \in ClockTime, y.end \in ClockTime,
           Covers(x, t), Covers(y, t)
    PROVE  ConflictsWith(x, y)
    BY DEF Covers, ConflictsWith, ClockTime, AtOrBefore, Precedes

\* Proper slots are in conflict only if they share an instant: conflictsWith
\* refuses no booking that only touches another one.
THEOREM ConflictSharesInstant ==
    ASSUME NEW x, NEW y,
           x.start \in ClockTime, x.end \in ClockTime,
           y.start \in ClockTime, y.end \in ClockTime,
           Proper(x), Proper(y), ConflictsWith(x, y)
    PROVE  \E t \in ClockTime : Covers(x, t) /\ Covers(y, t)
<1>1. CASE AtOrBefore(x.start, y.start)
  <2>1. Covers(x, y.start) /\ Covers(y, y.start)
    BY <1>1 DEF Covers, ConflictsWith, Proper, ClockTime, AtOrBefore, Precedes
  <2>2. QED  BY <2>1
<1>2. CASE ~ AtOrBefore(x.start, y.start)
  <2>1. Covers(x, x.start) /\ Covers(y, x.start)
    BY <1>2 DEF Covers, ConflictsWith, Proper, ClockTime, AtOrBefore, Precedes
  <2>2. QED  BY <2>1
<1>3. QED  BY <1>1, <1>2

-----------------------------------------------------------------------------
\* Splitting minutes into hour and minute as C++ does loses nothing, whatever
\* the sign: the division rounds toward zero and the remainder makes up for it.
LEMMA SplitMinutes ==
    ASSUME NEW n \in Int
    PROVE  /\ FromMinutes(n) \in ClockTime
           /\ Minutes(FromMinutes(n)) = n
<1>1. CASE n >= 0
  BY <1>1 DEF FromMinutes, Minutes, At, ClockTime, TruncDiv, TruncMod
<1>2. CASE n < 0
  BY <1>2 DEF FromMinutes, Minutes, At, ClockTime, TruncDiv, TruncMod
<1>3. QED  BY <1>1, <1>2

\* The server's order on the split times is the order of the minutes, before
\* midnight of the day and after it too.
LEMMA SplitKeepsOrder ==
    ASSUME NEW m \in Int, NEW n \in Int
    PROVE  Precedes(FromMinutes(m), FromMinutes(n)) <=> m < n
<1>1. CASE m >= 0 /\ n >= 0
  BY <1>1 DEF FromMinutes, At, Precedes, TruncDiv, TruncMod
<1>2. CASE m < 0 /\ n >= 0
  BY <1>2 DEF FromMinutes, At, Precedes, TruncDiv, TruncMod
<1>3. CASE m >= 0 /\ n < 0
  BY <1>3 DEF FromMinutes, At, Precedes, TruncDiv, TruncMod
<1>4. CASE m < 0 /\ n < 0
  BY <1>4 DEF FromMinutes, At, Precedes, TruncDiv, TruncMod
<1>5. QED  BY <1>1, <1>2, <1>3, <1>4

\* Client::updateBooking moves a slot of wall clock times to a slot of the same
\* length, so a proper booking stays proper under every offset (but it may
\* leave its day: the moved times are ClockTimes, not WallClock times).
THEOREM ShiftKeepsSlot ==
    ASSUME NEW t \in WallClock, NEW u \in WallClock, NEW offset \in Int
    PROVE  /\ Minutes(Shift(t, offset)) = Minutes(t) + offset
           /\ Precedes(Shift(t, offset), Shift(u, offset)) <=> Precedes(t, u)
<1>0. /\ t.hour \in Int /\ t.minute \in Int /\ 0 <= t.minute /\ t.minute < 60
      /\ u.hour \in Int /\ u.minute \in Int /\ 0 <= u.minute /\ u.minute < 60
  BY DEF WallClock
<1>1. Minutes(t) \in Int /\ Minutes(u) \in Int
  BY <1>0 DEF Minutes
<1>2. Minutes(Shift(t, offset)) = Minutes(t) + offset
  BY <1>1, SplitMinutes DEF Shift
<1>3. Precedes(Shift(t, offset), Shift(u, offset)) <=> Minutes(t) < Minutes(u)
  BY <1>1, SplitKeepsOrder DEF Shift
<1>4. Precedes(t, u) <=> Minutes(t) < Minutes(u)
  <2>1. CASE t.hour < u.hour  BY <1>0, <2>1 DEF Precedes, Minutes
  <2>2. CASE t.hour = u.hour  BY <1>0, <2>2 DEF Precedes, Minutes
  <2>3. CASE t.hour > u.hour  BY <1>0, <2>3 DEF Precedes, Minutes
  <2>4. QED  BY <1>0, <2>1, <2>2, <2>3
<1>5. QED  BY <1>2, <1>3, <1>4

-----------------------------------------------------------------------------
(* One handler *)

\* Every booking has an id that was drawn.
IDsDrawn(a) == \A f \in Facilities : \A b \in a.bookings[f] : b.id <= a.lastID

IDsUnique(a) ==
    \A f, g \in Facilities : \A b \in a.bookings[f], c \in a.bookings[g] :
        b.id = c.id => f = g /\ b = c

\* What isAvailable tests, of all pairs of bookings: stronger than
\* NoDoubleBooking, and inductive.
KeptApart(a) ==
    \A f \in Facilities : \A b, c \in a.bookings[f] :
        b # c /\ b.day = c.day => ~ ConflictsWith(b, c)

WellKept(a) == a \in AppState /\ IDsDrawn(a) /\ IDsUnique(a) /\ KeptApart(a)

LEMMA InitialWellKept == WellKept(InitialApp)
    BY DEF WellKept, InitialApp, AppState, IDsDrawn, IDsUnique, KeptApart

\* removeTimeSlot takes bookings away and touches nothing else.
LEMMA RemoveKeeps ==
    ASSUME NEW a, WellKept(a), NEW f \in Facilities, NEW id, NEW user
    PROVE  WellKept(RemoveTimeSlot(a, f, id, user))
<1> DEFINE n == RemoveTimeSlot(a, f, id, user)
<1>1. a \in AppState /\ IDsDrawn(a) /\ IDsUnique(a) /\ KeptApart(a)
  BY DEF WellKept
<1>2. n \in AppState
  BY <1>1 DEF RemoveTimeSlot, AppState
<1>3. n.lastID = a.lastID /\ \A g \in Facilities : n.bookings[g] \subseteq a.bookings[g]
  BY <1>1 DEF RemoveTimeSlot, AppState
<1>4. IDsDrawn(n)  BY <1>1, <1>3 DEF IDsDrawn
<1>5. IDsUnique(n)  BY <1>1, <1>3 DEF IDsUnique
<1>6. KeptApart(n)  BY <1>1, <1>3 DEF KeptApart
<1>7. QED  BY <1>2, <1>4, <1>5, <1>6 DEF WellKept

\* Removing bookings makes no slot unavailable.
LEMMA RemoveKeepsAvailable ==
    ASSUME NEW a, WellKept(a), NEW f \in Facilities, NEW id, NEW user, NEW slot,
           IsAvailable(a, f, slot)
    PROVE  IsAvailable(RemoveTimeSlot(a, f, id, user), f, slot)
    BY DEF WellKept, AppState, RemoveTimeSlot, IsAvailable

\* bookTimeSlot after a positive isAvailable keeps the bookings apart.
LEMMA BookKeeps ==
    ASSUME NEW a, WellKept(a), NEW f \in Facilities, NEW user \in Users, NEW slot,
           slot.day \in Days, slot.start \in ClockTime, slot.end \in ClockTime,
           IsAvailable(a, f, slot)
    PROVE  WellKept(BookTimeSlot(a, f, user, slot))
<1> DEFINE b == [id |-> a.lastID + 1, user |-> user, day |-> slot.day,
                 start |-> slot.start, end |-> slot.end]
           n == BookTimeSlot(a, f, user, slot)
<1>1. a \in AppState /\ IDsDrawn(a) /\ IDsUnique(a) /\ KeptApart(a)
  BY DEF WellKept
<1>2. a.lastID \in Nat /\ \A g \in Facilities : a.bookings[g] \subseteq Booking
  BY <1>1 DEF AppState
<1>3. b \in Booking
  BY <1>2 DEF Booking, NoBooking
<1>4. n = [a EXCEPT !.lastID = a.lastID + 1, !.bookings[f] = @ \cup {b}]
  BY DEF BookTimeSlot
<1>5. n \in AppState
  <2> DEFINE bs == [a.bookings EXCEPT ![f] = @ \cup {b}]
  <2>1. n = [bookings |-> bs, ratings |-> a.ratings, lastID |-> a.lastID + 1]
    BY <1>1, <1>4 DEF AppState
  <2> HIDE DEF b
  <2>2. bs \in [Facilities -> SUBSET Booking]
    BY <1>1, <1>3 DEF AppState
  <2> HIDE DEF bs, n
  <2>3. QED  BY <1>1, <2>1, <2>2 DEF AppState
<1>6. /\ n.lastID = a.lastID + 1
      /\ n.bookings[f] = a.bookings[f] \cup {b}
      /\ \A g \in Facilities \ {f} : n.bookings[g] = a.bookings[g]
  BY <1>1, <1>4 DEF AppState
<1>7. \A g \in Facilities : \A c \in a.bookings[g] : c.id \in Nat /\ c.id <= a.lastID /\ c.id # b.id
  BY <1>1, <1>2 DEF IDsDrawn, Booking
<1>8. IDsDrawn(n)
  <2> SUFFICES ASSUME NEW g \in Facilities, NEW c \in n.bookings[g]
               PROVE  c.id <= n.lastID
    BY DEF IDsDrawn
  <2>1. c \in a.bookings[g] \/ c = b  BY <1>6
  <2>2. QED  BY <1>2, <1>6, <1>7, <2>1
<1>9. IDsUnique(n)
  <2> SUFFICES ASSUME NEW g \in Facilities, NEW h \in Facilities,
                      NEW c \in n.bookings[g], NEW e \in n.bookings[h], c.id = e.id
               PROVE  g = h /\ c = e
    BY DEF IDsUnique
  <2>1. (c \in a.bookings[g] \/ (c = b /\ g = f)) /\ (e \in a.bookings[h] \/ (e = b /\ h = f))
    BY <1>6
  <2>2. QED  BY <1>1, <1>7, <2>1 DEF IDsUnique
<1>10. KeptApart(n)
  <2> SUFFICES ASSUME NEW g \in Facilities, NEW c \in n.bookings[g], NEW e \in n.bookings[g],
                      c # e, c.day = e.day
               PROVE  ~ ConflictsWith(c, e)
    BY DEF KeptApart
  <2>1. (c \in a.bookings[g] \/ (c = b /\ g = f)) /\ (e \in a.bookings[g] \/ (e = b /\ g = f))
    BY <1>6
  <2>2. \A x \in a.bookings[f] : x.day = b.day => ~ ConflictsWith(x, b)
    BY DEF IsAvailable, ConflictsWith
  <2>3. CASE c \in a.bookings[g] /\ e \in a.bookings[g]
    BY <1>1, <2>3 DEF KeptApart
  <2>4. CASE c \in a.bookings[g] /\ e = b /\ g = f
    BY <2>2, <2>4
  <2>5. CASE c = b /\ g = f /\ e \in a.bookings[g]
    BY <2>2, <2>5, ConflictSymmetric
  <2>6. QED  BY <2>1, <2>3, <2>4, <2>5
<1>11. QED  BY <1>5, <1>8, <1>9, <1>10 DEF WellKept

LEMMA RateKeeps ==
    ASSUME NEW a, WellKept(a), NEW user, NEW r, r.rating \in Int
    PROVE  WellKept(AddRating(a, user, r).app)
<1> DEFINE n == AddRating(a, user, r).app
<1>1. CASE r.facility \notin Facilities
  <2>1. n = a  BY <1>1 DEF AddRating, Outcome
  <2>2. QED  BY <2>1
<1>2. CASE r.facility \in Facilities
  <2>1. a \in AppState  BY DEF WellKept
  <2> DEFINE rs == [a.ratings EXCEPT ![r.facility] = [sum |-> @.sum + r.rating, count |-> @.count + 1]]
  <2>2. n = [bookings |-> a.bookings, ratings |-> rs, lastID |-> a.lastID]
    BY <1>2, <2>1 DEF AddRating, Outcome, AppState
  <2>3. rs \in [Facilities -> [sum : Int, count : Nat]]
    <3>1. a.ratings \in [Facilities -> [sum : Int, count : Nat]]
      BY <2>1 DEF AppState
    <3>2. /\ a.ratings[r.facility].sum + r.rating \in Int
          /\ a.ratings[r.facility].count + 1 \in Nat
      BY <1>2, <3>1
    <3>3. QED  BY <1>2, <3>1, <3>2
  <2> HIDE DEF rs, n
  <2>4. n \in AppState /\ n.bookings = a.bookings /\ n.lastID = a.lastID
    BY <2>1, <2>2, <2>3 DEF AppState
  <2>5. WellKept(n)
    BY <2>4 DEF WellKept, IDsDrawn, IDsUnique, KeptApart
  <2>6. QED  BY <2>5 DEF n
<1>3. QED  BY <1>1, <1>2

\* Whatever handler a request is given to, it leaves the facilities well kept.
LEMMA ExecuteKeeps ==
    ASSUME NEW a, WellKept(a), NEW user \in Users, NEW r, ValidRequest(r)
    PROVE  WellKept(Execute(a, user, r).app)
<1> DEFINE n == Execute(a, user, r).app
           f == r.facility
<1>1. CASE r.kind = "book"
  <2>1. n = a \/ (f \in Facilities /\ IsAvailable(a, f, r) /\ n = BookTimeSlot(a, f, user, r))
    BY <1>1 DEF Execute, BookFacility, FacilityNotFound, SlotNotAvailable, Outcome
  <2>2. QED  BY <1>1, <2>1, BookKeeps DEF ValidRequest
<1>2. CASE r.kind = "update"
  <2> DEFINE m == RemoveTimeSlot(a, f, r.id, user)
  <2>1. n = a \/ (f \in Facilities /\ IsAvailable(a, f, r) /\ n = BookTimeSlot(m, f, user, r))
    BY <1>2 DEF Execute, UpdateBooking, FacilityNotFound, SlotNotAvailable, Outcome
  <2>2. CASE n = a
    BY <2>2
  <2>3. CASE f \in Facilities /\ IsAvailable(a, f, r) /\ n = BookTimeSlot(m, f, user, r)
    <3>1. WellKept(m) /\ IsAvailable(m, f, r)
      BY <2>3, RemoveKeeps, RemoveKeepsAvailable
    <3> HIDE DEF m
    <3>2. WellKept(BookTimeSlot(m, f, user, r))
      BY <1>2, <2>3, <3>1, BookKeeps DEF ValidRequest
    <3>3. QED  BY <2>3, <3>2
  <2>4. QED  BY <2>1, <2>2, <2>3
<1>3. CASE r.kind = "delete"
  <2>1. n = a \/ (f \in Facilities /\ n = RemoveTimeSlot(a, f, r.id, user))
    BY <1>3 DEF Execute, DeleteBooking, FacilityNotFound, Outcome
  <2>2. QED  BY <2>1, RemoveKeeps
<1>4. CASE r.kind = "rate"
  <2>1. n = AddRating(a, user, r).app
    BY <1>4 DEF Execute
  <2>2. QED  BY <1>4, <2>1, RateKeeps DEF ValidRequest
<1>5. CASE r.kind \in {"facilities", "availability", "booking", "rating"}
  <2>1. n = a
    BY <1>5 DEF Execute, ReadFacilityNames, ReadAvailability, ReadBooking, ReadRating,
                Read, FacilityNotFound, Outcome
  <2>2. QED  BY <2>1
<1>6. QED  BY <1>1, <1>2, <1>3, <1>4, <1>5 DEF ValidRequest, Kinds

\* The facility a handler leaves in lastUpdatedFacility is one there is.
LEMMA ExecuteUpdated ==
    ASSUME NEW a, NEW user, NEW r, ValidRequest(r)
    PROVE  Execute(a, user, r).updated \in Facilities \cup {NoFacility}
    BY DEF ValidRequest, Kinds, Execute, BookFacility, UpdateBooking, DeleteBooking, AddRating,
           ReadFacilityNames, ReadAvailability, ReadBooking, ReadRating, Read,
           FacilityNotFound, SlotNotAvailable, Outcome

\* What a handler takes away, and what it tells of it.
LEMMA ExecuteRemoves ==
    ASSUME NEW a, a \in AppState, NEW user \in Users, NEW r, ValidRequest(r),
           NEW f \in Facilities, NEW b \in a.bookings[f] \ Execute(a, user, r).app.bookings[f]
    PROVE  /\ r.kind \in {"update", "delete"}
           /\ r.facility = f /\ b.user = user /\ b.id = r.id
           /\ \/ r.kind = "update" /\ Execute(a, user, r).reply.body.oldBookingID = b.id
              \/ r.kind = "delete" /\ Execute(a, user, r).reply.body.bookingID = b.id
<1> DEFINE o == Execute(a, user, r)
<1>1. \A u, slot : \A g \in Facilities :
        \A x \in AppState : x.bookings[f] \subseteq BookTimeSlot(x, g, u, slot).bookings[f]
  BY DEF BookTimeSlot, AppState
<1>2. \A g, i : /\ RemoveTimeSlot(a, g, i, user) = [a EXCEPT !.bookings[g] = @ \ Named(a, g, i, user)]
                /\ RemoveTimeSlot(a, g, i, user) \in AppState
  BY DEF RemoveTimeSlot, AppState
<1>3. ASSUME NEW g \in Facilities, NEW i, b \notin RemoveTimeSlot(a, g, i, user).bookings[f]
      PROVE  g = f /\ b.user = user /\ b.id = i /\ RemovedID(a, g, i, user) = b.id
  BY <1>2, <1>3 DEF Named, RemovedID, AppState
<1>4. CASE r.kind = "book"
  <2>1. o.app = a \/ (r.facility \in Facilities /\ o.app = BookTimeSlot(a, r.facility, user, r))
    BY <1>4 DEF Execute, BookFacility, FacilityNotFound, SlotNotAvailable, Outcome
  <2>2. QED  BY <1>1, <2>1
<1>5. CASE r.kind = "update"
  <2> DEFINE m == RemoveTimeSlot(a, r.facility, r.id, user)
  <2>1. \/ o.app = a
        \/ /\ r.facility \in Facilities
           /\ o.app = BookTimeSlot(m, r.facility, user, r)
           /\ o.reply.body.oldBookingID = RemovedID(a, r.facility, r.id, user)
    BY <1>5 DEF Execute, UpdateBooking, FacilityNotFound, SlotNotAvailable, Outcome, Reply
  <2>2. m \in AppState  BY <1>2
  <2>3. QED  BY <1>1, <1>3, <1>5, <2>1, <2>2
<1>6. CASE r.kind = "delete"
  <2>1. \/ o.app = a
        \/ /\ r.facility \in Facilities
           /\ o.app = RemoveTimeSlot(a, r.facility, r.id, user)
           /\ o.reply.body.bookingID = RemovedID(a, r.facility, r.id, user)
    BY <1>6 DEF Execute, DeleteBooking, FacilityNotFound, Outcome, Reply
  <2>2. QED  BY <1>3, <1>6, <2>1
<1>7. CASE r.kind \notin {"book", "update", "delete"}
  <2>1. o.app.bookings = a.bookings
    BY <1>7 DEF ValidRequest, Kinds, Execute, AddRating, ReadFacilityNames, ReadAvailability,
                ReadBooking, ReadRating, Read, FacilityNotFound, Outcome, AppState
  <2>2. QED  BY <2>1
<1>8. QED  BY <1>4, <1>5, <1>6, <1>7

-----------------------------------------------------------------------------
(* The list of free slots *)

\* Lemma: among finitely many bookings of different ids there are a first and
\* a last one in the order in which getAvailableTimeSlots visits them.
LEMMA VisitOrder ==
    ASSUME NEW a \in Booking, NEW b \in Booking, NEW c \in Booking
    PROVE  /\ ~ VisitedBefore(a, a)
           /\ a.id # b.id => VisitedBefore(a, b) \/ VisitedBefore(b, a)
           /\ VisitedBefore(a, b) /\ VisitedBefore(b, c) => VisitedBefore(a, c)
BY DEF VisitedBefore, Booking, ClockTime, Precedes

LEMMA VisitedEnds ==
    ASSUME NEW S, IsFiniteSet(S), S \subseteq Booking, S # {},
           \A a, b \in S : a.id = b.id => a = b
    PROVE  /\ \E b \in S : \A a \in S \ {b} : VisitedBefore(a, b)
           /\ \E b \in S : \A a \in S \ {b} : VisitedBefore(b, a)
<1> DEFINE R     == StrictSubsetOrdering(S)
           After == {{a \in S : VisitedBefore(b, a)} : b \in S}
           Prior == {{a \in S : VisitedBefore(a, b)} : b \in S}
<1>1. IsWellFoundedOn(R, SUBSET S)
  BY FS_StrictSubsetOrderingWellFounded, FS_FiniteSubsetsOfFinite
<1>2. /\ After \subseteq SUBSET S /\ After # {}
      /\ Prior \subseteq SUBSET S /\ Prior # {}
  <2>1. PICK b : b \in S
    OBVIOUS
  <2>2. {a \in S : VisitedBefore(b, a)} \in After /\ {a \in S : VisitedBefore(a, b)} \in Prior
    BY <2>1
  <2>3. After \subseteq SUBSET S /\ Prior \subseteq SUBSET S
    OBVIOUS
  <2>4. QED  BY <2>2, <2>3
<1> HIDE DEF R, After, Prior
<1>3. /\ \E X \in After : \A Y \in After : ~ (<<Y, X>> \in R)
      /\ \E X \in Prior : \A Y \in Prior : ~ (<<Y, X>> \in R)
  BY <1>1, <1>2, WFMin
<1>4. ASSUME NEW X \in SUBSET S, NEW Y \in SUBSET S, X \subseteq Y, X # Y
      PROVE  <<X, Y>> \in R
  BY <1>4 DEF R, StrictSubsetOrdering
<1>5. \E b \in S : \A a \in S \ {b} : VisitedBefore(a, b)
  <2>1. PICK b \in S : \A Y \in After : ~ (<<Y, {a \in S : VisitedBefore(b, a)}>> \in R)
    BY <1>3 DEF After
  <2>2. ASSUME NEW a \in S \ {b}, ~ VisitedBefore(a, b) PROVE FALSE
    <3>1. VisitedBefore(b, a) /\ ~ VisitedBefore(a, a)
      BY <2>2, VisitOrder
    <3>2. \A c \in S : VisitedBefore(a, c) => VisitedBefore(b, c)
      BY <3>1, VisitOrder
    <3> DEFINE X == {c \in S : VisitedBefore(a, c)}
               Y == {c \in S : VisitedBefore(b, c)}
    <3>3. X \subseteq Y /\ a \in Y /\ a \notin X
      BY <3>1, <3>2
    <3>4. X \in After
      BY DEF After
    <3> HIDE DEF X
    <3>5. <<X, Y>> \in R
      BY <1>4, <3>3
    <3>6. QED  BY <2>1, <3>4, <3>5
  <2>3. QED  BY <2>2
<1>6. \E b \in S : \A a \in S \ {b} : VisitedBefore(b, a)
  <2>1. PICK b \in S : \A Y \in Prior : ~ (<<Y, {a \in S : VisitedBefore(a, b)}>> \in R)
    BY <1>3 DEF Prior
  <2>2. ASSUME NEW a \in S \ {b}, ~ VisitedBefore(b, a) PROVE FALSE
    <3>1. VisitedBefore(a, b) /\ ~ VisitedBefore(a, a)
      BY <2>2, VisitOrder
    <3>2. \A c \in S : VisitedBefore(c, a) => VisitedBefore(c, b)
      BY <3>1, VisitOrder
    <3> DEFINE X == {c \in S : VisitedBefore(c, a)}
               Y == {c \in S : VisitedBefore(c, b)}
    <3>3. X \subseteq Y /\ a \in Y /\ a \notin X
      BY <3>1, <3>2
    <3>4. X \in Prior
      BY DEF Prior
    <3> HIDE DEF X
    <3>5. <<X, Y>> \in R
      BY <1>4, <3>3
    <3>6. QED  BY <2>1, <3>4, <3>5
  <2>3. QED  BY <2>2
<1>7. QED  BY <1>5, <1>6

\* Lemma: a facility has finitely many bookings, as each has one of the ids
\* that were drawn.
LEMMA FinitelyMany ==
    ASSUME NEW a, WellKept(a), NEW f \in Facilities
    PROVE  IsFiniteSet(a.bookings[f])
<1> DEFINE g == [b \in a.bookings[f] |-> b.id]
<1>1. a.lastID \in Nat /\ a.bookings[f] \subseteq Booking
  BY DEF WellKept, AppState
<1>2. g \in [a.bookings[f] -> 1 .. a.lastID]
  BY <1>1 DEF WellKept, IDsDrawn, Booking, NoBooking
<1>3. \A b, c \in a.bookings[f] : g[b] = g[c] => b = c
  BY DEF WellKept, IDsUnique
<1>4. g \in Injection(a.bookings[f], 1 .. a.lastID)
  BY <1>2, <1>3 DEF Injection, IsInjective
<1>5. IsFiniteSet(1 .. a.lastID)
  <2>1. 1 \in Int /\ a.lastID \in Int
    BY <1>1
  <2>2. QED  BY ONLY <2>1, FS_Interval
<1>6. QED  BY <1>4, <1>5, FS_Injection

\* Lemma: where the cursor of getAvailableTimeSlots stands after the bookings
\* in S.
LEMMA CursorAfter ==
    ASSUME NEW hours, NEW S, IsFiniteSet(S), S \subseteq Booking, S # {},
           \A a, b \in S : a.id = b.id => a = b
    PROVE  \E b \in S : /\ Cursor(hours, S) = b.end
                        /\ \A a \in S \ {b} : VisitedBefore(a, b)
<1>1. \E b \in S : \A a \in S \ {b} : VisitedBefore(a, b)
  BY VisitedEnds
<1>2. LastVisited(S) \in S /\ \A a \in S \ {LastVisited(S)} : VisitedBefore(a, LastVisited(S))
  BY <1>1 DEF LastVisited
<1>3. QED  BY <1>2 DEF Cursor

\* For a day whose bookings end after they start and lie within hours, the list
\* of free slots is exact: a slot within hours is available if and only if one
\* of the listed slots contains it (isAvailable and getAvailableTimeSlots of
\* Availability.java, two walks over the same lists).
THEOREM FreeListExact ==
    ASSUME NEW a, WellKept(a), NEW f \in Facilities, NEW d \in DOMAIN Opening[f],
           \A b \in a.bookings[f] :
               b.day = d => /\ Proper(b)
                            /\ AtOrBefore(Opening[f][d].start, b.start)
                            /\ AtOrBefore(b.end, Opening[f][d].end),
           NEW s \in ClockTime, NEW e \in ClockTime, Precedes(s, e),
           AtOrBefore(Opening[f][d].start, s), AtOrBefore(e, Opening[f][d].end)
    PROVE  IsAvailable(a, f, [day |-> d, start |-> s, end |-> e])
               <=> \E g \in GetAvailableTimeSlots(a, f, d) : AtOrBefore(g.start, s) /\ AtOrBefore(e, g.end)
<1> DEFINE B         == {b \in a.bookings[f] : b.day = d}
           H         == Opening[f][d]
           Before(b) == {c \in B : VisitedBefore(c, b)}
           gap(b)    == [day |-> d, start |-> Cursor(H, Before(b)), end |-> b.start]
           tail      == [day |-> d, start |-> Cursor(H, B), end |-> H.end]
           Fits(g)   == AtOrBefore(g.start, s) /\ AtOrBefore(e, g.end)
<1>1. /\ B \subseteq Booking /\ IsFiniteSet(B)
      /\ \A b, c \in B : b.id = c.id => b = c
      /\ \A b, c \in B : b # c => ~ ConflictsWith(b, c)
  <2>1. IsFiniteSet(a.bookings[f]) /\ B \in SUBSET a.bookings[f]
    BY FinitelyMany
  <2>2. IsFiniteSet(B)
    BY <2>1, FS_Subset
  <2>3. QED  BY <2>2 DEF WellKept, AppState, IDsUnique, KeptApart
<1>2. \A b \in B : /\ b.start \in ClockTime /\ b.end \in ClockTime
                   /\ Precedes(b.start, b.end)
  BY <1>1 DEF Booking, Proper
<1>3. H.start \in ClockTime /\ H.end \in ClockTime
  BY OpeningAssumption
<1>4. \A g : g \in GetAvailableTimeSlots(a, f, d)
                 <=> Proper(g) /\ (g = tail \/ \E b \in B : g = gap(b))
  BY DEF GetAvailableTimeSlots
<1>5. IsAvailable(a, f, [day |-> d, start |-> s, end |-> e])
          <=> \A b \in B : AtOrBefore(b.end, s) \/ AtOrBefore(e, b.start)
  BY DEF IsAvailable, ConflictsWith
<1> HIDE DEF B, H
<1>6. ASSUME NEW b \in B, NEW c \in B, b # c, VisitedBefore(b, c)
      PROVE  AtOrBefore(b.end, c.start)
  <2>1. AtOrBefore(b.end, c.start) \/ AtOrBefore(c.end, b.start)
    BY <1>1, <1>6 DEF ConflictsWith
  <2>2. AtOrBefore(b.start, c.start)
    BY <1>2, <1>6 DEF VisitedBefore, ClockTime, AtOrBefore, Precedes
  <2>3. ~ AtOrBefore(c.end, b.start)
    BY <1>2, <2>2 DEF ClockTime, AtOrBefore, Precedes
  <2>4. QED  BY <2>1, <2>3
<1>7. ASSUME NEW T \in SUBSET B
      PROVE  /\ Cursor(H, T) \in ClockTime
             /\ \A c \in T : AtOrBefore(c.end, Cursor(H, T))
             /\ Cursor(H, T) = H.start \/ \E c \in T : Cursor(H, T) = c.end
  <2>1. CASE T = {}
    BY <1>3, <2>1 DEF Cursor
  <2>2. CASE T # {}
    <3>1. IsFiniteSet(T)
      BY <1>1, FS_Subset
    <3>2. PICK b \in T : /\ Cursor(H, T) = b.end
                         /\ \A c \in T \ {b} : VisitedBefore(c, b)
      BY <1>1, <2>2, <3>1, CursorAfter
    <3>3. ASSUME NEW c \in T, c # b PROVE AtOrBefore(c.end, b.end)
      <4>1. AtOrBefore(c.end, b.start)
        BY <1>6, <3>2, <3>3
      <4>2. QED  BY <1>2, <4>1 DEF ClockTime, AtOrBefore, Precedes
    <3>4. AtOrBefore(b.end, b.end)
      BY <1>2 DEF ClockTime, AtOrBefore
    <3>5. QED  BY <1>2, <3>2, <3>3, <3>4
  <2>3. QED  BY <2>1, <2>2
<1>8. \A b : Before(b) \in SUBSET B
  OBVIOUS
<1>9. ASSUME NEW g \in GetAvailableTimeSlots(a, f, d), Fits(g), NEW c \in B
      PROVE  AtOrBefore(c.end, s) \/ AtOrBefore(e, c.start)
  <2>1. CASE g = tail
    <3>1. Cursor(H, B) \in ClockTime /\ AtOrBefore(c.end, Cursor(H, B)) /\ AtOrBefore(Cursor(H, B), s)
      BY <1>7, <1>9, <2>1
    <3>2. QED  BY <1>2, <3>1, OrderTotal
  <2>2. ASSUME NEW b \in B, g = gap(b) PROVE AtOrBefore(c.end, s) \/ AtOrBefore(e, c.start)
    <3>1. AtOrBefore(Cursor(H, Before(b)), s) /\ AtOrBefore(e, b.start)
      BY <1>9, <2>2
    <3>2. CASE c = b
      BY <3>1, <3>2
    <3>3. CASE VisitedBefore(c, b)
      <4>1. AtOrBefore(c.end, Cursor(H, Before(b))) /\ Cursor(H, Before(b)) \in ClockTime
        BY <1>7, <1>8, <3>3
      <4>2. QED  BY <1>2, <3>1, <4>1, OrderTotal
    <3>4. CASE c # b /\ VisitedBefore(b, c)
      <4>1. AtOrBefore(b.end, c.start)
        BY <1>6, <3>4
      <4>2. QED  BY <1>2, <3>1, <4>1 DEF ClockTime, AtOrBefore, Precedes
    <3>5. QED  BY <1>1, <3>2, <3>3, <3>4, VisitOrder
  <2>3. QED  BY <1>4, <2>1, <2>2
<1>10. ASSUME NEW T \in SUBSET B, \A c \in T : AtOrBefore(c.end, s)
       PROVE  AtOrBefore(Cursor(H, T), s)
  BY <1>7, <1>10 DEF H
<1>11. ASSUME \A c \in B : AtOrBefore(c.end, s) \/ AtOrBefore(e, c.start)
       PROVE  \E g \in GetAvailableTimeSlots(a, f, d) : Fits(g)
  <2> DEFINE Later == {c \in B : AtOrBefore(e, c.start)}
  <2>1. CASE Later = {}
    <3>1. AtOrBefore(Cursor(H, B), s) /\ Cursor(H, B) \in ClockTime
      BY <1>7, <1>10, <1>11, <2>1
    <3>2. Fits(tail)
      BY <3>1 DEF H
    <3>3. Proper(tail)
      BY <1>3, <3>1, <3>2, OrderTotal DEF Proper
    <3>4. QED  BY <1>4, <3>2, <3>3
  <2>2. CASE Later # {}
    <3>1. IsFiniteSet(Later) /\ Later \subseteq Booking
      BY <1>1, FS_Subset
    <3> HIDE DEF Later
    <3>2. \A x, y \in Later : x.id = y.id => x = y
      BY <1>1 DEF Later
    <3>3. PICK b \in Later : \A c \in Later \ {b} : VisitedBefore(b, c)
      BY <2>2, <3>1, <3>2, VisitedEnds
    <3>4. b \in B /\ AtOrBefore(e, b.start)
      BY DEF Later
    <3>5. ASSUME NEW c \in Before(b) PROVE AtOrBefore(c.end, s)
      <4>1. c \in B /\ VisitedBefore(c, b)
        OBVIOUS
      <4>2. c \notin Later
        BY <1>1, <3>3, <3>4, <4>1, VisitOrder
      <4>3. QED  BY <1>11, <4>1, <4>2 DEF Later
    <3>6. AtOrBefore(Cursor(H, Before(b)), s) /\ Cursor(H, Before(b)) \in ClockTime
      BY <1>7, <1>8, <1>10, <3>5
    <3>7. Fits(gap(b))
      BY <3>4, <3>6
    <3>8. Proper(gap(b))
      BY <1>2, <3>4, <3>6, OrderTotal DEF Proper
    <3>9. QED  BY <1>4, <3>4, <3>7, <3>8
  <2>3. QED  BY <2>1, <2>2
<1>12. QED  BY <1>5, <1>9, <1>11

\* Lemma: a handler that changes the bookings of a facility names it as the
\* facility that was updated.
LEMMA ExecuteAnnounces ==
    ASSUME NEW a \in AppState, NEW user, NEW r, ValidRequest(r), NEW f \in Facilities,
           Execute(a, user, r).app.bookings[f] # a.bookings[f]
    PROVE  Execute(a, user, r).updated = f
<1> DEFINE o == Execute(a, user, r)
<1>1. \A x \in AppState : \A g \in Facilities : \A slot :
          f # g => BookTimeSlot(x, g, user, slot).bookings[f] = x.bookings[f]
  BY DEF BookTimeSlot, AppState
<1>2. \A g \in Facilities : \A i :
          /\ RemoveTimeSlot(a, g, i, user) \in AppState
          /\ f # g => RemoveTimeSlot(a, g, i, user).bookings[f] = a.bookings[f]
  BY DEF RemoveTimeSlot, AppState
<1>3. CASE r.kind = "book"
  <2>1. \/ o.app = a
        \/ /\ r.facility \in Facilities
           /\ o.app = BookTimeSlot(a, r.facility, user, r)
           /\ o.updated = r.facility
    BY <1>3 DEF Execute, BookFacility, FacilityNotFound, SlotNotAvailable, Outcome
  <2>2. QED  BY <1>1, <2>1
<1>4. CASE r.kind = "update"
  <2> DEFINE m == RemoveTimeSlot(a, r.facility, r.id, user)
  <2>1. \/ o.app = a
        \/ /\ r.facility \in Facilities
           /\ o.app = BookTimeSlot(m, r.facility, user, r)
           /\ o.updated = r.facility
    BY <1>4 DEF Execute, UpdateBooking, FacilityNotFound, SlotNotAvailable, Outcome
  <2> HIDE DEF m
  <2>2. r.facility \in Facilities =>
            m \in AppState /\ (f # r.facility => m.bookings[f] = a.bookings[f])
    BY <1>2 DEF m
  <2>3. QED  BY <1>1, <2>1, <2>2
<1>5. CASE r.kind = "delete"
  <2>1. \/ o.app = a
        \/ /\ r.facility \in Facilities
           /\ o.app = RemoveTimeSlot(a, r.facility, r.id, user)
           /\ o.updated = r.facility
    BY <1>5 DEF Execute, DeleteBooking, FacilityNotFound, Outcome
  <2>2. QED  BY <1>2, <2>1
<1>6. CASE r.kind \notin {"book", "update", "delete"}
  <2>1. o.app.bookings = a.bookings
    BY <1>6 DEF ValidRequest, Kinds, Execute, AddRating, ReadFacilityNames, ReadAvailability,
                ReadBooking, ReadRating, Read, FacilityNotFound, Outcome, AppState
  <2>2. QED  BY <2>1
<1>7. QED  BY <1>3, <1>4, <1>5, <1>6

-----------------------------------------------------------------------------
(* Least and greatest elements *)

\* Lemma: the intervals from 0 are ordered as their ends are.
LEMMA LeastNatural ==
    ASSUME NEW T, T \subseteq Nat, T # {}
    PROVE  \E n \in T : \A m \in T : n <= m
<1> DEFINE Starts == {0 .. n : n \in T}
           R      == StrictSubsetOrdering(Nat)
           S      == FiniteSubsetsOf(Nat)
<1>1. Starts \subseteq S
  <2>1. \A n \in T : 0 .. n \subseteq Nat /\ IsFiniteSet(0 .. n)
    BY FS_Interval
  <2>2. QED  BY <2>1 DEF FiniteSubsetsOf
<1>2. Starts # {}
  OBVIOUS
<1>3. IsWellFoundedOn(R, S)
  BY FS_StrictSubsetOrderingWellFounded
<1> HIDE DEF Starts, R, S
<1>4. \E X \in Starts : \A Y \in Starts : ~ (<<Y, X>> \in R)
  BY <1>1, <1>2, <1>3, WFMin
<1>5. PICK n \in T : \A m \in T : ~ (<<0 .. m, 0 .. n>> \in R)
  BY <1>4 DEF Starts
<1>6. ASSUME NEW m \in T, m < n PROVE FALSE
  <2>1. 0 .. m \subseteq 0 .. n /\ n \in 0 .. n /\ n \notin 0 .. m
    BY <1>6
  <2>2. <<0 .. m, 0 .. n>> \in R
    BY <2>1 DEF R, StrictSubsetOrdering
  <2>3. QED  BY <1>5, <2>2
<1>7. QED  BY <1>5, <1>6

\* Lemma: a set of indices has a greatest one.
LEMMA GreatestIndex ==
    ASSUME NEW n \in Nat, NEW I, I \subseteq 1 .. n, I # {}
    PROVE  \E i \in I : \A j \in I : i >= j
<1> DEFINE T == {n - i : i \in I}
<1>1. T \subseteq Nat /\ T # {}
  OBVIOUS
<1> HIDE DEF T
<1>2. PICK t \in T : \A m \in T : t <= m
  BY <1>1, LeastNatural
<1>3. PICK i \in I : t = n - i
  BY DEF T
<1>4. ASSUME NEW j \in I PROVE i >= j
  <2>1. n - i <= n - j
    BY <1>2, <1>3 DEF T
  <2>2. i \in Int /\ j \in Int
    OBVIOUS
  <2>3. QED  BY <2>1, <2>2
<1>5. QED  BY <1>4

-----------------------------------------------------------------------------
(* What the outcome of a handler says of the bookings *)

\* Lemma: a handler adds at most one booking, the one that was asked for, with
\* the next id.
LEMMA ExecuteAdds ==
    ASSUME NEW a \in AppState, NEW user \in Users, NEW r, ValidRequest(r),
           NEW f \in Facilities, NEW b \in Execute(a, user, r).app.bookings[f] \ a.bookings[f]
    PROVE  /\ r.kind \in {"book", "update"}
           /\ r.facility = f
           /\ b = [id |-> a.lastID + 1, user |-> user, day |-> r.day, start |-> r.start, end |-> r.end]
           /\ Execute(a, user, r).app.lastID = a.lastID + 1
<1> DEFINE o == Execute(a, user, r)
<1>1. ASSUME NEW x \in AppState, NEW g \in Facilities, NEW slot,
             x.lastID = a.lastID, x.bookings[f] \subseteq a.bookings[f],
             b \in BookTimeSlot(x, g, user, slot).bookings[f]
      PROVE  /\ g = f
             /\ b = [id |-> a.lastID + 1, user |-> user, day |-> slot.day, start |-> slot.start, end |-> slot.end]
             /\ BookTimeSlot(x, g, user, slot).lastID = a.lastID + 1
  BY <1>1 DEF BookTimeSlot, AppState
<1>2. \A g \in Facilities : \A i :
          /\ RemoveTimeSlot(a, g, i, user) \in AppState
          /\ RemoveTimeSlot(a, g, i, user).lastID = a.lastID
          /\ RemoveTimeSlot(a, g, i, user).bookings[f] \subseteq a.bookings[f]
  BY DEF RemoveTimeSlot, AppState
<1>3. CASE r.kind = "book"
  <2>1. o.app = a \/ (r.facility \in Facilities /\ o.app = BookTimeSlot(a, r.facility, user, r))
    BY <1>3 DEF Execute, BookFacility, FacilityNotFound, SlotNotAvailable, Outcome
  <2>2. QED  BY <1>1, <1>3, <2>1
<1>4. CASE r.kind = "update"
  <2> DEFINE m == RemoveTimeSlot(a, r.facility, r.id, user)
  <2>1. o.app = a \/ (r.facility \in Facilities /\ o.app = BookTimeSlot(m, r.facility, user, r))
    BY <1>4 DEF Execute, UpdateBooking, FacilityNotFound, SlotNotAvailable, Outcome
  <2> HIDE DEF m
  <2>2. r.facility \in Facilities =>
            m \in AppState /\ m.lastID = a.lastID /\ m.bookings[f] \subseteq a.bookings[f]
    BY <1>2 DEF m
  <2>3. QED  BY <1>1, <1>4, <2>1, <2>2
<1>5. CASE r.kind = "delete"
  <2>1. o.app = a \/ (r.facility \in Facilities /\ o.app = RemoveTimeSlot(a, r.facility, r.id, user))
    BY <1>5 DEF Execute, DeleteBooking, FacilityNotFound, Outcome
  <2>2. QED  BY <1>2, <2>1
<1>6. CASE r.kind \notin {"book", "update", "delete"}
  <2>1. o.app.bookings = a.bookings
    BY <1>6 DEF ValidRequest, Kinds, Execute, AddRating, ReadFacilityNames, ReadAvailability,
                ReadBooking, ReadRating, Read, FacilityNotFound, Outcome, AppState
  <2>2. QED  BY <2>1
<1>7. QED  BY <1>3, <1>4, <1>5, <1>6

\* Lemma: ids are drawn in ascending order.
LEMMA ExecuteDraws ==
    ASSUME NEW a \in AppState, NEW user, NEW r, ValidRequest(r)
    PROVE  Execute(a, user, r).app.lastID \in {a.lastID, a.lastID + 1}
<1> DEFINE o == Execute(a, user, r)
<1>1. \A x \in AppState : \A g, slot : BookTimeSlot(x, g, user, slot).lastID = x.lastID + 1
  BY DEF BookTimeSlot, AppState
<1>2. \A g, i : RemoveTimeSlot(a, g, i, user).lastID = a.lastID /\ RemoveTimeSlot(a, g, i, user) \in AppState
  BY DEF RemoveTimeSlot, AppState
<1>3. CASE r.kind = "book"
  <2>1. o.app = a \/ o.app = BookTimeSlot(a, r.facility, user, r)
    BY <1>3 DEF Execute, BookFacility, FacilityNotFound, SlotNotAvailable, Outcome
  <2>2. QED  BY <1>1, <2>1
<1>4. CASE r.kind = "update"
  <2>1. o.app = a \/ o.app = BookTimeSlot(RemoveTimeSlot(a, r.facility, r.id, user), r.facility, user, r)
    BY <1>4 DEF Execute, UpdateBooking, FacilityNotFound, SlotNotAvailable, Outcome
  <2>2. QED  BY <1>1, <1>2, <2>1
<1>5. CASE r.kind = "delete"
  <2>1. o.app = a \/ o.app = RemoveTimeSlot(a, r.facility, r.id, user)
    BY <1>5 DEF Execute, DeleteBooking, FacilityNotFound, Outcome
  <2>2. QED  BY <1>2, <2>1
<1>6. CASE r.kind \notin {"book", "update", "delete"}
  BY <1>6 DEF ValidRequest, Kinds, Execute, AddRating, ReadFacilityNames, ReadAvailability,
              ReadBooking, ReadRating, Read, FacilityNotFound, Outcome, AppState
<1>7. QED  BY <1>3, <1>4, <1>5, <1>6

\* Lemma: a handler that confirms a new booking has made it.
LEMMA ConfirmedIsBooked ==
    ASSUME NEW a \in AppState, NEW user, NEW r, r.kind \in {"book", "update"},
           Execute(a, user, r).reply.status # "ERROR"
    PROVE  LET o == Execute(a, user, r)
           IN  /\ r.facility \in Facilities
               /\ [id |-> a.lastID + 1, user |-> user, day |-> r.day, start |-> r.start, end |-> r.end]
                      \in o.app.bookings[r.facility]
               /\ r.kind = "book" => o.reply.body.bookingID = a.lastID + 1
               /\ r.kind = "update" => o.reply.body.newBookingID = a.lastID + 1
<1> DEFINE o == Execute(a, user, r)
           f == r.facility
<1>1. \A x \in AppState : \A g \in Facilities : \A slot :
          /\ BookTimeSlot(x, g, user, slot).lastID = x.lastID + 1
          /\ [id |-> x.lastID + 1, user |-> user, day |-> slot.day, start |-> slot.start, end |-> slot.end]
                 \in BookTimeSlot(x, g, user, slot).bookings[g]
  BY DEF BookTimeSlot, AppState
<1>2. \A g, i : RemoveTimeSlot(a, g, i, user).lastID = a.lastID /\ RemoveTimeSlot(a, g, i, user) \in AppState
  BY DEF RemoveTimeSlot, AppState
<1>3. CASE r.kind = "book"
  <2>1. /\ f \in Facilities
        /\ o.app = BookTimeSlot(a, f, user, r)
        /\ o.reply.body.bookingID = o.app.lastID
    BY <1>3 DEF Execute, BookFacility, FacilityNotFound, SlotNotAvailable, Outcome, Reply, Error
  <2>2. QED  BY <1>1, <1>3, <2>1
<1>4. CASE r.kind = "update"
  <2>1. /\ f \in Facilities
        /\ o.app = BookTimeSlot(RemoveTimeSlot(a, f, r.id, user), f, user, r)
        /\ o.reply.body.newBookingID = o.app.lastID
    BY <1>4 DEF Execute, UpdateBooking, FacilityNotFound, SlotNotAvailable, Outcome, Reply, Error
  <2>2. QED  BY <1>1, <1>2, <1>4, <2>1
<1>5. QED  BY <1>3, <1>4

\* Lemma: the booking that a query returns stands.
LEMMA ReadStands ==
    ASSUME NEW a, NEW user, NEW r, r.kind = "booking",
           Execute(a, user, r).reply.status # "ERROR"
    PROVE  LET body == Execute(a, user, r).reply.body
           IN  /\ Execute(a, user, r).app = a
               /\ body.facility \in Facilities
               /\ body.booking \in a.bookings[body.facility]
               /\ body.booking.id = r.id
<1> DEFINE holders == {f \in Facilities : \E b \in a.bookings[f] : b.id = r.id}
           f == CHOOSE f \in holders : TRUE
           b == CHOOSE b \in a.bookings[f] : b.id = r.id
<1>1. Execute(a, user, r) = ReadBooking(a, r)
  BY DEF Execute
<1>2. holders # {}
  <2>1. SUFFICES ASSUME holders = {} PROVE FALSE
    OBVIOUS
  <2>2. ReadBooking(a, r) = Read(a, Error("READ", "Booking not found"))
    BY <2>1 DEF ReadBooking
  <2>3. ReadBooking(a, r).reply.status = "ERROR"
    <3>1. \A x : Read(a, Error("READ", x)).reply.status = "ERROR"
      BY DEF Read, Outcome, Error, Reply
    <3>2. QED  BY ONLY <2>2, <3>1
  <2>4. QED  BY <1>1, <2>3
<1>3. /\ ReadBooking(a, r).app = a
      /\ ReadBooking(a, r).reply.body = [facility |-> f, booking |-> b]
  BY <1>2 DEF ReadBooking, Read, Outcome, Reply
<1>4. f \in Facilities /\ \E c \in a.bookings[f] : c.id = r.id
  BY <1>2
<1> HIDE DEF f
<1>5. b \in a.bookings[f] /\ b.id = r.id
  BY <1>4
<1> HIDE DEF b, holders
<1>6. QED  BY <1>1, <1>3, <1>4, <1>5

\* Lemma: no booking has the id of one that a deletion confirms.
LEMMA DeletedIsGone ==
    ASSUME NEW a, WellKept(a), NEW user, NEW r, r.kind = "delete",
           Execute(a, user, r).reply.status # "ERROR"
    PROVE  LET o == Execute(a, user, r)
           IN  /\ o.reply.body.bookingID \in 0 .. a.lastID
               /\ o.app.lastID = a.lastID
               /\ \A f \in Facilities : \A b \in o.app.bookings[f] : b.id # o.reply.body.bookingID
<1> DEFINE o == Execute(a, user, r)
           g == r.facility
           S == Named(a, g, r.id, user)
<1>1. /\ g \in Facilities
      /\ o.app = RemoveTimeSlot(a, g, r.id, user)
      /\ o.reply.body.bookingID = RemovedID(a, g, r.id, user)
  BY DEF Execute, DeleteBooking, FacilityNotFound, Outcome, Error, Reply
<1>2. a \in AppState /\ a.lastID \in Nat /\ \A f \in Facilities : a.bookings[f] \subseteq Booking
  BY DEF WellKept, AppState
<1>3. /\ o.app.lastID = a.lastID
      /\ o.app.bookings[g] = a.bookings[g] \ S
      /\ \A f \in Facilities : o.app.bookings[f] \subseteq a.bookings[f]
  BY <1>1, <1>2 DEF RemoveTimeSlot, AppState
<1>4. CASE S = {}
  <2>1. o.reply.body.bookingID = 0
    BY <1>1, <1>4 DEF RemovedID, NoBooking
  <2>2. \A f \in Facilities : \A b \in a.bookings[f] : b.id # 0
    BY <1>2 DEF Booking, NoBooking
  <2>3. QED  BY <1>2, <1>3, <2>1, <2>2
<1>5. CASE S # {}
  <2>1. o.reply.body.bookingID = r.id
    BY <1>1, <1>5 DEF RemovedID
  <2>2. PICK b \in a.bookings[g] : b.id = r.id /\ b.user = user /\ b \in S
    BY <1>5 DEF Named
  <2>3. b.id \in Nat /\ b.id <= a.lastID
    BY <1>1, <1>2, <2>2 DEF WellKept, IDsDrawn, Booking
  <2>4. ASSUME NEW f \in Facilities, NEW c \in o.app.bookings[f], c.id = r.id PROVE FALSE
    <3>1. c \in a.bookings[f]
      BY <1>3, <2>4
    <3>2. f = g /\ c = b
      BY <1>1, <2>2, <2>4, <3>1 DEF WellKept, IDsUnique
    <3>3. QED  BY <1>3, <2>2, <2>4, <3>2
  <2>5. QED  BY <1>2, <1>3, <2>1, <2>2, <2>3, <2>4
<1>6. QED  BY <1>4, <1>5
=============================================================================
