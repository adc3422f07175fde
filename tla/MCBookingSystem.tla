--------------------------- MODULE MCBookingSystem ---------------------------
(* A small instance of the whole system for TLC. *)
EXTENDS BookingSystem

MCOpening == [f \in Facilities |-> [MONDAY |-> [start |-> At(8, 0), end |-> At(17, 0)]]]

\* What users type: a facility and a name with a comma, two times, the id of
\* alice's booking and of what it is moved to, and offsets across midnight.
MCAnswers ==
    [u \in Users |->
        [facilityName |-> {<<Word("Weekday1")>>, <<Word("Weekday1"), Word("x")>>},
         daysOfWeek   |-> {<<"MONDAY", "TUESDAY">>},
         dayOfWeek    |-> {"MONDAY"},
         time         |-> {<<0, 9, 3, 0>>, <<1, 0, 1, 5>>},
         bookingID    |-> IF u = "alice" THEN {1, 2} ELSE {1},
         offset       |-> IF u = "alice" THEN {-570} ELSE {30},
         rating       |-> {4}]]

\* alice moves and deletes; bob books, rates, queries, and tries to move what is hers.
MCHandlers == [u \in Users |-> IF u = "alice" THEN {5, 6} ELSE {2, 3, 5, 8, 9}]

\* A booking of alice is there.
MCStartApp ==
    [InitialApp EXCEPT
        !.bookings = [f \in Facilities |-> {[id |-> 1, user |-> "alice", day |-> "MONDAY",
                                            start |-> At(9, 30), end |-> At(10, 15)]}],
        !.lastID = 1]

MCMaxCalls == [u \in Users |-> IF u = "alice" THEN 4 ELSE 2]
=============================================================================
