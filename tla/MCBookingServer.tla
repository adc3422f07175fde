--------------------------- MODULE MCBookingServer ---------------------------
(* Small instances of the booking server for TLC. *)
EXTENDS BookingServer, TLC

CONSTANTS alice, bob

MCUsers == {alice, bob}

\* The facilities of Server.init, reduced to an open and a closed day each.
MCOpening ==
    [f \in Facilities |->
        IF f = "Weekday1" THEN [MONDAY |-> [start |-> At(8, 30), end |-> At(10, 45)]]
        ELSE [SATURDAY |-> [start |-> At(9, 15), end |-> At(10, 45)]]]

\* Ends of slots within the hours of a facility.
Morning == {At(8, 30), At(9, 15), At(10, 0), At(10, 45)}
TwoTimes == {At(9, 15), At(10, 0)}

\* Neither the guards nor the effects of a step read what the last one
\* answered, so states that differ in that alone need not be told apart.
View == app

Symmetry == Permutations(MCUsers)
=============================================================================
