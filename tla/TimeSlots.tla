------------------------------ MODULE TimeSlots ------------------------------
(***************************************************************************)
(* Clock times and time slots of the booking server: the comparisons of    *)
(* models/TimeSlot.java and models/Availability.java, and the arithmetic   *)
(* by which the client moves a booking (Client::updateBooking).            *)
(*                                                                         *)
(* The server never normalises a time: hours and minutes are the two       *)
(* integers a client sent, and every comparison is lexicographic on them.  *)
(***************************************************************************)
EXTENDS Integers

\* A clock time, as the pair of ints the server stores.
ClockTime == [hour : Int, minute : Int]

\* The pairs a HHMM prompt can produce.
WallClock == [hour : 0 .. 23, minute : 0 .. 59]

At(h, m) == [hour |-> h, minute |-> m]

AtOrBefore(t, u) == t.hour < u.hour \/ (t.hour = u.hour /\ t.minute <= u.minute)

Precedes(t, u) == t.hour < u.hour \/ (t.hour = u.hour /\ t.minute < u.minute)

\* A slot is anything with a start and an end; a booking is one.
ConflictsWith(x, y) ==
    /\ ~ AtOrBefore(x.end, y.start)
    /\ ~ AtOrBefore(y.end, x.start)

\* The instants a slot stands for: its start is in it, its end is not.
Covers(x, t) == AtOrBefore(x.start, t) /\ Precedes(t, x.end)

\* A slot in which at least one instant lies.
Proper(x) == Precedes(x.start, x.end)

-----------------------------------------------------------------------------
\* Division of C++ ints rounds toward zero, and % takes the dividend's sign.
TruncDiv(n, d) == IF n >= 0 THEN n \div d ELSE -((-n) \div d)

TruncMod(n, d) == IF n >= 0 THEN n % d ELSE -((-n) % d)

Minutes(t) == 60 * t.hour + t.minute

FromMinutes(n) == At(TruncDiv(n, 60), TruncMod(n, 60))

\* Client::updateBooking moves both ends of a booking by the same offset.
Shift(t, offset) == FromMinutes(Minutes(t) + offset)
=============================================================================
