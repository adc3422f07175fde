-------------------------------- MODULE Texts --------------------------------
(***************************************************************************)
(* The texts the two programs exchange, and what each reads in the other's. *)
(* The client's requests (Client.cpp) are fields with commas between them; *)
(* the server splits at the commas and takes fields by position            *)
(* (Server.handleRequest, Parser.java).  Its replies are labelled lines;   *)
(* the client takes lines by label (ResponseParser.cpp and the extract     *)
(* functions of Client.cpp).                                               *)
(*                                                                         *)
(* A field is a word, a number or a booking id.  A facility name is what a *)
(* user typed: a sequence of fields, as it may hold commas.  A time in a   *)
(* reply is a sequence of characters: digits, and Minus.                   *)
(***************************************************************************)
EXTENDS FacilityOps, SequencesExt

Word(w)   == <<"word", w>>
Number(n) == <<"number", n>>
ID(i)     == <<"id", i>>

Field == ({"word"} \X STRING) \cup ({"number"} \X Int) \cup ({"id"} \X Nat)

-----------------------------------------------------------------------------
\* Times: %02d%02d, and substr with stoi

Minus == 10

Digits[n \in Nat] == IF n < 10 THEN <<n>> ELSE Append(Digits[n \div 10], n % 10)

\* %02d, two characters where they are enough.
Padded(n) ==
    IF n \in 0 .. 99 THEN <<n \div 10, n % 10>>
    ELSE IF n \in -9 .. -1 THEN <<Minus, -n>>
    ELSE IF n < 0 THEN <<Minus>> \o Digits[-n]
    ELSE Digits[n]

TimeText(t) == Padded(t.hour) \o Padded(t.minute)

\* stoi of two characters: it stops at what is no digit.
ReadInt(a, b) == IF a = Minus THEN -b ELSE IF b = Minus THEN a ELSE 10 * a + b

\* substr(0, 2) and substr(2, 2); there may be more characters.
ReadTime(s) == At(ReadInt(s[1], s[2]), ReadInt(s[3], s[4]))

-----------------------------------------------------------------------------
\* Lines by label

Missing == ""

Line(response, label) == IF label \in DOMAIN response.lines THEN response.lines[label] ELSE Missing

ExtractFacilityName(details) == Line(details, "facility")

ExtractDayOfWeek(details) == Line(details, "day")

ExtractStartTime(details) == Line(details, "startTime")

ExtractEndTime(details) == Line(details, "endTime")

-----------------------------------------------------------------------------
\* The client's requests

RequestMessage(op, fields) == [op |-> op, fields |-> fields]

TimeFields(s, e) == <<Number(s.hour), Number(s.minute), Number(e.hour), Number(e.minute)>>

QueryFacilityNames == RequestMessage("READ", <<Word("facility"), Word("ALL")>>)

QueryAvailability(name, days) ==
    RequestMessage("READ", <<Word("facility")>> \o name \o [i \in DOMAIN days |-> Word(days[i])])

BookFacilityRequest(name, day, s, e) ==
    RequestMessage("WRITE", name \o <<Word(day)>> \o TimeFields(ReadTime(s), ReadTime(e)))

QueryBooking(id) == RequestMessage("READ", <<Word("booking"), ID(id)>>)

\* Faulty variant of UpdateBookingRequest: only the end is moved.
UpdateEndOnly(id, offset, details) ==
    RequestMessage("UPDATE",
        <<Word("booking"), ID(id), Word(ExtractFacilityName(details)), Word(ExtractDayOfWeek(details))>>
            \o TimeFields(ReadTime(ExtractStartTime(details)),
                          Shift(ReadTime(ExtractEndTime(details)), offset)))

\* The place and the times come from the text of the old booking.
UpdateBookingRequest(id, offset, details) ==
    RequestMessage("UPDATE",
        <<Word("booking"), ID(id), Word(ExtractFacilityName(details)), Word(ExtractDayOfWeek(details))>>
            \o TimeFields(Shift(ReadTime(ExtractStartTime(details)), offset),
                          Shift(ReadTime(ExtractEndTime(details)), offset)))

DeleteBookingRequest(id, details) ==
    RequestMessage("DELETE", <<ID(id), Word(ExtractFacilityName(details))>>)

RateFacility(name, rating) == RequestMessage("UPDATE", <<Word("rating")>> \o name \o <<Number(rating)>>)

QueryRating(name) == RequestMessage("READ", <<Word("rating")>> \o name)

-----------------------------------------------------------------------------
\* What the server makes of a request: a request of FacilityOps, an error
\* reply, or an exception that nothing catches.

Parsed(r)      == [as |-> "request", request |-> r]
Refused(m)     == [as |-> "error", message |-> m]
Fatal          == [as |-> "fatal"]

\* String.split leaves out empty fields at the end.
Split(fields) == SubSeq(fields, 1, SelectLastInSeq(fields, LAMBDA x : x # Word("")))

\* Fields that Integer.parseInt takes.
AreNumbers(F, I) == \A i \in I : i <= Len(F) /\ F[i][1] = "number" /\ F[i][2] \in Int

IsDay(x) == x[1] = "word" /\ x[2] \in Days

\* A field where an id is expected; a word is the id of no booking.
AsID(x) == IF x[1] = "id" THEN x[2] ELSE NoBooking

\* A field where a facility is expected.
AsName(x) == IF x[1] = "word" THEN x[2] ELSE ""

\* Two fields where a time is expected.
AsTime(F, i) == At(F[i][2], F[i + 1][2])

\* Without any field the first one is beyond the array.
ParseRead(F) ==
    IF F = <<>> THEN Fatal
    ELSE IF Len(F) = 1 THEN Refused("Invalid request format")
    ELSE CASE F[1] = Word("facility") ->
                  IF F[2] = Word("ALL") THEN Parsed([kind |-> "facilities"])
                  ELSE IF \A i \in 3 .. Len(F) : IsDay(F[i])
                  THEN Parsed([kind |-> "availability", facility |-> AsName(F[2]),
                               days |-> {F[i][2] : i \in 3 .. Len(F)}])
                  ELSE Fatal
           [] F[1] = Word("booking") -> Parsed([kind |-> "booking", id |-> AsID(F[2])])
           [] F[1] = Word("rating")  -> Parsed([kind |-> "rating", facility |-> AsName(F[2])])
           [] OTHER                  -> Refused("Invalid request format")

\* Faulty variant of ParseWrite: its exceptions are not caught.
ParseWriteUncaught(F) ==
    IF Len(F) >= 2 /\ IsDay(F[2]) /\ AreNumbers(F, 3 .. 6)
    THEN Parsed([kind |-> "book", facility |-> AsName(F[1]), day |-> F[2][2],
                 start |-> AsTime(F, 3), end |-> AsTime(F, 5)])
    ELSE Fatal

ParseWrite(F) ==
    IF Len(F) >= 2 /\ IsDay(F[2]) /\ AreNumbers(F, 3 .. 6)
    THEN Parsed([kind |-> "book", facility |-> AsName(F[1]), day |-> F[2][2],
                 start |-> AsTime(F, 3), end |-> AsTime(F, 5)])
    ELSE Refused("exception")

ParseUpdate(F) ==
    IF F = <<>> THEN Refused("exception")
    ELSE CASE F[1] = Word("booking") ->
                  IF Len(F) = 8 /\ IsDay(F[4]) /\ AreNumbers(F, 5 .. 8)
                  THEN Parsed([kind |-> "update", id |-> AsID(F[2]), facility |-> AsName(F[3]), day |-> F[4][2],
                               start |-> AsTime(F, 5), end |-> AsTime(F, 7)])
                  ELSE Refused("exception")
           [] F[1] = Word("rating") ->
                  IF AreNumbers(F, {3})
                  THEN Parsed([kind |-> "rate", facility |-> AsName(F[2]), rating |-> F[3][2]])
                  ELSE Refused("exception")
           [] OTHER -> Refused("Invalid update type")

ParseDelete(F) ==
    IF Len(F) >= 2 THEN Parsed([kind |-> "delete", id |-> AsID(F[1]), facility |-> AsName(F[2])])
    ELSE Refused("exception")

\* The switch over the operation; MONITOR is module Monitoring's.
ParseRequest(m) ==
    LET F == Split(m.fields)
    IN  CASE m.op = "READ"   -> ParseRead(F)
          [] m.op = "WRITE"  -> ParseWrite(F)
          [] m.op = "UPDATE" -> ParseUpdate(F)
          [] m.op = "DELETE" -> ParseDelete(F)
          [] OTHER           -> Refused("Unknown operation")

-----------------------------------------------------------------------------
\* The server's replies

Response(status, lines) == [status |-> status, lines |-> lines]

SlotLines(user, facility, slot) ==
    [user |-> user, facility |-> facility, day |-> slot.day,
     startTime |-> TimeText(slot.start), endTime |-> TimeText(slot.end)]

\* lines, and one more.
Labelled(label, x, lines) ==
    [l \in {label} \cup DOMAIN lines |-> IF l = label THEN x ELSE lines[l]]

ResponseLines(user, r, body) ==
    CASE r.kind = "book"         -> Labelled("bookingID", body.bookingID, SlotLines(user, r.facility, r))
      [] r.kind = "update"       -> Labelled("oldBookingID", body.oldBookingID,
             Labelled("newBookingID", body.newBookingID, SlotLines(user, r.facility, r)))
      [] r.kind = "delete"       -> [bookingID |-> body.bookingID, user |-> user]
      [] r.kind = "rate"         -> [rating |-> body.rating, user |-> user, facility |-> r.facility]
      [] r.kind = "facilities"   -> [facilityNames |-> body.facilityNames]
      [] r.kind = "availability" -> [facility |-> r.facility, availableTimeslots |->
             {[day |-> s.day, start |-> TimeText(s.start), end |-> TimeText(s.end)] : s \in body.timeslots}]
      [] r.kind = "booking"      -> Labelled("bookingID", body.booking.id,
             SlotLines(body.booking.user, body.facility, body.booking))
      [] r.kind = "rating"       -> [rating |-> body.rating, facility |-> r.facility]

ErrorText(message) == Response("ERROR", [message |-> message])

ResponseText(user, r, reply) ==
    IF reply.status = "ERROR" THEN ErrorText(reply.body.message)
    ELSE Response("SUCCESS", ResponseLines(user, r, reply.body))

\* handleRequest on a request as it arrives.
HandleMessage(app, user, m) ==
    LET p == ParseRequest(m)
    IN  IF p.as = "error" THEN [app |-> app, reply |-> ErrorText(p.message)]
        ELSE LET o == Execute(app, user, p.request)
             IN  [app |-> o.app, reply |-> ResponseText(user, p.request, o.reply)]

-----------------------------------------------------------------------------
\* What the client shows

IsErrorResponse(response) == response.status = "ERROR"

\* The scheme of the parse functions: the error message, or the lines with
\* the labels they know.
Box(title, response, labels) ==
    IF IsErrorResponse(response) THEN [title |-> "Error", rows |-> [message |-> Line(response, "message")]]
    ELSE [title |-> title, rows |-> [l \in labels |-> Line(response, l)]]

ParseQueryFacilityNamesResponse(response) == Box("Facility Names", response, {"facilityNames"})

\* A requested day without time slots is shown as closed, here as no slots; so
\* is every day when the reply is not about availability.
ParseQueryAvailabilityResponse(response, days) ==
    LET slots == IF "availableTimeslots" \in DOMAIN response.lines THEN response.lines.availableTimeslots ELSE {}
    IN  IF IsErrorResponse(response) THEN Box("Error", response, {})
        ELSE [title |-> "Facility Availability",
              rows  |-> [facility |-> Line(response, "facility"),
                         days |-> [d \in ToSet(days) |-> {s \in slots : s.day = d}]]]

BookingLabels == {"user", "facility", "day", "startTime", "endTime"}

ParseQueryBookingResponse(response) == Box("Booking Details", response, {"bookingID"} \cup BookingLabels)

ParseBookFacilityResponse(response) == ParseQueryBookingResponse(response)

ParseUpdateBookingResponse(response) == Box("New Booking Details", response, {"newBookingID"} \cup BookingLabels)

ParseDeleteBookingResponse(response) == Box("Booking Deleted", response, {"bookingID", "user"})

ParseRateFacilityResponse(response) == Box("Rating Added", response, {"user", "facility", "rating"})

ParseQueryRatingResponse(response) == Box("Facility Rating", response, {"facility", "rating"})
=============================================================================
