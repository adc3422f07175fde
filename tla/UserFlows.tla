------------------------------ MODULE UserFlows ------------------------------
(***************************************************************************)
(* The handlers of the client's menu (UserInterface.cpp): what each asks   *)
(* the user and which calls it makes, in order.  A handler is left for the *)
(* menu after its last step, and before it when a call is answered with an *)
(* error or a confirmation is refused (isErrorResponse, promptConfirmation). *)
(***************************************************************************)
EXTENDS Integers, Sequences

Ask(prompt) == [do |-> "ask", what |-> prompt]
Call(kind)  == [do |-> "call", what |-> kind]
Exit        == [do |-> "exit", what |-> "exit"]

\* What main asks before there is a client, and the menu.
Launch == <<Ask("serverIP"), Ask("serverPort"), Call("connect")>>

DisplayMenu == <<Ask("choice")>>

HandleQueryFacilityNames == <<Call("facilities")>>

HandleQueryAvailability ==
    <<Call("facilities"), Ask("facilityName"), Ask("daysOfWeek"), Call("availability")>>

HandleBookFacility ==
    <<Call("facilities"), Ask("facilityName"), Ask("dayOfWeek"), Ask("time"), Ask("time"), Call("book")>>

HandleQueryBooking == <<Ask("bookingID"), Call("booking")>>

HandleUpdateBooking ==
    <<Ask("bookingID"), Call("booking"), Ask("confirmation"), Ask("offset"), Call("update")>>

HandleDeleteBooking == <<Ask("bookingID"), Call("booking"), Ask("confirmation"), Call("delete")>>

HandleMonitorAvailability ==
    <<Call("facilities"), Ask("facilityName"), Ask("duration"), Call("monitor")>>

\* Faulty variant of HandleRateFacility: the name is asked for last.
RateNameLast == <<Call("facilities"), Ask("rating"), Ask("facilityName"), Call("rate")>>

HandleRateFacility == <<Call("facilities"), Ask("facilityName"), Ask("rating"), Call("rate")>>

HandleQueryRating == <<Call("facilities"), Ask("facilityName"), Call("rating")>>

HandleEchoMessage == <<Ask("message"), Ask("confirmation"), Call("echo")>>

HandleExit == <<Ask("confirmation"), Exit>>

-----------------------------------------------------------------------------
Menu  == 0
Items == 1 .. 11
Start == 12

\* The switch over the choice.
HandleUserChoice ==
    [c \in Items |->
        CASE c = 1  -> HandleQueryFacilityNames
          [] c = 2  -> HandleQueryAvailability
          [] c = 3  -> HandleBookFacility
          [] c = 4  -> HandleQueryBooking
          [] c = 5  -> HandleUpdateBooking
          [] c = 6  -> HandleDeleteBooking
          [] c = 7  -> HandleMonitorAvailability
          [] c = 8  -> HandleRateFacility
          [] c = 9  -> HandleQueryRating
          [] c = 10 -> HandleEchoMessage
          [] c = 11 -> HandleExit]

Script(h) == IF h = Menu THEN DisplayMenu ELSE IF h = Start THEN Launch ELSE HandleUserChoice[h]

\* The prompts, and the calls that change something at the server.
Prompts == {"serverIP", "serverPort", "choice", "facilityName", "dayOfWeek", "daysOfWeek", "time",
            "bookingID", "confirmation", "offset", "rating", "duration", "message"}

Changing == {"book", "update", "delete", "monitor", "rate"}
=============================================================================
