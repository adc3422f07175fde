---------------------------- MODULE ConsoleProofs ----------------------------
(***************************************************************************)
(* The client's terminal for any keyboard and any words: scripts are never *)
(* left but for the menu, the end of the input changes nothing, no line    *)
(* crashes the program, and a tidy user answers what is asked.             *)
(***************************************************************************)
EXTENDS Console, FiniteSetTheorems, SequenceTheorems, TLAPS

Handler == Items \cup {Menu, Start}

\* The program stands at a step of a script.
AtStep == handler \in Handler /\ step \in 1 .. Len(Script(handler))

\* Once the end of the input has made up a value, nothing is left to read, and
\* the only call that the handler still makes is a query.
MadeUpIsHarmless ==
    (\E a \in answers : ~ a.read) =>
        /\ eof
        /\ input = <<>>
        /\ Now.do = "call" => Now = Call("rating")

EofInv == AtStep /\ MadeUpIsHarmless

-----------------------------------------------------------------------------
(* The scripts *)

\* What the proofs need of a script S: a whole line is followed by another
\* prompt or by the query of a rating, and that query is the last step.
GoodScript(S) ==
    /\ Len(S) \in Nat \ {0}
    /\ \A n \in 1 .. Len(S) :
           /\ S[n] \in {Ask("facilityName"), Ask("message")} =>
                  n < Len(S) /\ (S[n + 1].do = "call" => S[n + 1] = Call("rating"))
           /\ S[n] = Call("rating") => n = Len(S)

\* Lemma: all scripts are of that kind (the handlers of UserInterface.cpp).
LEMMA GoodScripts == \A h \in Handler : GoodScript(Script(h))
<1> USE DEF Ask, Call, Exit, GoodScript
<1>1. GoodScript(DisplayMenu)
  BY DEF DisplayMenu
<1>2. GoodScript(Launch)
  BY DEF Launch
<1>3. GoodScript(HandleQueryFacilityNames)
  BY DEF HandleQueryFacilityNames
<1>4. GoodScript(HandleQueryAvailability)
  BY DEF HandleQueryAvailability
<1>5. GoodScript(HandleBookFacility)
  BY DEF HandleBookFacility
<1>6. GoodScript(HandleQueryBooking)
  BY DEF HandleQueryBooking
<1>7. GoodScript(HandleUpdateBooking)
  BY DEF HandleUpdateBooking
<1>8. GoodScript(HandleDeleteBooking)
  BY DEF HandleDeleteBooking
<1>9. GoodScript(HandleMonitorAvailability)
  BY DEF HandleMonitorAvailability
<1>10. GoodScript(HandleRateFacility)
  BY DEF HandleRateFacility
<1>11. GoodScript(HandleQueryRating)
  BY DEF HandleQueryRating
<1>12. GoodScript(HandleEchoMessage)
  BY DEF HandleEchoMessage
<1>13. GoodScript(HandleExit)
  BY DEF HandleExit
<1> HIDE DEF GoodScript
<1>14. ASSUME NEW h \in Handler PROVE GoodScript(Script(h))
  <2>1. CASE h = Menu
    BY <1>1, <2>1 DEF Script
  <2>2. CASE h = Start
    BY <1>2, <2>2 DEF Script, Start, Menu
  <2>3. CASE h \in Items
    <3>1. Script(h) = HandleUserChoice[h]
      BY <2>3 DEF Script, Menu, Start, Items
    <3>2. GoodScript(HandleUserChoice[h])
      BY <1>3, <1>4, <1>5, <1>6, <1>7, <1>8, <1>9, <1>10, <1>11, <1>12, <1>13, <2>3
         DEF HandleUserChoice, Items
    <3>3. QED  BY <3>1, <3>2
  <2>4. QED  BY <2>1, <2>2, <2>3 DEF Handler
<1>15. QED  BY <1>14

-----------------------------------------------------------------------------
(* Where a step leads *)

Stays == handler' = handler /\ step' = step

Moved ==
    \/ Stays
    \/ Advance
    \/ Goto(Menu, 1)
    \/ \E h \in Items : Goto(h, 1)

\* Lemma: no move leaves the scripts (the returns of the handlers).
LEMMA MovedKeeps ==
    ASSUME AtStep, Moved
    PROVE  AtStep'
<1> USE DEF AtStep
<1>1. CASE Stays
  BY <1>1 DEF Stays
<1>2. \A h \in Items \cup {Menu} : Goto(h, 1) => AtStep'
  BY GoodScripts DEF GoodScript, Goto, Handler
<1>3. CASE Advance /\ step < Len(Script(handler))
  <2>1. handler' = handler /\ step' = step + 1
    BY <1>3 DEF Advance, Goto
  <2>2. Len(Script(handler)) \in Nat
    BY GoodScripts DEF GoodScript
  <2>3. QED  BY <1>3, <2>1, <2>2
<1>4. CASE Advance /\ ~ (step < Len(Script(handler)))
  BY <1>2, <1>4 DEF Advance
<1>5. QED  BY <1>1, <1>2, <1>3, <1>4 DEF Moved

\* Lemma: at the menu the prompt is that for the choice (displayMenu).
LEMMA MenuAsks ==
    ASSUME AtStep, handler = Menu
    PROVE  Now = Ask("choice")
BY DEF AtStep, Now, Script, DisplayMenu

\* Lemma: the loops around >> to a number go on in the script, or from the
\* menu to a handler.
LEMMA IntPromptMoves ==
    ASSUME AtStep, NEW prompt, NEW good, NEW afterBad,
           IntPrompt(prompt, good, afterBad),
           prompt = "choice" => good \subseteq Items
    PROVE  Moved
<1>1. CASE handler = Menu /\ TheInt \in good /\ Goto(TheInt, 1)
  <2>1. Ask("choice") = Ask(prompt)
    BY <1>1, MenuAsks DEF IntPrompt, Asking
  <2>2. prompt = "choice"
    BY <2>1 DEF Ask
  <2>3. QED  BY <1>1, <2>2 DEF Moved
<1>2. CASE Stays \/ Advance
  BY <1>2 DEF Moved
<1>3. QED  BY <1>1, <1>2 DEF IntPrompt, Reprompt, Stays

LEMMA NextMoves ==
    ASSUME AtStep, Next
    PROVE  Moved
<1> USE DEF Moved, Stays
<1>1. \A p, W : WordPrompt(p, W) => Moved
  BY DEF WordPrompt, Reprompt, Accept
<1>2. \A p : LinePrompt(p) => Moved
  BY DEF LinePrompt, Accept
<1>3. CASE PromptServerIP \/ PromptTime \/ PromptBookingID
  BY <1>1, <1>3 DEF PromptServerIP, PromptTime, PromptBookingID
<1>4. CASE PromptServerPort
  <2>1. Reprompt(AfterRun(input)) \/ Accept(AfterRun(input))
    BY <1>4 DEF PromptServerPort
  <2>2. QED  BY <2>1 DEF Reprompt, Accept
<1>5. CASE PromptChoice \/ PromptDayOfWeek \/ PromptOffset \/ PromptRating
  <2> HIDE DEF Moved, Stays
  <2>1. CASE PromptChoice
    BY <2>1, IntPromptMoves DEF PromptChoice
  <2>2. CASE PromptDayOfWeek
    BY <2>2, IntPromptMoves DEF PromptDayOfWeek
  <2>3. CASE PromptOffset
    BY <2>3, IntPromptMoves DEF PromptOffset
  <2>4. CASE PromptRating
    BY <2>4, IntPromptMoves DEF PromptRating
  <2>5. QED  BY <1>5, <2>1, <2>2, <2>3, <2>4
<1>6. CASE PromptFacilityName \/ ReadMessage
  BY <1>2, <1>6 DEF PromptFacilityName, ReadMessage
<1>7. CASE PromptDaysOfWeek
  BY <1>7 DEF PromptDaysOfWeek, Reprompt, Accept, End
<1>8. CASE PromptConfirmation
  BY <1>1, <1>8 DEF PromptConfirmation
<1>9. CASE PromptDuration
  BY <1>9 DEF PromptDuration, Reprompt, Accept
<1>10. CASE Connect \/ CallReturns \/ ExitProgram
  BY <1>10 DEF Connect, CallReturns, ExitProgram, End
<1>11. CASE EndInput \/ \E line \in Lines : Type(line) \/ TypeAhead(line)
  BY <1>11 DEF EndInput, Type, TypeAhead
<1>12. QED
  BY <1>3, <1>4, <1>5, <1>6, <1>7, <1>8, <1>9, <1>10, <1>11 DEF Next, Program

-----------------------------------------------------------------------------
(* The end of the input *)

MadeUp == \E a \in answers : ~ a.read

\* Lemma: from nothing nothing is read (>>, getline and ignore at the end of the input).
LEMMA NothingToRead ==
    ~ HasWord(<<>>) /\ ~ HasLine(<<>>) /\ ~ HasLine(From(<<>>, 2))
<1>1. ~ HasWord(<<>>) /\ ~ HasLine(<<>>)
  BY DEF HasWord, HasLine
<1>2. From(<<>>, 2) = <<>>
  BY DEF From
<1>3. QED  BY <1>1, <1>2

\* A step that makes up no value: it changes the answers, if at all, by one
\* that was read.
Honest == answers' = answers \/ \E rest : Return(rest, TRUE)

\* Lemma: a prompt that has something to read finds no made up value, and
\* makes up none.
LEMMA ReadersAreHonest ==
    ASSUME MadeUpIsHarmless, input # <<>>, Honest
    PROVE  MadeUpIsHarmless'
<1>1. \A a \in answers : a.read
  BY DEF MadeUpIsHarmless
<1>2. \A a \in answers' : a.read
  BY <1>1 DEF Honest, Return
<1>3. QED  BY <1>2 DEF MadeUpIsHarmless

LEMMA PromptsAreHonest ==
    ASSUME MadeUpIsHarmless
    PROVE  /\ \A p, W : WordPrompt(p, W) => MadeUpIsHarmless'
           /\ \A p, W, rest : IntPrompt(p, W, rest) => MadeUpIsHarmless'
           /\ PromptServerPort \/ PromptConfirmation \/ PromptDuration => MadeUpIsHarmless'
<1> USE DEF Honest
<1>1. ASSUME NEW p, NEW W, WordPrompt(p, W) PROVE MadeUpIsHarmless'
  BY <1>1, ReadersAreHonest, NothingToRead DEF WordPrompt, Reprompt, Accept
<1>2. ASSUME NEW p, NEW W, NEW rest, IntPrompt(p, W, rest) PROVE MadeUpIsHarmless'
  BY <1>2, ReadersAreHonest, NothingToRead DEF IntPrompt, Reprompt
<1>3. ASSUME PromptServerPort PROVE MadeUpIsHarmless'
  <2>1. HasWord(input) /\ (Reprompt(AfterRun(input)) \/ Accept(AfterRun(input)))
    BY <1>3 DEF PromptServerPort
  <2>2. QED  BY <2>1, ReadersAreHonest, NothingToRead DEF Reprompt, Accept
<1>4. ASSUME PromptConfirmation PROVE MadeUpIsHarmless'
  BY <1>1, <1>4, ReadersAreHonest, NothingToRead DEF PromptConfirmation
<1>5. ASSUME PromptDuration PROVE MadeUpIsHarmless'
  BY <1>5, ReadersAreHonest, NothingToRead DEF PromptDuration, Reprompt, Accept
<1>6. QED  BY <1>1, <1>2, <1>3, <1>4, <1>5

\* Lemma: a prompt for a line reads one, or at the end of the input leaves
\* nothing to read and goes on to a prompt or to the query of a rating.
LEMMA LinePromptKeeps ==
    ASSUME EofInv, NEW p \in {"facilityName", "message"}, LinePrompt(p)
    PROVE  MadeUpIsHarmless'
<1>1. CASE HasLine(From(input, 2))
  <2>1. input # <<>> /\ Honest
    BY <1>1, NothingToRead DEF LinePrompt, Accept, Honest
  <2>2. QED  BY <2>1, ReadersAreHonest DEF EofInv
<1>2. CASE ~ HasLine(From(input, 2))
  <2>1. eof /\ eof' = eof /\ input' = <<>> /\ Advance /\ Now \in {Ask("facilityName"), Ask("message")}
    BY <1>2 DEF LinePrompt, Return, Asking
  <2>2. /\ step < Len(Script(handler))
        /\ Script(handler)[step + 1].do = "call" => Script(handler)[step + 1] = Call("rating")
    BY <2>1, GoodScripts DEF EofInv, AtStep, GoodScript, Now
  <2>3. Now' = Script(handler)[step + 1]
    BY <2>1, <2>2 DEF Advance, Goto, Now
  <2>4. QED  BY <2>1, <2>2, <2>3 DEF MadeUpIsHarmless
<1>3. QED  BY <1>1, <1>2

\* Lemma: without any token the prompt for days accepts none.
LEMMA DaysKeep ==
    ASSUME MadeUpIsHarmless, PromptDaysOfWeek
    PROVE  MadeUpIsHarmless'
<1>1. CASE HasWord(input)
  <2>1. input # <<>>
    BY <1>1, NothingToRead
  <2>2. Honest
    BY DEF PromptDaysOfWeek, Reprompt, End, Accept, Honest
  <2>3. QED  BY <2>1, <2>2, ReadersAreHonest
<1>2. CASE ~ HasWord(input)
  <2> DEFINE none == [i \in 1 .. Len(<<>>) |-> Offends(<<>>, i)]
             first == SelectInSeq(none, LAMBDA bad : bad)
  <2>1. first = 0
    <3>1. Len(none) = 0
      OBVIOUS
    <3>2. {i \in 1 .. Len(none) : none[i]} = {}
      BY <3>1
    <3>3. QED  BY <3>2 DEF SelectInSeq
  <2> HIDE DEF first
  <2>2. ~ \E i \in 1 .. Len(<<>>) : <<>>[i] # Comma
    OBVIOUS
  <2>3. End("crash")
    BY <1>2, <2>1, <2>2 DEF PromptDaysOfWeek, first
  <2>4. QED  BY <2>3 DEF End, MadeUpIsHarmless, Now
<1>3. QED  BY <1>1, <1>2

LEMMA EofStep == EofInv /\ [Next]_vars => EofInv'
<1> SUFFICES ASSUME EofInv, [Next]_vars PROVE EofInv'
  OBVIOUS
<1>1. AtStep'
  <2>1. CASE Next
    BY <2>1, NextMoves, MovedKeeps DEF EofInv
  <2>2. CASE UNCHANGED vars
    BY <2>2 DEF EofInv, AtStep, vars
  <2>3. QED  BY <2>1, <2>2
<1>2. MadeUpIsHarmless
  BY DEF EofInv
<1> SUFFICES MadeUpIsHarmless'
  BY <1>1 DEF EofInv
<1>3. CASE PromptServerIP \/ PromptTime \/ PromptBookingID
  BY <1>2, <1>3, PromptsAreHonest DEF PromptServerIP, PromptTime, PromptBookingID
<1>4. CASE PromptServerPort \/ PromptConfirmation \/ PromptDuration
  BY <1>2, <1>4, PromptsAreHonest
<1>5. CASE PromptChoice \/ PromptDayOfWeek \/ PromptOffset \/ PromptRating
  <2>1. \E p, W, rest : IntPrompt(p, W, rest)
    BY <1>5 DEF PromptChoice, PromptDayOfWeek, PromptOffset, PromptRating
  <2>2. QED  BY <1>2, <2>1, PromptsAreHonest
<1>6. CASE PromptFacilityName \/ ReadMessage
  BY <1>6, LinePromptKeeps DEF PromptFacilityName, ReadMessage
<1>7. CASE PromptDaysOfWeek
  BY <1>2, <1>7, DaysKeep
<1>8. CASE Connect
  <2>1. ~ MadeUp
    BY <1>2, <1>8 DEF Connect, MadeUp, MadeUpIsHarmless, Call
  <2>2. answers' = answers
    BY <1>8 DEF Connect, End
  <2>3. QED  BY <2>1, <2>2 DEF MadeUp, MadeUpIsHarmless
<1>9. CASE CallReturns
  <2>1. answers' = answers /\ eof' = eof /\ input' = input
    BY <1>9 DEF CallReturns
  <2>2. CASE ~ MadeUp
    BY <2>1, <2>2 DEF MadeUp, MadeUpIsHarmless
  <2>3. CASE MadeUp
    <3>1. Now = Call("rating")
      BY <1>2, <1>9, <2>3 DEF MadeUp, MadeUpIsHarmless, CallReturns
    <3>2. step = Len(Script(handler))
      BY <3>1, GoodScripts DEF EofInv, AtStep, GoodScript, Now
    <3>3. step \in Nat
      BY GoodScripts DEF EofInv, AtStep, GoodScript
    <3>4. Goto(Menu, 1)
      BY <1>9, <3>2, <3>3 DEF CallReturns, Advance
    <3>5. Now' = Ask("choice")
      BY <3>4 DEF Goto, Now, Script, DisplayMenu
    <3>6. QED  BY <1>2, <2>1, <2>3, <3>5 DEF MadeUp, MadeUpIsHarmless, Ask
  <2>4. QED  BY <2>2, <2>3
<1>10. CASE ExitProgram
  BY <1>2, <1>10 DEF ExitProgram, End, MadeUpIsHarmless, Now
<1>11. CASE EndInput \/ \E line \in Lines : Type(line) \/ TypeAhead(line)
  <2>1. ~ eof /\ answers' = answers
    BY <1>11 DEF EndInput, Type, TypeAhead, Blocked
  <2>2. QED  BY <1>2, <2>1 DEF MadeUpIsHarmless
<1>12. CASE UNCHANGED vars
  BY <1>2, <1>12 DEF vars, MadeUpIsHarmless, Now
<1>13. QED
  BY <1>3, <1>4, <1>5, <1>6, <1>7, <1>8, <1>9, <1>10, <1>11, <1>12 DEF Next, Program

\* No call that changes something at the server is made of a value that the end
\* of the input made up, whatever was typed before (promptFacilityName and
\* handleEchoMessage at the end of the input; the order of the prompts of each
\* handler, and what each reads by, are why).
THEOREM EofIsHarmless == Spec => []EofChangesNothing
<1>1. Init => EofInv
  BY GoodScripts DEF Init, EofInv, AtStep, MadeUpIsHarmless, Handler, GoodScript
<1>2. EofInv => EofChangesNothing
  BY DEF EofInv, MadeUpIsHarmless, EofChangesNothing, Changing, Call
<1>3. QED  BY <1>1, <1>2, EofStep, PTL DEF Spec

-----------------------------------------------------------------------------
(* std::cin *)

\* Lemma: a set of natural numbers has a least element.
LEMMA LeastNatural ==
    ASSUME NEW T, T \subseteq Nat, T # {}
    PROVE  \E n \in T : \A m \in T : n <= m
<1> DEFINE Starts == {0 .. n : n \in T}
           R      == StrictSubsetOrdering(Nat)
           S      == FiniteSubsetsOf(Nat)
<1>1. Starts \subseteq S
  <2>1. \A n \in T : 0 .. n \subseteq Nat /\ IsFiniteSet(0 .. n)
    BY FS_Interval
  <2>2. QED  BY <2>1 DEF FiniteSubsetsOf
<1>2. Starts # {}
  OBVIOUS
<1>3. IsWellFoundedOn(R, S)
  BY FS_StrictSubsetOrderingWellFounded
<1> HIDE DEF Starts, R, S
<1>4. \E X \in Starts : \A Y \in Starts : ~ (<<Y, X>> \in R)
  BY <1>1, <1>2, <1>3, WFMin
<1>5. PICK n \in T : \A m \in T : ~ (<<0 .. m, 0 .. n>> \in R)
  BY <1>4 DEF Starts
<1>6. ASSUME NEW m \in T, m < n PROVE FALSE
  <2>1. 0 .. m \subseteq 0 .. n /\ n \in 0 .. n /\ n \notin 0 .. m
    BY <1>6
  <2>2. <<0 .. m, 0 .. n>> \in R
    BY <2>1 DEF R, StrictSubsetOrdering
  <2>3. QED  BY <1>5, <2>2
<1>7. QED  BY <1>5, <1>6

LEMMA LeastIndex ==
    ASSUME NEW n \in Nat, NEW I, I \subseteq 1 .. n, I # {}
    PROVE  Min(I) \in I /\ \A j \in I : Min(I) <= j
<1>1. I \subseteq Nat
  OBVIOUS
<1>2. \E i \in I : \A j \in I : i <= j
  BY <1>1, LeastNatural
<1>3. QED  BY <1>2 DEF Min

\* Lemma: what >> skips, and where it begins to read.
LEMMA FirstWord ==
    ASSUME NEW S, NEW s \in Seq(S), HasWord(s)
    PROVE  \E k \in 1 .. Len(s) :
               /\ k = SelectInSeq(s, LAMBDA x : ~ IsSpace(x))
               /\ ~ IsSpace(s[k]) /\ \A j \in 1 .. k - 1 : IsSpace(s[j])
<1> DEFINE I == {i \in 1 .. Len(s) : ~ IsSpace(s[i])}
<1>1. Len(s) \in Nat /\ I \subseteq 1 .. Len(s) /\ I # {}
  BY DEF HasWord
<1>2. SelectInSeq(s, LAMBDA x : ~ IsSpace(x)) = Min(I)
  BY <1>1 DEF SelectInSeq
<1>3. Min(I) \in I /\ \A j \in I : Min(I) <= j
  <2> HIDE DEF I
  <2>1. QED  BY <1>1, LeastIndex
<1>4. \A j \in 1 .. Min(I) - 1 : IsSpace(s[j])
  BY <1>1, <1>3
<1>5. QED  BY <1>2, <1>3, <1>4

\* Lemma: where getline and ignore stop.
LEMMA FirstNewline ==
    ASSUME NEW S, NEW s \in Seq(S), HasLine(s)
    PROVE  \E k \in 1 .. Len(s) :
               /\ k = SelectInSeq(s, LAMBDA x : x = Newline)
               /\ s[k] = Newline /\ \A j \in 1 .. k - 1 : s[j] # Newline
<1> DEFINE I == {i \in 1 .. Len(s) : s[i] = Newline}
<1>1. Len(s) \in Nat /\ I \subseteq 1 .. Len(s) /\ I # {}
  BY DEF HasLine
<1>2. SelectInSeq(s, LAMBDA x : x = Newline) = Min(I)
  BY <1>1 DEF SelectInSeq
<1>3. Min(I) \in I /\ \A j \in I : Min(I) <= j
  <2> HIDE DEF I
  <2>1. QED  BY <1>1, LeastIndex
<1>4. \A j \in 1 .. Min(I) - 1 : s[j] # Newline
  BY <1>1, <1>3
<1>5. QED  BY <1>2, <1>3, <1>4

\* Lemma: where >> to a string stops.
LEMMA FirstSpace ==
    ASSUME NEW S, NEW s \in Seq(S)
    PROVE  LET n == SelectInSeq(s, IsSpace)
           IN  \/ n = 0 /\ \A j \in 1 .. Len(s) : ~ IsSpace(s[j])
               \/ n \in 1 .. Len(s) /\ IsSpace(s[n]) /\ \A j \in 1 .. n - 1 : ~ IsSpace(s[j])
<1> DEFINE I == {i \in 1 .. Len(s) : IsSpace(s[i])}
           n == SelectInSeq(s, IsSpace)
<1>1. n = IF I # {} THEN Min(I) ELSE 0
  BY DEF SelectInSeq
<1>2. CASE I = {}
  BY <1>1, <1>2
<1>3. CASE I # {}
  <2>1. Len(s) \in Nat /\ I \subseteq 1 .. Len(s)
    OBVIOUS
  <2>2. Min(I) \in I /\ \A j \in I : Min(I) <= j
    <3> HIDE DEF I
    <3>1. QED  BY <1>3, <2>1, LeastIndex
  <2>3. n = Min(I)
    BY <1>1, <1>3
  <2> HIDE DEF n
  <2>4. n \in I /\ \A j \in I : n <= j
    BY <2>2, <2>3
  <2>5. n \in 1 .. Len(s) /\ IsSpace(s[n])
    BY <2>4
  <2>6. ASSUME NEW j \in 1 .. n - 1 PROVE ~ IsSpace(s[j])
    BY <2>1, <2>4, <2>5
  <2>7. QED  BY <2>5, <2>6 DEF n
<1>4. QED  BY <1>2, <1>3

\* Lemma: the rest of a text.
LEMMA RestOf ==
    ASSUME NEW S, NEW s \in Seq(S), NEW i \in Nat \ {0}
    PROVE  /\ From(s, i) \in Seq(S)
           /\ Len(From(s, i)) = IF i <= Len(s) THEN Len(s) - i + 1 ELSE 0
           /\ \A j \in 1 .. Len(s) - i + 1 : From(s, i)[j] = s[i + j - 1]
<1>1. \A j \in i .. Len(s) : s[j] \in S
  BY ElementOfSeq
<1>2. i \in Int /\ Len(s) \in Int
  BY LenProperties
<1>3. QED  BY <1>1, <1>2, SubSeqProperties DEF From

\* Lemma: the text without its first characters, and a rest that is empty.
LEMMA RestOf2 ==
    ASSUME NEW S, NEW s \in Seq(S)
    PROVE  /\ From(s, 2) \in Seq(S)
           /\ Len(From(s, 2)) = IF 2 <= Len(s) THEN Len(s) - 1 ELSE 0
           /\ \A j \in 1 .. Len(s) - 1 : From(s, 2)[j] = s[j + 1]
<1>1. 2 \in Nat \ {0} /\ Len(s) \in Nat
  BY LenProperties
<1>2. /\ From(s, 2) \in Seq(S)
      /\ Len(From(s, 2)) = IF 2 <= Len(s) THEN Len(s) - 2 + 1 ELSE 0
      /\ \A j \in 1 .. Len(s) - 2 + 1 : From(s, 2)[j] = s[2 + j - 1]
  BY <1>1, RestOf
<1>3. QED  BY <1>1, <1>2

LEMMA NoRest ==
    ASSUME NEW S, NEW s \in Seq(S), NEW i \in Nat \ {0}, i > Len(s)
    PROVE  From(s, i) = <<>>
<1>1. /\ From(s, i) \in Seq(S)
      /\ Len(From(s, i)) = IF i <= Len(s) THEN Len(s) - i + 1 ELSE 0
  BY RestOf
<1>2. Len(From(s, i)) = 0
  BY <1>1, LenProperties
<1>3. QED  BY <1>1, <1>2, EmptySeq

\* Lemma: what >> and getline leave is a rest of the text.
LEMMA RestsTyped ==
    ASSUME NEW S, NEW s \in Seq(S)
    PROVE  /\ HasWord(s) => /\ Skipped(s) \in Seq(S) /\ Len(Skipped(s)) >= 1
                            /\ ~ IsSpace(Skipped(s)[1])
                            /\ Run(s) \in Seq(S) /\ Len(Run(s)) >= 1 /\ Run(s)[1] = Skipped(s)[1]
                            /\ AfterRun(s) \in Seq(S)
           /\ AfterLine(s) \in Seq(S)
<1>1. ASSUME HasWord(s)
      PROVE  /\ Skipped(s) \in Seq(S) /\ Len(Skipped(s)) >= 1
             /\ ~ IsSpace(Skipped(s)[1])
             /\ Run(s) \in Seq(S) /\ Len(Run(s)) >= 1 /\ Run(s)[1] = Skipped(s)[1]
             /\ AfterRun(s) \in Seq(S)
  <2>1. PICK k \in 1 .. Len(s) : /\ k = SelectInSeq(s, LAMBDA x : ~ IsSpace(x))
                                 /\ ~ IsSpace(s[k])
    BY <1>1, FirstWord
  <2>2. Skipped(s) = From(s, k)
    BY <2>1 DEF Skipped
  <2> DEFINE t == Skipped(s)
             n == SelectInSeq(t, IsSpace)
  <2>3. /\ t \in Seq(S) /\ Len(t) = Len(s) - k + 1
        /\ t[1] = s[k]
    <3>0. k \in Nat \ {0}
      OBVIOUS
    <3>1. /\ From(s, k) \in Seq(S)
          /\ Len(From(s, k)) = IF k <= Len(s) THEN Len(s) - k + 1 ELSE 0
          /\ \A j \in 1 .. Len(s) - k + 1 : From(s, k)[j] = s[k + j - 1]
      BY <3>0, RestOf
    <3>2. Len(s) \in Nat
      OBVIOUS
    <3>3. QED  BY <2>2, <3>1, <3>2
  <2>4. Len(t) \in Nat /\ Len(t) >= 1 /\ ~ IsSpace(t[1])
    BY <2>1, <2>3
  <2>5. Run(s) = IF n = 0 THEN t ELSE SubSeq(t, 1, n - 1)
    BY DEF Run
  <2> HIDE DEF t
  <2>6. n = 0 \/ (n \in 1 .. Len(t) /\ IsSpace(t[n]))
    BY <2>3, FirstSpace
  <2> HIDE DEF n
  <2>7. n = 0 \/ n \in 2 .. Len(t)
    BY <2>4, <2>6
  <2>8. Run(s) \in Seq(S) /\ Len(Run(s)) >= 1 /\ Run(s)[1] = t[1]
    <3>1. CASE n = 0
      BY <2>3, <2>4, <2>5, <3>1
    <3>2. CASE n \in 2 .. Len(t)
      <4>1. \A j \in 1 .. n - 1 : t[j] \in S
        BY <2>3, <2>4, <3>2, ElementOfSeq
      <4>2. /\ SubSeq(t, 1, n - 1) \in Seq(S)
            /\ Len(SubSeq(t, 1, n - 1)) = IF 1 <= n - 1 THEN n - 1 - 1 + 1 ELSE 0
            /\ \A j \in 1 .. n - 1 - 1 + 1 : SubSeq(t, 1, n - 1)[j] = t[1 + j - 1]
        BY <2>4, <3>2, <4>1, SubSeqProperties
      <4>3. n # 0
        BY <3>2
      <4>4. QED  BY <2>4, <2>5, <3>2, <4>2, <4>3
    <3>3. QED  BY <2>7, <3>1, <3>2
  <2>9. Len(Run(s)) + 1 \in Nat \ {0}
    BY <2>8, LenProperties
  <2>10. AfterRun(s) \in Seq(S)
    BY <2>3, <2>9, RestOf DEF AfterRun, t
  <2>11. QED  BY <2>3, <2>4, <2>8, <2>10 DEF t
<1>2. AfterLine(s) \in Seq(S)
  <2>1. CASE HasLine(s)
    <3>1. PICK k \in 1 .. Len(s) : k = SelectInSeq(s, LAMBDA x : x = Newline)
      BY <2>1, FirstNewline
    <3>2. AfterLine(s) = From(s, k + 1)
      BY <2>1, <3>1 DEF AfterLine
    <3>3. k + 1 \in Nat \ {0}
      OBVIOUS
    <3>4. QED  BY <3>2, <3>3, RestOf
  <2>2. CASE ~ HasLine(s)
    BY <2>2 DEF AfterLine
  <2>3. QED  BY <2>1, <2>2
<1>3. QED  BY <1>1, <1>2

-----------------------------------------------------------------------------
(* What the steps do to std::cin *)

WordStep ==
    /\ HasWord(input)
    /\ Now.do = "ask"
    /\ \E rest \in {AfterRun(input), Discarded, AfterInt} : Reprompt(rest) \/ Return(rest, TRUE)

LineStep ==
    /\ Now.do = "ask"
    /\ \/ HasLine(From(input, 2)) /\ Return(AfterLine(From(input, 2)), TRUE)
       \/ eof /\ Return(<<>>, FALSE)

DurationStep ==
    /\ Now = Ask("duration")
    /\ HasLine(input)
    /\ \/ Reprompt(AfterLine(input))
       \/ (\E w : LineOf(input) = <<w>>) /\ Return(AfterLine(input), TRUE)

EndStep ==
    \/ End("exit") \/ End("no server")
    \/ End("exception") /\ Now = Ask("daysOfWeek")
    \/ End("crash") /\ eof

CallStep == Now.do = "call" /\ UNCHANGED <<input, eof, answers, typed, tidy, ended>>

UserStep == EndInput \/ \E line \in Lines : Type(line) \/ TypeAhead(line)

\* Lemma: a first token that is empty is no day, so that the prompt for days
\* finds no tokens only where it finds no word (promptDaysOfWeek).
LEMMA NoTokensNoWord ==
    ASSUME NEW S, input \in Seq(S), PromptDaysOfWeek
    PROVE  WordStep \/ EndStep
<1>0. Now = Ask("daysOfWeek") /\ Now.do = "ask"
  BY DEF PromptDaysOfWeek, Asking, Ask
<1>1. CASE HasWord(input) /\ (Reprompt(AfterRun(input)) \/ Accept(AfterRun(input)))
  BY <1>0, <1>1 DEF WordStep, Accept
<1>2. CASE End("exception")
  BY <1>0, <1>2 DEF EndStep
<1>3. CASE ~ HasWord(input)
  <2>1. eof
    BY <1>3 DEF PromptDaysOfWeek
  <2> DEFINE none == [i \in 1 .. Len(<<>>) |-> Offends(<<>>, i)]
             first == SelectInSeq(none, LAMBDA bad : bad)
  <2>2. first = 0
    <3>1. Len(none) = 0
      OBVIOUS
    <3>2. {i \in 1 .. Len(none) : none[i]} = {}
      BY <3>1
    <3>3. QED  BY <3>2 DEF SelectInSeq
  <2> HIDE DEF first
  <2>3. ~ \E i \in 1 .. Len(<<>>) : <<>>[i] # Comma
    OBVIOUS
  <2>4. End("crash")
    BY <1>3, <2>2, <2>3 DEF PromptDaysOfWeek, first
  <2>5. QED  BY <2>1, <2>4 DEF EndStep
<1>4. CASE HasWord(input) /\ End("crash") /\ ~ End("exception") /\ ~ Reprompt(AfterRun(input))
           /\ ~ Accept(AfterRun(input))
  <2> DEFINE run   == Run(input)
             bads  == [i \in 1 .. Len(run) |-> Offends(run, i)]
             first == SelectInSeq(bads, LAMBDA bad : bad)
             I     == {i \in 1 .. Len(bads) : bads[i]}
  <2>1. run \in Seq(S) /\ Len(run) \in Nat /\ Len(run) >= 1
    BY <1>4, RestsTyped, LenProperties
  <2> HIDE DEF run
  <2>2. first = 0 /\ ~ \E i \in 1 .. Len(run) : run[i] # Comma
    BY <1>4 DEF PromptDaysOfWeek, run
  <2>3. run[1] = Comma
    BY <2>1, <2>2
  <2>4. Len(bads) = Len(run)
    BY <2>1
  <2>5. 1 \in I
    <3>1. Offends(run, 1)
      BY <2>3 DEF Offends
    <3>2. 1 \in 1 .. Len(run) /\ 1 \in 1 .. Len(bads)
      BY <2>1, <2>4
    <3>3. bads[1] = Offends(run, 1)
      BY <3>2
    <3>4. QED  BY <3>1, <3>2, <3>3
  <2>6. first = Min(I)
    BY <2>5 DEF SelectInSeq
  <2>7. Min(I) \in 1 .. Len(run)
    <3>1. I \subseteq 1 .. Len(run)
      BY <2>4
    <3> HIDE DEF I
    <3>2. Min(I) \in I
      BY <2>1, <2>5, <3>1, LeastIndex
    <3>3. QED  BY <3>1, <3>2
  <2>8. first \in 1 .. Len(run)
    BY <2>6, <2>7
  <2> HIDE DEF first
  <2>9. QED  BY <2>1, <2>2, <2>8
<1>5. QED
  BY <1>1, <1>2, <1>3, <1>4 DEF PromptDaysOfWeek

\* Lemma: the kinds of steps.
LEMMA StepKinds ==
    ASSUME NEW S, input \in Seq(S), Next
    PROVE  Running /\ (WordStep \/ LineStep \/ DurationStep \/ EndStep \/ CallStep \/ UserStep)
<1> DEFINE Kinds == Running /\ (WordStep \/ LineStep \/ DurationStep \/ EndStep \/ CallStep \/ UserStep)
<1>0. \A p : Asking(p) => Running /\ Now.do = "ask" /\ Now = Ask(p)
  BY DEF Ask, Asking
<1>1. \A p, W : WordPrompt(p, W) => Running /\ WordStep
  BY <1>0 DEF WordPrompt, Accept, WordStep
<1>2. \A p, W, rest : IntPrompt(p, W, rest) /\ rest \in {Discarded, AfterInt} => Running /\ WordStep
  BY <1>0 DEF IntPrompt, WordStep
<1>3. \A p : LinePrompt(p) => Running /\ LineStep
  BY <1>0 DEF LinePrompt, Accept, LineStep
<1>4. CASE PromptServerIP \/ PromptTime \/ PromptBookingID
  BY <1>1, <1>4 DEF PromptServerIP, PromptTime, PromptBookingID
<1>5. CASE PromptServerPort
  <2>1. Running /\ HasWord(input) /\ Now.do = "ask"
    BY <1>0, <1>5 DEF PromptServerPort
  <2>2. Reprompt(AfterRun(input)) \/ Accept(AfterRun(input))
    BY <1>5 DEF PromptServerPort
  <2>3. QED  BY <2>1, <2>2 DEF WordStep, Accept
<1>6. CASE PromptChoice \/ PromptDayOfWeek \/ PromptOffset \/ PromptRating
  BY <1>2, <1>6 DEF PromptChoice, PromptDayOfWeek, PromptOffset, PromptRating
<1>7. CASE PromptFacilityName \/ ReadMessage
  BY <1>3, <1>7 DEF PromptFacilityName, ReadMessage
<1>8. CASE PromptDaysOfWeek
  <2>1. Running
    BY <1>0, <1>8 DEF PromptDaysOfWeek
  <2>2. QED  BY <1>8, <2>1, NoTokensNoWord
<1>9. CASE PromptConfirmation
  <2>1. CASE WordPrompt("confirmation", Yes)
    BY <1>1, <2>1
  <2>2. CASE /\ Asking("confirmation")
             /\ HasWord(input)
             /\ Return(AfterRun(input), TRUE)
    BY <1>0, <2>2 DEF WordStep
  <2>3. QED  BY <1>9, <2>1, <2>2 DEF PromptConfirmation
<1>10. CASE PromptDuration
  <2>1. Running /\ HasLine(input) /\ Now = Ask("duration")
    BY <1>0, <1>10 DEF PromptDuration
  <2>2. \/ Reprompt(AfterLine(input))
        \/ (\E w : LineOf(input) = <<w>>) /\ Accept(AfterLine(input))
    BY <1>10 DEF PromptDuration
  <2>3. QED  BY <2>1, <2>2 DEF DurationStep, Accept
<1>11. CASE Connect
  <2>1. Running /\ Now.do = "call"
    BY <1>11 DEF Connect, Call
  <2>2. QED  BY <1>11, <2>1 DEF Connect, EndStep, CallStep
<1>12. CASE CallReturns \/ ExitProgram
  BY <1>12 DEF CallReturns, CallStep, ExitProgram, EndStep
<1>13. CASE EndInput \/ \E line \in Lines : Type(line) \/ TypeAhead(line)
  BY <1>13 DEF UserStep, EndInput, Type, Blocked, TypeAhead
<1>14. QED
  <2> HIDE DEF Kinds
  <2>1. QED
    BY <1>4, <1>5, <1>6, <1>7, <1>8, <1>9, <1>10, <1>11, <1>12, <1>13 DEF Next, Program, Kinds

-----------------------------------------------------------------------------
(* Types and ends *)

\* Whatever a line may hold, and the newline that ends it.
Chars == (UNION {{line[i] : i \in 1 .. Len(line)} : line \in Lines}) \cup {Newline}

\* Lemma: a typed line is a text.
LEMMA LinesTyped ==
    ASSUME NEW line \in Lines
    PROVE  /\ line \in Seq(Chars \ {Newline})
           /\ Append(line, Newline) \in Seq(Chars)
<1>1. line \in Seq({line[i] : i \in DOMAIN line} \ {Newline})
  BY LexicalAssumption
<1>2. /\ Len(line) \in Nat /\ DOMAIN line = 1 .. Len(line)
      /\ \A i \in 1 .. Len(line) : line[i] # Newline
  BY <1>1, LenProperties, ElementOfSeq
<1>3. \A i \in 1 .. Len(line) : line[i] \in Chars
  BY DEF Chars
<1>4. line = [i \in 1 .. Len(line) |-> line[i]]
  BY <1>1, <1>2
<1>5. line \in Seq(Chars \ {Newline}) /\ line \in Seq(Chars)
  BY <1>2, <1>3, <1>4
<1>6. Newline \in Chars
  BY DEF Chars
<1>7. QED  BY <1>5, <1>6, AppendProperties

\* All of the type invariant but where the program stands.
DataTyped ==
    /\ input \in Seq(Chars)
    /\ eof \in BOOLEAN
    /\ answers \subseteq [own : BOOLEAN, read : BOOLEAN]
    /\ typed \in BOOLEAN
    /\ tidy \in BOOLEAN
    /\ ended \in {"no", "exit", "exception", "crash", "no server"}

\* Lemma: a prompt that returns keeps the types.
LEMMA ReturnTyped ==
    ASSUME DataTyped, NEW rest \in Seq(Chars), NEW read \in BOOLEAN, Return(rest, read)
    PROVE  DataTyped'
<1>1. [own |-> typed, read |-> read] \in [own : BOOLEAN, read : BOOLEAN]
  BY DEF DataTyped
<1>2. answers' \subseteq [own : BOOLEAN, read : BOOLEAN]
  BY <1>1 DEF DataTyped, Return
<1>3. QED  BY <1>2 DEF DataTyped, Return

LEMMA DataStep == ASSUME DataTyped, [Next]_vars PROVE DataTyped'
<1>0. input \in Seq(Chars)
  BY DEF DataTyped
<1>1. \A rest \in Seq(Chars) : Reprompt(rest) => DataTyped'
  BY DEF DataTyped, Reprompt
<1>2. \A rest \in Seq(Chars) : Return(rest, TRUE) \/ Return(rest, FALSE) => DataTyped'
  BY ReturnTyped
<1>3. CASE WordStep
  <2>1. AfterRun(input) \in Seq(Chars)
    BY <1>0, <1>3, RestsTyped DEF WordStep
  <2>2. Skipped(input) \in Seq(Chars)
    BY <1>0, <1>3, RestsTyped DEF WordStep
  <2>3. Discarded \in Seq(Chars) /\ AfterInt \in Seq(Chars)
    <3>1. \A s \in Seq(Chars) : AfterLine(s) \in Seq(Chars)
      BY RestsTyped
    <3>2. From(Skipped(input), 2) \in Seq(Chars)
      BY <2>2, RestOf, 2 \in Nat \ {0}
    <3>3. QED  BY <2>2, <3>1, <3>2 DEF Discarded, AfterInt
  <2>4. QED  BY <1>1, <1>2, <1>3, <2>1, <2>3 DEF WordStep
<1>4. CASE LineStep
  <2>1. AfterLine(From(input, 2)) \in Seq(Chars)
    <3>1. \A s \in Seq(Chars) : AfterLine(s) \in Seq(Chars)
      BY RestsTyped
    <3>2. From(input, 2) \in Seq(Chars)
      BY <1>0, RestOf, 2 \in Nat \ {0}
    <3>3. QED  BY <3>1, <3>2
  <2>2. <<>> \in Seq(Chars)
    OBVIOUS
  <2>3. QED  BY <1>2, <1>4, <2>1, <2>2 DEF LineStep
<1>5. CASE DurationStep
  <2>1. AfterLine(input) \in Seq(Chars)
    BY <1>0, RestsTyped
  <2>2. QED  BY <1>1, <1>2, <1>5, <2>1 DEF DurationStep
<1>6. CASE EndStep \/ CallStep
  BY <1>6 DEF EndStep, End, CallStep, DataTyped
<1>7. ASSUME NEW line \in Lines, Type(line) \/ TypeAhead(line) PROVE DataTyped'
  <2>1. Append(line, Newline) \in Seq(Chars)
    BY LinesTyped
  <2>2. <<>> \o Append(line, Newline) \in Seq(Chars) /\ input \o Append(line, Newline) \in Seq(Chars)
    BY <1>0, <2>1, ConcatProperties
  <2>3. input' \in Seq(Chars)
    BY <1>7, <2>2 DEF Type, TypeAhead
  <2>4. typed' \in BOOLEAN /\ tidy' \in BOOLEAN
    BY <1>7 DEF Type, TypeAhead, DataTyped
  <2>5. QED  BY <1>7, <2>3, <2>4 DEF Type, TypeAhead, DataTyped
<1>8. CASE EndInput
  BY <1>8 DEF EndInput, DataTyped
<1>9. CASE UNCHANGED vars
  BY <1>9 DEF vars, DataTyped
<1>10. QED
  BY <1>0, <1>3, <1>4, <1>5, <1>6, <1>7, <1>8, <1>9, StepKinds DEF UserStep

LEMMA InitTyped == Init => AtStep /\ DataTyped
<1>1. Init => AtStep
  BY GoodScripts DEF Init, AtStep, Handler, GoodScript
<1>2. <<>> \in Seq(Chars)
  OBVIOUS
<1>3. Init => DataTyped
  BY <1>2 DEF Init, DataTyped
<1>4. QED  BY <1>1, <1>3

LEMMA ConsoleTypedStep == AtStep /\ DataTyped /\ [Next]_vars => (AtStep /\ DataTyped)'
<1>1. ASSUME AtStep, [Next]_vars PROVE AtStep'
  <2>1. CASE Next
    BY <1>1, <2>1, NextMoves, MovedKeeps
  <2>2. CASE UNCHANGED vars
    BY <1>1, <2>2 DEF AtStep, vars
  <2>3. QED  BY <1>1, <2>1, <2>2
<1>2. QED  BY <1>1, DataStep

\* The type invariant: a handler never stands past the last step of its script
\* (the returns of the handlers to runConsole), and what is left of the input
\* is made of what the user typed.
THEOREM ConsoleTyped == Spec => []TypeOK
<1>1. Init => AtStep /\ DataTyped
  BY InitTyped
<1>2. AtStep /\ DataTyped => TypeOK
  BY DEF AtStep, DataTyped, TypeOK, Handler, Chars
<1>3. QED  BY <1>1, <1>2, ConsoleTypedStep, PTL DEF Spec

\* No line crashes the program: the list of days finds no token only at the end
\* of the input, and no other prompt lets an exception reach main
\* (promptDaysOfWeek, and the loops of the other prompts of UserInterface.cpp).
THEOREM ConsoleEndsCleanly == Spec => []CleanEnd
<1>1. Init => AtStep /\ DataTyped /\ CleanEnd
  BY InitTyped DEF Init, CleanEnd
<1>2. DataTyped /\ CleanEnd /\ [Next]_vars => CleanEnd'
  <2>1. ASSUME DataTyped, CleanEnd, Next PROVE CleanEnd'
    <3>1. Running /\ (WordStep \/ LineStep \/ DurationStep \/ EndStep \/ CallStep \/ UserStep)
      BY <2>1, StepKinds DEF DataTyped
    <3>2. CASE EndStep
      BY <3>2 DEF EndStep, End, CleanEnd, Now
    <3>3. CASE ~ EndStep
      <4>1. ended' = ended
        BY <3>1, <3>3 DEF WordStep, LineStep, DurationStep, CallStep, UserStep, Reprompt, Return,
                          EndInput, Type, TypeAhead
      <4>2. QED  BY <3>1, <4>1 DEF Running, CleanEnd
    <3>4. QED  BY <3>2, <3>3
  <2>2. ASSUME CleanEnd, UNCHANGED vars PROVE CleanEnd'
    BY <2>2 DEF CleanEnd, vars, Now
  <2>3. QED  BY <2>1, <2>2
<1>3. QED  BY <1>1, <1>2, ConsoleTypedStep, PTL DEF Spec

-----------------------------------------------------------------------------
(* A tidy user *)

\* One line of at most one word, and its end.
OneLine(s) == s = <<Newline>> \/ \E w \in Chars \ {Newline} : s = <<w, Newline>>

\* Such a line, or the end of an earlier one before it.
TidyLine(s) ==
    \/ OneLine(s)
    \/ s = <<Newline, Newline>>
    \/ \E w \in Chars \ {Newline} : s = <<Newline, w, Newline>>

\* What a prompt leaves to the next one is the end of a line at most, so that
\* what a prompt finds there was typed for it.
TidyInput ==
    tidy =>
        /\ ~ typed => input \in {<<>>, <<Newline>>}
        /\ typed => Now.do = "ask" /\ TidyLine(input)
        /\ typed /\ Now = Ask("duration") => OneLine(input)
        /\ \A a \in answers : a.read => a.own

\* Lemma: the end of a line holds no word, and nothing is behind it.
LEMMA NoWordThere ==
    ASSUME NEW s \in {<<>>, <<Newline>>}
    PROVE  /\ ~ HasWord(s)
           /\ ~ HasLine(From(s, 2))
           /\ AfterLine(s) = <<>>
           /\ HasLine(s) => \A w : LineOf(s) # <<w>>
<1>1. CASE s = <<>>
  BY <1>1, NothingToRead DEF AfterLine
<1>2. CASE s = <<Newline>>
  <2>1. s \in Seq({Newline}) /\ Len(s) = 1 /\ s[1] = Newline
    BY <1>2
  <2>2. ~ HasWord(s)
    BY <2>1 DEF HasWord, IsSpace
  <2>3. 2 \in Nat \ {0} /\ 2 > Len(s)
    BY <2>1
  <2>4. From(s, 2) = <<>>
    BY <2>1, <2>3, NoRest
  <2>5. HasLine(s)
    BY <2>1 DEF HasLine
  <2>6. SelectInSeq(s, LAMBDA x : x = Newline) = 1
    <3>1. PICK k \in 1 .. Len(s) : k = SelectInSeq(s, LAMBDA x : x = Newline)
      BY <2>1, <2>5, FirstNewline
    <3>2. QED  BY <2>1, <3>1
  <2>7. AfterLine(s) = <<>>
    BY <2>4, <2>5, <2>6 DEF AfterLine
  <2>8. LineOf(s) = SubSeq(s, 1, 0)
    <3>1. LineOf(s) = SubSeq(s, 1, 1 - 1)
      BY <2>6 DEF LineOf
    <3>2. 1 - 1 = 0
      OBVIOUS
    <3>3. QED  BY <3>1, <3>2
  <2>9. Len(LineOf(s)) = 0
    BY <2>1, <2>8
  <2>10. \A w : LineOf(s) # <<w>>
    BY <2>9
  <2>11. QED  BY <2>2, <2>4, <2>7, <2>10, NothingToRead
<1>3. QED  BY <1>1, <1>2

\* Lemma: getline and ignore take the whole of one line.
LEMMA OneLineTaken ==
    ASSUME NEW s, OneLine(s)
    PROVE  s \in Seq(Chars) /\ HasLine(s) /\ AfterLine(s) = <<>>
<1>1. CASE s = <<Newline>>
  <2>1. s \in Seq(Chars) /\ HasLine(s)
    BY <1>1 DEF Chars, HasLine
  <2>2. QED  BY <1>1, <2>1, NoWordThere
<1>2. ASSUME NEW w \in Chars \ {Newline}, s = <<w, Newline>>
      PROVE  s \in Seq(Chars) /\ HasLine(s) /\ AfterLine(s) = <<>>
  <2>1. Newline \in Chars
    BY DEF Chars
  <2>2. s \in Seq(Chars) /\ Len(s) = 2 /\ s[1] # Newline /\ s[2] = Newline
    BY <1>2, <2>1
  <2>3. HasLine(s)
    BY <2>2 DEF HasLine
  <2>4. PICK k \in 1 .. Len(s) : k = SelectInSeq(s, LAMBDA x : x = Newline) /\ s[k] = Newline
    BY <2>2, <2>3, FirstNewline
  <2>5. k = 2
    BY <2>2, <2>4
  <2>6. AfterLine(s) = From(s, 3)
    BY <2>3, <2>4, <2>5 DEF AfterLine
  <2>7. 3 \in Nat \ {0} /\ 3 > Len(s)
    BY <2>2
  <2>8. From(s, 3) = <<>>
    BY <2>2, <2>7, NoRest
  <2>9. QED  BY <2>2, <2>3, <2>6, <2>8
<1>3. QED  BY <1>1, <1>2 DEF OneLine

\* Lemma: what follows the first character of a tidy line is one line, or nothing.
LEMMA TidyRest ==
    ASSUME NEW s, TidyLine(s)
    PROVE  /\ s \in Seq(Chars)
           /\ HasLine(From(s, 2)) => AfterLine(From(s, 2)) = <<>>
           /\ ~ HasLine(From(s, 2)) => s = <<Newline>>
<1>0. Newline \in Chars
  BY DEF Chars
<1>1. CASE s = <<Newline>>
  BY <1>0, <1>1, NoWordThere
<1>2. ASSUME NEW v \in Chars, NEW u, OneLine(u), s = <<v>> \o u
      PROVE  From(s, 2) = u
  <2>1. u \in Seq(Chars) /\ Len(u) \in Nat /\ <<v>> \in Seq(Chars) /\ Len(<<v>>) = 1
    BY <1>2, OneLineTaken, LenProperties
  <2>2. /\ s \in Seq(Chars) /\ Len(s) = Len(u) + 1
        /\ \A j \in 1 .. Len(u) : s[j + 1] = u[j]
    BY <1>2, <2>1, ConcatProperties
  <2>3. /\ From(s, 2) \in Seq(Chars)
        /\ Len(From(s, 2)) = IF 2 <= Len(s) THEN Len(s) - 1 ELSE 0
        /\ \A j \in 1 .. Len(s) - 1 : From(s, 2)[j] = s[j + 1]
    BY <2>2, RestOf2
  <2>4. Len(From(s, 2)) = Len(u)
    BY <2>1, <2>2, <2>3
  <2>5. \A j \in 1 .. Len(u) : From(s, 2)[j] = u[j]
    BY <2>1, <2>2, <2>3
  <2>6. QED  BY <2>1, <2>3, <2>4, <2>5, SeqEqual
<1>3. CASE s # <<Newline>>
  <2>1. \E v \in Chars : \E u : OneLine(u) /\ s = <<v>> \o u /\ s \in Seq(Chars)
    <3>1. CASE s = <<Newline, Newline>>
      <4>1. s = <<Newline>> \o <<Newline>> /\ s \in Seq(Chars)
        BY <1>0, <3>1
      <4>2. QED  BY <1>0, <4>1 DEF OneLine
    <3>2. ASSUME NEW w \in Chars \ {Newline}, s = <<w, Newline>>
          PROVE  \E v \in Chars : \E u : OneLine(u) /\ s = <<v>> \o u /\ s \in Seq(Chars)
      <4>1. s = <<w>> \o <<Newline>> /\ s \in Seq(Chars)
        BY <1>0, <3>2
      <4>2. QED  BY <4>1 DEF OneLine
    <3>3. ASSUME NEW w \in Chars \ {Newline}, s = <<Newline, w, Newline>>
          PROVE  \E v \in Chars : \E u : OneLine(u) /\ s = <<v>> \o u /\ s \in Seq(Chars)
      <4>1. s = <<Newline>> \o <<w, Newline>> /\ s \in Seq(Chars)
        BY <1>0, <3>3
      <4>2. QED  BY <1>0, <4>1 DEF OneLine
    <3>4. QED  BY <1>3, <3>1, <3>2, <3>3 DEF TidyLine, OneLine
  <2>2. \E u : OneLine(u) /\ From(s, 2) = u /\ s \in Seq(Chars)
    BY <1>2, <2>1
  <2>3. QED  BY <2>2, OneLineTaken
<1>4. QED  BY <1>1, <1>3

\* Lemma: >> reads the word of a tidy line and leaves the end of the line, which
\* ignore takes.
LEMMA TidyWord ==
    ASSUME NEW s, TidyLine(s), HasWord(s)
    PROVE  /\ AfterRun(s) = <<Newline>>
           /\ From(Skipped(s), 2) = <<Newline>>
           /\ AfterLine(Skipped(s)) = <<>>
<1>1. PICK w \in Chars \ {Newline} : /\ ~ IsSpace(w)
                                     /\ s = <<w, Newline>> \/ s = <<Newline, w, Newline>>
  <2>1. CASE s = <<Newline>> \/ s = <<Newline, Newline>>
    BY <2>1 DEF HasWord, IsSpace
  <2>2. ASSUME NEW w \in Chars \ {Newline}, s = <<w, Newline>> \/ s = <<Newline, w, Newline>>
        PROVE  ~ IsSpace(w)
    BY <2>2 DEF HasWord, IsSpace
  <2>3. QED  BY <2>1, <2>2 DEF TidyLine, OneLine
<1>2. s \in Seq(Chars) /\ Newline \in Chars /\ Len(s) \in Nat /\ IsSpace(Newline)
  BY TidyRest, LenProperties DEF Chars, IsSpace
<1>3. PICK k \in 1 .. Len(s) : /\ k = SelectInSeq(s, LAMBDA x : ~ IsSpace(x))
                               /\ ~ IsSpace(s[k])
  BY <1>2, FirstWord
<1> DEFINE t == <<w, Newline>>
<1>4. Skipped(s) = From(s, k)
  BY <1>3 DEF Skipped
<1>5. t \in Seq(Chars) /\ Len(t) = 2 /\ t[1] = w /\ t[2] = Newline /\ OneLine(t)
  BY <1>2 DEF OneLine
<1> HIDE DEF t
<1>6. Skipped(s) = t
  <2>1. CASE s = <<w, Newline>>
    <3>1. Len(s) = 2 /\ s[1] = w /\ s[2] = Newline
      BY <2>1
    <3>2. k = 1
      BY <1>2, <1>3, <3>1
    <3>3. From(s, 1) = s
      <4>1. 1 \in Nat \ {0}
        OBVIOUS
      <4>2. /\ From(s, 1) \in Seq(Chars)
            /\ Len(From(s, 1)) = IF 1 <= Len(s) THEN Len(s) - 1 + 1 ELSE 0
            /\ \A j \in 1 .. Len(s) - 1 + 1 : From(s, 1)[j] = s[1 + j - 1]
        BY <1>2, <4>1, RestOf
      <4>3. Len(From(s, 1)) = 2 /\ From(s, 1)[1] = s[1] /\ From(s, 1)[2] = s[2]
        BY <3>1, <4>2
      <4>4. QED  BY <1>2, <3>1, <4>2, <4>3, SeqEqual
    <3>4. QED  BY <1>4, <2>1, <3>2, <3>3 DEF t
  <2>2. CASE s = <<Newline, w, Newline>>
    <3>1. Len(s) = 3 /\ s[1] = Newline /\ s[2] = w /\ s[3] = Newline
      BY <2>2
    <3>2. k = 2
      BY <1>2, <1>3, <3>1
    <3>3. /\ From(s, 2) \in Seq(Chars)
          /\ Len(From(s, 2)) = IF 2 <= Len(s) THEN Len(s) - 1 ELSE 0
          /\ \A j \in 1 .. Len(s) - 1 : From(s, 2)[j] = s[j + 1]
      BY <1>2, RestOf2
    <3>4. Len(From(s, 2)) = 2 /\ From(s, 2)[1] = w /\ From(s, 2)[2] = Newline
      BY <3>1, <3>3
    <3>5. From(s, 2) = t
      BY <1>5, <3>3, <3>4, SeqEqual
    <3>6. QED  BY <1>4, <3>2, <3>5
  <2>3. QED  BY <1>1, <2>1, <2>2
<1>7. From(t, 2) = <<Newline>>
  <2>1. /\ From(t, 2) \in Seq(Chars)
        /\ Len(From(t, 2)) = IF 2 <= Len(t) THEN Len(t) - 1 ELSE 0
        /\ \A j \in 1 .. Len(t) - 1 : From(t, 2)[j] = t[j + 1]
    BY <1>5, RestOf2
  <2>2. Len(From(t, 2)) = 1 /\ From(t, 2)[1] = Newline
    BY <1>5, <2>1
  <2>3. <<Newline>> \in Seq(Chars) /\ Len(<<Newline>>) = 1 /\ <<Newline>>[1] = Newline
    BY <1>2
  <2>4. QED  BY <2>1, <2>2, <2>3, SeqEqual
<1>8. Len(Run(s)) = 1
  <2> DEFINE n == SelectInSeq(t, IsSpace)
  <2>1. /\ \/ n = 0 /\ \A j \in 1 .. Len(t) : ~ IsSpace(t[j])
           \/ n \in 1 .. Len(t) /\ IsSpace(t[n]) /\ \A j \in 1 .. n - 1 : ~ IsSpace(t[j])
    BY <1>5, FirstSpace
  <2>2. Run(s) = IF n = 0 THEN t ELSE SubSeq(t, 1, n - 1)
    BY <1>6 DEF Run
  <2> HIDE DEF n
  <2>3. n = 2
    BY <1>1, <1>2, <1>5, <2>1
  <2>4. Run(s) = SubSeq(t, 1, 1)
    BY <2>2, <2>3
  <2>5. QED  BY <1>5, <2>4
<1>9. AfterRun(s) = From(t, 2)
  <2>1. AfterRun(s) = From(t, 1 + 1)
    BY <1>6, <1>8 DEF AfterRun
  <2>2. QED  BY <2>1
<1>10. QED  BY <1>5, <1>6, <1>7, <1>9, OneLineTaken

\* Lemma: a prompt that reads what was typed for it, and leaves the end of the
\* line at most.
LEMMA OwnReturn ==
    ASSUME TidyInput, NEW rest \in {<<>>, <<Newline>>}, NEW read,
           Return(rest, read), read => typed \/ ~ tidy
    PROVE  TidyInput'
<1> SUFFICES ASSUME tidy, tidy' PROVE TidyInput'
  BY DEF TidyInput, Return
<1>1. \A a \in answers : a.read => a.own
  BY DEF TidyInput
<1>2. \A a \in answers' : a.read => a.own
  BY <1>1 DEF Return
<1>3. ~ typed' /\ input' = rest
  BY DEF Return
<1>4. QED  BY <1>2, <1>3 DEF TidyInput

LEMMA TidyReprompt ==
    ASSUME TidyInput, NEW rest \in {<<>>, <<Newline>>}, Reprompt(rest)
    PROVE  TidyInput'
BY DEF TidyInput, Reprompt

\* Lemma: texts are equal that have equal characters.
LEMMA SameOne ==
    ASSUME NEW S, NEW a \in Seq(S), NEW b \in Seq(S), Len(a) = 1, Len(b) = 1, a[1] = b[1]
    PROVE  a = b
BY SeqEqual

LEMMA SameTwo ==
    ASSUME NEW S, NEW a \in Seq(S), NEW b \in Seq(S), Len(a) = 2, Len(b) = 2, a[1] = b[1], a[2] = b[2]
    PROVE  a = b
BY SeqEqual

LEMMA SameThree ==
    ASSUME NEW S, NEW a \in Seq(S), NEW b \in Seq(S), Len(a) = 3, Len(b) = 3,
           a[1] = b[1], a[2] = b[2], a[3] = b[3]
    PROVE  a = b
BY SeqEqual

\* Lemma: what a line of one word adds to nothing, or to the end of a line.
LEMMA AddedToNone ==
    ASSUME NEW S, NEW v \in S, NEW w \in S
    PROVE  /\ Append(<<w>>, v) = <<w, v>>
           /\ <<v>> \o <<v>> = <<v, v>> /\ <<v>> \o <<w, v>> = <<v, w, v>>
<1>1. /\ <<v>> \in Seq(S) /\ Len(<<v>>) = 1 /\ <<v>>[1] = v
      /\ <<w>> \in Seq(S) /\ Len(<<w>>) = 1 /\ <<w>>[1] = w
  OBVIOUS
<1>2. \A x, y \in S : /\ <<x, y>> \in Seq(S) /\ Len(<<x, y>>) = 2
                      /\ <<x, y>>[1] = x /\ <<x, y>>[2] = y
  OBVIOUS
<1>3. /\ <<v, w, v>> \in Seq(S) /\ Len(<<v, w, v>>) = 3
      /\ <<v, w, v>>[1] = v /\ <<v, w, v>>[2] = w /\ <<v, w, v>>[3] = v
  OBVIOUS
<1>4. Append(<<w>>, v) = <<w, v>>
  <2>1. /\ Append(<<w>>, v) \in Seq(S) /\ Len(Append(<<w>>, v)) = 2
        /\ Append(<<w>>, v)[1] = w /\ Append(<<w>>, v)[2] = v
    BY <1>1, AppendProperties
  <2>2. QED  BY <1>2, <2>1, SameTwo
<1>5. <<v>> \o <<v>> = <<v, v>>
  <2>1. /\ <<v>> \o <<v>> \in Seq(S) /\ Len(<<v>> \o <<v>>) = 2
        /\ (<<v>> \o <<v>>)[1] = v /\ (<<v>> \o <<v>>)[2] = v
    BY <1>1, ConcatProperties
  <2>2. QED  BY <1>2, <2>1, SameTwo
<1>6. <<v>> \o <<w, v>> = <<v, w, v>>
  <2>1. /\ <<v>> \o <<w, v>> \in Seq(S) /\ Len(<<v>> \o <<w, v>>) = 3
        /\ (<<v>> \o <<w, v>>)[1] = v /\ (<<v>> \o <<w, v>>)[2] = w /\ (<<v>> \o <<w, v>>)[3] = v
    BY <1>1, <1>2, ConcatProperties
  <2>2. QED  BY <1>3, <2>1, SameThree
<1>7. QED  BY <1>4, <1>5, <1>6

LEMMA OneOrNone ==
    ASSUME NEW S, NEW s \in Seq(S), Len(s) <= 1
    PROVE  s = <<>> \/ \E w \in S : s = <<w>>
<1>1. PICK n \in Nat : n = Len(s)
  BY LenProperties
<1>2. n <= 1
  BY <1>1
<1>3. n = 0 \/ n = 1
  BY ONLY <1>2, n \in Nat
<1>4. CASE n = 0
  BY <1>1, <1>4, EmptySeq
<1>5. CASE n = 1
  <2>0. Len(s) = 1 /\ 1 \in 1 .. 1
    BY <1>1, <1>5
  <2>1. Len(s) = 1 /\ s[1] \in S
    BY <2>0, ElementOfSeq
  <2>2. <<s[1]>> \in Seq(S) /\ Len(<<s[1]>>) = 1 /\ <<s[1]>>[1] = s[1]
    BY <2>1
  <2>3. s = <<s[1]>>
    BY <2>1, <2>2, SameOne
  <2>4. QED  BY <2>1, <2>3
<1>6. QED  BY <1>3, <1>4, <1>5

LEMMA OneWordLine ==
    ASSUME NEW line \in Lines, Len(line) <= 1
    PROVE  /\ OneLine(Append(line, Newline))
           /\ Append(line, Newline) = <<>> \o Append(line, Newline)
           /\ TidyLine(<<Newline>> \o Append(line, Newline))
<1>0. Newline \in Chars
  BY DEF Chars
<1>1. line = <<>> \/ \E w \in Chars \ {Newline} : line = <<w>>
  BY LinesTyped, OneOrNone
<1>2. Append(line, Newline) = <<>> \o Append(line, Newline)
  <2>1. Append(line, Newline) \in Seq(Chars)
    BY LinesTyped
  <2>2. QED  BY <2>1, ConcatEmptySeq
<1>3. CASE line = <<>>
  <2>1. Append(<<>>, Newline) = <<Newline>>
    OBVIOUS
  <2>2. <<Newline>> \o <<Newline>> = <<Newline, Newline>>
    BY <1>0, AddedToNone
  <2>3. QED  BY <1>2, <1>3, <2>1, <2>2 DEF OneLine, TidyLine
<1>4. ASSUME NEW w \in Chars \ {Newline}, line = <<w>>
      PROVE  OneLine(Append(line, Newline)) /\ TidyLine(<<Newline>> \o Append(line, Newline))
  <2>1. /\ Append(<<w>>, Newline) = <<w, Newline>>
        /\ <<Newline>> \o <<w, Newline>> = <<Newline, w, Newline>>
    BY <1>0, AddedToNone
  <2>2. QED  BY <1>4, <2>1 DEF OneLine, TidyLine
<1>5. QED  BY <1>1, <1>2, <1>3, <1>4

\* Lemma: a line of one word is typed where nothing but the end of an earlier
\* line is left, and only getline alone would take that for its line.
LEMMA TidyType ==
    ASSUME DataTyped, TidyInput, NEW line \in Lines, Type(line)
    PROVE  TidyInput'
<1> SUFFICES ASSUME tidy, tidy', Len(line) <= 1 PROVE TidyInput'
  BY DEF TidyInput, Type, DataTyped
<1> DEFINE full == Append(line, Newline)
<1>1. OneLine(full) /\ full = <<>> \o full /\ TidyLine(<<Newline>> \o full)
  BY OneWordLine
<1>2. TidyLine(full)
  BY <1>1 DEF TidyLine
<1> HIDE DEF full
<1>3. /\ typed' = TRUE /\ answers' = answers /\ Now' = Now /\ Now.do = "ask"
      /\ input' = (IF Now.what \in {"facilityName", "message", "duration"} THEN input ELSE <<>>)
                      \o full
  BY DEF Type, Blocked, Now, full
<1>4. CASE Now.what = "duration"
  <2>1. ~ HasLine(input)
    BY <1>4 DEF Type, Blocked
  <2>2. CASE typed
    <3>1. TidyLine(input)
      BY <2>2 DEF TidyInput
    <3>2. CASE OneLine(input)
      BY <2>1, <3>2, OneLineTaken
    <3>3. CASE input = <<Newline, Newline>> \/ \E w : input = <<Newline, w, Newline>>
      BY <2>1, <3>3 DEF HasLine
    <3>4. QED  BY <3>1, <3>2, <3>3 DEF TidyLine
  <2>3. CASE ~ typed
    <3>1. input = <<>> \/ input = <<Newline>>
      BY <2>3 DEF TidyInput
    <3>2. HasLine(<<Newline>>)
      BY DEF HasLine
    <3>3. input = <<>>
      BY <2>1, <3>1, <3>2
    <3>4. input' = full
      BY <1>1, <1>3, <3>3
    <3>5. QED  BY <1>1, <1>2, <1>3, <3>4 DEF TidyInput
  <2>4. QED  BY <2>2, <2>3
<1>5. CASE Now.what \in {"facilityName", "message"}
  <2>1. ~ HasLine(From(input, 2))
    BY <1>5 DEF Type, Blocked
  <2>2. input \in {<<>>, <<Newline>>}
    BY <2>1, TidyRest DEF TidyInput
  <2>3. input' = input \o full
    BY <1>3, <1>5
  <2>4. TidyLine(input')
    BY <1>1, <1>2, <2>2, <2>3
  <2>5. Now' # Ask("duration")
    BY <1>3, <1>5 DEF Ask
  <2>6. QED  BY <1>3, <2>4, <2>5 DEF TidyInput
<1>6. CASE Now.what \notin {"facilityName", "message", "duration"}
  <2>1. input' = full
    BY <1>1, <1>3, <1>6
  <2>2. QED  BY <1>1, <1>2, <1>3, <2>1 DEF TidyInput
<1>7. QED  BY <1>4, <1>5, <1>6

\* Lemma: the next prompt never takes the end of the line for an answer.
LEMMA TidyStep == DataTyped /\ TidyInput /\ [Next]_vars => TidyInput'
<1> SUFFICES ASSUME DataTyped, TidyInput, [Next]_vars PROVE TidyInput'
  OBVIOUS
<1>0. /\ input \in Seq(Chars)
      /\ tidy /\ ~ typed => input \in {<<>>, <<Newline>>}
      /\ tidy /\ typed => TidyLine(input)
  BY DEF DataTyped, TidyInput
<1>1. ASSUME ~ tidy, Next PROVE ~ tidy'
  <2>1. WordStep \/ LineStep \/ DurationStep \/ EndStep \/ CallStep \/ UserStep
    BY <1>0, <1>1, StepKinds
  <2>2. QED
    BY <1>1, <2>1 DEF WordStep, LineStep, DurationStep, EndStep, End, CallStep, UserStep,
                      Reprompt, Return, EndInput, Type, TypeAhead
<1>2. CASE WordStep /\ tidy
  <2>1. HasWord(input) /\ typed /\ TidyLine(input)
    BY <1>0, <1>2, NoWordThere DEF WordStep
  <2>2. \A rest \in {AfterRun(input), Discarded, AfterInt} : rest \in {<<>>, <<Newline>>}
    BY <2>1, TidyWord DEF Discarded, AfterInt
  <2>3. PICK rest \in {<<>>, <<Newline>>} : Reprompt(rest) \/ Return(rest, TRUE)
    BY <1>2, <2>2 DEF WordStep
  <2>4. QED  BY <2>1, <2>3, OwnReturn, TidyReprompt
<1>3. CASE LineStep /\ tidy
  <2>1. <<>> \in {<<>>, <<Newline>>}
    OBVIOUS
  <2>2. CASE Return(<<>>, FALSE)
    BY <2>1, <2>2, OwnReturn
  <2>3. CASE HasLine(From(input, 2)) /\ Return(AfterLine(From(input, 2)), TRUE)
    <3>1. typed /\ TidyLine(input)
      BY <1>0, <1>3, <2>3, NoWordThere
    <3>2. AfterLine(From(input, 2)) = <<>>
      BY <2>3, <3>1, TidyRest
    <3>3. QED  BY <2>1, <2>3, <3>1, <3>2, OwnReturn
  <2>4. QED  BY <1>3, <2>2, <2>3 DEF LineStep
<1>4. CASE DurationStep /\ tidy
  <2>1. <<>> \in {<<>>, <<Newline>>}
    OBVIOUS
  <2>2. CASE typed
    <3>1. AfterLine(input) = <<>>
      BY <1>4, <2>2, OneLineTaken DEF DurationStep, TidyInput
    <3>2. Reprompt(<<>>) \/ Return(<<>>, TRUE)
      BY <1>4, <3>1 DEF DurationStep
    <3>3. QED  BY <2>1, <2>2, <3>2, OwnReturn, TidyReprompt
  <2>3. CASE ~ typed
    <3>1. AfterLine(input) = <<>> /\ \A w : LineOf(input) # <<w>>
      BY <1>0, <1>4, <2>3, NoWordThere DEF DurationStep
    <3>2. Reprompt(<<>>)
      BY <1>4, <3>1 DEF DurationStep
    <3>3. QED  BY <2>1, <3>2, TidyReprompt
  <2>4. QED  BY <2>2, <2>3
<1>5. CASE EndStep \/ UNCHANGED vars
  BY <1>5 DEF EndStep, End, vars, TidyInput, Now
<1>6. CASE CallStep /\ tidy
  <2>1. ~ typed
    BY <1>6 DEF CallStep, TidyInput
  <2>2. QED  BY <1>6, <2>1 DEF CallStep, TidyInput
<1>7. CASE UserStep
  <2>1. CASE EndInput
    BY <2>1 DEF EndInput, TidyInput, Now
  <2>2. ASSUME NEW line \in Lines, Type(line) PROVE TidyInput'
    BY <2>2, TidyType
  <2>3. ASSUME NEW line \in Lines, TypeAhead(line) PROVE TidyInput'
    BY <2>3 DEF TypeAhead, TidyInput
  <2>4. QED  BY <1>7, <2>1, <2>2, <2>3 DEF UserStep
<1>8. CASE ~ tidy /\ Next
  BY <1>1, <1>8 DEF TidyInput
<1>9. QED  BY <1>0, <1>2, <1>3, <1>4, <1>5, <1>6, <1>7, <1>8, StepKinds

\* A user who types one word a line, and only when asked, answers the question on
\* the screen, whatever the handler asked before: though some prompts leave the
\* end of their line and others discard it, and the next one reads by >>, by
\* ignore and getline, or by getline alone (the prompts of UserInterface.cpp).
THEOREM OwnAnswersOnly == Spec => []OwnAnswers
<1>1. Init => AtStep /\ DataTyped /\ TidyInput
  BY InitTyped DEF Init, TidyInput
<1>2. TidyInput => OwnAnswers
  BY DEF TidyInput, OwnAnswers
<1>3. QED  BY <1>1, <1>2, ConsoleTypedStep, TidyStep, PTL DEF Spec
=============================================================================
