------------------------------- MODULE Console -------------------------------
(***************************************************************************)
(* The client's terminal: a user types lines, the prompts of               *)
(* UserInterface.cpp take them from std::cin, by >>, by ignore and by      *)
(* getline, and the handlers go from prompt to call to prompt.             *)
(*                                                                         *)
(* std::cin is what was typed and is not read yet: words, commas, blanks   *)
(* and newlines.  A prompt that finds nothing to read blocks; the user     *)
(* then types a line, or ends the input; while a call is under way a user  *)
(* may type ahead.  The outcome of a call is any; the server is not part   *)
(* of this module.                                                         *)
(***************************************************************************)
EXTENDS UserFlows, SequencesExt

CONSTANTS
    Lines,        \* the lines a user may type, sequences of words, Comma and Blank
    IntOf,        \* the int that a word stands for, of the words that fit an int
    TooBig,       \* words of digits whose number is no int
    ServerIPs, Times, BookingIDs, Yes, No,   \* the words that match each regular expression
    Comma, Blank, Newline,
    MaxAhead      \* bound: items unread when a user types ahead

ASSUME LexicalAssumption ==
    /\ \A line \in Lines : line \in Seq({line[i] : i \in DOMAIN line} \ {Newline})
    /\ Comma # Blank /\ Comma # Newline /\ Blank # Newline
    /\ DOMAIN IntOf \cap (TooBig \cup {Comma, Blank, Newline}) = {}
    /\ Yes \cap No = {}
    /\ MaxAhead \in Nat

VARIABLES
    input,     \* std::cin: what is unread
    eof,       \* the user has ended the input
    handler,   \* Start, Menu, or the choice whose handler runs
    step,      \* the step of its script
    answers,   \* of the values the handler was told so far: where they came from
    typed,     \* the user has typed a line since the prompt was shown
    tidy,      \* the user has typed one word a line, and only when asked
    ended      \* how the program ended, "no" while it runs

vars == <<input, eof, handler, step, answers, typed, tidy, ended>>

Running == ended = "no"

Now == Script(handler)[step]

Asking(prompt) == Running /\ Now = Ask(prompt)

IsSpace(x) == x \in {Blank, Newline}

-----------------------------------------------------------------------------
\* std::cin

From(s, i) == SubSeq(s, i, Len(s))

\* >> skips white space first.
Skipped(s) == From(s, SelectInSeq(s, LAMBDA x : ~ IsSpace(x)))

HasWord(s) == \E i \in 1 .. Len(s) : ~ IsSpace(s[i])

\* The characters >> takes for a string: up to the next white space.
Run(s) ==
    LET t == Skipped(s)
        n == SelectInSeq(t, IsSpace)
    IN  IF n = 0 THEN t ELSE SubSeq(t, 1, n - 1)

AfterRun(s) == From(Skipped(s), Len(Run(s)) + 1)

HasLine(s) == \E i \in 1 .. Len(s) : s[i] = Newline

LineOf(s) == SubSeq(s, 1, SelectInSeq(s, LAMBDA x : x = Newline) - 1)

\* getline, and ignore(max, '\n').
AfterLine(s) == IF HasLine(s) THEN From(s, SelectInSeq(s, LAMBDA x : x = Newline) + 1) ELSE <<>>

-----------------------------------------------------------------------------
\* What a prompt does with what it read

Goto(h, n) == handler' = h /\ step' = n

\* Faulty variant of Advance: the last step leads past the script.
AdvancePastEnd == IF step <= Len(Script(handler)) THEN Goto(handler, step + 1) ELSE Goto(Menu, 1)

\* On to the next step of the script, and from its end to the menu.
Advance == IF step < Len(Script(handler)) THEN Goto(handler, step + 1) ELSE Goto(Menu, 1)

\* The prompt returns; read is false for a value that the end of the input made up.
Return(rest, read) ==
    /\ input' = rest
    /\ typed' = FALSE
    /\ answers' = (IF handler = Menu THEN {} ELSE answers) \cup {[own |-> typed, read |-> read]}
    /\ UNCHANGED <<eof, tidy, ended>>

Accept(rest) == Return(rest, TRUE) /\ Advance

Reprompt(rest) ==
    /\ input' = rest
    /\ typed' = FALSE
    /\ UNCHANGED <<eof, handler, step, answers, tidy, ended>>

End(how) ==
    /\ ended' = how
    /\ UNCHANGED <<input, eof, handler, step, answers, typed, tidy>>

\* Faulty variant of Discarded: the fail bit is cleared, the line is left there.
DiscardedNothing == input

\* clear, and ignore up to the end of the line.
Discarded == AfterLine(Skipped(input))

\* >> to an int: what is left there is what follows the number.
HasInt == Skipped(input)[1] \in DOMAIN IntOf
TheInt == IntOf[Skipped(input)[1]]
AfterInt == From(Skipped(input), 2)

\* The loops around >> to an int or a float.
IntPrompt(prompt, good, afterBad) ==
    /\ Asking(prompt)
    /\ HasWord(input)
    /\ \/ ~ HasInt /\ Reprompt(Discarded)
       \/ HasInt /\ TheInt \notin good /\ Reprompt(afterBad)
       \/ HasInt /\ TheInt \in good /\ Return(AfterInt, TRUE)
          /\ IF handler = Menu THEN Goto(TheInt, 1) ELSE Advance

\* The loops around >> to a string that has to match one of the given words.
WordPrompt(prompt, good) ==
    /\ Asking(prompt)
    /\ HasWord(input)
    /\ \/ Run(input) \notin {<<w>> : w \in good} /\ Reprompt(AfterRun(input))
       \/ Run(input) \in {<<w>> : w \in good} /\ Accept(AfterRun(input))

\* Faulty variant of LinePrompt: there is no ignore.
LinePromptAtOnce(prompt) ==
    /\ Asking(prompt)
    /\ HasLine(input)
    /\ Accept(AfterLine(input))

\* ignore takes one character, getline the rest of the line; at the end of the
\* input neither takes anything and the text is empty.
LinePrompt(prompt) ==
    /\ Asking(prompt)
    /\ \/ HasLine(From(input, 2)) /\ Accept(AfterLine(From(input, 2)))
       \/ ~ HasLine(From(input, 2)) /\ eof /\ Return(<<>>, FALSE) /\ Advance

-----------------------------------------------------------------------------
\* The prompts

PromptServerIP == WordPrompt("serverIP", ServerIPs)

\* stoi reads a prefix; both of its exceptions are caught.
PromptServerPort ==
    /\ Asking("serverPort")
    /\ HasWord(input)
    /\ LET good == HasInt /\ TheInt >= 1 /\ TheInt <= 65535
       IN  \/ ~ good /\ Reprompt(AfterRun(input))
           \/ good /\ Accept(AfterRun(input))

PromptChoice == IntPrompt("choice", Items, AfterInt)

PromptFacilityName == LinePrompt("facilityName")

PromptDayOfWeek == IntPrompt("dayOfWeek", 1 .. 7, Discarded)

\* Faulty variant of Offends: an empty token is passed over.
OffendsUnlessEmpty(run, i) == run[i] # Comma /\ ~ (run[i] \in DOMAIN IntOf /\ IntOf[run[i]] \in 1 .. 7)

\* A token of a list of days that is no number from 1 to 7; it may be empty.
Offends(run, i) ==
    IF run[i] = Comma THEN i = 1 \/ run[i - 1] = Comma
    ELSE ~ (run[i] \in DOMAIN IntOf /\ IntOf[run[i]] \in 1 .. 7)

\* The first token that is no day decides: stoi's out_of_range is caught by
\* main only, which then returns.
\* Without any token, the first of no days is copied.
PromptDaysOfWeek ==
    /\ Asking("daysOfWeek")
    /\ HasWord(input) \/ eof
    /\ LET run   == IF HasWord(input) THEN Run(input) ELSE <<>>
           first == SelectInSeq([i \in 1 .. Len(run) |-> Offends(run, i)], LAMBDA bad : bad)
       IN  \/ first # 0 /\ run[first] \in TooBig /\ End("exception")
           \/ first # 0 /\ run[first] \notin TooBig /\ Reprompt(AfterRun(input))
           \/ first = 0 /\ ~ (\E i \in 1 .. Len(run) : run[i] # Comma) /\ End("crash")
           \/ first = 0 /\ (\E i \in 1 .. Len(run) : run[i] # Comma) /\ Accept(AfterRun(input))

PromptTime == WordPrompt("time", Times)

PromptBookingID == WordPrompt("bookingID", BookingIDs)

PromptOffset == IntPrompt("offset", {IntOf[w] : w \in DOMAIN IntOf} \ {0}, AfterInt)

\* A refusal ends the handler.
PromptConfirmation ==
    \/ WordPrompt("confirmation", Yes) /\ Run(input) \notin {<<w>> : w \in No}
    \/ /\ Asking("confirmation")
       /\ HasWord(input)
       /\ Run(input) \in {<<w>> : w \in No}
       /\ Return(AfterRun(input), TRUE)
       /\ Goto(Menu, 1)

PromptRating == IntPrompt("rating", 1 .. 5, Discarded)

\* getline alone, of digits only; out_of_range is caught.
PromptDuration ==
    /\ Asking("duration")
    /\ HasLine(input)
    /\ LET good == \E w \in DOMAIN IntOf : LineOf(input) = <<w>> /\ IntOf[w] > 0
       IN  \/ ~ good /\ Reprompt(AfterLine(input))
           \/ good /\ Accept(AfterLine(input))

\* The two lines of handleEchoMessage that read the message.
ReadMessage == LinePrompt("message")

-----------------------------------------------------------------------------
\* The steps that are no prompts

\* The constructor of Client prepares a socket and resolves the host, or exits.
Connect ==
    /\ Running
    /\ Now = Call("connect")
    /\ \/ Goto(Menu, 1) /\ UNCHANGED <<input, eof, answers, typed, tidy, ended>>
       \/ End("no server")

\* After an error the handler is left.
CallReturns ==
    /\ Running
    /\ Now.do = "call"
    /\ Now.what # "connect"
    /\ Advance \/ Goto(Menu, 1)
    /\ UNCHANGED <<input, eof, answers, typed, tidy, ended>>

ExitProgram == Running /\ Now = Exit /\ End("exit")

-----------------------------------------------------------------------------
\* The user

\* Nothing there for the prompt that is shown; >> has skipped white space.
Blocked ==
    /\ Running
    /\ ~ eof
    /\ Now.do = "ask"
    /\ CASE Now.what \in {"facilityName", "message"} -> ~ HasLine(From(input, 2))
         [] Now.what = "duration"                    -> ~ HasLine(input)
         [] OTHER                                    -> ~ HasWord(input)

Type(line) ==
    /\ Blocked
    /\ input' = (IF Now.what \in {"facilityName", "message", "duration"} THEN input ELSE <<>>)
                    \o Append(line, Newline)
    /\ typed' = TRUE
    /\ tidy' = (tidy /\ Len(line) <= 1)
    /\ UNCHANGED <<eof, handler, step, answers, ended>>

TypeAhead(line) ==
    /\ Running
    /\ ~ eof
    /\ Now.do = "call"
    /\ Len(input) <= MaxAhead
    /\ input' = input \o Append(line, Newline)
    /\ tidy' = FALSE
    /\ UNCHANGED <<eof, handler, step, answers, typed, ended>>

EndInput ==
    /\ Running
    /\ ~ eof
    /\ eof' = TRUE
    /\ UNCHANGED <<input, handler, step, answers, typed, tidy, ended>>

-----------------------------------------------------------------------------
Init ==
    /\ input = <<>>
    /\ eof = FALSE
    /\ handler = Start
    /\ step = 1
    /\ answers = {}
    /\ typed = FALSE
    /\ tidy = TRUE
    /\ ended = "no"

Program ==
    \/ PromptServerIP \/ PromptServerPort \/ PromptChoice \/ PromptFacilityName
    \/ PromptDayOfWeek \/ PromptDaysOfWeek \/ PromptTime \/ PromptBookingID \/ PromptOffset
    \/ PromptConfirmation \/ PromptRating \/ PromptDuration \/ ReadMessage
    \/ Connect \/ CallReturns \/ ExitProgram

Next ==
    \/ Program
    \/ \E line \in Lines : Type(line) \/ TypeAhead(line)
    \/ EndInput

Spec == Init /\ [][Next]_vars

\* The words a prompt takes.
Wanted(prompt) ==
    CASE prompt = "serverIP" -> ServerIPs
      [] prompt = "time" -> Times
      [] prompt = "bookingID" -> BookingIDs
      [] prompt = "confirmation" -> Yes \cup No
      [] OTHER -> {w \in DOMAIN IntOf : IntOf[w] \in 1 .. 5}

TypeWanted == \E line \in Lines : (\E w \in Wanted(Now.what) : line = <<w>>) /\ Type(line)

\* The program goes on as long as there is something to read, calls return
\* (CallReturns of module Invocation), and a user who is asked again and
\* again will at some point type what is wanted.
FairSpec == Spec /\ WF_vars(Program) /\ SF_vars(TypeWanted)

-----------------------------------------------------------------------------
(* Properties *)

\* Every component of the state has its type: a handler that has taken its last
\* step is back at the menu.
TypeOK ==
    /\ input \in Seq((UNION {{line[i] : i \in 1 .. Len(line)} : line \in Lines}) \cup {Newline})
    /\ eof \in BOOLEAN
    /\ handler \in Items \cup {Menu, Start}
    /\ step \in 1 .. Len(Script(handler))
    /\ answers \subseteq [own : BOOLEAN, read : BOOLEAN]
    /\ typed \in BOOLEAN
    /\ tidy \in BOOLEAN
    /\ ended \in {"no", "exit", "exception", "crash", "no server"}

\* A user who types one word a line and only when asked answers the question
\* on the screen: no prompt takes what is left of the line of an earlier one,
\* though some prompts leave the end of their line, some discard the line, and
\* the next one may read by >>, by ignore and getline, or by getline alone.
OwnAnswers == tidy => \A a \in answers : a.read => a.own

\* The end of the input, at which some prompts return an empty text and others
\* ask for ever, never makes a call that changes something at the server.
EofChangesNothing ==
    Now.do = "call" /\ Now.what \in Changing => \A a \in answers : a.read

\* No line a user may type crashes the program, and only a list of days can
\* end it by an exception that reaches main: every other prompt catches what
\* its conversion throws, or cannot throw.
CleanEnd ==
    /\ ended = "crash" => eof
    /\ ended = "exception" => Now = Ask("daysOfWeek")

\* A user who sooner or later types what is wanted gets back to the menu,
\* whatever was typed before: no prompt is left in a state where it cannot
\* read any more.
BackToMenu == []<>(Asking("choice") \/ eof \/ ~ Running)
=============================================================================
