------------------------- MODULE BookingSystemProofs -------------------------
(***************************************************************************)
(* Times through texts, for all that two characters can hold; what the     *)
(* server takes a client's request for; and what a reply says of the       *)
(* bookings, through the labels to the box.                                *)
(*                                                                         *)
(* Then the whole system for any users, answers, facilities and number of  *)
(* calls: what users type and what becomes of their calls leaves the       *)
(* facilities well kept; what is on a screen is true; bookings are asked   *)
(* for, and updates move them.                                             *)
(***************************************************************************)
EXTENDS BookingSystem, FacilityOpsProofs, SequenceTheorems

\* Numbers that %02d writes in two characters.
TwoCharacters == -9 .. 99

TextTime == [hour : TwoCharacters, minute : TwoCharacters]

\* Lemma: two characters are what %02d makes of them.
LEMMA PaddedPair ==
    ASSUME NEW n \in TwoCharacters
    PROVE  \E a, b : Padded(n) = <<a, b>>
<1>1. CASE n \in 0 .. 99
  BY <1>1 DEF Padded
<1>2. CASE n \in -9 .. -1
  <2>1. n \notin 0 .. 99
    BY <1>2
  <2>2. QED  BY <1>2, <2>1 DEF Padded
<1>3. QED  BY <1>1, <1>2 DEF TwoCharacters

\* Lemma: a number of two characters is read as it was written (%02d, stoi).
LEMMA PaddedExact ==
    ASSUME NEW n \in TwoCharacters
    PROVE  Len(Padded(n)) = 2 /\ ReadInt(Padded(n)[1], Padded(n)[2]) = n
<1>1. CASE n \in 0 .. 99
  <2>1. Padded(n) = <<n \div 10, n % 10>>
    BY <1>1 DEF Padded
  <2>2. n \div 10 \in 0 .. 9 /\ n % 10 \in 0 .. 9 /\ 10 * (n \div 10) + (n % 10) = n
    BY <1>1 DEF TwoCharacters
  <2>3. QED  BY <2>1, <2>2 DEF ReadInt, Minus
<1>2. CASE n \in -9 .. -1
  <2>1. n \notin 0 .. 99
    BY <1>2
  <2>2. Padded(n) = <<Minus, -n>>
    BY <1>2, <2>1 DEF Padded
  <2>3. QED  BY <1>2, <2>2 DEF ReadInt, Minus
<1>3. QED  BY <1>1, <1>2 DEF TwoCharacters

\* A time goes from the server's reply through the client's substr and stoi
\* unchanged as long as hours and minutes take two characters each, negative
\* ones included (%02d%02d in Server.java, extractStartTime in Client.cpp).
THEOREM TimeTextExact ==
    ASSUME NEW t \in TextTime
    PROVE  ReadTime(TimeText(t)) = t
<1>1. t.hour \in TwoCharacters /\ t.minute \in TwoCharacters /\ t = [hour |-> t.hour, minute |-> t.minute]
  BY DEF TextTime
<1> DEFINE p == Padded(t.hour)
           q == Padded(t.minute)
<1>2. Len(p) = 2 /\ Len(q) = 2 /\ ReadInt(p[1], p[2]) = t.hour /\ ReadInt(q[1], q[2]) = t.minute
  BY <1>1, PaddedExact
<1>3. \E a, b : p = <<a, b>>
  BY <1>1, PaddedPair
<1>4. \E a, b : q = <<a, b>>
  BY <1>1, PaddedPair
<1> HIDE DEF p, q
<1>5. /\ (p \o q)[1] = p[1] /\ (p \o q)[2] = p[2]
      /\ (p \o q)[3] = q[1] /\ (p \o q)[4] = q[2]
  BY <1>3, <1>4
<1>6. TimeText(t) = p \o q
  BY DEF TimeText, p, q
<1>7. QED  BY <1>1, <1>2, <1>5, <1>6 DEF ReadTime, At

\* Lemma: the fields of an update, one after the other.
LEMMA EightFields ==
    ASSUME NEW a, NEW b, NEW c, NEW d, NEW e, NEW f, NEW g, NEW h
    PROVE  /\ Len(<<a, b, c, d>> \o <<e, f, g, h>>) = 8
           /\ (<<a, b, c, d>> \o <<e, f, g, h>>)[1] = a
           /\ (<<a, b, c, d>> \o <<e, f, g, h>>)[2] = b
           /\ (<<a, b, c, d>> \o <<e, f, g, h>>)[3] = c
           /\ (<<a, b, c, d>> \o <<e, f, g, h>>)[4] = d
           /\ (<<a, b, c, d>> \o <<e, f, g, h>>)[5] = e
           /\ (<<a, b, c, d>> \o <<e, f, g, h>>)[6] = f
           /\ (<<a, b, c, d>> \o <<e, f, g, h>>)[7] = g
           /\ (<<a, b, c, d>> \o <<e, f, g, h>>)[8] = h
OBVIOUS

-----------------------------------------------------------------------------
(* What the server takes a request for *)

\* Lemma: a time of two numbers.
LEMMA TimeTypes ==
    ASSUME NEW F, NEW I, AreNumbers(F, I), NEW i, i \in I, i + 1 \in I
    PROVE  AsTime(F, i) \in ClockTime
BY DEF AreNumbers, AsTime, At, ClockTime

\* Lemma: the READ branch makes queries.
LEMMA ReadIsValid ==
    ASSUME NEW F, ParseRead(F).as = "request"
    PROVE  ValidRequest(ParseRead(F).request)
<1> USE DEF ParseRead, Parsed, Refused, Fatal
<1> SUFFICES ParseRead(F).request.kind \in {"facilities", "availability", "booking", "rating"}
  BY DEF ValidRequest, Kinds
<1>1. CASE F = <<>> \/ Len(F) = 1
  BY <1>1
<1>2. CASE F # <<>> /\ Len(F) # 1
  <2>1. CASE F[1] = Word("facility")
    BY <1>2, <2>1 DEF Word
  <2>2. CASE F[1] = Word("booking")
    BY <1>2, <2>2 DEF Word
  <2>3. CASE F[1] = Word("rating")
    BY <1>2, <2>3 DEF Word
  <2>4. CASE F[1] \notin {Word("facility"), Word("booking"), Word("rating")}
    BY <1>2, <2>4
  <2>5. QED  BY <2>1, <2>2, <2>3, <2>4
<1>3. QED  BY <1>1, <1>2

\* Lemma: the WRITE branch makes bookings of a day and two times.
LEMMA WriteIsValid ==
    ASSUME NEW F, ParseWrite(F).as = "request"
    PROVE  ValidRequest(ParseWrite(F).request)
<1>1. /\ IsDay(F[2]) /\ AreNumbers(F, 3 .. 6)
      /\ ParseWrite(F).request = [kind |-> "book", facility |-> AsName(F[1]), day |-> F[2][2],
                                  start |-> AsTime(F, 3), end |-> AsTime(F, 5)]
  BY DEF ParseWrite, Parsed, Refused
<1>2. AsTime(F, 3) \in ClockTime /\ AsTime(F, 5) \in ClockTime /\ F[2][2] \in Days
  BY <1>1, TimeTypes DEF IsDay
<1>3. QED  BY <1>1, <1>2 DEF ValidRequest, Kinds

\* Lemma: the UPDATE branch makes updates of a day and two times, and ratings.
LEMMA UpdateIsValid ==
    ASSUME NEW F, ParseUpdate(F).as = "request"
    PROVE  ValidRequest(ParseUpdate(F).request)
<1>1. F # <<>>
  BY DEF ParseUpdate, Refused
<1>2. CASE F[1] = Word("booking")
  <2>1. /\ IsDay(F[4]) /\ AreNumbers(F, 5 .. 8)
        /\ ParseUpdate(F).request = [kind |-> "update", id |-> AsID(F[2]), facility |-> AsName(F[3]),
                                     day |-> F[4][2], start |-> AsTime(F, 5), end |-> AsTime(F, 7)]
    BY <1>1, <1>2 DEF ParseUpdate, Parsed, Refused, Word
  <2>2. AsTime(F, 5) \in ClockTime /\ AsTime(F, 7) \in ClockTime /\ F[4][2] \in Days
    BY <2>1, TimeTypes DEF IsDay
  <2>3. QED  BY <2>1, <2>2 DEF ValidRequest, Kinds
<1>3. CASE F[1] = Word("rating")
  <2>1. /\ AreNumbers(F, {3})
        /\ ParseUpdate(F).request = [kind |-> "rate", facility |-> AsName(F[2]), rating |-> F[3][2]]
    BY <1>1, <1>3 DEF ParseUpdate, Parsed, Refused, Word
  <2>2. F[3][2] \in Int
    BY <2>1 DEF AreNumbers
  <2>3. QED  BY <2>1, <2>2 DEF ValidRequest, Kinds
<1>4. CASE F[1] \notin {Word("booking"), Word("rating")}
  BY <1>1, <1>4 DEF ParseUpdate, Refused
<1>5. QED  BY <1>2, <1>3, <1>4

\* Lemma: a text is a request, is refused, or ends the server.
LEMMA ParseOutcomes ==
    ASSUME NEW m
    PROVE  ParseRequest(m) = Fatal \/ ParseRequest(m).as \in {"request", "error"}
<1> DEFINE F == Split(m.fields)
           Ends(p) == p = Fatal \/ p.as \in {"request", "error"}
<1> HIDE DEF F
<1>1. Ends(ParseRead(F))
  <2> USE DEF ParseRead, Parsed, Refused
  <2>1. CASE F = <<>> \/ Len(F) = 1
    BY <2>1
  <2>2. CASE F # <<>> /\ Len(F) # 1
    <3>1. CASE F[1] = Word("facility")
      BY <2>2, <3>1
    <3>2. CASE F[1] = Word("booking")
      BY <2>2, <3>2 DEF Word
    <3>3. CASE F[1] = Word("rating")
      BY <2>2, <3>3 DEF Word
    <3>4. CASE F[1] \notin {Word("facility"), Word("booking"), Word("rating")}
      BY <2>2, <3>4
    <3>5. QED  BY <3>1, <3>2, <3>3, <3>4
  <2>3. QED  BY <2>1, <2>2
<1>2. Ends(ParseWrite(F)) /\ Ends(ParseDelete(F))
  BY DEF ParseWrite, ParseDelete, Parsed, Refused
<1>3. Ends(ParseUpdate(F))
  <2> USE DEF ParseUpdate, Parsed, Refused
  <2>1. CASE F[1] = Word("booking")
    BY <2>1
  <2>2. CASE F[1] = Word("rating")
    BY <2>2 DEF Word
  <2>3. CASE F[1] \notin {Word("booking"), Word("rating")}
    BY <2>3
  <2>4. QED  BY <2>1, <2>2, <2>3
<1>4. Ends(Refused("Unknown operation"))
  BY DEF Refused
<1>5. ParseRequest(m) \in {ParseRead(F), ParseWrite(F), ParseUpdate(F), ParseDelete(F),
                           Refused("Unknown operation")}
  <2>1. CASE m.op = "READ"
    BY <2>1 DEF ParseRequest, F
  <2>2. CASE m.op = "WRITE"
    BY <2>2 DEF ParseRequest, F
  <2>3. CASE m.op = "UPDATE"
    BY <2>3 DEF ParseRequest, F
  <2>4. CASE m.op = "DELETE"
    BY <2>4 DEF ParseRequest, F
  <2>5. CASE m.op \notin {"READ", "WRITE", "UPDATE", "DELETE"}
    BY <2>5 DEF ParseRequest, F
  <2>6. QED  BY <2>1, <2>2, <2>3, <2>4, <2>5
<1> HIDE DEF Ends
<1>6. Ends(ParseRequest(m))
  BY <1>1, <1>2, <1>3, <1>4, <1>5
<1>7. QED  BY <1>6 DEF Ends

\* Whatever a client sends, the handlers are given well-formed requests only:
\* what is none is refused or ends the server (Parser.java, and the switch of
\* handleRequest).
THEOREM ParsedIsValid ==
    ASSUME NEW m, ParseRequest(m).as = "request"
    PROVE  ValidRequest(ParseRequest(m).request)
<1> DEFINE F == Split(m.fields)
<1> HIDE DEF F
<1>1. CASE m.op = "READ"
  <2>1. ParseRequest(m) = ParseRead(F)
    BY <1>1 DEF ParseRequest, F
  <2>2. QED  BY <2>1, ReadIsValid
<1>2. CASE m.op = "WRITE"
  <2>1. ParseRequest(m) = ParseWrite(F)
    BY <1>2 DEF ParseRequest, F
  <2>2. QED  BY <2>1, WriteIsValid
<1>3. CASE m.op = "UPDATE"
  <2>1. ParseRequest(m) = ParseUpdate(F)
    BY <1>3 DEF ParseRequest, F
  <2>2. QED  BY <2>1, UpdateIsValid
<1>4. CASE m.op = "DELETE"
  <2>1. ParseRequest(m) = ParseDelete(F)
    BY <1>4 DEF ParseRequest, F
  <2>2. ParseRequest(m).request.kind = "delete"
    BY <2>1 DEF ParseDelete, Parsed, Refused
  <2>3. QED  BY <2>2 DEF ValidRequest, Kinds
<1>5. CASE m.op \notin {"READ", "WRITE", "UPDATE", "DELETE"}
  BY <1>5 DEF ParseRequest, Refused
<1>6. QED  BY <1>1, <1>2, <1>3, <1>4, <1>5

-----------------------------------------------------------------------------
(* What the server makes of each request of the client *)

\* Lemma: a sequence up to its last entry that is not w.
LEMMA UpTo ==
    ASSUME NEW S, NEW s \in Seq(S), NEW w, NEW k \in 1 .. Len(s),
           \A j \in 1 .. Len(s) : s[j] # w => k >= j
    PROVE  /\ Len(SubSeq(s, 1, k)) \in 1 .. Len(s)
           /\ \A i \in 1 .. Len(SubSeq(s, 1, k)) : SubSeq(s, 1, k)[i] = s[i]
           /\ s[Len(s)] # w => SubSeq(s, 1, k) = s
<1>1. Len(SubSeq(s, 1, k)) = k /\ \A i \in 1 .. k : SubSeq(s, 1, k)[i] = s[i]
  OBVIOUS
<1>2. s[Len(s)] # w => k = Len(s)
  OBVIOUS
<1>3. SubSeq(s, 1, Len(s)) = s
  OBVIOUS
<1>4. QED  BY <1>1, <1>2, <1>3

LEMMA LastOther ==
    ASSUME NEW S, NEW s \in Seq(S), s # <<>>, NEW w, s[1] # w
    PROVE  \E k \in 1 .. Len(s) :
               /\ k = SelectLastInSeq(s, LAMBDA x : x # w)
               /\ \A j \in 1 .. Len(s) : s[j] # w => k >= j
<1> DEFINE I == {i \in 1 .. Len(s) : s[i] # w}
<1>1. Len(s) \in Nat /\ 1 \in I /\ I \subseteq 1 .. Len(s)
  OBVIOUS
<1>2. \E i \in I : \A j \in I : i >= j
  <2>1. I # {}
    BY <1>1
  <2> HIDE DEF I
  <2>2. QED  BY <1>1, <2>1, GreatestIndex
<1>3. Max(I) \in I /\ \A j \in I : Max(I) >= j
  <2> HIDE DEF I
  <2>1. QED  BY <1>2 DEF Max
<1>4. SelectLastInSeq(s, LAMBDA x : x # w) = Max(I)
  BY <1>1 DEF SelectLastInSeq
<1>5. \A j \in 1 .. Len(s) : s[j] # w => j \in I
  OBVIOUS
<1> HIDE DEF I
<1>6. QED  BY <1>1, <1>3, <1>4, <1>5

\* Lemma: String.split takes fields off the end only, and none if the last one
\* is not empty.
LEMMA SplitPrefix ==
    ASSUME NEW S, NEW s \in Seq(S), s # <<>>, s[1] # Word("")
    PROVE  /\ Len(Split(s)) \in 1 .. Len(s)
           /\ \A i \in 1 .. Len(Split(s)) : Split(s)[i] = s[i]
           /\ s[Len(s)] # Word("") => Split(s) = s
<1> DEFINE w == Word("")
<1> HIDE DEF w
<1>1. s[1] # w
  BY DEF w
<1>2. PICK k \in 1 .. Len(s) : /\ k = SelectLastInSeq(s, LAMBDA x : x # w)
                              /\ \A j \in 1 .. Len(s) : s[j] # w => k >= j
  BY <1>1, LastOther
<1>3. Split(s) = SubSeq(s, 1, k)
  BY <1>2 DEF Split, w
<1>4. /\ Len(SubSeq(s, 1, k)) \in 1 .. Len(s)
      /\ \A i \in 1 .. Len(SubSeq(s, 1, k)) : SubSeq(s, 1, k)[i] = s[i]
      /\ s[Len(s)] # w => SubSeq(s, 1, k) = s
  BY <1>2, UpTo
<1>5. QED  BY <1>3, <1>4 DEF w

\* Lemma: the operations of the request texts.
LEMMA ParseByOperation ==
    ASSUME NEW m
    PROVE  /\ m.op = "READ" => ParseRequest(m) = ParseRead(Split(m.fields))
           /\ m.op = "WRITE" => ParseRequest(m) = ParseWrite(Split(m.fields))
           /\ m.op = "UPDATE" => ParseRequest(m) = ParseUpdate(Split(m.fields))
           /\ m.op = "DELETE" => ParseRequest(m) = ParseDelete(Split(m.fields))
BY DEF ParseRequest

\* Lemma: of the operations, only READ can end the server, and each makes
\* requests of its own kinds.
LEMMA KindsOfOperations ==
    ASSUME NEW F
    PROVE  /\ ParseWrite(F) # Fatal /\ ParseUpdate(F) # Fatal /\ ParseDelete(F) # Fatal
           /\ ParseWrite(F).as = "request" => ParseWrite(F).request.kind = "book"
           /\ ParseDelete(F).as = "request" => /\ ParseDelete(F).request.kind = "delete"
                                               /\ ParseDelete(F).request.id = AsID(F[1])
                                               /\ Len(F) >= 2
           /\ ParseUpdate(F).as = "request" /\ F[1] = Word("rating") => ParseUpdate(F).request.kind = "rate"
           /\ ParseUpdate(F).as = "request" /\ F[1] = Word("booking") =>
                  /\ ParseUpdate(F).request.kind = "update"
                  /\ ParseUpdate(F).request.id = AsID(F[2])
                  /\ ParseUpdate(F).request.facility = AsName(F[3])
                  /\ ParseUpdate(F).request.day = F[4][2]
<1> USE DEF Fatal, Parsed, Refused
<1>1. /\ ParseWrite(F) # Fatal
      /\ ParseWrite(F).as = "request" => ParseWrite(F).request.kind = "book"
  <2>1. CASE Len(F) >= 2 /\ IsDay(F[2]) /\ AreNumbers(F, 3 .. 6)
    BY <2>1 DEF ParseWrite
  <2>2. CASE ~ (Len(F) >= 2 /\ IsDay(F[2]) /\ AreNumbers(F, 3 .. 6))
    BY <2>2 DEF ParseWrite
  <2>3. QED  BY <2>1, <2>2
<1>2. /\ ParseDelete(F) # Fatal
      /\ ParseDelete(F).as = "request" => /\ ParseDelete(F).request.kind = "delete"
                                          /\ ParseDelete(F).request.id = AsID(F[1])
                                          /\ Len(F) >= 2
  BY DEF ParseDelete
<1>3. ParseUpdate(F) # Fatal
  <2>1. CASE F = <<>>
    BY <2>1 DEF ParseUpdate
  <2>2. CASE F # <<>> /\ F[1] = Word("booking")
    BY <2>2 DEF ParseUpdate
  <2>3. CASE F # <<>> /\ F[1] = Word("rating")
    BY <2>3 DEF ParseUpdate, Word
  <2>4. CASE F # <<>> /\ F[1] \notin {Word("booking"), Word("rating")}
    BY <2>4 DEF ParseUpdate
  <2>5. QED  BY <2>1, <2>2, <2>3, <2>4
<1>4. ASSUME ParseUpdate(F).as = "request", F[1] = Word("rating")
      PROVE  ParseUpdate(F).request.kind = "rate"
  BY <1>4 DEF ParseUpdate, Word
<1>5. ASSUME ParseUpdate(F).as = "request", F[1] = Word("booking")
      PROVE  /\ ParseUpdate(F).request.kind = "update"
             /\ ParseUpdate(F).request.id = AsID(F[2])
             /\ ParseUpdate(F).request.facility = AsName(F[3])
             /\ ParseUpdate(F).request.day = F[4][2]
  <2>1. F # <<>>
    BY <1>5 DEF ParseUpdate
  <2>2. ParseUpdate(F) =
            IF Len(F) = 8 /\ IsDay(F[4]) /\ AreNumbers(F, 5 .. 8)
            THEN Parsed([kind |-> "update", id |-> AsID(F[2]), facility |-> AsName(F[3]), day |-> F[4][2],
                         start |-> AsTime(F, 5), end |-> AsTime(F, 7)])
            ELSE Refused("exception")
    BY <1>5, <2>1 DEF ParseUpdate, Word
  <2>3. Len(F) = 8 /\ IsDay(F[4]) /\ AreNumbers(F, 5 .. 8)
    BY <1>5, <2>2
  <2>4. ParseUpdate(F) = Parsed([kind |-> "update", id |-> AsID(F[2]), facility |-> AsName(F[3]),
                                 day |-> F[4][2], start |-> AsTime(F, 5), end |-> AsTime(F, 7)])
    BY <2>2, <2>3
  <2>5. QED  BY <2>4
<1>6. QED  BY <1>1, <1>2, <1>3, <1>4, <1>5

\* Lemma: a pair, as a sequence.
LEMMA Pair ==
    ASSUME NEW a, NEW b
    PROVE  /\ <<a, b>> \in Seq({a, b}) /\ <<a, b>> # <<>>
           /\ <<a, b>>[1] = a /\ <<a, b>>[2] = b /\ Len(<<a, b>>) = 2
OBVIOUS

\* Lemma: what Split makes of two fields.
LEMMA SplitPair ==
    ASSUME NEW a, NEW b, NEW w, NEW F,
           /\ Len(F) \in 1 .. Len(<<a, b>>)
           /\ \A i \in 1 .. Len(F) : F[i] = <<a, b>>[i]
           /\ <<a, b>>[Len(<<a, b>>)] # w => F = <<a, b>>
    PROVE  /\ Len(F) \in 1 .. 2
           /\ F[1] = a
           /\ Len(F) = 2 => F[2] = b
           /\ b # w => F = <<a, b>>
BY Pair

LEMMA TwoFields ==
    ASSUME NEW a, NEW b, a # Word("")
    PROVE  LET F == Split(<<a, b>>)
           IN  /\ Len(F) \in 1 .. 2
               /\ F[1] = a
               /\ Len(F) = 2 => F[2] = b
               /\ b # Word("") => F = <<a, b>>
<1> DEFINE w == Word("")
           s == <<a, b>>
<1>1. s \in Seq({a, b}) /\ s # <<>> /\ s[1] = a
  BY Pair
<1> HIDE DEF s
<1>2. /\ Len(Split(s)) \in 1 .. Len(s)
      /\ \A i \in 1 .. Len(Split(s)) : Split(s)[i] = s[i]
      /\ s[Len(s)] # w => Split(s) = s
  BY <1>1, SplitPrefix
<1> HIDE DEF w
<1> DEFINE F == Split(s)
<1> HIDE DEF F
<1>3. /\ Len(F) \in 1 .. Len(<<a, b>>)
      /\ \A i \in 1 .. Len(F) : F[i] = <<a, b>>[i]
      /\ <<a, b>>[Len(<<a, b>>)] # w => F = <<a, b>>
  BY <1>2 DEF F, s
<1>4. /\ Len(F) \in 1 .. 2
      /\ F[1] = a
      /\ Len(F) = 2 => F[2] = b
      /\ b # w => F = <<a, b>>
  BY ONLY <1>3, SplitPair
<1>5. QED  BY <1>4 DEF F, s, w

\* Lemma: the READ branch, by the first field.
LEMMA ReadByField ==
    ASSUME NEW F, F # <<>>, Len(F) # 1
    PROVE  /\ F[1] = Word("facility") /\ F[2] = Word("ALL") => ParseRead(F) = Parsed([kind |-> "facilities"])
           /\ F[1] = Word("facility") /\ F[2] # Word("ALL") /\ (\A i \in 3 .. Len(F) : IsDay(F[i])) =>
                  ParseRead(F) = Parsed([kind |-> "availability", facility |-> AsName(F[2]),
                                         days |-> {F[i][2] : i \in 3 .. Len(F)}])
           /\ F[1] = Word("facility") /\ ParseRead(F).as = "request" =>
                  ParseRead(F).request.kind \in {"facilities", "availability"}
           /\ F[1] = Word("booking") => ParseRead(F) = Parsed([kind |-> "booking", id |-> AsID(F[2])])
           /\ F[1] = Word("rating") => ParseRead(F) = Parsed([kind |-> "rating", facility |-> AsName(F[2])])
<1>1. CASE F[1] = Word("facility")
  BY <1>1 DEF ParseRead, Word, Parsed, Fatal
<1>2. CASE F[1] = Word("booking")
  BY <1>2 DEF ParseRead, Word
<1>3. CASE F[1] = Word("rating")
  BY <1>3 DEF ParseRead, Word
<1>4. QED  BY <1>1, <1>2, <1>3 DEF Word

\* Lemma: what a list of fields begins with is no empty word.
LEMMA Beginnings ==
    ASSUME NEW id
    PROVE  /\ Word("facility") # Word("") /\ Word("booking") # Word("") /\ Word("rating") # Word("")
           /\ ID(id) # Word("") /\ Number(id) # Word("") /\ Word("ALL") # Word("")
BY DEF Word, ID, Number

\* Lemma: the query of the facilities' names is one.
LEMMA NamesQueryParsed == ParseRequest(QueryFacilityNames) = Parsed([kind |-> "facilities"])
<1> DEFINE s == <<Word("facility"), Word("ALL")>>
<1>1. Split(s) = s
  BY TwoFields, Beginnings
<1>2. ParseRequest(QueryFacilityNames) = ParseRead(s)
  BY <1>1 DEF ParseRequest, QueryFacilityNames, RequestMessage
<1>3. ParseRead(s) = Parsed([kind |-> "facilities"])
  <2>1. s # <<>> /\ Len(s) # 1 /\ s[1] = Word("facility") /\ s[2] = Word("ALL")
    BY Pair
  <2> HIDE DEF s
  <2>2. QED  BY <2>1, ReadByField
<1>4. QED  BY <1>2, <1>3

\* Lemma: the query of a booking is one, of that booking.
LEMMA BookingQueryParsed ==
    ASSUME NEW id
    PROVE  ParseRequest(QueryBooking(id)) = Parsed([kind |-> "booking", id |-> id])
<1> DEFINE s == <<Word("booking"), ID(id)>>
<1>1. Split(s) = s
  BY TwoFields, Beginnings
<1>2. ParseRequest(QueryBooking(id)) = ParseRead(s)
  BY <1>1 DEF ParseRequest, QueryBooking, RequestMessage
<1>3. ParseRead(s) = Parsed([kind |-> "booking", id |-> AsID(ID(id))])
  <2>1. s # <<>> /\ Len(s) # 1 /\ s[1] = Word("booking") /\ s[2] = ID(id)
    BY Pair
  <2> HIDE DEF s
  <2>2. QED  BY <2>1, ReadByField
<1>4. AsID(ID(id)) = id
  BY DEF AsID, ID
<1>5. QED  BY <1>2, <1>3, <1>4

\* Lemma: the deletion of a booking is one, of that booking, or is refused.
LEMMA DeletionParsed ==
    ASSUME NEW id, NEW details
    PROVE  LET p == ParseRequest(DeleteBookingRequest(id, details))
           IN  p # Fatal /\ (p.as = "request" => p.request.kind = "delete" /\ p.request.id = id)
<1> DEFINE s == <<ID(id), Word(ExtractFacilityName(details))>>
           F == Split(s)
<1>1. F[1] = ID(id)
  BY TwoFields, Beginnings
<1>2. ParseRequest(DeleteBookingRequest(id, details)) = ParseDelete(F)
  BY DEF ParseRequest, DeleteBookingRequest, RequestMessage
<1>3. AsID(ID(id)) = id
  BY DEF AsID, ID
<1> HIDE DEF F
<1>4. QED  BY <1>1, <1>2, <1>3, KindsOfOperations

\* Lemma: a request to book can be none but that.
LEMMA BookParsed ==
    ASSUME NEW name, NEW day, NEW s, NEW e
    PROVE  LET p == ParseRequest(BookFacilityRequest(name, day, s, e))
           IN  p # Fatal /\ (p.as = "request" => p.request.kind = "book")
<1> DEFINE r == BookFacilityRequest(name, day, s, e)
<1>1. r.op = "WRITE"
  BY DEF BookFacilityRequest, RequestMessage
<1>2. ParseRequest(r) = ParseWrite(Split(r.fields))
  BY <1>1, ParseByOperation
<1>3. QED  BY <1>2, KindsOfOperations

\* Lemma: a word, a name and one field more.
LEMMA NameBetween ==
    ASSUME NEW S, NEW name \in Seq(S), name # <<>>, NEW a, NEW b
    PROVE  /\ <<a>> \o name \in Seq(S \cup {a}) /\ <<a>> \o name # <<>>
           /\ (<<a>> \o name)[1] = a /\ Len(<<a>> \o name) = Len(name) + 1
           /\ <<a>> \o name \o <<b>> \in Seq(S \cup {a, b}) /\ <<a>> \o name \o <<b>> # <<>>
           /\ (<<a>> \o name \o <<b>>)[1] = a
           /\ Len(<<a>> \o name \o <<b>>) = Len(name) + 2
           /\ (<<a>> \o name \o <<b>>)[Len(<<a>> \o name \o <<b>>)] = b
<1> DEFINE T == S \cup {a, b}
           p == <<a>>
           q == <<b>>
           s == p \o name
           t == s \o q
<1>1. name \in Seq(T) /\ p \in Seq(T) /\ q \in Seq(T) /\ p \in Seq(S \cup {a}) /\ name \in Seq(S \cup {a})
  OBVIOUS
<1>2. Len(p) = 1 /\ p[1] = a /\ Len(q) = 1 /\ q[1] = b /\ Len(name) >= 1
  OBVIOUS
<1> HIDE DEF T, p, q
<1>3. s \in Seq(T) /\ s \in Seq(S \cup {a}) /\ Len(s) = Len(name) + 1 /\ s[1] = a
  <2>1. 1 \in 1 .. Len(p) + Len(name) /\ 1 <= Len(p)
    BY <1>2
  <2>2. QED  BY <1>1, <1>2, <2>1, ConcatProperties
<1>4. s # <<>>
  BY <1>3
<1> HIDE DEF s
<1>5. t \in Seq(T) /\ Len(t) = Len(name) + 2 /\ t[1] = a /\ t[Len(t)] = b
  <2> DEFINE n == Len(name)
  <2>1. n \in Nat /\ n >= 1
    OBVIOUS
  <2>2. /\ t \in Seq(T) /\ Len(t) = Len(s) + Len(q)
        /\ \A i \in 1 .. Len(s) + Len(q) : t[i] = IF i <= Len(s) THEN s[i] ELSE q[i - Len(s)]
    BY <1>1, <1>3, ConcatProperties
  <2> HIDE DEF t, n
  <2>3. Len(s) = n + 1 /\ Len(q) = 1
    BY <1>2, <1>3 DEF n
  <2>4. /\ Len(t) = n + 2
        /\ t[1] = s[1] /\ t[n + 2] = q[1]
    BY ONLY <2>1, <2>2, <2>3
  <2>5. QED  BY <1>2, <1>3, <2>2, <2>4 DEF n
<1>6. t # <<>>
  BY <1>5
<1>7. QED  BY <1>3, <1>4, <1>5, <1>6 DEF T, p, q, s, t

\* Lemma: a rating is one, or is refused.
LEMMA RatingParsed ==
    ASSUME NEW S, NEW name \in Seq(S), name # <<>>, NEW rating
    PROVE  LET p == ParseRequest(RateFacility(name, rating))
           IN  p # Fatal /\ (p.as = "request" => p.request.kind = "rate")
<1> DEFINE a == Word("rating")
           b == Number(rating)
           s == <<a>> \o name \o <<b>>
           T == S \cup {a, b}
<1>1. ParseRequest(RateFacility(name, rating)) = ParseUpdate(Split(s))
  BY DEF ParseRequest, RateFacility, RequestMessage
<1>2. a # Word("") /\ b # Word("")
  BY Beginnings
<1> HIDE DEF a, b
<1>3. s \in Seq(T) /\ s # <<>> /\ s[1] = a /\ s[Len(s)] = b
  BY ONLY NameBetween, name \in Seq(S), name # <<>>
<1> HIDE DEF s, T
<1>4. Split(s) = s
  BY <1>2, <1>3, SplitPrefix
<1>5. ParseUpdate(s) # Fatal /\ (ParseUpdate(s).as = "request" => ParseUpdate(s).request.kind = "rate")
  BY <1>3, KindsOfOperations DEF a
<1>6. QED  BY <1>1, <1>4, <1>5

\* Lemma: a query of a rating is one, or is refused.
LEMMA RatingQueryParsed ==
    ASSUME NEW S, NEW name \in Seq(S), name # <<>>
    PROVE  LET p == ParseRequest(QueryRating(name))
           IN  p # Fatal /\ (p.as = "request" => p.request.kind = "rating")
<1> DEFINE a == Word("rating")
           s == <<a>> \o name
           T == S \cup {a}
           F == Split(s)
<1>1. ParseRequest(QueryRating(name)) = ParseRead(F)
  BY DEF ParseRequest, QueryRating, RequestMessage
<1>2. a # Word("")
  BY Beginnings
<1> HIDE DEF a
<1>3. s \in Seq(T) /\ s # <<>> /\ s[1] = a
  BY ONLY NameBetween, name \in Seq(S), name # <<>>
<1> HIDE DEF s, T
<1>4. Len(F) \in 1 .. Len(s) /\ \A i \in 1 .. Len(F) : F[i] = s[i]
  BY <1>2, <1>3, SplitPrefix
<1>5. F[1] = a /\ F # <<>>
  <2> HIDE DEF F
  <2>1. F[1] = a
    BY ONLY <1>3, <1>4
  <2>2. ASSUME F = <<>> PROVE FALSE
    BY ONLY <1>4, <2>2
  <2>3. QED  BY <2>1, <2>2
<1> HIDE DEF F
<1>6. CASE Len(F) = 1
  <2>1. ParseRead(F) = Refused("Invalid request format")
    BY ONLY <1>5, <1>6 DEF ParseRead
  <2>2. ParseRead(F) # Fatal /\ ParseRead(F).as # "request"
    <3>1. Refused("Invalid request format").as = "error" /\ Fatal.as = "fatal"
      BY ONLY TRUE DEF Refused, Fatal
    <3>2. QED  BY ONLY <2>1, <3>1
  <2>3. QED  BY <1>1, <2>2
<1>7. CASE Len(F) # 1
  <2>1. ParseRead(F) = Parsed([kind |-> "rating", facility |-> AsName(F[2])])
    BY <1>5, <1>7, ReadByField DEF a
  <2>2. QED  BY <1>1, <2>1 DEF Parsed, Fatal
<1>8. QED  BY <1>6, <1>7

\* Lemma: the fields of an update are what the client made them.
LEMMA EightFieldsTyped ==
    ASSUME NEW a, NEW b, NEW c, NEW d, NEW e, NEW f, NEW g, NEW h
    PROVE  <<a, b, c, d>> \o <<e, f, g, h>> \in Seq({a, b, c, d, e, f, g, h})
<1> DEFINE T == {a, b, c, d, e, f, g, h}
           p == <<a, b, c, d>>
           q == <<e, f, g, h>>
<1>1. p \in Seq(T) /\ q \in Seq(T)
  OBVIOUS
<1> HIDE DEF T, p, q
<1>2. p \o q \in Seq(T)
  BY <1>1, ConcatProperties
<1>3. QED  BY <1>2 DEF T, p, q

LEMMA UpdateFields ==
    ASSUME NEW id, NEW offset, NEW details
    PROVE  LET r == UpdateBookingRequest(id, offset, details)
           IN  /\ ParseRequest(r) = ParseUpdate(r.fields)
               /\ r.fields[1] = Word("booking") /\ r.fields[2] = ID(id)
<1> DEFINE s == Shift(ReadTime(ExtractStartTime(details)), offset)
           e == Shift(ReadTime(ExtractEndTime(details)), offset)
           a1 == Word("booking")
           a2 == ID(id)
           a3 == Word(ExtractFacilityName(details))
           a4 == Word(ExtractDayOfWeek(details))
           a5 == Number(s.hour)
           a6 == Number(s.minute)
           a7 == Number(e.hour)
           a8 == Number(e.minute)
           F == <<a1, a2, a3, a4>> \o <<a5, a6, a7, a8>>
           T == {a1, a2, a3, a4, a5, a6, a7, a8}
<1>1. UpdateBookingRequest(id, offset, details) = [op |-> "UPDATE", fields |-> F]
  BY DEF UpdateBookingRequest, RequestMessage, TimeFields
<1>2. a1 # Word("") /\ a8 # Word("")
  BY Beginnings
<1> HIDE DEF a1, a2, a3, a4, a5, a6, a7, a8
<1>3. F \in Seq(T) /\ Len(F) = 8 /\ F[1] = a1 /\ F[2] = a2 /\ F[8] = a8
  BY ONLY EightFields, EightFieldsTyped
<1>4. F # <<>>
  BY ONLY <1>3
<1> HIDE DEF F, T
<1>5. Split(F) = F
  BY <1>2, <1>3, <1>4, SplitPrefix
<1>6. ParseRequest([op |-> "UPDATE", fields |-> F]) = ParseUpdate(Split(F))
  BY ParseByOperation
<1>7. QED  BY <1>1, <1>3, <1>5, <1>6 DEF a1, a2

\* Lemma: an update is one, of the booking it names, or is refused.
LEMMA UpdateParsed ==
    ASSUME NEW id, NEW offset, NEW details
    PROVE  LET p == ParseRequest(UpdateBookingRequest(id, offset, details))
           IN  p # Fatal /\ (p.as = "request" => p.request.kind = "update" /\ p.request.id = id)
<1> DEFINE F == UpdateBookingRequest(id, offset, details).fields
<1>1. /\ ParseRequest(UpdateBookingRequest(id, offset, details)) = ParseUpdate(F)
      /\ F[1] = Word("booking") /\ F[2] = ID(id)
  BY UpdateFields
<1>2. AsID(ID(id)) = id
  BY DEF AsID, ID
<1> HIDE DEF F
<1>3. QED  BY <1>1, <1>2, KindsOfOperations

\* From the text of a booking the client makes a request that the server takes
\* for: this id, in the same facility on the same day, and both ends put off by
\* the offset, wherever that leads (Client.cpp updateBooking, and the UPDATE
\* branch of handleRequest).
THEOREM UpdateAsksForShift ==
    ASSUME NEW id, NEW offset \in Int, NEW facility, NEW day \in Days,
           NEW start \in TextTime, NEW end \in TextTime, NEW details,
           {"facility", "day", "startTime", "endTime"} \subseteq DOMAIN details.lines,
           details.lines.facility = facility,
           details.lines.day = day,
           details.lines.startTime = TimeText(start),
           details.lines.endTime = TimeText(end)
    PROVE  ParseRequest(UpdateBookingRequest(id, offset, details)) =
               Parsed([kind |-> "update", id |-> id, facility |-> facility, day |-> day,
                       start |-> Shift(start, offset), end |-> Shift(end, offset)])
<1> DEFINE s == Shift(start, offset)
           e == Shift(end, offset)
           F == UpdateBookingRequest(id, offset, details).fields
<1>1. /\ ExtractFacilityName(details) = facility /\ ExtractDayOfWeek(details) = day
      /\ ExtractStartTime(details) = TimeText(start) /\ ExtractEndTime(details) = TimeText(end)
  BY DEF ExtractFacilityName, ExtractDayOfWeek, ExtractStartTime, ExtractEndTime, Line
<1>2. ReadTime(ExtractStartTime(details)) = start /\ ReadTime(ExtractEndTime(details)) = end
  BY <1>1, TimeTextExact
<1>3. F = <<Word("booking"), ID(id), Word(facility), Word(day)>> \o TimeFields(s, e)
  BY <1>1, <1>2 DEF UpdateBookingRequest, RequestMessage
<1> HIDE DEF s, e, F
<1>4. TimeFields(s, e) = <<Number(s.hour), Number(s.minute), Number(e.hour), Number(e.minute)>>
  BY DEF TimeFields
<1>5. s \in ClockTime /\ e \in ClockTime
  <2>1. start \in ClockTime /\ end \in ClockTime
    BY DEF TextTime, TwoCharacters, ClockTime
  <2>2. Minutes(start) + offset \in Int /\ Minutes(end) + offset \in Int
    BY <2>1 DEF Minutes, ClockTime
  <2>3. QED  BY <2>2, SplitMinutes DEF Shift, s, e
<1>6. /\ F[1] = Word("booking") /\ F[2] = ID(id) /\ F[3] = Word(facility) /\ F[4] = Word(day)
      /\ F[5] = Number(s.hour) /\ F[6] = Number(s.minute)
      /\ F[7] = Number(e.hour) /\ F[8] = Number(e.minute) /\ Len(F) = 8
  BY <1>3, <1>4, EightFields
<1>7. IsDay(F[4]) /\ AreNumbers(F, 5 .. 8)
  <2>1. IsDay(F[4])
    BY <1>6 DEF IsDay, Word
  <2>2. AreNumbers(F, 5 .. 8)
    <3>1. \A i \in 5 .. 8 : i = 5 \/ i = 6 \/ i = 7 \/ i = 8
      OBVIOUS
    <3>2. s.hour \in Int /\ s.minute \in Int /\ e.hour \in Int /\ e.minute \in Int
      BY <1>5 DEF ClockTime
    <3>3. \A n : Number(n)[1] = "number" /\ Number(n)[2] = n
      BY DEF Number
    <3>4. QED  BY <1>6, <3>1, <3>2, <3>3 DEF AreNumbers
  <2>3. QED  BY <2>1, <2>2
<1>8. AsID(F[2]) = id /\ AsName(F[3]) = facility
  BY <1>6 DEF AsID, AsName, ID, Word
<1>9. F[4][2] = day /\ AsTime(F, 5) = s /\ AsTime(F, 7) = e
  <2>1. At(s.hour, s.minute) = s /\ At(e.hour, e.minute) = e
    BY <1>5 DEF At, ClockTime
  <2>2. QED  BY <1>6, <2>1 DEF AsTime, Word, Number
<1>10. QED
  <2>1. F # <<>>
    <3>1. Len(F) = 8
      BY <1>6
    <3>2. ASSUME NEW f, f = <<>> PROVE Len(f) # 8
      BY <3>2
    <3>3. QED  BY <3>1, <3>2
  <2>2. ParseUpdate(F) = Parsed([kind |-> "update", id |-> id, facility |-> facility, day |-> day,
                                 start |-> s, end |-> e])
    BY <1>6, <1>7, <1>8, <1>9, <2>1 DEF ParseUpdate, Word
  <2>3. ParseRequest(UpdateBookingRequest(id, offset, details)) = ParseUpdate(F)
    BY UpdateFields DEF F
  <2>4. QED  BY <2>2, <2>3 DEF s, e

\* Lemma: a list of fields with a beginning, one field after it, and days.
LEMMA DaysAfterName ==
    ASSUME NEW S, NEW name \in Seq(S), name # <<>>, NEW days \in Seq(Days), NEW a
    PROVE  LET s == <<a>> \o name \o [i \in DOMAIN days |-> Word(days[i])]
               T == S \cup {a} \cup {Word(d) : d \in Days}
           IN  /\ s \in Seq(T) /\ s # <<>> /\ s[1] = a
               /\ ~ Len(name) > 1 => \A i \in 3 .. Len(s) : s[i] \in {Word(d) : d \in Days}
<1> DEFINE q == [i \in DOMAIN days |-> Word(days[i])]
           W == {Word(d) : d \in Days}
           p == <<a>> \o name
           n == Len(name)
           T == S \cup {a} \cup W
           s == p \o q
<1>1. p \in Seq(S \cup {a}) /\ p # <<>> /\ p[1] = a /\ Len(p) = n + 1
  BY NameBetween
<1>2. n \in Nat /\ n >= 1
  OBVIOUS
<1>3. q \in Seq(W) /\ Len(q) = Len(days)
  <2>1. DOMAIN days = 1 .. Len(days) /\ Len(days) \in Nat /\ \A i \in 1 .. Len(days) : days[i] \in Days
    OBVIOUS
  <2>2. q \in [1 .. Len(days) -> W]
    BY <2>1
  <2> HIDE DEF q, W
  <2>3. QED  BY <2>1, <2>2
<1>4. Len(q) \in Nat /\ \A i \in 1 .. Len(q) : q[i] \in W
  <2> HIDE DEF q, W
  <2>1. QED  BY <1>3
<1>5. p \in Seq(T) /\ q \in Seq(T)
  <2> HIDE DEF p, q, W
  <2>1. QED  BY <1>1, <1>3, SeqMonotonic
<1> HIDE DEF p, q, W, T, n
<1>6. /\ s \in Seq(T) /\ Len(s) = Len(p) + Len(q)
      /\ \A i \in 1 .. Len(p) + Len(q) : s[i] = IF i <= Len(p) THEN p[i] ELSE q[i - Len(p)]
  BY <1>5, ConcatProperties
<1> HIDE DEF s
<1>7. Len(s) = n + 1 + Len(q) /\ s[1] = p[1]
  BY <1>1, <1>2, <1>4, <1>6
<1>8. s # <<>>
  BY <1>2, <1>4, <1>6, <1>7
<1>9. ASSUME ~ n > 1, NEW i \in 3 .. Len(s) PROVE s[i] \in W
  <2>1. Len(p) = 2
    BY <1>1, <1>2, <1>9
  <2>2. i \in 1 .. Len(p) + Len(q) /\ ~ i <= Len(p) /\ i - Len(p) \in 1 .. Len(q)
    BY <1>4, <1>6, <1>9, <2>1
  <2>3. QED  BY <1>4, <1>6, <2>2
<1>10. QED  BY <1>1, <1>6, <1>7, <1>8, <1>9 DEF s, p, q, T, W, n

\* A query of the availability can end the server only if a comma in the name
\* of the facility makes two fields of it (the READ branch of handleRequest).
THEOREM AvailabilityParsed ==
    ASSUME NEW S, NEW name \in Seq(S), name # <<>>, NEW days \in Seq(Days)
    PROVE  LET p == ParseRequest(QueryAvailability(name, days))
           IN  /\ p = Fatal => Len(name) > 1
               /\ p.as = "request" => p.request.kind \in {"facilities", "availability"}
<1> DEFINE a == Word("facility")
           W == {Word(d) : d \in Days}
           s == <<a>> \o name \o [i \in DOMAIN days |-> Word(days[i])]
           T == S \cup {a} \cup W
           F == Split(s)
<1>1. ParseRequest(QueryAvailability(name, days)) = ParseRead(F)
  BY DEF ParseRequest, QueryAvailability, RequestMessage
<1>2. a # Word("")
  BY Beginnings
<1> HIDE DEF a
<1>3. /\ s \in Seq(T) /\ s # <<>> /\ s[1] = a
      /\ ~ Len(name) > 1 => \A i \in 3 .. Len(s) : s[i] \in W
  BY DaysAfterName
<1> HIDE DEF s, T
<1>4. Len(F) \in 1 .. Len(s) /\ \A i \in 1 .. Len(F) : F[i] = s[i]
  BY <1>2, <1>3, SplitPrefix
<1> HIDE DEF F
<1>5. F[1] = a /\ F # <<>>
  <2>1. F[1] = a
    BY ONLY <1>3, <1>4
  <2>2. ASSUME F = <<>> PROVE FALSE
    BY ONLY <1>4, <2>2
  <2>3. QED  BY <2>1, <2>2
<1>6. ASSUME ~ Len(name) > 1 PROVE \A i \in 3 .. Len(F) : IsDay(F[i])
  <2>1. \A x \in W : IsDay(x)
    BY DEF IsDay, Word
  <2> HIDE DEF W
  <2>2. \A i \in 3 .. Len(F) : i \in 1 .. Len(F) /\ i \in 3 .. Len(s)
    BY ONLY <1>3, <1>4
  <2>3. QED  BY ONLY <1>3, <1>4, <1>6, <2>1, <2>2
<1>7. CASE Len(F) = 1
  <2>1. ParseRead(F) = Refused("Invalid request format")
    BY ONLY <1>5, <1>7 DEF ParseRead
  <2>2. Refused("Invalid request format").as = "error" /\ Fatal.as = "fatal"
    BY ONLY TRUE DEF Refused, Fatal
  <2>3. ParseRead(F) # Fatal /\ ParseRead(F).as # "request"
    BY ONLY <2>1, <2>2
  <2>4. QED  BY <1>1, <2>3
<1>8. CASE Len(F) # 1
  <2>1. \A x : Parsed(x).as = "request" /\ Fatal.as = "fatal"
    BY DEF Parsed, Fatal
  <2>2. ParseRead(F) = Fatal => Len(name) > 1
    <3>1. SUFFICES ASSUME ~ Len(name) > 1 PROVE ParseRead(F).as = "request"
      BY <2>1
    <3>2. CASE F[2] = Word("ALL")
      BY <1>5, <1>8, <2>1, <3>2, ReadByField DEF a
    <3>3. CASE F[2] # Word("ALL")
      BY <1>5, <1>6, <1>8, <2>1, <3>1, <3>3, ReadByField DEF a
    <3>4. QED  BY <3>2, <3>3
  <2>3. ParseRead(F).as = "request" => ParseRead(F).request.kind \in {"facilities", "availability"}
    BY <1>5, <1>8, ReadByField DEF a
  <2>4. QED  BY <1>1, <2>2, <2>3
<1>9. QED  BY <1>7, <1>8

-----------------------------------------------------------------------------
(* What the server's replies and the client's boxes say of a booking *)

\* Lines that describe booking b of a user at facility f.
Describes(lines, user, f, b) ==
    /\ BookingLabels \subseteq DOMAIN lines
    /\ lines.user = user
    /\ lines.facility = f
    /\ lines.day = b.day
    /\ lines.startTime = TimeText(b.start)
    /\ lines.endTime = TimeText(b.end)

\* Lemma: the lines of a slot describe it, and no other lines do.
LEMMA SlotDescribed ==
    ASSUME NEW user, NEW f, NEW b
    PROVE  /\ Describes(SlotLines(user, f, b), user, f, b)
           /\ DOMAIN SlotLines(user, f, b) = BookingLabels
           /\ \A lines : Describes(lines, user, f, b) =>
                  SlotLines(user, f, b) = [l \in BookingLabels |-> lines[l]]
<1>1. /\ Describes(SlotLines(user, f, b), user, f, b)
      /\ DOMAIN SlotLines(user, f, b) = BookingLabels
  BY DEF Describes, SlotLines, BookingLabels
<1>2. ASSUME NEW lines, Describes(lines, user, f, b)
      PROVE  SlotLines(user, f, b) = [l \in BookingLabels |-> lines[l]]
  BY <1>2 DEF Describes, SlotLines, BookingLabels
<1>3. QED  BY <1>1, <1>2

\* Lemma: a line more changes no other line.
LEMMA LabelledDescribes ==
    ASSUME NEW label, label \notin BookingLabels, NEW x, NEW lines,
           NEW user, NEW f, NEW b, Describes(lines, user, f, b)
    PROVE  Describes(Labelled(label, x, lines), user, f, b)
<1> DEFINE more == Labelled(label, x, lines)
<1>1. /\ DOMAIN more = {label} \cup DOMAIN lines
      /\ \A l \in DOMAIN lines : l # label => more[l] = lines[l]
  BY DEF Labelled
<1> HIDE DEF more
<1>2. \A l \in BookingLabels : l \in DOMAIN lines /\ more[l] = lines[l]
  BY <1>1 DEF Describes
<1>3. Describes(more, user, f, b)
  BY <1>1, <1>2 DEF Describes, BookingLabels
<1>4. QED  BY <1>3 DEF more

\* Lemma: an error is shown as one.
LEMMA ErrorShows ==
    ASSUME NEW title, NEW response, IsErrorResponse(response), NEW labels
    PROVE  /\ Box(title, response, labels).title = "Error"
           /\ DOMAIN Box(title, response, labels).rows = {"message"}
BY DEF Box

\* Lemma: a box shows the lines with the labels it knows.
LEMMA BoxShows ==
    ASSUME NEW title, NEW response, ~ IsErrorResponse(response), NEW labels
    PROVE  /\ Box(title, response, labels).title = title
           /\ DOMAIN Box(title, response, labels).rows = labels
BY DEF Box

LEMMA RowShows ==
    ASSUME NEW title, NEW response, ~ IsErrorResponse(response), NEW labels,
           NEW label \in labels, label \in DOMAIN response.lines
    PROVE  Box(title, response, labels).rows[label] = response.lines[label]
BY DEF Box, Line

\* Lemma: a box describes the booking that the lines describe.
LEMMA RowsDescribe ==
    ASSUME NEW title, NEW response, ~ IsErrorResponse(response),
           NEW labels, BookingLabels \subseteq labels,
           NEW user, NEW f, NEW b, Describes(response.lines, user, f, b)
    PROVE  Describes(Box(title, response, labels).rows, user, f, b)
<1> DEFINE rows == Box(title, response, labels).rows
<1>1. DOMAIN rows = labels
  BY BoxShows
<1>2. \A l \in BookingLabels : l \in labels /\ l \in DOMAIN response.lines
  BY DEF Describes
<1>3. \A l \in BookingLabels : rows[l] = response.lines[l]
  BY <1>2, RowShows
<1> HIDE DEF rows
<1>4. Describes(rows, user, f, b)
  BY <1>1, <1>2, <1>3 DEF Describes, BookingLabels
<1>5. QED  BY <1>4 DEF rows

\* What the server's answer to a text says of a booking is so when it is given:
\* the lines describe a booking that stands, the sender's own if he just made
\* it, and a booking that is confirmed as deleted is not there (the replies of
\* the handlers of Server.java).
THEOREM AnswersAreTrue ==
    ASSUME NEW a, WellKept(a), NEW user \in Users, NEW m, ParseRequest(m) # Fatal,
           HandleMessage(a, user, m).reply.status # "ERROR"
    PROVE  LET o     == HandleMessage(a, user, m)
               lines == o.reply.lines
               r     == ParseRequest(m).request
               Standing(id, who) ==
                   \E f \in Facilities : \E b \in o.app.bookings[f] :
                       b.id = id /\ b.user = who /\ Describes(lines, who, f, b)
           IN  /\ ParseRequest(m).as = "request"
               /\ r.kind = "booking" => /\ "bookingID" \in DOMAIN lines /\ lines.bookingID = r.id
                                        /\ \E who \in Users : Standing(r.id, who)
               /\ r.kind = "book" => /\ "bookingID" \in DOMAIN lines
                                     /\ Standing(lines.bookingID, user)
               /\ r.kind = "update" => /\ "newBookingID" \in DOMAIN lines
                                       /\ Standing(lines.newBookingID, user)
               /\ r.kind = "delete" => /\ "bookingID" \in DOMAIN lines
                                       /\ lines.bookingID \in 0 .. o.app.lastID
                                       /\ \A f \in Facilities : \A b \in o.app.bookings[f] :
                                              b.id # lines.bookingID
<1> DEFINE p     == ParseRequest(m)
           r     == p.request
           o     == HandleMessage(a, user, m)
           x     == Execute(a, user, r)
           lines == o.reply.lines
           Standing(id, who) ==
               \E f \in Facilities : \E b \in o.app.bookings[f] :
                   b.id = id /\ b.user = who /\ Describes(lines, who, f, b)
<1>1. p.as = "request"
  <2>1. p.as = "error" => o.reply.status = "ERROR"
    BY DEF HandleMessage, ErrorText, Response
  <2>2. QED  BY <2>1, ParseOutcomes
<1>2. o.app = x.app /\ o.reply = ResponseText(user, r, x.reply)
  BY <1>1 DEF HandleMessage
<1>3. x.reply.status # "ERROR" /\ lines = ResponseLines(user, r, x.reply.body)
  <2>1. x.reply.status = "ERROR" => ResponseText(user, r, x.reply).status = "ERROR"
    BY DEF ResponseText, ErrorText, Response
  <2>2. x.reply.status # "ERROR" => ResponseText(user, r, x.reply).lines = ResponseLines(user, r, x.reply.body)
    BY DEF ResponseText, Response
  <2>3. QED  BY <1>2, <2>1, <2>2
<1>4. a \in AppState /\ a.lastID \in Nat
  BY DEF WellKept, AppState
<1> HIDE DEF p, r, o, x, lines
<1>5. ASSUME r.kind = "booking"
      PROVE  /\ "bookingID" \in DOMAIN lines /\ lines.bookingID = r.id
             /\ \E who \in Users : Standing(r.id, who)
  <2> DEFINE f == x.reply.body.facility
             b == x.reply.body.booking
  <2>1. x.app = a /\ f \in Facilities /\ b \in a.bookings[f] /\ b.id = r.id
    BY <1>3, <1>5, ReadStands DEF x
  <2>2. lines = Labelled("bookingID", b.id, SlotLines(b.user, f, b))
    BY <1>3, <1>5 DEF ResponseLines
  <2>3. b.user \in Users
    BY <1>4, <2>1 DEF AppState, Booking
  <2> HIDE DEF f, b
  <2>4. "bookingID" \notin BookingLabels
    BY DEF BookingLabels
  <2>5. Describes(lines, b.user, f, b)
    BY <2>2, <2>4, SlotDescribed, LabelledDescribes
  <2>6. "bookingID" \in DOMAIN lines /\ lines.bookingID = b.id
    BY <2>2 DEF Labelled
  <2>7. QED  BY <1>2, <2>1, <2>3, <2>5, <2>6
<1>6. ASSUME r.kind \in {"book", "update"}
      PROVE  /\ r.kind = "book" => "bookingID" \in DOMAIN lines /\ Standing(lines.bookingID, user)
             /\ r.kind = "update" => "newBookingID" \in DOMAIN lines /\ Standing(lines.newBookingID, user)
  <2> DEFINE f == r.facility
             b == [id |-> a.lastID + 1, user |-> user, day |-> r.day, start |-> r.start, end |-> r.end]
             slot == SlotLines(user, f, r)
  <2>1. /\ f \in Facilities /\ b \in x.app.bookings[f]
        /\ r.kind = "book" => x.reply.body.bookingID = a.lastID + 1
        /\ r.kind = "update" => x.reply.body.newBookingID = a.lastID + 1
    BY <1>3, <1>4, <1>6, ConfirmedIsBooked DEF x
  <2>2. /\ b.id = a.lastID + 1 /\ b.user = user
        /\ \A y : Describes(y, user, f, r) => Describes(y, user, f, b)
    BY DEF Describes
  <2> HIDE DEF b, f
  <2>3. Describes(slot, user, f, r) /\ DOMAIN slot = BookingLabels
    BY SlotDescribed DEF f
  <2> HIDE DEF slot
  <2>4. \A l \in {"bookingID", "newBookingID", "oldBookingID"} : l \notin BookingLabels
    BY DEF BookingLabels
  <2>5. CASE r.kind = "book"
    <3>1. lines = Labelled("bookingID", x.reply.body.bookingID, slot)
      BY <1>3, <2>5 DEF ResponseLines, slot, f
    <3>2. "bookingID" \in DOMAIN lines /\ lines.bookingID = b.id
      BY <2>1, <2>2, <2>5, <3>1 DEF Labelled
    <3>3. Describes(lines, user, f, b)
      BY <2>2, <2>3, <2>4, <3>1, LabelledDescribes
    <3>4. QED  BY <1>2, <2>1, <2>2, <2>5, <3>2, <3>3
  <2>6. CASE r.kind = "update"
    <3> DEFINE one == Labelled("newBookingID", x.reply.body.newBookingID, slot)
    <3>1. lines = Labelled("oldBookingID", x.reply.body.oldBookingID, one)
      BY <1>3, <2>6 DEF ResponseLines, slot, f
    <3>2. Describes(one, user, f, r)
      BY <2>3, <2>4, LabelledDescribes
    <3>3. "newBookingID" \in DOMAIN lines /\ lines["newBookingID"] = b.id
      BY <2>1, <2>2, <2>6, <3>1 DEF Labelled
    <3> HIDE DEF one
    <3>4. Describes(lines, user, f, b)
      BY <2>2, <2>4, <3>1, <3>2, LabelledDescribes
    <3>5. QED  BY <1>2, <2>1, <2>2, <2>6, <3>3, <3>4
  <2>7. QED  BY <1>6, <2>5, <2>6
<1>7. ASSUME r.kind = "delete"
      PROVE  /\ "bookingID" \in DOMAIN lines
             /\ lines.bookingID \in 0 .. o.app.lastID
             /\ \A f \in Facilities : \A b \in o.app.bookings[f] : b.id # lines.bookingID
  <2>1. /\ x.reply.body.bookingID \in 0 .. a.lastID
        /\ x.app.lastID = a.lastID
        /\ \A f \in Facilities : \A b \in x.app.bookings[f] : b.id # x.reply.body.bookingID
    BY <1>3, <1>7, DeletedIsGone DEF x
  <2>2. "bookingID" \in DOMAIN lines /\ lines.bookingID = x.reply.body.bookingID
    BY <1>3, <1>7 DEF ResponseLines
  <2>3. QED  BY <1>2, <2>1, <2>2
<1> HIDE DEF Standing
<1>8. /\ p.as = "request"
      /\ r.kind = "booking" => /\ "bookingID" \in DOMAIN lines /\ lines.bookingID = r.id
                               /\ \E who \in Users : Standing(r.id, who)
      /\ r.kind = "book" => "bookingID" \in DOMAIN lines /\ Standing(lines.bookingID, user)
      /\ r.kind = "update" => "newBookingID" \in DOMAIN lines /\ Standing(lines.newBookingID, user)
      /\ r.kind = "delete" => /\ "bookingID" \in DOMAIN lines
                              /\ lines.bookingID \in 0 .. o.app.lastID
                              /\ \A f \in Facilities : \A b \in o.app.bookings[f] : b.id # lines.bookingID
  BY <1>1, <1>5, <1>6, <1>7
<1>9. QED  BY <1>8 DEF p, r, o, lines, Standing

-----------------------------------------------------------------------------
(* The system *)

\* No two bookings of a day at a facility share an instant, and a confirmation
\* id names one booking.
NoClash ==
    /\ \A f \in Facilities : \A b, c \in app.bookings[f] :
           b # c /\ b.day = c.day => ~ \E t \in ClockTime : Covers(b, t) /\ Covers(c, t)
    /\ \A f, g \in Facilities : \A b \in app.bookings[f], c \in app.bookings[g] :
           b.id = c.id => f = g /\ b = c

IInv ==
    /\ WellKept(app)
    /\ \A m \in issued : m.client \in Users

\* Lemma: the server's answer to any text of any user keeps the facilities well
\* kept, unless it ends the server.
LEMMA MessageKeeps ==
    ASSUME NEW a, WellKept(a), NEW user \in Users, NEW m, ParseRequest(m) # Fatal
    PROVE  WellKept(HandleMessage(a, user, m).app)
<1> DEFINE p == ParseRequest(m)
<1>1. CASE p.as = "error"
  BY <1>1 DEF HandleMessage
<1>2. CASE p.as = "request"
  <2>1. HandleMessage(a, user, m).app = Execute(a, user, p.request).app
    BY <1>2 DEF HandleMessage
  <2>2. QED  BY <1>2, <2>1, ParsedIsValid, ExecuteKeeps
<1>3. p.as \in {"request", "error"}
  BY ParseOutcomes
<1>4. QED  BY <1>1, <1>2, <1>3

LEMMA IInvInit == WellKept(StartApp) /\ Init => IInv
BY DEF Init, RC!Init, IInv

LEMMA IInvStep == IInv /\ [Next]_vars => IInv'
<1> SUFFICES ASSUME IInv, [Next]_vars PROVE IInv'
  OBVIOUS
<1>1. ASSUME NEW u \in Users, NEW h, NEW n, NEW known, Proceed(u, h, n, known) PROVE IInv'
  BY <1>1 DEF Proceed, RC!Issue, IInv
<1>2. ASSUME NEW u \in Users, NEW x, RC!Return(u, x) PROVE IInv'
  BY <1>2 DEF RC!Return, IInv
<1>3. ASSUME NEW u \in Users, Choose(u) \/ Continue(u) PROVE IInv'
  BY <1>1, <1>3 DEF Choose, Continue
<1>4. ASSUME NEW u \in Users, Decline(u) PROVE IInv'
  BY <1>4 DEF Decline, callVars, IInv
<1>5. ASSUME NEW u \in Users, Answered(u) \/ GaveUp(u) PROVE IInv'
  BY <1>2, <1>5 DEF Answered, GaveUp, RC!Answer, RC!GiveUp
<1>6. ASSUME NEW m \in issued, Perform(m) PROVE IInv'
  <2>1. app' = HandleMessage(app, m.client, m.request).app /\ issued' = issued
    BY <1>6 DEF Perform, RC!Perform
  <2>2. ParseRequest(m.request) # Fatal
    BY <1>6 DEF Perform
  <2>3. QED  BY <2>1, <2>2, MessageKeeps DEF IInv
<1>7. ASSUME NEW m \in issued, ServerDies(m) PROVE IInv'
  BY <1>7 DEF ServerDies, callVars, IInv
<1>8. CASE UNCHANGED vars
  BY <1>8 DEF vars, callVars, IInv
<1>9. QED  BY <1>3, <1>4, <1>5, <1>6, <1>7, <1>8 DEF Next

\* Whatever users type, whatever texts their clients make of it, and whenever
\* the calls are performed, retried, given up or answered, no instant of a day
\* is booked twice and no two bookings have one id, if it was so at the start
\* (handleRequest over all requests of the client program).
THEOREM SystemNeverClashes == WellKept(StartApp) /\ Spec => []NoClash
<1>1. IInv => NoClash
  <2> SUFFICES ASSUME IInv PROVE NoClash
    OBVIOUS
  <2>1. ASSUME NEW f \in Facilities, NEW b \in app.bookings[f], NEW c \in app.bookings[f],
               b # c, b.day = c.day,
               NEW t \in ClockTime, Covers(b, t), Covers(c, t)
        PROVE  FALSE
    <3>1. b \in Booking /\ c \in Booking
      BY DEF IInv, WellKept, AppState
    <3>2. ConflictsWith(b, c)
      BY <2>1, <3>1, SharedInstantConflicts DEF Booking
    <3>3. QED  BY <2>1, <3>2 DEF IInv, WellKept, KeptApart
  <2>2. QED  BY <2>1 DEF NoClash, IInv, WellKept, IDsUnique
<1>2. QED  BY IInvInit, IInvStep, <1>1, PTL DEF Spec

-----------------------------------------------------------------------------
(* Where the handlers make their calls *)

\* The choices of the menu that module BookingSystem has.
MenuChoices == Items \ {7, 10, 11}

\* Lemma: the scripts.
LEMMA Scripts ==
    /\ Script(1) = HandleQueryFacilityNames
    /\ Script(2) = HandleQueryAvailability
    /\ Script(3) = HandleBookFacility
    /\ Script(4) = HandleQueryBooking
    /\ Script(5) = HandleUpdateBooking
    /\ Script(6) = HandleDeleteBooking
    /\ Script(8) = HandleRateFacility
    /\ Script(9) = HandleQueryRating
<1>1. \A h \in Items : Script(h) = HandleUserChoice[h]
  BY DEF Script, Menu, Start, Items
<1>2. 1 \in Items /\ 2 \in Items /\ 3 \in Items /\ 4 \in Items /\ 5 \in Items /\ 6 \in Items /\ 8 \in Items /\ 9 \in Items
  BY DEF Items
<1>3. /\ HandleUserChoice[1] = HandleQueryFacilityNames
      /\ HandleUserChoice[2] = HandleQueryAvailability
      /\ HandleUserChoice[3] = HandleBookFacility
      /\ HandleUserChoice[4] = HandleQueryBooking
  BY <1>2 DEF HandleUserChoice
<1>4. /\ HandleUserChoice[5] = HandleUpdateBooking
      /\ HandleUserChoice[6] = HandleDeleteBooking
      /\ HandleUserChoice[8] = HandleRateFacility
      /\ HandleUserChoice[9] = HandleQueryRating
  BY <1>2 DEF HandleUserChoice
<1>5. QED  BY <1>1, <1>2, <1>3, <1>4

\* The steps of the scripts that are calls.
Station(h, i) ==
    \/ i = 1 /\ h \in {1, 2, 3, 8, 9}
    \/ i = 2 /\ h \in {4, 5, 6}
    \/ i = 3 /\ h = 9
    \/ i = 4 /\ h \in {2, 6, 8}
    \/ i = 5 /\ h = 5
    \/ i = 6 /\ h = 3

\* Lemma: what the calls are.
LEMMA Calls ==
    /\ \A h \in {1, 2, 3, 8, 9} : Script(h)[1] = Call("facilities")
    /\ \A h \in {4, 5, 6} : Script(h)[2] = Call("booking")
    /\ Script(9)[3] = Call("rating")
    /\ Script(2)[4] = Call("availability")
    /\ Script(6)[4] = Call("delete")
    /\ Script(8)[4] = Call("rate")
    /\ Script(5)[5] = Call("update")
    /\ Script(3)[6] = Call("book")
BY Scripts DEF HandleQueryFacilityNames, HandleQueryAvailability, HandleBookFacility,
   HandleQueryBooking, HandleUpdateBooking, HandleDeleteBooking, HandleRateFacility, HandleQueryRating

\* Lemma: how long the scripts are.
LEMMA Lengths ==
    /\ Len(Script(1)) = 1 /\ Len(Script(4)) = 2 /\ Len(Script(9)) = 3
    /\ Len(Script(2)) = 4 /\ Len(Script(6)) = 4 /\ Len(Script(8)) = 4
    /\ Len(Script(5)) = 5 /\ Len(Script(3)) = 6
BY Scripts DEF HandleQueryFacilityNames, HandleQueryAvailability, HandleBookFacility,
   HandleQueryBooking, HandleUpdateBooking, HandleDeleteBooking, HandleRateFacility, HandleQueryRating

\* Lemma: what the prompts between the calls are.
LEMMA Asked ==
    /\ \A h \in {4, 5, 6} : Script(h)[1] = Ask("bookingID")
    /\ \A h \in {2, 3, 8, 9} : Script(h)[2] = Ask("facilityName")
    /\ Script(2)[3] = Ask("daysOfWeek")
    /\ Script(3)[3] = Ask("dayOfWeek") /\ Script(3)[4] = Ask("time") /\ Script(3)[5] = Ask("time")
    /\ Script(5)[3] = Ask("confirmation") /\ Script(6)[3] = Ask("confirmation")
    /\ Script(5)[4] = Ask("offset")
    /\ Script(8)[3] = Ask("rating")
BY Scripts DEF HandleQueryFacilityNames, HandleQueryAvailability, HandleBookFacility,
   HandleQueryBooking, HandleUpdateBooking, HandleDeleteBooking, HandleRateFacility, HandleQueryRating

-----------------------------------------------------------------------------
(* The invariant of the whole system *)

\* Booking id was drawn and stands no more.
Gone(id) == id \in 0 .. app.lastID /\ \A f \in Facilities : \A b \in app.bookings[f] : b.id # id

\* The lines are the text of booking id as it stands at the server, unless its
\* user gave it up.
Tells(lines, id) ==
    \/ \E f \in Facilities : \E b \in app.bookings[f] : b.id = id /\ Describes(lines, b.user, f, b)
    \/ Gone(id) /\ BookingLabels \subseteq DOMAIN lines /\ Revoked(lines.user, id)

\* What user u's client knows when it makes a call of a kind.
Known(u, kind, k) ==
    /\ kind = "availability" => k[1] \in Answers[u].facilityName /\ k[2] \in Answers[u].daysOfWeek
    /\ kind \in {"rate", "rating"} => k[1] \in Answers[u].facilityName
    /\ kind = "update" => k[3] \in Answers[u].offset /\ Tells(k[2].lines, k[1])
    /\ kind = "delete" => Tells(k[2].lines, k[1])

Sent(m) ==
    /\ m.client \in Users
    /\ \E kind \in Kinds : \E k : m.request = RequestOf(kind, k) /\ Known(m.client, kind, k)

\* What the server answered to a call was so, and only its user's later calls
\* can have changed it.
AnswerTrue(p) ==
    LET q     == ParseRequest(p.request)
        lines == p.response.lines
    IN  p.response.status # "ERROR" =>
            /\ q.as = "request"
            /\ q.request.kind = "booking" => /\ "bookingID" \in DOMAIN lines /\ lines.bookingID = q.request.id
                                             /\ Tells(lines, lines.bookingID)
            /\ q.request.kind = "book" => /\ "bookingID" \in DOMAIN lines
                                          /\ Tells(lines, lines.bookingID)
            /\ q.request.kind = "update" => /\ "newBookingID" \in DOMAIN lines /\ lines.user = p.client
                                            /\ Tells(lines, lines.newBookingID)
            /\ q.request.kind = "delete" => "bookingID" \in DOMAIN lines /\ Gone(lines.bookingID)

\* What a box that user u sees shows is so.
BoxTrue(u, box) ==
    /\ box.title = "Error" <=> "message" \in DOMAIN box.rows
    /\ box.title = "Booking Details" => Tells(box.rows, box.rows.bookingID)
    /\ box.title = "New Booking Details" => box.rows.user = u /\ Tells(box.rows, box.rows.newBookingID)
    /\ box.title = "Booking Deleted" => Gone(box.rows.bookingID)

ScreenTrue(u) == BoxTrue(u, screen[u])

\* Where a user stands, and what his handler was told.
InMenu(u) == handler[u] = Menu /\ ~ waiting[u] /\ told[u] = <<>>

InCall(u) ==
    LET kind == Script(handler[u])[step[u]].what
    IN  /\ handler[u] \in Handlers[u] /\ Station(handler[u], step[u])
        /\ waiting[u]
        /\ call[u] \in issued /\ call[u].client = u
        /\ call[u].request = RequestOf(kind, told[u])
        /\ Known(u, kind, told[u])
        /\ step[u] = 1 => told[u] = <<>>
        /\ step[u] = 2 => \E id : told[u] = <<id>>

BetweenCalls(u) ==
    /\ handler[u] \in Handlers[u]
    /\ ~ waiting[u]
    /\ \/ step[u] = 1 /\ handler[u] \in {2, 3, 8, 9} /\ told[u] = <<>>
       \/ /\ step[u] = 2 /\ handler[u] \in {5, 6}
          /\ \E id, details : told[u] = <<id, details>> /\ Tells(details.lines, id)

Asks(m) ==
    \/ m.request.op = "WRITE"
    \/ m.request.op = "UPDATE" /\ m.request.fields[1] = Word("booking")

\* The calls for bookings that the server has performed.
Done(u) == {m \in issued : m.client = u /\ Asks(m) /\ \E p \in performed : RC!SameCall(p, m)}

Shaped ==
    /\ DOMAIN call = Users /\ DOMAIN waiting = Users /\ DOMAIN result = Users
    /\ DOMAIN handler = Users /\ DOMAIN step = Users /\ DOMAIN told = Users /\ DOMAIN screen = Users
    /\ up \in BOOLEAN

CallsTrue ==
    /\ IsFiniteSet(issued)
    /\ \A m, n \in issued : RC!SameCall(m, n) => m = n
    /\ \A m \in issued : Sent(m)
    /\ \A p \in performed : \E m \in issued : RC!SameCall(p, m) /\ p.request = m.request

AllAskedFor ==
    \A u \in Users : Cardinality(BookingsOf(app, u)) <= Cardinality(BookingsOf(StartApp, u)) + Cardinality(Done(u))

Stopped ==
    ~ up => \E m \in issued :
                \E name \in Answers[m.client].facilityName, days \in Answers[m.client].daysOfWeek :
                    m.request = QueryAvailability(name, days) /\ Len(name) > 1

SysInv ==
    /\ WellKept(app)
    /\ Shaped
    /\ CallsTrue
    /\ \A p \in performed : AnswerTrue(p)
    /\ \A u \in Users : ScreenTrue(u)
    /\ \A u \in Users : InMenu(u) \/ InCall(u) \/ BetweenCalls(u)
    /\ AllAskedFor
    /\ Stopped

-----------------------------------------------------------------------------
(* What the server makes of the calls *)

\* Lemma: the operations and the first fields of the client's requests.
LEMMA RequestHeads ==
    ASSUME NEW id, NEW x, NEW details
    PROVE  /\ UpdateBookingRequest(id, x, details).op = "UPDATE"
           /\ DeleteBookingRequest(id, details).op = "DELETE"
           /\ DeleteBookingRequest(id, details).fields[1] = ID(id)
           /\ \A day, s, e : BookFacilityRequest(id, day, s, e).op = "WRITE"
           /\ QueryFacilityNames.op = "READ" /\ QueryAvailability(id, x).op = "READ"
           /\ QueryBooking(id).op = "READ" /\ QueryRating(id).op = "READ"
           /\ RateFacility(id, x).op = "UPDATE"
BY DEF UpdateBookingRequest, DeleteBookingRequest, BookFacilityRequest, QueryFacilityNames,
       QueryAvailability, QueryBooking, QueryRating, RateFacility, RequestMessage

\* Lemma: the requests, by kind.
LEMMA RequestsByKind ==
    ASSUME NEW k
    PROVE  /\ RequestOf("facilities", k) = QueryFacilityNames
           /\ RequestOf("availability", k) = QueryAvailability(k[1], k[2])
           /\ RequestOf("book", k) = BookFacilityRequest(k[1], k[2], k[3], k[4])
           /\ RequestOf("booking", k) = QueryBooking(k[1])
           /\ RequestOf("update", k) = UpdateBookingRequest(k[1], k[3], k[2])
           /\ RequestOf("delete", k) = DeleteBookingRequest(k[1], k[2])
           /\ RequestOf("rate", k) = RateFacility(k[1], k[2])
           /\ RequestOf("rating", k) = QueryRating(k[1])
BY DEF RequestOf

\* What the server makes of a call.
Taken(m) ==
    LET p == ParseRequest(m.request)
    IN  /\ m.request.op \in {"READ", "WRITE", "UPDATE", "DELETE"}
        /\ p = Fatal => \E name \in Answers[m.client].facilityName, days \in Answers[m.client].daysOfWeek :
                            m.request = QueryAvailability(name, days) /\ Len(name) > 1
        /\ p.as = "request" =>
               /\ p.request.kind = "book" => m.request.op = "WRITE"
               /\ p.request.kind = "update" =>
                      \E offset \in Answers[m.client].offset : \E details :
                          /\ m.request = UpdateBookingRequest(p.request.id, offset, details)
                          /\ Tells(details.lines, p.request.id)
               /\ p.request.kind = "delete" =>
                      \E details : m.request = DeleteBookingRequest(p.request.id, details)

\* Lemma: only an availability query can end the server, and only the requests
\* to book, to update and to delete are taken for such, with the ids they name.
LEMMA CallsTaken ==
    ASSUME NEW m, Sent(m)
    PROVE  Taken(m)
<1> DEFINE u == m.client
           p == ParseRequest(m.request)
<1>1. PICK kind \in Kinds : \E k : m.request = RequestOf(kind, k) /\ Known(u, kind, k)
  BY DEF Sent
<1>2. PICK k : m.request = RequestOf(kind, k) /\ Known(u, kind, k)
  BY <1>1
<1>3. u \in Users
  BY DEF Sent
<1>4. \A name \in Answers[u].facilityName : name \in Seq(Field) /\ name # <<>>
  BY <1>3, AnswersAssumption
<1>5. CASE kind = "facilities"
  <2>1. m.request = QueryFacilityNames
    BY <1>2, <1>5, RequestsByKind
  <2>2. p.as = "request" /\ p.request.kind = "facilities" /\ p # Fatal
    BY <2>1, NamesQueryParsed DEF Parsed, Fatal
  <2>3. QED  BY <2>1, <2>2, RequestHeads DEF Taken
<1>6. CASE kind = "availability"
  <2>1. /\ m.request = QueryAvailability(k[1], k[2])
        /\ k[1] \in Answers[u].facilityName /\ k[2] \in Answers[u].daysOfWeek
    BY <1>2, <1>6, RequestsByKind DEF Known
  <2>2. k[2] \in Seq(Days)
    BY <1>3, <2>1, AnswersAssumption
  <2>3. /\ p = Fatal => Len(k[1]) > 1
        /\ p.as = "request" => p.request.kind \in {"facilities", "availability"}
    BY <1>4, <2>1, <2>2, AvailabilityParsed
  <2>4. m.request.op = "READ"
    BY <2>1 DEF QueryAvailability, RequestMessage
  <2>5. QED  BY <2>1, <2>3, <2>4 DEF Taken
<1>7. CASE kind = "book"
  <2>1. m.request = BookFacilityRequest(k[1], k[2], k[3], k[4])
    BY <1>2, <1>7, RequestsByKind
  <2>2. p # Fatal /\ (p.as = "request" => p.request.kind = "book")
    BY <2>1, BookParsed
  <2>3. QED  BY <2>1, <2>2, RequestHeads DEF Taken
<1>8. CASE kind = "booking"
  <2>1. m.request = QueryBooking(k[1])
    BY <1>2, <1>8, RequestsByKind
  <2>2. p.as = "request" /\ p.request.kind = "booking" /\ p # Fatal
    BY <2>1, BookingQueryParsed DEF Parsed, Fatal
  <2>3. QED  BY <2>1, <2>2, RequestHeads DEF Taken
<1>9. CASE kind = "update"
  <2>1. /\ m.request = UpdateBookingRequest(k[1], k[3], k[2])
        /\ k[3] \in Answers[u].offset /\ Tells(k[2].lines, k[1])
    BY <1>2, <1>9, RequestsByKind DEF Known
  <2>2. p # Fatal /\ (p.as = "request" => p.request.kind = "update" /\ p.request.id = k[1])
    BY <2>1, UpdateParsed
  <2>3. QED  BY <2>1, <2>2, RequestHeads DEF Taken
<1>10. CASE kind = "delete"
  <2>1. m.request = DeleteBookingRequest(k[1], k[2])
    BY <1>2, <1>10, RequestsByKind
  <2>2. p # Fatal /\ (p.as = "request" => p.request.kind = "delete" /\ p.request.id = k[1])
    BY <2>1, DeletionParsed
  <2>3. m.request.op = "DELETE"
    BY <2>1 DEF DeleteBookingRequest, RequestMessage
  <2>4. QED  BY <2>1, <2>2, <2>3 DEF Taken
<1>11. CASE kind = "rate"
  <2>1. m.request = RateFacility(k[1], k[2]) /\ k[1] \in Answers[u].facilityName
    BY <1>2, <1>11, RequestsByKind DEF Known
  <2>2. p # Fatal /\ (p.as = "request" => p.request.kind = "rate")
    BY <1>4, <2>1, RatingParsed
  <2>3. m.request.op = "UPDATE"
    BY <2>1 DEF RateFacility, RequestMessage
  <2>4. QED  BY <2>1, <2>2, <2>3 DEF Taken
<1>12. CASE kind = "rating"
  <2>1. m.request = QueryRating(k[1]) /\ k[1] \in Answers[u].facilityName
    BY <1>2, <1>12, RequestsByKind DEF Known
  <2>2. p # Fatal /\ (p.as = "request" => p.request.kind = "rating")
    BY <1>4, <2>1, RatingQueryParsed
  <2>3. QED  BY <2>1, <2>2, RequestHeads DEF Taken
<1>13. QED  BY <1>5, <1>6, <1>7, <1>8, <1>9, <1>10, <1>11, <1>12 DEF Kinds

-----------------------------------------------------------------------------
(* The client between two calls *)

\* Lemma: which of the steps are calls.
LEMMA Does ==
    /\ \A h \in {1, 2, 3, 8, 9} : Script(h)[1].do = "call"
    /\ \A h \in {4, 5, 6} : Script(h)[1].do = "ask" /\ Script(h)[2].do = "call"
    /\ \A h \in {2, 3, 8, 9} : Script(h)[2].do = "ask"
    /\ Script(9)[3].do = "call"
    /\ Script(2)[3].do = "ask" /\ Script(2)[4].do = "call"
    /\ Script(8)[3].do = "ask" /\ Script(8)[4].do = "call"
    /\ Script(6)[3].do = "ask" /\ Script(6)[4].do = "call"
    /\ Script(5)[3].do = "ask" /\ Script(5)[4].do = "ask" /\ Script(5)[5].do = "call"
    /\ Script(3)[3].do = "ask" /\ Script(3)[4].do = "ask" /\ Script(3)[5].do = "ask"
    /\ Script(3)[6].do = "call"
BY Calls, Asked DEF Call, Ask

\* Lemma: the first call after the menu, and the second one.
LEMMA NextStation ==
    ASSUME NEW h \in MenuChoices, NEW n \in Nat, NEW i \in n .. Len(Script(h)), CallAfter(h, n, i)
    PROVE  /\ n = 1 => (i = 1 /\ h \in {1, 2, 3, 8, 9}) \/ (i = 2 /\ h \in {4, 5, 6})
           /\ n = 2 /\ h \in {2, 3, 8, 9} =>
                  (i = 4 /\ h \in {2, 8}) \/ (i = 6 /\ h = 3) \/ (i = 3 /\ h = 9)
           /\ n = 3 /\ h \in {5, 6} => (i = 5 /\ h = 5) \/ (i = 4 /\ h = 6)
<1>1. Script(h)[i].do = "call" /\ \A j \in n .. i - 1 : Script(h)[j].do # "call"
  BY DEF CallAfter
<1>2. h \in {1, 2, 3, 4, 5, 6, 8, 9}
  BY DEF MenuChoices, Items
<1>3. CASE n = 1
  <2>1. CASE h \in {1, 2, 3, 8, 9}
    <3>1. i # 1 => 1 \in n .. i - 1
      BY <1>3
    <3>2. QED  BY <1>1, <2>1, <3>1, Does
  <2>2. CASE h \in {4, 5, 6}
    <3>1. i \notin {1, 2} => 2 \in n .. i - 1
      BY <1>3
    <3>2. QED  BY <1>1, <1>3, <2>2, <3>1, Does
  <2>3. QED  BY <1>2, <2>1, <2>2
<1>4. CASE n = 2
  <2>1. CASE h = 2
    BY <1>1, <1>4, <2>1, Does, Lengths
  <2>2. CASE h = 3
    BY <1>1, <1>4, <2>2, Does, Lengths
  <2>3. CASE h = 8
    BY <1>1, <1>4, <2>3, Does, Lengths
  <2>4. CASE h = 9
    BY <1>1, <1>4, <2>4, Does, Lengths
  <2>5. QED  BY <1>4, <2>1, <2>2, <2>3, <2>4
<1>5. CASE n = 3
  <2>1. CASE h = 5
    BY <1>1, <1>5, <2>1, Does, Lengths
  <2>2. CASE h = 6
    BY <1>1, <1>5, <2>2, Does, Lengths
  <2>3. QED  BY <1>5, <2>1, <2>2
<1>6. QED  BY <1>3, <1>4, <1>5

\* Lemma: the first of four answers.
LEMMA FirstOfFour ==
    ASSUME NEW a, NEW b, NEW c, NEW d
    PROVE  /\ SubSeq(<<a, b, c, d>>, 1, 0) = <<>>
           /\ SubSeq(<<a, b, c, d>>, 1, 1) = <<a>>
           /\ SubSeq(<<a, b, c, d>>, 1, 2) = <<a, b>>
           /\ SubSeq(<<a, b, c, d>>, 1, 4) = <<a, b, c, d>>
<1> DEFINE S    == {a, b, c, d}
           s    == <<a, b, c, d>>
           t(k) == SubSeq(s, 1, k)
<1>1. s \in Seq(S) /\ Len(s) = 4 /\ s[1] = a /\ s[2] = b /\ s[3] = c /\ s[4] = d
  OBVIOUS
<1>2. <<>> \in Seq(S) /\ <<a>> \in Seq(S) /\ <<a, b>> \in Seq(S)
  OBVIOUS
<1> HIDE DEF S, s
<1>3. ASSUME NEW k \in {0, 1, 2, 4}
      PROVE  t(k) \in Seq(S) /\ Len(t(k)) = k /\ \A i \in 1 .. k : t(k)[i] = s[i]
  <2>1. k \in Int /\ \A i \in 1 .. k : s[i] \in S
    BY <1>1
  <2>2. QED  BY <2>1, SubSeqProperties
<1> HIDE DEF t
<1>4. t(0) = <<>>
  BY <1>2, <1>3, SeqEqual
<1>5. t(1) = <<a>>
  BY <1>1, <1>2, <1>3, SeqEqual
<1>6. t(2) = <<a, b>>
  BY <1>1, <1>2, <1>3, SeqEqual
<1>7. t(4) = s
  BY <1>1, <1>3, SeqEqual
<1>8. QED  BY <1>4, <1>5, <1>6, <1>7 DEF t, s

\* Lemma: what was known, and what was answered.
LEMMA AppendedTo ==
    ASSUME NEW S, NEW p \in Seq(S), NEW b \in S, Len(p) = 1
    PROVE  Append(p, b) \in Seq(S) /\ Len(Append(p, b)) = 2 /\ Append(p, b)[1] = p[1] /\ Append(p, b)[2] = b
<1>1. Append(p, b)[1] = p[1] /\ Append(p, b)[2] = b
  BY AppendProperties
<1>2. Append(p, b) \in Seq(S)
  OBVIOUS
<1>3. \A q \in Seq(S) : Len(Append(q, b)) = Len(q) + 1
  BY AppendProperties
<1> DEFINE q == Append(p, b)
<1> HIDE DEF q
<1>4. Len(q) = Len(p) + 1
  BY <1>3 DEF q
<1>5. Len(q) = 2
  BY <1>4
<1>6. QED  BY <1>1, <1>2, <1>5 DEF q

LEMMA Joined ==
    ASSUME NEW a, NEW b, NEW c
    PROVE  /\ <<>> \o <<>> = <<>>
           /\ <<>> \o <<a>> = <<a>>
           /\ <<>> \o <<a, b>> = <<a, b>>
           /\ <<a, b>> \o <<c>> = <<a, b, c>>
           /\ <<a, b>> \o <<>> = <<a, b>>
           /\ Append(<<a>>, b) = <<a, b>>
<1> DEFINE S == {a, b, c}
           e == <<>>
           p == <<a>>
           q == <<a, b>>
           r == <<a, b, c>>
           z == <<c>>
<1>1. /\ e \in Seq(S) /\ p \in Seq(S) /\ q \in Seq(S) /\ r \in Seq(S) /\ z \in Seq(S)
      /\ Len(p) = 1 /\ Len(q) = 2 /\ Len(r) = 3 /\ Len(z) = 1
      /\ p[1] = a /\ q[1] = a /\ q[2] = b /\ r[1] = a /\ r[2] = b /\ r[3] = c /\ z[1] = c
      /\ b \in S
  OBVIOUS
<1>2. Append(p, b) = q
  <2> HIDE DEF S, p, q, r, z, e
  <2>1. Append(p, b) \in Seq(S) /\ Len(Append(p, b)) = 2 /\ Append(p, b)[1] = p[1] /\ Append(p, b)[2] = b
    BY <1>1, AppendedTo
  <2>2. QED  BY <1>1, <2>1, SeqEqual
<1> HIDE DEF S, p, q, r, z
<1>3. q \o z = r
  <2>1. /\ q \o z \in Seq(S) /\ Len(q \o z) = Len(q) + Len(z)
        /\ \A i \in 1 .. Len(q) + Len(z) : (q \o z)[i] = IF i <= Len(q) THEN q[i] ELSE z[i - Len(q)]
    BY <1>1, ConcatProperties
  <2>2. Len(q \o z) = 3 /\ (q \o z)[1] = a /\ (q \o z)[2] = b /\ (q \o z)[3] = c
    BY ONLY <1>1, <2>1
  <2>3. QED  BY <1>1, <2>1, <2>2, SeqEqual
<1>4. e \o e = e /\ e \o p = p /\ e \o q = q /\ q \o e = q
  BY <1>1, ConcatEmptySeq
<1>5. QED  BY <1>2, <1>3, <1>4 DEF p, q, r, z, e

\* Lemma: the answers to the prompts before a call.
LEMMA AnswersBefore ==
    ASSUME NEW u, NEW h, NEW j \in Int, NEW i \in Int, j < i
    PROVE  AnswersTo(u, h, j, i) = Answers[u][Script(h)[j].what]
BY DEF AnswersTo

LEMMA Replied ==
    ASSUME NEW u, NEW h, NEW n, NEW i, NEW more \in Replies(u, h, FirstAnswer(h, n), i)
    PROVE  /\ n = 1 /\ i = 1 /\ h \in {1, 2, 3, 8, 9} => more = <<>>
           /\ n = 1 /\ i = 2 /\ h \in {4, 5, 6} => \E a : more = <<a>>
           /\ n = 2 /\ i = 4 /\ h \in {2, 8} =>
                  \E a \in Answers[u].facilityName : \E b : more = <<a, b>> /\ (h = 2 => b \in Answers[u].daysOfWeek)
           /\ n = 2 /\ i = 3 /\ h = 9 => \E a \in Answers[u].facilityName : more = <<a>>
           /\ n = 3 /\ i = 5 /\ h = 5 => \E a \in Answers[u].offset : more = <<a>>
           /\ n = 3 /\ i = 4 /\ h = 6 => more = <<>>
<1> DEFINE f == FirstAnswer(h, n)
<1>1. PICK a \in AnswersTo(u, h, f, i), b \in AnswersTo(u, h, f + 1, i),
           c \in AnswersTo(u, h, f + 2, i), d \in AnswersTo(u, h, f + 3, i) :
               more = SubSeq(<<a, b, c, d>>, 1, i - f)
  BY DEF Replies
<1>2. Ask("confirmation").what = "confirmation" /\ \A x : Call(x).do = "call" /\ Ask(x).what = x /\ Ask(x).do = "ask"
  BY DEF Ask, Call
<1>3. ASSUME n = 1, i = 1, h \in {1, 2, 3, 8, 9} PROVE more = <<>>
  <2>1. Script(h)[1] # Ask("confirmation")
    BY <1>3, Does DEF Ask
  <2>2. i - f = 0
    BY <1>3, <2>1 DEF FirstAnswer
  <2>3. QED  BY <1>1, <2>2, FirstOfFour
<1>4. ASSUME n = 1, i = 2, h \in {4, 5, 6} PROVE \E x : more = <<x>>
  <2>1. Script(h)[1] # Ask("confirmation")
    BY <1>4, Asked DEF Ask
  <2>2. i - f = 1
    BY <1>4, <2>1 DEF FirstAnswer
  <2>3. QED  BY <1>1, <2>2, FirstOfFour
<1>5. ASSUME n = 2, h \in {2, 8, 9} PROVE f = 2 /\ (i > 2 => a \in Answers[u].facilityName)
  <2>1. Script(h)[2] = Ask("facilityName")
    BY <1>5, Asked
  <2>2. Script(h)[2] # Ask("confirmation") /\ Script(h)[2].what = "facilityName"
    BY <2>1 DEF Ask
  <2>3. f = 2
    BY <1>5, <2>2 DEF FirstAnswer
  <2>4. QED  BY <2>2, <2>3 DEF AnswersTo
<1>6. ASSUME n = 2, i = 4, h \in {2, 8}
      PROVE  \E x \in Answers[u].facilityName : \E y : more = <<x, y>> /\ (h = 2 => y \in Answers[u].daysOfWeek)
  <2>1. f = 2 /\ a \in Answers[u].facilityName
    BY <1>5, <1>6
  <2>2. i - f = 2
    BY <1>6, <2>1
  <2>3. h = 2 => b \in Answers[u].daysOfWeek
    <3>1. Script(2)[3].what = "daysOfWeek"
      BY Asked DEF Ask
    <3>2. AnswersTo(u, 2, 3, 4) = Answers[u][Script(2)[3].what]
      BY AnswersBefore
    <3>3. f + 1 = 3
      BY <2>1
    <3>4. QED  BY <1>6, <3>1, <3>2, <3>3
  <2>4. QED  BY <1>1, <2>1, <2>2, <2>3, FirstOfFour
<1>7. ASSUME n = 2, i = 3, h = 9 PROVE \E x \in Answers[u].facilityName : more = <<x>>
  <2>1. f = 2 /\ a \in Answers[u].facilityName
    BY <1>5, <1>7
  <2>2. i - f = 1
    BY <1>7, <2>1
  <2>3. QED  BY <1>1, <2>1, <2>2, FirstOfFour
<1>8. ASSUME n = 3, h \in {5, 6} PROVE f = 4
  BY <1>8, Asked DEF FirstAnswer
<1>9. ASSUME n = 3, i = 5, h = 5 PROVE \E x \in Answers[u].offset : more = <<x>>
  <2>1. f = 4 /\ i - f = 1
    BY <1>8, <1>9
  <2>2. Script(5)[4].what = "offset"
    BY Asked DEF Ask
  <2>3. AnswersTo(u, 5, 4, 5) = Answers[u][Script(5)[4].what]
    BY AnswersBefore
  <2>4. a \in Answers[u].offset
    BY <1>9, <2>1, <2>2, <2>3
  <2>5. QED  BY <1>1, <2>1, <2>4, FirstOfFour
<1>10. ASSUME n = 3, i = 4, h = 6 PROVE more = <<>>
  <2>1. f = 4 /\ i - f = 0
    BY <1>8, <1>10
  <2>2. QED  BY <1>1, <2>1, FirstOfFour
<1>11. QED  BY <1>3, <1>4, <1>6, <1>7, <1>9, <1>10

\* What a handler may have been told before it proceeds from step n.
ToldBefore(h, n, known) ==
    \/ n = 1 /\ known = <<>>
    \/ n = 2 /\ h \in {2, 3, 8, 9} /\ known = <<>>
    \/ n = 3 /\ h \in {5, 6} /\ \E id, details : known = <<id, details>> /\ Tells(details.lines, id)

\* User u's handler h has come to the call at i, and was told k.
AtCall(u, h, i, k) ==
    /\ Station(h, i)
    /\ Script(h)[i].what \in Kinds
    /\ Known(u, Script(h)[i].what, k)
    /\ i = 1 => k = <<>>
    /\ i = 2 => \E id : k = <<id>>

\* Lemma: what a handler knows at its next call.
LEMMA KnownAtCall ==
    ASSUME NEW u, NEW h \in MenuChoices, NEW n, NEW known, ToldBefore(h, n, known),
           NEW i \in n .. Len(Script(h)), CallAfter(h, n, i),
           NEW more \in Replies(u, h, FirstAnswer(h, n), i)
    PROVE  AtCall(u, h, i, known \o more)
<1> DEFINE k    == known \o more
           what == Script(h)[i].what
           Good == /\ Station(h, i) /\ what \in Kinds /\ Known(u, what, k)
                   /\ i = 1 => k = <<>>
                   /\ i = 2 => \E id : k = <<id>>
<1> SUFFICES Good
  BY DEF AtCall
<1>0. n \in Nat
  BY DEF ToldBefore
<1>1. CASE n = 1
  <2>1. known = <<>>
    BY <1>1 DEF ToldBefore
  <2>2. CASE i = 1 /\ h \in {1, 2, 3, 8, 9}
    <3>1. what = "facilities"
      BY <2>2, Calls DEF Call
    <3>2. more = <<>>
      BY <1>1, <2>2, Replied
    <3>3. k = <<>>
      BY <2>1, <3>2, Joined
    <3>4. Good
      BY <2>2, <3>1, <3>3 DEF Station, Known, Kinds
    <3>5. QED  BY <3>4
  <2>3. CASE i = 2 /\ h \in {4, 5, 6}
    <3>1. what = "booking"
      BY <2>3, Calls DEF Call
    <3>2. \E a : more = <<a>>
      BY <1>1, <2>3, Replied
    <3>3. \E a : k = <<a>>
      BY <2>1, <3>2, Joined
    <3>4. Good
      BY <2>3, <3>1, <3>3 DEF Station, Known, Kinds
    <3>5. QED  BY <3>4
  <2>4. QED  BY <1>0, <1>1, <2>2, <2>3, NextStation
<1>2. CASE n = 2
  <2>1. known = <<>> /\ h \in {2, 3, 8, 9}
    BY <1>2 DEF ToldBefore
  <2>2. CASE i = 4 /\ h \in {2, 8}
    <3>1. (h = 2 => what = "availability") /\ (h = 8 => what = "rate")
      BY <2>2, Calls DEF Call
    <3>2. PICK a \in Answers[u].facilityName : \E b : more = <<a, b>> /\ (h = 2 => b \in Answers[u].daysOfWeek)
      BY <1>2, <2>2, Replied
    <3>3. PICK b : more = <<a, b>> /\ (h = 2 => b \in Answers[u].daysOfWeek)
      BY <3>2
    <3>4. k = <<a, b>>
      BY <2>1, <3>3, Joined
    <3>5. k[1] = a /\ k[2] = b
      BY <3>4
    <3> HIDE DEF k
    <3>6. Good
      BY <2>2, <3>1, <3>2, <3>3, <3>5 DEF Station, Known, Kinds
    <3>7. QED  BY <3>6 DEF k
  <2>3. CASE i = 6 /\ h = 3
    <3>1. what = "book"
      BY <2>3, Calls DEF Call
    <3> HIDE DEF k
    <3>2. Good
      BY <2>3, <3>1 DEF Station, Known, Kinds
    <3>3. QED  BY <3>2 DEF k
  <2>4. CASE i = 3 /\ h = 9
    <3>1. what = "rating"
      BY <2>4, Calls DEF Call
    <3>2. PICK a \in Answers[u].facilityName : more = <<a>>
      BY <1>2, <2>4, Replied
    <3>3. k = <<a>>
      BY <2>1, <3>2, Joined
    <3>4. k[1] = a
      BY <3>3
    <3> HIDE DEF k
    <3>5. Good
      BY <2>4, <3>1, <3>2, <3>4 DEF Station, Known, Kinds
    <3>6. QED  BY <3>5 DEF k
  <2>5. QED  BY <1>0, <1>2, <2>1, <2>2, <2>3, <2>4, NextStation
<1>3. CASE n = 3
  <2>1. PICK id, details : known = <<id, details>> /\ Tells(details.lines, id)
    BY <1>3 DEF ToldBefore
  <2>2. h \in {5, 6}
    BY <1>3 DEF ToldBefore
  <2>3. CASE i = 5 /\ h = 5
    <3>1. what = "update"
      BY <2>3, Calls DEF Call
    <3>2. PICK a \in Answers[u].offset : more = <<a>>
      BY <1>3, <2>3, Replied
    <3>3. k = <<id, details, a>>
      BY <2>1, <3>2, Joined
    <3>4. k[1] = id /\ k[2] = details /\ k[3] = a
      BY <3>3
    <3> HIDE DEF k
    <3>5. Good
      BY <2>1, <2>3, <3>1, <3>2, <3>4 DEF Station, Known, Kinds
    <3>6. QED  BY <3>5 DEF k
  <2>4. CASE i = 4 /\ h = 6
    <3>1. what = "delete"
      BY <2>4, Calls DEF Call
    <3>2. more = <<>>
      BY <1>3, <2>4, Replied
    <3>3. k = <<id, details>>
      BY <2>1, <3>2, Joined
    <3>4. k[1] = id /\ k[2] = details
      BY <3>3
    <3> HIDE DEF k
    <3>5. Good
      BY <2>1, <2>4, <3>1, <3>4 DEF Station, Known, Kinds
    <3>6. QED  BY <3>5 DEF k
  <2>5. QED  BY <1>0, <1>3, <2>2, <2>3, <2>4, NextStation
<1>4. QED  BY <1>1, <1>2, <1>3 DEF ToldBefore

-----------------------------------------------------------------------------
(* What was true of a booking stays true *)

\* Lemma: more calls give up more bookings.
LEMMA MoreCalls ==
    ASSUME app' = app, issued \subseteq issued'
    PROVE  /\ \A id : Gone(id) => Gone(id)'
           /\ \A lines, id : Tells(lines, id) => Tells(lines, id)'
<1>1. \A id : Gone(id) => Gone(id)'
  BY DEF Gone
<1>2. \A u, id : Revoked(u, id) => Revoked(u, id)'
  BY DEF Revoked
<1>3. QED  BY <1>1, <1>2 DEF Tells

\* Lemma: a call to update or to delete gives up the booking it names.
LEMMA TakenRevokes ==
    ASSUME NEW m \in issued, Taken(m), ParseRequest(m.request).as = "request",
           ParseRequest(m.request).request.kind \in {"update", "delete"}
    PROVE  Revoked(m.client, ParseRequest(m.request).request.id)
<1> DEFINE r == ParseRequest(m.request).request
           i == r.id
<1>1. CASE r.kind = "update"
  <2>1. PICK offset, details : m.request = UpdateBookingRequest(i, offset, details)
    BY <1>1 DEF Taken
  <2>2. UpdateBookingRequest(i, offset, details).op = "UPDATE"
    BY DEF UpdateBookingRequest, RequestMessage
  <2>3. /\ UpdateBookingRequest(i, offset, details).fields[1] = Word("booking")
        /\ UpdateBookingRequest(i, offset, details).fields[2] = ID(i)
    BY UpdateFields
  <2> HIDE DEF i
  <2>4. Revoked(m.client, i)
    BY <2>1, <2>2, <2>3 DEF Revoked
  <2>5. QED  BY <2>4 DEF i
<1>2. CASE r.kind = "delete"
  <2>1. PICK details : m.request = DeleteBookingRequest(i, details)
    BY <1>2 DEF Taken
  <2>2. DeleteBookingRequest(i, details).op = "DELETE" /\ DeleteBookingRequest(i, details).fields[1] = ID(i)
    BY DEF DeleteBookingRequest, RequestMessage
  <2> HIDE DEF i
  <2>3. Revoked(m.client, i)
    BY <2>1, <2>2 DEF Revoked
  <2>4. QED  BY <2>3 DEF i
<1>3. QED  BY <1>1, <1>2

\* Lemma: performing a call is executing what it was taken for, if anything.
LEMMA PerformExecutes ==
    ASSUME NEW m, m.client \in Users, ParseRequest(m.request) # Fatal
    PROVE  LET q == ParseRequest(m.request)
               o == HandleMessage(app, m.client, m.request)
           IN  \/ o.app = app
               \/ /\ q.as = "request" /\ ValidRequest(q.request)
                  /\ o.app = Execute(app, m.client, q.request).app
<1>1. CASE ParseRequest(m.request).as = "error"
  BY <1>1 DEF HandleMessage
<1>2. CASE ParseRequest(m.request).as = "request"
  BY <1>2, ParsedIsValid DEF HandleMessage
<1>3. QED  BY <1>1, <1>2, ParseOutcomes

\* Lemma: a booking that was described stands until its user's own call gives
\* it up, and never comes back.
LEMMA PerformKeepsTrue ==
    ASSUME WellKept(app), NEW m \in issued, m.client \in Users, Taken(m),
           ParseRequest(m.request) # Fatal,
           app' = HandleMessage(app, m.client, m.request).app, issued' = issued
    PROVE  /\ \A id : Gone(id) => Gone(id)'
           /\ \A lines, id : Tells(lines, id) => Tells(lines, id)'
<1> DEFINE q == ParseRequest(m.request)
           r == q.request
           o == Execute(app, m.client, r)
<1>1. CASE app' = app
  BY <1>1, MoreCalls
<1>2. CASE q.as = "request" /\ ValidRequest(r) /\ app' = o.app
  <2>1. app \in AppState /\ app.lastID \in Nat /\ \A f \in Facilities : app.bookings[f] \subseteq Booking
    BY DEF WellKept, AppState
  <2>2. app'.lastID \in {app.lastID, app.lastID + 1}
    BY <1>2, <2>1, ExecuteDraws
  <2>3. ASSUME NEW f \in Facilities, NEW b \in app'.bookings[f]
        PROVE  b \in app.bookings[f] \/ b.id = app.lastID + 1
    BY <1>2, <2>1, <2>3, ExecuteAdds
  <2>4. ASSUME NEW f \in Facilities, NEW b \in app.bookings[f], b \notin app'.bookings[f]
        PROVE  b.user = m.client /\ b.id = r.id /\ r.kind \in {"update", "delete"}
    BY <1>2, <2>1, <2>4, ExecuteRemoves
  <2> HIDE DEF o
  <2>5. ASSUME NEW id, Gone(id) PROVE Gone(id)'
    <3>1. id \in Nat /\ id <= app.lastID
      BY <2>1, <2>5 DEF Gone
    <3>2. id \in 0 .. app'.lastID
      BY <2>1, <2>2, <3>1
    <3>3. \A f \in Facilities : \A b \in app'.bookings[f] : b.id # id
      BY <2>1, <2>3, <2>5, <3>1 DEF Gone
    <3>4. QED  BY <3>2, <3>3 DEF Gone
  <2>6. \A u, id : Revoked(u, id) => Revoked(u, id)'
    BY DEF Revoked
  <2>7. ASSUME NEW lines, NEW id, Tells(lines, id) PROVE Tells(lines, id)'
    <3>1. CASE Gone(id) /\ BookingLabels \subseteq DOMAIN lines /\ Revoked(lines.user, id)
      BY <2>5, <2>6, <3>1 DEF Tells
    <3>2. ASSUME NEW f \in Facilities, NEW b \in app.bookings[f], b.id = id, Describes(lines, b.user, f, b)
          PROVE  Tells(lines, id)'
      <4>1. CASE b \in app'.bookings[f]
        BY <3>2, <4>1 DEF Tells
      <4>2. CASE b \notin app'.bookings[f]
        <5>1. b.user = m.client /\ id = r.id /\ r.kind \in {"update", "delete"}
          BY <2>4, <3>2, <4>2
        <5>2. Revoked(m.client, id)
          BY <1>2, <5>1, TakenRevokes
        <5>3. id \in Nat /\ id <= app.lastID
          BY <2>1, <3>2 DEF WellKept, IDsDrawn, Booking
        <5>4. ASSUME NEW g \in Facilities, NEW c \in app'.bookings[g], c.id = id PROVE FALSE
          <6>1. c \in app.bookings[g]
            BY <2>1, <2>3, <5>3, <5>4
          <6>2. c = b /\ g = f
            BY <3>2, <5>4, <6>1 DEF WellKept, IDsUnique
          <6>3. QED  BY <4>2, <5>4, <6>2
        <5>5. id \in 0 .. app'.lastID
          BY <2>1, <2>2, <5>3
        <5>6. Gone(id)'
          BY <5>4, <5>5 DEF Gone
        <5>7. lines.user = m.client /\ BookingLabels \subseteq DOMAIN lines
          BY <3>2, <5>1 DEF Describes
        <5>8. QED  BY <2>6, <5>2, <5>6, <5>7 DEF Tells
      <4>3. QED  BY <4>1, <4>2
    <3>3. QED  BY <2>7, <3>1, <3>2 DEF Tells
  <2>8. QED  BY <2>5, <2>7
<1>3. QED  BY <1>1, <1>2, PerformExecutes

\* What a step may not undo.
Lasting ==
    /\ \A id : Gone(id) => Gone(id)'
    /\ \A lines, id : Tells(lines, id) => Tells(lines, id)'

\* Lemma: what was sent, answered and shown stays true.
LEMMA StaysTrue ==
    ASSUME Lasting
    PROVE  /\ \A u, kind, k : Known(u, kind, k) => Known(u, kind, k)'
           /\ \A m : Sent(m) => Sent(m)'
           /\ \A p : AnswerTrue(p) => AnswerTrue(p)'
           /\ \A u : screen'[u] = screen[u] /\ ScreenTrue(u) => ScreenTrue(u)'
<1>1. \A u, kind, k : Known(u, kind, k) => Known(u, kind, k)'
  BY DEF Lasting, Known
<1>2. \A m : Sent(m) => Sent(m)'
  BY <1>1 DEF Sent
<1>3. \A p : AnswerTrue(p) => AnswerTrue(p)'
  BY DEF Lasting, AnswerTrue
<1>4. \A u : screen'[u] = screen[u] /\ ScreenTrue(u) => ScreenTrue(u)'
  BY DEF Lasting, ScreenTrue, BoxTrue
<1>5. QED  BY <1>1, <1>2, <1>3, <1>4

\* Lemma: a user whom a step does not concern is where he was.
LEMMA StaysThere ==
    ASSUME Lasting, NEW u,
           handler'[u] = handler[u], step'[u] = step[u], told'[u] = told[u],
           waiting'[u] = waiting[u], call'[u] = call[u], issued \subseteq issued'
    PROVE  /\ InMenu(u) => InMenu(u)'
           /\ InCall(u) => InCall(u)'
           /\ BetweenCalls(u) => BetweenCalls(u)'
<1>1. InMenu(u) => InMenu(u)'
  BY DEF InMenu
<1>2. InCall(u) => InCall(u)'
  BY StaysTrue DEF InCall
<1>3. BetweenCalls(u) => BetweenCalls(u)'
  BY DEF BetweenCalls, Lasting
<1>4. QED  BY <1>1, <1>2, <1>3

\* Lemma: the bookings of a user are finitely many.
LEMMA BookingsFinite ==
    ASSUME NEW a, WellKept(a), NEW u
    PROVE  IsFiniteSet(BookingsOf(a, u))
<1> DEFINE S == BookingsOf(a, u)
           g == [b \in S |-> b.id]
<1>1. a.lastID \in Nat /\ \A f \in Facilities : a.bookings[f] \subseteq Booking
  BY DEF WellKept, AppState
<1>2. \A b \in S : \E f \in Facilities : b \in a.bookings[f]
  BY DEF BookingsOf
<1> HIDE DEF S
<1>3. g \in [S -> 1 .. a.lastID]
  BY <1>1, <1>2 DEF WellKept, IDsDrawn, Booking, NoBooking
<1>4. \A b, c \in S : g[b] = g[c] => b = c
  BY <1>2 DEF WellKept, IDsUnique
<1>5. g \in Injection(S, 1 .. a.lastID)
  BY <1>3, <1>4 DEF Injection, IsInjective
<1>6. IsFiniteSet(1 .. a.lastID)
  BY <1>1, FS_Interval
<1>7. IsFiniteSet(S)
  BY <1>5, <1>6, FS_Injection
<1>8. QED  BY <1>7 DEF S

\* Lemma: the number of a user's performed calls for bookings does not fall.
LEMMA DoneGrows ==
    ASSUME NEW u, IsFiniteSet(issued'), issued \subseteq issued', performed \subseteq performed'
    PROVE  /\ Done(u) \subseteq Done(u)' /\ IsFiniteSet(Done(u)')
           /\ Cardinality(Done(u)) \in Nat /\ Cardinality(Done(u)') \in Nat
           /\ Cardinality(Done(u)) <= Cardinality(Done(u)')
<1>1. Done(u) \subseteq Done(u)' /\ Done(u)' \subseteq issued'
  BY DEF Done
<1>2. IsFiniteSet(Done(u)')
  BY <1>1, FS_Subset
<1>3. QED  BY <1>1, <1>2, FS_Subset, FS_CardinalityType

\* Lemma: a step without new bookings keeps their number within bounds.
LEMMA StaysAskedFor ==
    ASSUME AllAskedFor, app' = app, WellKept(app), WellKept(StartApp),
           IsFiniteSet(issued'), issued \subseteq issued', performed \subseteq performed'
    PROVE  AllAskedFor'
<1> SUFFICES ASSUME NEW u \in Users
             PROVE  Cardinality(BookingsOf(app, u)) <= Cardinality(BookingsOf(StartApp, u)) + Cardinality(Done(u)')
  BY DEF AllAskedFor
<1>1. Cardinality(BookingsOf(app, u)) \in Nat /\ Cardinality(BookingsOf(StartApp, u)) \in Nat
  BY BookingsFinite, FS_CardinalityType
<1>2. Cardinality(BookingsOf(app, u)) <= Cardinality(BookingsOf(StartApp, u)) + Cardinality(Done(u))
  BY DEF AllAskedFor
<1>3. QED  BY <1>1, <1>2, DoneGrows

-----------------------------------------------------------------------------
(* The steps *)

LEMMA SysInvInit == WellKept(StartApp) /\ Init => SysInv
<1> SUFFICES ASSUME WellKept(StartApp), Init PROVE SysInv
  OBVIOUS
<1> USE DEF Init, RC!Init
<1>1. WellKept(app) /\ Shaped
  BY DEF Shaped
<1>2. CallsTrue /\ \A p \in performed : AnswerTrue(p)
  BY FS_EmptySet DEF CallsTrue
<1>3. \A u \in Users : ScreenTrue(u)
  <2>1. NoBox.title = "none" /\ NoBox.rows = <<>>
    BY DEF NoBox
  <2>2. "message" \notin DOMAIN <<>>
    OBVIOUS
  <2>3. QED  BY <2>1, <2>2 DEF ScreenTrue, BoxTrue
<1>4. \A u \in Users : InMenu(u)
  BY DEF InMenu
<1>5. AllAskedFor
  <2> SUFFICES ASSUME NEW u \in Users
               PROVE  Cardinality(BookingsOf(StartApp, u)) <= Cardinality(BookingsOf(StartApp, u)) + Cardinality(Done(u))
    BY DEF AllAskedFor
  <2>1. Done(u) = {}
    BY DEF Done
  <2>2. Cardinality(Done(u)) = 0
    BY <2>1, FS_EmptySet
  <2>3. Cardinality(BookingsOf(StartApp, u)) \in Nat
    BY BookingsFinite, FS_CardinalityType
  <2>4. QED  BY <2>2, <2>3
<1>6. Stopped
  BY DEF Stopped
<1>7. QED  BY <1>1, <1>2, <1>3, <1>4, <1>5, <1>6 DEF SysInv

\* Lemma: a handler makes its next call.
LEMMA ProceedKeeps ==
    ASSUME WellKept(StartApp), SysInv, NEW u \in Users, NEW h \in Handlers[u], NEW n, NEW known,
           ToldBefore(h, n, known), Proceed(u, h, n, known)
    PROVE  SysInv'
<1>0. PICK i \in n .. Len(Script(h)) :
          /\ CallAfter(h, n, i)
          /\ \E more \in Replies(u, h, FirstAnswer(h, n), i) :
                /\ RC!Issue(u, RequestOf(Script(h)[i].what, known \o more), CallsOf(u))
                /\ handler' = [handler EXCEPT ![u] = h]
                /\ step' = [step EXCEPT ![u] = i]
                /\ told' = [told EXCEPT ![u] = known \o more]
                /\ UNCHANGED <<screen, up>>
  BY DEF Proceed
<1>1. PICK more \in Replies(u, h, FirstAnswer(h, n), i) :
          /\ RC!Issue(u, RequestOf(Script(h)[i].what, known \o more), CallsOf(u))
          /\ handler' = [handler EXCEPT ![u] = h]
          /\ step' = [step EXCEPT ![u] = i]
          /\ told' = [told EXCEPT ![u] = known \o more]
          /\ UNCHANGED <<screen, up>>
  BY <1>0
<1>2. h \in MenuChoices
  BY SystemAssumption DEF MenuChoices
<1> DEFINE k    == known \o more
           kind == Script(h)[i].what
           m    == [client |-> u, id |-> CallsOf(u), request |-> RequestOf(kind, k)]
<1>3. /\ Station(h, i) /\ kind \in Kinds /\ Known(u, kind, k)
      /\ i = 1 => k = <<>>
      /\ i = 2 => \E id : k = <<id>>
  <2>1. CallAfter(h, n, i)
    BY <1>0
  <2>2. AtCall(u, h, i, known \o more)
    BY ONLY <1>2, <2>1, KnownAtCall, ToldBefore(h, n, known), i \in n .. Len(Script(h)),
            more \in Replies(u, h, FirstAnswer(h, n), i)
  <2>3. QED  BY ONLY <2>2 DEF AtCall
<1>4. /\ m.client = u /\ m.request = RequestOf(kind, k)
      /\ ~ \E x \in issued : RC!SameCall(x, m)
      /\ call' = [call EXCEPT ![u] = m]
      /\ waiting' = [waiting EXCEPT ![u] = TRUE]
      /\ result' = [result EXCEPT ![u] = [kind |-> "none"]]
      /\ issued' = issued \cup {m}
      /\ performed' = performed /\ app' = app
  BY <1>1 DEF RC!Issue
<1>5. /\ handler' = [handler EXCEPT ![u] = h] /\ step' = [step EXCEPT ![u] = i]
      /\ told' = [told EXCEPT ![u] = k] /\ screen' = screen /\ up' = up
  BY <1>1
<1> HIDE DEF m, k
<1>6. /\ WellKept(app) /\ Shaped /\ CallsTrue /\ \A p \in performed : AnswerTrue(p)
      /\ \A v \in Users : ScreenTrue(v)
      /\ \A v \in Users : InMenu(v) \/ InCall(v) \/ BetweenCalls(v)
      /\ AllAskedFor /\ Stopped
  BY DEF SysInv
<1>7. Lasting
  BY <1>4, MoreCalls DEF Lasting
<1>8. WellKept(app')
  BY <1>4, <1>6
<1>9. Shaped'
  BY <1>4, <1>5, <1>6 DEF Shaped
<1>10. CallsTrue'
  <2>1. IsFiniteSet(issued')
    BY <1>4, <1>6, FS_AddElement DEF CallsTrue
  <2>2. \A x, y \in issued' : RC!SameCall(x, y) => x = y
    BY <1>4, <1>6 DEF CallsTrue, RC!SameCall
  <2>3. Sent(m)
    BY <1>3, <1>4 DEF Sent
  <2>4. \A x \in issued' : Sent(x)'
    BY <1>4, <1>6, <1>7, <2>3, StaysTrue DEF CallsTrue
  <2>5. \A p \in performed' : \E x \in issued' : RC!SameCall(p, x) /\ p.request = x.request
    BY <1>4, <1>6 DEF CallsTrue
  <2>6. QED  BY <2>1, <2>2, <2>4, <2>5 DEF CallsTrue
<1>11. \A p \in performed' : AnswerTrue(p)'
  BY <1>4, <1>6, <1>7, StaysTrue
<1>12. \A v \in Users : ScreenTrue(v)'
  BY <1>5, <1>6, <1>7, StaysTrue
<1>13. ASSUME NEW v \in Users PROVE (InMenu(v) \/ InCall(v) \/ BetweenCalls(v))'
  <2>1. CASE v = u
    <3>1. /\ handler'[u] = h /\ step'[u] = i /\ told'[u] = k
          /\ waiting'[u] = TRUE /\ call'[u] = m /\ m \in issued'
      BY <1>4, <1>5, <1>6 DEF Shaped
    <3>2. Known(u, kind, k)'
      BY <1>3, <1>7, StaysTrue
    <3>3. InCall(u)'
      BY <1>3, <1>4, <3>1, <3>2 DEF InCall
    <3>4. QED  BY <2>1, <3>3
  <2>2. CASE v # u
    <3>1. /\ handler'[v] = handler[v] /\ step'[v] = step[v] /\ told'[v] = told[v]
          /\ waiting'[v] = waiting[v] /\ call'[v] = call[v] /\ issued \subseteq issued'
      BY <1>4, <1>5, <1>6, <2>2 DEF Shaped
    <3>2. QED  BY <1>6, <1>7, <3>1, StaysThere
  <2>3. QED  BY <2>1, <2>2
<1>14. AllAskedFor'
  <2>1. IsFiniteSet(issued')
    BY <1>10 DEF CallsTrue
  <2>2. QED  BY <1>4, <1>6, <2>1, StaysAskedFor
<1>15. Stopped'
  BY <1>4, <1>5, <1>6 DEF Stopped
<1>16. QED  BY <1>8, <1>9, <1>10, <1>11, <1>12, <1>13, <1>14, <1>15 DEF SysInv

-----------------------------------------------------------------------------
(* What is shown of an answer *)

\* Lemma: a box tells of a booking what its lines tell.
LEMMA RowsTell ==
    ASSUME NEW title, title # "Error", NEW response, ~ IsErrorResponse(response),
           NEW labels, BookingLabels \subseteq labels,
           NEW label \in labels, label \in DOMAIN response.lines,
           Tells(response.lines, response.lines[label])
    PROVE  LET rows == Box(title, response, labels).rows
           IN  Tells(rows, rows[label]) /\ rows.user = response.lines.user
<1> DEFINE rows  == Box(title, response, labels).rows
           lines == response.lines
           id    == lines[label]
<1>1. DOMAIN rows = labels /\ \A user, f, b : Describes(lines, user, f, b) => Describes(rows, user, f, b)
  BY BoxShows, RowsDescribe
<1>2. BookingLabels \subseteq DOMAIN lines
  BY DEF Tells, Describes
<1>3. "user" \in labels /\ "user" \in DOMAIN lines
  BY <1>2 DEF BookingLabels
<1>4. rows["user"] = lines["user"] /\ rows[label] = id
  BY <1>3, RowShows
<1> HIDE DEF rows
<1>5. Tells(rows, id)
  BY <1>1, <1>4 DEF Tells
<1>6. QED  BY <1>4, <1>5 DEF rows

\* Lemma: what is shown of an answer, and of an error, is so.
LEMMA AnswerShown ==
    ASSUME NEW kind \in Kinds, NEW k, NEW p, p.request = RequestOf(kind, k), AnswerTrue(p),
           NEW response, IsErrorResponse(response) \/ response = p.response
    PROVE  BoxTrue(p.client, BoxOf(p.client, kind, response))
<1> DEFINE u     == p.client
           box   == BoxOf(u, kind, response)
           lines == response.lines
           q     == ParseRequest(p.request)
<1>1. CASE kind = "availability"
  <2>1. box = ParseQueryAvailabilityResponse(response, told[u][2])
    BY <1>1 DEF BoxOf
  <2>2. CASE IsErrorResponse(response)
    <3>1. box = [title |-> "Error", rows |-> [message |-> Line(response, "message")]]
      BY <2>1, <2>2 DEF ParseQueryAvailabilityResponse, Box
    <3>2. QED  BY <3>1 DEF BoxTrue
  <2>3. CASE ~ IsErrorResponse(response)
    <3> DEFINE slots == IF "availableTimeslots" \in DOMAIN response.lines THEN response.lines.availableTimeslots ELSE {}
               rows  == [facility |-> Line(response, "facility"),
                         days |-> [d \in ToSet(told[u][2]) |-> {s \in slots : s.day = d}]]
    <3>1. box = [title |-> "Facility Availability", rows |-> rows] /\ DOMAIN rows = {"facility", "days"}
      BY <2>1, <2>3 DEF ParseQueryAvailabilityResponse
    <3> HIDE DEF rows, box
    <3>2. box.title = "Facility Availability" /\ DOMAIN box.rows = {"facility", "days"}
      BY <3>1
    <3>3. BoxTrue(u, box)
      BY <3>2 DEF BoxTrue
    <3>4. QED  BY <3>3 DEF box
  <2>4. QED  BY <2>2, <2>3
<1>2. ASSUME NEW title, NEW labels, box = Box(title, response, labels), title # "Error",
             \/ title \notin {"Booking Details", "New Booking Details", "Booking Deleted"}
             \/ IsErrorResponse(response),
             "message" \notin labels
      PROVE  BoxTrue(u, box)
  <2> DEFINE shown == Box(title, response, labels)
  <2>1. IsErrorResponse(response) => shown.title = "Error" /\ DOMAIN shown.rows = {"message"}
    BY ErrorShows
  <2>2. ~ IsErrorResponse(response) => shown.title = title /\ DOMAIN shown.rows = labels
    BY BoxShows
  <2> HIDE DEF shown
  <2>3. BoxTrue(u, shown)
    BY <1>2, <2>1, <2>2 DEF BoxTrue
  <2>4. QED  BY <1>2, <2>3 DEF shown
<1>3. CASE kind \in {"facilities", "rate", "rating"}
  <2>1. /\ kind = "facilities" => box = Box("Facility Names", response, {"facilityNames"})
        /\ kind = "rate" => box = Box("Rating Added", response, {"user", "facility", "rating"})
        /\ kind = "rating" => box = Box("Facility Rating", response, {"facility", "rating"})
    BY DEF BoxOf, ParseQueryFacilityNamesResponse, ParseRateFacilityResponse, ParseQueryRatingResponse
  <2> HIDE DEF box
  <2>2. BoxTrue(u, box)
    BY <1>2, <1>3, <2>1
  <2>3. QED  BY <2>2 DEF box
<1>4. "message" \notin BookingLabels
  BY DEF BookingLabels
<1>5. /\ kind \in {"booking", "book"} => box = Box("Booking Details", response, {"bookingID"} \cup BookingLabels)
      /\ kind = "update" => box = Box("New Booking Details", response, {"newBookingID"} \cup BookingLabels)
      /\ kind = "delete" => box = Box("Booking Deleted", response, {"bookingID", "user"})
  BY DEF BoxOf, ParseQueryBookingResponse, ParseBookFacilityResponse, ParseUpdateBookingResponse,
         ParseDeleteBookingResponse
<1>6. CASE IsErrorResponse(response) /\ kind \in {"booking", "book", "update", "delete"}
  BY <1>2, <1>4, <1>5, <1>6
<1>7. CASE ~ IsErrorResponse(response) /\ kind \in {"booking", "book"}
  <2>1. response = p.response /\ p.response.status # "ERROR"
    BY <1>7 DEF IsErrorResponse
  <2>2. q.as = "request" /\ q.request.kind = kind
    <3>1. q.as = "request"
      BY <2>1 DEF AnswerTrue
    <3>2. kind = "booking" => q = Parsed([kind |-> "booking", id |-> k[1]])
      BY RequestsByKind, BookingQueryParsed
    <3>3. kind = "book" => q.request.kind = "book"
      BY <3>1, RequestsByKind, BookParsed
    <3>4. QED  BY <1>7, <3>1, <3>2, <3>3 DEF Parsed
  <2>3. "bookingID" \in DOMAIN lines /\ Tells(lines, lines.bookingID)
    BY <1>7, <2>1, <2>2 DEF AnswerTrue
  <2> DEFINE labels == {"bookingID"} \cup BookingLabels
             shown  == Box("Booking Details", response, labels)
  <2>4. "message" \notin labels /\ "bookingID" \in labels /\ BookingLabels \subseteq labels
    BY <1>4
  <2> HIDE DEF labels
  <2>5. shown.title = "Booking Details" /\ DOMAIN shown.rows = labels
    BY <1>7, BoxShows
  <2>6. Tells(shown.rows, shown.rows["bookingID"])
    BY <1>7, <2>3, <2>4, RowsTell
  <2> HIDE DEF shown
  <2>7. BoxTrue(u, shown)
    BY <2>4, <2>5, <2>6 DEF BoxTrue
  <2>8. QED  BY <1>5, <1>7, <2>7 DEF shown, labels
<1>8. CASE ~ IsErrorResponse(response) /\ kind = "update"
  <2>0. ~ IsErrorResponse(response)
    BY <1>8
  <2>1. response = p.response /\ p.response.status # "ERROR"
    BY <1>8 DEF IsErrorResponse
  <2>2. q.as = "request" /\ q.request.kind = "update"
    BY <1>8, <2>1, RequestsByKind, UpdateParsed DEF AnswerTrue
  <2>3. "newBookingID" \in DOMAIN lines /\ lines.user = u /\ Tells(lines, lines.newBookingID)
    BY <2>1, <2>2 DEF AnswerTrue
  <2> DEFINE labels == {"newBookingID"} \cup BookingLabels
             shown  == Box("New Booking Details", response, labels)
  <2>4. "message" \notin labels /\ "newBookingID" \in labels /\ BookingLabels \subseteq labels
    BY <1>4
  <2> HIDE DEF labels
  <2>5. shown.title = "New Booking Details" /\ DOMAIN shown.rows = labels
    BY ONLY <2>0, BoxShows
  <2>6. Tells(shown.rows, shown.rows["newBookingID"]) /\ shown.rows.user = lines.user
    BY <1>8, <2>3, <2>4, RowsTell
  <2> HIDE DEF shown
  <2>7. BoxTrue(u, shown)
    BY <2>3, <2>4, <2>5, <2>6 DEF BoxTrue
  <2>8. QED  BY <1>5, <1>8, <2>7 DEF shown, labels
<1>9. CASE ~ IsErrorResponse(response) /\ kind = "delete"
  <2>0. ~ IsErrorResponse(response)
    BY <1>9
  <2>1. response = p.response /\ p.response.status # "ERROR"
    BY <1>9 DEF IsErrorResponse
  <2>2. q.as = "request" /\ q.request.kind = "delete"
    BY <1>9, <2>1, RequestsByKind, DeletionParsed DEF AnswerTrue
  <2>3. "bookingID" \in DOMAIN lines /\ Gone(lines.bookingID)
    BY <2>1, <2>2 DEF AnswerTrue
  <2> DEFINE labels == {"bookingID", "user"}
             shown  == Box("Booking Deleted", response, labels)
  <2>4. "message" \notin labels /\ "bookingID" \in labels
    OBVIOUS
  <2> HIDE DEF labels
  <2>5. shown.title = "Booking Deleted" /\ DOMAIN shown.rows = labels
    BY ONLY <2>0, BoxShows
  <2>6. shown.rows["bookingID"] = lines["bookingID"]
    <3>1. "bookingID" \in labels /\ "bookingID" \in DOMAIN lines
      BY <2>3, <2>4
    <3>2. QED  BY ONLY <2>0, <3>1 DEF Box, Line
  <2> HIDE DEF shown
  <2>7. BoxTrue(u, shown)
    BY <2>3, <2>4, <2>5, <2>6 DEF BoxTrue
  <2>8. QED  BY <1>5, <1>9, <2>7 DEF shown, labels
<1>10. QED  BY <1>1, <1>3, <1>6, <1>7, <1>8, <1>9 DEF Kinds

\* Lemma: what the calls of a handler are for, and which is not its last.
LEMMA Stations ==
    ASSUME NEW h, NEW i, Station(h, i)
    PROVE  /\ Script(h)[i].what \in Kinds
           /\ i # Len(Script(h)) =>
                  \/ i = 1 /\ h \in {2, 3, 8, 9} /\ Script(h)[i].what = "facilities"
                  \/ i = 2 /\ h \in {5, 6} /\ Script(h)[i].what = "booking"
<1> DEFINE Good == /\ Script(h)[i].what \in Kinds
                   /\ i # Len(Script(h)) =>
                          \/ i = 1 /\ h \in {2, 3, 8, 9} /\ Script(h)[i].what = "facilities"
                          \/ i = 2 /\ h \in {5, 6} /\ Script(h)[i].what = "booking"
<1> SUFFICES Good
  OBVIOUS
<1>1. \A kind : Call(kind).what = kind
  BY DEF Call
<1>2. CASE i = 1 /\ h \in {1, 2, 3, 8, 9}
  BY <1>1, <1>2, Calls, Lengths DEF Kinds
<1>3. CASE i = 2 /\ h \in {4, 5, 6}
  BY <1>1, <1>3, Calls, Lengths DEF Kinds
<1>4. CASE i = 3 /\ h = 9
  BY <1>1, <1>4, Calls, Lengths DEF Kinds
<1>5. CASE i = 4 /\ h \in {2, 6, 8}
  BY <1>1, <1>5, Calls, Lengths DEF Kinds
<1>6. CASE i = 5 /\ h = 5
  BY <1>1, <1>6, Calls, Lengths DEF Kinds
<1>7. CASE i = 6 /\ h = 3
  BY <1>1, <1>7, Calls, Lengths DEF Kinds
<1> HIDE DEF Good
<1>8. QED  BY <1>2, <1>3, <1>4, <1>5, <1>6, <1>7 DEF Station

\* Lemma: the text of a booking that a handler got before it updates or deletes.
LEMMA BookingTold ==
    ASSUME NEW k, NEW p, p.request = RequestOf("booking", k), AnswerTrue(p),
           ~ IsErrorResponse(p.response)
    PROVE  Tells(p.response.lines, k[1])
<1>1. ParseRequest(p.request) = Parsed([kind |-> "booking", id |-> k[1]])
  BY RequestsByKind, BookingQueryParsed
<1>2. p.response.status # "ERROR"
  BY DEF IsErrorResponse
<1>3. QED  BY <1>1, <1>2 DEF AnswerTrue, Parsed

\* Lemma: a call returns, with its answer or with an error.
LEMMA ReturnKeeps ==
    ASSUME WellKept(StartApp), SysInv, NEW u \in Users, NEW x, RC!Return(u, x),
           NEW p, p.client = u, p.request = call[u].request, AnswerTrue(p),
           NEW response, IsErrorResponse(response) \/ response = p.response,
           Show(u, response)
    PROVE  SysInv'
<1> DEFINE h    == handler[u]
           i    == step[u]
           kind == Script(h)[i].what
           k    == told[u]
           box  == BoxOf(u, kind, response)
<1>1. /\ WellKept(app) /\ Shaped /\ CallsTrue /\ \A q \in performed : AnswerTrue(q)
      /\ \A v \in Users : ScreenTrue(v)
      /\ \A v \in Users : InMenu(v) \/ InCall(v) \/ BetweenCalls(v)
      /\ AllAskedFor /\ Stopped
  BY DEF SysInv
<1>2. /\ waiting[u] /\ waiting' = [waiting EXCEPT ![u] = FALSE]
      /\ result' = [result EXCEPT ![u] = x]
      /\ call' = call /\ issued' = issued /\ performed' = performed /\ app' = app
  BY DEF RC!Return
<1>3. InCall(u)
  BY <1>1, <1>2 DEF InMenu, BetweenCalls
<1>4. /\ h \in Handlers[u] /\ Station(h, i) /\ p.request = RequestOf(kind, k)
      /\ i = 1 => k = <<>>
      /\ i = 2 => \E id : k = <<id>>
  BY <1>3 DEF InCall
<1>5. /\ screen' = [screen EXCEPT ![u] = box] /\ up' = up
      /\ \/ ToMenu(u)
         \/ /\ i # Len(Script(h)) /\ ~ IsErrorResponse(response)
            /\ told' = [told EXCEPT ![u] = IF kind = "booking" THEN Append(@, response) ELSE @]
            /\ handler' = handler /\ step' = step
  BY DEF Show
<1>6. kind \in Kinds
  BY <1>4, Stations
<1>7. BoxTrue(u, box)
  BY <1>4, <1>6, AnswerShown
<1>8. Lasting
  BY <1>2, MoreCalls DEF Lasting
<1>9. Shaped'
  BY <1>1, <1>2, <1>5 DEF Shaped, ToMenu
<1>10. CallsTrue'
  BY <1>1, <1>2, <1>8, StaysTrue DEF CallsTrue
<1>11. \A q \in performed' : AnswerTrue(q)'
  BY <1>1, <1>2, <1>8, StaysTrue
<1> HIDE DEF box
<1>12. ASSUME NEW v \in Users PROVE ScreenTrue(v)'
  <2>1. CASE v = u
    <3>1. screen'[u] = box
      BY <1>1, <1>5 DEF Shaped
    <3>2. QED  BY <1>7, <1>8, <2>1, <3>1 DEF ScreenTrue, BoxTrue, Lasting
  <2>2. CASE v # u
    <3>1. screen'[v] = screen[v]
      BY <1>1, <1>5, <2>2 DEF Shaped
    <3>2. QED  BY <1>1, <1>8, <3>1, StaysTrue
  <2>3. QED  BY <2>1, <2>2
<1>13. ASSUME NEW v \in Users PROVE (InMenu(v) \/ InCall(v) \/ BetweenCalls(v))'
  <2>1. CASE v = u
    <3>1. waiting'[u] = FALSE
      BY <1>1, <1>2 DEF Shaped
    <3>2. CASE ToMenu(u)
      <4>1. InMenu(u)'
        BY <1>1, <3>1, <3>2 DEF ToMenu, InMenu, Shaped
      <4>2. QED  BY <2>1, <4>1
    <3>3. CASE /\ i # Len(Script(h)) /\ ~ IsErrorResponse(response)
               /\ told' = [told EXCEPT ![u] = IF kind = "booking" THEN Append(@, response) ELSE @]
               /\ handler' = handler /\ step' = step
      <4>1. handler'[u] = h /\ step'[u] = i /\ told'[u] = IF kind = "booking" THEN Append(k, response) ELSE k
        BY <1>1, <3>3 DEF Shaped
      <4>2. CASE i = 1 /\ h \in {2, 3, 8, 9} /\ kind = "facilities"
        <5>1. told'[u] = <<>>
          BY <1>4, <4>1, <4>2
        <5>2. BetweenCalls(u)'
          BY <1>4, <3>1, <4>1, <4>2, <5>1 DEF BetweenCalls
        <5>3. QED  BY <2>1, <5>2
      <4>3. CASE i = 2 /\ h \in {5, 6} /\ kind = "booking"
        <5>1. PICK id : k = <<id>>
          BY <1>4, <4>3
        <5>2. told'[u] = <<id, response>>
          BY <4>1, <4>3, <5>1, Joined
        <5>3. response = p.response
          BY <3>3
        <5>4. Tells(p.response.lines, k[1])
          BY <1>4, <3>3, <4>3, <5>3, BookingTold
        <5>5. k[1] = id
          BY <5>1
        <5>6. Tells(response.lines, id)'
          BY <1>8, <5>3, <5>4, <5>5 DEF Lasting
        <5>7. BetweenCalls(u)'
          BY <1>4, <3>1, <4>1, <4>3, <5>2, <5>6 DEF BetweenCalls
        <5>8. QED  BY <2>1, <5>7
      <4>4. QED  BY <1>4, <3>3, <4>2, <4>3, Stations
    <3>4. QED  BY <1>5, <3>2, <3>3
  <2>2. CASE v # u
    <3>1. /\ handler'[v] = handler[v] /\ step'[v] = step[v] /\ told'[v] = told[v]
          /\ waiting'[v] = waiting[v] /\ call'[v] = call[v] /\ issued \subseteq issued'
      BY <1>1, <1>2, <1>5, <2>2 DEF Shaped, ToMenu
    <3>2. QED  BY <1>1, <1>8, <3>1, StaysThere
  <2>3. QED  BY <2>1, <2>2
<1>14. AllAskedFor'
  BY <1>1, <1>2, StaysAskedFor DEF CallsTrue
<1>15. Stopped'
  BY <1>1, <1>2, <1>5 DEF Stopped
<1>16. WellKept(app')
  BY <1>1, <1>2
<1>17. QED  BY <1>9, <1>10, <1>11, <1>12, <1>13, <1>14, <1>15, <1>16 DEF SysInv

-----------------------------------------------------------------------------
(* A call is performed *)

\* Lemma: the server's answer is true when it is given.
LEMMA AnswerIsTrue ==
    ASSUME WellKept(app), NEW m, m.client \in Users, ParseRequest(m.request) # Fatal,
           app' = HandleMessage(app, m.client, m.request).app,
           NEW p, p.client = m.client, p.request = m.request,
           p.response = HandleMessage(app, m.client, m.request).reply
    PROVE  AnswerTrue(p)'
<1> DEFINE q     == ParseRequest(m.request)
           r     == q.request
           lines == p.response.lines
           Standing(id, who) ==
               \E f \in Facilities : \E b \in app'.bookings[f] :
                   b.id = id /\ b.user = who /\ Describes(lines, who, f, b)
<1> SUFFICES ASSUME p.response.status # "ERROR"
             PROVE  /\ q.as = "request"
                    /\ r.kind = "booking" => /\ "bookingID" \in DOMAIN lines /\ lines.bookingID = r.id
                                             /\ Tells(lines, lines.bookingID)'
                    /\ r.kind = "book" => "bookingID" \in DOMAIN lines /\ Tells(lines, lines.bookingID)'
                    /\ r.kind = "update" => /\ "newBookingID" \in DOMAIN lines /\ lines.user = p.client
                                            /\ Tells(lines, lines.newBookingID)'
                    /\ r.kind = "delete" => "bookingID" \in DOMAIN lines /\ Gone(lines.bookingID)'
  BY DEF AnswerTrue
<1>1. /\ q.as = "request"
      /\ r.kind = "booking" => /\ "bookingID" \in DOMAIN lines /\ lines.bookingID = r.id
                               /\ \E who \in Users : Standing(r.id, who)
      /\ r.kind = "book" => "bookingID" \in DOMAIN lines /\ Standing(lines.bookingID, m.client)
      /\ r.kind = "update" => "newBookingID" \in DOMAIN lines /\ Standing(lines.newBookingID, m.client)
      /\ r.kind = "delete" => /\ "bookingID" \in DOMAIN lines
                              /\ lines.bookingID \in 0 .. app'.lastID
                              /\ \A f \in Facilities : \A b \in app'.bookings[f] : b.id # lines.bookingID
  BY AnswersAreTrue
<1> HIDE DEF q, r, lines
<1>2. \A id, who : Standing(id, who) => Tells(lines, id)' /\ lines.user = who
  BY DEF Tells, Describes
<1>3. r.kind = "delete" => Gone(lines.bookingID)'
  BY <1>1 DEF Gone
<1> HIDE DEF Standing
<1>4. QED  BY <1>1, <1>2, <1>3

\* Lemma: a request that the server takes for a booking or an update is a call
\* for one.
LEMMA BookingAsked ==
    ASSUME NEW m, Taken(m), ParseRequest(m.request).as = "request",
           ParseRequest(m.request).request.kind \in {"book", "update"}
    PROVE  Asks(m)
<1> DEFINE r == ParseRequest(m.request).request
<1>1. CASE r.kind = "book"
  BY <1>1 DEF Taken, Asks
<1>2. CASE r.kind = "update"
  <2>1. PICK offset, details : m.request = UpdateBookingRequest(r.id, offset, details)
    BY <1>2 DEF Taken
  <2>2. UpdateBookingRequest(r.id, offset, details).op = "UPDATE"
    BY RequestHeads
  <2>3. UpdateBookingRequest(r.id, offset, details).fields[1] = Word("booking")
    BY UpdateFields
  <2>4. QED  BY <2>1, <2>2, <2>3 DEF Asks
<1>3. QED  BY <1>1, <1>2

\* Lemma: a set has at most one element more than another.
LEMMA OneMore ==
    ASSUME NEW S, IsFiniteSet(S), NEW x, NEW T, T \subseteq S \cup {x}
    PROVE  Cardinality(T) \in Nat /\ Cardinality(S) \in Nat /\ Cardinality(T) <= Cardinality(S) + 1
<1>1. /\ IsFiniteSet(S \cup {x})
      /\ Cardinality(S \cup {x}) = Cardinality(S) \/ Cardinality(S \cup {x}) = Cardinality(S) + 1
  BY FS_AddElement
<1>2. IsFiniteSet(T) /\ Cardinality(T) <= Cardinality(S \cup {x})
  BY <1>1, FS_Subset
<1>3. Cardinality(T) \in Nat /\ Cardinality(S) \in Nat /\ Cardinality(S \cup {x}) \in Nat
  BY <1>1, <1>2, FS_CardinalityType
<1>4. QED  BY <1>1, <1>2, <1>3

\* Lemma: a call that is performed makes one booking at most, for its user, and
\* only if it asks for one.
LEMMA PerformAsked ==
    ASSUME AllAskedFor, WellKept(app), WellKept(StartApp), NEW m \in issued, m.client \in Users,
           Taken(m), ParseRequest(m.request) # Fatal, IsFiniteSet(issued),
           ~ \E p \in performed : RC!SameCall(p, m),
           app' = HandleMessage(app, m.client, m.request).app, WellKept(app'),
           issued' = issued, performed \subseteq performed',
           \E p \in performed' : RC!SameCall(p, m)
    PROVE  AllAskedFor'
<1> DEFINE q == ParseRequest(m.request)
           r == q.request
           new == [id |-> app.lastID + 1, user |-> m.client, day |-> r.day, start |-> r.start, end |-> r.end]
<1> SUFFICES ASSUME NEW u \in Users
             PROVE  Cardinality(BookingsOf(app', u)) <= Cardinality(BookingsOf(StartApp, u)) + Cardinality(Done(u)')
  BY DEF AllAskedFor
<1>1. Cardinality(BookingsOf(app, u)) <= Cardinality(BookingsOf(StartApp, u)) + Cardinality(Done(u))
  BY DEF AllAskedFor
<1>2. /\ IsFiniteSet(BookingsOf(app, u))
      /\ Cardinality(BookingsOf(app, u)) \in Nat /\ Cardinality(BookingsOf(StartApp, u)) \in Nat
      /\ Cardinality(BookingsOf(app', u)) \in Nat
  BY BookingsFinite, FS_CardinalityType
<1>3. /\ Done(u) \subseteq Done(u)' /\ IsFiniteSet(Done(u)')
      /\ Cardinality(Done(u)) \in Nat /\ Cardinality(Done(u)') \in Nat
      /\ Cardinality(Done(u)) <= Cardinality(Done(u)')
  BY DoneGrows
<1>4. CASE BookingsOf(app', u) \subseteq BookingsOf(app, u)
  <2>1. Cardinality(BookingsOf(app', u)) <= Cardinality(BookingsOf(app, u))
    BY <1>2, <1>4, FS_Subset
  <2>2. QED  BY <1>1, <1>2, <1>3, <2>1
<1>5. CASE ~ BookingsOf(app', u) \subseteq BookingsOf(app, u)
  <2>1. PICK f \in Facilities : \E b \in app'.bookings[f] \ app.bookings[f] : b.user = u
    BY <1>5 DEF BookingsOf
  <2>2. PICK b \in app'.bookings[f] \ app.bookings[f] : b.user = u
    BY <2>1
  <2>3. q.as = "request" /\ ValidRequest(r) /\ app' = Execute(app, m.client, r).app
    BY <2>2, PerformExecutes
  <2>4. app \in AppState
    BY DEF WellKept
  <2> HIDE DEF r, q
  <2>5. ASSUME NEW g \in Facilities, NEW c \in app'.bookings[g], c \notin app.bookings[g]
        PROVE  r.kind \in {"book", "update"} /\ c = new
    BY <2>3, <2>4, <2>5, ExecuteAdds
  <2>6. u = m.client
    BY <2>2, <2>5
  <2>7. BookingsOf(app', u) \subseteq BookingsOf(app, u) \cup {new}
    BY <2>5 DEF BookingsOf
  <2>8. Cardinality(BookingsOf(app', u)) <= Cardinality(BookingsOf(app, u)) + 1
    BY <1>2, <2>7, OneMore
  <2>9. Asks(m)
    BY <2>2, <2>3, <2>5, BookingAsked DEF q, r
  <2>10. m \in Done(u)' /\ m \notin Done(u)
    BY <2>6, <2>9 DEF Done, Asks, RC!SameCall
  <2>11. Cardinality(Done(u)) + 1 <= Cardinality(Done(u)')
    <3>1. IsFiniteSet(Done(u))
      BY <1>3, FS_Subset
    <3>2. /\ IsFiniteSet(Done(u) \cup {m})
          /\ Cardinality(Done(u) \cup {m}) = Cardinality(Done(u)) + 1
      BY <2>10, <3>1, FS_AddElement
    <3>3. Cardinality(Done(u) \cup {m}) <= Cardinality(Done(u)')
      BY <1>3, <2>10, FS_Subset
    <3>4. QED  BY <3>2, <3>3
  <2> HIDE DEF new
  <2>12. QED  BY <1>1, <1>2, <1>3, <2>8, <2>11
<1>6. QED  BY <1>4, <1>5

\* Lemma: the server performs a call.
LEMMA PerformKeeps ==
    ASSUME WellKept(StartApp), SysInv, NEW m \in issued, Perform(m)
    PROVE  SysInv'
<1> DEFINE o == HandleMessage(app, m.client, m.request)
<1>1. /\ WellKept(app) /\ Shaped /\ CallsTrue /\ \A q \in performed : AnswerTrue(q)
      /\ \A v \in Users : ScreenTrue(v)
      /\ \A v \in Users : InMenu(v) \/ InCall(v) \/ BetweenCalls(v)
      /\ AllAskedFor /\ Stopped
  BY DEF SysInv
<1>2. PICK p :
      /\ p = [client |-> m.client, id |-> m.id, request |-> m.request, response |-> o.reply]
      /\ ParseRequest(m.request) # Fatal
      /\ ~ \E q \in performed : RC!SameCall(q, m)
      /\ app' = o.app
      /\ performed' = performed \cup {p}
      /\ call' = call /\ waiting' = waiting /\ result' = result /\ issued' = issued
      /\ handler' = handler /\ step' = step /\ told' = told /\ screen' = screen /\ up' = up
  BY DEF Perform, RC!Perform, userVars
<1>3. p.client = m.client /\ p.id = m.id /\ p.request = m.request /\ p.response = o.reply
  BY <1>2
<1>4. Sent(m) /\ m.client \in Users
  BY <1>1 DEF CallsTrue, Sent
<1>5. Taken(m)
  BY <1>4, CallsTaken
<1>6. Lasting
  BY <1>1, <1>2, <1>4, <1>5, PerformKeepsTrue DEF Lasting
<1>7. WellKept(app')
  BY <1>1, <1>2, <1>4, MessageKeeps
<1>8. Shaped'
  BY <1>1, <1>2 DEF Shaped
<1>9. CallsTrue'
  <2>1. IsFiniteSet(issued') /\ \A x, y \in issued' : RC!SameCall(x, y) => x = y
    BY <1>1, <1>2 DEF CallsTrue
  <2>2. \A x \in issued' : Sent(x)'
    BY <1>1, <1>2, <1>6, StaysTrue DEF CallsTrue
  <2>3. \A q \in performed' : \E x \in issued' : RC!SameCall(q, x) /\ q.request = x.request
    BY <1>1, <1>2, <1>3 DEF CallsTrue, RC!SameCall
  <2>4. QED  BY <2>1, <2>2, <2>3 DEF CallsTrue
<1>10. AnswerTrue(p)'
  BY <1>1, <1>2, <1>3, <1>4, AnswerIsTrue
<1>11. \A q \in performed' : AnswerTrue(q)'
  BY <1>1, <1>2, <1>6, <1>10, StaysTrue
<1>12. \A v \in Users : ScreenTrue(v)'
  BY <1>1, <1>2, <1>6, StaysTrue
<1>13. \A v \in Users : (InMenu(v) \/ InCall(v) \/ BetweenCalls(v))'
  BY <1>1, <1>2, <1>6, StaysThere
<1>14. AllAskedFor'
  <2>1. performed \subseteq performed' /\ \E q \in performed' : RC!SameCall(q, m)
    BY <1>2, <1>3 DEF RC!SameCall
  <2>2. IsFiniteSet(issued)
    BY <1>1 DEF CallsTrue
  <2>3. QED  BY <1>1, <1>2, <1>4, <1>5, <1>7, <2>1, <2>2, PerformAsked
<1>15. Stopped'
  BY <1>1, <1>2 DEF Stopped
<1>16. QED  BY <1>7, <1>8, <1>9, <1>11, <1>12, <1>13, <1>14, <1>15 DEF SysInv

\* Lemma: a step that only concerns one user's place, or whether the server runs.
LEMMA QuietKeeps ==
    ASSUME WellKept(StartApp), SysInv, UNCHANGED <<callVars, screen>>, Stopped', Shaped',
           \A v \in Users : InMenu(v)' \/ UNCHANGED <<handler[v], step[v], told[v]>>
    PROVE  SysInv'
<1>1. /\ WellKept(app) /\ CallsTrue /\ \A q \in performed : AnswerTrue(q)
      /\ \A v \in Users : ScreenTrue(v)
      /\ \A v \in Users : InMenu(v) \/ InCall(v) \/ BetweenCalls(v)
      /\ AllAskedFor
  BY DEF SysInv
<1>2. /\ call' = call /\ waiting' = waiting /\ result' = result /\ issued' = issued
      /\ performed' = performed /\ app' = app /\ screen' = screen
  BY DEF callVars
<1>3. Lasting
  BY <1>2, MoreCalls DEF Lasting
<1>4. CallsTrue'
  BY <1>1, <1>2, <1>3, StaysTrue DEF CallsTrue
<1>5. \A q \in performed' : AnswerTrue(q)'
  BY <1>1, <1>2, <1>3, StaysTrue
<1>6. \A v \in Users : ScreenTrue(v)'
  BY <1>1, <1>2, <1>3, StaysTrue
<1>7. \A v \in Users : (InMenu(v) \/ InCall(v) \/ BetweenCalls(v))'
  BY <1>1, <1>2, <1>3, StaysThere
<1>8. AllAskedFor'
  BY <1>1, <1>2, StaysAskedFor DEF CallsTrue
<1>9. WellKept(app')
  BY <1>1, <1>2
<1>10. QED  BY <1>4, <1>5, <1>6, <1>7, <1>8, <1>9 DEF SysInv

LEMMA SysInvStep == WellKept(StartApp) /\ SysInv /\ [Next]_vars => SysInv'
<1> SUFFICES ASSUME WellKept(StartApp), SysInv, [Next]_vars PROVE SysInv'
  OBVIOUS
<1>0. /\ Shaped /\ Stopped /\ CallsTrue /\ \A q \in performed : AnswerTrue(q)
      /\ \A v \in Users : InMenu(v) \/ InCall(v) \/ BetweenCalls(v)
  BY DEF SysInv
<1>1. ASSUME NEW u \in Users, Choose(u) PROVE SysInv'
  <2>1. PICK h \in Handlers[u] : Proceed(u, h, 1, <<>>)
    BY <1>1 DEF Choose
  <2>2. ToldBefore(h, 1, <<>>)
    BY DEF ToldBefore
  <2>3. QED  BY <2>1, <2>2, ProceedKeeps
<1>2. ASSUME NEW u \in Users, Continue(u) PROVE SysInv'
  <2>1. handler[u] # Menu /\ ~ waiting[u] /\ Proceed(u, handler[u], step[u] + 1, told[u])
    BY <1>2 DEF Continue
  <2>2. BetweenCalls(u)
    BY <1>0, <2>1 DEF InMenu, InCall
  <2>3. handler[u] \in Handlers[u] /\ ToldBefore(handler[u], step[u] + 1, told[u])
    BY <2>2 DEF BetweenCalls, ToldBefore
  <2>4. QED  BY <2>1, <2>3, ProceedKeeps
<1>3. ASSUME NEW u \in Users, Decline(u) PROVE SysInv'
  <2>1. /\ ~ waiting[u] /\ ToMenu(u) /\ UNCHANGED <<callVars, screen>> /\ waiting' = waiting /\ up' = up
        /\ call' = call /\ result' = result /\ issued' = issued /\ screen' = screen
    BY <1>3 DEF Decline, callVars
  <2>2. Shaped'
    BY <1>0, <2>1 DEF ToMenu, Shaped
  <2>3. Stopped'
    BY <1>0, <2>1 DEF Stopped
  <2>4. ASSUME NEW v \in Users PROVE InMenu(v)' \/ UNCHANGED <<handler[v], step[v], told[v]>>
    BY <1>0, <2>1 DEF ToMenu, Shaped, InMenu
  <2>5. QED  BY <2>1, <2>2, <2>3, <2>4, QuietKeeps
<1>4. ASSUME NEW u \in Users, Answered(u) PROVE SysInv'
  <2>1. PICK p \in performed :
            /\ RC!SameCall(p, call[u]) /\ p.request = call[u].request
            /\ RC!Return(u, [kind |-> "answered", response |-> p.response])
    BY <1>4 DEF Answered, RC!Answer
  <2>2. Show(u, result'[u].response)
    BY <1>4 DEF Answered
  <2>3. result'[u].response = p.response
    BY <1>0, <2>1 DEF RC!Return, Shaped
  <2>4. Show(u, p.response)
    BY <2>2, <2>3
  <2>5. InCall(u)
    BY <1>0, <2>1 DEF RC!Return, InMenu, BetweenCalls
  <2>6. p.client = u
    BY <2>1, <2>5 DEF InCall, RC!SameCall
  <2>7. AnswerTrue(p)
    BY <1>0
  <2>8. QED  BY <2>1, <2>4, <2>6, <2>7, ReturnKeeps
<1>5. ASSUME NEW u \in Users, GaveUp(u) PROVE SysInv'
  <2> DEFINE error == ErrorText("Request failed after 5 attempts.")
             p     == [client |-> u, request |-> call[u].request, response |-> error]
  <2>1. RC!Return(u, [kind |-> "failed"]) /\ Show(u, error)
    BY <1>5 DEF GaveUp, RC!GiveUp
  <2>2. IsErrorResponse(error) /\ error.status = "ERROR"
    BY DEF IsErrorResponse, ErrorText, Response
  <2>3. p.client = u /\ p.request = call[u].request /\ p.response = error
    OBVIOUS
  <2> HIDE DEF p, error
  <2>4. AnswerTrue(p)
    BY <2>2, <2>3 DEF AnswerTrue
  <2>5. QED  BY <2>1, <2>2, <2>3, <2>4, ReturnKeeps
<1>6. ASSUME NEW m \in issued, Perform(m) PROVE SysInv'
  BY <1>6, PerformKeeps
<1>7. ASSUME NEW m \in issued, ServerDies(m) PROVE SysInv'
  <2>1. /\ ParseRequest(m.request) = Fatal /\ up' = FALSE
        /\ UNCHANGED <<callVars, screen>> /\ UNCHANGED userVars /\ issued' = issued
        /\ call' = call /\ waiting' = waiting /\ result' = result
        /\ handler' = handler /\ step' = step /\ told' = told /\ screen' = screen
    BY <1>7 DEF ServerDies, callVars, userVars
  <2>2. Taken(m)
    BY <1>0, CallsTaken DEF CallsTrue
  <2>3. Stopped'
    BY <2>1, <2>2 DEF Taken, Stopped
  <2>4. Shaped'
    BY <1>0, <2>1 DEF Shaped
  <2>5. QED  BY <2>1, <2>3, <2>4, QuietKeeps
<1>8. CASE UNCHANGED vars
  <2>1. /\ UNCHANGED <<callVars, screen>> /\ issued' = issued /\ up' = up
        /\ call' = call /\ waiting' = waiting /\ result' = result
        /\ handler' = handler /\ step' = step /\ told' = told /\ screen' = screen
    BY <1>8 DEF vars, callVars, userVars
  <2>2. Stopped' /\ Shaped'
    BY <1>0, <2>1 DEF Stopped, Shaped
  <2>3. QED  BY <2>1, <2>2, QuietKeeps
<1>9. QED  BY <1>1, <1>2, <1>3, <1>4, <1>5, <1>6, <1>7, <1>8 DEF Next

-----------------------------------------------------------------------------
(* What holds of the whole system *)

\* Lemma: the invariant holds.
LEMMA SysInvHolds == WellKept(StartApp) /\ Spec => [](WellKept(StartApp) /\ SysInv)
<1>1. WellKept(StartApp) /\ Init => WellKept(StartApp) /\ SysInv
  BY SysInvInit
<1>2. WellKept(StartApp) /\ SysInv /\ [Next]_vars => WellKept(StartApp)' /\ SysInv'
  BY SysInvStep
<1>3. QED  BY <1>1, <1>2, PTL DEF Spec

\* Every part of the state has its type: a handler under way stands at a call of
\* its script, its user is not in the menu, and clients send the operations of
\* the protocol (UserInterface.cpp, Client.cpp).
THEOREM SystemTyped == WellKept(StartApp) /\ Spec => []TypeOK
<1>1. ASSUME SysInv PROVE TypeOK
  <2>0. /\ WellKept(app) /\ Shaped /\ CallsTrue
        /\ \A u \in Users : ScreenTrue(u)
        /\ \A u \in Users : InMenu(u) \/ InCall(u) \/ BetweenCalls(u)
    BY <1>1 DEF SysInv
  <2>1. app \in AppState /\ up \in BOOLEAN
    BY <2>0 DEF WellKept, Shaped
  <2>2. ASSUME NEW u \in Users
        PROVE  /\ handler[u] \in Handlers[u] \cup {Menu}
               /\ handler[u] # Menu => Script(handler[u])[step[u]].do = "call"
               /\ handler[u] = Menu => ~ waiting[u] /\ told[u] = <<>>
               /\ screen[u].title = "Error" <=> "message" \in DOMAIN screen[u].rows
    <3>1. screen[u].title = "Error" <=> "message" \in DOMAIN screen[u].rows
      BY <2>0 DEF ScreenTrue, BoxTrue
    <3>2. \A h, i : Station(h, i) => Script(h)[i].do = "call" /\ h # Menu
      BY Does DEF Station, Menu
    <3>3. CASE InMenu(u)
      BY <3>1, <3>3 DEF InMenu
    <3>4. CASE InCall(u)
      BY <3>1, <3>2, <3>4 DEF InCall
    <3>5. CASE BetweenCalls(u)
      <4>1. handler[u] \in Handlers[u] /\ Station(handler[u], step[u])
        BY <3>5 DEF BetweenCalls, Station
      <4>2. QED  BY <3>1, <3>2, <4>1
    <3>6. QED  BY <2>0, <3>3, <3>4, <3>5
  <2>3. \A m \in issued : m.request.op \in {"READ", "WRITE", "UPDATE", "DELETE"}
    BY <2>0, CallsTaken DEF CallsTrue, Taken
  <2>4. QED  BY <2>1, <2>2, <2>3 DEF TypeOK
<1>2. QED  BY <1>1, SysInvHolds, PTL

\* What is on a user's screen about his bookings is true as long as he does not
\* give it up himself: from the reply of the server, through the labels the
\* client looks for, to the box (ResponseParser.cpp), and while others' calls
\* and late ones are performed.
THEOREM ScreensAreTrue == WellKept(StartApp) /\ Spec => []ScreensHold
<1>1. ASSUME SysInv PROVE ScreensHold
  <2>1. ASSUME NEW u \in Users, NEW rows, NEW id, Tells(rows, id), rows.user = u, ~ Revoked(u, id)
        PROVE  Stands(u, id, rows)
    <3>1. PICK f \in Facilities : \E b \in app.bookings[f] : b.id = id /\ Describes(rows, b.user, f, b)
      BY <2>1 DEF Tells
    <3>2. PICK b \in app.bookings[f] : b.id = id /\ Describes(rows, b.user, f, b)
      BY <3>1
    <3>3. f = rows.facility /\ SlotLines(b.user, f, b) = [l \in BookingLabels |-> rows[l]]
      BY <3>2, SlotDescribed DEF Describes
    <3>4. QED  BY <2>1, <3>2, <3>3 DEF Stands
  <2>2. ASSUME NEW u \in Users PROVE BoxTrue(u, screen[u])
    BY <1>1 DEF SysInv, ScreenTrue
  <2>3. QED  BY <2>1, <2>2 DEF BoxTrue, ScreensHold, Gone
<1>2. QED  BY <1>1, SysInvHolds, PTL

\* A user gains no more bookings than the calls to book or to update he made,
\* performed late, answered or given up (Client::bookFacility and
\* Client::updateBooking, and the handlers they reach).
THEOREM NoneUnasked == WellKept(StartApp) /\ Spec => []BookingsAreAskedFor
<1>1. ASSUME SysInv, WellKept(StartApp) PROVE BookingsAreAskedFor
  <2> SUFFICES ASSUME NEW u \in Users
               PROVE  Cardinality(BookingsOf(app, u)) <= Cardinality(BookingsOf(StartApp, u))
                          + Cardinality({m \in issued :
                                /\ m.client = u
                                /\ \/ m.request.op = "WRITE"
                                   \/ m.request.op = "UPDATE" /\ m.request.fields[1] = Word("booking")})
    BY DEF BookingsAreAskedFor
  <2> DEFINE asked == {m \in issued :
                          /\ m.client = u
                          /\ \/ m.request.op = "WRITE"
                             \/ m.request.op = "UPDATE" /\ m.request.fields[1] = Word("booking")}
  <2>1. Done(u) \subseteq asked /\ asked \subseteq issued
    BY DEF Done, Asks
  <2> HIDE DEF asked
  <2>2. IsFiniteSet(issued) /\ WellKept(app)
    BY <1>1 DEF SysInv, CallsTrue
  <2>3. IsFiniteSet(asked) /\ IsFiniteSet(Done(u)) /\ Cardinality(Done(u)) <= Cardinality(asked)
    BY <2>1, <2>2, FS_Subset
  <2>4. Cardinality(asked) \in Nat /\ Cardinality(Done(u)) \in Nat
    BY <2>3, FS_CardinalityType
  <2>5. Cardinality(BookingsOf(app, u)) \in Nat /\ Cardinality(BookingsOf(StartApp, u)) \in Nat
    BY <1>1, <2>2, BookingsFinite, FS_CardinalityType
  <2>6. Cardinality(BookingsOf(app, u)) <= Cardinality(BookingsOf(StartApp, u)) + Cardinality(Done(u))
    BY <1>1 DEF SysInv, AllAskedFor
  <2>7. Cardinality(BookingsOf(app, u)) <= Cardinality(BookingsOf(StartApp, u)) + Cardinality(asked)
    BY <2>3, <2>4, <2>5, <2>6
  <2>8. QED  BY <2>7 DEF asked
<1>2. QED  BY <1>1, SysInvHolds, PTL

\* Nothing that the client program sends ends the server but the query of the
\* availability of a facility whose name was typed with a comma
\* (Server.handleRequest).
THEOREM StoppedByAvailability == WellKept(StartApp) /\ Spec => []OnlyAvailabilityStopsServer
<1>1. SysInv => OnlyAvailabilityStopsServer
  BY DEF SysInv, Stopped, OnlyAvailabilityStopsServer
<1>2. QED  BY <1>1, SysInvHolds, PTL

\* Lemma: a call that moves a booking moves it by the offset its user typed.
LEMMA UpdateMoves ==
    ASSUME SysInv, NEW m \in issued, Perform(m),
           NEW f \in Facilities, NEW b \in app.bookings[f] \ app'.bookings[f],
           NEW g \in Facilities, NEW c \in app'.bookings[g] \ app.bookings[g],
           OnClock(b.start), OnClock(b.end)
    PROVE  /\ g = f
           /\ c.user = b.user
           /\ c.day = b.day
           /\ Length(c) = Length(b)
           /\ Minutes(c.start) - Minutes(b.start) \in Answers[b.user]["offset"]
<1> DEFINE q == ParseRequest(m.request)
           r == q.request
<1>1. app' = HandleMessage(app, m.client, m.request).app /\ q # Fatal
  BY DEF Perform, RC!Perform
<1>2. WellKept(app) /\ Sent(m)
  BY DEF SysInv, CallsTrue
<1>3. m.client \in Users /\ app \in AppState
  BY <1>2 DEF Sent, WellKept
<1>4. Taken(m)
  BY <1>2, CallsTaken
<1>5. q.as = "request" /\ ValidRequest(r) /\ app' = Execute(app, m.client, r).app
  BY <1>1, <1>3, PerformExecutes
<1> HIDE DEF r
<1>6. r.kind \in {"update", "delete"} /\ r.facility = f /\ b.user = m.client /\ b.id = r.id
  BY <1>3, <1>5, ExecuteRemoves
<1>7. /\ r.kind \in {"book", "update"} /\ r.facility = g
      /\ c = [id |-> app.lastID + 1, user |-> m.client, day |-> r.day, start |-> r.start, end |-> r.end]
  BY <1>3, <1>5, ExecuteAdds
<1>8. r.kind = "update"
  BY <1>6, <1>7
<1>9. PICK offset \in Answers[m.client].offset :
          \E details : m.request = UpdateBookingRequest(r.id, offset, details) /\ Tells(details.lines, r.id)
  BY <1>4, <1>5, <1>8 DEF Taken, r
<1>10. PICK details : m.request = UpdateBookingRequest(r.id, offset, details) /\ Tells(details.lines, r.id)
  BY <1>9
<1>11. Describes(details.lines, b.user, f, b)
  <2>1. ~ Gone(r.id)
    BY <1>6 DEF Gone
  <2>2. PICK e \in Facilities : \E a \in app.bookings[e] : a.id = r.id /\ Describes(details.lines, a.user, e, a)
    BY <1>10, <2>1 DEF Tells
  <2>3. PICK a \in app.bookings[e] : a.id = r.id /\ Describes(details.lines, a.user, e, a)
    BY <2>2
  <2>4. e = f /\ a = b
    BY <1>2, <1>6, <2>3 DEF WellKept, IDsUnique
  <2>5. QED  BY <2>3, <2>4
<1>12. /\ b \in Booking
       /\ b.day \in Days /\ b.start \in ClockTime /\ b.end \in ClockTime
  BY <1>3 DEF AppState, Booking
<1>13. offset \in Int
  BY <1>3, AnswersAssumption
<1>14. b.start \in TextTime /\ b.end \in TextTime
  BY <1>12 DEF OnClock, TextTime, TwoCharacters, ClockTime
<1>15. q = Parsed([kind |-> "update", id |-> r.id, facility |-> f, day |-> b.day,
                   start |-> Shift(b.start, offset), end |-> Shift(b.end, offset)])
  <2>1. /\ {"facility", "day", "startTime", "endTime"} \subseteq DOMAIN details.lines
        /\ details.lines.facility = f /\ details.lines.day = b.day
        /\ details.lines.startTime = TimeText(b.start) /\ details.lines.endTime = TimeText(b.end)
    BY <1>11 DEF Describes, BookingLabels
  <2>2. QED  BY <1>10, <1>12, <1>13, <1>14, <2>1, UpdateAsksForShift
<1>16. r.day = b.day /\ r.start = Shift(b.start, offset) /\ r.end = Shift(b.end, offset)
  BY <1>15 DEF Parsed, r
<1>17. Minutes(b.start) \in Int /\ Minutes(b.end) \in Int
  BY <1>12 DEF ClockTime, Minutes
<1>18. /\ Minutes(Shift(b.start, offset)) = Minutes(b.start) + offset
       /\ Minutes(Shift(b.end, offset)) = Minutes(b.end) + offset
  BY <1>13, <1>17, SplitMinutes DEF Shift
<1>19. /\ c.user = b.user /\ c.day = b.day
       /\ Minutes(c.start) = Minutes(b.start) + offset /\ Minutes(c.end) = Minutes(b.end) + offset
  BY <1>6, <1>7, <1>16, <1>18
<1>20. Length(c) = Length(b)
  BY <1>13, <1>17, <1>19 DEF Length
<1>21. Minutes(c.start) - Minutes(b.start) = offset
  BY <1>13, <1>17, <1>19
<1>22. QED  BY <1>6, <1>7, <1>9, <1>19, <1>20, <1>21

\* Moving a booking keeps its facility, its day and its length, and puts both
\* ends off by the offset the user typed, through the text of the old booking,
\* its times' four characters, the hours and minutes of the request, and the
\* server's reading of it (Client::updateBooking, Parser.java).
THEOREM UpdatesAreMoves == WellKept(StartApp) /\ Spec => UpdatesMove
<1>1. ASSUME SysInv, [Next]_vars,
             NEW f \in Facilities, NEW b \in app.bookings[f] \ app'.bookings[f],
             NEW c \in UNION {app'.bookings[g] \ app.bookings[g] : g \in Facilities},
             OnClock(b.start), OnClock(b.end)
      PROVE  /\ c \in app'.bookings[f]
             /\ c.user = b.user
             /\ c.day = b.day
             /\ Length(c) = Length(b)
             /\ Minutes(c.start) - Minutes(b.start) \in Answers[b.user]["offset"]
  <2>1. PICK g \in Facilities : c \in app'.bookings[g] \ app.bookings[g]
    BY <1>1
  <2>2. app' # app
    BY <1>1
  <2>3. ASSUME NEW u \in Users, NEW h, NEW n, NEW known, Proceed(u, h, n, known) PROVE app' = app
    BY <2>3 DEF Proceed, RC!Issue
  <2>4. ASSUME NEW u \in Users, Choose(u) \/ Continue(u) \/ Decline(u) \/ Answered(u) \/ GaveUp(u)
        PROVE  app' = app
    BY <2>3, <2>4 DEF Choose, Continue, Decline, Answered, GaveUp, callVars, RC!Answer, RC!GiveUp, RC!Return
  <2>5. \E m \in issued : Perform(m)
    BY <1>1, <2>2, <2>4 DEF Next, ServerDies, callVars, vars
  <2>6. QED  BY <1>1, <2>1, <2>5, UpdateMoves
<1>2. SysInv /\ [Next]_vars =>
          [ \A f \in Facilities : \A b \in app.bookings[f] \ app'.bookings[f] :
                \A c \in UNION {app'.bookings[g] \ app.bookings[g] : g \in Facilities} :
                    OnClock(b.start) /\ OnClock(b.end) =>
                        /\ c \in app'.bookings[f]
                        /\ c.user = b.user
                        /\ c.day = b.day
                        /\ Length(c) = Length(b)
                        /\ Minutes(c.start) - Minutes(b.start) \in Answers[b.user]["offset"] ]_vars
  BY <1>1
<1>3. QED  BY <1>2, SysInvHolds, PTL DEF Spec, UpdatesMove
=============================================================================
