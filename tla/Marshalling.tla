----------------------------- MODULE Marshalling -----------------------------
(***************************************************************************)
(* The wire format: a RequestMessage written by one program and read by    *)
(* the other, over datagrams that may arrive with flipped bits             *)
(* (Serializer, ByteBuffer, ByteReader, Parity and RequestMessage, of the  *)
(* C++ client and of the Java server, and the buffers of both).            *)
(*                                                                         *)
(* A byte is the set of its bits that are 1, of Bits positions; ints have  *)
(* IntSize bytes, in two's complement.  Text has no byte 0 or 1.  No       *)
(* damage of MaxFlips bits turns the name of a class, a field or a type    *)
(* into that of another: a wrong name is unknown.                          *)
(***************************************************************************)
EXTENDS Integers, FiniteSets, SequencesExt

CONSTANTS
    Bits, IntSize,
    ClassName, FieldNames, FieldTypes,   \* of class Server.RequestMessage
    Messages,        \* what a client may send: [type, id, data]
    ReplyData,       \* the data a handler may reply
    Null,            \* null, as the data of a message
    MaxArray,        \* the longest array the Java heap has room for
    RequestBuffer,   \* the server's receive buffer
    Capacity,        \* of the server's ByteBuffer
    ReplyBuffer,     \* the client's receive buffer, BUFFER_SIZE
    MaxFlips         \* bound: bits flipped in an exchange, in one of its datagrams

ASSUME SizesAssumption ==
    /\ Bits \in Nat \ {0} /\ IntSize \in Nat \ {0}
    /\ MaxFlips \in Nat

VARIABLES
    phase,   \* where the exchange is
    sent,    \* the message that was written last
    wire,    \* the datagram under way
    flips,   \* how many of its bits were flipped
    got,     \* what the last reader made of it
    spared   \* no bit of this exchange's request was flipped

vars == <<phase, sent, wire, flips, got, spared>>

BitPositions == 0 .. Bits - 1

Byte == SUBSET BitPositions

Zero == {}
One  == {0}

Text == Seq(Byte \ {Zero, One})

Pow2[n \in Nat] == IF n = 0 THEN 1 ELSE 2 * Pow2[n - 1]

Width == IntSize * Bits

Ints == -Pow2[Width - 1] .. Pow2[Width - 1] - 1

READ == 0

ECHO == 5

-----------------------------------------------------------------------------
\* ByteBuffer and Parity

IsSet(n, p) == (n \div Pow2[p]) % 2 = 1

\* Faulty variant of IntBytes: a byte is not cut off what is above it.
IntBytesUncut(n) == [i \in 1 .. IntSize |-> {k \in 0 .. Width - 1 : IsSet(n, (IntSize - i) * Bits + k)}]

\* writeInt; the most significant byte comes first.
IntBytes(n) == [i \in 1 .. IntSize |-> {k \in BitPositions : IsSet(n, (IntSize - i) * Bits + k)}]

\* writeString
StringBytes(s) == IntBytes(Len(s)) \o s

Ones(data) == {b \in (1 .. Len(data)) \X BitPositions : b[2] \in data[b[1]]}

\* Faulty variant of CalculateEvenParityBit: the first byte is left out.
ParityOfTail(data) == IF Cardinality(Ones(Tail(data))) % 2 = 1 THEN One ELSE Zero

CalculateEvenParityBit(data) == IF Cardinality(Ones(data)) % 2 = 1 THEN One ELSE Zero

VerifyEvenParity(data, parity) == CalculateEvenParityBit(data) = parity

-----------------------------------------------------------------------------
\* Writing

FieldBytes(i) == StringBytes(FieldNames[i]) \o StringBytes(FieldTypes[i])

Metadata == FieldBytes(1) \o FieldBytes(2) \o FieldBytes(3)

\* Null marker, new object marker, class name, field count, names and types.
Header == <<One, Zero>> \o StringBytes(ClassName) \o IntBytes(3) \o Metadata

SerializeObject(m, none) ==
    Header \o IntBytes(m.type) \o IntBytes(m.id)
        \o (IF m.data = none THEN <<Zero>> ELSE <<One>> \o StringBytes(m.data))

WithParity(data) == Append(data, CalculateEvenParityBit(data))

\* The client writes an empty text as null.
CppSerialize(m) == WithParity(SerializeObject(m, <<>>))

JavaSerialize(m) == WithParity(SerializeObject(m, Null))

\* Names and texts have lengths that are ints and arrays; a client sends no
\* READ without a text; a request that is too long is cut in its text, and the
\* client's buffer holds what the server's does.
ASSUME MessagesAssumption ==
    /\ MaxArray \in Ints \cap Nat /\ {3, READ, ECHO} \subseteq Ints
    /\ {FieldNames, FieldTypes} \subseteq [1 .. 3 -> Text] /\ ClassName \in Text
    /\ \A i \in 1 .. 3 : Len(FieldNames[i]) <= MaxArray /\ Len(FieldTypes[i]) <= MaxArray
    /\ Len(ClassName) <= MaxArray
    /\ Messages \subseteq [type : Ints, id : Ints, data : Text]
    /\ \A m \in Messages : Len(m.data) <= MaxArray /\ (m.type = READ => m.data # <<>>)
    /\ ReplyData \subseteq Seq(Byte) /\ \A data \in ReplyData : Len(data) \in Ints
    /\ Null \notin Seq(Byte)
    /\ RequestBuffer \in Nat /\ RequestBuffer >= Len(Header) + 3 * IntSize + 2
    /\ {Capacity, ReplyBuffer} \subseteq Nat /\ Capacity <= ReplyBuffer

-----------------------------------------------------------------------------
\* Reading.  A read has a value and the position after it, or it failed.

Exception == [out |-> "exception"]
Fatal     == [out |-> "fatal"]
Undefined == [out |-> "undefined"]
Read(value, next) == [out |-> "ok", value |-> value, next |-> next]

\* Read s comes after read r.
Then(r, s) == IF r.out = "ok" THEN s ELSE r

ReadByte(buffer, at) == IF at <= Len(buffer) THEN Read(buffer[at], at + 1) ELSE Exception

\* Bit p of an int is one of a byte's.
BitIn(bytes, p) == p % Bits \in bytes[IntSize - p \div Bits]

\* value[p] is the number that bits 0 to p - 1 make.
Unsigned(bytes) ==
    LET value[p \in Nat] ==
            IF p = 0 THEN 0
            ELSE value[p - 1] + (IF BitIn(bytes, p - 1) THEN Pow2[p - 1] ELSE 0)
    IN  value[Width]

Signed(n) == IF n < Pow2[Width - 1] THEN n ELSE n - Pow2[Width]

ReadInt(buffer, at) ==
    IF at + IntSize - 1 <= Len(buffer)
    THEN Read(Signed(Unsigned(SubSeq(buffer, at, at + IntSize - 1))), at + IntSize)
    ELSE Exception

\* A negative length is an exception in both programs, and so is one beyond
\* the end, unless the server's heap has no room for it: an Error, which
\* catch (Exception e) does not catch.
ReadString(buffer, at, maxArray) ==
    LET n == ReadInt(buffer, at)
    IN  Then(n, IF n.value > maxArray THEN Fatal
                ELSE IF n.value < 0 \/ n.next + n.value - 1 > Len(buffer) THEN Exception
                ELSE Read(SubSeq(buffer, n.next, n.next + n.value - 1), n.next + n.value))

Unlimited == Pow2[Width]

\* What is read after read r.
IntAfter(buffer, r) == Then(r, ReadInt(buffer, r.next))
ByteAfter(buffer, r) == Then(r, ReadByte(buffer, r.next))
StringAfter(buffer, r, maxArray) == Then(r, ReadString(buffer, r.next, maxArray))

\* Nothing is: the field keeps its default.
Default(r, value) == Then(r, Read(value, r.next))

Message(type, id, data) == [type |-> type, id |-> id, data |-> data]

Assembled(type, id, data) == Then(data, Read(Message(type.value, id.value, data.value), data.next))

CppData(buffer, mark) ==
    Then(mark, IF mark.value = One THEN StringAfter(buffer, mark, Unlimited) ELSE Default(mark, <<>>))

\* The client compares class, count, names and types with its own; whatever
\* differs is an exception.  It reads on into the parity byte.
CppFields(buffer) ==
    LET type == ReadInt(buffer, Len(Header) + 1)
        id   == IntAfter(buffer, type)
    IN  Assembled(type, id, CppData(buffer, ByteAfter(buffer, id)))

\* Class name, field count, names and types are the client's own.
SameHeader(buffer) == \A i \in 3 .. Len(Header) : i <= Len(buffer) /\ buffer[i] = Header[i]

\* receiveResponse uses the null pointer that a null marker stands for.  A
\* reference has nothing to refer to.
CppObject(buffer) ==
    IF buffer[1] = Zero THEN Undefined
    ELSE IF Len(buffer) < 2 \/ buffer[2] = One \/ ~ SameHeader(buffer) THEN Exception
    ELSE CppFields(buffer)

CppDeserialize(buffer) ==
    IF buffer = <<>> \/ ~ VerifyEvenParity(Front(buffer), Last(buffer))
    THEN Exception
    ELSE CppObject(buffer)

Matches(r, name) == Then(r, IF r.value = name THEN r ELSE Exception)

Expect(buffer, r, name) == Matches(StringAfter(buffer, r, MaxArray), name)

\* A field's name and type are both read before either is looked up.
Field(buffer, r, name, type) ==
    LET n == StringAfter(buffer, r, MaxArray)
        t == StringAfter(buffer, n, MaxArray)
    IN  Then(t, IF n.value = name THEN Matches(t, type) ELSE Exception)

Named(buffer, r, i, count) ==
    IF i <= count THEN Field(buffer, r, FieldNames[i], FieldTypes[i]) ELSE r

\* readObject's loop over as many fields as the datagram says; a fourth has no
\* name that the class knows.
ReadMetadata(buffer, r, count) ==
    LET named == Named(buffer, Named(buffer, Named(buffer, r, 1, count), 2, count), 3, count)
    IN  IF count <= 3 THEN named ELSE Field(buffer, named, Null, Null)

JavaData(buffer, mark) ==
    Then(mark, IF mark.value = Zero THEN Default(mark, Null) ELSE StringAfter(buffer, mark, MaxArray))

\* Values of the fields that were named; the others keep their defaults.
JavaFields(buffer, r, count) ==
    LET type == IF count >= 1 THEN IntAfter(buffer, r) ELSE Default(r, 0)
        id   == IF count >= 2 THEN IntAfter(buffer, type) ELSE Default(type, 0)
        mark == IF count >= 3 THEN ByteAfter(buffer, id) ELSE Default(id, Zero)
    IN  Assembled(type, id, JavaData(buffer, mark))

\* Null and a reference are both null, and exceptions as soon as they are used.
JavaObject(buffer) ==
    LET count == IntAfter(buffer, Expect(buffer, Read(0, 3), ClassName))
    IN  IF Len(buffer) < 2 \/ buffer[1] = Zero \/ buffer[2] = One THEN Exception
        ELSE Then(count, JavaFields(buffer, ReadMetadata(buffer, count, count.value), count.value))

JavaDeserialize(datagram) ==
    IF VerifyEvenParity(Front(datagram), Last(datagram)) THEN JavaObject(Front(datagram)) ELSE Exception

-----------------------------------------------------------------------------
\* One exchange

NothingYet == [out |-> "none"]

Init ==
    /\ phase = "idle"
    /\ sent = Message(0, 0, Null)
    /\ wire = <<>>
    /\ flips = 0
    /\ got = NothingYet
    /\ spared = TRUE

SendRequest(m) ==
    /\ phase = "idle"
    /\ phase' = "request"
    /\ sent' = m
    /\ wire' = CppSerialize(m)
    /\ flips' = 0
    /\ got' = NothingYet
    /\ spared' = TRUE

Toggled(bytes, i, k) == [bytes EXCEPT ![i] = IF k \in @ THEN @ \ {k} ELSE @ \cup {k}]

\* The network damages a bit of the request or, as a bound, of the reply.
Flip(i, k) ==
    /\ phase = "request" \/ (phase = "reply" /\ spared)
    /\ flips < MaxFlips
    /\ wire' = Toggled(wire, i, k)
    /\ flips' = flips + 1
    /\ UNCHANGED <<phase, sent, got, spared>>

\* A datagram is cut to the buffer it is received in.
Received(size) == IF Len(wire) <= size THEN wire ELSE SubSeq(wire, 1, size)

\* A READ without data is an exception that nothing catches.
ServerReceive ==
    /\ phase = "request"
    /\ LET r    == JavaDeserialize(Received(RequestBuffer))
           dies == r.out = "fatal" \/ (r.out = "ok" /\ r.value.type = READ /\ r.value.data = Null)
       IN  /\ got' = r
           /\ spared' = (flips = 0)
           /\ phase' = IF dies THEN "server ended" ELSE "served"
    /\ UNCHANGED <<sent, wire, flips>>

\* What the handler replies: the message itself, data under its id (which
\* operation code goes with it is FacilityOps'), or Bad request under id 0.
ReplyTo(r, data) ==
    IF r.out # "ok" THEN Message(READ, 0, data)
    ELSE IF r.value.type = ECHO THEN r.value
    ELSE Message(r.value.type, r.value.id, data)

\* Faulty variant of SendReply: the reply is sent as far as it fits.
SendReplyCut(data) ==
    /\ phase = "served"
    /\ sent' = ReplyTo(got, data)
    /\ wire' = (LET bytes == JavaSerialize(sent') IN IF Len(bytes) <= Capacity THEN bytes ELSE SubSeq(bytes, 1, Capacity))
    /\ phase' = "reply"
    /\ flips' = 0
    /\ got' = NothingYet
    /\ UNCHANGED spared

\* Beyond the capacity the serializer fails and nothing is sent: the client
\* times out.
SendReply(data) ==
    /\ phase = "served"
    /\ LET reply == ReplyTo(got, data)
           bytes == JavaSerialize(reply)
       IN  IF Len(bytes) <= Capacity
           THEN /\ phase' = "reply"
                /\ sent' = reply
                /\ wire' = bytes
           ELSE /\ phase' = "idle"
                /\ UNCHANGED <<sent, wire>>
    /\ flips' = 0
    /\ got' = NothingYet
    /\ UNCHANGED spared

ClientReceive ==
    /\ phase = "reply"
    /\ got' = CppDeserialize(Received(ReplyBuffer))
    /\ phase' = IF got'.out = "undefined" THEN "client undefined" ELSE "answered"
    /\ UNCHANGED <<sent, wire, flips, spared>>

NextExchange ==
    /\ phase = "answered"
    /\ phase' = "idle"
    /\ UNCHANGED <<sent, wire, flips, got, spared>>

Next ==
    \/ \E m \in Messages : SendRequest(m)
    \/ \E i \in DOMAIN wire, k \in BitPositions : Flip(i, k)
    \/ ServerReceive
    \/ \E data \in ReplyData : SendReply(data)
    \/ ClientReceive
    \/ NextExchange

Spec == Init /\ [][Next]_vars

-----------------------------------------------------------------------------
(* Properties *)

\* Every component of the state has its type.
TypeOK ==
    /\ phase \in {"idle", "request", "served", "reply", "answered", "server ended", "client undefined"}
    /\ wire \in Seq(Byte)
    /\ flips \in 0 .. MaxFlips
    /\ spared \in BOOLEAN
    /\ got.out \in {"none", "ok", "exception", "fatal", "undefined"}

\* What the reader should have got: the client sends no text as null, and
\* reads null as no text.
Intended ==
    LET Swap(m, a, b) == IF m.data = a THEN [m EXCEPT !.data = b] ELSE m
    IN  IF phase = "served" THEN Swap(sent, <<>>, Null) ELSE Swap(sent, Null, <<>>)

\* The two programs write and read the same format: an undamaged datagram that
\* fits the server's receive buffer is read as the message that was written, by
\* either from the other; the replies that leave the server fit the client's.
WholeArrives ==
    /\ phase = "served" /\ flips = 0 /\ Len(wire) <= RequestBuffer => got.out = "ok" /\ got.value = Intended
    /\ phase = "answered" /\ flips = 0 => got.out = "ok" /\ got.value = Intended

\* One flipped bit anywhere, the parity byte and the lengths included, and a
\* request that was cut off, and both together, are never taken for another
\* message, end neither program and leave nothing undefined: the datagram is
\* read as it was meant or refused with an exception.
OneFlipIsHarmless ==
    flips <= 1 =>
        /\ phase \notin {"server ended", "client undefined"}
        /\ phase \in {"served", "answered"} =>
               got.out = "exception" \/ (got.out = "ok" /\ got.value = Intended)
=============================================================================
