---------------------------- MODULE MCMarshalling ----------------------------
(* Bytes of two bits, ints of two bytes, short names. *)
EXTENDS Marshalling, TLC

\* Two letters.
a == {1}
b == {0, 1}

MCFieldNames == <<<<a>>, <<b, b>>, <<a, b, a>>>>
MCFieldTypes == <<<<a, a>>, <<a, a>>, <<b>>>>
MCClassName  == <<b, a>>

\* Requests with no data, with some, and with more than the server receives.
MCMessages ==
    {[type |-> READ, id |-> 2, data |-> <<a>>], [type |-> 1, id |-> 0, data |-> <<b, a>>],
     [type |-> ECHO, id |-> 1, data |-> <<>>], [type |-> ECHO, id |-> 3, data |-> <<a, b, b, a>>]}

MCReplyData == {<<>>, <<b>>, <<a, b, a, b, b>>}
=============================================================================
