------------------------------ MODULE MCConsole ------------------------------
(* A small keyboard for the client's terminal. *)
EXTENDS Console, TLC

\* The words with the int they stand for; 0900 is a time as well.
MCIntOf ==
    [w \in {"0", "1", "2", "3", "4", "5", "6", "7", "8", "9", "10", "11", "0900"} |->
        CASE w = "0" -> 0 [] w = "1" -> 1 [] w = "2" -> 2 [] w = "3" -> 3 [] w = "4" -> 4
          [] w = "5" -> 5 [] w = "6" -> 6 [] w = "7" -> 7 [] w = "8" -> 8 [] w = "9" -> 9
          [] w = "10" -> 10 [] w = "11" -> 11 [] w = "0900" -> 900]

Words == DOMAIN MCIntOf \cup {"99999999999", "localhost", "<uuid>", "yes", "no", "word"}

\* One word a line, and lines with blanks, commas, or nothing.
MCLines ==
    {<<w>> : w \in Words}
        \cup {<<>>, <<"3", "_">>, <<"<uuid>", "_", "yes">>, <<"1", ",", "2">>, <<",">>,
              <<"1", ",", ",">>, <<"9", ",", "99999999999">>, <<"2", ",", "99999999999">>}
=============================================================================
