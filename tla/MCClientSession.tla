--------------------------- MODULE MCClientSession ---------------------------
(* Small instances of ClientSession; its clients share the server's toggle   *)
(* and nothing else.                                                         *)
EXTENDS ClientSession

CONSTANTS c1, c2
=============================================================================
