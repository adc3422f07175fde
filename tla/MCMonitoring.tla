---------------------------- MODULE MCMonitoring ----------------------------
(* Small instances of Monitoring.  A client does not see the others, and the *)
(* server keeps their monitors apart: one client that registers repeatedly   *)
(* has several monitors at a time as well.                                   *)
EXTENDS Monitoring

CONSTANTS c1, f1, noSuchFacility
=============================================================================
