---------------------------- MODULE MCInvocation ----------------------------
(***************************************************************************)
(* Small instances of Invocation.  The application is one that notices     *)
(* every execution: a counter whose value is the reply.                    *)
(***************************************************************************)
EXTENDS Invocation, TLC

CONSTANTS c1, c2, rate, book, ping

MCClients == {c1, c2}

MCExecute(a, c, r) == [app |-> a + 1, reply |-> [count |-> a + 1, request |-> r]]

Symmetry == Permutations(MCClients)
=============================================================================
