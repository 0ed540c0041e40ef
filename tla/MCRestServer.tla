---------------------------- MODULE MCRestServer ----------------------------
(* RestServer with connections enough for the two workers to share one     *)
(* connection too many, and as many addresses as sockets may be alive.     *)
EXTENDS RestServer

CONSTANTS c1, c2, c3, a1, a2, a3

MCConns == {c1, c2, c3}
MCAddresses == {a1, a2, a3}
TwoConns == {c1, c2}
TwoAddresses == {a1, a2}

Interchangeable == Permutations(MCConns) \cup Permutations(MCAddresses)

=============================================================================
