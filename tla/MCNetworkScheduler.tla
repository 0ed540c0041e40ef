------------------------- MODULE MCNetworkScheduler -------------------------
(* NetworkScheduler with two requests that compete for one host, and one   *)
(* without a host, which needs no slot and may pass them.                  *)
EXTENDS NetworkScheduler

CONSTANTS r1, r2, r3, h1

MCHostOf == (r1 :> h1) @@ (r2 :> h1) @@ (r3 :> NoHost)

=============================================================================
