----------------------------- MODULE MCRestApi -----------------------------
(* RestApi with two calls, enough for one to wait for the other's slot.    *)
EXTENDS RestApi

CONSTANTS c1, c2

=============================================================================
