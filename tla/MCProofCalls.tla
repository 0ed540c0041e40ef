---------------------------- MODULE MCProofCalls ----------------------------
(* ProofCalls with two threads, each of which calls the other.             *)
EXTENDS ProofCalls

CONSTANTS t1, t2

AllKinds == {"Queued", "Block", "BlockEvents"}

=============================================================================
