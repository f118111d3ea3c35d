---------------------------- MODULE MCLogAuditor ----------------------------
(* Model-checking instance of LogAuditor.  Every proof carries a random     *)
(* proof_id, so proofs are distinct, and the tree arithmetic depends on     *)
(* positions only: naming the n-th proof of a boot n loses nothing.         *)
EXTENDS LogAuditor
=============================================================================
