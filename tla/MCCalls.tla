------------------------------ MODULE MCCalls ------------------------------
(* A small instance of Calls for TLC. *)
EXTENDS Calls

CONSTANTS r1, r2, s1, s2
Sym == Permutations({r1, r2}) \cup Permutations({s1, s2})
=============================================================================
