------------------------------ MODULE MCRunner ------------------------------
(***************************************************************************)
(* Instances of Runner for TLC: two job threads, two jobs, one request.    *)
(***************************************************************************)
EXTENDS Runner, TLC

CONSTANTS t1, t2, j1, j2, r1

Symmetric == Permutations(Threads)
=============================================================================
