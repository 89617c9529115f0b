------------------------------ MODULE MCBench -------------------------------
(***************************************************************************)
(* Instances of Bench for TLC: two names, so that one can be renamed to    *)
(* the other and an app can stop another's lock.                           *)
(***************************************************************************)
EXTENDS Bench

CONSTANTS a1, a2
=============================================================================
