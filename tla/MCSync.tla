------------------------------- MODULE MCSync -------------------------------
(***************************************************************************)
(* Instances of Sync for TLC: flake.nix and an entry of some strategies.   *)
(***************************************************************************)
EXTENDS Sync

CONSTANTS flake, lint, keys, marks, seed

Kinds == [e \in Entries |-> CASE e \in {flake, lint} -> "whole" [] e = keys -> "bare"
                              [] e = marks -> "block" [] e = seed -> "seed"]
=============================================================================
