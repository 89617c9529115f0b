------------------------------ MODULE MCDevUp -------------------------------
(***************************************************************************)
(* Instances of DevUp for TLC. The wrapper of frappe-ports runs its copy   *)
(* of frappe:config as soon as the lease is there, the runtime's beside it.*)
(***************************************************************************)
EXTENDS DevUp

CONSTANTS p1, p2

MCOne == {"runtime"}
MCWrappers == {"ports", "runtime"}
=============================================================================
