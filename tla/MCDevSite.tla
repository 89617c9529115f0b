----------------------------- MODULE MCDevSite ------------------------------
(***************************************************************************)
(* Instances of DevSite for TLC: one app renamed, one replaced, and two    *)
(* copies of reconcile-apps.                                               *)
(***************************************************************************)
EXTENDS DevSite

CONSTANTS old, new, gone, heir, c1, c2

RenamedPairs  == {<<old, new>>}
ReplacedPairs == {<<gone, heir>>}
=============================================================================
