----------------------------- MODULE MCAppTools -----------------------------
(***************************************************************************)
(* Instances of AppTools for TLC: frappe-test in one shell, frappe-shots   *)
(* and frappe-demo in the other.                                           *)
(***************************************************************************)
EXTENDS AppTools

CONSTANTS a, b

CheckLines ==
  {[kind |-> "test", consent |-> "ci", keep |-> FALSE, filtered |-> FALSE, on |-> {}, off |-> {}],
   [kind |-> "test", consent |-> "reuse", keep |-> TRUE, filtered |-> TRUE, on |-> {},
    off |-> {"coverage", "testmap", "composition"}]}
Shots == {[kind |-> "shots", consent |-> "ask"]}
Demos == {[kind |-> "demo", consent |-> "ask", fresh |-> TRUE, up |-> FALSE]}

BothShells == [t \in {a, b} |-> IF t = a THEN CheckLines ELSE Shots \cup Demos]
ShotsOnly  == [t \in {a, b} |-> IF t = a THEN Shots ELSE {}]
=============================================================================
