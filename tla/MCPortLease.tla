---------------------------- MODULE MCPortLease -----------------------------
(***************************************************************************)
(* Instances of PortLease for TLC. Two checkouts A and B hash to the same  *)
(* preferred ports. A is brought up twice (a1, a2), B once, and d is       *)
(* the dry run `devenv up` of B makes first.                               *)
(***************************************************************************)
EXTENDS PortLease

CONSTANTS A, B, a1, a2, b1, d, ready, show

MCRuntimeOf ==
  [x \in Holders \cup Readers |-> IF x \in {b1, d} THEN B ELSE A]

\* The walks overlap, each bench's own and the two benches', and B's second one
\* starts on the last port, where the span is cut.
MCPreferred == [r \in Runtimes |-> [k \in Keys |-> IF r = A THEN k ELSE k + 1]]

MCStrict == [r \in Runtimes |-> IF r = B THEN {Web} ELSE {}]
=============================================================================
