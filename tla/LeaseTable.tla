----------------------------- MODULE LeaseTable -----------------------------
(***************************************************************************)
(* What the port lease promises, with no process, lock or file in it: a    *)
(* table of which ports each bench's runtime has leased. A lease is given  *)
(* whole, out of ports no other runtime has, each within the span of ports *)
(* its key may walk to, and it ends whole. PortLease implements this.      *)
(***************************************************************************)
EXTENDS Integers

CONSTANTS
  Runtimes,     \* the benches' runtime directories
  Keys,         \* the ports a bench wants, in order: 1 is the web port
  Preferred,    \* Preferred[r][k]: where the walk for k starts
  Last(_, _)    \* Last(r, k): where it ends

VARIABLE lease  \* lease[r][k]: the port leased, 0 for none

Unleased == [k \in Keys |-> 0]

Init == lease = [r \in Runtimes |-> Unleased]

\* lease'[r] may be any choice of ports that satisfies this.
Grant(r) ==
  /\ lease[r] = Unleased
  /\ \A k \in Keys : lease'[r][k] \in Preferred[r][k] .. Last(r, k)
  /\ \A j, k \in Keys : lease'[r][j] = lease'[r][k] => j = k
  /\ \A s \in Runtimes \ {r}, j, k \in Keys : lease'[r][j] # lease[s][k]
  /\ lease' = [lease EXCEPT ![r] = lease'[r]]

End(r) ==
  /\ lease[r] # Unleased
  /\ lease' = [lease EXCEPT ![r] = Unleased]

Next == \E r \in Runtimes : Grant(r) \/ End(r)

Spec == Init /\ [][Next]_lease
=============================================================================
