-------------------------- MODULE PortLeaseProofs ---------------------------
(***************************************************************************)
(* What PortLease guarantees for any number of benches, holders, readers,  *)
(* wants and ports.                                                        *)
(***************************************************************************)
EXTENDS PortLease, TLAPS

\* Between taking the runtime's lock and ending, by way of the walk.
Locked == {"drop", "walk", "check", "render", "publish", "serve", "unlink", "release"}

\* ports.lock belongs to a live holder of that very runtime, and a holder past
\* the lock has it; dry runs never come near it.
LockInv ==
  /\ \A r \in Runtimes : lock[r] # None =>
       /\ RuntimeOf[lock[r]] = r
       /\ lock[r] \notin DryRun
       /\ pc[lock[r]] \in Locked \cup {"exit"}
  /\ \A h \in Holders \ DryRun : pc[h] \in Locked => lock[RuntimeOf[h]] = h
  /\ \A h \in DryRun : pc[h] \in {"idle", "walk", "check", "exit"} \/ Ended(h)
  /\ \A h \in Holders : pc[h] = "zombie" => h \in Lingering

\* The walk of one holder: nothing is found or claimed before it begins; what it
\* has found it has claimed, one port per want, inside the want's span, and for
\* every want before the one it is at unless one was missed; a port being checked
\* is claimed and none of those found.
Fresh(h) ==
  pc[h] \in {"idle", "lock", "drop"} => got[h] = Unset /\ claims[h] = {} /\ key[h] = 1

Freed(h) ==
  /\ Ended(h) => claims[h] = {}
  /\ missed[h] => pc[h] \in {"walk", "check"} \/ claims[h] = {}

NoStray(h) ==
  claims[h] \subseteq Mine(h) \cup (IF pc[h] = "check" THEN {at[h]} ELSE {})

Found(h, k) ==
  /\ got[h][k] \in claims[h]
  /\ got[h][k] \in Preferred[RuntimeOf[h]][k] .. Last(RuntimeOf[h], k)
  /\ \A j \in Keys : got[h][j] = got[h][k] => j = k

Held(h) ==
  ~Ended(h) /\ pc[h] # "exit" => \A k \in Keys : got[h][k] # 0 => Found(h, k)

Progress(h) ==
  /\ \A k \in Keys : k >= key[h] => got[h][k] = 0
  /\ \A k \in Keys : k < key[h] /\ ~missed[h] => got[h][k] # 0
  /\ key[h] \in Keys => at[h] >= Preferred[RuntimeOf[h]][key[h]]

Trying(h) ==
  pc[h] = "check" =>
    /\ key[h] \in Keys /\ InSpan(h)
    /\ at[h] \in claims[h] /\ at[h] \notin Mine(h)

Complete(h) ==
  pc[h] \in {"render", "publish", "serve", "unlink", "release"} =>
    ~missed[h] /\ key[h] \notin Keys

WalkOf(h) ==
  /\ Fresh(h) /\ Freed(h) /\ NoStray(h) /\ Held(h)
  /\ Progress(h) /\ Trying(h) /\ Complete(h)

\* No two holders have claimed one port.
Exclusive ==
  \A g, h \in Holders : g # h => claims[g] \cap claims[h] = {}

WalkInv == Exclusive /\ \A h \in Holders : WalkOf(h)

\* Once a holder has dropped what it found, ports.json is its own or not there,
\* and from its rendering on nginx.conf is its own.
FileOf(h) ==
  LET r == RuntimeOf[h]
  IN  /\ pc[h] \in {"walk", "check", "render", "publish", "release"} => file[r].pid = None
      /\ pc[h] \in {"serve", "unlink"} => file[r] = [pid |-> h, ports |-> got[h]]
      /\ pc[h] \in {"publish", "serve", "unlink"} => conf[r] = got[h][Web]

FileWriter(r) ==
  LET w == file[r].pid
  IN  w # None =>
        /\ pc[w] \in {"serve", "unlink", "zombie", "killed"}
        /\ RuntimeOf[w] = r
        /\ w \notin DryRun

FileInv ==
  /\ \A h \in Holders \ DryRun : FileOf(h)
  /\ \A r \in Runtimes : FileWriter(r)

\* A reader past the file has read somebody's; one past the pid check has read a
\* lease that was up, or a zombie's.
ReaderInv ==
  \A q \in Readers :
    /\ rpc[q] \in {"alive", "flock", "up"} => saw[q] # None
    /\ rpc[q] = "alive" => truth[q] \/ pc[saw[q]] \in {"zombie", "killed"}
    /\ rpc[q] \in {"flock", "up"} /\ q \in Live => truth[q] \/ saw[q] \in Lingering

IInv == TypeOK /\ LockInv /\ WalkInv /\ FileInv /\ ReaderInv
-----------------------------------------------------------------------------
LEMMA LastInPorts ==
  ASSUME NEW r \in Runtimes, NEW k \in Keys
  PROVE  Last(r, k) \in Ports
  BY ConstantsAssumption DEF Last, Ports

LEMMA FileTypes ==
  /\ NoFile \in FileType
  /\ \A h \in Holders, ports \in [Keys -> 0 .. LastPort] : [pid |-> h, ports |-> ports] \in FileType
  BY ConstantsAssumption DEF FileType, NoFile, Unset

LEMMA InSpanPort ==
  ASSUME TypeOK, NEW h \in Holders, key[h] \in Keys, InSpan(h)
  PROVE  at[h] \in Ports /\ at[h] + 1 \in 1 .. LastPort + 1
<1>1. Last(RuntimeOf[h], key[h]) \in 1 .. LastPort
  BY LastInPorts, ConstantsAssumption DEF Ports
<1>2. at[h] \in 1 .. LastPort + 1 /\ at[h] <= Last(RuntimeOf[h], key[h])
  BY DEF TypeOK, InSpan
<1>3. QED
  BY <1>1, <1>2, ConstantsAssumption DEF Ports

LEMMA NextWantInRange ==
  ASSUME TypeOK, NEW h \in Holders, key[h] \in Keys
  PROVE  /\ key[h] + 1 \in 1 .. NKeys + 1
         /\ key[h] < NKeys => Preferred[RuntimeOf[h]][key[h] + 1] \in 1 .. LastPort + 1
<1>1. RuntimeOf[h] \in Runtimes
  BY ConstantsAssumption
<1>2. key[h] < NKeys => key[h] + 1 \in Keys
  BY ConstantsAssumption DEF Keys
<1>3. key[h] + 1 \in 1 .. NKeys + 1
  BY ConstantsAssumption DEF Keys
<1>4. \A k \in Keys : Preferred[RuntimeOf[h]][k] \in Ports
  BY <1>1, ConstantsAssumption
<1>5. QED
  BY <1>2, <1>3, <1>4, ConstantsAssumption DEF Ports

LEMMA InitIInv == Init => IInv
<1> SUFFICES ASSUME Init PROVE IInv
  OBVIOUS
<1> USE ConstantsAssumption DEF Init
<1>1. TypeOK
  BY FileTypes DEF TypeOK, HolderStates, ReaderStates, Keys, Ports, Unset
<1>2. LockInv
  BY DEF LockInv, Locked, Ended
<1>3. WalkInv
  <2>1. \A h \in Holders : RuntimeOf[h] \in Runtimes
    OBVIOUS
  <2>2. \A h \in Holders : at[h] = Preferred[RuntimeOf[h]][1] /\ at[h] \in Nat
    BY <2>1 DEF Keys, Ports
  <2>3. QED
    BY <2>1, <2>2 DEF WalkInv, Exclusive, WalkOf, Fresh, Freed, NoStray, Held,
       Progress, Trying, Complete, Ended, Unset, Keys
<1>4. FileInv
  BY DEF FileInv, FileOf, FileWriter, NoFile
<1>5. ReaderInv
  BY DEF ReaderInv
<1>6. QED
  BY <1>1, <1>2, <1>3, <1>4, <1>5 DEF IInv

LEMMA TypeStep ==
  ASSUME TypeOK, WalkInv, [Next]_vars
  PROVE  TypeOK'
<1> USE ConstantsAssumption DEF TypeOK, HolderStates, ReaderStates
<1>1. ASSUME NEW h \in Holders, Start(h) PROVE TypeOK'
  BY <1>1 DEF Start, Goto, readerVars
<1>2. ASSUME NEW h \in Holders, TakeLock(h) PROVE TypeOK'
  BY <1>2 DEF TakeLock, Goto, readerVars
<1>3. ASSUME NEW h \in Holders, GiveUp(h) PROVE TypeOK'
  BY <1>3 DEF GiveUp, Goto, readerVars
<1>4. ASSUME NEW h \in Holders, DropStale(h) PROVE TypeOK'
  BY <1>4, FileTypes DEF DropStale, Goto, readerVars
<1>5. ASSUME NEW h \in Holders, Claim(h) PROVE TypeOK'
  <2>1. at[h] \in Ports
    BY <1>5, InSpanPort DEF Claim, Walking
  <2>2. QED
    BY <1>5, <2>1 DEF Claim, Goto, readerVars
<1>6. ASSUME NEW h \in Holders, PassOver(h) PROVE TypeOK'
  <2>1. at[h] + 1 \in 1 .. LastPort + 1
    BY <1>6, InSpanPort DEF PassOver, Walking
  <2>2. QED
    BY <1>6, <2>1 DEF PassOver, Goto, readerVars
<1>7. ASSUME NEW h \in Holders, Exhaust(h) PROVE TypeOK'
  <2>1. key[h] \in Keys
    BY <1>7 DEF Exhaust, Walking
  <2>2. QED
    BY <1>7, <2>1, NextWantInRange DEF Exhaust, NextWant, readerVars
<1>8. ASSUME NEW h \in Holders, TcpFree(h) PROVE TypeOK'
  <2>1. key[h] \in Keys /\ at[h] \in Ports
    BY <1>8, InSpanPort DEF TcpFree, WalkInv, WalkOf, Trying
  <2>2. got' \in [Holders -> [Keys -> 0 .. LastPort]]
    BY <1>8, <2>1 DEF TcpFree, Ports
  <2>3. QED
    BY <1>8, <2>1, <2>2, NextWantInRange DEF TcpFree, NextWant, Goto, readerVars
<1>9. ASSUME NEW h \in Holders, TcpTaken(h) PROVE TypeOK'
  <2>1. at[h] + 1 \in 1 .. LastPort + 1
    BY <1>9, InSpanPort DEF TcpTaken, WalkInv, WalkOf, Trying
  <2>2. QED
    BY <1>9, <2>1 DEF TcpTaken, Goto, readerVars
<1>10. ASSUME NEW h \in Holders, Settle(h) PROVE TypeOK'
  BY <1>10 DEF Settle, Goto, readerVars
<1>11. ASSUME NEW h \in Holders, Render(h) PROVE TypeOK'
  <2>1. got[h][Web] \in 0 .. LastPort
    BY DEF Web, Keys
  <2>2. QED
    BY <1>11, <2>1 DEF Render, Goto, readerVars
<1>12. ASSUME NEW h \in Holders, Publish(h) PROVE TypeOK'
  BY <1>12, FileTypes DEF Publish, Goto, readerVars
<1>13. ASSUME NEW h \in Holders, Stop(h) PROVE TypeOK'
  BY <1>13 DEF Stop, Goto, readerVars
<1>14. ASSUME NEW h \in Holders, Unlink(h) PROVE TypeOK'
  BY <1>14, FileTypes DEF Unlink, Goto, readerVars
<1>15. ASSUME NEW h \in Holders, Release(h) PROVE TypeOK'
  BY <1>15 DEF Release, Goto, readerVars
<1>16. ASSUME NEW h \in Holders, Exit(h) PROVE TypeOK'
  BY <1>16 DEF Exit, DropAll, Goto, readerVars
<1>17. ASSUME NEW h \in Holders, Kill(h) PROVE TypeOK'
  BY <1>17 DEF Kill, DropAll, Goto, readerVars
<1>18. ASSUME NEW h \in Holders, Reap(h) PROVE TypeOK'
  BY <1>18 DEF Reap, Goto, readerVars
<1>19. ASSUME NEW q \in Readers, ReadFile(q) PROVE TypeOK'
  <2>1. file[RuntimeOf[q]].pid \in Holders \cup {None}
    BY DEF FileType
  <2>2. LeaseUp(RuntimeOf[q]) \in BOOLEAN
    BY DEF LeaseUp
  <2>3. QED
    BY <1>19, <2>1, <2>2 DEF ReadFile, holderVars
<1>20. ASSUME NEW q \in Readers, CheckAlive(q) PROVE TypeOK'
  BY <1>20 DEF CheckAlive, holderVars
<1>21. ASSUME NEW q \in Readers, TestLock(q) PROVE TypeOK'
  BY <1>21 DEF TestLock, holderVars
<1>22. ASSUME NEW q \in Readers, DropShared(q) PROVE TypeOK'
  BY <1>22 DEF DropShared, holderVars
<1>23. ASSUME NEW p \in Outside, Toggle(p) PROVE TypeOK'
  BY <1>23 DEF Toggle, holderVars, readerVars
<1>24. CASE UNCHANGED vars
  BY <1>24 DEF vars
<1>25. QED
  BY <1>1, <1>2, <1>3, <1>4, <1>5, <1>6, <1>7, <1>8, <1>9, <1>10, <1>11, <1>12, <1>13, <1>14, <1>15, <1>16, <1>17, <1>18, <1>19, <1>20, <1>21, <1>22, <1>23, <1>24
  DEF Next, HolderStep, ReaderStep

LEMMA LockStep ==
  ASSUME TypeOK, LockInv, [Next]_vars
  PROVE  LockInv'
<1>a. /\ pc \in [Holders -> HolderStates]
      /\ lock \in [Runtimes -> Holders \cup {None}]
      /\ RuntimeOf \in [Holders \cup Readers -> Runtimes]
      /\ DryRun \subseteq Holders /\ None \notin Holders
  BY ConstantsAssumption DEF TypeOK
<1> USE <1>a DEF LockInv, Locked, Ended
<1>1. ASSUME NEW h \in Holders, Start(h) PROVE LockInv'
  BY <1>1 DEF Start, Goto, readerVars
<1>2. ASSUME NEW h \in Holders, TakeLock(h) PROVE LockInv'
  BY <1>2 DEF TakeLock, LockFree, Goto, readerVars
<1>3. ASSUME NEW h \in Holders, GiveUp(h) PROVE LockInv'
  BY <1>3 DEF GiveUp, Goto, readerVars
<1>4. ASSUME NEW h \in Holders, DropStale(h) PROVE LockInv'
  BY <1>4 DEF DropStale, Goto, readerVars
<1>5. ASSUME NEW h \in Holders, Claim(h) PROVE LockInv'
  BY <1>5 DEF Claim, Walking, Goto, readerVars
<1>6. ASSUME NEW h \in Holders, PassOver(h) PROVE LockInv'
  BY <1>6 DEF PassOver, Goto, readerVars
<1>7. ASSUME NEW h \in Holders, Exhaust(h) PROVE LockInv'
  BY <1>7 DEF Exhaust, Goto, readerVars
<1>8. ASSUME NEW h \in Holders, TcpFree(h) PROVE LockInv'
  BY <1>8 DEF TcpFree, Goto, readerVars
<1>9. ASSUME NEW h \in Holders, TcpTaken(h) PROVE LockInv'
  BY <1>9 DEF TcpTaken, Goto, readerVars
<1>10. ASSUME NEW h \in Holders, Settle(h) PROVE LockInv'
  BY <1>10 DEF Settle, Goto, readerVars
<1>11. ASSUME NEW h \in Holders, Render(h) PROVE LockInv'
  BY <1>11 DEF Render, Goto, readerVars
<1>12. ASSUME NEW h \in Holders, Publish(h) PROVE LockInv'
  BY <1>12 DEF Publish, Goto, readerVars
<1>13. ASSUME NEW h \in Holders, Stop(h) PROVE LockInv'
  BY <1>13 DEF Stop, Goto, readerVars
<1>14. ASSUME NEW h \in Holders, Unlink(h) PROVE LockInv'
  BY <1>14 DEF Unlink, Goto, readerVars
<1>15. ASSUME NEW h \in Holders, Release(h) PROVE LockInv'
  BY <1>15 DEF Release, Goto, readerVars
<1>16. ASSUME NEW h \in Holders, Exit(h) PROVE LockInv'
  BY <1>16 DEF Exit, DropAll, Goto, readerVars
<1>17. ASSUME NEW h \in Holders, Kill(h) PROVE LockInv'
  BY <1>17 DEF Kill, DropAll, Goto, readerVars
<1>18. ASSUME NEW h \in Holders, Reap(h) PROVE LockInv'
  BY <1>18 DEF Reap, Goto, readerVars
<1>19. ASSUME NEW q \in Readers, ReadFile(q) PROVE LockInv'
  BY <1>19 DEF ReadFile, holderVars
<1>20. ASSUME NEW q \in Readers, CheckAlive(q) PROVE LockInv'
  BY <1>20 DEF CheckAlive, holderVars
<1>21. ASSUME NEW q \in Readers, TestLock(q) PROVE LockInv'
  BY <1>21 DEF TestLock, holderVars
<1>22. ASSUME NEW q \in Readers, DropShared(q) PROVE LockInv'
  BY <1>22 DEF DropShared, holderVars
<1>23. ASSUME NEW p \in Outside, Toggle(p) PROVE LockInv'
  BY <1>23 DEF Toggle, holderVars, readerVars
<1>24. CASE UNCHANGED vars
  BY <1>24 DEF vars
<1>25. QED
  BY <1>1, <1>2, <1>3, <1>4, <1>5, <1>6, <1>7, <1>8, <1>9, <1>10, <1>11, <1>12, <1>13, <1>14, <1>15, <1>16, <1>17, <1>18, <1>19, <1>20, <1>21, <1>22, <1>23, <1>24
  DEF Next, HolderStep, ReaderStep

\* A holder whose own part of the state does not change keeps its walk.
LEMMA WalkFrame ==
  ASSUME NEW g \in Holders, WalkOf(g),
         pc'[g] = pc[g], key'[g] = key[g], at'[g] = at[g],
         got'[g] = got[g], claims'[g] = claims[g], missed'[g] = missed[g]
  PROVE  WalkOf(g)'
  BY DEF WalkOf, Fresh, Freed, NoStray, Held, Found, Progress, Trying, Complete, Ended, Mine, InSpan

LEMMA PreferredType ==
  ASSUME NEW h \in Holders, NEW k \in Keys
  PROVE  Preferred[RuntimeOf[h]][k] \in 1 .. LastPort /\ k \in Nat /\ LastPort \in Nat /\ NKeys \in Nat
  BY ConstantsAssumption DEF Keys, Ports

\* Whatever a holder does, its own walk stays well formed.
LEMMA ActorWalk ==
  ASSUME TypeOK, WalkInv, NEW h \in Holders,
         Start(h) \/ HolderStep(h) \/ Stop(h) \/ Kill(h) \/ Reap(h)
  PROVE  WalkOf(h)'
<1>a. /\ WalkOf(h)
      /\ pc \in [Holders -> HolderStates] /\ key \in [Holders -> 1 .. NKeys + 1]
      /\ at \in [Holders -> 1 .. LastPort + 1] /\ got \in [Holders -> [Keys -> 0 .. LastPort]]
      /\ claims \in [Holders -> SUBSET Ports] /\ missed \in [Holders -> BOOLEAN]
  BY DEF WalkInv, TypeOK
<1> USE DEF WalkOf, Fresh, Freed, NoStray, Held, Found, Progress, Trying, Complete, Ended, Mine, InSpan
<1>1. CASE Start(h)
  BY <1>1, <1>a DEF Start, Goto
<1>2. CASE TakeLock(h)
  BY <1>2, <1>a DEF TakeLock, Goto
<1>3. CASE GiveUp(h)
  BY <1>3, <1>a DEF GiveUp, Goto
<1>4. CASE DropStale(h)
  BY <1>4, <1>a DEF DropStale, Goto
<1>5. CASE Claim(h)
  BY <1>5, <1>a DEF Claim, Goto, Walking
<1>6. CASE PassOver(h)
  <2>1. key[h] \in Keys /\ at[h] + 1 >= Preferred[RuntimeOf[h]][key[h]]
    BY <1>6, <1>a, PreferredType DEF PassOver, Walking
  <2>2. QED
    BY <1>6, <1>a, <2>1 DEF PassOver, Walking
<1>7. CASE Exhaust(h)
  <2>1. pc[h] = "walk" /\ key[h] \in Keys /\ key[h] \in Nat /\ NKeys \in Nat
    BY <1>7, PreferredType DEF Exhaust, Walking
  <2>2. missed'[h] /\ key'[h] = key[h] + 1 /\ UNCHANGED <<pc, got, claims>>
    BY <1>7, <1>a DEF Exhaust, NextWant
  <2>3. key'[h] \in Keys => at'[h] = Preferred[RuntimeOf[h]][key'[h]]
    BY <1>7, <1>a, <2>1, <2>2 DEF Exhaust, NextWant, Keys
  <2>4. Progress(h)'
    BY <1>a, <2>1, <2>2, <2>3, PreferredType DEF Keys
  <2>5. QED
    BY <1>a, <2>1, <2>2, <2>4
<1>8. CASE TcpFree(h)
  <2>1. /\ key[h] \in Keys /\ key[h] \in Nat /\ NKeys \in Nat /\ at[h] \in Ports
        /\ at[h] <= Last(RuntimeOf[h], key[h]) /\ at[h] \in claims[h]
        /\ at[h] >= Preferred[RuntimeOf[h]][key[h]]
        /\ \A k \in Keys : got[h][k] # at[h]
    BY <1>8, <1>a, PreferredType, InSpanPort DEF TcpFree
  <2>2. /\ pc'[h] = "walk" /\ key'[h] = key[h] + 1 /\ UNCHANGED <<claims, missed>>
        /\ \A k \in Keys : got'[h][k] = IF k = key[h] THEN at[h] ELSE got[h][k]
    BY <1>8, <1>a, <2>1 DEF TcpFree, NextWant, Goto
  <2>3. key'[h] \in Keys => at'[h] = Preferred[RuntimeOf[h]][key'[h]]
    BY <1>8, <1>a, <2>1, <2>2 DEF TcpFree, NextWant, Keys
  <2>4. Progress(h)'
    <3>1. \A k \in Keys : k \in Nat /\ (k >= key[h] + 1 => k # key[h] /\ k >= key[h])
      BY <2>1, PreferredType
    <3>2. \A k \in Keys : k < key[h] + 1 => k = key[h] \/ k < key[h]
      BY <2>1, PreferredType
    <3>3. at[h] # 0
      BY <2>1 DEF Ports
    <3>4. key'[h] \in Keys => at'[h] >= Preferred[RuntimeOf[h]][key'[h]]
      BY <2>3, PreferredType
    <3>5. QED
      BY <1>a, <2>1, <2>2, <3>1, <3>2, <3>3, <3>4
  <2>5. Held(h)'
    <3>1. pc[h] = "check"
      BY <1>8 DEF TcpFree
    <3>2. at[h] \in Preferred[RuntimeOf[h]][key[h]] .. Last(RuntimeOf[h], key[h])
      BY <2>1, PreferredType DEF Ports
    <3>3. ASSUME NEW k \in Keys, got'[h][k] # 0 PROVE Found(h, k)'
      BY <1>a, <2>1, <2>2, <3>1, <3>2, <3>3
    <3>4. QED
      BY <3>3
  <2>6. NoStray(h)'
    <3>1. pc[h] = "check"
      BY <1>8 DEF TcpFree
    <3>2. got[h][key[h]] = 0 /\ 0 \notin claims[h]
      BY <1>a, <2>1 DEF Ports
    <3>3. ASSUME NEW p \in claims[h] PROVE \E k \in Keys : p = got'[h][k]
      <4>1. CASE p = at[h]
        BY <4>1, <2>1, <2>2
      <4>2. CASE p # at[h]
        BY <4>2, <1>a, <2>1, <2>2, <3>1, <3>2
      <4>3. QED
        BY <4>1, <4>2
    <3>4. QED
      BY <2>2, <3>3
  <2>7. QED
    BY <1>a, <2>2, <2>4, <2>5, <2>6
<1>9. CASE TcpTaken(h)
  <2>1. /\ key[h] \in Keys /\ at[h] + 1 >= Preferred[RuntimeOf[h]][key[h]]
        /\ \A k \in Keys : got[h][k] # at[h]
    BY <1>9, <1>a, PreferredType DEF TcpTaken
  <2>2. /\ pc[h] = "check" /\ pc'[h] = "walk" /\ at'[h] = at[h] + 1
        /\ claims'[h] = claims[h] \ {at[h]} /\ UNCHANGED <<key, got, missed>>
    BY <1>9, <1>a DEF TcpTaken, Goto
  <2>3. NoStray(h)' /\ Held(h)'
    BY <1>a, <2>1, <2>2
  <2>4. QED
    BY <1>a, <2>1, <2>2, <2>3
<1>10. CASE Settle(h)
  BY <1>10, <1>a DEF Settle, Goto
<1>11. CASE Render(h)
  BY <1>11, <1>a DEF Render, Goto
<1>12. CASE Publish(h)
  BY <1>12, <1>a DEF Publish, Goto
<1>13. CASE Stop(h)
  BY <1>13, <1>a DEF Stop, Goto
<1>14. CASE Unlink(h)
  BY <1>14, <1>a DEF Unlink, Goto
<1>15. CASE Release(h)
  BY <1>15, <1>a DEF Release, Goto
<1>16. CASE Exit(h)
  BY <1>16, <1>a DEF Exit, Goto, DropAll
<1>17. CASE Kill(h)
  BY <1>17, <1>a DEF Kill, Goto, DropAll
<1>18. CASE Reap(h)
  BY <1>18, <1>a DEF Reap, Goto
<1>19. QED
  BY <1>1, <1>2, <1>3, <1>4, <1>5, <1>6, <1>7, <1>8, <1>9, <1>10, <1>11, <1>12, <1>13, <1>14, <1>15, <1>16, <1>17, <1>18 DEF HolderStep

\* A holder's step changes nothing of another holder.
LEMMA OthersFrame ==
  ASSUME TypeOK, NEW h \in Holders, NEW g \in Holders \ {h},
         Start(h) \/ HolderStep(h) \/ Stop(h) \/ Kill(h) \/ Reap(h)
  PROVE  /\ pc'[g] = pc[g] /\ key'[g] = key[g] /\ at'[g] = at[g]
         /\ got'[g] = got[g] /\ claims'[g] = claims[g] /\ missed'[g] = missed[g]
<1>a. /\ pc \in [Holders -> HolderStates] /\ key \in [Holders -> 1 .. NKeys + 1]
      /\ at \in [Holders -> 1 .. LastPort + 1] /\ got \in [Holders -> [Keys -> 0 .. LastPort]]
      /\ claims \in [Holders -> SUBSET Ports] /\ missed \in [Holders -> BOOLEAN]
  BY DEF TypeOK
<1>1. CASE Start(h)
  BY <1>1, <1>a DEF Start, Goto
<1>2. CASE TakeLock(h)
  BY <1>2, <1>a DEF TakeLock, Goto
<1>3. CASE GiveUp(h)
  BY <1>3, <1>a DEF GiveUp, Goto
<1>4. CASE DropStale(h)
  BY <1>4, <1>a DEF DropStale, Goto
<1>5. CASE Claim(h)
  BY <1>5, <1>a DEF Claim, Goto
<1>6. CASE PassOver(h)
  BY <1>6, <1>a DEF PassOver, Goto
<1>7. CASE Exhaust(h)
  BY <1>7, <1>a DEF Exhaust, Goto, NextWant
<1>8. CASE TcpFree(h)
  BY <1>8, <1>a DEF TcpFree, Goto, NextWant
<1>9. CASE TcpTaken(h)
  BY <1>9, <1>a DEF TcpTaken, Goto
<1>10. CASE Settle(h)
  BY <1>10, <1>a DEF Settle, Goto
<1>11. CASE Render(h)
  BY <1>11, <1>a DEF Render, Goto
<1>12. CASE Publish(h)
  BY <1>12, <1>a DEF Publish, Goto
<1>13. CASE Stop(h)
  BY <1>13, <1>a DEF Stop, Goto
<1>14. CASE Unlink(h)
  BY <1>14, <1>a DEF Unlink, Goto
<1>15. CASE Release(h)
  BY <1>15, <1>a DEF Release, Goto
<1>16. CASE Exit(h)
  BY <1>16, <1>a DEF Exit, Goto, DropAll
<1>17. CASE Kill(h)
  BY <1>17, <1>a DEF Kill, Goto, DropAll
<1>18. CASE Reap(h)
  BY <1>18, <1>a DEF Reap, Goto
<1>19. QED
  BY <1>1, <1>2, <1>3, <1>4, <1>5, <1>6, <1>7, <1>8, <1>9, <1>10, <1>11, <1>12, <1>13, <1>14, <1>15, <1>16, <1>17, <1>18 DEF HolderStep

\* The only port a step adds to a holder's claims is one nobody has claimed.
LEMMA ClaimsGrowFree ==
  ASSUME TypeOK, NEW h \in Holders,
         Start(h) \/ HolderStep(h) \/ Stop(h) \/ Kill(h) \/ Reap(h)
  PROVE  \A p \in claims'[h] : p \in claims[h] \/ \A g \in Holders : p \notin claims[g]
<1>a. /\ pc \in [Holders -> HolderStates] /\ key \in [Holders -> 1 .. NKeys + 1]
      /\ at \in [Holders -> 1 .. LastPort + 1] /\ got \in [Holders -> [Keys -> 0 .. LastPort]]
      /\ claims \in [Holders -> SUBSET Ports] /\ missed \in [Holders -> BOOLEAN]
  BY DEF TypeOK
<1> USE DEF Claimed
<1>1. CASE Start(h)
  BY <1>1, <1>a DEF Start, Goto
<1>2. CASE TakeLock(h)
  BY <1>2, <1>a DEF TakeLock, Goto
<1>3. CASE GiveUp(h)
  BY <1>3, <1>a DEF GiveUp, Goto
<1>4. CASE DropStale(h)
  BY <1>4, <1>a DEF DropStale, Goto
<1>5. CASE Claim(h)
  BY <1>5, <1>a DEF Claim, Goto
<1>6. CASE PassOver(h)
  BY <1>6, <1>a DEF PassOver, Goto
<1>7. CASE Exhaust(h)
  BY <1>7, <1>a DEF Exhaust, Goto, NextWant
<1>8. CASE TcpFree(h)
  BY <1>8, <1>a DEF TcpFree, Goto, NextWant
<1>9. CASE TcpTaken(h)
  BY <1>9, <1>a DEF TcpTaken, Goto
<1>10. CASE Settle(h)
  BY <1>10, <1>a DEF Settle, Goto
<1>11. CASE Render(h)
  BY <1>11, <1>a DEF Render, Goto
<1>12. CASE Publish(h)
  BY <1>12, <1>a DEF Publish, Goto
<1>13. CASE Stop(h)
  BY <1>13, <1>a DEF Stop, Goto
<1>14. CASE Unlink(h)
  BY <1>14, <1>a DEF Unlink, Goto
<1>15. CASE Release(h)
  BY <1>15, <1>a DEF Release, Goto
<1>16. CASE Exit(h)
  BY <1>16, <1>a DEF Exit, Goto, DropAll
<1>17. CASE Kill(h)
  BY <1>17, <1>a DEF Kill, Goto, DropAll
<1>18. CASE Reap(h)
  BY <1>18, <1>a DEF Reap, Goto
<1>19. QED
  BY <1>1, <1>2, <1>3, <1>4, <1>5, <1>6, <1>7, <1>8, <1>9, <1>10, <1>11, <1>12, <1>13, <1>14, <1>15, <1>16, <1>17, <1>18 DEF HolderStep

LEMMA WalkStep ==
  ASSUME TypeOK, WalkInv, [Next]_vars
  PROVE  WalkInv'
<1>1. ASSUME NEW h \in Holders,
             Start(h) \/ HolderStep(h) \/ Stop(h) \/ Kill(h) \/ Reap(h)
      PROVE  WalkInv'
  <2>1. WalkOf(h)'
    BY <1>1, ActorWalk
  <2>2. ASSUME NEW g \in Holders \ {h} PROVE WalkOf(g)' /\ claims'[g] = claims[g]
    BY <1>1, OthersFrame, WalkFrame DEF WalkInv
  <2>3. Exclusive'
    BY <1>1, <2>2, ClaimsGrowFree DEF Exclusive, WalkInv
  <2>4. QED
    BY <2>1, <2>2, <2>3 DEF WalkInv
<1>2. ASSUME UNCHANGED holderVars PROVE WalkInv'
  <2>1. \A g \in Holders : WalkOf(g)'
    BY <1>2, WalkFrame DEF WalkInv, holderVars
  <2>2. QED
    BY <1>2, <2>1 DEF WalkInv, Exclusive, holderVars
<1>3. ASSUME NEW q \in Readers, ReaderStep(q) PROVE WalkInv'
  BY <1>2, <1>3 DEF ReaderStep, ReadFile, CheckAlive, TestLock, DropShared
<1>4. ASSUME NEW p \in Outside, Toggle(p) PROVE WalkInv'
  BY <1>2, <1>4 DEF Toggle
<1>5. CASE UNCHANGED vars
  BY <1>2, <1>5 DEF vars, holderVars
<1>6. QED
  BY <1>1, <1>3, <1>4, <1>5 DEF Next

\* The holder of a runtime's lock is alone past the lock there.
LEMMA LockExcludes ==
  ASSUME LockInv, NEW g \in Holders \ DryRun, NEW h \in Holders \ DryRun, g # h,
         RuntimeOf[g] = RuntimeOf[h], pc[h] \in Locked
  PROVE  pc[g] \notin Locked
  BY DEF LockInv

LEMMA FileStep ==
  ASSUME TypeOK, LockInv, FileInv, [Next]_vars
  PROVE  FileInv'
<1>a. /\ pc \in [Holders -> HolderStates]
      /\ got \in [Holders -> [Keys -> 0 .. LastPort]]
      /\ lock \in [Runtimes -> Holders \cup {None}]
      /\ file \in [Runtimes -> FileType]
      /\ conf \in [Runtimes -> 0 .. LastPort]
      /\ RuntimeOf \in [Holders \cup Readers -> Runtimes]
      /\ DryRun \subseteq Holders /\ None \notin Holders
  BY ConstantsAssumption DEF TypeOK
<1> USE <1>a DEF LockInv, Locked, Ended, FileInv, FileOf, FileWriter, FileType, NoFile
<1>1. ASSUME NEW h \in Holders, Start(h) PROVE FileInv'
  BY <1>1 DEF Start, Goto, readerVars
<1>2. ASSUME NEW h \in Holders, TakeLock(h) PROVE FileInv'
  BY <1>2 DEF TakeLock, Goto, readerVars, LockFree
<1>3. ASSUME NEW h \in Holders, GiveUp(h) PROVE FileInv'
  BY <1>3 DEF GiveUp, Goto, readerVars
<1>4. ASSUME NEW h \in Holders, DropStale(h) PROVE FileInv'
  <2>1. h \notin DryRun /\ pc[h] \in Locked
    BY <1>4 DEF DropStale
  <2>2. ASSUME NEW g \in Holders \ DryRun PROVE FileOf(g)'
    <3>1. CASE g = h
      BY <1>4, <2>1, <3>1 DEF DropStale, Goto
    <3>2. CASE g # h /\ RuntimeOf[g] = RuntimeOf[h]
      BY <1>4, <2>1, <3>2, LockExcludes DEF DropStale, Goto
    <3>3. CASE RuntimeOf[g] # RuntimeOf[h]
      BY <1>4, <3>3 DEF DropStale, Goto
    <3>4. QED
      BY <3>1, <3>2, <3>3
  <2>3. ASSUME NEW r \in Runtimes PROVE FileWriter(r)'
    BY <1>4, <2>1 DEF DropStale, Goto
  <2>4. QED
    BY <2>2, <2>3
<1>5. ASSUME NEW h \in Holders, Claim(h) PROVE FileInv'
  BY <1>5 DEF Claim, Goto, readerVars, Walking
<1>6. ASSUME NEW h \in Holders, PassOver(h) PROVE FileInv'
  BY <1>6 DEF PassOver, Goto, readerVars, Walking
<1>7. ASSUME NEW h \in Holders, Exhaust(h) PROVE FileInv'
  BY <1>7 DEF Exhaust, Goto, readerVars, Walking, NextWant
<1>8. ASSUME NEW h \in Holders, TcpFree(h) PROVE FileInv'
  BY <1>8 DEF TcpFree, Goto, readerVars, NextWant
<1>9. ASSUME NEW h \in Holders, TcpTaken(h) PROVE FileInv'
  <2>1. ASSUME NEW g \in Holders \ DryRun PROVE FileOf(g)'
    BY <1>9 DEF TcpTaken, Goto
  <2>2. ASSUME NEW r \in Runtimes PROVE FileWriter(r)'
    BY <1>9 DEF TcpTaken, Goto
  <2>3. QED
    BY <2>1, <2>2
<1>10. ASSUME NEW h \in Holders, Settle(h) PROVE FileInv'
  <2>1. ASSUME NEW g \in Holders \ DryRun PROVE FileOf(g)'
    BY <1>10 DEF Settle, Goto
  <2>2. ASSUME NEW r \in Runtimes PROVE FileWriter(r)'
    BY <1>10 DEF Settle, Goto
  <2>3. QED
    BY <2>1, <2>2
<1>11. ASSUME NEW h \in Holders, Render(h) PROVE FileInv'
  <2>1. h \notin DryRun /\ pc[h] \in Locked
    BY <1>11 DEF Render
  <2>2. ASSUME NEW g \in Holders \ DryRun PROVE FileOf(g)'
    <3>1. CASE g = h
      <4>1. /\ pc'[h] = "publish" /\ conf'[RuntimeOf[h]] = got[h][Web]
            /\ UNCHANGED <<file, got>> /\ pc[h] = "render"
        BY <1>11 DEF Render, Goto
      <4>2. QED
        BY <2>1, <3>1, <4>1
    <3>2. CASE g # h /\ RuntimeOf[g] = RuntimeOf[h]
      BY <1>11, <2>1, <3>2, LockExcludes DEF Render, Goto
    <3>3. CASE RuntimeOf[g] # RuntimeOf[h]
      BY <1>11, <3>3 DEF Render, Goto
    <3>4. QED
      BY <3>1, <3>2, <3>3
  <2>3. ASSUME NEW r \in Runtimes PROVE FileWriter(r)'
    BY <1>11, <2>1 DEF Render, Goto
  <2>4. QED
    BY <2>2, <2>3
<1>12. ASSUME NEW h \in Holders, Publish(h) PROVE FileInv'
  <2>1. h \notin DryRun /\ pc[h] \in Locked
    BY <1>12 DEF Publish
  <2>2. ASSUME NEW g \in Holders \ DryRun PROVE FileOf(g)'
    <3>1. CASE g = h
      BY <1>12, <2>1, <3>1 DEF Publish, Goto
    <3>2. CASE g # h /\ RuntimeOf[g] = RuntimeOf[h]
      BY <1>12, <2>1, <3>2, LockExcludes DEF Publish, Goto
    <3>3. CASE RuntimeOf[g] # RuntimeOf[h]
      BY <1>12, <3>3 DEF Publish, Goto
    <3>4. QED
      BY <3>1, <3>2, <3>3
  <2>3. ASSUME NEW r \in Runtimes PROVE FileWriter(r)'
    BY <1>12, <2>1 DEF Publish, Goto
  <2>4. QED
    BY <2>2, <2>3
<1>13. ASSUME NEW h \in Holders, Stop(h) PROVE FileInv'
  BY <1>13 DEF Stop, Goto, readerVars
<1>14. ASSUME NEW h \in Holders, Unlink(h) PROVE FileInv'
  BY <1>14 DEF Unlink, Goto, readerVars
<1>15. ASSUME NEW h \in Holders, Release(h) PROVE FileInv'
  BY <1>15 DEF Release, Goto, readerVars
<1>16. ASSUME NEW h \in Holders, Exit(h) PROVE FileInv'
  BY <1>16 DEF Exit, Goto, readerVars, DropAll
<1>17. ASSUME NEW h \in Holders, Kill(h) PROVE FileInv'
  BY <1>17 DEF Kill, Goto, readerVars, DropAll
<1>18. ASSUME NEW h \in Holders, Reap(h) PROVE FileInv'
  BY <1>18 DEF Reap, Goto, readerVars
<1>19. ASSUME NEW q \in Readers, ReadFile(q) PROVE FileInv'
  BY <1>19 DEF ReadFile, holderVars
<1>20. ASSUME NEW q \in Readers, CheckAlive(q) PROVE FileInv'
  BY <1>20 DEF CheckAlive, holderVars
<1>21. ASSUME NEW q \in Readers, TestLock(q) PROVE FileInv'
  BY <1>21 DEF TestLock, holderVars
<1>22. ASSUME NEW q \in Readers, DropShared(q) PROVE FileInv'
  BY <1>22 DEF DropShared, holderVars
<1>23. ASSUME NEW p \in Outside, Toggle(p) PROVE FileInv'
  BY <1>23 DEF Toggle, holderVars, readerVars
<1>24. CASE UNCHANGED vars
  BY <1>24 DEF vars
<1>25. QED
  BY <1>1, <1>2, <1>3, <1>4, <1>5, <1>6, <1>7, <1>8, <1>9, <1>10, <1>11, <1>12, <1>13, <1>14, <1>15, <1>16, <1>17, <1>18, <1>19, <1>20, <1>21, <1>22, <1>23, <1>24
  DEF Next, HolderStep, ReaderStep

\* A holder that has got as far as rendering holds a port for every want.
LEMMA AllFound ==
  ASSUME TypeOK, WalkInv, NEW h \in Holders, NEW k \in Keys,
         pc[h] \in {"render", "publish", "serve", "unlink", "release"}
  PROVE  got[h][k] # 0 /\ Found(h, k)
<1>1. WalkOf(h) /\ key[h] \in 1 .. NKeys + 1
  BY DEF WalkInv, TypeOK
<1>2. key[h] \notin Keys /\ ~missed[h]
  BY <1>1 DEF WalkOf, Complete
<1>3. k < key[h]
  BY <1>1, <1>2, ConstantsAssumption DEF Keys
<1>4. got[h][k] # 0
  BY <1>1, <1>2, <1>3 DEF WalkOf, Progress
<1>5. QED
  BY <1>1, <1>4 DEF WalkOf, Held, Ended

LEMMA FileIsLease ==
  ASSUME TypeOK, LockInv, WalkInv, FileInv, NEW r \in Runtimes, file[r].pid # None
  PROVE  LET w == file[r].pid
         IN  /\ w \in Holders
             /\ \/ pc[w] \in {"zombie", "killed"}
                \/ /\ pc[w] \in {"serve", "unlink"} /\ lock[r] = w
                   /\ file[r].ports = got[w]
                   /\ \A k \in Keys : got[w][k] \in claims[w]
                   /\ conf[r] = got[w][Web]
<1> DEFINE w == file[r].pid
<1>1. w \in Holders \ DryRun /\ FileWriter(r) /\ FileOf(w)
  BY DEF TypeOK, FileType, FileInv, FileWriter
<1>2. CASE pc[w] \in {"serve", "unlink"}
  <2>1. RuntimeOf[w] = r
    BY <1>1 DEF FileWriter
  <2>2. lock[r] = w
    BY <1>1, <1>2, <2>1 DEF LockInv, Locked
  <2>3. file[r].ports = got[w] /\ conf[r] = got[w][Web]
    BY <1>1, <1>2, <2>1 DEF FileOf
  <2>4. \A k \in Keys : got[w][k] \in claims[w]
    BY <1>1, <1>2, AllFound DEF Found
  <2>5. QED
    BY <1>1, <1>2, <2>2, <2>3, <2>4
<1>3. CASE pc[w] \in {"zombie", "killed"}
  BY <1>1, <1>3
<1>4. QED
  BY <1>1, <1>2, <1>3 DEF FileWriter

LEMMA ReaderStepInv ==
  ASSUME TypeOK, LockInv, WalkInv, FileInv, ReaderInv, [Next]_vars
  PROVE  ReaderInv'
<1>a. /\ pc \in [Holders -> HolderStates]
      /\ rpc \in [Readers -> ReaderStates] /\ saw \in [Readers -> Holders \cup {None}]
      /\ truth \in [Readers -> BOOLEAN]
      /\ RuntimeOf \in [Holders \cup Readers -> Runtimes]
  BY ConstantsAssumption DEF TypeOK
\* A holder that was killed stays killed, and only a lingering one is a zombie.
<1>1. ASSUME NEW h \in Holders,
             Start(h) \/ HolderStep(h) \/ Stop(h) \/ Kill(h) \/ Reap(h)
      PROVE  ReaderInv'
  <2>1. /\ UNCHANGED readerVars
        /\ \A g \in Holders : pc[g] \in {"zombie", "killed"} => pc'[g] \in {"zombie", "killed"}
    BY <1>a, <1>1 DEF HolderStep, Start, TakeLock, GiveUp, DropStale, Claim, Walking, PassOver,
       Exhaust, TcpFree, TcpTaken, Settle, Render, Publish, Stop, Unlink, Release, Exit, Kill,
       Reap, Goto, Ended
  <2>2. QED
    BY <1>a, <2>1 DEF ReaderInv, readerVars
<1>2. ASSUME NEW q \in Readers, ReadFile(q) PROVE ReaderInv'
  <2> DEFINE r == RuntimeOf[q]
  <2>1. r \in Runtimes
    BY <1>a
  <2>2. file[r].pid # None => LeaseUp(r) \/ pc[file[r].pid] \in {"zombie", "killed"}
    <3>1. SUFFICES ASSUME file[r].pid # None PROVE LeaseUp(r) \/ pc[file[r].pid] \in {"zombie", "killed"}
      OBVIOUS
    <3>2. QED
      BY <2>1, <3>1, FileIsLease DEF LeaseUp
  <2>3. /\ UNCHANGED pc
        /\ saw' = [saw EXCEPT ![q] = file[r].pid] /\ truth' = [truth EXCEPT ![q] = LeaseUp(r)]
        /\ rpc' = [rpc EXCEPT ![q] = IF file[r].pid = None THEN "down"
                                     ELSE IF q \in Live THEN "alive" ELSE "flock"]
    BY <1>2 DEF ReadFile, holderVars
  <2>4. QED
    BY <1>a, <2>2, <2>3 DEF ReaderInv
<1>3. ASSUME NEW q \in Readers, CheckAlive(q) PROVE ReaderInv'
  <2>1. \A h \in Holders : pc[h] = "zombie" => h \in Lingering
    BY DEF LockInv
  <2>2. QED
    BY <1>a, <1>3, <2>1 DEF ReaderInv, CheckAlive, holderVars
<1>4. ASSUME NEW q \in Readers, TestLock(q) PROVE ReaderInv'
  BY <1>a, <1>4 DEF ReaderInv, TestLock, holderVars
<1>5. ASSUME NEW q \in Readers, DropShared(q) PROVE ReaderInv'
  BY <1>a, <1>5 DEF ReaderInv, DropShared, holderVars
<1>6. ASSUME NEW p \in Outside, Toggle(p) PROVE ReaderInv'
  BY <1>6 DEF ReaderInv, Toggle, holderVars, readerVars
<1>7. CASE UNCHANGED vars
  BY <1>7 DEF ReaderInv, vars
<1>8. QED
  BY <1>1, <1>2, <1>3, <1>4, <1>5, <1>6, <1>7 DEF Next, ReaderStep

-----------------------------------------------------------------------------
\* The inductive invariant: the lock, the walk, the file and the readers.
THEOREM Inductive == Spec => []IInv
<1>1. IInv /\ [Next]_vars => IInv'
  BY TypeStep, LockStep, WalkStep, FileStep, ReaderStepInv DEF IInv
<1>2. QED
  BY InitIInv, <1>1, PTL DEF Spec

\* Every variable keeps its type, whatever the instance.
THEOREM TypeCorrect == Spec => []TypeOK
<1>1. IInv => TypeOK
  BY DEF IInv
<1>2. QED
  BY Inductive, <1>1, PTL

\* ports.json is its holder's, backed by its lock and its claims, or was left by
\* a holder that was killed.
THEOREM PublishedLeaseHolds == Spec => []PublishedLease
<1>1. ASSUME IInv, NEW r \in Runtimes, file[r].pid # None
      PROVE  LET w == file[r].pid
             IN  \/ pc[w] \in {"zombie", "killed"}
                 \/ /\ pc[w] \in {"serve", "unlink"}
                    /\ lock[r] = w
                    /\ \A k \in Keys : file[r].ports[k] = got[w][k] /\ got[w][k] \in claims[w]
                    /\ conf[r] = got[w][Web]
  BY <1>1, FileIsLease DEF IInv
<1>2. IInv => PublishedLease
  BY <1>1 DEF PublishedLease
<1>3. QED
  BY Inductive, <1>2, PTL

\* A serving holder's ports.json is not dropped or replaced under it.
THEOREM ServingOwnsFileHolds == Spec => []ServingOwnsFile
<1>1. ASSUME IInv, NEW h \in Holders, pc[h] = "serve"
      PROVE  file[RuntimeOf[h]] = [pid |-> h, ports |-> got[h]]
  <2>1. h \notin DryRun
    BY <1>1 DEF IInv, LockInv, Ended
  <2>2. QED
    BY <1>1, <2>1 DEF IInv, FileInv, FileOf
<1>2. IInv => ServingOwnsFile
  BY <1>1 DEF ServingOwnsFile
<1>3. QED
  BY Inductive, <1>2, PTL

\* No two running benches have a port in common, nor one bench a port twice.
THEOREM PortsDisjoint == Spec => []GotDisjoint
<1>1. ASSUME IInv, NEW g \in Holders, NEW h \in Holders, NEW j \in Keys, NEW k \in Keys,
             ~Ended(g), ~Ended(h), pc[g] # "exit", pc[h] # "exit",
             got[g][j] # 0, got[g][j] = got[h][k]
      PROVE  g = h /\ j = k
  <2>1. Found(g, j) /\ Found(h, k)
    BY <1>1 DEF IInv, WalkInv, WalkOf, Held
  <2>2. g = h
    BY <1>1, <2>1 DEF IInv, WalkInv, Exclusive, Found
  <2>3. QED
    BY <1>1, <2>1, <2>2 DEF Found
<1>2. IInv => GotDisjoint
  BY <1>1 DEF GotDisjoint
<1>3. QED
  BY Inductive, <1>2, PTL

\* The walk leaves no claim behind on a port it passed over.
THEOREM NoStrayClaimHolds == Spec => []NoStrayClaim
<1>1. IInv => NoStrayClaim
  BY DEF IInv, WalkInv, WalkOf, NoStray, NoStrayClaim
<1>2. QED
  BY Inductive, <1>1, PTL

\* A bench is published with a port for every want, or not at all.
THEOREM AllOrNothingHolds == Spec => []AllOrNothing
<1>1. ASSUME IInv, NEW h \in Holders, pc[h] \in {"render", "publish", "serve"}
      PROVE  0 \notin Mine(h)
  BY <1>1, AllFound DEF IInv, Mine
<1>2. ASSUME IInv, NEW h \in Holders, missed[h], pc[h] \in {"exit", "exited"}
      PROVE  claims[h] = {}
  BY <1>2 DEF IInv, WalkInv, WalkOf, Freed
<1>3. IInv => AllOrNothing
  BY <1>1, <1>2 DEF AllOrNothing
<1>4. QED
  BY Inductive, <1>3, PTL

\* `show` reports a lease only if it was up when its file was read, unless the
\* process that wrote it was killed and not yet reaped.
THEOREM LiveTruthful == Spec => []LiveIsTruthful
<1>1. IInv => LiveIsTruthful
  BY ConstantsAssumption DEF IInv, ReaderInv, LiveIsTruthful
<1>2. QED
  BY Inductive, <1>1, PTL

-----------------------------------------------------------------------------
(***************************************************************************)
(* PortLease implements LeaseTable: publishing is Grant, unlinking and     *)
(* dying are End, and every other step leaves the table alone.             *)
(***************************************************************************)
Serving(h) == pc[h] \in {"serve", "unlink"}

\* A step moves a runtime's lock only to or from the holder that takes it.
LEMMA LockMoves ==
  ASSUME TypeOK, NEW h \in Holders,
         Start(h) \/ HolderStep(h) \/ Stop(h) \/ Kill(h) \/ Reap(h)
  PROVE  \A r \in Runtimes : \/ lock'[r] = lock[r]
                             \/ lock[r] = h /\ lock'[r] = None
                             \/ lock[r] = None /\ lock'[r] = h
<1>a. lock \in [Runtimes -> Holders \cup {None}]
  BY DEF TypeOK
<1> USE DEF LockFree
<1>1. CASE Start(h)
  BY <1>1, <1>a DEF Start, Goto
<1>2. CASE TakeLock(h)
  BY <1>2, <1>a DEF TakeLock, Goto
<1>3. CASE GiveUp(h)
  BY <1>3, <1>a DEF GiveUp, Goto
<1>4. CASE DropStale(h)
  BY <1>4, <1>a DEF DropStale, Goto
<1>5. CASE Claim(h)
  BY <1>5, <1>a DEF Claim, Goto
<1>6. CASE PassOver(h)
  BY <1>6, <1>a DEF PassOver, Goto
<1>7. CASE Exhaust(h)
  BY <1>7, <1>a DEF Exhaust, Goto, NextWant
<1>8. CASE TcpFree(h)
  BY <1>8, <1>a DEF TcpFree, Goto, NextWant
<1>9. CASE TcpTaken(h)
  BY <1>9, <1>a DEF TcpTaken, Goto
<1>10. CASE Settle(h)
  BY <1>10, <1>a DEF Settle, Goto
<1>11. CASE Render(h)
  BY <1>11, <1>a DEF Render, Goto
<1>12. CASE Publish(h)
  BY <1>12, <1>a DEF Publish, Goto
<1>13. CASE Stop(h)
  BY <1>13, <1>a DEF Stop, Goto
<1>14. CASE Unlink(h)
  BY <1>14, <1>a DEF Unlink, Goto
<1>15. CASE Release(h)
  BY <1>15, <1>a DEF Release, Goto
<1>16. CASE Exit(h)
  BY <1>16, <1>a DEF Exit, Goto, DropAll
<1>17. CASE Kill(h)
  BY <1>17, <1>a DEF Kill, Goto, DropAll
<1>18. CASE Reap(h)
  BY <1>18, <1>a DEF Reap, Goto
<1>19. QED
  BY <1>1, <1>2, <1>3, <1>4, <1>5, <1>6, <1>7, <1>8, <1>9, <1>10, <1>11, <1>12, <1>13, <1>14, <1>15, <1>16, <1>17, <1>18 DEF HolderStep

\* A step of a holder that neither served nor comes to serve changes no lease.
LEMMA QuietStep ==
  ASSUME TypeOK, LockInv, NEW h \in Holders,
         Start(h) \/ HolderStep(h) \/ Stop(h) \/ Kill(h) \/ Reap(h),
         ~Serving(h), ~Serving(h)'
  PROVE  Leases' = Leases
<1>1. ASSUME NEW g \in Holders, g # h PROVE pc'[g] = pc[g] /\ got'[g] = got[g]
  BY <1>1, OthersFrame
<1>2. \A r \in Runtimes : lock[r] \in Holders \cup {None}
  BY DEF TypeOK
<1>3. None \notin Holders
  BY ConstantsAssumption
<1>4. ASSUME NEW r \in Runtimes PROVE Leases'[r] = Leases[r]
  <2>1. CASE lock'[r] = lock[r]
    BY <1>1, <1>2, <1>3, <2>1 DEF Leases, Serving
  <2>2. CASE lock[r] = h /\ lock'[r] = None
    BY <1>3, <2>2 DEF Leases, Serving
  <2>3. CASE lock[r] = None /\ lock'[r] = h
    BY <1>3, <2>3 DEF Leases, Serving
  <2>4. QED
    BY <2>1, <2>2, <2>3, LockMoves
<1>5. QED
  BY <1>4 DEF Leases

\* A holder's step changes no lease but its own runtime's.
LEMMA OtherLeases ==
  ASSUME TypeOK, LockInv, NEW h \in Holders, h \notin DryRun,
         Start(h) \/ HolderStep(h) \/ Stop(h) \/ Kill(h) \/ Reap(h),
         lock[RuntimeOf[h]] = h, NEW r \in Runtimes \ {RuntimeOf[h]}
  PROVE  Leases'[r] = Leases[r]
<1>1. lock[r] # h /\ lock[r] \in Holders \cup {None} /\ None \notin Holders
  BY ConstantsAssumption DEF TypeOK, LockInv
<1>2. lock'[r] = lock[r]
  <2>1. CASE lock[r] = None /\ lock'[r] = h
    <3>1. pc[h] = "lock" /\ LockFree(RuntimeOf[h])
      BY <1>1, <2>1, ConstantsAssumption DEF TypeOK, HolderStep, Start, TakeLock, GiveUp, DropStale,
         Claim, PassOver, Exhaust, TcpFree, TcpTaken, Settle, Render, Publish, Stop, Unlink,
         Release, Exit, Kill, Reap, DropAll
    <3>2. QED
      BY <1>1, <3>1 DEF LockFree
  <2>2. QED
    BY <1>1, <2>1, LockMoves
<1>3. lock[r] # None => pc'[lock[r]] = pc[lock[r]] /\ got'[lock[r]] = got[lock[r]]
  BY <1>1, OthersFrame
<1>4. QED
  BY <1>2, <1>3 DEF Leases

\* A serving holder has its runtime's lock, and the lease is what it found.
LEMMA ServingLease ==
  ASSUME TypeOK, LockInv, WalkInv, NEW h \in Holders, Serving(h)
  PROVE  /\ h \notin DryRun /\ RuntimeOf[h] \in Runtimes
         /\ lock[RuntimeOf[h]] = h /\ Leases[RuntimeOf[h]] = got[h]
         /\ got[h] # Unset
<1>1. h \notin DryRun /\ RuntimeOf[h] \in Runtimes /\ h # None
  BY ConstantsAssumption DEF LockInv, Serving, Ended
<1>2. lock[RuntimeOf[h]] = h
  BY <1>1 DEF LockInv, Serving, Locked
<1>3. got[h][Web] # 0 /\ Web \in Keys
  BY AllFound, ConstantsAssumption DEF Serving, Keys, Web
<1>4. QED
  BY <1>1, <1>2, <1>3 DEF Leases, Serving, Unset

LEMMA PublishGrants ==
  ASSUME IInv, NEW h \in Holders, Publish(h)
  PROVE  Table!Grant(RuntimeOf[h])
<1> DEFINE r == RuntimeOf[h]
<1>a. TypeOK /\ LockInv /\ WalkInv
  BY DEF IInv
<1>1. h \notin DryRun /\ r \in Runtimes /\ lock[r] = h /\ h # None
  BY <1>a, ConstantsAssumption DEF LockInv, Publish, Ended, Locked
<1>2. pc[h] = "publish" /\ pc'[h] = "serve" /\ UNCHANGED <<lock, got>>
  BY <1>a DEF Publish, Goto, TypeOK
<1>3. Leases[r] = Unset /\ Leases'[r] = got[h]
  BY <1>1, <1>2 DEF Leases
<1>4. ASSUME NEW k \in Keys PROVE Found(h, k)
  BY <1>a, <1>2, <1>4, AllFound
<1>5. ASSUME NEW s \in Runtimes \ {r}, NEW j \in Keys, NEW k \in Keys
      PROVE  Leases'[r][j] # Leases[s][k]
  <2>1. CASE lock[s] # None /\ Serving(lock[s])
    <3> DEFINE g == lock[s]
    <3>1. g \in Holders /\ g # h /\ Leases[s] = got[g]
      BY <1>a, <1>2, <2>1 DEF TypeOK, Leases, Serving
    <3>2. Found(g, k)
      BY <1>a, <2>1, <3>1, AllFound DEF Serving
    <3>3. claims[g] \cap claims[h] = {}
      BY <1>a, <3>1 DEF WalkInv, Exclusive
    <3>4. QED
      BY <1>3, <1>4, <3>1, <3>2, <3>3 DEF Found
  <2>2. CASE ~(lock[s] # None /\ Serving(lock[s]))
    <3>1. Leases[s][k] = 0
      BY <2>2 DEF Leases, Serving, Unset
    <3>2. got[h][j] # 0
      BY <1>a, <1>2, AllFound
    <3>3. QED
      BY <1>3, <3>1, <3>2
  <2>3. QED
    BY <2>1, <2>2
<1>6. Leases' = [Leases EXCEPT ![r] = Leases'[r]]
  <2>1. \A s \in Runtimes \ {r} : Leases'[s] = Leases[s]
    BY <1>a, <1>1, OtherLeases DEF HolderStep
  <2>2. /\ Leases = [s \in Runtimes |-> Leases[s]]
        /\ Leases' = [s \in Runtimes |-> Leases'[s]]
    BY DEF Leases
  <2>3. QED
    BY <1>1, <2>1, <2>2
<1>7. QED
  BY <1>3, <1>4, <1>5, <1>6 DEF Table!Grant, Table!Unleased, Unset, Found

LEMMA LeavingEnds ==
  ASSUME IInv, NEW h \in Holders, Serving(h), ~Serving(h)', Unlink(h) \/ Kill(h)
  PROVE  Table!End(RuntimeOf[h])
<1> DEFINE r == RuntimeOf[h]
<1>a. TypeOK /\ LockInv /\ WalkInv
  BY DEF IInv
<1>1. h \notin DryRun /\ r \in Runtimes /\ lock[r] = h /\ Leases[r] # Unset
  BY <1>a, ServingLease
<1>2. Leases'[r] = Unset
  BY <1>a, <1>1, LockMoves DEF Leases, Serving, HolderStep
<1>3. \A s \in Runtimes \ {r} : Leases'[s] = Leases[s]
  BY <1>a, <1>1, OtherLeases DEF HolderStep
<1>4. Leases' = [Leases EXCEPT ![r] = Unset]
  BY <1>1, <1>2, <1>3 DEF Leases
<1>5. QED
  BY <1>1, <1>4 DEF Table!End, Table!Unleased, Unset

\* The port lease implements the table of leases.
THEOREM ImplementsTable == Spec => LeaseIsTable
<1>1. Init => Table!Init
  BY DEF Init, Table!Init, Table!Unleased, Leases, Unset
<1>2. IInv /\ [Next]_vars => [Table!Next]_Leases
  <2> SUFFICES ASSUME IInv, [Next]_vars PROVE Table!Next \/ Leases' = Leases
    OBVIOUS
  <2>a. TypeOK /\ LockInv /\ WalkInv
    BY DEF IInv
  <2>1. ASSUME NEW h \in Holders,
               Start(h) \/ HolderStep(h) \/ Stop(h) \/ Kill(h) \/ Reap(h)
        PROVE  Table!Next \/ Leases' = Leases
    <3>1. CASE ~Serving(h) /\ ~Serving(h)'
      BY <2>a, <2>1, <3>1, QuietStep
    <3>2. CASE ~Serving(h) /\ Serving(h)'
      <4>1. Publish(h)
        BY <2>a, <2>1, <3>2 DEF TypeOK, Serving, HolderStep, Start, TakeLock, GiveUp, DropStale,
           Claim, PassOver, Exhaust, TcpFree, TcpTaken, Settle, Render, Stop, Unlink,
           Release, Exit, Kill, Reap, Goto
      <4>2. RuntimeOf[h] \in Runtimes
        BY ConstantsAssumption
      <4>3. QED
        BY <4>1, <4>2, PublishGrants DEF Table!Next
    <3>3. CASE Serving(h) /\ ~Serving(h)'
      <4>1. Unlink(h) \/ Kill(h)
        BY <2>a, <2>1, <3>3 DEF TypeOK, Serving, HolderStep, Start, TakeLock, GiveUp, DropStale,
           Claim, Walking, PassOver, Exhaust, TcpFree, TcpTaken, Settle, Render, Publish, Stop,
           Release, Exit, Reap, Goto
      <4>2. RuntimeOf[h] \in Runtimes
        BY ConstantsAssumption
      <4>3. QED
        BY <3>3, <4>1, <4>2, LeavingEnds DEF Table!Next
    <3>4. CASE Serving(h) /\ Serving(h)'
      <4>1. Stop(h)
        BY <2>a, <2>1, <3>4 DEF TypeOK, Serving, HolderStep, Start, TakeLock, GiveUp, DropStale,
           Claim, Walking, PassOver, Exhaust, TcpFree, TcpTaken, Settle, Render, Publish, Unlink,
           Release, Exit, Kill, Ended, Reap, Goto
      <4>2. UNCHANGED <<lock, got>> /\ \A g \in Holders : pc'[g] \in {"serve", "unlink"} <=> pc[g] \in {"serve", "unlink"}
        BY <2>a, <3>4, <4>1 DEF Stop, Goto, TypeOK
      <4>3. QED
        BY <2>a, <4>2 DEF Leases, TypeOK
    <3>5. QED
      BY <3>1, <3>2, <3>3, <3>4
  <2>2. ASSUME UNCHANGED <<pc, got, lock>> PROVE Leases' = Leases
    BY <2>2 DEF Leases
  <2>3. QED
    BY <2>1, <2>2 DEF Next, ReaderStep, ReadFile, CheckAlive, TestLock, DropShared, Toggle,
       vars, holderVars
<1>3. QED
  BY Inductive, <1>1, <1>2, PTL DEF Spec, LeaseIsTable, Table!Spec

=============================================================================
