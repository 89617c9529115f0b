---------------------------- MODULE DevUpProofs -----------------------------
(***************************************************************************)
(* Proofs about a development bench. First DevUp, for every set of         *)
(* wrappers, ports and processes that may die, and any number of sessions  *)
(* and deaths; then the site that the same shell keeps (DevSite), and the  *)
(* object store that it shares with production (ObjectStore).              *)
(***************************************************************************)
EXTENDS DevUp, DevSite, TLAPS

\* Between sessions nothing is left of one but its files.
OffInv ==
  ~on => /\ \A p \in Probed : health[p] = "none" /\ ~sure[p]
         /\ died = {} /\ lease = NoPort
         /\ \A w \in Wrappers : task[w] = "off"

\* Before its first start of a session serves, no latch can pass for a process.
KeyInv ==
  on => \A p \in Probed : p \notin died /\ run[p] # "up" =>
          key[p] # "latched" /\ health[p] = "none"

\* A pass that read the key of its start has left the latch, and stands.
SureInv ==
  \A p \in Probed : sure[p] => run[p] = "up" /\ key[p] = "latched" /\ health[p] = "ready"

\* The one holder of a session, which is started once.
LeaseInv ==
  /\ run["ports"] = "up" <=> lease # NoPort
  /\ "ports" \notin died

\* What a copy of frappe:config has read and written is of the lease that is up.
TaskInv ==
  \A w \in Wrappers :
    task[w] \notin {"off", "wait", "failed"} =>
      /\ lease # NoPort /\ tport[w] = lease /\ guard = lease
      /\ task[w] \in {"clear", "done"} => config = lease

\* What runs waited for the lease, and the runtime for its copy of the task.
RunInv ==
  /\ Running("runtime") => task["runtime"] = "done"
  /\ \A p \in {"mailpit", "nginx"} : /\ Running(p) => lease # NoPort
                                     /\ run[p] = "up" => bound[p] = lease

AInv == TypeOK /\ OffInv /\ KeyInv /\ SureInv /\ LeaseInv /\ TaskInv /\ RunInv

\* The dependencies, one process at a time.
LEMMA AfterFacts ==
  /\ After["mailpit"] = {"ports"} /\ After["nginx"] = {"ports", "runtime"}
  /\ \A p \in Procs : After[p] \subseteq Probed
  /\ Procs = {"ports", "mailpit", "runtime", "redis", "mysql", "nginx"}
  /\ Probed = {"ports", "mailpit", "runtime", "redis", "mysql"}
BY DEF After, Procs, Probed, Stamped, OnSocket

\* A process that waited for the lease's readiness finds the lease up.
LEMMA LeaseRead ==
  ASSUME AInv, on, health["ports"] # "none"
  PROVE  lease # NoPort
BY AfterFacts DEF AInv, KeyInv, LeaseInv

\* A bench that has never been brought up.
LEMMA AInit == Init => AInv
<1> SUFFICES ASSUME Init PROVE AInv
  OBVIOUS
<1> USE AfterFacts, ConstantsAssumption
<1>1. TypeOK
  <2>1. config \in WebPorts /\ boot \in WebPorts \cup {NoPort}
    BY DEF Init
  <2>2. orphan \in BOOLEAN /\ on \in BOOLEAN /\ sure \in [Probed -> BOOLEAN]
    BY Zenon DEF Init
  <2>3. ups \in 0 .. MaxUps
    BY DEF Init
  <2> QED BY <2>1, <2>2, <2>3 DEF Init, TypeOK
<1>2. OffInv /\ KeyInv /\ SureInv /\ LeaseInv /\ TaskInv
  BY DEF Init, OffInv, KeyInv, SureInv, LeaseInv, TaskInv
<1>3. RunInv
  BY DEF Init, RunInv, Running
<1> QED BY <1>1, <1>2, <1>3 DEF AInv

\* Every step keeps all of it.
LEMMA AStep == AInv /\ [Next]_vars => AInv'
<1> SUFFICES ASSUME AInv, [Next]_vars PROVE AInv'
  OBVIOUS
<1> USE AfterFacts, ConstantsAssumption
<1>1. CASE Up
  <2>1. TypeOK'
    BY <1>1 DEF AInv, TypeOK, Up, Unlatched
  <2>2. OffInv'
    BY <1>1 DEF AInv, TypeOK, OffInv, Up, Unlatched
  <2>3. KeyInv'
    BY <1>1 DEF AInv, TypeOK, OffInv, KeyInv, Up, Unlatched
  <2>4. SureInv'
    BY <1>1 DEF AInv, TypeOK, OffInv, SureInv, Up, Unlatched
  <2>5. LeaseInv'
    BY <1>1 DEF AInv, TypeOK, OffInv, LeaseInv, Up, Unlatched
  <2>6. TaskInv'
    BY <1>1 DEF AInv, TypeOK, OffInv, LeaseInv, TaskInv, Up, Unlatched
  <2>7. RunInv'
    BY <1>1 DEF AInv, TypeOK, OffInv, LeaseInv, TaskInv, RunInv, Up,
       Unlatched, Running
  <2> QED BY <2>1, <2>2, <2>3, <2>4, <2>5, <2>6, <2>7 DEF AInv
<1>2. CASE Again
  <2>1. TypeOK'
    BY <1>2 DEF AInv, TypeOK, Again, Unlatched, taskVars
  <2>2. OffInv'
    BY <1>2 DEF AInv, TypeOK, OffInv, Again, Unlatched, taskVars
  <2>3. KeyInv'
    BY <1>2 DEF AInv, TypeOK, OffInv, KeyInv, Again, Unlatched, taskVars
  <2>4. SureInv'
    BY <1>2 DEF AInv, TypeOK, OffInv, SureInv, Again, Unlatched, taskVars
  <2>5. LeaseInv' /\ TaskInv' /\ RunInv'
    BY <1>2 DEF AInv, LeaseInv, TaskInv, RunInv, Again, Unlatched, taskVars,
       Running
  <2> QED BY <2>1, <2>2, <2>3, <2>4, <2>5 DEF AInv
<1>3. CASE Down
  <2>1. TypeOK'
    BY <1>3 DEF AInv, TypeOK, Down, Ended
  <2>2. OffInv'
    BY <1>3 DEF AInv, TypeOK, OffInv, Down, Ended
  <2>3. KeyInv'
    BY <1>3 DEF AInv, TypeOK, OffInv, KeyInv, Down, Ended
  <2>4. SureInv'
    BY <1>3 DEF AInv, TypeOK, OffInv, SureInv, Down, Ended
  <2>5. LeaseInv'
    BY <1>3 DEF AInv, TypeOK, OffInv, LeaseInv, Down, Ended
  <2>6. TaskInv'
    BY <1>3 DEF AInv, TypeOK, OffInv, LeaseInv, TaskInv, Down, Ended
  <2>7. RunInv'
    BY <1>3 DEF AInv, TypeOK, OffInv, LeaseInv, TaskInv, RunInv, Down, Ended,
       Running
  <2> QED BY <2>1, <2>2, <2>3, <2>4, <2>5, <2>6, <2>7 DEF AInv
<1>4. ASSUME NEW p \in Procs, Launch(p) PROVE AInv'
  <2>1. TypeOK'
    BY <1>4 DEF AInv, TypeOK, Launch, TaskDone, taskVars
  <2>2. KeyInv'
    BY <1>4 DEF AInv, TypeOK, OffInv, KeyInv, Launch, TaskDone, taskVars
  <2>3. SureInv'
    BY <1>4 DEF AInv, TypeOK, OffInv, SureInv, Launch, TaskDone, taskVars
  <2>4. LeaseInv'
    BY <1>4 DEF AInv, TypeOK, OffInv, LeaseInv, Launch, TaskDone, taskVars
  <2>5. RunInv'
    <3>1. on /\ run' = [run EXCEPT ![p] = run'[p]]
      BY <1>4 DEF AInv, TypeOK, Launch
    <3>2. CASE p \in {"mailpit", "nginx"}
      <4>1. lease # NoPort
        BY <1>4, <3>1, <3>2, LeaseRead DEF Launch
      <4> QED BY <1>4, <3>2, <4>1 DEF AInv, TypeOK, RunInv, Launch, Running, taskVars
    <3>3. CASE p = "runtime"
      BY <1>4, <3>3 DEF AInv, TypeOK, RunInv, Launch, Running, TaskDone, NeedsConfig, taskVars
    <3>4. CASE p \notin {"mailpit", "nginx", "runtime"}
      BY <1>4, <3>4 DEF AInv, TypeOK, RunInv, Launch, Running, taskVars
    <3> QED BY <3>2, <3>3, <3>4
  <2>6. OffInv' /\ TaskInv'
    BY <1>4 DEF AInv, OffInv, TaskInv, Launch, TaskDone, taskVars
  <2> QED BY <2>1, <2>2, <2>3, <2>4, <2>5, <2>6 DEF AInv
<1>5. ASSUME NEW p \in Procs, GiveUp(p) PROVE AInv'
  <2>1. TypeOK'
    BY <1>5 DEF AInv, TypeOK, GiveUp, taskVars
  <2>2. KeyInv'
    BY <1>5 DEF AInv, TypeOK, OffInv, KeyInv, GiveUp, taskVars
  <2>3. SureInv'
    BY <1>5 DEF AInv, TypeOK, OffInv, SureInv, GiveUp, taskVars
  <2>4. LeaseInv'
    BY <1>5 DEF AInv, TypeOK, OffInv, LeaseInv, GiveUp, taskVars
  <2>5. RunInv'
    BY <1>5 DEF AInv, TypeOK, OffInv, LeaseInv, TaskInv, RunInv, GiveUp,
       taskVars, Running
  <2>6. OffInv' /\ TaskInv'
    BY <1>5 DEF AInv, OffInv, TaskInv, GiveUp, taskVars
  <2> QED BY <2>1, <2>2, <2>3, <2>4, <2>5, <2>6 DEF AInv
<1>6. ASSUME NEW p \in Procs, Stamp(p) PROVE AInv'
  <2>1. TypeOK'
    BY <1>6 DEF AInv, TypeOK, Stamp, NewKey, taskVars
  <2>2. KeyInv'
    BY <1>6 DEF AInv, TypeOK, OffInv, KeyInv, Stamp, NewKey, taskVars
  <2>3. SureInv'
    BY <1>6 DEF AInv, TypeOK, OffInv, SureInv, Stamp, NewKey, taskVars
  <2>4. LeaseInv'
    BY <1>6 DEF AInv, TypeOK, OffInv, LeaseInv, Stamp, NewKey, taskVars
  <2>5. RunInv'
    BY <1>6 DEF AInv, TypeOK, OffInv, LeaseInv, TaskInv, RunInv, Stamp,
       NewKey, taskVars, Running
  <2>6. OffInv' /\ TaskInv'
    BY <1>6 DEF AInv, OffInv, TaskInv, Stamp, NewKey, taskVars
  <2> QED BY <2>1, <2>2, <2>3, <2>4, <2>5, <2>6 DEF AInv
<1>7. CASE Reap
  <2>1. TypeOK'
    BY <1>7 DEF AInv, TypeOK, Reap, NewKey, taskVars
  <2>2. KeyInv'
    BY <1>7 DEF AInv, TypeOK, OffInv, KeyInv, Reap, NewKey, taskVars
  <2>3. SureInv'
    BY <1>7 DEF AInv, TypeOK, OffInv, SureInv, Reap, NewKey, taskVars
  <2>4. LeaseInv'
    BY <1>7 DEF AInv, TypeOK, OffInv, LeaseInv, Reap, NewKey, taskVars
  <2>5. RunInv'
    BY <1>7 DEF AInv, TypeOK, OffInv, LeaseInv, TaskInv, RunInv, Reap, NewKey,
       taskVars, Running
  <2>6. OffInv' /\ TaskInv'
    BY <1>7 DEF AInv, OffInv, TaskInv, Reap, NewKey, taskVars
  <2> QED BY <2>1, <2>2, <2>3, <2>4, <2>5, <2>6 DEF AInv
<1>8. CASE Lease
  <2>1. TypeOK'
    BY <1>8 DEF AInv, TypeOK, Lease, Serving, taskVars
  <2>2. OffInv'
    BY <1>8 DEF AInv, TypeOK, OffInv, Lease, Serving, taskVars
  <2>3. KeyInv'
    BY <1>8 DEF AInv, TypeOK, OffInv, KeyInv, Lease, Serving, taskVars
  <2>4. SureInv'
    BY <1>8 DEF AInv, TypeOK, OffInv, SureInv, Lease, Serving, taskVars
  <2>5. LeaseInv'
    BY <1>8 DEF AInv, TypeOK, OffInv, LeaseInv, Lease, Serving, taskVars
  <2>6. TaskInv'
    BY <1>8 DEF AInv, TypeOK, OffInv, LeaseInv, TaskInv, Lease, Serving,
       taskVars
  <2>7. RunInv'
    BY <1>8 DEF AInv, TypeOK, OffInv, LeaseInv, TaskInv, RunInv, Lease,
       Serving, taskVars, Running
  <2> QED BY <2>1, <2>2, <2>3, <2>4, <2>5, <2>6, <2>7 DEF AInv
<1>9. CASE ServeRedis
  <2>1. TypeOK'
    BY <1>9 DEF AInv, TypeOK, ServeRedis, NewKey, Serving, taskVars
  <2>2. KeyInv'
    BY <1>9 DEF AInv, TypeOK, OffInv, KeyInv, ServeRedis, NewKey, Serving,
       taskVars
  <2>3. SureInv'
    BY <1>9 DEF AInv, TypeOK, OffInv, SureInv, ServeRedis, NewKey, Serving,
       taskVars
  <2>4. LeaseInv'
    BY <1>9 DEF AInv, TypeOK, OffInv, LeaseInv, ServeRedis, NewKey, Serving,
       taskVars
  <2>5. RunInv'
    BY <1>9 DEF AInv, TypeOK, OffInv, LeaseInv, TaskInv, RunInv, ServeRedis,
       NewKey, Serving, taskVars, Running
  <2>6. OffInv' /\ TaskInv'
    BY <1>9 DEF AInv, OffInv, TaskInv, ServeRedis, NewKey, Serving, taskVars
  <2> QED BY <2>1, <2>2, <2>3, <2>4, <2>5, <2>6 DEF AInv
<1>10. CASE ServeMysql
  <2>1. TypeOK'
    BY <1>10 DEF AInv, TypeOK, ServeMysql, NewKey, Serving, taskVars
  <2>2. KeyInv'
    BY <1>10 DEF AInv, TypeOK, OffInv, KeyInv, ServeMysql, NewKey, Serving,
       taskVars
  <2>3. SureInv'
    BY <1>10 DEF AInv, TypeOK, OffInv, SureInv, ServeMysql, NewKey, Serving,
       taskVars
  <2>4. LeaseInv'
    BY <1>10 DEF AInv, TypeOK, OffInv, LeaseInv, ServeMysql, NewKey, Serving,
       taskVars
  <2>5. RunInv'
    BY <1>10 DEF AInv, TypeOK, OffInv, LeaseInv, TaskInv, RunInv, ServeMysql,
       NewKey, Serving, taskVars, Running
  <2>6. OffInv' /\ TaskInv'
    BY <1>10 DEF AInv, OffInv, TaskInv, ServeMysql, NewKey, Serving, taskVars
  <2> QED BY <2>1, <2>2, <2>3, <2>4, <2>5, <2>6 DEF AInv
<1>11. CASE ServeRuntime
  <2>1. TypeOK'
    BY <1>11 DEF AInv, TypeOK, ServeRuntime, Serving, taskVars
  <2>2. KeyInv'
    BY <1>11 DEF AInv, TypeOK, OffInv, KeyInv, ServeRuntime, Serving, taskVars
  <2>3. SureInv'
    BY <1>11 DEF AInv, TypeOK, OffInv, SureInv, ServeRuntime, Serving,
       taskVars
  <2>4. LeaseInv'
    BY <1>11 DEF AInv, TypeOK, OffInv, LeaseInv, ServeRuntime, Serving,
       taskVars
  <2>5. RunInv'
    BY <1>11 DEF AInv, TypeOK, OffInv, LeaseInv, TaskInv, RunInv,
       ServeRuntime, Serving, taskVars, Running
  <2>6. OffInv' /\ TaskInv'
    BY <1>11 DEF AInv, OffInv, TaskInv, ServeRuntime, Serving, taskVars
  <2> QED BY <2>1, <2>2, <2>3, <2>4, <2>5, <2>6 DEF AInv
<1>12. ASSUME NEW p \in {"mailpit", "nginx"}, ServeOnLease(p) PROVE AInv'
  <2>1. TypeOK'
    BY <1>12 DEF AInv, TypeOK, ServeOnLease, Serving, taskVars
  <2>2. KeyInv'
    BY <1>12 DEF AInv, TypeOK, OffInv, KeyInv, ServeOnLease, Serving, taskVars
  <2>3. SureInv'
    BY <1>12 DEF AInv, TypeOK, OffInv, SureInv, ServeOnLease, Serving,
       taskVars
  <2>4. LeaseInv'
    BY <1>12 DEF AInv, TypeOK, OffInv, LeaseInv, ServeOnLease, Serving,
       taskVars
  <2>5. RunInv'
    BY <1>12 DEF AInv, TypeOK, OffInv, LeaseInv, TaskInv, RunInv,
       ServeOnLease, Serving, taskVars, Running
  <2>6. OffInv' /\ TaskInv'
    BY <1>12 DEF AInv, OffInv, TaskInv, ServeOnLease, Serving, taskVars
  <2> QED BY <2>1, <2>2, <2>3, <2>4, <2>5, <2>6 DEF AInv
<1>13. ASSUME NEW p \in Procs, Die(p) PROVE AInv'
  <2>1. TypeOK'
    <3>1. key' \in [Procs -> {"none", "there", "latched"}]
      BY <1>13 DEF AInv, TypeOK, Die
    <3>2. on /\ run' \in [Procs -> {"off", "wait", "exec", "start", "up", "skipped"}]
      BY <1>13 DEF AInv, TypeOK, Die, Running
    <3>3. /\ health' \in [Probed -> {"none", "ready", "failed"}]
          /\ sure' \in [Probed -> BOOLEAN] /\ died' \subseteq Procs
      <4>1. CASE p \in Probed
        <5>1. /\ health' = [health EXCEPT ![p] = "none"]
              /\ sure' = [sure EXCEPT ![p] = FALSE]
              /\ died' \subseteq Procs
          BY <1>13, <4>1 DEF AInv, TypeOK, Die
        <5>2. sure' \in [Probed -> BOOLEAN]
          BY <5>1, Zenon DEF AInv, TypeOK
        <5> QED BY <5>1, <5>2 DEF AInv, TypeOK
      <4>2. CASE p \notin Probed
        BY <1>13, <4>2 DEF AInv, TypeOK, Die
      <4> QED BY <4>1, <4>2
    <3> QED BY <1>13, <3>1, <3>2, <3>3 DEF AInv, TypeOK, Die, taskVars
  <2>2. OffInv'
    BY <1>13 DEF AInv, TypeOK, OffInv, Die, taskVars, Running
  <2>3. KeyInv'
    BY <1>13 DEF AInv, TypeOK, OffInv, KeyInv, Die, taskVars, Running
  <2>4. SureInv'
    BY <1>13 DEF AInv, TypeOK, OffInv, SureInv, Die, taskVars, Running
  <2>5. LeaseInv'
    BY <1>13 DEF AInv, TypeOK, OffInv, LeaseInv, Die, taskVars, Running
  <2>6. RunInv'
    BY <1>13 DEF AInv, TypeOK, OffInv, LeaseInv, TaskInv, RunInv, Die,
       taskVars, Running
  <2>7. TaskInv'
    BY <1>13 DEF AInv, TaskInv, Die, taskVars, Running
  <2> QED BY <2>1, <2>2, <2>3, <2>4, <2>5, <2>6, <2>7 DEF AInv
<1>14. ASSUME NEW p \in Probed, ProbeLatched(p) PROVE AInv'
  <2>1. TypeOK'
    BY <1>14 DEF AInv, TypeOK, ProbeLatched, taskVars, Running
  <2>2. OffInv'
    BY <1>14 DEF AInv, TypeOK, OffInv, ProbeLatched, taskVars, Running
  <2>3. KeyInv'
    BY <1>14 DEF AInv, TypeOK, OffInv, KeyInv, ProbeLatched, taskVars, Running
  <2>4. SureInv'
    BY <1>14 DEF AInv, TypeOK, OffInv, SureInv, ProbeLatched, taskVars,
       Running
  <2>5. LeaseInv' /\ TaskInv' /\ RunInv'
    BY <1>14 DEF AInv, LeaseInv, TaskInv, RunInv, ProbeLatched, taskVars,
       Running
  <2> QED BY <2>1, <2>2, <2>3, <2>4, <2>5 DEF AInv
<1>15. ASSUME NEW p \in Probed, ProbePass(p) PROVE AInv'
  <2>1. TypeOK'
    <3> USE DEF AInv, TypeOK
    <3>1. PICK own \in OwnKey(p) :
            IF own /\ key[p] = "there"
            THEN key' = [key EXCEPT ![p] = "latched"] /\ sure' = [sure EXCEPT ![p] = TRUE]
            ELSE UNCHANGED <<key, sure>>
      BY <1>15, Zenon DEF ProbePass
    <3>2. /\ key' \in [Procs -> {"none", "there", "latched"}]
          /\ sure' \in [Probed -> BOOLEAN]
      <4>1. CASE own /\ key[p] = "there"
        <5>1. /\ key' = [key EXCEPT ![p] = "latched"]
              /\ sure' = [sure EXCEPT ![p] = TRUE]
          BY <3>1, <4>1, Zenon
        <5>2. sure' \in [Probed -> BOOLEAN]
          BY <5>1, Zenon
        <5> QED BY <5>1, <5>2
      <4>2. CASE ~(own /\ key[p] = "there")
        BY <3>1, <4>2
      <4> QED BY <4>1, <4>2
    <3> QED BY <1>15, <3>2 DEF ProbePass, taskVars
  <2>2. OffInv'
    BY <1>15 DEF AInv, TypeOK, OffInv, ProbePass, OwnKey, taskVars
  <2>3. KeyInv'
    BY <1>15 DEF AInv, TypeOK, OffInv, KeyInv, ProbePass, OwnKey, taskVars
  <2>4. SureInv'
    BY <1>15 DEF AInv, TypeOK, OffInv, SureInv, ProbePass, OwnKey, taskVars
  <2>5. LeaseInv' /\ TaskInv' /\ RunInv'
    BY <1>15 DEF AInv, LeaseInv, TaskInv, RunInv, ProbePass, OwnKey, taskVars,
       Running
  <2> QED BY <2>1, <2>2, <2>3, <2>4, <2>5 DEF AInv
<1>16. ASSUME NEW p \in Probed, ProbeFail(p) PROVE AInv'
  <2>1. TypeOK'
    BY <1>16 DEF AInv, TypeOK, ProbeFail, taskVars, Running
  <2>2. OffInv'
    BY <1>16 DEF AInv, TypeOK, OffInv, ProbeFail, taskVars, Running
  <2>3. KeyInv'
    BY <1>16 DEF AInv, TypeOK, OffInv, KeyInv, ProbeFail, taskVars, Running
  <2>4. SureInv'
    BY <1>16 DEF AInv, TypeOK, OffInv, SureInv, ProbeFail, taskVars, Running
  <2>5. LeaseInv' /\ TaskInv' /\ RunInv'
    BY <1>16 DEF AInv, LeaseInv, TaskInv, RunInv, ProbeFail, taskVars, Running
  <2> QED BY <2>1, <2>2, <2>3, <2>4, <2>5 DEF AInv
<1>17. ASSUME NEW w \in Wrappers, TaskRead(w) PROVE AInv'
  <2>1. TypeOK'
    BY <1>17 DEF AInv, TypeOK, TaskRead, GotoTask, procVars
  <2>2. OffInv'
    BY <1>17 DEF AInv, TypeOK, OffInv, TaskRead, GotoTask, procVars
  <2>3. TaskInv'
    BY <1>17 DEF AInv, TypeOK, OffInv, LeaseInv, TaskInv, TaskRead, GotoTask,
       procVars
  <2>4. RunInv'
    BY <1>17 DEF AInv, TypeOK, OffInv, LeaseInv, TaskInv, RunInv, TaskRead,
       GotoTask, procVars, Running
  <2>5. KeyInv' /\ SureInv' /\ LeaseInv'
    BY <1>17 DEF AInv, KeyInv, SureInv, LeaseInv, TaskRead, GotoTask, procVars
  <2> QED BY <2>1, <2>2, <2>3, <2>4, <2>5 DEF AInv
<1>18. ASSUME NEW w \in Wrappers, TaskLate(w) PROVE AInv'
  <2>1. TypeOK'
    BY <1>18 DEF AInv, TypeOK, TaskLate, GotoTask, procVars
  <2>2. OffInv'
    BY <1>18 DEF AInv, TypeOK, OffInv, TaskLate, GotoTask, procVars
  <2>3. TaskInv'
    BY <1>18 DEF AInv, TypeOK, OffInv, LeaseInv, TaskInv, TaskLate, GotoTask,
       procVars
  <2>4. RunInv'
    BY <1>18 DEF AInv, TypeOK, OffInv, LeaseInv, TaskInv, RunInv, TaskLate,
       GotoTask, procVars, Running
  <2>5. KeyInv' /\ SureInv' /\ LeaseInv'
    BY <1>18 DEF AInv, KeyInv, SureInv, LeaseInv, TaskLate, GotoTask, procVars
  <2> QED BY <2>1, <2>2, <2>3, <2>4, <2>5 DEF AInv
<1>19. ASSUME NEW w \in Wrappers, TaskCompare(w) PROVE AInv'
  <2>1. TypeOK'
    BY <1>19 DEF AInv, TypeOK, TaskCompare, GotoTask, procVars
  <2>2. OffInv'
    BY <1>19 DEF AInv, TypeOK, OffInv, TaskCompare, GotoTask, procVars
  <2>3. TaskInv'
    BY <1>19 DEF AInv, TypeOK, OffInv, LeaseInv, TaskInv, TaskCompare,
       GotoTask, procVars
  <2>4. RunInv'
    BY <1>19 DEF AInv, TypeOK, OffInv, LeaseInv, TaskInv, RunInv, TaskCompare,
       GotoTask, procVars, Running
  <2>5. KeyInv' /\ SureInv' /\ LeaseInv'
    BY <1>19 DEF AInv, KeyInv, SureInv, LeaseInv, TaskCompare, GotoTask,
       procVars
  <2> QED BY <2>1, <2>2, <2>3, <2>4, <2>5 DEF AInv
<1>20. ASSUME NEW w \in Wrappers, TaskMove(w) PROVE AInv'
  <2>1. TypeOK'
    BY <1>20 DEF AInv, TypeOK, OffInv, TaskInv, TaskMove, GotoTask, procVars
  <2>2. OffInv'
    BY <1>20 DEF AInv, TypeOK, OffInv, TaskMove, GotoTask, procVars
  <2>3. TaskInv'
    BY <1>20 DEF AInv, TypeOK, OffInv, LeaseInv, TaskInv, TaskMove, GotoTask,
       procVars
  <2>4. RunInv'
    BY <1>20 DEF AInv, TypeOK, OffInv, LeaseInv, TaskInv, RunInv, TaskMove,
       GotoTask, procVars, Running
  <2>5. KeyInv' /\ SureInv' /\ LeaseInv'
    BY <1>20 DEF AInv, KeyInv, SureInv, LeaseInv, TaskMove, GotoTask, procVars
  <2> QED BY <2>1, <2>2, <2>3, <2>4, <2>5 DEF AInv
<1>21. ASSUME NEW w \in Wrappers, TaskClear(w) PROVE AInv'
  <2>1. TypeOK'
    BY <1>21 DEF AInv, TypeOK, OffInv, TaskInv, TaskClear, GotoTask, procVars
  <2>2. OffInv'
    BY <1>21 DEF AInv, TypeOK, OffInv, TaskClear, GotoTask, procVars
  <2>3. TaskInv'
    BY <1>21 DEF AInv, TypeOK, OffInv, LeaseInv, TaskInv, TaskClear, GotoTask,
       procVars
  <2>4. RunInv'
    BY <1>21 DEF AInv, TypeOK, OffInv, LeaseInv, TaskInv, RunInv, TaskClear,
       GotoTask, procVars, Running
  <2>5. KeyInv' /\ SureInv' /\ LeaseInv'
    BY <1>21 DEF AInv, KeyInv, SureInv, LeaseInv, TaskClear, GotoTask,
       procVars
  <2> QED BY <2>1, <2>2, <2>3, <2>4, <2>5 DEF AInv
<1>22. CASE CacheBoot
  <2>1. TypeOK'
    BY <1>22 DEF AInv, TypeOK, CacheBoot, procVars, taskVars
  <2>2. OffInv' /\ KeyInv' /\ SureInv' /\ LeaseInv' /\ TaskInv' /\ RunInv'
    BY <1>22 DEF AInv, OffInv, KeyInv, SureInv, LeaseInv, TaskInv, RunInv,
       CacheBoot, procVars, taskVars, Running
  <2> QED BY <2>1, <2>2 DEF AInv
<1>23. CASE UNCHANGED vars
  BY <1>23 DEF AInv, TypeOK, OffInv, KeyInv, SureInv, LeaseInv, TaskInv, RunInv, Running,
              vars, procVars, taskVars
<1> QED
  BY <1>1, <1>2, <1>3, <1>4, <1>5, <1>6, <1>7, <1>8, <1>9, <1>10, <1>11,
     <1>12, <1>13, <1>14, <1>15, <1>16, <1>17, <1>18, <1>19, <1>20, <1>21, <1>22, <1>23
         DEF Next, ProcStep, TaskStep

\* The invariant of every behaviour.
LEMMA AHolds == Spec => []AInv
BY AInit, AStep, PTL DEF Spec

\* Type correctness: every variable of DevUp keeps its type.
THEOREM TypeCorrect == Spec => []TypeOK
<1>1. AInv => TypeOK
  BY DEF AInv
<1> QED BY AHolds, <1>1, PTL

\* Nothing an earlier session left, latch or socket, passes for a process that
\* has not died in this one.
THEOREM ReadyMeansServingHolds == Spec => []ReadyMeansServing
<1>1. AInv => ReadyMeansServing
  BY AfterFacts DEF AInv, OffInv, KeyInv, ReadyMeansServing
<1> QED BY AHolds, <1>1, PTL

\* One lease for all that knows the bench's ports, however many wrappers run the
\* task and processes die.
THEOREM ServesTheLeaseHolds == Spec => []ServesTheLease
<1>1. AInv => ServesTheLease
  BY ConstantsAssumption DEF AInv, TaskInv, RunInv, Running, ServesTheLease
<1> QED BY AHolds, <1>1, PTL

\* What counts as up is up and on the lease, in every behaviour.
THEOREM UpForRealHolds == Spec => []UpForReal
BY ReadyMeansServingHolds, ServesTheLeaseHolds, PTL DEF UpForReal

\* No slow probe gets a process skipped once one that read its key has passed.
THEOREM NoneSkippedHolds == Spec => NoneSkipped
<1>1. ASSUME AInv, [Next]_vars
      PROVE  \A p \in Procs : run[p] # "skipped" /\ run'[p] = "skipped" =>
               \/ \E d \in After[p] : ~sure[d] \/ run[d] = "skipped"
               \/ p \in NeedsConfig /\ task[p] = "failed"
  <2> SUFFICES ASSUME NEW q \in Procs, run[q] # "skipped", run'[q] = "skipped",
                      \A d \in After[q] : sure[d] /\ run[d] # "skipped"
               PROVE  q \in NeedsConfig /\ task[q] = "failed"
    OBVIOUS
  <2> USE AfterFacts
  <2>1. \A d \in After[q] : health[d] = "ready"
    BY <1>1 DEF AInv, SureInv
  <2>2. run \in [Procs -> {"off", "wait", "exec", "start", "up", "skipped"}]
    BY <1>1 DEF AInv, TypeOK
  <2>3. CASE \E p \in Procs : Launch(p)
    BY <2>1, <2>2, <2>3 DEF Launch
  <2>4. CASE \E p \in Procs : GiveUp(p)
    BY <2>2, <2>4 DEF GiveUp
  <2>5. CASE Up \/ Again \/ Down
    BY <2>2, <2>5 DEF Up, Again, Down, Ended
  <2>6. CASE \E p \in Procs : Stamp(p) \/ Die(p)
                                \/ (p \in {"mailpit", "nginx"} /\ ServeOnLease(p))
    BY <2>2, <2>6 DEF Stamp, Die, ServeOnLease, Serving
  <2>7. CASE Reap \/ Lease \/ ServeRedis \/ ServeMysql \/ ServeRuntime
    BY <2>2, <2>7 DEF Reap, Lease, ServeRedis, ServeMysql, ServeRuntime, Serving
  <2>8. CASE \E p \in Probed : ProbeLatched(p) \/ ProbePass(p) \/ ProbeFail(p)
    BY <2>8 DEF ProbeLatched, ProbePass, ProbeFail
  <2>9. CASE CacheBoot \/ UNCHANGED vars \/ \E w \in Wrappers : TaskStep(w)
    BY <2>9 DEF CacheBoot, vars, procVars, TaskStep, TaskRead, TaskLate, TaskCompare,
                TaskMove, TaskClear
  <2> QED
    BY <1>1, <2>3, <2>4, <2>5, <2>6, <2>7, <2>8, <2>9 DEF Next, ProcStep
<1> QED BY AHolds, <1>1, PTL DEF Spec, NoneSkipped

-----------------------------------------------------------------------------
(***************************************************************************)
(* The site under the same shell: theorems of DevSite, for any apps, pairs *)
(* and number of copies. That provision and restore are run only while no  *)
(* copy runs is assumed of what speaks of the apps (HandWaits): they take  *)
(* no lock, and nothing holds without it.                                  *)
(***************************************************************************)

Within == {"renaming", "installing", "replacing"}
Past   == {"install", "installing", "replace", "replacing"}

\* A copy within a step has the lock, and no other copy has it.
LockInv == \A c \in Copies : pc[c] \in Within <=> holder = c

\* What is run by hand, and the copies, are never there together.
Apart == hand = "off" \/ Quiet

\* No renamed app goes by its old name: it is not listed, and once a copy is past the
\* renames, or the site was made anew, it is not installed.
NoOldName ==
  /\ listed \cap Olds(Renamed) = {}
  /\ hand = "provision" => apps \cap Olds(Renamed) = {}
  /\ \A c \in Copies :
       /\ pc[c] \in Past => apps \cap Olds(Renamed) = {}
       /\ pc[c] = "installing" => todo[c] \cap Olds(Renamed) = {}

\* What a copy that replaces has read of the apps is still so: the new ones that it saw are
\* there, and no old one is that it has not still to replace; or it could read nothing.
ReadInv ==
  \A c \in Copies : pc[c] = "replacing" =>
    /\ seen[c] \cap News(Replaced) \subseteq apps
    /\ \/ seen[c] = {} /\ todo[c] = {}
       \/ apps \cap Olds(Replaced) \subseteq todo[c]

SiteInv == SiteTypeOK /\ LockInv /\ Apart /\ NoOldName /\ NeverBeside /\ ReadInv

-----------------------------------------------------------------------------
(* What the pairs are. *)
LEMMA PairFacts ==
  /\ \A p \in Renamed : p[1] \in Olds(Renamed) /\ p[2] \in News(Renamed)
  /\ \A p \in Replaced : p[1] \in Olds(Replaced) /\ p[2] \in News(Replaced)
  /\ Olds(Renamed) \subseteq Apps /\ News(Renamed) \subseteq Apps
  /\ Olds(Replaced) \subseteq Apps /\ News(Replaced) \subseteq Apps
BY DevSiteAssumption DEF Olds, News

(* The shapes are kept by every step, whoever waits for whom. *)
LEMMA TypeStep == SiteTypeOK /\ [SiteNext]_siteVars => SiteTypeOK'
<1> SUFFICES ASSUME SiteTypeOK, [SiteNext]_siteVars PROVE SiteTypeOK'
  OBVIOUS
<1> USE DevSiteAssumption, PairFacts DEF SiteTypeOK, Steps, Keys, db, copies, Go, Free, Unlock, Faulty
<1>1. ASSUME NEW c \in Copies, StartCopy(c) PROVE SiteTypeOK'
  BY <1>1 DEF StartCopy
<1>2. ASSUME NEW c \in Copies, Lock(c) PROVE SiteTypeOK'
  <2>1. \A read \in SUBSET Apps : {p[1] : p \in {q \in Replaced : q[1] \in read}} \subseteq Apps
    BY DEF Olds
  <2>2. PICK read \in {apps, {}} :
          /\ read # apps => pc[c] # "rename" /\ Faulty
          /\ read = apps => UNCHANGED faults
          /\ seen' = [seen EXCEPT ![c] = read]
          /\ todo' = [todo EXCEPT ![c] =
               CASE pc[c] = "rename"  -> {}
                 [] pc[c] = "install" -> listed \ (Olds(Replaced) \cup read)
                 [] pc[c] = "replace" -> {p[1] : p \in {q \in Replaced : q[1] \in read}}]
    BY <1>2, Zenon DEF Lock
  <2>3. pc[c] \in {"rename", "install", "replace"} /\ read \subseteq Apps
    BY <1>2, <2>2 DEF Lock
  <2>4. (CASE pc[c] = "rename"  -> {}
           [] pc[c] = "install" -> listed \ (Olds(Replaced) \cup read)
           [] pc[c] = "replace" -> {p[1] : p \in {q \in Replaced : q[1] \in read}}) \in SUBSET Apps
    BY <2>1, <2>3
  <2>5. (CASE pc[c] = "rename" -> "renaming" [] pc[c] = "install" -> "installing"
           [] pc[c] = "replace" -> "replacing") \in Within
    BY <2>3 DEF Within
  <2>6. todo' \in [Copies -> SUBSET Apps] /\ seen' \in [Copies -> SUBSET Apps]
    BY <2>2, <2>3, <2>4
  <2>7. pc' \in [Copies -> {"off", "renaming", "installing", "replacing"} \cup Steps]
    BY <1>2, <2>5 DEF Lock, Within
  <2>8. faults' \in 0..MaxFaults
    BY <2>2
  <2> QED
    BY <1>2, <2>6, <2>7, <2>8 DEF Lock
<1>3. ASSUME NEW c \in Copies, RenameSite(c) PROVE SiteTypeOK'
  <2>1. Pending \subseteq Renamed /\ News(Pending) \subseteq Apps
    BY DEF Pending, News
  <2> QED
    BY <1>3, <2>1 DEF RenameSite
<1>4. ASSUME NEW c \in Copies, Installed(c) \/ ReplaceDone(c) PROVE SiteTypeOK'
  BY <1>4 DEF Installed, ReplaceDone
<1>5. ASSUME NEW c \in Copies, NEW a \in Apps, Install(c, a) PROVE SiteTypeOK'
  BY <1>5 DEF Install
<1>6. ASSUME NEW c \in Copies, NEW p \in Replaced, InstallNew(c, p) \/ UninstallOld(c, p) PROVE SiteTypeOK'
  BY <1>6 DEF InstallNew, UninstallOld
<1>7. ASSUME NEW c \in Copies, StopCopy(c) PROVE SiteTypeOK'
  BY <1>7 DEF StopCopy
<1>8. CASE BenchChanges
  BY <1>8 DEF BenchChanges
<1>9. CASE NewSite
  <2>1. site' \in BOOLEAN /\ live' \in BOOLEAN
    BY <1>9, Zenon DEF NewSite
  <2>2. starts' \in 0..MaxStarts
    BY <1>9 DEF NewSite, Alone
  <2> QED
    BY <1>9, <2>1, <2>2 DEF NewSite, Hand
<1>10. CASE SeedAndCarry
  BY <1>10 DEF SeedAndCarry, Alone, Hand
<1>11. CASE HandStep
  BY <1>11 DEF HandStep, Provision, RestoreDatabase, Neutralize, Hand
<1>12. CASE StopHand
  BY <1>12 DEF StopHand, Hand
<1>13. CASE UNCHANGED siteVars
  BY <1>13 DEF siteVars
<1> QED
  BY <1>1, <1>2, <1>3, <1>4, <1>5, <1>6, <1>7, <1>8, <1>9, <1>10, <1>11, <1>12, <1>13
     DEF SiteNext, CopyStep

(* The shapes at the start. *)
LEMMA InitType == SiteInit => SiteTypeOK
<1> SUFFICES ASSUME SiteInit PROVE SiteTypeOK
  OBVIOUS
<1>1. apps \subseteq Apps /\ dbKey \in Keys /\ cfgKey \in Keys
  <2>1. CASE site
    BY <2>1 DEF SiteInit, Keys
  <2>2. CASE ~site
    BY <2>2 DEF SiteInit, Keys
  <2> QED
    BY <2>1, <2>2
<1>2. site \in BOOLEAN /\ live \in BOOLEAN
  BY Zenon DEF SiteInit
<1> QED
  BY <1>1, <1>2, DevSiteAssumption DEF SiteInit, SiteTypeOK, Steps

(* The site, its copies and the commands keep their shapes. *)
THEOREM SiteTypeCorrect == SiteSpec => []SiteTypeOK
BY InitType, TypeStep, PTL DEF SiteSpec

-----------------------------------------------------------------------------
(* A step of a copy holds the lock for as long as it lasts. *)
LEMMA LockStep == SiteTypeOK /\ LockInv /\ [SiteNext]_siteVars => LockInv'
<1> SUFFICES ASSUME SiteTypeOK, LockInv, [SiteNext]_siteVars PROVE LockInv'
  OBVIOUS
<1> USE DevSiteAssumption DEF SiteTypeOK, LockInv, Within, Steps, db, copies, Go, Free, Unlock
<1>1. ASSUME NEW c \in Copies, StartCopy(c) PROVE LockInv'
  BY <1>1 DEF StartCopy
<1>2. ASSUME NEW c \in Copies, Lock(c) PROVE LockInv'
  BY <1>2 DEF Lock
<1>3. ASSUME NEW c \in Copies, RenameSite(c) PROVE LockInv'
  BY <1>3 DEF RenameSite
<1>4. ASSUME NEW c \in Copies, Installed(c) \/ ReplaceDone(c) PROVE LockInv'
  BY <1>4 DEF Installed, ReplaceDone
<1>5. ASSUME NEW c \in Copies, NEW a \in Apps, Install(c, a) PROVE LockInv'
  BY <1>5 DEF Install
<1>6. ASSUME NEW c \in Copies, NEW p \in Replaced, InstallNew(c, p) \/ UninstallOld(c, p) PROVE LockInv'
  BY <1>6 DEF InstallNew, UninstallOld
<1>7. ASSUME NEW c \in Copies, StopCopy(c) PROVE LockInv'
  BY <1>7 DEF StopCopy
<1>8. CASE BenchChanges \/ NewSite \/ SeedAndCarry \/ HandStep \/ StopHand \/ UNCHANGED siteVars
  BY <1>8 DEF BenchChanges, NewSite, SeedAndCarry, HandStep, Provision, RestoreDatabase,
              Neutralize, StopHand, siteVars
<1> QED
  BY <1>1, <1>2, <1>3, <1>4, <1>5, <1>6, <1>7, <1>8 DEF SiteNext, CopyStep

(* What is run by hand waits for the copies, and they for it. *)
LEMMA ApartStep == HandWaits /\ SiteTypeOK /\ Apart /\ [SiteNext]_siteVars => Apart'
<1> SUFFICES ASSUME HandWaits, SiteTypeOK, Apart, [SiteNext]_siteVars PROVE Apart'
  OBVIOUS
<1> USE DEF SiteTypeOK, Apart, Quiet, Steps, db, copies, Go, Unlock
<1>1. ASSUME NEW c \in Copies, StartCopy(c) PROVE Apart'
  BY <1>1 DEF StartCopy
<1>2. ASSUME NEW c \in Copies, CopyStep(c) PROVE Apart'
  <2>1. pc[c] # "off" /\ UNCHANGED hand
    BY <1>2 DEF CopyStep, Lock, RenameSite, Installed, ReplaceDone, Install, InstallNew, UninstallOld
  <2> QED
    BY <2>1
<1>3. ASSUME NEW c \in Copies, StopCopy(c) PROVE Apart'
  BY <1>3 DEF StopCopy
<1>4. CASE NewSite \/ SeedAndCarry
  BY <1>4 DEF NewSite, SeedAndCarry, Alone
<1>5. CASE BenchChanges \/ HandStep \/ StopHand \/ UNCHANGED siteVars
  BY <1>5 DEF BenchChanges, HandStep, Provision, RestoreDatabase, Neutralize, Hand, StopHand, siteVars
<1> QED
  BY <1>1, <1>2, <1>3, <1>4, <1>5 DEF SiteNext

-----------------------------------------------------------------------------
(* After the renames that have anything to do no app has an old name. *)
LEMMA RenamedNow ==
  ASSUME ~Refused, apps' = (apps \ Olds(Pending)) \cup News(Pending)
  PROVE  apps' \cap Olds(Renamed) = {}
<1>1. News(Pending) \subseteq News(Renamed)
  BY DEF News, Pending
<1>2. apps \cap Olds(Renamed) \subseteq Olds(Pending)
  BY DEF Olds, Pending
<1> QED
  BY <1>1, <1>2, DevSiteAssumption

(* Old names do not come back. *)
LEMMA OldNameStep ==
  HandWaits /\ SiteTypeOK /\ Apart /\ LockInv /\ NoOldName /\ [SiteNext]_siteVars => NoOldName'
<1> SUFFICES ASSUME HandWaits, SiteTypeOK, Apart, LockInv, NoOldName, [SiteNext]_siteVars PROVE NoOldName'
  OBVIOUS
<1> USE DevSiteAssumption, PairFacts
    DEF SiteTypeOK, NoOldName, Apart, Quiet, Past, Steps, db, copies, Go, Unlock
<1>1. ASSUME NEW c \in Copies, StartCopy(c) PROVE NoOldName'
  BY <1>1 DEF StartCopy
<1>2. ASSUME NEW c \in Copies, Lock(c) PROVE NoOldName'
  <2>1. pc[c] \in Steps /\ UNCHANGED <<listed, apps, hand>>
    BY <1>2 DEF Lock
  <2>2. pc'[c] \in Past => pc[c] \in Past
    BY <1>2, <2>1 DEF Lock
  <2>3. pc'[c] = "installing" => todo'[c] \subseteq listed
    BY <1>2, <2>1 DEF Lock
  <2>4. \A d \in Copies \ {c} : pc'[d] = pc[d] /\ todo'[d] = todo[d]
    BY <1>2 DEF Lock
  <2> QED
    BY <2>1, <2>2, <2>3, <2>4
<1>3. ASSUME NEW c \in Copies, RenameSite(c) PROVE NoOldName'
  <2>1. CASE Refused
    BY <1>3, <2>1 DEF RenameSite
  <2>2. CASE ~Refused
    <3>1. apps' \cap Olds(Renamed) = {}
      BY <1>3, <2>2, RenamedNow DEF RenameSite
    <3>2. UNCHANGED <<listed, hand, todo>> /\ \A d \in Copies : pc'[d] = "installing" => pc[d] = "installing"
      BY <1>3, <2>2 DEF RenameSite
    <3> QED
      BY <3>1, <3>2
  <2> QED
    BY <2>1, <2>2
<1>4. ASSUME NEW c \in Copies, Installed(c) \/ ReplaceDone(c) PROVE NoOldName'
  BY <1>4 DEF Installed, ReplaceDone
<1>5. ASSUME NEW c \in Copies, NEW a \in Apps, Install(c, a) PROVE NoOldName'
  <2>1. a \notin Olds(Renamed) /\ apps' \subseteq apps \cup {a}
    BY <1>5 DEF Install
  <2>2. UNCHANGED <<listed, hand, pc>> /\ \A d \in Copies : todo'[d] \subseteq todo[d]
    BY <1>5 DEF Install
  <2> QED
    BY <2>1, <2>2
<1>6. ASSUME NEW c \in Copies, NEW p \in Replaced, InstallNew(c, p) \/ UninstallOld(c, p)
      PROVE NoOldName'
  <2>1. apps' \subseteq apps \cup {p[2]} /\ p[2] \notin Olds(Renamed)
    BY <1>6 DEF InstallNew, UninstallOld
  <2>2. UNCHANGED <<listed, hand, pc>> /\ \A d \in Copies : todo'[d] \subseteq todo[d]
    BY <1>6 DEF InstallNew, UninstallOld
  <2> QED
    BY <2>1, <2>2
<1>7. ASSUME NEW c \in Copies, StopCopy(c) PROVE NoOldName'
  BY <1>7 DEF StopCopy
<1>8. CASE BenchChanges
  BY <1>8 DEF BenchChanges
<1>9. CASE NewSite
  BY <1>9 DEF NewSite, Alone, Hand
<1>10. CASE SeedAndCarry
  BY <1>10 DEF SeedAndCarry, Alone, Hand
<1>11. CASE HandStep
  BY <1>11 DEF HandStep, Provision, RestoreDatabase, Neutralize, Hand
<1>12. CASE StopHand \/ UNCHANGED siteVars
  BY <1>12 DEF StopHand, Hand, siteVars
<1> QED
  BY <1>1, <1>2, <1>3, <1>4, <1>5, <1>6, <1>7, <1>8, <1>9, <1>10, <1>11, <1>12
     DEF SiteNext, CopyStep

(* Where no app has an old name none is beside its old self; the renames, and a restored
   database, see to it themselves. *)
LEMMA BesideStep ==
  HandWaits /\ SiteTypeOK /\ Apart /\ NoOldName /\ NeverBeside /\ [SiteNext]_siteVars => NeverBeside'
<1> SUFFICES ASSUME HandWaits, SiteTypeOK, Apart, NoOldName, NeverBeside, [SiteNext]_siteVars
             PROVE NeverBeside'
  OBVIOUS
<1> USE DevSiteAssumption, PairFacts DEF NeverBeside, db, copies
<1>1. ASSUME apps' \cap Olds(Renamed) = {} PROVE NeverBeside'
  BY <1>1
<1>2. ASSUME apps' \subseteq apps PROVE NeverBeside'
  BY <1>2
<1>3. ASSUME NEW c \in Copies, RenameSite(c) PROVE NeverBeside'
  BY <1>1, <1>2, <1>3, RenamedNow DEF RenameSite
<1>4. ASSUME NEW c \in Copies, NEW a \in Apps, Install(c, a) PROVE NeverBeside'
  <2>1. apps' \subseteq apps \cup {a} /\ a \notin Olds(Renamed) /\ apps \cap Olds(Renamed) = {}
    BY <1>4 DEF Install, NoOldName, Past
  <2> QED
    BY <1>1, <2>1
<1>5. ASSUME NEW c \in Copies, NEW p \in Replaced, InstallNew(c, p) PROVE NeverBeside'
  <2>1. apps' = apps \cup {p[2]} /\ apps \cap Olds(Renamed) = {}
    BY <1>5 DEF InstallNew, NoOldName, Past
  <2> QED
    BY <1>1, <2>1
<1>6. ASSUME NEW c \in Copies,
             StartCopy(c) \/ Lock(c) \/ Installed(c) \/ ReplaceDone(c) \/ StopCopy(c)
      PROVE NeverBeside'
  BY <1>6 DEF StartCopy, Lock, Installed, ReplaceDone, StopCopy
<1>7. ASSUME NEW c \in Copies, NEW p \in Replaced, UninstallOld(c, p) PROVE NeverBeside'
  BY <1>2, <1>7 DEF UninstallOld
<1>8. CASE Provision
  BY <1>1, <1>2, <1>8 DEF Provision, NoOldName
<1>9. CASE RestoreDatabase
  BY <1>9 DEF RestoreDatabase
<1>10. CASE BenchChanges \/ NewSite \/ SeedAndCarry \/ Neutralize \/ StopHand \/ UNCHANGED siteVars
  BY <1>10 DEF BenchChanges, NewSite, SeedAndCarry, Neutralize, StopHand, siteVars
<1> QED
  BY <1>3, <1>4, <1>5, <1>6, <1>7, <1>8, <1>9, <1>10 DEF SiteNext, CopyStep, HandStep

-----------------------------------------------------------------------------
(* What a copy that replaces has read stays so: the others wait for the lock, and what is
   run by hand waits for the copies. *)
LEMMA ReadStep ==
  HandWaits /\ SiteTypeOK /\ LockInv /\ Apart /\ ReadInv /\ [SiteNext]_siteVars => ReadInv'
<1> SUFFICES ASSUME HandWaits, SiteTypeOK, LockInv, Apart, ReadInv, [SiteNext]_siteVars,
                    NEW d \in Copies, pc'[d] = "replacing"
             PROVE  /\ seen'[d] \cap News(Replaced) \subseteq apps'
                    /\ \/ seen'[d] = {} /\ todo'[d] = {}
                       \/ apps' \cap Olds(Replaced) \subseteq todo'[d]
  BY Zenon DEF ReadInv
<1> DEFINE Read == /\ seen'[d] \cap News(Replaced) \subseteq apps'
                   /\ \/ seen'[d] = {} /\ todo'[d] = {}
                      \/ apps' \cap Olds(Replaced) \subseteq todo'[d]
<1> USE DevSiteAssumption, PairFacts DEF SiteTypeOK, db, copies, Go, Unlock, Steps
<1>1. ASSUME UNCHANGED apps, pc[d] = "replacing", seen'[d] = seen[d], todo'[d] = todo[d] PROVE Read
  BY <1>1 DEF ReadInv
<1>2. ASSUME NEW c \in Copies, Lock(c) PROVE Read
  <2>1. CASE c # d
    BY <1>1, <1>2, <2>1 DEF Lock
  <2>2. CASE c = d
    <3>1. pc[d] = "replace" /\ UNCHANGED apps
      BY <1>2, <2>2 DEF Lock
    <3>2. PICK read \in {apps, {}} :
            /\ read # apps => pc[c] # "rename" /\ Faulty
            /\ read = apps => UNCHANGED faults
            /\ seen' = [seen EXCEPT ![c] = read]
            /\ todo' = [todo EXCEPT ![c] =
                 CASE pc[c] = "rename"  -> {}
                   [] pc[c] = "install" -> listed \ (Olds(Replaced) \cup read)
                   [] pc[c] = "replace" -> {p[1] : p \in {q \in Replaced : q[1] \in read}}]
      BY <1>2, Zenon DEF Lock
    <3>3. seen'[d] = read
      BY <2>2, <3>2
    <3>4. todo'[d] = {p[1] : p \in {q \in Replaced : q[1] \in read}}
      BY <2>2, <3>1, <3>2
    <3>5. CASE read = {}
      BY <3>1, <3>3, <3>4, <3>5
    <3>6. CASE read = apps
      BY <3>1, <3>3, <3>4, <3>6 DEF Olds
    <3> QED
      BY <3>5, <3>6
  <2> QED
    BY <2>1, <2>2
<1>3. ASSUME NEW c \in Copies, RenameSite(c) \/ Installed(c) PROVE Read
  <2>1. pc[d] = "replacing" /\ pc[c] \in Within /\ c # d
    BY <1>3 DEF RenameSite, Installed, Within
  <2> QED
    BY <2>1 DEF LockInv, Within
<1>4. ASSUME NEW c \in Copies, NEW a \in Apps, Install(c, a) PROVE Read
  <2>1. pc[d] = "replacing" /\ pc[c] \in Within /\ c # d
    BY <1>4 DEF Install, Within
  <2> QED
    BY <2>1 DEF LockInv, Within
<1>5. ASSUME NEW c \in Copies, NEW p \in Replaced, InstallNew(c, p) PROVE Read
  <2>1. c = d /\ pc[d] = "replacing"
    BY <1>5 DEF InstallNew, LockInv, Within
  <2>2. apps' = apps \cup {p[2]} /\ seen'[d] = seen[d] \cup {p[2]} /\ todo'[d] = todo[d]
    BY <1>5, <2>1 DEF InstallNew
  <2>3. apps \cap Olds(Replaced) \subseteq todo[d]
    BY <1>5, <2>1 DEF InstallNew, ReadInv
  <2> QED
    BY <2>1, <2>2, <2>3 DEF ReadInv
<1>6. ASSUME NEW c \in Copies, NEW p \in Replaced, UninstallOld(c, p) PROVE Read
  <2>1. c = d /\ pc[d] = "replacing"
    BY <1>6 DEF UninstallOld, LockInv, Within
  <2>2. apps' = apps \ {p[1]} /\ seen'[d] = seen[d] /\ todo'[d] = todo[d] \ {p[1]}
    BY <1>6, <2>1 DEF UninstallOld
  <2> QED
    BY <2>1, <2>2 DEF ReadInv
<1>7. ASSUME NEW c \in Copies, StartCopy(c) \/ ReplaceDone(c) \/ StopCopy(c) PROVE Read
  BY <1>1, <1>7 DEF StartCopy, ReplaceDone, StopCopy
<1>8. CASE BenchChanges \/ StopHand \/ UNCHANGED siteVars
  BY <1>1, <1>8 DEF BenchChanges, StopHand, siteVars
<1>9. CASE NewSite \/ SeedAndCarry \/ HandStep
  <2>1. pc[d] = "replacing"
    BY <1>9 DEF NewSite, SeedAndCarry, HandStep, Provision, RestoreDatabase, Neutralize
  <2> QED
    BY <1>9, <2>1 DEF NewSite, SeedAndCarry, Alone, HandStep, Provision, RestoreDatabase,
                      Neutralize, Apart, Quiet
<1> QED
  BY <1>2, <1>3, <1>4, <1>5, <1>6, <1>7, <1>8, <1>9 DEF SiteNext, CopyStep

-----------------------------------------------------------------------------
(* The invariant holds at the start. *)
LEMMA SiteStart == SiteInit => SiteInv
<1> SUFFICES ASSUME SiteInit PROVE SiteInv
  OBVIOUS
<1>1. SiteTypeOK
  BY InitType
<1>2. NeverBeside
  BY DEF SiteInit, NeverBeside
<1>3. listed \cap Olds(Renamed) = {}
  BY DEF SiteInit
<1>4. LockInv /\ Apart /\ NoOldName /\ ReadInv
  BY <1>3, DevSiteAssumption DEF SiteInit, LockInv, Apart, NoOldName, ReadInv, Within, Past
<1> QED
  BY <1>1, <1>2, <1>4 DEF SiteInv

(* Every step keeps all of it, where what is run by hand waits for the copies. *)
LEMMA SiteStep == HandWaits /\ SiteInv /\ [SiteNext]_siteVars => SiteInv'
BY TypeStep, LockStep, ApartStep, OldNameStep, BesideStep, ReadStep, Zenon DEF SiteInv

(* The invariant of every behaviour. *)
LEMMA SiteHolds == ASSUME HandWaits PROVE SiteSpec => []SiteInv
<1>1. SiteInv /\ [SiteNext]_siteVars => SiteInv'
  BY SiteStep
<1> QED
  BY <1>1, SiteStart, PTL DEF SiteSpec

(* A renamed app is never installed beside its old self, with any number of copies,
   whatever the bench lists meanwhile and whatever fails. *)
THEOREM NeverBesideHolds == ASSUME HandWaits PROVE SiteSpec => []NeverBeside
<1>1. SiteInv => NeverBeside
  BY Zenon DEF SiteInv
<1>2. SiteSpec => []SiteInv
  BY SiteHolds
<1> QED
  BY <1>1, <1>2, PTL

(* A replaced app goes only when the one that takes over from it is there, and a copy that
   could read the site and came to its end leaves neither it nor a renamed one. *)
THEOREM OldsReplacedHolds == ASSUME HandWaits PROVE SiteSpec => OldsReplaced
<1> DEFINE First == \A p \in Replaced :
                      hand = "off" /\ hand' = "off" /\ p[1] \in apps \ apps' => p[2] \in apps
           Gone  == \A c \in Copies :
                      ReplaceDone(c) /\ seen[c] # {} =>
                        apps' \cap (Olds(Replaced) \cup Olds(Renamed)) = {}
<1>1. SiteInv /\ [SiteNext]_siteVars => First
  <2> SUFFICES ASSUME SiteInv, [SiteNext]_siteVars, NEW p \in Replaced, hand = "off", hand' = "off",
                      p[1] \in apps, p[1] \notin apps'
               PROVE  p[2] \in apps
    OBVIOUS
  <2> USE DevSiteAssumption, PairFacts DEF db, copies
  <2>1. ASSUME NEW c \in Copies, RenameSite(c) PROVE FALSE
    <3>1. Olds(Pending) \subseteq Olds(Renamed)
      BY DEF Olds, Pending
    <3> QED
      BY <2>1, <3>1 DEF RenameSite
  <2>2. ASSUME NEW c \in Copies, NEW q \in Replaced, UninstallOld(c, q) PROVE p[2] \in apps
    <3>1. p = q
      BY <2>2 DEF UninstallOld
    <3> QED
      BY <2>2, <3>1 DEF UninstallOld, SiteInv, ReadInv
  <2>3. ASSUME NEW c \in Copies, NEW q \in Replaced, InstallNew(c, q) PROVE FALSE
    BY <2>3 DEF InstallNew
  <2>4. ASSUME NEW c \in Copies, NEW a \in Apps, Install(c, a) PROVE FALSE
    BY <2>4 DEF Install
  <2>5. ASSUME NEW c \in Copies,
               StartCopy(c) \/ Lock(c) \/ Installed(c) \/ ReplaceDone(c) \/ StopCopy(c)
        PROVE FALSE
    BY <2>5 DEF StartCopy, Lock, Installed, ReplaceDone, StopCopy
  <2>6. CASE BenchChanges \/ NewSite \/ SeedAndCarry \/ HandStep \/ StopHand \/ UNCHANGED siteVars
    BY <2>6 DEF BenchChanges, NewSite, SeedAndCarry, HandStep, Provision, RestoreDatabase,
                Neutralize, StopHand, Hand, siteVars
  <2> QED
    BY <2>1, <2>2, <2>3, <2>4, <2>5, <2>6 DEF SiteNext, CopyStep
<1>2. SiteInv => Gone
  BY DEF SiteInv, NoOldName, ReadInv, ReplaceDone, Past, db
<1>3. SiteInv /\ [SiteNext]_siteVars => [First]_siteVars /\ [Gone]_siteVars
  BY <1>1, <1>2
<1>4. SiteSpec => []SiteInv
  BY SiteHolds
<1>5. SiteSpec => [][First]_siteVars /\ [][Gone]_siteVars
  BY <1>3, <1>4, PTL DEF SiteSpec
<1> QED
  BY <1>5 DEF OldsReplaced, ReplacedFirst, OldsGone
-----------------------------------------------------------------------------
(***************************************************************************)
(* The object store that a bench shares with production (ObjectStore),     *)
(* for any number of writes: a call under way carries the header exactly   *)
(* when its bench asks for it, and where it does not, what the call        *)
(* creates was looked for first (CallOk, UploadOk).                        *)
(***************************************************************************)
CONSTANTS MaxOsPuts, MaxOsProd, MaxOsRetries
VARIABLES osStore, osBucket, osSet, osCall, osUpload, osPuts, osProds, osRetries
OS == INSTANCE ObjectStore WITH MaxPuts <- MaxOsPuts, MaxProd <- MaxOsProd,
  MaxRetries <- MaxOsRetries, store <- osStore, bucket <- osBucket, set <- osSet,
  call <- osCall, upload <- osUpload, puts <- osPuts, prods <- osProds, retries <- osRetries

CallRecords == [at : {"none", "probe", "request"}, op : {"none"} \cup OS!Writes, key : OS!Keys, id : Int,
                clear : BOOLEAN, header : BOOLEAN]
StoreTypes ==
  /\ osSet \in [OS!Benches -> [mode : {"local", "push"}, cond : BOOLEAN]]
  /\ osCall \in [OS!Benches -> CallRecords]
  /\ osUpload \in [OS!Benches -> [key : OS!Keys, open : BOOLEAN, clear : BOOLEAN]]
  /\ osPuts \in Nat /\ osProds \in Nat

\* A call that is under way is a write, of a process in push mode, and has the header exactly when its bench
\* asks for it. Where it does not, what the call creates was looked for and found free.
Heads(c, s) == c.header <=> c.op \in OS!Conditional /\ s.cond
Looked(c, s) == c.at = "request" /\ c.op \in OS!CreatesKey /\ ~s.cond => c.clear
CallOk(c, s, u) ==
  c.at # "none" =>
    /\ c.op \in OS!Writes /\ s.mode = "push" /\ Heads(c, s) /\ Looked(c, s)
    /\ c.at = "probe" => c.op \in OS!CreatesKey
    /\ c.op = "CompleteMultipartUpload" => u.open
UploadOk(s, u) == u.open /\ ~s.cond => u.clear
BenchOk(b) == CallOk(osCall[b], osSet[b], osUpload[b]) /\ UploadOk(osSet[b], osUpload[b])
StoreInv == StoreTypes /\ \A b \in OS!Benches : BenchOk(b)

LEMMA StoreInit == OS!Init => StoreInv
  BY DEF OS!Init, StoreInv, StoreTypes, CallRecords, BenchOk, CallOk, UploadOk, OS!NoCall, OS!NoUpload,
         OS!Benches, OS!Keys

\* What one bench does leaves the others' calls, uploads and settings alone.
KeepsOthers(b) ==
  \A x \in OS!Benches \ {b} : osCall'[x] = osCall[x] /\ osSet'[x] = osSet[x] /\ osUpload'[x] = osUpload[x]

LEMMA OthersOk ==
  ASSUME StoreInv, NEW b \in OS!Benches, StoreTypes', KeepsOthers(b), BenchOk(b)'
  PROVE  StoreInv'
  BY DEF StoreInv, KeepsOthers, BenchOk

LEMMA BeginStep ==
  ASSUME StoreInv, NEW b \in OS!Benches, NEW k \in OS!Keys,
         NEW op \in OS!Writes \cup OS!Deletes \cup OS!Others, OS!Begin(b, op, k)
  PROVE  StoreInv'
<1>1. UNCHANGED <<osSet, osUpload, osProds>> /\ osPuts' = osPuts + 1
  BY DEF OS!Begin
<1>2. CASE UNCHANGED osCall
  BY <1>1, <1>2 DEF StoreInv, StoreTypes, BenchOk
<1>3. CASE ~(OS!Refused(b, op) \/ OS!Dropped(op))
  <2> DEFINE hd == op \in OS!Conditional /\ osSet[b].cond
             c == [at |-> IF op \in OS!CreatesKey THEN "probe" ELSE "request", op |-> op, key |-> k,
                   id |-> osPuts + 1, clear |-> FALSE, header |-> hd]
  <2>1. osCall' = [osCall EXCEPT ![b] = c]
    BY <1>3 DEF OS!Begin, OS!Goes
  <2>2. op \in OS!Writes /\ osSet[b].mode = "push"
    BY <1>3 DEF OS!Refused, OS!Dropped, StoreInv, StoreTypes
  <2>3. op = "CompleteMultipartUpload" => osUpload[b].open
    BY DEF OS!Begin
  <2>4. hd \in BOOLEAN
    OBVIOUS
  <2> HIDE DEF hd
  <2>5. c \in CallRecords
    BY <2>2, <2>4 DEF CallRecords, StoreInv, StoreTypes
  <2>6. CallOk(c, osSet[b], osUpload[b])
    BY <2>2, <2>3 DEF CallOk, Heads, Looked, OS!CreatesKey, hd
  <2> HIDE DEF c
  <2>7. StoreTypes' /\ osCall'[b] = c /\ KeepsOthers(b)
    BY <1>1, <2>1, <2>5 DEF StoreInv, StoreTypes, KeepsOthers
  <2>8. BenchOk(b)'
    BY <1>1, <2>6, <2>7 DEF BenchOk, StoreInv
  <2> QED BY <2>7, <2>8, OthersOk
<1> QED BY <1>2, <1>3 DEF OS!Begin

LEMMA ProbeStep ==
  ASSUME StoreInv, NEW b \in OS!Benches, OS!Probe(b)
  PROVE  StoreInv'
<1> DEFINE sees == b \in osStore.sees
           c == [osCall[b] EXCEPT !.at = "request", !.clear = sees]
<1>1. UNCHANGED <<osSet, osUpload, osPuts, osProds>> /\ osCall[b].at = "probe" /\
          osCall[b] \in CallRecords /\ BenchOk(b)
  BY DEF OS!Probe, OS!Rest, StoreInv, StoreTypes
<1>2. sees \in BOOLEAN
  OBVIOUS
<1>3. /\ c \in CallRecords /\ c.at = "request" /\ c.clear = sees
      /\ c.op = osCall[b].op /\ c.key = osCall[b].key /\ c.header = osCall[b].header
  <2> HIDE DEF sees
  <2> QED BY <1>1, <1>2 DEF CallRecords
<1> HIDE DEF c
<1>4. CASE osCall' = [osCall EXCEPT ![b] = OS!NoCall]
  <2>1. StoreTypes' /\ KeepsOthers(b) /\ osCall'[b].at = "none"
    BY <1>1, <1>4 DEF StoreInv, StoreTypes, KeepsOthers, CallRecords, OS!NoCall, OS!Keys
  <2>2. BenchOk(b)'
    BY <1>1, <2>1 DEF BenchOk, CallOk, StoreInv
  <2> QED BY <2>1, <2>2, OthersOk
<1>5. CASE (sees \/ osSet[b].cond) /\ osCall' = [osCall EXCEPT ![b] = c]
  <2>1. StoreTypes' /\ KeepsOthers(b) /\ osCall'[b] = c
    BY <1>1, <1>3, <1>5 DEF StoreInv, StoreTypes, KeepsOthers
  <2>2. CallOk(c, osSet[b], osUpload[b])
    BY <1>1, <1>3, <1>5 DEF BenchOk, CallOk, Heads, Looked
  <2>3. BenchOk(b)'
    BY <1>1, <2>1, <2>2 DEF BenchOk
  <2> QED BY <2>1, <2>3, OthersOk
<1> QED BY <1>4, <1>5 DEF OS!Probe, OS!Goes, c

LEMMA RequestStep ==
  ASSUME StoreInv, NEW b \in OS!Benches, OS!Request(b)
  PROVE  StoreInv'
<1>1. UNCHANGED <<osSet, osPuts, osProds>> /\ osCall' = [osCall EXCEPT ![b] = OS!NoCall] /\ BenchOk(b)
  BY DEF OS!Request, OS!Goes, OS!Rest, StoreInv
<1>2. osCall[b].at = "request" /\ osCall[b] \in CallRecords
  BY DEF OS!Request, StoreInv, StoreTypes
<1>3. osCall' \in [OS!Benches -> CallRecords] /\ osCall'[b].at = "none"
  BY <1>1 DEF StoreInv, StoreTypes, CallRecords, OS!NoCall, OS!Keys
<1>4. CASE osCall[b].op = "CreateMultipartUpload"
           /\ osUpload' = [osUpload EXCEPT ![b] = [key |-> osCall[b].key, open |-> TRUE,
                clear |-> osCall[b].clear]]
  <2>1. StoreTypes' /\ KeepsOthers(b) /\ osUpload'[b].clear = osCall[b].clear
    BY <1>1, <1>2, <1>3, <1>4 DEF StoreInv, StoreTypes, KeepsOthers, CallRecords
  <2>2. BenchOk(b)'
    BY <1>1, <1>2, <1>3, <1>4, <2>1 DEF BenchOk, CallOk, UploadOk, Looked, OS!CreatesKey
  <2> QED BY <2>1, <2>2, OthersOk
<1>5. CASE osUpload' = [osUpload EXCEPT ![b] = OS!NoUpload]
  <2>1. StoreTypes' /\ KeepsOthers(b) /\ ~osUpload'[b].open
    BY <1>1, <1>3, <1>5 DEF StoreInv, StoreTypes, KeepsOthers, OS!NoUpload, OS!Keys
  <2>2. BenchOk(b)'
    BY <1>1, <1>3, <2>1 DEF BenchOk, CallOk, UploadOk
  <2> QED BY <2>1, <2>2, OthersOk
<1>6. CASE UNCHANGED osUpload
  <2>1. StoreTypes' /\ KeepsOthers(b)
    BY <1>1, <1>3, <1>6 DEF StoreInv, StoreTypes, KeepsOthers
  <2>2. BenchOk(b)'
    BY <1>1, <1>3, <1>6 DEF BenchOk, CallOk
  <2> QED BY <2>1, <2>2, OthersOk
<1> QED BY <1>4, <1>5, <1>6 DEF OS!Request

LEMMA RestartStep ==
  ASSUME StoreInv, NEW b \in OS!Benches, OS!Restart(b)
  PROVE  StoreInv'
<1>1. PICK m \in {"local", "push"}, cond \in BOOLEAN :
        osSet' = [osSet EXCEPT ![b] = [mode |-> m, cond |-> cond]]
  BY DEF OS!Restart
<1>2. /\ osCall' = [osCall EXCEPT ![b] = OS!NoCall] /\ osUpload' = [osUpload EXCEPT ![b] = OS!NoUpload]
      /\ UNCHANGED <<osPuts, osProds>>
  BY DEF OS!Restart, OS!Goes
<1>3. osCall' \in [OS!Benches -> CallRecords] /\ osCall'[b].at = "none"
  BY <1>2 DEF StoreInv, StoreTypes, CallRecords, OS!NoCall, OS!Keys
<1>4. StoreTypes' /\ KeepsOthers(b) /\ ~osUpload'[b].open
  BY <1>1, <1>2, <1>3 DEF StoreInv, StoreTypes, KeepsOthers, OS!NoUpload, OS!Keys
<1>5. BenchOk(b)'
  BY <1>3, <1>4 DEF BenchOk, CallOk, UploadOk
<1> QED BY <1>4, <1>5, OthersOk

LEMMA StoreStep == StoreInv /\ [OS!Next]_OS!vars => StoreInv'
<1> SUFFICES ASSUME StoreInv, [OS!Next]_OS!vars PROVE StoreInv'
  OBVIOUS
<1>1. CASE UNCHANGED <<osSet, osCall, osUpload, osPuts>> /\ osProds' \in Nat
  BY <1>1 DEF StoreInv, StoreTypes, BenchOk
<1>2. ASSUME NEW b \in OS!Benches, OS!Resend(b) PROVE StoreInv'
  BY <1>1, <1>2 DEF OS!Resend, StoreInv, StoreTypes
<1>3. ASSUME NEW k \in OS!Keys, OS!Production(k) PROVE StoreInv'
  BY <1>1, <1>3 DEF OS!Production, StoreInv, StoreTypes
<1>4. CASE UNCHANGED OS!vars
  BY <1>1, <1>4 DEF OS!vars, StoreInv, StoreTypes
<1> QED BY <1>2, <1>3, <1>4, BeginStep, ProbeStep, RequestStep, RestartStep DEF OS!Next

\* What reaches the store replaces nothing, but where its bench set conditional_writes off and had looked.
LEMMA Additive ==
  ASSUME StoreInv, NEW b \in OS!Benches, osCall[b].at = "request", OS!Reaches(b), NEW k \in OS!Keys,
         osBucket'[k] # osBucket[k]
  PROVE  /\ osCall[b].key = k /\ osSet[b].mode = "push"
         /\ osBucket[k] # OS!None => osBucket'[k] = <<"bench", osCall[b].id>> /\ OS!Unseen(b)
<1>1. BenchOk(b) /\ osCall[b] \in CallRecords
  BY DEF StoreInv, StoreTypes
<1>2. osCall[b].op \in OS!Writes /\ osSet[b].mode = "push" /\ Heads(osCall[b], osSet[b]) /\
          Looked(osCall[b], osSet[b])
  BY <1>1 DEF BenchOk, CallOk
<1>3. osCall[b].op \notin OS!Deletes
  BY <1>2 DEF OS!Writes, OS!Deletes
<1>4. /\ osCall[b].op \in OS!Commits
      /\ ~(osCall[b].header /\ (~osStore.honours \/ osBucket[osCall[b].key] # OS!None))
      /\ osBucket' = [osBucket EXCEPT ![osCall[b].key] = <<"bench", osCall[b].id>>]
  BY <1>3 DEF OS!Reaches
<1>5. osCall[b].key = k /\ (osBucket'[k] = <<"bench", osCall[b].id>> \/ osBucket'[k] = osBucket[k])
  BY <1>4
<1>6. osBucket[k] # OS!None => ~osSet[b].cond
  BY <1>2, <1>4, <1>5 DEF Heads, OS!Commits, OS!Conditional
<1>7. ~osSet[b].cond => OS!Unseen(b)
  BY <1>1, <1>2, <1>4 DEF BenchOk, CallOk, UploadOk, Looked, OS!Unseen, OS!Commits, OS!CreatesKey
<1> QED BY <1>2, <1>5, <1>6, <1>7

LEMMA BucketKept == StoreInv /\ [OS!Next]_OS!vars => OS!BucketStep
<1> SUFFICES ASSUME StoreInv, [OS!Next]_OS!vars, osProds' = osProds, NEW k \in OS!Keys,
      osBucket'[k] # osBucket[k]
             PROVE  /\ osBucket[k] # OS!None =>
                         \E b \in OS!Benches : osCall[b].at = "request" /\ osCall[b].key = k
                                               /\ osBucket'[k] = <<"bench", osCall[b].id>> /\ OS!Unseen(b)
                    /\ \E b \in OS!Benches : osCall[b].at = "request" /\ osCall[b].key = k /\ osSet[b].mode = "push"
  BY DEF OS!BucketStep, OS!AdditiveStep, OS!LocalStep
<1>1. PICK b \in OS!Benches : OS!Request(b) \/ OS!Resend(b)
  <2>1. ~(\E x \in OS!Keys : OS!Production(x))
    <3>1. osProds \in Nat /\ osProds + 1 # osProds
      BY DEF StoreInv, StoreTypes
    <3> QED BY <3>1 DEF OS!Production
  <2> QED BY <2>1 DEF OS!Next, OS!vars, OS!Begin, OS!Probe, OS!Restart
<1>2. osCall[b].at = "request" /\ OS!Reaches(b)
  BY <1>1 DEF OS!Request, OS!Resend
<1> QED BY <1>2, Additive

\* In a store that honours If-None-Match, or for a key that was looked for first, a bench never writes
\* over an object of production; and none that is in local mode writes at all.
THEOREM BucketKeepsAll == OS!Spec => [][OS!BucketStep]_OS!vars
<1>1. OS!Spec => []StoreInv
  BY StoreInit, StoreStep, PTL DEF OS!Spec
<1> QED BY <1>1, BucketKept, PTL DEF OS!Spec
=============================================================================
