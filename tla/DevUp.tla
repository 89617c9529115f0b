------------------------------- MODULE DevUp --------------------------------
(***************************************************************************)
(* `devenv up` of a development bench in socket mode with the runtime on:  *)
(* the processes and the frappe:config task of modules/devenv.nix, their   *)
(* readiness latches, and lib/mariadbd-wrapper.nix.                        *)
(*                                                                         *)
(* process-compose starts a process when everything in its `after` has     *)
(* been ready once, and reads each dependency's health once, at that       *)
(* moment: one that was ready and whose latest probe failed makes the      *)
(* dependent Skipped for good. So a probe that has passed leaves a latch,  *)
(* keyed to the start it passed in, and passes on it from then on. Every   *)
(* wrapper runs frappe:config on its own, side by side.                    *)
(***************************************************************************)
EXTENDS Integers, FiniteSets

CONSTANTS
  Wrappers,    \* the processes whose devenv-tasks wrapper runs frappe:config
  WebPorts,    \* the web ports a lease may come to
  NoPort,      \* no port
  Committed,   \* the port in the committed common_site_config.json
  Mortal,      \* the processes that may end by themselves
  MaxUps,      \* `devenv up` runs
  MaxDeaths    \* processes that end by themselves in a session, once each

Stamped  == {"ports", "mailpit", "runtime"}   \* latched on a stamp of their exec
OnSocket == {"redis", "mysql"}                \* latched on the socket they listen on
Procs    == Stamped \cup OnSocket \cup {"nginx"}
Probed   == Stamped \cup OnSocket             \* the ones another waits for

ASSUME ConstantsAssumption ==
  /\ "runtime" \in Wrappers /\ Wrappers \subseteq Procs
  /\ Committed \in WebPorts /\ NoPort \notin WebPorts
  /\ Mortal \subseteq Procs
  /\ MaxUps \in Nat /\ MaxDeaths \in Nat

After ==
  [p \in Procs |-> CASE p = "mailpit" -> {"ports"}
                     [] p = "runtime" -> {"redis", "mysql", "mailpit"}
                     [] p = "nginx"   -> {"ports", "runtime"}
                     [] OTHER         -> {}]
NeedsConfig == {"runtime"}

VARIABLES
  on,      \* process-compose runs
  ups,     \* `devenv up` runs so far
  run,     \* run[p]: where process p is
  key,     \* key[p]: its stamp or socket, and whether a latch is kept for it
  health,  \* health[p]: what process-compose knows of this start of p
  sure,    \* sure[p]: a probe that read this start's key has passed (history)
  died,    \* the processes that ended by themselves in this session (history)
  orphan,  \* a mariadbd of an earlier session still has the datadir
  lease,   \* the web port in the ports.json of the holder that is up
  bound,   \* bound[p]: the port p serves on
  task,    \* task[w]: where the frappe:config of wrapper w is
  tport,   \* tport[w]: the port it read
  config,  \* webserver_port and socketio_port in common_site_config.json
  guard,   \* the port in devguard-runtime.json
  boot     \* the port in the bootinfo cached in Redis, which outlives sessions

procVars == <<run, health, sure, died, lease, bound>>
taskVars == <<task, tport, config, guard>>
vars == <<on, ups, procVars, key, orphan, taskVars, boot>>

Running(p) == run[p] \in {"exec", "start", "up"}

Init ==
  /\ on = FALSE /\ ups = 0
  /\ run = [p \in Procs |-> "off"]
  /\ key \in [Procs -> {"none", "there", "latched"}]
  /\ key["nginx"] = "none" /\ \A p \in Stamped : key[p] # "there"
  /\ health = [p \in Probed |-> "none"]
  /\ sure = [p \in Probed |-> FALSE]
  /\ died = {}
  /\ orphan \in BOOLEAN
  /\ lease = NoPort
  /\ bound = [p \in {"mailpit", "nginx"} |-> NoPort]
  /\ task = [w \in Wrappers |-> "off"]
  /\ tport = [w \in Wrappers |-> NoPort]
  /\ config = Committed
  /\ guard = NoPort
  /\ boot \in {NoPort, config}

-----------------------------------------------------------------------------
(***************************************************************************)
(* The session.                                                            *)
(***************************************************************************)
\* rm -rf of the latch directory: stamps and latches; a socket is elsewhere.
Unlatched ==
  [p \in Procs |-> IF p \in OnSocket /\ key[p] # "none" THEN "there" ELSE "none"]

UpKeepsLatches ==
  /\ ~on /\ ups < MaxUps
  /\ on' = TRUE /\ ups' = ups + 1
  /\ run' = [p \in Procs |-> "wait"]
  /\ task' = [w \in Wrappers |-> "wait"]
  /\ UNCHANGED <<key, health, sure, died, orphan, lease, bound, tport,
                 config, guard, boot>>

\* The lease is not up and the dry run found one to be had.
Up ==
  /\ ~on /\ ups < MaxUps
  /\ on' = TRUE /\ ups' = ups + 1
  /\ key' = Unlatched
  /\ run' = [p \in Procs |-> "wait"]
  /\ task' = [w \in Wrappers |-> "wait"]
  /\ UNCHANGED <<health, sure, died, orphan, lease, bound, tport,
                 config, guard, boot>>

\* A second `devenv up` before the first one's lease is published: it takes the
\* bench for stopped, clears the latches, and then finds the manager running.
Again ==
  /\ on /\ lease = NoPort
  /\ key' = Unlatched
  /\ sure' = [p \in Probed |-> FALSE]
  /\ UNCHANGED <<on, ups, run, health, died, orphan, lease, bound, taskVars, boot>>

EndedLeavesNginx ==
  /\ on' = FALSE
  /\ run' = [p \in Procs |-> IF p = "nginx" THEN run[p] ELSE "off"]
  /\ health' = [p \in Probed |-> "none"]
  /\ sure' = [p \in Probed |-> FALSE]
  /\ died' = {} /\ orphan' = orphan
  /\ lease' = NoPort
  /\ bound' = [p \in {"mailpit", "nginx"} |-> NoPort]
  /\ task' = [w \in Wrappers |-> "off"]
  /\ tport' = [w \in Wrappers |-> NoPort]

\* Everything of the session ends, by Ctrl-C, a kill or a lease that is refused
\* or lost (exit_on_failure); a wedged mariadbd may stay.
Ended ==
  /\ on' = FALSE
  /\ run' = [p \in Procs |-> "off"]
  /\ health' = [p \in Probed |-> "none"]
  /\ sure' = [p \in Probed |-> FALSE]
  /\ died' = {}
  /\ orphan' \in {orphan, orphan \/ run["mysql"] = "up"}
  /\ lease' = NoPort
  /\ bound' = [p \in {"mailpit", "nginx"} |-> NoPort]
  /\ task' = [w \in Wrappers |-> "off"]
  /\ tport' = [w \in Wrappers |-> NoPort]

Down ==
  /\ on
  /\ Ended
  /\ UNCHANGED <<ups, key, config, guard, boot>>

-----------------------------------------------------------------------------
(***************************************************************************)
(* A process: it waits, is launched or skipped, and comes to serve.        *)
(***************************************************************************)
TaskDone(p) == p \in NeedsConfig => task[p] = "done"

\* waitUntilReady, of all it waits for, and then the one reading of each.
Launch(p) ==
  /\ run[p] = "wait" /\ TaskDone(p)
  /\ \A d \in After[p] : health[d] # "none"
  /\ run' = [run EXCEPT ![p] =
               IF \A d \in After[p] : health[d] = "ready" THEN "exec" ELSE "skipped"]
  /\ UNCHANGED <<on, ups, key, health, sure, died, orphan, lease, bound,
                 taskVars, boot>>

\* What it waits for will not come: skipped itself, or a task that failed.
GiveUp(p) ==
  /\ run[p] = "wait"
  /\ \/ \E d \in After[p] : run[d] = "skipped"
     \/ p \in NeedsConfig /\ task[p] = "failed"
  /\ run' = [run EXCEPT ![p] = "skipped"]
  /\ UNCHANGED <<on, ups, key, health, sure, died, orphan, lease, bound,
                 taskVars, boot>>

\* A key made afresh, or removed: no latch is kept for it.
NewKey(p, k) == key' = [key EXCEPT ![p] = k]

\* startStamp, the first thing the exec does.
Stamp(p) ==
  /\ run[p] = "exec" /\ p \in Stamped
  /\ NewKey(p, "there")
  /\ run' = [run EXCEPT ![p] = "start"]
  /\ UNCHANGED <<on, ups, health, sure, died, orphan, lease, bound, taskVars, boot>>

ReapNothing ==
  /\ run["mysql"] = "exec"
  /\ NewKey("mysql", "none")
  /\ run' = [run EXCEPT !["mysql"] = "start"]
  /\ UNCHANGED <<on, ups, health, sure, died, orphan, lease, bound, taskVars, boot>>

\* mariadbd-reap: the orphan goes, by SIGTERM or else SIGKILL, and then the
\* socket it or a killed predecessor left.
Reap ==
  /\ run["mysql"] = "exec"
  /\ orphan' = FALSE
  /\ NewKey("mysql", "none")
  /\ run' = [run EXCEPT !["mysql"] = "start"]
  /\ UNCHANGED <<on, ups, health, sure, died, lease, bound, taskVars, boot>>

Serving(p) == run' = [run EXCEPT ![p] = "up"]

\* frappe-ports has leased and published. It may refuse instead: Down.
Lease ==
  /\ run["ports"] = "start"
  /\ lease' \in WebPorts
  /\ Serving("ports")
  /\ UNCHANGED <<on, ups, key, health, sure, died, orphan, bound, taskVars, boot>>

\* The socket is made afresh; Redis unlinks an old one itself.
ServeRedis ==
  /\ run["redis"] = "exec"
  /\ NewKey("redis", "there")
  /\ Serving("redis")
  /\ UNCHANGED <<on, ups, health, sure, died, orphan, lease, bound, taskVars, boot>>

ServeMysql ==
  /\ run["mysql"] = "start"
  /\ ~orphan
  /\ NewKey("mysql", "there")
  /\ Serving("mysql")
  /\ UNCHANGED <<on, ups, health, sure, died, orphan, lease, bound, taskVars, boot>>

ServeRuntime ==
  /\ run["runtime"] = "start"
  /\ Serving("runtime")
  /\ UNCHANGED <<on, ups, key, health, sure, died, orphan, lease, bound,
                 taskVars, boot>>

\* Mailpit and nginx serve on what ports.json and the nginx.conf beside it say.
ServeOnLease(p) ==
  /\ run[p] = IF p = "nginx" THEN "exec" ELSE "start"
  /\ bound' = [bound EXCEPT ![p] = lease]
  /\ Serving(p)
  /\ UNCHANGED <<on, ups, key, health, sure, died, orphan, lease, taskVars, boot>>

\* It ends by itself and is started again, which reads what it waits for again
\* and no task. A socket server may leave its socket or take it along.
DieRestartsPorts(p) ==
  /\ Running(p) /\ p \notin died /\ Cardinality(died) < MaxDeaths
  /\ run' = [run EXCEPT ![p] = "wait"]
  /\ died' = died \cup {p}
  /\ lease' = IF p = "ports" THEN NoPort ELSE lease
  /\ IF p \in Probed
     THEN /\ health' = [health EXCEPT ![p] = "none"]
          /\ sure' = [sure EXCEPT ![p] = FALSE]
     ELSE UNCHANGED <<health, sure>>
  /\ UNCHANGED <<on, ups, key, orphan, bound, taskVars, boot>>

Die(p) ==
  /\ Running(p) /\ p \in Mortal \ {"ports"}
  /\ p \notin died /\ Cardinality(died) < MaxDeaths
  /\ run' = [run EXCEPT ![p] = "wait"]
  /\ died' = died \cup {p}
  /\ IF p \in OnSocket
     THEN key' \in {key, [key EXCEPT ![p] = "none"]}
     ELSE key' = key
  /\ IF p \in Probed
     THEN /\ health' = [health EXCEPT ![p] = "none"]
          /\ sure' = [sure EXCEPT ![p] = FALSE]
     ELSE UNCHANGED <<health, sure>>
  /\ UNCHANGED <<on, ups, orphan, lease, bound, taskVars, boot>>

-----------------------------------------------------------------------------
(***************************************************************************)
(* The probes, a period apart: the key is read first, its latch next, and  *)
(* only without one the process itself is asked. A probe that fails before *)
(* any has passed changes nothing.                                         *)
(***************************************************************************)
ProbeLatched(p) ==
  /\ Running(p) /\ key[p] = "latched" /\ health[p] # "ready"
  /\ health' = [health EXCEPT ![p] = "ready"]
  /\ UNCHANGED <<on, ups, run, key, sure, died, orphan, lease, bound, taskVars, boot>>

\* The first to pass may have read the key before this start made it, and then
\* leaves its latch for nothing.
OwnKey(p) == IF health[p] = "none" THEN BOOLEAN ELSE {TRUE}

ProbePassUnlatched(p) ==
  /\ run[p] = "up" /\ key[p] # "latched"
  /\ health' = [health EXCEPT ![p] = "ready"]
  /\ \E own \in OwnKey(p) : sure' = [sure EXCEPT ![p] = own /\ key[p] = "there"]
  /\ UNCHANGED <<on, ups, run, key, died, orphan, lease, bound, taskVars, boot>>

ProbePass(p) ==
  /\ run[p] = "up" /\ key[p] # "latched"
  /\ health' = [health EXCEPT ![p] = "ready"]
  /\ \E own \in OwnKey(p) :
       IF own /\ key[p] = "there"
       THEN key' = [key EXCEPT ![p] = "latched"] /\ sure' = [sure EXCEPT ![p] = TRUE]
       ELSE UNCHANGED <<key, sure>>
  /\ UNCHANGED <<on, ups, run, died, orphan, lease, bound, taskVars, boot>>

\* The host is too busy to answer in time.
ProbeFail(p) ==
  /\ Running(p) /\ key[p] # "latched" /\ health[p] = "ready"
  /\ health' = [health EXCEPT ![p] = "failed"]
  /\ UNCHANGED <<on, ups, run, key, sure, died, orphan, lease, bound, taskVars, boot>>

-----------------------------------------------------------------------------
(***************************************************************************)
(* frappe:config, in the wrapper w.                                        *)
(***************************************************************************)
GotoTask(w, state) == task' = [task EXCEPT ![w] = state]

\* The lease is up: its port, and devguard-runtime.json in one rename.
TaskRead(w) ==
  /\ task[w] = "wait" /\ lease # NoPort
  /\ tport' = [tport EXCEPT ![w] = lease]
  /\ guard' = lease
  /\ GotoTask(w, "compare")
  /\ UNCHANGED <<on, ups, procVars, key, orphan, config, boot>>

\* The deadline has passed without a lease. The clock is not modelled.
TaskLate(w) ==
  /\ task[w] = "wait" /\ lease = NoPort
  /\ GotoTask(w, "failed")
  /\ UNCHANGED <<on, ups, procVars, key, orphan, tport, config, guard, boot>>

TaskCompare(w) ==
  /\ task[w] = "compare"
  /\ GotoTask(w, IF config = tport[w] THEN "done" ELSE "move")
  /\ UNCHANGED <<on, ups, procVars, key, orphan, tport, config, guard, boot>>

TaskMove(w) ==
  /\ task[w] = "move"
  /\ config' = tport[w]
  /\ GotoTask(w, "clear")
  /\ UNCHANGED <<on, ups, procVars, key, orphan, tport, guard, boot>>

\* The scan of a Redis that does not answer finds no key, and that is no error.
TaskClear(w) ==
  /\ task[w] = "clear"
  /\ boot' = IF run["redis"] = "up" THEN NoPort ELSE boot
  /\ GotoTask(w, "done")
  /\ UNCHANGED <<on, ups, procVars, key, orphan, tport, config, guard>>

\* A session's bootinfo, built from the config where none is cached (Frappe's).
CacheBoot ==
  /\ run["runtime"] = "up" /\ run["redis"] = "up"
  /\ boot = NoPort
  /\ boot' = config
  /\ UNCHANGED <<on, ups, procVars, key, orphan, taskVars>>

-----------------------------------------------------------------------------
ProcStep(p) ==
  \/ Launch(p) \/ GiveUp(p) \/ Stamp(p)
  \/ p = "mysql" /\ (Reap \/ ServeMysql)
  \/ p = "ports" /\ Lease
  \/ p = "redis" /\ ServeRedis
  \/ p = "runtime" /\ ServeRuntime
  \/ p \in {"mailpit", "nginx"} /\ ServeOnLease(p)

TaskStep(w) ==
  TaskRead(w) \/ TaskLate(w) \/ TaskCompare(w) \/ TaskMove(w) \/ TaskClear(w)

Next ==
  \/ Up \/ Again \/ Down
  \/ \E p \in Procs : ProcStep(p) \/ Die(p)
  \/ \E p \in Probed : ProbeLatched(p) \/ ProbePass(p) \/ ProbeFail(p)
  \/ \E w \in Wrappers : TaskStep(w)
  \/ CacheBoot

Spec == Init /\ [][Next]_vars

\* process-compose goes on starting and probing, a task runs on to its end, and
\* a host is not too busy for a probe of what answers each time it is asked.
\* Nobody need ever bring the bench up or down, and nothing need die.
FairSpec ==
  /\ Spec
  /\ \A p \in Procs : WF_vars(ProcStep(p))
  /\ \A p \in Probed : /\ WF_vars(ProbeLatched(p))
                       /\ SF_vars(ProbePass(p))
  /\ \A w \in Wrappers : WF_vars(TaskStep(w))

-----------------------------------------------------------------------------
(***************************************************************************)
(* Properties.                                                             *)
(***************************************************************************)
\* Every variable keeps its type, and a process runs only in a session.
TypeOK ==
  /\ on \in BOOLEAN /\ ups \in 0 .. MaxUps
  /\ run \in [Procs -> {"off", "wait", "exec", "start", "up", "skipped"}]
  /\ ~on => run = [p \in Procs |-> "off"]
  /\ key \in [Procs -> {"none", "there", "latched"}]
  /\ health \in [Probed -> {"none", "ready", "failed"}]
  /\ sure \in [Probed -> BOOLEAN]
  /\ died \subseteq Procs
  /\ orphan \in BOOLEAN
  /\ lease \in WebPorts \cup {NoPort}
  /\ bound \in [{"mailpit", "nginx"} -> WebPorts \cup {NoPort}]
  /\ task \in [Wrappers -> {"off", "wait", "compare", "move", "clear", "done", "failed"}]
  /\ tport \in [Wrappers -> WebPorts \cup {NoPort}]
  /\ config \in WebPorts /\ guard \in WebPorts \cup {NoPort}
  /\ boot \in WebPorts \cup {NoPort}

\* What a busy host must not do: once a probe that read a process's own key
\* has passed, no later probe of that start, however slow, gets a process that
\* waits for it skipped, be it at the first start of that one or at a restart.
NoneSkipped ==
  [][\A p \in Procs : run[p] # "skipped" /\ run'[p] = "skipped" =>
       \/ \E d \in After[p] : ~sure[d] \/ run[d] = "skipped"
       \/ p \in NeedsConfig /\ task[p] = "failed"]_vars

\* What an earlier session left, sockets and latches and an orphaned server,
\* passes for nobody: a process that has not died in this session is ready only
\* when it serves, and what was launched after it was launched for real.
ReadyMeansServing ==
  \A p \in Probed : health[p] # "none" /\ p \notin died => run[p] = "up"

\* All that knows the bench's ports knows those of the one lease that is up, in
\* whatever order the wrappers of one session ran their copies of the task and
\* whichever processes died: nginx, Mailpit, the site config and the mail guard.
ServesTheLease ==
  /\ \A p \in {"mailpit", "nginx"} : run[p] = "up" => bound[p] = lease /\ lease # NoPort
  /\ run["runtime"] = "up" => config = lease /\ guard = lease

\* What counts as up is up, and on the lease.
UpForReal == ReadyMeansServing /\ ServesTheLease

\* A bench that is brought up comes to answer on its port, over an orphan that
\* has the datadir and probes that time out, unless it is stopped or one of its
\* processes is skipped.
ComesUp ==
  on ~> (run["nginx"] = "up" \/ ~on \/ \E p \in Procs : run[p] = "skipped")

\* The same as a state: where nothing of a session can go on by itself any more,
\* the bench answers or something was skipped. Nothing waits on nothing.
Going ==
  \/ \E p \in Procs : ProcStep(p)
  \/ \E p \in Probed : ProbeLatched(p) \/ ProbePass(p)
  \/ \E w \in Wrappers : TaskStep(w)

RestsUp ==
  on /\ ~ENABLED Going => run["nginx"] = "up" \/ \E p \in Procs : run[p] = "skipped"

\* devenv.nix: once a probe has succeeded it keeps succeeding until the process
\* starts again. Not so for a pass whose key was read before there was one.
StaysPassed ==
  [][\A p \in Probed : health[p] = "ready" => health'[p] # "failed"]_vars

\* devenv.nix: a restart means a new key, so it is probed again for real. Not
\* so for a Redis that was killed: its socket, latched, is there until it binds.
RestartProbed == \A p \in Probed : health[p] = "ready" => run[p] = "up"

\* devenv.nix: frappe:config clears the cached bootinfo so that browsers pick up
\* the new port. Not so where its copy in frappe-ports' wrapper gets there
\* before Redis listens: the copies after it find nothing to write.
BootFollows ==
  run["runtime"] = "up" /\ (\A w \in Wrappers : task[w] \notin {"move", "clear"})
    => boot \in {NoPort, config}
=============================================================================
