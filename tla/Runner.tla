------------------------------- MODULE Runner -------------------------------
(***************************************************************************)
(* The life of one frappe-runtime process: runtime's runner.py. The main   *)
(* thread boots, serves, drains, waits for the jobs and then exits or      *)
(* execs itself. Beside it run the job threads, the scheduler's thread,    *)
(* the restart watch and, with --dev, the source watch. Signals run        *)
(* Runner.drain on the main thread, between any two of its steps.          *)
(*                                                                         *)
(* uvicorn and rq are modelled by what the runner needs of them. Time is   *)
(* left out: a wait that has a limit may reach it whenever it waits.       *)
(***************************************************************************)
EXTENDS Integers, FiniteSets, Sequences

CONSTANTS
  Threads,       \* the job threads
  Jobs,          \* jobs that are queued in Redis
  Requests,      \* web requests that come in
  Limit,         \* --restart-after-requests and --restart-after-jobs, 0: never
  Idle,          \* --restart-idle-seconds is not 0
  Dev,           \* --dev
  RedisFails,    \* Redis may be away when a thread makes its worker
  Contended,     \* others take the scheduler's lock, or break its file
  Overlap,       \* a signal may come while the handler of another runs
  MaxSignals,    \* bound: signals sent from outside
  MaxExecs,      \* bound: re-execs
  MaxEdits,      \* bound: changes of an app's source
  NoJob

ASSUME RunnerAssumption ==
  /\ Limit \in Nat /\ Idle \in BOOLEAN /\ Dev \in BOOLEAN
  /\ {RedisFails, Contended, Overlap} \subseteq BOOLEAN
  /\ MaxSignals \in Nat /\ MaxExecs \in Nat /\ MaxEdits \in Nat
  /\ NoJob \notin Jobs
  /\ IsFiniteSet(Threads) /\ IsFiniteSet(Requests) /\ IsFiniteSet(Jobs)

VARIABLES
  main,        \* where the main thread is
  handlers,    \* the calls of drain on its stack, the innermost first
  draining, restarting, shouldExit, forceExit,
  over,        \* the drains whose time ran out in this process image
  tpc,         \* tpc[t]: where job thread t is
  stopping,    \* stopping[t]: JobThread.stopping
  told,        \* told[t]: _stop_requested of the worker in JobThread.worker
  hand,        \* hand[t]: the job t has dequeued
  job,         \* job[j]: queued, held, done or lost
  req,         \* req[r]: new, open, done or cut
  counts,      \* Traffic.counts
  watch,       \* where the restart watch is
  stale,       \* the source on disk is not the code that was loaded
  watching,    \* the source watch observes the apps
  fired,       \* SourceWatch.fired
  timer,       \* its timer has not run out
  sched,       \* where the scheduler's thread is
  schedLock,   \* config/scheduler_process: free, us, other or broken
  sent, execs, edits,
  exitAsked    \* drain was called with an exit signal (history)

handlerVars == <<handlers, draining, restarting, shouldExit, forceExit, exitAsked>>
threadVars  == <<tpc, stopping, told, hand, job>>
sourceVars  == <<stale, watching, fired, timer>>
schedVars   == <<sched, schedLock>>
bounds      == <<sent, execs, edits>>
vars == <<main, over, handlerVars, threadVars, req, counts, watch, sourceVars, schedVars, bounds>>

Exits    == {"TERM", "INT"}
Signals  == Exits \cup {"HUP"}
Ended    == main \in {"exited", "killed"}
Loop     == {"poll", "block", "got", "run"}
Gone     == {"ended", "dead"}
InFlight == {r \in Requests : req[r] = "open"} \cup {t \in Threads : tpc[t] = "run"}
NoWork   == [web |-> 0, realtime |-> 0, jobs |-> 0]

\* The main thread runs its own code only when no handler is on its stack.
At(place) == main = place /\ handlers = <<>>

-----------------------------------------------------------------------------
\* A fresh process image, as main() finds it: all that survives an exec is
\* outside it.
Fresh ==
  /\ main' = "boot" /\ handlers' = <<>>
  /\ draining' = FALSE /\ restarting' = FALSE
  /\ shouldExit' = FALSE /\ forceExit' = FALSE /\ exitAsked' = FALSE
  /\ over' = {}
  /\ tpc' = [t \in Threads |-> "unborn"]
  /\ stopping' = [t \in Threads |-> FALSE]
  /\ told' = [t \in Threads |-> FALSE]
  /\ hand' = [t \in Threads |-> NoJob]
  /\ counts' = NoWork /\ watch' = "off"
  /\ watching' = FALSE /\ fired' = FALSE /\ timer' = FALSE
  /\ sched' = "off"

Init ==
  /\ main = "boot" /\ handlers = <<>>
  /\ draining = FALSE /\ restarting = FALSE
  /\ shouldExit = FALSE /\ forceExit = FALSE /\ exitAsked = FALSE
  /\ over = {}
  /\ tpc = [t \in Threads |-> "unborn"]
  /\ stopping = [t \in Threads |-> FALSE]
  /\ told = [t \in Threads |-> FALSE]
  /\ hand = [t \in Threads |-> NoJob]
  /\ job = [j \in Jobs |-> "queued"]
  /\ req = [r \in Requests |-> "new"]
  /\ counts = NoWork /\ watch = "off"
  /\ stale = FALSE /\ watching = FALSE /\ fired = FALSE /\ timer = FALSE
  /\ sched = "off" /\ schedLock \in IF Contended THEN {"free", "other", "broken"} ELSE {"free"}
  /\ sent = 0 /\ execs = 0 /\ edits = 0

\* What a process takes with it when it goes: the jobs its threads have, the
\* requests it has not answered, the lock on the scheduler's file.
Drop ==
  /\ job' = [j \in Jobs |-> IF \E t \in Threads : hand[t] = j THEN "lost" ELSE job[j]]
  /\ req' = [r \in Requests |-> IF req[r] = "open" THEN "cut" ELSE req[r]]
  /\ schedLock' = IF schedLock = "us" THEN "free" ELSE schedLock

(***************************************************************************)
(* The main thread: Runner.__init__ and Runner.run.                        *)
(***************************************************************************)
Load ==
  /\ At("boot")
  /\ main' = "loaded"
  /\ stale' = FALSE
  /\ UNCHANGED <<over, handlerVars, threadVars, req, counts, watch, watching, fired, timer,
                 schedVars, bounds>>

InstallHandlers ==
  /\ At("loaded")
  /\ main' = "installed"
  /\ UNCHANGED <<over, handlerVars, threadVars, req, counts, watch, sourceVars, schedVars, bounds>>

\* The watches, the job threads and the scheduler; then uvicorn. Out of inotify
\* watches, the source watch only says so.
StartThreads ==
  /\ At("installed")
  /\ main' = "serving"
  /\ watch' = IF Limit > 0 \/ Idle THEN "wait" ELSE "off"
  /\ watching' \in IF Dev THEN BOOLEAN ELSE {FALSE}
  /\ tpc' = [t \in Threads |-> "check"]
  /\ sched' = "try"
  /\ UNCHANGED <<over, handlerVars, stopping, told, hand, job, req, counts, stale, fired, timer,
                 schedLock, bounds>>

\* uvicorn's main loop ends, and it stops to accept requests.
LeaveLoop ==
  /\ At("serving") /\ shouldExit
  /\ main' = "closing"
  /\ UNCHANGED <<over, handlerVars, threadVars, req, counts, watch, sourceVars, schedVars, bounds>>

CloseWeb ==
  /\ At("closing")
  /\ forceExit \/ \A r \in Requests : req[r] # "open"
  /\ main' = "closed"
  /\ req' = [r \in Requests |-> IF req[r] = "open" THEN "cut" ELSE req[r]]
  /\ UNCHANGED <<over, handlerVars, threadVars, counts, watch, sourceVars, schedVars, bounds>>

RequestDrainOver ==
  /\ At("closing")
  /\ \E r \in Requests : req[r] = "open"
  /\ main' = "closed"
  /\ over' = over \cup {"requests"}
  /\ req' = [r \in Requests |-> IF req[r] = "open" THEN "cut" ELSE req[r]]
  /\ UNCHANGED <<handlerVars, threadVars, counts, watch, sourceVars, schedVars, bounds>>

\* BackgroundJobs.stop: a thread without a worker is told by its own flag.
JobsStop ==
  /\ stopping' = [t \in Threads |-> TRUE]
  /\ told' = [t \in Threads |-> TRUE]

StopJobsNoWait ==
  /\ At("closed")
  /\ main' = "deciding"
  /\ JobsStop
  /\ UNCHANGED <<over, handlerVars, tpc, hand, job, req, counts, watch, sourceVars, schedVars, bounds>>

StopJobs ==
  /\ At("closed")
  /\ main' = "waiting"
  /\ JobsStop
  /\ UNCHANGED <<over, handlerVars, tpc, hand, job, req, counts, watch, sourceVars, schedVars, bounds>>

JobsJoined ==
  /\ At("waiting")
  /\ \A t \in Threads : tpc[t] \in Gone
  /\ main' = "deciding"
  /\ UNCHANGED <<over, handlerVars, threadVars, req, counts, watch, sourceVars, schedVars, bounds>>

JobDrainOverNever == At("waiting") /\ FALSE

JobDrainOver ==
  /\ At("waiting")
  /\ \E t \in Threads : tpc[t] \notin Gone
  /\ main' = "deciding"
  /\ over' = over \cup {"jobs"}
  /\ UNCHANGED <<handlerVars, threadVars, req, counts, watch, sourceVars, schedVars, bounds>>

DecideRestart ==
  /\ At("deciding") /\ restarting
  /\ main' = "exec"
  /\ UNCHANGED <<over, handlerVars, threadVars, req, counts, watch, sourceVars, schedVars, bounds>>

\* run() returns; the daemon threads go with the process.
Exit ==
  /\ At("deciding") /\ ~restarting
  /\ main' = "exited"
  /\ Drop
  /\ UNCHANGED <<over, handlerVars, tpc, stopping, told, hand, counts, watch, sourceVars, sched,
                 bounds>>

Exec ==
  /\ At("exec") /\ execs < MaxExecs
  /\ execs' = execs + 1
  /\ Fresh /\ Drop
  /\ UNCHANGED <<stale, sent, edits>>

MainStep ==
  \/ Load \/ InstallHandlers \/ StartThreads \/ LeaveLoop \/ CloseWeb \/ RequestDrainOver
  \/ StopJobs \/ JobsJoined \/ JobDrainOver \/ DecideRestart \/ Exit \/ Exec

(***************************************************************************)
(* Signals. A handler runs between two steps of the main thread, and one   *)
(* handler between two steps of another.                                   *)
(***************************************************************************)
Handled == main \notin {"boot", "loaded", "exited", "killed"}

Deliver(sig) ==
  /\ Handled
  /\ Overlap \/ handlers = <<>>
  /\ handlers' = <<[sig |-> sig, at |-> "enter"]>> \o handlers

Send(sig) ==
  /\ sent < MaxSignals
  /\ sent' = sent + 1
  /\ Deliver(sig)
  /\ UNCHANGED <<main, over, draining, restarting, shouldExit, forceExit, exitAsked, threadVars,
                 req, counts, watch, sourceVars, schedVars, execs, edits>>

\* SIGKILL; and before the handlers are installed, any signal.
Kill ==
  /\ ~Ended
  /\ sent < MaxSignals
  /\ sent' = sent + 1
  /\ main' = "killed"
  /\ Drop
  /\ UNCHANGED <<over, handlerVars, tpc, stopping, told, hand, counts, watch, sourceVars, sched,
                 execs, edits>>

Handling(sig, place) ==
  handlers # <<>> /\ handlers[1].sig \in sig /\ handlers[1].at = place
Then(place) == handlers' = [handlers EXCEPT ![1].at = place]

\* An exit signal clears restarting, whatever came before.
ClearRestart ==
  /\ Handling(Exits, "enter")
  /\ restarting' = FALSE
  /\ exitAsked' = TRUE
  /\ Then("test")
  /\ UNCHANGED <<main, over, draining, shouldExit, forceExit, threadVars, req, counts, watch,
                 sourceVars, schedVars, bounds>>

AskRestartAlways ==
  /\ Handling({"HUP"}, "enter")
  /\ Then("restart")
  /\ UNCHANGED <<main, over, draining, restarting, shouldExit, forceExit, exitAsked, threadVars, req,
                 counts, watch, sourceVars, schedVars, bounds>>

\* SIGHUP asks for a restart only when the shutdown has not begun.
AskRestart ==
  /\ Handling({"HUP"}, "enter")
  /\ Then(IF draining THEN "test" ELSE "restart")
  /\ UNCHANGED <<main, over, draining, restarting, shouldExit, forceExit, exitAsked, threadVars, req,
                 counts, watch, sourceVars, schedVars, bounds>>

SetRestart ==
  /\ Handling({"HUP"}, "restart")
  /\ restarting' = TRUE
  /\ Then("test")
  /\ UNCHANGED <<main, over, draining, shouldExit, forceExit, exitAsked, threadVars, req, counts,
                 watch, sourceVars, schedVars, bounds>>

TestDraining ==
  /\ Handling(Signals, "test")
  /\ Then(IF draining THEN "web" ELSE "drain")
  /\ UNCHANGED <<main, over, draining, restarting, shouldExit, forceExit, exitAsked, threadVars, req,
                 counts, watch, sourceVars, schedVars, bounds>>

BeginDrain ==
  /\ Handling(Signals, "drain")
  /\ draining' = TRUE
  /\ JobsStop
  /\ Then("web")
  /\ UNCHANGED <<main, over, restarting, shouldExit, forceExit, exitAsked, tpc, hand, job, req,
                 counts, watch, sourceVars, schedVars, bounds>>

\* uvicorn's handle_exit: only a second SIGINT skips its wait for the requests.
StopWeb ==
  /\ Handling(Signals, "web")
  /\ shouldExit' = TRUE
  /\ forceExit' = (forceExit \/ (shouldExit /\ handlers[1].sig = "INT"))
  /\ handlers' = Tail(handlers)
  /\ UNCHANGED <<main, over, draining, restarting, exitAsked, threadVars, req, counts, watch,
                 sourceVars, schedVars, bounds>>

HandlerStep ==
  ~Ended /\ (\/ ClearRestart \/ AskRestart \/ SetRestart \/ TestDraining \/ BeginDrain \/ StopWeb)

(***************************************************************************)
(* Job threads: JobThread._work and ThreadedWorker.                        *)
(***************************************************************************)
Goto(t, place) == tpc' = [tpc EXCEPT ![t] = place]

\* The loop of _work: a stop that came ends it, else a new worker is made. The
\* worker that a stop would tell is still the last one, or none.
CheckStop(t) ==
  /\ tpc[t] = "check"
  /\ Goto(t, IF stopping[t] THEN "ended" ELSE "make")
  /\ UNCHANGED <<main, over, handlerVars, stopping, told, hand, job, req, counts, watch, sourceVars,
                 schedVars, bounds>>

MakeWorker(t) ==
  /\ tpc[t] = "make"
  /\ told' = [told EXCEPT ![t] = FALSE]
  /\ Goto(t, "poll")
  /\ UNCHANGED <<main, over, handlerVars, stopping, hand, job, req, counts, watch, sourceVars,
                 schedVars, bounds>>

\* The exception of a Redis that is away ends the thread.
WorkerFails(t) ==
  /\ RedisFails /\ tpc[t] = "make"
  /\ Goto(t, "dead")
  /\ UNCHANGED <<main, over, handlerVars, stopping, told, hand, job, req, counts, watch, sourceVars,
                 schedVars, bounds>>

\* StopRequested ends work(); otherwise one dequeue blocks.
Poll(t) ==
  /\ tpc[t] = "poll"
  /\ Goto(t, IF told[t] THEN "check" ELSE "block")
  /\ UNCHANGED <<main, over, handlerVars, stopping, told, hand, job, req, counts, watch, sourceVars,
                 schedVars, bounds>>

PollAgain(t) ==
  /\ tpc[t] = "block"
  /\ \A j \in Jobs : job[j] # "queued"
  /\ Goto(t, "poll")
  /\ UNCHANGED <<main, over, handlerVars, stopping, told, hand, job, req, counts, watch, sourceVars,
                 schedVars, bounds>>

Dequeue(t) ==
  /\ tpc[t] = "block"
  /\ \E j \in Jobs :
       /\ job[j] = "queued"
       /\ job' = [job EXCEPT ![j] = "held"]
       /\ hand' = [hand EXCEPT ![t] = j]
  /\ Goto(t, "got")
  /\ UNCHANGED <<main, over, handlerVars, stopping, told, req, counts, watch, sourceVars, schedVars,
                 bounds>>

BeginJob(t) ==
  /\ tpc[t] = "got"
  /\ Goto(t, "run")
  /\ UNCHANGED <<main, over, handlerVars, stopping, told, hand, job, req, counts, watch, sourceVars,
                 schedVars, bounds>>

FinishJobKeepsHand(t) ==
  /\ tpc[t] = "run"
  /\ job' = [job EXCEPT ![hand[t]] = "done"]
  /\ counts' = [counts EXCEPT !.jobs = @ + 1]
  /\ \E place \in {"poll", "check"} : Goto(t, place)
  /\ UNCHANGED <<main, over, handlerVars, stopping, told, hand, req, watch, sourceVars, schedVars, bounds>>

FinishJobQuits(t) ==
  /\ tpc[t] = "run"
  /\ job' = [job EXCEPT ![hand[t]] = "done"]
  /\ hand' = [hand EXCEPT ![t] = NoJob]
  /\ counts' = [counts EXCEPT !.jobs = @ + 1]
  /\ \E place \in {"poll", "ended"} : Goto(t, place)
  /\ UNCHANGED <<main, over, handlerVars, stopping, told, req, watch, sourceVars, schedVars, bounds>>

\* work() may return here: it has done RQ_MAX_JOBS jobs.
FinishJob(t) ==
  /\ tpc[t] = "run"
  /\ job' = [job EXCEPT ![hand[t]] = "done"]
  /\ hand' = [hand EXCEPT ![t] = NoJob]
  /\ counts' = [counts EXCEPT !.jobs = @ + 1]
  /\ \E place \in {"poll", "check"} : Goto(t, place)
  /\ UNCHANGED <<main, over, handlerVars, stopping, told, req, watch, sourceVars, schedVars, bounds>>

ThreadStep(t) ==
  /\ ~Ended
  /\ \/ CheckStop(t) \/ MakeWorker(t) \/ Poll(t) \/ PollAgain(t) \/ Dequeue(t)
     \/ BeginJob(t) \/ FinishJob(t)

(***************************************************************************)
(* Traffic, and the restart watch that reads it.                           *)
(***************************************************************************)
Accept(r) ==
  /\ main = "serving"
  /\ req[r] = "new"
  /\ req' = [req EXCEPT ![r] = "open"]
  /\ UNCHANGED <<main, over, handlerVars, threadVars, counts, watch, sourceVars, schedVars, bounds>>

\* Only a 2xx answer counts.
Answer(r) ==
  /\ main \in {"serving", "closing"}
  /\ req[r] = "open"
  /\ req' = [req EXCEPT ![r] = "done"]
  /\ \E ok \in {0, 1} : counts' = [counts EXCEPT !.web = @ + ok]
  /\ UNCHANGED <<main, over, handlerVars, threadVars, watch, sourceVars, schedVars, bounds>>

\* Only is_idle reads the count of realtime requests, and only whether it is 0.
Realtime ==
  /\ main = "serving" /\ Idle
  /\ counts.realtime = 0
  /\ counts' = [counts EXCEPT !.realtime = 1]
  /\ UNCHANGED <<main, over, handlerVars, threadVars, req, watch, sourceVars, schedVars, bounds>>

LimitReached == Limit > 0 /\ (counts.web >= Limit \/ counts.jobs >= Limit)
LongIdle     == Idle /\ counts # NoWork

WatchLook ==
  /\ ~Ended /\ watch = "wait"
  /\ draining \/ InFlight = {}
  /\ watch' = IF draining THEN "gone" ELSE "clear"
  /\ UNCHANGED <<main, over, handlerVars, threadVars, req, counts, sourceVars, schedVars, bounds>>

WatchPass ==
  /\ ~Ended /\ watch = "clear"
  /\ ~LimitReached
  /\ watch' = "wait"
  /\ UNCHANGED <<main, over, handlerVars, threadVars, req, counts, sourceVars, schedVars, bounds>>

WatchRestart ==
  /\ ~Ended /\ watch = "clear"
  /\ LimitReached \/ LongIdle
  /\ watch' = "gone"
  /\ Deliver("HUP")
  /\ UNCHANGED <<main, over, draining, restarting, shouldExit, forceExit, exitAsked, threadVars,
                 req, counts, sourceVars, schedVars, bounds>>

(***************************************************************************)
(* The source watch.                                                       *)
(***************************************************************************)
Edit ==
  /\ edits < MaxEdits
  /\ edits' = edits + 1
  /\ stale' = TRUE
  /\ IF watching /\ ~draining /\ ~fired
     THEN fired' = TRUE /\ timer' = TRUE
     ELSE UNCHANGED <<fired, timer>>
  /\ UNCHANGED <<main, over, handlerVars, threadVars, req, counts, watch, watching, schedVars, sent,
                 execs>>

ReloadOnlyIdle ==
  /\ ~Ended /\ timer
  /\ timer' = FALSE
  /\ IF draining \/ InFlight # {} THEN UNCHANGED handlers ELSE Deliver("HUP")
  /\ UNCHANGED <<main, over, draining, restarting, shouldExit, forceExit, exitAsked, threadVars,
                 req, counts, watch, stale, watching, fired, schedVars, bounds>>

Reload ==
  /\ ~Ended /\ timer
  /\ timer' = FALSE
  /\ IF draining THEN UNCHANGED handlers ELSE Deliver("HUP")
  /\ UNCHANGED <<main, over, draining, restarting, shouldExit, forceExit, exitAsked, threadVars,
                 req, counts, watch, stale, watching, fired, schedVars, bounds>>

(***************************************************************************)
(* The scheduler's thread, and who else has its lock file.                 *)
(***************************************************************************)
SchedTryOnce ==
  /\ ~Ended /\ sched = "try"
  /\ IF schedLock = "free"
     THEN sched' = "holds" /\ schedLock' = "us"
     ELSE sched' = "gone" /\ UNCHANGED schedLock
  /\ UNCHANGED <<main, over, handlerVars, threadVars, req, counts, watch, sourceVars, bounds>>

\* Locked by another it returns, broken it raises: either way it tries again.
SchedTry ==
  /\ ~Ended /\ sched = "try"
  /\ IF schedLock = "free"
     THEN sched' = "holds" /\ schedLock' = "us"
     ELSE sched' = "sleep" /\ UNCHANGED schedLock
  /\ UNCHANGED <<main, over, handlerVars, threadVars, req, counts, watch, sourceVars, bounds>>

SchedWake ==
  /\ ~Ended /\ sched = "sleep"
  /\ sched' = "try"
  /\ UNCHANGED <<main, over, handlerVars, threadVars, req, counts, watch, sourceVars, schedLock,
                 bounds>>

\* start_scheduler raises while it runs.
SchedRaises ==
  /\ ~Ended /\ sched = "holds"
  /\ sched' = "sleep" /\ schedLock' = "free"
  /\ UNCHANGED <<main, over, handlerVars, threadVars, req, counts, watch, sourceVars, bounds>>

\* A hand-run `bench schedule` comes or goes, the file is broken or repaired.
Elsewhere ==
  /\ Contended /\ schedLock # "us"
  /\ schedLock' \in IF schedLock = "free" THEN {"other", "broken"} ELSE {"free"}
  /\ UNCHANGED <<main, over, handlerVars, threadVars, req, counts, watch, sourceVars, sched, bounds>>

-----------------------------------------------------------------------------
Next ==
  \/ MainStep \/ HandlerStep
  \/ \E sig \in Signals : Send(sig)
  \/ Kill
  \/ \E t \in Threads : ThreadStep(t) \/ (~Ended /\ WorkerFails(t))
  \/ \E r \in Requests : Accept(r) \/ Answer(r)
  \/ Realtime \/ WatchLook \/ WatchPass \/ WatchRestart
  \/ Edit \/ Reload
  \/ SchedTry \/ SchedWake \/ SchedRaises \/ Elsewhere

Spec == Init /\ [][Next]_vars

\* Each thread of the process is scheduled, each wait with a limit reaches it,
\* rq's job timeout ends a job. No signal, request, edit or failure is promised.
FairSpec ==
  /\ Spec
  /\ WF_vars(MainStep) /\ WF_vars(HandlerStep)
  /\ \A t \in Threads : WF_vars(ThreadStep(t))
  /\ WF_vars(Reload) /\ WF_vars(SchedTry) /\ WF_vars(SchedWake)
-----------------------------------------------------------------------------
(***************************************************************************)
(* Properties.                                                             *)
(***************************************************************************)
Places == {"boot", "loaded", "installed", "serving", "closing", "closed", "waiting",
           "deciding", "exec", "exited", "killed"}
Frames == [sig : Signals, at : {"enter", "restart", "test", "drain", "web"}]

\* Every variable keeps its type, and a thread has a job at hand just between
\* its dequeue and its end.
TypeOK ==
  /\ main \in Places /\ handlers \in Seq(Frames)
  /\ {draining, restarting, shouldExit, forceExit, exitAsked} \subseteq BOOLEAN
  /\ over \subseteq {"requests", "jobs"}
  /\ tpc \in [Threads -> {"unborn", "check", "make"} \cup Loop \cup Gone]
  /\ stopping \in [Threads -> BOOLEAN] /\ told \in [Threads -> BOOLEAN]
  /\ hand \in [Threads -> Jobs \cup {NoJob}]
  /\ job \in [Jobs -> {"queued", "held", "done", "lost"}]
  /\ req \in [Requests -> {"new", "open", "done", "cut"}]
  /\ counts \in [web : Nat, realtime : {0, 1}, jobs : Nat]
  /\ watch \in {"off", "wait", "clear", "gone"}
  /\ {stale, watching, fired, timer} \subseteq BOOLEAN
  /\ sched \in {"off", "try", "holds", "sleep"}
  /\ schedLock \in {"free", "us", "other", "broken"}
  /\ sent \in 0 .. MaxSignals /\ execs \in 0 .. MaxExecs /\ edits \in 0 .. MaxEdits
  /\ \A t \in Threads : hand[t] # NoJob <=> tpc[t] \in {"got", "run"}

\* "An exit signal has more priority than SIGHUP. A SIGHUP that comes during the
\* shutdown must not start the process again": once drain has run for an exit
\* signal, in whatever order with SIGHUPs of an operator, of the restart watch
\* and of a reload, the runner does not decide for a re-exec.
ExitSignalWins == [][main = "deciding" /\ main' = "exec" => ~exitAsked]_vars

\* The same of the re-exec itself: the process a supervisor has told to stop does
\* not come back.
ExitSignalHeeded == [][main = "exec" /\ main' = "boot" => ~exitAsked]_vars

\* A graceful shutdown, a restart of the watches included, loses a job that was
\* dequeued only when the job drain's time ran out, and cuts a request that was
\* accepted only when the request drain's did or a second SIGINT forced it; else
\* only a process that was killed does.
NothingCutShort ==
  [][/\ \A j \in Jobs :
          job[j] # "lost" /\ job'[j] = "lost" => main' = "killed" \/ "jobs" \in over
     /\ \A r \in Requests :
          req[r] # "cut" /\ req'[r] = "cut" =>
            main' = "killed" \/ "requests" \in over' \/ forceExit]_vars

\* What a drain owes to whoever asked for it and to what it finds at work.
DrainIsTrue == ExitSignalWins /\ NothingCutShort

\* "Short polls make a stop request effective in some seconds": while the runner
\* waits for the job threads, each that still takes jobs has been told to stop.
StopHeard ==
  main = "waiting" => \A t \in Threads : tpc[t] \in Loop => told[t]

\* A drain that has begun ends, in an exit or a re-exec, whatever the requests
\* and the jobs in progress do.
DrainEnds == draining ~> (Ended \/ main = "exec")

\* While the process serves, a queued job is taken: the end of a worker that has
\* done its RQ_MAX_JOBS does not leave the process without one. Only Redis away
\* at the very moment each thread makes a worker does.
JobsTaken ==
  \A j \in Jobs :
    (job[j] = "queued" /\ main = "serving") ~>
      (job[j] # "queued" \/ main # "serving" \/ \A t \in Threads : tpc[t] = "dead")

\* A scheduler that found its lock taken or its file broken, or that raised,
\* comes back once nobody else has the lock any more.
SchedulerReturns ==
  <>[](schedLock \in {"free", "us"}) =>
    [](main = "serving" => <>(sched = "holds" \/ main # "serving"))

\* A change the source watch has seen is loaded, although the process may be
\* busy, and although it may be draining already.
EditReloads == fired ~> (~stale \/ Ended \/ main = "exec")

\* What a process does beside serving the web goes on, the jobs, the scheduler and the
\* watch, until a drain ends it, and the drain does end.
WorkGoesOn == JobsTaken /\ SchedulerReturns /\ EditReloads /\ DrainEnds
=============================================================================
