----------------------------- MODULE RunnerProofs -----------------------------
(***************************************************************************)
(* Proofs about frappe-runtime. First Runner, for any number of job        *)
(* threads, jobs, requests and signals, any limits, and with every fault   *)
(* on or off; then its realtime handlers (Presence).                       *)
(***************************************************************************)
EXTENDS Runner, Presence, SequenceTheorems, TLAPS

\* TypeOK, in the parts that the steps disturb.
MainTypes ==
  /\ main \in Places /\ over \subseteq {"requests", "jobs"}
  /\ watch \in {"off", "wait", "clear", "gone"}
  /\ sched \in {"off", "try", "holds", "sleep"}
  /\ schedLock \in {"free", "us", "other", "broken"}
  /\ sent \in 0 .. MaxSignals /\ execs \in 0 .. MaxExecs /\ edits \in 0 .. MaxEdits
  /\ counts \in [web : Nat, realtime : {0, 1}, jobs : Nat]
Flags ==
  /\ draining \in BOOLEAN /\ restarting \in BOOLEAN /\ shouldExit \in BOOLEAN
  /\ forceExit \in BOOLEAN /\ exitAsked \in BOOLEAN
  /\ stale \in BOOLEAN /\ watching \in BOOLEAN /\ fired \in BOOLEAN /\ timer \in BOOLEAN
ThreadTypes ==
  /\ tpc \in [Threads -> {"unborn", "check", "make"} \cup Loop \cup Gone]
  /\ stopping \in [Threads -> BOOLEAN] /\ told \in [Threads -> BOOLEAN]
WorkTypes ==
  /\ hand \in [Threads -> Jobs \cup {NoJob}]
  /\ job \in [Jobs -> {"queued", "held", "done", "lost"}]
  /\ req \in [Requests -> {"new", "open", "done", "cut"}]
AtHand == \A t \in Threads : hand[t] # NoJob <=> tpc[t] \in {"got", "run"}
Types  == MainTypes /\ Flags /\ handlers \in Seq(Frames) /\ ThreadTypes /\ WorkTypes /\ AtHand

\* A process goes behind the main thread's last waits, and those end with nothing in
\* progress or with their time run out.
Quiet ==
  /\ main \in {"boot", "loaded", "installed"} => \A t \in Threads : tpc[t] = "unborn"
  /\ main \in {"closed", "waiting", "deciding", "exec"} => \A r \in Requests : req[r] # "open"
  /\ main \in {"deciding", "exec"} => "jobs" \in over \/ \A t \in Threads : tpc[t] \in Gone

IInv == Types /\ Quiet

LEMMA TypesAre == Types <=> TypeOK
  BY Zenon DEF Types, TypeOK, MainTypes, Flags, ThreadTypes, WorkTypes, AtHand

-----------------------------------------------------------------------------
\* What a signal, a handler's step and its end do to the stack.
LEMMA StackSteps ==
  ASSUME handlers \in Seq(Frames)
  PROVE  /\ \A f \in Frames : <<f>> \o handlers \in Seq(Frames)
         /\ handlers # <<>> => Tail(handlers) \in Seq(Frames) /\ handlers[1] \in Frames
         /\ \A place \in {"enter", "restart", "test", "drain", "web"} :
              handlers # <<>> => [handlers EXCEPT ![1].at = place] \in Seq(Frames)
<1>1. \A f \in Frames : <<f>> \o handlers \in Seq(Frames)
  BY ConcatProperties, SMT
<1>2. ASSUME handlers # <<>>
      PROVE  Tail(handlers) \in Seq(Frames) /\ handlers[1] \in Frames /\ 1 \in DOMAIN handlers
  BY <1>2, HeadTailProperties, ElementOfSeq, EmptySeq, LenProperties, SMT
<1>3. ASSUME NEW place \in {"enter", "restart", "test", "drain", "web"}, handlers # <<>>
      PROVE  [handlers EXCEPT ![1].at = place] \in Seq(Frames)
  <2>1. [handlers[1] EXCEPT !.at = place] \in Frames
    BY <1>2, <1>3, SMT DEF Frames
  <2>2. [handlers EXCEPT ![1].at = place] = [handlers EXCEPT ![1] = [handlers[1] EXCEPT !.at = place]]
    BY <1>2, <1>3, SMT
  <2> QED
    BY <1>2, <1>3, <2>1, <2>2, ExceptSeq
<1> QED
  BY <1>1, <1>2, <1>3

LEMMA InitIInv == Init => IInv
<1> SUFFICES ASSUME Init PROVE IInv
  OBVIOUS
<1>1. Flags
  BY Zenon DEF Init, Flags
<1>2. MainTypes
  BY RunnerAssumption, SMT DEF Init, MainTypes, Places, NoWork
<1>3. ThreadTypes /\ handlers \in Seq(Frames)
  BY EmptySeq, SMT DEF Init, ThreadTypes
<1>4. WorkTypes /\ AtHand /\ Quiet
  BY SMT DEF Init, WorkTypes, AtHand, Quiet
<1> QED
  BY <1>1, <1>2, <1>3, <1>4 DEF IInv, Types

\* The main thread.
LEMMA MainStepKeeps ==
  ASSUME IInv, MainStep
  PROVE  IInv'
<1> USE DEF IInv, Types
<1>1. CASE Load
  <2>1. (handlers \in Seq(Frames))' /\ ThreadTypes' /\ WorkTypes' /\ AtHand'
    BY <1>1, SMT DEF Load, handlerVars, threadVars, ThreadTypes, WorkTypes, AtHand
  <2>2. MainTypes'
    BY <1>1, SMT DEF Load, schedVars, bounds, MainTypes, Places
  <2>3. Flags'
    BY <1>1, Zenon DEF Load, handlerVars, Flags
  <2>4. Quiet'
    BY <1>1, SMT DEF Load, threadVars, Quiet, At
  <2> QED
    BY <2>1, <2>2, <2>3, <2>4
<1>2. CASE InstallHandlers
  <2>1. Flags' /\ (handlers \in Seq(Frames))' /\ ThreadTypes' /\ WorkTypes' /\ AtHand'
    BY <1>2, SMT DEF InstallHandlers, handlerVars, threadVars, sourceVars, Flags,
        ThreadTypes, WorkTypes, AtHand
  <2>2. MainTypes'
    BY <1>2, SMT DEF InstallHandlers, schedVars, bounds, MainTypes, Places
  <2>3. Quiet'
    BY <1>2, SMT DEF InstallHandlers, threadVars, Quiet, At
  <2> QED
    BY <2>1, <2>2, <2>3
<1>3. CASE StartThreads
  <2>1. (handlers \in Seq(Frames))' /\ WorkTypes'
    BY <1>3, SMT DEF StartThreads, handlerVars, WorkTypes
  <2>2. MainTypes'
    BY <1>3, SMT DEF StartThreads, bounds, MainTypes, Places
  <2>3. Flags'
    BY <1>3, Zenon DEF StartThreads, handlerVars, Flags
  <2>4. ThreadTypes'
    BY <1>3, SMT DEF StartThreads, ThreadTypes, Loop, Gone
  <2>5. AtHand'
    BY <1>3, SMT DEF StartThreads, AtHand, ThreadTypes, Quiet, At
  <2>6. Quiet'
    BY <1>3, SMT DEF StartThreads, Quiet, At
  <2> QED
    BY <2>1, <2>2, <2>3, <2>4, <2>5, <2>6
<1>4. CASE LeaveLoop
  <2>1. Flags' /\ (handlers \in Seq(Frames))' /\ ThreadTypes' /\ WorkTypes' /\ AtHand'
    BY <1>4, SMT DEF LeaveLoop, handlerVars, threadVars, sourceVars, Flags, ThreadTypes,
        WorkTypes, AtHand
  <2>2. MainTypes'
    BY <1>4, SMT DEF LeaveLoop, schedVars, bounds, MainTypes, Places
  <2>3. Quiet'
    BY <1>4, SMT DEF LeaveLoop, threadVars, Quiet, At
  <2> QED
    BY <2>1, <2>2, <2>3
<1>5. CASE CloseWeb
  <2>1. Flags' /\ (handlers \in Seq(Frames))' /\ ThreadTypes' /\ AtHand'
    BY <1>5, SMT DEF CloseWeb, handlerVars, threadVars, sourceVars, Flags, ThreadTypes, AtHand
  <2>2. MainTypes'
    BY <1>5, SMT DEF CloseWeb, schedVars, bounds, MainTypes, Places
  <2>3. WorkTypes'
    BY <1>5, SMT DEF CloseWeb, threadVars, WorkTypes
  <2>4. Quiet'
    BY <1>5, SMT DEF CloseWeb, threadVars, Quiet, WorkTypes, At
  <2> QED
    BY <2>1, <2>2, <2>3, <2>4
<1>6. CASE RequestDrainOver
  <2>1. Flags' /\ (handlers \in Seq(Frames))' /\ ThreadTypes' /\ AtHand'
    BY <1>6, SMT DEF RequestDrainOver, handlerVars, threadVars, sourceVars, Flags,
        ThreadTypes, AtHand
  <2>2. MainTypes'
    BY <1>6, SMT DEF RequestDrainOver, schedVars, bounds, MainTypes, Places
  <2>3. WorkTypes'
    BY <1>6, SMT DEF RequestDrainOver, threadVars, WorkTypes
  <2>4. Quiet'
    BY <1>6, SMT DEF RequestDrainOver, threadVars, Quiet, WorkTypes, At
  <2> QED
    BY <2>1, <2>2, <2>3, <2>4
<1>7. CASE StopJobs
  <2>1. Flags' /\ (handlers \in Seq(Frames))' /\ WorkTypes' /\ AtHand'
    BY <1>7, SMT DEF StopJobs, JobsStop, handlerVars, sourceVars, Flags, WorkTypes, AtHand
  <2>2. MainTypes'
    BY <1>7, SMT DEF StopJobs, JobsStop, schedVars, bounds, MainTypes, Places
  <2>3. ThreadTypes'
    BY <1>7, SMT DEF StopJobs, JobsStop, ThreadTypes
  <2>4. Quiet'
    BY <1>7, SMT DEF StopJobs, JobsStop, Quiet, At
  <2> QED
    BY <2>1, <2>2, <2>3, <2>4
<1>8. CASE JobsJoined
  <2>1. Flags' /\ (handlers \in Seq(Frames))' /\ ThreadTypes' /\ WorkTypes' /\ AtHand'
    BY <1>8, SMT DEF JobsJoined, handlerVars, threadVars, sourceVars, Flags, ThreadTypes,
        WorkTypes, AtHand
  <2>2. MainTypes'
    BY <1>8, SMT DEF JobsJoined, schedVars, bounds, MainTypes, Places
  <2>3. Quiet'
    BY <1>8, SMT DEF JobsJoined, threadVars, Quiet, At
  <2> QED
    BY <2>1, <2>2, <2>3
<1>9. CASE JobDrainOver
  <2>1. Flags' /\ (handlers \in Seq(Frames))' /\ ThreadTypes' /\ WorkTypes' /\ AtHand'
    BY <1>9, SMT DEF JobDrainOver, handlerVars, threadVars, sourceVars, Flags, ThreadTypes,
        WorkTypes, AtHand
  <2>2. MainTypes'
    BY <1>9, SMT DEF JobDrainOver, schedVars, bounds, MainTypes, Places
  <2>3. Quiet'
    BY <1>9, SMT DEF JobDrainOver, threadVars, Quiet, At
  <2> QED
    BY <2>1, <2>2, <2>3
<1>10. CASE DecideRestart
  <2>1. Flags' /\ (handlers \in Seq(Frames))' /\ ThreadTypes' /\ WorkTypes' /\ AtHand'
    BY <1>10, SMT DEF DecideRestart, handlerVars, threadVars, sourceVars, Flags, ThreadTypes,
        WorkTypes, AtHand
  <2>2. MainTypes'
    BY <1>10, SMT DEF DecideRestart, schedVars, bounds, MainTypes, Places
  <2>3. Quiet'
    BY <1>10, SMT DEF DecideRestart, threadVars, Quiet, At
  <2> QED
    BY <2>1, <2>2, <2>3
<1>11. CASE Exit
  <2>1. Flags' /\ (handlers \in Seq(Frames))' /\ ThreadTypes' /\ AtHand'
    BY <1>11, SMT DEF Exit, Drop, handlerVars, sourceVars, Flags, ThreadTypes, AtHand
  <2>2. MainTypes'
    BY <1>11, SMT DEF Exit, Drop, bounds, MainTypes, Places
  <2>3. WorkTypes'
    BY <1>11, SMT DEF Exit, Drop, WorkTypes
  <2>4. Quiet'
    BY <1>11, SMT DEF Exit, Drop, Quiet, At
  <2> QED
    BY <2>1, <2>2, <2>3, <2>4
<1>12. CASE Exec
  <2>1. MainTypes'
    BY <1>12, RunnerAssumption, SMT DEF Exec, Fresh, Drop, MainTypes, Places, NoWork
  <2>2. Flags'
    BY <1>12, Zenon DEF Exec, Fresh, Drop, Flags
  <2>3. (handlers \in Seq(Frames))'
    BY <1>12, StackSteps, SMT DEF Exec, Fresh, Drop, Frames, Handling, Signals
  <2>4. ThreadTypes'
    BY <1>12, SMT DEF Exec, Fresh, Drop, ThreadTypes
  <2>5. WorkTypes'
    BY <1>12, SMT DEF Exec, Fresh, Drop, WorkTypes
  <2>6. AtHand'
    BY <1>12, SMT DEF Exec, Fresh, Drop, AtHand
  <2>7. Quiet'
    BY <1>12, SMT DEF Exec, Fresh, Drop, Quiet, At
  <2> QED
    BY <2>1, <2>2, <2>3, <2>4, <2>5, <2>6, <2>7
<1> QED
  BY <1>1, <1>2, <1>3, <1>4, <1>5, <1>6, <1>7, <1>8, <1>9, <1>10, <1>11, <1>12 DEF MainStep

\* A handler of a signal.
LEMMA HandlerStepKeeps ==
  ASSUME IInv, HandlerStep
  PROVE  IInv'
<1> USE DEF IInv, Types
<1>1. CASE ClearRestart
  <2>1. MainTypes' /\ ThreadTypes' /\ WorkTypes' /\ AtHand' /\ Quiet'
    BY <1>1, SMT DEF ClearRestart, Then, threadVars, schedVars, bounds, MainTypes,
        ThreadTypes, WorkTypes, AtHand, Quiet
  <2>2. Flags'
    BY <1>1, Zenon DEF ClearRestart, Then, sourceVars, Flags
  <2>3. (handlers \in Seq(Frames))'
    BY <1>1, StackSteps, SMT DEF ClearRestart, Then, Frames, Handling, Signals
  <2> QED
    BY <2>1, <2>2, <2>3
<1>2. CASE AskRestart
  <2>1. MainTypes' /\ Flags' /\ ThreadTypes' /\ WorkTypes' /\ AtHand' /\ Quiet'
    BY <1>2, SMT DEF AskRestart, Then, threadVars, sourceVars, schedVars, bounds, MainTypes,
        Flags, ThreadTypes, WorkTypes, AtHand, Quiet
  <2>2. (handlers \in Seq(Frames))'
    BY <1>2, StackSteps, SMT DEF AskRestart, Then, Frames, Handling, Signals
  <2> QED
    BY <2>1, <2>2
<1>3. CASE SetRestart
  <2>1. MainTypes' /\ ThreadTypes' /\ WorkTypes' /\ AtHand' /\ Quiet'
    BY <1>3, SMT DEF SetRestart, Then, threadVars, schedVars, bounds, MainTypes, ThreadTypes,
        WorkTypes, AtHand, Quiet
  <2>2. Flags'
    BY <1>3, Zenon DEF SetRestart, Then, sourceVars, Flags
  <2>3. (handlers \in Seq(Frames))'
    BY <1>3, StackSteps, SMT DEF SetRestart, Then, Frames, Handling, Signals
  <2> QED
    BY <2>1, <2>2, <2>3
<1>4. CASE TestDraining
  <2>1. MainTypes' /\ Flags' /\ ThreadTypes' /\ WorkTypes' /\ AtHand' /\ Quiet'
    BY <1>4, SMT DEF TestDraining, Then, threadVars, sourceVars, schedVars, bounds,
        MainTypes, Flags, ThreadTypes, WorkTypes, AtHand, Quiet
  <2>2. (handlers \in Seq(Frames))'
    BY <1>4, StackSteps, SMT DEF TestDraining, Then, Frames, Handling, Signals
  <2> QED
    BY <2>1, <2>2
<1>5. CASE BeginDrain
  <2>1. MainTypes' /\ WorkTypes' /\ AtHand' /\ Quiet'
    BY <1>5, SMT DEF BeginDrain, Then, JobsStop, schedVars, bounds, MainTypes, WorkTypes,
        AtHand, Quiet
  <2>2. Flags'
    BY <1>5, Zenon DEF BeginDrain, Then, JobsStop, sourceVars, Flags
  <2>3. (handlers \in Seq(Frames))'
    BY <1>5, StackSteps, SMT DEF BeginDrain, Then, JobsStop, Frames, Handling, Signals
  <2>4. ThreadTypes'
    BY <1>5, SMT DEF BeginDrain, Then, JobsStop, ThreadTypes
  <2> QED
    BY <2>1, <2>2, <2>3, <2>4
<1>6. CASE StopWeb
  <2>1. MainTypes' /\ ThreadTypes' /\ WorkTypes' /\ AtHand' /\ Quiet'
    BY <1>6, SMT DEF StopWeb, threadVars, schedVars, bounds, MainTypes, ThreadTypes,
        WorkTypes, AtHand, Quiet
  <2>2. Flags'
    BY <1>6, Zenon DEF StopWeb, sourceVars, Flags
  <2>3. (handlers \in Seq(Frames))'
    BY <1>6, StackSteps, SMT DEF StopWeb, Frames, Handling, Signals
  <2> QED
    BY <2>1, <2>2, <2>3
<1> QED
  BY <1>1, <1>2, <1>3, <1>4, <1>5, <1>6 DEF HandlerStep

\* Signals from outside.
LEMMA SignalsKeep ==
  ASSUME IInv, (\E sig \in Signals : Send(sig)) \/ Kill
  PROVE  IInv'
<1> USE DEF IInv, Types
<1>1. ASSUME NEW sig \in Signals, Send(sig) PROVE IInv'
  <2>1. Flags' /\ ThreadTypes' /\ WorkTypes' /\ AtHand' /\ Quiet'
    BY <1>1, SMT DEF Send, Deliver, Handled, threadVars, sourceVars, Flags, ThreadTypes,
        WorkTypes, AtHand, Quiet
  <2>2. MainTypes'
    BY <1>1, RunnerAssumption, SMT DEF Send, Deliver, Handled, schedVars, MainTypes
  <2>3. (handlers \in Seq(Frames))'
    BY <1>1, StackSteps, SMT DEF Send, Deliver, Handled, Frames, Signals
  <2> QED
    BY <2>1, <2>2, <2>3
<1>2. CASE Kill
  <2>1. Flags' /\ (handlers \in Seq(Frames))' /\ ThreadTypes' /\ AtHand'
    BY <1>2, SMT DEF Kill, Drop, Ended, handlerVars, sourceVars, Flags, ThreadTypes, AtHand
  <2>2. MainTypes'
    BY <1>2, RunnerAssumption, SMT DEF Kill, Drop, Ended, MainTypes, Places
  <2>3. WorkTypes'
    BY <1>2, SMT DEF Kill, Drop, Ended, WorkTypes
  <2>4. Quiet'
    BY <1>2, SMT DEF Kill, Drop, Ended, Quiet
  <2> QED
    BY <2>1, <2>2, <2>3, <2>4
<1> QED
  BY <1>1, <1>2

\* A job thread.
LEMMA ThreadKeeps ==
  ASSUME IInv, NEW t \in Threads, ThreadStep(t) \/ WorkerFails(t)
  PROVE  IInv'
<1> USE DEF IInv, Types
<1>1. CASE CheckStop(t)
  <2>1. MainTypes' /\ Flags' /\ (handlers \in Seq(Frames))' /\ WorkTypes'
    BY <1>1, SMT DEF CheckStop, Goto, handlerVars, sourceVars, schedVars, bounds, MainTypes,
        Flags, WorkTypes
  <2>2. ThreadTypes'
    BY <1>1, SMT DEF CheckStop, Goto, ThreadTypes, Loop, Gone
  <2>3. AtHand'
    BY <1>1, SMT DEF CheckStop, Goto, AtHand, ThreadTypes
  <2>4. Quiet'
    BY <1>1, SMT DEF CheckStop, Goto, Quiet, ThreadTypes, Gone
  <2> QED
    BY <2>1, <2>2, <2>3, <2>4
<1>2. CASE MakeWorker(t)
  <2>1. MainTypes' /\ Flags' /\ (handlers \in Seq(Frames))' /\ WorkTypes'
    BY <1>2, SMT DEF MakeWorker, Goto, handlerVars, sourceVars, schedVars, bounds, MainTypes,
        Flags, WorkTypes
  <2>2. ThreadTypes'
    BY <1>2, SMT DEF MakeWorker, Goto, ThreadTypes, Loop, Gone
  <2>3. AtHand'
    BY <1>2, SMT DEF MakeWorker, Goto, AtHand, ThreadTypes
  <2>4. Quiet'
    BY <1>2, SMT DEF MakeWorker, Goto, Quiet, ThreadTypes, Gone
  <2> QED
    BY <2>1, <2>2, <2>3, <2>4
<1>3. CASE WorkerFails(t)
  <2>1. MainTypes' /\ Flags' /\ (handlers \in Seq(Frames))' /\ WorkTypes'
    BY <1>3, SMT DEF WorkerFails, Goto, handlerVars, sourceVars, schedVars, bounds,
        MainTypes, Flags, WorkTypes
  <2>2. ThreadTypes'
    BY <1>3, SMT DEF WorkerFails, Goto, ThreadTypes, Loop, Gone
  <2>3. AtHand'
    BY <1>3, SMT DEF WorkerFails, Goto, AtHand, ThreadTypes
  <2>4. Quiet'
    BY <1>3, SMT DEF WorkerFails, Goto, Quiet, ThreadTypes, Gone
  <2> QED
    BY <2>1, <2>2, <2>3, <2>4
<1>4. CASE Poll(t)
  <2>1. MainTypes' /\ Flags' /\ (handlers \in Seq(Frames))' /\ WorkTypes'
    BY <1>4, SMT DEF Poll, Goto, handlerVars, sourceVars, schedVars, bounds, MainTypes,
        Flags, WorkTypes
  <2>2. ThreadTypes'
    BY <1>4, SMT DEF Poll, Goto, ThreadTypes, Loop, Gone
  <2>3. AtHand'
    BY <1>4, SMT DEF Poll, Goto, AtHand, ThreadTypes
  <2>4. Quiet'
    BY <1>4, SMT DEF Poll, Goto, Quiet, ThreadTypes, Gone
  <2> QED
    BY <2>1, <2>2, <2>3, <2>4
<1>5. CASE PollAgain(t)
  <2>1. MainTypes' /\ Flags' /\ (handlers \in Seq(Frames))' /\ WorkTypes'
    BY <1>5, SMT DEF PollAgain, Goto, handlerVars, sourceVars, schedVars, bounds, MainTypes,
        Flags, WorkTypes
  <2>2. ThreadTypes'
    BY <1>5, SMT DEF PollAgain, Goto, ThreadTypes, Loop, Gone
  <2>3. AtHand'
    BY <1>5, SMT DEF PollAgain, Goto, AtHand, ThreadTypes
  <2>4. Quiet'
    BY <1>5, SMT DEF PollAgain, Goto, Quiet, ThreadTypes, Gone
  <2> QED
    BY <2>1, <2>2, <2>3, <2>4
<1>6. CASE Dequeue(t)
  <2>1. MainTypes' /\ Flags' /\ (handlers \in Seq(Frames))'
    BY <1>6, SMT DEF Dequeue, Goto, handlerVars, sourceVars, schedVars, bounds, MainTypes, Flags
  <2>2. ThreadTypes'
    BY <1>6, SMT DEF Dequeue, Goto, ThreadTypes, Loop, Gone
  <2>3. WorkTypes'
    BY <1>6, SMT DEF Dequeue, Goto, WorkTypes
  <2>4. AtHand'
    BY <1>6, RunnerAssumption, SMT DEF Dequeue, Goto, AtHand, ThreadTypes, WorkTypes
  <2>5. Quiet'
    BY <1>6, SMT DEF Dequeue, Goto, Quiet, ThreadTypes, Gone
  <2> QED
    BY <2>1, <2>2, <2>3, <2>4, <2>5
<1>7. CASE BeginJob(t)
  <2>1. MainTypes' /\ Flags' /\ (handlers \in Seq(Frames))' /\ WorkTypes'
    BY <1>7, SMT DEF BeginJob, Goto, handlerVars, sourceVars, schedVars, bounds, MainTypes,
        Flags, WorkTypes
  <2>2. ThreadTypes'
    BY <1>7, SMT DEF BeginJob, Goto, ThreadTypes, Loop, Gone
  <2>3. AtHand'
    BY <1>7, SMT DEF BeginJob, Goto, AtHand, ThreadTypes
  <2>4. Quiet'
    BY <1>7, SMT DEF BeginJob, Goto, Quiet, ThreadTypes, Gone
  <2> QED
    BY <2>1, <2>2, <2>3, <2>4
<1>8. CASE FinishJob(t)
  <2>1. Flags' /\ (handlers \in Seq(Frames))'
    BY <1>8, SMT DEF FinishJob, Goto, handlerVars, sourceVars, Flags
  <2>2. MainTypes'
    BY <1>8, SMT DEF FinishJob, Goto, schedVars, bounds, MainTypes
  <2>3. ThreadTypes'
    BY <1>8, SMT DEF FinishJob, Goto, ThreadTypes, Loop, Gone
  <2>4. WorkTypes'
    BY <1>8, SMT DEF FinishJob, Goto, WorkTypes, AtHand, ThreadTypes
  <2>5. AtHand'
    BY <1>8, SMT DEF FinishJob, Goto, AtHand, ThreadTypes, WorkTypes
  <2>6. Quiet'
    BY <1>8, SMT DEF FinishJob, Goto, Quiet, ThreadTypes, Gone
  <2> QED
    BY <2>1, <2>2, <2>3, <2>4, <2>5, <2>6
<1> QED
  BY <1>1, <1>2, <1>3, <1>4, <1>5, <1>6, <1>7, <1>8 DEF ThreadStep

\* Traffic, the watches, the scheduler.
LEMMA BesideKeeps ==
  ASSUME IInv, (\E r \in Requests : Accept(r) \/ Answer(r)) \/ Realtime \/ WatchLook
      \/ WatchPass \/ WatchRestart
         \/ Edit \/ Reload \/ SchedTry \/ SchedWake \/ SchedRaises \/ Elsewhere
  PROVE  IInv'
<1> USE DEF IInv, Types
<1>1. ASSUME NEW r \in Requests, Accept(r) PROVE IInv'
  <2>1. MainTypes' /\ Flags' /\ (handlers \in Seq(Frames))' /\ ThreadTypes' /\ AtHand'
    BY <1>1, SMT DEF Accept, handlerVars, threadVars, sourceVars, schedVars, bounds,
        MainTypes, Flags, ThreadTypes, AtHand
  <2>2. WorkTypes'
    BY <1>1, SMT DEF Accept, threadVars, WorkTypes
  <2>3. Quiet'
    BY <1>1, SMT DEF Accept, threadVars, Quiet, WorkTypes
  <2> QED
    BY <2>1, <2>2, <2>3
<1>2. ASSUME NEW r \in Requests, Answer(r) PROVE IInv'
  <2>1. Flags' /\ (handlers \in Seq(Frames))' /\ ThreadTypes' /\ AtHand'
    BY <1>2, SMT DEF Answer, handlerVars, threadVars, sourceVars, Flags, ThreadTypes, AtHand
  <2>2. MainTypes'
    BY <1>2, SMT DEF Answer, schedVars, bounds, MainTypes
  <2>3. WorkTypes'
    BY <1>2, SMT DEF Answer, threadVars, WorkTypes
  <2>4. Quiet'
    BY <1>2, SMT DEF Answer, threadVars, Quiet, WorkTypes
  <2> QED
    BY <2>1, <2>2, <2>3, <2>4
<1>3. CASE Realtime
  <2>1. Flags' /\ (handlers \in Seq(Frames))' /\ ThreadTypes' /\ WorkTypes' /\ AtHand' /\ Quiet'
    BY <1>3, SMT DEF Realtime, handlerVars, threadVars, sourceVars, Flags, ThreadTypes,
        WorkTypes, AtHand, Quiet
  <2>2. MainTypes'
    BY <1>3, SMT DEF Realtime, schedVars, bounds, MainTypes
  <2> QED
    BY <2>1, <2>2
<1>4. CASE WatchLook
  <2>1. Flags' /\ (handlers \in Seq(Frames))' /\ ThreadTypes' /\ WorkTypes' /\ AtHand' /\ Quiet'
    BY <1>4, SMT DEF WatchLook, handlerVars, threadVars, sourceVars, Flags, ThreadTypes,
        WorkTypes, AtHand, Quiet
  <2>2. MainTypes'
    BY <1>4, SMT DEF WatchLook, schedVars, bounds, MainTypes
  <2> QED
    BY <2>1, <2>2
<1>5. CASE WatchPass
  <2>1. Flags' /\ (handlers \in Seq(Frames))' /\ ThreadTypes' /\ WorkTypes' /\ AtHand' /\ Quiet'
    BY <1>5, SMT DEF WatchPass, handlerVars, threadVars, sourceVars, Flags, ThreadTypes,
        WorkTypes, AtHand, Quiet
  <2>2. MainTypes'
    BY <1>5, SMT DEF WatchPass, schedVars, bounds, MainTypes
  <2> QED
    BY <2>1, <2>2
<1>6. CASE WatchRestart
  <2>1. Flags' /\ ThreadTypes' /\ WorkTypes' /\ AtHand' /\ Quiet'
    BY <1>6, SMT DEF WatchRestart, Deliver, Handled, threadVars, sourceVars, Flags,
        ThreadTypes, WorkTypes, AtHand, Quiet
  <2>2. MainTypes'
    BY <1>6, SMT DEF WatchRestart, Deliver, Handled, schedVars, bounds, MainTypes
  <2>3. (handlers \in Seq(Frames))'
    BY <1>6, StackSteps, SMT DEF WatchRestart, Deliver, Handled, Frames, Signals
  <2> QED
    BY <2>1, <2>2, <2>3
<1>7. CASE Edit
  <2>1. (handlers \in Seq(Frames))' /\ ThreadTypes' /\ WorkTypes' /\ AtHand' /\ Quiet'
    BY <1>7, SMT DEF Edit, handlerVars, threadVars, ThreadTypes, WorkTypes, AtHand, Quiet
  <2>2. MainTypes'
    BY <1>7, RunnerAssumption, SMT DEF Edit, schedVars, MainTypes
  <2>3. Flags'
    BY <1>7, Zenon DEF Edit, handlerVars, Flags
  <2> QED
    BY <2>1, <2>2, <2>3
<1>8. CASE Reload
  <2>1. MainTypes' /\ ThreadTypes' /\ WorkTypes' /\ AtHand' /\ Quiet'
    BY <1>8, SMT DEF Reload, Deliver, Handled, threadVars, schedVars, bounds, MainTypes,
        ThreadTypes, WorkTypes, AtHand, Quiet
  <2>2. Flags'
    BY <1>8, Zenon DEF Reload, Deliver, Handled, Flags
  <2>3. (handlers \in Seq(Frames))'
    <3>1. CASE draining
      BY <1>8, <3>1, SMT DEF Reload
    <3>2. CASE ~draining
      <4>1. handlers' = <<[sig |-> "HUP", at |-> "enter"]>> \o handlers
        BY <1>8, <3>2, Zenon DEF Reload, Deliver
      <4>2. [sig |-> "HUP", at |-> "enter"] \in Frames
        BY SMT DEF Frames, Signals
      <4> QED
        BY <4>1, <4>2, StackSteps, Zenon
    <3> QED BY <3>1, <3>2
  <2> QED
    BY <2>1, <2>2, <2>3
<1>9. CASE SchedTry
  <2>1. Flags' /\ (handlers \in Seq(Frames))' /\ ThreadTypes' /\ WorkTypes' /\ AtHand' /\ Quiet'
    BY <1>9, SMT DEF SchedTry, handlerVars, threadVars, sourceVars, Flags, ThreadTypes,
        WorkTypes, AtHand, Quiet
  <2>2. MainTypes'
    BY <1>9, SMT DEF SchedTry, bounds, MainTypes
  <2> QED
    BY <2>1, <2>2
<1>10. CASE SchedWake
  <2>1. Flags' /\ (handlers \in Seq(Frames))' /\ ThreadTypes' /\ WorkTypes' /\ AtHand' /\ Quiet'
    BY <1>10, SMT DEF SchedWake, handlerVars, threadVars, sourceVars, Flags, ThreadTypes,
        WorkTypes, AtHand, Quiet
  <2>2. MainTypes'
    BY <1>10, SMT DEF SchedWake, bounds, MainTypes
  <2> QED
    BY <2>1, <2>2
<1>11. CASE SchedRaises
  <2>1. Flags' /\ (handlers \in Seq(Frames))' /\ ThreadTypes' /\ WorkTypes' /\ AtHand' /\ Quiet'
    BY <1>11, SMT DEF SchedRaises, handlerVars, threadVars, sourceVars, Flags, ThreadTypes,
        WorkTypes, AtHand, Quiet
  <2>2. MainTypes'
    BY <1>11, SMT DEF SchedRaises, bounds, MainTypes
  <2> QED
    BY <2>1, <2>2
<1>12. CASE Elsewhere
  <2>1. Flags' /\ (handlers \in Seq(Frames))' /\ ThreadTypes' /\ WorkTypes' /\ AtHand' /\ Quiet'
    BY <1>12, SMT DEF Elsewhere, handlerVars, threadVars, sourceVars, Flags, ThreadTypes,
        WorkTypes, AtHand, Quiet
  <2>2. MainTypes'
    BY <1>12, SMT DEF Elsewhere, bounds, MainTypes
  <2> QED
    BY <2>1, <2>2
<1> QED
  BY <1>1, <1>2, <1>3, <1>4, <1>5, <1>6, <1>7, <1>8, <1>9, <1>10, <1>11, <1>12

LEMMA StepIInv == IInv /\ [Next]_vars => IInv'
<1> SUFFICES ASSUME IInv, [Next]_vars PROVE IInv'
  OBVIOUS
<1>1. CASE UNCHANGED vars
  <2>1. UNCHANGED <<main, over, handlers, draining, restarting, shouldExit, forceExit,
      exitAsked, tpc, stopping,
                    told, hand, job, req, counts, watch, stale, watching, fired, timer,
                        sched, schedLock, sent,
                    execs, edits>>
    BY <1>1 DEF vars, handlerVars, threadVars, sourceVars, schedVars, bounds
  <2>2. Flags'
    BY <2>1, Zenon DEF IInv, Types, Flags
  <2>3. MainTypes' /\ (handlers \in Seq(Frames))' /\ ThreadTypes'
    BY <2>1, SMT DEF IInv, Types, MainTypes, ThreadTypes
  <2>4. WorkTypes' /\ AtHand' /\ Quiet'
    BY <2>1, SMT DEF IInv, Types, WorkTypes, AtHand, Quiet
  <2> QED
    BY <2>2, <2>3, <2>4 DEF IInv, Types
<1> QED
  BY <1>1, MainStepKeeps, HandlerStepKeeps, SignalsKeep, ThreadKeeps, BesideKeeps, Zenon
      DEF Next

-----------------------------------------------------------------------------
\* The invariant the theorems below follow from.
THEOREM Inductive == Spec => []IInv
<1> QED
  BY InitIInv, StepIInv, PTL DEF Spec

\* Every variable keeps its type, and a thread has a job at hand just between its
\* dequeue and its end (TypeOK), for any number of threads, jobs and signals.
THEOREM TypeCorrect == Spec => []TypeOK
<1>1. IInv => TypeOK
  BY TypesAre DEF IInv
<1> QED
  BY <1>1, Inductive, PTL

-----------------------------------------------------------------------------
\* A job that goes lost was in the hand of a thread, at an exit or an exec; a request
\* that is cut was open.
LEMMA StepCutsShort ==
  ASSUME IInv, Next
  PROVE  /\ \A j \in Jobs :
              job[j] # "lost" /\ job'[j] = "lost" => main' = "killed" \/ "jobs" \in over
         /\ \A r \in Requests :
              req[r] # "cut" /\ req'[r] = "cut" =>
                main' = "killed" \/ "requests" \in over' \/ forceExit
<1> DEFINE P == /\ \A j \in Jobs :
                     job[j] # "lost" /\ job'[j] = "lost" => main' = "killed" \/ "jobs" \in over
                /\ \A r \in Requests :
                     req[r] # "cut" /\ req'[r] = "cut" =>
                       main' = "killed" \/ "requests" \in over' \/ forceExit
<1> USE DEF IInv, Types
<1>1. ASSUME UNCHANGED <<job, req>> PROVE P
  BY <1>1, Zenon
<1>2. ASSUME Drop, main \in {"deciding", "exec"} PROVE P
  <2>1. \A j \in Jobs : job[j] # "lost" /\ job'[j] = "lost" => "jobs" \in over
    <3> SUFFICES ASSUME NEW j \in Jobs, job[j] # "lost", job'[j] = "lost" PROVE "jobs" \in over
      OBVIOUS
    <3>1. PICK t \in Threads : hand[t] = j
      BY <1>2, Zenon DEF Drop
    <3>2. tpc[t] \notin Gone
      BY <3>1, RunnerAssumption, SMT DEF AtHand, Gone
    <3> QED
      BY <1>2, <3>2, SMT DEF Quiet
  <2>2. \A r \in Requests : req[r] # "open"
    BY <1>2 DEF Quiet
  <2>3. \A r \in Requests : req[r] # "cut" => req'[r] # "cut"
    BY <1>2, <2>2, Zenon DEF Drop
  <2> QED
    BY <2>1, <2>3, Zenon
<1>3. ASSUME MainStep PROVE P
  <2>1. CASE CloseWeb
    BY <2>1, SMT DEF CloseWeb, threadVars
  <2>2. CASE RequestDrainOver
    BY <2>2, SMT DEF RequestDrainOver, threadVars
  <2>3. CASE Exit
    BY <1>2, <2>3 DEF Exit, At
  <2>4. CASE Exec
    BY <1>2, <2>4 DEF Exec, At
  <2>5. CASE Load \/ InstallHandlers \/ StartThreads \/ LeaveLoop
    BY <1>1, <2>5, Zenon DEF Load, InstallHandlers, StartThreads, LeaveLoop, threadVars
  <2>6. CASE StopJobs \/ JobsJoined \/ JobDrainOver \/ DecideRestart
    BY <1>1, <2>6, Zenon DEF StopJobs, JobsJoined, JobDrainOver, DecideRestart, threadVars
  <2> QED
    BY <1>3, <2>1, <2>2, <2>3, <2>4, <2>5, <2>6, Zenon DEF MainStep
<1>4. ASSUME HandlerStep PROVE P
  BY <1>1, <1>4, Zenon
  DEF HandlerStep, ClearRestart, AskRestart, SetRestart, TestDraining, BeginDrain, StopWeb,
      threadVars
<1>5. ASSUME (\E sig \in Signals : Send(sig)) \/ Kill PROVE P
  <2>1. CASE Kill
    BY <2>1, Zenon DEF Kill
  <2>2. ASSUME NEW sig \in Signals, Send(sig) PROVE P
    BY <1>1, <2>2, Zenon DEF Send, threadVars
  <2> QED
    BY <1>5, <2>1, <2>2, Zenon
<1>6. ASSUME NEW t \in Threads, ThreadStep(t) \/ WorkerFails(t) PROVE P
  <2>1. UNCHANGED req
    BY <1>6, Zenon
    DEF ThreadStep, CheckStop, MakeWorker, WorkerFails, Poll, PollAgain, Dequeue, BeginJob,
        FinishJob
  <2>2. \A j \in Jobs : job[j] # "lost" => job'[j] # "lost"
    <3>1. CASE Dequeue(t)
      BY <3>1, SMT DEF Dequeue, WorkTypes
    <3>2. CASE FinishJob(t)
      BY <3>2, SMT DEF FinishJob, WorkTypes
    <3>3. CASE ~Dequeue(t) /\ ~FinishJob(t)
      BY <1>6, <3>3, Zenon DEF ThreadStep, CheckStop, MakeWorker, WorkerFails, Poll,
          PollAgain, BeginJob
    <3> QED
      BY <3>1, <3>2, <3>3
  <2> QED
    BY <2>1, <2>2, Zenon
<1>7. ASSUME NEW r \in Requests, Accept(r) \/ Answer(r) PROVE P
  <2>1. UNCHANGED job
    BY <1>7, Zenon DEF Accept, Answer, threadVars
  <2>2. \A s \in Requests : req[s] # "cut" => req'[s] # "cut"
    BY <1>7, SMT DEF Accept, Answer, WorkTypes
  <2> QED
    BY <2>1, <2>2, Zenon
<1>8. ASSUME \/ Realtime \/ WatchLook \/ WatchPass \/ WatchRestart \/ Edit \/ Reload
             \/ SchedTry \/ SchedWake \/ SchedRaises \/ Elsewhere
      PROVE  P
  BY <1>1, <1>8, Zenon
  DEF Realtime, WatchLook, WatchPass, WatchRestart, Edit, Reload, SchedTry, SchedWake,
      SchedRaises, Elsewhere,
      threadVars
<1> QED
  BY <1>3, <1>4, <1>5, <1>6, <1>7, <1>8, Zenon DEF Next

\* A graceful shutdown loses a job at hand, or cuts a request, only when the time of
\* that drain ran out or a second SIGINT forced it (NothingCutShort).
THEOREM NothingCutShortHolds == Spec => NothingCutShort
<1>1. IInv /\ [Next]_vars =>
        [/\ \A j \in Jobs :
              job[j] # "lost" /\ job'[j] = "lost" => main' = "killed" \/ "jobs" \in over
         /\ \A r \in Requests :
              req[r] # "cut" /\ req'[r] = "cut" =>
                main' = "killed" \/ "requests" \in over' \/ forceExit]_vars
  BY StepCutsShort, Zenon
<1> QED
  BY <1>1, Inductive, PTL DEF Spec, NothingCutShort

-----------------------------------------------------------------------------
\* One handler at a time: an exit signal whose handler has begun stands, since it
\* clears restarting and no other sets it behind the test of draining.
Stands ==
  /\ handlers = <<>> \/ Len(handlers) = 1
  /\ exitAsked => ~restarting
  /\ handlers = <<>> \/ handlers[1].at = "enter" => (exitAsked => draining)
  /\ handlers # <<>> /\ handlers[1].at = "restart" => ~exitAsked
  /\ handlers # <<>> /\ handlers[1].at = "web" => draining

\* A stack of one: what its steps make of it.
LEMMA OneFrame ==
  ASSUME handlers \in Seq(Frames), handlers = <<>> \/ Len(handlers) = 1
  PROVE  /\ handlers # <<>> => Tail(handlers) = <<>>
         /\ \A place : handlers # <<>> /\ Then(place) =>
              handlers' # <<>> /\ Len(handlers') = 1 /\ handlers'[1].at = place
         /\ \A sig : handlers = <<>> /\ Deliver(sig) =>
              handlers' # <<>> /\ Len(handlers') = 1 /\ handlers'[1].at = "enter"
<1>1. handlers # <<>> => Tail(handlers) = <<>>
  <2> SUFFICES ASSUME handlers # <<>> PROVE Tail(handlers) = <<>>
    OBVIOUS
  <2>1. Tail(handlers) \in Seq(Frames) /\ Len(Tail(handlers)) = 0
    BY HeadTailProperties, SMT
  <2>2. 0 \notin Nat \ {0}
    BY SMT
  <2> QED
    BY <2>1, <2>2, EmptySeq, Zenon
<1>2. ASSUME NEW place, handlers # <<>>, Then(place)
      PROVE  handlers' # <<>> /\ Len(handlers') = 1 /\ handlers'[1].at = place
  BY <1>2, SMT DEF Then, Frames
<1>3. ASSUME NEW sig, handlers = <<>>, Deliver(sig)
      PROVE  handlers' # <<>> /\ Len(handlers') = 1 /\ handlers'[1].at = "enter"
  BY <1>3, SMT DEF Deliver
<1> QED
  BY <1>1, <1>2, <1>3, Zenon

LEMMA StepStands ==
  ASSUME ~Overlap, IInv, Stands, [Next]_vars
  PROVE  Stands'
<1>0. handlers \in Seq(Frames)
  BY DEF IInv, Types
<1>1. ASSUME UNCHANGED <<handlers, draining, restarting, exitAsked>> PROVE Stands'
  BY <1>1 DEF Stands
<1>2. ASSUME NEW sig, Deliver(sig), UNCHANGED <<draining, restarting, exitAsked>> PROVE Stands'
  <2>1. handlers = <<>>
    BY <1>2 DEF Deliver
  <2>2. handlers' # <<>> /\ Len(handlers') = 1 /\ handlers'[1].at = "enter"
    BY <1>0, <1>2, <2>1, OneFrame, Zenon
  <2> QED
    BY <1>2, <2>1, <2>2, Zenon DEF Stands
<1>3. CASE MainStep
  <2>1. CASE Exec
    BY <2>1, SMT DEF Exec, Fresh, Stands
  <2>2. CASE ~Exec
    BY <1>1, <1>3, <2>2, Zenon
    DEF MainStep, Load, InstallHandlers, StartThreads, LeaveLoop, CloseWeb, RequestDrainOver,
        StopJobs,
        JobsJoined, JobDrainOver, DecideRestart, Exit, handlerVars
  <2> QED
    BY <2>1, <2>2
<1>4. CASE HandlerStep
  <2>1. CASE ClearRestart
    <3>1. handlers' # <<>> /\ Len(handlers') = 1 /\ handlers'[1].at = "test"
      BY <1>0, <2>1, OneFrame, Zenon DEF ClearRestart, Handling, Stands
    <3> QED
      BY <2>1, <3>1, SMT DEF ClearRestart, Stands
  <2>2. CASE AskRestart
    <3>1. /\ handlers' # <<>> /\ Len(handlers') = 1
          /\ handlers'[1].at = IF draining THEN "test" ELSE "restart"
      BY <1>0, <2>2, OneFrame, Zenon DEF AskRestart, Handling, Stands
    <3> QED
      BY <2>2, <3>1, SMT DEF AskRestart, Handling, Stands
  <2>3. CASE SetRestart
    <3>1. handlers' # <<>> /\ Len(handlers') = 1 /\ handlers'[1].at = "test"
      BY <1>0, <2>3, OneFrame, Zenon DEF SetRestart, Handling, Stands
    <3> QED
      BY <2>3, <3>1, SMT DEF SetRestart, Handling, Stands
  <2>4. CASE TestDraining
    <3>1. /\ handlers' # <<>> /\ Len(handlers') = 1
          /\ handlers'[1].at = IF draining THEN "web" ELSE "drain"
      BY <1>0, <2>4, OneFrame, Zenon DEF TestDraining, Handling, Stands
    <3> QED
      BY <2>4, <3>1, SMT DEF TestDraining, Stands
  <2>5. CASE BeginDrain
    <3>1. handlers' # <<>> /\ Len(handlers') = 1 /\ handlers'[1].at = "web"
      BY <1>0, <2>5, OneFrame, Zenon DEF BeginDrain, Handling, Stands
    <3> QED
      BY <2>5, <3>1, SMT DEF BeginDrain, Stands
  <2>6. CASE StopWeb
    <3>1. handlers # <<>> /\ handlers' = <<>> /\ draining
      BY <1>0, <2>6, OneFrame, Zenon DEF StopWeb, Handling, Stands
    <3> QED
      BY <2>6, <3>1, SMT DEF StopWeb, Stands
  <2> QED
    BY <1>4, <2>1, <2>2, <2>3, <2>4, <2>5, <2>6 DEF HandlerStep
<1>5. ASSUME NEW sig \in Signals, Send(sig) PROVE Stands'
  BY <1>2, <1>5, Zenon DEF Send
<1>6. CASE WatchRestart
  BY <1>2, <1>6, Zenon DEF WatchRestart
<1>7. CASE Reload
  BY <1>1, <1>2, <1>7, Zenon DEF Reload
<1>8. ASSUME NEW t \in Threads, ThreadStep(t) \/ WorkerFails(t) PROVE Stands'
  BY <1>1, <1>8, Zenon
  DEF ThreadStep, CheckStop, MakeWorker, WorkerFails, Poll, PollAgain, Dequeue, BeginJob,
      FinishJob, handlerVars
<1>9. ASSUME NEW r \in Requests, Accept(r) \/ Answer(r) PROVE Stands'
  BY <1>1, <1>9, Zenon DEF Accept, Answer, handlerVars
<1>10. CASE \/ Kill \/ Realtime \/ WatchLook \/ WatchPass \/ Edit
            \/ SchedTry \/ SchedWake \/ SchedRaises \/ Elsewhere
  BY <1>1, <1>10, Zenon
  DEF Kill, Realtime, WatchLook, WatchPass, Edit, SchedTry, SchedWake, SchedRaises,
      Elsewhere, handlerVars
<1>11. CASE UNCHANGED vars
  BY <1>1, <1>11, Zenon DEF vars, handlerVars
<1> QED
  BY <1>3, <1>4, <1>5, <1>6, <1>7, <1>8, <1>9, <1>10, <1>11, Zenon DEF Next

\* "An exit signal has more priority than SIGHUP" (ExitSignalWins), for any number of
\* signals, watches and reloads in any order, where a signal waits for the handler of
\* the one before it. Where it does not wait this is false (RunnerExec.cfg).
THEOREM ExitSignalWinsHolds ==
  ASSUME ~Overlap
  PROVE  Spec => ExitSignalWins
<1>1. Init => Stands
  BY SMT DEF Init, Stands
<1>2. IInv /\ Stands /\ [Next]_vars => Stands'
  BY StepStands
<1>3. Stands /\ [Next]_vars => [main = "deciding" /\ main' = "exec" => ~exitAsked]_vars
  <2> SUFFICES ASSUME Stands, Next, main = "deciding", main' = "exec" PROVE ~exitAsked
    OBVIOUS
  <2>1. MainStep
    <3>1. \A t \in Threads : ~ThreadStep(t) /\ ~WorkerFails(t)
      BY Zenon
      DEF ThreadStep, CheckStop, MakeWorker, WorkerFails, Poll, PollAgain, Dequeue, BeginJob,
          FinishJob
    <3>2. ~HandlerStep /\ ~Kill /\ \A sig \in Signals : ~Send(sig)
      BY Zenon
      DEF HandlerStep, ClearRestart, AskRestart, SetRestart, TestDraining, BeginDrain,
          StopWeb, Kill, Send
    <3>3. \A r \in Requests : ~Accept(r) /\ ~Answer(r)
      BY Zenon DEF Accept, Answer
    <3>4. ~(\/ Realtime \/ WatchLook \/ WatchPass \/ WatchRestart \/ Edit \/ Reload
            \/ SchedTry \/ SchedWake \/ SchedRaises \/ Elsewhere)
      BY Zenon
      DEF Realtime, WatchLook, WatchPass, WatchRestart, Edit, Reload, SchedTry, SchedWake,
          SchedRaises, Elsewhere
    <3> QED
      BY <3>1, <3>2, <3>3, <3>4, Zenon DEF Next
  <2>2. DecideRestart
    BY <2>1, Zenon
    DEF MainStep, Load, InstallHandlers, StartThreads, LeaveLoop, CloseWeb, RequestDrainOver,
        StopJobs,
        JobsJoined, JobDrainOver, Exit, Exec, Fresh
  <2> QED
    BY <2>2, Zenon DEF DecideRestart, Stands
<1> QED
  BY <1>1, <1>2, <1>3, Inductive, PTL DEF Spec, ExitSignalWins

\* What a drain owes to whoever asked for it and to what it finds at work.
THEOREM DrainIsTrueHolds ==
  ASSUME ~Overlap
  PROVE  Spec => DrainIsTrue
<1> QED
  BY ExitSignalWinsHolds, NothingCutShortHolds DEF DrainIsTrue

-----------------------------------------------------------------------------
(***************************************************************************)
(* The realtime handlers of the same process: theorems of Presence, for    *)
(* any number of sockets, users and documents. The invariants of the runs  *)
(* are made inductive by what a socket cannot yet have (Young) and what a  *)
(* connect gave it (Acknowledged), by which Sessions it and its handlers   *)
(* can name (Sessions), and by what a client has forgotten (Unseen).       *)
(***************************************************************************)

Young ==
  \A s \in Sockets :
    conn[s] \in {"new", "auth"} =>
      acks[s] = 0 /\ cur[s] = 1 /\ \A k \in Acks : tracked[s][k] = {}

Acknowledged == \A s \in Sockets : conn[s] = "on" => acks[s] # 0

Sessions ==
  /\ \A s \in Sockets : cur[s] = 1 \/ cur[s] <= acks[s]
  /\ \A s \in reack : conn[s] = "on" /\ acks[s] < MaxAcks
  /\ \A h \in opening :
       /\ conn[h.socket] \notin {"new", "auth"}
       /\ h.session = 1 \/ h.session <= acks[h.socket]

Unseen ==
  \A s \in Sockets, d \in Docs :
    conn[s] \in {"new", "auth", "on"} /\ <<s, d>> \notin viewing => shown[s][d] = {}

RoomsInv ==
  /\ RtTypeOK /\ Young /\ Acknowledged /\ Sessions /\ Unseen
  /\ NobodyMissed /\ CloseIsSeen /\ TrackedIsOpen

-----------------------------------------------------------------------------
(* What notify_doc_viewers changes: one document's list, of its viewers. It is
   the list of who is in the room, or nothing was sent to a room of one. *)
LEMMA NotifiedFacts ==
  ASSUME shown \in [Sockets -> [Docs -> SUBSET Users]], viewing' \in SUBSET (Sockets \X Docs),
         NEW s \in Sockets, NEW d \in Docs
  PROVE  /\ Notified(viewing', s, d) \in [Sockets -> [Docs -> SUBSET Users]]
         /\ \A t \in Sockets, e \in Docs :
              e # d \/ <<t, e>> \notin viewing' => Notified(viewing', s, d)[t][e] = shown[t][e]
         /\ \/ /\ Notified(viewing', s, d) = shown
               /\ \E t \in Sockets : ViewersIn(viewing', d) = {t} /\ UserOf[t] = UserOf[s]
            \/ \A t \in Sockets :
                 <<t, d>> \in viewing' => Notified(viewing', s, d)[t][d] = UsersIn(viewing', d)
<1> USE PresenceAssumption
<1>1. UsersIn(viewing', d) \subseteq Users
  BY DEF UsersIn, ViewersIn
<1>2. CASE \E t \in Sockets : ViewersIn(viewing', d) = {t} /\ UserOf[t] = UserOf[s]
  BY <1>2 DEF Notified
<1>3. CASE ~ \E t \in Sockets : ViewersIn(viewing', d) = {t} /\ UserOf[t] = UserOf[s]
  <2>1. Notified(viewing', s, d) =
          [t \in Sockets |-> IF t \in ViewersIn(viewing', d)
                             THEN [shown[t] EXCEPT ![d] = UsersIn(viewing', d)] ELSE shown[t]]
    BY <1>3 DEF Notified
  <2>2. \A t \in Sockets : t \in ViewersIn(viewing', d) <=> <<t, d>> \in viewing'
    BY DEF ViewersIn
  <2> QED
    BY <1>1, <2>1, <2>2
<1> QED
  BY <1>2, <1>3

-----------------------------------------------------------------------------
(* The initial states have the invariant. *)
LEMMA InitInvariant == RtInit => RoomsInv
<1> SUFFICES ASSUME RtInit PROVE RoomsInv
  OBVIOUS
<1> USE PresenceAssumption DEF RtInit, Acks, Nothing
<1>1. RtTypeOK
  BY DEF RtTypeOK, Handlers
<1>2. Young /\ Acknowledged /\ Sessions /\ Unseen
  BY DEF Young, Acknowledged, Sessions, Unseen
<1>3. NobodyMissed /\ CloseIsSeen /\ TrackedIsOpen
  BY DEF NobodyMissed, CloseIsSeen, TrackedIsOpen, Connected
<1> QED
  BY <1>1, <1>2, <1>3 DEF RoomsInv

(* A step that changes no room and no list keeps what the rooms and the lists
   have to do with each other, if no socket comes back. *)
LEMMA SameRooms ==
  ASSUME RoomsInv, UNCHANGED <<viewing, shown>>,
         \A t \in Sockets : conn'[t] \in {"new", "auth", "on"} => conn[t] \in {"new", "auth", "on"},
         \A t \in Sockets : conn[t] = "gone" => conn'[t] = "gone"
  PROVE  Unseen' /\ NobodyMissed' /\ CloseIsSeen'
BY DEF RoomsInv, Unseen, NobodyMissed, CloseIsSeen, UsersIn, ViewersIn

(* A socket that goes leaves its rooms, and no list: it is the connection that
   went of whomever the lists still name. *)
LEMMA Leaves ==
  ASSUME RoomsInv, NEW s \in Sockets,
         conn' = [conn EXCEPT ![s] = "gone"],
         viewing' = {p \in viewing : p[1] # s},
         UNCHANGED shown
  PROVE  Unseen' /\ NobodyMissed' /\ CloseIsSeen'
<1> USE PresenceAssumption
<1>1. conn \in [Sockets -> {"new", "auth", "on", "leaving", "gone"}] /\ viewing \subseteq Sockets \X Docs
  BY DEF RoomsInv, RtTypeOK
<1>2. \A t \in Sockets, d \in Docs : <<t, d>> \in viewing' <=> <<t, d>> \in viewing /\ t # s
  OBVIOUS
<1>3. Unseen'
  BY <1>1, <1>2 DEF RoomsInv, Unseen
<1>4. NobodyMissed'
  BY <1>1, <1>2 DEF RoomsInv, NobodyMissed
<1>5. CloseIsSeen'
  <2> SUFFICES ASSUME NEW t \in Sockets, NEW d \in Docs, <<t, d>> \in viewing',
                      NEW u \in shown[t][d], u \notin UsersIn(viewing', d)
               PROVE  \E x \in Sockets : conn'[x] = "gone" /\ UserOf[x] = u
    BY DEF CloseIsSeen
  <2>1. CASE u \in UsersIn(viewing, d)
    BY <1>1, <1>2, <2>1 DEF UsersIn, ViewersIn
  <2>2. CASE u \notin UsersIn(viewing, d)
    BY <1>1, <1>2, <2>2 DEF RoomsInv, CloseIsSeen
  <2> QED
    BY <2>1, <2>2
<1> QED
  BY <1>3, <1>4, <1>5

-----------------------------------------------------------------------------
(* Each action keeps the invariant. *)
LEMMA ConnectStep == ASSUME RoomsInv, NEW s \in Sockets, Connect(s) PROVE RoomsInv'
<1> USE PresenceAssumption DEF Connect, sessionVars, roomVars
<1>1. RtTypeOK'
  BY DEF RoomsInv, RtTypeOK, Handlers
<1>2. Young' /\ Acknowledged' /\ Sessions'
  BY DEF RoomsInv, RtTypeOK, Handlers, Young, Acknowledged, Sessions
<1>3. Unseen' /\ NobodyMissed' /\ CloseIsSeen'
  BY SameRooms DEF RoomsInv, RtTypeOK
<1>4. TrackedIsOpen'
  BY DEF RoomsInv, RtTypeOK, TrackedIsOpen, Connected, OpenDocs
<1> QED
  BY <1>1, <1>2, <1>3, <1>4 DEF RoomsInv

LEMMA ConnectAgainStep == ASSUME RoomsInv, NEW s \in Sockets, ConnectAgain(s) PROVE RoomsInv'
<1> USE PresenceAssumption DEF ConnectAgain, Connected, roomVars
<1>1. RtTypeOK'
  BY DEF RoomsInv, RtTypeOK, Handlers
<1>2. Young' /\ Acknowledged' /\ Sessions'
  BY DEF RoomsInv, RtTypeOK, Handlers, Young, Acknowledged, Sessions
<1>3. Unseen' /\ NobodyMissed' /\ CloseIsSeen'
  BY SameRooms DEF RoomsInv, RtTypeOK
<1>4. TrackedIsOpen'
  BY DEF RoomsInv, RtTypeOK, TrackedIsOpen, OpenDocs
<1> QED
  BY <1>1, <1>2, <1>3, <1>4 DEF RoomsInv

LEMMA AcceptedStep == ASSUME RoomsInv, NEW s \in Sockets, Accepted(s) PROVE RoomsInv'
<1> USE PresenceAssumption DEF Accepted, SaveSession, roomVars
<1>1. acks[s] = 0 /\ acks'[s] = 1 /\ cur'[s] = 1 /\ conn'[s] = "on"
  BY DEF RoomsInv, RtTypeOK, Young
<1>2. RtTypeOK'
  BY <1>1 DEF RoomsInv, RtTypeOK, Handlers, Acks
<1>3. Young' /\ Acknowledged'
  BY <1>1 DEF RoomsInv, RtTypeOK, Young, Acknowledged, Acks
<1>4. Sessions'
  <2>1. /\ s \notin reack
        /\ \A h \in opening : h.socket # s
    BY DEF RoomsInv, RtTypeOK, Sessions
  <2>2. /\ reack' = reack /\ opening' = opening
        /\ \A t \in Sockets : t # s => conn'[t] = conn[t] /\ acks'[t] = acks[t] /\ cur'[t] = cur[t]
        /\ \A h \in opening : h.socket \in Sockets
    BY DEF RoomsInv, RtTypeOK, Handlers
  <2> QED
    BY <1>1, <2>1, <2>2 DEF RoomsInv, RtTypeOK, Sessions
<1>5. Unseen' /\ NobodyMissed' /\ CloseIsSeen'
  BY SameRooms DEF RoomsInv, RtTypeOK
<1>6. TrackedIsOpen'
  <2>1. tracked'[s][cur'[s]] = {}
    BY <1>1 DEF RoomsInv, RtTypeOK, Young, Acks
  <2>2. \A d \in Docs : <<s, d>> \notin viewing'
    BY DEF RoomsInv, RtTypeOK
  <2>3. \A t \in Sockets :
          t # s => conn'[t] = conn[t] /\ acks'[t] = acks[t] /\ cur'[t] = cur[t]
    BY DEF RoomsInv, RtTypeOK
  <2> QED
    BY <2>1, <2>2, <2>3 DEF RoomsInv, TrackedIsOpen, Connected, OpenDocs
<1> QED
  BY <1>2, <1>3, <1>4, <1>5, <1>6 DEF RoomsInv

LEMMA AcceptedAgainStep == ASSUME RoomsInv, NEW s \in Sockets, AcceptedAgain(s) PROVE RoomsInv'
<1> USE PresenceAssumption DEF AcceptedAgain, SaveSession, Connected, roomVars
<1>1. acks[s] \in 1..(MaxAcks - 1) /\ acks'[s] = acks[s] + 1 /\ cur'[s] = acks[s] + 1
  <2>1. acks[s] # 0
    BY DEF RoomsInv, RtTypeOK, Acknowledged
  <2> QED
    BY <2>1 DEF RoomsInv, RtTypeOK, Sessions
<1>2. RtTypeOK'
  BY <1>1 DEF RoomsInv, RtTypeOK, Handlers, Acks
<1>3. Young' /\ Acknowledged'
  BY <1>1 DEF RoomsInv, RtTypeOK, Young, Acknowledged, Acks
<1>4. Sessions'
  BY <1>1 DEF RoomsInv, RtTypeOK, Handlers, Sessions, Acks
<1>5. Unseen' /\ NobodyMissed' /\ CloseIsSeen'
  BY SameRooms DEF RoomsInv, RtTypeOK
<1>6. TrackedIsOpen'
  BY <1>1 DEF RoomsInv, RtTypeOK, TrackedIsOpen, OpenDocs
<1> QED
  BY <1>2, <1>3, <1>4, <1>5, <1>6 DEF RoomsInv

LEMMA RefusedStep == ASSUME RoomsInv, NEW s \in Sockets, Refused(s) PROVE RoomsInv'
<1> USE PresenceAssumption DEF Refused
<1>1. RtTypeOK'
  BY DEF RoomsInv, RtTypeOK, Handlers
<1>2. Young' /\ Acknowledged' /\ Sessions'
  BY DEF RoomsInv, RtTypeOK, Handlers, Young, Acknowledged, Sessions
<1>3. Unseen' /\ NobodyMissed' /\ CloseIsSeen'
  BY Leaves
<1>4. TrackedIsOpen'
  BY DEF RoomsInv, RtTypeOK, TrackedIsOpen, Connected, OpenDocs
<1> QED
  BY <1>1, <1>2, <1>3, <1>4 DEF RoomsInv

LEMMA LeaveRoomsStep == ASSUME RoomsInv, NEW s \in Sockets, LeaveRooms(s) PROVE RoomsInv'
<1> USE PresenceAssumption DEF LeaveRooms, sessionVars
<1>1. RtTypeOK'
  BY DEF RoomsInv, RtTypeOK, Handlers
<1>2. Young' /\ Acknowledged' /\ Sessions'
  BY DEF RoomsInv, RtTypeOK, Handlers, Young, Acknowledged, Sessions
<1>3. Unseen' /\ NobodyMissed' /\ CloseIsSeen'
  BY Leaves
<1>4. TrackedIsOpen'
  BY DEF RoomsInv, RtTypeOK, TrackedIsOpen, Connected, OpenDocs
<1> QED
  BY <1>1, <1>2, <1>3, <1>4 DEF RoomsInv

LEMMA DisconnectStep == ASSUME RoomsInv, NEW s \in Sockets, Disconnect(s) PROVE RoomsInv'
<1> USE PresenceAssumption DEF Disconnect, Connected, roomVars
<1>1. RtTypeOK'
  BY DEF RoomsInv, RtTypeOK, Handlers, Acks
<1>2. Young' /\ Acknowledged' /\ Sessions'
  BY DEF RoomsInv, RtTypeOK, Handlers, Young, Acknowledged, Sessions
<1>3. Unseen' /\ NobodyMissed' /\ CloseIsSeen'
  BY SameRooms DEF RoomsInv, RtTypeOK
<1>4. TrackedIsOpen'
  BY DEF RoomsInv, RtTypeOK, TrackedIsOpen, OpenDocs
<1> QED
  BY <1>1, <1>2, <1>3, <1>4 DEF RoomsInv

LEMMA OpenDocStep == ASSUME RoomsInv, NEW s \in Sockets, NEW d \in Docs, OpenDoc(s, d) PROVE RoomsInv'
<1> USE PresenceAssumption DEF OpenDoc, Connected, sessionVars
<1>1. RtTypeOK'
  BY DEF RoomsInv, RtTypeOK, Handlers
<1>2. Young' /\ Acknowledged' /\ Sessions'
  BY DEF RoomsInv, RtTypeOK, Handlers, Young, Acknowledged, Sessions
<1>3. Unseen' /\ NobodyMissed' /\ CloseIsSeen'
  BY SameRooms
<1>4. TrackedIsOpen'
  BY DEF RoomsInv, TrackedIsOpen, OpenDocs
<1> QED
  BY <1>1, <1>2, <1>3, <1>4 DEF RoomsInv

LEMMA OpenDeniedStep == ASSUME RoomsInv, NEW h \in opening, OpenDenied(h) PROVE RoomsInv'
<1> USE PresenceAssumption DEF OpenDenied, sessionVars
<1>1. RtTypeOK'
  BY DEF RoomsInv, RtTypeOK, Handlers
<1>2. Young' /\ Acknowledged' /\ Sessions'
  BY DEF RoomsInv, RtTypeOK, Handlers, Young, Acknowledged, Sessions
<1>3. Unseen' /\ NobodyMissed' /\ CloseIsSeen'
  BY SameRooms
<1>4. TrackedIsOpen'
  BY DEF RoomsInv, TrackedIsOpen, OpenDocs, Connected
<1> QED
  BY <1>1, <1>2, <1>3, <1>4 DEF RoomsInv

(* The steps that send lists. A list is made after the join, so a room that is
   told nothing holds one viewer, who was shown nobody that did not go. *)
LEMMA OpenGrantedStep == ASSUME RoomsInv, NEW h \in opening, OpenGranted(h) PROVE RoomsInv'
<1> DEFINE s == h.socket
           d == h.doc
<1> USE PresenceAssumption DEF OpenGranted, Track
<1>1. s \in Sockets /\ d \in Docs /\ h.session \in Acks /\ conn[s] \notin {"new", "auth"}
  BY DEF RoomsInv, RtTypeOK, Handlers, Sessions
<1>2. /\ viewing' \in SUBSET (Sockets \X Docs)
      /\ viewing \subseteq viewing'
      /\ viewing' = IF conn[s] = "on" THEN viewing \cup {<<s, d>>} ELSE viewing
  BY <1>1 DEF RoomsInv, RtTypeOK, JoinRoom, Connected
<1>3. shown' = Notified(viewing', s, d)
  OBVIOUS
<1>4. /\ shown' \in [Sockets -> [Docs -> SUBSET Users]]
      /\ \A t \in Sockets, e \in Docs :
           e # d \/ <<t, e>> \notin viewing' => shown'[t][e] = shown[t][e]
      /\ \/ /\ shown' = shown
            /\ \E t \in Sockets : ViewersIn(viewing', d) = {t} /\ UserOf[t] = UserOf[s]
         \/ \A t \in Sockets : <<t, d>> \in viewing' => shown'[t][d] = UsersIn(viewing', d)
  <2>1. shown \in [Sockets -> [Docs -> SUBSET Users]]
    BY DEF RoomsInv, RtTypeOK
  <2>2. s \in Sockets /\ d \in Docs /\ viewing' \in SUBSET (Sockets \X Docs)
    BY <1>1, <1>2
  <2> HIDE DEF s, d, OpenGranted, Track
  <2> QED
    BY ONLY <1>3, <2>1, <2>2, NotifiedFacts
<1>5. conn' = conn /\ acks' = acks /\ reack' = reack /\ opening' = opening \ {h} /\ todo' = todo
  OBVIOUS
<1>6. RtTypeOK'
  <2>1. viewing' \subseteq {t \in Sockets : conn'[t] \in {"on", "leaving"}} \X Docs
    BY <1>1, <1>2, <1>5 DEF RoomsInv, RtTypeOK
  <2>2. cur' \in [Sockets -> Acks] /\ tracked' \in [Sockets -> [Acks -> SUBSET Docs]]
    BY <1>1 DEF RoomsInv, RtTypeOK
  <2> QED
    BY <1>4, <1>5, <2>1, <2>2 DEF RoomsInv, RtTypeOK
<1>7. Young' /\ Acknowledged'
  BY <1>1, <1>5 DEF RoomsInv, RtTypeOK, Young, Acknowledged
<1>8. Sessions'
  BY <1>1, <1>5 DEF RoomsInv, RtTypeOK, Handlers, Sessions
<1>9. Unseen'
  BY <1>2, <1>4, <1>5 DEF RoomsInv, Unseen
<1>10. NobodyMissed'
  <2> SUFFICES ASSUME NEW t \in Sockets, NEW w \in Sockets, NEW e \in Docs,
                      <<t, e>> \in viewing', <<w, e>> \in viewing', UserOf[t] # UserOf[w]
               PROVE  UserOf[w] \in shown'[t][e]
    BY DEF NobodyMissed
  <2>1. CASE e # d
    BY <1>1, <1>2, <1>4, <2>1 DEF RoomsInv, NobodyMissed
  <2>2. CASE e = d
    <3>1. t \in ViewersIn(viewing', d) /\ w \in ViewersIn(viewing', d) /\ t # w
      BY <2>2 DEF ViewersIn
    <3>2. shown'[t][d] = UsersIn(viewing', d)
      BY <1>4, <2>2, <3>1
    <3> QED
      BY <2>2, <3>1, <3>2 DEF UsersIn
  <2> QED
    BY <2>1, <2>2
<1>11. CloseIsSeen'
  <2> SUFFICES ASSUME NEW t \in Sockets, NEW e \in Docs, <<t, e>> \in viewing',
                      NEW u \in shown'[t][e], u \notin UsersIn(viewing', e)
               PROVE  \E x \in Sockets : conn[x] = "gone" /\ UserOf[x] = u
    BY <1>5 DEF CloseIsSeen
  <2>1. u \notin UsersIn(viewing, e)
    BY <1>2 DEF UsersIn, ViewersIn
  <2>2. shown'[t][e] = shown[t][e]
    BY <1>4
  <2>3. <<t, e>> \in viewing
    <3> SUFFICES ASSUME <<t, e>> \notin viewing PROVE FALSE
      OBVIOUS
    <3>1. t = s /\ conn[s] = "on"
      BY <1>2
    <3> QED
      BY <2>2, <3>1 DEF RoomsInv, Unseen
  <2> QED
    BY <2>1, <2>2, <2>3 DEF RoomsInv, CloseIsSeen
<1>12. TrackedIsOpen'
  <2> SUFFICES ASSUME NEW t \in Sockets, conn[t] = "on", acks[t] = 1
               PROVE  tracked'[t][cur'[t]] = {e \in Docs : <<t, e>> \in viewing'}
    BY <1>5 DEF TrackedIsOpen, Connected, OpenDocs
  <2>1. cur[t] = 1 /\ tracked[t][1] = {e \in Docs : <<t, e>> \in viewing}
    BY DEF RoomsInv, RtTypeOK, Sessions, TrackedIsOpen, Connected, OpenDocs, Acks
  <2>2. CASE t # s
    BY <1>1, <1>2, <2>1, <2>2 DEF RoomsInv, RtTypeOK
  <2>3. CASE t = s
    <3>1. h.session = 1
      BY <2>3 DEF RoomsInv, RtTypeOK, Sessions, Handlers, Acks
    <3>2. cur'[t] = 1 /\ tracked'[t][1] = tracked[t][1] \cup {d}
      BY <1>1, <2>1, <2>3, <3>1 DEF RoomsInv, RtTypeOK
    <3> QED
      BY <1>1, <1>2, <2>1, <2>3, <3>2
  <2> QED
    BY <2>2, <2>3
<1> QED
  BY <1>6, <1>7, <1>8, <1>9, <1>10, <1>11, <1>12 DEF RoomsInv

(* Who closed a document is not in its room when the list is made: whoever stays
   is sent one without them, unless it is their own other socket. *)
LEMMA CloseDocStep == ASSUME RoomsInv, NEW s \in Sockets, NEW d \in Docs, CloseDoc(s, d) PROVE RoomsInv'
<1> DEFINE N == Notified(viewing', s, d)
<1> USE PresenceAssumption
<1>1. /\ viewing' \in SUBSET (Sockets \X Docs)
      /\ viewing' = viewing \ {<<s, d>>}
      /\ conn[s] = "on" /\ cur[s] \in Acks
  BY DEF CloseDoc, RoomsInv, RtTypeOK, Connected
<1>2. /\ N \in [Sockets -> [Docs -> SUBSET Users]]
      /\ \A t \in Sockets, e \in Docs :
           e # d \/ <<t, e>> \notin viewing' => N[t][e] = shown[t][e]
      /\ \/ /\ N = shown
            /\ \E t \in Sockets : ViewersIn(viewing', d) = {t} /\ UserOf[t] = UserOf[s]
         \/ \A t \in Sockets : <<t, d>> \in viewing' => N[t][d] = UsersIn(viewing', d)
  <2>1. shown \in [Sockets -> [Docs -> SUBSET Users]]
    BY DEF RoomsInv, RtTypeOK
  <2> QED
    BY ONLY <1>1, <2>1, NotifiedFacts
<1>3. shown' = [N EXCEPT ![s][d] = {}]
  BY DEF CloseDoc, Forgets
<1> HIDE DEF N
<1>4. /\ shown' \in [Sockets -> [Docs -> SUBSET Users]]
      /\ shown'[s][d] = {}
      /\ \A t \in Sockets, e \in Docs : t # s \/ e # d => shown'[t][e] = N[t][e]
  BY <1>2, <1>3
<1>5. /\ conn' = conn /\ acks' = acks /\ cur' = cur /\ reack' = reack
      /\ opening' = opening /\ todo' = todo
      /\ tracked' = [tracked EXCEPT ![s][cur[s]] = @ \ {d}]
  BY DEF CloseDoc
<1>6. RtTypeOK'
  <2>1. tracked' \in [Sockets -> [Acks -> SUBSET Docs]]
    BY <1>1, <1>5 DEF RoomsInv, RtTypeOK
  <2> QED
    BY <1>1, <1>4, <1>5, <2>1 DEF RoomsInv, RtTypeOK
<1>7. Young' /\ Acknowledged' /\ Sessions'
  BY <1>1, <1>5 DEF RoomsInv, RtTypeOK, Young, Acknowledged, Sessions
<1>8. Unseen'
  <2> SUFFICES ASSUME NEW t \in Sockets, NEW e \in Docs, conn[t] \in {"new", "auth", "on"},
                      <<t, e>> \notin viewing'
               PROVE  shown'[t][e] = {}
    BY <1>5 DEF Unseen
  <2>1. CASE t = s /\ e = d
    BY <1>4, <2>1
  <2>2. CASE t # s \/ e # d
    BY <1>1, <1>2, <1>4, <2>2 DEF RoomsInv, Unseen
  <2> QED
    BY <2>1, <2>2
<1>9. NobodyMissed'
  <2> SUFFICES ASSUME NEW t \in Sockets, NEW w \in Sockets, NEW e \in Docs,
                      <<t, e>> \in viewing', <<w, e>> \in viewing', UserOf[t] # UserOf[w]
               PROVE  UserOf[w] \in shown'[t][e]
    BY DEF NobodyMissed
  <2>1. shown'[t][e] = N[t][e]
    BY <1>1, <1>4
  <2>2. CASE e # d
    BY <1>1, <1>2, <2>1, <2>2 DEF RoomsInv, NobodyMissed
  <2>3. CASE e = d
    <3>1. t \in ViewersIn(viewing', d) /\ w \in ViewersIn(viewing', d) /\ t # w
      BY <2>3 DEF ViewersIn
    <3>2. N[t][d] = UsersIn(viewing', d)
      BY <1>2, <2>3, <3>1
    <3> QED
      BY <2>1, <2>3, <3>1, <3>2 DEF UsersIn
  <2> QED
    BY <2>2, <2>3
<1>10. CloseIsSeen'
  <2> SUFFICES ASSUME NEW t \in Sockets, NEW e \in Docs, <<t, e>> \in viewing',
                      NEW u \in shown'[t][e], u \notin UsersIn(viewing', e)
               PROVE  \E x \in Sockets : conn[x] = "gone" /\ UserOf[x] = u
    BY <1>5 DEF CloseIsSeen
  <2>1. shown'[t][e] = N[t][e] /\ <<t, e>> \in viewing
    BY <1>1, <1>4
  <2>2. CASE e # d
    <3>1. UsersIn(viewing', e) = UsersIn(viewing, e)
      BY <1>1, <2>2 DEF UsersIn, ViewersIn
    <3> QED
      BY <1>2, <2>1, <2>2, <3>1 DEF RoomsInv, CloseIsSeen
  <2>3. CASE e = d
    <3>1. /\ N = shown
          /\ \E x \in Sockets : ViewersIn(viewing', d) = {x} /\ UserOf[x] = UserOf[s]
      BY <1>2, <2>1, <2>3
    <3>2. t \in ViewersIn(viewing', d)
      BY <2>3 DEF ViewersIn
    <3>3. UserOf[t] = UserOf[s] /\ UserOf[t] \in UsersIn(viewing', d)
      BY <3>1, <3>2 DEF UsersIn
    <3>4. \A x \in Sockets : <<x, d>> \in viewing /\ x # s => x \in ViewersIn(viewing', d)
      BY <1>1 DEF ViewersIn
    <3>5. u \notin UsersIn(viewing, d)
      BY <2>3, <3>3, <3>4 DEF UsersIn, ViewersIn
    <3> QED
      BY <2>1, <2>3, <3>1, <3>5 DEF RoomsInv, CloseIsSeen
  <2> QED
    BY <2>2, <2>3
<1>11. TrackedIsOpen'
  <2> SUFFICES ASSUME NEW t \in Sockets, conn[t] = "on", acks[t] = 1
               PROVE  tracked'[t][cur[t]] = {e \in Docs : <<t, e>> \in viewing'}
    BY <1>5 DEF TrackedIsOpen, Connected, OpenDocs
  <2>1. cur[t] \in Acks /\ tracked[t][cur[t]] = {e \in Docs : <<t, e>> \in viewing}
    BY DEF RoomsInv, RtTypeOK, TrackedIsOpen, Connected, OpenDocs
  <2>2. tracked'[t][cur[t]] = IF t = s THEN tracked[t][cur[t]] \ {d} ELSE tracked[t][cur[t]]
    <3>1. tracked \in [Sockets -> [Acks -> SUBSET Docs]]
      BY DEF RoomsInv, RtTypeOK
    <3>2. CASE t = s
      BY <1>1, <1>5, <3>1, <3>2
    <3>3. CASE t # s
      BY <1>1, <1>5, <3>1, <3>3
    <3> QED
      BY <3>2, <3>3
  <2> QED
    BY <1>1, <2>1, <2>2
<1> QED
  BY <1>6, <1>7, <1>8, <1>9, <1>10, <1>11 DEF RoomsInv

LEMMA AnnounceStep == ASSUME RoomsInv, NEW s \in Sockets, NEW d \in Docs, Announce(s, d) PROVE RoomsInv'
<1> USE PresenceAssumption DEF Announce, sessionVars
<1>1. viewing' = viewing /\ viewing' \in SUBSET (Sockets \X Docs)
  BY DEF RoomsInv, RtTypeOK
<1>2. shown' = Notified(viewing', s, d)
  BY <1>1
<1>3. /\ shown' \in [Sockets -> [Docs -> SUBSET Users]]
      /\ \A t \in Sockets, e \in Docs :
           e # d \/ <<t, e>> \notin viewing' => shown'[t][e] = shown[t][e]
      /\ shown' # shown =>
           \A t \in Sockets : <<t, d>> \in viewing' => shown'[t][d] = UsersIn(viewing', d)
  <2>1. shown \in [Sockets -> [Docs -> SUBSET Users]]
    BY DEF RoomsInv, RtTypeOK
  <2> QED
    BY ONLY <1>1, <1>2, <2>1, NotifiedFacts
<1>4. RtTypeOK'
  BY <1>1, <1>3 DEF RoomsInv, RtTypeOK, Handlers
<1>5. Young' /\ Acknowledged' /\ Sessions'
  BY DEF RoomsInv, RtTypeOK, Handlers, Young, Acknowledged, Sessions
<1>6. Unseen'
  BY <1>1, <1>3 DEF RoomsInv, Unseen
<1>7. NobodyMissed'
  <2> SUFFICES ASSUME NEW t \in Sockets, NEW w \in Sockets, NEW e \in Docs,
                      <<t, e>> \in viewing, <<w, e>> \in viewing, UserOf[t] # UserOf[w]
               PROVE  UserOf[w] \in shown'[t][e]
    BY <1>1 DEF NobodyMissed
  <2>1. CASE shown'[t][e] = shown[t][e]
    BY <2>1 DEF RoomsInv, NobodyMissed
  <2>2. CASE shown'[t][e] # shown[t][e]
    <3>1. e = d /\ shown'[t][e] = UsersIn(viewing, e)
      BY <1>1, <1>3, <2>2
    <3> QED
      BY <3>1 DEF UsersIn, ViewersIn
  <2> QED
    BY <2>1, <2>2
<1>8. CloseIsSeen'
  BY <1>1, <1>3 DEF RoomsInv, CloseIsSeen
<1>9. TrackedIsOpen'
  BY <1>1 DEF RoomsInv, TrackedIsOpen, OpenDocs, Connected
<1> QED
  BY <1>4, <1>5, <1>6, <1>7, <1>8, <1>9 DEF RoomsInv

-----------------------------------------------------------------------------
(* The inductive invariant: whoever connects, opens, closes and goes, in every
   order their checks are answered. *)
THEOREM RoomsInductive == RtSpec => []RoomsInv
<1>1. RtInit => RoomsInv
  BY InitInvariant
<1>2. RoomsInv /\ [RtNext]_rtVars => RoomsInv'
  <2> SUFFICES ASSUME RoomsInv, [RtNext]_rtVars PROVE RoomsInv'
    OBVIOUS
  <2>1. ASSUME NEW s \in Sockets, Connect(s) PROVE RoomsInv'
    BY <2>1, ConnectStep
  <2>2. ASSUME NEW s \in Sockets, ConnectAgain(s) PROVE RoomsInv'
    BY <2>2, ConnectAgainStep
  <2>3. ASSUME NEW s \in Sockets, Accepted(s) PROVE RoomsInv'
    BY <2>3, AcceptedStep
  <2>4. ASSUME NEW s \in Sockets, AcceptedAgain(s) PROVE RoomsInv'
    BY <2>4, AcceptedAgainStep
  <2>5. ASSUME NEW s \in Sockets, Refused(s) PROVE RoomsInv'
    BY <2>5, RefusedStep
  <2>6. ASSUME NEW s \in Sockets, Disconnect(s) PROVE RoomsInv'
    BY <2>6, DisconnectStep
  <2>7. ASSUME NEW s \in Sockets, LeaveRooms(s) PROVE RoomsInv'
    BY <2>7, LeaveRoomsStep
  <2>8. ASSUME NEW s \in Sockets, NEW d \in Docs, OpenDoc(s, d) PROVE RoomsInv'
    BY <2>8, OpenDocStep
  <2>9. ASSUME NEW s \in Sockets, NEW d \in Docs, CloseDoc(s, d) PROVE RoomsInv'
    BY <2>9, CloseDocStep
  <2>10. ASSUME NEW s \in Sockets, NEW d \in Docs, Announce(s, d) PROVE RoomsInv'
    BY <2>10, AnnounceStep
  <2>11. ASSUME NEW h \in opening, OpenDenied(h) PROVE RoomsInv'
    BY <2>11, OpenDeniedStep
  <2>12. ASSUME NEW h \in opening, OpenGranted(h) PROVE RoomsInv'
    BY <2>12, OpenGrantedStep
  <2>13. CASE UNCHANGED rtVars
    <3> USE <2>13 DEF rtVars, sessionVars, roomVars, RoomsInv
    <3>1. RtTypeOK' /\ Young' /\ Acknowledged' /\ Sessions'
      BY DEF RtTypeOK, Young, Acknowledged, Sessions
    <3>2. Unseen' /\ NobodyMissed' /\ CloseIsSeen'
      BY SameRooms
    <3>3. TrackedIsOpen'
      BY DEF TrackedIsOpen, OpenDocs, Connected
    <3> QED
      BY <3>1, <3>2, <3>3
  <2> QED
    BY <2>1, <2>2, <2>3, <2>4, <2>5, <2>6, <2>7, <2>8, <2>9, <2>10, <2>11, <2>12, <2>13 DEF RtNext
<1> QED
  BY <1>1, <1>2, PTL DEF RtSpec

(* Every variable keeps its type, and only a socket Socket.IO still knows is in a
   room, however late its permission check is answered. *)
THEOREM RoomsTypeCorrect == RtSpec => []RtTypeOK
BY RoomsInductive, PTL DEF RoomsInv

(* Two people with one document open know of each other. *)
THEOREM NobodyMissedHolds == RtSpec => []NobodyMissed
BY RoomsInductive, PTL DEF RoomsInv

(* A doc_close is always told to whoever stays. *)
THEOREM CloseIsSeenHolds == RtSpec => []CloseIsSeen
BY RoomsInductive, PTL DEF RoomsInv

(* What a socket that was acked once would announce on a disconnect is what it
   has open. *)
THEOREM TrackedIsOpenHolds == RtSpec => []TrackedIsOpen
BY RoomsInductive, PTL DEF RoomsInv
=============================================================================
