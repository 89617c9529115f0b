------------------------------ MODULE AppTools ------------------------------
(***************************************************************************)
(* frappe-test, frappe-demo and frappe-shots on the bench of one dev       *)
(* shell: each brings the bench up if it is down, prepares a site, works   *)
(* on it and, but for frappe-demo, stops a bench it started.               *)
(*                                                                         *)
(* A tool is a process, and nothing keeps two of them, or a tool and the   *)
(* developer, off the same bench, site and reports: each looks first and   *)
(* acts later. Waits for the bench end at a deadline; every command a tool *)
(* runs may fail; ^C runs the tool's cleanup and SIGKILL does not. devenv, *)
(* process-compose, bench provision and the checks are external.           *)
(*                                                                         *)
(* A run of a tool is a number. A site, a bench that is up, and a file     *)
(* under --out are known by the run that made them. A definition right     *)
(* before another that it is named after varies it, for a mutation.        *)
(***************************************************************************)
EXTENDS Integers, Sequences

CONSTANTS
  Tools,        \* processes that run the tools
  Lines,        \* Lines[t]: the command lines tool t is given
  Planned,      \* the stages the app's configuration turns on
  MaxRuns,      \* bound: runs of tools
  MaxFaults,    \* bound: failures that nothing in the model causes, ^C, SIGKILL
  MaxUser       \* bound: what the developer does meanwhile

Stages == {"tests", "coverage", "testmap", "composition", "ty", "nix-lint", "shell-checks"}

\* consent: what the command line, or CI, says of an existing site; ask is nothing. on
\* and off: the stages turned on and off by name.
TestLines ==
  [kind : {"test"}, consent : {"ask", "recreate", "reuse", "ci"}, keep : BOOLEAN,
   filtered : BOOLEAN, on : SUBSET Stages, off : SUBSET Stages]
DemoLines ==
  [kind : {"demo"}, consent : {"ask", "recreate", "ci"}, fresh : BOOLEAN, up : BOOLEAN]
ShotsLines ==
  [kind : {"shots"}, consent : {"ask", "recreate", "reuse", "ci"}]
CommandLines == TestLines \cup DemoLines \cup ShotsLines

ASSUME AppToolsAssumption ==
  /\ Lines \in [Tools -> SUBSET CommandLines]
  /\ Planned \subseteq Stages
  /\ MaxRuns \in Nat /\ MaxFaults \in Nat /\ MaxUser \in Nat

User == 0               \* a site the developer made, a bench the developer brought up
None == -1
Runs == 1..MaxRuns
Makers == {User, None} \cup Runs

VARIABLES
  bench,    \* by whom the bench was brought up, or None: process-compose does not answer
  apps,     \* the bench's app processes run
  site,     \* whose sites/<site> is
  out,      \* what --out holds: the coverage data and the report
  tool,     \* what each tool does
  torn,     \* a run was cut while it kept the app processes stopped (history)
  runs, faults, users

vars == <<bench, apps, site, out, tool, torn, runs, faults, users>>

NoReport == [run |-> None, code |-> 0]

Idle == [at |-> "idle", run |-> None, line |-> [kind |-> "none"], saw |-> None,
         said |-> FALSE, found |-> FALSE, own |-> FALSE, halted |-> FALSE, bad |-> {},
         env |-> FALSE, have |-> FALSE, judged |-> None, code |-> 0, cut |-> "no"]

-----------------------------------------------------------------------------
(***************************************************************************)
(* What a command line comes to.                                           *)
(***************************************************************************)
Kind(t) == tool[t].line.kind
At(t, phase) == tool[t].at = phase

\* The command line's word, else --ci's plan, else the interactive default.
Defaults == {"coverage", "testmap", "composition"}
On(line, stage) ==
  IF stage = "tests" THEN line.consent = "ci" => stage \in Planned
  ELSE /\ stage \notin line.off
       /\ \/ stage \in line.on
          \/ stage \in IF line.consent = "ci" THEN Planned ELSE Defaults

\* The first failing stage's verdict, in the order of the stages.
Verdicts == <<"tests", "coverage", "testmap", "composition", "ty", "nix-lint", "shell-checks">>
Verdict(bad, env) ==
  IF env THEN 10
  ELSE IF bad = {} THEN 0
  ELSE CHOOSE i \in DOMAIN Verdicts :
         Verdicts[i] \in bad /\ \A j \in 1..(i-1) : Verdicts[j] \notin bad

\* The line drops the site that is there, without a word to say so.
TestAsks(line)  == line.consent = "ask" /\ site # None
DemoAsks(line)  == line.consent = "ask" /\ site # None /\ line.fresh
ShotsNeverAsks(line) == FALSE
ShotsAsks(line) == line.consent = "ask" /\ site # None
MustAsk(line) ==
  CASE line.kind = "test"  -> TestAsks(line)
    [] line.kind = "demo"  -> DemoAsks(line)
    [] line.kind = "shots" -> ShotsAsks(line)

\* The site has to be made: bench provision drops one that is there.
Recreates(line) ==
  CASE line.kind = "test"  -> line.consent # "reuse" \/ site = None
    [] line.kind = "demo"  -> line.fresh \/ site = None
    [] line.kind = "shots" -> TRUE

-----------------------------------------------------------------------------
Init ==
  /\ bench \in {None, User}
  /\ apps = (bench # None)
  /\ site \in {None, User}
  /\ out = [cov |-> None, report |-> NoReport]
  /\ tool = [t \in Tools |-> Idle]
  /\ torn = FALSE /\ runs = 0 /\ faults = 0 /\ users = 0

Fault == faults < MaxFaults /\ faults' = faults + 1
Counted == UNCHANGED <<torn, runs, users>>
Goes(t, phase) == tool' = [tool EXCEPT ![t].at = phase]

\* What is still known of a run that is over.
Ended(r, code, cut) ==
  [Idle EXCEPT !.run = r.run, !.line = r.line, !.found = r.found, !.judged = r.judged,
               !.code = code, !.cut = cut]

\* The tool ends, with what its cleanup needs. frappe-test reports an environment
\* failure before it ends; frappe-demo has nothing to clean up.
Failed(r) ==
  CASE r.line.kind = "test"  -> [r EXCEPT !.at = "report", !.env = TRUE]
    [] r.line.kind = "demo"  -> Ended(r, 10, "no")
    [] r.line.kind = "shots" -> [r EXCEPT !.at = "finally", !.code = 3]
Fails(t) == tool' = [tool EXCEPT ![t] = Failed(@)]

\* What a run starts on, once nothing speaks against it. frappe-test removes what an
\* earlier run left in --out.
Begun(r) ==
  [r EXCEPT !.at = CASE r.line.kind = "test"  -> "plan"
                     [] r.line.kind = "shots" -> "first"
                     [] r.line.kind = "demo"  -> IF r.line.up THEN "up" ELSE "site"]
LeavesOut(r) == out
Cleared(r) ==
  IF r.line.kind = "test" THEN [cov |-> None, report |-> NoReport] ELSE out

Refused(r) == Ended(r, 64, "no")

\* The command line, and the question whether an existing site may be dropped: on a
\* terminal it is asked, else the run is refused, as it is for much else: a line that
\* makes no sense, a module that is off, a configuration that cannot be read.
Start(t, line) ==
  /\ At(t, "idle") /\ runs < MaxRuns
  /\ runs' = runs + 1
  /\ LET r == [Idle EXCEPT !.run = runs + 1, !.line = line, !.saw = site,
                           !.said = line.consent \in {"recreate", "ci"}]
     IN \/ /\ ~MustAsk(line)
           /\ tool' = [tool EXCEPT ![t] = Begun(r)]
           /\ out' = Cleared(r)
        \/ /\ MustAsk(line)
           /\ tool' = [tool EXCEPT ![t] = [r EXCEPT !.at = "prompt"]]
           /\ out' = out
        \/ /\ tool' = [tool EXCEPT ![t] = Refused(r)]
           /\ out' = out
  /\ UNCHANGED <<bench, apps, site, torn, faults, users>>

Answer(t) ==
  /\ At(t, "prompt")
  /\ \/ /\ tool' = [tool EXCEPT ![t] = [Begun(@) EXCEPT !.said = TRUE]]
        /\ out' = Cleared(tool[t])
     \/ /\ tool' = [tool EXCEPT ![t] = Refused(@)]
        /\ out' = out
  /\ Counted /\ UNCHANGED <<bench, apps, site, faults>>

-----------------------------------------------------------------------------
(***************************************************************************)
(* The bench.                                                              *)
(***************************************************************************)
\* frappe-test reads its plan, and looks for the modules it needs, before anything
\* starts. With the tests module off it starts no bench.
ReadPlan(t) ==
  /\ At(t, "plan")
  /\ \/ /\ Goes(t, IF On(tool[t].line, "tests") THEN "up" ELSE "checks")
        /\ faults' = faults
     \/ Fails(t) /\ Fault
  /\ Counted /\ UNCHANGED <<bench, apps, site, out>>

\* frappe-shots asks whether the bench is up, then has frappe-demo ask again.
First(t) ==
  /\ At(t, "first")
  /\ LET r == [tool[t] EXCEPT !.found = bench # None]
     IN tool' = [tool EXCEPT ![t] =
          IF r.line.consent # "reuse" THEN [r EXCEPT !.at = "up", !.own = bench = None]
          ELSE IF bench # None THEN [r EXCEPT !.at = "web"]
          ELSE Failed(r)]
  /\ Counted /\ UNCHANGED <<bench, apps, site, out, faults>>

Up(t) ==
  /\ At(t, "up")
  /\ tool' = [tool EXCEPT ![t] =
       [@ EXCEPT !.at = IF bench # None THEN "wait" ELSE "devenv",
                 !.found = IF Kind(t) = "shots" THEN tool[t].found ELSE bench # None]]
  /\ Counted /\ UNCHANGED <<bench, apps, site, out, faults>>

\* devenv up -D. Beside a bench that came up meanwhile it attaches, or fails; by
\* itself it brings the bench up, or fails with the bench up or down.
BringsUp(t) == IF bench = None THEN bench' = tool[t].run /\ apps' = TRUE
               ELSE UNCHANGED <<bench, apps>>
Devenv(t) ==
  /\ At(t, "devenv")
  /\ \/ /\ BringsUp(t)
        /\ tool' = [tool EXCEPT ![t].at = "wait",
                                ![t].own = IF Kind(t) = "test" THEN ~tool[t].line.keep ELSE @]
        /\ faults' = faults
     \/ /\ BringsUp(t) \/ UNCHANGED <<bench, apps>>
        /\ IF Kind(t) = "test" THEN Goes(t, "undo") ELSE Fails(t)
        /\ IF bench = None THEN Fault ELSE faults' = faults
  /\ Counted /\ UNCHANGED <<site, out>>

TakeDownLeaves == bench' = None /\ apps' = apps
TakeDown == bench' = None /\ apps' = FALSE

\* "Whatever it did start before failing is ours to stop."
UndoNothing(t) ==
  /\ At(t, "undo") /\ Fails(t)
  /\ Counted /\ UNCHANGED <<bench, apps, site, out, faults>>
Undo(t) ==
  /\ At(t, "undo") /\ TakeDown /\ Fails(t)
  /\ Counted /\ UNCHANGED <<site, out, faults>>

\* The database and then the web server answer, or the deadline passes. So does
\* frappe-shots wait for the web server when the demo is made.
WaitForever(t) ==
  /\ At(t, "wait") \/ At(t, "web")
  /\ bench # None /\ Goes(t, IF At(t, "wait") THEN "site" ELSE "shoot")
  /\ Counted /\ UNCHANGED <<bench, apps, site, out, faults>>
Wait(t) ==
  /\ At(t, "wait") \/ At(t, "web")
  /\ \/ /\ bench # None /\ Goes(t, IF At(t, "wait") THEN "site" ELSE "shoot")
        /\ faults' = faults
     \/ bench = None /\ Fails(t) /\ faults' = faults
     \/ bench # None /\ Fails(t) /\ Fault
  /\ Counted /\ UNCHANGED <<bench, apps, site, out>>

-----------------------------------------------------------------------------
(***************************************************************************)
(* The site: bench provision with the app processes stopped meanwhile.     *)
(***************************************************************************)
SiteReady(t) == IF Kind(t) = "test" THEN "setup" ELSE "data"

Site(t) ==
  /\ At(t, "site")
  /\ IF Recreates(tool[t].line)
     THEN /\ tool' = [tool EXCEPT ![t].at = "drop", ![t].halted = bench # None]
          /\ apps' = FALSE
     ELSE Goes(t, SiteReady(t)) /\ apps' = apps
  /\ Counted /\ UNCHANGED <<bench, site, out, faults>>

\* new-site --force: without a database it fails before it drops anything.
Drop(t) ==
  /\ At(t, "drop")
  /\ IF bench # None
     THEN Goes(t, "make") /\ site' = tool[t].run
     ELSE tool' = [tool EXCEPT ![t].at = "again", ![t].env = TRUE] /\ site' = site
  /\ Counted /\ UNCHANGED <<bench, apps, out, faults>>

\* It installs the apps, which the reconciliation of an app process that starts would
\* install beside it.
Make(t) ==
  /\ At(t, "make")
  /\ \/ /\ bench # None /\ site = tool[t].run
        /\ Goes(t, "again") /\ faults' = faults
     \/ /\ tool' = [tool EXCEPT ![t].at = "again", ![t].env = TRUE]
        /\ IF bench = None \/ site # tool[t].run \/ apps THEN faults' = faults ELSE Fault
  /\ Counted /\ UNCHANGED <<bench, apps, site, out>>

\* The processes that were stopped are started, whatever became of the site.
AgainIfMade(t) ==
  /\ At(t, "again")
  /\ apps' = (apps \/ (tool[t].halted /\ bench # None /\ ~tool[t].env))
  /\ IF tool[t].env THEN Fails(t) ELSE Goes(t, SiteReady(t))
  /\ Counted /\ UNCHANGED <<bench, site, out, faults>>
Again(t) ==
  /\ At(t, "again")
  /\ apps' = (apps \/ (tool[t].halted /\ bench # None))
  /\ IF tool[t].env THEN Fails(t) ELSE Goes(t, SiteReady(t))
  /\ Counted /\ UNCHANGED <<bench, site, out, faults>>

-----------------------------------------------------------------------------
(***************************************************************************)
(* frappe-test's stages. What fails is in bad, by the name of its stage.   *)
(***************************************************************************)
Ends(t, next, good, stage) ==
  tool' = [tool EXCEPT ![t].at = next, ![t].bad = IF good THEN @ ELSE @ \cup {stage}]

\* allow_tests and the app's setup steps.
Setup(t) ==
  /\ At(t, "setup")
  /\ \/ bench # None /\ site # None /\ Goes(t, "tests") /\ faults' = faults
     \/ Fails(t) /\ IF bench = None \/ site = None THEN faults' = faults ELSE Fault
  /\ Counted /\ UNCHANGED <<bench, apps, site, out>>

\* Tests that do not pass may have ended before coverage wrote its data.
Tests(t) ==
  /\ At(t, "tests")
  /\ \E good \in BOOLEAN, wrote \in BOOLEAN :
       /\ good => bench # None /\ wrote = On(tool[t].line, "coverage")
       /\ wrote => On(tool[t].line, "coverage")
       /\ Ends(t, "coverage", good, "tests")
       /\ out' = IF wrote THEN [out EXCEPT !.cov = tool[t].run] ELSE out
  /\ Counted /\ UNCHANGED <<bench, apps, site, faults>>

\* have: coverage.json was made, for the testmap. No gate on a part of the tests.
Coverage(t) ==
  /\ At(t, "coverage")
  /\ IF On(tool[t].line, "coverage") /\ out.cov # None
     THEN \E good, have \in BOOLEAN :
            /\ good => have \/ tool[t].line.filtered
            /\ ~good => ~tool[t].line.filtered
            /\ tool' = [tool EXCEPT ![t].at = "checks", ![t].have = have, ![t].judged = out.cov,
                                    ![t].bad = IF good THEN @ ELSE @ \cup {"coverage"}]
     ELSE Goes(t, "checks")
  /\ Counted /\ UNCHANGED <<bench, apps, site, out, faults>>

\* The stages after, each of which runs though one before it failed. They look at the
\* bench and the tree and change neither, so that all are one step.
Runnable(t, stage) ==
  /\ stage \notin {"tests", "coverage"} /\ On(tool[t].line, stage)
  /\ stage = "testmap" => tool[t].have /\ ~tool[t].line.filtered

Checks(t) ==
  /\ At(t, "checks")
  /\ \E failed \in SUBSET {s \in Stages : Runnable(t, s)} :
       tool' = [tool EXCEPT ![t].at = "report", ![t].bad = @ \cup failed]
  /\ Counted /\ UNCHANGED <<bench, apps, site, out, faults>>

Report(t) ==
  /\ At(t, "report")
  /\ LET code == Verdict(tool[t].bad, tool[t].env)
     IN /\ tool' = [tool EXCEPT ![t].at = "finally", ![t].code = code]
        /\ \/ out' = [out EXCEPT !.report = [run |-> tool[t].run, code |-> code]] /\ faults' = faults
           \/ out' = out /\ Fault
  /\ Counted /\ UNCHANGED <<bench, apps, site>>

-----------------------------------------------------------------------------
(***************************************************************************)
(* frappe-demo's data, frappe-shots' pictures, and the way out.            *)
(***************************************************************************)
\* The demo script, and for frappe-shots bench build after it.
Data(t) ==
  /\ At(t, "data")
  /\ \/ /\ bench # None /\ site # None
        /\ IF Kind(t) = "demo" THEN tool' = [tool EXCEPT ![t] = Ended(@, 0, "no")]
           ELSE Goes(t, "web")
        /\ faults' = faults
     \/ Fails(t) /\ IF bench = None \/ site = None THEN faults' = faults ELSE Fault
  /\ Counted /\ UNCHANGED <<bench, apps, site, out>>

Shoot(t) ==
  /\ At(t, "shoot")
  /\ \E code \in {0, 1} :
       /\ code = 0 => bench # None
       /\ tool' = [tool EXCEPT ![t].at = "finally", ![t].code = code]
  /\ Counted /\ UNCHANGED <<bench, apps, site, out, faults>>

FinallyStops(t) ==
  /\ At(t, "finally") /\ tool' = [tool EXCEPT ![t] = Ended(@, @.code, @.cut)] /\ TakeDown
  /\ Counted /\ UNCHANGED <<site, out, faults>>
Finally(t) ==
  /\ At(t, "finally") /\ tool' = [tool EXCEPT ![t] = Ended(@, @.code, @.cut)]
  /\ IF tool[t].own THEN TakeDown ELSE UNCHANGED <<bench, apps>>
  /\ Counted /\ UNCHANGED <<site, out, faults>>

Torn(t) == torn' = (torn \/ tool[t].at \in {"drop", "make", "again"})

\* ^C: the child ends with it, and the tool cleans up, unless it was about to. devenv may
\* have come so far that the bench comes up, and what stops it so far that it goes down.
Interrupt(t) ==
  /\ ~At(t, "idle") /\ Fault
  /\ LET cut == IF tool[t].at \in {"prompt", "devenv", "undo", "finally"} THEN tool[t].at ELSE "signal"
     IN tool' = [tool EXCEPT ![t] =
          IF At(t, "finally") THEN Ended(@, 1, cut)
          ELSE IF Kind(t) = "demo" \/ At(t, "prompt") THEN Ended(@, 130, cut)
          ELSE [@ EXCEPT !.at = "finally", !.code = 130, !.cut = cut]]
  /\ \/ UNCHANGED <<bench, apps>>
     \/ At(t, "devenv") /\ BringsUp(t)
     \/ (At(t, "undo") \/ (At(t, "finally") /\ tool[t].own)) /\ TakeDown
  /\ Torn(t) /\ UNCHANGED <<site, out, runs, users>>

\* SIGKILL, or the terminal is closed.
Kill(t) ==
  /\ ~At(t, "idle") /\ Fault
  /\ tool' = [tool EXCEPT ![t] = Ended(@, 137, IF @.at = "prompt" THEN "prompt" ELSE "killed")]
  /\ Torn(t) /\ UNCHANGED <<bench, apps, site, out, runs, users>>

-----------------------------------------------------------------------------
(***************************************************************************)
(* The developer: devenv up and frappe-test --down in another shell, and a *)
(* site made by hand.                                                      *)
(***************************************************************************)
Does == users < MaxUser /\ users' = users + 1 /\ UNCHANGED <<out, tool, torn, runs, faults>>

DevenvUp == bench = None /\ bench' = User /\ apps' = TRUE /\ Does /\ site' = site
Down     == bench # None /\ TakeDown /\ Does /\ site' = site
NewSite  == bench # None /\ site = None /\ site' = User /\ Does /\ UNCHANGED <<bench, apps>>

Step(t) ==
  \/ ReadPlan(t) \/ First(t) \/ Up(t) \/ Devenv(t) \/ Undo(t) \/ Wait(t)
  \/ Site(t) \/ Drop(t) \/ Make(t) \/ Again(t)
  \/ Setup(t) \/ Tests(t) \/ Coverage(t) \/ Checks(t) \/ Report(t)
  \/ Data(t) \/ Shoot(t) \/ Finally(t)

Next ==
  \/ \E t \in Tools :
       \/ \E line \in Lines[t] : Start(t, line)
       \/ Answer(t) \/ Step(t) \/ Interrupt(t) \/ Kill(t)
  \/ DevenvUp \/ Down \/ NewSite

Spec == Init /\ [][Next]_vars

\* A tool is a process that goes on, and everything it waits for has a deadline. What
\* it asks the developer has none.
FairSpec == Spec /\ \A t \in Tools : WF_vars(Step(t))

-----------------------------------------------------------------------------
(***************************************************************************)
(* Properties.                                                             *)
(***************************************************************************)
Phases == {"idle", "prompt", "plan", "first", "up", "devenv", "undo", "wait", "site", "drop",
           "make", "again", "setup", "data", "web", "shoot", "tests", "coverage", "checks",
           "report", "finally"}

\* The shapes of a run's record, of the bench and of what --out holds: a frappe-test
\* ends with the verdict of a stage, 10, 64 or a signal's status.
TypeOK ==
  /\ bench \in Makers /\ apps \in BOOLEAN /\ site \in Makers
  /\ out \in [cov : Makers, report : [run : Makers, code : 0..10]]
  /\ runs \in 0..MaxRuns /\ faults \in 0..MaxFaults /\ users \in 0..MaxUser /\ torn \in BOOLEAN
  /\ \A t \in Tools :
       LET r == tool[t] IN
       /\ r.at \in Phases /\ r.run \in Makers /\ r.saw \in Makers /\ r.judged \in Makers
       /\ r.line.kind = "none" \/ r.line \in Lines[t]
       /\ r.line.kind = "none" => r.at = "idle"
       /\ {r.said, r.found, r.own, r.halted, r.env, r.have} \subseteq BOOLEAN
       /\ r.bad \subseteq Stages /\ r.code \in 0..10 \cup {64, 130, 137}
       /\ r.cut \in {"no", "signal", "prompt", "devenv", "undo", "finally", "killed"}
  /\ apps => bench # None

\* "An existing site is only dropped when asked": the site that was there when a run
\* was started is not dropped by that run unless it was told to, in CI, by
\* --recreate-site or by a yes at the prompt, however long the bench took to come up.
AskedFirst ==
  [][\A t \in Tools : Drop(t) /\ site # None /\ site = tool[t].saw /\ site' # site
       => tool[t].said]_vars

\* A run leaves up the bench that it found up, whoever else stops it and brings it up
\* again in between.
FoundUpIsLeftUp ==
  [][\A t \in Tools : bench # None /\ bench' = None /\ tool'[t] # tool[t] => ~tool[t].found]_vars

\* The site and the bench that a run found are not its to drop and stop.
KeepsWhatWasThere == AskedFirst /\ FoundUpIsLeftUp

\* A bench that a run found down and started is down when the run is over: the test or
\* the pictures failed, ^C, or devenv failed half way. --keep-up leaves it, frappe-demo
\* always does; a kill, and a ^C while devenv brings the bench up or while it is stopped,
\* are the exceptions.
Over(t) == At(t, "idle") /\ tool[t].run # None
LeavesNothing ==
  \A t \in Tools :
    /\ Over(t) /\ ~tool[t].found /\ tool[t].cut \in {"no", "signal"}
    /\ Kind(t) = "shots" \/ (Kind(t) = "test" /\ ~tool[t].line.keep)
    => bench # tool[t].run

\* The app processes that a run stopped for bench provision run again once no run is
\* under way, unless one was cut by a signal.
AppsBack == (\A t \in Tools : At(t, "idle")) /\ bench # None /\ ~torn => apps

\* What --out holds is of the last frappe-test that went past its question: the report
\* gives the status it ended with, and the coverage gate judged data that its own
\* tests wrote, not what an earlier run left.
OutIsOfThisRun ==
  \A t \in Tools : Kind(t) = "test" =>
    /\ tool[t].judged \in {None, tool[t].run}
    /\ \/ out.report.run \in {None, tool[t].run}
       \/ At(t, "prompt") \/ tool[t].cut = "prompt" \/ tool[t].code = 64
    /\ Over(t) /\ out.report.run = tool[t].run /\ tool[t].cut = "no" => out.report.code = tool[t].code

\* When a run is over, what it started and stopped on the bench is as it was, and --out
\* tells of that run.
LeftAsPromised == LeavesNothing /\ AppsBack /\ OutIsOfThisRun

\* Every run ends, but for one that waits for the developer's answer.
RunEnds == \A t \in Tools : At(t, "plan") \/ At(t, "first") \/ At(t, "up") ~> At(t, "idle")

\* "(default: stop what this started)": what a run stops is a bench that it started.
\* False of the code: it asks whether the bench is up, and whoever brings it up before
\* the run's own devenv up is taken for that.
StopsItsOwn ==
  [][\A t \in Tools : bench # None /\ bench' = None /\ tool'[t] # tool[t]
       => bench = tool[t].run]_vars
=============================================================================
