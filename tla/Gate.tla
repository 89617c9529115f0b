-------------------------------- MODULE Gate --------------------------------
(***************************************************************************)
(* frappe-nix gate lint, typecheck and marketplace, one after another in   *)
(* one checkout of an app, as on a laptop or a runner that keeps it: the   *)
(* steps of a gate in their order, each skipped, judged or raising, the    *)
(* report at the end, and what a gate leaves in .dev-dist and in git for   *)
(* the next: the mini-bench, which both lint and typecheck make at one     *)
(* place, and the worktree that git knows of. What a step's own tool says  *)
(* is told by what is wrong with the app; git, yarn and the tools are      *)
(* external.                                                               *)
(***************************************************************************)
EXTENDS Integers, Sequences, FiniteSets

CONSTANTS
  MaxRuns,   \* bound: gates started
  MaxActs,   \* bound: what the developer does
  MaxFaults  \* bound: failures of the network or the disk, and kills

VARIABLES
  app,     \* [off |-> steps whose module or file the app lacks, bad |-> steps that something in the tree fails,
           \* head |-> those that something in HEAD does]
  dist,    \* the mini-bench: see Dists
  run,     \* the gate that runs, or the last that did
  reports, \* .dev-dist/gate/<gate>.json: the run that wrote it, and its status
  past,    \* history: [vacuous |-> a step passed on a bench not made for it, copied |-> doctypes has made its copy,
           \* cut |-> a kill while the mini-bench was made, stuck |-> a step failed by no fault, before either]
  runs, acts, faults

vars == <<app, dist, run, reports, past, runs, acts, faults>>

-----------------------------------------------------------------------------
StepsOf ==
  [lint        |-> <<"sync-check", "dependabot-cooldown", "prek", "customizations", "semgrep", "ratchet", "ci-lint">>,
   typecheck   |-> <<"frappe-path", "frappe-node-modules", "typecheck", "unchecked-js", "js-unit", "nested", "doctypes",
                     "audit-consumer", "ci-typecheck">>,
   marketplace |-> <<"listing">>]
Gates  == DOMAIN StepsOf
Named(gate) == {StepsOf[gate][i] : i \in 1..Len(StepsOf[gate])}
Steps  == UNION {Named(g) : g \in Gates}
Benches == {"customizations", "doctypes"}
\* What the developer turns off and breaks here: the two that make a mini-bench, and one that is looked for late.
Touched == {"customizations", "doctypes", "ci-lint"}
Apps == [off : SUBSET Steps, bad : SUBSET Steps, head : SUBSET Steps]

\* dir: apps/<app> of the mini-bench: a worktree that git can remove, or another directory. reg: the worktree as
\* git's .git/worktrees has it, locked while it is being made. frappe: the clone. by: the run that made
\* apps/<app>, of what was wrong in HEAD or the tree then.
Dists == [frappe : {"none", "half", "bare", "whole"}, dir : {"none", "worktree", "other"},
          reg : {"none", "there", "locked"}, by : 0..MaxRuns, bad : SUBSET Steps]
Fresh == [frappe |-> "none", dir |-> "none", reg |-> "none", by |-> 0, bad |-> {}]

\* FRAPPE_PATH: not set, a tree that is read-only, as in the store, one that is written to, a path that names nothing.
Paths == {"unset", "read-only", "writable", "gone"}
NoRun == [id |-> 0, gate |-> "lint", at |-> 0, sub |-> "step", off |-> {}, base |-> "none", frappe |-> "unset",
          done |-> [s \in {} |-> "ok"], faulty |-> FALSE, code |-> -1]

Idle  == run.at = 0
Here  == StepsOf[run.gate][run.at]
Fault == faults < MaxFaults /\ faults' = faults + 1
Calm  == faults' = faults
Quiet == UNCHANGED <<app, runs, acts, reports>>

\* The modules, the configuration and the list of tracked files are read when the gate starts; tools/, ci:lint and
\* what is in node_modules when the step comes.
Skipped(s) ==
  \/ s \notin {"ci-lint", "nested"} /\ s \in run.off
  \/ s \in {"ci-lint", "nested", "prek", "audit-consumer"} /\ s \in app.off

-----------------------------------------------------------------------------
(***************************************************************************)
(* The gate.                                                               *)
(***************************************************************************)
Start(gate, base, frappe) ==
  /\ Idle /\ runs < MaxRuns /\ runs' = runs + 1
  /\ run' = [NoRun EXCEPT !.id = runs + 1, !.gate = gate, !.at = 1, !.off = app.off, !.base = base, !.frappe = frappe]
  /\ UNCHANGED <<app, dist, reports, past, acts, faults>>

\* A step is over, with what it says; what it leaves in the environment of the later ones.
After(r, status) ==
  [r EXCEPT !.done = [s \in DOMAIN @ \cup {Here} |-> IF s = Here THEN status ELSE @[s]],
            !.at = @ + 1, !.sub = "step", !.faulty = @ \/ faults' # faults]
Ends(status) == run' = After(run, status)
At(s) == ~Idle /\ run.at <= Len(StepsOf[run.gate]) /\ Here = s
Turn(s) == At(s) /\ ~Skipped(s)

Skip ==
  /\ ~Idle /\ run.at <= Len(StepsOf[run.gate]) /\ run.sub = "step" /\ Skipped(Here)
  /\ Calm /\ Ends("skipped") /\ Quiet /\ UNCHANGED <<dist, past>>

Special == Benches \cup {"ratchet", "frappe-path", "frappe-node-modules"}
\* A tool over the tree. The types are of FRAPPE_PATH's frappe.
Tool(s) ==
  /\ s \notin Special /\ Turn(s)
  /\ \/ Calm /\ Ends(IF s \in app.bad \/ (s = "typecheck" /\ run.frappe \in {"unset", "gone"}) THEN "failed" ELSE "ok")
     \/ Fault /\ Ends("failed")
  /\ Quiet /\ UNCHANGED <<dist, past>>

\* An error that no step catches ends the gate, with 3: there is no report.
Dies == run' = [run EXCEPT !.at = 0, !.code = 3, !.faulty = @ \/ faults' # faults]

\* The base that is asked for outside the step: of a commit that was not fetched there is no merge-base.
Ratchet ==
  /\ Turn("ratchet") /\ Calm
  /\ CASE run.base = "none"      -> Ends("skipped")
       [] run.base = "known"     -> Ends(IF "ratchet" \in app.bad THEN "failed" ELSE "ok")
       [] run.base = "unfetched" -> Dies
  /\ Quiet /\ UNCHANGED <<dist, past>>

\* "FRAPPE_PATH from the environment", if it is a directory; else pin_path's, in the store or under .dev-dist/pins.
FrappePath ==
  /\ Turn("frappe-path")
  /\ \/ run.frappe \in {"read-only", "writable"} /\ Calm /\ Ends("ok")
     \/ /\ run.frappe \in {"unset", "gone"} /\ Calm
        /\ \E p \in IF "frappe-node-modules" \in run.off THEN {"read-only", "writable"} ELSE {"writable"} :
             run' = After([run EXCEPT !.frappe = p], "ok")
     \/ run.frappe \in {"unset", "gone"} /\ Fault /\ Ends("failed")
  /\ Quiet /\ UNCHANGED <<dist, past>>

\* yarn install in frappe's tree, in a copy of one that is not written to. The step catches no failure of the copy.
FrappeNodeModules ==
  /\ Turn("frappe-node-modules")
  /\ CASE run.frappe = "unset"     -> Calm /\ Ends("skipped")
       [] run.frappe = "gone"      -> Calm /\ Dies
       [] run.frappe = "read-only" ->
            \/ Calm /\ run' = After([run EXCEPT !.frappe = "writable"], "ok")
            \/ Fault /\ Dies
       [] OTHER                    -> (Calm /\ Ends("ok")) \/ (Fault /\ Ends("failed"))
  /\ Quiet /\ UNCHANGED <<dist, past>>

-----------------------------------------------------------------------------
(***************************************************************************)
(* The mini-bench, for lint of HEAD in a worktree, for typecheck of a copy *)
(* of the tracked files.                                                   *)
(***************************************************************************)
Building(sub) == ~Idle /\ run.at <= Len(StepsOf[run.gate]) /\ Here \in Benches /\ ~Skipped(Here) /\ run.sub = sub
Goes(sub) == run' = [run EXCEPT !.sub = sub]

\* minibench fails, and so the step.
Fails ==
  /\ Ends("failed")
  /\ past' = [past EXCEPT !.stuck = @ \/ (faults' = faults /\ ~past.copied /\ ~past.cut)]

\* frappe and the siblings, each anew. A frappe of another layout is cloned and found wanting in the end.
Clone ==
  /\ Building("step")
  /\ \/ Calm /\ dist' = [dist EXCEPT !.frappe = "whole"] /\ Goes("clear") /\ past' = past
     \/ /\ Fault
        /\ \/ dist' = [dist EXCEPT !.frappe = "bare"] /\ run' = [run EXCEPT !.sub = "clear", !.faulty = TRUE] /\ past' = past
           \/ dist' = [dist EXCEPT !.frappe = "half"] /\ Fails
  /\ Quiet

\* git worktree remove --force takes no directory that is not a worktree, nor one that is locked.
Removable == dist.dir = "none" \/ (dist.dir = "worktree" /\ dist.reg = "there")
\* A mutant of Clear: what is there is kept, if it is a worktree.
ClearKeeps ==
  /\ Building("clear") /\ Calm
  /\ IF Here = "customizations" /\ dist.dir = "worktree" THEN Goes("hooks") /\ UNCHANGED <<dist, past>>
     ELSE /\ dist' = [dist EXCEPT !.dir = "none"]
          /\ Goes("make") /\ past' = past
  /\ Quiet
Clear ==
  /\ Building("clear") /\ Calm
  /\ IF Here = "customizations" /\ ~Removable THEN Fails /\ dist' = dist
     ELSE /\ dist' = [dist EXCEPT !.dir = "none",
                                  !.reg = IF Here = "customizations" /\ dist.dir = "worktree" THEN "none" ELSE @]
          /\ Goes("make") /\ past' = past
  /\ Quiet

\* A mutant of Make: no prune.
MakeNoPrune ==
  /\ Building("make") /\ Calm
  /\ IF Here = "customizations" /\ dist.reg # "none" THEN Fails /\ dist' = dist
     ELSE /\ dist' = [dist EXCEPT !.dir = IF Here = "doctypes" THEN "other" ELSE "worktree",
                                  !.reg = IF Here = "doctypes" THEN @ ELSE "there", !.by = run.id]
          /\ Goes("hooks") /\ past' = [past EXCEPT !.copied = @ \/ Here = "doctypes"]
  /\ Quiet
\* git worktree prune takes what is no longer there, unless it is locked, and then add refuses.
Make ==
  /\ Building("make") /\ Calm
  /\ IF Here = "doctypes"
     THEN /\ dist' = [dist EXCEPT !.dir = "other", !.by = run.id, !.bad = app.bad]
          /\ Goes("hooks")
          /\ past' = [past EXCEPT !.copied = TRUE]
     ELSE IF dist.reg = "locked" THEN Fails /\ dist' = dist
     ELSE /\ dist' = [dist EXCEPT !.dir = "worktree", !.reg = "there", !.by = run.id, !.bad = app.head]
          /\ Goes("hooks") /\ past' = past
  /\ Quiet

\* minibench's own look at the layout. Without the layout the hooks say nothing and pass.
GuardOff == TRUE
Guard == dist.frappe = "whole"
Hooks ==
  /\ Building("hooks") /\ Calm
  /\ LET passes == ~(Here \in dist.bad /\ dist.frappe = "whole")
     IN IF ~Guard THEN Ends("failed") /\ past' = past
        ELSE /\ Ends(IF passes THEN "ok" ELSE "failed")
             /\ past' = [past EXCEPT !.vacuous = @ \/ (passes /\ (dist.frappe # "whole" \/ dist.by # run.id))]
  /\ dist' = dist /\ Quiet

-----------------------------------------------------------------------------
Failed == \E s \in DOMAIN run.done : run.done[s] = "failed"

\* A mutant of Finish: the status of the last step.
FinishLast ==
  /\ ~Idle /\ run.at > Len(StepsOf[run.gate])
  /\ LET code == IF run.done[StepsOf[run.gate][run.at - 1]] = "failed" THEN 1 ELSE 0
     IN /\ reports' = [reports EXCEPT ![run.gate] = [run |-> run.id, failed |-> code = 1]]
        /\ run' = [run EXCEPT !.at = 0, !.code = code] /\ Calm
  /\ UNCHANGED <<app, dist, past, runs, acts>>
\* The report, and the table for GitHub, which may not be written.
Finish ==
  /\ ~Idle /\ run.at > Len(StepsOf[run.gate])
  /\ reports' = [reports EXCEPT ![run.gate] = [run |-> run.id, failed |-> Failed]]
  /\ \/ run' = [run EXCEPT !.at = 0, !.code = IF Failed THEN 1 ELSE 0] /\ Calm
     \/ Fault /\ Dies
  /\ UNCHANGED <<app, dist, past, runs, acts>>

\* What a kill leaves of the step: git locks a worktree while it makes it.
Torn ==
  CASE run.sub = "step"  -> {dist, [dist EXCEPT !.frappe = "half"]}
    [] run.sub = "clear" -> {dist, [dist EXCEPT !.dir = IF @ = "none" THEN @ ELSE "other"]}
    [] run.sub = "make"  -> {dist, IF Here = "doctypes" THEN [dist EXCEPT !.dir = "other", !.by = run.id]
                                   ELSE [dist EXCEPT !.dir = "worktree", !.reg = "locked", !.by = run.id]}
    [] OTHER             -> {dist}
Kill ==
  /\ ~Idle /\ Fault
  /\ IF run.at <= Len(StepsOf[run.gate]) /\ Here \in Benches /\ ~Skipped(Here)
     THEN dist' \in Torn /\ past' = [past EXCEPT !.cut = TRUE]
     ELSE UNCHANGED <<dist, past>>
  /\ run' = [run EXCEPT !.at = 0, !.code = 137]
  /\ UNCHANGED <<app, reports, runs, acts>>

-----------------------------------------------------------------------------
Acts == acts < MaxActs /\ acts' = acts + 1 /\ UNCHANGED <<run, reports, runs, faults>>
Turned(set, s) == (set \ {s}) \cup ({s} \ set)
Edit ==
  /\ Acts /\ UNCHANGED <<dist, past>>
  /\ \E s \in Touched : app' \in {[app EXCEPT !.off = Turned(@, s)], [app EXCEPT !.bad = Turned(@, s)]}
Commit == Acts /\ app.head # app.bad /\ app' = [app EXCEPT !.head = app.bad]
          /\ UNCHANGED <<dist, past>>
\* rm -rf .dev-dist: git keeps what it knows.
Clean  == Idle /\ Acts /\ dist # Fresh /\ dist' = [Fresh EXCEPT !.reg = dist.reg]
          /\ past' = [past EXCEPT !.copied = FALSE] /\ app' = app

Init ==
  /\ \E off \in {{}, Steps \ {"sync-check", "frappe-path", "ratchet"}, {"customizations"}, {"doctypes"}},
        bad \in {{}, {"customizations"}} :
       app = [off |-> off, bad |-> bad, head |-> {}]
  /\ dist = Fresh /\ run = NoRun
  /\ reports = [g \in Gates |-> [run |-> 0, failed |-> FALSE]]
  /\ past = [vacuous |-> FALSE, copied |-> FALSE, cut |-> FALSE, stuck |-> FALSE]
  /\ runs = 0 /\ acts = 0 /\ faults = 0

Next ==
  \/ \E base \in {"none", "known", "unfetched"} : Start("lint", base, "unset")
  \/ \E frappe \in Paths : Start("typecheck", "none", frappe)
  \/ Start("marketplace", "none", "unset")
  \/ Skip \/ \E s \in Steps : Tool(s)
  \/ Ratchet \/ FrappePath \/ FrappeNodeModules
  \/ Clone \/ Clear \/ Make \/ Hooks
  \/ Finish \/ Kill \/ Edit \/ Commit \/ Clean

Spec == Init /\ [][Next]_vars

-----------------------------------------------------------------------------
TypeOK ==
  /\ app \in Apps /\ dist \in Dists
  /\ run.id \in 0..MaxRuns /\ run.gate \in Gates /\ run.at \in 0..(Len(StepsOf[run.gate]) + 1)
  /\ run.sub \in {"step", "clear", "make", "hooks"} /\ run.off \subseteq Steps
  /\ run.base \in {"none", "known", "unfetched"} /\ run.frappe \in Paths
  /\ DOMAIN run.done \subseteq Named(run.gate) /\ \A s \in DOMAIN run.done : run.done[s] \in {"ok", "failed", "skipped"}
  /\ run.faulty \in BOOLEAN /\ run.code \in {-1, 0, 1, 3, 137}
  /\ reports \in [Gates -> [run : 0..MaxRuns, failed : BOOLEAN]]
  /\ past \in [{"vacuous", "copied", "cut", "stuck"} -> BOOLEAN]
  /\ runs \in 0..MaxRuns /\ acts \in 0..MaxActs /\ faults \in 0..MaxFaults

\* "Exits 1 when any step failed, after running all of them": a gate that ends with 0 or 1 has run or skipped
\* each of its steps, and its report is the one that is there and says the same.
ReportTells ==
  Idle /\ run.code \in {0, 1} =>
    /\ DOMAIN run.done = Named(run.gate)
    /\ run.code = 1 <=> Failed
    /\ reports[run.gate] = [run |-> run.id, failed |-> Failed]

\* It ends before its last step only without the ratchet's base, or after a failure of the network or the disk.
RunsAll ==
  Idle /\ run.code = 3 =>
    run.faulty \/ (run.gate = "lint" /\ run.base = "unfetched")

\* "A missing bench must fail rather than pass": no step passes on a bench that lacks frappe, or that it did not make
\* itself of the commit, or the tree, as it then was.
NotVacuous == ~past.vacuous

\* What a gate, or the developer's rm -rf, leaves is in the way of no later mini-bench, but for that of
\* customizations once typecheck has made its copy where the worktree goes, or a mini-bench was cut.
NothingInTheWay == ~past.stuck

GateSound == ReportTells /\ RunsAll /\ NotVacuous /\ NothingInTheWay
=============================================================================
