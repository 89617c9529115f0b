------------------------------- MODULE BotPr -------------------------------
(***************************************************************************)
(* The dependency PRs of an app on GitHub (the deps workflow): Dependabot's *)
(* are relocked, judged by the decision table and merged by GitHub once     *)
(* their checks pass; the weekly relock opens one of its own; the sweep     *)
(* dispatches checks that are missing, and update-branches merges the       *)
(* integration branch into what is behind.                                  *)
(*                                                                         *)
(* Workflow runs know nothing of each other: one per push of a PR, another  *)
(* per schedule, each reads the PR when it gets to it, and the branch may   *)
(* have moved. A push with GITHUB_TOKEN starts no run; one with a GitHub    *)
(* App's token does. GitHub, Dependabot, the checks and people are          *)
(* external. nix/uv.lock is known by the input bumps it was made for. A     *)
(* definition right before another that it is named after varies it, for a  *)
(* mutation.                                                               *)
(***************************************************************************)
EXTENDS Integers, Sequences, FiniteSets

CONSTANTS
  Prs,         \* the numbers PRs get
  Metas,       \* what may be opened: author, and what fetch-metadata says of it
  Confs,       \* what byApp, protected and policy may be together
  Limit,       \* --limit: PRs that one run of update-branches acts on
  MaxHeads,    \* bound: commits at the head of a PR, over all PRs
  MaxRebases,  \* bound: rebases by Dependabot
  MaxPeople,   \* bound: pushes to the integration branch, and closings, by people
  MaxWeeks,    \* bound: weekly relocks
  MaxFaults    \* bound: jobs and calls that fail

Authors == {"dependabot", "actions", "app", "agent"}
Names == {"frappe", "docs", "pilot", "test-utils", "frappe-nix", "standards-profile", "other"}
Metadata ==
  [author : Authors,
   eco : {"github_actions", "npm_and_yarn", "uv", "pre_commit", "nix", "submodules", "none"},
   update : {"major", "minor", "patch", ""},
   group : {"", "actions", "docs-actions", "pilot", "hooks", "test-utils", "npm"},
   deps : SUBSET Names, docs : BOOLEAN]

ASSUME BotPrAssumption ==
  /\ Prs \subseteq Nat \ {0} /\ IsFiniteSet(Prs)
  /\ Metas \subseteq Metadata
  /\ Confs \subseteq [byApp : BOOLEAN, protected : BOOLEAN, policy : {"decision-table", "all"}]
  /\ Limit \in Nat \ {0}
  /\ {MaxHeads, MaxRebases, MaxPeople, MaxWeeks, MaxFaults} \subseteq Nat

VARIABLES
  byApp,     \* the jobs push with the token of a GitHub App, not GITHUB_TOKEN
  protected, \* the integration branch requires every enabled gate's check
  policy,    \* dependabot.auto-merge-policy
  integ,     \* the integration branch
  pr,        \* each PR
  heads,     \* each commit that was the head of a PR: content, checks started, deps run
  moved,     \* the PR whose new head update-branches has to find checks for, or 0
  week,      \* relock-upgrade
  rebases, people, weeks, faults

conf == <<byApp, protected, policy>>
counts == <<rebases, people, weeks>>
vars == <<conf, integ, pr, heads, moved, week, counts, faults>>

Contexts == {"ci", "policy"}       \* ci / lint of ci.yml, ci / pr-policy of pr-policy.yml

-----------------------------------------------------------------------------
(***************************************************************************)
(* The decision table.                                                     *)
(***************************************************************************)
RolloutInputs == {"frappe-nix", "standards-profile"}

MinorOrPatch(m) ==
  m.update # "major" /\ (m.update \in {"minor", "patch"} \/ m.group # "")

MovesFrappeNix(m) == m.eco = "github_actions" /\ "frappe-nix" \in m.deps

Automatic(m) ==
  CASE m.eco = "github_actions" ->
         /\ m.deps \cap {"frappe-nix", "docs", "pilot"} = {}
         /\ m.group = "actions" \/ (m.group = "" /\ m.deps # {})
    [] m.eco = "npm_and_yarn" -> ~m.docs /\ MinorOrPatch(m)
    [] m.eco = "uv" -> MinorOrPatch(m)
    [] m.eco = "pre_commit" ->
         "test-utils" \notin m.deps /\ (m.group = "hooks" \/ (m.group = "" /\ m.deps # {}))
    [] m.eco = "submodules" -> TRUE
    [] OTHER -> FALSE

Decide(m) ==
  IF m.eco = "nix" THEN IF m.deps \cap RolloutInputs # {} THEN "close" ELSE "relock"
  ELSE IF Automatic(m) \/ (policy = "all" /\ ~MovesFrappeNix(m)) THEN "auto" ELSE "review"

\* Once relock-plan has run: relock-push merges what it pushes.
NixVerdictEager(state) == IF state = "moved" THEN "close" ELSE "auto"
NixVerdict(state) ==
  CASE state = "empty" -> "auto" [] state = "moved" -> "close" [] OTHER -> "wait"

-----------------------------------------------------------------------------
(***************************************************************************)
(* Branches. A bump is one move of a flake input by one push of a PR; some  *)
(* change what nix/uv.lock resolves to.                                    *)
(***************************************************************************)
Bumps == Prs \X (1..MaxRebases+1) \X BOOLEAN
LockOf(flake, up) == [bumps |-> {b \in flake : b[3]}, up |-> up]
Relocked(c) == LockOf(c.flake, c.lock.up)
Stale(c) == c.lock # Relocked(c)

\* Git merges the two locks when one side left it alone.
Conflict(c) == c.lock # c.base.lock /\ integ.lock # c.base.lock
MergedLock(c) == IF c.lock = c.base.lock THEN integ.lock ELSE c.lock
Behind(c) == c.base.n # integ.n

NoRun == [plan |-> "none", push |-> "none", got |-> 0, auto |-> "none"]

Open(p) == pr[p].st = "open"
Tip(p) == heads[pr[p].head]
Room == Len(heads) < MaxHeads

\* gh pr close.
ClosedKeepsAuto(p) == [pr EXCEPT ![p].st = "closed"]
Closed(p) == [pr EXCEPT ![p].st = "closed", ![p].auto = FALSE]

\* A push that raises a pull_request event starts the checks, and the deps workflow,
\* whose jobs are Dependabot's PRs' only. relock-plan is skipped for other ecosystems.
Commit(p, meta, event, base, flake, lock) ==
  [pr |-> p, base |-> base, flake |-> flake, lock |-> lock,
   checks |-> IF event THEN Contexts ELSE {},
   run |-> IF event /\ meta.author = "dependabot"
           THEN IF meta.eco = "nix" THEN [NoRun EXCEPT !.plan = "todo"]
                ELSE [NoRun EXCEPT !.plan = "skipped", !.auto = "todo"]
           ELSE NoRun]

-----------------------------------------------------------------------------
NoMeta == [author |-> "none"]
NoPr == [st |-> "none", meta |-> NoMeta, head |-> 0, auto |-> FALSE, kept |-> TRUE,
         pushed |-> 0, relocks |-> 0]

Init ==
  /\ \E c \in Confs : byApp = c.byApp /\ protected = c.protected /\ policy = c.policy
  /\ integ = [n |-> 0, flake |-> {}, lock |-> LockOf({}, 0)]
  /\ pr = [p \in Prs |-> NoPr]
  /\ heads = <<>>
  /\ moved = 0
  /\ week = "off"
  /\ rebases = 0 /\ people = 0 /\ weeks = 0 /\ faults = 0

Fault == faults < MaxFaults /\ faults' = faults + 1
NoFault == faults' = faults
Keep == UNCHANGED <<conf, counts>>

-----------------------------------------------------------------------------
(***************************************************************************)
(* Dependabot, GitHub and people.                                          *)
(***************************************************************************)
\* What a PR's own push brings: Dependabot moves an input, in the version it is at now.
Bump(p, meta, k, matters) == IF meta.eco = "nix" THEN {<<p, k, matters>>} ELSE {}

\* GitHub numbers PRs as they are opened.
Numbered(p) == \A q \in Prs : q < p => pr[q].st # "none"

OpenPr(p, meta, matters) ==
  /\ pr[p].st = "none" /\ Numbered(p) /\ Room
  /\ matters => meta.eco = "nix"
  /\ heads' = Append(heads,
       Commit(p, meta, TRUE, integ, integ.flake \cup Bump(p, meta, 1, matters), integ.lock))
  /\ pr' = [pr EXCEPT ![p] = [NoPr EXCEPT !.st = "open", !.meta = meta, !.head = Len(heads) + 1,
                                          !.pushed = 1]]
  /\ Keep /\ UNCHANGED <<integ, moved, week, faults>>

\* As long as only "[dependabot skip]" commits are on the branch. Auto-merge stays on.
Rebase(p, matters) ==
  /\ Open(p) /\ pr[p].meta.author = "dependabot" /\ pr[p].kept /\ Room
  /\ matters => pr[p].meta.eco = "nix"
  /\ rebases < MaxRebases /\ rebases' = rebases + 1
  /\ heads' = Append(heads,
       Commit(p, pr[p].meta, TRUE, integ,
              integ.flake \cup Bump(p, pr[p].meta, pr[p].pushed + 1, matters), integ.lock))
  /\ pr' = [pr EXCEPT ![p].head = Len(heads) + 1, ![p].pushed = @ + 1]
  /\ UNCHANGED <<conf, integ, moved, week, people, weeks, faults>>

\* Auto-merge waits for the required checks on the newest head. One that was started may
\* have passed by now, or it never does.
Green(p) == Tip(p).checks = Contexts
Merge(p) ==
  /\ Open(p) /\ pr[p].auto /\ Green(p) /\ ~Conflict(Tip(p))
  /\ integ' = [n |-> integ.n + 1, flake |-> integ.flake \cup Tip(p).flake, lock |-> MergedLock(Tip(p))]
  /\ pr' = [pr EXCEPT ![p].st = "merged", ![p].auto = FALSE]
  /\ Keep /\ UNCHANGED <<heads, moved, week, faults>>

PersonPush ==
  /\ people < MaxPeople /\ people' = people + 1
  /\ integ' = [integ EXCEPT !.n = @ + 1]
  /\ UNCHANGED <<conf, pr, heads, moved, week, rebases, weeks, faults>>

PersonCloses(p) ==
  /\ Open(p) /\ people < MaxPeople /\ people' = people + 1
  /\ pr' = Closed(p)
  /\ UNCHANGED <<conf, integ, heads, moved, week, rebases, weeks, faults>>

-----------------------------------------------------------------------------
(***************************************************************************)
(* The jobs of a deps run: relock-plan, relock-push and auto-merge.        *)
(***************************************************************************)
Runs == DOMAIN heads
Of(h) == heads[h].pr

\* The patch is of the head that the run is of: what relock and sync change, or nothing.
\* A job that fails, one that would change a workflow too, leaves the PR as it is.
PlanStateAlways(h) == IF Decide(pr[Of(h)].meta) = "close" THEN "moved" ELSE "patch"
PlanState(h) ==
  IF Decide(pr[Of(h)].meta) = "close" THEN "moved"
  ELSE IF Stale(heads[h]) THEN "patch" ELSE "empty"

Plan(h) ==
  /\ heads[h].run.plan = "todo"
  /\ \/ /\ heads' = [heads EXCEPT ![h].run =
            [@ EXCEPT !.plan = PlanState(h), !.auto = "todo",
                      !.push = IF PlanState(h) = "patch" THEN "todo" ELSE "none"]]
        /\ NoFault
     \/ heads' = [heads EXCEPT ![h].run = NoRun] /\ Fault
  /\ Keep /\ UNCHANGED <<integ, pr, moved, week>>

PushAt(h, at) == heads[h].run.push = at
PushEnds(hs, h) == [hs EXCEPT ![h].run.push = "none", ![h].run.got = 0]

\* The branch is checked out as it is by now; the patch applies where the lock is the one
\* that it was made from. A PR that is merged or closed may have lost its branch.
Checkout(h) ==
  /\ PushAt(h, "todo")
  /\ LET p == Of(h) IN
     \/ /\ Open(p) /\ Tip(p).lock = heads[h].lock
        /\ heads' = [heads EXCEPT ![h].run.push = "got", ![h].run.got = pr[p].head]
     \/ ~(Open(p) /\ Tip(p).lock = heads[h].lock) /\ heads' = PushEnds(heads, h)
  /\ Keep /\ UNCHANGED <<integ, pr, moved, week, faults>>

\* Not forced: refused when the branch has moved since.
Push(h) ==
  /\ PushAt(h, "got")
  /\ LET p == Of(h)
         old == Tip(p)
         new == Commit(p, pr[p].meta, byApp, old.base, old.flake, Relocked(heads[h]))
     IN \/ /\ Open(p) /\ pr[p].head = heads[h].run.got /\ Room
           /\ heads' = Append([heads EXCEPT ![h].run.push = IF byApp THEN "sent" ELSE "pushed"], new)
           /\ pr' = [pr EXCEPT ![p].head = Len(heads) + 1, ![p].relocks = @ + 1]
           /\ NoFault
        \/ /\ heads' = PushEnds(heads, h) /\ pr' = pr
           /\ IF Open(p) /\ pr[p].head = heads[h].run.got THEN Fault ELSE NoFault
  /\ Keep /\ UNCHANGED <<integ, moved, week>>

\* gh workflow run, on what the branch is at by then.
Dispatch(hs, h, cs) == [hs EXCEPT ![h].checks = @ \cup cs]

\* ci.yml and then pr-policy.yml: the first that cannot be dispatched ends the job.
SendChecks(h) ==
  /\ PushAt(h, "pushed")
  /\ \/ /\ heads' = Dispatch([heads EXCEPT ![h].run.push = "sent"], pr[Of(h)].head, Contexts)
        /\ NoFault
     \/ /\ \E cs \in {{}, {"ci"}} :
             heads' = Dispatch(PushEnds(heads, h), pr[Of(h)].head, cs)
        /\ Fault
  /\ Keep /\ UNCHANGED <<integ, pr, moved, week>>

\* gh pr merge --auto where the gates are required; elsewhere, and when the call fails as it
\* does for a PR that is not open, the label needs-review, which nothing reads.
EnableAnyway(p) == IF Open(p) THEN [pr EXCEPT ![p].auto = TRUE] ELSE pr
Enable(p) == IF Open(p) /\ protected THEN [pr EXCEPT ![p].auto = TRUE] ELSE pr

PushEnables(h) ==
  /\ PushAt(h, "sent") /\ heads' = PushEnds(heads, h) /\ pr' = Enable(Of(h))
  /\ Keep /\ UNCHANGED <<integ, moved, week, faults>>

Judged(h) ==
  LET decision == Decide(pr[Of(h)].meta)
  IN IF decision = "relock" THEN NixVerdict(heads[h].run.plan) ELSE decision

AutoMerge(h) ==
  /\ heads[h].run.auto = "todo" /\ heads' = [heads EXCEPT ![h].run.auto = "none", ![h].run.plan = "none"]
  /\ \/ /\ pr' = CASE Judged(h) = "auto"  -> Enable(Of(h))
                   [] Judged(h) = "close" -> Closed(Of(h))
                   [] OTHER               -> pr          \* review: the label; wait: nothing
        /\ NoFault
     \/ pr' = pr /\ Fault
  /\ Keep /\ UNCHANGED <<integ, moved, week>>

-----------------------------------------------------------------------------
(***************************************************************************)
(* The sweep, and update-branches. Each lists the open PRs with their heads *)
(* and comes to one after the other: by then the PR may have another head,  *)
(* so h is any that it has had.                                            *)
(***************************************************************************)
Swept == {"dependabot", "actions"}

\* Each context by itself: a dispatch that fails is a notice.
EnsureFirst(p, h) ==
  /\ heads' = IF Open(p) /\ "ci" \notin heads[h].checks
              THEN Dispatch(heads, pr[p].head, {"ci"}) ELSE heads
  /\ NoFault
Ensure(p, h) ==
  LET absent == Contexts \ heads[h].checks
  IN \E failed \in SUBSET absent :
       /\ heads' = IF Open(p) THEN Dispatch(heads, pr[p].head, absent \ failed) ELSE heads
       /\ IF failed = {} THEN NoFault ELSE Fault

Sweep(h) ==
  /\ pr[Of(h)].meta.author \in Swept /\ Ensure(Of(h), h)
  /\ Keep /\ UNCHANGED <<integ, pr, moved, week>>

IsBotPr(p) ==
  \/ pr[p].meta.author = "dependabot"
  \/ pr[p].meta.author \in {"actions", "app"}     \* on standards/relock-python

\* The oldest that are behind, up to the limit, whatever came of them.
Waiting(p) == Open(p) /\ IsBotPr(p) /\ Behind(Tip(p))
Taken(p) == Waiting(p) /\ Cardinality({q \in Prs : q < p /\ Waiting(q)}) < Limit

\* Refused: the head is not the one that was listed, the merge has a conflict, or (a fault)
\* it changes a workflow with a token that may not. One run at a time. The PR's history is
\* not Dependabot's alone after it, and Dependabot lets it be.
Update(p) ==
  /\ moved = 0 /\ Taken(p) /\ ~Conflict(Tip(p)) /\ Room
  /\ heads' = Append(heads, Commit(p, pr[p].meta, byApp, integ, Tip(p).flake \cup integ.flake,
                                   MergedLock(Tip(p))))
  /\ pr' = [pr EXCEPT ![p].head = Len(heads) + 1, ![p].kept = FALSE]
  /\ moved' = IF byApp THEN 0 ELSE p
  /\ Keep /\ UNCHANGED <<integ, week, faults>>

\* With GITHUB_TOKEN: the checks of the head that the update made, unless it does not
\* show in time.
UpdateEnsures ==
  /\ moved # 0 /\ moved' = 0
  /\ Ensure(moved, pr[moved].head) \/ (heads' = heads /\ Fault)
  /\ Keep /\ UNCHANGED <<integ, pr, week>>

-----------------------------------------------------------------------------
(***************************************************************************)
(* relock-upgrade: the weekly relock of what the integration branch has.   *)
(***************************************************************************)
Weekly == [author |-> IF byApp THEN "app" ELSE "actions", eco |-> "none", update |-> "", group |-> "",
           deps |-> {}, docs |-> FALSE]
WeeklyPrs == {p \in Prs : Open(p) /\ pr[p].meta = Weekly}

\* The branch is forced to the new commit; its PR is opened when there is none.
RelockUpgrade(p) ==
  /\ week = "off" /\ weeks < MaxWeeks /\ weeks' = weeks + 1 /\ Room
  /\ IF WeeklyPrs # {} THEN p \in WeeklyPrs ELSE pr[p].st = "none" /\ Numbered(p)
  /\ heads' = Append(heads, Commit(p, Weekly, byApp, integ, integ.flake, LockOf(integ.flake, weeks + 1)))
  /\ pr' = [pr EXCEPT ![p] =
       IF Open(p) THEN [@ EXCEPT !.head = Len(heads) + 1]
       ELSE [NoPr EXCEPT !.st = "open", !.meta = Weekly, !.head = Len(heads) + 1, !.kept = FALSE]]
  /\ week' = IF byApp THEN "sent" ELSE "pushed"
  /\ UNCHANGED <<conf, integ, moved, rebases, people, faults>>

WeekSends(p) ==
  /\ week = "pushed" /\ p \in WeeklyPrs
  /\ \/ week' = "sent" /\ heads' = Dispatch(heads, pr[p].head, Contexts) /\ NoFault
     \/ /\ week' = "off" /\ Fault
        /\ \E cs \in {{}, {"ci"}} : heads' = Dispatch(heads, pr[p].head, cs)
  /\ Keep /\ UNCHANGED <<integ, pr, moved>>

WeekEnables(p) ==
  /\ week = "sent" /\ p \in WeeklyPrs
  /\ week' = "off" /\ pr' = Enable(p)
  /\ Keep /\ UNCHANGED <<integ, heads, moved, faults>>

\* Its PR was closed or merged meanwhile: the call fails, and so does the job.
WeekFails ==
  /\ week # "off" /\ WeeklyPrs = {} /\ week' = "off"
  /\ Keep /\ UNCHANGED <<integ, pr, heads, moved, faults>>

-----------------------------------------------------------------------------
\* What the jobs of a PR do once it is merged or closed is refused, or read by nobody.
DepsRun(h) ==
  Open(Of(h)) /\ (\/ Plan(h) \/ AutoMerge(h)
                 \/ Checkout(h) \/ Push(h) \/ SendChecks(h) \/ PushEnables(h))

Jobs ==
  \/ \E h \in Runs : DepsRun(h)
  \/ UpdateEnsures \/ \E p \in Prs : Update(p)
  \/ WeekFails \/ \E p \in Prs : WeekSends(p) \/ WeekEnables(p)

Next ==
  \/ \E p \in Prs, m \in Metas, matters \in BOOLEAN : OpenPr(p, m, matters)
  \/ \E p \in Prs, matters \in BOOLEAN : Rebase(p, matters)
  \/ \E p \in Prs : Merge(p) \/ PersonCloses(p) \/ RelockUpgrade(p)
  \/ \E h \in Runs : Sweep(h)
  \/ PersonPush \/ Jobs

Spec == Init /\ [][Next]_vars

\* The sweep is on a schedule, and its job runs.
FairSpec == Spec /\ \A p \in Prs : WF_vars(pr[p].st # "none" /\ Sweep(pr[p].head))

UpdatingSpec == FairSpec /\ WF_vars(UpdateEnsures) /\ \A p \in Prs : WF_vars(Update(p))

-----------------------------------------------------------------------------
(***************************************************************************)
(* Properties.                                                             *)
(***************************************************************************)
Locks == [bumps : SUBSET Bumps, up : 0..MaxWeeks]

\* The shapes of the branches, the PRs and the jobs; only an open PR has auto-merge on.
TypeOK ==
  /\ integ.n \in Nat /\ integ.flake \subseteq Bumps /\ integ.lock \in Locks
  /\ Len(heads) <= MaxHeads
  /\ \A h \in Runs :
       /\ heads[h].pr \in Prs /\ heads[h].flake \subseteq Bumps /\ heads[h].lock \in Locks
       /\ heads[h].checks \subseteq Contexts
       /\ heads[h].run.plan \in {"none", "todo", "skipped", "patch", "moved", "empty"}
       /\ heads[h].run.push \in {"none", "todo", "got", "pushed", "sent"}
       /\ heads[h].run.auto \in {"none", "todo"} /\ heads[h].run.got \in 0..Len(heads)
  /\ \A p \in Prs :
       /\ pr[p].st \in {"none", "open", "merged", "closed"} /\ pr[p].meta \in Metas \cup {NoMeta, Weekly}
       /\ pr[p].st # "none" => pr[p].head \in Runs /\ Tip(p).pr = p
       /\ pr[p].auto => Open(p)
  /\ moved \in Prs \cup {0} /\ week \in {"off", "pushed", "sent"}

\* "A stale nix/uv.lock can't merge": what GitHub merges by itself leaves the integration
\* branch's lock in step with its flake inputs. False of the code: auto-merge stays on when
\* Dependabot pushes again, and the checks may be green on that head before its relock.
FreshMerges ==
  [][\A p \in Prs : Merge(p) /\ ~Stale(integ) => integ'.lock.bumps = {b \in integ'.flake : b[3]}]_vars

\* What GitHub merges by itself is what the table gives to no person and to no rollout, in a
\* repository that requires the gates; and of a PR that Dependabot pushed once, not before
\* its relock: the lock stays in step, though the integration branch moves, update-branches
\* merges it in, and jobs fail.
Ruled(p) == protected /\ (pr[p].meta = Weekly \/ Decide(pr[p].meta) \in {"auto", "relock"})
MergesRuled ==
  [][\A p \in Prs : Merge(p) =>
       /\ Ruled(p)
       /\ ~Stale(integ) /\ pr[p].pushed <= 1 => integ'.lock.bumps = {b \in integ'.flake : b[3]}]_vars

\* What runs of the deps workflow may still push to a PR, and those of them whose head has
\* other bumps than the newest: the lock they push is not yet that one's.
ToPush(p) ==
  {h \in Runs : /\ Of(h) = p
                /\ \/ heads[h].run.plan = "todo" /\ Stale(heads[h])
                   \/ heads[h].run.push \in {"todo", "got"}}
Overtaken(p) == {h \in ToPush(p) : Relocked(heads[h]).bumps # Relocked(Tip(p)).bumps}
Left(p) == Cardinality(ToPush(p)) + Cardinality(Overtaken(p))

\* "Neither can loop": every relock that is pushed leaves less to push, though with an App
\* it starts the workflow again, and though the branch it is pushed to has moved; only a
\* push that is no relock brings more.
NoLoop ==
  [][\A p \in Prs :
       /\ pr'[p].relocks # pr[p].relocks => Left(p)' < Left(p)
       /\ Left(p)' > Left(p) => pr'[p].relocks = pr[p].relocks /\ pr'[p].head # pr[p].head]_vars

\* What a relock pushes has "nothing to relock". False of the code: the branch it is pushed
\* to may have moved under the same lock.
NothingToRelock ==
  [][\A p \in Prs : pr'[p].relocks # pr[p].relocks => ~Stale(heads'[pr'[p].head])]_vars

\* A bot's PR has its checks on its newest head in the end, whatever was not dispatched and
\* whoever pushed without an event.
HeadsGetChecks ==
  \A p \in Prs :
    Open(p) /\ pr[p].meta.author \in Swept ~>
      ~Open(p) \/ Tip(p).checks = Contexts

\* "The next push or schedule takes the rest": update-branches comes to every PR that is
\* behind. False of the code: a refusal counts for the limit, and the oldest are always first.
RestIsTaken ==
  \A p \in Prs : Waiting(p) /\ ~Conflict(Tip(p)) /\ Room
                    ~> ~Waiting(p) \/ Conflict(Tip(p)) \/ ~Room
=============================================================================
