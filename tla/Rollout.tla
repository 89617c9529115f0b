------------------------------ MODULE Rollout -------------------------------
(***************************************************************************)
(* frappe-nix repo rollout moves an app to a release of frappe-nix, to a   *)
(* revision of its profile, or both: in a clone of the integration branch  *)
(* it updates the flake's inputs, locks and syncs, pushes standards/<what> *)
(* and opens a PR that merges itself. One app; releases, fixes pushed to   *)
(* the branch and merges go on beside it. --all is one after another, and  *)
(* one that fails is no reason not to go on: nothing is shared. The drift  *)
(* job of the nightly keeps the issues that remind of a rollout.           *)
(***************************************************************************)
EXTENDS Integers, FiniteSets

CONSTANTS
  MaxRolls,  \* bound: commands
  MaxOthers, \* bound: what goes on beside them
  MaxStops   \* bound: steps that fail, and kills

VARIABLES
  main,      \* what the integration branch has: a tree
  nix,       \* frappe-nix: its newest release, where its release branch is; the profile's head
  heads,     \* standards/... by name
  prs,       \* the PR of each: none, open, or open with auto-merge on
  roll,      \* the rollout under way, or the last one
  night,     \* the drift job under way, or the last one: what it found
  issues,    \* the reminders that are open
  guard,     \* the integration branch requires the gates; the repository allows auto-merge
  rolls, others, stops

vars == <<main, nix, heads, prs, roll, night, issues, guard, rolls, others, stops>>
nightVars == <<night, issues>>

None == "none"

\* What a branch has: the revision of frappe-nix its lock and its callers have, the profile it names
\* and the revision that is locked, a fix of somebody's.
Tree(lock, profile, rev) == [lock |-> lock, profile |-> profile, rev |-> rev, fixed |-> FALSE]
NoTree == Tree(0, None, 0)
Org(p) == p # "builtin"

\* standards/frappe-nix-<to>-profile-<rev>; 0 for what it does not move.
Names == {<<to, rev>> : to \in 0..2, rev \in 0..2} \ {<<0, 0>>}

Idle == [pc |-> "idle", to |-> 0, ref |-> None, auto |-> TRUE, org |-> FALSE, cloned |-> NoTree,
         tree |-> NoTree, name |-> <<0, 0>>, status |-> "none"]
Ends(status) == [roll EXCEPT !.pc = "idle", !.status = status]

\* set_profile_ref: "latest" keeps the reference.
SetProfileRef(profile, ref) == IF ref \in {None, "latest"} THEN profile ELSE ref

\* Without --to is to = 0, without --profile-to ref = None. What is a built-in profile is told from
\* the clone, before the reference is set; it is skipped if there is nothing else to move.
RolloutOne(to, ref, auto) ==
  LET org   == Org(main.profile)
      start == [pc |-> "update", to |-> to, ref |-> ref, auto |-> auto, org |-> org, cloned |-> main,
                tree |-> [main EXCEPT !.profile = SetProfileRef(@, ref)], name |-> <<0, 0>>, status |-> "none"]
  IN  /\ roll.pc = "idle" /\ rolls < MaxRolls /\ (to # 0 \/ ref # None)
      /\ rolls' = rolls + 1
      /\ roll' = IF ref # None /\ to = 0 /\ ~org
                 THEN [start EXCEPT !.pc = "idle", !.status = "skipped"]
                 ELSE start
      /\ UNCHANGED <<main, nix, heads, prs, nightVars, guard, others, stops>>

\* nix flake update takes the release branch, wherever it is; --to says where it must be. Variants
\* are mutations, no rollout has them: each is next to what it varies.
CheckReachedNever(t) == TRUE
CheckReached(t) == roll.to \in {0, t.lock}
UpdateInputs ==
  LET t == [roll.tree EXCEPT !.lock = IF roll.to # 0 THEN nix.branch ELSE @,
                             !.rev  = IF roll.ref # None /\ roll.org THEN nix.profile ELSE @]
  IN  /\ roll.pc = "update"
      /\ roll' = IF CheckReached(t) THEN [roll EXCEPT !.tree = t, !.pc = "sync"] ELSE Ends("failed")
      /\ UNCHANGED <<main, nix, heads, prs, nightVars, guard, rolls, others, stops>>

\* relock and sync, which adds and locks the input of an org profile that had none.
RelockAndSync ==
  /\ roll.pc = "sync"
  /\ roll' = [roll EXCEPT !.pc = "push",
                          !.tree.rev = IF Org(roll.tree.profile) /\ @ = 0 THEN nix.profile ELSE @]
  /\ UNCHANGED <<main, nix, heads, prs, nightVars, guard, rolls, others, stops>>

\* The branch starts at what was cloned, and is pushed by force.
HeadNameOfTo == <<roll.to, 0>>
HeadName == <<roll.to, IF roll.ref # None /\ roll.org THEN roll.tree.rev ELSE 0>>
CommitAndPush ==
  /\ roll.pc = "push"
  /\ IF roll.tree = roll.cloned
     THEN roll' = Ends("current") /\ UNCHANGED heads
     ELSE /\ heads' = [heads EXCEPT ![HeadName] = roll.tree]
          /\ roll' = [roll EXCEPT !.name = HeadName, !.pc = "pr"]
  /\ UNCHANGED <<main, nix, prs, nightVars, guard, rolls, others, stops>>

\* A PR that exists is as good as one that is made.
CreatePr ==
  /\ roll.pc = "pr" /\ heads[roll.name] # NoTree
  /\ prs' = [prs EXCEPT ![roll.name] = IF @ = None THEN "open" ELSE @]
  /\ roll' = IF roll.auto THEN [roll EXCEPT !.pc = "merge"] ELSE Ends("ok")
  /\ UNCHANGED <<main, nix, heads, nightVars, guard, rolls, others, stops>>

\* The merge of a PR deletes its branch (delete_branch_on_merge). What was merged before it stays,
\* unless both moved it: then git refuses the older.
Newer(t, m) == [m EXCEPT !.lock = IF t.lock > @ THEN t.lock ELSE @, !.rev = IF t.rev > @ THEN t.rev ELSE @,
                         !.profile = IF Org(t.profile) THEN t.profile ELSE @, !.fixed = @ \/ t.fixed]
Merged(n) ==
  /\ main' = Newer(heads[n], main)
  /\ prs' = [prs EXCEPT ![n] = None] /\ heads' = [heads EXCEPT ![n] = NoTree]

\* gh pr merge --auto: GitHub waits for what the branch requires, and merges at once what has nothing
\* to wait for; that the repository does not allow it, or that the PR is gone, is a notice.
EnableAutoMerge ==
  /\ roll.pc = "merge" /\ roll' = Ends("ok")
  /\ \/ /\ prs[roll.name] # None /\ guard.allowed
        /\ prs' = [prs EXCEPT ![roll.name] = "auto"] /\ UNCHANGED <<main, heads>>
     \/ prs[roll.name] # None /\ ~guard.gates /\ Merged(roll.name)
     \/ (prs[roll.name] = None \/ ~guard.allowed) /\ UNCHANGED <<main, heads, prs>>
  /\ UNCHANGED <<nix, nightVars, guard, rolls, others, stops>>

\* A command that fails ends it, and so does a kill; what is pushed stays.
RollStops ==
  /\ roll.pc # "idle" /\ stops < MaxStops /\ stops' = stops + 1
  /\ roll' = Ends("failed")
  /\ UNCHANGED <<main, nix, heads, prs, nightVars, guard, rolls, others>>

-----------------------------------------------------------------------------
Moves == others < MaxOthers /\ others' = others + 1 /\ UNCHANGED <<guard, roll, rolls, stops>>
Other == Moves /\ UNCHANGED nightVars

\* frappe-nix tags a release, then moves its release branch to it; the profile's branch moves.
Release ==
  /\ Other /\ UNCHANGED <<main, heads, prs>>
  /\ \/ nix.tag < 2 /\ nix' = [nix EXCEPT !.tag = @ + 1]
     \/ nix.branch < nix.tag /\ nix' = [nix EXCEPT !.branch = nix.tag]
     \/ nix.profile < 2 /\ nix' = [nix EXCEPT !.profile = @ + 1]

\* "If a stricter rule in the new version fails the app, the PR waits for a fix pushed to its branch."
Fix ==
  /\ Other /\ UNCHANGED <<main, nix, prs>>
  /\ \E n \in Names : prs[n] # None /\ ~heads[n].fixed /\ heads' = [heads EXCEPT ![n].fixed = TRUE]

MergePr ==
  /\ Other /\ UNCHANGED nix
  /\ \E n \in Names : prs[n] # None /\ Merged(n)

-----------------------------------------------------------------------------
\* The drift job: the integration branch as it is checked out, the newest release; then what the
\* profile's branch is at. keep_issue opens what is behind, and closes what is not.
NoNight == [pc |-> "idle", tree |-> NoTree, latest |-> 0, head |-> 0]
KeepIssue(what, body) == issues' = IF body THEN issues \cup {what} ELSE issues \ {what}

RemindRelease ==
  /\ night.pc = "idle" /\ Moves /\ UNCHANGED <<main, nix, heads, prs>>
  /\ night' = [pc |-> "profile", tree |-> main, latest |-> nix.tag, head |-> 0]
  /\ KeepIssue("release", main.lock < nix.tag)

\* A profile that is built in has no input, and its reminder is left as it is.
RemindProfile ==
  /\ night.pc = "profile" /\ UNCHANGED <<main, nix, heads, prs, roll, guard, rolls, others, stops>>
  /\ IF night.tree.rev = 0
     THEN night' = [night EXCEPT !.pc = "idle"] /\ UNCHANGED issues
     ELSE /\ night' = [night EXCEPT !.pc = "idle", !.head = nix.profile]
          /\ KeepIssue("profile", night.tree.rev # nix.profile)

\* GitHub's API fails, which ends the job, or the profile's repository can't be read, which leaves its reminder.
DriftFails ==
  /\ night.pc # "idle" /\ stops < MaxStops /\ stops' = stops + 1 /\ night' = NoNight
  /\ UNCHANGED <<main, nix, heads, prs, roll, issues, guard, rolls, others>>

Init ==
  /\ main \in {Tree(1, "builtin", 0), Tree(1, "org", 1)}
  /\ nix \in [tag : {1, 2}, branch : {1}, profile : {1}]
  /\ heads = [n \in Names |-> NoTree] /\ prs = [n \in Names |-> None]
  /\ roll = Idle /\ night = NoNight /\ issues = {}
  /\ guard \in [gates : BOOLEAN, allowed : BOOLEAN]
  /\ rolls = 0 /\ others = 0 /\ stops = 0

Next ==
  \/ \E to \in 0..nix.tag, ref \in {None, "latest", "other"}, auto \in BOOLEAN : RolloutOne(to, ref, auto)
  \/ UpdateInputs \/ RelockAndSync \/ CommitAndPush \/ CreatePr \/ EnableAutoMerge \/ RollStops
  \/ Release \/ Fix \/ MergePr
  \/ RemindRelease \/ RemindProfile \/ DriftFails

Spec == Init /\ [][Next]_vars

-----------------------------------------------------------------------------
TypeOK ==
  /\ main.lock \in 1..2 /\ main.profile \in {"builtin", "org", "other"} /\ main.rev \in 0..2
  /\ roll.pc \in {"idle", "update", "sync", "push", "pr", "merge"}
  /\ roll.status \in {"none", "ok", "failed", "skipped", "current"}
  /\ \A n \in Names : prs[n] \in {None, "open", "auto"} /\ (prs[n] # None => heads[n] # NoTree)
  /\ night.pc \in {"idle", "profile"} /\ issues \subseteq {"release", "profile"}
  /\ rolls \in 0..MaxRolls /\ others \in 0..MaxOthers /\ stops \in 0..MaxStops

\* A branch has what it is named after, whatever the release branch and the profile did while it was
\* made: a PR that says it moves to a release moves to that release. Two that move different things have
\* different branches, so neither is pushed over the other.
HeadsHold ==
  \A n \in Names : heads[n] # NoTree => n[1] \in {0, heads[n].lock} /\ n[2] \in {0, heads[n].rev}

\* "already current" is said of an app that is at the release, and of a rollout that moved nothing.
CurrentIs == roll.status = "current" => roll.cloned.lock = roll.to \/ roll.to = 0

\* A rollout never takes the app back: neither frappe-nix, nor the profile's revision.
NoneBack == roll.pc \in {"pr", "merge"} => roll.tree.lock >= roll.cloned.lock /\ roll.tree.rev >= roll.cloned.rev

\* After a drift job that ran to its end the reminders are of what the app, as it found it, is behind in:
\* what was rolled out and merged before it is reminded of no more, whatever an earlier job broke off.
Reminded ==
  night.pc = "idle" /\ night.latest # 0 =>
    /\ "release" \in issues <=> night.tree.lock < night.latest
    /\ night.tree.rev # 0 => ("profile" \in issues <=> night.tree.rev # night.head)

RolloutSound == HeadsHold /\ CurrentIs /\ NoneBack /\ Reminded

\* A profile that is built in stays so in a rollout of one thing. "A repository whose profile is a
\* built-in is skipped by --profile-to": with --to beside it the reference is set all the same.
BuiltinStep ==
  roll.pc = "push" /\ heads # heads' /\ (roll.to = 0 \/ roll.ref = None) =>
    (Org(roll.tree.profile) <=> Org(roll.cloned.profile))

\* "the PR waits for a fix pushed to its branch": false of the code, as a rollout that is run again
\* starts from the integration branch and pushes over what is on the branch.
FixStep == \A n \in Names : prs[n] # None /\ heads[n].fixed /\ heads'[n] # NoTree => heads'[n].fixed
FixesKept == [][FixStep]_vars
=============================================================================
