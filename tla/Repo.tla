-------------------------------- MODULE Repo --------------------------------
(***************************************************************************)
(* frappe-nix repo apply writes an app's settings, labels and rulesets to  *)
(* GitHub, call by call; repo audit and repo doctor tell what is amiss. One *)
(* repository, and one person who runs apply, while the app reconfigures   *)
(* itself and an admin changes the repository by hand.                     *)
(***************************************************************************)
EXTENDS Integers, Sequences, SequencesExt, FiniteSets

CONSTANTS
  MaxRuns,   \* bound: commands
  MaxActs,   \* bound: what the app and the admins do
  MaxFaults  \* bound: calls that fail, and kills

VARIABLES
  cfg,       \* the app's configuration on its integration branch
  hub,       \* the repository on GitHub: branches, settings, labels, rulesets
  run,       \* the repo apply under way, or the last one
  runs, acts, faults

vars == <<cfg, hub, run, runs, acts, faults>>

None  == "none"
Gates == {"lint", "test"}

\* An app: in or not, whether repo-policy is on, the gates, those it requires, releases with a
\* release branch ("branch"), on tags alone, or off, who may move the release branch, how PRs merge,
\* whether the default branch is policy's.
App(opted, on, gates, required, releases, bypass, merge, manage) ==
  [opted |-> opted, on |-> on, gates |-> gates, required |-> required, releases |-> releases,
   bypass |-> bypass, merge |-> merge, manage |-> manage]
Configs ==
  { App(FALSE, TRUE,  {},       {},       "off",    "actions", "squash", TRUE),
    App(TRUE,  FALSE, Gates,    Gates,    "branch", "actions", "squash", TRUE),
    App(TRUE,  TRUE,  Gates,    Gates,    "branch", "actions", "squash", TRUE),
    App(TRUE,  TRUE,  {"lint"}, {"lint"}, "tags",   "actions", "merge",  TRUE),
    App(TRUE,  TRUE,  Gates,    {"lint"}, "branch", "user",    "squash", FALSE),
    App(TRUE,  TRUE,  {},       {},       "off",    "actions", "squash", TRUE) }

-----------------------------------------------------------------------------
(***************************************************************************)
(* The policy: settings and rulesets as rendered for the app.              *)
(***************************************************************************)
Settings == <<"repository", "workflow", "alerts", "fixes", "label">>

\* What a setting should be; of the repository's own, the default branch only where policy has it.
WantSetting(c, s) ==
  IF s = "repository" THEN [merge |-> c.merge, auto |-> TRUE] ELSE TRUE

\* integration.json and integration-provisional.json have one name: the second requires no check.
Wanted(c, phase) ==
  <<"integration">>
  \o (IF phase = "full" /\ c.releases = "branch" THEN <<"release">> ELSE <<>>)
  \o (IF phase = "full" /\ c.releases # "off" THEN <<"tags">> ELSE <<>>)
WantRule(c, phase, n) ==
  CASE n = "integration" -> [checks |-> IF phase = "full" THEN c.required ELSE {}]
    [] n = "release"     -> [bypass |-> c.bypass]
    [] n = "tags"        -> [fixed |-> TRUE]
RuleNames == {"integration", "release", "tags", "own"}
Edited    == [edited |-> TRUE]   \* what an admin made of a ruleset, or the admin's own
Absent    == [absent |-> TRUE]

DefaultDiffers(c) == c.manage /\ hub.default # "integration"
SettingDiffers(c, s) ==
  \/ hub.set[s] # WantSetting(c, s)
  \/ s = "repository" /\ DefaultDiffers(c)
RuleDiffers(c, phase, n) == hub.rules[n] # WantRule(c, phase, n)

\* repo audit. A1: the default branch. A3: what a dry run would change (on a private repository,
\* settings only); "unknown" where the rulesets cannot be read.
A1 == hub.default = "integration"
A3(c) == /\ \A s \in ToSet(Settings) : ~SettingDiffers(c, s)
         /\ hub.private \/ \A n \in ToSet(Wanted(c, "full")) : ~RuleDiffers(c, "full", n)

\* The contexts that the integration branch requires; auto-merge wants every gate's among them.
Contexts == IF hub.rules["integration"] \notin {Absent, Edited} THEN hub.rules["integration"].checks ELSE {}
GatesProtected(c) == c.gates # {} /\ c.gates \subseteq Contexts
\* repo doctor: Actions may open PRs, may move the release branch, auto-merge is allowed and safe.
Movable == hub.rules["release"] \in {Absent, [bypass |-> "actions"]}
Doctor(c) ==
  /\ c.releases # "off" => hub.set["workflow"]
  /\ c.releases = "branch" => Movable
  /\ hub.set["repository"].auto /\ GatesProtected(c)
  /\ hub.set["label"]

-----------------------------------------------------------------------------
(***************************************************************************)
(* repo apply.                                                             *)
(***************************************************************************)
NoApp == App(FALSE, FALSE, {}, {}, "off", "actions", "squash", FALSE)
NoRun == [todo |-> <<>>, cfg |-> NoApp, phase |-> None, dry |-> FALSE, only |-> None, rename |-> FALSE,
          ids |-> {}, changed |-> {}, status |-> "none", disturbed |-> FALSE]

Calls(c, phase, only) ==
  (IF only = "rulesets" THEN <<>>
   ELSE (IF c.manage THEN <<"branch">> ELSE <<>>) \o Settings)
  \o (IF only = "settings" THEN <<>> ELSE <<"list">> \o Wanted(c, phase))

Running == run.status = "running"
Finish(r) == IF r.todo = <<>> THEN [r EXCEPT !.status = "ok"] ELSE r

\* apply_one up to its first write: what it refuses, what it skips, what it clones.
RepoApply(phase, dry, only, rename) ==
  LET r == [NoRun EXCEPT !.cfg = cfg, !.phase = phase, !.dry = dry, !.only = only, !.rename = rename,
                         !.todo = Calls(cfg, phase, only), !.status = "running"]
      stop(status) == [NoRun EXCEPT !.status = status]
  IN  /\ ~Running /\ runs < MaxRuns
      /\ runs' = runs + 1
      /\ run' = CASE phase = "full" /\ hub.entry       -> stop("failed")
                  [] cfg.opted = FALSE /\ ~hub.profile -> stop("skipped")
                  [] ~cfg.on                           -> stop("skipped")
                  [] phase = "full" /\ ~cfg.opted      -> stop("invalid")
                  [] OTHER                             -> Finish(r)
      /\ UNCHANGED <<cfg, hub, acts, faults>>

\* The next call is over: what it wrote, if it wrote and this is no dry run.
Goes(r, h, writes) ==
  /\ Running
  /\ run' = Finish([r EXCEPT !.todo = Tail(@), !.changed = IF writes THEN @ \cup {Head(run.todo)} ELSE @])
  /\ hub' = IF writes /\ ~run.dry THEN h ELSE hub
  /\ UNCHANGED <<cfg, runs, acts, faults>>
StopsAt(status) ==
  /\ Running
  /\ run' = [NoRun EXCEPT !.status = status]
  /\ UNCHANGED <<cfg, hub, runs, acts>>

IntegrationBranch ==
  /\ Running /\ Head(run.todo) = "branch"
  /\ \/ hub.exists /\ Goes(run, hub, FALSE)
     \/ ~hub.exists /\ run.rename /\ Goes(run, [hub EXCEPT !.exists = TRUE, !.default = "integration"], TRUE)
     \/ ~hub.exists /\ ~run.rename /\ StopsAt("failed") /\ UNCHANGED faults

PutSettingOnly(h, c, s) == [h EXCEPT !.set[s] = WantSetting(c, s)]
PutSetting(h, c, s) ==
  [h EXCEPT !.set[s] = WantSetting(c, s),
            !.default = IF s = "repository" /\ c.manage THEN "integration" ELSE @]
Setting ==
  LET s == Head(run.todo)
  IN  /\ Running /\ s \in ToSet(Settings)
      /\ Goes(run, PutSetting(hub, run.cfg, s), SettingDiffers(run.cfg, s))

\* Which rulesets there are is read once, before the first is written.
List ==
  /\ Running /\ Head(run.todo) = "list"
  /\ \/ hub.plan /\ Goes([run EXCEPT !.ids = {n \in RuleNames : hub.rules[n] # Absent}], hub, FALSE)
     \/ ~hub.plan /\ StopsAt("failed") /\ UNCHANGED faults

\* A ruleset that was not there is posted, which GitHub refuses if it has come since; one that was
\* is read and put, and is not found if it has gone. GitHub may refuse Actions as who bypasses.
\* RulesetAlone is a mutation, as is PutSettingOnly: no call makes them.
RulesetAlone(r, n) ==
  [hub EXCEPT !.rules = [m \in RuleNames |-> CASE m = n -> WantRule(r.cfg, r.phase, n)
                                               [] m \in ToSet(Wanted(r.cfg, r.phase)) \ {n} -> hub.rules[m]
                                               [] OTHER -> Absent]]
PutRuleset(r, n) == [hub EXCEPT !.rules[n] = WantRule(r.cfg, r.phase, n)]
Ruleset ==
  LET n == Head(run.todo)
      listed  == n \in run.ids
      there   == hub.rules[n] # Absent
      writes  == ~listed \/ RuleDiffers(run.cfg, run.phase, n)
      refused == /\ writes /\ ~run.dry
                 /\ (~listed /\ there) \/ (n = "release" /\ run.cfg.bypass = "actions" /\ hub.refuses)
  IN  /\ Running /\ n \in RuleNames
      /\ IF (listed /\ ~there) \/ refused
         THEN StopsAt("failed") /\ UNCHANGED faults
         ELSE Goes(run, PutRuleset(run, n), writes)

\* A call that fails ends this repository's apply, and so does a kill: what was written stays.
ApplyFails == faults < MaxFaults /\ faults' = faults + 1 /\ StopsAt("failed")

-----------------------------------------------------------------------------
(***************************************************************************)
(* Beside the commands.                                                    *)
(***************************************************************************)
Act == acts < MaxActs /\ acts' = acts + 1 /\ UNCHANGED <<runs, faults>>
Disturb == run' = [run EXCEPT !.disturbed = TRUE]

Reconfigure ==
  /\ Act /\ Disturb /\ cfg' \in Configs \ {cfg}
  /\ UNCHANGED hub

ByHand ==
  /\ Act /\ Disturb
  /\ \/ \E s \in ToSet(Settings) :
          hub' = [hub EXCEPT !.set[s] = IF s = "repository" THEN [merge |-> "merge", auto |-> FALSE] ELSE FALSE]
     \/ \E n \in RuleNames, v \in {Absent, Edited} : hub' = [hub EXCEPT !.rules[n] = v]
     \/ hub' = [hub EXCEPT !.default = "other"]
  /\ hub' # hub
  /\ UNCHANGED cfg

-----------------------------------------------------------------------------
Fresh(exists, default, entry, profile, plan, refuses, private, full) ==
  [exists |-> exists, default |-> default, entry |-> entry, profile |-> profile, plan |-> plan,
   refuses |-> refuses, private |-> private,
   set |-> [s \in ToSet(Settings) |-> IF s = "repository" THEN [merge |-> "merge", auto |-> full] ELSE full],
   rules |-> [n \in RuleNames |-> CASE n = "own" -> Edited [] n = "integration" /\ full -> [checks |-> {"test"}]
                                    [] OTHER -> Absent]]
Hubs ==
  { Fresh(FALSE, "other", FALSE, TRUE, TRUE, FALSE, FALSE, FALSE),
    Fresh(TRUE, "other", FALSE, FALSE, TRUE, TRUE, FALSE, FALSE),
    Fresh(TRUE, "integration", FALSE, FALSE, TRUE, FALSE, FALSE, TRUE),
    Fresh(TRUE, "integration", TRUE, FALSE, TRUE, FALSE, TRUE, FALSE),
    Fresh(TRUE, "other", FALSE, FALSE, FALSE, FALSE, TRUE, TRUE) }

Init ==
  /\ cfg \in Configs /\ hub \in Hubs
  /\ run = NoRun
  /\ runs = 0 /\ acts = 0 /\ faults = 0

Next ==
  \/ \E phase \in {"provisional", "full"}, dry, rename \in BOOLEAN, only \in {None, "settings", "rulesets"} :
       (rename => ~hub.exists) /\ RepoApply(phase, dry, only, rename)   \* the flag is read only where there is no branch
  \/ IntegrationBranch \/ Setting \/ List \/ Ruleset \/ ApplyFails
  \/ Reconfigure \/ ByHand

Spec == Init /\ [][Next]_vars

-----------------------------------------------------------------------------
TypeOK ==
  /\ cfg \in Configs
  /\ hub.rules["own"] \in {Absent, Edited} /\ hub.default \in {"integration", "other"}
  /\ run.status \in {"none", "running", "ok", "failed", "skipped", "invalid"}
  /\ run.cfg \in Configs \cup {NoApp} /\ run.ids \subseteq RuleNames
  /\ runs \in 0..MaxRuns /\ acts \in 0..MaxActs /\ faults \in 0..MaxFaults

\* An apply of everything that ended well, with nothing else touched since it began, leaves a repository
\* that audit and doctor have nothing against, whatever failed or was killed before it: each call is made
\* from what there is, not from what an earlier run did. Two choices of the app are amiss by themselves:
\* doctor wants Actions to bypass, although release-bypass may name a user, and every gate required,
\* although required-checks may leave some out.
Applied ==
  run.status = "ok" /\ run.phase = "full" /\ ~run.dry /\ run.only = None /\ ~run.disturbed =>
    /\ A3(cfg) /\ (cfg.manage => A1)
    /\ cfg.gates # {} /\ cfg.required = cfg.gates /\ cfg.bypass = "actions" => Doctor(cfg)

\* "--dry-run prints a JSON diff per repo": it lists nothing exactly when there is nothing to write.
DryRunTells ==
  run.status = "ok" /\ run.dry /\ run.only = None /\ ~run.disturbed =>
    ( run.changed = {} <=>
        /\ hub.exists \/ ~cfg.manage
        /\ \A s \in ToSet(Settings) : ~SettingDiffers(cfg, s)
        /\ \A n \in ToSet(Wanted(cfg, run.phase)) : ~RuleDiffers(cfg, run.phase, n) )

RepoSound == Applied /\ DryRunTells

\* "Unknown rulesets are listed, never deleted", and no call takes from the integration branch a check
\* that the configuration it applies requires, or the branch's ruleset: it is put over, not replaced.
ApplyStep == run.todo # run'.todo /\ hub # hub'
KeepsStep ==
  ApplyStep => /\ hub'.rules["own"] = hub.rules["own"]
               /\ \A n \in RuleNames : hub.rules[n] # Absent => hub'.rules[n] # Absent
               /\ run.phase = "full" => Contexts \cap run.cfg.required \subseteq Contexts'
Keeps == [][KeepsStep]_vars
=============================================================================
