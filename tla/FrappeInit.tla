----------------------------- MODULE FrappeInit -----------------------------
(***************************************************************************)
(* frappe-init lays a bench down from nothing, or turns a classic bench    *)
(* into a frappe-nix one in place: "every step is check-then-act, so an    *)
(* interrupted run is resumed by running it again". One bench, the         *)
(* commands run in it, cut off anywhere, and what its owner does between.  *)
(* --version, --default-site and --yes are given; app mode is not here.    *)
(***************************************************************************)
EXTENDS Integers, Sequences

CONSTANTS
  MaxRuns,  \* bound: commands
  MaxActs,  \* bound: what the owner does
  MaxStops  \* bound: steps that fail, and kills

VARIABLES
  world,    \* the bench directory
  run,      \* the command under way, or the last one
  runs, acts, stops

vars == <<world, run, runs, acts, stops>>

None == "none"
Apps == {"frappe", "acme"}
Preset == "version-15"

\* An app's checkout: its .git (its own directory; a file that points into the bench's .git, "absorbed",
\* or elsewhere, "external"), the history it holds, what a remote's URL is, the remotes that have a ref
\* at HEAD, whether HEAD is on a branch, that branch, the metadata it ships (nothing where it has no files).
App(git, history, origin, upstream, refs, named, line, meta) ==
  [git |-> git, history |-> history, origin |-> origin, upstream |-> upstream, refs |-> refs,
   named |-> named, line |-> line, meta |-> meta]
Nothing == App(None, 0, None, None, {}, FALSE, None, None)
Gone    == [gone |-> TRUE]
Cloned  == App("own", 1, "hub", None, {"origin"}, TRUE, Preset, "pyproject")
Partial == App("own", 0, "hub", None, {}, FALSE, None, None)   \* what a clone that was killed left
There(w, a)    == w.app[a] # Gone
HasFiles(w, a) == There(w, a) /\ w.app[a].meta # None

\* Where the app is in the bench's index, and its entry of .gitmodules.
Entry(url, branch) == [url |-> url, branch |-> branch]
NoEntry == Entry(None, None)

\* sites/common_site_config.json: the owner's own keys (a version of them), whether keys that the dev
\* shell contradicts are there. Torn while it is written.
Config(own, stale) == [own |-> own, stale |-> stale]
NoFile == Config(0, FALSE)
Torn   == Config(-1, FALSE)

-----------------------------------------------------------------------------
(***************************************************************************)
(* What a directory is.                                                    *)
(***************************************************************************)
IsFrappeNixBench(w) == w.flake = "ours" /\ w.root = "workspace"
ForeignFlake(w)     == w.flake # None /\ ~IsFrappeNixBench(w)
LooksLikeBench(w)   == w.sites /\ \E a \in Apps : HasFiles(w, a)
EmptyBench(w)       == w.sites /\ w.apps /\ ~LooksLikeBench(w)
DirIsEmpty(w)       == ~w.apps /\ ~w.sites /\ w.flake = None /\ w.root = None /\ w.env = None

\* dispatch, decide_mode: the mode, or the code it is refused with.
DecideMode(w, mode, force) ==
  CASE DirIsEmpty(w)                        -> IF mode = "migrate" THEN "1" ELSE "init"
    [] mode = "init"                        -> IF force THEN "init" ELSE "2"
    [] mode = "migrate"                     -> IF LooksLikeBench(w) \/ force THEN "migrate" ELSE "6"
    [] IsFrappeNixBench(w)                  -> "migrate"
    [] ForeignFlake(w) /\ LooksLikeBench(w) -> "4"
    [] LooksLikeBench(w)                    -> "migrate"
    [] EmptyBench(w)                        -> "7"
    [] OTHER                                -> "6"

\* The remote that carries what .gitmodules declares, in git's order of them; else origin, upstream.
Remote(w, a) ==
  LET c == w.app[a]  declared == w.gm[a].url
  IN  CASE declared # None /\ c.origin = declared   -> "origin"
        [] declared # None /\ c.upstream = declared -> "upstream"
        [] c.origin # None                          -> "origin"
        [] c.upstream # None                        -> "upstream"
        [] OTHER                                    -> None
Url(w, a) == CASE Remote(w, a) = "origin" -> w.app[a].origin [] Remote(w, a) = "upstream" -> w.app[a].upstream
               [] OTHER -> None

\* resolve_app_branch: a ref of the remote at HEAD, what HEAD's branch merges, sites/apps.json, the preset's.
ResolveBranch(w, a) ==
  CASE Remote(w, a) \in w.app[a].refs \/ w.app[a].named -> w.app[a].line
    [] w.json[a] # None                                 -> w.json[a]
    [] OTHER                                            -> Preset

Plan(disp, w, a) == [disp |-> disp, url |-> Url(w, a), branch |-> ResolveBranch(w, a), remote |-> Remote(w, a)]
ClassifyApp(w, a, vendor) ==
  LET c == w.app[a]
  IN  CASE ~There(w, a)                       -> [disp |-> None]
        [] a \in vendor                       -> Plan("vendor", w, a)
        [] c.git = None                       -> Plan("vendor", w, a)
        [] c.git = "external" \/ c.history = 0 -> Plan("skip", w, a)
        [] Url(w, a) \in {None, "local"}      -> Plan("vendor", w, a)
        [] OTHER                              -> Plan("submodule", w, a)
ClassifyApps(w, vendor) == [a \in Apps |-> ClassifyApp(w, a, vendor)]

-----------------------------------------------------------------------------
(***************************************************************************)
(* The steps. A step's Effect is on the bench as it finds it.              *)
(***************************************************************************)
Step(op, a) == [op |-> op, app |-> a]
Convert(plan, a) ==
  LET does(ops) == [i \in 1..Len(ops) |-> Step(ops[i], a)]
  IN  CASE plan[a].disp = "submodule" -> does(<<"repair", "untrack", "link", "declare", "alias">>)
        [] plan[a].disp = "vendor"    -> does(<<"move", "unlink", "add">>)
        [] OTHER                      -> <<>>
Ops(ops) == [i \in 1..Len(ops) |-> Step(ops[i], None)]
Pipeline(plan) ==
  Ops(<<"repo", "flake", "root", "sites", "env", "orig", "tear", "config">>)
  \o Convert(plan, "frappe") \o Convert(plan, "acme")
  \o Ops(<<"shim", "register", "registry", "stage">>)
Scaffold == Ops(<<"repo">>) \o <<Step("clone", "frappe"), Step("clone", "acme")>> \o Ops(<<"classify">>)

ReconciledConfig(c) == Config(IF c = NoFile THEN 1 ELSE c.own, FALSE)
ConfigDiffers(w) == w.config # ReconciledConfig(w.config)

Eligible(w, plan, a) == plan[a].disp \in {"vendor", "submodule"} /\ w.app[a].meta = "pyproject"
Shimmed(w, plan, a)  == plan[a].disp = "vendor" /\ w.app[a].meta = "setup"

\* git add -A takes what is not ignored: sources as files, a repository of its own as a gitlink.
Added(w, a) == CASE ~There(w, a) -> None
                 [] w.app[a].git # None -> "gitlink"
                 [] HasFiles(w, a) -> "files"
                 [] OTHER -> w.index[a]

RelocateEnv(w) == IF w.env = "real" THEN [w EXCEPT !.env = None, !.keptEnv = TRUE] ELSE w

\* vendor_app's two moves: the .git to the backup, a gitlink out of the index.
MoveGit(w, a) ==
  IF w.app[a].git = None THEN w
  ELSE [w EXCEPT !.kept[a] = w.app[a].history, !.app[a].git = None, !.app[a].history = 0]
Unlink(w, a) == IF w.index[a] = "gitlink" THEN [w EXCEPT !.index[a] = None] ELSE w

\* reconcile_workspace: the root and its members; then sites/apps.txt and apps.json from these.
Register(w, plan) ==
  [w EXCEPT !.root = "workspace", !.members = @ \cup {b \in Apps : There(w, b) /\ Eligible(w, plan, b)}]
SyncRegistry(w) ==
  [w EXCEPT !.txt = w.members, !.json = [b \in Apps |-> IF b \in w.members THEN w.gm[b].branch ELSE None]]

\* DeclareOnce and TakenNever are mutations: no step has them.
DeclareOnce(w, plan, a) == IF w.gm[a] # NoEntry THEN w ELSE [w EXCEPT !.gm[a] = Entry(plan[a].url, plan[a].branch)]
Declare(w, plan, a) == [w EXCEPT !.gm[a] = Entry(plan[a].url, plan[a].branch)]

Effect(w, plan, s) ==
  LET a == s.app
  IN  CASE s.op = "repo"    -> [w EXCEPT !.repo = "own", !.apps = TRUE]
        [] s.op = "clone"   -> IF There(w, a) THEN w ELSE [w EXCEPT !.app[a] = Cloned]
        [] s.op = "flake"   -> IF w.flake = None THEN [w EXCEPT !.flake = "ours"] ELSE w
        [] s.op = "root"    -> IF w.root = None THEN [w EXCEPT !.root = "workspace"] ELSE w
        [] s.op = "sites"   -> [w EXCEPT !.sites = TRUE]
        [] s.op = "env"     -> RelocateEnv(w)
        [] s.op = "orig"    -> IF ConfigDiffers(w) /\ w.config # NoFile THEN [w EXCEPT !.orig = w.config] ELSE w
        [] s.op = "tear"    -> IF ConfigDiffers(w) THEN [w EXCEPT !.config = Torn] ELSE w
        [] s.op = "repair"  -> IF w.gm[a] # NoEntry THEN Declare(w, plan, a) ELSE w
        [] s.op = "untrack" -> IF w.gm[a] = NoEntry /\ w.index[a] = "files" THEN [w EXCEPT !.index[a] = None] ELSE w
        [] s.op = "link"    -> [w EXCEPT !.index[a] = "gitlink"]
        [] s.op = "declare" -> Declare(w, plan, a)
        [] s.op = "alias"   -> IF plan[a].remote # "origin" /\ w.app[a].origin = None
                               THEN [w EXCEPT !.app[a].origin = plan[a].url] ELSE w
        [] s.op = "move"    -> MoveGit(w, a)
        [] s.op = "unlink"  -> Unlink(w, a)
        [] s.op = "add"     -> [w EXCEPT !.index[a] = "files"]
        [] s.op = "shim"    -> [w EXCEPT !.app = [b \in Apps |-> IF There(w, b) /\ Shimmed(w, plan, b)
                                                                 THEN [w.app[b] EXCEPT !.meta = "pyproject"] ELSE w.app[b]]]
        [] s.op = "register" -> Register(w, plan)
        [] s.op = "registry" -> SyncRegistry(w)
        [] s.op = "stage"    -> [w EXCEPT !.index = [b \in Apps |-> Added(w, b)]]

\* What a step refuses, or what git does: two histories of one app, files where a gitlink goes, a
\* vendored app without a file, a configuration that is no object, a repository without a commit.
TakenNever(w, a) == FALSE
Taken(w, a) == w.app[a].git # None /\ w.kept[a] # 0
Refuses(w, s) ==
  \/ s.op = "move" /\ Taken(w, s.app)
  \/ s.op = "link" /\ w.index[s.app] = "files"
  \/ s.op = "add" /\ ~HasFiles(w, s.app)
  \/ s.op = "orig" /\ w.config = Torn
  \/ s.op = "stage" /\ \E a \in Apps : There(w, a) /\ w.app[a].git = "own" /\ w.app[a].history = 0

-----------------------------------------------------------------------------
NoPlan == [a \in Apps |-> [disp |-> None]]
Idle == [todo |-> <<>>, plan |-> NoPlan, first |-> NoPlan, mode |-> None, vendor |-> {}, force |-> FALSE, found |-> NoFile,
         status |-> "none", disturbed |-> FALSE]
Running == run.status = "running"

\* first: the plan of the first of the commands that were cut off and run again, with nothing between.
Repeats(mode, vendor) == run.status = "cut" /\ ~run.disturbed /\ run.mode = mode /\ run.vendor = vendor
Begin(mode, force, vendor, plan, todo) ==
  run' = [todo |-> todo, plan |-> plan, mode |-> mode, vendor |-> vendor, force |-> force, found |-> world.config,
          first |-> IF Repeats(mode, vendor) /\ run.first # NoPlan THEN run.first ELSE plan,
          status |-> "running", disturbed |-> FALSE]

FrappeInit(mode, force, vendor) ==
  LET decided == DecideMode(world, mode, force)
      plan    == ClassifyApps(world, vendor)
  IN  /\ ~Running /\ runs < MaxRuns
      /\ runs' = runs + 1
      /\ CASE decided = "init"
                -> Begin("init", force, vendor, NoPlan, Scaffold)
           [] decided = "migrate" /\ (force \/ (world.repo # "nested" /\ ~ForeignFlake(world)))
                -> Begin("migrate", force, vendor, plan, Pipeline(plan))
           [] OTHER
                -> run' = [run EXCEPT !.status = "refused", !.disturbed = TRUE]
      /\ UNCHANGED <<world, acts, stops>>

\* cmd_init classifies what it has cloned; migrate did so before it began.
NextStep ==
  LET s == Head(run.todo)
  IN  /\ Running /\ run.todo # <<>> /\ s.op \notin {"classify", "config"}
      /\ UNCHANGED <<runs, acts, stops>>
      /\ IF Refuses(world, s)
         THEN run' = [run EXCEPT !.status = "died"] /\ UNCHANGED world
         ELSE /\ world' = Effect(world, run.plan, s)
              /\ run' = [run EXCEPT !.todo = Tail(@), !.status = IF Tail(run.todo) = <<>> THEN "ok" ELSE @]
Classify ==
  LET plan == ClassifyApps(world, run.vendor)
  IN  /\ Running /\ Head(run.todo).op = "classify"
      /\ run' = [run EXCEPT !.plan = plan, !.first = IF @ = NoPlan THEN plan ELSE @, !.todo = Pipeline(plan)]
      /\ UNCHANGED <<world, runs, acts, stops>>
WriteConfig ==
  /\ Running /\ Head(run.todo).op = "config"
  /\ world' = [world EXCEPT !.config = IF @ = Torn THEN ReconciledConfig(run.found) ELSE @]
  /\ run' = [run EXCEPT !.todo = Tail(@)]
  /\ UNCHANGED <<runs, acts, stops>>

\* A step that fails, Ctrl-C, a kill. A clone that is killed leaves what it has.
CutOff ==
  /\ Running /\ stops < MaxStops /\ stops' = stops + 1
  /\ run' = [run EXCEPT !.status = "cut"]
  /\ \/ UNCHANGED world
     \/ /\ Head(run.todo).op = "clone" /\ ~There(world, Head(run.todo).app)
        /\ world' = [world EXCEPT !.app[Head(run.todo).app] = Partial]
  /\ UNCHANGED <<runs, acts>>

\* The owner, between commands: a bench command writes the configuration, or the broken one is removed;
\* a virtualenv is made; a vendored app gets a repository, or its own back, as the backup's README says.
Owner ==
  /\ ~Running /\ LooksLikeBench(world) /\ acts < MaxActs /\ acts' = acts + 1
  /\ run' = [run EXCEPT !.disturbed = TRUE]
  /\ \/ world' = [world EXCEPT !.config = IF @ = Torn THEN NoFile ELSE Config(@.own + 1, TRUE)]
     \/ world.env = None /\ world' = [world EXCEPT !.env = "real"]
     \/ \E a \in Apps : /\ HasFiles(world, a) /\ world.app[a].git = None
                        /\ \/ world' = [world EXCEPT !.app[a].git = "own", !.app[a].history = 2]
                           \/ /\ world.kept[a] # 0
                              /\ world' = [world EXCEPT !.app[a].git = "own", !.app[a].history = world.kept[a],
                                                        !.kept[a] = 0]
  /\ UNCHANGED <<runs, stops>>

-----------------------------------------------------------------------------
\* Checkouts as they come, with where each is in the index and .gitmodules.
Shape(c, index, gm) == [app |-> c, index |-> index, gm |-> gm]
Shapes ==
  { Shape(Cloned, None, NoEntry),
    Shape(Cloned, "files", NoEntry),
    Shape(App("own", 1, None, "hub", {"upstream"}, FALSE, "develop", "pyproject"), None, NoEntry),
    Shape(App("absorbed", 1, "fork", "hub", {"origin", "upstream"}, TRUE, "develop", "pyproject"), "gitlink",
          Entry("hub", "old")),
    Shape(Nothing, "gitlink", Entry("hub", "develop")),                                      \* not initialised
    Shape(App("own", 1, "local", None, {"origin"}, TRUE, "develop", "pyproject"), "gitlink", NoEntry), \* stray
    Shape(App("own", 1, None, None, {}, TRUE, "develop", "setup"), None, NoEntry),
    Shape(App("own", 1, "hub", None, {"origin"}, TRUE, "develop", "setup"), None, NoEntry),
    Shape(App(None, 0, None, None, {}, FALSE, None, "pyproject"), None, NoEntry),
    Shape(App("external", 1, "hub", None, {"origin"}, TRUE, "develop", "pyproject"), None, NoEntry),
    Shape(App("own", 0, "hub", None, {}, TRUE, "develop", "pyproject"), None, NoEntry) }

Empty == [repo |-> None, apps |-> FALSE, sites |-> FALSE, flake |-> None, root |-> None, env |-> None,
          keptEnv |-> FALSE, config |-> NoFile, orig |-> NoFile, members |-> {}, txt |-> {},
          app |-> [a \in Apps |-> Gone], index |-> [a \in Apps |-> None], gm |-> [a \in Apps |-> NoEntry],
          kept |-> [a \in Apps |-> 0], json |-> [a \in Apps |-> None]]
Classic(s, repo, flake, root) ==
  [Empty EXCEPT !.repo = repo, !.apps = TRUE, !.sites = TRUE, !.flake = flake, !.root = root, !.env = "real",
                !.config = Config(1, TRUE), !.txt = {"frappe"},
                !.app = [a \in Apps |-> IF a = "frappe" THEN Cloned ELSE s.app],
                !.index["acme"] = s.index, !.gm["acme"] = s.gm]

Init ==
  /\ \/ world = Empty
     \/ \E s \in Shapes, shape \in {<<"own", None, None>>, <<"own", None, "plain">>, <<"nested", "foreign", None>>} :
          world = Classic(s, shape[1], shape[2], shape[3])
  /\ run = Idle /\ runs = 0 /\ acts = 0 /\ stops = 0

Next ==
  \/ \E mode \in {"auto", "init", "migrate"}, force \in BOOLEAN, vendor \in {{}, {"acme"}} :
       FrappeInit(mode, force, vendor)
  \/ NextStep \/ Classify \/ WriteConfig \/ CutOff \/ Owner

Spec == Init /\ [][Next]_vars

-----------------------------------------------------------------------------
TypeOK ==
  /\ world.index \in [Apps -> {None, "files", "gitlink"}] /\ world.kept \in [Apps -> 0..2]
  /\ world.members \subseteq Apps /\ world.txt \subseteq Apps
  /\ run.status \in {"none", "running", "ok", "died", "cut", "refused"} /\ run.mode \in {None, "init", "migrate"}
  /\ runs \in 0..MaxRuns /\ acts \in 0..MaxActs /\ stops \in 0..MaxStops

\* What sites/common_site_config.json was when the command began is there or in the backup, wherever it
\* is cut off. (Of two commands that both changed it, only what the second found: the first's is lost.)
ConfigSafe == ~run.disturbed /\ run.status # "none" /\ run.found # NoFile => run.found \in {world.config, world.orig, Torn}

\* A bench that is done is one that a flake can see: every app is a submodule that .gitmodules declares
\* at the URL and branch of the plan, or has its files tracked, and nothing is a gitlink without an entry;
\* what is registered is in sites/apps.txt. Not so for an app that was skipped, which git add -A stages as
\* a gitlink all the same; and a submodule that --vendor takes in keeps its entry.
Visible ==
  run.status = "ok" /\ ~run.disturbed =>
    /\ world.txt = world.members /\ world.root = "workspace"
    /\ \A a \in Apps :
         /\ run.plan[a].disp = "submodule" => /\ world.index[a] = "gitlink" /\ world.app[a].origin # None
                                              /\ world.gm[a] = Entry(run.plan[a].url, run.plan[a].branch)
         /\ run.plan[a].disp = "vendor" => world.index[a] = "files" /\ world.app[a].git = None
         /\ run.plan[a].disp # "skip" => (world.index[a] = "gitlink" => world.gm[a] # NoEntry)
         /\ There(world, a) /\ Eligible(world, run.plan, a) => a \in world.members

\* "An interrupted run is resumed by running it again": the command that ends well has done to each app what
\* the first would have. Only the branch of an app that was given an origin is guessed anew, as that
\* remote has no refs yet.
Resumes ==
  run.status = "ok" =>
    \A a \in Apps :
      LET was == run.first[a]  is == run.plan[a]
      IN  was.disp # None => /\ was.disp = is.disp
                             /\ is.disp = "submodule" => was.url = is.url
                             /\ is.disp = "submodule" /\ was.remote = "origin" => was.branch = is.branch

\* A migration that was cut off is not refused when it is run again, if flake.nix and pyproject.toml are
\* both there or both not, and the bench had no pyproject.toml without a workspace: in between, the
\* wrapper that was just written is taken for another's.
Resumable ==
  run.status = "cut" /\ run.mode = "migrate" /\ ~run.force /\ ~run.disturbed
      /\ (world.flake = "ours" <=> world.root = "workspace")
    => DecideMode(world, "auto", FALSE) = "migrate"

InitSound == ConfigSafe /\ Visible /\ Resumes /\ Resumable

\* "Nothing here is destructive": no step loses an app's history, a virtualenv of which there is no copy
\* yet, or a flake.nix or pyproject.toml that was there.
Histories(w) == {<<a, h>> \in Apps \X {1, 2} : (There(w, a) /\ w.app[a].history = h) \/ w.kept[a] = h}
LosesNothing ==
  Running => /\ Histories(world) \subseteq Histories(world')
             /\ world.env = "real" => world'.env = "real" \/ world'.keptEnv
             /\ world.flake # None => world'.flake = world.flake
             /\ world.root # None => world'.root \in {world.root, "workspace"}
             /\ \A a \in Apps : There(world, a) => There(world', a)
NothingLost == [][LosesNothing]_vars
=============================================================================
