------------------------------- MODULE Bench --------------------------------
(***************************************************************************)
(* The files of a bench that say which apps it has, and the commands that  *)
(* change them: bench get-app, new-app, remove-app, rename-app, update     *)
(* --pull, update-deps, relock, and the root sync of each shell entry.     *)
(*                                                                         *)
(* A command is a list of steps, each of which one tool or one function    *)
(* takes: it may fail or be interrupted (what the command does on the way  *)
(* out still runs), or the command is killed. Nothing but the order of the *)
(* steps keeps the files in step with one another. One command runs at a   *)
(* time. git, uv and upstream's bench are external, and modelled by what   *)
(* the commands rely on.                                                   *)
(*                                                                         *)
(* A revision of an app stands for what its pyproject.toml says, and       *)
(* <<app, revision>> for what a file took from it.                         *)
(***************************************************************************)
EXTENDS Integers, Sequences, FiniteSets

CONSTANTS
  Apps,        \* names of apps under apps/, besides frappe
  Commands,    \* the commands that are run
  MaxRev,      \* bound: how far the apps' repositories move
  MaxFlake,    \* bound: how far frappe-nix moves
  MaxRuns,     \* bound: commands started, not counting the removals finished
  MaxFaults,   \* bound: failures, interrupts and kills
  NoApp, NoRev

ASSUME BenchAssumption ==
  /\ MaxRev \in Nat /\ MaxFlake \in Nat /\ MaxRuns \in Nat /\ MaxFaults \in Nat
  /\ Commands \subseteq {"get", "new", "remove", "rename", "pull", "deps", "relock", "sync"}
  /\ NoApp \notin Apps /\ NoRev \notin 0..MaxRev

VARIABLES
  tree,      \* what apps/<app> is: nothing, an empty directory, source, a checkout
  modules,   \* the apps .gitmodules names
  gitlink,   \* the apps the bench's index records a commit for
  rev,       \* the revision of what apps/<app> holds, or is recorded to
  py,        \* pyproject.toml
  lock,      \* uv.lock: what it was resolved from
  registry,  \* sites/apps.txt and sites/apps.json
  flake,     \* the frappe-nix that flake.lock pins
  job,       \* the command that runs, or the last that did
  runs,      \* commands started so far
  faults,    \* faults so far
  killed     \* a command has been killed (history)

bench == <<tree, modules, gitlink, rev, py, lock, registry>>
vars  == <<bench, flake, job, runs, faults, killed>>

Trees == {"none", "empty", "source", "clone"}
Rows  == Apps \X (0..MaxRev)
Locks == [apps : SUBSET Rows, group : SUBSET Rows, root : 0..MaxFlake]
Pyprojects == [members : SUBSET Apps, group : SUBSET Rows, root : 0..MaxFlake,
               pinned : BOOLEAN, block : Locks]

-----------------------------------------------------------------------------
(***************************************************************************)
(* What the files say of one another.                                      *)
(***************************************************************************)
Readable(apps) == \A a \in apps : tree[a] \in {"source", "clone"}
Taken(apps)    == {<<a, rev[a]>> : a \in apps}

\* What each apps/<app> is to git.
Kind(a) ==
  IF a \in modules THEN IF tree[a] = "clone" THEN "submodule" ELSE "uninitialized"
  ELSE CASE tree[a] = "none"  -> "unknown"
         [] tree[a] = "clone" -> "nested"
         [] OTHER             -> "local"

\* The bench-dev group for these members: as it was when one of them cannot be read.
BenchDev(members) == IF Readable(members) THEN Taken(members) ELSE py.group

\* uv lock resolves the root and every member's pyproject.toml.
Resolution == [apps |-> Taken(py.members), group |-> py.group, root |-> py.root]

\* The members that are apps on disk.
Registered == Taken({a \in py.members : Readable({a})})

-----------------------------------------------------------------------------
(***************************************************************************)
(* The commands, as the steps that change something, in their order.       *)
(***************************************************************************)
\* Variants are mutations, no command uses them: each is next to what it varies.
LockingSwapped == <<"block", "lock">>
Locking   == <<"lock", "block">>
Relocking == <<"pin", "lock", "unpin", "block">>
WorkspaceSwapped == <<"registry", "register">>
Workspace == <<"register", "registry">>

GetApp    == <<"clone", "add">> \o Workspace \o Locking
NewApp    == <<"scaffold">> \o Workspace \o Locking
RemoveAppKeepsSection(kind) ==
  (CASE kind = "submodule"     -> <<"deinit", "unlink", "section">>
     [] kind = "uninitialized" -> <<"unlink">>
     [] kind = "local"         -> <<"backup">>
     [] kind = "unknown"       -> <<>>)
  \o <<"unregister", "registry">> \o Locking
RemoveApp(kind) ==
  (CASE kind = "submodule"     -> <<"deinit", "unlink", "section">>
     [] kind = "uninitialized" -> <<"unlink", "section">>
     [] kind = "local"         -> <<"backup">>
     [] kind = "unknown"       -> <<>>)
  \o <<"unregister", "registry">> \o Locking
RenameApp(kind) ==
  (IF kind = "submodule" THEN <<"move", "relink">> ELSE <<"move">>)
  \o <<"unregister">> \o Workspace \o Locking
Pull      == <<"pull", "registry", "moved">>
UpdateDeps == <<"group">> \o Relocking
Relock    == <<"root">> \o Relocking
RootSync  == <<"root">> \o Relocking

\* What a command tests before it changes anything. It may refuse for more than
\* these: an app in use or with changes, a branch it cannot fetch, a bad name.
CanGet(a)       == tree[a] = "none"
CanNew(a)       == ~Readable({a})
CanRemove(a)    == Kind(a) # "nested" /\ (Kind(a) # "unknown" \/ a \in py.members)
CanRename(a, n) == /\ Kind(a) \in {"submodule", "local"} /\ Readable({a})
                   /\ Kind(n) = "unknown" /\ n \notin py.members
Accepted(cmd, a, n) ==
  /\ n # a <=> cmd = "rename"
  /\ CASE cmd = "get"    -> CanGet(a)
       [] cmd = "new"    -> CanNew(a)
       [] cmd = "remove" -> CanRemove(a)
       [] cmd = "rename" -> CanRename(a, n)
       [] OTHER          -> TRUE

Steps(cmd, a) ==
  CASE cmd = "get"    -> GetApp
    [] cmd = "new"    -> NewApp
    [] cmd = "remove" -> RemoveApp(Kind(a))
    [] cmd = "rename" -> RenameApp(Kind(a))
    [] cmd = "pull"   -> Pull
    [] cmd = "deps"   -> UpdateDeps
    [] cmd = "relock" -> Relock
    [] cmd = "sync"   -> RootSync

Idle == job.todo = <<>>

\* before and left are update --pull's, kept the root sync's, orig the pin's.
NewJob(cmd, a, n, steps, status) ==
  [cmd |-> cmd, app |-> a, to |-> n, todo |-> steps, status |-> status,
   before |-> [x \in Apps |-> IF Readable({x}) THEN rev[x] ELSE NoRev],
   left |-> {x \in Apps : Kind(x) # "unknown"},
   kept |-> <<py, lock>>, orig |-> <<>>]

Init ==
  /\ tree \in [Apps -> Trees]
  /\ modules \in {m \in SUBSET Apps : \A a \in Apps :
                    IF a \in m THEN tree[a] # "source" ELSE tree[a] \in {"none", "source"}}
  /\ gitlink = modules
  /\ rev = [a \in Apps |-> 0]
  /\ LET members == {a \in Apps : a \in modules \/ tree[a] = "source"}
         locked  == [apps |-> Taken(members), group |-> Taken(members), root |-> 0]
     IN /\ py = [members |-> members, group |-> Taken(members), root |-> 0,
                 pinned |-> FALSE, block |-> locked]
        /\ lock = locked
        /\ registry = Taken(members)
  /\ flake = 0
  /\ job = [cmd |-> "none", app |-> NoApp, to |-> NoApp, todo |-> <<>>, status |-> "ok",
            before |-> [x \in Apps |-> NoRev], left |-> {}, kept |-> <<py, lock>>,
            orig |-> <<>>]
  /\ runs = 0 /\ faults = 0 /\ killed = FALSE

Start(cmd, a, n) ==
  /\ Idle /\ runs < MaxRuns
  /\ runs' = runs + 1
  /\ \/ Accepted(cmd, a, n) /\ job' = NewJob(cmd, a, n, Steps(cmd, a), "ok")
     \/ job' = NewJob(cmd, a, n, <<>>, "refused")
  /\ UNCHANGED <<bench, flake, faults, killed>>

\* nix flake update, between two shells.
Bump ==
  /\ Idle /\ flake < MaxFlake
  /\ flake' = flake + 1
  /\ UNCHANGED <<bench, job, runs, faults, killed>>

-----------------------------------------------------------------------------
(***************************************************************************)
(* The steps.                                                              *)
(***************************************************************************)
At(step)    == job.todo # <<>> /\ Head(job.todo) = step
Next1       == job' = [job EXCEPT !.todo = Tail(@)]
Became(kept) == UNCHANGED <<flake, runs, faults, killed>> /\ UNCHANGED kept

Plant(t) ==   \* apps/<app> comes to hold an app
  /\ tree' = [tree EXCEPT ![job.app] = t]
  /\ \E r \in 0..MaxRev : rev' = [rev EXCEPT ![job.app] = r]

\* The clone is moved under apps/: git knows nothing of it yet.
Clone == /\ At("clone") /\ Next1 /\ Plant("clone")
         /\ Became(<<modules, gitlink, py, lock, registry>>)

\* git submodule add refuses a path the index has.
Add == /\ At("add") /\ job.app \notin gitlink /\ Next1
       /\ modules' = modules \cup {job.app} /\ gitlink' = gitlink \cup {job.app}
       /\ Became(<<tree, rev, py, lock, registry>>)

\* Upstream's new-app makes no app where a directory is.
Scaffold == /\ At("scaffold") /\ tree[job.app] = "none" /\ Next1 /\ Plant("source")
            /\ Became(<<modules, gitlink, py, lock, registry>>)

SetMembers(members) == py' = [py EXCEPT !.members = members, !.group = BenchDev(members)]

Register   == /\ At("register") /\ Next1 /\ SetMembers(py.members \cup {job.to})
              /\ Became(<<tree, modules, gitlink, rev, lock, registry>>)
Unregister == /\ At("unregister") /\ Next1 /\ SetMembers(py.members \ {job.app})
              /\ Became(<<tree, modules, gitlink, rev, lock, registry>>)
Group      == /\ At("group") /\ Next1 /\ SetMembers(py.members)
              /\ Became(<<tree, modules, gitlink, rev, lock, registry>>)
Registry   == /\ At("registry") /\ Next1 /\ registry' = Registered
              /\ Became(<<tree, modules, gitlink, rev, py, lock>>)

\* The submodule's work tree goes, then what the index has and the directory if it
\* is empty, then the section of .gitmodules and the clone.
Deinit  == /\ At("deinit") /\ Next1 /\ tree' = [tree EXCEPT ![job.app] = "empty"]
           /\ Became(<<modules, gitlink, rev, py, lock, registry>>)
Unlink  == /\ At("unlink") /\ Next1 /\ gitlink' = gitlink \ {job.app}
           /\ tree' = [tree EXCEPT ![job.app] = IF @ = "empty" THEN "none" ELSE @]
           /\ Became(<<modules, rev, py, lock, registry>>)
Section == /\ At("section") /\ Next1 /\ modules' = modules \ {job.app}
           /\ Became(<<tree, gitlink, rev, py, lock, registry>>)
Backup  == /\ At("backup") /\ Next1 /\ tree' = [tree EXCEPT ![job.app] = "none"]
           /\ Became(<<modules, gitlink, rev, py, lock, registry>>)

\* The checkout moves, then what git keeps of it, and the checkout to the tip.
Move   == /\ At("move") /\ Next1
          /\ tree' = [tree EXCEPT ![job.to] = tree[job.app], ![job.app] = "none"]
          /\ rev' = [rev EXCEPT ![job.to] = rev[job.app]]
          /\ Became(<<modules, gitlink, py, lock, registry>>)
Relink == /\ At("relink") /\ Next1
          /\ modules' = (modules \ {job.app}) \cup {job.to}
          /\ gitlink' = (gitlink \ {job.app}) \cup {job.to}
          /\ \E r \in rev[job.to]..MaxRev : rev' = [rev EXCEPT ![job.to] = r]
          /\ Became(<<tree, py, lock, registry>>)

\* One app of update --pull: to its branch's tip, or skipped. A submodule that is not
\* checked out is first, unless the index has no commit for it; what its
\* pyproject.toml was then is what the commit says.
PullApp(a) ==
  /\ At("pull") /\ a \in job.left
  /\ \/ /\ job' = [job EXCEPT !.left = @ \ {a}]
        /\ UNCHANGED <<tree, rev>>
     \/ /\ Kind(a) = "submodule" \/ (Kind(a) = "uninitialized" /\ a \in gitlink)
        /\ job' = [job EXCEPT !.left = @ \ {a}, !.before[a] = IF Readable({a}) THEN @ ELSE rev[a]]
        /\ tree' = [tree EXCEPT ![a] = "clone"]
        /\ \E r \in rev[a]..MaxRev : rev' = [rev EXCEPT ![a] = r]
  /\ Became(<<modules, gitlink, py, lock, registry>>)
Pulled == At("pull") /\ job.left = {} /\ Next1 /\ Became(bench)

\* Whether a pyproject.toml moved while this command ran.
Moved ==
  /\ At("moved")
  /\ LET moved == \E a \in Apps : Readable({a}) /\ job.before[a] # rev[a]
     IN job' = [job EXCEPT !.todo = IF moved THEN <<"group">> \o Relocking ELSE <<>>]
  /\ Became(bench)

RootAhead ==
  /\ At("root")
  /\ py' = [py EXCEPT !.root = flake + 1, !.group = BenchDev(py.members)]
  /\ Next1
  /\ Became(<<tree, modules, gitlink, rev, lock, registry>>)
\* ensure-root. The root sync is over when it had nothing to change.
Root ==
  /\ At("root")
  /\ py' = [py EXCEPT !.root = flake, !.group = BenchDev(py.members)]
  /\ job' = [job EXCEPT !.todo = IF job.cmd = "sync" /\ py' = py THEN <<>> ELSE Tail(@)]
  /\ Became(<<tree, modules, gitlink, rev, lock, registry>>)

\* frappe-runtime at the revision flake.lock pins, for the length of one lock. A
\* source that has a revision of its own is left alone.
Pin == /\ At("pin")
       /\ job' = [job EXCEPT !.todo = Tail(@), !.orig = IF py.pinned THEN <<>> ELSE <<py>>]
       /\ py' = [py EXCEPT !.pinned = TRUE]
       /\ Became(<<tree, modules, gitlink, rev, lock, registry>>)

PutPinBack == IF job.orig = <<>> THEN py ELSE job.orig[1]

Unpin == /\ At("unpin")
         /\ job' = [job EXCEPT !.todo = Tail(@), !.orig = <<>>]
         /\ py' = PutPinBack
         /\ Became(<<tree, modules, gitlink, rev, lock, registry>>)

\* uv lock, and uv sync, which locks too: each needs every member.
Lock  == /\ At("lock") /\ Readable(py.members) /\ Next1 /\ lock' = Resolution
         /\ Became(<<tree, modules, gitlink, rev, py, registry>>)
Block == /\ At("block") /\ Next1 /\ py' = [py EXCEPT !.block = lock]
         /\ Became(<<tree, modules, gitlink, rev, lock, registry>>)

\* The root sync's way out, when it did not complete.
PutPyproject == /\ At("putpy") /\ Next1 /\ py' = job.kept[1]
                /\ Became(<<tree, modules, gitlink, rev, lock, registry>>)
PutLock      == /\ At("putlock") /\ Next1 /\ lock' = job.kept[2]
                /\ Became(<<tree, modules, gitlink, rev, py, registry>>)

-----------------------------------------------------------------------------
(***************************************************************************)
(* Failures.                                                               *)
(***************************************************************************)
WayOut == {"putpy", "putlock"}
CleanupPinLast(cmd, orig) ==
  (IF cmd = "sync" THEN <<"putpy", "putlock">> ELSE <<>>)
  \o (IF orig = <<>> THEN <<>> ELSE <<"unpin">>)
CleanupKeepsPin(cmd, orig) == IF cmd = "sync" THEN <<"putpy", "putlock">> ELSE <<>>
Cleanup(cmd, orig) ==
  (IF orig = <<>> THEN <<>> ELSE <<"unpin">>)
  \o (IF cmd = "sync" THEN <<"putpy", "putlock">> ELSE <<>>)

Leave == job' = [job EXCEPT !.todo = Cleanup(job.cmd, job.orig), !.status = "failed"]

\* What a step needs is not there.
Stuck ==
  /\ \/ At("add") /\ job.app \in gitlink
     \/ At("scaffold") /\ tree[job.app] # "none"
     \/ At("lock") /\ ~Readable(py.members)
  /\ Leave
  /\ Became(bench)

Fault == faults < MaxFaults /\ faults' = faults + 1 /\ UNCHANGED <<bench, flake, runs>>

\* A step fails, or ^C: the way out runs.
Fail ==
  /\ ~Idle /\ job.status = "ok" /\ Leave
  /\ Fault /\ UNCHANGED killed

\* SIGKILL, a power cut, a second ^C on the way out; and for all but the root sync,
\* which takes SIGTERM as ^C, a closed terminal.
Kill ==
  /\ ~Idle
  /\ job' = [job EXCEPT !.todo = <<>>, !.status = "killed"]
  /\ killed' = TRUE
  /\ Fault

-----------------------------------------------------------------------------
HalfRemoved(a) == a \in modules \ gitlink

\* "A removal that stopped halfway; finish it with: bench remove-app", as update
\* --pull tells the user.
FinishRemoval(a) ==
  /\ Idle /\ HalfRemoved(a)
  /\ CanRemove(a)
  /\ job' = NewJob("remove", a, a, Steps("remove", a), "ok")
  /\ UNCHANGED <<bench, flake, runs, faults, killed>>

Step ==
  \/ Clone \/ Add \/ Scaffold \/ Register \/ Unregister \/ Group \/ Registry
  \/ Deinit \/ Unlink \/ Section \/ Backup \/ Move \/ Relink
  \/ \E a \in Apps : PullApp(a)
  \/ Pulled \/ Moved \/ Root \/ Pin \/ Unpin \/ Lock \/ Block
  \/ PutPyproject \/ PutLock \/ Stuck

Next ==
  \/ \E cmd \in Commands, a, n \in Apps : Start(cmd, a, n)
  \/ Bump \/ Step \/ Fail \/ Kill
  \/ \E a \in Apps : FinishRemoval(a)

Spec == Init /\ [][Next]_vars

\* A command that is left alone goes on, and the user does what update --pull says.
FairSpec == Spec /\ WF_vars(Step) /\ \A a \in Apps : WF_vars(FinishRemoval(a))

-----------------------------------------------------------------------------
(***************************************************************************)
(* Properties.                                                             *)
(***************************************************************************)
Ran(cmds) == Idle /\ job.cmd \in cmds /\ job.status = "ok"

\* The shapes of the files and of the job that works on them, from frappe-workspace's
\* classes of apps to the steps that are left.
StepNames == {"clone", "add", "scaffold", "register", "unregister", "group", "registry",
              "deinit", "unlink", "section", "backup", "move", "relink", "pull", "moved",
              "root", "pin", "unpin", "lock", "block"} \cup WayOut
TypeOK ==
  /\ tree \in [Apps -> Trees] /\ rev \in [Apps -> 0..MaxRev]
  /\ modules \subseteq Apps /\ gitlink \subseteq Apps
  /\ py \in Pyprojects /\ lock \in Locks /\ registry \subseteq Rows
  /\ flake \in 0..MaxFlake /\ runs \in 0..MaxRuns /\ faults \in 0..MaxFaults
  /\ killed \in BOOLEAN
  /\ job.cmd \in Commands \cup {"none", "remove"}
  /\ job.app \in Apps \cup {NoApp} /\ job.to \in Apps \cup {NoApp}
  /\ ~Idle => job.app \in Apps /\ job.to \in Apps
  /\ job.todo \in Seq(StepNames)
  /\ job.status \in {"ok", "failed", "refused", "killed"}
  /\ job.before \in [Apps -> 0..MaxRev \cup {NoRev}] /\ job.left \subseteq Apps
  /\ job.kept \in Pyprojects \X Locks
  /\ job.orig \in Seq(Pyprojects) /\ Len(job.orig) <= 1

\* The next evaluation reads uv.lock against pyproject.toml and the apps, and refuses
\* to open the shell when they disagree. A command that ends well leaves them, and
\* the build-dependency block made of the lock, in step, whatever an earlier one that
\* failed or was killed left behind.
LockInStep ==
  Ran({"get", "new", "remove", "rename", "deps", "relock"}) =>
    lock = Resolution /\ py.block = lock

\* The same of sites/apps.txt, from which install-app and the reconciliation take the
\* apps there are.
RegistryInStep == Ran({"get", "new", "remove", "rename", "pull"}) => registry = Registered

\* Both, after every command that ends well.
DoneInStep == LockInStep /\ RegistryInStep

\* "Anything but a completed run puts both files back": a root sync that failed or was
\* interrupted leaves both as it found them.
SyncPutsBack == Idle /\ job.cmd = "sync" /\ job.status = "failed" => <<py, lock>> = job.kept

\* The revision that runtime_at_pin writes into pyproject.toml is there for one lock:
\* left there, no later lock would follow flake.lock. Only a kill leaves it.
PinPutBack == Idle /\ ~killed => ~py.pinned

\* Both files and the pin, whichever way the command that borrowed them ends.
PutsBack == SyncPutsBack /\ PinPutBack

\* A removal that stopped between the index and .gitmodules is one that remove-app
\* takes up again and finishes, unless a get-app has made a submodule of it again.
RemovalFinishes == \A a \in Apps : HalfRemoved(a) ~> ~HalfRemoved(a)

\* A pull that ends well has re-locked what it moved: "a stale uv.lock fails the next
\* shell entry's evaluation". False of the code: what moved is told by what it was
\* when this run started, and a run that stopped after it moved an app has locked
\* nothing, so that the next one finds nothing moved.
PullRelocks == Ran({"pull"}) => lock.apps = Taken(py.members)
=============================================================================
