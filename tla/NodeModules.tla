----------------------------- MODULE NodeModules ----------------------------
(***************************************************************************)
(* node_modules of a bench: what bench build and every shell entry do      *)
(* before they trust it. node-verify finds what an install that was cut    *)
(* short left damaged, in yarn's cache and in the trees, and deletes it;   *)
(* frappe-nix-node-modules installs what the sentinel does not vouch for.  *)
(* One app with a nested frontend that its postinstall installs, one       *)
(* package; one command at a time beside the developer, who pulls, edits,  *)
(* deletes and runs yarn by hand.                                          *)
(*                                                                         *)
(* yarn is external. It does nothing where .yarn-integrity is of the       *)
(* manifests; else it takes the marker away, copies from the cache, of     *)
(* which it asks nothing, and writes the marker last. An install that is   *)
(* cut leaves what it was writing damaged.                                 *)
(***************************************************************************)
EXTENDS Integers, FiniteSets

CONSTANTS
  MaxRuns,   \* bound: verify and install
  MaxActs,   \* bound: what the developer does
  MaxFaults  \* bound: installs that fail, kills

VARIABLES
  app,      \* the sources: [man |-> what the manifests say, sub |-> a nested frontend, lock |-> its yarn.lock]
  devs,     \* history: the lock as the developer has it
  tree,     \* the node_modules of the app and of the frontend
  said,     \* the sentinel, in the app's node_modules
  cache,    \* the package in yarn's cache
  stamp,    \* .frappe-nix-verified is the fingerprint of the markers and the cache as they are
  run,      \* the command: [pc, snap |-> the lock copied, bad |-> damaged trees, now |-> the one at hand, ok |-> it ended well]
  odd,      \* history: what the invariants set apart
  runs, acts, faults

vars == <<app, devs, tree, said, cache, stamp, run, odd, runs, acts, faults>>

Trees == {"own", "sub"}
Gone  == [of |-> 0, is |-> "gone", mark |-> FALSE]
\* The Nix-built node_modules an earlier frappe-nix linked, which cannot be installed into.
Store == [of |-> 0, is |-> "store", mark |-> FALSE]

NoSay == [man |-> 0, sub |-> FALSE, lock |-> "none", nested |-> {}, lists |-> FALSE]
There(t) == tree[t].is \notin {"gone", "store"}

\* fingerprint: every manifest the install reads, and where it is.
Same(s) == s.man = app.man /\ s.sub = app.sub /\ s.lock = app.lock

\* The sentinel describes the app: the same manifests, and each nested install it lists there; one that lists
\* none is believed while no frontend lacks its node_modules.
Current(s) ==
  /\ There("own") /\ s # NoSay /\ Same(s)
  /\ IF s.lists THEN \A t \in s.nested : There(t) ELSE app.sub => There("sub")

\* A nested frontend is installed with its manifests as they are now.
Wanted == {"own"} \cup IF app.sub THEN {"sub"} ELSE {}
Whole  == \A t \in Wanted : tree[t].is = "ok" /\ tree[t].of = app.man

-----------------------------------------------------------------------------
(* yarn *)

UpToDate(t) == There(t) /\ tree[t].mark /\ tree[t].of = app.man
Installed(t) ==
  IF UpToDate(t) THEN tree[t]
  ELSE [of |-> app.man, mark |-> TRUE, is |-> CASE cache = "damaged" -> "damaged" [] cache = "record" -> "stale" [] OTHER -> "ok"]

Fetches == \E t \in Wanted : ~UpToDate(t)

\* It ends well, the app's and then the postinstall's, which is not frozen: it may rewrite the lock.
YarnDone ==
  /\ tree' = [t \in Trees |-> IF t \in Wanted THEN Installed(t) ELSE tree[t]]
  /\ cache' = IF cache = "none" /\ Fetches THEN "ok" ELSE cache
  /\ stamp' = (stamp /\ tree' = tree /\ cache' = cache)
  /\ app' \in {app, [app EXCEPT !.lock = IF app.sub THEN "yarn" ELSE @]}

\* It does not: cut while it fetches, while it copies into a tree, or in the frontend after the app's.
Torn(t) == [of |-> app.man, is |-> "damaged", mark |-> FALSE]
YarnCut ==
  \/ /\ cache = "none" /\ Fetches
     /\ cache' \in {"none", "damaged", "record"} /\ stamp' = (stamp /\ cache' = cache)
     /\ UNCHANGED <<app, tree>>
  \/ /\ cache # "none" /\ ~UpToDate("own")
     /\ tree' = [tree EXCEPT !["own"] = Torn("own")] /\ stamp' = (stamp /\ ~tree["own"].mark /\ There("own"))
     /\ UNCHANGED <<app, cache>>
  \/ /\ cache # "none" /\ app.sub /\ ~UpToDate("sub")
     /\ tree' = [own |-> Installed("own"), sub |-> Torn("sub")]
     /\ stamp' = (stamp /\ UpToDate("own") /\ ~tree["sub"].mark /\ There("sub"))
     /\ app' \in {app, [app EXCEPT !.lock = "yarn"]}
     /\ UNCHANGED cache

-----------------------------------------------------------------------------
(* node-verify *)

NoRun == [pc |-> "idle", snap |-> "none", bad |-> {}, now |-> "own", ok |-> FALSE]
At(pc) == run.pc = pc
Go(pc) == run' = [run EXCEPT !.pc = pc]

\* An installed copy is damaged by its look, or stale: of a package whose record in the cache is wrong.
BadTrees == {t \in Trees : tree[t].is = "damaged" \/ (tree[t].is = "stale" /\ cache = "record")}

\* Skipped while nothing was installed since the last clean scan; a clean scan says so.
Verify ==
  /\ At("idle") /\ runs < MaxRuns /\ runs' = runs + 1
  /\ LET skips == stamp
         clean == BadTrees = {} /\ cache \notin {"damaged", "record"}
     IN  /\ stamp' = (skips \/ clean)
         /\ run' = [NoRun EXCEPT !.pc = IF skips \/ clean THEN "check" ELSE "cache",
                                !.bad = IF skips THEN {} ELSE BadTrees]
  /\ UNCHANGED <<app, devs, tree, said, cache, odd, acts, faults>>

\* What it deletes: the cache entry; each damaged package, and then the marker of its root; the sentinel.
DropEntry ==
  /\ At("cache") /\ Go(IF run.bad = {} THEN "check" ELSE "packages")
  /\ cache' = IF cache \in {"damaged", "record"} THEN "none" ELSE cache
  /\ UNCHANGED <<app, devs, tree, said, stamp, odd, runs, acts, faults>>
DropPackage ==
  /\ At("packages")
  /\ \E t \in run.bad :
       /\ tree' = [tree EXCEPT ![t].is = IF There(t) THEN "hole" ELSE @]
       /\ run' = [run EXCEPT !.pc = "mark", !.now = t]
  /\ UNCHANGED <<app, devs, said, cache, stamp, odd, runs, acts, faults>>
DropMarker ==
  /\ At("mark") /\ run' = [run EXCEPT !.pc = "packages", !.bad = @ \ {run.now}]
  /\ tree' = [tree EXCEPT ![run.now].mark = FALSE]
  /\ UNCHANGED <<app, devs, said, cache, stamp, odd, runs, acts, faults>>
DropSentinel ==
  /\ At("packages") /\ run.bad = {} /\ Go("check")
  /\ said' = NoSay
  /\ UNCHANGED <<app, devs, tree, cache, stamp, odd, runs, acts, faults>>

-----------------------------------------------------------------------------
(* frappe-nix-node-modules *)

\* A link into the store is replaced; what is current is left alone; else the lockfiles are copied.
Refresh ==
  /\ At("check")
  /\ tree' = [tree EXCEPT !["own"] = IF @.is = "store" THEN Gone ELSE @]
  /\ run' = IF Current(said) THEN [run EXCEPT !.pc = "idle", !.ok = TRUE]
            ELSE [run EXCEPT !.pc = "install", !.snap = app.lock]
  /\ UNCHANGED <<app, devs, said, cache, stamp, odd, runs, acts, faults>>
Install ==
  /\ At("install") /\ YarnDone /\ Go("restore")
  /\ UNCHANGED <<devs, said, odd, runs, acts, faults>>
\* It fails, or is interrupted: what it did to the locks is undone all the same.
InstallFails ==
  /\ At("install") /\ faults < MaxFaults /\ faults' = faults + 1
  /\ YarnCut /\ Go("undo")
  /\ UNCHANGED <<devs, said, odd, runs, acts>>

PutBack == [app EXCEPT !.lock = run.snap]
Restore ==
  /\ run.pc \in {"restore", "undo"}
  /\ app' = PutBack
  /\ Go(IF At("undo") THEN "idle" ELSE "record")
  /\ UNCHANGED <<devs, tree, said, cache, stamp, odd, runs, acts, faults>>

\* The sentinel, of the manifests as they are by now, and the nested installs there are.
SentinelOwn == [man |-> app.man, sub |-> app.sub, lock |-> app.lock, nested |-> {}, lists |-> TRUE]
Sentinel == [SentinelOwn EXCEPT !.nested = {t \in {"sub"} : There(t)}]
Record ==
  /\ At("record") /\ said' = Sentinel /\ stamp' = FALSE
  /\ run' = [run EXCEPT !.pc = "idle", !.ok = TRUE]
  /\ UNCHANGED <<app, devs, tree, cache, odd, runs, acts, faults>>

\* SIGKILL anywhere.
Kill ==
  /\ ~At("idle") /\ faults < MaxFaults /\ faults' = faults + 1
  /\ Go("idle")
  /\ \/ At("install") /\ YarnCut
     \/ UNCHANGED <<app, tree, cache, stamp>>
  /\ odd' = odd \cup (IF run.pc \in {"packages", "mark"} THEN {"verify"} ELSE {})
                \cup (IF run.pc \in {"install", "restore", "undo"} THEN {"lock"} ELSE {})
  /\ UNCHANGED <<devs, said, runs, acts>>

-----------------------------------------------------------------------------
(* The developer *)

Act == acts < MaxActs /\ acts' = acts + 1
\* Whatever happens beside a command that has looked already is odd.
Beside == odd' = IF At("idle") THEN odd ELSE odd \cup {"moved"}
Ended  == [run EXCEPT !.ok = FALSE]

Pull ==
  /\ Act /\ Beside /\ run' = Ended
  /\ \E sub \in BOOLEAN, lock \in {"v1", "v2"} : app' = [man |-> app.man + 1, sub |-> sub, lock |-> lock]
  /\ devs' = app'.lock
  /\ UNCHANGED <<tree, said, cache, stamp, runs, faults>>

\* A node_modules is deleted: the app's takes the sentinel with it.
Delete ==
  /\ Act /\ Beside /\ run' = Ended
  /\ \E t \in Trees :
       /\ There(t) /\ tree' = [tree EXCEPT ![t] = Gone]
       /\ said' = IF t = "own" THEN NoSay ELSE said
  /\ stamp' = FALSE
  /\ UNCHANGED <<app, devs, cache, runs, faults>>

\* yarn by hand, in the app or only in its frontend; it puts no lock back, and the developer does.
ByHand ==
  /\ Act /\ At("idle") /\ run' = Ended
  /\ \/ YarnDone
     \/ YarnCut
  /\ devs' = app'.lock
  /\ UNCHANGED <<said, odd, runs, faults>>

\* App mode moves the pinned apps to new sources. --carry takes along the node_modules of each directory the
\* new sources have, the app's first; if it fails half way the frontend's stay behind.
Carried(t, sub, all) == IF t = "own" \/ (sub /\ all) THEN tree[t] ELSE Gone
Carry ==
  /\ Act /\ At("idle") /\ run' = Ended
  /\ \E sub, all \in BOOLEAN :
       /\ app' = [man |-> app.man + 1, sub |-> sub, lock |-> "v1"] /\ devs' = "v1"
       /\ tree' = [t \in Trees |-> Carried(t, sub, all)]
  /\ stamp' = (stamp /\ tree' = tree)
  /\ UNCHANGED <<said, cache, odd, runs, faults>>

-----------------------------------------------------------------------------
\* A bench without node_modules, one of an earlier frappe-nix, or one whose sentinel lists no nested installs.
Init ==
  /\ \E sub \in BOOLEAN : app = [man |-> 1, sub |-> sub, lock |-> "v1"]
  /\ devs = "v1" /\ odd = {} /\ cache = "none" /\ stamp = FALSE
  /\ \/ tree = [t \in Trees |-> Gone] /\ said = NoSay
     \/ tree = [own |-> Store, sub |-> Gone] /\ said = NoSay
     \/ /\ \E subs \in {Gone, [of |-> 1, is |-> "ok", mark |-> TRUE]} :
             tree = [own |-> [of |-> 1, is |-> "ok", mark |-> TRUE], sub |-> subs]
        /\ said = [man |-> 1, sub |-> app.sub, lock |-> "v1", nested |-> {}, lists |-> FALSE]
  /\ run = NoRun
  /\ runs = 0 /\ acts = 0 /\ faults = 0

Next ==
  \/ Verify \/ DropEntry \/ DropPackage \/ DropMarker \/ DropSentinel
  \/ Refresh \/ Install \/ InstallFails \/ Restore \/ Record \/ Kill
  \/ Pull \/ Delete \/ ByHand \/ Carry

Spec == Init /\ [][Next]_vars

-----------------------------------------------------------------------------
TypeOK ==
  /\ app.man \in 1..(MaxActs + 1) /\ app.lock \in {"v1", "v2", "yarn"}
  /\ \A t \in Trees : tree[t].is \in {"gone", "store", "ok", "damaged", "stale", "hole"}
  /\ cache \in {"none", "ok", "damaged", "record"} /\ stamp \in BOOLEAN
  /\ run.pc \in {"idle", "cache", "packages", "mark", "check", "install", "restore", "undo", "record"}
  /\ runs \in 0..MaxRuns /\ acts \in 0..MaxActs /\ faults \in 0..MaxFaults

\* bench build "re-runs this and refuses to build against a stale one": what the two let through is whole and
\* of the manifests. Two cases apart: verify killed between what it deletes and the markers that would have it
\* reinstalled; sources that moved while the install ran, whose manifests the sentinel vouches for.
BuildsOnWhole == run.ok /\ odd \cap {"verify", "moved"} = {} => Whole

\* "Silent when nothing is wrong": what has been installed is not installed again.
Rests == run.ok /\ "moved" \notin odd => Current(said)

\* "An app's lockfiles belong to the app's repository": no command leaves one other than it was, but one that
\* was killed, or beside which the developer changed it.
LocksKept == At("idle") /\ odd \cap {"lock", "moved"} = {} => app.lock = devs

\* "A clean scan leaves a fingerprint of what could have changed, and while that is unchanged the scan is
\* skipped": no tree is damaged that a marker vouches for. One without its marker is reinstalled by yarn.
SkipsClean == stamp => \A t \in BadTrees : ~tree[t].mark

NodeSound == BuildsOnWhole /\ Rests /\ LocksKept /\ SkipsClean
=============================================================================
