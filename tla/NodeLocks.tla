------------------------------ MODULE NodeLocks -----------------------------
(***************************************************************************)
(* node-locks/<target>/yarn.lock: the lock a node target builds from that  *)
(* ships none of its own, or whose own was forced aside for want of an     *)
(* entry. frappe-nix-node-locks resolves it and stamps it with what it was *)
(* resolved from; lib/bench.nix decides which of the two locks builds.     *)
(* One target, one command at a time, beside a pull that moves the app.    *)
(* A version of a yarn.lock of the app's has an entry for every range of   *)
(* the package.json of that version alone.                                 *)
(***************************************************************************)
EXTENDS Integers

CONSTANTS
  MaxRuns,   \* bound: commands
  MaxActs,   \* bound: pulls and removals
  MaxFaults  \* bound: kills, and locks that cannot be resolved

VARIABLES
  app,     \* the target as it is checked out: [there, pkg |-> its manifest, lock |-> its yarn.lock, 0 none]
  dir,     \* its directory of node-locks: [lock, stamp, npm |-> leftovers of the npm-based scheme]
  run,     \* the command: [pc, all |-> no target named, forced, want |-> its stamp, got |-> the lock, odd, ok |-> it ended
           \* well, and the app is where it was then]
  asked,   \* history: the lock was forced, by a command that named the target
  odd,     \* history: the lock is another than its stamp says, which describes the app again
  runs, acts, faults

vars == <<app, dir, run, asked, odd, runs, acts, faults>>

Versions == 1..2
NoLock   == [pkg |-> 0, from |-> 0, whole |-> FALSE]
NoStamp  == [pkg |-> 0, lock |-> 0, forced |-> FALSE]
Torn     == [NoStamp EXCEPT !.lock = 3]
Empty    == [lock |-> NoLock, stamp |-> NoStamp, npm |-> FALSE]
NoRun    == [pc |-> "idle", all |-> FALSE, forced |-> FALSE, want |-> NoStamp, got |-> NoLock, odd |-> FALSE, ok |-> FALSE]

At(pc) == run.pc = pc
Go(pc) == run' = [run EXCEPT !.pc = pc]

\* stamp: the manifests a fallback is resolved from, and whether it was forced over the app's own.
Stamp(a, forced) == [pkg |-> a.pkg, lock |-> a.lock, forced |-> forced]

IsForced == dir.stamp # NoStamp /\ dir.stamp # Torn /\ dir.stamp.forced

\* lib/bench.nix: which lock builds the target. By rule, not by presence: its own, unless it was forced aside.
LockOf ==
  CASE app.lock # 0 /\ dir.lock # NoLock /\ dir.stamp = Torn -> "throws"
    [] app.lock # 0 /\ (dir.lock = NoLock \/ ~IsForced) -> "own"
    [] dir.lock # NoLock -> "fallback"
    [] OTHER -> "none"

\* The lock is another than the one its stamp is of, and the stamp is of the app as it is.
Mismatch ==
  /\ dir.stamp \notin {NoStamp, Torn} /\ dir.stamp = Stamp(app, dir.stamp.forced)
  /\ ~dir.lock.whole \/ dir.lock.pkg # dir.stamp.pkg \/ dir.lock.from # dir.stamp.lock
MayMismatch == odd' = (odd \/ Mismatch')

-----------------------------------------------------------------------------
(* frappe-nix-node-locks *)

Begins(all, forced, pc, ok) ==
  run' = [NoRun EXCEPT !.pc = pc, !.all = all, !.forced = forced, !.want = Stamp(app, forced), !.ok = ok]

\* generate: nothing to do where the stamp says what it would say now.
DoneByManifest(forced) == dir.lock # NoLock /\ dir.stamp.pkg = app.pkg
Done(forced) == dir.lock # NoLock /\ dir.stamp = Stamp(app, forced)
Generate(all, forced) ==
  Begins(all, forced, IF app.there /\ ~Done(forced) THEN "copy" ELSE "idle", app.there /\ Done(forced))

Start == At("idle") /\ runs < MaxRuns /\ runs' = runs + 1 /\ UNCHANGED <<app, odd, acts, faults>>

\* A target that is named: over the app's own lock, if it has one.
Named == Start /\ Generate(FALSE, app.there /\ app.lock # 0) /\ UNCHANGED <<dir, asked>>

\* None is named: those without a lock and those that were forced; the rest is told about, or rid of what npm left.
Everything ==
  /\ Start /\ app.there
  /\ \/ app.lock = 0 /\ Generate(TRUE, FALSE) /\ UNCHANGED dir
     \/ app.lock # 0 /\ IsForced /\ Generate(TRUE, TRUE) /\ UNCHANGED dir
     \/ /\ app.lock # 0 /\ ~IsForced /\ Begins(TRUE, FALSE, "idle", TRUE)
        /\ dir' = IF dir.lock = NoLock THEN Empty ELSE dir
  /\ UNCHANGED asked

\* What is no target any more is pruned.
Prune ==
  /\ Start /\ ~app.there /\ Begins(TRUE, FALSE, "idle", TRUE)
  /\ dir' = IF dir.lock # NoLock \/ dir.npm THEN Empty ELSE dir
  /\ asked' = (asked /\ dir' = dir)

\* The manifests are copied to a scratch directory: the app's own lock the seed where it is forced aside, else
\* the last fallback. An app that went away meanwhile ends the command.
Copy ==
  /\ At("copy")
  /\ run' = IF ~app.there THEN [run EXCEPT !.pc = "idle"]
            ELSE [run EXCEPT !.pc = "yarn", !.odd = run.want # Stamp(app, run.forced),
                             !.got = [pkg |-> app.pkg, from |-> IF run.forced THEN app.lock ELSE 0, whole |-> TRUE]]
  /\ UNCHANGED <<app, dir, asked, odd, runs, acts, faults>>

\* yarn cannot resolve it, or what it resolved is nothing the Nix build can fetch.
Unresolved ==
  /\ At("yarn") /\ faults < MaxFaults /\ faults' = faults + 1 /\ Go("idle")
  /\ UNCHANGED <<app, dir, asked, odd, runs, acts>>

WriteLock ==
  /\ At("yarn") /\ Go("stamp")
  /\ dir' = [dir EXCEPT !.lock = run.got, !.npm = FALSE] /\ UNCHANGED <<app, asked, runs, acts, faults>>
  /\ MayMismatch
\* Last: "an interrupted run is retried next time, not remembered as done".
WriteStamp ==
  /\ At("stamp") /\ run' = [run EXCEPT !.pc = "idle", !.ok = (run.want = Stamp(app, run.forced))]
  /\ dir' = [dir EXCEPT !.stamp = run.want]
  /\ asked' = (run.forced /\ (asked \/ ~run.all))
  /\ odd' = run.odd
  /\ UNCHANGED <<app, runs, acts, faults>>

\* Killed: where it writes, a file may be left cut short.
Kill ==
  /\ ~At("idle") /\ faults < MaxFaults /\ faults' = faults + 1 /\ Go("idle")
  /\ \/ UNCHANGED dir
     \/ At("yarn") /\ dir' = [dir EXCEPT !.lock = [run.got EXCEPT !.whole = FALSE], !.npm = FALSE]
     \/ At("stamp") /\ dir' = [dir EXCEPT !.stamp = Torn]
  /\ UNCHANGED <<app, asked, runs, acts>> /\ MayMismatch

-----------------------------------------------------------------------------
(* Around it *)

Act   == acts < MaxActs /\ acts' = acts + 1
Ended == [run EXCEPT !.ok = FALSE]

\* The app is pulled, or put back, or is no target any more.
Pull ==
  /\ Act /\ run' = Ended
  /\ app' \in [there : BOOLEAN, pkg : Versions, lock : {0} \cup Versions] \ {app}
  /\ UNCHANGED <<dir, asked, runs, faults>> /\ MayMismatch

\* "git rm -r" of a fallback that is unused, or is not wanted.
Remove ==
  /\ Act /\ At("idle") /\ run' = Ended
  /\ dir' = Empty /\ asked' = FALSE
  /\ UNCHANGED <<app, odd, runs, faults>>

-----------------------------------------------------------------------------
\* A target without a lock, with one, or with one that lacks an entry; a bench of the npm-based scheme, or none.
Init ==
  /\ app \in [there : {TRUE}, pkg : Versions, lock : {0, 1}]
  /\ \E npm \in BOOLEAN : dir = [Empty EXCEPT !.npm = npm]
  /\ run = NoRun /\ asked = FALSE /\ odd = FALSE
  /\ runs = 0 /\ acts = 0 /\ faults = 0

Next ==
  \/ Named \/ Everything \/ Prune
  \/ Copy \/ Unresolved \/ WriteLock \/ WriteStamp \/ Kill
  \/ Pull \/ Remove

Spec == Init /\ [][Next]_vars

-----------------------------------------------------------------------------
TypeOK ==
  /\ app \in [there : BOOLEAN, pkg : Versions, lock : {0} \cup Versions]
  /\ dir.lock \in [pkg : {0} \cup Versions, from : {0} \cup Versions, whole : BOOLEAN]
  /\ dir.stamp \in [pkg : {0} \cup Versions, lock : 0..3, forced : BOOLEAN] /\ dir.npm \in BOOLEAN
  /\ run.pc \in {"idle", "copy", "yarn", "stamp"}
  /\ asked \in BOOLEAN /\ odd \in BOOLEAN
  /\ runs \in 0..MaxRuns /\ acts \in 0..MaxActs /\ faults \in 0..MaxFaults

\* "The stamp is what keeps regeneration cheap and honest": after a command that ended well, a target that
\* builds from the fallback builds from one that was resolved from its manifests as they are, whatever was
\* interrupted before. Apart: a lock written without its stamp, and the app put back to what the stamp says.
Honest ==
  run.ok /\ ~odd /\ app.there /\ LockOf = "fallback" =>
    dir.lock.whole /\ dir.lock.pkg = app.pkg /\ (app.lock # 0 => dir.lock.from = app.lock)

\* After the command for every target, each has a lock to build from.
Locked == run.ok /\ run.all /\ app.there => LockOf # "none"

\* A lock of the app's own is passed over only where the target was named, and then until it is not wanted.
OwnWins ==
  app.there /\ app.lock # 0 /\ dir.lock # NoLock /\ dir.stamp # Torn => (LockOf = "fallback" <=> asked)

LocksSound == Honest /\ Locked /\ OwnWins
=============================================================================
