-------------------------------- MODULE Sync --------------------------------
(***************************************************************************)
(* frappe-init --sync and --check: the managed files of an app, and the    *)
(* locks that follow them.                                                 *)
(*                                                                         *)
(* An entry of the manifest is whole (a file under the managed header,     *)
(* with a local region that is the app's), bare (a headerless file, or the *)
(* keys of a merged one), block (marked lines in a file of the app's) or   *)
(* seed. A file is missing, the app's own, rendered for a major of Frappe, *)
(* or rendered and edited. A sync is one process: it plans, writes file by *)
(* file, stages, locks, and can stop anywhere. Nobody edits while it runs. *)
(***************************************************************************)
EXTENDS Integers, Sequences, FiniteSets

CONSTANTS
  Entries,    \* the entries
  Kind,       \* the strategy of each
  Flake,      \* flake.nix, the entry of phase A; always on
  MaxMajor,   \* bound: majors of Frappe
  MaxEdits,   \* bound: what the app does between syncs
  MaxRuns,    \* bound: syncs
  MaxFaults   \* bound: failures and kills

\* The locks are no entries: no file of the manifest is one.
LockFiles == {"flake.lock", "tools/uv.lock", "nix/uv.lock"}

ASSUME SyncAssumption ==
  /\ Kind \in [Entries -> {"whole", "bare", "block", "seed"}]
  /\ Flake \in Entries /\ Kind[Flake] = "whole" /\ Entries \cap LockFiles = {}
  /\ MaxMajor \in Nat \ {0} /\ MaxEdits \in Nat /\ MaxRuns \in Nat /\ MaxFaults \in Nat

VARIABLES
  major,     \* frappe-major in [tool.frappe-nix]
  want,      \* of each entry: its module is on, on without its condition, or off
  ever,      \* the entries on in each state committed since the opt-in, newest first
  text,      \* the file of each entry
  region,    \* whether its local region holds anything
  tracked,   \* the files git tracks
  flakeLock, \* flake.lock: what it is locked for, and how often its inputs were updated
  toolsLock, \* tools/uv.lock and yarn.lock: the major their floors are met for
  benchLock, \* nix/uv.lock: the flake.lock it was made from
  pc, plan,  \* where the sync is; what it is to write
  force,     \* its --force
  handed,    \* whether it was re-executed from the lock
  changed,   \* whether flake.lock changed, here or in the sync that handed over
  last,      \* how the last sync ended, if nothing was touched since
  killed,    \* whether a sync was ever killed, rather than failed
  owed,      \* whether one ever ended after it changed flake.lock, before the relock
  edits, runs, faults

config == <<major, want, ever>>
files  == <<text, region>>
locks  == <<flakeLock, toolsLock, benchLock>>
tree   == <<config, files, tracked, locks>>
bounds == <<edits, runs, faults>>
count  == <<killed, owed, bounds>>
proc   == <<pc, plan, force, handed, changed>>
vars   == <<tree, proc, last, count>>

\* A file's text, a major of Frappe when it is rendered; the last two are a plan's.
Missing == 0
Own     == -1
Edited  == -2
Keep    == -3
Written == -4
Majors  == 1..MaxMajor
NoLock  == <<0, 0>>

\* Exit codes, and none.
Clean == 0  Drift == 1  Invalid == 2  Environment == 3  Never == 4

Header(e) == text[e] \in Majors \cup {Edited}
Worst(codes) == CHOOSE c \in codes \cup {Clean} : \A d \in codes : d <= c

-----------------------------------------------------------------------------
(***************************************************************************)
(* The plan. A history of depth d is what a clone has of it: the whole, or *)
(* a shallow clone's newest states.                                        *)
(***************************************************************************)
WasOn(e, d)   == \E i \in 1..d : e \in ever[i]
\* Variants are mutations, no sync uses them: each is next to what it varies.
UnknownNever(e, d) == FALSE
Unknown(e, d) == ~WasOn(e, d) /\ d < Len(ever)

\* What is to be done about one entry: the code reported and the text written, Keep when
\* sync leaves the file to the app.
Nothing == <<Clean, Keep>>
To(e, t) == IF text[e] = t THEN Nothing ELSE <<Drift, t>>

Live(e) ==
  CASE e = Flake /\ text[e] = Own /\ ~force  -> <<Invalid, Keep>>
    [] Kind[e] = "seed" /\ text[e] # Missing     -> Nothing
    [] OTHER                                     -> To(e, major)

Absent(e) ==
  CASE text[e] = Missing \/ Kind[e] \in {"block", "seed"}  -> Nothing
    [] Kind[e] = "whole" /\ Header(e) /\ ~region[e]        -> <<Drift, Missing>>
    [] Kind[e] = "bare" /\ text[e] = major                 -> <<Drift, Missing>>
    [] OTHER                                               -> <<Drift, Keep>>

RetractWholeRegion(e) == IF Header(e) THEN <<Drift, Missing>> ELSE Nothing
RetractWhole(e) ==
  CASE ~Header(e) -> Nothing
    [] region[e]  -> <<Invalid, Keep>>
    [] OTHER      -> <<Drift, Missing>>

RetractMarkedLeavesMarks(e, d, marked, to) ==
  CASE Unknown(e, d)         -> <<Environment, Keep>>
    [] WasOn(e, d) /\ marked -> <<Drift, Edited>>
    [] OTHER                 -> Nothing
RetractMarked(e, d, marked, to) ==
  CASE Unknown(e, d)           -> <<Environment, Keep>>
    [] WasOn(e, d) /\ marked   -> <<Drift, to>>
    [] OTHER                   -> Nothing

Retract(e, d) ==
  CASE text[e] = Missing \/ Kind[e] = "seed" -> Nothing
    [] Kind[e] = "whole" -> RetractWhole(e)
    [] Kind[e] = "bare"  -> RetractMarked(e, d, text[e] = major, Missing)
    [] Kind[e] = "block" -> IF Header(e) THEN RetractMarked(e, d, TRUE, Own) ELSE Nothing

Item(e, d) ==
  CASE want[e] = "on"   -> Live(e)
    [] want[e] = "idle" -> Absent(e)
    [] want[e] = "off"  -> Retract(e, d)

Code(es, d) == Worst({Item(e, d)[1] : e \in es})
PhaseB      == Entries \ {Flake}

\* The locks: flake.lock follows flake.nix, the tools' meet their floors, and each is
\* tracked once it exists. Nothing asks whether nix/uv.lock follows flake.lock.
FlakeStale == text[Flake] \in Majors /\ flakeLock[1] # text[Flake]
ToolsStale == toolsLock # major
Exists(f) ==
  CASE f = "flake.lock"    -> flakeLock # NoLock
    [] f = "tools/uv.lock" -> toolsLock # 0
    [] f = "nix/uv.lock"   -> benchLock # NoLock
Untracked == {f \in LockFiles : Exists(f) /\ f \notin tracked}

\* sync --check, in a clone of depth d.
Check(d) ==
  Worst({Code(Entries, d), IF FlakeStale \/ ToolsStale \/ Untracked # {} THEN Drift ELSE Clean})

-----------------------------------------------------------------------------
Optional(w) == [e \in Entries |-> IF e = Flake THEN "on" ELSE w]

\* An app that opted in and was never synced.
Unsynced ==
  /\ want = Optional("off") /\ ever = <<{Flake}>>
  /\ text \in [Entries -> {Missing, Own}]
  /\ region = [e \in Entries |-> FALSE]
  /\ tracked = {e \in Entries : text[e] # Missing}
  /\ flakeLock = NoLock /\ toolsLock = 0 /\ benchLock = NoLock

\* One that was, with every entry on.
Synced ==
  /\ want = Optional("on") /\ ever = <<Entries>>
  /\ text = [e \in Entries |-> major]
  /\ region \in [Entries -> BOOLEAN] /\ \A e \in Entries : region[e] => Kind[e] = "whole"
  /\ tracked = Entries \cup LockFiles
  /\ flakeLock = <<major, 0>> /\ toolsLock = major /\ benchLock = flakeLock

Init ==
  /\ major = 1
  /\ Unsynced \/ Synced
  /\ pc = "idle" /\ plan = [e \in Entries |-> Keep]
  /\ force = FALSE /\ handed = FALSE /\ changed = FALSE
  /\ last = Never /\ killed = FALSE /\ owed = FALSE
  /\ edits = 0 /\ runs = 0 /\ faults = 0

(***************************************************************************)
(* The app, between syncs.                                                 *)
(***************************************************************************)
Touch == /\ pc = "idle" /\ edits < MaxEdits
         /\ edits' = edits + 1 /\ last' = Never
         /\ UNCHANGED <<proc, killed, owed, runs, faults>>

\* [tool.frappe-nix], and the facts a condition asks about; committed, or not yet.
Configure ==
  /\ Touch
  /\ \/ \E e \in PhaseB, w \in {"on", "idle", "off"} :
          want[e] # w /\ want' = [want EXCEPT ![e] = w] /\ UNCHANGED major
     \/ major < MaxMajor /\ major' = major + 1 /\ UNCHANGED want
  /\ ever' \in {ever, <<{e \in Entries : want'[e] # "off"}>> \o ever}
  /\ UNCHANGED <<files, tracked, locks>>

\* A file written where there is none, a rendered one edited, one deleted.
Edit(e) ==
  /\ Touch
  /\ \/ text[e] = Missing /\ text' = [text EXCEPT ![e] = Own] /\ UNCHANGED region
     \/ Header(e) /\ text' = [text EXCEPT ![e] = Edited] /\ UNCHANGED region
     \/ text' = [text EXCEPT ![e] = Missing] /\ region' = [region EXCEPT ![e] = FALSE]
     \/ Kind[e] = "whole" /\ Header(e) /\ region' = [region EXCEPT ![e] = TRUE] /\ UNCHANGED text
  /\ e = Flake => text[e] # Missing
  /\ UNCHANGED <<config, tracked, locks>>

\* nix flake update of an input.
UpdateInputs ==
  /\ Touch
  /\ flakeLock # NoLock /\ flakeLock[2] = 0 /\ flakeLock' = <<flakeLock[1], 1>>
  /\ UNCHANGED <<config, files, tracked, toolsLock, benchLock>>

-----------------------------------------------------------------------------
(***************************************************************************)
(* sync --write.                                                           *)
(***************************************************************************)
Whole == Len(ever)
Goto(place) == pc' = place
Write(es) == plan' = [e \in Entries |-> IF e \in es THEN Item(e, Whole)[2] ELSE Keep]

\* The process exits; what it wrote stays.
End(code) ==
  /\ Goto("idle") /\ plan' = [e \in Entries |-> Keep]
  /\ force' = FALSE /\ handed' = FALSE /\ changed' = FALSE
  /\ last' = code

Owes == owed' = (owed \/ (changed /\ benchLock # flakeLock))

Start ==
  /\ pc = "idle" /\ runs < MaxRuns /\ runs' = runs + 1
  /\ force' \in {FALSE, text[Flake] = Own}   \* it makes no difference elsewhere
  /\ Goto("planA")
  /\ UNCHANGED <<tree, plan, handed, changed, last, killed, owed, edits, faults>>

\* Phase A renders flake.nix and refuses before it writes anything.
PlanA ==
  /\ pc = "planA"
  /\ IF Code({Flake}, Whole) >= Invalid THEN End(Code({Flake}, Whole)) /\ Owes
     ELSE Write({Flake}) /\ Goto("writeA") /\ UNCHANGED <<force, handed, changed, last, owed>>
  /\ UNCHANGED <<tree, killed, bounds>>

\* One file of the plan. A region is carried over, and goes with its file.
ToWrite == {e \in Entries : plan[e] \notin {Keep, Written}}
WriteFile(from, to) ==
  /\ pc = from
  /\ \/ \E e \in ToWrite :
          /\ text' = [text EXCEPT ![e] = plan[e]]
          /\ region' = [region EXCEPT ![e] = @ /\ plan[e] # Missing]
          /\ plan' = [plan EXCEPT ![e] = Written]
          /\ UNCHANGED pc
     \/ ToWrite = {} /\ Goto(to) /\ UNCHANGED <<plan, files>>
  /\ UNCHANGED <<config, tracked, locks, force, handed, changed, last, count>>

AddLocks(some) == tracked' = tracked \cup some
\* git add -A of what was written, and of some locks. What was as it should be already
\* is not staged.
Add(some) ==
  tracked' = {f \in tracked \cup some \cup {e \in Entries : plan[e] = Written} :
                f \in Entries => text[f] # Missing}

Stage(from, some, to) ==
  /\ pc = from
  /\ Add(some) /\ Goto(to)
  /\ UNCHANGED <<config, files, locks, plan, force, handed, changed, last, count>>

StageA == Stage("stageA", {}, "lock")

LockFlakeUpdates ==
  /\ pc = "lock"
  /\ IF flakeLock = NoLock \/ FlakeStale
     THEN flakeLock' = <<text[Flake], flakeLock[2] + 1>> /\ changed' = TRUE
     ELSE UNCHANGED <<flakeLock, changed>>
  /\ Goto("stageLock")
  /\ UNCHANGED <<config, files, tracked, toolsLock, benchLock, plan, force, handed, last, count>>
\* nix flake lock, when flake.lock is missing or not what flake.nix declares.
LockFlake ==
  /\ pc = "lock"
  /\ IF flakeLock = NoLock \/ FlakeStale
     THEN flakeLock' = <<text[Flake], flakeLock[2]>> /\ changed' = TRUE
     ELSE UNCHANGED <<flakeLock, changed>>
  /\ Goto("stageLock")
  /\ UNCHANGED <<config, files, tracked, toolsLock, benchLock, plan, force, handed, last, count>>

StageLock == Stage("stageLock", {"flake.lock"}, "handover")

HandoverForgets ==
  /\ pc = "handover"
  /\ \/ /\ ~handed /\ handed' = TRUE /\ changed' = FALSE /\ Goto("planA")
        /\ UNCHANGED <<benchLock, tracked>>
     \/ Goto("planB") /\ UNCHANGED <<benchLock, tracked, handed, changed>>
  /\ UNCHANGED <<config, files, flakeLock, toolsLock, plan, force, last, count>>
\* The lock may pin another release of frappe-nix, which starts over, once, and is told
\* that the lock changed. Then uv and yarn are there, or the dev shell that has them is
\* entered, for which nix/uv.lock must exist.
Handover ==
  /\ pc = "handover"
  /\ \/ ~handed /\ handed' = TRUE /\ Goto("planA") /\ UNCHANGED <<benchLock, tracked>>
     \/ Goto("planB") /\ UNCHANGED <<benchLock, tracked, handed>>
     \/ /\ benchLock = NoLock
        /\ benchLock' = flakeLock /\ tracked' = tracked \cup {"nix/uv.lock"}
        /\ Goto("planB") /\ UNCHANGED handed
  /\ UNCHANGED <<config, files, flakeLock, toolsLock, plan, force, changed, last, count>>

PlanB ==
  /\ pc = "planB"
  /\ IF Code(PhaseB, Whole) >= Invalid THEN End(Code(PhaseB, Whole)) /\ Owes
     ELSE Write(PhaseB) /\ Goto("writeB") /\ UNCHANGED <<force, handed, changed, last, owed>>
  /\ UNCHANGED <<tree, killed, bounds>>

\* Staged before the locks are made, each of which may fail.
StageB == Stage("stageB", {}, "tools")

LockTools ==
  /\ pc = "tools"
  /\ IF ToolsStale
     THEN toolsLock' = major /\ Goto("stageTools")
     ELSE Goto("relock") /\ UNCHANGED toolsLock
  /\ UNCHANGED <<config, files, tracked, flakeLock, benchLock, plan, force, handed, changed,
                 last, count>>

StageTools == Stage("stageTools", {"tools/uv.lock"}, "relock")

\* nix run .#relock, when this sync or the one before it in the handover changed the lock.
Relock ==
  /\ pc = "relock"
  /\ IF changed \/ benchLock = NoLock
     THEN benchLock' = flakeLock /\ tracked' = tracked \cup {"nix/uv.lock"}
     ELSE UNCHANGED <<benchLock, tracked>>
  /\ Goto("stageEnd")
  /\ UNCHANGED <<config, files, flakeLock, toolsLock, plan, force, handed, changed, last, count>>

StageEndSome == Stage("stageEnd", {}, "after")
\* With the locks a sync that failed left untracked.
StageEnd == Stage("stageEnd", Untracked, "after")

\* The plan once more: what is left is the app's to see to.
After ==
  /\ pc = "after"
  /\ End(Worst({Code(Entries, Whole), IF ToolsStale THEN Drift ELSE Clean}))
  /\ UNCHANGED <<tree, count>>

\* A command fails, and the sync with it; or it is killed, anywhere.
Stop ==
  /\ pc # "idle" /\ faults < MaxFaults /\ faults' = faults + 1
  /\ \/ pc \in {"lock", "handover", "tools", "relock"} /\ UNCHANGED killed
     \/ killed' = TRUE
  /\ Goto("idle") /\ plan' = [e \in Entries |-> Keep]
  /\ force' = FALSE /\ handed' = FALSE /\ changed' = FALSE /\ last' = Never
  /\ Owes
  /\ UNCHANGED <<tree, edits, runs>>

-----------------------------------------------------------------------------
Step ==
  \/ PlanA \/ WriteFile("writeA", "stageA") \/ StageA \/ LockFlake \/ StageLock \/ Handover
  \/ PlanB \/ WriteFile("writeB", "stageB") \/ StageB \/ LockTools \/ StageTools \/ Relock
  \/ StageEnd \/ After

Next ==
  \/ Configure \/ UpdateInputs \/ \E e \in Entries : Edit(e)
  \/ Start \/ Step \/ Stop

Spec == Init /\ [][Next]_vars

-----------------------------------------------------------------------------
(***************************************************************************)
(* Properties.                                                             *)
(***************************************************************************)
Texts == Majors \cup {Missing, Own, Edited}
LockStates == (0..MaxMajor) \X {0, 1}
Places == {"idle", "planA", "writeA", "stageA", "lock", "stageLock", "handover", "planB",
           "writeB", "stageB", "tools", "stageTools", "relock", "stageEnd", "after"}

\* The shapes of the app's tree and of the sync's state.
TypeOK ==
  /\ major \in Majors /\ want \in [Entries -> {"on", "idle", "off"}]
  /\ ever \in Seq(SUBSET Entries)
  /\ text \in [Entries -> Texts] /\ region \in [Entries -> BOOLEAN]
  /\ tracked \subseteq Entries \cup LockFiles
  /\ flakeLock \in LockStates /\ benchLock \in LockStates /\ toolsLock \in 0..MaxMajor
  /\ pc \in Places /\ plan \in [Entries -> Texts \cup {Keep, Written}]
  /\ force \in BOOLEAN /\ handed \in BOOLEAN /\ changed \in BOOLEAN /\ killed \in BOOLEAN
  /\ owed \in BOOLEAN
  /\ last \in Clean..Never
  /\ edits \in 0..MaxEdits /\ runs \in 0..MaxRuns /\ faults \in 0..MaxFaults

\* "--check MUST exit 0 right after any --sync that exited 0", and through another sync:
\* it has nothing to write, whatever earlier syncs were cut short and whichever modules
\* were turned on and off in between.
CheckAgrees == last = Clean => Check(Whole) = Clean

\* A check in a shallow clone gives the verdict of a full one or none (exit 3): it never
\* depends on how much of the history, which retraction asks about, is there.
ShallowAgrees == \A d \in 1..(Whole - 1) : Check(d) \in {Environment, Check(Whole)}

\* One sync is enough: what one that ends with drift leaves is the app's to see to.
OneIsEnough ==
  last = Drift => ~ToolsStale /\ \A e \in Entries : Item(e, Whole)[2] = Keep

\* What sync and its check say of an app holds after them.
CheckTells == CheckAgrees /\ ShallowAgrees /\ OneIsEnough

\* What sync rendered is tracked by the time it is over, also when a command of it failed:
\* the flake and CI see only tracked files.
StagedUnlessKilled ==
  pc = "idle" /\ ~killed => \A e \in Entries : text[e] \in Majors => e \in tracked

\* What is the app's stays: the region of a managed file, a file of its own whose entry is
\* not on, and a seed, however modules go on and off and syncs are cut short.
AppsOwnKept ==
  [][pc # "idle" =>
       \A e \in Entries :
         /\ region[e] => region'[e]
         /\ text[e] = Own /\ want[e] # "on" => text'[e] = Own
         /\ Kind[e] = "seed" /\ text[e] # Missing => text'[e] = text[e]]_vars

\* The bench's lock is made anew in the run that changed flake.lock, though it may go on in
\* another release of the tools, or in the dev shell: only one that phase B refuses, or that
\* fails or is killed, leaves it behind.
RelockedInRun ==
  last = Clean /\ ~owed /\ flakeLock[2] = 0 => benchLock = flakeLock

\* A sync leaves nothing of its own work to be done after it.
DoneInRun == StagedUnlessKilled /\ RelockedInRun

\* "If the frappe-nix or a sibling lock node changed since the last relock": then the
\* bench's lock follows flake.lock whenever a sync exits 0. False of the code, which asks
\* only whether this run changed it.
BenchLockFollows == last = Clean => benchLock = flakeLock
=============================================================================
