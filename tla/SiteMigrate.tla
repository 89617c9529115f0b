----------------------------- MODULE SiteMigrate -----------------------------
(***************************************************************************)
(* A site deployed on NixOS: modules/nixos.nix. On each deploy and boot    *)
(* frappe-init rewrites site_config.json, then frappe-migrate takes the    *)
(* site to the build's schema, then the services start, whatever became of *)
(* the migration: they are ordered after it and do not require it.         *)
(*                                                                         *)
(* The steps are this repository's; the flow that calls them, bench and    *)
(* systemd are external and modelled by what this module relies on. A      *)
(* schema is the build it belongs to, or Mixed: part of two, or part of a  *)
(* dump. A row stands for what one visitor wrote.                          *)
(***************************************************************************)
EXTENDS Integers, Sequences, FiniteSets

CONSTANTS
  Builds,      \* bench packages, by store path
  Rows,        \* what visitors may write
  Retention,   \* migrate.snapshotRetention
  Faults,      \* what may go wrong besides a migration that fails
  MaxOps,      \* bound: deploys, boots and restarts of the migrate unit
  MaxFaults,   \* bound: kinds of faults in one behaviour
  None, Empty, Mixed

ASSUME SiteAssumption ==
  /\ Retention \in Nat \ {0} /\ MaxOps \in Nat /\ MaxFaults \in Nat
  /\ Faults \subseteq {"crash", "dump", "on", "off", "restore", "torn", "lost"}
  /\ Builds \cap {None, Empty, Mixed} = {} /\ Empty # Mixed

VARIABLES
  build,     \* the build of the current system generation
  pc,        \* where the units are, in the order systemd starts them
  web,       \* the build that serves, or None
  maint,     \* maintenance_mode in site_config.json
  marker,    \* .frappe-migrate-build
  db,        \* the site's database: its schema and its rows
  snaps,     \* the snapshots on disk, oldest first
  ops,       \* deploys, boots and restarts so far
  hit,       \* the faults so far (history)
  written,   \* the rows visitors were told are saved (history)
  early      \* those saved after a snapshot and outside maintenance (history)

history == <<hit, written, early>>
vars == <<build, pc, web, maint, marker, db, snaps, ops, history>>

Schemas == Builds \cup {Empty, Mixed}
Stages  == {"rename", "replace", "offline", "migrate"}
Settled == {"failed", "done"}
Places  == {"init", "check", "dump", "verify", "maintain", "off", "mark", "prune",
            "drop", "load", "loadOver", "report"} \cup Stages \cup Settled

Newest   == snaps[Len(snaps)]
Whole(s) == s.whole /\ s.schema \in Builds

-----------------------------------------------------------------------------
\* A host that is set up for the first time, over no database or over one that a
\* build before left.
Init ==
  /\ build \in Builds
  /\ pc = "init" /\ web = None /\ maint = FALSE /\ marker = None
  /\ db \in [schema : Builds \cup {Empty}, rows : {{}}]
  /\ snaps = <<>> /\ ops = 0
  /\ hit = {} /\ written = {} /\ early = {}

Goto(place) == pc' = place
Hit(fault)  == fault \in Faults /\ hit' = hit \cup {fault} /\ Cardinality(hit') <= MaxFaults

(***************************************************************************)
(* frappe-init.                                                            *)
(***************************************************************************)
SiteInitMerges ==
  /\ pc = "init"
  /\ Goto("check")
  /\ UNCHANGED <<build, web, maint, marker, db, snaps, ops, history>>

\* site_config.json is made anew from the options, which have no maintenance_mode.
SiteInit ==
  /\ pc = "init"
  /\ maint' = FALSE
  /\ Goto("check")
  /\ UNCHANGED <<build, web, marker, db, snaps, ops, history>>

(***************************************************************************)
(* frappe-migrate.                                                         *)
(***************************************************************************)
CheckMarksUninstalled ==
  /\ pc = "check"
  /\ Goto(IF marker = build \/ db.schema = Empty THEN "done" ELSE "dump")
  /\ marker' = IF db.schema = Empty THEN build ELSE marker
  /\ UNCHANGED <<build, web, maint, db, snaps, ops, history>>

\* Exit 100, nothing to do, for the marker and then for a database with no tables.
Check ==
  /\ pc = "check"
  /\ Goto(IF marker = build \/ db.schema = Empty THEN "done" ELSE "dump")
  /\ UNCHANGED <<build, web, maint, marker, db, snaps, ops, history>>

DumpNothing ==
  /\ pc = "dump"
  /\ Goto("maintain")
  /\ UNCHANGED <<build, web, maint, marker, db, snaps, ops, history>>

\* One transaction: the database as it is now. It may be cut short.
Dump ==
  /\ pc = "dump"
  /\ \E whole \in BOOLEAN :
       /\ snaps' = Append(snaps, [schema |-> db.schema, rows |-> db.rows, whole |-> whole])
       /\ IF whole THEN UNCHANGED hit ELSE Hit("dump")
  /\ Goto("verify")
  /\ UNCHANGED <<build, web, maint, marker, db, ops, written, early>>

Verify ==
  /\ pc = "verify"
  /\ IF Newest.whole
     THEN Goto("maintain") /\ UNCHANGED snaps
     ELSE Goto("failed") /\ snaps' = SubSeq(snaps, 1, Len(snaps) - 1)
  /\ UNCHANGED <<build, web, maint, marker, db, ops, history>>

\* set-maintenance-mode, whose failure is a warning.
SetMaintenance(state, fault) ==
  \/ maint' = state /\ UNCHANGED hit
  \/ Hit(fault) /\ UNCHANGED maint

MaintenanceOn ==
  /\ pc = "maintain"
  /\ SetMaintenance(TRUE, "on")
  /\ Goto("rename")
  /\ UNCHANGED <<build, web, marker, db, snaps, ops, written, early>>

\* The app renames, the replacements, the offline migrate, bench migrate: each
\* only when those before it passed, a failure of any a failed migrate.
After(stage) ==
  CASE stage = "rename" -> "replace" [] stage = "replace" -> "offline"
    [] stage = "offline" -> "migrate" [] stage = "migrate" -> "off"

Run(stage) ==
  /\ pc = stage
  /\ \/ stage # "migrate" /\ db' \in {db, [db EXCEPT !.schema = Mixed]} /\ Goto(After(stage))
     \/ stage = "migrate" /\ db' = [db EXCEPT !.schema = build] /\ Goto("off")
     \/ db' \in {db, [db EXCEPT !.schema = Mixed]} /\ Goto("drop")
  /\ UNCHANGED <<build, web, maint, marker, snaps, ops, history>>

MaintenanceOff ==
  /\ pc = "off"
  /\ SetMaintenance(FALSE, "off")
  /\ Goto("mark")
  /\ UNCHANGED <<build, web, marker, db, snaps, ops, written, early>>

Mark ==
  /\ pc = "mark"
  /\ marker' = build
  /\ Goto("prune")
  /\ UNCHANGED <<build, web, maint, db, snaps, ops, history>>

KeepNewest ==
  snaps' = SubSeq(snaps, IF Len(snaps) > Retention THEN Len(snaps) - Retention + 1 ELSE 1, Len(snaps))

Prune ==
  /\ pc = "prune"
  /\ KeepNewest
  /\ Goto("done")
  /\ UNCHANGED <<build, web, maint, marker, db, ops, history>>

\* restore: both halves run, whatever the first did.
DropTables ==
  /\ pc = "drop"
  /\ \/ db' = [schema |-> Empty, rows |-> {}] /\ Goto("load") /\ UNCHANGED hit
     \/ Hit("restore") /\ Goto("loadOver") /\ UNCHANGED db
  /\ UNCHANGED <<build, web, maint, marker, snaps, ops, written, early>>

LoadOldest ==
  /\ pc \in {"load", "loadOver"}
  /\ \/ /\ db' = [schema |-> IF pc = "load" THEN snaps[1].schema ELSE Mixed, rows |-> snaps[1].rows]
        /\ UNCHANGED hit
     \/ Hit("restore") /\ db' = [schema |-> Mixed, rows |-> {}]
  /\ Goto("report")
  /\ UNCHANGED <<build, web, maint, marker, snaps, ops, written, early>>

\* Loaded over what a failed drop left, the tables the migration made stay.
LoadSnapshot ==
  /\ pc \in {"load", "loadOver"}
  /\ \/ /\ db' = [schema |-> IF pc = "load" THEN Newest.schema ELSE Mixed, rows |-> Newest.rows]
        /\ UNCHANGED hit
     \/ Hit("restore") /\ db' = [schema |-> Mixed, rows |-> {}]
  /\ Goto("report")
  /\ UNCHANGED <<build, web, maint, marker, snaps, ops, written, early>>

ReportAndOpen ==
  /\ pc = "report"
  /\ maint' = FALSE
  /\ Goto("failed")
  /\ UNCHANGED <<build, web, marker, db, snaps, ops, history>>

ReportAndPrune ==
  /\ pc = "report"
  /\ KeepNewest
  /\ Goto("failed")
  /\ UNCHANGED <<build, web, maint, marker, db, ops, history>>

\* onFailure says that the site is left in maintenance mode, and leaves it.
Report ==
  /\ pc = "report"
  /\ Goto("failed")
  /\ UNCHANGED <<build, web, maint, marker, db, snaps, ops, history>>

(***************************************************************************)
(* The services, and their visitors.                                       *)
(***************************************************************************)
StartRequiresMigrate ==
  /\ web = None /\ pc = "done"
  /\ web' = build
  /\ UNCHANGED <<build, pc, maint, marker, db, snaps, ops, history>>

StartServices ==
  /\ web = None /\ pc \in Settled
  /\ web' = build
  /\ UNCHANGED <<build, pc, maint, marker, db, snaps, ops, history>>

\* Saved too late for the snapshot a failed migration goes back to.
Exposed == pc \in {"verify", "maintain", "off", "drop", "load", "loadOver", "report"} \cup Stages

Visit(row) ==
  /\ web # None /\ ~maint /\ db.schema # Empty
  /\ row \notin written
  /\ db' = [db EXCEPT !.rows = @ \cup {row}]
  /\ written' = written \cup {row}
  /\ early' = IF Exposed THEN early \cup {row} ELSE early
  /\ UNCHANGED <<build, pc, web, maint, marker, snaps, ops, hit>>

(***************************************************************************)
(* The operator and the host.                                              *)
(***************************************************************************)
Operate == ops < MaxOps /\ ops' = ops + 1

\* A switch to another generation, a rollback included, stops the units it
\* changes and then starts them.
Deploy(b) ==
  /\ pc \in Settled /\ b # build
  /\ Operate
  /\ build' = b /\ web' = None
  /\ Goto("init")
  /\ UNCHANGED <<maint, marker, db, snaps, history>>

\* By hand, or by a switch to the same build after a failure: the services run on.
RestartMigrate ==
  /\ pc \in Settled
  /\ Operate
  /\ Goto("check")
  /\ UNCHANGED <<build, web, maint, marker, db, snaps, history>>

\* A reboot, or a restart of frappe-init, which all the other units require. As
\* a crash it comes at any time, and a load it cuts is in the database in part.
Boot ==
  /\ Operate
  /\ \/ pc \in Settled /\ UNCHANGED <<db, hit>>
     \/ /\ pc \notin Settled \cup {"load", "loadOver"}
        /\ Hit("crash") /\ UNCHANGED db
     \/ /\ pc \in {"load", "loadOver"}
        /\ \/ Hit("crash") /\ UNCHANGED db
           \/ Hit("torn") /\ db' = [schema |-> Mixed, rows |-> {}]
  /\ web' = None
  /\ Goto("init")
  /\ UNCHANGED <<build, maint, marker, snaps, written, early>>

\* The host loses the state of its database; the site's directory survives.
LoseDatabase ==
  /\ pc \in Settled
  /\ Hit("lost")
  /\ db' = [schema |-> Empty, rows |-> {}]
  /\ UNCHANGED <<build, pc, web, maint, marker, snaps, ops, written, early>>

\* What an operator does about a database with no tables: bench new-site when
\* there is nothing to go back to, else the last good snapshot. What is not in it
\* is given up.
Reinstall ==
  /\ pc \in Settled /\ db.schema = Empty
  /\ LET good == {i \in DOMAIN snaps : Whole(snaps[i])}
     IN  IF good = {}
         THEN db' = [schema |-> build, rows |-> {}]
         ELSE \E i \in good :
                /\ \A j \in good : j <= i
                /\ db' = [schema |-> snaps[i].schema, rows |-> snaps[i].rows]
  /\ written' = written \cap db'.rows
  /\ UNCHANGED <<build, pc, web, maint, marker, snaps, ops, hit, early>>

-----------------------------------------------------------------------------
UnitStep ==
  \/ SiteInit \/ Check \/ Dump \/ Verify \/ MaintenanceOn
  \/ \E stage \in Stages : Run(stage)
  \/ MaintenanceOff \/ Mark \/ Prune
  \/ DropTables \/ LoadSnapshot \/ Report

Next ==
  \/ UnitStep \/ StartServices
  \/ \E row \in Rows : Visit(row)
  \/ \E b \in Builds : Deploy(b)
  \/ RestartMigrate \/ Boot \/ LoseDatabase \/ Reinstall

Spec == Init /\ [][Next]_vars

\* systemd runs each unit that is to start. Nothing is promised of the operator.
FairSpec == Spec /\ WF_vars(UnitStep) /\ WF_vars(StartServices)
-----------------------------------------------------------------------------
(***************************************************************************)
(* Properties.                                                             *)
(***************************************************************************)
\* Every variable keeps its type, and a migration that is to be rolled back has a
\* whole snapshot to go back to.
TypeOK ==
  /\ build \in Builds /\ pc \in Places /\ web \in Builds \cup {None}
  /\ maint \in BOOLEAN /\ marker \in Builds \cup {None}
  /\ db \in [schema : Schemas, rows : SUBSET Rows]
  /\ snaps \in Seq([schema : Schemas, rows : SUBSET Rows, whole : BOOLEAN])
  /\ ops \in 0 .. MaxOps
  /\ hit \subseteq Faults /\ written \subseteq Rows /\ early \subseteq Rows
  /\ pc \in Stages \cup {"drop", "load", "loadOver"} => snaps # <<>> /\ Newest.whole

\* "It never migrates without a safety net": as long as the database is part of
\* two builds' or of a dump, or being restored, a snapshot of all of one build's is
\* on disk, whatever failed, crashed, was dumped again half way and pruned since.
RecoveryPoint ==
  db.schema = Mixed \/ pc \in {"load", "loadOver", "report"} =>
    \E i \in DOMAIN snaps : Whole(snaps[i])

\* What a visitor saved is in the database or in a snapshot that is kept, but for
\* what came between a snapshot and the maintenance mode (the note in the docs).
\* Excepted are a lost database, and a restore that failed or was cut by a crash.
NoWriteLost ==
  hit \cap {"lost", "torn", "restore"} = {} =>
    written \subseteq db.rows \cup early \cup UNION {snaps[i].rows : i \in DOMAIN snaps}

\* The marker names a build only at a moment when the database has its schema.
MarkerHonest == [][marker' # marker => db'.schema = marker']_vars

\* "A failed migrate leaves the site serving Frappe's maintenance page rather than
\* new code on the rolled-back (older) schema": no visitor meets code on a schema
\* that is not its own.
VisitorsMatch ==
  web # None /\ ~maint /\ db.schema # Empty => db.schema = web

\* The same while nothing but migrations fails, over every order of deploys,
\* rollbacks, reboots and restarts by hand.
VisitorsKeptOff == hit = {} => VisitorsMatch

\* What visitors are owed: what they saved, and code that fits the schema it meets.
VisitorsSafe == NoWriteLost /\ VisitorsKeptOff

\* "The marker stays unwritten, so the deploy after the restore migrates even if
\* the build has not changed": the unit has nothing to do only for a database that
\* has no tables or the build's schema.
SkipIsRedundant ==
  [][pc = "check" /\ pc' = "done" => db.schema \in {Empty, build}]_vars

\* A failed migration does not keep the site from starting.
SiteStarts == web = None ~> web # None

\* "Or return to the previous generation": a deploy of the build that was migrated
\* last serves visitors again, although the unit finds nothing to do for it and
\* does not turn the maintenance mode off.
RollbackReopens ==
  (pc = "init" /\ build = marker) ~> (build # marker \/ (web # None /\ ~maint))

\* No build keeps the visitors out for good: neither one whose migration fails nor one
\* there is nothing to migrate for.
Reopens == SiteStarts /\ RollbackReopens
=============================================================================
