--------------------------- MODULE OfflineMigrate ---------------------------
(***************************************************************************)
(* offline-migrate: before bench migrate, what it is about to ALTER is     *)
(* altered online on the large tables, by pt-online-schema-change, so that *)
(* bench migrate finds nothing to alter there and no connection waits on a *)
(* lock. Two tables, taken in order; on a bench (bench-migrate) and on a   *)
(* deployment, which puts the snapshot back when either step fails. The    *)
(* planner reads what is shipped; it does not run the migrate's patches.   *)
(***************************************************************************)
EXTENDS Integers

CONSTANTS
  MaxDeploys, \* bound: changes of the code
  MaxTries,   \* bound: commands
  MaxFaults   \* bound: alterations that fail, kills, tables that grow meanwhile

VARIABLES
  code,  \* what the shipped JSON asks of a table beyond the last migrate
  db,    \* a table: [done |-> synced, has |-> the new column is there, big, trig |-> triggers left behind]
  run,   \* the command: [pc, hand, off, rest |-> tables to alter, planned, moved]
  snap,  \* the snapshot, of a deployment that migrates
  past,  \* [prod |-> a deployment, waited |-> history: a large table was altered by the migrate, hand, killed]
  deploys, tries, faults

vars == <<code, db, run, snap, past, deploys, tries, faults>>

Tables == 1..2
\* A column; one that a patch of the migrate renames an old one to; one that needs its rows filled first; a
\* change that the planner stumbles over.
Kinds == {"same", "add", "rename", "fill", "odd"}
NoRun == [pc |-> "idle", hand |-> FALSE, off |-> FALSE, rest |-> {}, planned |-> {}, moved |-> {}]

At(pc) == run.pc = pc
Next1(ts) == CHOOSE t \in ts : \A u \in ts : t <= u

\* alter_clauses: what the sync would alter, as far as it needs no row written; and nothing of what is there.
Clauses(t) == ~db[t].done /\ code[t] \in {"add", "rename"} /\ ~db[t].has
\* large_tables: of those, the ones with the threshold's rows.
LargeTables == {t \in Tables : Clauses(t) /\ db[t].big}

-----------------------------------------------------------------------------
(* A command that ends: bench-migrate says so; a deployment has its snapshot put back. *)

Fails ==
  /\ run' = NoRun
  /\ db' = IF past.prod /\ ~run.hand THEN snap ELSE db

\* bench-migrate, or the deployment's: the tool unless it is switched off, and then the migrate.
Migrate(off) ==
  /\ At("idle") /\ tries < MaxTries /\ tries' = tries + 1
  /\ LET todo == IF off THEN {} ELSE LargeTables IN
       run' = [NoRun EXCEPT !.pc = IF todo = {} THEN "patches" ELSE "osc", !.off = off, !.rest = todo, !.planned = todo]
  /\ snap' = db
  /\ UNCHANGED <<code, db, past, deploys, faults>>
\* bench-offline-migrate by hand: a plan, a rehearsal, or the tables without the migrate.
ByHand(execute) ==
  /\ At("idle") /\ tries < MaxTries /\ tries' = tries + 1
  /\ run' = IF execute /\ LargeTables # {}
            THEN [NoRun EXCEPT !.pc = "osc", !.hand = TRUE, !.rest = LargeTables, !.planned = LargeTables]
            ELSE NoRun
  /\ past' = [past EXCEPT !.hand = @ \/ execute]
  /\ UNCHANGED <<code, db, snap, deploys, faults>>

\* pt-online-schema-change for one table, which takes none that has triggers.
Osc ==
  /\ At("osc") /\ ~db[Next1(run.rest)].trig
  /\ LET t == Next1(run.rest)
         rest == run.rest \ {t}
     IN  /\ db' = [db EXCEPT ![t].has = @ \/ t \notin run.moved]
         /\ run' = [run EXCEPT !.rest = rest,
                               !.pc = IF rest # {} THEN @ ELSE IF run.hand THEN "idle" ELSE "patches"]
  /\ UNCHANGED <<code, snap, past, deploys, tries, faults>>

\* A mutant of OscFails: gone past, to the next table and the migrate.
OscGoesOn ==
  /\ At("osc")
  /\ \/ db[Next1(run.rest)].trig /\ UNCHANGED faults
     \/ faults < MaxFaults /\ faults' = faults + 1
  /\ LET rest == run.rest \ {Next1(run.rest)} IN
       run' = [run EXCEPT !.rest = rest, !.pc = IF rest # {} THEN @ ELSE IF run.hand THEN "idle" ELSE "patches"]
  /\ UNCHANGED <<code, db, snap, past, deploys, tries>>

\* It cannot, or it is not installed: exit 1, and no migrate.
OscFails ==
  /\ At("osc")
  /\ \/ db[Next1(run.rest)].trig /\ UNCHANGED faults
     \/ faults < MaxFaults /\ faults' = faults + 1
  /\ Fails
  /\ UNCHANGED <<code, snap, past, deploys, tries>>
-----------------------------------------------------------------------------
(* bench migrate: external. *)

\* The pre-model-sync patches: the rename of a column onto a name that is there fails, and the migrate with it.
Patches ==
  /\ At("patches")
  /\ LET renames == {t \in Tables : ~db[t].done /\ code[t] = "rename"} IN
       IF \E t \in renames : db[t].has THEN Fails
       ELSE /\ db' = [t \in Tables |-> IF t \in renames THEN [db[t] EXCEPT !.has = TRUE] ELSE db[t]]
            /\ run' = [run EXCEPT !.pc = "sync"]
  /\ UNCHANGED <<code, snap, past, deploys, tries, faults>>

\* The sync: a table that lacks what is shipped is altered, and whoever uses a large one waits.
Sync ==
  /\ At("sync") /\ run' = NoRun
  /\ LET altered == {t \in Tables : ~db[t].done /\ code[t] # "same" /\ ~db[t].has}
         excused == IF run.off THEN Tables ELSE run.moved \cup {t \in Tables : code[t] \in {"fill", "odd"}}
     IN  /\ db' = [t \in Tables |-> [db[t] EXCEPT !.done = TRUE, !.has = @ \/ t \in altered]]
         /\ past' = [past EXCEPT !.waited = @ \/ \E t \in altered \ excused : db[t].big]
  /\ UNCHANGED <<code, snap, deploys, tries, faults>>

\* Killed: pt-online-schema-change leaves its triggers on the table.
Kill ==
  /\ ~At("idle") /\ faults < MaxFaults /\ faults' = faults + 1
  /\ run' = NoRun /\ past' = [past EXCEPT !.killed = TRUE]
  /\ \/ UNCHANGED db
     \/ At("osc") /\ db' = [db EXCEPT ![Next1(run.rest)].trig = TRUE]
  /\ UNCHANGED <<code, snap, deploys, tries>>

\* Somebody drops the triggers.
CleanUp ==
  /\ At("idle") /\ \E t \in Tables : db[t].trig
  /\ db' = [t \in Tables |-> [db[t] EXCEPT !.trig = FALSE]]
  /\ UNCHANGED <<code, run, snap, past, deploys, tries, faults>>

\* Other code: a table that is synced gets another change; one that is not may be rid of it.
Deploy ==
  /\ deploys < MaxDeploys /\ deploys' = deploys + 1
  /\ \E t \in Tables, kind \in Kinds :
       /\ db[t].done \/ kind = "same"
       /\ code' = [code EXCEPT ![t] = kind]
       /\ db' = [db EXCEPT ![t].done = (kind = "same"), ![t].has = IF kind = "same" THEN @ ELSE FALSE]
       /\ run' = [run EXCEPT !.moved = IF At("idle") THEN @ ELSE @ \cup {t}]
  /\ At("idle") \/ ~past.prod
  /\ UNCHANGED <<snap, past, tries, faults>>
Grow ==
  /\ faults < MaxFaults /\ faults' = faults + 1
  /\ \E t \in Tables :
       /\ ~db[t].big /\ db' = [db EXCEPT ![t].big = TRUE]
       /\ run' = [run EXCEPT !.moved = IF At("idle") THEN @ ELSE @ \cup {t}]
  /\ UNCHANGED <<code, snap, past, deploys, tries>>

-----------------------------------------------------------------------------
Init ==
  /\ code = [t \in Tables |-> "same"]
  /\ \E big \in [Tables -> BOOLEAN] : db = [t \in Tables |-> [done |-> TRUE, has |-> TRUE, big |-> big[t], trig |-> FALSE]]
  /\ snap = db /\ run = NoRun
  /\ \E prod \in BOOLEAN : past = [prod |-> prod, waited |-> FALSE, hand |-> FALSE, killed |-> FALSE]
  /\ deploys = 0 /\ tries = 0 /\ faults = 0

Next ==
  \/ \E off \in BOOLEAN : Migrate(off)
  \/ \E execute \in BOOLEAN : ByHand(execute)
  \/ Osc \/ OscFails \/ Patches \/ Sync \/ Kill \/ CleanUp \/ Deploy \/ Grow

Spec == Init /\ [][Next]_vars

-----------------------------------------------------------------------------
TypeOK ==
  /\ code \in [Tables -> Kinds]
  /\ db \in [Tables -> [done : BOOLEAN, has : BOOLEAN, big : BOOLEAN, trig : BOOLEAN]]
  /\ run.pc \in {"idle", "osc", "patches", "sync"} /\ run.rest \subseteq run.planned /\ run.planned \subseteq Tables
  /\ deploys \in 0..MaxDeploys /\ tries \in 0..MaxTries /\ faults \in 0..MaxFaults

\* "Nothing waits. When bench migrate runs, those columns exist already": no large table is altered by the
\* migrate, however often a step before it failed, but one that was left to it (rows to be filled, a change
\* that could not be planned), one that grew or changed after the plan, or with the step switched off.
NothingWaits == ~past.waited

\* "so that the migrate behind it does not run on a half-applied plan".
PlanApplied == At("patches") => \A t \in run.planned \ run.moved : db[t].has

\* "FRAPPE_NIX_OFFLINE_MIGRATE=0 runs that one migrate the stock way", after it failed on a column the tool
\* had added: on a deployment, whose snapshot is put back. A bench has the column still.
StockWay ==
  past.prod /\ ~past.hand /\ ~past.killed /\ At("idle") =>
    \A t \in Tables : code[t] = "rename" /\ ~db[t].done => ~db[t].has

OfflineSound == NothingWaits /\ PlanApplied /\ StockWay
=============================================================================
