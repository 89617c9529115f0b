------------------------------ MODULE DevSite -------------------------------
(***************************************************************************)
(* The site of a development bench and what changes it from outside        *)
(* Frappe: reconcile-apps, of which devenv up starts several copies at     *)
(* once, the rename tool it calls first, bench provision and bench         *)
(* restore.                                                                *)
(*                                                                         *)
(* A copy holds the site's lock for each of its three steps and reads the  *)
(* installed apps anew in each; between steps another copy may have it.    *)
(* Provision and restore take no lock. They are run by hand, one at a      *)
(* time; that nobody runs one while a copy runs (HandWaits) is nothing the *)
(* code sees to. The bench was renamed before the pair was configured:     *)
(* sites/apps.txt never lists a renamed app's old name.                    *)
(* bench's own commands, the database and the backups are external.        *)
(***************************************************************************)
EXTENDS Integers, FiniteSets

CONSTANTS
  Apps,       \* apps, besides frappe
  Renamed,    \* renamedApps, pairs <<old, new>>
  Replaced,   \* replacedApps, pairs <<old, new>>
  Copies,     \* copies of reconcile-apps
  MaxStarts,  \* bound: commands started
  MaxFaults,  \* bound: failures and kills
  HandWaits,  \* provision and restore are run only while no copy runs
  None

Olds(pairs) == {p[1] : p \in pairs}
News(pairs) == {p[2] : p \in pairs}

ASSUME DevSiteAssumption ==
  /\ Renamed \subseteq Apps \X Apps /\ Replaced \subseteq Apps \X Apps
  /\ Olds(Renamed) \cap (News(Renamed) \cup News(Replaced)) = {}
  /\ Olds(Replaced) \cap (News(Replaced) \cup Olds(Renamed) \cup News(Renamed)) = {}
  /\ \A p, q \in Replaced : p[1] = q[1] => p = q
  /\ MaxStarts \in Nat /\ MaxFaults \in Nat /\ HandWaits \in BOOLEAN /\ None \notin Copies

VARIABLES
  listed,    \* sites/apps.txt
  site,      \* sites/<site> exists
  apps,      \* the apps its database has installed
  dbKey,     \* the key its stored passwords are encrypted with
  cfgKey,    \* the key in its site_config.json
  live,      \* its scheduler and its Email Accounts are those of production
  holder,    \* the copy that has locks/reconcile-apps.lock
  pc,        \* where each copy is
  seen,      \* what each copy read as installed
  todo,      \* what each copy has still to install, or the pairs to replace
  hand,      \* where the command run by hand is
  starts, faults

db     == <<apps, dbKey, live>>
copies == <<holder, pc, seen, todo>>
siteVars   == <<listed, site, db, cfgKey, copies, hand, starts, faults>>

Keys  == {"none", "own", "production"}
Steps == {"rename", "install", "replace"}
Quiet == \A c \in Copies : pc[c] = "off"

SiteInit ==
  /\ listed \in SUBSET (Apps \ Olds(Renamed))
  /\ site \in BOOLEAN
  /\ apps \in IF site THEN SUBSET Apps ELSE {{}}
  /\ \A p \in Renamed : ~({p[1], p[2]} \subseteq apps)
  /\ dbKey = (IF site THEN "own" ELSE "none") /\ cfgKey = dbKey
  /\ live = FALSE
  /\ holder = None
  /\ pc = [c \in Copies |-> "off"] /\ seen = [c \in Copies |-> {}]
  /\ todo = [c \in Copies |-> {}]
  /\ hand = "off" /\ starts = 0 /\ faults = 0

Faulty == faults < MaxFaults /\ faults' = faults + 1

-----------------------------------------------------------------------------
(***************************************************************************)
(* reconcile-apps.                                                         *)
(***************************************************************************)
Go(c, place) == pc' = [pc EXCEPT ![c] = place]
\* Variants are mutations, no step uses them: each is next to what it varies.
FreeNever(c) == UNCHANGED holder
Free(c)      == holder' = IF holder = c THEN None ELSE holder

StartCopyInstalls(c) ==
  /\ pc[c] = "off" /\ (HandWaits => hand = "off") /\ starts < MaxStarts
  /\ starts' = starts + 1
  /\ Go(c, IF site THEN "install" ELSE "off")
  /\ UNCHANGED <<listed, site, db, cfgKey, holder, seen, todo, hand, faults>>
StartCopy(c) ==
  /\ pc[c] = "off" /\ (HandWaits => hand = "off") /\ starts < MaxStarts
  /\ starts' = starts + 1
  /\ Go(c, IF site THEN "rename" ELSE "off")
  /\ UNCHANGED <<listed, site, db, cfgKey, holder, seen, todo, hand, faults>>

LockAs(c, replace) ==
  /\ pc[c] \in Steps /\ holder = None
  /\ holder' = c
  /\ seen' = [seen EXCEPT ![c] = apps]
  /\ todo' = [todo EXCEPT ![c] =
       CASE pc[c] = "rename"  -> {}
         [] pc[c] = "install" -> listed \ (Olds(Replaced) \cup apps)
         [] pc[c] = "replace" -> replace]
  /\ Go(c, CASE pc[c] = "rename" -> "renaming" [] pc[c] = "install" -> "installing"
             [] pc[c] = "replace" -> "replacing")
  /\ UNCHANGED <<listed, site, db, cfgKey, hand, starts, faults>>
LockTodoPairs(c)   == LockAs(c, {q \in Replaced : q[1] \in apps})
\* The site's lock, and the first thing done under it. What cannot be listed counts
\* as not installed; the rename tool reads the database itself.
Lock(c) ==
  /\ pc[c] \in Steps /\ holder = None
  /\ holder' = c
  /\ \E read \in {apps, {}} :
       /\ read # apps => pc[c] # "rename" /\ Faulty
       /\ read = apps => UNCHANGED faults
       /\ seen' = [seen EXCEPT ![c] = read]
       /\ todo' = [todo EXCEPT ![c] =
            CASE pc[c] = "rename"  -> {}
              [] pc[c] = "install" -> listed \ (Olds(Replaced) \cup read)
              [] pc[c] = "replace" -> {p[1] : p \in {q \in Replaced : q[1] \in read}}]
  /\ Go(c, CASE pc[c] = "rename" -> "renaming" [] pc[c] = "install" -> "installing"
             [] pc[c] = "replace" -> "replacing")
  /\ UNCHANGED <<listed, site, db, cfgKey, hand, starts>>

Unlock(c, place) == Go(c, place) /\ holder' = None

\* The pairs that have anything to do, in one transaction. Both installed, or the new
\* one not on the bench, is a failed precondition, and ends the copy.
Pending == {p \in Renamed : p[1] \in apps}
Refused == \E p \in Pending : p[2] \in apps \/ p[2] \notin listed
RenameSite(c) ==
  /\ pc[c] = "renaming"
  /\ IF Refused THEN Unlock(c, "off") /\ UNCHANGED db
     ELSE /\ apps' = (apps \ Olds(Pending)) \cup News(Pending)
          /\ Unlock(c, "install") /\ UNCHANGED <<dbKey, live>>
  /\ UNCHANGED <<listed, site, cfgKey, seen, todo, hand, starts, faults>>

\* install-app of what is installed already does nothing. A failure is a warning.
Install(c, a) ==
  /\ pc[c] = "installing" /\ a \in todo[c]
  /\ todo' = [todo EXCEPT ![c] = @ \ {a}]
  /\ \/ apps' = apps \cup {a} /\ UNCHANGED faults
     \/ apps' \in {apps, apps \cup {a}} /\ Faulty
  /\ UNCHANGED <<listed, site, dbKey, live, cfgKey, holder, pc, seen, hand, starts>>

Installed(c) ==
  /\ pc[c] = "installing" /\ todo[c] = {}
  /\ Unlock(c, "replace")
  /\ UNCHANGED <<listed, site, db, cfgKey, seen, todo, hand, starts, faults>>

\* The new app, unless it was seen; then the old one goes.
InstallNew(c, p) ==
  /\ pc[c] = "replacing" /\ p \in Replaced /\ p[1] \in todo[c] /\ p[2] \notin seen[c]
  /\ apps' = apps \cup {p[2]} /\ seen' = [seen EXCEPT ![c] = @ \cup {p[2]}]
  /\ UNCHANGED <<listed, site, dbKey, live, cfgKey, holder, pc, todo, hand, starts, faults>>

UninstallOldFirst(c, p) ==
  /\ pc[c] = "replacing" /\ p \in Replaced /\ p[1] \in todo[c]
  /\ apps' = apps \ {p[1]} /\ todo' = [todo EXCEPT ![c] = @ \ {p[1]}]
  /\ UNCHANGED <<listed, site, dbKey, live, cfgKey, holder, pc, seen, hand, starts, faults>>
UninstallOld(c, p) ==
  /\ pc[c] = "replacing" /\ p \in Replaced /\ p[1] \in todo[c] /\ p[2] \in seen[c]
  /\ apps' = apps \ {p[1]} /\ todo' = [todo EXCEPT ![c] = @ \ {p[1]}]
  /\ UNCHANGED <<listed, site, dbKey, live, cfgKey, holder, pc, seen, hand, starts, faults>>

ReplaceDone(c) ==
  /\ pc[c] = "replacing" /\ todo[c] = {}
  /\ Unlock(c, "off")
  /\ UNCHANGED <<listed, site, db, cfgKey, seen, todo, hand, starts, faults>>

\* A step that stops the copy, or a kill. The lock goes with it; what the transaction
\* of the rename had done is rolled back.
StopCopy(c) ==
  /\ pc[c] # "off" /\ Faulty
  /\ Go(c, "off") /\ Free(c)
  /\ UNCHANGED <<listed, site, db, cfgKey, seen, todo, hand, starts>>

-----------------------------------------------------------------------------
(***************************************************************************)
(* By hand.                                                                *)
(***************************************************************************)
Alone   == (HandWaits => Quiet) /\ hand = "off" /\ starts < MaxStarts
Hand(p) == hand' = p

\* bench get-app, new-app and remove-app, as sites/apps.txt shows them: at any time.
BenchChanges ==
  /\ starts < MaxStarts /\ starts' = starts + 1
  /\ \E a \in Apps \ Olds(Renamed) :
       listed' = IF a \in listed THEN listed \ {a} ELSE listed \cup {a}
  /\ UNCHANGED <<site, db, cfgKey, copies, hand, faults>>

\* bench new-site --force makes the site anew, then the apps go in, and the first
\* failure ends it.
NewSite ==
  /\ Alone /\ starts' = starts + 1
  /\ site' = TRUE /\ apps' = {} /\ live' = FALSE /\ dbKey' = "own" /\ cfgKey' = "own"
  /\ Hand("provision")
  /\ UNCHANGED <<listed, copies, faults>>

Provision ==
  /\ hand = "provision"
  /\ IF listed \subseteq apps THEN Hand("off") /\ UNCHANGED apps
     ELSE (\E a \in listed \ apps : apps' = apps \cup {a}) /\ UNCHANGED hand
  /\ UNCHANGED <<listed, site, dbKey, live, cfgKey, copies, starts, faults>>

\* The backup is fetched, the site seeded and production's keys carried into its
\* config, all before bench restore is called.
SeedAndCarry ==
  /\ Alone /\ starts' = starts + 1
  /\ site' = TRUE
  /\ \E carry \in BOOLEAN :
       cfgKey' = IF carry THEN "production" ELSE IF site THEN cfgKey ELSE "own"
  /\ Hand("seeded")
  /\ UNCHANGED <<listed, db, copies, faults>>

\* bench restore drops and makes the database anew, with --force; without it, it fails
\* over one that exists.
RestoreDatabase ==
  /\ hand = "seeded"
  /\ \/ /\ apps' \in {s \in SUBSET Apps : \A p \in Renamed : ~({p[1], p[2]} \subseteq s)}
        /\ dbKey' = "production" /\ live' = TRUE
        /\ Hand("restored")
     \/ dbKey # "none" /\ Hand("off") /\ UNCHANGED db
  /\ UNCHANGED <<listed, site, cfgKey, copies, starts, faults>>

\* The scheduler, then the mail; then bench migrate, unless the database has apps the
\* bench has not.
Neutralize ==
  /\ hand = "restored" /\ Hand("off") /\ live' = FALSE
  /\ UNCHANGED <<listed, site, apps, dbKey, cfgKey, copies, starts, faults>>

\* Whatever is called fails, or the command is killed.
StopHand ==
  /\ hand # "off" /\ Hand("off") /\ Faulty
  /\ UNCHANGED <<listed, site, db, cfgKey, copies, starts>>

-----------------------------------------------------------------------------
CopyStep(c) ==
  \/ Lock(c) \/ RenameSite(c) \/ Installed(c) \/ ReplaceDone(c)
  \/ \E a \in Apps : Install(c, a)
  \/ \E p \in Replaced : InstallNew(c, p) \/ UninstallOld(c, p)

HandStep == Provision \/ RestoreDatabase \/ Neutralize

SiteNext ==
  \/ \E c \in Copies : StartCopy(c) \/ CopyStep(c) \/ StopCopy(c)
  \/ BenchChanges \/ NewSite \/ SeedAndCarry \/ HandStep \/ StopHand

SiteSpec == SiteInit /\ [][SiteNext]_siteVars

\* flock serves one waiter after another, and no process stops of itself.
SiteFairSpec == SiteSpec /\ WF_siteVars(HandStep) /\ \A c \in Copies : SF_siteVars(CopyStep(c))

-----------------------------------------------------------------------------
(***************************************************************************)
(* Properties.                                                             *)
(***************************************************************************)
\* The shapes of the site, of the copies that reconcile it and of what is run by hand.
SiteTypeOK ==
  /\ listed \subseteq Apps /\ apps \subseteq Apps
  /\ site \in BOOLEAN /\ live \in BOOLEAN
  /\ dbKey \in Keys /\ cfgKey \in Keys
  /\ holder \in Copies \cup {None}
  /\ pc \in [Copies -> {"off", "renaming", "installing", "replacing"} \cup Steps]
  /\ seen \in [Copies -> SUBSET Apps] /\ todo \in [Copies -> SUBSET Apps]
  /\ hand \in {"off", "provision", "seeded", "restored"}
  /\ starts \in 0..MaxStarts /\ faults \in 0..MaxFaults

\* A renamed app and its old self share a Module Def: one is never installed beside
\* the other, by any copy, whatever the bench lists by then.
NeverBeside == \A p \in Renamed : ~({p[1], p[2]} \subseteq apps)

\* An old app that the site has goes only when the app that replaces it is there: its
\* data is the new one's to take over, and the uninstall needs its hooks.
ReplacedFirst ==
  [][\A p \in Replaced : hand = "off" /\ hand' = "off" /\ p[1] \in apps \ apps' =>
       p[2] \in apps]_siteVars

\* A copy that comes to its end leaves no old app behind: neither one that is renamed
\* nor one that is replaced, whichever copy saw to it and though each reads the site
\* before another has changed it.
OldsGone == [][\A c \in Copies : ReplaceDone(c) /\ seen[c] # {} =>
                 apps' \cap (Olds(Replaced) \cup Olds(Renamed)) = {}]_siteVars

\* An old app goes, and never before the one that takes over from it.
OldsReplaced == ReplacedFirst /\ OldsGone

\* Every copy that starts ends, whichever others wait for the site.
CopyEnds == \A c \in Copies : pc[c] # "off" ~> pc[c] = "off"
=============================================================================
