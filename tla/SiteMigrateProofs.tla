------------------------- MODULE SiteMigrateProofs --------------------------
(***************************************************************************)
(* Proofs about SiteMigrate, for any builds, visitors, retention and       *)
(* faults.                                                                 *)
(***************************************************************************)
EXTENDS SiteMigrate, SequenceTheorems, TLAPS

Snapshot == [schema : Schemas, rows : SUBSET Rows, whole : BOOLEAN]

Good == \E i \in DOMAIN snaps : Whole(snaps[i])

\* Where the good snapshot comes from: a migration starts on a database that has
\* tables, behind a dump of it, and ends with the build's schema.
Net ==
  /\ db.schema = Mixed => Good
  /\ pc \in Stages \cup {"maintain", "drop", "load", "loadOver", "report"} => Good
  /\ pc \in {"verify", "maintain"} => snaps # <<>>
  /\ pc = "verify" /\ Newest.whole => Good
  /\ pc = "maintain" => Newest.whole
  /\ pc = "dump" => db.schema # Empty
  /\ pc \in {"off", "mark", "prune"} => db.schema = build

IInv == TypeOK /\ Net

-----------------------------------------------------------------------------
\* What appending and cutting the last do to a sequence of snapshots.
LEMMA AppendSnapshot ==
  ASSUME NEW s \in Seq(Snapshot), NEW e \in Snapshot
  PROVE  /\ Append(s, e) \in Seq(Snapshot)
         /\ Append(s, e) # <<>>
         /\ Append(s, e)[Len(Append(s, e))] = e
         /\ Len(s) + 1 \in DOMAIN Append(s, e)
         /\ \A i \in DOMAIN s : i \in DOMAIN Append(s, e) /\ Append(s, e)[i] = s[i]
  BY AppendProperties, SMT

LEMMA DropLast ==
  ASSUME NEW s \in Seq(Snapshot), s # <<>>
  PROVE  /\ SubSeq(s, 1, Len(s) - 1) \in Seq(Snapshot)
         /\ \A i \in DOMAIN s : i # Len(s) =>
              /\ i \in DOMAIN SubSeq(s, 1, Len(s) - 1)
              /\ SubSeq(s, 1, Len(s) - 1)[i] = s[i]
  BY SMT

LEMMA KeepLast ==
  ASSUME NEW s \in Seq(Snapshot), NEW n \in Nat \ {0}, n <= Len(s) + 1
  PROVE  SubSeq(s, n, Len(s)) \in Seq(Snapshot)
  BY SMT

\* A fault that is hit is one of those that may happen.
LEMMA HitTyped ==
  ASSUME NEW fault, hit \subseteq Faults, Hit(fault) \/ UNCHANGED hit
  PROVE  hit' \subseteq Faults
  BY DEF Hit

LEMMA InitIInv == Init => IInv
<1> SUFFICES ASSUME Init PROVE IInv
  OBVIOUS
<1>1. snaps \in Seq(Snapshot)
  BY SMT DEF Init
<1>2. db \in [schema : Schemas, rows : SUBSET Rows]
  BY SMT DEF Init, Schemas
<1>3. maint \in BOOLEAN
  BY Zenon DEF Init
<1> QED
  BY <1>1, <1>2, <1>3, SiteAssumption, SMT
  DEF Init, IInv, TypeOK, Net, Snapshot, Places, Stages, Settled

LEMMA NewestTyped ==
  ASSUME TypeOK, snaps # <<>>
  PROVE  Newest \in Snapshot
<1>1. snaps \in Seq(Snapshot)
  BY DEF TypeOK, Snapshot
<1>2. Len(snaps) \in 1 .. Len(snaps)
  BY <1>1, LenProperties, SMT
<1> QED
  BY <1>1, <1>2, ElementOfSeq DEF Newest

\* A step that leaves the snapshots alone leaves a good one where it is.
LEMMA GoodStays ==
  ASSUME UNCHANGED snaps
  PROVE  Good' = Good /\ Newest' = Newest
  BY DEF Good, Newest, Whole

LEMMA StepIInv == IInv /\ [Next]_vars => IInv'
<1> SUFFICES ASSUME IInv, [Next]_vars PROVE IInv'
  OBVIOUS
<1> USE SiteAssumption DEF IInv, Goto, Schemas, Places, Stages, Settled, history
<1>1. CASE SiteInit
  <2>1. UNCHANGED snaps
    BY <1>1 DEF SiteInit
  <2>3. TypeOK'
    <3>1. maint' \in BOOLEAN
      BY <1>1, Zenon DEF SiteInit, TypeOK
    <3> QED
      BY <1>1, <2>1, <3>1, GoodStays, SMT DEF SiteInit, TypeOK, Net, Newest
  <2>4. Net'
    BY <1>1, <2>1, GoodStays, SMT DEF SiteInit, TypeOK, Net
  <2> QED BY <2>3, <2>4
<1>2. CASE Check
  <2>1. UNCHANGED snaps
    BY <1>2 DEF Check
  <2>3. TypeOK'
    BY <1>2, <2>1, GoodStays, SMT DEF Check, TypeOK, Net, Newest, Snapshot
  <2>4. Net'
    BY <1>2, <2>1, GoodStays, SMT DEF Check, TypeOK, Net
  <2> QED BY <2>3, <2>4
<1>3. CASE Dump
  <2>1. PICK whole \in BOOLEAN :
          /\ snaps' = Append(snaps, [schema |-> db.schema, rows |-> db.rows, whole |-> whole])
          /\ (whole /\ UNCHANGED hit) \/ (~whole /\ Hit("dump"))
    BY <1>3, Zenon DEF Dump
  <2> DEFINE e == [schema |-> db.schema, rows |-> db.rows, whole |-> whole]
  <2>2. e \in Snapshot /\ e.whole = whole /\ e.schema = db.schema
    <3>1. db.schema \in Schemas /\ db.rows \in SUBSET Rows
      BY SMT DEF TypeOK
    <3> QED
      BY <3>1, Zenon DEF Snapshot
  <2>3. snaps \in Seq(Snapshot) /\ snaps' = Append(snaps, e)
    BY <2>1, Zenon DEF TypeOK, Snapshot
  <2>4. snaps' \in Seq(Snapshot) /\ snaps' # <<>> /\ Newest' = e
    BY <2>2, <2>3, AppendSnapshot DEF Newest
  <2>5. Good => Good'
    <3> SUFFICES ASSUME NEW i \in DOMAIN snaps, Whole(snaps[i]) PROVE Good'
      BY DEF Good
    <3>1. i \in DOMAIN snaps' /\ snaps'[i] = snaps[i]
      BY <2>2, <2>3, AppendSnapshot
    <3> QED
      BY <3>1 DEF Good, Whole
  <2>6. e.whole /\ db.schema \in Builds => Good'
    <3>1. Len(snaps) + 1 \in DOMAIN snaps' /\ Newest' = snaps'[Len(snaps) + 1]
      BY <2>2, <2>3, AppendSnapshot, AppendProperties, SMT DEF Newest
    <3> QED
      BY <2>2, <2>4, <3>1, Zenon DEF Good, Whole
  <2>7. hit' \subseteq Faults
    BY <2>1, HitTyped, Zenon DEF TypeOK
  <2>8. /\ pc = "dump" /\ pc' = "verify"
        /\ UNCHANGED <<build, web, maint, marker, db, ops, written, early>>
    BY <1>3 DEF Dump
  <2>9. TypeOK'
    BY <2>4, <2>7, <2>8, SMT DEF TypeOK, Snapshot
  <2>10. pc' = "verify" /\ Newest'.whole => Good'
    BY <2>2, <2>4, <2>5, <2>6, <2>8, SMT DEF TypeOK, Net
  <2>11. Net'
    BY <2>4, <2>5, <2>8, <2>10, SMT DEF Net
  <2> QED BY <2>9, <2>11
<1>4. CASE Verify
  <2>1. CASE Newest.whole
    BY <1>4, <2>1, GoodStays, SMT DEF Verify, TypeOK, Net, Newest
  <2>2. CASE ~Newest.whole
    <3>1. snaps \in Seq(Snapshot) /\ snaps # <<>>
      BY <1>4 DEF Verify, TypeOK, Net, Snapshot
    <3>2. snaps' = SubSeq(snaps, 1, Len(snaps) - 1) /\ snaps' \in Seq(Snapshot)
      BY <1>4, <2>2, <3>1, DropLast DEF Verify
    <3>3. Good => Good'
      BY <2>2, <3>1, <3>2, DropLast, Zenon DEF Good, Whole, Newest
    <3>4. /\ pc' = "failed"
          /\ UNCHANGED <<build, web, maint, marker, db, ops, hit, written, early>>
      BY <1>4, <2>2 DEF Verify
    <3>5. TypeOK'
      BY <3>2, <3>4, SMT DEF TypeOK, Snapshot
    <3>6. Net'
      BY <3>3, <3>4, SMT DEF Net
    <3> QED BY <3>5, <3>6
  <2> QED BY <2>1, <2>2
<1>5. CASE MaintenanceOn
  <2>1. UNCHANGED snaps
    BY <1>5 DEF MaintenanceOn, SetMaintenance
  <2>2. hit' \subseteq Faults
    BY <1>5, HitTyped DEF MaintenanceOn, SetMaintenance, Hit, TypeOK
  <2>3. TypeOK'
    <3>1. maint' \in BOOLEAN
      BY <1>5, Zenon DEF MaintenanceOn, SetMaintenance, TypeOK
    <3> QED
      BY <1>5, <2>1, <2>2, <3>1, GoodStays, SMT DEF MaintenanceOn, SetMaintenance, TypeOK, Net, Newest
  <2>4. Net'
    BY <1>5, <2>1, GoodStays, SMT DEF MaintenanceOn, SetMaintenance, TypeOK, Net
  <2> QED BY <2>3, <2>4
<1>6. ASSUME NEW stage \in Stages, Run(stage) PROVE IInv'
  <2>1. UNCHANGED snaps
    BY <1>6 DEF Run, After
  <2>3. TypeOK'
    BY <1>6, <2>1, GoodStays, SMT DEF Run, After, TypeOK, Net, Newest, Snapshot
  <2>4. Net'
    BY <1>6, <2>1, GoodStays, SMT DEF Run, After, TypeOK, Net
  <2> QED BY <2>3, <2>4
<1>7. CASE MaintenanceOff
  <2>1. UNCHANGED snaps
    BY <1>7 DEF MaintenanceOff, SetMaintenance
  <2>2. hit' \subseteq Faults
    BY <1>7, HitTyped DEF MaintenanceOff, SetMaintenance, Hit, TypeOK
  <2>3. TypeOK'
    <3>1. maint' \in BOOLEAN
      BY <1>7, Zenon DEF MaintenanceOff, SetMaintenance, TypeOK
    <3> QED
      BY <1>7, <2>1, <2>2, <3>1, GoodStays, SMT DEF MaintenanceOff, SetMaintenance, TypeOK, Net, Newest
  <2>4. Net'
    BY <1>7, <2>1, GoodStays, SMT DEF MaintenanceOff, SetMaintenance, TypeOK, Net
  <2> QED BY <2>3, <2>4
<1>8. CASE Mark
  <2>1. UNCHANGED snaps
    BY <1>8 DEF Mark
  <2>3. TypeOK'
    BY <1>8, <2>1, GoodStays, SMT DEF Mark, TypeOK, Net, Newest, Snapshot
  <2>4. Net'
    BY <1>8, <2>1, GoodStays, SMT DEF Mark, TypeOK, Net
  <2> QED BY <2>3, <2>4
<1>9. CASE Prune
  <2>1. snaps' \in Seq(Snapshot)
    <3>1. snaps \in Seq(Snapshot) /\ Len(snaps) \in Nat
      BY SMT DEF TypeOK, Snapshot
    <3> DEFINE n == IF Len(snaps) > Retention THEN Len(snaps) - Retention + 1 ELSE 1
    <3>2. n \in Nat \ {0} /\ n <= Len(snaps) + 1
      BY <3>1, SMT
    <3> QED
      BY <1>9, <3>1, <3>2, KeepLast DEF Prune, KeepNewest
  <2>2. /\ pc = "prune" /\ pc' = "done"
        /\ UNCHANGED <<build, web, maint, marker, db, ops, hit, written, early>>
    BY <1>9 DEF Prune
  <2>3. db.schema \in Builds
    BY <2>2 DEF TypeOK, Net
  <2>4. TypeOK'
    BY <2>1, <2>2, SMT DEF TypeOK, Snapshot
  <2>5. Net'
    BY <2>2, <2>3, SMT DEF Net
  <2> QED BY <2>4, <2>5
<1>10. CASE DropTables
  <2>1. UNCHANGED snaps
    BY <1>10 DEF DropTables
  <2>2. hit' \subseteq Faults
    BY <1>10, HitTyped DEF DropTables, Hit, TypeOK
  <2>3. TypeOK'
    BY <1>10, <2>1, <2>2, GoodStays, SMT DEF DropTables, TypeOK, Net, Newest, Snapshot
  <2>4. Net'
    BY <1>10, <2>1, GoodStays, SMT DEF DropTables, TypeOK, Net
  <2> QED BY <2>3, <2>4
<1>11. CASE LoadSnapshot
  <2>1. UNCHANGED snaps
    BY <1>11 DEF LoadSnapshot
  <2>2. hit' \subseteq Faults
    BY <1>11, HitTyped DEF LoadSnapshot, Hit, TypeOK
  <2>3. TypeOK'
    <3>1. Newest \in Snapshot
      BY <1>11, NewestTyped, SMT DEF LoadSnapshot, TypeOK
    <3>2. db' \in [schema : Schemas, rows : SUBSET Rows]
      BY <1>11, <3>1, SMT DEF LoadSnapshot, Snapshot
    <3> QED
      BY <1>11, <2>1, <2>2, <3>2, GoodStays, SMT DEF LoadSnapshot, TypeOK, Net, Newest
  <2>4. Net'
    BY <1>11, <2>1, GoodStays, SMT DEF LoadSnapshot, TypeOK, Net
  <2> QED BY <2>3, <2>4
<1>12. CASE Report
  <2>1. UNCHANGED snaps
    BY <1>12 DEF Report
  <2>3. TypeOK'
    BY <1>12, <2>1, GoodStays, SMT DEF Report, TypeOK, Net, Newest, Snapshot
  <2>4. Net'
    BY <1>12, <2>1, GoodStays, SMT DEF Report, TypeOK, Net
  <2> QED BY <2>3, <2>4
<1>13. CASE StartServices
  <2>1. UNCHANGED snaps
    BY <1>13 DEF StartServices
  <2>3. TypeOK'
    BY <1>13, <2>1, GoodStays, SMT DEF StartServices, TypeOK, Net, Newest, Snapshot
  <2>4. Net'
    BY <1>13, <2>1, GoodStays, SMT DEF StartServices, TypeOK, Net
  <2> QED BY <2>3, <2>4
<1>14. ASSUME NEW row \in Rows, Visit(row) PROVE IInv'
  <2>1. UNCHANGED snaps
    BY <1>14 DEF Visit
  <2>3. TypeOK'
    BY <1>14, <2>1, GoodStays, SMT DEF Visit, TypeOK, Net, Newest, Snapshot
  <2>4. Net'
    BY <1>14, <2>1, GoodStays, SMT DEF Visit, TypeOK, Net
  <2> QED BY <2>3, <2>4
<1>15. ASSUME NEW b \in Builds, Deploy(b) PROVE IInv'
  <2>1. UNCHANGED snaps
    BY <1>15 DEF Deploy, Operate
  <2>3. TypeOK'
    BY <1>15, <2>1, GoodStays, SMT DEF Deploy, Operate, TypeOK, Net, Newest, Snapshot
  <2>4. Net'
    BY <1>15, <2>1, GoodStays, SMT DEF Deploy, Operate, TypeOK, Net
  <2> QED BY <2>3, <2>4
<1>16. CASE RestartMigrate
  <2>1. UNCHANGED snaps
    BY <1>16 DEF RestartMigrate, Operate
  <2>3. TypeOK'
    BY <1>16, <2>1, GoodStays, SMT DEF RestartMigrate, Operate, TypeOK, Net, Newest, Snapshot
  <2>4. Net'
    BY <1>16, <2>1, GoodStays, SMT DEF RestartMigrate, Operate, TypeOK, Net
  <2> QED BY <2>3, <2>4
<1>17. CASE Boot
  <2>1. UNCHANGED snaps
    BY <1>17 DEF Boot, Operate
  <2>2. hit' \subseteq Faults
    BY <1>17, HitTyped DEF Boot, Operate, Hit, TypeOK
  <2>3. TypeOK'
    BY <1>17, <2>1, <2>2, GoodStays, SMT DEF Boot, Operate, TypeOK, Net, Newest, Snapshot
  <2>4. Net'
    BY <1>17, <2>1, GoodStays, SMT DEF Boot, Operate, TypeOK, Net
  <2> QED BY <2>3, <2>4
<1>18. CASE LoseDatabase
  <2>1. UNCHANGED snaps
    BY <1>18 DEF LoseDatabase
  <2>2. hit' \subseteq Faults
    BY <1>18, HitTyped DEF LoseDatabase, Hit, TypeOK
  <2>3. TypeOK'
    BY <1>18, <2>1, <2>2, GoodStays, SMT DEF LoseDatabase, TypeOK, Net, Newest, Snapshot
  <2>4. Net'
    BY <1>18, <2>1, GoodStays, SMT DEF LoseDatabase, TypeOK, Net
  <2> QED BY <2>3, <2>4
<1>19. CASE Reinstall
  <2>1. UNCHANGED snaps
    BY <1>19 DEF Reinstall
  <2>2. \/ db' = [schema |-> build, rows |-> {}]
        \/ \E i \in DOMAIN snaps :
             Whole(snaps[i]) /\ db' = [schema |-> snaps[i].schema, rows |-> snaps[i].rows]
    BY <1>19, Zenon DEF Reinstall
  <2>3. /\ db' \in [schema : Schemas, rows : SUBSET Rows]
        /\ db'.schema \in Builds
    <3>1. \A i \in DOMAIN snaps : snaps[i] \in Snapshot
      <4>1. snaps \in Seq(Snapshot)
        BY DEF TypeOK, Snapshot
      <4> QED
        BY <4>1, ElementOfSeq, LenProperties
    <3> QED
      BY <2>2, <3>1, SMT DEF TypeOK, Whole, Snapshot
  <2>4. TypeOK'
    BY <1>19, <2>1, <2>3, GoodStays, SMT DEF Reinstall, TypeOK, Newest
  <2>5. Net'
    BY <1>19, <2>1, <2>3, GoodStays, SMT DEF Reinstall, TypeOK, Net
  <2> QED BY <2>4, <2>5
<1>20. CASE UNCHANGED vars
  BY <1>20, GoodStays, SMT DEF vars, TypeOK, Net, Newest
<1> QED
  BY <1>1, <1>2, <1>3, <1>4, <1>5, <1>6, <1>7, <1>8, <1>9, <1>10, <1>11, <1>12, <1>13, <1>14, <1>15, <1>16, <1>17, <1>18, <1>19, <1>20, SMT DEF Next, UnitStep

-----------------------------------------------------------------------------
\* The invariant that the theorems below follow from.
THEOREM Inductive == Spec => []IInv
<1> QED
  BY InitIInv, StepIInv, PTL DEF Spec

\* Every variable keeps its type (TypeOK), at any retention, number of builds and
\* number of operations.
THEOREM TypeCorrect == Spec => []TypeOK
<1>1. IInv => TypeOK
  BY DEF IInv
<1> QED
  BY <1>1, Inductive, PTL

\* While the database is part of two builds' or is being restored, a whole
\* snapshot of one build's is on disk (RecoveryPoint): pruning follows only a
\* success, and a success leaves nothing to go back from.
THEOREM RecoveryPointHolds == Spec => []RecoveryPoint
<1>1. IInv => RecoveryPoint
  BY DEF IInv, Net, RecoveryPoint, Good
<1> QED
  BY <1>1, Inductive, PTL

\* onSuccess writes the marker of a build whose schema the database has
\* (MarkerHonest), and no other step writes one.
THEOREM MarkerHonestHolds == Spec => MarkerHonest
<1>1. IInv /\ [Next]_vars => [marker' # marker => db'.schema = marker']_vars
  <2> SUFFICES ASSUME IInv, Next, marker' # marker PROVE db'.schema = marker'
    OBVIOUS
  <2>1. ~(SiteInit \/ Check \/ Dump \/ Verify \/ MaintenanceOn \/ MaintenanceOff \/ Prune)
    BY Zenon DEF SiteInit, Check, Dump, Verify, MaintenanceOn, MaintenanceOff, Prune
  <2>2. ~(DropTables \/ LoadSnapshot \/ Report \/ \E stage \in Stages : Run(stage))
    BY Zenon DEF DropTables, LoadSnapshot, Report, Run
  <2>3. ~(StartServices \/ (\E row \in Rows : Visit(row)) \/ \E b \in Builds : Deploy(b))
    BY Zenon DEF StartServices, Visit, Deploy
  <2>4. ~(RestartMigrate \/ Boot \/ LoseDatabase \/ Reinstall)
    BY Zenon DEF RestartMigrate, Boot, LoseDatabase, Reinstall
  <2>5. Mark
    BY <2>1, <2>2, <2>3, <2>4, Zenon DEF Next, UnitStep
  <2> QED
    BY <2>5 DEF Mark, IInv, Net
<1> QED
  BY <1>1, Inductive, PTL DEF Spec, MarkerHonest

-----------------------------------------------------------------------------
(***************************************************************************)
(* What visitors are owed.                                                 *)
(***************************************************************************)
Working == Stages \cup {"drop"}
Dumped  == UNION {snaps[i].rows : i \in DOMAIN snaps}
Sound   == hit \cap {"lost", "torn", "restore"} = {}

\* A database without tables is not dumped, and not migrated.
EmptyAt == db.schema = Empty => pc \in {"init", "check", "load", "loadOver", "report"} \cup Settled

\* What was saved is in a database that has tables; and while it may have to go back, in the newest snapshot
\* too, but for what came after it.
Saved ==
  Sound =>
    /\ pc # "loadOver"
    /\ db.schema # Empty => written \subseteq db.rows \cup early
    /\ pc \in {"verify", "maintain", "load"} \cup Working => written \subseteq Newest.rows \cup early

\* While nothing but migrations fails: a database that is not of one build has the maintenance page before it,
\* the newest snapshot is of the build that the marker names, and a migration that failed leaves the page.
CalmWeb ==
  /\ pc = "init" => web = None
  /\ web \in {None, build}
  /\ pc \in Working \cup {"load", "report", "failed"} => maint
  /\ VisitorsMatch
CalmData ==
  /\ db.schema = Mixed => pc \in Working
  /\ pc = "verify" => Newest.whole
  /\ pc \in {"verify", "maintain"} => Newest.schema = db.schema
  /\ pc \in Working \cup {"load"} => Newest.schema \in Builds /\ marker \in {None, Newest.schema}
  /\ pc \notin Working \cup {"load", "off", "mark"} => db.schema = Empty \/ marker \in {None, db.schema}
  /\ pc = "done" /\ ~maint => db.schema \in {build, Empty}
  /\ db.schema = Empty /\ pc # "load" => marker = None /\ snaps = <<>>
  /\ pc # "loadOver"
Calm == hit = {} => CalmWeb /\ CalmData


\* NoWriteLost, in the words above.
Kept == Sound => written \subseteq db.rows \cup early \cup Dumped

SInv == EmptyAt /\ Saved /\ Kept /\ Calm

-----------------------------------------------------------------------------
\* The history of the faults only grows.
LEMMA HitGrows ==
  ASSUME hit \subseteq hit'
  PROVE  (Sound' => Sound) /\ (hit' = {} => hit = {})
  BY DEF Sound

LEMMA HitSeen ==
  ASSUME NEW fault, Hit(fault)
  PROVE  hit' # {} /\ hit \subseteq hit' /\ (fault \in {"lost", "torn", "restore"} => ~Sound')
  BY Zenon DEF Hit, Sound

LEMMA SnapsStay ==
  ASSUME UNCHANGED snaps
  PROVE  Newest' = Newest /\ Dumped' = Dumped
  BY DEF Newest, Dumped

LEMMA NewestDumped ==
  ASSUME snaps \in Seq(Snapshot), snaps # <<>>
  PROVE  Newest.rows \subseteq Dumped
<1>1. Len(snaps) \in DOMAIN snaps
  BY LenProperties, SMT
<1> QED
  BY <1>1, Zenon DEF Newest, Dumped

\* The shapes that the values keep, for the provers.
LEMMA Shapes ==
  ASSUME IInv
  PROVE  /\ db = [schema |-> db.schema, rows |-> db.rows] /\ db.schema \in Schemas
         /\ snaps \in Seq(Snapshot) /\ build \in Builds
         /\ Empty \notin Builds /\ None \notin Builds /\ Mixed \notin Builds /\ Empty # Mixed
  BY SiteAssumption, SMT DEF IInv, TypeOK, Snapshot

LEMMA InitSInv == Init => SInv
<1> SUFFICES ASSUME Init PROVE SInv
  OBVIOUS
<1>1. snaps = <<>> /\ Dumped = {}
  BY SMT DEF Init, Dumped
<1> QED
  BY <1>1, SiteAssumption, SMT
  DEF Init, SInv, EmptyAt, Saved, Kept, Calm, CalmWeb, CalmData, VisitorsMatch, Working, Stages, Settled

LEMMA StepSInv == IInv /\ SInv /\ [Next]_vars => SInv'
<1> SUFFICES ASSUME IInv, SInv, [Next]_vars PROVE SInv'
  OBVIOUS
<1> USE Shapes, SiteAssumption DEF IInv, SInv, Goto, Stages, Settled, Working, history
<1>1. CASE SiteInit
  <2>1. UNCHANGED snaps /\ hit \subseteq hit'
    BY <1>1, Zenon DEF SiteInit
  <2>2. EmptyAt'
    BY <1>1, SMT DEF SiteInit, EmptyAt, Net
  <2>3. Saved'
    BY <1>1, <2>1, HitGrows, SnapsStay, SMT DEF SiteInit, Saved, EmptyAt
  <2>4. Kept'
    BY <1>1, <2>1, HitGrows, SnapsStay, SMT DEF SiteInit, Kept
  <2>5. Calm'
    BY <1>1, <2>1, HitGrows, SnapsStay, SMT DEF SiteInit, Calm, CalmWeb, CalmData, VisitorsMatch, Net, EmptyAt
  <2> QED BY <2>2, <2>3, <2>4, <2>5
<1>2. CASE Check
  <2>1. UNCHANGED snaps /\ hit \subseteq hit'
    BY <1>2, Zenon DEF Check
  <2>2. EmptyAt'
    BY <1>2, SMT DEF Check, EmptyAt, Net
  <2>3. Saved'
    BY <1>2, <2>1, HitGrows, SnapsStay, SMT DEF Check, Saved, EmptyAt
  <2>4. Kept'
    BY <1>2, <2>1, HitGrows, SnapsStay, SMT DEF Check, Kept
  <2>5. Calm'
    BY <1>2, <2>1, HitGrows, SnapsStay, SMT DEF Check, Calm, CalmWeb, CalmData, VisitorsMatch, Net, EmptyAt
  <2> QED BY <2>2, <2>3, <2>4, <2>5
<1>3. CASE Dump
  <2> DEFINE Taken(whole) == [schema |-> db.schema, rows |-> db.rows, whole |-> whole]
  <2>1. PICK whole \in BOOLEAN :
          /\ snaps' = Append(snaps, Taken(whole))
          /\ (whole /\ UNCHANGED hit) \/ (~whole /\ Hit("dump"))
    BY <1>3, Zenon DEF Dump
  <2>2. /\ pc = "dump" /\ pc' = "verify"
        /\ UNCHANGED <<build, web, maint, marker, db, ops, written, early>>
    BY <1>3 DEF Dump
  <2>3. /\ Taken(whole) \in Snapshot /\ Taken(whole).whole = whole
        /\ Taken(whole).schema = db.schema /\ Taken(whole).rows = db.rows
    <3>1. db.schema \in Schemas /\ db.rows \in SUBSET Rows
      BY SMT DEF TypeOK
    <3> QED
      BY <3>1, Zenon DEF Snapshot
  <2>4. Newest' = Taken(whole)
    BY <2>1, <2>3, AppendSnapshot DEF Newest
  <2>5. Dumped \subseteq Dumped'
    <3> SUFFICES ASSUME NEW i \in DOMAIN snaps, NEW r \in snaps[i].rows PROVE r \in Dumped'
      BY Zenon DEF Dumped
    <3>1. i \in DOMAIN snaps' /\ snaps'[i] = snaps[i]
      BY <2>1, <2>3, AppendSnapshot
    <3> QED
      BY <3>1, Zenon DEF Dumped
  <2>6. hit \subseteq hit' /\ (hit' = {} => whole)
    BY <2>1, HitSeen, Zenon
  <2>7. db.schema # Empty
    BY <2>2 DEF Net
  <2>8. EmptyAt'
    BY <2>2, <2>7, SMT DEF EmptyAt
  <2>9. Saved'
    BY <2>2, <2>3, <2>4, <2>6, <2>7, HitGrows, SMT DEF Saved
  <2>10. Kept'
    BY <2>2, <2>5, <2>6, HitGrows, SMT DEF Kept
  <2>11. Calm'
    BY <2>2, <2>3, <2>4, <2>6, <2>7, HitGrows, SMT DEF Calm, CalmWeb, CalmData, VisitorsMatch
  <2> QED BY <2>8, <2>9, <2>10, <2>11
<1>4. CASE Verify
  <2>1. CASE Newest.whole
    <3>1. /\ pc = "verify" /\ pc' = "maintain" /\ UNCHANGED snaps /\ hit \subseteq hit'
          /\ UNCHANGED <<build, web, maint, marker, db, hit, written, early>>
      BY <1>4, <2>1, Zenon DEF Verify
    <3>2. EmptyAt' /\ Saved' /\ Kept'
      BY <3>1, HitGrows, SnapsStay, SMT DEF EmptyAt, Saved, Kept
    <3>3. Calm'
      BY <3>1, SnapsStay, SMT DEF Calm, CalmWeb, CalmData, VisitorsMatch, EmptyAt
    <3> QED BY <3>2, <3>3
  <2>2. CASE ~Newest.whole
    <3>1. /\ pc = "verify" /\ pc' = "failed" /\ hit \subseteq hit'
          /\ UNCHANGED <<build, web, maint, marker, db, hit, written, early>>
      BY <1>4, <2>2, Zenon DEF Verify
    <3>2. db.schema # Empty /\ hit # {}
      BY <2>2, <3>1, SMT DEF EmptyAt, Calm, CalmData
    <3> QED
      BY <3>1, <3>2, HitGrows, SMT DEF EmptyAt, Saved, Kept, Calm
  <2> QED BY <2>1, <2>2
<1>5. CASE MaintenanceOn
  <2>1. UNCHANGED snaps /\ hit \subseteq hit'
    BY <1>5, Zenon DEF MaintenanceOn, SetMaintenance, Hit
  <2>2. EmptyAt'
    BY <1>5, SMT DEF MaintenanceOn, SetMaintenance, Hit, EmptyAt, Net
  <2>3. Saved'
    BY <1>5, <2>1, HitGrows, SnapsStay, SMT DEF MaintenanceOn, SetMaintenance, Hit, Saved, EmptyAt
  <2>4. Kept'
    BY <1>5, <2>1, HitGrows, SnapsStay, SMT DEF MaintenanceOn, SetMaintenance, Hit, Kept
  <2>5. Calm'
    <3>1. hit' = {} => maint' = TRUE
      BY <1>5, HitSeen, Zenon DEF MaintenanceOn, SetMaintenance
    <3>2. hit' = {} => Newest.schema \in Builds
      BY <1>5, <2>1, HitGrows, SMT DEF MaintenanceOn, Calm, CalmData, EmptyAt, Schemas
    <3> QED
      BY <1>5, <2>1, <3>1, <3>2, HitGrows, SnapsStay, SMT
      DEF MaintenanceOn, Calm, CalmWeb, CalmData, VisitorsMatch, EmptyAt
  <2> QED BY <2>2, <2>3, <2>4, <2>5
<1>6. ASSUME NEW stage \in Stages, Run(stage) PROVE SInv'
  <2>1. UNCHANGED snaps /\ hit \subseteq hit'
    BY <1>6, Zenon DEF Run, After
  <2>2. EmptyAt'
    BY <1>6, SMT DEF Run, After, EmptyAt, Net
  <2>3. Saved'
    BY <1>6, <2>1, HitGrows, SnapsStay, SMT DEF Run, After, Saved, EmptyAt
  <2>4. Kept'
    BY <1>6, <2>1, HitGrows, SnapsStay, SMT DEF Run, After, Kept
  <2>5. Calm'
    BY <1>6, <2>1, HitGrows, SnapsStay, SMT DEF Run, After, Calm, CalmWeb, CalmData, VisitorsMatch, Net, EmptyAt
  <2> QED BY <2>2, <2>3, <2>4, <2>5
<1>7. CASE MaintenanceOff
  <2>1. UNCHANGED snaps /\ hit \subseteq hit'
    BY <1>7, Zenon DEF MaintenanceOff, SetMaintenance, Hit
  <2>2. EmptyAt'
    BY <1>7, SMT DEF MaintenanceOff, SetMaintenance, Hit, EmptyAt, Net
  <2>3. Saved'
    BY <1>7, <2>1, HitGrows, SnapsStay, SMT DEF MaintenanceOff, SetMaintenance, Hit, Saved, EmptyAt
  <2>4. Kept'
    BY <1>7, <2>1, HitGrows, SnapsStay, SMT DEF MaintenanceOff, SetMaintenance, Hit, Kept
  <2>5. Calm'
    BY <1>7, <2>1, HitGrows, SnapsStay, SMT DEF MaintenanceOff, SetMaintenance, Hit, Calm, CalmWeb, CalmData, VisitorsMatch, Net, EmptyAt
  <2> QED BY <2>2, <2>3, <2>4, <2>5
<1>8. CASE Mark
  <2>1. UNCHANGED snaps /\ hit \subseteq hit'
    BY <1>8, Zenon DEF Mark
  <2>2. EmptyAt'
    BY <1>8, SMT DEF Mark, EmptyAt, Net
  <2>3. Saved'
    BY <1>8, <2>1, HitGrows, SnapsStay, SMT DEF Mark, Saved, EmptyAt
  <2>4. Kept'
    BY <1>8, <2>1, HitGrows, SnapsStay, SMT DEF Mark, Kept
  <2>5. Calm'
    BY <1>8, <2>1, HitGrows, SnapsStay, SMT DEF Mark, Calm, CalmWeb, CalmData, VisitorsMatch, Net, EmptyAt
  <2> QED BY <2>2, <2>3, <2>4, <2>5
<1>9. CASE Prune
  <2>1. /\ pc = "prune" /\ pc' = "done" /\ hit \subseteq hit'
        /\ UNCHANGED <<build, web, maint, marker, db, hit, written, early>>
    BY <1>9, Zenon DEF Prune
  <2>2. db.schema = build /\ db.schema # Empty /\ db.schema # Mixed
    BY <2>1 DEF Net
  <2>3. EmptyAt' /\ Saved' /\ Kept'
    BY <2>1, <2>2, HitGrows, SMT DEF EmptyAt, Saved, Kept
  <2>4. Calm'
    BY <2>1, <2>2, SMT DEF Calm, CalmWeb, CalmData, VisitorsMatch
  <2> QED BY <2>3, <2>4
<1>10. CASE DropTables
  <2>1. UNCHANGED snaps /\ hit \subseteq hit'
    BY <1>10, Zenon DEF DropTables, Hit
  <2>0. Hit("restore") => ~Sound' /\ hit' # {}
    BY HitSeen
  <2>7. snaps # <<>> /\ Newest.rows \subseteq Dumped
    BY <1>10, NewestDumped, SMT DEF DropTables, TypeOK
  <2>2. EmptyAt'
    BY <1>10, SMT DEF DropTables, Hit, EmptyAt, Net
  <2>3. Saved'
    BY <1>10, <2>0, <2>1, <2>7, HitGrows, SnapsStay, SMT DEF DropTables, Saved, EmptyAt
  <2>4. Kept'
    BY <1>10, <2>0, <2>1, <2>7, HitGrows, SnapsStay, SMT DEF DropTables, Kept, Saved
  <2>5. Calm'
    BY <1>10, <2>0, <2>1, <2>7, HitGrows, SnapsStay, SMT DEF DropTables, Calm, CalmWeb, CalmData, VisitorsMatch, Net, EmptyAt
  <2> QED BY <2>2, <2>3, <2>4, <2>5
<1>11. CASE LoadSnapshot
  <2>1. UNCHANGED snaps /\ hit \subseteq hit'
    BY <1>11, Zenon DEF LoadSnapshot, Hit
  <2>0. Hit("restore") => ~Sound' /\ hit' # {}
    BY HitSeen
  <2>7. snaps # <<>> /\ Newest.rows \subseteq Dumped
    BY <1>11, NewestDumped, SMT DEF LoadSnapshot, TypeOK
  <2>2. EmptyAt'
    BY <1>11, SMT DEF LoadSnapshot, Hit, EmptyAt, Net
  <2>3. Saved'
    BY <1>11, <2>0, <2>1, <2>7, HitGrows, SnapsStay, SMT DEF LoadSnapshot, Saved, EmptyAt
  <2>4. Kept'
    BY <1>11, <2>0, <2>1, <2>7, HitGrows, SnapsStay, SMT DEF LoadSnapshot, Kept, Saved
  <2>5. Calm'
    BY <1>11, <2>0, <2>1, <2>7, HitGrows, SnapsStay, SMT DEF LoadSnapshot, Calm, CalmWeb, CalmData, VisitorsMatch, Net, EmptyAt
  <2> QED BY <2>2, <2>3, <2>4, <2>5
<1>12. CASE Report
  <2>1. UNCHANGED snaps /\ hit \subseteq hit'
    BY <1>12, Zenon DEF Report
  <2>2. EmptyAt'
    BY <1>12, SMT DEF Report, EmptyAt, Net
  <2>3. Saved'
    BY <1>12, <2>1, HitGrows, SnapsStay, SMT DEF Report, Saved, EmptyAt
  <2>4. Kept'
    BY <1>12, <2>1, HitGrows, SnapsStay, SMT DEF Report, Kept
  <2>5. Calm'
    BY <1>12, <2>1, HitGrows, SnapsStay, SMT DEF Report, Calm, CalmWeb, CalmData, VisitorsMatch, Net, EmptyAt
  <2> QED BY <2>2, <2>3, <2>4, <2>5
<1>13. CASE StartServices
  <2>1. UNCHANGED snaps /\ hit \subseteq hit'
    BY <1>13, Zenon DEF StartServices
  <2>2. EmptyAt'
    BY <1>13, SMT DEF StartServices, EmptyAt, Net
  <2>3. Saved'
    BY <1>13, <2>1, HitGrows, SnapsStay, SMT DEF StartServices, Saved, EmptyAt
  <2>4. Kept'
    BY <1>13, <2>1, HitGrows, SnapsStay, SMT DEF StartServices, Kept
  <2>5. Calm'
    BY <1>13, <2>1, HitGrows, SnapsStay, SMT DEF StartServices, Calm, CalmWeb, CalmData, VisitorsMatch, Net, EmptyAt
  <2> QED BY <2>2, <2>3, <2>4, <2>5
<1>14. ASSUME NEW row \in Rows, Visit(row) PROVE SInv'
  <2>1. UNCHANGED snaps /\ hit \subseteq hit'
    BY <1>14, Zenon DEF Visit, Exposed
  <2>2. EmptyAt'
    BY <1>14, SMT DEF Visit, Exposed, EmptyAt, Net
  <2>3. Saved'
    BY <1>14, <2>1, HitGrows, SnapsStay, SMT DEF Visit, Exposed, Saved, EmptyAt
  <2>4. Kept'
    BY <1>14, <2>1, HitGrows, SnapsStay, SMT DEF Visit, Exposed, Kept
  <2>5. Calm'
    BY <1>14, <2>1, HitGrows, SnapsStay, SMT DEF Visit, Exposed, Calm, CalmWeb, CalmData, VisitorsMatch, Net, EmptyAt
  <2> QED BY <2>2, <2>3, <2>4, <2>5
<1>15. ASSUME NEW b \in Builds, Deploy(b) PROVE SInv'
  <2>1. UNCHANGED snaps /\ hit \subseteq hit'
    BY <1>15, Zenon DEF Deploy, Operate
  <2>2. EmptyAt'
    BY <1>15, SMT DEF Deploy, Operate, EmptyAt, Net
  <2>3. Saved'
    BY <1>15, <2>1, HitGrows, SnapsStay, SMT DEF Deploy, Operate, Saved, EmptyAt
  <2>4. Kept'
    BY <1>15, <2>1, HitGrows, SnapsStay, SMT DEF Deploy, Operate, Kept
  <2>5. Calm'
    BY <1>15, <2>1, HitGrows, SnapsStay, SMT DEF Deploy, Operate, Calm, CalmWeb, CalmData, VisitorsMatch, Net, EmptyAt
  <2> QED BY <2>2, <2>3, <2>4, <2>5
<1>16. CASE RestartMigrate
  <2>1. UNCHANGED snaps /\ hit \subseteq hit'
    BY <1>16, Zenon DEF RestartMigrate, Operate
  <2>2. EmptyAt'
    BY <1>16, SMT DEF RestartMigrate, Operate, EmptyAt, Net
  <2>3. Saved'
    BY <1>16, <2>1, HitGrows, SnapsStay, SMT DEF RestartMigrate, Operate, Saved, EmptyAt
  <2>4. Kept'
    BY <1>16, <2>1, HitGrows, SnapsStay, SMT DEF RestartMigrate, Operate, Kept
  <2>5. Calm'
    BY <1>16, <2>1, HitGrows, SnapsStay, SMT DEF RestartMigrate, Operate, Calm, CalmWeb, CalmData, VisitorsMatch, Net, EmptyAt
  <2> QED BY <2>2, <2>3, <2>4, <2>5
<1>17. CASE Boot
  <2>1. UNCHANGED snaps /\ hit \subseteq hit'
    BY <1>17, Zenon DEF Boot, Operate, Hit
  <2>0. (Hit("torn") => ~Sound') /\ (Hit("crash") => hit' # {}) /\ (Hit("torn") => hit' # {})
    BY HitSeen
  <2>2. EmptyAt'
    BY <1>17, SMT DEF Boot, Operate, Hit, EmptyAt, Net
  <2>3. Saved'
    BY <1>17, <2>0, <2>1, HitGrows, SnapsStay, SMT DEF Boot, Operate, Saved, EmptyAt
  <2>4. Kept'
    BY <1>17, <2>0, <2>1, HitGrows, SnapsStay, SMT DEF Boot, Operate, Kept
  <2>5. Calm'
    BY <1>17, <2>0, <2>1, HitGrows, SnapsStay, SMT DEF Boot, Operate, Calm, CalmWeb, CalmData, VisitorsMatch, Net, EmptyAt
  <2> QED BY <2>2, <2>3, <2>4, <2>5
<1>18. CASE LoseDatabase
  <2>1. UNCHANGED snaps /\ hit \subseteq hit'
    BY <1>18, Zenon DEF LoseDatabase, Hit
  <2>0. Hit("lost") => ~Sound' /\ hit' # {}
    BY HitSeen
  <2>2. EmptyAt'
    BY <1>18, SMT DEF LoseDatabase, Hit, EmptyAt, Net
  <2>3. Saved'
    BY <1>18, <2>0, <2>1, HitGrows, SnapsStay, SMT DEF LoseDatabase, Saved, EmptyAt
  <2>4. Kept'
    BY <1>18, <2>0, <2>1, HitGrows, SnapsStay, SMT DEF LoseDatabase, Kept
  <2>5. Calm'
    BY <1>18, <2>0, <2>1, HitGrows, SnapsStay, SMT DEF LoseDatabase, Calm, CalmWeb, CalmData, VisitorsMatch, Net, EmptyAt
  <2> QED BY <2>2, <2>3, <2>4, <2>5
<1>19. CASE Reinstall
  <2>1. /\ pc \in Settled /\ db.schema = Empty /\ UNCHANGED snaps /\ hit \subseteq hit'
        /\ UNCHANGED <<build, pc, web, maint, marker, hit, early>>
        /\ written' = written \cap db'.rows
    BY <1>19, Zenon DEF Reinstall
  <2>2. Good \/ db' = [schema |-> build, rows |-> {}]
    BY <1>19, Zenon DEF Reinstall, Good
  <2>3. EmptyAt'
    BY <2>1, SMT DEF EmptyAt
  <2>4. Saved' /\ Kept'
    BY <2>1, HitGrows, SMT DEF Saved, Kept
  <2>5. Calm'
    <3> SUFFICES ASSUME hit = {} PROVE CalmWeb' /\ CalmData'
      BY <2>1 DEF Calm
    <3>1. CalmWeb /\ CalmData
      BY DEF Calm
    <3>2. marker = None /\ snaps = <<>>
      BY <2>1, <3>1, SMT DEF CalmData
    <3>3. ~Good
      BY <3>2, SMT DEF Good
    <3>4. db'.schema = build
      BY <2>2, <3>3
    <3> QED
      BY <2>1, <3>1, <3>2, <3>4, SMT DEF CalmWeb, CalmData, VisitorsMatch
  <2> QED BY <2>3, <2>4, <2>5
<1>20. CASE UNCHANGED vars
  <2>1. UNCHANGED snaps /\ hit \subseteq hit'
    BY <1>20 DEF vars
  <2> QED
    BY <1>20, <2>1, SnapsStay, SMT DEF vars, EmptyAt, Saved, Sound, Kept, Calm, CalmWeb, CalmData, VisitorsMatch
<1> QED
  BY <1>1, <1>2, <1>3, <1>4, <1>5, <1>6, <1>7, <1>8, <1>9, <1>10, <1>11, <1>12, <1>13, <1>14, <1>15, <1>16, <1>17, <1>18, <1>19, <1>20, SMT DEF Next, UnitStep

\* What visitors are owed (VisitorsSafe), at any retention, number of builds, rows, faults and operations: what
\* they saved is in the database or in a snapshot that is kept, and while nothing but migrations fails they meet
\* no schema but that of the code that serves them.
THEOREM VisitorsSafeHolds == Spec => []VisitorsSafe
<1>1. SInv => VisitorsSafe
  BY SMT DEF SInv, Kept, Sound, Dumped, Calm, CalmWeb, NoWriteLost, VisitorsKeptOff, VisitorsSafe
<1> QED
  BY <1>1, InitSInv, StepSInv, Inductive, PTL DEF Spec
=============================================================================
