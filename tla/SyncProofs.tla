----------------------------- MODULE SyncProofs -----------------------------
(***************************************************************************)
(* Proofs about Sync, for any entries, majors, edits, syncs and faults.    *)
(***************************************************************************)
EXTENDS Sync, TLAPS

FlakeWritten == {"stageA", "lock", "stageLock", "handover", "planB", "writeB", "stageB", "tools",
                 "stageTools", "relock", "stageEnd", "after"}
FlakeLocked  == FlakeWritten \ {"stageA", "lock"}
AllPlanned   == {"writeB", "stageB", "tools", "stageTools", "relock", "stageEnd", "after"}
ToolsLocked  == {"stageTools", "relock", "stageEnd", "after"}
Unstaged     == {"writeA", "stageA", "writeB", "stageB"}

\* Only a whole file has a local region; flake.nix is always on.
ConfigInv == want[Flake] = "on" /\ \A e \in Entries : region[e] => Kind[e] = "whole"

\* What is still to be written is what the plan of the tree as it is now has; once phase B
\* is planned, nothing else is.
PlanInv ==
  /\ \A e \in Entries : plan[e] \in {Keep, Written, Item(e, Whole)[2]}
  /\ pc \notin {"writeA", "writeB"} => \A e \in Entries : plan[e] \in {Keep, Written}
  /\ pc \in AllPlanned => \A e \in Entries : Item(e, Whole)[2] \in {Keep, plan[e]}
  /\ pc = "writeA" => text[Flake] = major \/ plan[Flake] = major
  /\ pc \in FlakeWritten => text[Flake] = major

\* Each lock holds from the step that makes it to the end of the sync.
LockInv ==
  /\ pc \in FlakeLocked => flakeLock[1] = major
  /\ pc \in ToolsLocked => toolsLock = major
  /\ pc = "after" => Untracked = {}

\* What was rendered is tracked, or about to be staged.
StageInv ==
  ~killed => \A e \in Entries :
    text[e] \in Majors => e \in tracked \/ (pc \in Unstaged /\ plan[e] = Written)

\* A flake.lock that changed is remembered until the bench's lock is made anew.
RelockInv ==
  /\ pc = "idle" => ~changed /\ ~force
  /\ ~owed /\ flakeLock[2] = 0 =>
       /\ changed \/ benchLock \in {NoLock, flakeLock}
       /\ pc \in {"stageEnd", "after"} => benchLock = flakeLock

\* Nothing is left to do after a sync that ended well, nor in the one after it.
LastInv ==
  /\ last \in {Clean, Drift} =>
       /\ text[Flake] = major /\ flakeLock[1] = major /\ toolsLock = major
       /\ ~changed /\ ~force
       /\ \A e \in Entries : Item(e, Whole)[2] = Keep /\ plan[e] = Keep
  /\ last = Clean => Untracked = {} /\ \A e \in Entries : Item(e, Whole)[1] = Clean

IInv == TypeOK /\ ConfigInv /\ PlanInv /\ LockInv /\ StageInv /\ RelockInv /\ LastInv /\ RelockedInRun

-----------------------------------------------------------------------------
(***************************************************************************)
(* What the plan has for an entry.                                         *)
(***************************************************************************)
Codes == Clean..Environment

LEMMA ItemIs ==
  ASSUME NEW e \in Entries, NEW d, major \in Majors, Kind[e] \in {"whole", "bare", "block", "seed"},
         want[e] \in {"on", "idle", "off"}
  PROVE  \/ Item(e, d) \in {Nothing, <<Invalid, Keep>>, <<Environment, Keep>>, <<Drift, Keep>>}
         \/ Item(e, d) = <<Drift, major>> /\ want[e] = "on"
         \/ Item(e, d) \in {<<Drift, Missing>>, <<Drift, Own>>} /\ want[e] # "on"
<1> USE DEF Nothing
<1>1. CASE want[e] = "on"
  BY <1>1, Zenon DEF Item, Live, To
<1>2. CASE want[e] = "idle"
  BY <1>2, SMT DEF Item, Absent
<1>3. CASE want[e] = "off"
  <2>1. CASE Kind[e] = "whole"
    BY <1>3, <2>1, SMT DEF Item, Retract, RetractWhole
  <2>2. CASE Kind[e] = "bare"
    BY <1>3, <2>2, SMT DEF Item, Retract, RetractMarked
  <2>3. CASE Kind[e] = "block"
    BY <1>3, <2>3, SMT DEF Item, Retract, RetractMarked
  <2>4. CASE Kind[e] = "seed"
    BY <1>3, <2>4, SMT DEF Item, Retract
  <2> QED
    BY <2>1, <2>2, <2>3, <2>4
<1> QED
  BY <1>1, <1>2, <1>3

LEMMA ItemShape ==
  ASSUME TypeOK, NEW e \in Entries, NEW d
  PROVE  /\ Item(e, d)[1] \in Codes
         /\ Item(e, d)[2] \in Texts \cup {Keep}
         /\ Item(e, d)[1] = Clean => Item(e, d)[2] = Keep
  BY SyncAssumption, ItemIs, SMT
  DEF TypeOK, Nothing, Codes, Texts, Majors, Keep, Own, Missing, Edited, Clean, Drift, Invalid, Environment

\* It depends on the entry's own file and on the configuration.
LEMMA ItemSame ==
  ASSUME NEW e \in Entries, UNCHANGED config, force' = force \/ text[Flake] # Own,
         text'[e] = text[e], region'[e] = region[e]
  PROVE  Item(e, Whole)' = Item(e, Whole)
<1>1. UNCHANGED <<major, want, ever>>
  BY DEF config
<1>2. Live(e)' = Live(e)
  BY <1>1, SMT DEF Live, To
<1>3. Absent(e)' = Absent(e)
  BY <1>1, SMT DEF Absent, Header
<1>4. Retract(e, Whole)' = Retract(e, Whole)
  BY <1>1, SMT DEF Whole, Retract, RetractWhole, RetractMarked, Unknown, WasOn, Header
<1> QED
  BY <1>1, <1>2, <1>3, <1>4, SMT DEF Item

\* Writing what it says leaves nothing to write.
LEMMA ItemWritten ==
  ASSUME TypeOK, NEW e \in Entries, UNCHANGED <<config, force>>, Item(e, Whole)[2] # Keep,
         text'[e] = Item(e, Whole)[2]
  PROVE  Item(e, Whole)'[2] = Keep
<1> USE DEF Nothing, Header, Keep, Own, Missing, Edited, Drift, Clean, Invalid, Environment, Majors
<1>1. major \in Majors /\ UNCHANGED <<major, want, ever, force>> /\ Kind[e] \in {"whole", "bare", "block", "seed"}
  BY SyncAssumption DEF TypeOK, config
<1>2. CASE want[e] = "on"
  BY <1>1, <1>2, SMT DEF Item, Live, To
<1>3. CASE want[e] = "idle"
  BY <1>1, <1>3, SMT DEF Item, Absent
<1>4. CASE want[e] = "off"
  <2>1. CASE Kind[e] = "whole"
    BY <1>1, <1>4, <2>1, SMT DEF Item, Retract, RetractWhole
  <2>2. CASE Kind[e] = "bare"
    BY <1>1, <1>4, <2>2, SMT DEF Item, Retract, RetractMarked
  <2>3. CASE Kind[e] = "block"
    BY <1>1, <1>4, <2>3, SMT DEF Item, Retract, RetractMarked
  <2>4. CASE Kind[e] = "seed"
    BY <1>1, <1>4, <2>4, SMT DEF Item, Retract
  <2> QED
    BY <1>1, <2>1, <2>2, <2>3, <2>4
<1> QED
  BY <1>2, <1>3, <1>4 DEF TypeOK

\* It spares what is the app's.
LEMMA ItemSpares ==
  ASSUME TypeOK, NEW e \in Entries, Item(e, Whole)[2] # Keep
  PROVE  /\ region[e] /\ Kind[e] = "whole" => Item(e, Whole)[2] # Missing
         /\ text[e] = Own => want[e] = "on"
         /\ Kind[e] = "seed" => text[e] = Missing
<1> USE DEF Nothing, Header, Keep, Own, Missing, Edited, Drift, Clean, Invalid, Environment, Majors
<1>1. major \in Majors /\ Kind[e] \in {"whole", "bare", "block", "seed"}
  BY SyncAssumption DEF TypeOK
<1>2. CASE want[e] = "on"
  BY <1>1, <1>2, SMT DEF Item, Live, To
<1>3. CASE want[e] = "idle"
  BY <1>1, <1>3, SMT DEF Item, Absent
<1>4. CASE want[e] = "off"
  <2>1. CASE Kind[e] = "whole"
    BY <1>1, <1>4, <2>1, SMT DEF Item, Retract, RetractWhole
  <2>2. CASE Kind[e] = "bare"
    BY <1>1, <1>4, <2>2, SMT DEF Item, Retract, RetractMarked
  <2>3. CASE Kind[e] = "block"
    BY <1>1, <1>4, <2>3, SMT DEF Item, Retract, RetractMarked
  <2>4. CASE Kind[e] = "seed"
    BY <1>1, <1>4, <2>4, SMT DEF Item, Retract
  <2> QED
    BY <1>1, <2>1, <2>2, <2>3, <2>4
<1> QED
  BY <1>2, <1>3, <1>4 DEF TypeOK

-----------------------------------------------------------------------------
(***************************************************************************)
(* The verdicts.                                                           *)
(***************************************************************************)
LEMMA WorstIs ==
  ASSUME NEW S \in SUBSET Codes
  PROVE  /\ Worst(S) \in S \cup {Clean}
         /\ \A c \in S : c <= Worst(S)
<1> USE DEF Codes, Clean, Environment
<1> DEFINE P(c) == c \in S \cup {Clean} /\ \A d \in S : d <= c
<1>1. \E c \in S \cup {Clean} : \A d \in S : d <= c
  <2>1. CASE 3 \in S
    BY <2>1, SMT
  <2>2. CASE 3 \notin S /\ 2 \in S
    BY <2>2, SMT
  <2>3. CASE 3 \notin S /\ 2 \notin S /\ 1 \in S
    BY <2>3, SMT
  <2>4. CASE 3 \notin S /\ 2 \notin S /\ 1 \notin S
    BY <2>4, SMT
  <2> QED
    BY <2>1, <2>2, <2>3, <2>4
<1>2. Worst(S) = CHOOSE c \in S \cup {Clean} : \A d \in S : d <= c
  BY DEF Worst
<1> QED
  BY <1>1, <1>2, Zenon

\* The code of some entries is the worst of theirs.
LEMMA CodeIs ==
  ASSUME TypeOK, NEW es \in SUBSET Entries, NEW d
  PROVE  /\ Code(es, d) \in Codes
         /\ \A e \in es : Item(e, d)[1] <= Code(es, d)
         /\ Code(es, d) = Clean \/ \E e \in es : Item(e, d)[1] = Code(es, d)
<1> DEFINE S == {Item(e, d)[1] : e \in es}
<1>1. S \in SUBSET Codes
  BY ItemShape, Zenon
<1>2. Code(es, d) = Worst(S)
  BY DEF Code
<1>3. Worst(S) \in S \cup {Clean} /\ \A c \in S : c <= Worst(S)
  BY <1>1, WorstIs
<1>4. Clean \in Codes
  BY DEF Codes, Clean, Environment
<1> QED
  BY <1>1, <1>2, <1>3, <1>4, Zenon

LEMMA CodeClean ==
  ASSUME TypeOK, NEW es \in SUBSET Entries, NEW d
  PROVE  Code(es, d) = Clean <=> \A e \in es : Item(e, d)[1] = Clean
<1>1. \A e \in es : Item(e, d)[1] \in Codes
  BY ItemShape
<1> QED
  BY <1>1, CodeIs, SMT DEF Codes, Clean, Environment

LEMMA CheckIs ==
  ASSUME TypeOK, NEW d
  PROVE  /\ Check(d) \in Codes
         /\ Code(Entries, d) = Environment => Check(d) = Environment
         /\ Check(d) = Clean <=>
              ~FlakeStale /\ ~ToolsStale /\ Untracked = {} /\ \A e \in Entries : Item(e, d)[1] = Clean
<1> DEFINE L == IF FlakeStale \/ ToolsStale \/ Untracked # {} THEN Drift ELSE Clean
           S == {Code(Entries, d), L}
<1>1. Code(Entries, d) \in Codes /\ L \in {Clean, Drift}
  BY CodeIs
<1>2. S \in SUBSET Codes
  BY <1>1, SMT DEF Codes, Clean, Drift, Environment
<1>3. Check(d) = Worst(S)
  BY DEF Check
<1>4. /\ Worst(S) \in S \cup {Clean}
      /\ Code(Entries, d) <= Worst(S) /\ L <= Worst(S)
  BY <1>2, WorstIs
<1>5. L = Clean <=> ~FlakeStale /\ ~ToolsStale /\ Untracked = {}
  BY SMT DEF Clean, Drift
<1> HIDE DEF L
<1>6. /\ Check(d) \in Codes
      /\ Code(Entries, d) = Environment => Check(d) = Environment
      /\ Check(d) = Clean <=> L = Clean /\ Code(Entries, d) = Clean
  BY <1>1, <1>2, <1>3, <1>4, SMT DEF Codes, Clean, Drift, Environment
<1> QED
  BY <1>5, <1>6, CodeClean, Zenon

\* A clone with less of the history says the same of an entry, or that it cannot tell.
LEMMA ItemDepth ==
  ASSUME TypeOK, NEW e \in Entries, NEW d \in 1..Whole
  PROVE  Item(e, d) = Item(e, Whole) \/ Item(e, d)[1] = Environment
<1>1. /\ Whole \in Nat /\ Kind[e] \in {"whole", "bare", "block", "seed"}
      /\ want[e] \in {"on", "idle", "off"}
  BY SyncAssumption, SMT DEF TypeOK, Whole
<1>2. ~Unknown(e, Whole)
  BY <1>1, SMT DEF Unknown, Whole
<1>3. WasOn(e, d) => WasOn(e, Whole)
  BY <1>1, SMT DEF WasOn
<1>4. WasOn(e, d) \/ d = Whole \/ Unknown(e, d)
  BY <1>1, SMT DEF Unknown, Whole
<1>5. WasOn(e, d) => ~Unknown(e, d)
  BY DEF Unknown
<1>6. ASSUME NEW marked, NEW to
      PROVE  \/ RetractMarked(e, d, marked, to) = RetractMarked(e, Whole, marked, to)
             \/ RetractMarked(e, d, marked, to) = <<Environment, Keep>>
  <2>1. CASE Unknown(e, d)
    BY <1>5, <2>1, SMT DEF RetractMarked
  <2>2. CASE ~Unknown(e, d)
    <3>1. d = Whole \/ (WasOn(e, d) /\ WasOn(e, Whole))
      BY <1>3, <1>4, <2>2
    <3> QED
      BY <1>2, <2>2, <3>1, Zenon DEF RetractMarked
  <2> QED
    BY <2>1, <2>2
<1>7. want[e] # "off" => Item(e, d) = Item(e, Whole)
  BY <1>1, SMT DEF Item
<1>8. want[e] = "off" => Item(e, d) = Retract(e, d) /\ Item(e, Whole) = Retract(e, Whole)
  BY SMT DEF Item
<1>9. Retract(e, d) = Retract(e, Whole) \/ Retract(e, d) = <<Environment, Keep>>
  BY <1>1, <1>6, SMT DEF Retract
<1> QED
  BY <1>7, <1>8, <1>9

LEMMA Shallow == TypeOK => ShallowAgrees
<1> SUFFICES ASSUME TypeOK, NEW d \in 1..Whole PROVE Check(d) \in {Environment, Check(Whole)}
  BY SMT DEF ShallowAgrees, TypeOK, Whole
<1>1. CASE \E e \in Entries : Item(e, d)[1] = Environment
  <2>1. Code(Entries, d) = Environment
    BY <1>1, CodeIs, SMT DEF Codes, Clean, Environment
  <2> QED
    BY <2>1, CheckIs
<1>2. CASE \A e \in Entries : Item(e, d)[1] # Environment
  <2>1. \A e \in Entries : Item(e, d) = Item(e, Whole)
    BY <1>2, ItemDepth
  <2>2. {Item(e, d)[1] : e \in Entries} = {Item(e, Whole)[1] : e \in Entries}
    BY <2>1
  <2> QED
    BY <2>2, Zenon DEF Check, Code
<1> QED
  BY <1>1, <1>2

-----------------------------------------------------------------------------
(***************************************************************************)
(* What the steps leave as it was.                                         *)
(***************************************************************************)
LEMMA FlakeDone ==
  ASSUME TypeOK, ConfigInv, text[Flake] = major, NEW d
  PROVE  Item(Flake, d) = Nothing
<1>1. major # Own /\ Kind[Flake] = "whole"
  BY SyncAssumption, SMT DEF TypeOK, Majors, Own
<1> QED
  BY <1>1, SMT DEF ConfigInv, Item, Live, To

\* A plan of which nothing is to be written.
LEMMA PlanDone ==
  ASSUME \A e \in Entries : plan'[e] \in {Keep, Written}, pc' \notin {"writeA", "writeB"},
         pc' \in AllPlanned => /\ pc \in AllPlanned /\ PlanInv /\ TypeOK
                               /\ UNCHANGED <<config, files, force>>
                               /\ \A e \in Entries : plan[e] \in {Keep, Written},
         pc' \in FlakeWritten => text'[Flake] = major'
  PROVE  PlanInv'
<1>1. ASSUME NEW e \in Entries, pc' \in AllPlanned PROVE Item(e, Whole)'[2] \in {Keep, plan'[e]}
  <2>1. Item(e, Whole)' = Item(e, Whole)
    BY <1>1, ItemSame DEF files
  <2>2. Item(e, Whole)[2] \in {Keep, plan[e]} /\ plan[e] \in {Keep, Written}
    BY <1>1 DEF PlanInv
  <2>3. Item(e, Whole)[2] \in Texts \cup {Keep}
    BY <1>1, ItemShape
  <2>4. Written \notin Texts
    BY SyncAssumption, SMT DEF Texts, Majors, Written, Missing, Own, Edited, Keep
  <2> QED
    BY <2>1, <2>2, <2>3, <2>4
<1> QED
  BY <1>1, Zenon DEF PlanInv

\* A lock that is there stays tracked, and one that is made is tracked with it.
LEMMA NoMoreUntracked ==
  ASSUME \A f \in LockFiles : /\ Exists(f)' => Exists(f) \/ f \in tracked'
                              /\ f \in tracked => f \in tracked'
  PROVE  Untracked' \subseteq Untracked
  BY DEF Untracked

LEMMA SameUntracked ==
  ASSUME UNCHANGED locks, \A f \in LockFiles : f \in tracked => f \in tracked'
  PROVE  Untracked' \subseteq Untracked
<1>1. \A f \in LockFiles : Exists(f)' = Exists(f)
  BY DEF locks, Exists
<1> QED
  BY <1>1, NoMoreUntracked

\* A sync that follows a good one and changes nothing but locks.
LEMMA LastStays ==
  ASSUME TypeOK, LastInv, UNCHANGED <<config, files, plan, last>>, force' = force \/ text[Flake] # Own,
         last \in {Clean, Drift} => UNCHANGED <<changed, flakeLock, toolsLock>> /\ ~force',
         last = Clean => Untracked' \subseteq Untracked
  PROVE  LastInv'
<1>1. \A e \in Entries : Item(e, Whole)' = Item(e, Whole)
  BY ItemSame DEF files
<1>2. UNCHANGED <<major, text, plan, last>>
  BY DEF config, files
<1>3. ASSUME last \in {Clean, Drift}
      PROVE  /\ text'[Flake] = major' /\ flakeLock'[1] = major' /\ toolsLock' = major'
             /\ ~changed' /\ ~force'
             /\ \A e \in Entries : Item(e, Whole)'[2] = Keep /\ plan'[e] = Keep
  BY <1>1, <1>2, <1>3, SMT DEF LastInv
<1>4. last = Clean => Untracked' = {} /\ \A e \in Entries : Item(e, Whole)'[1] = Clean
  BY <1>1, Zenon DEF LastInv
<1> QED
  BY <1>2, <1>3, <1>4 DEF LastInv

-----------------------------------------------------------------------------
(***************************************************************************)
(* The app.                                                                *)
(***************************************************************************)
\* Between syncs nothing is under way.
LEMMA AtRest ==
  ASSUME IInv, pc = "idle", UNCHANGED <<proc, killed, owed>>, last' = Never, flakeLock'[2] = 1 \/ UNCHANGED locks,
         \A e \in Entries : text'[e] \in Majors => text[e] = text'[e], UNCHANGED tracked
  PROVE  PlanInv' /\ LockInv' /\ StageInv' /\ RelockInv' /\ LastInv' /\ RelockedInRun'
<1>1. UNCHANGED <<pc, plan, force, handed, changed>>
  BY DEF proc
<1>2. PlanInv'
  <2>1. \A e \in Entries : plan'[e] \in {Keep, Written}
    BY <1>1 DEF IInv, PlanInv
  <2> QED
    BY <1>1, <2>1, PlanDone DEF AllPlanned, FlakeWritten
<1>3. LockInv'
  BY <1>1 DEF LockInv, FlakeLocked, FlakeWritten, ToolsLocked
<1>4. StageInv'
  BY <1>1, Zenon DEF IInv, StageInv
<1>5. RelockInv'
  BY <1>1, SMT DEF IInv, RelockInv, locks
<1>6. LastInv' /\ RelockedInRun'
  BY DEF LastInv, RelockedInRun, Never, Clean, Drift
<1> QED
  BY <1>2, <1>3, <1>4, <1>5, <1>6

LEMMA EverSeq ==
  ASSUME ever \in Seq(SUBSET Entries), NEW S \in SUBSET Entries
  PROVE  <<S>> \o ever \in Seq(SUBSET Entries)
  BY SMT

LEMMA ConfigureStep ==
  ASSUME IInv, Configure
  PROVE  IInv'
<1> USE DEF IInv, Touch
<1>1. /\ pc = "idle" /\ last' = Never /\ UNCHANGED <<proc, killed, owed, runs, faults>>
      /\ UNCHANGED <<text, region, tracked, flakeLock, toolsLock, benchLock>> /\ UNCHANGED locks
  BY DEF Configure, files, locks
<1>2. UNCHANGED <<pc, plan, force, handed, changed>>
  BY <1>1 DEF proc
<1>3. want' \in [Entries -> {"on", "idle", "off"}] /\ want'[Flake] = "on"
  BY SyncAssumption, SMT DEF Configure, TypeOK, ConfigInv, PhaseB
<1>4. major' \in Majors
  BY SyncAssumption, SMT DEF Configure, TypeOK, Majors
<1>5. ever' \in Seq(SUBSET Entries)
  BY EverSeq, Zenon DEF Configure, TypeOK
<1>6. edits' \in 0..MaxEdits
  BY SyncAssumption, SMT DEF Configure, TypeOK
<1>7. TypeOK'
  BY <1>1, <1>2, <1>3, <1>4, <1>5, <1>6, SMT DEF TypeOK, Never, Clean, Majors
<1>8. ConfigInv'
  BY <1>1, <1>3 DEF ConfigInv
<1> QED
  BY <1>1, <1>7, <1>8, AtRest

LEMMA EditStep ==
  ASSUME IInv, NEW e \in Entries, Edit(e)
  PROVE  IInv'
<1> USE DEF IInv, Touch
<1>1. /\ pc = "idle" /\ last' = Never /\ UNCHANGED <<proc, killed, owed, runs, faults>>
      /\ UNCHANGED <<major, want, ever, tracked, flakeLock, toolsLock, benchLock>> /\ UNCHANGED locks
  BY DEF Edit, config, locks
<1>2. UNCHANGED <<pc, plan, force, handed, changed>>
  BY <1>1 DEF proc
<1>3. edits' \in 0..MaxEdits
  BY SyncAssumption, SMT DEF Edit, TypeOK
<1>4. text' \in [Entries -> Texts] /\ region' \in [Entries -> BOOLEAN]
  <2>1. Own \in Texts /\ Edited \in Texts /\ Missing \in Texts
    BY DEF Texts
  <2>2. text \in [Entries -> Texts] /\ region \in [Entries -> BOOLEAN]
    BY DEF TypeOK
  <2>3. /\ \/ text' = text
           \/ \E t \in {Own, Edited, Missing} : text' = [text EXCEPT ![e] = t]
        /\ \/ region' = region
           \/ \E b \in BOOLEAN : region' = [region EXCEPT ![e] = b]
    BY Zenon DEF Edit
  <2> QED
    BY <2>1, <2>2, <2>3, Zenon
<1>5. TypeOK'
  BY <1>1, <1>2, <1>3, <1>4, SMT DEF TypeOK, Never, Clean, Majors
<1>6. ConfigInv'
  BY <1>1, Zenon DEF Edit, ConfigInv, TypeOK
<1>7. \A x \in Entries : text'[x] \in Majors => text[x] = text'[x]
  BY SyncAssumption, SMT DEF Edit, TypeOK, Majors, Own, Edited, Missing
<1> QED
  BY <1>1, <1>5, <1>6, <1>7, AtRest

LEMMA UpdateInputsStep ==
  ASSUME IInv, UpdateInputs
  PROVE  IInv'
<1> USE DEF IInv, Touch
<1>1. /\ pc = "idle" /\ last' = Never /\ UNCHANGED <<proc, killed, owed, runs, faults>>
      /\ UNCHANGED <<major, want, ever, text, region, tracked, toolsLock, benchLock>>
  BY DEF UpdateInputs, config, files
<1>2. UNCHANGED <<pc, plan, force, handed, changed>>
  BY <1>1 DEF proc
<1>3. edits' \in 0..MaxEdits
  BY SyncAssumption, SMT DEF UpdateInputs, TypeOK
<1>4. flakeLock' \in LockStates /\ flakeLock'[2] = 1
  BY SMT DEF UpdateInputs, TypeOK, LockStates
<1>5. TypeOK'
  BY <1>1, <1>2, <1>3, <1>4, SMT DEF TypeOK, Never, Clean, Majors
<1>6. ConfigInv'
  BY <1>1 DEF ConfigInv
<1> QED
  BY <1>1, <1>4, <1>5, <1>6, AtRest

-----------------------------------------------------------------------------
(***************************************************************************)
(* A sync.                                                                 *)
(***************************************************************************)
LEMMA StartStep ==
  ASSUME IInv, Start
  PROVE  IInv'
<1> USE DEF IInv
<1>1. /\ pc = "idle" /\ pc' = "planA" /\ force' \in {FALSE, text[Flake] = Own}
      /\ UNCHANGED <<major, want, ever, text, region, tracked, flakeLock, toolsLock, benchLock>>
      /\ UNCHANGED <<plan, handed, changed, last, killed, owed, edits, faults>>
      /\ UNCHANGED <<config, files, locks>>
  BY DEF Start, Goto, tree, config, files, locks
<1>2. runs' \in 0..MaxRuns
  BY SyncAssumption, SMT DEF Start, TypeOK
<1>3. TypeOK'
  <2>1. force' \in BOOLEAN
    BY <1>1, Zenon
  <2> QED
    BY <1>1, <1>2, <2>1, Zenon DEF TypeOK, Places, Majors
<1>4. ConfigInv'
  BY <1>1 DEF ConfigInv
<1>5. PlanInv'
  <2>1. \A e \in Entries : plan'[e] \in {Keep, Written}
    BY <1>1 DEF PlanInv
  <2> QED
    BY <1>1, <2>1, PlanDone DEF AllPlanned, FlakeWritten
<1>6. LockInv'
  BY <1>1 DEF LockInv, FlakeLocked, FlakeWritten, ToolsLocked
<1>7. StageInv'
  BY <1>1, Zenon DEF StageInv, Unstaged
<1>8. RelockInv' /\ RelockedInRun'
  BY <1>1, SMT DEF RelockInv, RelockedInRun
<1>9. LastInv'
  <2>1. major # Own
    BY SyncAssumption, SMT DEF TypeOK, Majors, Own
  <2>2. CASE text[Flake] # Own
    <3>1. ~force'
      BY <1>1, <2>2
    <3>2. Untracked' \subseteq Untracked
      BY <1>1, SameUntracked
    <3> QED
      BY <1>1, <2>2, <3>1, <3>2, LastStays
  <2>3. CASE text[Flake] = Own
    BY <1>1, <2>1, <2>3 DEF LastInv, Clean, Drift
  <2> QED
    BY <2>2, <2>3
<1> QED
  BY <1>3, <1>4, <1>5, <1>6, <1>7, <1>8, <1>9

\* A plan that is refused ends the sync.
LEMMA RefusedStep ==
  ASSUME IInv, NEW code \in {Invalid, Environment}, End(code), Owes, UNCHANGED <<tree, killed, bounds>>,
         pc \notin Unstaged
  PROVE  IInv'
<1> USE DEF IInv
<1>1. /\ pc' = "idle" /\ plan' = [e \in Entries |-> Keep] /\ ~force' /\ ~handed' /\ ~changed' /\ last' = code
      /\ force' = FALSE /\ handed' = FALSE /\ changed' = FALSE
      /\ UNCHANGED <<major, want, ever, text, region, tracked, flakeLock, toolsLock, benchLock>>
      /\ UNCHANGED <<killed, edits, runs, faults>> /\ owed' = (owed \/ (changed /\ benchLock # flakeLock))
  BY DEF End, Goto, Owes, tree, config, files, locks, bounds
<1>2. TypeOK'
  <2>1. owed' \in BOOLEAN /\ plan' \in [Entries -> Texts \cup {Keep, Written}]
    BY <1>1, Zenon DEF TypeOK
  <2>2. last' \in Clean..Never
    BY <1>1, SMT DEF Clean, Never, Invalid, Environment
  <2> QED
    BY <1>1, <2>1, <2>2, Zenon DEF TypeOK, Places, Majors
<1>3. ConfigInv'
  BY <1>1 DEF ConfigInv
<1>4. PlanInv'
  BY <1>1, PlanDone DEF AllPlanned, FlakeWritten
<1>5. LockInv'
  BY <1>1 DEF LockInv, FlakeLocked, FlakeWritten, ToolsLocked
<1>6. StageInv'
  BY <1>1, SMT DEF StageInv
<1>7. RelockInv'
  <2>1. ~owed' => ~owed /\ (changed => benchLock = flakeLock)
    BY <1>1, Zenon
  <2>2. UNCHANGED <<flakeLock, benchLock>> /\ pc' = "idle" /\ ~changed' /\ ~force'
    BY <1>1
  <2> QED
    BY <2>1, <2>2, Zenon DEF RelockInv
<1>8. LastInv' /\ RelockedInRun'
  BY <1>1 DEF LastInv, RelockedInRun, Clean, Drift, Invalid, Environment
<1> QED
  BY <1>2, <1>3, <1>4, <1>5, <1>6, <1>7, <1>8

\* A plan that is not is what is then written.
LEMMA PlannedStep ==
  ASSUME IInv, NEW es \in SUBSET Entries, Code(es, Whole) < Invalid, Write(es), pc \notin Unstaged \cup {"idle"},
         \/ es = {Flake} /\ pc' = "writeA"
         \/ es = PhaseB /\ pc' = "writeB" /\ text[Flake] = major /\ flakeLock[1] = major,
         UNCHANGED <<tree, force, handed, changed, last, owed, killed, bounds>>
  PROVE  IInv'
<1> USE DEF IInv
<1>1. /\ UNCHANGED <<config, files, locks>>
      /\ UNCHANGED <<major, want, ever, text, region, tracked, flakeLock, toolsLock, benchLock>>
      /\ UNCHANGED <<force, handed, changed, last, owed, killed, edits, runs, faults>>
      /\ pc' \in {"writeA", "writeB"}
  BY DEF tree, config, files, locks, bounds
<1>2. \A e \in Entries : plan'[e] = IF e \in es THEN Item(e, Whole)[2] ELSE Keep
  BY Zenon DEF Write
<1>3. \A e \in Entries : Item(e, Whole)' = Item(e, Whole)
  BY <1>1, ItemSame
<1>4. \A e \in Entries : Item(e, Whole)[2] \in Texts \cup {Keep}
  BY ItemShape
<1>5. TypeOK'
  <2>1. plan' \in [Entries -> Texts \cup {Keep, Written}]
    BY <1>4, Zenon DEF Write
  <2> QED
    BY <1>1, <2>1, SMT DEF TypeOK, Places, Majors
<1>6. ConfigInv'
  BY <1>1 DEF ConfigInv
<1>7. Flake \in es => text[Flake] = major \/ plan'[Flake] = major
  <2>1. ASSUME Flake \in es PROVE Item(Flake, Whole) # <<Invalid, Keep>>
    <3>1. Item(Flake, Whole)[1] < Invalid
      BY <2>1, CodeIs, ItemShape, SMT DEF Codes, Clean, Environment, Invalid
    <3> QED
      BY <3>1, SMT DEF Invalid
  <2>2. Item(Flake, Whole) \in {<<Invalid, Keep>>, To(Flake, major)}
    BY SyncAssumption, SMT DEF ConfigInv, Item, Live
  <2>3. text[Flake] = major \/ To(Flake, major)[2] = major
    BY SMT DEF To
  <2> QED
    BY <1>2, <2>1, <2>2, <2>3, SyncAssumption
<1>8. PlanInv'
  <2>1. \A e \in Entries : plan'[e] \in {Keep, Written, Item(e, Whole)'[2]}
    BY <1>2, <1>3
  <2>2. CASE es = {Flake} /\ pc' = "writeA"
    BY <1>1, <1>7, <2>1, <2>2, SyncAssumption, Zenon DEF PlanInv, AllPlanned, FlakeWritten
  <2>3. CASE es = PhaseB /\ pc' = "writeB" /\ text[Flake] = major
    <3>1. Item(Flake, Whole)[2] = Keep
      BY <2>3, FlakeDone DEF Nothing
    <3>2. \A e \in Entries : Item(e, Whole)'[2] \in {Keep, plan'[e]}
      BY <1>2, <1>3, <2>3, <3>1 DEF PhaseB
    <3> QED
      BY <1>1, <2>1, <2>3, <3>2, Zenon DEF PlanInv
  <2> QED
    BY <2>2, <2>3
<1>9. LockInv'
  BY <1>1 DEF LockInv, FlakeLocked, FlakeWritten, ToolsLocked
<1>10. StageInv'
  BY <1>1, SMT DEF StageInv
<1>11. RelockInv' /\ RelockedInRun'
  BY <1>1, SMT DEF RelockInv, RelockedInRun
<1>12. LastInv'
  <2>1. Untracked' = Untracked
    BY <1>1 DEF Untracked, Exists
  <2>2. last \in {Clean, Drift} => \A e \in Entries : Item(e, Whole)'[2] = Keep /\ plan'[e] = Keep
    BY <1>2, <1>3 DEF LastInv
  <2>3. last = Clean => \A e \in Entries : Item(e, Whole)'[1] = Clean
    BY <1>3 DEF LastInv
  <2> QED
    BY <1>1, <2>1, <2>2, <2>3, SMT DEF LastInv
<1> QED
  BY <1>5, <1>6, <1>8, <1>9, <1>10, <1>11, <1>12

LEMMA PlanStep ==
  ASSUME IInv, PlanA \/ PlanB
  PROVE  IInv'
<1> USE DEF IInv
<1>1. ASSUME NEW es \in SUBSET Entries, Code(es, Whole) >= Invalid
      PROVE  Code(es, Whole) \in {Invalid, Environment}
  BY <1>1, CodeIs, SMT DEF Codes, Clean, Invalid, Environment
<1>2. ASSUME NEW es \in SUBSET Entries, ~(Code(es, Whole) >= Invalid)
      PROVE  Code(es, Whole) < Invalid
  BY <1>2, CodeIs, SMT DEF Codes, Clean, Invalid, Environment
<1>3. {Flake} \in SUBSET Entries /\ PhaseB \in SUBSET Entries
  BY SyncAssumption DEF PhaseB
<1>4. CASE PlanA
  <2>1. pc = "planA" /\ pc \notin Unstaged \cup {"idle"} /\ UNCHANGED <<tree, killed, bounds>>
    BY <1>4 DEF PlanA, Unstaged
  <2>2. CASE Code({Flake}, Whole) >= Invalid
    BY <1>1, <1>3, <1>4, <2>1, <2>2, RefusedStep DEF PlanA
  <2>3. CASE ~(Code({Flake}, Whole) >= Invalid)
    BY <1>2, <1>3, <1>4, <2>1, <2>3, PlannedStep DEF PlanA, Goto
  <2> QED
    BY <2>2, <2>3
<1>5. CASE PlanB
  <2>1. pc = "planB" /\ pc \notin Unstaged \cup {"idle"} /\ UNCHANGED <<tree, killed, bounds>>
    BY <1>5 DEF PlanB, Unstaged
  <2>2. text[Flake] = major /\ flakeLock[1] = major
    BY <2>1 DEF PlanInv, LockInv, FlakeWritten, FlakeLocked
  <2>3. CASE Code(PhaseB, Whole) >= Invalid
    BY <1>1, <1>3, <1>5, <2>1, <2>3, RefusedStep DEF PlanB
  <2>4. CASE ~(Code(PhaseB, Whole) >= Invalid)
    BY <1>2, <1>3, <1>5, <2>1, <2>2, <2>4, PlannedStep DEF PlanB, Goto
  <2> QED
    BY <2>3, <2>4
<1> QED
  BY <1>4, <1>5

LEMMA WriteStep ==
  ASSUME IInv, NEW from, NEW to, WriteFile(from, to),
         <<from, to>> \in {<<"writeA", "stageA">>, <<"writeB", "stageB">>}
  PROVE  IInv'
<1> USE DEF IInv
<1>1. /\ pc = from /\ UNCHANGED <<config, tracked, locks, force, handed, changed, last, count>>
      /\ UNCHANGED <<major, want, ever, flakeLock, toolsLock, benchLock, killed, owed, edits, runs, faults>>
  BY DEF WriteFile, config, locks, count, bounds
<1>2. \/ from = "writeA" /\ to = "stageA"
      \/ from = "writeB" /\ to = "stageB"
  BY SMT
<1>3. Untracked' = Untracked
  BY <1>1 DEF Untracked, Exists
<1>4. ASSUME NEW e \in ToWrite,
             text' = [text EXCEPT ![e] = plan[e]], region' = [region EXCEPT ![e] = @ /\ plan[e] # Missing],
             plan' = [plan EXCEPT ![e] = Written], UNCHANGED pc
      PROVE  IInv'
  <2>1. e \in Entries /\ plan[e] = Item(e, Whole)[2] /\ plan[e] \notin {Keep, Written}
    BY <1>4 DEF ToWrite, PlanInv
  <2>2. plan[e] \in Texts
    BY <2>1, ItemShape
  <2>3. /\ \A x \in Entries \ {e} : text'[x] = text[x] /\ region'[x] = region[x] /\ plan'[x] = plan[x]
        /\ text'[e] = plan[e] /\ plan'[e] = Written /\ (region'[e] => region[e])
    BY <1>4, <2>1, Zenon DEF TypeOK
  <2>4. \A x \in Entries \ {e} : Item(x, Whole)' = Item(x, Whole)
    BY <1>1, <2>3, ItemSame
  <2>5. Item(e, Whole)'[2] = Keep
    <3>1. UNCHANGED <<config, force>> /\ Item(e, Whole)[2] # Keep /\ text'[e] = Item(e, Whole)[2]
      BY <1>1, <2>1, <2>3
    <3> QED
      BY <2>1, <3>1, ItemWritten
  <2>6. TypeOK'
    <3>1. /\ text' \in [Entries -> Texts] /\ region' \in [Entries -> BOOLEAN]
          /\ plan' \in [Entries -> Texts \cup {Keep, Written}]
      BY <1>4, <2>2, Zenon DEF TypeOK
    <3> QED
      BY <1>1, <1>4, <3>1, Zenon DEF TypeOK, Majors
  <2>7. ConfigInv'
    <3>1. \A x \in Entries : region'[x] => region[x]
      BY <2>3, Zenon
    <3> QED
      BY <1>1, <3>1 DEF ConfigInv
  <2>8. PlanInv'
    <3>1. \A x \in Entries : plan'[x] \in {Keep, Written, Item(x, Whole)'[2]}
      BY <2>3, <2>4, Zenon DEF PlanInv
    <3>2. pc \in AllPlanned => \A x \in Entries : Item(x, Whole)'[2] \in {Keep, plan'[x]}
      BY <2>3, <2>4, <2>5 DEF PlanInv
    <3>3. /\ pc = "writeA" => text'[Flake] = major \/ plan'[Flake] = major
          /\ pc \in FlakeWritten => text'[Flake] = major
      <4>1. CASE e = Flake
        <5>1. pc = "writeA" => text[Flake] = major \/ plan[Flake] = major
          BY DEF PlanInv
        <5>2. text[Flake] # major
          <6>1. text[Flake] = major => Item(Flake, Whole)[2] = Keep
            BY FlakeDone DEF Nothing
          <6> QED
            BY <2>1, <4>1, <6>1
        <5>3. pc \notin FlakeWritten
          BY <5>2 DEF PlanInv
        <5>4. text'[Flake] = plan[Flake]
          BY <2>3, <4>1
        <5> QED
          BY <5>1, <5>2, <5>3, <5>4
      <4>2. CASE e # Flake
        BY <2>3, <4>2, SyncAssumption DEF PlanInv
      <4> QED
        BY <4>1, <4>2
    <3>4. pc \in {"writeA", "writeB"}
      BY <1>1, <1>2
    <3> QED
      BY <1>1, <1>4, <3>1, <3>2, <3>3, <3>4, Zenon DEF PlanInv
  <2>9. LockInv'
    BY <1>1, <1>4, <1>3, Zenon DEF LockInv
  <2>10. StageInv'
    <3>1. pc \in Unstaged
      BY <1>1, <1>2 DEF Unstaged
    <3>2. \A x \in Entries : x # e /\ text[x] \in Majors => x \in tracked \/ killed \/ plan[x] = Written
      BY DEF StageInv
    <3>3. \A x \in Entries : text'[x] \in Majors => x \in tracked \/ killed \/ plan'[x] = Written
      BY <2>3, <3>2, Zenon
    <3> QED
      BY <1>1, <1>4, <3>1, <3>3, SMT DEF StageInv, Majors
  <2>11. RelockInv' /\ RelockedInRun'
    BY <1>1, <1>4, SMT DEF RelockInv, RelockedInRun
  <2>12. LastInv'
    <3>1. last \notin {Clean, Drift}
      BY <2>1 DEF LastInv
    <3> QED
      BY <1>1, <3>1, Zenon DEF LastInv, Clean, Drift
  <2> QED
    BY <2>6, <2>7, <2>8, <2>9, <2>10, <2>11, <2>12
<1>5. ASSUME ToWrite = {}, Goto(to), UNCHANGED <<plan, files>>
      PROVE  IInv'
  <2>1. pc' = to /\ UNCHANGED <<text, region, plan>>
    BY <1>5 DEF Goto, files
  <2>2. \A e \in Entries : plan[e] \in {Keep, Written}
    BY <1>5 DEF ToWrite
  <2>3. TypeOK'
    BY <1>1, <1>2, <2>1, SMT DEF TypeOK, Places, Majors
  <2>4. ConfigInv'
    BY <1>1, <2>1 DEF ConfigInv
  <2>5. text[Flake] = major
    <3>1. major \notin {Keep, Written}
      BY SyncAssumption, SMT DEF TypeOK, Majors, Keep, Written
    <3> QED
      BY <1>1, <1>2, <2>2, <3>1, SyncAssumption DEF PlanInv, FlakeWritten
  <2>6. PlanInv'
    <3>1. pc' \notin {"writeA", "writeB"} /\ (pc' \in AllPlanned => pc \in AllPlanned)
      BY <1>1, <1>2, <2>1 DEF AllPlanned
    <3>2. text'[Flake] = major'
      BY <1>1, <2>1, <2>5
    <3> QED
      BY <1>1, <1>5, <2>1, <2>2, <3>1, <3>2, PlanDone
  <2>7. LockInv'
    BY <1>1, <1>2, <2>1 DEF LockInv, FlakeLocked, FlakeWritten, ToolsLocked
  <2>8. StageInv'
    <3>1. pc' \in Unstaged
      BY <1>2, <2>1 DEF Unstaged
    <3> QED
      BY <1>1, <2>1, <3>1, SMT DEF StageInv
  <2>9. RelockInv' /\ RelockedInRun'
    BY <1>1, <1>2, <2>1, SMT DEF RelockInv, RelockedInRun
  <2>10. LastInv'
    BY <1>1, <1>3, <1>5, LastStays DEF LastInv
  <2> QED
    BY <2>3, <2>4, <2>6, <2>7, <2>8, <2>9, <2>10
<1> QED
  BY <1>4, <1>5, Zenon DEF WriteFile

LEMMA StageStep ==
  ASSUME IInv, NEW from, NEW to, NEW some \in SUBSET LockFiles, Stage(from, some, to),
         \/ from = "stageEnd" /\ to = "after" /\ Untracked \subseteq some
         \/ <<from, to>> \in {<<"stageA", "lock">>, <<"stageLock", "handover">>, <<"stageB", "tools">>,
                              <<"stageTools", "relock">>}
  PROVE  IInv'
<1> USE DEF IInv
<1>1. /\ pc = from /\ pc' = to
      /\ UNCHANGED <<config, files, locks, plan, force, handed, changed, last, count>>
      /\ UNCHANGED <<major, want, ever, text, region, flakeLock, toolsLock, benchLock>>
      /\ UNCHANGED <<killed, owed, edits, runs, faults>>
  BY DEF Stage, Goto, config, files, locks, count, bounds
<1>2. \/ from = "stageEnd" /\ to = "after" /\ Untracked \subseteq some
      \/ from = "stageA" /\ to = "lock"
      \/ from = "stageLock" /\ to = "handover"
      \/ from = "stageB" /\ to = "tools"
      \/ from = "stageTools" /\ to = "relock"
  BY SMT
<1>3. tracked' = {f \in tracked \cup some \cup {e \in Entries : plan[e] = Written} : f \in Entries => text[f] # Missing}
  BY Zenon DEF Stage, Add
<1>4. \A f \in LockFiles : f \in tracked \cup some => f \in tracked'
  BY <1>3, SyncAssumption
<1>5. TypeOK'
  <2>1. tracked' \subseteq Entries \cup LockFiles
    BY <1>3 DEF TypeOK
  <2>2. pc' \in Places
    BY <1>1, <1>2 DEF Places
  <2> QED
    BY <1>1, <2>1, <2>2, Zenon DEF TypeOK, Majors
<1>6. ConfigInv'
  BY <1>1 DEF ConfigInv
<1>7. PlanInv'
  <2>1. /\ pc \notin {"writeA", "writeB"} /\ pc' \notin {"writeA", "writeB"} /\ pc \in FlakeWritten
        /\ (pc' \in AllPlanned => pc \in AllPlanned)
    BY <1>1, <1>2 DEF AllPlanned, FlakeWritten
  <2>2. \A e \in Entries : plan[e] \in {Keep, Written} /\ plan'[e] \in {Keep, Written}
    BY <1>1, <2>1 DEF PlanInv
  <2>3. text'[Flake] = major'
    BY <1>1, <2>1 DEF PlanInv
  <2> QED
    BY <1>1, <2>1, <2>2, <2>3, PlanDone
<1>8. Untracked' \subseteq Untracked
  BY <1>1, <1>4, SameUntracked
<1>9. pc' = "after" => Untracked' = {}
  <2>1. ASSUME pc' = "after" PROVE Untracked \subseteq some
    BY <1>1, <1>2, <2>1
  <2>2. \A f \in LockFiles : f \in some => f \notin Untracked'
    BY <1>4 DEF Untracked
  <2> QED
    BY <1>8, <2>1, <2>2 DEF Untracked
<1>10. LockInv'
  BY <1>1, <1>2, <1>9 DEF LockInv, FlakeLocked, FlakeWritten, ToolsLocked
<1>11. StageInv'
  <2>1. Missing \notin Majors
    BY SyncAssumption, SMT DEF Majors, Missing
  <2>2. ASSUME NEW e \in Entries, e \in tracked \/ plan[e] = Written, text[e] \in Majors PROVE e \in tracked'
    BY <1>3, <2>1, <2>2
  <2> QED
    BY <1>1, <2>2, SMT DEF StageInv, Majors
<1>12. RelockInv' /\ RelockedInRun'
  BY <1>1, <1>2, SMT DEF RelockInv, RelockedInRun
<1>13. LastInv'
  BY <1>1, <1>8, LastStays DEF LastInv
<1> QED
  BY <1>5, <1>6, <1>7, <1>10, <1>11, <1>12, <1>13

LEMMA StagesStep ==
  ASSUME IInv, StageA \/ StageLock \/ StageB \/ StageTools \/ StageEnd
  PROVE  IInv'
<1>1. {} \in SUBSET LockFiles /\ Untracked \in SUBSET LockFiles /\ {"flake.lock"} \in SUBSET LockFiles
      /\ {"tools/uv.lock"} \in SUBSET LockFiles
  BY DEF Untracked, LockFiles
<1>2. CASE StageA
  BY <1>1, <1>2, StageStep DEF StageA
<1>3. CASE StageLock
  BY <1>1, <1>3, StageStep DEF StageLock
<1>4. CASE StageB
  BY <1>1, <1>4, StageStep DEF StageB
<1>5. CASE StageTools
  BY <1>1, <1>5, StageStep DEF StageTools
<1>6. CASE StageEnd
  BY <1>1, <1>6, StageStep DEF StageEnd
<1> QED
  BY <1>2, <1>3, <1>4, <1>5, <1>6

\* A step that only makes locks, and tracks them.
LEMMA LockStep ==
  ASSUME IInv, UNCHANGED <<config, files, plan, force, last, count>>, tracked \subseteq tracked',
         last = Clean => Untracked' \subseteq Untracked,
         last \in {Clean, Drift} => UNCHANGED <<changed, flakeLock, toolsLock>>,
         pc \notin Unstaged \cup {"idle", "after"}, pc' \notin Unstaged \cup {"idle", "after"},
         pc' \in AllPlanned => pc \in AllPlanned,
         pc' \in FlakeWritten => pc \in FlakeWritten,
         TypeOK', LockInv', RelockInv', RelockedInRun'
  PROVE  IInv'
<1> USE DEF IInv
<1>1. UNCHANGED <<major, want, ever, text, region, killed, plan, force, last>>
  BY DEF config, files, count
<1>2. ConfigInv'
  BY <1>1 DEF ConfigInv
<1>3. PlanInv'
  <2>1. \A e \in Entries : plan[e] \in {Keep, Written} /\ plan'[e] \in {Keep, Written}
    BY <1>1 DEF PlanInv, Unstaged
  <2>2. pc' \in FlakeWritten => text'[Flake] = major'
    BY <1>1 DEF PlanInv
  <2> QED
    BY <1>1, <2>1, <2>2, PlanDone DEF Unstaged
<1>4. StageInv'
  BY <1>1, SMT DEF StageInv, Majors
<1>5. LastInv'
  <2>1. last \in {Clean, Drift} => ~force'
    BY <1>1 DEF LastInv
  <2> QED
    BY <1>1, <2>1, LastStays
<1> QED
  BY <1>2, <1>3, <1>4, <1>5

LEMMA LockFlakeStep ==
  ASSUME IInv, LockFlake
  PROVE  IInv'
<1> USE DEF IInv
<1>1. /\ pc = "lock" /\ pc' = "stageLock"
      /\ UNCHANGED <<config, files, plan, force, handed, last, count, tracked, toolsLock, benchLock>>
      /\ UNCHANGED <<major, want, ever, text, region, killed, owed, edits, runs, faults>>
  BY DEF LockFlake, Goto, config, files, count, bounds
<1>2. text[Flake] = major
  BY <1>1 DEF PlanInv, FlakeWritten
<1>3. \/ flakeLock' = <<major, flakeLock[2]>> /\ changed' = TRUE /\ (flakeLock = NoLock \/ flakeLock[1] # major)
      \/ UNCHANGED <<flakeLock, changed>> /\ flakeLock # NoLock /\ flakeLock[1] = major
  <2>1. text[Flake] \in Majors
    BY <1>2 DEF TypeOK
  <2> QED
    BY <1>2, <2>1, Zenon DEF LockFlake, FlakeStale
<1>4. major # 0 /\ flakeLock \in LockStates /\ major \in 0..MaxMajor
  BY SyncAssumption, SMT DEF TypeOK, Majors
<1>5. flakeLock' \in LockStates /\ flakeLock'[1] = major /\ flakeLock'[2] = flakeLock[2]
  BY <1>3, <1>4, SMT DEF LockStates
<1>6. TypeOK'
  BY <1>1, <1>3, <1>5, Zenon DEF TypeOK, Majors, Places
<1>7. LockInv'
  BY <1>1, <1>5 DEF LockInv, ToolsLocked
<1>8. last \in {Clean, Drift} => UNCHANGED <<changed, flakeLock, toolsLock>>
  <2>1. last \in {Clean, Drift} => flakeLock # NoLock /\ flakeLock[1] = major
    BY <1>4, SMT DEF LastInv, NoLock
  <2> QED
    BY <1>1, <1>3, <2>1
<1>9. last = Clean => Untracked' \subseteq Untracked
  BY <1>1, <1>8, SameUntracked DEF locks, Clean
<1>10. RelockInv' /\ RelockedInRun'
  <2>1. RelockedInRun'
    <3>1. last = Clean => UNCHANGED <<changed, flakeLock, toolsLock>>
      BY <1>8
    <3> QED
      BY <1>1, <3>1 DEF RelockedInRun
  <2>2. ~owed' /\ flakeLock'[2] = 0 => changed' \/ benchLock' \in {NoLock, flakeLock'}
    BY <1>1, <1>3, <1>5, Zenon DEF RelockInv
  <2> QED
    BY <1>1, <2>1, <2>2 DEF RelockInv
<1>11. /\ tracked \subseteq tracked' /\ pc \notin Unstaged \cup {"idle", "after"}
       /\ pc' \notin Unstaged \cup {"idle", "after"} /\ pc' \notin AllPlanned /\ pc \in FlakeWritten
  BY <1>1 DEF Unstaged, AllPlanned, FlakeWritten
<1> QED
  BY <1>1, <1>6, <1>7, <1>8, <1>9, <1>10, <1>11, LockStep

LEMMA HandoverStep ==
  ASSUME IInv, Handover
  PROVE  IInv'
<1> USE DEF IInv
<1>1. /\ pc = "handover" /\ pc' \in {"planA", "planB"}
      /\ UNCHANGED <<config, files, plan, force, changed, last, count, flakeLock, toolsLock>>
      /\ UNCHANGED <<major, want, ever, text, region, killed, owed, edits, runs, faults>>
      /\ handed' \in {TRUE, handed}
      /\ \/ UNCHANGED <<benchLock, tracked>>
         \/ benchLock' = flakeLock /\ tracked' = tracked \cup {"nix/uv.lock"}
  BY DEF Handover, Goto, config, files, count, bounds
<1>2. flakeLock[1] = major
  BY <1>1 DEF LockInv, FlakeLocked, FlakeWritten
<1>3. TypeOK'
  <2>1. benchLock' \in LockStates /\ tracked' \subseteq Entries \cup LockFiles /\ handed' \in BOOLEAN
    BY <1>1, Zenon DEF TypeOK, LockFiles
  <2> QED
    BY <1>1, <2>1, Zenon DEF TypeOK, Majors, Places
<1>4. LockInv'
  BY <1>1, <1>2 DEF LockInv, ToolsLocked
<1>5. Untracked' \subseteq Untracked
  <2>1. CASE UNCHANGED <<benchLock, tracked>>
    BY <1>1, <2>1, SameUntracked DEF locks
  <2>2. CASE tracked' = tracked \cup {"nix/uv.lock"}
    <3>1. \A f \in LockFiles \ {"nix/uv.lock"} : Exists(f)' = Exists(f)
      BY <1>1 DEF LockFiles, Exists
    <3> QED
      BY <2>2, <3>1, NoMoreUntracked
  <2> QED
    BY <1>1, <2>1, <2>2
<1>6. RelockInv' /\ RelockedInRun'
  BY <1>1, SMT DEF RelockInv, RelockedInRun
<1>7. /\ tracked \subseteq tracked' /\ pc \notin Unstaged \cup {"idle", "after"}
      /\ pc' \notin Unstaged \cup {"idle", "after"} /\ pc' \notin AllPlanned /\ pc \in FlakeWritten
  BY <1>1, Zenon DEF Unstaged, AllPlanned, FlakeWritten
<1> QED
  BY <1>1, <1>3, <1>4, <1>5, <1>6, <1>7, LockStep

LEMMA LockToolsStep ==
  ASSUME IInv, LockTools
  PROVE  IInv'
<1> USE DEF IInv
<1>1. /\ pc = "tools" /\ pc' \in {"stageTools", "relock"}
      /\ UNCHANGED <<config, files, plan, force, handed, changed, last, count, tracked, flakeLock, benchLock>>
      /\ UNCHANGED <<major, want, ever, text, region, killed, owed, edits, runs, faults>>
  BY DEF LockTools, Goto, config, files, count, bounds
<1>2. toolsLock' = major /\ (toolsLock # major \/ toolsLock' = toolsLock)
  BY Zenon DEF LockTools, ToolsStale
<1>3. TypeOK'
  <2>1. toolsLock' \in 0..MaxMajor
    BY <1>2, SyncAssumption, SMT DEF TypeOK, Majors
  <2> QED
    BY <1>1, <2>1, Zenon DEF TypeOK, Majors, Places
<1>4. LockInv'
  BY <1>1, <1>2, Zenon DEF LockInv, FlakeLocked, FlakeWritten
<1>5. last \in {Clean, Drift} => UNCHANGED <<changed, flakeLock, toolsLock>>
  BY <1>1, <1>2 DEF LastInv
<1>6. last = Clean => Untracked' \subseteq Untracked
  BY <1>1, <1>5, SameUntracked DEF locks, Clean
<1>7. RelockInv' /\ RelockedInRun'
  BY <1>1, SMT DEF RelockInv, RelockedInRun
<1>8. /\ tracked \subseteq tracked' /\ pc \notin Unstaged \cup {"idle", "after"}
      /\ pc' \notin Unstaged \cup {"idle", "after"} /\ pc \in AllPlanned /\ pc \in FlakeWritten
  BY <1>1, Zenon DEF Unstaged, AllPlanned, FlakeWritten
<1> QED
  BY <1>1, <1>3, <1>4, <1>5, <1>6, <1>7, <1>8, LockStep

LEMMA RelockStep ==
  ASSUME IInv, Relock
  PROVE  IInv'
<1> USE DEF IInv
<1>1. /\ pc = "relock" /\ pc' = "stageEnd"
      /\ UNCHANGED <<config, files, plan, force, handed, changed, last, count, flakeLock, toolsLock>>
      /\ UNCHANGED <<major, want, ever, text, region, killed, owed, edits, runs, faults>>
      /\ \/ UNCHANGED <<benchLock, tracked>> /\ ~changed /\ benchLock # NoLock
         \/ benchLock' = flakeLock /\ tracked' = tracked \cup {"nix/uv.lock"}
  BY Zenon DEF Relock, Goto, config, files, count, bounds
<1>2. TypeOK'
  <2>1. benchLock' \in LockStates /\ tracked' \subseteq Entries \cup LockFiles
    BY <1>1, Zenon DEF TypeOK, LockFiles
  <2> QED
    BY <1>1, <2>1, Zenon DEF TypeOK, Majors, Places
<1>3. LockInv'
  BY <1>1 DEF LockInv, FlakeLocked, FlakeWritten, ToolsLocked
<1>4. Untracked' \subseteq Untracked
  <2>1. CASE UNCHANGED <<benchLock, tracked>>
    BY <1>1, <2>1, SameUntracked DEF locks
  <2>2. CASE tracked' = tracked \cup {"nix/uv.lock"}
    <3>1. \A f \in LockFiles \ {"nix/uv.lock"} : Exists(f)' = Exists(f)
      BY <1>1 DEF LockFiles, Exists
    <3> QED
      BY <2>2, <3>1, NoMoreUntracked
  <2> QED
    BY <1>1, <2>1, <2>2
<1>5. RelockInv' /\ RelockedInRun'
  BY <1>1, SMT DEF RelockInv, RelockedInRun
<1>6. /\ tracked \subseteq tracked' /\ pc \notin Unstaged \cup {"idle", "after"}
      /\ pc' \notin Unstaged \cup {"idle", "after"} /\ pc \in AllPlanned /\ pc \in FlakeWritten
  BY <1>1, Zenon DEF Unstaged, AllPlanned, FlakeWritten
<1> QED
  BY <1>1, <1>2, <1>3, <1>4, <1>5, <1>6, LockStep

LEMMA AfterStep ==
  ASSUME IInv, After
  PROVE  IInv'
<1> USE DEF IInv
<1> DEFINE code == Worst({Code(Entries, Whole), IF ToolsStale THEN Drift ELSE Clean})
<1>1. /\ pc = "after" /\ pc' = "idle" /\ plan' = [e \in Entries |-> Keep]
      /\ force' = FALSE /\ handed' = FALSE /\ changed' = FALSE /\ last' = code
      /\ UNCHANGED <<config, files, locks>>
      /\ UNCHANGED <<major, want, ever, text, region, tracked, flakeLock, toolsLock, benchLock>>
      /\ UNCHANGED <<killed, owed, edits, runs, faults>>
  BY DEF After, End, Goto, tree, config, files, locks, count, bounds
<1>2. code \in Codes /\ (code = Clean => \A e \in Entries : Item(e, Whole)[1] = Clean)
  <2>1. {Code(Entries, Whole), IF ToolsStale THEN Drift ELSE Clean} \in SUBSET Codes
    BY CodeIs, SMT DEF Codes, Clean, Drift, Environment
  <2>2. code \in Codes /\ Code(Entries, Whole) <= code
    BY <2>1, WorstIs, SMT DEF Codes, Clean, Environment
  <2>3. Code(Entries, Whole) \in Codes
    BY CodeIs
  <2>4. code = Clean => Code(Entries, Whole) = Clean
    BY <2>2, <2>3, SMT DEF Codes, Clean, Environment
  <2> QED
    BY <2>2, <2>4, CodeClean
<1> HIDE DEF code
<1>3. TypeOK'
  <2>1. plan' \in [Entries -> Texts \cup {Keep, Written}]
    BY <1>1, Zenon
  <2>2. last' \in Clean..Never
    BY <1>1, <1>2, SMT DEF Codes, Clean, Never, Environment
  <2> QED
    BY <1>1, <2>1, <2>2, Zenon DEF TypeOK, Places, Majors
<1>4. ConfigInv'
  BY <1>1 DEF ConfigInv
<1>5. PlanInv'
  BY <1>1, PlanDone DEF AllPlanned, FlakeWritten
<1>6. LockInv'
  BY <1>1 DEF LockInv, FlakeLocked, FlakeWritten, ToolsLocked
<1>7. StageInv'
  BY <1>1, SMT DEF StageInv, Unstaged, Majors
<1>8. benchLock = flakeLock \/ owed \/ flakeLock[2] # 0
  BY <1>1 DEF RelockInv
<1>9. RelockInv' /\ RelockedInRun'
  BY <1>1, <1>8, Zenon DEF RelockInv, RelockedInRun
<1>10. LastInv'
  <2>1. text[Flake] = major /\ flakeLock[1] = major /\ toolsLock = major /\ Untracked = {}
    BY <1>1 DEF PlanInv, LockInv, FlakeWritten, FlakeLocked, ToolsLocked
  <2>2. text[Flake] # Own
    BY <2>1, SyncAssumption, SMT DEF TypeOK, Majors, Own
  <2>3. \A e \in Entries : Item(e, Whole)' = Item(e, Whole)
    BY <1>1, <2>2, ItemSame
  <2>4. Untracked' = Untracked
    BY <1>1 DEF Untracked, Exists
  <2>5. \A e \in Entries : Item(e, Whole)[2] = Keep
    <3>1. \A e \in Entries : Item(e, Whole)[2] \in {Keep, plan[e]} /\ plan[e] \in {Keep, Written}
      BY <1>1 DEF PlanInv, AllPlanned
    <3>2. Written \notin Texts
      BY SyncAssumption, SMT DEF Texts, Majors, Written, Missing, Own, Edited
    <3> QED
      BY <3>1, <3>2, ItemShape
  <2> QED
    BY <1>1, <1>2, <2>1, <2>3, <2>4, <2>5, Zenon DEF LastInv
<1> QED
  BY <1>3, <1>4, <1>5, <1>6, <1>7, <1>9, <1>10

LEMMA StopStep ==
  ASSUME IInv, Stop
  PROVE  IInv'
<1> USE DEF IInv
<1>1. /\ pc' = "idle" /\ plan' = [e \in Entries |-> Keep]
      /\ force' = FALSE /\ handed' = FALSE /\ changed' = FALSE /\ last' = Never
      /\ owed' = (owed \/ (changed /\ benchLock # flakeLock))
      /\ UNCHANGED <<major, want, ever, text, region, tracked, flakeLock, toolsLock, benchLock, edits, runs>>
  BY DEF Stop, Goto, Owes, tree, config, files, locks
<1>2. killed' = TRUE \/ (killed' = killed /\ pc \notin Unstaged)
  BY DEF Stop, Unstaged
<1>3. TypeOK'
  <2>1. owed' \in BOOLEAN /\ killed' \in BOOLEAN /\ plan' \in [Entries -> Texts \cup {Keep, Written}]
    BY <1>1, <1>2, Zenon DEF TypeOK
  <2>2. last' \in Clean..Never
    BY <1>1, SMT DEF Clean, Never
  <2>3. faults' \in 0..MaxFaults
    BY SyncAssumption, SMT DEF Stop, TypeOK
  <2> QED
    BY <1>1, <2>1, <2>2, <2>3, Zenon DEF TypeOK, Places, Majors
<1>4. ConfigInv'
  BY <1>1 DEF ConfigInv
<1>5. PlanInv'
  BY <1>1, PlanDone DEF AllPlanned, FlakeWritten
<1>6. LockInv'
  BY <1>1 DEF LockInv, FlakeLocked, FlakeWritten, ToolsLocked
<1>7. StageInv'
  BY <1>1, <1>2, SMT DEF StageInv, Majors
<1>8. RelockInv'
  <2>1. ~owed' => ~owed /\ (changed => benchLock = flakeLock)
    BY <1>1, Zenon
  <2>2. UNCHANGED <<flakeLock, benchLock>> /\ pc' = "idle" /\ ~changed' /\ ~force'
    BY <1>1
  <2> QED
    BY <2>1, <2>2, Zenon DEF RelockInv
<1>9. LastInv' /\ RelockedInRun'
  BY <1>1 DEF LastInv, RelockedInRun, Clean, Drift, Never
<1> QED
  BY <1>3, <1>4, <1>5, <1>6, <1>7, <1>8, <1>9

-----------------------------------------------------------------------------
LEMMA InitIInv == Init => IInv
<1> SUFFICES ASSUME Init PROVE IInv
  OBVIOUS
<1>1. /\ major = 1 /\ pc = "idle" /\ plan = [e \in Entries |-> Keep] /\ last = Never
      /\ force = FALSE /\ handed = FALSE /\ changed = FALSE /\ killed = FALSE /\ owed = FALSE
      /\ edits = 0 /\ runs = 0 /\ faults = 0
  BY DEF Init
<1>2. /\ want \in [Entries -> {"on", "off"}] /\ want[Flake] = "on"
      /\ ever \in Seq(SUBSET Entries)
      /\ text \in [Entries -> Texts] /\ region \in [Entries -> BOOLEAN]
      /\ \A e \in Entries : region[e] => Kind[e] = "whole"
      /\ tracked \subseteq Entries \cup LockFiles
      /\ flakeLock \in LockStates /\ toolsLock \in 0..MaxMajor /\ benchLock = flakeLock
      /\ \A e \in Entries : text[e] \in Majors => e \in tracked
  <2>1. /\ major \in Texts /\ Missing \in Texts /\ Own \in Texts /\ NoLock \in LockStates
        /\ <<major, 0>> \in LockStates /\ 0 \in 0..MaxMajor /\ major \in 0..MaxMajor
        /\ Missing \notin Majors /\ Own \notin Majors
    BY <1>1, SyncAssumption, SMT DEF Texts, Majors, Missing, Own, NoLock, LockStates
  <2>2. CASE Unsynced
    <3>1. want \in [Entries -> {"on", "off"}] /\ want[Flake] = "on"
      BY <2>2, SyncAssumption DEF Unsynced, Optional
    <3>2. ever \in Seq(SUBSET Entries)
      BY <2>2, SyncAssumption, SMT DEF Unsynced
    <3>3. text \in [Entries -> Texts] /\ region \in [Entries -> BOOLEAN] /\ \A e \in Entries : ~region[e]
      BY <2>1, <2>2, SMT DEF Unsynced
    <3>4. \A e \in Entries : text[e] \notin Majors
      BY <2>1, <2>2, Zenon DEF Unsynced
    <3> QED
      BY <2>1, <2>2, <3>1, <3>2, <3>3, <3>4, Zenon DEF Unsynced
  <2>3. CASE Synced
    <3>1. want \in [Entries -> {"on", "off"}] /\ want[Flake] = "on"
      BY <2>3, SyncAssumption DEF Synced, Optional
    <3>2. ever \in Seq(SUBSET Entries)
      BY <2>3, SMT DEF Synced
    <3>3. text \in [Entries -> Texts]
      BY <2>1, <2>3, Zenon DEF Synced
    <3> QED
      BY <2>1, <2>3, <3>1, <3>2, <3>3, Zenon DEF Synced
  <2> QED
    BY <2>2, <2>3 DEF Init
<1>3. TypeOK
  <2>1. major \in Majors /\ edits \in 0..MaxEdits /\ runs \in 0..MaxRuns /\ faults \in 0..MaxFaults
        /\ last \in Clean..Never
    BY <1>1, SyncAssumption, SMT DEF Majors, Clean, Never
  <2>2. plan \in [Entries -> Texts \cup {Keep, Written}] /\ want \in [Entries -> {"on", "idle", "off"}]
    BY <1>1, <1>2, Zenon
  <2> QED
    BY <1>1, <1>2, <2>1, <2>2, Zenon DEF TypeOK, Places
<1>4. ConfigInv
  BY <1>2 DEF ConfigInv
<1>5. PlanInv /\ LockInv
  BY <1>1 DEF PlanInv, LockInv, AllPlanned, FlakeWritten, FlakeLocked, ToolsLocked
<1>6. StageInv
  BY <1>2 DEF StageInv
<1>7. RelockInv /\ RelockedInRun /\ LastInv
  BY <1>1, <1>2 DEF RelockInv, RelockedInRun, LastInv, Clean, Drift, Never
<1> QED
  BY <1>3, <1>4, <1>5, <1>6, <1>7 DEF IInv

LEMMA StepIInv == IInv /\ [Next]_vars => IInv'
<1> SUFFICES ASSUME IInv, [Next]_vars PROVE IInv'
  OBVIOUS
<1>1. CASE UNCHANGED vars
  <2>1. /\ UNCHANGED <<major, want, ever, text, region, tracked, flakeLock, toolsLock, benchLock>>
        /\ UNCHANGED <<pc, plan, force, handed, changed, last, killed, owed, edits, runs, faults>>
        /\ UNCHANGED config
    BY <1>1 DEF vars, tree, config, files, locks, proc, count, bounds
  <2>2. \A e \in Entries : Item(e, Whole)' = Item(e, Whole)
    BY <2>1, ItemSame
  <2>3. Untracked' = Untracked
    BY <2>1 DEF Untracked, Exists
  <2>4. TypeOK' /\ ConfigInv'
    BY <2>1 DEF IInv, TypeOK, ConfigInv
  <2>5. PlanInv' /\ LockInv'
    BY <2>1, <2>2, <2>3 DEF IInv, PlanInv, LockInv
  <2>6. StageInv' /\ RelockInv' /\ RelockedInRun'
    BY <2>1 DEF IInv, StageInv, RelockInv, RelockedInRun
  <2>7. LastInv'
    BY <2>1, <2>2, <2>3 DEF IInv, LastInv
  <2> QED
    BY <2>4, <2>5, <2>6, <2>7 DEF IInv
<1>2. ASSUME Step PROVE IInv'
  BY <1>2, PlanStep, WriteStep, StagesStep, LockFlakeStep, HandoverStep, LockToolsStep, RelockStep, AfterStep, Zenon
  DEF Step
<1> QED
  BY <1>1, <1>2, ConfigureStep, UpdateInputsStep, EditStep, StartStep, StopStep, Zenon DEF Next

\* The invariant the theorems below follow from.
THEOREM Inductive == Spec => []IInv
  BY InitIInv, StepIInv, PTL DEF Spec

\* The shapes of the app's tree and of the sync's state (TypeOK), for any entries, majors,
\* edits, syncs and faults.
THEOREM TypeCorrect == Spec => []TypeOK
  BY Inductive, PTL DEF IInv

\* A check agrees with the sync before it and with a check in any clone, and one sync is
\* enough (CheckTells), whatever was cut short before.
THEOREM CheckTellsHolds == Spec => []CheckTells
<1>1. IInv => CheckAgrees
  <2> SUFFICES ASSUME IInv, last = Clean PROVE Check(Whole) = Clean
    BY DEF CheckAgrees
  <2>1. ~FlakeStale /\ ~ToolsStale /\ Untracked = {} /\ \A e \in Entries : Item(e, Whole)[1] = Clean
    BY DEF IInv, LastInv, FlakeStale, ToolsStale
  <2> QED
    BY <2>1, CheckIs DEF IInv
<1>2. IInv => OneIsEnough
  BY DEF IInv, LastInv, OneIsEnough, ToolsStale
<1>3. IInv => CheckTells
  BY <1>1, <1>2, Shallow DEF IInv, CheckTells
<1> QED
  BY <1>3, Inductive, PTL

\* What a sync rendered is tracked and what it locked is relocked by the time it is over,
\* unless it is killed, fails or is refused in between (DoneInRun).
THEOREM DoneInRunHolds == Spec => []DoneInRun
<1>1. IInv => DoneInRun
  BY DEF IInv, StageInv, DoneInRun, StagedUnlessKilled, Unstaged
<1> QED
  BY <1>1, Inductive, PTL

\* No step of a sync takes a local region, a file of the app's own whose entry is not on, or
\* a seed (AppsOwnKept).
THEOREM AppsOwnKeptHolds == Spec => AppsOwnKept
<1> DEFINE Kept == pc # "idle" =>
             \A e \in Entries :
               /\ region[e] => region'[e]
               /\ text[e] = Own /\ want[e] # "on" => text'[e] = Own
               /\ Kind[e] = "seed" /\ text[e] # Missing => text'[e] = text[e]
<1>1. IInv /\ [Next]_vars => [Kept]_vars
  <2> SUFFICES ASSUME IInv, Next, pc # "idle", NEW e \in Entries
               PROVE  /\ region[e] => region'[e]
                      /\ text[e] = Own /\ want[e] # "on" => text'[e] = Own
                      /\ Kind[e] = "seed" /\ text[e] # Missing => text'[e] = text[e]
    OBVIOUS
  <2>1. UNCHANGED files \/ \E from, to \in Places : WriteFile(from, to)
    BY Zenon DEF Next, Step, Start, Configure, UpdateInputs, Edit, Touch, PlanA, PlanB, StageA, StageLock, StageB,
       StageTools, StageEnd, Stage, LockFlake, Handover, LockTools, Relock, After, Stop, tree, Places
  <2>2. CASE UNCHANGED files
    BY <2>2 DEF files
  <2>3. ASSUME NEW x \in ToWrite, text' = [text EXCEPT ![x] = plan[x]],
               region' = [region EXCEPT ![x] = @ /\ plan[x] # Missing], x = e
        PROVE  /\ region[e] => region'[e]
               /\ text[e] = Own /\ want[e] # "on" => text'[e] = Own
               /\ Kind[e] = "seed" /\ text[e] # Missing => text'[e] = text[e]
    <3>1. plan[e] = Item(e, Whole)[2] /\ plan[e] # Keep
      BY <2>3 DEF ToWrite, IInv, PlanInv
    <3>2. /\ region[e] => plan[e] # Missing
          /\ text[e] = Own => want[e] = "on"
          /\ Kind[e] = "seed" => text[e] = Missing
      BY <3>1, ItemSpares DEF IInv, ConfigInv
    <3>3. region[e] => region'[e]
      BY <2>3, <3>2, Zenon DEF IInv, TypeOK
    <3> QED
      BY <3>2, <3>3
  <2>4. ASSUME NEW x \in ToWrite, text' = [text EXCEPT ![x] = plan[x]],
               region' = [region EXCEPT ![x] = @ /\ plan[x] # Missing], x # e
        PROVE  text'[e] = text[e] /\ (region[e] => region'[e])
    BY <2>4, Zenon DEF IInv, TypeOK
  <2>5. ASSUME NEW from \in Places, NEW to \in Places, WriteFile(from, to)
        PROVE  \/ UNCHANGED files
               \/ \E x \in ToWrite : /\ text' = [text EXCEPT ![x] = plan[x]]
                                     /\ region' = [region EXCEPT ![x] = @ /\ plan[x] # Missing]
    BY <2>5, Zenon DEF WriteFile, ToWrite
  <2> QED
    BY <2>1, <2>2, <2>3, <2>4, <2>5, Zenon
<1> QED
  BY <1>1, Inductive, PTL DEF Spec, AppsOwnKept
=============================================================================
