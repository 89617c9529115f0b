---------------------------- MODULE BotPrProofs -----------------------------
(***************************************************************************)
(* Proofs about what works on the repositories of an app. First BotPr, for *)
(* any PRs, metadata and settings, and any numbers of heads, rebases,      *)
(* weekly relocks and faults: the invariant is of where the bumps of a     *)
(* branch come from (Based), of how the heads of a PR follow each other    *)
(* (Follows), and of what a job under way has seen (Running). Then its     *)
(* release branch (Release), its entry in the registry (Registry) and the  *)
(* rollouts of frappe-nix to it (Rollout), an instance of each over        *)
(* variables of its own.                                                   *)
(***************************************************************************)
EXTENDS BotPr, FiniteSetTheorems, TLAPS

Branches == [n : Nat, flake : SUBSET Bumps, lock : Locks]
RunRecords ==
  [plan : {"none", "todo", "skipped", "patch", "moved", "empty"},
   push : {"none", "todo", "got", "pushed", "sent"}, got : 0..MaxHeads, auto : {"none", "todo"}]
Commits ==
  [pr : Prs, base : Branches, flake : SUBSET Bumps, lock : Locks, checks : SUBSET Contexts,
   run : RunRecords]
PrRecords ==
  [st : {"none", "open", "merged", "closed"}, meta : Metas \cup {NoMeta, Weekly},
   head : 0..MaxHeads, auto : BOOLEAN, kept : BOOLEAN, pushed : Nat, relocks : Nat]

Types ==
  /\ byApp \in BOOLEAN /\ protected \in BOOLEAN
  /\ integ \in Branches /\ heads \in Seq(Commits) /\ Len(heads) <= MaxHeads
  /\ pr \in [Prs -> PrRecords]
  /\ moved \in Prs \cup {0} /\ week \in {"off", "pushed", "sent"}
  /\ rebases \in 0..MaxRebases /\ weeks \in 0..MaxWeeks

\* The bumps that the PR of a head itself brought, and those that its lock has to follow.
Own(c) == {b \in c.flake : b[1] = c.pr}
Matter(flake) == {b \in flake : b[3]}
InStep(branch) == branch.lock.bumps = Matter(branch.flake)
OwnIn(c) == Matter(Own(c)) \subseteq c.lock.bumps

\* A bump is of a merged PR, and with it came all that this PR brought.
From(x, flake) == pr[x[1]].st = "merged" /\ \A y \in integ.flake : y[1] = x[1] => y \in flake

MergedOnly == \A x \in integ.flake \cup integ.lock.bumps : pr[x[1]].st = "merged"

\* What is not a head's own is of the integration branch that it was based on.
Grounded(c) ==
  /\ c.base.flake \subseteq integ.flake /\ c.base.flake \subseteq c.flake
  /\ \A x \in c.flake : x[1] = c.pr \/ x \in c.base.flake
  /\ \A x \in c.base.flake \cup c.base.lock.bumps : x[1] # c.pr /\ From(x, c.base.flake)
  /\ \A x \in c.lock.bumps : x[1] = c.pr \/ From(x, c.base.flake)
Based(c) == Grounded(c) /\ (Own(c) # {} => pr[c.pr].meta.eco = "nix")

\* A head has the lock that it was based on, or one made for it.
Locked(c) == c.lock = c.base.lock \/ (InStep(c.base) => InStep(c))

\* The newest head has what an older one has, and all heads of a PR that was pushed once
\* have the same bump of its own.
Follows(h) ==
  /\ pr[Of(h)].st # "none"
  /\ heads[h].base.flake \subseteq Tip(Of(h)).base.flake
  /\ pr[Of(h)].pushed <= 1 =>
       /\ Own(heads[h]) = Own(Tip(Of(h))) /\ Locked(heads[h])
       /\ OwnIn(heads[h]) => OwnIn(Tip(Of(h)))

\* A patch is pushed where the lock that it was made from still is, and its PR is relocked.
Running(h) ==
  /\ heads[h].run.plan = "todo" => pr[Of(h)].meta.eco = "nix"
  /\ heads[h].run.plan = "empty" => ~Stale(heads[h])
  /\ heads[h].run.push # "none" =>
       heads[h].run.plan # "todo" /\ Decide(pr[Of(h)].meta) = "relock"
  /\ heads[h].run.push = "got" =>
       /\ heads[h].run.got \in Runs /\ Of(heads[h].run.got) = Of(h)
       /\ heads[heads[h].run.got].lock = heads[h].lock
  /\ heads[h].run.push \in {"pushed", "sent"} /\ pr[Of(h)].pushed <= 1 => OwnIn(Tip(Of(h)))
  /\ heads[h].run.got <= Len(heads)

\* A PR with auto-merge on may have it, and if it was pushed once its lock has its bump.
Led(p) ==
  /\ pr[p].st = "none" => pr[p].head = 0 /\ pr[p].relocks = 0
  /\ pr[p].st # "none" =>
       /\ pr[p].head \in Runs /\ Of(pr[p].head) = p
       /\ pr[p].meta.author = "dependabot" => pr[p].pushed >= 1
  /\ pr[p].auto => Open(p) /\ Ruled(p) /\ (pr[p].pushed <= 1 => OwnIn(Tip(p)))
  /\ pr[p].pushed <= rebases + 1

IInv ==
  /\ Types /\ MergedOnly
  /\ \A h \in Runs : Based(heads[h]) /\ Follows(h) /\ Running(h)
  /\ \A p \in Prs : Led(p)

LEMMA Bounds ==
  /\ MaxHeads \in Nat /\ MaxRebases \in Nat /\ MaxWeeks \in Nat /\ MaxFaults \in Nat
  /\ \A n \in Nat : 0 \in 0..n /\ 1 \in 1..n+1
  BY BotPrAssumption

LEMMA BumpHas == \A b \in Bumps : b[1] \in Prs /\ b[3] \in BOOLEAN
  BY DEF Bumps

LEMMA LockOfIs ==
  ASSUME NEW f \in SUBSET Bumps, NEW u \in 0..MaxWeeks
  PROVE  LockOf(f, u) \in Locks /\ LockOf(f, u).bumps = Matter(f) /\ LockOf(f, u).up = u
  BY DEF LockOf, Locks, Matter

LEMMA RelockedIs ==
  ASSUME NEW c \in Commits
  PROVE  /\ Relocked(c) \in Locks /\ Relocked(c).bumps = Matter(c.flake)
         /\ ~Stale(c) => InStep(c)
         /\ InStep(c) => ~Stale(c)
<1>1. c.flake \in SUBSET Bumps /\ c.lock \in Locks /\ c.lock.up \in 0..MaxWeeks
  BY DEF Commits, Locks
<1>2. Relocked(c) = LockOf(c.flake, c.lock.up)
  BY DEF Relocked
<1>3. Relocked(c) \in Locks /\ Relocked(c).bumps = Matter(c.flake) /\ Relocked(c).up = c.lock.up
  BY <1>1, <1>2, LockOfIs
<1>4. c.lock = Relocked(c) <=> c.lock.bumps = Relocked(c).bumps
  BY <1>1, <1>3 DEF Locks
<1> QED
  BY <1>3, <1>4 DEF Stale, InStep

LEMMA TypesAre == IInv => TypeOK
<1> SUFFICES ASSUME IInv PROVE TypeOK
  OBVIOUS
<1> USE DEF IInv, Types
<1>1. integ.n \in Nat /\ integ.flake \subseteq Bumps /\ integ.lock \in Locks
  BY DEF Branches
<1>2. ASSUME NEW h \in Runs
      PROVE  /\ heads[h].pr \in Prs /\ heads[h].flake \subseteq Bumps /\ heads[h].lock \in Locks
             /\ heads[h].checks \subseteq Contexts
             /\ heads[h].run.plan \in {"none", "todo", "skipped", "patch", "moved", "empty"}
             /\ heads[h].run.push \in {"none", "todo", "got", "pushed", "sent"}
             /\ heads[h].run.auto \in {"none", "todo"} /\ heads[h].run.got \in 0..Len(heads)
  <2>1. heads[h] \in Commits
    BY DEF Runs
  <2>2. heads[h].run.got <= Len(heads)
    BY DEF Running
  <2> QED
    BY <2>1, <2>2 DEF Commits, RunRecords
<1>3. ASSUME NEW p \in Prs
      PROVE  /\ pr[p].st \in {"none", "open", "merged", "closed"}
             /\ pr[p].meta \in Metas \cup {NoMeta, Weekly}
             /\ pr[p].st # "none" => pr[p].head \in Runs /\ Tip(p).pr = p
             /\ pr[p].auto => Open(p)
  BY DEF PrRecords, Led, Tip, Of
<1> QED
  BY <1>1, <1>2, <1>3 DEF TypeOK

-----------------------------------------------------------------------------
\* The heads are what they were, but for their checks and jobs.
OldHeads ==
  /\ heads' \in Seq(Commits) /\ Len(heads') >= Len(heads)
  /\ \A h \in Runs :
       /\ heads'[h].pr = heads[h].pr /\ heads'[h].base = heads[h].base
       /\ heads'[h].flake = heads[h].flake /\ heads'[h].lock = heads[h].lock

\* No PR has another head, and none is merged.
SamePrs ==
  /\ pr' \in [Prs -> PrRecords]
  /\ \A p \in Prs :
       /\ pr'[p].meta = pr[p].meta /\ pr'[p].head = pr[p].head /\ pr'[p].pushed = pr[p].pushed
       /\ pr'[p].relocks = pr[p].relocks
       /\ pr'[p].st # pr[p].st => pr[p].st = "open" /\ pr'[p].st = "closed"

\* The integration branch has the same inputs and lock.
SameInteg == integ' \in Branches /\ integ'.flake = integ.flake /\ integ'.lock = integ.lock

\* What holds of the branches, whatever is done to the jobs.
LEMMA BranchesKept ==
  ASSUME IInv, OldHeads, Len(heads') = Len(heads), SamePrs, SameInteg
  PROVE  /\ MergedOnly'
         /\ \A h \in Runs : Based(heads[h])' /\ Follows(h)'
         /\ \A h \in Runs : OwnIn(heads[h])' <=> OwnIn(heads[h])
         /\ \A p \in Prs : pr[p].st # "none" => (OwnIn(Tip(p))' <=> OwnIn(Tip(p)))
         /\ Runs' = Runs
<1> USE DEF IInv, Types
<1>1. Runs = 1..Len(heads) /\ Runs' = Runs
  BY DEF Runs, OldHeads
<1>2. \A h \in Runs : heads[h] \in Commits /\ Of(h) \in Prs /\ Of(h)' = Of(h)
  <2>1. heads \in Seq(Commits)
    OBVIOUS
  <2>2. \A h \in Runs : heads[h] \in Commits
    BY ONLY <1>1, <2>1
  <2> QED
    BY ONLY <2>2, OldHeads DEF Commits, Of, OldHeads
<1>3. MergedOnly'
  BY BumpHas DEF MergedOnly, SamePrs, SameInteg, Branches, Locks
<1>4. \A x \in Bumps : \A f \in SUBSET Bumps : From(x, f) => From(x, f)'
  BY BumpHas DEF From, SamePrs, SameInteg
<1>5. ASSUME NEW h \in Runs
      PROVE  /\ Own(heads[h])' = Own(heads[h])
             /\ (OwnIn(heads[h])' <=> OwnIn(heads[h]))
                              /\ (Locked(heads[h])' <=> Locked(heads[h]))
  BY <1>5 DEF OldHeads, Own, OwnIn, Locked, InStep, Matter
<1>6. ASSUME NEW h \in Runs PROVE Based(heads[h])'
  <2>1. Based(heads[h]) /\ heads[h] \in Commits /\ Own(heads[h])' = Own(heads[h])
    BY <1>2, <1>5
  <2>2. heads[h].base.flake \subseteq Bumps /\ heads[h].base.lock.bumps \subseteq Bumps
        /\ heads[h].lock.bumps \subseteq Bumps /\ heads[h].pr \in Prs
    BY <2>1 DEF Commits, Branches, Locks
  <2> QED
    BY <2>1, <2>2, <1>4 DEF Based, Grounded, OldHeads, SamePrs, SameInteg
<1>7. ASSUME NEW p \in Prs, pr[p].st # "none"
      PROVE  /\ pr[p].head \in Runs /\ Tip(p)' = heads'[pr[p].head] /\ Tip(p) = heads[pr[p].head]
             /\ (OwnIn(Tip(p))' <=> OwnIn(Tip(p))) /\ Own(Tip(p))' = Own(Tip(p))
             /\ Tip(p)'.base = Tip(p).base
  <2>1. pr[p].head \in Runs
    BY <1>7 DEF Led
  <2>2. Tip(p)' = heads'[pr[p].head] /\ Tip(p) = heads[pr[p].head]
    BY DEF Tip, SamePrs
  <2> QED
    BY <2>1, <2>2, <1>5 DEF OldHeads, Own, OwnIn, Matter
<1>8. ASSUME NEW h \in Runs PROVE Follows(h)'
  <2>1. Follows(h) /\ Of(h) \in Prs /\ Of(h)' = Of(h)
    BY <1>2
  <2>2. pr[Of(h)].st # "none"
    BY <2>1 DEF Follows
  <2>3. /\ (OwnIn(Tip(Of(h)))' <=> OwnIn(Tip(Of(h)))) /\ Own(Tip(Of(h)))' = Own(Tip(Of(h)))
        /\ Tip(Of(h))'.base = Tip(Of(h)).base
    BY <2>1, <2>2, <1>7
  <2>4. pr'[Of(h)].st # "none" /\ pr'[Of(h)].pushed = pr[Of(h)].pushed
    BY <2>1, <2>2 DEF SamePrs
  <2>5. heads'[h].base = heads[h].base
    BY DEF OldHeads
  <2> QED
    BY <2>1, <2>2, <2>3, <2>4, <2>5, <1>5 DEF Follows
<1> QED
  BY <1>1, <1>3, <1>5, <1>6, <1>7, <1>8

\* What a job may be at next, on branches that are what they were.
RunMay(h) ==
  /\ heads'[h].run.plan = "todo" => heads[h].run.plan = "todo"
  /\ heads'[h].run.plan = "empty" => ~Stale(heads[h])
  /\ heads'[h].run.push # "none" =>
       heads'[h].run.plan # "todo" /\ Decide(pr[Of(h)].meta) = "relock"
  /\ heads'[h].run.push = "got" =>
       /\ heads'[h].run.got \in Runs /\ Of(heads'[h].run.got) = Of(h)
       /\ heads[heads'[h].run.got].lock = heads[h].lock
  /\ heads'[h].run.push \in {"pushed", "sent"} => heads[h].run.push \in {"pushed", "sent"}
  /\ heads'[h].run.push \in {"todo", "got"} =>
       \/ heads[h].run.push \in {"todo", "got"}
       \/ heads[h].run.plan = "todo" /\ Stale(heads[h])
  /\ heads'[h].run.got <= Len(heads)
JobsOnly ==
  /\ OldHeads /\ Len(heads') = Len(heads)
  /\ \A h \in Runs : heads'[h].run = heads[h].run \/ RunMay(h)

\* What the other jobs do brings no relock nearer: there is as much to push as there was.
Quiet == JobsOnly /\ SamePrs

AutoMay(p) ==
  pr'[p].auto =>
    /\ pr'[p].st = "open"
    /\ pr[p].auto \/ (Ruled(p) /\ (pr[p].pushed <= 1 => OwnIn(Tip(p))))

\* A step of the jobs, of people or of GitHub that brings no new head and merges nothing.
LEMMA JobStep ==
  ASSUME IInv, JobsOnly, SamePrs, SameInteg, UNCHANGED conf,
         moved' \in Prs \cup {0}, week' \in {"off", "pushed", "sent"},
         rebases' = rebases, weeks' = weeks,
         \A p \in Prs : AutoMay(p)
  PROVE  IInv' /\ Quiet
<1> USE DEF IInv
<1> SUFFICES ASSUME OldHeads, Len(heads') = Len(heads),
                    \A h \in Runs : heads'[h].run = heads[h].run \/ RunMay(h)
             PROVE  IInv'
  BY DEF JobsOnly, Quiet
<1>1. /\ MergedOnly'
      /\ \A h \in Runs : Based(heads[h])' /\ Follows(h)'
      /\ \A p \in Prs : pr[p].st # "none" => (OwnIn(Tip(p))' <=> OwnIn(Tip(p)))
      /\ Runs' = Runs
  BY BranchesKept
<1>2. Types'
  BY DEF Types, SamePrs, SameInteg, OldHeads, conf, PrRecords, Weekly
<1>3. \A m : Decide(m)' = Decide(m)
  BY DEF conf, Decide, Automatic, MinorOrPatch, MovesFrappeNix, RolloutInputs
<1>4. ASSUME NEW p \in Prs PROVE Led(p)'
  <2>1. Led(p) /\ AutoMay(p)
    OBVIOUS
  <2>2. /\ pr'[p].meta = pr[p].meta /\ pr'[p].head = pr[p].head /\ pr'[p].pushed = pr[p].pushed
        /\ pr'[p].relocks = pr[p].relocks
        /\ pr'[p].st # pr[p].st => pr[p].st = "open" /\ pr'[p].st = "closed"
    BY DEF SamePrs
  <2>3. pr[p].st # "none" => Of(pr[p].head)' = p
    BY <2>1, <2>2 DEF Led, Of, OldHeads
  <2>4. Ruled(p)' <=> Ruled(p)
    BY <1>3, <2>2 DEF Ruled, conf, Weekly
  <2>5. pr'[p].auto => pr[p].st = "open" /\ Ruled(p) /\ (pr[p].pushed <= 1 => OwnIn(Tip(p)))
    BY <2>1, <2>2 DEF Led, AutoMay, Open
  <2>6. pr'[p].auto => Open(p)' /\ Ruled(p)' /\ (pr'[p].pushed <= 1 => OwnIn(Tip(p))')
    BY <2>1, <2>2, <2>4, <2>5, <1>1 DEF AutoMay, Open
  <2> QED
    BY <2>1, <2>2, <2>3, <2>6, <1>1 DEF Led
<1>5. ASSUME NEW h \in Runs PROVE Running(h)'
  <2>1. /\ heads[h] \in Commits /\ heads'[h].pr = heads[h].pr /\ heads'[h].lock = heads[h].lock
        /\ heads'[h].flake = heads[h].flake /\ Of(h) \in Prs /\ Of(h)' = Of(h)
    <3>1. heads[h] \in Commits
      BY DEF Types, Runs
    <3> QED
      BY <3>1 DEF Of, Commits, OldHeads
  <2>2. pr[Of(h)].st # "none" /\ Running(h)
    BY DEF Follows
  <2>3. pr'[Of(h)].meta = pr[Of(h)].meta /\ pr'[Of(h)].pushed = pr[Of(h)].pushed
    BY <2>1 DEF SamePrs
  <2>4. Stale(heads[h])' = Stale(heads[h])
    BY <2>1 DEF Stale, Relocked, LockOf
  <2>5. OwnIn(Tip(Of(h)))' <=> OwnIn(Tip(Of(h)))
    BY <1>1, <2>1, <2>2
  <2>6. \A g \in Runs : Of(g)' = Of(g) /\ heads'[g].lock = heads[g].lock
    BY DEF OldHeads, Of
  <2>7. Decide(pr[Of(h)].meta)' = Decide(pr[Of(h)].meta)
    BY <1>3, <2>1, <2>3
  <2>8. CASE heads'[h].run = heads[h].run
    BY <2>1, <2>2, <2>3, <2>4, <2>5, <2>6, <2>7, <2>8, <1>1 DEF Running
  <2>9. CASE RunMay(h)
    BY <2>1, <2>2, <2>3, <2>4, <2>5, <2>6, <2>7, <2>9, <1>1 DEF Running, RunMay
  <2> QED
    BY <2>8, <2>9
<1> QED
  BY <1>1, <1>2, <1>4, <1>5

-----------------------------------------------------------------------------
\* The heads after a job has moved on.
JobMoves(hs, new, h, r) ==
  /\ new \in Seq(Commits) /\ Len(new) = Len(hs)
  /\ \A i \in 1..Len(hs) :
       /\ new[i].pr = hs[i].pr /\ new[i].base = hs[i].base
       /\ new[i].flake = hs[i].flake /\ new[i].lock = hs[i].lock
       /\ new[i].run = IF i = h THEN r ELSE hs[i].run

LEMMA RunSet ==
  ASSUME NEW hs \in Seq(Commits), NEW h \in 1..Len(hs), NEW r \in RunRecords
  PROVE  JobMoves(hs, [hs EXCEPT ![h].run = r], h, r)
<1> DEFINE c == [hs[h] EXCEPT !.run = r]
           new == [hs EXCEPT ![h] = c]
<1>1. hs[h] \in Commits
  OBVIOUS
<1>2. /\ c \in Commits /\ c.pr = hs[h].pr /\ c.base = hs[h].base
      /\ c.flake = hs[h].flake /\ c.lock = hs[h].lock /\ c.run = r
  BY <1>1 DEF Commits
<1> HIDE DEF c
<1>3. /\ new \in Seq(Commits) /\ Len(new) = Len(hs)
      /\ \A i \in 1..Len(hs) : new[i] = IF i = h THEN c ELSE hs[i]
  BY <1>2
<1>4. new = [hs EXCEPT ![h].run = r]
  BY DEF c
<1> HIDE DEF new
<1> QED
  BY <1>2, <1>3, <1>4 DEF JobMoves

\* A push job that moves on, and its record.
AtPush(c, v, g) == [c.run EXCEPT !.push = v, !.got = g]
PushGets(hs, h, v, g) == [hs EXCEPT ![h].run.push = v, ![h].run.got = g]
PushGoes(hs, h, v) == [hs EXCEPT ![h].run.push = v]

LEMMA AtPushIs ==
  ASSUME NEW c \in Commits, NEW v \in {"none", "todo", "got", "pushed", "sent"},
         NEW g \in 0..MaxHeads
  PROVE  /\ AtPush(c, v, g) \in RunRecords
         /\ AtPush(c, v, g).push = v /\ AtPush(c, v, g).got = g
         /\ AtPush(c, v, g).plan = c.run.plan /\ AtPush(c, v, g).auto = c.run.auto
<1>1. c.run \in RunRecords
  BY DEF Commits
<1> QED
  BY <1>1 DEF RunRecords, AtPush

LEMMA PushSet ==
  ASSUME NEW hs \in Seq(Commits), NEW h \in 1..Len(hs),
         NEW v \in {"none", "todo", "got", "pushed", "sent"}
  PROVE  /\ \A g \in 0..MaxHeads : JobMoves(hs, PushGets(hs, h, v, g), h, AtPush(hs[h], v, g))
         /\ JobMoves(hs, PushGoes(hs, h, v), h, AtPush(hs[h], v, hs[h].run.got))
<1>1. hs[h] \in Commits
  OBVIOUS
<1>2. hs[h].run \in RunRecords
  BY <1>1 DEF Commits
<1>3. ASSUME NEW g \in 0..MaxHeads
      PROVE  PushGets(hs, h, v, g) = [hs EXCEPT ![h].run = AtPush(hs[h], v, g)]
  BY <1>1, <1>2 DEF Commits, RunRecords, AtPush, PushGets
<1>4. [hs[h].run EXCEPT !.push = v] = AtPush(hs[h], v, hs[h].run.got)
  BY <1>2 DEF RunRecords, AtPush
<1>5. PushGoes(hs, h, v) = [hs EXCEPT ![h].run = [hs[h].run EXCEPT !.push = v]]
  BY DEF PushGoes
<1>6. PushGoes(hs, h, v) = [hs EXCEPT ![h].run = AtPush(hs[h], v, hs[h].run.got)]
  BY <1>4, <1>5
<1>7. hs[h].run.got \in 0..MaxHeads
  BY <1>2 DEF RunRecords
<1>8. \A g \in 0..MaxHeads : AtPush(hs[h], v, g) \in RunRecords
  BY <1>1, AtPushIs
<1>9. ASSUME NEW g \in 0..MaxHeads
      PROVE  JobMoves(hs, [hs EXCEPT ![h].run = AtPush(hs[h], v, g)], h, AtPush(hs[h], v, g))
  BY <1>8, RunSet
<1>10. ASSUME NEW g \in 0..MaxHeads
       PROVE  JobMoves(hs, PushGets(hs, h, v, g), h, AtPush(hs[h], v, g))
  BY <1>3, <1>9
<1>11. JobMoves(hs, PushGoes(hs, h, v), h, AtPush(hs[h], v, hs[h].run.got))
  BY <1>6, <1>7, <1>9
<1> QED
  BY <1>10, <1>11

\* A dispatch adds checks to one head.
LEMMA Dispatched ==
  ASSUME NEW hs \in Seq(Commits), NEW h \in 1..Len(hs), NEW cs \in SUBSET Contexts
  PROVE  /\ Dispatch(hs, h, cs) \in Seq(Commits) /\ Len(Dispatch(hs, h, cs)) = Len(hs)
         /\ \A i \in 1..Len(hs) :
              /\ Dispatch(hs, h, cs)[i].pr = hs[i].pr
              /\ Dispatch(hs, h, cs)[i].base = hs[i].base
              /\ Dispatch(hs, h, cs)[i].flake = hs[i].flake
              /\ Dispatch(hs, h, cs)[i].lock = hs[i].lock
              /\ Dispatch(hs, h, cs)[i].run = hs[i].run
<1> DEFINE c == [hs[h] EXCEPT !.checks = @ \cup cs]
           new == [hs EXCEPT ![h] = c]
<1>1. hs[h] \in Commits
  OBVIOUS
<1>2. /\ c \in Commits /\ c.pr = hs[h].pr /\ c.base = hs[h].base
      /\ c.flake = hs[h].flake /\ c.lock = hs[h].lock /\ c.run = hs[h].run
  BY <1>1 DEF Commits
<1> HIDE DEF c
<1>3. /\ new \in Seq(Commits) /\ Len(new) = Len(hs)
      /\ \A i \in 1..Len(hs) : new[i] = IF i = h THEN c ELSE hs[i]
  BY <1>2
<1>4. new = Dispatch(hs, h, cs)
  BY DEF c, Dispatch
<1> HIDE DEF new
<1> QED
  BY <1>2, <1>3, <1>4

-----------------------------------------------------------------------------
\* The steps of the jobs.
LEMMA Heads ==
  ASSUME Types
  PROVE  /\ heads \in Seq(Commits) /\ Runs = 1..Len(heads)
         /\ \A h \in Runs : heads[h] \in Commits /\ heads[h].run \in RunRecords /\ Of(h) \in Prs
<1>1. heads \in Seq(Commits) /\ Runs = 1..Len(heads)
  BY DEF Types, Runs
<1>2. \A h \in Runs : heads[h] \in Commits
  BY <1>1
<1> QED
  BY <1>1, <1>2 DEF Commits, Of

\* One job moves on, and no branch.
JobMay(h, r) ==
  /\ r.plan = "todo" => heads[h].run.plan = "todo"
  /\ r.plan = "empty" => ~Stale(heads[h])
  /\ r.push # "none" => r.plan # "todo" /\ Decide(pr[Of(h)].meta) = "relock"
  /\ r.push = "got" => /\ r.got \in Runs /\ Of(r.got) = Of(h)
                       /\ heads[r.got].lock = heads[h].lock
  /\ r.push \in {"pushed", "sent"} => heads[h].run.push \in {"pushed", "sent"}
  /\ r.push \in {"todo", "got"} => \/ heads[h].run.push \in {"todo", "got"}
                                   \/ heads[h].run.plan = "todo" /\ Stale(heads[h])
  /\ r.got <= Len(heads)

LEMMA OneJob ==
  ASSUME IInv, NEW h \in Runs, NEW r, JobMoves(heads, heads', h, r), JobMay(h, r)
  PROVE  JobsOnly
<1>1. Runs = 1..Len(heads)
  BY DEF Runs, IInv, Types
<1> QED
  BY <1>1 DEF JobsOnly, OldHeads, RunMay, JobMoves, JobMay

\* Nothing changes of the PRs.
LEMMA PrsAsTheyWere ==
  ASSUME IInv, pr' = pr, byApp' = byApp
  PROVE  SamePrs /\ \A p \in Prs : AutoMay(p)
<1>1. pr' \in [Prs -> PrRecords]
  BY DEF IInv, Types, PrRecords, Weekly
<1> QED
  BY <1>1 DEF SamePrs, AutoMay, IInv, Led, Open

\* A push job that ends.
LEMMA PushEnded ==
  ASSUME IInv, NEW h \in Runs, heads' = PushEnds(heads, h)
  PROVE  JobsOnly
<1>1. heads \in Seq(Commits) /\ Runs = 1..Len(heads) /\ Len(heads) \in Nat
  BY Heads DEF IInv, Types
<1>2. Running(h)
  BY DEF IInv
<1> DEFINE r == AtPush(heads[h], "none", 0)
<1>3. 0 \in 0..MaxHeads /\ heads[h] \in Commits
  BY BotPrAssumption, Heads DEF IInv
<1>4. PushEnds(heads, h) = PushGets(heads, h, "none", 0)
  BY DEF PushEnds, PushGets
<1>5. JobMoves(heads, heads', h, r)
  BY <1>1, <1>3, <1>4, PushSet
<1>6. r.push = "none" /\ r.got = 0 /\ r.plan = heads[h].run.plan
  BY <1>3, AtPushIs
<1> HIDE DEF r
<1> QED
  BY <1>1, <1>2, <1>5, <1>6, OneJob DEF Running, JobMay

LEMMA PlanStep == ASSUME IInv, NEW h \in Runs, Plan(h) PROVE IInv' /\ Quiet
<1>1. /\ heads \in Seq(Commits) /\ Runs = 1..Len(heads) /\ heads[h] \in Commits
      /\ heads[h].run \in RunRecords
  BY Heads DEF IInv
<1>2. Running(h)
  BY DEF IInv
<1>3. /\ NoRun \in RunRecords /\ NoRun.plan = "none" /\ NoRun.push = "none" /\ NoRun.got = 0
      /\ 0 <= Len(heads)
  BY <1>1, BotPrAssumption DEF NoRun, RunRecords
<1>4. CASE heads' = [heads EXCEPT ![h].run = NoRun]
  <2>1. JobsOnly
    BY <1>1, <1>3, <1>4, RunSet, OneJob DEF JobMay
  <2> QED
    BY <2>1, PrsAsTheyWere, JobStep DEF Plan, Keep, conf, counts, IInv, Types, SameInteg
<1>5. CASE heads' = [heads EXCEPT ![h].run =
                      [@ EXCEPT !.plan = PlanState(h), !.auto = "todo",
                                !.push = IF PlanState(h) = "patch" THEN "todo" ELSE "none"]]
  <2> DEFINE push == IF PlanState(h) = "patch" THEN "todo" ELSE "none"
             r == [heads[h].run EXCEPT !.plan = PlanState(h), !.auto = "todo", !.push = push]
  <2>1. PlanState(h) \in {"moved", "patch", "empty"} /\ push \in {"todo", "none"}
    BY DEF PlanState
  <2> HIDE DEF push
  <2>2. r \in RunRecords /\ r.plan = PlanState(h) /\ r.push = push /\ r.got = heads[h].run.got
    BY <1>1, <2>1 DEF RunRecords
  <2>3. heads' = [heads EXCEPT ![h].run = r]
    BY <1>5 DEF push
  <2>4. r.push # "none" => Decide(pr[Of(h)].meta) = "relock"
    <3>1. heads[h].run.plan = "todo"
      BY DEF Plan
    <3>2. pr[Of(h)].meta.eco = "nix"
      BY <1>2, <3>1 DEF Running
    <3>3. push # "none" => Decide(pr[Of(h)].meta) # "close"
      BY DEF push, PlanState
    <3> QED
      BY <3>2, <3>3, <2>2 DEF Decide
  <2>5. r.plan = "empty" => ~Stale(heads[h])
    BY <2>2 DEF PlanState
  <2>6. r.got <= Len(heads)
    BY <2>2, <1>2 DEF Running
  <2>8. r.push \in {"todo", "got"} => heads[h].run.plan = "todo" /\ Stale(heads[h])
    BY <2>1, <2>2 DEF Plan, PlanState, push
  <2>9. r.plan # "todo" /\ r.push \notin {"got", "pushed", "sent"}
    BY <2>1, <2>2
  <2> HIDE DEF r
  <2>7. JobsOnly
    <3>1. JobMay(h, r)
      BY <2>4, <2>5, <2>6, <2>8, <2>9 DEF JobMay
    <3> QED
      BY <1>1, <2>2, <2>3, <3>1, RunSet, OneJob
  <2> QED
    BY <2>7, PrsAsTheyWere, JobStep DEF Plan, Keep, conf, counts, IInv, Types, SameInteg
<1> QED
  BY <1>4, <1>5 DEF Plan

LEMMA CheckoutStep == ASSUME IInv, NEW h \in Runs, Checkout(h) PROVE IInv' /\ Quiet
<1>1. /\ heads \in Seq(Commits) /\ Runs = 1..Len(heads) /\ heads[h] \in Commits
      /\ heads[h].run \in RunRecords
      /\ Of(h) \in Prs
  BY Heads DEF IInv
<1>2. Running(h) /\ heads[h].run.push = "todo" /\ Led(Of(h))
  BY <1>1 DEF IInv, Checkout, PushAt
<1>3. Len(heads) <= MaxHeads /\ Len(heads) \in Nat
  BY <1>1 DEF IInv, Types
<1>5. CASE Open(Of(h)) /\ Tip(Of(h)).lock = heads[h].lock
           /\ heads' = [heads EXCEPT ![h].run.push = "got", ![h].run.got = pr[Of(h)].head]
  <2>1. /\ pr[Of(h)].head \in Runs /\ Of(pr[Of(h)].head) = Of(h)
        /\ heads[pr[Of(h)].head].lock = heads[h].lock
    BY <1>2, <1>5 DEF Led, Open, Tip
  <2>2. pr[Of(h)].head \in 0..MaxHeads /\ pr[Of(h)].head <= Len(heads)
    BY <2>1, <1>1, <1>3, BotPrAssumption
  <2> DEFINE r == AtPush(heads[h], "got", pr[Of(h)].head)
  <2>3. heads' = PushGets(heads, h, "got", pr[Of(h)].head)
    BY <1>5 DEF PushGets
  <2>4. JobMoves(heads, heads', h, r) /\ r.push = "got" /\ r.got = pr[Of(h)].head
        /\ r.plan = heads[h].run.plan
    BY <1>1, <2>2, <2>3, PushSet, AtPushIs
  <2> HIDE DEF r
  <2>5. JobsOnly
    <3>1. JobMay(h, r)
      BY <1>2, <2>1, <2>2, <2>4 DEF Running, JobMay
    <3> QED
      BY <2>4, <3>1, OneJob
  <2> QED
    BY <2>5, PrsAsTheyWere, JobStep DEF Checkout, Keep, conf, counts, IInv, Types, SameInteg
<1>6. CASE heads' = PushEnds(heads, h)
  <2>1. JobsOnly
    BY <1>6, PushEnded
  <2> QED
    BY <2>1, PrsAsTheyWere, JobStep DEF Checkout, Keep, conf, counts, IInv, Types, SameInteg
<1> QED
  BY <1>5, <1>6 DEF Checkout

\* Checks are dispatched on a head, and no job moves on.
LEMMA ChecksSent ==
  ASSUME IInv, NEW h \in Runs, NEW cs \in SUBSET Contexts, heads' = Dispatch(heads, h, cs)
  PROVE  JobsOnly
<1>1. heads \in Seq(Commits) /\ Runs = 1..Len(heads)
  BY Heads DEF IInv
<1> QED
  BY <1>1, Dispatched DEF JobsOnly, OldHeads

\* A job moves on, and checks are dispatched on a head.
LEMMA JobSends ==
  ASSUME IInv, NEW h \in Runs, NEW r, NEW hs, JobMoves(heads, hs, h, r),
         NEW g \in Runs, NEW cs \in SUBSET Contexts, heads' = Dispatch(hs, g, cs),
         r.plan = heads[h].run.plan,
         r.push # "none" => r.plan # "todo" /\ Decide(pr[Of(h)].meta) = "relock",
         r.push \notin {"todo", "got"},
         r.push \in {"pushed", "sent"} => heads[h].run.push \in {"pushed", "sent"},
         r.got <= Len(heads)
  PROVE  JobsOnly
<1>1. Runs = 1..Len(heads)
  BY DEF Runs, IInv, Types
<1>2. /\ heads' \in Seq(Commits) /\ Len(heads') = Len(hs)
      /\ \A i \in 1..Len(hs) :
              /\ heads'[i].pr = hs[i].pr /\ heads'[i].base = hs[i].base
              /\ heads'[i].flake = hs[i].flake /\ heads'[i].lock = hs[i].lock
              /\ heads'[i].run = hs[i].run
  BY <1>1, Dispatched DEF JobMoves
<1>3. Running(h)
  BY DEF IInv
<1> QED
  BY <1>1, <1>2, <1>3 DEF JobsOnly, JobMoves, OldHeads, RunMay, Running

LEMMA SendChecksStep == ASSUME IInv, NEW h \in Runs, Open(Of(h)), SendChecks(h) PROVE IInv' /\ Quiet
<1>1. /\ heads \in Seq(Commits) /\ Runs = 1..Len(heads) /\ heads[h] \in Commits
      /\ Of(h) \in Prs /\ Len(heads) \in Nat
  BY Heads DEF IInv, Types
<1>2. Running(h) /\ heads[h].run.push = "pushed" /\ Led(Of(h))
  BY <1>1 DEF IInv, SendChecks, PushAt
<1>3. pr[Of(h)].head \in Runs
  BY <1>2 DEF Led, Open
<1>4. heads[h].run.got \in 0..MaxHeads /\ heads[h].run.got <= Len(heads) /\ 0 \in 0..MaxHeads
  BY <1>1, <1>2, BotPrAssumption DEF Commits, RunRecords, Running
<1> DEFINE Sent(hs, r, cs) ==
             /\ JobMoves(heads, hs, h, r) /\ cs \in SUBSET Contexts
             /\ heads' = Dispatch(hs, pr[Of(h)].head, cs)
             /\ r.plan = heads[h].run.plan /\ r.push \in {"sent", "none"} /\ r.got <= Len(heads)
<1>5. \E hs, r, cs : Sent(hs, r, cs)
  <2>1. CASE heads' = Dispatch([heads EXCEPT ![h].run.push = "sent"], pr[Of(h)].head, Contexts)
    <3> DEFINE r == AtPush(heads[h], "sent", heads[h].run.got)
    <3>1. heads' = Dispatch(PushGoes(heads, h, "sent"), pr[Of(h)].head, Contexts)
      BY <2>1 DEF PushGoes
    <3>2. JobMoves(heads, PushGoes(heads, h, "sent"), h, r)
      BY <1>1, PushSet
    <3>3. r.plan = heads[h].run.plan /\ r.push = "sent" /\ r.got = heads[h].run.got
      BY <1>1, <1>4, AtPushIs
    <3> HIDE DEF r
    <3> QED
      BY <3>1, <3>2, <3>3, <1>4
  <2>2. ASSUME NEW cs \in {{}, {"ci"}}, heads' = Dispatch(PushEnds(heads, h), pr[Of(h)].head, cs)
        PROVE  \E hs, r : Sent(hs, r, cs)
    <3> DEFINE r == AtPush(heads[h], "none", 0)
    <3>1. heads' = Dispatch(PushGets(heads, h, "none", 0), pr[Of(h)].head, cs)
      BY <2>2 DEF PushGets, PushEnds
    <3>2. JobMoves(heads, PushGets(heads, h, "none", 0), h, r)
      BY <1>1, <1>4, PushSet
    <3>3. r.plan = heads[h].run.plan /\ r.push = "none" /\ r.got = 0
      BY <1>1, <1>4, AtPushIs
    <3>4. cs \in SUBSET Contexts
      BY DEF Contexts
    <3> HIDE DEF r
    <3> QED
      BY <3>1, <3>2, <3>3, <3>4, <1>1
  <2> QED
    BY <2>1, <2>2 DEF SendChecks
<1>6. JobsOnly
  <2>1. PICK hs, r, cs : Sent(hs, r, cs)
    BY <1>5
  <2> QED
    BY <1>2, <1>3, <2>1, JobSends DEF Running
<1> QED
  BY <1>6, PrsAsTheyWere, JobStep DEF SendChecks, Keep, conf, counts, IInv, Types, SameInteg

\* Auto-merge is turned on of an open PR, or it is not open, or nothing is required.
LEMMA Enabled ==
  ASSUME IInv, NEW p \in Prs, pr' = Enable(p), byApp' = byApp,
         Open(p) /\ protected => Ruled(p) /\ (pr[p].pushed <= 1 => OwnIn(Tip(p)))
  PROVE  SamePrs /\ \A q \in Prs : AutoMay(q)
<1>1. pr \in [Prs -> PrRecords] /\ \A q \in Prs : pr[q].auto => Open(q)
  BY DEF IInv, Types, Led
<1>2. PrRecords' = PrRecords
  BY DEF PrRecords, Weekly
<1>3. CASE Open(p) /\ protected
  <2> DEFINE r == [pr[p] EXCEPT !.auto = TRUE]
  <2>1. pr' = [pr EXCEPT ![p] = r]
    BY <1>3 DEF Enable
  <2>2. /\ r \in PrRecords /\ r.st = pr[p].st /\ r.meta = pr[p].meta /\ r.head = pr[p].head
        /\ r.pushed = pr[p].pushed /\ r.relocks = pr[p].relocks
    BY <1>1 DEF PrRecords
  <2> HIDE DEF r
  <2> QED
    BY <1>1, <1>2, <1>3, <2>1, <2>2 DEF SamePrs, AutoMay, Open
<1>4. CASE ~(Open(p) /\ protected)
  BY <1>1, <1>2, <1>4 DEF Enable, SamePrs, AutoMay, Open
<1> QED
  BY <1>3, <1>4

\* A PR is closed.
LEMMA ClosedNow ==
  ASSUME IInv, NEW p \in Prs, Open(p), pr' = Closed(p), byApp' = byApp
  PROVE  SamePrs /\ \A q \in Prs : AutoMay(q)
<1>1. pr \in [Prs -> PrRecords] /\ \A q \in Prs : pr[q].auto => Open(q)
  BY DEF IInv, Types, Led
<1>2. PrRecords' = PrRecords
  BY DEF PrRecords, Weekly
<1> DEFINE r == [pr[p] EXCEPT !.st = "closed", !.auto = FALSE]
<1>3. pr' = [pr EXCEPT ![p] = r]
  BY <1>1 DEF Closed, PrRecords
<1>4. /\ r \in PrRecords /\ r.st = "closed" /\ r.meta = pr[p].meta /\ r.head = pr[p].head
      /\ r.pushed = pr[p].pushed /\ r.relocks = pr[p].relocks /\ r.auto = FALSE
  BY <1>1 DEF PrRecords
<1> HIDE DEF r
<1> QED
  BY <1>1, <1>2, <1>3, <1>4 DEF SamePrs, AutoMay, Open

LEMMA PushEnablesStep == ASSUME IInv, NEW h \in Runs, Open(Of(h)), PushEnables(h)
  PROVE  IInv' /\ Quiet
<1>1. Of(h) \in Prs /\ Running(h) /\ heads[h].run.push = "sent"
  BY Heads DEF IInv, PushEnables, PushAt
<1>2. Decide(pr[Of(h)].meta) = "relock" /\ (pr[Of(h)].pushed <= 1 => OwnIn(Tip(Of(h))))
  BY <1>1 DEF Running
<1>3. SamePrs /\ \A q \in Prs : AutoMay(q)
  BY <1>1, <1>2, Enabled DEF PushEnables, Ruled, Keep, conf
<1>4. JobsOnly
  BY PushEnded DEF PushEnables
<1> QED
  BY <1>3, <1>4, JobStep DEF PushEnables, Keep, conf, counts, IInv, Types, SameInteg

\* What nothing was to be relocked of has its bump locked.
LEMMA EmptyIsLocked ==
  ASSUME IInv, NEW h \in Runs, Judged(h) = "auto"
  PROVE  /\ Decide(pr[Of(h)].meta) \in {"auto", "relock"}
         /\ pr[Of(h)].pushed <= 1 => OwnIn(Tip(Of(h)))
<1>1. heads[h] \in Commits /\ Based(heads[h]) /\ Follows(h) /\ Running(h) /\ Of(h) = heads[h].pr
  BY Heads DEF IInv, Of
<1>2. Decide(pr[Of(h)].meta) \in {"auto", "relock"}
  BY DEF Judged
<1>3. CASE Decide(pr[Of(h)].meta) = "relock"
  <2>1. heads[h].run.plan = "empty"
    BY <1>3 DEF Judged, NixVerdict
  <2>2. InStep(heads[h])
    BY <1>1, <2>1, RelockedIs DEF Running
  <2>3. OwnIn(heads[h])
    BY <2>2 DEF InStep, OwnIn, Own, Matter
  <2> QED
    BY <1>1, <1>2, <2>3 DEF Follows
<1>4. CASE Decide(pr[Of(h)].meta) = "auto"
  <2>1. pr[Of(h)].meta.eco # "nix"
    BY <1>4 DEF Decide
  <2>2. Own(heads[h]) = {}
    BY <1>1, <2>1 DEF Based
  <2>3. OwnIn(heads[h])
    BY <2>2 DEF OwnIn, Matter
  <2> QED
    BY <1>1, <1>2, <2>3 DEF Follows
<1> QED
  BY <1>2, <1>3, <1>4

LEMMA AutoMergeStep == ASSUME IInv, NEW h \in Runs, Open(Of(h)), AutoMerge(h) PROVE IInv' /\ Quiet
<1>1. /\ heads \in Seq(Commits) /\ Runs = 1..Len(heads) /\ heads[h] \in Commits
      /\ heads[h].run \in RunRecords /\ Of(h) \in Prs /\ Running(h)
  BY Heads DEF IInv
<1> DEFINE r == [heads[h].run EXCEPT !.auto = "none", !.plan = "none"]
<1>2. r \in RunRecords /\ r.plan = "none" /\ r.push = heads[h].run.push /\ r.got = heads[h].run.got
  BY <1>1 DEF RunRecords
<1>3. heads' = [heads EXCEPT ![h].run = r]
  BY <1>1 DEF AutoMerge, Commits, RunRecords
<1> HIDE DEF r
<1>4. JobsOnly
  <2>1. JobMay(h, r)
    BY <1>1, <1>2 DEF Running, JobMay
  <2> QED
    BY <1>1, <1>2, <1>3, <2>1, RunSet, OneJob
<1>5. SamePrs /\ \A q \in Prs : AutoMay(q)
  <2>1. byApp' = byApp
    BY DEF AutoMerge, Keep, conf
  <2>2. CASE Judged(h) = "auto" /\ pr' = Enable(Of(h))
    BY <1>1, <2>1, <2>2, EmptyIsLocked, Enabled DEF Ruled
  <2>3. CASE pr' = Closed(Of(h))
    BY <1>1, <2>1, <2>3, ClosedNow
  <2>4. CASE pr' = pr
    BY <2>1, <2>4, PrsAsTheyWere
  <2> QED
    BY <2>2, <2>3, <2>4 DEF AutoMerge
<1> QED
  BY <1>4, <1>5, JobStep DEF AutoMerge, Keep, conf, counts, IInv, Types, SameInteg

\* A sweep of one head, or the checks of the head that an update made.
LEMMA Ensured ==
  ASSUME IInv, NEW p \in Prs, NEW h, Ensure(p, h)
  PROVE  JobsOnly
<1>1. CASE heads' = heads
  BY <1>1, Heads DEF JobsOnly, OldHeads, IInv
<1>2. ASSUME Open(p), NEW cs \in SUBSET Contexts, heads' = Dispatch(heads, pr[p].head, cs)
      PROVE  JobsOnly
  <2>1. pr[p].head \in Runs
    BY <1>2 DEF IInv, Led, Open
  <2> QED
    BY <1>2, <2>1, ChecksSent
<1>3. PICK failed \in SUBSET (Contexts \ heads[h].checks) :
        heads' = IF Open(p) THEN Dispatch(heads, pr[p].head, (Contexts \ heads[h].checks) \ failed)
                 ELSE heads
  BY DEF Ensure
<1>4. (Contexts \ heads[h].checks) \ failed \in SUBSET Contexts
  OBVIOUS
<1> QED
  BY <1>1, <1>2, <1>3, <1>4

LEMMA SweepStep == ASSUME IInv, NEW h \in Runs, Sweep(h) PROVE IInv' /\ Quiet
<1>1. Of(h) \in Prs
  BY Heads DEF IInv
<1>2. JobsOnly
  BY <1>1, Ensured DEF Sweep
<1> QED
  BY <1>2, PrsAsTheyWere, JobStep DEF Sweep, Keep, conf, counts, IInv, Types, SameInteg

LEMMA UpdateEnsuresStep == ASSUME IInv, UpdateEnsures PROVE IInv' /\ Quiet
<1>1. moved \in Prs
  BY DEF UpdateEnsures, IInv, Types
<1>2. JobsOnly
  <2>1. CASE heads' = heads
    BY <2>1, Heads DEF JobsOnly, OldHeads, IInv
  <2> QED
    BY <1>1, <2>1, Ensured DEF UpdateEnsures
<1> QED
  BY <1>2, PrsAsTheyWere, JobStep DEF UpdateEnsures, Keep, conf, counts, IInv, Types, SameInteg

LEMMA WeekStep ==
  ASSUME IInv, NEW p \in Prs, WeekSends(p) \/ WeekEnables(p) \/ WeekFails PROVE IInv' /\ Quiet
<1>1. CASE WeekSends(p)
  <2>1. pr[p].head \in Runs
    BY <1>1 DEF WeekSends, WeeklyPrs, IInv, Led, Open
  <2>2. \A cs \in {{}, {"ci"}} : cs \in SUBSET Contexts
    BY DEF Contexts
  <2>3. PICK cs \in SUBSET Contexts : heads' = Dispatch(heads, pr[p].head, cs)
    BY <1>1, <2>2 DEF WeekSends
  <2>4. JobsOnly
    BY <2>1, <2>3, ChecksSent
  <2> QED
    BY <1>1, <2>4, PrsAsTheyWere, JobStep DEF WeekSends, Keep, conf, counts, IInv, Types, SameInteg
<1>2. CASE WeekEnables(p)
  <2>1. JobsOnly
    BY <1>2, Heads DEF WeekEnables, JobsOnly, OldHeads, IInv
  <2>2. Open(p) /\ pr[p].meta = Weekly /\ Led(p)
    BY <1>2 DEF WeekEnables, WeeklyPrs, IInv
  <2>3. OwnIn(Tip(p))
    <3>1. pr[p].head \in Runs /\ Of(pr[p].head) = p
      BY <2>2 DEF Led, Open
    <3>2. Based(Tip(p)) /\ Tip(p).pr = p
      BY <3>1 DEF IInv, Tip, Of
    <3>3. Weekly.eco # "nix"
      BY DEF Weekly
    <3> QED
      BY <2>2, <3>2, <3>3 DEF Based, OwnIn, Matter
  <2>4. SamePrs /\ \A q \in Prs : AutoMay(q)
    BY <1>2, <2>2, <2>3, Enabled DEF WeekEnables, Ruled, Keep, conf
  <2> QED
    BY <1>2, <2>1, <2>4, JobStep DEF WeekEnables, Keep, conf, counts, IInv, Types, SameInteg
<1>3. CASE WeekFails
  <2>1. JobsOnly
    BY <1>3, Heads DEF WeekFails, JobsOnly, OldHeads, IInv
  <2> QED
    BY <1>3, <2>1, PrsAsTheyWere, JobStep DEF WeekFails, Keep, conf, counts, IInv, Types, SameInteg
<1> QED
  BY <1>1, <1>2, <1>3

LEMMA PersonStep ==
  ASSUME IInv, NEW p \in Prs, PersonPush \/ PersonCloses(p) PROVE IInv' /\ Quiet
<1>1. JobsOnly
  BY Heads DEF PersonPush, PersonCloses, JobsOnly, OldHeads, IInv
<1>2. CASE PersonPush
  <2>1. SameInteg
    BY <1>2 DEF PersonPush, SameInteg, IInv, Types, Branches
  <2> QED
    BY <1>1, <1>2, <2>1, PrsAsTheyWere, JobStep DEF PersonPush, conf, IInv, Types
<1>3. CASE PersonCloses(p)
  <2>1. SamePrs /\ \A q \in Prs : AutoMay(q)
    BY <1>3, ClosedNow DEF PersonCloses, conf
  <2> QED
    BY <1>1, <1>3, <2>1, JobStep DEF PersonCloses, conf, IInv, Types, SameInteg
<1> QED
  BY <1>2, <1>3

-----------------------------------------------------------------------------
\* The job that pushed what is now the newest head c of p, if one did.
Pushed(h, p, c) ==
  /\ Of(h) = p /\ Decide(pr[p].meta) = "relock" /\ (pr'[p].pushed <= 1 => OwnIn(c))
  /\ heads[h].run.push = "got"
  /\ heads'[h].run.plan = heads[h].run.plan /\ heads'[h].run.push \in {"pushed", "sent"}
  /\ heads'[h].run.got <= Len(heads)

\* A step that brings a PR the newest head c, the n-th: the heads, the PRs, what else there
\* is, and what c is made of.
HeadIs(p, c, n) ==
  /\ OldHeads /\ c.pr = p /\ n = Len(heads) + 1 /\ Len(heads') = n /\ n <= MaxHeads /\ heads'[n] = c
  /\ c.run.plan = "todo" => pr'[p].meta.eco = "nix"
  /\ c.run.plan # "empty" /\ c.run.push = "none" /\ c.run.got = 0
  /\ \A h \in Runs : heads'[h].run = heads[h].run \/ Pushed(h, p, c)
PrHas(p, n) ==
  /\ pr[p].st \in {"none", "open"} /\ pr' \in [Prs -> PrRecords]
  /\ \A q \in Prs \ {p} : pr'[q] = pr[q]
  /\ pr'[p].st = "open" /\ pr'[p].head = n /\ (pr'[p].auto => pr[p].auto)
  /\ pr[p].st = "open" => pr'[p].meta = pr[p].meta /\ pr[p].pushed <= pr'[p].pushed
  /\ pr'[p].pushed <= rebases' + 1
  /\ pr'[p].meta.author = "dependabot" => pr'[p].pushed >= 1
Around ==
  /\ integ' = integ /\ UNCHANGED conf
  /\ moved' \in Prs \cup {0} /\ week' \in {"off", "pushed", "sent"}
  /\ rebases' \in 0..MaxRebases /\ rebases <= rebases' /\ weeks' \in 0..MaxWeeks
MadeOf(p, c) ==
  /\ Grounded(c) /\ (Own(c) # {} => pr'[p].meta.eco = "nix")
  /\ pr[p].st = "open" => Tip(p).base.flake \subseteq c.base.flake
  /\ pr'[p].pushed <= 1 =>
       /\ Locked(c)
       /\ pr[p].st = "open" => Own(c) = Own(Tip(p)) /\ (OwnIn(Tip(p)) => OwnIn(c))

\* It came by no relock.
NewTip(p) ==
  \E c \in Commits, n \in 1..MaxHeads : HeadIs(p, c, n) /\ PrHas(p, n) /\ pr'[p].relocks = pr[p].relocks

\* It is what the run of h relocked.
Relock(p, h) ==
  \E c \in Commits, n \in 1..MaxHeads :
    /\ HeadIs(p, c, n) /\ PrHas(p, n) /\ Of(h) = p
    /\ heads[h].run.push = "got" /\ heads'[h].run.push \in {"pushed", "sent"}
    /\ heads'[h].run.plan # "todo"
    /\ c.lock = Relocked(heads[h]) /\ c.flake = Tip(p).flake

LEMMA HeadFits == ASSUME Types, NEW p, NEW c, NEW n, HeadIs(p, c, n) PROVE n \in 1..MaxHeads
<1>1. Len(heads) \in Nat
  BY DEF Types
<1> QED
  BY <1>1, Bounds DEF HeadIs

LEMMA NewHead ==
  ASSUME IInv, NEW p \in Prs, NEW c \in Commits, NEW n,
         HeadIs(p, c, n), PrHas(p, n), Around, MadeOf(p, c)
  PROVE  IInv'
<1> SUFFICES
      ASSUME OldHeads, c.pr = p, n = Len(heads) + 1, Len(heads') = n, n <= MaxHeads, heads'[n] = c,
             integ' = integ, UNCHANGED conf,
             moved' \in Prs \cup {0}, week' \in {"off", "pushed", "sent"},
             rebases' \in 0..MaxRebases, rebases <= rebases', weeks' \in 0..MaxWeeks,
             pr[p].st \in {"none", "open"}, pr' \in [Prs -> PrRecords],
             \A q \in Prs \ {p} : pr'[q] = pr[q],
             pr'[p].st = "open", pr'[p].head = n, pr'[p].auto => pr[p].auto,
             pr[p].st = "open" => pr'[p].meta = pr[p].meta /\ pr[p].pushed <= pr'[p].pushed,
             pr'[p].pushed <= rebases' + 1,
             pr'[p].meta.author = "dependabot" => pr'[p].pushed >= 1,
             Grounded(c), Own(c) # {} => pr'[p].meta.eco = "nix",
             pr[p].st = "open" => Tip(p).base.flake \subseteq c.base.flake,
             pr'[p].pushed <= 1 =>
               /\ Locked(c)
               /\ pr[p].st = "open" => Own(c) = Own(Tip(p)) /\ (OwnIn(Tip(p)) => OwnIn(c)),
             c.run.plan = "todo" => pr'[p].meta.eco = "nix", c.run.plan # "empty",
             c.run.push = "none", c.run.got = 0,
             \A h \in Runs : heads'[h].run = heads[h].run \/ Pushed(h, p, c)
      PROVE  IInv'
  BY DEF HeadIs, PrHas, Around, MadeOf
<1>1. /\ heads \in Seq(Commits) /\ Len(heads) \in Nat /\ Runs = 1..Len(heads)
      /\ Runs' = Runs \cup {n} /\ n \notin Runs
      /\ \A h \in Runs : heads[h] \in Commits /\ Of(h) \in Prs
  BY Heads DEF IInv, Runs, OldHeads
<1>2. /\ \A h \in Runs : Of(h)' = Of(h) /\ heads'[h].lock = heads[h].lock
      /\ Of(n)' = p
  BY <1>1 DEF OldHeads, Of
<1>3. Types'
  BY DEF IInv, Types, OldHeads, conf, PrRecords, Weekly
<1>4. \A q \in Prs : pr'[q].st = "merged" <=> pr[q].st = "merged"
  OBVIOUS
<1>5. MergedOnly'
  BY <1>4, BumpHas DEF IInv, Types, MergedOnly, Branches, Locks
<1>6. \A x \in Bumps : \A f \in SUBSET Bumps : From(x, f)' <=> From(x, f)
  BY <1>4, BumpHas DEF From
<1>9. \A d : /\ Own(d)' = Own(d) /\ OwnIn(d)' = OwnIn(d) /\ Locked(d)' = Locked(d)
  BY DEF Own, OwnIn, Locked, InStep, Matter
<1>10. Tip(p)' = c
  BY DEF Tip
<1>11. ASSUME NEW q \in Prs \ {p}, pr[q].st # "none"
       PROVE  /\ pr[q].head \in Runs /\ Tip(q)' = heads'[pr[q].head] /\ Tip(q) = heads[pr[q].head]
  BY <1>11 DEF IInv, Led, Tip
<1>12. ASSUME NEW h \in Runs, Of(h) = p
       PROVE  /\ pr[p].st = "open" /\ pr'[p].meta = pr[p].meta
              /\ pr'[p].pushed <= 1 => pr[p].pushed <= 1
  <2>1. pr[p].st # "none"
    BY <1>12 DEF IInv, Follows
  <2>2. pr[p].pushed \in Nat /\ pr'[p].pushed \in Nat
    BY DEF IInv, Types, PrRecords
  <2> QED
    BY <2>1, <2>2
<1>13. ASSUME NEW h \in Runs PROVE Based(heads[h])'
  <2>1. Based(heads[h]) /\ heads[h] \in Commits /\ Own(heads[h])' = Own(heads[h])
    BY <1>1 DEF IInv, Own, OldHeads
  <2>2. heads[h].base.flake \subseteq Bumps /\ heads[h].base.lock.bumps \subseteq Bumps
        /\ heads[h].lock.bumps \subseteq Bumps /\ heads[h].pr \in Prs
    BY <2>1 DEF Commits, Branches, Locks
  <2>3. pr'[heads[h].pr].meta = pr[heads[h].pr].meta
    BY <2>2, <1>12 DEF Of
  <2> QED
    BY <2>1, <2>2, <2>3, <1>6 DEF Based, Grounded, OldHeads
<1>14. Based(heads[n])'
  <2>1. c.base.flake \subseteq Bumps /\ c.base.lock.bumps \subseteq Bumps
        /\ c.lock.bumps \subseteq Bumps
    BY DEF Commits, Branches, Locks
  <2> QED
    BY <2>1, <1>6 DEF Based, Grounded, Own
<1>15. ASSUME NEW h \in Runs PROVE Follows(h)'
  <2>1. Follows(h) /\ Of(h) \in Prs /\ Of(h)' = Of(h)
    BY <1>1, <1>2 DEF IInv
  <2>2. /\ Own(heads[h])' = Own(heads[h]) /\ (OwnIn(heads[h])' <=> OwnIn(heads[h]))
        /\ (Locked(heads[h])' <=> Locked(heads[h])) /\ heads'[h].base = heads[h].base
    BY DEF OldHeads, Own, OwnIn, Locked, InStep, Matter
  <2>3. CASE Of(h) = p
    <3>1. /\ Own(Tip(p))' = Own(c) /\ (OwnIn(Tip(p))' <=> OwnIn(c)) /\ Tip(p)'.base = c.base
      BY <1>10 DEF Own, OwnIn
    <3>2. pr'[p].st # "none"
      OBVIOUS
    <3>3. c.base.flake \in SUBSET Bumps
      BY DEF Commits, Branches
    <3>4. heads'[h].base.flake \subseteq Tip(p)'.base.flake
      BY <2>1, <2>2, <2>3, <3>1, <1>12 DEF Follows
    <3> QED
      BY <2>1, <2>2, <2>3, <3>1, <3>2, <3>4, <1>12 DEF Follows
  <2>4. CASE Of(h) # p
    <3> DEFINE q == Of(h)
    <3>1. pr'[q] = pr[q] /\ pr[q].st # "none"
      BY <2>1, <2>4 DEF Follows
    <3>2. pr[q].head \in Runs /\ Tip(q)' = heads'[pr[q].head] /\ Tip(q) = heads[pr[q].head]
      BY <2>1, <2>4, <3>1, <1>11
    <3>3. /\ Own(Tip(q))' = Own(Tip(q)) /\ (OwnIn(Tip(q))' <=> OwnIn(Tip(q)))
          /\ Tip(q)'.base = Tip(q).base
      BY <3>2 DEF OldHeads, Own, OwnIn, Matter
    <3> QED
      BY <2>1, <2>2, <3>1, <3>3 DEF Follows
  <2> QED
    BY <2>3, <2>4
<1>16. Follows(n)'
  BY <1>2, <1>10, <1>9 DEF Follows
<1>17. \A m : Decide(m)' = Decide(m)
  BY DEF conf, Decide, Automatic, MinorOrPatch, MovesFrappeNix, RolloutInputs
<1>18. ASSUME NEW h \in Runs, NEW q \in Prs, Of(h) = q PROVE Running(h)'
  <2>1. /\ heads[h] \in Commits /\ heads'[h].pr = heads[h].pr /\ heads'[h].lock = heads[h].lock
        /\ heads'[h].flake = heads[h].flake /\ Of(h) = q /\ Of(h)' = q
    BY <1>1, <1>2, <1>18 DEF OldHeads
  <2>2. pr[q].st # "none" /\ Running(h)
    BY <1>18 DEF IInv, Follows
  <2>3. pr'[q].meta = pr[q].meta
    BY <2>1, <1>12
  <2>4. Stale(heads[h])' = Stale(heads[h])
    BY <2>1 DEF Stale, Relocked, LockOf
  <2>5. pr'[q].pushed <= 1 => pr[q].pushed <= 1 /\ (OwnIn(Tip(q)) => OwnIn(Tip(q))')
    <3>1. CASE q = p
      <4>1. pr'[p].pushed <= 1 => pr[p].pushed <= 1 /\ (OwnIn(Tip(p)) => OwnIn(c))
        BY <1>18, <3>1, <1>12
      <4>2. OwnIn(Tip(p))' <=> OwnIn(c)
        BY <1>10 DEF OwnIn, Own, Matter
      <4> QED
        BY <3>1, <4>1, <4>2
    <3>2. CASE q # p
      <4>1. pr'[q] = pr[q] /\ Tip(q)' = heads'[pr[q].head] /\ Tip(q) = heads[pr[q].head]
            /\ pr[q].head \in Runs
        BY <2>1, <2>2, <3>2, <1>11
      <4> QED
        BY <4>1 DEF OldHeads, OwnIn, Own, Matter
    <3> QED
      BY <3>1, <3>2
  <2>6. \A g \in Runs : g \in Runs' /\ Of(g)' = Of(g) /\ heads'[g].lock = heads[g].lock
    BY <1>1, <1>2
  <2>7. Decide(pr[Of(h)].meta)' = Decide(pr[q].meta)
    BY <1>17, <2>1, <2>3
  <2>8. CASE heads'[h].run = heads[h].run
    <3>1. heads[h].run.got <= Len(heads) => heads[h].run.got <= n
      BY <1>1, <2>1 DEF Commits, RunRecords
    <3> QED
      BY <2>1, <2>2, <2>3, <2>4, <2>5, <2>6, <2>7, <2>8, <3>1 DEF Running
  <2>9. CASE Pushed(h, p, c)
    <3>1. /\ pr'[q].pushed <= 1 => OwnIn(Tip(q))'
          /\ heads'[h].run.got \in 0..MaxHeads
      <4>1. heads' \in Seq(Commits) /\ h \in 1..Len(heads')
        BY <1>1 DEF OldHeads
      <4>2. heads'[h] \in Commits
        BY <4>1
      <4>3. heads'[h].run.got \in 0..MaxHeads
        BY <4>2 DEF Commits, RunRecords
      <4>4. q = p /\ (pr'[p].pushed <= 1 => OwnIn(c))
        BY <2>1, <2>9 DEF Pushed
      <4> QED
        BY <4>3, <4>4, <1>10 DEF OwnIn, Own, Matter
    <3>2. heads'[h].run.got <= n /\ Decide(pr[q].meta) = "relock"
      BY <2>1, <2>9, <3>1, <1>1 DEF Pushed
    <3> QED
      BY <2>1, <2>2, <2>3, <2>4, <2>7, <2>9, <3>1, <3>2 DEF Running, Pushed
  <2> QED
    BY <2>8, <2>9
<1>19. Running(n)'
  BY <1>1, <1>2 DEF Running
<1>20. ASSUME NEW q \in Prs PROVE Led(q)'
  <2>1. Led(q) /\ pr[q].pushed \in Nat /\ pr'[q].pushed \in Nat
    BY DEF IInv, Types, PrRecords
  <2>2. CASE q = p
    <3>1. pr'[q].auto => Open(q)' /\ Ruled(q)' /\ (pr'[q].pushed <= 1 => OwnIn(Tip(q))')
      <4>1. pr'[q].auto => pr[q].st = "open" /\ Ruled(q) /\ (pr[q].pushed <= 1 => OwnIn(Tip(q)))
        BY <2>1, <2>2 DEF Led, Open
      <4>2. pr[q].st = "open" => (Ruled(q)' <=> Ruled(q))
        BY <2>2, <1>17 DEF Ruled, conf, Weekly
      <4>3. OwnIn(Tip(q))' <=> OwnIn(c)
        BY <2>2, <1>10 DEF OwnIn, Own, Matter
      <4> QED
        BY <2>1, <2>2, <4>1, <4>2, <4>3 DEF Open
    <3> QED
      BY <2>2, <3>1, <1>1, <1>2 DEF Led
  <2>3. CASE q # p
    <3>1. pr'[q] = pr[q]
      BY <2>3
    <3>2. pr[q].st # "none" =>
            pr[q].head \in Runs /\ Of(pr[q].head)' = q /\ (OwnIn(Tip(q))' <=> OwnIn(Tip(q)))
      <4>1. ASSUME pr[q].st # "none"
            PROVE  /\ Tip(q)' = heads'[pr[q].head] /\ Tip(q) = heads[pr[q].head]
                   /\ pr[q].head \in Runs /\ Of(pr[q].head) = q
        BY <2>1, <2>3, <4>1, <1>11 DEF Led
      <4>2. pr[q].st # "none" => (OwnIn(Tip(q))' <=> OwnIn(Tip(q)))
        BY <4>1 DEF OldHeads, OwnIn, Own, Matter
      <4>3. pr[q].st # "none" => Of(pr[q].head)' = q
        BY <4>1, <3>1 DEF OldHeads, Of
      <4> QED
        BY <4>1, <4>2, <4>3
    <3>3. Ruled(q)' <=> Ruled(q)
      BY <3>1, <1>17 DEF Ruled, conf, Weekly
    <3>4. rebases \in Nat /\ rebases' \in Nat
      BY BotPrAssumption DEF IInv, Types
    <3> QED
      BY <2>1, <3>1, <3>2, <3>3, <3>4, <1>1 DEF Led, Open
  <2> QED
    BY <2>2, <2>3
<1> QED
  BY <1>1, <1>3, <1>5, <1>13, <1>14, <1>15, <1>16, <1>18, <1>19, <1>20 DEF IInv
-----------------------------------------------------------------------------
\* What a new head is.
Fresh(c, p, meta, base, flake, lock) ==
  /\ c \in Commits /\ c.pr = p /\ c.base = base /\ c.flake = flake /\ c.lock = lock
  /\ c.run.plan = "todo" => meta.eco = "nix"
  /\ c.run.plan # "empty" /\ c.run.push = "none" /\ c.run.got = 0

LEMMA CommitIs ==
  ASSUME NEW p \in Prs, NEW meta, NEW event \in BOOLEAN, NEW base \in Branches,
         NEW flake \in SUBSET Bumps, NEW lock \in Locks
  PROVE  Fresh(Commit(p, meta, event, base, flake, lock), p, meta, base, flake, lock)
<1> DEFINE r == IF event /\ meta.author = "dependabot"
                THEN IF meta.eco = "nix" THEN [NoRun EXCEPT !.plan = "todo"]
                     ELSE [NoRun EXCEPT !.plan = "skipped", !.auto = "todo"]
                ELSE NoRun
<1>1. /\ r \in RunRecords /\ r.push = "none" /\ r.got = 0 /\ r.plan # "empty"
      /\ r.plan = "todo" => meta.eco = "nix"
  BY Bounds DEF NoRun, RunRecords
<1>2. Commit(p, meta, event, base, flake, lock) =
          [pr |-> p, base |-> base, flake |-> flake, lock |-> lock,
           checks |-> IF event THEN Contexts ELSE {}, run |-> r]
  BY DEF Commit
<1> HIDE DEF r
<1> QED
  BY <1>1, <1>2 DEF Commits, Fresh

\* One more head, on those that are there, of which a job has moved on.
Moves(hs, c, h, r) == JobMoves(heads, hs, h, r) /\ heads' = Append(hs, c)

LEMMA MovedAndAppended ==
  ASSUME IInv, Room, NEW c \in Commits, NEW hs, NEW h \in Runs, NEW r, Moves(hs, c, h, r)
  PROVE  /\ OldHeads /\ Len(heads') = Len(heads) + 1 /\ Len(heads) + 1 <= MaxHeads
         /\ heads'[Len(heads) + 1] = c /\ heads'[h].run = r
         /\ \A i \in Runs : heads'[i].run = heads[i].run \/ (i = h /\ heads'[i].run = r)
<1>1. heads \in Seq(Commits) /\ Runs = 1..Len(heads) /\ Len(heads) \in Nat
  BY Heads DEF IInv, Types
<1>2. /\ hs \in Seq(Commits) /\ Len(hs) = Len(heads)
      /\ \A i \in Runs : /\ hs[i].pr = heads[i].pr /\ hs[i].base = heads[i].base
                         /\ hs[i].flake = heads[i].flake /\ hs[i].lock = heads[i].lock
                         /\ hs[i].run = heads[i].run \/ (i = h /\ hs[i].run = r)
      /\ hs[h].run = r
  BY <1>1 DEF JobMoves, Moves
<1>3. heads' \in Seq(Commits) /\ Len(heads') = Len(heads) + 1 /\ heads'[Len(heads) + 1] = c
      /\ \A i \in Runs : heads'[i] = hs[i]
  BY <1>1, <1>2 DEF Moves
<1>4. Len(heads) + 1 <= MaxHeads
  BY <1>1, Bounds DEF Room
<1> QED
  BY <1>1, <1>2, <1>3, <1>4 DEF OldHeads

LEMMA Appended ==
  ASSUME IInv, Room, NEW c \in Commits, heads' = Append(heads, c)
  PROVE  /\ OldHeads /\ Len(heads') = Len(heads) + 1 /\ Len(heads) + 1 <= MaxHeads
         /\ heads'[Len(heads) + 1] = c
         /\ \A i \in Runs : heads'[i].run = heads[i].run
<1>1. heads \in Seq(Commits) /\ Runs = 1..Len(heads) /\ Len(heads) \in Nat
  BY Heads DEF IInv, Types
<1>2. Len(heads) + 1 <= MaxHeads
  BY <1>1, Bounds DEF Room
<1> QED
  BY <1>1, <1>2 DEF OldHeads

\* A commit on what the integration branch is now.
LEMMA GroundedNow ==
  ASSUME IInv, NEW p \in Prs, pr[p].st \in {"none", "open"}, NEW c \in Commits, c.pr = p,
         c.base = integ, integ.flake \subseteq c.flake,
         \A x \in c.flake : x[1] = p \/ x \in integ.flake,
         \A x \in c.lock.bumps : x[1] = p \/ pr[x[1]].st = "merged"
  PROVE  Grounded(c) /\ Own(c) \cap integ.flake = {}
<1>1. \A x \in integ.flake \cup integ.lock.bumps : pr[x[1]].st = "merged"
  BY DEF IInv, MergedOnly
<1> QED
  BY <1>1 DEF Grounded, From, Own

LEMMA BumpIs ==
  ASSUME NEW p \in Prs, NEW meta, NEW k \in 1..MaxRebases+1, NEW matters \in BOOLEAN
  PROVE  /\ Bump(p, meta, k, matters) \in SUBSET Bumps
         /\ \A x \in Bump(p, meta, k, matters) : x[1] = p /\ meta.eco = "nix"
<1>1. <<p, k, matters>> \in Bumps
  BY DEF Bumps
<1> QED
  BY <1>1 DEF Bump

LEMMA OpenPrStep ==
  ASSUME IInv, NEW p \in Prs, NEW m \in Metas, NEW matters \in BOOLEAN, OpenPr(p, m, matters)
  PROVE  IInv' /\ NewTip(p)
<1>1. /\ integ \in Branches /\ heads \in Seq(Commits) /\ Len(heads) \in Nat
      /\ pr \in [Prs -> PrRecords] /\ rebases \in 0..MaxRebases
      /\ integ.flake \in SUBSET Bumps /\ integ.lock \in Locks /\ integ.lock.bumps \subseteq Bumps
  BY DEF IInv, Types, Branches, Locks
<1>2. /\ Bump(p, m, 1, matters) \in SUBSET Bumps
      /\ \A x \in Bump(p, m, 1, matters) : x[1] = p /\ m.eco = "nix"
  BY BumpIs, Bounds
<1> PICK flake : flake = integ.flake \cup Bump(p, m, 1, matters)
  OBVIOUS
<1> PICK c : c = Commit(p, m, TRUE, integ, flake, integ.lock)
  OBVIOUS
<1> PICK n : n = Len(heads) + 1
  OBVIOUS
<1> PICK r : r = [NoPr EXCEPT !.st = "open", !.meta = m, !.head = n, !.pushed = 1]
  OBVIOUS
<1>3. /\ c \in Commits /\ c.pr = p /\ c.base = integ /\ c.flake = flake /\ c.lock = integ.lock
      /\ c.run.plan = "todo" => m.eco = "nix"
      /\ c.run.plan # "empty" /\ c.run.push = "none" /\ c.run.got = 0
  <2>1. flake \in SUBSET Bumps
    BY <1>1, <1>2
  <2>2. Fresh(c, p, m, integ, flake, integ.lock)
    BY <1>1, <2>1, CommitIs
  <2> QED
    BY <2>2 DEF Fresh
<1>4. n <= MaxHeads
  BY <1>1, Bounds DEF OpenPr, Room
<1>5. /\ r \in PrRecords /\ r.st = "open" /\ r.meta = m /\ r.head = n
      /\ r.auto = FALSE /\ r.pushed = 1 /\ r.relocks = 0
  <2>1. n \in 0..MaxHeads
    BY <1>1, <1>4, Bounds
  <2>2. NoPr \in PrRecords /\ NoPr.auto = FALSE /\ NoPr.relocks = 0
    BY Bounds DEF NoPr, PrRecords
  <2> QED
    BY <2>1, <2>2 DEF PrRecords
<1>6. heads' = Append(heads, c) /\ pr' = [pr EXCEPT ![p] = r] /\ pr[p].st = "none" /\ Room
  BY DEF OpenPr
<1>7. /\ OldHeads /\ Len(heads') = n /\ heads'[n] = c
      /\ \A i \in Runs : heads'[i].run = heads[i].run
  BY <1>1, <1>3, <1>6, Appended
<1>8. Grounded(c) /\ (Own(c) # {} => m.eco = "nix")
  <2>1. \A x \in c.flake : x[1] = p \/ x \in integ.flake
    BY <1>2, <1>3
  <2>2. \A x \in c.lock.bumps : pr[x[1]].st = "merged"
    BY <1>3 DEF IInv, MergedOnly
  <2>3. Grounded(c) /\ Own(c) \cap integ.flake = {}
    BY <1>3, <1>6, <2>1, <2>2, GroundedNow
  <2> QED
    BY <1>2, <1>3, <2>3 DEF Own
<1>9. Locked(c)
  BY <1>3 DEF Locked
<1>10. /\ UNCHANGED conf /\ integ' = integ /\ moved' \in Prs \cup {0}
       /\ week' \in {"off", "pushed", "sent"} /\ rebases' = rebases /\ weeks' \in 0..MaxWeeks
  BY DEF OpenPr, Keep, counts, IInv, Types
<1>11. /\ pr' \in [Prs -> PrRecords] /\ pr'[p] = r /\ \A q \in Prs \ {p} : pr'[q] = pr[q]
  BY <1>1, <1>5, <1>6
<1>12. r.pushed <= rebases' + 1 /\ rebases' \in 0..MaxRebases /\ rebases <= rebases'
  BY <1>1, <1>5, <1>10
<1>13. HeadIs(p, c, n)
  BY <1>3, <1>4, <1>5, <1>7, <1>11 DEF HeadIs
<1>14. PrHas(p, n)
  BY <1>5, <1>6, <1>11, <1>12 DEF PrHas
<1>15. Around
  BY <1>10, <1>12 DEF Around
<1>16. MadeOf(p, c)
  BY <1>5, <1>6, <1>8, <1>9, <1>11 DEF MadeOf
<1>17. pr'[p].relocks = pr[p].relocks
  BY <1>5, <1>6, <1>11 DEF IInv, Led
<1> QED
  BY <1>17, <1>3, <1>13, <1>14, <1>15, <1>16, NewHead, HeadFits DEF NewTip, IInv

LEMMA RebaseStep ==
  ASSUME IInv, NEW p \in Prs, NEW matters \in BOOLEAN, Rebase(p, matters) PROVE IInv' /\ NewTip(p)
<1>1. /\ integ \in Branches /\ heads \in Seq(Commits) /\ Len(heads) \in Nat
      /\ pr \in [Prs -> PrRecords] /\ pr[p] \in PrRecords /\ pr[p].pushed \in Nat
      /\ rebases \in 0..MaxRebases /\ rebases' = rebases + 1 /\ rebases < MaxRebases
      /\ integ.flake \in SUBSET Bumps /\ integ.lock \in Locks /\ integ.lock.bumps \subseteq Bumps
      /\ pr[p].st = "open" /\ pr[p].meta.author = "dependabot" /\ Room
  BY DEF IInv, Types, Branches, Locks, PrRecords, Rebase, Open
<1>2. /\ pr[p].head \in Runs /\ Tip(p).pr = p /\ pr[p].pushed >= 1 /\ pr[p].pushed <= rebases + 1
  BY <1>1 DEF IInv, Led, Tip, Of
<1> PICK k : k = pr[p].pushed + 1
  OBVIOUS
<1>3. k \in 1..MaxRebases+1 /\ k \in Nat /\ k > 1 /\ k <= rebases' + 1
  BY <1>1, <1>2, Bounds
<1>4. /\ Bump(p, pr[p].meta, k, matters) \in SUBSET Bumps
      /\ \A x \in Bump(p, pr[p].meta, k, matters) : x[1] = p /\ pr[p].meta.eco = "nix"
  BY <1>3, BumpIs
<1> PICK flake : flake = integ.flake \cup Bump(p, pr[p].meta, k, matters)
  OBVIOUS
<1> PICK c : c = Commit(p, pr[p].meta, TRUE, integ, flake, integ.lock)
  OBVIOUS
<1> PICK n : n = Len(heads) + 1
  OBVIOUS
<1> PICK r : r = [pr[p] EXCEPT !.head = n, !.pushed = k]
  OBVIOUS
<1>5. /\ c \in Commits /\ c.pr = p /\ c.base = integ /\ c.flake = flake /\ c.lock = integ.lock
      /\ c.run.plan = "todo" => pr[p].meta.eco = "nix"
      /\ c.run.plan # "empty" /\ c.run.push = "none" /\ c.run.got = 0
  <2>1. flake \in SUBSET Bumps
    BY <1>1, <1>4
  <2>2. Fresh(c, p, pr[p].meta, integ, flake, integ.lock)
    BY <1>1, <2>1, CommitIs
  <2> QED
    BY <2>2 DEF Fresh
<1>6. n <= MaxHeads
  BY <1>1, Bounds DEF Room
<1>7. /\ r \in PrRecords /\ r.st = "open" /\ r.meta = pr[p].meta /\ r.head = n
      /\ r.auto = pr[p].auto /\ r.pushed = k /\ r.relocks = pr[p].relocks
  <2>1. n \in 0..MaxHeads
    BY <1>1, <1>6, Bounds
  <2> QED
    BY <1>1, <1>3, <2>1 DEF PrRecords
<1>8. heads' = Append(heads, c)
  BY DEF Rebase
<1>9. pr' = [pr EXCEPT ![p] = r]
  <2>1. pr' = [pr EXCEPT ![p].head = n, ![p].pushed = @ + 1]
    BY DEF Rebase
  <2> QED
    BY <1>1, <2>1 DEF PrRecords
<1>10. /\ OldHeads /\ Len(heads') = n /\ heads'[n] = c
       /\ \A i \in Runs : heads'[i].run = heads[i].run
  BY <1>1, <1>5, <1>8, Appended
<1>11. Grounded(c) /\ (Own(c) # {} => pr[p].meta.eco = "nix")
  <2>1. \A x \in c.flake : x[1] = p \/ x \in integ.flake
    BY <1>4, <1>5
  <2>2. \A x \in c.lock.bumps : pr[x[1]].st = "merged"
    BY <1>5 DEF IInv, MergedOnly
  <2>3. Grounded(c) /\ Own(c) \cap integ.flake = {}
    BY <1>1, <1>5, <2>1, <2>2, GroundedNow
  <2> QED
    BY <1>4, <1>5, <2>3 DEF Own
<1>12. Tip(p).base.flake \subseteq integ.flake
  BY <1>2 DEF IInv, Based, Grounded, Tip
<1>13. /\ UNCHANGED conf /\ integ' = integ /\ moved' \in Prs \cup {0}
       /\ week' \in {"off", "pushed", "sent"} /\ weeks' \in 0..MaxWeeks
  BY DEF Rebase, IInv, Types
<1>14. /\ pr' \in [Prs -> PrRecords] /\ pr'[p] = r /\ \A q \in Prs \ {p} : pr'[q] = pr[q]
  BY <1>1, <1>7, <1>9
<1>15. HeadIs(p, c, n)
  BY <1>5, <1>6, <1>7, <1>10, <1>14 DEF HeadIs
<1>16. PrHas(p, n)
  BY <1>1, <1>3, <1>7, <1>14 DEF PrHas
<1>17. Around
  <2>1. rebases' \in 0..MaxRebases /\ rebases <= rebases'
    BY <1>1, Bounds
  <2> QED
    BY <2>1, <1>13 DEF Around
<1>18. MadeOf(p, c)
  <2>1. ~(pr'[p].pushed <= 1)
    BY <1>3, <1>7, <1>14
  <2>2. Tip(p).base.flake \subseteq c.base.flake
    BY <1>5, <1>12
  <2>3. Own(c) # {} => pr'[p].meta.eco = "nix"
    BY <1>7, <1>11, <1>14
  <2> QED
    BY <2>1, <2>2, <2>3, <1>11 DEF MadeOf
<1>19. pr'[p].relocks = pr[p].relocks
  BY <1>7, <1>14
<1> QED
  BY <1>19, <1>5, <1>15, <1>16, <1>17, <1>18, NewHead, HeadFits DEF NewTip, IInv

-----------------------------------------------------------------------------
\* The heart of it: a relock made for an older head fits the newest, when both have the same
\* lock. If the newest head's base had more inputs that matter, its lock would have them.
LEMMA RelockFits ==
  ASSUME IInv, NEW p \in Prs, NEW h \in Runs, Of(h) = p, pr[p].st = "open", pr[p].pushed <= 1,
         Tip(p).lock = heads[h].lock, InStep(Tip(p).base)
  PROVE  Matter(heads[h].flake) = Matter(Tip(p).flake)
<1>1. /\ pr[p].head \in Runs /\ Tip(p) = heads[pr[p].head] /\ Tip(p).pr = p /\ heads[h].pr = p
  BY DEF IInv, Led, Tip, Of
<1>2. /\ Grounded(heads[h]) /\ Grounded(Tip(p)) /\ Own(heads[h]) = Own(Tip(p))
      /\ heads[h].base.flake \subseteq Tip(p).base.flake /\ Locked(Tip(p))
  <2>1. Follows(h) /\ Follows(pr[p].head) /\ Of(pr[p].head) = p
    BY <1>1 DEF IInv, Led
  <2>2. Locked(Tip(p))
    BY <1>1, <2>1 DEF Follows
  <2> QED
    BY <1>1, <2>1, <2>2 DEF IInv, Based, Follows
<1>3. Matter(Tip(p).base.flake) \subseteq heads[h].lock.bumps
  <2>1. CASE Tip(p).lock = Tip(p).base.lock
    BY <2>1 DEF InStep
  <2>2. CASE InStep(Tip(p))
    BY <1>2, <2>2 DEF InStep, Grounded, Matter
  <2> QED
    BY <1>2, <2>1, <2>2 DEF Locked
<1>4. \A x \in Matter(Tip(p).base.flake) : x \in heads[h].base.flake
  <2> SUFFICES ASSUME NEW x \in Tip(p).base.flake, x[3] PROVE x \in heads[h].base.flake
    BY DEF Matter
  <2>1. x \in heads[h].lock.bumps
    BY <1>3 DEF Matter
  <2>2. x[1] # p /\ x \in integ.flake
    BY <1>1, <1>2 DEF Grounded
  <2> QED
    BY <1>1, <1>2, <2>1, <2>2 DEF Grounded, From
<1>5. \A x \in heads[h].flake : x \in Own(heads[h]) \/ x \in heads[h].base.flake
  BY <1>2 DEF Grounded, Own
<1>6. \A x \in Tip(p).flake : x \in Own(Tip(p)) \/ x \in Tip(p).base.flake
  BY <1>2 DEF Grounded, Own
<1>7. /\ Own(heads[h]) \subseteq heads[h].flake /\ Own(Tip(p)) \subseteq Tip(p).flake
      /\ heads[h].base.flake \subseteq heads[h].flake
      /\ Tip(p).base.flake \subseteq Tip(p).flake
  BY <1>2 DEF Own, Grounded
<1> QED
  BY <1>2, <1>4, <1>5, <1>6, <1>7 DEF Matter

LEMMA PushStep == ASSUME IInv, NEW h \in Runs, Open(Of(h)), Push(h)
  PROVE  IInv' /\ (Quiet \/ Relock(Of(h), h))
<1> PICK p \in Prs : p = Of(h)
  BY Heads DEF IInv
<1>1. /\ heads \in Seq(Commits) /\ Runs = 1..Len(heads) /\ Len(heads) \in Nat
      /\ heads[h] \in Commits /\ pr \in [Prs -> PrRecords] /\ pr[p] \in PrRecords
      /\ pr[p].pushed \in Nat /\ pr[p].relocks \in Nat /\ byApp \in BOOLEAN
      /\ rebases \in 0..MaxRebases
      /\ pr[p].st = "open" /\ heads[h].run.push = "got" /\ Running(h)
  BY Heads DEF IInv, Types, Push, PushAt, PrRecords, Open
<1>2. /\ pr[p].head \in Runs /\ Tip(p) = heads[pr[p].head] /\ Tip(p) \in Commits /\ Tip(p).pr = p
      /\ pr[p].pushed <= rebases + 1
      /\ pr[p].meta.author = "dependabot" => pr[p].pushed >= 1
  BY <1>1 DEF IInv, Led, Tip, Of
<1>3. UNCHANGED <<conf, counts, integ, moved, week>>
  BY DEF Push, Keep
<1>4. CASE heads' = PushEnds(heads, h) /\ pr' = pr
  <2>1. JobsOnly
    BY <1>4, PushEnded
  <2> QED
    BY <1>3, <1>4, <2>1, PrsAsTheyWere, JobStep DEF conf, counts, IInv, Types, SameInteg
<1> DEFINE v == IF byApp THEN "sent" ELSE "pushed"
<1>5. CASE /\ pr[p].head = heads[h].run.got /\ Room
           /\ heads' = Append(PushGoes(heads, h, v),
                              Commit(p, pr[p].meta, byApp, Tip(p).base, Tip(p).flake,
                                     Relocked(heads[h])))
           /\ pr' = [pr EXCEPT ![p].head = Len(heads) + 1, ![p].relocks = @ + 1]
  <2>a. PICK c : c = Commit(p, pr[p].meta, byApp, Tip(p).base, Tip(p).flake, Relocked(heads[h]))
    OBVIOUS
  <2> PICK n : n = Len(heads) + 1
    OBVIOUS
  <2>c. PICK r : r = [pr[p] EXCEPT !.head = n, !.relocks = pr[p].relocks + 1]
    OBVIOUS
  <2>1. Relocked(heads[h]) \in Locks /\ Relocked(heads[h]).bumps = Matter(heads[h].flake)
    BY <1>1, RelockedIs
  <2>2. /\ c \in Commits /\ c.pr = p /\ c.base = Tip(p).base /\ c.flake = Tip(p).flake
        /\ c.lock = Relocked(heads[h])
        /\ c.run.plan = "todo" => pr[p].meta.eco = "nix"
        /\ c.run.plan # "empty" /\ c.run.push = "none" /\ c.run.got = 0
    <3>1. Tip(p).base \in Branches /\ Tip(p).flake \in SUBSET Bumps
      BY <1>2 DEF Commits
    <3>2. Fresh(c, p, pr[p].meta, Tip(p).base, Tip(p).flake, Relocked(heads[h]))
      BY <1>1, <2>a, <2>1, <3>1, CommitIs
    <3> QED
      BY <3>2 DEF Fresh
  <2>3. n <= MaxHeads
    BY <1>1, <1>5, Bounds DEF Room
  <2>4. /\ r \in PrRecords /\ r.st = "open" /\ r.meta = pr[p].meta /\ r.head = n
        /\ r.auto = pr[p].auto /\ r.pushed = pr[p].pushed
    <3>1. n \in 0..MaxHeads /\ pr[p].relocks + 1 \in Nat
      BY <1>1, <2>3, Bounds
    <3> QED
      BY ONLY <1>1, <2>c, <3>1 DEF PrRecords
  <2>5. pr' = [pr EXCEPT ![p] = r]
    BY <1>1, <1>5, <2>c DEF PrRecords
  <2>6. /\ pr' \in [Prs -> PrRecords] /\ pr'[p] = r /\ \A q \in Prs \ {p} : pr'[q] = pr[q]
    BY <1>1, <2>4, <2>5
  <2>7. Tip(p).lock = heads[h].lock
    BY <1>1, <1>2, <1>5 DEF Running
  <2>8. Grounded(heads[h]) /\ Based(Tip(p)) /\ heads[h].base.flake \subseteq Tip(p).base.flake
        /\ heads[h].pr = p
        /\ (pr[p].pushed <= 1 => Own(heads[h]) = Own(Tip(p)))
    BY <1>2 DEF IInv, Based, Follows, Of
  <2>9. Grounded(c) /\ Own(c) = Own(Tip(p))
    <3>1. \A x \in c.lock.bumps : x[1] = p \/ x \in Tip(p).base.flake
      BY <2>1, <2>2, <2>8 DEF Grounded, Matter
    <3>2. Grounded(Tip(p))
      BY <2>8 DEF Based
    <3>3. \A x \in Tip(p).base.flake : From(x, Tip(p).base.flake)
      BY <3>2 DEF Grounded
    <3>4. \A x \in c.lock.bumps : x[1] = p \/ From(x, c.base.flake)
      BY <2>2, <3>1, <3>3
    <3>5. /\ c.base.flake \subseteq integ.flake /\ c.base.flake \subseteq c.flake
          /\ \A x \in c.flake : x[1] = p \/ x \in c.base.flake
          /\ \A x \in c.base.flake \cup c.base.lock.bumps : x[1] # p /\ From(x, c.base.flake)
      BY <1>2, <2>2, <3>2 DEF Grounded
    <3>6. Grounded(c)
      BY <2>2, <3>4, <3>5 DEF Grounded
    <3> QED
      BY <1>2, <2>2, <3>6 DEF Own
  <2>10. ASSUME pr[p].pushed <= 1 PROVE Locked(c) /\ OwnIn(c)
    <3>1. OwnIn(c)
      BY <2>1, <2>2, <2>8, <2>9, <2>10 DEF OwnIn, Own, Matter
    <3>2. ASSUME InStep(c.base) PROVE InStep(c)
      <4>1. InStep(Tip(p).base)
        BY <2>2, <3>2
      <4>2. Matter(heads[h].flake) = Matter(Tip(p).flake)
        BY <1>1, <2>7, <2>10, <4>1, RelockFits
      <4> QED
        BY <2>1, <2>2, <4>2 DEF InStep
    <3> QED
      BY <3>1, <3>2 DEF Locked
  <2>11. /\ HeadIs(p, c, n)
         /\ heads'[h].run.push \in {"pushed", "sent"} /\ heads'[h].run.plan # "todo"
    <3> PICK w : w = v
      OBVIOUS
    <3> PICK g : g = AtPush(heads[h], w, heads[h].run.got)
      OBVIOUS
    <3> PICK hs : hs = PushGoes(heads, h, w)
      OBVIOUS
    <3>1. /\ heads[h].run.got \in 0..MaxHeads /\ heads[h].run.got <= Len(heads)
          /\ w \in {"pushed", "sent"} /\ w \in {"none", "todo", "got", "pushed", "sent"}
      BY <1>1 DEF Commits, RunRecords, Running
    <3>2. JobMoves(heads, hs, h, g)
      BY <1>1, <3>1, PushSet
    <3>3. g.plan = heads[h].run.plan /\ g.push = w /\ g.got = heads[h].run.got
      BY <1>1, <3>1, AtPushIs
    <3>5. Moves(hs, c, h, g) /\ Room
      BY <1>5, <2>a, <3>2 DEF Moves
    <3>6. /\ OldHeads /\ Len(heads') = n /\ heads'[n] = c /\ heads'[h].run = g
          /\ \A i \in Runs : heads'[i].run = heads[i].run \/ (i = h /\ heads'[i].run = g)
      <4>1. c \in Commits
        BY <2>2
      <4> QED
        BY <4>1, <3>5, MovedAndAppended
    <3>7. Decide(pr[p].meta) = "relock"
      BY <1>1 DEF Running
    <3>8. \A i \in Runs : heads'[i].run = heads[i].run \/ Pushed(i, p, c)
      BY <1>1, <2>4, <2>6, <2>10, <3>1, <3>3, <3>6, <3>7 DEF Pushed
    <3>9. HeadIs(p, c, n)
      BY <2>2, <2>3, <2>4, <2>6, <3>6, <3>8 DEF HeadIs
    <3> QED
      BY <1>1, <3>1, <3>3, <3>6, <3>9 DEF Running
  <2>12. PrHas(p, n)
    BY <1>1, <1>2, <1>3, <2>4, <2>6 DEF PrHas, counts
  <2>13. Around
    BY <1>1, <1>3 DEF Around, counts, IInv, Types
  <2>14. MadeOf(p, c)
    <3>1. pr'[p].pushed = pr[p].pushed /\ pr'[p].meta = pr[p].meta
      BY <2>4, <2>6
    <3>2. Own(c) # {} => pr'[p].meta.eco = "nix"
      BY <1>2, <2>8, <2>9, <3>1 DEF Based
    <3>3. Tip(p).base.flake \subseteq c.base.flake
      BY <2>2
    <3> QED
      BY <2>9, <2>10, <3>1, <3>2, <3>3 DEF MadeOf
  <2>15. Relock(p, h)
    BY <1>1, <2>2, <2>11, <2>12, HeadFits DEF Relock, IInv
  <2> QED
    BY <2>2, <2>11, <2>12, <2>13, <2>14, <2>15, NewHead
<1> QED
  BY <1>4, <1>5 DEF Push, PushGoes

\* The lock that a merge of the branches makes, where they do not conflict.
LEMMA UpdateFits ==
  ASSUME IInv, NEW p \in Prs, pr[p].st = "open", ~Conflict(Tip(p)), NEW c \in Commits, c.pr = p,
         c.base = integ, c.flake = Tip(p).flake \cup integ.flake, c.lock = MergedLock(Tip(p))
  PROVE  /\ Grounded(c) /\ Own(c) = Own(Tip(p)) /\ Tip(p).base.flake \subseteq c.base.flake
         /\ Locked(Tip(p)) => Locked(c)
         /\ OwnIn(Tip(p)) => OwnIn(c)
<1>1. /\ pr[p].head \in Runs /\ Tip(p) = heads[pr[p].head] /\ Tip(p).pr = p
  BY DEF IInv, Led, Tip, Of
<1>2. Grounded(Tip(p))
  BY <1>1 DEF IInv, Based
<1>3. c.lock = Tip(p).lock \/ (c.lock = integ.lock /\ Tip(p).lock = Tip(p).base.lock)
  BY DEF MergedLock
<1>4. \A x \in integ.lock.bumps : pr[x[1]].st = "merged"
  BY DEF IInv, MergedOnly
<1>5. Grounded(c) /\ Own(c) \cap integ.flake = {}
  <2>1. \A x \in c.flake : x[1] = p \/ x \in integ.flake
    BY <1>1, <1>2 DEF Grounded
  <2>2. \A x \in c.lock.bumps : x[1] = p \/ pr[x[1]].st = "merged"
    BY <1>1, <1>2, <1>3, <1>4 DEF Grounded, From
  <2> QED
    BY <2>1, <2>2, GroundedNow
<1>6. Own(c) = Own(Tip(p))
  BY <1>1, <1>5 DEF Own
<1>7. ASSUME Locked(Tip(p)), InStep(integ), c.lock # c.base.lock PROVE InStep(c)
  <2>1. c.lock = Tip(p).lock /\ Tip(p).lock # Tip(p).base.lock
    BY <1>7 DEF MergedLock
  <2>2. integ.lock = Tip(p).base.lock
    BY <2>1 DEF Conflict
  <2>3. Matter(integ.flake) = Tip(p).base.lock.bumps
    BY <2>2, <1>7 DEF InStep
  <2>4. \A x \in Matter(integ.flake) : x \in Tip(p).base.flake
    BY <1>2, <2>3 DEF Grounded, From, Matter
  <2>5. Matter(Tip(p).base.flake) = Matter(integ.flake)
    BY <1>2, <2>4 DEF Grounded, Matter
  <2>6. InStep(Tip(p).base)
    BY <2>3, <2>5 DEF InStep
  <2>7. InStep(Tip(p))
    BY <1>7, <2>1, <2>6 DEF Locked
  <2>8. Matter(c.flake) = Matter(Tip(p).flake)
    BY <1>2, <2>4 DEF Grounded, Matter
  <2> QED
    BY <2>1, <2>7, <2>8 DEF InStep
<1>8. Locked(Tip(p)) => Locked(c)
  BY <1>7 DEF Locked
<1>9. OwnIn(Tip(p)) => OwnIn(c)
  <2>1. CASE c.lock = Tip(p).lock
    BY <2>1, <1>6 DEF OwnIn
  <2>2. CASE Tip(p).lock = Tip(p).base.lock
    BY <2>2, <1>1, <1>2, <1>6 DEF OwnIn, Own, Matter, Grounded
  <2> QED
    BY <1>3, <2>1, <2>2
<1> QED
  BY <1>2, <1>5, <1>6, <1>8, <1>9 DEF Grounded

LEMMA UpdateStep == ASSUME IInv, NEW p \in Prs, Update(p) PROVE IInv' /\ NewTip(p)
<1>1. /\ integ \in Branches /\ heads \in Seq(Commits) /\ Len(heads) \in Nat
      /\ pr \in [Prs -> PrRecords] /\ pr[p] \in PrRecords /\ pr[p].pushed \in Nat
      /\ byApp \in BOOLEAN /\ rebases \in 0..MaxRebases /\ rebases \in Nat
      /\ integ.flake \in SUBSET Bumps /\ integ.lock \in Locks
      /\ pr[p].st = "open" /\ Room /\ ~Conflict(Tip(p))
  <2>1. pr[p].st = "open" /\ Room /\ ~Conflict(Tip(p))
    BY DEF Update, Taken, Waiting, Open
  <2>2. integ \in Branches /\ pr \in [Prs -> PrRecords] /\ rebases \in Nat
    BY Bounds DEF IInv, Types
  <2>3. pr[p].pushed \in Nat /\ integ.flake \in SUBSET Bumps /\ integ.lock \in Locks
    BY <2>2 DEF PrRecords, Branches
  <2> QED
    BY <2>1, <2>2, <2>3 DEF IInv, Types
<1>2. /\ pr[p].head \in Runs /\ Tip(p) = heads[pr[p].head] /\ Tip(p) \in Commits /\ Tip(p).pr = p
      /\ pr[p].pushed <= rebases + 1
      /\ pr[p].meta.author = "dependabot" => pr[p].pushed >= 1
      /\ Tip(p).flake \in SUBSET Bumps /\ Tip(p).lock \in Locks
  <2>1. pr[p].head \in Runs /\ Of(pr[p].head) = p /\ pr[p].pushed <= rebases + 1
        /\ (pr[p].meta.author = "dependabot" => pr[p].pushed >= 1)
    BY <1>1 DEF IInv, Led
  <2>2. heads[pr[p].head] \in Commits
    BY <1>1, <2>1 DEF Runs
  <2> QED
    BY <2>1, <2>2 DEF Commits, Tip, Of
<1> PICK flake : flake = Tip(p).flake \cup integ.flake
  OBVIOUS
<1>a. PICK c : c = Commit(p, pr[p].meta, byApp, integ, flake, MergedLock(Tip(p)))
  OBVIOUS
<1> PICK n : n = Len(heads) + 1
  OBVIOUS
<1>b. PICK r : r = [pr[p] EXCEPT !.head = n, !.kept = FALSE]
  OBVIOUS
<1>3. /\ c \in Commits /\ c.pr = p /\ c.base = integ /\ c.flake = flake
      /\ c.lock = MergedLock(Tip(p))
      /\ c.run.plan = "todo" => pr[p].meta.eco = "nix"
      /\ c.run.plan # "empty" /\ c.run.push = "none" /\ c.run.got = 0
  <2>1. flake \in SUBSET Bumps /\ MergedLock(Tip(p)) \in Locks
    BY <1>1, <1>2 DEF MergedLock
  <2>2. Fresh(c, p, pr[p].meta, integ, flake, MergedLock(Tip(p)))
    BY <1>a, <1>1, <2>1, CommitIs
  <2> QED
    BY <2>2 DEF Fresh
<1>4. n <= MaxHeads /\ n \in 0..MaxHeads
  BY <1>1, Bounds DEF Room
<1>5. /\ r \in PrRecords /\ r.st = "open" /\ r.meta = pr[p].meta /\ r.head = n
      /\ r.auto = pr[p].auto /\ r.pushed = pr[p].pushed /\ r.relocks = pr[p].relocks
  BY <1>b, <1>1, <1>4 DEF PrRecords
<1>6. heads' = Append(heads, c)
  BY <1>a DEF Update
<1>7. pr' = [pr EXCEPT ![p] = r]
  <2>1. pr' = [pr EXCEPT ![p].head = n, ![p].kept = FALSE]
    BY DEF Update
  <2> QED
    BY <1>b, <1>1, <2>1 DEF PrRecords
<1>8. /\ OldHeads /\ Len(heads') = n /\ heads'[n] = c
      /\ \A i \in Runs : heads'[i].run = heads[i].run
  BY <1>1, <1>3, <1>6, Appended
<1>9. /\ Grounded(c) /\ Own(c) = Own(Tip(p)) /\ Tip(p).base.flake \subseteq c.base.flake
      /\ Locked(Tip(p)) => Locked(c)
      /\ OwnIn(Tip(p)) => OwnIn(c)
  BY <1>1, <1>3, UpdateFits
<1>10. pr[p].pushed <= 1 => Locked(Tip(p))
  <2>1. Follows(pr[p].head) /\ Of(pr[p].head) = p
    BY <1>2 DEF IInv, Of
  <2> QED
    BY <1>2, <2>1 DEF Follows
<1>11. Own(Tip(p)) # {} => pr[p].meta.eco = "nix"
  BY <1>2 DEF IInv, Based
<1>12. /\ pr' \in [Prs -> PrRecords] /\ pr'[p] = r /\ \A q \in Prs \ {p} : pr'[q] = pr[q]
  BY <1>1, <1>5, <1>7
<1>13. UNCHANGED <<conf, counts, integ, week>> /\ moved' \in Prs \cup {0}
  BY DEF Update, Keep
<1>14. HeadIs(p, c, n)
  BY <1>3, <1>4, <1>5, <1>8, <1>12 DEF HeadIs
<1>15. PrHas(p, n)
  BY <1>1, <1>2, <1>5, <1>12, <1>13 DEF PrHas, counts
<1>16. Around
  BY <1>1, <1>13 DEF Around, counts, IInv, Types
<1>17. MadeOf(p, c)
  <2>1. pr'[p].pushed = pr[p].pushed /\ pr'[p].meta = pr[p].meta
    BY <1>5, <1>12
  <2> QED
    BY <1>9, <1>10, <1>11, <2>1 DEF MadeOf
<1>18. pr'[p].relocks = pr[p].relocks
  BY <1>5, <1>12
<1> QED
  BY <1>18, <1>3, <1>14, <1>15, <1>16, <1>17, NewHead, HeadFits DEF NewTip, IInv

LEMMA RelockUpgradeStep == ASSUME IInv, NEW p \in Prs, RelockUpgrade(p) PROVE IInv' /\ NewTip(p)
<1>1. /\ integ \in Branches /\ heads \in Seq(Commits) /\ Len(heads) \in Nat
      /\ pr \in [Prs -> PrRecords] /\ pr[p] \in PrRecords /\ pr[p].pushed \in Nat
      /\ byApp \in BOOLEAN /\ rebases \in 0..MaxRebases /\ rebases \in Nat
      /\ weeks' \in 0..MaxWeeks
      /\ integ.flake \in SUBSET Bumps /\ integ.lock \in Locks
      /\ pr[p].st \in {"none", "open"} /\ Room
      /\ pr[p].st = "open" => pr[p].meta = Weekly
  <2>1. /\ pr[p].st \in {"none", "open"} /\ Room /\ weeks < MaxWeeks /\ weeks' = weeks + 1
        /\ pr[p].st = "open" => pr[p].meta = Weekly
    BY DEF RelockUpgrade, WeeklyPrs, Open
  <2>2. integ \in Branches /\ pr \in [Prs -> PrRecords] /\ rebases \in Nat /\ weeks \in Nat
    BY Bounds DEF IInv, Types
  <2>3. pr[p].pushed \in Nat /\ integ.flake \in SUBSET Bumps /\ integ.lock \in Locks
    BY <2>2 DEF PrRecords, Branches
  <2>4. weeks' \in 0..MaxWeeks
    BY <2>1, <2>2, Bounds
  <2> QED
    BY <2>1, <2>2, <2>3, <2>4 DEF IInv, Types
<1> PICK lock : lock = LockOf(integ.flake, weeks')
  OBVIOUS
<1>2. lock \in Locks /\ lock.bumps = Matter(integ.flake)
  BY <1>1, LockOfIs
<1>a. PICK c : c = Commit(p, Weekly, byApp, integ, integ.flake, lock)
  OBVIOUS
<1> PICK n : n = Len(heads) + 1
  OBVIOUS
<1>b. PICK r : r = IF Open(p) THEN [pr[p] EXCEPT !.head = n]
                   ELSE [NoPr EXCEPT !.st = "open", !.meta = Weekly, !.head = n, !.kept = FALSE]
  OBVIOUS
<1>3. /\ c \in Commits /\ c.pr = p /\ c.base = integ /\ c.flake = integ.flake /\ c.lock = lock
      /\ c.run.plan = "todo" => Weekly.eco = "nix"
      /\ c.run.plan # "empty" /\ c.run.push = "none" /\ c.run.got = 0
  <2>2. Fresh(c, p, Weekly, integ, integ.flake, lock)
    BY <1>a, <1>1, <1>2, CommitIs
  <2> QED
    BY <2>2 DEF Fresh
<1>4. n <= MaxHeads /\ n \in 0..MaxHeads
  BY <1>1, Bounds DEF Room
<1>5. /\ r \in PrRecords /\ r.st = "open" /\ r.meta = Weekly /\ r.head = n
      /\ r.auto => pr[p].auto
      /\ r.relocks = pr[p].relocks
      /\ r.pushed <= rebases + 1
      /\ pr[p].st = "open" => r.pushed = pr[p].pushed
  <2>1. CASE Open(p)
    <3>1. r = [pr[p] EXCEPT !.head = n] /\ pr[p].st = "open" /\ pr[p].pushed <= rebases + 1
      BY <1>b, <2>1 DEF Open, IInv, Led
    <3> QED
      BY <3>1, <1>1, <1>4 DEF PrRecords
  <2>2. CASE ~Open(p)
    <3>1. r = [NoPr EXCEPT !.st = "open", !.meta = Weekly, !.head = n, !.kept = FALSE]
          /\ pr[p].st # "open"
      BY <1>b, <2>2 DEF Open
    <3>2. NoPr \in PrRecords /\ NoPr.auto = FALSE /\ NoPr.pushed = 0
          /\ NoPr.relocks = 0 /\ pr[p].relocks = 0
      BY <1>1, <2>2, Bounds DEF NoPr, PrRecords, IInv, Led, Open
    <3>3. r \in PrRecords
      BY <3>1, <3>2, <1>4 DEF PrRecords
    <3>4. /\ r.st = "open" /\ r.meta = Weekly /\ r.head = n /\ r.auto = FALSE /\ r.pushed = 0
          /\ r.relocks = 0
      BY <3>1, <3>2 DEF PrRecords
    <3> QED
      BY <3>1, <3>2, <3>3, <3>4, <1>1
  <2> QED
    BY <2>1, <2>2
<1>6. heads' = Append(heads, c) /\ pr' = [pr EXCEPT ![p] = r]
  <2>1. weeks' = weeks + 1
    BY DEF RelockUpgrade
  <2>2. heads' = Append(heads, c)
    BY <1>a, <2>1 DEF RelockUpgrade
  <2>3. pr' = [pr EXCEPT ![p] = r]
    BY <1>b DEF RelockUpgrade
  <2> QED
    BY <2>2, <2>3
<1>7. /\ OldHeads /\ Len(heads') = n /\ heads'[n] = c
      /\ \A i \in Runs : heads'[i].run = heads[i].run
  BY <1>1, <1>3, <1>6, Appended
<1>8. \A x \in integ.flake \cup integ.lock.bumps : pr[x[1]].st = "merged"
  BY DEF IInv, MergedOnly
<1>9. Grounded(c) /\ Own(c) = {} /\ Locked(c) /\ OwnIn(c)
  <2>1. Grounded(c) /\ Own(c) \cap integ.flake = {}
    BY <1>1, <1>2, <1>3, <1>8, GroundedNow DEF Matter
  <2>2. Own(c) = {}
    BY <1>3, <2>1 DEF Own
  <2> QED
    BY <1>2, <1>3, <2>1, <2>2 DEF Locked, InStep, OwnIn, Matter
<1>10. pr[p].st = "open" => Own(Tip(p)) = {} /\ Tip(p).base.flake \subseteq integ.flake
  <2>1. Weekly.eco # "nix"
    BY DEF Weekly
  <2>2. pr[p].st = "open" => Based(Tip(p)) /\ Tip(p).pr = p
    BY DEF IInv, Led, Tip, Of
  <2> QED
    BY <1>1, <2>1, <2>2 DEF Based, Grounded
<1>11. /\ pr' \in [Prs -> PrRecords] /\ pr'[p] = r /\ \A q \in Prs \ {p} : pr'[q] = pr[q]
  BY <1>1, <1>5, <1>6
<1>12. /\ UNCHANGED <<conf, integ, moved, rebases>> /\ week' \in {"off", "pushed", "sent"}
  BY DEF RelockUpgrade
<1>13. HeadIs(p, c, n)
  BY <1>3, <1>4, <1>5, <1>7, <1>11 DEF HeadIs
<1>14. PrHas(p, n)
  <2>1. Weekly.author # "dependabot"
    BY DEF Weekly
  <2> QED
    BY <1>1, <1>5, <1>11, <1>12, <2>1 DEF PrHas
<1>15. Around
  BY <1>1, <1>12 DEF Around, IInv, Types
<1>16. MadeOf(p, c)
  BY <1>3, <1>9, <1>10 DEF MadeOf
<1>17. pr'[p].relocks = pr[p].relocks
  BY <1>5, <1>11
<1> QED
  BY <1>17, <1>3, <1>13, <1>14, <1>15, <1>16, NewHead, HeadFits DEF NewTip, IInv

LEMMA MergeStep == ASSUME IInv, NEW p \in Prs, Merge(p) PROVE IInv'
<1>1. /\ integ \in Branches /\ heads \in Seq(Commits) /\ pr \in [Prs -> PrRecords]
      /\ pr[p].st = "open" /\ heads' = heads /\ Runs' = Runs /\ UNCHANGED conf
      /\ UNCHANGED <<moved, week, rebases, weeks>>
  BY DEF IInv, Types, Merge, Open, Runs, Keep, counts
<1>2. /\ pr[p].head \in Runs /\ Tip(p).pr = p /\ Tip(p) \in Commits /\ Grounded(Tip(p))
  <2>1. pr[p].head \in Runs /\ Of(pr[p].head) = p
    BY <1>1 DEF IInv, Led
  <2>2. heads[pr[p].head] \in Commits
    BY <1>1, <2>1 DEF Runs
  <2> QED
    BY <2>1, <2>2 DEF Tip, Of, IInv, Based
<1>3. \A h \in Runs : heads[h] \in Commits /\ Of(h) \in Prs /\ Of(h)' = Of(h)
  BY <1>1, Heads DEF IInv, Of
<1> PICK r : r = [pr[p] EXCEPT !.st = "merged", !.auto = FALSE]
  OBVIOUS
<1>4. /\ r \in PrRecords /\ r.st = "merged" /\ r.auto = FALSE /\ r.meta = pr[p].meta
      /\ r.head = pr[p].head /\ r.pushed = pr[p].pushed /\ r.relocks = pr[p].relocks
  BY <1>1 DEF PrRecords
<1>5. pr' = [pr EXCEPT ![p] = r]
  BY <1>1 DEF Merge, PrRecords
<1>6. /\ pr' \in [Prs -> PrRecords] /\ pr'[p] = r /\ \A q \in Prs \ {p} : pr'[q] = pr[q]
  BY <1>1, <1>4, <1>5
<1>7. /\ \A q \in Prs : /\ pr'[q].meta = pr[q].meta /\ pr'[q].head = pr[q].head
                        /\ pr'[q].pushed = pr[q].pushed
                        /\ (pr[q].st = "merged" => pr'[q].st = "merged")
                        /\ (pr'[q].st # "none" <=> pr[q].st # "none")
                        /\ (pr'[q].auto => q # p /\ pr[q].auto)
                        /\ pr'[q].relocks = pr[q].relocks
  BY <1>1, <1>4, <1>6
<1>8. /\ integ'.flake = integ.flake \cup Tip(p).flake /\ integ'.lock = MergedLock(Tip(p))
      /\ integ' \in Branches
  <2>1. Tip(p).flake \in SUBSET Bumps /\ MergedLock(Tip(p)) \in Locks
    BY <1>1, <1>2 DEF Commits, Branches, MergedLock
  <2> QED
    BY <1>1, <2>1 DEF Merge, Branches
<1>9. Types'
  <2>1. PrRecords' = PrRecords
    BY <1>1 DEF PrRecords, Weekly, conf
  <2> QED
    BY <1>1, <1>6, <1>8, <2>1 DEF IInv, Types, conf
<1>10. \A x \in Bumps : pr[x[1]].st = "merged" => pr'[x[1]].st = "merged"
  BY <1>7, BumpHas
<1>11. Tip(p).flake \subseteq Bumps /\ Tip(p).lock.bumps \subseteq Bumps
       /\ integ.flake \subseteq Bumps
       /\ integ.lock.bumps \subseteq Bumps
  BY <1>1, <1>2 DEF Commits, Locks, Branches
<1>12. \A x \in integ'.flake \cup integ'.lock.bumps : x[1] = p \/ pr[x[1]].st = "merged"
  <2>1. \A x \in integ.flake \cup integ.lock.bumps : pr[x[1]].st = "merged"
    BY DEF IInv, MergedOnly
  <2>2. \A x \in Tip(p).flake \cup Tip(p).lock.bumps : x[1] = p \/ pr[x[1]].st = "merged"
    BY <1>2 DEF Grounded, From
  <2> QED
    BY <1>8, <2>1, <2>2 DEF MergedLock
<1>13. MergedOnly'
  BY <1>4, <1>6, <1>8, <1>10, <1>11, <1>12 DEF MergedOnly, MergedLock
<1>14. ASSUME NEW x \in Bumps, NEW f, From(x, f) PROVE From(x, f)'
  <2>1. pr[x[1]].st = "merged" /\ x[1] # p
    BY <1>1, <1>14 DEF From
  <2>2. \A y \in integ'.flake : y[1] = x[1] => y \in integ.flake
    BY <1>2, <1>8, <2>1 DEF Grounded
  <2> QED
    BY <1>10, <1>14, <2>1, <2>2 DEF From
<1>15. ASSUME NEW h \in Runs PROVE Based(heads[h])'
  <2>1. Based(heads[h]) /\ heads[h] \in Commits
    BY <1>3 DEF IInv
  <2>2. heads[h].base.flake \subseteq Bumps /\ heads[h].base.lock.bumps \subseteq Bumps
        /\ heads[h].lock.bumps \subseteq Bumps /\ heads[h].pr \in Prs
    BY <2>1 DEF Commits, Branches, Locks
  <2>3. Own(heads[h])' = Own(heads[h])
    BY <1>1 DEF Own
  <2> QED
    BY <1>1, <1>7, <1>8, <1>14, <2>1, <2>2, <2>3 DEF Based, Grounded
<1>16. \A c : Own(c)' = Own(c) /\ (OwnIn(c)' <=> OwnIn(c)) /\ (Locked(c)' <=> Locked(c))
  BY DEF Own, OwnIn, Locked, InStep, Matter
<1>17. \A q \in Prs : Tip(q)' = Tip(q)
  BY <1>1, <1>7 DEF Tip
<1>18. ASSUME NEW h \in Runs PROVE Follows(h)'
  <2>1. Follows(h) /\ Of(h) \in Prs /\ Of(h)' = Of(h)
    BY <1>3 DEF IInv
  <2>2. Tip(Of(h))' = Tip(Of(h))
    BY <1>1, <1>7, <2>1 DEF Tip
  <2>3. /\ Own(heads[h])' = Own(heads[h]) /\ (OwnIn(heads[h])' <=> OwnIn(heads[h]))
        /\ (Locked(heads[h])' <=> Locked(heads[h])) /\ heads'[h].base = heads[h].base
        /\ Own(Tip(Of(h)))' = Own(Tip(Of(h))) /\ (OwnIn(Tip(Of(h)))' <=> OwnIn(Tip(Of(h))))
    BY <1>1, <2>2 DEF Own, OwnIn, Locked, InStep, Matter
  <2> QED
    BY <1>7, <2>1, <2>2, <2>3 DEF Follows
<1>19. \A m : Decide(m)' = Decide(m)
  BY <1>1 DEF conf, Decide, Automatic, MinorOrPatch, MovesFrappeNix, RolloutInputs
<1>20. ASSUME NEW h \in Runs PROVE Running(h)'
  <2>1. Running(h) /\ Of(h) \in Prs /\ Of(h)' = Of(h)
    BY <1>3 DEF IInv
  <2>2. Tip(Of(h))' = Tip(Of(h))
    BY <1>1, <1>7, <2>1 DEF Tip
  <2>3. /\ OwnIn(Tip(Of(h)))' <=> OwnIn(Tip(Of(h)))
        /\ Stale(heads[h])' = Stale(heads[h])
        /\ Decide(pr[Of(h)].meta)' = Decide(pr[Of(h)].meta)
        /\ pr'[Of(h)].meta = pr[Of(h)].meta /\ pr'[Of(h)].pushed = pr[Of(h)].pushed
    BY <1>1, <1>7, <1>19, <2>1, <2>2 DEF OwnIn, Own, Matter, Stale, Relocked, LockOf
  <2> QED
    BY <1>1, <1>3, <2>1, <2>3 DEF Running
<1>21. ASSUME NEW q \in Prs PROVE Led(q)'
  <2>1. Led(q)
    BY DEF IInv
  <2>2. Ruled(q)' <=> Ruled(q)
    BY <1>1, <1>7, <1>19 DEF Ruled, conf, Weekly
  <2>3. OwnIn(Tip(q))' <=> OwnIn(Tip(q))
    BY <1>17 DEF OwnIn, Own, Matter
  <2>4. pr[q].head \in Runs => Of(pr[q].head)' = Of(pr[q].head)
    BY <1>1, <1>7 DEF Of
  <2>5. Open(q) /\ q # p => Open(q)'
    BY <1>6 DEF Open
  <2> QED
    BY <1>1, <1>7, <2>1, <2>2, <2>3, <2>4, <2>5 DEF Led
<1> QED
  BY <1>1, <1>9, <1>13, <1>15, <1>18, <1>20, <1>21 DEF IInv

-----------------------------------------------------------------------------
LEMMA InitIInv == ASSUME Init PROVE IInv
<1>1. byApp \in BOOLEAN /\ protected \in BOOLEAN
  BY BotPrAssumption DEF Init
<1>2. {} \in SUBSET Bumps /\ 0 \in 0..MaxWeeks /\ 0 \in 0..MaxRebases /\ 0 \in 0..MaxHeads
  BY Bounds
<1>3. LockOf({}, 0) \in Locks /\ LockOf({}, 0).bumps = {}
  BY <1>2, LockOfIs DEF Matter
<1>4. integ \in Branches /\ integ.flake = {} /\ integ.lock.bumps = {}
  BY <1>2, <1>3 DEF Init, Branches
<1>5. NoPr \in PrRecords /\ NoPr.st = "none" /\ NoPr.auto = FALSE /\ NoPr.pushed = 0
      /\ NoPr.head = 0 /\ NoPr.relocks = 0
  BY <1>2 DEF NoPr, PrRecords
<1>6. pr \in [Prs -> PrRecords] /\ \A p \in Prs : pr[p] = NoPr
  BY <1>5 DEF Init
<1>7. heads \in Seq(Commits) /\ Len(heads) = 0 /\ Runs = {}
  BY DEF Init, Runs
<1>8. Types
  BY <1>1, <1>2, <1>4, <1>6, <1>7, Bounds DEF Types, Init
<1>9. MergedOnly
  BY <1>4 DEF MergedOnly
<1>10. ASSUME NEW p \in Prs PROVE Led(p)
  <2>1. pr[p].st = "none" /\ pr[p].auto = FALSE /\ pr[p].pushed = 0 /\ rebases = 0
        /\ pr[p].head = 0 /\ pr[p].relocks = 0
    BY <1>5, <1>6 DEF Init
  <2> QED
    BY <2>1 DEF Led
<1> QED
  BY <1>7, <1>8, <1>9, <1>10 DEF IInv

LEMMA Inductive == ASSUME IInv, [Next]_vars PROVE IInv'
<1>1. CASE UNCHANGED vars
  <2>1. JobsOnly
    BY <1>1, Heads DEF vars, JobsOnly, OldHeads, IInv
  <2> QED
    BY <1>1, <2>1, PrsAsTheyWere, JobStep DEF vars, conf, counts, IInv, Types, SameInteg
<1>2. ASSUME NEW h \in Runs, DepsRun(h) PROVE IInv'
  BY <1>2, PlanStep, CheckoutStep, PushStep, SendChecksStep, PushEnablesStep, AutoMergeStep
     DEF DepsRun
<1>3. CASE Jobs
  <2>1. ASSUME WeekFails PROVE IInv'
    <3>1. JobsOnly
      BY <2>1, Heads DEF WeekFails, JobsOnly, OldHeads, IInv
    <3> QED
      BY <2>1, <3>1, PrsAsTheyWere, JobStep
         DEF WeekFails, Keep, conf, counts, IInv, Types, SameInteg
  <2> QED
    BY <1>2, <1>3, <2>1, UpdateEnsuresStep, UpdateStep, WeekStep DEF Jobs
<1>4. CASE PersonPush
  <2>1. JobsOnly
    BY <1>4, Heads DEF PersonPush, JobsOnly, OldHeads, IInv
  <2>2. SameInteg
    BY <1>4 DEF PersonPush, SameInteg, IInv, Types, Branches
  <2> QED
    BY <1>4, <2>1, <2>2, PrsAsTheyWere, JobStep DEF PersonPush, conf, IInv, Types
<1> QED
  BY <1>1, <1>3, <1>4, OpenPrStep, RebaseStep, MergeStep, PersonStep, RelockUpgradeStep, SweepStep
     DEF Next

THEOREM Invariance == Spec => []IInv
<1>1. IInv /\ [Next]_vars => IInv'
  BY Inductive
<1>2. Init => IInv
  BY InitIInv
<1> QED
  BY <1>1, <1>2, PTL DEF Spec

\* The shapes of the branches, the PRs and the jobs, however many there are.
THEOREM TypeCorrect == Spec => []TypeOK
  BY Invariance, TypesAre, PTL

-----------------------------------------------------------------------------
\* The lock that a merge leaves, of a PR that Dependabot pushed once: in step with the inputs.
LEMMA MergeFits ==
  ASSUME IInv, NEW p \in Prs, Merge(p), InStep(integ), pr[p].pushed <= 1
  PROVE  InStep(integ)'
<1>1. /\ pr[p].st = "open" /\ pr[p].auto /\ ~Conflict(Tip(p)) /\ integ \in Branches
      /\ heads \in Seq(Commits)
  BY DEF Merge, Open, IInv, Types
<1>2. Ruled(p) /\ OwnIn(Tip(p)) /\ pr[p].head \in Runs /\ Tip(p).pr = p
  BY <1>1 DEF IInv, Led, Tip, Of
<1>3. Based(Tip(p)) /\ Locked(Tip(p))
  <2>1. Of(pr[p].head) = p /\ Follows(pr[p].head)
    BY <1>2 DEF IInv, Tip, Of
  <2> QED
    BY <1>2, <2>1 DEF IInv, Tip, Follows
<1>4. integ'.flake = integ.flake \cup Tip(p).flake /\ integ'.lock = MergedLock(Tip(p))
  BY DEF Merge
<1>5. integ.lock.bumps = Matter(integ.flake)
  BY DEF InStep
<1>6. CASE Tip(p).lock = Tip(p).base.lock
  <2>1. Matter(Own(Tip(p))) = {}
    BY <1>2, <1>3, <1>6 DEF OwnIn, Own, Matter, Based, Grounded
  <2>2. Matter(Tip(p).flake) \subseteq integ.flake
    BY <1>2, <1>3, <2>1 DEF Own, Matter, Based, Grounded
  <2>3. Matter(integ'.flake) = Matter(integ.flake)
    BY <1>4, <2>2 DEF Matter
  <2>4. integ'.lock = integ.lock
    BY <1>4, <1>6 DEF MergedLock
  <2> QED
    BY <1>5, <2>3, <2>4 DEF InStep, Matter
<1>7. CASE Tip(p).lock # Tip(p).base.lock
  <2>1. integ.lock = Tip(p).base.lock /\ integ'.lock = Tip(p).lock
    BY <1>1, <1>4, <1>7 DEF Conflict, MergedLock
  <2>2. \A x \in Matter(integ.flake) : x \in Tip(p).base.flake
    BY <1>3, <1>5, <2>1 DEF Based, Grounded, From, Matter
  <2>3. Matter(Tip(p).base.flake) = Matter(integ.flake)
    BY <1>3, <2>2 DEF Based, Grounded, Matter
  <2>4. InStep(Tip(p).base)
    BY <1>5, <2>1, <2>3 DEF InStep
  <2>5. InStep(Tip(p))
    BY <1>3, <1>7, <2>4 DEF Locked
  <2>6. Matter(integ'.flake) = Matter(Tip(p).flake)
    BY <1>3, <1>4, <2>2 DEF Based, Grounded, Matter
  <2> QED
    BY <2>1, <2>5, <2>6 DEF InStep, Matter
<1> QED
  BY <1>6, <1>7

LEMMA MergesStep ==
  IInv /\ [Next]_vars =>
    [\A p \in Prs : Merge(p) =>
       /\ Ruled(p)
       /\ ~Stale(integ) /\ pr[p].pushed <= 1 =>
            integ'.lock.bumps = {b \in integ'.flake : b[3]}]_vars
<1> SUFFICES ASSUME IInv, NEW p \in Prs, Merge(p)
             PROVE  /\ Ruled(p)
                    /\ ~Stale(integ) /\ pr[p].pushed <= 1 =>
                         integ'.lock.bumps = {b \in integ'.flake : b[3]}
  OBVIOUS
<1>1. Ruled(p)
  BY DEF IInv, Led, Merge
<1>2. ASSUME ~Stale(integ) PROVE InStep(integ)
  <2>1. integ.flake \in SUBSET Bumps /\ integ.lock \in Locks /\ integ.lock.up \in 0..MaxWeeks
    BY DEF IInv, Types, Branches, Locks
  <2>2. LockOf(integ.flake, integ.lock.up).bumps = Matter(integ.flake)
    BY <2>1, LockOfIs
  <2> QED
    BY <1>2, <2>2 DEF Stale, Relocked, InStep
<1>3. ASSUME InStep(integ)' PROVE integ'.lock.bumps = {b \in integ'.flake : b[3]}
  BY <1>3 DEF InStep, Matter
<1> QED
  BY <1>1, <1>2, <1>3, MergeFits

\* What GitHub merges by itself is what the table leaves to no person, in a repository that
\* requires the gates; and of a PR that Dependabot pushed once its lock is in step, however
\* the branches moved, and whatever update-branches merged into it.
THEOREM MergesRuledHolds == Spec => MergesRuled
<1>1. IInv /\ [Next]_vars =>
        [\A p \in Prs : Merge(p) =>
           /\ Ruled(p)
           /\ ~Stale(integ) /\ pr[p].pushed <= 1 =>
                integ'.lock.bumps = {b \in integ'.flake : b[3]}]_vars
  BY MergesStep
<1> QED
  BY <1>1, Invariance, PTL DEF Spec, MergesRuled

-----------------------------------------------------------------------------
\* The relocks that are left.
LEMMA FewerLeft ==
  ASSUME NEW S, IsFiniteSet(S), NEW O \in SUBSET S, NEW S2 \in SUBSET S, NEW O2 \in SUBSET O
  PROVE  /\ Cardinality(S) + Cardinality(O) \in Nat /\ Cardinality(S2) + Cardinality(O2) \in Nat
         /\ Cardinality(S2) + Cardinality(O2) <= Cardinality(S) + Cardinality(O)
<1>1. IsFiniteSet(O) /\ IsFiniteSet(S2)
  BY FS_Subset
<1>2. IsFiniteSet(O2) /\ Cardinality(O2) <= Cardinality(O) /\ Cardinality(S2) <= Cardinality(S)
  BY <1>1, FS_Subset
<1>3. /\ Cardinality(S) \in Nat /\ Cardinality(O) \in Nat /\ Cardinality(S2) \in Nat
      /\ Cardinality(O2) \in Nat
  BY <1>1, <1>2, FS_CardinalityType
<1> QED
  BY <1>2, <1>3

\* A job is done, and another comes in its place only if it counted twice.
LEMMA OneLess ==
  ASSUME NEW S, IsFiniteSet(S), NEW O \in SUBSET S, NEW h \in S, NEW n, NEW S2,
         S2 \subseteq (S \ {h}) \cup {n}, NEW O2 \in SUBSET (O \ {h}),
         h \in O \/ S2 \subseteq S \ {h}
  PROVE  /\ Cardinality(S2) + Cardinality(O2) \in Nat
         /\ Cardinality(S2) + Cardinality(O2) < Cardinality(S) + Cardinality(O)
<1>1. /\ IsFiniteSet(S \ {h}) /\ Cardinality(S \ {h}) = Cardinality(S) - 1
  BY FS_RemoveElement
<1>2. /\ IsFiniteSet((S \ {h}) \cup {n})
      /\ Cardinality((S \ {h}) \cup {n}) \in {Cardinality(S) - 1, Cardinality(S)}
  <2>1. Cardinality(S \ {h}) \in Nat /\ Cardinality(S) \in Nat
    BY <1>1, FS_CardinalityType
  <2>2. /\ IsFiniteSet((S \ {h}) \cup {n})
        /\ Cardinality((S \ {h}) \cup {n}) =
             IF n \in S \ {h} THEN Cardinality(S \ {h}) ELSE Cardinality(S \ {h}) + 1
    BY <1>1, FS_AddElement
  <2> QED
    BY <1>1, <2>1, <2>2
<1>3. IsFiniteSet(O)
  BY FS_Subset
<1>4. /\ IsFiniteSet(O \ {h})
      /\ Cardinality(O \ {h}) = IF h \in O THEN Cardinality(O) - 1 ELSE Cardinality(O)
  BY <1>3, FS_RemoveElement
<1>5. IsFiniteSet(O2) /\ Cardinality(O2) <= Cardinality(O \ {h})
  BY <1>4, FS_Subset
<1>6. S2 \in SUBSET ((S \ {h}) \cup {n})
  OBVIOUS
<1>7. IsFiniteSet(S2) /\ Cardinality(S2) <= Cardinality((S \ {h}) \cup {n})
  BY <1>2, <1>6, FS_Subset
<1>8. S2 \subseteq S \ {h} => Cardinality(S2) <= Cardinality(S \ {h})
  BY <1>1, FS_Subset
<1>9. /\ Cardinality(S) \in Nat /\ Cardinality(O) \in Nat /\ Cardinality(S2) \in Nat
      /\ Cardinality(O2) \in Nat
  BY <1>3, <1>5, <1>7, FS_CardinalityType
<1> QED
  BY <1>1, <1>2, <1>4, <1>5, <1>7, <1>8, <1>9

LEMMA ToPushFinite ==
  ASSUME IInv, NEW p \in Prs
  PROVE  IsFiniteSet(ToPush(p)) /\ Overtaken(p) \in SUBSET ToPush(p) /\ Left(p) \in Nat
<1>1. Runs = 1..Len(heads) /\ Len(heads) \in Int /\ 1 \in Int
  BY Heads DEF IInv, Types
<1>2. IsFiniteSet(Runs)
  BY <1>1, FS_Interval
<1>3. ToPush(p) \in SUBSET Runs /\ Overtaken(p) \in SUBSET ToPush(p)
  BY DEF ToPush, Overtaken
<1>4. IsFiniteSet(ToPush(p))
  BY <1>2, <1>3, FS_Subset
<1> QED
  BY <1>3, <1>4, FewerLeft DEF Left

\* What is pushed to a PR is less or the same, when no PR has a new head.
LEMMA QuietLeft ==
  ASSUME IInv, NEW p \in Prs, JobsOnly, pr'[p].head = pr[p].head
  PROVE  Left(p)' \in Nat /\ Left(p)' <= Left(p)
<1>1. Runs' = Runs /\ \A h \in Runs : heads[h] \in Commits /\ Of(h)' = Of(h)
  <2>1. Runs' = Runs /\ \A h \in Runs : heads[h] \in Commits
    BY Heads DEF IInv, JobsOnly, OldHeads, Runs
  <2> QED
    BY <2>1 DEF Of, JobsOnly, OldHeads
<1>2. \A h \in Runs : /\ Relocked(heads[h])' = Relocked(heads[h])
                      /\ (Stale(heads[h])' <=> Stale(heads[h]))
  BY DEF Stale, Relocked, LockOf, JobsOnly, OldHeads
<1>3. ASSUME NEW h \in ToPush(p)' PROVE h \in ToPush(p)
  <2>1. h \in Runs /\ Of(h) = p
    BY <1>1, <1>3 DEF ToPush
  <2>2. \/ heads'[h].run.plan = "todo" /\ Stale(heads[h])
        \/ heads'[h].run.push \in {"todo", "got"}
    BY <1>2, <1>3, <2>1 DEF ToPush
  <2>3. heads'[h].run = heads[h].run \/ RunMay(h)
    BY <2>1 DEF JobsOnly
  <2> QED
    BY <2>1, <2>2, <2>3 DEF ToPush, RunMay
<1>4. ASSUME NEW h \in Overtaken(p)' PROVE h \in Overtaken(p)
  <2>1. h \in ToPush(p) /\ h \in Runs /\ Of(h) = p
    BY <1>3, <1>4 DEF Overtaken, ToPush
  <2>2. pr[p].head \in Runs
    BY <2>1 DEF IInv, Follows, Led
  <2>3. Relocked(Tip(p))' = Relocked(Tip(p))
    BY <2>2 DEF Tip, Relocked, LockOf, JobsOnly, OldHeads
  <2>4. Relocked(heads[h])'.bumps # Relocked(Tip(p))'.bumps
    BY <1>4 DEF Overtaken
  <2> QED
    BY <1>2, <2>1, <2>3, <2>4 DEF Overtaken
<1>5. ToPush(p)' \in SUBSET ToPush(p) /\ Overtaken(p)' \in SUBSET Overtaken(p)
  BY <1>3, <1>4
<1>6. IsFiniteSet(ToPush(p)) /\ Overtaken(p) \in SUBSET ToPush(p)
  BY ToPushFinite
<1> QED
  BY <1>5, <1>6, FewerLeft DEF Left

\* A new head of one PR leaves what is to be pushed to the others.
LEMMA OthersLeft ==
  ASSUME IInv, NEW p \in Prs, NEW c, NEW n, HeadIs(p, c, n), PrHas(p, n), NEW q \in Prs \ {p}
  PROVE  Left(q)' = Left(q)
<1>1. /\ Runs' = Runs \cup {n} /\ n \notin Runs /\ pr'[q] = pr[q] /\ Of(n)' = p
      /\ \A h \in Runs : Of(h)' = Of(h)
  <2>1. Runs' = Runs \cup {n} /\ n \notin Runs
    BY Heads DEF IInv, HeadIs, OldHeads, Runs
  <2>2. pr'[q] = pr[q] /\ Of(n)' = p /\ \A h \in Runs : Of(h)' = Of(h)
    BY DEF HeadIs, PrHas, OldHeads, Of
  <2> QED
    BY <2>1, <2>2
<1>2. \A h \in Runs : /\ Relocked(heads[h])' = Relocked(heads[h])
                      /\ (Stale(heads[h])' <=> Stale(heads[h]))
  BY DEF Stale, Relocked, LockOf, HeadIs, OldHeads
<1>3. \A h \in Runs : Of(h) = q => heads'[h].run = heads[h].run
  BY DEF HeadIs, Pushed
<1>4. ToPush(q)' = ToPush(q)
  BY <1>1, <1>2, <1>3 DEF ToPush
<1>5. ToPush(q) # {} => pr[q].head \in Runs
  BY DEF ToPush, IInv, Follows, Led
<1>6. pr[q].head \in Runs => Relocked(Tip(q))' = Relocked(Tip(q))
  BY <1>1 DEF Tip, Relocked, LockOf, HeadIs, OldHeads
<1>7. Overtaken(q)' = Overtaken(q)
  <2>1. ASSUME NEW h \in ToPush(q)
        PROVE  (Relocked(heads[h])'.bumps # Relocked(Tip(q))'.bumps)
                 <=> (Relocked(heads[h]).bumps # Relocked(Tip(q)).bumps)
    <3>1. h \in Runs
      BY DEF ToPush
    <3> QED
      BY <3>1, <1>2, <1>5, <1>6
  <2> QED
    BY <1>4, <2>1 DEF Overtaken
<1> QED
  BY <1>4, <1>7 DEF Left

\* A relock that is pushed leaves less to push to its PR, whatever its head starts.
LEMMA RelockLeft ==
  ASSUME IInv, NEW p \in Prs, NEW h \in Runs, Relock(p, h)
  PROVE  Left(p)' \in Nat /\ Left(p)' < Left(p)
<1> PICK c \in Commits, n \in 1..MaxHeads :
      /\ HeadIs(p, c, n) /\ PrHas(p, n) /\ Of(h) = p
      /\ heads[h].run.push = "got" /\ heads'[h].run.push \in {"pushed", "sent"}
      /\ heads'[h].run.plan # "todo"
      /\ c.lock = Relocked(heads[h]) /\ c.flake = Tip(p).flake
  BY DEF Relock
<1>1. Runs' = Runs \cup {n} /\ n \notin Runs
  BY Heads DEF IInv, HeadIs, OldHeads, Runs
<1>2. Tip(p)' = c /\ heads'[n] = c /\ \A i \in Runs : Of(i)' = Of(i)
  BY DEF HeadIs, PrHas, OldHeads, Of, Tip
<1>3. \A i \in Runs : /\ Relocked(heads[i])' = Relocked(heads[i])
                      /\ (Stale(heads[i])' <=> Stale(heads[i]))
  BY DEF Stale, Relocked, LockOf, HeadIs, OldHeads
<1>4. h \in ToPush(p) /\ h \notin ToPush(p)'
  BY DEF ToPush
<1>5. Relocked(c).bumps = Relocked(Tip(p)).bumps /\ Relocked(c)' = Relocked(c)
  BY DEF Relocked, LockOf
<1>6. ASSUME NEW i \in ToPush(p)', i # n PROVE i \in ToPush(p) \ {h}
  <2>1. i \in Runs /\ Of(i) = p
    BY <1>1, <1>2, <1>6 DEF ToPush
  <2>2. \/ heads'[i].run.plan = "todo" /\ Stale(heads[i])
        \/ heads'[i].run.push \in {"todo", "got"}
    BY <1>3, <2>1, <1>6 DEF ToPush
  <2>3. heads'[i].run = heads[i].run \/ Pushed(i, p, c)
    BY <2>1 DEF HeadIs
  <2> QED
    BY <1>4, <2>1, <2>2, <2>3 DEF ToPush, Pushed
<1>7. n \in ToPush(p)' => h \in Overtaken(p)
  <2>1. ASSUME n \in ToPush(p)' PROVE Stale(c)
    <3>1. heads'[n].run.push = "none"
      BY <1>2 DEF HeadIs
    <3>2. n \in ToPush(p)' => Stale(heads'[n]) \/ heads'[n].run.push \in {"todo", "got"}
      BY DEF ToPush, Stale, Relocked, LockOf
    <3> QED
      BY <1>2, <2>1, <3>1, <3>2
  <2>2. ASSUME Relocked(heads[h]).bumps = Relocked(Tip(p)).bumps PROVE ~Stale(c)
    <3>1. heads[h] \in Commits
      BY Heads DEF IInv
    <3>2. c.lock.bumps = Matter(heads[h].flake)
      BY <3>1, RelockedIs
    <3>3. Relocked(c).bumps = Matter(c.flake)
      BY RelockedIs
    <3>4. InStep(c)
      BY <1>5, <2>2, <3>1, <3>2, <3>3, RelockedIs DEF InStep
    <3> QED
      BY <3>4, RelockedIs
  <2> QED
    BY <1>4, <2>1, <2>2 DEF Overtaken
<1>8. ASSUME NEW i \in Overtaken(p)' PROVE i \in Overtaken(p) \ {h}
  <2>1. i \in ToPush(p)' /\ Relocked(heads[i])'.bumps # Relocked(Tip(p))'.bumps
    BY <1>8 DEF Overtaken
  <2>2. Relocked(Tip(p))' = Relocked(c)
    BY <1>2, <1>5 DEF Relocked, LockOf
  <2>3. i # n
    <3>1. i = n => Relocked(heads[i])' = Relocked(c)
      BY <1>2 DEF Relocked, LockOf
    <3> QED
      BY <2>1, <2>2, <3>1
  <2>4. i \in ToPush(p) \ {h} /\ i \in Runs
    BY <1>6, <2>1, <2>3 DEF ToPush
  <2> QED
    BY <1>3, <1>5, <2>1, <2>2, <2>4 DEF Overtaken
<1>9. /\ ToPush(p)' \subseteq (ToPush(p) \ {h}) \cup {n}
      /\ Overtaken(p)' \in SUBSET (Overtaken(p) \ {h})
      /\ h \in Overtaken(p) \/ ToPush(p)' \subseteq ToPush(p) \ {h}
  BY <1>6, <1>7, <1>8
<1>10. IsFiniteSet(ToPush(p)) /\ Overtaken(p) \in SUBSET ToPush(p)
  BY ToPushFinite
<1> QED
  BY <1>4, <1>9, <1>10, OneLess DEF Left

\* Every step, for every PR.
LoopMay(p) ==
  /\ pr'[p].relocks # pr[p].relocks => Left(p)' < Left(p)
  /\ Left(p)' > Left(p) => pr'[p].relocks = pr[p].relocks /\ pr'[p].head # pr[p].head

LEMMA QuietMay ==
  ASSUME IInv, NEW p \in Prs, JobsOnly, pr'[p].head = pr[p].head, pr'[p].relocks = pr[p].relocks
  PROVE  LoopMay(p)
<1>1. Left(p) \in Nat /\ Left(p)' \in Nat /\ Left(p)' <= Left(p)
  BY ToPushFinite, QuietLeft
<1> QED
  BY <1>1 DEF LoopMay

LEMMA OthersMay ==
  ASSUME IInv, NEW p \in Prs, NEW c, NEW n, HeadIs(p, c, n), PrHas(p, n), NEW q \in Prs \ {p}
  PROVE  LoopMay(q)
<1>1. Left(q) \in Nat /\ Left(q)' = Left(q) /\ pr'[q] = pr[q]
  BY ToPushFinite, OthersLeft DEF PrHas
<1> QED
  BY <1>1 DEF LoopMay

LEMMA NewTipMay == ASSUME IInv, NEW p \in Prs, NewTip(p), NEW q \in Prs PROVE LoopMay(q)
<1> PICK c \in Commits, n \in 1..MaxHeads : HeadIs(p, c, n) /\ PrHas(p, n) /\ pr'[p].relocks = pr[p].relocks
  BY DEF NewTip
<1>1. pr[p].head # n
  <2>1. Runs = 1..Len(heads) /\ Len(heads) \in Nat /\ n = Len(heads) + 1
    BY Heads DEF IInv, Types, HeadIs
  <2>2. pr[p].head = 0 \/ pr[p].head \in Runs
    BY DEF IInv, Led
  <2> QED
    BY <2>1, <2>2
<1>2. pr'[p].head = n
  BY DEF PrHas
<1> QED
  BY <1>1, <1>2, OthersMay DEF LoopMay

LEMMA RelockMay ==
  ASSUME IInv, NEW p \in Prs, NEW h \in Runs, Relock(p, h), NEW q \in Prs PROVE LoopMay(q)
<1>1. Left(p) \in Nat /\ Left(p)' \in Nat /\ Left(p)' < Left(p)
  BY ToPushFinite, RelockLeft
<1>2. LoopMay(p)
  BY <1>1 DEF LoopMay
<1>3. q # p => LoopMay(q)
  BY OthersMay DEF Relock
<1> QED
  BY <1>2, <1>3

LEMMA LoopStep == ASSUME IInv, Next, NEW q \in Prs PROVE LoopMay(q)
<1>1. ASSUME Quiet PROVE LoopMay(q)
  BY <1>1, QuietMay DEF Quiet, SamePrs
<1>2. ASSUME NEW h \in Runs, DepsRun(h) PROVE LoopMay(q)
  <2>1. Of(h) \in Prs
    BY Heads DEF IInv
  <2>2. Quiet \/ Relock(Of(h), h)
    BY <1>2, PlanStep, CheckoutStep, PushStep, SendChecksStep, PushEnablesStep, AutoMergeStep
       DEF DepsRun
  <2> QED
    BY <1>1, <2>1, <2>2, RelockMay
<1>3. CASE Jobs
  <2>1. ASSUME NEW p \in Prs, Update(p) PROVE LoopMay(q)
    BY <2>1, UpdateStep, NewTipMay
  <2>2. ASSUME NEW p \in Prs, WeekSends(p) \/ WeekEnables(p) \/ WeekFails PROVE LoopMay(q)
    BY <1>1, <2>2, WeekStep
  <2> QED
    BY <1>1, <1>2, <1>3, <2>1, <2>2, UpdateEnsuresStep DEF Jobs
<1>4. ASSUME NEW p \in Prs, Merge(p) PROVE LoopMay(q)
  <2>1. JobsOnly
    BY <1>4, Heads DEF Merge, JobsOnly, OldHeads, IInv
  <2>2. pr \in [Prs -> PrRecords] /\ pr[p] \in PrRecords
    BY DEF IInv, Types
  <2>3. pr'[q].head = pr[q].head /\ pr'[q].relocks = pr[q].relocks
    BY <1>4, <2>2 DEF Merge, PrRecords
  <2> QED
    BY <2>1, <2>3, QuietMay
<1>5. ASSUME NEW p \in Prs, PersonPush \/ PersonCloses(p) PROVE LoopMay(q)
  BY <1>1, <1>5, PersonStep
<1>6. ASSUME NEW p \in Prs, RelockUpgrade(p) PROVE LoopMay(q)
  BY <1>6, RelockUpgradeStep, NewTipMay
<1>7. ASSUME NEW p \in Prs, NEW m \in Metas, NEW matters \in BOOLEAN, OpenPr(p, m, matters)
      PROVE  LoopMay(q)
  BY <1>7, OpenPrStep, NewTipMay
<1>8. ASSUME NEW p \in Prs, NEW matters \in BOOLEAN, Rebase(p, matters) PROVE LoopMay(q)
  BY <1>8, RebaseStep, NewTipMay
<1>9. ASSUME NEW h \in Runs, Sweep(h) PROVE LoopMay(q)
  BY <1>1, <1>9, SweepStep
<1> QED
  BY <1>3, <1>4, <1>5, <1>6, <1>7, <1>8, <1>9 DEF Next

\* The relocks cannot loop, with a GitHub App or without, for any number of runs, rebases and
\* updates: each that is pushed leaves less to push, and only a push that is none brings more.
THEOREM NoLoopHolds == Spec => NoLoop
<1>1. IInv /\ [Next]_vars =>
        [\A p \in Prs :
           /\ pr'[p].relocks # pr[p].relocks => Left(p)' < Left(p)
           /\ Left(p)' > Left(p) => pr'[p].relocks = pr[p].relocks /\ pr'[p].head # pr[p].head]_vars
  BY LoopStep DEF LoopMay
<1> QED
  BY <1>1, Invariance, PTL DEF Spec, NoLoop
-----------------------------------------------------------------------------
(***************************************************************************)
(* The release branch of an app (Release), for any number of commits,      *)
(* runs of release.yml and faults: the branch stays at a release tag and   *)
(* never goes back behind one that was read back (Placed), and a release   *)
(* PR whose checks were dispatched has them (Checked).                     *)
(***************************************************************************)
CONSTANTS MaxRlTip, MaxRlFlows, MaxRlHands, MaxRlFaults
VARIABLES rlConf, rlMain, rlTags, rlRel, rlRp, rlFlow, rlRed, rlWell, rlFlows, rlHands, rlFaults
Rl == INSTANCE Release WITH MaxTip <- MaxRlTip, MaxFlows <- MaxRlFlows, MaxHands <- MaxRlHands,
  MaxFaults <- MaxRlFaults, conf <- rlConf, main <- rlMain, tags <- rlTags, rel <- rlRel,
  rp <- rlRp, flow <- rlFlow, red <- rlRed, well <- rlWell, flows <- rlFlows, hands <- rlHands,
  faults <- rlFaults

HasLast(of) == of = {} \/ \E m \in of : \A t \in of : t <= m

RlTypes ==
  /\ rlConf \in [app : BOOLEAN, major : BOOLEAN]
  /\ rlMain \in [tip : Nat, merged : Nat] /\ rlMain.merged <= rlMain.tip
  /\ rlTags \in [all : SUBSET Nat, odd : SUBSET Nat]
  /\ \A t \in rlTags.all \cup rlTags.odd : 1 <= t /\ t <= rlMain.tip
  /\ rlRel \in {0} \cup rlTags.all
  /\ rlRp \in [open : BOOLEAN, head : Nat, checks : SUBSET Rl!Contexts]
  /\ rlFlow \in [pc : {"idle", "tag", "pr", "dispatch", "forward", "read"}, tag : {0} \cup rlTags.all,
               done : BOOLEAN, waits : BOOLEAN]
  /\ rlRed \subseteq rlTags.all /\ rlWell \subseteq rlTags.all
  /\ rlFlow.pc = "read" => rlFlow.tag # 0

\* The release branch is at a tag of the major's own, at or after each that a fast-forward was read back of.
Placed ==
  /\ rlConf.major => rlRel \notin rlTags.odd
  /\ \A t \in rlWell : rlRel >= t
  /\ HasLast(Rl!ReleaseTags)

\* From the dispatch on, of a run in which nothing failed, the open release PR has its checks.
Checked ==
  rlRp.open /\ (rlConf.app \/ (rlFlow.done /\ rlFlow.pc \in {"idle", "forward", "read"}))
    => rlRp.checks = Rl!Contexts

RlInv == RlTypes /\ Placed /\ Checked

LEMMA RlInit == Rl!Init => RlInv
  BY DEF Rl!Init, RlInv, RlTypes, Placed, Checked, HasLast, Rl!ReleaseTags, Rl!Closed, Rl!Idle

\* A new tag is after every other, so there still is a last one.
LEMMA LastGrows ==
  ASSUME NEW of \in SUBSET Nat, NEW t \in Nat, HasLast(of)
  PROVE  HasLast(of \cup {t})
  BY DEF HasLast

LEMMA LastIsMax ==
  ASSUME NEW of \in SUBSET Nat, HasLast(of), of # {}
  PROVE  Rl!Last(of) \in of /\ \A t \in of : t <= Rl!Last(of)
  BY DEF HasLast, Rl!Last, Rl!Max

\* The run of release.yml that follows is started anew, or none is.
LEMMA FlowEnds ==
  ASSUME RlTypes, NEW done \in BOOLEAN, rlFlow' = Rl!Ended(done)
  PROVE  /\ rlFlow' \in [pc : {"idle", "tag"}, tag : {0}, done : BOOLEAN, waits : BOOLEAN]
         /\ rlFlow'.pc = "idle" => rlFlow'.done = done
  BY DEF Rl!Ended, Rl!Idle, RlTypes

LEMMA FlowTriggered ==
  ASSUME RlTypes, Rl!Trigger
  PROVE  /\ rlFlow' \in [pc : {"idle", "tag", "pr", "dispatch", "forward", "read"},
              tag : {0} \cup rlTags.all,
                       done : BOOLEAN, waits : BOOLEAN]
         /\ rlFlow'.tag = rlFlow.tag \/ rlFlow'.pc = "tag"
         /\ rlFlow'.pc = "tag" \/ (rlFlow'.pc = rlFlow.pc /\ rlFlow'.done = rlFlow.done)
  BY DEF Rl!Trigger, Rl!Idle, RlTypes

LEMMA AtTheBranch ==
  ASSUME RlInv, Rl!Push \/ Rl!MergeRelease \/ Rl!Scheduled
  PROVE  RlInv'
<1> USE DEF RlInv
<1>1. CASE Rl!Push
  <2>1. CASE UNCHANGED rlFlow
    BY <1>1, <2>1 DEF Rl!Push, RlTypes, Placed, Checked, Rl!ReleaseTags
  <2>2. CASE Rl!Trigger
    BY <1>1, <2>2, FlowTriggered DEF Rl!Push, RlTypes, Placed, Checked, Rl!ReleaseTags
  <2> QED BY <1>1, <2>1, <2>2 DEF Rl!Push
<1>2. CASE Rl!Scheduled
  BY <1>2, FlowTriggered DEF Rl!Scheduled, RlTypes, Placed, Checked, Rl!ReleaseTags
<1>3. CASE Rl!MergeRelease
  <2>1. /\ rlMain' = [tip |-> rlMain.tip + 1, merged |-> rlMain.tip + 1] /\ rlRp' = Rl!Closed
        /\ UNCHANGED <<rlConf, rlRel, rlRed, rlWell>>
        /\ rlTags' = rlTags \/ (rlConf.major /\ rlTags' = [rlTags EXCEPT !.odd = @ \cup {rlMain.tip + 1}])
    BY <1>3 DEF Rl!MergeRelease
  <2>2. rlTags'.all = rlTags.all /\ rlTags' \in [all : SUBSET Nat, odd : SUBSET Nat]
        /\ rlTags'.odd \in {rlTags.odd, rlTags.odd \cup {rlMain.tip + 1}}
    BY <2>1 DEF RlTypes
  <2>3. rlMain.tip + 1 \notin rlTags.all /\ rlMain.tip + 1 # rlRel
    BY DEF RlTypes
  <2>4. Rl!ReleaseTags' = Rl!ReleaseTags
    BY <2>1, <2>2, <2>3 DEF Rl!ReleaseTags
  <2>5. Placed' /\ Checked'
    BY <2>1, <2>2, <2>3, <2>4 DEF Placed, Checked, Rl!Closed
  <2>6. rlMain'.tip = rlMain.tip + 1 /\ rlMain'.merged = rlMain'.tip /\
            rlMain' \in [tip : Nat, merged : Nat]
    BY <2>1 DEF RlTypes
  <2>7. rlFlow' \in [pc : {"idle", "tag", "pr", "dispatch", "forward", "read"}, tag : {0} \cup rlTags.all,
                   done : BOOLEAN, waits : BOOLEAN] /\ (rlFlow'.pc = "read" => rlFlow'.tag # 0)
    <3>1. CASE UNCHANGED rlFlow BY <3>1 DEF RlTypes
    <3>2. CASE Rl!Trigger BY <3>2, FlowTriggered DEF RlTypes
    <3> QED BY <1>3, <3>1, <3>2 DEF Rl!MergeRelease
  <2>8. RlTypes'
    BY <2>1, <2>2, <2>6, <2>7 DEF RlTypes, Rl!Closed
  <2> QED BY <2>5, <2>8
<1> QED BY <1>1, <1>2, <1>3

LEMMA PleaseStep ==
  ASSUME RlInv, Rl!Tag \/ Rl!ReleasePr \/ Rl!PleaseFails \/ Rl!DispatchCi
  PROVE  RlInv'
<1> USE DEF RlInv
<1>1. CASE Rl!Tag
  <2>1. /\ rlFlow' = [rlFlow EXCEPT !.pc = "pr", !.tag = rlMain.merged]
        /\ rlMain' = [rlMain EXCEPT !.merged = 0]
        /\ rlTags' = IF rlMain.merged = 0 THEN rlTags ELSE [rlTags EXCEPT !.all = @ \cup {rlMain.merged}]
        /\ UNCHANGED <<rlConf, rlRel, rlRp, rlRed, rlWell>>
    BY <1>1 DEF Rl!Tag
  <2>2. /\ rlTags'.odd = rlTags.odd /\ rlTags' \in [all : SUBSET Nat, odd : SUBSET Nat]
        /\ rlTags'.all = IF rlMain.merged = 0 THEN rlTags.all ELSE rlTags.all \cup {rlMain.merged}
    BY <2>1 DEF RlTypes
  <2>3. rlMain' \in [tip : Nat, merged : Nat] /\ rlMain'.merged = 0 /\ rlMain'.tip = rlMain.tip
    BY <2>1 DEF RlTypes
  <2>4. rlMain.merged \in {0} \cup rlTags'.all /\ rlTags.all \subseteq rlTags'.all
    BY <2>2
  <2>5. rlFlow' \in [pc : {"pr"}, tag : {0} \cup rlTags'.all, done : BOOLEAN, waits : BOOLEAN]
    BY <2>1, <2>4 DEF RlTypes
  <2>6. RlTypes'
    BY <2>1, <2>2, <2>3, <2>4, <2>5 DEF RlTypes
  <2>7. \/ Rl!ReleaseTags' = Rl!ReleaseTags
        \/ Rl!ReleaseTags' = Rl!ReleaseTags \cup {rlMain.merged}
    BY <2>1, <2>2 DEF Rl!ReleaseTags
  <2>8. HasLast(Rl!ReleaseTags')
    BY <2>7, LastGrows DEF Placed, RlTypes, Rl!ReleaseTags
  <2>9. Placed' /\ Checked'
    BY <2>1, <2>2, <2>5, <2>8 DEF Placed, Checked
  <2> QED BY <2>6, <2>9
<1>2. CASE Rl!ReleasePr
  <2>1. UNCHANGED <<rlConf, rlMain, rlTags, rlRel, rlRed, rlWell>>
        /\ rlFlow' = [rlFlow EXCEPT !.pc = IF rlConf.app THEN "forward" ELSE "dispatch"]
    BY <1>2 DEF Rl!ReleasePr
  <2>2. \/ rlRp' = rlRp
        \/ rlRp' = [open |-> TRUE, head |-> rlMain.tip,
                    checks |-> IF rlConf.app THEN Rl!Contexts ELSE {}]
    BY <1>2 DEF Rl!ReleasePr
  <2>3. rlRp' \in [open : BOOLEAN, head : Nat, checks : SUBSET Rl!Contexts]
        /\ (rlConf.app => rlRp' = rlRp \/ rlRp'.checks = Rl!Contexts)
    <3> DEFINE started == IF rlConf.app THEN Rl!Contexts ELSE {}
    <3>1. started \in SUBSET Rl!Contexts /\ (rlConf.app => started = Rl!Contexts)
      OBVIOUS
    <3> HIDE DEF started
    <3>2. rlRp' = rlRp \/ rlRp' = [open |-> TRUE, head |-> rlMain.tip, checks |-> started]
      BY <2>2 DEF started
    <3>3. rlMain.tip \in Nat /\ rlRp \in [open : BOOLEAN, head : Nat, checks : SUBSET Rl!Contexts]
      BY DEF RlTypes
    <3>4. CASE rlRp' = [open |-> TRUE, head |-> rlMain.tip, checks |-> started]
      <4>1. rlRp'.checks = started BY <3>4
      <4>2. [open |-> TRUE, head |-> rlMain.tip, checks |-> started] \in
              [open : BOOLEAN, head : Nat, checks : SUBSET Rl!Contexts]
        BY <3>1, <3>3
      <4> QED BY <3>1, <3>4, <4>1, <4>2
    <3> QED BY <3>2, <3>3, <3>4
  <2>4. /\ rlFlow'.pc = (IF rlConf.app THEN "forward" ELSE "dispatch") /\ rlFlow'.tag = rlFlow.tag
        /\ rlFlow' \in [pc : {"dispatch", "forward"}, tag : {0} \cup rlTags.all, done : BOOLEAN,
             waits : BOOLEAN]
    BY <2>1 DEF RlTypes
  <2>5. RlTypes' /\ Placed'
    BY <2>1, <2>3, <2>4 DEF RlTypes, Placed, Rl!ReleaseTags
  <2>6. Checked'
    BY <2>1, <2>3, <2>4 DEF RlTypes, Checked
  <2> QED BY <2>5, <2>6
<1>3. CASE Rl!PleaseFails
  <2>1. rlFlow' = Rl!Ended(FALSE) /\ UNCHANGED <<rlConf, rlMain, rlTags, rlRel, rlRp, rlRed, rlWell>>
    BY <1>3 DEF Rl!PleaseFails
  <2> QED BY <2>1, FlowEnds DEF RlTypes, Placed, Checked, Rl!ReleaseTags
<1>4. CASE Rl!DispatchCi
  <2>1. UNCHANGED <<rlConf, rlMain, rlTags, rlRel, rlRed, rlWell>> /\ rlFlow.pc = "dispatch"
    BY <1>4 DEF Rl!DispatchCi
  <2>2. CASE /\ rlRp' = [rlRp EXCEPT !.checks = @ \cup (IF rlRp.open THEN Rl!Contexts \ rlRp.checks ELSE {})]
             /\ rlFlow' = [rlFlow EXCEPT !.pc = "forward"]
    BY <2>1, <2>2 DEF RlTypes, Placed, Checked, Rl!ReleaseTags
  <2>3. ASSUME NEW some \in SUBSET Rl!Contexts, rlRp' = [rlRp EXCEPT !.checks = @ \cup some],
               rlFlow' = [rlFlow EXCEPT !.pc = "forward", !.done = FALSE]
        PROVE  RlInv'
    BY <2>1, <2>3 DEF RlTypes, Placed, Checked, Rl!ReleaseTags
  <2> QED BY <1>4, <2>2, <2>3 DEF Rl!DispatchCi, Rl!Ensure
<1> QED BY <1>1, <1>2, <1>3, <1>4

LEMMA ForwardStepInv ==
  ASSUME RlInv, Rl!NoRelease \/ Rl!FastForward \/ Rl!ReadBack \/ Rl!RerunFailed \/ Rl!ByHand
  PROVE  RlInv'
<1> USE DEF RlInv
<1>0. ASSUME Rl!Refused, rlFlow.tag # 0 PROVE RlInv'
  BY <1>0, FlowEnds DEF Rl!Refused, RlTypes, Placed, Checked, Rl!ReleaseTags
<1>1. CASE Rl!NoRelease
  <2>1. rlFlow.pc = "forward" /\ rlFlow' = Rl!Ended(rlFlow.done) /\
            UNCHANGED <<rlConf, rlMain, rlTags, rlRel, rlRp, rlRed, rlWell>>
    BY <1>1 DEF Rl!NoRelease
  <2> QED BY <2>1, FlowEnds DEF RlTypes, Placed, Checked, Rl!ReleaseTags
<1>2. CASE Rl!FastForward
  <2>1. CASE /\ Rl!SchemeOk(rlFlow.tag) /\ Rl!Moves(rlFlow.tag) /\ rlRel' = rlFlow.tag
             /\ rlFlow' = [rlFlow EXCEPT !.pc = "read"]
             /\ UNCHANGED <<rlConf, rlMain, rlTags, rlRp, rlRed, rlWell>>
    <3>1. rlFlow.pc = "forward" /\ rlFlow.tag # 0 BY <1>2 DEF Rl!FastForward
    <3>2. RlTypes' /\ Checked' BY <2>1, <3>1 DEF RlTypes, Checked
    <3>3. rlRel <= rlFlow.tag /\ (rlConf.major => rlFlow.tag \notin rlTags.odd)
      BY <2>1 DEF Rl!SchemeOk, Rl!Moves
    <3>4. Placed' BY <2>1, <3>3 DEF RlTypes, Placed, Rl!ReleaseTags
    <3> QED BY <3>2, <3>4
  <2> QED BY <1>0, <1>2, <2>1 DEF Rl!FastForward
<1>3. CASE Rl!ReadBack
  <2>1. CASE /\ rlRel = rlFlow.tag /\ rlWell' = rlWell \cup {rlRel} /\ rlRed' = rlRed \ {rlRel}
             /\ rlFlow' = Rl!Ended(rlFlow.done)
             /\ UNCHANGED <<rlConf, rlMain, rlTags, rlRel, rlRp>>
    <3>1. rlFlow.pc = "read" /\ rlFlow.done \in BOOLEAN /\ rlRel \in rlTags.all
      BY <1>3, <2>1 DEF Rl!ReadBack, RlTypes
    <3>2. /\ rlFlow' \in [pc : {"idle", "tag"}, tag : {0}, done : BOOLEAN, waits : BOOLEAN]
          /\ rlFlow'.pc = "idle" => rlFlow'.done = rlFlow.done
      BY <2>1, <3>1, FlowEnds
    <3>3. RlTypes' BY <2>1, <3>1, <3>2 DEF RlTypes
    <3>4. Placed' BY <2>1, <3>1 DEF RlTypes, Placed, Rl!ReleaseTags
    <3>5. Checked' BY <2>1, <3>1, <3>2 DEF Checked
    <3> QED BY <3>3, <3>4, <3>5
  <2> QED BY <1>0, <1>3, <2>1 DEF Rl!ReadBack, RlTypes
<1>4. CASE Rl!RerunFailed
  <2>1. PICK t \in rlRed : rlFlow' = [Rl!Idle EXCEPT !.pc = "forward", !.tag = t, !.done = FALSE]
    BY <1>4 DEF Rl!RerunFailed
  <2>2. UNCHANGED <<rlConf, rlMain, rlTags, rlRel, rlRp, rlRed, rlWell>> BY <1>4 DEF Rl!RerunFailed
  <2>3. rlFlow' \in [pc : {"forward"}, tag : rlTags.all, done : {FALSE}, waits : BOOLEAN]
    BY <2>1 DEF Rl!Idle, RlTypes
  <2> QED BY <2>2, <2>3 DEF RlTypes, Placed, Checked, Rl!ReleaseTags
<1>5. CASE Rl!ByHand
  <2>1. rlRel' \in rlTags.all \ rlTags.odd /\ rlRel' > rlRel /\
            UNCHANGED <<rlConf, rlMain, rlTags, rlRp, rlFlow, rlRed, rlWell>>
    BY <1>5 DEF Rl!ByHand
  <2> QED BY <2>1 DEF RlTypes, Placed, Checked, Rl!ReleaseTags
<1> QED BY <1>1, <1>2, <1>3, <1>4, <1>5

LEMMA RlStep == RlInv /\ [Rl!Next]_Rl!vars => RlInv'
<1>1. ASSUME RlInv, UNCHANGED Rl!vars PROVE RlInv'
  BY <1>1 DEF Rl!vars, RlInv, RlTypes, Placed, Checked, Rl!ReleaseTags
<1> QED BY <1>1, AtTheBranch, PleaseStep, ForwardStepInv DEF Rl!Next

LEMMA RlSound == RlInv => Rl!ReleaseSound
<1> SUFFICES ASSUME RlInv PROVE Rl!AtNewest /\ Rl!CiOnHead
  BY DEF Rl!ReleaseSound
<1>1. Rl!CiOnHead
  BY DEF Rl!CiOnHead, RlInv, Checked
<1>2. ASSUME Rl!Newest \in rlWell PROVE rlRel = Rl!Newest
  <2>1. rlRel >= Rl!Newest /\ Rl!Newest \in rlTags.all /\ Rl!Newest # 0
    BY <1>2 DEF RlInv, RlTypes, Placed
  <2>2. rlRel \in Rl!ReleaseTags
    BY <2>1 DEF RlInv, RlTypes, Placed, Rl!ReleaseTags
  <2>3. Rl!ReleaseTags \in SUBSET Nat /\ HasLast(Rl!ReleaseTags)
    BY DEF RlInv, RlTypes, Placed, Rl!ReleaseTags
  <2>4. rlRel <= Rl!Newest
    BY <2>2, <2>3, LastIsMax DEF Rl!Newest
  <2> QED BY <2>1, <2>2, <2>3, <2>4 DEF RlInv, RlTypes
<1> QED BY <1>1, <1>2 DEF Rl!AtNewest, Rl!A2, RlInv, Placed

LEMMA RlForward == RlInv /\ [Rl!Next]_Rl!vars => Rl!ForwardStep
<1> SUFFICES ASSUME RlInv, [Rl!Next]_Rl!vars, rlRel' # rlRel
             PROVE  rlRel' > rlRel /\ rlRel' \in rlTags.all /\ (rlConf.major => rlRel' \notin rlTags.odd)
  BY DEF Rl!ForwardStep
<1>1. CASE Rl!FastForward
  <2>1. rlRel' = rlFlow.tag /\ rlRel <= rlFlow.tag /\ rlFlow.tag # 0 /\
            (rlConf.major => rlFlow.tag \notin rlTags.odd)
    BY <1>1 DEF Rl!FastForward, Rl!Refused, Rl!SchemeOk, Rl!Moves
  <2>2. rlRel \in Nat /\ rlFlow.tag \in Nat /\ rlFlow.tag \in {0} \cup rlTags.all
    BY DEF RlInv, RlTypes
  <2> QED BY <2>1, <2>2
<1>2. CASE Rl!ByHand
  BY <1>2 DEF Rl!ByHand
<1> QED BY <1>1, <1>2 DEF Rl!Next, Rl!vars, Rl!Push, Rl!MergeRelease, Rl!Scheduled, Rl!Tag, Rl!ReleasePr,
           Rl!PleaseFails, Rl!DispatchCi, Rl!NoRelease, Rl!ReadBack, Rl!Refused, Rl!RerunFailed

\* The release branch only moves forward, from release tag to release tag; a fast-forward that ended
\* well stands; and a run in which nothing failed leaves the open release PR with all its checks.
THEOREM ReleaseHolds == Rl!Spec => []Rl!ReleaseSound /\ [][Rl!ForwardStep]_Rl!vars
<1>1. Rl!Spec => []RlInv
  BY RlInit, RlStep, PTL DEF Rl!Spec
<1> QED BY <1>1, RlSound, RlForward, PTL DEF Rl!Spec

-----------------------------------------------------------------------------
(***************************************************************************)
(* The registry's fork (Registry), for any number of releases and          *)
(* commands: in a history without overlapping commands and without a       *)
(* fetch that failed, a command pushes all that waits together with its    *)
(* own release (PushOk), and what is published waits under an open PR      *)
(* until it is listed (Stays).                                             *)
(***************************************************************************)
CONSTANTS MaxRgTags, MaxRgCalls, MaxRgLands, MaxRgFaults
VARIABLES rgTagged, rgUp, rgFork, rgPr, rgJobs, rgWell, rgHit, rgCalls, rgLands, rgFaults
Rg == INSTANCE Registry WITH MaxTags <- MaxRgTags, MaxCalls <- MaxRgCalls,
  MaxLands <- MaxRgLands, MaxFaults <- MaxRgFaults, tagged <- rgTagged, up <- rgUp,
  fork <- rgFork, pr <- rgPr, jobs <- rgJobs, well <- rgWell, hit <- rgHit, calls <- rgCalls,
  lands <- rgLands, faults <- rgFaults

Numbers == Nat \ {0}
Ups == [tip : Nat, app : BOOLEAN, listed : SUBSET Numbers]
Commands == [pc : {"idle", "clone", "behind", "prepare", "push", "list", "pr"}, tag : Nat, live : BOOLEAN,
         clone : Ups, adds : SUBSET Numbers, found : BOOLEAN]
RgTypes ==
  /\ rgTagged \in Nat /\ rgPr \in {"none", "open"} /\ rgUp \in Ups
  /\ rgFork \in [there : BOOLEAN, base : Nat, listed : SUBSET Numbers]
  /\ rgJobs \in [Rg!Who -> Commands] /\ rgWell \subseteq Numbers

\* What a command is to publish; nothing, if it is a refresh.
Its(j) == {j.tag} \ {0}

\* A command has cloned what main still lists, is about to push all that waits, and when it comes to the
\* pull request its own release waits, or is listed; one that was seen open and is not any more was taken.
CloneOk(j) == j.clone.listed \subseteq rgUp.listed
PushOk(j) == j.pc = "push" => rgFork.listed \cup Its(j) \subseteq j.adds \cup j.clone.listed
PublishedOk(j) == j.pc \in {"list", "pr"} => Its(j) \subseteq rgFork.listed \cup rgUp.listed
FoundOk(j) == j.pc = "pr" /\ j.found /\ rgPr # "open" => rgFork.listed \subseteq rgUp.listed
JobOk(j) == CloneOk(j) /\ PushOk(j) /\ PublishedOk(j) /\ FoundOk(j)

OneAtATime == \A w, o \in Rg!Who : w = o \/ rgJobs[w].pc = "idle" \/ rgJobs[o].pc = "idle"
Stays == \A t \in rgWell : t \in rgUp.listed \/ (rgPr = "open" /\ t \in rgFork.listed)
RgInv == RgTypes /\ (rgHit = {} => OneAtATime /\ Stays /\ \A w \in Rg!Who : JobOk(rgJobs[w]))

LEMMA IdleOk == Rg!Idle \in Commands /\ Rg!Idle.pc = "idle" /\ Rg!Idle.clone.listed = {}
  BY DEF Rg!Idle, Rg!NoUp, Commands, Ups

LEMMA RgInit == Rg!Init => RgInv
<1> SUFFICES ASSUME Rg!Init PROVE RgInv
  OBVIOUS
<1>1. \A w \in Rg!Who : rgJobs[w] = Rg!Idle
  BY DEF Rg!Init
<1>2. RgTypes
  BY IdleOk DEF Rg!Init, RgTypes, Ups, Rg!NoUp, Rg!NoFork
<1>3. rgWell = {}
  BY DEF Rg!Init
<1> QED BY <1>1, <1>2, <1>3, IdleOk
        DEF RgInv, OneAtATime, Stays, JobOk, CloneOk, PushOk, PublishedOk, FoundOk

\* A step of the command of one, which leaves the other's as it was: idle.
LEMMA OneSteps ==
  ASSUME RgInv, NEW w \in Rg!Who,
         rgJobs[w].pc # "idle" \/ rgHit' # {} \/ \A o \in Rg!Who \ {w} : rgJobs[o].pc = "idle",
         NEW j \in Commands, rgJobs' = [rgJobs EXCEPT ![w] = j],
         RgTypes', rgHit \subseteq rgHit', rgUp' = rgUp,
         rgHit' = {} => Stays' /\ JobOk(j)'
  PROVE  RgInv'
<1> SUFFICES ASSUME rgHit' = {} PROVE OneAtATime' /\ Stays' /\ \A o \in Rg!Who : JobOk(rgJobs[o])'
  BY DEF RgInv
<1>1. rgHit = {} /\ \A o \in Rg!Who \ {w} : rgJobs[o].pc = "idle"
  BY DEF RgInv, OneAtATime
<1>2. rgJobs'[w] = j /\ \A o \in Rg!Who \ {w} : rgJobs'[o] = rgJobs[o]
  BY DEF RgInv, RgTypes
<1>3. \A o \in Rg!Who \ {w} : JobOk(rgJobs[o])'
  BY <1>1, <1>2 DEF RgInv, JobOk, CloneOk, PushOk, PublishedOk, FoundOk
<1> QED BY <1>1, <1>2, <1>3 DEF OneAtATime

LEMMA BeginsStep ==
  ASSUME RgInv, NEW w \in Rg!Who, Rg!RunRegistry(w)
  PROVE  RgInv'
<1>1. PICK t \in {0} \cup Rg!Releases, live \in BOOLEAN :
        rgJobs' = [rgJobs EXCEPT ![w] = [Rg!Idle EXCEPT !.pc = "clone", !.tag = t, !.live = live]]
  BY DEF Rg!RunRegistry
<1> DEFINE j == [Rg!Idle EXCEPT !.pc = "clone", !.tag = t, !.live = live]
<1>2. j \in Commands /\ j.pc = "clone" /\ j.clone.listed = {}
  <2>1. t \in Nat
    BY DEF Rg!Releases
  <2>2. j = [[[Rg!Idle EXCEPT !.pc = "clone"] EXCEPT !.tag = t] EXCEPT !.live = live]
    OBVIOUS
  <2>3. [Rg!Idle EXCEPT !.pc = "clone"] \in Commands /\
            [Rg!Idle EXCEPT !.pc = "clone"].clone = Rg!Idle.clone
        /\ [Rg!Idle EXCEPT !.pc = "clone"].pc = "clone"
    BY IdleOk DEF Commands
  <2> QED BY <2>1, <2>2, <2>3, IdleOk DEF Commands
<1> HIDE DEF j
<1>3. rgJobs' = [rgJobs EXCEPT ![w] = j] /\ UNCHANGED <<rgTagged, rgUp, rgFork, rgPr, rgWell>>
  BY <1>1 DEF j, Rg!RunRegistry
<1>4. rgHit \subseteq rgHit' /\ (rgHit' # {} \/ \A o \in Rg!Who \ {w} : rgJobs[o].pc = "idle")
  BY DEF Rg!RunRegistry
<1>5. RgTypes'
  BY <1>2, <1>3 DEF RgInv, RgTypes
<1>6. rgHit' = {} => Stays' /\ JobOk(j)'
  BY <1>2, <1>3, <1>4 DEF RgInv, Stays, JobOk, CloneOk, PushOk, PublishedOk, FoundOk
<1> QED BY <1>2, <1>3, <1>4, <1>5, <1>6, OneSteps

LEMMA CloneStep ==
  ASSUME RgInv, NEW w \in Rg!Who, Rg!FreshClone(w) \/ Rg!Behind(w)
  PROVE  RgInv'
<1>1. UNCHANGED <<rgTagged, rgUp, rgFork, rgPr, rgWell, rgHit>> /\
          rgJobs[w].pc \in {"clone", "behind"} /\ rgJobs[w] \in Commands /\ rgUp \in Ups
  BY DEF Rg!FreshClone, Rg!Behind, RgInv, RgTypes
<1>2. ASSUME NEW j \in Commands, rgJobs' = [rgJobs EXCEPT ![w] = j], j.pc \in {"idle", "behind", "prepare"},
             j.clone \in {Rg!Idle.clone, rgUp, rgJobs[w].clone}
      PROVE  RgInv'
  <2>1. RgTypes'
    BY <1>1, <1>2 DEF RgInv, RgTypes
  <2>2. rgHit' = {} => Stays' /\ JobOk(j)'
    BY <1>1, <1>2, IdleOk DEF RgInv, Stays, JobOk, CloneOk, PushOk, PublishedOk, FoundOk
  <2> QED BY <1>1, <1>2, <2>1, <2>2, OneSteps
<1>3. CASE Rg!FreshClone(w)
  <2> DEFINE at == IF Rg!Refresh(w) THEN "behind" ELSE "prepare"
             j == [rgJobs[w] EXCEPT !.clone = rgUp, !.pc = at]
  <2>1. at \in {"behind", "prepare"}
    OBVIOUS
  <2> HIDE DEF at
  <2>2. j \in Commands /\ j.pc = at /\ j.clone = rgUp
    BY <1>1, <2>1 DEF Commands
  <2>3. rgJobs' = [rgJobs EXCEPT ![w] = j]
    BY <1>3 DEF Rg!FreshClone, RgInv, RgTypes, at
  <2> HIDE DEF j
  <2> QED BY <1>2, <2>1, <2>2, <2>3
<1>4. CASE Rg!Behind(w)
  <2>1. CASE Rg!Ends(w)
    BY <1>2, <2>1, IdleOk DEF Rg!Ends
  <2>2. CASE Rg!Goes(w, "prepare")
    <3> DEFINE j == [rgJobs[w] EXCEPT !.pc = "prepare"]
    <3>1. j \in Commands /\ j.pc = "prepare" /\ j.clone = rgJobs[w].clone
      BY <1>1 DEF Commands
    <3>2. rgJobs' = [rgJobs EXCEPT ![w] = j]
      BY <2>2 DEF Rg!Goes
    <3> QED BY <1>2, <3>1, <3>2
  <2> QED BY <1>4, <2>1, <2>2 DEF Rg!Behind
<1> QED BY <1>3, <1>4

LEMMA PrepareStep ==
  ASSUME RgInv, NEW w \in Rg!Who, Rg!Prepare(w)
  PROVE  RgInv'
<1>1. UNCHANGED <<rgTagged, rgUp, rgFork, rgPr>> /\ rgJobs[w].pc = "prepare" /\ rgJobs[w] \in Commands
  BY DEF Rg!Prepare, RgInv, RgTypes
<1>2. PICK had \in {rgFork.listed, {}} :
        Rg!PrepareWith(w, had) /\ rgHit \subseteq rgHit' /\ (rgHit' = {} => had = rgFork.listed)
  BY DEF Rg!Prepare
<1>0. had \in SUBSET Numbers /\ rgJobs[w].tag \in Nat
  BY <1>1 DEF RgInv, RgTypes, Commands
<1>3. PICK adds \in SUBSET Numbers : adds = Rg!Pending(w, had)
  BY <1>0 DEF Rg!Pending, Numbers
<1>4. had \cup Its(rgJobs[w]) \subseteq adds \cup rgJobs[w].clone.listed /\ Its(rgJobs[w]) \subseteq Numbers
  BY <1>0, <1>3 DEF Rg!Pending, Its, Numbers
<1>5. PICK j \in Commands : /\ j = [rgJobs[w] EXCEPT !.pc = "push", !.adds = adds]
                        /\ j.pc = "push" /\ j.adds = adds /\ j.clone = rgJobs[w].clone
                        /\ Its(j) = Its(rgJobs[w])
  <2> DEFINE k == [rgJobs[w] EXCEPT !.pc = "push", !.adds = adds]
  <2>1. k \in Commands /\ k.pc = "push" /\ k.adds = adds /\ k.clone = rgJobs[w].clone /\
            k.tag = rgJobs[w].tag
    BY <1>1, <1>3 DEF Commands
  <2> HIDE DEF k
  <2>2. Its(k) = Its(rgJobs[w])
    BY <2>1 DEF Its
  <2> QED BY <2>1, <2>2 DEF k
<1>6. PICK i \in Commands : i = Rg!Idle
  BY IdleOk
<1>7. /\ rgJobs' = [rgJobs EXCEPT ![w] = j] \/ rgJobs' = [rgJobs EXCEPT ![w] = i]
      /\ rgWell' = rgWell \/ (adds = {} /\ rgWell' = rgWell \cup Its(rgJobs[w]))
  BY <1>2, <1>3, <1>5, <1>6 DEF Rg!PrepareWith, Its
<1>8. RgTypes'
  BY <1>1, <1>4, <1>7 DEF RgInv, RgTypes
<1>9. ASSUME rgHit' = {} PROVE Stays' /\ JobOk(j)' /\ JobOk(i)'
  <2>1. rgHit = {} /\ had = rgFork.listed /\ CloneOk(rgJobs[w])
    BY <1>2, <1>9 DEF RgInv, JobOk
  <2>2. adds = {} => Its(rgJobs[w]) \subseteq rgUp.listed
    BY <1>4, <2>1 DEF CloneOk
  <2>3. Stays'
    BY <1>1, <1>7, <2>1, <2>2 DEF RgInv, Stays
  <2>4. JobOk(i)'
    BY <1>6, IdleOk DEF JobOk, CloneOk, PushOk, PublishedOk, FoundOk
  <2>5. JobOk(j)'
    BY <1>1, <1>4, <1>5, <2>1 DEF JobOk, CloneOk, PushOk, PublishedOk, FoundOk
  <2> QED BY <2>3, <2>4, <2>5
<1> QED BY <1>1, <1>2, <1>7, <1>8, <1>9, OneSteps

LEMMA PublishStep ==
  ASSUME RgInv, NEW w \in Rg!Who, Rg!Publish(w)
  PROVE  RgInv'
<1>1. UNCHANGED <<rgTagged, rgUp, rgPr, rgWell, rgHit>> /\ rgJobs[w].pc = "push" /\ rgJobs[w] \in Commands
  BY DEF Rg!Publish, RgInv, RgTypes
<1>2. PICK j \in Commands : /\ j = [rgJobs[w] EXCEPT !.pc = "list"] /\ j.pc = "list" /\ j.clone = rgJobs[w].clone
                        /\ Its(j) = Its(rgJobs[w])
  <2> DEFINE k == [rgJobs[w] EXCEPT !.pc = "list"]
  <2>1. k \in Commands /\ k.pc = "list" /\ k.clone = rgJobs[w].clone /\ k.tag = rgJobs[w].tag
    BY <1>1 DEF Commands
  <2> HIDE DEF k
  <2>2. Its(k) = Its(rgJobs[w])
    BY <2>1 DEF Its
  <2> QED BY <2>1, <2>2 DEF k
<1>3. rgJobs' = [rgJobs EXCEPT ![w] = j]
  BY <1>2 DEF Rg!Publish, Rg!Goes
<1>4. /\ rgFork'.listed = rgJobs[w].clone.listed \cup rgJobs[w].adds
      /\ rgFork' \in [there : BOOLEAN, base : Nat, listed : SUBSET Numbers]
  BY <1>1 DEF Rg!Publish, Commands, Ups
<1>5. RgTypes'
  BY <1>1, <1>3, <1>4 DEF RgInv, RgTypes
<1>6. ASSUME rgHit = {} PROVE Stays' /\ JobOk(j)'
  <2>1. rgFork.listed \cup Its(j) \subseteq rgFork'.listed /\ CloneOk(rgJobs[w])
    BY <1>1, <1>2, <1>4, <1>6 DEF RgInv, JobOk, PushOk
  <2> QED BY <1>1, <1>2, <1>6, <2>1 DEF RgInv, Stays, JobOk, CloneOk, PushOk, PublishedOk, FoundOk
<1> QED BY <1>1, <1>3, <1>5, <1>6, OneSteps

LEMMA PrStep ==
  ASSUME RgInv, NEW w \in Rg!Who, Rg!ListPrs(w) \/ Rg!OpenPr(w)
  PROVE  RgInv'
<1>1. UNCHANGED <<rgTagged, rgUp, rgFork, rgHit>> /\ rgJobs[w].pc \in {"list", "pr"} /\
          rgJobs[w] \in Commands
  BY DEF Rg!ListPrs, Rg!OpenPr, RgInv, RgTypes
<1>2. CASE Rg!ListPrs(w)
  <2> DEFINE found == rgPr = "open"
  <2>1. found \in BOOLEAN
    OBVIOUS
  <2> HIDE DEF found
  <2>2. PICK j \in Commands : /\ j = [rgJobs[w] EXCEPT !.pc = "pr", !.found = found]
                          /\ j.pc = "pr" /\ j.clone = rgJobs[w].clone /\ j.found = found
                          /\ Its(j) = Its(rgJobs[w])
    <3> DEFINE k == [rgJobs[w] EXCEPT !.pc = "pr", !.found = found]
    <3>1. k \in Commands /\ k.pc = "pr" /\ k.clone = rgJobs[w].clone /\ k.found = found /\
              k.tag = rgJobs[w].tag
      BY <1>1, <2>1 DEF Commands
    <3> HIDE DEF k
    <3>2. Its(k) = Its(rgJobs[w])
      BY <3>1 DEF Its
    <3> QED BY <3>1, <3>2 DEF k
  <2>3. rgJobs' = [rgJobs EXCEPT ![w] = j] /\ UNCHANGED <<rgPr, rgWell>>
    BY <1>2, <2>2 DEF Rg!ListPrs, found, RgInv, RgTypes
  <2>4. RgTypes'
    BY <1>1, <2>3 DEF RgInv, RgTypes
  <2>5. rgHit = {} => Stays' /\ JobOk(j)'
    BY <1>1, <2>2, <2>3 DEF RgInv, Stays, JobOk, CloneOk, PushOk, PublishedOk, FoundOk, found
  <2> QED BY <1>1, <2>3, <2>4, <2>5, OneSteps
<1>3. CASE Rg!OpenPr(w)
  <2>1. PICK i \in Commands : i = Rg!Idle
    BY IdleOk
  <2>2. /\ rgJobs[w].pc = "pr" /\ rgJobs' = [rgJobs EXCEPT ![w] = i]
        /\ rgPr' = IF rgJobs[w].found THEN rgPr ELSE "open"
        /\ rgWell' = rgWell \/ (rgWell' = rgWell \cup Its(rgJobs[w]) /\ (rgJobs[w].found \/ rgPr' = "open"))
    BY <1>3, <2>1 DEF Rg!OpenPr, Rg!Ends, Its
  <2>3. RgTypes'
    <3>1. Its(rgJobs[w]) \subseteq Numbers
      BY <1>1 DEF Its, Numbers, Commands
    <3> QED BY <1>1, <2>2, <3>1 DEF RgInv, RgTypes
  <2>4. ASSUME rgHit = {} PROVE Stays' /\ JobOk(i)'
    <3>1. Its(rgJobs[w]) \subseteq rgFork.listed \cup rgUp.listed
          /\ (rgJobs[w].found /\ rgPr # "open" => rgFork.listed \subseteq rgUp.listed)
      BY <2>2, <2>4 DEF RgInv, JobOk, PublishedOk, FoundOk
    <3>2. Stays'
      BY <1>1, <2>2, <2>4, <3>1 DEF RgInv, Stays
    <3>3. JobOk(i)'
      BY <2>1, IdleOk DEF JobOk, CloneOk, PushOk, PublishedOk, FoundOk
    <3> QED BY <3>2, <3>3
  <2> QED BY <1>1, <2>2, <2>3, <2>4, OneSteps
<1> QED BY <1>2, <1>3

LEMMA FailsStep ==
  ASSUME RgInv, NEW w \in Rg!Who, Rg!Fails(w)
  PROVE  RgInv'
<1>1. PICK i \in Commands : i = Rg!Idle
  BY IdleOk
<1>2. /\ rgJobs[w].pc # "idle" /\ rgJobs' = [rgJobs EXCEPT ![w] = i]
      /\ UNCHANGED <<rgTagged, rgUp, rgFork, rgPr, rgWell, rgHit>>
  BY <1>1 DEF Rg!Fails, Rg!Ends
<1>3. RgTypes'
  BY <1>2 DEF RgInv, RgTypes
<1>4. rgHit = {} => Stays' /\ JobOk(i)'
  BY <1>1, <1>2, IdleOk DEF RgInv, Stays, JobOk, CloneOk, PushOk, PublishedOk, FoundOk
<1> QED BY <1>2, <1>3, <1>4, OneSteps

\* What is tagged or lands elsewhere; what main lists it lists for good.
LEMMA LandsStep ==
  ASSUME RgInv, Rg!TagRelease \/ Rg!Lands
  PROVE  RgInv'
<1>1. UNCHANGED <<rgFork, rgJobs, rgWell>> /\ rgTagged' \in Nat /\ rgPr' \in {rgPr, "none"}
  BY DEF Rg!TagRelease, Rg!Lands, RgInv, RgTypes
<1>2. rgUp' \in Ups /\ rgUp.listed \subseteq rgUp'.listed
  <2>1. rgUp \in Ups /\ rgFork.listed \in SUBSET Numbers
    BY DEF RgInv, RgTypes
  <2>2. \/ rgUp' = rgUp \/ rgUp' = [rgUp EXCEPT !.tip = @ + 1]
        \/ rgUp' = [tip |-> rgUp.tip + 1, app |-> TRUE, listed |-> rgUp.listed \cup rgFork.listed]
    BY DEF Rg!TagRelease, Rg!Lands
  <2>3. rgUp.tip + 1 \in Nat /\ rgUp.listed \cup rgFork.listed \in SUBSET Numbers
    BY <2>1 DEF Ups
  <2>4. CASE rgUp' = [rgUp EXCEPT !.tip = @ + 1]
    BY <2>1, <2>3, <2>4 DEF Ups
  <2>5. CASE rgUp' = [tip |-> rgUp.tip + 1, app |-> TRUE, listed |-> rgUp.listed \cup rgFork.listed]
    BY <2>1, <2>3, <2>5 DEF Ups
  <2> QED BY <2>1, <2>2, <2>4, <2>5
<1>3. rgHit' = {} => rgHit = {} /\ (rgPr' = rgPr \/ rgFork.listed \subseteq rgUp'.listed)
  BY DEF Rg!TagRelease, Rg!Lands, RgInv, RgTypes
<1>4. RgTypes'
  BY <1>1, <1>2 DEF RgInv, RgTypes
<1>5. ASSUME rgHit' = {} PROVE OneAtATime' /\ Stays' /\ \A w \in Rg!Who : JobOk(rgJobs[w])'
  <2>1. OneAtATime'
    BY <1>1, <1>3, <1>5 DEF RgInv, OneAtATime
  <2>2. Stays'
    BY <1>1, <1>2, <1>3, <1>5 DEF RgInv, Stays
  <2>3. ASSUME NEW w \in Rg!Who PROVE JobOk(rgJobs[w])'
    BY <1>1, <1>2, <1>3, <1>5 DEF RgInv, JobOk, CloneOk, PushOk, PublishedOk, FoundOk
  <2> QED BY <2>1, <2>2, <2>3
<1> QED BY <1>4, <1>5 DEF RgInv

\* A release that was published well is listed or waits in the open PR, in every history without two
\* commands at once, a fetch of the branch that failed, or a PR that the registry refused.
THEOREM PublishedHolds == Rg!Spec => []Rg!PublishedStays
<1>1. ASSUME RgInv, UNCHANGED Rg!vars PROVE RgInv'
  BY <1>1 DEF Rg!vars, RgInv, RgTypes, OneAtATime, Stays, JobOk, CloneOk, PushOk, PublishedOk, FoundOk
<1>2. RgInv /\ [Rg!Next]_Rg!vars => RgInv'
  BY <1>1, BeginsStep, CloneStep, PrepareStep, PublishStep, PrStep, FailsStep, LandsStep DEF Rg!Next
<1>3. RgInv => Rg!PublishedStays
  BY DEF RgInv, Stays, Rg!PublishedStays
<1> QED BY RgInit, <1>2, <1>3, PTL DEF Rg!Spec

-----------------------------------------------------------------------------
(***************************************************************************)
(* The rollouts of frappe-nix to an app (Rollout), with the nightly drift  *)
(* reminders, for any number of rollouts, changes by others and stops:     *)
(* nothing an app has is ahead of what is released (AllWithin), no         *)
(* rollout under way goes back behind what it cloned (Ahead), and what     *)
(* the drift job said of a clone fits that clone (OfRelease, OfProfile).   *)
(***************************************************************************)
CONSTANTS MaxRoRolls, MaxRoOthers, MaxRoStops
VARIABLES roMain, roNix, roHeads, roPrs, roRoll, roNight, roIssues, roGuard, roRolls,
          roOthers, roStops
Ro == INSTANCE Rollout WITH MaxRolls <- MaxRoRolls, MaxOthers <- MaxRoOthers,
  MaxStops <- MaxRoStops, main <- roMain, nix <- roNix, heads <- roHeads, prs <- roPrs,
  roll <- roRoll, night <- roNight, issues <- roIssues, guard <- roGuard, rolls <- roRolls,
  others <- roOthers, stops <- roStops

Trees == [lock : 0..2, profile : {Ro!None, "builtin", "org", "other"}, rev : 0..2, fixed : BOOLEAN]
Refs  == {Ro!None, "latest", "other"}
Rolls == [pc : {"idle", "update", "sync", "push", "pr", "merge"}, to : 0..2, ref : Refs, auto : BOOLEAN,
          org : BOOLEAN, cloned : Trees, tree : Trees, name : Ro!Names \cup {<<0, 0>>},
            status : {"none", "ok", "failed", "skipped", "current"}]
RoTypes ==
  /\ roMain \in Trees /\ roNix \in [tag : 1..2, branch : 1..2, profile : 1..2]
  /\ roHeads \in [Ro!Names -> Trees] /\ roPrs \in [Ro!Names -> {Ro!None, "open", "auto"}]
  /\ roRoll \in Rolls
  /\ roNight \in [pc : {"idle", "profile"}, tree : Trees, latest : 0..2, head : 0..2]

\* Nothing that an app has is ahead of frappe-nix's release branch, or of the profile's.
Within(t) == t.lock <= roNix.branch /\ t.rev <= roNix.profile
AllWithin == Within(roMain) /\ roMain.lock # 0 /\ Within(roRoll.tree) /\
                 \A n \in Ro!Names : Within(roHeads[n])

\* What a rollout under way has of the app that it cloned, and of what it was asked for.
Ahead(r)   == r.cloned.lock # 0 /\ r.tree.lock >= r.cloned.lock /\ r.tree.rev >= r.cloned.rev
Profile(r) ==
  /\ r.org <=> Ro!Org(r.cloned.profile)
  /\ r.to = 0 => r.ref # Ro!None /\ r.org
  /\ r.ref = Ro!None => r.tree.profile = r.cloned.profile
  /\ r.ref # Ro!None /\ r.org => Ro!Org(r.tree.profile)
Reached(r) == r.to \in {0, r.tree.lock} /\ (r.ref # Ro!None /\ r.org => r.tree.rev # 0)
Going(r) ==
  /\ r.pc # "idle" => Ahead(r) /\ Profile(r)
  /\ r.pc \in {"sync", "push"} => Reached(r)
  /\ r.pc \in {"pr", "merge"} => r.name \in Ro!Names
Current(r) == r.status = "current" => r.cloned.lock = r.to \/ r.to = 0

\* A PR is of a branch that is there.
Opened == \A n \in Ro!Names : roPrs[n] # Ro!None => roHeads[n] # Ro!NoTree

\* What the drift job has reminded of so far.
OfRelease == roNight.latest # 0 => ("release" \in roIssues <=> roNight.tree.lock < roNight.latest)
OfProfile ==
  roNight.pc = "idle" /\ roNight.latest # 0 /\ roNight.tree.rev # 0
    => ("profile" \in roIssues <=> roNight.tree.rev # roNight.head)

RoInv == RoTypes /\ AllWithin /\ Going(roRoll) /\ Current(roRoll) /\ Ro!HeadsHold /\ Opened /\
             OfRelease /\ OfProfile

LEMMA NoTreeIs == Ro!NoTree \in Trees /\ Ro!NoTree.lock = 0 /\ Ro!NoTree.rev = 0
  BY DEF Ro!NoTree, Ro!Tree, Trees, Ro!None

LEMMA RoInit == Ro!Init => RoInv
<1> SUFFICES ASSUME Ro!Init PROVE RoInv
  OBVIOUS
<1>1. roMain \in Trees /\ roMain.lock = 1 /\ roMain.rev \in {0, 1}
  <2>1. \/ roMain = [lock |-> 1, profile |-> "builtin", rev |-> 0, fixed |-> FALSE]
        \/ roMain = [lock |-> 1, profile |-> "org", rev |-> 1, fixed |-> FALSE]
    BY DEF Ro!Init, Ro!Tree
  <2>2. CASE roMain = [lock |-> 1, profile |-> "builtin", rev |-> 0, fixed |-> FALSE]
    BY <2>2 DEF Trees
  <2>3. CASE roMain = [lock |-> 1, profile |-> "org", rev |-> 1, fixed |-> FALSE]
    BY <2>3 DEF Trees
  <2> QED BY <2>1, <2>2, <2>3
<1>2. roNix \in [tag : 1..2, branch : 1..2, profile : 1..2]
  BY DEF Ro!Init
<1>3. \A n \in Ro!Names : roHeads[n] = Ro!NoTree
  BY DEF Ro!Init
<1>4. roRoll \in Rolls /\ roRoll.pc = "idle" /\ roRoll.tree = Ro!NoTree /\ roRoll.status = "none"
  BY NoTreeIs DEF Ro!Init, Ro!Idle, Rolls, Refs
<1>5. roNight.latest = 0 /\ roNight \in [pc : {"idle", "profile"}, tree : Trees, latest : 0..2, head : 0..2]
  BY NoTreeIs DEF Ro!Init, Ro!NoNight
<1>6. RoTypes
  BY <1>1, <1>2, <1>4, <1>5, NoTreeIs DEF RoTypes, Ro!Init, Ro!None
<1>7. AllWithin
  BY <1>1, <1>2, <1>3, <1>4, NoTreeIs DEF AllWithin, Within
<1>8. Opened
  BY DEF Ro!Init, Opened
<1> QED BY <1>3, <1>4, <1>5, <1>6, <1>7, <1>8 DEF RoInv, Going, Current, Ro!HeadsHold, OfRelease, OfProfile

\* A step of the rollout alone, which leaves the app's branch, the releases and the night as they are.
LEMMA RollSteps ==
  ASSUME RoInv, UNCHANGED <<roMain, roNix, roNight, roIssues>>, roRoll' \in Rolls,
         Within(roRoll'.tree), Going(roRoll'), Current(roRoll'),
         roHeads' \in [Ro!Names -> Trees], roPrs' \in [Ro!Names -> {Ro!None, "open", "auto"}],
         \A n \in Ro!Names : Within(roHeads'[n]), Ro!HeadsHold', Opened'
  PROVE  RoInv'
<1>1. RoTypes'
  BY DEF RoInv, RoTypes
<1>2. AllWithin'
  BY DEF RoInv, AllWithin, Within
<1>3. Going(roRoll)' /\ Current(roRoll)'
  BY DEF Going, Current, Ahead, Profile, Reached
<1>4. OfRelease' /\ OfProfile'
  BY DEF RoInv, OfRelease, OfProfile
<1> QED BY <1>1, <1>2, <1>3, <1>4 DEF RoInv

LEMMA SameHeads ==
  ASSUME RoInv, UNCHANGED <<roHeads, roNix>>
  PROVE  /\ roHeads' \in [Ro!Names -> Trees] /\ Ro!HeadsHold' /\ \A n \in Ro!Names : Within(roHeads'[n])
         /\ UNCHANGED roPrs => Opened'
  BY DEF RoInv, RoTypes, AllWithin, Within, Opened, Ro!HeadsHold

LEMMA StartStep ==
  ASSUME RoInv, NEW to \in 0..roNix.tag, NEW ref \in Refs, NEW auto \in BOOLEAN,
         Ro!RolloutOne(to, ref, auto)
  PROVE  RoInv'
<1>1. /\ UNCHANGED <<roMain, roNix, roHeads, roPrs, roNight, roIssues>> /\ roMain \in Trees
      /\ Within(roMain) /\ to \in 0..2
      /\ to # 0 \/ ref # Ro!None
      /\ roMain.lock # 0
  BY DEF Ro!RolloutOne, Ro!nightVars, RoInv, RoTypes, AllWithin, Within
<1>2. PICK org \in BOOLEAN : org = Ro!Org(roMain.profile)
  BY DEF Ro!Org
<1>3. PICK profile \in {Ro!None, "builtin", "org", "other"} : profile = Ro!SetProfileRef(roMain.profile, ref)
  BY <1>1 DEF Ro!SetProfileRef, Trees, Refs
<1> DEFINE tree == [roMain EXCEPT !.profile = profile]
           start == [pc |-> "update", to |-> to, ref |-> ref, auto |-> auto, org |-> org, cloned |-> roMain,
                     tree |-> tree, name |-> <<0, 0>>, status |-> "none"]
<1>4. tree \in Trees /\ tree.lock = roMain.lock /\ tree.rev = roMain.rev /\ tree.profile = profile
  BY <1>1, <1>3 DEF Trees
<1>a. tree = [roMain EXCEPT !.profile = Ro!SetProfileRef(@, ref)]
  BY <1>1, <1>3 DEF Trees
<1> HIDE DEF tree
<1>5. /\ start \in Rolls /\ start.pc = "update" /\ start.to = to /\ start.ref = ref /\ start.org = org
      /\ start.cloned = roMain /\ start.tree = tree /\ start.status = "none"
  BY <1>1, <1>3, <1>4 DEF Rolls
<1>6. \/ roRoll' = [start EXCEPT !.pc = "idle", !.status = "skipped"]
      \/ roRoll' = start /\ ~(ref # Ro!None /\ to = 0 /\ ~org)
  BY <1>2, <1>a DEF Ro!RolloutOne
<1> HIDE DEF start
<1>7. Within(tree) /\ Ahead(start)
  BY <1>1, <1>4, <1>5 DEF Within, Ahead, Trees
<1>8. CASE roRoll' = [start EXCEPT !.pc = "idle", !.status = "skipped"]
  <2>1. roRoll' \in Rolls /\ roRoll'.pc = "idle" /\ roRoll'.tree = tree /\ roRoll'.status = "skipped"
    BY <1>5, <1>8 DEF Rolls
  <2>2. Going(roRoll') /\ Current(roRoll') /\ Within(roRoll'.tree)
    BY <1>7, <2>1 DEF Going, Current
  <2> QED BY <1>1, <2>1, <2>2, RollSteps, SameHeads DEF RoInv, RoTypes
<1>9. CASE roRoll' = start /\ ~(ref # Ro!None /\ to = 0 /\ ~org)
  <2>1. Profile(start)
    <3>1. ref = Ro!None => profile = roMain.profile
      BY <1>3 DEF Ro!SetProfileRef
    <3>2. ref # Ro!None /\ org => Ro!Org(profile)
      BY <1>2, <1>3 DEF Ro!SetProfileRef, Ro!Org, Refs
    <3> QED BY <1>1, <1>2, <1>4, <1>5, <1>9, <3>1, <3>2 DEF Profile
  <2>2. Going(start) /\ Current(start) /\ Within(start.tree)
    BY <1>5, <1>7, <2>1 DEF Going, Current
  <2>3. roRoll' \in Rolls /\ Going(roRoll') /\ Current(roRoll') /\ Within(roRoll'.tree)
    BY <1>5, <1>9, <2>2
  <2> QED BY <1>1, <2>3, RollSteps, SameHeads DEF RoInv, RoTypes
<1> QED BY <1>6, <1>8, <1>9

\* A rollout that ends, in whatever way but as current.
LEMMA EndStep ==
  ASSUME RoInv, NEW status \in {"ok", "failed"}, roRoll' = Ro!Ends(status),
         UNCHANGED <<roMain, roNix, roNight, roIssues>>,
         roHeads' \in [Ro!Names -> Trees], roPrs' \in [Ro!Names -> {Ro!None, "open", "auto"}],
         \A n \in Ro!Names : Within(roHeads'[n]), Ro!HeadsHold', Opened'
  PROVE  RoInv'
<1>1. roRoll' \in Rolls /\ roRoll'.pc = "idle" /\ roRoll'.status = status /\ roRoll'.tree = roRoll.tree
  BY DEF Ro!Ends, RoInv, RoTypes, Rolls
<1>2. Going(roRoll') /\ Current(roRoll') /\ Within(roRoll'.tree)
  BY <1>1 DEF Going, Current, RoInv, AllWithin
<1> QED BY <1>1, <1>2, RollSteps

LEMMA RollUpdateStep ==
  ASSUME RoInv, Ro!UpdateInputs
  PROVE  RoInv'
<1>1. /\ UNCHANGED <<roMain, roNix, roHeads, roPrs, roNight, roIssues>> /\ roRoll.pc = "update"
      /\ roRoll \in Rolls
      /\ roRoll.tree \in Trees /\ roNix \in [tag : 1..2, branch : 1..2, profile : 1..2]
      /\ Within(roRoll.tree) /\ Ahead(roRoll) /\ Profile(roRoll) /\ Current(roRoll)
  BY DEF Ro!UpdateInputs, Ro!nightVars, RoInv, RoTypes, AllWithin, Going, Rolls
<1>2. PICK lock \in 0..2 : lock = IF roRoll.to # 0 THEN roNix.branch ELSE roRoll.tree.lock
  BY <1>1 DEF Trees
<1>3. PICK rev \in 0..2 : rev = IF roRoll.ref # Ro!None /\ roRoll.org THEN roNix.profile ELSE roRoll.tree.rev
  BY <1>1 DEF Trees
<1> DEFINE t == [roRoll.tree EXCEPT !.lock = lock, !.rev = rev]
<1>4. t \in Trees /\ t.lock = lock /\ t.rev = rev /\ t.profile = roRoll.tree.profile
  BY <1>1 DEF Trees
<1>5. \/ Ro!CheckReached(t) /\ roRoll' = [roRoll EXCEPT !.tree = t, !.pc = "sync"]
      \/ roRoll' = Ro!Ends("failed")
  BY <1>2, <1>3 DEF Ro!UpdateInputs
<1> HIDE DEF t
<1>6. CASE Ro!CheckReached(t) /\ roRoll' = [roRoll EXCEPT !.tree = t, !.pc = "sync"]
  <2>1. /\ roRoll' \in Rolls /\ roRoll'.pc = "sync" /\ roRoll'.tree = t
        /\ roRoll'.cloned = roRoll.cloned /\ roRoll'.to = roRoll.to
                           /\ roRoll'.ref = roRoll.ref /\ roRoll'.org = roRoll.org
                           /\ roRoll'.status = roRoll.status
    BY <1>1, <1>4, <1>6 DEF Rolls
  <2>2. Within(t) /\ Ahead(roRoll')
    BY <1>1, <1>2, <1>3, <1>4, <2>1 DEF Within, Ahead, Trees, Rolls
  <2>3. Profile(roRoll')
    BY <1>1, <1>4, <2>1 DEF Profile
  <2>4. Reached(roRoll')
    BY <1>1, <1>3, <1>4, <1>6, <2>1 DEF Reached, Ro!CheckReached
  <2>5. Going(roRoll') /\ Current(roRoll')
    BY <1>1, <2>1, <2>2, <2>3, <2>4 DEF Going, Current
  <2> QED BY <1>1, <2>1, <2>2, <2>5, RollSteps, SameHeads DEF RoInv, RoTypes
<1>7. CASE roRoll' = Ro!Ends("failed")
  BY <1>1, <1>7, EndStep, SameHeads DEF RoInv, RoTypes
<1> QED BY <1>5, <1>6, <1>7

LEMMA SyncStep ==
  ASSUME RoInv, Ro!RelockAndSync
  PROVE  RoInv'
<1>1. /\ UNCHANGED <<roMain, roNix, roHeads, roPrs, roNight, roIssues>> /\ roRoll.pc = "sync"
      /\ roRoll \in Rolls
      /\ roRoll.tree \in Trees /\ roNix \in [tag : 1..2, branch : 1..2, profile : 1..2]
      /\ Within(roRoll.tree) /\ Ahead(roRoll) /\ Profile(roRoll) /\ Reached(roRoll) /\ Current(roRoll)
  BY DEF Ro!RelockAndSync, Ro!nightVars, RoInv, RoTypes, AllWithin, Going, Rolls
<1>2. PICK rev \in 0..2 :
        rev = IF Ro!Org(roRoll.tree.profile) /\ roRoll.tree.rev = 0 THEN roNix.profile ELSE roRoll.tree.rev
  BY <1>1 DEF Trees
<1> DEFINE t == [roRoll.tree EXCEPT !.rev = rev]
<1>3. t \in Trees /\ t.lock = roRoll.tree.lock /\ t.rev = rev /\ t.profile = roRoll.tree.profile
  BY <1>1 DEF Trees
<1>4. roRoll' = [roRoll EXCEPT !.pc = "push", !.tree = t]
  BY <1>1, <1>2 DEF Ro!RelockAndSync, Rolls, Trees
<1> HIDE DEF t
<1>5. /\ roRoll' \in Rolls /\ roRoll'.pc = "push" /\ roRoll'.tree = t
      /\ roRoll'.cloned = roRoll.cloned /\ roRoll'.to = roRoll.to
                         /\ roRoll'.ref = roRoll.ref /\ roRoll'.org = roRoll.org
                         /\ roRoll'.status = roRoll.status
  BY <1>1, <1>3, <1>4 DEF Rolls
<1>6. Within(t) /\ Ahead(roRoll')
  BY <1>1, <1>2, <1>3, <1>5 DEF Within, Ahead, Trees, Rolls
<1>7. Profile(roRoll') /\ Reached(roRoll')
  BY <1>1, <1>2, <1>3, <1>5 DEF Profile, Reached
<1>8. Going(roRoll') /\ Current(roRoll')
  BY <1>1, <1>5, <1>6, <1>7 DEF Going, Current
<1> QED BY <1>1, <1>5, <1>6, <1>8, RollSteps, SameHeads DEF RoInv, RoTypes

LEMMA RollPushStep ==
  ASSUME RoInv, Ro!CommitAndPush
  PROVE  RoInv'
<1>1. /\ UNCHANGED <<roMain, roNix, roPrs, roNight, roIssues>> /\ roRoll.pc = "push" /\ roRoll \in Rolls
      /\ roRoll.tree \in Trees /\ Within(roRoll.tree) /\ Ahead(roRoll) /\ Profile(roRoll)
      /\ Reached(roRoll) /\ Current(roRoll)
  BY DEF Ro!CommitAndPush, Ro!nightVars, RoInv, RoTypes, AllWithin, Going, Rolls
<1>2. CASE roRoll.tree = roRoll.cloned /\ roRoll' = Ro!Ends("current") /\ UNCHANGED roHeads
  <2>1. roRoll' \in Rolls /\ roRoll'.pc = "idle" /\ roRoll'.tree = roRoll.tree /\
            roRoll'.cloned = roRoll.cloned /\ roRoll'.to = roRoll.to
    BY <1>1, <1>2 DEF Ro!Ends, Rolls
  <2>2. Going(roRoll') /\ Current(roRoll') /\ Within(roRoll'.tree)
    BY <1>1, <1>2, <2>1 DEF Going, Current, Reached
  <2> QED BY <1>1, <1>2, <2>1, <2>2, RollSteps, SameHeads DEF RoInv, RoTypes
<1>3. CASE roHeads' = [roHeads EXCEPT ![Ro!HeadName] = roRoll.tree] /\
               roRoll' = [roRoll EXCEPT !.name = Ro!HeadName, !.pc = "pr"]
  <2>1. PICK rev \in 0..2 : rev = IF roRoll.ref # Ro!None /\ roRoll.org THEN roRoll.tree.rev ELSE 0
    BY <1>1 DEF Trees
  <2>2. PICK n \in Ro!Names : n = Ro!HeadName /\ n = <<roRoll.to, rev>>
    <3>1. roRoll.to \in 0..2 /\ <<roRoll.to, rev>> # <<0, 0>>
      BY <1>1, <2>1 DEF Profile, Reached, Rolls
    <3>2. Ro!HeadName = <<roRoll.to, rev>>
      BY <2>1 DEF Ro!HeadName
    <3>3. <<roRoll.to, rev>> \in Ro!Names
      BY <3>1 DEF Ro!Names
    <3> QED BY <3>2, <3>3
  <2>3. /\ roRoll' \in Rolls /\ roRoll'.pc = "pr" /\ roRoll'.tree = roRoll.tree
        /\ roRoll'.cloned = roRoll.cloned /\ roRoll'.to = roRoll.to
                           /\ roRoll'.ref = roRoll.ref /\ roRoll'.org = roRoll.org
                           /\ roRoll'.status = roRoll.status /\ roRoll'.name = n
    BY <1>1, <1>3, <2>2 DEF Rolls
  <2>4. Ahead(roRoll') /\ Profile(roRoll')
    BY <1>1, <2>3 DEF Ahead, Profile
  <2>5. Going(roRoll') /\ Current(roRoll') /\ Within(roRoll'.tree)
    BY <1>1, <2>3, <2>4 DEF Going, Current
  <2>6. roHeads' \in [Ro!Names -> Trees] /\ roHeads' = [roHeads EXCEPT ![n] = roRoll.tree]
    BY <1>1, <1>3, <2>2 DEF RoInv, RoTypes
  <2>7. \A m \in Ro!Names : Within(roHeads'[m])
    BY <1>1, <2>6 DEF RoInv, RoTypes, AllWithin
  <2>8. n[1] \in {0, roRoll.tree.lock} /\ n[2] \in {0, roRoll.tree.rev}
    BY <1>1, <2>1, <2>2 DEF Reached
  <2>9. Ro!HeadsHold'
    BY <2>6, <2>8 DEF RoInv, RoTypes, Ro!HeadsHold
  <2>10. roRoll.tree # Ro!NoTree
    BY <1>1, NoTreeIs DEF Ahead, Trees, Rolls
  <2>11. Opened'
    BY <1>1, <2>6, <2>10 DEF RoInv, RoTypes, Opened
  <2> QED BY <1>1, <2>3, <2>5, <2>6, <2>7, <2>9, <2>11, RollSteps DEF RoInv, RoTypes
<1> QED BY <1>2, <1>3 DEF Ro!CommitAndPush

LEMMA CreateStep ==
  ASSUME RoInv, Ro!CreatePr
  PROVE  RoInv'
<1>1. /\ UNCHANGED <<roMain, roNix, roHeads, roNight, roIssues>> /\ roRoll.pc = "pr" /\ roRoll \in Rolls
      /\ Within(roRoll.tree) /\ Ahead(roRoll) /\ Profile(roRoll) /\ roRoll.name \in Ro!Names
      /\ Current(roRoll)
  BY DEF Ro!CreatePr, Ro!nightVars, RoInv, RoTypes, AllWithin, Going
<1>2. roPrs' \in [Ro!Names -> {Ro!None, "open", "auto"}] /\ Opened'
  <2>1. roHeads[roRoll.name] # Ro!NoTree /\ \A n \in Ro!Names \ {roRoll.name} : roPrs'[n] = roPrs[n]
    BY DEF Ro!CreatePr, RoInv, RoTypes
  <2> QED BY <1>1, <2>1 DEF Ro!CreatePr, RoInv, RoTypes, Opened
<1>3. CASE roRoll' = [roRoll EXCEPT !.pc = "merge"]
  <2>1. /\ roRoll' \in Rolls /\ roRoll'.pc = "merge" /\ roRoll'.tree = roRoll.tree
        /\ roRoll'.cloned = roRoll.cloned /\ roRoll'.to = roRoll.to
        /\ roRoll'.ref = roRoll.ref /\ roRoll'.org = roRoll.org /\ roRoll'.status = roRoll.status
        /\ roRoll'.name = roRoll.name
    BY <1>1, <1>3 DEF Rolls
  <2>2. Ahead(roRoll') /\ Profile(roRoll')
    BY <1>1, <2>1 DEF Ahead, Profile
  <2>3. Going(roRoll') /\ Current(roRoll') /\ Within(roRoll'.tree)
    BY <1>1, <2>1, <2>2 DEF Going, Current
  <2> QED BY <1>1, <1>2, <2>1, <2>3, RollSteps, SameHeads
<1>4. CASE roRoll' = Ro!Ends("ok")
  BY <1>1, <1>2, <1>4, EndStep, SameHeads
<1> QED BY <1>3, <1>4 DEF Ro!CreatePr

LEMMA StopStep ==
  ASSUME RoInv, Ro!RollStops
  PROVE  RoInv'
<1>1. UNCHANGED <<roMain, roNix, roHeads, roPrs, roNight, roIssues>> /\ roRoll' = Ro!Ends("failed")
  BY DEF Ro!RollStops, Ro!nightVars
<1> QED BY <1>1, EndStep, SameHeads DEF RoInv, RoTypes

\* What a merge leaves: the newer of both, so nothing ahead of the release branch or the profile's.
LEMMA MergeFacts ==
  ASSUME RoInv, NEW n \in Ro!Names, Ro!Merged(n), UNCHANGED roNix
  PROVE  /\ roMain' \in Trees /\ Within(roMain') /\ roMain'.lock # 0
         /\ roHeads' \in [Ro!Names -> Trees] /\ roPrs' \in [Ro!Names -> {Ro!None, "open", "auto"}]
         /\ \A m \in Ro!Names : Within(roHeads'[m])
         /\ Ro!HeadsHold' /\ Opened'
<1>1. /\ roMain \in Trees /\ roHeads \in [Ro!Names -> Trees] /\ roHeads[n] \in Trees
      /\ roPrs \in [Ro!Names -> {Ro!None, "open", "auto"}] /\ Within(roMain) /\ roMain.lock # 0
      /\ \A m \in Ro!Names : Within(roHeads[m])
      /\ roNix \in [tag : 1..2, branch : 1..2, profile : 1..2] /\ Ro!HeadsHold
  BY DEF RoInv, RoTypes, AllWithin
<1>2. /\ roMain' = Ro!Newer(roHeads[n], roMain) /\ roPrs' = [roPrs EXCEPT ![n] = Ro!None]
      /\ roHeads' = [roHeads EXCEPT ![n] = Ro!NoTree]
  BY DEF Ro!Merged
<1>3. PICK lock \in 0..2 : lock = IF roHeads[n].lock > roMain.lock THEN roHeads[n].lock ELSE roMain.lock
  BY <1>1 DEF Trees
<1>4. PICK rev \in 0..2 : rev = IF roHeads[n].rev > roMain.rev THEN roHeads[n].rev ELSE roMain.rev
  BY <1>1 DEF Trees
<1>5. PICK profile \in {Ro!None, "builtin", "org", "other"} :
        profile = IF Ro!Org(roHeads[n].profile) THEN roHeads[n].profile ELSE roMain.profile
  BY <1>1 DEF Trees
<1>6. PICK fixed \in BOOLEAN : fixed = (roMain.fixed \/ roHeads[n].fixed)
  BY <1>1 DEF Trees
<1>7. roMain' = [roMain EXCEPT !.lock = lock, !.rev = rev, !.profile = profile, !.fixed = fixed]
  BY <1>2, <1>3, <1>4, <1>5, <1>6 DEF Ro!Newer
<1>8. roMain' \in Trees /\ roMain'.lock = lock /\ roMain'.rev = rev
  BY <1>1, <1>7 DEF Trees
<1>9. Within(roMain') /\ roMain'.lock # 0
  BY <1>1, <1>3, <1>4, <1>8 DEF Within, Trees
<1>10. \A m \in Ro!Names : Within(roHeads'[m])
  <2>1. ASSUME NEW m \in Ro!Names PROVE Within(roHeads'[m])
    <3>1. CASE m = n
      BY <1>1, <1>2, <3>1, NoTreeIs DEF Within
    <3>2. CASE m # n
      BY <1>1, <1>2, <3>2 DEF Within
    <3> QED BY <3>1, <3>2
  <2> QED BY <2>1
<1>11. Ro!HeadsHold'
  BY <1>1, <1>2 DEF Ro!HeadsHold
<1>12. Opened'
  BY <1>1, <1>2 DEF RoInv, Opened
<1> QED BY <1>1, <1>2, <1>8, <1>9, <1>10, <1>11, <1>12, NoTreeIs

\* The rest of what is invariant stands where the app's branch, the PRs, or what drift reminds of, change.
LEMMA OtherSteps ==
  ASSUME RoInv, UNCHANGED <<roRoll, roNight, roIssues>>, UNCHANGED roNix, roMain' \in Trees,
         Within(roMain'),
         roHeads' \in [Ro!Names -> Trees], roPrs' \in [Ro!Names -> {Ro!None, "open", "auto"}],
         roMain'.lock # 0, \A m \in Ro!Names : Within(roHeads'[m]), Ro!HeadsHold', Opened'
  PROVE  RoInv'
<1>1. RoTypes' /\ AllWithin'
  BY DEF RoInv, RoTypes, AllWithin, Within
<1>2. Going(roRoll)' /\ Current(roRoll)'
  BY DEF RoInv, Going, Current, Ahead, Profile, Reached
<1>3. OfRelease' /\ OfProfile'
  BY DEF RoInv, OfRelease, OfProfile
<1> QED BY <1>1, <1>2, <1>3 DEF RoInv

LEMMA RollMergeStep ==
  ASSUME RoInv, Ro!EnableAutoMerge
  PROVE  RoInv'
<1>1. UNCHANGED <<roNix, roNight, roIssues>> /\ roRoll' = Ro!Ends("ok") /\ roRoll.name \in Ro!Names
  BY DEF Ro!EnableAutoMerge, Ro!nightVars, RoInv, Going
<1>2. CASE /\ UNCHANGED <<roMain, roHeads>>
           /\ roPrs' = roPrs \/ (roPrs[roRoll.name] # Ro!None /\ roPrs' = [roPrs EXCEPT ![roRoll.name] = "auto"])
  <2>1. roPrs' \in [Ro!Names -> {Ro!None, "open", "auto"}] /\ Opened'
    BY <1>1, <1>2 DEF RoInv, RoTypes, Opened
  <2> QED BY <1>1, <1>2, <2>1, EndStep, SameHeads
<1>3. CASE Ro!Merged(roRoll.name)
  <2>1. PICK n \in Ro!Names : n = roRoll.name /\ Ro!Merged(n)
    BY <1>1, <1>3
  <2>2. /\ roMain' \in Trees /\ Within(roMain') /\ roMain'.lock # 0
        /\ roHeads' \in [Ro!Names -> Trees] /\ roPrs' \in [Ro!Names -> {Ro!None, "open", "auto"}]
        /\ \A m \in Ro!Names : Within(roHeads'[m])
        /\ Ro!HeadsHold' /\ Opened'
    BY <1>1, <2>1, MergeFacts
  <2>3. roRoll' \in Rolls /\ roRoll'.pc = "idle" /\ roRoll'.status = "ok" /\ roRoll'.tree = roRoll.tree
    BY <1>1 DEF Ro!Ends, RoInv, RoTypes, Rolls
  <2>4. RoTypes' /\ AllWithin'
    BY <1>1, <2>2, <2>3 DEF RoInv, RoTypes, AllWithin, Within
  <2>5. Going(roRoll)' /\ Current(roRoll)'
    BY <2>3 DEF Going, Current
  <2>6. OfRelease' /\ OfProfile'
    BY <1>1 DEF RoInv, OfRelease, OfProfile
  <2> QED BY <2>2, <2>4, <2>5, <2>6 DEF RoInv
<1> QED BY <1>2, <1>3 DEF Ro!EnableAutoMerge

LEMMA BesideStep ==
  ASSUME RoInv, Ro!Release \/ Ro!Fix \/ Ro!MergePr
  PROVE  RoInv'
<1>1. UNCHANGED <<roRoll, roNight, roIssues>> /\ roRoll \in Rolls
  BY DEF Ro!Release, Ro!Fix, Ro!MergePr, Ro!Other, Ro!Moves, Ro!nightVars, RoInv, RoTypes
<1>2. CASE Ro!Release
  <2>1. UNCHANGED <<roMain, roHeads, roPrs>>
    BY <1>2 DEF Ro!Release
  <2>2. roNix \in [tag : 1..2, branch : 1..2, profile : 1..2]
    BY DEF RoInv, RoTypes
  <2>3. /\ roNix' \in [tag : 1..2, branch : 1..2, profile : 1..2]
        /\ roNix'.branch >= roNix.branch /\ roNix'.profile >= roNix.profile
    <3>1. CASE roNix.tag < 2 /\ roNix' = [roNix EXCEPT !.tag = @ + 1]
      BY <2>2, <3>1
    <3>2. CASE roNix.branch < roNix.tag /\ roNix' = [roNix EXCEPT !.branch = roNix.tag]
      BY <2>2, <3>2
    <3>3. CASE roNix.profile < 2 /\ roNix' = [roNix EXCEPT !.profile = @ + 1]
      BY <2>2, <3>3
    <3> QED BY <1>2, <3>1, <3>2, <3>3 DEF Ro!Release
  <2>4. ASSUME NEW t \in Trees, Within(t) PROVE t.lock <= roNix'.branch /\ t.rev <= roNix'.profile
    BY <2>2, <2>3, <2>4 DEF Within, Trees
  <2>5. RoTypes' /\ roRoll.tree \in Trees
    BY <1>1, <2>1, <2>3 DEF RoInv, RoTypes, Rolls
  <2>6. AllWithin'
    BY <1>1, <2>1, <2>4, <2>5 DEF RoInv, RoTypes, AllWithin, Within
  <2>7. Going(roRoll)' /\ Current(roRoll)' /\ Ro!HeadsHold' /\ Opened'
    BY <1>1, <2>1 DEF RoInv, Going, Current, Ahead, Profile, Reached, Ro!HeadsHold, Opened
  <2>8. OfRelease' /\ OfProfile'
    BY <1>1 DEF RoInv, OfRelease, OfProfile
  <2> QED BY <2>5, <2>6, <2>7, <2>8 DEF RoInv
<1>3. CASE Ro!Fix
  <2>1. PICK n \in Ro!Names : roHeads' = [roHeads EXCEPT ![n].fixed = TRUE] /\ UNCHANGED <<roMain, roNix, roPrs>>
                              /\ roPrs[n] # Ro!None /\ ~roHeads[n].fixed
    BY <1>3 DEF Ro!Fix
  <2>2. roHeads \in [Ro!Names -> Trees] /\ roHeads[n] \in Trees /\
            roHeads' = [roHeads EXCEPT ![n] = [roHeads[n] EXCEPT !.fixed = TRUE]]
    BY <2>1 DEF RoInv, RoTypes
  <2> DEFINE t == [roHeads[n] EXCEPT !.fixed = TRUE]
  <2>3. t \in Trees /\ t.lock = roHeads[n].lock /\ t.rev = roHeads[n].rev
    BY <2>2 DEF Trees
  <2> HIDE DEF t
  <2>4. roHeads' \in [Ro!Names -> Trees] /\ roHeads'[n].lock = roHeads[n].lock /\
            roHeads'[n].rev = roHeads[n].rev
        /\ \A m \in Ro!Names \ {n} : roHeads'[m] = roHeads[m]
    BY <2>2, <2>3 DEF t
  <2>5. \A m \in Ro!Names : Within(roHeads'[m])
    BY <2>1, <2>4 DEF RoInv, AllWithin, Within
  <2>6. roHeads[n] # Ro!NoTree
    BY <2>1 DEF RoInv, Opened
  <2>7. Ro!HeadsHold'
    BY <2>4, <2>6 DEF RoInv, Ro!HeadsHold
  <2>8. roHeads'[n] # Ro!NoTree
    <3>1. t.fixed = TRUE /\ roHeads'[n] = t
      BY <2>2, <2>3 DEF t, Trees
    <3> QED BY <3>1 DEF Ro!NoTree, Ro!Tree
  <2>9. Opened'
    BY <2>1, <2>4, <2>8 DEF RoInv, Opened
  <2> QED BY <1>1, <2>1, <2>4, <2>5, <2>7, <2>9, OtherSteps DEF RoInv, RoTypes, AllWithin, Within
<1>4. CASE Ro!MergePr
  <2>1. PICK n \in Ro!Names : Ro!Merged(n)
    BY <1>4 DEF Ro!MergePr
  <2>2. UNCHANGED roNix
    BY <1>4 DEF Ro!MergePr
  <2> QED BY <1>1, <2>1, <2>2, MergeFacts, OtherSteps
<1> QED BY <1>2, <1>3, <1>4

LEMMA NightStep ==
  ASSUME RoInv, Ro!RemindRelease \/ Ro!RemindProfile \/ Ro!DriftFails
  PROVE  RoInv'
<1>1. UNCHANGED <<roMain, roNix, roHeads, roPrs, roRoll>>
  BY DEF Ro!RemindRelease, Ro!RemindProfile, Ro!DriftFails, Ro!Moves
<1>2. AllWithin' /\ Going(roRoll)' /\ Current(roRoll)' /\ Ro!HeadsHold' /\ Opened'
  BY <1>1 DEF RoInv, AllWithin, Within, Going, Current, Ahead, Profile, Reached, Ro!HeadsHold, Opened
<1>3. roMain \in Trees /\ roNix \in [tag : 1..2, branch : 1..2, profile : 1..2]
      /\ roNight \in [pc : {"idle", "profile"}, tree : Trees, latest : 0..2, head : 0..2] /\ OfRelease
  BY DEF RoInv, RoTypes
<1>4. CASE Ro!RemindRelease
  <2>1. /\ roNight' = [pc |-> "profile", tree |-> roMain, latest |-> roNix.tag, head |-> 0]
        /\ "release" \in roIssues' <=> roMain.lock < roNix.tag
    BY <1>4 DEF Ro!RemindRelease, Ro!KeepIssue
  <2>2. RoTypes'
    BY <1>1, <1>3, <2>1 DEF RoInv, RoTypes
  <2>3. OfRelease' /\ OfProfile'
    BY <2>1 DEF OfRelease, OfProfile
  <2> QED BY <1>2, <2>2, <2>3 DEF RoInv
<1>5. CASE Ro!RemindProfile
  <2>1. CASE roNight.tree.rev = 0 /\ roNight' = [roNight EXCEPT !.pc = "idle"] /\ UNCHANGED roIssues
    <3>1. RoTypes'
      BY <1>1, <1>3, <2>1 DEF RoInv, RoTypes
    <3>2. OfRelease' /\ OfProfile'
      BY <1>3, <2>1 DEF OfRelease, OfProfile
    <3> QED BY <1>2, <3>1, <3>2 DEF RoInv
  <2>2. CASE roNight' = [roNight EXCEPT !.pc = "idle", !.head = roNix.profile]
             /\ Ro!KeepIssue("profile", roNight.tree.rev # roNix.profile)
    <3>0. PICK head \in 0..2 : head = roNix.profile
      BY <1>3
    <3>1. /\ roNight'.tree = roNight.tree /\ roNight'.latest = roNight.latest
          /\ roNight'.head = roNix.profile
          /\ roNight' \in [pc : {"idle", "profile"}, tree : Trees, latest : 0..2, head : 0..2]
      <4>1. roNight' = [roNight EXCEPT !.pc = "idle", !.head = head]
        BY <2>2, <3>0
      <4> QED BY <1>3, <3>0, <4>1
    <3>2. /\ "release" \in roIssues' <=> "release" \in roIssues
          /\ "profile" \in roIssues' <=> roNight.tree.rev # roNix.profile
      BY <2>2 DEF Ro!KeepIssue
    <3>3. RoTypes'
      BY <1>1, <3>1 DEF RoInv, RoTypes
    <3>4. OfRelease' /\ OfProfile'
      BY <1>3, <3>1, <3>2 DEF OfRelease, OfProfile
    <3> QED BY <1>2, <3>3, <3>4 DEF RoInv
  <2> QED BY <1>5, <2>1, <2>2 DEF Ro!RemindProfile
<1>6. CASE Ro!DriftFails
  <2>1. roNight' = Ro!NoNight /\ Ro!NoNight.latest = 0
        /\ Ro!NoNight \in [pc : {"idle", "profile"}, tree : Trees, latest : 0..2, head : 0..2]
    BY <1>6, NoTreeIs DEF Ro!DriftFails, Ro!NoNight
  <2>2. RoTypes' /\ OfRelease' /\ OfProfile'
    BY <1>1, <2>1 DEF RoInv, RoTypes, OfRelease, OfProfile
  <2> QED BY <1>2, <2>2 DEF RoInv
<1> QED BY <1>4, <1>5, <1>6

LEMMA RoStep == RoInv /\ [Ro!Next]_Ro!vars => RoInv'
<1>1. ASSUME RoInv, UNCHANGED Ro!vars PROVE RoInv'
  BY <1>1, OtherSteps, SameHeads DEF Ro!vars, RoInv, RoTypes, AllWithin, Within
<1>2. ASSUME RoInv, NEW to \in 0..roNix.tag, NEW ref \in {Ro!None, "latest", "other"}, NEW auto \in BOOLEAN,
             Ro!RolloutOne(to, ref, auto)
      PROVE  RoInv'
  BY <1>2, StartStep DEF Refs
<1> QED BY <1>1, <1>2, RollUpdateStep, SyncStep, RollPushStep, CreateStep, RollMergeStep, StopStep,
        BesideStep, NightStep DEF Ro!Next

\* What the app is moved to is never behind what was cloned, and a profile that is built in stays so in a
\* rollout of one thing.
LEMMA RoSound == RoInv => Ro!RolloutSound
<1> SUFFICES ASSUME RoInv PROVE Ro!HeadsHold /\ Ro!CurrentIs /\ Ro!NoneBack /\ Ro!Reminded
  BY DEF Ro!RolloutSound
<1>1. Ro!NoneBack
  BY DEF RoInv, Going, Ahead, Ro!NoneBack
<1>2. Ro!CurrentIs
  BY DEF RoInv, Current, Ro!CurrentIs
<1>3. Ro!Reminded
  BY DEF RoInv, OfRelease, OfProfile, Ro!Reminded
<1> QED BY <1>1, <1>2, <1>3 DEF RoInv

LEMMA RoBuiltin == RoInv => Ro!BuiltinStep
<1> SUFFICES ASSUME RoInv, roRoll.pc = "push", roRoll.to = 0 \/ roRoll.ref = Ro!None
             PROVE  Ro!Org(roRoll.tree.profile) <=> Ro!Org(roRoll.cloned.profile)
  BY DEF Ro!BuiltinStep
<1>1. Profile(roRoll) /\ roRoll \in Rolls
  BY DEF RoInv, RoTypes, Going
<1> QED BY <1>1 DEF Profile

\* What a rollout pushes is what it was asked for and nothing older than it cloned; "current" is said
\* of a lock that is; the nightly reminders are right of the clone they were made of; and a rollout of
\* one thing leaves a built-in profile built in.
THEOREM RolloutHolds == Ro!Spec => []Ro!RolloutSound /\ [][Ro!BuiltinStep]_Ro!vars
<1>1. Ro!Spec => []RoInv
  BY RoInit, RoStep, PTL DEF Ro!Spec
<1> QED BY <1>1, RoSound, RoBuiltin, PTL DEF Ro!Spec
=============================================================================
