----------------------------- MODULE BenchProofs ------------------------------
(***************************************************************************)
(* Proofs about Bench, for any apps, revisions and commands, and any number *)
(* of runs, failures, interrupts and kills.                                *)
(***************************************************************************)
EXTENDS Bench, SequenceTheorems, TLAPS

(***************************************************************************)
(* The lists of steps that a job may have before it.                       *)
(***************************************************************************)
B   == <<"block">>
LB  == <<"lock", "block">>
RLB == <<"registry", "lock", "block">>
UB  == <<"unpin", "block">>
LUB == <<"lock", "unpin", "block">>
PLUB == <<"pin", "lock", "unpin", "block">>

\* What is left once the registry is written, and once the lock is.
Enlisted ==
  {<<"moved">>, <<"group", "pin", "lock", "unpin", "block">>, <<"root", "pin", "lock", "unpin", "block">>,
   PLUB, LUB, UB, LB, B, <<>>}
Resolved == {UB, B, <<>>}
\* What is left of a command's own steps before that.
Enlisting ==
  {<<"clone", "add", "register", "registry", "lock", "block">>,
   <<"add", "register", "registry", "lock", "block">>,
   <<"scaffold", "register", "registry", "lock", "block">>,
   <<"register", "registry", "lock", "block">>, RLB}
Removing ==
  {<<"deinit", "unlink", "section", "unregister", "registry", "lock", "block">>,
   <<"unlink", "section", "unregister", "registry", "lock", "block">>,
   <<"section", "unregister", "registry", "lock", "block">>,
   <<"backup", "unregister", "registry", "lock", "block">>,
   <<"unregister", "registry", "lock", "block">>}
Renaming ==
  {<<"move", "relink", "unregister", "register", "registry", "lock", "block">>,
   <<"relink", "unregister", "register", "registry", "lock", "block">>,
   <<"move", "unregister", "register", "registry", "lock", "block">>,
   <<"unregister", "register", "registry", "lock", "block">>}
Pulling == {<<"pull", "registry", "moved">>, <<"registry", "moved">>}
Leaving == {<<"unpin">>, <<"unpin", "putpy", "putlock">>, <<"putpy", "putlock">>, <<"putlock">>}
\* With a pin to put back.
Holding == {LUB, UB, <<"unpin">>, <<"unpin", "putpy", "putlock">>}

Plans == Enlisted \cup Enlisting \cup Removing \cup Renaming \cup Pulling \cup Leaving

(***************************************************************************)
(* The invariant.                                                          *)
(***************************************************************************)
Job == [cmd : Commands \cup {"none", "remove"}, app : Apps \cup {NoApp}, to : Apps \cup {NoApp},
        todo : Seq(StepNames), status : {"ok", "failed", "refused", "killed"},
        before : [Apps -> 0..MaxRev \cup {NoRev}], left : SUBSET Apps,
        kept : Pyprojects \X Locks, orig : Seq(Pyprojects)]

AppTypes ==
  /\ tree \in [Apps -> Trees] /\ rev \in [Apps -> 0..MaxRev]
  /\ modules \subseteq Apps /\ gitlink \subseteq Apps
FileTypes == py \in Pyprojects /\ lock \in Locks /\ registry \subseteq Rows
Counts ==
  /\ flake \in 0..MaxFlake /\ runs \in 0..MaxRuns /\ faults \in 0..MaxFaults
JobTypes ==
  /\ job \in Job /\ Len(job.orig) <= 1
  /\ ~Idle => job.app \in Apps /\ job.to \in Apps
Types == AppTypes /\ FileTypes /\ Counts /\ killed \in BOOLEAN /\ JobTypes

\* Where a job is in its list.
Planned ==
  /\ job.todo \in Plans
  /\ job.status = "ok" => job.todo \notin Leaving
  /\ job.status = "failed" => job.todo \in Leaving \cup {<<>>}
  /\ job.status \in {"refused", "killed"} => job.todo = <<>>
  /\ job.todo \in Pulling \cup {<<"moved">>} => job.cmd = "pull"
  /\ job.todo \in {<<"unpin", "putpy", "putlock">>, <<"putpy", "putlock">>, <<"putlock">>} => job.cmd = "sync"
  /\ job.todo = <<"unpin">> => job.cmd # "sync"

\* A pin that is held is about to be put back, and has changed nothing else.
PinHeld ==
  /\ job.orig # <<>> /\ (~Idle \/ ~killed) =>
       job.todo \in Holding /\ py = [job.orig[1] EXCEPT !.pinned = TRUE]
  /\ ~killed => /\ py.pinned => job.orig # <<>>
                /\ job.orig # <<>> => ~job.orig[1].pinned
                /\ ~job.kept[1].pinned

\* A root sync on its way out.
SyncKept ==
  job.cmd = "sync" /\ job.status = "failed" =>
    /\ job.todo = <<>> => <<py, lock>> = job.kept
    /\ job.todo = <<"putlock">> => py = job.kept[1]

\* The lock and the registry hold from the step that writes them to the last one.
LockHolds ==
  job.status = "ok" /\ job.cmd \in {"get", "new", "remove", "rename", "deps", "relock"} =>
    /\ job.todo \in Resolved => lock = Resolution
    /\ Idle => py.block = lock
RegistryHolds ==
  job.status = "ok" /\ job.cmd \in {"get", "new", "remove", "rename", "pull"} =>
    (job.todo \in Enlisted => registry = Registered)

IInv == Types /\ Planned /\ PinHeld /\ SyncKept /\ LockHolds /\ RegistryHolds

-----------------------------------------------------------------------------
(***************************************************************************)
(* The lists: what they start with, and what is left behind their head.    *)
(***************************************************************************)
Behind(p, q) ==
  \/ p = <<"clone", "add", "register", "registry", "lock", "block">> /\ q = <<"add", "register", "registry", "lock", "block">>
  \/ p = <<"add", "register", "registry", "lock", "block">> /\ q = <<"register", "registry", "lock", "block">>
  \/ p = <<"scaffold", "register", "registry", "lock", "block">> /\ q = <<"register", "registry", "lock", "block">>
  \/ p = <<"register", "registry", "lock", "block">> /\ q = <<"registry", "lock", "block">>
  \/ p = <<"registry", "lock", "block">> /\ q = <<"lock", "block">>
  \/ p = <<"deinit", "unlink", "section", "unregister", "registry", "lock", "block">> /\ q = <<"unlink", "section", "unregister", "registry", "lock", "block">>
  \/ p = <<"unlink", "section", "unregister", "registry", "lock", "block">> /\ q = <<"section", "unregister", "registry", "lock", "block">>
  \/ p = <<"section", "unregister", "registry", "lock", "block">> /\ q = <<"unregister", "registry", "lock", "block">>
  \/ p = <<"backup", "unregister", "registry", "lock", "block">> /\ q = <<"unregister", "registry", "lock", "block">>
  \/ p = <<"unregister", "registry", "lock", "block">> /\ q = <<"registry", "lock", "block">>
  \/ p = <<"move", "relink", "unregister", "register", "registry", "lock", "block">> /\ q = <<"relink", "unregister", "register", "registry", "lock", "block">>
  \/ p = <<"relink", "unregister", "register", "registry", "lock", "block">> /\ q = <<"unregister", "register", "registry", "lock", "block">>
  \/ p = <<"move", "unregister", "register", "registry", "lock", "block">> /\ q = <<"unregister", "register", "registry", "lock", "block">>
  \/ p = <<"unregister", "register", "registry", "lock", "block">> /\ q = <<"register", "registry", "lock", "block">>
  \/ p = <<"pull", "registry", "moved">> /\ q = <<"registry", "moved">>
  \/ p = <<"registry", "moved">> /\ q = <<"moved">>
  \/ p = <<"moved">> /\ q = <<>>
  \/ p = <<"group", "pin", "lock", "unpin", "block">> /\ q = <<"pin", "lock", "unpin", "block">>
  \/ p = <<"root", "pin", "lock", "unpin", "block">> /\ q = <<"pin", "lock", "unpin", "block">>
  \/ p = <<"pin", "lock", "unpin", "block">> /\ q = <<"lock", "unpin", "block">>
  \/ p = <<"lock", "unpin", "block">> /\ q = <<"unpin", "block">>
  \/ p = <<"unpin", "block">> /\ q = <<"block">>
  \/ p = <<"lock", "block">> /\ q = <<"block">>
  \/ p = <<"block">> /\ q = <<>>
  \/ p = <<"unpin", "putpy", "putlock">> /\ q = <<"putpy", "putlock">>
  \/ p = <<"unpin">> /\ q = <<>>
  \/ p = <<"putpy", "putlock">> /\ q = <<"putlock">>
  \/ p = <<"putlock">> /\ q = <<>>

LEMMA TailOf ==
  ASSUME NEW p \in Plans, p # <<>>
  PROVE  Behind(p, Tail(p))
<1>1. Tail(<<"clone", "add", "register", "registry", "lock", "block">>) = <<"add", "register", "registry", "lock", "block">>
  BY SMT
<1>2. Tail(<<"add", "register", "registry", "lock", "block">>) = <<"register", "registry", "lock", "block">>
  BY SMT
<1>3. Tail(<<"scaffold", "register", "registry", "lock", "block">>) = <<"register", "registry", "lock", "block">>
  BY SMT
<1>4. Tail(<<"register", "registry", "lock", "block">>) = <<"registry", "lock", "block">>
  BY SMT
<1>5. Tail(<<"registry", "lock", "block">>) = <<"lock", "block">>
  BY SMT
<1>6. Tail(<<"deinit", "unlink", "section", "unregister", "registry", "lock", "block">>) = <<"unlink", "section", "unregister", "registry", "lock", "block">>
  BY SMT
<1>7. Tail(<<"unlink", "section", "unregister", "registry", "lock", "block">>) = <<"section", "unregister", "registry", "lock", "block">>
  BY SMT
<1>8. Tail(<<"section", "unregister", "registry", "lock", "block">>) = <<"unregister", "registry", "lock", "block">>
  BY SMT
<1>9. Tail(<<"backup", "unregister", "registry", "lock", "block">>) = <<"unregister", "registry", "lock", "block">>
  BY SMT
<1>10. Tail(<<"unregister", "registry", "lock", "block">>) = <<"registry", "lock", "block">>
  BY SMT
<1>11. Tail(<<"move", "relink", "unregister", "register", "registry", "lock", "block">>) = <<"relink", "unregister", "register", "registry", "lock", "block">>
  BY SMT
<1>12. Tail(<<"relink", "unregister", "register", "registry", "lock", "block">>) = <<"unregister", "register", "registry", "lock", "block">>
  BY SMT
<1>13. Tail(<<"move", "unregister", "register", "registry", "lock", "block">>) = <<"unregister", "register", "registry", "lock", "block">>
  BY SMT
<1>14. Tail(<<"unregister", "register", "registry", "lock", "block">>) = <<"register", "registry", "lock", "block">>
  BY SMT
<1>15. Tail(<<"pull", "registry", "moved">>) = <<"registry", "moved">>
  BY SMT
<1>16. Tail(<<"registry", "moved">>) = <<"moved">>
  BY SMT
<1>17. Tail(<<"moved">>) = <<>>
  BY SMT
<1>18. Tail(<<"group", "pin", "lock", "unpin", "block">>) = <<"pin", "lock", "unpin", "block">>
  BY SMT
<1>19. Tail(<<"root", "pin", "lock", "unpin", "block">>) = <<"pin", "lock", "unpin", "block">>
  BY SMT
<1>20. Tail(<<"pin", "lock", "unpin", "block">>) = <<"lock", "unpin", "block">>
  BY SMT
<1>21. Tail(<<"lock", "unpin", "block">>) = <<"unpin", "block">>
  BY SMT
<1>22. Tail(<<"unpin", "block">>) = <<"block">>
  BY SMT
<1>23. Tail(<<"lock", "block">>) = <<"block">>
  BY SMT
<1>24. Tail(<<"block">>) = <<>>
  BY SMT
<1>25. Tail(<<"unpin", "putpy", "putlock">>) = <<"putpy", "putlock">>
  BY SMT
<1>26. Tail(<<"unpin">>) = <<>>
  BY SMT
<1>27. Tail(<<"putpy", "putlock">>) = <<"putlock">>
  BY SMT
<1>28. Tail(<<"putlock">>) = <<>>
  BY SMT
<1>29. CASE p \in Enlisted
  BY <1>29, <1>17, <1>18, <1>19, <1>20, <1>21, <1>22, <1>23, <1>24, Zenon DEF Behind, Enlisted, B, LB, UB, LUB, PLUB
<1>30. CASE p \in Enlisting
  BY <1>30, <1>1, <1>2, <1>3, <1>4, <1>5, Zenon DEF Behind, Enlisting, RLB
<1>31. CASE p \in Removing
  BY <1>31, <1>6, <1>7, <1>8, <1>9, <1>10, Zenon DEF Behind, Removing
<1>32. CASE p \in Renaming
  BY <1>32, <1>11, <1>12, <1>13, <1>14, Zenon DEF Behind, Renaming
<1>33. CASE p \in Pulling
  BY <1>33, <1>15, <1>16, Zenon DEF Behind, Pulling
<1>34. CASE p \in Leaving
  BY <1>34, <1>25, <1>26, <1>27, <1>28, Zenon DEF Behind, Leaving
<1> QED
  BY <1>29, <1>30, <1>31, <1>32, <1>33, <1>34 DEF Plans

LEMMA PlanSteps ==
  ASSUME NEW p \in Plans, NEW q, Behind(p, q)
  PROVE
    /\ q \in Plans
    /\ p \in Leaving => q \in Leaving \cup {<<>>} /\ Head(p) \in {"unpin", "putpy", "putlock"}
    /\ p \notin Leaving => q \notin Leaving /\ Head(p) \notin {"putpy", "putlock"}
    /\ q \in Pulling \cup {<<"moved">>} => p \in Pulling
    /\ q # <<"unpin">> /\ q # <<"unpin", "putpy", "putlock">>
    /\ q = <<"putpy", "putlock">> => p = <<"unpin", "putpy", "putlock">>
    /\ q = <<"putlock">> => p = <<"putpy", "putlock">>
    /\ p \in Enlisted => q \in Enlisted
    /\ p \in Enlisted => Head(p) \in {"moved", "group", "root", "pin", "lock", "unpin", "block"}
    /\ p \notin Enlisted /\ q \in Enlisted => p \in Leaving \/ Head(p) = "registry"
    /\ p \in Resolved => q \in Resolved /\ Head(p) \in {"unpin", "block"}
    /\ p \notin Resolved /\ q \in Resolved => p \in Leaving \/ Head(p) = "lock" \/ p = <<"moved">>
    /\ q = <<>> => p \in {<<"unpin">>, <<"putlock">>, <<"block">>, <<"moved">>}
    /\ p \in Holding => Head(p) \in {"lock", "unpin"}
    /\ p \in Holding /\ Head(p) = "unpin" => q \notin Holding
    /\ p \in Holding /\ Head(p) = "lock" => q \in Holding
    /\ p \notin Holding /\ q \in Holding => Head(p) = "pin"
    /\ Head(p) = "pin" => q \in Holding /\ q \notin Resolved
    /\ Head(p) = "putpy" => p = <<"putpy", "putlock">> /\ q = <<"putlock">>
    /\ Head(p) = "block" => p = <<"block">> /\ q = <<>>
    /\ Head(p) = "root" => p \in Enlisted /\ q \notin Resolved /\ q # <<>>
    /\ Head(p) = "putlock" => p = <<"putlock">> /\ q = <<>>
    /\ Head(p) = "moved" => p = <<"moved">>
    /\ Head(p) = "unpin" => p \in Holding
<1>1. q \in Plans
  BY SMT DEF Behind, Plans, Enlisted, Resolved, Enlisting, Removing, Renaming, Pulling, Leaving, Holding, B, LB, RLB, UB, LUB, PLUB
<1>2. p \in Leaving => q \in Leaving \cup {<<>>} /\ Head(p) \in {"unpin", "putpy", "putlock"}
  BY SMT DEF Behind, Plans, Enlisted, Resolved, Enlisting, Removing, Renaming, Pulling, Leaving, Holding, B, LB, RLB, UB, LUB, PLUB
<1>3. p \notin Leaving => q \notin Leaving /\ Head(p) \notin {"putpy", "putlock"}
  BY SMT DEF Behind, Plans, Enlisted, Resolved, Enlisting, Removing, Renaming, Pulling, Leaving, Holding, B, LB, RLB, UB, LUB, PLUB
<1>4. q \in Pulling \cup {<<"moved">>} => p \in Pulling
  BY SMT DEF Behind, Plans, Enlisted, Resolved, Enlisting, Removing, Renaming, Pulling, Leaving, Holding, B, LB, RLB, UB, LUB, PLUB
<1>5. q # <<"unpin">> /\ q # <<"unpin", "putpy", "putlock">>
  BY SMT DEF Behind, Plans, Enlisted, Resolved, Enlisting, Removing, Renaming, Pulling, Leaving, Holding, B, LB, RLB, UB, LUB, PLUB
<1>6. q = <<"putpy", "putlock">> => p = <<"unpin", "putpy", "putlock">>
  BY SMT DEF Behind, Plans, Enlisted, Resolved, Enlisting, Removing, Renaming, Pulling, Leaving, Holding, B, LB, RLB, UB, LUB, PLUB
<1>7. q = <<"putlock">> => p = <<"putpy", "putlock">>
  BY SMT DEF Behind, Plans, Enlisted, Resolved, Enlisting, Removing, Renaming, Pulling, Leaving, Holding, B, LB, RLB, UB, LUB, PLUB
<1>8. p \in Enlisted => q \in Enlisted
  BY SMT DEF Behind, Plans, Enlisted, Resolved, Enlisting, Removing, Renaming, Pulling, Leaving, Holding, B, LB, RLB, UB, LUB, PLUB
<1>9. p \in Enlisted => Head(p) \in {"moved", "group", "root", "pin", "lock", "unpin", "block"}
  BY SMT DEF Behind, Plans, Enlisted, Resolved, Enlisting, Removing, Renaming, Pulling, Leaving, Holding, B, LB, RLB, UB, LUB, PLUB
<1>10. p \notin Enlisted /\ q \in Enlisted => p \in Leaving \/ Head(p) = "registry"
  BY SMTT(40) DEF Behind, Plans, Enlisted, Resolved, Enlisting, Removing, Renaming, Pulling, Leaving, Holding, B, LB, RLB, UB, LUB, PLUB
<1>11. p \in Resolved => q \in Resolved /\ Head(p) \in {"unpin", "block"}
  BY SMT DEF Behind, Plans, Enlisted, Resolved, Enlisting, Removing, Renaming, Pulling, Leaving, Holding, B, LB, RLB, UB, LUB, PLUB
<1>12. p \notin Resolved /\ q \in Resolved => p \in Leaving \/ Head(p) = "lock" \/ p = <<"moved">>
  BY SMTT(40) DEF Behind, Plans, Enlisted, Resolved, Enlisting, Removing, Renaming, Pulling, Leaving, Holding, B, LB, RLB, UB, LUB, PLUB
<1>13. q = <<>> => p \in {<<"unpin">>, <<"putlock">>, <<"block">>, <<"moved">>}
  BY SMT DEF Behind, Plans, Enlisted, Resolved, Enlisting, Removing, Renaming, Pulling, Leaving, Holding, B, LB, RLB, UB, LUB, PLUB
<1>14. p \in Holding => Head(p) \in {"lock", "unpin"}
  BY SMT DEF Behind, Plans, Enlisted, Resolved, Enlisting, Removing, Renaming, Pulling, Leaving, Holding, B, LB, RLB, UB, LUB, PLUB
<1>15. p \in Holding /\ Head(p) = "unpin" => q \notin Holding
  BY SMT DEF Behind, Plans, Enlisted, Resolved, Enlisting, Removing, Renaming, Pulling, Leaving, Holding, B, LB, RLB, UB, LUB, PLUB
<1>16. p \in Holding /\ Head(p) = "lock" => q \in Holding
  BY SMT DEF Behind, Plans, Enlisted, Resolved, Enlisting, Removing, Renaming, Pulling, Leaving, Holding, B, LB, RLB, UB, LUB, PLUB
<1>17. p \notin Holding /\ q \in Holding => Head(p) = "pin"
  BY SMT DEF Behind, Plans, Enlisted, Resolved, Enlisting, Removing, Renaming, Pulling, Leaving, Holding, B, LB, RLB, UB, LUB, PLUB
<1>18. Head(p) = "pin" => q \in Holding /\ q \notin Resolved
  BY SMT DEF Behind, Plans, Enlisted, Resolved, Enlisting, Removing, Renaming, Pulling, Leaving, Holding, B, LB, RLB, UB, LUB, PLUB
<1>19. Head(p) = "putpy" => p = <<"putpy", "putlock">> /\ q = <<"putlock">>
  BY SMT DEF Behind, Plans, Enlisted, Resolved, Enlisting, Removing, Renaming, Pulling, Leaving, Holding, B, LB, RLB, UB, LUB, PLUB
<1>20. Head(p) = "block" => p = <<"block">> /\ q = <<>>
  BY SMT DEF Behind, Plans, Enlisted, Resolved, Enlisting, Removing, Renaming, Pulling, Leaving, Holding, B, LB, RLB, UB, LUB, PLUB
<1>21. Head(p) = "root" => p \in Enlisted /\ q \notin Resolved /\ q # <<>>
  BY SMT DEF Behind, Plans, Enlisted, Resolved, Enlisting, Removing, Renaming, Pulling, Leaving, Holding, B, LB, RLB, UB, LUB, PLUB
<1>22. Head(p) = "putlock" => p = <<"putlock">> /\ q = <<>>
  BY SMT DEF Behind, Plans, Enlisted, Resolved, Enlisting, Removing, Renaming, Pulling, Leaving, Holding, B, LB, RLB, UB, LUB, PLUB
<1>23. Head(p) = "moved" => p = <<"moved">>
  BY SMT DEF Behind, Plans, Enlisted, Resolved, Enlisting, Removing, Renaming, Pulling, Leaving, Holding, B, LB, RLB, UB, LUB, PLUB
<1>24. Head(p) = "unpin" => p \in Holding
  BY SMT DEF Behind, Plans, Enlisted, Resolved, Enlisting, Removing, Renaming, Pulling, Leaving, Holding, B, LB, RLB, UB, LUB, PLUB
<1> QED
  BY <1>1, <1>2, <1>3, <1>4, <1>5, <1>6, <1>7, <1>8, <1>9, <1>10, <1>11, <1>12, <1>13, <1>14, <1>15, <1>16, <1>17, <1>18, <1>19, <1>20, <1>21, <1>22, <1>23, <1>24

LEMMA ConcatIs ==
  ASSUME NEW S, NEW s \in Seq(S), NEW t \in Seq(S), NEW u \in Seq(S), Len(u) = Len(s) + Len(t),
         \A i \in 1 .. Len(s) : u[i] = s[i], \A i \in 1 .. Len(t) : u[Len(s) + i] = t[i]
  PROVE  s \o t = u
<1>1. s \o t \in Seq(S) /\ Len(s \o t) = Len(s) + Len(t)
  BY ConcatProperties
<1>2. \A i \in 1 .. Len(u) : (s \o t)[i] = u[i]
  <2> SUFFICES ASSUME NEW i \in 1 .. Len(u) PROVE (s \o t)[i] = u[i]
    OBVIOUS
  <2>1. Len(s) \in Nat /\ Len(t) \in Nat
    BY LenProperties
  <2>2. CASE i <= Len(s)
    BY <2>1, <2>2, ConcatProperties, SMT
  <2>3. CASE i > Len(s)
    <3>1. i - Len(s) \in 1 .. Len(t) /\ i = Len(s) + (i - Len(s))
      BY <2>1, <2>3, SMT
    <3> QED
      BY <2>1, <2>3, <3>1, ConcatProperties, SMT
  <2> QED
    BY <2>1, <2>2, <2>3, SMT
<1> QED
  BY <1>1, <1>2, SeqEqual

LEMMA Concat11 ==
  ASSUME NEW a, NEW b
  PROVE  <<a>> \o <<b>> = <<a, b>>
<1> DEFINE s == <<a>>
           t == <<b>>
           u == <<a, b>>
           S == {a, b}
<1>1. s \in Seq(S) /\ t \in Seq(S) /\ u \in Seq(S)
  BY SMT
<1>2. Len(s) = 1 /\ Len(t) = 1 /\ Len(u) = 2
  BY SMT
<1>3. \A i \in 1 .. 1 : u[i] = s[i]
  BY SMT
<1>4. \A i \in 1 .. 1 : u[1 + i] = t[i]
  BY SMT
<1> HIDE DEF s, t, u, S
<1>5. /\ Len(u) = Len(s) + Len(t)
      /\ \A i \in 1 .. Len(s) : u[i] = s[i]
      /\ \A i \in 1 .. Len(t) : u[Len(s) + i] = t[i]
  BY <1>2, <1>3, <1>4, SMT
<1>6. s \o t = u
  BY <1>1, <1>5, ConcatIs
<1> QED
  BY <1>6 DEF s, t, u

LEMMA Concat12 ==
  ASSUME NEW a, NEW b, NEW c
  PROVE  <<a>> \o <<b, c>> = <<a, b, c>>
<1> DEFINE s == <<a>>
           t == <<b, c>>
           u == <<a, b, c>>
           S == {a, b, c}
<1>1. s \in Seq(S) /\ t \in Seq(S) /\ u \in Seq(S)
  BY SMT
<1>2. Len(s) = 1 /\ Len(t) = 2 /\ Len(u) = 3
  BY SMT
<1>3. \A i \in 1 .. 1 : u[i] = s[i]
  BY SMT
<1>4. \A i \in 1 .. 2 : u[1 + i] = t[i]
  BY SMT
<1> HIDE DEF s, t, u, S
<1>5. /\ Len(u) = Len(s) + Len(t)
      /\ \A i \in 1 .. Len(s) : u[i] = s[i]
      /\ \A i \in 1 .. Len(t) : u[Len(s) + i] = t[i]
  BY <1>2, <1>3, <1>4, SMT
<1>6. s \o t = u
  BY <1>1, <1>5, ConcatIs
<1> QED
  BY <1>6 DEF s, t, u

LEMMA Concat14 ==
  ASSUME NEW a, NEW b, NEW c, NEW d, NEW e
  PROVE  <<a>> \o <<b, c, d, e>> = <<a, b, c, d, e>>
<1> DEFINE s == <<a>>
           t == <<b, c, d, e>>
           u == <<a, b, c, d, e>>
           S == {a, b, c, d, e}
<1>1. s \in Seq(S) /\ t \in Seq(S) /\ u \in Seq(S)
  BY SMT
<1>2. Len(s) = 1 /\ Len(t) = 4 /\ Len(u) = 5
  BY SMT
<1>3. \A i \in 1 .. 1 : u[i] = s[i]
  BY SMT
<1>4. \A i \in 1 .. 4 : u[1 + i] = t[i]
  BY SMT
<1> HIDE DEF s, t, u, S
<1>5. /\ Len(u) = Len(s) + Len(t)
      /\ \A i \in 1 .. Len(s) : u[i] = s[i]
      /\ \A i \in 1 .. Len(t) : u[Len(s) + i] = t[i]
  BY <1>2, <1>3, <1>4, SMT
<1>6. s \o t = u
  BY <1>1, <1>5, ConcatIs
<1> QED
  BY <1>6 DEF s, t, u

LEMMA Concat21 ==
  ASSUME NEW a, NEW b, NEW c
  PROVE  <<a, b>> \o <<c>> = <<a, b, c>>
<1> DEFINE s == <<a, b>>
           t == <<c>>
           u == <<a, b, c>>
           S == {a, b, c}
<1>1. s \in Seq(S) /\ t \in Seq(S) /\ u \in Seq(S)
  BY SMT
<1>2. Len(s) = 2 /\ Len(t) = 1 /\ Len(u) = 3
  BY SMT
<1>3. \A i \in 1 .. 2 : u[i] = s[i]
  BY SMT
<1>4. \A i \in 1 .. 1 : u[2 + i] = t[i]
  BY SMT
<1> HIDE DEF s, t, u, S
<1>5. /\ Len(u) = Len(s) + Len(t)
      /\ \A i \in 1 .. Len(s) : u[i] = s[i]
      /\ \A i \in 1 .. Len(t) : u[Len(s) + i] = t[i]
  BY <1>2, <1>3, <1>4, SMT
<1>6. s \o t = u
  BY <1>1, <1>5, ConcatIs
<1> QED
  BY <1>6 DEF s, t, u

LEMMA Concat22 ==
  ASSUME NEW a, NEW b, NEW c, NEW d
  PROVE  <<a, b>> \o <<c, d>> = <<a, b, c, d>>
<1> DEFINE s == <<a, b>>
           t == <<c, d>>
           u == <<a, b, c, d>>
           S == {a, b, c, d}
<1>1. s \in Seq(S) /\ t \in Seq(S) /\ u \in Seq(S)
  BY SMT
<1>2. Len(s) = 2 /\ Len(t) = 2 /\ Len(u) = 4
  BY SMT
<1>3. \A i \in 1 .. 2 : u[i] = s[i]
  BY SMT
<1>4. \A i \in 1 .. 2 : u[2 + i] = t[i]
  BY SMT
<1> HIDE DEF s, t, u, S
<1>5. /\ Len(u) = Len(s) + Len(t)
      /\ \A i \in 1 .. Len(s) : u[i] = s[i]
      /\ \A i \in 1 .. Len(t) : u[Len(s) + i] = t[i]
  BY <1>2, <1>3, <1>4, SMT
<1>6. s \o t = u
  BY <1>1, <1>5, ConcatIs
<1> QED
  BY <1>6 DEF s, t, u

LEMMA Concat32 ==
  ASSUME NEW a, NEW b, NEW c, NEW d, NEW e
  PROVE  <<a, b, c>> \o <<d, e>> = <<a, b, c, d, e>>
<1> DEFINE s == <<a, b, c>>
           t == <<d, e>>
           u == <<a, b, c, d, e>>
           S == {a, b, c, d, e}
<1>1. s \in Seq(S) /\ t \in Seq(S) /\ u \in Seq(S)
  BY SMT
<1>2. Len(s) = 3 /\ Len(t) = 2 /\ Len(u) = 5
  BY SMT
<1>3. \A i \in 1 .. 3 : u[i] = s[i]
  BY SMT
<1>4. \A i \in 1 .. 2 : u[3 + i] = t[i]
  BY SMT
<1> HIDE DEF s, t, u, S
<1>5. /\ Len(u) = Len(s) + Len(t)
      /\ \A i \in 1 .. Len(s) : u[i] = s[i]
      /\ \A i \in 1 .. Len(t) : u[Len(s) + i] = t[i]
  BY <1>2, <1>3, <1>4, SMT
<1>6. s \o t = u
  BY <1>1, <1>5, ConcatIs
<1> QED
  BY <1>6 DEF s, t, u

LEMMA Concat42 ==
  ASSUME NEW a, NEW b, NEW c, NEW d, NEW e, NEW f
  PROVE  <<a, b, c, d>> \o <<e, f>> = <<a, b, c, d, e, f>>
<1> DEFINE s == <<a, b, c, d>>
           t == <<e, f>>
           u == <<a, b, c, d, e, f>>
           S == {a, b, c, d, e, f}
<1>1. s \in Seq(S) /\ t \in Seq(S) /\ u \in Seq(S)
  BY SMT
<1>2. Len(s) = 4 /\ Len(t) = 2 /\ Len(u) = 6
  BY SMT
<1>3. \A i \in 1 .. 4 : u[i] = s[i]
  BY SMT
<1>4. \A i \in 1 .. 2 : u[4 + i] = t[i]
  BY SMT
<1> HIDE DEF s, t, u, S
<1>5. /\ Len(u) = Len(s) + Len(t)
      /\ \A i \in 1 .. Len(s) : u[i] = s[i]
      /\ \A i \in 1 .. Len(t) : u[Len(s) + i] = t[i]
  BY <1>2, <1>3, <1>4, SMT
<1>6. s \o t = u
  BY <1>1, <1>5, ConcatIs
<1> QED
  BY <1>6 DEF s, t, u

LEMMA Concat52 ==
  ASSUME NEW a, NEW b, NEW c, NEW d, NEW e, NEW f, NEW g
  PROVE  <<a, b, c, d, e>> \o <<f, g>> = <<a, b, c, d, e, f, g>>
<1> DEFINE s == <<a, b, c, d, e>>
           t == <<f, g>>
           u == <<a, b, c, d, e, f, g>>
           S == {a, b, c, d, e, f, g}
<1>1. s \in Seq(S) /\ t \in Seq(S) /\ u \in Seq(S)
  BY SMT
<1>2. Len(s) = 5 /\ Len(t) = 2 /\ Len(u) = 7
  BY SMT
<1>3. \A i \in 1 .. 5 : u[i] = s[i]
  BY SMT
<1>4. \A i \in 1 .. 2 : u[5 + i] = t[i]
  BY SMT
<1> HIDE DEF s, t, u, S
<1>5. /\ Len(u) = Len(s) + Len(t)
      /\ \A i \in 1 .. Len(s) : u[i] = s[i]
      /\ \A i \in 1 .. Len(t) : u[Len(s) + i] = t[i]
  BY <1>2, <1>3, <1>4, SMT
<1>6. s \o t = u
  BY <1>1, <1>5, ConcatIs
<1> QED
  BY <1>6 DEF s, t, u


\* What each command has before it when it starts.
LEMMA CommandPlans ==
  /\ GetApp = <<"clone", "add", "register", "registry", "lock", "block">>
  /\ NewApp = <<"scaffold", "register", "registry", "lock", "block">>
  /\ \A kind \in {"submodule", "uninitialized", "local", "unknown"} : RemoveApp(kind) \in Removing
  /\ \A kind : RenameApp(kind) \in Renaming
  /\ UpdateDeps = <<"group", "pin", "lock", "unpin", "block">>
  /\ Relock = <<"root", "pin", "lock", "unpin", "block">>
<1>1. GetApp = <<"clone", "add", "register", "registry", "lock", "block">>
  <2>11. <<"clone", "add">> \o <<"register", "registry">> = <<"clone", "add", "register", "registry">>
    BY Concat22
  <2>12. <<"clone", "add", "register", "registry">> \o <<"lock", "block">> = <<"clone", "add", "register", "registry", "lock", "block">>
    BY Concat42
  <2> QED
    BY <2>11, <2>12, Zenon DEF GetApp, Workspace, Locking
<1>2. NewApp = <<"scaffold", "register", "registry", "lock", "block">>
  <2>11. <<"scaffold">> \o <<"register", "registry">> = <<"scaffold", "register", "registry">>
    BY Concat12
  <2>12. <<"scaffold", "register", "registry">> \o <<"lock", "block">> = <<"scaffold", "register", "registry", "lock", "block">>
    BY Concat32
  <2> QED
    BY <2>11, <2>12, Zenon DEF NewApp, Workspace, Locking
<1>3. ASSUME NEW kind \in {"submodule", "uninitialized", "local", "unknown"} PROVE RemoveApp(kind) \in Removing
  <2>1. CASE kind = "submodule"
    <3>1. RemoveApp(kind) = <<"deinit", "unlink", "section">> \o <<"unregister", "registry">> \o Locking
      BY <2>1, SMT DEF RemoveApp
    <3>11. <<"deinit", "unlink", "section">> \o <<"unregister", "registry">> = <<"deinit", "unlink", "section", "unregister", "registry">>
      BY Concat32
    <3>12. <<"deinit", "unlink", "section", "unregister", "registry">> \o <<"lock", "block">> = <<"deinit", "unlink", "section", "unregister", "registry", "lock", "block">>
      BY Concat52
    <3> QED
      BY <3>1, <3>11, <3>12, Zenon DEF Locking, Removing
  <2>2. CASE kind = "uninitialized"
    <3>1. RemoveApp(kind) = <<"unlink", "section">> \o <<"unregister", "registry">> \o Locking
      BY <2>2, SMT DEF RemoveApp
    <3>11. <<"unlink", "section">> \o <<"unregister", "registry">> = <<"unlink", "section", "unregister", "registry">>
      BY Concat22
    <3>12. <<"unlink", "section", "unregister", "registry">> \o <<"lock", "block">> = <<"unlink", "section", "unregister", "registry", "lock", "block">>
      BY Concat42
    <3> QED
      BY <3>1, <3>11, <3>12, Zenon DEF Locking, Removing
  <2>3. CASE kind = "local"
    <3>1. RemoveApp(kind) = <<"backup">> \o <<"unregister", "registry">> \o Locking
      BY <2>3, SMT DEF RemoveApp
    <3>11. <<"backup">> \o <<"unregister", "registry">> = <<"backup", "unregister", "registry">>
      BY Concat12
    <3>12. <<"backup", "unregister", "registry">> \o <<"lock", "block">> = <<"backup", "unregister", "registry", "lock", "block">>
      BY Concat32
    <3> QED
      BY <3>1, <3>11, <3>12, Zenon DEF Locking, Removing
  <2>4. CASE kind = "unknown"
    <3>1. RemoveApp(kind) = <<>> \o <<"unregister", "registry">> \o Locking
      BY <2>4, SMT DEF RemoveApp
    <3>2. <<>> \o <<"unregister", "registry">> = <<"unregister", "registry">>
      <4>1. <<"unregister", "registry">> \in Seq({"unregister", "registry"})
        BY SMT
      <4> QED
        BY <4>1, ConcatEmptySeq
    <3>11. <<"unregister", "registry">> \o <<"lock", "block">> = <<"unregister", "registry", "lock", "block">>
      BY Concat22
    <3> QED
      BY <3>1, <3>2, <3>11, Zenon DEF Locking, Removing
  <2> QED
    BY <2>1, <2>2, <2>3, <2>4
<1>4. ASSUME NEW kind PROVE RenameApp(kind) \in Renaming
  <2>1. CASE kind = "submodule"
    <3>11. <<"move", "relink">> \o <<"unregister">> = <<"move", "relink", "unregister">>
      BY Concat21
    <3>12. <<"move", "relink", "unregister">> \o <<"register", "registry">> = <<"move", "relink", "unregister", "register", "registry">>
      BY Concat32
    <3>13. <<"move", "relink", "unregister", "register", "registry">> \o <<"lock", "block">> = <<"move", "relink", "unregister", "register", "registry", "lock", "block">>
      BY Concat52
    <3> QED
      BY <2>1, <3>11, <3>12, <3>13, Zenon DEF RenameApp, Workspace, Locking, Renaming
  <2>2. CASE kind # "submodule"
    <3>11. <<"move">> \o <<"unregister">> = <<"move", "unregister">>
      BY Concat11
    <3>12. <<"move", "unregister">> \o <<"register", "registry">> = <<"move", "unregister", "register", "registry">>
      BY Concat22
    <3>13. <<"move", "unregister", "register", "registry">> \o <<"lock", "block">> = <<"move", "unregister", "register", "registry", "lock", "block">>
      BY Concat42
    <3> QED
      BY <2>2, <3>11, <3>12, <3>13, Zenon DEF RenameApp, Workspace, Locking, Renaming
  <2> QED
    BY <2>1, <2>2
<1>5. /\ UpdateDeps = <<"group", "pin", "lock", "unpin", "block">>
      /\ Relock = <<"root", "pin", "lock", "unpin", "block">>
  BY Concat14, Zenon DEF UpdateDeps, Relock, Relocking
<1> QED
  BY <1>1, <1>2, <1>3, <1>4, <1>5

LEMMA StepsPlan ==
  ASSUME NEW cmd \in Commands \cup {"remove"}, NEW a \in Apps, NEW n \in Apps, Accepted(cmd, a, n)
  PROVE  /\ Steps(cmd, a) \in Plans
         /\ Steps(cmd, a) \notin Leaving \cup Holding \cup Resolved
         /\ Steps(cmd, a) \in Pulling \cup {<<"moved">>} => cmd = "pull"
         /\ Steps(cmd, a) \in Enlisted => cmd \in {"deps", "relock", "sync"}
<1> DEFINE Start_(p) == /\ p \in Plans /\ p \notin Leaving \cup Holding \cup Resolved
                        /\ p \in Pulling \cup {<<"moved">>} => cmd = "pull"
                        /\ p \in Enlisted => cmd \in {"deps", "relock", "sync"}
<1>1. CASE cmd = "get"
  <2>1. Steps(cmd, a) = <<"clone", "add", "register", "registry", "lock", "block">>
    BY <1>1, CommandPlans, SMT DEF Steps
  <2> QED
    BY <2>1, SMT DEF Plans, Enlisted, Resolved, Enlisting, Removing, Renaming, Pulling, Leaving, Holding, B, LB, RLB, UB, LUB, PLUB
<1>2. CASE cmd = "new"
  <2>1. Steps(cmd, a) = <<"scaffold", "register", "registry", "lock", "block">>
    BY <1>2, CommandPlans, SMT DEF Steps
  <2> QED
    BY <2>1, SMT DEF Plans, Enlisted, Resolved, Enlisting, Removing, Renaming, Pulling, Leaving, Holding, B, LB, RLB, UB, LUB, PLUB
<1>3. CASE cmd = "remove"
  <2>1. Kind(a) \in {"submodule", "uninitialized", "local", "unknown"}
    BY <1>3, SMT DEF Accepted, CanRemove, Kind
  <2>2. Steps(cmd, a) = RemoveApp(Kind(a))
    BY <1>3, SMT DEF Steps
  <2>3. Steps(cmd, a) \in Removing
    BY <2>1, <2>2, CommandPlans, Zenon
  <2> QED
    BY <2>3, SMT DEF Plans, Enlisted, Resolved, Enlisting, Removing, Renaming, Pulling, Leaving, Holding, B, LB, RLB, UB, LUB, PLUB
<1>4. CASE cmd = "rename"
  <2>1. Steps(cmd, a) = RenameApp(Kind(a))
    BY <1>4, SMT DEF Steps
  <2>2. Steps(cmd, a) \in Renaming
    BY <2>1, CommandPlans, Zenon
  <2> QED
    BY <2>2, SMT DEF Plans, Enlisted, Resolved, Enlisting, Removing, Renaming, Pulling, Leaving, Holding, B, LB, RLB, UB, LUB, PLUB
<1>5. CASE cmd = "pull"
  <2>1. Steps(cmd, a) = <<"pull", "registry", "moved">>
    BY <1>5, SMT DEF Steps, Pull
  <2> QED
    BY <1>5, <2>1, SMT DEF Plans, Enlisted, Resolved, Enlisting, Removing, Renaming, Pulling, Leaving, Holding, B, LB, RLB, UB, LUB, PLUB
<1>6. CASE cmd = "deps"
  <2>1. Steps(cmd, a) = <<"group", "pin", "lock", "unpin", "block">>
    BY <1>6, CommandPlans, SMT DEF Steps
  <2> QED
    BY <1>6, <2>1, SMT DEF Plans, Enlisted, Resolved, Enlisting, Removing, Renaming, Pulling, Leaving, Holding, B, LB, RLB, UB, LUB, PLUB
<1>7. CASE cmd \in {"relock", "sync"}
  <2>1. Steps(cmd, a) = <<"root", "pin", "lock", "unpin", "block">>
    BY <1>7, CommandPlans, SMT DEF Steps, RootSync, Relock
  <2> QED
    BY <1>7, <2>1, SMT DEF Plans, Enlisted, Resolved, Enlisting, Removing, Renaming, Pulling, Leaving, Holding, B, LB, RLB, UB, LUB, PLUB
<1> QED
  BY <1>1, <1>2, <1>3, <1>4, <1>5, <1>6, <1>7, BenchAssumption, SMT

-----------------------------------------------------------------------------
(***************************************************************************)
(* The steps.                                                              *)
(***************************************************************************)
\* A step is taken off the list, and nothing else of the job changes.
LEMMA Advance ==
  ASSUME JobTypes, Planned, ~Idle, Next1
  PROVE  /\ Behind(job.todo, job'.todo) /\ job.todo \in Plans
         /\ job'.cmd = job.cmd /\ job'.app = job.app /\ job'.to = job.to /\ job'.status = job.status
         /\ job'.before = job.before /\ job'.left = job.left /\ job'.kept = job.kept /\ job'.orig = job.orig
         /\ job.app \in Apps /\ job.to \in Apps
         /\ JobTypes'
<1>1. /\ job'.todo = Tail(job.todo)
      /\ job'.cmd = job.cmd /\ job'.app = job.app /\ job'.to = job.to /\ job'.status = job.status
      /\ job'.before = job.before /\ job'.left = job.left /\ job'.kept = job.kept /\ job'.orig = job.orig
  BY SMT DEF JobTypes, Job, Next1
<1>2. Behind(job.todo, job'.todo)
  BY <1>1, TailOf, Zenon DEF Planned, Idle
<1>3. Tail(job.todo) \in Seq(StepNames)
  <2>1. job.todo \in Seq(StepNames) /\ job.todo # <<>>
    BY SMT DEF JobTypes, Job, Idle
  <2> QED
    BY <2>1, HeadTailProperties
<1>4. job' \in Job
  BY <1>3, Zenon DEF JobTypes, Job, Next1
<1> QED
  BY <1>1, <1>2, <1>4, SMT DEF JobTypes, Planned, Idle

\* Where the list stands behind such a step.
LEMMA AdvancePlanned ==
  ASSUME JobTypes, Planned, ~Idle, Next1
  PROVE  Planned'
<1>1. /\ Behind(job.todo, job'.todo) /\ job.todo \in Plans
      /\ job'.cmd = job.cmd /\ job'.status = job.status /\ job.todo # <<>>
  BY Advance DEF Idle
<1>2. /\ job'.todo \in Plans
      /\ job.todo \in Leaving => job'.todo \in Leaving \cup {<<>>}
      /\ job.todo \notin Leaving => job'.todo \notin Leaving
      /\ job'.todo \in Pulling \cup {<<"moved">>} => job.todo \in Pulling
      /\ job'.todo # <<"unpin">> /\ job'.todo # <<"unpin", "putpy", "putlock">>
      /\ job'.todo = <<"putpy", "putlock">> => job.todo = <<"unpin", "putpy", "putlock">>
      /\ job'.todo = <<"putlock">> => job.todo = <<"putpy", "putlock">>
  BY <1>1, PlanSteps, Zenon
<1> QED
  BY <1>1, <1>2, Zenon DEF Planned

\* What the lock is resolved from, and what the registry names.
LEMMA SameResolution ==
  ASSUME UNCHANGED rev, py'.members = py.members, py'.group = py.group, py'.root = py.root
  PROVE  Resolution' = Resolution
  BY DEF Resolution, Taken

LEMMA SameRegistered ==
  ASSUME UNCHANGED <<tree, rev>>, py'.members = py.members
  PROVE  Registered' = Registered
  BY DEF Registered, Taken, Readable

LEMMA TakenRows ==
  ASSUME AppTypes, NEW S \in SUBSET Apps
  PROVE  Taken(S) \subseteq Rows
  BY SMT DEF AppTypes, Taken, Rows

LEMMA PyWith ==
  ASSUME NEW p \in Pyprojects, NEW S \in SUBSET Apps, NEW G \in SUBSET Rows
  PROVE  /\ [p EXCEPT !.members = S, !.group = G] \in Pyprojects
         /\ [p EXCEPT !.members = S, !.group = G].pinned = p.pinned
         /\ [p EXCEPT !.members = S, !.group = G].members = S
<1>1. [p EXCEPT !.members = S, !.group = G] \in Pyprojects
  BY Zenon DEF Pyprojects
<1>2. [p EXCEPT !.members = S, !.group = G].pinned = p.pinned
  BY Zenon DEF Pyprojects
<1>3. [p EXCEPT !.members = S, !.group = G].members = S
  BY Zenon DEF Pyprojects
<1> QED
  BY <1>1, <1>2, <1>3

LEMMA DevRows ==
  ASSUME AppTypes, FileTypes, NEW S \in SUBSET Apps
  PROVE  BenchDev(S) \subseteq Rows
<1>1. py.group \subseteq Rows
  BY SMT DEF FileTypes, Pyprojects
<1> QED
  BY <1>1, TakenRows, Zenon DEF BenchDev

\* The steps on an app's directory come before the registry is written.
Digging == {"clone", "add", "scaffold", "deinit", "unlink", "section", "backup", "move", "relink"}

LEMMA DigKeeps ==
  ASSUME IInv, ~Idle, Next1, Head(job.todo) \in Digging, AppTypes',
         UNCHANGED <<py, lock, registry, flake, runs, faults, killed>>
  PROVE  IInv'
<1> USE DEF IInv, Types
<1>1. /\ Behind(job.todo, job'.todo) /\ job.todo \in Plans /\ job.todo # <<>>
      /\ job'.cmd = job.cmd /\ job'.status = job.status /\ job'.kept = job.kept /\ job'.orig = job.orig
      /\ JobTypes' /\ Planned'
  BY Advance, AdvancePlanned DEF Idle
<1>2. /\ job.todo \notin Leaving \cup Holding \cup Enlisted \cup Resolved
      /\ job.todo # <<"moved">>
      /\ job'.todo \notin Holding \cup Enlisted \cup Resolved /\ job'.todo # <<>>
  <2>1. job.todo \notin Leaving \cup Holding \cup Enlisted \cup Resolved /\ job.todo # <<"moved">>
    BY <1>1, PlanSteps, SMT DEF Digging
  <2> QED
    BY <1>1, <2>1, PlanSteps, SMT DEF Digging
<1>3. FileTypes' /\ Counts' /\ (killed \in BOOLEAN)'
  BY Zenon DEF FileTypes, Counts
<1>4. PinHeld'
  BY <1>1, <1>2, Zenon DEF PinHeld, Idle
<1>5. job.status # "failed" /\ job'.todo \notin Leaving
  BY <1>1, <1>2, PlanSteps, SMT DEF Planned
<1>6. SyncKept' /\ LockHolds' /\ RegistryHolds'
  BY <1>1, <1>2, <1>5, Zenon DEF SyncKept, LockHolds, RegistryHolds, Idle
<1> QED
  BY <1>1, <1>3, <1>4, <1>6

LEMMA DigStep ==
  ASSUME IInv, \/ Clone \/ Add \/ Scaffold \/ Deinit \/ Unlink \/ Section \/ Backup \/ Move \/ Relink
  PROVE  IInv'
<1> USE DEF IInv, Types, At, Became
<1>1. ~Idle /\ Next1 /\ Head(job.todo) \in Digging
  BY Zenon DEF Clone, Add, Scaffold, Deinit, Unlink, Section, Backup, Move, Relink, Idle, Digging
<1>2. UNCHANGED <<py, lock, registry, flake, runs, faults, killed>>
  BY Zenon DEF Clone, Add, Scaffold, Deinit, Unlink, Section, Backup, Move, Relink
<1>3. job.app \in Apps /\ job.to \in Apps
  BY <1>1 DEF JobTypes
<1>4. AppTypes'
  <2>1. CASE Clone
    BY <1>3, <2>1, SMT DEF Clone, Plant, AppTypes, Trees
  <2>2. CASE Add
    BY <1>3, <2>2, SMT DEF Add, AppTypes
  <2>3. CASE Scaffold
    BY <1>3, <2>3, SMT DEF Scaffold, Plant, AppTypes, Trees
  <2>4. CASE Deinit
    BY <1>3, <2>4, SMT DEF Deinit, AppTypes, Trees
  <2>5. CASE Unlink
    BY <1>3, <2>5, SMT DEF Unlink, AppTypes, Trees
  <2>6. CASE Section
    BY <1>3, <2>6, SMT DEF Section, AppTypes
  <2>7. CASE Backup
    BY <1>3, <2>7, SMT DEF Backup, AppTypes, Trees
  <2>8. CASE Move
    BY <1>3, <2>8, SMT DEF Move, AppTypes, Trees
  <2>9. CASE Relink
    BY <1>3, <2>9, BenchAssumption, SMT DEF Relink, AppTypes
  <2> QED
    BY <2>1, <2>2, <2>3, <2>4, <2>5, <2>6, <2>7, <2>8, <2>9
<1> QED
  BY <1>1, <1>2, <1>4, DigKeeps

\* pyproject.toml's members: they change only before the registry is written.
LEMMA MembersStep ==
  ASSUME IInv, Register \/ Unregister \/ Group
  PROVE  IInv'
<1> USE DEF IInv, Types, At, Became
<1>1. ~Idle /\ Next1 /\ Head(job.todo) \in {"register", "unregister", "group"}
  BY Zenon DEF Register, Unregister, Group, Idle
<1>2. UNCHANGED <<tree, modules, gitlink, rev, lock, registry, flake, runs, faults, killed>>
  BY Zenon DEF Register, Unregister, Group
<1>3. PICK S \in SUBSET Apps :
        /\ py' = [py EXCEPT !.members = S, !.group = BenchDev(S)]
        /\ Head(job.todo) = "group" => S = py.members
  <2>1. job.app \in Apps /\ job.to \in Apps /\ py.members \subseteq Apps
    BY <1>1, SMT DEF JobTypes, FileTypes, Pyprojects
  <2>2. CASE Register
    BY <2>1, <2>2, Zenon DEF Register, SetMembers
  <2>3. CASE Unregister
    BY <2>1, <2>3, Zenon DEF Unregister, SetMembers
  <2>4. CASE Group
    BY <2>1, <2>4, Zenon DEF Group, SetMembers
  <2> QED
    BY <2>2, <2>3, <2>4, Zenon
<1>4. /\ Behind(job.todo, job'.todo) /\ job.todo \in Plans /\ job.todo # <<>>
      /\ job'.cmd = job.cmd /\ job'.status = job.status /\ job'.kept = job.kept /\ job'.orig = job.orig
      /\ JobTypes' /\ Planned'
  BY <1>1, Advance, AdvancePlanned DEF Idle
<1>5. /\ job.todo \notin Leaving \cup Holding \cup Resolved /\ job.todo # <<"moved">>
      /\ job'.todo \notin Holding \cup Resolved /\ job'.todo # <<>> /\ job'.todo \notin Leaving
      /\ job'.todo \in Enlisted => job.todo \in Enlisted /\ Head(job.todo) = "group"
  <2>1. job.todo \notin Leaving \cup Holding \cup Resolved /\ job.todo # <<"moved">>
    BY <1>1, <1>4, PlanSteps, SMT
  <2> QED
    BY <1>1, <1>4, <2>1, PlanSteps, SMT
<1>6. FileTypes' /\ py'.pinned = py.pinned /\ py'.members = S
  <2>1. BenchDev(S) \in SUBSET Rows
    BY DevRows
  <2>2. py \in Pyprojects
    BY DEF FileTypes
  <2> DEFINE P == [py EXCEPT !.members = S, !.group = BenchDev(S)]
  <2>3. P \in Pyprojects /\ P.pinned = py.pinned /\ P.members = S
    BY <2>1, <2>2, PyWith, Zenon
  <2>4. py' = P
    BY <1>3
  <2> QED
    BY <1>2, <2>3, <2>4, Zenon DEF FileTypes
<1>7. AppTypes' /\ Counts' /\ (killed \in BOOLEAN)'
  BY <1>2, Zenon DEF AppTypes, Counts
<1>8. PinHeld'
  BY <1>2, <1>4, <1>5, <1>6, Zenon DEF PinHeld, Idle
<1>9. job.status # "failed"
  BY <1>4, <1>5, SMT DEF Planned
<1>10. SyncKept' /\ LockHolds'
  BY <1>4, <1>5, <1>9, Zenon DEF SyncKept, LockHolds, Idle
<1>11. RegistryHolds'
  <2>1. Head(job.todo) = "group" => Registered' = Registered
    BY <1>2, <1>3, <1>6, SameRegistered
  <2> QED
    BY <1>2, <1>4, <1>5, <2>1, Zenon DEF RegistryHolds
<1> QED
  BY <1>4, <1>6, <1>7, <1>8, <1>10, <1>11

LEMMA RegistryStep ==
  ASSUME IInv, Registry
  PROVE  IInv'
<1> USE DEF IInv, Types, At, Became
<1>1. /\ ~Idle /\ Next1 /\ Head(job.todo) = "registry" /\ registry' = Registered
      /\ UNCHANGED <<tree, modules, gitlink, rev, py, lock, flake, runs, faults, killed>>
  BY Zenon DEF Registry, Idle
<1>2. /\ Behind(job.todo, job'.todo) /\ job.todo \in Plans /\ job.todo # <<>>
      /\ job'.cmd = job.cmd /\ job'.status = job.status /\ job'.kept = job.kept /\ job'.orig = job.orig
      /\ JobTypes' /\ Planned'
  BY <1>1, Advance, AdvancePlanned DEF Idle
<1>3. /\ job.todo \notin Leaving \cup Holding \cup Resolved /\ job.todo # <<"moved">>
      /\ job'.todo \notin Holding \cup Resolved \cup Leaving /\ job'.todo # <<>>
  <2>1. job.todo \notin Leaving \cup Holding \cup Resolved /\ job.todo # <<"moved">>
    BY <1>1, <1>2, PlanSteps, SMT
  <2> QED
    BY <1>1, <1>2, <2>1, PlanSteps, SMT
<1>4. FileTypes'
  <2>1. Registered \subseteq Rows
    <3>1. {a \in py.members : Readable({a})} \subseteq Apps
      BY SMT DEF FileTypes, Pyprojects
    <3> QED
      BY <3>1, TakenRows DEF Registered
  <2> QED
    BY <1>1, <2>1, Zenon DEF FileTypes
<1>5. AppTypes' /\ Counts' /\ (killed \in BOOLEAN)'
  BY <1>1, Zenon DEF AppTypes, Counts
<1>6. PinHeld'
  BY <1>1, <1>2, <1>3, Zenon DEF PinHeld, Idle
<1>7. job.status # "failed"
  BY <1>2, <1>3, SMT DEF Planned
<1>8. SyncKept' /\ LockHolds'
  BY <1>2, <1>3, <1>7, Zenon DEF SyncKept, LockHolds, Idle
<1>9. Registered' = Registered
  BY <1>1, SameRegistered
<1> QED
  BY <1>1, <1>2, <1>4, <1>5, <1>6, <1>8, <1>9, Zenon DEF RegistryHolds

\* An app of a pull: the job still pulls, and nothing is promised yet.
LEMMA PullStep ==
  ASSUME IInv, NEW a \in Apps, PullApp(a)
  PROVE  IInv'
<1> USE DEF IInv, Types, At, Became
<1>1. /\ ~Idle /\ Head(job.todo) = "pull"
      /\ UNCHANGED <<modules, gitlink, py, lock, registry, flake, runs, faults, killed>>
  BY Zenon DEF PullApp, Idle
<1>2. /\ job'.todo = job.todo /\ job'.cmd = job.cmd /\ job'.status = job.status
      /\ job'.kept = job.kept /\ job'.orig = job.orig /\ JobTypes'
  <2> DEFINE Same == /\ job'.todo = job.todo /\ job'.cmd = job.cmd /\ job'.status = job.status /\ job'.app = job.app
                     /\ job'.kept = job.kept /\ job'.orig = job.orig /\ job'.to = job.to
  <2>1. CASE job' = [job EXCEPT !.left = @ \ {a}]
    <3>1. job.left \ {a} \in SUBSET Apps /\ Same
      BY <2>1, SMT DEF JobTypes, Job
    <3> QED
      BY <2>1, <3>1, Zenon DEF JobTypes, Job, Idle
  <2>2. CASE job' = [job EXCEPT !.left = @ \ {a}, !.before[a] = IF Readable({a}) THEN @ ELSE rev[a]]
    <3> DEFINE F == [job.before EXCEPT ![a] = IF Readable({a}) THEN @ ELSE rev[a]]
    <3>1. job.left \ {a} \in SUBSET Apps /\ F \in [Apps -> 0..MaxRev \cup {NoRev}]
      BY SMT DEF JobTypes, Job, AppTypes
    <3>2. job' = [job EXCEPT !.left = job.left \ {a}, !.before = F]
      BY <2>2, SMT DEF JobTypes, Job
    <3>3. Same
      BY <2>2, SMT DEF JobTypes, Job
    <3>4. job' \in Job
      BY <3>1, <3>2, Zenon DEF JobTypes, Job
    <3> QED
      BY <3>3, <3>4, Zenon DEF JobTypes, Idle
  <2> QED
    BY <2>1, <2>2, Zenon DEF PullApp
<1>3. AppTypes'
  BY <1>1, SMT DEF PullApp, AppTypes, Trees
<1>4. Planned' /\ job.todo \notin Leaving \cup Holding \cup Enlisted \cup Resolved /\ job.todo # <<>>
  <2>1. Behind(job.todo, Tail(job.todo))
    BY <1>1, TailOf DEF Planned, Idle
  <2>2. job.todo \notin Leaving \cup Holding \cup Enlisted \cup Resolved
    BY <1>1, <2>1, PlanSteps, SMT DEF Planned
  <2> QED
    BY <1>1, <1>2, <2>2, Zenon DEF Planned, Idle
<1>5. FileTypes' /\ Counts' /\ (killed \in BOOLEAN)'
  BY <1>1, Zenon DEF FileTypes, Counts
<1>6. PinHeld'
  BY <1>1, <1>2, <1>4, Zenon DEF PinHeld, Idle
<1>7. job.status # "failed"
  BY <1>4, SMT DEF Planned
<1>8. SyncKept' /\ LockHolds' /\ RegistryHolds'
  BY <1>2, <1>4, <1>7, Zenon DEF SyncKept, LockHolds, RegistryHolds, Idle
<1> QED
  BY <1>2, <1>3, <1>4, <1>5, <1>6, <1>8

LEMMA PulledStep ==
  ASSUME IInv, Pulled
  PROVE  IInv'
<1> USE DEF IInv, Types, At, Became
<1>1. /\ ~Idle /\ Next1 /\ Head(job.todo) = "pull"
      /\ UNCHANGED <<tree, modules, gitlink, rev, py, lock, registry, flake, runs, faults, killed>>
  BY Zenon DEF Pulled, Idle, bench
<1>2. /\ Behind(job.todo, job'.todo) /\ job.todo \in Plans /\ job.todo # <<>>
      /\ job'.cmd = job.cmd /\ job'.status = job.status /\ job'.kept = job.kept /\ job'.orig = job.orig
      /\ JobTypes' /\ Planned'
  BY <1>1, Advance, AdvancePlanned DEF Idle
<1>3. /\ job.todo \notin Leaving \cup Holding \cup Enlisted \cup Resolved /\ job.todo # <<"moved">>
      /\ job'.todo \notin Holding \cup Enlisted \cup Resolved \cup Leaving /\ job'.todo # <<>>
  <2>1. job.todo \notin Leaving \cup Holding \cup Enlisted \cup Resolved /\ job.todo # <<"moved">>
    BY <1>1, <1>2, PlanSteps, SMT
  <2> QED
    BY <1>1, <1>2, <2>1, PlanSteps, SMT
<1>4. AppTypes' /\ FileTypes' /\ Counts' /\ (killed \in BOOLEAN)'
  BY <1>1, Zenon DEF AppTypes, FileTypes, Counts
<1>5. PinHeld'
  BY <1>1, <1>2, <1>3, Zenon DEF PinHeld, Idle
<1>6. job.status # "failed"
  BY <1>2, <1>3, SMT DEF Planned
<1>7. SyncKept' /\ LockHolds' /\ RegistryHolds'
  BY <1>2, <1>3, <1>6, Zenon DEF SyncKept, LockHolds, RegistryHolds, Idle
<1> QED
  BY <1>2, <1>4, <1>5, <1>7


\* Every list is made of steps.
LEMMA PlansTyped ==
  ASSUME NEW p \in Plans
  PROVE  p \in Seq(StepNames)
<1> DEFINE S == Seq(StepNames)
<1>1. <<"clone", "add", "register", "registry", "lock", "block">> \in S
  BY SMT DEF StepNames, WayOut
<1>2. <<"add", "register", "registry", "lock", "block">> \in S
  BY SMT DEF StepNames, WayOut
<1>3. <<"scaffold", "register", "registry", "lock", "block">> \in S
  BY SMT DEF StepNames, WayOut
<1>4. <<"register", "registry", "lock", "block">> \in S
  BY SMT DEF StepNames, WayOut
<1>5. <<"registry", "lock", "block">> \in S
  BY SMT DEF StepNames, WayOut
<1>6. <<"deinit", "unlink", "section", "unregister", "registry", "lock", "block">> \in S
  BY SMT DEF StepNames, WayOut
<1>7. <<"unlink", "section", "unregister", "registry", "lock", "block">> \in S
  BY SMT DEF StepNames, WayOut
<1>8. <<"section", "unregister", "registry", "lock", "block">> \in S
  BY SMT DEF StepNames, WayOut
<1>9. <<"backup", "unregister", "registry", "lock", "block">> \in S
  BY SMT DEF StepNames, WayOut
<1>10. <<"unregister", "registry", "lock", "block">> \in S
  BY SMT DEF StepNames, WayOut
<1>11. <<"move", "relink", "unregister", "register", "registry", "lock", "block">> \in S
  BY SMT DEF StepNames, WayOut
<1>12. <<"relink", "unregister", "register", "registry", "lock", "block">> \in S
  BY SMT DEF StepNames, WayOut
<1>13. <<"move", "unregister", "register", "registry", "lock", "block">> \in S
  BY SMT DEF StepNames, WayOut
<1>14. <<"unregister", "register", "registry", "lock", "block">> \in S
  BY SMT DEF StepNames, WayOut
<1>15. <<"pull", "registry", "moved">> \in S
  BY SMT DEF StepNames, WayOut
<1>16. <<"registry", "moved">> \in S
  BY SMT DEF StepNames, WayOut
<1>17. <<"moved">> \in S
  BY SMT DEF StepNames, WayOut
<1>18. <<"group", "pin", "lock", "unpin", "block">> \in S
  BY SMT DEF StepNames, WayOut
<1>19. <<"root", "pin", "lock", "unpin", "block">> \in S
  BY SMT DEF StepNames, WayOut
<1>20. <<"pin", "lock", "unpin", "block">> \in S
  BY SMT DEF StepNames, WayOut
<1>21. <<"lock", "unpin", "block">> \in S
  BY SMT DEF StepNames, WayOut
<1>22. <<"unpin", "block">> \in S
  BY SMT DEF StepNames, WayOut
<1>23. <<"lock", "block">> \in S
  BY SMT DEF StepNames, WayOut
<1>24. <<"block">> \in S
  BY SMT DEF StepNames, WayOut
<1>25. <<"unpin", "putpy", "putlock">> \in S
  BY SMT DEF StepNames, WayOut
<1>26. <<"unpin">> \in S
  BY SMT DEF StepNames, WayOut
<1>27. <<"putpy", "putlock">> \in S
  BY SMT DEF StepNames, WayOut
<1>28. <<"putlock">> \in S
  BY SMT DEF StepNames, WayOut
<1> HIDE DEF S
<1>29. <<>> \in S
  BY EmptySeq DEF S
<1>30. ASSUME p \in Enlisted PROVE p \in S
  BY <1>30, <1>17, <1>18, <1>19, <1>20, <1>21, <1>22, <1>23, <1>24, <1>29, Zenon DEF Enlisted, B, LB, UB, LUB, PLUB
<1>31. ASSUME p \in Enlisting PROVE p \in S
  BY <1>31, <1>1, <1>2, <1>3, <1>4, <1>5, Zenon DEF Enlisting, RLB
<1>32. ASSUME p \in Removing PROVE p \in S
  BY <1>32, <1>6, <1>7, <1>8, <1>9, <1>10, Zenon DEF Removing
<1>33. ASSUME p \in Renaming PROVE p \in S
  BY <1>33, <1>11, <1>12, <1>13, <1>14, Zenon DEF Renaming
<1>34. ASSUME p \in Pulling PROVE p \in S
  BY <1>34, <1>15, <1>16, Zenon DEF Pulling
<1>35. ASSUME p \in Leaving PROVE p \in S
  BY <1>35, <1>25, <1>26, <1>27, <1>28, Zenon DEF Leaving
<1> QED
  BY <1>30, <1>31, <1>32, <1>33, <1>34, <1>35 DEF Plans, S

\* A job that goes on with another list.
LEMMA JobWith ==
  ASSUME JobTypes, ~Idle, NEW T \in Seq(StepNames), job' = [job EXCEPT !.todo = T]
  PROVE  /\ job'.todo = T
         /\ job'.cmd = job.cmd /\ job'.app = job.app /\ job'.to = job.to /\ job'.status = job.status
         /\ job'.before = job.before /\ job'.left = job.left /\ job'.kept = job.kept /\ job'.orig = job.orig
         /\ JobTypes'
<1>1. /\ job'.todo = T
      /\ job'.cmd = job.cmd /\ job'.app = job.app /\ job'.to = job.to /\ job'.status = job.status
      /\ job'.before = job.before /\ job'.left = job.left /\ job'.kept = job.kept /\ job'.orig = job.orig
  BY SMT DEF JobTypes, Job
<1>2. job' \in Job
  BY Zenon DEF JobTypes, Job
<1> QED
  BY <1>1, <1>2, Zenon DEF JobTypes, Idle

LEMMA SequelPlans ==
  /\ <<"group">> \o Relocking = <<"group", "pin", "lock", "unpin", "block">>
  /\ <<"group", "pin", "lock", "unpin", "block">> \in Enlisted \ (Leaving \cup Pulling \cup Holding \cup Resolved)
  /\ <<"group", "pin", "lock", "unpin", "block">> # <<"moved">>
  /\ <<>> \in Enlisted /\ <<>> \in Resolved /\ <<>> \notin Leaving \cup Pulling \cup Holding /\ <<>> # <<"moved">>
<1>1. <<"group">> \o Relocking = <<"group", "pin", "lock", "unpin", "block">>
  BY Concat14 DEF Relocking
<1> QED
  BY <1>1, SMT DEF Enlisted, Resolved, Pulling, Leaving, Holding, B, LB, UB, LUB, PLUB

LEMMA MovedStep ==
  ASSUME IInv, Moved
  PROVE  IInv'
<1> USE DEF IInv, Types, At, Became
<1>1. /\ ~Idle /\ Head(job.todo) = "moved"
      /\ UNCHANGED <<tree, modules, gitlink, rev, py, lock, registry, flake, runs, faults, killed>>
  BY Zenon DEF Moved, Idle, bench
<1>2. job.todo = <<"moved">> /\ job.todo \in Enlisted
  <2>1. Behind(job.todo, Tail(job.todo))
    BY <1>1, TailOf DEF Planned, Idle
  <2>2. job.todo = <<"moved">>
    BY <1>1, <2>1, PlanSteps, Zenon DEF Planned
  <2> QED
    BY <2>2 DEF Enlisted
<1>3. PICK T \in {<<"group", "pin", "lock", "unpin", "block">>, <<>>} : job' = [job EXCEPT !.todo = T]
  BY SequelPlans, Zenon DEF Moved
<1>4. T \in Plans /\ T \in Seq(StepNames)
  BY <1>3, PlansTyped, SequelPlans, Zenon DEF Plans
<1>5. /\ job'.todo = T /\ job'.cmd = job.cmd /\ job'.status = job.status /\ job'.kept = job.kept
      /\ job'.orig = job.orig /\ JobTypes'
  BY <1>1, <1>3, <1>4, JobWith
<1>6. job.cmd = "pull" /\ job.status = "ok"
  BY <1>2, SequelPlans, SMT DEF Planned, Leaving, JobTypes, Job
<1>7. Planned'
  BY <1>2, <1>3, <1>4, <1>5, <1>6, SequelPlans, SMT DEF Planned, Leaving
<1>8. AppTypes' /\ FileTypes' /\ Counts' /\ (killed \in BOOLEAN)'
  BY <1>1, Zenon DEF AppTypes, FileTypes, Counts
<1>9. job.todo \notin Holding
  BY <1>2, SMT DEF Holding, LUB, UB
<1>10. PinHeld'
  BY <1>1, <1>5, <1>9, Zenon DEF PinHeld, Idle
<1>11. SyncKept' /\ LockHolds'
  BY <1>5, <1>6, SMT DEF SyncKept, LockHolds
<1>12. RegistryHolds'
  BY <1>1, <1>2, <1>5, SameRegistered, Zenon DEF RegistryHolds
<1> QED
  BY <1>5, <1>7, <1>8, <1>10, <1>11, <1>12

LEMMA RootStep ==
  ASSUME IInv, Root
  PROVE  IInv'
<1> USE DEF IInv, Types, At, Became
<1>1. /\ ~Idle /\ Head(job.todo) = "root"
      /\ UNCHANGED <<tree, modules, gitlink, rev, lock, registry, flake, runs, faults, killed>>
      /\ py' = [py EXCEPT !.root = flake, !.group = BenchDev(py.members)]
  BY Zenon DEF Root, Idle
<1> DEFINE q == Tail(job.todo)
<1>2. Behind(job.todo, q) /\ job.todo \in Plans /\ job.todo # <<>>
  BY <1>1, TailOf DEF Planned, Idle
<1>16. \E T \in {q, <<>>} :
         /\ job' = [job EXCEPT !.todo = T]
         /\ T = <<>> => job.cmd = "sync"
  <2>1. job' = [job EXCEPT !.todo = IF job.cmd = "sync" /\ py' = py THEN <<>> ELSE q]
    BY Zenon DEF Root
  <2>2. q # <<>>
    BY <1>1, <1>2, PlanSteps, Zenon
  <2> QED
    BY <2>1, <2>2, Zenon
<1> HIDE DEF q
<1>3. /\ job.todo \notin Leaving \cup Holding \cup Pulling \cup Resolved
      /\ q \notin Leaving \cup Pulling \cup Holding \cup Resolved \cup {<<"moved">>}
      /\ q # <<>> /\ q \in Plans
  <2>1. job.todo \notin Leaving \cup Holding \cup Resolved /\ job.todo # <<"moved">>
    BY <1>1, <1>2, PlanSteps, SMT
  <2>2. job.todo \notin Pulling
    BY <1>1, SMT DEF Pulling
  <2> QED
    BY <1>1, <1>2, <2>1, <2>2, PlanSteps, SMT
<1>4. PICK T \in {q, <<>>} :
        /\ job' = [job EXCEPT !.todo = T]
        /\ T = <<>> => job.cmd = "sync"
  BY <1>16
<1>5. T \in Plans /\ T \in Seq(StepNames)
  BY <1>3, <1>4, PlansTyped, SequelPlans, Zenon DEF Plans
<1>6. /\ job'.todo = T /\ job'.cmd = job.cmd /\ job'.status = job.status /\ job'.kept = job.kept
      /\ job'.orig = job.orig /\ JobTypes'
  BY <1>1, <1>4, <1>5, JobWith
<1>7. job.status = "ok"
  BY <1>2, <1>3, SMT DEF Planned, JobTypes, Job
<1>8. T \notin Leaving \cup Pulling \cup Holding \cup {<<"moved">>}
  BY <1>3, <1>4, SequelPlans, SMT
<1>9. Planned'
  BY <1>5, <1>6, <1>7, <1>8, SMT DEF Planned, Leaving
<1>10. FileTypes' /\ py'.pinned = py.pinned /\ py'.members = py.members
  <2>1. BenchDev(py.members) \in SUBSET Rows /\ flake \in 0..MaxFlake /\ py \in Pyprojects
    BY DevRows, SMT DEF FileTypes, Pyprojects, Counts
  <2>2. py' \in Pyprojects
    BY <1>1, <2>1, Zenon DEF Pyprojects
  <2>3. py'.pinned = py.pinned
    BY <1>1, <2>1, Zenon DEF Pyprojects
  <2>4. py'.members = py.members
    BY <1>1, <2>1, Zenon DEF Pyprojects
  <2> QED
    BY <1>1, <2>2, <2>3, <2>4, Zenon DEF FileTypes
<1>11. AppTypes' /\ Counts' /\ (killed \in BOOLEAN)'
  BY <1>1, Zenon DEF AppTypes, Counts
<1>12. PinHeld'
  BY <1>1, <1>3, <1>6, <1>8, <1>10, Zenon DEF PinHeld
<1>13. SyncKept'
  BY <1>6, <1>7, SMT DEF SyncKept
<1>14. LockHolds'
  BY <1>3, <1>4, <1>6, SMT DEF LockHolds, Idle
<1>15. RegistryHolds'
  <2>1. Registered' = Registered
    BY <1>1, <1>10, SameRegistered
  <2>2. T \in Enlisted => job.cmd \in {"sync"} \/ job.todo \in Enlisted
    BY <1>1, <1>2, <1>3, <1>4, PlanSteps, SMT
  <2> QED
    BY <1>1, <1>6, <2>1, <2>2, SMT DEF RegistryHolds
<1> QED
  BY <1>6, <1>9, <1>10, <1>11, <1>12, <1>13, <1>14, <1>15

LEMMA PinStep ==
  ASSUME IInv, Pin
  PROVE  IInv'
<1> USE DEF IInv, Types, At, Became
<1> DEFINE q == Tail(job.todo)
           O == IF py.pinned THEN <<>> ELSE <<py>>
<1>1. /\ ~Idle /\ Head(job.todo) = "pin"
      /\ UNCHANGED <<tree, modules, gitlink, rev, lock, registry, flake, runs, faults, killed>>
      /\ py' = [py EXCEPT !.pinned = TRUE]
      /\ job' = [job EXCEPT !.todo = q, !.orig = O]
  BY Zenon DEF Pin, Idle
<1>2. Behind(job.todo, q) /\ job.todo \in Plans /\ job.todo # <<>>
  BY <1>1, TailOf DEF Planned, Idle
<1>3. py \in Pyprojects
  BY DEF FileTypes
<1>4. O \in Seq(Pyprojects) /\ Len(O) <= 1 /\ (O # <<>> => ~py.pinned /\ O[1] = py)
  BY <1>3, SMT
<1> HIDE DEF q, O
<1>5. /\ job.todo \notin Leaving \cup Holding \cup Resolved
      /\ q \in Plans /\ q \in Holding /\ q \notin Leaving \cup Resolved /\ q # <<>>
      /\ q \notin Pulling \cup {<<"moved">>}
      /\ q \in Enlisted => job.todo \in Enlisted
  <2>1. job.todo \notin Leaving \cup Holding \cup Resolved
    BY <1>1, <1>2, PlanSteps, SMT
  <2>2. q \in Plans /\ q \in Holding /\ q \notin Leaving \cup Resolved
    BY <1>1, <1>2, <2>1, PlanSteps, SMT
  <2>3. q \in Enlisted => job.todo \in Enlisted
    BY <1>1, <1>2, <2>1, PlanSteps, SMT
  <2>4. q # <<>> /\ q \notin Pulling \cup {<<"moved">>}
    BY <2>2, SMT DEF Holding, Pulling, LUB, UB
  <2> QED
    BY <2>1, <2>2, <2>3, <2>4
<1>6. q \in Seq(StepNames)
  BY <1>5, PlansTyped
<1>7. job' \in Job
  BY <1>1, <1>4, <1>6, Zenon DEF JobTypes, Job
<1>8. /\ job'.todo = q /\ job'.orig = O /\ job'.cmd = job.cmd /\ job'.status = job.status
      /\ job'.kept = job.kept /\ job'.app = job.app /\ job'.to = job.to
  BY <1>1, SMT DEF JobTypes, Job
<1>9. JobTypes'
  BY <1>1, <1>4, <1>7, <1>8, Zenon DEF JobTypes, Idle
<1>10. job.status = "ok"
  BY <1>2, <1>5, SMT DEF Planned, JobTypes, Job
<1>11. Planned'
  BY <1>5, <1>8, <1>10, SMT DEF Planned, Leaving
<1>12. FileTypes' /\ py'.pinned /\ py'.members = py.members
  <2>1. py' \in Pyprojects
    BY <1>1, <1>3, Zenon DEF Pyprojects
  <2>2. py'.pinned
    BY <1>1, <1>3, Zenon DEF Pyprojects
  <2>3. py'.members = py.members
    BY <1>1, <1>3, Zenon DEF Pyprojects
  <2> QED
    BY <1>1, <2>1, <2>2, <2>3, Zenon DEF FileTypes
<1>13. AppTypes' /\ Counts' /\ (killed \in BOOLEAN)'
  BY <1>1, Zenon DEF AppTypes, Counts
<1>14. job.orig = <<>>
  BY <1>1, <1>5, Zenon DEF PinHeld
<1>15. ~killed => O # <<>>
  <2> SUFFICES ASSUME ~killed PROVE ~py.pinned
    BY DEF O
  <2> QED
    BY <1>14, Zenon DEF PinHeld
<1>16. PinHeld'
  BY <1>1, <1>4, <1>5, <1>8, <1>12, <1>15, Zenon DEF PinHeld
<1>17. SyncKept' /\ LockHolds'
  BY <1>5, <1>8, <1>10, SMT DEF SyncKept, LockHolds, Idle
<1>18. RegistryHolds'
  <2>1. Registered' = Registered
    BY <1>1, <1>12, SameRegistered
  <2> QED
    BY <1>1, <1>5, <1>8, <2>1, Zenon DEF RegistryHolds
<1> QED
  BY <1>9, <1>11, <1>12, <1>13, <1>16, <1>17, <1>18

LEMMA UnpinStep ==
  ASSUME IInv, Unpin
  PROVE  IInv'
<1> USE DEF IInv, Types, At, Became
<1> DEFINE q == Tail(job.todo)
<1>1. /\ ~Idle /\ Head(job.todo) = "unpin"
      /\ UNCHANGED <<tree, modules, gitlink, rev, lock, registry, flake, runs, faults, killed>>
      /\ py' = PutPinBack
      /\ job' = [job EXCEPT !.todo = q, !.orig = <<>>]
  BY Zenon DEF Unpin, Idle
<1>2. Behind(job.todo, q) /\ job.todo \in Plans /\ job.todo # <<>>
  BY <1>1, TailOf DEF Planned, Idle
<1> HIDE DEF q
<1>3. job.orig # <<>> => py = [job.orig[1] EXCEPT !.pinned = TRUE] /\ job.orig[1] \in Pyprojects
  <2>1. job.orig \in Seq(Pyprojects)
    BY SMT DEF JobTypes, Job
  <2>2. job.orig # <<>> => job.orig[1] \in Pyprojects
    BY <2>1, SMT
  <2> QED
    BY <1>1, <2>2, Zenon DEF PinHeld
<1>4. /\ FileTypes' /\ py'.members = py.members /\ py'.group = py.group /\ py'.root = py.root
  <2>1. CASE job.orig = <<>>
    BY <1>1, <2>1, Zenon DEF PutPinBack, FileTypes
  <2>2. CASE job.orig # <<>>
    <3>1. py' = job.orig[1] /\ py' \in Pyprojects /\ py = [py' EXCEPT !.pinned = TRUE]
      BY <1>1, <1>3, <2>2, Zenon DEF PutPinBack
    <3>2. py.members = py'.members /\ py.group = py'.group /\ py.root = py'.root
      BY <3>1, SMT DEF Pyprojects
    <3> QED
      BY <1>1, <3>1, <3>2, Zenon DEF FileTypes
  <2> QED
    BY <2>1, <2>2
<1>5. ~killed => ~py'.pinned /\ ~job.kept[1].pinned
  BY <1>1, Zenon DEF PinHeld, PutPinBack
<1>6. /\ job.todo \in Holding /\ q \notin Holding /\ q \in Plans
      /\ job.todo \in Leaving => q \in Leaving \cup {<<>>}
      /\ job.todo \notin Leaving => q \notin Leaving /\ q # <<>>
      /\ q \notin Pulling \cup {<<"moved">>}
      /\ q # <<"unpin">> /\ q # <<"unpin", "putpy", "putlock">> /\ q # <<"putlock">>
      /\ q = <<"putpy", "putlock">> => job.todo = <<"unpin", "putpy", "putlock">>
      /\ q = <<>> => job.todo = <<"unpin">>
  <2>1. job.todo \in Holding /\ q \notin Holding /\ q \in Plans
    BY <1>1, <1>2, PlanSteps, Zenon
  <2>2. /\ job.todo \in Leaving => q \in Leaving \cup {<<>>}
        /\ job.todo \notin Leaving => q \notin Leaving
        /\ q # <<"unpin">> /\ q # <<"unpin", "putpy", "putlock">>
        /\ q = <<"putpy", "putlock">> => job.todo = <<"unpin", "putpy", "putlock">>
        /\ q = <<>> => job.todo \in {<<"unpin">>, <<"putlock">>, <<"block">>, <<"moved">>}
        /\ q = <<"putlock">> => job.todo = <<"putpy", "putlock">>
        /\ q \in Pulling \cup {<<"moved">>} => job.todo \in Pulling
    BY <1>2, PlanSteps, Zenon
  <2>3. job.todo \notin Pulling \cup {<<"putlock">>, <<"block">>, <<"moved">>, <<"putpy", "putlock">>}
    BY <2>1, SMT DEF Holding, Pulling, LUB, UB
  <2>4. <<"unpin">> \in Leaving
    BY DEF Leaving
  <2> QED
    BY <2>1, <2>2, <2>3, <2>4, Zenon
<1>7. q \in Seq(StepNames)
  BY <1>6, PlansTyped
<1>8. job' \in Job
  <2>1. <<>> \in Seq(Pyprojects)
    BY EmptySeq
  <2> QED
    BY <1>1, <1>7, <2>1, Zenon DEF JobTypes, Job
<1>9. /\ job'.todo = q /\ job'.orig = <<>> /\ job'.cmd = job.cmd /\ job'.status = job.status
      /\ job'.kept = job.kept /\ job'.app = job.app /\ job'.to = job.to
  BY <1>1, SMT DEF JobTypes, Job
<1>10. JobTypes'
  <2>1. Len(job'.orig) <= 1
    BY <1>9, SMT
  <2> QED
    BY <1>1, <1>8, <1>9, <2>1, Zenon DEF JobTypes, Idle
<1>11. Planned'
  BY <1>2, <1>6, <1>9, Zenon DEF Planned
<1>12. AppTypes' /\ Counts' /\ (killed \in BOOLEAN)'
  BY <1>1, Zenon DEF AppTypes, Counts
<1>13. PinHeld'
  BY <1>1, <1>5, <1>9, Zenon DEF PinHeld
<1>14. SyncKept'
  BY <1>6, <1>9, Zenon DEF SyncKept, Planned
<1>15. LockHolds'
  <2>1. Resolution' = Resolution
    BY <1>1, <1>4, SameResolution
  <2>2. job.status = "ok" => job.todo \notin Leaving
    BY DEF Planned
  <2>3. job.todo \notin Leaving /\ q \in Resolved => job.todo \in Resolved
    <3>1. job.todo # <<"moved">>
      BY <1>6, SMT DEF Holding, LUB, UB
    <3> QED
      BY <1>1, <1>2, <3>1, PlanSteps, SMT
  <2> QED
    BY <1>1, <1>6, <1>9, <2>1, <2>2, <2>3, Zenon DEF LockHolds, Idle
<1>16. RegistryHolds'
  <2>1. Registered' = Registered
    BY <1>1, <1>4, SameRegistered
  <2>2. job.todo \notin Leaving /\ q \in Enlisted => job.todo \in Enlisted
    BY <1>1, <1>2, PlanSteps, SMT
  <2> QED
    BY <1>1, <1>9, <2>1, <2>2, Zenon DEF RegistryHolds, Planned
<1> QED
  BY <1>4, <1>10, <1>11, <1>12, <1>13, <1>14, <1>15, <1>16

LEMMA LockStep ==
  ASSUME IInv, Lock
  PROVE  IInv'
<1> USE DEF IInv, Types, At, Became
<1>1. /\ ~Idle /\ Next1 /\ Head(job.todo) = "lock" /\ lock' = Resolution
      /\ UNCHANGED <<tree, modules, gitlink, rev, py, registry, flake, runs, faults, killed>>
  BY Zenon DEF Lock, Idle
<1>2. /\ Behind(job.todo, job'.todo) /\ job.todo \in Plans /\ job.todo # <<>>
      /\ job'.cmd = job.cmd /\ job'.status = job.status /\ job'.kept = job.kept /\ job'.orig = job.orig
      /\ JobTypes' /\ Planned'
  BY <1>1, Advance, AdvancePlanned DEF Idle
<1>3. /\ job.todo \notin Leaving /\ job'.todo # <<>> /\ job'.todo \notin Leaving
      /\ job.todo \in Holding => job'.todo \in Holding
      /\ job'.todo \in Enlisted => job.todo \in Enlisted
  <2>1. job.todo \notin Leaving
    BY <1>1, <1>2, PlanSteps, SMT
  <2>2. /\ job'.todo \notin Leaving
        /\ job.todo \in Holding => job'.todo \in Holding
        /\ job'.todo \in Enlisted => job.todo \in Enlisted
    BY <1>1, <1>2, <2>1, PlanSteps, SMT
  <2>3. job.todo \notin {<<"unpin">>, <<"putlock">>, <<"block">>, <<"moved">>}
    BY <1>1, SMT
  <2> QED
    BY <1>2, <2>1, <2>2, <2>3, PlanSteps, Zenon
<1>4. FileTypes'
  <2>1. py \in Pyprojects
    BY DEF FileTypes
  <2>2. py.members \in SUBSET Apps /\ py.group \in SUBSET Rows /\ py.root \in 0..MaxFlake
    BY <2>1, Zenon DEF Pyprojects
  <2>3. Resolution \in Locks
    BY <2>2, TakenRows, Zenon DEF Resolution, Locks
  <2> QED
    BY <1>1, <2>3, Zenon DEF FileTypes
<1>5. AppTypes' /\ Counts' /\ (killed \in BOOLEAN)'
  BY <1>1, Zenon DEF AppTypes, Counts
<1>6. PinHeld'
  BY <1>1, <1>2, <1>3, Zenon DEF PinHeld
<1>7. job.status # "failed"
  BY <1>2, <1>3, SMT DEF Planned
<1>8. Resolution' = Resolution /\ Registered' = Registered
  BY <1>1, SameResolution, SameRegistered
<1>9. SyncKept' /\ LockHolds' /\ RegistryHolds'
  BY <1>1, <1>2, <1>3, <1>7, <1>8, Zenon DEF SyncKept, LockHolds, RegistryHolds, Idle
<1> QED
  BY <1>2, <1>4, <1>5, <1>6, <1>9

LEMMA BlockStep ==
  ASSUME IInv, Block
  PROVE  IInv'
<1> USE DEF IInv, Types, At, Became
<1>1. /\ ~Idle /\ Next1 /\ Head(job.todo) = "block" /\ py' = [py EXCEPT !.block = lock]
      /\ UNCHANGED <<tree, modules, gitlink, rev, lock, registry, flake, runs, faults, killed>>
  BY Zenon DEF Block, Idle
<1>2. /\ Behind(job.todo, job'.todo) /\ job.todo \in Plans /\ job.todo # <<>>
      /\ job'.cmd = job.cmd /\ job'.status = job.status /\ job'.kept = job.kept /\ job'.orig = job.orig
      /\ JobTypes' /\ Planned'
  BY <1>1, Advance, AdvancePlanned DEF Idle
<1>3. job.todo = <<"block">> /\ job'.todo = <<>>
  BY <1>1, <1>2, PlanSteps, Zenon
<1>4. job.todo \in Resolved /\ job.todo \in Enlisted /\ job.todo \notin Leaving \cup Holding
  BY <1>3, SMT DEF Resolved, Enlisted, Leaving, Holding, B, UB, LUB
<1>5. /\ FileTypes' /\ py'.pinned = py.pinned /\ py'.members = py.members /\ py'.group = py.group
      /\ py'.root = py.root /\ py'.block = lock
  <2>1. py \in Pyprojects /\ lock \in Locks
    BY DEF FileTypes
  <2>2. py' \in Pyprojects
    BY <1>1, <2>1, Zenon DEF Pyprojects
  <2>3. py'.pinned = py.pinned
    BY <1>1, <2>1, Zenon DEF Pyprojects
  <2>4. py'.members = py.members /\ py'.group = py.group /\ py'.root = py.root /\ py'.block = lock
    BY <1>1, <2>1, SMT DEF Pyprojects
  <2> QED
    BY <1>1, <2>2, <2>3, <2>4, Zenon DEF FileTypes
<1>6. AppTypes' /\ Counts' /\ (killed \in BOOLEAN)'
  BY <1>1, Zenon DEF AppTypes, Counts
<1>7. PinHeld'
  BY <1>1, <1>2, <1>4, <1>5, Zenon DEF PinHeld
<1>8. job.status # "failed"
  BY <1>2, <1>4, SMT DEF Planned
<1>9. Resolution' = Resolution /\ Registered' = Registered
  BY <1>1, <1>5, SameResolution, SameRegistered
<1>10. SyncKept' /\ LockHolds' /\ RegistryHolds'
  BY <1>1, <1>2, <1>4, <1>5, <1>8, <1>9, Zenon DEF SyncKept, LockHolds, RegistryHolds
<1> QED
  BY <1>2, <1>5, <1>6, <1>7, <1>10

\* The root sync's way out.
LEMMA PutBackStep ==
  ASSUME IInv, PutPyproject \/ PutLock
  PROVE  IInv'
<1> USE DEF IInv, Types, At, Became
<1>1. /\ ~Idle /\ Next1 /\ Head(job.todo) \in {"putpy", "putlock"}
      /\ UNCHANGED <<tree, modules, gitlink, rev, registry, flake, runs, faults, killed>>
  BY Zenon DEF PutPyproject, PutLock, Idle
<1>2. /\ Behind(job.todo, job'.todo) /\ job.todo \in Plans /\ job.todo # <<>>
      /\ job'.cmd = job.cmd /\ job'.status = job.status /\ job'.kept = job.kept /\ job'.orig = job.orig
      /\ JobTypes' /\ Planned'
  BY <1>1, Advance, AdvancePlanned DEF Idle
<1>3. job.kept \in Pyprojects \X Locks
  BY SMT DEF JobTypes, Job
<1>4. job.kept[1] \in Pyprojects /\ job.kept[2] \in Locks /\ job.kept = <<job.kept[1], job.kept[2]>>
  BY <1>3, SMT
<1>5. /\ \/ /\ job.todo = <<"putpy", "putlock">> /\ job'.todo = <<"putlock">>
            /\ py' = job.kept[1] /\ lock' = lock
         \/ job.todo = <<"putlock">> /\ job'.todo = <<>> /\ py' = py /\ lock' = job.kept[2]
      /\ job.todo \in Leaving \ Holding
  <2>1. CASE PutPyproject
    <3>1. job.todo = <<"putpy", "putlock">> /\ job'.todo = <<"putlock">>
      BY <1>2, <2>1, PlanSteps, Zenon DEF PutPyproject
    <3> QED
      BY <2>1, <3>1, SMT DEF PutPyproject, Leaving, Holding, LUB, UB
  <2>2. CASE PutLock
    <3>1. job.todo = <<"putlock">> /\ job'.todo = <<>>
      BY <1>2, <2>2, PlanSteps, Zenon DEF PutLock
    <3> QED
      BY <2>2, <3>1, SMT DEF PutLock, Leaving, Holding, LUB, UB
  <2> QED
    BY <2>1, <2>2
<1>6. job.cmd = "sync" /\ job.status = "failed" /\ job.orig = <<>>
  <2>1. job.cmd = "sync"
    BY <1>5, Zenon DEF Planned
  <2>2. job.status = "failed"
    BY <1>2, <1>5, SMT DEF Planned, JobTypes, Job
  <2> QED
    BY <1>1, <1>5, <2>1, <2>2, Zenon DEF PinHeld
<1>7. FileTypes'
  BY <1>1, <1>4, <1>5, Zenon DEF FileTypes
<1>8. AppTypes' /\ Counts' /\ (killed \in BOOLEAN)'
  BY <1>1, Zenon DEF AppTypes, Counts
<1>9. PinHeld'
  BY <1>1, <1>2, <1>5, <1>6, Zenon DEF PinHeld
<1>10. SyncKept'
  <2>1. CASE job'.todo = <<"putlock">>
    <3>1. py' = job.kept[1] /\ job'.todo # <<>>
      BY <1>5, <2>1, SMT
    <3> QED
      BY <1>2, <3>1, Zenon DEF SyncKept
  <2>2. CASE job'.todo = <<>>
    <3>1. job.todo = <<"putlock">> /\ py' = py /\ lock' = job.kept[2] /\ job'.todo # <<"putlock">>
      BY <1>5, <2>2, SMT
    <3>2. py = job.kept[1]
      BY <1>6, <3>1 DEF SyncKept
    <3> QED
      BY <1>2, <1>4, <3>1, <3>2, Zenon DEF SyncKept
  <2> QED
    BY <1>5, <2>1, <2>2
<1>11. LockHolds' /\ RegistryHolds'
  BY <1>2, <1>6, SMT DEF LockHolds, RegistryHolds
<1> QED
  BY <1>2, <1>7, <1>8, <1>9, <1>10, <1>11


-----------------------------------------------------------------------------
(***************************************************************************)
(* Failures, and the commands themselves.                                  *)
(***************************************************************************)
LEMMA CleanupIs ==
  ASSUME NEW cmd, NEW orig
  PROVE  LET c == Cleanup(cmd, orig)
         IN  /\ c \in Plans /\ c \in Leaving \cup {<<>>}
             /\ orig # <<>> => c \in Holding
             /\ cmd = "sync" => c \in {<<"unpin", "putpy", "putlock">>, <<"putpy", "putlock">>}
             /\ cmd # "sync" => c \in {<<"unpin">>, <<>>}
<1>1. /\ <<"unpin">> \o <<"putpy", "putlock">> = <<"unpin", "putpy", "putlock">>
      /\ <<>> \o <<"putpy", "putlock">> = <<"putpy", "putlock">>
      /\ <<"unpin">> \o <<>> = <<"unpin">> /\ <<>> \o <<>> = <<>>
  <2>1. <<"putpy", "putlock">> \in Seq(StepNames) /\ <<"unpin">> \in Seq(StepNames) /\ <<>> \in Seq(StepNames)
    BY EmptySeq, SMT DEF StepNames, WayOut
  <2> QED
    BY <2>1, Concat12, ConcatEmptySeq
<1>2. \/ cmd = "sync" /\ orig # <<>> /\ Cleanup(cmd, orig) = <<"unpin", "putpy", "putlock">>
      \/ cmd = "sync" /\ orig = <<>> /\ Cleanup(cmd, orig) = <<"putpy", "putlock">>
      \/ cmd # "sync" /\ orig # <<>> /\ Cleanup(cmd, orig) = <<"unpin">>
      \/ cmd # "sync" /\ orig = <<>> /\ Cleanup(cmd, orig) = <<>>
  BY <1>1, Zenon DEF Cleanup
<1> QED
  BY <1>2, Zenon DEF Plans, Leaving, Holding, Enlisted

LEMMA LeaveKeeps ==
  ASSUME IInv, ~Idle, job.todo \notin Leaving, Leave,
         UNCHANGED <<bench, flake, runs, killed>>, faults' \in 0..MaxFaults
  PROVE  IInv'
<1> USE DEF IInv, Types, bench
<1> DEFINE c == Cleanup(job.cmd, job.orig)
<1>1. /\ c \in Plans /\ c \in Leaving \cup {<<>>}
      /\ job.orig # <<>> => c \in Holding
      /\ job.cmd = "sync" => c \in {<<"unpin", "putpy", "putlock">>, <<"putpy", "putlock">>}
      /\ job.cmd # "sync" => c \in {<<"unpin">>, <<>>}
  BY CleanupIs, Zenon
<1>2. job' = [job EXCEPT !.todo = c, !.status = "failed"]
  BY DEF Leave
<1> HIDE DEF c
<1>3. c \in Seq(StepNames)
  BY <1>1, PlansTyped
<1>4. job' \in Job
  BY <1>2, <1>3, Zenon DEF JobTypes, Job
<1>5. /\ job'.todo = c /\ job'.orig = job.orig /\ job'.cmd = job.cmd /\ job'.status = "failed"
      /\ job'.kept = job.kept /\ job'.app = job.app /\ job'.to = job.to
  BY <1>2, SMT DEF JobTypes, Job
<1>6. JobTypes'
  BY <1>4, <1>5, Zenon DEF JobTypes, Idle
<1>7. c \notin Pulling \cup {<<"moved">>}
  BY <1>1, SMT DEF Leaving, Pulling
<1>8. Planned'
  <2>1. <<"unpin">> \notin {<<"unpin", "putpy", "putlock">>, <<"putpy", "putlock">>, <<>>, <<"putlock">>}
    BY SMT
  <2>2. <<>> \notin {<<"unpin", "putpy", "putlock">>, <<"putpy", "putlock">>, <<"putlock">>}
    BY SMT
  <2> QED
    BY <1>1, <1>5, <1>7, <2>1, <2>2, Zenon DEF Planned
<1>9. AppTypes' /\ FileTypes' /\ Counts' /\ (killed \in BOOLEAN)'
  BY Zenon DEF AppTypes, FileTypes, Counts
<1>10. PinHeld'
  BY <1>1, <1>5, Zenon DEF PinHeld
<1>11. SyncKept'
  <2>1. /\ <<>> \notin {<<"unpin", "putpy", "putlock">>, <<"putpy", "putlock">>}
        /\ <<"putlock">> \notin {<<"unpin", "putpy", "putlock">>, <<"putpy", "putlock">>}
    BY SMT
  <2> QED
    BY <1>1, <1>5, <2>1, Zenon DEF SyncKept
<1>12. LockHolds' /\ RegistryHolds'
  BY <1>5, SMT DEF LockHolds, RegistryHolds
<1> QED
  BY <1>6, <1>8, <1>9, <1>10, <1>11, <1>12

LEMMA FailStep ==
  ASSUME IInv, Stuck \/ Fail
  PROVE  IInv'
<1> USE DEF IInv, Types
<1>1. CASE Stuck
  <2>1. ~Idle /\ Head(job.todo) \in {"add", "scaffold", "lock"}
    BY <1>1, Zenon DEF Stuck, At, Idle
  <2>2. Behind(job.todo, Tail(job.todo)) /\ job.todo \in Plans
    BY <2>1, TailOf DEF Planned, Idle
  <2>3. job.todo \notin Leaving
    BY <2>1, <2>2, PlanSteps, SMT
  <2>4. Leave /\ UNCHANGED <<bench, flake, runs, killed>> /\ faults' \in 0..MaxFaults
    BY <1>1, SMT DEF Stuck, Became, Counts
  <2> QED
    BY <2>1, <2>3, <2>4, LeaveKeeps
<1>2. CASE Fail
  <2>1. ~Idle /\ Leave /\ UNCHANGED <<bench, flake, runs, killed>> /\ job.status = "ok"
    BY <1>2, Zenon DEF Fail, Fault
  <2>2. faults' \in 0..MaxFaults
    BY <1>2, BenchAssumption, SMT DEF Fail, Fault, Counts
  <2> QED
    BY <2>1, <2>2, LeaveKeeps DEF Planned
<1> QED
  BY <1>1, <1>2

LEMMA KillStep ==
  ASSUME IInv, Kill
  PROVE  IInv'
<1> USE DEF IInv, Types
<1>1. /\ ~Idle /\ job' = [job EXCEPT !.todo = <<>>, !.status = "killed"] /\ killed' = TRUE
      /\ UNCHANGED <<tree, modules, gitlink, rev, py, lock, registry, flake, runs>>
  BY Zenon DEF Kill, Fault, bench
<1>2. faults' \in 0..MaxFaults
  BY BenchAssumption, SMT DEF Kill, Fault, Counts
<1>3. job' \in Job
  <2>1. <<>> \in Seq(StepNames)
    BY EmptySeq
  <2> QED
    BY <1>1, <2>1, Zenon DEF JobTypes, Job
<1>4. job'.todo = <<>> /\ job'.status = "killed" /\ job'.orig = job.orig
  BY <1>1, SMT DEF JobTypes, Job
<1>5. JobTypes'
  BY <1>3, <1>4, Zenon DEF JobTypes, Idle
<1>6. Planned'
  <2>1. <<>> \notin {<<"unpin", "putpy", "putlock">>, <<"putpy", "putlock">>, <<"putlock">>, <<"unpin">>}
    BY SMT
  <2>2. <<>> \in Plans
    BY SequelPlans, Zenon DEF Plans
  <2> QED
    BY <1>4, <2>1, <2>2, SequelPlans, SMT DEF Planned
<1>7. AppTypes' /\ FileTypes' /\ Counts' /\ (killed \in BOOLEAN)'
  BY <1>1, <1>2, Zenon DEF AppTypes, FileTypes, Counts
<1>8. PinHeld'
  BY <1>1, <1>4, Zenon DEF PinHeld, Idle
<1>9. SyncKept' /\ LockHolds' /\ RegistryHolds'
  BY <1>4, SMT DEF SyncKept, LockHolds, RegistryHolds
<1> QED
  BY <1>5, <1>6, <1>7, <1>8, <1>9

\* A command that starts, or is refused: it takes its copies of files that no pin is in,
\* unless a kill has left one.
LEMMA StartKeeps ==
  ASSUME IInv, Idle, NEW cmd \in Commands \cup {"remove"}, NEW a \in Apps, NEW n \in Apps,
         NEW T \in Plans, NEW status \in {"ok", "refused"}, job' = NewJob(cmd, a, n, T, status),
         status = "refused" => T = <<>>,
         status = "ok" => /\ T \notin Leaving \cup Holding \cup Resolved
                          /\ T \in Pulling \cup {<<"moved">>} => cmd = "pull"
                          /\ T \in Enlisted => cmd \in {"deps", "relock", "sync"},
         UNCHANGED <<bench, flake, faults, killed>>, runs' \in 0..MaxRuns
  PROVE  IInv'
<1> USE DEF IInv, Types, bench
<1>1. /\ job'.todo = T /\ job'.orig = <<>> /\ job'.cmd = cmd /\ job'.status = status
      /\ job'.kept = <<py, lock>> /\ job'.app = a /\ job'.to = n
  BY SMT DEF NewJob
<1>2. job' \in Job
  <2> DEFINE F == [x \in Apps |-> IF Readable({x}) THEN rev[x] ELSE NoRev]
             L == {x \in Apps : Kind(x) # "unknown"}
  <2>1. F \in [Apps -> 0..MaxRev \cup {NoRev}]
    BY SMT DEF AppTypes
  <2>2. L \in SUBSET Apps /\ <<py, lock>> \in Pyprojects \X Locks /\ <<>> \in Seq(Pyprojects)
    BY EmptySeq, Zenon DEF FileTypes
  <2>3. T \in Seq(StepNames)
    BY PlansTyped
  <2>4. job' = [cmd |-> cmd, app |-> a, to |-> n, todo |-> T, status |-> status, before |-> F, left |-> L,
                kept |-> <<py, lock>>, orig |-> <<>>]
    BY Zenon DEF NewJob
  <2> HIDE DEF F, L
  <2>5. cmd \in Commands \cup {"none", "remove"} /\ a \in Apps \cup {NoApp} /\ n \in Apps \cup {NoApp}
    OBVIOUS
  <2>6. status \in {"ok", "failed", "refused", "killed"}
    OBVIOUS
  <2>7. [cmd |-> cmd, app |-> a, to |-> n, todo |-> T, status |-> status, before |-> F, left |-> L,
         kept |-> <<py, lock>>, orig |-> <<>>] \in Job
    BY <2>1, <2>2, <2>3, <2>5, <2>6, Zenon DEF Job
  <2> QED
    BY <2>4, <2>7, Zenon
<1>3. JobTypes'
  <2>1. Len(job'.orig) <= 1
    BY <1>1, SMT
  <2> QED
    BY <1>1, <1>2, <2>1, Zenon DEF JobTypes
<1>4. T \notin Leaving
  BY SequelPlans, Zenon
<1>5. Planned'
  <2>1. <<"unpin">> \in Leaving /\ <<"putlock">> \in Leaving /\ <<"putpy", "putlock">> \in Leaving
        /\ <<"unpin", "putpy", "putlock">> \in Leaving
    BY DEF Leaving
  <2>2. status = "ok" \/ status = "refused"
    OBVIOUS
  <2>3. T \in Pulling \cup {<<"moved">>} => cmd = "pull"
    BY <2>2, SequelPlans, Zenon
  <2>4. status # "failed" /\ status # "killed"
    BY <2>2
  <2> QED
    BY <1>1, <1>4, <2>1, <2>2, <2>3, <2>4, Zenon DEF Planned
<1>6. AppTypes' /\ FileTypes' /\ Counts' /\ (killed \in BOOLEAN)'
  BY Zenon DEF AppTypes, FileTypes, Counts
<1>7. ~killed => ~py.pinned
  BY SequelPlans, Zenon DEF PinHeld, Idle
<1>8. PinHeld'
  <2>1. job'.kept[1] = py
    BY <1>1, SMT
  <2> QED
    BY <1>1, <1>7, <2>1, Zenon DEF PinHeld
<1>9. SyncKept'
  BY <1>1, SMT DEF SyncKept
<1>10. LockHolds' /\ RegistryHolds'
  <2>1. status = "ok" => T \notin Resolved /\ T # <<>>
    BY SequelPlans, Zenon
  <2>2. status = "ok" /\ T \in Enlisted => cmd \notin {"get", "new", "remove", "rename", "pull"}
    BY SMT
  <2> QED
    BY <1>1, <2>1, <2>2, Zenon DEF LockHolds, RegistryHolds, Idle
<1> QED
  BY <1>3, <1>5, <1>6, <1>8, <1>9, <1>10

LEMMA CommandStep ==
  ASSUME IInv, \/ \E cmd \in Commands, a, n \in Apps : Start(cmd, a, n)
               \/ \E a \in Apps : FinishRemoval(a)
  PROVE  IInv'
<1>1. ASSUME NEW cmd \in Commands, NEW a \in Apps, NEW n \in Apps, Start(cmd, a, n) PROVE IInv'
  <2>1. Idle /\ UNCHANGED <<bench, flake, faults, killed>>
    BY <1>1, Zenon DEF Start
  <2>2. runs' \in 0..MaxRuns
    BY <1>1, BenchAssumption, SMT DEF Start, IInv, Types, Counts
  <2>3. CASE Accepted(cmd, a, n) /\ job' = NewJob(cmd, a, n, Steps(cmd, a), "ok")
    BY <2>1, <2>2, <2>3, StepsPlan, StartKeeps
  <2>4. CASE job' = NewJob(cmd, a, n, <<>>, "refused")
    BY <2>1, <2>2, <2>4, SequelPlans, StartKeeps DEF Plans
  <2> QED
    BY <1>1, <2>3, <2>4, Zenon DEF Start
<1>2. ASSUME NEW a \in Apps, FinishRemoval(a) PROVE IInv'
  <2>1. /\ Idle /\ CanRemove(a) /\ UNCHANGED <<bench, flake, runs, faults, killed>>
        /\ job' = NewJob("remove", a, a, Steps("remove", a), "ok")
    BY <1>2, Zenon DEF FinishRemoval
  <2>2. Accepted("remove", a, a)
    BY <2>1, SMT DEF Accepted
  <2>3. runs' \in 0..MaxRuns
    BY <2>1, SMT DEF IInv, Types, Counts
  <2> QED
    BY <2>1, <2>2, <2>3, StepsPlan, StartKeeps
<1> QED
  BY <1>1, <1>2

\* What the invariant says is said of the bench, the job and the kill.
LEMMA SameBench ==
  ASSUME IInv, UNCHANGED <<bench, job, killed>>, Counts'
  PROVE  IInv'
<1> USE DEF IInv, Types
<1>1. UNCHANGED <<tree, modules, gitlink, rev, py, lock, registry, job, killed>>
  BY DEF bench
<1>2. AppTypes' /\ FileTypes' /\ (killed \in BOOLEAN)'
  BY <1>1, Zenon DEF AppTypes, FileTypes
<1>3. JobTypes'
  BY <1>1, Zenon DEF JobTypes, Idle
<1>4. Planned'
  BY <1>1, Zenon DEF Planned
<1>5. PinHeld'
  BY <1>1, SMT DEF PinHeld, Idle
<1>6. Resolution' = Resolution /\ Registered' = Registered
  BY <1>1, SameResolution, SameRegistered
<1>7. SyncKept' /\ LockHolds' /\ RegistryHolds'
  BY <1>1, <1>6, Zenon DEF SyncKept, LockHolds, RegistryHolds, Idle
<1> QED
  BY <1>2, <1>3, <1>4, <1>7, <1>5

LEMMA BumpStep ==
  ASSUME IInv, Bump
  PROVE  IInv'
<1>1. Counts'
  BY BenchAssumption, SMT DEF Bump, IInv, Types, Counts
<1> QED
  BY <1>1, SameBench DEF Bump

-----------------------------------------------------------------------------
LEMMA InitIInv == Init => IInv
<1> SUFFICES ASSUME Init PROVE IInv
  OBVIOUS
<1> DEFINE M == {a \in Apps : a \in modules \/ tree[a] = "source"}
           K == [apps |-> Taken(M), group |-> Taken(M), root |-> 0]
<1>1. /\ py = [members |-> M, group |-> Taken(M), root |-> 0, pinned |-> FALSE, block |-> K]
      /\ lock = K /\ registry = Taken(M)
  BY Zenon DEF Init
<1>2. AppTypes
  BY BenchAssumption, SMT DEF Init, AppTypes
<1>3. M \in SUBSET Apps /\ Taken(M) \in SUBSET Rows
  BY <1>2, TakenRows
<1>4. Counts /\ 0 \in 0..MaxFlake /\ killed = FALSE
  BY BenchAssumption, SMT DEF Init, Counts
<1> HIDE DEF M
<1>5. FileTypes /\ py.pinned = FALSE
  <2>1. K \in Locks
    BY <1>3, <1>4, Zenon DEF Locks
  <2> HIDE DEF K
  <2>2. py \in Pyprojects
    BY <1>1, <1>3, <1>4, <2>1, Zenon DEF Pyprojects
  <2>3. py.pinned = FALSE
    BY <1>1, Zenon
  <2> QED
    BY <1>1, <1>3, <2>1, <2>2, <2>3, Zenon DEF FileTypes
<1>6. job = [cmd |-> "none", app |-> NoApp, to |-> NoApp, todo |-> <<>>, status |-> "ok",
             before |-> [x \in Apps |-> NoRev], left |-> {}, kept |-> <<py, lock>>, orig |-> <<>>]
  BY Zenon DEF Init
<1>7. /\ job.todo = <<>> /\ job.status = "ok" /\ job.cmd = "none" /\ job.orig = <<>> /\ job.kept[1] = py
  BY <1>6, SMT
<1>8. JobTypes
  <2>1. <<>> \in Seq(StepNames) /\ <<>> \in Seq(Pyprojects) /\ Len(<<>>) = 0
    BY EmptySeq
  <2>2. <<py, lock>> \in Pyprojects \X Locks
    BY <1>5, Zenon DEF FileTypes
  <2>3. job \in Job
    BY <1>6, <2>1, <2>2, Zenon DEF Job
  <2>4. Len(job.orig) <= 1
    BY <1>7, <2>1, SMT
  <2> QED
    BY <1>7, <2>3, <2>4, Zenon DEF JobTypes, Idle
<1>9. Planned
  <2>1. <<>> \notin {<<"unpin", "putpy", "putlock">>, <<"putpy", "putlock">>, <<"putlock">>, <<"unpin">>}
    BY SMT
  <2>2. <<>> \in Plans
    BY SequelPlans, Zenon DEF Plans
  <2> QED
    BY <1>7, <2>1, <2>2, SequelPlans, SMT DEF Planned
<1>10. PinHeld
  BY <1>5, <1>7, Zenon DEF PinHeld
<1>11. SyncKept /\ LockHolds /\ RegistryHolds
  BY <1>7, SMT DEF SyncKept, LockHolds, RegistryHolds
<1>12. killed \in BOOLEAN
  BY <1>4, Zenon
<1> QED
  BY <1>2, <1>4, <1>5, <1>8, <1>9, <1>10, <1>11, <1>12 DEF IInv, Types

LEMMA StepIInv == IInv /\ [Next]_vars => IInv'
<1> SUFFICES ASSUME IInv, [Next]_vars PROVE IInv'
  OBVIOUS
<1>1. CASE UNCHANGED vars
  <2>1. UNCHANGED <<bench, flake, job, runs, faults, killed>>
    BY <1>1 DEF vars
  <2>2. Counts'
    BY <2>1, Zenon DEF IInv, Types, Counts
  <2> QED
    BY <2>1, <2>2, SameBench
<1>2. ASSUME Step PROVE IInv'
  BY <1>2, DigStep, MembersStep, RegistryStep, PullStep, PulledStep, MovedStep, RootStep, PinStep, UnpinStep,
     LockStep, BlockStep, PutBackStep, FailStep, Zenon DEF Step
<1> QED
  BY <1>1, <1>2, CommandStep, BumpStep, FailStep, KillStep, Zenon DEF Next

-----------------------------------------------------------------------------
\* The invariant the theorems below follow from.
THEOREM Inductive == Spec => []IInv
<1> QED
  BY InitIInv, StepIInv, PTL DEF Spec

\* The shapes of the files and of the job that works on them (TypeOK), for any apps,
\* commands, runs and faults.
THEOREM TypeCorrect == Spec => []TypeOK
<1>1. IInv => TypeOK
  BY Zenon DEF IInv, Types, AppTypes, FileTypes, Counts, JobTypes, Job, TypeOK
<1> QED
  BY <1>1, Inductive, PTL

\* A command that ends well leaves the lock, the build-dependency block and the registry
\* in step with the apps (DoneInStep), whatever earlier ones that failed or were killed
\* left behind.
THEOREM DoneInStepHolds == Spec => []DoneInStep
<1>1. IInv => DoneInStep
  BY SequelPlans, Zenon DEF IInv, LockHolds, RegistryHolds, DoneInStep, LockInStep, RegistryInStep, Ran, Idle
<1> QED
  BY <1>1, Inductive, PTL

\* A root sync that failed leaves both files as it found them, and only a kill leaves the
\* pin in pyproject.toml (PutsBack).
THEOREM PutsBackHolds == Spec => []PutsBack
<1>1. IInv => PutsBack
  BY SequelPlans, Zenon DEF IInv, SyncKept, PinHeld, PutsBack, SyncPutsBack, PinPutBack, Idle
<1> QED
  BY <1>1, Inductive, PTL
=============================================================================
