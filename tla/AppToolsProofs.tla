--------------------------- MODULE AppToolsProofs ---------------------------
(***************************************************************************)
(* Theorems of AppTools, for any tools, command lines, and any numbers of  *)
(* runs, faults and commands by hand. The invariant is one of each tool's  *)
(* record, whatever the others do (Good), with the numbers that keep the   *)
(* runs apart and those who have yet to start the app processes again.     *)
(* What --out holds (OutInv) is proved of one tester: nothing keeps two    *)
(* runs of frappe-test from each other's output.                           *)
(***************************************************************************)
EXTENDS AppTools, TLAPS

NoLine == [kind |-> "none"]
Cuts == {"no", "signal", "prompt", "devenv", "undo", "finally", "killed"}
Codes == 0..10 \cup {64, 130, 137}
Records ==
  [at : Phases, run : Makers, line : CommandLines \cup {NoLine}, saw : Makers, said : BOOLEAN,
   found : BOOLEAN, own : BOOLEAN, halted : BOOLEAN, bad : SUBSET Stages, env : BOOLEAN,
   have : BOOLEAN, judged : Makers, code : Codes, cut : Cuts]

\* A run, once it was started: a number that no other tool's last run has.
Started == 1..runs
Globals ==
  /\ bench \in {User, None} \cup Started /\ site \in {User, None} \cup Started
  /\ apps \in BOOLEAN /\ torn \in BOOLEAN /\ (apps => bench # None)
  /\ out \in [cov : {User, None} \cup Started, report : [run : {User, None} \cup Started, code : 0..10]]
  /\ runs \in 0..MaxRuns /\ faults \in 0..MaxFaults /\ users \in 0..MaxUser
Apart ==
  /\ tool \in [Tools -> Records]
  /\ \A t, u \in Tools : tool[t].run # None /\ tool[t].run = tool[u].run => t = u

\* What is so of a tool whose record is r, line by line: its numbers, which tools have which
\* phases, whose the bench is, and what it was told of the site.
Known(t, r, n) ==
  /\ r \in Records /\ (r.line = NoLine \/ r.line \in Lines[t])
  /\ r.line = NoLine => r.at = "idle" /\ r.run = None
  /\ r.run \in {None} \cup 1..n /\ r.saw \in {User, None} \cup 1..n
  /\ r.line # NoLine => r.run # None
ByKind(r) ==
  /\ r.at \in {"plan", "undo", "setup", "tests", "coverage", "checks", "report"} => r.line.kind = "test"
  /\ r.at \in {"first", "web", "shoot"} => r.line.kind = "shots"
  /\ r.at = "data" => r.line.kind \in {"demo", "shots"}
  /\ r.at = "finally" => r.line.kind \in {"test", "shots"}
Early == {"prompt", "plan", "first", "up", "devenv"}
Leaves(r) == r.line.kind = "shots" \/ (r.line.kind = "test" /\ ~r.line.keep)
Holds(r, b) ==
  /\ r.own => ~r.found
  /\ r.at \in {"prompt", "plan", "first"} \/ (r.at = "up" /\ r.line.kind # "shots") => ~r.own
  /\ r.at \in {"devenv", "undo"} => ~r.found \/ r.line.kind = "shots"
  /\ r.at \in {"up", "devenv"} /\ r.line.kind = "shots" => (r.found \/ r.own)
  /\ r.at \in Early => b # r.run
  /\ r.run # None /\ b = r.run /\ ~r.found /\ Leaves(r) =>
       \/ r.own /\ r.at # "idle"
       \/ r.at = "undo"
       \/ r.at \in {"idle", "finally"} /\ r.cut \notin {"no", "signal"}
Told(r, s) ==
  /\ r.at # "idle" /\ r.saw # None => s # None
  /\ r.at \in {"plan", "first", "up", "devenv", "wait", "site", "drop"} /\ r.saw # None /\ ~r.said =>
       /\ r.line.consent = "reuse" \/ (r.line.kind = "demo" /\ ~r.line.fresh)
       /\ r.line.kind = "shots" => r.at = "first"
       /\ r.at # "drop"
Good(t, r, b, s, n) == Known(t, r, n) /\ ByKind(r) /\ Holds(r, b) /\ Told(r, s)

\* The processes that were stopped have someone to start them.
Halted ==
  bench # None /\ ~apps /\ ~torn =>
    \E t \in Tools : tool[t].at \in {"drop", "make", "again"} /\ tool[t].halted

IInv == Globals /\ Apart /\ Halted /\ \A t \in Tools : Good(t, tool[t], bench, site, runs)

LEMMA LineKinds ==
  ASSUME NEW l \in CommandLines
  PROVE  /\ l.kind \in {"test", "demo", "shots"} /\ l # NoLine
         /\ l.kind = "test" => /\ l.consent \in {"ask", "recreate", "reuse", "ci"}
                               /\ l.keep \in BOOLEAN /\ l.filtered \in BOOLEAN
         /\ l.kind = "demo" => /\ l.consent \in {"ask", "recreate", "ci"}
                               /\ l.fresh \in BOOLEAN /\ l.up \in BOOLEAN
         /\ l.kind = "shots" => l.consent \in {"ask", "recreate", "reuse", "ci"}
BY SMT DEF CommandLines, TestLines, DemoLines, ShotsLines, NoLine

LEMMA VerdictIs ==
  ASSUME NEW bad \in SUBSET Stages, NEW env \in BOOLEAN
  PROVE  Verdict(bad, env) \in 0..10
<1>1. CASE env
  BY <1>1 DEF Verdict
<1>2. CASE ~env /\ bad = {}
  BY <1>2 DEF Verdict
<1>3. CASE ~env /\ bad # {}
  <2> DEFINE Picked(i) == Verdicts[i] \in bad /\ \A j \in 1..(i-1) : Verdicts[j] \notin bad
  <2>1. \E i \in DOMAIN Verdicts : Picked(i)
    <3> SUFFICES ASSUME \A i \in 1..7 : ~Picked(i)
                 PROVE  FALSE
      BY SMT DEF Verdicts
    <3>1. Verdicts[1] \notin bad
      BY SMT
    <3>2. Verdicts[2] \notin bad
      BY <3>1, SMT
    <3>3. Verdicts[3] \notin bad
      BY <3>1, <3>2, SMT
    <3>4. Verdicts[4] \notin bad
      BY <3>1, <3>2, <3>3, SMT
    <3>5. Verdicts[5] \notin bad
      BY <3>1, <3>2, <3>3, <3>4, SMT
    <3>6. Verdicts[6] \notin bad
      BY <3>1, <3>2, <3>3, <3>4, <3>5, SMT
    <3>7. Verdicts[7] \notin bad
      BY <3>1, <3>2, <3>3, <3>4, <3>5, <3>6, SMT
    <3> QED
      BY <1>3, <3>1, <3>2, <3>3, <3>4, <3>5, <3>6, <3>7 DEF Verdicts, Stages
  <2>2. Verdict(bad, env) = CHOOSE i \in DOMAIN Verdicts : Picked(i)
    BY <1>3 DEF Verdict
  <2>3. Verdict(bad, env) \in DOMAIN Verdicts
    BY <2>1, <2>2
  <2> QED
    BY <2>3, SMT DEF Verdicts
<1> QED
  BY <1>1, <1>2, <1>3

\* A record with one field set anew.
LEMMA RecordSets ==
  ASSUME NEW r \in Records
  PROVE  /\ \A x \in Phases : [r EXCEPT !.at = x] \in Records
         /\ \A x \in BOOLEAN : /\ [r EXCEPT !.said = x] \in Records
                              /\ [r EXCEPT !.found = x] \in Records
                              /\ [r EXCEPT !.own = x] \in Records
                              /\ [r EXCEPT !.halted = x] \in Records
                              /\ [r EXCEPT !.env = x] \in Records
                              /\ [r EXCEPT !.have = x] \in Records
         /\ \A x \in SUBSET Stages : [r EXCEPT !.bad = x] \in Records
         /\ \A x \in Codes : [r EXCEPT !.code = x] \in Records
         /\ \A x \in Cuts : [r EXCEPT !.cut = x] \in Records
         /\ \A x \in Makers : /\ [r EXCEPT !.judged = x] \in Records
                             /\ [r EXCEPT !.run = x] \in Records
                             /\ [r EXCEPT !.saw = x] \in Records
         /\ \A x \in CommandLines \cup {NoLine} : [r EXCEPT !.line = x] \in Records
<1>1. \A x \in Phases : [r EXCEPT !.at = x] \in Records
  BY SMT DEF Records
<1>2. \A x \in BOOLEAN : /\ [r EXCEPT !.said = x] \in Records
                              /\ [r EXCEPT !.found = x] \in Records
                              /\ [r EXCEPT !.own = x] \in Records
                              /\ [r EXCEPT !.halted = x] \in Records
                              /\ [r EXCEPT !.env = x] \in Records
                              /\ [r EXCEPT !.have = x] \in Records
  BY SMT DEF Records
<1>3. \A x \in SUBSET Stages : [r EXCEPT !.bad = x] \in Records
  BY SMT DEF Records
<1>4. \A x \in Codes : [r EXCEPT !.code = x] \in Records
  BY SMT DEF Records
<1>5. \A x \in Cuts : [r EXCEPT !.cut = x] \in Records
  BY SMT DEF Records
<1>6. \A x \in Makers : /\ [r EXCEPT !.judged = x] \in Records
                             /\ [r EXCEPT !.run = x] \in Records
                             /\ [r EXCEPT !.saw = x] \in Records
  BY SMT DEF Records
<1>7. \A x \in CommandLines \cup {NoLine} : [r EXCEPT !.line = x] \in Records
  BY SMT DEF Records
<1> QED
  BY <1>1, <1>2, <1>3, <1>4, <1>5, <1>6, <1>7

-----------------------------------------------------------------------------
LEMMA TypesAre == IInv => TypeOK
<1> SUFFICES ASSUME IInv PROVE TypeOK
  OBVIOUS
<1>1. Started \subseteq Runs
  BY AppToolsAssumption, SMT DEF IInv, Globals, Started, Runs
<1>2. ASSUME NEW t \in Tools
      PROVE  LET r == tool[t] IN
       /\ r.at \in Phases /\ r.run \in Makers /\ r.saw \in Makers /\ r.judged \in Makers
       /\ r.line.kind = "none" \/ r.line \in Lines[t]
       /\ r.line.kind = "none" => r.at = "idle"
       /\ {r.said, r.found, r.own, r.halted, r.env, r.have} \subseteq BOOLEAN
       /\ r.bad \subseteq Stages /\ r.code \in 0..10 \cup {64, 130, 137}
       /\ r.cut \in {"no", "signal", "prompt", "devenv", "undo", "finally", "killed"}
  <2>1. Known(t, tool[t], runs)
    BY DEF IInv, Good
  <2>2. tool[t].line = NoLine \/ tool[t].line.kind # "none"
    BY <2>1, AppToolsAssumption, LineKinds DEF Known
  <2> QED
    BY <2>1, <2>2, SMT DEF Known, Records, Codes, Cuts, NoLine
<1>3. apps \in BOOLEAN /\ torn \in BOOLEAN /\ (apps => bench # None)
  BY DEF IInv, Globals
<1>4. /\ bench \in Makers /\ site \in Makers /\ out \in [cov : Makers, report : [run : Makers, code : 0..10]]
      /\ runs \in 0..MaxRuns /\ faults \in 0..MaxFaults /\ users \in 0..MaxUser
  BY <1>1, SMT DEF IInv, Globals, Makers
<1> QED
  BY <1>2, <1>3, <1>4, Zenon DEF TypeOK

LEMMA InitIInv == Init => IInv
<1> SUFFICES ASSUME Init PROVE IInv
  OBVIOUS
<1>1. apps \in BOOLEAN /\ (apps => bench # None) /\ (bench # None => apps) /\ torn \in BOOLEAN
  BY Zenon DEF Init
<1>2. Globals
  BY <1>1, AppToolsAssumption, SMT DEF Init, Globals, User, None, NoReport
<1>3. Idle \in Records
  BY AppToolsAssumption, SMT DEF Idle, Records, NoLine, Phases, Makers, None, Codes, Cuts
<1>4. Apart /\ Halted
  BY <1>1, <1>3, SMT DEF Init, Apart, Halted, Idle
<1>5. ASSUME NEW t \in Tools PROVE Good(t, tool[t], bench, site, runs)
  BY <1>3, SMT DEF Init, Good, Known, ByKind, Holds, Told, Idle, NoLine, Early
<1> QED
  BY <1>2, <1>4, <1>5 DEF IInv

\* A step that changes the record of one tool.
LEMMA StepOf ==
  ASSUME IInv, NEW t \in Tools, NEW x \in Records, tool' = [tool EXCEPT ![t] = x],
         Globals', Halted', Good(t, x, bench', site', runs'),
         runs' \in {runs, runs + 1}, x.run = tool[t].run \/ (x.run = runs + 1 /\ runs' = runs + 1),
         bench' \in {bench, None, tool[t].run}, site # None => site' # None
  PROVE  IInv'
<1>1. tool'[t] = x /\ (\A u \in Tools \ {t} : tool'[u] = tool[u]) /\ tool' \in [Tools -> Records]
  BY DEF IInv, Apart
<1>2. \A u \in Tools : tool[u].run \in {None} \cup Started
  BY DEF IInv, Good, Known, Started
<1>3. Apart'
  BY <1>1, <1>2, SMT DEF IInv, Apart, Started, Globals, None
<1>4. ASSUME NEW u \in Tools \ {t} PROVE Good(u, tool'[u], bench', site', runs')
  <2>1. Known(u, tool'[u], runs')
    BY <1>1, SMT DEF IInv, Good, Known, Started, Globals
  <2>2. ByKind(tool'[u]) /\ Told(tool'[u], site')
    BY <1>1, SMT DEF IInv, Good, ByKind, Told
  <2>3. bench' = tool[u].run /\ tool[u].run # None => bench = tool[u].run
    BY <1>2, SMT DEF IInv, Apart
  <2>4. Holds(tool'[u], bench')
    BY <1>1, <2>3, SMT DEF IInv, Good, Holds, Leaves, Early, Known
  <2> QED
    BY <2>1, <2>2, <2>4 DEF Good
<1>5. Good(t, tool'[t], bench', site', runs')
  BY <1>1
<1> QED
  BY <1>3, <1>4, <1>5 DEF IInv

-----------------------------------------------------------------------------
\* What is known of a tool that is at work, for the lemmas below.
LEMMA Now ==
  ASSUME IInv, NEW t \in Tools
  PROVE  /\ tool \in [Tools -> Records] /\ tool[t] \in Records /\ Good(t, tool[t], bench, site, runs)
         /\ tool[t].at # "idle" =>
              /\ tool[t].line \in Lines[t] /\ tool[t].line \in CommandLines /\ tool[t].run \in Started
              /\ tool[t].line.kind \in {"test", "demo", "shots"} /\ tool[t].line # NoLine
  BY AppToolsAssumption, LineKinds, SMT DEF IInv, Apart, Good, Known, Started

\* A step that leaves the bench and the site alone.
LEMMA QuietStep ==
  ASSUME IInv, NEW t \in Tools, NEW x \in Records, tool' = [tool EXCEPT ![t] = x], x.run = tool[t].run,
         UNCHANGED <<bench, apps, site, torn, runs, users>>, Good(t, x, bench, site, runs),
         tool[t].at \in {"drop", "make", "again"} /\ tool[t].halted => x.at \in {"drop", "make", "again"} /\ x.halted,
         faults' \in 0..MaxFaults,
         out' \in [cov : {User, None} \cup Started, report : [run : {User, None} \cup Started, code : 0..10]]
  PROVE  IInv'
<1>1. Globals'
  <2>1. (apps \in BOOLEAN /\ torn \in BOOLEAN /\ (apps => bench # None))'
    BY Zenon DEF IInv, Globals
  <2> QED
    BY <2>1, SMT DEF IInv, Globals, Started
<1>2. Good(t, x, bench', site', runs')
  BY Zenon DEF Good, Known, ByKind, Holds, Told, Started
<1>3. Halted'
  BY SMT DEF IInv, Apart, Halted
<1>4. /\ runs' \in {runs, runs + 1} /\ bench' \in {bench, None, tool[t].run}
      /\ (site # None => site' # None) /\ x.run = tool[t].run
  OBVIOUS
<1> QED
  BY <1>1, <1>2, <1>3, <1>4, StepOf

\* A step that comes to another phase and changes nothing else but faults.
LEMMA GoesKeeps ==
  ASSUME IInv, NEW t \in Tools, NEW phase \in Phases, Goes(t, phase),
         UNCHANGED <<bench, apps, site, torn, runs, users, out>>, faults' \in 0..MaxFaults,
         Good(t, [tool[t] EXCEPT !.at = phase], bench, site, runs),
         tool[t].at \notin {"drop", "make", "again"} \/ phase \in {"drop", "make", "again"}
  PROVE  IInv'
<1> DEFINE x == [tool[t] EXCEPT !.at = phase]
<1>1. x \in Records
  BY Now, RecordSets
<1>2. tool' = [tool EXCEPT ![t] = x] /\ x.run = tool[t].run /\ x.at = phase /\ x.halted = tool[t].halted
  BY Now, SMT DEF Goes, Records
<1>3. out' \in [cov : {User, None} \cup Started, report : [run : {User, None} \cup Started, code : 0..10]]
  BY DEF IInv, Globals
<1>4. Good(t, x, bench, site, runs)
  OBVIOUS
<1>5. tool[t].at \in {"drop", "make", "again"} /\ tool[t].halted => x.at \in {"drop", "make", "again"} /\ x.halted
  BY <1>2
<1> HIDE DEF x
<1> QED
  BY <1>1, <1>2, <1>3, <1>4, <1>5, QuietStep

LEMMA FaultIs == ASSUME IInv, Fault \/ faults' = faults PROVE faults' \in 0..MaxFaults
  BY AppToolsAssumption, SMT DEF IInv, Globals, Fault

LEMMA EndedIs ==
  ASSUME NEW r \in Records, NEW code \in Codes, NEW cut \in Cuts
  PROVE  /\ Ended(r, code, cut) \in Records /\ Ended(r, code, cut).at = "idle"
         /\ Ended(r, code, cut).run = r.run /\ Ended(r, code, cut).line = r.line
         /\ Ended(r, code, cut).found = r.found /\ Ended(r, code, cut).judged = r.judged
         /\ Ended(r, code, cut).code = code /\ Ended(r, code, cut).cut = cut
         /\ ~Ended(r, code, cut).own /\ Ended(r, code, cut).saw = None
<1>1. Idle \in Records
  BY AppToolsAssumption, SMT DEF Idle, Records, NoLine, Phases, Makers, None, Codes, Cuts
<1> DEFINE x == Ended(r, code, cut)
<1>2. /\ x.at = "idle" /\ x.run = r.run /\ x.line = r.line /\ x.found = r.found
      /\ x.judged = r.judged /\ x.code = code /\ x.cut = cut /\ ~x.own /\ x.saw = None
  BY <1>1, SMT DEF Ended, Idle
<1>3. x \in Records
  <2> DEFINE x1 == [Idle EXCEPT !.run = r.run]
             x2 == [x1 EXCEPT !.line = r.line]
             x3 == [x2 EXCEPT !.found = r.found]
             x4 == [x3 EXCEPT !.judged = r.judged]
             x5 == [x4 EXCEPT !.code = code]
  <2>1. x = [x5 EXCEPT !.cut = cut]
    BY DEF Ended
  <2>2. /\ r.run \in Makers /\ r.line \in CommandLines \cup {NoLine} /\ r.found \in BOOLEAN
        /\ r.judged \in Makers
    BY SMT DEF Records
  <2>3. x2 \in Records
    BY <1>1, <2>2, RecordSets
  <2> HIDE DEF x2
  <2>4. x4 \in Records
    BY <2>2, <2>3, RecordSets
  <2> HIDE DEF x4
  <2>5. x5 \in Records
    BY <2>4, RecordSets
  <2> HIDE DEF x5
  <2> QED
    BY <2>1, <2>5, RecordSets
<1> QED
  BY <1>2, <1>3

\* A run that fails.
LEMMA FailedIs ==
  ASSUME NEW r \in Records, r.line.kind \in {"test", "demo", "shots"}
  PROVE  /\ Failed(r) \in Records /\ Failed(r).run = r.run /\ Failed(r).line = r.line
         /\ Failed(r).found = r.found /\ Failed(r).judged = r.judged
         /\ Failed(r).saw \in {None, r.saw}
         /\ r.line.kind = "test" => Failed(r).at = "report" /\ Failed(r).own = r.own
         /\ r.line.kind = "demo" => Failed(r).at = "idle" /\ ~Failed(r).own
         /\ r.line.kind = "shots" => Failed(r).at = "finally" /\ Failed(r).own = r.own
<1>1. CASE r.line.kind = "test"
  <2> DEFINE y == [r EXCEPT !.at = "report"]
  <2>1. Failed(r) = [y EXCEPT !.env = TRUE]
    BY <1>1 DEF Failed
  <2>2. y \in Records
    BY RecordSets, "report" \in Phases DEF Phases
  <2>3. Failed(r) \in Records
    <3> HIDE DEF y
    <3> QED
      BY <2>1, <2>2, RecordSets, TRUE \in BOOLEAN
  <2> QED
    BY <1>1, <2>1, <2>3, SMT DEF Records
<1>2. CASE r.line.kind = "demo"
  <2>1. 10 \in Codes /\ "no" \in Cuts
    BY SMT DEF Codes, Cuts
  <2>2. Failed(r) = Ended(r, 10, "no")
    BY <1>2 DEF Failed
  <2> QED
    BY <1>2, <2>1, <2>2, EndedIs
<1>3. CASE r.line.kind = "shots"
  <2> DEFINE y == [r EXCEPT !.at = "finally"]
  <2>1. Failed(r) = [y EXCEPT !.code = 3]
    BY <1>3 DEF Failed
  <2>2. y \in Records
    BY RecordSets, "finally" \in Phases DEF Phases
  <2>3. 3 \in Codes
    BY SMT DEF Codes
  <2>4. Failed(r) \in Records
    <3> HIDE DEF y
    <3> QED
      BY <2>1, <2>2, <2>3, RecordSets
  <2> QED
    BY <1>3, <2>1, <2>4, SMT DEF Records
<1> QED
  BY <1>1, <1>2, <1>3

LEMMA BegunIs ==
  ASSUME NEW r \in Records, r.line \in CommandLines
  PROVE  /\ Begun(r) \in Records /\ Begun(r).run = r.run /\ Begun(r).line = r.line
         /\ Begun(r).saw = r.saw /\ Begun(r).own = r.own /\ Begun(r).found = r.found
         /\ Begun(r).judged = r.judged /\ Begun(r).cut = r.cut /\ (Begun(r).said <=> r.said)
         /\ r.line.kind = "test" => Begun(r).at = "plan"
         /\ r.line.kind = "shots" => Begun(r).at = "first"
         /\ r.line.kind = "demo" => Begun(r).at \in {"up", "site"}
<1>1. PICK phase \in Phases :
        /\ Begun(r) = [r EXCEPT !.at = phase]
        /\ r.line.kind = "test" => phase = "plan"
        /\ r.line.kind = "shots" => phase = "first"
        /\ r.line.kind = "demo" => phase \in {"up", "site"}
  <2>1. r.line.kind \in {"test", "demo", "shots"}
    BY LineKinds
  <2>2. {"plan", "first", "up", "site"} \subseteq Phases
    BY DEF Phases
  <2>3. CASE r.line.kind = "test"
    BY <2>2, <2>3 DEF Begun
  <2>4. CASE r.line.kind = "shots"
    BY <2>2, <2>4 DEF Begun
  <2>5. CASE r.line.kind = "demo"
    BY <2>2, <2>5 DEF Begun
  <2> QED
    BY <2>1, <2>3, <2>4, <2>5
<1>2. Begun(r) \in Records
  BY <1>1, RecordSets
<1> QED
  BY <1>1, <1>2, SMT DEF Records

-----------------------------------------------------------------------------
\* The record of a run that is started.
Fresh(line) ==
  [Idle EXCEPT !.run = runs + 1, !.line = line, !.saw = site, !.said = line.consent \in {"recreate", "ci"}]

LEMMA FreshIs ==
  ASSUME NEW line \in CommandLines, runs + 1 \in Makers, site \in Makers
  PROVE  /\ Fresh(line) \in Records /\ Fresh(line).at = "idle" /\ Fresh(line).line = line
         /\ Fresh(line).run = runs + 1 /\ Fresh(line).saw = site /\ ~Fresh(line).own /\ ~Fresh(line).found
         /\ (Fresh(line).said <=> line.consent \in {"recreate", "ci"}) /\ Fresh(line).cut = "no"
         /\ Fresh(line).judged = None /\ Fresh(line).code = 0
<1> DEFINE said == line.consent \in {"recreate", "ci"}
           x1 == [Idle EXCEPT !.run = runs + 1]
           x2 == [x1 EXCEPT !.line = line]
           x3 == [x2 EXCEPT !.saw = site]
           r == Fresh(line)
<1>1. Idle \in Records
  BY AppToolsAssumption, SMT DEF Idle, Records, NoLine, Phases, Makers, None, Codes, Cuts
<1>2. x2 \in Records
  BY <1>1, RecordSets
<1>3. r = [x3 EXCEPT !.said = said]
  BY DEF Fresh
<1>4. said \in BOOLEAN
  OBVIOUS
<1>5. r \in Records
  <2> HIDE DEF x2, said
  <2>1. x3 \in Records
    BY <1>2, RecordSets
  <2> HIDE DEF x3
  <2> QED
    BY <1>3, <1>4, <2>1, RecordSets
<1>6. /\ r.at = "idle" /\ r.line = line /\ r.run = runs + 1 /\ r.saw = site /\ ~r.own /\ ~r.found
      /\ r.said = said /\ r.cut = "no" /\ r.judged = None /\ r.code = 0
  <2> HIDE DEF said
  <2> QED
    BY <1>1, <1>3, SMT DEF Idle, Records
<1> QED
  BY <1>5, <1>6

\* The steps of a tool, one by one.
LEMMA StartKeeps ==
  ASSUME IInv, NEW t \in Tools, NEW line \in Lines[t], Start(t, line)
  PROVE  IInv'
<1> DEFINE said == line.consent \in {"recreate", "ci"}
           r == Fresh(line)
<1>1. line \in CommandLines /\ said \in BOOLEAN /\ line # NoLine /\ line.kind \in {"test", "demo", "shots"}
  BY AppToolsAssumption, LineKinds
<1>2. (apps \in BOOLEAN /\ (apps => bench # None) /\ torn \in BOOLEAN)'
  BY Zenon DEF Start, IInv, Globals
<1>3. runs + 1 \in 0..MaxRuns /\ runs + 1 \in Makers /\ site \in Makers /\ runs' = runs + 1 /\ runs \in Nat
  BY AppToolsAssumption, SMT DEF Start, Makers, Runs, IInv, Globals, Started, User, None
<1>4. Globals'
  BY <1>2, <1>3, SMT DEF Start, IInv, Globals, Cleared, NoReport, None, Started
<1>5. /\ r \in Records /\ r.at = "idle" /\ r.line = line /\ r.run = runs + 1 /\ r.saw = site
      /\ ~r.own /\ ~r.found /\ (r.said <=> said) /\ r.cut = "no"
  BY <1>1, <1>3, FreshIs
<1>6. /\ bench' = bench /\ site' = site /\ apps' = apps /\ torn' = torn
      /\ bench # r.run /\ bench' \in {bench, None, tool[t].run}
  BY <1>3, <1>5, SMT DEF Start, IInv, Globals, Started, User, None
<1>7. tool[t].at = "idle" /\ tool \in [Tools -> Records]
  BY Now DEF Start, At
<1>8. ASSUME NEW x \in Records, tool' = [tool EXCEPT ![t] = x], x.run = r.run, Good(t, x, bench', site', runs')
      PROVE  IInv'
  <2>1. Halted'
    BY <1>6, <1>7, <1>8, SMT DEF IInv, Halted
  <2>2. x.run = runs + 1
    BY <1>5, <1>8
  <2> QED
    BY <1>3, <1>4, <1>6, <1>8, <2>1, <2>2, StepOf
<1> HIDE DEF r
<1>9. r.run \in 1..runs' /\ r.saw \in {User, None} \cup 1..runs' /\ r.run # None
  BY <1>3, <1>5, SMT DEF IInv, Globals, Started, None
<1>10. CASE ~MustAsk(line) /\ tool' = [tool EXCEPT ![t] = Begun(r)]
  <2>1. Begun(r) \in Records /\ Begun(r).run = r.run
    BY <1>1, <1>5, BegunIs
  <2>2. Known(t, Begun(r), runs') /\ ByKind(Begun(r)) /\ Holds(Begun(r), bench')
    BY <1>1, <1>5, <1>6, <1>9, BegunIs, SMT DEF Known, ByKind, Holds, Leaves
  <2>3. Told(Begun(r), site')
    <3>1. Begun(r).saw # None => site # None
      BY <1>1, <1>5, BegunIs
    <3>2. Begun(r).saw # None /\ ~Begun(r).said =>
             line.consent = "reuse" \/ (line.kind = "demo" /\ ~line.fresh)
      BY <1>1, <1>5, <1>10, <3>1, BegunIs, LineKinds DEF MustAsk, TestAsks, DemoAsks, ShotsAsks
    <3>3. Begun(r).at # "drop" /\ (line.kind = "shots" => Begun(r).at = "first") /\ Begun(r).line = line
      BY <1>1, <1>5, BegunIs
    <3> QED
      BY <1>6, <3>1, <3>2, <3>3 DEF Told
  <2> QED
    BY <1>8, <1>10, <2>1, <2>2, <2>3 DEF Good
<1>11. CASE tool' = [tool EXCEPT ![t] = [r EXCEPT !.at = "prompt"]]
  <2> DEFINE x == [r EXCEPT !.at = "prompt"]
  <2>1. x \in Records
    BY <1>5, RecordSets, "prompt" \in Phases DEF Phases
  <2>2. x.at = "prompt" /\ x.run = r.run /\ x.line = line /\ x.saw = site /\ ~x.own /\ ~x.found
    BY <1>5, SMT DEF Records
  <2> HIDE DEF x
  <2>3. Good(t, x, bench', site', runs')
    BY <1>1, <1>5, <1>6, <1>9, <2>1, <2>2, SMT DEF Good, Known, ByKind, Holds, Leaves, Told, Early
  <2> QED
    BY <1>8, <1>11, <2>1, <2>2, <2>3 DEF x
<1>12. CASE tool' = [tool EXCEPT ![t] = Refused(r)]
  <2>1. 64 \in Codes /\ "no" \in Cuts /\ Refused(r) = Ended(r, 64, "no")
    BY SMT DEF Codes, Cuts, Refused
  <2>2. /\ Refused(r) \in Records /\ Refused(r).at = "idle" /\ Refused(r).run = r.run
        /\ Refused(r).line = line /\ ~Refused(r).own /\ Refused(r).saw = None
    BY <1>5, <2>1, EndedIs
  <2>3. Good(t, Refused(r), bench', site', runs')
    BY <1>1, <1>5, <1>6, <1>9, <2>2, SMT DEF Good, Known, ByKind, Holds, Leaves, Told, Early
  <2> QED
    BY <1>8, <1>12, <2>2, <2>3
<1> QED
  BY <1>10, <1>11, <1>12 DEF Start, r, Fresh

-----------------------------------------------------------------------------
\* What a record holds after one or two fields were set.
LEMMA AtIs ==
  ASSUME NEW r \in Records, NEW phase \in Phases, NEW x, x = [r EXCEPT !.at = phase]
  PROVE  /\ x \in Records /\ x.at = phase /\ x.run = r.run /\ x.line = r.line /\ x.saw = r.saw
         /\ x.said = r.said /\ x.found = r.found /\ x.own = r.own /\ x.halted = r.halted
         /\ x.bad = r.bad /\ x.env = r.env /\ x.judged = r.judged /\ x.code = r.code /\ x.cut = r.cut
<1>1. x \in Records
  BY RecordSets
<1> QED
  BY <1>1, SMT DEF Records

\* A step of a tool at work, with what it does to the bench and the site.
LEMMA StepOn ==
  ASSUME IInv, NEW t \in Tools, NEW x \in Records, tool' = [tool EXCEPT ![t] = x], x.run = tool[t].run,
         tool[t].at # "idle", runs' = runs, users' = users, faults' \in 0..MaxFaults,
         bench' \in {bench, None, tool[t].run}, site' \in {site, tool[t].run},
         apps' \in BOOLEAN, apps' => bench' # None, torn' \in BOOLEAN,
         out' \in [cov : {User, None} \cup Started, report : [run : {User, None} \cup Started, code : 0..10]],
         \/ bench' = None \/ apps' \/ torn' \/ (x.at \in {"drop", "make", "again"} /\ x.halted)
         \/ /\ bench' = bench /\ apps' = apps /\ torn' = torn
            /\ tool[t].at \in {"drop", "make", "again"} /\ tool[t].halted
                 => x.at \in {"drop", "make", "again"} /\ x.halted,
         Good(t, x, bench', site', runs')
  PROVE  IInv'
<1>1. tool[t].run \in Started /\ tool[t].run # None /\ tool \in [Tools -> Records]
  BY Now, SMT DEF Started, None, IInv, Globals
<1>2. site # None => site' # None
  BY <1>1
<1>3. Globals'
  BY <1>1, SMT DEF IInv, Globals, Started
<1>4. tool'[t] = x /\ \A u \in Tools \ {t} : tool'[u] = tool[u]
  BY <1>1
<1>5. Halted'
  <2> SUFFICES ASSUME (bench # None)', (~apps)', (~torn)'
               PROVE  \E u \in Tools : tool'[u].at \in {"drop", "make", "again"} /\ tool'[u].halted
    BY DEF Halted
  <2>1. CASE x.at \in {"drop", "make", "again"} /\ x.halted
    BY <1>4, <2>1
  <2>2. CASE /\ bench' = bench /\ apps' = apps /\ torn' = torn
             /\ tool[t].at \in {"drop", "make", "again"} /\ tool[t].halted
                 => x.at \in {"drop", "make", "again"} /\ x.halted
    <3>1. PICK u \in Tools : tool[u].at \in {"drop", "make", "again"} /\ tool[u].halted
      BY <2>2 DEF IInv, Halted
    <3> QED
      BY <1>4, <2>2, <3>1
  <2> QED
    BY <2>1, <2>2
<1>6. runs' \in {runs, runs + 1}
  OBVIOUS
<1> QED
  BY <1>2, <1>3, <1>5, <1>6, StepOf

\* A run that failed is in order, whatever failed.
LEMMA FailGood ==
  ASSUME NEW t \in Tools, NEW r \in Records, NEW b, NEW s, NEW n,
         Known(t, r, n), r.line.kind \in {"test", "demo", "shots"}, r.own => ~r.found,
         b # r.run \/ r.own \/ r.found \/ ~Leaves(r), r.at # "idle", r.saw # None => s # None
  PROVE  Good(t, Failed(r), b, s, n)
<1>1. Known(t, Failed(r), n)
  BY FailedIs, SMT DEF Known, NoLine
<1>2. ByKind(Failed(r)) /\ Told(Failed(r), s)
  BY FailedIs, SMT DEF ByKind, Told
<1>3. Holds(Failed(r), b)
  BY FailedIs, SMT DEF Holds, Leaves, Early
<1> QED
  BY <1>1, <1>2, <1>3 DEF Good

\* A tool fails and leaves the bench alone.
LEMMA FailsKeeps ==
  ASSUME IInv, NEW t \in Tools, Fails(t), UNCHANGED <<bench, apps, site, torn, runs, users, out>>,
         faults' \in 0..MaxFaults, tool[t].at \notin {"idle", "undo", "finally", "drop", "make", "again"}
  PROVE  IInv'
<1> DEFINE r == tool[t]
<1>1. /\ tool \in [Tools -> Records] /\ r \in Records /\ Good(t, r, bench, site, runs)
      /\ r.line.kind \in {"test", "demo", "shots"}
  BY Now
<1>2. Failed(r) \in Records /\ Failed(r).run = r.run
  BY <1>1, FailedIs
<1>3. bench # r.run \/ r.own \/ r.found \/ ~Leaves(r)
  BY <1>1, SMT DEF Good, Holds, Known, Early
<1>4. Good(t, Failed(r), bench, site, runs)
  BY <1>1, <1>3, FailGood DEF Good, Holds, Told
<1>5. tool' = [tool EXCEPT ![t] = Failed(r)]
  BY DEF Fails
<1>6. out' \in [cov : {User, None} \cup Started, report : [run : {User, None} \cup Started, code : 0..10]]
  BY DEF IInv, Globals
<1> QED
  BY <1>2, <1>4, <1>5, <1>6, QuietStep

LEMMA ReadPlanKeeps ==
  ASSUME IInv, NEW t \in Tools, ReadPlan(t)
  PROVE  IInv'
<1>1. faults' \in 0..MaxFaults
  BY FaultIs DEF ReadPlan
<1>2. UNCHANGED <<bench, apps, site, torn, runs, users, out>> /\ tool[t].at = "plan"
  BY DEF ReadPlan, Counted, At
<1>3. ASSUME NEW phase \in {"up", "checks"}, Goes(t, phase) PROVE IInv'
  <2>1. phase \in Phases
    BY DEF Phases
  <2> DEFINE x == [tool[t] EXCEPT !.at = phase]
  <2>2. Good(t, x, bench, site, runs)
    <3> DEFINE r == tool[t]
    <3>1. r \in Records /\ Good(t, r, bench, site, runs) /\ r.line # NoLine
      BY <1>2, Now
    <3>2. /\ x \in Records /\ x.at = phase /\ x.run = r.run /\ x.line = r.line /\ x.saw = r.saw
          /\ x.said = r.said /\ x.found = r.found /\ x.own = r.own /\ x.cut = r.cut
      BY <2>1, <3>1, AtIs
    <3> HIDE DEF x
    <3> QED
      BY <1>2, <3>1, <3>2, SMT DEF Good, Known, ByKind, Holds, Told, Leaves, Early
  <2> QED
    BY <1>1, <1>2, <1>3, <2>1, <2>2, GoesKeeps
<1> QED
  BY <1>1, <1>2, <1>3, FailsKeeps DEF ReadPlan

LEMMA FirstKeeps ==
  ASSUME IInv, NEW t \in Tools, First(t)
  PROVE  IInv'
<1> DEFINE f == bench # None
           r == [tool[t] EXCEPT !.found = f]
           u == [r EXCEPT !.at = "up"]
<1>1. /\ UNCHANGED <<bench, apps, site, torn, runs, users, out, faults>> /\ tool[t].at = "first"
      /\ tool \in [Tools -> Records] /\ tool[t] \in Records /\ Good(t, tool[t], bench, site, runs)
      /\ tool[t].line \in CommandLines /\ tool[t].line.kind = "shots" /\ tool[t].line # NoLine
  BY Now DEF First, Counted, At, Good, ByKind
<1>2. faults' \in 0..MaxFaults
  BY <1>1 DEF IInv, Globals
<1>3. out' \in [cov : {User, None} \cup Started, report : [run : {User, None} \cup Started, code : 0..10]]
  BY <1>1 DEF IInv, Globals
<1>4. /\ r \in Records /\ r.at = "first" /\ r.run = tool[t].run /\ r.line = tool[t].line
      /\ r.saw = tool[t].saw /\ r.said = tool[t].said /\ r.found = f /\ r.own = tool[t].own
      /\ r.cut = tool[t].cut
  <2>1. r \in Records
    BY <1>1, RecordSets, f \in BOOLEAN
  <2> HIDE DEF f
  <2> QED
    BY <1>1, <2>1, SMT DEF Records
<1>5. ASSUME NEW x \in Records, tool' = [tool EXCEPT ![t] = x], x.run = tool[t].run, Good(t, x, bench, site, runs)
      PROVE  IInv'
  BY <1>1, <1>2, <1>3, <1>5, QuietStep
<1>9. f \in BOOLEAN
  OBVIOUS
<1> HIDE DEF r, f
<1>6. CASE r.line.consent # "reuse" /\ tool' = [tool EXCEPT ![t] = [u EXCEPT !.own = ~f]]
  <2> DEFINE no == ~f
             x == [u EXCEPT !.own = no]
  <2>1. u \in Records /\ u.at = "up"
    <3>1. "up" \in Phases
      BY DEF Phases
    <3> QED
      BY <1>4, <3>1, AtIs
  <2>2. x \in Records
    BY <2>1, RecordSets, no \in BOOLEAN
  <2>3. /\ x.at = "up" /\ x.run = tool[t].run /\ x.line = tool[t].line /\ x.saw = tool[t].saw
        /\ x.said = tool[t].said /\ x.found = f /\ x.own = no
    <3> HIDE DEF no
    <3> QED
      BY <2>1, <2>2, <1>4, SMT DEF Records
  <2> HIDE DEF x, u
  <2>4. Known(t, x, runs) /\ ByKind(x)
    BY <1>1, <2>2, <2>3, SMT DEF Good, Known, ByKind
  <2>5. Holds(x, bench)
    BY <1>1, <2>3, Zenon DEF Good, Holds, Early
  <2>6. Told(x, site)
    BY <1>1, <1>4, <1>6, <2>3, SMT DEF Good, Told
  <2> QED
    BY <1>5, <1>6, <2>2, <2>3, <2>4, <2>5, <2>6 DEF Good, x
<1>7. CASE f /\ tool' = [tool EXCEPT ![t] = [r EXCEPT !.at = "web"]]
  <2> DEFINE x == [r EXCEPT !.at = "web"]
  <2>1. "web" \in Phases
    BY DEF Phases
  <2>2. /\ x \in Records /\ x.at = "web" /\ x.run = tool[t].run /\ x.line = tool[t].line
        /\ x.saw = tool[t].saw /\ x.said = tool[t].said /\ x.found = f /\ x.own = tool[t].own
    BY <1>4, <2>1, AtIs
  <2>3. ~tool[t].own
    BY <1>1 DEF Good, Holds
  <2> HIDE DEF x
  <2>4. Good(t, x, bench, site, runs)
    BY <1>1, <1>7, <2>2, <2>3, SMT DEF Good, Known, ByKind, Holds, Told, Leaves, Early
  <2> QED
    BY <1>5, <1>7, <2>2, <2>4 DEF x
<1>8. CASE ~f /\ tool' = [tool EXCEPT ![t] = Failed(r)]
  <2>1. Failed(r) \in Records /\ Failed(r).run = tool[t].run
    BY <1>1, <1>4, FailedIs
  <2> HIDE DEF u, r, f
  <2>2. Good(t, Failed(r), bench, site, runs)
    <3>1. Known(t, r, runs) /\ (r.own => ~r.found) /\ bench # r.run /\ (r.saw # None => site # None)
      BY <1>1, <1>4, <1>8, SMT DEF Good, Known, Holds, Told, Early
    <3> QED
      BY <1>1, <1>4, <3>1, FailGood
  <2> QED
    BY <1>5, <1>8, <2>1, <2>2
<1> QED
  BY <1>6, <1>7, <1>8 DEF First, r, f

LEMMA UpKeeps ==
  ASSUME IInv, NEW t \in Tools, Up(t)
  PROVE  IInv'
<1> DEFINE r == tool[t]
           phase == IF bench # None THEN "wait" ELSE "devenv"
           f == IF Kind(t) = "shots" THEN r.found ELSE bench # None
           y == [r EXCEPT !.at = phase]
           x == [y EXCEPT !.found = f]
<1>1. /\ UNCHANGED <<bench, apps, site, torn, runs, users, out, faults>> /\ r.at = "up"
      /\ tool \in [Tools -> Records] /\ r \in Records /\ Good(t, r, bench, site, runs)
      /\ r.line \in CommandLines /\ r.line # NoLine /\ tool' = [tool EXCEPT ![t] = x]
  BY Now DEF Up, Counted, At
<1>2. faults' \in 0..MaxFaults
  BY <1>1 DEF IInv, Globals
<1>3. out' \in [cov : {User, None} \cup Started, report : [run : {User, None} \cup Started, code : 0..10]]
  BY <1>1 DEF IInv, Globals
<1>4. phase \in Phases /\ (bench # None => phase = "wait") /\ (bench = None => phase = "devenv")
  BY DEF Phases
<1>5. f \in BOOLEAN /\ (r.line.kind = "shots" => f = r.found) /\ (r.line.kind # "shots" => (f <=> bench # None))
  <2>1. r.found \in BOOLEAN /\ (bench # None) \in BOOLEAN
    BY <1>1, SMT DEF Records
  <2> QED
    BY <2>1, Zenon DEF Kind
<1> HIDE DEF phase, f
<1>6. /\ y \in Records /\ y.at = phase /\ y.run = r.run /\ y.line = r.line /\ y.saw = r.saw
      /\ y.said = r.said /\ y.own = r.own /\ y.halted = r.halted
  BY <1>1, <1>4, AtIs
<1> HIDE DEF y
<1>7. x \in Records
  BY <1>5, <1>6, RecordSets
<1>8. /\ x.at = phase /\ x.run = r.run /\ x.line = r.line /\ x.saw = r.saw
      /\ x.said = r.said /\ x.own = r.own /\ x.found = f
  BY <1>6, <1>7, SMT DEF Records
<1> HIDE DEF x
<1>9. Known(t, x, runs) /\ ByKind(x) /\ Told(x, site)
  BY <1>1, <1>4, <1>7, <1>8, SMT DEF Good, Known, ByKind, Told
<1>10. Holds(x, bench)
  <2>1. bench # r.run
    BY <1>1 DEF Good, Holds, Early
  <2>2. CASE r.line.kind = "shots"
    BY <1>1, <1>4, <1>5, <1>8, <2>1, <2>2, Zenon DEF Good, Holds
  <2>3. CASE r.line.kind # "shots"
    <3>1. ~x.own /\ (x.at = "devenv" => ~x.found) /\ x.at \in {"wait", "devenv"}
      BY <1>1, <1>4, <1>5, <1>8, <2>3, Zenon DEF Good, Holds
    <3> QED
      BY <1>8, <2>1, <2>3, <3>1, Zenon DEF Holds
  <2> QED
    BY <2>2, <2>3
<1> QED
  BY <1>1, <1>2, <1>3, <1>7, <1>8, <1>9, <1>10, QuietStep DEF Good

LEMMA DevenvKeeps ==
  ASSUME IInv, NEW t \in Tools, Devenv(t)
  PROVE  IInv'
<1> DEFINE r == tool[t]
<1>1. /\ UNCHANGED <<site, out, torn, runs, users>> /\ r.at = "devenv" /\ r.at # "idle"
      /\ tool \in [Tools -> Records] /\ r \in Records /\ Good(t, r, bench, site, runs)
      /\ r.line \in CommandLines /\ r.line # NoLine /\ r.line.kind \in {"test", "demo", "shots"}
      /\ r.run \in Started /\ Kind(t) = r.line.kind
  BY Now DEF Devenv, Counted, At, Kind
<1>2. faults' \in 0..MaxFaults
  BY FaultIs DEF Devenv
<1>3. out' \in [cov : {User, None} \cup Started, report : [run : {User, None} \cup Started, code : 0..10]]
  BY <1>1 DEF IInv, Globals
<1>4. /\ bench' \in {bench, None, r.run} /\ site' \in {site, r.run}
      /\ (bench' = bench /\ apps' = apps) \/ (bench' = r.run /\ apps')
      /\ bench # None => bench' = bench
  BY <1>1 DEF Devenv, BringsUp
<1>5. apps' \in BOOLEAN /\ (apps' => bench' # None) /\ torn' \in BOOLEAN /\ r.run # None
  <2>1. (apps \in BOOLEAN /\ (apps => bench # None) /\ torn \in BOOLEAN /\ runs \in Nat)
    BY DEF IInv, Globals
  <2>2. r.run # None
    BY <1>1, <2>1, SMT DEF Started, None
  <2>3. CASE bench' = bench /\ apps' = apps
    BY <1>1, <2>1, <2>2, <2>3, Zenon
  <2>4. CASE bench' = r.run /\ apps'
    <3>1. apps' \in BOOLEAN
      BY <2>1, <1>1, <2>4, Zenon DEF Devenv, BringsUp
    <3> QED
      BY <1>1, <2>1, <2>2, <2>4, <3>1, Zenon
  <2> QED
    BY <1>4, <2>3, <2>4
<1>6. ASSUME NEW x \in Records, tool' = [tool EXCEPT ![t] = x], x.run = r.run, Good(t, x, bench', site', runs')
      PROVE  IInv'
  <2>1. \/ bench' = None \/ apps' \/ torn' \/ (x.at \in {"drop", "make", "again"} /\ x.halted)
        \/ /\ bench' = bench /\ apps' = apps /\ torn' = torn
           /\ tool[t].at \in {"drop", "make", "again"} /\ tool[t].halted
                => x.at \in {"drop", "make", "again"} /\ x.halted
    BY <1>1, <1>4
  <2> QED
    BY <1>1, <1>2, <1>3, <1>4, <1>5, <1>6, <2>1, StepOn
<1>7. bench # r.run /\ (r.line.kind = "shots" => r.found \/ r.own) /\ (r.line.kind # "shots" => ~r.found)
  BY <1>1, Zenon DEF Good, Holds, Early
<1>8. CASE tool' = [tool EXCEPT ![t].at = "wait",
                                ![t].own = IF Kind(t) = "test" THEN ~tool[t].line.keep ELSE @]
  <2> DEFINE own == IF Kind(t) = "test" THEN ~r.line.keep ELSE r.own
             y == [r EXCEPT !.at = "wait"]
             x == [y EXCEPT !.own = own]
  <2>1. tool' = [tool EXCEPT ![t] = x]
    BY <1>1, <1>8
  <2>2. own \in BOOLEAN /\ (r.line.kind = "test" => (own <=> ~r.line.keep)) /\ (r.line.kind # "test" => own = r.own)
    <3>1. r.own \in BOOLEAN /\ (~r.line.keep) \in BOOLEAN
      BY <1>1, SMT DEF Records
    <3> QED
      BY <1>1, <3>1, Zenon
  <2> HIDE DEF own
  <2>3. "wait" \in Phases
    BY DEF Phases
  <2>4. /\ y \in Records /\ y.at = "wait" /\ y.run = r.run /\ y.line = r.line /\ y.saw = r.saw
        /\ y.said = r.said /\ y.found = r.found
    BY <1>1, <2>3, AtIs
  <2> HIDE DEF y
  <2>5. x \in Records
    BY <2>2, <2>4, RecordSets
  <2>6. /\ x.at = "wait" /\ x.run = r.run /\ x.line = r.line /\ x.saw = r.saw
        /\ x.said = r.said /\ x.own = own /\ x.found = r.found
    BY <2>4, <2>5, SMT DEF Records
  <2> HIDE DEF x
  <2>7. Known(t, x, runs) /\ ByKind(x) /\ Told(x, site)
    BY <1>1, <2>5, <2>6, SMT DEF Good, Known, ByKind, Told
  <2>8. Holds(x, bench')
    <3>1. (x.own => ~x.found) /\ x.at \notin Early /\ x.at \notin {"devenv", "undo", "idle"} /\ x.at # "up"
      BY <1>1, <1>7, <2>2, <2>6, Zenon DEF Good, Holds, Early
    <3>2. ~x.found /\ Leaves(x) => x.own
      BY <1>7, <2>2, <2>6, Zenon DEF Leaves
    <3> QED
      BY <3>1, <3>2, Zenon DEF Holds, Early
  <2> QED
    BY <1>1, <1>6, <2>1, <2>5, <2>6, <2>7, <2>8 DEF Good
<1>9. CASE r.line.kind = "test" /\ Goes(t, "undo")
  <2> DEFINE x == [r EXCEPT !.at = "undo"]
  <2>1. "undo" \in Phases
    BY DEF Phases
  <2>2. /\ x \in Records /\ x.at = "undo" /\ x.run = r.run /\ x.line = r.line /\ x.saw = r.saw
        /\ x.said = r.said /\ x.found = r.found /\ x.own = r.own
    BY <1>1, <2>1, AtIs
  <2>3. tool' = [tool EXCEPT ![t] = x]
    BY <1>1, <1>9 DEF Goes
  <2> HIDE DEF x
  <2>4. Known(t, x, runs) /\ ByKind(x) /\ Told(x, site)
    BY <1>1, <1>9, <2>2, SMT DEF Good, Known, ByKind, Told
  <2>5. Holds(x, bench')
    BY <1>1, <1>7, <1>9, <2>2, Zenon DEF Good, Holds, Early
  <2> QED
    BY <1>1, <1>6, <2>2, <2>3, <2>4, <2>5 DEF Good
<1>10. CASE r.line.kind # "test" /\ Fails(t)
  <2>1. Failed(r) \in Records /\ Failed(r).run = r.run /\ tool' = [tool EXCEPT ![t] = Failed(r)]
    BY <1>1, <1>10, FailedIs DEF Fails
  <2>2. (r.own \/ r.found \/ ~Leaves(r)) /\ (r.own => ~r.found)
    BY <1>1, <1>7, <1>10 DEF Leaves, Good, Holds
  <2>3. Good(t, Failed(r), bench', site', runs')
    BY <1>1, <2>2, FailGood DEF Good, Told
  <2> QED
    BY <1>6, <2>1, <2>3
<1> QED
  BY <1>1, <1>8, <1>9, <1>10, Zenon DEF Devenv

LEMMA UndoKeeps ==
  ASSUME IInv, NEW t \in Tools, Undo(t)
  PROVE  IInv'
<1> DEFINE r == tool[t]
<1>1. /\ UNCHANGED <<site, out, torn, runs, users, faults>> /\ r.at = "undo" /\ r.at # "idle"
      /\ bench' = None /\ apps' = FALSE
      /\ tool \in [Tools -> Records] /\ r \in Records /\ Good(t, r, bench, site, runs)
      /\ r.line.kind \in {"test", "demo", "shots"} /\ tool' = [tool EXCEPT ![t] = Failed(r)]
      /\ r.run \in Started
  BY Now DEF Undo, Counted, At, Fails, TakeDown
<1>2. faults' \in 0..MaxFaults
  BY <1>1 DEF IInv, Globals
<1>3. out' \in [cov : {User, None} \cup Started, report : [run : {User, None} \cup Started, code : 0..10]]
  BY <1>1 DEF IInv, Globals
<1>4. Failed(r) \in Records /\ Failed(r).run = r.run
  BY <1>1, FailedIs
<1>5. bench' # r.run
  BY <1>1, SMT DEF IInv, Globals, Started, None
<1>6. Good(t, Failed(r), bench', site', runs')
  BY <1>1, <1>5, FailGood DEF Good, Holds, Told
<1>7. torn' \in BOOLEAN /\ apps' \in BOOLEAN /\ ~apps' /\ bench' \in {bench, None, r.run} /\ site' \in {site, r.run}
  BY <1>1 DEF IInv, Globals
<1> QED
  BY <1>1, <1>2, <1>3, <1>4, <1>6, <1>7, StepOn

LEMMA WaitKeeps ==
  ASSUME IInv, NEW t \in Tools, Wait(t)
  PROVE  IInv'
<1> DEFINE r == tool[t]
<1>1. /\ UNCHANGED <<bench, apps, site, torn, runs, users, out>> /\ r.at \in {"wait", "web"}
      /\ r \in Records /\ Good(t, r, bench, site, runs)
  BY Now DEF Wait, Counted, At
<1>2. faults' \in 0..MaxFaults
  BY FaultIs DEF Wait
<1>3. ASSUME NEW phase \in {"site", "shoot"}, r.at = "web" <=> phase = "shoot", Goes(t, phase) PROVE IInv'
  <2> DEFINE x == [r EXCEPT !.at = phase]
  <2>1. phase \in Phases
    BY DEF Phases
  <2>2. /\ x \in Records /\ x.at = phase /\ x.run = r.run /\ x.line = r.line /\ x.saw = r.saw
        /\ x.said = r.said /\ x.found = r.found /\ x.own = r.own
    BY <1>1, <2>1, AtIs
  <2>3. Good(t, x, bench, site, runs)
    <3> HIDE DEF x
    <3>1. Known(t, x, runs) /\ ByKind(x)
      BY <1>1, <1>3, <2>2, SMT DEF Good, Known, ByKind, NoLine
    <3>2. Told(x, site)
      BY <1>1, <1>3, <2>2, SMT DEF Good, Told
    <3>3. Holds(x, bench)
      BY <1>1, <1>3, <2>2, SMT DEF Good, Holds, Leaves, Early
    <3> QED
      BY <3>1, <3>2, <3>3 DEF Good
  <2> QED
    BY <1>1, <1>2, <1>3, <2>1, <2>3, GoesKeeps
<1> QED
  BY <1>1, <1>2, <1>3, FailsKeeps DEF Wait, At

\* A tool that is past the site, or about to make it, is in order as it goes on.
LEMMA LaterGood ==
  ASSUME NEW t \in Tools, NEW r \in Records, NEW x \in Records, NEW b, NEW s, NEW s2, NEW n,
         Good(t, r, b, s, n), r.at \notin Early \cup {"idle", "undo", "finally"}, r.line # NoLine,
         x.at \in {"make", "again", "setup", "tests", "coverage", "checks", "report", "data", "web",
                   "shoot", "finally"},
         x.run = r.run, x.line = r.line, x.saw = r.saw, x.found = r.found, x.own = r.own,
         ByKind(x), r.saw # None => s2 # None
  PROVE  Good(t, x, b, s2, n)
<1>1. Known(t, x, n)
  BY SMT DEF Good, Known, NoLine
<1>2. Told(x, s2)
  BY SMT DEF Told
<1>3. Holds(x, b)
  BY Zenon DEF Good, Holds, Leaves, Early
<1> QED
  BY <1>1, <1>2, <1>3 DEF Good

LEMMA SiteKeeps ==
  ASSUME IInv, NEW t \in Tools, Site(t)
  PROVE  IInv'
<1> DEFINE r == tool[t]
<1>1. /\ UNCHANGED <<bench, site, torn, runs, users, out, faults>> /\ r.at = "site"
      /\ tool \in [Tools -> Records] /\ r \in Records /\ Good(t, r, bench, site, runs)
      /\ r.line \in CommandLines /\ r.line # NoLine /\ r.line.kind \in {"test", "demo", "shots"}
  BY Now DEF Site, Counted, At
<1>2. faults' \in 0..MaxFaults
  BY <1>1 DEF IInv, Globals
<1>3. out' \in [cov : {User, None} \cup Started, report : [run : {User, None} \cup Started, code : 0..10]]
  BY <1>1 DEF IInv, Globals
<1>4. r.saw # None => site # None
  BY <1>1 DEF Good, Told
<1>5. CASE Recreates(r.line) /\ apps' = FALSE
           /\ tool' = [tool EXCEPT ![t].at = "drop", ![t].halted = bench # None]
  <2> DEFINE h == bench # None
             y == [r EXCEPT !.at = "drop"]
             x == [y EXCEPT !.halted = h]
  <2>1. tool' = [tool EXCEPT ![t] = x]
    BY <1>1, <1>5
  <2>2. h \in BOOLEAN
    OBVIOUS
  <2>3. "drop" \in Phases
    BY DEF Phases
  <2>4. /\ y \in Records /\ y.at = "drop" /\ y.run = r.run /\ y.line = r.line /\ y.saw = r.saw
        /\ y.said = r.said /\ y.found = r.found /\ y.own = r.own
    BY <1>1, <2>3, AtIs
  <2> HIDE DEF y, h
  <2>5. x \in Records
    BY <2>2, <2>4, RecordSets
  <2>6. /\ x.at = "drop" /\ x.run = r.run /\ x.line = r.line /\ x.saw = r.saw
        /\ x.said = r.said /\ x.own = r.own /\ x.found = r.found /\ x.halted = h
    BY <2>4, <2>5, SMT DEF Records
  <2> HIDE DEF x
  <2>7. Known(t, x, runs) /\ ByKind(x)
    BY <1>1, <2>5, <2>6, SMT DEF Good, Known, ByKind
  <2>8. x.saw # None => x.said
    BY <1>1, <1>4, <1>5, <2>6, LineKinds DEF Good, Told, Recreates
  <2>9. Told(x, site)
    BY <1>4, <2>6, <2>8 DEF Told
  <2>10. Holds(x, bench)
    BY <1>1, <2>6, Zenon DEF Good, Holds, Leaves, Early
  <2>11. bench' = None \/ (x.at \in {"drop", "make", "again"} /\ x.halted)
    BY <1>1, <2>6 DEF h
  <2>12. apps' \in BOOLEAN /\ ~apps' /\ torn' \in BOOLEAN
    BY <1>1, <1>5 DEF IInv, Globals
  <2>13. Good(t, x, bench', site', runs')
    BY <1>1, <2>7, <2>9, <2>10 DEF Good
  <2> QED
    BY <1>1, <1>2, <1>3, <2>1, <2>5, <2>6, <2>11, <2>12, <2>13, StepOn
<1>6. CASE ~Recreates(r.line) /\ Goes(t, SiteReady(t)) /\ apps' = apps
  <2>1. PICK phase \in {"setup", "data"} :
          Goes(t, phase) /\ (r.line.kind = "test" <=> phase = "setup")
    BY <1>6 DEF SiteReady, Kind
  <2>2. phase \in Phases
    BY DEF Phases
  <2> DEFINE x == [r EXCEPT !.at = phase]
  <2>3. /\ x \in Records /\ x.at = phase /\ x.run = r.run /\ x.line = r.line /\ x.saw = r.saw
        /\ x.found = r.found /\ x.own = r.own
    BY <1>1, <2>2, AtIs
  <2> HIDE DEF x
  <2>4. ByKind(x)
    BY <1>1, <2>1, <2>3 DEF ByKind
  <2>5. r.at \notin Early \cup {"idle", "undo", "finally"}
    BY <1>1 DEF Early
  <2>6. Good(t, x, bench, site, runs)
    BY <1>1, <1>4, <2>1, <2>3, <2>4, <2>5, LaterGood
  <2> QED
    BY <1>1, <1>2, <1>6, <2>1, <2>2, <2>6, GoesKeeps DEF x
<1> QED
  BY <1>5, <1>6 DEF Site

\* What new-site does leaves a tool to start the processes again.
LEMMA DropKeeps ==
  ASSUME IInv, NEW t \in Tools, Drop(t)
  PROVE  IInv'
<1> DEFINE r == tool[t]
<1>1. /\ UNCHANGED <<bench, apps, torn, runs, users, out, faults>> /\ r.at = "drop" /\ r.at # "idle"
      /\ tool \in [Tools -> Records] /\ r \in Records /\ Good(t, r, bench, site, runs)
      /\ r.line # NoLine /\ r.run \in Started
  BY Now DEF Drop, Counted, At
<1>2. faults' \in 0..MaxFaults /\ torn' \in BOOLEAN /\ apps' \in BOOLEAN /\ (apps' => bench' # None)
  BY <1>1 DEF IInv, Globals
<1>3. out' \in [cov : {User, None} \cup Started, report : [run : {User, None} \cup Started, code : 0..10]]
  BY <1>1 DEF IInv, Globals
<1>4. (r.saw # None => site # None) /\ r.run # None
  BY <1>1, SMT DEF Good, Told, Started, IInv, Globals, None
<1>5. {"make", "again"} \subseteq Phases /\ r.at \notin Early \cup {"idle", "undo", "finally"}
  BY <1>1 DEF Phases, Early
<1>6. ASSUME NEW x \in Records, tool' = [tool EXCEPT ![t] = x], x.run = r.run, x.line = r.line,
             x.saw = r.saw, x.found = r.found, x.own = r.own, x.at \in {"make", "again"},
             x.halted = r.halted, site' \in {site, r.run}
      PROVE  IInv'
  <2>1. ByKind(x) /\ (r.saw # None => site' # None)
    BY <1>4, <1>6 DEF ByKind
  <2>2. Good(t, x, bench', site', runs')
    BY <1>1, <1>5, <1>6, <2>1, LaterGood
  <2> QED
    BY <1>1, <1>2, <1>3, <1>6, <2>2, StepOn
<1>7. CASE Goes(t, "make") /\ site' = r.run
  <2> DEFINE x == [r EXCEPT !.at = "make"]
  <2>1. /\ x \in Records /\ x.at = "make" /\ x.run = r.run /\ x.line = r.line /\ x.saw = r.saw
        /\ x.found = r.found /\ x.own = r.own /\ x.halted = r.halted
    BY <1>1, <1>5, AtIs
  <2>2. tool' = [tool EXCEPT ![t] = x]
    BY <1>7 DEF Goes
  <2> QED
    BY <1>6, <1>7, <2>1, <2>2
<1>8. CASE site' = site /\ tool' = [tool EXCEPT ![t].at = "again", ![t].env = TRUE]
  <2> DEFINE y == [r EXCEPT !.at = "again"]
             x == [y EXCEPT !.env = TRUE]
  <2>1. /\ y \in Records /\ y.at = "again" /\ y.run = r.run /\ y.line = r.line /\ y.saw = r.saw
        /\ y.found = r.found /\ y.own = r.own /\ y.halted = r.halted
    BY <1>1, <1>5, AtIs
  <2>2. tool' = [tool EXCEPT ![t] = x]
    BY <1>1, <1>8
  <2> HIDE DEF y
  <2>3. x \in Records
    BY <2>1, RecordSets, TRUE \in BOOLEAN
  <2>4. /\ x.at = "again" /\ x.run = r.run /\ x.line = r.line /\ x.saw = r.saw
        /\ x.found = r.found /\ x.own = r.own /\ x.halted = r.halted
    BY <2>1, <2>3, SMT DEF Records
  <2> QED
    BY <1>6, <1>8, <2>2, <2>3, <2>4
<1> QED
  BY <1>7, <1>8 DEF Drop

LEMMA MakeKeeps ==
  ASSUME IInv, NEW t \in Tools, Make(t)
  PROVE  IInv'
<1> DEFINE r == tool[t]
<1>1. /\ UNCHANGED <<bench, apps, site, torn, runs, users, out>> /\ r.at = "make" /\ r.at # "idle"
      /\ tool \in [Tools -> Records] /\ r \in Records /\ Good(t, r, bench, site, runs)
      /\ r.line # NoLine /\ (r.saw # None => site # None)
  BY Now DEF Make, Counted, At, Good, Told
<1>2. faults' \in 0..MaxFaults
  BY FaultIs DEF Make
<1>3. out' \in [cov : {User, None} \cup Started, report : [run : {User, None} \cup Started, code : 0..10]]
  BY <1>1 DEF IInv, Globals
<1>4. "again" \in Phases /\ r.at \notin Early \cup {"idle", "undo", "finally"}
  BY <1>1 DEF Phases, Early
<1> DEFINE y == [r EXCEPT !.at = "again"]
           x == [y EXCEPT !.env = TRUE]
<1>5. /\ y \in Records /\ y.at = "again" /\ y.run = r.run /\ y.line = r.line /\ y.saw = r.saw
      /\ y.found = r.found /\ y.own = r.own /\ y.halted = r.halted
  BY <1>1, <1>4, AtIs
<1>6. tool' = [tool EXCEPT ![t] = y] \/ tool' = [tool EXCEPT ![t] = x]
  BY <1>1 DEF Make, Goes
<1> HIDE DEF y
<1>7. x \in Records
  BY <1>5, RecordSets, TRUE \in BOOLEAN
<1>8. /\ x.at = "again" /\ x.run = r.run /\ x.line = r.line /\ x.saw = r.saw
      /\ x.found = r.found /\ x.own = r.own /\ x.halted = r.halted
  BY <1>5, <1>7, SMT DEF Records
<1> HIDE DEF x
<1>9. Good(t, x, bench, site, runs) /\ Good(t, y, bench, site, runs)
  <2>1. ByKind(x) /\ ByKind(y)
    BY <1>5, <1>8 DEF ByKind
  <2>2. Good(t, x, bench, site, runs)
    BY <1>1, <1>4, <1>7, <1>8, <2>1, LaterGood
  <2>3. Good(t, y, bench, site, runs)
    BY <1>1, <1>4, <1>5, <2>1, LaterGood
  <2> QED
    BY <2>2, <2>3
<1> QED
  BY <1>1, <1>2, <1>3, <1>5, <1>6, <1>7, <1>8, <1>9, QuietStep

LEMMA AgainKeeps ==
  ASSUME IInv, NEW t \in Tools, Again(t)
  PROVE  IInv'
<1> DEFINE r == tool[t]
<1>1. /\ UNCHANGED <<bench, site, torn, runs, users, out, faults>> /\ r.at = "again" /\ r.at # "idle"
      /\ tool \in [Tools -> Records] /\ r \in Records /\ Good(t, r, bench, site, runs)
      /\ r.line # NoLine /\ (r.saw # None => site # None)
      /\ r.line.kind \in {"test", "demo", "shots"}
  BY Now DEF Again, Counted, At, Good, Told
<1>2. faults' \in 0..MaxFaults /\ torn' \in BOOLEAN
  BY <1>1 DEF IInv, Globals
<1>3. out' \in [cov : {User, None} \cup Started, report : [run : {User, None} \cup Started, code : 0..10]]
  BY <1>1 DEF IInv, Globals
<1>4. {"setup", "data"} \subseteq Phases /\ r.at \notin Early \cup {"idle", "undo", "finally"}
  BY <1>1 DEF Phases, Early
<1>5. apps' \in BOOLEAN /\ (apps' => bench' # None) /\ (bench' = bench)
  BY <1>1, Zenon DEF Again, IInv, Globals
<1>6. ASSUME NEW x \in Records, tool' = [tool EXCEPT ![t] = x], x.run = r.run, Good(t, x, bench, site, runs)
      PROVE  IInv'
  <2>1. \/ bench' = None \/ apps' \/ torn' \/ (x.at \in {"drop", "make", "again"} /\ x.halted)
        \/ /\ bench' = bench /\ apps' = apps /\ torn' = torn
           /\ tool[t].at \in {"drop", "make", "again"} /\ tool[t].halted
                => x.at \in {"drop", "make", "again"} /\ x.halted
    <3>1. CASE r.halted
      BY <1>5, <3>1, Zenon DEF Again
    <3>2. CASE ~r.halted
      <4>1. apps' = apps
        <5>1. apps \in BOOLEAN
          BY DEF IInv, Globals
        <5> QED
          BY <3>2, <5>1, Zenon DEF Again
      <4> QED
        BY <1>1, <3>2, <4>1
    <3> QED
      BY <3>1, <3>2
  <2> QED
    <3>1. bench' \in {bench, None, r.run} /\ site' \in {site, r.run}
      BY <1>1
    <3>2. Good(t, x, bench', site', runs')
      BY <1>1, <1>6
    <3> QED
      BY <1>1, <1>2, <1>3, <1>5, <1>6, <2>1, <3>1, <3>2, StepOn
<1>7. CASE Fails(t)
  <2>1. Failed(r) \in Records /\ Failed(r).run = r.run /\ tool' = [tool EXCEPT ![t] = Failed(r)]
    BY <1>1, <1>7, FailedIs DEF Fails
  <2>2. bench # r.run \/ r.own \/ r.found \/ ~Leaves(r)
    BY <1>1, Zenon DEF Good, Holds, Known
  <2>3. Good(t, Failed(r), bench, site, runs)
    BY <1>1, <2>2, FailGood DEF Good, Holds
  <2> QED
    BY <1>6, <2>1, <2>3
<1>8. CASE Goes(t, SiteReady(t))
  <2>1. PICK phase \in {"setup", "data"} :
          Goes(t, phase) /\ (r.line.kind = "test" <=> phase = "setup")
    BY <1>8 DEF SiteReady, Kind
  <2> DEFINE x == [r EXCEPT !.at = phase]
  <2>2. /\ x \in Records /\ x.at = phase /\ x.run = r.run /\ x.line = r.line /\ x.saw = r.saw
        /\ x.found = r.found /\ x.own = r.own
    BY <1>1, <1>4, AtIs
  <2>3. tool' = [tool EXCEPT ![t] = x]
    BY <2>1 DEF Goes
  <2> HIDE DEF x
  <2>4. ByKind(x)
    BY <1>1, <2>1, <2>2 DEF ByKind
  <2>5. Good(t, x, bench, site, runs)
    BY <1>1, <1>4, <2>1, <2>2, <2>4, LaterGood
  <2> QED
    BY <1>6, <2>2, <2>3, <2>5
<1> QED
  BY <1>7, <1>8 DEF Again

\* A stage of a tool that is past the site: it comes to another phase, and what changes
\* besides is told apart by nothing above.
LEMMA StageKeeps ==
  ASSUME IInv, NEW t \in Tools, NEW x \in Records, tool' = [tool EXCEPT ![t] = x],
         UNCHANGED <<bench, apps, site, torn, runs, users>>, faults' \in 0..MaxFaults,
         out' \in [cov : {User, None} \cup Started, report : [run : {User, None} \cup Started, code : 0..10]],
         tool[t].at \in {"setup", "tests", "coverage", "checks", "report", "data", "web", "shoot"},
         x.at \in {"setup", "tests", "coverage", "checks", "report", "data", "web", "shoot", "finally"},
         x.run = tool[t].run, x.line = tool[t].line, x.saw = tool[t].saw, x.found = tool[t].found,
         x.own = tool[t].own, ByKind(x)
  PROVE  IInv'
<1>1. /\ tool[t] \in Records /\ Good(t, tool[t], bench, site, runs) /\ tool[t].line # NoLine
      /\ tool[t].saw # None => site # None
  BY Now DEF Good, Told
<1>2. tool[t].at \notin Early \cup {"idle", "undo", "finally"}
  BY DEF Early
<1>3. Good(t, x, bench, site, runs)
  BY <1>1, <1>2, LaterGood
<1> QED
  BY <1>3, QuietStep

LEMMA SetupKeeps ==
  ASSUME IInv, NEW t \in Tools, Setup(t)
  PROVE  IInv'
<1>1. /\ UNCHANGED <<bench, apps, site, torn, runs, users, out>> /\ tool[t].at = "setup"
      /\ tool[t] \in Records /\ ByKind(tool[t])
  BY Now DEF Setup, Counted, At, Good
<1>2. faults' \in 0..MaxFaults
  BY FaultIs DEF Setup
<1>3. out' \in [cov : {User, None} \cup Started, report : [run : {User, None} \cup Started, code : 0..10]]
  BY <1>1 DEF IInv, Globals
<1>4. CASE Goes(t, "tests")
  <2> DEFINE x == [tool[t] EXCEPT !.at = "tests"]
  <2>1. "tests" \in Phases
    BY DEF Phases
  <2>2. /\ x \in Records /\ x.at = "tests" /\ x.run = tool[t].run /\ x.line = tool[t].line
        /\ x.saw = tool[t].saw /\ x.found = tool[t].found /\ x.own = tool[t].own
    BY <1>1, <2>1, AtIs
  <2>3. tool' = [tool EXCEPT ![t] = x]
    BY <1>4 DEF Goes
  <2> HIDE DEF x
  <2>4. ByKind(x)
    BY <1>1, <2>2 DEF ByKind
  <2> QED
    BY <1>1, <1>2, <1>3, <2>2, <2>3, <2>4, StageKeeps
<1> QED
  BY <1>1, <1>2, <1>4, FailsKeeps DEF Setup

LEMMA TestsKeeps ==
  ASSUME IInv, NEW t \in Tools, Tests(t)
  PROVE  IInv'
<1>1. /\ UNCHANGED <<bench, apps, site, torn, runs, users, faults>> /\ tool[t].at = "tests"
      /\ tool[t] \in Records /\ ByKind(tool[t]) /\ tool[t].run \in Started /\ tool \in [Tools -> Records]
  BY Now DEF Tests, Counted, At, Good
<1>2. faults' \in 0..MaxFaults
  BY <1>1 DEF IInv, Globals
<1>3. out' \in [cov : {User, None} \cup Started, report : [run : {User, None} \cup Started, code : 0..10]]
  BY <1>1, SMT DEF IInv, Globals, Tests
<1>4. PICK good \in BOOLEAN : Ends(t, "coverage", good, "tests")
  BY DEF Tests
<1> DEFINE bad == IF good THEN tool[t].bad ELSE tool[t].bad \cup {"tests"}
           y == [tool[t] EXCEPT !.at = "coverage"]
           x == [y EXCEPT !.bad = bad]
<1>5. "coverage" \in Phases
  BY DEF Phases
<1>6. bad \in SUBSET Stages
  BY <1>1, SMT DEF Records, Stages
<1>7. tool' = [tool EXCEPT ![t] = x]
  BY <1>1, <1>4 DEF Ends
<1> HIDE DEF bad
<1>8. /\ y \in Records /\ y.at = "coverage" /\ y.run = tool[t].run /\ y.line = tool[t].line
      /\ y.saw = tool[t].saw /\ y.found = tool[t].found /\ y.own = tool[t].own
  BY <1>1, <1>5, AtIs
<1> HIDE DEF y
<1>9. x \in Records
  BY <1>6, <1>8, RecordSets
<1>10. /\ x.at = "coverage" /\ x.run = tool[t].run /\ x.line = tool[t].line
       /\ x.saw = tool[t].saw /\ x.found = tool[t].found /\ x.own = tool[t].own
  BY <1>8, <1>9, SMT DEF Records
<1> HIDE DEF x
<1>11. ByKind(x)
  BY <1>1, <1>10 DEF ByKind
<1> QED
  BY <1>1, <1>2, <1>3, <1>7, <1>9, <1>10, <1>11, StageKeeps

LEMMA CoverageKeeps ==
  ASSUME IInv, NEW t \in Tools, Coverage(t)
  PROVE  IInv'
<1>1. /\ UNCHANGED <<bench, apps, site, torn, runs, users, faults, out>> /\ tool[t].at = "coverage"
      /\ tool[t] \in Records /\ ByKind(tool[t]) /\ tool \in [Tools -> Records]
  BY Now DEF Coverage, Counted, At, Good
<1>2. faults' \in 0..MaxFaults
  BY <1>1 DEF IInv, Globals
<1>3. /\ out' \in [cov : {User, None} \cup Started, report : [run : {User, None} \cup Started, code : 0..10]]
      /\ out.cov \in Makers
  <2>1. Started \subseteq Runs
    BY AppToolsAssumption, SMT DEF IInv, Globals, Started, Runs
  <2> QED
    BY <1>1, <2>1, SMT DEF IInv, Globals, Makers
<1> DEFINE y == [tool[t] EXCEPT !.at = "checks"]
<1>4. "checks" \in Phases
  BY DEF Phases
<1>5. /\ y \in Records /\ y.at = "checks" /\ y.run = tool[t].run /\ y.line = tool[t].line
      /\ y.saw = tool[t].saw /\ y.found = tool[t].found /\ y.own = tool[t].own /\ y.bad = tool[t].bad
  BY <1>1, <1>4, AtIs
<1>6. ByKind(y)
  BY <1>1, <1>5 DEF ByKind
<1>7. CASE Goes(t, "checks")
  <2>1. tool' = [tool EXCEPT ![t] = y]
    BY <1>7 DEF Goes
  <2> HIDE DEF y
  <2> QED
    BY <1>1, <1>2, <1>3, <1>5, <1>6, <2>1, StageKeeps
<1>8. ASSUME NEW good \in BOOLEAN, NEW have \in BOOLEAN,
             tool' = [tool EXCEPT ![t].at = "checks", ![t].have = have, ![t].judged = out.cov,
                                  ![t].bad = IF good THEN @ ELSE @ \cup {"coverage"}]
      PROVE  IInv'
  <2> DEFINE bad == IF good THEN tool[t].bad ELSE tool[t].bad \cup {"coverage"}
             j == out.cov
             z == [y EXCEPT !.have = have]
             w == [z EXCEPT !.judged = j]
             x == [w EXCEPT !.bad = bad]
  <2>1. bad \in SUBSET Stages
    BY <1>1, SMT DEF Records, Stages
  <2>2. tool' = [tool EXCEPT ![t] = x]
    BY <1>1, <1>8
  <2>3. j \in Makers
    BY <1>3
  <2> HIDE DEF bad, y, j
  <2>4. z \in Records
    BY <1>5, RecordSets
  <2>5. /\ z.at = "checks" /\ z.run = tool[t].run /\ z.line = tool[t].line
        /\ z.saw = tool[t].saw /\ z.found = tool[t].found /\ z.own = tool[t].own
    BY <1>5, <2>4, SMT DEF Records
  <2> HIDE DEF z
  <2>6. w \in Records
    BY <2>3, <2>4, RecordSets
  <2>7. /\ w.at = "checks" /\ w.run = tool[t].run /\ w.line = tool[t].line
        /\ w.saw = tool[t].saw /\ w.found = tool[t].found /\ w.own = tool[t].own
    BY <2>4, <2>5, <2>6, SMT DEF Records
  <2> HIDE DEF w
  <2>8. x \in Records
    BY <2>1, <2>6, RecordSets
  <2>9. /\ x.at = "checks" /\ x.run = tool[t].run /\ x.line = tool[t].line
        /\ x.saw = tool[t].saw /\ x.found = tool[t].found /\ x.own = tool[t].own
    BY <2>6, <2>7, <2>8, SMT DEF Records
  <2> HIDE DEF x
  <2>10. ByKind(x)
    BY <1>1, <2>9 DEF ByKind
  <2> QED
    BY <1>1, <1>2, <1>3, <2>2, <2>8, <2>9, <2>10, StageKeeps
<1> QED
  BY <1>7, <1>8 DEF Coverage

LEMMA ChecksKeeps ==
  ASSUME IInv, NEW t \in Tools, Checks(t)
  PROVE  IInv'
<1>1. /\ UNCHANGED <<bench, apps, site, torn, runs, users, faults, out>> /\ tool[t].at = "checks"
      /\ tool[t] \in Records /\ ByKind(tool[t]) /\ tool \in [Tools -> Records]
  BY Now DEF Checks, Counted, At, Good
<1>2. faults' \in 0..MaxFaults
  BY <1>1 DEF IInv, Globals
<1>3. out' \in [cov : {User, None} \cup Started, report : [run : {User, None} \cup Started, code : 0..10]]
  BY <1>1 DEF IInv, Globals
<1>4. PICK failed \in SUBSET Stages :
        tool' = [tool EXCEPT ![t].at = "report", ![t].bad = @ \cup failed]
  BY DEF Checks
<1> DEFINE bad == tool[t].bad \cup failed
           y == [tool[t] EXCEPT !.at = "report"]
           x == [y EXCEPT !.bad = bad]
<1>5. "report" \in Phases
  BY DEF Phases
<1>6. bad \in SUBSET Stages
  BY <1>1, SMT DEF Records
<1>7. tool' = [tool EXCEPT ![t] = x]
  BY <1>1, <1>4
<1> HIDE DEF bad
<1>8. /\ y \in Records /\ y.at = "report" /\ y.run = tool[t].run /\ y.line = tool[t].line
      /\ y.saw = tool[t].saw /\ y.found = tool[t].found /\ y.own = tool[t].own
  BY <1>1, <1>5, AtIs
<1> HIDE DEF y
<1>9. x \in Records
  BY <1>6, <1>8, RecordSets
<1>10. /\ x.at = "report" /\ x.run = tool[t].run /\ x.line = tool[t].line
       /\ x.saw = tool[t].saw /\ x.found = tool[t].found /\ x.own = tool[t].own
  BY <1>8, <1>9, SMT DEF Records
<1> HIDE DEF x
<1>11. ByKind(x)
  BY <1>1, <1>10 DEF ByKind
<1> QED
  BY <1>1, <1>2, <1>3, <1>7, <1>9, <1>10, <1>11, StageKeeps

LEMMA ReportKeeps ==
  ASSUME IInv, NEW t \in Tools, Report(t)
  PROVE  IInv'
<1> DEFINE code == Verdict(tool[t].bad, tool[t].env)
           y == [tool[t] EXCEPT !.at = "finally"]
           x == [y EXCEPT !.code = code]
<1>1. /\ UNCHANGED <<bench, apps, site, torn, runs, users>> /\ tool[t].at = "report"
      /\ tool[t] \in Records /\ ByKind(tool[t]) /\ tool \in [Tools -> Records] /\ tool[t].run \in Started
      /\ tool' = [tool EXCEPT ![t] = x]
  BY Now DEF Report, Counted, At, Good
<1>2. faults' \in 0..MaxFaults
  BY FaultIs DEF Report
<1>3. code \in 0..10 /\ code \in Codes
  <2>1. tool[t].bad \in SUBSET Stages /\ tool[t].env \in BOOLEAN
    BY <1>1, SMT DEF Records
  <2> QED
    BY <2>1, VerdictIs DEF Codes
<1>4. out' = [out EXCEPT !.report = [run |-> tool[t].run, code |-> code]] \/ out' = out
  BY DEF Report
<1> HIDE DEF code
<1>5. out' \in [cov : {User, None} \cup Started, report : [run : {User, None} \cup Started, code : 0..10]]
  BY <1>1, <1>3, <1>4, SMT DEF IInv, Globals
<1>6. /\ x \in Records /\ x.at = "finally" /\ x.run = tool[t].run /\ x.line = tool[t].line
      /\ x.saw = tool[t].saw /\ x.found = tool[t].found /\ x.own = tool[t].own
  <2>1. "finally" \in Phases
    BY DEF Phases
  <2>2. /\ y \in Records /\ y.at = "finally" /\ y.run = tool[t].run /\ y.line = tool[t].line
        /\ y.saw = tool[t].saw /\ y.found = tool[t].found /\ y.own = tool[t].own
    BY <1>1, <2>1, AtIs
  <2> HIDE DEF y
  <2>3. x \in Records
    BY <1>3, <2>2, RecordSets
  <2> QED
    BY <2>2, <2>3, SMT DEF Records
<1> HIDE DEF x
<1>7. ByKind(x)
  BY <1>1, <1>6 DEF ByKind
<1> QED
  BY <1>1, <1>2, <1>5, <1>6, <1>7, StageKeeps

LEMMA ShootKeeps ==
  ASSUME IInv, NEW t \in Tools, Shoot(t)
  PROVE  IInv'
<1>1. PICK code \in {0, 1} : tool' = [tool EXCEPT ![t].at = "finally", ![t].code = code]
  BY DEF Shoot
<1> DEFINE y == [tool[t] EXCEPT !.at = "finally"]
           x == [y EXCEPT !.code = code]
<1>2. /\ UNCHANGED <<bench, apps, site, torn, runs, users, faults, out>> /\ tool[t].at = "shoot"
      /\ tool[t] \in Records /\ ByKind(tool[t]) /\ tool \in [Tools -> Records]
  BY Now DEF Shoot, Counted, At, Good
<1>3. faults' \in 0..MaxFaults
  BY <1>2 DEF IInv, Globals
<1>4. out' \in [cov : {User, None} \cup Started, report : [run : {User, None} \cup Started, code : 0..10]]
  BY <1>2 DEF IInv, Globals
<1>5. code \in Codes
  BY SMT DEF Codes
<1>6. tool' = [tool EXCEPT ![t] = x]
  BY <1>1, <1>2
<1>7. /\ x \in Records /\ x.at = "finally" /\ x.run = tool[t].run /\ x.line = tool[t].line
      /\ x.saw = tool[t].saw /\ x.found = tool[t].found /\ x.own = tool[t].own
  <2>1. "finally" \in Phases
    BY DEF Phases
  <2>2. /\ y \in Records /\ y.at = "finally" /\ y.run = tool[t].run /\ y.line = tool[t].line
        /\ y.saw = tool[t].saw /\ y.found = tool[t].found /\ y.own = tool[t].own
    BY <1>2, <2>1, AtIs
  <2> HIDE DEF y
  <2>3. x \in Records
    BY <1>5, <2>2, RecordSets
  <2> QED
    BY <2>2, <2>3, SMT DEF Records
<1> HIDE DEF x
<1>8. ByKind(x)
  BY <1>2, <1>7 DEF ByKind
<1> QED
  BY <1>2, <1>3, <1>4, <1>6, <1>7, <1>8, StageKeeps

LEMMA DataKeeps ==
  ASSUME IInv, NEW t \in Tools, Data(t)
  PROVE  IInv'
<1> DEFINE r == tool[t]
<1>1. /\ UNCHANGED <<bench, apps, site, torn, runs, users, out>> /\ r.at = "data"
      /\ r \in Records /\ Good(t, r, bench, site, runs) /\ ByKind(r) /\ tool \in [Tools -> Records]
      /\ r.line # NoLine /\ Kind(t) = r.line.kind
  BY Now DEF Data, Counted, At, Good, Kind
<1>2. faults' \in 0..MaxFaults
  BY FaultIs DEF Data
<1>3. out' \in [cov : {User, None} \cup Started, report : [run : {User, None} \cup Started, code : 0..10]]
  BY <1>1 DEF IInv, Globals
<1>4. CASE r.line.kind = "demo" /\ tool' = [tool EXCEPT ![t] = Ended(r, 0, "no")]
  <2> DEFINE x == Ended(r, 0, "no")
  <2>1. 0 \in Codes /\ "no" \in Cuts
    BY SMT DEF Codes, Cuts
  <2>2. /\ x \in Records /\ x.at = "idle" /\ x.run = r.run /\ x.line = r.line /\ ~x.own /\ x.saw = None
    BY <1>1, <2>1, EndedIs
  <2> HIDE DEF x
  <2>3. Known(t, x, runs) /\ ByKind(x) /\ Told(x, site)
    BY <1>1, <2>2, SMT DEF Good, Known, ByKind, Told
  <2>4. Holds(x, bench)
    BY <1>4, <2>2, Zenon DEF Holds, Leaves, Early
  <2> QED
    BY <1>1, <1>2, <1>3, <1>4, <2>2, <2>3, <2>4, QuietStep DEF Good, x
<1>5. CASE r.line.kind # "demo" /\ Goes(t, "web")
  <2> DEFINE x == [r EXCEPT !.at = "web"]
  <2>1. "web" \in Phases
    BY DEF Phases
  <2>2. /\ x \in Records /\ x.at = "web" /\ x.run = r.run /\ x.line = r.line
        /\ x.saw = r.saw /\ x.found = r.found /\ x.own = r.own
    BY <1>1, <2>1, AtIs
  <2>3. tool' = [tool EXCEPT ![t] = x]
    BY <1>5 DEF Goes
  <2> HIDE DEF x
  <2>4. ByKind(x)
    BY <1>1, <1>5, <2>2 DEF ByKind
  <2> QED
    BY <1>1, <1>2, <1>3, <2>2, <2>3, <2>4, StageKeeps
<1>6. CASE Fails(t)
  BY <1>1, <1>2, <1>6, FailsKeeps
<1> QED
  BY <1>1, <1>4, <1>5, <1>6 DEF Data

\* A record that a run leaves behind as it ends, whatever it was at: what it leaves up on
\* the bench, if it must not, is cut.
LEMMA EndGood ==
  ASSUME NEW t \in Tools, NEW r \in Records, NEW code \in Codes, NEW cut \in Cuts, NEW b, NEW s, NEW n,
         Known(t, r, n), r.line # NoLine,
         b = r.run /\ ~r.found /\ Leaves(r) => cut \notin {"no", "signal"}
  PROVE  Good(t, Ended(r, code, cut), b, s, n)
<1> DEFINE x == Ended(r, code, cut)
<1>1. /\ x \in Records /\ x.at = "idle" /\ x.run = r.run /\ x.line = r.line /\ x.found = r.found
      /\ x.cut = cut /\ ~x.own /\ x.saw = None
  BY EndedIs
<1> HIDE DEF x
<1>2. Known(t, x, n) /\ ByKind(x) /\ Told(x, s)
  BY <1>1, SMT DEF Known, ByKind, Told
<1>3. Holds(x, b)
  BY <1>1, Zenon DEF Holds, Leaves, Early
<1> QED
  BY <1>2, <1>3 DEF Good, x

LEMMA FinallyKeeps ==
  ASSUME IInv, NEW t \in Tools, Finally(t)
  PROVE  IInv'
<1> DEFINE r == tool[t]
           c == r.code
           k == r.cut
           x == Ended(r, c, k)
<1>1. /\ UNCHANGED <<site, torn, runs, users, out, faults>> /\ r.at = "finally" /\ r.at # "idle"
      /\ r \in Records /\ Good(t, r, bench, site, runs) /\ tool \in [Tools -> Records]
      /\ r.line # NoLine /\ tool' = [tool EXCEPT ![t] = x] /\ r.run \in Started
  BY Now DEF Finally, Counted, At
<1>2. faults' \in 0..MaxFaults /\ torn' \in BOOLEAN
  BY <1>1 DEF IInv, Globals
<1>3. out' \in [cov : {User, None} \cup Started, report : [run : {User, None} \cup Started, code : 0..10]]
  BY <1>1 DEF IInv, Globals
<1>4. c \in Codes /\ k \in Cuts /\ r.own \in BOOLEAN
  BY <1>1, SMT DEF Records
<1>5. (r.own /\ bench' = None /\ apps' = FALSE) \/ (~r.own /\ bench' = bench /\ apps' = apps)
  BY <1>4, Zenon DEF Finally, TakeDown
<1>6. bench' = r.run /\ ~r.found /\ Leaves(r) => k \notin {"no", "signal"}
  <2>1. r.run # None
    BY <1>1, SMT DEF IInv, Globals, Started, None
  <2> QED
    BY <1>1, <1>5, <2>1, Zenon DEF Good, Holds
<1>7. x \in Records /\ x.run = r.run /\ x.at = "idle"
  BY <1>1, <1>4, EndedIs
<1>8. Known(t, r, runs) /\ runs' = runs
  BY <1>1 DEF Good
<1>9. apps' \in BOOLEAN /\ (apps' => bench' # None)
  <2>1. apps \in BOOLEAN /\ (apps => bench # None)
    BY DEF IInv, Globals
  <2>2. CASE bench' = None /\ apps' = FALSE
    BY <2>2
  <2>3. CASE bench' = bench /\ apps' = apps
    BY <2>1, <2>3
  <2> QED
    BY <1>5, <2>2, <2>3
<1>10. bench' \in {bench, None, r.run} /\ site' \in {site, r.run}
  BY <1>1, <1>5
<1> HIDE DEF c, k
<1>11. Good(t, x, bench', site', runs')
  BY <1>1, <1>4, <1>6, <1>8, EndGood
<1> HIDE DEF x
<1>12. bench' = None \/ (bench' = bench /\ apps' = apps /\ torn' = torn)
  BY <1>1, <1>5
<1> QED
  BY <1>1, <1>2, <1>3, <1>7, <1>8, <1>9, <1>10, <1>11, <1>12, StepOn

LEMMA AnswerKeeps ==
  ASSUME IInv, NEW t \in Tools, Answer(t)
  PROVE  IInv'
<1> DEFINE r == tool[t]
<1>1. /\ UNCHANGED <<bench, apps, site, torn, runs, users, faults>> /\ r.at = "prompt"
      /\ r \in Records /\ Good(t, r, bench, site, runs) /\ tool \in [Tools -> Records]
      /\ r.line # NoLine /\ r.line \in CommandLines /\ r.line.kind \in {"test", "demo", "shots"}
  BY Now DEF Answer, Counted, At
<1>2. faults' \in 0..MaxFaults
  BY <1>1 DEF IInv, Globals
<1>3. out' \in [cov : {User, None} \cup Started, report : [run : {User, None} \cup Started, code : 0..10]]
  BY SMT DEF Answer, Cleared, IInv, Globals, NoReport, None
<1>4. bench # r.run /\ ~r.own
  BY <1>1, Zenon DEF Good, Holds, Early
<1>5. CASE tool' = [tool EXCEPT ![t] = [Begun(r) EXCEPT !.said = TRUE]]
  <2> DEFINE y == Begun(r)
             x == [y EXCEPT !.said = TRUE]
  <2>1. /\ y \in Records /\ y.run = r.run /\ y.line = r.line
        /\ y.saw = r.saw /\ y.own = r.own /\ y.found = r.found
        /\ r.line.kind = "test" => y.at = "plan"
        /\ r.line.kind = "shots" => y.at = "first"
        /\ r.line.kind = "demo" => y.at \in {"up", "site"}
    BY <1>1, BegunIs
  <2> HIDE DEF y
  <2>2. x \in Records
    BY <2>1, RecordSets, TRUE \in BOOLEAN
  <2>3. /\ x.run = r.run /\ x.line = r.line /\ x.said
        /\ x.saw = r.saw /\ x.own = r.own /\ x.found = r.found /\ x.at = y.at
    BY <2>1, <2>2, SMT DEF Records
  <2>4. tool' = [tool EXCEPT ![t] = x]
    BY <1>5 DEF y
  <2> HIDE DEF x
  <2>5. Known(t, x, runs) /\ ByKind(x) /\ Told(x, site)
    BY <1>1, <2>1, <2>2, <2>3, SMT DEF Good, Known, ByKind, Told
  <2>6. Holds(x, bench)
    <3>1. x.at \in {"plan", "first", "up", "site"} /\ (x.at = "up" => x.line.kind # "shots")
      BY <1>1, <2>1, <2>3
    <3> QED
      BY <1>4, <2>3, <3>1, Zenon DEF Holds, Early
  <2> QED
    BY <1>1, <1>2, <1>3, <2>2, <2>3, <2>4, <2>5, <2>6, QuietStep DEF Good
<1>6. CASE tool' = [tool EXCEPT ![t] = Refused(r)]
  <2>1. 64 \in Codes /\ "no" \in Cuts
    BY SMT DEF Codes, Cuts
  <2> DEFINE x == Refused(r)
  <2>2. x = Ended(r, 64, "no")
    BY DEF Refused
  <2>3. x \in Records /\ x.run = r.run
    BY <1>1, <2>1, <2>2, EndedIs
  <2>4. Good(t, x, bench, site, runs)
    BY <1>1, <1>4, <2>1, <2>2, EndGood DEF Good
  <2> HIDE DEF x
  <2> QED
    BY <1>1, <1>2, <1>3, <1>6, <2>3, <2>4, QuietStep DEF x
<1> QED
  BY <1>5, <1>6 DEF Answer

\* What a signal does to the processes that were stopped is written down.
LEMMA TornIs ==
  ASSUME IInv, NEW t \in Tools, Torn(t)
  PROVE  /\ torn' \in BOOLEAN /\ (tool[t].at \in {"drop", "make", "again"} => torn')
         /\ tool[t].at \notin {"drop", "make", "again"} => torn' = torn
<1>1. torn \in BOOLEAN
  BY DEF IInv, Globals
<1> QED
  BY <1>1, Zenon DEF Torn

LEMMA InterruptKeeps ==
  ASSUME IInv, NEW t \in Tools, Interrupt(t)
  PROVE  IInv'
<1> DEFINE r == tool[t]
           cut == IF r.at \in {"prompt", "devenv", "undo", "finally"} THEN r.at ELSE "signal"
<1>1. /\ UNCHANGED <<site, out, runs, users>> /\ r.at # "idle" /\ Torn(t) /\ Fault
      /\ r \in Records /\ Good(t, r, bench, site, runs) /\ tool \in [Tools -> Records]
      /\ r.line # NoLine /\ r.line.kind \in {"test", "demo", "shots"} /\ r.run \in Started
      /\ Kind(t) = r.line.kind
  BY Now DEF Interrupt, At, Kind
<1>2. faults' \in 0..MaxFaults
  BY <1>1, FaultIs
<1>3. out' \in [cov : {User, None} \cup Started, report : [run : {User, None} \cup Started, code : 0..10]]
  BY <1>1 DEF IInv, Globals
<1>4. /\ torn' \in BOOLEAN /\ (r.at \in {"drop", "make", "again"} => torn')
      /\ r.at \notin {"drop", "make", "again"} => torn' = torn
  BY <1>1, TornIs
<1>5. r.run # None /\ Known(t, r, runs) /\ runs' = runs
  BY <1>1, SMT DEF IInv, Globals, Started, None, Good
<1>6. \/ bench' = bench /\ apps' = apps
      \/ r.at = "devenv" /\ bench' = r.run /\ apps'
      \/ r.at \in {"undo", "finally"} /\ bench' = None /\ apps' = FALSE
  BY <1>1 DEF Interrupt, At, BringsUp, TakeDown
<1>7. apps' \in BOOLEAN /\ (apps' => bench' # None) /\ bench' \in {bench, None, r.run} /\ site' \in {site, r.run}
  <2>1. apps \in BOOLEAN /\ (apps => bench # None)
    BY DEF IInv, Globals
  <2>2. CASE bench' = bench /\ apps' = apps
    BY <1>1, <2>1, <2>2
  <2>3. CASE r.at = "devenv" /\ bench' = r.run /\ apps'
    <3>1. apps' \in BOOLEAN
      BY <2>1, <2>3, Zenon DEF Interrupt, At, BringsUp, TakeDown
    <3> QED
      BY <1>1, <1>5, <2>3, <3>1
  <2>4. CASE bench' = None /\ apps' = FALSE
    BY <1>1, <2>4
  <2> QED
    BY <1>6, <2>2, <2>3, <2>4
<1>8. ASSUME NEW x \in Records, tool' = [tool EXCEPT ![t] = x], x.run = r.run, Good(t, x, bench', site', runs')
      PROVE  IInv'
  <2>1. \/ bench' = None \/ apps' \/ torn' \/ (x.at \in {"drop", "make", "again"} /\ x.halted)
        \/ /\ bench' = bench /\ apps' = apps /\ torn' = torn
           /\ tool[t].at \in {"drop", "make", "again"} /\ tool[t].halted
                => x.at \in {"drop", "make", "again"} /\ x.halted
    BY <1>4, <1>6
  <2> QED
    BY <1>1, <1>2, <1>3, <1>4, <1>5, <1>7, <1>8, <2>1, StepOn
<1>9. /\ cut \in Cuts /\ (r.at \in {"prompt", "devenv", "undo", "finally"} => cut \notin {"no", "signal"})
      /\ 1 \in Codes /\ 130 \in Codes
  BY SMT DEF Cuts, Codes
<1>10. CASE r.at = "finally" /\ tool' = [tool EXCEPT ![t] = Ended(r, 1, cut)]
  <2> HIDE DEF cut
  <2>1. Ended(r, 1, cut) \in Records /\ Ended(r, 1, cut).run = r.run
    BY <1>1, <1>9, EndedIs
  <2>2. Good(t, Ended(r, 1, cut), bench', site', runs')
    BY <1>1, <1>5, <1>9, <1>10, EndGood
  <2> QED
    BY <1>8, <1>10, <2>1, <2>2
<1>11. CASE (r.line.kind = "demo" \/ r.at = "prompt") /\ tool' = [tool EXCEPT ![t] = Ended(r, 130, cut)]
  <2> HIDE DEF cut
  <2>1. Ended(r, 130, cut) \in Records /\ Ended(r, 130, cut).run = r.run
    BY <1>1, <1>9, EndedIs
  <2>2. Good(t, Ended(r, 130, cut), bench', site', runs')
    BY <1>1, <1>5, <1>9, <1>11, EndGood DEF Leaves
  <2> QED
    BY <1>8, <1>11, <2>1, <2>2
<1>12. CASE /\ r.at # "finally" /\ r.line.kind # "demo" /\ r.at # "prompt"
            /\ tool' = [tool EXCEPT ![t] = [r EXCEPT !.at = "finally", !.code = 130, !.cut = cut]]
  <2> DEFINE y == [r EXCEPT !.at = "finally"]
             z == [y EXCEPT !.code = 130]
             x == [z EXCEPT !.cut = cut]
  <2>1. tool' = [tool EXCEPT ![t] = x]
    BY <1>12
  <2>2. "finally" \in Phases
    BY DEF Phases
  <2> HIDE DEF cut
  <2>3. /\ y \in Records /\ y.at = "finally" /\ y.run = r.run /\ y.line = r.line
        /\ y.saw = r.saw /\ y.found = r.found /\ y.own = r.own
    BY <1>1, <2>2, AtIs
  <2> HIDE DEF y
  <2>4. z \in Records
    BY <1>9, <2>3, RecordSets
  <2>5. /\ z.at = "finally" /\ z.run = r.run /\ z.line = r.line
        /\ z.saw = r.saw /\ z.found = r.found /\ z.own = r.own
    BY <2>3, <2>4, SMT DEF Records
  <2> HIDE DEF z
  <2>6. x \in Records
    BY <1>9, <2>4, RecordSets
  <2>7. /\ x.at = "finally" /\ x.run = r.run /\ x.line = r.line
        /\ x.saw = r.saw /\ x.found = r.found /\ x.own = r.own /\ x.cut = cut
    BY <2>4, <2>5, <2>6, SMT DEF Records
  <2> HIDE DEF x
  <2>8. Known(t, x, runs) /\ ByKind(x)
    BY <1>1, <1>12, <2>6, <2>7, SMT DEF Good, Known, ByKind, NoLine
  <2>9. Told(x, site')
    BY <1>1, <2>7 DEF Good, Told
  <2>10. Holds(x, bench')
    <3>1. r.own => ~r.found
      BY <1>1 DEF Good, Holds
    <3>2. bench' = r.run /\ ~r.found /\ Leaves(r) => r.own \/ cut \notin {"no", "signal"}
      <4>1. CASE r.at \in {"devenv", "undo"}
        BY <1>9, <4>1
      <4>2. CASE r.at \notin {"devenv", "undo"}
        <5>1. bench' = bench
          BY <1>6, <1>12, <4>2
        <5> QED
          BY <1>1, <1>5, <1>12, <4>2, <5>1, Zenon DEF Good, Holds
      <4> QED
        BY <4>1, <4>2
    <3>3. Leaves(x) => Leaves(r)
      BY <2>7 DEF Leaves
    <3> QED
      BY <2>7, <3>1, <3>2, <3>3, Zenon DEF Holds, Early
  <2> QED
    BY <1>5, <1>8, <2>1, <2>6, <2>7, <2>8, <2>9, <2>10 DEF Good
<1> QED
  BY <1>1, <1>10, <1>11, <1>12, Zenon DEF Interrupt, At

LEMMA KillKeeps ==
  ASSUME IInv, NEW t \in Tools, Kill(t)
  PROVE  IInv'
<1> DEFINE r == tool[t]
           cut == IF r.at = "prompt" THEN "prompt" ELSE "killed"
           x == Ended(r, 137, cut)
<1>1. /\ UNCHANGED <<bench, apps, site, out, runs, users>> /\ r.at # "idle" /\ Torn(t) /\ Fault
      /\ r \in Records /\ Good(t, r, bench, site, runs) /\ tool \in [Tools -> Records]
      /\ r.line # NoLine /\ r.run \in Started /\ tool' = [tool EXCEPT ![t] = x]
  BY Now DEF Kill, At
<1>2. faults' \in 0..MaxFaults
  BY <1>1, FaultIs
<1>3. /\ out' \in [cov : {User, None} \cup Started, report : [run : {User, None} \cup Started, code : 0..10]]
      /\ apps' \in BOOLEAN /\ (apps' => bench' # None)
  BY <1>1 DEF IInv, Globals
<1>4. /\ torn' \in BOOLEAN /\ (r.at \in {"drop", "make", "again"} => torn')
      /\ r.at \notin {"drop", "make", "again"} => torn' = torn
  BY <1>1, TornIs
<1>5. cut \in Cuts /\ cut \notin {"no", "signal"} /\ 137 \in Codes
  BY SMT DEF Cuts, Codes
<1> HIDE DEF cut
<1>6. x \in Records /\ x.run = r.run
  BY <1>1, <1>5, EndedIs
<1>7. Good(t, x, bench', site', runs')
  BY <1>1, <1>5, EndGood DEF Good
<1> HIDE DEF x
<1>8. \/ torn'
      \/ /\ bench' = bench /\ apps' = apps /\ torn' = torn
         /\ tool[t].at \in {"drop", "make", "again"} /\ tool[t].halted
              => x.at \in {"drop", "make", "again"} /\ x.halted
  BY <1>1, <1>4
<1>9. bench' \in {bench, None, r.run} /\ site' \in {site, r.run}
  BY <1>1
<1> QED
  BY <1>1, <1>2, <1>3, <1>4, <1>6, <1>7, <1>8, <1>9, StepOn

\* What the developer does.
LEMMA UserKeeps ==
  ASSUME IInv, DevenvUp \/ Down \/ NewSite
  PROVE  IInv'
<1>1. /\ UNCHANGED <<out, tool, torn, runs, faults>> /\ users' \in 0..MaxUser
      /\ bench' \in {bench, None, User} /\ site' \in {site, User} /\ (site # None => site' = site)
  BY AppToolsAssumption, SMT DEF DevenvUp, Down, NewSite, Does, TakeDown, IInv, Globals
<1>2. \/ bench' = User /\ apps' = TRUE
      \/ bench' = None /\ apps' = FALSE
      \/ bench' = bench /\ apps' = apps
  BY DEF DevenvUp, Down, NewSite, TakeDown
<1>3. apps' \in BOOLEAN /\ (apps' => bench' # None) /\ torn' \in BOOLEAN
  <2>1. apps \in BOOLEAN /\ (apps => bench # None) /\ torn \in BOOLEAN
    BY DEF IInv, Globals
  <2>2. CASE bench' = User /\ apps' = TRUE
    BY <1>1, <2>1, <2>2, SMT DEF User, None
  <2>3. CASE bench' = None /\ apps' = FALSE
    BY <1>1, <2>1, <2>3
  <2>4. CASE bench' = bench /\ apps' = apps
    BY <1>1, <2>1, <2>4
  <2> QED
    BY <1>2, <2>2, <2>3, <2>4
<1>4. Globals'
  BY <1>1, <1>3, SMT DEF IInv, Globals, Started
<1>5. Halted' /\ Apart'
  BY <1>1, <1>2 DEF IInv, Halted, Apart
<1>6. ASSUME NEW t \in Tools PROVE Good(t, tool'[t], bench', site', runs')
  <2> DEFINE r == tool[t]
  <2>1. Good(t, r, bench, site, runs) /\ r.run \in {None} \cup 1..runs /\ (r.at # "idle" => r.run # None)
    BY SMT DEF IInv, Good, Known
  <2>2. Told(r, site') /\ ByKind(r) /\ Known(t, r, runs)
    BY <1>1, <2>1, SMT DEF Good, Told
  <2>3. r.run # None /\ bench' = r.run => bench = r.run
    BY <1>1, <2>1, SMT DEF User, None, IInv, Globals
  <2>4. Holds(r, bench')
    <3>1. r.at \in Early => bench' # r.run
      BY <2>1, <2>3, Zenon DEF Good, Holds, Early
    <3> QED
      BY <2>1, <2>3, <3>1, Zenon DEF Good, Holds
  <2> QED
    BY <1>1, <2>2, <2>4 DEF Good
<1> QED
  BY <1>4, <1>5, <1>6 DEF IInv

LEMMA Inductive == IInv /\ [Next]_vars => IInv'
<1> SUFFICES ASSUME IInv, [Next]_vars PROVE IInv'
  OBVIOUS
<1>1. CASE UNCHANGED vars
  BY <1>1 DEF vars, IInv, Globals, Apart, Halted, Started
<1>2. ASSUME NEW t \in Tools, Step(t) PROVE IInv'
  BY <1>2, ReadPlanKeeps, FirstKeeps, UpKeeps, DevenvKeeps, UndoKeeps, WaitKeeps, SiteKeeps, DropKeeps,
     MakeKeeps, AgainKeeps, SetupKeeps, TestsKeeps, CoverageKeeps, ChecksKeeps, ReportKeeps, DataKeeps,
     ShootKeeps, FinallyKeeps DEF Step
<1>3. ASSUME NEW t \in Tools, NEW line \in Lines[t], Start(t, line) PROVE IInv'
  BY <1>3, StartKeeps
<1>4. ASSUME NEW t \in Tools, Answer(t) \/ Interrupt(t) \/ Kill(t) PROVE IInv'
  BY <1>4, AnswerKeeps, InterruptKeeps, KillKeeps
<1> QED
  BY <1>1, <1>2, <1>3, <1>4, UserKeeps DEF Next

\* What a run knows, whose the bench is and what it was told of the site, in every state.
THEOREM Invariance == Spec => []IInv
  BY InitIInv, Inductive, PTL DEF Spec

\* The shapes of a run's record, of the bench and of --out.
THEOREM TypeCorrect == Spec => []TypeOK
  BY Invariance, TypesAre, PTL

\* A bench that a run found down and started is down when the run is over.
THEOREM LeftDown == Spec => []LeavesNothing
<1>1. IInv => LeavesNothing
  <2> SUFFICES ASSUME IInv, NEW t \in Tools, Over(t), ~tool[t].found, tool[t].cut \in {"no", "signal"},
                      Kind(t) = "shots" \/ (Kind(t) = "test" /\ ~tool[t].line.keep)
               PROVE  bench # tool[t].run
    BY DEF LeavesNothing
  <2>1. Holds(tool[t], bench)
    BY DEF IInv, Good
  <2> QED
    BY <2>1, Zenon DEF Holds, Over, At, Kind, Leaves
<1> QED
  BY <1>1, Invariance, PTL

\* The app processes that a run stopped are started again.
THEOREM AppsRunAgain == Spec => []AppsBack
<1>1. IInv => AppsBack
  BY Zenon DEF IInv, Halted, AppsBack, At
<1> QED
  BY <1>1, Invariance, PTL

\* An existing site is only dropped when asked.
THEOREM OnlyWhenAsked == Spec => AskedFirst
<1>1. IInv => [\A t \in Tools : Drop(t) /\ site # None /\ site = tool[t].saw /\ site' # site
                 => tool[t].said]_vars
  <2> SUFFICES ASSUME IInv, NEW t \in Tools, Drop(t), site # None, site = tool[t].saw
               PROVE  tool[t].said
    OBVIOUS
  <2>1. Told(tool[t], site) /\ tool[t].at = "drop"
    BY DEF IInv, Good, Drop, At
  <2> QED
    BY <2>1, Zenon DEF Told
<1> QED
  BY <1>1, Invariance, PTL DEF AskedFirst

\* A step of a tool changes the record of no other.
LEMMA OneAtATime ==
  ASSUME tool \in [Tools -> Records], NEW u \in Tools,
         (\E line \in Lines[u] : Start(u, line)) \/ Answer(u) \/ Kill(u) \/ Step(u) \/ Interrupt(u)
  PROVE  \A v \in Tools \ {u} : tool'[v] = tool[v]
<1>1. CASE (\E line \in Lines[u] : Start(u, line)) \/ Answer(u) \/ Kill(u) \/ Interrupt(u)
  BY <1>1 DEF Start, Answer, Kill, Interrupt
<1>2. CASE ReadPlan(u) \/ First(u) \/ Up(u) \/ Devenv(u) \/ Undo(u) \/ Wait(u)
  BY <1>2 DEF ReadPlan, First, Up, Devenv, Undo, Wait, Goes, Fails
<1>3. CASE Site(u) \/ Drop(u) \/ Make(u) \/ Again(u) \/ Setup(u) \/ Tests(u)
  BY <1>3 DEF Site, Drop, Make, Again, Setup, Tests, Ends, Goes, Fails
<1>4. CASE Coverage(u) \/ Checks(u) \/ Report(u) \/ Data(u) \/ Shoot(u) \/ Finally(u)
  BY <1>4 DEF Coverage, Checks, Report, Data, Shoot, Finally, Goes, Fails
<1> QED
  BY <1>1, <1>2, <1>3, <1>4 DEF Step

\* Of all that a tool does, these stop the bench.
LEMMA OnlyTheseStop ==
  ASSUME IInv, bench # None, bench' = None, NEW u \in Tools,
         (\E line \in Lines[u] : Start(u, line)) \/ Answer(u) \/ Kill(u) \/ Step(u) \/ Interrupt(u)
  PROVE  tool[u].at = "undo" \/ tool[u].own
<1>1. CASE (\E line \in Lines[u] : Start(u, line)) \/ Answer(u) \/ Kill(u)
  BY <1>1 DEF Start, Answer, Kill
<1>2. CASE Interrupt(u)
  <2>1. \/ UNCHANGED <<bench, apps>>
        \/ At(u, "devenv") /\ BringsUp(u)
        \/ At(u, "undo") \/ tool[u].own
    BY <1>2, Zenon DEF Interrupt
  <2> QED
    BY <2>1 DEF BringsUp, At
<1>3. CASE ReadPlan(u) \/ First(u) \/ Up(u) \/ Wait(u) \/ Site(u) \/ Drop(u) \/ Make(u) \/ Again(u)
           \/ Setup(u) \/ Tests(u) \/ Coverage(u) \/ Checks(u) \/ Report(u) \/ Data(u) \/ Shoot(u)
  BY <1>3 DEF ReadPlan, First, Up, Wait, Site, Drop, Make, Again, Setup, Tests, Coverage, Checks, Report,
       Data, Shoot
<1>4. CASE Devenv(u)
  BY <1>4 DEF Devenv, BringsUp
<1>5. CASE Undo(u)
  BY <1>5 DEF Undo, At
<1>6. CASE Finally(u)
  BY <1>6 DEF Finally
<1> QED
  BY <1>1, <1>2, <1>3, <1>4, <1>5, <1>6 DEF Step

\* A run leaves up the bench that it found up.
THEOREM FoundUpStays == Spec => FoundUpIsLeftUp
<1>1. IInv /\ [Next]_vars => [\A t \in Tools : bench # None /\ bench' = None /\ tool'[t] # tool[t]
                                => ~tool[t].found]_vars
  <2> SUFFICES ASSUME IInv, Next, NEW t \in Tools, bench # None, bench' = None, tool'[t] # tool[t]
               PROVE  ~tool[t].found
    BY DEF vars
  <2>1. tool \in [Tools -> Records] /\ Holds(tool[t], bench)
    BY DEF IInv, Apart, Good
  <2>2. ~Down /\ ~DevenvUp /\ ~NewSite
    BY DEF Down, DevenvUp, NewSite, Does
  <2>3. ASSUME NEW u \in Tools,
               (\E line \in Lines[u] : Start(u, line)) \/ Answer(u) \/ Kill(u) \/ Step(u) \/ Interrupt(u)
        PROVE  u = t /\ (tool[u].at = "undo" \/ tool[u].own)
    <3>1. tool[u].at = "undo" \/ tool[u].own
      BY <2>3, OnlyTheseStop
    <3>2. \A v \in Tools \ {u} : tool'[v] = tool[v]
      BY <2>1, <2>3, OneAtATime
    <3> QED
      BY <3>1, <3>2
  <2>4. tool[t].at = "undo" \/ tool[t].own
    BY <2>2, <2>3 DEF Next
  <2>5. tool[t].at = "undo" => tool[t].line.kind = "test"
    BY DEF IInv, Good, ByKind
  <2> QED
    BY <2>1, <2>4, <2>5, Zenon DEF Holds
<1> QED
  BY <1>1, Invariance, PTL DEF Spec, FoundUpIsLeftUp

-----------------------------------------------------------------------------
\* One tool at most runs tests: nothing keeps two frappe-test from each other's --out.
OneTester ==
  \A t, u \in Tools : \A l \in Lines[t], m \in Lines[u] : l.kind = "test" /\ m.kind = "test" => t = u

\* What --out holds is of the run that went past its question, the report only once the run
\* has written it, with the status it ends with.
OutOf(r, o) ==
  r.line.kind = "test" =>
    /\ r.judged \in {None, r.run}
    /\ \/ r.at = "prompt" \/ (r.at = "idle" /\ (r.cut = "prompt" \/ r.code = 64))
       \/ o.cov \in {None, r.run} /\ o.report.run \in {None, r.run}
    /\ r.at \notin {"finally", "idle"} => o.report.run # r.run
    /\ o.report.run = r.run /\ r.cut = "no" => o.report.code = r.code

OutInv == IInv /\ \A t \in Tools : OutOf(tool[t], out)

\* A step of one tool: no other runs tests when it changes what --out holds.
LEMMA OutStep ==
  ASSUME OneTester, OutInv, IInv', NEW t \in Tools, \A u \in Tools \ {t} : tool'[u] = tool[u],
         out' = out \/ tool'[t].line.kind = "test", OutOf(tool'[t], out')
  PROVE  OutInv'
<1>1. ASSUME NEW u \in Tools \ {t} PROVE OutOf(tool'[u], out')
  <2>1. CASE out' = out
    BY <2>1 DEF OutInv
  <2>2. CASE tool'[t].line.kind = "test" /\ tool'[u].line.kind = "test"
    <3>1. tool'[t].line \in Lines[t] /\ tool'[u].line \in Lines[u]
      BY <2>2 DEF IInv, Good, Known, NoLine
    <3> QED
      BY <2>2, <3>1 DEF OneTester
  <2>3. CASE tool'[u].line.kind # "test"
    BY <2>3 DEF OutOf
  <2> QED
    BY <2>1, <2>2, <2>3
<1> QED
  BY <1>1 DEF OutInv

\* A run in the middle of what it does.
Midway(t) ==
  /\ tool[t].at \notin {"idle", "prompt", "finally"} /\ tool'[t].at \notin {"idle", "prompt", "finally"}
  /\ tool'[t].run = tool[t].run /\ tool'[t].line = tool[t].line
  /\ tool'[t].cut = tool[t].cut /\ tool'[t].code = tool[t].code

LEMMA MidwaySteps ==
  ASSUME tool \in [Tools -> Records], NEW t \in Tools, tool[t].line.kind = "test",
         \/ ReadPlan(t) \/ Up(t) \/ Devenv(t) \/ Undo(t) \/ Wait(t) \/ Site(t) \/ Drop(t) \/ Make(t)
         \/ Again(t) \/ Setup(t) \/ Checks(t), ByKind(tool[t])
  PROVE  Midway(t) /\ out' = out /\ tool'[t].judged = tool[t].judged
<1>1. Kind(t) = "test" /\ SiteReady(t) = "setup" /\ tool[t] \in Records
  BY DEF Kind, SiteReady
<1> DEFINE P == Midway(t) /\ out' = out /\ tool'[t].judged = tool[t].judged
<1>2. ASSUME NEW phase, phase \notin {"idle", "prompt", "finally"}, Goes(t, phase), out' = out,
             tool[t].at \notin {"idle", "prompt", "finally"}
      PROVE  P
  BY <1>1, <1>2, SMT DEF Goes, Midway, Records
<1>3. ASSUME Fails(t), out' = out, tool[t].at \notin {"idle", "prompt", "finally"}
      PROVE  P
  BY <1>1, <1>3, SMT DEF Fails, Failed, Midway, Records
<1>4. CASE ReadPlan(t)
  BY <1>2, <1>3, <1>4 DEF ReadPlan, At
<1>5. CASE Up(t)
  BY <1>1, <1>5, SMT DEF Up, Midway, At, Records
<1>6. CASE Devenv(t)
  <2>1. CASE tool' = [tool EXCEPT ![t].at = "wait",
                                  ![t].own = IF Kind(t) = "test" THEN ~tool[t].line.keep ELSE @]
    BY <1>1, <1>6, <2>1, SMT DEF Devenv, Midway, At, Records
  <2> QED
    BY <1>1, <1>2, <1>6, <2>1 DEF Devenv, At
<1>7. CASE Undo(t)
  BY <1>3, <1>7 DEF Undo, At
<1>8. CASE Wait(t)
  BY <1>1, <1>2, <1>3, <1>8 DEF Wait, At, ByKind
<1>9. CASE Site(t)
  <2>1. CASE tool' = [tool EXCEPT ![t].at = "drop", ![t].halted = bench # None]
    BY <1>1, <1>9, <2>1, SMT DEF Site, Midway, At, Records
  <2> QED
    BY <1>1, <1>2, <1>9, <2>1 DEF Site, At
<1>10. ASSUME tool' = [tool EXCEPT ![t].at = "again", ![t].env = TRUE], out' = out,
              tool[t].at \in {"drop", "make"}
       PROVE  P
  BY <1>1, <1>10, SMT DEF Midway, Records
<1>11. CASE Drop(t)
  BY <1>2, <1>10, <1>11 DEF Drop, At
<1>12. CASE Make(t)
  BY <1>2, <1>10, <1>12 DEF Make, At
<1>13. CASE Again(t)
  BY <1>1, <1>2, <1>3, <1>13 DEF Again, At
<1>14. CASE Setup(t)
  BY <1>2, <1>3, <1>14 DEF Setup, At
<1>15. CASE Checks(t)
  <2>1. PICK failed \in SUBSET Stages : tool' = [tool EXCEPT ![t].at = "report", ![t].bad = @ \cup failed]
    BY <1>15 DEF Checks
  <2>2. out' = out /\ tool[t].at = "checks"
    BY <1>15 DEF Checks, At
  <2> QED
    BY <1>1, <2>1, <2>2, SMT DEF Midway, Records
<1> QED
  BY <1>4, <1>5, <1>6, <1>7, <1>8, <1>9, <1>11, <1>12, <1>13, <1>14, <1>15

\* What a run that goes on leaves of --out.
LEMMA OutMidway ==
  ASSUME NEW t \in Tools, OutOf(tool[t], out), Midway(t), tool[t].line.kind = "test",
         tool'[t].judged \in {None, tool[t].run}, out'.cov \in {out.cov, tool[t].run},
         out'.report = out.report
  PROVE  OutOf(tool'[t], out')
BY SMT DEF OutOf, Midway

LEMMA StartOut ==
  ASSUME OneTester, OutInv, IInv', NEW t \in Tools, NEW line \in Lines[t], Start(t, line)
  PROVE  OutInv'
<1> DEFINE r == Fresh(line)
<1>0. line \in CommandLines /\ runs + 1 \in Makers /\ site \in Makers
  BY AppToolsAssumption, SMT DEF Start, Makers, Runs, OutInv, IInv, Globals, Started, User, None
<1>1. tool \in [Tools -> Records] /\ runs \in Nat /\ out.report.run \in {User, None} \cup Started
  BY AppToolsAssumption, SMT DEF OutInv, IInv, Globals, Apart
<1>2. /\ r \in Records /\ r.run = runs + 1 /\ r.line = line /\ r.judged = None /\ r.cut = "no" /\ r.code = 0
      /\ r.at = "idle"
  BY <1>0, FreshIs
<1>3. out.report.run # r.run /\ r.run # None
  BY <1>1, <1>2, SMT DEF Started, User, None
<1>4. \A u \in Tools \ {t} : tool'[u] = tool[u]
  BY <1>1, OneAtATime
<1>5. line \in CommandLines /\ line.kind \in {"test", "demo", "shots"}
  BY AppToolsAssumption, LineKinds
<1> HIDE DEF r
<1>6. CASE tool' = [tool EXCEPT ![t] = Begun(r)] /\ out' = Cleared(r)
  <2>1. tool'[t] = Begun(r)
    BY <1>1, <1>6
  <2>2. CASE line.kind = "test"
    <3>1. Begun(r) = [r EXCEPT !.at = "plan"] /\ out' = [cov |-> None, report |-> NoReport]
      BY <1>2, <1>6, <2>2 DEF Begun, Cleared
    <3>2. Begun(r).run = r.run /\ Begun(r).judged = None
      BY <1>2, <3>1, SMT DEF Records
    <3>3. Begun(r).line = line
      BY <1>2, <3>1, SMT DEF Records
    <3>4. OutOf(tool'[t], out')
      BY <1>3, <2>1, <3>1, <3>2, SMT DEF OutOf, NoReport
    <3> QED
      BY <1>4, <2>1, <2>2, <3>3, <3>4, OutStep
  <2>3. CASE line.kind # "test"
    <3>1. out' = out /\ Begun(r).line = line
      BY <1>2, <1>5, <1>6, <2>3, SMT DEF Cleared, Begun, Records
    <3> QED
      BY <1>4, <2>1, <2>3, <3>1, OutStep DEF OutOf
  <2> QED
    BY <2>2, <2>3
<1>7. CASE tool' = [tool EXCEPT ![t] = [r EXCEPT !.at = "prompt"]] /\ out' = out
  <2>1. tool'[t] = [r EXCEPT !.at = "prompt"]
    BY <1>1, <1>7
  <2>2. tool'[t].at = "prompt" /\ tool'[t].run = r.run /\ tool'[t].judged = None
    BY <1>2, <2>1, SMT DEF Records
  <2>3. OutOf(tool'[t], out')
    BY <1>3, <1>7, <2>2, SMT DEF OutOf
  <2> QED
    BY <1>4, <1>7, <2>3, OutStep
<1>8. CASE tool' = [tool EXCEPT ![t] = Refused(r)] /\ out' = out
  <2>1. tool'[t] = Ended(r, 64, "no")
    BY <1>1, <1>8 DEF Refused
  <2>2. tool'[t].at = "idle" /\ tool'[t].run = r.run /\ tool'[t].judged = None /\ tool'[t].code = 64
    BY <1>2, <2>1, SMT DEF Ended, Idle
  <2>3. OutOf(tool'[t], out')
    BY <1>3, <1>8, <2>2, SMT DEF OutOf
  <2> QED
    BY <1>4, <1>8, <2>3, OutStep
<1> QED
  BY <1>6, <1>7, <1>8 DEF Start, r, Fresh

LEMMA AnswerOut ==
  ASSUME OneTester, OutInv, IInv', NEW t \in Tools, Answer(t)
  PROVE  OutInv'
<1> DEFINE r == tool[t]
<1>1. /\ tool \in [Tools -> Records] /\ r \in Records /\ OutOf(r, out) /\ r.at = "prompt"
      /\ r.line.kind \in {"test", "demo", "shots"} /\ r.run # None
  BY Now, SMT DEF OutInv, Answer, At, Good, Known
<1>2. \A u \in Tools \ {t} : tool'[u] = tool[u]
  BY <1>1, OneAtATime
<1>3. CASE tool' = [tool EXCEPT ![t] = [Begun(r) EXCEPT !.said = TRUE]] /\ out' = Cleared(r)
  <2>1. tool'[t] = [Begun(r) EXCEPT !.said = TRUE]
    BY <1>1, <1>3
  <2>2. CASE r.line.kind = "test"
    <3>1. Begun(r) = [r EXCEPT !.at = "plan"] /\ out' = [cov |-> None, report |-> NoReport]
      BY <1>3, <2>2 DEF Begun, Cleared
    <3>2. tool'[t].run = r.run /\ tool'[t].judged = r.judged /\ tool'[t].line = r.line
      BY <1>1, <2>1, <3>1, SMT DEF Records
    <3>3. OutOf(tool'[t], out')
      BY <1>1, <2>2, <3>1, <3>2, SMT DEF OutOf, NoReport
    <3> QED
      BY <1>2, <2>2, <3>2, <3>3, OutStep
  <2>3. CASE r.line.kind # "test"
    <3>1. out' = out /\ tool'[t].line = r.line
      BY <1>1, <1>3, <2>1, <2>3, SMT DEF Cleared, Begun, Records
    <3> QED
      BY <1>2, <2>3, <3>1, OutStep DEF OutOf
  <2> QED
    BY <2>2, <2>3
<1>4. CASE tool' = [tool EXCEPT ![t] = Refused(r)] /\ out' = out
  <2>1. tool'[t] = Ended(r, 64, "no")
    BY <1>1, <1>4 DEF Refused
  <2>2. /\ tool'[t].at = "idle" /\ tool'[t].run = r.run /\ tool'[t].judged = r.judged
        /\ tool'[t].code = 64 /\ tool'[t].line = r.line
    BY <1>1, <2>1, SMT DEF Ended, Idle
  <2>3. OutOf(tool'[t], out')
    BY <1>1, <1>4, <2>2, SMT DEF OutOf
  <2> QED
    BY <1>2, <1>4, <2>3, OutStep
<1> QED
  BY <1>3, <1>4 DEF Answer

\* ^C and SIGKILL: the report is as it is, and the run says how it ended.
LEMMA CutOut ==
  ASSUME OneTester, OutInv, IInv', NEW t \in Tools, Interrupt(t) \/ Kill(t)
  PROVE  OutInv'
<1> DEFINE r == tool[t]
<1>1. /\ tool \in [Tools -> Records] /\ r \in Records /\ OutOf(r, out) /\ r.at # "idle" /\ out' = out
  BY Now DEF OutInv, Interrupt, Kill, At
<1>2. \A u \in Tools \ {t} : tool'[u] = tool[u]
  BY <1>1, OneAtATime
<1>3. ASSUME r.line.kind = "test"
      PROVE  /\ tool'[t].line = r.line /\ tool'[t].run = r.run /\ tool'[t].judged = r.judged
             /\ tool'[t].cut # "no" /\ tool'[t].at \in {"idle", "finally"}
             /\ r.at = "prompt" => tool'[t].at = "idle" /\ tool'[t].cut = "prompt"
  <2>1. CASE Kill(t)
    <3>1. tool'[t] = Ended(r, 137, IF r.at = "prompt" THEN "prompt" ELSE "killed")
      BY <1>1, <2>1 DEF Kill
    <3> QED
      BY <3>1, SMT DEF Ended, Idle
  <2>2. CASE Interrupt(t)
    <3> DEFINE cut == IF r.at \in {"prompt", "devenv", "undo", "finally"} THEN r.at ELSE "signal"
    <3>1. \/ r.at = "finally" /\ tool'[t] = Ended(r, 1, cut)
          \/ r.at # "finally" /\ tool'[t] = Ended(r, 130, cut)
          \/ r.at \notin {"finally", "prompt"} /\ tool'[t] = [r EXCEPT !.at = "finally", !.code = 130, !.cut = cut]
      BY <1>1, <2>2 DEF Interrupt, At
    <3>2. cut # "no" /\ (r.at = "prompt" => cut = "prompt")
      OBVIOUS
    <3> HIDE DEF cut
    <3>3. CASE r.at = "finally" /\ tool'[t] = Ended(r, 1, cut)
      BY <3>2, <3>3, SMT DEF Ended, Idle
    <3>4. CASE r.at # "finally" /\ tool'[t] = Ended(r, 130, cut)
      BY <3>2, <3>4, SMT DEF Ended, Idle
    <3>5. CASE r.at \notin {"finally", "prompt"} /\ tool'[t] = [r EXCEPT !.at = "finally", !.code = 130, !.cut = cut]
      BY <1>1, <3>2, <3>5, SMT DEF Records
    <3> QED
      BY <3>1, <3>3, <3>4, <3>5
  <2> QED
    BY <2>1, <2>2
<1>4. CASE r.line.kind = "test"
  <2>1. OutOf(tool'[t], out')
    BY <1>1, <1>3, <1>4, SMT DEF OutOf
  <2> QED
    BY <1>1, <1>2, <2>1, OutStep
<1>5. CASE r.line.kind # "test"
  <2>1. tool'[t].line = r.line
    <3>1. CASE Kill(t)
      BY <1>1, <3>1, SMT DEF Kill, Ended, Idle
    <3>2. CASE Interrupt(t)
      <4>1. PICK code, cut : \/ tool'[t] = Ended(r, code, cut)
                             \/ tool'[t] = [r EXCEPT !.at = "finally", !.code = code, !.cut = cut]
        BY <1>1, <3>2 DEF Interrupt, At
      <4>2. CASE tool'[t] = Ended(r, code, cut)
        BY <4>2, SMT DEF Ended, Idle
      <4>3. CASE tool'[t] = [r EXCEPT !.at = "finally", !.code = code, !.cut = cut]
        BY <1>1, <4>3, SMT DEF Records
      <4> QED
        BY <4>1, <4>2, <4>3
    <3> QED
      BY <3>1, <3>2
  <2>2. OutOf(tool'[t], out')
    BY <1>5, <2>1 DEF OutOf
  <2> QED
    BY <1>1, <1>2, <2>2, OutStep
<1> QED
  BY <1>4, <1>5

LEMMA FinallyOut ==
  ASSUME OneTester, OutInv, IInv', NEW t \in Tools, Finally(t)
  PROVE  OutInv'
<1> DEFINE r == tool[t]
           c == r.code
           k == r.cut
<1>1. /\ tool \in [Tools -> Records] /\ r \in Records /\ OutOf(r, out) /\ r.at = "finally" /\ out' = out
      /\ tool'[t] = Ended(r, c, k)
  BY Now DEF OutInv, Finally, At
<1>2. \A u \in Tools \ {t} : tool'[u] = tool[u]
  BY <1>1, OneAtATime DEF Step
<1>3. /\ tool'[t].at = "idle" /\ tool'[t].run = r.run /\ tool'[t].judged = r.judged
      /\ tool'[t].line = r.line /\ tool'[t].code = c /\ tool'[t].cut = k
  <2> HIDE DEF c, k
  <2> QED
    BY <1>1, SMT DEF Ended, Idle
<1>4. OutOf(tool'[t], out')
  BY <1>1, <1>3, SMT DEF OutOf
<1> QED
  BY <1>1, <1>2, <1>4, OutStep

LEMMA TestsOut ==
  ASSUME OneTester, OutInv, IInv', NEW t \in Tools, Tests(t)
  PROVE  OutInv'
<1> DEFINE r == tool[t]
<1>1. /\ tool \in [Tools -> Records] /\ r \in Records /\ OutOf(r, out) /\ r.at = "tests"
      /\ r.line.kind = "test"
  BY Now DEF OutInv, Tests, At, Good, ByKind
<1>2. \A u \in Tools \ {t} : tool'[u] = tool[u]
  BY <1>1, OneAtATime DEF Step
<1>3. PICK good \in BOOLEAN : Ends(t, "coverage", good, "tests")
  BY DEF Tests
<1>4. Midway(t) /\ tool'[t].judged = r.judged
  BY <1>1, <1>3, SMT DEF Ends, Midway, Records
<1>5. out'.report = out.report /\ out'.cov \in {out.cov, r.run}
  <2>1. out' = [out EXCEPT !.cov = r.run] \/ out' = out
    BY DEF Tests
  <2>2. out \in [cov : {User, None} \cup Started, report : [run : {User, None} \cup Started, code : 0..10]]
    BY DEF OutInv, IInv, Globals
  <2> QED
    BY <2>1, <2>2, SMT
<1>6. OutOf(tool'[t], out')
  BY <1>1, <1>4, <1>5, OutMidway, SMT DEF OutOf
<1> QED
  BY <1>1, <1>2, <1>4, <1>6, OutStep DEF Midway

\* The gate judges the data that is there: that of this run.
LEMMA CoverageOut ==
  ASSUME OneTester, OutInv, IInv', NEW t \in Tools, Coverage(t)
  PROVE  OutInv'
<1> DEFINE r == tool[t]
<1>1. /\ tool \in [Tools -> Records] /\ r \in Records /\ OutOf(r, out) /\ r.at = "coverage"
      /\ r.line.kind = "test" /\ out' = out
  BY Now DEF OutInv, Coverage, At, Good, ByKind
<1>2. \A u \in Tools \ {t} : tool'[u] = tool[u]
  BY <1>1, OneAtATime DEF Step
<1>3. r.judged \in {None, r.run} /\ out.cov \in {None, r.run}
  BY <1>1, SMT DEF OutOf
<1>4. Midway(t) /\ tool'[t].judged \in {r.judged, out.cov}
  <2>1. CASE Goes(t, "checks")
    BY <1>1, <2>1, SMT DEF Goes, Midway, Records
  <2>2. ASSUME NEW good \in BOOLEAN, NEW have \in BOOLEAN,
               tool' = [tool EXCEPT ![t].at = "checks", ![t].have = have, ![t].judged = out.cov,
                                    ![t].bad = IF good THEN @ ELSE @ \cup {"coverage"}]
        PROVE  Midway(t) /\ tool'[t].judged \in {r.judged, out.cov}
    <3> DEFINE bad == IF good THEN r.bad ELSE r.bad \cup {"coverage"}
               j == out.cov
    <3>1. tool'[t] = [r EXCEPT !.at = "checks", !.have = have, !.judged = j, !.bad = bad]
      BY <1>1, <2>2
    <3> HIDE DEF bad, j
    <3>2. /\ tool'[t].at = "checks" /\ tool'[t].run = r.run /\ tool'[t].line = r.line
          /\ tool'[t].cut = r.cut /\ tool'[t].code = r.code /\ tool'[t].judged = j
      BY <1>1, <3>1, SMT DEF Records
    <3> QED
      BY <1>1, <3>2 DEF Midway, j
  <2> QED
    BY <2>1, <2>2 DEF Coverage
<1>5. OutOf(tool'[t], out')
  BY <1>1, <1>3, <1>4, OutMidway
<1> QED
  BY <1>1, <1>2, <1>5, OutStep

LEMMA ReportOut ==
  ASSUME OneTester, OutInv, IInv', NEW t \in Tools, Report(t)
  PROVE  OutInv'
<1> DEFINE r == tool[t]
           code == Verdict(r.bad, r.env)
<1>1. /\ tool \in [Tools -> Records] /\ r \in Records /\ OutOf(r, out) /\ r.at = "report"
      /\ r.line.kind = "test" /\ tool' = [tool EXCEPT ![t].at = "finally", ![t].code = code]
      /\ (out' = [out EXCEPT !.report = [run |-> r.run, code |-> code]] \/ out' = out)
  BY Now DEF OutInv, Report, At, Good, ByKind
<1>2. \A u \in Tools \ {t} : tool'[u] = tool[u]
  BY <1>1, OneAtATime DEF Step
<1> HIDE DEF code
<1>3. /\ tool'[t].at = "finally" /\ tool'[t].run = r.run /\ tool'[t].judged = r.judged
      /\ tool'[t].line = r.line /\ tool'[t].code = code /\ tool'[t].cut = r.cut
  BY <1>1, SMT DEF Records
<1>4. /\ out'.cov = out.cov
      /\ out'.report = [run |-> r.run, code |-> code] \/ out'.report = out.report
  <2>1. out \in [cov : {User, None} \cup Started, report : [run : {User, None} \cup Started, code : 0..10]]
    BY DEF OutInv, IInv, Globals
  <2> QED
    BY <1>1, <2>1, SMT
<1>5. OutOf(tool'[t], out')
  BY <1>1, <1>3, <1>4, SMT DEF OutOf
<1> QED
  BY <1>1, <1>2, <1>3, <1>5, OutStep

\* frappe-demo and frappe-shots leave --out alone.
LEMMA OthersOut ==
  ASSUME OneTester, OutInv, IInv', NEW t \in Tools, Step(t), tool[t].line.kind # "test"
  PROVE  OutInv'
<1> DEFINE r == tool[t]
<1>1. tool \in [Tools -> Records] /\ r \in Records /\ ByKind(r)
  BY Now DEF OutInv, Good
<1>2. \A u \in Tools \ {t} : tool'[u] = tool[u]
  BY <1>1, OneAtATime
<1>3. /\ ~ReadPlan(t) /\ ~Undo(t) /\ ~Setup(t) /\ ~Tests(t) /\ ~Coverage(t) /\ ~Checks(t) /\ ~Report(t)
  BY <1>1 DEF ByKind, ReadPlan, Undo, Setup, Tests, Coverage, Checks, Report, At
<1>4. out' = out
  BY <1>3 DEF Step, First, Up, Devenv, Wait, Site, Drop, Make, Again, Data, Shoot, Finally
<1>5. ASSUME NEW at, tool' = [tool EXCEPT ![t].at = at] PROVE tool'[t].line = r.line
  BY <1>1, <1>5, SMT DEF Records
<1>6. ASSUME Fails(t) PROVE tool'[t].line = r.line
  <2>1. r.line.kind \in {"test", "demo", "shots"}
    <3>1. r.at # "idle"
      BY <1>3 DEF Step, First, Up, Devenv, Wait, Site, Drop, Make, Again, Data, Shoot, Finally, At
    <3> QED
      BY <3>1, Now DEF OutInv
  <2> QED
    BY <1>1, <1>6, <2>1, FailedIs DEF Fails
<1>7. tool'[t].line = r.line
  <2>1. CASE First(t)
    <3>1. r.at = "first" /\ r.line.kind = "shots"
      BY <1>1, <2>1 DEF First, At, ByKind
    <3>2. PICK f \in BOOLEAN, o \in BOOLEAN :
             tool' = [tool EXCEPT ![t] =
               IF r.line.consent # "reuse" THEN [[r EXCEPT !.found = f] EXCEPT !.at = "up", !.own = o]
               ELSE IF f THEN [[r EXCEPT !.found = f] EXCEPT !.at = "web"]
               ELSE Failed([r EXCEPT !.found = f])]
      <4> DEFINE q == [r EXCEPT !.found = bench # None]
      <4>1. q.line = r.line
        BY <1>1, SMT DEF Records
      <4>2. (bench # None) \in BOOLEAN /\ (bench = None) \in BOOLEAN
        OBVIOUS
      <4> QED
        BY <2>1, <4>1, <4>2 DEF First
    <3>3. Failed([r EXCEPT !.found = f]).line = r.line
      BY <1>1, <3>1, SMT DEF Failed, Records
    <3> QED
      BY <1>1, <3>2, <3>3, SMT DEF Records
  <2>2. CASE Up(t)
    BY <1>1, <2>2, SMT DEF Up, Records
  <2>3. CASE Devenv(t)
    <3>1. CASE tool' = [tool EXCEPT ![t].at = "wait",
                                    ![t].own = IF Kind(t) = "test" THEN ~tool[t].line.keep ELSE @]
      BY <1>1, <3>1, SMT DEF Records
    <3> QED
      BY <1>5, <1>6, <2>3, <3>1 DEF Devenv, Goes
  <2>4. CASE Wait(t) \/ Data(t)
    <3>1. CASE tool' = [tool EXCEPT ![t] = Ended(@, 0, "no")]
      BY <1>1, <3>1, SMT DEF Ended, Idle
    <3> QED
      BY <1>5, <1>6, <2>4, <3>1 DEF Wait, Data, Goes
  <2>5. CASE Site(t)
    <3>1. CASE tool' = [tool EXCEPT ![t].at = "drop", ![t].halted = bench # None]
      BY <1>1, <3>1, SMT DEF Records
    <3> QED
      BY <1>5, <2>5, <3>1 DEF Site, Goes
  <2>6. CASE Drop(t) \/ Make(t)
    <3>1. CASE tool' = [tool EXCEPT ![t].at = "again", ![t].env = TRUE]
      BY <1>1, <3>1, SMT DEF Records
    <3> QED
      BY <1>5, <2>6, <3>1 DEF Drop, Make, Goes
  <2>7. CASE Again(t)
    BY <1>5, <1>6, <2>7 DEF Again, Goes
  <2>8. CASE Shoot(t)
    <3>1. PICK code \in {0, 1} : tool' = [tool EXCEPT ![t].at = "finally", ![t].code = code]
      BY <2>8 DEF Shoot
    <3> QED
      BY <1>1, <3>1, SMT DEF Records
  <2>9. CASE Finally(t)
    <3> DEFINE c == r.code
               k == r.cut
    <3>1. tool'[t] = Ended(r, c, k)
      BY <1>1, <2>9 DEF Finally
    <3> HIDE DEF c, k
    <3> QED
      BY <3>1, SMT DEF Ended, Idle
  <2> QED
    BY <1>3, <2>1, <2>2, <2>3, <2>4, <2>5, <2>6, <2>7, <2>8, <2>9 DEF Step
<1>8. OutOf(tool'[t], out')
  BY <1>7 DEF OutOf
<1> QED
  BY <1>2, <1>4, <1>8, OutStep

LEMMA OutInductive ==
  ASSUME OneTester
  PROVE  OutInv /\ [Next]_vars => OutInv'
<1> SUFFICES ASSUME OutInv, [Next]_vars PROVE OutInv'
  OBVIOUS
<1>1. IInv'
  BY Inductive DEF OutInv
<1>2. CASE UNCHANGED vars \/ DevenvUp \/ Down \/ NewSite
  <2>1. tool' = tool /\ out' = out
    BY <1>2 DEF vars, DevenvUp, Down, NewSite, Does
  <2> QED
    BY <1>1, <2>1 DEF OutInv
<1>3. ASSUME NEW t \in Tools, Step(t) PROVE OutInv'
  <2>1. CASE tool[t].line.kind = "test" /\ ~Tests(t) /\ ~Coverage(t) /\ ~Report(t) /\ ~Finally(t)
    <3>1. tool \in [Tools -> Records] /\ ByKind(tool[t]) /\ OutOf(tool[t], out)
      BY Now DEF OutInv, Good
    <3>2. ~First(t) /\ ~Shoot(t) /\ ~Data(t)
      BY <2>1, <3>1 DEF First, Shoot, Data, At, ByKind
    <3>3. Midway(t) /\ out' = out /\ tool'[t].judged = tool[t].judged
      BY <1>3, <2>1, <3>1, <3>2, MidwaySteps DEF Step
    <3>4. tool[t].judged \in {None, tool[t].run}
      BY <2>1, <3>1 DEF OutOf
    <3>5. OutOf(tool'[t], out')
      BY <2>1, <3>1, <3>3, <3>4, OutMidway
    <3>6. \A u \in Tools \ {t} : tool'[u] = tool[u]
      BY <1>3, <3>1, OneAtATime
    <3> QED
      BY <1>1, <3>3, <3>5, <3>6, OutStep
  <2> QED
    BY <1>1, <1>3, <2>1, TestsOut, CoverageOut, ReportOut, FinallyOut, OthersOut
<1> QED
  BY <1>1, <1>2, <1>3, StartOut, AnswerOut, CutOut DEF Next

\* When at most one tool runs tests, what --out holds is of its last run that went past the
\* question, and with the bench and the processes all is as it was promised.
THEOREM AllAsPromised ==
  ASSUME OneTester
  PROVE  Spec => []LeftAsPromised
<1>1. Init => OutInv
  <2> SUFFICES ASSUME Init PROVE \A t \in Tools : OutOf(tool[t], out)
    BY InitIInv DEF OutInv
  <2> QED
    BY SMT DEF Init, Idle, OutOf
<1>2. Spec => []OutInv
  BY <1>1, OutInductive, PTL DEF Spec
<1>3. OutInv => OutIsOfThisRun
  BY Zenon DEF OutInv, OutOf, OutIsOfThisRun, Kind, At, Over
<1>4. Spec => []OutIsOfThisRun
  BY <1>2, <1>3, PTL
<1>5. LeavesNothing /\ AppsBack /\ OutIsOfThisRun => LeftAsPromised
  BY DEF LeftAsPromised
<1> QED
  BY <1>4, <1>5, LeftDown, AppsRunAgain, PTL

\* The site and the bench that a run found are not its to drop and stop.
THEOREM NothingFoundIsLost == Spec => KeepsWhatWasThere
  BY OnlyWhenAsked, FoundUpStays, PTL DEF KeepsWhatWasThere
=============================================================================
