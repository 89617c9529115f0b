------------------------------- MODULE Merge -------------------------------
(***************************************************************************)
(* The keys sync manages in two files that are the app's: the tables of    *)
(* pyproject.toml (toml-merge) and the scripts and floors of package.json  *)
(* (json-merge). A key belongs to a module of [tool.frappe-nix]; it is set *)
(* while its module is on, and taken back once its module, on in a state   *)
(* the app committed, is off and the key holds what sync would write.      *)
(*                                                                         *)
(* A merge is one step here: sync reads, merges and writes one file at a   *)
(* time, and module Sync has what lies between files. One file is followed *)
(* at a time, as neither is read for the other.                            *)
(***************************************************************************)
EXTENDS Integers, Sequences, SequencesExt, FiniteSetsExt

CONSTANTS
  MaxGen,   \* bound: what the profile and the major of Frappe render, one value after another
  MaxEdits  \* bound: what the app does

VARIABLES
  doc,          \* the file: [file |-> "py", ...] or [file |-> "pkg", ...]
  on, gen,      \* [tool.frappe-nix]: the modules that are on, what is rendered
  head, ever,   \* the modules on at HEAD, and in any state committed since the opt-in
  hand,         \* the keys whose value is the app's writing, not sync's
  mark,         \* <<on, doc>> of a sync that left the file in order and since which the app only
                \* turned modules of it off, and on
  synced, edits \* whether the last step was a sync; how much the app did

vars == <<doc, on, gen, head, ever, hand, mark, synced, edits>>

Gens == 1..MaxGen
\* Values: what the app wrote itself, what bench new-app wrote, else a rendering.
Gone == 0   Own == -1   Base == -2

-----------------------------------------------------------------------------
(***************************************************************************)
(* pyproject.toml: [project], then tables <<name, value, extra>>, where    *)
(* extra says that the table has keys which are nobody's but the app's     *)
(* (fail_under of coverage, once seeded, is one). "own" is a [tool.*]      *)
(* table of the app.                                                       *)
(***************************************************************************)
Canon    == <<"build-system", "dependencies", "ruff", "coverage", "vulture">>
HeadOnes == {"build-system", "dependencies"}
PyModule == [t \in ToSet(Canon) |->
  CASE t \in HeadOnes -> "metadata" [] t = "ruff" -> "python-lint"
    [] t = "coverage" -> "tests"    [] t = "vulture" -> "test-utils"]
PyModules == {PyModule[t] : t \in ToSet(Canon)}

\* [build-system] is rendered as bench new-app writes it, the rest is not.
Rendered(t) == IF t = "build-system" THEN Base ELSE gen
\* What is never taken back.
Baseline(t, v) == IF t = "dependencies" THEN v = gen ELSE v = Base

Names(py)   == {py[i][1] : i \in DOMAIN py}
At(py, t)   == CHOOSE i \in DOMAIN py : py[i][1] = t
Table(py, t) == IF t \in Names(py) THEN py[At(py, t)] ELSE <<t, Gone, FALSE>>
Rank(t)     == CHOOSE i \in DOMAIN Canon : Canon[i] = t
IsTool(t)   == t \notin {"project", "build-system"}

\* Where a table that is not there goes: before which place.
AfterTools(py) ==
  LET tools == {i \in DOMAIN py : IsTool(py[i][1])}
  IN  IF tools = {} THEN Len(py) + 1 ELSE Max(tools) + 1
PositionLast(py, t) == AfterTools(py)
Position(py, t) ==
  LET own   == {i \in DOMAIN py : py[i][1] = "own"}
      later == {i \in DOMAIN py : /\ py[i][1] \in ToSet(Canon) /\ Rank(py[i][1]) > Rank(t)
                                  /\ \A o \in own : i > o}
  IN  CASE t = "dependencies" /\ "build-system" \in Names(py) -> At(py, "build-system") + 1
        [] t \in HeadOnes                                     -> At(py, "project") + 1
        [] t \notin HeadOnes /\ later # {}                    -> Min(later)
        [] OTHER                                              -> AfterTools(py)

\* A table is dropped with its last key.
SetTable(py, t, v, x) ==
  IF v = Gone /\ ~x THEN SelectSeq(py, LAMBDA e : e[1] # t)
  ELSE [py EXCEPT ![At(py, t)] = <<t, v, x>>]

\* Variants are mutations, no merge uses them: each is next to what it varies.
WasOnAlways(m) == TRUE
WasOn(m) == m \in ever
Retracts(t, v) == v = Rendered(t) /\ ~Baseline(t, v) /\ WasOn(PyModule[t])

\* Tables that are there are set or taken back, then those that are not are placed. A missing
\* floor of coverage is seeded, and "version" joins what is dynamic.
MergeTable(py, t) ==
  LET old == Table(py, t)
  IN  CASE t \notin Names(py)       -> py
        [] PyModule[t] \in on       -> SetTable(py, t, Rendered(t), old[3] \/ t = "coverage")
        [] PyModule[t] \notin on /\ Retracts(t, old[2]) -> SetTable(py, t, Gone, old[3])
        [] OTHER                    -> py
Place(py, t) ==
  IF t \in Names(py) \/ PyModule[t] \notin on THEN py
  ELSE InsertAt(py, Position(py, t), <<t, Rendered(t), t = "coverage">>)
Dynamic(py) ==
  IF "metadata" \in on THEN [py EXCEPT ![At(py, "project")] = <<"project", Base, TRUE>>] ELSE py
MergePy(py) == Dynamic(FoldLeft(Place, FoldLeft(MergeTable, py, Canon), Canon))

\* What --check compares: the values of what is on, and what should be gone.
PyView(py) ==
  [ keys    |-> {<<t, Table(py, t)[2]>> : t \in {u \in ToSet(Canon) : PyModule[u] \in on}},
    left    |-> {t \in ToSet(Canon) : PyModule[t] \notin on /\ Retracts(t, Table(py, t)[2])},
    seeded  |-> "tests" \in on => Table(py, "coverage")[3],
    version |-> "metadata" \in on => Table(py, "project")[2] = Base ]

-----------------------------------------------------------------------------
(***************************************************************************)
(* package.json: scripts <<name, value>> in their order, the steps of      *)
(* scripts.build, a floor in devDependencies (0: none; n: ^n; NoRange: a   *)
(* git reference). A value is a set: {Own}, {a rendering}, or, of check,   *)
(* the scripts that it runs. "projects" among the modules that are on says *)
(* that there is TypeScript to check.                                      *)
(***************************************************************************)
Scripts   == <<"lint", "typecheck", "test:unit", "check">>
CheckPart == [s \in {"lint", "typecheck", "test:unit"} |-> 100 + CHOOSE i \in 1..3 : Scripts[i] = s]
Owner == [s \in ToSet(Scripts) |->
  CASE s = "typecheck" -> "typescript" [] s = "test:unit" -> "tests" [] OTHER -> "js"]
PkgModules == {"js", "typescript", "tests", "vite-register", "projects"}
NoRange    == -1

Value(sc, s)  == IF s \in Names(sc) THEN sc[At(sc, s)][2] ELSE {}
\* What a module renders for a script; {} where there is nothing to run.
Script(s) ==
  CASE s = "lint"      -> {Base}
    [] s = "typecheck" -> IF "projects" \in on THEN {gen} ELSE {}
    [] s = "test:unit" -> {gen}
CheckScript(names) == {CheckPart[s] : s \in names \cap DOMAIN CheckPart}

DropKey(sc, s) == SelectSeq(sc, LAMBDA e : e[1] # s)
\* A key that is there stays where it is; a new one goes before the first later one.
Put(sc, s, v) ==
  LET order(k) == CHOOSE i \in DOMAIN Scripts : Scripts[i] = k
      later    == {i \in DOMAIN sc : sc[i][1] \in ToSet(Scripts) /\ order(sc[i][1]) > order(s)}
  IN  CASE v = {}         -> DropKey(sc, s)
        [] s \in Names(sc) -> [sc EXCEPT ![At(sc, s)] = <<s, v>>]
        [] s \notin Names(sc) /\ v # {} ->
             InsertAt(sc, IF later = {} THEN Len(sc) + 1 ELSE Min(later), <<s, v>>)

MergeScript(sc, s) ==
  IF Owner[s] \in on THEN Put(sc, s, Script(s))
  ELSE IF Value(sc, s) = Script(s) /\ WasOn(Owner[s]) THEN DropKey(sc, s)
  ELSE sc

\* check runs the parts there are. Rendered from the scripts before this run, or from today's.
CheckPutFirst(sc, before) ==
  IF "js" \in on THEN Put(sc, "check", CheckScript(Names(before))) ELSE sc
MergeCheck(sc, before) ==
  LET rendered == {CheckScript(Names(before)), CheckScript(Names(before) \cup {"lint"}),
                   CheckScript(Names(sc) \cup {"lint"})}
  IN  CASE "js" \in on -> Put(sc, "check", CheckScript(Names(sc)))
        [] "js" \notin on /\ WasOn("js") /\ Value(sc, "check") \in rendered -> DropKey(sc, "check")
        [] OTHER -> sc
MergeScripts(sc) == MergeCheck(FoldLeft(MergeScript, sc, <<"lint", "typecheck", "test:unit">>), sc)

\* The steps of a build: "build", "cd" (a directory change and what follows it there), "(cd)"
\* (the same in a subshell), "register" (vite-register.mjs), "update" (the retired script).
DropRetired(steps) == SelectSeq(steps, LAMBDA s : s # "update")
Subshell(steps) == [i \in DOMAIN steps |-> IF steps[i] = "cd" THEN "(cd)" ELSE steps[i]]
Opened(steps)   == IF steps = <<"(cd)">> THEN <<"cd">> ELSE steps
Registered(steps) ==
  CASE steps # <<>> /\ Last(steps) = "register" -> Append(Subshell(Front(steps)), "register")
    [] OTHER                                    -> Append(Subshell(steps), "register")
MergeBuild(steps) ==
  LET kept == DropRetired(steps)
  IN  CASE steps = <<>> -> steps
        [] "vite-register" \in on -> IF kept = <<>> THEN kept ELSE Registered(kept)
        [] /\ "vite-register" \notin on /\ WasOn("vite-register")
           /\ Len(steps) > 1 /\ Last(steps) = "register" -> Opened(Front(steps))
        [] OTHER -> steps

\* A floor is raised, never lowered.
RangeOk(v) == v >= gen
MergeFloor(v) ==
  CASE v = NoRange                                      -> v
    [] v # NoRange /\ "js" \in on                       -> IF RangeOk(v) THEN v ELSE gen
    [] v > 0 /\ "js" \notin on /\ RangeOk(v) /\ WasOn("js") -> 0
    [] OTHER                                            -> v

-----------------------------------------------------------------------------
Py(tables)            == [file |-> "py", tables |-> tables]
Pkg(sc, build, floor) == [file |-> "pkg", scripts |-> sc, build |-> build, floor |-> floor]

Merged(d) ==
  IF d.file = "py" THEN Py(MergePy(d.tables))
  ELSE Pkg(MergeScripts(d.scripts), MergeBuild(d.build), MergeFloor(d.floor))

\* sync --check: pyproject.toml by its managed keys, package.json as data.
View(d) == IF d.file = "py" THEN PyView(d.tables) ELSE [d EXCEPT !.scripts = ToSet(d.scripts)]
Checks(d) == View(d) = View(Merged(d))

\* The value of each key that may be managed, by name; what sync's keys are among them.
KeysOf(d) ==
  IF d.file = "py" THEN ToSet(Canon) ELSE ToSet(Scripts) \cup {"build", "floor"}
ValueOf(d, k) ==
  CASE d.file = "py" -> {Table(d.tables, k)[2]}
    [] d.file = "pkg" /\ k \in ToSet(Scripts) -> Value(d.scripts, k)
    [] OTHER -> {d[k]}
ModuleOf(d, k) ==
  CASE d.file = "py" -> PyModule[k]
    [] d.file = "pkg" /\ k \in ToSet(Scripts) -> Owner[k]
    [] k = "build" -> "vite-register"
    [] k = "floor" -> "js"
Modules(d) == IF d.file = "py" THEN PyModules ELSE PkgModules

\* The managed keys stand in sync's order, after all that is the app's, and no range was raised since.
Ordered(s, keys) ==
  \A i, j \in DOMAIN s : i < j /\ s[i][1] \in ToSet(keys) =>
    /\ s[j][1] \in ToSet(keys)
    /\ (CHOOSE n \in DOMAIN keys : keys[n] = s[i][1]) < (CHOOSE n \in DOMAIN keys : keys[n] = s[j][1])
InOrder(d) ==
  IF d.file = "pkg" THEN Ordered(d.scripts, Scripts) /\ d.floor <= gen
  ELSE /\ Ordered(SelectSeq(d.tables, LAMBDA e : e[1] \notin HeadOnes), SubSeq(Canon, 3, Len(Canon)))
       /\ \A t \in HeadOnes \cap Names(d.tables) : At(d.tables, t) = Rank(t) + 1

-----------------------------------------------------------------------------
\* What an app has when it opts in, in bench new-app's order or its own.
Builds == {<<>>, <<"build">>, <<"cd">>, <<"(cd)">>, <<"build", "update">>, <<"update", "cd">>,
           <<"update">>, <<"cd", "register">>}
Firsts ==
  { Py(<<p>> \o rest) : p \in {<<"project", v, TRUE>> : v \in {Own, Base}},
      rest \in { <<>>, <<<<"own", Own, TRUE>>>>, <<<<"ruff", Base, FALSE>>>>,
                 <<<<"build-system", Base, FALSE>>, <<"ruff", Base, FALSE>>, <<"own", Own, TRUE>>>>,
                 <<<<"own", Own, TRUE>>, <<"coverage", Own, TRUE>>, <<"ruff", Own, TRUE>>>>,
                 <<<<"dependencies", Own, FALSE>>, <<"coverage", 1, FALSE>>>>,
                 <<<<"ruff", Gone, TRUE>>, <<"own", Own, TRUE>>, <<"vulture", Own, FALSE>>>> } }
  \cup { Pkg(sc, b, f) : b \in Builds, f \in {NoRange, 0, 1, MaxGen},
      sc \in { <<>>, <<<<"dev", {Own}>>, <<"lint", {Own}>>>>,
               <<<<"check", {Own}>>, <<"test:unit", {Own}>>, <<"typecheck", {1}>>>> } }

\* Opting in: the profile's modules are on before the first sync, or none is.
Init ==
  /\ doc \in Firsts
  /\ on \in {{}, Modules(doc)}
  /\ gen = 1 /\ head = {} /\ ever = {} /\ synced = FALSE /\ edits = 0
  /\ hand = KeysOf(doc) /\ mark = <<>>

Sync ==
  /\ doc' = Merged(doc)
  /\ hand' = {k \in hand : ValueOf(doc', k) = ValueOf(doc, k)}
  /\ mark' = IF mark = <<>> /\ InOrder(doc') THEN <<on, doc'>> ELSE mark
  /\ synced' = TRUE
  /\ UNCHANGED <<on, gen, head, ever, edits>>

Commit ==
  /\ head' = on /\ ever' = ever \cup on
  /\ UNCHANGED <<doc, on, gen, hand, mark, synced, edits>>

Edit ==
  /\ edits < MaxEdits
  /\ edits' = edits + 1 /\ synced' = FALSE
  /\ UNCHANGED <<head, ever>>

\* The app turns a module on or off, or what is rendered moves on.
Toggle(m) ==
  /\ Edit
  /\ on' = IF m \in on THEN on \ {m} ELSE on \cup {m}
  /\ mark' = IF mark # <<>> /\ m \in mark[1] THEN mark ELSE <<>>
  /\ UNCHANGED <<doc, gen, hand>>
Raise ==
  /\ Edit
  /\ gen < MaxGen /\ gen' = gen + 1 /\ mark' = <<>>
  /\ UNCHANGED <<doc, on, hand>>

\* The app writes a key itself, or removes one; a script is one more, or one less, for check to run.
Writes(d, k) ==
  CASE d.file = "py" /\ k \in Names(d.tables) ->
         {Py(SetTable(d.tables, k, v, Table(d.tables, k)[3])) : v \in {Gone, Own}}
    [] d.file = "py" -> {Py(Append(d.tables, <<k, Own, FALSE>>))}
    [] d.file = "pkg" /\ k \in ToSet(Scripts) ->
         {[d EXCEPT !.scripts = Put(@, k, v)] : v \in {{}, {Own}}}
    [] k = "build" -> {[d EXCEPT !.build = b] : b \in Builds}
    [] k = "floor" -> {[d EXCEPT !.floor = v] : v \in {NoRange} \cup 0..MaxGen}
Write(k) ==
  /\ Edit
  /\ doc' \in Writes(doc, k) \ {doc}
  /\ hand' = hand \cup {k} \cup (IF doc.file = "pkg" /\ k \in DOMAIN CheckPart THEN {"check"} ELSE {})
  /\ mark' = <<>>
  /\ UNCHANGED <<on, gen>>

Next ==
  \/ Sync \/ Commit \/ Raise
  \/ \E m \in Modules(doc) : Toggle(m)
  \/ \E k \in KeysOf(doc) : Write(k)

Spec == Init /\ [][Next]_vars

-----------------------------------------------------------------------------
TypeOK ==
  /\ doc.file \in {"py", "pkg"}
  /\ on \subseteq Modules(doc) /\ head \subseteq ever /\ ever \subseteq Modules(doc)
  /\ gen \in Gens /\ hand \subseteq KeysOf(doc) /\ synced \in BOOLEAN /\ edits \in 0..MaxEdits
  /\ doc.file = "py" => /\ IsInjective([i \in DOMAIN doc.tables |-> doc.tables[i][1]])
                        /\ \A i \in DOMAIN doc.tables : doc.tables[i][2] # Gone \/ doc.tables[i][3]
  /\ doc.file = "pkg" => IsInjective([i \in DOMAIN doc.scripts |-> doc.scripts[i][1]])

\* A second sync has nothing to do, and a check is content exactly when a sync would change nothing:
\* the keys that are compared are all the keys that are written (managed_view beside merge).
Settles     == Merged(Merged(doc)) = Merged(doc)
CheckAgrees == Checks(doc) <=> Merged(doc) = doc

\* What sync wrote goes once its module is off, whatever else went with it in that run: after a sync
\* no key that sync wrote last and that holds today's rendering belongs to a module that is off and was
\* on in a commit. scripts.check is rendered from the other scripts, so it has to go although they went.
Ours(d, k) ==
  CASE d.file = "py" -> LET v == Table(d.tables, k)[2] IN v = Rendered(k) /\ ~Baseline(k, v)
    [] d.file = "pkg" /\ k \in DOMAIN CheckPart -> Value(d.scripts, k) = Script(k) /\ Script(k) # {}
    [] k = "check" -> Value(d.scripts, k) # {}
    [] k = "build" -> d.build # <<>> /\ Last(d.build) = "register"
    [] k = "floor" -> RangeOk(d.floor)
TakenBack ==
  synced => \A k \in KeysOf(doc) \ hand :
    ModuleOf(doc, k) \notin on /\ WasOn(ModuleOf(doc, k)) => ~Ours(doc, k)

\* "turning a module off and on again restores the file byte for byte": it does for a file whose managed
\* keys stand in sync's order after the app's own; a key that sync found elsewhere comes back in its
\* place, and a range that Dependabot raised at the floor.
RoundTrip == synced /\ mark # <<>> => (on = mark[1] => doc = mark[2])

MergeSound == Settles /\ CheckAgrees /\ TakenBack /\ RoundTrip

\* "a module that was never on owns nothing yet": what the app wrote stays through every sync until its
\* module is on, in the working tree or in a commit.
OwnStep ==
  doc # doc' /\ hand' \subseteq hand /\ edits' = edits =>
    \A k \in hand \ hand' : ModuleOf(doc, k) \in on \cup ever
OwnStays == [][OwnStep]_vars
=============================================================================
