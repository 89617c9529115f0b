------------------------------- MODULE Ratchet -------------------------------
(***************************************************************************)
(* gate lint's ratchet: what an app is excused from only shrinks, and its  *)
(* coverage floor only rises, over the commits of its integration branch.  *)
(* Each pull request is compared with the commit that it branched from, or *)
(* the merge that GitHub makes of it with the branch that it goes to; the  *)
(* branch moves on meanwhile, and a check is not made again for that.      *)
(***************************************************************************)
EXTENDS Integers, FiniteSets

CONSTANTS
  MaxEdits, \* bound: changes in pull requests
  MaxMerges \* bound: merges

VARIABLES
  main,  \* the integration branch, a Doc
  prs,   \* a pull request: [open, from |-> where it branched, doc |-> its head, run |-> the last check of its head]
  past,  \* [grew |-> history: main loosened, alarm |-> a pull request that loosens nothing was red]
  edits, merges

vars == <<main, prs, past, edits, merges>>

PRs     == 1..2
Modules == {"tests", "types"}
\* [[untested]], [[unchecked-js]], [[coverage-omit]] and the semgrep baseline: what an entry names, by the
\* package that it is of.
Entries == {"old", "new"} \X (1..2)
Ignores == 1..2
\* The app at a commit: opted in, its package, its modules, fail_under, its entries and its ty: ignores.
Configs == [opted : BOOLEAN, pkg : {"old", "new"}, on : SUBSET Modules, floor : 0..2, list : SUBSET Entries,
         ignores : SUBSET Ignores]
First(opted, on) == [opted |-> opted, pkg |-> "old", on |-> on, floor |-> 1, list |-> {<<"old", 1>>}, ignores |-> {1}]
\* A check that is not green, and one that is: what it was compared with.
NoRun == [green |-> FALSE, base |-> First(FALSE, {})]
NoPr == [open |-> FALSE, from |-> First(FALSE, {}), doc |-> First(FALSE, {}), run |-> NoRun]

\* _renamer: the base's entries as head's package names them.
Renamed(list, old, new) == {IF e[1] = old THEN <<new, e[2]>> ELSE e : e \in list}

\* What is looked at in both, with its module on in both.
Both(mod, base, head) == mod \in head.on /\ mod \in base.on
\* A mutant of EntryCame: as many as there were.
MoreEntries(base, head) == Cardinality(head.list) > Cardinality(base.list)
\* violations: R1; R3, R4, R6 and R7; R2.
FloorFell(base, head) == head.floor < base.floor
EntryCame(base, head) == ~(head.list \subseteq Renamed(base.list, base.pkg, head.pkg))
IgnoresRose(base, head) == Cardinality(head.ignores) > Cardinality(base.ignores)
Violations(base, head) ==
  base.opted /\ \/ Both("tests", base, head) /\ (FloorFell(base, head) \/ EntryCame(base, head))
                \/ Both("types", base, head) /\ IgnoresRose(base, head)

-----------------------------------------------------------------------------
(* git and GitHub: external. *)

Merged(b, x, y) ==
  LET one(f) == IF x[f] = b[f] THEN y[f] ELSE x[f]
      set(f) == (x[f] \cap y[f]) \cup (x[f] \ b[f]) \cup (y[f] \ b[f])
  IN  [opted |-> one("opted"), pkg |-> one("pkg"), floor |-> one("floor"),
       on |-> set("on"), list |-> set("list"), ignores |-> set("ignores")]
Conflict(b, x, y) ==
  \/ \E f \in {"opted", "pkg", "floor"} : x[f] # b[f] /\ y[f] # b[f] /\ x[f] # y[f]
  \/ x.pkg # b.pkg /\ y.list # b.list
  \/ y.pkg # b.pkg /\ x.list # b.list

\* A mutant of Compared: the tip, and the head itself.
ComparedTip(p, event) == [base |-> main, head |-> prs[p].doc]

\* The two commits of a run: on pull_request, GitHub's merge and its merge-base with the branch's tip, which
\* is the tip; on workflow_dispatch, the head itself and where it branched.
Compared(p, event) ==
  IF event = "pull_request"
  THEN [base |-> main, head |-> Merged(prs[p].from, main, prs[p].doc)]
  ELSE [base |-> prs[p].from, head |-> prs[p].doc]

Open(p) ==
  /\ ~prs[p].open
  /\ prs' = [prs EXCEPT ![p] = [open |-> TRUE, from |-> main, doc |-> main, run |-> NoRun]]
  /\ UNCHANGED <<main, past, edits, merges>>

\* A commit: the adoption, a module, the floor, an entry, an ignore, or the rename of the app.
Edit(p) ==
  /\ prs[p].open /\ edits < MaxEdits /\ edits' = edits + 1
  /\ \E d \in LET doc == prs[p].doc IN
        {[doc EXCEPT !.opted = TRUE]}
          \cup {[doc EXCEPT !.on = (@ \ {m}) \cup ({m} \ @)] : m \in Modules}
          \cup {[doc EXCEPT !.floor = n] : n \in 0..2}
          \cup {[doc EXCEPT !.list = (@ \ {<<doc.pkg, n>>}) \cup ({<<doc.pkg, n>>} \ @)] : n \in 1..2}
          \cup {[doc EXCEPT !.ignores = (@ \ {n}) \cup ({n} \ @)] : n \in Ignores}
          \cup {[doc EXCEPT !.pkg = "new", !.list = Renamed(@, "old", "new")]} :
       /\ d # prs[p].doc
       /\ prs' = [prs EXCEPT ![p].doc = d, ![p].run = NoRun]
  /\ UNCHANGED <<main, past, merges>>

\* The branch is merged into the pull request.
Update(p) ==
  /\ prs[p].open /\ prs[p].from # main /\ ~Conflict(prs[p].from, main, prs[p].doc)
  /\ prs' = [prs EXCEPT ![p].from = main, ![p].doc = Merged(prs[p].from, main, prs[p].doc), ![p].run = NoRun]
  /\ UNCHANGED <<main, past, edits, merges>>

-----------------------------------------------------------------------------
\* The pull request turns nothing loose of what it branched from.
Loosens(p) ==
  LET b == prs[p].from
      d == prs[p].doc
  IN  FloorFell(b, d) \/ ~(d.list \subseteq Renamed(b.list, b.pkg, d.pkg)) \/ ~(d.ignores \subseteq b.ignores)

\* gate lint on an event, until it is green: one that is made again ends as if it were made then only. A base
\* whose configuration no longer resolves is read with head's modules, and so is one that follows a profile
\* which has turned a module since.
Check(p, event, resolves) ==
  /\ prs[p].open /\ ~prs[p].run.green
  /\ event = "pull_request" => ~Conflict(prs[p].from, main, prs[p].doc)
  /\ LET c == Compared(p, event)
         base == IF resolves THEN c.base ELSE [c.base EXCEPT !.on = c.head.on]
         red == c.head.opted /\ Violations(base, c.head)
     IN  /\ prs' = [prs EXCEPT ![p].run =
                       IF c.head.opted /\ ~red THEN [NoRun EXCEPT !.green = TRUE, !.base = base] ELSE NoRun]
         /\ past' = [past EXCEPT !.alarm = @ \/ (red /\ ~Loosens(p))]
  /\ UNCHANGED <<main, edits, merges>>

\* What main lets in that it did not before, with the module on in it, and in what the check compared with; an
\* entry that was there too has been let in by then, and gone since.
Grew(before, after, run) ==
  /\ run.base.opted
  /\ \/ /\ "tests" \in run.base.on \cap after.on
        /\ \/ after.floor < before.floor
           \/ \E e \in after.list \ Renamed(before.list, before.pkg, after.pkg) :
                e \notin Renamed(run.base.list, run.base.pkg, after.pkg)
     \/ /\ run.base = before /\ "types" \in before.on \cap after.on
        /\ Cardinality(after.ignores) > Cardinality(before.ignores)

\* A green one is merged, whether or not the branch has moved since: its ruleset does not ask for that, and has
\* no required checks before the adoption.
Merge(p) ==
  /\ prs[p].open /\ (prs[p].run.green \/ ~main.opted) /\ merges < MaxMerges /\ merges' = merges + 1
  /\ ~Conflict(prs[p].from, main, prs[p].doc)
  /\ main' = Merged(prs[p].from, main, prs[p].doc)
  /\ past' = [past EXCEPT !.grew = @ \/ Grew(main, Merged(prs[p].from, main, prs[p].doc), prs[p].run)]
  /\ prs' = [prs EXCEPT ![p] = NoPr]
  /\ UNCHANGED edits

-----------------------------------------------------------------------------
Init ==
  /\ main \in {First(TRUE, {}), First(TRUE, Modules), First(FALSE, Modules)}
  /\ prs = [p \in PRs |-> NoPr]
  /\ past = [grew |-> FALSE, alarm |-> FALSE]
  /\ edits = 0 /\ merges = 0

Next ==
  \E p \in PRs :
    \/ Open(p) \/ Edit(p) \/ Update(p) \/ Merge(p)
    \/ \E event \in {"pull_request", "workflow_dispatch"}, resolves \in BOOLEAN : Check(p, event, resolves)

Spec == Init /\ [][Next]_vars

-----------------------------------------------------------------------------
TypeOK ==
  /\ main \in Configs
  /\ prs \in [PRs -> [open : BOOLEAN, from : Configs, doc : Configs,
                   run : [green : BOOLEAN, base : Configs]]]
  /\ edits \in 0..MaxEdits /\ merges \in 0..MaxMerges

\* "The shrink-only values only shrink": from one commit of the branch to the next no entry comes and the floor
\* does not fall, whichever of the two comparisons was made and however far the branch has moved since; the
\* count of ignores does not rise where it has not moved.
Shrinks == ~past.grew

\* "The base tip would fail a PR that branched before develop raised fail_under": none is red that loosens
\* nothing of what it branched from.
NoFalseAlarm == ~past.alarm

RatchetSound == Shrinks /\ NoFalseAlarm
=============================================================================
