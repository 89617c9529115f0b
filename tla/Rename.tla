------------------------------- MODULE Rename -------------------------------
(***************************************************************************)
(* frappe-rename-app: the two halves of renaming an app. The code half     *)
(* rewrites the app's repository; the site half, later and elsewhere,      *)
(* rewrites what a site's database says of the app. Neither tells the      *)
(* other what it did: each asks the package what it can name. One app, its *)
(* developers, a bench that follows its repository, and a site on it. What *)
(* names the app is a pair: the name it is given, and what is named of it. *)
(***************************************************************************)
EXTENDS Integers, FiniteSets

CONSTANTS
  MaxRenames, \* bound: renames of the code
  MaxEdits,   \* bound: what the developers do beside them
  MaxActs     \* bound: what the site's administrator does

VARIABLES
  code,   \* the app's repository
  bench,  \* the code that is on the bench
  site,   \* what the site has of the app
  past,   \* history: what callers elsewhere know, modules that went, a module named like a member
  renames, edits, acts

vars == <<code, bench, site, past, renames, edits, acts>>

Names   == {"a", "b", "c"}
Segs    == {"api", "setup", "accept"}  \* what follows the dot: two modules, a member of the JavaScript namespace
Members == {"accept"}
Refs    == Names \X Segs

\* module_names: what a package can name is its submodules and its top-level names.
\* rewrite_paths: OLD.<x> becomes NEW.<x> where <x> is one of them; any other is not a path into the package.
Rewrite(ref, old, new, mods) == IF ref[1] = old /\ ref[2] \in mods THEN <<new, ref[2]>> ELSE ref
RewritePaths(refs, old, new, mods) == {Rewrite(r, old, new, mods) : r \in refs}

-----------------------------------------------------------------------------
(* The code half. *)

\* A pair that the app's profile or a fleet file replaces is refused; an app that is not opted in has to
\* name where replaced pairs are, or that it asks for none.
Refused(c, source) ==
  \/ ~c.opted /\ source = "none"
  \/ c.replaced /\ (c.opted \/ source # "unchecked")

\* A bundle file OLD.js is renamed; that of a document named OLD stays in its folder. A name at the end of
\* a path is rewritten if a file of that name was renamed, whichever it is.
RenamedFiles(c, old) == {f \in c.files : f[1] = "public" /\ f[2] = old}
FileRef(f, old, new, renamed) == IF f[2] = old /\ renamed # {} THEN <<f[1], new>> ELSE f

\* The whitelisted methods under their old paths. The block that OLD has is replaced, and the others are
\* text like any other, in which keys and targets are rewritten.
Whitelisted(c) == c.mods \cap {"api"}
Shim(c, old, new) ==
  [n \in Names |-> IF n = old THEN {<<<<old, s>>, <<new, s>>>> : s \in Whitelisted(c)}
                   ELSE {<<Rewrite(e[1], old, new, c.mods), Rewrite(e[2], old, new, c.mods)>> : e \in c.shim[n]}]

\* A standard document whose JSON changed has a newer `modified`.
Bump(json, old, new, mods, now) ==
  LET ref == Rewrite(json.ref, old, new, mods) IN [ref |-> ref, at |-> IF ref # json.ref THEN now ELSE json.at]

ApplyCode(c, new, now) ==
  LET old == c.app  renamed == RenamedFiles(c, old) IN
  [c EXCEPT !.app = new,
            !.files = (@ \ renamed) \cup {<<"public", new>> : f \in renamed},
            !.paths = {FileRef(f, old, new, renamed) : f \in @},
            !.patches = RewritePaths(@, old, new, c.mods),
            !.jobs = RewritePaths(@, old, new, c.mods),
            !.js = RewritePaths(@, old, new, c.mods),
            !.json = Bump(@, old, new, c.mods, now),
            !.shim = Shim(c, old, new)]

CmdCode(new, source) ==
  /\ renames < MaxRenames /\ new # code.app /\ ~Refused(code, source)
  /\ renames' = renames + 1
  /\ code' = ApplyCode(code, new, renames + 1)
  /\ past' = [past EXCEPT !.clash = @ \/ Members \cap code.mods # {}]
  /\ UNCHANGED <<bench, site, edits, acts>>

\* A module comes, with a patch, a scheduled job, or goes with what names it.
Develop ==
  /\ edits < MaxEdits /\ edits' = edits + 1
  /\ \E s \in Segs :
       \/ s \notin code.mods /\ code' = [code EXCEPT !.mods = @ \cup {s}] /\ UNCHANGED past
       \/ s \in code.mods /\ code' = [code EXCEPT !.patches = @ \cup {<<code.app, s>>}] /\ UNCHANGED past
       \/ /\ s \in code.mods
          /\ code' = [code EXCEPT !.mods = @ \ {s}, !.patches = {r \in @ : r[2] # s},
                                  !.jobs = {r \in @ : r[2] # s}]
          /\ past' = [past EXCEPT !.dropped = @ \cup {s}]
  /\ UNCHANGED <<bench, site, renames, acts>>

-----------------------------------------------------------------------------
(* The bench and the site. *)

\* The new code is on the bench: by a pull and bench rename-app, or a deploy. Others call what it offers.
Deploy ==
  /\ bench # code /\ bench' = code
  /\ site' = [site EXCEPT !.migrated = FALSE]
  /\ past' = [past EXCEPT !.known = @ \cup {<<code.app, s>> : s \in Whitelisted(code)}]
  /\ UNCHANGED <<code, renames, edits, acts>>

\* The Patch Log, the scheduled jobs in place, the columns that hold an app's name (installed is one), and
\* what the site's own scripts say; in one transaction.
SiteTextAll(ref, old, new, mods) == IF ref[1] = old THEN <<new, ref[2]>> ELSE ref
SiteText(ref, old, new, mods) == Rewrite(ref, old, new, mods)
Renamed(s, new, mods) ==
  LET old == s.installed IN
  [s EXCEPT !.installed = new, !.migrated = FALSE,
            !.log = RewritePaths(@, old, new, mods),
            !.jobs = {<<SiteText(j[1], old, new, mods), j[2]>> : j \in @},
            !.scripts = {SiteText(r, old, new, mods) : r \in @}]

CmdSite ==
  /\ site.installed # bench.app
  /\ site' = Renamed(site, bench.app, bench.mods)
  /\ past' = [past EXCEPT !.clash = @ \/ Members \cap bench.mods # {}]
  /\ UNCHANGED <<code, bench, renames, edits, acts>>

\* bench migrate crashes on an installed app it cannot import. It runs the patches that the log has not,
\* imports what is newer, and syncs the scheduled jobs with hooks.py.
Migrate ==
  /\ site.installed = bench.app
  /\ site' = [site EXCEPT !.migrated = TRUE,
                          !.log = @ \cup bench.patches,
                          !.ran = @ \cup {r[2] : r \in bench.patches},
                          !.json = IF bench.json.at > @.at THEN bench.json ELSE @,
                          !.jobs = {<<r, <<r, TRUE>> \in @>> : r \in bench.jobs}]
  /\ UNCHANGED <<code, bench, past, renames, edits, acts>>

\* A job is stopped, a script is written that calls the app.
Admin ==
  /\ acts < MaxActs /\ acts' = acts + 1 /\ site.migrated /\ site.installed = bench.app
  /\ \/ \E j \in site.jobs : site' = [site EXCEPT !.jobs = (@ \ {j}) \cup {<<j[1], TRUE>>}, !.stopped = @ \cup {j[1][2]}]
     \/ \E r \in bench.js \cup {<<bench.app, s>> : s \in Whitelisted(bench)} :
          site' = [site EXCEPT !.scripts = @ \cup {r}]
  /\ UNCHANGED <<code, bench, past, renames, edits>>

-----------------------------------------------------------------------------
Init ==
  /\ \E opted, replaced \in BOOLEAN, files \in {{<<"public", "a">>}, {<<"doctype", "a">>}, {<<"public", "a">>, <<"doctype", "a">>}} :
       code = [app |-> "a", mods |-> {"api", "setup"}, opted |-> opted, replaced |-> replaced,
               files |-> files, paths |-> files, patches |-> {<<"a", "setup">>}, jobs |-> {<<"a", "setup">>},
               js |-> {<<"a", m>> : m \in Members}, json |-> [ref |-> <<"a", "api">>, at |-> 0],
               shim |-> [n \in Names |-> {}]]
  /\ bench = code
  /\ site = [installed |-> "a", migrated |-> TRUE, log |-> {<<"a", "setup">>}, ran |-> {"setup"},
             json |-> code.json, jobs |-> {<<<<"a", "setup">>, FALSE>>}, stopped |-> {}, scripts |-> {}]
  /\ past = [known |-> {<<"a", "api">>}, dropped |-> {}, clash |-> FALSE]
  /\ renames = 0 /\ edits = 0 /\ acts = 0

Next ==
  \/ \E new \in Names, source \in {"none", "profile", "unchecked"} : CmdCode(new, source)
  \/ Develop \/ Deploy \/ CmdSite \/ Migrate \/ Admin

Spec == Init /\ [][Next]_vars

-----------------------------------------------------------------------------
TypeOK ==
  /\ code.app \in Names /\ bench.app \in Names /\ site.installed \in Names
  /\ code.mods \subseteq Segs /\ code.patches \cup code.jobs \cup code.js \cup site.log \cup site.scripts \subseteq Refs
  /\ site.jobs \subseteq Refs \X BOOLEAN /\ site.stopped \subseteq Segs /\ past.dropped \subseteq Segs
  /\ renames \in 0..MaxRenames /\ edits \in 0..MaxEdits /\ acts \in 0..MaxActs

AtOne == site.installed = bench.app

\* "so every renamed line is exactly the Patch Log entry the site half writes and no patch runs again":
\* whatever came and went in the package between the two halves.
NoPatchAgain == AtOne => \A r \in bench.patches : r[2] \in site.ran \ past.dropped => r \in site.log

\* A job that an administrator stopped is not started by the rename.
StoppedStays ==
  AtOne /\ site.migrated =>
    \A r \in bench.jobs : r[2] \in site.stopped \ past.dropped => <<r, FALSE>> \notin site.jobs

\* "the old whitelisted paths keep working", those of every name the app has had, unless their module went
\* and came back.
Answers(c, ref) ==
  LET over == {e[2] : e \in {e \in UNION {c.shim[n] : n \in Names} : e[1] = ref}}
      live(r) == r[1] = c.app /\ r[2] \in c.mods
  IN  IF over = {} THEN live(ref) ELSE \A t \in over : live(t)
OldPathsAnswer == \A r \in past.known : r[2] \in bench.mods \ past.dropped => Answers(bench, r)

\* What the site's own scripts call is there once both halves are done: a method, or a member of the
\* namespace, which keeps its name. Not so if a module has the name of a member when either half runs: the
\* halves do not know of it that it is not a path, and of each other that it was not one yet.
ScriptsWork ==
  AtOne => \A r \in site.scripts :
    IF r[2] \in Members THEN ~past.clash => r \in bench.js
    ELSE r[2] \in bench.mods \ past.dropped => Answers(bench, r)

\* What a path in the app names is there, unless a document and a bundle both had the app's name, and a
\* document that changed is imported.
PathsThere ==
  /\ Cardinality(code.files) = 1 => code.paths \subseteq code.files
  /\ AtOne /\ site.migrated => site.json = bench.json

\* An app that its profile replaces is not renamed.
ReplacedStays == code.opted /\ code.replaced => code.app = "a"

RenameSound == NoPatchAgain /\ StoppedStays /\ OldPathsAnswer /\ ScriptsWork /\ PathsThere /\ ReplacedStays
=============================================================================
