------------------------------ MODULE Registry ------------------------------
(***************************************************************************)
(* frappe-listing registry, which lists an app's releases in a registry:   *)
(* it makes a branch of the registry's fork anew from the registry's main, *)
(* with every release that the branch had and main does not list, pushes   *)
(* it by force, and opens or edits the pull request. A maintainer          *)
(* publishes a tag; nightly rebuilds the branch (--refresh). Releases are  *)
(* numbered in the order of their tags, and so are the states of main. A   *)
(* checkout with all tags is taken for granted.                            *)
(***************************************************************************)
EXTENDS Integers, FiniteSets

CONSTANTS
  MaxTags,  \* bound: releases
  MaxCalls, \* bound: commands
  MaxLands, \* bound: what others do to the registry
  MaxFaults \* bound: calls that fail, and kills

VARIABLES
  tagged,   \* the newest release
  up,       \* the registry's main: how often it moved, whether it has the app, the releases listed
  fork,     \* the fork's branch
  pr,       \* the pull request of that branch
  jobs,     \* the command of each who runs one
  well,     \* the releases whose publication ended well
  hit,      \* what happened that the properties name
  calls, lands, faults

vars == <<tagged, up, fork, pr, jobs, well, hit, calls, lands, faults>>

Who == {"maintainer", "nightly"}
NoUp == [tip |-> 0, app |-> FALSE, listed |-> {}]
NoFork == [there |-> FALSE, base |-> 0, listed |-> {}]
Idle == [pc |-> "idle", tag |-> 0, live |-> FALSE, clone |-> NoUp, adds |-> {}, found |-> FALSE]
Calm == UNCHANGED <<calls, lands, faults>>

\* What may be published: the gate, or a commit that is not on the release branch, end the command before
\* it has done anything.
Releases == 1..tagged

\* A refresh is a command without a tag.
Refresh(w) == jobs[w].tag = 0

\* run_registry, up to the clone. --onboard asks for what is found out later.
RunRegistry(w) ==
  /\ jobs[w].pc = "idle" /\ calls < MaxCalls /\ calls' = calls + 1
  /\ \E t \in {0} \cup Releases, live \in BOOLEAN :
       /\ w = "nightly" => t = 0 /\ live
       /\ jobs' = [jobs EXCEPT ![w] = [Idle EXCEPT !.pc = "clone", !.tag = t, !.live = live]]
  /\ hit' = IF \E o \in Who \ {w} : jobs[o].pc # "idle" THEN hit \cup {"two"} ELSE hit
  /\ UNCHANGED <<tagged, up, fork, pr, well, lands, faults>>

Goes(w, pc) == jobs' = [jobs EXCEPT ![w].pc = pc]
Ends(w) == jobs' = [jobs EXCEPT ![w] = Idle]

FreshClone(w) ==
  /\ jobs[w].pc = "clone"
  /\ jobs' = [jobs EXCEPT ![w].clone = up, ![w].pc = IF Refresh(w) THEN "behind" ELSE "prepare"]
  /\ UNCHANGED <<tagged, up, fork, pr, well, hit>> /\ Calm

\* A branch that has main's tip needs no rebuilding, nor does one that is not there.
IsBehind(w) == fork.there /\ fork.base < jobs[w].clone.tip
Behind(w) ==
  /\ jobs[w].pc = "behind" /\ IF IsBehind(w) THEN Goes(w, "prepare") ELSE Ends(w)
  /\ UNCHANGED <<tagged, up, fork, pr, well, hit>> /\ Calm

\* The releases of the fork's branch that main does not list, and the new one. A fetch that fails is
\* taken for a branch that is not there.
PendingNewOnly(w, had) == {jobs[w].tag} \ (jobs[w].clone.listed \cup {0})
Pending(w, had) == (had \cup {jobs[w].tag}) \ (jobs[w].clone.listed \cup {0})

PrepareWith(w, had) ==
  LET adds == Pending(w, had)
      diff == adds # {} \/ ~jobs[w].clone.app
  IN  /\ jobs' = IF diff /\ jobs[w].live
                 THEN [jobs EXCEPT ![w].pc = "push", ![w].adds = adds]
                 ELSE [jobs EXCEPT ![w] = Idle]
      /\ well' = IF ~diff /\ jobs[w].live THEN well \cup ({jobs[w].tag} \ {0}) ELSE well
Prepare(w) ==
  /\ jobs[w].pc = "prepare" /\ UNCHANGED <<tagged, up, fork, pr, calls, lands>>
  /\ \/ PrepareWith(w, fork.listed) /\ UNCHANGED <<hit, faults>>
     \/ /\ fork.there /\ faults < MaxFaults /\ faults' = faults + 1
        /\ PrepareWith(w, {}) /\ hit' = hit \cup {"fetch"}

\* publish: the push, whatever the branch has; then the pull request.
Publish(w) ==
  /\ jobs[w].pc = "push"
  /\ fork' = [there |-> TRUE, base |-> jobs[w].clone.tip,
              listed |-> jobs[w].clone.listed \cup jobs[w].adds]
  /\ Goes(w, "list")
  /\ UNCHANGED <<tagged, up, pr, well, hit>> /\ Calm

ListPrs(w) ==
  /\ jobs[w].pc = "list"
  /\ jobs' = [jobs EXCEPT ![w].pc = "pr", ![w].found = pr = "open"]
  /\ UNCHANGED <<tagged, up, fork, pr, well, hit>> /\ Calm

\* GitHub opens no second one of the same branch.
OpenPr(w) ==
  /\ jobs[w].pc = "pr" /\ Ends(w)
  /\ pr' = IF jobs[w].found THEN pr ELSE "open"
  /\ well' = IF jobs[w].found \/ pr # "open" THEN well \cup ({jobs[w].tag} \ {0}) ELSE well
  /\ UNCHANGED <<tagged, up, fork, hit>> /\ Calm

\* A call that fails ends the command, and so does a kill; what is pushed stays.
Fails(w) ==
  /\ jobs[w].pc # "idle" /\ faults < MaxFaults /\ faults' = faults + 1 /\ Ends(w)
  /\ UNCHANGED <<tagged, up, fork, pr, well, hit, calls, lands>>

-----------------------------------------------------------------------------
\* A release is tagged. The registry takes the pull request, or refuses it, or other apps' land.
TagRelease ==
  /\ tagged < MaxTags /\ tagged' = tagged + 1
  /\ UNCHANGED <<up, fork, pr, jobs, well, hit>> /\ Calm

Lands ==
  /\ lands < MaxLands /\ lands' = lands + 1
  /\ \/ /\ pr = "open" /\ pr' = "none" /\ UNCHANGED hit
        /\ up' = [tip |-> up.tip + 1, app |-> TRUE, listed |-> up.listed \cup fork.listed]
     \/ pr = "open" /\ pr' = "none" /\ hit' = hit \cup {"refused"} /\ UNCHANGED up
     \/ up' = [up EXCEPT !.tip = @ + 1] /\ UNCHANGED <<pr, hit>>
  /\ UNCHANGED <<tagged, fork, jobs, well, calls, faults>>

Init ==
  /\ tagged = 1 /\ up = NoUp /\ fork = NoFork /\ pr = "none"
  /\ jobs = [w \in Who |-> Idle] /\ well = {} /\ hit = {}
  /\ calls = 0 /\ lands = 0 /\ faults = 0

Next ==
  \/ TagRelease \/ Lands
  \/ \E w \in Who : \/ RunRegistry(w) \/ FreshClone(w) \/ Behind(w) \/ Prepare(w)
                    \/ Publish(w) \/ ListPrs(w) \/ OpenPr(w) \/ Fails(w)

Spec == Init /\ [][Next]_vars

-----------------------------------------------------------------------------
TypeOK ==
  /\ tagged \in 1..MaxTags /\ pr \in {"none", "open"}
  /\ up \in [tip : 0..MaxLands, app : BOOLEAN, listed : SUBSET Releases]
  /\ fork \in [there : BOOLEAN, base : 0..up.tip, listed : SUBSET Releases]
  /\ \A w \in Who : /\ jobs[w].pc \in {"idle", "clone", "behind", "prepare", "push", "list", "pr"}
                    /\ jobs[w].tag \in 0..tagged /\ jobs[w].adds \subseteq Releases
                    /\ jobs[w].clone.tip <= up.tip /\ jobs[w].clone.listed \subseteq up.listed
  /\ well \subseteq Releases /\ hit \subseteq {"two", "fetch", "refused"}
  /\ calls \in 0..MaxCalls /\ lands \in 0..MaxLands /\ faults \in 0..MaxFaults

\* A release that was published well is listed, or is in the open pull request, whatever is published,
\* rebuilt, cut off or merged after it: as long as no two commands run at once, no fetch of the branch
\* fails, and the registry refuses none.
PublishedStays ==
  hit = {} => \A t \in well : t \in up.listed \/ (pr = "open" /\ t \in fork.listed)

\* "adds every pending release". False of the code when a refresh, and a publication in between, push by
\* force; and when a fetch that failed is taken for a branch that is not there.
NoneDropped == \A t \in well : t \in up.listed \/ t \in fork.listed

\* "rebuilds an open pull request's branch". False of the code: after a refusal it opens another one.
RefreshStep == \A w \in Who : Refresh(w) /\ jobs[w].pc = "pr" /\ pr' # pr => FALSE
RefreshOpensNone == [][RefreshStep]_vars
=============================================================================
