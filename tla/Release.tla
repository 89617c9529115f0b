------------------------------ MODULE Release -------------------------------
(***************************************************************************)
(* How an app is released: release.yml runs release-please on the          *)
(* integration branch, dispatches CI on the release PR where no GitHub App *)
(* does, and moves the release branch to the new tag. Its runs follow one  *)
(* another (concurrency group `release`, one waiting); failed jobs of an   *)
(* older run may be run again, with what that run had found. A commit is   *)
(* its number on the integration branch.                                   *)
(***************************************************************************)
EXTENDS Integers, FiniteSetsExt

CONSTANTS
  MaxTip,   \* bound: commits on the integration branch
  MaxFlows, \* bound: runs of release.yml
  MaxHands, \* bound: what an admin does to the release branch
  MaxFaults \* bound: calls that fail

VARIABLES
  conf,   \* a GitHub App's token; the tag scheme is frappe-major
  main,   \* the integration branch: its tip, the release PR that is merged and not tagged yet
  tags,   \* the commits that are tagged; those whose tag is of another major
  rel,    \* where the release branch is, 0 before the first release
  rp,     \* the release PR
  flow,   \* the run of release.yml; done: it ran every job, and nothing failed
  red,    \* the tags whose fast-forward failed
  well,   \* the tags whose fast-forward ended well
  flows, hands, faults

vars == <<conf, main, tags, rel, rp, flow, red, well, flows, hands, faults>>

Contexts == {"ci / lint", "ci / pr-policy"}
Closed == [open |-> FALSE, head |-> 0, checks |-> {}]
Idle == [pc |-> "idle", tag |-> 0, done |-> TRUE, waits |-> FALSE]
Last(of) == IF of = {} THEN 0 ELSE Max(of)
Calm == UNCHANGED <<flows, hands, faults>>

-----------------------------------------------------------------------------
\* What goes on at the branch. A push starts a run, or makes the one that waits; a merge by
\* auto-merge with GITHUB_TOKEN starts none, which the schedule makes up for.
Trigger ==
  /\ flows < MaxFlows /\ flows' = flows + 1
  /\ flow' = IF flow.pc = "idle" THEN [Idle EXCEPT !.pc = "tag"] ELSE [flow EXCEPT !.waits = TRUE]

Push ==
  /\ main.tip < MaxTip /\ main' = [main EXCEPT !.tip = @ + 1]
  /\ Trigger \/ UNCHANGED <<flow, flows>>
  /\ UNCHANGED <<conf, tags, rel, rp, red, well, hands, faults>>

MergeRelease ==
  /\ main.tip < MaxTip /\ rp.open /\ rp.checks = Contexts
  /\ main' = [tip |-> main.tip + 1, merged |-> main.tip + 1]
  /\ rp' = Closed
  /\ \/ UNCHANGED tags
     \/ conf.major /\ tags' = [tags EXCEPT !.odd = @ \cup {main.tip + 1}]
  /\ Trigger \/ UNCHANGED <<flow, flows>>
  /\ UNCHANGED <<conf, rel, red, well, hands, faults>>

Scheduled ==
  /\ Trigger
  /\ UNCHANGED <<conf, main, tags, rel, rp, red, well, hands, faults>>

-----------------------------------------------------------------------------
\* The end of a run starts the one that waits.
Ended(done) == IF flow.waits THEN [Idle EXCEPT !.pc = "tag"] ELSE [Idle EXCEPT !.done = done]

Fails == faults < MaxFaults /\ faults' = faults + 1

\* release-please tags what was merged as the release PR, then opens its PR or brings it up to date:
\* a new head has no checks, unless an App pushed it.
Tag ==
  /\ flow.pc = "tag"
  /\ flow' = [flow EXCEPT !.pc = "pr", !.tag = main.merged]
  /\ tags' = IF main.merged = 0 THEN tags ELSE [tags EXCEPT !.all = @ \cup {main.merged}]
  /\ main' = [main EXCEPT !.merged = 0]
  /\ UNCHANGED <<conf, rel, rp, red, well>> /\ Calm

ReleasePr ==
  /\ flow.pc = "pr"
  /\ rp' = IF main.merged = 0 /\ main.tip > Last(tags.all) /\ ~(rp.open /\ rp.head = main.tip)
           THEN [open |-> TRUE, head |-> main.tip, checks |-> IF conf.app THEN Contexts ELSE {}]
           ELSE rp
  /\ flow' = [flow EXCEPT !.pc = IF conf.app THEN "forward" ELSE "dispatch"]
  /\ UNCHANGED <<conf, main, tags, rel, red, well>> /\ Calm

\* A release-please that fails is a run that ends: no job of it goes on with what it had tagged.
PleaseFails ==
  /\ flow.pc \in {"tag", "pr"} /\ Fails /\ flow' = Ended(FALSE)
  /\ UNCHANGED <<conf, main, tags, rel, rp, red, well, flows, hands>>

\* ensure_ci asks for each context by itself; a dispatch that fails is a notice.
EnsureAny(absent) == IF rp.checks = {} THEN absent ELSE {}
Ensure(absent) == absent
DispatchCi ==
  LET absent == IF rp.open THEN Ensure(Contexts \ rp.checks) ELSE {}
  IN  /\ flow.pc = "dispatch" /\ UNCHANGED <<conf, main, tags, rel, red, well, flows, hands>>
      /\ \/ /\ rp' = [rp EXCEPT !.checks = @ \cup absent] /\ UNCHANGED faults
            /\ flow' = [flow EXCEPT !.pc = "forward"]
         \/ /\ absent # {} /\ Fails
            /\ \E some \in SUBSET absent \ {absent} : rp' = [rp EXCEPT !.checks = @ \cup some]
            /\ flow' = [flow EXCEPT !.pc = "forward", !.done = FALSE]

-----------------------------------------------------------------------------
\* The fast-forward, of a run that made a release.
SchemeOk(tag) == conf.major => tag \notin tags.odd
MovesAnywhere(tag) == TRUE
Moves(tag) == rel <= tag

NoRelease ==
  /\ flow.pc = "forward" /\ flow.tag = 0 /\ flow' = Ended(flow.done)
  /\ UNCHANGED <<conf, main, tags, rel, rp, red, well>> /\ Calm

Refused ==
  /\ flow' = Ended(FALSE) /\ red' = red \cup {flow.tag}
  /\ UNCHANGED <<conf, main, tags, rel, rp, well, flows, hands>>

\* A POST where there is no branch, a PATCH without force where there is one: GitHub takes it when
\* the tag is ahead of the branch. A 403 is the token's, for commits that change workflows.
FastForward ==
  /\ flow.pc = "forward" /\ flow.tag # 0
  /\ \/ ~(SchemeOk(flow.tag) /\ Moves(flow.tag)) /\ Refused /\ UNCHANGED faults
     \/ Fails /\ Refused
     \/ /\ SchemeOk(flow.tag) /\ Moves(flow.tag)
        /\ rel' = flow.tag /\ flow' = [flow EXCEPT !.pc = "read"]
        /\ UNCHANGED <<conf, main, tags, rp, red, well>> /\ Calm

\* Read back, and compared with the tag that this run created.
ReadBack ==
  /\ flow.pc = "read"
  /\ \/ rel # flow.tag /\ Refused /\ UNCHANGED faults
     \/ Fails /\ Refused
     \/ /\ rel = flow.tag /\ well' = well \cup {rel} /\ red' = red \ {rel} /\ flow' = Ended(flow.done)
        /\ UNCHANGED <<conf, main, tags, rel, rp>> /\ Calm

\* "Re-run failed jobs", and the move by hand that the error of a 403 names.
RerunFailed ==
  /\ flow.pc = "idle" /\ flows < MaxFlows /\ flows' = flows + 1
  /\ \E t \in red : flow' = [Idle EXCEPT !.pc = "forward", !.tag = t, !.done = FALSE]
  /\ UNCHANGED <<conf, main, tags, rel, rp, red, well, hands, faults>>

ByHand ==
  /\ hands < MaxHands /\ hands' = hands + 1
  /\ \E t \in tags.all \ tags.odd : t > rel /\ rel' = t
  /\ UNCHANGED <<conf, main, tags, rp, flow, red, well, flows, faults>>

Init ==
  /\ conf \in [app : BOOLEAN, major : BOOLEAN]
  /\ main = [tip |-> 1, merged |-> 0] /\ tags = [all |-> {}, odd |-> {}] /\ rel = 0
  /\ rp = Closed /\ flow = Idle /\ red = {} /\ well = {}
  /\ flows = 0 /\ hands = 0 /\ faults = 0

Next ==
  \/ Push \/ MergeRelease \/ Scheduled
  \/ Tag \/ ReleasePr \/ PleaseFails \/ DispatchCi
  \/ NoRelease \/ FastForward \/ ReadBack \/ RerunFailed \/ ByHand

Spec == Init /\ [][Next]_vars

-----------------------------------------------------------------------------
TypeOK ==
  /\ conf \in [app : BOOLEAN, major : BOOLEAN]
  /\ main.tip \in 1..MaxTip /\ main.merged \in 0..main.tip
  /\ tags.all \subseteq 1..main.tip /\ tags.odd \subseteq 1..main.tip /\ rel \in {0} \cup tags.all
  /\ rp \in [open : BOOLEAN, head : 0..main.tip, checks : SUBSET Contexts]
  /\ flow.pc \in {"idle", "tag", "pr", "dispatch", "forward", "read"} /\ flow.tag \in {0} \cup tags.all
  /\ red \subseteq tags.all /\ well \subseteq tags.all
  /\ flows \in 0..MaxFlows /\ hands \in 0..MaxHands /\ faults \in 0..MaxFaults

\* What repo audit asks: that the branch is at the newest of the release tags, of the major's own.
ReleaseTags == IF conf.major THEN tags.all \ tags.odd ELSE tags.all
Newest == Last(ReleaseTags)
A2 == rel = Newest

\* The release branch only ever moves forward, from tag to tag, and under frappe-major to none of
\* another major: whichever runs are run again, in whatever order, and whoever moved it by hand.
ForwardStep ==
  rel' # rel => rel' > rel /\ rel' \in tags.all /\ (conf.major => rel' \notin tags.odd)

\* A fast-forward that ended well stands: the branch is at that release or at one after it, and once
\* the newest release's has, audit's A2 is green whatever is run again.
AtNewest == (\A t \in well : rel >= t) /\ (Newest \in well => A2)

\* After a run in which nothing failed the release PR has every check that it needs to merge, whether
\* an App's push starts them or dispatch-ci does, and whatever an earlier run could not dispatch.
CiOnHead == flow.pc = "idle" /\ flow.done /\ rp.open => rp.checks = Contexts

ReleaseSound == AtNewest /\ CiOnHead

\* "the release branch must equal the newest release tag (D8)". False of the code: the guard compares
\* with the tag of its own run, which may be an older one, run again.
NewestStep == flow.pc = "read" /\ well' # well => A2
NewestHolds == [][NewestStep]_vars

\* A release whose fast-forward neither failed nor is on its way has the branch. False of the code: a
\* release-please that tags and then fails to open its next PR ends the run, and the next finds no release.
NoneForgotten == flow.pc = "idle" /\ main.merged = 0 /\ red = {} => A2
=============================================================================
