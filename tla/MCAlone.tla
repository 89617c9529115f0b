------------------------------ MODULE MCAlone -------------------------------
(***************************************************************************)
(* Instances for TLC of the programs that keep to themselves: who has a    *)
(* document open at the realtime server (Presence, the host here), and     *)
(* commands that a person or a shell runs: the merge of an app's own files *)
(* (Merge), the rename of an app (Rename), repo apply (Repo), repo rollout *)
(* (Rollout), frappe-init (FrappeInit), what bench build does with         *)
(* node_modules (NodeModules) and with node-locks (NodeLocks), the online  *)
(* part of bench-migrate (OfflineMigrate), the gates of an app one after   *)
(* another (Gate), the ratchet of gate lint over the pull requests of an   *)
(* app (Ratchet), the release of an app (Release) and its listing in a     *)
(* registry (Registry), and what the object-store guard lets a bench do to *)
(* the bucket of production (ObjectStore). None shares anything with       *)
(* another, so a behaviour is one of one part, named when it begins; the   *)
(* parts take their state from one row of variables, of which each uses    *)
(* the first few.                                                          *)
(***************************************************************************)
EXTENDS Presence, TLC

CONSTANTS a1, a2, b1, ann, bob, d1, d2,
  Parts,                                  \* the programs that are looked at
  MaxGen, MaxEdits,                       \* bounds of Merge
  MaxApplies, MaxAdmins, MaxFaults,       \* of Repo
  MaxRolls, MaxOthers, MaxStops,          \* of Rollout
  MaxInits, MaxOwners, MaxCuts,           \* of FrappeInit
  MaxRenames, MaxDevs, MaxScripts,        \* of Rename
  MaxInstalls, MaxYarns, MaxTorn,         \* of NodeModules
  MaxLocks, MaxPulls, MaxUnresolved,      \* of NodeLocks
  MaxShipped, MaxMigrates, MaxOsc,        \* of OfflineMigrate
  MaxCommits, MaxLanded,                  \* of Ratchet
  MaxGates, MaxTouches, MaxUnlucky,       \* of Gate
  MaxCalls, MaxProd, MaxAgain,            \* of ObjectStore
  MaxTip, MaxFlows, MaxHands, MaxFailed,  \* of Release
  MaxTags, MaxListings, MaxLands, MaxLost \* of Registry

VARIABLES part, p1, p2, p3, p4, p5, p6, p7, p8, p9, p10, p11

MCUserOf == [s \in Sockets |-> IF s = b1 THEN bob ELSE ann]

pool    == <<p1, p2, p3, p4, p5, p6, p7, p8, p9, p10, p11>>
allVars == <<rtVars, part, pool>>

M  == INSTANCE Merge WITH doc <- p1, on <- p2, gen <- p3, head <- p4, ever <- p5, hand <- p6,
                          mark <- p7, synced <- p8, edits <- p9
Rp == INSTANCE Repo WITH cfg <- p1, hub <- p2, run <- p3, runs <- p4, acts <- p5, faults <- p6,
                         MaxRuns <- MaxApplies, MaxActs <- MaxAdmins
Ro == INSTANCE Rollout WITH main <- p1, nix <- p2, heads <- p3, prs <- p4, roll <- p5, guard <- p6,
                            rolls <- p7, others <- p8, stops <- p9, night <- p10, issues <- p11
FI == INSTANCE FrappeInit WITH world <- p1, run <- p2, runs <- p3, acts <- p4, stops <- p5,
                               MaxRuns <- MaxInits, MaxActs <- MaxOwners, MaxStops <- MaxCuts
Re == INSTANCE Rename WITH code <- p1, bench <- p2, site <- p3, past <- p4, renames <- p5, edits <- p6, acts <- p7,
                           MaxEdits <- MaxDevs, MaxActs <- MaxScripts
NM == INSTANCE NodeModules WITH app <- p1, devs <- p2, tree <- p3, said <- p4, cache <- p5, stamp <- p6, run <- p7,
                                odd <- p8, runs <- p9, acts <- p10, faults <- p11,
                                MaxRuns <- MaxInstalls, MaxActs <- MaxYarns, MaxFaults <- MaxTorn
NL == INSTANCE NodeLocks WITH app <- p1, dir <- p2, run <- p3, asked <- p4, odd <- p5, runs <- p6, acts <- p7,
                              faults <- p8, MaxRuns <- MaxLocks, MaxActs <- MaxPulls, MaxFaults <- MaxUnresolved
OM == INSTANCE OfflineMigrate WITH code <- p1, db <- p2, run <- p3, snap <- p4, past <- p5, deploys <- p6, tries <- p7,
                                   faults <- p8, MaxDeploys <- MaxShipped, MaxTries <- MaxMigrates, MaxFaults <- MaxOsc
Ra == INSTANCE Ratchet WITH main <- p1, prs <- p2, past <- p3, edits <- p4, merges <- p5,
                            MaxEdits <- MaxCommits, MaxMerges <- MaxLanded
Ga == INSTANCE Gate WITH app <- p1, dist <- p2, run <- p3, reports <- p4, past <- p5, runs <- p6, acts <- p7,
                         faults <- p8, MaxRuns <- MaxGates, MaxActs <- MaxTouches, MaxFaults <- MaxUnlucky
OS == INSTANCE ObjectStore WITH store <- p1, bucket <- p2, set <- p3, call <- p4, upload <- p5, puts <- p6, prods <- p7,
                                retries <- p8, MaxPuts <- MaxCalls, MaxRetries <- MaxAgain
Rl == INSTANCE Release WITH conf <- p1, main <- p2, tags <- p3, rel <- p4, rp <- p5, flow <- p6, red <- p7, well <- p8,
                            flows <- p9, hands <- p10, faults <- p11, MaxFaults <- MaxFailed
Rg == INSTANCE Registry WITH tagged <- p1, up <- p2, fork <- p3, pr <- p4, jobs <- p5, well <- p6, hit <- p7,
                             calls <- p8, lands <- p9, faults <- p10, MaxCalls <- MaxListings, MaxFaults <- MaxLost

Is(name) == part = name /\ UNCHANGED <<part, rtVars>>

MCInit ==
  /\ part \in Parts /\ RtInit
  /\ \/ part = "presence" /\ p1 = 0 /\ p2 = 0 /\ p3 = 0 /\ p4 = 0 /\ p5 = 0 /\ p6 = 0
        /\ p7 = 0 /\ p8 = 0 /\ p9 = 0 /\ p10 = 0 /\ p11 = 0
     \/ part = "merge" /\ M!Init /\ p10 = 0 /\ p11 = 0
     \/ part = "repo" /\ Rp!Init /\ p7 = 0 /\ p8 = 0 /\ p9 = 0 /\ p10 = 0 /\ p11 = 0
     \/ part = "rollout" /\ Ro!Init
     \/ part = "release" /\ Rl!Init
     \/ part = "registry" /\ Rg!Init /\ p11 = 0
     \/ part = "init" /\ FI!Init /\ p6 = 0 /\ p7 = 0 /\ p8 = 0 /\ p9 = 0 /\ p10 = 0 /\ p11 = 0
     \/ part = "rename" /\ Re!Init /\ p8 = 0 /\ p9 = 0 /\ p10 = 0 /\ p11 = 0
     \/ part = "node" /\ NM!Init
     \/ part = "locks" /\ NL!Init /\ p9 = 0 /\ p10 = 0 /\ p11 = 0
     \/ part = "offline" /\ OM!Init /\ p9 = 0 /\ p10 = 0 /\ p11 = 0
     \/ part = "ratchet" /\ Ra!Init /\ p6 = 0 /\ p7 = 0 /\ p8 = 0 /\ p9 = 0 /\ p10 = 0 /\ p11 = 0
     \/ part = "gate" /\ Ga!Init /\ p9 = 0 /\ p10 = 0 /\ p11 = 0
     \/ part = "store" /\ OS!Init /\ p9 = 0 /\ p10 = 0 /\ p11 = 0

MCNext ==
  \/ part = "presence" /\ RtNext /\ UNCHANGED <<part, pool>>
  \/ Is("merge") /\ M!Next /\ UNCHANGED <<p10, p11>>
  \/ Is("repo") /\ Rp!Next /\ UNCHANGED <<p7, p8, p9, p10, p11>>
  \/ Is("rollout") /\ Ro!Next
  \/ Is("release") /\ Rl!Next
  \/ Is("registry") /\ Rg!Next /\ UNCHANGED p11
  \/ Is("init") /\ FI!Next /\ UNCHANGED <<p6, p7, p8, p9, p10, p11>>
  \/ Is("rename") /\ Re!Next /\ UNCHANGED <<p8, p9, p10, p11>>
  \/ Is("node") /\ NM!Next
  \/ Is("locks") /\ NL!Next /\ UNCHANGED <<p9, p10, p11>>
  \/ Is("offline") /\ OM!Next /\ UNCHANGED <<p9, p10, p11>>
  \/ Is("ratchet") /\ Ra!Next /\ UNCHANGED <<p6, p7, p8, p9, p10, p11>>
  \/ Is("gate") /\ Ga!Next /\ UNCHANGED <<p9, p10, p11>>
  \/ Is("store") /\ OS!Next /\ UNCHANGED <<p9, p10, p11>>

MCSpec == MCInit /\ [][MCNext]_allVars

-----------------------------------------------------------------------------
\* The variables of the part that runs have their types.
TypesOK ==
  /\ part = "presence" => RtTypeOK
  /\ part = "merge" => M!TypeOK
  /\ part = "repo" => Rp!TypeOK
  /\ part = "rollout" => Ro!TypeOK
  /\ part = "release" => Rl!TypeOK
  /\ part = "registry" => Rg!TypeOK
  /\ part = "init" => FI!TypeOK
  /\ part = "rename" => Re!TypeOK
  /\ part = "node" => NM!TypeOK
  /\ part = "locks" => NL!TypeOK
  /\ part = "offline" => OM!TypeOK
  /\ part = "ratchet" => Ra!TypeOK
  /\ part = "gate" => Ga!TypeOK
  /\ part = "store" => OS!TypeOK

\* What is written into an app. By toml-merge and json-merge, its own files: a second sync has nothing to do
\* and a check says so, what sync wrote goes with its module, and a module that is turned off and on again
\* leaves the file as it was. By frappe-rename-app, its name: no patch runs again on a site, and what was
\* called by the old name is still there.
AppSound ==
  /\ part = "merge" => M!MergeSound
  /\ part = "rename" => Re!RenameSound

\* What the apps' owner relies on at GitHub. repo apply leaves what audit and doctor have nothing
\* against, and its dry run tells what it would write; repo rollout pushes to a branch what the branch is
\* named after, says "already current" of an app that is, and takes no app back; drift reminds of what is
\* behind. The release branch stays at the newest release that got there, and the release PR has its checks;
\* what was published is in the registry or in its open pull request. gate lint's ratchet lets no exemption
\* into the branch that a pull request goes to, and fails none that asks for none; a gate runs all its steps,
\* reports what they found, and judges no bench but the one it made.
HubSound ==
  /\ part = "repo" => Rp!RepoSound
  /\ part = "rollout" => Ro!RolloutSound
  /\ part = "release" => Rl!ReleaseSound
  /\ part = "registry" => Rg!PublishedStays
  /\ part = "ratchet" => Ra!RatchetSound
  /\ part = "gate" => Ga!GateSound

\* What is made of a bench. frappe-init: a bench that is done is one a flake can see, and a run that was
\* cut off is resumed. bench build: what it builds on is of the manifests and whole, and the lock it takes
\* for an app that has none, or a broken one, was resolved from them. bench migrate: it alters no large table,
\* and does not run on a plan that was half applied.
BenchSound ==
  /\ part = "init" => FI!InitSound
  /\ part = "node" => NM!NodeSound
  /\ part = "locks" => NL!LocksSound
  /\ part = "offline" => OM!OfflineSound

\* No step takes what is another's: sync an app's own keys, apply an admin's ruleset or a required check,
\* rollout a profile that is built in, frappe-init an app's history, a virtualenv or a file that was there,
\* a bench an object that the bucket of production holds. The release branch never moves back.
StepsKeep ==
  [][ /\ part = "merge" => M!OwnStep
      /\ part = "repo" => Rp!KeepsStep
      /\ part = "rollout" => Ro!BuiltinStep
      /\ part = "release" => Rl!ForwardStep
      /\ part = "init" => FI!LosesNothing
      /\ part = "store" => OS!BucketStep ]_allVars
=============================================================================
