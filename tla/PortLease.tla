----------------------------- MODULE PortLease ------------------------------
(***************************************************************************)
(* The TCP port lease of a development bench: lib/port-lease.py, and its   *)
(* readiness check lib/port-lease-ready.sh.                                *)
(*                                                                         *)
(* A holder is one `hold` process. It takes its runtime's exclusive lock,  *)
(* drops a ports.json left there, walks from each preferred port to one it *)
(* can claim host-wide and nothing else has bound, renders nginx.conf,     *)
(* publishes ports.json and serves until a signal. A reader is one `ready` *)
(* or `show` polling the same runtime. The kernel drops a process's claims *)
(* and lock however it ends; files stay.                                   *)
(***************************************************************************)
EXTENDS Integers, FiniteSets

CONSTANTS
  Runtimes,    \* runtime directories, one per checkout
  Holders,     \* `hold` processes; a pid is not used twice
  Readers,     \* `ready` and `show` processes
  RuntimeOf,   \* [Holders \cup Readers -> Runtimes]: --runtime
  DryRun,      \* the holders run with --dry-run
  Lingering,   \* the holders whose parent is slow to reap them once killed
  Live,        \* the readers that are `show` (live); the others are `ready`
  NKeys,       \* how many ports a bench wants; 1 is the web port
  Preferred,   \* [Runtimes -> [Keys -> Ports]]: where each walk starts
  Strict,      \* [Runtimes -> SUBSET Keys]: --strict and --pin
  Span,        \* --span
  LastPort,    \* 65535
  Outside,     \* ports a process outside frappe-nix may bind and free
  None         \* no holder

Keys  == 1 .. NKeys
Ports == 1 .. LastPort
Web   == 1

ASSUME ConstantsAssumption ==
  /\ NKeys \in Nat \ {0} /\ LastPort \in Nat \ {0} /\ Span \in Nat \ {0}
  /\ RuntimeOf \in [Holders \cup Readers -> Runtimes]
  /\ DryRun \subseteq Holders /\ Lingering \subseteq Holders
  /\ Live \subseteq Readers
  /\ Holders \cap Readers = {}
  /\ Preferred \in [Runtimes -> [Keys -> Ports]]
  /\ Strict \in [Runtimes -> SUBSET Keys]
  /\ Outside \subseteq Ports
  /\ None \notin Holders

VARIABLES
  pc,       \* pc[h]: where holder h is
  key,      \* key[h]: the want its walk is at
  at,       \* at[h]: the port it is trying
  got,      \* got[h][k]: the port found for k, 0 for none yet
  claims,   \* claims[h]: the ports h has claimed host-wide
  missed,   \* missed[h]: some want found no port
  lock,     \* lock[r]: the holder of ports.lock, or None
  file,     \* file[r]: ports.json: who wrote it, and the ports in it
  conf,     \* conf[r]: the web port rendered into nginx.conf, 0 for none
  bound,    \* ports bound by processes outside frappe-nix
  rpc,      \* rpc[q]: where reader q is
  saw,      \* saw[q]: whose ports.json it read
  truth     \* truth[q]: the lease it read was up at that moment (history)

holderVars == <<pc, key, at, got, claims, missed>>
readerVars == <<rpc, saw, truth>>
vars == <<pc, key, at, got, claims, missed, lock, file, conf, bound, rpc, saw, truth>>

Unset  == [k \in Keys |-> 0]
NoFile == [pid |-> None, ports |-> Unset]
FileType == [pid : Holders \cup {None}, ports : [Keys -> 0 .. LastPort]]

HolderStates ==
  {"idle", "lock", "drop", "walk", "check", "render", "publish", "serve",
   "unlink", "release", "exit", "exited", "zombie", "killed"}
ReaderStates == {"idle", "alive", "flock", "shared", "up", "down"}

\* Ended, reaped or not: the kernel has dropped what the process held.
Ended(h) == pc[h] \in {"exited", "zombie", "killed"}

-----------------------------------------------------------------------------
Init ==
  /\ pc = [h \in Holders |-> "idle"]
  /\ key = [h \in Holders |-> 1]
  /\ at = [h \in Holders |-> Preferred[RuntimeOf[h]][1]]
  /\ got = [h \in Holders |-> Unset]
  /\ claims = [h \in Holders |-> {}]
  /\ missed = [h \in Holders |-> FALSE]
  /\ lock = [r \in Runtimes |-> None]
  /\ file = [r \in Runtimes |-> NoFile]
  /\ conf = [r \in Runtimes |-> 0]
  /\ bound \in SUBSET Outside
  /\ rpc = [q \in Readers |-> "idle"]
  /\ saw = [q \in Readers |-> None]
  /\ truth = [q \in Readers |-> TRUE]

Goto(h, state) == pc' = [pc EXCEPT ![h] = state]

(***************************************************************************)
(* hold: the runtime's lock.                                               *)
(***************************************************************************)
Start(h) ==
  /\ pc[h] = "idle"
  /\ Goto(h, IF h \in DryRun THEN "walk" ELSE "lock")
  /\ UNCHANGED <<key, at, got, claims, missed, lock, file, conf, bound, readerVars>>

\* An exclusive flock is refused while a holder has it, or a reader shares it.
LockFree(r) ==
  /\ lock[r] = None
  /\ ~ \E q \in Readers : RuntimeOf[q] = r /\ rpc[q] = "shared"

TakeLockForgetsFd(h) ==
  /\ pc[h] = "lock"
  /\ LockFree(RuntimeOf[h])
  /\ Goto(h, "drop")
  /\ UNCHANGED <<key, at, got, claims, missed, lock, file, conf, bound, readerVars>>

TakeLock(h) ==
  /\ pc[h] = "lock"
  /\ LockFree(RuntimeOf[h])
  /\ lock' = [lock EXCEPT ![RuntimeOf[h]] = h]
  /\ Goto(h, "drop")
  /\ UNCHANGED <<key, at, got, claims, missed, file, conf, bound, readerVars>>

GiveUpNever(h) == pc[h] = "lock" /\ FALSE

\* LOCK_WAIT has run out. The clock is not modelled: a refused try may be the
\* last one.
GiveUp(h) ==
  /\ pc[h] = "lock"
  /\ ~LockFree(RuntimeOf[h])
  /\ Goto(h, "exit")
  /\ UNCHANGED <<key, at, got, claims, missed, lock, file, conf, bound, readerVars>>

DropStaleSkipped(h) ==
  /\ pc[h] = "drop"
  /\ Goto(h, "walk")
  /\ UNCHANGED <<key, at, got, claims, missed, lock, file, conf, bound, readerVars>>

DropStale(h) ==
  /\ pc[h] = "drop"
  /\ file' = [file EXCEPT ![RuntimeOf[h]] = NoFile]
  /\ Goto(h, "walk")
  /\ UNCHANGED <<key, at, got, claims, missed, lock, conf, bound, readerVars>>

(***************************************************************************)
(* hold: the walk. Each want is tried from its preferred port to Last;     *)
(* one that finds none is noted and the walk goes on with the next.        *)
(***************************************************************************)
LastUncapped(r, k) ==
  IF k \in Strict[r] THEN Preferred[r][k] ELSE Preferred[r][k] + Span - 1

Last(r, k) ==
  IF k \in Strict[r] THEN Preferred[r][k]
  ELSE IF Preferred[r][k] + Span - 1 <= LastPort THEN Preferred[r][k] + Span - 1
  ELSE LastPort

Walking(h) == pc[h] = "walk" /\ key[h] \in Keys
InSpan(h)  == at[h] <= Last(RuntimeOf[h], key[h])
Mine(h)    == {got[h][k] : k \in Keys}
Claimed(p) == \E g \in Holders : p \in claims[g]

NextWant(h) ==
  /\ key' = [key EXCEPT ![h] = @ + 1]
  /\ at' = [at EXCEPT ![h] = IF key[h] < NKeys
                             THEN Preferred[RuntimeOf[h]][key[h] + 1] ELSE @]

ClaimShared(h) ==
  /\ Walking(h) /\ InSpan(h)
  /\ at[h] \notin Mine(h)
  /\ claims' = [claims EXCEPT ![h] = @ \cup {at[h]}]
  /\ Goto(h, "check")
  /\ UNCHANGED <<key, at, got, missed, lock, file, conf, bound, readerVars>>

Claim(h) ==
  /\ Walking(h) /\ InSpan(h)
  /\ at[h] \notin Mine(h)
  /\ ~Claimed(at[h])
  /\ claims' = [claims EXCEPT ![h] = @ \cup {at[h]}]
  /\ Goto(h, "check")
  /\ UNCHANGED <<key, at, got, missed, lock, file, conf, bound, readerVars>>

\* Another of this bench's ports, or another bench's claim.
PassOver(h) ==
  /\ Walking(h) /\ InSpan(h)
  /\ at[h] \in Mine(h) \/ Claimed(at[h])
  /\ at' = [at EXCEPT ![h] = @ + 1]
  /\ UNCHANGED <<pc, key, got, claims, missed, lock, file, conf, bound, readerVars>>

\* The span holds no free port: the want is `taken`.
Exhaust(h) ==
  /\ Walking(h) /\ ~InSpan(h)
  /\ missed' = [missed EXCEPT ![h] = TRUE]
  /\ NextWant(h)
  /\ UNCHANGED <<pc, got, claims, lock, file, conf, bound, readerVars>>

\* tcp_free: nothing outside frappe-nix has the claimed port.
TcpFree(h) ==
  /\ pc[h] = "check"
  /\ at[h] \notin bound
  /\ got' = [got EXCEPT ![h][key[h]] = at[h]]
  /\ NextWant(h)
  /\ Goto(h, "walk")
  /\ UNCHANGED <<claims, missed, lock, file, conf, bound, readerVars>>

TcpTakenKeepsClaim(h) ==
  /\ pc[h] = "check"
  /\ at[h] \in bound
  /\ at' = [at EXCEPT ![h] = @ + 1]
  /\ Goto(h, "walk")
  /\ UNCHANGED <<key, got, claims, missed, lock, file, conf, bound, readerVars>>

TcpTaken(h) ==
  /\ pc[h] = "check"
  /\ at[h] \in bound
  /\ claims' = [claims EXCEPT ![h] = @ \ {at[h]}]
  /\ at' = [at EXCEPT ![h] = @ + 1]
  /\ Goto(h, "walk")
  /\ UNCHANGED <<key, got, missed, lock, file, conf, bound, readerVars>>

\* The walk is over: a refusal and a dry run let go of what they claimed.
SettleAnyway(h) ==
  /\ pc[h] = "walk" /\ key[h] \notin Keys
  /\ IF h \in DryRun
     THEN claims' = [claims EXCEPT ![h] = {}] /\ Goto(h, "exit")
     ELSE Goto(h, "render") /\ UNCHANGED claims
  /\ UNCHANGED <<key, at, got, missed, lock, file, conf, bound, readerVars>>

Settle(h) ==
  /\ pc[h] = "walk" /\ key[h] \notin Keys
  /\ IF missed[h] \/ h \in DryRun
     THEN claims' = [claims EXCEPT ![h] = {}] /\ Goto(h, "exit")
     ELSE Goto(h, "render") /\ UNCHANGED claims
  /\ UNCHANGED <<key, at, got, missed, lock, file, conf, bound, readerVars>>

(***************************************************************************)
(* hold: nginx.conf, then ports.json, then serve.                          *)
(***************************************************************************)
Render(h) ==
  /\ pc[h] = "render"
  /\ conf' = [conf EXCEPT ![RuntimeOf[h]] = got[h][Web]]
  /\ Goto(h, "publish")
  /\ UNCHANGED <<key, at, got, claims, missed, lock, file, bound, readerVars>>

Publish(h) ==
  /\ pc[h] = "publish"
  /\ file' = [file EXCEPT ![RuntimeOf[h]] = [pid |-> h, ports |-> got[h]]]
  /\ Goto(h, "serve")
  /\ UNCHANGED <<key, at, got, claims, missed, lock, conf, bound, readerVars>>

\* SIGTERM or SIGINT while it serves; SIGHUP is ignored.
Stop(h) ==
  /\ pc[h] = "serve"
  /\ Goto(h, "unlink")
  /\ UNCHANGED <<key, at, got, claims, missed, lock, file, conf, bound, readerVars>>

\* serve's finally: ports.json first, when it is still this holder's.
UnlinkSkipped(h) ==
  /\ pc[h] = "unlink"
  /\ Goto(h, "release")
  /\ UNCHANGED <<key, at, got, claims, missed, lock, file, conf, bound, readerVars>>

Unlink(h) ==
  /\ pc[h] = "unlink"
  /\ file' = IF file[RuntimeOf[h]].pid = h
             THEN [file EXCEPT ![RuntimeOf[h]] = NoFile] ELSE file
  /\ Goto(h, "release")
  /\ UNCHANGED <<key, at, got, claims, missed, lock, conf, bound, readerVars>>

Release(h) ==
  /\ pc[h] = "release"
  /\ claims' = [claims EXCEPT ![h] = {}]
  /\ Goto(h, "exit")
  /\ UNCHANGED <<key, at, got, missed, lock, file, conf, bound, readerVars>>

\* What the kernel does for a process that ends.
DropAll(h) ==
  /\ claims' = [claims EXCEPT ![h] = {}]
  /\ lock' = [r \in Runtimes |-> IF lock[r] = h THEN None ELSE lock[r]]

Exit(h) ==
  /\ pc[h] = "exit"
  /\ DropAll(h)
  /\ Goto(h, "exited")
  /\ UNCHANGED <<key, at, got, missed, file, conf, bound, readerVars>>

\* SIGKILL at any time; outside serve every signal that is not ignored, too,
\* for the handlers are installed there and nothing is cleaned up before it.
Kill(h) ==
  /\ pc[h] # "idle" /\ ~Ended(h)
  /\ DropAll(h)
  /\ Goto(h, IF h \in Lingering THEN "zombie" ELSE "killed")
  /\ UNCHANGED <<key, at, got, missed, file, conf, bound, readerVars>>

Reap(h) ==
  /\ pc[h] = "zombie"
  /\ Goto(h, "killed")
  /\ UNCHANGED <<key, at, got, claims, missed, lock, file, conf, bound, readerVars>>

(***************************************************************************)
(* ready and live: the file, the writer's pid (live only), then the lock,  *)
(* tested with a shared flock that is dropped at once when it is granted.  *)
(***************************************************************************)
\* The lease in r's ports.json is up: its writer still holds all of it.
LeaseUp(r) ==
  LET w == file[r].pid
  IN  /\ w # None
      /\ lock[r] = w
      /\ \A k \in Keys : file[r].ports[k] \in claims[w]

ReadFile(q) ==
  LET r == RuntimeOf[q]
  IN  /\ rpc[q] \in {"idle", "up", "down"}
      /\ saw' = [saw EXCEPT ![q] = file[r].pid]
      /\ truth' = [truth EXCEPT ![q] = LeaseUp(r)]
      /\ rpc' = [rpc EXCEPT ![q] = IF file[r].pid = None THEN "down"
                                   ELSE IF q \in Live THEN "alive" ELSE "flock"]
      /\ UNCHANGED <<holderVars, lock, file, conf, bound>>

\* kill(pid, 0): a zombie still answers.
AliveSkipped(q) ==
  /\ rpc[q] = "alive"
  /\ rpc' = [rpc EXCEPT ![q] = "flock"]
  /\ UNCHANGED <<holderVars, lock, file, conf, bound, saw, truth>>

CheckAlive(q) ==
  /\ rpc[q] = "alive"
  /\ rpc' = [rpc EXCEPT ![q] =
               IF pc[saw[q]] \in {"exited", "killed"} THEN "down" ELSE "flock"]
  /\ UNCHANGED <<holderVars, lock, file, conf, bound, saw, truth>>

TestLock(q) ==
  /\ rpc[q] = "flock"
  /\ rpc' = [rpc EXCEPT ![q] = IF lock[RuntimeOf[q]] = None THEN "shared" ELSE "up"]
  /\ UNCHANGED <<holderVars, lock, file, conf, bound, saw, truth>>

DropShared(q) ==
  /\ rpc[q] = "shared"
  /\ rpc' = [rpc EXCEPT ![q] = "down"]
  /\ UNCHANGED <<holderVars, lock, file, conf, bound, saw, truth>>

\* A process outside frappe-nix binds a port, or lets it go.
Toggle(p) ==
  /\ bound' = IF p \in bound THEN bound \ {p} ELSE bound \cup {p}
  /\ UNCHANGED <<holderVars, lock, file, conf, readerVars>>

-----------------------------------------------------------------------------
HolderStep(h) ==
  \/ TakeLock(h) \/ GiveUp(h) \/ DropStale(h)
  \/ Claim(h) \/ PassOver(h) \/ Exhaust(h) \/ TcpFree(h) \/ TcpTaken(h)
  \/ Settle(h) \/ Render(h) \/ Publish(h)
  \/ Unlink(h) \/ Release(h) \/ Exit(h)

ReaderStep(q) == ReadFile(q) \/ CheckAlive(q) \/ TestLock(q) \/ DropShared(q)

Next ==
  \/ \E h \in Holders : Start(h) \/ HolderStep(h) \/ Stop(h) \/ Kill(h) \/ Reap(h)
  \/ \E q \in Readers : ReaderStep(q)
  \/ \E p \in Outside : Toggle(p)

Spec == Init /\ [][Next]_vars

\* A holder that has started is scheduled; whether it is ever started, stopped
\* or killed, and whether anyone polls, is not promised.
FairSpec == Spec /\ \A h \in Holders : WF_vars(HolderStep(h))
-----------------------------------------------------------------------------
(***************************************************************************)
(* Properties.                                                             *)
(***************************************************************************)
\* Every variable keeps its type; the walk never leaves the port range by more
\* than the one step that ends it, which is what capping it at 65535 is for.
TypeOK ==
  /\ pc \in [Holders -> HolderStates]
  /\ key \in [Holders -> 1 .. NKeys + 1]
  /\ at \in [Holders -> 1 .. LastPort + 1]
  /\ got \in [Holders -> [Keys -> 0 .. LastPort]]
  /\ claims \in [Holders -> SUBSET Ports]
  /\ missed \in [Holders -> BOOLEAN]
  /\ lock \in [Runtimes -> Holders \cup {None}]
  /\ file \in [Runtimes -> FileType]
  /\ conf \in [Runtimes -> 0 .. LastPort]
  /\ bound \subseteq Outside
  /\ rpc \in [Readers -> ReaderStates]
  /\ saw \in [Readers -> Holders \cup {None}]
  /\ truth \in [Readers -> BOOLEAN]

\* A ports.json is either what its holder, still holding the runtime's lock and
\* every port in it, wrote with the nginx.conf that matches; or it was left by a
\* holder that was killed. Whatever other holders, of this bench or of others,
\* start, refuse, stop or die meanwhile, no third case exists: nginx and Mailpit
\* read their ports from this file.
PublishedLease ==
  \A r \in Runtimes :
    LET w == file[r].pid
    IN  w # None =>
          \/ pc[w] \in {"zombie", "killed"}
          \/ /\ pc[w] \in {"serve", "unlink"}
             /\ lock[r] = w
             /\ \A k \in Keys : file[r].ports[k] = got[w][k] /\ got[w][k] \in claims[w]
             /\ conf[r] = got[w][Web]

\* A holder that serves is the one its runtime's ports.json names, so another
\* `hold` of the same runtime neither dropped nor replaced it: the lock `hold`
\* takes first keeps a second one away from the file.
ServingOwnsFile ==
  \A h \in Holders :
    pc[h] = "serve" => file[RuntimeOf[h]] = [pid |-> h, ports |-> got[h]]

\* Two running holders never have one port, and one holder never has a port
\* twice, whether the port is still being tried or already published: the
\* abstract claim is what makes "between two benches there is no window".
GotDisjoint ==
  \A g, h \in Holders, j, k \in Keys :
    /\ ~Ended(g) /\ ~Ended(h)
    /\ pc[g] \notin {"release", "exit"} /\ pc[h] \notin {"release", "exit"}
    /\ got[g][j] # 0 /\ got[g][j] = got[h][k]
    => g = h /\ j = k

\* What a holder has claimed is what it found, plus the port whose TCP check is
\* pending: the walk leaves no claim behind on a port it passed over, which
\* would keep every other bench off a port nobody uses.
NoStrayClaim ==
  \A h \in Holders :
    claims[h] \subseteq Mine(h) \cup (IF pc[h] = "check" THEN {at[h]} ELSE {})

\* A bench that reaches the point of publishing has a port for every want: a
\* want that found none stops the bench, with all of its claims released.
AllOrNothing ==
  \A h \in Holders :
    /\ pc[h] \in {"render", "publish", "serve"} => 0 \notin Mine(h)
    /\ missed[h] /\ pc[h] \in {"exit", "exited"} => claims[h] = {}

\* `show` says the bench is up only if the lease it printed was up when it read
\* the file, whatever the holder and its successors did before the pid check and
\* the lock test. A killed holder nobody has reaped yet still answers the pid
\* check, so its file is excepted.
LiveIsTruthful ==
  \A q \in Live : rpc[q] = "up" /\ saw[q] \notin Lingering => truth[q]

\* "A file left by a holder that was killed never counts" (ready's docstring):
\* `ready` says the lease is up only if what it read was a running holder's.
StaleFileNeverCounts ==
  \A q \in Readers \ Live : rpc[q] = "up" => truth[q]

\* A hold that waits for the runtime's lock gets to serve, or is refused, or is
\* ended: neither another holder nor readers sharing the lock keep it for ever,
\* and the walk ends.
HoldDecides ==
  \A h \in Holders :
    pc[h] = "lock" ~> (pc[h] = "serve" \/ Ended(h))

\* What the rest of the dev shell sees of all this is a table of leases.
Leases ==
  [r \in Runtimes |->
     IF lock[r] # None /\ pc[lock[r]] \in {"serve", "unlink"}
     THEN got[lock[r]] ELSE Unset]

Table == INSTANCE LeaseTable WITH lease <- Leases

\* Every lease is granted whole, out of ports no other bench has, within each
\* key's span, and ends whole.
LeaseIsTable == Table!Spec
=============================================================================
