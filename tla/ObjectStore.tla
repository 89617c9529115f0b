----------------------------- MODULE ObjectStore -----------------------------
(***************************************************************************)
(* The object-store guard of development benches that were restored from   *)
(* production, and so have its bucket and its credentials: every call of   *)
(* an S3 client in a bench passes through it, while production, and the    *)
(* other benches, write to the same bucket. A write is a probe of the key  *)
(* and then the write, or the many calls of a multipart upload; a request  *)
(* may be lost on its way and sent again. The store and the apps that call *)
(* it are external; it honours If-None-Match, or refuses what carries it.  *)
(***************************************************************************)
EXTENDS Integers

CONSTANTS
  MaxPuts,    \* bound: calls of a bench
  MaxProd,    \* bound: what production does
  MaxRetries  \* bound: requests sent again, and settings changed

VARIABLES
  store,   \* [honours |-> If-None-Match, sees |-> the benches whose credential may look for a key]
  bucket,  \* what each key holds: see Objects
  set,     \* devguard.objectstore of each bench: [mode, cond |-> conditional_writes]
  call,    \* the call that each bench makes: see Calls
  upload,  \* the key of its unfinished multipart upload
  puts, prods, retries

vars == <<store, bucket, set, call, upload, puts, prods, retries>>

Benches == 1..2
Keys    == {"a", "b"}
None    == <<"none", 0>>
\* Who wrote it, and its number.
Objects == {None} \cup ({"bench"} \X (1..MaxPuts)) \cup ({"production"} \X (1..MaxProd))
Deletes     == {"DeleteObject", "DeleteObjects"}
Writes      == {"PutObject", "CreateMultipartUpload", "CompleteMultipartUpload", "AbortMultipartUpload"}
CreatesKey  == {"PutObject", "CreateMultipartUpload"}
\* A mutant of Conditional.
ConditionalPuts == {"PutObject"}
Conditional == {"PutObject", "CompleteMultipartUpload"}
Commits     == {"PutObject", "CompleteMultipartUpload"}
Others      == {"PutBucketLifecycle"}
\* at: before the probe, before the request; clear: the probe found nothing; id: the number of what it writes; header:
\* If-None-Match.
Calls == [at : {"none", "probe", "request"}, op : {"none"} \cup Writes \cup Deletes \cup Others, key : Keys, id : 0..MaxPuts,
          clear : BOOLEAN, header : BOOLEAN]
NoCall == [at |-> "none", op |-> "none", key |-> "a", id |-> 0, clear |-> FALSE, header |-> FALSE]
NoUpload == [key |-> "a", open |-> FALSE, clear |-> FALSE]

Rest == UNCHANGED <<store, set, puts, prods, retries>>
Goes(b, c) == call' = [call EXCEPT ![b] = c]

-----------------------------------------------------------------------------
\* What never gets past the guard: in either mode all but reads, drops and the writes; in local mode those too.
Refused(b, op) == op \in Others \/ (op \in Writes /\ set[b].mode # "push")
\* A mutant of Dropped.
DroppedOne(op) == op = "DeleteObject"
Dropped(op) == op \in Deletes

\* A call of an app or a script. What completes or aborts an upload is of one that is open.
Begin(b, op, k) ==
  /\ call[b].at = "none" /\ puts < MaxPuts /\ puts' = puts + 1
  /\ op \in {"CompleteMultipartUpload", "AbortMultipartUpload"} => upload[b].open /\ upload[b].key = k
  /\ op = "CreateMultipartUpload" => ~upload[b].open
  /\ IF Refused(b, op) \/ Dropped(op) THEN call' = call
     ELSE Goes(b, [at |-> IF op \in CreatesKey THEN "probe" ELSE "request", op |-> op, key |-> k, id |-> puts + 1,
                   clear |-> FALSE, header |-> op \in Conditional /\ set[b].cond])
  /\ UNCHANGED <<store, bucket, set, upload, prods, retries>>

\* HeadObject. A key that is there is refused; one that cannot be looked for too, where the store takes no header.
Probe(b) ==
  /\ call[b].at = "probe"
  /\ LET sees  == b \in store.sees
         there == bucket[call[b].key] # None
     IN Goes(b, IF (sees /\ there) \/ (~sees /\ ~set[b].cond) THEN NoCall
                ELSE [call[b] EXCEPT !.at = "request", !.clear = sees])
  /\ Rest /\ UNCHANGED <<bucket, upload>>

\* The request at the store, which refuses one that has the header when the key is there, or at all.
Reaches(b) ==
  LET c == call[b]
      refused == c.header /\ (~store.honours \/ bucket[c.key] # None)
      putting == [bucket EXCEPT ![c.key] = <<"bench", c.id>>]
  IN  bucket' = IF c.op \in Deletes THEN [bucket EXCEPT ![c.key] = None]
                ELSE IF c.op \in Commits /\ ~refused THEN putting ELSE bucket

Request(b) ==
  /\ call[b].at = "request" /\ Reaches(b) /\ Goes(b, NoCall)
  /\ upload' = CASE call[b].op = "CreateMultipartUpload" ->
                      [upload EXCEPT ![b] = [key |-> call[b].key, open |-> TRUE, clear |-> call[b].clear]]
                 [] call[b].op \in {"CompleteMultipartUpload", "AbortMultipartUpload"} -> [upload EXCEPT ![b] = NoUpload]
                 [] OTHER -> upload
  /\ Rest

\* The request or its answer is lost, and botocore sends it again.
Resend(b) ==
  /\ call[b].at = "request" /\ call[b].op \in Commits /\ retries < MaxRetries /\ retries' = retries + 1
  /\ Reaches(b) \/ bucket' = bucket
  /\ UNCHANGED <<store, set, call, upload, puts, prods>>

\* The settings are of a process, which starts again without what it was about.
Restart(b) ==
  /\ retries < MaxRetries /\ retries' = retries + 1
  /\ \E m \in {"local", "push"}, c \in BOOLEAN : set' = [set EXCEPT ![b] = [mode |-> m, cond |-> c]]
  /\ Goes(b, NoCall) /\ upload' = [upload EXCEPT ![b] = NoUpload]
  /\ UNCHANGED <<store, bucket, puts, prods>>

\* Production writes and deletes as it likes.
Production(k) ==
  /\ prods < MaxProd /\ prods' = prods + 1
  /\ bucket' \in {[bucket EXCEPT ![k] = <<"production", prods + 1>>], [bucket EXCEPT ![k] = None]}
  /\ UNCHANGED <<store, set, call, upload, puts, retries>>

Init ==
  /\ store \in [honours : BOOLEAN, sees : {{}, Benches}]
  /\ bucket = [k \in Keys |-> None]
  /\ set \in [Benches -> [mode : {"local", "push"}, cond : BOOLEAN]]
  /\ call = [b \in Benches |-> NoCall] /\ upload = [b \in Benches |-> NoUpload]
  /\ puts = 0 /\ prods = 0 /\ retries = 0

Next ==
  \/ \E b \in Benches :
       \/ \E op \in Writes \cup Deletes \cup Others, k \in Keys : Begin(b, op, k)
       \/ Probe(b) \/ Request(b) \/ Resend(b) \/ Restart(b)
  \/ \E k \in Keys : Production(k)

Spec == Init /\ [][Next]_vars

-----------------------------------------------------------------------------
TypeOK ==
  /\ store \in [honours : BOOLEAN, sees : SUBSET Benches]
  /\ bucket \in [Keys -> Objects]
  /\ set \in [Benches -> [mode : {"local", "push"}, cond : BOOLEAN]]
  /\ call \in [Benches -> Calls] /\ upload \in [Benches -> [key : Keys, open : BOOLEAN, clear : BOOLEAN]]
  /\ puts \in 0..MaxPuts /\ prods \in 0..MaxProd /\ retries \in 0..MaxRetries

\* "Additive-only": no call of a bench takes an object of production's, or of another bench's, from the bucket, nor one
\* of its own that an earlier call put there; but in a bench that sets conditional_writes off, one that came
\* after the key was looked for, and found free.
Unseen(b) ==
  /\ ~set[b].cond
  /\ IF call[b].op = "CompleteMultipartUpload" THEN upload[b].clear ELSE call[b].clear
AdditiveStep ==
  \A k \in Keys :
    bucket[k] # None /\ bucket'[k] # bucket[k] /\ prods' = prods =>
      \E b \in Benches : call[b].at = "request" /\ call[b].key = k /\ bucket'[k] = <<"bench", call[b].id>> /\ Unseen(b)

\* In local mode nothing is written at all.
LocalStep ==
  \A k \in Keys : bucket'[k] # bucket[k] /\ prods' = prods =>
    \E b \in Benches : call[b].at = "request" /\ call[b].key = k /\ set[b].mode = "push"

\* Both, of every step.
BucketStep == AdditiveStep /\ LocalStep
=============================================================================
