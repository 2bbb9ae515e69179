---------------------------- MODULE QueueManager ----------------------------
(***************************************************************************)
(* The object-storage job queue of server/internal/queue: a job table kept *)
(* in one S3 object, and the Managers that read and rewrite it.            *)
(*                                                                         *)
(* A Manager is one goroutine (manager.go, run).  It gathers a batch of    *)
(* calls from its ops channel, applies them one by one to a clone of the   *)
(* table it has cached, and saves the clone with one PUT that is           *)
(* conditional on the ETag the cache was read at.  A refused PUT drops the *)
(* cache and applies the same batch again on a fresh read; a PUT that      *)
(* fails otherwise answers every caller with the error and keeps the       *)
(* cache, although the write may have landed or may still land.  Several   *)
(* Managers may hold the same key (a rolling deployment of the broker, the *)
(* two-manager tests of manager_test.go).                                  *)
(*                                                                         *)
(* Job ids are positive numbers in the order uuid.NewString issues them.   *)
(* Jobs are only ever appended, and the save of a table lands only when    *)
(* the table it was cloned from is still the stored one, so the order of   *)
(* the ids is the order of the jobs in the stored array.  The payload of   *)
(* the i-th item of an enqueue call k is <<k, i>>.                         *)
(***************************************************************************)
EXTENDS Integers, Sequences, FiniteSets

CONSTANTS
  Manager,      \* the Manager goroutines that serve this key
  Consumer,     \* the consumer ids the workers present
  Call,         \* the API calls that are made, each at most once
  NoConsumer,   \* the holder of a job whose Claim is nil
  Lease,        \* LeaseDurationSeconds of every claim
  Delays,       \* DelaySeconds of a retry, AvailableAt - now of an item
  MaxItems,     \* bound: items of one enqueue call
  MaxLimit,     \* bound: limit of one claim call
  MaxPending,   \* maxPendingOps
  MaxNow,       \* bound: the clock stops here
  MaxFaults,    \* bound: failed reads and writes, crashes, callers that give up
  MaxStray      \* bound: PUTs still in flight after their sender gave up

ASSUME LeaseAssumption    == Lease \in Nat \ {0}
ASSUME DelaysAssumption   == Delays \subseteq Nat
ASSUME BoundsAssumption   == /\ MaxItems \in Nat /\ MaxLimit \in Nat
                             /\ MaxPending \in Nat \ {0}
                             /\ MaxNow \in Nat /\ MaxFaults \in Nat
                             /\ MaxStray \in Nat
ASSUME ConsumerAssumption == NoConsumer \notin Consumer

VARIABLES
  \* the S3 object: ETag 0 is "no object", and every PUT makes a new ETag
  storedJobs, storedEtag,
  \* PUTs that may still land although WriteCAS has returned an error
  stray,
  \* time.Now, and how many ids uuid.NewString has issued
  now, issued,
  \* the API calls: what was asked, how submit returned, and which attempts a
  \* claim granted or (history: a heartbeat returns nothing) a heartbeat kept
  request, outcome, granted,
  \* per Manager: the ops channel, and the local variables of run
  ops, phase, loaded, state, etag, pending, applied, working, mutated, batchNow,
  \* faults so far
  faults,
  \* history: the jobs a batch being applied has acked, those whose ack landed
  acking, acked

storeVars  == <<storedJobs, storedEtag, stray, acked>>
callVars   == <<request, outcome, granted>>
cacheVars  == <<loaded, state, etag>>
batchVars  == <<applied, working, mutated, batchNow, acking>>
vars == <<storeVars, now, issued, callVars, ops, phase, cacheVars, pending,
          batchVars, faults>>

-----------------------------------------------------------------------------
(***************************************************************************)
(* The data.                                                               *)
(***************************************************************************)

JobId == Nat \ {0}
Item  == Call \X JobId
Job   == [item : Item, availableAt : Nat, attempt : Nat,
          holder : Consumer \cup {NoConsumer}, heartbeatAt : Nat]

\* A State: the jobs array as a function from the ids that are in it.
IsTable(t) == /\ t = [j \in DOMAIN t |-> t[j]]
              /\ DOMAIN t \subseteq JobId
              /\ \A j \in DOMAIN t : t[j] \in Job

NoJobs == [j \in {} |-> 0]

Request ==
       [kind : {"enqueue"}, count : JobId, delay : Delays]
  \cup [kind : {"claim"}, consumer : Consumer, limit : JobId]
  \cup [kind : {"heartbeat", "ack"}, consumer : Consumer, jobs : SUBSET JobId]
  \cup [kind : {"retry"}, consumer : Consumer, jobs : SUBSET JobId, delay : Delays]

NoRequest == [kind |-> "none"]

Grant == [job : JobId, attempt : Nat, at : Nat]

ItemsOf(k)  == {k} \X (1 .. request[k].count)
Payloads(t) == {t[j].item : j \in DOMAIN t}

-----------------------------------------------------------------------------
(***************************************************************************)
(* The apply functions of the five operations, on a table t at time at.    *)
(***************************************************************************)

\* Enqueue: count new jobs after the last id issued.
AddJobs(t, k, after, at) ==
  [j \in DOMAIN t \cup (after + 1 .. after + request[k].count) |->
     IF j \in DOMAIN t THEN t[j]
     ELSE [item |-> <<k, j - after>>, availableAt |-> at + request[k].delay,
           attempt |-> 0, holder |-> NoConsumer, heartbeatAt |-> 0]]

\* Mutant of Claimable: a claim lapses at its first heartbeat.
ClaimableEarly(t, at) ==
  {j \in DOMAIN t : /\ at >= t[j].availableAt
                    /\ \/ t[j].holder = NoConsumer
                       \/ at >= t[j].heartbeatAt}

\* jobClaimable
Claimable(t, at) ==
  {j \in DOMAIN t : /\ at >= t[j].availableAt
                    /\ \/ t[j].holder = NoConsumer
                       \/ at >= t[j].heartbeatAt + Lease}

\* The first n of the ids in S: the scan of Claim stops at the limit.
Oldest(S, n) == {j \in S : Cardinality({i \in S : i < j}) < n}

ClaimJobs(t, S, c, at) ==
  [j \in DOMAIN t |->
     IF j \in S
     THEN [t[j] EXCEPT !.attempt = @ + 1, !.holder = c, !.heartbeatAt = at]
     ELSE t[j]]

\* Mutant of HeldJobs: a job whose lease has lapsed is no longer held.
HeldJobsInLease(t, k) ==
  {j \in DOMAIN t \cap request[k].jobs : /\ t[j].holder = request[k].consumer
                                         /\ now < t[j].heartbeatAt + Lease}

\* Mutant of HeldJobs: whoever holds them.
HeldJobsOfAnyone(t, k) ==
  {j \in DOMAIN t \cap request[k].jobs : t[j].holder # NoConsumer}

\* The jobs of a heartbeat, ack or retry that its consumer holds in t.  The
\* lease is not looked at, and neither is the attempt.
HeldJobs(t, k) ==
  {j \in DOMAIN t \cap request[k].jobs : t[j].holder = request[k].consumer}

HeartbeatJobs(t, S, at) ==
  [j \in DOMAIN t |-> IF j \in S THEN [t[j] EXCEPT !.heartbeatAt = at] ELSE t[j]]

RemoveJobs(t, S) == [j \in DOMAIN t \ S |-> t[j]]

RetryJobs(t, S, delay, at) ==
  [j \in DOMAIN t |->
     IF j \in S
     THEN [t[j] EXCEPT !.holder = NoConsumer, !.heartbeatAt = 0,
                       !.availableAt = at + delay]
     ELSE t[j]]

-----------------------------------------------------------------------------
Init ==
  /\ storedJobs = NoJobs /\ storedEtag = 0 /\ stray = {}
  /\ now = 0 /\ issued = 0 /\ faults = 0
  /\ request = [k \in Call |-> NoRequest]
  /\ outcome = [k \in Call |-> "unsent"]
  /\ granted = [k \in Call |-> {}]
  /\ ops     = [m \in Manager |-> <<>>]
  /\ phase   = [m \in Manager |-> "idle"]
  /\ loaded  = [m \in Manager |-> FALSE]
  /\ state   = [m \in Manager |-> NoJobs]
  /\ etag    = [m \in Manager |-> 0]
  /\ pending = [m \in Manager |-> <<>>]
  /\ applied = [m \in Manager |-> 0]
  /\ working = [m \in Manager |-> NoJobs]
  /\ mutated = [m \in Manager |-> FALSE]
  /\ batchNow = [m \in Manager |-> 0]
  /\ acking  = [m \in Manager |-> {}]
  /\ acked   = {}

Tick ==
  /\ now < MaxNow
  /\ now' = now + 1
  /\ UNCHANGED <<storeVars, issued, callVars, ops, phase, cacheVars, pending,
                 batchVars, faults>>

-----------------------------------------------------------------------------
(***************************************************************************)
(* The callers.                                                            *)
(***************************************************************************)

\* What the claims answered so far have told consumer c about.
GrantedTo(c) ==
  {g.job : g \in UNION {granted[k] : k \in {x \in Call :
     outcome[x] = "ok" /\ request[x].kind = "claim" /\ request[x].consumer = c}}}

\* A worker heartbeats, acks and retries jobs it was given.
Requests ==
  [kind : {"enqueue"}, count : 1 .. MaxItems, delay : Delays]
  \cup [kind : {"claim"}, consumer : Consumer, limit : 1 .. MaxLimit]
  \cup UNION {LET mine == SUBSET GrantedTo(c) \ {{}}
              IN  [kind : {"heartbeat", "ack"}, consumer : {c}, jobs : mine]
                  \cup [kind : {"retry"}, consumer : {c}, jobs : mine, delay : Delays]
              : c \in Consumer}

\* submit, up to the send on m.ops.
Submit(k, m) ==
  /\ outcome[k] = "unsent"
  /\ \E r \in Requests : request' = [request EXCEPT ![k] = r]
  /\ outcome' = [outcome EXCEPT ![k] = "waiting"]
  /\ ops' = [ops EXCEPT ![m] = Append(@, k)]
  /\ UNCHANGED <<storeVars, now, issued, granted, phase, cacheVars, pending,
                 batchVars, faults>>

\* submit returns ctx.Err(); the operation stays where it is.
GiveUp(k) ==
  /\ outcome[k] = "waiting"
  /\ faults < MaxFaults /\ faults' = faults + 1
  /\ outcome' = [outcome EXCEPT ![k] = "error"]
  /\ UNCHANGED <<storeVars, now, issued, request, granted, ops, phase,
                 cacheVars, pending, batchVars>>

-----------------------------------------------------------------------------
(***************************************************************************)
(* The loop of run.                                                        *)
(***************************************************************************)

\* The calls in the batch of m, and a reply to those still listening.
Batch(m) == {pending[m][i] : i \in DOMAIN pending[m]}

Reply(m, result) ==
  outcome' = [k \in Call |-> IF k \in Batch(m) /\ outcome[k] = "waiting"
                             THEN result ELSE outcome[k]]

\* Out of the inner loop; the locals of the batch are dead.
EndBatch(m) ==
  /\ phase'   = [phase EXCEPT ![m] = "idle"]
  /\ pending' = [pending EXCEPT ![m] = <<>>]
  /\ applied' = [applied EXCEPT ![m] = 0]
  /\ working' = [working EXCEPT ![m] = NoJobs]
  /\ mutated' = [mutated EXCEPT ![m] = FALSE]
  /\ batchNow' = [batchNow EXCEPT ![m] = 0]
  /\ acking'  = [acking EXCEPT ![m] = {}]

\* loaded = false: state and etag are dead until the next load.
DropCache(m) ==
  /\ loaded' = [loaded EXCEPT ![m] = FALSE]
  /\ state'  = [state EXCEPT ![m] = NoJobs]
  /\ etag'   = [etag EXCEPT ![m] = 0]

\* Mutants of Again: the batch is tried again on the cache that was refused, as
\* it is, and with nothing but its ETag brought up to date.
AgainCached(m) ==
  /\ phase'  = [phase EXCEPT ![m] = "start"]
  /\ UNCHANGED <<cacheVars, callVars, pending, batchVars>>

AgainNewEtag(m) ==
  /\ etag'   = [etag EXCEPT ![m] = storedEtag]
  /\ phase'  = [phase EXCEPT ![m] = "start"]
  /\ UNCHANGED <<loaded, state, callVars, pending, batchVars>>

\* continue: the same batch once more, on a fresh read.
Again(m) ==
  /\ DropCache(m)
  /\ phase'  = [phase EXCEPT ![m] = "start"]
  /\ UNCHANGED <<callVars, pending, batchVars>>

\* collectPending
Collect(m) ==
  /\ phase[m] = "idle"
  /\ \E n \in 1 .. Len(ops[m]) :
       /\ n <= MaxPending
       /\ pending' = [pending EXCEPT ![m] = SubSeq(ops[m], 1, n)]
       /\ ops' = [ops EXCEPT ![m] = SubSeq(@, n + 1, Len(@))]
  /\ phase' = [phase EXCEPT ![m] = "start"]
  /\ UNCHANGED <<storeVars, now, issued, callVars, cacheVars, batchVars, faults>>

Load(m) ==
  /\ phase[m] = "start" /\ ~loaded[m]
  /\ loaded' = [loaded EXCEPT ![m] = TRUE]
  /\ state'  = [state EXCEPT ![m] = storedJobs]
  /\ etag'   = [etag EXCEPT ![m] = storedEtag]
  /\ UNCHANGED <<storeVars, now, issued, callVars, ops, phase, pending,
                 batchVars, faults>>

LoadFails(m) ==
  /\ phase[m] = "start" /\ ~loaded[m]
  /\ faults < MaxFaults /\ faults' = faults + 1
  /\ Reply(m, "error")
  /\ EndBatch(m)
  /\ UNCHANGED <<storeVars, now, issued, request, granted, ops, cacheVars>>

\* working := cloneState(state), now := time.Now()
Begin(m) ==
  /\ phase[m] = "start" /\ loaded[m]
  /\ phase'   = [phase EXCEPT ![m] = "apply"]
  /\ working' = [working EXCEPT ![m] = state[m]]
  /\ batchNow' = [batchNow EXCEPT ![m] = now]
  /\ applied' = [applied EXCEPT ![m] = 0]
  /\ mutated' = [mutated EXCEPT ![m] = FALSE]
  /\ acking'  = [acking EXCEPT ![m] = {}]
  /\ UNCHANGED <<storeVars, now, issued, callVars, ops, cacheVars, pending, faults>>

\* Mutant of Enqueue: the batch is not marked for a save.
EnqueueUnsaved(m, k) ==
  /\ request[k].kind = "enqueue"
  /\ working' = [working EXCEPT ![m] = AddJobs(@, k, issued, batchNow[m])]
  /\ issued' = issued + request[k].count
  /\ UNCHANGED <<granted, mutated, acking>>

Enqueue(m, k) ==
  /\ request[k].kind = "enqueue"
  /\ working' = [working EXCEPT ![m] = AddJobs(@, k, issued, batchNow[m])]
  /\ issued' = issued + request[k].count
  /\ mutated' = [mutated EXCEPT ![m] = TRUE]
  /\ UNCHANGED <<granted, acking>>

Claim(m, k) ==
  /\ request[k].kind = "claim"
  /\ LET S == Oldest(Claimable(working[m], batchNow[m]), request[k].limit)
     IN  /\ working' = [working EXCEPT ![m] =
                          ClaimJobs(@, S, request[k].consumer, batchNow[m])]
         /\ granted' = [granted EXCEPT ![k] =
              {[job |-> j, attempt |-> working[m][j].attempt + 1, at |-> batchNow[m]]
                 : j \in S}]
         /\ mutated' = [mutated EXCEPT ![m] = @ \/ S # {}]
  /\ UNCHANGED <<issued, acking>>

\* Heartbeat, Ack and Retry act on the jobs their consumer holds.
Settle(m, k) ==
  /\ request[k].kind \in {"heartbeat", "ack", "retry"}
  /\ LET t == working[m]
         S == HeldJobs(t, k)
     IN  /\ working' = [working EXCEPT ![m] =
              CASE request[k].kind = "heartbeat" -> HeartbeatJobs(t, S, batchNow[m])
                [] request[k].kind = "ack"       -> RemoveJobs(t, S)
                [] request[k].kind = "retry"     -> RetryJobs(t, S, request[k].delay, batchNow[m])]
         /\ acking' = [acking EXCEPT ![m] =
              IF request[k].kind = "ack" THEN @ \cup {<<j, t[j].item>> : j \in S} ELSE @]
         /\ granted' = [granted EXCEPT ![k] =
              IF request[k].kind = "heartbeat"
              THEN {[job |-> j, attempt |-> t[j].attempt, at |-> batchNow[m]] : j \in S}
              ELSE {}]
         /\ mutated' = [mutated EXCEPT ![m] = @ \/ S # {}]
  /\ UNCHANGED issued

\* One round of the loop over pending: a call whose context is done is skipped.
Apply(m) ==
  /\ phase[m] = "apply" /\ applied[m] < Len(pending[m])
  /\ LET k == pending[m][applied[m] + 1]
     IN  IF outcome[k] # "waiting"
         THEN UNCHANGED <<issued, granted, working, mutated, acking>>
         ELSE Enqueue(m, k) \/ Claim(m, k) \/ Settle(m, k)
  /\ applied' = [applied EXCEPT ![m] = @ + 1]
  /\ UNCHANGED <<storeVars, now, request, outcome, ops, phase, cacheVars, pending,
                 batchNow, faults>>

AllApplied(m) == phase[m] = "apply" /\ applied[m] = Len(pending[m])

\* if !mutated: no save, and the next batch reads the object again.
ReplyUnchanged(m) ==
  /\ AllApplied(m) /\ ~mutated[m]
  /\ DropCache(m)
  /\ Reply(m, "ok")
  /\ EndBatch(m)
  /\ UNCHANGED <<storeVars, now, issued, request, granted, ops, faults>>

-----------------------------------------------------------------------------
(***************************************************************************)
(* save: the conditional PUT reaches the object store, and its answer      *)
(* reaches the Manager, as two steps.                                      *)
(***************************************************************************)

Saving(m) == AllApplied(m) /\ mutated[m]

\* Mutant of Lands: the PUT carries no condition.
LandsAlways(expected, jobs, acks) ==
  /\ storedJobs' = jobs
  /\ storedEtag' = storedEtag + 1
  /\ acked' = acked \cup acks

\* WriteCAS at the store: If-Match the ETag, or If-None-Match * for ETag 0.
Lands(expected, jobs, acks) ==
  /\ storedEtag = expected
  /\ storedJobs' = jobs
  /\ storedEtag' = storedEtag + 1
  /\ acked' = acked \cup acks

SaveLands(m) ==
  /\ Saving(m)
  /\ Lands(etag[m], working[m], acking[m])
  /\ phase' = [phase EXCEPT ![m] = "landed"]
  /\ UNCHANGED <<stray, now, issued, callVars, ops, cacheVars, pending, batchVars,
                 faults>>

\* Mutant of SaveConfirmed: the cache keeps its table and takes the new ETag.
SaveConfirmedEtag(m) ==
  /\ phase[m] = "landed"
  /\ etag'  = [etag EXCEPT ![m] = @ + 1]
  /\ Reply(m, "ok")
  /\ EndBatch(m)
  /\ UNCHANGED <<storeVars, now, issued, request, granted, ops, state, loaded, faults>>

\* nil error: the clone becomes the cache.
SaveConfirmed(m) ==
  /\ phase[m] = "landed"
  /\ state' = [state EXCEPT ![m] = working[m]]
  /\ etag'  = [etag EXCEPT ![m] = @ + 1]
  /\ Reply(m, "ok")
  /\ EndBatch(m)
  /\ UNCHANGED <<storeVars, now, issued, request, granted, ops, loaded, faults>>

\* ErrCASMismatch
SaveRefused(m) ==
  /\ Saving(m) /\ etag[m] # storedEtag
  /\ Again(m)
  /\ UNCHANGED <<storeVars, now, issued, ops, faults>>

\* The write landed, its answer was lost, and the S3 client's own retry of
\* the PUT is refused: ErrCASMismatch for a batch that is already stored.
SaveRepeated(m) ==
  /\ phase[m] = "landed"
  /\ faults < MaxFaults /\ faults' = faults + 1
  /\ Again(m)
  /\ UNCHANGED <<storeVars, now, issued, ops>>

\* Any other error; the cache and its ETag are kept.  The PUT has landed, or
\* is lost, or is still on its way.
SaveFails(m) ==
  /\ Saving(m) \/ phase[m] = "landed"
  /\ faults < MaxFaults /\ faults' = faults + 1
  /\ \/ UNCHANGED stray
     \/ /\ Saving(m) /\ Cardinality(stray) < MaxStray
        /\ stray' = stray \cup {[etag |-> etag[m], jobs |-> working[m],
                                 acking |-> acking[m]]}
  /\ Reply(m, "error")
  /\ EndBatch(m)
  /\ UNCHANGED <<storedJobs, storedEtag, acked, now, issued, request, granted, ops,
                 cacheVars>>

\* A PUT arrives whose sender no longer waits for it.
StrayArrives ==
  /\ \E p \in stray :
       /\ stray' = stray \ {p}
       /\ \/ Lands(p.etag, p.jobs, p.acking)
          \/ p.etag # storedEtag /\ UNCHANGED <<storedJobs, storedEtag, acked>>
  /\ UNCHANGED <<now, issued, callVars, ops, phase, cacheVars, pending, batchVars,
                 faults>>

\* The process dies and a new one starts: every open call fails.
Crash(m) ==
  /\ faults < MaxFaults /\ faults' = faults + 1
  /\ phase[m] # "idle" \/ ops[m] # <<>> \/ loaded[m]
  /\ \/ UNCHANGED stray
     \/ /\ Saving(m) /\ Cardinality(stray) < MaxStray
        /\ stray' = stray \cup {[etag |-> etag[m], jobs |-> working[m],
                                 acking |-> acking[m]]}
  /\ outcome' = [k \in Call |->
       IF /\ outcome[k] = "waiting"
          /\ k \in Batch(m) \cup {ops[m][i] : i \in DOMAIN ops[m]}
       THEN "error" ELSE outcome[k]]
  /\ ops'    = [ops EXCEPT ![m] = <<>>]
  /\ DropCache(m)
  /\ EndBatch(m)
  /\ UNCHANGED <<storedJobs, storedEtag, acked, now, issued, request, granted>>

-----------------------------------------------------------------------------
\* What the goroutine and the object store do when nothing fails.
Step(m) ==
  \/ Collect(m) \/ Load(m) \/ Begin(m) \/ Apply(m) \/ ReplyUnchanged(m)
  \/ SaveLands(m) \/ SaveRefused(m) \/ SaveConfirmed(m)

Fault(m) == LoadFails(m) \/ SaveRepeated(m) \/ SaveFails(m) \/ Crash(m)

Next ==
  \/ \E k \in Call : GiveUp(k) \/ \E m \in Manager : Submit(k, m)
  \/ \E m \in Manager : Step(m) \/ Fault(m)
  \/ StrayArrives
  \/ Tick

Spec == Init /\ [][Next]_vars

\* The goroutine is scheduled and S3 answers.
FairSpec == Spec /\ \A m \in Manager : WF_vars(Step(m))

-----------------------------------------------------------------------------
(***************************************************************************)
(* The properties.                                                         *)
(***************************************************************************)

IsPut(p) == /\ p = [etag |-> p.etag, jobs |-> p.jobs, acking |-> p.acking]
            /\ p.etag \in Nat /\ IsTable(p.jobs)
            /\ p.acking \subseteq JobId \X Item

\* The type invariant.
TypeOK ==
  /\ IsTable(storedJobs) /\ storedEtag \in Nat
  /\ \A p \in stray : IsPut(p)
  /\ now \in Nat /\ issued \in Nat /\ faults \in Nat
  /\ request \in [Call -> Request \cup {NoRequest}]
  /\ outcome \in [Call -> {"unsent", "waiting", "ok", "error"}]
  /\ granted \in [Call -> SUBSET Grant]
  /\ ops     \in [Manager -> Seq(Call)]
  /\ phase   \in [Manager -> {"idle", "start", "apply", "landed"}]
  /\ loaded  \in [Manager -> BOOLEAN]
  /\ etag    \in [Manager -> Nat]
  /\ pending \in [Manager -> Seq(Call)]
  /\ applied \in [Manager -> Nat]
  /\ mutated \in [Manager -> BOOLEAN]
  /\ batchNow \in [Manager -> Nat]
  /\ acking  \in [Manager -> SUBSET (JobId \X Item)]
  /\ acked   \subseteq JobId \X Item
  /\ state   = [m \in Manager |-> state[m]]
  /\ working = [m \in Manager |-> working[m]]
  /\ \A m \in Manager : IsTable(state[m]) /\ IsTable(working[m])

\* A cache whose ETag is the stored object's is the stored table: whatever
\* was refused, lost, repeated or late, a conditional PUT that is accepted was
\* computed from what it overwrites.
CacheCoherent ==
  \A m \in Manager : loaded[m] /\ etag[m] = storedEtag => state[m] = storedJobs

\* An enqueue that was answered without error is never lost: each of its items
\* is in the stored table until an ack by the job's holder removes it.
ConfirmedKept ==
  \A k \in Call : outcome[k] = "ok" /\ request[k].kind = "enqueue" =>
    ItemsOf(k) \subseteq Payloads(storedJobs) \cup {a[2] : a \in acked}

\* A job whose ack has landed does not come back, from whichever cache or late
\* PUT a table is stored next.
AckedStaysGone == \A a \in acked : a[1] \notin DOMAIN storedJobs

\* The calls of this kind that have been answered without error.
Answered(kind) == {k \in Call : outcome[k] = "ok" /\ request[k].kind = kind}

\* No two claims are answered with the same attempt of the same job: the pair
\* <<job, attempt>> identifies one delivery.
AttemptFences ==
  \A k, l \in Answered("claim") : k # l =>
    \A g \in granted[k], h \in granted[l] :
      g.job = h.job => g.attempt # h.attempt

\* The consumer of k has asked to put job j back.
PutBack(k, j) ==
  \E r \in Call : /\ request[r].kind = "retry"
                  /\ request[r].consumer = request[k].consumer
                  /\ j \in request[r].jobs

\* A job that a claim granted, or a heartbeat kept, is granted again only when
\* a full lease has passed since, or its consumer has put it back.
LeaseExclusive ==
  \A k \in Answered("claim") \cup Answered("heartbeat"), l \in Answered("claim") :
    \A g \in granted[k], h \in granted[l] :
      g.job = h.job /\ g.attempt < h.attempt =>
        h.at >= g.at + Lease \/ PutBack(k, g.job)

\* An ack that is answered without error has taken effect: of the jobs it names,
\* the caller holds no attempt that a claim had told it of.
AckTakesEffect ==
  [][\A k \in Call, l \in Answered("claim") :
       /\ request[k].kind = "ack" /\ request[k].consumer = request[l].consumer
       /\ outcome[k] = "waiting" /\ outcome'[k] = "ok"
       => \A g \in granted[l] :
            ~ /\ g.job \in request[k].jobs \cap DOMAIN storedJobs'
              /\ storedJobs'[g.job].holder = request[k].consumer
              /\ storedJobs'[g.job].attempt = g.attempt]_vars

\* Every call returns, however often the compare-and-set sends its batch back.
EveryCallAnswered ==
  \A k \in Call : outcome[k] = "waiting" ~> outcome[k] \in {"ok", "error"}

=============================================================================
