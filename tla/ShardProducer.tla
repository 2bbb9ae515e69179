--------------------------- MODULE ShardProducer ---------------------------
(***************************************************************************)
(* The producers that turn rows of an append-only event table into jobs:   *)
(* the projector (eventsourcing/projector.go) and the search indexer       *)
(* (search/indexer.go) read internal_events in sixteen shards, the webhook *)
(* producer (webhooks/jobs.go) reads external_events as one shard.  The    *)
(* three run the same protocol.  A round goes through the shards; on each  *)
(* it claims the lease, loads the checkpoint, reads the next rows,         *)
(* enqueues their jobs, and writes the checkpoint.                         *)
(*                                                                         *)
(* Each of these is a statement or call of its own: no transaction holds   *)
(* them together, so the FOR UPDATE of the load locks nothing beyond the   *)
(* statement, and a worker does not look at its lease again after it has   *)
(* claimed it.  A worker that is slow for longer than the 15 seconds of    *)
(* the lease goes on beside the one that claims the shard after it.        *)
(*                                                                         *)
(* The rows get their sequence id when they are inserted and are seen by   *)
(* others when their transaction commits, in whatever order that happens.  *)
(*                                                                         *)
(* What an event becomes is its kind: "jobs", one job or several; "none",  *)
(* an event without jobs; "malformed", an event the indexer cannot read.   *)
(* The projector sees only "jobs"; the webhook producer "jobs" and "none". *)
(*                                                                         *)
(* Time is left out: a lease may lapse at any moment.  The enqueue is the  *)
(* atomic call that QueueManager promises; it may fail and have happened.  *)
(***************************************************************************)
EXTENDS Integers, FiniteSets

CONSTANTS
  ShardCount,   \* DefaultShardCount; 1 for the webhook producer
  Worker,       \* the workers, each with a worker id of its own
  NoOwner,      \* the owner of a shard whose lease is missing or has lapsed
  Gone,         \* an owner that no longer exists: its process was replaced
  MaxEvents,    \* bound: events inserted
  BatchSize,    \* projectorBatchSize and its siblings
  MaxFaults,    \* bound: rounds cut short by an error or a crash
  Kinds         \* what the events of this table may be

ASSUME ShardsAssumption  == ShardCount \in Nat \ {0}
ASSUME BatchAssumption   == BatchSize \in Nat \ {0}
ASSUME LimitsAssumption  == MaxEvents \in Nat /\ MaxFaults \in Nat
ASSUME OwnersAssumption  == NoOwner \notin Worker /\ Gone \notin Worker /\ NoOwner # Gone
ASSUME KindsAssumption   == Kinds \subseteq {"jobs", "none", "malformed"}

VARIABLES
  \* the event table: ids issued, rows of open transactions, visible rows
  issued, open, committed,
  \* per event: its shard and its kind
  shardOf, kindOf,
  \* per shard: projector_leases and projector_checkpoints
  lease, checkpoint,
  \* per worker: the place in the round and the locals there
  pc, shard, ck, batch, last,
  \* the events whose jobs have been enqueued, and those enqueued again
  queued, twice,
  \* history: events committed after a later one of their shard; shards claimed
  \* while another worker was midway on them; shards whose round was cut short
  \* after the read
  late, overtaken, cut,
  faults

tableVars  == <<issued, open, committed, shardOf, kindOf, late>>
queueVars  == <<queued, twice>>
workerVars == <<pc, shard, ck, batch, last>>
vars == <<tableVars, lease, checkpoint, workerVars, queueVars, overtaken, cut, faults>>

Event == 1 .. MaxEvents
Shard == 1 .. ShardCount

-----------------------------------------------------------------------------
Init ==
  /\ issued = 0 /\ open = {} /\ committed = {} /\ late = {}
  /\ shardOf \in [Event -> Shard] /\ kindOf \in [Event -> Kinds]
  /\ lease = [s \in Shard |-> NoOwner]
  /\ checkpoint = [s \in Shard |-> 0]
  /\ pc    = [w \in Worker |-> "idle"]
  /\ shard = [w \in Worker |-> 1]
  /\ ck    = [w \in Worker |-> 0]
  /\ batch = [w \in Worker |-> {}]
  /\ last  = [w \in Worker |-> 0]
  /\ queued = {} /\ twice = {} /\ overtaken = {} /\ cut = {} /\ faults = 0

-----------------------------------------------------------------------------
(***************************************************************************)
(* The transactions that append events.                                    *)
(***************************************************************************)

\* AppendInternalEvent: the sequence id is issued.
Insert ==
  /\ issued < MaxEvents
  /\ issued' = issued + 1
  /\ open' = open \cup {issued + 1}
  /\ UNCHANGED <<committed, shardOf, kindOf, late, lease, checkpoint, workerVars,
                 queueVars, overtaken, cut, faults>>

Commit(e) ==
  /\ e \in open
  /\ open' = open \ {e}
  /\ committed' = committed \cup {e}
  /\ late' = IF \E f \in committed : shardOf[f] = shardOf[e] /\ f > e
             THEN late \cup {e} ELSE late
  /\ UNCHANGED <<issued, shardOf, kindOf, lease, checkpoint, workerVars, queueVars,
                 overtaken, cut, faults>>

Rollback(e) ==
  /\ e \in open
  /\ open' = open \ {e}
  /\ UNCHANGED <<issued, committed, shardOf, kindOf, late, lease, checkpoint,
                 workerVars, queueVars, overtaken, cut, faults>>

-----------------------------------------------------------------------------
(***************************************************************************)
(* The writes of a round.                                                  *)
(***************************************************************************)

\* Worker v has claimed shard s and is not done with it.
Midway(v, s) == shard[v] = s /\ pc[v] \in {"load", "read", "enqueue", "advance"}

\* ClaimLease, when it writes: the lease has lapsed, or is the worker's own.
TakeLease(w) ==
  /\ lease[shard[w]] \in {NoOwner, w}
  /\ lease' = [lease EXCEPT ![shard[w]] = w]
  /\ overtaken' = IF \E v \in Worker \ {w} : Midway(v, shard[w])
                  THEN overtaken \cup {shard[w]} ELSE overtaken

\* The events of the batch that have jobs.
Jobs(w) == {e \in batch[w] : kindOf[e] = "jobs"}

PutJobs(w) ==
  /\ queued' = queued \cup Jobs(w)
  /\ twice'  = twice \cup (queued \cap Jobs(w))

\* UpdateCheckpoint: whatever the row holds by now.
WriteCheckpoint(w) == checkpoint' = [checkpoint EXCEPT ![shard[w]] = last[w]]

\* The locals of a worker that is at the claim of shard s.
Goto(w, place, s) ==
  /\ pc'    = [pc EXCEPT ![w] = place]
  /\ shard' = [shard EXCEPT ![w] = s]
  /\ ck'    = [ck EXCEPT ![w] = 0]
  /\ batch' = [batch EXCEPT ![w] = {}]
  /\ last'  = [last EXCEPT ![w] = 0]

\* The round is over: the worker sleeps and begins again at the first shard.
EndRound(w) == Goto(w, "idle", 1)

\* Mutant of NextShard: one shard too many.
NextShardPast(w) ==
  \/ shard[w] <= ShardCount /\ Goto(w, "claim", shard[w] + 1)
  \/ shard[w] > ShardCount /\ EndRound(w)

\* The next shard, or the end of the round.
NextShard(w) ==
  \/ shard[w] < ShardCount /\ Goto(w, "claim", shard[w] + 1)
  \/ shard[w] = ShardCount /\ EndRound(w)

-----------------------------------------------------------------------------
(***************************************************************************)
(* A round of worker w.                                                    *)
(***************************************************************************)

StartRound(w) ==
  /\ pc[w] = "idle"
  /\ Goto(w, "claim", 1)
  /\ UNCHANGED <<tableVars, lease, checkpoint, queueVars, overtaken, cut, faults>>

Claim(w) ==
  /\ pc[w] = "claim"
  /\ TakeLease(w)
  /\ Goto(w, "load", shard[w])
  /\ UNCHANGED <<tableVars, checkpoint, queueVars, cut, faults>>

\* Somebody else holds the lease.
PassBy(w) ==
  /\ pc[w] = "claim" /\ lease[shard[w]] \notin {NoOwner, w}
  /\ NextShard(w)
  /\ UNCHANGED <<tableVars, lease, checkpoint, queueVars, overtaken, cut, faults>>

\* Mutant of Load: the row is taken for missing.
LoadZero(w) ==
  /\ pc[w] = "load"
  /\ ck' = [ck EXCEPT ![w] = 0]
  /\ pc' = [pc EXCEPT ![w] = "read"]
  /\ UNCHANGED <<tableVars, lease, checkpoint, shard, batch, last, queueVars,
                 overtaken, cut, faults>>

\* A missing row is inserted as 0, and 0 is what the load then returns.
Load(w) ==
  /\ pc[w] = "load"
  /\ ck' = [ck EXCEPT ![w] = checkpoint[shard[w]]]
  /\ pc' = [pc EXCEPT ![w] = "read"]
  /\ UNCHANGED <<tableVars, lease, checkpoint, shard, batch, last, queueVars,
                 overtaken, cut, faults>>

\* Mutant of After: the checkpoint itself is read again.
AfterFrom(s, n) == {e \in committed : shardOf[e] = s /\ e >= n}

\* The rows of shard s after sequence id n.
After(s, n) == {e \in committed : shardOf[e] = s /\ e > n}

\* order by sequence_id limit BatchSize: the rows up to some row x, which is the
\* last of all unless the limit is reached.
Page(rows, x) == {e \in rows : e <= x}
IsPageEnd(rows, x) ==
  /\ x \in rows
  /\ Cardinality(Page(rows, x)) <= BatchSize
  /\ Cardinality(Page(rows, x)) = BatchSize \/ \A e \in rows : e <= x

Read(w) ==
  /\ pc[w] = "read"
  /\ \E x \in After(shard[w], ck[w]) :
       /\ IsPageEnd(After(shard[w], ck[w]), x)
       /\ \A e \in Page(After(shard[w], ck[w]), x) : kindOf[e] # "malformed"
       /\ batch' = [batch EXCEPT ![w] = Page(After(shard[w], ck[w]), x)]
       /\ last'  = [last EXCEPT ![w] = x]
  /\ pc' = [pc EXCEPT ![w] = "enqueue"]
  /\ UNCHANGED <<tableVars, lease, checkpoint, shard, ck, queueVars, overtaken, cut,
                 faults>>

\* Mutant of ReadNothing: a shard without news ends the round.
ReadNothingStops(w) ==
  /\ pc[w] = "read" /\ After(shard[w], ck[w]) = {}
  /\ EndRound(w)
  /\ UNCHANGED <<tableVars, lease, checkpoint, queueVars, overtaken, cut, faults>>

ReadNothing(w) ==
  /\ pc[w] = "read" /\ After(shard[w], ck[w]) = {}
  /\ NextShard(w)
  /\ UNCHANGED <<tableVars, lease, checkpoint, queueVars, overtaken, cut, faults>>

\* searchJobsForInternalEvent returns an error: so does the whole round.
ReadMalformed(w) ==
  /\ pc[w] = "read"
  /\ \E x \in After(shard[w], ck[w]) :
       /\ IsPageEnd(After(shard[w], ck[w]), x)
       /\ \E e \in Page(After(shard[w], ck[w]), x) : kindOf[e] = "malformed"
  /\ EndRound(w)
  /\ UNCHANGED <<tableVars, lease, checkpoint, queueVars, overtaken, cut, faults>>

\* producer.Enqueue, unless there is no item.
Enqueue(w) ==
  /\ pc[w] = "enqueue"
  /\ PutJobs(w)
  /\ pc' = [pc EXCEPT ![w] = "advance"]
  /\ UNCHANGED <<tableVars, lease, checkpoint, shard, ck, batch, last, overtaken, cut,
                 faults>>

Advance(w) ==
  /\ pc[w] = "advance"
  /\ WriteCheckpoint(w)
  /\ NextShard(w)
  /\ UNCHANGED <<tableVars, lease, queueVars, overtaken, cut, faults>>

-----------------------------------------------------------------------------
(***************************************************************************)
(* What may go wrong.                                                      *)
(***************************************************************************)

\* Mutant of Interrupted: the error of the enqueue is dropped.
InterruptedUnseen(w) ==
  /\ pc[w] = "enqueue"
  /\ faults < MaxFaults /\ faults' = faults + 1
  /\ pc' = [pc EXCEPT ![w] = "advance"]
  /\ UNCHANGED <<tableVars, lease, checkpoint, shard, ck, batch, last, queueVars,
                 overtaken, cut>>

\* A statement or call is interrupted: its write may have happened.
Interrupted(w) ==
  /\ faults < MaxFaults /\ faults' = faults + 1
  /\ \/ UNCHANGED <<lease, overtaken, queueVars, checkpoint>>
     \/ pc[w] = "claim" /\ TakeLease(w) /\ UNCHANGED <<queueVars, checkpoint>>
     \/ pc[w] = "enqueue" /\ PutJobs(w) /\ UNCHANGED <<lease, overtaken, checkpoint>>
     \/ pc[w] = "advance" /\ WriteCheckpoint(w)
                          /\ UNCHANGED <<lease, overtaken, queueVars>>
  /\ cut' = IF pc[w] \in {"enqueue", "advance"} THEN cut \cup {shard[w]} ELSE cut
  /\ EndRound(w)
  /\ UNCHANGED tableVars

\* The call returns an error, and the round with it.
Fails(w) == pc[w] # "idle" /\ Interrupted(w)

\* The process that replaces w has another worker id, host and pid being part
\* of it: the leases of w are nobody's until they lapse.
Replaced(w) ==
  /\ \E s \in Shard : lease[s] = w
  /\ lease' = [s \in Shard |-> IF lease[s] = w THEN Gone ELSE lease[s]]
  /\ pc[w] = "idle"
  /\ UNCHANGED <<tableVars, checkpoint, workerVars, queueVars, overtaken, cut, faults>>

\* lease_until has passed.
Expire(s) ==
  /\ lease[s] # NoOwner
  /\ lease' = [lease EXCEPT ![s] = NoOwner]
  /\ UNCHANGED <<tableVars, checkpoint, workerVars, queueVars, overtaken, cut, faults>>

-----------------------------------------------------------------------------
Step(w) ==
  \/ StartRound(w) \/ Claim(w) \/ PassBy(w) \/ Load(w)
  \/ Read(w) \/ ReadNothing(w) \/ ReadMalformed(w) \/ Enqueue(w) \/ Advance(w)

Next ==
  \/ Insert
  \/ \E e \in Event : Commit(e) \/ Rollback(e)
  \/ \E w \in Worker : Step(w) \/ Fails(w) \/ Replaced(w)
  \/ \E s \in Shard : Expire(s)

Spec == Init /\ [][Next]_vars

\* Workers are scheduled and the database answers; time passes.
FairSpec ==
  /\ Spec
  /\ \A w \in Worker : WF_vars(Step(w))
  /\ \A s \in Shard : WF_vars(Expire(s))

-----------------------------------------------------------------------------
(***************************************************************************)
(* The properties.                                                         *)
(***************************************************************************)

\* The type invariant.
TypeOK ==
  /\ issued \in Nat /\ open \subseteq Event /\ committed \subseteq Event
  /\ \A e \in open : e <= issued /\ e \notin committed
  /\ \A e \in committed : e <= issued
  /\ shardOf \in [Event -> Shard] /\ kindOf \in [Event -> Kinds]
  /\ late \subseteq committed
  /\ lease \in [Shard -> Worker \cup {NoOwner, Gone}]
  /\ checkpoint \in [Shard -> Event \cup {0}]
  /\ pc \in [Worker -> {"idle", "claim", "load", "read", "enqueue", "advance"}]
  /\ shard \in [Worker -> Shard]
  /\ ck \in [Worker -> Event \cup {0}] /\ last \in [Worker -> Event \cup {0}]
  /\ batch \in [Worker -> SUBSET Event]
  /\ queued \subseteq Event /\ twice \subseteq queued
  /\ overtaken \subseteq Shard /\ cut \subseteq Shard /\ faults \in Nat

\* The events of shard s up to id n are accounted for: each that was committed
\* in time is enqueued or has no jobs.
Covered(s, n) ==
  \A e \in committed \ late :
    shardOf[e] = s /\ e <= n /\ kindOf[e] # "none" => e \in queued

\* Whatever the workers do to each other and wherever they fail, no checkpoint
\* has passed an event without its jobs being enqueued, except for the events
\* committed after a later one of their shard.
CheckpointCovered == \A s \in Shard : Covered(s, checkpoint[s])

\* The lease is what keeps a checkpoint from going back: it does so only on a
\* shard that was claimed under a worker still busy with it.
MonotoneUnlessOvertaken ==
  [][\A s \in Shard : checkpoint'[s] < checkpoint[s] => s \in overtaken]_vars

\* The jobs of an event are enqueued twice only on a shard that was claimed
\* under a busy worker, or whose round was cut short between read and end.
OnceUnlessDisturbed == \A e \in twice : shardOf[e] \in overtaken \cup cut

\* The jobs of an event that is committed in time are enqueued sooner or later.
EveryEventQueued ==
  \A e \in Event :
    e \in committed \ late /\ kindOf[e] = "jobs" ~> e \in queued

-----------------------------------------------------------------------------
(***************************************************************************)
(* What the documentation says, and the code does not do.                  *)
(***************************************************************************)

\* SPEC.md, projection rule: events are read in id order within the shard, so
\* none that becomes visible is left behind a checkpoint without its jobs.
NothingSkipped ==
  \A e \in committed :
    kindOf[e] = "jobs" /\ e <= checkpoint[shardOf[e]] => e \in queued

=============================================================================
