------------------------ MODULE ShardProducerProofs ------------------------
(***************************************************************************)
(* Theorems about ShardProducer, for any number of shards, workers, events *)
(* and faults: type correctness; that no checkpoint passes an event that   *)
(* was committed in time; that a checkpoint goes back, and an event is     *)
(* enqueued twice, only on shards that were disturbed in the ways the      *)
(* properties name.                                                        *)
(***************************************************************************)
EXTENDS ShardProducer, TLAPS

USE DEF Event, Shard

-----------------------------------------------------------------------------
(***************************************************************************)
(* Type correctness.                                                       *)
(***************************************************************************)

\* The types of the workers' locals.
WorkerType ==
  /\ pc \in [Worker -> {"idle", "claim", "load", "read", "enqueue", "advance"}]
  /\ shard \in [Worker -> Shard]
  /\ ck \in [Worker -> Event \cup {0}] /\ last \in [Worker -> Event \cup {0}]
  /\ batch \in [Worker -> SUBSET Event]

\* A worker that goes to another place keeps its locals' types.
LEMMA GotoType ==
  ASSUME NEW w \in Worker, NEW s \in Shard,
         NEW place \in {"idle", "claim", "load", "read", "enqueue", "advance"},
         WorkerType, Goto(w, place, s)
  PROVE  WorkerType'
BY DEF WorkerType, Goto

\* So does one that is done with a shard.
LEMMA NextShardType ==
  ASSUME NEW w \in Worker, WorkerType, NextShard(w)
  PROVE  WorkerType'
<1>1. CASE shard[w] < ShardCount /\ Goto(w, "claim", shard[w] + 1)
  <2>1. shard[w] + 1 \in Shard
    BY <1>1, ShardsAssumption DEF WorkerType
  <2> QED BY <1>1, <2>1, GotoType
<1>2. CASE shard[w] = ShardCount /\ EndRound(w)
  <2>1. 1 \in Shard
    BY ShardsAssumption
  <2> QED BY <1>2, <2>1, GotoType DEF EndRound
<1> QED BY <1>1, <1>2 DEF NextShard

\* The types of everything that is not a worker's local.
SharedType ==
  /\ issued \in Nat /\ open \subseteq Event /\ committed \subseteq Event
  /\ \A e \in open : e <= issued /\ e \notin committed
  /\ \A e \in committed : e <= issued
  /\ shardOf \in [Event -> Shard] /\ kindOf \in [Event -> Kinds]
  /\ late \subseteq committed
  /\ lease \in [Shard -> Worker \cup {NoOwner, Gone}]
  /\ checkpoint \in [Shard -> Event \cup {0}]
  /\ queued \subseteq Event /\ twice \subseteq queued
  /\ overtaken \subseteq Shard /\ cut \subseteq Shard /\ faults \in Nat

LEMMA TypeParts == TypeOK <=> WorkerType /\ SharedType
BY DEF TypeOK, WorkerType, SharedType

\* The two halves of a step of worker w.
LEMMA StepShared ==
  ASSUME TypeOK, NEW w \in Worker, Step(w)
  PROVE  SharedType'
<1> USE DEF SharedType, tableVars, queueVars, workerVars
<1>t. WorkerType /\ SharedType
  BY TypeParts
<1>1. CASE StartRound(w)
  BY <1>t, <1>1 DEF StartRound
<1>2. CASE Claim(w)
  BY <1>t, <1>2 DEF Claim, TakeLease, WorkerType
<1>3. CASE PassBy(w)
  BY <1>t, <1>3 DEF PassBy
<1>4. CASE Load(w)
  BY <1>t, <1>4 DEF Load
<1>5. CASE Read(w)
  BY <1>t, <1>5 DEF Read
<1>6. CASE ReadNothing(w)
  BY <1>t, <1>6 DEF ReadNothing
<1>7. CASE ReadMalformed(w)
  BY <1>t, <1>7 DEF ReadMalformed
<1>8. CASE Enqueue(w)
  BY <1>t, <1>8 DEF Enqueue, PutJobs, Jobs, WorkerType
<1>9. CASE Advance(w)
  BY <1>t, <1>9 DEF Advance, WriteCheckpoint, WorkerType
<1> QED BY <1>1, <1>2, <1>3, <1>4, <1>5, <1>6, <1>7, <1>8, <1>9 DEF Step

LEMMA StepLocals ==
  ASSUME TypeOK, NEW w \in Worker, Step(w)
  PROVE  WorkerType'
<1>t. WorkerType /\ SharedType
  BY TypeParts
<1>s. shard[w] \in Shard /\ 1 \in Shard
  BY <1>t, ShardsAssumption DEF WorkerType
<1>1. CASE StartRound(w)
  BY <1>t, <1>s, <1>1, GotoType DEF StartRound
<1>2. CASE Claim(w)
  BY <1>t, <1>s, <1>2, GotoType DEF Claim
<1>3. CASE PassBy(w)
  BY <1>t, <1>3, NextShardType DEF PassBy
<1>4. CASE Load(w)
  BY <1>t, <1>s, <1>4 DEF Load, WorkerType, SharedType
<1>5. CASE Read(w)
  <2>1. PICK x \in After(shard[w], ck[w]) :
          /\ batch' = [batch EXCEPT ![w] = Page(After(shard[w], ck[w]), x)]
          /\ last' = [last EXCEPT ![w] = x]
    BY <1>5 DEF Read
  <2>2. After(shard[w], ck[w]) \subseteq Event
    BY <1>t DEF After, SharedType
  <2>3. Page(After(shard[w], ck[w]), x) \subseteq Event /\ x \in Event
    BY <2>2 DEF Page
  <2>4. batch' \in [Worker -> SUBSET Event] /\ last' \in [Worker -> Event \cup {0}]
    BY <1>t, <2>1, <2>3 DEF WorkerType
  <2>5. /\ pc' = [pc EXCEPT ![w] = "enqueue"] /\ UNCHANGED <<shard, ck>>
    BY <1>5 DEF Read
  <2> QED BY <1>t, <2>4, <2>5 DEF WorkerType
<1>6. CASE ReadNothing(w)
  BY <1>t, <1>6, NextShardType DEF ReadNothing
<1>7. CASE ReadMalformed(w)
  BY <1>t, <1>s, <1>7, GotoType DEF ReadMalformed, EndRound
<1>8. CASE Enqueue(w)
  BY <1>t, <1>8 DEF Enqueue, WorkerType
<1>9. CASE Advance(w)
  BY <1>t, <1>9, NextShardType DEF Advance
<1> QED BY <1>1, <1>2, <1>3, <1>4, <1>5, <1>6, <1>7, <1>8, <1>9 DEF Step

LEMMA FailsType ==
  ASSUME TypeOK, NEW w \in Worker, Fails(w)
  PROVE  TypeOK'
<1>t. WorkerType /\ SharedType
  BY TypeParts
<1>1. Interrupted(w) /\ EndRound(w) /\ UNCHANGED tableVars
  BY DEF Fails, Interrupted
<1>2. WorkerType'
  BY <1>t, <1>1, ShardsAssumption, GotoType DEF EndRound
<1>3. faults' \in Nat /\ cut' \subseteq Shard
  <2>1. faults' = faults + 1 /\ cut' \in {cut, cut \cup {shard[w]}}
    BY <1>1 DEF Interrupted
  <2> QED BY <1>t, <2>1 DEF SharedType, WorkerType
<1>4. UNCHANGED <<issued, open, committed, shardOf, kindOf, late>>
  BY <1>1 DEF tableVars
<1>5. /\ lease' \in [Shard -> Worker \cup {NoOwner, Gone}]
      /\ checkpoint' \in [Shard -> Event \cup {0}]
      /\ queued' \subseteq Event /\ twice' \subseteq queued' /\ overtaken' \subseteq Shard
  <2>1. CASE UNCHANGED <<lease, overtaken, queueVars, checkpoint>>
    BY <1>t, <2>1 DEF SharedType, queueVars
  <2>2. CASE TakeLease(w) /\ UNCHANGED <<queueVars, checkpoint>>
    BY <1>t, <2>2 DEF SharedType, WorkerType, queueVars, TakeLease
  <2>3. CASE PutJobs(w) /\ UNCHANGED <<lease, overtaken, checkpoint>>
    BY <1>t, <2>3 DEF SharedType, WorkerType, PutJobs, Jobs
  <2>4. CASE WriteCheckpoint(w) /\ UNCHANGED <<lease, overtaken, queueVars>>
    BY <1>t, <2>4 DEF SharedType, WorkerType, queueVars, WriteCheckpoint
  <2> QED BY <1>1, <2>1, <2>2, <2>3, <2>4 DEF Interrupted
<1>6. SharedType'
  BY <1>t, <1>3, <1>4, <1>5 DEF SharedType
<1> QED BY <1>2, <1>6, TypeParts, PTL

\* Every step keeps the types.
LEMMA NextType == TypeOK /\ [Next]_vars => TypeOK'
<1> SUFFICES ASSUME TypeOK, [Next]_vars PROVE TypeOK'
  OBVIOUS
<1>1. CASE Insert
  BY <1>1, LimitsAssumption, SMTT(30) DEF TypeOK, Insert, workerVars, queueVars
<1>2. ASSUME NEW e \in Event, Commit(e) \/ Rollback(e) PROVE TypeOK'
  BY <1>2 DEF TypeOK, Commit, Rollback, workerVars, queueVars
<1>3. ASSUME NEW w \in Worker, Step(w) PROVE TypeOK'
  BY <1>3, StepShared, StepLocals, TypeParts, PTL
<1>4. ASSUME NEW w \in Worker, Fails(w) PROVE TypeOK'
  BY <1>4, FailsType
<1>5. ASSUME NEW w \in Worker, Replaced(w) PROVE TypeOK'
  BY <1>5 DEF TypeOK, Replaced, tableVars, workerVars, queueVars
<1>6. ASSUME NEW s \in Shard, Expire(s) PROVE TypeOK'
  BY <1>6 DEF TypeOK, Expire, tableVars, workerVars, queueVars
<1>7. CASE UNCHANGED vars
  BY <1>7 DEF TypeOK, vars, tableVars, workerVars, queueVars
<1> QED BY <1>1, <1>2, <1>3, <1>4, <1>5, <1>6, <1>7 DEF Next

\* Type correctness: the checkpoints and a worker's locals stay within the
\* table's shards and events, the end of a round included.
THEOREM ShardTypeCorrect == Spec => []TypeOK
<1>1. Init => TypeOK
  BY ShardsAssumption DEF Init, TypeOK
<1> QED BY <1>1, NextType, PTL DEF Spec

-----------------------------------------------------------------------------
(***************************************************************************)
(* No checkpoint passes an event that was committed in time.               *)
(***************************************************************************)

\* What a checkpoint of shard s can hold: nothing, or a visible event of s.
Marks(s) == {0} \cup {e \in committed : shardOf[e] = s}

\* What worker w knows is true of its shard, at each place in the round.
WorkerCover(w) ==
  /\ pc[w] \in {"read", "enqueue", "advance"} =>
       ck[w] \in Marks(shard[w]) /\ Covered(shard[w], ck[w])
  /\ pc[w] \in {"enqueue", "advance"} => last[w] \in Marks(shard[w])
  /\ pc[w] = "enqueue" =>
       \A e \in committed \ late :
         shardOf[e] = shard[w] /\ ck[w] < e /\ e <= last[w] =>
           e \in batch[w] /\ kindOf[e] # "malformed"
  /\ pc[w] = "advance" => Covered(shard[w], last[w])

\* The inductive invariant: a checkpoint that a worker has read, and one that it
\* is about to write, is as good as the stored one.
CoverageInv ==
  /\ TypeOK
  /\ \A s \in Shard : checkpoint[s] \in Marks(s)
  /\ CheckpointCovered
  /\ \A w \in Worker : WorkerCover(w)

\* A step that leaves the event table alone and may enqueue.
SameTable == UNCHANGED <<committed, late, shardOf, kindOf>> /\ queued \subseteq queued'

LEMMA SameTableCovers ==
  ASSUME SameTable, NEW s, NEW n
  PROVE  /\ Marks(s)' = Marks(s)
         /\ Covered(s, n) => Covered(s, n)'
BY DEF SameTable, Marks, Covered

\* The locals of worker v are untouched.
Untouched(v) == /\ pc'[v] = pc[v] /\ shard'[v] = shard[v] /\ ck'[v] = ck[v]
                /\ batch'[v] = batch[v] /\ last'[v] = last[v]

LEMMA UntouchedCovers ==
  ASSUME SameTable, NEW v \in Worker, Untouched(v), WorkerCover(v)
  PROVE  WorkerCover(v)'
<1>1. \A s, n : Covered(s, n) =>
        \A e \in committed' \ late' :
          shardOf'[e] = s /\ e <= n /\ kindOf'[e] # "none" => e \in queued'
  BY DEF SameTable, Covered
<1>2. /\ Covered(shard[v], ck[v]) => Covered(shard[v], ck[v])'
      /\ Covered(shard[v], last[v]) => Covered(shard[v], last[v])'
  BY <1>1 DEF Untouched, Covered
<1>3. Marks(shard[v])' = Marks(shard[v])
  BY DEF SameTable, Untouched, Marks
<1> QED BY <1>2, <1>3 DEF WorkerCover, SameTable, Untouched

\* A worker that is before its load knows nothing yet.
LEMMA UnreadCovers ==
  ASSUME NEW w \in Worker, pc'[w] \in {"idle", "claim", "load"}
  PROVE  WorkerCover(w)'
BY DEF WorkerCover

\* A worker that moves leaves the other workers' locals alone.
LEMMA GotoMoves ==
  ASSUME TypeOK, NEW w \in Worker, NEW s, NEW place, Goto(w, place, s)
  PROVE  /\ pc'[w] = place /\ shard'[w] = s
         /\ \A v \in Worker \ {w} : Untouched(v)
BY DEF TypeOK, Goto, Untouched

LEMMA NextShardMoves ==
  ASSUME TypeOK, NEW w \in Worker, NextShard(w)
  PROVE  /\ pc'[w] \in {"idle", "claim"}
         /\ \A v \in Worker \ {w} : Untouched(v)
BY GotoMoves DEF NextShard, EndRound

\* The step of one worker: its own part of the invariant and the checkpoints
\* are what is left to show.
LEMMA OneWorkerCovers ==
  ASSUME CoverageInv, TypeOK', SameTable,
         NEW w \in Worker, \A v \in Worker \ {w} : Untouched(v), WorkerCover(w)',
         \/ UNCHANGED checkpoint
         \/ /\ pc[w] = "advance"
            /\ checkpoint' = [checkpoint EXCEPT ![shard[w]] = last[w]]
  PROVE  CoverageInv'
<1>1. ASSUME NEW v \in Worker PROVE WorkerCover(v)'
  <2>1. CASE v = w
    BY <2>1
  <2>2. CASE v # w
    BY <2>2, UntouchedCovers DEF CoverageInv
  <2> QED BY <2>1, <2>2
<1>2. ASSUME NEW s \in Shard
      PROVE  (checkpoint[s] \in Marks(s) /\ Covered(s, checkpoint[s]))'
  <2>1. \A n : Covered(s, n) => \A e \in committed' \ late' :
          shardOf'[e] = s /\ e <= n /\ kindOf'[e] # "none" => e \in queued'
    BY DEF SameTable, Covered
  <2>2. \A n : n \in Marks(s) => n \in Marks(s)'
    BY DEF SameTable, Marks
  <2>3. Covered(s, checkpoint[s]) /\ checkpoint[s] \in Marks(s)
    BY DEF CoverageInv, CheckpointCovered
  <2>4. \E n : checkpoint'[s] = n /\ Covered(s, n) /\ n \in Marks(s)
    <3>1. CASE checkpoint'[s] = checkpoint[s]
      BY <2>3, <3>1
    <3>2. CASE s = shard[w] /\ pc[w] = "advance" /\ checkpoint'[s] = last[w]
      BY <3>2 DEF CoverageInv, WorkerCover
    <3> QED BY <3>1, <3>2 DEF CoverageInv, TypeOK
  <2> QED BY <2>1, <2>2, <2>4 DEF Covered
<1>3. CheckpointCovered'
  BY <1>2 DEF CheckpointCovered
<1> QED BY <1>1, <1>2, <1>3 DEF CoverageInv

LEMMA StepCovers ==
  ASSUME CoverageInv, TypeOK', NEW w \in Worker, Step(w)
  PROVE  CoverageInv'
<1>t. TypeOK /\ CheckpointCovered /\ WorkerCover(w)
  BY DEF CoverageInv
<1>s. shard[w] \in Shard
  BY <1>t DEF TypeOK
<1>1. CASE StartRound(w)
  <2>1. SameTable /\ UNCHANGED checkpoint
    BY <1>1 DEF StartRound, SameTable, tableVars, queueVars
  <2>2. pc'[w] = "claim" /\ \A v \in Worker \ {w} : Untouched(v)
    BY <1>t, <1>1, GotoMoves DEF StartRound
  <2> QED BY <2>1, <2>2, UnreadCovers, OneWorkerCovers
<1>2. CASE Claim(w)
  <2>1. SameTable /\ UNCHANGED checkpoint
    BY <1>2 DEF Claim, SameTable, tableVars, queueVars
  <2>2. pc'[w] = "load" /\ \A v \in Worker \ {w} : Untouched(v)
    BY <1>t, <1>2, GotoMoves DEF Claim
  <2> QED BY <2>1, <2>2, UnreadCovers, OneWorkerCovers
<1>3. CASE PassBy(w) \/ ReadNothing(w)
  <2>1. SameTable /\ UNCHANGED checkpoint
    BY <1>3 DEF PassBy, ReadNothing, SameTable, tableVars, queueVars
  <2>2. pc'[w] \in {"idle", "claim"} /\ \A v \in Worker \ {w} : Untouched(v)
    BY <1>t, <1>3, NextShardMoves DEF PassBy, ReadNothing
  <2> QED BY <2>1, <2>2, UnreadCovers, OneWorkerCovers
<1>4. CASE Load(w)
  <2>1. SameTable /\ UNCHANGED checkpoint
    BY <1>4 DEF Load, SameTable, tableVars, queueVars
  <2>2. \A v \in Worker \ {w} : Untouched(v)
    BY <1>t, <1>4 DEF Load, TypeOK, Untouched
  <2>3. /\ pc'[w] = "read" /\ shard'[w] = shard[w]
        /\ ck'[w] = checkpoint[shard[w]]
    BY <1>t, <1>4 DEF Load, TypeOK
  <2>4. Covered(shard[w], checkpoint[shard[w]]) /\ checkpoint[shard[w]] \in Marks(shard[w])
    BY <1>s DEF CoverageInv, CheckpointCovered
  <2>5. WorkerCover(w)'
    BY <2>1, <2>3, <2>4 DEF WorkerCover, SameTable, Covered, Marks
  <2> QED BY <2>1, <2>2, <2>5, OneWorkerCovers
<1>5. CASE Read(w)
  <2>1. SameTable /\ UNCHANGED checkpoint
    BY <1>5 DEF Read, SameTable, tableVars, queueVars
  <2>2. \A v \in Worker \ {w} : Untouched(v)
    BY <1>t, <1>5 DEF Read, TypeOK, Untouched
  <2>3. PICK x \in After(shard[w], ck[w]) :
          /\ \A e \in Page(After(shard[w], ck[w]), x) : kindOf[e] # "malformed"
          /\ batch' = [batch EXCEPT ![w] = Page(After(shard[w], ck[w]), x)]
          /\ last'  = [last EXCEPT ![w] = x]
    BY <1>5 DEF Read
  <2>4. /\ pc[w] = "read" /\ pc'[w] = "enqueue" /\ shard'[w] = shard[w] /\ ck'[w] = ck[w]
        /\ last'[w] = x /\ batch'[w] = Page(After(shard[w], ck[w]), x)
    BY <1>t, <1>5, <2>3 DEF Read, TypeOK
  <2>5. x \in Marks(shard[w])
    BY DEF After, Marks
  <2>6. \A e \in committed \ late :
          shardOf[e] = shard[w] /\ ck[w] < e /\ e <= x =>
            e \in batch'[w] /\ kindOf[e] # "malformed"
    BY <1>t, <2>3, <2>4 DEF After, Page, TypeOK
  <2>7. WorkerCover(w)'
    BY <1>t, <2>1, <2>4, <2>5, <2>6 DEF WorkerCover, SameTable, Covered, Marks
  <2> QED BY <2>1, <2>2, <2>7, OneWorkerCovers
<1>6. CASE ReadMalformed(w)
  <2>1. SameTable /\ UNCHANGED checkpoint
    BY <1>6 DEF ReadMalformed, SameTable, tableVars, queueVars
  <2>2. pc'[w] = "idle" /\ \A v \in Worker \ {w} : Untouched(v)
    BY <1>t, <1>6, GotoMoves DEF ReadMalformed, EndRound
  <2> QED BY <2>1, <2>2, UnreadCovers, OneWorkerCovers
<1>7. CASE Enqueue(w)
  <2>1. SameTable /\ UNCHANGED checkpoint
    BY <1>7 DEF Enqueue, PutJobs, SameTable, tableVars, queueVars
  <2>2. \A v \in Worker \ {w} : Untouched(v)
    BY <1>t, <1>7 DEF Enqueue, TypeOK, Untouched
  <2>3. /\ pc[w] = "enqueue" /\ pc'[w] = "advance" /\ shard'[w] = shard[w]
        /\ ck'[w] = ck[w] /\ last'[w] = last[w]
    BY <1>t, <1>7 DEF Enqueue, TypeOK
  <2>4. ASSUME NEW e \in committed \ late, shardOf[e] = shard[w], e <= last[w],
               kindOf[e] # "none"
        PROVE  e \in queued'
    <3>1. CASE e <= ck[w]
      BY <1>t, <2>1, <2>3, <2>4, <3>1 DEF WorkerCover, Covered, SameTable
    <3>2. CASE ck[w] < e
      <4>1. e \in batch[w] /\ kindOf[e] # "malformed"
        BY <1>t, <2>3, <2>4, <3>2 DEF WorkerCover
      <4>2. kindOf[e] = "jobs"
        BY <1>t, <2>4, <4>1, KindsAssumption DEF TypeOK
      <4>3. e \in Jobs(w)
        BY <4>1, <4>2 DEF Jobs
      <4> QED BY <1>7, <4>3 DEF Enqueue, PutJobs
    <3>3. e \in Int /\ ck[w] \in Int
      BY <1>t DEF TypeOK
    <3> QED BY <3>1, <3>2, <3>3
  <2>5. WorkerCover(w)'
    BY <1>t, <2>1, <2>3, <2>4 DEF WorkerCover, SameTable, Covered, Marks
  <2> QED BY <2>1, <2>2, <2>5, OneWorkerCovers
<1>8. CASE Advance(w)
  <2>1. SameTable
    BY <1>8 DEF Advance, SameTable, tableVars, queueVars
  <2>2. pc'[w] \in {"idle", "claim"} /\ \A v \in Worker \ {w} : Untouched(v)
    BY <1>t, <1>8, NextShardMoves DEF Advance
  <2>3. pc[w] = "advance" /\ checkpoint' = [checkpoint EXCEPT ![shard[w]] = last[w]]
    BY <1>8 DEF Advance, WriteCheckpoint
  <2> QED BY <2>1, <2>2, <2>3, UnreadCovers, OneWorkerCovers
<1> QED BY <1>1, <1>2, <1>3, <1>4, <1>5, <1>6, <1>7, <1>8 DEF Step

LEMMA FailsCovers ==
  ASSUME CoverageInv, TypeOK', NEW w \in Worker, Fails(w)
  PROVE  CoverageInv'
<1>1. SameTable
  BY DEF Fails, Interrupted, PutJobs, SameTable, tableVars, queueVars
<1>2. pc'[w] = "idle" /\ \A v \in Worker \ {w} : Untouched(v)
  BY GotoMoves DEF CoverageInv, Fails, Interrupted, EndRound
<1>3. \/ UNCHANGED checkpoint
      \/ /\ pc[w] = "advance"
         /\ checkpoint' = [checkpoint EXCEPT ![shard[w]] = last[w]]
  BY DEF Fails, Interrupted, WriteCheckpoint
<1> QED BY <1>1, <1>2, <1>3, UnreadCovers, OneWorkerCovers

\* An event that becomes visible below a mark of its shard is late, so whatever
\* was covered stays covered.
LEMMA CommitCovers ==
  ASSUME CoverageInv, TypeOK', NEW e \in Event, Commit(e)
  PROVE  CoverageInv'
<1>t. TypeOK
  BY DEF CoverageInv
<1>1. /\ e \in open /\ e \notin committed
      /\ committed' = committed \cup {e}
      /\ UNCHANGED <<shardOf, kindOf, checkpoint, pc, shard, ck, batch, last, queued>>
  BY <1>t DEF Commit, TypeOK, workerVars, queueVars
<1>2. \/ late' = late \cup {e}
      \/ late' = late /\ \A f \in committed : shardOf[f] = shardOf[e] => f < e
  <2>1. \A f \in committed : f # e /\ f \in Int /\ e \in Int
    BY <1>t, <1>1 DEF TypeOK
  <2> QED BY <2>1 DEF Commit
<1>3. \A s, n : n \in Marks(s) =>
        /\ n \in Marks(s)'
        /\ shardOf[e] = s /\ e <= n => e \in late'
  BY <1>t, <1>1, <1>2 DEF Marks, TypeOK
<1>4. \A f \in committed' \ late' : f = e \/ f \in committed \ late
  BY <1>1, <1>2
<1>5. \A s, n : n \in Marks(s) /\ Covered(s, n) => Covered(s, n)'
  BY <1>1, <1>3, <1>4 DEF Covered
<1>6. \A s \in Shard : (checkpoint[s] \in Marks(s) /\ Covered(s, checkpoint[s]))'
  <2> SUFFICES ASSUME NEW s \in Shard
               PROVE  (checkpoint[s] \in Marks(s) /\ Covered(s, checkpoint[s]))'
    OBVIOUS
  <2>1. checkpoint[s] \in Marks(s) /\ Covered(s, checkpoint[s])
    BY DEF CoverageInv, CheckpointCovered
  <2>2. checkpoint'[s] = checkpoint[s]
    BY <1>1
  <2> QED BY <1>3, <1>5, <2>1, <2>2 DEF Covered
<1>7. ASSUME NEW w \in Worker PROVE WorkerCover(w)'
  <2>1. WorkerCover(w)
    BY DEF CoverageInv
  <2>2. pc[w] = "enqueue" =>
       \A f \in committed' \ late' :
         shardOf[f] = shard[w] /\ ck[w] < f /\ f <= last[w] =>
           f \in batch[w] /\ kindOf[f] # "malformed"
    BY <1>3, <1>4, <2>1 DEF WorkerCover
  <2>3. pc[w] = "advance" => Covered(shard[w], last[w])'
    BY <1>1, <1>5, <2>1 DEF WorkerCover, Covered
  <2>4. pc[w] \in {"read", "enqueue", "advance"} => Covered(shard[w], ck[w])'
    BY <1>1, <1>5, <2>1 DEF WorkerCover, Covered
  <2> QED BY <1>1, <1>3, <2>1, <2>2, <2>3, <2>4 DEF WorkerCover, Marks
<1> QED BY <1>6, <1>7 DEF CoverageInv, CheckpointCovered

LEMMA NextCovers == CoverageInv /\ [Next]_vars => CoverageInv'
<1> SUFFICES ASSUME CoverageInv, [Next]_vars PROVE CoverageInv'
  OBVIOUS
<1>t. TypeOK /\ TypeOK'
  BY NextType DEF CoverageInv
<1>1. ASSUME NEW e \in Event, Commit(e) PROVE CoverageInv'
  BY <1>t, <1>1, CommitCovers
<1>2. ASSUME NEW w \in Worker, Step(w) PROVE CoverageInv'
  BY <1>t, <1>2, StepCovers
<1>3. ASSUME NEW w \in Worker, Fails(w) PROVE CoverageInv'
  BY <1>t, <1>3, FailsCovers
<1>4. ASSUME UNCHANGED <<committed, late, shardOf, kindOf, checkpoint, workerVars, queueVars>>
      PROVE  CoverageInv'
  BY <1>t, <1>4 DEF CoverageInv, CheckpointCovered, Covered, WorkerCover, Marks,
                    workerVars, queueVars
<1>5. CASE Insert \/ \E e \in Event : Rollback(e)
  BY <1>4, <1>5 DEF Insert, Rollback
<1>6. CASE (\E w \in Worker : Replaced(w)) \/ \E s \in Shard : Expire(s)
  BY <1>4, <1>6 DEF Replaced, Expire, tableVars
<1>7. CASE UNCHANGED vars
  BY <1>4, <1>7 DEF vars, tableVars
<1> QED BY <1>1, <1>2, <1>3, <1>5, <1>6, <1>7 DEF Next

\* The inductive invariant holds in every reachable state.
THEOREM AlwaysCovered == Spec => []CoverageInv
<1>1. Init => CoverageInv
  BY ShardsAssumption DEF Init, CoverageInv, TypeOK, CheckpointCovered, Covered,
                          WorkerCover, Marks
<1> QED BY <1>1, NextCovers, PTL DEF Spec

\* With any number of workers, overtaking each other and failing anywhere, the
\* checkpoint a producer stores never passes an event that was committed in
\* time without its jobs being in the queue.
THEOREM NothingInTimeIsLost == Spec => []CheckpointCovered
<1>1. CoverageInv => CheckpointCovered
  BY DEF CoverageInv
<1> QED BY <1>1, AlwaysCovered, PTL

-----------------------------------------------------------------------------
(***************************************************************************)
(* The lease orders the rounds on a shard that nobody was overtaken on.    *)
(***************************************************************************)

\* On a shard without overtaking one worker at a time is midway, and the
\* checkpoint it has read is still the stored one.
Lone ==
  \A s \in Shard \ overtaken : \A v, w \in Worker :
    Midway(v, s) /\ Midway(w, s) => v = w

Current ==
  \A w \in Worker :
    shard[w] \notin overtaken /\ pc[w] \in {"read", "enqueue", "advance"} =>
      ck[w] = checkpoint[shard[w]]

\* A batch lies after the checkpoint it was read from, up to its last event.
BatchInv ==
  \A w \in Worker : pc[w] \in {"enqueue", "advance"} =>
    /\ last[w] > ck[w]
    /\ \A e \in batch[w] : shardOf[e] = shard[w] /\ ck[w] < e /\ e <= last[w]

\* On an undisturbed shard the events enqueued are those up to the checkpoint,
\* and those of the batch whose checkpoint is about to be written.
Settled ==
  \A e \in queued : shardOf[e] \notin overtaken \cup cut =>
    \/ e <= checkpoint[shardOf[e]]
    \/ \E w \in Worker : /\ pc[w] = "advance" /\ shard[w] = shardOf[e]
                         /\ e \in batch[w]

OrderInv == TypeOK /\ Lone /\ Current /\ BatchInv /\ Settled /\ OnceUnlessDisturbed

LEMMA NotBelowItself ==
  ASSUME TypeOK
  PROVE  \A s \in Shard : ~(checkpoint[s] < checkpoint[s])
<1>1. checkpoint \in [Shard -> Event \cup {0}]
  BY DEF TypeOK
<1>2. ASSUME NEW s \in Shard PROVE checkpoint[s] \in Int
  BY <1>1
<1> QED BY <1>2

\* A worker goes to a place that is not midway, or stays before the read; what
\* is shared stays, but for leases and the histories.
LEMMA LeavingOrders ==
  ASSUME OrderInv, TypeOK', NEW w \in Worker,
         \A v \in Worker \ {w} : Untouched(v),
         pc'[w] \in {"idle", "claim"},
         pc[w] # "advance" \/ shard[w] \in cut',
         UNCHANGED <<shardOf, checkpoint, queued, twice>>,
         overtaken \subseteq overtaken', cut \subseteq cut'
  PROVE  OrderInv'
<1> USE DEF Untouched, TypeOK
<1>a. ASSUME NEW v \in Worker, NEW s \in Shard, Midway(v, s)'
      PROVE  v # w /\ Midway(v, s)
  BY <1>a DEF Midway
<1>b. Lone'
  BY <1>a DEF OrderInv, Lone
<1>c. Current'
  <2> SUFFICES ASSUME NEW v \in Worker, shard'[v] \notin overtaken',
                      pc'[v] \in {"read", "enqueue", "advance"}
               PROVE  ck'[v] = checkpoint'[shard'[v]]
    BY DEF Current
  <2>1. v # w
    OBVIOUS
  <2> QED BY <2>1 DEF OrderInv, Current
<1>2. BatchInv'
  BY DEF OrderInv, BatchInv
<1>3. Settled'
  <2> SUFFICES ASSUME NEW e \in queued, shardOf[e] \notin overtaken' \cup cut'
               PROVE  \/ e <= checkpoint[shardOf[e]]
                      \/ \E v \in Worker : /\ pc'[v] = "advance"
                                           /\ shard'[v] = shardOf[e]
                                           /\ e \in batch'[v]
    BY DEF Settled
  <2>1. CASE e <= checkpoint[shardOf[e]]
    BY <2>1
  <2>2. ASSUME NEW v \in Worker, pc[v] = "advance", shard[v] = shardOf[e], e \in batch[v]
        PROVE  pc'[v] = "advance" /\ shard'[v] = shardOf[e] /\ e \in batch'[v]
    <3>1. v # w
      BY <2>2
    <3> QED BY <2>2, <3>1
  <2> QED BY <2>1, <2>2 DEF OrderInv, Settled
<1>4. OnceUnlessDisturbed'
  BY DEF OrderInv, OnceUnlessDisturbed
<1> QED BY <1>b, <1>c, <1>2, <1>3, <1>4 DEF OrderInv

\* The write of a checkpoint, at the end of a round or in an interrupted one.
LEMMA WriteOrders ==
  ASSUME OrderInv, TypeOK', NEW w \in Worker,
         \A v \in Worker \ {w} : Untouched(v),
         pc[w] = "advance", pc'[w] \in {"idle", "claim"},
         WriteCheckpoint(w),
         UNCHANGED <<shardOf, queued, twice, overtaken>>, cut \subseteq cut'
  PROVE  /\ OrderInv'
         /\ \A s \in Shard : checkpoint'[s] < checkpoint[s] => s \in overtaken
<1> USE DEF Untouched, TypeOK
<1>1. /\ checkpoint'[shard[w]] = last[w] /\ shard[w] \in Shard
      /\ \A s \in Shard \ {shard[w]} : checkpoint'[s] = checkpoint[s]
  BY DEF OrderInv, WriteCheckpoint
<1>2. shard[w] \notin overtaken => last[w] > checkpoint[shard[w]]
  BY DEF OrderInv, Current, BatchInv
<1>a. ASSUME NEW v \in Worker, NEW s \in Shard, Midway(v, s)'
      PROVE  v # w /\ Midway(v, s)
  BY <1>a DEF Midway
<1>3. Lone'
  BY <1>a DEF OrderInv, Lone
<1>4. Current'
  <2> SUFFICES ASSUME NEW v \in Worker, shard[v] \notin overtaken,
                      pc'[v] \in {"read", "enqueue", "advance"}
               PROVE  shard'[v] = shard[v] /\ ck'[v] = checkpoint'[shard[v]]
    <3>1. \A v \in Worker : pc'[v] \in {"read", "enqueue", "advance"} => shard'[v] = shard[v]
      OBVIOUS
    <3> QED BY <3>1 DEF Current
  <2>1. v # w /\ ck[v] = checkpoint[shard[v]] /\ shard[v] \in Shard
    BY DEF OrderInv, Current
  <2>2. Midway(v, shard[v]) /\ Midway(w, shard[w])
    BY <2>1 DEF Midway
  <2>3. shard[v] # shard[w]
    BY <2>1, <2>2 DEF OrderInv, Lone
  <2> QED BY <1>1, <2>1, <2>3
<1>5. BatchInv'
  BY DEF OrderInv, BatchInv
<1>6. Settled'
  <2> SUFFICES ASSUME NEW e \in queued', shardOf'[e] \notin overtaken' \cup cut'
               PROVE  \/ e <= checkpoint'[shardOf'[e]]
                      \/ \E v \in Worker : /\ pc'[v] = "advance"
                                           /\ shard'[v] = shardOf'[e]
                                           /\ e \in batch'[v]
    BY DEF Settled
  <2>1. e \in Event /\ e \in queued /\ shardOf[e] \in Shard
    BY DEF OrderInv
  <2>2. CASE e <= checkpoint[shardOf[e]]
    <3>1. checkpoint[shardOf[e]] \in Int /\ checkpoint'[shardOf[e]] \in Int /\ e \in Int
      BY <2>1 DEF OrderInv
    <3>2. checkpoint[shardOf[e]] <= checkpoint'[shardOf[e]]
      BY <1>1, <1>2, <2>1, <3>1
    <3> QED BY <2>2, <3>1, <3>2
  <2>3. CASE \E v \in Worker : /\ pc[v] = "advance" /\ shard[v] = shardOf[e]
                               /\ e \in batch[v]
    <3>1. PICK v \in Worker : /\ pc[v] = "advance" /\ shard[v] = shardOf[e]
                              /\ e \in batch[v]
      BY <2>3
    <3>2. CASE v = w
      BY <1>1, <3>1, <3>2 DEF OrderInv, BatchInv
    <3>3. CASE v # w
      BY <3>1, <3>3
    <3> QED BY <3>2, <3>3
  <2> QED BY <2>1, <2>2, <2>3 DEF OrderInv, Settled
<1>7. OnceUnlessDisturbed'
  BY DEF OrderInv, OnceUnlessDisturbed
<1>8. ASSUME NEW s \in Shard, checkpoint'[s] < checkpoint[s] PROVE s \in overtaken
  <2>1. TypeOK
    BY DEF OrderInv
  <2>2. checkpoint[s] \in Int
    BY <2>1
  <2> QED BY <1>1, <1>2, <1>8, <2>2
<1> QED BY <1>3, <1>4, <1>5, <1>6, <1>7, <1>8 DEF OrderInv

\* A worker takes the lease; one that is midway already is overtaken.
LEMMA ClaimOrders ==
  ASSUME OrderInv, TypeOK', NEW w \in Worker, Claim(w)
  PROVE  OrderInv'
<1>t. TypeOK
  BY DEF OrderInv
<1>1. /\ pc[w] = "claim" /\ pc'[w] = "load" /\ shard'[w] = shard[w]
      /\ \A v \in Worker \ {w} : Untouched(v)
  BY <1>t, GotoMoves DEF Claim
<1> USE DEF Untouched, TypeOK
<1>2. UNCHANGED <<shardOf, checkpoint, queued, twice, cut>>
  BY DEF Claim, tableVars, queueVars
<1>3. /\ overtaken \subseteq overtaken'
      /\ shard[w] \notin overtaken' => \A v \in Worker \ {w} : ~Midway(v, shard[w])
  BY DEF Claim, TakeLease
<1>4. Lone'
  <2> SUFFICES ASSUME NEW s \in Shard \ overtaken', NEW u \in Worker, NEW v \in Worker,
                      Midway(u, s)', Midway(v, s)', u # v
               PROVE  FALSE
    BY DEF Lone
  <2>1. \A x \in Worker \ {w} : Midway(x, s)' => Midway(x, s)
    BY <1>1 DEF Midway
  <2>2. Midway(w, s)' => s = shard[w]
    BY <1>1 DEF Midway
  <2>3. s \notin overtaken
    BY <1>3
  <2>4. CASE u # w /\ v # w
    BY <2>1, <2>3, <2>4 DEF OrderInv, Lone
  <2>5. CASE u = w \/ v = w
    BY <1>3, <2>1, <2>2, <2>5
  <2> QED BY <2>4, <2>5
<1>5. Current'
  <2>1. ASSUME NEW v \in Worker, shard'[v] \notin overtaken',
               pc'[v] \in {"read", "enqueue", "advance"}
        PROVE  ck'[v] = checkpoint[shard'[v]]
    <3>1. v # w
      BY <1>1, <2>1
    <3>2. shard[v] \notin overtaken /\ pc[v] \in {"read", "enqueue", "advance"}
      BY <1>1, <1>3, <2>1, <3>1
    <3>3. ck[v] = checkpoint[shard[v]]
      BY <3>2 DEF OrderInv, Current
    <3> QED BY <1>1, <3>1, <3>3
  <2> QED BY <1>2, <2>1 DEF Current
<1>6. BatchInv'
  BY <1>1, <1>2 DEF OrderInv, BatchInv
<1>7. Settled'
  <2> SUFFICES ASSUME NEW e \in queued, shardOf[e] \notin overtaken' \cup cut
               PROVE  \/ e <= checkpoint[shardOf[e]]
                      \/ \E v \in Worker : /\ pc'[v] = "advance"
                                           /\ shard'[v] = shardOf[e]
                                           /\ e \in batch'[v]
    BY <1>2 DEF Settled
  <2>1. CASE e <= checkpoint[shardOf[e]]
    BY <2>1
  <2>2. ASSUME NEW v \in Worker, pc[v] = "advance", shard[v] = shardOf[e], e \in batch[v]
        PROVE  pc'[v] = "advance" /\ shard'[v] = shardOf[e] /\ e \in batch'[v]
    BY <1>1, <2>2
  <2> QED BY <1>3, <2>1, <2>2 DEF OrderInv, Settled
<1>8. OnceUnlessDisturbed'
  BY <1>2, <1>3 DEF OrderInv, OnceUnlessDisturbed
<1> QED BY <1>4, <1>5, <1>6, <1>7, <1>8 DEF OrderInv

\* A worker goes on with its shard: it is midway before and after.
LEMMA GoingOnOrders ==
  ASSUME OrderInv, TypeOK', NEW w \in Worker,
         \A v \in Worker \ {w} : Untouched(v),
         shard'[w] = shard[w],
         pc[w] \in {"load", "read"}, pc'[w] \in {"read", "enqueue"},
         shard[w] \notin overtaken => ck'[w] = checkpoint[shard[w]],
         pc'[w] = "enqueue" =>
           /\ last'[w] > ck'[w]
           /\ \A e \in batch'[w] : shardOf[e] = shard[w] /\ ck'[w] < e /\ e <= last'[w],
         UNCHANGED <<shardOf, checkpoint, queued, twice, overtaken, cut>>
  PROVE  OrderInv'
<1> USE DEF Untouched, TypeOK
<1>a. ASSUME NEW v \in Worker, NEW s \in Shard, Midway(v, s)'
      PROVE  Midway(v, s)
  <2>1. CASE v = w
    BY <1>a, <2>1 DEF Midway
  <2>2. CASE v # w
    BY <1>a, <2>2 DEF Midway
  <2> QED BY <2>1, <2>2
<1>1. Lone'
  BY <1>a DEF OrderInv, Lone
<1>2. Current'
  BY SMTT(30) DEF OrderInv, Current
<1>3. BatchInv'
  BY DEF OrderInv, BatchInv
<1>4. Settled'
  <2>1. ASSUME NEW v \in Worker, pc[v] = "advance"
        PROVE  pc'[v] = "advance" /\ shard'[v] = shard[v] /\ batch'[v] = batch[v]
    BY <2>1
  <2>2. Settled
    BY DEF OrderInv
  <2> HIDE DEF Untouched, TypeOK
  <2>3. ASSUME NEW e \in queued, shardOf[e] \notin overtaken \cup cut
        PROVE  \/ e <= checkpoint[shardOf[e]]
               \/ \E v \in Worker : pc'[v] = "advance" /\ shard'[v] = shardOf[e] /\ e \in batch'[v]
    <3>1. CASE e <= checkpoint[shardOf[e]]
      BY <3>1
    <3>2. CASE \E v \in Worker : pc[v] = "advance" /\ shard[v] = shardOf[e] /\ e \in batch[v]
      BY <2>1, <3>2
    <3> QED BY <2>2, <2>3, <3>1, <3>2 DEF Settled
  <2> QED BY <2>3 DEF Settled
<1>5. OnceUnlessDisturbed'
  BY DEF OrderInv, OnceUnlessDisturbed
<1> QED BY <1>1, <1>2, <1>3, <1>4, <1>5 DEF OrderInv

\* The jobs of a batch that no one else can be enqueueing are new.
LEMMA PutOrders ==
  ASSUME OrderInv, NEW w \in Worker, pc[w] = "enqueue", PutJobs(w)
  PROVE  /\ \A e \in twice' : e \in twice \/ shardOf[e] \in overtaken \cup cut
         /\ \A e \in queued' : e \in queued \/ (e \in batch[w] /\ shardOf[e] = shard[w])
<1>1. /\ queued' = queued \cup Jobs(w) /\ twice' = twice \cup (queued \cap Jobs(w))
      /\ Jobs(w) \subseteq batch[w]
  BY DEF PutJobs, Jobs
<1>2. \A e \in batch[w] : shardOf[e] = shard[w] /\ ck[w] < e
  BY DEF OrderInv, BatchInv
<1>3. ASSUME NEW e \in queued \cap Jobs(w), shardOf[e] \notin overtaken \cup cut
      PROVE  FALSE
  <2>1. /\ shardOf[e] = shard[w] /\ ck[w] < e /\ shard[w] \in Shard
        /\ ck[w] \in Int /\ e \in Int
    BY <1>1, <1>2 DEF OrderInv, TypeOK
  <2>2. ck[w] = checkpoint[shard[w]]
    BY <1>3, <2>1 DEF OrderInv, Current
  <2>3. PICK v \in Worker : pc[v] = "advance" /\ shard[v] = shard[w]
    BY <1>3, <2>1, <2>2 DEF OrderInv, Settled
  <2>4. Midway(v, shard[w]) /\ Midway(w, shard[w])
    BY <2>3 DEF Midway
  <2>5. v = w
    BY <1>3, <2>1, <2>4 DEF OrderInv, Lone
  <2> QED BY <2>3, <2>5
<1>4. \A e \in twice' : e \in twice \/ shardOf[e] \in overtaken \cup cut
  BY <1>1, <1>3
<1>5. \A e \in queued' : e \in queued \/ (e \in batch[w] /\ shardOf[e] = shard[w])
  BY <1>1, <1>2
<1> QED BY <1>4, <1>5

LEMMA EnqueueOrders ==
  ASSUME OrderInv, TypeOK', NEW w \in Worker, Enqueue(w)
  PROVE  OrderInv'
<1> USE DEF Untouched, TypeOK
<1>1. /\ pc[w] = "enqueue" /\ pc'[w] = "advance" /\ PutJobs(w)
      /\ \A v \in Worker \ {w} : pc'[v] = pc[v]
  BY DEF OrderInv, Enqueue
<1>2. UNCHANGED <<shardOf, checkpoint, overtaken, cut, shard, ck, batch, last>>
  BY DEF Enqueue, tableVars
<1>3. Lone'
  <2>1. ASSUME NEW v \in Worker, NEW s \in Shard, Midway(v, s)' PROVE Midway(v, s)
    <3>1. CASE v = w
      BY <1>1, <1>2, <2>1, <3>1 DEF Midway
    <3>2. CASE v # w
      BY <1>1, <1>2, <2>1, <3>2 DEF Midway
    <3> QED BY <3>1, <3>2
  <2> QED BY <1>2, <2>1 DEF OrderInv, Lone
<1>4. Current'
  BY <1>1, <1>2 DEF OrderInv, Current
<1>5. BatchInv'
  BY <1>1, <1>2 DEF OrderInv, BatchInv
<1>6. Settled'
  <2>1. ASSUME NEW e \in queued' PROVE e \in queued \/ (e \in batch[w] /\ shardOf[e] = shard[w])
    BY <1>1, PutOrders
  <2>2. ASSUME NEW v \in Worker, pc[v] = "advance" PROVE pc'[v] = "advance"
    BY <1>1, <2>2
  <2> QED BY <1>1, <1>2, <2>1, <2>2 DEF OrderInv, Settled
<1>7. OnceUnlessDisturbed'
  <2>1. \A e \in twice' : e \in twice \/ shardOf[e] \in overtaken \cup cut
    BY <1>1, PutOrders
  <2> QED BY <1>2, <2>1 DEF OrderInv, OnceUnlessDisturbed
<1> QED BY <1>3, <1>4, <1>5, <1>6, <1>7 DEF OrderInv

\* An interrupted round leaves its shard in cut if its write may have happened
\* between read and end.
LEMMA FailsOrders ==
  ASSUME OrderInv, TypeOK', NEW w \in Worker, Fails(w)
  PROVE  /\ OrderInv'
         /\ \A s \in Shard : checkpoint'[s] < checkpoint[s] => s \in overtaken
<1>t. TypeOK
  BY DEF OrderInv
<1>1. /\ pc'[w] = "idle" /\ \A v \in Worker \ {w} : Untouched(v)
      /\ UNCHANGED shardOf
  BY <1>t, GotoMoves DEF Fails, Interrupted, EndRound, tableVars
<1>2. /\ cut \subseteq cut'
      /\ pc[w] \in {"enqueue", "advance"} => shard[w] \in cut'
  BY DEF Fails, Interrupted
<1>3. \A s \in Shard : ~(checkpoint[s] < checkpoint[s])
  BY <1>t, NotBelowItself
<1>4. CASE UNCHANGED <<lease, overtaken, queueVars, checkpoint>>
  BY <1>1, <1>2, <1>3, <1>4, LeavingOrders DEF queueVars
<1>5. CASE pc[w] = "claim" /\ TakeLease(w) /\ UNCHANGED <<queueVars, checkpoint>>
  <2>1. overtaken \subseteq overtaken'
    BY <1>5 DEF TakeLease
  <2> QED BY <1>1, <1>2, <1>3, <1>5, <2>1, LeavingOrders DEF queueVars
<1>6. CASE pc[w] = "enqueue" /\ PutJobs(w) /\ UNCHANGED <<lease, overtaken, checkpoint>>
  <2> USE DEF Untouched, TypeOK
  <2>1. \A e \in queued' : e \in queued \/ shardOf[e] = shard[w]
    BY <1>6, PutOrders
  <2>2. \A e \in twice' : e \in twice \/ shardOf[e] \in overtaken \cup cut
    BY <1>6, PutOrders
  <2>a. ASSUME NEW v \in Worker, NEW s \in Shard, Midway(v, s)'
        PROVE  v # w /\ Midway(v, s)
    BY <1>1, <2>a DEF Midway
  <2>3. Lone'
    BY <1>6, <2>a DEF OrderInv, Lone
  <2>4. Current'
    <3> SUFFICES ASSUME NEW v \in Worker, shard'[v] \notin overtaken',
                        pc'[v] \in {"read", "enqueue", "advance"}
                 PROVE  ck'[v] = checkpoint'[shard'[v]]
      BY DEF Current
    <3>1. v # w
      BY <1>1
    <3> QED BY <1>1, <1>6, <3>1 DEF OrderInv, Current
  <2>5. BatchInv'
    <3> SUFFICES ASSUME NEW v \in Worker, pc'[v] \in {"enqueue", "advance"}
                 PROVE  /\ last'[v] > ck'[v]
                        /\ \A e \in batch'[v] :
                             shardOf'[e] = shard'[v] /\ ck'[v] < e /\ e <= last'[v]
      BY DEF BatchInv
    <3>1. v # w
      BY <1>1
    <3> QED BY <1>1, <3>1 DEF OrderInv, BatchInv
  <2>6. Settled'
    <3> SUFFICES ASSUME NEW e \in queued', shardOf[e] \notin overtaken \cup cut'
                 PROVE  \/ e <= checkpoint[shardOf[e]]
                        \/ \E v \in Worker : /\ pc'[v] = "advance"
                                             /\ shard'[v] = shardOf[e]
                                             /\ e \in batch'[v]
      BY <1>1, <1>6 DEF Settled
    <3>1. e \in queued /\ shardOf[e] \notin cut
      BY <1>2, <1>6, <2>1
    <3>2. ASSUME NEW v \in Worker, pc[v] = "advance", shard[v] = shardOf[e], e \in batch[v]
          PROVE  pc'[v] = "advance" /\ shard'[v] = shardOf[e] /\ e \in batch'[v]
      BY <1>1, <1>6, <3>2
    <3> QED BY <3>1, <3>2 DEF OrderInv, Settled
  <2>7. OnceUnlessDisturbed'
    BY <1>1, <1>2, <1>6, <2>2 DEF OrderInv, OnceUnlessDisturbed
  <2> QED BY <1>3, <1>6, <2>3, <2>4, <2>5, <2>6, <2>7 DEF OrderInv
<1>7. CASE pc[w] = "advance" /\ WriteCheckpoint(w) /\ UNCHANGED <<lease, overtaken, queueVars>>
  BY <1>1, <1>2, <1>7, WriteOrders DEF queueVars
<1> QED BY <1>4, <1>5, <1>6, <1>7 DEF Fails, Interrupted

LEMMA StepOrders ==
  ASSUME OrderInv, TypeOK', NEW w \in Worker, Step(w)
  PROVE  /\ OrderInv'
         /\ \A s \in Shard : checkpoint'[s] < checkpoint[s] => s \in overtaken
<1>t. TypeOK
  BY DEF OrderInv
<1>s. \A s \in Shard : ~(checkpoint[s] < checkpoint[s])
  BY <1>t, NotBelowItself
<1>1. CASE StartRound(w) \/ ReadMalformed(w)
  <2>1. /\ pc'[w] \in {"idle", "claim"} /\ \A v \in Worker \ {w} : Untouched(v)
        /\ pc[w] # "advance"
    BY <1>t, <1>1, GotoMoves DEF StartRound, ReadMalformed, EndRound
  <2>2. UNCHANGED <<shardOf, checkpoint, queued, twice, overtaken, cut>>
    BY <1>1 DEF StartRound, ReadMalformed, tableVars, queueVars
  <2> QED BY <1>s, <2>1, <2>2, LeavingOrders
<1>2. CASE PassBy(w) \/ ReadNothing(w)
  <2>1. /\ pc'[w] \in {"idle", "claim"} /\ \A v \in Worker \ {w} : Untouched(v)
        /\ pc[w] # "advance"
    BY <1>t, <1>2, NextShardMoves DEF PassBy, ReadNothing
  <2>2. UNCHANGED <<shardOf, checkpoint, queued, twice, overtaken, cut>>
    BY <1>2 DEF PassBy, ReadNothing, tableVars, queueVars
  <2> QED BY <1>s, <2>1, <2>2, LeavingOrders
<1>3. CASE Claim(w)
  BY <1>s, <1>3, ClaimOrders DEF Claim
<1>4. CASE Load(w)
  <2>1. /\ \A v \in Worker \ {w} : Untouched(v)
        /\ pc[w] = "load" /\ pc'[w] = "read" /\ shard'[w] = shard[w]
        /\ ck'[w] = checkpoint[shard[w]]
    BY <1>t, <1>4 DEF Load, TypeOK, Untouched
  <2>2. UNCHANGED <<shardOf, checkpoint, queued, twice, overtaken, cut>>
    BY <1>4 DEF Load, tableVars, queueVars
  <2> QED BY <1>s, <2>1, <2>2, GoingOnOrders
<1>5. CASE Read(w)
  <2>1. /\ \A v \in Worker \ {w} : Untouched(v)
        /\ pc[w] = "read" /\ pc'[w] = "enqueue" /\ shard'[w] = shard[w]
        /\ ck'[w] = ck[w]
    BY <1>t, <1>5 DEF Read, TypeOK, Untouched
  <2>2. UNCHANGED <<shardOf, checkpoint, queued, twice, overtaken, cut>>
    BY <1>5 DEF Read, tableVars, queueVars
  <2>3. PICK x \in After(shard[w], ck[w]) :
          batch'[w] = Page(After(shard[w], ck[w]), x) /\ last'[w] = x
    BY <1>t, <1>5 DEF Read, TypeOK
  <2>4. /\ last'[w] > ck'[w]
        /\ \A e \in batch'[w] : shardOf[e] = shard[w] /\ ck'[w] < e /\ e <= last'[w]
    BY <1>t, <2>1, <2>3 DEF After, Page, TypeOK
  <2>5. shard[w] \notin overtaken => ck'[w] = checkpoint[shard[w]]
    BY <2>1 DEF OrderInv, Current
  <2> QED BY <1>s, <2>1, <2>2, <2>4, <2>5, GoingOnOrders
<1>6. CASE Enqueue(w)
  BY <1>s, <1>6, EnqueueOrders DEF Enqueue
<1>7. CASE Advance(w)
  <2>1. /\ pc'[w] \in {"idle", "claim"} /\ \A v \in Worker \ {w} : Untouched(v)
        /\ pc[w] = "advance" /\ WriteCheckpoint(w)
        /\ UNCHANGED <<shardOf, queued, twice, overtaken, cut>>
    BY <1>t, <1>7, NextShardMoves DEF Advance, tableVars, queueVars
  <2> QED BY <2>1, WriteOrders
<1> QED BY <1>1, <1>2, <1>3, <1>4, <1>5, <1>6, <1>7 DEF Step

LEMMA NextOrders ==
  ASSUME OrderInv, [Next]_vars
  PROVE  /\ OrderInv'
         /\ \A s \in Shard : checkpoint'[s] < checkpoint[s] => s \in overtaken
<1>t. TypeOK /\ TypeOK'
  BY NextType DEF OrderInv
<1>s. \A s \in Shard : ~(checkpoint[s] < checkpoint[s])
  BY <1>t, NotBelowItself
<1>1. ASSUME NEW w \in Worker, Step(w)
      PROVE  OrderInv' /\ \A s \in Shard : checkpoint'[s] < checkpoint[s] => s \in overtaken
  BY <1>t, <1>1, StepOrders
<1>2. ASSUME NEW w \in Worker, Fails(w)
      PROVE  OrderInv' /\ \A s \in Shard : checkpoint'[s] < checkpoint[s] => s \in overtaken
  BY <1>t, <1>2, FailsOrders
<1>3. ASSUME UNCHANGED <<shardOf, checkpoint, workerVars, queueVars, overtaken, cut>>
      PROVE  OrderInv' /\ \A s \in Shard : checkpoint'[s] < checkpoint[s] => s \in overtaken
  <2>1. OrderInv'
    BY <1>t, <1>3 DEF OrderInv, Lone, Current, BatchInv, Settled, OnceUnlessDisturbed,
                      Midway, workerVars, queueVars
  <2> QED BY <1>s, <1>3, <2>1
<1>4. CASE Insert \/ \E e \in Event : Commit(e) \/ Rollback(e)
  BY <1>3, <1>4 DEF Insert, Commit, Rollback
<1>5. CASE (\E w \in Worker : Replaced(w)) \/ \E s \in Shard : Expire(s)
  BY <1>3, <1>5 DEF Replaced, Expire, tableVars
<1>6. CASE UNCHANGED vars
  BY <1>3, <1>6 DEF vars, tableVars
<1> QED BY <1>1, <1>2, <1>4, <1>5, <1>6 DEF Next

LEMMA AlwaysOrdered == Spec => []OrderInv
<1>1. Init => OrderInv
  BY ShardsAssumption DEF Init, OrderInv, TypeOK, Lone, Current, BatchInv, Settled,
                          OnceUnlessDisturbed, Midway
<1> QED BY <1>1, NextOrders, PTL DEF Spec

\* The jobs of an event are enqueued a second time only on a shard that was
\* claimed under a busy worker or whose round was cut short.
THEOREM EnqueuedOnce == Spec => []OnceUnlessDisturbed
<1>1. OrderInv => OnceUnlessDisturbed
  BY DEF OrderInv
<1> QED BY <1>1, AlwaysOrdered, PTL

\* A checkpoint goes back only on a shard that was claimed under a busy worker:
\* the unconditional write of the checkpoint rests on the lease alone.
THEOREM LeaseKeepsCheckpoints == Spec => MonotoneUnlessOvertaken
<1>1. OrderInv /\ [Next]_vars =>
        [\A s \in Shard : checkpoint'[s] < checkpoint[s] => s \in overtaken]_vars
  BY NextOrders
<1> QED BY <1>1, AlwaysOrdered, PTL DEF Spec, MonotoneUnlessOvertaken

=============================================================================
