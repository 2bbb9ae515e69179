--------------------------- MODULE PipelineProofs ---------------------------
(***************************************************************************)
(* The safety of Pipeline and of SearchIndex beside it, for any number of  *)
(* workers, events, subscriptions and resources, any scenes, and any       *)
(* number of crashes, failed calls and repeated jobs: of IndexSpec, whose  *)
(* runs are in MCPipeline.                                                 *)
(*                                                                         *)
(* Shape says what the variables can be; on top of it each property has an *)
(* invariant of its own, which says what the steps in between have to      *)
(* keep: Writers for ProjectedOnce, Finished for LeftIsDone, Kept for      *)
(* SoleHandler, Rounds for ExactSubscribersTold, Indexed for               *)
(* StaleOnlyWhileQueued.                                                   *)
(***************************************************************************)
EXTENDS SearchIndex, FiniteSetTheorems, SequenceTheorems, TLAPS

Item == {Project(e) : e \in Event} \cup {Deliver(s, e) : s \in Sub, e \in Event}
          \cup {Sync(t) : t \in Target}
Job  == [item : Item, holder : Consumer \cup {NoConsumer}, wait : 0 .. RetryDelay,
         lease : 0 .. Lease]
DocSet == {Absent} \cup UNION {[S -> Nat] : S \in SUBSET Resource}
Prep == [target : Target, docs : DocSet,
         at : {"loaded", "deleted", "written", "error"}]
Post_ == [event : Event, feeds : SUBSET {"workspace", "conversation", "user"}]

QueueShape ==
  /\ queued \in Seq(Item) /\ left \subseteq DOMAIN queued
  /\ \A j \in DOMAIN jobs :
       /\ j \in DOMAIN queued /\ jobs[j] \in Job /\ jobs[j].item = queued[j]
       /\ jobs[j].holder = NoConsumer => jobs[j].lease = 0

\* The steps of the handlers of each process.
PcsOf(crew) ==
  {"rest", "turn"} \cup (IF crew = "indexer" THEN {"load", "retry"}
                         ELSE IF crew = "projector" THEN {"open", "written", "done", "failed"}
                         ELSE {"ask", "post", "done", "failed"})
WorkRec(crew) ==
           [pc : {"rest", "turn", "open", "written", "ask", "post", "load", "retry",
                  "done", "failed"},
            batch : Seq(Nat), beat : 0 .. Interval, late : BOOLEAN,
            got : SUBSET IF crew = "indexer" THEN Prep ELSE Nat]

\* What a worker of process crew is doing: its batch has jobs for its process only.
RecOK(r, crew, q) ==
  /\ r \in WorkRec(crew) /\ r.pc \in PcsOf(crew)
  /\ r.pc = "rest" <=> r.batch = <<>>
  /\ \A k \in DOMAIN r.batch : r.batch[k] \in DOMAIN q /\ q[r.batch[k]].to = crew
  /\ r.pc \in {"rest", "turn", "open", "ask"} => r.got = {}

WorkShape ==
  /\ scene \in Scenes /\ faults \in Int /\ DOMAIN work = Consumer
  /\ work = [w \in Consumer |-> work[w]]
  /\ \A w \in Consumer : RecOK(work[w], scene.crew[w], queued)

TableShape ==
  /\ drawn \in Nat /\ DOMAIN external \subseteq 1 .. drawn
  /\ \A i \in DOMAIN external : external[i] \in Post_
  /\ failures \subseteq Event /\ disorder \subseteq DOMAIN external
  /\ enabled \subseteq Sub /\ Sub \ everOff \subseteq enabled

RoundShape ==
  /\ checkpoint \in {0} \cup DOMAIN external
  /\ round \in [pc : {"idle", "match", "enqueue", "save"}, todo : Seq(Nat),
                items : Seq(Item), last : Nat]
  /\ round.pc = "match" <=> round.todo # <<>>
  /\ round.pc = "idle" \/ round.last \in {0} \cup DOMAIN external
  /\ \A k \in DOMAIN round.todo : round.todo[k] \in DOMAIN external

IndexShape ==
  /\ version \in [Resource -> Nat] /\ changed \subseteq Target
  /\ since \in [Resource -> [Resource -> Nat]]
  /\ \A t, q \in Resource : since[t][q] =< version[q]
  /\ DOMAIN index = Target

Shape == QueueShape /\ WorkShape /\ TableShape /\ RoundShape /\ IndexShape

-----------------------------------------------------------------------------
(* Numbers in order.                                                       *)

LEMMA OrderExists ==
  ASSUME NEW S \in SUBSET Nat, IsFiniteSet(S)
  PROVE  \E s \in [1 .. Cardinality(S) -> S] : \A i, k \in DOMAIN s : i < k => s[i] < s[k]
<1> DEFINE n == Cardinality(S)
           Upto(x) == {y \in S : y =< x}
           r == [x \in S |-> Cardinality(Upto(x))]
           s == [i \in 1 .. n |-> CHOOSE x \in S : r[x] = i]
<1>1. n \in Nat /\ IsFiniteSet(1 .. n) /\ Cardinality(1 .. n) = n
  <2>1. n \in Nat  BY FS_CardinalityType
  <2> HIDE DEF n
  <2>2. Cardinality(1 .. n) = IF 1 > n THEN 0 ELSE n - 1 + 1  BY <2>1, FS_Interval
  <2>3. (IF 1 > n THEN 0 ELSE n - 1 + 1) = n  BY <2>1
  <2> QED  BY <2>1, <2>2, <2>3, FS_Interval
<1>2. \A x \in S : r[x] \in 1 .. n
  <2> SUFFICES ASSUME NEW x \in S PROVE Cardinality(Upto(x)) \in 1 .. n  BY DEF r
  <2>1. IsFiniteSet(Upto(x)) /\ Cardinality(Upto(x)) =< n  BY FS_Subset, Upto(x) \in SUBSET S
  <2>2. Upto(x) # {}  BY x \in S, x =< x
  <2>3. Cardinality(Upto(x)) \in Nat /\ Cardinality(Upto(x)) # 0
    BY <2>1, <2>2, FS_CardinalityType, FS_EmptySet
  <2> QED  BY <2>1, <2>3, <1>1
<1>3. \A x, y \in S : x < y => r[x] < r[y]
  <2> SUFFICES ASSUME NEW x \in S, NEW y \in S, x < y
               PROVE  Cardinality(Upto(x)) < Cardinality(Upto(y))
    BY DEF r
  <2>1. Upto(x) \in SUBSET Upto(y) /\ IsFiniteSet(Upto(x)) /\ IsFiniteSet(Upto(y))
    <3>1. x \in Nat /\ y \in Nat /\ \A z \in S : z \in Nat  OBVIOUS
    <3>2. \A z \in S : z =< x => z =< y  BY <3>1
    <3>3. Upto(x) \subseteq Upto(y)  BY <3>2
    <3> QED  BY <3>3, FS_Subset, Upto(x) \in SUBSET S, Upto(y) \in SUBSET S
  <2>2. y \in Upto(y) /\ y \notin Upto(x)  BY S \subseteq Nat
  <2>3. Upto(x) # Upto(y)  BY <2>2
  <2> HIDE DEF Upto
  <2>4. Cardinality(Upto(x)) =< Cardinality(Upto(y)) /\ Cardinality(Upto(x)) # Cardinality(Upto(y))
    BY <2>1, <2>3, FS_Subset
  <2>5. Cardinality(Upto(x)) \in Nat /\ Cardinality(Upto(y)) \in Nat  BY <2>1, FS_CardinalityType
  <2> QED  BY <2>4, <2>5
<1> HIDE DEF Upto
<1>4. r \in Injection(S, 1 .. n)
  <2>1. r \in [S -> 1 .. n]  BY <1>2 DEF r
  <2>2. ASSUME NEW x \in S, NEW y \in S, r[x] = r[y] PROVE x = y
    <3>1. x \in Nat /\ y \in Nat /\ r[x] \in Nat  BY <1>2, <1>1
    <3>2. ~ x < y /\ ~ y < x  BY <3>1, <1>3, <2>2
    <3> QED  BY <3>1, <3>2
  <2> QED  BY <2>1, <2>2 DEF Injection, IsInjective
<1>5. r \in Surjection(S, 1 .. n)
  BY <1>1, <1>4, FS_Injection
<1>6. \A i \in 1 .. n : s[i] \in S /\ r[s[i]] = i
  BY <1>5 DEF Surjection, s
<1>7. ASSUME NEW i \in 1 .. n, NEW k \in 1 .. n, i < k PROVE s[i] < s[k]
  <2>1. s[i] \in Nat /\ s[k] \in Nat /\ r[s[i]] = i /\ r[s[k]] = k  BY <1>6
  <2>2. ~ s[k] < s[i] /\ s[i] # s[k]  BY <2>1, <1>3, <1>6, <1>7
  <2> QED  BY <2>1, <2>2
<1>8. s \in [1 .. n -> S] /\ DOMAIN s = 1 .. n  BY <1>6 DEF s
<1> HIDE DEF s
<1> QED  BY <1>7, <1>8

LEMMA OrderOf ==
  ASSUME NEW S \in SUBSET Nat, IsFiniteSet(S)
  PROVE  /\ InOrder(S) \in [1 .. Cardinality(S) -> S] /\ Cardinality(S) \in Nat
         /\ \A i, k \in DOMAIN InOrder(S) : i < k => InOrder(S)[i] < InOrder(S)[k]
         /\ InOrder(S) \in Seq(S) /\ Len(InOrder(S)) = Cardinality(S)
         /\ InOrder(S) = <<>> <=> S = {}
         /\ \A x \in S : \E i \in DOMAIN InOrder(S) : InOrder(S)[i] = x
<1> DEFINE n == Cardinality(S)  o == InOrder(S)
<1>1. n \in Nat  BY FS_CardinalityType
<1>2. o \in [1 .. n -> S] /\ \A i, k \in DOMAIN o : i < k => o[i] < o[k]
  BY OrderExists DEF InOrder
<1> HIDE DEF o
<1>3. o \in Seq(S) /\ Len(o) = n  BY <1>1, <1>2
<1>4. o = <<>> <=> S = {}
  <2>1. n = 0 <=> S = {}  BY FS_EmptySet
  <2>2. o = <<>> <=> Len(o) = 0  BY <1>3, EmptySeq
  <2> QED  BY <1>3, <2>1, <2>2
<1>5. o \in Injection(1 .. n, S)
  <2> HIDE DEF n
  <2>1. ASSUME NEW i \in 1 .. n, NEW k \in 1 .. n, o[i] = o[k] PROVE i = k
    <3>0. o[i] \in S /\ o[k] \in S  BY <1>2
    <3>1. i \in Nat /\ k \in Nat  BY <1>1
    <3>3. o[i] \in Nat /\ o[k] \in Nat  BY <3>0
    <3>2. ~ i < k /\ ~ k < i  BY <3>1, <1>2, <2>1, <3>3
    <3> QED  BY <3>1, <3>2
  <2> QED  BY <1>2, <2>1 DEF Injection, IsInjective
<1>6. n = Cardinality(1 .. n)
  <2> HIDE DEF n
  <2>1. Cardinality(1 .. n) = IF 1 > n THEN 0 ELSE n - 1 + 1  BY <1>1, FS_Interval
  <2> QED  BY <1>1, <2>1
<1>7. o \in Surjection(1 .. n, S)
  <2> HIDE DEF n
  <2>1. Cardinality(1 .. n) = Cardinality(S)  BY <1>6 DEF n
  <2> QED  BY <1>5, <2>1, FS_Injection
<1>8. \A x \in S : \E i \in DOMAIN o : o[i] = x  BY <1>7, <1>2 DEF Surjection
<1> QED  BY <1>1, <1>2, <1>3, <1>4, <1>8 DEF o

-----------------------------------------------------------------------------
(* The invariants.                                                         *)

Listed(e) == KindOf[e] \notin {"unlisted", "malformed"}

\* Between its insert and its commit a worker has one id: that of the row of its
\* event, or one of its own of an event that has no row; and no two have one event.
Written(w) ==
  LET e == Doing(w).event
  IN  IF Listed(e)
      THEN \E i \in 1 .. drawn :
             /\ work[w].got = {i}
             /\ IF i \in DOMAIN external THEN external[i].event = e ELSE RowsOf(e) = {}
      ELSE work[w].got = {}
Writing(w) == work[w].pc = "written"
Writers ==
  /\ ProjectedOnce
  /\ \A w \in Consumer : Writing(w) => Written(w)
  /\ \A u, w \in Consumer : u # w /\ Writing(u) /\ Writing(w) =>
       /\ Listed(Doing(u).event) => Doing(u).event # Doing(w).event
       /\ \A i \in work[u].got \ DOMAIN external : i \notin work[w].got

\* A handler ends well only when what its job asks for is done.
Finished ==
  /\ LeftIsDone
  /\ \A w \in Consumer : work[w].pc = "done" => Done(Doing(w))

\* While nothing fails, the lease of a job whose turn came in time outlasts the
\* time to its next heartbeat.
NoFault == faults = MaxFaults - scene.faults
KeptBy(w) ==
  InHand(w) \in DOMAIN jobs =>
    jobs[InHand(w)].holder = w /\ jobs[InHand(w)].lease + work[w].beat > Interval
Kept ==
  /\ faults >= MaxFaults - scene.faults
  /\ SoleHandler
  /\ NoFault => \A w \in Consumer : Handling(w) /\ ~work[w].late => KeptBy(w)

\* What the producer is past, of its checkpoint and of its round, is told of or
\* is among the items of the round; and it has all the rows up to its last one.
Wanted(s, i) ==
  /\ i \in DOMAIN external /\ i \notin disorder /\ s \notin everOff
  /\ \A f \in Field : Filter[s][f] # Null
  /\ Meant(s, external[i].event)
HasItem(q, s, i) == \E j \in DOMAIN q : q[j] = Deliver(s, external[i].event)
Rounds ==
  /\ \A s \in Sub : \A i \in DOMAIN external :
       Wanted(s, i) /\ i =< checkpoint => HasItem(queued, s, i)
  /\ round.pc # "idle" => \A s \in Sub : \A i \in DOMAIN external :
       Wanted(s, i) /\ checkpoint < i /\ i =< round.last =>
         HasItem(IF round.pc = "save" THEN queued ELSE round.items, s, i)
  /\ round.pc = "match" =>
       /\ \A i, k \in DOMAIN round.todo : i < k => round.todo[i] < round.todo[k]
       /\ \A k \in DOMAIN round.todo : round.last < round.todo[k]
       /\ \A i \in DOMAIN external \ disorder : \A k \in DOMAIN round.todo :
            round.last < i /\ i < round.todo[k] =>
              \E m \in DOMAIN round.todo : round.todo[m] = i

\* The indexers: a target that only one of them has loaded keeps a job in the
\* table, what that one loaded is what the database has, or a change came after it
\* that has a job of its own, and what it wrote is what the index has.
HasJob(t)   == \E j \in DOMAIN jobs : jobs[j].item = Sync(t)
OnTheWay(t) == t \in changed \/ HasJob(t)
Fresh(w, p) ==
  \/ Current(p.target, p.docs) \/ p.target \in changed
  \/ \E j \in DOMAIN jobs \ InBatch(w) : jobs[j].item = Sync(p.target)
PrepOK(w, p) ==
  /\ \E j \in InBatch(w) : queued[j] = Sync(p.target)
  /\ \A q \in work[w].got : q.target = p.target => q = p
  /\ p.target \in Event /\ p.at # "error" => RowsOf(p.target) # {}
  /\ work[w].pc = "load" /\ p.target \notin raced =>
       /\ HasJob(p.target)
       /\ p.at # "error" => Fresh(w, p)
       /\ p.at = "written" => index[p.target] = p.docs
Indexed ==
  /\ StaleOnlyWhileQueued
  /\ \A t \in scene.synced \ raced : RowsOf(t) = {} => OnTheWay(t)
  /\ \A w \in Consumer : IsIndexer(w) => \A p \in work[w].got : PrepOK(w, p)
  /\ \A u, w \in Consumer : u # w /\ IsIndexer(u) /\ IsIndexer(w) =>
       \A p \in work[u].got : \A q \in work[w].got :
         p.target = q.target => p.target \in raced

-----------------------------------------------------------------------------
(* The shape: what the steps do to the queue and to one worker.            *)

QueueGrows ==
  /\ DOMAIN queued \subseteq DOMAIN queued' /\ left \subseteq left'
  /\ \A j \in DOMAIN queued : queued'[j] = queued[j]

LEMMA CrewOf ==
  ASSUME WorkShape, NEW w \in Consumer
  PROVE  scene.crew[w] \in {"projector", "webhook", "indexer"}
BY PipelineAssumption DEF WorkShape

LEMMA ItemKinds ==
  ASSUME NEW x \in Item
  PROVE  /\ x.to = "projector" => x.event \in Event /\ x = Project(x.event)
         /\ x.to = "webhook" => x.event \in Event /\ x.sub \in Sub /\ x = Deliver(x.sub, x.event)
         /\ x.to = "indexer" => x.target \in Target /\ x = Sync(x.target)
         /\ x.to \in {"projector", "webhook", "indexer"}
<1>1. CASE x \in {Project(e) : e \in Event}  BY <1>1 DEF Project
<1>2. CASE x \in {Deliver(s, e) : s \in Sub, e \in Event}  BY <1>2 DEF Deliver
<1>3. CASE x \in {Sync(t) : t \in Target}  BY <1>3 DEF Sync
<1> QED  BY <1>1, <1>2, <1>3 DEF Item

LEMMA HandFacts ==
  ASSUME QueueShape, WorkShape, NEW w \in Consumer, work[w].pc # "rest"
  PROVE  /\ work[w].batch \in Seq(Nat) /\ work[w].batch # <<>>
         /\ InHand(w) = work[w].batch[1] /\ InHand(w) \in DOMAIN queued /\ InHand(w) \in Nat
         /\ InHand(w) \in InBatch(w) /\ 1 \in DOMAIN work[w].batch
         /\ Doing(w) \in Item /\ Doing(w).to = scene.crew[w]
<1>1. work[w].batch \in Seq(Nat) /\ work[w].batch # <<>>
  BY DEF WorkShape, RecOK, WorkRec
<1>2. 1 \in DOMAIN work[w].batch /\ InHand(w) = work[w].batch[1]
  BY <1>1, LenProperties, EmptySeq DEF InHand
<1>3. InHand(w) \in DOMAIN queued /\ Doing(w).to = scene.crew[w]
  BY <1>2 DEF WorkShape, RecOK, Doing
<1>4. Doing(w) \in Item  BY <1>3, ElementOfSeq, LenProperties DEF QueueShape, Doing
<1>5. InHand(w) \in Nat  BY <1>1, <1>2, ElementOfSeq, LenProperties
<1>6. InHand(w) \in InBatch(w)  BY <1>2 DEF InBatch, Range
<1> QED  BY <1>1, <1>2, <1>3, <1>4, <1>5, <1>6

LEMMA RecGrows ==
  ASSUME NEW r, NEW c, RecOK(r, c, queued), QueueGrows
  PROVE  RecOK(r, c, queued')
BY DEF RecOK, QueueGrows

LEMMA RestingOK ==
  ASSUME NEW c \in {"projector", "webhook", "indexer"}, NEW q
  PROVE  RecOK(Resting, c, q)
<1>1. 0 \in 0 .. Interval  BY PipelineAssumption
<1>2. <<>> \in Seq(Nat) /\ DOMAIN <<>> = {}  OBVIOUS
<1>3. {} \in SUBSET IF c = "indexer" THEN Prep ELSE Nat  OBVIOUS
<1> QED  BY <1>1, <1>2, <1>3 DEF RecOK, Resting, WorkRec, PcsOf

LEMMA TurnOK ==
  ASSUME NEW c \in {"projector", "webhook", "indexer"}, NEW q, NEW b \in Seq(Nat), b # <<>>,
         \A k \in DOMAIN b : b[k] \in DOMAIN q /\ q[b[k]].to = c
  PROVE  RecOK([Resting EXCEPT !.pc = "turn", !.batch = b], c, q)
<1>1. 0 \in 0 .. Interval  BY PipelineAssumption
<1>2. {} \in SUBSET IF c = "indexer" THEN Prep ELSE Nat  OBVIOUS
<1> QED  BY <1>1, <1>2 DEF RecOK, Resting, WorkRec, PcsOf

LEMMA StepOK ==
  ASSUME NEW c, NEW q, NEW r, RecOK(r, c, q), r.pc # "rest",
         NEW p \in PcsOf(c) \ {"rest", "turn", "open", "ask"}
  PROVE  RecOK([r EXCEPT !.pc = p], c, q)
<1>1. p \in {"rest", "turn", "open", "written", "ask", "post", "load", "retry", "done", "failed"}
  BY DEF PcsOf
<1> QED  BY <1>1 DEF RecOK, WorkRec

LEMMA OneWorker ==
  ASSUME WorkShape, QueueGrows, UNCHANGED scene, faults' \in Int, NEW w \in Consumer, NEW r,
         work' = [work EXCEPT ![w] = r], RecOK(r, scene.crew[w], queued')
  PROVE  WorkShape'
<1>1. DOMAIN work' = Consumer /\ work' = [v \in Consumer |-> work'[v]]  BY DEF WorkShape
<1>2. ASSUME NEW u \in Consumer PROVE RecOK(work'[u], scene'.crew[u], queued')
  <2>1. CASE u = w  BY <2>1 DEF WorkShape
  <2>2. CASE u # w
    <3>1. work'[u] = work[u] /\ RecOK(work[u], scene.crew[u], queued)  BY <2>2 DEF WorkShape
    <3> QED  BY <3>1, RecGrows
  <2> QED  BY <2>1, <2>2
<1> QED  BY <1>1, <1>2 DEF WorkShape

LEMMA NoWorker ==
  ASSUME WorkShape, QueueGrows, UNCHANGED <<scene, work>>, faults' \in Int
  PROVE  WorkShape'
<1>1. \A u \in Consumer : RecOK(work[u], scene.crew[u], queued')
  BY RecGrows DEF WorkShape
<1> QED  BY <1>1 DEF WorkShape

LEMMA QueueSame ==
  ASSUME QueueShape, UNCHANGED queued, left' \subseteq DOMAIN queued, left \subseteq left',
         DOMAIN jobs' \subseteq DOMAIN jobs,
         \A j \in DOMAIN jobs' :
           /\ jobs'[j] \in Job /\ jobs'[j].item = jobs[j].item
           /\ jobs'[j].holder = NoConsumer => jobs'[j].lease = 0
  PROVE  QueueShape' /\ QueueGrows
BY DEF QueueShape, QueueGrows

LEMMA EnqueuedKeeps ==
  ASSUME QueueShape, NEW items \in Seq(Item), Enqueued(items, 0)
  PROVE  /\ QueueShape' /\ QueueGrows /\ UNCHANGED left
         /\ queued' \in Seq(Item) /\ DOMAIN queued = 1 .. Len(queued) /\ Len(queued) \in Nat
         /\ DOMAIN jobs \subseteq DOMAIN jobs' /\ \A j \in DOMAIN jobs : jobs'[j] = jobs[j]
         /\ \A j \in DOMAIN jobs' \ DOMAIN jobs : j \notin DOMAIN queued
         /\ \A k \in 1 .. Len(items) : LET j == Len(queued) + k
              IN  j \in DOMAIN queued' /\ queued'[j] = items[k]
                  /\ j \in DOMAIN jobs' /\ jobs'[j] = Waiting(items[k], 0)
<1> DEFINE n == Len(queued)  m == Len(items)  q == queued'
<1>1. n \in Nat /\ m \in Nat /\ DOMAIN queued = 1 .. n /\ DOMAIN items = 1 .. m
  BY LenProperties DEF QueueShape
<1>2. q = queued \o items /\ queued \in Seq(Item)  BY DEF Enqueued, QueueShape
<1>3. /\ q \in Seq(Item) /\ Len(q) = n + m
      /\ \A i \in 1 .. n + m : q[i] = IF i <= n THEN queued[i] ELSE items[i - n]
  BY <1>2, ConcatProperties
<1>4. DOMAIN q = 1 .. n + m  BY <1>3, LenProperties
<1>5. /\ DOMAIN jobs' = DOMAIN jobs \cup (n + 1 .. n + m) /\ left' = left
      /\ \A j \in DOMAIN jobs' : jobs'[j] = IF j \in DOMAIN jobs THEN jobs[j]
                                            ELSE Waiting(items[j - n], 0)
  BY DEF Enqueued
<1> HIDE DEF n, m, q
<1>6. \A j \in 1 .. n : j \in 1 .. n + m /\ q[j] = queued[j]
  <2> SUFFICES ASSUME NEW j \in 1 .. n PROVE j \in 1 .. n + m /\ q[j] = queued[j]  OBVIOUS
  <2>1. j \in 1 .. n + m /\ j <= n  BY <1>1
  <2> QED  BY <2>1, <1>3
<1>7. \A k \in 1 .. m : n + k \in 1 .. n + m /\ q[n + k] = items[k] /\ n + k \in n + 1 .. n + m
  <2> SUFFICES ASSUME NEW k \in 1 .. m
               PROVE  n + k \in 1 .. n + m /\ q[n + k] = items[k] /\ n + k \in n + 1 .. n + m
    OBVIOUS
  <2>1. n + k \in 1 .. n + m /\ ~ n + k <= n /\ n + k - n = k /\ n + k \in n + 1 .. n + m  BY <1>1
  <2>2. PICK i \in 1 .. n + m : i = n + k /\ ~ i <= n /\ i - n = k  BY <1>1
  <2>3. q[i] = items[i - n]  BY <2>2, <1>3
  <2> QED  BY <2>1, <2>2, <2>3
<1>8. \A j \in n + 1 .. n + m : j - n \in 1 .. m /\ j = n + (j - n) /\ j \notin 1 .. n /\ j \in 1 .. n + m
  BY <1>1
<1>9. \A j \in DOMAIN jobs : j \in 1 .. n /\ jobs[j] \in Job /\ jobs[j].item = queued[j]
         /\ (jobs[j].holder = NoConsumer => jobs[j].lease = 0)
  BY <1>1 DEF QueueShape
<1>10. QueueGrows  BY <1>1, <1>4, <1>5, <1>6 DEF QueueGrows, q
<1>11. ASSUME NEW k \in 1 .. m PROVE
       /\ n + k \in DOMAIN jobs' /\ jobs'[n + k] = Waiting(items[k], 0)
       /\ Waiting(items[k], 0) \in Job /\ items[k] \in Item
  <2>1. n + k \notin DOMAIN jobs /\ n + k \in DOMAIN jobs' /\ n + k - n = k
    BY <1>1, <1>5, <1>7, <1>8, <1>9
  <2>2. items[k] \in Item /\ 0 \in 0 .. RetryDelay /\ 0 \in 0 .. Lease
    BY <1>1, PipelineAssumption
  <2>3. PICK i \in Nat : i = n + k /\ i \notin DOMAIN jobs /\ i \in DOMAIN jobs' /\ i - n = k
    BY <2>1, <1>1
  <2>6. jobs'[i] = Waiting(items[i - n], 0)  BY <2>3, <1>5
  <2>4. jobs'[n + k] = Waiting(items[k], 0)  BY <2>3, <2>6
  <2>5. Waiting(items[k], 0) \in Job  BY <2>2 DEF Waiting, Job
  <2> QED  BY <2>1, <2>2, <2>4, <2>5
<1>12. ASSUME NEW j \in DOMAIN jobs' PROVE
       /\ j \in DOMAIN q /\ jobs'[j] \in Job /\ jobs'[j].item = q[j]
       /\ jobs'[j].holder = NoConsumer => jobs'[j].lease = 0
  <2>1. CASE j \in DOMAIN jobs  BY <2>1, <1>4, <1>5, <1>6, <1>9
  <2>2. CASE j \notin DOMAIN jobs
    <3>1. j - n \in 1 .. m /\ j = n + (j - n)  BY <2>2, <1>5, <1>8
    <3>2. jobs'[j] = Waiting(items[j - n], 0) /\ jobs'[j] \in Job  BY <3>1, <1>11
    <3>3. q[j] = items[j - n] /\ j \in DOMAIN q  BY <3>1, <1>7, <1>4
    <3> QED  BY <3>2, <3>3 DEF Waiting
  <2> QED  BY <2>1, <2>2
<1>13. left' \subseteq DOMAIN q  BY <1>1, <1>4, <1>5, <1>6 DEF QueueShape
<1>14. QueueShape'  BY <1>3, <1>12, <1>13 DEF QueueShape, q
<1>15. \A j \in DOMAIN jobs' \ DOMAIN jobs : j \notin 1 .. n  BY <1>5, <1>8
<1> QED  BY <1>1, <1>3, <1>4, <1>5, <1>7, <1>10, <1>11, <1>14, <1>15 DEF n, m, q

LEMMA JobsFinite ==
  ASSUME QueueShape, NEW S \in SUBSET DOMAIN jobs
  PROVE  S \in SUBSET Nat /\ IsFiniteSet(S)
<1>1. DOMAIN queued = 1 .. Len(queued) /\ Len(queued) \in Nat  BY LenProperties DEF QueueShape
<1>2. S \subseteq 1 .. Len(queued)  BY <1>1 DEF QueueShape
<1>3. IsFiniteSet(1 .. Len(queued))  BY <1>1, FS_Interval
<1> QED  BY <1>1, <1>2, <1>3, FS_Subset

LEMMA HoldKeeps ==
  ASSUME QueueShape, NEW w \in Consumer, NEW S, Hold(w, S), UNCHANGED <<queued, left>>
  PROVE  QueueShape' /\ QueueGrows
<1>1. w # NoConsumer /\ Lease \in 0 .. Lease  BY PipelineAssumption
<1>2. ASSUME NEW j \in DOMAIN jobs' PROVE
        /\ j \in DOMAIN jobs /\ jobs'[j] \in Job /\ jobs'[j].item = jobs[j].item
        /\ jobs'[j].holder = NoConsumer => jobs'[j].lease = 0
  BY <1>1, <1>2 DEF Hold, Claimed, QueueShape, Job
<1> QED  BY <1>2, QueueSame DEF QueueShape

LEMMA RenewKeeps ==
  ASSUME QueueShape, NEW w \in Consumer, NEW S, UNCHANGED <<queued, left>>,
         jobs' = [j \in DOMAIN jobs |-> IF j \in S /\ jobs[j].holder = w
                                        THEN Renewed(jobs[j]) ELSE jobs[j]]
  PROVE  QueueShape' /\ QueueGrows
<1>1. w # NoConsumer /\ Lease \in 0 .. Lease  BY PipelineAssumption
<1>2. ASSUME NEW j \in DOMAIN jobs' PROVE
        /\ j \in DOMAIN jobs /\ jobs'[j] \in Job /\ jobs'[j].item = jobs[j].item
        /\ jobs'[j].holder = NoConsumer => jobs'[j].lease = 0
  BY <1>1, <1>2 DEF Renewed, QueueShape, Job
<1> QED  BY <1>2, QueueSame DEF QueueShape

LEMMA AckKeeps ==
  ASSUME QueueShape, NEW w \in Consumer, NEW S, UNCHANGED queued, AckJobs(w, S)
  PROVE  QueueShape' /\ QueueGrows
<1>1. \A j \in DOMAIN jobs' : j \in DOMAIN jobs /\ jobs'[j] = jobs[j]  BY DEF AckJobs
<1>2. left' \subseteq DOMAIN queued /\ left \subseteq left'  BY DEF AckJobs, QueueShape
<1>3. \A j \in DOMAIN jobs' : /\ jobs'[j] \in Job /\ jobs'[j].item = jobs[j].item
                              /\ jobs'[j].holder = NoConsumer => jobs'[j].lease = 0
  BY <1>1 DEF QueueShape
<1> QED  BY <1>1, <1>2, <1>3, QueueSame

LEMMA RetryKeeps ==
  ASSUME QueueShape, NEW w \in Consumer, NEW S, UNCHANGED queued, RetryJobs(w, S)
  PROVE  QueueShape' /\ QueueGrows
<1>1. 0 \in 0 .. Lease /\ RetryDelay \in 0 .. RetryDelay  BY PipelineAssumption
<1>2. ASSUME NEW j \in DOMAIN jobs' PROVE
        /\ j \in DOMAIN jobs /\ jobs'[j] \in Job /\ jobs'[j].item = jobs[j].item
        /\ jobs'[j].holder = NoConsumer => jobs'[j].lease = 0
  BY <1>1, <1>2 DEF RetryJobs, PutBack, QueueShape, Job
<1> QED  BY <1>2, QueueSame DEF QueueShape, RetryJobs

LEMMA AgeKeeps ==
  ASSUME QueueShape, Age, UNCHANGED <<queued, left>>
  PROVE  QueueShape' /\ QueueGrows
<1>1. \A n \in 0 .. Lease : Less(n) \in 0 .. Lease  BY PipelineAssumption DEF Less
<1>2. \A n \in 0 .. RetryDelay : Less(n) \in 0 .. RetryDelay  BY PipelineAssumption DEF Less
<1>3. ASSUME NEW j \in DOMAIN jobs' PROVE
        /\ j \in DOMAIN jobs /\ jobs'[j] \in Job /\ jobs'[j].item = jobs[j].item
        /\ jobs'[j].holder = NoConsumer => jobs'[j].lease = 0
  <2>1. j \in DOMAIN jobs /\ jobs'[j] = Older(jobs[j]) /\ jobs[j] \in Job
        /\ (jobs[j].holder = NoConsumer => jobs[j].lease = 0)
    BY <1>3 DEF Age, QueueShape
  <2>2. /\ Older(jobs[j]) \in Job /\ Older(jobs[j]).item = jobs[j].item
        /\ Older(jobs[j]).holder = jobs[j].holder /\ Older(jobs[j]).lease = Less(jobs[j].lease)
    BY <2>1, <1>1, <1>2 DEF Older, Job
  <2>3. Less(0) = 0  BY DEF Less
  <2> QED  BY <2>1, <2>2, <2>3
<1> QED  BY <1>3, QueueSame DEF QueueShape

LEMMA GrantOf ==
  ASSUME QueueShape, NEW w \in Consumer, NEW n, Grant(Mine(w), n) # {}
  PROVE  LET b == InOrder(Grant(Mine(w), n))
         IN  /\ b \in Seq(Nat) /\ b # <<>>
             /\ \A k \in DOMAIN b : b[k] \in Grant(Mine(w), n)
             /\ \A j \in Grant(Mine(w), n) :
                  /\ j \in DOMAIN jobs /\ j \in DOMAIN queued /\ Claimable(jobs[j])
                  /\ jobs[j].item.to = scene.crew[w] /\ queued[j].to = scene.crew[w]
<1> DEFINE G == Grant(Mine(w), n)  b == InOrder(G)
<1>1. G \in SUBSET DOMAIN jobs
      /\ \A j \in G : Claimable(jobs[j]) /\ jobs[j].item.to = scene.crew[w]
  BY DEF Grant, Mine
<1>2. G \in SUBSET Nat /\ IsFiniteSet(G)  BY <1>1, JobsFinite
<1> HIDE DEF G
<1>3. b \in [1 .. Cardinality(G) -> G] /\ b \in Seq(G) /\ (b = <<>> <=> G = {})  BY <1>2, OrderOf
<1>4. b \in Seq(Nat)  BY <1>2, <1>3, SeqMonotonic
<1>5. \A k \in DOMAIN b : b[k] \in G  BY <1>3
<1>6. \A j \in G : j \in DOMAIN queued /\ queued[j].to = scene.crew[w]
  BY <1>1 DEF QueueShape
<1> HIDE DEF b
<1> QED  BY <1>1, <1>3, <1>4, <1>5, <1>6 DEF G, b

LEMMA ClaimShape ==
  ASSUME QueueShape, WorkShape, NEW w \in Consumer, ClaimBatch(w)
  PROVE  QueueShape' /\ QueueGrows /\ WorkShape'
<1> DEFINE G == Grant(Mine(w), scene.claim)  r == [Resting EXCEPT !.pc = "turn", !.batch = InOrder(G)]
<1>1. /\ G # {} /\ Hold(w, G) /\ UNCHANGED <<queued, left, scene>>
      /\ \/ work' = [work EXCEPT ![w] = r] /\ faults' = faults
         \/ Fail /\ UNCHANGED work
  BY DEF ClaimBatch, Claim
<1>2. QueueShape' /\ QueueGrows  BY <1>1, HoldKeeps
<1>3. faults' \in Int  BY <1>1 DEF Fail, WorkShape
<1>4. CASE UNCHANGED work  BY <1>1, <1>2, <1>3, <1>4, NoWorker
<1>5. CASE work' = [work EXCEPT ![w] = r]
  <2>1. RecOK(r, scene.crew[w], queued)
    <3>1. InOrder(G) \in Seq(Nat) /\ InOrder(G) # <<>>
          /\ \A k \in DOMAIN InOrder(G) : InOrder(G)[k] \in DOMAIN queued
                                          /\ queued[InOrder(G)[k]].to = scene.crew[w]
      BY <1>1, GrantOf
    <3> HIDE DEF G
    <3> QED  BY <3>1, CrewOf, TurnOK
  <2> HIDE DEF r
  <2>2. RecOK(r, scene.crew[w], queued')  BY <1>1, <2>1
  <2> QED  BY <1>1, <1>2, <1>3, <1>5, <2>2, OneWorker
<1> QED  BY <1>1, <1>2, <1>4, <1>5

LEMMA StartShape ==
  ASSUME QueueShape, WorkShape, NEW w \in Consumer, NEW p, Start(w, p), UNCHANGED scene,
         p = IF scene.crew[w] = "projector" THEN "open"
             ELSE IF scene.crew[w] = "indexer" THEN "load" ELSE "ask"
  PROVE  QueueShape' /\ QueueGrows /\ WorkShape'
<1>1. UNCHANGED <<jobs, queued, left, faults>> /\ work[w].pc = "turn"
  BY DEF Start, queueVars
<1>2. QueueShape' /\ QueueGrows  BY <1>1 DEF QueueShape, QueueGrows
<1> DEFINE late == ~(/\ InHand(w) \in DOMAIN jobs /\ jobs[InHand(w)].holder = w
                     /\ jobs[InHand(w)].lease > Interval)
           r == [Resting EXCEPT !.pc = p, !.batch = work[w].batch, !.late = late]
<1>3. work' = [work EXCEPT ![w] = r]  BY DEF Start
<1>4. late \in BOOLEAN  OBVIOUS
<1> HIDE DEF late
<1>5. RecOK(work[w], scene.crew[w], queued)  BY DEF WorkShape
<1>6. 0 \in 0 .. Interval  BY PipelineAssumption
<1>7. work[w].batch # <<>> /\ work[w].batch \in Seq(Nat)  BY <1>1, <1>5 DEF RecOK, WorkRec
<1>8. p \in {"open", "load", "ask"} /\ p \in PcsOf(scene.crew[w])  BY CrewOf DEF PcsOf
<1>10. {} \in SUBSET IF scene.crew[w] = "indexer" THEN Prep ELSE Nat  OBVIOUS
<1>11. RecOK(r, scene.crew[w], queued)
  BY <1>4, <1>5, <1>6, <1>7, <1>8, <1>10 DEF RecOK, WorkRec, Resting
<1> HIDE DEF r
<1>12. RecOK(r, scene.crew[w], queued')  BY <1>1, <1>11
<1>13. faults' \in Int  BY <1>1 DEF WorkShape
<1> QED  BY <1>2, <1>3, <1>12, <1>13, OneWorker

LEMMA BeatOK ==
  ASSUME NEW c, NEW q, NEW r, RecOK(r, c, q), NEW n \in 0 .. Interval
  PROVE  RecOK([r EXCEPT !.beat = n], c, q)
BY DEF RecOK, WorkRec

\* The heartbeats of the job in hand, and of all the jobs of an indexer's batch.
LEMMA BeatShape ==
  ASSUME QueueShape, WorkShape, NEW w \in Consumer, HeartbeatJob(w) \/ HeartbeatBatch(w)
  PROVE  QueueShape' /\ QueueGrows /\ WorkShape'
<1> DEFINE S == IF HeartbeatJob(w) THEN {InHand(w)} ELSE InBatch(w)
           r == [work[w] EXCEPT !.beat = 0]
<1>1. /\ UNCHANGED <<queued, left, scene>> /\ work' = [work EXCEPT ![w] = r]
      /\ UNCHANGED jobs \/ jobs' = [j \in DOMAIN jobs |-> IF j \in S /\ jobs[j].holder = w
                                                  THEN Renewed(jobs[j]) ELSE jobs[j]]
      /\ faults' = faults \/ Fail
  BY DEF HeartbeatJob, HeartbeatBatch, Beat, otherVars
<1> HIDE DEF S
<1>2. QueueShape' /\ QueueGrows
  <2>1. CASE UNCHANGED jobs  BY <1>1, <2>1 DEF QueueShape, QueueGrows
  <2> QED  BY <1>1, <2>1, RenewKeeps
<1>3. faults' \in Int  BY <1>1 DEF Fail, WorkShape
<1>4. RecOK(work[w], scene.crew[w], queued) /\ 0 \in 0 .. Interval
  BY PipelineAssumption DEF WorkShape
<1>5. RecOK(r, scene.crew[w], queued')  BY <1>1, <1>4, BeatOK
<1> QED  BY <1>1, <1>2, <1>3, <1>5, OneWorker

LEMMA NextRoundOK ==
  ASSUME QueueShape, WorkShape, NEW w \in Consumer, work[w].pc # "rest"
  PROVE  RecOK(IF Tail(work[w].batch) = <<>> THEN Resting
               ELSE [Resting EXCEPT !.pc = "turn", !.batch = Tail(work[w].batch)],
               scene.crew[w], queued)
<1> DEFINE b == work[w].batch  t == Tail(b)  c == scene.crew[w]
<1>1. b \in Seq(Nat) /\ b # <<>>  BY HandFacts
<1>2. /\ t \in Seq(Nat) /\ Len(t) = Len(b) - 1 /\ Len(b) \in Nat /\ Len(t) \in Nat
      /\ \A k \in 1 .. Len(t) : t[k] = b[k + 1]
      /\ DOMAIN t = 1 .. Len(t) /\ DOMAIN b = 1 .. Len(b)
  BY <1>1, HeadTailProperties, LenProperties
<1>3. \A k \in DOMAIN b : b[k] \in DOMAIN queued /\ queued[b[k]].to = c
  BY DEF WorkShape, RecOK
<1>4. c \in {"projector", "webhook", "indexer"}  BY CrewOf
<1> HIDE DEF b, t, c
<1>5. \A k \in DOMAIN t : t[k] \in DOMAIN queued /\ queued[t[k]].to = c
  <2> SUFFICES ASSUME NEW k \in DOMAIN t PROVE t[k] \in DOMAIN queued /\ queued[t[k]].to = c
    OBVIOUS
  <2>1. k + 1 \in DOMAIN b /\ t[k] = b[k + 1]  BY <1>2
  <2> QED  BY <2>1, <1>3
<1>6. CASE t = <<>>
  <2>1. RecOK(Resting, c, queued)  BY <1>4, RestingOK
  <2> QED  BY <1>6, <2>1 DEF t, b, c
<1>7. CASE t # <<>>
  <2>1. RecOK([Resting EXCEPT !.pc = "turn", !.batch = t], c, queued)
    BY <1>2, <1>4, <1>5, <1>7, TurnOK
  <2> QED  BY <1>7, <2>1 DEF t, b, c
<1> QED  BY <1>6, <1>7

LEMMA EndShape ==
  ASSUME QueueShape, WorkShape, NEW w \in Consumer, EndJob(w)
  PROVE  QueueShape' /\ QueueGrows /\ WorkShape'
<1> DEFINE S == {InHand(w)}
           n == IF Tail(work[w].batch) = <<>> THEN Resting
                ELSE [Resting EXCEPT !.pc = "turn", !.batch = Tail(work[w].batch)]
<1>1. /\ work[w].pc # "rest" /\ UNCHANGED <<queued, scene>>
      /\ AckJobs(w, S) \/ RetryJobs(w, S) \/ UNCHANGED <<jobs, left>>
      /\ faults' = faults \/ Fail
      /\ work' = [work EXCEPT ![w] = n] \/ work' = [work EXCEPT ![w] = Resting]
  BY DEF EndJob, Settle, NextRound
<1> HIDE DEF S
<1>2. QueueShape' /\ QueueGrows
  <2>1. CASE UNCHANGED <<jobs, left>>  BY <1>1, <2>1 DEF QueueShape, QueueGrows
  <2> QED  BY <1>1, <2>1, AckKeeps, RetryKeeps
<1>3. faults' \in Int  BY <1>1 DEF Fail, WorkShape
<1>4. RecOK(n, scene.crew[w], queued')  BY <1>1, NextRoundOK
<1>5. RecOK(Resting, scene.crew[w], queued')  BY CrewOf, RestingOK
<1> HIDE DEF n
<1> QED  BY <1>1, <1>2, <1>3, <1>4, <1>5, OneWorker

LEMMA CrashShape ==
  ASSUME QueueShape, WorkShape, NEW w \in Consumer, CrashWorker(w)
  PROVE  QueueShape' /\ QueueGrows /\ WorkShape'
<1>1. /\ UNCHANGED <<jobs, queued, left, scene>> /\ Fail
      /\ work' = [work EXCEPT ![w] = Resting]
  BY DEF CrashWorker, Crash, queueVars
<1>2. QueueShape' /\ QueueGrows  BY <1>1 DEF QueueShape, QueueGrows
<1>3. faults' \in Int  BY <1>1 DEF Fail, WorkShape
<1>4. RecOK(Resting, scene.crew[w], queued')  BY CrewOf, RestingOK
<1> QED  BY <1>1, <1>2, <1>3, <1>4, OneWorker

LEMMA TickShape ==
  ASSUME QueueShape, WorkShape, TickAll
  PROVE  QueueShape' /\ QueueGrows /\ WorkShape'
<1>1. /\ UNCHANGED <<queued, left, scene, faults>> /\ Age
      /\ \A w \in Consumer : Handling(w) => work[w].beat < Interval
      /\ work' = [w \in Consumer |-> IF Handling(w) THEN [work[w] EXCEPT !.beat = @ + 1] ELSE work[w]]
  BY DEF TickAll, Tick
<1>2. QueueShape' /\ QueueGrows  BY <1>1, AgeKeeps
<1>3. ASSUME NEW w \in Consumer PROVE RecOK(work'[w], scene.crew[w], queued)
  <2>1. RecOK(work[w], scene.crew[w], queued)  BY DEF WorkShape
  <2>2. CASE ~Handling(w)  BY <1>1, <2>1, <2>2
  <2>3. CASE Handling(w)
    <3>1. work[w].beat + 1 \in 0 .. Interval
      BY <1>1, <2>1, <2>3, PipelineAssumption DEF RecOK, WorkRec
    <3>2. work'[w] = [work[w] EXCEPT !.beat = work[w].beat + 1]  BY <1>1, <2>3
    <3> QED  BY <2>1, <3>1, <3>2, BeatOK
  <2> QED  BY <2>2, <2>3
<1>4. DOMAIN work' = Consumer /\ work' = [w \in Consumer |-> work'[w]]  BY <1>1
<1> QED  BY <1>1, <1>2, <1>3, <1>4 DEF WorkShape

LEMMA StepShape ==
  ASSUME QueueShape, WorkShape, NEW w \in Consumer, NEW p,
         work[w].pc # "rest", p \in PcsOf(scene.crew[w]) \ {"rest", "turn", "open", "ask"},
         Step(w, p), UNCHANGED <<queueVars, scene>>, faults' = faults \/ Fail
  PROVE  QueueShape' /\ QueueGrows /\ WorkShape'
<1> DEFINE r == [work[w] EXCEPT !.pc = p]
<1>1. work' = [work EXCEPT ![w] = r] /\ UNCHANGED <<jobs, queued, left>>
  BY DEF Step, queueVars
<1>2. QueueShape' /\ QueueGrows  BY <1>1 DEF QueueShape, QueueGrows
<1>3. faults' \in Int  BY DEF Fail, WorkShape
<1>4. RecOK(r, scene.crew[w], queued')  BY <1>1, StepOK DEF WorkShape
<1> QED  BY <1>1, <1>2, <1>3, <1>4, OneWorker

LEMMA PcCrew ==
  ASSUME WorkShape, NEW w \in Consumer
  PROVE  /\ work[w].pc \in {"open", "written"} => scene.crew[w] = "projector"
         /\ work[w].pc \in {"ask", "post"} => scene.crew[w] = "webhook"
         /\ work[w].pc \in {"load", "retry"} => scene.crew[w] = "indexer"
         /\ work[w].pc \in {"done", "failed"} => scene.crew[w] # "indexer"
         /\ work[w].got \subseteq (IF scene.crew[w] = "indexer" THEN Prep ELSE Nat)
         /\ work[w].pc \in {"rest", "turn", "open", "ask"} => work[w].got = {}
<1>1. RecOK(work[w], scene.crew[w], queued)  BY DEF WorkShape
<1>2. scene.crew[w] \in {"projector", "webhook", "indexer"}  BY CrewOf
<1> QED  BY <1>1, <1>2 DEF RecOK, PcsOf, WorkRec

LEMMA ProjectorHand ==
  ASSUME QueueShape, WorkShape, NEW w \in Consumer, work[w].pc \in {"open", "written"}
  PROVE  /\ Doing(w).event \in Event /\ Doing(w) = Project(Doing(w).event)
         /\ scene.crew[w] = "projector" /\ Doing(w).to = "projector"
<1>1. scene.crew[w] = "projector"  BY PcCrew
<1>2. Doing(w) \in Item /\ Doing(w).to = "projector"  BY <1>1, HandFacts
<1> QED  BY <1>1, <1>2, ItemKinds

\* The variables of the tables, the producer and the index that no step changes.
Tables0 == <<tableVars, subVars, producerVars, version, index>>

LEMMA RestShape ==
  ASSUME TableShape, RoundShape, QueueGrows, UNCHANGED Tables0
  PROVE  TableShape' /\ RoundShape'
<1>1. UNCHANGED <<external, drawn, failures, disorder, enabled, everOff, checkpoint, round>>
  BY DEF Tables0, tableVars, subVars, producerVars
<1> QED  BY <1>1 DEF TableShape, RoundShape, Post_

LEMMA InsertShape ==
  ASSUME Shape, NEW w \in Consumer, InsertExternalEvent(w)
  PROVE  QueueShape' /\ QueueGrows /\ WorkShape' /\ TableShape' /\ RoundShape'
<1> DEFINE got == IF RowsOf(Doing(w).event) # {} THEN RowsOf(Doing(w).event) ELSE {drawn + 1}
           r == [work[w] EXCEPT !.pc = "written", !.got = got]
<1>1. /\ work[w].pc = "open" /\ UNCHANGED <<jobs, queued, left, scene, faults, external, failures,
                       disorder, enabled, switches, everOff, checkpoint, round>>
      /\ work' = [work EXCEPT ![w] = r] /\ (drawn' = drawn \/ drawn' = drawn + 1)
  BY DEF InsertExternalEvent, queueVars, subVars, producerVars
<1>2. got \in SUBSET Nat  BY DEF RowsOf, Shape, TableShape
<1> HIDE DEF got
<1>3. QueueShape' /\ QueueGrows  BY <1>1 DEF QueueShape, QueueGrows, Shape
<1>4. scene.crew[w] = "projector" /\ RecOK(work[w], scene.crew[w], queued)
  BY <1>1, PcCrew DEF Shape, WorkShape
<1>5. RecOK(r, scene.crew[w], queued)  BY <1>1, <1>2, <1>4 DEF RecOK, WorkRec, PcsOf
<1> HIDE DEF r
<1>6. WorkShape'
  <2>1. RecOK(r, scene.crew[w], queued') /\ faults' \in Int  BY <1>1, <1>5 DEF Shape, WorkShape
  <2> QED  BY <1>1, <1>3, <2>1, OneWorker DEF Shape
<1>7. TableShape'
  <2>1. drawn' \in Nat /\ drawn <= drawn' /\ drawn \in Nat  BY <1>1 DEF Shape, TableShape
  <2>2. DOMAIN external \subseteq 1 .. drawn'  BY <2>1 DEF Shape, TableShape
  <2> QED  BY <1>1, <2>1, <2>2 DEF Shape, TableShape, Post_
<1>8. RoundShape'  BY <1>1 DEF Shape, RoundShape
<1> QED  BY <1>3, <1>6, <1>7, <1>8

\* What a commit does to the tables.
LEMMA CommitTables ==
  ASSUME Shape, NEW w \in Consumer, Commit(w), work[w].got \subseteq 1 .. drawn
  PROVE  LET e == Doing(w).event
         IN  /\ e \in Event /\ work[w].pc = "written"
             /\ DOMAIN external' = DOMAIN external \cup work[w].got
             /\ \A i \in DOMAIN external' : external'[i] =
                  IF i \in work[w].got THEN [event |-> e, feeds |-> FeedsOf(e)] ELSE external[i]
             /\ failures' = IF KindOf[e] = "malformed" THEN failures \cup {e} ELSE failures
             /\ disorder' = disorder \cup
                  {i \in work[w].got \ DOMAIN external : \E k \in DOMAIN external : k > i}
             /\ TableShape' /\ RoundShape'
<1> DEFINE e == Doing(w).event
<1>1. work[w].pc = "written" /\ UNCHANGED <<drawn, enabled, everOff, checkpoint, round>>
      /\ failures' = (IF KindOf[e] = "malformed" THEN failures \cup {e} ELSE failures)
      /\ disorder' = disorder \cup
                  {i \in work[w].got \ DOMAIN external : \E k \in DOMAIN external : k > i}
  BY DEF Commit, subVars, producerVars
<1>2. e \in Event  BY <1>1, ProjectorHand DEF Shape
<1>3. /\ DOMAIN external' = DOMAIN external \cup work[w].got
      /\ \A i \in DOMAIN external' : external'[i] =
           IF i \in work[w].got THEN [event |-> e, feeds |-> FeedsOf(e)] ELSE external[i]
  BY DEF Commit
<1>4. [event |-> e, feeds |-> FeedsOf(e)] \in Post_  BY <1>2 DEF FeedsOf, Post_
<1> HIDE DEF e
<1>5. TableShape'  BY <1>1, <1>2, <1>3, <1>4 DEF Shape, TableShape, Post_
<1>6. RoundShape'  BY <1>1, <1>3 DEF Shape, RoundShape
<1> QED  BY <1>1, <1>2, <1>3, <1>5, <1>6 DEF e

LEMMA QueueKept ==
  ASSUME QueueShape, WorkShape, UNCHANGED <<queueVars, scene, work>>, faults' = faults \/ Fail
  PROVE  QueueShape' /\ QueueGrows /\ WorkShape'
<1>1. UNCHANGED <<jobs, queued, left>>  BY DEF queueVars
<1>2. QueueShape' /\ QueueGrows  BY <1>1 DEF QueueShape, QueueGrows
<1>3. faults' \in Int  BY DEF Fail, WorkShape
<1> QED  BY <1>2, <1>3, NoWorker

\* The page of a round: the first BatchSize rows after the checkpoint.
Rows == {i \in DOMAIN external : i > checkpoint}
Page == {i \in Rows : Cardinality({k \in Rows : k < i}) < BatchSize}

LEMMA PageOf ==
  ASSUME TableShape, RoundShape
  PROVE  /\ Page \in SUBSET Nat /\ IsFiniteSet(Page) /\ Page \subseteq Rows
         /\ \A i \in Page : \A k \in Rows : k < i => k \in Page
<1>1. DOMAIN external \subseteq 1 .. drawn /\ drawn \in Nat  BY DEF TableShape
<1>2. IsFiniteSet(1 .. drawn)  BY <1>1, FS_Interval
<1>3. Rows \subseteq 1 .. drawn /\ Page \subseteq Rows  BY <1>1 DEF Rows, Page
<1>4. IsFiniteSet(Rows) /\ IsFiniteSet(Page)  BY <1>2, <1>3, FS_Subset
<1>5. ASSUME NEW i \in Page, NEW k \in Rows, k < i PROVE k \in Page
  <2> DEFINE I == {m \in Rows : m < i}  K == {m \in Rows : m < k}
  <2>1. i \in Nat /\ k \in Nat /\ \A m \in Rows : m \in Nat  BY <1>1, <1>3, <1>5
  <2>2. \A m \in Rows : m < k => m < i  BY <2>1, <1>5
  <2>3. K \subseteq I /\ I \subseteq Rows  BY <2>2
  <2>4. Cardinality(I) < BatchSize  BY <1>5 DEF Page
  <2> HIDE DEF I, K
  <2>5. IsFiniteSet(I) /\ IsFiniteSet(K)  BY <2>3, <1>4, FS_Subset
  <2>6. Cardinality(K) <= Cardinality(I)  BY <2>3, <2>5, FS_Subset
  <2>7. Cardinality(K) \in Nat /\ Cardinality(I) \in Nat  BY <2>5, FS_CardinalityType
  <2>8. Cardinality(K) < BatchSize  BY <2>4, <2>6, <2>7, PipelineAssumption
  <2> QED  BY <2>8 DEF Page, K
<1>6. Page \in SUBSET Nat  BY <1>1, <1>3
<1> QED  BY <1>3, <1>4, <1>5, <1>6

LEMMA ListShape ==
  ASSUME Shape, ListEvents
  PROVE  /\ QueueShape' /\ QueueGrows /\ WorkShape' /\ TableShape' /\ RoundShape'
         /\ UNCHANGED <<queued, external, disorder, everOff, checkpoint>>
         /\ round' = [pc |-> "match", todo |-> InOrder(Page), items |-> <<>>, last |-> checkpoint]
         /\ Page # {} /\ round.pc = "idle"
<1>1. /\ UNCHANGED <<queueVars, work, scene, external, drawn, failures, disorder, enabled,
                     everOff, checkpoint, faults>>
      /\ Page # {} /\ round.pc = "idle"
      /\ round' = [Idle EXCEPT !.pc = "match", !.todo = InOrder(Page), !.last = checkpoint]
  BY DEF ListEvents, Rows, Page, tableVars, subVars
<1>2. round' = [pc |-> "match", todo |-> InOrder(Page), items |-> <<>>, last |-> checkpoint]
  BY <1>1 DEF Idle
<1>3. QueueShape' /\ QueueGrows /\ WorkShape'
  BY <1>1, QueueKept DEF Shape
<1>4. TableShape'  BY <1>1 DEF Shape, TableShape, Post_
<1>5. /\ Page \in SUBSET Nat /\ IsFiniteSet(Page) /\ Page \subseteq Rows  BY PageOf DEF Shape
<1>6. /\ InOrder(Page) \in Seq(Page) /\ InOrder(Page) # <<>>
      /\ \A k \in DOMAIN InOrder(Page) : InOrder(Page)[k] \in Page
  BY <1>1, <1>5, OrderOf
<1>7. InOrder(Page) \in Seq(Nat)  BY <1>5, <1>6, SeqMonotonic
<1>8. \A k \in DOMAIN InOrder(Page) : InOrder(Page)[k] \in DOMAIN external
  BY <1>5, <1>6 DEF Rows
<1>9. checkpoint \in {0} \cup DOMAIN external /\ checkpoint \in Nat
  BY DEF Shape, RoundShape, TableShape
<1>10. <<>> \in Seq(Item)  OBVIOUS
<1>11. RoundShape'
  <2> DEFINE o == InOrder(Page)
  <2>1. round' = [pc |-> "match", todo |-> o, items |-> <<>>, last |-> checkpoint]
        /\ o # <<>> /\ o \in Seq(Nat) /\ \A k \in DOMAIN o : o[k] \in DOMAIN external
    BY <1>2, <1>6, <1>7, <1>8
  <2> HIDE DEF o
  <2>2. round' \in [pc : {"idle", "match", "enqueue", "save"}, todo : Seq(Nat),
                    items : Seq(Item), last : Nat]
    BY <2>1, <1>9, <1>10
  <2> QED  BY <2>1, <2>2, <1>1, <1>9 DEF RoundShape
<1>12. UNCHANGED queued  BY <1>1 DEF queueVars
<1> QED  BY <1>1, <1>2, <1>3, <1>4, <1>11, <1>12

LEMMA SeqOfSet ==
  ASSUME NEW S, IsFiniteSet(S)
  PROVE  /\ SetToSeq(S) \in Seq(S)
         /\ \A x \in S : \E k \in DOMAIN SetToSeq(S) : SetToSeq(S)[k] = x
<1> DEFINE n == Cardinality(S)  s == SetToSeq(S)
<1>1. n \in Nat /\ ExistsBijection(1 .. n, S)  BY FS_CardinalityType
<1>2. \E f \in [1 .. n -> S] : IsInjective(f)
  BY <1>1 DEF ExistsBijection, Bijection, Injection
<1>3. s \in [1 .. n -> S] /\ IsInjective(s)  BY <1>2 DEF SetToSeq
<1>4. s \in Injection(1 .. n, S)  BY <1>3 DEF Injection
<1> HIDE DEF s, n
<1>5. Cardinality(1 .. n) = n
  <2>1. Cardinality(1 .. n) = IF 1 > n THEN 0 ELSE n - 1 + 1  BY <1>1, FS_Interval
  <2> QED  BY <1>1, <2>1
<1>6. Cardinality(1 .. n) = Cardinality(S)  BY <1>5 DEF n
<1>7. s \in Surjection(1 .. n, S)  BY <1>4, <1>6, FS_Injection
<1>8. s \in Seq(S)  BY <1>1, <1>3
<1>9. \A x \in S : \E k \in DOMAIN s : s[k] = x  BY <1>3, <1>7 DEF Surjection
<1> QED  BY <1>8, <1>9 DEF s

Matched(i) == {Deliver(s, external[i].event) :
                 s \in {t \in Sub : Matches(t, external[i].event)}}

LEMMA MatchShape ==
  ASSUME Shape, MatchNext
  PROVE  LET t == round.todo
             i == t[1]
             its == round'.items
         IN  /\ QueueShape' /\ QueueGrows /\ WorkShape' /\ TableShape' /\ RoundShape'
             /\ UNCHANGED <<queued, external, disorder, everOff, checkpoint>>
             /\ round.pc = "match" /\ t # <<>> /\ t \in Seq(Nat) /\ Len(t) \in Nat \ {0}
             /\ round'.last = i /\ i \in DOMAIN external
             /\ round'.todo = Tail(t)
             /\ round'.pc = IF Len(t) > 1 THEN "match" ELSE IF its = <<>> THEN "save" ELSE "enqueue"
             /\ \A k \in DOMAIN round.items : \E m \in DOMAIN its : its[m] = round.items[k]
             /\ \A x \in Matched(i) : \E m \in DOMAIN its : its[m] = x
<1> DEFINE t == round.todo  i == Head(t)  M == Matched(i)  its == round.items \o SetToSeq(M)
<1>1. /\ UNCHANGED <<queueVars, work, scene, external, drawn, failures, disorder, enabled,
                     everOff, checkpoint, faults>>
      /\ round.pc = "match"
      /\ round' = [pc |-> IF Len(t) > 1 THEN "match" ELSE IF its = <<>> THEN "save" ELSE "enqueue",
                   todo |-> Tail(t), items |-> its, last |-> i]
  BY DEF MatchNext, Matched, tableVars, subVars
<1>2. QueueShape' /\ QueueGrows /\ WorkShape' /\ UNCHANGED queued
  BY <1>1, QueueKept DEF Shape, queueVars
<1>3. TableShape'  BY <1>1 DEF Shape, TableShape, Post_
<1>4. t # <<>> /\ t \in Seq(Nat)  BY <1>1 DEF Shape, RoundShape
<1>5. Len(t) \in Nat \ {0} /\ DOMAIN t = 1 .. Len(t) /\ i = t[1] /\ 1 \in DOMAIN t
  BY <1>4, EmptySeq, LenProperties
<1>6. i \in DOMAIN external /\ i \in Nat  BY <1>5 DEF Shape, RoundShape, TableShape
<1>7. /\ Tail(t) \in Seq(Nat) /\ Len(Tail(t)) = Len(t) - 1
      /\ DOMAIN Tail(t) = 1 .. Len(Tail(t))
      /\ \A k \in 1 .. Len(Tail(t)) : Tail(t)[k] = t[k + 1]
  BY <1>4, HeadTailProperties, LenProperties
<1>8. \A k \in DOMAIN Tail(t) : Tail(t)[k] \in DOMAIN external
  <2> SUFFICES ASSUME NEW k \in DOMAIN Tail(t) PROVE Tail(t)[k] \in DOMAIN external  OBVIOUS
  <2>1. k + 1 \in DOMAIN t /\ Tail(t)[k] = t[k + 1]  BY <1>5, <1>7
  <2> QED  BY <2>1 DEF Shape, RoundShape
<1>9. Tail(t) # <<>> <=> Len(t) > 1
  <2> HIDE DEF t
  <2>1. Tail(t) # <<>> <=> Len(Tail(t)) # 0  BY <1>7, EmptySeq
  <2>2. Len(t) - 1 # 0 <=> Len(t) > 1  BY <1>5
  <2> QED  BY <2>1, <2>2, <1>7
<1>10. IsFiniteSet(M) /\ M \subseteq Item
  <2>1. external[i].event \in Event  BY <1>6 DEF Shape, TableShape, Post_
  <2>2. M \subseteq Item  BY <2>1 DEF Matched, Item
  <2> DEFINE T == {s \in Sub : Matches(s, external[i].event)}
  <2>3. IsFiniteSet(T)  BY PipelineAssumption, FS_Subset
  <2> DEFINE f == [s \in T |-> Deliver(s, external[i].event)]
  <2>4. f \in Surjection(T, M)  BY DEF Matched, Surjection
  <2> HIDE DEF T, M, f
  <2>5. IsFiniteSet(M)  BY <2>3, <2>4, FS_Surjection
  <2> QED  BY <2>2, <2>5
<1> HIDE DEF M
<1>11. SetToSeq(M) \in Seq(Item) /\ \A x \in M : \E k \in DOMAIN SetToSeq(M) : SetToSeq(M)[k] = x
  BY <1>10, SeqOfSet, SeqMonotonic
<1>12. round.items \in Seq(Item)  BY DEF Shape, RoundShape
<1> DEFINE a == round.items  b == SetToSeq(M)
<1>13. /\ its \in Seq(Item) /\ Len(its) = Len(a) + Len(b) /\ DOMAIN its = 1 .. Len(its)
       /\ \A k \in 1 .. Len(a) + Len(b) : its[k] = IF k <= Len(a) THEN a[k] ELSE b[k - Len(a)]
       /\ Len(a) \in Nat /\ Len(b) \in Nat /\ DOMAIN a = 1 .. Len(a) /\ DOMAIN b = 1 .. Len(b)
  BY <1>11, <1>12, ConcatProperties, LenProperties
<1> HIDE DEF its, a, b, t, i
<1>14. \A k \in DOMAIN a : \E m \in DOMAIN its : its[m] = a[k]
  <2> SUFFICES ASSUME NEW k \in DOMAIN a PROVE \E m \in DOMAIN its : its[m] = a[k]  OBVIOUS
  <2>1. k \in 1 .. Len(a) + Len(b) /\ k <= Len(a)  BY <1>13
  <2> QED  BY <2>1, <1>13
<1>15. \A k \in DOMAIN b : \E m \in DOMAIN its : its[m] = b[k]
  <2> SUFFICES ASSUME NEW k \in DOMAIN b PROVE \E m \in DOMAIN its : its[m] = b[k]  OBVIOUS
  <2>1. PICK m \in 1 .. Len(a) + Len(b) : ~ m <= Len(a) /\ m - Len(a) = k  BY <1>13
  <2> QED  BY <2>1, <1>13
<1>16. \A x \in M : \E m \in DOMAIN its : its[m] = x  BY <1>11, <1>15 DEF b
<1>17. round' \in [pc : {"idle", "match", "enqueue", "save"}, todo : Seq(Nat),
                   items : Seq(Item), last : Nat]
       /\ round'.last = i /\ round'.todo = Tail(t) /\ round'.items = its
       /\ round'.pc = IF Len(t) > 1 THEN "match" ELSE IF its = <<>> THEN "save" ELSE "enqueue"
  BY <1>1, <1>6, <1>7, <1>13
<1>18. RoundShape'
  <2>1. checkpoint' \in {0} \cup DOMAIN external'  BY <1>1 DEF Shape, RoundShape
  <2> QED  BY <2>1, <1>1, <1>6, <1>8, <1>9, <1>17 DEF RoundShape
<1>19. /\ UNCHANGED <<queued, external, disorder, everOff, checkpoint>>  BY <1>1, <1>2
<1> QED
  BY <1>1, <1>2, <1>3, <1>4, <1>5, <1>6, <1>14, <1>16, <1>17, <1>18, <1>19 DEF t, i, a, M

LEMMA IdleOK ==
  ASSUME TableShape, RoundShape, checkpoint' \in {0} \cup DOMAIN external, UNCHANGED external, round' = Idle
  PROVE  RoundShape'
BY DEF RoundShape, Idle

LEMMA DeliverShape ==
  ASSUME Shape, EnqueueDeliveries
  PROVE  QueueShape' /\ QueueGrows /\ WorkShape' /\ TableShape' /\ RoundShape'
<1>1. /\ UNCHANGED <<work, scene, external, drawn, failures, disorder, enabled, everOff, checkpoint>>
      /\ round.pc = "enqueue" /\ (faults' = faults \/ Fail)
      /\ Enqueued(round.items, 0) \/ UNCHANGED <<jobs, queued, left>>
      /\ round' = Idle \/ round' = [round EXCEPT !.pc = "save"]
  BY DEF EnqueueDeliveries, tableVars, subVars, queueVars
<1>2. round.items \in Seq(Item)  BY DEF Shape, RoundShape
<1>3. QueueShape' /\ QueueGrows
  <2>1. CASE UNCHANGED <<jobs, queued, left>>  BY <2>1 DEF QueueShape, QueueGrows, Shape
  <2> QED  BY <1>1, <1>2, <2>1, EnqueuedKeeps DEF Shape
<1>4. WorkShape'
  <2>1. faults' \in Int  BY <1>1 DEF Fail, WorkShape, Shape
  <2> QED  BY <1>1, <1>3, <2>1, NoWorker DEF Shape
<1>5. TableShape'  BY <1>1 DEF Shape, TableShape, Post_
<1>6. RoundShape'
  <2>1. CASE round' = Idle
    <3>1. checkpoint' \in {0} \cup DOMAIN external  BY <1>1 DEF Shape, RoundShape
    <3> QED  BY <1>1, <2>1, <3>1, IdleOK DEF Shape
  <2>2. CASE round' = [round EXCEPT !.pc = "save"]  BY <1>1, <2>2 DEF Shape, RoundShape
  <2> QED  BY <1>1, <2>1, <2>2
<1> QED  BY <1>3, <1>4, <1>5, <1>6

LEMMA SaveShape ==
  ASSUME Shape, SaveCheckpoint
  PROVE  QueueShape' /\ QueueGrows /\ WorkShape' /\ TableShape' /\ RoundShape'
<1>1. /\ UNCHANGED <<queueVars, work, scene, external, drawn, failures, disorder, enabled, everOff>>
      /\ round.pc = "save" /\ round' = Idle /\ (faults' = faults \/ Fail)
      /\ checkpoint' = round.last \/ checkpoint' = checkpoint
  BY DEF SaveCheckpoint, tableVars, subVars
<1>2. QueueShape' /\ QueueGrows /\ WorkShape'  BY <1>1, QueueKept DEF Shape
<1>3. TableShape'  BY <1>1 DEF Shape, TableShape, Post_
<1>4. checkpoint' \in {0} \cup DOMAIN external  BY <1>1 DEF Shape, RoundShape
<1>5. RoundShape'  BY <1>1, <1>4, IdleOK DEF Shape
<1> QED  BY <1>2, <1>3, <1>5

LEMMA SwitchShape ==
  ASSUME Shape, NEW s \in Sub, Switch(s)
  PROVE  QueueShape' /\ QueueGrows /\ WorkShape' /\ TableShape' /\ RoundShape'
<1>1. /\ UNCHANGED <<queueVars, work, scene, faults, external, drawn, failures, disorder, checkpoint, round>>
      /\ enabled' = (IF s \in enabled THEN enabled \ {s} ELSE enabled \cup {s})
      /\ everOff' = everOff \cup {s}
  BY DEF Switch, tableVars, producerVars
<1>2. QueueShape' /\ QueueGrows /\ WorkShape'  BY <1>1, QueueKept DEF Shape
<1>3. TableShape'  BY <1>1 DEF Shape, TableShape, Post_
<1>4. RoundShape'  BY <1>1 DEF Shape, RoundShape
<1> QED  BY <1>2, <1>3, <1>4

LEMMA ProjectionShape ==
  ASSUME Shape, NEW e \in Event, EnqueueProjection(e)
  PROVE  QueueShape' /\ QueueGrows /\ WorkShape' /\ TableShape' /\ RoundShape'
<1>1. /\ UNCHANGED <<work, scene, faults, external, drawn, failures, disorder, enabled, everOff,
                     checkpoint, round>>
      /\ Enqueued(<<Project(e)>>, 0)
  BY DEF EnqueueProjection, tableVars, subVars, producerVars
<1>2. <<Project(e)>> \in Seq(Item)  BY DEF Item
<1>3. QueueShape' /\ QueueGrows  BY <1>1, <1>2, EnqueuedKeeps DEF Shape
<1>4. faults' \in Int  BY <1>1 DEF Shape, WorkShape
<1>5. WorkShape'  BY <1>1, <1>3, <1>4, NoWorker DEF Shape
<1>6. TableShape'  BY <1>1 DEF Shape, TableShape, Post_
<1>7. RoundShape'  BY <1>1 DEF Shape, RoundShape
<1> QED  BY <1>3, <1>5, <1>6, <1>7

LEMMA GotOK ==
  ASSUME NEW q, NEW r, RecOK(r, "indexer", q), r.pc = "load", NEW g \in SUBSET Prep
  PROVE  RecOK([r EXCEPT !.got = g], "indexer", q)
BY DEF RecOK, WorkRec

LEMMA DocsOf ==
  ASSUME IndexShape, NEW t \in Target, NEW missed
  PROVE  Docs(t, missed) \in DocSet
<1>1. Parts(t) \ missed \in SUBSET Resource  BY DEF Parts
<1>2. [q \in Parts(t) \ missed |-> version[q]] \in [Parts(t) \ missed -> Nat]
  BY <1>1 DEF IndexShape
<1> QED  BY <1>1, <1>2 DEF Docs, DocSet

LEMMA LoaderFacts ==
  ASSUME WorkShape, NEW w \in Consumer, IsIndexer(w), work[w].pc = "load"
  PROVE  /\ RecOK(work[w], "indexer", queued) /\ work[w].got \subseteq Prep
         /\ \A g \in SUBSET Prep : RecOK([work[w] EXCEPT !.got = g], "indexer", queued)
         /\ RecOK([work[w] EXCEPT !.pc = "retry"], "indexer", queued)
         /\ RecOK(Resting, "indexer", queued)
<1>1. RecOK(work[w], "indexer", queued)  BY DEF WorkShape, IsIndexer
<1>2. "retry" \in PcsOf("indexer") \ {"rest", "turn", "open", "ask"}  BY DEF PcsOf
<1>3. RecOK([work[w] EXCEPT !.pc = "retry"], "indexer", queued)  BY <1>1, <1>2, StepOK
<1>4. RecOK(Resting, "indexer", queued)  BY RestingOK
<1>5. work[w].got \subseteq Prep  BY <1>1 DEF RecOK, WorkRec
<1> QED  BY <1>1, <1>3, <1>4, <1>5, GotOK

\* A step of an indexer that leaves the queue alone, and one that ends its batch.
LEMMA IndexerShape ==
  ASSUME QueueShape, WorkShape, NEW w \in Consumer, IsIndexer(w), UNCHANGED scene,
         QueueShape', QueueGrows, UNCHANGED queued, faults' = faults \/ Fail,
         NEW r, work' = [work EXCEPT ![w] = r], RecOK(r, "indexer", queued)
  PROVE  WorkShape'
<1>1. RecOK(r, scene.crew[w], queued')  BY DEF IsIndexer
<1>2. faults' \in Int  BY DEF Fail, WorkShape
<1> QED  BY <1>1, <1>2, OneWorker

LEMMA BatchItems ==
  ASSUME QueueShape, WorkShape, NEW w \in Consumer, NEW j \in InBatch(w)
  PROVE  j \in DOMAIN queued /\ queued[j].to = scene.crew[w] /\ queued[j] \in Item
<1>1. j \in DOMAIN queued /\ queued[j].to = scene.crew[w]
  BY DEF InBatch, Range, WorkShape, RecOK
<1>2. queued[j] \in Item  BY <1>1, ElementOfSeq, LenProperties DEF QueueShape
<1> QED  BY <1>1, <1>2

LEMMA TargetsTyped ==
  ASSUME QueueShape, WorkShape, NEW w \in Consumer, IsIndexer(w), NEW t \in TargetsOf(w)
  PROVE  t \in Target /\ \E j \in InBatch(w) : queued[j] = Sync(t)
<1>1. PICK j \in InBatch(w) : t = queued[j].target  BY DEF TargetsOf
<1>2. queued[j].to = "indexer" /\ queued[j] \in Item  BY BatchItems DEF IsIndexer
<1> QED  BY <1>1, <1>2, ItemKinds

LEMMA LoadShape ==
  ASSUME Shape, NEW w \in Consumer, Load(w)
  PROVE  QueueShape' /\ QueueGrows /\ WorkShape'
<1>1. /\ UNCHANGED <<jobs, queued, left, scene>> /\ (faults' = faults \/ Fail)
      /\ IsIndexer(w) /\ work[w].pc = "load"
  BY DEF Load, queueVars, otherVars
<1>2. PICK t \in TargetsOf(w), v \in DocSet,
           at \in {"loaded", "error"} : Mark(w, t, v, at)
  <2>1. PICK t \in TargetsOf(w) :
          \/ \E missed : Mark(w, t, Docs(t, missed),
                              IF t \in Event /\ RowsOf(t) = {} THEN "error" ELSE "loaded")
          \/ Mark(w, t, Absent, "error")
    BY DEF Load
  <2>2. t \in Target  BY <1>1, TargetsTyped DEF Shape
  <2>3. \A missed : Docs(t, missed) \in DocSet  BY <2>2, DocsOf DEF Shape
  <2>4. Absent \in DocSet  BY DEF DocSet
  <2> QED  BY <2>1, <2>3, <2>4
<1>3. t \in Target  BY <1>1, TargetsTyped DEF Shape
<1> DEFINE g == {p \in work[w].got : p.target # t} \cup {[target |-> t, docs |-> v, at |-> at]}
           r == [work[w] EXCEPT !.got = g]
<1>4. work' = [work EXCEPT ![w] = r]  BY <1>2 DEF Mark
<1>5. g \in SUBSET Prep
  <2>1. [target |-> t, docs |-> v, at |-> at] \in Prep  BY <1>3 DEF Prep
  <2>2. work[w].got \subseteq Prep  BY <1>1, LoaderFacts DEF Shape
  <2> QED  BY <2>1, <2>2
<1> HIDE DEF g
<1>6. RecOK(r, "indexer", queued)  BY <1>1, <1>5, LoaderFacts DEF Shape
<1> HIDE DEF r
<1>7. QueueShape' /\ QueueGrows  BY <1>1 DEF Shape, QueueShape, QueueGrows
<1> QED  BY <1>1, <1>4, <1>6, <1>7, IndexerShape DEF Shape

Moving(G, S, at) == (G \ S) \cup {[p EXCEPT !.at = at] : p \in S}

LEMMA MovedOK ==
  ASSUME NEW S \in SUBSET Prep, NEW G \in SUBSET Prep,
         NEW at \in {"loaded", "deleted", "written", "error"}
  PROVE  Moving(G, S, at) \in SUBSET Prep
<1>1. \A p \in S : [p EXCEPT !.at = at] \in Prep  BY DEF Prep
<1> QED  BY <1>1 DEF Moving

LEMMA MoveShape ==
  ASSUME Shape, NEW w \in Consumer, DeleteKeys(w) \/ UpsertRows(w)
  PROVE  QueueShape' /\ QueueGrows /\ WorkShape'
<1>1. /\ UNCHANGED <<jobs, queued, left, scene>> /\ (faults' = faults \/ Fail)
      /\ IsIndexer(w) /\ work[w].pc = "load"
  BY DEF DeleteKeys, UpsertRows, queueVars, otherVars
<1>2. PICK S \in SUBSET work[w].got, at \in {"deleted", "written", "error"} : Moved(w, S, at)
  <2>1. CASE DeleteKeys(w)
    <3>1. PICK n \in Range(NamespaceOf) :
            \/ Moved(w, InNamespace(w, n), "deleted") \/ Moved(w, InNamespace(w, n), "error")
      BY <2>1 DEF DeleteKeys
    <3>2. InNamespace(w, n) \subseteq work[w].got  BY DEF InNamespace
    <3> QED  BY <3>1, <3>2
  <2>2. CASE UpsertRows(w)
    <3> DEFINE S == {p \in work[w].got : p.at = "deleted"}
    <3>1. Moved(w, S, "written") \/ Moved(w, S, "error")  BY <2>2 DEF UpsertRows
    <3> QED  BY <3>1
  <2> QED  BY <2>1, <2>2
<1> DEFINE g == Moving(work[w].got, S, at)
           r == [work[w] EXCEPT !.got = g]
<1>3. work' = [work EXCEPT ![w] = r]  BY <1>2 DEF Moved, Moving
<1>4. work[w].got \in SUBSET Prep /\ S \in SUBSET Prep  BY <1>1, LoaderFacts DEF Shape
<1>5. g \in SUBSET Prep  BY <1>4, MovedOK
<1> HIDE DEF g
<1>6. RecOK(r, "indexer", queued)  BY <1>1, <1>5, LoaderFacts DEF Shape
<1> HIDE DEF r
<1>7. QueueShape' /\ QueueGrows  BY <1>1 DEF Shape, QueueShape, QueueGrows
<1> QED  BY <1>1, <1>3, <1>6, <1>7, IndexerShape DEF Shape

LEMMA AckShape ==
  ASSUME Shape, NEW w \in Consumer, AckWritten(w)
  PROVE  QueueShape' /\ QueueGrows /\ WorkShape'
<1> DEFINE S == JobsAt(w, {"written"})  r == [work[w] EXCEPT !.pc = "retry"]
<1>1. /\ UNCHANGED <<queued, scene>> /\ (faults' = faults \/ Fail)
      /\ IsIndexer(w) /\ work[w].pc = "load"
      /\ AckJobs(w, S) \/ UNCHANGED <<jobs, left>>
      /\ work' = [work EXCEPT ![w] = r] \/ work' = [work EXCEPT ![w] = Resting]
  BY DEF AckWritten, otherVars
<1> HIDE DEF S
<1>2. QueueShape' /\ QueueGrows
  <2>1. CASE UNCHANGED <<jobs, left>>  BY <1>1, <2>1 DEF Shape, QueueShape, QueueGrows
  <2> QED  BY <1>1, <2>1, AckKeeps DEF Shape
<1>3. RecOK(r, "indexer", queued) /\ RecOK(Resting, "indexer", queued)
  BY <1>1, LoaderFacts DEF Shape
<1> HIDE DEF r
<1> QED  BY <1>1, <1>2, <1>3, IndexerShape DEF Shape

LEMMA RetryShape ==
  ASSUME Shape, NEW w \in Consumer, RetryFailed(w)
  PROVE  QueueShape' /\ QueueGrows /\ WorkShape'
<1> DEFINE S == JobsAt(w, {"error"})
<1>1. /\ UNCHANGED <<queued, scene>> /\ (faults' = faults \/ Fail) /\ IsIndexer(w)
      /\ RetryJobs(w, S) \/ UNCHANGED <<jobs, left>>
      /\ work' = [work EXCEPT ![w] = Resting]
  BY DEF RetryFailed, otherVars
<1> HIDE DEF S
<1>2. QueueShape' /\ QueueGrows
  <2>1. CASE UNCHANGED <<jobs, left>>  BY <1>1, <2>1 DEF Shape, QueueShape, QueueGrows
  <2> QED  BY <1>1, <2>1, RetryKeeps DEF Shape
<1>3. RecOK(Resting, "indexer", queued)  BY RestingOK
<1> QED  BY <1>1, <1>2, <1>3, IndexerShape DEF Shape

LEMMA SyncShape ==
  ASSUME Shape, NEW t \in Target, EnqueueSync(t)
  PROVE  QueueShape' /\ QueueGrows /\ WorkShape'
<1>1. UNCHANGED <<work, scene, faults>> /\ Enqueued(<<Sync(t)>>, 0)
  BY DEF EnqueueSync, otherVars
<1>2. <<Sync(t)>> \in Seq(Item)  BY DEF Item
<1>3. QueueShape' /\ QueueGrows  BY <1>1, <1>2, EnqueuedKeeps DEF Shape
<1>4. faults' \in Int  BY <1>1 DEF Shape, WorkShape
<1> QED  BY <1>1, <1>3, <1>4, NoWorker DEF Shape

\* The handlers whose steps change pc alone.
LEMMA HandlerShape ==
  ASSUME Shape, NEW w \in Consumer, PassOver(w) \/ Commit(w) \/ Abort(w) \/ AskSource(w) \/ Post(w)
  PROVE  QueueShape' /\ QueueGrows /\ WorkShape'
<1>1. PICK p : /\ Step(w, p) /\ UNCHANGED <<queueVars, scene>> /\ (faults' = faults \/ Fail)
               /\ work[w].pc # "rest"
               /\ p \in PcsOf(scene.crew[w]) \ {"rest", "turn", "open", "ask"}
  <2>1. CASE PassOver(w) \/ Commit(w) \/ Abort(w)
    <3>1. work[w].pc \in {"open", "written"} /\ scene.crew[w] = "projector"
      BY <2>1, PcCrew DEF PassOver, Commit, Abort, Shape
    <3>2. {"written", "done", "failed"} \subseteq PcsOf("projector")  BY DEF PcsOf
    <3> QED  BY <2>1, <3>1, <3>2 DEF PassOver, Commit, Abort
  <2>2. CASE AskSource(w) \/ Post(w)
    <3>1. work[w].pc \in {"ask", "post"} /\ scene.crew[w] = "webhook"
      BY <2>2, PcCrew DEF AskSource, Post, Shape
    <3>2. {"post", "done", "failed"} \subseteq PcsOf("webhook")  BY DEF PcsOf
    <3> QED  BY <2>2, <3>1, <3>2 DEF AskSource, Post
  <2> QED  BY <2>1, <2>2
<1> QED  BY <1>1, StepShape DEF Shape

LEMMA StartsShape ==
  ASSUME Shape, NEW w \in Consumer, StartBatch(w) \/ (StartJob(w) /\ ~IsIndexer(w))
  PROVE  QueueShape' /\ QueueGrows /\ WorkShape'
<1> DEFINE p == IF scene.crew[w] = "projector" THEN "open"
                ELSE IF scene.crew[w] = "indexer" THEN "load" ELSE "ask"
<1>1. Start(w, p) /\ UNCHANGED scene
  BY DEF StartBatch, StartJob, IsIndexer, otherVars
<1> QED  BY <1>1, StartShape DEF Shape

LEMMA IndexStill ==
  ASSUME IndexShape, UNCHANGED indexVars
  PROVE  IndexShape'
BY DEF IndexShape, indexVars

LEMMA ShapeStep ==
  ASSUME Shape, [IndexNext]_allVars,
         \A w \in Consumer : work[w].pc = "written" => work[w].got \subseteq 1 .. drawn
  PROVE  Shape' /\ QueueGrows /\ UNCHANGED scene
<1> USE DEF Shape
<1>1. ASSUME NEW t \in Resource, ChangeResource(t) PROVE Shape' /\ QueueGrows /\ UNCHANGED scene
  <2>1. /\ UNCHANGED <<vars, index>> /\ version' = [version EXCEPT ![t] = @ + 1]
        /\ changed' = changed \cup {t} /\ since' = [since EXCEPT ![t] = version']
    BY <1>1 DEF ChangeResource
  <2>2. QueueShape' /\ QueueGrows /\ WorkShape'
    BY <2>1, QueueKept DEF vars
  <2>3. TableShape' /\ RoundShape'
    BY <2>1 DEF vars, tableVars, subVars, producerVars, TableShape, RoundShape, Post_
  <2>4. IndexShape'
    <3>1. version' \in [Resource -> Nat] /\ \A q \in Resource : version[q] =< version'[q]
      BY <2>1 DEF IndexShape
    <3>2. since' \in [Resource -> [Resource -> Nat]]  BY <2>1, <3>1 DEF IndexShape
    <3>3. ASSUME NEW x \in Resource, NEW q \in Resource PROVE since'[x][q] =< version'[q]
      <4>1. version[q] \in Nat /\ version'[q] \in Nat /\ since[x][q] \in Nat
        BY <3>1 DEF IndexShape
      <4>2. since'[x] = IF x = t THEN version' ELSE since[x]  BY <2>1 DEF IndexShape
      <4> QED  BY <3>1, <4>1, <4>2 DEF IndexShape
    <3> QED  BY <2>1, <3>1, <3>2, <3>3 DEF IndexShape, Target
  <2> QED  BY <2>1, <2>2, <2>3, <2>4 DEF vars
<1>2. ASSUME NEW t \in Target, EnqueueSync(t) PROVE Shape' /\ QueueGrows /\ UNCHANGED scene
  <2>1. UNCHANGED <<otherVars, version, index, since>> /\ changed' = changed \ {t}
    BY <1>2 DEF EnqueueSync
  <2>2. QueueShape' /\ QueueGrows /\ WorkShape'  BY <1>2, SyncShape
  <2>3. UNCHANGED Tables0  BY <2>1 DEF otherVars, Tables0
  <2>4. IndexShape'  BY <2>1 DEF IndexShape
  <2> QED  BY <2>1, <2>2, <2>3, <2>4, RestShape DEF otherVars
<1>3. ASSUME NEW w \in Consumer, HeartbeatBatch(w) \/ StartBatch(w) \/ Load(w) \/ DeleteKeys(w)
                                   \/ UpsertRows(w) \/ AckWritten(w) \/ RetryFailed(w)
      PROVE  Shape' /\ QueueGrows /\ UNCHANGED scene
  <2>1. UNCHANGED <<otherVars, version, changed, since>> /\ (index' = index \/ DOMAIN index' = Target)
    BY <1>3 DEF HeartbeatBatch, StartBatch, Load, DeleteKeys, UpsertRows, AckWritten, RetryFailed,
                indexVars
  <2>2. QueueShape' /\ QueueGrows /\ WorkShape'
    BY <1>3, BeatShape, StartsShape, LoadShape, MoveShape, AckShape, RetryShape
  <2>3. TableShape' /\ RoundShape'
    BY <2>1 DEF otherVars, tableVars, subVars, producerVars, TableShape, RoundShape, Post_
  <2>4. IndexShape'  BY <2>1 DEF IndexShape
  <2> QED  BY <2>1, <2>2, <2>3, <2>4 DEF otherVars
<1>4. ASSUME NEW w \in Consumer, UNCHANGED indexVars,
             \/ ClaimBatch(w) \/ Abort(w) \/ CrashWorker(w)
             \/ ~IsIndexer(w) /\ (\/ StartJob(w) \/ EndJob(w) \/ PassOver(w)
                                  \/ AskSource(w) \/ Post(w) \/ HeartbeatJob(w))
      PROVE  Shape' /\ QueueGrows /\ UNCHANGED scene
  <2>1. UNCHANGED <<scene, tableVars, subVars, producerVars>>
    BY <1>4 DEF ClaimBatch, Abort, CrashWorker, StartJob, EndJob, PassOver, AskSource, Post,
                HeartbeatJob
  <2>2. QueueShape' /\ QueueGrows /\ WorkShape'
    BY <1>4, ClaimShape, HandlerShape, CrashShape, StartsShape, EndShape, BeatShape
  <2>3. UNCHANGED Tables0  BY <1>4, <2>1 DEF Tables0, indexVars
  <2> QED  BY <1>4, <2>1, <2>2, <2>3, RestShape, IndexStill
<1>5. ASSUME NEW w \in Consumer, UNCHANGED indexVars, InsertExternalEvent(w) \/ Commit(w)
      PROVE  Shape' /\ QueueGrows /\ UNCHANGED scene
  <2>1. UNCHANGED scene  BY <1>5 DEF InsertExternalEvent, Commit
  <2>2. QueueShape' /\ QueueGrows /\ WorkShape' /\ TableShape' /\ RoundShape'
    <3>1. CASE InsertExternalEvent(w)  BY <3>1, InsertShape
    <3>2. CASE Commit(w)
      <4>1. work[w].got \subseteq 1 .. drawn  BY <3>2 DEF Commit
      <4> QED  BY <3>2, <4>1, CommitTables, HandlerShape
    <3> QED  BY <1>5, <3>1, <3>2
  <2> QED  BY <1>5, <2>1, <2>2, IndexStill
<1>6. ASSUME UNCHANGED indexVars,
             \/ ListEvents \/ MatchNext \/ EnqueueDeliveries \/ SaveCheckpoint
             \/ (\E e \in Event : EnqueueProjection(e)) \/ (\E s \in Sub : Switch(s))
      PROVE  Shape' /\ QueueGrows /\ UNCHANGED scene
  <2>1. UNCHANGED scene
    BY <1>6 DEF ListEvents, MatchNext, EnqueueDeliveries, SaveCheckpoint, EnqueueProjection, Switch
  <2>2. QueueShape' /\ QueueGrows /\ WorkShape' /\ TableShape' /\ RoundShape'
    BY <1>6, ListShape, MatchShape, DeliverShape, SaveShape, ProjectionShape, SwitchShape
  <2> QED  BY <1>6, <2>1, <2>2, IndexStill
<1>7. ASSUME UNCHANGED indexVars, TickAll PROVE Shape' /\ QueueGrows /\ UNCHANGED scene
  <2>1. UNCHANGED <<scene, tableVars, subVars, producerVars>>  BY <1>7 DEF TickAll
  <2>2. UNCHANGED Tables0  BY <1>7, <2>1 DEF Tables0, indexVars
  <2> QED  BY <1>7, <2>1, <2>2, TickShape, RestShape, IndexStill
<1>8. ASSUME UNCHANGED allVars PROVE Shape' /\ QueueGrows /\ UNCHANGED scene
  <2>1. UNCHANGED vars /\ UNCHANGED indexVars  BY <1>8 DEF allVars
  <2>2. UNCHANGED <<scene, tableVars, subVars, producerVars, queueVars, work, faults>>
    BY <2>1 DEF vars
  <2>3. UNCHANGED Tables0  BY <2>1, <2>2 DEF Tables0, indexVars
  <2> QED  BY <2>1, <2>2, <2>3, QueueKept, RestShape, IndexStill
<1> HIDE DEF Shape
<1> QED
  BY <1>1, <1>2, <1>3, <1>4, <1>5, <1>6, <1>7, <1>8
  DEF IndexNext, Producers, Indexing, Working, Producing

-----------------------------------------------------------------------------
(* An event is projected once.                                             *)

LEMMA DoingKept ==
  ASSUME QueueShape, WorkShape, QueueGrows, NEW u \in Consumer, work[u].pc # "rest",
         work'[u].batch = work[u].batch
  PROVE  Doing(u)' = Doing(u) /\ InHand(u)' = InHand(u)
<1>1. InHand(u) \in DOMAIN queued  BY HandFacts
<1>2. InHand(u)' = InHand(u)  BY DEF InHand
<1> QED  BY <1>1, <1>2 DEF Doing, QueueGrows

\* No worker comes to its commit, and those that are there stay as they are.
Calm == \A u \in Consumer : Writing(u)' =>
          Writing(u) /\ work'[u].batch = work[u].batch /\ work'[u].got = work[u].got

LEMMA CalmKeeps ==
  ASSUME Shape, Writers, QueueGrows, Calm, UNCHANGED <<external, drawn>>
  PROVE  Writers'
<1>1. ASSUME NEW u \in Consumer, Writing(u)'
      PROVE  Writing(u) /\ work'[u].got = work[u].got /\ Doing(u)' = Doing(u)
  BY <1>1, DoingKept DEF Calm, Writing, Shape
<1>2. ProjectedOnce'  BY DEF Writers, ProjectedOnce
<1>3. ASSUME NEW u \in Consumer, Writing(u)' PROVE Written(u)'
  <2>1. Written(u)  BY <1>1, <1>3 DEF Writers
  <2> QED  BY <1>1, <1>3, <2>1 DEF Written, Listed, RowsOf
<1>4. ASSUME NEW u \in Consumer, NEW w \in Consumer, u # w, Writing(u)', Writing(w)'
      PROVE  /\ Listed(Doing(u)'.event) => Doing(u)'.event # Doing(w)'.event
             /\ \A i \in work'[u].got \ DOMAIN external : i \notin work'[w].got
  <2>1. Writing(u) /\ Writing(w)  BY <1>1, <1>4
  <2>2. /\ Listed(Doing(u).event) => Doing(u).event # Doing(w).event
        /\ \A i \in work[u].got \ DOMAIN external : i \notin work[w].got
    BY <1>4, <2>1 DEF Writers
  <2> QED  BY <1>1, <1>4, <2>2
<1> QED  BY <1>2, <1>3, <1>4 DEF Writers, Listed

\* What a step that writes nothing does to the worker that takes it: it is over its
\* job, goes on with it as it was, starts it, or moves to a later step of its handler.
Onward(w) ==
  LET o == work[w]
      n == work'[w]
  IN  /\ \A u \in Consumer \ {w} : work'[u] = work[u]
      /\ \/ n.pc \in {"rest", "turn"}
         \/ /\ n.pc = o.pc /\ n.batch = o.batch /\ n.got = o.got /\ n.late = o.late
            /\ n.beat = o.beat \/ (n.beat = 0 /\ (HeartbeatBatch(w) \/ HeartbeatJob(w)))
         \/ /\ o.pc = "turn" /\ n.pc \in {"open", "ask", "load"} /\ n.batch = o.batch
            /\ n.beat = 0 /\ UNCHANGED jobs
            /\ ~n.late => /\ InHand(w) \in DOMAIN jobs /\ jobs[InHand(w)].holder = w
                          /\ jobs[InHand(w)].lease > Interval
         \/ /\ n.pc \in {"failed", "post", "done", "retry", "load"} /\ n.batch = o.batch
            /\ n.late = o.late /\ n.beat = o.beat /\ o.pc \notin {"rest", "turn"}
            /\ n.pc = "done" => AskSource(w) \/ Post(w)

LEMMA OnwardSteps ==
  ASSUME Shape, NEW w \in Consumer,
         \/ HeartbeatBatch(w) \/ StartBatch(w) \/ Load(w) \/ DeleteKeys(w)
         \/ UpsertRows(w) \/ AckWritten(w) \/ RetryFailed(w)
         \/ ClaimBatch(w) \/ Abort(w) \/ CrashWorker(w) \/ (StartJob(w) /\ ~IsIndexer(w))
         \/ EndJob(w) \/ AskSource(w) \/ Post(w) \/ HeartbeatJob(w)
  PROVE  Onward(w)
<1>1. /\ DOMAIN work = Consumer /\ Resting.pc = "rest"
      /\ work[w] \in [pc : {"rest", "turn", "open", "written", "ask", "post", "load", "retry",
                            "done", "failed"},
                      batch : Seq(Nat), beat : 0 .. Interval, late : BOOLEAN,
                      got : SUBSET IF scene.crew[w] = "indexer" THEN Prep ELSE Nat]
  BY DEF Shape, WorkShape, RecOK, WorkRec, Resting
<1>2. CASE HeartbeatBatch(w) \/ HeartbeatJob(w)
  <2>1. work' = [work EXCEPT ![w].beat = 0]  BY <1>2 DEF HeartbeatBatch, HeartbeatJob, Beat
  <2> QED  BY <1>1, <1>2, <2>1 DEF Onward
<1>3. CASE StartBatch(w) \/ (StartJob(w) /\ ~IsIndexer(w))
  <2>1. PICK p \in {"load", "open", "ask"} : Start(w, p)
    BY <1>3 DEF StartBatch, StartJob
  <2> DEFINE late == ~(/\ InHand(w) \in DOMAIN jobs /\ jobs[InHand(w)].holder = w
                       /\ jobs[InHand(w)].lease > Interval)
             r == [Resting EXCEPT !.pc = p, !.batch = work[w].batch, !.late = late]
  <2>2. work' = [work EXCEPT ![w] = r] /\ work[w].pc = "turn"  BY <2>1 DEF Start
  <2>3. ~late => /\ InHand(w) \in DOMAIN jobs /\ jobs[InHand(w)].holder = w
                 /\ jobs[InHand(w)].lease > Interval
    OBVIOUS
  <2> HIDE DEF late
  <2>4. r.pc = p /\ r.batch = work[w].batch /\ r.late = late /\ r.beat = 0  BY DEF Resting
  <2> HIDE DEF r
  <2>6. UNCHANGED jobs  BY <2>1 DEF Start, queueVars
  <2>5. work'[w] = r /\ \A u \in Consumer \ {w} : work'[u] = work[u]  BY <1>1, <2>2
  <2> QED  BY <2>2, <2>3, <2>4, <2>5, <2>6 DEF Onward
<1>4. CASE ClaimBatch(w)
  <2> DEFINE r == [Resting EXCEPT !.pc = "turn", !.batch = InOrder(Grant(Mine(w), scene.claim))]
  <2>1. work' = [work EXCEPT ![w] = r] \/ UNCHANGED work  BY <1>4 DEF ClaimBatch, Claim
  <2>2. r.pc = "turn"  BY DEF Resting
  <2> HIDE DEF r
  <2> QED  BY <1>1, <2>1, <2>2 DEF Onward
<1>5. CASE CrashWorker(w) \/ RetryFailed(w)
  <2>1. work' = [work EXCEPT ![w] = Resting]  BY <1>5 DEF CrashWorker, Crash, RetryFailed
  <2> QED  BY <1>1, <2>1 DEF Onward
<1>6. CASE EndJob(w)
  <2> DEFINE r == [Resting EXCEPT !.pc = "turn", !.batch = Tail(work[w].batch)]
  <2>1. work' = [work EXCEPT ![w] = r] \/ work' = [work EXCEPT ![w] = Resting]
    BY <1>6 DEF EndJob, Settle, NextRound
  <2>2. r.pc = "turn"  BY DEF Resting
  <2> HIDE DEF r
  <2> QED  BY <1>1, <2>1, <2>2 DEF Onward
<1>7. CASE Load(w) \/ DeleteKeys(w) \/ UpsertRows(w)
  <2>1. PICK g : work' = [work EXCEPT ![w].got = g] /\ work[w].pc = "load"
    BY <1>7 DEF Load, DeleteKeys, UpsertRows, Mark, Moved
  <2> QED  BY <1>1, <2>1 DEF Onward
<1>8. CASE Abort(w) \/ AskSource(w) \/ Post(w) \/ AckWritten(w)
  <2>1. PICK p \in {"failed", "post", "done", "retry"} :
           /\ work' = [work EXCEPT ![w].pc = p] \/ work' = [work EXCEPT ![w] = Resting]
           /\ work[w].pc \notin {"rest", "turn"}
           /\ p = "done" => AskSource(w) \/ Post(w)
    BY <1>8 DEF Abort, AskSource, Post, AckWritten, Step
  <2> QED  BY <1>1, <2>1 DEF Onward
<1> QED  BY <1>2, <1>3, <1>4, <1>5, <1>6, <1>7, <1>8

LEMMA CalmSteps ==
  ASSUME NEW w \in Consumer, Onward(w)
  PROVE  Calm
BY DEF Calm, Onward, Writing

LEMMA CalmTick ==
  ASSUME Shape, TickAll
  PROVE  Calm
BY DEF TickAll, Tick, Calm, Writing, Shape, WorkShape, RecOK, WorkRec

LEMMA InsertWriters ==
  ASSUME Shape, Writers, QueueGrows, NEW w \in Consumer, InsertExternalEvent(w)
  PROVE  Writers'
<1> DEFINE e == Doing(w).event
           got == IF RowsOf(e) # {} THEN RowsOf(e) ELSE {drawn + 1}
<1>1. /\ work[w].pc = "open" /\ UNCHANGED <<queued, external>>
      /\ Listed(e) /\ \A u \in Consumer : Writing(u) => Doing(u).event # e
      /\ work' = [work EXCEPT ![w].pc = "written", ![w].got = got]
      /\ drawn' = IF RowsOf(e) # {} THEN drawn ELSE drawn + 1
  BY DEF InsertExternalEvent, queueVars, Listed, Writing
<1>2. /\ drawn \in Nat /\ DOMAIN external \subseteq 1 .. drawn /\ DOMAIN work = Consumer
      /\ drawn + 1 \notin DOMAIN external
  BY DEF Shape, TableShape, WorkShape
<1>3. \E i \in 1 .. drawn' : /\ got = {i}
                             /\ IF i \in DOMAIN external THEN external[i].event = e ELSE RowsOf(e) = {}
  <2>1. CASE RowsOf(e) = {}
    <3>1. drawn + 1 \in 1 .. drawn'  BY <1>1, <1>2, <2>1
    <3> QED  BY <1>2, <2>1, <3>1
  <2>2. CASE RowsOf(e) # {}
    <3>1. PICK i \in DOMAIN external : external[i].event = e  BY <2>2 DEF RowsOf
    <3>2. RowsOf(e) = {i}  BY <3>1 DEF RowsOf, Writers, ProjectedOnce
    <3>3. i \in 1 .. drawn'  BY <1>1, <1>2, <2>2
    <3> QED  BY <2>2, <3>1, <3>2, <3>3
  <2> QED  BY <2>1, <2>2
<1>4. \A i \in got : i \in DOMAIN external \/ i = drawn + 1  BY DEF RowsOf
<1>5. /\ work'[w].pc = "written" /\ work'[w].got = got /\ work'[w].batch = work[w].batch
      /\ \A u \in Consumer \ {w} : work'[u] = work[u]
  BY <1>1, <1>2 DEF Shape, WorkShape, RecOK, WorkRec
<1>6. /\ Doing(w)' = Doing(w)
      /\ \A u \in Consumer \ {w} : Writing(u)' => Writing(u) /\ Doing(u)' = Doing(u)
  <2>1. Doing(w)' = Doing(w)  BY <1>1, <1>5, DoingKept DEF Shape
  <2>2. ASSUME NEW u \in Consumer \ {w}, Writing(u)' PROVE Writing(u) /\ Doing(u)' = Doing(u)
    <3>1. work[u].pc = "written" /\ work'[u].batch = work[u].batch  BY <1>5, <2>2 DEF Writing
    <3> QED  BY <3>1, DoingKept DEF Writing, Shape
  <2> QED  BY <2>1, <2>2
<1> HIDE DEF got
<1>7. Written(w)'
  <2>1. PICK f : f = e  OBVIOUS
  <2>2. Doing(w)'.event = f /\ work'[w].got = got /\ external' = external /\ Listed(f)
    BY <1>1, <1>5, <1>6, <2>1
  <2>3. PICK i \in 1 .. drawn' : /\ got = {i}
                                 /\ IF i \in DOMAIN external THEN external[i].event = f ELSE RowsOf(f) = {}
    BY <1>3, <2>1
  <2>4. RowsOf(f)' = RowsOf(f) /\ Listed(f)' = Listed(f)  BY <2>2 DEF RowsOf, Listed
  <2> HIDE DEF e
  <2> QED  BY <2>2, <2>3, <2>4 DEF Written
<1> HIDE DEF e
<1>8. ASSUME NEW u \in Consumer \ {w}, Writing(u)'
      PROVE  /\ Written(u)'
             /\ Doing(u)'.event # e /\ got \cap work'[u].got \subseteq DOMAIN external
  <2>1. /\ Writing(u) /\ Written(u) /\ work'[u].got = work[u].got
        /\ Doing(u)' = Doing(u) /\ Doing(u).event # e
    BY <1>1, <1>5, <1>6, <1>8 DEF Writers
  <2>2. \A i \in 1 .. drawn : i \in 1 .. drawn' /\ i # drawn + 1  BY <1>1, <1>2
  <2>3. Written(u)'  BY <1>1, <2>1, <2>2 DEF Written, Listed, RowsOf
  <2>4. work[u].got \subseteq 1 .. drawn  BY <2>1 DEF Written
  <2> QED  BY <1>4, <2>1, <2>2, <2>3, <2>4
<1>9. ASSUME NEW u \in Consumer, NEW v \in Consumer, u # v, Writing(u)', Writing(v)'
      PROVE  /\ Listed(Doing(u)'.event) => Doing(u)'.event # Doing(v)'.event
             /\ \A i \in work'[u].got \ DOMAIN external : i \notin work'[v].got
  <2>1. CASE u = w  BY <1>5, <1>6, <1>8, <1>9, <2>1 DEF e
  <2>2. CASE v = w  BY <1>5, <1>6, <1>8, <1>9, <2>2 DEF e
  <2>3. CASE u # w /\ v # w
    <3>1. Writing(u) /\ Writing(v)  BY <1>6, <1>9, <2>3
    <3> QED  BY <1>5, <1>6, <1>9, <2>3, <3>1 DEF Writers
  <2> QED  BY <2>1, <2>2, <2>3
<1>10. \A u \in Consumer : Writing(u)' => Written(u)'  BY <1>7, <1>8
<1>11. ProjectedOnce'  BY <1>1 DEF Writers, ProjectedOnce
<1> QED  BY <1>1, <1>9, <1>10, <1>11 DEF Writers, Listed

LEMMA PassOverWriters ==
  ASSUME Shape, Writers, QueueGrows, NEW w \in Consumer, PassOver(w)
  PROVE  Writers'
<1> DEFINE e == Doing(w).event
<1>1. /\ work[w].pc = "open" /\ UNCHANGED <<queued, external, drawn>> /\ ~Listed(e)
      /\ work' = [work EXCEPT ![w].pc = "written"]
  BY DEF PassOver, queueVars, Listed, Step, tableVars
<1>2. /\ work'[w].pc = "written" /\ work'[w].got = {} /\ work'[w].batch = work[w].batch
      /\ \A u \in Consumer \ {w} : work'[u] = work[u]
  <2>1. work[w].got = {}  BY <1>1, PcCrew DEF Shape
  <2> QED  BY <1>1, <2>1 DEF Shape, WorkShape, RecOK, WorkRec
<1>3. \A u \in Consumer : Writing(u)' => Doing(u)' = Doing(u) /\ (u = w \/ Writing(u))
  <2> SUFFICES ASSUME NEW u \in Consumer, Writing(u)' PROVE Doing(u)' = Doing(u) /\ (u = w \/ Writing(u))
    OBVIOUS
  <2>1. work[u].pc # "rest" /\ work'[u].batch = work[u].batch  BY <1>1, <1>2 DEF Writing
  <2> QED  BY <1>2, <2>1, DoingKept DEF Writing, Shape
<1>4. ASSUME NEW u \in Consumer, Writing(u)' PROVE Written(u)'
  <2>1. CASE u = w  BY <1>1, <1>2, <1>3, <1>4, <2>1 DEF Written, Listed
  <2>2. CASE u # w
    <3>1. Written(u) /\ Doing(u)' = Doing(u) /\ work'[u] = work[u]
      BY <1>2, <1>3, <1>4, <2>2 DEF Writers
    <3> QED  BY <1>1, <3>1 DEF Written, Listed, RowsOf
  <2> QED  BY <2>1, <2>2
<1>5. ASSUME NEW u \in Consumer, NEW v \in Consumer, u # v, Writing(u)', Writing(v)'
      PROVE  /\ Listed(Doing(u)'.event) => Doing(u)'.event # Doing(v)'.event
             /\ \A i \in work'[u].got \ DOMAIN external : i \notin work'[v].got
  <2>1. Doing(u)' = Doing(u) /\ Doing(v)' = Doing(v)  BY <1>3, <1>5
  <2>2. CASE u = w  BY <1>1, <1>2, <2>1, <2>2
  <2>3. CASE v = w  BY <1>1, <1>2, <2>1, <2>3
  <2>4. CASE u # w /\ v # w
    <3>1. Writing(u) /\ Writing(v) /\ work'[u] = work[u] /\ work'[v] = work[v]
      BY <1>2, <1>3, <1>5, <2>4
    <3> QED  BY <1>5, <2>1, <3>1 DEF Writers
  <2> QED  BY <2>2, <2>3, <2>4
<1>6. ProjectedOnce'  BY <1>1 DEF Writers, ProjectedOnce
<1> QED  BY <1>1, <1>4, <1>5, <1>6 DEF Writers, Listed

LEMMA CommitEvents ==
  ASSUME Shape, Writers, NEW w \in Consumer, Commit(w)
  PROVE  LET e == Doing(w).event
         IN  /\ work[w].got \subseteq 1 .. drawn
             /\ DOMAIN external' = DOMAIN external \cup work[w].got
             /\ \A i \in DOMAIN external : external'[i].event = external[i].event
             /\ \A i \in work[w].got : external'[i].event = e
             /\ \A i \in work[w].got \ DOMAIN external : RowsOf(e) = {}
             /\ Listed(e) => \E i : work[w].got = {i}
             /\ ~Listed(e) => work[w].got = {}
<1> DEFINE e == Doing(w).event
<1>1. Writing(w) /\ Written(w)  BY DEF Commit, Writing, Writers
<1>2. work[w].got \subseteq 1 .. drawn  BY <1>1 DEF Written
<1>3. /\ DOMAIN external' = DOMAIN external \cup work[w].got
      /\ \A i \in DOMAIN external' : external'[i] =
           IF i \in work[w].got THEN [event |-> e, feeds |-> FeedsOf(e)] ELSE external[i]
  BY DEF Commit
<1>4. \A i \in work[w].got : external'[i].event = e  BY <1>3
<1>5. \A i \in work[w].got \cap DOMAIN external : external[i].event = e
  BY <1>1 DEF Written
<1>6. \A i \in work[w].got \ DOMAIN external : RowsOf(e) = {}  BY <1>1 DEF Written
<1>7. (Listed(e) => \E i : work[w].got = {i}) /\ (~Listed(e) => work[w].got = {})
  BY <1>1 DEF Written
<1> HIDE DEF e
<1>8. \A i \in DOMAIN external : external'[i].event = external[i].event  BY <1>3, <1>4, <1>5
<1> QED  BY <1>2, <1>3, <1>4, <1>6, <1>7, <1>8 DEF e

LEMMA CommitWriters ==
  ASSUME Shape, Writers, QueueGrows, NEW w \in Consumer, Commit(w)
  PROVE  Writers'
<1> DEFINE e == Doing(w).event  got == work[w].got
<1>1. /\ Writing(w) /\ work' = [work EXCEPT ![w].pc = "done"] /\ UNCHANGED drawn
  BY DEF Commit, Step, Writing
<1>2. /\ got \subseteq 1 .. drawn
      /\ DOMAIN external' = DOMAIN external \cup got
      /\ \A i \in DOMAIN external : external'[i].event = external[i].event
      /\ \A i \in got : external'[i].event = e
      /\ \A i \in got \ DOMAIN external : RowsOf(e) = {}
      /\ Listed(e) => \E i : got = {i}
      /\ ~Listed(e) => got = {}
  BY CommitEvents
<1>3. work'[w].pc = "done" /\ \A u \in Consumer \ {w} : work'[u] = work[u]
  BY <1>1 DEF Shape, WorkShape, RecOK, WorkRec
<1>4. ASSUME NEW u \in Consumer, Writing(u)'
      PROVE  u # w /\ Writing(u) /\ Doing(u)' = Doing(u) /\ work'[u] = work[u]
  <2>1. u # w /\ work'[u] = work[u] /\ work[u].pc = "written"  BY <1>3, <1>4 DEF Writing
  <2> QED  BY <2>1, DoingKept DEF Writing, Shape
<1>5. ProjectedOnce'
  <2> SUFFICES ASSUME NEW i \in DOMAIN external', NEW k \in DOMAIN external',
                      external'[i].event = external'[k].event
               PROVE  i = k
    BY DEF ProjectedOnce
  <2>1. CASE i \in DOMAIN external /\ k \in DOMAIN external
    BY <1>2, <2>1 DEF Writers, ProjectedOnce
  <2>2. CASE i \notin DOMAIN external /\ k \notin DOMAIN external
    <3>1. i \in got /\ k \in got  BY <1>2, <2>2
    <3> QED  BY <1>2, <3>1
  <2>3. CASE i \in DOMAIN external /\ k \notin DOMAIN external
    <3>1. k \in got \ DOMAIN external /\ external[i].event = e  BY <1>2, <2>3
    <3> QED  BY <1>2, <2>3, <3>1 DEF RowsOf
  <2>4. CASE i \notin DOMAIN external /\ k \in DOMAIN external
    <3>1. i \in got \ DOMAIN external /\ external[k].event = e  BY <1>2, <2>4
    <3> QED  BY <1>2, <2>4, <3>1 DEF RowsOf
  <2> QED  BY <2>1, <2>2, <2>3, <2>4
<1>6. ASSUME NEW u \in Consumer, Writing(u)' PROVE Written(u)'
  <2> DEFINE d == Doing(u).event
  <2>1. u # w /\ Writing(u) /\ Doing(u)' = Doing(u) /\ work'[u] = work[u]  BY <1>4, <1>6
  <2>2. Written(u)  BY <2>1 DEF Writers
  <2>3. CASE ~Listed(d)  BY <2>1, <2>2, <2>3 DEF Written, Listed
  <2>4. CASE Listed(d)
    <3>1. PICK k \in 1 .. drawn : /\ work[u].got = {k}
              /\ IF k \in DOMAIN external THEN external[k].event = d ELSE RowsOf(d) = {}
      BY <2>2, <2>4 DEF Written
    <3>2. d # e  BY <1>1, <2>1, <2>4 DEF Writers
    <3> HIDE DEF d, e
    <3>3. CASE k \in DOMAIN external
      <4>1. k \in DOMAIN external' /\ external'[k].event = d  BY <1>2, <3>1, <3>3
      <4> QED  BY <1>1, <2>1, <2>4, <3>1, <4>1 DEF Written, Listed, d
    <3>4. CASE k \notin DOMAIN external
      <4>1. k \notin got  BY <1>1, <2>1, <3>1, <3>4 DEF Writers
      <4>2. k \notin DOMAIN external' /\ RowsOf(d) = {}  BY <1>2, <3>1, <3>4, <4>1
      <4>3. \A i \in DOMAIN external' : external'[i].event # d
        BY <1>2, <3>2, <4>2 DEF RowsOf
      <4> QED  BY <1>1, <2>1, <2>4, <3>1, <4>2, <4>3 DEF Written, Listed, RowsOf, d
    <3> QED  BY <3>3, <3>4
  <2> QED  BY <2>3, <2>4
<1>7. ASSUME NEW u \in Consumer, NEW v \in Consumer, u # v, Writing(u)', Writing(v)'
      PROVE  /\ Listed(Doing(u)'.event) => Doing(u)'.event # Doing(v)'.event
             /\ \A i \in work'[u].got \ DOMAIN external' : i \notin work'[v].got
  <2>1. /\ Writing(u) /\ Doing(u)' = Doing(u) /\ work'[u] = work[u]
        /\ Writing(v) /\ Doing(v)' = Doing(v) /\ work'[v] = work[v]
    BY <1>4, <1>7
  <2>2. /\ Listed(Doing(u).event) => Doing(u).event # Doing(v).event
        /\ \A i \in work[u].got \ DOMAIN external : i \notin work[v].got
    BY <1>7, <2>1 DEF Writers
  <2> QED  BY <1>2, <2>1, <2>2
<1> QED  BY <1>5, <1>6, <1>7 DEF Writers, Listed

LEMMA WritersStep ==
  ASSUME Shape, Writers, QueueGrows, [IndexNext]_allVars
  PROVE  Writers'
<1>1. ASSUME NEW w \in Consumer,
             InsertExternalEvent(w) \/ PassOver(w) \/ Commit(w)
      PROVE  Writers'
  BY <1>1, InsertWriters, PassOverWriters, CommitWriters
<1>2. ASSUME NEW w \in Consumer,
             \/ HeartbeatBatch(w) \/ Indexing(w) \/ ClaimBatch(w) \/ Abort(w) \/ CrashWorker(w)
             \/ ~IsIndexer(w) /\ (\/ StartJob(w) \/ EndJob(w)
                                  \/ AskSource(w) \/ Post(w) \/ HeartbeatJob(w))
      PROVE  Writers'
  <2>1. Calm  BY <1>2, OnwardSteps, CalmSteps DEF Indexing
  <2>2. UNCHANGED <<external, drawn>>
    BY <1>2 DEF HeartbeatBatch, Indexing, StartBatch, Load, DeleteKeys, UpsertRows, AckWritten,
         RetryFailed, ClaimBatch, Abort, CrashWorker, StartJob, EndJob, AskSource, Post,
         HeartbeatJob, otherVars, tableVars
  <2> QED  BY <2>1, <2>2, CalmKeeps
<1>3. ASSUME UNCHANGED work,
             \/ (\E t \in Resource : ChangeResource(t)) \/ Producers
             \/ ListEvents \/ MatchNext \/ EnqueueDeliveries \/ SaveCheckpoint
             \/ (\E e \in Event : EnqueueProjection(e)) \/ (\E s \in Sub : Switch(s))
             \/ UNCHANGED allVars
      PROVE  Writers'
  <2>1. Calm  BY <1>3 DEF Calm, Writing
  <2>2. UNCHANGED <<external, drawn>>
    BY <1>3 DEF ChangeResource, Producers, EnqueueSync, ListEvents, MatchNext, EnqueueDeliveries,
         SaveCheckpoint, EnqueueProjection, Switch, allVars, vars, otherVars, tableVars
  <2> QED  BY <2>1, <2>2, CalmKeeps
<1>4. ASSUME TickAll PROVE Writers'
  <2>1. UNCHANGED <<external, drawn>>  BY <1>4 DEF TickAll, tableVars
  <2> QED  BY <1>4, <2>1, CalmTick, CalmKeeps
<1>5. ASSUME \/ (\E t \in Resource : ChangeResource(t)) \/ Producers
             \/ ListEvents \/ MatchNext \/ EnqueueDeliveries \/ SaveCheckpoint
             \/ (\E e \in Event : EnqueueProjection(e)) \/ (\E s \in Sub : Switch(s))
             \/ UNCHANGED allVars
      PROVE  UNCHANGED work
  BY <1>5 DEF ChangeResource, Producers, EnqueueSync, ListEvents, MatchNext, EnqueueDeliveries,
         SaveCheckpoint, EnqueueProjection, Switch, allVars, vars
<1> QED
  BY <1>1, <1>2, <1>3, <1>4, <1>5 DEF IndexNext, Working, Producing

LEMMA InitShape ==
  ASSUME IndexInit
  PROVE  Shape /\ Writers
<1>1. /\ scene \in Scenes /\ jobs = [j \in {} |-> 0] /\ queued = <<>> /\ left = {}
      /\ work = [w \in Consumer |-> Resting] /\ faults = MaxFaults - scene.faults
      /\ external = [i \in DOMAIN scene.events |->
           [event |-> scene.events[i], feeds |-> FeedsOf(scene.events[i])]]
      /\ drawn = Len(scene.events) /\ failures = {} /\ disorder = {}
      /\ enabled = Sub /\ everOff = {} /\ checkpoint = 0 /\ round = Idle
      /\ version = [t \in Resource |-> 0] /\ changed = scene.synced
      /\ since = [t \in Resource |-> version]
      /\ index = [t \in Target |-> IF t \in Resource THEN [q \in Parts(t) |-> 0] ELSE Absent]
  BY DEF IndexInit, Init, QueueInit
<1>2. /\ scene.events \in Seq(Event) /\ IsInjective(scene.events) /\ scene.faults \in Nat
      /\ scene.synced \subseteq Event
      /\ scene.crew \in [Consumer -> {"projector", "webhook", "indexer"}]
  BY <1>1, PipelineAssumption
<1>3. DOMAIN scene.events = 1 .. Len(scene.events) /\ Len(scene.events) \in Nat
      /\ \A i \in DOMAIN scene.events : scene.events[i] \in Event
  BY <1>2, LenProperties, ElementOfSeq
<1>4. QueueShape
  <2>1. queued \in Seq(Item) /\ DOMAIN jobs = {}  BY <1>1
  <2> QED  BY <1>1, <2>1 DEF QueueShape
<1>5. WorkShape
  <2>1. \A w \in Consumer : RecOK(Resting, scene.crew[w], queued)  BY <1>2, RestingOK
  <2>2. faults \in Int  BY <1>1, <1>2, PipelineAssumption
  <2> QED  BY <1>1, <2>1, <2>2 DEF WorkShape
<1>6. \A i \in DOMAIN external : external[i] \in Post_ /\ external[i].event = scene.events[i]
  BY <1>1, <1>3 DEF Post_, FeedsOf
<1>7. TableShape
  <2>1. DOMAIN external = 1 .. drawn /\ drawn \in Nat  BY <1>1, <1>3
  <2> QED  BY <1>1, <1>6, <2>1 DEF TableShape
<1>8. RoundShape
  <2>1. <<>> \in Seq(Nat) /\ <<>> \in Seq(Item) /\ DOMAIN <<>> = {}  OBVIOUS
  <2> QED  BY <1>1, <2>1 DEF RoundShape, Idle
<1>9. IndexShape  BY <1>1, <1>2 DEF IndexShape, Target
<1>10. Writers
  <2>1. \A w \in Consumer : ~Writing(w)  BY <1>1 DEF Writing, Resting
  <2>2. ProjectedOnce
    BY <1>1, <1>2, <1>6 DEF ProjectedOnce, IsInjective
  <2> QED  BY <2>1, <2>2 DEF Writers
<1> QED  BY <1>4, <1>5, <1>7, <1>8, <1>9, <1>10 DEF Shape

LEMMA BasicsStep ==
  ASSUME Shape, Writers, [IndexNext]_allVars
  PROVE  Shape' /\ Writers' /\ QueueGrows /\ UNCHANGED scene
<1>1. \A w \in Consumer : work[w].pc = "written" => work[w].got \subseteq 1 .. drawn
  BY DEF Writers, Writing, Written
<1>2. Shape' /\ QueueGrows /\ UNCHANGED scene  BY <1>1, ShapeStep
<1> QED  BY <1>2, WritersStep

\* The variables are what TypeOK says, and whatever the workers of the projector,
\* the producer and the indexers do, an internal event becomes at most one external
\* event (projector.go:266): between a worker's insert and its commit no other has
\* the same event, and the id it holds is of no one else.
THEOREM BasicsAlways == IndexSpec => [](Shape /\ Writers)
<1>1. IndexInit => Shape /\ Writers  BY InitShape
<1>2. Shape /\ Writers /\ [IndexNext]_allVars => (Shape /\ Writers)'  BY BasicsStep
<1> QED  BY <1>1, <1>2, PTL DEF IndexSpec

\* TypeOK is what the runs check of that shape.
THEOREM PipelineTypes == IndexSpec => []TypeOK
<1>1. ASSUME Shape, Writers PROVE TypeOK
  <2>1. \A j \in DOMAIN jobs :
       /\ j \in DOMAIN queued /\ jobs[j].item = queued[j]
       /\ jobs[j].lease \in 0 .. Lease /\ jobs[j].wait \in 0 .. RetryDelay
       /\ jobs[j].holder = NoConsumer => jobs[j].lease = 0
    BY <1>1 DEF Shape, QueueShape, Job
  <2>2. \A w \in Consumer : work[w].pc = "rest" <=> work[w].batch = <<>>
    BY <1>1 DEF Shape, WorkShape, RecOK
  <2> QED  BY <1>1, <2>1, <2>2 DEF TypeOK, Shape, TableShape, RoundShape
<1> QED  BY <1>1, BasicsAlways, PTL

\* However often its job is delivered, and to however many workers at once, an
\* internal event becomes one external event (projector.go:266, dedupe_key).
THEOREM EventsProjectedOnce == IndexSpec => []ProjectedOnce
<1>1. Writers => ProjectedOnce  BY DEF Writers
<1> QED  BY <1>1, BasicsAlways, PTL

-----------------------------------------------------------------------------
(* No job is lost.                                                         *)

MoreDone ==
  /\ \A i \in DOMAIN external : i \in DOMAIN external' /\ external'[i].event = external[i].event
  /\ failures \subseteq failures' /\ delivered \subseteq delivered' /\ everOff \subseteq everOff'

LEMMA DoneStays ==
  ASSUME MoreDone, NEW x, Done(x)
  PROVE  Done(x)'
<1>1. ASSUME NEW e, RowsOf(e) # {} PROVE RowsOf(e)' # {}
  <2>1. PICK i \in DOMAIN external : external[i].event = e  BY <1>1 DEF RowsOf
  <2>2. i \in RowsOf(e)'  BY <2>1 DEF MoreDone, RowsOf
  <2> QED  BY <2>2
<1> QED  BY <1>1 DEF Done, MoreDone

LEMMA MoreDoneStep ==
  ASSUME Shape, Writers, [IndexNext]_allVars
  PROVE  MoreDone
<1>1. ASSUME NEW w \in Consumer, Commit(w) PROVE MoreDone
  BY <1>1, CommitEvents DEF Commit, subVars, MoreDone
<1>2. ASSUME NEW w \in Consumer,
             \/ HeartbeatBatch(w) \/ Indexing(w) \/ ClaimBatch(w) \/ Abort(w) \/ CrashWorker(w)
             \/ ~IsIndexer(w) /\ (\/ StartJob(w) \/ EndJob(w) \/ InsertExternalEvent(w)
                    \/ PassOver(w) \/ AskSource(w) \/ Post(w) \/ HeartbeatJob(w))
      PROVE  MoreDone
  <2>1. UNCHANGED <<external, failures, everOff>> /\ delivered \subseteq delivered'
    BY <1>2 DEF HeartbeatBatch, Indexing, StartBatch, Load, DeleteKeys, UpsertRows, AckWritten,
         RetryFailed, ClaimBatch, Abort, CrashWorker, StartJob, EndJob, AskSource, Post,
         HeartbeatJob, InsertExternalEvent, PassOver, otherVars, tableVars, subVars
  <2> QED  BY <2>1 DEF MoreDone
<1>3. ASSUME \/ (\E t \in Resource : ChangeResource(t)) \/ Producers
             \/ ListEvents \/ MatchNext \/ EnqueueDeliveries \/ SaveCheckpoint \/ TickAll
             \/ (\E e \in Event : EnqueueProjection(e)) \/ (\E s \in Sub : Switch(s))
             \/ UNCHANGED allVars
      PROVE  MoreDone
  <2>1. UNCHANGED <<external, failures, delivered>> /\ everOff \subseteq everOff'
    BY <1>3 DEF ChangeResource, Producers, EnqueueSync, ListEvents, MatchNext, EnqueueDeliveries,
         SaveCheckpoint, EnqueueProjection, Switch, TickAll, allVars, vars, otherVars, tableVars,
         subVars
  <2> QED  BY <2>1 DEF MoreDone
<1> QED  BY <1>1, <1>2, <1>3 DEF IndexNext, Working, Producing

LEMMA InitFinished == IndexInit => Finished
<1> SUFFICES ASSUME IndexInit PROVE Finished  OBVIOUS
<1>1. left = {} /\ \A w \in Consumer : work[w].pc = "rest"
  BY DEF IndexInit, Init, QueueInit, Resting
<1> QED  BY <1>1 DEF Finished, LeftIsDone

\* What a step has to show: the workers that end well and the jobs that leave.
LEMMA FinishedBy ==
  ASSUME Shape, Finished, MoreDone, QueueGrows,
         \A u \in Consumer : work'[u].pc = "done" =>
            \/ work[u].pc = "done" /\ work'[u].batch = work[u].batch
            \/ Done(Doing(u))' /\ Doing(u)' = Doing(u),
         \A j \in left' \ left : j \in DOMAIN queued /\ Done(queued[j])
  PROVE  Finished'
<1>1. ASSUME NEW u \in Consumer, work'[u].pc = "done" PROVE Done(Doing(u))'
  <2>1. CASE work[u].pc = "done" /\ work'[u].batch = work[u].batch
    <3>1. Doing(u)' = Doing(u)  BY <2>1, DoingKept DEF Shape
    <3>2. Done(Doing(u))  BY <2>1 DEF Finished
    <3>3. PICK x : x = Doing(u)  OBVIOUS
    <3>4. Done(x)  BY <3>2, <3>3
    <3>5. Done(x)'  BY <3>4, DoneStays
    <3> QED  BY <3>1, <3>3, <3>5 DEF Done, RowsOf
  <2> QED  BY <1>1, <2>1
<1>2. ASSUME NEW j \in left' PROVE Done(queued[j])'
  <2>1. j \in DOMAIN queued /\ Done(queued[j])
    BY <1>2 DEF Finished, LeftIsDone, Shape, QueueShape
  <2>2. PICK x : x = queued[j]  OBVIOUS
  <2>3. Done(x) /\ queued'[j] = x  BY <2>1, <2>2 DEF QueueGrows
  <2>4. Done(x)'  BY <2>3, DoneStays
  <2> QED  BY <2>3, <2>4 DEF Done, RowsOf
<1> QED  BY <1>1, <1>2 DEF Finished, LeftIsDone

LEMMA FinishedStep ==
  ASSUME Shape, Writers, Finished, [IndexNext]_allVars
  PROVE  Finished'
<1>1. MoreDone /\ QueueGrows /\ Shape'  BY MoreDoneStep, BasicsStep
<1>2. ASSUME NEW w \in Consumer,
             \/ HeartbeatBatch(w) \/ Indexing(w) \/ ClaimBatch(w) \/ Abort(w) \/ CrashWorker(w)
             \/ ~IsIndexer(w) /\ (\/ StartJob(w) \/ EndJob(w)
                                  \/ AskSource(w) \/ Post(w) \/ HeartbeatJob(w))
      PROVE  Finished'
  <2>1. Onward(w)  BY <1>2, OnwardSteps DEF Indexing
  <2>2. CASE ~(AskSource(w) \/ Post(w))
    <3>1. \A u \in Consumer : work'[u].pc = "done" =>
            work[u].pc = "done" /\ work'[u].batch = work[u].batch
      BY <2>1, <2>2 DEF Onward
    <3>2. \A j \in left' \ left : j \in DOMAIN queued /\ Done(queued[j])
      <4> SUFFICES ASSUME NEW j \in left' \ left PROVE j \in DOMAIN queued /\ Done(queued[j])
        OBVIOUS
      <4>1. EndJob(w) \/ AckWritten(w)
        BY <1>2, <2>2 DEF HeartbeatBatch, Indexing, StartBatch, Load, DeleteKeys, UpsertRows,
           RetryFailed, RetryJobs, ClaimBatch, Claim, Abort, CrashWorker, Crash, StartJob, Start,
           HeartbeatJob, Beat, queueVars
      <4>2. CASE EndJob(w)
        <5>1. work[w].pc = "done" /\ j = InHand(w)
          BY <4>2 DEF EndJob, Settle, AckJobs, RetryJobs
        <5>2. Done(Doing(w)) /\ InHand(w) \in DOMAIN queued
          BY <5>1, HandFacts DEF Finished, Shape
        <5> QED  BY <5>1, <5>2 DEF Doing
      <4>3. CASE AckWritten(w)
        <5>1. j \in InBatch(w) /\ scene.crew[w] = "indexer"
          BY <4>3 DEF AckWritten, AckJobs, JobsAt, IsIndexer
        <5>2. j \in DOMAIN queued /\ queued[j].to = "indexer"  BY <5>1, BatchItems DEF Shape
        <5> QED  BY <5>2 DEF Done
      <4> QED  BY <4>1, <4>2, <4>3
    <3> QED  BY <1>1, <3>1, <3>2, FinishedBy
  <2>3. CASE AskSource(w) \/ Post(w)
    <3>1. left' = left /\ work[w].pc \in {"ask", "post"}
      BY <2>3 DEF AskSource, Post, queueVars
    <3>2. scene.crew[w] = "webhook" /\ Doing(w) \in Item /\ Doing(w).to = "webhook"
      BY <3>1, PcCrew, HandFacts DEF Shape
    <3>3. Doing(w).sub \in Sub  BY <3>2, ItemKinds
    <3>4. work'[w].pc = "done" => work'[w].batch = work[w].batch
      BY <2>1, <3>1 DEF Onward
    <3>5. work'[w].pc = "done" => Doing(w)' = Doing(w)
      BY <1>1, <3>1, <3>4, DoingKept DEF Shape
    <3>6. work'[w].pc = "done" => Done(Doing(w))'
      <4> SUFFICES ASSUME work'[w].pc = "done" PROVE Done(Doing(w))'  OBVIOUS
      <4>1. DOMAIN work = Consumer /\ work[w] \in WorkRec(scene.crew[w])
        BY DEF Shape, WorkShape, RecOK
      <4>2. CASE AskSource(w)
        <5>1. work'[w].pc = IF Doing(w).sub \in enabled THEN "post" ELSE "done"
          BY <4>1, <4>2 DEF AskSource, Step, WorkRec
        <5>2. Doing(w).sub \notin enabled /\ everOff' = everOff  BY <4>2, <5>1 DEF AskSource, subVars
        <5>3. Doing(w).sub \in everOff'  BY <3>3, <5>2 DEF Shape, TableShape
        <5> QED  BY <3>2, <3>5, <5>3 DEF Done
      <4>3. CASE Post(w)
        <5>1. delivered' = delivered \cup {Doing(w)}
          BY <4>1, <4>3 DEF Post, Step, WorkRec
        <5> QED  BY <3>2, <3>5, <5>1 DEF Done
      <4> QED  BY <2>3, <4>2, <4>3
    <3>7. \A u \in Consumer : work'[u].pc = "done" =>
            \/ work[u].pc = "done" /\ work'[u].batch = work[u].batch
            \/ Done(Doing(u))' /\ Doing(u)' = Doing(u)
      BY <2>1, <3>5, <3>6 DEF Onward
    <3> QED  BY <1>1, <3>1, <3>7, FinishedBy
  <2> QED  BY <2>2, <2>3
<1>3. ASSUME NEW w \in Consumer, InsertExternalEvent(w) \/ PassOver(w) PROVE Finished'
  <2>1. /\ left' = left /\ \A u \in Consumer \ {w} : work'[u] = work[u]
        /\ work'[w].pc = "written"
    BY <1>3 DEF InsertExternalEvent, PassOver, Step, queueVars, Shape, WorkShape, RecOK, WorkRec
  <2>2. \A u \in Consumer : work'[u].pc = "done" =>
            work[u].pc = "done" /\ work'[u].batch = work[u].batch
    BY <2>1
  <2> QED  BY <1>1, <2>1, <2>2, FinishedBy
<1>4. ASSUME NEW w \in Consumer, Commit(w) PROVE Finished'
  <2>1. /\ left' = left /\ \A u \in Consumer \ {w} : work'[u] = work[u]
        /\ work'[w].pc = "done" /\ work'[w].batch = work[w].batch /\ work[w].pc = "written"
    BY <1>4 DEF Commit, Step, queueVars, Shape, WorkShape, RecOK, WorkRec
  <2>2. Doing(w)' = Doing(w)  BY <1>1, <2>1, DoingKept DEF Shape
  <2>3. Done(Doing(w))'
    <3> DEFINE e == Doing(w).event
    <3>1. Doing(w).to = "projector"  BY <2>1, ProjectorHand DEF Shape
    <3>2. CASE Listed(e)
      <4>1. PICK i : work[w].got = {i}  BY <1>4, <3>2, CommitEvents
      <4>2. i \in DOMAIN external' /\ external'[i].event = e  BY <1>4, <4>1, CommitEvents
      <4> QED  BY <2>2, <3>1, <4>2 DEF Done, RowsOf
    <3>3. CASE KindOf[e] = "malformed"
      <4>1. e \in failures'  BY <1>4, <3>3 DEF Commit
      <4> QED  BY <2>2, <3>1, <4>1 DEF Done
    <3>4. CASE KindOf[e] = "unlisted"  BY <2>2, <3>1, <3>4 DEF Done
    <3> QED  BY <3>2, <3>3, <3>4 DEF Listed
  <2>4. \A u \in Consumer : work'[u].pc = "done" =>
            \/ work[u].pc = "done" /\ work'[u].batch = work[u].batch
            \/ Done(Doing(u))' /\ Doing(u)' = Doing(u)
    BY <2>1, <2>2, <2>3
  <2> QED  BY <1>1, <2>1, <2>4, FinishedBy
<1>5. ASSUME \/ (\E t \in Resource : ChangeResource(t)) \/ Producers
             \/ ListEvents \/ MatchNext \/ EnqueueDeliveries \/ SaveCheckpoint
             \/ (\E e \in Event : EnqueueProjection(e)) \/ (\E s \in Sub : Switch(s))
             \/ UNCHANGED allVars
      PROVE  Finished'
  <2>1. UNCHANGED <<work, left>>
    BY <1>5 DEF ChangeResource, Producers, EnqueueSync, ListEvents, MatchNext, EnqueueDeliveries,
         SaveCheckpoint, EnqueueProjection, Switch, Enqueued, allVars, vars, queueVars
  <2> QED  BY <1>1, <2>1, FinishedBy
<1>6. ASSUME TickAll PROVE Finished'
  <2>1. left' = left /\ \A u \in Consumer : work'[u].pc = work[u].pc /\ work'[u].batch = work[u].batch
    BY <1>6 DEF TickAll, Tick, Shape, WorkShape, RecOK, WorkRec
  <2> QED  BY <1>1, <2>1, FinishedBy
<1> QED
  BY <1>2, <1>3, <1>4, <1>5, <1>6 DEF IndexNext, Working, Producing

\* A job leaves the queue only when what it asks for is done, or need not be: no
\* crash, lapsed lease, aborted transaction or refused POST loses it (api.go:124-138).
THEOREM JobsLeaveDone == IndexSpec => []LeftIsDone
<1>1. IndexInit => Finished  BY InitFinished
<1>2. Shape /\ Writers /\ Finished /\ [IndexNext]_allVars => Finished'  BY FinishedStep
<1>3. Finished => LeftIsDone  BY DEF Finished
<1> QED  BY <1>1, <1>2, <1>3, BasicsAlways, PTL DEF IndexSpec

-----------------------------------------------------------------------------
(* One worker at a job.                                                    *)

\* The step takes no lease that u has away, and shortens none.
Leaves(u) ==
  \A j \in DOMAIN jobs' : j \in DOMAIN queued =>
    /\ j \in DOMAIN jobs
    /\ jobs[j].holder = u /\ jobs[j].lease > 0 =>
         jobs'[j].holder = u /\ jobs'[j].lease >= jobs[j].lease

\* u goes on with the job it is at, or starts one it has claimed.
GoesOn(u) == /\ Handling(u) /\ work'[u].batch = work[u].batch /\ work'[u].late = work[u].late
Starting(u) ==
  /\ work[u].pc = "turn" /\ work'[u].batch = work[u].batch /\ work'[u].beat = 0 /\ UNCHANGED jobs
  /\ ~work'[u].late => /\ InHand(u) \in DOMAIN jobs /\ jobs[InHand(u)].holder = u
                       /\ jobs[InHand(u)].lease > Interval

LEMMA LeavesSame ==
  ASSUME Shape, UNCHANGED jobs, NEW u
  PROVE  Leaves(u)
<1>1. \A j \in DOMAIN jobs : jobs[j].lease \in Int
  BY PipelineAssumption DEF Shape, QueueShape, Job
<1> QED  BY <1>1 DEF Leaves

LEMMA LeavesEnqueued ==
  ASSUME Shape, NEW items \in Seq(Item), Enqueued(items, 0), NEW u
  PROVE  Leaves(u)
<1>1. \A j \in DOMAIN jobs : jobs'[j] = jobs[j] /\ jobs[j].lease \in Int
  BY EnqueuedKeeps, PipelineAssumption DEF Shape, QueueShape, Job
<1>2. \A j \in DOMAIN jobs' : j \in DOMAIN queued => j \in DOMAIN jobs
  BY EnqueuedKeeps DEF Shape
<1> QED  BY <1>1, <1>2 DEF Leaves

\* What the calls of w do to the jobs of the others; a renewal does no harm at all.
LEMMA LeavesCalls ==
  ASSUME Shape, NEW w \in Consumer, NEW S,
         \/ AckJobs(w, S) \/ RetryJobs(w, S)
         \/ Hold(w, S) /\ \A j \in S \cap DOMAIN jobs : jobs[j].lease = 0
  PROVE  \A u \in Consumer \ {w} : Leaves(u)
<1>1. \A j \in DOMAIN jobs : /\ jobs[j] \in Job /\ jobs[j].lease \in Int
                             /\ jobs[j].lease >= jobs[j].lease
  BY PipelineAssumption DEF Shape, QueueShape, Job
<1>2. CASE AckJobs(w, S)  BY <1>1, <1>2 DEF AckJobs, Leaves
<1>3. CASE RetryJobs(w, S)  BY <1>1, <1>3 DEF RetryJobs, Leaves
<1>4. CASE Hold(w, S) /\ \A j \in S \cap DOMAIN jobs : jobs[j].lease = 0
  <2>1. \A j \in DOMAIN jobs : jobs[j].lease > 0 => jobs'[j] = jobs[j]
    BY <1>1, <1>4 DEF Hold
  <2>2. DOMAIN jobs' = DOMAIN jobs  BY <1>4 DEF Hold
  <2> QED  BY <1>1, <2>1, <2>2 DEF Leaves
<1> QED  BY <1>2, <1>3, <1>4

LEMMA LeavesRenewed ==
  ASSUME Shape, NEW w \in Consumer, NEW S, NEW u,
         jobs' = [j \in DOMAIN jobs |-> IF j \in S /\ jobs[j].holder = w
                                        THEN Renewed(jobs[j]) ELSE jobs[j]]
  PROVE  Leaves(u)
<1>1. \A j \in DOMAIN jobs : /\ jobs[j] \in Job /\ jobs[j].lease \in Int /\ jobs[j].lease =< Lease
  BY PipelineAssumption DEF Shape, QueueShape, Job
<1>2. \A j \in DOMAIN jobs : /\ Renewed(jobs[j]).holder = jobs[j].holder
                             /\ Renewed(jobs[j]).lease = Lease
  BY <1>1 DEF Renewed, Job
<1>3. /\ DOMAIN jobs' = DOMAIN jobs
      /\ \A j \in DOMAIN jobs : jobs'[j] = Renewed(jobs[j]) \/ jobs'[j] = jobs[j]
  OBVIOUS
<1>4. Lease \in Int  BY PipelineAssumption
<1>5. \A j \in DOMAIN jobs : jobs'[j].holder = jobs[j].holder /\ jobs'[j].lease >= jobs[j].lease
  BY <1>1, <1>2, <1>3, <1>4
<1> QED  BY <1>3, <1>5 DEF Leaves

\* A heartbeat that does not fail renews the job in hand.
LEMMA BeatRenews ==
  ASSUME Shape, NEW w \in Consumer, HeartbeatJob(w) \/ HeartbeatBatch(w), faults' = faults
  PROVE  /\ DOMAIN jobs' = DOMAIN jobs
         /\ InHand(w) \in DOMAIN jobs /\ jobs[InHand(w)].holder = w =>
              jobs'[InHand(w)].holder = w /\ jobs'[InHand(w)].lease = Lease
<1> DEFINE j == InHand(w)
<1>1. work[w].pc # "rest"  BY DEF HeartbeatJob, HeartbeatBatch, Beat, Handling
<1>2. j \in InBatch(w)  BY <1>1, HandFacts DEF Shape
<1>3. faults \in Int  BY DEF Shape, WorkShape
<1>4. ~Fail  BY <1>3 DEF Fail
<1>5. PICK S : /\ j \in S
               /\ jobs' = [i \in DOMAIN jobs |-> IF i \in S /\ jobs[i].holder = w
                                                 THEN Renewed(jobs[i]) ELSE jobs[i]]
  <2>1. CASE HeartbeatJob(w)
    <3>1. jobs' = [i \in DOMAIN jobs |-> IF i \in {j} /\ jobs[i].holder = w
                                                 THEN Renewed(jobs[i]) ELSE jobs[i]]
      BY <1>4, <2>1 DEF HeartbeatJob, Beat
    <3> QED  BY <3>1
  <2>2. CASE HeartbeatBatch(w)  BY <1>2, <1>4, <2>2 DEF HeartbeatBatch
  <2> QED  BY <2>1, <2>2
<1> HIDE DEF j
<1>6. j \in DOMAIN jobs => jobs[j] \in Job  BY DEF Shape, QueueShape
<1> QED  BY <1>5, <1>6 DEF Renewed, Job, j

\* The steps of w: no other's lease suffers, nor its own while it goes on.
LEMMA LeavesSteps ==
  ASSUME Shape, NEW w \in Consumer,
         \/ HeartbeatBatch(w) \/ StartBatch(w) \/ Load(w) \/ DeleteKeys(w)
         \/ UpsertRows(w) \/ AckWritten(w) \/ RetryFailed(w)
         \/ ClaimBatch(w) \/ Abort(w) \/ CrashWorker(w) \/ (StartJob(w) /\ ~IsIndexer(w))
         \/ EndJob(w) \/ AskSource(w) \/ Post(w) \/ HeartbeatJob(w)
  PROVE  /\ \A u \in Consumer \ {w} : Leaves(u)
         /\ Handling(w)' => Leaves(w)
         /\ faults' = faults \/ Fail
<1>0. faults' = faults \/ Fail
  BY DEF HeartbeatBatch, StartBatch, Load, DeleteKeys, UpsertRows, AckWritten, RetryFailed,
         ClaimBatch, Claim, Abort, CrashWorker, Crash, StartJob, Start, EndJob, Settle, AskSource,
         Post, HeartbeatJob, Beat
<1>1. CASE UNCHANGED jobs  BY <1>0, <1>1, LeavesSame
<1>2. CASE HeartbeatBatch(w) \/ HeartbeatJob(w)
  <2>1. PICK S : \/ UNCHANGED jobs
                 \/ jobs' = [j \in DOMAIN jobs |-> IF j \in S /\ jobs[j].holder = w
                                           THEN Renewed(jobs[j]) ELSE jobs[j]]
    <3>1. CASE HeartbeatBatch(w)  BY <3>1 DEF HeartbeatBatch
    <3>2. CASE HeartbeatJob(w)
      <4>1. \/ UNCHANGED jobs
            \/ jobs' = [j \in DOMAIN jobs |-> IF j \in {InHand(w)} /\ jobs[j].holder = w
                                           THEN Renewed(jobs[j]) ELSE jobs[j]]
        BY <3>2 DEF HeartbeatJob, Beat
      <4> QED  BY <4>1
    <3> QED  BY <1>2, <3>1, <3>2
  <2> QED  BY <1>0, <1>1, <2>1, LeavesRenewed
<1>3. CASE EndJob(w)
  <2> DEFINE n == IF Tail(work[w].batch) = <<>> THEN Resting
                  ELSE [Resting EXCEPT !.pc = "turn", !.batch = Tail(work[w].batch)]
  <2>1. work' = [work EXCEPT ![w] = n] \/ work' = [work EXCEPT ![w] = Resting]
    BY <1>3 DEF EndJob, Settle, NextRound
  <2>2. n.pc \in {"rest", "turn"} /\ Resting.pc = "rest"  BY DEF Resting
  <2> HIDE DEF n
  <2>3. ~Handling(w)'  BY <2>1, <2>2 DEF Handling, Shape, WorkShape
  <2>4. AckJobs(w, {InHand(w)}) \/ RetryJobs(w, {InHand(w)}) \/ UNCHANGED jobs
    BY <1>3 DEF EndJob, Settle
  <2> QED  BY <1>0, <1>1, <2>3, <2>4, LeavesCalls
<1>4. CASE AckWritten(w)
  <2> DEFINE S == JobsAt(w, {"written"})
  <2>1. AckJobs(w, S) \/ UNCHANGED jobs  BY <1>4 DEF AckWritten
  <2> HIDE DEF S
  <2>2. CASE AckJobs(w, S)
    <3>1. \A u \in Consumer \ {w} : Leaves(u)  BY <2>2, LeavesCalls
    <3>2. \A j \in DOMAIN jobs' : jobs'[j] = jobs[j] /\ j \in DOMAIN jobs  BY <2>2 DEF AckJobs
    <3>3. \A j \in DOMAIN jobs : jobs[j].lease \in Int
      BY PipelineAssumption DEF Shape, QueueShape, Job
    <3>4. Leaves(w)  BY <3>2, <3>3 DEF Leaves
    <3> QED  BY <1>0, <3>1, <3>4
  <2> QED  BY <1>1, <2>1, <2>2
<1>5. CASE RetryFailed(w)
  <2> DEFINE S == JobsAt(w, {"error"})
  <2>1. /\ RetryJobs(w, S) \/ UNCHANGED jobs
        /\ work' = [work EXCEPT ![w] = Resting]
    BY <1>5 DEF RetryFailed
  <2> HIDE DEF S
  <2>2. ~Handling(w)'  BY <2>1 DEF Handling, Resting, Shape, WorkShape
  <2> QED  BY <1>0, <1>1, <2>1, <2>2, LeavesCalls
<1>6. CASE ClaimBatch(w)
  <2> DEFINE S == Grant(Mine(w), scene.claim)
             r == [Resting EXCEPT !.pc = "turn", !.batch = InOrder(S)]
  <2>1. /\ Hold(w, S) /\ work[w].pc = "rest"
        /\ work' = [work EXCEPT ![w] = r] \/ UNCHANGED work
    BY <1>6 DEF ClaimBatch, Claim
  <2>2. \A j \in S \cap DOMAIN jobs : jobs[j].lease = 0  BY DEF Grant, Claimable
  <2>3. r.pc = "turn"  BY DEF Resting
  <2> HIDE DEF S, r
  <2>4. ~Handling(w)'  BY <2>1, <2>3 DEF Handling, Shape, WorkShape
  <2> QED  BY <1>0, <2>1, <2>2, <2>4, LeavesCalls
<1>7. CASE \/ StartBatch(w) \/ Load(w) \/ DeleteKeys(w) \/ UpsertRows(w) \/ Abort(w)
           \/ CrashWorker(w) \/ StartJob(w) \/ AskSource(w) \/ Post(w)
  <2>1. UNCHANGED jobs
    BY <1>7 DEF StartBatch, Load, DeleteKeys, UpsertRows, Abort, CrashWorker, Crash, StartJob,
       Start, AskSource, Post, queueVars
  <2> QED  BY <1>1, <2>1
<1> QED  BY <1>2, <1>3, <1>4, <1>5, <1>6, <1>7

LEMMA KeptOn ==
  ASSUME Shape, Shape', QueueGrows, NEW u \in Consumer, Handling(u), KeptBy(u), Leaves(u),
         work'[u].batch = work[u].batch, work'[u].beat = work[u].beat
  PROVE  KeptBy(u)'
<1> DEFINE j == InHand(u)
<1>1. j \in DOMAIN queued /\ InHand(u)' = j
  BY HandFacts DEF Shape, Handling, InHand
<1>2. work[u].beat \in Int /\ work[u].beat =< Interval /\ Interval \in Int
  BY PipelineAssumption DEF Shape, WorkShape, RecOK, WorkRec
<1> SUFFICES ASSUME j \in DOMAIN jobs'
             PROVE  jobs'[j].holder = u /\ jobs'[j].lease + work[u].beat > Interval
  BY <1>1 DEF KeptBy
<1> HIDE DEF j
<1>3. j \in DOMAIN jobs  BY <1>1 DEF Leaves
<1>4. jobs[j].holder = u /\ jobs[j].lease + work[u].beat > Interval /\ jobs[j].lease \in Int
  BY <1>3, PipelineAssumption DEF KeptBy, Shape, QueueShape, Job, j
<1>5. jobs[j].lease > 0  BY <1>2, <1>4
<1>6. jobs'[j].holder = u /\ jobs'[j].lease >= jobs[j].lease  BY <1>1, <1>3, <1>4, <1>5 DEF Leaves
<1>7. jobs'[j].lease \in Int  BY PipelineAssumption DEF Shape, QueueShape, Job
<1> QED  BY <1>2, <1>4, <1>6, <1>7

LEMMA GoesOnSame ==
  ASSUME Shape, QueueGrows, NEW u \in Consumer, GoesOn(u) \/ Starting(u)
  PROVE  InHand(u)' = InHand(u) /\ InHand(u) \in DOMAIN queued
BY HandFacts DEF GoesOn, Starting, Handling, Shape, InHand

\* Two workers come to one job when both were at it, or when one starts it that has
\* the claim the other, by Kept, has too.
LEMMA SoleBy ==
  ASSUME Shape, QueueGrows, Kept, UNCHANGED scene, faults' = faults \/ Fail,
         \A u \in Consumer : Handling(u)' =>
            \/ GoesOn(u)
            \/ Starting(u) /\ \A v \in Consumer \ {u} : Handling(v)' => GoesOn(v)
  PROVE  SoleHandler' /\ (NoFault' => NoFault) /\ faults' >= MaxFaults - scene'.faults
<1>1. /\ faults \in Int /\ MaxFaults \in Int /\ scene.faults \in Int
      /\ faults >= MaxFaults - scene.faults
  BY PipelineAssumption DEF Shape, WorkShape, Kept
<1>2. (NoFault' => NoFault) /\ faults' >= MaxFaults - scene'.faults
  BY <1>1 DEF NoFault, Fail
<1>3. ASSUME NEW u \in Consumer, NEW v \in Consumer, u # v, Handling(u)', Handling(v)',
             InHand(u)' = InHand(v)', ~work'[u].late, ~work'[v].late,
             ~ faults' > MaxFaults - scene'.faults
      PROVE  FALSE
  <2>1. NoFault /\ ~ faults > MaxFaults - scene.faults  BY <1>1, <1>3 DEF Fail, NoFault
  <2>2. InHand(u) = InHand(v)  BY <1>3, GoesOnSame
  <2>3. CASE GoesOn(u) /\ GoesOn(v)
    BY <1>3, <2>1, <2>2, <2>3 DEF GoesOn, Kept, SoleHandler
  <2>4. CASE Starting(u) /\ GoesOn(v)
    <3>1. KeptBy(v)  BY <1>3, <2>1, <2>4 DEF GoesOn, Kept
    <3> QED  BY <1>3, <2>2, <2>4, <3>1 DEF Starting, KeptBy
  <2>5. CASE GoesOn(u) /\ Starting(v)
    <3>1. KeptBy(u)  BY <1>3, <2>1, <2>5 DEF GoesOn, Kept
    <3> QED  BY <1>3, <2>2, <2>5, <3>1 DEF Starting, KeptBy
  <2> QED  BY <1>3, <2>3, <2>4, <2>5
<1>4. SoleHandler'  BY <1>3 DEF SoleHandler
<1> QED  BY <1>2, <1>4

\* A worker that goes on keeps its job: it waits no longer, or its heartbeat came.
LEMMA KeptGoesOn ==
  ASSUME Shape, Shape', QueueGrows, Kept, NoFault, faults' = faults, NEW u \in Consumer, GoesOn(u),
         ~work'[u].late, Leaves(u),
         \/ work'[u].beat = work[u].beat
         \/ work'[u].beat = 0 /\ (HeartbeatBatch(u) \/ HeartbeatJob(u))
  PROVE  KeptBy(u)'
<1>1. Handling(u) /\ KeptBy(u) /\ work'[u].batch = work[u].batch  BY DEF GoesOn, Kept
<1>2. CASE work'[u].beat = work[u].beat  BY <1>1, <1>2, KeptOn
<1>3. CASE work'[u].beat = 0 /\ (HeartbeatBatch(u) \/ HeartbeatJob(u))
  <2> DEFINE j == InHand(u)
  <2>1. InHand(u)' = j  BY GoesOnSame
  <2>2. /\ DOMAIN jobs' = DOMAIN jobs
        /\ j \in DOMAIN jobs /\ jobs[j].holder = u => jobs'[j].holder = u /\ jobs'[j].lease = Lease
    BY <1>3, BeatRenews
  <2>3. j \in DOMAIN jobs' => jobs'[j].holder = u /\ jobs'[j].lease = Lease
    BY <1>1, <2>2 DEF KeptBy
  <2>4. Lease + 0 > Interval  BY PipelineAssumption
  <2> QED  BY <1>3, <2>1, <2>3, <2>4 DEF KeptBy
<1> QED  BY <1>2, <1>3

LEMMA KeptStarts ==
  ASSUME Shape, Shape', QueueGrows, NEW u \in Consumer, Starting(u), ~work'[u].late
  PROVE  KeptBy(u)'
<1> DEFINE j == InHand(u)
<1>1. InHand(u)' = j  BY GoesOnSame
<1>2. jobs' = jobs /\ work'[u].beat = 0 /\ jobs[j].holder = u /\ jobs[j].lease > Interval
  BY DEF Starting
<1>3. j \in DOMAIN jobs /\ jobs[j].lease \in Int
  BY PipelineAssumption DEF Starting, Shape, QueueShape, Job
<1>4. jobs[j].lease + 0 > Interval  BY <1>2, <1>3, PipelineAssumption
<1> QED  BY <1>1, <1>2, <1>4 DEF KeptBy

\* Time takes from a lease what it adds to the wait for the heartbeat.
LEMMA KeptTick ==
  ASSUME Shape, Shape', QueueGrows, Kept, NoFault, TickAll, NEW u \in Consumer, Handling(u)',
         ~work'[u].late
  PROVE  KeptBy(u)'
<1> DEFINE j == InHand(u)
<1>1. /\ work[u].pc # "turn" /\ (Handling(u) => work[u].beat < Interval) /\ Age
      /\ work'[u] = IF Handling(u) THEN [work[u] EXCEPT !.beat = @ + 1] ELSE work[u]
  BY DEF TickAll, Tick
<1>2. work[u] \in WorkRec(scene.crew[u])  BY DEF Shape, WorkShape, RecOK
<1>3. /\ Handling(u) /\ work'[u].batch = work[u].batch /\ work'[u].late = work[u].late
      /\ work'[u].beat = work[u].beat + 1 /\ work[u].beat < Interval
  BY <1>1, <1>2 DEF Handling, WorkRec
<1>4. KeptBy(u) /\ InHand(u)' = j  BY <1>3 DEF Kept, InHand
<1> SUFFICES ASSUME j \in DOMAIN jobs'
             PROVE  jobs'[j].holder = u /\ jobs'[j].lease + (work[u].beat + 1) > Interval
  BY <1>3, <1>4 DEF KeptBy
<1> HIDE DEF j
<1>5. j \in DOMAIN jobs /\ jobs'[j] = Older(jobs[j])  BY <1>1 DEF Age
<1>6. jobs[j] \in Job  BY <1>5 DEF Shape, QueueShape
<1>7. jobs'[j].holder = jobs[j].holder /\ jobs'[j].lease = Less(jobs[j].lease)
  BY <1>5, <1>6 DEF Older, Job
<1>8. /\ jobs[j].holder = u /\ jobs[j].lease + work[u].beat > Interval /\ jobs[j].lease \in Nat
      /\ work[u].beat \in Nat /\ Interval \in Nat
  BY <1>2, <1>4, <1>5, <1>6, PipelineAssumption DEF KeptBy, Job, WorkRec, j
<1>9. jobs[j].lease > 0  BY <1>3, <1>8
<1>10. Less(jobs[j].lease) = jobs[j].lease - 1  BY <1>9 DEF Less
<1> QED  BY <1>7, <1>8, <1>10

LEMMA OnwardFacts ==
  ASSUME NEW w \in Consumer, Onward(w), work'[w].pc \notin {"rest", "turn"}
  PROVE  \/ Starting(w)
         \/ GoesOn(w) /\ \/ work'[w].beat = work[w].beat
                         \/ work'[w].beat = 0 /\ (HeartbeatBatch(w) \/ HeartbeatJob(w))
<1> DEFINE o == work[w]  n == work'[w]  hb == HeartbeatBatch(w) \/ HeartbeatJob(w)
<1>1. \/ /\ n.pc = o.pc /\ n.batch = o.batch /\ n.late = o.late
         /\ n.beat = o.beat \/ (n.beat = 0 /\ hb)
      \/ /\ o.pc = "turn" /\ n.batch = o.batch /\ n.beat = 0 /\ jobs' = jobs
         /\ ~n.late => /\ InHand(w) \in DOMAIN jobs /\ jobs[InHand(w)].holder = w
                       /\ jobs[InHand(w)].lease > Interval
      \/ /\ n.batch = o.batch /\ n.late = o.late /\ n.beat = o.beat /\ o.pc \notin {"rest", "turn"}
  BY DEF Onward
<1> QED  BY <1>1 DEF GoesOn, Starting, Handling

LEMMA KeptStep ==
  ASSUME Shape, Writers, Kept, [IndexNext]_allVars
  PROVE  Kept'
<1>1. Shape' /\ QueueGrows /\ UNCHANGED scene  BY BasicsStep
\* Where no worker starts a job: the workers that go on keep theirs.
<1>2. ASSUME faults' = faults \/ Fail,
             \A u \in Consumer : Handling(u)' =>
               GoesOn(u) /\ Leaves(u) /\ work'[u].beat = work[u].beat
      PROVE  Kept'
  <2>1. SoleHandler' /\ (NoFault' => NoFault) /\ faults' >= MaxFaults - scene'.faults
    BY <1>1, <1>2, SoleBy
  <2>2. ASSUME NEW u \in Consumer, NoFault', Handling(u)', ~work'[u].late PROVE KeptBy(u)'
    <3>1. NoFault /\ faults' = faults  BY <1>1, <2>1, <2>2 DEF NoFault
    <3> QED  BY <1>1, <1>2, <2>2, <3>1, KeptGoesOn
  <2> QED  BY <2>1, <2>2 DEF Kept
<1>3. ASSUME NEW w \in Consumer,
             \/ HeartbeatBatch(w) \/ Indexing(w) \/ ClaimBatch(w) \/ Abort(w) \/ CrashWorker(w)
             \/ ~IsIndexer(w) /\ (\/ StartJob(w) \/ EndJob(w)
                                  \/ AskSource(w) \/ Post(w) \/ HeartbeatJob(w))
      PROVE  Kept'
  <2>1. /\ Onward(w)
        /\ faults' = faults \/ Fail
        /\ \A u \in Consumer \ {w} : Leaves(u)
        /\ Handling(w)' => Leaves(w)
    BY <1>3, OnwardSteps, LeavesSteps DEF Indexing
  <2>2. \A u \in Consumer \ {w} : work'[u] = work[u] /\ (Handling(u)' => GoesOn(u))
    BY <2>1 DEF Onward, GoesOn, Handling
  <2>3. Handling(w)' =>
          \/ Starting(w)
          \/ GoesOn(w) /\ \/ work'[w].beat = work[w].beat
                          \/ work'[w].beat = 0 /\ (HeartbeatBatch(w) \/ HeartbeatJob(w))
    BY <2>1, OnwardFacts DEF Handling
  <2>4. SoleHandler' /\ (NoFault' => NoFault) /\ faults' >= MaxFaults - scene'.faults
    BY <1>1, <2>1, <2>2, <2>3, SoleBy
  <2>5. ASSUME NEW u \in Consumer, NoFault', Handling(u)', ~work'[u].late PROVE KeptBy(u)'
    <3>1. NoFault /\ faults' = faults  BY <1>1, <2>4, <2>5 DEF NoFault
    <3>2. CASE u # w
      <4>1. GoesOn(u) /\ Leaves(u) /\ work'[u].beat = work[u].beat  BY <2>1, <2>2, <2>5, <3>2
      <4> QED  BY <1>1, <2>5, <3>1, <4>1, KeptGoesOn
    <3>3. CASE u = w
      <4>1. Leaves(u)  BY <2>1, <2>5, <3>3
      <4>2. CASE Starting(u)  BY <1>1, <2>5, <4>2, KeptStarts
      <4>3. CASE ~Starting(u)
        <5>1. GoesOn(u) /\ \/ work'[u].beat = work[u].beat
                           \/ work'[u].beat = 0 /\ (HeartbeatBatch(u) \/ HeartbeatJob(u))
          BY <2>3, <2>5, <3>3, <4>3
        <5> QED  BY <1>1, <2>5, <3>1, <4>1, <5>1, KeptGoesOn
      <4> QED  BY <4>2, <4>3
    <3> QED  BY <3>2, <3>3
  <2> QED  BY <2>4, <2>5 DEF Kept
<1>4. ASSUME NEW w \in Consumer, InsertExternalEvent(w) \/ PassOver(w) \/ Commit(w) PROVE Kept'
  <2>1. UNCHANGED <<jobs, faults>> /\ work[w].pc \in {"open", "written"}
    BY <1>4 DEF InsertExternalEvent, PassOver, Commit, queueVars
  <2>2. /\ \A u \in Consumer \ {w} : work'[u] = work[u]
        /\ work'[w].batch = work[w].batch /\ work'[w].late = work[w].late
        /\ work'[w].beat = work[w].beat
    BY <1>4 DEF InsertExternalEvent, PassOver, Commit, Step, Shape, WorkShape, RecOK, WorkRec
  <2>3. \A u \in Consumer : Leaves(u)  BY <2>1, LeavesSame
  <2>4. \A u \in Consumer : Handling(u)' => GoesOn(u) /\ work'[u].beat = work[u].beat
    BY <2>1, <2>2 DEF GoesOn, Handling
  <2> QED  BY <1>2, <2>1, <2>3, <2>4
<1>5. ASSUME \/ (\E t \in Resource : ChangeResource(t)) \/ Producers
             \/ ListEvents \/ MatchNext \/ EnqueueDeliveries \/ SaveCheckpoint
             \/ (\E e \in Event : EnqueueProjection(e)) \/ (\E s \in Sub : Switch(s))
             \/ UNCHANGED allVars
      PROVE  Kept'
  <2>1. UNCHANGED work /\ (faults' = faults \/ Fail)
    BY <1>5 DEF ChangeResource, Producers, EnqueueSync, ListEvents, MatchNext, EnqueueDeliveries,
         SaveCheckpoint, EnqueueProjection, Switch, allVars, vars
  <2>2. UNCHANGED jobs \/ \E items \in Seq(Item) : Enqueued(items, 0)
    <3>1. CASE Producers
      <4>1. PICK t \in Target : Enqueued(<<Sync(t)>>, 0)  BY <3>1 DEF Producers, EnqueueSync
      <4>2. <<Sync(t)>> \in Seq(Item)  BY DEF Item
      <4> QED  BY <4>1, <4>2
    <3>2. CASE \E e \in Event : EnqueueProjection(e)
      <4>1. PICK e \in Event : Enqueued(<<Project(e)>>, 0)  BY <3>2 DEF EnqueueProjection
      <4>2. <<Project(e)>> \in Seq(Item)  BY DEF Item
      <4> QED  BY <4>1, <4>2
    <3>3. CASE EnqueueDeliveries
      <4>1. round.items \in Seq(Item)  BY DEF Shape, RoundShape
      <4> QED  BY <3>3, <4>1 DEF EnqueueDeliveries, queueVars
    <3>4. CASE \/ (\E t \in Resource : ChangeResource(t)) \/ ListEvents \/ MatchNext
               \/ SaveCheckpoint \/ (\E s \in Sub : Switch(s)) \/ UNCHANGED allVars
      BY <3>4 DEF ChangeResource, ListEvents, MatchNext, SaveCheckpoint, Switch, allVars, vars,
         queueVars
    <3> QED  BY <1>5, <3>1, <3>2, <3>3, <3>4
  <2>3. \A u \in Consumer : Leaves(u)  BY <2>2, LeavesSame, LeavesEnqueued
  <2>4. \A u \in Consumer : Handling(u)' => GoesOn(u) /\ work'[u].beat = work[u].beat
    BY <2>1 DEF GoesOn, Handling
  <2> QED  BY <1>2, <2>1, <2>3, <2>4
<1>6. ASSUME TickAll PROVE Kept'
  <2>1. faults' = faults  BY <1>6 DEF TickAll, Tick
  <2>2. \A u \in Consumer : Handling(u)' => GoesOn(u)
    BY <1>6 DEF TickAll, Tick, Handling, GoesOn, Shape, WorkShape, RecOK, WorkRec
  <2>3. SoleHandler' /\ (NoFault' => NoFault) /\ faults' >= MaxFaults - scene'.faults
    BY <1>1, <2>1, <2>2, SoleBy
  <2>4. ASSUME NEW u \in Consumer, NoFault', Handling(u)', ~work'[u].late PROVE KeptBy(u)'
    BY <1>1, <1>6, <2>3, <2>4, KeptTick
  <2> QED  BY <2>3, <2>4 DEF Kept
<1> QED
  BY <1>3, <1>4, <1>5, <1>6 DEF IndexNext, Working, Producing

LEMMA InitKept == IndexInit => Kept
<1> SUFFICES ASSUME IndexInit PROVE Kept  OBVIOUS
<1>1. faults = MaxFaults - scene.faults /\ \A w \in Consumer : ~Handling(w)
  BY DEF IndexInit, Init, QueueInit, Resting, Handling
<1>2. faults \in Int  BY InitShape DEF Shape, WorkShape
<1> QED  BY <1>1, <1>2 DEF Kept, SoleHandler

\* Two workers are at one job at once only when a call or a process failed, or when
\* the lease of the job was running out when its turn in the batch came
\* (ConsumeOnce heartbeats the job in hand and not the jobs behind it).
THEOREM OneHandlerAtATime == IndexSpec => []SoleHandler
<1>1. IndexInit => Kept  BY InitKept
<1>2. Shape /\ Writers /\ Kept /\ [IndexNext]_allVars => Kept'  BY KeptStep
<1>3. Kept => SoleHandler  BY DEF Kept
<1> QED  BY <1>1, <1>2, <1>3, BasicsAlways, PTL DEF IndexSpec

-----------------------------------------------------------------------------
(* Subscriptions that set every column are told of every event.            *)

\* The rows there are stay what they are; a row that comes out of its turn is in
\* disorder, and any other comes after all of them.
RowsGrow ==
  /\ DOMAIN external \subseteq DOMAIN external' /\ disorder \subseteq disorder'
  /\ everOff \subseteq everOff'
  /\ \A i \in DOMAIN external : external'[i].event = external[i].event
  /\ \A i \in DOMAIN external' \ DOMAIN external :
       i \in disorder' \/ (i > 0 /\ \A k \in DOMAIN external : k < i)

LEMMA RowsAndRounds ==
  ASSUME Shape
  PROVE  /\ \A i \in DOMAIN external : i \in Nat /\ i > 0
         /\ checkpoint \in Nat /\ round.last \in Nat
         /\ checkpoint \in {0} \cup DOMAIN external
         /\ round.pc # "idle" => round.last \in {0} \cup DOMAIN external
         /\ \A k \in DOMAIN round.todo : round.todo[k] \in DOMAIN external
         /\ round.todo \in Seq(Nat) /\ round.items \in Seq(Item)
<1>1. \A i \in DOMAIN external : i \in Nat /\ i > 0  BY DEF Shape, TableShape
<1>2. checkpoint \in {0} \cup DOMAIN external  BY DEF Shape, RoundShape
<1>3. round \in [pc : {"idle", "match", "enqueue", "save"}, todo : Seq(Nat),
                items : Seq(Item), last : Nat]
      /\ (round.pc = "idle" \/ round.last \in {0} \cup DOMAIN external)
      /\ \A k \in DOMAIN round.todo : round.todo[k] \in DOMAIN external
  BY DEF Shape, RoundShape
<1> QED  BY <1>1, <1>2, <1>3

LEMMA WantedBefore ==
  ASSUME RowsGrow, NEW s, NEW i \in DOMAIN external, Wanted(s, i)'
  PROVE  Wanted(s, i)
BY DEF RowsGrow, Wanted, Meant

LEMMA ItemsKept ==
  ASSUME RowsGrow, NEW s, NEW i \in DOMAIN external, NEW q, HasItem(q, s, i), NEW r,
         \A k \in DOMAIN q : \E m \in DOMAIN r : r[m] = q[k]
  PROVE  \E m \in DOMAIN r : r[m] = Deliver(s, external'[i].event)
BY DEF RowsGrow, HasItem

\* The first conjunct of Rounds, when the checkpoint stays where it is.
LEMMA ToldStay ==
  ASSUME Shape, Shape', Rounds, QueueGrows, RowsGrow, UNCHANGED checkpoint,
         NEW s \in Sub, NEW i \in DOMAIN external', Wanted(s, i)', i =< checkpoint
  PROVE  HasItem(queued, s, i)'
<1>1. i \in DOMAIN external
  <2> SUFFICES ASSUME i \notin DOMAIN external PROVE FALSE  OBVIOUS
  <2>1. i \notin disorder'  BY DEF Wanted
  <2>2. i > 0 /\ \A k \in DOMAIN external : k < i  BY <2>1 DEF RowsGrow
  <2>3. checkpoint = 0 \/ checkpoint < i  BY <2>2, RowsAndRounds
  <2>4. i \in Nat  BY DEF Shape, TableShape
  <2> QED  BY <2>2, <2>3, <2>4, RowsAndRounds
<1>2. Wanted(s, i)  BY <1>1, WantedBefore
<1>3. HasItem(queued, s, i)  BY <1>1, <1>2 DEF Rounds
<1>4. \A k \in DOMAIN queued : \E m \in DOMAIN queued' : queued'[m] = queued[k]
  BY DEF QueueGrows
<1>5. \E m \in DOMAIN queued' : queued'[m] = Deliver(s, external'[i].event)
  BY <1>1, <1>3, <1>4, ItemsKept
<1> QED  BY <1>5 DEF HasItem, Deliver

LEMMA RoundsStill ==
  ASSUME Shape, Shape', Rounds, QueueGrows, RowsGrow, UNCHANGED <<checkpoint, round>>
  PROVE  Rounds'
<1>1. \A s \in Sub : \A i \in DOMAIN external' :
        Wanted(s, i)' /\ i =< checkpoint => HasItem(queued, s, i)'
  BY ToldStay
<1>2. \A i \in DOMAIN external' \ (DOMAIN external \cup disorder') :
        \A k \in DOMAIN external : i \in Nat /\ k \in Nat /\ k < i /\ i > 0
  BY DEF RowsGrow, Shape, TableShape
<1>3. ASSUME NEW s \in Sub, NEW i \in DOMAIN external', Wanted(s, i)', round.pc # "idle",
             checkpoint < i, i =< round.last
      PROVE  HasItem(IF round.pc = "save" THEN queued ELSE round.items, s, i)'
  <2>1. i \in DOMAIN external
    <3> SUFFICES ASSUME i \notin DOMAIN external PROVE FALSE  OBVIOUS
    <3>1. i \notin disorder'  BY <1>3 DEF Wanted
    <3>2. i > 0 /\ \A k \in DOMAIN external : k < i  BY <3>1 DEF RowsGrow
    <3>3. i \in Nat /\ round.last < i  BY <1>3, <3>2, RowsAndRounds DEF Shape, TableShape
    <3> QED  BY <1>3, <3>3, RowsAndRounds
  <2>2. Wanted(s, i)  BY <1>3, <2>1, WantedBefore
  <2>3. HasItem(IF round.pc = "save" THEN queued ELSE round.items, s, i)
    BY <1>3, <2>1, <2>2 DEF Rounds
  <2>4. CASE round.pc = "save"
    <3>1. \A k \in DOMAIN queued : \E m \in DOMAIN queued' : queued'[m] = queued[k]
      BY DEF QueueGrows
    <3>2. \E m \in DOMAIN queued' : queued'[m] = Deliver(s, external'[i].event)
      BY <2>1, <2>3, <2>4, <3>1, ItemsKept
    <3> QED  BY <2>4, <3>2 DEF HasItem, Deliver
  <2>5. CASE round.pc # "save"
    <3>1. \A k \in DOMAIN round.items : \E m \in DOMAIN round.items : round.items[m] = round.items[k]
      OBVIOUS
    <3>2. \E m \in DOMAIN round.items : round.items[m] = Deliver(s, external'[i].event)
      BY <2>1, <2>3, <2>5, <3>1, ItemsKept
    <3> QED  BY <2>5, <3>2 DEF HasItem, Deliver
  <2> QED  BY <2>4, <2>5
<1>4. ASSUME round.pc = "match", NEW i \in DOMAIN external' \ disorder', NEW k \in DOMAIN round.todo,
             round.last < i, i < round.todo[k]
      PROVE  \E m \in DOMAIN round.todo : round.todo[m] = i
  <2>1. round.todo[k] \in DOMAIN external  BY RowsAndRounds
  <2>2. i \in DOMAIN external
    <3> SUFFICES ASSUME i \notin DOMAIN external PROVE FALSE  OBVIOUS
    <3>1. i \in Nat /\ round.todo[k] \in Nat /\ round.todo[k] < i  BY <1>2, <2>1
    <3> QED  BY <1>4, <3>1
  <2>3. i \notin disorder  BY DEF RowsGrow
  <2> QED  BY <1>4, <2>2, <2>3 DEF Rounds
<1>5. round.pc = "match" =>
       /\ \A i, k \in DOMAIN round.todo : i < k => round.todo[i] < round.todo[k]
       /\ \A k \in DOMAIN round.todo : round.last < round.todo[k]
  BY DEF Rounds
<1> QED  BY <1>1, <1>3, <1>4, <1>5 DEF Rounds

LEMMA ListRounds ==
  ASSUME Shape, Shape', Rounds, QueueGrows, ListEvents
  PROVE  Rounds'
<1> DEFINE o == InOrder(Page)
<1>1. /\ UNCHANGED <<queued, external, disorder, everOff, checkpoint>> /\ Page # {}
      /\ round' = [pc |-> "match", todo |-> o, items |-> <<>>, last |-> checkpoint]
  BY ListShape
<1>2. RowsGrow  BY <1>1 DEF RowsGrow
<1>3. /\ Page \in SUBSET Nat /\ IsFiniteSet(Page) /\ Page \subseteq Rows
      /\ \A i \in Page : \A k \in Rows : k < i => k \in Page
  BY PageOf DEF Shape
<1>4. /\ \A i, k \in DOMAIN o : i < k => o[i] < o[k]
      /\ \A x \in Page : \E i \in DOMAIN o : o[i] = x
      /\ \A k \in DOMAIN o : o[k] \in Page
  BY <1>3, OrderOf
<1> HIDE DEF o
<1>5. \A k \in DOMAIN o : checkpoint < o[k]  BY <1>3, <1>4, RowsAndRounds DEF Rows
<1>6. ASSUME NEW i \in DOMAIN external, NEW k \in DOMAIN o, checkpoint < i, i < o[k]
      PROVE  \E m \in DOMAIN o : o[m] = i
  <2>1. i \in Rows  BY <1>6, RowsAndRounds DEF Rows
  <2>2. i \in Page  BY <1>3, <1>4, <1>6, <2>1
  <2> QED  BY <1>4, <2>2
<1>7. \A i \in DOMAIN external : ~(checkpoint < i /\ i =< checkpoint)  BY RowsAndRounds
<1>8. \A s \in Sub : \A i \in DOMAIN external' :
        Wanted(s, i)' /\ i =< checkpoint => HasItem(queued, s, i)'
  BY <1>1, <1>2, ToldStay
<1>9. /\ round'.pc = "match" /\ round'.todo = o /\ round'.last = checkpoint  BY <1>1
<1> QED  BY <1>1, <1>4, <1>5, <1>6, <1>7, <1>8, <1>9 DEF Rounds

LEMMA IdleRounds ==
  ASSUME Shape, Shape', Rounds, QueueGrows, RowsGrow, UNCHANGED checkpoint, round'.pc = "idle"
  PROVE  Rounds'
<1>1. \A s \in Sub : \A i \in DOMAIN external' :
        Wanted(s, i)' /\ i =< checkpoint => HasItem(queued, s, i)'
  BY ToldStay
<1> QED  BY <1>1 DEF Rounds

LEMMA SaveRounds ==
  ASSUME Shape, Shape', Rounds, QueueGrows, SaveCheckpoint
  PROVE  Rounds'
<1>1. /\ UNCHANGED <<queued, external, disorder, everOff>> /\ round'.pc = "idle" /\ round.pc = "save"
      /\ checkpoint' = round.last \/ checkpoint' = checkpoint
  BY DEF SaveCheckpoint, queueVars, tableVars, subVars, Idle
<1>2. RowsGrow  BY <1>1 DEF RowsGrow
<1>3. CASE checkpoint' = checkpoint  BY <1>1, <1>2, <1>3, IdleRounds
<1>4. CASE checkpoint' = round.last
  <2>1. ASSUME NEW s \in Sub, NEW i \in DOMAIN external, Wanted(s, i), i =< round.last
        PROVE  HasItem(queued, s, i)
    <3>1. CASE i =< checkpoint  BY <2>1, <3>1 DEF Rounds
    <3>2. CASE checkpoint < i  BY <1>1, <2>1, <3>2 DEF Rounds
    <3> QED  BY <3>1, <3>2, RowsAndRounds
  <2>2. \A s \in Sub : \A i \in DOMAIN external' :
          Wanted(s, i)' /\ i =< checkpoint' => HasItem(queued, s, i)'
    BY <1>1, <1>2, <1>4, <2>1, WantedBefore DEF HasItem, Deliver
  <2> QED  BY <1>1, <2>2 DEF Rounds
<1> QED  BY <1>1, <1>3, <1>4

LEMMA DeliverRounds ==
  ASSUME Shape, Shape', Rounds, QueueGrows, EnqueueDeliveries
  PROVE  Rounds'
<1>1. /\ UNCHANGED <<external, disorder, everOff, checkpoint>> /\ round.pc = "enqueue"
      /\ \/ Enqueued(round.items, 0) /\ round' = [round EXCEPT !.pc = "save"]
         \/ round'.pc = "idle"
  BY DEF EnqueueDeliveries, tableVars, subVars, Idle
<1>2. RowsGrow  BY <1>1 DEF RowsGrow
<1>3. CASE round'.pc = "idle"  BY <1>1, <1>2, <1>3, IdleRounds
<1>4. CASE Enqueued(round.items, 0) /\ round' = [round EXCEPT !.pc = "save"]
  <2>1. round'.pc = "save" /\ round'.last = round.last  BY <1>4 DEF Shape, RoundShape
  <2>2. \A k \in DOMAIN round.items : \E m \in DOMAIN queued' : queued'[m] = round.items[k]
    <3>1. round.items \in Seq(Item) /\ DOMAIN round.items = 1 .. Len(round.items)
      BY RowsAndRounds, LenProperties
    <3>2. \A k \in 1 .. Len(round.items) : LET j == Len(queued) + k
              IN  j \in DOMAIN queued' /\ queued'[j] = round.items[k]
      BY <1>4, <3>1, EnqueuedKeeps DEF Shape
    <3> QED  BY <3>1, <3>2
  <2>3. ASSUME NEW s \in Sub, NEW i \in DOMAIN external', Wanted(s, i)', checkpoint < i,
               i =< round.last
        PROVE  HasItem(queued, s, i)'
    <3>1. i \in DOMAIN external /\ Wanted(s, i)  BY <1>1, <1>2, <2>3, WantedBefore
    <3>2. HasItem(round.items, s, i)  BY <1>1, <2>3, <3>1 DEF Rounds
    <3>3. \E m \in DOMAIN queued' : queued'[m] = Deliver(s, external'[i].event)
      BY <1>2, <2>2, <3>1, <3>2, ItemsKept
    <3> QED  BY <3>3 DEF HasItem, Deliver
  <2>4. \A s \in Sub : \A i \in DOMAIN external' :
          Wanted(s, i)' /\ i =< checkpoint => HasItem(queued, s, i)'
    BY <1>1, <1>2, ToldStay
  <2> QED  BY <1>1, <2>1, <2>3, <2>4 DEF Rounds
<1> QED  BY <1>1, <1>3, <1>4

\* A subscription that sets every column and was never off passes the filter of the
\* events it is meant for.
LEMMA MatchesMeant ==
  ASSUME Shape, NEW s \in Sub, NEW i \in DOMAIN external, Wanted(s, i)
  PROVE  Deliver(s, external[i].event) \in Matched(i)
<1>1. s \in enabled  BY DEF Shape, TableShape, Wanted
<1>2. Matches(s, external[i].event)  BY <1>1 DEF Matches, Wanted, Meant
<1> QED  BY <1>2 DEF Matched

LEMMA MatchRounds ==
  ASSUME Shape, Shape', Rounds, QueueGrows, MatchNext
  PROVE  Rounds'
<1> DEFINE t == round.todo  f == t[1]  its == round'.items  last == round.last
<1>1. /\ UNCHANGED <<queued, external, disorder, everOff, checkpoint>>
      /\ round.pc = "match" /\ t # <<>> /\ t \in Seq(Nat) /\ Len(t) \in Nat \ {0}
      /\ round'.last = f /\ f \in DOMAIN external
      /\ round'.todo = Tail(t)
      /\ round'.pc = IF Len(t) > 1 THEN "match" ELSE IF its = <<>> THEN "save" ELSE "enqueue"
      /\ \A k \in DOMAIN round.items : \E m \in DOMAIN its : its[m] = round.items[k]
      /\ \A x \in Matched(f) : \E m \in DOMAIN its : its[m] = x
  BY MatchShape
<1>2. RowsGrow  BY <1>1 DEF RowsGrow
<1>3. /\ DOMAIN t = 1 .. Len(t) /\ 1 \in DOMAIN t
      /\ Tail(t) \in Seq(Nat) /\ DOMAIN Tail(t) = 1 .. Len(Tail(t)) /\ Len(Tail(t)) = Len(t) - 1
      /\ \A k \in 1 .. Len(Tail(t)) : Tail(t)[k] = t[k + 1]
  BY <1>1, HeadTailProperties, LenProperties
<1>4. /\ \A i, k \in DOMAIN t : i < k => t[i] < t[k]
      /\ \A k \in DOMAIN t : last < t[k]
      /\ \A i \in DOMAIN external \ disorder : \A k \in DOMAIN t :
           last < i /\ i < t[k] => \E m \in DOMAIN t : t[m] = i
  BY <1>1 DEF Rounds
<1>5. /\ \A i \in DOMAIN external : i \in Nat /\ i > 0
      /\ checkpoint \in Nat /\ last \in Nat
      /\ \A k \in DOMAIN t : t[k] \in DOMAIN external
  BY RowsAndRounds
<1>6. ASSUME NEW s \in Sub, NEW i \in DOMAIN external, Wanted(s, i), checkpoint < i, i =< last
      PROVE  HasItem(round.items, s, i)
  BY <1>1, <1>6 DEF Rounds
<1> HIDE DEF t, its, last
<1>7. ASSUME NEW s \in Sub, NEW i \in DOMAIN external, Wanted(s, i), checkpoint < i, i =< f
      PROVE  \E m \in DOMAIN its : its[m] = Deliver(s, external[i].event)
  <2>1. CASE i =< last  BY <1>1, <1>6, <1>7, <2>1 DEF HasItem
  <2>2. CASE i = f  BY <1>1, <1>7, <2>2, MatchesMeant
  <2>3. CASE last < i /\ i < f
    <3>1. i \notin disorder  BY <1>7 DEF Wanted
    <3>2. PICK m \in DOMAIN t : t[m] = i  BY <1>3, <1>4, <2>3, <3>1
    <3>3. m = 1 \/ 1 < m  BY <1>3
    <3>4. m = 1 \/ f < i  BY <1>3, <1>4, <3>2, <3>3
    <3> QED  BY <1>1, <1>5, <2>3, <3>2, <3>4
  <2>4. i \in Nat /\ f \in Nat /\ last \in Nat  BY <1>1, <1>5
  <2> QED  BY <1>7, <2>1, <2>2, <2>3, <2>4
<1>8. its # <<>> \/ DOMAIN its = {}  OBVIOUS
<1>9. ASSUME NEW s \in Sub, NEW i \in DOMAIN external', Wanted(s, i)', checkpoint < i, i =< f
      PROVE  round'.pc # "save" /\ HasItem(round.items, s, i)'
  <2>1. i \in DOMAIN external /\ Wanted(s, i) /\ external'[i] = external[i]
    BY <1>1, <1>2, <1>9, WantedBefore
  <2>2. \E m \in DOMAIN its : its[m] = Deliver(s, external[i].event)  BY <1>7, <1>9, <2>1
  <2>3. its # <<>>  BY <2>2
  <2>4. round'.pc # "save"  BY <1>1, <2>3
  <2> QED  BY <1>1, <2>1, <2>2, <2>4 DEF HasItem, Deliver, its
<1>10. ASSUME NEW i \in DOMAIN Tail(t), NEW k \in DOMAIN Tail(t), i < k
       PROVE  Tail(t)[i] < Tail(t)[k]
  <2>1. /\ i + 1 \in DOMAIN t /\ k + 1 \in DOMAIN t /\ i + 1 < k + 1
        /\ Tail(t)[i] = t[i + 1] /\ Tail(t)[k] = t[k + 1]
    BY <1>1, <1>3, <1>10
  <2> QED  BY <1>4, <2>1
<1>11. ASSUME NEW k \in DOMAIN Tail(t) PROVE k + 1 \in DOMAIN t /\ f < Tail(t)[k]
  <2>1. k + 1 \in DOMAIN t /\ 1 < k + 1 /\ Tail(t)[k] = t[k + 1]  BY <1>1, <1>3
  <2> QED  BY <1>3, <1>4, <2>1
<1>12. ASSUME NEW i \in DOMAIN external \ disorder, NEW k \in DOMAIN Tail(t), f < i, i < Tail(t)[k]
       PROVE  \E m \in DOMAIN Tail(t) : Tail(t)[m] = i
  <2>1. k + 1 \in DOMAIN t /\ Tail(t)[k] = t[k + 1]  BY <1>3, <1>11
  <2>2. last < f /\ f \in Nat /\ i \in Nat  BY <1>1, <1>3, <1>4, <1>5
  <2>3. last < i  BY <1>5, <1>12, <2>2
  <2>4. PICK m \in DOMAIN t : t[m] = i  BY <1>4, <1>12, <2>1, <2>3
  <2>5. m # 1  BY <1>12, <2>2, <2>4
  <2>7. m - 1 \in DOMAIN Tail(t) /\ (m - 1) + 1 = m  BY <1>1, <1>3, <2>5
  <2>6. PICK n \in DOMAIN Tail(t) : n + 1 = m  BY <2>7
  <2> QED  BY <1>3, <2>4, <2>6
<1>13. \A s \in Sub : \A i \in DOMAIN external' :
         Wanted(s, i)' /\ i =< checkpoint => HasItem(queued, s, i)'
  BY <1>1, <1>2, ToldStay
<1>14. \A s \in Sub : \A i \in DOMAIN external' :
         Wanted(s, i)' /\ checkpoint' < i /\ i =< round'.last =>
           HasItem(IF round.pc = "save" THEN queued ELSE round.items, s, i)'
  <2> SUFFICES ASSUME NEW s \in Sub, NEW i \in DOMAIN external',
                      Wanted(s, i)', checkpoint' < i, i =< round'.last
               PROVE  HasItem(IF round.pc = "save" THEN queued ELSE round.items, s, i)'
    OBVIOUS
  <2>1. checkpoint < i /\ i =< f  BY <1>1
  <2>2. round'.pc # "save" /\ HasItem(round.items, s, i)'  BY <1>9, <2>1
  <2> QED  BY <2>2 DEF HasItem
<1>15. round'.pc = "match" =>
       /\ \A i, k \in DOMAIN round'.todo : i < k => round'.todo[i] < round'.todo[k]
       /\ \A k \in DOMAIN round'.todo : round'.last < round'.todo[k]
       /\ \A i \in DOMAIN external' \ disorder' : \A k \in DOMAIN round'.todo :
            round'.last < i /\ i < round'.todo[k] =>
              \E m \in DOMAIN round'.todo : round'.todo[m] = i
  BY <1>1, <1>10, <1>11, <1>12
<1> QED  BY <1>1, <1>13, <1>14, <1>15 DEF Rounds

LEMMA RowsGrowStep ==
  ASSUME Shape, Writers, [IndexNext]_allVars
  PROVE  RowsGrow
<1>1. MoreDone  BY MoreDoneStep
<1>2. ASSUME NEW w \in Consumer, Commit(w) PROVE RowsGrow
  <2>1. /\ work[w].got \subseteq 1 .. drawn /\ DOMAIN external' = DOMAIN external \cup work[w].got
    BY <1>2, CommitEvents
  <2>2. disorder' = disorder \cup
           {i \in work[w].got \ DOMAIN external : \E k \in DOMAIN external : k > i}
    BY <1>2 DEF Commit
  <2>3. DOMAIN external \subseteq 1 .. drawn /\ drawn \in Nat  BY DEF Shape, TableShape
  <2>4. ASSUME NEW i \in DOMAIN external' \ DOMAIN external, i \notin disorder'
        PROVE  i > 0 /\ \A k \in DOMAIN external : k < i
    <3>1. i \in work[w].got \ DOMAIN external /\ i \in 1 .. drawn  BY <2>1
    <3>2. \A k \in DOMAIN external : k # i /\ ~ k > i /\ k \in 1 .. drawn
      BY <2>2, <2>3, <2>4, <3>1
    <3> QED  BY <2>3, <3>1, <3>2
  <2> QED  BY <1>1, <2>1, <2>2, <2>4 DEF RowsGrow, MoreDone
<1>3. ASSUME NEW w \in Consumer,
             \/ HeartbeatBatch(w) \/ Indexing(w) \/ ClaimBatch(w) \/ Abort(w) \/ CrashWorker(w)
             \/ ~IsIndexer(w) /\ (\/ StartJob(w) \/ EndJob(w) \/ InsertExternalEvent(w)
                    \/ PassOver(w) \/ AskSource(w) \/ Post(w) \/ HeartbeatJob(w))
      PROVE  RowsGrow
  <2>1. UNCHANGED <<external, disorder>>
    BY <1>3 DEF HeartbeatBatch, Indexing, StartBatch, Load, DeleteKeys, UpsertRows, AckWritten,
         RetryFailed, ClaimBatch, Abort, CrashWorker, StartJob, EndJob, AskSource, Post,
         HeartbeatJob, InsertExternalEvent, PassOver, otherVars, tableVars
  <2> QED  BY <1>1, <2>1 DEF RowsGrow, MoreDone
<1>4. ASSUME \/ (\E t \in Resource : ChangeResource(t)) \/ Producers
             \/ ListEvents \/ MatchNext \/ EnqueueDeliveries \/ SaveCheckpoint \/ TickAll
             \/ (\E e \in Event : EnqueueProjection(e)) \/ (\E s \in Sub : Switch(s))
             \/ UNCHANGED allVars
      PROVE  RowsGrow
  <2>1. UNCHANGED <<external, disorder>>
    BY <1>4 DEF ChangeResource, Producers, EnqueueSync, ListEvents, MatchNext, EnqueueDeliveries,
         SaveCheckpoint, EnqueueProjection, Switch, TickAll, allVars, vars, otherVars, tableVars
  <2> QED  BY <1>1, <2>1 DEF RowsGrow, MoreDone
<1> QED  BY <1>2, <1>3, <1>4 DEF IndexNext, Working, Producing

LEMMA RoundsStep ==
  ASSUME Shape, Writers, Rounds, [IndexNext]_allVars
  PROVE  Rounds'
<1>1. Shape' /\ QueueGrows /\ RowsGrow  BY BasicsStep, RowsGrowStep
<1>2. CASE ListEvents \/ MatchNext \/ EnqueueDeliveries \/ SaveCheckpoint
  BY <1>1, <1>2, ListRounds, MatchRounds, DeliverRounds, SaveRounds
<1>3. ASSUME NEW w \in Consumer,
             \/ HeartbeatBatch(w) \/ Indexing(w) \/ ClaimBatch(w) \/ Abort(w) \/ CrashWorker(w)
             \/ ~IsIndexer(w) /\ (Working(w) \/ HeartbeatJob(w))
      PROVE  Rounds'
  <2>1. UNCHANGED <<checkpoint, round>>
    BY <1>3 DEF HeartbeatBatch, Indexing, StartBatch, Load, DeleteKeys, UpsertRows, AckWritten,
         RetryFailed, ClaimBatch, Abort, CrashWorker, StartJob, EndJob, AskSource, Post,
         HeartbeatJob, InsertExternalEvent, PassOver, Commit, Working, otherVars, producerVars
  <2> QED  BY <1>1, <2>1, RoundsStill
<1>4. ASSUME \/ (\E t \in Resource : ChangeResource(t)) \/ Producers \/ TickAll
             \/ (\E e \in Event : EnqueueProjection(e)) \/ (\E s \in Sub : Switch(s))
             \/ UNCHANGED allVars
      PROVE  Rounds'
  <2>1. UNCHANGED <<checkpoint, round>>
    BY <1>4 DEF ChangeResource, Producers, EnqueueSync, EnqueueProjection, Switch, TickAll,
         allVars, vars, otherVars, producerVars
  <2> QED  BY <1>1, <2>1, RoundsStill
<1> QED  BY <1>2, <1>3, <1>4 DEF IndexNext, Producing

LEMMA InitRounds == IndexInit => Rounds
<1> SUFFICES ASSUME IndexInit PROVE Rounds  OBVIOUS
<1>1. checkpoint = 0 /\ round.pc = "idle"  BY DEF IndexInit, Init, Idle
<1>2. \A i \in DOMAIN external : ~ i =< 0  BY InitShape DEF Shape, TableShape
<1> QED  BY <1>1, <1>2 DEF Rounds

\* Each subscription that sets every column, and was never off, has a job for each
\* event that it is for once the checkpoint is past it, whatever fails between the
\* enqueue and the checkpoint (webhooks/jobs.go:45-109); a row committed out of order
\* may be skipped.
THEOREM SubscribersAreTold == IndexSpec => []ExactSubscribersTold
<1>1. IndexInit => Rounds  BY InitRounds
<1>2. Shape /\ Writers /\ Rounds /\ [IndexNext]_allVars => Rounds'  BY RoundsStep
<1>3. Rounds => ExactSubscribersTold
  BY DEF Rounds, ExactSubscribersTold, Owed, Wanted, HasItem
<1> QED  BY <1>1, <1>2, <1>3, BasicsAlways, PTL DEF IndexSpec

-----------------------------------------------------------------------------
(* The search index is behind only while a job is on the way.              *)

\* What has not been rewritten is as current as it was.
LEMMA ShownStays ==
  ASSUME NEW t, index'[t] = index[t], \A v : Current(t, v) => Current(t, v)', Current(t, index[t])
  PROVE  Current(t, index[t])'
<1>1. PICK v : v = index[t]  OBVIOUS
<1>2. Current(t, v)  BY <1>1
<1>3. Current(t, v)'  BY <1>2
<1>4. v = index'[t]  BY <1>1
<1> HIDE <1>1
<1> QED  BY <1>3, <1>4 DEF Current

\* The documents that a loader takes are current.
LEMMA LoadCurrent ==
  ASSUME IndexShape, NEW t \in Target, ~(t \in Event /\ RowsOf(t) = {}), NEW missed \in SUBSET Spared[t]
  PROVE  Current(t, Docs(t, missed))
<1> DEFINE v == [q \in Parts(t) \ missed |-> version[q]]
<1>1. Docs(t, missed) = v  BY DEF Docs
<1>2. v # Absent
  <2>1. Parts(t) \ missed \in SUBSET Resource  BY DEF Parts
  <2>2. v \in [Parts(t) \ missed -> Nat]  BY <2>1 DEF IndexShape
  <2> QED  BY <2>1, <2>2, AbsentAssumption
<1>3. CASE t \in Event  BY <1>1, <1>2, <1>3 DEF Current
<1>4. CASE t \notin Event
  <2>1. t \in Resource /\ t \notin missed
    BY <1>4, QuotesAssumption DEF Target
  <2>2. t \in DOMAIN v /\ v[t] = version[t]  BY <2>1 DEF Parts
  <2>3. ASSUME NEW q \in Quotes[t] \cap DOMAIN v PROVE v[q] >= since[t][q]
    <3>1. q \in Resource /\ v[q] = version[q]  BY DEF Parts
    <3>2. since[t][q] \in Nat /\ version[q] \in Nat /\ since[t][q] =< version[q]
      BY <2>1, <3>1 DEF IndexShape
    <3> QED  BY <3>1, <3>2
  <2> HIDE DEF v
  <2> QED  BY <1>1, <1>2, <1>4, <2>2, <2>3 DEF Current
<1> QED  BY <1>3, <1>4

LEMMA CurrentStays ==
  ASSUME MoreDone, UNCHANGED <<version, since>>, NEW t
  PROVE  /\ (\A v : Current(t, v) => Current(t, v)') \/ (t \in Event /\ RowsOf(t) = {})
         /\ RowsOf(t) # {} => RowsOf(t)' # {}
<1>1. ASSUME RowsOf(t) # {} PROVE RowsOf(t)' # {}
  <2>1. PICK i \in DOMAIN external : external[i].event = t  BY <1>1 DEF RowsOf
  <2>2. i \in RowsOf(t)'  BY <2>1 DEF MoreDone, RowsOf
  <2> QED  BY <2>2
<1> QED  BY <1>1 DEF Current

LEMMA GotTyped ==
  ASSUME Shape, NEW w \in Consumer, IsIndexer(w), NEW p \in work[w].got
  PROVE  p \in Prep /\ p.target \in Target
BY DEF Shape, WorkShape, RecOK, WorkRec, IsIndexer, Prep

LEMMA SyncTo ==
  ASSUME NEW t
  PROVE  Sync(t).to = "indexer" /\ Sync(t).target = t
BY DEF Sync

\* The jobs of the indexers stay, and each of them keeps what it has, or has nothing.
SyncJobsStay ==
  \A j \in DOMAIN jobs : jobs[j].item.to = "indexer" =>
    j \in DOMAIN jobs' /\ jobs'[j].item = jobs[j].item
BatchStays(u) ==
  \/ work'[u].got = {}
  \/ work'[u].got = work[u].got /\ work'[u].batch = work[u].batch /\ work'[u].pc = work[u].pc

LEMMA JobsStay ==
  ASSUME SyncJobsStay, NEW t
  PROVE  /\ HasJob(t) => HasJob(t)'
         /\ \A B : (\E j \in DOMAIN jobs \ B : jobs[j].item = Sync(t))
                      => \E j \in DOMAIN jobs' \ B : jobs'[j].item = Sync(t)
<1>1. \A j \in DOMAIN jobs : jobs[j].item = Sync(t) => j \in DOMAIN jobs' /\ jobs'[j].item = Sync(t)
  BY SyncTo DEF SyncJobsStay
<1>2. Sync(t)' = Sync(t)  BY DEF Sync
<1> QED  BY <1>1, <1>2 DEF HasJob

LEMMA IndexedStill ==
  ASSUME Shape, Indexed, QueueGrows, MoreDone, UNCHANGED <<indexVars, scene>>, SyncJobsStay,
         \A u \in Consumer : IsIndexer(u) => BatchStays(u)
  PROVE  Indexed'
<1>0. UNCHANGED <<version, changed, index, since, raced>>  BY DEF indexVars
<1>1. \A t : HasJob(t) => HasJob(t)'  BY JobsStay
<1>2. \A t : OnTheWay(t) => OnTheWay(t)'  BY <1>0, <1>1 DEF OnTheWay
<1>3. \A t : /\ (\A v : Current(t, v) => Current(t, v)') \/ (t \in Event /\ RowsOf(t) = {})
             /\ RowsOf(t) # {} => RowsOf(t)' # {}
  BY <1>0, CurrentStays
<1>4. ASSUME NEW t \in Target
      PROVE  \/ Current(t, index[t])' \/ t \in raced' \/ OnTheWay(t)' \/ t \in Event \ scene'.synced
  <2>1. Current(t, index[t]) \/ t \in raced \/ OnTheWay(t) \/ t \in Event \ scene.synced
    BY DEF Indexed, StaleOnlyWhileQueued, OnTheWay, HasJob
  <2>2. CASE \A v : Current(t, v) => Current(t, v)'
    <3>1. Current(t, index[t]) => Current(t, index[t])'  BY <1>0, <2>2, ShownStays
    <3> QED  BY <1>0, <1>2, <2>1, <3>1
  <2>3. CASE t \in Event /\ RowsOf(t) = {}
    <3>1. t \in raced \/ OnTheWay(t) \/ t \in Event \ scene.synced  BY <2>3 DEF Indexed
    <3> QED  BY <1>0, <1>2, <3>1
  <2> QED  BY <1>3, <2>2, <2>3
<1>5. StaleOnlyWhileQueued'
  BY <1>4 DEF StaleOnlyWhileQueued, OnTheWay, HasJob, Sync
<1>6. ASSUME NEW t \in scene'.synced \ raced', RowsOf(t)' = {} PROVE OnTheWay(t)'
  BY <1>0, <1>2, <1>3, <1>6 DEF Indexed
<1>7. ASSUME NEW w \in Consumer, IsIndexer(w)', NEW p \in work'[w].got PROVE PrepOK(w, p)'
  <2>1. /\ IsIndexer(w) /\ work'[w].got = work[w].got /\ work'[w].batch = work[w].batch
        /\ work'[w].pc = work[w].pc /\ p \in work[w].got /\ InBatch(w)' = InBatch(w)
    BY <1>7 DEF IsIndexer, BatchStays, InBatch
  <2>2. PrepOK(w, p)  BY <2>1 DEF Indexed
  <2>3. p.target \in Target  BY <2>1, GotTyped
  <2> DEFINE t == p.target
  <2>4. PICK j \in InBatch(w) : queued[j] = Sync(t)  BY <2>2 DEF PrepOK
  <2>5. queued'[j] = Sync(t)
    <3>1. j \in DOMAIN queued  BY BatchItems DEF Shape
    <3> QED  BY <2>4, <3>1 DEF QueueGrows
  <2>6. t \in Event /\ p.at # "error" => RowsOf(t) # {} /\ RowsOf(t)' # {}
    BY <1>3, <2>2 DEF PrepOK
  <2>7. p.at # "error" => \A v : Current(t, v) => Current(t, v)'
    BY <1>3, <2>6
  <2>8. p.at # "error" /\ Fresh(w, p) => Fresh(w, p)'
    <3>1. ASSUME \E k \in DOMAIN jobs \ InBatch(w) : jobs[k].item = Sync(t)
          PROVE  \E k \in DOMAIN jobs' \ InBatch(w)' : jobs'[k].item = Sync(t)
      BY <2>1, <3>1, JobsStay
    <3> QED  BY <1>0, <2>7, <3>1 DEF Fresh, Sync
  <2>9. HasJob(t) => HasJob(t)'  BY <1>1
  <2>10. work'[w].pc = "load" /\ t \notin raced' =>
           /\ HasJob(t)'
           /\ p.at # "error" => Fresh(w, p)'
           /\ p.at = "written" => index'[t] = p.docs
    BY <1>0, <2>1, <2>2, <2>8, <2>9 DEF PrepOK
  <2>11. \A q \in work'[w].got : q.target = t => q = p  BY <2>1, <2>2 DEF PrepOK
  <2> QED  BY <2>1, <2>4, <2>5, <2>6, <2>10, <2>11 DEF PrepOK, Sync
<1>8. ASSUME NEW u \in Consumer, NEW w \in Consumer, u # w, IsIndexer(u)', IsIndexer(w)',
             NEW p \in work'[u].got, NEW q \in work'[w].got, p.target = q.target
      PROVE  p.target \in raced'
  <2>1. IsIndexer(u) /\ IsIndexer(w) /\ p \in work[u].got /\ q \in work[w].got
    BY <1>8 DEF IsIndexer, BatchStays
  <2> QED  BY <1>0, <1>8, <2>1 DEF Indexed
<1> QED  BY <1>5, <1>6, <1>7, <1>8 DEF Indexed

\* A change of a row, and the job of it: the workers and the index stay.
LEMMA IndexedOn ==
  ASSUME Shape, Indexed, QueueGrows, UNCHANGED <<work, index, raced, external, scene>>,
         \A t : HasJob(t) => HasJob(t)',
         \A t : OnTheWay(t) => OnTheWay(t)',
         \A t \in Target : (\A v : Current(t, v) => Current(t, v)') \/ t \in changed',
         \A w \in Consumer : \A p \in work[w].got :
           IsIndexer(w) /\ p.target \in Target /\ Fresh(w, p) => Fresh(w, p)'
  PROVE  Indexed'
<1>1. \A t : RowsOf(t)' = RowsOf(t)  BY DEF RowsOf
<1>2. ASSUME NEW t \in Target
      PROVE  \/ Current(t, index[t])' \/ t \in raced' \/ OnTheWay(t)' \/ t \in Event \ scene'.synced
  <2>1. Current(t, index[t]) \/ t \in raced \/ OnTheWay(t) \/ t \in Event \ scene.synced
    BY DEF Indexed, StaleOnlyWhileQueued, OnTheWay, HasJob
  <2>2. CASE \A v : Current(t, v) => Current(t, v)'
    <3>1. Current(t, index[t]) => Current(t, index[t])'  BY <2>2, ShownStays
    <3> QED  BY <2>1, <3>1
  <2>3. CASE t \in changed'  BY <2>3 DEF OnTheWay
  <2> QED  BY <2>2, <2>3
<1>3. StaleOnlyWhileQueued'  BY <1>2 DEF StaleOnlyWhileQueued, OnTheWay, HasJob, Sync
<1>4. ASSUME NEW t \in scene'.synced \ raced', RowsOf(t)' = {} PROVE OnTheWay(t)'
  BY <1>1, <1>4 DEF Indexed
<1>5. ASSUME NEW w \in Consumer, IsIndexer(w)', NEW p \in work'[w].got PROVE PrepOK(w, p)'
  <2>1. IsIndexer(w) /\ p \in work[w].got /\ InBatch(w)' = InBatch(w)
    BY <1>5 DEF IsIndexer, InBatch
  <2>2. PrepOK(w, p)  BY <2>1 DEF Indexed
  <2>3. p.target \in Target  BY <2>1, GotTyped
  <2>4. PICK j \in InBatch(w) : queued[j] = Sync(p.target)  BY <2>2 DEF PrepOK
  <2>5. queued'[j] = Sync(p.target)
    <3>1. j \in DOMAIN queued  BY BatchItems DEF Shape
    <3> QED  BY <2>4, <3>1 DEF QueueGrows
  <2>6. Fresh(w, p) => Fresh(w, p)'  BY <2>1, <2>3
  <2>7. HasJob(p.target) => HasJob(p.target)'  OBVIOUS
  <2> QED  BY <1>1, <2>1, <2>2, <2>4, <2>5, <2>6, <2>7 DEF PrepOK, Sync
<1>6. ASSUME NEW u \in Consumer, NEW w \in Consumer, u # w, IsIndexer(u)', IsIndexer(w)',
             NEW p \in work'[u].got, NEW q \in work'[w].got, p.target = q.target
      PROVE  p.target \in raced'
  BY <1>6 DEF Indexed, IsIndexer
<1> QED  BY <1>3, <1>4, <1>5, <1>6 DEF Indexed

LEMMA ChangeIndexed ==
  ASSUME Shape, Indexed, QueueGrows, NEW t \in Resource, ChangeResource(t)
  PROVE  Indexed'
<1>1. /\ UNCHANGED <<work, jobs, external, scene, index, raced>>
      /\ version' = [version EXCEPT ![t] = @ + 1] /\ changed' = changed \cup {t}
      /\ since' = [since EXCEPT ![t] = version']
  BY DEF ChangeResource, vars, queueVars, tableVars
<1>2. \A x : HasJob(x) => HasJob(x)'  BY <1>1 DEF HasJob, Sync
<1>3. \A x : OnTheWay(x) => OnTheWay(x)'  BY <1>1, <1>2 DEF OnTheWay
<1>4. ASSUME NEW x \in Target PROVE (\A v : Current(x, v) => Current(x, v)') \/ x \in changed'
  <2>1. CASE x = t  BY <1>1, <2>1
  <2>2. CASE x # t
    <3>1. RowsOf(x)' = RowsOf(x)  BY <1>1 DEF RowsOf
    <3>2. x \in Resource => version'[x] = version[x] /\ since'[x] = since[x]
      BY <1>1, <2>2 DEF Shape, IndexShape
    <3> QED  BY <3>1, <3>2 DEF Current, Target
  <2> QED  BY <2>1, <2>2
<1>5. ASSUME NEW w \in Consumer, NEW p \in work[w].got, p.target \in Target, Fresh(w, p)
      PROVE  Fresh(w, p)'
  BY <1>1, <1>4, <1>5 DEF Fresh, InBatch, Sync
<1> QED  BY <1>1, <1>2, <1>3, <1>4, <1>5, IndexedOn

LEMMA SyncIndexed ==
  ASSUME Shape, Indexed, QueueGrows, NEW t \in Target, EnqueueSync(t)
  PROVE  Indexed'
<1>1. /\ UNCHANGED <<work, external, scene, index, raced, version, since>>
      /\ changed' = changed \ {t} /\ Enqueued(<<Sync(t)>>, 0)
  BY DEF EnqueueSync, otherVars, tableVars
<1>2. <<Sync(t)>> \in Seq(Item) /\ Len(<<Sync(t)>>) = 1 /\ <<Sync(t)>>[1] = Sync(t)
  BY DEF Item
<1>3. /\ DOMAIN jobs \subseteq DOMAIN jobs' /\ \A j \in DOMAIN jobs : jobs'[j] = jobs[j]
      /\ \A j \in DOMAIN jobs' \ DOMAIN jobs : j \notin DOMAIN queued
      /\ DOMAIN queued = 1 .. Len(queued) /\ Len(queued) \in Nat
      /\ \A k \in 1 .. 1 : LET j == Len(queued) + k
           IN j \in DOMAIN jobs' /\ jobs'[j] = Waiting(<<Sync(t)>>[k], 0)
  BY <1>1, <1>2, EnqueuedKeeps DEF Shape
<1>4. PICK n : n \notin DOMAIN queued /\ n \in DOMAIN jobs' /\ jobs'[n].item = Sync(t)
  <2>1. PICK n \in Nat : n = Len(queued) + 1 /\ n \notin 1 .. Len(queued)  BY <1>3
  <2>2. n \in DOMAIN jobs' /\ jobs'[n] = Waiting(<<Sync(t)>>[1], 0)  BY <1>3, <2>1
  <2> QED  BY <1>2, <1>3, <2>1, <2>2 DEF Waiting
<1>5. \A x : HasJob(x) => HasJob(x)'  BY <1>3 DEF HasJob, Sync
<1>6. HasJob(t)'  BY <1>4 DEF HasJob, Sync
<1>7. \A x : OnTheWay(x) => OnTheWay(x)'  BY <1>1, <1>5, <1>6 DEF OnTheWay
<1>8. \A x \in Target : \A v : Current(x, v) => Current(x, v)'  BY <1>1 DEF Current, RowsOf
<1>9. ASSUME NEW w \in Consumer, NEW p \in work[w].got, p.target \in Target, Fresh(w, p)
      PROVE  Fresh(w, p)'
  <2>1. InBatch(w)' = InBatch(w)  BY <1>1 DEF InBatch
  <2>2. n \notin InBatch(w)  BY <1>4, BatchItems DEF Shape
  <2>3. CASE p.target = t
    <3>1. \E j \in DOMAIN jobs' \ InBatch(w)' : jobs'[j].item = Sync(p.target)
      BY <1>4, <2>1, <2>2, <2>3
    <3> QED  BY <3>1 DEF Fresh, Sync
  <2>4. CASE p.target # t
    BY <1>1, <1>3, <1>8, <1>9, <2>1, <2>4 DEF Fresh, Sync
  <2> QED  BY <2>3, <2>4
<1> QED  BY <1>1, <1>5, <1>7, <1>8, <1>9, IndexedOn

\* A step of an indexer that leaves the queue and the database alone: what it writes
\* in the index is of the targets it has loaded.
LEMMA IndexedWrites ==
  ASSUME Shape, Indexed, UNCHANGED <<queued, jobs, scene, version, changed, since, external>>,
         NEW w \in Consumer, IsIndexer(w), work[w].pc = "load", raced \subseteq raced',
         \A u \in Consumer \ {w} : work'[u] = work[u],
         \A x \in Target : index'[x] = index[x] \/ \E p \in work[w].got : p.target = x,
         \A p \in work'[w].got : PrepOK(w, p)',
         \A p \in work'[w].got : \A u \in Consumer \ {w} : \A q \in work[u].got :
           IsIndexer(u) /\ p.target = q.target => p.target \in raced'
  PROVE  Indexed'
<1>1. /\ \A t : RowsOf(t)' = RowsOf(t)
      /\ \A t, v : Current(t, v) => Current(t, v)'
      /\ \A t : HasJob(t)' <=> HasJob(t)
      /\ \A t : OnTheWay(t)' <=> OnTheWay(t)
  BY DEF RowsOf, Current, HasJob, OnTheWay, Sync
<1>2. ASSUME NEW t \in Target
      PROVE  \/ Current(t, index[t])' \/ t \in raced' \/ OnTheWay(t)' \/ t \in Event \ scene'.synced
  <2>1. Current(t, index[t]) \/ t \in raced \/ OnTheWay(t) \/ t \in Event \ scene.synced
    BY DEF Indexed, StaleOnlyWhileQueued, OnTheWay, HasJob
  <2>2. CASE index'[t] = index[t]
    <3>1. Current(t, index[t]) => Current(t, index[t])'  BY <1>1, <2>2, ShownStays
    <3> QED  BY <1>1, <2>1, <3>1
  <2>3. CASE \E p \in work[w].got : p.target = t
    <3>1. PICK p \in work[w].got : p.target = t  BY <2>3
    <3>2. PrepOK(w, p)  BY DEF Indexed
    <3>3. t \in raced \/ HasJob(t)  BY <3>1, <3>2 DEF PrepOK
    <3> QED  BY <1>1, <3>3 DEF OnTheWay
  <2> QED  BY <2>2, <2>3
<1>3. StaleOnlyWhileQueued'  BY <1>2 DEF StaleOnlyWhileQueued, OnTheWay, HasJob, Sync
<1>4. ASSUME NEW t \in scene'.synced \ raced', RowsOf(t)' = {} PROVE OnTheWay(t)'
  BY <1>1, <1>4 DEF Indexed
<1>5. ASSUME NEW u \in Consumer, u # w, IsIndexer(u)', NEW p \in work'[u].got PROVE PrepOK(u, p)'
  <2>1. IsIndexer(u) /\ work'[u] = work[u] /\ p \in work[u].got /\ InBatch(u)' = InBatch(u)
    BY <1>5 DEF IsIndexer, InBatch
  <2>2. PrepOK(u, p)  BY <2>1 DEF Indexed
  <2>3. p.target \in Target  BY <2>1, GotTyped
  <2>4. p.target \notin raced' => index'[p.target] = index[p.target]
    <3> SUFFICES ASSUME index'[p.target] # index[p.target] PROVE p.target \in raced  OBVIOUS
    <3>1. PICK q \in work[w].got : q.target = p.target  BY <2>3
    <3> QED  BY <1>5, <2>1, <3>1 DEF Indexed
  <2>5. Fresh(u, p) => Fresh(u, p)'  BY <1>1, <2>1 DEF Fresh, Sync
  <2> QED  BY <1>1, <2>1, <2>2, <2>4, <2>5 DEF PrepOK, Sync
<1>6. ASSUME NEW u \in Consumer, NEW v \in Consumer, u # v, IsIndexer(u)', IsIndexer(v)',
             NEW p \in work'[u].got, NEW q \in work'[v].got, p.target = q.target
      PROVE  p.target \in raced'
  <2>1. IsIndexer(u) /\ IsIndexer(v)  BY <1>6 DEF IsIndexer
  <2>2. CASE u = w  BY <1>6, <2>1, <2>2
  <2>3. CASE v = w  BY <1>6, <2>1, <2>3
  <2>4. CASE u # w /\ v # w  BY <1>6, <2>1, <2>4 DEF Indexed
  <2> QED  BY <2>2, <2>3, <2>4
<1> QED  BY <1>3, <1>4, <1>5, <1>6 DEF Indexed

LEMMA LoadIndexed ==
  ASSUME Shape, Indexed, NEW w \in Consumer, Load(w)
  PROVE  Indexed'
<1>1. /\ UNCHANGED <<queued, jobs, scene, version, changed, since, external, index>>
      /\ IsIndexer(w) /\ work[w].pc = "load"
  BY DEF Load, queueVars, otherVars, tableVars
<1>2. PICK t, v, at :
        /\ t \in TargetsOf(w) /\ Mark(w, t, v, at) /\ At(w, t) = {}
        /\ raced' = IF Alone(w, t) THEN raced ELSE raced \cup {t}
        /\ \/ at = "error"
           \/ at = "loaded" /\ Current(t, v) /\ ~(t \in Event /\ RowsOf(t) = {})
  <2>1. PICK t \in TargetsOf(w) :
          /\ At(w, t) = {}
          /\ raced' = IF Alone(w, t) THEN raced ELSE raced \cup {t}
          /\ \/ \E missed \in SUBSET Spared[t] :
                  Mark(w, t, Docs(t, missed),
                       IF t \in Event /\ RowsOf(t) = {} THEN "error" ELSE "loaded")
             \/ Mark(w, t, Absent, "error")
    BY DEF Load
  <2>2. CASE t \in Event /\ RowsOf(t) = {}  BY <2>1, <2>2
  <2>3. CASE ~(t \in Event /\ RowsOf(t) = {})
    <3>1. t \in Target  BY <1>1, <2>1, TargetsTyped DEF Shape
    <3>2. \A missed \in SUBSET Spared[t] : Current(t, Docs(t, missed))
      BY <2>3, <3>1, LoadCurrent DEF Shape
    <3> QED  BY <2>1, <2>3, <3>2
  <2> QED  BY <2>2, <2>3
<1> DEFINE new == [target |-> t, docs |-> v, at |-> at]
           old == {p \in work[w].got : p.target # t}
<1>3. /\ work'[w].got = old \cup {new} /\ work'[w].batch = work[w].batch /\ work'[w].pc = "load"
      /\ \A u \in Consumer \ {w} : work'[u] = work[u]
  BY <1>1, <1>2 DEF Mark, Shape, WorkShape, RecOK, WorkRec
<1>4. new.target = t /\ new.docs = v /\ new.at = at  OBVIOUS
<1>5. \A p \in old : p \in work[w].got /\ p.target # t  OBVIOUS
<1>6. PICK i \in InBatch(w) : queued[i] = Sync(t)  BY <1>1, <1>2, TargetsTyped DEF Shape
<1> HIDE DEF new, old
<1>7. /\ \A x : RowsOf(x)' = RowsOf(x) /\ (HasJob(x)' <=> HasJob(x))
      /\ \A x, d : Current(x, d) => Current(x, d)'
      /\ InBatch(w)' = InBatch(w) /\ raced \subseteq raced'
  BY <1>1, <1>2, <1>3 DEF RowsOf, Current, HasJob, InBatch, Sync
<1>8. t \notin raced' => Alone(w, t)  BY <1>2
<1>9. ASSUME NEW p \in old PROVE PrepOK(w, p)'
  <2>1. PrepOK(w, p) /\ p.target # t  BY <1>1, <1>5 DEF Indexed
  <2>2. \A q \in work'[w].got : q.target = p.target => q = p
    BY <1>3, <1>4, <1>5, <2>1 DEF PrepOK
  <2>3. Fresh(w, p) => Fresh(w, p)'  BY <1>1, <1>7 DEF Fresh, Sync
  <2> QED  BY <1>1, <1>3, <1>7, <2>1, <2>2, <2>3 DEF PrepOK, Sync
<1>10. PrepOK(w, new)'
  <2>1. \A q \in work'[w].got : q.target = t => q = new  BY <1>3, <1>5
  <2>2. t \notin raced' => HasJob(t)'  BY <1>7, <1>8 DEF Alone, HasJob
  <2>3. at # "error" => Fresh(w, new)'  BY <1>2, <1>4, <1>7 DEF Fresh
  <2>4. t \in Event /\ at # "error" => RowsOf(t)' # {}  BY <1>2, <1>7
  <2>5. at # "written"  BY <1>2
  <2>6. \E j \in InBatch(w)' : queued'[j] = Sync(t)  BY <1>1, <1>6, <1>7
  <2> QED  BY <1>4, <2>1, <2>2, <2>3, <2>4, <2>5, <2>6 DEF PrepOK, Sync
<1>11. ASSUME NEW p \in work'[w].got, NEW u \in Consumer \ {w}, NEW q \in work[u].got,
              IsIndexer(u), p.target = q.target
       PROVE  p.target \in raced'
  <2>1. CASE p \in old  BY <1>1, <1>5, <1>7, <1>11, <2>1 DEF Indexed
  <2>2. CASE p = new
    <3>1. PICK j \in InBatch(u) : queued[j] = Sync(t)
      BY <1>4, <1>11, <2>2 DEF Indexed, PrepOK
    <3>2. t \in TargetsOf(u)  BY <3>1, SyncTo DEF TargetsOf
    <3>3. ~Alone(w, t)  BY <1>11, <3>2 DEF Alone
    <3> QED  BY <1>4, <1>8, <2>2, <3>3
  <2> QED  BY <1>3, <2>1, <2>2
<1>12. \A p \in work'[w].got : PrepOK(w, p)'  BY <1>3, <1>9, <1>10
<1> QED  BY <1>1, <1>3, <1>7, <1>11, <1>12, IndexedWrites

\* Some of what an indexer has moves on, or is given up.
LEMMA MovedIndexed ==
  ASSUME Shape, Indexed, UNCHANGED <<queued, jobs, scene, version, changed, since, external, raced>>,
         NEW w \in Consumer, IsIndexer(w), work[w].pc = "load",
         NEW S \in SUBSET work[w].got, NEW at, Moved(w, S, at),
         \A p \in S : p.at # "error",
         \A x \in Target : index'[x] = index[x] \/ \E p \in S : p.target = x,
         at = "written" => \A p \in S : index'[p.target] = p.docs
  PROVE  Indexed'
<1> DEFINE new == Moving(work[w].got, S, at)
<1>1. /\ work'[w].got = new /\ work'[w].batch = work[w].batch /\ work'[w].pc = "load"
      /\ \A u \in Consumer \ {w} : work'[u] = work[u]
  BY DEF Moved, Moving, Shape, WorkShape, RecOK, WorkRec
<1>2. \A p \in new : \E o \in work[w].got :
        /\ o.target = p.target /\ o.docs = p.docs /\ o \in Prep
        /\ (o \notin S /\ p = o) \/ (o \in S /\ p = [o EXCEPT !.at = at] /\ p.at = at)
  <2> SUFFICES ASSUME NEW p \in new
               PROVE  \E o \in work[w].got :
        /\ o.target = p.target /\ o.docs = p.docs /\ o \in Prep
        /\ (o \notin S /\ p = o) \/ (o \in S /\ p = [o EXCEPT !.at = at] /\ p.at = at)
    OBVIOUS
  <2>1. CASE p \in work[w].got \ S  BY <2>1, GotTyped
  <2>2. CASE \E o \in S : p = [o EXCEPT !.at = at]
    <3>1. PICK o \in S : p = [o EXCEPT !.at = at]  BY <2>2
    <3>2. o \in Prep  BY GotTyped
    <3>3. p.target = o.target /\ p.docs = o.docs /\ p.at = at  BY <3>1, <3>2 DEF Prep
    <3> QED  BY <3>1, <3>2, <3>3
  <2> QED  BY <2>1, <2>2 DEF Moving
<1> HIDE DEF new
<1>3. /\ \A x : RowsOf(x)' = RowsOf(x) /\ (HasJob(x)' <=> HasJob(x))
      /\ \A x, d : Current(x, d) => Current(x, d)'
      /\ InBatch(w)' = InBatch(w) /\ raced \subseteq raced'
  BY <1>1 DEF RowsOf, Current, HasJob, InBatch, Sync
<1>4. ASSUME NEW p \in new PROVE PrepOK(w, p)'
  <2>1. PICK o \in work[w].got :
          /\ o.target = p.target /\ o.docs = p.docs /\ o \in Prep
          /\ (o \notin S /\ p = o) \/ (o \in S /\ p = [o EXCEPT !.at = at] /\ p.at = at)
    BY <1>2
  <2>2. PrepOK(w, o)  BY DEF Indexed
  <2>3. p.at # "error" => o.at # "error"  BY <2>1
  <2>4. \A q \in new : q.target = p.target => q = p
    <3> SUFFICES ASSUME NEW q \in new, q.target = p.target PROVE q = p  OBVIOUS
    <3>1. PICK r \in work[w].got :
          /\ r.target = q.target /\ r.docs = q.docs /\ r \in Prep
          /\ (r \notin S /\ q = r) \/ (r \in S /\ q = [r EXCEPT !.at = at] /\ q.at = at)
      BY <1>2
    <3>2. r = o  BY <2>1, <2>2, <3>1 DEF PrepOK
    <3> QED  BY <2>1, <3>1, <3>2
  <2>5. Fresh(w, o) => Fresh(w, p)'  BY <1>3, <2>1 DEF Fresh, Sync
  <2>6. ASSUME p.at = "written", o.at = "written" \/ o \in S, index[o.target] = o.docs \/ o \in S
        PROVE  index'[p.target] = p.docs
    <3>1. CASE o \in S  BY <2>1, <2>6, <3>1
    <3>2. CASE o \notin S
      <4>1. \A r \in S : r.target # o.target  BY <2>2, <3>2 DEF PrepOK
      <4>2. o.target \in Target  BY GotTyped
      <4> QED  BY <2>1, <2>6, <3>2, <4>1, <4>2
    <3> QED  BY <3>1, <3>2
  <2>7. work'[w].pc = "load" /\ p.target \notin raced' =>
           /\ HasJob(p.target)'
           /\ p.at # "error" => Fresh(w, p)'
           /\ p.at = "written" => index'[p.target] = p.docs
    <3> SUFFICES ASSUME p.target \notin raced'
                 PROVE  /\ HasJob(p.target)'
                        /\ p.at # "error" => Fresh(w, p)'
                        /\ p.at = "written" => index'[p.target] = p.docs
      OBVIOUS
    <3>1. /\ HasJob(o.target)
          /\ o.at # "error" => Fresh(w, o)
          /\ o.at = "written" => index[o.target] = o.docs
      BY <2>1, <2>2 DEF PrepOK
    <3>2. HasJob(p.target)'  BY <1>3, <2>1, <3>1
    <3>3. p.at # "error" => Fresh(w, p)'  BY <2>3, <2>5, <3>1
    <3>4. p.at = "written" => index'[p.target] = p.docs  BY <2>1, <2>6, <3>1
    <3> QED  BY <3>2, <3>3, <3>4
  <2>8. p.target \in Event /\ p.at # "error" => RowsOf(p.target)' # {}
    BY <1>3, <2>1, <2>2, <2>3 DEF PrepOK
  <2>9. \E j \in InBatch(w)' : queued'[j] = Sync(p.target)  BY <1>3, <2>1, <2>2 DEF PrepOK
  <2> QED  BY <1>1, <2>4, <2>7, <2>8, <2>9 DEF PrepOK, Sync
<1>5. ASSUME NEW p \in work'[w].got, NEW u \in Consumer \ {w}, NEW q \in work[u].got,
             IsIndexer(u), p.target = q.target
      PROVE  p.target \in raced'
  <2>1. PICK o \in work[w].got : o.target = p.target  BY <1>1, <1>2
  <2> QED  BY <1>5, <2>1 DEF Indexed
<1>6. \A p \in work'[w].got : PrepOK(w, p)'  BY <1>1, <1>4
<1>7. \A x \in Target : index'[x] = index[x] \/ \E p \in work[w].got : p.target = x  OBVIOUS
<1> QED  BY <1>1, <1>3, <1>5, <1>6, <1>7, IndexedWrites

LEMMA DeleteIndexed ==
  ASSUME Shape, Indexed, NEW w \in Consumer, DeleteKeys(w)
  PROVE  Indexed'
<1>1. PICK n \in Range(NamespaceOf) :
        /\ IsIndexer(w) /\ work[w].pc = "load"
        /\ \/ /\ index' = [t \in Target |-> IF \E p \in InNamespace(w, n) : p.target = t
                                            THEN Absent ELSE index[t]]
              /\ Moved(w, InNamespace(w, n), "deleted")
           \/ Moved(w, InNamespace(w, n), "error") /\ UNCHANGED index
  BY DEF DeleteKeys
<1>2. /\ UNCHANGED <<queued, jobs, scene, version, changed, since, external, raced>>
  BY DEF DeleteKeys, queueVars, otherVars, tableVars
<1> DEFINE S == InNamespace(w, n)
<1>3. S \in SUBSET work[w].got /\ \A p \in S : p.at # "error"  BY DEF InNamespace
<1> HIDE DEF S
<1>4. \A x \in Target : index'[x] = index[x] \/ \E p \in S : p.target = x  BY <1>1 DEF S
<1>5. Moved(w, S, "deleted") \/ Moved(w, S, "error")  BY <1>1 DEF S
<1>6. CASE Moved(w, S, "deleted")  BY <1>1, <1>2, <1>3, <1>4, <1>6, MovedIndexed
<1>7. CASE Moved(w, S, "error")  BY <1>1, <1>2, <1>3, <1>4, <1>7, MovedIndexed
<1> QED  BY <1>5, <1>6, <1>7

LEMMA UpsertIndexed ==
  ASSUME Shape, Indexed, NEW w \in Consumer, UpsertRows(w)
  PROVE  Indexed'
<1> DEFINE S == {p \in work[w].got : p.at = "deleted"}
           W == [t \in Target |-> IF \E p \in S : p.target = t
                                  THEN (CHOOSE p \in S : p.target = t).docs ELSE index[t]]
<1>1. /\ IsIndexer(w) /\ work[w].pc = "load"
      /\ UNCHANGED <<queued, jobs, scene, version, changed, since, external, raced>>
      /\ \/ index' = W /\ Moved(w, S, "written")
         \/ Moved(w, S, "error") /\ index' \in {index, W}
  BY DEF UpsertRows, queueVars, otherVars, tableVars
<1>2. S \in SUBSET work[w].got /\ \A p \in S : p.at # "error"  OBVIOUS
<1>3. ASSUME NEW p \in S PROVE p.target \in Target /\ W[p.target] = p.docs
  <2>1. p.target \in Target  BY <1>1, GotTyped
  <2>2. \A q \in work[w].got : q.target = p.target => q = p  BY <1>1 DEF Indexed, PrepOK
  <2>3. (CHOOSE q \in S : q.target = p.target) = p  BY <2>2
  <2> QED  BY <2>1, <2>3
<1>4. \A x \in Target : W[x] = index[x] \/ \E p \in S : p.target = x  OBVIOUS
<1> HIDE DEF S, W
<1>5. \A x \in Target : index'[x] = index[x] \/ \E p \in S : p.target = x  BY <1>1, <1>4
<1>6. CASE index' = W /\ Moved(w, S, "written")
  <2>1. \A p \in S : index'[p.target] = p.docs  BY <1>3, <1>6
  <2> QED  BY <1>1, <1>2, <1>5, <1>6, <2>1, MovedIndexed
<1>7. CASE Moved(w, S, "error")  BY <1>1, <1>2, <1>5, <1>7, MovedIndexed
<1> QED  BY <1>1, <1>6, <1>7

\* An ack takes the jobs of what is written: the index has what was loaded, and if
\* that is old another job is on the way.
LEMMA AckIndexed ==
  ASSUME Shape, Indexed, NEW w \in Consumer, AckWritten(w)
  PROVE  Indexed'
<1> DEFINE S == JobsAt(w, {"written"})
<1>1. /\ IsIndexer(w) /\ work[w].pc = "load"
      /\ UNCHANGED <<queued, scene, version, changed, since, external, index, raced>>
      /\ AckJobs(w, S) \/ UNCHANGED jobs
      /\ work' = [work EXCEPT ![w].pc = "retry"] \/ work' = [work EXCEPT ![w] = Resting]
  BY DEF AckWritten, otherVars, tableVars, indexVars
<1>2. /\ \A u \in Consumer \ {w} : work'[u] = work[u]
      /\ \/ work'[w].got = {}
         \/ work'[w].got = work[w].got /\ work'[w].batch = work[w].batch /\ work'[w].pc = "retry"
  <2>1. Resting.got = {}  BY DEF Resting
  <2>2. DOMAIN work = Consumer /\ work[w] \in WorkRec(scene.crew[w])
    BY DEF Shape, WorkShape, RecOK
  <2> QED  BY <1>1, <2>1, <2>2 DEF WorkRec
<1>3. \A j \in S : j \in InBatch(w) /\ \E p \in work[w].got : p.target = queued[j].target /\ p.at = "written"
  BY DEF JobsAt
<1> HIDE DEF S
<1>4. \A j \in DOMAIN jobs :
        \/ j \in DOMAIN jobs' /\ jobs'[j] = jobs[j]
        \/ j \in InBatch(w) /\ \E p \in work[w].got : p.target = queued[j].target /\ p.at = "written"
  BY <1>1, <1>3 DEF AckJobs
<1>5. /\ \A x : RowsOf(x)' = RowsOf(x)
      /\ \A x, d : Current(x, d) => Current(x, d)'
  BY <1>1 DEF RowsOf, Current
<1>6. ASSUME NEW x, HasJob(x)
      PROVE  HasJob(x)' \/ \E p \in work[w].got : p.target = x /\ p.at = "written"
  <2>1. PICK j \in DOMAIN jobs : jobs[j].item = Sync(x)  BY <1>6 DEF HasJob
  <2>2. queued[j] = Sync(x)  BY <2>1 DEF Shape, QueueShape
  <2>3. queued[j].target = x  BY <2>2, SyncTo
  <2> QED  BY <1>4, <2>1, <2>3 DEF HasJob, Sync
<1>7. ASSUME NEW x, NEW B, \E j \in DOMAIN jobs \ B : jobs[j].item = Sync(x)
      PROVE  \/ \E j \in DOMAIN jobs' \ B : jobs'[j].item = Sync(x)
             \/ \E p \in work[w].got : p.target = x /\ p.at = "written"
  <2>1. PICK j \in DOMAIN jobs \ B : jobs[j].item = Sync(x)  BY <1>7
  <2>2. queued[j] = Sync(x)  BY <2>1 DEF Shape, QueueShape
  <2>3. queued[j].target = x  BY <2>2, SyncTo
  <2> QED  BY <1>4, <2>1, <2>3
\* A target that w has written and is not raced.
<1>8. ASSUME NEW p \in work[w].got, p.at = "written", p.target \notin raced
      PROVE  /\ p.target \in Event => RowsOf(p.target) # {}
             /\ Current(p.target, index[p.target]) \/ OnTheWay(p.target)'
  <2>1. PrepOK(w, p)  BY <1>1 DEF Indexed
  <2>2. Fresh(w, p) /\ index[p.target] = p.docs  BY <1>1, <1>8, <2>1 DEF PrepOK
  <2>3. p.target \in Event => RowsOf(p.target) # {}  BY <1>8, <2>1 DEF PrepOK
  <2>4. CASE \E j \in DOMAIN jobs \ InBatch(w) : jobs[j].item = Sync(p.target)
    <3>1. PICK j \in DOMAIN jobs \ InBatch(w) : jobs[j].item = Sync(p.target)  BY <2>4
    <3>2. j \in DOMAIN jobs' /\ jobs'[j].item = Sync(p.target)  BY <1>4, <3>1
    <3> QED  BY <2>3, <3>2 DEF OnTheWay, HasJob, Sync
  <2> QED  BY <1>1, <2>2, <2>3, <2>4 DEF Fresh, OnTheWay
<1>9. ASSUME NEW t \in Target
      PROVE  \/ Current(t, index[t])' \/ t \in raced' \/ OnTheWay(t)' \/ t \in Event \ scene'.synced
  <2>0. Current(t, index[t]) => Current(t, index[t])'  BY <1>1, <1>5, ShownStays
  <2>1. Current(t, index[t]) \/ t \in raced \/ OnTheWay(t) \/ t \in Event \ scene.synced
    BY DEF Indexed, StaleOnlyWhileQueued, OnTheWay, HasJob
  <2>2. CASE OnTheWay(t) /\ ~OnTheWay(t)'
    <3>1. HasJob(t) /\ ~HasJob(t)'  BY <1>1, <2>2 DEF OnTheWay
    <3>2. PICK p \in work[w].got : p.target = t /\ p.at = "written"  BY <1>6, <3>1
    <3>3. Current(t, index[t]) \/ t \in raced  BY <1>8, <2>2, <3>2
    <3> QED  BY <1>1, <2>0, <3>3
  <2> QED  BY <1>1, <2>0, <2>1, <2>2
<1>10. StaleOnlyWhileQueued'  BY <1>9 DEF StaleOnlyWhileQueued, OnTheWay, HasJob, Sync
<1>11. ASSUME NEW t \in scene'.synced \ raced', RowsOf(t)' = {} PROVE OnTheWay(t)'
  <2>1. OnTheWay(t) /\ RowsOf(t) = {} /\ t \notin raced  BY <1>1, <1>5, <1>11 DEF Indexed
  <2>2. t \in Event  BY <1>1, PipelineAssumption DEF Shape, WorkShape
  <2>3. ~ \E p \in work[w].got : p.target = t /\ p.at = "written"  BY <1>8, <2>1, <2>2
  <2> QED  BY <1>1, <1>6, <2>1, <2>3 DEF OnTheWay
<1>12. ASSUME NEW u \in Consumer, IsIndexer(u)', NEW p \in work'[u].got PROVE PrepOK(u, p)'
  <2>1. IsIndexer(u)  BY <1>1, <1>12 DEF IsIndexer
  <2>2. CASE u = w
    <3>1. work'[w].got = work[w].got /\ InBatch(w)' = InBatch(w) /\ work'[w].pc = "retry"
      BY <1>2, <1>12, <2>2 DEF InBatch
    <3>2. PrepOK(w, p)  BY <1>1, <1>12, <2>2, <3>1 DEF Indexed
    <3> QED  BY <1>1, <1>5, <2>2, <3>1, <3>2 DEF PrepOK, Sync
  <2>3. CASE u # w
    <3>1. work'[u] = work[u] /\ InBatch(u)' = InBatch(u)  BY <1>2, <2>3 DEF InBatch
    <3>2. PrepOK(u, p)  BY <1>12, <2>1, <3>1 DEF Indexed
    <3>3. p.target \notin raced => ~ \E q \in work[w].got : q.target = p.target /\ q.at = "written"
      BY <1>1, <1>12, <2>1, <2>3, <3>1 DEF Indexed
    <3>4. p.target \notin raced /\ HasJob(p.target) => HasJob(p.target)'  BY <1>6, <3>3
    <3>5. p.target \notin raced /\ Fresh(u, p) => Fresh(u, p)'
      <4> SUFFICES ASSUME p.target \notin raced, Fresh(u, p) PROVE Fresh(u, p)'  OBVIOUS
      <4>1. CASE \E j \in DOMAIN jobs \ InBatch(u) : jobs[j].item = Sync(p.target)
        <5>1. \E j \in DOMAIN jobs' \ InBatch(u) : jobs'[j].item = Sync(p.target)
          BY <1>7, <3>3, <4>1
        <5> QED  BY <3>1, <5>1 DEF Fresh, Sync
      <4> QED  BY <1>1, <1>5, <4>1 DEF Fresh
    <3> QED  BY <1>1, <1>5, <3>1, <3>2, <3>4, <3>5 DEF PrepOK, Sync
  <2> QED  BY <2>2, <2>3
<1>13. ASSUME NEW u \in Consumer, NEW v \in Consumer, u # v, IsIndexer(u)', IsIndexer(v)',
              NEW p \in work'[u].got, NEW q \in work'[v].got, p.target = q.target
       PROVE  p.target \in raced'
  <2>1. IsIndexer(u) /\ IsIndexer(v)  BY <1>1, <1>13 DEF IsIndexer
  <2>2. p \in work[u].got /\ q \in work[v].got  BY <1>2, <1>13
  <2> QED  BY <1>1, <1>13, <2>1, <2>2 DEF Indexed
<1> QED  BY <1>10, <1>11, <1>12, <1>13 DEF Indexed

LEMMA SyncJobsKept ==
  ASSUME Shape,
         \/ \E items \in Seq(Item) : Enqueued(items, 0)
         \/ DOMAIN jobs' = DOMAIN jobs /\ \A j \in DOMAIN jobs : jobs'[j].item = jobs[j].item
  PROVE  SyncJobsStay
<1>1. CASE \E items \in Seq(Item) : Enqueued(items, 0)
  <2>1. PICK items \in Seq(Item) : Enqueued(items, 0)  BY <1>1
  <2>2. DOMAIN jobs \subseteq DOMAIN jobs' /\ \A j \in DOMAIN jobs : jobs'[j] = jobs[j]
    BY <2>1, EnqueuedKeeps DEF Shape
  <2> QED  BY <2>2 DEF SyncJobsStay
<1> QED  BY <1>1 DEF SyncJobsStay

\* The calls that only claim, renew or put back keep the items of the jobs.
LEMMA ItemsStay ==
  ASSUME Shape, NEW w, NEW S,
         \/ Hold(w, S) \/ RetryJobs(w, S) \/ Age \/ UNCHANGED jobs
         \/ jobs' = [j \in DOMAIN jobs |-> IF j \in S /\ jobs[j].holder = w
                                           THEN Renewed(jobs[j]) ELSE jobs[j]]
  PROVE  SyncJobsStay
<1>1. \A j \in DOMAIN jobs : jobs[j] \in Job  BY DEF Shape, QueueShape
<1>2. \A b \in Job : /\ Claimed(b, w).item = b.item /\ PutBack(b, RetryDelay).item = b.item
                     /\ Older(b).item = b.item /\ Renewed(b).item = b.item
  BY DEF Claimed, PutBack, Older, Renewed, Job
<1>3. DOMAIN jobs' = DOMAIN jobs /\ \A j \in DOMAIN jobs : jobs'[j].item = jobs[j].item
  BY <1>1, <1>2 DEF Hold, RetryJobs, Age
<1> QED  BY <1>3, SyncJobsKept

LEMMA IndexedWorker ==
  ASSUME Shape, NEW w \in Consumer,
         \/ HeartbeatBatch(w) \/ StartBatch(w) \/ RetryFailed(w)
         \/ ClaimBatch(w) \/ Abort(w) \/ CrashWorker(w)
         \/ ~IsIndexer(w) /\ (\/ StartJob(w) \/ EndJob(w) \/ InsertExternalEvent(w)
                  \/ PassOver(w) \/ Commit(w) \/ AskSource(w) \/ Post(w) \/ HeartbeatJob(w))
  PROVE  SyncJobsStay /\ \A u \in Consumer : IsIndexer(u) => BatchStays(u)
<1>1. DOMAIN work = Consumer /\ work[w] \in WorkRec(scene.crew[w])
  BY DEF Shape, WorkShape, RecOK
<1>2. \A u \in Consumer \ {w} : work'[u] = work[u]
  BY <1>1 DEF HeartbeatBatch, StartBatch, Start, RetryFailed, ClaimBatch, Claim, Abort, CrashWorker,
       Crash, StartJob, EndJob, Settle, NextRound, InsertExternalEvent, PassOver, Commit,
       AskSource, Post, Step, HeartbeatJob, Beat
<1>3. SyncJobsStay
  <2>1. CASE EndJob(w) /\ ~IsIndexer(w)
    <3>1. AckJobs(w, {InHand(w)}) \/ RetryJobs(w, {InHand(w)}) \/ UNCHANGED jobs
      BY <2>1 DEF EndJob, Settle
    <3>2. CASE AckJobs(w, {InHand(w)})
      <4>1. work[w].pc # "rest"  BY <2>1 DEF EndJob
      <4>2. Doing(w).to = scene.crew[w]  BY <4>1, HandFacts DEF Shape
      <4>3. \A j \in DOMAIN jobs : jobs[j].item.to = "indexer" => j # InHand(w)
        BY <2>1, <4>2 DEF Shape, QueueShape, Doing, IsIndexer
      <4> QED  BY <3>2, <4>3 DEF AckJobs, SyncJobsStay
    <3> QED  BY <3>1, <3>2, ItemsStay
  <2>2. CASE HeartbeatBatch(w) \/ HeartbeatJob(w)
    <3>1. CASE HeartbeatBatch(w)
      <4> DEFINE S == InBatch(w)
      <4>1. UNCHANGED jobs \/ jobs' = [j \in DOMAIN jobs |-> IF j \in S /\ jobs[j].holder = w
                                           THEN Renewed(jobs[j]) ELSE jobs[j]]
        BY <3>1 DEF HeartbeatBatch
      <4> HIDE DEF S
      <4> QED  BY <4>1, ItemsStay
    <3>2. CASE HeartbeatJob(w)
      <4> DEFINE S == {InHand(w)}
      <4>1. UNCHANGED jobs \/ jobs' = [j \in DOMAIN jobs |-> IF j \in S /\ jobs[j].holder = w
                                           THEN Renewed(jobs[j]) ELSE jobs[j]]
        BY <3>2 DEF HeartbeatJob, Beat
      <4> HIDE DEF S
      <4> QED  BY <4>1, ItemsStay
    <3> QED  BY <2>2, <3>1, <3>2
  <2>3. CASE RetryFailed(w)
    <3>1. RetryJobs(w, JobsAt(w, {"error"})) \/ UNCHANGED jobs  BY <2>3 DEF RetryFailed
    <3> QED  BY <3>1, ItemsStay
  <2>4. CASE ClaimBatch(w)
    <3>1. Hold(w, Grant(Mine(w), scene.claim))  BY <2>4 DEF ClaimBatch, Claim
    <3> QED  BY <3>1, ItemsStay
  <2>5. CASE \/ StartBatch(w) \/ Abort(w) \/ CrashWorker(w) \/ StartJob(w) \/ InsertExternalEvent(w)
             \/ PassOver(w) \/ Commit(w) \/ AskSource(w) \/ Post(w)
    <3>1. UNCHANGED jobs
      BY <2>5 DEF StartBatch, Abort, CrashWorker, Crash, StartJob, Start, InsertExternalEvent,
         PassOver, Commit, AskSource, Post, queueVars
    <3> QED  BY <3>1, ItemsStay
  <2> QED  BY <2>1, <2>2, <2>3, <2>4, <2>5
<1>4. ASSUME IsIndexer(w) PROVE BatchStays(w)
  <2>1. CASE HeartbeatBatch(w)
    <3>1. work' = [work EXCEPT ![w].beat = 0]  BY <2>1 DEF HeartbeatBatch
    <3> QED  BY <1>1, <3>1 DEF BatchStays, WorkRec
  <2>2. CASE StartBatch(w)
    <3> DEFINE late == ~(/\ InHand(w) \in DOMAIN jobs /\ jobs[InHand(w)].holder = w
                         /\ jobs[InHand(w)].lease > Interval)
               r == [Resting EXCEPT !.pc = "load", !.batch = work[w].batch, !.late = late]
    <3>1. work' = [work EXCEPT ![w] = r]  BY <2>2 DEF StartBatch, Start
    <3>2. r.got = {}  BY DEF Resting
    <3> HIDE DEF r
    <3> QED  BY <1>1, <3>1, <3>2 DEF BatchStays
  <2>3. CASE RetryFailed(w) \/ CrashWorker(w)
    <3>1. work' = [work EXCEPT ![w] = Resting] /\ Resting.got = {}
      BY <2>3 DEF RetryFailed, CrashWorker, Crash, Resting
    <3> QED  BY <1>1, <3>1 DEF BatchStays
  <2>4. CASE ClaimBatch(w)
    <3> DEFINE r == [Resting EXCEPT !.pc = "turn", !.batch = InOrder(Grant(Mine(w), scene.claim))]
    <3>1. work' = [work EXCEPT ![w] = r] \/ UNCHANGED work  BY <2>4 DEF ClaimBatch, Claim
    <3>2. r.got = {}  BY DEF Resting
    <3> HIDE DEF r
    <3> QED  BY <1>1, <3>1, <3>2 DEF BatchStays
  <2>5. CASE Abort(w)
    <3>1. work[w].pc \in {"open", "written"}  BY <2>5 DEF Abort
    <3>2. scene.crew[w] = "projector"  BY <3>1, PcCrew DEF Shape
    <3> QED  BY <1>4, <3>2 DEF IsIndexer
  <2> QED  BY <1>4, <2>1, <2>2, <2>3, <2>4, <2>5
<1>5. \A u \in Consumer \ {w} : BatchStays(u)  BY <1>2 DEF BatchStays
<1> QED  BY <1>3, <1>4, <1>5

LEMMA IndexedStep ==
  ASSUME Shape, Writers, Indexed, [IndexNext]_allVars
  PROVE  Indexed'
<1>1. Shape' /\ QueueGrows /\ UNCHANGED scene /\ MoreDone  BY BasicsStep, MoreDoneStep
<1>2. ASSUME NEW w \in Consumer,
             Load(w) \/ DeleteKeys(w) \/ UpsertRows(w) \/ AckWritten(w)
      PROVE  Indexed'
  BY <1>2, LoadIndexed, DeleteIndexed, UpsertIndexed, AckIndexed
<1>3. ASSUME NEW w \in Consumer,
             \/ HeartbeatBatch(w) \/ StartBatch(w) \/ RetryFailed(w)
             \/ /\ UNCHANGED indexVars
                /\ \/ ClaimBatch(w) \/ Abort(w) \/ CrashWorker(w)
                   \/ ~IsIndexer(w) /\ (Working(w) \/ HeartbeatJob(w))
      PROVE  Indexed'
  <2>1. UNCHANGED indexVars  BY <1>3 DEF HeartbeatBatch, StartBatch, RetryFailed
  <2>2. SyncJobsStay /\ \A u \in Consumer : IsIndexer(u) => BatchStays(u)
    BY <1>3, IndexedWorker DEF Working
  <2> QED  BY <1>1, <2>1, <2>2, IndexedStill
<1>4. CASE (\E t \in Resource : ChangeResource(t)) \/ Producers
  BY <1>1, <1>4, ChangeIndexed, SyncIndexed DEF Producers
<1>5. ASSUME UNCHANGED indexVars,
             \/ ListEvents \/ MatchNext \/ EnqueueDeliveries \/ SaveCheckpoint \/ TickAll
             \/ (\E e \in Event : EnqueueProjection(e)) \/ (\E s \in Sub : Switch(s))
             \/ UNCHANGED allVars
      PROVE  Indexed'
  <2>1. \A u \in Consumer : BatchStays(u)
    <3>1. CASE TickAll
      BY <3>1 DEF TickAll, Tick, BatchStays, Shape, WorkShape, RecOK, WorkRec
    <3>2. CASE \/ ListEvents \/ MatchNext \/ EnqueueDeliveries \/ SaveCheckpoint
               \/ (\E e \in Event : EnqueueProjection(e)) \/ (\E s \in Sub : Switch(s))
               \/ UNCHANGED allVars
      <4>1. UNCHANGED work
        BY <3>2 DEF ListEvents, MatchNext, EnqueueDeliveries, SaveCheckpoint, EnqueueProjection,
           Switch, allVars, vars
      <4> QED  BY <4>1 DEF BatchStays
    <3> QED  BY <1>5, <3>1, <3>2
  <2>2. SyncJobsStay
    <3>1. CASE TickAll  BY <3>1, ItemsStay DEF TickAll, Tick
    <3>2. CASE \E e \in Event : EnqueueProjection(e)
      <4>1. PICK e \in Event : Enqueued(<<Project(e)>>, 0)  BY <3>2 DEF EnqueueProjection
      <4>2. <<Project(e)>> \in Seq(Item)  BY DEF Item
      <4> QED  BY <4>1, <4>2, SyncJobsKept
    <3>3. CASE EnqueueDeliveries
      <4>1. round.items \in Seq(Item)  BY DEF Shape, RoundShape
      <4>2. Enqueued(round.items, 0) \/ UNCHANGED jobs
        BY <3>3 DEF EnqueueDeliveries, queueVars
      <4> QED  BY <4>1, <4>2, SyncJobsKept, ItemsStay
    <3>4. CASE \/ ListEvents \/ MatchNext \/ SaveCheckpoint \/ (\E s \in Sub : Switch(s))
               \/ UNCHANGED allVars
      <4>1. UNCHANGED jobs
        BY <3>4 DEF ListEvents, MatchNext, SaveCheckpoint, Switch, allVars, vars, queueVars
      <4> QED  BY <4>1, ItemsStay
    <3> QED  BY <1>5, <3>1, <3>2, <3>3, <3>4
  <2> QED  BY <1>1, <1>5, <2>1, <2>2, IndexedStill
<1>6. UNCHANGED allVars => UNCHANGED indexVars  BY DEF allVars
<1> QED
  BY <1>2, <1>3, <1>4, <1>5, <1>6 DEF IndexNext, Indexing, Producing

LEMMA InitIndexed == IndexInit => Indexed
<1> SUFFICES ASSUME IndexInit PROVE Indexed  OBVIOUS
<1>1. /\ version = [t \in Resource |-> 0] /\ changed = scene.synced
      /\ since = [t \in Resource |-> version]
      /\ index = [t \in Target |-> IF t \in Resource THEN [q \in Parts(t) |-> 0] ELSE Absent]
      /\ \A w \in Consumer : work[w].got = {}
  BY DEF IndexInit, Init, QueueInit, Resting
<1>2. ASSUME NEW t \in Target
      PROVE  Current(t, index[t]) \/ t \in changed \/ t \in Event \ scene.synced
  <2>1. CASE t \in Event  BY <1>1, <2>1
  <2>2. CASE t \in Resource \ Event
    <3> DEFINE v == [q \in Parts(t) |-> 0]
    <3>1. index[t] = v  BY <1>1, <2>2
    <3>2. v # Absent
      <4>1. Parts(t) \in SUBSET Resource  BY DEF Parts
      <4>2. v \in [Parts(t) -> Nat]  OBVIOUS
      <4> QED  BY <4>1, <4>2, AbsentAssumption
    <3>3. t \in DOMAIN v /\ v[t] = version[t]  BY <1>1, <2>2 DEF Parts
    <3>4. \A q \in Quotes[t] \cap DOMAIN v : v[q] = 0 /\ since[t][q] = 0
      BY <1>1, <2>2 DEF Parts
    <3>5. \A q \in Quotes[t] \cap DOMAIN v : v[q] >= since[t][q]  BY <3>4
    <3> HIDE DEF v
    <3> QED  BY <2>2, <3>1, <3>2, <3>3, <3>5 DEF Current
  <2> QED  BY <2>1, <2>2 DEF Target
<1> QED  BY <1>1, <1>2 DEF Indexed, StaleOnlyWhileQueued, OnTheWay

\* The documents of a target show its row as it is, and the rows they quote no older
\* than at its last change, or a job for it is on the way, unless two workers were at it
\* at once: the one that writes last may have read first, or may stop between the delete
\* and the upsert when the other has acked (search/runtime.go:709).  What a quoted row
\* becomes later they do not show.
THEOREM IndexBehindOnlyWhileQueued == IndexSpec => []StaleOnlyWhileQueued
<1>1. IndexInit => Indexed  BY InitIndexed
<1>2. Shape /\ Writers /\ Indexed /\ [IndexNext]_allVars => Indexed'  BY IndexedStep
<1>3. Indexed => StaleOnlyWhileQueued  BY DEF Indexed
<1> QED  BY <1>1, <1>2, <1>3, BasicsAlways, PTL DEF IndexSpec

=============================================================================
