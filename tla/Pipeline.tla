------------------------------ MODULE Pipeline ------------------------------
(***************************************************************************)
(* From internal events to webhook deliveries: the projector's worker      *)
(* (processProjectionJob), which turns an internal event into an external  *)
(* event and the rows of its feeds in one transaction, the producer of     *)
(* deliveries (EnqueueDeliveriesOnce), which matches external events with  *)
(* subscriptions, and the worker that posts them (processDelivery); the    *)
(* process that has the last two is "webhook".                              *)
(*                                                                         *)
(* The shard producers of the projector are ShardProducer: what they       *)
(* promise is all that is used here, that every event is enqueued, and     *)
(* possibly more than once.  sequence_id of an external event is drawn     *)
(* when its row is inserted, the row is visible when its transaction       *)
(* commits; "external" has the visible rows under their sequence_id.       *)
(***************************************************************************)
EXTENDS Workers

CONSTANTS
  Event,        \* the internal events
  KindOf,       \* "user", "workspace", "conversation" (messages too), "unlisted"
                \* (a type projectEvent passes over) or "malformed" (its payload)
  Spaced,       \* the events that have a workspace_id
  Field, Null,  \* the columns a subscription filters on; a column that is null
  ValueOf,      \* per event: [Field -> value or Null]
  Sub, Filter,  \* the subscriptions; per subscription: [Field -> value or Null]
  MayRead,      \* the <<subscription, event>> whose owner may see the event
  Scenes,       \* what a behaviour starts from: who consumes which queue, how
                \* often each event is enqueued, what is projected already, how
                \* many jobs a claim is for, whether deliveries are produced, and
                \* the bounds on what fails and on PATCHes of "enabled"
  BatchSize     \* producerBatchSize

\* The heartbeats of a job (every 30 s, webhooks/jobs.go:118) come before its
\* lease of two minutes ends (queue/types.go:9); no event is projected twice when
\* a behaviour starts.
ASSUME PipelineAssumption ==
  /\ Lease \in Nat /\ Interval \in Nat /\ Interval < Lease /\ RetryDelay \in Nat
  /\ NoConsumer \notin Consumer
  /\ MaxJobs \in Nat /\ MaxFaults \in Nat /\ BatchSize \in Nat \ {0} /\ IsFiniteSet(Sub)
  /\ \A sc \in Scenes :
       /\ sc.crew \in [Consumer -> {"projector", "webhook", "indexer"}]
       /\ sc.events \in Seq(Event) /\ IsInjective(sc.events)
       /\ sc.claim \in Nat /\ sc.faults \in Nat /\ sc.synced \subseteq Event

Project(e)    == [to |-> "projector", event |-> e]
Deliver(s, e) == [to |-> "webhook", event |-> e, sub |-> s]

VARIABLES
  scene,
  external,     \* external_events and the feeds of each, committed
  drawn,        \* sequence_ids drawn
  failures,     \* external_event_projection_failures
  disorder,     \* history: rows that were committed after one with a greater id
  enabled,      \* the subscriptions that are enabled
  switches, everOff,  \* PATCHes so far; history: subscriptions that were disabled
  checkpoint,   \* of the webhook producer
  round,        \* of the webhook producer: its step, the rows it has yet to
                \* match, the items it has, its lastSequenceID
  delivered     \* what the endpoints received

tableVars   == <<external, drawn, failures, disorder>>
subVars     == <<enabled, switches, everOff>>
producerVars == <<checkpoint, round>>
vars == <<queueVars, work, faults, scene, tableVars, subVars, producerVars, delivered>>

Mine(w)  == {j \in DOMAIN jobs : jobs[j].item.to = scene.crew[w]}
Doing(w) == queued[InHand(w)]

Step(w, pc) == work' = [work EXCEPT ![w].pc = pc]

-----------------------------------------------------------------------------
(* The projector's worker.                                                 *)

\* What the shard producers do for it.
EnqueueProjection(e) ==
  /\ Cardinality({i \in DOMAIN queued : queued[i] = Project(e)}) < scene.copies[e]
  /\ Enqueued(<<Project(e)>>, 0)
  /\ UNCHANGED <<work, faults, scene, tableVars, subVars, producerVars, delivered>>

\* The rows of the feeds that projectEvent inserts beside the external event.
FeedsOf(e) == {f \in {"workspace", "conversation", "user"} :
                 IF f = "workspace" THEN e \in Spaced ELSE KindOf[e] = f}

RowsOf(e) == {i \in DOMAIN external : external[i].event = e}

\* Mutant of InsertExternalEvent: a plain insert, under a key that is not unique.
InsertExternalEventAgain(w) ==
  /\ work[w].pc = "open" /\ KindOf[Doing(w).event] \notin {"unlisted", "malformed"}
  /\ drawn' = drawn + 1
  /\ work' = [work EXCEPT ![w].pc = "written", ![w].got = {drawn + 1}]
  /\ UNCHANGED <<queueVars, faults, scene, external, failures, disorder, subVars,
                 producerVars, delivered>>

\* Insert on conflict (dedupe_key) do update: it waits for another transaction
\* that has written the key, and gets the id of the row there is, or a new one.
InsertExternalEvent(w) ==
  LET e == Doing(w).event
  IN  /\ work[w].pc = "open" /\ KindOf[e] \notin {"unlisted", "malformed"}
      /\ \A u \in Consumer : work[u].pc = "written" => Doing(u).event # e
      /\ IF RowsOf(e) # {}
         THEN work' = [work EXCEPT ![w].pc = "written", ![w].got = RowsOf(e)]
              /\ UNCHANGED drawn
         ELSE work' = [work EXCEPT ![w].pc = "written", ![w].got = {drawn + 1}]
              /\ drawn' = drawn + 1
  /\ UNCHANGED <<queueVars, faults, scene, external, failures, disorder, subVars,
                 producerVars, delivered>>

\* An event of another type needs no row; a payload that cannot be read becomes
\* a row of the failures, and the job is done.
PassOver(w) ==
  /\ work[w].pc = "open" /\ KindOf[Doing(w).event] \in {"unlisted", "malformed"}
  /\ Step(w, "written")
  /\ UNCHANGED <<queueVars, faults, scene, tableVars, subVars, producerVars, delivered>>

\* The feeds (each on conflict do nothing), and the commit.
Commit(w) ==
  LET e == Doing(w).event
  IN  /\ work[w].pc = "written"
      /\ external' = [i \in DOMAIN external \cup work[w].got |->
           IF i \in work[w].got THEN [event |-> e, feeds |-> FeedsOf(e)] ELSE external[i]]
      /\ failures' = IF KindOf[e] = "malformed" THEN failures \cup {e} ELSE failures
      /\ disorder' = disorder \cup
           {i \in work[w].got \ DOMAIN external : \E k \in DOMAIN external : k > i}
  /\ Step(w, "done")
  /\ UNCHANGED <<queueVars, faults, scene, drawn, subVars, producerVars, delivered>>

\* The transaction fails: the row is gone, the id is spent.
Abort(w) ==
  /\ work[w].pc \in {"open", "written"}
  /\ Fail /\ Step(w, "failed")
  /\ UNCHANGED <<queueVars, scene, tableVars, subVars, producerVars, delivered>>

-----------------------------------------------------------------------------
(* The producer of webhook deliveries.  Its lease is ShardProducer's: here *)
(* one process holds it.                                                   *)

Idle == [pc |-> "idle", todo |-> <<>>, items |-> <<>>, last |-> 0]

\* ListExternalEventsForWebhookQueueAfterSequenceID.
ListEvents ==
  LET rows == {i \in DOMAIN external : i > checkpoint}
      page == {i \in rows : Cardinality({k \in rows : k < i}) < BatchSize}
  IN  /\ round.pc = "idle" /\ page # {} /\ scene.producing
      /\ round' = [Idle EXCEPT !.pc = "match", !.todo = InOrder(page),
                               !.last = checkpoint]
  /\ UNCHANGED <<queueVars, work, faults, scene, tableVars, subVars, checkpoint, delivered>>

\* ListWebhookSubscriptionsForExternalEvent: a column of the event that is null
\* passes every subscription, one of the subscription that is null passes none.
Matches(s, e) ==
  /\ s \in enabled /\ <<s, e>> \in MayRead
  /\ \A f \in Field : ValueOf[e][f] = Null \/ Filter[s][f] = ValueOf[e][f]

MatchNext ==
  LET i == Head(round.todo)
      e == external[i].event
      items == round.items \o SetToSeq({Deliver(s, e) : s \in {t \in Sub : Matches(t, e)}})
  IN  /\ round.pc = "match"
      /\ round' = [pc |-> IF Len(round.todo) > 1 THEN "match"
                          ELSE IF items = <<>> THEN "save" ELSE "enqueue",
                   todo |-> Tail(round.todo), items |-> items, last |-> i]
  /\ UNCHANGED <<queueVars, work, faults, scene, tableVars, subVars, checkpoint, delivered>>

\* Mutant of EnqueueDeliveries: the checkpoint moves whether or not it fails.
EnqueueDeliveriesLate ==
  /\ round.pc = "enqueue"
  /\ \/ Enqueued(round.items, 0) /\ round' = Idle /\ UNCHANGED faults
     \/ Fail /\ round' = Idle /\ UNCHANGED queueVars
  /\ checkpoint' = round.last
  /\ UNCHANGED <<work, scene, tableVars, subVars, delivered>>

EnqueueDeliveries ==
  /\ round.pc = "enqueue"
  /\ \/ Enqueued(round.items, 0) /\ round' = [round EXCEPT !.pc = "save"] /\ UNCHANGED faults
     \/ Fail /\ round' = Idle /\ (Enqueued(round.items, 0) \/ UNCHANGED queueVars)
  /\ UNCHANGED <<work, scene, tableVars, subVars, checkpoint, delivered>>

\* UpdateCheckpoint; a crash before it repeats the round.
SaveCheckpoint ==
  /\ round.pc = "save" /\ round' = Idle
  /\ \/ checkpoint' = round.last /\ UNCHANGED faults
     \/ Fail /\ UNCHANGED checkpoint
  /\ UNCHANGED <<queueVars, work, scene, tableVars, subVars, delivered>>

\* PATCH /event-subscriptions/{id} with "enabled".
Switch(s) ==
  /\ switches < scene.switches /\ switches' = switches + 1
  /\ enabled' = IF s \in enabled THEN enabled \ {s} ELSE enabled \cup {s}
  /\ everOff' = everOff \cup {s}
  /\ UNCHANGED <<queueVars, work, faults, scene, tableVars, producerVars, delivered>>

-----------------------------------------------------------------------------
(* The worker that delivers.                                               *)

\* GetWebhookDeliverySource: no row for a subscription that is off.
AskSource(w) ==
  /\ work[w].pc = "ask"
  /\ Step(w, IF Doing(w).sub \in enabled THEN "post" ELSE "done")
  /\ UNCHANGED <<queueVars, faults, scene, tableVars, subVars, producerVars, delivered>>

\* The POST: answered below 300, or refused, or not answered in time, in which
\* case the endpoint may have it.
Post(w) ==
  /\ work[w].pc = "post"
  /\ \/ Step(w, "done") /\ delivered' = delivered \cup {Doing(w)} /\ UNCHANGED faults
     \/ Fail /\ Step(w, "failed") /\ delivered' \in {delivered, delivered \cup {Doing(w)}}
  /\ UNCHANGED <<queueVars, scene, tableVars, subVars, producerVars>>

-----------------------------------------------------------------------------
ClaimBatch(w) ==
  /\ Claim(w, Mine(w), scene.claim)
  /\ UNCHANGED <<scene, tableVars, subVars, producerVars, delivered>>
StartJob(w) ==
  /\ Start(w, IF scene.crew[w] = "projector" THEN "open" ELSE "ask")
  /\ UNCHANGED <<scene, tableVars, subVars, producerVars, delivered>>
HeartbeatJob(w) ==
  /\ Beat(w)
  /\ UNCHANGED <<scene, tableVars, subVars, producerVars, delivered>>

\* Mutant of EndJob: every job is acked.
EndJobOk(w) ==
  /\ work[w].pc \in {"done", "failed"} /\ Settle(w, TRUE)
  /\ UNCHANGED <<scene, tableVars, subVars, producerVars, delivered>>
EndJob(w) ==
  /\ work[w].pc \in {"done", "failed"} /\ Settle(w, work[w].pc = "done")
  /\ UNCHANGED <<scene, tableVars, subVars, producerVars, delivered>>
CrashWorker(w) ==
  /\ Crash(w)
  /\ UNCHANGED <<scene, tableVars, subVars, producerVars, delivered>>
TickAll ==
  /\ Tick
  /\ UNCHANGED <<scene, tableVars, subVars, producerVars, delivered>>

Init ==
  /\ scene \in Scenes /\ QueueInit(MaxFaults - scene.faults)
  /\ external = [i \in DOMAIN scene.events |->
       [event |-> scene.events[i], feeds |-> FeedsOf(scene.events[i])]]
  /\ drawn = Len(scene.events) /\ failures = {} /\ disorder = {}
  /\ enabled = Sub /\ switches = 0 /\ everOff = {}
  /\ checkpoint = 0 /\ round = Idle /\ delivered = {}

Working(w) == \/ ClaimBatch(w) \/ StartJob(w) \/ EndJob(w)
              \/ InsertExternalEvent(w) \/ PassOver(w) \/ Commit(w)
              \/ AskSource(w) \/ Post(w)
Producing  == ListEvents \/ MatchNext \/ EnqueueDeliveries \/ SaveCheckpoint

Next == \/ \E e \in Event : EnqueueProjection(e)
        \/ \E w \in Consumer : Working(w) \/ HeartbeatJob(w) \/ Abort(w) \/ CrashWorker(w)
        \/ Producing \/ TickAll
        \/ \E s \in Sub : Switch(s)

Spec == Init /\ [][Next]_vars

\* The loops of the processes go on for ever, and time passes.
Fairness == /\ \A w \in Consumer : WF_vars(Working(w)) /\ WF_vars(HeartbeatJob(w))
            /\ WF_vars(Producing) /\ WF_vars(TickAll)
FairSpec == Spec /\ Fairness

-----------------------------------------------------------------------------
TypeOK ==
  /\ \A j \in DOMAIN jobs :
       /\ j \in DOMAIN queued /\ jobs[j].item = queued[j]
       /\ jobs[j].lease \in 0 .. Lease /\ jobs[j].wait \in 0 .. RetryDelay
       /\ jobs[j].holder = NoConsumer => jobs[j].lease = 0
  /\ \A w \in Consumer : work[w].pc = "rest" <=> work[w].batch = <<>>
  /\ DOMAIN external \subseteq 1 .. drawn /\ checkpoint \in {0} \cup DOMAIN external
  /\ failures \subseteq Event /\ disorder \subseteq DOMAIN external

\* However often its job is delivered, and to however many workers at once, an
\* internal event becomes one external event (projector.go:266, dedupe_key).
ProjectedOnce == \A i, k \in DOMAIN external : external[i].event = external[k].event => i = k

\* Two workers are at one job at once only when a call or a process failed, or
\* when the lease of the job was running out when its turn in the batch came
\* (ConsumeOnce heartbeats the job in hand and not the jobs behind it).
SoleHandler ==
  \A u, w \in Consumer :
    (u # w /\ Handling(u) /\ Handling(w) /\ InHand(u) = InHand(w))
      => work[u].late \/ work[w].late \/ faults > MaxFaults - scene.faults

\* What an item asks for has been done, or need not be.
Done(x) ==
  /\ x.to = "projector" =>
       RowsOf(x.event) # {} \/ x.event \in failures \/ KindOf[x.event] = "unlisted"
  /\ x.to = "webhook" => x \in delivered \/ x.sub \in everOff

\* A job leaves the queue only when it is done: no crash, lapsed lease, aborted
\* transaction or refused POST loses it (api.go:124-138).
LeftIsDone == \A j \in left : Done(queued[j])

\* What the filter of a subscription stands for: a column left out is open.
Meant(s, e) ==
  /\ <<s, e>> \in MayRead
  /\ \A f \in Field : Filter[s][f] \in {Null, ValueOf[e][f]}

\* The producer is past row i, and owes s a delivery.
Owed(s, i) ==
  /\ i \in DOMAIN external /\ i <= checkpoint /\ i \notin disorder
  /\ s \notin everOff /\ Meant(s, external[i].event)

\* Each subscription that an external event is for has a job once the checkpoint
\* is past it (webhooks/jobs.go:45-109).
SubscribersTold ==
  \A s \in Sub : \A i \in DOMAIN external :
    Owed(s, i) => \E j \in DOMAIN queued : queued[j] = Deliver(s, external[i].event)

\* The same of the subscriptions that set every column, whatever fails between
\* the enqueue and the checkpoint; a row committed out of order may be skipped.
ExactSubscribersTold ==
  \A s \in {t \in Sub : \A f \in Field : Filter[t][f] # Null} : \A i \in DOMAIN external :
    Owed(s, i) => \E j \in DOMAIN queued : queued[j] = Deliver(s, external[i].event)

\* Whatever fails on the way, in the end each queued event is projected or
\* recorded as a failure, and each queued delivery reaches its endpoint unless
\* the subscription was switched off (both stay done, so this is of every job).
EveryJobDone ==
  []<>(\A j \in DOMAIN queued :
         (\E w \in Consumer : scene.crew[w] = queued[j].to) => Done(queued[j]))

=============================================================================
