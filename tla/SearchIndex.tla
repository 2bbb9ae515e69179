---------------------------- MODULE SearchIndex ----------------------------
(***************************************************************************)
(* The indexer's workers beside the rest of the Pipeline: a resource or an *)
(* external event changes in the database, a job names it (the shard       *)
(* producer of the indexer, searchJobsForInternalEvent), and               *)
(* processSyncJobsOnce brings its documents in the search index up to      *)
(* date: claim, load what the database has, delete and rewrite the         *)
(* documents one namespace at a time, ack or retry.                        *)
(*                                                                         *)
(* The content of a resource is a version.  The documents of a target show *)
(* its row and rows that they quote: a message's the title and the archive *)
(* mark of its conversation, the names of its workspace and its author; a  *)
(* conversation's its participants' names.  The documents of a target are  *)
(* all in one namespace; the index is a function from targets to what      *)
(* their documents show, a version of each row, Absent if there are none.  *)
(***************************************************************************)
EXTENDS Pipeline

CONSTANTS
  Resource,     \* the targets that are rows; the others are events
  NamespaceOf,  \* per target
  Quotes,       \* per target, the rows that its documents show beside its own
  Spared,       \* those of them that are left out if they cannot be read
  Absent        \* no documents

ASSUME IndexAssumption == Resource \cap Event = {}
ASSUME QuotesAssumption ==
  /\ Quotes \in [Resource \cup Event -> SUBSET Resource] /\ \A t \in Resource : t \notin Quotes[t]
  /\ Spared \in [Resource \cup Event -> SUBSET Resource]
  /\ \A t \in Resource \cup Event : Spared[t] \subseteq Quotes[t]
ASSUME AbsentAssumption == \A S \in SUBSET Resource : Absent \notin [S -> Nat]

Target  == Resource \cup Event
Sync(t) == [to |-> "indexer", target |-> t]

VARIABLES
  version,      \* of each resource, in the database
  changed,      \* the targets with a committed event that has no job yet
  index,        \* external: the search index
  since,        \* history: per resource, the versions of all as it last changed
  raced         \* history: targets that a worker loaded while another had them
                \* in hand too, or when its claim was gone

indexVars == <<version, changed, index, since, raced>>
allVars   == <<vars, indexVars>>
otherVars == <<scene, tableVars, subVars, producerVars, delivered>>

Parts(t) == ({t} \cup Quotes[t]) \cap Resource

\* buildDocumentsForResource, without the quoted rows in missed; an event that is
\* not projected has none.
Docs(t, missed) == IF t \in Event /\ RowsOf(t) = {} THEN Absent
                   ELSE [q \in Parts(t) \ missed |-> version[q]]

\* The documents v show the row of t as it is, and no quoted row as it was before
\* that row last changed.
Current(t, v) ==
  IF t \in Event THEN v = Absent <=> RowsOf(t) = {}
  ELSE /\ v # Absent /\ t \in DOMAIN v /\ v[t] = version[t]
       /\ \A q \in Quotes[t] \cap DOMAIN v : v[q] >= since[t][q]

IsIndexer(w) == scene.crew[w] = "indexer"
InBatch(w)   == Range(work[w].batch)
TargetsOf(w) == {queued[j].target : j \in InBatch(w)}
At(w, t)     == {p.at : p \in {q \in work[w].got : q.target = t}}
JobsAt(w, S) == {j \in InBatch(w) : \E p \in work[w].got : p.target = queued[j].target /\ p.at \in S}
Has(w, t)    == At(w, t) \cap {"loaded", "deleted"} # {}

-----------------------------------------------------------------------------
\* A handler changes a row and appends its event in one transaction.  The documents
\* that quote the row change too, and no event is of them: searchJobsForInternalEvent
\* has a conversation.updated sync the conversation alone, not its messages.
ChangeResource(t) ==
  /\ SumFunction(version) < scene.versions
  /\ version' = [version EXCEPT ![t] = @ + 1] /\ changed' = changed \cup {t}
  /\ since' = [since EXCEPT ![t] = version']
  /\ UNCHANGED <<vars, index, raced>>

\* The indexer's shard producer; for a resource the job of its event too, which
\* is a target of its own.
EnqueueSync(t) ==
  /\ t \in changed /\ changed' = changed \ {t}
  /\ Enqueued(<<Sync(t)>>, 0)
  /\ UNCHANGED <<work, faults, otherVars, version, index, since, raced>>

\* The heartbeats of all the jobs of the batch.
HeartbeatBatch(w) ==
  /\ IsIndexer(w) /\ Handling(w) /\ work[w].beat = Interval
  /\ work' = [work EXCEPT ![w].beat = 0]
  /\ \/ /\ jobs' = [j \in DOMAIN jobs |-> IF j \in InBatch(w) /\ jobs[j].holder = w
                                          THEN Renewed(jobs[j]) ELSE jobs[j]]
        /\ UNCHANGED faults
     \/ Fail /\ UNCHANGED jobs
  /\ UNCHANGED <<queued, left, otherVars, indexVars>>

StartBatch(w) == IsIndexer(w) /\ Start(w, "load") /\ UNCHANGED <<otherVars, indexVars>>

Mark(w, t, v, at) ==
  work' = [work EXCEPT ![w].got = {p \in @ : p.target # t} \cup
                                  {[target |-> t, docs |-> v, at |-> at]}]

\* w has t to itself, and holds a job for it.
Alone(w, t) ==
  /\ \A u \in Consumer \ {w} : IsIndexer(u) => t \notin TargetsOf(u)
  /\ \E j \in InBatch(w) \cap DOMAIN jobs : jobs[j].item = Sync(t) /\ jobs[j].holder = w

\* Mutant of Load: an event that is not projected has no documents.
LoadUnprojected(w) ==
  /\ IsIndexer(w) /\ work[w].pc = "load"
  /\ \E t \in TargetsOf(w) : At(w, t) = {} /\ Mark(w, t, Docs(t, {}), "loaded")
  /\ UNCHANGED <<queueVars, faults, otherVars, indexVars>>

\* prepareSyncMutation, once for each target of the batch: an event that is not
\* projected yet is an error.  The row is read first, a quoted row after it; an
\* error of reading a workspace, an author, the names for a title is ignored.
Load(w) ==
  /\ IsIndexer(w) /\ work[w].pc = "load"
  /\ \E t \in TargetsOf(w) :
    /\ At(w, t) = {}
    /\ \/ \E missed \in SUBSET Spared[t] :
            /\ Mark(w, t, Docs(t, missed),
                    IF t \in Event /\ RowsOf(t) = {} THEN "error" ELSE "loaded")
            /\ IF missed = {} THEN UNCHANGED faults ELSE Fail
       \/ Fail /\ Mark(w, t, Absent, "error")
    /\ raced' = IF Alone(w, t) THEN raced ELSE raced \cup {t}
  /\ UNCHANGED <<queueVars, otherVars, version, changed, index, since>>

Loaded(w) == \A t \in TargetsOf(w) : At(w, t) # {}

\* The targets of one namespace that are loaded; embedPreparedMutations has
\* been tried, and documents without a vector are written as they are.
InNamespace(w, n) == {p \in work[w].got : p.at = "loaded" /\ NamespaceOf[p.target] = n}

\* Move the targets S of w on, or give up on them.
Moved(w, S, at) ==
  work' = [work EXCEPT ![w].got = (@ \ S) \cup {[p EXCEPT !.at = at] : p \in S}]

\* deleteNamespaceResultKeys.
DeleteKeys(w) ==
  \E n \in Range(NamespaceOf) :
    LET S == InNamespace(w, n)
    IN  /\ IsIndexer(w) /\ work[w].pc = "load" /\ Loaded(w) /\ S # {}
        /\ \A p \in work[w].got : p.at # "deleted"
        /\ \/ /\ index' = [t \in Target |-> IF \E p \in S : p.target = t THEN Absent ELSE index[t]]
              /\ Moved(w, S, "deleted") /\ UNCHANGED faults
           \/ Fail /\ Moved(w, S, "error") /\ UNCHANGED index
  /\ UNCHANGED <<queueVars, otherVars, version, changed, since, raced>>

\* The upserts of applyNamespaceBatch; they may fail after the delete.
UpsertRows(w) ==
  LET S == {p \in work[w].got : p.at = "deleted"}
      Written == [t \in Target |-> IF \E p \in S : p.target = t
                                   THEN (CHOOSE p \in S : p.target = t).docs ELSE index[t]]
  IN  /\ IsIndexer(w) /\ work[w].pc = "load" /\ S # {}
      /\ \/ index' = Written /\ Moved(w, S, "written") /\ UNCHANGED faults
         \/ Fail /\ Moved(w, S, "error") /\ index' \in {index, Written}
  /\ UNCHANGED <<queueVars, otherVars, version, changed, since, raced>>

\* Mutant of AckWritten: what was loaded is acked whatever the writes did.
AckWrittenBlindly(w) ==
  /\ IsIndexer(w) /\ work[w].pc = "load" /\ Loaded(w)
  /\ \A t \in TargetsOf(w) : ~Has(w, t)
  /\ AckJobs(w, JobsAt(w, {"written", "error"}))
  /\ work' = [work EXCEPT ![w].pc = "retry"]
  /\ UNCHANGED <<queued, faults, otherVars, indexVars>>

\* Ack the jobs whose targets are written; if that fails the batch is dropped.
AckWritten(w) ==
  /\ IsIndexer(w) /\ work[w].pc = "load" /\ Loaded(w)
  /\ \A t \in TargetsOf(w) : ~Has(w, t)
  /\ \/ /\ AckJobs(w, JobsAt(w, {"written"}))
        /\ \/ work' = [work EXCEPT ![w].pc = "retry"] /\ UNCHANGED faults
           \/ Fail /\ work' = [work EXCEPT ![w] = Resting]
     \/ Fail /\ work' = [work EXCEPT ![w] = Resting] /\ UNCHANGED <<jobs, left>>
  /\ UNCHANGED <<queued, otherVars, indexVars>>

RetryFailed(w) ==
  /\ IsIndexer(w) /\ work[w].pc = "retry"
  /\ \/ RetryJobs(w, JobsAt(w, {"error"})) /\ UNCHANGED faults
     \/ Fail /\ UNCHANGED <<jobs, left>>
  /\ work' = [work EXCEPT ![w] = Resting]
  /\ UNCHANGED <<queued, otherVars, indexVars>>

-----------------------------------------------------------------------------
\* The event targets start changed in the scenes that index them.
IndexInit ==
  /\ Init
  /\ version = [t \in Resource |-> 0] /\ raced = {}
  /\ changed = scene.synced
  /\ since = [t \in Resource |-> version]
  /\ index = [t \in Target |-> IF t \in Resource THEN [q \in Parts(t) |-> 0] ELSE Absent]

Indexing(w) == \/ StartBatch(w) \/ Load(w) \/ DeleteKeys(w) \/ UpsertRows(w)
               \/ AckWritten(w) \/ RetryFailed(w)
Producers   == \E t \in Target : EnqueueSync(t)

IndexNext ==
  \/ \E t \in Resource : ChangeResource(t)
  \/ Producers
  \/ \E w \in Consumer : HeartbeatBatch(w) \/ Indexing(w)
  \/ /\ UNCHANGED indexVars
     /\ \/ \E e \in Event : EnqueueProjection(e)
        \/ \E w \in Consumer : \/ ClaimBatch(w) \/ Abort(w) \/ CrashWorker(w)
                               \/ ~IsIndexer(w) /\ (Working(w) \/ HeartbeatJob(w))
        \/ Producing \/ TickAll
        \/ \E s \in Sub : Switch(s)

IndexSpec == IndexInit /\ [][IndexNext]_allVars

IndexFairness ==
  /\ \A w \in Consumer :
       /\ WF_allVars(Indexing(w) \/ (UNCHANGED indexVars /\ (Working(w) \/ ClaimBatch(w))))
       /\ WF_allVars(HeartbeatBatch(w) \/ (UNCHANGED indexVars /\ HeartbeatJob(w)))
  /\ WF_allVars(Producers) /\ WF_allVars(UNCHANGED indexVars /\ Producing)
  /\ WF_allVars(UNCHANGED indexVars /\ TickAll)
IndexFairSpec == IndexSpec /\ IndexFairness

-----------------------------------------------------------------------------
\* The documents of a target show its row as it is, and the rows they quote no older
\* than at its last change, or a job for it is on the way, unless two workers were
\* at it at once: the one that writes last may have read first, or may stop between
\* the delete and the upsert when the other has acked (search/runtime.go:709).
\* What a quoted row becomes later they do not show: it queues no job for them.
StaleOnlyWhileQueued ==
  \A t \in Target :
    \/ Current(t, index[t]) \/ t \in raced
    \/ t \in changed \/ \E j \in DOMAIN jobs : jobs[j].item = Sync(t)
    \/ t \in Event \ scene.synced

\* Whatever fails on the way, the documents of a target show its own last change
\* once changes stop, and the events that are indexed are found once they are
\* projected.
IndexCatchesUp ==
  []<>(\A t \in Resource \cup scene.synced : Current(t, index[t]) \/ t \in raced)

=============================================================================
