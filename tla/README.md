# Teraslack: specifications, model checking and proofs

TLA+ modules for the server of this repository (`src/server`), the TLC
configurations that check them on small instances, and TLAPS proofs of their
main results. `PROJECT.json` links every definition to the lines it models,
every run to its properties, and every property to a bug it would find.

    tlc -workers 2 -config QueueTwo.cfg MCQueueManager.tla
    tlapm PipelineProofs.tla        # any module that ends in Proofs

## The system

Teraslack is a messaging service for people and agents. The API server writes
its state and one *internal event* per mutation to PostgreSQL in one
transaction. Background processes derive everything else from the internal
events: external events, a search index, webhook deliveries. Between those
processes lies a job queue kept in one JSON object per queue in S3, written by
conditional PUTs only.

    handlers --tx--> internal_events --(producers: lease + checkpoint)--> queue
    queue --> projector worker --> external_events --> webhook producer --> queue
    queue --> webhook worker --> HTTP endpoint
    queue --> index worker   --> vector index
    GET /events <-- external event feeds

| component | state | operations | what makes it correct | modules |
|---|---|---|---|---|
| Queue manager (`queue/manager.go`, `types.go`) | the stored job table, a cached copy and its ETag, a batch of calls | Enqueue, Claim, Heartbeat, Ack, Retry; load, apply, save, try again | nothing confirmed is lost, nothing acked returns, one consumer per delivery, every call returns | QueueManager, JobTable, JobPromise, QueuePromise |
| Object store adapter (`s3/store.go`) | the object and its ETag | Read, WriteCAS | a conditional PUT overwrites only what its writer has read | QueueManager |
| Queue broker (`queue/server.go`, `client.go`) | a Manager per key | one HTTP route per call | a call is applied by the Manager of its key; a lost answer looks like a failed call | QueueManager, Workers |
| Queue workers (`queue/api.go`, `heartbeat.go`) | the claimed jobs of one round | ConsumeOnce, heartbeats | a job leaves the queue when it is done; two workers are at one job only when something failed | Workers |
| Projector, webhook producer, index producer | shard leases and shard checkpoints in PostgreSQL | one round: claim a shard, read after its checkpoint, enqueue, advance | every committed event becomes a job; the checkpoint never passes an event that did not | ShardProducer |
| Projector worker (`eventsourcing/projector.go`) | external events with a dedupe key, feeds, failures | project an internal event | an event is projected once however often its job is delivered | Pipeline |
| Webhook producer and worker (`webhooks/jobs.go`) | one checkpoint | match subscriptions, enqueue; deliver, retry | at least one delivery to each matching subscription | Pipeline |
| Search indexer (`search/indexer.go`, `runtime.go`) | the vector index | load, delete and upsert a batch of resources | the documents of a row that changed follow it | SearchIndex |
| Search (`search/runtime.go`) | the client's cursor | POST /search | all that is visible is found, and nothing else is shown | Search, Service |
| Event feed, subscriptions (`handler/routes_messaging.go`, `repository/visibilitysql.go`) | feeds, cursor of the reader, subscriptions | GET /events, /event-subscriptions | a reader that follows the cursor sees every visible event | Messaging, Service |
| Conversations and messages (`handler/routes_messaging.go`) | conversations, participants, share links, messages, read state | create, add, remove, join, change, post, list | membership rules under concurrent requests; pages miss nothing | Conversations, Messaging |
| Workspaces, members, invites (`handler/routes_core.go`) | workspaces, roles, invites | create, invite, accept, patch | a workspace keeps an owner; a removed member loses its conversations | Memberships, Messaging |
| Sign-in, sessions, API keys (`routes_core.go`, `oauth.go`, `server.go`) | challenges, OAuth states and accounts, sessions, keys | start, verify, callback, revoke | a code is used once; one user per address; a revoked credential is refused | Requests, Access |
| Agents (`routes_agents.go`) | agents, their keys | create, patch, read or rotate the key | an agent has exactly one live key | Access |
| Rate limiter (`ratelimit.go`) | times of admitted calls per key | allow | at most N calls in each window | RateLimiter |
| Database schema, triggers, generated queries | the tables | queries, deferred checks | the constraints hold at each commit | Database, Tables |
| HTTP routing, configuration | - | - | which routes want a credential | Requests |
| CLI, MCP server, frontend, embedding and crypto clients, scripts | client side | - | not modelled (see the end) | - |

What is hard here: two processes writing one object or one shard; answers lost
after the write happened; leases that expire under a live worker; sequence
numbers that are issued in one order and committed in another; handlers that
check and write under READ COMMITTED without locks. `PROJECT.json` lists each
of these hazards at its line, with the properties that cover it.

## Modules

### QueueManager

One Manager is one goroutine (`run`). Its locals are functions of the Manager:
`ops` is the channel, `pending` the batch, `loaded/state/etag` the cache,
`working/mutated/batchNow/applied` the batch in progress, and `phase` the place
in the loop:

| phase | place in `run` | actions from there |
|---|---|---|
| idle | waiting on the channel | Collect (`collectPending`) |
| start | top of the inner loop | Load, LoadFails, Begin (clone, `time.Now`) |
| apply | the loop over `pending`, then the save | Apply (Enqueue, Claim, Settle), ReplyUnchanged, SaveLands, SaveRefused, SaveFails |
| landed | the PUT is stored, its answer is not here yet | SaveConfirmed, SaveRepeated, SaveFails |

The save is two steps, since other Managers, a crash and a lost answer come in
between. `SaveFails` covers an error before and after the PUT was stored, and a
PUT that arrives only later (`stray`, `StrayArrives`). `SaveRepeated` is the
SDK's own retry of a PUT whose answer was lost: the second attempt meets the
ETag of the first and `WriteCAS` reports a mismatch. `Crash` drops everything
but the object and fails the open calls. The store is the table and a counter
for its ETag.

A job id is the number of its `uuid.NewString` call. A payload is the pair of
the enqueue call and the index of the item. `acked` and `acking` are history:
the jobs whose ack was stored, and those that the batch at hand removes. A
caller may name in a heartbeat, ack or retry any job that a claim has given to
its consumer id, at any later time: late calls and duplicated ones included.

Left out: identifiers that are rejected before `submit` (argument checks), the
capacity of the channel (a full one only delays `Submit`), and the JSON.
Assumed: **each PUT makes a new ETag**. S3 derives it from the content, so a
table that returns to an earlier content (the empty queue) returns to its ETag;
the ids and times in a table with jobs make that a matter of empty tables, and
a PUT computed from one empty table is as good for another.

Properties (each stated with its comment in the module): `CacheCoherent`,
`ConfirmedKept`, `AckedStaysGone`, `AttemptFences`, `LeaseExclusive`,
`AckTakesEffect`, `EveryCallAnswered`.

`AckTakesEffect` is checked with one Manager per object. With two it fails, and
for a reason worth knowing in a rolling deployment: a batch that changes
nothing is answered from the cache without a PUT (`!mutated`), so a Manager
with an old cache answers an ack of a job that the other Manager has handed out
with success and without effect; the job is delivered again after its lease.
The deployment guide asks for a single broker.

### JobTable, JobPromise and QueuePromise

`JobTable` is a table of jobs as its consumers see it, with what is left of each
delay (`wait`) and lease (`lease`) in place of times. `JobPromise` is the abstract
queue: how such a table may move, in one step per stored batch, and at whose
request. `asked` is the set of calls made so far, by kind, consumer and job.
`MayBecome` says what a batch may make of a job: keep it; renew it where its
holder has sent a heartbeat for it (never shortening the lease); return it where
its holder has asked for a retry; and what it likes of one that may be taken: a
free one, or one that its holder returns with a delay of 0, which the same batch
can hand out again. A job leaves the table by its holder's ack, or when it may be
taken. So an ack, a retry or a heartbeat of another consumer never touches a job
under a lease, and a delayed job waits.

`asked` never forgets: a call that a consumer made for a job it held earlier
counts when it holds the job again. So it is in the code, which compares consumer
ids and neither attempts nor leases (`manager.go:150`, `173`, `201`).

`QueuePromise` maps the stored object of `QueueManager` to such a table
(`Promised`, which subtracts the clock; `Asked`, the calls by their consumers) and
states `KeepsPromises`: the Managers implement `JobPromise`, whatever their
caches, refused saves, late PUTs and crashes do. The modules below use `JobTable`
and not `QueueManager`; the refinement, proved in `QueuePromiseProofs`, is what
justifies that.

### ShardProducer

The three producers (projector, search indexer, webhook producer) run the same
protocol with their own lease and checkpoint names, batch sizes and row-to-job
functions; one module models it. `Kinds` says what rows may turn into:
`{"jobs"}` for the projector, `{"jobs","none"}` for the webhook producer (an
event without a matching subscription), all three for the indexer. The webhook
producer is the instance with `ShardCount = 1`.

A worker's round is `pc`: claim, load, read, enqueue, advance, then the next
shard. Each is its own statement or call in the code: no transaction spans two
of them, so `for update` in the load locks nothing that matters (the row that
is missing and inserted as 0 is the same as a row that holds 0). `Fails` ends a
round at any place, the write of that place done or not; `Replaced` is a process
that comes back with another worker id (the default id holds the pid), and its
old leases are then nobody's until they lapse. Both together are a crash.

Abstracted: time. `Expire` may happen at any moment, which allows everything
the 15 seconds allow and more. A transaction that appends several events is
that many `Insert`s and `Commit`s. The worker ids are distinct (`WORKER_ID` can
be set to the same value twice; two workers then hold a shard together, which
`Expire` already allows). A checkpoint write whose answer is lost has happened
or not; it does not arrive later.

Properties: `CheckpointCovered` (no event committed in time is passed without
its jobs), `OnceUnlessDisturbed`, `MonotoneUnlessOvertaken` (what the lease is
good for), `EveryEventQueued`. `NothingSkipped` is a statement of the
documentation that does not hold (see the findings). Two more do not hold and
have no run: that checkpoints advance monotonically (database invariant 12 of
`docs/SPEC.md`) is `MonotoneUnlessOvertaken` without its condition, and fails
when a worker outlives its lease, at the cost of events enqueued again; and
`EveryEventQueued` with `"malformed"` in `Kinds`, since the indexer returns the
error of an event it cannot turn into jobs before it advances the checkpoint
(`indexer.go:100-102`): the shard never gets past it, where `docs/SPEC.md:375`
has malformed events "recorded as projection failures and skipped so later
events in the shard can continue".

### Database, Conversations, Memberships, Workspace

Four layers over the same variables. `Database` has the tables, the
transactions and the constraint triggers; `Conversations` and `Memberships` have
the handlers, one action per statement or query; `Workspace` puts them together
and states the properties.

`db` maps each row, named by its table and key, to its value: `Member(u)` role
and status, `Conv(c)` scope and creator, `Seat(c, u)` whether the participant
row exists, `Pair(p)` the direct conversation of two users, `Share(l)` a share
link, `Asked(i)` a workspace invite. The scopes stand for the three kinds of
conversations the handlers create: `global` (no workspace, members), `private`
(workspace, members), `wide` (workspace, everyone in it).

`tx[t]` is the transaction of a request in progress (`withTransaction`): the
next statement (`pc`), the request (`do`), what it has read and keeps (`seen`,
`todo`), the rows it has written and holds locked, the deferred checks its
writes have queued (`due`), and the rows whose change it has written an internal
event for (`told`). `View(t)` is what a statement of `t` sees. What the handler
reads before the transaction is read in the action that begins it.

| handler | actions |
|---|---|
| handleCreateConversation | CreateConversation, LookUp, InsertConversation |
| handleAddConversationParticipants | AddParticipants, CheckMembers, AddOne |
| handleDeleteConversationParticipant | DeleteParticipant, CountPeople, Delete |
| handleGet/RotateConversationShareLink | ShareLink, FindLink, LockLink, NewLink |
| handleJoinConversation | JoinConversation, ReadLink, CheckEntitled, Sit |
| handleCreateWorkspaceInvite | CreateInvite, InsertInvite |
| handleAcceptWorkspaceInvite | AcceptInvite, ReadInvite, ReadMembership, CreateMembership, MarkAccepted |
| handlePatchWorkspaceMember | PatchMember, LockMember, UpdateMember, ListRooms, LeaveRoom |
| every one | RunCheck (a deferred trigger), Commit, Abort |

PostgreSQL is external, and modelled from how the code relies on it: READ
COMMITTED is the default of `BeginTx`, unique keys make the second insert wait
for the first, `for update` and writes wait for row locks and then look at the
row again, deferred triggers run at the commit as queries of their own. `Abort`
may end a transaction at any moment, deadlock victims among them.

Left out here: messages, read state, titles and archiving, which leave the
rows above alone (they are in `Messaging`); agents; accounts that are not
active; restricted links (no handler creates one); expiry (a late request is one
that is not made). Requests that a handler refuses before its transaction are
not begun.

Properties: `ConstraintsUnlessRaced` is what the triggers achieve: `raced`
becomes true when a commit falls between another transaction's first check and
its own commit, and until then the constraints hold, whatever the handlers
miss. `NoCheckFails` is the converse for requests one at a time: the handlers'
checks leave nothing for the triggers to refuse. `OneActiveLink`,
`OneDirectEach`, `JoinsUseLiveLinks`, `PatchKeepsTheRest` and `ChangesTold` are
each about two requests on the same rows, or about a row and its event.
`AlwaysAnOwner` is a statement of `docs/SPEC.md` that does not hold (see the
findings). It stands for all the constraints of the triggers: two commits that
race can also empty a members-only conversation (two removals) or leave a
suspended member in a private one (a suspension and an addition). `ChangesTold`
leaves out invites: one that an active member uses up is marked without an
internal event. A disagreement without a run: an invite that was accepted can
be accepted again and activates whatever membership its user has, one that was
suspended or removed since included (`routes_core.go:884`), where
`docs/SPEC.md:1471` has the server activate "an existing invited membership or
... a new active membership".

### Workers, Pipeline, SearchIndex

The processes behind the queues, over `JobTable`.

`Workers` is ConsumeOnce with its heartbeats. `work[w]` is where worker `w` is:
resting, at the turn of the next job of its batch, or at a step of a handler
(`pc`), with the batch, the ticks since the last heartbeat and what the handler
holds (`got`). A call to the broker fails in two ways, before or after it was
done. A lapsed lease frees a job under its worker: `Tick` ages the table and
waits only for heartbeats that are due. `late` is history: the lease was near
its end when the turn of the job came, because ConsumeOnce heartbeats the job it
handles and not those behind it.

| code | actions |
|---|---|
| `ConsumeOnce`: claim, turn, ack or retry | ClaimBatch, StartJob, EndJob |
| `StartHeartbeat` | HeartbeatJob, HeartbeatBatch |
| `processProjectionJob`, `projectEvent` | InsertExternalEvent, PassOver, Commit, Abort |
| `EnqueueDeliveriesOnce` | ListEvents, MatchNext, EnqueueDeliveries, SaveCheckpoint |
| `processDelivery` | AskSource, Post |
| `processSyncJobsOnce`, `ApplySyncJobs` | StartBatch, Load, DeleteKeys, UpsertRows, AckWritten, RetryFailed |
| the shard producers (their promise only) | EnqueueProjection, EnqueueSync |
| process, clock, API | CrashWorker, TickAll, Switch, ChangeResource |

`Pipeline` follows an internal event to the endpoint of a subscriber. An insert
draws a sequence id at once and shows its row at the commit; the dedupe key
makes a second transaction wait for the first and reuse its row. The queues of
one instance are one table, an item says whose it is.

`SearchIndex` adds the indexer. The content of a row is a version. The documents
of a target show its own row and rows that they quote (`Quotes`): those of a
message the title and the archive mark of its conversation, the names of its
workspace and its author (`documents.go:70-106`), those of a conversation the
names of its participants and of its workspace (`111-167`). The index holds per
target the versions its documents show. Some of the quoted rows are left out of the
documents where reading them fails (`Spared`); failing to read another is an error
of the load. Delete and upsert are two calls per namespace, and between them there
is nothing.

A change queues a job for the row that changed and for no row that quotes it
(`searchJobsForInternalEvent`, `indexer.go:175-223`): after a rename or an
archiving **the documents that quote the old title, mark or name stay as they are**,
with no job on the way, until their own row changes. Nothing repairs them, and the
documents of the repository promise nothing else. `ChangeResource` models it, and
the two properties of the index ask no more than the code gives: `Current` compares
a target's own row with the database, and the rows it quotes with what they were
when its own row last changed (`since`).

Properties: `ProjectedOnce`; `SoleHandler` (two workers at one job: something
failed, or the job was late); `LeftIsDone` (a job leaves only when done);
`ExactSubscribersTold` (no delivery is lost between the enqueue and the
checkpoint; it excepts rows committed out of sequence, see `disorder`, which is
the flaw `NothingSkipped` shows upstream); `StaleOnlyWhileQueued` (the
documents of a target are `Current` or a job is on the way; it excepts targets
that two workers loaded at once, see `raced`: the last writer may have read
first, and nothing in `runtime.go` prevents it); `EveryJobDone`;
`IndexCatchesUp` (in the end they are `Current`) with the same exception. `SubscribersTold`, for subscriptions
that leave a filter open, does not hold (see the findings).

Abstracted: payloads, signatures and HTTP details of a delivery; embedding (a
document without a vector is written as it is); the filters of subscriptions
are two columns instead of four.

### Tables, Requests, Access, Messaging, Search, RateLimiter, Service

The API: requests of every kind in progress together.

- `Tables`: the tables and the queries of `internal/dbsqlc` the handlers use,
  under their names; the SQL predicates of visibility.
- `Requests`: a request (`req[r]`: its command, step, caller, locals, locks),
  authentication, the access checks (`Ensure...`), transactions, row locks, the
  connection pool.
- `Access`: sign-in by code and by OAuth, sessions, profile, API keys, agents.
- `Messaging`: conversations, messages, read marks, workspaces, the plain reads,
  the lists with their pages, the event feed, subscriptions.
- `Search`: the documents of each kind of resource, who may find them, and the
  pages of a search.
- `RateLimiter`: one key of the limiter, with the clock read before the lock.
- `Service`: all of it, with what changes the tables meanwhile (a code expires,
  a session ends, a member is suspended, a participant leaves, the projector and
  the indexer catch up, a request dies), and the properties.

A request goes `new`, `authenticate`, then the step named after its command. A
list or a search is one `req` for all its pages: each page is a request of the
API of its own and is authenticated again. Statements that read for update lock
at that step; the other writes of a transaction take effect at its commit, in
one step, which READ COMMITTED cannot tell apart from statements whose rows no
one else may see. Reads that one check makes on the pool one right after the
other are taken at one moment.

Properties: `CodeUsedOnce`, `OneUserPerPerson`, `AgentKeepsKey` (two requests on
one row, one of which may die); `PatchUndoesOnlyOverlapping` (values read
before a transaction and written back); `PagesMissNothing`, `SearchComplete`
(cursors against what there is); `ShownIsVisible` (what is shown against the
rules of conversations, workspaces and feeds, said once in `MaySee`);
`RateBound`; `EveryRequestAnswered`. `FeedSkipsNothing` does not hold (see the
findings).

Their exceptions are behaviour of the code:
- `OneUserPerPerson`: an OAuth identity without a verified address is always a
  user of its own. A provider is taken to report the same address of an identity
  for good (`EmailOf` is a constant, and `UniqueRows` says it of the accounts a
  scene starts with): after a change of it at the provider the account stays with
  the first user, and a code to the new address makes another.
- `ShownIsVisible`: lists whose access is checked a statement earlier (members,
  participants, messages) can show what was visible at the check.
- `SearchComplete`: the cursor of a search names the workspace that a workspace
  key stands for, and is compared with the one the request names
  (`runtime.go:91`, `195-205`): a caller with such a key that names none gets a
  first page and an error for the second. A search limited to a conversation
  finds events only of conversations with members, as the documents of the
  others name no conversation. It is about states with an index that is up to date
  and searches alone (`OnlySearches`): a search looks at 4 x limit candidates, and
  stale ones can use them up. So can candidates that are found and may not be
  seen: a private conversation is found by its participants, and seen by those
  who are active members of its workspace. `OnlySearches` therefore asks that its
  participants are (`SeatsAreMembers`). A trigger of the database checks that, and
  `Workspace` shows what it is worth: it holds unless two transactions overlap.
  Nor are all candidates found where a namespace is crowded. A query of a namespace
  answers with `targetLimit` documents (`runtime.go:210-217`, `296`, `324`), and
  documents are not resources: a user has one for each workspace and each
  conversation with members it is in. A user who shares more of them with the caller
  than the limit fills the answer alone; the candidates are then fewer than a page,
  the search ends without a cursor, and other users in that namespace are never
  shown. `SearchComplete` presupposes that `targetLimit` documents of a namespace are
  always of more resources than a page holds (`Uncrowded`): then what an answer leaves
  out is found on a later page. A namespace
  that answers 202 or 404 is taken for an index that is not up to date.
- `PagesMissNothing` is about messages. Conversations are listed by their last
  message, which changes: a page can miss one that moved to the front.

What scenes may start from is stated in `ScenesAssumption`: the columns of the
tables, the foreign keys (`References`), the unique indexes on addresses and on
the live key of an agent (`UniqueRows`), that nothing is named after a request
that has not been sent (`BeforeRequests`), that an event is in the feeds of the
workspace it names (`EventsFit`, what the projector makes), and that messages are
finitely many, at times of their own (`TimesApart`). `Coherent` adds that ids and
credentials are told apart, that a conversation is for its members or for its
workspace, and that tables are finite.

Left out: `last_seen` times; internal events that are not projected (sign-in,
keys, subscriptions, read marks), and several events of one request about one
thing are one; the filter `access_policy`, `before_message_id` and the type and
resource filters of the feed, which only narrow a list. `insertUserWithProfile` tries other
handles after a unique violation, in a transaction that PostgreSQL has aborted
by then: a handle that is taken fails the request, and so it does here.

## Runs

| run | instance | shows |
|---|---|---|
| queue_two | 2 Managers, 3 calls, 2 consumers, clock to 2, lease 1, delay 1, 1 fault, 1 late PUT | the safety properties when Managers race on the object, and the refinement of `JobPromise` |
| queue_one | 1 Manager, 4 calls, clock to 2, lease 1, 2 faults, 1 late PUT | an ack that is answered has taken effect; acked jobs do not return; what a consumer holds changes only where it has called for it |
| queue_answers | 2 Managers, 3 calls, 1 fault, fair | every call returns |
| shard_safe | 2 workers, 1 shard, 3 events of all kinds, batches of 2, 1 fault | coverage, order and duplication of events whatever the workers do to each other |
| shard_rounds | 2 workers, 2 shards, 2 events, batches of 1, fair | no shard or event is starved by leases or by checkpoints put back |
| shard_skip | 1 shard, 2 events, no faults | counterexample: an event committed late is skipped |
| workspace | 3 scenes: all requests one at a time from a workspace with a settled conversation; two at a time on members and seats; two at a time on conversations and links of a new workspace | the constraints of the triggers, links, pairs, patches and events under concurrency |
| ws_owner | the scene of members | counterexample: a workspace without an owner |
| pipeline | 7 scenes of 2 workers: two projectors at one event and at two, projector with webhook worker, two webhook workers, odd events, two indexers, projector with indexer; fair | what leaves a queue is done, once where once is promised, and in the end |
| open_filters | projector and webhook worker, a subscription with an open filter | counterexample: it is told of nothing |
| requests | 14 scenes of up to 3 requests; fair | the properties of `Service` |
| event_feed | the feed, 3 visible events, pages of 2 | counterexample: the third is shown on no page |

Scenes are starting tables with the requests, workers or changes of one
question. A run takes all of its scenes at once (`scene \in DOMAIN Scenes`):
one property often depends on several of them, and each behaviour stays small.

Bounds of the queue. `Call` bounds the number of API calls, `MaxItems` and
`MaxLimit` the items and jobs of one call (one: more jobs come from more calls),
`MaxNow` the clock, `MaxFaults` failures and abandoned calls, `MaxStray` late
PUTs. `MaxPending` 2 makes both a full batch and a left-over call occur. Losing
a job takes an enqueue, a competing save and one fault; a second delivery takes
enqueue, two claims and a lease; each is within the bounds, as the mutants show:
removing a guard or a reset breaks the property in the same instance. Deadlock
is not checked: when all calls are answered and the clock has stopped there is
nothing left to do.

Bounds of the producers. A checkpoint goes back when a second worker claims,
finishes two batches and the first one then writes: two events suffice; a third
makes batches differ in length and lets a late event fall inside one. Two shards
suffice for a worker to be at one while another is at the other.

Bounds of `Workspace`. Ids are used once, so `Conversation`, `Link` and `Invite`
bound how many are made; `Request` and `atOnce` bound the requests in progress,
not their number, which is unbounded. Each race takes two requests on two rows
of one table or of two; three users allow an owner, another owner and a member,
and direct messages next to larger conversations. The starts other than the new
workspace are tables that a few requests produce. Symmetry: the requests in
progress, which no property names.

Bounds of the pipeline. `MaxJobs` 4 jobs in all, `faults` 0 to 2 per scene
(`MaxFaults` bounds them over all), `copies` of an event's job, `switches` and
`versions` of PATCHes and changes. Of the rows that are indexed one quotes the
other, as a message quotes its author: a change of the quoted row leaves the
other's documents behind, and reading it may fail. A tick is the interval of heartbeats (30
seconds) and a lease two, where the code has four: one missed heartbeat, and not
three, frees a job, which allows more than the code does with fewer faults. Two jobs in one claim make the second one late. A batch of
one row in the webhook producer makes every row a page. No more to do is a
state in which nothing happens: deadlock is not checked.

Bounds of the requests. Each of at most three requests is sent once, with a
choice of commands. `Limit` 2 makes pages of two rows, three rows need two pages;
`HydrateFactor` 2 candidates per hit make a search look at fewer than there are.
`TargetLimit` 5 documents per query of a namespace, where one namespace (`Spread`)
has six for a search, three of them of one user: an answer leaves one out, and it
may be any. With a limit of 4 three documents of that user and one other can fill
the answer of a page of two; without the premise `Uncrowded` TLC then finds a search
that misses results.
`Pool` 4 exceeds the requests (`PoolAssumption`): with as many transactions as
connections, handlers that read on a second connection while they hold a
transaction wait for each other for ever, and no code bounds the requests
(`routes_messaging.go:861`). The limiter admits 2 calls (`Quota`) in 3 ticks
(`Window`) by 3 callers, up to tick 6 (`MaxClock`), with one tick between clock
and lock (`Skew`). When all requests are answered nothing is left to do:
deadlock is not checked.

Fairness. In `QueueManager`, `WF_vars(Step(m))` per Manager, its own steps
without faults: the goroutine is scheduled by the Go runtime and every S3 call
ends, in one of the modelled outcomes. Nothing is assumed of callers, of the
clock or of faults (they are bounded by `MaxFaults`: a store that fails for
ever answers every call with an error, but one that refuses for ever cannot be
told from a store with ever new writers). In `ShardProducer`, each worker's
steps (the loop in `main` never ends and every statement returns) and the lapse
of leases (time passes); commits are not assumed, `EveryEventQueued` starts at
the commit. Interrupted rounds are in `shard_safe` only: there
`CheckpointCovered` shows that what they leave undone stays ahead of the
checkpoint, for the next round. In `Pipeline` and `SearchIndex`, each worker's
steps, its heartbeats (a goroutine of their own), the producers and the clock:
the loops of the processes never end. In `Service`, `WF_vars(Serve(r))` per
request: each has a goroutine; nothing is assumed of the projector, the indexer
or other changes.

## Proofs

`QueueManagerProofs` proves for all values of the constants (any number of
Managers, consumers, calls, faults):

- `TypeCorrect`: `Spec => []TypeOK` (proved only: no run repeats it).
- `AlwaysDurable`: `Spec => []DurableInv`, the inductive invariant.
- from it `CoherentCaches`, `ConfirmedNeverLost`, `AckedNeverReturns`.

The argument. `ConfirmedKept` alone is not inductive: a save replaces the
whole table, and what it writes was computed long before. The invariant
therefore speaks of every table on its way to the store (a cache, a clone being
worked on, a late PUT): if it carries an ETag that is still the stored one,
then it was cloned from the stored table, and a job of the stored table that is
missing in it is one the batch acks; if it carries an older ETag, the
compare-and-set refuses it. `SupplyInv` adds that ids in use were issued and
that an acked pair names the item its job had. `CloneInv`, `CacheOK`,
`ApplyOK`, `LandedOK` are the parts per place in the loop; a step of one Manager
disturbs the others only through the stored ETag (`ManagerKept`,
`OneManagerMoves`), so each action needs one lemma about its own Manager.

Assumptions used there: those named in `QueueManager` (`LeaseAssumption`,
`DelaysAssumption`, `BoundsAssumption`, `ConsumerAssumption`).

`QueuePromiseProofs` proves the refinement, for the same constants and from the
same assumptions:

- `AlwaysTimely`: `Spec => []PromiseInv`.
- `ManagersKeepPromises`: `Spec => KeepsPromises`, that is, every behaviour of
  the Managers is one of `JobPromise`.

The argument. `JobPromise` speaks of one step of the stored table, but a batch is
computed over many steps, at a clock (`batchNow`) that is behind when its save
lands. `PromiseInv` therefore says of every clone whose ETag is still the stored
one, in a Manager's hands or in a late PUT, that it follows from the stored
table by moves that were allowed at the clock of its batch (`Moves`) and asked for
by then, the calls being those of the batch (`Asked`), and that no heartbeat is of
the future (`Timely`). The apply functions compose to such
moves (`AddMoves`, `ClaimMoves`, `HeartbeatMoves`, `RetryMoves`, `RemoveMoves`);
the one case that needs thought is a claim of a job that the same batch has just
put back, which is why `MayBeTaken` admits a held job when a delay may be 0. What
was allowed at the batch's clock is still allowed when the save lands, because a
free job stays free while nobody writes it and what is left of a delay or a
lease only shrinks (`TakenSeen`, `TurnsSeen`, `LandingSeen`). A tick of the clock
is `Age` (`TickSeen`), and every other step leaves the stored table alone.

The same module proves what the callers are promised, again from those
assumptions:

- `AlwaysAccounted`: `Spec => []GrantInv`, and from it `AttemptsFence`
  (`AttemptFences`) and `LeasesExclude` (`LeaseExclusive`).
- `LoneManagerAcks`: if `Manager` is a single Manager, `Spec => AckTakesEffect`.

The argument. A claim is answered long after its clone was computed, and a claim
whose caller is told of an error may still have been stored. A grant therefore
counts from the moment its clone lands (`Effective`), and `GrantInv` accounts for
it from then on in the stored table, in every clone that is cloned from it and in
every late PUT that can still land: the job is gone, or it is at that attempt and
its holder's, or its consumer has put it back, or its lease is over and a later
attempt has been given out (`Accounts`). Of two grants that count, or of one that
counts and one of a batch that is being applied, it says that they do not clash
(`NoClash`). The rest of it is what this needs of the calls: a call is in the
hands of one Manager (`OneHand`), has no grants before it is sent, and a batch
that changed nothing has granted nothing.

An ack says "ok" when the caller holds nothing of what it names *in the clone*,
which need not be the stored table. `AckInv` relates the two, for the attempts
that answered claims have told of: what the stored table, a clone or a late PUT
gives to the caller, the cache does too, so that an ack that finds nothing in the
cache has nothing to remove. This is where the single Manager is needed: with a
second, the cache can be behind, and the property fails.

`ShardProducerProofs` proves for all numbers of shards, workers and events:

- `ShardTypeCorrect`: `Spec => []TypeOK`.
- `NothingInTimeIsLost`: `Spec => []CheckpointCovered`. The invariant,
  `CoverageInv`, says the same of every checkpoint a worker has in hand, read or
  about to be written: it is a *mark*, 0 or a visible event of its shard. A
  mark is what makes it inductive under commits: an event that becomes visible
  below a mark is late by definition. The lease plays no part in it.
- `EnqueuedOnce` and `LeaseKeepsCheckpoints`: from `OrderInv`, which does use
  the lease: on a shard never overtaken one worker at a time is midway, what it
  has read is still the stored checkpoint, and what is enqueued lies below the
  checkpoint or in the batch about to be settled.

`RateLimiterProofs` proves for all numbers of callers, quotas, windows and skews
`LimiterSpec => []RateBound` (`WindowsAreBounded`), from `LimiterAssumption`.
`RateBound` counts what was admitted and the limiter only what it has kept, at
times that arrive out of order. The invariant, `LimiterInv`, says that the
entries are the last of the admitted calls, in the order of admission, and that
a call that was dropped lies more than the window less the skew before every
time a caller still holds (`DroppedIsOld`, `Punctual`): what comes in later cannot
share a window with it. `Sparse` is the bound itself over the admitted calls.
`ServiceRateBound` of `ServiceProofs` carries the result to `Service`, whose
other steps leave the limiter alone.

`ServiceProofs` proves of `Service`, for all numbers of users, requests and
scenes, with every command, whatever ends or dies meanwhile: `ServiceTypeOK`,
`CodesAreUsedOnce`, `PeopleAreOneUser`, `AgentsKeepTheirKey`, and for every step
`PatchesUndoOnlyOverlapping`, from `ScenesAssumption` and `NoneAssumption`
(`None` is no request, answer or code). They rest on one invariant, `Inv`
(`ServiceInv`), of four kinds of parts:

- `RequestOK` and `IsTables`: the fields of a request and the columns of a table.
- `StepOK`, what a handler has found and still relies on: an open challenge of
  the address asked for, behind its lock, and a user with that address
  (`SignInOK`, `CallbackOK`); a revoked key that is the agent's own, and a handle
  or archived mark that is as it was read unless someone was answered since
  (`AgentOK`, `RoomOK`).
- `Fresh` and `LocksApart`: a request that has not committed has inserted
  nothing, and no two requests lock one row.
- `CodesOK`, `PeopleOK`, `KeysOK`: the properties themselves, stronger. A code
  that opened a session is used up, which alone excludes a second session; a
  session's user *has* the address it was opened for, and addresses are unique;
  the live keys of an agent are a set of one.

`CodeUsedOnce` is not inductive without the lock: two requests have read the same
open challenge, and only that the second waits for its row and reads it again
keeps it from a session. `OneUserPerPerson` needs the address of the user found
carried from step to step, since another request may have inserted that user
after it was looked for; it is the unique index that fails the second insert.

The proof goes by steps. `Turn` says what a step does to its own request (the
others stay, no lock of theirs is taken) and is shown once for each way a handler
goes on: `Read`, `Locking`, `Refuse`, `Answer`, `Commit`. Steps that only read or
lock then keep the tables' parts. Of each commit it is shown that rows stay and
keep what identifies them, and new ones are the request's (`Grown`), and which of
sessions, users and agents it does not touch (`SessionsKept`, `UsersKept`,
`AgentsKept`); the commits that do touch them are proved one by one. A step of another request, a change of membership and the
projector keep what a handler relies on by the same facts.

A second invariant over `Inv`, `ShowInv` (`ServiceShowInv`), is about what clients
are shown. From it follow `MessagePagesMissNothing`, and for every step
`OnlyVisibleIsShown`. It says:

- `PlaceOK`: what a request has in hand at each place of a list, a read or a
  search. It keeps nothing of memberships that were checked, as they may end at
  any moment: that a row is visible is shown at the step that reads it, from the
  conditions of its query. The lists whose access is checked a statement earlier
  are those that `ShownIsVisible` excepts.
- `KeyScoped`: a list of the feed and a search of a caller with a workspace key
  are limited to that workspace, on every page. This can be kept from step to step:
  the scope of a key never changes.
- `DocOK` of every document in the index, however old: its resource exists and is
  of the workspace and conversation the document names. That is what makes a
  stale index harmless: a candidate that is looked up again is judged by rules
  that are current, under a scope that never changes.
- `EventsFit`: events are in feeds of the workspace they name. A caller with a
  workspace key selects events by workspace, and `MaySee` judges by feeds.
- `PagesOK`: the messages of the start that a list has not shown lie at or behind
  its cursor. In words of numbers, each of them has at least as many messages
  before it as were skipped; a new message can only add to those. That a page
  shows all of them that fall into it is a pigeonhole argument over the places of
  the list (`AtLeast`, `Newest`), with finite sets and no induction.
- `TimesOK`: times of messages are distinct, those drawn by transactions in
  progress too.

`SearchProofs` proves `SearchFindsAll`: `Spec => []SearchComplete`, for any
tables, number of searches, page size, hydrate factor and limit of documents, from
those assumptions, `HydrateAssumption` and `TargetAssumption` (at least one candidate
is looked at per hit asked for, and a namespace answers with one document at least).
The premises `OnlySearches` and `Uncrowded` are part of the property, so its invariant `SearchInv`
is too: while it holds, the rows are those of the scene and the index is the one
that the rows give. The run `requests` starts from a scene of that kind, in which
searches take several pages. The argument has three parts.

- For each of the five kinds of resource (`DocsAgree`: messages, conversations,
  workspaces, users, events), one of its documents is of a principal of the caller
  and in the place asked for exactly when the resource is wanted, and every such
  document is a hit when it is looked up. Three pieces of code have to agree for
  this: who a document is filed under, who the caller is taken for, and what a
  candidate is checked against. `FilterFinds` puts them together: the documents
  that pass the filter are of what is wanted and has not been shown. The candidates
  are all of it unless a namespace is crowded, and then, by `Uncrowded`, they are more
  than a page.
- Of a page (`HitsOK`): the candidates not yet looked at are all that is wanted and
  not shown, or were more than a page; those looked at so far and those still to be
  looked at add up to the bound. Since all are hits and the bound is at least a page,
  a page that is not full has looked at all there is (`BoundedIs`, `FinishesSearch`), so a search ends
  without a cursor only when nothing is left.
- From page to page (`Known`, `OneCaller`): each page is authenticated anew, and
  the credential is of one caller, who is found again. The workspace in the cursor
  is the one of the request, except for the case the property excepts.

`PipelineProofs` proves of `IndexSpec` (`Pipeline` with the indexer), for all
numbers of workers, events, jobs, subscriptions and faults, every safety
property the run checks: `PipelineTypes`, `EventsProjectedOnce`,
`JobsLeaveDone`, `OneHandlerAtATime`, `SubscribersAreTold` and
`IndexBehindOnlyWhileQueued`, from `PipelineAssumption`, `IndexAssumption`,
`QuotesAssumption` and `AbsentAssumption` (a lease is longer than the interval of
heartbeats; what scenes start from; events and resources are different things, only
resources are quoted, and documents are told from their absence). The invariants come in layers, and each is proved over the
two below it:

- `Shape`: what a place in a worker's loop says of its batch, its job and its
  locals.
- `Writers`: between the insert of an external event and its commit it has one
  writer, and the id drawn for it is nobody else's. `ProjectedOnce` is a part of
  it; without the writers it is not inductive, as two transactions can look for
  the dedupe key before either commits.
- `Finished`, for `LeftIsDone`: a job that is about to be acked has its work
  done, or its failure recorded, in the committed tables.
- `Kept`, for `SoleHandler`: while nothing has failed, a job that is handled and
  was not late when its turn came has a lease that its next heartbeat renews in
  time. Leases alone say nothing: what counts is lease and time to the beat
  together.
- `Rounds`, for `ExactSubscribersTold`: what lies between the stored checkpoint
  and the end of a round of the webhook producer is among the items of the
  round, whether the broker has answered for them or not.
- `Indexed`, for `StaleOnlyWhileQueued`: a target that one worker alone has
  loaded keeps its job until it is written; what was loaded is `Current`, or
  another job for it is on the way; and an ack takes only targets that were
  written.

`WorkspaceProofs` proves of `Workspace`, for all numbers of users, conversations,
links, invites and requests in progress: `WorkspaceTypes`, `LinksStayUnique`,
`DirectStaysOfPairs`, `TriggersHoldUnlessRaced`, `SerialRequestsPassChecks`, and
for every step `JoinsByLiveLinks`, `PatchesKeepTheRest` and `CommitsTellChanges`, from
`NoneAssumption` and `ScenesAssumption` (the tables a scene starts with satisfy
the foreign keys, the constraints, the unique links and pairs, and its requests
are requests). `WorkspaceSound` is the invariant, in four parts:

- `TablesOK`: the committed rows refer to rows, a conversation has at most one
  active link, pairs have global conversations, and those without a link are of
  pairs.
- `RowsOK`, of what a transaction has written: a conversation is new and comes
  with its link or its pair; a participant row is turned and told; a link is new
  or revoked; and the tables it would leave have one active link each.
- `LocksOK` and `StillSo`: what is written is locked, and what a handler has read
  and still relies on is so. It stays so when another transaction commits
  (`OthersStay`) for one of two reasons: the row is locked (a link that is
  joined, a member that is changed, an invite that is accepted), or it turns only
  one way (a conversation keeps its scope, and who may not have links never
  gets them; a link keeps its conversation).
- `Apart`: two transactions hold no lock in common and write links of different
  conversations. The unique index is used for this: two new links of one
  conversation are different rows, and no row lock keeps them apart.

None of the properties is inductive without the others: a second active link can
come from a transaction that found none before the first was committed, and that
a link is still active where a seat is taken rests on the lock the rotation waits
for. `TriggersHoldUnlessRaced` needs `ChecksHold` on top: until a commit comes in
between, whatever a transaction that is at its checks could break has been found
to hold, or its check is still due. `DueSuffices` is the other half: the checks
the triggers queue for the rows written cover every constraint those rows could
break.

`SerialRequestsPassChecks` goes the other way: of `NoCheckFails` it needs what the
handlers check themselves, and the triggers play no part. Its invariant, `Serial`, is
about the one transaction in progress: the tables it sees keep every constraint
after each of its statements, except between the change of a member and the end of
its stay in private conversations, when only that member's seats are excepted.
`Lone` adds, step by step, what an earlier check has found and a later write relies
on: that those who will be seated in a private conversation are active, that two
participants are left when one is deleted, and that every room the member has still
to leave has someone else in it. That the last owner stays is shown where the
member is written (`OwnerLeft`, `OtherOwner`). `Sound` supplies the rest: that what
was read before the transaction (the conversation is no direct message, the link is
active) is still so. The run `workspace` checks the property in the scene `serial`.

Three definitions of the model are written so that they can be reasoned about:
the order in which `Claim` and the projector's listing take rows is `InOrder`
(some sequence of the rows in increasing order), and that of a list of messages or
conversations is a sequence of `Newest`, since sorting by recursion is beyond the
provers. The feed's pages are said by counting the events before.

Only model-checked. Liveness (`EveryCallAnswered`, `EveryEventQueued`,
`EveryJobDone`, `IndexCatchesUp`, `EveryRequestAnswered`) is out of the prover's
reach. Every invariant and every safety property of a step that a passing run checks
is proved.

## Not modelled

- API models: types without behaviour.
- Encryption and embedding clients: cryptography, and a stateless HTTP client.
- Command line client and MCP server: separate processes that turn commands into
  API calls; they share no state with the server. Their files are written by one
  command at a time.
- Web frontend, build, release and deployment scripts: no program state of the
  server.
- Of the server: JSON and argument checks, ranking and snippets of a search, CORS,
  configuration and start-up.
