------------------------------- MODULE Workers -------------------------------
(***************************************************************************)
(* The processes that consume a queue (ConsumeOnce and StartHeartbeat in   *)
(* queue/api.go, through BrokerClient and BrokerServer): claim a batch,    *)
(* handle its jobs one after the other under a heartbeat, ack or retry     *)
(* each.  Handlers are actions of the modules that extend this one.        *)
(*                                                                         *)
(* Any call may fail in one of two ways: before or after the broker has    *)
(* done it.  A job whose lease has lapsed may be claimed by another worker *)
(* while the first is still at it: a heartbeat keeps the job in hand, not  *)
(* the jobs behind it in the batch.  "beat" counts the ticks since the     *)
(* heartbeat of the job in hand; a tick waits for a heartbeat that is due, *)
(* and a heartbeat may fail.  A process and its consumer id are one.       *)
(***************************************************************************)
EXTENDS JobTable, Sequences, SequencesExt, FiniteSets

CONSTANTS
  Interval,     \* ticks between two heartbeats
  RetryDelay,   \* ticks
  MaxJobs,      \* bound: jobs enqueued
  MaxFaults     \* bound: calls that fail, transactions that abort, crashes

VARIABLES
  queued,       \* the items ever enqueued, in order: the id of a job is its place
  left,         \* history: the jobs that were acked away
  work,         \* per worker: what it is doing
  faults

queueVars == <<jobs, queued, left>>

\* pc: "rest", "turn" (at the head of the loop), or a step of a handler;
\* batch: the jobs claimed and not yet handled, the one in hand first;
\* late: the lease of the job in hand was near its end when its turn came;
\* got: what the handler has read or written so far
Resting == [pc |-> "rest", batch |-> <<>>, beat |-> 0, late |-> FALSE, got |-> {}]

InHand(w)  == Head(work[w].batch)
Handling(w) == work[w].pc \notin {"rest", "turn"}

Fail == faults < MaxFaults /\ faults' = faults + 1

-----------------------------------------------------------------------------
\* Enqueue: one job per item, in order.
Enqueued(items, delay) ==
  /\ Len(queued) + Len(items) <= MaxJobs
  /\ queued' = queued \o items
  /\ jobs' = [j \in DOMAIN jobs \cup (Len(queued) + 1 .. Len(queued) + Len(items)) |->
               IF j \in DOMAIN jobs THEN jobs[j]
               ELSE Waiting(items[j - Len(queued)], delay)]
  /\ UNCHANGED left

\* A finite set of numbers, the least first.
InOrder(S) == CHOOSE s \in [1 .. Cardinality(S) -> S] :
                \A i, k \in DOMAIN s : i < k => s[i] < s[k]

\* What a claim of at most n of these jobs is granted: the first claimable ones.
Grant(mine, n) ==
  LET free == {j \in mine : Claimable(jobs[j])}
  IN  {j \in free : Cardinality({i \in free : i < j}) < n}

Hold(w, S) ==
  jobs' = [j \in DOMAIN jobs |-> IF j \in S THEN Claimed(jobs[j], w) ELSE jobs[j]]

\* Claim; a call that fails after the broker did it leaves its jobs to their leases.
Claim(w, mine, n) ==
  /\ work[w].pc = "rest" /\ Grant(mine, n) # {}
  /\ Hold(w, Grant(mine, n))
  /\ \/ /\ work' = [work EXCEPT ![w] = [Resting EXCEPT !.pc = "turn",
                      !.batch = InOrder(Grant(mine, n))]]
        /\ UNCHANGED faults
     \/ Fail /\ UNCHANGED work
  /\ UNCHANGED <<queued, left>>

\* The turn of the first job of the batch: its heartbeat and its handler start.
Start(w, pc) ==
  /\ work[w].pc = "turn"
  /\ work' = [work EXCEPT ![w] = [Resting EXCEPT !.pc = pc, !.batch = work[w].batch,
       !.late = ~(/\ InHand(w) \in DOMAIN jobs /\ jobs[InHand(w)].holder = w
                  /\ jobs[InHand(w)].lease > Interval)]]
  /\ UNCHANGED <<queueVars, faults>>

\* Mutant of Beat: the heartbeat renews nothing.
BeatNothing(w) ==
  /\ Handling(w) /\ work[w].beat = Interval
  /\ work' = [work EXCEPT ![w].beat = 0]
  /\ UNCHANGED <<queueVars, faults>>

\* The ticker of StartHeartbeat fires.  The broker renews the job if w holds it.
Beat(w) ==
  /\ Handling(w) /\ work[w].beat = Interval
  /\ work' = [work EXCEPT ![w].beat = 0]
  /\ \/ /\ jobs' = [j \in DOMAIN jobs |-> IF j = InHand(w) /\ jobs[j].holder = w
                                          THEN Renewed(jobs[j]) ELSE jobs[j]]
        /\ UNCHANGED faults
     \/ Fail /\ UNCHANGED jobs
  /\ UNCHANGED <<queued, left>>

\* Ack and Retry at the broker: what w does not hold is passed over.
AckJobs(w, S) ==
  LET held == {j \in S \cap DOMAIN jobs : jobs[j].holder = w}
  IN  /\ jobs' = [j \in DOMAIN jobs \ held |-> jobs[j]]
      /\ left' = left \cup held

RetryJobs(w, S) ==
  /\ jobs' = [j \in DOMAIN jobs |-> IF j \in S /\ jobs[j].holder = w
                                    THEN PutBack(jobs[j], RetryDelay) ELSE jobs[j]]
  /\ UNCHANGED left

\* The next round of the loop, or out of it.
NextRound(w) ==
  LET rest == Tail(work[w].batch)
  IN  work' = [work EXCEPT ![w] = IF rest = <<>> THEN Resting
                                  ELSE [Resting EXCEPT !.pc = "turn", !.batch = rest]]

\* The handler of w is done: Ack if it returned nil, else Retry.  When that
\* call fails, with or without effect, ConsumeOnce returns: the jobs behind are
\* left to their leases.
Settle(w, ok) ==
  /\ \/ /\ IF ok THEN AckJobs(w, {InHand(w)}) ELSE RetryJobs(w, {InHand(w)})
        /\ \/ NextRound(w) /\ UNCHANGED faults
           \/ Fail /\ work' = [work EXCEPT ![w] = Resting]
     \/ Fail /\ work' = [work EXCEPT ![w] = Resting] /\ UNCHANGED <<jobs, left>>
  /\ UNCHANGED queued

\* The process dies; a new one starts at the top of its loop.
Crash(w) ==
  /\ Fail /\ work[w].pc # "rest"
  /\ work' = [work EXCEPT ![w] = Resting]
  /\ UNCHANGED queueVars

\* A tick passes, when no heartbeat is due and none is about to start: neither
\* takes as long as a tick.
Tick ==
  /\ \A w \in Consumer : work[w].pc # "turn" /\ (Handling(w) => work[w].beat < Interval)
  /\ Age
  /\ work' = [w \in Consumer |-> IF Handling(w) THEN [work[w] EXCEPT !.beat = @ + 1] ELSE work[w]]
  /\ <<jobs, work>>' # <<jobs, work>>
  /\ UNCHANGED <<queued, left, faults>>

QueueInit(spent) ==
  /\ jobs = [j \in {} |-> 0] /\ queued = <<>> /\ left = {}
  /\ work = [w \in Consumer |-> Resting] /\ faults = spent

=============================================================================
