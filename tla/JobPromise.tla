----------------------------- MODULE JobPromise -----------------------------
(***************************************************************************)
(* What a queue promises the workers that consume it: how its table of     *)
(* jobs may move, and at whose request.  A job that a consumer holds is    *)
(* renewed, returned or removed only where that consumer has made the call *)
(* for it, by its own id: no call of another consumer touches it before    *)
(* its lease is over.  QueueManager implements this module.                *)
(***************************************************************************)
EXTENDS JobTable

CONSTANT Delays \* DelaySeconds of a retry, the delay of an item

VARIABLE asked  \* the calls made so far: <<kind, consumer, job>>

\* Who holds j has called for it.
HolderAsked(kind, j) ==
  jobs[j].holder # NoConsumer /\ <<kind, jobs[j].holder, j>> \in asked

\* What is free, or is put back without a delay by the same batch.
MayBeTaken(j) == Claimable(jobs[j]) \/ (0 \in Delays /\ HolderAsked("retry", j))

\* A batch keeps a job as it is, renews or returns what its holder asks for, and
\* does what it likes with what may be taken.
MayBecome(j, a) ==
  LET b == jobs[j]
  IN  /\ a.item = b.item
      /\ \/ a = b
         \/ /\ HolderAsked("heartbeat", j)
            /\ a.holder = b.holder /\ a.wait = b.wait /\ a.lease \in b.lease .. Lease
         \/ /\ HolderAsked("retry", j)
            /\ a.holder = NoConsumer /\ a.lease = 0 /\ \E d \in Delays : a.wait <= d
         \/ MayBeTaken(j)

-----------------------------------------------------------------------------
\* Time passes, a worker makes a call, a batch of calls is stored.
Wait == Age /\ UNCHANGED asked

Ask == asked \subseteq asked' /\ UNCHANGED jobs

Batch ==
  /\ \A j \in DOMAIN jobs \cap DOMAIN jobs' : MayBecome(j, jobs'[j])
  /\ \A j \in DOMAIN jobs \ DOMAIN jobs' : HolderAsked("ack", j) \/ MayBeTaken(j)
  /\ UNCHANGED asked

TableInit == jobs = [j \in {} |-> 0] /\ asked = {}
TableNext == Wait \/ Ask \/ Batch
TableSpec == TableInit /\ [][TableNext]_<<jobs, asked>>

=============================================================================
