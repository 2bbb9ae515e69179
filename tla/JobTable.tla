------------------------------ MODULE JobTable ------------------------------
(***************************************************************************)
(* A table of jobs with delays and leases, as the workers that consume a   *)
(* queue see it.  Time is only in the ages of the jobs, so that a table    *)
(* has finitely many values however long it lives: "wait" is what is left  *)
(* of the delay of a job, "lease" what is left of its claim, both in       *)
(* ticks.  JobPromise says how the table of a queue may move, which        *)
(* QueueManager implements; the workers of Pipeline and SearchIndex        *)
(* consume such a table.                                                   *)
(***************************************************************************)
EXTENDS Integers

CONSTANTS
  Consumer,     \* the consumer ids
  NoConsumer,   \* the holder of a job whose Claim is nil
  Lease         \* LeaseDurationSeconds

VARIABLE jobs   \* a function from the ids of the jobs in the table

Less(n) == IF n > 0 THEN n - 1 ELSE 0

Waiting(item, delay) ==
  [item |-> item, holder |-> NoConsumer, wait |-> delay, lease |-> 0]

\* Mutant of Claimable: the job of a process that died stays its own.
ClaimableUnheld(b) == b.wait = 0 /\ b.holder = NoConsumer

\* jobClaimable: a job that no one holds has no lease left either.
Claimable(b) == b.wait = 0 /\ b.lease = 0

\* Mutant of PutBack: the lease is left on the job.
PutBackLeased(b, delay) == [b EXCEPT !.holder = NoConsumer, !.wait = delay]

Claimed(b, c)     == [b EXCEPT !.holder = c, !.lease = Lease]
Renewed(b)        == [b EXCEPT !.lease = Lease]
PutBack(b, delay) == [b EXCEPT !.holder = NoConsumer, !.lease = 0, !.wait = delay]
Older(b)          == [b EXCEPT !.wait = Less(@), !.lease = Less(@)]

\* Time passes.
Age == jobs' = [j \in DOMAIN jobs |-> Older(jobs[j])]

=============================================================================
