---------------------------- MODULE QueuePromise ----------------------------
(***************************************************************************)
(* The Managers implement JobPromise: whatever caches, refused saves, late *)
(* PUTs and crashes do, the stored table moves as its consumers expect.    *)
(***************************************************************************)
EXTENDS QueueManager

\* What is left of a time t, in ticks.
Left(t) == IF t > now THEN t - now ELSE 0

\* The abstract table: the stored one, with ages in place of times.
Promised ==
  [j \in DOMAIN storedJobs |->
     LET b == storedJobs[j]
     IN  [item |-> b.item, holder |-> b.holder,
          wait |-> Left(b.availableAt),
          lease |-> IF b.holder = NoConsumer THEN 0 ELSE Left(b.heartbeatAt + Lease)]]

\* The calls made by name of a job, by whom: a consumer has one id.
Asked ==
  UNION {{request[k].kind} \X {request[k].consumer} \X request[k].jobs
         : k \in {c \in Call : request[c].kind \in {"heartbeat", "ack", "retry"}}}

Table == INSTANCE JobPromise WITH jobs <- Promised, asked <- Asked

\* Until its lease is over a job that a consumer holds is renewed, returned or
\* removed only where that consumer has called for it (manager.go:150, 173, 201:
\* by the consumer's id), and goes to no one else but by its retry; one that
\* waits waits out its delay; a renewal never shortens a lease.
KeepsPromises == Table!TableSpec

=============================================================================
