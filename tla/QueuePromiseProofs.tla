------------------------- MODULE QueuePromiseProofs -------------------------
(***************************************************************************)
(* What the queue promises its workers, for any number of Managers,        *)
(* consumers, calls and faults: QueueManager implements JobPromise         *)
(* (KeepsPromises), and the attempts that claims grant are accounted for.  *)
(***************************************************************************)
EXTENDS QueuePromise, QueueManagerProofs

USE LeaseAssumption, DelaysAssumption, BoundsAssumption, ConsumerAssumption

-----------------------------------------------------------------------------
(***************************************************************************)
(* What one batch may do, said of the times that the jobs carry: s is the  *)
(* table a batch was cloned from, t the clone, n the clock of the batch, A *)
(* the calls made so far.                                                  *)
(***************************************************************************)

Free(b, n) == n >= b.availableAt /\ (b.holder = NoConsumer \/ n >= b.heartbeatAt + Lease)

Asks(kind, j, b, A) == b.holder # NoConsumer /\ <<kind, b.holder, j>> \in A

Takeable(j, b, n, A) == Free(b, n) \/ (0 \in Delays /\ Asks("retry", j, b, A))

Renews(j, b, a, n, A) ==
  /\ Asks("heartbeat", j, b, A) /\ a.holder = b.holder
  /\ a.availableAt = b.availableAt /\ a.heartbeatAt = n

Returns(j, b, a, n, A) ==
  /\ Asks("retry", j, b, A) /\ a.holder = NoConsumer
  /\ \E d \in Delays : a.availableAt = n + d

Turns(j, b, a, n, A) ==
  /\ a.item = b.item
  /\ a = b \/ Renews(j, b, a, n, A) \/ Returns(j, b, a, n, A) \/ Takeable(j, b, n, A)

Moves(s, t, n, A) ==
  /\ \A j \in DOMAIN s \cap DOMAIN t : Turns(j, s[j], t[j], n, A)
  /\ \A j \in DOMAIN s \ DOMAIN t : Asks("ack", j, s[j], A) \/ Takeable(j, s[j], n, A)

\* No heartbeat is of the future.
Timely(t, n) == \A j \in DOMAIN t : t[j].heartbeatAt <= n

(***************************************************************************)
(* The apply functions.                                                    *)
(***************************************************************************)

\* A table is its own clone.
LEMMA CloneMoves == ASSUME NEW s, NEW n, NEW A PROVE Moves(s, s, n, A)
BY DEF Moves, Turns

\* What a batch may do, it may do when more calls have been made.
LEMMA MovesMore ==
  ASSUME NEW s, NEW t, NEW n, NEW A, NEW B, A \subseteq B, Moves(s, t, n, A)
  PROVE  Moves(s, t, n, B)
<1>1. \A kind, j, b : Asks(kind, j, b, A) => Asks(kind, j, b, B)
  BY DEF Asks
<1>2. \A j, b : Takeable(j, b, n, A) => Takeable(j, b, n, B)
  BY <1>1 DEF Takeable
<1>3. \A j, b, a : Turns(j, b, a, n, A) => Turns(j, b, a, n, B)
  BY <1>1, <1>2 DEF Turns, Renews, Returns
<1> QED BY <1>1, <1>2, <1>3 DEF Moves

\* Enqueue touches no job that was there.
LEMMA AddMoves ==
  ASSUME NEW s, NEW t, NEW n \in Nat, NEW A, NEW k \in Call, NEW i \in Nat,
         request[k].count \in JobId, DOMAIN s \subseteq 1 .. i,
         Moves(s, t, n, A), Timely(t, n)
  PROVE  Moves(s, AddJobs(t, k, i, n), n, A) /\ Timely(AddJobs(t, k, i, n), n)
<1> DEFINE u == AddJobs(t, k, i, n)
<1>1. DOMAIN u = DOMAIN t \cup (i + 1 .. i + request[k].count)
  BY DEF AddJobs
<1>2. \A j \in DOMAIN t : u[j] = t[j]
  BY DEF AddJobs
<1>3. \A j \in DOMAIN u \ DOMAIN t : u[j].heartbeatAt = 0
  BY DEF AddJobs
<1>4. DOMAIN s \cap DOMAIN u = DOMAIN s \cap DOMAIN t
  BY <1>1
<1> HIDE DEF u
<1>5. Moves(s, u, n, A)
  BY <1>2, <1>4 DEF Moves
<1>6. Timely(u, n)
  BY <1>1, <1>2, <1>3 DEF Timely
<1> QED BY <1>5, <1>6 DEF u

\* Claim takes jobs that were free, or that the batch has just returned.
LEMMA ClaimMoves ==
  ASSUME NEW s, IsTable(s), NEW t, IsTable(t), NEW n \in Nat, NEW A, NEW c,
         NEW S \in SUBSET Claimable(t, n), Moves(s, t, n, A), Timely(t, n)
  PROVE  Moves(s, ClaimJobs(t, S, c, n), n, A) /\ Timely(ClaimJobs(t, S, c, n), n)
<1> DEFINE u == ClaimJobs(t, S, c, n)
<1>1. DOMAIN u = DOMAIN t
  BY DEF ClaimJobs
<1>2. ASSUME NEW j \in DOMAIN t
      PROVE  /\ t[j] \in Job
             /\ j \notin S => u[j] = t[j]
             /\ j \in S => u[j].item = t[j].item /\ u[j].heartbeatAt = n
  BY DEF ClaimJobs, IsTable, Job
<1>3. ASSUME NEW j \in DOMAIN s \cap DOMAIN t, j \in S
      PROVE  Takeable(j, s[j], n, A)
  <2>1. s[j] \in Job /\ t[j] \in Job
    BY DEF IsTable
  <2>2. Free(t[j], n)
    BY <1>3 DEF Claimable, Free
  <2>3. Turns(j, s[j], t[j], n, A)
    BY DEF Moves
  <2>4. CASE t[j] = s[j]
    BY <2>2, <2>4 DEF Takeable
  <2>5. CASE Renews(j, s[j], t[j], n, A)
    BY <2>1, <2>2, <2>5 DEF Renews, Takeable, Asks, Free, Job
  <2>6. CASE Returns(j, s[j], t[j], n, A)
    <3>1. PICK d \in Delays : t[j].availableAt = n + d
      BY <2>6 DEF Returns
    <3>2. d \in Nat /\ n >= t[j].availableAt
      BY <2>2 DEF Free
    <3>3. d = 0
      BY <3>1, <3>2
    <3> QED BY <3>3, <2>6 DEF Returns, Takeable
  <2> QED BY <2>3, <2>4, <2>5, <2>6 DEF Turns
<1> HIDE DEF u
<1>4. Moves(s, u, n, A)
  BY <1>1, <1>2, <1>3 DEF Moves, Turns
<1>5. Timely(u, n)
  BY <1>1, <1>2 DEF Timely
<1> QED BY <1>4, <1>5 DEF u

\* A job a consumer holds in the clone was held, or free, in the table.
LEMMA HeldMoves ==
  ASSUME NEW s, NEW t, NEW n \in Nat, NEW A, Moves(s, t, n, A), NEW j \in DOMAIN s \cap DOMAIN t,
         t[j].holder # NoConsumer
  PROVE  \/ s[j].holder = t[j].holder /\ t[j].availableAt = s[j].availableAt
         \/ Takeable(j, s[j], n, A)
BY DEF Moves, Turns, Renews, Returns

\* Heartbeat.
LEMMA HeartbeatMoves ==
  ASSUME NEW s, NEW t, IsTable(t), NEW n \in Nat, NEW A, NEW S \in SUBSET DOMAIN t,
         \A j \in S : Asks("heartbeat", j, t[j], A),
         Moves(s, t, n, A), Timely(t, n)
  PROVE  Moves(s, HeartbeatJobs(t, S, n), n, A) /\ Timely(HeartbeatJobs(t, S, n), n)
<1> DEFINE u == HeartbeatJobs(t, S, n)
<1>1. DOMAIN u = DOMAIN t
  BY DEF HeartbeatJobs
<1>2. ASSUME NEW j \in DOMAIN t
      PROVE  /\ j \notin S => u[j] = t[j]
             /\ j \in S => /\ u[j].item = t[j].item /\ u[j].heartbeatAt = n
                           /\ u[j].holder = t[j].holder /\ u[j].availableAt = t[j].availableAt
  BY DEF HeartbeatJobs, IsTable, Job
<1>3. ASSUME NEW j \in DOMAIN s \cap DOMAIN t, j \in S
      PROVE  Turns(j, s[j], u[j], n, A)
  <2>1. t[j].item = s[j].item
    BY DEF Moves, Turns
  <2> QED BY <2>1, <1>2, <1>3, HeldMoves DEF Turns, Renews, Asks
<1> HIDE DEF u
<1>4. Moves(s, u, n, A)
  BY <1>1, <1>2, <1>3 DEF Moves
<1>5. Timely(u, n)
  BY <1>1, <1>2 DEF Timely
<1> QED BY <1>4, <1>5 DEF u

\* Retry.
LEMMA RetryMoves ==
  ASSUME NEW s, NEW t, IsTable(t), NEW n \in Nat, NEW A, NEW S \in SUBSET DOMAIN t, NEW d \in Delays,
         \A j \in S : Asks("retry", j, t[j], A),
         Moves(s, t, n, A), Timely(t, n)
  PROVE  Moves(s, RetryJobs(t, S, d, n), n, A) /\ Timely(RetryJobs(t, S, d, n), n)
<1> DEFINE u == RetryJobs(t, S, d, n)
<1>1. DOMAIN u = DOMAIN t
  BY DEF RetryJobs
<1>2. ASSUME NEW j \in DOMAIN t
      PROVE  /\ j \notin S => u[j] = t[j]
             /\ j \in S => /\ u[j].item = t[j].item /\ u[j].heartbeatAt = 0
                           /\ u[j].holder = NoConsumer /\ u[j].availableAt = n + d
  BY DEF RetryJobs, IsTable, Job
<1>3. ASSUME NEW j \in DOMAIN s \cap DOMAIN t, j \in S
      PROVE  Turns(j, s[j], u[j], n, A)
  <2>1. t[j].item = s[j].item
    BY DEF Moves, Turns
  <2> QED BY <2>1, <1>2, <1>3, HeldMoves DEF Turns, Returns, Asks
<1> HIDE DEF u
<1>4. Moves(s, u, n, A)
  BY <1>1, <1>2, <1>3 DEF Moves
<1>5. Timely(u, n)
  BY <1>1, <1>2 DEF Timely
<1> QED BY <1>4, <1>5 DEF u

\* Ack.
LEMMA RemoveMoves ==
  ASSUME NEW s, NEW t, NEW n \in Nat, NEW A, NEW S \in SUBSET DOMAIN t,
         \A j \in S : Asks("ack", j, t[j], A),
         Moves(s, t, n, A), Timely(t, n)
  PROVE  Moves(s, RemoveJobs(t, S), n, A) /\ Timely(RemoveJobs(t, S), n)
<1> DEFINE u == RemoveJobs(t, S)
<1>1. DOMAIN u = DOMAIN t \ S /\ \A j \in DOMAIN u : u[j] = t[j]
  BY DEF RemoveJobs
<1>2. \A j \in DOMAIN s \cap S : Asks("ack", j, s[j], A) \/ Takeable(j, s[j], n, A)
  BY HeldMoves DEF Asks
<1> HIDE DEF u
<1>3. Moves(s, u, n, A)
  BY <1>1, <1>2 DEF Moves
<1>4. Timely(u, n)
  BY <1>1 DEF Timely
<1> QED BY <1>3, <1>4 DEF u

-----------------------------------------------------------------------------
(***************************************************************************)
(* The inductive invariant: the clone of a batch follows from the stored   *)
(* table while its ETag is the stored one, and a PUT on its way as well.   *)
(***************************************************************************)

Follows(t, n) == Timely(storedJobs, n) /\ Moves(storedJobs, t, n, Asked)

BatchOK(m) ==
  /\ Timely(state[m], now)
  /\ phase[m] \in {"apply", "landed"} => batchNow[m] <= now /\ Timely(working[m], batchNow[m])
  /\ phase[m] = "apply" /\ etag[m] = storedEtag => Follows(working[m], batchNow[m])

PutOK(p) ==
  /\ Timely(p.jobs, now)
  /\ p.etag = storedEtag => \E n \in Nat : n <= now /\ Follows(p.jobs, n)

\* A call that has not been made asks for nothing.
Unsent == \A k \in Call : outcome[k] = "unsent" => request[k] = NoRequest

PromiseInv ==
  /\ Timely(storedJobs, now)
  /\ \A m \in Manager : BatchOK(m)
  /\ \A p \in stray : PutOK(p)

\* The calls made are not unmade.
LEMMA AskedGrows ==
  ASSUME TypeOK, Unsent, [Next]_vars
  PROVE  Unsent' /\ Asked \subseteq Asked'
<1>1. request \in [Call -> Request \cup {NoRequest}] /\ outcome \in [Call -> {"unsent", "waiting", "ok", "error"}]
  BY DEF TypeOK
<1>2. CASE request' = request /\ \A k \in Call : outcome'[k] = "unsent" => outcome[k] = "unsent"
  BY <1>2 DEF Unsent, Asked
<1>3. ASSUME NEW k \in Call, NEW m \in Manager, Submit(k, m)
      PROVE  Unsent' /\ Asked \subseteq Asked'
  <2>1. /\ outcome[k] = "unsent" /\ outcome'[k] = "waiting"
        /\ \A c \in Call \ {k} : request'[c] = request[c] /\ outcome'[c] = outcome[c]
    BY <1>1, <1>3 DEF Submit
  <2>2. request[k].kind = "none"
    BY <2>1 DEF Unsent, NoRequest
  <2>3. Unsent'
    BY <2>1 DEF Unsent
  <2>4. Asked \subseteq Asked'
    BY <2>1, <2>2 DEF Asked
  <2> QED BY <2>3, <2>4
<1>4. CASE \/ \E k \in Call : GiveUp(k)
           \/ StrayArrives \/ Tick \/ UNCHANGED vars
  BY <1>1, <1>2, <1>4 DEF GiveUp, StrayArrives, Tick, vars, callVars
<1>5. ASSUME NEW m \in Manager, Step(m) \/ Fault(m)
      PROVE  Unsent' /\ Asked \subseteq Asked'
  <2>1. request' = request
    BY <1>5 DEF Step, Fault, Collect, Load, Begin, Apply, ReplyUnchanged, SaveLands, SaveRefused,
                SaveConfirmed, LoadFails, SaveRepeated, SaveFails, Crash, Again, callVars
  <2>2. \/ outcome' = outcome
        \/ Reply(m, "ok") \/ Reply(m, "error")
        \/ \E K \in SUBSET Call : outcome' = [c \in Call |-> IF c \in K THEN "error" ELSE outcome[c]]
    <3>1. CASE Crash(m)
      <4> DEFINE K == {k \in Call : /\ outcome[k] = "waiting"
                                    /\ k \in Batch(m) \cup {ops[m][i] : i \in DOMAIN ops[m]}}
      <4>1. outcome' = [c \in Call |-> IF c \in K THEN "error" ELSE outcome[c]]
        BY <3>1 DEF Crash
      <4> QED BY <4>1
    <3>2. CASE ~Crash(m)
      BY <1>5, <3>2 DEF Step, Fault, Collect, Load, Begin, Apply, ReplyUnchanged, SaveLands,
                SaveRefused, SaveConfirmed, LoadFails, SaveRepeated, SaveFails, Again, callVars
    <3> QED BY <3>1, <3>2
  <2>3. \A k \in Call : outcome'[k] = "unsent" => outcome[k] = "unsent"
    BY <2>2, <1>1 DEF Reply
  <2> QED BY <2>1, <2>3, <1>2
<1> QED BY <1>3, <1>4, <1>5 DEF Next

\* What is on its way goes on as it is, whatever more is called.
LEMMA FollowsOn ==
  ASSUME NEW t, NEW n, Follows(t, n), Asked \subseteq Asked', UNCHANGED storedJobs
  PROVE  Timely(storedJobs', n) /\ Moves(storedJobs', t, n, Asked')
<1>1. Timely(storedJobs, n) /\ Moves(storedJobs, t, n, Asked)
  BY DEF Follows
<1>2. Moves(storedJobs, t, n, Asked')
  BY <1>1, MovesMore
<1> QED BY <1>1, <1>2

\* The fields of the calls that settle jobs.
LEMMA SettleFields ==
  ASSUME NEW r \in Request \cup {NoRequest}, r.kind \in {"heartbeat", "ack", "retry"}
  PROVE  r.consumer \in Consumer /\ (r.kind = "retry" => r.delay \in Delays)
<1>1. CASE r \in [kind : {"enqueue"}, count : JobId, delay : Delays]
  BY <1>1
<1>2. CASE r \in [kind : {"claim"}, consumer : Consumer, limit : JobId]
  BY <1>2
<1>3. CASE r \in [kind : {"heartbeat", "ack"}, consumer : Consumer, jobs : SUBSET JobId]
  BY <1>3
<1>4. CASE r \in [kind : {"retry"}, consumer : Consumer, jobs : SUBSET JobId, delay : Delays]
  BY <1>4
<1>5. CASE r = NoRequest
  BY <1>5 DEF NoRequest
<1> QED BY <1>1, <1>2, <1>3, <1>4, <1>5 DEF Request

\* A call by name of a job asks for it.
LEMMA CallAsks ==
  ASSUME NEW k \in Call, request[k].kind \in {"heartbeat", "ack", "retry"},
         NEW j \in request[k].jobs
  PROVE  <<request[k].kind, request[k].consumer, j>> \in Asked
<1>1. k \in {c \in Call : request[c].kind \in {"heartbeat", "ack", "retry"}}
  OBVIOUS
<1>2. <<request[k].kind, request[k].consumer, j>>
        \in {request[k].kind} \X {request[k].consumer} \X request[k].jobs
  OBVIOUS
<1> QED BY <1>1, <1>2 DEF Asked

\* One call of the batch applied.
LEMMA ApplyFollows ==
  ASSUME DurableInv, NEW m \in Manager, Apply(m), Timely(working[m], batchNow[m])
  PROVE  /\ Timely(working'[m], batchNow[m])
         /\ Follows(working[m], batchNow[m]) => Follows(working'[m], batchNow[m])
<1> DEFINE k == pending[m][applied[m] + 1]
           t == working[m]
           n == batchNow[m]
<1>1. /\ TypeOK /\ IsTable(t) /\ n \in Nat /\ IsTable(storedJobs) /\ issued \in Nat
      /\ working = [x \in Manager |-> working[x]]
      /\ DOMAIN storedJobs \subseteq 1 .. issued
  BY DEF DurableInv, TypeOK, SupplyInv
<1>2. k \in Call /\ request[k] \in Request \cup {NoRequest}
  <2>1. /\ pending[m] \in Seq(Call) /\ applied[m] \in Nat
        /\ request \in [Call -> Request \cup {NoRequest}]
    BY <1>1 DEF TypeOK
  <2>2. applied[m] + 1 \in 1 .. Len(pending[m])
    BY <2>1 DEF Apply
  <2> QED BY <2>1, <2>2
<1> SUFFICES ASSUME NEW s, IsTable(s), DOMAIN s \subseteq 1 .. issued, Moves(s, t, n, Asked)
             PROVE  Moves(s, working'[m], n, Asked) /\ Timely(working'[m], n)
  <2>1. Moves(NoJobs, t, n, Asked) /\ DOMAIN NoJobs \subseteq 1 .. issued /\ IsTable(NoJobs)
    BY NoJobsTable DEF Moves, NoJobs
  <2> QED BY <2>1, <1>1 DEF Follows
<1>3. CASE outcome[k] # "waiting"
  BY <1>3 DEF Apply
<1>4. CASE Enqueue(m, k)
  <2>1. request[k].count \in JobId
    BY <1>4, <1>2, RequestFields DEF Enqueue
  <2>2. working'[m] = AddJobs(t, k, issued, n)
    BY <1>4, <1>1 DEF Enqueue
  <2> QED BY <2>1, <2>2, <1>1, <1>2, AddMoves
<1>5. CASE Claim(m, k)
  <2> DEFINE S == Oldest(Claimable(t, n), request[k].limit)
  <2>1. S \subseteq Claimable(t, n)
    BY DEF Oldest
  <2>2. working'[m] = ClaimJobs(t, S, request[k].consumer, n)
    BY <1>5, <1>1 DEF Claim
  <2> HIDE DEF S
  <2> QED BY <2>1, <2>2, <1>1, ClaimMoves
<1>6. CASE Settle(m, k)
  <2> DEFINE S == HeldJobs(t, k)
  <2>1. S \subseteq DOMAIN t /\ \A j \in S : t[j].holder = request[k].consumer
    BY DEF HeldJobs
  <2>2. request[k].consumer \in Consumer /\ (request[k].kind = "retry" => request[k].delay \in Delays)
    <3>1. request[k].kind \in {"heartbeat", "ack", "retry"}
      BY <1>6 DEF Settle
    <3> QED BY <3>1, <1>2, SettleFields
  <2>3. \A j \in S : Asks(request[k].kind, j, t[j], Asked)
    <3>1. \A j \in S : <<request[k].kind, request[k].consumer, j>> \in Asked
      <4>1. S \subseteq request[k].jobs
        BY DEF HeldJobs
      <4>2. request[k].kind \in {"heartbeat", "ack", "retry"}
        BY <1>6 DEF Settle
      <4> HIDE DEF S
      <4> QED BY <1>2, <4>1, <4>2, CallAsks
    <3> QED BY <2>1, <2>2, <3>1 DEF Asks
  <2> HIDE DEF S
  <2>4. CASE request[k].kind = "heartbeat"
    <3>1. working'[m] = HeartbeatJobs(t, S, n)
      BY <1>6, <2>4, <1>1 DEF Settle, S
    <3> QED BY <3>1, <2>1, <2>3, <2>4, <1>1, HeartbeatMoves
  <2>5. CASE request[k].kind = "ack"
    <3>1. working'[m] = RemoveJobs(t, S)
      BY <1>6, <2>5, <1>1 DEF Settle, S
    <3> QED BY <3>1, <2>1, <2>3, <2>5, <1>1, RemoveMoves
  <2>6. CASE request[k].kind = "retry"
    <3>1. working'[m] = RetryJobs(t, S, request[k].delay, n)
      BY <1>6, <2>6, <1>1 DEF Settle, S
    <3>2. request[k].delay \in Delays
      BY <2>2, <2>6
    <3>3. ASSUME NEW d \in Delays
          PROVE  Moves(s, RetryJobs(t, S, d, n), n, Asked) /\ Timely(RetryJobs(t, S, d, n), n)
      BY <2>1, <2>3, <2>6, <1>1, RetryMoves
    <3> QED BY <3>1, <3>2, <3>3
  <2> QED BY <1>6, <2>4, <2>5, <2>6 DEF Settle
<1> QED BY <1>3, <1>4, <1>5, <1>6 DEF Apply

\* A Manager that takes no step keeps its part of the invariant.
LEMMA BatchKept ==
  ASSUME DurableInv, PromiseInv, NEW m \in Manager, now' \in Nat, now <= now',
         Asked \subseteq Asked',
         UNCHANGED <<storedJobs, storedEtag>> \/ storedEtag' = storedEtag + 1,
         UNCHANGED <<phase[m], etag[m], state[m], working[m], batchNow[m]>>
  PROVE  BatchOK(m)'
<1>1. /\ TypeOK /\ now \in Nat /\ storedEtag \in Nat /\ batchNow[m] \in Nat
      /\ IsTable(state[m]) /\ etag[m] \in Nat
  BY CountersType DEF DurableInv, TypeOK
<1>2. BatchOK(m)
  BY DEF PromiseInv
<1>3. Timely(state[m], now')
  <2>1. \A j \in DOMAIN state[m] : state[m][j].heartbeatAt \in Nat
    BY <1>1 DEF IsTable, Job
  <2> QED BY <2>1, <1>1, <1>2 DEF BatchOK, Timely
<1>4. phase[m] \in {"apply", "landed"} => batchNow[m] <= now' /\ Timely(working[m], batchNow[m])
  BY <1>1, <1>2 DEF BatchOK
<1>5. ASSUME phase[m] = "apply", etag[m] = storedEtag'
      PROVE  Follows(working[m], batchNow[m])'
  <2>1. etag[m] <= storedEtag
    BY <1>5 DEF DurableInv, ManagersInv, ApplyOK, CloneInv
  <2>2. UNCHANGED <<storedJobs, storedEtag>>
    BY <2>1, <1>1, <1>5
  <2>3. Follows(working[m], batchNow[m])
    BY <2>2, <1>2, <1>5 DEF BatchOK
  <2>4. Timely(storedJobs', batchNow[m]) /\ Moves(storedJobs', working[m], batchNow[m], Asked')
    BY <2>2, <2>3, FollowsOn
  <2> QED BY <2>4 DEF Follows, Timely
<1> QED BY <1>3, <1>4, <1>5 DEF BatchOK, Timely

\* So does a PUT on its way.
LEMMA PutKept ==
  ASSUME DurableInv, PromiseInv, NEW p \in stray, now' \in Nat, now <= now',
         Asked \subseteq Asked',
         UNCHANGED <<storedJobs, storedEtag>> \/ storedEtag' = storedEtag + 1
  PROVE  PutOK(p)'
<1>1. /\ TypeOK /\ now \in Nat /\ storedEtag \in Nat /\ IsPut(p)
  BY CountersType DEF DurableInv, TypeOK
<1>2. PutOK(p)
  BY DEF PromiseInv
<1>3. Timely(p.jobs, now')
  <2>1. \A j \in DOMAIN p.jobs : p.jobs[j].heartbeatAt \in Nat
    BY <1>1 DEF IsPut, IsTable, Job
  <2> QED BY <2>1, <1>1, <1>2 DEF PutOK, Timely
<1>4. ASSUME p.etag = storedEtag'
      PROVE  \E n \in Nat : n <= now' /\ Follows(p.jobs, n)'
  <2>1. p.etag <= storedEtag /\ p.etag \in Nat
    BY <1>1 DEF DurableInv, StrayInv, CloneInv, IsPut
  <2>2. UNCHANGED <<storedJobs, storedEtag>>
    BY <2>1, <1>1, <1>4
  <2>3. PICK n \in Nat : n <= now /\ Follows(p.jobs, n)
    BY <2>2, <1>2, <1>4 DEF PutOK
  <2>4. n <= now' /\ Timely(storedJobs', n) /\ Moves(storedJobs', p.jobs, n, Asked')
    BY <2>2, <2>3, <1>1, FollowsOn
  <2> QED BY <2>4 DEF Follows, Timely
<1> QED BY <1>3, <1>4 DEF PutOK, Timely

\* A step disturbs one Manager, the store, and the PUTs it sends.
LEMMA PromiseKept ==
  ASSUME DurableInv, PromiseInv, NEW M \in SUBSET Manager, now' \in Nat, now <= now',
         Asked \subseteq Asked',
         UNCHANGED <<storedJobs, storedEtag>> \/ storedEtag' = storedEtag + 1,
         storedJobs' = storedJobs \/ Timely(storedJobs, now)',
         \A m \in M : UNCHANGED <<phase[m], etag[m], state[m], working[m], batchNow[m]>>,
         \A m \in Manager \ M : BatchOK(m)',
         \A p \in stray' \ stray : PutOK(p)'
  PROVE  PromiseInv'
<1>1. Timely(storedJobs, now)'
  <2>1. CASE storedJobs' = storedJobs
    <3>1. now \in Nat /\ \A j \in DOMAIN storedJobs : storedJobs[j].heartbeatAt \in Nat
      BY CountersType DEF DurableInv, TypeOK, IsTable, Job
    <3>2. Timely(storedJobs, now)
      BY DEF PromiseInv
    <3> QED BY <2>1, <3>1, <3>2 DEF Timely
  <2> QED BY <2>1
<1>2. \A m \in Manager : BatchOK(m)'
  BY BatchKept
<1>3. \A p \in stray' : PutOK(p)'
  BY PutKept
<1> QED BY <1>1, <1>2, <1>3 DEF PromiseInv

\* The same, when only m has moved.
LEMMA OnePromise ==
  ASSUME DurableInv, PromiseInv, NEW m \in Manager, now' = now,
         Asked \subseteq Asked',
         UNCHANGED <<storedJobs, storedEtag>> \/ storedEtag' = storedEtag + 1,
         storedJobs' = storedJobs \/ Timely(storedJobs, now)',
         \A n \in Manager \ {m} :
           UNCHANGED <<phase[n], etag[n], state[n], working[n], batchNow[n]>>,
         BatchOK(m)', \A p \in stray' \ stray : PutOK(p)'
  PROVE  PromiseInv'
<1> DEFINE M == Manager \ {m}
<1>1. now' \in Nat /\ now <= now'
  BY CountersType DEF DurableInv
<1>2. ASSUME NEW n \in Manager \ M PROVE BatchOK(n)'
  <2>1. n = m
    OBVIOUS
  <2> QED BY <2>1
<1>3. \A n \in M : UNCHANGED <<phase[n], etag[n], state[n], working[n], batchNow[n]>>
  OBVIOUS
<1>4. M \in SUBSET Manager
  OBVIOUS
<1> HIDE DEF M
<1> QED BY <1>1, <1>2, <1>3, <1>4, PromiseKept

\* The callers and the clock.
LEMMA CallersPromise ==
  ASSUME DurableInv, PromiseInv, Asked \subseteq Asked',
         \/ \E k \in Call : GiveUp(k) \/ \E m \in Manager : Submit(k, m)
         \/ Tick
         \/ UNCHANGED vars
  PROVE  PromiseInv'
<1>1. now \in Nat
  BY CountersType DEF DurableInv
<1>2. now' \in Nat /\ now <= now'
  BY <1>1 DEF GiveUp, Submit, Tick, vars
<1>3. UNCHANGED <<storedJobs, storedEtag, stray, phase, etag, state, working, batchNow>>
  BY DEF GiveUp, Submit, Tick, vars, storeVars, cacheVars, batchVars
<1> QED BY <1>2, <1>3, PromiseKept

\* A Manager gathers a batch, loads the table, clones it, applies a call.
LEMMA BatchPromise ==
  ASSUME DurableInv, PromiseInv, Asked \subseteq Asked', NEW m \in Manager,
         Collect(m) \/ Load(m) \/ Begin(m) \/ Apply(m)
  PROVE  PromiseInv'
<1> USE DEF storeVars, cacheVars, batchVars
<1>1. /\ TypeOK /\ now \in Nat
      /\ phase \in [Manager -> {"idle", "start", "apply", "landed"}]
      /\ etag \in [Manager -> Nat] /\ batchNow \in [Manager -> Nat]
      /\ state = [n \in Manager |-> state[n]] /\ working = [n \in Manager |-> working[n]]
      /\ UNCHANGED <<now, storedJobs, storedEtag, stray>>
      /\ BatchOK(m) /\ CacheOK(m)
  BY CountersType DEF DurableInv, PromiseInv, ManagersInv, TypeOK, Collect, Load, Begin, Apply
<1>2. \A n \in Manager \ {m} : UNCHANGED <<phase[n], etag[n], state[n], working[n], batchNow[n]>>
  <2>1. CASE Collect(m)
    BY <2>1, <1>1 DEF Collect
  <2>2. CASE Load(m)
    BY <2>2, <1>1 DEF Load
  <2>3. CASE Begin(m)
    BY <2>3, <1>1 DEF Begin
  <2>4. CASE Apply(m)
    <3>1. UNCHANGED <<phase, etag, state, batchNow>>
      BY <2>4 DEF Apply
    <3>2. \A n \in Manager \ {m} : working'[n] = working[n]
      BY <2>4, <1>1 DEF Apply, Enqueue, Claim, Settle
    <3> QED BY <3>1, <3>2
  <2> QED BY <2>1, <2>2, <2>3, <2>4
<1>3. BatchOK(m)'
  <2>1. CASE Collect(m)
    <3>1. phase'[m] = "start" /\ UNCHANGED <<state, now>>
      BY <2>1, <1>1 DEF Collect
    <3> QED BY <3>1, <1>1 DEF BatchOK, Timely
  <2>2. CASE Load(m)
    <3>1. phase'[m] = "start" /\ state'[m] = storedJobs /\ now' = now
      BY <2>2, <1>1 DEF Load
    <3> QED BY <3>1 DEF BatchOK, Timely, PromiseInv
  <2>3. CASE Begin(m)
    <3>1. /\ working'[m] = state[m] /\ batchNow'[m] = now /\ loaded[m]
          /\ UNCHANGED <<state, etag, now, storedJobs, storedEtag>>
      BY <2>3, <1>1 DEF Begin
    <3>2. Timely(state[m], now) /\ Timely(storedJobs, now)
      BY <1>1 DEF BatchOK, PromiseInv
    <3>3. etag[m] = storedEtag => Moves(storedJobs, state[m], now, Asked')
      BY <3>1, <1>1, CloneMoves DEF CacheOK
    <3> QED BY <3>1, <3>2, <3>3, <1>1 DEF BatchOK, Follows, Timely
  <2>4. CASE Apply(m)
    <3>1. phase[m] = "apply" /\ UNCHANGED <<phase, etag, state, batchNow, now, storedJobs, storedEtag>>
      BY <2>4 DEF Apply
    <3>2. Timely(working[m], batchNow[m]) /\ batchNow[m] <= now
      BY <3>1, <1>1 DEF BatchOK
    <3>3. /\ Timely(working'[m], batchNow[m])
          /\ Follows(working[m], batchNow[m]) => Follows(working'[m], batchNow[m])
      BY <2>4, <3>2, ApplyFollows
    <3>4. etag[m] = storedEtag => Follows(working'[m], batchNow[m])
      BY <3>1, <3>3, <1>1 DEF BatchOK
    <3>5. etag[m] = storedEtag => /\ Timely(storedJobs', batchNow[m])
                                  /\ Moves(storedJobs', working'[m], batchNow[m], Asked')
      BY <3>1, <3>4, FollowsOn
    <3> QED BY <3>1, <3>2, <3>3, <3>5, <1>1 DEF BatchOK, Follows, Timely
  <2> QED BY <2>1, <2>2, <2>3, <2>4
<1>4. \A p \in stray' \ stray : PutOK(p)'
  BY <1>1
<1> QED BY <1>1, <1>2, <1>3, <1>4, OnePromise

\* A batch ends: the cache is what it was, empty, or the clone that landed; the
\* PUT that may be left on its way was the clone of an unfinished save.
LEMMA EndPromise ==
  ASSUME DurableInv, PromiseInv, Asked \subseteq Asked', NEW m \in Manager,
         LoadFails(m) \/ ReplyUnchanged(m) \/ SaveConfirmed(m) \/ SaveFails(m) \/ Crash(m)
  PROVE  PromiseInv'
<1> USE DEF storeVars, cacheVars
<1>1. /\ TypeOK /\ now \in Nat /\ BatchOK(m)
      /\ phase \in [Manager -> {"idle", "start", "apply", "landed"}]
      /\ etag \in [Manager -> Nat] /\ batchNow \in [Manager -> Nat]
      /\ state = [n \in Manager |-> state[n]] /\ working = [n \in Manager |-> working[n]]
      /\ IsTable(working[m])
  BY CountersType DEF DurableInv, PromiseInv, TypeOK
<1>2. /\ UNCHANGED <<now, storedJobs, storedEtag>>
      /\ EndBatch(m)
  BY DEF LoadFails, ReplyUnchanged, SaveConfirmed, SaveFails, Crash
<1>3. /\ phase'[m] = "idle"
      /\ \A n \in Manager \ {m} : UNCHANGED <<phase[n], working[n], batchNow[n]>>
  BY <1>1, <1>2 DEF EndBatch
<1>4. /\ \A n \in Manager \ {m} : UNCHANGED <<etag[n], state[n]>>
      /\ \/ state'[m] = state[m]
         \/ state'[m] = NoJobs
         \/ phase[m] = "landed" /\ state'[m] = working[m]
  <2>1. CASE LoadFails(m) \/ SaveFails(m)
    BY <2>1 DEF LoadFails, SaveFails
  <2>2. CASE ReplyUnchanged(m) \/ Crash(m)
    BY <2>2, <1>1 DEF ReplyUnchanged, Crash, DropCache
  <2>3. CASE SaveConfirmed(m)
    BY <2>3, <1>1 DEF SaveConfirmed
  <2> QED BY <2>1, <2>2, <2>3
<1>5. Timely(working[m], batchNow[m]) /\ batchNow[m] <= now => Timely(working[m], now)
  <2>1. \A j \in DOMAIN working[m] : working[m][j].heartbeatAt \in Nat
    BY <1>1 DEF IsTable, Job
  <2>2. batchNow[m] \in Nat
    BY <1>1
  <2> QED BY <2>1, <2>2, <1>1 DEF Timely
<1>6. Timely(state[m], now)'
  <2>1. CASE state'[m] = state[m]
    BY <2>1, <1>1, <1>2 DEF BatchOK, Timely
  <2>2. CASE state'[m] = NoJobs
    BY <2>2 DEF Timely, NoJobs
  <2>3. CASE phase[m] = "landed" /\ state'[m] = working[m]
    BY <2>3, <1>1, <1>2, <1>5 DEF BatchOK, Timely
  <2> QED BY <2>1, <2>2, <2>3, <1>4
<1>7. BatchOK(m)'
  BY <1>3, <1>6 DEF BatchOK
<1>8. ASSUME NEW p \in stray' \ stray PROVE PutOK(p)'
  <2>1. Saving(m) /\ p.etag = etag[m] /\ p.jobs = working[m]
    BY <1>8 DEF LoadFails, ReplyUnchanged, SaveConfirmed, SaveFails, Crash
  <2>2. phase[m] = "apply"
    BY <2>1 DEF Saving, AllApplied
  <2>3. batchNow[m] \in Nat /\ batchNow[m] <= now /\ Timely(working[m], now)
    BY <2>2, <1>1, <1>5 DEF BatchOK
  <2>4. etag[m] = storedEtag => Follows(working[m], batchNow[m])
    BY <2>2, <1>1 DEF BatchOK
  <2>5. etag[m] = storedEtag => /\ Timely(storedJobs', batchNow[m])
                                /\ Moves(storedJobs', working[m], batchNow[m], Asked')
    BY <2>4, <1>2, FollowsOn
  <2> QED BY <2>1, <2>3, <2>5, <1>2 DEF PutOK, Follows, Timely
<1>9. \A n \in Manager \ {m} :
        UNCHANGED <<phase[n], etag[n], state[n], working[n], batchNow[n]>>
  BY <1>3, <1>4
<1> QED BY <1>2, <1>7, <1>8, <1>9, OnePromise

\* A save: the clone is stored, or the batch starts again.
LEMMA SavePromise ==
  ASSUME DurableInv, PromiseInv, Asked \subseteq Asked', NEW m \in Manager,
         SaveLands(m) \/ SaveRefused(m) \/ SaveRepeated(m)
  PROVE  PromiseInv'
<1> USE DEF storeVars, cacheVars, batchVars
<1>1. /\ TypeOK /\ now \in Nat /\ BatchOK(m) /\ now' = now /\ stray' = stray
      /\ phase \in [Manager -> {"idle", "start", "apply", "landed"}]
      /\ etag \in [Manager -> Nat] /\ batchNow \in [Manager -> Nat]
      /\ state = [n \in Manager |-> state[n]]
      /\ IsTable(working[m])
  BY CountersType DEF DurableInv, PromiseInv, TypeOK, SaveLands, SaveRefused, SaveRepeated
<1>2. \A n \in Manager \ {m} :
        UNCHANGED <<phase[n], etag[n], state[n], working[n], batchNow[n]>>
  BY <1>1 DEF SaveLands, SaveRefused, SaveRepeated, Again, DropCache
<1>3. CASE SaveLands(m)
  <2>1. /\ phase[m] = "apply" /\ phase'[m] = "landed"
        /\ UNCHANGED <<state, working, batchNow>>
        /\ storedEtag' = storedEtag + 1 /\ storedJobs' = working[m]
    BY <1>3, <1>1 DEF SaveLands, Saving, AllApplied, Lands
  <2>2. batchNow[m] \in Nat /\ batchNow[m] <= now /\ Timely(working[m], batchNow[m])
    BY <2>1, <1>1 DEF BatchOK
  <2>3. \A j \in DOMAIN working[m] : working[m][j].heartbeatAt \in Nat
    BY <1>1 DEF IsTable, Job
  <2>4. Timely(storedJobs, now)'
    BY <2>1, <2>2, <2>3, <1>1 DEF Timely
  <2>5. BatchOK(m)'
    BY <2>1, <2>2, <1>1 DEF BatchOK, Timely
  <2>6. \A p \in stray' \ stray : PutOK(p)'
    BY <1>1
  <2> QED BY <2>1, <2>4, <2>5, <2>6, <1>1, <1>2, OnePromise
<1>4. CASE SaveRefused(m) \/ SaveRepeated(m)
  <2>1. /\ phase'[m] = "start" /\ state'[m] = NoJobs
        /\ UNCHANGED <<storedJobs, storedEtag>>
    BY <1>4, <1>1 DEF SaveRefused, SaveRepeated, Again, DropCache
  <2>2. BatchOK(m)'
    BY <2>1 DEF BatchOK, Timely, NoJobs
  <2>3. \A p \in stray' \ stray : PutOK(p)'
    BY <1>1
  <2> QED BY <2>1, <2>2, <2>3, <1>1, <1>2, OnePromise
<1> QED BY <1>3, <1>4

\* A PUT arrives whose sender no longer waits for it.
LEMMA StrayPromise ==
  ASSUME DurableInv, PromiseInv, Asked \subseteq Asked', StrayArrives
  PROVE  PromiseInv'
<1> USE DEF cacheVars, batchVars
<1>1. /\ now \in Nat /\ now' = now
      /\ UNCHANGED <<phase, etag, state, working, batchNow>>
  BY CountersType DEF DurableInv, StrayArrives
<1>2. PICK p \in stray :
        /\ stray' = stray \ {p}
        /\ \/ Lands(p.etag, p.jobs, p.acking)
           \/ UNCHANGED <<storedJobs, storedEtag>>
  BY DEF StrayArrives
<1>3. UNCHANGED <<storedJobs, storedEtag>> \/ storedEtag' = storedEtag + 1
  BY <1>2 DEF Lands
<1>4. storedJobs' = storedJobs \/ Timely(storedJobs, now)'
  BY <1>1, <1>2 DEF PromiseInv, PutOK, Lands, Timely
<1>5. \A q \in stray' \ stray : PutOK(q)'
  BY <1>2
<1>6. now' \in Nat /\ now <= now'
  BY <1>1
<1> QED BY <1>1, <1>3, <1>4, <1>5, <1>6, PromiseKept

\* PromiseInv is inductive, given DurableInv.
LEMMA NextPromise == DurableInv /\ Unsent /\ PromiseInv /\ [Next]_vars => Unsent' /\ PromiseInv'
<1> SUFFICES ASSUME DurableInv, Unsent, PromiseInv, [Next]_vars PROVE Unsent' /\ PromiseInv'
  OBVIOUS
<1>4. Unsent' /\ Asked \subseteq Asked'
  BY AskedGrows DEF DurableInv
<1> SUFFICES PromiseInv'
  BY <1>4
<1>1. CASE \/ \E k \in Call : GiveUp(k) \/ \E m \in Manager : Submit(k, m)
           \/ Tick
           \/ UNCHANGED vars
  BY <1>1, <1>4, CallersPromise
<1>2. CASE StrayArrives
  BY <1>2, <1>4, StrayPromise
<1>3. ASSUME NEW m \in Manager, Step(m) \/ Fault(m) PROVE PromiseInv'
  <2>1. CASE Collect(m) \/ Load(m) \/ Begin(m) \/ Apply(m)
    BY <2>1, <1>4, BatchPromise
  <2>2. CASE \/ LoadFails(m) \/ ReplyUnchanged(m) \/ SaveConfirmed(m)
             \/ SaveFails(m) \/ Crash(m)
    BY <2>2, <1>4, EndPromise
  <2>3. CASE SaveLands(m) \/ SaveRefused(m) \/ SaveRepeated(m)
    BY <2>3, <1>4, SavePromise
  <2> QED BY <1>3, <2>1, <2>2, <2>3 DEF Step, Fault
<1> QED BY <1>1, <1>2, <1>3 DEF Next

\* PromiseInv holds at the start.
LEMMA InitPromise == Init => Unsent /\ PromiseInv
BY DEF Init, Unsent, PromiseInv, BatchOK, PutOK, Timely, NoJobs

\* The second invariant always holds.
THEOREM AlwaysTimely == Spec => [](Unsent /\ PromiseInv)
BY AlwaysDurable, InitPromise, NextPromise, PTL DEF Spec

-----------------------------------------------------------------------------
(***************************************************************************)
(* The refinement: what a batch did at its clock n, seen at any clock from *)
(* n on, is a step of JobPromise.                                          *)
(***************************************************************************)

Seen(b) ==
  [item |-> b.item, holder |-> b.holder, wait |-> Left(b.availableAt),
   lease |-> IF b.holder = NoConsumer THEN 0 ELSE Left(b.heartbeatAt + Lease)]

\* Promised is the stored table, seen job by job.
LEMMA PromisedSeen ==
  /\ DOMAIN Promised = DOMAIN storedJobs
  /\ \A j \in DOMAIN storedJobs : Promised[j] = Seen(storedJobs[j])
BY DEF Promised, Seen

\* Whoever holds a job in the stored table holds it in the one that is seen.
LEMMA AskedSeen ==
  ASSUME NEW j \in DOMAIN storedJobs, NEW kind
  PROVE  Table!HolderAsked(kind, j) <=> Asks(kind, j, storedJobs[j], Asked)
<1>1. Promised[j].holder = storedJobs[j].holder
  BY PromisedSeen DEF Seen
<1> QED BY <1>1 DEF Table!HolderAsked, Asks

\* What was free at n is free now.
LEMMA TakenSeen ==
  ASSUME now \in Nat, NEW n \in Nat, n <= now, NEW j \in DOMAIN storedJobs,
         storedJobs[j] \in Job, Takeable(j, storedJobs[j], n, Asked)
  PROVE  Table!MayBeTaken(j)
<1> DEFINE b == storedJobs[j]
<1>1. b.availableAt \in Nat /\ b.heartbeatAt \in Nat /\ Lease \in Nat
  BY DEF Job
<1>2. CASE Free(b, n)
  <2>1. Left(b.availableAt) = 0
    BY <1>1, <1>2 DEF Free, Left
  <2>2. b.holder # NoConsumer => Left(b.heartbeatAt + Lease) = 0
    BY <1>1, <1>2 DEF Free, Left
  <2>3. Table!Claimable(Seen(b))
    BY <2>1, <2>2 DEF Seen, Table!Claimable
  <2> QED BY <2>3, PromisedSeen DEF Table!MayBeTaken
<1>3. CASE 0 \in Delays /\ Asks("retry", j, b, Asked)
  BY <1>3, AskedSeen DEF Table!MayBeTaken
<1> QED BY <1>2, <1>3 DEF Takeable

\* What was put off by d has no more than d left.
LEMMA LeftOfDelay ==
  ASSUME now \in Nat, NEW n \in Nat, n <= now, NEW d \in Nat
  PROVE  Left(n + d) <= d
BY DEF Left

\* What a batch turned b into at n is, now, what b may become.
LEMMA TurnsSeen ==
  ASSUME now \in Nat, NEW n \in Nat, n <= now, NEW j \in DOMAIN storedJobs,
         NEW b \in Job, b = storedJobs[j], NEW a \in Job,
         b.heartbeatAt <= n, Turns(j, b, a, n, Asked)
  PROVE  Table!MayBecome(j, Seen(a))
<1>1. b.heartbeatAt \in Nat /\ Lease \in Nat
  BY DEF Job
<1>2. Seen(a).item = Seen(b).item /\ Promised[j] = Seen(b)
  BY PromisedSeen DEF Turns, Seen
<1>3. CASE a = b
  BY <1>3, <1>2 DEF Table!MayBecome
<1>4. CASE Renews(j, b, a, n, Asked)
  <2>1. /\ Seen(b).holder = b.holder /\ Seen(a).holder = b.holder
        /\ Seen(a).wait = Seen(b).wait
        /\ Seen(b).lease = Left(b.heartbeatAt + Lease) /\ Seen(a).lease = Left(n + Lease)
    BY <1>4 DEF Renews, Asks, Seen
  <2>2. Left(n + Lease) \in Left(b.heartbeatAt + Lease) .. Lease
    BY <1>1 DEF Left
  <2>3. Table!HolderAsked("heartbeat", j)
    BY <1>4, AskedSeen DEF Renews
  <2> QED BY <1>2, <2>1, <2>2, <2>3 DEF Table!MayBecome
<1>5. CASE Returns(j, b, a, n, Asked)
  <2>1. PICK d \in Delays : a.availableAt = n + d
    BY <1>5 DEF Returns
  <2>2. d \in Nat /\ Left(a.availableAt) <= d
    BY <2>1, LeftOfDelay
  <2>3. Seen(a).holder = NoConsumer /\ Seen(a).lease = 0 /\ Seen(a).wait <= d
    BY <1>5, <2>2 DEF Returns, Seen
  <2>4. Table!HolderAsked("retry", j)
    BY <1>5, AskedSeen DEF Returns
  <2> QED BY <1>2, <2>3, <2>4 DEF Table!MayBecome
<1>6. CASE Takeable(j, b, n, Asked)
  BY <1>2, <1>6, TakenSeen DEF Table!MayBecome
<1> QED BY <1>3, <1>4, <1>5, <1>6 DEF Turns

\* A table that follows from the stored one replaces it in one batch.
LEMMA LandingSeen ==
  ASSUME DurableInv, now' = now, Asked' = Asked, NEW t, IsTable(t), storedJobs' = t,
         NEW n \in Nat, n <= now, Follows(t, n)
  PROVE  Table!Batch
<1> DEFINE s == storedJobs
<1>1. /\ now \in Nat /\ IsTable(s) /\ Moves(s, t, n, Asked) /\ Timely(s, n)
      /\ \A j \in DOMAIN s : s[j] \in Job
      /\ \A j \in DOMAIN t : t[j] \in Job
  BY CountersType DEF DurableInv, TypeOK, Follows, IsTable
<1>2. DOMAIN Promised = DOMAIN s
  BY PromisedSeen
<1>3. /\ DOMAIN Promised' = DOMAIN t
      /\ \A j \in DOMAIN t : Promised'[j] = Seen(t[j])
  BY DEF Promised, Seen, Left
<1>4. ASSUME NEW j \in DOMAIN s \cap DOMAIN t
      PROVE  Table!MayBecome(j, Promised'[j])
  <2>1. /\ s[j] \in Job /\ t[j] \in Job /\ s[j].heartbeatAt <= n
        /\ Turns(j, s[j], t[j], n, Asked)
    BY <1>1 DEF Timely, Moves
  <2>2. Table!MayBecome(j, Seen(t[j]))
    BY <2>1, <1>1, TurnsSeen
  <2> QED BY <2>2, <1>3
<1>5. ASSUME NEW j \in DOMAIN s \ DOMAIN t
      PROVE  Table!HolderAsked("ack", j) \/ Table!MayBeTaken(j)
  <2>1. s[j] \in Job /\ (Asks("ack", j, s[j], Asked) \/ Takeable(j, s[j], n, Asked))
    BY <1>1 DEF Moves
  <2>2. Takeable(j, s[j], n, Asked) => Table!MayBeTaken(j)
    BY <2>1, <1>1, TakenSeen
  <2>3. Asks("ack", j, s[j], Asked) => Table!HolderAsked("ack", j)
    BY AskedSeen
  <2> QED BY <2>1, <2>2, <2>3
<1> HIDE DEF s
<1> QED BY <1>2, <1>3, <1>4, <1>5 DEF Table!Batch

\* Older changes two fields.
LEMMA OlderFields ==
  ASSUME NEW i, NEW h, NEW w, NEW l
  PROVE  Table!Older([item |-> i, holder |-> h, wait |-> w, lease |-> l])
           = [item |-> i, holder |-> h, wait |-> Table!Less(w), lease |-> Table!Less(l)]
<1> DEFINE b == [item |-> i, holder |-> h, wait |-> w, lease |-> l]
           q == Table!Older(b)
<1>1. DOMAIN b = {"item", "holder", "wait", "lease"}
  OBVIOUS
<1>2. DOMAIN q = DOMAIN b /\ q = [f \in DOMAIN b |-> q[f]]
  BY DEF Table!Older
<1>3. q.item = i /\ q.holder = h /\ q.wait = Table!Less(w) /\ q.lease = Table!Less(l)
  BY DEF Table!Older
<1> HIDE DEF q
<1>4. q = [item |-> i, holder |-> h, wait |-> Table!Less(w), lease |-> Table!Less(l)]
  BY <1>1, <1>2, <1>3
<1> QED BY <1>4 DEF q

\* A tick of the clock makes every job older.
LEMMA TickSeen ==
  ASSUME DurableInv, Tick
  PROVE  Table!Wait
<1>1. now \in Nat /\ now' = now + 1 /\ storedJobs' = storedJobs
  BY CountersType DEF DurableInv, Tick, storeVars
<1>2. \A u \in Nat : Left(u)' = Table!Less(Left(u))
  BY <1>1 DEF Left, Table!Less
<1>3. ASSUME NEW j \in DOMAIN storedJobs
      PROVE  Seen(storedJobs[j])' = Table!Older(Seen(storedJobs[j]))
  <2> DEFINE b == storedJobs[j]
  <2>1. b.availableAt \in Nat /\ b.heartbeatAt + Lease \in Nat
    BY DEF DurableInv, TypeOK, IsTable, Job
  <2>2. Left(b.availableAt)' = Table!Less(Left(b.availableAt))
    BY <2>1, <1>1 DEF Left, Table!Less
  <2>3. Left(b.heartbeatAt + Lease)' = Table!Less(Left(b.heartbeatAt + Lease))
    BY <2>1, <1>1 DEF Left, Table!Less
  <2>4. Table!Less(0) = 0
    BY DEF Table!Less
  <2>5. Seen(b)' = [item |-> b.item, holder |-> b.holder, wait |-> Left(b.availableAt)',
                    lease |-> IF b.holder = NoConsumer THEN 0
                              ELSE Left(b.heartbeatAt + Lease)']
    BY <1>1 DEF Seen
  <2> HIDE DEF b
  <2>6. Table!Older(Seen(b)) =
          [item |-> b.item, holder |-> b.holder, wait |-> Table!Less(Left(b.availableAt)),
           lease |-> IF b.holder = NoConsumer THEN 0
                     ELSE Table!Less(Left(b.heartbeatAt + Lease))]
    <3>1. CASE b.holder = NoConsumer
      BY <3>1, <2>4, OlderFields DEF Seen
    <3>2. CASE b.holder # NoConsumer
      BY <3>2, OlderFields DEF Seen
    <3> QED BY <3>1, <3>2
  <2>7. Seen(b)' = Table!Older(Seen(b))
    BY <2>2, <2>3, <2>5, <2>6
  <2> QED BY <2>7 DEF b
<1>4. Promised = [j \in DOMAIN storedJobs |-> Seen(storedJobs[j])]
  BY DEF Promised, Seen
<1>5. Promised' = [j \in DOMAIN storedJobs |-> Seen(storedJobs[j])']
  BY <1>1 DEF Promised, Seen
<1>6. UNCHANGED Asked
  BY DEF Tick, callVars, Asked
<1> QED BY <1>3, <1>4, <1>5, <1>6 DEF Table!Wait, Table!Age

\* Every step of the Managers is a step of the table, or leaves it as it is.
LEMMA NextSeen ==
  DurableInv /\ Unsent /\ PromiseInv /\ [Next]_vars => [Table!TableNext]_<<Promised, Asked>>
<1> SUFFICES ASSUME DurableInv, Unsent, PromiseInv, [Next]_vars
             PROVE  Table!TableNext \/ UNCHANGED <<Promised, Asked>>
  OBVIOUS
<1> USE DEF storeVars, Table!TableNext
<1>1. UNCHANGED <<storedJobs, now>> => Promised' = Promised
  BY DEF Promised, Left
<1>2. request' = request => Asked' = Asked
  BY DEF Asked
<1>3. CASE Tick
  BY <1>3, TickSeen
<1>4. CASE StrayArrives
  <2>1. PICK p \in stray :
          Lands(p.etag, p.jobs, p.acking) \/ UNCHANGED storedJobs
    BY <1>4 DEF StrayArrives
  <2>2. now' = now /\ Asked' = Asked
    BY <1>4, <1>2 DEF StrayArrives, callVars
  <2>3. CASE Lands(p.etag, p.jobs, p.acking)
    <3>1. storedJobs' = p.jobs /\ p.etag = storedEtag /\ IsTable(p.jobs)
      BY <2>3 DEF Lands, DurableInv, TypeOK, IsPut
    <3>2. PICK n \in Nat : n <= now /\ Follows(p.jobs, n)
      BY <3>1 DEF PromiseInv, PutOK
    <3> QED BY <3>1, <3>2, <2>2, LandingSeen
  <2> QED BY <2>1, <2>2, <2>3, <1>1
<1>5. ASSUME NEW m \in Manager, SaveLands(m) PROVE Table!TableNext
  <2>1. /\ phase[m] = "apply" /\ etag[m] = storedEtag
        /\ storedJobs' = working[m] /\ now' = now /\ Asked' = Asked
    BY <1>5, <1>2 DEF SaveLands, Saving, AllApplied, Lands, callVars
  <2>2. IsTable(working[m]) /\ batchNow[m] \in Nat
    BY CountersType DEF DurableInv, TypeOK
  <2>3. batchNow[m] <= now /\ Follows(working[m], batchNow[m])
    BY <2>1 DEF PromiseInv, BatchOK
  <2> QED BY <2>1, <2>2, <2>3, LandingSeen
<1>6. CASE \/ \E k \in Call : GiveUp(k) \/ \E m \in Manager : Submit(k, m)
           \/ UNCHANGED vars
  <2>1. Promised' = Promised
    BY <1>6, <1>1 DEF GiveUp, Submit, vars
  <2>2. Asked \subseteq Asked'
    BY AskedGrows DEF DurableInv
  <2> QED BY <2>1, <2>2 DEF Table!Ask
<1>7. ASSUME NEW m \in Manager, Step(m) \/ Fault(m), ~SaveLands(m)
      PROVE  UNCHANGED <<Promised, Asked>>
  <2>1. CASE \/ Collect(m) \/ Load(m) \/ Begin(m) \/ Apply(m) \/ ReplyUnchanged(m)
             \/ SaveRefused(m) \/ SaveConfirmed(m)
    <3>1. Promised' = Promised
      BY <2>1, <1>1 DEF Collect, Load, Begin, Apply, ReplyUnchanged, SaveRefused, SaveConfirmed
    <3>2. Asked' = Asked
      BY <2>1, <1>2 DEF Collect, Load, Begin, Apply, ReplyUnchanged, SaveRefused, SaveConfirmed,
                        Again, callVars
    <3> QED BY <3>1, <3>2
  <2>2. CASE Fault(m)
    <3>1. Promised' = Promised
      BY <2>2, <1>1 DEF Fault, LoadFails, SaveRepeated, SaveFails, Crash
    <3>2. Asked' = Asked
      BY <2>2, <1>2 DEF Fault, LoadFails, SaveRepeated, SaveFails, Crash, Again, callVars
    <3> QED BY <3>1, <3>2
  <2> QED BY <1>7, <2>1, <2>2 DEF Step
<1> QED BY <1>3, <1>4, <1>5, <1>6, <1>7 DEF Next

\* With any number of Managers on the object, and whatever saves were refused,
\* failed, repeated or late, the stored queue moves only as its workers expect
\* of Claim, Heartbeat, Ack and Retry: until its lease is over, a job that a
\* consumer holds is renewed, returned or removed only where that consumer has
\* made the call for it, and is not taken by another unless it was returned
\* without a delay; and a job that no one holds waits out its delay.
THEOREM ManagersKeepPromises == Spec => KeepsPromises
<1>1. Init => Table!TableInit
  BY DEF Init, Table!TableInit, Promised, NoJobs, Asked, NoRequest
<1> QED
  BY <1>1, NextSeen, AlwaysDurable, AlwaysTimely, PTL
     DEF Spec, KeepsPromises, Table!TableSpec

-----------------------------------------------------------------------------
(***************************************************************************)
(* The inductive invariant behind AttemptFences and LeaseExclusive.  A     *)
(* grant is made when a call is applied, on a clone; it counts from the    *)
(* moment that clone is stored, which is before the caller hears of it.    *)
(***************************************************************************)

Grants(k) == request[k].kind \in {"claim", "heartbeat"}

\* The calls of the batch of m that have been applied and still wait.
Told(m) == {pending[m][i] : i \in 1 .. applied[m]} \cap {k \in Call : outcome[k] = "waiting" /\ Grants(k)}

\* The calls whose grants count.
Effective ==
  Answered("claim") \cup Answered("heartbeat")
  \cup UNION {Told(m) : m \in {n \in Manager : phase[n] = "landed"}}

\* The grant g of the call k is accounted for in the table t at time n: the job
\* is gone, or as it was granted or renewed, or it was put back, or its lease is
\* over and it has gone to someone else.
Accounts(k, g, t, n) == g.job \in DOMAIN t =>
  /\ g.at <= n
  /\ g.attempt <= t[g.job].attempt
  /\ \/ PutBack(k, g.job)
     \/ /\ t[g.job].attempt = g.attempt
        /\ t[g.job].holder = request[k].consumer /\ g.at <= t[g.job].heartbeatAt
     \/ g.attempt < t[g.job].attempt /\ g.at + Lease <= n

AccountsFor(K, t, n) == \A k \in K : \A g \in granted[k] : Accounts(k, g, t, n)

\* The grants g of k and h of l do not clash, whichever was first.
NoClash(k, g, l, h) == g.job = h.job =>
  /\ (request[k].kind = "claim" /\ request[l].kind = "claim") => g.attempt # h.attempt
  /\ (request[l].kind = "claim" /\ g.attempt < h.attempt) => h.at >= g.at + Lease \/ PutBack(k, g.job)

Apart(k, l) == \A g \in granted[k], h \in granted[l] : NoClash(k, g, l, h)

\* The calls K whose grants count and the calls L of a batch agree on its clone.
Agree(K, L, t, n) ==
  /\ AccountsFor(K \cup L, t, n)
  /\ \A k \in K \cup L, l \in L : k # l => Apart(k, l) /\ Apart(l, k)

\* A job is granted once by a call, and its id was issued before.
GrantsOK ==
  \A k \in Call : /\ \A g \in granted[k] : g.job <= issued
                  /\ \A g, h \in granted[k] : g.job = h.job => g = h

\* Calls that have not been sent have no part in anything.
UnsentOK == \A k \in Call : outcome[k] = "unsent" => request[k] = NoRequest /\ granted[k] = {}

\* A call is in the hands of one Manager.
Hands(m) == Batch(m) \cup {ops[m][i] : i \in DOMAIN ops[m]}
OneHand == \A m, n \in Manager : m # n => Hands(m) \cap Hands(n) = {}

BatchAccounts(m) ==
  /\ phase[m] = "apply" /\ ~mutated[m] => \A k \in Told(m) : granted[k] = {}
  /\ phase[m] = "apply" /\ etag[m] = storedEtag =>
       Agree(Effective, Told(m), working[m], batchNow[m])
  /\ phase[m] = "apply" => batchNow[m] <= now
  /\ phase[m] = "landed" => applied[m] = Len(pending[m])

StoredGrants ==
  /\ \A k, l \in Effective : k # l => Apart(k, l)
  /\ AccountsFor(Effective, storedJobs, now)

PutAccounts(p) == p.etag = storedEtag => AccountsFor(Effective, p.jobs, now)

GrantInv ==
  /\ GrantsOK /\ UnsentOK /\ OneHand
  /\ StoredGrants
  /\ \A m \in Manager : BatchAccounts(m)
  /\ \A p \in stray : PutAccounts(p)

-----------------------------------------------------------------------------
(***************************************************************************)
(* What the apply functions do to the account of a grant.                  *)
(***************************************************************************)

\* Time passes.
LEMMA AccountsLater ==
  ASSUME NEW k \in Call, NEW g \in Grant, NEW t, NEW n \in Nat, NEW n2 \in Nat, n <= n2,
         Accounts(k, g, t, n)
  PROVE  Accounts(k, g, t, n2)
<1>1. g.at \in Nat /\ Lease \in Nat
  BY DEF Grant
<1>2. g.at <= n => g.at <= n2
  BY <1>1
<1>3. g.at + Lease <= n => g.at + Lease <= n2
  BY <1>1
<1> QED BY <1>2, <1>3 DEF Accounts

\* A job that can be claimed was put back, or the grant's lease is over.
LEMMA ClaimWaits ==
  ASSUME NEW k \in Call, request[k].consumer \in Consumer, NEW g \in Grant,
         NEW t, IsTable(t), NEW n \in Nat, Accounts(k, g, t, n), g.job \in Claimable(t, n)
  PROVE  PutBack(k, g.job) \/ g.at + Lease <= n
<1>1. /\ g.job \in DOMAIN t /\ t[g.job].heartbeatAt \in Nat /\ g.at \in Nat /\ Lease \in Nat
      /\ t[g.job].holder = NoConsumer \/ n >= t[g.job].heartbeatAt + Lease
  BY DEF Claimable, IsTable, Job, Grant
<1>2. CASE t[g.job].holder = request[k].consumer /\ g.at <= t[g.job].heartbeatAt
  <2>1. n >= t[g.job].heartbeatAt + Lease
    BY <1>1, <1>2
  <2> QED BY <1>1, <1>2, <2>1
<1> QED BY <1>1, <1>2 DEF Accounts

\* Enqueue touches no job that was granted.
LEMMA AddAccounts ==
  ASSUME NEW k, NEW g \in Grant, NEW t, NEW n \in Nat, NEW r, NEW i \in Nat, NEW at,
         g.job <= i, Accounts(k, g, t, n)
  PROVE  Accounts(k, g, AddJobs(t, r, i, at), n)
<1> DEFINE u == AddJobs(t, r, i, at)
<1>1. DOMAIN u = DOMAIN t \cup (i + 1 .. i + request[r].count)
  BY DEF AddJobs
<1>2. \A j \in DOMAIN t : u[j] = t[j]
  BY DEF AddJobs
<1>3. g.job \in DOMAIN u => g.job \in DOMAIN t
  <2>1. g.job \in Nat
    BY DEF Grant, JobId
  <2> QED BY <2>1, <1>1
<1> HIDE DEF u
<1> QED BY <1>2, <1>3 DEF Accounts, u

\* Claim takes a job only when it was put back or its lease is over.
LEMMA ClaimAccounts ==
  ASSUME NEW k \in Call, request[k].consumer \in Consumer, NEW g \in Grant,
         NEW t, IsTable(t), NEW n \in Nat, NEW c, NEW S \in SUBSET Claimable(t, n),
         Accounts(k, g, t, n)
  PROVE  Accounts(k, g, ClaimJobs(t, S, c, n), n)
<1> DEFINE u == ClaimJobs(t, S, c, n)
<1>1. DOMAIN u = DOMAIN t
  BY DEF ClaimJobs
<1>2. \A j \in DOMAIN t \ S : u[j] = t[j]
  BY DEF ClaimJobs
<1>3. \A j \in DOMAIN t \cap S : t[j].attempt \in Nat /\ u[j].attempt = t[j].attempt + 1
  BY DEF ClaimJobs, IsTable, Job
<1> HIDE DEF u
<1> SUFFICES ASSUME g.job \in DOMAIN t PROVE Accounts(k, g, u, n)
  BY <1>1 DEF Accounts, u
<1>4. CASE g.job \notin S
  BY <1>1, <1>2, <1>4 DEF Accounts
<1>5. CASE g.job \in S
  <2>1. g.at <= n /\ g.attempt <= t[g.job].attempt
    BY DEF Accounts
  <2>2. g.attempt < u[g.job].attempt /\ g.attempt <= u[g.job].attempt
    <3>1. g.attempt \in Nat /\ t[g.job].attempt \in Nat
      BY <1>3, <1>5 DEF Grant
    <3> QED BY <3>1, <2>1, <1>3, <1>5
  <2>3. PutBack(k, g.job) \/ g.at + Lease <= n
    BY <1>5, ClaimWaits
  <2> QED BY <2>1, <2>2, <2>3 DEF Accounts
<1> QED BY <1>4, <1>5

\* Heartbeat.
LEMMA HeartbeatAccounts ==
  ASSUME NEW k, NEW g \in Grant, NEW t, IsTable(t), NEW n \in Nat, NEW S, Accounts(k, g, t, n)
  PROVE  Accounts(k, g, HeartbeatJobs(t, S, n), n)
<1> DEFINE u == HeartbeatJobs(t, S, n)
<1>1. DOMAIN u = DOMAIN t
  BY DEF HeartbeatJobs
<1>2. \A j \in DOMAIN t :
        /\ u[j].attempt = t[j].attempt /\ u[j].holder = t[j].holder
        /\ u[j].heartbeatAt = t[j].heartbeatAt \/ u[j].heartbeatAt = n
  BY DEF HeartbeatJobs, IsTable, Job
<1> HIDE DEF u
<1> QED BY <1>1, <1>2 DEF Accounts, u

\* Ack.
LEMMA RemoveAccounts ==
  ASSUME NEW k, NEW g, NEW t, NEW n, NEW S, Accounts(k, g, t, n)
  PROVE  Accounts(k, g, RemoveJobs(t, S), n)
<1> DEFINE u == RemoveJobs(t, S)
<1>1. DOMAIN u = DOMAIN t \ S /\ \A j \in DOMAIN u : u[j] = t[j]
  BY DEF RemoveJobs
<1> HIDE DEF u
<1> QED BY <1>1 DEF Accounts, u

\* Retry puts back the jobs that its consumer holds.
LEMMA RetryAccounts ==
  ASSUME NEW k, NEW g, NEW t, IsTable(t), NEW n, NEW r \in Call, request[r].kind = "retry",
         NEW S \in SUBSET HeldJobs(t, r), NEW d, Accounts(k, g, t, n)
  PROVE  Accounts(k, g, RetryJobs(t, S, d, n), n)
<1> DEFINE u == RetryJobs(t, S, d, n)
<1>1. DOMAIN u = DOMAIN t /\ \A j \in DOMAIN t \ S : u[j] = t[j]
  BY DEF RetryJobs
<1>2. \A j \in DOMAIN t \cap S : u[j].attempt = t[j].attempt
  BY DEF RetryJobs, IsTable, Job
<1>3. \A j \in S : t[j].holder = request[r].consumer /\ j \in request[r].jobs
  BY DEF HeldJobs
<1> HIDE DEF u
<1>4. CASE g.job \notin S
  BY <1>1, <1>4 DEF Accounts, u
<1>5. CASE g.job \in S
  <2>1. t[g.job].holder = request[k].consumer => PutBack(k, g.job)
    BY <1>3, <1>5 DEF PutBack
  <2> QED BY <2>1, <1>1, <1>2, <1>5 DEF Accounts, u
<1> QED BY <1>4, <1>5

-----------------------------------------------------------------------------
(***************************************************************************)
(* One call of a batch applied: t becomes u at n, and the call k is given  *)
(* the grants G.                                                           *)
(***************************************************************************)

Holds(k) == k \in Call /\ request[k].consumer \in Consumer

KeepsAccounts(t, u, n) ==
  \A k, g : Holds(k) /\ g \in Grant /\ g.job <= issued /\ Accounts(k, g, t, n) => Accounts(k, g, u, n)

NewGrants(k, G, t, u, n) == \A g \in G :
  /\ Accounts(k, g, u, n)
  /\ \A l, h : Holds(l) /\ h \in Grant /\ Accounts(l, h, t, n) => NoClash(k, g, l, h) /\ NoClash(l, h, k, g)

\* Claims and heartbeats are of a consumer.
LEMMA GrantsHold ==
  ASSUME TypeOK, NEW k \in Call, Grants(k)
  PROVE  Holds(k)
<1>1. request[k] \in Request \cup {NoRequest}
  BY DEF TypeOK
<1>2. CASE request[k] \in [kind : {"enqueue"}, count : JobId, delay : Delays]
  BY <1>2 DEF Grants
<1>3. CASE request[k] \in [kind : {"claim"}, consumer : Consumer, limit : JobId]
  BY <1>3 DEF Holds
<1>4. CASE request[k] \in [kind : {"heartbeat", "ack"}, consumer : Consumer, jobs : SUBSET JobId]
  BY <1>4 DEF Holds
<1>5. CASE request[k] \in [kind : {"retry"}, consumer : Consumer, jobs : SUBSET JobId, delay : Delays]
  BY <1>5 DEF Grants
<1>6. CASE request[k] = NoRequest
  BY <1>6 DEF NoRequest, Grants
<1> QED BY <1>1, <1>2, <1>3, <1>4, <1>5, <1>6 DEF Request

\* The attempts that Claim grants are new, and not before their time.
LEMMA ClaimGrants ==
  ASSUME NEW k \in Call, request[k].kind = "claim", NEW t, IsTable(t), NEW n \in Nat,
         NEW S \in SUBSET Claimable(t, n)
  PROVE  NewGrants(k, {[job |-> j, attempt |-> t[j].attempt + 1, at |-> n] : j \in S}, t,
                   ClaimJobs(t, S, request[k].consumer, n), n)
<1> DEFINE c == request[k].consumer
           u == ClaimJobs(t, S, c, n)
<1> SUFFICES ASSUME NEW j \in S, NEW g, g = [job |-> j, attempt |-> t[j].attempt + 1, at |-> n]
             PROVE  /\ Accounts(k, g, u, n)
                    /\ \A l, h : Holds(l) /\ h \in Grant /\ Accounts(l, h, t, n) =>
                         NoClash(k, g, l, h) /\ NoClash(l, h, k, g)
  BY DEF NewGrants
<1>1. j \in DOMAIN t /\ j \in JobId /\ t[j].attempt \in Nat
  BY DEF Claimable, IsTable, Job
<1>2. g.job = j /\ g.attempt = t[j].attempt + 1 /\ g.at = n
  OBVIOUS
<1>3. u[j].attempt = t[j].attempt + 1 /\ u[j].holder = c /\ u[j].heartbeatAt = n
  BY <1>1 DEF ClaimJobs, IsTable, Job
<1>4. Accounts(k, g, u, n)
  <2>1. n <= n /\ t[j].attempt + 1 <= t[j].attempt + 1
    BY <1>1
  <2> HIDE DEF u, c
  <2> QED BY <2>1, <1>2, <1>3 DEF Accounts, c
<1>5. ASSUME NEW l, NEW h, Holds(l), h \in Grant, Accounts(l, h, t, n)
      PROVE  NoClash(k, g, l, h) /\ NoClash(l, h, k, g)
  <2> SUFFICES ASSUME h.job = j PROVE NoClash(k, g, l, h) /\ NoClash(l, h, k, g)
    BY <1>2 DEF NoClash
  <2>1. l \in Call /\ request[l].consumer \in Consumer /\ h.attempt \in Nat /\ h.at \in Nat
    BY <1>5 DEF Holds, Grant
  <2>2. h.attempt <= t[j].attempt
    BY <1>1, <1>5 DEF Accounts
  <2>3. ~(g.attempt < h.attempt) /\ g.attempt # h.attempt
    BY <2>1, <2>2, <1>1, <1>2
  <2>4. PutBack(l, h.job) \/ h.at + Lease <= n
    BY <1>5, <2>1, ClaimWaits
  <2>5. PutBack(l, h.job) \/ g.at >= h.at + Lease
    BY <2>1, <2>4, <1>2
  <2> QED BY <2>3, <2>5, <1>2 DEF NoClash
<1> QED BY <1>4, <1>5

\* What a heartbeat keeps is the job's last attempt.
LEMMA HeartbeatGrants ==
  ASSUME NEW k \in Call, request[k].kind = "heartbeat", NEW t, IsTable(t), NEW n \in Nat,
         NEW S \in SUBSET HeldJobs(t, k)
  PROVE  NewGrants(k, {[job |-> j, attempt |-> t[j].attempt, at |-> n] : j \in S}, t,
                   HeartbeatJobs(t, S, n), n)
<1> DEFINE u == HeartbeatJobs(t, S, n)
<1> SUFFICES ASSUME NEW j \in S, NEW g, g = [job |-> j, attempt |-> t[j].attempt, at |-> n]
             PROVE  /\ Accounts(k, g, u, n)
                    /\ \A l, h : Holds(l) /\ h \in Grant /\ Accounts(l, h, t, n) =>
                         NoClash(k, g, l, h) /\ NoClash(l, h, k, g)
  BY DEF NewGrants
<1>1. /\ j \in DOMAIN t /\ t[j].holder = request[k].consumer /\ t[j].attempt \in Nat
  BY DEF HeldJobs, IsTable, Job
<1>2. g.job = j /\ g.attempt = t[j].attempt /\ g.at = n
  OBVIOUS
<1>3. u[j].attempt = t[j].attempt /\ u[j].holder = t[j].holder /\ u[j].heartbeatAt = n
  BY <1>1 DEF HeartbeatJobs, IsTable, Job
<1>4. Accounts(k, g, u, n)
  <2>1. n <= n /\ t[j].attempt <= t[j].attempt
    BY <1>1
  <2> HIDE DEF u
  <2> QED BY <2>1, <1>1, <1>2, <1>3 DEF Accounts
<1>5. ASSUME NEW l, NEW h, Holds(l), h \in Grant, Accounts(l, h, t, n)
      PROVE  NoClash(k, g, l, h) /\ NoClash(l, h, k, g)
  <2> SUFFICES ASSUME h.job = j PROVE NoClash(k, g, l, h) /\ NoClash(l, h, k, g)
    BY <1>2 DEF NoClash
  <2>1. h.attempt \in Nat /\ h.attempt <= t[j].attempt
    BY <1>1, <1>5 DEF Accounts, Grant
  <2>2. ~(g.attempt < h.attempt)
    BY <2>1, <1>1, <1>2
  <2> QED BY <2>2 DEF NoClash
<1> QED BY <1>4, <1>5

\* One round of the loop over the batch, for a call that is not skipped.
LEMMA RoundGrants ==
  ASSUME DurableInv, NEW m \in Manager, Apply(m), NEW k, k = pending[m][applied[m] + 1],
         outcome[k] = "waiting"
  PROVE  /\ k \in Call
         /\ KeepsAccounts(working[m], working'[m], batchNow[m])
         /\ Grants(k) => NewGrants(k, granted'[k], working[m], working'[m], batchNow[m])
         /\ ~mutated'[m] => ~mutated[m] /\ (Grants(k) => granted'[k] = {})
         /\ \A g \in granted'[k] : g \in granted[k] \/ g.job \in DOMAIN working[m]
         /\ \A g, h \in granted'[k] : g.job = h.job => g = h \/ {g, h} \subseteq granted[k]
         /\ \A l \in Call \ {k} : granted'[l] = granted[l]
<1> DEFINE t == working[m]
           n == batchNow[m]
<1>1. /\ TypeOK /\ IsTable(t) /\ n \in Nat /\ issued \in Nat
      /\ working = [x \in Manager |-> working[x]]
      /\ granted \in [Call -> SUBSET Grant] /\ mutated \in [Manager -> BOOLEAN]
  BY DEF DurableInv, TypeOK
<1>2. k \in Call /\ request[k] \in Request \cup {NoRequest}
  <2>1. /\ pending[m] \in Seq(Call) /\ applied[m] \in Nat
        /\ request \in [Call -> Request \cup {NoRequest}]
    BY <1>1 DEF TypeOK
  <2>2. applied[m] + 1 \in 1 .. Len(pending[m])
    BY <2>1 DEF Apply
  <2> QED BY <2>1, <2>2
<1>3. Enqueue(m, k) \/ Claim(m, k) \/ Settle(m, k)
  BY DEF Apply
<1>4. CASE Enqueue(m, k)
  <2>1. working'[m] = AddJobs(t, k, issued, n) /\ mutated'[m] /\ granted' = granted /\ ~Grants(k)
    BY <1>4, <1>1 DEF Enqueue, Grants
  <2>2. KeepsAccounts(t, AddJobs(t, k, issued, n), n)
    BY <1>1, AddAccounts DEF KeepsAccounts
  <2> QED BY <2>1, <2>2, <1>2
<1>5. CASE Claim(m, k)
  <2> DEFINE S == Oldest(Claimable(t, n), request[k].limit)
             c == request[k].consumer
             G == {[job |-> j, attempt |-> t[j].attempt + 1, at |-> n] : j \in S}
  <2>1. S \in SUBSET Claimable(t, n)
    BY DEF Oldest
  <2>2. /\ working'[m] = ClaimJobs(t, S, c, n)
        /\ granted'[k] = G
        /\ mutated'[m] = (mutated[m] \/ S # {})
        /\ request[k].kind = "claim"
        /\ \A l \in Call \ {k} : granted'[l] = granted[l]
    BY <1>5, <1>1, <1>2 DEF Claim
  <2> HIDE DEF S
  <2>3. KeepsAccounts(t, ClaimJobs(t, S, c, n), n)
    BY <2>1, <1>1, ClaimAccounts DEF KeepsAccounts, Holds
  <2>4. NewGrants(k, G, t, ClaimJobs(t, S, c, n), n)
    <3>1. request[k].kind = "claim" /\ k \in Call /\ IsTable(t) /\ n \in Nat
      BY <2>2, <1>1, <1>2
    <3> HIDE DEF t, n
    <3> QED BY <2>1, <3>1, ClaimGrants
  <2>5. \A g \in G : g.job \in DOMAIN t
    BY <2>1 DEF Claimable
  <2>6. \A g, h \in G : g.job = h.job => g = h
    OBVIOUS
  <2>7. S = {} => G = {}
    OBVIOUS
  <2> HIDE DEF G
  <2> QED BY <2>2, <2>3, <2>4, <2>5, <2>6, <2>7, <1>2
<1>6. CASE Settle(m, k)
  <2> DEFINE S == HeldJobs(t, k)
             G == {[job |-> j, attempt |-> t[j].attempt, at |-> n] : j \in S}
  <2>1. S \subseteq DOMAIN t
    BY DEF HeldJobs
  <2>2. /\ mutated'[m] = (mutated[m] \/ S # {})
        /\ \A l \in Call \ {k} : granted'[l] = granted[l]
    BY <1>6, <1>1, <1>2 DEF Settle
  <2>3. CASE request[k].kind = "heartbeat"
    <3>1. working'[m] = HeartbeatJobs(t, S, n) /\ granted'[k] = G
      BY <1>6, <2>3, <1>1, <1>2 DEF Settle
    <3>2. S \in SUBSET HeldJobs(t, k)
      OBVIOUS
    <3> HIDE DEF S
    <3>3. KeepsAccounts(t, HeartbeatJobs(t, S, n), n)
      BY <1>1, HeartbeatAccounts DEF KeepsAccounts
    <3>4. NewGrants(k, G, t, HeartbeatJobs(t, S, n), n)
      BY <3>2, <2>3, <1>1, <1>2, HeartbeatGrants
    <3>5. (\A g \in G : g.job \in DOMAIN t) /\ (\A g, h \in G : g.job = h.job => g = h)
      BY <2>1
    <3>6. S = {} => G = {}
      OBVIOUS
    <3> HIDE DEF G
    <3> QED BY <2>2, <3>1, <3>3, <3>4, <3>5, <3>6, <1>2
  <2>4. CASE request[k].kind = "ack"
    <3>1. working'[m] = RemoveJobs(t, S) /\ granted'[k] = {} /\ ~Grants(k)
      BY <1>6, <2>4, <1>1, <1>2 DEF Settle, Grants
    <3> HIDE DEF S
    <3>2. KeepsAccounts(t, RemoveJobs(t, S), n)
      BY RemoveAccounts DEF KeepsAccounts
    <3> QED BY <2>2, <3>1, <3>2, <1>2
  <2>5. CASE request[k].kind = "retry"
    <3>1. /\ working'[m] = RetryJobs(t, S, request[k].delay, n)
          /\ granted'[k] = {} /\ ~Grants(k)
      BY <1>6, <2>5, <1>1, <1>2 DEF Settle, Grants
    <3>2. S \in SUBSET HeldJobs(t, k)
      OBVIOUS
    <3> HIDE DEF S
    <3>3. KeepsAccounts(t, RetryJobs(t, S, request[k].delay, n), n)
      BY <3>2, <2>5, <1>1, <1>2, RetryAccounts DEF KeepsAccounts
    <3> QED BY <2>2, <3>1, <3>3, <1>2
  <2> QED BY <1>6, <2>3, <2>4, <2>5 DEF Settle
<1> QED BY <1>3, <1>4, <1>5, <1>6

-----------------------------------------------------------------------------
(***************************************************************************)
(* What a step keeps, whoever takes it.                                    *)
(***************************************************************************)

\* Requests stay as they were made.
RequestStep == \A k \in Call : request[k] # NoRequest => request'[k] = request[k]

\* A grant that counts now counted before.
EffectiveStep ==
  \A k \in Effective' : granted'[k] = {} \/ (k \in Effective /\ granted'[k] = granted[k])

\* The grants of the batch of m stay.
GrantsStay(m) == phase[m] = "apply" => \A k \in Told(m) : granted'[k] = granted[k]

\* The calls whose grants matter are sent claims and heartbeats.
LEMMA EffectiveCalls ==
  /\ \A k \in Effective : k \in Call /\ Grants(k) /\ outcome[k] \in {"ok", "waiting"}
  /\ \A m \in Manager : \A k \in Told(m) : k \in Call /\ Grants(k) /\ outcome[k] = "waiting"
BY DEF Effective, Told, Answered, Grants

\* An account stays true.
LEMMA AccountsKept ==
  ASSUME RequestStep, NEW k \in Call, Grants(k), NEW g \in Grant, NEW t, NEW n \in Nat,
         NEW n2 \in Nat, n <= n2, Accounts(k, g, t, n)
  PROVE  Accounts(k, g, t, n2)'
<1>1. Accounts(k, g, t, n2)
  BY AccountsLater
<1>2. request'[k] = request[k]
  BY DEF RequestStep, Grants, NoRequest
<1>3. PutBack(k, g.job) => PutBack(k, g.job)'
  <2> SUFFICES ASSUME NEW r \in Call, request[r].kind = "retry",
                      request[r].consumer = request[k].consumer, g.job \in request[r].jobs
               PROVE  PutBack(k, g.job)'
    BY DEF PutBack
  <2>1. request'[r] = request[r]
    BY DEF RequestStep, NoRequest
  <2> QED BY <2>1, <1>2 DEF PutBack
<1> QED BY <1>1, <1>2, <1>3 DEF Accounts

\* Two grants that do not clash never do.
LEMMA NoClashKept ==
  ASSUME RequestStep, NEW k \in Call, Grants(k), NEW l \in Call, Grants(l), NEW g, NEW h,
         NoClash(k, g, l, h)
  PROVE  NoClash(k, g, l, h)'
<1>1. request'[k] = request[k] /\ request'[l] = request[l]
  BY DEF RequestStep, Grants, NoRequest
<1>2. PutBack(k, g.job) => PutBack(k, g.job)'
  <2> SUFFICES ASSUME NEW r \in Call, request[r].kind = "retry",
                      request[r].consumer = request[k].consumer, g.job \in request[r].jobs
               PROVE  PutBack(k, g.job)'
    BY DEF PutBack
  <2>1. request'[r] = request[r]
    BY DEF RequestStep, NoRequest
  <2> QED BY <2>1, <1>1 DEF PutBack
<1> QED BY <1>1, <1>2 DEF NoClash

\* The same, of two calls that keep their grants or have none.
LEMMA ApartKept ==
  ASSUME RequestStep, NEW k \in Call, Grants(k), NEW l \in Call, Grants(l),
         granted'[k] = granted[k], granted'[l] = granted[l], Apart(k, l)
  PROVE  Apart(k, l)'
<1>1. ASSUME NEW g \in granted[k], NEW h \in granted[l]
      PROVE  NoClash(k, g, l, h)'
  <2>1. NoClash(k, g, l, h)
    BY DEF Apart
  <2> QED BY <2>1, NoClashKept
<1> QED BY <1>1 DEF Apart

\* A table that accounts for what counts goes on to.
LEMMA EffectiveAccounts ==
  ASSUME TypeOK, RequestStep, EffectiveStep, NEW t, NEW n \in Nat, NEW n2 \in Nat, n <= n2,
         AccountsFor(Effective, t, n)
  PROVE  AccountsFor(Effective, t, n2)'
<1> SUFFICES ASSUME NEW k \in Effective', NEW g \in granted'[k]
             PROVE  Accounts(k, g, t, n2)'
  BY DEF AccountsFor
<1>1. k \in Effective /\ granted'[k] = granted[k]
  BY DEF EffectiveStep
<1>2. k \in Call /\ Grants(k)
  BY <1>1, EffectiveCalls
<1>3. g \in Grant
  BY <1>1, <1>2 DEF TypeOK
<1>4. Accounts(k, g, t, n)
  BY <1>1 DEF AccountsFor
<1> QED BY <1>2, <1>3, <1>4, AccountsKept

\* The calls of an idle Manager's batch that wait and were applied.
LEMMA ToldKept ==
  ASSUME DurableInv, GrantInv, CallStep, NEW m \in Manager, phase[m] \in {"apply", "landed"},
         UNCHANGED <<pending[m], applied[m]>>
  PROVE  Told(m)' \subseteq Told(m)
<1> SUFFICES ASSUME NEW k \in Told(m)' PROVE k \in Told(m)
  OBVIOUS
<1>1. pending[m] \in Seq(Call) /\ applied[m] \in Nat
  BY DEF DurableInv, TypeOK
<1>2. applied[m] <= Len(pending[m])
  <2>1. CASE phase[m] = "apply"
    BY <2>1 DEF DurableInv, ManagersInv, ApplyOK
  <2>2. CASE phase[m] = "landed"
    BY <2>2, <1>1 DEF GrantInv, BatchAccounts
  <2> QED BY <2>1, <2>2
<1>3. PICK i \in 1 .. applied[m] : k = pending[m][i]
  BY DEF Told
<1>4. k \in Call /\ outcome'[k] = "waiting" /\ Grants(k)'
  BY DEF Told
<1>5. outcome[k] # "unsent"
  <2>1. i \in DOMAIN pending[m]
    BY <1>1, <1>2
  <2> QED BY <2>1, <1>3 DEF DurableInv, SupplyInv
<1>6. outcome[k] = "waiting" /\ request'[k] = request[k]
  BY <1>4, <1>5 DEF CallStep
<1> QED BY <1>3, <1>4, <1>6 DEF Told, Grants

\* A Manager that takes no step keeps its part of the invariant.
LEMMA BatchGrants ==
  ASSUME DurableInv, GrantInv, RequestStep, CallStep, now' \in Nat, now <= now',
         (storedEtag' = storedEtag /\ EffectiveStep) \/ storedEtag' = storedEtag + 1,
         NEW m \in Manager, GrantsStay(m),
         UNCHANGED <<phase[m], etag[m], pending[m], applied[m], working[m], mutated[m],
                     batchNow[m]>>
  PROVE  BatchAccounts(m)'
<1>1. /\ TypeOK /\ now \in Nat /\ storedEtag \in Nat /\ batchNow[m] \in Nat /\ etag[m] \in Nat
      /\ granted \in [Call -> SUBSET Grant]
      /\ BatchAccounts(m)
  BY CountersType DEF DurableInv, GrantInv, TypeOK
<1>2. phase[m] \in {"apply", "landed"} => Told(m)' \subseteq Told(m)
  BY ToldKept
<1>3. \A k \in Told(m) : k \in Call /\ Grants(k)
  BY EffectiveCalls
<1>4. (phase[m] = "apply" /\ ~mutated[m] => \A k \in Told(m) : granted[k] = {})'
  BY <1>1, <1>2 DEF BatchAccounts, GrantsStay
<1>5. (phase[m] = "apply" => batchNow[m] <= now)'
  BY <1>1 DEF BatchAccounts
<1>6. (phase[m] = "landed" => applied[m] = Len(pending[m]))'
  BY <1>1 DEF BatchAccounts
<1>7. ASSUME phase[m] = "apply", etag[m] = storedEtag'
      PROVE  Agree(Effective, Told(m), working[m], batchNow[m])'
  <2>1. etag[m] <= storedEtag
    BY <1>7 DEF DurableInv, ManagersInv, ApplyOK, CloneInv
  <2>2. storedEtag' = storedEtag /\ EffectiveStep
    BY <2>1, <1>1, <1>7
  <2>3. PICK t, n : t = working[m] /\ n = batchNow[m]
    OBVIOUS
  <2>4. Agree(Effective, Told(m), t, n) /\ n \in Nat /\ n <= n
    BY <2>2, <2>3, <1>1, <1>7 DEF BatchAccounts
  <2>5. \A k \in Effective' \cup Told(m)' :
          granted'[k] = {} \/ (k \in Effective \cup Told(m) /\ granted'[k] = granted[k])
    BY <2>2, <1>2, <1>7 DEF EffectiveStep, GrantsStay
  <2>6. \A k \in Effective \cup Told(m) : k \in Call /\ Grants(k)
    BY EffectiveCalls
  <2>7. ASSUME NEW k \in Effective' \cup Told(m)', NEW g \in granted'[k]
        PROVE  Accounts(k, g, t, n)'
    <3>1. k \in Call /\ Grants(k) /\ g \in Grant /\ Accounts(k, g, t, n)
      BY <2>4, <2>5, <2>6, <1>1 DEF Agree, AccountsFor
    <3> QED BY <3>1, <2>4, AccountsKept
  <2>8. ASSUME NEW k \in Effective' \cup Told(m)', NEW l \in Told(m)', k # l
        PROVE  Apart(k, l)' /\ Apart(l, k)'
    <3>1. CASE granted'[k] = {}
      BY <3>1 DEF Apart
    <3>2. CASE granted'[k] # {}
      <4>1. /\ k \in Effective \cup Told(m) /\ l \in Told(m)
            /\ granted'[k] = granted[k] /\ granted'[l] = granted[l]
        BY <3>2, <2>5, <1>2, <1>7 DEF GrantsStay
      <4>2. k \in Call /\ Grants(k) /\ l \in Call /\ Grants(l)
        BY <4>1, <2>6
      <4>3. Apart(k, l) /\ Apart(l, k)
        BY <4>1, <2>4, <2>8 DEF Agree
      <4>4. Apart(k, l)'
        BY <4>1, <4>2, <4>3, ApartKept
      <4>5. Apart(l, k)'
        BY <4>1, <4>2, <4>3, ApartKept
      <4> QED BY <4>4, <4>5
    <3> QED BY <3>1, <3>2
  <2>9. t = working'[m] /\ n = batchNow'[m]
    BY <2>3
  <2>10. AccountsFor(Effective \cup Told(m), working[m], batchNow[m])'
    BY <2>7, <2>9 DEF AccountsFor, Accounts
  <2> QED BY <2>8, <2>10 DEF Agree
<1> QED BY <1>4, <1>5, <1>6, <1>7 DEF BatchAccounts

\* So does a PUT on its way.
LEMMA PutGrants ==
  ASSUME DurableInv, GrantInv, RequestStep, now' \in Nat, now <= now',
         (storedEtag' = storedEtag /\ EffectiveStep) \/ storedEtag' = storedEtag + 1,
         NEW p \in stray
  PROVE  PutAccounts(p)'
<1>1. TypeOK /\ now \in Nat /\ storedEtag \in Nat /\ p.etag \in Nat /\ p.etag <= storedEtag
  BY CountersType DEF DurableInv, TypeOK, IsPut, StrayInv, CloneInv
<1>2. ASSUME p.etag = storedEtag'
      PROVE  AccountsFor(Effective, p.jobs, now)'
  <2>1. storedEtag' = storedEtag /\ EffectiveStep
    BY <1>1, <1>2
  <2>2. AccountsFor(Effective, p.jobs, now)
    BY <2>1, <1>2 DEF GrantInv, PutAccounts
  <2>3. PICK n, n2 : n = now /\ n2 = now'
    OBVIOUS
  <2>4. AccountsFor(Effective, p.jobs, n2)'
    BY <2>1, <2>2, <2>3, <1>1, EffectiveAccounts
  <2> QED BY <2>3, <2>4 DEF AccountsFor, Accounts
<1> QED BY <1>2 DEF PutAccounts

\* What counts is accounted for in the stored table, if it stays.
LEMMA StoredKept ==
  ASSUME DurableInv, GrantInv, RequestStep, now' \in Nat, now <= now',
         storedJobs' = storedJobs, EffectiveStep
  PROVE  StoredGrants'
<1>1. TypeOK /\ now \in Nat
  BY CountersType DEF DurableInv
<1>2. AccountsFor(Effective, storedJobs, now)'
  <2>1. PICK t, n, n2 : t = storedJobs /\ n = now /\ n2 = now'
    OBVIOUS
  <2>2. AccountsFor(Effective, t, n)
    BY <2>1 DEF GrantInv, StoredGrants
  <2>3. AccountsFor(Effective, t, n2)'
    BY <2>1, <2>2, <1>1, EffectiveAccounts
  <2> QED BY <2>1, <2>3 DEF AccountsFor, Accounts
<1>3. ASSUME NEW k \in Effective', NEW l \in Effective', k # l
      PROVE  Apart(k, l)'
  <2>1. CASE granted'[k] = {} \/ granted'[l] = {}
    BY <2>1 DEF Apart
  <2>2. CASE granted'[k] # {} /\ granted'[l] # {}
    <3>1. /\ k \in Effective /\ granted'[k] = granted[k]
          /\ l \in Effective /\ granted'[l] = granted[l]
      BY <2>2 DEF EffectiveStep
    <3>2. Apart(k, l)
      BY <3>1, <1>3 DEF GrantInv, StoredGrants
    <3>3. k \in Call /\ Grants(k) /\ l \in Call /\ Grants(l)
      BY <3>1, EffectiveCalls
    <3> QED BY <3>1, <3>2, <3>3, ApartKept
  <2> QED BY <2>1, <2>2
<1> QED BY <1>2, <1>3 DEF StoredGrants

\* A step disturbs the Managers outside M, the store, and the PUTs it sends.
LEMMA GrantKept ==
  ASSUME DurableInv, GrantInv, NEW M \in SUBSET Manager,
         RequestStep, CallStep, now' \in Nat, now <= now',
         \/ UNCHANGED <<storedJobs, storedEtag>> /\ EffectiveStep
         \/ storedEtag' = storedEtag + 1 /\ StoredGrants',
         GrantsOK', UnsentOK', OneHand',
         \A m \in M : GrantsStay(m),
         \A m \in M : UNCHANGED <<phase[m], etag[m], pending[m], applied[m], working[m],
                                  mutated[m], batchNow[m]>>,
         \A m \in Manager \ M : BatchAccounts(m)',
         \A p \in stray' \ stray : PutAccounts(p)'
  PROVE  GrantInv'
<1>1. StoredGrants'
  BY StoredKept
<1>2. \A m \in Manager : BatchAccounts(m)'
  <2>1. ASSUME NEW m \in M PROVE BatchAccounts(m)'
    BY BatchGrants
  <2> QED BY <2>1
<1>3. \A p \in stray' : PutAccounts(p)'
  BY PutGrants
<1> QED BY <1>1, <1>2, <1>3 DEF GrantInv

\* Calls that have not been sent stay out of it.
SentStep ==
  \A k \in Call : outcome'[k] = "unsent" =>
    outcome[k] = "unsent" /\ request'[k] = request[k] /\ granted'[k] = granted[k]

\* The grants of a step that grants nothing.
LEMMA SameGrants ==
  ASSUME DurableInv, GrantInv, CallStep, SentStep, granted' = granted,
         issued' \in Nat, issued <= issued'
  PROVE  GrantsOK' /\ UnsentOK' /\ RequestStep
<1>1. issued \in Nat /\ \A k \in Call : \A g \in granted[k] : g.job \in Nat
  BY CountersType DEF DurableInv, TypeOK, Grant, JobId
<1>2. GrantsOK'
  BY <1>1 DEF GrantInv, GrantsOK
<1>3. UnsentOK'
  BY DEF GrantInv, UnsentOK, SentStep
<1>4. RequestStep
  BY DEF GrantInv, UnsentOK, CallStep, RequestStep
<1> QED BY <1>2, <1>3, <1>4

\* No Manager is handed a call.
LEMMA HandsKept ==
  ASSUME OneHand, \A m \in Manager : Hands(m)' \subseteq Hands(m)
  PROVE  OneHand'
BY DEF OneHand

\* The same, when only m has moved.
LEMMA OneGrants ==
  ASSUME DurableInv, GrantInv, NEW m \in Manager,
         RequestStep, CallStep, now' = now,
         \/ UNCHANGED <<storedJobs, storedEtag>> /\ EffectiveStep
         \/ storedEtag' = storedEtag + 1 /\ StoredGrants',
         GrantsOK', UnsentOK', OneHand',
         \A n \in Manager \ {m} : GrantsStay(n),
         \A n \in Manager \ {m} :
           UNCHANGED <<phase[n], etag[n], pending[n], applied[n], working[n],
                       mutated[n], batchNow[n]>>,
         BatchAccounts(m)',
         \A p \in stray' \ stray : PutAccounts(p)'
  PROVE  GrantInv'
<1> DEFINE M == Manager \ {m}
<1>1. now' \in Nat /\ now <= now'
  BY CountersType DEF DurableInv
<1>2. ASSUME NEW n \in Manager \ M PROVE BatchAccounts(n)'
  <2>1. n = m
    OBVIOUS
  <2> QED BY <2>1
<1>3. M \in SUBSET Manager
  OBVIOUS
<1>4. \A n \in M : GrantsStay(n)
  OBVIOUS
<1>5. \A n \in M : UNCHANGED <<phase[n], etag[n], pending[n], applied[n], working[n],
                               mutated[n], batchNow[n]>>
  OBVIOUS
<1> HIDE DEF M
<1> QED BY <1>1, <1>2, <1>3, <1>4, <1>5, GrantKept

\* A batch that is over, or not yet begun, promises nothing.
LEMMA NoBatch ==
  ASSUME NEW m \in Manager, phase'[m] \in {"idle", "start"}
  PROVE  BatchAccounts(m)'
BY DEF BatchAccounts

-----------------------------------------------------------------------------
(***************************************************************************)
(* The steps.                                                              *)
(***************************************************************************)

\* Grants that count are lost, or get answered, or are of no job.
LEMMA EffectiveShrinks ==
  ASSUME DurableInv, GrantInv, CallStep, granted' = granted,
         \A k \in Call : outcome'[k] = "ok" /\ Grants(k) =>
           outcome[k] \in {"ok", "unsent"} \/ granted[k] = {} \/ k \in Effective,
         \A n \in Manager : phase'[n] = "landed" =>
           phase[n] = "landed" /\ UNCHANGED <<pending[n], applied[n]>>
  PROVE  EffectiveStep
<1> SUFFICES ASSUME NEW k \in Effective', granted[k] # {} PROVE k \in Effective
  BY DEF EffectiveStep
<1>1. CASE k \in Call /\ outcome'[k] = "ok" /\ Grants(k)'
  <2>1. outcome[k] # "unsent"
    BY <1>1 DEF GrantInv, UnsentOK
  <2>2. Grants(k)
    BY <1>1, <2>1 DEF CallStep, Grants
  <2>3. outcome[k] = "ok" \/ k \in Effective
    BY <1>1, <2>1, <2>2
  <2>4. outcome[k] = "ok" => k \in Effective
    BY <1>1, <2>2 DEF Effective, Answered, Grants
  <2> QED BY <2>3, <2>4
<1>2. ASSUME NEW n \in Manager, phase'[n] = "landed", k \in Told(n)'
      PROVE  k \in Effective
  <2>1. phase[n] = "landed" /\ UNCHANGED <<pending[n], applied[n]>>
    BY <1>2
  <2>2. k \in Told(n)
    BY <2>1, <1>2, ToldKept
  <2> QED BY <2>1, <2>2 DEF Effective
<1> QED BY <1>1, <1>2 DEF Effective, Answered, Grants

\* The callers and the clock.
LEMMA CallersGrants ==
  ASSUME DurableInv, GrantInv,
         \/ \E k \in Call : GiveUp(k) \/ \E m \in Manager : Submit(k, m)
         \/ Tick
         \/ UNCHANGED vars
  PROVE  GrantInv'
<1>1. /\ TypeOK /\ now \in Nat /\ issued \in Nat
      /\ outcome \in [Call -> {"unsent", "waiting", "ok", "error"}]
      /\ request \in [Call -> Request \cup {NoRequest}]
      /\ ops \in [Manager -> Seq(Call)] /\ pending \in [Manager -> Seq(Call)]
  BY CountersType DEF DurableInv, TypeOK
<1>2. now' \in Nat /\ now <= now'
  BY <1>1 DEF GiveUp, Submit, Tick, vars
<1>3. UNCHANGED <<storedJobs, storedEtag, stray, issued, granted, phase, etag, pending, applied,
                  working, mutated, batchNow>>
  BY DEF GiveUp, Submit, Tick, vars, storeVars, callVars, cacheVars, batchVars
<1>4. /\ CallStep /\ SentStep
      /\ \A k \in Call : outcome'[k] = "ok" => outcome[k] = "ok"
  <2>1. ASSUME NEW k \in Call, GiveUp(k)
        PROVE  /\ CallStep /\ SentStep
               /\ \A l \in Call : outcome'[l] = "ok" => outcome[l] = "ok"
    BY <2>1, <1>1 DEF GiveUp, CallStep, SentStep
  <2>2. ASSUME NEW k \in Call, NEW m \in Manager, Submit(k, m)
        PROVE  /\ CallStep /\ SentStep
               /\ \A l \in Call : outcome'[l] = "ok" => outcome[l] = "ok"
    BY <2>2, <1>1 DEF Submit, CallStep, SentStep
  <2>3. CASE Tick \/ UNCHANGED vars
    BY <2>3, <1>1 DEF Tick, vars, callVars, CallStep, SentStep
  <2> QED BY <2>1, <2>2, <2>3
<1>5. GrantsOK' /\ UnsentOK' /\ RequestStep
  <2>1. issued' \in Nat /\ issued <= issued'
    BY <1>1, <1>3
  <2> QED BY <2>1, <1>3, <1>4, SameGrants
<1>6. EffectiveStep
  BY <1>3, <1>4, EffectiveShrinks
<1>7. OneHand'
  <2>1. ASSUME NEW k \in Call, NEW m \in Manager, Submit(k, m)
        PROVE  OneHand'
    <3>1. /\ outcome[k] = "unsent" /\ ops' = [ops EXCEPT ![m] = Append(@, k)]
          /\ pending' = pending
      BY <2>1 DEF Submit
    <3>2. \A n \in Manager : k \notin Hands(n)
      BY <3>1 DEF DurableInv, SupplyInv, Hands, Batch
    <3>3. \A n \in Manager \ {m} : Hands(n)' = Hands(n)
      BY <3>1, <1>1 DEF Hands, Batch
    <3>4. Hands(m)' \subseteq Hands(m) \cup {k}
      <4> SUFFICES ASSUME NEW i \in DOMAIN Append(ops[m], k), Append(ops[m], k)[i] # k
                   PROVE  i \in DOMAIN ops[m] /\ Append(ops[m], k)[i] = ops[m][i]
        BY <3>1, <1>1 DEF Hands, Batch
      <4>1. ops[m] \in Seq(Call)
        BY <1>1
      <4> QED BY <4>1
    <3>5. OneHand
      BY DEF GrantInv
    <3> QED BY <3>2, <3>3, <3>4, <3>5 DEF OneHand
  <2>2. CASE UNCHANGED <<ops, pending>>
    BY <2>2 DEF GrantInv, OneHand, Hands, Batch
  <2> QED BY <2>1, <2>2 DEF GiveUp, Tick, vars
<1>8. \A p \in stray' \ stray : PutAccounts(p)'
  BY <1>3
<1>9. \A m \in Manager : GrantsStay(m)
  BY <1>3 DEF GrantsStay
<1>10. \A m \in Manager : UNCHANGED <<phase[m], etag[m], pending[m], applied[m], working[m],
                                      mutated[m], batchNow[m]>>
  BY <1>3
<1> QED BY <1>2, <1>3, <1>4, <1>5, <1>6, <1>7, <1>8, <1>9, <1>10, GrantKept

\* The calls in a sequence of calls.
CallsIn(s) == {s[i] : i \in DOMAIN s}

\* A sequence cut in two holds no other calls.
LEMMA CallsCut ==
  ASSUME NEW s \in Seq(Call), NEW n \in 1 .. Len(s)
  PROVE  /\ CallsIn(SubSeq(s, 1, n)) \subseteq CallsIn(s)
         /\ CallsIn(SubSeq(s, n + 1, Len(s))) \subseteq CallsIn(s)
<1>1. ASSUME NEW a \in 1 .. Len(s) + 1, NEW b \in 0 .. Len(s), NEW i \in DOMAIN SubSeq(s, a, b)
      PROVE  SubSeq(s, a, b)[i] \in CallsIn(s)
  <2>1. \E j \in DOMAIN s : SubSeq(s, a, b)[i] = s[j]
    OBVIOUS
  <2> QED BY <2>1 DEF CallsIn
<1>2. ASSUME NEW a \in 1 .. Len(s) + 1, NEW b \in 0 .. Len(s)
      PROVE  CallsIn(SubSeq(s, a, b)) \subseteq CallsIn(s)
  <2>1. PICK q : q = SubSeq(s, a, b)
    OBVIOUS
  <2>2. \A i \in DOMAIN q : q[i] \in CallsIn(s)
    BY <1>1, <2>1
  <2>3. CallsIn(q) \subseteq CallsIn(s)
    BY <2>2 DEF CallsIn
  <2> QED BY <2>1, <2>3
<1>3. /\ 1 \in 1 .. Len(s) + 1 /\ n \in 0 .. Len(s)
      /\ n + 1 \in 1 .. Len(s) + 1 /\ Len(s) \in 0 .. Len(s)
  OBVIOUS
<1> QED BY <1>2, <1>3

\* A Manager gathers a batch, loads the table, clones it.
LEMMA BeginGrants ==
  ASSUME DurableInv, GrantInv, NEW m \in Manager, Collect(m) \/ Load(m) \/ Begin(m)
  PROVE  GrantInv'
<1> USE DEF storeVars, callVars, cacheVars, batchVars
<1>1. /\ TypeOK /\ now \in Nat /\ issued \in Nat
      /\ phase \in [Manager -> {"idle", "start", "apply", "landed"}]
      /\ etag \in [Manager -> Nat] /\ batchNow \in [Manager -> Nat]
      /\ applied \in [Manager -> Nat] /\ mutated \in [Manager -> BOOLEAN]
      /\ working = [n \in Manager |-> working[n]]
      /\ ops \in [Manager -> Seq(Call)] /\ pending \in [Manager -> Seq(Call)]
      /\ CacheOK(m)
  BY CountersType DEF DurableInv, TypeOK, ManagersInv
<1>2. UNCHANGED <<storedJobs, storedEtag, stray, now, issued, request, outcome, granted>>
  BY DEF Collect, Load, Begin
<1>3. \A n \in Manager \ {m} :
        UNCHANGED <<phase[n], etag[n], pending[n], applied[n], working[n], mutated[n], batchNow[n]>>
  BY <1>1 DEF Collect, Load, Begin
<1>4. /\ phase[m] # "landed" /\ phase'[m] # "landed"
      /\ phase'[m] = "apply" => Begin(m)
  BY <1>1 DEF Collect, Load, Begin
<1>5. CallStep /\ SentStep /\ \A k \in Call : outcome'[k] = "ok" => outcome[k] = "ok"
  BY <1>2 DEF CallStep, SentStep
<1>6. GrantsOK' /\ UnsentOK' /\ RequestStep
  BY <1>1, <1>2, <1>5, SameGrants
<1>7. EffectiveStep
  <2>1. \A n \in Manager : phase'[n] = "landed" =>
          phase[n] = "landed" /\ UNCHANGED <<pending[n], applied[n]>>
    BY <1>3, <1>4
  <2> QED BY <2>1, <1>2, <1>5, EffectiveShrinks
<1>8. OneHand'
  <2>1. CASE Collect(m)
    <3>1. PICK n \in 1 .. Len(ops[m]) :
            /\ pending' = [pending EXCEPT ![m] = SubSeq(ops[m], 1, n)]
            /\ ops' = [ops EXCEPT ![m] = SubSeq(@, n + 1, Len(@))]
      BY <2>1 DEF Collect
    <3>2. /\ CallsIn(SubSeq(ops[m], 1, n)) \subseteq CallsIn(ops[m])
          /\ CallsIn(SubSeq(ops[m], n + 1, Len(ops[m]))) \subseteq CallsIn(ops[m])
      <4>1. ops[m] \in Seq(Call)
        BY <1>1
      <4> QED BY <4>1, CallsCut
    <3>3. Hands(m)' \subseteq Hands(m)
      <4>1. /\ pending'[m] = SubSeq(ops[m], 1, n)
            /\ ops'[m] = SubSeq(ops[m], n + 1, Len(ops[m]))
        BY <3>1, <1>1
      <4>2. Hands(m)' = CallsIn(pending'[m]) \cup CallsIn(ops'[m])
        BY DEF Hands, Batch, CallsIn
      <4>3. CallsIn(ops[m]) \subseteq Hands(m)
        BY DEF Hands, CallsIn
      <4> QED BY <4>1, <4>2, <4>3, <3>2
    <3>4. \A x \in Manager \ {m} : Hands(x)' = Hands(x)
      BY <3>1, <1>1 DEF Hands, Batch
    <3> QED BY <3>3, <3>4, HandsKept DEF GrantInv
  <2>2. CASE UNCHANGED <<ops, pending>>
    BY <2>2 DEF GrantInv, OneHand, Hands, Batch
  <2> QED BY <2>1, <2>2 DEF Load, Begin
<1>9. BatchAccounts(m)'
  <2>1. CASE Begin(m)
    <3>1. /\ phase'[m] = "apply" /\ working'[m] = state[m] /\ batchNow'[m] = now
          /\ applied'[m] = 0 /\ loaded[m] /\ etag' = etag
      BY <2>1, <1>1 DEF Begin
    <3>2. Told(m)' = {}
      BY <3>1 DEF Told
    <3>3. ASSUME etag[m] = storedEtag
          PROVE  Agree(Effective, Told(m), working[m], batchNow[m])'
      <4>1. working'[m] = storedJobs
        BY <3>1, <3>3, <1>1 DEF CacheOK
      <4>2. AccountsFor(Effective, storedJobs, now)'
        <5>1. StoredGrants'
          BY <1>1, <1>2, <1>6, <1>7, StoredKept
        <5> QED BY <5>1 DEF StoredGrants
      <4>3. AccountsFor(Effective \cup Told(m), working[m], batchNow[m])'
        BY <4>1, <4>2, <3>1, <3>2, <1>2 DEF AccountsFor, Accounts
      <4> QED BY <4>3, <3>2 DEF Agree
    <3> QED BY <3>1, <3>2, <3>3, <1>1, <1>2 DEF BatchAccounts
  <2>2. CASE phase'[m] # "apply"
    BY <2>2, <1>4 DEF BatchAccounts
  <2> QED BY <2>1, <2>2, <1>4
<1>10. \A p \in stray' \ stray : PutAccounts(p)'
  BY <1>2
<1>11. \A n \in Manager \ {m} : GrantsStay(n)
  BY <1>2 DEF GrantsStay
<1> QED BY <1>2, <1>3, <1>5, <1>6, <1>7, <1>8, <1>9, <1>10, <1>11, OneGrants

\* Nothing of an account changes while the requests stay.
LEMMA SameRequests ==
  ASSUME request' = request
  PROVE  /\ \A k, g, t, n : Accounts(k, g, t, n)' <=> Accounts(k, g, t, n)
         /\ \A k, g, l, h : NoClash(k, g, l, h)' <=> NoClash(k, g, l, h)
BY DEF Accounts, NoClash, PutBack

\* A call is applied to a clone that agrees with what counts.
LEMMA ApplyAgrees ==
  ASSUME DurableInv, GrantInv, NEW m \in Manager, Apply(m), NEW k, k = pending[m][applied[m] + 1],
         outcome[k] = "waiting", k \notin Effective, EffectiveStep,
         \A l \in Effective : granted'[l] = granted[l],
         \A l \in Told(m)' : (l = k /\ Grants(k)) \/ (l # k /\ l \in Told(m)),
         etag[m] = storedEtag
  PROVE  Agree(Effective, Told(m), working[m], batchNow[m])'
<1> DEFINE t == working[m]
           n == batchNow[m]
<1>1. PICK u : u = working'[m]
  OBVIOUS
<1>2. /\ TypeOK /\ n \in Nat /\ granted \in [Call -> SUBSET Grant]
      /\ phase[m] = "apply" /\ request' = request /\ batchNow'[m] = n
  BY DEF DurableInv, TypeOK, Apply
<1>3. /\ k \in Call
      /\ KeepsAccounts(t, u, n)
      /\ Grants(k) => NewGrants(k, granted'[k], t, u, n)
      /\ \A l \in Call \ {k} : granted'[l] = granted[l]
  BY <1>1, RoundGrants
<1>4. Agree(Effective, Told(m), t, n) /\ GrantsOK
  BY <1>2 DEF GrantInv, BatchAccounts
<1>5. ASSUME NEW l \in Effective \cup Told(m), l # k, NEW g \in granted[l]
      PROVE  /\ l \in Call /\ Grants(l) /\ granted'[l] = granted[l]
             /\ Holds(l) /\ g \in Grant
             /\ Accounts(l, g, t, n) /\ Accounts(l, g, u, n)
  <2>1. l \in Call /\ Grants(l) /\ granted'[l] = granted[l]
    BY <1>3, <1>5, EffectiveCalls
  <2>2. Holds(l)
    BY <2>1, <1>2, GrantsHold
  <2>3. g \in Grant /\ g.job <= issued /\ Accounts(l, g, t, n)
    BY <2>1, <1>2, <1>4 DEF Agree, AccountsFor, GrantsOK
  <2>4. Accounts(l, g, u, n)
    BY <2>2, <2>3, <1>3 DEF KeepsAccounts
  <2> QED BY <2>1, <2>2, <2>3, <2>4
<1>6. \A l \in Effective' \cup Told(m)' :
        \/ l = k /\ Grants(k)
        \/ granted'[l] = {}
        \/ l # k /\ l \in Effective \cup Told(m) /\ granted'[l] = granted[l]
  BY <1>3, EffectiveCalls DEF EffectiveStep
<1>7. ASSUME NEW l \in Effective' \cup Told(m)', NEW g \in granted'[l]
      PROVE  Accounts(l, g, u, n)'
  <2>1. CASE l = k /\ Grants(k)
    BY <2>1, <1>2, <1>3, SameRequests DEF NewGrants
  <2>2. CASE l # k /\ l \in Effective \cup Told(m) /\ granted'[l] = granted[l]
    BY <2>2, <1>2, <1>5, SameRequests
  <2> QED BY <2>1, <2>2, <1>6
<1>8. ASSUME NEW x \in Effective' \cup Told(m)', NEW y \in Told(m)', x # y
      PROVE  Apart(x, y)' /\ Apart(y, x)'
  <2> SUFFICES ASSUME NEW g \in granted'[x], NEW h \in granted'[y]
               PROVE  NoClash(x, g, y, h) /\ NoClash(y, h, x, g)
    BY <1>2, SameRequests DEF Apart
  <2>1. CASE x = k /\ Grants(k)
    <3>1. y # k /\ y \in Effective \cup Told(m) /\ granted'[y] = granted[y]
      BY <2>1, <1>6, <1>8
    <3>2. Holds(y) /\ h \in Grant /\ Accounts(y, h, t, n)
      BY <3>1, <1>5
    <3> QED BY <2>1, <3>2, <1>3 DEF NewGrants
  <2>2. CASE x # k /\ x \in Effective \cup Told(m) /\ granted'[x] = granted[x]
    <3>1. CASE y = k /\ Grants(k)
      <4>1. Holds(x) /\ g \in Grant /\ Accounts(x, g, t, n)
        BY <2>2, <1>5
      <4> QED BY <3>1, <4>1, <1>3 DEF NewGrants
    <3>2. CASE y # k
      <4>1. y \in Told(m) /\ granted'[y] = granted[y]
        BY <3>2, <1>3, EffectiveCalls
      <4> QED BY <2>2, <4>1, <1>4, <1>8 DEF Agree, Apart
    <3> QED BY <3>1, <3>2
  <2> QED BY <2>1, <2>2, <1>6
<1>9. AccountsFor(Effective \cup Told(m), working[m], batchNow[m])'
  <2>1. u = working'[m] /\ n = batchNow'[m]
    BY <1>1, <1>2
  <2> HIDE DEF n
  <2> QED BY <2>1, <1>7 DEF AccountsFor, Accounts, n
<1> QED BY <1>8, <1>9 DEF Agree

\* One call of the batch applied.
LEMMA ApplyGrants ==
  ASSUME DurableInv, GrantInv, NEW m \in Manager, Apply(m)
  PROVE  GrantInv'
<1> USE DEF storeVars, cacheVars
<1>1. PICK k : k = pending[m][applied[m] + 1]
  OBVIOUS
<1>2. /\ TypeOK /\ issued \in Nat /\ batchNow[m] \in Nat
      /\ applied \in [Manager -> Nat] /\ mutated \in [Manager -> BOOLEAN]
      /\ working = [n \in Manager |-> working[n]]
      /\ pending \in [Manager -> Seq(Call)]
      /\ granted \in [Call -> SUBSET Grant]
      /\ outcome \in [Call -> {"unsent", "waiting", "ok", "error"}]
  BY CountersType DEF DurableInv, TypeOK
<1>3. /\ phase[m] = "apply" /\ applied[m] < Len(pending[m])
      /\ applied' = [applied EXCEPT ![m] = @ + 1]
      /\ UNCHANGED <<storedJobs, storedEtag, stray, now, request, outcome, ops, phase, etag,
                     pending, batchNow>>
  BY DEF Apply
<1>4. applied[m] + 1 \in DOMAIN pending[m] /\ k \in Call /\ k \in Hands(m)
  <2>1. applied[m] + 1 \in 1 .. Len(pending[m]) /\ pending[m] \in Seq(Call)
    BY <1>2, <1>3
  <2>2. applied[m] + 1 \in DOMAIN pending[m] /\ k \in Call
    BY <2>1, <1>1
  <2> QED BY <2>2, <1>1 DEF Hands, Batch
<1>5. \/ outcome[k] # "waiting" /\ UNCHANGED <<issued, granted, working, mutated>>
      \/ outcome[k] = "waiting" /\ (Enqueue(m, k) \/ Claim(m, k) \/ Settle(m, k))
  BY <1>1 DEF Apply
<1>6. /\ \A n \in Manager \ {m} : working'[n] = working[n] /\ mutated'[n] = mutated[n]
      /\ \A l \in Call : l # k \/ outcome[k] # "waiting" => granted'[l] = granted[l]
  BY <1>2, <1>5 DEF Enqueue, Claim, Settle
<1>7. ASSUME NEW n \in Manager, phase[n] \in {"apply", "landed"}, n # m
      PROVE  k \notin Told(n)
  <2>1. applied[n] <= Len(pending[n])
    <3>1. CASE phase[n] = "apply"
      BY <3>1 DEF DurableInv, ManagersInv, ApplyOK
    <3>2. CASE phase[n] = "landed"
      <4>1. applied[n] = Len(pending[n]) /\ applied[n] \in Nat
        BY <3>2, <1>2 DEF GrantInv, BatchAccounts
      <4> QED BY <4>1
    <3> QED BY <3>1, <3>2, <1>7
  <2>2. \A i \in 1 .. applied[n] : i \in DOMAIN pending[n]
    <3>1. pending[n] \in Seq(Call) /\ applied[n] \in Nat
      BY <1>2
    <3> QED BY <3>1, <2>1
  <2>3. Told(n) \subseteq Hands(n)
    BY <2>2 DEF Told, Hands, Batch
  <2>4. Hands(m) \cap Hands(n) = {}
    BY <1>7 DEF GrantInv, OneHand
  <2> QED BY <2>3, <2>4, <1>4
<1>8. /\ outcome[k] = "waiting" => k \notin Effective
      /\ \A l \in Effective : granted'[l] = granted[l]
  <2>1. outcome[k] = "waiting" => k \notin Effective
    BY <1>3, <1>7 DEF Effective, Answered
  <2> QED BY <2>1, <1>6, EffectiveCalls
<1>9. EffectiveStep
  <2>1. \A n \in Manager : phase[n] = "landed" => Told(n)' = Told(n)
    <3>1. \A n \in Manager : phase[n] = "landed" => applied'[n] = applied[n]
      BY <1>2, <1>3
    <3> QED BY <3>1, <1>3 DEF Told, Grants
  <2>2. Effective' \subseteq Effective
    BY <2>1, <1>3 DEF Effective, Answered
  <2> QED BY <2>2, <1>8 DEF EffectiveStep
<1>10. ASSUME NEW l \in Told(m)'
       PROVE  \/ l = k /\ Grants(k) /\ outcome[k] = "waiting"
              \/ l # k /\ l \in Told(m)
              \/ l = k /\ outcome[k] # "waiting" /\ l \in Told(m)
  <2>1. PICK i \in 1 .. applied[m] + 1 : l = pending[m][i]
    BY <1>2, <1>3 DEF Told
  <2>2. l \in Call /\ outcome[l] = "waiting" /\ Grants(l)
    BY <1>3 DEF Told, Grants
  <2>3. CASE i = applied[m] + 1
    BY <2>1, <2>2, <2>3, <1>1
  <2>4. CASE i \in 1 .. applied[m]
    <3>1. l \in Told(m)
      BY <2>1, <2>2, <2>4 DEF Told
    <3> QED BY <3>1, <2>2
  <2> QED BY <2>1, <2>3, <2>4, <1>2
<1>11. ~mutated'[m] => \A l \in Told(m)' : granted'[l] = {}
  <2>1. ~mutated[m] => \A l \in Told(m) : granted[l] = {}
    BY <1>3 DEF GrantInv, BatchAccounts
  <2>2. CASE outcome[k] # "waiting"
    BY <2>1, <2>2, <1>5, <1>10
  <2>3. CASE outcome[k] = "waiting"
    <3>1. ~mutated'[m] => ~mutated[m] /\ (Grants(k) => granted'[k] = {})
      BY <2>3, <1>1, RoundGrants
    <3>2. \A l \in Told(m) : l \in Call
      BY EffectiveCalls
    <3> QED BY <2>1, <2>3, <3>1, <3>2, <1>6, <1>10
  <2> QED BY <2>2, <2>3
<1>12. ASSUME etag[m] = storedEtag
       PROVE  Agree(Effective, Told(m), working[m], batchNow[m])'
  <2>1. CASE outcome[k] # "waiting"
    <3>1. Agree(Effective, Told(m), working[m], batchNow[m])
      BY <1>3, <1>12 DEF GrantInv, BatchAccounts
    <3>2. Told(m)' \subseteq Told(m) /\ Effective' \subseteq Effective \cup {l \in Call : granted[l] = {}}
      <4>1. Told(m)' \subseteq Told(m)
        BY <2>1, <1>10
      <4>2. Effective' \subseteq Call
        BY DEF Effective, Answered, Told
      <4> QED BY <4>1, <4>2, <2>1, <1>5, <1>9 DEF EffectiveStep
    <3>3. UNCHANGED <<granted, working, batchNow, request>>
      BY <2>1, <1>3, <1>5
    <3>4. AccountsFor(Effective \cup Told(m), working[m], batchNow[m])'
      BY <3>1, <3>2, <3>3 DEF Agree, AccountsFor, Accounts, PutBack
    <3>5. ASSUME NEW x \in Effective' \cup Told(m)', NEW y \in Told(m)', x # y
          PROVE  Apart(x, y)' /\ Apart(y, x)'
      <4>1. CASE granted[x] = {}
        BY <4>1, <3>3 DEF Apart
      <4>2. CASE granted[x] # {}
        <5>1. Apart(x, y) /\ Apart(y, x)
          BY <4>2, <3>1, <3>2, <3>5 DEF Agree
        <5> QED BY <5>1, <3>3, SameRequests DEF Apart
      <4> QED BY <4>1, <4>2
    <3> QED BY <3>4, <3>5 DEF Agree
  <2>2. CASE outcome[k] = "waiting"
    <3>1. \A l \in Told(m)' : (l = k /\ Grants(k)) \/ (l # k /\ l \in Told(m))
      BY <2>2, <1>10
    <3>2. k \notin Effective
      BY <2>2, <1>8
    <3> QED BY <3>1, <3>2, <2>2, <1>1, <1>8, <1>9, <1>12, ApplyAgrees
  <2> QED BY <2>1, <2>2
<1>13. BatchAccounts(m)'
  <2>1. batchNow[m] <= now
    BY <1>3 DEF GrantInv, BatchAccounts
  <2> QED BY <2>1, <1>3, <1>11, <1>12 DEF BatchAccounts
<1>14. GrantsOK'
  <2>1. issued' \in Nat /\ issued <= issued'
    BY ApplyAdvances
  <2>2. \A j \in DOMAIN working[m] : j <= issued
    <3>1. DOMAIN working[m] \subseteq 1 .. issued
      BY <1>3 DEF DurableInv, ManagersInv, ApplyOK, CloneInv
    <3> QED BY <3>1, <1>2
  <2>3. ASSUME NEW l \in Call
        PROVE  /\ \A g \in granted'[l] : g.job <= issued
               /\ \A g, h \in granted'[l] : g.job = h.job => g = h
    <3>1. CASE granted'[l] = granted[l]
      BY <3>1 DEF GrantInv, GrantsOK
    <3>2. CASE l = k /\ outcome[k] = "waiting"
      <4>1. /\ \A g \in granted'[k] : g \in granted[k] \/ g.job \in DOMAIN working[m]
            /\ \A g, h \in granted'[k] : g.job = h.job => g = h \/ {g, h} \subseteq granted[k]
        BY <3>2, <1>1, RoundGrants
      <4> QED BY <3>2, <4>1, <2>2 DEF GrantInv, GrantsOK
    <3> QED BY <3>1, <3>2, <1>6
  <2>4. \A l \in Call : \A g \in granted'[l] : g.job <= issued'
    <3>1. ASSUME NEW l \in Call, NEW g \in granted'[l] PROVE g.job \in Nat
      <4>1. granted' \in [Call -> SUBSET Grant]
        BY ApplyType, <1>2 DEF TypeOK
      <4> QED BY <3>1, <4>1 DEF Grant, JobId
    <3> QED BY <3>1, <2>1, <2>3, <1>2
  <2> QED BY <2>3, <2>4 DEF GrantsOK
<1>15. UnsentOK'
  BY <1>3, <1>6 DEF GrantInv, UnsentOK
<1>16. OneHand'
  <2>1. \A n \in Manager : Hands(n)' = Hands(n)
    BY <1>3 DEF Hands, Batch
  <2> QED BY <2>1, HandsKept DEF GrantInv
<1>17. RequestStep /\ CallStep
  BY <1>3 DEF RequestStep, CallStep
<1>18. \A n \in Manager \ {m} : GrantsStay(n)
  BY <1>6, <1>7, EffectiveCalls DEF GrantsStay
<1>19. \A n \in Manager \ {m} :
         UNCHANGED <<phase[n], etag[n], pending[n], applied[n], working[n], mutated[n], batchNow[n]>>
  BY <1>2, <1>3, <1>6
<1>20. \A p \in stray' \ stray : PutAccounts(p)'
  BY <1>3
<1>21. now' = now /\ UNCHANGED <<storedJobs, storedEtag>>
  BY <1>3
<1> QED BY <1>9, <1>13, <1>14, <1>15, <1>16, <1>17, <1>18, <1>19, <1>20, <1>21, OneGrants

\* A batch ends: its calls are answered, or fail, and the PUT that may be left
\* on its way was the clone of an unfinished save.
LEMMA EndGrants ==
  ASSUME DurableInv, GrantInv, NEW m \in Manager,
         LoadFails(m) \/ ReplyUnchanged(m) \/ SaveConfirmed(m) \/ SaveFails(m) \/ Crash(m)
  PROVE  GrantInv'
<1> USE DEF storeVars, cacheVars
<1>1. /\ TypeOK /\ now \in Nat /\ issued \in Nat
      /\ phase \in [Manager -> {"idle", "start", "apply", "landed"}]
      /\ etag \in [Manager -> Nat] /\ batchNow \in [Manager -> Nat]
      /\ applied \in [Manager -> Nat] /\ mutated \in [Manager -> BOOLEAN]
      /\ working = [n \in Manager |-> working[n]]
      /\ pending \in [Manager -> Seq(Call)] /\ ops \in [Manager -> Seq(Call)]
      /\ outcome \in [Call -> {"unsent", "waiting", "ok", "error"}]
  BY CountersType DEF DurableInv, TypeOK
<1>2. /\ UNCHANGED <<now, issued, storedJobs, storedEtag, request, granted>>
      /\ EndBatch(m)
  BY DEF LoadFails, ReplyUnchanged, SaveConfirmed, SaveFails, Crash
<1>3. /\ phase'[m] = "idle" /\ pending'[m] = <<>>
      /\ \A n \in Manager \ {m} :
           UNCHANGED <<phase[n], pending[n], applied[n], working[n], mutated[n], batchNow[n]>>
  BY <1>1, <1>2 DEF EndBatch
<1>4. \A n \in Manager \ {m} : etag'[n] = etag[n]
  BY <1>1 DEF LoadFails, ReplyUnchanged, SaveConfirmed, SaveFails, Crash, DropCache
<1>5. ops' \in {ops, [ops EXCEPT ![m] = <<>>]}
  BY DEF LoadFails, ReplyUnchanged, SaveConfirmed, SaveFails, Crash
<1>6. /\ CallStep /\ SentStep
      /\ \A k \in Call : outcome'[k] = "ok" =>
           \/ outcome[k] = "ok"
           \/ outcome[k] = "waiting" /\ k \in Batch(m) /\ (ReplyUnchanged(m) \/ SaveConfirmed(m))
  <2>1. CASE LoadFails(m) \/ SaveFails(m)
    <3>1. Reply(m, "error")
      BY <2>1 DEF LoadFails, SaveFails
    <3> QED BY <3>1, <1>1, <1>2 DEF Reply, CallStep, SentStep
  <2>2. CASE ReplyUnchanged(m) \/ SaveConfirmed(m)
    <3>1. Reply(m, "ok")
      BY <2>2 DEF ReplyUnchanged, SaveConfirmed
    <3> QED BY <2>2, <3>1, <1>1, <1>2 DEF Reply, CallStep, SentStep
  <2>3. CASE Crash(m)
    BY <2>3, <1>1, <1>2 DEF Crash, CallStep, SentStep
  <2> QED BY <2>1, <2>2, <2>3
<1>7. GrantsOK' /\ UnsentOK' /\ RequestStep
  BY <1>1, <1>2, <1>6, SameGrants
<1>8. BatchAccounts(m)
  BY DEF GrantInv
<1>9. EffectiveStep
  <2>1. ASSUME NEW k \in Call, outcome'[k] = "ok", Grants(k)
        PROVE  outcome[k] \in {"ok", "unsent"} \/ granted[k] = {} \/ k \in Effective
    <3> SUFFICES ASSUME outcome[k] = "waiting", k \in Batch(m),
                        ReplyUnchanged(m) \/ SaveConfirmed(m)
                 PROVE  granted[k] = {} \/ k \in Effective
      BY <2>1, <1>6
    <3>1. phase[m] \in {"apply", "landed"} /\ applied[m] = Len(pending[m])
      BY <1>8 DEF ReplyUnchanged, AllApplied, SaveConfirmed, BatchAccounts
    <3>2. k \in Told(m)
      <4>1. PICK i \in DOMAIN pending[m] : k = pending[m][i]
        BY DEF Batch
      <4>2. i \in 1 .. applied[m]
        <5>1. pending[m] \in Seq(Call)
          BY <1>1
        <5>2. DOMAIN pending[m] = 1 .. Len(pending[m])
          BY <5>1
        <5> QED BY <3>1, <5>2
      <4> QED BY <2>1, <4>1, <4>2 DEF Told
    <3>3. CASE ReplyUnchanged(m)
      BY <3>2, <3>3, <1>8 DEF ReplyUnchanged, AllApplied, BatchAccounts
    <3>4. CASE SaveConfirmed(m)
      BY <3>2, <3>4 DEF SaveConfirmed, Effective
    <3> QED BY <3>3, <3>4
  <2>2. \A n \in Manager : phase'[n] = "landed" =>
          phase[n] = "landed" /\ UNCHANGED <<pending[n], applied[n]>>
    BY <1>3
  <2>3. granted' = granted
    BY <1>2
  <2> QED BY <2>1, <2>2, <2>3, <1>6, EffectiveShrinks
<1>10. OneHand'
  <2>1. ASSUME NEW n \in Manager \ {m} PROVE Hands(n)' = Hands(n)
    <3>1. ops'[n] = ops[n]
      BY <1>1, <1>5
    <3>2. pending'[n] = pending[n]
      BY <1>3
    <3> QED BY <3>1, <3>2 DEF Hands, Batch
  <2>2. Hands(m)' \subseteq Hands(m)
    <3>1. Batch(m)' = {}
      BY <1>3 DEF Batch
    <3>2. ops'[m] = ops[m] \/ ops'[m] = <<>>
      BY <1>1, <1>5
    <3>3. {ops'[m][i] : i \in DOMAIN ops'[m]} \subseteq {ops[m][i] : i \in DOMAIN ops[m]}
      <4>1. CASE ops'[m] = ops[m]
        BY <4>1
      <4>2. CASE ops'[m] = <<>>
        BY <4>2
      <4> QED BY <3>2, <4>1, <4>2
    <3>4. Hands(m)' = Batch(m)' \cup {ops'[m][i] : i \in DOMAIN ops'[m]}
      BY DEF Hands
    <3> QED BY <3>1, <3>3, <3>4 DEF Hands
  <2> QED BY <2>1, <2>2, HandsKept DEF GrantInv
<1>11. BatchAccounts(m)'
  BY <1>3, NoBatch
<1>12. ASSUME NEW p \in stray' \ stray PROVE PutAccounts(p)'
  <2>1. Saving(m) /\ p.etag = etag[m] /\ p.jobs = working[m]
    BY <1>12 DEF LoadFails, ReplyUnchanged, SaveConfirmed, SaveFails, Crash
  <2> SUFFICES ASSUME etag[m] = storedEtag PROVE AccountsFor(Effective, p.jobs, now)'
    BY <2>1, <1>2 DEF PutAccounts
  <2>2. PICK t, n : t = working[m] /\ n = batchNow[m]
    OBVIOUS
  <2>3. n \in Nat /\ n <= now /\ AccountsFor(Effective, t, n)
    BY <2>1, <2>2, <1>1, <1>8 DEF Saving, AllApplied, BatchAccounts, Agree, AccountsFor
  <2>4. PICK n2 : n2 = now'
    OBVIOUS
  <2>5. AccountsFor(Effective, t, n2)'
    BY <2>3, <2>4, <1>1, <1>2, <1>7, <1>9, EffectiveAccounts
  <2> QED BY <2>1, <2>2, <2>4, <2>5 DEF AccountsFor, Accounts
<1>13. \A n \in Manager \ {m} : GrantsStay(n)
  BY <1>2 DEF GrantsStay
<1>14. now' = now /\ UNCHANGED <<storedJobs, storedEtag>>
  BY <1>2
<1>15. \A n \in Manager \ {m} :
         UNCHANGED <<phase[n], etag[n], pending[n], applied[n], working[n], mutated[n], batchNow[n]>>
  BY <1>3, <1>4
<1> QED BY <1>6, <1>7, <1>9, <1>10, <1>11, <1>12, <1>13, <1>14, <1>15, OneGrants

\* A save: the clone is stored, or the batch starts again.
LEMMA SaveGrants ==
  ASSUME DurableInv, GrantInv, NEW m \in Manager,
         SaveLands(m) \/ SaveRefused(m) \/ SaveRepeated(m)
  PROVE  GrantInv'
<1> USE DEF storeVars, callVars, cacheVars, batchVars
<1>1. /\ TypeOK /\ now \in Nat /\ issued \in Nat
      /\ phase \in [Manager -> {"idle", "start", "apply", "landed"}]
      /\ etag \in [Manager -> Nat] /\ batchNow \in [Manager -> Nat]
      /\ granted \in [Call -> SUBSET Grant]
      /\ BatchAccounts(m)
  BY CountersType DEF DurableInv, TypeOK, GrantInv
<1>2. UNCHANGED <<now, issued, stray, request, outcome, granted, ops, pending, applied, working,
                  mutated, batchNow>>
  BY DEF SaveLands, SaveRefused, SaveRepeated, Again
<1>3. \A n \in Manager \ {m} : UNCHANGED <<phase[n], etag[n]>>
  BY <1>1 DEF SaveLands, SaveRefused, SaveRepeated, Again, DropCache
<1>4. CallStep /\ SentStep
  BY <1>2 DEF CallStep, SentStep
<1>5. GrantsOK' /\ UnsentOK' /\ RequestStep
  BY <1>1, <1>2, <1>4, SameGrants
<1>6. OneHand'
  <2>1. \A n \in Manager : Hands(n)' = Hands(n)
    BY <1>2 DEF Hands, Batch
  <2> QED BY <2>1, HandsKept DEF GrantInv
<1>7. /\ \A p \in stray' \ stray : PutAccounts(p)'
      /\ \A n \in Manager \ {m} : GrantsStay(n)
      /\ \A n \in Manager \ {m} :
           UNCHANGED <<phase[n], etag[n], pending[n], applied[n], working[n], mutated[n], batchNow[n]>>
  BY <1>2, <1>3 DEF GrantsStay
<1>8. CASE SaveLands(m)
  <2>1. /\ phase[m] = "apply" /\ phase' = [phase EXCEPT ![m] = "landed"]
        /\ applied[m] = Len(pending[m])
        /\ etag[m] = storedEtag /\ storedEtag' = storedEtag + 1 /\ storedJobs' = working[m]
    BY <1>8 DEF SaveLands, Saving, AllApplied, Lands
  <2>2. Effective' = Effective \cup Told(m)
    <3>1. \A n \in Manager : Told(n)' = Told(n)
      BY <1>2 DEF Told, Grants
    <3>2. {n \in Manager : phase'[n] = "landed"} = {n \in Manager : phase[n] = "landed"} \cup {m}
      BY <2>1, <1>1
    <3> QED BY <3>1, <3>2, <1>2 DEF Effective, Answered
  <2>3. /\ Agree(Effective, Told(m), working[m], batchNow[m])
        /\ batchNow[m] <= now /\ batchNow[m] \in Nat
    BY <2>1, <1>1 DEF BatchAccounts
  <2>4. StoredGrants'
    <3>1. ASSUME NEW k \in Effective \cup Told(m), NEW g \in granted[k]
          PROVE  Accounts(k, g, working[m], now)
      <4>1. PICK t, n, n2 : t = working[m] /\ n = batchNow[m] /\ n2 = now
        OBVIOUS
      <4>2. k \in Call /\ g \in Grant
        BY <1>1, EffectiveCalls
      <4>3. Accounts(k, g, t, n)
        BY <4>1, <2>3 DEF Agree, AccountsFor
      <4>4. Accounts(k, g, t, n2)
        BY <4>1, <4>2, <4>3, <2>3, <1>1, AccountsLater
      <4> QED BY <4>1, <4>4
    <3>2. AccountsFor(Effective, storedJobs, now)'
      BY <3>1, <2>1, <2>2, <1>2 DEF AccountsFor, Accounts, PutBack
    <3>3. ASSUME NEW k \in Effective \cup Told(m), NEW l \in Effective \cup Told(m), k # l
          PROVE  Apart(k, l)
      <4>1. CASE k \in Effective /\ l \in Effective
        BY <4>1, <3>3 DEF GrantInv, StoredGrants
      <4>2. CASE k \in Told(m) \/ l \in Told(m)
        BY <4>2, <3>3, <2>3 DEF Agree
      <4> QED BY <4>1, <4>2
    <3>4. \A k, l : Apart(k, l) => Apart(k, l)'
      BY <1>2, SameRequests DEF Apart
    <3> QED BY <3>2, <3>3, <3>4, <2>2 DEF StoredGrants
  <2>5. BatchAccounts(m)'
    BY <2>1, <1>1, <1>2 DEF BatchAccounts
  <2> QED BY <2>1, <2>4, <2>5, <1>2, <1>4, <1>5, <1>6, <1>7, OneGrants
<1>9. CASE SaveRefused(m) \/ SaveRepeated(m)
  <2>1. phase'[m] = "start" /\ UNCHANGED <<storedJobs, storedEtag>>
    BY <1>9, <1>1 DEF SaveRefused, SaveRepeated, Again
  <2>2. BatchAccounts(m)'
    BY <2>1, NoBatch
  <2>3. EffectiveStep
    <3>1. \A n \in Manager : phase'[n] = "landed" =>
            phase[n] = "landed" /\ UNCHANGED <<pending[n], applied[n]>>
      BY <2>1, <1>2, <1>3
    <3>2. granted' = granted /\ \A k \in Call : outcome'[k] = "ok" => outcome[k] = "ok"
      BY <1>2
    <3> QED BY <3>1, <3>2, <1>4, EffectiveShrinks
  <2> QED BY <2>1, <2>2, <2>3, <1>2, <1>4, <1>5, <1>6, <1>7, OneGrants
<1> QED BY <1>8, <1>9

\* A PUT arrives whose sender no longer waits for it.
LEMMA StrayGrants ==
  ASSUME DurableInv, GrantInv, StrayArrives
  PROVE  GrantInv'
<1> USE DEF callVars, cacheVars, batchVars
<1>1. /\ TypeOK /\ now \in Nat /\ issued \in Nat
      /\ UNCHANGED <<now, issued, request, outcome, granted, ops, phase, etag, pending, applied,
                     working, mutated, batchNow>>
  BY CountersType DEF DurableInv, StrayArrives
<1>2. PICK p \in stray :
        /\ stray' = stray \ {p}
        /\ \/ Lands(p.etag, p.jobs, p.acking)
           \/ UNCHANGED <<storedJobs, storedEtag>>
  BY DEF StrayArrives
<1>3. CallStep /\ SentStep
  BY <1>1 DEF CallStep, SentStep
<1>4. GrantsOK' /\ UnsentOK' /\ RequestStep
  BY <1>1, <1>3, SameGrants
<1>5. OneHand'
  <2>1. \A n \in Manager : Hands(n)' = Hands(n)
    BY <1>1 DEF Hands, Batch
  <2> QED BY <2>1, HandsKept DEF GrantInv
<1>6. Effective' = Effective
  BY <1>1 DEF Effective, Answered, Told, Grants
<1>7. \/ UNCHANGED <<storedJobs, storedEtag>> /\ EffectiveStep
      \/ storedEtag' = storedEtag + 1 /\ StoredGrants'
  <2>1. CASE UNCHANGED <<storedJobs, storedEtag>>
    BY <2>1, <1>1, <1>6 DEF EffectiveStep
  <2>2. CASE Lands(p.etag, p.jobs, p.acking)
    <3>1. p.etag = storedEtag /\ storedEtag' = storedEtag + 1 /\ storedJobs' = p.jobs
      BY <2>2 DEF Lands
    <3>2. AccountsFor(Effective, p.jobs, now)
      BY <3>1 DEF GrantInv, PutAccounts
    <3>3. AccountsFor(Effective, storedJobs, now)'
      BY <3>1, <3>2, <1>1, <1>6 DEF AccountsFor, Accounts, PutBack
    <3>4. \A k, l \in Effective : k # l => Apart(k, l)
      BY DEF GrantInv, StoredGrants
    <3>5. \A k, l : Apart(k, l) => Apart(k, l)'
      BY <1>1, SameRequests DEF Apart
    <3> QED BY <3>1, <3>3, <3>4, <3>5, <1>6 DEF StoredGrants
  <2> QED BY <2>1, <2>2, <1>2
<1>8. \A q \in stray' \ stray : PutAccounts(q)'
  BY <1>2
<1>9. now' \in Nat /\ now <= now'
  BY <1>1
<1>10. \A m \in Manager : GrantsStay(m)
  BY <1>1 DEF GrantsStay
<1>11. \A m \in Manager : UNCHANGED <<phase[m], etag[m], pending[m], applied[m], working[m],
                                      mutated[m], batchNow[m]>>
  BY <1>1
<1> QED BY <1>3, <1>4, <1>5, <1>7, <1>8, <1>9, <1>10, <1>11, GrantKept

\* GrantInv is inductive, given DurableInv.
LEMMA NextGrants == DurableInv /\ GrantInv /\ [Next]_vars => GrantInv'
<1> SUFFICES ASSUME DurableInv, GrantInv, [Next]_vars PROVE GrantInv'
  OBVIOUS
<1>1. CASE \/ \E k \in Call : GiveUp(k) \/ \E m \in Manager : Submit(k, m)
           \/ Tick
           \/ UNCHANGED vars
  BY <1>1, CallersGrants
<1>2. CASE StrayArrives
  BY <1>2, StrayGrants
<1>3. ASSUME NEW m \in Manager, Step(m) \/ Fault(m) PROVE GrantInv'
  <2>1. CASE Collect(m) \/ Load(m) \/ Begin(m)
    BY <2>1, BeginGrants
  <2>2. CASE Apply(m)
    BY <2>2, ApplyGrants
  <2>3. CASE \/ LoadFails(m) \/ ReplyUnchanged(m) \/ SaveConfirmed(m)
             \/ SaveFails(m) \/ Crash(m)
    BY <2>3, EndGrants
  <2>4. CASE SaveLands(m) \/ SaveRefused(m) \/ SaveRepeated(m)
    BY <2>4, SaveGrants
  <2> QED BY <1>3, <2>1, <2>2, <2>3, <2>4 DEF Step, Fault
<1> QED BY <1>1, <1>2, <1>3 DEF Next

\* GrantInv holds at the start.
LEMMA InitGrants == Init => GrantInv
<1> SUFFICES ASSUME Init PROVE GrantInv
  OBVIOUS
<1>1. Effective = {}
  BY DEF Init, Effective, Answered
<1>2. GrantsOK /\ UnsentOK
  BY DEF Init, GrantsOK, UnsentOK
<1>3. OneHand
  BY DEF Init, OneHand, Hands, Batch
<1>4. StoredGrants
  BY <1>1 DEF StoredGrants, AccountsFor
<1>5. \A m \in Manager : BatchAccounts(m)
  BY DEF Init, BatchAccounts
<1>6. \A p \in stray : PutAccounts(p)
  BY DEF Init
<1> QED BY <1>2, <1>3, <1>4, <1>5, <1>6 DEF GrantInv

\* The invariant of the grants always holds.
THEOREM AlwaysAccounted == Spec => []GrantInv
BY AlwaysDurable, InitGrants, NextGrants, PTL DEF Spec

\* Two claims that are answered never grant the same attempt of the same job,
\* whichever Managers applied them and whichever saves were refused, failed,
\* repeated or late: <<job, attempt>> identifies one delivery (Claim, cloneState
\* and the compare-and-set of save).
THEOREM AttemptsFence == Spec => []AttemptFences
<1>1. GrantInv => AttemptFences
  <2> SUFFICES ASSUME GrantInv, NEW k \in Answered("claim"), NEW l \in Answered("claim"), k # l,
                      NEW g \in granted[k], NEW h \in granted[l], g.job = h.job
               PROVE  g.attempt # h.attempt
    BY DEF AttemptFences
  <2>1. Apart(k, l)
    BY DEF GrantInv, StoredGrants, Effective
  <2> QED BY <2>1 DEF Apart, NoClash, Answered
<1> QED BY <1>1, AlwaysAccounted, PTL

\* A job that an answered claim granted, or an answered heartbeat kept, is
\* granted again only a full lease later, or after its consumer asked to put it
\* back (jobClaimable and the checks of Heartbeat, Ack and Retry).
THEOREM LeasesExclude == Spec => []LeaseExclusive
<1>1. DurableInv /\ GrantInv => LeaseExclusive
  <2> SUFFICES ASSUME DurableInv, GrantInv,
                      NEW k \in Answered("claim") \cup Answered("heartbeat"),
                      NEW l \in Answered("claim"),
                      NEW g \in granted[k], NEW h \in granted[l],
                      g.job = h.job, g.attempt < h.attempt
               PROVE  h.at >= g.at + Lease \/ PutBack(k, g.job)
    BY DEF LeaseExclusive
  <2>1. CASE k = l
    <3>1. g = h
      BY <2>1 DEF GrantInv, GrantsOK, Answered
    <3>2. g.attempt \in Nat
      BY DEF DurableInv, TypeOK, Answered, Grant
    <3> QED BY <3>1, <3>2
  <2>2. CASE k # l
    <3>1. Apart(k, l)
      BY <2>2 DEF GrantInv, StoredGrants, Effective
    <3> QED BY <3>1 DEF Apart, NoClash, Answered
  <2> QED BY <2>1, <2>2
<1> QED BY <1>1, AlwaysDurable, AlwaysAccounted, PTL

-----------------------------------------------------------------------------
(***************************************************************************)
(* AckTakesEffect, when there is one Manager.  What is stored, and what is *)
(* being saved, keeps an answered claim's attempt only if the cache does,  *)
(* so that an ack that finds nothing in the cache has nothing to remove.   *)
(***************************************************************************)

\* The consumer c has the job of g, at that attempt, in the table t.
Keeps(t, c, g) == g.job \in DOMAIN t /\ t[g.job].holder = c /\ t[g.job].attempt = g.attempt

\* The ack k is of the job of g and by its consumer, c.
Acks(k, c, g) == request[k].kind = "ack" /\ request[k].consumer = c /\ g.job \in request[k].jobs

\* Of the grant g to the consumer c, and the Manager m.
CacheKeeps(m, c, g) == loaded[m] /\ Keeps(storedJobs, c, g) => Keeps(state[m], c, g)

CloneKeeps(m, c, g) ==
  phase[m] = "apply" /\ etag[m] = storedEtag /\ Keeps(working[m], c, g) => Keeps(storedJobs, c, g)

AckApplied(m, c, g) == phase[m] = "apply" /\ (etag[m] = storedEtag \/ ~mutated[m]) =>
  \A i \in 1 .. applied[m] :
    outcome[pending[m][i]] = "waiting" /\ Acks(pending[m][i], c, g) => ~Keeps(working[m], c, g)

AckLanded(m, c, g) == phase[m] = "landed" =>
  \A i \in DOMAIN pending[m] :
    outcome[pending[m][i]] = "waiting" /\ Acks(pending[m][i], c, g) => ~Keeps(storedJobs, c, g)

PutKeeps(p, c, g) == p.etag = storedEtag /\ Keeps(p.jobs, c, g) => Keeps(storedJobs, c, g)

GrantStands(c, g) ==
  /\ \A m \in Manager : /\ CacheKeeps(m, c, g) /\ CloneKeeps(m, c, g)
                        /\ AckApplied(m, c, g) /\ AckLanded(m, c, g)
  /\ \A p \in stray : PutKeeps(p, c, g)

\* Of m itself: it is never overtaken by a PUT.
InOrder(m) ==
  /\ phase[m] = "landed" => storedEtag = etag[m] + 1
  /\ phase[m] = "apply" /\ ~mutated[m] => working[m] = state[m]
  /\ \A p \in stray : loaded[m] => p.etag <= etag[m]

AckInv ==
  /\ \A m \in Manager : InOrder(m)
  /\ \A l \in Answered("claim") : \A g \in granted[l] : GrantStands(request[l].consumer, g)

\* The calls of a batch keep their requests, and none starts to wait.
LEMMA BatchCalls ==
  ASSUME DurableInv, CallStep, NEW m \in Manager, NEW i \in DOMAIN pending[m],
         NEW k, k = pending[m][i], NEW c, NEW g
  PROVE  /\ k \in Call
         /\ outcome'[k] = "waiting" => outcome[k] = "waiting"
         /\ Acks(k, c, g)' <=> Acks(k, c, g)
<1>1. pending[m] \in Seq(Call)
  BY DEF DurableInv, TypeOK
<1>2. k \in Call /\ outcome[k] # "unsent"
  BY <1>1 DEF DurableInv, SupplyInv
<1>3. request'[k] = request[k] /\ (outcome'[k] = "waiting" => outcome[k] = "waiting")
  BY <1>2 DEF CallStep
<1> QED BY <1>2, <1>3 DEF Acks

\* An answered claim's grant.
LEMMA AnsweredGrant ==
  ASSUME DurableInv, GrantInv, NEW l \in Answered("claim"), NEW g \in granted[l]
  PROVE  /\ l \in Call /\ l \in Effective /\ Holds(l) /\ g \in Grant /\ g.job <= issued
         /\ request[l].consumer \in Consumer
<1>1. l \in Call /\ Grants(l) /\ l \in Effective
  BY DEF Answered, Grants, Effective
<1>2. Holds(l)
  BY <1>1, GrantsHold DEF DurableInv
<1>3. g \in Grant /\ g.job <= issued
  BY <1>1 DEF DurableInv, TypeOK, GrantInv, GrantsOK
<1> QED BY <1>1, <1>2, <1>3 DEF Holds

\* Neither the store nor the Manager moves.
LEMMA StandsStill ==
  ASSUME DurableInv, CallStep, NEW c, NEW g, GrantStands(c, g),
         UNCHANGED <<storedJobs, storedEtag, stray>>,
         UNCHANGED <<phase, loaded, state, etag, pending, applied, working, mutated>>
  PROVE  GrantStands(c, g)'
<1>1. ASSUME NEW m \in Manager
      PROVE  (CacheKeeps(m, c, g) /\ CloneKeeps(m, c, g) /\ AckApplied(m, c, g) /\ AckLanded(m, c, g))'
  <2>1. pending[m] \in Seq(Call) /\ applied[m] \in Nat
    BY DEF DurableInv, TypeOK
  <2>2. CacheKeeps(m, c, g) /\ CloneKeeps(m, c, g) /\ AckApplied(m, c, g) /\ AckLanded(m, c, g)
    BY DEF GrantStands
  <2>3. CacheKeeps(m, c, g)' /\ CloneKeeps(m, c, g)'
    BY <2>2 DEF CacheKeeps, CloneKeeps, Keeps
  <2>4. AckLanded(m, c, g)'
    BY <2>2, BatchCalls DEF AckLanded, Keeps
  <2>5. AckApplied(m, c, g)'
    <3>1. phase[m] = "apply" => \A i \in 1 .. applied[m] : i \in DOMAIN pending[m]
      BY <2>1 DEF DurableInv, ManagersInv, ApplyOK
    <3> QED BY <3>1, <2>2, BatchCalls DEF AckApplied, Keeps
  <2> QED BY <2>3, <2>4, <2>5
<1>2. \A p \in stray' : PutKeeps(p, c, g)'
  BY DEF GrantStands, PutKeeps, Keeps
<1> QED BY <1>1, <1>2 DEF GrantStands

\* The answered claims keep what they were granted.
AnsweredStep == \A l \in Answered("claim")' :
  granted'[l] = {} \/ (l \in Answered("claim") /\ granted'[l] = granted[l] /\ request'[l] = request[l])

\* What stands for each grant stands for AckInv.
LEMMA AckKept ==
  ASSUME DurableInv, GrantInv, AckInv, AnsweredStep, \A m \in Manager : InOrder(m)',
         \A l \in Answered("claim") : \A g \in granted[l] : \A c :
           c = request[l].consumer /\ GrantStands(c, g) => GrantStands(c, g)'
  PROVE  AckInv'
<1>1. ASSUME NEW l \in Answered("claim")', NEW g \in granted'[l]
      PROVE  GrantStands(request[l].consumer, g)'
  <2>1. l \in Answered("claim") /\ granted'[l] = granted[l] /\ request'[l] = request[l]
    BY DEF AnsweredStep
  <2>2. PICK c : c = request[l].consumer
    OBVIOUS
  <2>3. GrantStands(c, g)
    BY <2>1, <2>2 DEF AckInv
  <2>4. GrantStands(c, g)'
    BY <2>1, <2>2, <2>3
  <2>5. c = request'[l].consumer
    BY <2>1, <2>2
  <2> QED BY <2>4, <2>5 DEF GrantStands, CacheKeeps, CloneKeeps, AckApplied, AckLanded, PutKeeps,
                            Keeps, Acks
<1> QED BY <1>1 DEF AckInv

\* Answered claims stay answered.
LEMMA SameAnswers ==
  ASSUME DurableInv, GrantInv, CallStep, granted' = granted,
         \A k \in Call : outcome'[k] = "ok" => outcome[k] \in {"ok", "unsent"} \/ granted[k] = {}
                                              \/ request[k].kind # "claim"
  PROVE  AnsweredStep
<1> SUFFICES ASSUME NEW l \in Answered("claim")', granted[l] # {}
             PROVE  l \in Answered("claim") /\ request'[l] = request[l]
  BY DEF AnsweredStep
<1>1. l \in Call /\ outcome'[l] = "ok" /\ request'[l].kind = "claim"
  BY DEF Answered
<1>2. outcome[l] # "unsent"
  BY <1>1 DEF GrantInv, UnsentOK
<1>3. request'[l] = request[l]
  BY <1>1, <1>2 DEF CallStep
<1> QED BY <1>1, <1>2, <1>3 DEF Answered

\* The callers and the clock.
LEMMA CallersAck ==
  ASSUME DurableInv, GrantInv, AckInv,
         \/ \E k \in Call : GiveUp(k) \/ \E m \in Manager : Submit(k, m)
         \/ Tick
         \/ UNCHANGED vars
  PROVE  AckInv' /\ \A k \in Call : outcome'[k] = "ok" => outcome[k] = "ok"
<1>1. UNCHANGED <<storedJobs, storedEtag, stray, granted, phase, loaded, state, etag, pending,
                  applied, working, mutated>>
  BY DEF GiveUp, Submit, Tick, vars, storeVars, callVars, cacheVars, batchVars
<1>2. CallStep /\ \A k \in Call : outcome'[k] = "ok" => outcome[k] = "ok"
  <2>1. outcome \in [Call -> {"unsent", "waiting", "ok", "error"}]
        /\ request \in [Call -> Request \cup {NoRequest}]
    BY DEF DurableInv, TypeOK
  <2>2. ASSUME NEW k \in Call, GiveUp(k)
        PROVE  CallStep /\ \A l \in Call : outcome'[l] = "ok" => outcome[l] = "ok"
    BY <2>1, <2>2 DEF GiveUp, CallStep
  <2>3. ASSUME NEW k \in Call, NEW m \in Manager, Submit(k, m)
        PROVE  CallStep /\ \A l \in Call : outcome'[l] = "ok" => outcome[l] = "ok"
    BY <2>1, <2>3 DEF Submit, CallStep
  <2>4. CASE Tick \/ UNCHANGED vars
    BY <2>1, <2>4 DEF Tick, vars, callVars, CallStep
  <2> QED BY <2>2, <2>3, <2>4
<1>3. AnsweredStep
  BY <1>1, <1>2, SameAnswers
<1>4. \A m \in Manager : InOrder(m)'
  BY <1>1 DEF AckInv, InOrder
<1>5. ASSUME NEW c, NEW g, GrantStands(c, g) PROVE GrantStands(c, g)'
  BY <1>1, <1>2, <1>5, StandsStill
<1> QED BY <1>2, <1>3, <1>4, <1>5, AckKept

\* A Manager gathers a batch, loads the table, clones it.
LEMMA BeginAck ==
  ASSUME DurableInv, GrantInv, AckInv, NEW m, Manager = {m}, Collect(m) \/ Load(m) \/ Begin(m)
  PROVE  AckInv'
<1> USE DEF storeVars, callVars, cacheVars, batchVars
<1>1. /\ UNCHANGED <<storedJobs, storedEtag, stray, request, outcome, granted>>
      /\ m \in Manager /\ CacheOK(m) /\ storedEtag \in Nat
      /\ phase \in [Manager -> {"idle", "start", "apply", "landed"}]
      /\ etag \in [Manager -> Nat] /\ loaded \in [Manager -> BOOLEAN]
      /\ applied \in [Manager -> Nat] /\ mutated \in [Manager -> BOOLEAN]
      /\ working = [n \in Manager |-> working[n]] /\ state = [n \in Manager |-> state[n]]
  BY CountersType DEF DurableInv, TypeOK, ManagersInv, Collect, Load, Begin
<1>2. phase'[m] \in {"start", "apply"} /\ (phase'[m] = "apply" => Begin(m))
  BY <1>1 DEF Collect, Load, Begin
<1>3. CallStep /\ AnsweredStep
  BY <1>1, SameAnswers DEF CallStep
<1>4. Begin(m) => /\ working'[m] = state[m] /\ applied'[m] = 0 /\ loaded[m]
                  /\ UNCHANGED <<loaded, state, etag>>
  BY <1>1 DEF Begin
<1>5. \/ UNCHANGED <<loaded, state, etag>>
      \/ loaded'[m] /\ state'[m] = storedJobs /\ etag'[m] = storedEtag /\ phase'[m] = "start"
  BY <1>1 DEF Collect, Load, Begin
<1>6. InOrder(m)'
  <2>1. \A p \in stray : p.etag <= storedEtag
    BY DEF DurableInv, StrayInv, CloneInv
  <2>2. \A p \in stray : loaded[m] => p.etag <= etag[m]
    BY <1>1 DEF AckInv, InOrder
  <2>3. \A p \in stray' : loaded'[m] => p.etag <= etag'[m]
    BY <2>1, <2>2, <1>1, <1>5
  <2> QED BY <2>3, <1>2, <1>4 DEF InOrder
<1>7. ASSUME NEW c, NEW g, GrantStands(c, g) PROVE GrantStands(c, g)'
  <2>1. CacheKeeps(m, c, g)
    BY <1>1, <1>7 DEF GrantStands
  <2>2. CacheKeeps(m, c, g)'
    BY <2>1, <1>1, <1>5 DEF CacheKeeps, Keeps
  <2>3. CloneKeeps(m, c, g)'
    BY <1>1, <1>2, <1>4 DEF CloneKeeps, CacheOK, Keeps
  <2>4. AckApplied(m, c, g)' /\ AckLanded(m, c, g)'
    BY <1>2, <1>4 DEF AckApplied, AckLanded
  <2>5. \A p \in stray' : PutKeeps(p, c, g)'
    BY <1>1, <1>7 DEF GrantStands, PutKeeps, Keeps
  <2> QED BY <2>2, <2>3, <2>4, <2>5 DEF GrantStands
<1>8. \A n \in Manager : InOrder(n)'
  BY <1>6
<1> QED BY <1>3, <1>7, <1>8, AckKept

\* A call that changes nothing does not mark the batch for a save.
LEMMA ApplyMarks ==
  ASSUME DurableInv, NEW m \in Manager, Apply(m)
  PROVE  /\ mutated[m] => mutated'[m]
         /\ ~mutated'[m] => working'[m] = working[m]
<1> DEFINE k == pending[m][applied[m] + 1]
           t == working[m]
           n == batchNow[m]
<1>1. /\ working = [x \in Manager |-> working[x]] /\ mutated \in [Manager -> BOOLEAN]
      /\ t = [j \in DOMAIN t |-> t[j]]
  BY DEF DurableInv, TypeOK, IsTable
<1>2. CASE UNCHANGED <<working, mutated>>
  BY <1>2
<1>3. CASE Enqueue(m, k)
  BY <1>1, <1>3 DEF Enqueue
<1>4. CASE Claim(m, k)
  <2> DEFINE S == Oldest(Claimable(t, n), request[k].limit)
             u == ClaimJobs(t, S, request[k].consumer, n)
  <2>1. working'[m] = u /\ mutated'[m] = (mutated[m] \/ S # {})
    BY <1>4, <1>1 DEF Claim
  <2> HIDE DEF S
  <2>2. S = {} => u = [j \in DOMAIN t |-> t[j]]
    BY DEF ClaimJobs
  <2> HIDE DEF u
  <2> QED BY <2>1, <2>2, <1>1
<1>5. CASE Settle(m, k)
  <2> DEFINE S == HeldJobs(t, k)
  <2>1. /\ mutated'[m] = (mutated[m] \/ S # {})
        /\ working'[m] \in {HeartbeatJobs(t, S, n), RemoveJobs(t, S),
                            RetryJobs(t, S, request[k].delay, n)}
    BY <1>5, <1>1 DEF Settle
  <2> HIDE DEF S
  <2>2. S = {} => HeartbeatJobs(t, S, n) = [j \in DOMAIN t |-> t[j]]
    BY DEF HeartbeatJobs
  <2>3. S = {} => RemoveJobs(t, S) = [j \in DOMAIN t |-> t[j]]
    BY DEF RemoveJobs
  <2>4. S = {} => RetryJobs(t, S, request[k].delay, n) = [j \in DOMAIN t |-> t[j]]
    BY DEF RetryJobs
  <2>5. S = {} => working'[m] = t
    BY <2>1, <2>2, <2>3, <2>4, <1>1
  <2> QED BY <2>1, <2>5
<1> QED BY <1>2, <1>3, <1>4, <1>5 DEF Apply

\* A call applied to a clone gives no one an attempt that he had lost, and an
\* ack takes from its consumer what it names.
LEMMA ApplyKeeps ==
  ASSUME DurableInv, NEW m \in Manager, Apply(m), NEW k, k = pending[m][applied[m] + 1],
         outcome[k] = "waiting", NEW c \in Consumer, NEW g \in Grant, g.job <= issued
  PROVE  /\ (g.job \in DOMAIN working[m] => g.attempt <= working[m][g.job].attempt)
              /\ Keeps(working'[m], c, g) => Keeps(working[m], c, g)
         /\ Acks(k, c, g) => ~Keeps(working'[m], c, g)
<1> DEFINE t == working[m]
           n == batchNow[m]
<1>1. /\ TypeOK /\ IsTable(t) /\ n \in Nat /\ issued \in Nat
      /\ working = [x \in Manager |-> working[x]]
  BY DEF DurableInv, TypeOK
<1>2. PICK u : u = working'[m]
  OBVIOUS
<1>3. Enqueue(m, k) \/ Claim(m, k) \/ Settle(m, k)
  BY DEF Apply
<1>4. CASE Enqueue(m, k)
  <2>1. u = AddJobs(t, k, issued, n) /\ ~Acks(k, c, g)
    BY <1>4, <1>1, <1>2 DEF Enqueue, Acks
  <2>2. g.job \in DOMAIN AddJobs(t, k, issued, n) =>
          g.job \in DOMAIN t /\ AddJobs(t, k, issued, n)[g.job] = t[g.job]
    <3>1. g.job \in Nat
      BY DEF Grant, JobId
    <3> QED BY <3>1, <1>1 DEF AddJobs
  <2> QED BY <2>1, <2>2, <1>2 DEF Keeps
<1>5. CASE Claim(m, k)
  <2> DEFINE S == Oldest(Claimable(t, n), request[k].limit)
             d == request[k].consumer
  <2>1. u = ClaimJobs(t, S, d, n) /\ ~Acks(k, c, g)
    BY <1>5, <1>1, <1>2 DEF Claim, Acks
  <2> HIDE DEF S
  <2>2. DOMAIN u = DOMAIN t
    BY <2>1 DEF ClaimJobs
  <2>3. \A j \in DOMAIN t : j \notin S => u[j] = t[j]
    BY <2>1 DEF ClaimJobs
  <2>4. \A j \in DOMAIN t : j \in S => t[j].attempt \in Nat /\ u[j].attempt = t[j].attempt + 1
    BY <2>1, <1>1 DEF ClaimJobs, IsTable, Job
  <2>5. ASSUME g.job \in DOMAIN t, g.attempt <= t[g.job].attempt, g.job \in S
        PROVE  g.attempt # u[g.job].attempt
    <3>1. g.attempt \in Nat /\ t[g.job].attempt \in Nat
      BY <2>4, <2>5 DEF Grant
    <3> QED BY <3>1, <2>4, <2>5
  <2> QED BY <2>1, <2>2, <2>3, <2>5, <1>2 DEF Keeps
<1>6. CASE Settle(m, k)
  <2> DEFINE S == HeldJobs(t, k)
  <2>1. request[k].kind \in {"heartbeat", "ack", "retry"}
    BY <1>6 DEF Settle
  <2>2. CASE request[k].kind = "heartbeat"
    <3>1. u = HeartbeatJobs(t, S, n) /\ ~Acks(k, c, g)
      BY <1>6, <2>2, <1>1, <1>2 DEF Settle, Acks
    <3> HIDE DEF S
    <3>2. /\ DOMAIN u = DOMAIN t
          /\ \A j \in DOMAIN t : u[j].attempt = t[j].attempt /\ u[j].holder = t[j].holder
      BY <3>1, <1>1 DEF HeartbeatJobs, IsTable, Job
    <3> QED BY <3>1, <3>2, <1>2 DEF Keeps
  <2>3. CASE request[k].kind = "ack"
    <3>1. u = RemoveJobs(t, S)
      BY <1>6, <2>3, <1>1, <1>2 DEF Settle
    <3>2. Acks(k, c, g) /\ g.job \in DOMAIN t /\ t[g.job].holder = c => g.job \in S
      BY DEF Acks, HeldJobs
    <3> HIDE DEF S
    <3>3. DOMAIN u = DOMAIN t \ S /\ \A j \in DOMAIN t \ S : u[j] = t[j]
      BY <3>1 DEF RemoveJobs
    <3> QED BY <3>2, <3>3, <1>2 DEF Keeps
  <2>4. CASE request[k].kind = "retry"
    <3>1. u = RetryJobs(t, S, request[k].delay, n) /\ ~Acks(k, c, g)
      BY <1>6, <2>4, <1>1, <1>2 DEF Settle, Acks
    <3> HIDE DEF S
    <3>2. DOMAIN u = DOMAIN t /\ \A j \in DOMAIN t : j \notin S => u[j] = t[j]
      BY <3>1 DEF RetryJobs
    <3>3. \A j \in DOMAIN t : j \in S => u[j].holder = NoConsumer
      BY <3>1, <1>1 DEF RetryJobs, IsTable, Job
    <3> QED BY <3>1, <3>2, <3>3, <1>2 DEF Keeps
  <2> QED BY <2>1, <2>2, <2>3, <2>4
<1> QED BY <1>3, <1>4, <1>5, <1>6

\* One call of the batch applied.
LEMMA ApplyAck ==
  ASSUME DurableInv, GrantInv, AckInv, NEW m, Manager = {m}, Apply(m)
  PROVE  AckInv'
<1> USE DEF storeVars, cacheVars
<1>1. PICK k : k = pending[m][applied[m] + 1]
  OBVIOUS
<1>2. /\ TypeOK /\ m \in Manager
      /\ applied[m] \in Nat /\ applied \in [Manager -> Nat]
      /\ InOrder(m) /\ BatchAccounts(m)
  BY CountersType DEF DurableInv, TypeOK, AckInv, GrantInv
<1>3. /\ phase[m] = "apply"
      /\ applied'[m] = applied[m] + 1
      /\ UNCHANGED <<storedJobs, storedEtag, stray, request, outcome, phase, loaded, state, etag,
                     pending>>
  BY <1>2 DEF Apply
<1>4. \/ outcome[k] # "waiting" /\ UNCHANGED <<granted, working, mutated>>
      \/ outcome[k] = "waiting" /\ \A l \in Call : l # k => granted'[l] = granted[l]
  BY <1>1, <1>2, RoundGrants DEF Apply
<1>5. AnsweredStep
  BY <1>3, <1>4 DEF AnsweredStep, Answered
<1>6. /\ mutated[m] => mutated'[m]
      /\ ~mutated'[m] => working'[m] = working[m]
  BY <1>2, ApplyMarks
<1>7. \A n \in Manager : InOrder(n)'
  BY <1>2, <1>3, <1>6 DEF InOrder
<1>8. ASSUME NEW l \in Answered("claim"), NEW g \in granted[l], NEW c,
             c = request[l].consumer, GrantStands(c, g)
      PROVE  GrantStands(c, g)'
  <2>1. c \in Consumer /\ g \in Grant /\ g.job <= issued /\ l \in Effective
    BY <1>8, AnsweredGrant
  <2>2. CacheKeeps(m, c, g) /\ CloneKeeps(m, c, g) /\ AckApplied(m, c, g)
    BY <1>8, <1>2 DEF GrantStands
  <2>3. etag[m] = storedEtag /\ Keeps(working'[m], c, g) => Keeps(working[m], c, g)
    <3>1. CASE outcome[k] # "waiting"
      BY <3>1, <1>4
    <3>2. CASE outcome[k] = "waiting"
      <4>1. (g.job \in DOMAIN working[m] => g.attempt <= working[m][g.job].attempt)
              /\ Keeps(working'[m], c, g) => Keeps(working[m], c, g)
        BY <3>2, <2>1, <1>1, <1>2, ApplyKeeps
      <4>2. etag[m] = storedEtag => Accounts(l, g, working[m], batchNow[m])
        BY <2>1, <1>2, <1>3 DEF BatchAccounts, Agree, AccountsFor
      <4> QED BY <4>1, <4>2 DEF Accounts
    <3> QED BY <3>1, <3>2
  <2>4. CloneKeeps(m, c, g)'
    BY <2>2, <2>3, <1>3 DEF CloneKeeps, Keeps
  <2>5. ASSUME etag[m] = storedEtag \/ ~mutated'[m], NEW i \in 1 .. applied[m] + 1,
               outcome[pending[m][i]] = "waiting", Acks(pending[m][i], c, g)
        PROVE  ~Keeps(working'[m], c, g)
    <3>1. CASE i = applied[m] + 1
      BY <3>1, <2>1, <2>5, <1>1, <1>2, ApplyKeeps
    <3>2. CASE i \in 1 .. applied[m]
      <4>1. ~Keeps(working[m], c, g)
        BY <3>2, <2>2, <2>5, <1>3, <1>6 DEF AckApplied
      <4> QED BY <4>1, <2>3, <2>5, <1>6
    <3> QED BY <3>1, <3>2, <1>2
  <2>6. AckApplied(m, c, g)'
    <3>1. \A i : Acks(pending[m][i], c, g)' <=> Acks(pending[m][i], c, g)
      BY <1>3 DEF Acks
    <3> QED BY <3>1, <2>5, <1>3 DEF AckApplied, Keeps
  <2>7. CacheKeeps(m, c, g)' /\ AckLanded(m, c, g)'
    BY <2>2, <1>3 DEF CacheKeeps, AckLanded, Keeps
  <2>8. \A p \in stray' : PutKeeps(p, c, g)'
    BY <1>3, <1>8 DEF GrantStands, PutKeeps, Keeps
  <2> QED BY <2>4, <2>6, <2>7, <2>8 DEF GrantStands
<1> QED BY <1>5, <1>7, <1>8, AckKept

\* The save is confirmed: the cache is what is stored, and so is nothing else.
LEMMA ConfirmAck ==
  ASSUME DurableInv, GrantInv, AckInv, NEW m, Manager = {m}, SaveConfirmed(m)
  PROVE  AckInv'
<1> USE DEF storeVars, cacheVars
<1>1. /\ m \in Manager /\ phase[m] = "landed" /\ storedEtag \in Nat
      /\ phase \in [Manager -> {"idle", "start", "apply", "landed"}]
      /\ etag \in [Manager -> Nat] /\ state = [n \in Manager |-> state[n]]
      /\ CacheOK(m) /\ LandedOK(m) /\ InOrder(m)
  BY CountersType DEF DurableInv, TypeOK, ManagersInv, AckInv, SaveConfirmed
<1>2. /\ UNCHANGED <<storedJobs, storedEtag, stray, loaded>>
      /\ phase'[m] = "idle" /\ state'[m] = working[m] /\ etag'[m] = etag[m] + 1
  BY <1>1 DEF SaveConfirmed, EndBatch
<1>3. storedEtag = etag[m] + 1
  BY <1>1 DEF InOrder
<1>4. working[m] = storedJobs
  BY <1>1, <1>3 DEF LandedOK
<1>5. \A p \in stray : p.etag <= etag[m] /\ p.etag \in Nat
  <2>1. \A p \in stray : p.etag <= etag[m]
    BY <1>1 DEF InOrder, CacheOK
  <2> QED BY <2>1 DEF DurableInv, TypeOK, IsPut
<1>6. \A p \in stray : p.etag <= etag[m] + 1 /\ p.etag # storedEtag
  <2>1. etag[m] \in Nat
    BY <1>1
  <2> QED BY <2>1, <1>3, <1>5
<1>7. InOrder(m)'
  BY <1>2, <1>6 DEF InOrder
<1>8. ASSUME NEW c, NEW g PROVE GrantStands(c, g)'
  <2>1. CacheKeeps(m, c, g)'
    BY <1>2, <1>4 DEF CacheKeeps, Keeps
  <2>2. CloneKeeps(m, c, g)' /\ AckApplied(m, c, g)' /\ AckLanded(m, c, g)'
    BY <1>2 DEF CloneKeeps, AckApplied, AckLanded
  <2>3. \A p \in stray' : PutKeeps(p, c, g)'
    BY <1>2, <1>6 DEF PutKeeps
  <2>4. \A n \in Manager : n = m
    OBVIOUS
  <2> QED BY <2>1, <2>2, <2>3, <2>4 DEF GrantStands
<1>9. ASSUME NEW l \in Answered("claim")', NEW g \in granted'[l]
      PROVE  GrantStands(request[l].consumer, g)'
  <2>1. PICK c : c = request'[l].consumer
    OBVIOUS
  <2>2. GrantStands(c, g)'
    BY <1>8
  <2> QED BY <2>1, <2>2 DEF GrantStands, CacheKeeps, CloneKeeps, AckApplied, AckLanded, PutKeeps,
                            Keeps, Acks
<1>10. \A n \in Manager : InOrder(n)'
  BY <1>7
<1> QED BY <1>9, <1>10 DEF AckInv

\* The batch ends without a confirmed save.
LEMMA EndAck ==
  ASSUME DurableInv, GrantInv, AckInv, NEW m, Manager = {m},
         LoadFails(m) \/ ReplyUnchanged(m) \/ SaveFails(m) \/ Crash(m)
  PROVE  AckInv'
<1> USE DEF storeVars, cacheVars
<1>1. /\ m \in Manager /\ storedEtag \in Nat
      /\ phase \in [Manager -> {"idle", "start", "apply", "landed"}]
      /\ outcome \in [Call -> {"unsent", "waiting", "ok", "error"}]
      /\ etag \in [Manager -> Nat] /\ loaded \in [Manager -> BOOLEAN]
      /\ pending \in [Manager -> Seq(Call)]
      /\ CacheOK(m) /\ InOrder(m) /\ BatchAccounts(m)
  BY CountersType DEF DurableInv, TypeOK, ManagersInv, AckInv, GrantInv
<1>2. /\ UNCHANGED <<storedJobs, storedEtag, request, granted>>
      /\ EndBatch(m)
  BY DEF LoadFails, ReplyUnchanged, SaveFails, Crash
<1>3. phase'[m] = "idle"
  BY <1>1, <1>2 DEF EndBatch
<1>4. \/ UNCHANGED <<loaded, state, etag>>
      \/ ~loaded'[m]
  BY <1>1 DEF LoadFails, ReplyUnchanged, SaveFails, Crash, DropCache
<1>5. \A p \in stray' : p \in stray \/ (Saving(m) /\ p.etag = etag[m] /\ p.jobs = working[m])
  BY DEF LoadFails, ReplyUnchanged, SaveFails, Crash
<1>6. /\ CallStep
      /\ \A k \in Call : outcome'[k] = "ok" =>
           \/ outcome[k] = "ok"
           \/ outcome[k] = "waiting" /\ k \in Batch(m) /\ ReplyUnchanged(m)
  <2>1. CASE LoadFails(m) \/ SaveFails(m)
    <3>1. Reply(m, "error")
      BY <2>1 DEF LoadFails, SaveFails
    <3> QED BY <3>1, <1>1, <1>2 DEF Reply, CallStep
  <2>2. CASE ReplyUnchanged(m)
    <3>1. Reply(m, "ok")
      BY <2>2 DEF ReplyUnchanged
    <3> QED BY <2>2, <3>1, <1>1, <1>2 DEF Reply, CallStep
  <2>3. CASE Crash(m)
    BY <2>3, <1>1, <1>2 DEF Crash, CallStep
  <2> QED BY <2>1, <2>2, <2>3
<1>7. AnsweredStep
  <2>1. ASSUME NEW k \in Call, outcome'[k] = "ok"
        PROVE  outcome[k] \in {"ok", "unsent"} \/ granted[k] = {} \/ request[k].kind # "claim"
    <3> SUFFICES ASSUME outcome[k] = "waiting", k \in Batch(m), ReplyUnchanged(m),
                        request[k].kind = "claim"
                 PROVE  granted[k] = {}
      BY <2>1, <1>6
    <3>1. phase[m] = "apply" /\ ~mutated[m] /\ applied[m] = Len(pending[m])
      BY DEF ReplyUnchanged, AllApplied
    <3>2. PICK i \in DOMAIN pending[m] : k = pending[m][i]
      BY DEF Batch
    <3>3. i \in 1 .. applied[m]
      <4>1. pending[m] \in Seq(Call)
        BY <1>1
      <4>2. DOMAIN pending[m] = 1 .. Len(pending[m])
        BY <4>1
      <4> QED BY <3>1, <4>2
    <3>4. k \in Told(m)
      BY <3>2, <3>3 DEF Told, Grants
    <3> QED BY <3>1, <3>4, <1>1 DEF BatchAccounts
  <2> QED BY <2>1, <1>2, <1>6, SameAnswers
<1>8. \A n \in Manager : InOrder(n)'
  <2>1. \A p \in stray : loaded[m] => p.etag <= etag[m]
    BY <1>1 DEF InOrder
  <2>2. \A p \in stray' : loaded'[m] => p.etag <= etag'[m]
    BY <2>1, <1>1, <1>4, <1>5
  <2>3. InOrder(m)'
    BY <2>2, <1>3 DEF InOrder
  <2> QED BY <2>3
<1>9. ASSUME NEW c, NEW g, GrantStands(c, g) PROVE GrantStands(c, g)'
  <2>1. CacheKeeps(m, c, g) /\ CloneKeeps(m, c, g)
    BY <1>1, <1>9 DEF GrantStands
  <2>2. CacheKeeps(m, c, g)'
    BY <2>1, <1>2, <1>4 DEF CacheKeeps, Keeps
  <2>3. CloneKeeps(m, c, g)' /\ AckApplied(m, c, g)' /\ AckLanded(m, c, g)'
    BY <1>3 DEF CloneKeeps, AckApplied, AckLanded
  <2>4. ASSUME NEW p \in stray' PROVE PutKeeps(p, c, g)'
    <3>1. CASE p \in stray
      BY <3>1, <1>2, <1>9 DEF GrantStands, PutKeeps, Keeps
    <3>2. CASE Saving(m) /\ p.etag = etag[m] /\ p.jobs = working[m]
      BY <3>2, <2>1, <1>2 DEF CloneKeeps, PutKeeps, Keeps, Saving, AllApplied
    <3> QED BY <3>1, <3>2, <1>5
  <2>5. \A n \in Manager : n = m
    OBVIOUS
  <2> QED BY <2>2, <2>3, <2>4, <2>5 DEF GrantStands
<1> QED BY <1>7, <1>8, <1>9, AckKept

\* A save: the clone is stored, or the batch starts again.
LEMMA SaveAck ==
  ASSUME DurableInv, GrantInv, AckInv, NEW m, Manager = {m},
         SaveLands(m) \/ SaveRefused(m) \/ SaveRepeated(m)
  PROVE  AckInv'
<1> USE DEF storeVars, callVars, cacheVars, batchVars
<1>1. /\ m \in Manager /\ storedEtag \in Nat
      /\ phase \in [Manager -> {"idle", "start", "apply", "landed"}]
      /\ etag \in [Manager -> Nat] /\ loaded \in [Manager -> BOOLEAN]
      /\ pending \in [Manager -> Seq(Call)]
      /\ CacheOK(m) /\ InOrder(m)
      /\ \A n \in Manager : n = m
  BY CountersType DEF DurableInv, TypeOK, ManagersInv, AckInv
<1>2. UNCHANGED <<stray, request, outcome, granted, pending, applied, working, mutated>>
  BY DEF SaveLands, SaveRefused, SaveRepeated, Again
<1>3. AnsweredStep
  BY <1>2 DEF AnsweredStep, Answered
<1>4. \A p \in stray : p.etag \in Nat /\ p.etag <= storedEtag
  BY DEF DurableInv, TypeOK, IsPut, StrayInv, CloneInv
<1>5. CASE SaveLands(m)
  <2>1. /\ phase[m] = "apply" /\ phase'[m] = "landed" /\ applied[m] = Len(pending[m])
        /\ etag[m] = storedEtag /\ storedEtag' = storedEtag + 1 /\ storedJobs' = working[m]
        /\ UNCHANGED <<loaded, state, etag>>
    BY <1>5, <1>1 DEF SaveLands, Saving, AllApplied, Lands
  <2>2. InOrder(m)'
    BY <2>1, <1>1, <1>2 DEF InOrder
  <2>3. ASSUME NEW c, NEW g, GrantStands(c, g) PROVE GrantStands(c, g)'
    <3>1. CacheKeeps(m, c, g) /\ CloneKeeps(m, c, g) /\ AckApplied(m, c, g)
      BY <1>1, <2>3 DEF GrantStands
    <3>2. CacheKeeps(m, c, g)'
      BY <3>1, <2>1 DEF CacheKeeps, CloneKeeps, Keeps
    <3>3. AckLanded(m, c, g)'
      <4>1. \A i : Acks(pending[m][i], c, g)' <=> Acks(pending[m][i], c, g)
        BY <1>2 DEF Acks
      <4>2. DOMAIN pending[m] = 1 .. Len(pending[m])
        BY <1>1
      <4> QED BY <4>1, <4>2, <3>1, <2>1, <1>2 DEF AckApplied, AckLanded, Keeps
    <3>4. CloneKeeps(m, c, g)' /\ AckApplied(m, c, g)'
      BY <2>1 DEF CloneKeeps, AckApplied
    <3>5. \A p \in stray' : PutKeeps(p, c, g)'
      <4>1. \A p \in stray : p.etag # storedEtag + 1
        BY <1>1, <1>4
      <4> QED BY <4>1, <2>1, <1>2 DEF PutKeeps
    <3> QED BY <3>2, <3>3, <3>4, <3>5, <1>1 DEF GrantStands
  <2>4. \A n \in Manager : InOrder(n)'
    BY <2>2, <1>1
  <2> QED BY <2>3, <2>4, <1>3, AckKept
<1>6. CASE SaveRefused(m) \/ SaveRepeated(m)
  <2>1. phase'[m] = "start" /\ ~loaded'[m] /\ UNCHANGED <<storedJobs, storedEtag>>
    BY <1>6, <1>1 DEF SaveRefused, SaveRepeated, Again, DropCache
  <2>2. InOrder(m)'
    BY <2>1 DEF InOrder
  <2>3. ASSUME NEW c, NEW g, GrantStands(c, g) PROVE GrantStands(c, g)'
    <3>1. CacheKeeps(m, c, g)' /\ CloneKeeps(m, c, g)' /\ AckApplied(m, c, g)' /\ AckLanded(m, c, g)'
      BY <2>1 DEF CacheKeeps, CloneKeeps, AckApplied, AckLanded
    <3>2. \A p \in stray' : PutKeeps(p, c, g)'
      BY <2>1, <1>2, <2>3 DEF GrantStands, PutKeeps, Keeps
    <3> QED BY <3>1, <3>2, <1>1 DEF GrantStands
  <2>4. \A n \in Manager : InOrder(n)'
    BY <2>2, <1>1
  <2> QED BY <2>3, <2>4, <1>3, AckKept
<1> QED BY <1>5, <1>6

\* A PUT arrives whose sender no longer waits for it.
LEMMA StrayAck ==
  ASSUME DurableInv, GrantInv, AckInv, NEW m, Manager = {m}, StrayArrives
  PROVE  AckInv'
<1> USE DEF callVars, cacheVars, batchVars
<1>1. /\ m \in Manager /\ storedEtag \in Nat /\ etag[m] \in Nat
      /\ CacheOK(m) /\ InOrder(m) /\ ApplyOK(m)
      /\ \A n \in Manager : n = m
  BY CountersType DEF DurableInv, TypeOK, ManagersInv, AckInv
<1>2. UNCHANGED <<request, outcome, granted, phase, loaded, state, etag, pending, applied,
                  working, mutated>>
  BY DEF StrayArrives
<1>3. AnsweredStep
  BY <1>2 DEF AnsweredStep, Answered
<1>4. PICK p \in stray :
        /\ stray' = stray \ {p}
        /\ \/ Lands(p.etag, p.jobs, p.acking)
           \/ UNCHANGED <<storedJobs, storedEtag>>
  BY DEF StrayArrives
<1>5. \A q \in stray : q.etag \in Nat /\ q.etag <= storedEtag
  BY DEF DurableInv, TypeOK, IsPut, StrayInv, CloneInv
<1>6. CASE UNCHANGED <<storedJobs, storedEtag>>
  <2>1. InOrder(m)'
    BY <1>6, <1>1, <1>2, <1>4 DEF InOrder
  <2>2. ASSUME NEW c, NEW g, GrantStands(c, g) PROVE GrantStands(c, g)'
    <3>1. CacheKeeps(m, c, g) /\ CloneKeeps(m, c, g) /\ AckApplied(m, c, g) /\ AckLanded(m, c, g)
      BY <1>1, <2>2 DEF GrantStands
    <3>2. CacheKeeps(m, c, g)' /\ CloneKeeps(m, c, g)'
      BY <3>1, <1>2, <1>6 DEF CacheKeeps, CloneKeeps, Keeps
    <3>3. \A i : Acks(pending[m][i], c, g)' <=> Acks(pending[m][i], c, g)
      BY <1>2 DEF Acks
    <3>4. AckApplied(m, c, g)' /\ AckLanded(m, c, g)'
      BY <3>1, <3>3, <1>2, <1>6 DEF AckApplied, AckLanded, Keeps
    <3>5. \A q \in stray' : PutKeeps(q, c, g)'
      BY <1>4, <1>6, <2>2 DEF GrantStands, PutKeeps, Keeps
    <3> QED BY <3>2, <3>4, <3>5, <1>1 DEF GrantStands
  <2>3. \A n \in Manager : InOrder(n)'
    BY <2>1, <1>1
  <2> QED BY <2>2, <2>3, <1>3, AckKept
<1>7. CASE Lands(p.etag, p.jobs, p.acking)
  <2>1. p.etag = storedEtag /\ storedEtag' = storedEtag + 1 /\ storedJobs' = p.jobs
    BY <1>7 DEF Lands
  <2>2. phase[m] # "landed"
    <3>1. phase[m] = "landed" => storedEtag = etag[m] + 1 /\ p.etag <= etag[m]
      BY <1>1 DEF InOrder, CacheOK
    <3> QED BY <3>1, <2>1, <1>1
  <2>3. InOrder(m)'
    BY <2>1, <2>2, <1>1, <1>2, <1>4 DEF InOrder
  <2>4. ASSUME NEW c, NEW g, GrantStands(c, g) PROVE GrantStands(c, g)'
    <3>1. CacheKeeps(m, c, g) /\ AckApplied(m, c, g) /\ PutKeeps(p, c, g)
      BY <1>1, <2>4 DEF GrantStands
    <3>2. CacheKeeps(m, c, g)'
      BY <3>1, <2>1, <1>2 DEF CacheKeeps, PutKeeps, Keeps
    <3>3. phase[m] = "apply" => etag[m] # storedEtag + 1
      <4>1. phase[m] = "apply" => etag[m] <= storedEtag
        BY <1>1 DEF ApplyOK, CloneInv
      <4> QED BY <4>1, <1>1
    <3>4. CloneKeeps(m, c, g)' /\ AckLanded(m, c, g)'
      BY <3>3, <2>1, <2>2, <1>2 DEF CloneKeeps, AckLanded
    <3>5. AckApplied(m, c, g)'
      <4>1. \A i : Acks(pending[m][i], c, g)' <=> Acks(pending[m][i], c, g)
        BY <1>2 DEF Acks
      <4> QED BY <4>1, <3>1, <3>3, <2>1, <1>2 DEF AckApplied, Keeps
    <3>6. \A q \in stray' : PutKeeps(q, c, g)'
      <4>1. \A q \in stray : q.etag # storedEtag + 1
        BY <1>1, <1>5
      <4> QED BY <4>1, <2>1, <1>4 DEF PutKeeps
    <3> QED BY <3>2, <3>4, <3>5, <3>6, <1>1 DEF GrantStands
  <2>5. \A n \in Manager : InOrder(n)'
    BY <2>3, <1>1
  <2> QED BY <2>4, <2>5, <1>3, AckKept
<1> QED BY <1>4, <1>6, <1>7

\* AckInv is inductive when there is one Manager, given the others.
LEMMA NextAck ==
  ASSUME NEW m, Manager = {m}
  PROVE  DurableInv /\ GrantInv /\ AckInv /\ [Next]_vars => AckInv'
<1> SUFFICES ASSUME DurableInv, GrantInv, AckInv, [Next]_vars PROVE AckInv'
  OBVIOUS
<1>1. CASE \/ \E k \in Call : GiveUp(k) \/ \E n \in Manager : Submit(k, n)
           \/ Tick
           \/ UNCHANGED vars
  BY <1>1, CallersAck
<1>2. CASE StrayArrives
  BY <1>2, StrayAck
<1>3. CASE Step(m) \/ Fault(m)
  <2>1. CASE Collect(m) \/ Load(m) \/ Begin(m)
    BY <2>1, BeginAck
  <2>2. CASE Apply(m)
    BY <2>2, ApplyAck
  <2>3. CASE SaveConfirmed(m)
    BY <2>3, ConfirmAck
  <2>4. CASE LoadFails(m) \/ ReplyUnchanged(m) \/ SaveFails(m) \/ Crash(m)
    BY <2>4, EndAck
  <2>5. CASE SaveLands(m) \/ SaveRefused(m) \/ SaveRepeated(m)
    BY <2>5, SaveAck
  <2> QED BY <1>3, <2>1, <2>2, <2>3, <2>4, <2>5 DEF Step, Fault
<1> QED BY <1>1, <1>2, <1>3 DEF Next

\* AckInv holds at the start.
LEMMA InitAck == Init => AckInv
BY DEF Init, AckInv, InOrder, Answered

\* An ack is answered without error by the end of a batch.
LEMMA AckAnswered ==
  ASSUME DurableInv, GrantInv, AckInv, NEW m, Manager = {m}, [Next]_vars,
         NEW k \in Call, outcome[k] = "waiting", outcome'[k] = "ok"
  PROVE  k \in Batch(m) /\ (ReplyUnchanged(m) \/ SaveConfirmed(m))
<1> USE DEF storeVars, callVars, cacheVars, batchVars
<1>1. outcome \in [Call -> {"unsent", "waiting", "ok", "error"}]
  BY DEF DurableInv, TypeOK
<1>2. ~ \/ \E x \in Call : GiveUp(x) \/ \E n \in Manager : Submit(x, n)
        \/ Tick
        \/ UNCHANGED vars
  BY CallersAck
<1>3. ~ \/ StrayArrives \/ Collect(m) \/ Load(m) \/ Begin(m) \/ Apply(m)
        \/ SaveLands(m) \/ SaveRefused(m) \/ SaveRepeated(m)
  BY DEF StrayArrives, Collect, Load, Begin, Apply, SaveLands, SaveRefused, SaveRepeated, Again
<1>4. ~ \/ LoadFails(m) \/ SaveFails(m) \/ Crash(m)
  BY <1>1 DEF LoadFails, SaveFails, Crash, Reply
<1>5. ReplyUnchanged(m) \/ SaveConfirmed(m)
  BY <1>2, <1>3, <1>4 DEF Next, Step, Fault
<1>6. Reply(m, "ok")
  BY <1>5 DEF ReplyUnchanged, SaveConfirmed
<1> QED BY <1>1, <1>5, <1>6 DEF Reply

\* When it is, what it names is gone or in other hands.
LEMMA AckRemoves ==
  ASSUME DurableInv, GrantInv, AckInv, NEW m, Manager = {m}, [Next]_vars,
         NEW k \in Call, NEW l \in Answered("claim"), NEW g \in granted[l], NEW c,
         c = request[l].consumer, Acks(k, c, g), outcome[k] = "waiting", outcome'[k] = "ok"
  PROVE  ~Keeps(storedJobs', c, g)
<1>1. /\ m \in Manager /\ pending[m] \in Seq(Call) /\ CacheOK(m) /\ InOrder(m)
  BY DEF DurableInv, TypeOK, ManagersInv, AckInv
<1>2. CacheKeeps(m, c, g) /\ AckApplied(m, c, g) /\ AckLanded(m, c, g)
  BY <1>1 DEF AckInv, GrantStands
<1>3. k \in Batch(m) /\ (ReplyUnchanged(m) \/ SaveConfirmed(m))
  BY AckAnswered
<1>4. PICK i \in DOMAIN pending[m] : k = pending[m][i]
  BY <1>3 DEF Batch
<1>5. storedJobs' = storedJobs
  BY <1>3 DEF ReplyUnchanged, SaveConfirmed, storeVars
<1>6. CASE SaveConfirmed(m)
  BY <1>2, <1>4, <1>5, <1>6 DEF SaveConfirmed, AckLanded
<1>7. CASE ReplyUnchanged(m)
  <2>1. phase[m] = "apply" /\ ~mutated[m] /\ applied[m] = Len(pending[m])
    BY <1>7 DEF ReplyUnchanged, AllApplied
  <2>2. DOMAIN pending[m] = 1 .. Len(pending[m])
    BY <1>1
  <2>3. ~Keeps(working[m], c, g)
    BY <2>1, <2>2, <1>2, <1>4 DEF AckApplied
  <2>4. working[m] = state[m] /\ loaded[m]
    BY <2>1, <1>1 DEF InOrder, CacheOK
  <2> QED BY <2>3, <2>4, <1>2, <1>5 DEF CacheKeeps
<1> QED BY <1>3, <1>6, <1>7

\* With one Manager to the key, as the broker is deployed, an ack that is
\* answered without error has taken effect: no attempt that a claim had told
\* its consumer of is left to it in the stored table, whatever PUT of a save
\* that failed arrived in between.  It needs the one Manager: with a second, a
\* batch that changes nothing is answered from a cache that may be stale
\* (run, at "if !mutated"; Ack).
THEOREM LoneManagerAcks ==
  ASSUME NEW CONSTANT m, Manager = {m}
  PROVE  Spec => AckTakesEffect
<1>1. DurableInv /\ GrantInv /\ AckInv /\ [Next]_vars =>
        [\A k \in Call, l \in Answered("claim") :
           /\ request[k].kind = "ack" /\ request[k].consumer = request[l].consumer
           /\ outcome[k] = "waiting" /\ outcome'[k] = "ok"
           => \A g \in granted[l] :
                ~ /\ g.job \in request[k].jobs \cap DOMAIN storedJobs'
                  /\ storedJobs'[g.job].holder = request[k].consumer
                  /\ storedJobs'[g.job].attempt = g.attempt]_vars
  <2> SUFFICES ASSUME DurableInv, GrantInv, AckInv, [Next]_vars,
                      NEW k \in Call, NEW l \in Answered("claim"),
                      request[k].kind = "ack", request[k].consumer = request[l].consumer,
                      outcome[k] = "waiting", outcome'[k] = "ok",
                      NEW g \in granted[l], g.job \in request[k].jobs
               PROVE  ~ /\ g.job \in DOMAIN storedJobs'
                        /\ storedJobs'[g.job].holder = request[k].consumer
                        /\ storedJobs'[g.job].attempt = g.attempt
    OBVIOUS
  <2>1. PICK c : c = request[l].consumer
    OBVIOUS
  <2>2. Acks(k, c, g)
    BY <2>1 DEF Acks
  <2>3. ~Keeps(storedJobs', c, g)
    BY <2>1, <2>2, AckRemoves
  <2> QED BY <2>1, <2>3 DEF Keeps
<1>2. DurableInv /\ GrantInv /\ AckInv /\ [Next]_vars => AckInv'
  BY NextAck
<1> QED BY <1>1, <1>2, InitAck, AlwaysDurable, AlwaysAccounted, PTL DEF Spec, AckTakesEffect

=============================================================================
