------------------------- MODULE QueueManagerProofs -------------------------
(***************************************************************************)
(* What holds of QueueManager for any number of Managers, consumers, calls *)
(* and faults.                                                             *)
(***************************************************************************)
EXTENDS QueueManager, TLAPS

USE LeaseAssumption, DelaysAssumption, BoundsAssumption, ConsumerAssumption

-----------------------------------------------------------------------------
(***************************************************************************)
(* The apply functions return tables.                                      *)
(***************************************************************************)

\* The empty table is a table.
LEMMA NoJobsTable == IsTable(NoJobs)
BY DEF IsTable, NoJobs

\* Enqueue appends well-formed jobs.
LEMMA AddJobsTable ==
  ASSUME NEW t, IsTable(t), NEW k \in Call, NEW n \in Nat, NEW at \in Nat,
         request[k].count \in JobId, request[k].delay \in Nat
  PROVE  IsTable(AddJobs(t, k, n, at))
<1> DEFINE new == AddJobs(t, k, n, at)
<1>1. DOMAIN new = DOMAIN t \cup (n + 1 .. n + request[k].count)
  BY DEF AddJobs
<1>2. DOMAIN new \subseteq JobId
  BY <1>1 DEF IsTable, JobId
<1>3. ASSUME NEW j \in DOMAIN new PROVE new[j] \in Job
  <2>1. CASE j \in DOMAIN t
    BY <2>1, <1>1 DEF AddJobs, IsTable
  <2>2. CASE j \notin DOMAIN t
    <3>1. j - n \in JobId
      BY <2>2, <1>1 DEF JobId
    <3>2. at + request[k].delay \in Nat
      OBVIOUS
    <3> QED
      BY <3>1, <3>2, <2>2, <1>1 DEF AddJobs, Job, Item
  <2> QED BY <2>1, <2>2
<1> QED BY <1>1, <1>2, <1>3 DEF IsTable, AddJobs

\* Claim changes the attempt, the holder and the heartbeat of a job.
LEMMA ClaimJobsTable ==
  ASSUME NEW t, IsTable(t), NEW S, NEW c \in Consumer, NEW at \in Nat
  PROVE  IsTable(ClaimJobs(t, S, c, at))
<1> DEFINE new == ClaimJobs(t, S, c, at)
<1>1. DOMAIN new = DOMAIN t /\ new = [j \in DOMAIN new |-> new[j]]
  BY DEF ClaimJobs
<1>2. ASSUME NEW j \in DOMAIN t PROVE new[j] \in Job
  <2>1. t[j] \in Job
    BY DEF IsTable
  <2>2. [t[j] EXCEPT !.attempt = @ + 1, !.holder = c, !.heartbeatAt = at] \in Job
    <3>1. t[j].attempt \in Nat /\ t[j].attempt + 1 \in Nat
      BY <2>1 DEF Job
    <3> QED BY <2>1, <3>1 DEF Job
  <2> QED BY <2>1, <2>2 DEF ClaimJobs
<1> QED BY <1>1, <1>2 DEF IsTable

\* Heartbeat, Ack and Retry return tables.
LEMMA SettleTable ==
  ASSUME NEW t, IsTable(t), NEW S, NEW at \in Nat, NEW delay \in Nat
  PROVE  /\ IsTable(HeartbeatJobs(t, S, at))
         /\ IsTable(RemoveJobs(t, S))
         /\ IsTable(RetryJobs(t, S, delay, at))
<1>1. IsTable(HeartbeatJobs(t, S, at))
  BY DEF HeartbeatJobs, IsTable, Job
<1>2. IsTable(RemoveJobs(t, S))
  BY DEF RemoveJobs, IsTable
<1>3. IsTable(RetryJobs(t, S, delay, at))
  <2> DEFINE new == RetryJobs(t, S, delay, at)
  <2>1. DOMAIN new = DOMAIN t /\ new = [j \in DOMAIN new |-> new[j]]
    BY DEF RetryJobs
  <2>2. ASSUME NEW j \in DOMAIN t PROVE new[j] \in Job
    <3>1. t[j] \in Job /\ at + delay \in Nat
      BY DEF IsTable
    <3>2. [t[j] EXCEPT !.holder = NoConsumer, !.heartbeatAt = 0,
                       !.availableAt = at + delay] \in Job
      BY <3>1 DEF Job
    <3> QED BY <3>1, <3>2 DEF RetryJobs
  <2> QED BY <2>1, <2>2 DEF IsTable
<1> QED BY <1>1, <1>2, <1>3

-----------------------------------------------------------------------------
(***************************************************************************)
(* Type correctness.                                                       *)
(***************************************************************************)

\* The numbers.
LEMMA CountersType ==
  ASSUME TypeOK
  PROVE  /\ storedEtag \in Nat /\ now \in Nat /\ issued \in Nat /\ faults \in Nat
         /\ etag \in [Manager -> Nat] /\ batchNow \in [Manager -> Nat]
         /\ applied \in [Manager -> Nat]
BY DEF TypeOK

\* The jobs a consumer knows of are job ids.
LEMMA GrantedIds ==
  ASSUME TypeOK, NEW c \in Consumer
  PROVE  GrantedTo(c) \subseteq JobId
BY DEF TypeOK, GrantedTo, Grant

\* What can be asked is a request.
LEMMA RequestsType == ASSUME TypeOK PROVE Requests \subseteq Request
<1> SUFFICES ASSUME NEW r \in Requests PROVE r \in Request
  OBVIOUS
<1>1. CASE r \in [kind : {"enqueue"}, count : 1 .. MaxItems, delay : Delays]
  BY <1>1 DEF Request, JobId
<1>2. CASE r \in [kind : {"claim"}, consumer : Consumer, limit : 1 .. MaxLimit]
  BY <1>2 DEF Request, JobId
<1>3. ASSUME NEW c \in Consumer,
             r \in [kind : {"heartbeat", "ack"}, consumer : {c},
                    jobs : SUBSET GrantedTo(c) \ {{}}]
      PROVE  r \in Request
  BY <1>3, GrantedIds DEF Request
<1>4. ASSUME NEW c \in Consumer,
             r \in [kind : {"retry"}, consumer : {c},
                    jobs : SUBSET GrantedTo(c) \ {{}}, delay : Delays]
      PROVE  r \in Request
  BY <1>4, GrantedIds DEF Request
<1> QED BY <1>1, <1>2, <1>3, <1>4 DEF Requests

\* The fields of a request, by its kind.
LEMMA RequestFields ==
  ASSUME NEW r \in Request \cup {NoRequest}
  PROVE  /\ r.kind = "enqueue" => r.count \in JobId /\ r.delay \in Nat
         /\ r.kind = "claim" => r.consumer \in Consumer
         /\ r.kind = "retry" => r.delay \in Nat
<1>1. CASE r \in [kind : {"enqueue"}, count : JobId, delay : Delays]
  BY <1>1
<1>2. CASE r \in [kind : {"claim"}, consumer : Consumer, limit : JobId]
  BY <1>2
<1>3. CASE r \in [kind : {"heartbeat", "ack"}, consumer : Consumer, jobs : SUBSET JobId]
  BY <1>3
<1>4. CASE r \in [kind : {"retry"}, consumer : Consumer, jobs : SUBSET JobId,
                  delay : Delays]
  BY <1>4
<1>5. CASE r = NoRequest
  BY <1>5 DEF NoRequest
<1> QED BY <1>1, <1>2, <1>3, <1>4, <1>5 DEF Request

\* A reply only sets outcomes.
LEMMA ReplyType ==
  ASSUME TypeOK, NEW m \in Manager, NEW result \in {"ok", "error"}, Reply(m, result)
  PROVE  outcome' \in [Call -> {"unsent", "waiting", "ok", "error"}]
BY DEF TypeOK, Reply

\* The locals of a finished batch.
LEMMA EndBatchType ==
  ASSUME TypeOK, NEW m \in Manager, EndBatch(m)
  PROVE  /\ phase' \in [Manager -> {"idle", "start", "apply", "landed"}]
         /\ pending' \in [Manager -> Seq(Call)]
         /\ applied' \in [Manager -> Nat]
         /\ mutated' \in [Manager -> BOOLEAN]
         /\ batchNow' \in [Manager -> Nat]
         /\ acking' \in [Manager -> SUBSET (JobId \X Item)]
         /\ working' = [n \in Manager |-> working'[n]]
         /\ \A n \in Manager : IsTable(working'[n])
<1>1. /\ working' = [n \in Manager |-> working'[n]]
      /\ \A n \in Manager : IsTable(working'[n])
  BY NoJobsTable DEF TypeOK, EndBatch
<1>2. /\ pending' \in [Manager -> Seq(Call)]
      /\ acking' \in [Manager -> SUBSET (JobId \X Item)]
  <2>1. <<>> \in Seq(Call) /\ {} \in SUBSET (JobId \X Item)
    OBVIOUS
  <2>2. /\ pending \in [Manager -> Seq(Call)]
        /\ acking \in [Manager -> SUBSET (JobId \X Item)]
    BY DEF TypeOK
  <2> QED BY <2>1, <2>2 DEF EndBatch
<1> QED BY <1>1, <1>2 DEF TypeOK, EndBatch

\* A dropped cache.
LEMMA DropCacheType ==
  ASSUME TypeOK, NEW m \in Manager, DropCache(m)
  PROVE  /\ loaded' \in [Manager -> BOOLEAN]
         /\ etag' \in [Manager -> Nat]
         /\ state' = [n \in Manager |-> state'[n]]
         /\ \A n \in Manager : IsTable(state'[n])
BY NoJobsTable DEF TypeOK, DropCache

\* One call of the batch applied.
LEMMA ApplyType ==
  ASSUME TypeOK, NEW m \in Manager, Apply(m)
  PROVE  TypeOK'
<1> DEFINE k == pending[m][applied[m] + 1]
           t == working[m]
           at == batchNow[m]
<1>1. /\ k \in Call /\ IsTable(t) /\ at \in Nat /\ applied[m] + 1 \in Nat
      /\ issued \in Nat /\ request[k] \in Request \cup {NoRequest}
  <2>1. /\ pending[m] \in Seq(Call) /\ applied[m] \in Nat /\ issued \in Nat
        /\ request \in [Call -> Request \cup {NoRequest}]
        /\ IsTable(t) /\ at \in Nat
    BY DEF TypeOK
  <2>2. applied[m] + 1 \in 1 .. Len(pending[m])
    BY <2>1 DEF Apply
  <2>3. k \in Call
    BY <2>1, <2>2
  <2> QED BY <2>1, <2>2, <2>3
<1>2. applied' \in [Manager -> Nat]
  BY <1>1 DEF TypeOK, Apply
<1>3. /\ issued' \in Nat
      /\ granted' \in [Call -> SUBSET Grant]
      /\ mutated' \in [Manager -> BOOLEAN]
      /\ acking' \in [Manager -> SUBSET (JobId \X Item)]
      /\ working' = [n \in Manager |-> working'[n]]
      /\ \A n \in Manager : IsTable(working'[n])
  <2>1. CASE outcome[k] # "waiting"
    BY <2>1 DEF TypeOK, Apply
  <2>2. CASE Enqueue(m, k)
    <3>1. request[k].count \in JobId /\ request[k].delay \in Nat
      BY <2>2, <1>1, RequestFields DEF Enqueue
    <3>2. issued + request[k].count \in Nat
      BY <3>1, <1>1 DEF JobId
    <3>3. IsTable(AddJobs(t, k, issued, at))
      BY <3>1, <1>1, AddJobsTable DEF TypeOK
    <3> QED BY <2>2, <3>2, <3>3, <1>1 DEF TypeOK, Enqueue
  <2>3. CASE Claim(m, k)
    <3> DEFINE S == Oldest(Claimable(t, at), request[k].limit)
    <3>1. request[k].consumer \in Consumer
      BY <2>3, <1>1, RequestFields DEF Claim
    <3>2. IsTable(ClaimJobs(t, S, request[k].consumer, at))
      BY <3>1, <1>1, ClaimJobsTable
    <3>3. S \subseteq DOMAIN t
      BY DEF Oldest, Claimable
    <3>4. {[job |-> j, attempt |-> t[j].attempt + 1, at |-> at] : j \in S}
            \in SUBSET Grant
      <4> SUFFICES ASSUME NEW j \in S
                   PROVE  [job |-> j, attempt |-> t[j].attempt + 1, at |-> at] \in Grant
        OBVIOUS
      <4>1. j \in JobId /\ t[j] \in Job
        BY <3>3, <1>1 DEF IsTable
      <4>2. t[j].attempt + 1 \in Nat
        BY <4>1 DEF Job
      <4> QED BY <4>1, <4>2, <1>1 DEF Grant
    <3> HIDE DEF S
    <3> QED BY <2>3, <3>2, <3>4, <1>1 DEF TypeOK, Claim, S
  <2>4. CASE Settle(m, k)
    <3> DEFINE S == HeldJobs(t, k)
    <3>1. request[k].kind = "retry" => request[k].delay \in Nat
      BY <1>1, RequestFields
    <3>2. /\ IsTable(HeartbeatJobs(t, S, at))
          /\ IsTable(RemoveJobs(t, S))
          /\ request[k].kind = "retry" => IsTable(RetryJobs(t, S, request[k].delay, at))
      BY <3>1, <1>1, SettleTable
    <3>3. \A j \in S : j \in JobId /\ t[j] \in Job
      BY <1>1 DEF HeldJobs, IsTable
    <3>4. {[job |-> j, attempt |-> t[j].attempt, at |-> at] : j \in S} \in SUBSET Grant
      BY <3>3, <1>1 DEF Grant, Job
    <3>5. {<<j, t[j].item>> : j \in S} \subseteq JobId \X Item
      BY <3>3 DEF Job
    <3> HIDE DEF S
    <3>6. IsTable(working'[m])
      BY <2>4, <3>2, <1>1 DEF TypeOK, Settle, S
    <3> QED BY <2>4, <3>4, <3>5, <3>6, <1>1 DEF TypeOK, Settle, S
  <2> QED BY <2>1, <2>2, <2>3, <2>4 DEF Apply
<1> QED BY <1>2, <1>3 DEF TypeOK, Apply, storeVars, cacheVars

\* Every step keeps the types.
LEMMA NextType == TypeOK /\ [Next]_vars => TypeOK'
<1> SUFFICES ASSUME TypeOK, [Next]_vars PROVE TypeOK'
  OBVIOUS
<1> USE DEF storeVars, callVars, cacheVars, batchVars
<1>1. ASSUME NEW k \in Call, GiveUp(k) PROVE TypeOK'
  <2>1. faults' \in Nat
    BY <1>1, CountersType DEF GiveUp
  <2> QED BY <1>1, <2>1 DEF TypeOK, GiveUp
<1>2. ASSUME NEW k \in Call, NEW m \in Manager, Submit(k, m) PROVE TypeOK'
  <2>1. request' \in [Call -> Request \cup {NoRequest}]
    BY <1>2, RequestsType DEF TypeOK, Submit
  <2>2. ops' \in [Manager -> Seq(Call)]
    <3>1. ops \in [Manager -> Seq(Call)] /\ Append(ops[m], k) \in Seq(Call)
      BY DEF TypeOK
    <3> QED BY <1>2, <3>1 DEF Submit
  <2> QED BY <1>2, <2>1, <2>2 DEF TypeOK, Submit
<1>3. ASSUME NEW m \in Manager, Collect(m) PROVE TypeOK'
  <2>1. ops \in [Manager -> Seq(Call)] /\ pending \in [Manager -> Seq(Call)]
    BY DEF TypeOK
  <2>2. PICK n \in 1 .. Len(ops[m]) :
          /\ pending' = [pending EXCEPT ![m] = SubSeq(ops[m], 1, n)]
          /\ ops' = [ops EXCEPT ![m] = SubSeq(@, n + 1, Len(@))]
    BY <1>3 DEF Collect
  <2>3. SubSeq(ops[m], 1, n) \in Seq(Call) /\ SubSeq(ops[m], n + 1, Len(ops[m])) \in Seq(Call)
    BY <2>1
  <2>4. ops' \in [Manager -> Seq(Call)] /\ pending' \in [Manager -> Seq(Call)]
    BY <2>1, <2>2, <2>3
  <2> QED BY <1>3, <2>4 DEF TypeOK, Collect
<1>4. ASSUME NEW m \in Manager, Load(m) PROVE TypeOK'
  BY <1>4 DEF TypeOK, Load
<1>5. ASSUME NEW m \in Manager, LoadFails(m) PROVE TypeOK'
  <2>1. outcome' \in [Call -> {"unsent", "waiting", "ok", "error"}]
    BY <1>5, ReplyType DEF LoadFails
  <2>2. EndBatch(m)
    BY <1>5 DEF LoadFails
  <2>3. faults' \in Nat
    BY <1>5, CountersType DEF LoadFails
  <2> QED BY <1>5, <2>1, <2>2, <2>3, EndBatchType DEF TypeOK, LoadFails
<1>6. ASSUME NEW m \in Manager, Begin(m) PROVE TypeOK'
  <2>1. acking' \in [Manager -> SUBSET (JobId \X Item)]
    <3>1. acking \in [Manager -> SUBSET (JobId \X Item)]
      BY DEF TypeOK
    <3> QED BY <1>6, <3>1 DEF Begin
  <2> QED BY <1>6, <2>1 DEF TypeOK, Begin
<1>7. ASSUME NEW m \in Manager, Apply(m) PROVE TypeOK'
  BY <1>7, ApplyType
<1>8. ASSUME NEW m \in Manager, ReplyUnchanged(m) PROVE TypeOK'
  <2>1. outcome' \in [Call -> {"unsent", "waiting", "ok", "error"}]
    BY <1>8, ReplyType DEF ReplyUnchanged
  <2>2. EndBatch(m) /\ DropCache(m)
    BY <1>8 DEF ReplyUnchanged
  <2> QED BY <1>8, <2>1, <2>2, EndBatchType, DropCacheType DEF TypeOK, ReplyUnchanged
<1>9. ASSUME NEW m \in Manager, SaveLands(m) PROVE TypeOK'
  <2>1. storedEtag' \in Nat
    BY <1>9, CountersType DEF SaveLands, Lands
  <2>2. acked' \subseteq JobId \X Item
    BY <1>9 DEF TypeOK, SaveLands, Lands
  <2>3. IsTable(storedJobs')
    BY <1>9 DEF TypeOK, SaveLands, Lands
  <2> QED BY <1>9, <2>1, <2>2, <2>3 DEF TypeOK, SaveLands
<1>10. ASSUME NEW m \in Manager, SaveConfirmed(m) PROVE TypeOK'
  <2>1. outcome' \in [Call -> {"unsent", "waiting", "ok", "error"}]
    BY <1>10, ReplyType DEF SaveConfirmed
  <2>2. EndBatch(m)
    BY <1>10 DEF SaveConfirmed
  <2>3. etag' \in [Manager -> Nat]
    BY <1>10, CountersType DEF SaveConfirmed
  <2>4. /\ state' = [n \in Manager |-> state'[n]]
        /\ \A n \in Manager : IsTable(state'[n])
    BY <1>10 DEF TypeOK, SaveConfirmed
  <2> QED BY <1>10, <2>1, <2>2, <2>3, <2>4, EndBatchType DEF TypeOK, SaveConfirmed
<1>11. ASSUME NEW m \in Manager, SaveRefused(m) \/ SaveRepeated(m) PROVE TypeOK'
  <2>1. DropCache(m)
    BY <1>11 DEF SaveRefused, SaveRepeated, Again
  <2>2. phase' \in [Manager -> {"idle", "start", "apply", "landed"}]
    <3>1. phase' = [phase EXCEPT ![m] = "start"]
      BY <1>11 DEF SaveRefused, SaveRepeated, Again
    <3>2. phase \in [Manager -> {"idle", "start", "apply", "landed"}]
      BY DEF TypeOK
    <3> QED BY <3>1, <3>2
  <2>3. faults' \in Nat
    BY <1>11, CountersType DEF SaveRefused, SaveRepeated
  <2>4. UNCHANGED <<callVars, pending, batchVars, storeVars, now, issued, ops>>
    BY <1>11 DEF SaveRefused, SaveRepeated, Again
  <2> QED BY <2>1, <2>2, <2>3, <2>4, DropCacheType DEF TypeOK, callVars, batchVars, storeVars
<1>12. ASSUME NEW m \in Manager, SaveFails(m) \/ Crash(m) PROVE TypeOK'
  <2>1. outcome' \in [Call -> {"unsent", "waiting", "ok", "error"}]
    BY <1>12, ReplyType DEF SaveFails, Crash, TypeOK
  <2>2. EndBatch(m)
    BY <1>12 DEF SaveFails, Crash
  <2>3. \A p \in stray' : IsPut(p)
    <3> DEFINE put == [etag |-> etag[m], jobs |-> working[m], acking |-> acking[m]]
    <3>1. IsPut(put)
      BY DEF TypeOK, IsPut
    <3>2. stray' \subseteq stray \cup {put}
      BY <1>12 DEF SaveFails, Crash
    <3> QED BY <3>1, <3>2 DEF TypeOK
  <2>4. CASE SaveFails(m)
    <3>1. faults' \in Nat
      BY <2>4, CountersType DEF SaveFails
    <3> QED BY <2>4, <2>1, <2>2, <2>3, <3>1, EndBatchType DEF TypeOK, SaveFails
  <2>5. CASE Crash(m)
    <3>1. DropCache(m) /\ faults' \in Nat
      BY <2>5, CountersType DEF Crash
    <3>2. ops' \in [Manager -> Seq(Call)]
      <4>1. ops \in [Manager -> Seq(Call)] /\ <<>> \in Seq(Call)
        BY DEF TypeOK
      <4> QED BY <4>1, <2>5 DEF Crash
    <3> QED BY <2>5, <2>1, <2>2, <2>3, <3>1, <3>2, EndBatchType, DropCacheType
            DEF TypeOK, Crash
  <2> QED BY <1>12, <2>4, <2>5
<1>13. CASE StrayArrives
  <2>1. PICK p \in stray :
          /\ stray' = stray \ {p}
          /\ \/ Lands(p.etag, p.jobs, p.acking)
             \/ UNCHANGED <<storedJobs, storedEtag, acked>>
    BY <1>13 DEF StrayArrives
  <2>2. IsPut(p)
    BY DEF TypeOK
  <2>3. /\ IsTable(storedJobs') /\ storedEtag' \in Nat
        /\ acked' \subseteq JobId \X Item
    BY <2>1, <2>2, SMTT(30) DEF TypeOK, Lands, IsPut
  <2> QED BY <1>13, <2>1, <2>3 DEF TypeOK, StrayArrives
<1>14. CASE Tick
  <2>1. now' \in Nat
    BY <1>14, CountersType DEF Tick
  <2> QED BY <1>14, <2>1 DEF TypeOK, Tick
<1>15. CASE UNCHANGED vars
  BY <1>15 DEF TypeOK, vars
<1> QED
  BY <1>1, <1>2, <1>3, <1>4, <1>5, <1>6, <1>7, <1>8, <1>9, <1>10, <1>11, <1>12,
     <1>13, <1>14, <1>15 DEF Next, Step, Fault

\* The initial state has the types.
LEMMA InitType == Init => TypeOK
<1> SUFFICES ASSUME Init PROVE TypeOK
  OBVIOUS
<1>1. IsTable(NoJobs) /\ <<>> \in Seq(Call)
  BY NoJobsTable
<1>2. ops \in [Manager -> Seq(Call)] /\ pending \in [Manager -> Seq(Call)]
  BY <1>1 DEF Init
<1> QED BY <1>1, <1>2 DEF Init, TypeOK

\* The variables of QueueManager always have their types.
THEOREM TypeCorrect == Spec => []TypeOK
BY InitType, NextType, PTL DEF Spec

-----------------------------------------------------------------------------
(***************************************************************************)
(* The inductive invariant behind CacheCoherent, ConfirmedKept and         *)
(* AckedStaysGone.  Its heart is CloneInv: a table on its way to the store *)
(* in a Manager's hands or in a PUT is harmless, because either it will be *)
(* refused (its ETag is behind) or it accounts for every payload of the    *)
(* table it would replace and holds no job whose ack has landed.           *)
(***************************************************************************)

\* The payloads that are in t, or whose jobs were acked.
Accounted(t, acks) == Payloads(t) \cup {a[2] : a \in acks}

CloneInv(e, t, acks) ==
  /\ DOMAIN t \subseteq 1 .. issued
  /\ \A a \in acks : a[1] \in 1 .. issued /\ a[1] \notin DOMAIN t
  /\ e <= storedEtag
  /\ e = storedEtag => /\ Payloads(storedJobs) \subseteq Accounted(t, acks)
                       /\ \A a \in acked : a[1] \notin DOMAIN t

\* Ids come from the supply, and calls in a Manager's hands have been sent.
SupplyInv ==
  /\ DOMAIN storedJobs \subseteq 1 .. issued
  /\ \A a \in acked : a[1] \in 1 .. issued
  /\ \A m \in Manager :
       /\ \A i \in DOMAIN pending[m] : outcome[pending[m][i]] # "unsent"
       /\ \A i \in DOMAIN ops[m] : outcome[ops[m][i]] # "unsent"

\* A caller that still waits for the enqueue k.
Awaited(k) == outcome[k] = "waiting" /\ request[k].kind = "enqueue"

CacheOK(m) ==
  /\ phase[m] \in {"apply", "landed"} => loaded[m]
  /\ loaded[m] => /\ DOMAIN state[m] \subseteq 1 .. issued
                  /\ etag[m] <= storedEtag
                  /\ etag[m] = storedEtag => state[m] = storedJobs

ApplyOK(m) == phase[m] = "apply" =>
  /\ applied[m] <= Len(pending[m])
  /\ CloneInv(etag[m], working[m], acking[m])
  /\ \A i \in 1 .. applied[m] : Awaited(pending[m][i]) =>
       /\ mutated[m]
       /\ ItemsOf(pending[m][i]) \subseteq Accounted(working[m], acking[m])

LandedOK(m) == phase[m] = "landed" =>
  /\ DOMAIN working[m] \subseteq 1 .. issued
  /\ etag[m] < storedEtag
  /\ etag[m] + 1 = storedEtag => working[m] = storedJobs
  /\ \A i \in DOMAIN pending[m] : Awaited(pending[m][i]) =>
       ItemsOf(pending[m][i]) \subseteq Accounted(storedJobs, acked)

ManagersInv == \A m \in Manager : CacheOK(m) /\ ApplyOK(m) /\ LandedOK(m)

StrayInv == \A p \in stray : CloneInv(p.etag, p.jobs, p.acking)

DurableInv ==
  /\ TypeOK
  /\ SupplyInv
  /\ ManagersInv
  /\ StrayInv
  /\ ConfirmedKept
  /\ AckedStaysGone

(***************************************************************************)
(* What one step does to the store and to the calls, whoever takes it.     *)
(***************************************************************************)

StoreStep ==
  \/ UNCHANGED <<storedJobs, storedEtag, acked>>
  \/ /\ storedEtag' = storedEtag + 1
     /\ Accounted(storedJobs, acked) \subseteq Accounted(storedJobs', acked')

CallStep ==
  \A k \in Call :
    /\ outcome[k] # "unsent" => outcome'[k] # "unsent" /\ request'[k] = request[k]
    /\ outcome'[k] = "waiting" => outcome[k] \in {"waiting", "unsent"}
    /\ outcome[k] \in {"ok", "error"} => outcome'[k] = outcome[k]

\* A clone that nobody touches stays harmless.
LEMMA CloneKept ==
  ASSUME TypeOK, StoreStep, issued' \in Nat, issued <= issued',
         NEW e \in Nat, NEW t, NEW acks, CloneInv(e, t, acks)
  PROVE  CloneInv(e, t, acks)'
<1>1. storedEtag \in Nat /\ issued \in Nat
  BY CountersType
<1>2. 1 .. issued \subseteq 1 .. issued'
  BY <1>1
<1>3. DOMAIN t \subseteq 1 .. issued' /\ \A a \in acks : a[1] \in 1 .. issued' /\ a[1] \notin DOMAIN t
  BY <1>2 DEF CloneInv
<1>4. CASE UNCHANGED <<storedJobs, storedEtag, acked>>
  BY <1>3, <1>4 DEF CloneInv, Accounted, Payloads
<1>5. CASE storedEtag' = storedEtag + 1
  <2>1. e <= storedEtag' /\ e # storedEtag'
    BY <1>1, <1>5 DEF CloneInv
  <2> QED BY <1>3, <2>1 DEF CloneInv
<1> QED BY <1>4, <1>5 DEF StoreStep

\* A Manager that takes no step keeps its part of the invariant.
LEMMA ManagerKept ==
  ASSUME DurableInv, StoreStep, CallStep, issued' \in Nat, issued <= issued',
         NEW m \in Manager,
         UNCHANGED <<phase[m], loaded[m], state[m], etag[m], pending[m], applied[m],
                     working[m], mutated[m], acking[m]>>
  PROVE  (CacheOK(m) /\ ApplyOK(m) /\ LandedOK(m))'
<1>1. /\ TypeOK /\ storedEtag \in Nat /\ issued \in Nat /\ etag[m] \in Nat
      /\ applied[m] \in Nat /\ 1 .. issued \subseteq 1 .. issued'
  BY CountersType DEF DurableInv
<1>2. CacheOK(m) /\ ApplyOK(m) /\ LandedOK(m)
  BY DEF DurableInv, ManagersInv
<1>3. storedEtag' \in Nat /\ storedEtag <= storedEtag'
  BY <1>1 DEF StoreStep
<1>4. CacheOK(m)'
  <2>1. CASE UNCHANGED <<storedJobs, storedEtag, acked>>
    BY <1>1, <1>2, <2>1 DEF CacheOK
  <2>2. CASE storedEtag' = storedEtag + 1
    BY <1>1, <1>2, <2>2 DEF CacheOK
  <2> QED BY <2>1, <2>2 DEF StoreStep
<1>5. pending[m] \in Seq(Call)
  BY <1>1 DEF TypeOK
<1>6. ASSUME NEW i \in DOMAIN pending[m], Awaited(pending[m][i])'
      PROVE  Awaited(pending[m][i]) /\ ItemsOf(pending[m][i])' = ItemsOf(pending[m][i])
  <2>1. pending[m][i] \in Call /\ outcome[pending[m][i]] # "unsent"
    BY <1>5 DEF DurableInv, SupplyInv
  <2> QED BY <1>6, <2>1 DEF Awaited, CallStep, ItemsOf
<1>7. ApplyOK(m)'
  <2> SUFFICES ASSUME phase[m] = "apply" PROVE ApplyOK(m)'
    BY DEF ApplyOK
  <2>1. CloneInv(etag[m], working[m], acking[m])'
    <3>1. CloneInv(etag[m], working[m], acking[m])
      BY <1>2 DEF ApplyOK
    <3> DEFINE e == etag[m] t == working[m] acks == acking[m]
    <3>2. e' = e /\ t' = t /\ acks' = acks
      OBVIOUS
    <3>3. ASSUME NEW ee \in Nat, NEW tt, NEW aa, CloneInv(ee, tt, aa)
          PROVE  CloneInv(ee, tt, aa)'
      BY <3>3, <1>1, CloneKept
    <3> QED BY <3>1, <3>2, <3>3, <1>1 DEF CloneInv
  <2>2. ASSUME NEW i \in 1 .. applied[m], Awaited(pending[m][i])'
        PROVE  /\ mutated[m]
               /\ ItemsOf(pending[m][i])' \subseteq Accounted(working[m], acking[m])
    <3>1. i \in DOMAIN pending[m]
      BY <1>1, <1>2, <1>5 DEF ApplyOK
    <3> QED BY <3>1, <2>2, <1>2, <1>6 DEF ApplyOK
  <2>3. Accounted(working[m], acking[m])' = Accounted(working[m], acking[m])
    BY DEF Accounted, Payloads
  <2> QED BY <2>1, <2>2, <2>3, <1>2 DEF ApplyOK
<1>8. LandedOK(m)'
  <2> SUFFICES ASSUME phase[m] = "landed" PROVE LandedOK(m)'
    BY DEF LandedOK
  <2>1. Accounted(storedJobs, acked) \subseteq Accounted(storedJobs, acked)'
    BY DEF StoreStep, Accounted, Payloads
  <2>2. /\ (DOMAIN working[m] \subseteq 1 .. issued)'
        /\ (etag[m] < storedEtag)'
        /\ (etag[m] + 1 = storedEtag => working[m] = storedJobs)'
    <3>1. CASE UNCHANGED <<storedJobs, storedEtag, acked>>
      BY <1>1, <1>2, <3>1 DEF LandedOK
    <3>2. CASE storedEtag' = storedEtag + 1
      BY <1>1, <1>2, <3>2 DEF LandedOK
    <3> QED BY <3>1, <3>2 DEF StoreStep
  <2>3. ASSUME NEW i \in DOMAIN pending[m], Awaited(pending[m][i])'
        PROVE  ItemsOf(pending[m][i])' \subseteq Accounted(storedJobs, acked)'
    BY <2>3, <2>1, <1>2, <1>6 DEF LandedOK
  <2> QED BY <2>2, <2>3 DEF LandedOK
<1> QED BY <1>4, <1>7, <1>8

(***************************************************************************)
(* What applying one call does to the clone.                               *)
(***************************************************************************)

\* The clone t with acks became u with acks2: no payload is lost, only new ids
\* appear, and what is acked is out.
Advances(t, acks, u, acks2) ==
  /\ DOMAIN u \subseteq DOMAIN t \cup (issued + 1 .. issued')
  /\ Accounted(t, acks) \subseteq Accounted(u, acks2)
  /\ \A a \in acks2 : a[1] \in 1 .. issued' /\ a[1] \notin DOMAIN u

\* Changing the other fields of jobs loses nothing.
LEMMA SameItemsAdvance ==
  ASSUME NEW t, NEW u, NEW acks, issued \in Nat, issued' = issued,
         DOMAIN u = DOMAIN t, \A j \in DOMAIN t : u[j].item = t[j].item,
         \A a \in acks : a[1] \in 1 .. issued /\ a[1] \notin DOMAIN t
  PROVE  Advances(t, acks, u, acks)
<1>1. Payloads(u) = Payloads(t)
  BY DEF Payloads
<1> QED BY <1>1 DEF Advances, Accounted

\* Claim, Heartbeat and Retry keep the items.
LEMMA ClaimKeepsItems ==
  ASSUME NEW t, IsTable(t), NEW S, NEW c, NEW at
  PROVE  /\ DOMAIN ClaimJobs(t, S, c, at) = DOMAIN t
         /\ \A j \in DOMAIN t : ClaimJobs(t, S, c, at)[j].item = t[j].item
BY DEF IsTable, ClaimJobs, Job

\* A heartbeat keeps the items.
LEMMA HeartbeatKeepsItems ==
  ASSUME NEW t, IsTable(t), NEW S, NEW at
  PROVE  /\ DOMAIN HeartbeatJobs(t, S, at) = DOMAIN t
         /\ \A j \in DOMAIN t : HeartbeatJobs(t, S, at)[j].item = t[j].item
BY DEF IsTable, HeartbeatJobs, Job

\* A retry keeps the items.
LEMMA RetryKeepsItems ==
  ASSUME NEW t, IsTable(t), NEW S, NEW delay, NEW at
  PROVE  /\ DOMAIN RetryJobs(t, S, delay, at) = DOMAIN t
         /\ \A j \in DOMAIN t : RetryJobs(t, S, delay, at)[j].item = t[j].item
BY DEF IsTable, RetryJobs, Job

\* Ack removes jobs and remembers their payloads.
LEMMA RemoveAdvances ==
  ASSUME NEW t, NEW acks, NEW S, S \subseteq DOMAIN t,
         issued \in Nat, issued' = issued, DOMAIN t \subseteq 1 .. issued,
         \A a \in acks : a[1] \in 1 .. issued /\ a[1] \notin DOMAIN t
  PROVE  Advances(t, acks, RemoveJobs(t, S), acks \cup {<<j, t[j].item>> : j \in S})
<1> DEFINE u == RemoveJobs(t, S)
           acks2 == acks \cup {<<j, t[j].item>> : j \in S}
<1>1. DOMAIN u = DOMAIN t \ S /\ \A j \in DOMAIN u : u[j] = t[j]
  BY DEF RemoveJobs
<1>2. ASSUME NEW j \in DOMAIN t PROVE t[j].item \in Accounted(u, acks2)
  <2>1. CASE j \in S
    <3>1. <<j, t[j].item>> \in acks2
      BY <2>1
    <3> HIDE DEF acks2
    <3> QED BY <3>1 DEF Accounted
  <2>2. CASE j \notin S
    <3>1. j \in DOMAIN u /\ u[j] = t[j]
      BY <2>2, <1>1
    <3> HIDE DEF u
    <3> QED BY <3>1 DEF Accounted, Payloads
  <2> QED BY <2>1, <2>2
<1>3. Accounted(t, acks) \subseteq Accounted(u, acks2)
  BY <1>2 DEF Accounted, Payloads
<1>4. \A a \in acks2 : a[1] \in 1 .. issued' /\ a[1] \notin DOMAIN u
  BY <1>1
<1> QED BY <1>1, <1>3, <1>4 DEF Advances

\* Enqueue adds all items of its call.
LEMMA AddAdvances ==
  ASSUME NEW t, NEW acks, NEW k \in Call, NEW at, request[k].count \in JobId,
         issued \in Nat, issued' = issued + request[k].count,
         DOMAIN t \subseteq 1 .. issued,
         \A a \in acks : a[1] \in 1 .. issued /\ a[1] \notin DOMAIN t
  PROVE  /\ Advances(t, acks, AddJobs(t, k, issued, at), acks)
         /\ ItemsOf(k) \subseteq Accounted(AddJobs(t, k, issued, at), acks)
<1> DEFINE u == AddJobs(t, k, issued, at)
<1>1. DOMAIN u = DOMAIN t \cup (issued + 1 .. issued + request[k].count)
  BY DEF AddJobs
<1>2. \A j \in DOMAIN t : u[j] = t[j]
  BY DEF AddJobs
<1>3. Payloads(t) \subseteq Payloads(u)
  BY <1>1, <1>2 DEF Payloads
<1>4. \A a \in acks : a[1] \in 1 .. issued' /\ a[1] \notin DOMAIN u
  BY <1>1 DEF JobId
<1>5. ASSUME NEW i \in 1 .. request[k].count PROVE <<k, i>> \in Payloads(u)
  <2> DEFINE j == issued + i
  <2>1. j \in DOMAIN u /\ j \notin DOMAIN t /\ j - issued = i
    BY <1>1 DEF JobId
  <2>2. u[j].item = <<k, i>>
    BY <2>1, <1>1 DEF AddJobs
  <2> QED BY <2>1, <2>2 DEF Payloads
<1>6. ItemsOf(k) \subseteq Payloads(u)
  BY <1>5 DEF ItemsOf
<1> QED BY <1>1, <1>3, <1>4, <1>6 DEF Advances, Accounted

\* A clone that advances stays harmless.
LEMMA AdvanceKeepsClone ==
  ASSUME TypeOK, UNCHANGED <<storedJobs, storedEtag, acked>>, SupplyInv,
         issued' \in Nat, issued <= issued',
         NEW e, NEW t, NEW acks, NEW u, NEW acks2,
         CloneInv(e, t, acks), Advances(t, acks, u, acks2)
  PROVE  CloneInv(e, u, acks2)'
<1>1. issued \in Nat
  BY CountersType
<1>2. DOMAIN u \subseteq 1 .. issued'
  BY <1>1 DEF CloneInv, Advances
<1>3. e = storedEtag => /\ Payloads(storedJobs) \subseteq Accounted(u, acks2)
                        /\ \A a \in acked : a[1] \notin DOMAIN u
  BY <1>1 DEF CloneInv, Advances, SupplyInv
<1>4. Accounted(u, acks2)' = Accounted(u, acks2) /\ Payloads(storedJobs)' = Payloads(storedJobs)
  BY DEF Accounted, Payloads
<1> QED BY <1>2, <1>3, <1>4 DEF CloneInv, Advances

\* One round of the loop over the batch advances the clone, and an enqueue that
\* was not skipped has all its items in it.
LEMMA ApplyAdvances ==
  ASSUME DurableInv, NEW m \in Manager, Apply(m)
  PROVE  LET k == pending[m][applied[m] + 1]
         IN  /\ issued' \in Nat /\ issued <= issued'
             /\ Advances(working[m], acking[m], working'[m], acking'[m])
             /\ mutated[m] => mutated'[m]
             /\ Awaited(k) => /\ mutated'[m]
                              /\ ItemsOf(k) \subseteq Accounted(working'[m], acking'[m])
<1> DEFINE k == pending[m][applied[m] + 1]
           t == working[m]
           at == batchNow[m]
<1>1. /\ TypeOK /\ IsTable(t) /\ at \in Nat /\ issued \in Nat
      /\ k \in Call /\ request[k] \in Request \cup {NoRequest}
  <2>1. /\ TypeOK /\ pending[m] \in Seq(Call) /\ applied[m] \in Nat /\ IsTable(t)
        /\ request \in [Call -> Request \cup {NoRequest}]
    BY DEF DurableInv, TypeOK
  <2>2. applied[m] + 1 \in 1 .. Len(pending[m])
    BY <2>1 DEF Apply
  <2>3. k \in Call
    BY <2>1, <2>2
  <2> QED BY <2>1, <2>3, CountersType
<1>2. /\ DOMAIN t \subseteq 1 .. issued
      /\ \A a \in acking[m] : a[1] \in 1 .. issued /\ a[1] \notin DOMAIN t
  BY DEF DurableInv, ManagersInv, ApplyOK, CloneInv, Apply
<1>3. /\ working = [n \in Manager |-> working[n]]
      /\ mutated \in [Manager -> BOOLEAN]
      /\ acking \in [Manager -> SUBSET (JobId \X Item)]
  BY <1>1 DEF TypeOK
<1>4. CASE outcome[k] # "waiting"
  <2>1. UNCHANGED <<issued, working, mutated, acking>>
    BY <1>4 DEF Apply
  <2>2. Advances(t, acking[m], t, acking[m])
    BY <2>1, <1>1, <1>2, SameItemsAdvance
  <2> QED BY <2>1, <2>2, <1>1, <1>4 DEF Awaited
<1>5. CASE Enqueue(m, k)
  <2>1. request[k].count \in JobId
    BY <1>1, <1>5, RequestFields DEF Enqueue
  <2>2. /\ working'[m] = AddJobs(t, k, issued, at) /\ acking'[m] = acking[m]
        /\ mutated'[m] = TRUE /\ issued' = issued + request[k].count
    BY <1>3, <1>5 DEF Enqueue
  <2>3. issued' \in Nat /\ issued <= issued'
    BY <1>1, <2>1, <2>2 DEF JobId
  <2>4. /\ Advances(t, acking[m], AddJobs(t, k, issued, at), acking[m])
        /\ ItemsOf(k) \subseteq Accounted(AddJobs(t, k, issued, at), acking[m])
    <3>1. /\ k \in Call /\ issued \in Nat /\ issued' = issued + request[k].count
          /\ DOMAIN t \subseteq 1 .. issued /\ request[k].count \in JobId
          /\ \A a \in acking[m] : a[1] \in 1 .. issued /\ a[1] \notin DOMAIN t
      BY <1>1, <1>2, <2>1, <2>2
    <3> HIDE DEF t, at, k
    <3> QED BY <3>1, AddAdvances
  <2> QED BY <2>2, <2>3, <2>4
<1>6. CASE Claim(m, k)
  <2> DEFINE S == Oldest(Claimable(t, at), request[k].limit)
             u == ClaimJobs(t, S, request[k].consumer, at)
  <2>1. /\ working'[m] = u /\ acking'[m] = acking[m] /\ issued' = issued
        /\ mutated[m] => mutated'[m]
    BY <1>3, <1>6 DEF Claim
  <2>2. DOMAIN u = DOMAIN t /\ \A j \in DOMAIN t : u[j].item = t[j].item
    <3>1. IsTable(t) /\ DOMAIN t = DOMAIN t
      BY <1>1
    <3> HIDE DEF S, t, at, k
    <3> QED BY <3>1, ClaimKeepsItems
  <2>3. Advances(t, acking[m], u, acking[m])
    BY <2>1, <2>2, <1>1, <1>2, SameItemsAdvance
  <2>4. ~Awaited(k)
    BY <1>6 DEF Claim, Awaited
  <2> QED BY <2>1, <2>3, <2>4, <1>1
<1>7. CASE Settle(m, k)
  <2> DEFINE S == HeldJobs(t, k)
  <2>1. issued' = issued /\ (mutated[m] => mutated'[m]) /\ S \subseteq DOMAIN t
    BY <1>3, <1>7 DEF Settle, HeldJobs
  <2>2. CASE request[k].kind = "ack"
    <3>1. /\ working'[m] = RemoveJobs(t, S)
          /\ acking'[m] = acking[m] \cup {<<j, t[j].item>> : j \in S}
      BY <1>3, <1>7, <2>2 DEF Settle
    <3>2. Advances(t, acking[m], RemoveJobs(t, S),
                   acking[m] \cup {<<j, t[j].item>> : j \in S})
      BY <2>1, <1>1, <1>2, RemoveAdvances
    <3> QED BY <3>1, <3>2, <2>1, <2>2, <1>1 DEF Awaited
  <2>3. CASE request[k].kind \in {"heartbeat", "retry"}
    <3>1. /\ working'[m] \in {HeartbeatJobs(t, S, at), RetryJobs(t, S, request[k].delay, at)}
          /\ acking'[m] = acking[m]
      BY <1>3, <1>7, <2>3 DEF Settle
    <3>2. /\ DOMAIN working'[m] = DOMAIN t
          /\ \A j \in DOMAIN t : working'[m][j].item = t[j].item
      <4>1. IsTable(t)
        BY <1>1
      <4> HIDE DEF S, t, at, k
      <4> QED BY <3>1, <4>1, HeartbeatKeepsItems, RetryKeepsItems
    <3>3. Advances(t, acking[m], working'[m], acking[m])
      BY <3>2, <2>1, <1>1, <1>2, SameItemsAdvance
    <3> QED BY <3>1, <3>3, <2>1, <2>3, <1>1 DEF Awaited
  <2> QED BY <2>2, <2>3, <1>7 DEF Settle
<1> QED BY <1>4, <1>5, <1>6, <1>7 DEF Apply

\* A clone that lands becomes the store: nothing confirmed is lost, nothing
\* acked returns.
LEMMA LandingSafe ==
  ASSUME DurableInv, issued' = issued,
         NEW e, NEW t, NEW acks, CloneInv(e, t, acks), Lands(e, t, acks)
  PROVE  /\ StoreStep
         /\ DOMAIN storedJobs' \subseteq 1 .. issued'
         /\ \A a \in acked' : a[1] \in 1 .. issued'
         /\ AckedStaysGone'
<1>1. /\ storedJobs' = t /\ acked' = acked \cup acks /\ storedEtag' = storedEtag + 1
      /\ e = storedEtag
  BY DEF Lands
<1>2. Payloads(storedJobs) \subseteq Accounted(t, acks) /\ \A a \in acked : a[1] \notin DOMAIN t
  BY <1>1 DEF CloneInv
<1>3. Accounted(storedJobs, acked) \subseteq Accounted(t, acked \cup acks)
  BY <1>2 DEF Accounted
<1>4. StoreStep
  BY <1>1, <1>3 DEF StoreStep
<1>5. \A a \in acked \cup acks : a[1] \in 1 .. issued /\ a[1] \notin DOMAIN t
  BY <1>2 DEF DurableInv, SupplyInv, CloneInv
<1> QED BY <1>1, <1>4, <1>5 DEF AckedStaysGone, CloneInv

-----------------------------------------------------------------------------
(***************************************************************************)
(* Assembling a step.                                                      *)
(***************************************************************************)

LocalsKept(m) ==
  UNCHANGED <<phase[m], loaded[m], state[m], etag[m], pending[m], applied[m],
              working[m], mutated[m], acking[m]>>

\* The Managers' part of the invariant, when only m has moved.
LEMMA OneManagerMoves ==
  ASSUME DurableInv, StoreStep, CallStep, issued' \in Nat, issued <= issued',
         NEW m \in Manager, \A n \in Manager \ {m} : LocalsKept(n),
         CacheOK(m)', ApplyOK(m)', LandedOK(m)'
  PROVE  ManagersInv'
<1>1. ASSUME NEW n \in Manager PROVE (CacheOK(n) /\ ApplyOK(n) /\ LandedOK(n))'
  <2>1. CASE n = m
    BY <2>1
  <2>2. CASE n # m
    BY <2>2, ManagerKept DEF LocalsKept
  <2> QED BY <2>1, <2>2
<1> QED BY <1>1 DEF ManagersInv

\* The same, when no Manager has moved.
LEMMA NoManagerMoves ==
  ASSUME DurableInv, StoreStep, CallStep, issued' \in Nat, issued <= issued',
         \A n \in Manager : LocalsKept(n)
  PROVE  ManagersInv'
BY ManagerKept DEF LocalsKept, ManagersInv

\* The PUTs in flight, and one more that is harmless when it is sent.
LEMMA StrayKept ==
  ASSUME DurableInv, StoreStep, issued' \in Nat, issued <= issued',
         stray' \subseteq stray
                \cup {p \in stray' : IsPut(p) /\ CloneInv(p.etag, p.jobs, p.acking)}
  PROVE  StrayInv'
<1> SUFFICES ASSUME NEW p \in stray' PROVE CloneInv(p.etag, p.jobs, p.acking)'
  BY DEF StrayInv
<1>1. IsPut(p) /\ CloneInv(p.etag, p.jobs, p.acking)
  BY DEF DurableInv, TypeOK, StrayInv
<1>2. p.etag \in Nat /\ TypeOK
  BY <1>1 DEF IsPut, DurableInv
<1> QED BY <1>1, <1>2, CloneKept

\* Confirmed enqueues stay, and those confirmed by this step are there.
LEMMA ConfirmedStays ==
  ASSUME DurableInv, StoreStep, CallStep, TypeOK',
         \A k \in Call : outcome'[k] = "ok" /\ Awaited(k) =>
           ItemsOf(k) \subseteq Accounted(storedJobs', acked'),
         \A k \in Call : outcome'[k] = "ok" => outcome[k] # "unsent"
  PROVE  ConfirmedKept'
<1>1. Accounted(storedJobs, acked) \subseteq Accounted(storedJobs', acked')
  BY DEF StoreStep, Accounted, Payloads
<1> SUFFICES ASSUME NEW k \in Call, outcome'[k] = "ok", request'[k].kind = "enqueue"
             PROVE  ItemsOf(k)' \subseteq Accounted(storedJobs', acked')
  BY DEF ConfirmedKept, Accounted, Payloads
<1>2. request'[k] = request[k] /\ ItemsOf(k)' = ItemsOf(k) /\ outcome[k] # "unsent"
  BY DEF CallStep, ItemsOf
<1>3. outcome[k] \in {"unsent", "waiting", "ok", "error"}
  BY DEF DurableInv, TypeOK
<1>4. CASE outcome[k] = "waiting"
  BY <1>2, <1>4 DEF Awaited
<1>5. CASE outcome[k] = "ok"
  <2>1. ItemsOf(k) \subseteq Accounted(storedJobs, acked)
    BY <1>2, <1>5 DEF DurableInv, ConfirmedKept, Accounted
  <2> QED BY <1>1, <1>2, <2>1
<1>6. CASE outcome[k] = "error"
  BY <1>6 DEF CallStep
<1> QED BY <1>2, <1>3, <1>4, <1>5, <1>6

\* The supply part, when calls only move from the channel into the batch.
LEMMA SupplyKept ==
  ASSUME DurableInv, CallStep, TypeOK, issued' \in Nat, issued <= issued',
         UNCHANGED <<storedJobs, acked>>,
         \A n \in Manager :
           /\ \A i \in DOMAIN pending'[n] :
                \/ \E j \in DOMAIN pending[n] : pending'[n][i] = pending[n][j]
                \/ \E j \in DOMAIN ops[n] : pending'[n][i] = ops[n][j]
           /\ \A i \in DOMAIN ops'[n] :
                \E j \in DOMAIN ops[n] : ops'[n][i] = ops[n][j]
  PROVE  SupplyInv'
<1>1. 1 .. issued \subseteq 1 .. issued'
  BY CountersType
<1>2. /\ DOMAIN storedJobs' \subseteq 1 .. issued'
      /\ \A a \in acked' : a[1] \in 1 .. issued'
  BY <1>1 DEF DurableInv, SupplyInv
<1>3. ASSUME NEW n \in Manager
      PROVE  /\ \A i \in DOMAIN pending[n] : outcome'[pending[n][i]] # "unsent"
             /\ \A i \in DOMAIN ops[n] : outcome'[ops[n][i]] # "unsent"
  <2>1. pending[n] \in Seq(Call) /\ ops[n] \in Seq(Call)
    BY DEF TypeOK
  <2>2. /\ \A i \in DOMAIN pending[n] : pending[n][i] \in Call /\ outcome[pending[n][i]] # "unsent"
        /\ \A i \in DOMAIN ops[n] : ops[n][i] \in Call /\ outcome[ops[n][i]] # "unsent"
    BY <2>1 DEF DurableInv, SupplyInv
  <2> QED BY <2>2 DEF CallStep
<1>4. ASSUME NEW n \in Manager
      PROVE  /\ \A i \in DOMAIN pending'[n] : outcome'[pending'[n][i]] # "unsent"
             /\ \A i \in DOMAIN ops'[n] : outcome'[ops'[n][i]] # "unsent"
  BY <1>3
<1> QED BY <1>2, <1>4 DEF SupplyInv

\* The supply part, when the calls stay where they are.
LEMMA CallsKept ==
  ASSUME DurableInv, CallStep, UNCHANGED <<ops, pending>>,
         DOMAIN storedJobs' \subseteq 1 .. issued',
         \A a \in acked' : a[1] \in 1 .. issued'
  PROVE  SupplyInv'
<1>1. ASSUME NEW n \in Manager
      PROVE  /\ \A i \in DOMAIN pending[n] : outcome'[pending[n][i]] # "unsent"
             /\ \A i \in DOMAIN ops[n] : outcome'[ops[n][i]] # "unsent"
  <2>1. pending[n] \in Seq(Call) /\ ops[n] \in Seq(Call)
    BY DEF DurableInv, TypeOK
  <2>2. /\ \A i \in DOMAIN pending[n] : pending[n][i] \in Call /\ outcome[pending[n][i]] # "unsent"
        /\ \A i \in DOMAIN ops[n] : ops[n][i] \in Call /\ outcome[ops[n][i]] # "unsent"
    BY <2>1 DEF DurableInv, SupplyInv
  <2> QED BY <2>2 DEF CallStep
<1> QED BY <1>1 DEF SupplyInv

-----------------------------------------------------------------------------
(***************************************************************************)
(* Every step keeps the invariant: one lemma per group of actions.         *)
(***************************************************************************)

\* The ways a step may change the calls.
LEMMA ReplySteps ==
  ASSUME TypeOK, NEW m \in Manager, NEW result \in {"ok", "error"},
         Reply(m, result), UNCHANGED request
  PROVE  /\ CallStep
         /\ \A k \in Call : outcome'[k] = "ok" => outcome[k] # "unsent"
         /\ \A k \in Call : outcome'[k] = "ok" /\ Awaited(k) =>
              k \in Batch(m) /\ result = "ok"
BY DEF TypeOK, Reply, CallStep, Awaited

\* No outcome changes.
LEMMA SameCalls ==
  ASSUME UNCHANGED <<request, outcome>>
  PROVE  /\ CallStep
         /\ \A k \in Call : outcome'[k] = "ok" => outcome[k] # "unsent" /\ ~Awaited(k)
BY DEF CallStep, Awaited

\* A Manager leaves its batch, with the store as it was and with a cache that
\* is either kept, dropped, or the table that has landed.
LEMMA BatchOver ==
  ASSUME DurableInv, TypeOK', NEW m \in Manager, EndBatch(m), CallStep,
         UNCHANGED <<storedJobs, storedEtag, acked, issued>>,
         \A n \in Manager \ {m} : UNCHANGED <<loaded[n], state[n], etag[n]>>,
         CacheOK(m)',
         ops' \in {ops, [ops EXCEPT ![m] = <<>>]},
         \A k \in Call : outcome'[k] = "ok" => outcome[k] # "unsent",
         \A k \in Call : outcome'[k] = "ok" /\ Awaited(k) =>
           ItemsOf(k) \subseteq Accounted(storedJobs, acked)
  PROVE  SupplyInv' /\ ManagersInv' /\ ConfirmedKept' /\ AckedStaysGone'
<1>1. /\ TypeOK /\ issued' \in Nat /\ issued <= issued' /\ StoreStep
  BY CountersType DEF DurableInv, StoreStep
<1>2. /\ phase \in [Manager -> {"idle", "start", "apply", "landed"}]
      /\ ops \in [Manager -> Seq(Call)]
      /\ pending \in [Manager -> Seq(Call)]
      /\ applied \in [Manager -> Nat] /\ mutated \in [Manager -> BOOLEAN]
      /\ acking \in [Manager -> SUBSET (JobId \X Item)]
      /\ working = [n \in Manager |-> working[n]]
  BY <1>1 DEF TypeOK
<1>3. \A n \in Manager \ {m} : LocalsKept(n)
  BY <1>2 DEF LocalsKept, EndBatch
<1>4. phase'[m] = "idle" /\ pending'[m] = <<>>
  BY <1>2 DEF EndBatch
<1>5. ApplyOK(m)' /\ LandedOK(m)'
  BY <1>4 DEF ApplyOK, LandedOK
<1>6. ManagersInv'
  BY <1>1, <1>3, <1>5, OneManagerMoves
<1>7. ASSUME NEW n \in Manager
      PROVE  /\ \A i \in DOMAIN pending'[n] :
                  \/ \E j \in DOMAIN pending[n] : pending'[n][i] = pending[n][j]
                  \/ \E j \in DOMAIN ops[n] : pending'[n][i] = ops[n][j]
             /\ \A i \in DOMAIN ops'[n] : \E j \in DOMAIN ops[n] : ops'[n][i] = ops[n][j]
  <2>1. pending'[n] \in {<<>>, pending[n]}
    BY <1>3, <1>4 DEF LocalsKept
  <2>2. ops'[n] \in {<<>>, ops[n]}
    BY <1>2
  <2> QED BY <2>1, <2>2
<1>8. SupplyInv'
  BY <1>1, <1>7, SupplyKept
<1>9. ConfirmedKept'
  BY <1>1, ConfirmedStays
<1> QED BY <1>6, <1>8, <1>9 DEF AckedStaysGone, DurableInv

\* The callers' steps, and the clock's.
LEMMA CallersDurable ==
  ASSUME DurableInv, TypeOK',
         \/ \E k \in Call : GiveUp(k) \/ \E m \in Manager : Submit(k, m)
         \/ Tick
         \/ UNCHANGED vars
  PROVE  DurableInv'
<1> USE DEF storeVars, callVars, cacheVars, batchVars
<1>1. /\ TypeOK /\ issued' \in Nat /\ issued <= issued' /\ issued' = issued
      /\ StoreStep /\ UNCHANGED <<storedJobs, storedEtag, acked, stray>>
      /\ \A n \in Manager : LocalsKept(n)
  BY CountersType DEF DurableInv, StoreStep, LocalsKept, GiveUp, Submit, Tick, vars
<1>2. /\ outcome \in [Call -> {"unsent", "waiting", "ok", "error"}]
      /\ request \in [Call -> Request \cup {NoRequest}]
      /\ ops \in [Manager -> Seq(Call)] /\ pending \in [Manager -> Seq(Call)]
  BY <1>1 DEF TypeOK
<1>3. CallStep /\ \A k \in Call : outcome'[k] = "ok" => outcome[k] # "unsent" /\ ~Awaited(k)
  BY <1>2 DEF CallStep, Awaited, GiveUp, Submit, Tick, vars
<1>4. ManagersInv'
  BY <1>1, <1>3, NoManagerMoves
<1>5. StrayInv'
  BY <1>1, StrayKept
<1>6. ConfirmedKept'
  BY <1>1, <1>3, ConfirmedStays
<1>7. SupplyInv'
  <2>1. CASE ops' = ops
    BY <2>1, <1>1, <1>3, SupplyKept DEF LocalsKept
  <2>2. ASSUME NEW k \in Call, NEW m \in Manager, Submit(k, m) PROVE SupplyInv'
    <3>1. outcome'[k] = "waiting" /\ pending' = pending
      BY <1>2, <2>2 DEF Submit
    <3>2. \A x \in Call : outcome[x] # "unsent" => outcome'[x] # "unsent"
      BY <1>3 DEF CallStep
    <3>3. ASSUME NEW n \in Manager, NEW i \in DOMAIN pending'[n]
          PROVE  outcome'[pending'[n][i]] # "unsent"
      <4>1. pending[n][i] \in Call /\ outcome[pending[n][i]] # "unsent"
        BY <1>2, <3>1 DEF DurableInv, SupplyInv
      <4> QED BY <4>1, <3>1, <3>2
    <3>4. ASSUME NEW n \in Manager, NEW i \in DOMAIN ops'[n]
          PROVE  outcome'[ops'[n][i]] # "unsent"
      <4>1. ops'[n] = IF n = m THEN Append(ops[m], k) ELSE ops[n]
        BY <1>2, <2>2 DEF Submit
      <4>2. ASSUME NEW q, q \in Seq(Call), NEW j \in DOMAIN Append(q, k)
            PROVE  \/ Append(q, k)[j] = k
                   \/ j \in DOMAIN q /\ Append(q, k)[j] = q[j]
        BY <4>2
      <4>3. ops'[n][i] = k \/ (i \in DOMAIN ops[n] /\ ops'[n][i] = ops[n][i])
        <5>1. CASE n = m
          <6>1. ops[n] \in Seq(Call) /\ ops'[n] = Append(ops[n], k)
            BY <4>1, <5>1, <1>2
          <6> QED BY <6>1, <4>2
        <5>2. CASE n # m
          BY <4>1, <5>2
        <5> QED BY <5>1, <5>2
      <4>4. ASSUME i \in DOMAIN ops[n]
            PROVE  ops[n][i] \in Call /\ outcome[ops[n][i]] # "unsent"
        <5>1. ops[n] \in Seq(Call)
          BY <1>2
        <5> QED BY <5>1, <4>4 DEF DurableInv, SupplyInv
      <4> QED BY <4>3, <4>4, <3>1, <3>2
    <3> QED BY <1>1, <3>3, <3>4 DEF DurableInv, SupplyInv
  <2> QED BY <2>1, <2>2 DEF GiveUp, Tick, vars
<1> QED BY <1>1, <1>4, <1>5, <1>6, <1>7 DEF DurableInv, AckedStaysGone

\* Collect, Load and Begin: a batch is gathered and cloned.
LEMMA CollectDurable ==
  ASSUME DurableInv, TypeOK', NEW m \in Manager, Collect(m) \/ Load(m) \/ Begin(m)
  PROVE  DurableInv'
<1> USE DEF storeVars, callVars, cacheVars, batchVars
<1>1. /\ TypeOK /\ issued' \in Nat /\ issued <= issued' /\ issued' = issued
      /\ StoreStep /\ UNCHANGED <<storedJobs, storedEtag, acked, stray, request, outcome>>
  BY CountersType DEF DurableInv, StoreStep, Collect, Load, Begin
<1>2. CallStep /\ \A k \in Call : outcome'[k] = "ok" => outcome[k] # "unsent" /\ ~Awaited(k)
  BY <1>1, SameCalls
<1>3. /\ phase \in [Manager -> {"idle", "start", "apply", "landed"}]
      /\ loaded \in [Manager -> BOOLEAN] /\ etag \in [Manager -> Nat]
      /\ ops \in [Manager -> Seq(Call)]
      /\ pending \in [Manager -> Seq(Call)]
      /\ applied \in [Manager -> Nat] /\ mutated \in [Manager -> BOOLEAN]
      /\ acking \in [Manager -> SUBSET (JobId \X Item)]
      /\ working = [n \in Manager |-> working[n]]
      /\ state = [n \in Manager |-> state[n]]
  BY <1>1 DEF TypeOK
<1>4. \A n \in Manager \ {m} : LocalsKept(n)
  BY <1>3 DEF LocalsKept, Collect, Load, Begin
<1>5. CacheOK(m)
  BY DEF DurableInv, ManagersInv
<1>6. (CacheOK(m) /\ ApplyOK(m) /\ LandedOK(m))'
  <2>1. CASE Collect(m)
    <3>1. phase'[m] = "start" /\ UNCHANGED <<loaded, state, etag>>
      BY <1>3, <2>1 DEF Collect
    <3> QED BY <3>1, <1>1, <1>5 DEF CacheOK, ApplyOK, LandedOK
  <2>2. CASE Load(m)
    <3>1. /\ phase'[m] = "start" /\ state'[m] = storedJobs /\ etag'[m] = storedEtag
      BY <1>3, <2>2 DEF Load
    <3>2. DOMAIN storedJobs \subseteq 1 .. issued /\ storedEtag \in Nat
      BY <1>1, CountersType DEF DurableInv, SupplyInv
    <3> QED BY <3>1, <3>2, <1>1 DEF CacheOK, ApplyOK, LandedOK
  <2>3. CASE Begin(m)
    <3>1. /\ phase'[m] = "apply" /\ loaded[m] /\ UNCHANGED <<loaded, state, etag, pending>>
          /\ working'[m] = state[m] /\ applied'[m] = 0 /\ acking'[m] = {}
      BY <1>3, <2>3 DEF Begin
    <3>2. CacheOK(m)'
      BY <3>1, <1>1, <1>5 DEF CacheOK
    <3>3. CloneInv(etag[m], state[m], {})
      BY <3>1, <1>5 DEF CacheOK, CloneInv, Accounted, DurableInv, AckedStaysGone
    <3>4. CloneInv(etag[m], working[m], acking[m])'
      BY <3>1, <3>3, <1>1 DEF CloneInv, Accounted, Payloads
    <3>5. applied'[m] <= Len(pending'[m]) /\ 1 .. applied'[m] = {}
      <4>1. pending[m] \in Seq(Call)
        BY <1>3
      <4> QED BY <3>1, <4>1
    <3>6. ApplyOK(m)' /\ LandedOK(m)'
      BY <3>1, <3>4, <3>5 DEF ApplyOK, LandedOK
    <3> QED BY <3>2, <3>6
  <2> QED BY <2>1, <2>2, <2>3
<1>7. ManagersInv'
  BY <1>1, <1>2, <1>4, <1>6, OneManagerMoves
<1>8. SupplyInv'
  <2>1. CASE UNCHANGED <<pending, ops>>
    BY <2>1, <1>1, <1>2, SupplyKept
  <2>2. CASE Collect(m)
    <3>1. PICK len \in 1 .. Len(ops[m]) :
            /\ pending' = [pending EXCEPT ![m] = SubSeq(ops[m], 1, len)]
            /\ ops' = [ops EXCEPT ![m] = SubSeq(@, len + 1, Len(@))]
      BY <2>2 DEF Collect
    <3>2. ASSUME NEW q, q \in Seq(Call), NEW a \in 1 .. Len(q) + 1, NEW b \in 0 .. Len(q),
                 NEW i \in DOMAIN SubSeq(q, a, b)
          PROVE  \E j \in DOMAIN q : SubSeq(q, a, b)[i] = q[j]
      BY <3>2
    <3>3. ops[m] \in Seq(Call) /\ Len(ops[m]) \in Nat
      BY <1>3
    <3>4. /\ \A i \in DOMAIN pending'[m] : \E j \in DOMAIN ops[m] : pending'[m][i] = ops[m][j]
          /\ \A i \in DOMAIN ops'[m] : \E j \in DOMAIN ops[m] : ops'[m][i] = ops[m][j]
      <4>1. /\ 1 \in 1 .. Len(ops[m]) + 1 /\ len \in 0 .. Len(ops[m])
            /\ len + 1 \in 1 .. Len(ops[m]) + 1 /\ Len(ops[m]) \in 0 .. Len(ops[m])
        BY <3>3
      <4>2. /\ pending'[m] = SubSeq(ops[m], 1, len)
            /\ ops'[m] = SubSeq(ops[m], len + 1, Len(ops[m]))
        BY <3>1, <1>3
      <4> QED BY <4>1, <4>2, <3>2, <3>3
    <3>5. \A n \in Manager \ {m} : ops'[n] = ops[n] /\ pending'[n] = pending[n]
      BY <3>1, <1>3
    <3> QED BY <3>4, <3>5, <1>1, <1>2, SupplyKept
  <2> QED BY <2>1, <2>2 DEF Load, Begin
<1>9. StrayInv'
  BY <1>1, StrayKept
<1>10. ConfirmedKept'
  BY <1>1, <1>2, ConfirmedStays
<1> QED BY <1>1, <1>7, <1>8, <1>9, <1>10 DEF DurableInv, AckedStaysGone

\* One call of the batch is applied.
LEMMA ApplyDurable ==
  ASSUME DurableInv, TypeOK', NEW m \in Manager, Apply(m)
  PROVE  DurableInv'
<1> USE DEF storeVars, cacheVars
<1> DEFINE k == pending[m][applied[m] + 1]
<1>1. /\ TypeOK /\ issued' \in Nat /\ issued <= issued' /\ StoreStep
      /\ UNCHANGED <<storedJobs, storedEtag, acked, stray, request, outcome,
                     loaded, state, etag, pending, ops, phase>>
  BY ApplyAdvances DEF DurableInv, StoreStep, Apply
<1>2. CallStep /\ \A x \in Call : outcome'[x] = "ok" => outcome[x] # "unsent" /\ ~Awaited(x)
  BY <1>1, SameCalls
<1>3. /\ pending[m] \in Seq(Call) /\ applied \in [Manager -> Nat]
      /\ mutated \in [Manager -> BOOLEAN]
      /\ acking \in [Manager -> SUBSET (JobId \X Item)]
      /\ working = [n \in Manager |-> working[n]]
      /\ issued \in Nat
  BY <1>1, CountersType DEF TypeOK
<1>4. applied' = [applied EXCEPT ![m] = @ + 1] /\ phase[m] = "apply" /\ applied[m] < Len(pending[m])
  BY DEF Apply
<1>5. \A n \in Manager \ {m} : LocalsKept(n)
  <2>1. CASE Enqueue(m, k)
    BY <2>1, <1>1, <1>3, <1>4 DEF LocalsKept, Enqueue
  <2>2. CASE Claim(m, k)
    BY <2>2, <1>1, <1>3, <1>4 DEF LocalsKept, Claim
  <2>3. CASE Settle(m, k)
    BY <2>3, <1>1, <1>3, <1>4 DEF LocalsKept, Settle
  <2>4. CASE UNCHANGED <<working, mutated, acking>>
    BY <2>4, <1>1, <1>3, <1>4 DEF LocalsKept
  <2> QED BY <2>1, <2>2, <2>3, <2>4 DEF Apply
<1>6. CacheOK(m) /\ ApplyOK(m)
  BY DEF DurableInv, ManagersInv
<1>7. CacheOK(m)'
  BY <1>1, <1>3, <1>6 DEF CacheOK
<1>8. CloneInv(etag[m], working[m], acking[m])'
  <2>1. CloneInv(etag[m], working[m], acking[m])
    BY <1>4, <1>6 DEF ApplyOK
  <2>2. Advances(working[m], acking[m], working'[m], acking'[m])
    BY ApplyAdvances
  <2>3. ASSUME NEW u, NEW acks2, Advances(working[m], acking[m], u, acks2)
        PROVE  CloneInv(etag[m], u, acks2)'
    <3>1. SupplyInv
      BY DEF DurableInv
    <3> QED BY <2>1, <2>3, <3>1, <1>1, AdvanceKeepsClone
  <2> DEFINE u == working'[m]
             acks2 == acking'[m]
  <2>4. DOMAIN u \subseteq 1 .. issued'
    BY <2>1, <2>2, <1>1, <1>3 DEF Advances, CloneInv
  <2>5. \A a \in acks2 : a[1] \in 1 .. issued' /\ a[1] \notin DOMAIN u
    BY <2>2 DEF Advances
  <2>6. etag[m] <= storedEtag
    BY <2>1 DEF CloneInv
  <2>7. etag[m] = storedEtag => /\ Payloads(storedJobs) \subseteq Accounted(u, acks2)
                                /\ \A a \in acked : a[1] \notin DOMAIN u
    BY <2>1, <2>2, <1>3 DEF CloneInv, Advances, DurableInv, SupplyInv
  <2> QED BY <2>4, <2>5, <2>6, <2>7, <1>1 DEF CloneInv, Accounted, Payloads
<1>9. applied'[m] = applied[m] + 1 /\ applied'[m] <= Len(pending[m])
  BY <1>3, <1>4
<1>10. ASSUME NEW i \in 1 .. applied'[m], Awaited(pending[m][i])
       PROVE  /\ mutated'[m]
              /\ ItemsOf(pending[m][i]) \subseteq Accounted(working'[m], acking'[m])
  <2>1. CASE i = applied[m] + 1
    BY <2>1, <1>10, ApplyAdvances
  <2>2. CASE i \in 1 .. applied[m]
    <3>1. /\ mutated[m]
          /\ ItemsOf(pending[m][i]) \subseteq Accounted(working[m], acking[m])
      BY <2>2, <1>4, <1>6, <1>10 DEF ApplyOK
    <3>2. /\ mutated'[m]
          /\ Accounted(working[m], acking[m]) \subseteq Accounted(working'[m], acking'[m])
      BY <3>1, ApplyAdvances DEF Advances
    <3> QED BY <3>1, <3>2
  <2> QED BY <2>1, <2>2, <1>3, <1>9
<1>11. ApplyOK(m)' /\ LandedOK(m)'
  <2>1. \A x \in Call : Awaited(x)' = Awaited(x) /\ ItemsOf(x)' = ItemsOf(x)
    BY <1>1 DEF Awaited, ItemsOf
  <2>2. \A i \in 1 .. applied'[m] : pending[m][i] \in Call
    BY <1>3, <1>9
  <2>3. Accounted(working[m], acking[m])' = Accounted(working'[m], acking'[m])
    BY DEF Accounted, Payloads
  <2>4. ASSUME NEW i \in 1 .. applied'[m], Awaited(pending[m][i])'
        PROVE  /\ mutated'[m]
               /\ ItemsOf(pending[m][i])' \subseteq Accounted(working[m], acking[m])'
    <3>1. Awaited(pending[m][i])
      BY <2>4, <1>1 DEF Awaited
    <3>2. ItemsOf(pending[m][i])' = ItemsOf(pending[m][i])
      BY <1>1 DEF ItemsOf
    <3> QED BY <3>1, <3>2, <2>3, <1>10
  <2> QED BY <2>4, <1>1, <1>4, <1>8, <1>9 DEF ApplyOK, LandedOK
<1>12. ManagersInv'
  BY <1>1, <1>2, <1>5, <1>7, <1>11, OneManagerMoves
<1>13. SupplyInv'
  BY <1>1, <1>2, SupplyKept
<1>14. StrayInv'
  BY <1>1, StrayKept
<1>15. ConfirmedKept'
  BY <1>1, <1>2, ConfirmedStays
<1> QED BY <1>1, <1>12, <1>13, <1>14, <1>15 DEF DurableInv, AckedStaysGone

\* A batch that changed nothing, or failed, or whose save was confirmed.
LEMMA BatchDurable ==
  ASSUME DurableInv, TypeOK', NEW m \in Manager,
         \/ LoadFails(m) \/ ReplyUnchanged(m) \/ SaveConfirmed(m)
         \/ SaveFails(m) \/ Crash(m)
  PROVE  DurableInv'
<1> USE DEF storeVars, callVars, cacheVars
<1>1. /\ TypeOK /\ issued' \in Nat /\ issued <= issued' /\ StoreStep
      /\ EndBatch(m)
      /\ UNCHANGED <<storedJobs, storedEtag, acked, issued, request>>
  BY CountersType DEF DurableInv, StoreStep, LoadFails, ReplyUnchanged, SaveConfirmed,
                      SaveFails, Crash
<1>2. /\ loaded \in [Manager -> BOOLEAN] /\ etag \in [Manager -> Nat]
      /\ state = [n \in Manager |-> state[n]]
      /\ phase \in [Manager -> {"idle", "start", "apply", "landed"}]
      /\ pending[m] \in Seq(Call) /\ applied[m] \in Nat
      /\ outcome \in [Call -> {"unsent", "waiting", "ok", "error"}]
      /\ storedEtag \in Nat
  BY <1>1, CountersType DEF TypeOK
<1>3. \A n \in Manager \ {m} : UNCHANGED <<loaded[n], state[n], etag[n]>>
  BY <1>2 DEF LoadFails, ReplyUnchanged, SaveConfirmed, SaveFails, Crash, DropCache
<1>4. phase'[m] = "idle"
  BY <1>1, <1>2 DEF EndBatch
<1>5. CacheOK(m) /\ ApplyOK(m) /\ LandedOK(m)
  BY DEF DurableInv, ManagersInv
<1>6. CacheOK(m)'
  <2>1. CASE UNCHANGED <<loaded, state, etag>>
    BY <2>1, <1>1, <1>4, <1>5 DEF CacheOK
  <2>2. CASE DropCache(m)
    <3>1. ~loaded'[m]
      BY <2>2, <1>2 DEF DropCache
    <3> QED BY <3>1, <1>4 DEF CacheOK
  <2>3. CASE SaveConfirmed(m)
    <3>1. /\ state'[m] = working[m] /\ etag'[m] = etag[m] + 1 /\ phase[m] = "landed"
      BY <2>3, <1>2 DEF SaveConfirmed
    <3> QED BY <3>1, <1>1, <1>2, <1>4, <1>5 DEF CacheOK, LandedOK
  <2> QED BY <2>1, <2>2, <2>3 DEF LoadFails, ReplyUnchanged, SaveFails, Crash
<1>7. /\ CallStep
      /\ \A k \in Call : outcome'[k] = "ok" => outcome[k] # "unsent"
      /\ \A k \in Call : outcome'[k] = "ok" /\ Awaited(k) =>
           k \in Batch(m) /\ (ReplyUnchanged(m) \/ SaveConfirmed(m))
  <2>1. CASE LoadFails(m) \/ SaveFails(m)
    <3>1. Reply(m, "error")
      BY <2>1 DEF LoadFails, SaveFails
    <3> QED BY <3>1, <1>1, ReplySteps
  <2>2. CASE ReplyUnchanged(m) \/ SaveConfirmed(m)
    <3>1. Reply(m, "ok")
      BY <2>2 DEF ReplyUnchanged, SaveConfirmed
    <3> QED BY <2>2, <3>1, <1>1, ReplySteps
  <2>3. CASE Crash(m)
    BY <2>3, <1>1, <1>2 DEF Crash, CallStep, Awaited
  <2> QED BY <2>1, <2>2, <2>3
<1>8. ASSUME NEW k \in Call, outcome'[k] = "ok", Awaited(k)
      PROVE  ItemsOf(k) \subseteq Accounted(storedJobs, acked)
  <2>1. PICK i \in DOMAIN pending[m] : k = pending[m][i]
    BY <1>7, <1>8 DEF Batch
  <2>2. CASE SaveConfirmed(m)
    BY <2>1, <2>2, <1>5, <1>8 DEF SaveConfirmed, LandedOK
  <2>3. CASE ReplyUnchanged(m)
    <3>1. phase[m] = "apply" /\ i \in 1 .. applied[m] /\ ~mutated[m]
      BY <2>1, <2>3, <1>2 DEF ReplyUnchanged, AllApplied
    <3> QED BY <2>1, <3>1, <1>5, <1>8 DEF ApplyOK
  <2> QED BY <2>2, <2>3, <1>7, <1>8
<1>9. ops' \in {ops, [ops EXCEPT ![m] = <<>>]}
  BY DEF LoadFails, ReplyUnchanged, SaveConfirmed, SaveFails, Crash
<1>10. SupplyInv' /\ ManagersInv' /\ ConfirmedKept' /\ AckedStaysGone'
  BY <1>1, <1>3, <1>6, <1>7, <1>8, <1>9, BatchOver
<1>11. StrayInv'
  <2>1. CASE stray' = stray
    BY <2>1, <1>1, StrayKept
  <2>2. CASE /\ Saving(m)
             /\ stray' = stray \cup {[etag |-> etag[m], jobs |-> working[m],
                                      acking |-> acking[m]]}
    <3> DEFINE put == [etag |-> etag[m], jobs |-> working[m], acking |-> acking[m]]
    <3>1. IsPut(put)
      BY <1>1 DEF TypeOK, IsPut
    <3>2. CloneInv(put.etag, put.jobs, put.acking)
      BY <2>2, <1>5 DEF Saving, AllApplied, ApplyOK
    <3> HIDE DEF put
    <3>3. stray' = stray \cup {put}
      BY <2>2 DEF put
    <3> QED BY <3>1, <3>2, <3>3, <1>1, StrayKept
  <2> QED BY <2>1, <2>2 DEF LoadFails, ReplyUnchanged, SaveConfirmed, SaveFails, Crash
<1> QED BY <1>10, <1>11 DEF DurableInv

\* The PUT of a batch lands, is refused, or is repeated by the S3 client.
LEMMA SaveDurable ==
  ASSUME DurableInv, TypeOK', NEW m \in Manager,
         SaveLands(m) \/ SaveRefused(m) \/ SaveRepeated(m)
  PROVE  DurableInv'
<1> USE DEF storeVars, callVars, cacheVars, batchVars
<1>1. /\ TypeOK /\ issued' \in Nat /\ issued <= issued' /\ issued' = issued
      /\ UNCHANGED <<stray, request, outcome, ops, pending>>
  BY CountersType DEF DurableInv, SaveLands, SaveRefused, SaveRepeated, Again
<1>2. CallStep /\ \A k \in Call : outcome'[k] = "ok" => outcome[k] # "unsent" /\ ~Awaited(k)
  BY <1>1, SameCalls
<1>3. /\ phase \in [Manager -> {"idle", "start", "apply", "landed"}]
      /\ loaded \in [Manager -> BOOLEAN] /\ etag \in [Manager -> Nat]
      /\ state = [n \in Manager |-> state[n]]
      /\ pending[m] \in Seq(Call) /\ applied[m] \in Nat
      /\ storedEtag \in Nat
  BY <1>1, CountersType DEF TypeOK
<1>4. \A n \in Manager \ {m} : LocalsKept(n)
  BY <1>1, <1>3 DEF LocalsKept, SaveLands, SaveRefused, SaveRepeated, Again, DropCache
<1>5. CacheOK(m) /\ ApplyOK(m) /\ LandedOK(m)
  BY DEF DurableInv, ManagersInv
<1>6. SaveLands(m) =>
        /\ phase[m] = "apply" /\ applied[m] = Len(pending[m])
        /\ CloneInv(etag[m], working[m], acking[m])
        /\ Lands(etag[m], working[m], acking[m])
  BY <1>5 DEF SaveLands, Saving, AllApplied, ApplyOK
<1>7. /\ StoreStep
      /\ DOMAIN storedJobs' \subseteq 1 .. issued'
      /\ \A a \in acked' : a[1] \in 1 .. issued'
      /\ AckedStaysGone'
  <2>1. CASE SaveLands(m)
    BY <2>1, <1>1, <1>6, LandingSafe
  <2>2. CASE UNCHANGED <<storedJobs, storedEtag, acked>>
    BY <2>2, <1>1 DEF StoreStep, DurableInv, SupplyInv, AckedStaysGone
  <2> QED BY <2>1, <2>2 DEF SaveRefused, SaveRepeated
<1>8. (CacheOK(m) /\ ApplyOK(m) /\ LandedOK(m))'
  <2>1. CASE SaveLands(m)
    <3>1. /\ phase'[m] = "landed" /\ UNCHANGED <<loaded, state, etag, working, acking>>
          /\ storedEtag' = storedEtag + 1 /\ storedJobs' = working[m]
          /\ acked' = acked \cup acking[m] /\ etag[m] = storedEtag
      BY <2>1, <1>3 DEF SaveLands, Lands
    <3>2. CacheOK(m)'
      BY <2>1, <3>1, <1>1, <1>3, <1>5, <1>6 DEF CacheOK
    <3>3. etag'[m] < storedEtag' /\ DOMAIN working'[m] \subseteq 1 .. issued'
      BY <3>1, <2>1, <1>1, <1>3, <1>6 DEF CloneInv
    <3>4. ASSUME NEW i \in DOMAIN pending[m], Awaited(pending[m][i])'
          PROVE  ItemsOf(pending[m][i])' \subseteq Accounted(storedJobs, acked)'
      <4>1. Awaited(pending[m][i]) /\ ItemsOf(pending[m][i])' = ItemsOf(pending[m][i])
        BY <3>4, <1>1 DEF Awaited, ItemsOf
      <4>2. i \in 1 .. applied[m]
        BY <2>1, <1>3, <1>6, SMTT(30)
      <4>3. ItemsOf(pending[m][i]) \subseteq Accounted(working[m], acking[m])
        BY <4>1, <4>2, <2>1, <1>5, <1>6 DEF ApplyOK
      <4> QED BY <4>1, <4>3, <3>1 DEF Accounted, Payloads
    <3> QED BY <3>1, <3>2, <3>3, <3>4, <1>1 DEF ApplyOK, LandedOK
  <2>2. CASE SaveRefused(m) \/ SaveRepeated(m)
    <3>1. phase'[m] = "start" /\ ~loaded'[m]
      BY <2>2, <1>3 DEF SaveRefused, SaveRepeated, Again, DropCache
    <3> QED BY <3>1 DEF CacheOK, ApplyOK, LandedOK
  <2> QED BY <2>1, <2>2
<1>9. ManagersInv'
  BY <1>1, <1>2, <1>4, <1>7, <1>8, OneManagerMoves
<1>10. SupplyInv'
  BY <1>1, <1>2, <1>7, CallsKept
<1>11. StrayInv'
  BY <1>1, <1>7, StrayKept
<1>12. ConfirmedKept'
  BY <1>1, <1>2, <1>7, ConfirmedStays
<1> QED BY <1>7, <1>9, <1>10, <1>11, <1>12 DEF DurableInv

\* A PUT arrives whose sender no longer waits for it.
LEMMA StrayDurable ==
  ASSUME DurableInv, TypeOK', StrayArrives
  PROVE  DurableInv'
<1> USE DEF callVars, cacheVars, batchVars
<1>1. /\ TypeOK /\ issued' \in Nat /\ issued <= issued' /\ issued' = issued
      /\ UNCHANGED <<request, outcome, ops, pending>>
      /\ \A n \in Manager : LocalsKept(n)
  BY CountersType DEF DurableInv, StrayArrives, LocalsKept
<1>2. CallStep /\ \A k \in Call : outcome'[k] = "ok" => outcome[k] # "unsent" /\ ~Awaited(k)
  BY <1>1, SameCalls
<1>3. PICK p \in stray :
        /\ stray' = stray \ {p}
        /\ \/ Lands(p.etag, p.jobs, p.acking)
           \/ UNCHANGED <<storedJobs, storedEtag, acked>>
  BY DEF StrayArrives
<1>4. CloneInv(p.etag, p.jobs, p.acking)
  BY DEF DurableInv, StrayInv
<1>5. /\ StoreStep
      /\ DOMAIN storedJobs' \subseteq 1 .. issued'
      /\ \A a \in acked' : a[1] \in 1 .. issued'
      /\ AckedStaysGone'
  <2>1. CASE Lands(p.etag, p.jobs, p.acking)
    BY <2>1, <1>1, <1>4, LandingSafe
  <2>2. CASE UNCHANGED <<storedJobs, storedEtag, acked>>
    BY <2>2, <1>1 DEF StoreStep, DurableInv, SupplyInv, AckedStaysGone
  <2> QED BY <2>1, <2>2, <1>3
<1>6. ManagersInv'
  BY <1>1, <1>2, <1>5, NoManagerMoves
<1>7. SupplyInv'
  BY <1>1, <1>2, <1>5, CallsKept
<1>8. StrayInv'
  BY <1>1, <1>3, <1>5, StrayKept
<1>9. ConfirmedKept'
  BY <1>1, <1>2, <1>5, ConfirmedStays
<1> QED BY <1>5, <1>6, <1>7, <1>8, <1>9 DEF DurableInv

\* DurableInv is inductive.
LEMMA NextDurable == DurableInv /\ [Next]_vars => DurableInv'
<1> SUFFICES ASSUME DurableInv, [Next]_vars PROVE DurableInv'
  OBVIOUS
<1>1. TypeOK'
  BY NextType DEF DurableInv
<1>2. CASE \/ \E k \in Call : GiveUp(k) \/ \E m \in Manager : Submit(k, m)
           \/ Tick
           \/ UNCHANGED vars
  BY <1>1, <1>2, CallersDurable
<1>3. CASE StrayArrives
  BY <1>1, <1>3, StrayDurable
<1>4. ASSUME NEW m \in Manager, Step(m) \/ Fault(m) PROVE DurableInv'
  <2>1. CASE Collect(m) \/ Load(m) \/ Begin(m)
    BY <2>1, <1>1, CollectDurable
  <2>2. CASE Apply(m)
    BY <2>2, <1>1, ApplyDurable
  <2>3. CASE \/ LoadFails(m) \/ ReplyUnchanged(m) \/ SaveConfirmed(m)
             \/ SaveFails(m) \/ Crash(m)
    BY <2>3, <1>1, BatchDurable
  <2>4. CASE SaveLands(m) \/ SaveRefused(m) \/ SaveRepeated(m)
    BY <2>4, <1>1, SaveDurable
  <2> QED BY <1>4, <2>1, <2>2, <2>3, <2>4 DEF Step, Fault
<1> QED BY <1>2, <1>3, <1>4 DEF Next

\* DurableInv holds at the start.
LEMMA InitDurable == Init => DurableInv
<1> SUFFICES ASSUME Init PROVE DurableInv
  OBVIOUS
<1>1. TypeOK
  BY InitType
<1>2. SupplyInv
  BY DEF Init, SupplyInv, NoJobs
<1>3. ManagersInv
  BY DEF Init, ManagersInv, CacheOK, ApplyOK, LandedOK
<1>4. StrayInv /\ ConfirmedKept /\ AckedStaysGone
  BY DEF Init, StrayInv, ConfirmedKept, AckedStaysGone
<1> QED BY <1>1, <1>2, <1>3, <1>4 DEF DurableInv

\* The inductive invariant always holds.
THEOREM AlwaysDurable == Spec => []DurableInv
BY InitDurable, NextDurable, PTL DEF Spec

\* Whatever was refused, lost, repeated or late, a cache that carries the
\* stored object's ETag is the stored table (the premise of save's
\* compare-and-set).
THEOREM CoherentCaches == Spec => []CacheCoherent
<1>1. DurableInv => CacheCoherent
  BY DEF DurableInv, ManagersInv, CacheOK, CacheCoherent
<1> QED BY <1>1, AlwaysDurable, PTL

\* No job of an enqueue that Enqueue answered without error is lost, with any
\* number of Managers writing the object and any number of failed saves.
THEOREM ConfirmedNeverLost == Spec => []ConfirmedKept
<1>1. DurableInv => ConfirmedKept
  BY DEF DurableInv
<1> QED BY <1>1, AlwaysDurable, PTL

\* No job whose ack has been stored comes back, from a stale cache, a repeated
\* batch or a late PUT.
THEOREM AckedNeverReturns == Spec => []AckedStaysGone
<1>1. DurableInv => AckedStaysGone
  BY DEF DurableInv
<1> QED BY <1>1, AlwaysDurable, PTL

=============================================================================
