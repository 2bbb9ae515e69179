----------------------------- MODULE MCPipeline -----------------------------
(***************************************************************************)
(* Instances of Pipeline: two workers, two events that become rows, one    *)
(* whose payload cannot be read and one of a type that has no row.         *)
(***************************************************************************)
EXTENDS SearchIndex

CONSTANTS w1, w2, s1, s2, r1, r2

Events == {"e1", "e2", "bad", "plain"}
Kinds  == [e1 |-> "user", e2 |-> "conversation", bad |-> "malformed", plain |-> "unlisted"]
Values == [e \in Events |->
             IF e = "e1" THEN [workspace |-> "W", type |-> "user.updated"]
             ELSE [workspace |-> Null, type |-> "conversation.created"]]

\* s1 names every column; s2 is for all the events of a workspace.
ExactFilters == [s \in {s1, s2} |-> [workspace |-> "W", type |->
                   IF s = s1 THEN "user.updated" ELSE "conversation.created"]]
OpenFilters  == [s \in {s1, s2} |-> [workspace |-> "W", type |->
                   IF s = s1 THEN "user.updated" ELSE Null]]
Visible == {s1, s2} \X Events

\* r1 is a message that r2 wrote: its documents do without a name they cannot read.
Quoted == [t \in {r1, r2} \cup Events |-> IF t = r1 THEN {r2} ELSE {}]

Namespaces == [t \in {r1, r2} \cup Events |-> IF t = r2 THEN "entity" ELSE "content"]

Scene(a, b, copies, events) ==
  [crew |-> [w \in {w1, w2} |-> IF w = w1 THEN a ELSE b],
   copies |-> [e \in Events |-> IF e \in DOMAIN copies THEN copies[e] ELSE 0],
   events |-> events, claim |-> 2, producing |-> TRUE, faults |-> 1, switches |-> 0,
   versions |-> 0, synced |-> {}]

\* Two projectors at an event that is enqueued twice; at two events; a projector
\* and a worker that delivers; two workers that deliver; two odd events; two
\* indexers at two resources that change; an indexer of an event not projected.
S1 == {[Scene("projector", "projector", [e1 |-> 2], <<>>) EXCEPT !.producing = FALSE, !.faults = 2]}
S2 == {[Scene("projector", "projector", [e1 |-> 1, e2 |-> 1], <<>>) EXCEPT !.faults = 0]}
S3 == {Scene("projector", "webhook", [e1 |-> 1, e2 |-> 1], <<>>)}
S4 == {[Scene("webhook", "webhook", [e1 |-> 0], <<"e1">>) EXCEPT !.switches = 1]}
S5 == {Scene("projector", "projector", [bad |-> 1, plain |-> 1], <<>>)}
S6 == {[Scene("indexer", "indexer", [e1 |-> 0], <<>>) EXCEPT !.versions = 2]}
S7 == {[Scene("projector", "indexer", [e1 |-> 1], <<>>) EXCEPT
          !.synced = {"e1"}, !.producing = FALSE]}
OneScene == {[Scene("projector", "webhook", [e1 |-> 1], <<>>) EXCEPT !.faults = 0]}
AllScenes == S1 \cup S2 \cup S3 \cup S4 \cup S5 \cup S6 \cup S7
=============================================================================
