------------------------------ MODULE Service ------------------------------
(***************************************************************************)
(* Requests of every kind in progress together, with what the rest of the  *)
(* system does to the tables meanwhile: time expires a code or a session,  *)
(* a member is suspended, a participant leaves, the projector and the      *)
(* search indexer catch up.                                                *)
(***************************************************************************)
EXTENDS Search, RateLimiter

Steps == {"new", "authenticate", "done", "send code", "lock challenge", "resolve user", "sign in",
  "exchange", "delete state", "find account", "account's email", "enter", "revoke key",
  "update agent", "select token", "revoke token", "lock token", "lock old token", "new token",
  "update room", "insert message", "edit", "delete", "mark read", "page", "insert sub",
  "check sub", "write sub", "principals", "candidates", "hydrate"}

-----------------------------------------------------------------------------
(* The scenes: tables the handlers can have left, before any of the        *)
(* requests was sent.                                                      *)

TableNames == {"user", "challenge", "state", "account", "session", "key", "agent", "token", "space",
  "member", "room", "seat", "message", "read", "sub", "event", "told", "clock"}
NamedByRequest == {"user", "challenge", "session", "key", "agent", "token", "space", "room", "message", "sub"}

IsTables(d) ==
  /\ DOMAIN d = TableNames
  /\ \A u \in DOMAIN d.user : DOMAIN d.user[u] = {"kind", "status", "email", "handle", "bio"}
  /\ \A c \in DOMAIN d.challenge : DOMAIN d.challenge[c] = {"email", "code", "used", "expired", "at"}
  /\ \A s \in DOMAIN d.session : DOMAIN d.session[s] = {"user", "live", "by"}
  /\ \A k \in DOMAIN d.key : DOMAIN d.key[k] = {"user", "space", "live"}
  /\ \A a \in DOMAIN d.agent : DOMAIN d.agent[a] = {"owner", "space", "mode"}
  /\ \A t \in DOMAIN d.token : DOMAIN d.token[t] = {"agent", "live", "blank"}
  /\ \A c \in DOMAIN d.room : DOMAIN d.room[c] = {"space", "policy", "creator", "title", "archived", "last"}
  /\ \A m \in DOMAIN d.message : DOMAIN d.message[m] = {"room", "author", "at", "body", "deleted"}
  /\ \A s \in DOMAIN d.sub : DOMAIN d.sub[s] = {"owner", "space", "about", "enabled"}

\* The foreign keys.
References(d) ==
  /\ \A c \in DOMAIN d.session : d.session[c].user \in DOMAIN d.user
  /\ \A k \in DOMAIN d.key : d.key[k].user \in DOMAIN d.user
  /\ \A who \in DOMAIN d.account : d.account[who] \in DOMAIN d.user
  /\ \A t \in DOMAIN d.token : d.token[t].agent \in DOMAIN d.agent
  /\ DOMAIN d.agent \subseteq DOMAIN d.user
  /\ DOMAIN d.member \subseteq (DOMAIN d.space) \X (DOMAIN d.user)
  /\ d.seat \subseteq (DOMAIN d.room) \X (DOMAIN d.user)
  /\ \A c \in DOMAIN d.room : d.room[c].space \in DOMAIN d.space \cup {None}
  /\ \A m \in DOMAIN d.message : d.message[m].room \in DOMAIN d.room

\* The unique indexes on the address of a user and on the live key of an agent.
\* An agent is created with a key. No request changes a user's address, and
\* the provider's (EmailOf) is taken to be the one the account was linked by.
UniqueRows(d) ==
  /\ \A u, v \in DOMAIN d.user : d.user[u].email # None /\ d.user[u].email = d.user[v].email => u = v
  /\ \A who \in DOMAIN d.account :
       EmailOf[who] # None => d.user[d.account[who]].email = EmailOf[who]
  /\ \A a \in DOMAIN d.agent : \E t \in DOMAIN d.token : LiveTokens(d, a) = {t}

\* What an internal event of a conversation says of its workspace, and what the
\* projector makes of such events: the feeds an event is in are of the workspace
\* it names.
Fits(i, d) ==
  /\ i.kind \in {"user", "workspace", "conversation"}
  /\ i.kind = "conversation" => i.id \in DOMAIN d.room /\ d.room[i.id].space = i.space
FeedFits(f, space, d) ==
  /\ f[1] \in {"user", "workspace", "conversation"}
  /\ f[1] = "workspace" => f[2] = space
  /\ f[1] = "conversation" => f[2] \in DOMAIN d.room /\ d.room[f[2]].space = space
EventsFit(d) ==
  /\ Max0(DOMAIN d.event) \in Nat
  /\ \A e \in DOMAIN d.event : e \in Nat /\ e <= Max0(DOMAIN d.event)
  /\ \A i \in d.told : Fits(i, d)
  /\ \A e \in DOMAIN d.event : \A f \in d.event[e].feeds : FeedFits(f, d.event[e].space, d)

\* Messages are ordered in time, by now.
TimesApart(d) ==
  /\ IsFiniteSet(DOMAIN d.message) /\ d.clock \in Nat
  /\ \A m \in DOMAIN d.message : d.message[m].at \in Nat /\ d.message[m].at <= d.clock
  /\ \A m, n \in DOMAIN d.message : d.message[m].at = d.message[n].at => m = n

\* Sessions that were open before are by None, and no id or address is that of
\* a row that is yet to be inserted.
BeforeRequests(d) ==
  /\ \A s \in DOMAIN d.session : d.session[s].by = None
  /\ \A t \in NamedByRequest : DOMAIN d[t] \cap Request = {}
  /\ \A u \in DOMAIN d.user : d.user[u].email \notin Request
  /\ \A c \in DOMAIN d.challenge : None # <<"code", c>>

\* No row has the id None, no two credentials are the same, tables are finite.
Coherent(d) ==
  /\ None \notin DOMAIN d.space \cup DOMAIN d.room
  /\ \A t \in {"user", "space", "room", "event"} : IsFiniteSet(DOMAIN d[t])
  /\ DOMAIN d.session \cap (DOMAIN d.key \cup DOMAIN d.token) = {} /\ DOMAIN d.key \cap DOMAIN d.token = {}
  /\ \A c \in DOMAIN d.room : d.room[c].policy \in {"members", "workspace"}
  /\ \A e \in DOMAIN d.event : \A f \in d.event[e].feeds : f = <<f[1], f[2]>>

\* What a trigger checks: who sits in a private conversation of a workspace is
\* an active member of it.
SeatsAreMembers(d) == \A s \in d.seat : LET w == d.room[s[1]].space IN
  d.room[s[1]].policy = "members" /\ w # None =>
    <<w, s[2]>> \in DOMAIN d.member /\ d.member[<<w, s[2]>>] \in {"member", "admin", "owner"}

IsCommand(do) ==
  /\ do # None /\ do.op \notin Steps
  /\ do.op = "verifyEmail" => do.email \notin Request \cup {None}
  /\ do.op = "callback" => EmailOf[do.who] \notin Request

ASSUME ScenesAssumption == \A s \in DOMAIN Scenes :
  /\ IsTables(Scenes[s].db) /\ References(Scenes[s].db)
  /\ UniqueRows(Scenes[s].db) /\ BeforeRequests(Scenes[s].db)
  /\ EventsFit(Scenes[s].db) /\ TimesApart(Scenes[s].db) /\ Coherent(Scenes[s].db)
  /\ \A r \in Request : \A do \in Scenes[s].asks[r] : IsCommand(do)
  /\ \A change \in Scenes[s].churn : change[1] \in {"expire", "end", "suspend", "leave"}
ASSUME NoneAssumption ==
  /\ None \notin Request \cup {"ok", "refused", "error"}
  /\ \A c \in Request : None # <<"code", c>>

-----------------------------------------------------------------------------
VARIABLE churn   \* the changes that may still come, each once

vars == <<scene, db, req, index, churn, limiterVars>>
Here == Scenes[scene]

\* Suspending a member takes it out of the workspace's private conversations.
Suspend(w, u) == [db EXCEPT
  !.member[<<w, u>>] = "suspended",
  !.seat = {s \in @ : s[2] # u \/ db.room[s[1]].space # w \/ db.room[s[1]].policy # "members"}]

Changed(change) ==
  CASE change[1] = "expire"  -> [db EXCEPT !.challenge[change[2]].expired = TRUE]
    [] change[1] = "end"     -> RevokeAuthSession(db, change[2])
    [] change[1] = "suspend" -> Suspend(change[2], change[3])
    [] change[1] = "leave"   -> DeleteConversationParticipant(db, change[2], change[3])

Churn == \E change \in churn :
  /\ db' = Changed(change) /\ churn' = churn \ {change}
  /\ UNCHANGED <<req, index>>

-----------------------------------------------------------------------------
Init ==
  /\ scene \in DOMAIN Scenes
  /\ db = Here.db
  /\ req = [r \in Request |-> New]
  /\ index = IF Here.searched THEN FreshIndex ELSE {}
  /\ churn = Here.churn
  /\ LimiterInit

Step(r) == AccessStep(r) \/ MessagingStep(r) \/ SearchStep(r) \/ Send(r) \/ Authenticate(r)
Serve(r) == Step(r) /\ UNCHANGED <<scene, index, churn, limiterVars>>

Others ==
  /\ UNCHANGED <<scene, limiterVars>>
  /\ \/ Churn
     \/ Here.projected /\ Project /\ UNCHANGED <<index, churn>>
     \/ Reindex(Here.reindexed) /\ UNCHANGED <<db, req, churn>>
     \/ Here.crashes /\ UNCHANGED <<index, churn>> /\ \E r \in Request : Crash(r)

Next ==
  \/ \E r \in Request : Serve(r)
  \/ Others
  \/ Here.limited /\ LimiterNext /\ UNCHANGED <<scene, db, req, index, churn>>

Spec == Init /\ [][Next]_vars

\* Every request has a goroutine of its own.
FairSpec == Spec /\ \A r \in Request : WF_vars(Serve(r))

-----------------------------------------------------------------------------
(* Who may see what, by the rules of conversations, workspaces and feeds:  *)
(* what the queries and checks above, each on its own, come down to.       *)

ShareWorkspace(u, v) == \E w \in DOMAIN db.space : IsActive(w, u) /\ <<w, v>> \in DOMAIN db.member
ShareConversation(u, v) ==
  \E c \in DOMAIN db.room : db.room[c].policy = "members" /\ {<<c, u>>, <<c, v>>} \subseteq db.seat

MaySee(auth, x) ==
  LET u == auth.user
      id == x[2]
  IN CASE x[1] = "user" -> \/ id = u \/ ShareWorkspace(u, id) \/ ShareConversation(u, id)
                           \/ id \in ListAgentsManagedByUser(u)
       [] x[1] = "workspace" -> InScope(auth, id) /\ IsActive(id, u)
       [] x[1] = "conversation" -> InScope(auth, db.room[id].space) /\ ConversationVisible(id, u)
       [] x[1] = "message" ->
            InScope(auth, db.room[db.message[id].room].space) /\ ConversationVisible(db.message[id].room, u)
       [] x[1] = "event" -> InScope(auth, db.event[id].space) /\ ExternalEventVisible(id, u)
       [] x[1] = "key" -> db.key[id].user = u
       [] x[1] = "subscription" -> InScope(auth, db.sub[id].space) /\ db.sub[id].owner = u

\* What a search is for: what the caller may see, within the workspace and the
\* conversation asked for.
InPlace(r, space, room) ==
  LET w == SearchedSpace(Caller(r), Do(r))
  IN (w # None => space = w) /\ (Do(r).room # None => room = Do(r).room)

Found(r, x) ==
  LET u == Caller(r).user
      id == x[2]
      Seen(c) == ConversationVisible(c, u) /\ InPlace(r, db.room[c].space, c)
  IN CASE x[1] = "message" -> ~db.message[id].deleted /\ Seen(db.message[id].room)
       [] x[1] = "conversation" -> Seen(id)
       [] x[1] = "workspace" -> IsActive(id, u) /\ InPlace(r, id, None)
       [] x[1] = "user" ->
            /\ GetUser(id).status = "active"
            /\ \/ id = u /\ InPlace(r, None, None)
               \/ \E w \in DOMAIN db.space : IsActive(w, u) /\ IsActive(w, id) /\ InPlace(r, w, None)
               \/ \E c \in DOMAIN db.room : /\ db.room[c].policy = "members" /\ Seen(c)
                                            /\ IsConversationParticipant(c, id)
       [] x[1] = "event" -> \E f \in db.event[id].feeds :
            \/ f = <<"user", u>> /\ InPlace(r, None, None)
            \/ f[1] = "workspace" /\ IsActive(f[2], u) /\ InPlace(r, f[2], None)
            \/ /\ f[1] = "conversation" /\ Seen(f[2])
               /\ Do(r).room # None => db.room[f[2]].policy = "members"

Wanted(r) == {x \in Resources : (Do(r).kinds = {} \/ x[1] \in Do(r).kinds) /\ Found(r, x)}

-----------------------------------------------------------------------------
\* Type invariant; only a transaction holds locks, and rows refer to rows.
TypeOK ==
  /\ \A r \in Request :
       /\ req[r].pc \in Steps \/ (Do(r) # None /\ At(r, Do(r).op))
       /\ req[r].answer \in {None, "ok", "refused", "error"} /\ (req[r].answer # None <=> At(r, "done"))
       /\ req[r].locks # {} => req[r].tx
       /\ Caller(r) # None => Caller(r).user \in DOMAIN db.user
  /\ References(db)

\* A sign-in code, presented by several requests at once, opens one session.
CodeUsedOnce == \A c \in DOMAIN db.challenge :
  Cardinality({s \in DOMAIN db.session : db.session[s].by = <<"code", c>>}) <= 1

\* Who can read an address signs in as one user, whether by a code or by an
\* identity a provider vouches for, however the requests overlap.
\* An identity without a verified address is excepted.
Person(by) == IF by = None THEN None
              ELSE IF by[1] = "code" THEN db.challenge[by[2]].email ELSE EmailOf[by[2]]
OneUserPerPerson == \A s, t \in DOMAIN db.session :
  LET p == Person(db.session[s].by)
  IN p # None /\ p = Person(db.session[t].by) => db.session[s].user = db.session[t].user

\* An agent always has exactly one key that works, whatever is created, read
\* and rotated together, and whoever fails.
AgentKeepsKey == \A a \in DOMAIN db.agent : Cardinality(LiveTokens(db, a)) = 1

\* A change that does not name a conversation's archived mark or an agent's
\* handle, and all the same changes it, overlapped the request that set it:
\* one that is sent after the other's answer keeps what the other did.
NotNamed(r) ==
  \/ Do(r).op = "patchRoom" /\ Do(r).archived = None
     /\ db'.room[Do(r).room].archived # db.room[Do(r).room].archived
  \/ Do(r).op = "patchAgent" /\ Do(r).handle = None
     /\ db'.user[Do(r).agent].handle # db.user[Do(r).agent].handle
PatchUndoesOnlyOverlapping == [][\A r \in Request :
  req[r].pc \in {"update room", "update agent"} /\ req'[r].pc = "done" /\ NotNamed(r)
    => Answered \ Got(r).before # {}]_vars

\* A client that goes through the pages of a conversation while others post
\* has seen, at the end, every message there was when it asked for the first.
Listing(r, op) == At(r, "done") /\ req[r].answer = "ok" /\ Do(r).op = op
PagesMissNothing == \A r \in Request : Listing(r, "listMessages") =>
  Things("message", Got(r).start) \subseteq Got(r).shown

\* Whatever is shown is at that moment visible to the caller, and in the scope
\* of its key, when memberships end during the request and the index is
\* behind.  Excepted are the lists whose access is checked a statement
\* earlier.
Shown(e) == IF e.do.op \notin {"search", "listEvents"} \cup ReadOps \/ e.pc \in ReadOps
            THEN {} ELSE e.got.shown
ShownIsVisible == [][\A r \in Request :
  Do(r) # None /\ req'[r] # req[r] /\ req'[r].pc \in {"hydrate", "done", "authenticate"}
    => \A x \in Shown(req'[r]) \ Shown(req[r]) : MaySee(Caller(r), x)]_vars

\* The index is up to date, and nothing changes: there are only searches.
OnlySearches ==
  /\ Here.searched /\ ~Here.projected /\ Here.churn = {} /\ Here.reindexed = {}
  /\ SeatsAreMembers(Here.db)
  /\ \A r \in Request : \A do \in Here.asks[r] : do.op = "search"

\* Where a search of r looks, and as whom.
Space(r) == SearchedSpace(Caller(r), Do(r))
Principals(r) == ResolveQueryPrincipals(Caller(r).user, AllowGlobal(Caller(r)), Space(r))

\* As many documents as a query of a namespace answers with, of those a search
\* of r reaches, are always of more resources than a page holds.
Uncrowded(r) == LET docs == {d \in index : d.principal \in Principals(r)} IN
  \A d \in docs : \A some \in SUBSET Sharing(docs, d) :
    Cardinality(some) >= TargetLimit => Cardinality(Keys(some)) > Limit

\* When nothing changes meanwhile and the index is up to date, a search that
\* is followed to its end finds all there is to find, and nothing else.
\* Excepted: with a workspace key and no workspace in the request, the cursor
\* of the first page is refused; and where so few resources have so many
\* documents that they fill the answer of a namespace by themselves, the page
\* has no cursor and the resources beside them are not found.
SearchComplete == \A r \in Request :
  /\ OnlySearches /\ At(r, "done") /\ Caller(r) # None /\ req[r].answer # "error"
  /\ MaySearch(Caller(r), Do(r)) /\ (Caller(r).space # None => Do(r).space # None)
  /\ Uncrowded(r)
  => req[r].answer = "ok" /\ Got(r).shown = Wanted(r)

\* Every request is answered: none waits for ever for a row or a connection,
\* whichever transactions fail while they hold some.
EveryRequestAnswered == <>(\A r \in Request : Here.asks[r] # {} => At(r, "done"))

-----------------------------------------------------------------------------
(* What the documentation says and the code does not keep.                 *)

\* docs/SPEC.md:2157: the server returns only external events visible to that
\* caller after that point: a client that goes on from the cursor until there
\* is none has seen the events of the start it may still see.
FeedSkipsNothing == \A r \in Request : Listing(r, "listEvents") =>
  \A e \in Got(r).start : ExternalEventVisible(e, Caller(r).user) => <<"event", e>> \in Got(r).shown
=============================================================================
