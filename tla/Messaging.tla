----------------------------- MODULE Messaging -----------------------------
(***************************************************************************)
(* What the API does with a conversation besides who is in it: messages,   *)
(* read marks, changing the conversation itself, the lists and their       *)
(* pages, the feed of events, and subscriptions to it                      *)
(* (routes_messaging.go); workspaces and the other reads (routes_core.go). *)
(***************************************************************************)
EXTENDS Access

CONSTANT Limit   \* the rows of a page
ASSUME LimitAssumption == Limit \in Nat \ {0}

-----------------------------------------------------------------------------
(* Conversations and messages.                                             *)

EnsurePermission(auth, c) == \E row \in GetConversation(c) :
  /\ EnsureConversationAccess(auth, c)
  /\ \/ row.creator = auth.user
     \/ row.space # None /\ EnsureWorkspaceAdmin(auth, row.space)

LoadConversation(r) ==
  /\ At(r, "patchRoom")
  /\ IF EnsureHumanActor(Caller(r)) /\ EnsurePermission(Caller(r), Do(r).room)
     THEN Read(r, [archived |-> db.room[Do(r).room].archived, before |-> Answered], "update room")
     ELSE Refuse(r)

\* Mutant: archived when it is not given: not archived.
PatchConversationUnarchives(r) ==
  LET c == Do(r).room
      archived == IF Do(r).archived = None THEN FALSE ELSE Do(r).archived
  IN /\ At(r, "update room")
     /\ Commit(r, InsertInternalEvent(UpdateConversationDetails(db, c, Do(r).title, archived),
                       r, "conversation", c, db.room[c].space))
\* What is not given is kept, archived as it was read before the transaction.
PatchConversation(r) ==
  LET c == Do(r).room
      archived == IF Do(r).archived = None THEN Got(r).archived ELSE Do(r).archived
  IN /\ At(r, "update room")
     /\ Commit(r, InsertInternalEvent(UpdateConversationDetails(db, c, Do(r).title, archived),
                       r, "conversation", c, db.room[c].space))

\* The time of the message is drawn before the transaction.
CheckPost(r) ==
  /\ At(r, "post")
  /\ IF EnsureAgentSafeWrite(Caller(r)) /\ EnsureConversationAccess(Caller(r), Do(r).room)
     THEN /\ Connection
          /\ db' = [db EXCEPT !.clock = @ + 1]
          /\ Becomes(r, [req[r] EXCEPT !.got = db.clock + 1, !.pc = "insert message"])
     ELSE Refuse(r)
CreateMessageTx(r) ==
  LET c == Do(r).room
      posted == CreateMessage(db, r, c, Caller(r).user, Got(r))
  IN /\ At(r, "insert message")
     /\ Commit(r, InsertInternalEvent(TouchConversationLastMessage(posted, c, Got(r)), r, "conversation", c, db.room[c].space))

LoadMessage(r) ==
  /\ req[r].pc \in {"editMessage", "deleteMessage"}
  /\ IF EnsureHumanActor(Caller(r)) /\ \E m \in GetMessage(Do(r).message) : m.author = Caller(r).user
     THEN Read(r, db.message[Do(r).message].room, IF At(r, "editMessage") THEN "edit" ELSE "delete")
     ELSE Refuse(r)
PatchMessage(r) ==
  /\ At(r, "edit")
  /\ Commit(r, InsertInternalEvent(UpdateMessageContent(db, Do(r).message), r, "conversation", Got(r), db.room[Got(r)].space))
DeleteMessage(r) ==
  /\ At(r, "delete")
  /\ Commit(r, InsertInternalEvent(SoftDeleteMessage(db, Do(r).message), r, "conversation", Got(r), db.room[Got(r)].space))

CheckRead(r) ==
  /\ At(r, "putRead")
  /\ IF /\ EnsureAgentSafeWrite(Caller(r)) /\ EnsureConversationAccess(Caller(r), Do(r).room)
        /\ MessageExistsInConversation(Do(r).message, Do(r).room)
     THEN Read(r, None, "mark read") ELSE Refuse(r)
PutReadState(r) ==
  At(r, "mark read") /\ Commit(r, UpsertConversationRead(db, Do(r).room, Caller(r).user, Do(r).message))

-----------------------------------------------------------------------------
(* Workspaces.                                                             *)

\* A new workspace has its owner and a conversation open to its members.
CreateWorkspaceTx(r) ==
  LET u == Caller(r).user
      founded == CreateWorkspaceMembership(CreateWorkspace(db, r, Do(r).slug), r, u, "owner")
      told == InsertInternalEvent(CreateConversation(founded, r, r, "workspace", u), r, "workspace", r, r)
  IN /\ At(r, "createWorkspace")
     /\ IF ~EnsureHumanGlobal(Caller(r)) THEN Refuse(r)
        ELSE IF SlugTaken(db, r, Do(r).slug) THEN Fails(r)
        ELSE Commit(r, InsertInternalEvent(told, r, "conversation", r, r))

PatchWorkspace(r) ==
  LET w == Do(r).space
  IN /\ At(r, "patchWorkspace")
     /\ IF ~(EnsureHumanActor(Caller(r)) /\ EnsureWorkspaceAdmin(Caller(r), w)) THEN Refuse(r)
        ELSE IF SlugTaken(db, w, Do(r).slug) THEN Fails(r)
        ELSE Commit(r, InsertInternalEvent(UpdateWorkspace(db, w, Do(r).slug), r, "workspace", w, w))

-----------------------------------------------------------------------------
(* Reads that answer at once: what is shown, or nothing when refused.      *)

Things(kind, ids) == {<<kind, id>> : id \in ids}

GetMe(auth) == IF EnsureGlobal(auth)
  THEN {Things("user", {auth.user}) \cup Things("workspace", {s[1] : s \in ListMembershipSummaries(auth.user)})}
  ELSE {}
ListAPIKeys(auth) == IF EnsureHumanGlobal(auth) THEN {Things("key", ListAPIKeysByUser(auth.user))} ELSE {}
ListWorkspaces(auth) ==
  IF auth.space = None THEN {Things("workspace", ListActiveWorkspacesByUser(auth.user))}
  ELSE IF EnsureWorkspaceActiveMember(auth, auth.space) THEN {Things("workspace", GetWorkspace(auth.space))}
  ELSE {}
ShowWorkspace(auth, w) ==
  IF EnsureWorkspaceActiveMember(auth, w) THEN {Things("workspace", GetWorkspace(w))} ELSE {}
ListMembers(auth, w) ==
  IF EnsureWorkspaceActiveMember(auth, w) THEN {Things("user", ListWorkspaceMembers(w))} ELSE {}
ListAgents(auth) ==
  IF EnsureHumanGlobal(auth) THEN {Things("user", ListAgentsManagedByUser(auth.user))} ELSE {}
ShowAgent(auth, a) ==
  IF \E row \in GetAgent(a) : EnsureAgentManager(auth, row) THEN {Things("user", {a})} ELSE {}
ShowConversation(auth, c) ==
  IF EnsureConversationAccess(auth, c) THEN {Things("conversation", {c})} ELSE {}
ListParticipants(auth, c) ==
  IF ~EnsureConversationAccess(auth, c) THEN {}
  ELSE IF db.room[c].policy # "members" THEN {{}} ELSE {Things("user", ListConversationParticipants(c))}
ListSubscriptions(auth) ==
  IF EnsureHumanActor(auth) /\ (auth.space # None => EnsureWorkspaceActiveMember(auth, auth.space))
  THEN {Things("subscription", ListEventSubscriptionsByOwner(auth.user, auth.space))} ELSE {}

ReadOps == {"getMe", "listKeys", "listWorkspaces", "getWorkspace", "listMembers", "listAgents",
            "getAgent", "getConversation", "listParticipants", "listSubs"}
Reading(auth, do) ==
  CASE do.op = "getMe" -> GetMe(auth)                [] do.op = "listKeys" -> ListAPIKeys(auth)
    [] do.op = "listWorkspaces" -> ListWorkspaces(auth)
    [] do.op = "getWorkspace" -> ShowWorkspace(auth, do.space)
    [] do.op = "listMembers" -> ListMembers(auth, do.space)
    [] do.op = "listAgents" -> ListAgents(auth)      [] do.op = "getAgent" -> ShowAgent(auth, do.agent)
    [] do.op = "getConversation" -> ShowConversation(auth, do.room)
    [] do.op = "listParticipants" -> ListParticipants(auth, do.room)
    [] do.op = "listSubs" -> ListSubscriptions(auth)

Show(r) ==
  /\ req[r].pc \in ReadOps /\ Connection
  /\ LET shown == Reading(Caller(r), Do(r))
     IN \/ shown = {} /\ Refuse(r)
        \/ \E S \in shown :
             Becomes(r, [req[r] EXCEPT !.pc = "done", !.answer = "ok", !.got = [shown |-> S]]) /\ UNCHANGED db

-----------------------------------------------------------------------------
(* Lists in pages.  A client asks for a list page after page, each a       *)
(* request of its own with the cursor of the one before.                   *)

ListOps == {"listMessages", "listConversations", "listEvents"}

\* The rows, each once, by falling time.
Newest(rows, time) == {s \in [1 .. Cardinality(rows) -> rows] :
  /\ \A x \in rows : \E i \in DOMAIN s : s[i] = x
  /\ \A i, k \in DOMAIN s : i < k => s[i] # s[k] /\ time[s[i]] >= time[s[k]]}
MessagesOf(c) == {m \in DOMAIN db.message : db.message[m].room = c}
EventsAfter(r, cursor) == {e \in DOMAIN db.event :
  /\ e > cursor /\ ExternalEventVisible(e, Caller(r).user)
  /\ Do(r).space # None => db.event[e].space = Do(r).space}
ConversationsIn(w, u) == {c \in DOMAIN db.room :
  /\ db.room[c].space = w
  /\ (db.room[c].policy = "workspace" /\ w # None) \/ IsConversationParticipant(c, u)}

\* The rows a list shows now: kept from the first page on, to compare with.
Listed(r) ==
  CASE Do(r).op = "listMessages" -> MessagesOf(Do(r).room)
    [] Do(r).op = "listConversations" -> ConversationsIn(Do(r).space, Caller(r).user)
    [] Do(r).op = "listEvents" -> EventsAfter(r, 0)

\* With a workspace key a list of events or conversations names the workspace.
MayList(r) ==
  LET auth == Caller(r)
  IN IF Do(r).op = "listMessages" THEN EnsureConversationAccess(auth, Do(r).room)
     ELSE /\ auth.space # None => Do(r).space = auth.space
          /\ Do(r).space # None => EnsureWorkspaceActiveMember(auth, Do(r).space)

CheckList(r) ==
  /\ req[r].pc \in ListOps
  /\ IF MayList(r)
     THEN Read(r, IF Got(r) = Nothing THEN [cursor |-> 0, shown |-> {}, start |-> Listed(r)] ELSE Got(r), "page")
     ELSE Refuse(r)

\* the next request for the list, with a cursor; or the end
Paged(r, shown, cursor, more) ==
  /\ Connection /\ UNCHANGED db
  /\ Becomes(r, [req[r] EXCEPT !.got.shown = @ \cup shown, !.got.cursor = cursor,
                               !.pc = IF more THEN "authenticate" ELSE "done",
                               !.answer = IF more THEN @ ELSE "ok"])

\* One row more than the page has is read to see if there is a next page.
\* Mutant: the next page starts after that row.
OffsetPagePast(r, kind, rows) ==
  LET from == Got(r).cursor
      page == {rows[i] : i \in DOMAIN rows \cap (from + 1 .. from + Limit)}
  IN Paged(r, Things(kind, page), from + Limit + 1, from + Limit + 1 \in DOMAIN rows)
OffsetPage(r, kind, rows) ==
  LET from == Got(r).cursor
      page == {rows[i] : i \in DOMAIN rows \cap (from + 1 .. from + Limit)}
  IN Paged(r, Things(kind, page), from + Limit, from + Limit + 1 \in DOMAIN rows)

ListMessages(r) ==
  /\ At(r, "page") /\ Do(r).op = "listMessages"
  /\ LET posted == MessagesOf(Do(r).room)
     IN \E rows \in Newest(posted, [m \in posted |-> db.message[m].at]) : OffsetPage(r, "message", rows)

ListConversations(r) ==
  /\ At(r, "page") /\ Do(r).op = "listConversations"
  /\ LET open == ConversationsIn(Do(r).space, Caller(r).user)
     IN \E rows \in Newest(open, [c \in open |-> db.room[c].last]) : OffsetPage(r, "conversation", rows)

\* The cursor is the number of the last row that was read, shown or not; there
\* is one whenever the page is full.
ListEvents(r) ==
  LET rows == EventsAfter(r, Got(r).cursor)
      Before(e) == Cardinality({x \in rows : x < e})
      page == {e \in rows : Before(e) < Limit}
      read == {e \in rows : Before(e) <= Limit}
  IN /\ At(r, "page") /\ Do(r).op = "listEvents"
     /\ Paged(r, Things("event", page), Max0(read), Cardinality(page) = Limit)

-----------------------------------------------------------------------------
(* Subscriptions.  A workspace key manages those of its workspace.         *)

\* The resource a subscription is narrowed to, if any, is visible.
ResourceVisible(auth, about) ==
  \/ about[1] = "workspace" /\ EnsureWorkspaceActiveMember(auth, about[2])
  \/ about[1] = "conversation" /\ EnsureConversationAccess(auth, about[2])
  \/ about = <<"user", auth.user>>

CheckSubscription(r) ==
  LET auth == Caller(r)
      w == IF Do(r).space = None THEN auth.space ELSE Do(r).space
  IN /\ At(r, "createSub")
     /\ IF /\ EnsureHumanActor(auth)
           /\ w # None => EnsureWorkspaceActiveMember(auth, w)
           /\ Do(r).about # <<>> => ResourceVisible(auth, Do(r).about)
        THEN Read(r, w, "insert sub") ELSE Refuse(r)
CreateSubscription(r) ==
  At(r, "insert sub") /\ Commit(r, CreateEventSubscription(db, r, Caller(r).user, Got(r), Do(r).about))

SelectSubscription(r) ==
  /\ req[r].pc \in {"patchSub", "deleteSub"}
  /\ IF EnsureHumanActor(Caller(r)) /\ GetEventSubscriptionForUpdate(Do(r).sub, Caller(r).user) # {}
     THEN Locking(r, {<<"sub", Do(r).sub>>}, None, "check sub")
     ELSE Refuse(r)

\* The membership of a workspace key is read on a second connection.
CheckSubscriptionKey(r) ==
  LET w == Caller(r).space
  IN /\ At(r, "check sub")
     /\ \/ w = None
        \/ Connection /\ EnsureWorkspaceActiveMember(Caller(r), w) /\ db.sub[Do(r).sub].space = w
     /\ Becomes(r, [req[r] EXCEPT !.pc = "write sub"]) /\ UNCHANGED db
RefuseSubscriptionKey(r) ==
  LET w == Caller(r).space
  IN /\ At(r, "check sub") /\ w # None /\ Connection
     /\ ~EnsureWorkspaceActiveMember(Caller(r), w) \/ db.sub[Do(r).sub].space # w
     /\ Refuse(r)

PatchSubscription(r) ==
  /\ At(r, "write sub") /\ Do(r).op = "patchSub"
  /\ Commit(r, UpdateEventSubscriptionEnabled(db, Do(r).sub, Do(r).enabled))
DeleteSubscription(r) ==
  At(r, "write sub") /\ Do(r).op = "deleteSub" /\ Commit(r, DeleteEventSubscription(db, Do(r).sub))

-----------------------------------------------------------------------------
\* The events of the pipeline become rows of the feed in any order; the event
\* of a user or workspace or conversation is in its feed and its workspace's.
Project ==
  /\ \E i \in db.told :
       LET n == Max0(DOMAIN db.event) + 1
           space == IF i.space = None THEN {} ELSE {<<"workspace", i.space>>}
           own == IF i.kind = "workspace" THEN {} ELSE {<<i.kind, i.id>>}
       IN db' = [Add(db, "event", n, [space |-> i.space, feeds |-> own \cup space]) EXCEPT !.told = @ \ {i}]
  /\ UNCHANGED req

MessagingStep(r) ==
  \/ LoadConversation(r) \/ PatchConversation(r)
  \/ CheckPost(r) \/ CreateMessageTx(r) \/ LoadMessage(r) \/ PatchMessage(r) \/ DeleteMessage(r)
  \/ CheckRead(r) \/ PutReadState(r) \/ CreateWorkspaceTx(r) \/ PatchWorkspace(r) \/ Show(r)
  \/ CheckList(r) \/ ListMessages(r) \/ ListConversations(r) \/ ListEvents(r)
  \/ CheckSubscription(r) \/ CreateSubscription(r)
  \/ SelectSubscription(r) \/ CheckSubscriptionKey(r) \/ RefuseSubscriptionKey(r)
  \/ PatchSubscription(r) \/ DeleteSubscription(r)
=============================================================================
