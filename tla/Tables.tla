------------------------------- MODULE Tables -------------------------------
(***************************************************************************)
(* The tables the handlers of Requests work on, and the queries of         *)
(* internal/dbsqlc they use.  A table is a function from the ids of its    *)
(* rows; a query that writes takes the tables and returns them changed.    *)
(* The row a request inserts is named after the request.                   *)
(***************************************************************************)
EXTENDS FiniteSets, Integers, Sequences, TLC

CONSTANT None

VARIABLE db

Add(d, table, id, row) ==
  [d EXCEPT ![table] = [x \in DOMAIN @ \cup {id} |-> IF x = id THEN row ELSE @[x]]]
Max0(S) == IF S = {} THEN 0 ELSE CHOOSE n \in S : \A m \in S : m <= n

-----------------------------------------------------------------------------
(* Users, their profiles and sign-in.                                      *)

\* Mutant: no unique index on email.
UserClashOnHandle(d, u, email, handle) ==
  \E v \in DOMAIN d.user \ {u} : d.user[v].handle = handle
UserClash(d, u, email, handle) == \E v \in DOMAIN d.user \ {u} :
  d.user[v].handle = handle \/ (email # None /\ d.user[v].email = email)

GetUser(u) == db.user[u]
GetUserByEmail(email) == {u \in DOMAIN db.user : db.user[u].email = email}
CreateUser(d, u, kind, email, handle) ==
  Add(d, "user", u, [kind |-> kind, status |-> "active", email |-> email, handle |-> handle, bio |-> "none"])
\* handle is kept when not given, bio is overwritten
UpdateUserProfile(d, u, handle, bio) ==
  [d EXCEPT !.user[u].handle = IF handle = None THEN @ ELSE handle, !.user[u].bio = bio]
UpdateUserStatus(d, u, status) == [d EXCEPT !.user[u].status = status]

CreateEmailLoginChallenge(d, id, email, code) ==
  Add(d, "challenge", id, [email |-> email, code |-> code, used |-> FALSE, expired |-> FALSE,
                           at |-> Cardinality(DOMAIN d.challenge)])
\* the latest one that is not used, or none
GetEmailLoginChallenge(email, code) ==
  LET open == {c \in DOMAIN db.challenge :
                 /\ db.challenge[c].email = email /\ db.challenge[c].code = code
                 /\ ~db.challenge[c].used}
  IN {c \in open : \A o \in open : db.challenge[o].at <= db.challenge[c].at}
ConsumeEmailLoginChallenge(d, c) == [d EXCEPT !.challenge[c].used = TRUE]

CreateOAuthState(d, id) == [d EXCEPT !.state = @ \cup {id}]
GetOAuthStateByHash(id) == db.state \cap {id}
DeleteOAuthState(d, id) == [d EXCEPT !.state = @ \ {id}]
GetUserByOAuthAccount(who) == IF who \in DOMAIN db.account THEN {db.account[who]} ELSE {}
UpsertOAuthAccount(d, who, u) == Add(d, "account", who, u)

\* by (what the session was given for) is a history field.
CreateAuthSession(d, id, u, by) == Add(d, "session", id, [user |-> u, live |-> TRUE, by |-> by])
AgentMode(u) == IF u \in DOMAIN db.agent THEN db.agent[u].mode ELSE None
GetSessionAuth(c) ==
  {[user |-> db.session[c].user, space |-> None, session |-> c, mode |-> AgentMode(db.session[c].user)] :
     s \in {s \in DOMAIN db.session \cap {c} :
              db.session[s].live /\ db.user[db.session[s].user].status = "active"}}
RevokeAuthSession(d, c) == [d EXCEPT !.session[c].live = FALSE]

-----------------------------------------------------------------------------
(* API keys and agents.                                                    *)

CreateAPIKey(d, id, u, space) == Add(d, "key", id, [user |-> u, space |-> space, live |-> TRUE])
GetAPIKeyAuth(c) ==
  {[user |-> db.key[k].user, space |-> db.key[k].space, session |-> None,
    mode |-> AgentMode(db.key[k].user)] :
     k \in {k \in DOMAIN db.key \cap {c} :
              /\ db.key[k].live
              /\ db.user[db.key[k].user].status = "active" /\ db.user[db.key[k].user].kind = "human"}}
GetAPIKeyByID(k) == IF k \in DOMAIN db.key THEN {db.key[k]} ELSE {}
ListAPIKeysByUser(u) == {k \in DOMAIN db.key : db.key[k].user = u}
RevokeAPIKeyByOwner(d, k, u) ==
  IF d.key[k].user = u /\ d.key[k].live THEN [d EXCEPT !.key[k].live = FALSE] ELSE d

CreateAgent(d, u, owner, space, mode) ==
  Add(d, "agent", u, [owner |-> owner, space |-> space, mode |-> mode])
GetAgent(u) == IF u \in DOMAIN db.agent THEN {db.agent[u]} ELSE {}
UpdateAgent(d, u, mode) == [d EXCEPT !.agent[u].mode = IF mode = None THEN @ ELSE mode]

LiveTokens(d, a) == {t \in DOMAIN d.token : d.token[t].agent = a /\ d.token[t].live}
CreateAgentAPIKey(d, id, a) == Add(d, "token", id, [agent |-> a, live |-> TRUE, blank |-> FALSE])
GetActiveAgentAPIKey(a) == LiveTokens(db, a)
RevokeActiveAgentAPIKey(d, old) ==
  [d EXCEPT !.token = [t \in DOMAIN @ |-> IF t \in old THEN [@[t] EXCEPT !.live = FALSE] ELSE @[t]]]
GetAgentAPIKeyAuth(c) ==
  {[user |-> db.token[t].agent, space |-> db.agent[db.token[t].agent].space, session |-> None,
    mode |-> AgentMode(db.token[t].agent)] :
     t \in {t \in DOMAIN db.token \cap {c} :
              db.token[t].live /\ db.user[db.token[t].agent].status = "active"}}

-----------------------------------------------------------------------------
(* Workspaces and their members.  The role of an inactive member does not  *)
(* matter here: its entry is "suspended".                                  *)

Membership(w, u) == IF <<w, u>> \in DOMAIN db.member THEN db.member[<<w, u>>] ELSE "none"
IsActive(w, u) == Membership(w, u) \in {"member", "admin", "owner"}
ListAgentsManagedByUser(u) == {a \in DOMAIN db.agent :
  \/ db.agent[a].owner = u
  \/ db.agent[a].space # None /\ Membership(db.agent[a].space, u) \in {"admin", "owner"}}
SlugTaken(d, w, slug) == \E v \in DOMAIN d.space \ {w} : d.space[v] = slug
CreateWorkspace(d, w, slug) == Add(d, "space", w, slug)
GetWorkspace(w) == {w} \cap DOMAIN db.space
UpdateWorkspace(d, w, slug) == [d EXCEPT !.space[w] = IF slug = None THEN @ ELSE slug]
CreateWorkspaceMembership(d, w, u, role) == Add(d, "member", <<w, u>>, role)
ListActiveWorkspacesByUser(u) == {w \in DOMAIN db.space : IsActive(w, u)}
ListWorkspaceMembers(w) == {u \in DOMAIN db.user : <<w, u>> \in DOMAIN db.member}
ListMembershipSummaries(u) == {<<w, db.space[w]>> : w \in ListActiveWorkspacesByUser(u)}

-----------------------------------------------------------------------------
(* Conversations, messages, read marks and subscriptions.                  *)

CreateConversation(d, c, space, policy, u) ==
  Add(d, "room", c, [space |-> space, policy |-> policy, creator |-> u, title |-> "none",
                     archived |-> FALSE, last |-> d.clock])
GetConversation(c) == IF c \in DOMAIN db.room THEN {db.room[c]} ELSE {}
UpdateConversationDetails(d, c, title, archived) ==
  [d EXCEPT !.room[c].title = IF title = None THEN @ ELSE title, !.room[c].archived = archived]
TouchConversationLastMessage(d, c, at) == [d EXCEPT !.room[c].last = at]
IsConversationParticipant(c, u) == <<c, u>> \in db.seat
ListConversationParticipants(c) == {u \in DOMAIN db.user : <<c, u>> \in db.seat}
DeleteConversationParticipant(d, c, u) == [d EXCEPT !.seat = @ \ {<<c, u>>}]

CreateMessage(d, m, c, u, at) ==
  Add(d, "message", m, [room |-> c, author |-> u, at |-> at, body |-> "posted", deleted |-> FALSE])
GetMessage(m) == IF m \in DOMAIN db.message THEN {db.message[m]} ELSE {}
UpdateMessageContent(d, m) == [d EXCEPT !.message[m].body = "edited"]
SoftDeleteMessage(d, m) == [d EXCEPT !.message[m].deleted = TRUE]
MessageExistsInConversation(m, c) == \E row \in GetMessage(m) : row.room = c
UpsertConversationRead(d, c, u, m) == Add(d, "read", <<c, u>>, m)

CreateEventSubscription(d, id, u, space, about) ==
  Add(d, "sub", id, [owner |-> u, space |-> space, about |-> about, enabled |-> TRUE])
\* With a workspace key, those of its workspace.
ListEventSubscriptionsByOwner(u, space) == {s \in DOMAIN db.sub :
  db.sub[s].owner = u /\ (space = None \/ db.sub[s].space = space)}
GetEventSubscriptionForUpdate(id, u) == {s \in DOMAIN db.sub \cap {id} : db.sub[s].owner = u}
UpdateEventSubscriptionEnabled(d, id, enabled) == [d EXCEPT !.sub[id].enabled = enabled]
DeleteEventSubscription(d, id) ==
  [d EXCEPT !.sub = [s \in DOMAIN d.sub \ {id} |-> d.sub[s]]]

-----------------------------------------------------------------------------
(* Visibility as the SQL predicates of internal/repository have it.        *)

ConversationVisible(c, u) == \E row \in GetConversation(c) :
  \/ row.space = None /\ row.policy = "members" /\ IsConversationParticipant(c, u)
  \/ /\ row.space # None /\ IsActive(row.space, u)
     /\ row.policy = "workspace" \/ IsConversationParticipant(c, u)

\* The feeds of an event are pairs of a kind and an id.
ExternalEventVisible(e, u) == \E f \in db.event[e].feeds :
  \/ f = <<"user", u>>
  \/ f[1] = "workspace" /\ IsActive(f[2], u)
  \/ f[1] = "conversation" /\ ConversationVisible(f[2], u)

\* An internal event: whose request it is of, what it is about, and the
\* workspace it names.
InsertInternalEvent(d, r, kind, id, space) ==
  [d EXCEPT !.told = @ \cup {[by |-> r, kind |-> kind, id |-> id, space |-> space]}]
=============================================================================
