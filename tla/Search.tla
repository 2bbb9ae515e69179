------------------------------- MODULE Search -------------------------------
(***************************************************************************)
(* The query side of internal/search: the documents a resource has in the  *)
(* index, who may find them there, and a search that goes through the      *)
(* index, checks each candidate against the tables, and hands out pages.   *)
(***************************************************************************)
EXTENDS Messaging

CONSTANTS
  HydrateFactor,         \* 4: the candidates that are looked at, per hit asked for
  TargetLimit,           \* 25 to 100: the documents one query of a namespace answers with
  ShardForKey(_, _)      \* the shard of an id: a hash, of 4 for entities and of 8 for content
ASSUME HydrateAssumption == HydrateFactor \in Nat \ {0}
ASSUME TargetAssumption == TargetLimit \in Nat \ {0}

VARIABLE index           \* the documents (external: the namespaces of turbopuffer)

-----------------------------------------------------------------------------
(* Documents: one for each way a resource can be reached.                  *)

Doc(kind, id, principal, space, room) ==
  [kind |-> kind, id |-> id, principal |-> principal, space |-> space, room |-> room]

\* who reaches a conversation: its workspace, or its participants
ConversationAccessAnchor(c) ==
  IF db.room[c].policy = "workspace" /\ db.room[c].space # None
  THEN <<"workspace", db.room[c].space>> ELSE <<"conversation", c>>

BuildMessageDocuments(m) == LET c == db.message[m].room IN
  IF db.message[m].deleted THEN {}
  ELSE {Doc("message", m, ConversationAccessAnchor(c), db.room[c].space, c)}
BuildConversationDocuments(c) ==
  {Doc("conversation", c, ConversationAccessAnchor(c), db.room[c].space, c)}
BuildWorkspaceDocuments(w) == {Doc("workspace", w, <<"workspace", w>>, w, None)}

MemberConversations(u, w) == {c \in DOMAIN db.room :
  /\ IsConversationParticipant(c, u) /\ db.room[c].policy = "members"
  /\ w # None => db.room[c].space = w}
ActiveWorkspaceAnchors(u) == {w \in DOMAIN db.space : IsActive(w, u)}
BuildUserDocuments(u) ==
  IF GetUser(u).status # "active" THEN {}
  ELSE {Doc("user", u, <<"user", u>>, None, None)}
       \cup {Doc("user", u, <<"workspace", w>>, w, None) : w \in ActiveWorkspaceAnchors(u)}
       \cup {Doc("user", u, <<"conversation", c>>, db.room[c].space, c) : c \in MemberConversations(u, None)}

\* An event of a conversation open to a workspace is reached like one of the
\* workspace: its document names no conversation.
EventAnchor(e, f) ==
  IF f[1] = "user" THEN Doc("event", e, f, None, None)
  ELSE IF f[1] = "workspace" THEN Doc("event", e, f, f[2], None)
  ELSE LET a == ConversationAccessAnchor(f[2])
       IN Doc("event", e, a, db.room[f[2]].space, IF a = f THEN f[2] ELSE None)
BuildEventDocuments(e) == {EventAnchor(e, f) : f \in db.event[e].feeds}

Table == [message |-> "message", conversation |-> "room", workspace |-> "space",
          user |-> "user", event |-> "event"]
BuildDocumentsForResource(kind, id) ==
  IF id \notin DOMAIN db[Table[kind]] THEN {}
  ELSE CASE kind = "message" -> BuildMessageDocuments(id)
         [] kind = "conversation" -> BuildConversationDocuments(id)
         [] kind = "workspace" -> BuildWorkspaceDocuments(id)
         [] kind = "user" -> BuildUserDocuments(id)
         [] kind = "event" -> BuildEventDocuments(id)

\* All documents of a resource are in one namespace.
DocumentCorpus(kind) == IF kind \in {"message", "event"} THEN "content" ELSE "entity"
NamespaceName(d) == <<DocumentCorpus(d.kind), ShardForKey(d.id, DocumentCorpus(d.kind))>>

Resources == UNION {Things(kind, DOMAIN db[Table[kind]]) : kind \in DOMAIN Table}
FreshIndex == UNION {BuildDocumentsForResource(x[1], x[2]) : x \in Resources}

\* The indexer replaces the documents of one resource by what it builds now.
\* bound: of these kinds, the ones that are searched.
Reindex(kinds) ==
  \E x \in {y \in Resources : y[1] \in kinds} :
    index' = BuildDocumentsForResource(x[1], x[2])
             \cup {d \in index : <<d.kind, d.id>> # x}

-----------------------------------------------------------------------------
(* The search of one page.                                                 *)

WorkspaceVisible(w, u) == IsActive(w, u)
RoomVisible(c, u, allowGlobal) == \E row \in GetConversation(c) :
  IF row.space = None
  THEN allowGlobal /\ row.policy = "members" /\ IsConversationParticipant(c, u)
  ELSE /\ WorkspaceVisible(row.space, u)
       /\ row.policy = "workspace" \/ IsConversationParticipant(c, u)
UserVisible(viewer, u, space, room) ==
  \/ viewer = u
  \/ room # None /\ {<<room, viewer>>, <<room, u>>} \subseteq db.seat
  \/ room = None /\ space # None /\ IsActive(space, viewer) /\ IsActive(space, u)

AllowGlobal(auth) == auth.space = None
SearchedSpace(auth, do) == IF do.space = None THEN auth.space ELSE do.space

\* A cursor names the workspace that was searched; it is compared with the one
\* of the request.
CursorMatches(r) == Got(r) # Nothing => Got(r).space = Do(r).space

MaySearch(auth, do) ==
  LET w == SearchedSpace(auth, do)
  IN /\ auth.space # None => w = auth.space
     /\ w # None => WorkspaceVisible(w, auth.user)
     /\ do.room # None =>
          /\ RoomVisible(do.room, auth.user, AllowGlobal(auth))
          /\ w # None => db.room[do.room].space = w

StartSearch(r) ==
  /\ At(r, "search")
  /\ IF CursorMatches(r) /\ MaySearch(Caller(r), Do(r))
     THEN Read(r, IF Got(r) = Nothing THEN [space |-> Do(r).space, shown |-> {}] ELSE Got(r), "principals")
     ELSE Refuse(r)

\* Mutant: only the caller and its workspaces.
PrincipalsWithoutRooms(u, allowGlobal, w) ==
  (IF allowGlobal /\ w = None THEN {<<"user", u>>} ELSE {})
  \cup Things("workspace", IF w = None THEN ListActiveWorkspacesByUser(u) ELSE {w})
ResolveQueryPrincipals(u, allowGlobal, w) ==
  (IF allowGlobal /\ w = None THEN {<<"user", u>>} ELSE {})
  \cup Things("workspace", IF w = None THEN ListActiveWorkspacesByUser(u) ELSE {w})
  \cup Things("conversation", MemberConversations(u, w))

ReadPrincipals(r) ==
  LET w == SearchedSpace(Caller(r), Do(r))
  IN /\ At(r, "principals")
     /\ Read(r, [principals |-> ResolveQueryPrincipals(Caller(r).user, AllowGlobal(Caller(r)), w),
                 space |-> w, shown |-> Got(r).shown], "candidates")

Keys(docs) == {<<d.kind, d.id>> : d \in docs}
BuildSearchFilter(r, principals) == {d \in index :
  /\ d.principal \in principals
  /\ Do(r).kinds # {} => d.kind \in Do(r).kinds
  /\ Got(r).space # None => d.space = Got(r).space
  /\ Do(r).room # None => d.room = Do(r).room
  /\ <<d.kind, d.id>> \notin Got(r).shown}

EndPage(r, got, more) ==
  /\ Becomes(r, [req[r] EXCEPT !.got = [space |-> got.space, shown |-> got.shown],
                               !.pc = IF more THEN "authenticate" ELSE "done",
                               !.answer = IF more THEN @ ELSE "ok"])
  /\ UNCHANGED db

\* Each namespace is asked twice, by words and by vector, and answers with the
\* TargetLimit documents that rank highest: with all of them, unless it is
\* crowded.  It counts documents, of which several may be of one resource.
Sharing(docs, d) == {e \in docs : NamespaceName(e) = NamespaceName(d)}
Crowded(docs) == {d \in docs : Cardinality(Sharing(docs, d)) > TargetLimit}
Answers(docs) == {found \in {docs \ out : out \in SUBSET Crowded(docs)} :
  \A d \in Crowded(docs) : Cardinality(Sharing(found, d)) \in TargetLimit .. 2 * TargetLimit}

\* The candidates are ranked by relevance: any order.
QueryCandidates(r) ==
  /\ At(r, "candidates")
  /\ \E found \in Answers(BuildSearchFilter(r, Got(r).principals)) :
       LET all == Cardinality(Keys(found))
           looked == IF all <= HydrateFactor * Limit THEN all ELSE HydrateFactor * Limit
       IN IF found = {} THEN EndPage(r, Got(r), FALSE)
          ELSE /\ Becomes(r, [req[r] EXCEPT !.pc = "hydrate", !.got =
                    [space |-> Got(r).space, shown |-> Got(r).shown, found |-> found,
                     left |-> looked, hits |-> 0, all |-> all]])
               /\ UNCHANGED db

\* Mutant: a message is a hit when its conversation is there.
HydrateMessageUnseen(auth, d) == ~db.message[d.id].deleted
HydrateMessage(auth, d) ==
  ~db.message[d.id].deleted /\ RoomVisible(db.message[d.id].room, auth.user, AllowGlobal(auth))
HydrateConversation(auth, d) == RoomVisible(d.id, auth.user, AllowGlobal(auth))
HydrateWorkspace(auth, d) == WorkspaceVisible(d.id, auth.user)
HydrateUser(auth, d) == UserVisible(auth.user, d.id, d.space, d.room)
HydrateEvent(auth, d) == ExternalEventVisible(d.id, auth.user)
HydrateCandidate(auth, d) ==
  CASE d.kind = "message" -> HydrateMessage(auth, d)
    [] d.kind = "conversation" -> HydrateConversation(auth, d)
    [] d.kind = "workspace" -> HydrateWorkspace(auth, d)
    [] d.kind = "user" -> HydrateUser(auth, d)
    [] d.kind = "event" -> HydrateEvent(auth, d)

\* One candidate is checked: which of its documents tells its workspace and
\* conversation is the last one that was merged.
Hydrate(r) ==
  /\ At(r, "hydrate") /\ Got(r).left > 0 /\ Got(r).hits < Limit
  /\ \E d \in Got(r).found :
       LET hit == HydrateCandidate(Caller(r), d)
       IN Read(r, [Got(r) EXCEPT !.found = {o \in @ : <<o.kind, o.id>> # <<d.kind, d.id>>},
                     !.left = @ - 1, !.hits = IF hit THEN @ + 1 ELSE @,
                     !.shown = IF hit THEN @ \cup {<<d.kind, d.id>>} ELSE @], "hydrate")

\* There is a cursor when the page is full and not all candidates were hits.
FinishSearch(r) ==
  /\ At(r, "hydrate") /\ (Got(r).left = 0 \/ Got(r).hits = Limit)
  /\ EndPage(r, Got(r), Got(r).hits = Limit /\ Got(r).all > Got(r).hits)

SearchStep(r) ==
  StartSearch(r) \/ ReadPrincipals(r) \/ QueryCandidates(r) \/ Hydrate(r) \/ FinishSearch(r)
=============================================================================
